----------------------------- MODULE StopAndWait -----------------------------
(***************************************************************************)
(* src/ldk/arq/StopAndWait.cpp: two StopAndWait functional units talk over *)
(* lower layers that keep the order of the frames but may lose any of      *)
(* them.  One action is one entry into the unit (a compound from above, a  *)
(* frame from below, the wakeup of the lower layer, the resend timeout, a  *)
(* request to suspend) run to completion, as the event scheduler does it:  *)
(* ldk/Delayed.hpp ends every entry with tryToSend(), so every action here *)
(* ends with TryToSend.                                                    *)
(***************************************************************************)
EXTENDS Duplex

CONSTANTS SDU,          \* compounds of the upper layer
          NoCompound,   \* CompoundPtr(), the null pointer
          MaxFrames,    \* bound: compounds the upper layer of each peer sends
          WireCap       \* frames the lower layer of a peer can hold

IFrame  == [type : {"I"}, NS : Nat, sdu : SDU]
RRFrame == [type : {"RR"}, NS : Nat]
Frame   == IFrame \cup RRFrame

ASSUME StopAndWaitAssumption ==
    /\ MaxFrames \in [Peer -> Nat]
    /\ WireCap \in Nat \ {0}
    /\ NoCompound \notin Frame

VARIABLES NS,              \* number of the next I frame
          NR,              \* number of the I frame expected next
          activeCompound,  \* the I frame that is not acknowledged yet
          sendNow,         \* activeCompound is still to be (re)sent
          ackCompound,     \* the RR frame that is still to be sent
          timeoutSet,      \* CanTimeout: the resend timeout is pending
          suspending, suspended,   \* SuspendSupport
          wire,            \* wire[p]: frames from p to the other peer
          accepted, delivered,     \* history of the two upper layers
          statusOnNull,    \* the status collector was given a null compound
          failure          \* the assure() or throw that ended the program

unitVars    == <<NS, NR, activeCompound, sendNow, ackCompound, timeoutSet>>
suspendVars == <<suspending, suspended>>
userVars    == <<accepted, delivered>>
vars == <<unitVars, suspendVars, wire, userVars, statusOnNull, failure>>

Failure == {"none", "A timer has been set already", "Unexpected timeout",
            "I frame neither NR nor NR-1", "RR frame neither NS nor NS-1"}

Init ==
    /\ NS = [p \in Peer |-> 0]
    /\ NR = [p \in Peer |-> 0]
    /\ activeCompound = [p \in Peer |-> NoCompound]
    /\ sendNow = [p \in Peer |-> FALSE]
    /\ ackCompound = [p \in Peer |-> NoCompound]
    /\ timeoutSet = [p \in Peer |-> FALSE]
    /\ suspending = [p \in Peer |-> FALSE]
    /\ suspended = [p \in Peer |-> FALSE]
    /\ wire = [p \in Peer |-> << >>]
    /\ accepted = [p \in Peer |-> << >>]
    /\ delivered = [p \in Peer |-> << >>]
    /\ statusOnNull = FALSE
    /\ failure = "none"

-------------------------------------------------------------------------------
(* The loop of Delayed::tryToSend over ARQ::hasSomethingToSend: the ACK    *)
(* goes first, then the data, each only while the connector has an         *)
(* acceptor.  The arguments are the members as the handler left them.      *)

hasAcceptor(w) == Len(w) < WireCap

SendsACK_NoneWaiting(ack, w) == hasAcceptor(w)   \* fault: hasACK() not asked

SendsACK(ack, w) == ack # NoCompound /\ hasAcceptor(w)

AfterACK(ack, w) == IF SendsACK(ack, w) THEN Append(w, ack) ELSE w

SendsData(active, now, w) == now /\ active # NoCompound /\ hasAcceptor(w)

TryToSend(p, active, now, timer, ack, wires) ==
    LET w    == AfterACK(ack, wires[p])
        data == SendsData(active, now, w)
    IN  /\ activeCompound' = [activeCompound EXCEPT ![p] = active]
        /\ sendNow' = [sendNow EXCEPT ![p] = now /\ ~data]
        /\ timeoutSet' = [timeoutSet EXCEPT ![p] = timer \/ data]
        /\ ackCompound' = [ackCompound EXCEPT ![p] =
                              IF SendsACK(ack, wires[p]) THEN NoCompound ELSE ack]
        /\ wire' = [wires EXCEPT ![p] = IF data THEN Append(w, active) ELSE w]
        /\ failure' = IF data /\ timer THEN "A timer has been set already"
                                       ELSE failure

onSuspend_Always(active) == active \in IFrame \cup {NoCompound}   \* fault

onSuspend(active) == active = NoCompound

(* SuspendSupport::trySuspend, called with activeCompound already updated.  *)
trySuspend(p, active) ==
    suspended' = [suspended EXCEPT ![p] = @ \/ (suspending[p] /\ onSuspend(active))]

(* A throw leaves the handler before tryToSend and ends the simulation.    *)
Throw(p, what) ==
    /\ failure' = what
    /\ wire' = [wire EXCEPT ![Other(p)] = Tail(@)]
    /\ UNCHANGED <<unitVars, suspendVars, userVars, statusOnNull>>

-------------------------------------------------------------------------------
hasCapacity_Always(p) == p \in Peer   \* fault: accepts while waiting for an ACK

hasCapacity(p) == activeCompound[p] = NoCompound

SendData(p, d) ==
    /\ Len(accepted[p]) < MaxFrames[p]
    /\ hasCapacity(p)
    /\ accepted' = [accepted EXCEPT ![p] = Append(@, d)]
    /\ NS' = [NS EXCEPT ![p] = @ + 1]
    /\ TryToSend(p, [type |-> "I", NS |-> NS[p], sdu |-> d], TRUE,
                 timeoutSet[p], ackCompound[p], wire)
    /\ UNCHANGED <<NR, delivered, suspendVars, statusOnNull>>

(* fault: the timeout is consumed, sendNow stays as it was                 *)
OnTimeout_NotMarked(p) ==
    /\ timeoutSet[p]
    /\ TryToSend(p, activeCompound[p], sendNow[p], FALSE, ackCompound[p], wire)
    /\ UNCHANGED <<NS, NR, userVars, suspendVars, statusOnNull>>

OnTimeout(p) ==
    /\ timeoutSet[p]
    /\ IF activeCompound[p] = NoCompound
       THEN /\ failure' = "Unexpected timeout"
            /\ UNCHANGED <<unitVars, wire>>
       ELSE /\ TryToSend(p, activeCompound[p], TRUE, FALSE, ackCompound[p], wire)
            /\ UNCHANGED <<NS, NR>>
    /\ UNCHANGED <<userVars, suspendVars, statusOnNull>>

Wakeup(p) ==
    /\ hasAcceptor(wire[p])
    /\ ackCompound[p] # NoCompound \/ (sendNow[p] /\ activeCompound[p] # NoCompound)
    /\ TryToSend(p, activeCompound[p], sendNow[p], timeoutSet[p], ackCompound[p], wire)
    /\ UNCHANGED <<NS, NR, userVars, suspendVars, statusOnNull>>

Arrives(p, type) == /\ wire[Other(p)] # << >>
                    /\ Head(wire[Other(p)]).type = type

IsExpected(p, frame) == frame.NS = NR[p]

(* The case I of processIncoming: a new or a repeated frame, each answered *)
(* with an RR frame that replaces one still waiting to be sent.            *)
ReceiveI(p) ==
    LET frame == Head(wire[Other(p)])
        isNew == IsExpected(p, frame)
        nr    == IF isNew THEN NR[p] + 1 ELSE NR[p]
    IN  /\ Arrives(p, "I")
        /\ IF frame.NS \in {NR[p], NR[p] - 1}
           THEN /\ NR' = [NR EXCEPT ![p] = nr]
                /\ delivered' = IF isNew
                                THEN [delivered EXCEPT ![p] = Append(@, frame.sdu)]
                                ELSE delivered
                /\ TryToSend(p, activeCompound[p], sendNow[p], timeoutSet[p],
                             [type |-> "RR", NS |-> nr],
                             [wire EXCEPT ![Other(p)] = Tail(@)])
                /\ UNCHANGED <<NS, accepted, suspendVars, statusOnNull>>
           ELSE Throw(p, "I frame neither NR nor NR-1")

(* The case RR of processIncoming: a duplicate only runs tryToSend.        *)
ReceiveRR(p) ==
    LET frame == Head(wire[Other(p)])
        rest  == [wire EXCEPT ![Other(p)] = Tail(@)]
    IN  /\ Arrives(p, "RR")
        /\ \/ /\ frame.NS = NS[p]
              /\ statusOnNull' = (statusOnNull \/ activeCompound[p] = NoCompound)
              /\ trySuspend(p, NoCompound)
              /\ TryToSend(p, NoCompound, sendNow[p], FALSE, ackCompound[p], rest)
              /\ UNCHANGED <<NS, NR, userVars, suspending>>
           \/ /\ frame.NS = NS[p] - 1
              /\ TryToSend(p, activeCompound[p], sendNow[p], timeoutSet[p],
                           ackCompound[p], rest)
              /\ UNCHANGED <<NS, NR, userVars, suspendVars, statusOnNull>>
           \/ /\ frame.NS \notin {NS[p], NS[p] - 1}
              /\ Throw(p, "RR frame neither NS nor NS-1")

(* SuspendSupport::doSuspend: a new request forgets the answer to the last. *)
Suspend(p) ==
    /\ ~suspending[p] \/ suspended[p]
    /\ suspending' = [suspending EXCEPT ![p] = TRUE]
    /\ suspended' = [suspended EXCEPT ![p] = onSuspend(activeCompound[p])]
    /\ UNCHANGED <<unitVars, wire, userVars, statusOnNull, failure>>

(* The lower layers drop the frame that would arrive next.                 *)
Lose(p) ==
    /\ wire[p] # << >>
    /\ wire' = [wire EXCEPT ![p] = Tail(@)]
    /\ UNCHANGED <<unitVars, suspendVars, userVars, statusOnNull, failure>>

Next ==
    /\ failure = "none"
    /\ \E p \in Peer :
          \/ \E d \in SDU : SendData(p, d)
          \/ OnTimeout(p)
          \/ Wakeup(p)
          \/ ReceiveI(p)
          \/ ReceiveRR(p)
          \/ Suspend(p)
          \/ Lose(p)

Spec == Init /\ [][Next]_vars

(* The event scheduler reaches every pending timeout, the lower layer      *)
(* calls wakeup when it has room, and it does not lose every copy of a     *)
(* frame that is sent again and again.                                     *)
Fairness ==
    \A p \in Peer :
        /\ WF_vars(failure = "none" /\ OnTimeout(p))
        /\ WF_vars(failure = "none" /\ Wakeup(p))
        /\ SF_vars(failure = "none" /\ ReceiveI(p))
        /\ SF_vars(failure = "none" /\ ReceiveRR(p))

LiveSpec == Spec /\ Fairness

-------------------------------------------------------------------------------
TypeOK ==
    /\ NS \in [Peer -> Nat] /\ NR \in [Peer -> Nat]
    /\ activeCompound \in [Peer -> IFrame \cup {NoCompound}]
    /\ ackCompound \in [Peer -> RRFrame \cup {NoCompound}]
    /\ sendNow \in [Peer -> BOOLEAN] /\ timeoutSet \in [Peer -> BOOLEAN]
    /\ suspending \in [Peer -> BOOLEAN] /\ suspended \in [Peer -> BOOLEAN]
    /\ wire \in [Peer -> Seq(Frame)]
    /\ accepted \in [Peer -> Seq(SDU)] /\ delivered \in [Peer -> Seq(SDU)]
    /\ statusOnNull \in BOOLEAN
    /\ failure \in Failure

Link == INSTANCE ReliableLink WITH Window <- 1

(* The two throws commented "this can not happen" (StopAndWait.cpp:211 and *)
(* :231), the assure on a second resend timeout (CanTimeout.cpp:56) and    *)
(* the one on a timeout without a compound (StopAndWait.cpp:150) are never *)
(* reached, whatever is lost and whenever the timeout fires.               *)
NoFailure == failure = "none"

(* What reaches the upper layer of a peer is an initial segment of what    *)
(* the upper layer of its partner sent: nothing lost, repeated, reordered. *)
InOrder == Link!InOrder

(* An unacknowledged compound is never forgotten: it is marked for sending *)
(* or its resend timeout is pending, never both, and an idle unit has no   *)
(* timeout left over to disturb the next compound.                         *)
TimerGuardsActive ==
    \A p \in Peer :
        /\ activeCompound[p] # NoCompound => (sendNow[p] # timeoutSet[p])
        /\ activeCompound[p] = NoCompound => ~timeoutSet[p]

(* A unit reports suspended() to its SuspendedInterface only when the      *)
(* partner has handed up every compound it accepted.                       *)
SuspendIsClean ==
    [][\A p \in Peer :
          suspended'[p] /\ ~suspended[p]
            => Len(delivered'[Other(p)]) = Len(accepted'[p])]_vars

(* Every request to suspend is answered by suspended().                    *)
SuspendCompletes == \A p \in Peer : suspending[p] ~> suspended[p]

(* The status collector is told of a success only for a compound that was  *)
(* waiting: "this is the ACK we've been waiting for" (StopAndWait.cpp:251). *)
SuccessHasCompound == ~statusOnNull

(* Stop-and-wait is a reliable link for one compound at a time: every step *)
(* of the two units is a step of ReliableLink or leaves the users alone.   *)
ImplementsReliableLink == Link!Spec

(* Whatever is lost, all that was accepted is handed up in the end.        *)
DeliversEverything == Link!LiveSpec
===============================================================================
