---------------------------- MODULE StopAndWaitRC ----------------------------
(***************************************************************************)
(* src/ldk/arq/StopAndWaitRC.cpp: stop-and-wait with a port of its own for *)
(* the acknowledgements.  I frames and RR frames travel over separate      *)
(* lower layers, each of which keeps the order and may lose frames, but    *)
(* which overtake each other.  One action is one entry into the unit.      *)
(***************************************************************************)
EXTENDS Duplex

CONSTANTS SDU,          \* compounds of the upper layer
          NoCompound,   \* CompoundPtr(), the null pointer
          MaxFrames,    \* bound: compounds the upper layer of each peer sends
          WireCap       \* frames the lower layer of a port can hold

IFrame  == [type : {"I"}, NS : Nat, sdu : SDU]
RRFrame == [type : {"RR"}, NS : Nat]

ASSUME StopAndWaitRCAssumption ==
    /\ MaxFrames \in [Peer -> Nat]
    /\ WireCap \in Nat \ {0}
    /\ NoCompound \notin IFrame \cup RRFrame

VARIABLES NS,              \* number of the next I frame
          NR,              \* number of the I frame expected next
          activeCompound,  \* the I frame that is not acknowledged yet
          ackCompound,     \* the RR frame that is still to be sent
          sendNowData,     \* a wakeup of the data port shall send
          timeoutSet,      \* CanTimeout: the resend timeout is pending
          dataWire,        \* dataWire[p]: I frames from p to its partner
          ackWire,         \* ackWire[p]: RR frames from p to its partner
          accepted, delivered,   \* history of the two upper layers
          repeated,        \* history: p has received an I frame twice
          failure          \* the assure() or throw that ended the program

senderVars   == <<NS, activeCompound, sendNowData, timeoutSet>>
receiverVars == <<NR, ackCompound>>
historyVars  == <<accepted, delivered, repeated>>
vars == <<senderVars, receiverVars, dataWire, ackWire, historyVars, failure>>

Throws  == {"I frame neither NR nor NR-1", "RR frame neither NS nor NS-1",
            "Unexpected timeout"}
Failure == Throws \cup {"none", "A timer has been set already", "null compound"}

Init ==
    /\ NS = [p \in Peer |-> 0]
    /\ NR = [p \in Peer |-> 0]
    /\ activeCompound = [p \in Peer |-> NoCompound]
    /\ ackCompound = [p \in Peer |-> NoCompound]
    /\ sendNowData = [p \in Peer |-> FALSE]
    /\ timeoutSet = [p \in Peer |-> FALSE]
    /\ dataWire = [p \in Peer |-> << >>]
    /\ ackWire = [p \in Peer |-> << >>]
    /\ accepted = [p \in Peer |-> << >>]
    /\ delivered = [p \in Peer |-> << >>]
    /\ repeated = [p \in Peer |-> FALSE]
    /\ failure = "none"

hasAcceptor(w) == Len(w) < WireCap

(* setTimeout, then a copy of the compound goes down the data port.  The   *)
(* port only knows whether it has room: it would take a null compound too. *)
Transmit(p, compound, timer) ==
    IF timer
    THEN /\ failure' = "A timer has been set already"
         /\ UNCHANGED <<timeoutSet, dataWire>>
    ELSE /\ timeoutSet' = [timeoutSet EXCEPT ![p] = TRUE]
         /\ IF compound = NoCompound
            THEN failure' = "null compound" /\ UNCHANGED dataWire
            ELSE /\ dataWire' = [dataWire EXCEPT ![p] = Append(@, compound)]
                 /\ UNCHANGED failure

-------------------------------------------------------------------------------
isAccepting(p) == activeCompound[p] = NoCompound /\ hasAcceptor(dataWire[p])

(* isAccepting has asked the data port, so that doSendData finds it        *)
(* accepting and never takes the branch that sets sendNowData.             *)
SendData(p, d) ==
    LET compound == [type |-> "I", NS |-> NS[p], sdu |-> d]
    IN  /\ Len(accepted[p]) < MaxFrames[p]
        /\ isAccepting(p)
        /\ accepted' = [accepted EXCEPT ![p] = Append(@, d)]
        /\ activeCompound' = [activeCompound EXCEPT ![p] = compound]
        /\ NS' = [NS EXCEPT ![p] = @ + 1]
        /\ Transmit(p, compound, timeoutSet[p])
        /\ UNCHANGED <<sendNowData, receiverVars, ackWire, delivered, repeated>>

WakeupData(p) ==
    /\ sendNowData[p] /\ hasAcceptor(dataWire[p])
    /\ Transmit(p, activeCompound[p], timeoutSet[p])
    /\ sendNowData' = [sendNowData EXCEPT ![p] = failure' # "none"]
    /\ UNCHANGED <<NS, activeCompound, receiverVars, ackWire, historyVars>>

(* fault: an RR frame is sent whether one waits or not                     *)
WakeupAck_NoneWaiting(p) ==
    /\ hasAcceptor(ackWire[p])
    /\ ackWire' = [ackWire EXCEPT ![p] = Append(@, ackCompound[p])]
    /\ ackCompound' = [ackCompound EXCEPT ![p] = NoCompound]
    /\ UNCHANGED <<senderVars, NR, dataWire, historyVars, failure>>

WakeupAck(p) ==
    /\ ackCompound[p] # NoCompound /\ hasAcceptor(ackWire[p])
    /\ ackWire' = [ackWire EXCEPT ![p] = Append(@, ackCompound[p])]
    /\ ackCompound' = [ackCompound EXCEPT ![p] = NoCompound]
    /\ UNCHANGED <<senderVars, NR, dataWire, historyVars, failure>>

(* An RR frame is sent at once or waits in place of an older one.          *)
Reply(p, rr) ==
    IF hasAcceptor(ackWire[p])
    THEN /\ ackWire' = [ackWire EXCEPT ![p] = Append(@, rr)]
         /\ ackCompound' = [ackCompound EXCEPT ![p] = NoCompound]
    ELSE ackCompound' = [ackCompound EXCEPT ![p] = rr] /\ UNCHANGED ackWire

(* fault: the repetition of the last frame is taken for a new one          *)
IsExpected_OrRepeated(p, frame) == frame.NS \in {NR[p], NR[p] - 1}

IsExpected(p, frame) == frame.NS = NR[p]

(* doOnData of the data port.  The RR frame carries NR as it was before    *)
(* the frame was counted.                                                  *)
ReceiveData(p) ==
    LET frame == Head(dataWire[Other(p)])
    IN  /\ dataWire[Other(p)] # << >>
        /\ dataWire' = [dataWire EXCEPT ![Other(p)] = Tail(@)]
        /\ UNCHANGED <<senderVars, accepted>>
        /\ IF frame.NS \in {NR[p], NR[p] - 1}
           THEN /\ Reply(p, [type |-> "RR", NS |-> NR[p]])
                /\ IF IsExpected(p, frame)
                   THEN /\ delivered' = [delivered EXCEPT ![p] = Append(@, frame.sdu)]
                        /\ NR' = [NR EXCEPT ![p] = @ + 1]
                        /\ UNCHANGED repeated
                   ELSE /\ repeated' = [repeated EXCEPT ![p] = TRUE]
                        /\ UNCHANGED <<delivered, NR>>
                /\ UNCHANGED failure
           ELSE /\ failure' = "I frame neither NR nor NR-1"
                /\ UNCHANGED <<receiverVars, ackWire, delivered, repeated>>

(* fault: the RR frame of the last compound acknowledges this one          *)
Acknowledges_OrOlder(p, frame) == frame.NS \in {NS[p], NS[p] - 1}

Acknowledges(p, frame) == frame.NS = NS[p]

(* doOnData of the ack port: sendNowData stays as it is.                   *)
ReceiveAck(p) ==
    LET frame == Head(ackWire[Other(p)])
    IN  /\ ackWire[Other(p)] # << >>
        /\ ackWire' = [ackWire EXCEPT ![Other(p)] = Tail(@)]
        /\ UNCHANGED <<NS, sendNowData, receiverVars, dataWire, historyVars>>
        /\ IF frame.NS \notin {NS[p], NS[p] - 1}
           THEN /\ failure' = "RR frame neither NS nor NS-1"
                /\ UNCHANGED <<activeCompound, timeoutSet>>
           ELSE /\ IF Acknowledges(p, frame)
                   THEN /\ activeCompound' = [activeCompound EXCEPT ![p] = NoCompound]
                        /\ timeoutSet' = [timeoutSet EXCEPT ![p] = FALSE]
                   ELSE UNCHANGED <<activeCompound, timeoutSet>>
                /\ UNCHANGED failure

(* fault: a timeout that finds the data port closed is forgotten           *)
Blocked_Forgotten(p) == p \in Peer /\ UNCHANGED sendNowData

Blocked(p) == sendNowData' = [sendNowData EXCEPT ![p] = TRUE]

OnTimeout(p) ==
    /\ timeoutSet[p]
    /\ UNCHANGED <<NS, activeCompound, receiverVars, ackWire, historyVars>>
    /\ IF activeCompound[p] = NoCompound /\ sendNowData[p]
       THEN /\ failure' = "Unexpected timeout"
            /\ UNCHANGED <<sendNowData, timeoutSet, dataWire>>
       ELSE IF hasAcceptor(dataWire[p])
       THEN Transmit(p, activeCompound[p], FALSE) /\ UNCHANGED sendNowData
       ELSE /\ Blocked(p)
            /\ timeoutSet' = [timeoutSet EXCEPT ![p] = FALSE]
            /\ UNCHANGED <<dataWire, failure>>

(* The lower layers of a port drop the frame that would arrive next.       *)
LoseData(p) ==
    /\ dataWire[p] # << >>
    /\ dataWire' = [dataWire EXCEPT ![p] = Tail(@)]
    /\ UNCHANGED <<senderVars, receiverVars, ackWire, historyVars, failure>>

LoseAck(p) ==
    /\ ackWire[p] # << >>
    /\ ackWire' = [ackWire EXCEPT ![p] = Tail(@)]
    /\ UNCHANGED <<senderVars, receiverVars, dataWire, historyVars, failure>>

Next ==
    /\ failure = "none"
    /\ \E p \in Peer :
          \/ \E d \in SDU : SendData(p, d)
          \/ WakeupData(p)
          \/ WakeupAck(p)
          \/ ReceiveData(p)
          \/ ReceiveAck(p)
          \/ OnTimeout(p)
          \/ LoseData(p)
          \/ LoseAck(p)

Spec == Init /\ [][Next]_vars

(* As in StopAndWait: timeouts fire, a port with room wakes the unit, and  *)
(* not every copy of a frame that is sent again and again is lost.         *)
Fairness ==
    \A p \in Peer :
        /\ WF_vars(failure = "none" /\ OnTimeout(p))
        /\ WF_vars(failure = "none" /\ WakeupData(p))
        /\ WF_vars(failure = "none" /\ WakeupAck(p))
        /\ SF_vars(failure = "none" /\ ReceiveData(p))
        /\ SF_vars(failure = "none" /\ ReceiveAck(p))

LiveSpec == Spec /\ Fairness

-------------------------------------------------------------------------------
TypeOK ==
    /\ NS \in [Peer -> Nat] /\ NR \in [Peer -> Nat]
    /\ activeCompound \in [Peer -> IFrame \cup {NoCompound}]
    /\ ackCompound \in [Peer -> RRFrame \cup {NoCompound}]
    /\ sendNowData \in [Peer -> BOOLEAN] /\ timeoutSet \in [Peer -> BOOLEAN]
    /\ dataWire \in [Peer -> Seq(IFrame)] /\ ackWire \in [Peer -> Seq(RRFrame)]
    /\ accepted \in [Peer -> Seq(SDU)] /\ delivered \in [Peer -> Seq(SDU)]
    /\ repeated \in [Peer -> BOOLEAN]
    /\ failure \in Failure

Link == INSTANCE ReliableLink WITH Window <- 1

(* Neither "this can not happen" (StopAndWaitRC.cpp:191 and :215) nor the  *)
(* assure() on an unexpected timeout (:261) is reached, although RR frames *)
(* and I frames overtake each other.                                       *)
NothingImpossible == failure \notin Throws

(* A unit that takes the next compound has seen the last one handed up,    *)
(* and a compound that is not acknowledged is sent again some time: its    *)
(* timeout is pending or the wakeup of the data port will send it.  None of *)
(* the branches that can not happen is taken.                              *)
ActiveUntilDelivered ==
    /\ NothingImpossible
    /\ \A p \in Peer :
        IF activeCompound[p] = NoCompound
        THEN Len(delivered[Other(p)]) = Len(accepted[p])
        ELSE timeoutSet[p] \/ sendNowData[p] \/ failure # "none"

(* An RR frame with NS-1 is a "duplicate ACK (must be due to duplicate I)" *)
(* (StopAndWaitRC.cpp:226): it only arrives when the partner has received  *)
(* an I frame twice.                                                       *)
DuplicateACKFromDuplicateI ==
    [][\A p \in Peer :
          ReceiveAck(p) /\ Head(ackWire[Other(p)]).NS = NS[p] - 1
            => repeated[Other(p)]]_vars

(* The unit keeps the promise of a link for one compound at a time.        *)
ImplementsReliableLink == Link!Spec

(* As long as the unit does not stop on a compound that was acknowledged   *)
(* while the data port was closed, all that was accepted is handed up.     *)
DeliversUnlessStopped ==
    \A p \in Peer :
        \A n \in 1 .. MaxFrames[p] :
            Len(accepted[p]) >= n
              ~> (Len(delivered[Other(p)]) >= n \/ failure # "none")
===============================================================================
