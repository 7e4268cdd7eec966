------------------------------- MODULE GoBackN -------------------------------
(***************************************************************************)
(* src/ldk/arq/GoBackN.cpp: two GoBackN functional units over lower layers *)
(* that keep the order of the frames but may lose any of them.  As in      *)
(* StopAndWait, an action is one entry into the unit run to completion, so *)
(* every entry that the code ends with tryToSend() ends with TryToSend.    *)
(***************************************************************************)
EXTENDS Duplex, FiniteSets

CONSTANTS SDU,          \* compounds of the upper layer
          NoCompound,   \* CompoundPtr(), the null pointer
          windowSize,   \* frames that may be sent without an ACK
          MaxFrames,    \* bound: compounds the upper layer of each peer sends
          WireCap,      \* frames the lower layer of a peer can hold
          AckCap        \* bound: ACKs a peer may have waiting when a frame arrives

IFrame   == [type : {"I"}, NS : Nat, sdu : SDU]
AckFrame == [type : {"ACK", "NAK"}, NS : Nat]
Frame    == IFrame \cup AckFrame

ASSUME GoBackNAssumption ==
    /\ windowSize \in Nat /\ windowSize >= 2
    /\ MaxFrames \in [Peer -> Nat]
    /\ WireCap \in Nat \ {0} /\ AckCap \in Nat \ {0}
    /\ NoCompound \notin Frame

VARIABLES NS, NR, LA,       \* next to send, next expected, oldest not ACKed
          activeCompound,   \* the new frame that was not sent yet
          sendNow,
          sentPDUs,         \* frames sent and not acknowledged
          toRetransmit,     \* frames to be sent again
          ackPDUs,          \* ACK and NAK frames to be sent
          receivedPDUs,     \* frames whose delivery is being delayed
          delayingDelivery, delayedDeliveryNR,
          timeoutSet,       \* CanTimeout: the resend timeout is pending
          suspending, suspended,   \* SuspendSupport
          wire,             \* wire[p]: frames from p to the other peer
          accepted, delivered,     \* history of the two upper layers
          failure           \* the assure() that ended the program

senderVars   == <<NS, LA, activeCompound, sendNow, sentPDUs, toRetransmit, timeoutSet>>
receiverVars == <<NR, receivedPDUs, delayingDelivery, delayedDeliveryNR>>
suspendVars  == <<suspending, suspended>>
userVars     == <<accepted, delivered>>
vars == <<senderVars, receiverVars, ackPDUs, suspendVars, wire, userVars, failure>>

Failure == {"none", "No timeout without any sent frames possible",
            "receivedPDUs nonempty (impossible for GoBackN)",
            "NAK for already ACKed frame received",
            "toDeliver differs from delayedDeliveryNR"}

Init ==
    /\ NS = [p \in Peer |-> 0] /\ NR = [p \in Peer |-> 0] /\ LA = [p \in Peer |-> 0]
    /\ activeCompound = [p \in Peer |-> NoCompound]
    /\ sendNow = [p \in Peer |-> FALSE]
    /\ sentPDUs = [p \in Peer |-> << >>]
    /\ toRetransmit = [p \in Peer |-> << >>]
    /\ ackPDUs = [p \in Peer |-> << >>]
    /\ receivedPDUs = [p \in Peer |-> << >>]
    /\ delayingDelivery = [p \in Peer |-> FALSE]
    /\ delayedDeliveryNR = [p \in Peer |-> 0]
    /\ timeoutSet = [p \in Peer |-> FALSE]
    /\ suspending = [p \in Peer |-> FALSE]
    /\ suspended = [p \in Peer |-> FALSE]
    /\ wire = [p \in Peer |-> << >>]
    /\ accepted = [p \in Peer |-> << >>]
    /\ delivered = [p \in Peer |-> << >>]
    /\ failure = "none"

-------------------------------------------------------------------------------
Front(s, n) == SubSeq(s, 1, n)
Rest(s, n)  == SubSeq(s, n + 1, Len(s))
Least(m, n) == IF m < n THEN m ELSE n

Unsent_NotAsked(u) == <<u.active>>   \* fault: hasData() not asked

Unsent(u) == IF u.active # NoCompound /\ u.now THEN <<u.active>> ELSE << >>

(* The loop of Delayed::tryToSend: ACKs and NAKs first, then what has to   *)
(* be sent again, then the active compound, until the connector has no     *)
(* acceptor.  Every I frame sent joins sentPDUs and restarts the timeout.  *)
(* The record holds the members as the handler left them.                  *)
TryToSend(p, u, wires) ==
    LET data  == u.again \o Unsent(u)
        room  == WireCap - Len(wires[p])
        acks  == Least(Len(u.acks), room)
        datas == Least(Len(data), room - acks)
    IN  /\ wire' = [wires EXCEPT ![p] = @ \o Front(u.acks, acks) \o Front(data, datas)]
        /\ ackPDUs' = [ackPDUs EXCEPT ![p] = Rest(u.acks, acks)]
        /\ sentPDUs' = [sentPDUs EXCEPT ![p] = u.sent \o Front(data, datas)]
        /\ toRetransmit' = [toRetransmit EXCEPT ![p] = Rest(u.again, datas)]
        /\ timeoutSet' = [timeoutSet EXCEPT ![p] = u.timer \/ datas > 0]
        /\ activeCompound' = [activeCompound EXCEPT ![p] =
                                 IF datas > Len(u.again) THEN NoCompound ELSE u.active]
        /\ sendNow' = [sendNow EXCEPT ![p] = u.now /\ datas <= Len(u.again)]

Members(p) == [active |-> activeCompound[p], now |-> sendNow[p],
               sent |-> sentPDUs[p], again |-> toRetransmit[p],
               acks |-> ackPDUs[p], timer |-> timeoutSet[p]]

onSuspend(p, la) == NS[p] = la

trySuspend(p, la) ==
    suspended' = [suspended EXCEPT ![p] = @ \/ (suspending[p] /\ onSuspend(p, la))]

retransmissionState(p) == toRetransmit[p] # << >>

(* Frames leave a list from its front only, while they are acknowledged.   *)
removeACKed(n, s) ==
    Rest(s, CHOOSE k \in 0 .. Len(s) :
                /\ \A i \in 1 .. k : s[i].NS <= n
                /\ k < Len(s) => s[k + 1].NS > n)

-------------------------------------------------------------------------------
hasCapacity(p) ==
    /\ activeCompound[p] = NoCompound
    /\ ~retransmissionState(p)
    /\ NS[p] - LA[p] < windowSize

SendData(p, d) ==
    /\ Len(accepted[p]) < MaxFrames[p]
    /\ hasCapacity(p)
    /\ accepted' = [accepted EXCEPT ![p] = Append(@, d)]
    /\ NS' = [NS EXCEPT ![p] = @ + 1]
    /\ TryToSend(p, [Members(p) EXCEPT
                        !.active = [type |-> "I", NS |-> NS[p], sdu |-> d],
                        !.now = TRUE], wire)
    /\ UNCHANGED <<LA, receiverVars, delivered, suspendVars, failure>>

Prepared_NotCleared(u) == [u EXCEPT !.again = @ \o u.sent]   \* fault

(* prepareRetransmission(): all sent frames go behind those that wait.     *)
Prepared(u) == [u EXCEPT !.again = @ \o u.sent, !.sent = << >>]

(* fault: the timeout is consumed, nothing is prepared for retransmission  *)
OnTimeout_NotPrepared(p) ==
    /\ timeoutSet[p]
    /\ TryToSend(p, [Members(p) EXCEPT !.timer = FALSE], wire)
    /\ UNCHANGED <<NS, LA, failure, receiverVars, userVars, suspendVars>>

OnTimeout(p) ==
    /\ timeoutSet[p]
    /\ IF sentPDUs[p] = << >>
       THEN /\ failure' = "No timeout without any sent frames possible"
            /\ UNCHANGED <<senderVars, ackPDUs, wire>>
       ELSE /\ TryToSend(p, Prepared([Members(p) EXCEPT !.timer = FALSE]), wire)
            /\ UNCHANGED <<NS, LA, failure>>
    /\ UNCHANGED <<receiverVars, userVars, suspendVars>>

Wakeup(p) ==
    /\ Len(wire[p]) < WireCap
    /\ \/ ackPDUs[p] # << >> \/ retransmissionState(p)
       \/ activeCompound[p] # NoCompound /\ sendNow[p]
    /\ TryToSend(p, Members(p), wire)
    /\ UNCHANGED <<NS, LA, receiverVars, userVars, suspendVars, failure>>

Arrives(p, type) == /\ wire[Other(p)] # << >>
                    /\ Head(wire[Other(p)]).type = type

Taken(p) == [wire EXCEPT ![Other(p)] = Tail(@)]

Fail(p, what) ==
    /\ failure' = what
    /\ wire' = Taken(p)
    /\ UNCHANGED <<senderVars, receiverVars, ackPDUs, suspendVars, userVars>>

(* Sending back an ACK or NAK and the tryToSend() of doOnData.             *)
Answer(p, answer) ==
    /\ TryToSend(p, [Members(p) EXCEPT !.acks = @ \o answer], Taken(p))
    /\ UNCHANGED <<NS, LA, suspendVars, accepted, failure>>

IsExpected_OrLater(p, n) == n >= NR[p]   \* fault: gaps are not noticed

IsExpected(p, n) == n = NR[p]

(* onIFrame with the expected number, delivery not delayed.                *)
ReceiveExpected(p) ==
    LET frame == Head(wire[Other(p)])
    IN  /\ Arrives(p, "I") /\ Len(ackPDUs[p]) < AckCap
        /\ IsExpected(p, frame.NS) /\ ~delayingDelivery[p]
        /\ IF receivedPDUs[p] # << >>
           THEN Fail(p, "receivedPDUs nonempty (impossible for GoBackN)")
           ELSE /\ delivered' = [delivered EXCEPT ![p] = Append(@, frame.sdu)]
                /\ NR' = [NR EXCEPT ![p] = @ + 1]
                /\ Answer(p, <<[type |-> "ACK", NS |-> frame.NS]>>)
                /\ UNCHANGED <<receivedPDUs, delayingDelivery, delayedDeliveryNR>>

(* Whether a frame is answered at all while delivery is delayed.           *)
InDelayWindow(p, n) == n - delayedDeliveryNR[p] < windowSize

(* onIFrame with the expected number, delivery delayed.                    *)
ReceiveDelayed(p) ==
    LET frame == Head(wire[Other(p)])
    IN  /\ Arrives(p, "I") /\ Len(ackPDUs[p]) < AckCap
        /\ IsExpected(p, frame.NS) /\ delayingDelivery[p]
        /\ IF InDelayWindow(p, frame.NS)
           THEN /\ receivedPDUs' = [receivedPDUs EXCEPT ![p] = Append(@, frame)]
                /\ NR' = [NR EXCEPT ![p] = @ + 1]
                /\ Answer(p, <<[type |-> "ACK", NS |-> frame.NS]>>)
           ELSE /\ Answer(p, << >>)
                /\ UNCHANGED <<receivedPDUs, NR>>
        /\ UNCHANGED <<delivered, delayingDelivery, delayedDeliveryNR>>

(* onIFrame with any other number, also that of an old frame.              *)
ReceiveOutOfSequence(p) ==
    LET frame == Head(wire[Other(p)])
    IN  /\ Arrives(p, "I") /\ Len(ackPDUs[p]) < AckCap
        /\ ~IsExpected(p, frame.NS)
        /\ Answer(p, IF ~delayingDelivery[p] \/ InDelayWindow(p, frame.NS)
                     THEN <<[type |-> "NAK", NS |-> NR[p]]>> ELSE << >>)
        /\ UNCHANGED <<receiverVars, delivered>>

(* What onACKFrame and onNAKFrame leave of the lists for ACKs up to n.     *)
WithoutACKed(p, n) == [Members(p) EXCEPT !.sent = removeACKed(n, @),
                                         !.again = removeACKed(n, @)]

TimerIfSent(u) == [u EXCEPT !.timer = @ /\ u.sent # << >>]

ReceiveACK(p) ==
    LET acked == Head(wire[Other(p)]).NS
        la    == IF acked >= LA[p] THEN acked + 1 ELSE LA[p]
    IN  /\ Arrives(p, "ACK")
        /\ LA' = [LA EXCEPT ![p] = la]
        /\ IF acked >= LA[p] THEN trySuspend(p, la) ELSE UNCHANGED suspended
        /\ TryToSend(p, TimerIfSent(WithoutACKed(p, acked)), Taken(p))
        /\ UNCHANGED <<NS, receiverVars, suspending, userVars, failure>>

ReceiveNAK(p) ==
    LET missing == Head(wire[Other(p)]).NS
    IN  /\ Arrives(p, "NAK")
        /\ IF missing < LA[p]
           THEN Fail(p, "NAK for already ACKed frame received")
           ELSE /\ LA' = [LA EXCEPT ![p] = missing]
                /\ TryToSend(p, TimerIfSent(Prepared(WithoutACKed(p, missing - 1))), Taken(p))
                /\ UNCHANGED <<NS, receiverVars, suspendVars, userVars, failure>>

(* delayDelivery() and deliver() of DelayedDeliveryInterface, alternating. *)
DelayDelivery(p) ==
    /\ ~delayingDelivery[p]
    /\ delayingDelivery' = [delayingDelivery EXCEPT ![p] = TRUE]
    /\ delayedDeliveryNR' = [delayedDeliveryNR EXCEPT ![p] = NR[p]]
    /\ UNCHANGED <<senderVars, NR, receivedPDUs, ackPDUs, suspendVars, wire, userVars, failure>>

DeliverDelayed(p) ==
    LET held == receivedPDUs[p]
    IN  /\ delayingDelivery[p]
        /\ IF \E i \in 1 .. Len(held) : held[i].NS # delayedDeliveryNR[p] + i - 1
           THEN /\ failure' = "toDeliver differs from delayedDeliveryNR"
                /\ UNCHANGED <<receiverVars, delivered>>
           ELSE /\ delivered' = [delivered EXCEPT ![p] =
                                    @ \o [i \in 1 .. Len(held) |-> held[i].sdu]]
                /\ receivedPDUs' = [receivedPDUs EXCEPT ![p] = << >>]
                /\ delayedDeliveryNR' = [delayedDeliveryNR EXCEPT ![p] = @ + Len(held)]
                /\ delayingDelivery' = [delayingDelivery EXCEPT ![p] = FALSE]
                /\ UNCHANGED <<NR, failure>>
        /\ UNCHANGED <<senderVars, ackPDUs, suspendVars, wire, accepted>>

Suspend(p) ==
    /\ ~suspending[p] \/ suspended[p]
    /\ suspending' = [suspending EXCEPT ![p] = TRUE]
    /\ suspended' = [suspended EXCEPT ![p] = onSuspend(p, LA[p])]
    /\ UNCHANGED <<senderVars, receiverVars, ackPDUs, wire, userVars, failure>>

(* The lower layers drop the frame that would arrive next.                 *)
Lose(p) ==
    /\ wire[p] # << >>
    /\ wire' = [wire EXCEPT ![p] = Tail(@)]
    /\ UNCHANGED <<senderVars, receiverVars, ackPDUs, suspendVars, userVars, failure>>

Next ==
    /\ failure = "none"
    /\ \E p \in Peer :
          \/ \E d \in SDU : SendData(p, d)
          \/ OnTimeout(p) \/ Wakeup(p)
          \/ ReceiveExpected(p) \/ ReceiveDelayed(p) \/ ReceiveOutOfSequence(p)
          \/ ReceiveACK(p) \/ ReceiveNAK(p)
          \/ DelayDelivery(p) \/ DeliverDelayed(p)
          \/ Suspend(p) \/ Lose(p)

Spec == Init /\ [][Next]_vars

(* An I frame is under way to p that is, or is not, the one p expects.     *)
Approaches(p, expected) ==
    /\ Arrives(p, "I")
    /\ IsExpected(p, Head(wire[Other(p)]).NS) = expected

(* The event scheduler reaches every pending timeout, the lower layer      *)
(* calls wakeup when it has room, a delayed delivery is ended some time,   *)
(* and the lower layers do not lose every copy of a frame that is sent     *)
(* again and again (for I frames whatever AckCap allows at the moment).    *)
Fairness ==
    \A p \in Peer :
        /\ WF_vars(failure = "none" /\ OnTimeout(p))
        /\ WF_vars(failure = "none" /\ Wakeup(p))
        /\ WF_vars(failure = "none" /\ DeliverDelayed(p))
        /\ SF_vars(failure = "none" /\ ReceiveACK(p))
        /\ SF_vars(failure = "none" /\ ReceiveNAK(p))
        /\ []<>Approaches(p, TRUE)
             => []<><<ReceiveExpected(p) \/ ReceiveDelayed(p)>>_vars
        /\ []<>Approaches(p, FALSE) => []<><<ReceiveOutOfSequence(p)>>_vars

LiveSpec == Spec /\ Fairness

-------------------------------------------------------------------------------
Link == INSTANCE ReliableLink WITH Window <- 2 * windowSize

TypeOK ==
    /\ NS \in [Peer -> Nat] /\ NR \in [Peer -> Nat] /\ LA \in [Peer -> Nat]
    /\ activeCompound \in [Peer -> IFrame \cup {NoCompound}]
    /\ sendNow \in [Peer -> BOOLEAN] /\ timeoutSet \in [Peer -> BOOLEAN]
    /\ sentPDUs \in [Peer -> Seq(IFrame)] /\ toRetransmit \in [Peer -> Seq(IFrame)]
    /\ receivedPDUs \in [Peer -> Seq(IFrame)]
    /\ ackPDUs \in [Peer -> Seq(AckFrame)]
    /\ delayingDelivery \in [Peer -> BOOLEAN] /\ delayedDeliveryNR \in [Peer -> Nat]
    /\ suspending \in [Peer -> BOOLEAN] /\ suspended \in [Peer -> BOOLEAN]
    /\ wire \in [Peer -> Seq(Frame)]
    /\ accepted \in [Peer -> Seq(SDU)] /\ delivered \in [Peer -> Seq(SDU)]
    /\ failure \in Failure

(* No assure() of GoBackN.cpp is reached: no timeout without a sent frame  *)
(* (:247), no NAK for an acknowledged frame (:476), no frame held back     *)
(* when delivery is not delayed (:336), no gap among those held (:613).    *)
NoFailure == failure = "none"

(* What reaches the upper layer of a peer is an initial segment of what    *)
(* the upper layer of its partner sent, delayed delivery included.         *)
InOrder == Link!InOrder

(* The resend timeout runs exactly while a sent frame may be lost, and no  *)
(* step needs it when it is not set.                                       *)
TimerIffOutstanding ==
    /\ NoFailure
    /\ \A p \in Peer : timeoutSet[p] <=> sentPDUs[p] # << >>

(* The three places an unacknowledged frame can be kept in.                *)
Kept(p) == sentPDUs[p] \o toRetransmit[p]
           \o (IF activeCompound[p] = NoCompound THEN << >> ELSE <<activeCompound[p]>>)

(* Every frame that was accepted and not acknowledged is kept for sending  *)
(* in exactly one place, with the compound that was accepted.              *)
UnacknowledgedKeptOnce ==
    \A p \in Peer : \A n \in LA[p] .. NS[p] - 1 :
        LET places == {i \in 1 .. Len(Kept(p)) : Kept(p)[i].NS = n}
        IN  /\ Cardinality(places) = 1
            /\ \A i \in places : Kept(p)[i].sdu = accepted[p][n + 1]

(* suspended() is reported only when the partner has taken over every      *)
(* accepted compound: handed it up, or holds it for its delayed delivery.  *)
SuspendIsClean ==
    [][\A p \in Peer :
          suspended'[p] /\ ~suspended[p]
            => Len(delivered'[Other(p)]) + Len(receivedPDUs'[Other(p)])
                 = Len(accepted'[p])]_vars

(* "The packets sent but not acknowledged yet" (GoBackN.hpp:285), and      *)
(* "remove all acked frames from sentPDUs / toRetransmit: done in          *)
(* removeACKed()" (GoBackN.cpp:437).                                       *)
SentAreUnacknowledged ==
    \A p \in Peer : \A i \in 1 .. Len(sentPDUs[p]) : sentPDUs[p][i].NS >= LA[p]

(* A reliable link that has up to a window of compounds in transit and up  *)
(* to another window waiting at a receiver that delays its delivery.       *)
ImplementsReliableLink == Link!Spec

(* Whatever is lost, all that was accepted is handed up in the end.        *)
DeliversEverything == Link!LiveSpec
===============================================================================
