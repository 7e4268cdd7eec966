---------------------------- MODULE SelectiveRepeat ----------------------------
(***************************************************************************)
(* src/ldk/arq/SelectiveRepeat.cpp: two SelectiveRepeat functional units   *)
(* over lower layers that keep the order of the frames but may lose any of *)
(* them.  Every frame is acknowledged by itself; the receiver keeps frames *)
(* that come after a gap, the sender ACKs that do.  As in GoBackN, an      *)
(* action is one entry into the unit and ends with tryToSend().            *)
(***************************************************************************)
EXTENDS Duplex, FiniteSets

CONSTANTS SDU,          \* compounds of the upper layer
          NoCompound,   \* CompoundPtr(), the null pointer
          windowSize,   \* frames from the oldest without an ACK to the newest
          MaxFrames,    \* bound: compounds the upper layer of each peer sends
          WireCap,      \* frames the lower layer of a peer can hold
          AckCap        \* bound: ACKs a peer may have waiting when a frame arrives

IFrame   == [type : {"I"}, NS : Nat, sdu : SDU]
AckFrame == [type : {"ACK"}, NS : Nat]
Frame    == IFrame \cup AckFrame

ASSUME SelectiveRepeatAssumption ==
    /\ windowSize \in Nat /\ windowSize >= 2
    /\ MaxFrames \in [Peer -> Nat]
    /\ WireCap \in Nat \ {0} /\ AckCap \in Nat \ {0}
    /\ NoCompound \notin Frame

VARIABLES NS, NR, LA,       \* next to send, next expected, oldest not ACKed
          activeCompound,   \* the new frame that was not sent yet
          sendNow,
          sentPDUs,         \* frames sent and not acknowledged, as they were sent
          toRetransmit,     \* frames to be sent again
          sentAgain,        \* their numbers with lastSentTime # firstSentTime
          receivedACKs,     \* numbers of the ACKs behind a gap, a sorted list
          ackPDUs,          \* ACK frames to be sent
          receivedPDUs,     \* frames behind a gap, sorted, none twice: a set
          delayingDelivery,
          timeoutSet,       \* CanTimeout: the resend timeout is pending
          suspending, suspended,   \* SuspendSupport
          wire,             \* wire[p]: frames from p to the other peer
          accepted, delivered,     \* history of the two upper layers
          failure           \* the assure() that ended the program

listVars     == <<activeCompound, sendNow, sentPDUs, toRetransmit, sentAgain, timeoutSet>>
receiverVars == <<NR, receivedPDUs, delayingDelivery>>
suspendVars  == <<suspending, suspended>>
userVars     == <<accepted, delivered>>
vars == <<NS, LA, receivedACKs, listVars, receiverVars, ackPDUs, suspendVars, wire,
          userVars, failure>>

Init ==
    /\ NS = [p \in Peer |-> 0] /\ NR = [p \in Peer |-> 0] /\ LA = [p \in Peer |-> 0]
    /\ activeCompound = [p \in Peer |-> NoCompound]
    /\ sendNow = [p \in Peer |-> FALSE]
    /\ sentPDUs = [p \in Peer |-> << >>]
    /\ toRetransmit = [p \in Peer |-> << >>]
    /\ sentAgain = [p \in Peer |-> {}]
    /\ receivedACKs = [p \in Peer |-> {}]
    /\ ackPDUs = [p \in Peer |-> << >>]
    /\ receivedPDUs = [p \in Peer |-> {}]
    /\ delayingDelivery = [p \in Peer |-> FALSE]
    /\ timeoutSet = [p \in Peer |-> FALSE]
    /\ suspending = [p \in Peer |-> FALSE]
    /\ suspended = [p \in Peer |-> FALSE]
    /\ wire = [p \in Peer |-> << >>]
    /\ accepted = [p \in Peer |-> << >>]
    /\ delivered = [p \in Peer |-> << >>]
    /\ failure = "none"

-------------------------------------------------------------------------------
Least(m, n) == IF m < n THEN m ELSE n
Front(s, n) == SubSeq(s, 1, n)
Rest(s, n)  == SubSeq(s, n + 1, Len(s))
Numbers(s)  == {s[i].NS : i \in 1 .. Len(s)}

(* The frames of s with a number in N, in their order: the ones that a     *)
(* loop over s finds.                                                      *)
WithNumbers(s, N) ==
    LET found[i \in 0 .. Len(s)] ==
          IF i = 0 THEN << >>
          ELSE IF s[i].NS \in N THEN Append(found[i - 1], s[i]) ELSE found[i - 1]
    IN  found[Len(s)]

Unsent_NotAsked(u) == <<u.active>>   \* fault: hasData() not asked

Unsent(u) == IF u.active # NoCompound /\ u.now THEN <<u.active>> ELSE << >>

(* The loop of Delayed::tryToSend: ACKs first, then what has to be sent    *)
(* again, then the active compound, until the connector has no acceptor.   *)
(* Every I frame sent joins sentPDUs and restarts the one timeout; for a   *)
(* frame out of toRetransmit only the last time of sending changes.        *)
TryToSend(p, u, wires) ==
    LET data  == u.again \o Unsent(u)
        room  == WireCap - Len(wires[p])
        acks  == Least(Len(u.acks), room)
        datas == Least(Len(data), room - acks)
    IN  /\ wire' = [wires EXCEPT ![p] = @ \o Front(u.acks, acks) \o Front(data, datas)]
        /\ ackPDUs' = [ackPDUs EXCEPT ![p] = Rest(u.acks, acks)]
        /\ sentPDUs' = [sentPDUs EXCEPT ![p] = u.sent \o Front(data, datas)]
        /\ toRetransmit' = [toRetransmit EXCEPT ![p] = Rest(u.again, datas)]
        /\ sentAgain' = [sentAgain EXCEPT ![p] =
                            u.twice \cup Numbers(Front(u.again, Least(Len(u.again), datas)))]
        /\ timeoutSet' = [timeoutSet EXCEPT ![p] = u.timer \/ datas > 0]
        /\ activeCompound' = [activeCompound EXCEPT ![p] =
                                 IF datas > Len(u.again) THEN NoCompound ELSE u.active]
        /\ sendNow' = [sendNow EXCEPT ![p] = u.now /\ datas <= Len(u.again)]

Members(p) == [active |-> activeCompound[p], now |-> sendNow[p],
               sent |-> sentPDUs[p], again |-> toRetransmit[p],
               twice |-> sentAgain[p], acks |-> ackPDUs[p], timer |-> timeoutSet[p]]

onSuspend_NothingSent(p, la) == la \in Nat /\ sentPDUs[p] = << >>   \* fault

onSuspend(p, la) == NS[p] = la

trySuspend(p, la) ==
    suspended' = [suspended EXCEPT ![p] = @ \/ (suspending[p] /\ onSuspend(p, la))]

retransmissionState(p) == toRetransmit[p] # << >>

(* No list has two frames with one number: the first found is the only one. *)
removeACKed(n, s) == WithNumbers(s, Numbers(s) \ {n})

-------------------------------------------------------------------------------
hasCapacity(p) ==
    /\ activeCompound[p] = NoCompound
    /\ ~retransmissionState(p)
    /\ NS[p] - LA[p] < windowSize

SendData(p, d) ==
    /\ Len(accepted[p]) < MaxFrames[p]
    /\ hasCapacity(p)
    /\ accepted' = [accepted EXCEPT ![p] = Append(@, d)]
    /\ NS' = [NS EXCEPT ![p] = @ + 1]
    /\ TryToSend(p, [Members(p) EXCEPT
                        !.active = [type |-> "I", NS |-> NS[p], sdu |-> d],
                        !.now = TRUE], wire)
    /\ UNCHANGED <<LA, receivedACKs, receiverVars, delivered, suspendVars, failure>>

(* The frames of s that prepareRetransmission chooses: those with a number *)
(* below the last ACK received out of sequence, or all if there is none;   *)
(* of these, the ones sent once only and the ones that were sent again     *)
(* retransmissionInterval ago, which are the first due of the list.        *)
Chosen(s, acks, twice, due) ==
    LET below == {n \in Numbers(s) : acks = {} \/ \E a \in acks : n < a}
    IN  below \cap ((Numbers(s) \ twice) \cup Numbers(Front(s, due)))

Prepared_NotErased(u, acks, due) ==   \* fault: they stay in sentPDUs
    LET chosen == Chosen(u.sent, acks, u.twice, due)
    IN  [u EXCEPT !.again = @ \o WithNumbers(u.sent, chosen)]

Prepared(u, acks, due) ==
    LET chosen == Chosen(u.sent, acks, u.twice, due)
    IN  [u EXCEPT !.again = @ \o WithNumbers(u.sent, chosen),
                  !.sent = WithNumbers(u.sent, Numbers(u.sent) \ chosen)]

(* The timeout fires resendTimeout after the last frame was sent, so that  *)
(* every frame is old enough to be sent again.                             *)
OnTimeout(p) ==
    /\ timeoutSet[p]
    /\ IF sentPDUs[p] = << >>
       THEN /\ failure' = "No timeout without any sent frames possible"
            /\ UNCHANGED <<listVars, ackPDUs, wire>>
       ELSE /\ TryToSend(p, Prepared([Members(p) EXCEPT !.timer = FALSE],
                                     receivedACKs[p], Len(sentPDUs[p])), wire)
            /\ UNCHANGED failure
    /\ UNCHANGED <<NS, LA, receivedACKs, receiverVars, userVars, suspendVars>>

Wakeup(p) ==
    /\ Len(wire[p]) < WireCap
    /\ \/ ackPDUs[p] # << >> \/ retransmissionState(p)
       \/ activeCompound[p] # NoCompound /\ sendNow[p]
    /\ TryToSend(p, Members(p), wire)
    /\ UNCHANGED <<NS, LA, receivedACKs, receiverVars, userVars, suspendVars, failure>>

Arrives(p, type) == /\ wire[Other(p)] # << >>
                    /\ Head(wire[Other(p)]).type = type

Taken(p) == [wire EXCEPT ![Other(p)] = Tail(@)]

(* The loop over receivedPDUs: those with the numbers from n on.           *)
Consecutive(held, n) ==
    {f \in held : \A k \in n .. f.NS : \E g \in held : g.NS = k}

HandUp_OutOfOrder(p, frames, n) ==   \* fault: the newest first
    delivered' = [delivered EXCEPT ![p] =
        @ \o [i \in 1 .. Cardinality(frames) |->
                (CHOOSE f \in frames : f.NS = n + Cardinality(frames) - i).sdu]]

HandUp(p, frames, n) ==
    delivered' = [delivered EXCEPT ![p] =
        @ \o [i \in 1 .. Cardinality(frames) |->
                (CHOOSE f \in frames : f.NS = n + i - 1).sdu]]

(* The end of doOnData for an I frame: the ACK, if any, is queued.         *)
Acknowledge(p, acks) ==
    /\ TryToSend(p, [Members(p) EXCEPT !.acks = @ \o acks], Taken(p))
    /\ UNCHANGED <<NS, LA, receivedACKs, suspendVars, accepted, failure, delayingDelivery>>

(* onIFrame with the expected number, delivery not delayed: it is handed   *)
(* up with all that waited for it.                                         *)
ReceiveExpected(p) ==
    LET frame == Head(wire[Other(p)])
        held  == Consecutive(receivedPDUs[p] \cup {frame}, NR[p])
    IN  /\ Arrives(p, "I") /\ Len(ackPDUs[p]) < AckCap
        /\ frame.NS = NR[p] /\ ~delayingDelivery[p]
        /\ HandUp(p, held, NR[p])
        /\ NR' = [NR EXCEPT ![p] = @ + Cardinality(held)]
        /\ receivedPDUs' = [receivedPDUs EXCEPT ![p] = @ \ held]
        /\ Acknowledge(p, <<[type |-> "ACK", NS |-> frame.NS]>>)

(* onIFrame with a later number, which is kept, or an old one; the next    *)
(* one is not kept while delivery is delayed.                              *)
ReceiveOther(p) ==
    LET frame == Head(wire[Other(p)])
        later == frame.NS > NR[p]
        known == \E f \in receivedPDUs[p] : f.NS = frame.NS
    IN  /\ Arrives(p, "I") /\ Len(ackPDUs[p]) < AckCap
        /\ frame.NS # NR[p] \/ delayingDelivery[p]
        /\ receivedPDUs' = [receivedPDUs EXCEPT ![p] =
                               IF later /\ ~known THEN @ \cup {frame} ELSE @]
        /\ Acknowledge(p, IF later \/ ~delayingDelivery[p]
                          THEN <<[type |-> "ACK", NS |-> frame.NS]>> ELSE << >>)
        /\ UNCHANGED <<NR, delivered>>

TimerIfSent(u) == [u EXCEPT !.timer = @ /\ u.sent # << >>]

(* What removeACKed leaves of both lists.                                  *)
WithoutACKed(p, n) ==
    [Members(p) EXCEPT !.sent = removeACKed(n, @), !.again = removeACKed(n, @),
                       !.twice = @ \ {n}]

(* onACKFrame with the expected number: LA moves over the ACKs that waited *)
(* behind it.                                                              *)
ReceiveExpectedACK(p) ==
    LET n  == Head(wire[Other(p)]).NS
        la == CHOOSE k \in n + 1 .. NS[p] :
                 k \notin receivedACKs[p] /\ n + 1 .. k - 1 \subseteq receivedACKs[p]
    IN  /\ Arrives(p, "ACK") /\ n = LA[p]
        /\ LA' = [LA EXCEPT ![p] = la]
        /\ receivedACKs' = [receivedACKs EXCEPT ![p] = {k \in @ : k > la}]
        /\ trySuspend(p, la)
        /\ TryToSend(p, TimerIfSent(WithoutACKed(p, n)), Taken(p))
        /\ UNCHANGED <<NS, receiverVars, suspending, userVars, failure>>

(* onACKFrame with a later number: frames before it are taken for lost.    *)
ReceiveLaterACK(p) ==
    LET n == Head(wire[Other(p)]).NS
        u == WithoutACKed(p, n)
    IN  /\ Arrives(p, "ACK") /\ n > LA[p]
        /\ receivedACKs' = [receivedACKs EXCEPT ![p] = @ \cup {n}]
        /\ \E due \in 0 .. Len(u.sent) :
              TryToSend(p, TimerIfSent(Prepared(u, receivedACKs'[p], due)), Taken(p))
        /\ UNCHANGED <<NS, LA, receiverVars, suspendVars, userVars, failure>>

(* onACKFrame with an old number.                                          *)
ReceiveOldACK(p) ==
    LET n == Head(wire[Other(p)]).NS
    IN  /\ Arrives(p, "ACK") /\ n < LA[p]
        /\ TryToSend(p, TimerIfSent(WithoutACKed(p, n)), Taken(p))
        /\ UNCHANGED <<NS, LA, receivedACKs, receiverVars, suspendVars, userVars, failure>>

(* delayDelivery() and deliver() of DelayedDeliveryInterface, alternating. *)
DelayDelivery(p) ==
    /\ ~delayingDelivery[p]
    /\ delayingDelivery' = [delayingDelivery EXCEPT ![p] = TRUE]
    /\ UNCHANGED <<NS, LA, receivedACKs, listVars, NR, receivedPDUs, ackPDUs,
                   suspendVars, wire, userVars, failure>>

DeliverDelayed(p) ==
    LET held == Consecutive(receivedPDUs[p], NR[p])
    IN  /\ delayingDelivery[p]
        /\ delayingDelivery' = [delayingDelivery EXCEPT ![p] = FALSE]
        /\ HandUp(p, held, NR[p])
        /\ NR' = [NR EXCEPT ![p] = @ + Cardinality(held)]
        /\ receivedPDUs' = [receivedPDUs EXCEPT ![p] = @ \ held]
        /\ UNCHANGED <<NS, LA, receivedACKs, listVars, ackPDUs, suspendVars, wire,
                       accepted, failure>>

Suspend(p) ==
    /\ ~suspending[p] \/ suspended[p]
    /\ suspending' = [suspending EXCEPT ![p] = TRUE]
    /\ suspended' = [suspended EXCEPT ![p] = onSuspend(p, LA[p])]
    /\ UNCHANGED <<NS, LA, receivedACKs, listVars, receiverVars, ackPDUs, wire, userVars, failure>>

(* The lower layers drop the frame that would arrive next.                 *)
Lose(p) ==
    /\ wire[p] # << >>
    /\ wire' = [wire EXCEPT ![p] = Tail(@)]
    /\ UNCHANGED <<NS, LA, receivedACKs, listVars, receiverVars, ackPDUs, suspendVars,
                   userVars, failure>>

Next ==
    /\ failure = "none"
    /\ \E p \in Peer :
          \/ \E d \in SDU : SendData(p, d)
          \/ OnTimeout(p) \/ Wakeup(p)
          \/ ReceiveExpected(p) \/ ReceiveOther(p)
          \/ ReceiveExpectedACK(p) \/ ReceiveLaterACK(p) \/ ReceiveOldACK(p)
          \/ DelayDelivery(p) \/ DeliverDelayed(p)
          \/ Suspend(p) \/ Lose(p)

Spec == Init /\ [][Next]_vars

-------------------------------------------------------------------------------
Link == INSTANCE ReliableLink WITH Window <- windowSize

TypeOK ==
    /\ NS \in [Peer -> Nat] /\ NR \in [Peer -> Nat] /\ LA \in [Peer -> Nat]
    /\ activeCompound \in [Peer -> IFrame \cup {NoCompound}]
    /\ sendNow \in [Peer -> BOOLEAN] /\ timeoutSet \in [Peer -> BOOLEAN]
    /\ sentPDUs \in [Peer -> Seq(IFrame)] /\ toRetransmit \in [Peer -> Seq(IFrame)]
    /\ sentAgain \in [Peer -> SUBSET Nat] /\ receivedACKs \in [Peer -> SUBSET Nat]
    /\ \A p \in Peer : /\ sentAgain[p] \subseteq LA[p] .. NS[p] - 1
                       /\ receivedACKs[p] \subseteq LA[p] + 1 .. NS[p] - 1
    /\ receivedPDUs \in [Peer -> SUBSET IFrame]
    /\ ackPDUs \in [Peer -> Seq(AckFrame)]
    /\ delayingDelivery \in [Peer -> BOOLEAN]
    /\ suspending \in [Peer -> BOOLEAN] /\ suspended \in [Peer -> BOOLEAN]
    /\ wire \in [Peer -> Seq(Frame)]
    /\ accepted \in [Peer -> Seq(SDU)] /\ delivered \in [Peer -> Seq(SDU)]
    /\ failure \in {"none", "No timeout without any sent frames possible"}

(* The places an unacknowledged frame can be kept in.                      *)
Kept(p) == sentPDUs[p] \o toRetransmit[p]
           \o (IF activeCompound[p] = NoCompound THEN << >> ELSE <<activeCompound[p]>>)

(* The sender keeps exactly the frames without an ACK, each in one place,  *)
(* whatever the order in which ACKs, repetitions and timeouts came in; and *)
(* the assure() of onTimeout (SelectiveRepeat.cpp:247) is never reached.   *)
KeepsUnacknowledged ==
    /\ failure = "none"
    /\ \A p \in Peer :
          /\ Numbers(Kept(p)) = (LA[p] .. NS[p] - 1) \ receivedACKs[p]
          /\ Len(Kept(p)) = Cardinality(Numbers(Kept(p)))
          /\ \A i \in 1 .. Len(Kept(p)) : Kept(p)[i].sdu = accepted[p][Kept(p)[i].NS + 1]

(* suspended() is reported only when the partner has handed up every       *)
(* accepted compound, also when its delivery is delayed.                   *)
SuspendIsClean ==
    [][\A p \in Peer :
          suspended'[p] /\ ~suspended[p]
            => delivered'[Other(p)] = accepted'[p]]_vars

(* Nothing is lost, repeated or reordered across the link, and never more  *)
(* than a window is on its way: two lists, the ACKs that are missing and   *)
(* the frames held behind a gap agree with each other.                     *)
ImplementsReliableLink == Link!Spec

(* "Idle (no ACK) time after which sender enters retransmission state"     *)
(* (SelectiveRepeat.hpp:259): with frames sent, not acknowledged and not   *)
(* in retransmission, the timeout that leads there is pending.             *)
TimeoutWhileUnacknowledged ==
    \A p \in Peer :
        sentPDUs[p] # << >> /\ ~retransmissionState(p) => timeoutSet[p]
===============================================================================
