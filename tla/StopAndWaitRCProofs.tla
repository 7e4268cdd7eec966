------------------------- MODULE StopAndWaitRCProofs -------------------------
(***************************************************************************)
(* Proofs about StopAndWaitRC for every choice of the compounds, of their  *)
(* number and of the capacity of the lower layers: though acknowledgements *)
(* and I frames overtake each other, the unit implements ReliableLink.     *)
(***************************************************************************)
EXTENDS StopAndWaitRC, TLAPS

(* The compounds from one peer to its partner, as values: n and active are *)
(* the sender's NS and activeCompound, m and ack the receiver's NR and     *)
(* ackCompound, out the I frames under way, back the RR frames.            *)

CountersFit(n, m, active, acc, del) ==
    /\ n = Len(acc) /\ m = Len(del)
    /\ m <= n /\ n <= m + 1
    /\ active = NoCompound => m = n
    /\ active # NoCompound => n = active.NS + 1 /\ active.sdu = acc[n]
    /\ \A k \in 1 .. m : del[k] = acc[k]

(* The numbers never decrease along a wire.                                *)
Ascending(w) == \A i, j \in 1 .. Len(w) : i < j => w[i].NS <= w[j].NS

IFramesFit(n, m, out, acc) ==
    \A i \in 1 .. Len(out) : /\ m <= out[i].NS + 1 /\ out[i].NS + 1 <= n
                             /\ out[i].sdu = acc[out[i].NS + 1]

(* An RR frame says what its receiver expected before it counted the frame *)
(* it answers: NS-1 or NS of the sender, and never NS-1 when it waits for  *)
(* nothing.                                                                *)
RRFits(n, m, active, k) == n <= k + 1 /\ k <= m /\ (active = NoCompound => k = n)

RRFramesFit(n, m, active, ack, back) ==
    /\ \A i \in 1 .. Len(back) : /\ RRFits(n, m, active, back[i].NS)
                                 /\ ack # NoCompound => back[i].NS <= ack.NS
    /\ ack # NoCompound => RRFits(n, m, active, ack.NS)

Direction(n, m, active, ack, out, back, acc, del) ==
    /\ CountersFit(n, m, active, acc, del)
    /\ Ascending(out) /\ IFramesFit(n, m, out, acc)
    /\ Ascending(back) /\ RRFramesFit(n, m, active, ack, back)

DirectionFrom(p) ==
    Direction(NS[p], NR[Other(p)], activeCompound[p], ackCompound[Other(p)],
              dataWire[p], ackWire[Other(p)], accepted[p], delivered[Other(p)])

(* The timeout of a unit that waits for nothing is not set, so that the    *)
(* only timeout that finds no compound is one that a wakeup has set, and   *)
(* then the unit has stopped.                                              *)
TimerFits(p) ==
    /\ activeCompound[p] # NoCompound => timeoutSet[p] \/ sendNowData[p] \/ failure # "none"
    /\ failure = "none" /\ activeCompound[p] = NoCompound => ~timeoutSet[p]

(* The inductive invariant.                                                *)
IInv ==
    /\ TypeOK
    /\ NothingImpossible
    /\ \A p \in Peer : TimerFits(p) /\ DirectionFrom(p)

-----------------------------------------------------------------------------
LEMMA PeerFacts ==
  ASSUME NEW p \in Peer
  PROVE  /\ Other(p) \in Peer /\ Other(p) # p /\ Other(Other(p)) = p
         /\ \A r \in Peer : r = p \/ r = Other(p)
  BY DEF Peer, Other

LEMMA FrameShape ==
  /\ \A f \in IFrame : f.NS \in Nat /\ f.sdu \in SDU /\ f # NoCompound
  /\ \A f \in RRFrame : f.NS \in Nat /\ f # NoCompound
  BY StopAndWaitRCAssumption DEF IFrame, RRFrame

(* What Append and Tail do to the frames of a wire, position by position. *)
Longer(S, t, s, f) ==
    /\ t \in Seq(S) /\ Len(s) \in Nat /\ Len(t) = Len(s) + 1
    /\ \A i \in 1 .. Len(s) : t[i] = s[i] /\ s[i] \in S
    /\ t[Len(s) + 1] = f

Shorter(S, t, s) ==
    /\ t \in Seq(S) /\ Len(t) \in Nat /\ Len(s) = Len(t) + 1
    /\ \A i \in 1 .. Len(t) : t[i] = s[i + 1] /\ t[i] \in S
    /\ Head(s) = s[1] /\ s[1] \in S

LEMMA AppendIsLonger ==
  ASSUME NEW S, NEW s \in Seq(S), NEW f \in S
  PROVE  Longer(S, Append(s, f), s, f)
  BY DEF Longer

LEMMA TailIsShorter ==
  ASSUME NEW S, NEW s \in Seq(S), s # << >>
  PROVE  Shorter(S, Tail(s), s)
  BY DEF Shorter

LEMMA AscendingAppend ==
  ASSUME NEW S, NEW s, NEW t, NEW f, Longer(S, t, s, f), Ascending(s),
         \A i \in 1 .. Len(s) : s[i].NS <= f.NS
  PROVE  Ascending(t)
<1> SUFFICES ASSUME NEW i \in 1 .. Len(t), NEW j \in 1 .. Len(t), i < j
             PROVE  t[i].NS <= t[j].NS
  BY DEF Ascending
<1>1. i \in 1 .. Len(s) /\ t[i] = s[i]
  BY DEF Longer
<1>2. CASE j \in 1 .. Len(s)
  BY <1>1, <1>2 DEF Longer, Ascending
<1>3. CASE j = Len(s) + 1
  BY <1>1, <1>3 DEF Longer
<1> QED BY SMTT(20), <1>2, <1>3 DEF Longer

LEMMA AscendingTail ==
  ASSUME NEW S, NEW s, NEW t, Shorter(S, t, s), Ascending(s)
  PROVE  /\ Ascending(t)
         /\ \A i \in 1 .. Len(t) : i + 1 \in 1 .. Len(s) /\ t[i] = s[i + 1] /\ s[1].NS <= t[i].NS
<1>1. \A i \in 1 .. Len(t) : i + 1 \in 1 .. Len(s) /\ 1 < i + 1 /\ t[i] = s[i + 1] /\ 1 \in 1 .. Len(s)
  BY DEF Shorter
<1>2. \A i, j \in 1 .. Len(t) : i < j => i + 1 < j + 1
  OBVIOUS
<1> QED BY <1>1, <1>2 DEF Ascending

-----------------------------------------------------------------------------
(* What happens to one direction when a frame is put on a wire or lost.    *)

(* The compound that waits is sent, for the first time or again. *)
LEMMA SendKeeps ==
  ASSUME NEW n \in Nat, NEW m \in Nat, NEW active \in IFrame, NEW ack,
         NEW out \in Seq(IFrame), NEW back, NEW acc, NEW del, NEW t,
         Direction(n, m, active, ack, out, back, acc, del), Longer(IFrame, t, out, active)
  PROVE  Direction(n, m, active, ack, t, back, acc, del)
<1>1. /\ active # NoCompound /\ active.NS \in Nat
      /\ \A i \in 1 .. Len(out) : out[i].NS \in Nat
  BY FrameShape DEF Longer
<1>2. n = active.NS + 1 /\ active.sdu = acc[n] /\ m <= n
  BY <1>1 DEF Direction, CountersFit
<1>3. \A i \in 1 .. Len(out) : out[i].NS <= active.NS
  BY <1>1, <1>2 DEF Direction, IFramesFit
<1>4. Ascending(t)
  BY <1>3, AscendingAppend DEF Direction
<1>5. IFramesFit(n, m, t, acc)
  BY <1>1, <1>2 DEF Direction, IFramesFit, Longer
<1> QED BY <1>4, <1>5 DEF Direction

(* The RR frame that waits is sent. *)
LEMMA AckKeeps ==
  ASSUME NEW n \in Nat, NEW m \in Nat, NEW active, NEW ack \in RRFrame,
         NEW out, NEW back \in Seq(RRFrame), NEW acc, NEW del, NEW t,
         Direction(n, m, active, ack, out, back, acc, del), Longer(RRFrame, t, back, ack)
  PROVE  Direction(n, m, active, NoCompound, out, t, acc, del)
<1>1. ack # NoCompound
  BY FrameShape
<1>2. Ascending(t)
  BY <1>1, AscendingAppend DEF Direction, RRFramesFit
<1>3. RRFramesFit(n, m, active, NoCompound, t)
  BY <1>1 DEF Direction, RRFramesFit, Longer
<1> QED BY <1>2, <1>3 DEF Direction

LEMMA LossKeeps ==
  ASSUME NEW n, NEW m, NEW active, NEW ack, NEW out, NEW back, NEW acc, NEW del, NEW t,
         Direction(n, m, active, ack, out, back, acc, del)
  PROVE  /\ Shorter(IFrame, t, out) => Direction(n, m, active, ack, t, back, acc, del)
         /\ Shorter(RRFrame, t, back) => Direction(n, m, active, ack, out, t, acc, del)
<1>1. ASSUME Shorter(IFrame, t, out) PROVE Direction(n, m, active, ack, t, back, acc, del)
  <2>1. Ascending(t) /\ \A i \in 1 .. Len(t) : i + 1 \in 1 .. Len(out) /\ t[i] = out[i + 1]
    BY <1>1, AscendingTail DEF Direction
  <2>2. IFramesFit(n, m, t, acc)
    BY <2>1 DEF Direction, IFramesFit
  <2> QED BY <2>1, <2>2 DEF Direction
<1>2. ASSUME Shorter(RRFrame, t, back) PROVE Direction(n, m, active, ack, out, t, acc, del)
  <2>1. Ascending(t) /\ \A i \in 1 .. Len(t) : i + 1 \in 1 .. Len(back) /\ t[i] = back[i + 1]
    BY <1>2, AscendingTail DEF Direction
  <2>2. RRFramesFit(n, m, active, ack, t)
    BY <2>1 DEF Direction, RRFramesFit
  <2> QED BY <2>1, <2>2 DEF Direction
<1> QED BY <1>1, <1>2

(* What happens to one direction when the unit takes a compound or a frame. *)

LEMMA AcceptKeeps ==
  ASSUME NEW n \in Nat, NEW m \in Nat, NEW ack, NEW out \in Seq(IFrame), NEW back,
         NEW acc \in Seq(SDU), NEW del, NEW d \in SDU,
         Direction(n, m, NoCompound, ack, out, back, acc, del)
  PROVE  Direction(n + 1, m, [type |-> "I", NS |-> n, sdu |-> d], ack, out, back, Append(acc, d), del)
<1> DEFINE frame == [type |-> "I", NS |-> n, sdu |-> d]
<1>1. frame \in IFrame /\ frame # NoCompound /\ frame.NS = n /\ frame.sdu = d
  BY FrameShape DEF IFrame
<1>2. n = m /\ n = Len(acc)
  BY DEF Direction, CountersFit
<1>3. /\ Len(Append(acc, d)) = n + 1 /\ Append(acc, d)[n + 1] = d
      /\ \A k \in 1 .. n : Append(acc, d)[k] = acc[k]
  BY <1>2
<1> HIDE DEF frame
<1>4. CountersFit(n + 1, m, frame, Append(acc, d), del)
  BY <1>1, <1>2, <1>3 DEF Direction, CountersFit
<1>5. IFramesFit(n + 1, m, out, Append(acc, d))
  <2>1. \A i \in 1 .. Len(out) : out[i] \in IFrame
    OBVIOUS
  <2>2. \A i \in 1 .. Len(out) : out[i].NS \in Nat
    BY <2>1, FrameShape
  <2>3. \A i \in 1 .. Len(out) : out[i].NS + 1 \in 1 .. n
    BY <2>2 DEF Direction, IFramesFit
  <2> QED BY <1>2, <1>3, <2>2, <2>3 DEF Direction, IFramesFit
<1>6. RRFramesFit(n + 1, m, frame, ack, back)
  BY <1>1, <1>2 DEF Direction, RRFramesFit, RRFits
<1> QED BY <1>4, <1>5, <1>6 DEF Direction, frame

(* The RR frame that answers a frame carries NR as it was. *)
LEMMA AnswerKeeps ==
  ASSUME NEW n \in Nat, NEW m \in Nat, NEW active, NEW ack \in RRFrame \cup {NoCompound},
         NEW out, NEW back \in Seq(RRFrame), NEW acc, NEW del,
         Direction(n, m, active, ack, out, back, acc, del)
  PROVE  Direction(n, m, active, [type |-> "RR", NS |-> m], out, back, acc, del)
<1> DEFINE rr == [type |-> "RR", NS |-> m]
<1>1. rr.NS = m
  OBVIOUS
<1> HIDE DEF rr
<1>2. RRFits(n, m, active, m)
  BY DEF Direction, CountersFit, RRFits
<1>3. RRFramesFit(n, m, active, rr, back)
  BY <1>1, <1>2 DEF Direction, RRFramesFit, RRFits
<1> QED BY <1>3 DEF Direction, rr

LEMMA NewFrameKeeps ==
  ASSUME NEW n \in Nat, NEW m \in Nat, NEW active, NEW ack \in RRFrame \cup {NoCompound},
         NEW out \in Seq(IFrame), NEW back \in Seq(RRFrame),
         NEW acc \in Seq(SDU), NEW del \in Seq(SDU), NEW t,
         Direction(n, m, active, ack, out, back, acc, del),
         Shorter(IFrame, t, out), out[1].NS = m
  PROVE  Direction(n, m + 1, active, ack, t, back, acc, Append(del, out[1].sdu))
<1> DEFINE sdu == out[1].sdu
<1>1. 1 \in 1 .. Len(out) /\ sdu \in SDU
  BY FrameShape DEF Shorter
<1>2. n = m + 1 /\ sdu = acc[m + 1] /\ m = Len(del) /\ n = Len(acc)
  BY <1>1 DEF Direction, CountersFit, IFramesFit
<1>3. active # NoCompound
  BY <1>2 DEF Direction, CountersFit
<1> HIDE DEF sdu
<1>4. /\ Len(Append(del, sdu)) = m + 1
      /\ \A k \in 1 .. m + 1 : Append(del, sdu)[k] = IF k = m + 1 THEN sdu ELSE del[k]
  BY <1>1, <1>2
<1>5. CountersFit(n, m + 1, active, acc, Append(del, sdu))
  BY <1>2, <1>3, <1>4 DEF Direction, CountersFit
<1>6. /\ Ascending(t)
      /\ \A i \in 1 .. Len(t) : i + 1 \in 1 .. Len(out) /\ t[i] = out[i + 1] /\ m <= t[i].NS
  BY AscendingTail DEF Direction
<1>7. \A i \in 1 .. Len(t) : t[i].NS \in Nat
  BY FrameShape DEF Shorter
<1>8. IFramesFit(n, m + 1, t, acc)
  <2>1. IFramesFit(n, m, t, acc)
    BY LossKeeps DEF Direction
  <2> QED BY SMTT(20), <1>6, <1>7, <2>1 DEF IFramesFit
<1>9. RRFramesFit(n, m + 1, active, ack, back)
  <2>1. \A i \in 1 .. Len(back) : back[i] \in RRFrame
    OBVIOUS
  <2>2. \A i \in 1 .. Len(back) : back[i].NS \in Nat
    BY <2>1, FrameShape
  <2>3. ack # NoCompound => ack.NS \in Nat
    BY FrameShape
  <2> QED BY <1>3, <2>2, <2>3 DEF Direction, RRFramesFit, RRFits
<1> QED BY <1>5, <1>6, <1>8, <1>9 DEF Direction, sdu

LEMMA AcknowledgedKeeps ==
  ASSUME NEW n \in Nat, NEW m \in Nat, NEW active, NEW ack \in RRFrame \cup {NoCompound},
         NEW out, NEW back \in Seq(RRFrame), NEW acc, NEW del, NEW t,
         Direction(n, m, active, ack, out, back, acc, del),
         Shorter(RRFrame, t, back), back[1].NS = n
  PROVE  Direction(n, m, NoCompound, ack, out, t, acc, del)
<1>1. 1 \in 1 .. Len(back)
  BY DEF Shorter
<1>2. n = m
  BY <1>1 DEF Direction, CountersFit, RRFramesFit, RRFits
<1>3. /\ Ascending(t)
      /\ \A i \in 1 .. Len(t) : i + 1 \in 1 .. Len(back) /\ t[i] = back[i + 1] /\ n <= t[i].NS
  BY AscendingTail DEF Direction
<1>4. \A i \in 1 .. Len(t) : t[i].NS \in Nat
  BY FrameShape DEF Shorter
<1>5. ack # NoCompound => ack.NS \in Nat /\ n <= ack.NS
  BY <1>1, FrameShape DEF Direction, RRFramesFit
<1>6. RRFramesFit(n, m, NoCompound, ack, t)
  BY SMTT(20), <1>2, <1>3, <1>4, <1>5 DEF Direction, RRFramesFit, RRFits
<1>7. CountersFit(n, m, NoCompound, acc, del)
  BY <1>2 DEF Direction, CountersFit
<1> QED BY <1>3, <1>6, <1>7 DEF Direction

-----------------------------------------------------------------------------
LEMMA InitIInv == Init => IInv
<1> SUFFICES ASSUME Init PROVE IInv
  OBVIOUS
<1>1. TypeOK
  <2>1. << >> \in Seq(IFrame) /\ << >> \in Seq(RRFrame) /\ << >> \in Seq(SDU)
    OBVIOUS
  <2> QED BY <2>1 DEF Init, TypeOK, Failure
<1>2. NothingImpossible
  BY DEF Init, NothingImpossible, Throws
<1>3. ASSUME NEW p \in Peer PROVE TimerFits(p) /\ DirectionFrom(p)
  BY PeerFacts DEF Init, TimerFits, DirectionFrom, Direction, CountersFit, Ascending,
                   IFramesFit, RRFramesFit
<1> QED BY <1>1, <1>2, <1>3 DEF IInv

(* The types of what belongs to a peer. *)
LEMMA Types ==
  ASSUME TypeOK, NEW p \in Peer
  PROVE  /\ NS[p] \in Nat /\ NR[p] \in Nat
         /\ activeCompound[p] \in IFrame \cup {NoCompound}
         /\ ackCompound[p] \in RRFrame \cup {NoCompound}
         /\ dataWire[p] \in Seq(IFrame) /\ ackWire[p] \in Seq(RRFrame)
         /\ accepted[p] \in Seq(SDU) /\ delivered[p] \in Seq(SDU)
         /\ sendNowData[p] \in BOOLEAN /\ timeoutSet[p] \in BOOLEAN
  BY DEF TypeOK

(* A step of the sender p, or one of the network, that leaves its receiver. *)
LEMMA SenderKeepsInv ==
  ASSUME IInv, NEW p \in Peer, TypeOK', NothingImpossible', TimerFits(p)',
         DirectionFrom(p)', UNCHANGED <<NR, ackCompound, delivered>>,
         NS'[Other(p)] = NS[Other(p)], activeCompound'[Other(p)] = activeCompound[Other(p)],
         timeoutSet'[Other(p)] = timeoutSet[Other(p)],
         sendNowData'[Other(p)] = sendNowData[Other(p)],
         dataWire'[Other(p)] = dataWire[Other(p)], ackWire'[p] = ackWire[p],
         accepted'[Other(p)] = accepted[Other(p)], failure = "none"
  PROVE  IInv'
<1> DEFINE q == Other(p)
<1>1. q \in Peer /\ Other(q) = p /\ \A r \in Peer : r = p \/ r = q
  BY PeerFacts
<1>2. DirectionFrom(q)'
  BY <1>1 DEF IInv, DirectionFrom
<1>3. TimerFits(q)'
  BY <1>1 DEF IInv, TimerFits
<1> QED BY <1>1, <1>2, <1>3 DEF IInv

(* A step of the receiver, or one of its network, that leaves the sender. *)
LEMMA ReceiverKeepsInv ==
  ASSUME IInv, NEW q \in Peer, TypeOK', DirectionFrom(Other(q))',
         UNCHANGED <<senderVars, accepted, failure>>,
         NR'[Other(q)] = NR[Other(q)], ackCompound'[Other(q)] = ackCompound[Other(q)],
         delivered'[Other(q)] = delivered[Other(q)],
         dataWire'[q] = dataWire[q], ackWire'[Other(q)] = ackWire[Other(q)]
  PROVE  IInv'
<1> DEFINE p == Other(q)
<1>1. p \in Peer /\ Other(p) = q /\ \A r \in Peer : r = p \/ r = q
  BY PeerFacts
<1>2. DirectionFrom(q)'
  BY <1>1 DEF IInv, DirectionFrom, senderVars
<1>3. TimerFits(p)' /\ TimerFits(q)' /\ NothingImpossible'
  BY <1>1 DEF IInv, TimerFits, NothingImpossible, senderVars
<1> QED BY <1>1, <1>2, <1>3 DEF IInv

LEMMA SendDataKeepsInv ==
  ASSUME IInv, failure = "none", NEW p \in Peer, NEW d \in SDU, SendData(p, d)
  PROVE  IInv'
<1> DEFINE q == Other(p)
           frame == [type |-> "I", NS |-> NS[p], sdu |-> d]
<1>1. q \in Peer /\ q # p
  BY PeerFacts
<1>2. TypeOK /\ activeCompound[p] = NoCompound /\ ~timeoutSet[p]
  BY DEF IInv, TimerFits, SendData, isAccepting
<1>3. frame \in IFrame /\ frame # NoCompound
  BY <1>2, Types, FrameShape DEF IFrame
<1> HIDE DEF frame
<1>4. /\ NS' = [NS EXCEPT ![p] = @ + 1]
      /\ accepted' = [accepted EXCEPT ![p] = Append(@, d)]
      /\ activeCompound' = [activeCompound EXCEPT ![p] = frame]
      /\ timeoutSet' = [timeoutSet EXCEPT ![p] = TRUE]
      /\ dataWire' = [dataWire EXCEPT ![p] = Append(@, frame)]
      /\ UNCHANGED <<failure, sendNowData, receiverVars, ackWire, delivered, repeated>>
  BY <1>2, <1>3 DEF SendData, Transmit, frame
<1>5. Longer(IFrame, Append(dataWire[p], frame), dataWire[p], frame)
  BY <1>2, <1>3, Types, AppendIsLonger
<1>6. TypeOK'
  <2>1. Append(dataWire[p], frame) \in Seq(IFrame) /\ Append(accepted[p], d) \in Seq(SDU)
    BY <1>2, <1>3, Types
  <2> QED BY <1>2, <1>3, <1>4, <2>1 DEF TypeOK, receiverVars
<1>7. Direction(NS[p] + 1, NR[q], frame, ackCompound[q], Append(dataWire[p], frame), ackWire[q],
                Append(accepted[p], d), delivered[q])
  <2>1. Direction(NS[p], NR[q], NoCompound, ackCompound[q], dataWire[p], ackWire[q],
                  accepted[p], delivered[q])
    BY <1>2 DEF IInv, DirectionFrom
  <2>2. Direction(NS[p] + 1, NR[q], frame, ackCompound[q], dataWire[p], ackWire[q],
                  Append(accepted[p], d), delivered[q])
    BY <1>1, <1>2, <2>1, Types, AcceptKeeps DEF frame
  <2>3. NS[p] + 1 \in Nat /\ NR[q] \in Nat /\ dataWire[p] \in Seq(IFrame)
    BY <1>1, <1>2, Types
  <2> HIDE DEF q
  <2> QED BY <1>3, <1>5, <2>2, <2>3, SendKeeps
<1>8. DirectionFrom(p)'
  BY <1>1, <1>2, <1>4, <1>7 DEF DirectionFrom, TypeOK, receiverVars
<1>9. TimerFits(p)' /\ NothingImpossible'
  BY <1>2, <1>3, <1>4 DEF IInv, TimerFits, NothingImpossible, TypeOK
<1>10. /\ NS'[q] = NS[q] /\ activeCompound'[q] = activeCompound[q]
       /\ timeoutSet'[q] = timeoutSet[q] /\ sendNowData'[q] = sendNowData[q]
       /\ dataWire'[q] = dataWire[q] /\ ackWire'[p] = ackWire[p]
       /\ accepted'[q] = accepted[q] /\ UNCHANGED <<NR, ackCompound, delivered>>
  BY <1>1, <1>2, <1>4 DEF TypeOK, receiverVars
<1> QED BY <1>6, <1>8, <1>9, <1>10, SenderKeepsInv

(* What Transmit does with the timeout not set: it is set, and either the
   compound that waits goes down the port or the unit stops. *)
LEMMA TransmitKeepsInv ==
  ASSUME IInv, failure = "none", NEW p \in Peer, Transmit(p, activeCompound[p], FALSE),
         sendNowData' \in [Peer -> BOOLEAN], sendNowData'[Other(p)] = sendNowData[Other(p)],
         UNCHANGED <<NS, activeCompound, receiverVars, ackWire, historyVars>>
  PROVE  IInv'
<1> DEFINE q == Other(p)
           active == activeCompound[p]
<1>1. q \in Peer /\ q # p
  BY PeerFacts
<1>2. TypeOK
  BY DEF IInv
<1>3. timeoutSet' = [timeoutSet EXCEPT ![p] = TRUE]
  BY DEF Transmit
<1>4. CASE active = NoCompound
  <2>1. failure' = "null compound" /\ dataWire' = dataWire
    BY <1>4 DEF Transmit
  <2>2. TypeOK'
    BY <1>2, <1>3, <2>1 DEF TypeOK, Failure, receiverVars, historyVars
  <2>3. DirectionFrom(p)'
    BY <2>1 DEF IInv, DirectionFrom, receiverVars, historyVars
  <2>4. TimerFits(p)' /\ NothingImpossible'
    BY <2>1 DEF TimerFits, NothingImpossible, Throws
  <2> QED BY <1>1, <1>2, <1>3, <2>1, <2>2, <2>3, <2>4, SenderKeepsInv DEF TypeOK, receiverVars, historyVars
<1>5. CASE active # NoCompound
  <2>1. dataWire' = [dataWire EXCEPT ![p] = Append(@, active)] /\ failure' = failure
    BY <1>5 DEF Transmit
  <2>2. active \in IFrame
    BY <1>2, <1>5, Types
  <2>3. Longer(IFrame, Append(dataWire[p], active), dataWire[p], active)
    BY <1>2, <2>2, Types, AppendIsLonger
  <2>4. TypeOK'
    <3>1. Append(dataWire[p], active) \in Seq(IFrame)
      BY <2>3 DEF Longer
    <3> HIDE DEF active
    <3> QED BY <1>2, <1>3, <2>1, <3>1 DEF TypeOK, receiverVars, historyVars
  <2>5. Direction(NS[p], NR[q], active, ackCompound[q], Append(dataWire[p], active), ackWire[q],
                  accepted[p], delivered[q])
    <3>1. Direction(NS[p], NR[q], active, ackCompound[q], dataWire[p], ackWire[q],
                    accepted[p], delivered[q])
      BY DEF IInv, DirectionFrom
    <3>2. /\ NS[p] \in Nat /\ NR[q] \in Nat /\ dataWire[p] \in Seq(IFrame)
      BY <1>1, <1>2, Types
    <3> HIDE DEF active, q
    <3> QED BY <2>2, <2>3, <3>1, <3>2, SendKeeps
  <2>6. DirectionFrom(p)'
    BY <1>1, <1>2, <2>1, <2>5 DEF DirectionFrom, TypeOK, receiverVars, historyVars
  <2>7. TimerFits(p)' /\ NothingImpossible'
    BY <1>2, <1>3, <1>5, <2>1 DEF IInv, TimerFits, NothingImpossible, TypeOK
  <2> QED BY <1>1, <1>2, <1>3, <2>1, <2>4, <2>6, <2>7, SenderKeepsInv DEF TypeOK, receiverVars, historyVars
<1> QED BY <1>4, <1>5

LEMMA WakeupDataKeepsInv ==
  ASSUME IInv, failure = "none", NEW p \in Peer, WakeupData(p)
  PROVE  IInv'
<1>1. TypeOK /\ Other(p) \in Peer /\ Other(p) # p
  BY PeerFacts DEF IInv
<1>2. /\ sendNowData' = [sendNowData EXCEPT ![p] = failure' # "none"]
      /\ UNCHANGED <<NS, activeCompound, receiverVars, ackWire, historyVars>>
      /\ Transmit(p, activeCompound[p], timeoutSet[p])
  BY DEF WakeupData
<1>3. CASE ~timeoutSet[p]
  <2>1. sendNowData' \in [Peer -> BOOLEAN] /\ sendNowData'[Other(p)] = sendNowData[Other(p)]
    BY <1>1, <1>2 DEF TypeOK
  <2>2. Transmit(p, activeCompound[p], FALSE)
    BY <1>1, <1>2, <1>3, Types
  <2> QED BY <1>2, <2>1, <2>2, TransmitKeepsInv
<1>4. CASE timeoutSet[p]
  <2>1. failure' = "A timer has been set already" /\ UNCHANGED <<timeoutSet, dataWire>>
    BY <1>2, <1>4 DEF Transmit
  <2>2. TypeOK'
    BY <1>1, <1>2, <2>1 DEF TypeOK, Failure, receiverVars, historyVars
  <2>3. TimerFits(p)' /\ NothingImpossible'
    BY <2>1 DEF TimerFits, NothingImpossible, Throws
  <2>4. DirectionFrom(p)'
    BY <1>2, <2>1 DEF IInv, DirectionFrom, receiverVars, historyVars
  <2> QED BY <1>1, <1>2, <2>1, <2>2, <2>3, <2>4, SenderKeepsInv DEF TypeOK, receiverVars, historyVars
<1> QED BY <1>3, <1>4

LEMMA OnTimeoutKeepsInv ==
  ASSUME IInv, failure = "none", NEW p \in Peer, OnTimeout(p)
  PROVE  IInv'
<1>1. TypeOK /\ Other(p) \in Peer /\ Other(p) # p
  BY PeerFacts DEF IInv
<1>2. activeCompound[p] # NoCompound
  BY DEF IInv, TimerFits, OnTimeout
<1>3. UNCHANGED <<NS, activeCompound, receiverVars, ackWire, historyVars>>
  BY DEF OnTimeout
<1>4. CASE hasAcceptor(dataWire[p])
  <2>1. Transmit(p, activeCompound[p], FALSE) /\ sendNowData' = sendNowData
    BY <1>2, <1>4 DEF OnTimeout
  <2>2. sendNowData' \in [Peer -> BOOLEAN] /\ sendNowData'[Other(p)] = sendNowData[Other(p)]
    BY <1>1, <2>1 DEF TypeOK
  <2> QED BY <1>3, <2>1, <2>2, TransmitKeepsInv
<1>5. CASE ~hasAcceptor(dataWire[p])
  <2>1. /\ sendNowData' = [sendNowData EXCEPT ![p] = TRUE]
        /\ timeoutSet' = [timeoutSet EXCEPT ![p] = FALSE]
        /\ UNCHANGED <<dataWire, failure>>
    BY <1>2, <1>5 DEF OnTimeout, Blocked
  <2>2. TypeOK'
    BY <1>1, <1>3, <2>1 DEF TypeOK, receiverVars, historyVars
  <2>3. TimerFits(p)' /\ NothingImpossible'
    BY <1>1, <1>2, <1>3, <2>1 DEF IInv, TimerFits, NothingImpossible, TypeOK
  <2>4. DirectionFrom(p)'
    BY <1>3, <2>1 DEF IInv, DirectionFrom, receiverVars, historyVars
  <2> QED BY <1>1, <1>3, <2>1, <2>2, <2>3, <2>4, SenderKeepsInv DEF TypeOK, receiverVars, historyVars
<1> QED BY <1>4, <1>5

LEMMA LoseDataKeepsInv ==
  ASSUME IInv, failure = "none", NEW p \in Peer, LoseData(p)
  PROVE  IInv'
<1> DEFINE q == Other(p)
<1>1. TypeOK /\ q \in Peer /\ q # p
  BY PeerFacts DEF IInv
<1>2. /\ dataWire' = [dataWire EXCEPT ![p] = Tail(@)]
      /\ UNCHANGED <<senderVars, receiverVars, ackWire, historyVars, failure>>
      /\ Shorter(IFrame, Tail(dataWire[p]), dataWire[p])
  BY <1>1, Types, TailIsShorter DEF LoseData
<1>3. TypeOK'
  BY <1>1, <1>2 DEF TypeOK, Shorter, senderVars, receiverVars, historyVars
<1>4. Direction(NS[p], NR[q], activeCompound[p], ackCompound[q], Tail(dataWire[p]), ackWire[q],
                accepted[p], delivered[q])
  BY <1>2, LossKeeps DEF IInv, DirectionFrom
<1>5. DirectionFrom(p)'
  BY <1>1, <1>2, <1>4 DEF DirectionFrom, TypeOK, senderVars, receiverVars, historyVars
<1>6. TimerFits(p)' /\ NothingImpossible'
  BY <1>2 DEF IInv, TimerFits, NothingImpossible, senderVars
<1> QED BY <1>1, <1>2, <1>3, <1>5, <1>6, SenderKeepsInv
        DEF TypeOK, senderVars, receiverVars, historyVars

LEMMA LoseAckKeepsInv ==
  ASSUME IInv, NEW q \in Peer, LoseAck(q)
  PROVE  IInv'
<1> DEFINE p == Other(q)
<1>1. TypeOK /\ p \in Peer /\ p # q /\ Other(p) = q
  BY PeerFacts DEF IInv
<1>2. /\ ackWire' = [ackWire EXCEPT ![q] = Tail(@)]
      /\ UNCHANGED <<senderVars, receiverVars, dataWire, historyVars, failure>>
      /\ Shorter(RRFrame, Tail(ackWire[q]), ackWire[q])
  BY <1>1, Types, TailIsShorter DEF LoseAck
<1>3. TypeOK'
  BY <1>1, <1>2 DEF TypeOK, Shorter, senderVars, receiverVars, historyVars
<1>4. Direction(NS[p], NR[q], activeCompound[p], ackCompound[q], dataWire[p], Tail(ackWire[q]),
                accepted[p], delivered[q])
  BY <1>1, <1>2, LossKeeps DEF IInv, DirectionFrom
<1>5. DirectionFrom(p)'
  BY <1>1, <1>2, <1>4 DEF DirectionFrom, TypeOK, senderVars, receiverVars, historyVars
<1> QED BY <1>1, <1>2, <1>3, <1>5, ReceiverKeepsInv
        DEF TypeOK, senderVars, receiverVars, historyVars

LEMMA WakeupAckKeepsInv ==
  ASSUME IInv, NEW q \in Peer, WakeupAck(q)
  PROVE  IInv'
<1> DEFINE p == Other(q)
           rr == ackCompound[q]
<1>1. TypeOK /\ p \in Peer /\ p # q /\ Other(p) = q
  BY PeerFacts DEF IInv
<1>2. /\ ackWire' = [ackWire EXCEPT ![q] = Append(@, rr)]
      /\ ackCompound' = [ackCompound EXCEPT ![q] = NoCompound]
      /\ UNCHANGED <<senderVars, NR, dataWire, historyVars, failure>>
      /\ rr # NoCompound
  BY DEF WakeupAck
<1>3. rr \in RRFrame
  BY <1>1, <1>2, Types
<1>4. Longer(RRFrame, Append(ackWire[q], rr), ackWire[q], rr)
  BY <1>1, <1>3, Types, AppendIsLonger
<1>5. Direction(NS[p], NR[q], activeCompound[p], rr, dataWire[p], ackWire[q], accepted[p], delivered[q])
  BY <1>1 DEF IInv, DirectionFrom
<1>6. /\ NS[p] \in Nat /\ NR[q] \in Nat /\ ackWire[q] \in Seq(RRFrame)
  BY <1>1, Types
<1>7. Direction(NS[p], NR[q], activeCompound[p], NoCompound, dataWire[p], Append(ackWire[q], rr),
                accepted[p], delivered[q])
  <2> HIDE DEF p, rr
  <2> QED BY <1>3, <1>4, <1>5, <1>6, AckKeeps
<1>8. TypeOK'
  <2>1. Append(ackWire[q], rr) \in Seq(RRFrame)
    BY <1>4 DEF Longer
  <2> HIDE DEF rr
  <2> QED BY <1>1, <1>2, <2>1 DEF TypeOK, senderVars, historyVars
<1>9. DirectionFrom(p)'
  BY <1>1, <1>2, <1>7 DEF DirectionFrom, TypeOK, senderVars, historyVars
<1> QED BY <1>1, <1>2, <1>8, <1>9, ReceiverKeepsInv DEF TypeOK, senderVars, historyVars

(* What the head of a data wire can be: the frame that is expected, or a
   repetition of the last one. *)
LEMMA DataArrives ==
  ASSUME IInv, NEW q \in Peer, dataWire[Other(q)] # << >>
  PROVE  LET frame == Head(dataWire[Other(q)])
         IN  /\ frame = dataWire[Other(q)][1] /\ frame \in IFrame
             /\ frame.NS \in {NR[q], NR[q] - 1}
             /\ frame.NS = NR[q] => /\ Len(delivered[q]) < Len(accepted[Other(q)])
                                    /\ frame.sdu = accepted[Other(q)][Len(delivered[q]) + 1]
<1> DEFINE p == Other(q)
           frame == dataWire[p][1]
<1>1. TypeOK /\ p \in Peer /\ Other(p) = q
  BY PeerFacts DEF IInv
<1>2. Shorter(IFrame, Tail(dataWire[p]), dataWire[p])
  BY <1>1, Types, TailIsShorter
<1>3. Head(dataWire[p]) = frame /\ frame \in IFrame /\ 1 \in 1 .. Len(dataWire[p])
  BY <1>2 DEF Shorter
<1>4. /\ NR[q] <= frame.NS + 1 /\ frame.NS + 1 <= NS[p] /\ NS[p] <= NR[q] + 1
      /\ NR[q] = Len(delivered[q]) /\ NS[p] = Len(accepted[p])
      /\ frame.sdu = accepted[p][frame.NS + 1]
  BY <1>1, <1>3 DEF IInv, DirectionFrom, Direction, CountersFit, IFramesFit
<1>5. NS[p] \in Nat /\ NR[q] \in Nat /\ frame.NS \in Nat
  BY <1>1, <1>3, Types, FrameShape
<1> HIDE DEF frame
<1>6. frame.NS \in {NR[q], NR[q] - 1} /\ (frame.NS = NR[q] => NR[q] < NS[p])
  BY SMTT(20), <1>4, <1>5
<1> QED BY <1>3, <1>4, <1>6

LEMMA ReceiveDataKeepsInv ==
  ASSUME IInv, NEW q \in Peer, ReceiveData(q)
  PROVE  IInv'
<1> DEFINE p     == Other(q)
           frame == dataWire[p][1]
           rest  == Tail(dataWire[p])
           rr    == [type |-> "RR", NS |-> NR[q]]
           nr    == IF frame.NS = NR[q] THEN NR[q] + 1 ELSE NR[q]
           del   == IF frame.NS = NR[q] THEN Append(delivered[q], frame.sdu) ELSE delivered[q]
<1>1. TypeOK /\ p \in Peer /\ p # q /\ Other(p) = q
  BY PeerFacts DEF IInv
<1>2. dataWire[p] # << >> /\ Head(dataWire[p]) = frame /\ frame \in IFrame
      /\ frame.NS \in {NR[q], NR[q] - 1}
  BY DataArrives DEF ReceiveData
<1>3. /\ NS[p] \in Nat /\ NR[q] \in Nat /\ ackCompound[q] \in RRFrame \cup {NoCompound}
      /\ dataWire[p] \in Seq(IFrame) /\ ackWire[q] \in Seq(RRFrame)
      /\ accepted[p] \in Seq(SDU) /\ delivered[q] \in Seq(SDU)
  BY <1>1, Types
<1>4. Shorter(IFrame, rest, dataWire[p]) /\ rest \in Seq(IFrame)
  BY <1>2, <1>3, TailIsShorter DEF Shorter
<1>5. frame.sdu \in SDU /\ del \in Seq(SDU) /\ nr \in Nat /\ rr \in RRFrame /\ rr # NoCompound
  BY <1>2, <1>3, FrameShape DEF RRFrame
<1>6. /\ dataWire' = [dataWire EXCEPT ![p] = rest]
      /\ NR' = [NR EXCEPT ![q] = nr] /\ delivered' = [delivered EXCEPT ![q] = del]
      /\ repeated' \in [Peer -> BOOLEAN]
      /\ UNCHANGED <<senderVars, accepted, failure>>
      /\ Reply(q, rr)
  BY <1>1, <1>2 DEF ReceiveData, IsExpected, TypeOK
<1>7. Direction(NS[p], NR[q], activeCompound[p], ackCompound[q], dataWire[p], ackWire[q],
                accepted[p], delivered[q])
  BY <1>1 DEF IInv, DirectionFrom
<1>8. Direction(NS[p], NR[q], activeCompound[p], rr, dataWire[p], ackWire[q],
                accepted[p], delivered[q])
  <2> HIDE DEF p
  <2> QED BY <1>3, <1>7, AnswerKeeps
<1>9. Direction(NS[p], nr, activeCompound[p], rr, rest, ackWire[q], accepted[p], del)
  <2>1. CASE frame.NS = NR[q]
    <3>1. nr = NR[q] + 1 /\ del = Append(delivered[q], dataWire[p][1].sdu) /\ dataWire[p][1].NS = NR[q]
      BY <2>1
    <3> HIDE DEF p, rr, rest, nr, del, frame
    <3> QED BY <1>3, <1>4, <1>5, <1>8, <3>1, NewFrameKeeps
  <2>2. CASE frame.NS # NR[q]
    <3>1. nr = NR[q] /\ del = delivered[q]
      BY <2>2
    <3> HIDE DEF p, rr, rest, nr, del, frame
    <3> QED BY <1>4, <1>8, <3>1, LossKeeps
  <2> QED BY <2>1, <2>2
<1>10. /\ NR' \in [Peer -> Nat] /\ delivered' \in [Peer -> Seq(SDU)]
       /\ dataWire' \in [Peer -> Seq(IFrame)]
       /\ NR'[q] = nr /\ delivered'[q] = del /\ dataWire'[p] = rest
       /\ NR'[p] = NR[p] /\ delivered'[p] = delivered[p] /\ dataWire'[q] = dataWire[q]
  <2> HIDE DEF nr, del, rest, frame
  <2> QED BY <1>1, <1>4, <1>5, <1>6 DEF TypeOK
<1> HIDE DEF nr, del, rest, rr, frame
<1>11. CASE hasAcceptor(ackWire[q])
  <2>1. /\ ackWire' = [ackWire EXCEPT ![q] = Append(@, rr)]
        /\ ackCompound' = [ackCompound EXCEPT ![q] = NoCompound]
    BY <1>6, <1>11 DEF Reply
  <2>2. Longer(RRFrame, Append(ackWire[q], rr), ackWire[q], rr)
    BY <1>3, <1>5, AppendIsLonger
  <2>3. Direction(NS[p], nr, activeCompound[p], NoCompound, rest, Append(ackWire[q], rr), accepted[p], del)
    <3> HIDE DEF p
    <3> QED BY <1>3, <1>5, <1>9, <2>2, AckKeeps
  <2>4. TypeOK'
    <3>1. Append(ackWire[q], rr) \in Seq(RRFrame)
      BY <2>2 DEF Longer
    <3> QED BY <1>1, <1>6, <1>10, <2>1, <3>1 DEF TypeOK, senderVars
  <2>5. DirectionFrom(p)'
    BY <1>1, <1>6, <1>10, <2>1, <2>3 DEF DirectionFrom, TypeOK, senderVars
  <2> QED BY <1>1, <1>6, <1>10, <2>1, <2>4, <2>5, ReceiverKeepsInv DEF TypeOK
<1>12. CASE ~hasAcceptor(ackWire[q])
  <2>1. ackWire' = ackWire /\ ackCompound' = [ackCompound EXCEPT ![q] = rr]
    BY <1>6, <1>12 DEF Reply
  <2>2. TypeOK'
    BY <1>1, <1>5, <1>6, <1>10, <2>1 DEF TypeOK, senderVars
  <2>3. DirectionFrom(p)'
    BY <1>1, <1>6, <1>9, <1>10, <2>1 DEF DirectionFrom, TypeOK, senderVars
  <2> QED BY <1>1, <1>6, <1>10, <2>1, <2>2, <2>3, ReceiverKeepsInv DEF TypeOK
<1> QED BY <1>11, <1>12

LEMMA ReceiveAckKeepsInv ==
  ASSUME IInv, failure = "none", NEW p \in Peer, ReceiveAck(p)
  PROVE  IInv'
<1> DEFINE q     == Other(p)
           frame == ackWire[q][1]
           rest  == Tail(ackWire[q])
<1>1. TypeOK /\ q \in Peer /\ q # p
  BY PeerFacts DEF IInv
<1>2. /\ NS[p] \in Nat /\ NR[q] \in Nat /\ ackCompound[q] \in RRFrame \cup {NoCompound}
      /\ ackWire[q] \in Seq(RRFrame) /\ ackWire[q] # << >>
  BY <1>1, Types DEF ReceiveAck
<1>3. Shorter(RRFrame, rest, ackWire[q])
  BY <1>2, TailIsShorter
<1>4. /\ Head(ackWire[q]) = frame /\ frame \in RRFrame /\ 1 \in 1 .. Len(ackWire[q])
      /\ rest \in Seq(RRFrame)
  BY <1>3 DEF Shorter
<1>5. Direction(NS[p], NR[q], activeCompound[p], ackCompound[q], dataWire[p], ackWire[q],
                accepted[p], delivered[q])
  BY DEF IInv, DirectionFrom
<1>6. frame.NS \in {NS[p], NS[p] - 1}
  <2>1. NS[p] <= frame.NS + 1 /\ frame.NS <= NR[q] /\ NR[q] <= NS[p]
    BY <1>4, <1>5 DEF Direction, CountersFit, RRFramesFit, RRFits
  <2>2. frame.NS \in Nat
    BY <1>4, FrameShape
  <2> HIDE DEF frame
  <2> QED BY <1>2, <2>1, <2>2
<1>7. /\ ackWire' = [ackWire EXCEPT ![q] = rest]
      /\ UNCHANGED <<NS, sendNowData, receiverVars, dataWire, historyVars, failure>>
      /\ IF frame.NS = NS[p]
         THEN /\ activeCompound' = [activeCompound EXCEPT ![p] = NoCompound]
              /\ timeoutSet' = [timeoutSet EXCEPT ![p] = FALSE]
         ELSE UNCHANGED <<activeCompound, timeoutSet>>
  BY <1>4, <1>6 DEF ReceiveAck, Acknowledges
<1> HIDE DEF rest, frame
<1>8. CASE frame.NS = NS[p]
  <2>1. ackWire[q][1].NS = NS[p]
    BY <1>8 DEF frame
  <2>2. Direction(NS[p], NR[q], NoCompound, ackCompound[q], dataWire[p], rest,
                  accepted[p], delivered[q])
    <3> HIDE DEF q
    <3> QED BY <1>2, <1>3, <1>5, <2>1, AcknowledgedKeeps
  <2>3. TypeOK'
    BY <1>1, <1>4, <1>7, <1>8 DEF TypeOK, receiverVars, historyVars
  <2>4. DirectionFrom(p)'
    BY <1>1, <1>7, <1>8, <2>2 DEF DirectionFrom, TypeOK, receiverVars, historyVars
  <2>5. TimerFits(p)' /\ NothingImpossible'
    BY <1>1, <1>7, <1>8 DEF IInv, TimerFits, NothingImpossible, TypeOK
  <2> QED BY ZenonT(30), <1>1, <1>7, <1>8, <2>3, <2>4, <2>5, SenderKeepsInv DEF TypeOK, receiverVars, historyVars
<1>9. CASE frame.NS # NS[p]
  <2>1. Direction(NS[p], NR[q], activeCompound[p], ackCompound[q], dataWire[p], rest,
                  accepted[p], delivered[q])
    BY <1>3, <1>5, LossKeeps
  <2>2. TypeOK'
    BY <1>1, <1>4, <1>7, <1>9 DEF TypeOK, receiverVars, historyVars
  <2>3. DirectionFrom(p)'
    BY <1>1, <1>7, <1>9, <2>1 DEF DirectionFrom, TypeOK, receiverVars, historyVars
  <2>4. TimerFits(p)' /\ NothingImpossible'
    BY <1>7, <1>9 DEF IInv, TimerFits, NothingImpossible
  <2> QED BY <1>1, <1>7, <1>9, <2>2, <2>3, <2>4, SenderKeepsInv DEF TypeOK, receiverVars, historyVars
<1> QED BY <1>8, <1>9

(* Every step keeps the invariant. *)
LEMMA StepKeepsInv ==
  ASSUME IInv, [Next]_vars
  PROVE  IInv'
<1>1. CASE UNCHANGED vars
  BY <1>1 DEF vars, senderVars, receiverVars, historyVars, IInv, TypeOK, NothingImpossible,
              TimerFits, DirectionFrom
<1>2. CASE Next
  <2>1. failure = "none"
    BY <1>2 DEF Next
  <2> QED BY <1>2, <2>1, SendDataKeepsInv, WakeupDataKeepsInv, WakeupAckKeepsInv,
             ReceiveDataKeepsInv, ReceiveAckKeepsInv, OnTimeoutKeepsInv, LoseDataKeepsInv,
             LoseAckKeepsInv DEF Next
<1> QED BY <1>1, <1>2

-----------------------------------------------------------------------------
(* The invariant holds in every behaviour. *)
THEOREM Invariant == Spec => []IInv
<1>1. Init => IInv
  BY InitIInv
<1>2. IInv /\ [Next]_vars => IInv'
  BY StepKeepsInv
<1> QED BY <1>1, <1>2, PTL DEF Spec

(* The members of the units and the wires have their types. *)
THEOREM TypeCorrect == Spec => []TypeOK
<1>1. IInv => TypeOK
  BY DEF IInv
<1> QED BY <1>1, Invariant, PTL

(* A compound is kept until it was handed up, with a timeout or a wakeup to
   send it again, and none of the branches that can not happen is taken,
   though I frames and RR frames overtake each other. *)
THEOREM KeptUntilDelivered == Spec => []ActiveUntilDelivered
<1>1. IInv => ActiveUntilDelivered
  BY DEF IInv, ActiveUntilDelivered, TimerFits, DirectionFrom, Direction, CountersFit
<1> QED BY <1>1, Invariant, PTL

(* What a peer hands up next prolongs what it has handed up. *)
LEMMA NextPrefix ==
  ASSUME NEW s \in Seq(SDU), NEW t \in Seq(SDU), Len(s) < Len(t), \A k \in 1 .. Len(s) : s[k] = t[k]
  PROVE  Append(s, t[Len(s) + 1]) = SubSeq(t, 1, Len(s) + 1)
  OBVIOUS

(* Every step is a step of ReliableLink or leaves the users alone. *)
LEMMA StepRefines ==
  ASSUME IInv, [Next]_vars
  PROVE  [Link!Next]_(Link!vars)
<1>1. TypeOK
  BY DEF IInv
<1>2. ASSUME NEW p \in Peer, NEW d \in SDU, SendData(p, d)
      PROVE  Link!Accept(p, d)
  <2>1. CountersFit(NS[p], NR[Other(p)], NoCompound, accepted[p], delivered[Other(p)])
    BY <1>2 DEF IInv, DirectionFrom, Direction, SendData, isAccepting
  <2>2. Len(accepted[p]) - Len(delivered[Other(p)]) < 1
    <3>1. Len(accepted[p]) = Len(delivered[Other(p)])
      BY <2>1 DEF CountersFit
    <3>2. Len(accepted[p]) \in Nat
      BY <1>1, Types
    <3> QED BY <3>1, <3>2
  <2> QED BY <1>2, <2>2 DEF SendData, Link!Accept, Link!Other, Other
<1>3. ASSUME NEW q \in Peer, ReceiveData(q)
      PROVE  Link!Deliver(q) \/ UNCHANGED <<accepted, delivered>>
  <2> DEFINE p == Other(q)
             frame == Head(dataWire[p])
  <2>1. p \in Peer /\ Other(p) = q /\ dataWire[p] # << >>
    BY <1>3, PeerFacts DEF ReceiveData
  <2>2. CASE frame.NS # NR[q]
    BY <1>3, <2>2 DEF ReceiveData, IsExpected
  <2>3. CASE frame.NS = NR[q]
    <3>1. /\ Len(delivered[q]) < Len(accepted[p])
          /\ frame.sdu = accepted[p][Len(delivered[q]) + 1]
      BY <2>1, <2>3, DataArrives
    <3>2. accepted' = accepted /\ delivered' = [delivered EXCEPT ![q] = Append(@, frame.sdu)]
      BY <1>3, <2>3 DEF ReceiveData, IsExpected
    <3>3. delivered[q] \in Seq(SDU) /\ accepted[p] \in Seq(SDU)
      BY <1>1, <2>1, Types
    <3>4. \A k \in 1 .. Len(delivered[q]) : delivered[q][k] = accepted[p][k]
      BY <2>1 DEF IInv, DirectionFrom, Direction, CountersFit
    <3>5. Append(delivered[q], frame.sdu) = SubSeq(accepted[p], 1, Len(delivered[q]) + 1)
      BY <3>1, <3>3, <3>4, NextPrefix
    <3>6. Len(delivered[q]) + 1 \in Len(delivered[q]) + 1 .. Len(accepted[p])
      BY <3>1, <3>3
    <3> QED BY <3>2, <3>5, <3>6 DEF Link!Deliver, Link!Other, Other
  <2> QED BY <2>2, <2>3
<1> QED BY <1>2, <1>3 DEF Next, vars, historyVars, WakeupData, WakeupAck, ReceiveAck, OnTimeout,
                          LoseData, LoseAck, Link!Next, Link!vars, Link!Peer, Peer

(* StopAndWaitRC implements ReliableLink: whatever the two lower layers lose
   and however they delay, compounds come out in order and once, one at a
   time. *)
THEOREM Refinement == Spec => ImplementsReliableLink
<1>1. Init => Link!Init
  BY DEF Init, Link!Init, Link!Peer, Peer
<1>2. IInv /\ [Next]_vars => [Link!Next]_(Link!vars)
  BY StepRefines
<1> QED BY <1>1, <1>2, Invariant, PTL DEF Spec, ImplementsReliableLink, Link!Spec
===============================================================================
