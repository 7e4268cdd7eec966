-------------------------- MODULE StopAndWaitProofs --------------------------
(***************************************************************************)
(* Proofs about StopAndWait for every choice of the compounds, of their    *)
(* number and of the capacity of the lower layers.                         *)
(***************************************************************************)
EXTENDS StopAndWait, TLAPS

(* One direction of the link, as the values it consists of: n and active   *)
(* are NS and activeCompound of the sender, m and ack are NR and           *)
(* ackCompound of the receiver, out and back the wires from the sender and *)
(* to it, acc and del what was accepted and delivered.                     *)

CountersFit(n, m, active, acc, del) ==
    /\ n = Len(acc) /\ m = Len(del)
    /\ m <= n /\ n <= m + 1
    /\ active = NoCompound => m = n
    /\ active # NoCompound => /\ n = active.NS + 1
                              /\ active.sdu = acc[n]
    /\ \A k \in 1 .. m : del[k] = acc[k]

(* The numbers of the frames of one type never decrease along a wire.      *)
Ascending(type, w) ==
    \A i, j \in 1 .. Len(w) :
        i < j /\ w[i].type = type /\ w[j].type = type => w[i].NS <= w[j].NS

IFramesFit(n, m, out, acc) ==
    \A i \in 1 .. Len(out) :
        out[i].type = "I" => /\ m <= out[i].NS + 1 /\ out[i].NS + 1 <= n
                             /\ out[i].sdu = acc[out[i].NS + 1]

RRFramesFit(n, m, active, ack, back) ==
    \A i \in 1 .. Len(back) :
        back[i].type = "RR" => /\ n <= back[i].NS + 1 /\ back[i].NS <= m
                               /\ active = NoCompound => back[i].NS = n
                               /\ ack # NoCompound => back[i].NS <= ack.NS

AckFits(n, m, active, ack) ==
    ack # NoCompound => /\ n <= ack.NS + 1 /\ ack.NS <= m
                        /\ active = NoCompound => ack.NS = n

Direction(n, m, active, ack, out, back, acc, del) ==
    /\ CountersFit(n, m, active, acc, del)
    /\ Ascending("I", out)
    /\ IFramesFit(n, m, out, acc)
    /\ Ascending("RR", back)
    /\ RRFramesFit(n, m, active, ack, back)
    /\ AckFits(n, m, active, ack)

DirectionFrom(p) ==
    Direction(NS[p], NR[Other(p)], activeCompound[p], ackCompound[Other(p)],
              wire[p], wire[Other(p)], accepted[p], delivered[Other(p)])

-------------------------------------------------------------------------------
LEMMA FrameShape ==
    /\ \A f \in IFrame : f.type = "I" /\ f.NS \in Nat /\ f.sdu \in SDU /\ f # NoCompound
    /\ \A f \in RRFrame : f.type = "RR" /\ f.NS \in Nat /\ f # NoCompound
  BY StopAndWaitAssumption DEF IFrame, RRFrame, Frame

(* What Append and Tail do to the frames of a wire, position by position.  *)
Longer(t, s, f) ==
    /\ t \in Seq(Frame) /\ Len(s) \in Nat /\ Len(t) = Len(s) + 1
    /\ \A i \in 1 .. Len(s) : t[i] = s[i] /\ s[i] \in Frame
    /\ t[Len(s) + 1] = f

Shorter(t, s) ==
    /\ t \in Seq(Frame) /\ Len(t) \in Nat /\ Len(s) = Len(t) + 1
    /\ \A i \in 1 .. Len(t) : t[i] = s[i + 1] /\ t[i] \in Frame
    /\ Head(s) = s[1] /\ s[1] \in Frame

LEMMA AppendIsLonger ==
    ASSUME NEW s \in Seq(Frame), NEW f \in Frame
    PROVE  Longer(Append(s, f), s, f)
  BY DEF Longer

LEMMA TailIsShorter ==
    ASSUME NEW s \in Seq(Frame), s # << >>
    PROVE  Shorter(Tail(s), s)
  BY DEF Shorter

LEMMA AscendingAppend ==
    ASSUME NEW s \in Seq(Frame), NEW t, NEW f \in Frame, NEW type,
           Longer(t, s, f), Ascending(type, s),
           f.type = type => \A i \in 1 .. Len(s) : s[i].type = type => s[i].NS <= f.NS
    PROVE  Ascending(type, t)
<1> SUFFICES ASSUME NEW i \in 1 .. Len(t), NEW j \in 1 .. Len(t), i < j,
                    t[i].type = type, t[j].type = type
             PROVE  t[i].NS <= t[j].NS
  BY DEF Ascending
<1>1. i \in 1 .. Len(s) /\ t[i] = s[i]
  BY DEF Longer
<1>2. CASE j \in 1 .. Len(s)
  BY <1>1, <1>2 DEF Longer, Ascending
<1>3. CASE j = Len(s) + 1
  BY <1>1, <1>3 DEF Longer
<1> QED
  BY <1>2, <1>3 DEF Longer

LEMMA AscendingTail ==
    ASSUME NEW s \in Seq(Frame), NEW t, NEW type, Shorter(t, s), Ascending(type, s)
    PROVE  Ascending(type, t)
<1> SUFFICES ASSUME NEW i \in 1 .. Len(t), NEW j \in 1 .. Len(t), i < j,
                    t[i].type = type, t[j].type = type
             PROVE  t[i].NS <= t[j].NS
  BY DEF Ascending
<1>1. /\ i + 1 \in 1 .. Len(s) /\ j + 1 \in 1 .. Len(s) /\ i + 1 < j + 1
      /\ t[i] = s[i + 1] /\ t[j] = s[j + 1]
  BY DEF Shorter
<1> QED
  BY <1>1 DEF Ascending

(* Sending a frame keeps a direction in order.                             *)
LEMMA SendFrameKeeps ==
    ASSUME NEW n \in Nat, NEW m \in Nat,
           NEW active \in IFrame \cup {NoCompound},
           NEW ack \in RRFrame \cup {NoCompound},
           NEW out \in Seq(Frame), NEW back \in Seq(Frame),
           NEW acc, NEW del, NEW t, NEW f \in Frame,
           Direction(n, m, active, ack, out, back, acc, del)
    PROVE  /\ active # NoCompound /\ Longer(t, out, active) =>
                Direction(n, m, active, ack, t, back, acc, del)
           /\ f \in RRFrame /\ Longer(t, out, f) =>
                Direction(n, m, active, ack, t, back, acc, del)
           /\ f \in IFrame /\ Longer(t, back, f) =>
                Direction(n, m, active, ack, out, t, acc, del)
           /\ ack # NoCompound /\ Longer(t, back, ack) =>
                Direction(n, m, active, NoCompound, out, t, acc, del)
<1>1. ASSUME active # NoCompound, Longer(t, out, active)
      PROVE  Direction(n, m, active, ack, t, back, acc, del)
  <2>1. /\ active \in Frame /\ active.type = "I" /\ active.NS \in Nat
        /\ n = active.NS + 1 /\ active.sdu = acc[n] /\ m <= n
    BY <1>1, FrameShape DEF Direction, CountersFit, Frame
  <2>2. \A i \in 1 .. Len(out) : out[i].NS \in Nat
    BY <1>1, FrameShape DEF Longer, Frame
  <2>3. \A i \in 1 .. Len(out) : out[i].type = "I" => out[i].NS <= active.NS
    BY <2>1, <2>2 DEF Direction, IFramesFit
  <2>4. Ascending("I", t)
    BY <1>1, <2>1, <2>3, AscendingAppend DEF Direction
  <2>5. IFramesFit(n, m, t, acc)
    BY SMTT(20), <1>1, <2>1 DEF Direction, IFramesFit, Longer
  <2> QED
    BY <2>4, <2>5 DEF Direction
<1>2. ASSUME f \in RRFrame, Longer(t, out, f)
      PROVE  Direction(n, m, active, ack, t, back, acc, del)
  <2>1. f.type # "I"
    BY <1>2, FrameShape
  <2>2. Ascending("I", t)
    BY <1>2, <2>1, AscendingAppend DEF Direction
  <2>3. IFramesFit(n, m, t, acc)
    BY <1>2, <2>1 DEF Direction, IFramesFit, Longer
  <2> QED
    BY <2>2, <2>3 DEF Direction
<1>3. ASSUME f \in IFrame, Longer(t, back, f)
      PROVE  Direction(n, m, active, ack, out, t, acc, del)
  <2>1. f.type # "RR"
    BY <1>3, FrameShape
  <2>2. Ascending("RR", t)
    BY <1>3, <2>1, AscendingAppend DEF Direction
  <2>3. RRFramesFit(n, m, active, ack, t)
    BY <1>3, <2>1 DEF Direction, RRFramesFit, Longer
  <2> QED
    BY <2>2, <2>3 DEF Direction
<1>4. ASSUME ack # NoCompound, Longer(t, back, ack)
      PROVE  Direction(n, m, active, NoCompound, out, t, acc, del)
  <2>1. ack \in Frame /\ ack.type = "RR" /\ ack.NS \in Nat
    BY <1>4, FrameShape DEF Frame
  <2>2. Ascending("RR", t)
    BY <1>4, <2>1, AscendingAppend DEF Direction, RRFramesFit
  <2>3. RRFramesFit(n, m, active, NoCompound, t)
    BY <1>4, <2>1 DEF Direction, RRFramesFit, AckFits, Longer
  <2>4. AckFits(n, m, active, NoCompound)
    BY DEF AckFits
  <2> QED
    BY <2>2, <2>3, <2>4 DEF Direction
<1> QED
  BY <1>1, <1>2, <1>3, <1>4

(* Losing a frame, or taking it off the wire, keeps a direction in order.  *)
LEMMA TakeFrameKeeps ==
    ASSUME NEW n \in Nat, NEW m \in Nat, NEW active, NEW ack,
           NEW out \in Seq(Frame), NEW back \in Seq(Frame),
           NEW acc, NEW del, NEW t,
           Direction(n, m, active, ack, out, back, acc, del)
    PROVE  /\ Shorter(t, out) => Direction(n, m, active, ack, t, back, acc, del)
           /\ Shorter(t, back) => Direction(n, m, active, ack, out, t, acc, del)
<1>1. ASSUME Shorter(t, out)
      PROVE  Direction(n, m, active, ack, t, back, acc, del)
  <2>1. Ascending("I", t)
    BY <1>1, AscendingTail DEF Direction
  <2>2. \A i \in 1 .. Len(t) : i + 1 \in 1 .. Len(out) /\ t[i] = out[i + 1]
    BY <1>1 DEF Shorter
  <2>3. IFramesFit(n, m, t, acc)
    BY <2>2 DEF Direction, IFramesFit
  <2> QED
    BY <2>1, <2>3 DEF Direction
<1>2. ASSUME Shorter(t, back)
      PROVE  Direction(n, m, active, ack, out, t, acc, del)
  <2>1. Ascending("RR", t)
    BY <1>2, AscendingTail DEF Direction
  <2>2. \A i \in 1 .. Len(t) : i + 1 \in 1 .. Len(back) /\ t[i] = back[i + 1]
    BY <1>2 DEF Shorter
  <2>3. RRFramesFit(n, m, active, ack, t)
    BY <2>2 DEF Direction, RRFramesFit
  <2> QED
    BY <2>1, <2>3 DEF Direction
<1> QED
  BY <1>1, <1>2

-------------------------------------------------------------------------------
(* The four ways a handler changes one direction before it sends.          *)

LEMMA AcceptKeeps ==
    ASSUME NEW n \in Nat, NEW m \in Nat, NEW ack,
           NEW out \in Seq(Frame), NEW back,
           NEW acc \in Seq(SDU), NEW del, NEW d \in SDU,
           Direction(n, m, NoCompound, ack, out, back, acc, del)
    PROVE  Direction(n + 1, m, [type |-> "I", NS |-> n, sdu |-> d], ack,
                     out, back, Append(acc, d), del)
<1> DEFINE frame == [type |-> "I", NS |-> n, sdu |-> d]
<1>1. frame \in IFrame /\ frame # NoCompound
  BY FrameShape DEF IFrame
<1>2. n = m /\ n = Len(acc)
  BY DEF Direction, CountersFit
<1>3. /\ Len(Append(acc, d)) = n + 1 /\ Append(acc, d)[n + 1] = d
      /\ \A k \in 1 .. n : Append(acc, d)[k] = acc[k]
  BY <1>2
<1>4. CountersFit(n + 1, m, frame, Append(acc, d), del)
  BY <1>1, <1>2, <1>3 DEF Direction, CountersFit
<1>5. IFramesFit(n + 1, m, out, Append(acc, d))
  <2>1. \A i \in 1 .. Len(out) : out[i] \in Frame
    OBVIOUS
  <2>2. \A i \in 1 .. Len(out) : out[i].NS \in Nat
    BY <2>1, FrameShape DEF Frame
  <2>3. \A i \in 1 .. Len(out) : out[i].type = "I" => out[i].NS + 1 \in 1 .. n
    BY <2>2 DEF Direction, IFramesFit
  <2> QED
    BY <1>2, <1>3, <2>2, <2>3 DEF Direction, IFramesFit
<1> HIDE DEF frame
<1>6. RRFramesFit(n + 1, m, frame, ack, back)
  BY <1>1, <1>2 DEF Direction, RRFramesFit
<1>7. AckFits(n + 1, m, frame, ack)
  BY <1>1, <1>2 DEF Direction, AckFits
<1> QED
  BY <1>4, <1>5, <1>6, <1>7 DEF Direction, frame

LEMMA NewFrameKeeps ==
    ASSUME NEW n \in Nat, NEW m \in Nat,
           NEW active \in IFrame \cup {NoCompound},
           NEW ack \in RRFrame \cup {NoCompound},
           NEW out \in Seq(Frame), NEW back \in Seq(Frame),
           NEW acc \in Seq(SDU), NEW del \in Seq(SDU), NEW t,
           Direction(n, m, active, ack, out, back, acc, del),
           Shorter(t, out), Head(out).type = "I", Head(out).NS = m
    PROVE  Direction(n, m + 1, active, [type |-> "RR", NS |-> m + 1],
                     t, back, acc, Append(del, Head(out).sdu))
<1> DEFINE frame == Head(out)
           rr    == [type |-> "RR", NS |-> m + 1]
<1>1. frame = out[1] /\ frame \in Frame /\ 1 \in 1 .. Len(out)
  BY DEF Shorter
<1>2. n = m + 1 /\ frame.sdu = acc[m + 1] /\ m = Len(del) /\ n = Len(acc)
  BY <1>1 DEF Direction, CountersFit, IFramesFit
<1>3. active # NoCompound
  BY <1>2 DEF Direction, CountersFit
<1>4. rr # NoCompound
  BY FrameShape DEF RRFrame
<1>5. /\ Len(Append(del, frame.sdu)) = m + 1
      /\ \A k \in 1 .. m + 1 : Append(del, frame.sdu)[k] = IF k = m + 1 THEN frame.sdu ELSE del[k]
  <2>1. frame.sdu \in SDU
    BY <1>1, FrameShape DEF Frame
  <2> QED
    BY <1>2, <2>1
<1>6. CountersFit(n, m + 1, active, acc, Append(del, frame.sdu))
  BY <1>2, <1>3, <1>5 DEF Direction, CountersFit
<1>7. /\ \A i \in 1 .. Len(t) : i + 1 \in 1 .. Len(out) /\ t[i] = out[i + 1] /\ 1 < i + 1
  BY DEF Shorter
<1>8. \A i \in 1 .. Len(t) : t[i].type = "I" => m <= t[i].NS
  BY <1>1, <1>7 DEF Direction, Ascending
<1>9. \A i \in 1 .. Len(t) : t[i].NS \in Nat
  BY FrameShape DEF Shorter, Frame
<1>10. IFramesFit(n, m + 1, t, acc)
  <2>1. IFramesFit(n, m, t, acc)
    BY TakeFrameKeeps DEF Direction
  <2> QED
    BY SMTT(20), <1>8, <1>9, <2>1 DEF IFramesFit
<1>11. \A i \in 1 .. Len(back) : back[i].NS \in Nat
  <2>1. \A i \in 1 .. Len(back) : back[i] \in Frame
    OBVIOUS
  <2> QED
    BY <2>1, FrameShape DEF Frame
<1>12. RRFramesFit(n, m + 1, active, rr, back)
  <2>1. rr.NS = m + 1
    OBVIOUS
  <2> QED
    BY <1>2, <1>3, <1>11, <2>1 DEF Direction, RRFramesFit
<1>13. AckFits(n, m + 1, active, rr)
  BY <1>2, <1>3 DEF AckFits
<1>14. Ascending("I", t)
  BY AscendingTail DEF Direction
<1> QED
  BY <1>6, <1>10, <1>12, <1>13, <1>14 DEF Direction

LEMMA RepeatedFrameKeeps ==
    ASSUME NEW n \in Nat, NEW m \in Nat,
           NEW active, NEW ack, NEW out, NEW back \in Seq(Frame), NEW acc, NEW del,
           Direction(n, m, active, ack, out, back, acc, del)
    PROVE  Direction(n, m, active, [type |-> "RR", NS |-> m], out, back, acc, del)
<1> DEFINE rr == [type |-> "RR", NS |-> m]
<1>1. RRFramesFit(n, m, active, rr, back)
  BY DEF Direction, RRFramesFit
<1>2. AckFits(n, m, active, rr)
  BY DEF Direction, CountersFit, AckFits
<1> QED
  BY <1>1, <1>2 DEF Direction

LEMMA AcknowledgedKeeps ==
    ASSUME NEW n \in Nat, NEW m \in Nat, NEW active,
           NEW ack \in RRFrame \cup {NoCompound},
           NEW out, NEW back \in Seq(Frame), NEW acc, NEW del, NEW t,
           Direction(n, m, active, ack, out, back, acc, del),
           Shorter(t, back), Head(back).type = "RR", Head(back).NS = n
    PROVE  Direction(n, m, NoCompound, ack, out, t, acc, del)
<1>1. Head(back) = back[1] /\ 1 \in 1 .. Len(back)
  BY DEF Shorter
<1>2. n = m
  BY <1>1 DEF Direction, CountersFit, RRFramesFit
<1>3. \A i \in 1 .. Len(t) : /\ i + 1 \in 1 .. Len(back) /\ t[i] = back[i + 1]
                             /\ 1 < i + 1 /\ t[i].NS \in Nat
  BY FrameShape DEF Shorter, Frame
<1>4. \A i \in 1 .. Len(t) : t[i].type = "RR" => t[i].NS = n
  BY <1>1, <1>2, <1>3 DEF Direction, Ascending, RRFramesFit
<1>5. RRFramesFit(n, m, NoCompound, ack, t)
  BY <1>2, <1>3, <1>4 DEF Direction, RRFramesFit
<1>6. ack # NoCompound => ack.NS = n
  <2>1. ack # NoCompound => n <= ack.NS /\ ack.NS <= m /\ ack.NS \in Nat
    BY <1>1, FrameShape DEF Direction, RRFramesFit, AckFits
  <2> QED
    BY <1>2, <2>1
<1>7. AckFits(n, m, NoCompound, ack)
  BY <1>2, <1>6 DEF AckFits
<1>8. CountersFit(n, m, NoCompound, acc, del)
  BY <1>2 DEF Direction, CountersFit
<1>9. Ascending("RR", t)
  BY AscendingTail DEF Direction
<1> QED
  BY <1>5, <1>7, <1>8, <1>9 DEF Direction

-------------------------------------------------------------------------------
(* The inductive invariant.  InOrder alone is not inductive: that the next *)
(* frame is never delivered twice depends on what can still be on the      *)
(* wires, which Direction bounds.                                          *)
IInv ==
    /\ TypeOK
    /\ NoFailure
    /\ TimerGuardsActive
    /\ \A p \in Peer : DirectionFrom(p)

LEMMA PeerFacts ==
    ASSUME NEW p \in Peer
    PROVE  /\ Other(p) \in Peer /\ Other(p) # p /\ Other(Other(p)) = p
           /\ \A r \in Peer : r = p \/ r = Other(p)
  BY DEF Peer, Other

(* What every handler relies on: when it has left the members of p in      *)
(* order, the trailing tryToSend() keeps both directions in order.         *)
LEMMA TryToSendKeeps ==
    ASSUME NEW p \in Peer, NEW active \in IFrame \cup {NoCompound},
           NEW now \in BOOLEAN, NEW timer \in BOOLEAN,
           NEW ack \in RRFrame \cup {NoCompound},
           NEW wires \in [Peer -> Seq(Frame)],
           TypeOK, NoFailure, TimerGuardsActive,
           TryToSend(p, active, now, timer, ack, wires),
           active # NoCompound => now = ~timer,
           active = NoCompound => ~timer,
           NS' \in [Peer -> Nat], NR' \in [Peer -> Nat],
           accepted' \in [Peer -> Seq(SDU)], delivered' \in [Peer -> Seq(SDU)],
           Direction(NS'[p], NR'[Other(p)], active, ackCompound[Other(p)],
                     wires[p], wires[Other(p)], accepted'[p], delivered'[Other(p)]),
           Direction(NS'[Other(p)], NR'[p], activeCompound[Other(p)], ack,
                     wires[Other(p)], wires[p], accepted'[Other(p)], delivered'[p]),
           suspending' \in [Peer -> BOOLEAN], suspended' \in [Peer -> BOOLEAN],
           statusOnNull' \in BOOLEAN
    PROVE  IInv'
<1> DEFINE q  == Other(p)
           w  == AfterACK(ack, wires[p])
           k  == IF SendsACK(ack, wires[p]) THEN NoCompound ELSE ack
           data == SendsData(active, now, w)
           v  == IF data THEN Append(w, active) ELSE w
<1>1. q \in Peer /\ q # p /\ Other(q) = p /\ \A r \in Peer : r = p \/ r = q
  BY PeerFacts
<1>2. wires[p] \in Seq(Frame) /\ wires[q] \in Seq(Frame)
  BY <1>1
<1>3. /\ NS'[p] \in Nat /\ NS'[q] \in Nat /\ NR'[p] \in Nat /\ NR'[q] \in Nat
      /\ activeCompound[q] \in IFrame \cup {NoCompound}
      /\ ackCompound[q] \in RRFrame \cup {NoCompound}
  BY <1>1 DEF TypeOK
<1>4. ack # NoCompound => ack \in Frame /\ Longer(Append(wires[p], ack), wires[p], ack)
  BY <1>2, AppendIsLonger DEF Frame
<1>5. w \in Seq(Frame) /\ k \in RRFrame \cup {NoCompound}
  BY <1>2, <1>4 DEF AfterACK, SendsACK, Longer
<1>6. Direction(NS'[p], NR'[q], active, ackCompound[q], w, wires[q], accepted'[p], delivered'[q])
  BY <1>2, <1>3, <1>4, SendFrameKeeps DEF AfterACK, SendsACK
<1>7. Direction(NS'[q], NR'[p], activeCompound[q], k, wires[q], w, accepted'[q], delivered'[p])
  BY <1>2, <1>3, <1>4, SendFrameKeeps DEF AfterACK, SendsACK
<1>8. data => active \in IFrame /\ active \in Frame /\ active # NoCompound
  BY DEF SendsData, Frame
<1> HIDE DEF w, k
<1>9. data => Longer(Append(w, active), w, active)
  BY <1>5, <1>8, AppendIsLonger
<1>10. v \in Seq(Frame)
  BY <1>5, <1>9 DEF Longer
<1>11. Direction(NS'[p], NR'[q], active, ackCompound[q], v, wires[q], accepted'[p], delivered'[q])
  BY <1>2, <1>3, <1>5, <1>6, <1>8, <1>9, SendFrameKeeps
<1>12. Direction(NS'[q], NR'[p], activeCompound[q], k, wires[q], v, accepted'[q], delivered'[p])
  BY <1>2, <1>3, <1>5, <1>7, <1>8, <1>9, SendFrameKeeps
<1>13. data => ~timer
  BY DEF SendsData
<1>14. /\ activeCompound' = [activeCompound EXCEPT ![p] = active]
       /\ sendNow' = [sendNow EXCEPT ![p] = now /\ ~data]
       /\ timeoutSet' = [timeoutSet EXCEPT ![p] = timer \/ data]
       /\ ackCompound' = [ackCompound EXCEPT ![p] = k]
       /\ wire' = [wires EXCEPT ![p] = v]
       /\ failure' = "none"
  BY <1>13 DEF TryToSend, w, k, NoFailure
<1> HIDE DEF v, data
<1>15. /\ activeCompound'[p] = active /\ activeCompound'[q] = activeCompound[q]
       /\ ackCompound'[p] = k /\ ackCompound'[q] = ackCompound[q]
       /\ wire'[p] = v /\ wire'[q] = wires[q]
  BY <1>1, <1>14 DEF TypeOK
<1>16. DirectionFrom(p)' /\ DirectionFrom(q)'
  BY <1>1, <1>11, <1>12, <1>15 DEF DirectionFrom
<1>17. TimerGuardsActive'
  <2>1. /\ sendNow'[p] = (now /\ ~data) /\ timeoutSet'[p] = (timer \/ data)
        /\ sendNow'[q] = sendNow[q] /\ timeoutSet'[q] = timeoutSet[q]
    BY <1>1, <1>14 DEF TypeOK
  <2>2. data => now /\ active # NoCompound
    BY DEF data, SendsData
  <2>3. /\ active # NoCompound => (now /\ ~data) # (timer \/ data)
        /\ active = NoCompound => ~(timer \/ data)
    BY <2>2
  <2>4. data \in BOOLEAN
    BY DEF data, SendsData, hasAcceptor
  <2>5. /\ activeCompound'[p] # NoCompound => (sendNow'[p] # timeoutSet'[p])
        /\ activeCompound'[p] = NoCompound => ~timeoutSet'[p]
    BY <1>15, <2>1, <2>3, <2>4
  <2>6. /\ activeCompound'[q] # NoCompound => (sendNow'[q] # timeoutSet'[q])
        /\ activeCompound'[q] = NoCompound => ~timeoutSet'[q]
    BY <1>1, <1>15, <2>1 DEF TimerGuardsActive
  <2> QED
    BY <1>1, <2>5, <2>6 DEF TimerGuardsActive
<1>18. TypeOK'
  <2>1. data \in BOOLEAN
    BY DEF data, SendsData, hasAcceptor
  <2> QED
    BY <1>5, <1>10, <1>14, <2>1 DEF TypeOK, Failure, hasAcceptor
<1> QED
  BY <1>1, <1>14, <1>16, <1>17, <1>18 DEF IInv, NoFailure

-------------------------------------------------------------------------------
LEMMA InitIInv == Init => IInv
<1> SUFFICES ASSUME Init PROVE IInv
  OBVIOUS
<1>1. TypeOK
  <2>1. << >> \in Seq(Frame) /\ << >> \in Seq(SDU)
    OBVIOUS
  <2> QED
    BY <2>1 DEF Init, TypeOK, Failure
<1>2. NoFailure /\ TimerGuardsActive
  BY DEF Init, NoFailure, TimerGuardsActive
<1>3. ASSUME NEW p \in Peer PROVE DirectionFrom(p)
  BY PeerFacts DEF Init, DirectionFrom, Direction, CountersFit, Ascending,
                   IFramesFit, RRFramesFit, AckFits
<1> QED
  BY <1>1, <1>2, <1>3 DEF IInv

LEMMA SendDataKeeps ==
    ASSUME IInv, NEW p \in Peer, NEW d \in SDU, SendData(p, d)
    PROVE  IInv'
<1> DEFINE q == Other(p)
           frame == [type |-> "I", NS |-> NS[p], sdu |-> d]
<1>1. q \in Peer /\ q # p /\ Other(q) = p
  BY PeerFacts
<1>2. TypeOK /\ NoFailure /\ TimerGuardsActive /\ DirectionFrom(p) /\ DirectionFrom(q)
  BY <1>1 DEF IInv
<1>3. /\ NS' = [NS EXCEPT ![p] = @ + 1] /\ NR' = NR
      /\ accepted' = [accepted EXCEPT ![p] = Append(@, d)] /\ delivered' = delivered
      /\ activeCompound[p] = NoCompound
      /\ TryToSend(p, frame, TRUE, timeoutSet[p], ackCompound[p], wire)
      /\ suspending' = suspending /\ suspended' = suspended
      /\ statusOnNull' = statusOnNull
  BY DEF SendData, hasCapacity, suspendVars
<1>4. frame \in IFrame /\ frame # NoCompound
  BY <1>2, FrameShape DEF TypeOK, IFrame
<1>5. /\ NS'[p] = NS[p] + 1 /\ NS'[q] = NS[q]
      /\ accepted'[p] = Append(accepted[p], d) /\ accepted'[q] = accepted[q]
      /\ NS' \in [Peer -> Nat] /\ accepted' \in [Peer -> Seq(SDU)]
  BY SMTT(20), <1>1, <1>2, <1>3 DEF TypeOK
<1>6. Direction(NS[p], NR[q], NoCompound, ackCompound[q], wire[p], wire[q],
                accepted[p], delivered[q])
  BY <1>2, <1>3 DEF DirectionFrom
<1>7. Direction(NS'[p], NR'[q], frame, ackCompound[q], wire[p], wire[q],
                accepted'[p], delivered'[q])
  <2>1. NS[p] \in Nat /\ NR[q] \in Nat /\ wire[p] \in Seq(Frame) /\ accepted[p] \in Seq(SDU)
    BY <1>1, <1>2 DEF TypeOK
  <2> QED
    BY <1>3, <1>5, <1>6, <2>1, AcceptKeeps
<1>8. Direction(NS'[q], NR'[p], activeCompound[q], ackCompound[p], wire[q], wire[p],
                accepted'[q], delivered'[p])
  BY <1>1, <1>2, <1>3, <1>5 DEF DirectionFrom
<1>9. ~timeoutSet[p]
  BY <1>2, <1>3 DEF TimerGuardsActive
<1>10. /\ timeoutSet[p] \in BOOLEAN /\ ackCompound[p] \in RRFrame \cup {NoCompound}
       /\ wire \in [Peer -> Seq(Frame)] /\ NR' \in [Peer -> Nat]
       /\ delivered' \in [Peer -> Seq(SDU)]
       /\ suspending' \in [Peer -> BOOLEAN] /\ suspended' \in [Peer -> BOOLEAN]
       /\ statusOnNull' \in BOOLEAN
  BY <1>2, <1>3 DEF TypeOK
<1> HIDE DEF q, frame
<1> QED
  BY <1>2, <1>3, <1>4, <1>5, <1>7, <1>8, <1>9, <1>10, TryToSendKeeps DEF q

(* A handler of p that leaves the counters and the histories alone.        *)
LEMMA ResendKeeps ==
    ASSUME IInv, NEW p \in Peer, NEW now \in BOOLEAN, NEW timer \in BOOLEAN,
           TryToSend(p, activeCompound[p], now, timer, ackCompound[p], wire),
           activeCompound[p] # NoCompound => now = ~timer,
           activeCompound[p] = NoCompound => ~timer,
           UNCHANGED <<NS, NR, userVars, suspendVars, statusOnNull>>
    PROVE  IInv'
<1>1. Other(p) \in Peer /\ Other(Other(p)) = p
  BY PeerFacts
<1>2. TypeOK /\ NoFailure /\ TimerGuardsActive /\ DirectionFrom(p) /\ DirectionFrom(Other(p))
  BY <1>1 DEF IInv
<1>3. /\ NS' = NS /\ NR' = NR /\ accepted' = accepted /\ delivered' = delivered
      /\ suspending' = suspending /\ suspended' = suspended /\ statusOnNull' = statusOnNull
  BY DEF userVars, suspendVars
<1>4. /\ Direction(NS'[p], NR'[Other(p)], activeCompound[p], ackCompound[Other(p)],
                   wire[p], wire[Other(p)], accepted'[p], delivered'[Other(p)])
      /\ Direction(NS'[Other(p)], NR'[p], activeCompound[Other(p)], ackCompound[p],
                   wire[Other(p)], wire[p], accepted'[Other(p)], delivered'[p])
  BY <1>1, <1>2, <1>3 DEF DirectionFrom
<1>5. /\ activeCompound[p] \in IFrame \cup {NoCompound}
      /\ ackCompound[p] \in RRFrame \cup {NoCompound}
      /\ wire \in [Peer -> Seq(Frame)] /\ NS' \in [Peer -> Nat] /\ NR' \in [Peer -> Nat]
      /\ accepted' \in [Peer -> Seq(SDU)] /\ delivered' \in [Peer -> Seq(SDU)]
      /\ suspending' \in [Peer -> BOOLEAN] /\ suspended' \in [Peer -> BOOLEAN]
      /\ statusOnNull' \in BOOLEAN
  BY <1>2, <1>3 DEF TypeOK
<1> QED
  BY <1>2, <1>4, <1>5, TryToSendKeeps

LEMMA OnTimeoutKeeps ==
    ASSUME IInv, NEW p \in Peer, OnTimeout(p) PROVE IInv'
<1>1. timeoutSet[p] /\ activeCompound[p] # NoCompound
  BY DEF OnTimeout, IInv, TimerGuardsActive
<1>2. /\ TryToSend(p, activeCompound[p], TRUE, FALSE, ackCompound[p], wire)
      /\ UNCHANGED <<NS, NR, userVars, suspendVars, statusOnNull>>
  BY <1>1 DEF OnTimeout
<1> QED
  BY <1>1, <1>2, ResendKeeps

LEMMA WakeupKeeps ==
    ASSUME IInv, NEW p \in Peer, Wakeup(p) PROVE IInv'
<1>1. /\ sendNow[p] \in BOOLEAN /\ timeoutSet[p] \in BOOLEAN
      /\ activeCompound[p] # NoCompound => sendNow[p] = ~timeoutSet[p]
      /\ activeCompound[p] = NoCompound => ~timeoutSet[p]
  BY DEF IInv, TypeOK, TimerGuardsActive
<1> QED
  BY <1>1, ResendKeeps DEF Wakeup

(* What a frame that arrives at p tells, and what taking it off leaves.    *)
LEMMA ArrivalFacts ==
    ASSUME IInv, NEW p \in Peer, wire[Other(p)] # << >>
    PROVE  LET q    == Other(p)
               rest == [wire EXCEPT ![q] = Tail(@)]
           IN  /\ Head(wire[q]) \in Frame
               /\ rest \in [Peer -> Seq(Frame)]
               /\ rest[p] = wire[p] /\ Shorter(rest[q], wire[q])
               /\ Direction(NS[p], NR[q], activeCompound[p], ackCompound[q],
                            rest[p], rest[q], accepted[p], delivered[q])
               /\ Direction(NS[q], NR[p], activeCompound[q], ackCompound[p],
                            rest[q], rest[p], accepted[q], delivered[p])
<1> DEFINE q    == Other(p)
           rest == [wire EXCEPT ![q] = Tail(@)]
<1>1. q \in Peer /\ q # p /\ Other(q) = p
  BY PeerFacts
<1>2. TypeOK /\ DirectionFrom(p) /\ DirectionFrom(q)
  BY <1>1 DEF IInv
<1>3. wire[q] \in Seq(Frame) /\ wire[p] \in Seq(Frame)
  BY <1>1, <1>2 DEF TypeOK
<1>4. Shorter(Tail(wire[q]), wire[q])
  BY <1>3, TailIsShorter
<1>5. Head(wire[q]) \in Frame /\ Tail(wire[q]) \in Seq(Frame)
  BY <1>4 DEF Shorter
<1>6. rest[p] = wire[p] /\ rest[q] = Tail(wire[q]) /\ rest \in [Peer -> Seq(Frame)]
  BY <1>1, <1>2, <1>5 DEF TypeOK
<1>7. /\ NS[p] \in Nat /\ NS[q] \in Nat /\ NR[p] \in Nat /\ NR[q] \in Nat
  BY <1>1, <1>2 DEF TypeOK
<1>8. Direction(NS[p], NR[q], activeCompound[p], ackCompound[q],
                wire[p], Tail(wire[q]), accepted[p], delivered[q])
  BY <1>2, <1>3, <1>4, <1>7, TakeFrameKeeps DEF DirectionFrom
<1>9. Direction(NS[q], NR[p], activeCompound[q], ackCompound[p],
                Tail(wire[q]), wire[p], accepted[q], delivered[p])
  BY <1>1, <1>2, <1>3, <1>4, <1>7, TakeFrameKeeps DEF DirectionFrom
<1> QED
  BY <1>4, <1>5, <1>6, <1>8, <1>9

LEMMA ReceiveIKeeps ==
    ASSUME IInv, NEW p \in Peer, ReceiveI(p) PROVE IInv'
<1> DEFINE q     == Other(p)
           rest  == [wire EXCEPT ![q] = Tail(@)]
           frame == Head(wire[q])
           nr    == IF frame.NS = NR[p] THEN NR[p] + 1 ELSE NR[p]
           rr    == [type |-> "RR", NS |-> nr]
<1>1. q \in Peer /\ q # p /\ Other(q) = p
  BY PeerFacts
<1>2. TypeOK /\ NoFailure /\ TimerGuardsActive /\ DirectionFrom(q)
  BY <1>1 DEF IInv
<1>3. wire[q] # << >> /\ frame.type = "I"
  BY DEF ReceiveI, Arrives
<1>4. /\ frame \in Frame
      /\ rest \in [Peer -> Seq(Frame)]
      /\ rest[p] = wire[p] /\ Shorter(rest[q], wire[q])
      /\ Direction(NS[p], NR[q], activeCompound[p], ackCompound[q],
                   rest[p], rest[q], accepted[p], delivered[q])
      /\ Direction(NS[q], NR[p], activeCompound[q], ackCompound[p],
                   rest[q], rest[p], accepted[q], delivered[p])
  BY <1>3, ArrivalFacts
<1>5. /\ NS[q] \in Nat /\ NR[p] \in Nat /\ frame.NS \in Nat
      /\ activeCompound[q] \in IFrame \cup {NoCompound}
      /\ activeCompound[p] \in IFrame \cup {NoCompound}
      /\ ackCompound[p] \in RRFrame \cup {NoCompound}
      /\ wire[q] \in Seq(Frame) /\ wire[p] \in Seq(Frame)
      /\ accepted[q] \in Seq(SDU) /\ delivered[p] \in Seq(SDU)
      /\ NS \in [Peer -> Nat] /\ NR \in [Peer -> Nat]
      /\ accepted \in [Peer -> Seq(SDU)] /\ delivered \in [Peer -> Seq(SDU)]
      /\ suspending \in [Peer -> BOOLEAN] /\ suspended \in [Peer -> BOOLEAN]
      /\ sendNow[p] \in BOOLEAN /\ timeoutSet[p] \in BOOLEAN
      /\ statusOnNull \in BOOLEAN
  BY <1>1, <1>2, <1>4, FrameShape DEF TypeOK, Frame
<1>6. frame.sdu \in SDU
  BY <1>3, <1>4, FrameShape DEF Frame
<1>7. frame.NS \in {NR[p], NR[p] - 1}
  <2>1. frame = wire[q][1] /\ 1 \in 1 .. Len(wire[q])
    BY <1>4 DEF Shorter
  <2>2. NR[p] <= frame.NS + 1 /\ frame.NS + 1 <= NS[q] /\ NS[q] <= NR[p] + 1
    <3>1. Direction(NS[q], NR[p], activeCompound[q], ackCompound[p],
                    wire[q], wire[p], accepted[q], delivered[p])
      BY <1>1, <1>2 DEF DirectionFrom
    <3>2. wire[q][1].type = "I"
      BY <1>3, <2>1
    <3>3. NR[p] <= wire[q][1].NS + 1 /\ wire[q][1].NS + 1 <= NS[q]
      BY <2>1, <3>1, <3>2 DEF Direction, IFramesFit
    <3> QED
      BY <2>1, <3>1, <3>3 DEF Direction, CountersFit
  <2>3. NS[q] \in Nat /\ NR[p] \in Nat /\ frame.NS \in Nat
    BY <1>5
  <2> HIDE DEF frame
  <2> QED
    BY <2>2, <2>3
<1>8. /\ NR' = [NR EXCEPT ![p] = nr] /\ NS' = NS /\ accepted' = accepted
      /\ delivered' = IF frame.NS = NR[p]
                      THEN [delivered EXCEPT ![p] = Append(@, frame.sdu)] ELSE delivered
      /\ TryToSend(p, activeCompound[p], sendNow[p], timeoutSet[p], rr, rest)
      /\ suspending' = suspending /\ suspended' = suspended /\ statusOnNull' = statusOnNull
  BY <1>7 DEF ReceiveI, IsExpected, suspendVars
<1>9. rr \in RRFrame /\ NR' \in [Peer -> Nat] /\ delivered' \in [Peer -> Seq(SDU)]
  BY SMTT(20), <1>5, <1>6, <1>8 DEF RRFrame
<1>10. NR'[p] = nr /\ NR'[q] = NR[q] /\ delivered'[q] = delivered[q]
  BY <1>1, <1>5, <1>8
<1>11. Direction(NS'[p], NR'[q], activeCompound[p], ackCompound[q],
                 rest[p], rest[q], accepted'[p], delivered'[q])
  BY <1>4, <1>8, <1>10
<1>12. Direction(NS'[q], NR'[p], activeCompound[q], rr,
                 rest[q], rest[p], accepted'[q], delivered'[p])
  <2>1. CASE frame.NS = NR[p]
    <3>1. Direction(NS[q], NR[p], activeCompound[q], ackCompound[p],
                    wire[q], wire[p], accepted[q], delivered[p])
      BY <1>1, <1>2 DEF DirectionFrom
    <3>2. nr = NR[p] + 1 /\ delivered'[p] = Append(delivered[p], frame.sdu)
      BY <1>5, <1>8, <2>1
    <3>3. Direction(NS[q], NR[p] + 1, activeCompound[q], [type |-> "RR", NS |-> NR[p] + 1],
                    rest[q], wire[p], accepted[q], Append(delivered[p], frame.sdu))
      BY <1>3, <1>4, <1>5, <2>1, <3>1, NewFrameKeeps
    <3> QED
      BY <1>4, <1>8, <1>10, <3>2, <3>3
  <2>2. CASE frame.NS # NR[p]
    <3>1. nr = NR[p] /\ delivered'[p] = delivered[p]
      BY <1>8, <2>2
    <3>2. rest[p] \in Seq(Frame)
      BY <1>4, <1>5
    <3> QED
      BY <1>4, <1>5, <1>8, <1>10, <2>2, <3>1, <3>2, RepeatedFrameKeeps
  <2> QED
    BY <2>1, <2>2
<1>13. /\ activeCompound[p] # NoCompound => sendNow[p] = ~timeoutSet[p]
       /\ activeCompound[p] = NoCompound => ~timeoutSet[p]
  BY <1>2, <1>5 DEF TimerGuardsActive
<1>14. /\ NS' \in [Peer -> Nat] /\ accepted' \in [Peer -> Seq(SDU)]
       /\ suspending' \in [Peer -> BOOLEAN] /\ suspended' \in [Peer -> BOOLEAN]
       /\ statusOnNull' \in BOOLEAN
  BY <1>5, <1>8
<1>15. TryToSend(p, activeCompound[p], sendNow[p], timeoutSet[p], rr, rest)
  BY <1>8
<1>16. /\ sendNow[p] \in BOOLEAN /\ timeoutSet[p] \in BOOLEAN
       /\ activeCompound[p] \in IFrame \cup {NoCompound}
       /\ rr \in RRFrame \cup {NoCompound} /\ rest \in [Peer -> Seq(Frame)]
       /\ TypeOK /\ NoFailure /\ TimerGuardsActive
  BY <1>2, <1>4, <1>5, <1>9
<1> HIDE DEF rr, rest
<1> QED
  BY <1>9, <1>11, <1>12, <1>13, <1>14, <1>15, <1>16, TryToSendKeeps

LEMMA ReceiveRRKeeps ==
    ASSUME IInv, NEW p \in Peer, ReceiveRR(p) PROVE IInv'
<1> DEFINE q     == Other(p)
           rest  == [wire EXCEPT ![q] = Tail(@)]
           frame == Head(wire[q])
<1>1. q \in Peer /\ q # p /\ Other(q) = p
  BY PeerFacts
<1>2. TypeOK /\ NoFailure /\ TimerGuardsActive /\ DirectionFrom(p)
  BY <1>1 DEF IInv
<1>3. wire[q] # << >> /\ frame.type = "RR"
  BY DEF ReceiveRR, Arrives
<1>4. /\ frame \in Frame
      /\ rest \in [Peer -> Seq(Frame)]
      /\ rest[p] = wire[p] /\ Shorter(rest[q], wire[q])
      /\ Direction(NS[p], NR[q], activeCompound[p], ackCompound[q],
                   rest[p], rest[q], accepted[p], delivered[q])
      /\ Direction(NS[q], NR[p], activeCompound[q], ackCompound[p],
                   rest[q], rest[p], accepted[q], delivered[p])
  BY <1>3, ArrivalFacts
<1>5. /\ NS[p] \in Nat /\ NR[q] \in Nat /\ frame.NS \in Nat
      /\ ackCompound[q] \in RRFrame \cup {NoCompound}
      /\ ackCompound[p] \in RRFrame \cup {NoCompound}
      /\ activeCompound[p] \in IFrame \cup {NoCompound}
      /\ wire[q] \in Seq(Frame)
      /\ sendNow[p] \in BOOLEAN /\ timeoutSet[p] \in BOOLEAN
  BY <1>1, <1>2, <1>4, FrameShape DEF TypeOK, Frame
<1>6. Direction(NS[p], NR[q], activeCompound[p], ackCompound[q],
                wire[p], wire[q], accepted[p], delivered[q])
  BY <1>2 DEF DirectionFrom
<1>7. frame.NS = NS[p] \/ frame.NS = NS[p] - 1
  <2>1. frame = wire[q][1] /\ 1 \in 1 .. Len(wire[q])
    BY <1>4 DEF Shorter
  <2>2. wire[q][1].type = "RR"
    BY <1>3, <2>1
  <2>3. NS[p] <= wire[q][1].NS + 1 /\ wire[q][1].NS <= NR[q]
    BY <1>6, <2>1, <2>2 DEF Direction, RRFramesFit
  <2>4. NS[p] <= frame.NS + 1 /\ frame.NS <= NR[q] /\ NR[q] <= NS[p]
    BY <1>6, <2>1, <2>3 DEF Direction, CountersFit
  <2>5. NS[p] \in Nat /\ NR[q] \in Nat /\ frame.NS \in Nat
    BY <1>5
  <2> HIDE DEF frame
  <2> QED
    BY <2>4, <2>5
<1>8. /\ NS' = NS /\ NR' = NR /\ accepted' = accepted /\ delivered' = delivered
      /\ suspending' = suspending
      /\ \/ /\ frame.NS = NS[p]
            /\ statusOnNull' = (statusOnNull \/ activeCompound[p] = NoCompound)
            /\ trySuspend(p, NoCompound)
            /\ TryToSend(p, NoCompound, sendNow[p], FALSE, ackCompound[p], rest)
         \/ /\ statusOnNull' = statusOnNull /\ suspended' = suspended
            /\ TryToSend(p, activeCompound[p], sendNow[p], timeoutSet[p],
                         ackCompound[p], rest)
  BY <1>7 DEF ReceiveRR, suspendVars, userVars
<1>9. /\ NS' \in [Peer -> Nat] /\ NR' \in [Peer -> Nat]
      /\ accepted' \in [Peer -> Seq(SDU)] /\ delivered' \in [Peer -> Seq(SDU)]
      /\ suspending' \in [Peer -> BOOLEAN] /\ suspended' \in [Peer -> BOOLEAN]
      /\ statusOnNull' \in BOOLEAN
  BY <1>2, <1>8 DEF TypeOK, trySuspend, onSuspend
<1>10. /\ Direction(NS'[p], NR'[q], activeCompound[p], ackCompound[q],
                    rest[p], rest[q], accepted'[p], delivered'[q])
       /\ Direction(NS'[q], NR'[p], activeCompound[q], ackCompound[p],
                    rest[q], rest[p], accepted'[q], delivered'[p])
  BY <1>4, <1>8
<1>11. rest \in [Peer -> Seq(Frame)] /\ Shorter(rest[q], wire[q]) /\ rest[p] = wire[p]
  BY <1>4
<1> HIDE DEF rest
<1>12. CASE /\ frame.NS = NS[p]
            /\ TryToSend(p, NoCompound, sendNow[p], FALSE, ackCompound[p], rest)
  <2>1. Direction(NS[p], NR[q], NoCompound, ackCompound[q],
                  wire[p], rest[q], accepted[p], delivered[q])
    BY <1>3, <1>5, <1>6, <1>11, <1>12, AcknowledgedKeeps
  <2>2. Direction(NS'[p], NR'[q], NoCompound, ackCompound[q],
                  rest[p], rest[q], accepted'[p], delivered'[q])
    BY <1>8, <1>11, <2>1
  <2> QED
    BY <1>2, <1>5, <1>9, <1>10, <1>11, <1>12, <2>2, TryToSendKeeps
<1>13. CASE TryToSend(p, activeCompound[p], sendNow[p], timeoutSet[p],
                      ackCompound[p], rest)
  <2>1. /\ activeCompound[p] # NoCompound => sendNow[p] = ~timeoutSet[p]
        /\ activeCompound[p] = NoCompound => ~timeoutSet[p]
    BY <1>2, <1>5 DEF TimerGuardsActive
  <2> QED
    BY ZenonT(30), <1>2, <1>5, <1>9, <1>10, <1>11, <1>13, <2>1, TryToSendKeeps
<1> QED
  BY <1>8, <1>12, <1>13

LEMMA SuspendKeeps ==
    ASSUME IInv, NEW p \in Peer, Suspend(p) PROVE IInv'
<1>1. /\ UNCHANGED <<unitVars, wire, userVars, statusOnNull, failure>>
      /\ suspending' = [suspending EXCEPT ![p] = TRUE]
      /\ suspended' = [suspended EXCEPT ![p] = activeCompound[p] = NoCompound]
  BY DEF Suspend, onSuspend
<1>2. TypeOK'
  BY <1>1 DEF IInv, TypeOK, unitVars, userVars
<1>3. NoFailure' /\ TimerGuardsActive'
  BY <1>1 DEF IInv, NoFailure, TimerGuardsActive, unitVars
<1>4. ASSUME NEW r \in Peer PROVE DirectionFrom(r)'
  BY <1>1 DEF IInv, DirectionFrom, unitVars, userVars
<1> QED
  BY <1>2, <1>3, <1>4 DEF IInv

LEMMA LoseKeeps ==
    ASSUME IInv, NEW q \in Peer, Lose(q) PROVE IInv'
<1> DEFINE p == Other(q)
<1>1. p \in Peer /\ Other(p) = q /\ p # q /\ \A r \in Peer : r = p \/ r = q
  BY PeerFacts
<1>2. /\ wire[q] # << >> /\ wire' = [wire EXCEPT ![q] = Tail(@)]
      /\ UNCHANGED <<unitVars, suspendVars, userVars, statusOnNull, failure>>
  BY DEF Lose
<1>3. /\ wire' \in [Peer -> Seq(Frame)]
      /\ Direction(NS[p], NR[q], activeCompound[p], ackCompound[q],
                   wire'[p], wire'[q], accepted[p], delivered[q])
      /\ Direction(NS[q], NR[p], activeCompound[q], ackCompound[p],
                   wire'[q], wire'[p], accepted[q], delivered[p])
  BY <1>1, <1>2, ArrivalFacts
<1>4. TypeOK'
  BY <1>2, <1>3 DEF IInv, TypeOK, unitVars, suspendVars, userVars
<1>5. NoFailure' /\ TimerGuardsActive'
  BY <1>2 DEF IInv, NoFailure, TimerGuardsActive, unitVars
<1>6. DirectionFrom(p)' /\ DirectionFrom(q)'
  BY <1>1, <1>2, <1>3 DEF DirectionFrom, unitVars, userVars
<1> QED
  BY <1>1, <1>4, <1>5, <1>6 DEF IInv

LEMMA NextIInv == IInv /\ [Next]_vars => IInv'
<1> SUFFICES ASSUME IInv, [Next]_vars PROVE IInv'
  OBVIOUS
<1>1. CASE UNCHANGED vars
  BY <1>1 DEF vars, unitVars, suspendVars, userVars, IInv, TypeOK, NoFailure,
              TimerGuardsActive, DirectionFrom
<1>2. ASSUME NEW p \in Peer, NEW d \in SDU, SendData(p, d) PROVE IInv'
  BY <1>2, SendDataKeeps
<1>3. ASSUME NEW p \in Peer, OnTimeout(p) PROVE IInv'
  BY <1>3, OnTimeoutKeeps
<1>4. ASSUME NEW p \in Peer, Wakeup(p) PROVE IInv'
  BY <1>4, WakeupKeeps
<1>5. ASSUME NEW p \in Peer, ReceiveI(p) PROVE IInv'
  BY <1>5, ReceiveIKeeps
<1>6. ASSUME NEW p \in Peer, ReceiveRR(p) PROVE IInv'
  BY <1>6, ReceiveRRKeeps
<1>7. ASSUME NEW p \in Peer, Suspend(p) PROVE IInv'
  BY <1>7, SuspendKeeps
<1>8. ASSUME NEW p \in Peer, Lose(p) PROVE IInv'
  BY <1>8, LoseKeeps
<1> QED
  BY <1>1, <1>2, <1>3, <1>4, <1>5, <1>6, <1>7, <1>8 DEF Next

(* The inductive invariant holds in every reachable state.                 *)
THEOREM Invariant == Spec => []IInv
  BY InitIInv, NextIInv, PTL DEF Spec

(* Every member keeps its type (StopAndWait.hpp).                          *)
THEOREM TypeCorrect == Spec => []TypeOK
<1>1. IInv => TypeOK
  BY DEF IInv
<1> QED
  BY <1>1, Invariant, PTL

(* No throw and no assure() of StopAndWait.cpp and CanTimeout.cpp that the *)
(* model covers is ever reached, for wires of every capacity.              *)
THEOREM NeverFails == Spec => []NoFailure
<1>1. IInv => NoFailure
  BY DEF IInv
<1> QED
  BY <1>1, Invariant, PTL

(* A compound waiting for its ACK is always guarded by sendNow or by the   *)
(* resend timeout, whatever the lower layers do.                           *)
THEOREM TimerAlwaysGuards == Spec => []TimerGuardsActive
<1>1. IInv => TimerGuardsActive
  BY DEF IInv
<1> QED
  BY <1>1, Invariant, PTL

LEMMA IInvInOrder == IInv => InOrder
<1> SUFFICES ASSUME IInv, NEW p \in Peer
             PROVE  /\ Len(delivered[p]) <= Len(accepted[Other(p)])
                    /\ \A k \in 1 .. Len(delivered[p]) :
                          delivered[p][k] = accepted[Other(p)][k]
  BY DEF InOrder, Link!InOrder, Link!Peer, Link!Other, Peer, Other
<1>1. Other(p) \in Peer /\ Other(Other(p)) = p
  BY PeerFacts
<1>2. CountersFit(NS[Other(p)], NR[p], activeCompound[Other(p)],
                  accepted[Other(p)], delivered[p])
  BY <1>1 DEF IInv, DirectionFrom, Direction
<1> QED
  BY <1>2 DEF CountersFit

(* In-order, exactly-once delivery, for every number of compounds.         *)
THEOREM DeliversInOrder == Spec => []InOrder
  BY IInvInOrder, Invariant, PTL

-------------------------------------------------------------------------------
(* A unit that reports suspended() waits for no ACK.                       *)
LEMMA SuspendedIsIdle ==
    ASSUME IInv, [Next]_vars, NEW p \in Peer, suspended'[p], ~suspended[p]
    PROVE  activeCompound'[p] = NoCompound
<1>1. TypeOK
  BY DEF IInv
<1>2. CASE suspended' = suspended
  BY <1>2
<1>3. ASSUME NEW r \in Peer, Suspend(r) PROVE activeCompound'[p] = NoCompound
  BY <1>1, <1>3 DEF Suspend, onSuspend, TypeOK, unitVars
<1>4. ASSUME NEW r \in Peer, ReceiveRR(r), suspended' # suspended
      PROVE  activeCompound'[p] = NoCompound
  <2>1. \E wires : /\ trySuspend(r, NoCompound)
                   /\ TryToSend(r, NoCompound, sendNow[r], FALSE, ackCompound[r], wires)
    BY <1>4 DEF ReceiveRR, Throw, suspendVars
  <2>2. r = p
    BY <1>1, <2>1 DEF trySuspend, TypeOK
  <2> QED
    BY <1>1, <2>1, <2>2 DEF TryToSend, TypeOK
<1> QED
  BY <1>2, <1>3, <1>4 DEF Next, vars, suspendVars, SendData, OnTimeout, Wakeup,
                          ReceiveI, Throw, Lose

(* A unit reports suspended() only when all it accepted was handed up.     *)
THEOREM SuspendsCleanly == Spec => SuspendIsClean
<1>1. ASSUME IInv, IInv', [Next]_vars, NEW p \in Peer, suspended'[p], ~suspended[p]
      PROVE  Len(delivered'[Other(p)]) = Len(accepted'[p])
  <2>1. activeCompound'[p] = NoCompound
    BY <1>1, SuspendedIsIdle
  <2>2. CountersFit(NS[p], NR[Other(p)], activeCompound[p],
                    accepted[p], delivered[Other(p)])'
    BY <1>1 DEF IInv, DirectionFrom, Direction
  <2> QED
    BY <2>1, <2>2 DEF CountersFit
<1>2. IInv /\ IInv' /\ [Next]_vars =>
        [\A p \in Peer : suspended'[p] /\ ~suspended[p]
             => Len(delivered'[Other(p)]) = Len(accepted'[p])]_vars
  BY <1>1
<1> QED
  BY <1>2, Invariant, PTL DEF Spec, SuspendIsClean

(* What a peer hands up next prolongs the prefix it handed up already.     *)
LEMMA NextPrefix ==
    ASSUME NEW s \in Seq(SDU), NEW t \in Seq(SDU), Len(s) < Len(t),
           \A k \in 1 .. Len(s) : s[k] = t[k]
    PROVE  Append(s, t[Len(s) + 1]) = SubSeq(t, 1, Len(s) + 1)
  OBVIOUS

(* Every step is a step of ReliableLink or leaves the users alone.         *)
LEMMA StepRefines ==
    ASSUME IInv, [Next]_vars PROVE [Link!Next]_(Link!vars)
<1>1. TypeOK
  BY DEF IInv
<1>2. ASSUME NEW p \in Peer, NEW d \in SDU, SendData(p, d)
      PROVE  Link!Accept(p, d)
  <2>1. CountersFit(NS[p], NR[Other(p)], NoCompound, accepted[p], delivered[Other(p)])
    BY <1>2 DEF IInv, DirectionFrom, Direction, SendData, hasCapacity
  <2>2. Len(accepted[p]) = Len(delivered[Other(p)]) /\ Len(accepted[p]) \in Nat
    BY <1>1, <2>1 DEF CountersFit, TypeOK
  <2>3. Len(accepted[p]) - Len(delivered[Other(p)]) < 1
    BY <2>2
  <2> QED
    BY <1>2, <2>3 DEF SendData, Link!Accept, Link!Other, Other
<1>3. ASSUME NEW p \in Peer, ReceiveI(p)
      PROVE  Link!Deliver(p) \/ UNCHANGED <<accepted, delivered>>
  <2> DEFINE q == Other(p)
             frame == Head(wire[q])
  <2>1. q \in Peer /\ Other(q) = p /\ wire[q] # << >> /\ frame.type = "I"
    BY <1>3, PeerFacts DEF ReceiveI, Arrives
  <2>2. CASE frame.NS # NR[p]
    BY <1>3, <2>2 DEF ReceiveI, IsExpected, Throw, userVars
  <2>3. CASE frame.NS = NR[p]
    <3>1. frame = wire[q][1] /\ 1 \in 1 .. Len(wire[q])
      BY <1>1, <2>1, TailIsShorter DEF Shorter, TypeOK
    <3>2. Direction(NS[q], NR[p], activeCompound[q], ackCompound[p],
                    wire[q], wire[p], accepted[q], delivered[p])
      BY <2>1 DEF IInv, DirectionFrom
    <3>3. wire[q][1].type = "I" /\ wire[q][1].NS = NR[p]
      BY <2>1, <2>3, <3>1
    <3>4. NR[p] + 1 <= NS[q] /\ wire[q][1].sdu = accepted[q][NR[p] + 1]
      BY <3>1, <3>2, <3>3 DEF Direction, IFramesFit
    <3>5. NR[p] = Len(delivered[p]) /\ NS[q] = Len(accepted[q]) /\ NR[p] \in Nat
      BY <1>1, <3>2 DEF Direction, CountersFit, TypeOK
    <3>6. /\ Len(delivered[p]) < Len(accepted[q])
          /\ frame.sdu = accepted[q][Len(delivered[p]) + 1]
      <4>1. NS[q] \in Nat
        BY <1>1, <2>1 DEF TypeOK
      <4> QED
        BY <3>1, <3>4, <3>5, <4>1
    <3>7. /\ accepted' = accepted
          /\ delivered' = [delivered EXCEPT ![p] = Append(@, frame.sdu)]
      BY <1>3, <2>3 DEF ReceiveI, IsExpected
    <3>8. Append(delivered[p], frame.sdu)
            = SubSeq(accepted[q], 1, Len(delivered[p]) + 1)
      BY <1>1, <2>1, <3>2, <3>6, NextPrefix DEF Direction, CountersFit, TypeOK
    <3>9. Len(delivered[p]) + 1 \in Len(delivered[p]) + 1 .. Len(accepted[q])
      BY <1>1, <2>1, <3>6 DEF TypeOK
    <3> QED
      BY <3>7, <3>8, <3>9 DEF Link!Deliver, Link!Other, Other
  <2> QED
    BY <2>2, <2>3
<1> QED
  BY <1>2, <1>3 DEF Next, vars, userVars, OnTimeout, Wakeup, ReceiveRR, Throw,
                    Suspend, Lose, Link!Next, Link!vars, Link!Peer, Peer

(* StopAndWait implements ReliableLink: what the code does to its users is *)
(* what the abstract link allows.                                          *)
THEOREM Refinement == Spec => ImplementsReliableLink
<1>1. Init => Link!Init
  BY DEF Init, Link!Init, Link!Peer, Peer
<1>2. IInv /\ [Next]_vars => [Link!Next]_(Link!vars)
  BY StepRefines
<1> QED
  BY <1>1, <1>2, Invariant, PTL DEF Spec, ImplementsReliableLink, Link!Spec
===============================================================================
