----------------------------- MODULE GoBackNProofs -----------------------------
(***************************************************************************)
(* Proofs about GoBackN for every window, every choice of the compounds    *)
(* and of their number and every capacity of the lower layers.             *)
(***************************************************************************)
EXTENDS GoBackN, TLAPS, FiniteSetTheorems, SequenceTheorems, WellFoundedInduction

(* Lists of I frames, by their numbers.                                    *)
Distinct(s) == \A i, j \in 1 .. Len(s) : s[i].NS = s[j].NS => i = j
Apart(s, t) == \A f \in Range(s), g \in Range(t) : f.NS # g.NS
Has(s, n)   == \E f \in Range(s) : f.NS = n

(* An I frame carries what was accepted under its number.                  *)
Carries(f, acc)  == f.NS < Len(acc) /\ f.sdu = acc[f.NS + 1]
AllCarry(s, acc) == \A f \in Range(s) : f.type = "I" => Carries(f, acc)

(* How many frames the sender of an ACK or NAK had taken over.             *)
IsReply(f) == f.type # "I"
Count(f)   == IF f.type = "ACK" THEN f.NS + 1 ELSE f.NS

Counted(s, least, most) ==
    \A f \in Range(s) : IsReply(f) => least <= Count(f) /\ Count(f) <= most

Ordered(s, t) == \A f \in Range(s), g \in Range(t) :
                    IsReply(f) /\ IsReply(g) => Count(f) <= Count(g)

Ascending(s) == \A i, j \in 1 .. Len(s) :
                   i < j /\ IsReply(s[i]) /\ IsReply(s[j]) => Count(s[i]) <= Count(s[j])

(* The members a handler leaves behind: every frame is kept in one place   *)
(* only, and every unacknowledged one is kept; frames the window has       *)
(* passed may be left among them.                                          *)
Active(u) == IF u.active = NoCompound THEN << >> ELSE <<u.active>>
KeptBy(u) == (u.sent \o u.again) \o Active(u)

Sound(u, acc, la) ==
    /\ u.now <=> u.active # NoCompound
    /\ u.timer <=> u.sent # << >>
    /\ Distinct(KeptBy(u)) /\ AllCarry(KeptBy(u), acc)
    /\ \A n \in la .. Len(acc) - 1 : Has(KeptBy(u), n)

SenderInv(p) ==
    /\ NS[p] = Len(accepted[p])
    /\ Sound(Members(p), accepted[p], LA[p])

WireInv(p) == Len(wire[p]) <= WireCap /\ AllCarry(wire[p], accepted[p])

(* The replies of p reach its partner in the order of their counts, and    *)
(* none of them is below what was acknowledged or above what was received. *)
Replies(s, least, most) == Counted(s, least, most) /\ Ascending(s)

RepliesInv(p) ==
    /\ LA[Other(p)] <= NR[p]
    /\ Replies(wire[p] \o ackPDUs[p], LA[Other(p)], NR[p])

(* What p has received is what it has handed up and what it holds back.    *)
ReceiverInv(p) ==
    /\ NR[p] <= Len(accepted[Other(p)])
    /\ Len(delivered[p]) + Len(receivedPDUs[p]) = NR[p]
    /\ \A k \in 1 .. Len(delivered[p]) : delivered[p][k] = accepted[Other(p)][k]
    /\ \A i \in 1 .. Len(receivedPDUs[p]) :
          /\ receivedPDUs[p][i].NS = Len(delivered[p]) + i - 1
          /\ receivedPDUs[p][i].sdu = accepted[Other(p)][Len(delivered[p]) + i]
    /\ ~delayingDelivery[p] => receivedPDUs[p] = << >>
    /\ delayingDelivery[p] => delayedDeliveryNR[p] = Len(delivered[p])
    /\ Len(receivedPDUs[p]) <= windowSize

IInv ==
    /\ TypeOK /\ NoFailure
    /\ \A p \in Peer : SenderInv(p) /\ WireInv(p) /\ RepliesInv(p) /\ ReceiverInv(p)

-------------------------------------------------------------------------------
(* Lists.                                                                  *)

LEMMA FrameShape ==
    /\ \A f \in IFrame : f.type = "I" /\ f.NS \in Nat /\ f.sdu \in SDU /\ f # NoCompound
    /\ \A f \in AckFrame : f.type \in {"ACK", "NAK"} /\ f.NS \in Nat /\ IsReply(f) /\ Count(f) \in Nat
    /\ \A f \in Frame : f.NS \in Nat /\ Count(f) \in Nat
    /\ \A f \in Frame : (f.type = "I" => f \in IFrame) /\ (f.type # "I" => f \in AckFrame)
    /\ \A s \in Seq(IFrame) : s \in Seq(Frame)
    /\ \A s \in Seq(AckFrame) : s \in Seq(Frame)
<1>1. \A f \in IFrame : f.type = "I" /\ f.NS \in Nat /\ f.sdu \in SDU
  BY DEF IFrame
<1>2. \A f \in AckFrame : f.type \in {"ACK", "NAK"} /\ f.NS \in Nat
  BY DEF AckFrame
<1>3. \A f \in IFrame \cup AckFrame : f.NS \in Nat /\ Count(f) \in Nat
  BY <1>1, <1>2 DEF Count
<1>4. IFrame \subseteq Frame /\ AckFrame \subseteq Frame /\ NoCompound \notin Frame
  BY GoBackNAssumption DEF Frame
<1>5. \A s \in Seq(IFrame) : s \in Seq(Frame)
  BY <1>4, SeqMonotonic
<1>6. \A s \in Seq(AckFrame) : s \in Seq(Frame)
  BY <1>4, SeqMonotonic
<1> QED BY <1>1, <1>2, <1>3, <1>4, <1>5, <1>6 DEF IsReply, Frame

LEMMA Single ==
  ASSUME NEW S, NEW x \in S
  PROVE  <<x>> \in Seq(S) /\ Len(<<x>>) = 1 /\ <<x>>[1] = x /\ Range(<<x>>) = {x}
<1>1. <<x>> \in Seq(S) /\ Len(<<x>>) = 1 /\ <<x>>[1] = x
  OBVIOUS
<1>2. DOMAIN <<x>> = {1}
  OBVIOUS
<1> QED BY <1>1, <1>2 DEF Range

LEMMA SingleIsDistinct ==
  ASSUME NEW x
  PROVE  Distinct(<<x>>)
BY DEF Distinct

LEMMA Empty ==
    Range(<< >>) = {} /\ Distinct(<< >>) /\ Ascending(<< >>) /\ Len(<< >>) = 0
BY DEF Range, Distinct, Ascending

LEMMA ElementsInRange ==
  ASSUME NEW S, NEW s \in Seq(S)
  PROVE  /\ Range(s) \subseteq S
         /\ \A i \in 1 .. Len(s) : s[i] \in Range(s)
         /\ \A f \in Range(s) : \E i \in 1 .. Len(s) : f = s[i]
<1>1. Range(s) = {s[i] : i \in 1 .. Len(s)}
  BY RangeEquality
<1>2. \A i \in 1 .. Len(s) : s[i] \in S
  BY ElementOfSeq
<1> QED BY <1>1, <1>2

(* Which element of s or t stands at a place of s \o t.                    *)
LEMMA ConcatPlaces ==
  ASSUME NEW S, NEW s \in Seq(S), NEW t \in Seq(S)
  PROVE  /\ \A i \in 1 .. Len(s) : i \in 1 .. Len(s \o t) /\ (s \o t)[i] = s[i]
         /\ \A i \in 1 .. Len(t) :
              Len(s) + i \in 1 .. Len(s \o t) /\ (s \o t)[Len(s) + i] = t[i]
         /\ \A i \in 1 .. Len(s \o t) :
              i \in 1 .. Len(s) \/ \E j \in 1 .. Len(t) : i = Len(s) + j
<1>1. /\ s \o t \in Seq(S) /\ Len(s \o t) = Len(s) + Len(t)
      /\ \A i \in 1 .. Len(s) + Len(t) : (s \o t)[i] = IF i <= Len(s) THEN s[i] ELSE t[i - Len(s)]
  BY ConcatProperties
<1>2. Len(s) \in Nat /\ Len(t) \in Nat
  OBVIOUS
<1> DEFINE c == s \o t
<1> HIDE DEF c
<1>3. ASSUME NEW i \in 1 .. Len(s) PROVE i \in 1 .. Len(c) /\ c[i] = s[i]
  BY <1>1, <1>2 DEF c
<1>4. ASSUME NEW i \in 1 .. Len(t) PROVE Len(s) + i \in 1 .. Len(c) /\ c[Len(s) + i] = t[i]
  <2>1. Len(s) + i \in 1 .. Len(s) + Len(t) /\ ~(Len(s) + i <= Len(s)) /\ (Len(s) + i) - Len(s) = i
    BY <1>2
  <2> QED BY <1>1, <2>1 DEF c
<1>5. ASSUME NEW i \in 1 .. Len(c), i \notin 1 .. Len(s) PROVE \E j \in 1 .. Len(t) : i = Len(s) + j
  <2>1. i - Len(s) \in 1 .. Len(t) /\ i = Len(s) + (i - Len(s))
    BY <1>1, <1>2, <1>5 DEF c
  <2> QED BY <2>1
<1> QED BY <1>3, <1>4, <1>5 DEF c

(* Two lists behind each other: their numbers. *)
LEMMA ConcatDistinct ==
  ASSUME NEW S, NEW s \in Seq(S), NEW t \in Seq(S)
  PROVE  Distinct(s \o t) <=> Distinct(s) /\ Distinct(t) /\ Apart(s, t)
<1> DEFINE c == s \o t
<1>1. /\ \A i \in 1 .. Len(s) : i \in 1 .. Len(c) /\ c[i] = s[i]
      /\ \A i \in 1 .. Len(t) : Len(s) + i \in 1 .. Len(c) /\ c[Len(s) + i] = t[i]
      /\ \A i \in 1 .. Len(c) : i \in 1 .. Len(s) \/ \E j \in 1 .. Len(t) : i = Len(s) + j
  BY ConcatPlaces
<1>2. Len(s) \in Nat /\ Len(t) \in Nat
  OBVIOUS
<1>e. /\ \A i \in 1 .. Len(s) : s[i] \in Range(s)
      /\ \A f \in Range(s) : \E i \in 1 .. Len(s) : f = s[i]
      /\ \A i \in 1 .. Len(t) : t[i] \in Range(t)
      /\ \A f \in Range(t) : \E i \in 1 .. Len(t) : f = t[i]
  BY ElementsInRange
<1> HIDE DEF c
<1>3. ASSUME Distinct(c) PROVE Distinct(s) /\ Distinct(t) /\ Apart(s, t)
  <2>1. Distinct(s)
    BY <1>1, <1>3 DEF Distinct
  <2>2. ASSUME NEW i \in 1 .. Len(t), NEW j \in 1 .. Len(t), t[i].NS = t[j].NS PROVE i = j
    <3>1. Len(s) + i = Len(s) + j
      BY SMTT(20), <1>1, <1>3, <2>2 DEF Distinct
    <3> QED BY <1>2, <3>1
  <2>3. ASSUME NEW f \in Range(s), NEW g \in Range(t), f.NS = g.NS PROVE FALSE
    <3>1. PICK i \in 1 .. Len(s) : f = s[i]
      BY <1>e
    <3>2. PICK j \in 1 .. Len(t) : g = t[j]
      BY <1>e
    <3>3. /\ c[i] = f /\ c[Len(s) + j] = g
          /\ i \in 1 .. Len(c) /\ Len(s) + j \in 1 .. Len(c)
      BY <1>1, <3>1, <3>2
    <3>4. i = Len(s) + j
      BY <1>3, <2>3, <3>3 DEF Distinct
    <3> QED BY <1>2, <3>4
  <2> QED BY <2>1, <2>2, <2>3 DEF Distinct, Apart
<1>4. ASSUME Distinct(s), Distinct(t), Apart(s, t) PROVE Distinct(c)
  <2> SUFFICES ASSUME NEW i \in 1 .. Len(c), NEW j \in 1 .. Len(c), c[i].NS = c[j].NS PROVE i = j
    BY DEF Distinct
  <2>0. ASSUME NEW k \in 1 .. Len(s), NEW l \in 1 .. Len(t), s[k].NS = t[l].NS PROVE FALSE
    BY <1>4, <1>e, <2>0 DEF Apart
  <2>1. CASE i \in 1 .. Len(s) /\ j \in 1 .. Len(s)
    BY <1>1, <1>4, <2>1 DEF Distinct
  <2>2. CASE i \notin 1 .. Len(s) /\ j \notin 1 .. Len(s)
    <3>1. PICK k \in 1 .. Len(t) : i = Len(s) + k
      BY <1>1, <2>2
    <3>2. PICK l \in 1 .. Len(t) : j = Len(s) + l
      BY <1>1, <2>2
    <3> QED BY <1>1, <1>4, <3>1, <3>2 DEF Distinct
  <2>3. CASE i \in 1 .. Len(s) /\ j \notin 1 .. Len(s)
    <3>1. PICK l \in 1 .. Len(t) : j = Len(s) + l
      BY <1>1, <2>3
    <3>2. s[i].NS = t[l].NS
      BY <1>1, <2>3, <3>1
    <3> QED BY <2>0, <2>3, <3>2
  <2>4. CASE i \notin 1 .. Len(s) /\ j \in 1 .. Len(s)
    <3>1. PICK l \in 1 .. Len(t) : i = Len(s) + l
      BY <1>1, <2>4
    <3>2. s[j].NS = t[l].NS
      BY <1>1, <2>4, <3>1
    <3> QED BY <2>0, <2>4, <3>2
  <2> QED BY <2>1, <2>2, <2>3, <2>4
<1> QED BY <1>3, <1>4 DEF c

(* Two lists behind each other: the order of the replies among them. *)
LEMMA ConcatAscending ==
  ASSUME NEW S, NEW s \in Seq(S), NEW t \in Seq(S)
  PROVE  Ascending(s \o t) <=> Ascending(s) /\ Ascending(t) /\ Ordered(s, t)
<1> DEFINE c == s \o t
<1>1. /\ \A i \in 1 .. Len(s) : i \in 1 .. Len(c) /\ c[i] = s[i]
      /\ \A i \in 1 .. Len(t) : Len(s) + i \in 1 .. Len(c) /\ c[Len(s) + i] = t[i]
      /\ \A i \in 1 .. Len(c) : i \in 1 .. Len(s) \/ \E j \in 1 .. Len(t) : i = Len(s) + j
  BY ConcatPlaces
<1>2. Len(s) \in Nat /\ Len(t) \in Nat
  OBVIOUS
<1>e. /\ \A i \in 1 .. Len(s) : s[i] \in Range(s)
      /\ \A f \in Range(s) : \E i \in 1 .. Len(s) : f = s[i]
      /\ \A i \in 1 .. Len(t) : t[i] \in Range(t)
      /\ \A f \in Range(t) : \E i \in 1 .. Len(t) : f = t[i]
  BY ElementsInRange
<1> HIDE DEF c
<1>3. ASSUME Ascending(c) PROVE Ascending(s) /\ Ascending(t) /\ Ordered(s, t)
  <2>1. Ascending(s)
    BY <1>1, <1>3 DEF Ascending
  <2>2. ASSUME NEW i \in 1 .. Len(t), NEW j \in 1 .. Len(t), i < j, IsReply(t[i]), IsReply(t[j])
        PROVE  Count(t[i]) <= Count(t[j])
    <3>1. Len(s) + i < Len(s) + j
      BY <1>2, <2>2
    <3>2. /\ c[Len(s) + i] = t[i] /\ c[Len(s) + j] = t[j]
          /\ Len(s) + i \in 1 .. Len(c) /\ Len(s) + j \in 1 .. Len(c)
      BY <1>1
    <3> QED BY <1>3, <2>2, <3>1, <3>2 DEF Ascending
  <2>3. ASSUME NEW f \in Range(s), NEW g \in Range(t), IsReply(f), IsReply(g)
        PROVE  Count(f) <= Count(g)
    <3>1. PICK i \in 1 .. Len(s) : f = s[i]
      BY <1>e
    <3>2. PICK j \in 1 .. Len(t) : g = t[j]
      BY <1>e
    <3>3. i < Len(s) + j
      BY <1>2
    <3>4. /\ c[i] = f /\ c[Len(s) + j] = g
          /\ i \in 1 .. Len(c) /\ Len(s) + j \in 1 .. Len(c)
      BY <1>1, <3>1, <3>2
    <3> QED BY <1>3, <2>3, <3>3, <3>4 DEF Ascending
  <2> QED BY <2>1, <2>2, <2>3 DEF Ascending, Ordered
<1>4. ASSUME Ascending(s), Ascending(t), Ordered(s, t) PROVE Ascending(c)
  <2> SUFFICES ASSUME NEW i \in 1 .. Len(c), NEW j \in 1 .. Len(c),
                      i < j, IsReply(c[i]), IsReply(c[j])
               PROVE  Count(c[i]) <= Count(c[j])
    BY DEF Ascending
  <2>1. CASE i \in 1 .. Len(s) /\ j \in 1 .. Len(s)
    BY <1>1, <1>4, <2>1 DEF Ascending
  <2>2. CASE i \notin 1 .. Len(s) /\ j \notin 1 .. Len(s)
    <3>1. PICK k \in 1 .. Len(t) : i = Len(s) + k
      BY <1>1, <2>2
    <3>2. PICK l \in 1 .. Len(t) : j = Len(s) + l
      BY <1>1, <2>2
    <3>3. k < l
      BY <1>2, <3>1, <3>2
    <3>4. c[i] = t[k] /\ c[j] = t[l]
      BY <1>1, <3>1, <3>2
    <3> QED BY <1>4, <3>3, <3>4 DEF Ascending
  <2>3. CASE i \in 1 .. Len(s) /\ j \notin 1 .. Len(s)
    <3>1. PICK l \in 1 .. Len(t) : j = Len(s) + l
      BY <1>1, <2>3
    <3>2. c[i] \in Range(s) /\ c[j] \in Range(t)
      BY <1>1, <1>e, <2>3, <3>1
    <3> QED BY <1>4, <3>2 DEF Ordered
  <2>4. CASE i \notin 1 .. Len(s) /\ j \in 1 .. Len(s)
    <3>1. PICK l \in 1 .. Len(t) : i = Len(s) + l
      BY <1>1, <2>4
    <3> QED BY <1>2, <2>4, <3>1
  <2> QED BY <2>1, <2>2, <2>3, <2>4
<1> QED BY <1>3, <1>4 DEF c

(* What the two together contain. *)
LEMMA ConcatRange ==
  ASSUME NEW S, NEW s \in Seq(S), NEW t \in Seq(S)
  PROVE  /\ s \o t \in Seq(S) /\ Len(s \o t) = Len(s) + Len(t)
         /\ Range(s \o t) = Range(s) \cup Range(t)
         /\ \A n : Has(s \o t, n) <=> Has(s, n) \/ Has(t, n)
         /\ \A u : Apart(s \o t, u) <=> Apart(s, u) /\ Apart(t, u)
         /\ \A u : Apart(u, s \o t) <=> Apart(u, s) /\ Apart(u, t)
         /\ \A u : Ordered(s \o t, u) <=> Ordered(s, u) /\ Ordered(t, u)
         /\ \A u : Ordered(u, s \o t) <=> Ordered(u, s) /\ Ordered(u, t)
         /\ \A acc : AllCarry(s \o t, acc) <=> AllCarry(s, acc) /\ AllCarry(t, acc)
         /\ \A l, m : Counted(s \o t, l, m) <=> Counted(s, l, m) /\ Counted(t, l, m)
<1>1. s \o t \in Seq(S) /\ Len(s \o t) = Len(s) + Len(t)
  BY ConcatProperties
<1>2. Range(s \o t) = Range(s) \cup Range(t)
  BY RangeConcatenation
<1> DEFINE c == s \o t
<1>3. Range(c) = Range(s) \cup Range(t)
  BY <1>2
<1> HIDE DEF c
<1>4. \A n : Has(c, n) <=> Has(s, n) \/ Has(t, n)
  BY <1>3 DEF Has
<1>5. \A u : Apart(c, u) <=> Apart(s, u) /\ Apart(t, u)
  BY <1>3 DEF Apart
<1>6. \A u : Apart(u, c) <=> Apart(u, s) /\ Apart(u, t)
  BY <1>3 DEF Apart
<1>7. \A u : Ordered(c, u) <=> Ordered(s, u) /\ Ordered(t, u)
  BY <1>3, Zenon DEF Ordered
<1>8. \A u : Ordered(u, c) <=> Ordered(u, s) /\ Ordered(u, t)
  BY <1>3, Zenon DEF Ordered
<1>9. \A acc : AllCarry(c, acc) <=> AllCarry(s, acc) /\ AllCarry(t, acc)
  BY <1>3, Zenon DEF AllCarry
<1>10. \A l, m : Counted(c, l, m) <=> Counted(s, l, m) /\ Counted(t, l, m)
  BY <1>3, Zenon DEF Counted
<1> QED BY <1>1, <1>2, <1>4, <1>5, <1>6, <1>7, <1>8, <1>9, <1>10 DEF c

LEMMA Associative ==
  /\ \A s, t, u \in Seq(IFrame) : (s \o t) \o u = s \o (t \o u)
  /\ \A s, t, u \in Seq(Frame) : (s \o t) \o u = s \o (t \o u)
<1>1. \A s, t, u \in Seq(IFrame) : (s \o t) \o u = s \o (t \o u)
  BY ConcatAssociative
<1>2. \A s, t, u \in Seq(Frame) : (s \o t) \o u = s \o (t \o u)
  BY ConcatAssociative
<1> QED BY <1>1, <1>2

LEMMA PartOfSum == \A m, n, k \in Nat : m + n = k => m <= k
OBVIOUS

LEMMA ApartIsSymmetric ==
  ASSUME NEW s, NEW t
  PROVE  Apart(s, t) <=> Apart(t, s)
BY DEF Apart

(* A list is its front and its rest, or its head and its tail. *)
LEMMA FrontRest ==
  ASSUME NEW S, NEW s \in Seq(S), NEW n \in 0 .. Len(s)
  PROVE  /\ Front(s, n) \in Seq(S) /\ Len(Front(s, n)) = n
         /\ \A i \in 1 .. n : Front(s, n)[i] = s[i]
         /\ Rest(s, n) \in Seq(S) /\ Len(Rest(s, n)) = Len(s) - n
         /\ s = Front(s, n) \o Rest(s, n)
<1>1. /\ Front(s, n) \in Seq(S) /\ Len(Front(s, n)) = n
      /\ \A i \in 1 .. n : Front(s, n)[i] = s[i]
  BY DEF Front
<1>2. Rest(s, n) \in Seq(S) /\ Len(Rest(s, n)) = Len(s) - n
  BY DEF Rest
<1>3. s = Front(s, n) \o Rest(s, n)
  <2>1. 1 \in 1 .. Len(s) + 1 /\ n \in 1 - 1 .. Len(s) /\ Len(s) \in n .. Len(s)
    OBVIOUS
  <2>2. SubSeq(s, 1, n) \o SubSeq(s, n + 1, Len(s)) = SubSeq(s, 1, Len(s))
    BY <2>1, ConcatAdjacentSubSeq
  <2> QED BY <2>2, SubSeqFull DEF Front, Rest
<1> QED BY <1>1, <1>2, <1>3

LEMMA HeadTail ==
  ASSUME NEW S, NEW s \in Seq(S), s # << >>
  PROVE  /\ Head(s) \in S /\ Tail(s) \in Seq(S) /\ Len(Tail(s)) = Len(s) - 1
         /\ s = <<Head(s)>> \o Tail(s)
<1>1. Head(s) \in S /\ Tail(s) \in Seq(S) /\ Len(Tail(s)) = Len(s) - 1
  BY HeadTailProperties
<1>2. Len(s) \in Nat \ {0} /\ 1 \in 1 .. Len(s) /\ Len(s) \in 1 .. Len(s)
  BY EmptySeq
<1>3. SubSeq(s, 1, Len(s)) = <<s[1]>> \o SubSeq(s, 1 + 1, Len(s))
  BY <1>2, SubSeqRecursiveFirst
<1>4. SubSeq(s, 1, Len(s)) = s /\ Head(s) = s[1] /\ Tail(s) = SubSeq(s, 2, Len(s))
  BY SubSeqFull, TailIsSubSeq
<1> QED BY <1>1, <1>3, <1>4

-------------------------------------------------------------------------------
(* What is left of a list when the acknowledged frames leave its front.    *)

Lower == {p \in Nat \X Nat : p[1] < p[2]}

LEMMA LowerPair ==
  ASSUME NEW x \in Nat, NEW y \in Nat, <<y, x>> \notin Lower
  PROVE  x <= y
<1>1. <<y, x>> \in Nat \X Nat
  OBVIOUS
<1>2. ~(y < x)
  BY <1>1, SMT DEF Lower
<1> QED BY <1>2

LEMMA EarliestExists ==
  ASSUME NEW T \in SUBSET Nat, T # {}
  PROVE  \E m \in T : \A k \in T : m <= k
<1>1. IsWellFoundedOn(Lower, Nat)
  BY NatLessThanWellFounded, Zenon DEF OpToRel, Lower
<1>2. \E x \in T : \A y \in T : <<y, x>> \notin Lower
  BY <1>1, WFMin
<1> QED BY <1>2, LowerPair

LEMMA RemovedFront ==
  ASSUME NEW n \in Int, NEW s \in Seq(IFrame)
  PROVE  \E k \in 0 .. Len(s) : /\ removeACKed(n, s) = Rest(s, k)
                               /\ \A f \in Range(Front(s, k)) : f.NS <= n
<1> DEFINE T == {k \in 0 .. Len(s) : k = Len(s) \/ s[k + 1].NS > n}
           OK(k) == /\ \A i \in 1 .. k : s[i].NS <= n
                    /\ k < Len(s) => s[k + 1].NS > n
<1>1. Len(s) \in Nat /\ \A i \in 1 .. Len(s) : s[i].NS \in Nat
  BY FrameShape, ElementOfSeq
<1>2. PICK m \in T : \A k \in T : m <= k
  <2>1. Len(s) \in T /\ T \in SUBSET Nat
    BY <1>1
  <2> HIDE DEF T
  <2> QED BY <2>1, EarliestExists
<1>3. OK(m)
  <2>1. ASSUME NEW i \in 1 .. m PROVE s[i].NS <= n
    <3>1. i - 1 \in 0 .. Len(s) /\ i - 1 # Len(s) /\ i - 1 < m /\ (i - 1) + 1 = i /\ i \in 1 .. Len(s)
      BY <1>1
    <3>2. i - 1 \notin T
      <4> SUFFICES ASSUME i - 1 \in T PROVE FALSE
        OBVIOUS
      <4>1. m \in Nat /\ i - 1 \in Nat
        BY <1>1
      <4> HIDE DEF T
      <4>2. m <= i - 1
        BY <1>2
      <4> QED BY <3>1, <4>1, <4>2
    <3>3. ~(s[i].NS > n)
      BY <3>1, <3>2
    <3> QED BY <1>1, <3>1, <3>3
  <2> QED BY <1>1, <2>1
<1> DEFINE k == CHOOSE j \in 0 .. Len(s) : OK(j)
<1>4. k \in 0 .. Len(s) /\ OK(k)
  BY <1>3
<1>5. removeACKed(n, s) = Rest(s, k)
  BY DEF removeACKed
<1> HIDE DEF k
<1>6. \A f \in Range(Front(s, k)) : f.NS <= n
  <2>1. /\ Front(s, k) \in Seq(IFrame) /\ Len(Front(s, k)) = k
        /\ \A i \in 1 .. k : Front(s, k)[i] = s[i]
    BY <1>4, FrontRest
  <2>2. \A f \in Range(Front(s, k)) : \E i \in 1 .. k : f = s[i]
    BY <2>1, ElementsInRange
  <2> QED BY <1>4, <2>2
<1> QED BY <1>4, <1>5, <1>6

LEMMA RemovedACKed ==
  ASSUME NEW n \in Int, NEW s \in Seq(IFrame)
  PROVE  /\ removeACKed(n, s) \in Seq(IFrame)
         /\ Range(removeACKed(n, s)) \subseteq Range(s)
         /\ Distinct(s) => Distinct(removeACKed(n, s))
         /\ \A m \in Int : m > n /\ Has(s, m) => Has(removeACKed(n, s), m)
<1>1. PICK k \in 0 .. Len(s) : /\ removeACKed(n, s) = Rest(s, k)
                               /\ \A f \in Range(Front(s, k)) : f.NS <= n
  BY RemovedFront
<1> DEFINE f == Front(s, k)
           r == Rest(s, k)
<1>2. f \in Seq(IFrame) /\ r \in Seq(IFrame) /\ s = f \o r
  BY FrontRest
<1>3. \A m : m \in Range(f) => m.NS <= n
  BY <1>1
<1>4. removeACKed(n, s) = r
  BY <1>1
<1> HIDE DEF f, r
<1>5. Range(s) = Range(f) \cup Range(r) /\ (Distinct(s) => Distinct(r))
  BY <1>2, ConcatRange, ConcatDistinct
<1>6. ASSUME NEW m \in Int, m > n, Has(s, m) PROVE Has(r, m)
  <2>1. PICK g \in Range(s) : g.NS = m
    BY <1>6 DEF Has
  <2>2. g \notin Range(f)
    BY <1>3, <1>6, <2>1
  <2> QED BY <1>5, <2>1, <2>2 DEF Has
<1> QED BY <1>2, <1>4, <1>5, <1>6

-------------------------------------------------------------------------------
(* What tryToSend() preserves of the members a handler leaves behind.      *)

MembersType == [active : IFrame \cup {NoCompound}, now : BOOLEAN,
                sent : Seq(IFrame), again : Seq(IFrame),
                acks : Seq(AckFrame), timer : BOOLEAN]

LEMMA PeerFacts ==
  ASSUME NEW p \in Peer
  PROVE  /\ Other(p) \in Peer /\ Other(p) # p /\ Other(Other(p)) = p
         /\ \A r \in Peer : r = p \/ r = Other(p)
BY DEF Peer, Other

LEMMA ActiveIsList ==
  ASSUME NEW u \in MembersType
  PROVE  /\ u.sent \in Seq(IFrame) /\ u.again \in Seq(IFrame) /\ u.acks \in Seq(AckFrame)
         /\ u.active \in IFrame \cup {NoCompound} /\ u.now \in BOOLEAN /\ u.timer \in BOOLEAN
         /\ Active(u) \in Seq(IFrame) /\ Len(Active(u)) <= 1
         /\ KeptBy(u) \in Seq(IFrame)
<1>1. /\ u.sent \in Seq(IFrame) /\ u.again \in Seq(IFrame) /\ u.acks \in Seq(AckFrame)
      /\ u.active \in IFrame \cup {NoCompound} /\ u.now \in BOOLEAN /\ u.timer \in BOOLEAN
  BY DEF MembersType
<1>2. Active(u) \in Seq(IFrame) /\ Len(Active(u)) <= 1
  BY <1>1 DEF Active
<1>3. u.sent \o u.again \in Seq(IFrame)
  BY <1>1, ConcatProperties
<1>4. KeptBy(u) \in Seq(IFrame)
  BY <1>2, <1>3, ConcatProperties DEF KeptBy
<1> QED BY <1>1, <1>2, <1>4

(* A frame that is sent moves from one of the lists to the next: the three *)
(* behind each other stay the same.                                        *)
LEMMA MovedOn ==
  ASSUME NEW u \in MembersType, NEW v \in MembersType,
         NEW d \in 0 .. Len(u.again \o Active(u)),
         v.sent = u.sent \o Front(u.again \o Active(u), d),
         v.again = Rest(u.again, d),
         v.active = IF d > Len(u.again) THEN NoCompound ELSE u.active
  PROVE  KeptBy(v) = KeptBy(u)
<1>1. /\ u.sent \in Seq(IFrame) /\ u.again \in Seq(IFrame)
      /\ Active(u) \in Seq(IFrame) /\ Len(Active(u)) <= 1
  BY ActiveIsList
<1>2. /\ u.again \o Active(u) \in Seq(IFrame)
      /\ Len(u.again \o Active(u)) = Len(u.again) + Len(Active(u))
      /\ Len(u.again) \in Nat /\ Len(Active(u)) \in Nat
  BY <1>1, ConcatProperties
<1>3. d \in Nat /\ d <= Len(u.again) + Len(Active(u))
  BY <1>2
<1>4. CASE d <= Len(u.again)
  <2> DEFINE f == Front(u.again, d)
             r == Rest(u.again, d)
  <2>1. d \in 0 .. Len(u.again)
    BY <1>2, <1>3, <1>4
  <2>2. Front(u.again \o Active(u), d) = f
    <3>1. CASE d = 0
      <4>1. \A s : SubSeq(s, 1, 0) = << >>
        BY SubSeqEmpty
      <4> QED BY <3>1, <4>1 DEF Front
    <3>2. CASE d # 0
      <4>1. 1 \in 1 .. Len(u.again) /\ d \in 1 .. Len(u.again)
        BY <1>2, <2>1, <3>2
      <4> QED BY <1>1, <4>1, SubSeqOfConcat1 DEF Front
    <3> QED BY <3>1, <3>2
  <2>3. f \in Seq(IFrame) /\ r \in Seq(IFrame) /\ u.again = f \o r
    BY <1>1, <2>1, FrontRest
  <2>4. v.sent = u.sent \o f /\ v.again = r
    BY <2>2
  <2>5. v.active = u.active
    BY <1>2, <1>3, <1>4
  <2>6. Active(v) = Active(u)
    BY <2>5 DEF Active
  <2> HIDE DEF f, r
  <2>7. (u.sent \o f) \o r = u.sent \o (f \o r)
    BY <1>1, <2>3, Associative, Zenon
  <2>8. v.sent \o v.again = u.sent \o u.again
    BY <2>3, <2>4, <2>7
  <2> QED BY <2>6, <2>8 DEF KeptBy
<1>5. CASE ~(d <= Len(u.again))
  <2> DEFINE c == u.again \o Active(u)
  <2>1. d = Len(c)
    BY SMTT(20), <1>1, <1>2, <1>3, <1>5
  <2>2. c \in Seq(IFrame)
    BY <1>2
  <2>3. v.sent = u.sent \o Front(c, d)
    OBVIOUS
  <2> HIDE DEF c
  <2>4. v.sent = u.sent \o c
    BY <2>1, <2>2, <2>3, SubSeqFull DEF Front
  <2>5. v.again = << >>
    <3>1. Len(u.again) < d + 1 /\ d + 1 \in Int /\ Len(u.again) \in Int
      BY <1>2, <1>3, <1>5
    <3>2. SubSeq(u.again, d + 1, Len(u.again)) = << >>
      BY <3>1, SubSeqEmpty
    <3> QED BY <3>2 DEF Rest
  <2>6. v.active = NoCompound
    BY <1>2, <1>3, <1>5
  <2>7. Active(v) = << >>
    BY <2>6 DEF Active
  <2>8. u.sent \o c = (u.sent \o u.again) \o Active(u)
    BY <1>1, Associative, Zenon DEF c
  <2>9. KeptBy(v) = (KeptBy(u) \o << >>) \o << >>
    BY <2>4, <2>5, <2>7, <2>8 DEF KeptBy
  <2>10. KeptBy(u) \o << >> = KeptBy(u)
    <3>1. KeptBy(u) \in Seq(IFrame)
      BY ActiveIsList
    <3> QED BY <3>1, ConcatEmptySeq
  <2> QED BY <2>9, <2>10
<1> QED BY <1>4, <1>5

(* The replies that are sent keep their places among those of the peer,    *)
(* and the I frames sent behind them are none.                             *)
LEMMA RepliesMoveOn ==
  ASSUME NEW s \in Seq(Frame), NEW acks \in Seq(AckFrame), NEW k \in 0 .. Len(acks),
         NEW data \in Seq(IFrame), NEW l, NEW m, Replies(s \o acks, l, m)
  PROVE  Replies(((s \o Front(acks, k)) \o data) \o Rest(acks, k), l, m)
<1> DEFINE f == Front(acks, k)
           r == Rest(acks, k)
<1>1. f \in Seq(AckFrame) /\ r \in Seq(AckFrame) /\ acks = f \o r
  BY FrontRest
<1> HIDE DEF f, r
<1>2. f \in Seq(Frame) /\ r \in Seq(Frame) /\ data \in Seq(Frame) /\ acks \in Seq(Frame)
  BY <1>1, FrameShape
<1>3. \A x \in Range(data) : ~IsReply(x)
  <2>1. Range(data) \subseteq IFrame
    BY ElementsInRange
  <2> QED BY <2>1, FrameShape DEF IsReply
<1>4. Counted(data, l, m) /\ Ascending(data) /\ \A t : Ordered(data, t) /\ Ordered(t, data)
  <2>1. \A i \in 1 .. Len(data) : ~IsReply(data[i])
    BY <1>3, ElementsInRange
  <2> QED BY <1>3, <2>1 DEF Counted, Ascending, Ordered
<1>5. /\ Counted(s, l, m) /\ Counted(f, l, m) /\ Counted(r, l, m)
      /\ Ascending(s) /\ Ascending(f) /\ Ascending(r)
      /\ Ordered(s, f) /\ Ordered(s, r) /\ Ordered(f, r)
  <2>1. Counted(s \o acks, l, m) /\ Ascending(s \o acks)
    BY DEF Replies
  <2>2. Counted(s, l, m) /\ Counted(acks, l, m)
    BY <1>2, <2>1, ConcatRange
  <2>3. Ascending(s) /\ Ascending(acks) /\ Ordered(s, acks)
    BY <1>2, <2>1, ConcatAscending
  <2>4. Counted(f, l, m) /\ Counted(r, l, m) /\ Ordered(s, f) /\ Ordered(s, r)
    BY <1>1, <1>2, <2>2, <2>3, ConcatRange
  <2>5. Ascending(f) /\ Ascending(r) /\ Ordered(f, r)
    BY <1>1, <1>2, <2>3, ConcatAscending
  <2> QED BY <2>2, <2>3, <2>4, <2>5
<1> DEFINE sf  == s \o f
           sfd == sf \o data
<1>6. sf \in Seq(Frame) /\ Counted(sf, l, m) /\ Ascending(sf) /\ Ordered(sf, r)
  BY <1>2, <1>5, ConcatRange, ConcatAscending
<1> HIDE DEF sf
<1>7. sfd \in Seq(Frame) /\ Counted(sfd, l, m) /\ Ascending(sfd) /\ Ordered(sfd, r)
  BY <1>2, <1>4, <1>6, ConcatRange, ConcatAscending
<1> HIDE DEF sfd
<1>8. Counted(sfd \o r, l, m) /\ Ascending(sfd \o r)
  BY <1>2, <1>5, <1>7, ConcatRange, ConcatAscending
<1> QED BY <1>8 DEF Replies, sf, sfd, f, r

(* tryToSend() itself: what it sends was kept, and what it does not send   *)
(* still is.                                                               *)
LEMMA TryToSendKeeps ==
  ASSUME TypeOK, NEW p \in Peer, NEW u \in MembersType, u.now <=> u.active # NoCompound,
         NEW wires \in [Peer -> Seq(Frame)], Len(wires[p]) <= WireCap,
         TryToSend(p, u, wires)
  PROVE  /\ wire' \in [Peer -> Seq(Frame)] /\ ackPDUs' \in [Peer -> Seq(AckFrame)]
         /\ sentPDUs' \in [Peer -> Seq(IFrame)] /\ toRetransmit' \in [Peer -> Seq(IFrame)]
         /\ timeoutSet' \in [Peer -> BOOLEAN] /\ sendNow' \in [Peer -> BOOLEAN]
         /\ activeCompound' \in [Peer -> IFrame \cup {NoCompound}]
         /\ \A q \in Peer : q # p => Members(q)' = Members(q) /\ wire'[q] = wires[q]
         /\ \A acc, la : Sound(u, acc, la) => Sound(Members(p)', acc, la)
         /\ Len(wire'[p]) <= WireCap
         /\ \A acc : AllCarry(wires[p], acc) /\ AllCarry(KeptBy(u), acc)
                        => AllCarry(wire'[p], acc)
         /\ \A l, m : Replies(wires[p] \o u.acks, l, m)
                        => Replies(wire'[p] \o ackPDUs'[p], l, m)
<1> DEFINE data  == u.again \o Unsent(u)
           room  == WireCap - Len(wires[p])
           acks  == Least(Len(u.acks), room)
           datas == Least(Len(data), room - acks)
           w     == (wires[p] \o Front(u.acks, acks)) \o Front(data, datas)
           v     == Members(p)'
<1>1. /\ u.sent \in Seq(IFrame) /\ u.again \in Seq(IFrame) /\ u.acks \in Seq(AckFrame)
      /\ u.active \in IFrame \cup {NoCompound} /\ u.now \in BOOLEAN /\ u.timer \in BOOLEAN
      /\ Active(u) \in Seq(IFrame) /\ Len(Active(u)) <= 1
      /\ KeptBy(u) \in Seq(IFrame)
  BY ActiveIsList
<1>2. Unsent(u) = Active(u)
  BY DEF Unsent, Active
<1>3. data = u.again \o Active(u) /\ data \in Seq(IFrame)
  BY <1>1, <1>2, ConcatProperties
<1>4. wires[p] \in Seq(Frame) /\ WireCap \in Nat
  BY GoBackNAssumption
<1>5. room \in Nat
  BY <1>4
<1>6. /\ acks \in 0 .. Len(u.acks) /\ datas \in 0 .. Len(data) /\ acks + datas <= room
  <2>1. Len(u.acks) \in Nat /\ Len(data) \in Nat
    BY <1>1, <1>3
  <2> HIDE DEF room, data
  <2>2. acks \in 0 .. Len(u.acks) /\ acks <= room
    BY <1>5, <2>1 DEF Least
  <2> HIDE DEF acks
  <2> QED BY <1>5, <2>1, <2>2 DEF Least
<1>7. /\ wire' = [wires EXCEPT ![p] = w]
      /\ ackPDUs' = [ackPDUs EXCEPT ![p] = Rest(u.acks, acks)]
      /\ sentPDUs' = [sentPDUs EXCEPT ![p] = u.sent \o Front(data, datas)]
      /\ toRetransmit' = [toRetransmit EXCEPT ![p] = Rest(u.again, datas)]
      /\ timeoutSet' = [timeoutSet EXCEPT ![p] = u.timer \/ datas > 0]
      /\ activeCompound' = [activeCompound EXCEPT ![p] =
                               IF datas > Len(u.again) THEN NoCompound ELSE u.active]
      /\ sendNow' = [sendNow EXCEPT ![p] = u.now /\ datas <= Len(u.again)]
  BY <1>4 DEF TryToSend
<1> HIDE DEF data, room, acks, datas
<1> DEFINE fa == Front(u.acks, acks)
           fd == Front(data, datas)
           d  == datas
           k  == acks
<1>8. /\ fa \in Seq(AckFrame) /\ Len(fa) = acks
      /\ Rest(u.acks, acks) \in Seq(AckFrame)
  BY SMTT(20), <1>1, <1>6, FrontRest
<1>9. /\ fd \in Seq(IFrame) /\ Len(fd) = datas
      /\ data = fd \o Rest(data, datas) /\ Rest(data, datas) \in Seq(IFrame)
  <2>1. data \in Seq(IFrame) /\ datas \in 0 .. Len(data)
    BY <1>3, <1>6
  <2> HIDE DEF fa, d, k, w, v
  <2>2. /\ Front(data, datas) \in Seq(IFrame) /\ Len(Front(data, datas)) = datas
        /\ data = Front(data, datas) \o Rest(data, datas)
        /\ Rest(data, datas) \in Seq(IFrame)
    BY ZenonT(30), <2>1, FrontRest
  <2> QED BY <2>2
<1>10. data \in Seq(IFrame) /\ d \in Nat /\ Len(u.again) \in Nat /\ d \in 0 .. Len(u.again \o Active(u))
  BY <1>1, <1>3, <1>6
<1>r. Rest(u.again, d) \in Seq(IFrame)
  <2>1. \A i \in d + 1 .. Len(u.again) : u.again[i] \in IFrame
    BY <1>1, <1>10
  <2> HIDE DEF d
  <2> QED BY <1>10, <2>1, SubSeqProperties DEF Rest
<1> HIDE DEF fa, fd
<1>11. fa \in Seq(Frame) /\ fd \in Seq(Frame)
  BY <1>8, <1>9, FrameShape
<1> DEFINE wa == wires[p] \o fa
<1>12. wa \in Seq(Frame) /\ Len(wa) = Len(wires[p]) + k
  BY <1>4, <1>8, <1>11, ConcatProperties
<1> HIDE DEF wa
<1>w. w = wa \o fd
  BY DEF wa, fa, fd
<1> HIDE DEF w
<1>13. w \in Seq(Frame) /\ Len(w) = Len(wires[p]) + k + d
  <2>1. wa \o fd \in Seq(Frame) /\ Len(wa \o fd) = Len(wa) + Len(fd)
    BY <1>11, <1>12, ConcatProperties
  <2> QED BY <1>9, <1>12, <1>w, <2>1
<1>14. u.sent \o fd \in Seq(IFrame) /\ Len(u.sent \o fd) = Len(u.sent) + d
  <2>1. u.sent \in Seq(IFrame)
    BY <1>1
  <2>2. u.sent \o fd \in Seq(IFrame) /\ Len(u.sent \o fd) = Len(u.sent) + Len(fd)
    BY <1>9, <2>1, ConcatProperties
  <2> QED BY <1>9, <2>2
<1> HIDE DEF d, k
<1>15. /\ wire' \in [Peer -> Seq(Frame)] /\ ackPDUs' \in [Peer -> Seq(AckFrame)]
       /\ sentPDUs' \in [Peer -> Seq(IFrame)] /\ toRetransmit' \in [Peer -> Seq(IFrame)]
       /\ timeoutSet' \in [Peer -> BOOLEAN] /\ sendNow' \in [Peer -> BOOLEAN]
       /\ activeCompound' \in [Peer -> IFrame \cup {NoCompound}]
  BY <1>1, <1>7, <1>8, <1>r, <1>13, <1>14 DEF TypeOK, fd, d
<1>16. ASSUME NEW q \in Peer, q # p PROVE Members(q)' = Members(q) /\ wire'[q] = wires[q]
  BY <1>7, <1>16 DEF TypeOK, Members
<1>17. /\ v.sent = u.sent \o fd /\ v.again = Rest(u.again, d) /\ v.acks = Rest(u.acks, k)
       /\ v.timer = (u.timer \/ d > 0) /\ v.now = (u.now /\ d <= Len(u.again))
       /\ v.active = IF d > Len(u.again) THEN NoCompound ELSE u.active
  BY <1>7 DEF TypeOK, Members, fd, d, k
<1>18. v \in MembersType /\ v.acks = ackPDUs'[p]
  BY <1>15 DEF Members, MembersType
<1> HIDE DEF v
<1>19. KeptBy(v) = KeptBy(u)
  <2>1. v.sent = u.sent \o Front(u.again \o Active(u), d)
    BY <1>3, <1>17 DEF fd, d
  <2> QED BY <1>10, <1>17, <1>18, <2>1, MovedOn
<1>20. ASSUME NEW acc, NEW la, Sound(u, acc, la) PROVE Sound(v, acc, la)
  <2>1. v.now <=> v.active # NoCompound
    <3>1. CASE d <= Len(u.again)
      BY <1>1, <1>10, <1>17, <3>1
    <3>2. CASE d > Len(u.again)
      <4>1. ~(d <= Len(u.again))
        BY <1>10, <3>2
      <4>2. v.active = NoCompound /\ ~v.now
        BY <1>17, <3>2, <4>1
      <4> QED BY <4>2
    <3> QED BY <1>10, <3>1, <3>2
  <2>2. v.timer <=> v.sent # << >>
    <3>1. u.timer <=> u.sent # << >>
      BY <1>20 DEF Sound
    <3>2. \A s \in Seq(IFrame) : s # << >> <=> Len(s) # 0
      OBVIOUS
    <3>3. u.sent \in Seq(IFrame) /\ v.sent \in Seq(IFrame) /\ v.timer = (u.timer \/ d > 0)
      BY <1>1, <1>14, <1>17
    <3>4. Len(v.sent) = Len(u.sent) + d /\ Len(u.sent) \in Nat /\ d \in Nat
      BY <1>1, <1>10, <1>14, <1>17
    <3>5. Len(v.sent) # 0 <=> Len(u.sent) # 0 \/ d > 0
      BY <3>4
    <3> QED BY <1>1, <3>1, <3>2, <3>3, <3>5
  <2> QED BY <1>19, <1>20, <2>1, <2>2 DEF Sound
<1>21. Len(wire'[p]) <= WireCap
  <2>1. k + d <= WireCap - Len(wires[p]) /\ k \in Nat /\ d \in Nat /\ Len(wires[p]) \in Nat
    BY <1>1, <1>4, <1>6, <1>10 DEF k, d, room
  <2>2. wire'[p] = w
    BY <1>7
  <2> QED BY <1>4, <1>13, <2>1, <2>2
<1>22. ASSUME NEW acc, AllCarry(wires[p], acc), AllCarry(KeptBy(u), acc) PROVE AllCarry(w, acc)
  <2>1. Range(fa) \subseteq AckFrame
    BY <1>8, ElementsInRange DEF fa
  <2>2. AllCarry(fa, acc)
    BY <2>1, FrameShape DEF AllCarry, IsReply
  <2>3. Range(KeptBy(u)) = (Range(u.sent) \cup Range(u.again)) \cup Range(Active(u))
    <3>1. /\ u.sent \o u.again \in Seq(IFrame)
          /\ Range(u.sent \o u.again) = Range(u.sent) \cup Range(u.again)
      BY <1>1, ConcatRange
    <3> DEFINE sa == u.sent \o u.again
    <3>2. sa \in Seq(IFrame) /\ Range(sa) = Range(u.sent) \cup Range(u.again)
      BY <3>1
    <3>3. KeptBy(u) = sa \o Active(u)
      BY DEF KeptBy
    <3> HIDE DEF sa
    <3>4. Active(u) \in Seq(IFrame)
      BY <1>1
    <3> QED BY <3>2, <3>3, <3>4, ConcatRange
  <2>4. Range(data) = Range(u.again) \cup Range(Active(u))
    BY <1>1, <1>3, ConcatRange
  <2>5. Range(data) = Range(fd) \cup Range(Rest(data, d))
    BY <1>9, ConcatRange DEF d
  <2>6. AllCarry(fd, acc)
    BY <1>22, <2>3, <2>4, <2>5 DEF AllCarry
  <2>7. AllCarry(wa, acc)
    BY <1>4, <1>11, <1>22, <2>2, ConcatRange DEF wa
  <2> QED BY <1>11, <1>12, <1>w, <2>6, <2>7, ConcatRange
<1>23. ASSUME NEW l, NEW m, Replies(wires[p] \o u.acks, l, m) PROVE Replies(w \o v.acks, l, m)
  <2>1. k \in 0 .. Len(u.acks) /\ fd \in Seq(IFrame)
    BY <1>6, <1>9 DEF k
  <2>2. Replies(((wires[p] \o Front(u.acks, k)) \o fd) \o Rest(u.acks, k), l, m)
    BY <1>1, <1>4, <1>23, <2>1, RepliesMoveOn
  <2> QED BY <1>17, <2>2 DEF w, fa, fd, k
<1>24. wire'[p] = w
  BY <1>7
<1> QED BY <1>15, <1>16, <1>18, <1>20, <1>21, <1>22, <1>23, <1>24 DEF v

-------------------------------------------------------------------------------
(* The inductive invariant, action by action.                              *)

(* What every handler that ends with tryToSend() has to see to: u are the  *)
(* members it leaves, wires the frames under way when it sends.            *)
LEMMA SendingKeeps ==
  ASSUME IInv, NEW p \in Peer, NEW u \in MembersType,
         NEW wires \in [Peer -> Seq(Frame)], TryToSend(p, u, wires),
         \A q \in Peer : q # p => /\ NS'[q] = NS[q] /\ NR'[q] = NR[q] /\ LA'[q] = LA[q]
                                  /\ accepted'[q] = accepted[q],
         NS'[p] = Len(accepted'[p]), Sound(u, accepted'[p], LA'[p]),
         \A q \in Peer : Len(wires[q]) <= WireCap /\ AllCarry(wires[q], accepted'[q]),
         LA[Other(p)] <= NR'[p], Replies(wires[p] \o u.acks, LA[Other(p)], NR'[p]),
         LA'[p] <= NR[Other(p)],
         Replies(wires[Other(p)] \o ackPDUs[Other(p)], LA'[p], NR[Other(p)])
  PROVE  /\ wire' \in [Peer -> Seq(Frame)] /\ ackPDUs' \in [Peer -> Seq(AckFrame)]
         /\ sentPDUs' \in [Peer -> Seq(IFrame)] /\ toRetransmit' \in [Peer -> Seq(IFrame)]
         /\ timeoutSet' \in [Peer -> BOOLEAN] /\ sendNow' \in [Peer -> BOOLEAN]
         /\ activeCompound' \in [Peer -> IFrame \cup {NoCompound}]
         /\ \A q \in Peer : SenderInv(q)' /\ WireInv(q)' /\ RepliesInv(q)'
<1> DEFINE q == Other(p)
<1>1. q \in Peer /\ q # p /\ Other(q) = p /\ \A r \in Peer : r = p \/ r = q
  BY PeerFacts
<1>2. TypeOK /\ (u.now <=> u.active # NoCompound) /\ Len(wires[p]) <= WireCap
  BY DEF IInv, Sound
<1>3. /\ wire' \in [Peer -> Seq(Frame)] /\ ackPDUs' \in [Peer -> Seq(AckFrame)]
      /\ sentPDUs' \in [Peer -> Seq(IFrame)] /\ toRetransmit' \in [Peer -> Seq(IFrame)]
      /\ timeoutSet' \in [Peer -> BOOLEAN] /\ sendNow' \in [Peer -> BOOLEAN]
      /\ activeCompound' \in [Peer -> IFrame \cup {NoCompound}]
      /\ \A r \in Peer : r # p => Members(r)' = Members(r) /\ wire'[r] = wires[r]
      /\ \A acc, la : Sound(u, acc, la) => Sound(Members(p)', acc, la)
      /\ Len(wire'[p]) <= WireCap
      /\ \A acc : AllCarry(wires[p], acc) /\ AllCarry(KeptBy(u), acc)
                     => AllCarry(wire'[p], acc)
      /\ \A l, m : Replies(wires[p] \o u.acks, l, m)
                     => Replies(wire'[p] \o ackPDUs'[p], l, m)
  BY <1>2, TryToSendKeeps
<1>4. Members(q)' = Members(q) /\ wire'[q] = wires[q] /\ ackPDUs'[q] = ackPDUs[q]
  <2>1. Members(q)' = Members(q) /\ wire'[q] = wires[q]
    BY <1>1, <1>3
  <2>2. ackPDUs'[q] = ackPDUs[q]
    BY <1>1, <1>2 DEF TryToSend, TypeOK
  <2> QED BY <2>1, <2>2
<1> HIDE DEF q
<1>5. NS'[q] = NS[q] /\ NR'[q] = NR[q] /\ LA'[q] = LA[q] /\ accepted'[q] = accepted[q]
  BY <1>1
<1>6. SenderInv(q) /\ AllCarry(KeptBy(u), accepted'[p])
  BY <1>1 DEF IInv, Sound
<1>7. SenderInv(p)' /\ SenderInv(q)'
  <2>1. Sound(Members(p)', accepted'[p], LA'[p])
    BY <1>3
  <2>2. Sound(Members(q)', accepted'[q], LA'[q])
    BY <1>4, <1>5, <1>6 DEF SenderInv
  <2> QED BY <1>5, <1>6, <2>1, <2>2 DEF SenderInv
<1>8. WireInv(p)' /\ WireInv(q)'
  BY <1>1, <1>3, <1>4, <1>6 DEF WireInv
<1>9. RepliesInv(p)'
  <2>1. Replies(wire'[p] \o ackPDUs'[p], LA'[q], NR'[p])
    BY <1>3, <1>5 DEF q
  <2> QED BY <1>1, <1>5, <2>1 DEF RepliesInv, q
<1>10. RepliesInv(q)'
  <2>1. Replies(wire'[q] \o ackPDUs'[q], LA'[p], NR'[q])
    BY <1>4, <1>5 DEF q
  <2>2. LA'[Other(q)] <= NR'[q]
    BY <1>1, <1>5 DEF q
  <2> QED BY <1>1, <2>1, <2>2 DEF RepliesInv
<1> QED BY <1>1, <1>3, <1>7, <1>8, <1>9, <1>10

(* What a peer has received does not change when its partner accepts more. *)
LEMMA NothingReceived ==
  ASSUME IInv, NEW p \in Peer,
         NR'[p] = NR[p], delivered'[p] = delivered[p], receivedPDUs'[p] = receivedPDUs[p],
         delayingDelivery'[p] = delayingDelivery[p],
         delayedDeliveryNR'[p] = delayedDeliveryNR[p],
         Len(accepted[Other(p)]) <= Len(accepted'[Other(p)]), Len(accepted'[Other(p)]) \in Nat,
         \A k \in 1 .. Len(accepted[Other(p)]) : accepted'[Other(p)][k] = accepted[Other(p)][k]
  PROVE  ReceiverInv(p)'
<1> DEFINE q == Other(p)
<1>1. /\ q \in Peer /\ ReceiverInv(p) /\ NR[p] \in Nat /\ accepted[q] \in Seq(SDU)
      /\ delivered[p] \in Seq(SDU) /\ receivedPDUs[p] \in Seq(IFrame)
  BY PeerFacts DEF IInv, TypeOK
<1> HIDE DEF q
<1>2. \A k \in 1 .. NR[p] : k \in 1 .. Len(accepted[q]) /\ accepted'[q][k] = accepted[q][k]
  BY <1>1 DEF ReceiverInv, q
<1>a. /\ Len(delivered[p]) \in Nat /\ Len(receivedPDUs[p]) \in Nat
      /\ Len(delivered[p]) + Len(receivedPDUs[p]) = NR[p]
  <2>1. Len(delivered[p]) + Len(receivedPDUs[p]) = NR[p]
    BY <1>1, Zenon DEF ReceiverInv
  <2>2. Len(delivered[p]) \in Nat /\ Len(receivedPDUs[p]) \in Nat
    BY <1>1
  <2> QED BY <2>1, <2>2
<1> DEFINE a == Len(delivered[p])
           b == Len(receivedPDUs[p])
<1> HIDE DEF a, b
<1>b. a \in Nat /\ b \in Nat /\ NR[p] \in Nat /\ a + b = NR[p]
  BY <1>1, <1>a DEF a, b
<1>3. \A k \in 1 .. Len(delivered[p]) : k \in 1 .. NR[p]
  <2>1. \A k \in 1 .. a : k \in 1 .. NR[p]
    BY <1>b
  <2> QED BY <2>1 DEF a
<1>4. \A i \in 1 .. Len(receivedPDUs[p]) : Len(delivered[p]) + i \in 1 .. NR[p]
  <2>1. \A i \in 1 .. b : a + i \in 1 .. NR[p]
    BY <1>b
  <2> QED BY <2>1 DEF a, b
<1>5. NR'[p] <= Len(accepted'[q])
  BY <1>1 DEF ReceiverInv, q
<1>6. \A k \in 1 .. Len(delivered'[p]) : delivered'[p][k] = accepted'[q][k]
  BY <1>1, <1>2, <1>3 DEF ReceiverInv, q
<1>7. \A i \in 1 .. Len(receivedPDUs'[p]) :
         /\ receivedPDUs'[p][i].NS = Len(delivered'[p]) + i - 1
         /\ receivedPDUs'[p][i].sdu = accepted'[q][Len(delivered'[p]) + i]
  BY ZenonT(30), <1>1, <1>2, <1>4 DEF ReceiverInv, q
<1> QED BY <1>1, <1>5, <1>6, <1>7 DEF ReceiverInv, q

LEMMA MembersInType ==
  ASSUME TypeOK, NEW p \in Peer
  PROVE  /\ Members(p) \in MembersType
         /\ Members(p).active = activeCompound[p] /\ Members(p).now = sendNow[p]
         /\ Members(p).sent = sentPDUs[p] /\ Members(p).again = toRetransmit[p]
         /\ Members(p).acks = ackPDUs[p] /\ Members(p).timer = timeoutSet[p]
BY DEF TypeOK, Members, MembersType

LEMMA PeerTypes ==
  ASSUME TypeOK, NEW p \in Peer
  PROVE  /\ NS[p] \in Nat /\ LA[p] \in Nat /\ NR[p] \in Nat /\ NS \in [Peer -> Nat]
         /\ accepted[p] \in Seq(SDU) /\ Len(accepted[p]) \in Nat
         /\ delivered[p] \in Seq(SDU) /\ Len(delivered[p]) \in Nat
         /\ receivedPDUs[p] \in Seq(IFrame) /\ Len(receivedPDUs[p]) \in Nat
<1>1. /\ NS[p] \in Nat /\ LA[p] \in Nat /\ NR[p] \in Nat /\ NS \in [Peer -> Nat]
      /\ accepted[p] \in Seq(SDU) /\ delivered[p] \in Seq(SDU)
      /\ receivedPDUs[p] \in Seq(IFrame)
  BY DEF TypeOK
<1> QED BY <1>1, LenProperties

(* What is kept, list by list. *)
LEMMA KeptParts ==
  ASSUME NEW s \in Seq(IFrame), NEW t \in Seq(IFrame), NEW a \in Seq(IFrame)
  PROVE  /\ (s \o t) \o a \in Seq(IFrame)
         /\ Distinct((s \o t) \o a) <=> /\ Distinct(s) /\ Distinct(t) /\ Distinct(a)
                                        /\ Apart(s, t) /\ Apart(s, a) /\ Apart(t, a)
         /\ Range((s \o t) \o a) = Range(s) \cup Range(t) \cup Range(a)
<1> DEFINE c == s \o t
<1>1. c \in Seq(IFrame) /\ Range(c) = Range(s) \cup Range(t)
  BY ConcatRange
<1>2. Distinct(c) <=> Distinct(s) /\ Distinct(t) /\ Apart(s, t)
  BY ConcatDistinct
<1>3. Apart(c, a) <=> Apart(s, a) /\ Apart(t, a)
  BY ConcatRange
<1> HIDE DEF c
<1>4. c \o a \in Seq(IFrame) /\ Range(c \o a) = Range(c) \cup Range(a)
  BY <1>1, ConcatRange
<1>5. Distinct(c \o a) <=> Distinct(c) /\ Distinct(a) /\ Apart(c, a)
  BY <1>1, ConcatDistinct
<1> QED BY <1>1, <1>2, <1>3, <1>4, <1>5 DEF c

(* Carrying and having are a matter of what a list contains. *)
LEMMA ByRange ==
  ASSUME NEW s, NEW t, Range(t) \subseteq Range(s)
  PROVE  /\ \A acc : AllCarry(s, acc) => AllCarry(t, acc)
         /\ \A n : Has(t, n) => Has(s, n)
         /\ \A u : Apart(s, u) => Apart(t, u)
         /\ \A u : Apart(u, s) => Apart(u, t)
BY Zenon DEF AllCarry, Has, Apart

(* prepareRetransmission() keeps every frame. *)
LEMMA PreparedKeeps ==
  ASSUME NEW u \in MembersType, NEW acc, NEW la,
         u.now <=> u.active # NoCompound, ~Prepared(u).timer,
         Distinct(KeptBy(u)), AllCarry(KeptBy(u), acc),
         \A n \in la .. Len(acc) - 1 : Has(KeptBy(u), n)
  PROVE  Prepared(u) \in MembersType /\ Sound(Prepared(u), acc, la)
<1> DEFINE v == Prepared(u)
<1>1. /\ u.sent \in Seq(IFrame) /\ u.again \in Seq(IFrame) /\ u.acks \in Seq(AckFrame)
      /\ u.active \in IFrame \cup {NoCompound} /\ u.now \in BOOLEAN /\ u.timer \in BOOLEAN
      /\ Active(u) \in Seq(IFrame) /\ Len(Active(u)) <= 1
      /\ KeptBy(u) \in Seq(IFrame)
  BY ActiveIsList
<1>2. /\ v.sent = << >> /\ v.again = u.again \o u.sent /\ v.active = u.active
      /\ v.now = u.now /\ v.acks = u.acks /\ v.timer = u.timer
  BY DEF Prepared, MembersType
<1>3. u.again \o u.sent \in Seq(IFrame) /\ << >> \in Seq(IFrame)
  BY <1>1, ConcatProperties
<1>4. v \in MembersType
  BY <1>3 DEF Prepared, MembersType
<1>5. Active(v) = Active(u)
  BY <1>2 DEF Active
<1>t. ~v.timer
  OBVIOUS
<1> HIDE DEF v
<1>6. KeptBy(v) = (u.again \o u.sent) \o Active(u)
  <2>1. << >> \o (u.again \o u.sent) = u.again \o u.sent
    BY <1>3, ConcatEmptySeq
  <2> QED BY <1>2, <1>5, <2>1 DEF KeptBy
<1> DEFINE s == u.sent
           t == u.again
           a == Active(u)
<1>7. s \in Seq(IFrame) /\ t \in Seq(IFrame) /\ a \in Seq(IFrame)
  BY <1>1
<1>8. KeptBy(u) = (s \o t) \o a /\ KeptBy(v) = (t \o s) \o a
  BY <1>6 DEF KeptBy
<1> HIDE DEF s, t, a
<1>9. Distinct(KeptBy(v))
  <2>1. /\ Distinct(s) /\ Distinct(t) /\ Distinct(a)
        /\ Apart(s, t) /\ Apart(s, a) /\ Apart(t, a)
    BY <1>7, <1>8, KeptParts
  <2> QED BY <1>7, <1>8, <2>1, KeptParts, ApartIsSymmetric
<1>10. Range(KeptBy(v)) = Range(KeptBy(u))
  <2>1. Range((s \o t) \o a) = Range(s) \cup Range(t) \cup Range(a)
    BY <1>7, KeptParts
  <2>2. Range((t \o s) \o a) = Range(t) \cup Range(s) \cup Range(a)
    BY <1>7, KeptParts
  <2> QED BY <1>8, <2>1, <2>2
<1>11. /\ AllCarry(KeptBy(v), acc)
       /\ \A n \in la .. Len(acc) - 1 : Has(KeptBy(v), n)
  BY <1>10, ByRange
<1> QED BY <1>2, <1>4, <1>9, <1>11, <1>t DEF Sound, v

(* The frames up to n are acknowledged: the others are still kept.         *)
LEMMA WithoutACKedKeeps ==
  ASSUME IInv, NEW p \in Peer, NEW n \in Int, NEW acc, NEW la \in Nat,
         la >= LA[p], la > n, acc = accepted[p]
  PROVE  LET u == WithoutACKed(p, n)
         IN  /\ u \in MembersType /\ u.acks = ackPDUs[p] /\ u.timer = timeoutSet[p]
             /\ u.now <=> u.active # NoCompound
             /\ Distinct(KeptBy(u)) /\ AllCarry(KeptBy(u), acc)
             /\ \A m \in la .. Len(acc) - 1 : Has(KeptBy(u), m)
             /\ u.sent # << >> => u.timer
<1> DEFINE v == Members(p)
           u == WithoutACKed(p, n)
           s == removeACKed(n, v.sent)
           t == removeACKed(n, v.again)
           a == Active(v)
<1>1. /\ v \in MembersType /\ Sound(v, acc, LA[p])
      /\ LA[p] \in Nat /\ acc \in Seq(SDU)
      /\ v.acks = ackPDUs[p] /\ v.timer = timeoutSet[p]
  BY MembersInType DEF IInv, SenderInv, TypeOK
<1>2. u = [v EXCEPT !.sent = s, !.again = t]
  BY DEF WithoutACKed
<1> HIDE DEF v, u
<1>3. /\ v.sent \in Seq(IFrame) /\ v.again \in Seq(IFrame) /\ v.acks \in Seq(AckFrame)
      /\ v.active \in IFrame \cup {NoCompound} /\ v.now \in BOOLEAN /\ v.timer \in BOOLEAN
      /\ Active(v) \in Seq(IFrame)
  BY <1>1, ActiveIsList
<1>4. /\ s \in Seq(IFrame) /\ Range(s) \subseteq Range(v.sent)
      /\ Distinct(v.sent) => Distinct(s)
      /\ \A m \in Int : m > n /\ Has(v.sent, m) => Has(s, m)
  BY <1>3, RemovedACKed
<1>5. /\ t \in Seq(IFrame) /\ Range(t) \subseteq Range(v.again)
      /\ Distinct(v.again) => Distinct(t)
      /\ \A m \in Int : m > n /\ Has(v.again, m) => Has(t, m)
  BY <1>3, RemovedACKed
<1> HIDE DEF s, t
<1>6. /\ u.sent = s /\ u.again = t /\ u.acks = v.acks /\ u.active = v.active
      /\ u.now = v.now /\ u.timer = v.timer /\ u \in MembersType
  BY <1>1, <1>2, <1>3, <1>4, <1>5 DEF MembersType
<1>7. Active(u) = a
  BY <1>6 DEF Active
<1>8. KeptBy(u) = (s \o t) \o a /\ KeptBy(v) = (v.sent \o v.again) \o a /\ a \in Seq(IFrame)
  BY <1>3, <1>6, <1>7 DEF KeptBy
<1> HIDE DEF a
<1>9. Distinct(KeptBy(u))
  <2>1. /\ Distinct(v.sent) /\ Distinct(v.again) /\ Distinct(a)
        /\ Apart(v.sent, v.again) /\ Apart(v.sent, a) /\ Apart(v.again, a)
    BY <1>1, <1>3, <1>8, KeptParts DEF Sound
  <2>2. Apart(s, v.again) /\ Apart(s, a) /\ Apart(t, a)
    BY <1>4, <1>5, <2>1, ByRange
  <2>3. Apart(s, t)
    BY <1>5, <2>2, ByRange
  <2> QED BY <1>4, <1>5, <1>8, <2>1, <2>2, <2>3, KeptParts
<1>10. /\ Range(KeptBy(u)) = Range(s) \cup Range(t) \cup Range(a)
       /\ Range(KeptBy(v)) = Range(v.sent) \cup Range(v.again) \cup Range(a)
  BY <1>3, <1>4, <1>5, <1>8, KeptParts
<1>11. AllCarry(KeptBy(u), acc)
  <2>1. Range(KeptBy(u)) \subseteq Range(KeptBy(v))
    BY <1>4, <1>5, <1>10
  <2> QED BY <1>1, <2>1, ByRange DEF Sound
<1>12. ASSUME NEW m \in la .. Len(acc) - 1 PROVE Has(KeptBy(u), m)
  <2>1. m \in LA[p] .. Len(acc) - 1 /\ m \in Int /\ m > n
    BY <1>1
  <2>2. Has(KeptBy(v), m)
    BY <1>1, <2>1 DEF Sound
  <2>3. Has(v.sent, m) \/ Has(v.again, m) \/ Has(a, m)
    BY <1>10, <2>2, Zenon DEF Has
  <2>4. Has(s, m) \/ Has(t, m) \/ Has(a, m)
    BY <1>4, <1>5, <2>1, <2>3
  <2> QED BY <1>10, <2>4, Zenon DEF Has
<1>13. ASSUME u.sent # << >> PROVE u.timer
  <2>1. PICK f : f \in Range(s)
    <3>1. Len(s) >= 1 /\ 1 \in 1 .. Len(s)
      BY <1>4, <1>6, <1>13
    <3> QED BY <1>4, <3>1, ElementsInRange
  <2>2. v.sent # << >>
    BY <1>4, <2>1, Empty
  <2> QED BY <1>1, <1>6, <2>2 DEF Sound
<1>14. u.now <=> u.active # NoCompound
  BY <1>1, <1>6 DEF Sound
<1> QED BY <1>1, <1>6, <1>9, <1>11, <1>12, <1>13, <1>14 DEF u

LEMMA CarryExtended ==
  ASSUME NEW s \in Seq(Frame), NEW acc \in Seq(SDU), NEW d \in SDU, AllCarry(s, acc)
  PROVE  AllCarry(s, Append(acc, d))
<1>1. Len(acc) \in Nat /\ Len(Append(acc, d)) = Len(acc) + 1
      /\ \A k \in 1 .. Len(acc) : Append(acc, d)[k] = acc[k]
  BY AppendProperties
<1>2. ASSUME NEW f \in Range(s), f.type = "I" PROVE Carries(f, Append(acc, d))
  <2>1. f.NS \in Nat
    BY FrameShape, ElementsInRange
  <2>2. f.NS < Len(acc) /\ f.sdu = acc[f.NS + 1]
    BY <1>2 DEF AllCarry, Carries
  <2>3. f.NS + 1 \in 1 .. Len(acc)
    BY <1>1, <2>1, <2>2
  <2> QED BY <1>1, <2>1, <2>2, <2>3 DEF Carries
<1> QED BY <1>2 DEF AllCarry

LEMMA SendDataKeeps ==
  ASSUME IInv, NEW p \in Peer, NEW d \in SDU, SendData(p, d), failure' = failure
  PROVE  IInv'
<1> DEFINE q     == Other(p)
           frame == [type |-> "I", NS |-> NS[p], sdu |-> d]
           v     == Members(p)
           u     == [v EXCEPT !.active = frame, !.now = TRUE]
           acc   == accepted[p]
           more  == Append(acc, d)
<1>1. q \in Peer /\ q # p /\ Other(q) = p /\ \A r \in Peer : r = p \/ r = q
  BY PeerFacts
<1>2. /\ activeCompound[p] = NoCompound /\ toRetransmit[p] = << >>
      /\ accepted' = [accepted EXCEPT ![p] = more] /\ NS' = [NS EXCEPT ![p] = @ + 1]
      /\ TryToSend(p, u, wire)
      /\ UNCHANGED <<LA, receiverVars, delivered, suspendVars, failure>>
  BY DEF SendData, hasCapacity, retransmissionState
<1>3. /\ TypeOK /\ SenderInv(p) /\ WireInv(p) /\ WireInv(q) /\ RepliesInv(p) /\ RepliesInv(q)
      /\ NoFailure
  BY <1>1 DEF IInv
<1>4. /\ v \in MembersType /\ v.active = NoCompound /\ v.again = << >>
      /\ v.sent = sentPDUs[p] /\ v.acks = ackPDUs[p] /\ v.timer = timeoutSet[p]
  BY <1>2, <1>3, MembersInType
<1>5. /\ acc \in Seq(SDU) /\ NS[p] = Len(acc) /\ NS[p] \in Nat /\ LA[p] \in Nat
      /\ Sound(v, acc, LA[p]) /\ accepted[q] \in Seq(SDU)
      /\ wire \in [Peer -> Seq(Frame)] /\ wire[p] \in Seq(Frame)
  BY <1>1, <1>3 DEF SenderInv, TypeOK
<1>6. /\ more \in Seq(SDU) /\ Len(more) = Len(acc) + 1 /\ more[Len(acc) + 1] = d
      /\ \A k \in 1 .. Len(acc) : more[k] = acc[k]
  BY <1>5, AppendProperties
<1>7. frame \in IFrame /\ frame.NS = Len(acc) /\ frame.sdu = d
  BY <1>5 DEF IFrame
<1> HIDE DEF v, frame
<1>8. /\ u \in MembersType /\ u.active = frame /\ u.now = TRUE /\ u.again = << >>
      /\ u.sent = v.sent /\ u.acks = v.acks /\ u.timer = v.timer
  BY <1>4, <1>7 DEF MembersType
<1> HIDE DEF u, q, acc, more
<1>9. accepted'[p] = more /\ accepted'[q] = accepted[q] /\ NS'[p] = Len(acc) + 1 /\ LA' = LA /\ NR' = NR
  BY <1>1, <1>2, <1>3, <1>5 DEF TypeOK, receiverVars
<1>10. Sound(u, more, LA[p])
  <2>1. v.sent \in Seq(IFrame) /\ << >> \in Seq(IFrame) /\ KeptBy(v) \in Seq(IFrame)
    BY <1>4, ActiveIsList
  <2>2. <<frame>> \in Seq(IFrame) /\ Range(<<frame>>) = {frame} /\ Distinct(<<frame>>)
    BY <1>7, Single, SingleIsDistinct
  <2>3. v.sent \o << >> = v.sent
    BY <2>1, ConcatEmptySeq
  <2>4. KeptBy(v) = v.sent
    BY <1>4, <2>1, <2>3 DEF KeptBy, Active
  <2>5. KeptBy(u) = v.sent \o <<frame>>
    <3>1. u.active # NoCompound
      BY <1>7, <1>8, FrameShape
    <3> QED BY <1>8, <2>3, <3>1 DEF KeptBy, Active
  <2>6. Distinct(v.sent) /\ AllCarry(v.sent, acc) /\ v.sent \in Seq(Frame)
    BY <1>5, <2>1, <2>4, FrameShape DEF Sound
  <2>7. Apart(v.sent, <<frame>>)
    <3> SUFFICES ASSUME NEW f \in Range(v.sent) PROVE f.NS # Len(acc)
      BY <1>7, <2>2 DEF Apart
    <3>1. f.type = "I" /\ f.NS \in Nat
      BY <2>1, ElementsInRange, FrameShape
    <3>2. f.NS < Len(acc)
      BY <2>6, <3>1 DEF AllCarry, Carries
    <3> QED BY <1>5, <3>1, <3>2
  <2>8. Distinct(KeptBy(u))
    BY <2>1, <2>2, <2>5, <2>6, <2>7, ConcatDistinct
  <2>9. Range(KeptBy(u)) = Range(v.sent) \cup {frame}
    BY ZenonT(30), <2>1, <2>2, <2>5, ConcatRange
  <2>10. AllCarry(KeptBy(u), more)
    <3>1. AllCarry(v.sent, more)
      BY <1>5, <2>6, CarryExtended DEF more
    <3>2. Carries(frame, more)
      BY <1>5, <1>6, <1>7 DEF Carries
    <3> QED BY <2>9, <3>1, <3>2 DEF AllCarry
  <2>11. ASSUME NEW n \in LA[p] .. Len(more) - 1 PROVE Has(KeptBy(u), n)
    <3>1. CASE n = Len(acc)
      BY <1>7, <2>9, <3>1 DEF Has
    <3>2. CASE n # Len(acc)
      <4>1. n \in LA[p] .. Len(acc) - 1
        BY <1>5, <1>6, <3>2
      <4>2. Has(v.sent, n)
        BY <1>5, <2>4, <4>1 DEF Sound
      <4> QED BY <2>9, <4>2 DEF Has
    <3> QED BY <3>1, <3>2
  <2>12. u.timer <=> u.sent # << >>
    BY <1>5, <1>8 DEF Sound
  <2>13. u.now <=> u.active # NoCompound
    BY <1>7, <1>8, FrameShape
  <2> QED BY <2>8, <2>10, <2>11, <2>12, <2>13 DEF Sound
<1>11. /\ wire' \in [Peer -> Seq(Frame)] /\ ackPDUs' \in [Peer -> Seq(AckFrame)]
       /\ sentPDUs' \in [Peer -> Seq(IFrame)] /\ toRetransmit' \in [Peer -> Seq(IFrame)]
       /\ timeoutSet' \in [Peer -> BOOLEAN] /\ sendNow' \in [Peer -> BOOLEAN]
       /\ activeCompound' \in [Peer -> IFrame \cup {NoCompound}]
       /\ \A r \in Peer : SenderInv(r)' /\ WireInv(r)' /\ RepliesInv(r)'
  <2>1. \A r \in Peer : r # p => /\ NS'[r] = NS[r] /\ NR'[r] = NR[r] /\ LA'[r] = LA[r]
                                 /\ accepted'[r] = accepted[r]
    BY <1>2, <1>3, <1>9 DEF TypeOK
  <2>2. NS'[p] = Len(accepted'[p]) /\ Sound(u, accepted'[p], LA'[p])
    BY <1>6, <1>9, <1>10
  <2>3. AllCarry(wire[p], more) /\ AllCarry(wire[q], accepted'[q])
    BY <1>3, <1>5, <1>9, CarryExtended DEF WireInv, acc, more
  <2>4. \A r \in Peer : Len(wire[r]) <= WireCap /\ AllCarry(wire[r], accepted'[r])
    BY <1>1, <1>3, <1>9, <2>3 DEF WireInv
  <2>5. LA[q] <= NR'[p] /\ Replies(wire[p] \o u.acks, LA[q], NR'[p])
    BY <1>3, <1>4, <1>8, <1>9 DEF RepliesInv, q
  <2>6. LA'[p] <= NR[q] /\ Replies(wire[q] \o ackPDUs[q], LA'[p], NR[q])
    BY <1>1, <1>3, <1>9 DEF RepliesInv
  <2> QED BY <1>2, <1>5, <1>8, <2>1, <2>2, <2>4, <2>5, <2>6, SendingKeeps DEF q
<1>12. TypeOK'
  <2>1. accepted' \in [Peer -> Seq(SDU)]
    BY <1>2, <1>3, <1>6 DEF TypeOK
  <2>2. NS' \in [Peer -> Nat]
    <3>1. NS \in [Peer -> Nat] /\ NS[p] \in Nat
      BY <1>3, PeerTypes
    <3>2. NS' = [NS EXCEPT ![p] = NS[p] + 1]
      BY <1>2
    <3> QED BY <3>1, <3>2
  <2> QED BY <1>2, <1>3, <1>11, <2>1, <2>2 DEF TypeOK, receiverVars, suspendVars
<1>13. ReceiverInv(p)' /\ ReceiverInv(q)'
  <2>1. Len(more) \in Nat /\ Len(acc) <= Len(more) /\ Len(accepted[q]) \in Nat
    BY <1>5, <1>6
  <2>2. ReceiverInv(p)'
    BY <1>2, <1>5, <1>9, <2>1, NothingReceived DEF receiverVars, q
  <2>3. ReceiverInv(q)'
    BY <1>1, <1>2, <1>6, <1>9, <2>1, NothingReceived DEF receiverVars, acc
  <2> QED BY <2>2, <2>3
<1> QED BY <1>1, <1>3, <1>11, <1>12, <1>13 DEF IInv, NoFailure

LEMMA OnTimeoutKeeps ==
  ASSUME IInv, NEW p \in Peer, OnTimeout(p)
  PROVE  IInv'
<1> DEFINE q == Other(p)
           v == [Members(p) EXCEPT !.timer = FALSE]
           u == Prepared(v)
<1>1. q \in Peer /\ q # p /\ Other(q) = p /\ \A r \in Peer : r = p \/ r = q
  BY PeerFacts
<1>2. /\ TypeOK /\ SenderInv(p) /\ WireInv(p) /\ WireInv(q) /\ RepliesInv(p) /\ RepliesInv(q)
      /\ NoFailure
  BY <1>1 DEF IInv
<1>3. /\ Members(p) \in MembersType /\ Members(p).timer = timeoutSet[p]
      /\ Members(p).sent = sentPDUs[p] /\ Members(p).acks = ackPDUs[p]
      /\ Sound(Members(p), accepted[p], LA[p]) /\ NS[p] = Len(accepted[p])
      /\ wire \in [Peer -> Seq(Frame)]
  BY <1>2, MembersInType DEF SenderInv, TypeOK
<1>4. sentPDUs[p] # << >>
  BY <1>3 DEF OnTimeout, Sound
<1>5. /\ TryToSend(p, u, wire) /\ UNCHANGED <<NS, LA, failure>>
      /\ UNCHANGED <<receiverVars, userVars, suspendVars>>
  BY <1>4 DEF OnTimeout
<1>6. /\ v \in MembersType /\ v.active = Members(p).active /\ v.now = Members(p).now
      /\ v.sent = Members(p).sent /\ v.again = Members(p).again /\ v.acks = ackPDUs[p]
      /\ ~v.timer
  BY <1>3 DEF MembersType
<1> HIDE DEF v
<1>7. KeptBy(v) = KeptBy(Members(p))
  BY <1>6 DEF KeptBy, Active
<1>8. u.acks = ackPDUs[p] /\ ~u.timer
  BY <1>6 DEF Prepared, MembersType
<1>9. u \in MembersType /\ Sound(u, accepted[p], LA[p])
  <2>1. /\ v.now <=> v.active # NoCompound
        /\ Distinct(KeptBy(v)) /\ AllCarry(KeptBy(v), accepted[p])
        /\ \A n \in LA[p] .. Len(accepted[p]) - 1 : Has(KeptBy(v), n)
    BY <1>3, <1>6, <1>7 DEF Sound
  <2> QED BY <1>6, <1>8, <2>1, PreparedKeeps
<1> HIDE DEF u, q
<1>10. NS' = NS /\ NR' = NR /\ LA' = LA /\ accepted' = accepted /\ delivered' = delivered
  BY <1>5 DEF receiverVars, userVars
<1>11. /\ wire' \in [Peer -> Seq(Frame)] /\ ackPDUs' \in [Peer -> Seq(AckFrame)]
       /\ sentPDUs' \in [Peer -> Seq(IFrame)] /\ toRetransmit' \in [Peer -> Seq(IFrame)]
       /\ timeoutSet' \in [Peer -> BOOLEAN] /\ sendNow' \in [Peer -> BOOLEAN]
       /\ activeCompound' \in [Peer -> IFrame \cup {NoCompound}]
       /\ \A r \in Peer : SenderInv(r)' /\ WireInv(r)' /\ RepliesInv(r)'
  <2>1. \A r \in Peer : Len(wire[r]) <= WireCap /\ AllCarry(wire[r], accepted'[r])
    BY <1>1, <1>2, <1>10 DEF WireInv
  <2>2. LA[q] <= NR'[p] /\ Replies(wire[p] \o u.acks, LA[q], NR'[p])
    BY <1>2, <1>8, <1>10 DEF RepliesInv, q
  <2>3. LA'[p] <= NR[q] /\ Replies(wire[q] \o ackPDUs[q], LA'[p], NR[q])
    BY <1>1, <1>2, <1>10 DEF RepliesInv
  <2> QED BY <1>3, <1>5, <1>9, <1>10, <2>1, <2>2, <2>3, SendingKeeps DEF q
<1>12. TypeOK'
  BY <1>2, <1>5, <1>11 DEF TypeOK, receiverVars, suspendVars, userVars
<1>13. ReceiverInv(p)' /\ ReceiverInv(q)'
  <2>1. Len(accepted[p]) \in Nat /\ Len(accepted[q]) \in Nat
    BY <1>1, <1>2, PeerTypes
  <2> QED BY <1>1, <1>5, <1>10, <2>1, NothingReceived DEF receiverVars, q
<1> QED BY <1>1, <1>2, <1>5, <1>11, <1>12, <1>13 DEF IInv, NoFailure

LEMMA WakeupKeeps ==
  ASSUME IInv, NEW p \in Peer, Wakeup(p)
  PROVE  IInv'
<1> DEFINE q == Other(p)
           u == Members(p)
<1>1. q \in Peer /\ q # p /\ Other(q) = p /\ \A r \in Peer : r = p \/ r = q
  BY PeerFacts
<1>2. /\ TypeOK /\ SenderInv(p) /\ WireInv(p) /\ WireInv(q) /\ RepliesInv(p) /\ RepliesInv(q)
      /\ NoFailure
  BY <1>1 DEF IInv
<1>3. /\ u \in MembersType /\ u.acks = ackPDUs[p]
      /\ Sound(u, accepted[p], LA[p]) /\ NS[p] = Len(accepted[p])
      /\ wire \in [Peer -> Seq(Frame)]
  BY <1>2, MembersInType DEF SenderInv, TypeOK
<1>4. /\ TryToSend(p, u, wire)
      /\ UNCHANGED <<NS, LA, receiverVars, userVars, suspendVars, failure>>
  BY DEF Wakeup
<1> HIDE DEF u, q
<1>5. NS' = NS /\ NR' = NR /\ LA' = LA /\ accepted' = accepted /\ delivered' = delivered
  BY <1>4 DEF receiverVars, userVars
<1>6. /\ wire' \in [Peer -> Seq(Frame)] /\ ackPDUs' \in [Peer -> Seq(AckFrame)]
      /\ sentPDUs' \in [Peer -> Seq(IFrame)] /\ toRetransmit' \in [Peer -> Seq(IFrame)]
      /\ timeoutSet' \in [Peer -> BOOLEAN] /\ sendNow' \in [Peer -> BOOLEAN]
      /\ activeCompound' \in [Peer -> IFrame \cup {NoCompound}]
      /\ \A r \in Peer : SenderInv(r)' /\ WireInv(r)' /\ RepliesInv(r)'
  <2>1. \A r \in Peer : Len(wire[r]) <= WireCap /\ AllCarry(wire[r], accepted'[r])
    BY <1>1, <1>2, <1>5 DEF WireInv
  <2>2. LA[q] <= NR'[p] /\ Replies(wire[p] \o u.acks, LA[q], NR'[p])
    BY <1>2, <1>3, <1>5 DEF RepliesInv, q
  <2>3. LA'[p] <= NR[q] /\ Replies(wire[q] \o ackPDUs[q], LA'[p], NR[q])
    BY <1>1, <1>2, <1>5 DEF RepliesInv
  <2> QED BY <1>3, <1>4, <1>5, <2>1, <2>2, <2>3, SendingKeeps DEF q
<1>7. TypeOK'
  BY <1>2, <1>4, <1>6 DEF TypeOK, receiverVars, suspendVars, userVars
<1>8. ReceiverInv(p)' /\ ReceiverInv(q)'
  <2>1. Len(accepted[p]) \in Nat /\ Len(accepted[q]) \in Nat
    BY <1>1, <1>2, PeerTypes
  <2> QED BY <1>1, <1>4, <1>5, <2>1, NothingReceived DEF receiverVars, q
<1> QED BY <1>1, <1>2, <1>4, <1>6, <1>7, <1>8 DEF IInv, NoFailure

(* What is left on the way when the frame at the front has arrived.        *)
LEMMA TakenKeeps ==
  ASSUME IInv, NEW p \in Peer, wire[Other(p)] # << >>
  PROVE  LET q == Other(p)
             f == Head(wire[q])
         IN  /\ Taken(p) \in [Peer -> Seq(Frame)]
             /\ Taken(p)[p] = wire[p] /\ Taken(p)[q] = Tail(wire[q])
             /\ \A r \in Peer : /\ Len(Taken(p)[r]) <= WireCap
                                /\ AllCarry(Taken(p)[r], accepted[r])
             /\ Replies(Taken(p)[q] \o ackPDUs[q], LA[p], NR[q])
             /\ f.type = "I" => f \in IFrame /\ Carries(f, accepted[q])
             /\ f.type # "I" => /\ f \in AckFrame /\ LA[p] <= Count(f) /\ Count(f) <= NR[q]
                                /\ Replies(Taken(p)[q] \o ackPDUs[q], Count(f), NR[q])
<1> DEFINE q == Other(p)
           s == wire[q]
           f == Head(s)
           t == Tail(s)
           a == ackPDUs[q]
<1>1. q \in Peer /\ q # p /\ Other(q) = p /\ \A r \in Peer : r = p \/ r = q
  BY PeerFacts
<1>2. /\ TypeOK /\ WireInv(p) /\ WireInv(q) /\ RepliesInv(q)
  BY <1>1 DEF IInv
<1>3. /\ wire \in [Peer -> Seq(Frame)] /\ s \in Seq(Frame) /\ s # << >>
      /\ a \in Seq(AckFrame) /\ a \in Seq(Frame)
  BY <1>1, <1>2, FrameShape DEF TypeOK
<1>4. Taken(p) = [wire EXCEPT ![q] = t]
  BY DEF Taken
<1> HIDE DEF q, s
<1>5. /\ f \in Frame /\ t \in Seq(Frame) /\ Len(t) = Len(s) - 1 /\ s = <<f>> \o t
      /\ Len(s) \in Nat
  BY <1>3, HeadTail
<1>6. <<f>> \in Seq(Frame) /\ Range(<<f>>) = {f}
  BY <1>5, Single
<1> HIDE DEF f, t, a
<1>7. Range(s) = {f} \cup Range(t)
  <2>1. Range(<<f>> \o t) = Range(<<f>>) \cup Range(t)
    BY <1>5, <1>6, ConcatRange
  <2> QED BY <1>5, <1>6, <2>1
<1>8. Len(t) <= WireCap /\ AllCarry(t, accepted[q]) /\ (f.type = "I" => Carries(f, accepted[q]))
  <2>1. Len(s) <= WireCap /\ AllCarry(s, accepted[q])
    BY <1>2 DEF WireInv, s
  <2>2. Len(t) <= WireCap
    BY <1>5, <2>1, GoBackNAssumption
  <2> QED BY <1>7, <2>1, <2>2 DEF AllCarry
<1>9. Taken(p) \in [Peer -> Seq(Frame)] /\ Taken(p)[p] = wire[p] /\ Taken(p)[q] = t
  BY <1>1, <1>3, <1>4, <1>5
<1>10. \A r \in Peer : Len(Taken(p)[r]) <= WireCap /\ AllCarry(Taken(p)[r], accepted[r])
  BY <1>1, <1>2, <1>8, <1>9 DEF WireInv
<1> DEFINE ta == t \o a
<1>11. ta \in Seq(Frame) /\ s \o a = <<f>> \o ta
  BY <1>3, <1>5, <1>6, ConcatProperties, ConcatAssociative
<1> HIDE DEF ta
<1>12. Counted(<<f>> \o ta, LA[p], NR[q]) /\ Ascending(<<f>> \o ta)
  BY <1>1, <1>2, <1>11 DEF RepliesInv, Replies, s, a
<1>13. Counted(<<f>>, LA[p], NR[q]) /\ Counted(ta, LA[p], NR[q])
  BY <1>6, <1>11, <1>12, ConcatRange
<1>14. Ascending(ta) /\ Ordered(<<f>>, ta)
  BY <1>6, <1>11, <1>12, ConcatAscending
<1>15. ASSUME f.type # "I"
       PROVE  /\ f \in AckFrame /\ LA[p] <= Count(f) /\ Count(f) <= NR[q]
              /\ Counted(ta, Count(f), NR[q])
  <2>1. f \in AckFrame /\ LA[p] <= Count(f) /\ Count(f) <= NR[q] /\ IsReply(f)
    BY <1>5, <1>6, <1>13, <1>15, FrameShape DEF Counted, IsReply
  <2>2. Counted(ta, Count(f), NR[q])
    BY <1>6, <1>13, <1>14, <2>1 DEF Counted, Ordered
  <2> QED BY <2>1, <2>2
<1>16. f.type = "I" => f \in IFrame
  BY <1>5, FrameShape
<1> QED BY <1>8, <1>9, <1>10, <1>13, <1>14, <1>15, <1>16 DEF Replies, ta, a, f, t, s, q

(* A reply with the number received so far is behind all earlier replies.  *)
LEMMA ReplyIsLatest ==
  ASSUME NEW s \in Seq(Frame), NEW acks \in Seq(AckFrame), NEW answer \in Seq(AckFrame),
         NEW l \in Nat, NEW m \in Nat, NEW n \in Nat, l <= m, m <= n,
         answer = << >> \/ \E x \in AckFrame : answer = <<x>> /\ Count(x) = n,
         Replies(s \o acks, l, m)
  PROVE  Replies(s \o (acks \o answer), l, n)
<1> DEFINE c == s \o acks
<1>1. acks \in Seq(Frame) /\ answer \in Seq(Frame)
  BY FrameShape
<1>2. c \in Seq(Frame) /\ s \o (acks \o answer) = c \o answer
  <2>1. c \in Seq(Frame)
    BY <1>1, ConcatProperties
  <2>2. s \o (acks \o answer) = c \o answer
    BY <1>1, Associative, Zenon
  <2> QED BY <2>1, <2>2
<1>3. Counted(c, l, m) /\ Ascending(c)
  BY DEF Replies
<1> HIDE DEF c
<1>4. \A f \in Range(c) : IsReply(f) => Count(f) \in Nat /\ l <= Count(f) /\ Count(f) <= m
  BY <1>2, <1>3, FrameShape, ElementsInRange DEF Counted
<1>5. \A f \in Range(answer) : Count(f) = n
  BY Single, Empty
<1>6. Counted(c, l, n)
  BY <1>4 DEF Counted
<1>7. Counted(answer, l, n)
  BY <1>5 DEF Counted
<1>8. Ordered(c, answer)
  BY <1>4, <1>5 DEF Ordered
<1>9. Ascending(answer)
  <2>1. CASE answer = << >>
    BY <2>1, Empty
  <2>2. ASSUME NEW x \in AckFrame, answer = <<x>> PROVE Ascending(answer)
    BY <2>2 DEF Ascending
  <2> QED BY <2>1, <2>2
<1>10. Counted(c \o answer, l, n)
  BY <1>1, <1>2, <1>6, <1>7, ConcatRange
<1>11. Ascending(c \o answer)
  BY <1>1, <1>2, <1>3, <1>8, <1>9, ConcatAscending
<1> QED BY <1>2, <1>10, <1>11 DEF Replies

LEMMA AnswerKeeps ==
  ASSUME IInv, NEW p \in Peer, wire[Other(p)] # << >>,
         NEW answer \in Seq(AckFrame), Answer(p, answer),
         \A r \in Peer : r # p => NR'[r] = NR[r],
         NR'[p] \in Nat, NR[p] <= NR'[p],
         answer = << >> \/ \E x \in AckFrame : answer = <<x>> /\ Count(x) = NR'[p]
  PROVE  /\ wire' \in [Peer -> Seq(Frame)] /\ ackPDUs' \in [Peer -> Seq(AckFrame)]
         /\ sentPDUs' \in [Peer -> Seq(IFrame)] /\ toRetransmit' \in [Peer -> Seq(IFrame)]
         /\ timeoutSet' \in [Peer -> BOOLEAN] /\ sendNow' \in [Peer -> BOOLEAN]
         /\ activeCompound' \in [Peer -> IFrame \cup {NoCompound}]
         /\ UNCHANGED <<NS, LA, suspendVars, accepted, failure>>
         /\ \A r \in Peer : SenderInv(r)' /\ WireInv(r)' /\ RepliesInv(r)'
<1> DEFINE q     == Other(p)
           v     == Members(p)
           u     == [v EXCEPT !.acks = @ \o answer]
           wires == Taken(p)
<1>1. q \in Peer /\ q # p /\ Other(q) = p /\ \A r \in Peer : r = p \/ r = q
  BY PeerFacts
<1>2. /\ TypeOK /\ SenderInv(p) /\ RepliesInv(p) /\ RepliesInv(q) /\ NoFailure
  BY <1>1 DEF IInv
<1>3. /\ v \in MembersType /\ v.acks = ackPDUs[p] /\ ackPDUs[p] \in Seq(AckFrame)
      /\ Sound(v, accepted[p], LA[p]) /\ NS[p] = Len(accepted[p])
      /\ wire[p] \in Seq(Frame)
  BY <1>2, MembersInType DEF SenderInv, TypeOK
<1>4. /\ TryToSend(p, u, wires) /\ UNCHANGED <<NS, LA, suspendVars, accepted, failure>>
  BY DEF Answer
<1>5. /\ wires \in [Peer -> Seq(Frame)] /\ wires[p] = wire[p]
      /\ \A r \in Peer : Len(wires[r]) <= WireCap /\ AllCarry(wires[r], accepted[r])
      /\ Replies(wires[q] \o ackPDUs[q], LA[p], NR[q])
  BY TakenKeeps
<1> HIDE DEF wires, v
<1>6. ackPDUs[p] \o answer \in Seq(AckFrame)
  BY <1>3, ConcatProperties
<1>7. /\ u \in MembersType /\ u.active = v.active /\ u.now = v.now /\ u.sent = v.sent
      /\ u.again = v.again /\ u.timer = v.timer /\ u.acks = ackPDUs[p] \o answer
  BY <1>3, <1>6 DEF MembersType
<1> HIDE DEF u, q
<1>8. Sound(u, accepted[p], LA[p])
  <2>1. KeptBy(u) = KeptBy(v)
    BY <1>7 DEF KeptBy, Active
  <2> QED BY <1>3, <1>7, <2>1 DEF Sound
<1>9. /\ LA[q] <= NR[p] /\ Replies(wire[p] \o ackPDUs[p], LA[q], NR[p])
      /\ LA[p] <= NR[q] /\ LA[q] \in Nat /\ NR[p] \in Nat
  BY <1>1, <1>2, PeerTypes DEF RepliesInv, q
<1>10. Replies(wires[p] \o u.acks, LA[q], NR'[p])
  BY <1>3, <1>5, <1>7, <1>9, ReplyIsLatest
<1>11. NS' = NS /\ LA' = LA /\ accepted' = accepted
  BY <1>4
<1>12. LA[q] <= NR'[p]
  BY <1>9
<1> QED BY <1>3, <1>4, <1>5, <1>7, <1>8, <1>9, <1>10, <1>11, <1>12, SendingKeeps DEF q

LEMMA ReceiveExpectedKeeps ==
  ASSUME IInv, NEW p \in Peer, ReceiveExpected(p)
  PROVE  /\ IInv'
         /\ accepted' = accepted
         /\ delivered' = [delivered EXCEPT ![p] = Append(@, accepted[Other(p)][NR[p] + 1])]
         /\ NR[p] = Len(delivered[p]) /\ NR[p] < Len(accepted[Other(p)])
<1> DEFINE q     == Other(p)
           frame == Head(wire[q])
           ack   == [type |-> "ACK", NS |-> frame.NS]
           got   == frame.sdu
<1>1. q \in Peer /\ q # p /\ Other(q) = p /\ \A r \in Peer : r = p \/ r = q
  BY PeerFacts
<1>2. TypeOK /\ ReceiverInv(p) /\ ReceiverInv(q) /\ NoFailure
  BY <1>1 DEF IInv
<1>3. /\ wire[q] # << >> /\ frame.type = "I" /\ frame.NS = NR[p] /\ ~delayingDelivery[p]
  BY DEF ReceiveExpected, Arrives, IsExpected
<1>4. receivedPDUs[p] = << >>
  BY <1>2, <1>3 DEF ReceiverInv
<1>5. /\ delivered' = [delivered EXCEPT ![p] = Append(@, got)]
      /\ NR' = [NR EXCEPT ![p] = @ + 1]
      /\ Answer(p, <<ack>>)
      /\ UNCHANGED <<receivedPDUs, delayingDelivery, delayedDeliveryNR>>
  BY <1>4 DEF ReceiveExpected
<1>6. frame \in IFrame /\ Carries(frame, accepted[q])
  BY <1>3, TakenKeeps
<1>7. /\ NR[p] \in Nat /\ NR \in [Peer -> Nat] /\ accepted[q] \in Seq(SDU)
      /\ delivered[p] \in Seq(SDU) /\ delivered \in [Peer -> Seq(SDU)]
      /\ Len(accepted[q]) \in Nat /\ Len(accepted[p]) \in Nat /\ Len(delivered[p]) \in Nat
  BY <1>1, <1>2, PeerTypes DEF TypeOK
<1>8. ack \in AckFrame /\ Count(ack) = NR[p] + 1
  BY <1>3, <1>7 DEF AckFrame, Count
<1>9. NR[p] < Len(accepted[q]) /\ got = accepted[q][NR[p] + 1] /\ got \in SDU
  BY <1>3, <1>6, FrameShape DEF Carries
<1> HIDE DEF ack, got, q
<1>10. NR'[p] = NR[p] + 1 /\ NR' \in [Peer -> Nat] /\ \A r \in Peer : r # p => NR'[r] = NR[r]
  <2>1. NR[p] + 1 \in Nat /\ NR' = [NR EXCEPT ![p] = NR[p] + 1]
    BY <1>5, <1>7
  <2> QED BY <1>7, <2>1
<1>11. /\ wire' \in [Peer -> Seq(Frame)] /\ ackPDUs' \in [Peer -> Seq(AckFrame)]
       /\ sentPDUs' \in [Peer -> Seq(IFrame)] /\ toRetransmit' \in [Peer -> Seq(IFrame)]
       /\ timeoutSet' \in [Peer -> BOOLEAN] /\ sendNow' \in [Peer -> BOOLEAN]
       /\ activeCompound' \in [Peer -> IFrame \cup {NoCompound}]
       /\ UNCHANGED <<NS, LA, suspendVars, accepted, failure>>
       /\ \A r \in Peer : SenderInv(r)' /\ WireInv(r)' /\ RepliesInv(r)'
  <2>1. <<ack>> \in Seq(AckFrame) /\ NR'[p] \in Nat /\ NR[p] <= NR'[p]
    BY <1>7, <1>8, <1>10
  <2>2. Count(ack) = NR'[p]
    BY <1>8, <1>10
  <2> QED BY <1>3, <1>5, <1>8, <1>10, <2>1, <2>2, AnswerKeeps DEF q
<1>12. /\ delivered' \in [Peer -> Seq(SDU)] /\ delivered'[p] = Append(delivered[p], got)
       /\ delivered'[q] = delivered[q]
  <2>1. Append(delivered[p], got) \in Seq(SDU)
    BY <1>7, <1>9, AppendProperties
  <2>2. delivered' = [delivered EXCEPT ![p] = Append(delivered[p], got)]
    BY <1>5
  <2> QED BY <1>1, <1>7, <2>1, <2>2
<1>13. TypeOK'
  BY <1>2, <1>5, <1>10, <1>11, <1>12 DEF TypeOK, suspendVars
<1>14. ReceiverInv(q)'
  BY SMTT(20), <1>1, <1>5, <1>7, <1>10, <1>11, <1>12, NothingReceived
<1>15. NR[p] = Len(delivered[p])
  <2>1. Len(delivered[p]) + Len(receivedPDUs[p]) = NR[p]
    BY <1>2 DEF ReceiverInv
  <2>2. Len(receivedPDUs[p]) = 0
    BY <1>4
  <2> QED BY <1>7, <2>1, <2>2
<1>16. ReceiverInv(p)'
  <2>1. /\ Len(delivered'[p]) = NR[p] + 1 /\ delivered'[p][NR[p] + 1] = got
        /\ \A k \in 1 .. NR[p] : delivered'[p][k] = delivered[p][k]
    BY <1>7, <1>9, <1>12, <1>15, AppendProperties
  <2>2. \A k \in 1 .. NR[p] : delivered[p][k] = accepted[q][k]
    BY <1>2, <1>15 DEF ReceiverInv, q
  <2>3. ASSUME NEW k \in 1 .. Len(delivered'[p]) PROVE delivered'[p][k] = accepted[q][k]
    <3>1. k \in 1 .. NR[p] \/ k = NR[p] + 1
      BY <1>7, <2>1
    <3> QED BY <1>9, <2>1, <2>2, <3>1
  <2>4. receivedPDUs'[p] = << >> /\ ~delayingDelivery'[p] /\ Len(receivedPDUs'[p]) = 0
    BY <1>3, <1>4, <1>5
  <2>5. /\ NR'[p] <= Len(accepted'[q])
        /\ Len(delivered'[p]) + Len(receivedPDUs'[p]) = NR'[p]
        /\ Len(receivedPDUs'[p]) <= windowSize
    BY <1>7, <1>9, <1>10, <1>11, <2>1, <2>4, GoBackNAssumption
  <2>6. \A i \in 1 .. Len(receivedPDUs'[p]) : FALSE
    BY <2>4
  <2> QED BY <1>11, <2>3, <2>4, <2>5, <2>6 DEF ReceiverInv, q
<1>17. IInv'
  BY <1>1, <1>2, <1>11, <1>13, <1>14, <1>16 DEF IInv, NoFailure
<1> QED BY <1>5, <1>9, <1>11, <1>15, <1>17 DEF q

LEMMA ReceiveDelayedKeeps ==
  ASSUME IInv, NEW p \in Peer, ReceiveDelayed(p)
  PROVE  IInv'
<1> DEFINE q     == Other(p)
           frame == Head(wire[q])
           ack   == [type |-> "ACK", NS |-> frame.NS]
           held  == receivedPDUs[p]
           first == Len(delivered[p])
<1>1. q \in Peer /\ q # p /\ Other(q) = p /\ \A r \in Peer : r = p \/ r = q
  BY PeerFacts
<1>2. TypeOK /\ ReceiverInv(p) /\ ReceiverInv(q) /\ NoFailure
  BY <1>1 DEF IInv
<1>3. /\ wire[q] # << >> /\ frame.type = "I" /\ frame.NS = NR[p] /\ delayingDelivery[p]
      /\ UNCHANGED <<delivered, delayingDelivery, delayedDeliveryNR>>
  BY DEF ReceiveDelayed, Arrives, IsExpected
<1>4. frame \in IFrame /\ Carries(frame, accepted[q])
  BY <1>3, TakenKeeps
<1>5. /\ NR[p] \in Nat /\ NR \in [Peer -> Nat] /\ accepted[q] \in Seq(SDU)
      /\ held \in Seq(IFrame) /\ receivedPDUs \in [Peer -> Seq(IFrame)]
      /\ Len(accepted[q]) \in Nat /\ Len(accepted[p]) \in Nat /\ first \in Nat /\ Len(held) \in Nat
  BY <1>1, <1>2, PeerTypes DEF TypeOK
<1>6. /\ first + Len(held) = NR[p] /\ delayedDeliveryNR[p] = first
      /\ NR[p] < Len(accepted[q]) /\ frame.sdu = accepted[q][NR[p] + 1]
  <2>1. first + Len(held) = NR[p] /\ delayedDeliveryNR[p] = first
    BY <1>2, <1>3 DEF ReceiverInv
  <2> QED BY <1>3, <1>4, <2>1 DEF Carries
<1>7. CASE InDelayWindow(p, frame.NS)
  <2>1. /\ receivedPDUs' = [receivedPDUs EXCEPT ![p] = Append(@, frame)]
        /\ NR' = [NR EXCEPT ![p] = @ + 1]
        /\ Answer(p, <<ack>>)
    BY <1>7 DEF ReceiveDelayed
  <2>2. ack \in AckFrame /\ Count(ack) = NR[p] + 1
    BY <1>3, <1>5 DEF AckFrame, Count
  <2>3. Len(held) < windowSize
    BY <1>3, <1>5, <1>6, <1>7, GoBackNAssumption DEF InDelayWindow
  <2> HIDE DEF ack, q, frame, held, first
  <2>4. NR'[p] = NR[p] + 1 /\ NR' \in [Peer -> Nat] /\ \A r \in Peer : r # p => NR'[r] = NR[r]
    <3>1. NR[p] + 1 \in Nat /\ NR' = [NR EXCEPT ![p] = NR[p] + 1]
      BY <1>5, <2>1
    <3> QED BY <1>5, <3>1
  <2>5. /\ wire' \in [Peer -> Seq(Frame)] /\ ackPDUs' \in [Peer -> Seq(AckFrame)]
        /\ sentPDUs' \in [Peer -> Seq(IFrame)] /\ toRetransmit' \in [Peer -> Seq(IFrame)]
        /\ timeoutSet' \in [Peer -> BOOLEAN] /\ sendNow' \in [Peer -> BOOLEAN]
        /\ activeCompound' \in [Peer -> IFrame \cup {NoCompound}]
        /\ UNCHANGED <<NS, LA, suspendVars, accepted, failure>>
        /\ \A r \in Peer : SenderInv(r)' /\ WireInv(r)' /\ RepliesInv(r)'
    <3>1. <<ack>> \in Seq(AckFrame) /\ NR'[p] \in Nat /\ NR[p] <= NR'[p]
      BY <1>5, <2>2, <2>4
    <3>2. Count(ack) = NR'[p]
      BY <2>2, <2>4
    <3> QED BY <1>3, <2>1, <2>2, <2>4, <3>1, <3>2, AnswerKeeps DEF q
  <2>6. /\ receivedPDUs' \in [Peer -> Seq(IFrame)] /\ receivedPDUs'[p] = Append(held, frame)
        /\ receivedPDUs'[q] = receivedPDUs[q]
    <3>1. Append(held, frame) \in Seq(IFrame)
      BY <1>4, <1>5, AppendProperties
    <3>2. receivedPDUs' = [receivedPDUs EXCEPT ![p] = Append(held, frame)]
      BY <2>1 DEF held
    <3> QED BY <1>1, <1>5, <3>1, <3>2
  <2>7. TypeOK'
    BY <1>2, <1>3, <2>4, <2>5, <2>6 DEF TypeOK, suspendVars
  <2>8. ReceiverInv(q)'
    BY SMTT(20), <1>1, <1>3, <1>5, <2>4, <2>5, <2>6, NothingReceived
  <2>9. ReceiverInv(p)'
    <3>1. /\ Len(receivedPDUs'[p]) = Len(held) + 1
          /\ receivedPDUs'[p][Len(held) + 1] = frame
          /\ \A i \in 1 .. Len(held) : receivedPDUs'[p][i] = held[i]
      BY <1>4, <1>5, <2>6, AppendProperties
    <3>2. \A i \in 1 .. Len(held) : /\ held[i].NS = first + i - 1
                                    /\ held[i].sdu = accepted[q][first + i]
      BY <1>2 DEF ReceiverInv, held, first, q
    <3>3. ASSUME NEW i \in 1 .. Len(receivedPDUs'[p])
          PROVE  /\ receivedPDUs'[p][i].NS = first + i - 1
                 /\ receivedPDUs'[p][i].sdu = accepted[q][first + i]
      <4>1. CASE i \in 1 .. Len(held)
        BY <3>1, <3>2, <4>1
      <4>2. CASE i \notin 1 .. Len(held)
        <5>1. i = Len(held) + 1
          BY <1>5, <3>1, <4>2
        <5>2. first + i - 1 = NR[p] /\ first + i = NR[p] + 1
          BY <1>5, <1>6, <5>1
        <5> QED BY <1>3, <1>6, <3>1, <5>1, <5>2
      <4> QED BY <4>1, <4>2
    <3>4. /\ NR'[p] <= Len(accepted'[q])
          /\ first + Len(receivedPDUs'[p]) = NR'[p]
          /\ Len(receivedPDUs'[p]) <= windowSize
      <4>1. NR[p] + 1 <= Len(accepted[q]) /\ accepted'[q] = accepted[q]
        BY <1>5, <1>6, <2>5
      <4>2. Len(held) + 1 <= windowSize
        BY <1>5, <2>3, GoBackNAssumption
      <4>3. first + (Len(held) + 1) = NR[p] + 1
        BY <1>5, <1>6
      <4> QED BY <2>4, <3>1, <4>1, <4>2, <4>3
    <3>5. Len(delivered'[p]) = first /\ accepted' = accepted /\ delivered' = delivered
      BY <1>3, <2>5 DEF first
    <3>6. \A k \in 1 .. Len(delivered'[p]) : delivered'[p][k] = accepted'[q][k]
      BY <1>2, <3>5 DEF ReceiverInv, q
    <3>7. delayingDelivery'[p] /\ delayedDeliveryNR'[p] = first
      BY <1>3, <1>6
    <3> QED BY <3>3, <3>4, <3>5, <3>6, <3>7 DEF ReceiverInv, q
  <2> QED BY <1>1, <1>2, <2>5, <2>7, <2>8, <2>9 DEF IInv, NoFailure
<1>8. CASE ~InDelayWindow(p, frame.NS)
  <2>1. Answer(p, << >>) /\ UNCHANGED <<receivedPDUs, NR>>
    BY <1>8 DEF ReceiveDelayed
  <2> HIDE DEF q, frame, held, first, ack
  <2>2. /\ wire' \in [Peer -> Seq(Frame)] /\ ackPDUs' \in [Peer -> Seq(AckFrame)]
        /\ sentPDUs' \in [Peer -> Seq(IFrame)] /\ toRetransmit' \in [Peer -> Seq(IFrame)]
        /\ timeoutSet' \in [Peer -> BOOLEAN] /\ sendNow' \in [Peer -> BOOLEAN]
        /\ activeCompound' \in [Peer -> IFrame \cup {NoCompound}]
        /\ UNCHANGED <<NS, LA, suspendVars, accepted, failure>>
        /\ \A r \in Peer : SenderInv(r)' /\ WireInv(r)' /\ RepliesInv(r)'
    <3>1. << >> \in Seq(AckFrame) /\ NR'[p] \in Nat /\ NR[p] <= NR'[p]
      BY <1>5, <2>1
    <3> QED BY <1>3, <2>1, <3>1, AnswerKeeps DEF q
  <2>3. TypeOK'
    BY <1>2, <1>3, <2>1, <2>2 DEF TypeOK, suspendVars
  <2>4. ReceiverInv(p)' /\ ReceiverInv(q)'
    BY SMTT(20), <1>1, <1>3, <1>5, <2>1, <2>2, NothingReceived DEF q
  <2> QED BY <1>1, <1>2, <2>2, <2>3, <2>4 DEF IInv, NoFailure
<1> QED BY <1>7, <1>8

LEMMA ReceiveOutOfSequenceKeeps ==
  ASSUME IInv, NEW p \in Peer, ReceiveOutOfSequence(p)
  PROVE  IInv'
<1> DEFINE q      == Other(p)
           nak    == [type |-> "NAK", NS |-> NR[p]]
           answer == IF ~delayingDelivery[p] \/ InDelayWindow(p, Head(wire[q]).NS)
                     THEN <<nak>> ELSE << >>
<1>1. q \in Peer /\ q # p /\ Other(q) = p /\ \A r \in Peer : r = p \/ r = q
  BY PeerFacts
<1>2. TypeOK /\ NoFailure
  BY DEF IInv
<1>3. wire[q] # << >> /\ Answer(p, answer) /\ UNCHANGED <<receiverVars, delivered>>
  BY DEF ReceiveOutOfSequence, Arrives
<1>4. /\ NR[p] \in Nat /\ Len(accepted[q]) \in Nat /\ Len(accepted[p]) \in Nat
  BY <1>1, <1>2, PeerTypes
<1>5. nak \in AckFrame /\ Count(nak) = NR[p]
  BY <1>4 DEF AckFrame, Count
<1> HIDE DEF nak
<1>6. answer \in Seq(AckFrame) /\ (answer = << >> \/ answer = <<nak>>)
  BY <1>5
<1> HIDE DEF answer, q
<1>7. NR' = NR
  BY <1>3 DEF receiverVars
<1>8. /\ wire' \in [Peer -> Seq(Frame)] /\ ackPDUs' \in [Peer -> Seq(AckFrame)]
      /\ sentPDUs' \in [Peer -> Seq(IFrame)] /\ toRetransmit' \in [Peer -> Seq(IFrame)]
      /\ timeoutSet' \in [Peer -> BOOLEAN] /\ sendNow' \in [Peer -> BOOLEAN]
      /\ activeCompound' \in [Peer -> IFrame \cup {NoCompound}]
      /\ UNCHANGED <<NS, LA, suspendVars, accepted, failure>>
      /\ \A r \in Peer : SenderInv(r)' /\ WireInv(r)' /\ RepliesInv(r)'
  <2>1. NR'[p] \in Nat /\ NR[p] <= NR'[p]
    BY <1>4, <1>7
  <2>2. answer = << >> \/ \E x \in AckFrame : answer = <<x>> /\ Count(x) = NR'[p]
    BY <1>5, <1>6, <1>7
  <2> QED BY <1>3, <1>6, <1>7, <2>1, <2>2, AnswerKeeps DEF q
<1>9. TypeOK'
  BY <1>2, <1>3, <1>8 DEF TypeOK, suspendVars, receiverVars
<1>10. ReceiverInv(p)' /\ ReceiverInv(q)'
  BY <1>1, <1>3, <1>4, <1>8, NothingReceived DEF q, receiverVars
<1> QED BY <1>1, <1>2, <1>8, <1>9, <1>10 DEF IInv, NoFailure

LEMMA ReceiveACKKeeps ==
  ASSUME IInv, NEW p \in Peer, ReceiveACK(p), failure' = failure
  PROVE  IInv'
<1> DEFINE q     == Other(p)
           frame == Head(wire[q])
           acked == frame.NS
           la    == IF acked >= LA[p] THEN acked + 1 ELSE LA[p]
           v     == WithoutACKed(p, acked)
           u     == TimerIfSent(v)
           wires == Taken(p)
<1>1. q \in Peer /\ q # p /\ Other(q) = p /\ \A r \in Peer : r = p \/ r = q
  BY PeerFacts
<1>2. TypeOK /\ SenderInv(p) /\ RepliesInv(p) /\ NoFailure
  BY <1>1 DEF IInv
<1>3. /\ wire[q] # << >> /\ frame.type = "ACK" /\ LA' = [LA EXCEPT ![p] = la]
      /\ IF acked >= LA[p] THEN trySuspend(p, la) ELSE UNCHANGED suspended
      /\ TryToSend(p, u, wires)
      /\ UNCHANGED <<NS, receiverVars, suspending, userVars, failure>>
  BY DEF ReceiveACK, Arrives
<1>4. /\ frame \in AckFrame /\ LA[p] <= Count(frame) /\ Count(frame) <= NR[q]
      /\ Replies(wires[q] \o ackPDUs[q], Count(frame), NR[q])
      /\ wires \in [Peer -> Seq(Frame)] /\ wires[p] = wire[p]
      /\ \A r \in Peer : Len(wires[r]) <= WireCap /\ AllCarry(wires[r], accepted[r])
  BY <1>3, TakenKeeps
<1>5. /\ NR[q] \in Nat /\ LA[p] \in Nat /\ Len(accepted[q]) \in Nat /\ Len(accepted[p]) \in Nat
      /\ acked \in Nat /\ NS[p] = Len(accepted[p])
  BY <1>1, <1>2, <1>4, PeerTypes, FrameShape DEF SenderInv
<1>6. la = Count(frame) /\ la \in Nat /\ la > acked /\ la >= LA[p]
  BY SMTT(20), <1>3, <1>4, <1>5 DEF Count
<1>7. /\ v \in MembersType /\ v.acks = ackPDUs[p]
      /\ v.now <=> v.active # NoCompound
      /\ Distinct(KeptBy(v)) /\ AllCarry(KeptBy(v), accepted[p])
      /\ \A m \in la .. Len(accepted[p]) - 1 : Has(KeptBy(v), m)
      /\ v.sent # << >> => v.timer
  <2> HIDE DEF la, acked
  <2>1. acked \in Int
    BY <1>5
  <2> QED BY <1>6, <2>1, WithoutACKedKeeps
<1> HIDE DEF v
<1>8. /\ u \in MembersType /\ u.acks = ackPDUs[p] /\ u.now = v.now /\ u.active = v.active
      /\ u.sent = v.sent /\ u.again = v.again /\ u.timer = (v.timer /\ v.sent # << >>)
  BY <1>7 DEF TimerIfSent, MembersType
<1> HIDE DEF u, q, wires
<1>9. Sound(u, accepted[p], la)
  <2>1. KeptBy(u) = KeptBy(v)
    BY <1>8 DEF KeptBy, Active
  <2> QED BY <1>7, <1>8, <2>1 DEF Sound
<1> HIDE DEF la
<1>10. LA'[p] = la /\ LA' \in [Peer -> Nat] /\ \A r \in Peer : r # p => LA'[r] = LA[r]
  BY <1>2, <1>3, <1>6 DEF TypeOK
<1>11. NS' = NS /\ NR' = NR /\ accepted' = accepted /\ delivered' = delivered
  BY <1>3 DEF receiverVars, userVars
<1>12. /\ wire' \in [Peer -> Seq(Frame)] /\ ackPDUs' \in [Peer -> Seq(AckFrame)]
       /\ sentPDUs' \in [Peer -> Seq(IFrame)] /\ toRetransmit' \in [Peer -> Seq(IFrame)]
       /\ timeoutSet' \in [Peer -> BOOLEAN] /\ sendNow' \in [Peer -> BOOLEAN]
       /\ activeCompound' \in [Peer -> IFrame \cup {NoCompound}]
       /\ \A r \in Peer : SenderInv(r)' /\ WireInv(r)' /\ RepliesInv(r)'
  <2>1. NS'[p] = Len(accepted'[p]) /\ Sound(u, accepted'[p], LA'[p])
    BY <1>5, <1>9, <1>10, <1>11
  <2>2. LA[q] <= NR'[p] /\ Replies(wires[p] \o u.acks, LA[q], NR'[p])
    BY <1>2, <1>4, <1>8, <1>11 DEF RepliesInv, q
  <2>3. LA'[p] <= NR[q] /\ Replies(wires[q] \o ackPDUs[q], LA'[p], NR[q])
    BY <1>4, <1>6, <1>10
  <2> QED BY <1>3, <1>4, <1>8, <1>10, <1>11, <2>1, <2>2, <2>3, SendingKeeps DEF q
<1>13. suspended' \in [Peer -> BOOLEAN]
  <2>1. CASE acked >= LA[p]
    BY <1>2, <1>3, <2>1 DEF trySuspend, TypeOK
  <2>2. CASE ~(acked >= LA[p])
    BY <1>2, <1>3, <2>2 DEF TypeOK
  <2> QED BY <2>1, <2>2
<1>14. TypeOK'
  BY <1>2, <1>3, <1>10, <1>12, <1>13 DEF TypeOK, userVars, receiverVars
<1>15. ReceiverInv(p)' /\ ReceiverInv(q)'
  BY <1>1, <1>3, <1>5, <1>11, NothingReceived DEF q, receiverVars
<1> QED BY <1>1, <1>2, <1>12, <1>14, <1>15 DEF IInv, NoFailure

LEMMA ReceiveNAKKeeps ==
  ASSUME IInv, NEW p \in Peer, ReceiveNAK(p)
  PROVE  IInv'
<1> DEFINE q       == Other(p)
           frame   == Head(wire[q])
           missing == frame.NS
           v       == WithoutACKed(p, missing - 1)
           w       == Prepared(v)
           u       == TimerIfSent(w)
           wires   == Taken(p)
<1>1. q \in Peer /\ q # p /\ Other(q) = p /\ \A r \in Peer : r = p \/ r = q
  BY PeerFacts
<1>2. TypeOK /\ SenderInv(p) /\ RepliesInv(p) /\ NoFailure
  BY <1>1 DEF IInv
<1>3. wire[q] # << >> /\ frame.type = "NAK"
  BY DEF ReceiveNAK, Arrives
<1>4. /\ frame \in AckFrame /\ LA[p] <= Count(frame) /\ Count(frame) <= NR[q]
      /\ Replies(wires[q] \o ackPDUs[q], Count(frame), NR[q])
      /\ wires \in [Peer -> Seq(Frame)] /\ wires[p] = wire[p]
      /\ \A r \in Peer : Len(wires[r]) <= WireCap /\ AllCarry(wires[r], accepted[r])
  BY <1>3, TakenKeeps
<1>5. /\ NR[q] \in Nat /\ LA[p] \in Nat /\ Len(accepted[q]) \in Nat /\ Len(accepted[p]) \in Nat
      /\ missing \in Nat /\ NS[p] = Len(accepted[p])
  BY <1>1, <1>2, <1>4, PeerTypes, FrameShape DEF SenderInv
<1>6. missing = Count(frame) /\ ~(missing < LA[p])
  BY <1>3, <1>4, <1>5 DEF Count
<1>7. /\ LA' = [LA EXCEPT ![p] = missing]
      /\ TryToSend(p, u, wires)
      /\ UNCHANGED <<NS, receiverVars, suspendVars, userVars, failure>>
  BY <1>6 DEF ReceiveNAK
<1>8. /\ v \in MembersType /\ v.acks = ackPDUs[p]
      /\ v.now <=> v.active # NoCompound
      /\ Distinct(KeptBy(v)) /\ AllCarry(KeptBy(v), accepted[p])
      /\ \A m \in missing .. Len(accepted[p]) - 1 : Has(KeptBy(v), m)
  <2>1. missing - 1 \in Int /\ missing \in Nat /\ missing >= LA[p] /\ missing > missing - 1
    BY <1>5, <1>6
  <2> HIDE DEF missing
  <2> QED BY <2>1, WithoutACKedKeeps
<1> HIDE DEF v
<1> DEFINE x == [v EXCEPT !.timer = FALSE]
<1>9. /\ x \in MembersType /\ x.acks = ackPDUs[p] /\ x.active = v.active /\ x.now = v.now
      /\ x.sent = v.sent /\ x.again = v.again /\ ~x.timer
  BY <1>8 DEF MembersType
<1>10. KeptBy(x) = KeptBy(v)
  <2> HIDE DEF x
  <2> QED BY <1>9 DEF KeptBy, Active
<1>11. u = Prepared(x) /\ u.acks = ackPDUs[p] /\ ~u.timer
  BY <1>8 DEF Prepared, TimerIfSent, MembersType
<1> HIDE DEF u, q, wires, x
<1>12. u \in MembersType /\ Sound(u, accepted[p], missing)
  <2>1. /\ x.now <=> x.active # NoCompound
        /\ Distinct(KeptBy(x)) /\ AllCarry(KeptBy(x), accepted[p])
        /\ \A m \in missing .. Len(accepted[p]) - 1 : Has(KeptBy(x), m)
    BY <1>8, <1>9, <1>10
  <2> HIDE DEF missing
  <2> QED BY <1>9, <1>11, <2>1, PreparedKeeps
<1> HIDE DEF missing
<1>13. LA'[p] = missing /\ LA' \in [Peer -> Nat] /\ \A r \in Peer : r # p => LA'[r] = LA[r]
  BY <1>2, <1>5, <1>7 DEF TypeOK
<1>14. NS' = NS /\ NR' = NR /\ accepted' = accepted /\ delivered' = delivered
  BY <1>7 DEF receiverVars, userVars
<1>15. /\ wire' \in [Peer -> Seq(Frame)] /\ ackPDUs' \in [Peer -> Seq(AckFrame)]
       /\ sentPDUs' \in [Peer -> Seq(IFrame)] /\ toRetransmit' \in [Peer -> Seq(IFrame)]
       /\ timeoutSet' \in [Peer -> BOOLEAN] /\ sendNow' \in [Peer -> BOOLEAN]
       /\ activeCompound' \in [Peer -> IFrame \cup {NoCompound}]
       /\ \A r \in Peer : SenderInv(r)' /\ WireInv(r)' /\ RepliesInv(r)'
  <2>1. NS'[p] = Len(accepted'[p]) /\ Sound(u, accepted'[p], LA'[p])
    BY <1>5, <1>12, <1>13, <1>14
  <2>2. LA[q] <= NR'[p] /\ Replies(wires[p] \o u.acks, LA[q], NR'[p])
    BY <1>2, <1>4, <1>11, <1>14 DEF RepliesInv, q
  <2>3. LA'[p] <= NR[q] /\ Replies(wires[q] \o ackPDUs[q], LA'[p], NR[q])
    BY <1>4, <1>6, <1>13
  <2> QED BY <1>4, <1>7, <1>12, <1>13, <1>14, <2>1, <2>2, <2>3, SendingKeeps DEF q
<1>16. TypeOK'
  BY <1>2, <1>7, <1>13, <1>15 DEF TypeOK, userVars, receiverVars, suspendVars
<1>17. ReceiverInv(p)' /\ ReceiverInv(q)'
  BY <1>1, <1>5, <1>7, <1>14, NothingReceived DEF q, receiverVars
<1> QED BY <1>1, <1>2, <1>7, <1>15, <1>16, <1>17 DEF IInv, NoFailure

(* The steps that leave the frames of both directions alone.               *)
LEMMA NothingSent ==
  ASSUME IInv, UNCHANGED <<senderVars, NR, ackPDUs, wire, accepted>>
  PROVE  \A r \in Peer : SenderInv(r)' /\ WireInv(r)' /\ RepliesInv(r)'
<1> SUFFICES ASSUME NEW r \in Peer PROVE SenderInv(r)' /\ WireInv(r)' /\ RepliesInv(r)'
  OBVIOUS
<1>1. SenderInv(r) /\ WireInv(r) /\ RepliesInv(r)
  BY DEF IInv
<1>2. /\ NS' = NS /\ LA' = LA /\ NR' = NR /\ ackPDUs' = ackPDUs /\ wire' = wire
      /\ accepted' = accepted /\ Members(r)' = Members(r)
  BY DEF senderVars, Members
<1>3. SenderInv(r)'
  BY <1>1, <1>2 DEF SenderInv
<1> QED BY <1>1, <1>2, <1>3 DEF WireInv, RepliesInv

LEMMA DelayDeliveryKeeps ==
  ASSUME IInv, NEW p \in Peer, DelayDelivery(p), failure' = failure
  PROVE  IInv'
<1> DEFINE q == Other(p)
<1>1. q \in Peer /\ q # p /\ Other(q) = p /\ \A r \in Peer : r = p \/ r = q
  BY PeerFacts
<1>2. /\ TypeOK /\ ReceiverInv(p) /\ ReceiverInv(q) /\ NoFailure /\ NR[p] \in Nat
      /\ Len(accepted[q]) \in Nat /\ Len(accepted[p]) \in Nat /\ Len(delivered[p]) \in Nat
  BY <1>1, PeerTypes DEF IInv
<1>3. /\ ~delayingDelivery[p]
      /\ delayingDelivery' = [delayingDelivery EXCEPT ![p] = TRUE]
      /\ delayedDeliveryNR' = [delayedDeliveryNR EXCEPT ![p] = NR[p]]
      /\ UNCHANGED <<senderVars, NR, receivedPDUs, ackPDUs, suspendVars, wire, userVars, failure>>
  BY DEF DelayDelivery
<1>4. \A r \in Peer : SenderInv(r)' /\ WireInv(r)' /\ RepliesInv(r)'
  BY <1>3, NothingSent DEF userVars
<1>5. TypeOK'
  BY <1>2, <1>3 DEF TypeOK, senderVars, suspendVars, userVars
<1>6. ReceiverInv(q)'
  <2>1. delayingDelivery'[q] = delayingDelivery[q] /\ delayedDeliveryNR'[q] = delayedDeliveryNR[q]
    BY <1>1, <1>2, <1>3 DEF TypeOK
  <2>2. /\ NR' = NR /\ receivedPDUs' = receivedPDUs
        /\ accepted' = accepted /\ delivered' = delivered
    BY <1>3 DEF userVars
  <2> HIDE DEF q
  <2> QED BY <1>1, <1>2, <2>1, <2>2, NothingReceived
<1>7. ReceiverInv(p)'
  <2>1. receivedPDUs[p] = << >>
    BY <1>2, <1>3 DEF ReceiverInv
  <2>2. NR[p] = Len(delivered[p])
    <3>1. Len(delivered[p]) + Len(receivedPDUs[p]) = NR[p]
      BY <1>2 DEF ReceiverInv
    <3>2. Len(receivedPDUs[p]) = 0
      BY <2>1
    <3> QED BY <1>2, <3>1, <3>2
  <2>3. delayingDelivery'[p] /\ delayedDeliveryNR'[p] = Len(delivered[p])
    BY <1>2, <1>3, <2>2 DEF TypeOK
  <2> QED BY <1>2, <1>3, <2>3 DEF ReceiverInv, userVars
<1> QED BY <1>1, <1>2, <1>3, <1>4, <1>5, <1>6, <1>7 DEF IInv, NoFailure

LEMMA DeliverDelayedKeeps ==
  ASSUME IInv, NEW p \in Peer, DeliverDelayed(p)
  PROVE  /\ IInv'
         /\ accepted' = accepted
         /\ \A r \in Peer : r # p => delivered'[r] = delivered[r]
         /\ delivered' \in [Peer -> Seq(SDU)]
         /\ Len(delivered'[p]) = Len(delivered[p]) + Len(receivedPDUs[p])
<1> DEFINE q    == Other(p)
           held == receivedPDUs[p]
           sdus == [i \in 1 .. Len(held) |-> held[i].sdu]
           done == delivered[p]
<1>1. q \in Peer /\ q # p /\ Other(q) = p /\ \A r \in Peer : r = p \/ r = q
  BY PeerFacts
<1>2. /\ TypeOK /\ ReceiverInv(p) /\ ReceiverInv(q) /\ NoFailure /\ NR[p] \in Nat
      /\ Len(accepted[q]) \in Nat /\ Len(accepted[p]) \in Nat /\ Len(done) \in Nat
      /\ held \in Seq(IFrame) /\ Len(held) \in Nat /\ done \in Seq(SDU)
  BY <1>1, PeerTypes DEF IInv
<1>3. /\ delayingDelivery[p] /\ delayedDeliveryNR[p] = Len(done)
      /\ UNCHANGED <<senderVars, ackPDUs, suspendVars, wire, accepted>>
  BY <1>2 DEF DeliverDelayed, ReceiverInv
<1>4. /\ Len(done) + Len(held) = NR[p] /\ NR[p] <= Len(accepted[q])
      /\ \A i \in 1 .. Len(held) : held[i].NS = Len(done) + i - 1
      /\ \A i \in 1 .. Len(held) : held[i].sdu = accepted[q][Len(done) + i]
      /\ \A k \in 1 .. Len(done) : done[k] = accepted[q][k]
  BY <1>2, Zenon DEF ReceiverInv
<1>5. ~\E i \in 1 .. Len(held) : held[i].NS # delayedDeliveryNR[p] + i - 1
  BY <1>3, <1>4
<1>6. /\ delivered' = [delivered EXCEPT ![p] = @ \o sdus]
      /\ receivedPDUs' = [receivedPDUs EXCEPT ![p] = << >>]
      /\ delayedDeliveryNR' = [delayedDeliveryNR EXCEPT ![p] = @ + Len(held)]
      /\ delayingDelivery' = [delayingDelivery EXCEPT ![p] = FALSE]
      /\ UNCHANGED <<NR, failure>>
  BY <1>5 DEF DeliverDelayed
<1>7. /\ sdus \in Seq(SDU) /\ Len(sdus) = Len(held)
      /\ \A i \in 1 .. Len(held) : sdus[i] = held[i].sdu
  <2>1. \A i \in 1 .. Len(held) : held[i].sdu \in SDU
    BY <1>2, FrameShape, ElementOfSeq
  <2> HIDE DEF held
  <2> QED BY <1>2, <2>1
<1> HIDE DEF sdus, q, held, done
<1>8. /\ done \o sdus \in Seq(SDU) /\ Len(done \o sdus) = Len(done) + Len(held)
      /\ \A k \in 1 .. Len(done) : (done \o sdus)[k] = done[k]
      /\ \A i \in 1 .. Len(held) : (done \o sdus)[Len(done) + i] = sdus[i]
      /\ \A k \in 1 .. Len(done \o sdus) :
            k \in 1 .. Len(done) \/ \E i \in 1 .. Len(held) : k = Len(done) + i
  <2>1. done \in Seq(SDU) /\ sdus \in Seq(SDU) /\ Len(sdus) = Len(held)
    BY <1>2, <1>7
  <2>2. done \o sdus \in Seq(SDU) /\ Len(done \o sdus) = Len(done) + Len(sdus)
    BY <2>1, ConcatProperties
  <2>3. /\ \A k \in 1 .. Len(done) : (done \o sdus)[k] = done[k]
        /\ \A i \in 1 .. Len(sdus) : (done \o sdus)[Len(done) + i] = sdus[i]
        /\ \A k \in 1 .. Len(done \o sdus) :
              k \in 1 .. Len(done) \/ \E i \in 1 .. Len(sdus) : k = Len(done) + i
    <3>1. \A k \in 1 .. Len(done) : (done \o sdus)[k] = done[k]
      BY <2>1, ConcatPlaces
    <3>2. \A i \in 1 .. Len(sdus) : (done \o sdus)[Len(done) + i] = sdus[i]
      BY <2>1, ConcatPlaces
    <3>3. \A k \in 1 .. Len(done \o sdus) :
              k \in 1 .. Len(done) \/ \E i \in 1 .. Len(sdus) : k = Len(done) + i
      BY <2>1, ConcatPlaces
    <3> QED BY <3>1, <3>2, <3>3
  <2> QED BY <2>1, <2>2, <2>3
<1>9. /\ delivered' \in [Peer -> Seq(SDU)] /\ delivered'[p] = done \o sdus
      /\ \A r \in Peer : r # p => delivered'[r] = delivered[r]
  BY <1>2, <1>6, <1>8 DEF TypeOK, done
<1>10. \A r \in Peer : SenderInv(r)' /\ WireInv(r)' /\ RepliesInv(r)'
  BY <1>3, <1>6, NothingSent
<1>11. /\ receivedPDUs' \in [Peer -> Seq(IFrame)] /\ receivedPDUs'[p] = << >>
       /\ delayedDeliveryNR' \in [Peer -> Nat] /\ delayingDelivery' \in [Peer -> BOOLEAN]
       /\ ~delayingDelivery'[p]
       /\ \A r \in Peer : r # p => /\ receivedPDUs'[r] = receivedPDUs[r]
                                   /\ delayedDeliveryNR'[r] = delayedDeliveryNR[r]
                                   /\ delayingDelivery'[r] = delayingDelivery[r]
  <2>1. delayedDeliveryNR[p] + Len(held) \in Nat
    BY <1>2, <1>3
  <2>2. delayedDeliveryNR' = [delayedDeliveryNR EXCEPT ![p] = delayedDeliveryNR[p] + Len(held)]
    BY <1>6
  <2>3. << >> \in Seq(IFrame)
    OBVIOUS
  <2> QED BY ZenonT(30), <1>2, <1>6, <2>1, <2>2, <2>3 DEF TypeOK
<1>12. TypeOK'
  BY <1>2, <1>3, <1>6, <1>9, <1>11 DEF TypeOK, senderVars, suspendVars
<1>13. ReceiverInv(q)'
  <2>1. /\ NR' = NR /\ accepted' = accepted /\ delivered'[q] = delivered[q]
        /\ receivedPDUs'[q] = receivedPDUs[q]
        /\ delayedDeliveryNR'[q] = delayedDeliveryNR[q]
        /\ delayingDelivery'[q] = delayingDelivery[q]
    BY <1>1, <1>3, <1>6, <1>9, <1>11
  <2> QED BY <1>1, <1>2, <2>1, NothingReceived
<1>14. ReceiverInv(p)'
  <2>1. Len(receivedPDUs'[p]) = 0 /\ \A i \in 1 .. Len(receivedPDUs'[p]) : FALSE
    BY <1>11
  <2>2. ASSUME NEW k \in 1 .. Len(done \o sdus) PROVE (done \o sdus)[k] = accepted[q][k]
    <3>1. CASE k \in 1 .. Len(done)
      BY <1>4, <1>8, <3>1
    <3>2. CASE k \notin 1 .. Len(done)
      <4>1. PICK i \in 1 .. Len(held) : k = Len(done) + i
        BY <1>8, <3>2
      <4>2. (done \o sdus)[k] = held[i].sdu
        BY <1>7, <1>8, <4>1
      <4> QED BY <1>4, <4>1, <4>2
    <3> QED BY <3>1, <3>2
  <2>3. /\ NR'[p] <= Len(accepted'[q])
        /\ Len(delivered'[p]) + Len(receivedPDUs'[p]) = NR'[p]
        /\ Len(receivedPDUs'[p]) <= windowSize
    <3>1. NR' = NR /\ accepted' = accepted /\ Len(delivered'[p]) = Len(done) + Len(held)
      BY <1>3, <1>6, <1>8, <1>9
    <3>2. Len(done) + Len(held) = NR[p] /\ NR[p] <= Len(accepted[q])
      BY <1>4
    <3> QED BY <1>2, <2>1, <3>1, <3>2, GoBackNAssumption
  <2>4. \A k \in 1 .. Len(delivered'[p]) : delivered'[p][k] = accepted'[q][k]
    BY <1>3, <1>9, <2>2
  <2> QED BY <1>11, <2>1, <2>3, <2>4 DEF ReceiverInv, q
<1>15. IInv'
  BY <1>1, <1>2, <1>6, <1>10, <1>12, <1>13, <1>14 DEF IInv, NoFailure
<1> QED BY <1>3, <1>8, <1>9, <1>15 DEF held, done

LEMMA SuspendKeeps ==
  ASSUME IInv, NEW p \in Peer, Suspend(p), failure' = failure
  PROVE  IInv'
<1>1. /\ suspending' = [suspending EXCEPT ![p] = TRUE]
      /\ suspended' = [suspended EXCEPT ![p] = onSuspend(p, LA[p])]
      /\ UNCHANGED <<senderVars, receiverVars, ackPDUs, wire, userVars, failure>>
  BY DEF Suspend
<1>2. TypeOK /\ NoFailure
  BY DEF IInv
<1>3. \A r \in Peer : SenderInv(r)' /\ WireInv(r)' /\ RepliesInv(r)'
  BY <1>1, NothingSent DEF receiverVars, userVars
<1>4. onSuspend(p, LA[p]) \in BOOLEAN
  BY DEF onSuspend
<1>5. TypeOK'
  BY <1>1, <1>2, <1>4 DEF TypeOK, senderVars, receiverVars, userVars
<1>6. ASSUME NEW r \in Peer PROVE ReceiverInv(r)'
  <2>1. Len(accepted[Other(r)]) \in Nat
    BY <1>2, PeerFacts, PeerTypes
  <2> QED BY <1>1, <2>1, NothingReceived DEF receiverVars, userVars
<1> QED BY <1>1, <1>2, <1>3, <1>5, <1>6 DEF IInv, NoFailure

LEMMA LoseKeeps ==
  ASSUME IInv, NEW p \in Peer, Lose(p), failure' = failure
  PROVE  IInv'
<1> DEFINE q == Other(p)
<1>1. q \in Peer /\ q # p /\ Other(q) = p /\ \A r \in Peer : r = p \/ r = q
  BY PeerFacts
<1>2. TypeOK /\ NoFailure /\ \A r \in Peer : SenderInv(r) /\ RepliesInv(r)
  BY DEF IInv
<1>3. /\ wire[p] # << >> /\ wire' = Taken(q)
      /\ UNCHANGED <<senderVars, receiverVars, ackPDUs, suspendVars, userVars, failure>>
  BY <1>1 DEF Lose, Taken
<1>4. /\ wire' \in [Peer -> Seq(Frame)] /\ wire'[q] = wire[q]
      /\ \A r \in Peer : Len(wire'[r]) <= WireCap /\ AllCarry(wire'[r], accepted[r])
      /\ Replies(wire'[p] \o ackPDUs[p], LA[q], NR[p])
  BY <1>1, <1>3, TakenKeeps
<1> HIDE DEF q
<1>5. ASSUME NEW r \in Peer PROVE SenderInv(r)' /\ WireInv(r)' /\ RepliesInv(r)'
  <2>1. /\ NS' = NS /\ LA' = LA /\ NR' = NR /\ ackPDUs' = ackPDUs
        /\ accepted' = accepted /\ Members(r)' = Members(r)
    BY <1>3 DEF senderVars, receiverVars, userVars, Members
  <2>2. SenderInv(r)'
    BY <1>2, <2>1 DEF SenderInv
  <2>3. WireInv(r)'
    BY <1>4, <2>1 DEF WireInv
  <2>4. RepliesInv(r)'
    BY <1>1, <1>2, <1>4, <2>1 DEF RepliesInv, q
  <2> QED BY <2>2, <2>3, <2>4
<1>6. TypeOK'
  BY <1>2, <1>3, <1>4 DEF TypeOK, senderVars, receiverVars, suspendVars, userVars
<1>7. ASSUME NEW r \in Peer PROVE ReceiverInv(r)'
  <2>1. Len(accepted[Other(r)]) \in Nat
    BY <1>2, PeerFacts, PeerTypes
  <2> QED BY <1>3, <2>1, NothingReceived DEF receiverVars, userVars
<1> QED BY <1>2, <1>3, <1>5, <1>6, <1>7 DEF IInv, NoFailure

-------------------------------------------------------------------------------
(* IInv is inductive.                                                      *)

LEMMA InitKeeps == Init => IInv
<1> SUFFICES ASSUME Init PROVE IInv
  OBVIOUS
<1>1. TypeOK /\ NoFailure
  BY DEF Init, TypeOK, NoFailure, Failure
<1>2. ASSUME NEW p \in Peer PROVE SenderInv(p) /\ WireInv(p) /\ RepliesInv(p) /\ ReceiverInv(p)
  <2>1. /\ NS[p] = 0 /\ NR[p] = 0 /\ LA[p] = 0 /\ LA[Other(p)] = 0
        /\ accepted[p] = << >> /\ accepted[Other(p)] = << >> /\ delivered[p] = << >>
        /\ wire[p] = << >> /\ ackPDUs[p] = << >> /\ receivedPDUs[p] = << >>
        /\ sendNow[p] = FALSE /\ timeoutSet[p] = FALSE /\ delayingDelivery[p] = FALSE
        /\ activeCompound[p] = NoCompound /\ sentPDUs[p] = << >> /\ toRetransmit[p] = << >>
    BY PeerFacts DEF Init
  <2>2. << >> \o << >> = << >> /\ Len(<< >>) = 0
    BY ConcatEmptySeq
  <2>3. KeptBy(Members(p)) = << >>
    BY <2>1, <2>2 DEF KeptBy, Active, Members
  <2>4. \A n \in 0 .. 0 - 1 : FALSE
    OBVIOUS
  <2>5. \A acc : AllCarry(<< >>, acc)
    BY Empty DEF AllCarry
  <2>6. Distinct(<< >>) /\ Replies(<< >>, 0, 0)
    BY Empty DEF Replies, Counted
  <2>7. SenderInv(p)
    BY <2>1, <2>2, <2>3, <2>4, <2>5, <2>6 DEF SenderInv, Sound, Members
  <2>8. WireInv(p)
    BY <2>1, <2>2, <2>5, GoBackNAssumption DEF WireInv
  <2>9. RepliesInv(p)
    BY <2>1, <2>2, <2>6 DEF RepliesInv
  <2>10. ReceiverInv(p)
    <3>1. \A i \in 1 .. 0 : FALSE
      OBVIOUS
    <3>2. Len(receivedPDUs[p]) <= windowSize
      BY <2>1, <2>2, GoBackNAssumption
    <3> QED BY <2>1, <2>2, <3>1, <3>2 DEF ReceiverInv
  <2> QED BY <2>7, <2>8, <2>9, <2>10
<1> QED BY <1>1, <1>2 DEF IInv

LEMMA UnchangedKeeps ==
  ASSUME IInv, UNCHANGED vars
  PROVE  IInv'
<1>1. /\ TypeOK /\ NoFailure
      /\ \A r \in Peer : ReceiverInv(r)
  BY DEF IInv
<1>2. /\ UNCHANGED <<senderVars, receiverVars, ackPDUs, suspendVars, wire, userVars, failure>>
  BY DEF vars
<1>3. \A r \in Peer : SenderInv(r)' /\ WireInv(r)' /\ RepliesInv(r)'
  BY <1>2, NothingSent DEF receiverVars, userVars
<1>4. TypeOK'
  BY <1>1, <1>2 DEF TypeOK, senderVars, receiverVars, suspendVars, userVars
<1>5. ASSUME NEW r \in Peer PROVE ReceiverInv(r)'
  BY <1>1, <1>2 DEF ReceiverInv, receiverVars, userVars
<1> QED BY <1>1, <1>2, <1>3, <1>4, <1>5 DEF IInv, NoFailure

LEMMA StepKeeps == IInv /\ [Next]_vars => IInv'
<1>1. ASSUME IInv, Next PROVE IInv'
  <2>1. PICK p \in Peer :
          \/ \E d \in SDU : SendData(p, d)
          \/ OnTimeout(p) \/ Wakeup(p)
          \/ ReceiveExpected(p) \/ ReceiveDelayed(p) \/ ReceiveOutOfSequence(p)
          \/ ReceiveACK(p) \/ ReceiveNAK(p)
          \/ DelayDelivery(p) \/ DeliverDelayed(p)
          \/ Suspend(p) \/ Lose(p)
    BY <1>1 DEF Next
  <2>2. ASSUME NEW d \in SDU, SendData(p, d) PROVE IInv'
    <3>1. failure' = failure
      BY <2>2 DEF SendData
    <3> QED BY <1>1, <2>2, <3>1, SendDataKeeps
  <2>3. CASE OnTimeout(p)
    BY <1>1, <2>3, OnTimeoutKeeps
  <2>4. CASE Wakeup(p)
    BY <1>1, <2>4, WakeupKeeps
  <2>5. CASE ReceiveExpected(p)
    BY <1>1, <2>5, ReceiveExpectedKeeps
  <2>6. CASE ReceiveDelayed(p)
    BY <1>1, <2>6, ReceiveDelayedKeeps
  <2>7. CASE ReceiveOutOfSequence(p)
    BY <1>1, <2>7, ReceiveOutOfSequenceKeeps
  <2>8. CASE ReceiveACK(p)
    <3>1. failure' = failure
      BY <2>8 DEF ReceiveACK
    <3> QED BY <1>1, <2>8, <3>1, ReceiveACKKeeps
  <2>9. CASE ReceiveNAK(p)
    BY <1>1, <2>9, ReceiveNAKKeeps
  <2>10. CASE DelayDelivery(p)
    <3>1. failure' = failure
      BY <2>10 DEF DelayDelivery
    <3> QED BY <1>1, <2>10, <3>1, DelayDeliveryKeeps
  <2>11. CASE DeliverDelayed(p)
    BY <1>1, <2>11, DeliverDelayedKeeps
  <2>12. CASE Suspend(p)
    <3>1. failure' = failure
      BY <2>12 DEF Suspend
    <3> QED BY <1>1, <2>12, <3>1, SuspendKeeps
  <2>13. CASE Lose(p)
    <3>1. failure' = failure
      BY <2>13 DEF Lose
    <3> QED BY <1>1, <2>13, <3>1, LoseKeeps
  <2> QED BY <2>1, <2>2, <2>3, <2>4, <2>5, <2>6, <2>7, <2>8, <2>9, <2>10, <2>11, <2>12, <2>13
<1> QED BY <1>1, UnchangedKeeps

(* In every reachable state of GoBackN every frame is kept where it has to *)
(* be, carries the compound it was made for, and is acknowledged only by a *)
(* receiver that has taken it over.                                        *)
THEOREM Invariant == Spec => []IInv
BY InitKeeps, StepKeeps, PTL DEF Spec

(* The variables of the two peers keep their types.                        *)
THEOREM TypeCorrect == Spec => []TypeOK
<1>1. IInv => TypeOK
  BY DEF IInv
<1> QED BY <1>1, Invariant, PTL

(* No assure() of GoBackN.cpp is ever reached.                             *)
THEOREM NeverFails == Spec => []NoFailure
<1>1. IInv => NoFailure
  BY DEF IInv
<1> QED BY <1>1, Invariant, PTL

(* The resend timeout is pending exactly while a sent frame may be lost.   *)
THEOREM TimerRunsIffOutstanding == Spec => []TimerIffOutstanding
<1>1. IInv => TimerIffOutstanding
  <2> SUFFICES ASSUME IInv, NEW p \in Peer PROVE timeoutSet[p] <=> sentPDUs[p] # << >>
    BY DEF IInv, TimerIffOutstanding
  <2>1. Sound(Members(p), accepted[p], LA[p]) /\ TypeOK
    BY DEF IInv, SenderInv
  <2>2. Members(p).timer = timeoutSet[p] /\ Members(p).sent = sentPDUs[p]
    BY <2>1, MembersInType
  <2> QED BY <2>1, <2>2 DEF Sound
<1> QED BY <1>1, Invariant, PTL

(* No frame is lost or kept twice by the sender before it is acknowledged, *)
(* whatever timeouts, ACKs and NAKs move it from one list to the other.    *)
THEOREM UnacknowledgedIsKept == Spec => []UnacknowledgedKeptOnce
<1>1. IInv => UnacknowledgedKeptOnce
  <2> SUFFICES ASSUME IInv, NEW p \in Peer, NEW n \in LA[p] .. NS[p] - 1
               PROVE  LET places == {i \in 1 .. Len(Kept(p)) : Kept(p)[i].NS = n}
                      IN  /\ Cardinality(places) = 1
                          /\ \A i \in places : Kept(p)[i].sdu = accepted[p][n + 1]
    BY DEF UnacknowledgedKeptOnce
  <2> DEFINE kept   == Kept(p)
             places == {i \in 1 .. Len(kept) : kept[i].NS = n}
  <2>1. Sound(Members(p), accepted[p], LA[p]) /\ TypeOK /\ NS[p] = Len(accepted[p])
    BY DEF IInv, SenderInv
  <2>2. kept = KeptBy(Members(p)) /\ kept \in Seq(IFrame)
    <3>1. KeptBy(Members(p)) \in Seq(IFrame)
      BY <2>1, MembersInType, ActiveIsList
    <3>2. kept = KeptBy(Members(p))
      BY <2>1, MembersInType DEF Kept, KeptBy, Active
    <3> QED BY <3>1, <3>2
  <2>3. Distinct(kept) /\ AllCarry(kept, accepted[p]) /\ Has(kept, n)
    BY <2>1, <2>2 DEF Sound
  <2> HIDE DEF kept
  <2>4. PICK j \in 1 .. Len(kept) : kept[j].NS = n
    BY <2>2, <2>3, ElementsInRange DEF Has
  <2>5. places = {j}
    BY <2>3, <2>4 DEF Distinct
  <2>6. Cardinality(places) = 1
    BY <2>5, FS_Singleton
  <2>7. ASSUME NEW i \in places PROVE kept[i].sdu = accepted[p][n + 1]
    <3>1. kept[i] \in IFrame /\ kept[i] \in Range(kept) /\ kept[i].NS = n
      BY <2>2, ElementsInRange
    <3> QED BY <2>3, <3>1, FrameShape DEF AllCarry, Carries
  <2> QED BY <2>6, <2>7 DEF kept
<1> QED BY <1>1, Invariant, PTL

(* Whatever is lost, sent again or delayed, what a peer hands up is an     *)
(* initial segment of what its partner accepted.                           *)
THEOREM DeliversInOrder == Spec => []InOrder
<1>1. IInv => InOrder
  <2> SUFFICES ASSUME IInv, NEW p \in Peer
               PROVE  /\ Len(delivered[p]) <= Len(accepted[Other(p)])
                      /\ \A k \in 1 .. Len(delivered[p]) :
                            delivered[p][k] = accepted[Other(p)][k]
    BY DEF InOrder, Link!InOrder, Link!Peer, Link!Other, Peer, Other
  <2>1. ReceiverInv(p) /\ TypeOK /\ Other(p) \in Peer
    BY PeerFacts DEF IInv
  <2>2. /\ Len(delivered[p]) + Len(receivedPDUs[p]) = NR[p]
        /\ NR[p] <= Len(accepted[Other(p)])
        /\ \A k \in 1 .. Len(delivered[p]) : delivered[p][k] = accepted[Other(p)][k]
    BY <2>1, Zenon DEF ReceiverInv
  <2>3. /\ Len(delivered[p]) \in Nat /\ Len(receivedPDUs[p]) \in Nat
        /\ NR[p] \in Nat /\ Len(accepted[Other(p)]) \in Nat
    BY <2>1, PeerTypes
  <2>4. Len(delivered[p]) <= NR[p]
    BY <2>2, <2>3, PartOfSum, Zenon
  <2>5. Len(delivered[p]) <= Len(accepted[Other(p)])
    BY <2>2, <2>3, <2>4
  <2> QED BY <2>2, <2>5
<1> QED BY <1>1, Invariant, PTL

-------------------------------------------------------------------------------
(* A unit reports suspended() in a step that leaves nothing outstanding.   *)
LEMMA SuspendsWhenAllAcknowledged ==
  ASSUME IInv, [Next]_vars, NEW p \in Peer, suspended'[p], ~suspended[p]
  PROVE  NS'[p] = LA'[p]
<1>1. TypeOK
  BY DEF IInv
<1>2. CASE suspended' = suspended
  BY <1>2
<1>3. ASSUME NEW r \in Peer, Suspend(r) PROVE NS'[p] = LA'[p]
  <2>1. suspended' = [suspended EXCEPT ![r] = onSuspend(r, LA[r])] /\ NS' = NS /\ LA' = LA
    BY <1>3 DEF Suspend, senderVars
  <2>2. r = p
    BY <1>1, <2>1 DEF TypeOK
  <2> QED BY <1>1, <2>1, <2>2 DEF onSuspend, TypeOK
<1>4. ASSUME NEW r \in Peer, ReceiveACK(r), suspended' # suspended PROVE NS'[p] = LA'[p]
  <2>1. PICK la : LA' = [LA EXCEPT ![r] = la] /\ trySuspend(r, la) /\ NS' = NS
    BY <1>4 DEF ReceiveACK
  <2>2. r = p
    BY <1>1, <2>1 DEF trySuspend, TypeOK
  <2>3. onSuspend(p, la)
    BY <1>1, <2>1, <2>2 DEF trySuspend, TypeOK
  <2> QED BY <1>1, <2>1, <2>2, <2>3 DEF onSuspend, TypeOK
<1>5. ASSUME NEW r \in Peer, NEW d \in SDU, SendData(r, d) PROVE suspended' = suspended
  BY <1>5 DEF SendData, suspendVars
<1>6. ASSUME NEW r \in Peer, OnTimeout(r) \/ Wakeup(r) \/ DelayDelivery(r) \/ DeliverDelayed(r) \/ Lose(r)
      PROVE  suspended' = suspended
  BY <1>6 DEF OnTimeout, Wakeup, DelayDelivery, DeliverDelayed, Lose, suspendVars
<1>7. ASSUME NEW r \in Peer, ReceiveExpected(r) \/ ReceiveDelayed(r) \/ ReceiveOutOfSequence(r)
      PROVE  suspended' = suspended
  BY <1>7 DEF ReceiveExpected, ReceiveDelayed, ReceiveOutOfSequence, Answer, Fail, suspendVars
<1>8. ASSUME NEW r \in Peer, ReceiveNAK(r) PROVE suspended' = suspended
  BY <1>8 DEF ReceiveNAK, Fail, suspendVars
<1>9. ASSUME UNCHANGED vars PROVE suspended' = suspended
  BY <1>9 DEF vars, suspendVars
<1> QED BY <1>2, <1>3, <1>4, <1>5, <1>6, <1>7, <1>8, <1>9 DEF Next

(* A unit reports suspended() only when its partner has taken over all     *)
(* that it accepted.                                                       *)
THEOREM SuspendsCleanly == Spec => SuspendIsClean
<1>1. ASSUME IInv, IInv', [Next]_vars, NEW p \in Peer, suspended'[p], ~suspended[p]
      PROVE  Len(delivered'[Other(p)]) + Len(receivedPDUs'[Other(p)]) = Len(accepted'[p])
  <2>1. Other(p) \in Peer /\ Other(Other(p)) = p
    BY PeerFacts
  <2>2. NS'[p] = LA'[p]
    BY <1>1, SuspendsWhenAllAcknowledged
  <2>3. (SenderInv(p) /\ RepliesInv(Other(p)) /\ ReceiverInv(Other(p)) /\ TypeOK)'
    BY <1>1, <2>1 DEF IInv
  <2>4. NS'[p] = Len(accepted'[p]) /\ LA'[p] <= NR'[Other(p)]
    BY <2>1, <2>3 DEF SenderInv, RepliesInv
  <2>5. /\ NR'[Other(p)] <= Len(accepted'[p])
        /\ Len(delivered'[Other(p)]) + Len(receivedPDUs'[Other(p)]) = NR'[Other(p)]
    BY <2>1, <2>3 DEF ReceiverInv
  <2>6. NS'[p] \in Nat /\ NR'[Other(p)] \in Nat
    BY <2>1, <2>3 DEF TypeOK
  <2>7. NR'[Other(p)] = NS'[p]
    BY <2>2, <2>4, <2>5, <2>6
  <2> QED BY <2>4, <2>5, <2>7
<1>2. IInv /\ IInv' /\ [Next]_vars =>
        [\A p \in Peer : suspended'[p] /\ ~suspended[p]
             => Len(delivered'[Other(p)]) + Len(receivedPDUs'[Other(p)]) = Len(accepted'[p])]_vars
  BY <1>1
<1> QED BY <1>2, Invariant, PTL DEF Spec, SuspendIsClean

-------------------------------------------------------------------------------
(* What a peer hands up prolongs what it has handed up.                    *)
LEMMA HandsUpPrefix ==
  ASSUME IInv, IInv', NEW p \in Peer, accepted' = accepted,
         \A r \in Peer : r # p => delivered'[r] = delivered[r],
         Len(delivered'[p]) >= Len(delivered[p])
  PROVE  [Link!Next]_(Link!vars)
<1> DEFINE q == Other(p)
           s == delivered[p]
           t == delivered'[p]
           a == accepted[q]
<1>1. /\ q \in Peer /\ TypeOK /\ TypeOK' /\ ReceiverInv(p) /\ ReceiverInv(p)'
  BY PeerFacts DEF IInv
<1>2. /\ s \in Seq(SDU) /\ t \in Seq(SDU) /\ a \in Seq(SDU)
      /\ delivered \in [Peer -> Seq(SDU)] /\ delivered' \in [Peer -> Seq(SDU)]
      /\ NR'[p] \in Nat /\ receivedPDUs'[p] \in Seq(IFrame)
  BY <1>1 DEF TypeOK
<1>3. /\ \A k \in 1 .. Len(s) : s[k] = a[k]
      /\ \A k \in 1 .. Len(t) : t[k] = a[k]
      /\ NR'[p] <= Len(a) /\ Len(t) + Len(receivedPDUs'[p]) = NR'[p]
  BY <1>1 DEF ReceiverInv
<1>4. Len(s) \in Nat /\ Len(t) \in Nat /\ Len(a) \in Nat /\ Len(receivedPDUs'[p]) \in Nat
  BY <1>2, LenProperties
<1>5. Len(t) <= Len(a) /\ Len(s) <= Len(t)
  BY <1>2, <1>3, <1>4
<1> HIDE DEF s, t, a, q
<1>6. CASE Len(s) = Len(t)
  <2>1. s = t
    <3>1. \A k \in 1 .. Len(s) : s[k] = t[k]
      BY <1>3, <1>6
    <3>2. s \in Seq(SDU) /\ t \in Seq(SDU)
      BY <1>2
    <3> QED BY <1>6, <3>1, <3>2, SeqEqual
  <2>2. delivered' = delivered
    BY <1>2, <2>1 DEF s, t
  <2> QED BY <2>2 DEF Link!vars
<1>7. CASE Len(s) # Len(t)
  <2>1. Len(t) \in Len(s) + 1 .. Len(a)
    BY <1>4, <1>5, <1>7
  <2>2. t = SubSeq(a, 1, Len(t))
    <3>1. \A i \in 1 .. Len(t) : a[i] \in SDU
      BY <1>2, <1>4, <1>5
    <3>2. /\ SubSeq(a, 1, Len(t)) \in Seq(SDU) /\ Len(SubSeq(a, 1, Len(t))) = Len(t)
          /\ \A i \in 1 .. Len(t) : SubSeq(a, 1, Len(t))[i] = a[i]
      BY <1>2, <1>4, <1>5
    <3> QED BY <1>2, <1>3, <3>2, SeqEqual
  <2>3. delivered' = [delivered EXCEPT ![p] = SubSeq(a, 1, Len(t))]
    BY <1>2, <2>2 DEF t
  <2>4. Link!Deliver(p)
    BY <2>1, <2>3 DEF Link!Deliver, Link!Other, Other, s, a, q
  <2> QED BY <2>4 DEF Link!Next, Link!Peer, Peer
<1> QED BY <1>6, <1>7

(* A compound is accepted only while the windows of the two peers have     *)
(* room: that of the sender, and that of a receiver that delays delivery.  *)
LEMMA AcceptsInWindow ==
  ASSUME IInv, NEW p \in Peer, NEW d \in SDU, SendData(p, d)
  PROVE  Link!Accept(p, d)
<1> DEFINE q == Other(p)
<1>1. q \in Peer /\ Other(q) = p
  BY PeerFacts
<1>2. TypeOK /\ SenderInv(p) /\ RepliesInv(q) /\ ReceiverInv(q)
  BY <1>1 DEF IInv
<1>3. /\ NS[p] = Len(accepted[p]) /\ LA[p] <= NR[q]
      /\ Len(delivered[q]) + Len(receivedPDUs[q]) = NR[q]
      /\ Len(receivedPDUs[q]) <= windowSize
  BY <1>1, <1>2 DEF SenderInv, RepliesInv, ReceiverInv
<1>4. /\ NS[p] \in Nat /\ LA[p] \in Nat /\ NR[q] \in Nat /\ Len(delivered[q]) \in Nat
      /\ Len(receivedPDUs[q]) \in Nat /\ windowSize \in Nat
  BY <1>1, <1>2, PeerTypes, GoBackNAssumption
<1>5. NS[p] - LA[p] < windowSize
  BY DEF SendData, hasCapacity
<1> DEFINE n == NS[p]
           r == NR[q]
           h == Len(receivedPDUs[q])
           d1 == Len(delivered[q])
<1>6. /\ n \in Nat /\ LA[p] \in Nat /\ r \in Nat /\ h \in Nat /\ d1 \in Nat /\ windowSize \in Nat
      /\ LA[p] <= r /\ d1 + h = r /\ h <= windowSize /\ n - LA[p] < windowSize
  BY <1>3, <1>4, <1>5
<1> HIDE DEF n, r, h, d1
<1>7. n - d1 < 2 * windowSize
  BY <1>6
<1> QED BY <1>3, <1>7 DEF SendData, Link!Accept, Link!Other, Other, n, d1

LEMMA StepRefines ==
  ASSUME IInv, IInv', [Next]_vars
  PROVE  [Link!Next]_(Link!vars)
<1>1. ASSUME NEW p \in Peer, NEW d \in SDU, SendData(p, d) PROVE [Link!Next]_(Link!vars)
  <2>1. Link!Accept(p, d)
    BY <1>1, AcceptsInWindow
  <2> QED BY <2>1 DEF Link!Next, Link!Peer, Peer
<1>2. ASSUME NEW p \in Peer, ReceiveExpected(p) PROVE [Link!Next]_(Link!vars)
  <2>1. /\ accepted' = accepted
        /\ delivered' = [delivered EXCEPT ![p] = Append(@, accepted[Other(p)][NR[p] + 1])]
        /\ TypeOK
    BY <1>2, ReceiveExpectedKeeps DEF IInv
  <2>2. \A r \in Peer : r # p => delivered'[r] = delivered[r]
    BY <2>1 DEF TypeOK
  <2>3. Len(delivered'[p]) >= Len(delivered[p])
    <3>1. ReceiverInv(p) /\ ReceiverInv(p)' /\ TypeOK'
      BY DEF IInv
    <3>2. delivered'[p] = Append(delivered[p], accepted[Other(p)][NR[p] + 1])
      BY <2>1 DEF TypeOK
    <3>3. Len(delivered'[p]) = Len(delivered[p]) + 1 /\ Len(delivered[p]) \in Nat
      BY <2>1, <3>2, PeerTypes
    <3> QED BY <3>3
  <2> QED BY <2>1, <2>2, <2>3, HandsUpPrefix
<1>3. ASSUME NEW p \in Peer, DeliverDelayed(p) PROVE [Link!Next]_(Link!vars)
  <2>1. /\ accepted' = accepted
        /\ \A r \in Peer : r # p => delivered'[r] = delivered[r]
        /\ Len(delivered'[p]) = Len(delivered[p]) + Len(receivedPDUs[p])
    BY <1>3, DeliverDelayedKeeps
  <2>2. Len(delivered[p]) \in Nat /\ Len(receivedPDUs[p]) \in Nat
    BY PeerTypes DEF IInv
  <2>3. Len(delivered'[p]) >= Len(delivered[p])
    <3> DEFINE s == Len(delivered[p])
               h == Len(receivedPDUs[p])
               t == Len(delivered'[p])
    <3>1. s \in Nat /\ h \in Nat /\ t = s + h
      BY <2>1, <2>2
    <3> HIDE DEF s, h, t
    <3>2. t >= s
      BY <3>1
    <3> QED BY <3>2 DEF s, t
  <2> QED BY <2>1, <2>3, HandsUpPrefix
<1>4. ASSUME NEW p \in Peer, OnTimeout(p) \/ Wakeup(p) \/ ReceiveACK(p) \/ ReceiveNAK(p)
             \/ DelayDelivery(p) \/ Suspend(p) \/ Lose(p)
      PROVE  UNCHANGED userVars
  BY <1>4 DEF OnTimeout, Wakeup, ReceiveACK, ReceiveNAK, Fail, DelayDelivery, Suspend, Lose
<1>5. ASSUME NEW p \in Peer, ReceiveDelayed(p) \/ ReceiveOutOfSequence(p)
      PROVE  UNCHANGED userVars
  BY <1>5 DEF ReceiveDelayed, ReceiveOutOfSequence, Answer, userVars
<1>6. UNCHANGED vars => UNCHANGED userVars
  BY DEF vars
<1>7. UNCHANGED userVars => [Link!Next]_(Link!vars)
  BY DEF userVars, Link!vars
<1> QED BY <1>1, <1>2, <1>3, <1>4, <1>5, <1>6, <1>7 DEF Next

(* GoBackN implements ReliableLink with two windows of compounds: what the *)
(* code does to its users is what the abstract link allows.                *)
THEOREM Refinement == Spec => ImplementsReliableLink
<1>1. Init => Link!Init
  BY DEF Init, Link!Init, Link!Peer, Peer
<1>2. IInv /\ IInv' /\ [Next]_vars => [Link!Next]_(Link!vars)
  BY StepRefines
<1> QED BY <1>1, <1>2, Invariant, PTL DEF Spec, ImplementsReliableLink, Link!Spec

===============================================================================
