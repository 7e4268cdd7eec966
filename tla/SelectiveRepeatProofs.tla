------------------------- MODULE SelectiveRepeatProofs -------------------------
(***************************************************************************)
(* Proofs about SelectiveRepeat for every window, every choice of the      *)
(* compounds and of their number and every capacity of the lower layers.   *)
(***************************************************************************)
EXTENDS SelectiveRepeat, TLAPS, FiniteSetTheorems, FunctionTheorems, SequenceTheorems, WellFoundedInduction

(* Lists of I frames, by their numbers.                                    *)
Distinct(s) == \A i, j \in 1 .. Len(s) : s[i].NS = s[j].NS => i = j
Apart(s, t) == \A f \in Range(s), g \in Range(t) : f.NS # g.NS
Has(s, n)   == \E f \in Range(s) : f.NS = n

(* An I frame carries what was accepted under its number.                  *)
Carries(f, acc)  == f.NS < Len(acc) /\ f.sdu = acc[f.NS + 1]
AllCarry(s, acc) == \A f \in Range(s) : f.type = "I" => Carries(f, acc)

(* The members a handler leaves behind: the frames with the numbers in N,  *)
(* each kept in one place only.                                            *)
Active(u) == IF u.active = NoCompound THEN << >> ELSE <<u.active>>
KeptBy(u) == (u.sent \o u.again) \o Active(u)

Keeps(u, acc, N) ==
    /\ u.now <=> u.active # NoCompound
    /\ Distinct(KeptBy(u)) /\ AllCarry(KeptBy(u), acc)
    /\ \A n \in Nat : Has(KeptBy(u), n) <=> n \in N
    /\ u.twice \subseteq N

Sound(u, acc, N) == Keeps(u, acc, N) /\ (u.timer => u.sent # << >>)

Unacknowledged(p) == (LA[p] .. NS[p] - 1) \ receivedACKs[p]

SenderInv(p) ==
    /\ NS[p] = Len(accepted[p])
    /\ receivedACKs[p] \subseteq LA[p] + 1 .. NS[p] - 1
    /\ Sound(Members(p), accepted[p], Unacknowledged(p))

(* The frame with number n was never sent.                                 *)
Waits(u, n) == u.active # NoCompound /\ u.active.NS = n

WireInv(p) ==
    /\ Len(wire[p]) <= WireCap /\ AllCarry(wire[p], accepted[p])
    /\ \A f \in Range(wire[p]) : f.type = "I" => ~Waits(Members(p), f.NS)

(* p has taken over the frame with number n: it was handed up or is held   *)
(* back behind a gap.                                                      *)
Holds(p, n)    == n < NR[p] \/ \E f \in receivedPDUs[p] : f.NS = n
AcksHeld(s, p) == \A f \in Range(s) : f.type = "ACK" => Holds(p, f.NS)
Acked(p)       == {n \in Nat : n < LA[p]} \cup receivedACKs[p]

(* p acknowledges what it holds, and nothing else counts as acknowledged   *)
(* with its partner; what it holds was sent.                               *)
RepliesInv(p) ==
    /\ AcksHeld(wire[p], p) /\ AcksHeld(ackPDUs[p], p)
    /\ \A n \in Acked(Other(p)) : Holds(p, n)
    /\ \A n \in Nat : Holds(p, n) => ~Waits(Members(Other(p)), n)

(* What p has handed up, and what waits behind the gap at NR[p].           *)
HandedUp(p) ==
    /\ NR[p] <= Len(accepted[Other(p)])
    /\ Len(delivered[p]) = NR[p]
    /\ \A k \in 1 .. NR[p] : delivered[p][k] = accepted[Other(p)][k]

HeldBack(p) ==
    \A f \in receivedPDUs[p] : NR[p] < f.NS /\ Carries(f, accepted[Other(p)])

ReceiverInv(p) == HandedUp(p) /\ HeldBack(p)

IInv ==
    /\ TypeOK /\ failure = "none"
    /\ \A p \in Peer : SenderInv(p) /\ WireInv(p) /\ RepliesInv(p) /\ ReceiverInv(p)

-------------------------------------------------------------------------------
(* Lists.                                                                  *)

LEMMA FrameShape ==
    /\ \A f \in IFrame : f.type = "I" /\ f.NS \in Nat /\ f.sdu \in SDU /\ f # NoCompound
    /\ \A f \in AckFrame : f.type = "ACK" /\ f.NS \in Nat
    /\ \A f \in Frame : f.NS \in Nat
    /\ \A f \in Frame : (f.type = "I" => f \in IFrame) /\ (f.type = "ACK" => f \in AckFrame)
    /\ \A s \in Seq(IFrame) : s \in Seq(Frame)
    /\ \A s \in Seq(AckFrame) : s \in Seq(Frame)
<1>1. \A f \in IFrame : f.type = "I" /\ f.NS \in Nat /\ f.sdu \in SDU
  BY DEF IFrame
<1>2. \A f \in AckFrame : f.type = "ACK" /\ f.NS \in Nat
  BY DEF AckFrame
<1>3. IFrame \subseteq Frame /\ AckFrame \subseteq Frame /\ NoCompound \notin Frame
  BY SelectiveRepeatAssumption DEF Frame
<1>4. \A f \in Frame : f \in IFrame \/ f \in AckFrame
  BY DEF Frame
<1>5. \A s \in Seq(IFrame) : s \in Seq(Frame)
  BY <1>3, SeqMonotonic
<1>6. \A s \in Seq(AckFrame) : s \in Seq(Frame)
  BY <1>3, SeqMonotonic
<1>7. \A f \in IFrame : f # NoCompound
  BY <1>3
<1>8. \A f \in Frame : f.NS \in Nat
  BY <1>1, <1>2, <1>4
<1>9. \A f \in Frame : (f.type = "I" => f \in IFrame) /\ (f.type = "ACK" => f \in AckFrame)
  <2>1. ASSUME NEW f \in Frame PROVE (f.type = "I" => f \in IFrame) /\ (f.type = "ACK" => f \in AckFrame)
    <3>1. CASE f \in IFrame
      BY <1>1, <3>1
    <3>2. CASE f \in AckFrame
      BY <1>2, <3>2
    <3> QED BY <1>4, <3>1, <3>2
  <2> QED BY <2>1
<1> QED BY <1>1, <1>2, <1>5, <1>6, <1>7, <1>8, <1>9

LEMMA Single ==
  ASSUME NEW S, NEW x \in S
  PROVE  <<x>> \in Seq(S) /\ Len(<<x>>) = 1 /\ <<x>>[1] = x /\ Range(<<x>>) = {x}
<1>1. <<x>> \in Seq(S) /\ Len(<<x>>) = 1 /\ <<x>>[1] = x
  OBVIOUS
<1>2. DOMAIN <<x>> = {1}
  OBVIOUS
<1> QED BY <1>1, <1>2 DEF Range

LEMMA SingleIsDistinct ==
  ASSUME NEW x
  PROVE  Distinct(<<x>>)
BY DEF Distinct

LEMMA Empty == Range(<< >>) = {} /\ Distinct(<< >>) /\ Len(<< >>) = 0
BY DEF Range, Distinct

LEMMA ElementsInRange ==
  ASSUME NEW S, NEW s \in Seq(S)
  PROVE  /\ Range(s) \subseteq S
         /\ \A i \in 1 .. Len(s) : s[i] \in Range(s)
         /\ \A f \in Range(s) : \E i \in 1 .. Len(s) : f = s[i]
<1>1. Range(s) = {s[i] : i \in 1 .. Len(s)}
  BY RangeEquality
<1>2. \A i \in 1 .. Len(s) : s[i] \in S
  BY ElementOfSeq
<1> QED BY <1>1, <1>2

(* Which element of s or t stands at a place of s \o t.                    *)
LEMMA ConcatPlaces ==
  ASSUME NEW S, NEW s \in Seq(S), NEW t \in Seq(S)
  PROVE  /\ \A i \in 1 .. Len(s) : i \in 1 .. Len(s \o t) /\ (s \o t)[i] = s[i]
         /\ \A i \in 1 .. Len(t) :
              Len(s) + i \in 1 .. Len(s \o t) /\ (s \o t)[Len(s) + i] = t[i]
         /\ \A i \in 1 .. Len(s \o t) :
              i \in 1 .. Len(s) \/ \E j \in 1 .. Len(t) : i = Len(s) + j
<1>1. /\ s \o t \in Seq(S) /\ Len(s \o t) = Len(s) + Len(t)
      /\ \A i \in 1 .. Len(s) + Len(t) : (s \o t)[i] = IF i <= Len(s) THEN s[i] ELSE t[i - Len(s)]
  BY ConcatProperties
<1>2. Len(s) \in Nat /\ Len(t) \in Nat
  OBVIOUS
<1> DEFINE c == s \o t
<1> HIDE DEF c
<1>3. ASSUME NEW i \in 1 .. Len(s) PROVE i \in 1 .. Len(c) /\ c[i] = s[i]
  BY <1>1, <1>2 DEF c
<1>4. ASSUME NEW i \in 1 .. Len(t) PROVE Len(s) + i \in 1 .. Len(c) /\ c[Len(s) + i] = t[i]
  <2>1. Len(s) + i \in 1 .. Len(s) + Len(t) /\ ~(Len(s) + i <= Len(s)) /\ (Len(s) + i) - Len(s) = i
    BY <1>2
  <2> QED BY <1>1, <2>1 DEF c
<1>5. ASSUME NEW i \in 1 .. Len(c), i \notin 1 .. Len(s) PROVE \E j \in 1 .. Len(t) : i = Len(s) + j
  <2>1. i - Len(s) \in 1 .. Len(t) /\ i = Len(s) + (i - Len(s))
    BY <1>1, <1>2, <1>5 DEF c
  <2> QED BY <2>1
<1> QED BY <1>3, <1>4, <1>5 DEF c

(* Two lists behind each other: their numbers. *)
LEMMA ConcatDistinct ==
  ASSUME NEW S, NEW s \in Seq(S), NEW t \in Seq(S)
  PROVE  Distinct(s \o t) <=> Distinct(s) /\ Distinct(t) /\ Apart(s, t)
<1> DEFINE c == s \o t
<1>1. /\ \A i \in 1 .. Len(s) : i \in 1 .. Len(c) /\ c[i] = s[i]
      /\ \A i \in 1 .. Len(t) : Len(s) + i \in 1 .. Len(c) /\ c[Len(s) + i] = t[i]
      /\ \A i \in 1 .. Len(c) : i \in 1 .. Len(s) \/ \E j \in 1 .. Len(t) : i = Len(s) + j
  BY ConcatPlaces
<1>2. Len(s) \in Nat /\ Len(t) \in Nat
  OBVIOUS
<1>e. /\ \A i \in 1 .. Len(s) : s[i] \in Range(s)
      /\ \A f \in Range(s) : \E i \in 1 .. Len(s) : f = s[i]
      /\ \A i \in 1 .. Len(t) : t[i] \in Range(t)
      /\ \A f \in Range(t) : \E i \in 1 .. Len(t) : f = t[i]
  BY ElementsInRange
<1> HIDE DEF c
<1>3. ASSUME Distinct(c) PROVE Distinct(s) /\ Distinct(t) /\ Apart(s, t)
  <2>1. Distinct(s)
    BY <1>1, <1>3 DEF Distinct
  <2>2. ASSUME NEW i \in 1 .. Len(t), NEW j \in 1 .. Len(t), t[i].NS = t[j].NS PROVE i = j
    <3>1. Len(s) + i = Len(s) + j
      BY SMTT(20), <1>1, <1>3, <2>2 DEF Distinct
    <3> QED BY <1>2, <3>1
  <2>3. ASSUME NEW f \in Range(s), NEW g \in Range(t), f.NS = g.NS PROVE FALSE
    <3>1. PICK i \in 1 .. Len(s) : f = s[i]
      BY <1>e
    <3>2. PICK j \in 1 .. Len(t) : g = t[j]
      BY <1>e
    <3>3. /\ c[i] = f /\ c[Len(s) + j] = g
          /\ i \in 1 .. Len(c) /\ Len(s) + j \in 1 .. Len(c)
      BY <1>1, <3>1, <3>2
    <3>4. i = Len(s) + j
      BY <1>3, <2>3, <3>3 DEF Distinct
    <3> QED BY <1>2, <3>4
  <2> QED BY <2>1, <2>2, <2>3 DEF Distinct, Apart
<1>4. ASSUME Distinct(s), Distinct(t), Apart(s, t) PROVE Distinct(c)
  <2> SUFFICES ASSUME NEW i \in 1 .. Len(c), NEW j \in 1 .. Len(c), c[i].NS = c[j].NS PROVE i = j
    BY DEF Distinct
  <2>0. ASSUME NEW k \in 1 .. Len(s), NEW l \in 1 .. Len(t), s[k].NS = t[l].NS PROVE FALSE
    BY <1>4, <1>e, <2>0 DEF Apart
  <2>1. CASE i \in 1 .. Len(s) /\ j \in 1 .. Len(s)
    BY <1>1, <1>4, <2>1 DEF Distinct
  <2>2. CASE i \notin 1 .. Len(s) /\ j \notin 1 .. Len(s)
    <3>1. PICK k \in 1 .. Len(t) : i = Len(s) + k
      BY <1>1, <2>2
    <3>2. PICK l \in 1 .. Len(t) : j = Len(s) + l
      BY <1>1, <2>2
    <3> QED BY <1>1, <1>4, <3>1, <3>2 DEF Distinct
  <2>3. CASE i \in 1 .. Len(s) /\ j \notin 1 .. Len(s)
    <3>1. PICK l \in 1 .. Len(t) : j = Len(s) + l
      BY <1>1, <2>3
    <3>2. s[i].NS = t[l].NS
      BY <1>1, <2>3, <3>1
    <3> QED BY <2>0, <2>3, <3>2
  <2>4. CASE i \notin 1 .. Len(s) /\ j \in 1 .. Len(s)
    <3>1. PICK l \in 1 .. Len(t) : i = Len(s) + l
      BY <1>1, <2>4
    <3>2. s[j].NS = t[l].NS
      BY <1>1, <2>4, <3>1
    <3> QED BY <2>0, <2>4, <3>2
  <2> QED BY <2>1, <2>2, <2>3, <2>4
<1> QED BY <1>3, <1>4 DEF c

(* What the two together contain. *)
LEMMA ConcatRange ==
  ASSUME NEW S, NEW s \in Seq(S), NEW t \in Seq(S)
  PROVE  /\ s \o t \in Seq(S) /\ Len(s \o t) = Len(s) + Len(t)
         /\ Range(s \o t) = Range(s) \cup Range(t)
         /\ \A n : Has(s \o t, n) <=> Has(s, n) \/ Has(t, n)
         /\ \A u : Apart(s \o t, u) <=> Apart(s, u) /\ Apart(t, u)
         /\ \A u : Apart(u, s \o t) <=> Apart(u, s) /\ Apart(u, t)
         /\ \A acc : AllCarry(s \o t, acc) <=> AllCarry(s, acc) /\ AllCarry(t, acc)
         /\ \A q : AcksHeld(s \o t, q) <=> AcksHeld(s, q) /\ AcksHeld(t, q)
<1>1. s \o t \in Seq(S) /\ Len(s \o t) = Len(s) + Len(t)
  BY ConcatProperties
<1>2. Range(s \o t) = Range(s) \cup Range(t)
  BY RangeConcatenation
<1> DEFINE c == s \o t
<1>3. Range(c) = Range(s) \cup Range(t)
  BY <1>2
<1> HIDE DEF c
<1>4. \A n : Has(c, n) <=> Has(s, n) \/ Has(t, n)
  BY <1>3 DEF Has
<1>5. \A u : Apart(c, u) <=> Apart(s, u) /\ Apart(t, u)
  BY <1>3 DEF Apart
<1>6. \A u : Apart(u, c) <=> Apart(u, s) /\ Apart(u, t)
  BY <1>3 DEF Apart
<1>7. \A acc : AllCarry(c, acc) <=> AllCarry(s, acc) /\ AllCarry(t, acc)
  BY <1>3, Zenon DEF AllCarry
<1>8. \A q : AcksHeld(c, q) <=> AcksHeld(s, q) /\ AcksHeld(t, q)
  BY <1>3, Zenon DEF AcksHeld
<1> QED BY <1>1, <1>2, <1>4, <1>5, <1>6, <1>7, <1>8 DEF c

LEMMA Associative ==
  /\ \A s, t, u \in Seq(IFrame) : (s \o t) \o u = s \o (t \o u)
  /\ \A s, t, u \in Seq(Frame) : (s \o t) \o u = s \o (t \o u)
<1>1. \A s, t, u \in Seq(IFrame) : (s \o t) \o u = s \o (t \o u)
  BY ConcatAssociative
<1>2. \A s, t, u \in Seq(Frame) : (s \o t) \o u = s \o (t \o u)
  BY ConcatAssociative
<1> QED BY <1>1, <1>2

LEMMA PartOfSum == \A m, n, k \in Nat : m + n = k => m <= k
OBVIOUS

LEMMA ApartIsSymmetric ==
  ASSUME NEW s, NEW t
  PROVE  Apart(s, t) <=> Apart(t, s)
BY DEF Apart

(* What is kept, list by list. *)
LEMMA KeptParts ==
  ASSUME NEW s \in Seq(IFrame), NEW t \in Seq(IFrame), NEW a \in Seq(IFrame)
  PROVE  /\ (s \o t) \o a \in Seq(IFrame)
         /\ Distinct((s \o t) \o a) <=> /\ Distinct(s) /\ Distinct(t) /\ Distinct(a)
                                        /\ Apart(s, t) /\ Apart(s, a) /\ Apart(t, a)
         /\ Range((s \o t) \o a) = Range(s) \cup Range(t) \cup Range(a)
<1> DEFINE c == s \o t
<1>1. c \in Seq(IFrame) /\ Range(c) = Range(s) \cup Range(t)
  BY ConcatRange
<1>2. Distinct(c) <=> Distinct(s) /\ Distinct(t) /\ Apart(s, t)
  BY ConcatDistinct
<1>3. Apart(c, a) <=> Apart(s, a) /\ Apart(t, a)
  BY ConcatRange
<1> HIDE DEF c
<1>4. c \o a \in Seq(IFrame) /\ Range(c \o a) = Range(c) \cup Range(a)
  BY <1>1, ConcatRange
<1>5. Distinct(c \o a) <=> Distinct(c) /\ Distinct(a) /\ Apart(c, a)
  BY <1>1, ConcatDistinct
<1> QED BY <1>1, <1>2, <1>3, <1>4, <1>5 DEF c

(* Carrying and having are a matter of what a list contains. *)
LEMMA ByRange ==
  ASSUME NEW s, NEW t, Range(t) \subseteq Range(s)
  PROVE  /\ \A acc : AllCarry(s, acc) => AllCarry(t, acc)
         /\ \A n : Has(t, n) => Has(s, n)
         /\ \A u : Apart(s, u) => Apart(t, u)
         /\ \A u : Apart(u, s) => Apart(u, t)
BY Zenon DEF AllCarry, Has, Apart

(* A list is its front and its rest, or its head and its tail. *)
LEMMA FrontRest ==
  ASSUME NEW S, NEW s \in Seq(S), NEW n \in 0 .. Len(s)
  PROVE  /\ Front(s, n) \in Seq(S) /\ Len(Front(s, n)) = n
         /\ \A i \in 1 .. n : Front(s, n)[i] = s[i]
         /\ Rest(s, n) \in Seq(S) /\ Len(Rest(s, n)) = Len(s) - n
         /\ s = Front(s, n) \o Rest(s, n)
<1>1. /\ Front(s, n) \in Seq(S) /\ Len(Front(s, n)) = n
      /\ \A i \in 1 .. n : Front(s, n)[i] = s[i]
  BY DEF Front
<1>2. Rest(s, n) \in Seq(S) /\ Len(Rest(s, n)) = Len(s) - n
  BY DEF Rest
<1>3. s = Front(s, n) \o Rest(s, n)
  <2>1. 1 \in 1 .. Len(s) + 1 /\ n \in 1 - 1 .. Len(s) /\ Len(s) \in n .. Len(s)
    OBVIOUS
  <2>2. SubSeq(s, 1, n) \o SubSeq(s, n + 1, Len(s)) = SubSeq(s, 1, Len(s))
    BY <2>1, ConcatAdjacentSubSeq
  <2> QED BY <2>2, SubSeqFull DEF Front, Rest
<1> QED BY <1>1, <1>2, <1>3

LEMMA HeadTail ==
  ASSUME NEW S, NEW s \in Seq(S), s # << >>
  PROVE  /\ Head(s) \in S /\ Tail(s) \in Seq(S) /\ Len(Tail(s)) = Len(s) - 1
         /\ s = <<Head(s)>> \o Tail(s)
<1>1. Head(s) \in S /\ Tail(s) \in Seq(S) /\ Len(Tail(s)) = Len(s) - 1
  BY HeadTailProperties
<1>2. Len(s) \in Nat \ {0} /\ 1 \in 1 .. Len(s) /\ Len(s) \in 1 .. Len(s)
  BY EmptySeq
<1>3. SubSeq(s, 1, Len(s)) = <<s[1]>> \o SubSeq(s, 1 + 1, Len(s))
  BY <1>2, SubSeqRecursiveFirst
<1>4. SubSeq(s, 1, Len(s)) = s /\ Head(s) = s[1] /\ Tail(s) = SubSeq(s, 2, Len(s))
  BY SubSeqFull, TailIsSubSeq
<1> QED BY <1>1, <1>3, <1>4

Lower == {p \in Nat \X Nat : p[1] < p[2]}

LEMMA LowerPair ==
  ASSUME NEW x \in Nat, NEW y \in Nat, <<y, x>> \notin Lower
  PROVE  x <= y
<1>1. <<y, x>> \in Nat \X Nat
  OBVIOUS
<1>2. ~(y < x)
  BY <1>1, SMT DEF Lower
<1> QED BY <1>2

LEMMA EarliestExists ==
  ASSUME NEW T \in SUBSET Nat, T # {}
  PROVE  \E m \in T : \A k \in T : m <= k
<1>1. IsWellFoundedOn(Lower, Nat)
  BY NatLessThanWellFounded, Zenon DEF OpToRel, Lower
<1>2. \E x \in T : \A y \in T : <<y, x>> \notin Lower
  BY <1>1, WFMin
<1> QED BY <1>2, LowerPair

-------------------------------------------------------------------------------
(* The frames of a list with certain numbers.                              *)

IsFound(f, s, N, n) ==
    f = [i \in 0 .. n |->
           IF i = 0 THEN << >>
           ELSE IF s[i].NS \in N THEN Append(f[i - 1], s[i]) ELSE f[i - 1]]

(* The loop over the list has a result for every length. *)
LEMMA FoundExists ==
  ASSUME NEW s, NEW N, NEW l \in Nat
  PROVE  \E f : IsFound(f, s, N, l)
<1> DEFINE T == {n \in Nat : ~ \E f : IsFound(f, s, N, n)}
<1>1. T \in SUBSET Nat
  OBVIOUS
<1>2. ASSUME T # {} PROVE FALSE
  <2>1. PICK n \in T : \A m \in T : n <= m
    <3> HIDE DEF T
    <3> QED BY <1>1, <1>2, EarliestExists
  <2>2. CASE n = 0
    <3>1. IsFound([i \in 0 .. 0 |-> << >>], s, N, 0)
      BY DEF IsFound
    <3> QED BY <3>1, <2>1, <2>2
  <2>3. CASE n # 0
    <3>1. n - 1 \notin T /\ n - 1 \in Nat /\ n \in Nat
      BY <2>1, <2>3
    <3>2. PICK f : IsFound(f, s, N, n - 1)
      BY <3>1
    <3> DEFINE g == [i \in 0 .. n |->
                       IF i = n
                       THEN IF s[n].NS \in N THEN Append(f[n - 1], s[n]) ELSE f[n - 1]
                       ELSE f[i]]
    <3>3. ASSUME NEW i \in 0 .. n
          PROVE  g[i] = IF i = 0 THEN << >>
                        ELSE IF s[i].NS \in N THEN Append(g[i - 1], s[i]) ELSE g[i - 1]
      <4>1. CASE i = n
        <5>1. g[n] = (IF s[n].NS \in N THEN Append(f[n - 1], s[n]) ELSE f[n - 1])
          BY <3>1
        <5>2. g[n - 1] = f[n - 1]
          BY <3>1, <2>3
        <5> HIDE DEF g
        <5> QED BY <4>1, <5>1, <5>2, <2>3
      <4>2. CASE i # n
        <5>1. i \in 0 .. n - 1
          BY <3>1, <4>2
        <5>2. f[i] = (IF i = 0 THEN << >>
                      ELSE IF s[i].NS \in N THEN Append(f[i - 1], s[i]) ELSE f[i - 1])
          BY <3>2, <5>1, Zenon DEF IsFound
        <5>3. g[i] = f[i] /\ (i # 0 => g[i - 1] = f[i - 1])
          BY <3>1, <4>2
        <5> HIDE DEF g
        <5> QED BY <5>2, <5>3
      <4> QED BY <4>1, <4>2
    <3>4. g = [i \in 0 .. n |-> g[i]]
      OBVIOUS
    <3> HIDE DEF g
    <3>5. IsFound(g, s, N, n)
      BY <3>3, <3>4 DEF IsFound
    <3> QED BY <3>5, <2>1
  <2> QED BY <2>2, <2>3
<1> QED BY <1>2

(* One more element: the lists stay free of repetitions. *)
LEMMA OneMore ==
  ASSUME NEW s \in Seq(IFrame), NEW x \in IFrame
  PROVE  /\ Append(s, x) \in Seq(IFrame) /\ Range(Append(s, x)) = Range(s) \cup {x}
         /\ Distinct(s) /\ ~Has(s, x.NS) => Distinct(Append(s, x))
<1> DEFINE one == <<x>>
<1>1. one \in Seq(IFrame) /\ Range(one) = {x} /\ Distinct(one)
  BY Single, SingleIsDistinct
<1>2. Append(s, x) = s \o one
  BY AppendIsConcat
<1> HIDE DEF one
<1>3. s \o one \in Seq(IFrame) /\ Range(s \o one) = Range(s) \cup Range(one)
  BY <1>1, ConcatRange
<1>4. ASSUME ~Has(s, x.NS) PROVE Apart(s, one)
  BY <1>1, <1>4 DEF Has, Apart
<1>5. Distinct(s \o one) <=> Distinct(s) /\ Distinct(one) /\ Apart(s, one)
  BY <1>1, ConcatDistinct
<1> QED BY <1>1, <1>2, <1>3, <1>4, <1>5

(* The frames found are those of the list with a number in N. *)
LEMMA WithNumbersIs ==
  ASSUME NEW s \in Seq(IFrame), NEW N
  PROVE  /\ WithNumbers(s, N) \in Seq(IFrame)
         /\ Range(WithNumbers(s, N)) = {x \in Range(s) : x.NS \in N}
         /\ Distinct(s) => Distinct(WithNumbers(s, N))
<1> DEFINE l == Len(s)
           f == CHOOSE f : IsFound(f, s, N, l)
           OK(i) == /\ f[i] \in Seq(IFrame)
                    /\ \A x : x \in Range(f[i]) <=> \E j \in 1 .. i : x = s[j] /\ x.NS \in N
                    /\ Distinct(s) => Distinct(f[i])
<1>1. WithNumbers(s, N) = f[l] /\ l \in Nat
  BY DEF WithNumbers, IsFound
<1>2. IsFound(f, s, N, l)
  BY <1>1, FoundExists
<1> HIDE DEF f
<1>3. \A i \in 0 .. l : f[i] = IF i = 0 THEN << >>
                               ELSE IF s[i].NS \in N THEN Append(f[i - 1], s[i]) ELSE f[i - 1]
  BY <1>2, Zenon DEF IsFound
<1>l. /\ \A i \in 1 .. l : s[i] \in IFrame /\ s[i] \in Range(s)
      /\ \A x \in Range(s) : \E i \in 1 .. l : x = s[i]
  <2>1. /\ \A i \in 1 .. l : s[i] \in Range(s)
        /\ \A x \in Range(s) : \E i \in 1 .. l : x = s[i]
    BY ElementsInRange
  <2>2. \A i \in 1 .. l : s[i] \in IFrame
    BY ElementOfSeq
  <2> QED BY <2>1, <2>2
<1>d. Distinct(s) => \A i, j \in 1 .. l : s[i].NS = s[j].NS => i = j
  BY DEF Distinct
<1> HIDE DEF l
<1>4. OK(0)
  <2>1. f[0] = << >>
    BY <1>1, <1>3
  <2>2. f[0] \in Seq(IFrame) /\ Range(f[0]) = {} /\ Distinct(f[0])
    BY <2>1, Empty
  <2> QED BY <2>2
<1>5. ASSUME NEW i \in 1 .. l, OK(i - 1) PROVE OK(i)
  <2>1. /\ f[i] = (IF s[i].NS \in N THEN Append(f[i - 1], s[i]) ELSE f[i - 1])
        /\ \A j : j \in 1 .. i <=> j \in 1 .. i - 1 \/ j = i
    BY <1>1, <1>3
  <2> DEFINE g == f[i - 1]
             x == s[i]
  <2>2. /\ g \in Seq(IFrame) /\ x \in IFrame /\ (Distinct(s) => Distinct(g))
        /\ \A y : y \in Range(g) <=> \E j \in 1 .. i - 1 : y = s[j] /\ y.NS \in N
    BY <1>5, <1>l
  <2>3. ASSUME Distinct(s) PROVE ~Has(g, x.NS)
    <3> SUFFICES ASSUME Has(g, x.NS) PROVE FALSE
      OBVIOUS
    <3>1. PICK y \in Range(g) : y.NS = x.NS
      BY DEF Has
    <3>2. PICK j \in 1 .. i - 1 : y = s[j]
      BY <2>2, <3>1
    <3>3. j \in 1 .. l /\ j # i /\ i \in 1 .. l
      BY <1>1
    <3>4. s[j].NS = s[i].NS
      BY <3>1, <3>2
    <3> QED BY <1>d, <2>3, <3>3, <3>4
  <2>4. CASE x.NS \in N
    <3>1. f[i] = Append(g, x)
      BY <2>1, <2>4
    <3>2. /\ Append(g, x) \in Seq(IFrame) /\ Range(Append(g, x)) = Range(g) \cup {x}
          /\ Distinct(g) /\ ~Has(g, x.NS) => Distinct(Append(g, x))
      BY <2>2, OneMore
    <3>3. \A y : y \in Range(f[i]) <=> \E j \in 1 .. i : y = s[j] /\ y.NS \in N
      BY <2>1, <2>2, <2>4, <3>1, <3>2
    <3> QED BY <2>2, <2>3, <3>1, <3>2, <3>3
  <2>5. CASE x.NS \notin N
    <3>1. f[i] = g
      BY <2>1, <2>5
    <3>2. \A y : y \in Range(f[i]) <=> \E j \in 1 .. i : y = s[j] /\ y.NS \in N
      BY <2>1, <2>2, <2>5, <3>1
    <3> QED BY <2>2, <3>1, <3>2
  <2> QED BY <2>4, <2>5
<1> HIDE DEF OK
<1> DEFINE T == {i \in 0 .. l : ~OK(i)}
<1>6. T = {}
  <2> SUFFICES ASSUME T # {} PROVE FALSE
    OBVIOUS
  <2>1. T \in SUBSET Nat
    BY <1>1
  <2>2. PICK i \in T : \A j \in T : i <= j
    <3> HIDE DEF T
    <3> QED BY <2>1, EarliestExists
  <2>3. i \in 1 .. l /\ i - 1 \in 0 .. l /\ ~(i <= i - 1) /\ ~OK(i)
    BY <1>1, <2>2, <1>4
  <2>4. OK(i - 1)
    BY <2>2, <2>3
  <2> QED BY <2>3, <2>4, <1>5
<1>7. OK(l)
  BY <1>1, <1>6
<1>8. \A x : x \in Range(f[l]) <=> x \in Range(s) /\ x.NS \in N
  <2>1. \A x : x \in Range(f[l]) <=> \E j \in 1 .. l : x = s[j] /\ x.NS \in N
    BY <1>7 DEF OK
  <2> QED BY <1>l, <2>1
<1> QED BY <1>1, <1>7, <1>8 DEF OK

-------------------------------------------------------------------------------
(* What tryToSend() preserves of the members a handler leaves behind.      *)

LEMMA PeerFacts ==
  ASSUME NEW p \in Peer
  PROVE  /\ Other(p) \in Peer /\ Other(p) # p /\ Other(Other(p)) = p
         /\ \A r \in Peer : r = p \/ r = Other(p)
BY DEF Peer, Other

MembersType == [active : IFrame \cup {NoCompound}, now : BOOLEAN,
                sent : Seq(IFrame), again : Seq(IFrame), twice : SUBSET Nat,
                acks : Seq(AckFrame), timer : BOOLEAN]

LEMMA ActiveIsList ==
  ASSUME NEW u \in MembersType
  PROVE  /\ u.sent \in Seq(IFrame) /\ u.again \in Seq(IFrame) /\ u.acks \in Seq(AckFrame)
         /\ u.active \in IFrame \cup {NoCompound} /\ u.now \in BOOLEAN /\ u.timer \in BOOLEAN /\ u.twice \in SUBSET Nat
         /\ Active(u) \in Seq(IFrame) /\ Len(Active(u)) <= 1
         /\ KeptBy(u) \in Seq(IFrame)
<1>1. /\ u.sent \in Seq(IFrame) /\ u.again \in Seq(IFrame) /\ u.acks \in Seq(AckFrame)
      /\ u.active \in IFrame \cup {NoCompound} /\ u.now \in BOOLEAN /\ u.timer \in BOOLEAN /\ u.twice \in SUBSET Nat
  BY DEF MembersType
<1>2. Active(u) \in Seq(IFrame) /\ Len(Active(u)) <= 1
  BY <1>1 DEF Active
<1>3. u.sent \o u.again \in Seq(IFrame)
  BY <1>1, ConcatProperties
<1>4. KeptBy(u) \in Seq(IFrame)
  BY <1>2, <1>3, ConcatProperties DEF KeptBy
<1> QED BY <1>1, <1>2, <1>4

LEMMA MembersInType ==
  ASSUME TypeOK, NEW p \in Peer
  PROVE  /\ Members(p) \in MembersType
         /\ Members(p).active = activeCompound[p] /\ Members(p).now = sendNow[p]
         /\ Members(p).sent = sentPDUs[p] /\ Members(p).again = toRetransmit[p]
         /\ Members(p).acks = ackPDUs[p] /\ Members(p).timer = timeoutSet[p]
         /\ Members(p).twice = sentAgain[p]
BY DEF TypeOK, Members, MembersType

(* A frame that is sent moves from one of the lists to the next: the three *)
(* behind each other stay the same.                                        *)
LEMMA MovedOn ==
  ASSUME NEW u \in MembersType, NEW v \in MembersType,
         NEW d \in 0 .. Len(u.again \o Active(u)),
         v.sent = u.sent \o Front(u.again \o Active(u), d),
         v.again = Rest(u.again, d),
         v.active = IF d > Len(u.again) THEN NoCompound ELSE u.active
  PROVE  KeptBy(v) = KeptBy(u)
<1>1. /\ u.sent \in Seq(IFrame) /\ u.again \in Seq(IFrame)
      /\ Active(u) \in Seq(IFrame) /\ Len(Active(u)) <= 1
  BY ActiveIsList
<1>2. /\ u.again \o Active(u) \in Seq(IFrame)
      /\ Len(u.again \o Active(u)) = Len(u.again) + Len(Active(u))
      /\ Len(u.again) \in Nat /\ Len(Active(u)) \in Nat
  BY <1>1, ConcatProperties
<1>3. d \in Nat /\ d <= Len(u.again) + Len(Active(u))
  BY <1>2
<1>4. CASE d <= Len(u.again)
  <2> DEFINE f == Front(u.again, d)
             r == Rest(u.again, d)
  <2>1. d \in 0 .. Len(u.again)
    BY <1>2, <1>3, <1>4
  <2>2. Front(u.again \o Active(u), d) = f
    <3>1. CASE d = 0
      <4>1. \A s : SubSeq(s, 1, 0) = << >>
        BY SubSeqEmpty
      <4> QED BY <3>1, <4>1 DEF Front
    <3>2. CASE d # 0
      <4>1. 1 \in 1 .. Len(u.again) /\ d \in 1 .. Len(u.again)
        BY <1>2, <2>1, <3>2
      <4> QED BY <1>1, <4>1, SubSeqOfConcat1 DEF Front
    <3> QED BY <3>1, <3>2
  <2>3. f \in Seq(IFrame) /\ r \in Seq(IFrame) /\ u.again = f \o r
    BY <1>1, <2>1, FrontRest
  <2>4. v.sent = u.sent \o f /\ v.again = r
    BY <2>2
  <2>5. v.active = u.active
    BY <1>2, <1>3, <1>4
  <2>6. Active(v) = Active(u)
    BY <2>5 DEF Active
  <2> HIDE DEF f, r
  <2>7. (u.sent \o f) \o r = u.sent \o (f \o r)
    BY <1>1, <2>3, Associative, Zenon
  <2>8. v.sent \o v.again = u.sent \o u.again
    BY <2>3, <2>4, <2>7
  <2> QED BY <2>6, <2>8 DEF KeptBy
<1>5. CASE ~(d <= Len(u.again))
  <2> DEFINE c == u.again \o Active(u)
  <2>1. d = Len(c)
    BY SMTT(20), <1>1, <1>2, <1>3, <1>5
  <2>2. c \in Seq(IFrame)
    BY <1>2
  <2>3. v.sent = u.sent \o Front(c, d)
    OBVIOUS
  <2> HIDE DEF c
  <2>4. v.sent = u.sent \o c
    BY <2>1, <2>2, <2>3, SubSeqFull DEF Front
  <2>5. v.again = << >>
    <3>1. Len(u.again) < d + 1 /\ d + 1 \in Int /\ Len(u.again) \in Int
      BY <1>2, <1>3, <1>5
    <3>2. SubSeq(u.again, d + 1, Len(u.again)) = << >>
      BY <3>1, SubSeqEmpty
    <3> QED BY <3>2 DEF Rest
  <2>6. v.active = NoCompound
    BY <1>2, <1>3, <1>5
  <2>7. Active(v) = << >>
    BY <2>6 DEF Active
  <2>8. u.sent \o c = (u.sent \o u.again) \o Active(u)
    BY <1>1, Associative, Zenon DEF c
  <2>9. KeptBy(v) = (KeptBy(u) \o << >>) \o << >>
    BY <2>4, <2>5, <2>7, <2>8 DEF KeptBy
  <2>10. KeptBy(u) \o << >> = KeptBy(u)
    <3>1. KeptBy(u) \in Seq(IFrame)
      BY ActiveIsList
    <3> QED BY <3>1, ConcatEmptySeq
  <2> QED BY <2>9, <2>10
<1> QED BY <1>4, <1>5

(* tryToSend() itself: what it sends was kept, and what it does not send   *)
(* still is.                                                               *)
LEMMA TryToSendKeeps ==
  ASSUME TypeOK, NEW p \in Peer, NEW u \in MembersType, u.now <=> u.active # NoCompound,
         NEW wires \in [Peer -> Seq(Frame)], Len(wires[p]) <= WireCap,
         TryToSend(p, u, wires)
  PROVE  /\ wire' \in [Peer -> Seq(Frame)] /\ ackPDUs' \in [Peer -> Seq(AckFrame)]
         /\ sentPDUs' \in [Peer -> Seq(IFrame)] /\ toRetransmit' \in [Peer -> Seq(IFrame)]
         /\ timeoutSet' \in [Peer -> BOOLEAN] /\ sendNow' \in [Peer -> BOOLEAN]
         /\ activeCompound' \in [Peer -> IFrame \cup {NoCompound}]
         /\ \A q \in Peer : q # p => Members(q)' = Members(q) /\ wire'[q] = wires[q]
         /\ sentAgain' \in [Peer -> SUBSET Nat]
         /\ \A acc, N : Sound(u, acc, N) => Sound(Members(p)', acc, N)
         /\ Len(wire'[p]) <= WireCap
         /\ \A acc : AllCarry(wires[p], acc) /\ AllCarry(KeptBy(u), acc)
                        => AllCarry(wire'[p], acc)
         /\ \A f \in Range(wire'[p]) : \/ f \in Range(wires[p]) \/ f \in Range(u.acks)
                                      \/ (f \in IFrame /\ f \in Range(sentPDUs'[p]))
         /\ \A n : Waits(Members(p)', n) => Waits(u, n)
         /\ Range(ackPDUs'[p]) \subseteq Range(u.acks)
<1> DEFINE data  == u.again \o Unsent(u)
           room  == WireCap - Len(wires[p])
           acks  == Least(Len(u.acks), room)
           datas == Least(Len(data), room - acks)
           w     == (wires[p] \o Front(u.acks, acks)) \o Front(data, datas)
           tw    == u.twice \cup Numbers(Front(u.again, Least(Len(u.again), datas)))
           v     == Members(p)'
<1>1. /\ u.sent \in Seq(IFrame) /\ u.again \in Seq(IFrame) /\ u.acks \in Seq(AckFrame)
      /\ u.active \in IFrame \cup {NoCompound} /\ u.now \in BOOLEAN /\ u.timer \in BOOLEAN /\ u.twice \in SUBSET Nat
      /\ Active(u) \in Seq(IFrame) /\ Len(Active(u)) <= 1
      /\ KeptBy(u) \in Seq(IFrame)
  BY ActiveIsList
<1>2. Unsent(u) = Active(u)
  BY DEF Unsent, Active
<1>3. data = u.again \o Active(u) /\ data \in Seq(IFrame)
  BY <1>1, <1>2, ConcatProperties
<1>4. wires[p] \in Seq(Frame) /\ WireCap \in Nat
  BY SelectiveRepeatAssumption
<1>5. room \in Nat
  BY <1>4
<1>6. /\ acks \in 0 .. Len(u.acks) /\ datas \in 0 .. Len(data) /\ acks + datas <= room
  <2>1. Len(u.acks) \in Nat /\ Len(data) \in Nat
    BY <1>1, <1>3
  <2> HIDE DEF room, data
  <2>2. acks \in 0 .. Len(u.acks) /\ acks <= room
    BY <1>5, <2>1 DEF Least
  <2> HIDE DEF acks
  <2> QED BY <1>5, <2>1, <2>2 DEF Least
<1>7. /\ wire' = [wires EXCEPT ![p] = w]
      /\ ackPDUs' = [ackPDUs EXCEPT ![p] = Rest(u.acks, acks)]
      /\ sentPDUs' = [sentPDUs EXCEPT ![p] = u.sent \o Front(data, datas)]
      /\ toRetransmit' = [toRetransmit EXCEPT ![p] = Rest(u.again, datas)]
      /\ sentAgain' = [sentAgain EXCEPT ![p] = tw]
      /\ timeoutSet' = [timeoutSet EXCEPT ![p] = u.timer \/ datas > 0]
      /\ activeCompound' = [activeCompound EXCEPT ![p] =
                               IF datas > Len(u.again) THEN NoCompound ELSE u.active]
      /\ sendNow' = [sendNow EXCEPT ![p] = u.now /\ datas <= Len(u.again)]
  BY <1>4 DEF TryToSend
<1> HIDE DEF data, room, acks, datas
<1> DEFINE fa == Front(u.acks, acks)
           fd == Front(data, datas)
           d  == datas
           k  == acks
<1>8. /\ fa \in Seq(AckFrame) /\ Len(fa) = acks
      /\ Rest(u.acks, acks) \in Seq(AckFrame)
  <2>1. u.acks \in Seq(AckFrame) /\ acks \in 0 .. Len(u.acks)
    BY <1>1, <1>6
  <2> QED BY <2>1, FrontRest
<1>9. /\ fd \in Seq(IFrame) /\ Len(fd) = datas
      /\ data = fd \o Rest(data, datas) /\ Rest(data, datas) \in Seq(IFrame)
  <2>1. data \in Seq(IFrame) /\ datas \in 0 .. Len(data)
    BY <1>3, <1>6
  <2> QED BY <2>1, FrontRest
<1>10. data \in Seq(IFrame) /\ d \in Nat /\ Len(u.again) \in Nat /\ d \in 0 .. Len(u.again \o Active(u))
  BY <1>1, <1>3, <1>6
<1>r. Rest(u.again, d) \in Seq(IFrame)
  <2>1. \A i \in d + 1 .. Len(u.again) : u.again[i] \in IFrame
    BY <1>1, <1>10
  <2> HIDE DEF d
  <2> QED BY <1>10, <2>1, SubSeqProperties DEF Rest
<1>tw. tw \in SUBSET Nat /\ \A n \in tw : n \in u.twice \/ \E x \in Range(u.again) : n = x.NS
  <2> DEFINE e == Least(Len(u.again), d)
             g == Front(u.again, e)
  <2>1. e \in 0 .. Len(u.again)
    <3> HIDE DEF d
    <3> QED BY <1>10 DEF Least
  <2> HIDE DEF e
  <2>2. g \in Seq(IFrame) /\ Range(u.again) = Range(g) \cup Range(Rest(u.again, e))
    <3> DEFINE r == Rest(u.again, e)
    <3>1. g \in Seq(IFrame) /\ r \in Seq(IFrame) /\ u.again = g \o r
      BY ZenonT(30), <1>1, <2>1, FrontRest
    <3> HIDE DEF g, r
    <3>2. Range(g \o r) = Range(g) \cup Range(r)
      BY <3>1, ConcatRange
    <3> QED BY <3>1, <3>2 DEF r
  <2>3. tw = u.twice \cup Numbers(g)
    BY DEF e, d
  <2> HIDE DEF g, tw
  <2>4. \A i \in 1 .. Len(g) : g[i] \in Range(g) /\ g[i] \in IFrame
    BY <2>2, ElementsInRange, ElementOfSeq
  <2>5. \A n \in Numbers(g) : n \in Nat /\ \E x \in Range(u.again) : n = x.NS
    BY <2>2, <2>4, FrameShape DEF Numbers
  <2> QED BY <1>1, <2>3, <2>5
<1> HIDE DEF fa, fd, tw
<1>11. fa \in Seq(Frame) /\ fd \in Seq(Frame)
  BY <1>8, <1>9, FrameShape
<1> DEFINE wa == wires[p] \o fa
<1>12. wa \in Seq(Frame) /\ Len(wa) = Len(wires[p]) + k
  BY <1>4, <1>8, <1>11, ConcatProperties
<1> HIDE DEF wa
<1>w. w = wa \o fd
  BY DEF wa, fa, fd
<1> HIDE DEF w
<1>13. w \in Seq(Frame) /\ Len(w) = Len(wires[p]) + k + d
  <2>1. wa \o fd \in Seq(Frame) /\ Len(wa \o fd) = Len(wa) + Len(fd)
    BY <1>11, <1>12, ConcatProperties
  <2> QED BY <1>9, <1>12, <1>w, <2>1
<1>14. u.sent \o fd \in Seq(IFrame) /\ Len(u.sent \o fd) = Len(u.sent) + d
  <2>1. u.sent \in Seq(IFrame)
    BY <1>1
  <2>2. u.sent \o fd \in Seq(IFrame) /\ Len(u.sent \o fd) = Len(u.sent) + Len(fd)
    BY <1>9, <2>1, ConcatProperties
  <2> QED BY <1>9, <2>2
<1> HIDE DEF d, k
<1>15. /\ wire' \in [Peer -> Seq(Frame)] /\ ackPDUs' \in [Peer -> Seq(AckFrame)]
       /\ sentPDUs' \in [Peer -> Seq(IFrame)] /\ toRetransmit' \in [Peer -> Seq(IFrame)]
       /\ timeoutSet' \in [Peer -> BOOLEAN] /\ sendNow' \in [Peer -> BOOLEAN]
       /\ activeCompound' \in [Peer -> IFrame \cup {NoCompound}]
      /\ sentAgain' \in [Peer -> SUBSET Nat]
  BY <1>1, <1>tw, <1>7, <1>8, <1>r, <1>13, <1>14 DEF TypeOK, fd, d
<1>16. ASSUME NEW q \in Peer, q # p PROVE Members(q)' = Members(q) /\ wire'[q] = wires[q]
  BY <1>7, <1>16 DEF TypeOK, Members
<1>17. /\ v.sent = u.sent \o fd /\ v.again = Rest(u.again, d) /\ v.acks = Rest(u.acks, k)
       /\ v.timer = (u.timer \/ d > 0) /\ v.now = (u.now /\ d <= Len(u.again))
       /\ v.twice = tw
       /\ v.active = IF d > Len(u.again) THEN NoCompound ELSE u.active
  BY <1>7 DEF TypeOK, Members, fd, d, k
<1>18. v \in MembersType /\ v.acks = ackPDUs'[p]
  BY <1>15 DEF Members, MembersType
<1> HIDE DEF v
<1>19. KeptBy(v) = KeptBy(u)
  <2>1. v.sent = u.sent \o Front(u.again \o Active(u), d)
    BY <1>3, <1>17 DEF fd, d
  <2> QED BY <1>10, <1>17, <1>18, <2>1, MovedOn
<1>k. Range(KeptBy(u)) = (Range(u.sent) \cup Range(u.again)) \cup Range(Active(u))
  <2>1. /\ u.sent \o u.again \in Seq(IFrame)
        /\ Range(u.sent \o u.again) = Range(u.sent) \cup Range(u.again)
    BY <1>1, ConcatRange
  <2> DEFINE sa == u.sent \o u.again
  <2>2. sa \in Seq(IFrame) /\ Range(sa) = Range(u.sent) \cup Range(u.again)
    BY <2>1
  <2>3. KeptBy(u) = sa \o Active(u)
    BY DEF KeptBy
  <2> HIDE DEF sa
  <2>4. Active(u) \in Seq(IFrame)
    BY <1>1
  <2> QED BY <2>2, <2>3, <2>4, ConcatRange
<1>20. ASSUME NEW acc, NEW N, Sound(u, acc, N) PROVE Sound(v, acc, N)
  <2>1. v.now <=> v.active # NoCompound
    <3>1. CASE d <= Len(u.again)
      BY <1>1, <1>10, <1>17, <3>1
    <3>2. CASE d > Len(u.again)
      <4>1. ~(d <= Len(u.again))
        BY <1>10, <3>2
      <4>2. v.active = NoCompound /\ ~v.now
        BY <1>17, <3>2, <4>1
      <4> QED BY <4>2
    <3>3. u.now <=> u.active # NoCompound
      BY <1>20 DEF Sound, Keeps
    <3> QED BY <1>10, <3>1, <3>2
  <2>2. v.timer => v.sent # << >>
    <3>1. u.timer => u.sent # << >>
      BY <1>20 DEF Sound, Keeps
    <3>2. \A s \in Seq(IFrame) : s # << >> <=> Len(s) # 0
      OBVIOUS
    <3>3. u.sent \in Seq(IFrame) /\ v.sent \in Seq(IFrame) /\ v.timer = (u.timer \/ d > 0)
      BY <1>1, <1>14, <1>17
    <3>4. Len(v.sent) = Len(u.sent) + d /\ Len(u.sent) \in Nat /\ d \in Nat
      BY <1>1, <1>10, <1>14, <1>17
    <3>5. Len(v.sent) # 0 <=> Len(u.sent) # 0 \/ d > 0
      BY <3>4
    <3> QED BY <1>1, <3>1, <3>2, <3>3, <3>5
  <2>3. v.twice \subseteq N
    <3>1. u.twice \subseteq N /\ \A n \in Nat : Has(KeptBy(u), n) => n \in N
      BY <1>20 DEF Sound, Keeps
    <3>2. ASSUME NEW x \in Range(u.again) PROVE x.NS \in N
      <4>1. x \in Range(KeptBy(u)) /\ x.NS \in Nat
        BY <1>1, <1>k, <3>2, FrameShape, ElementsInRange
      <4> QED BY <3>1, <4>1 DEF Has
    <3> QED BY <1>tw, <1>17, <3>1, <3>2
  <2> QED BY <1>19, <1>20, <2>1, <2>2, <2>3 DEF Sound, Keeps
<1>21. Len(wire'[p]) <= WireCap
  <2>1. k + d <= WireCap - Len(wires[p]) /\ k \in Nat /\ d \in Nat /\ Len(wires[p]) \in Nat
    BY <1>1, <1>4, <1>6, <1>10 DEF k, d, room
  <2>2. wire'[p] = w
    BY <1>7
  <2> QED BY <1>4, <1>13, <2>1, <2>2
<1>22. ASSUME NEW acc, AllCarry(wires[p], acc), AllCarry(KeptBy(u), acc) PROVE AllCarry(w, acc)
  <2>1. Range(fa) \subseteq AckFrame
    BY <1>8, ElementsInRange DEF fa
  <2>2. AllCarry(fa, acc)
    BY <2>1, FrameShape DEF AllCarry
  <2>4. Range(data) = Range(u.again) \cup Range(Active(u))
    BY <1>1, <1>3, ConcatRange
  <2>5. Range(fd) \subseteq Range(data)
    <3> DEFINE r == Rest(data, datas)
    <3>1. fd \in Seq(IFrame) /\ r \in Seq(IFrame) /\ data = fd \o r
      BY <1>9
    <3> HIDE DEF r
    <3>2. Range(fd \o r) = Range(fd) \cup Range(r)
      BY <3>1, ConcatRange
    <3> QED BY <3>1, <3>2
  <2>6. AllCarry(fd, acc)
    BY <1>k, <1>22, <2>4, <2>5 DEF AllCarry
  <2>7. AllCarry(wa, acc)
    BY <1>4, <1>11, <1>22, <2>2, ConcatRange DEF wa
  <2> QED BY <1>11, <1>12, <1>w, <2>6, <2>7, ConcatRange
<1>25. Range(fa) \subseteq Range(u.acks) /\ Range(Rest(u.acks, acks)) \subseteq Range(u.acks)
  <2> DEFINE r == Rest(u.acks, acks)
             a == u.acks
  <2>1. fa \in Seq(AckFrame) /\ r \in Seq(AckFrame) /\ a = fa \o r
    <3>1. a \in Seq(AckFrame) /\ acks \in 0 .. Len(a)
      BY <1>1, <1>6
    <3>2. fa = Front(a, acks) /\ r = Rest(a, acks)
      BY DEF fa
    <3> HIDE DEF a, r
    <3>3. /\ Front(a, acks) \in Seq(AckFrame) /\ Rest(a, acks) \in Seq(AckFrame)
          /\ a = Front(a, acks) \o Rest(a, acks)
      BY <3>1, FrontRest
    <3> QED BY <3>2, <3>3
  <2>3. Range(a) = Range(fa) \cup Range(r)
    <3> HIDE DEF r, a
    <3>1. Range(fa \o r) = Range(fa) \cup Range(r)
      BY <2>1, ConcatRange
    <3> QED BY <2>1, <3>1
  <2> QED BY <2>3
<1>23. ASSUME NEW f \in Range(w)
       PROVE  f \in Range(wires[p]) \/ f \in Range(u.acks) \/ (f \in IFrame /\ f \in Range(v.sent))
  <2>1. Range(w) = Range(wires[p]) \cup Range(fa) \cup Range(fd)
    <3>1. Range(wa) = Range(wires[p]) \cup Range(fa)
      BY <1>4, <1>11, ConcatRange DEF wa
    <3> QED BY <1>11, <1>12, <1>w, <3>1, ConcatRange
  <2>2. Range(fd) \subseteq IFrame
    BY <1>9, ElementsInRange
  <2>3. Range(v.sent) = Range(u.sent) \cup Range(fd)
    <3> DEFINE b == u.sent
    <3>1. b \in Seq(IFrame) /\ fd \in Seq(IFrame) /\ v.sent = b \o fd
      BY <1>1, <1>9, <1>17
    <3> HIDE DEF b
    <3>2. Range(b \o fd) = Range(b) \cup Range(fd)
      BY <3>1, ConcatRange
    <3> QED BY <3>1, <3>2 DEF b
  <2> QED BY <1>25, <2>1, <2>2, <2>3
<1>24. wire'[p] = w
  BY <1>7
<1>26. Range(ackPDUs'[p]) \subseteq Range(u.acks)
  BY <1>17, <1>18, <1>25 DEF k
<1>27. ASSUME NEW n, Waits(v, n) PROVE Waits(u, n)
  BY <1>17, <1>27 DEF Waits
<1>28. v.sent = sentPDUs'[p]
  BY DEF v, Members
<1>29. \A f \in Range(wire'[p]) : \/ f \in Range(wires[p]) \/ f \in Range(u.acks)
                                  \/ (f \in IFrame /\ f \in Range(sentPDUs'[p]))
  BY <1>23, <1>24, <1>28
<1>30. \A acc : AllCarry(wires[p], acc) /\ AllCarry(KeptBy(u), acc) => AllCarry(wire'[p], acc)
  BY <1>22, <1>24
<1>31. /\ \A acc, N : Sound(u, acc, N) => Sound(v, acc, N)
       /\ \A n : Waits(v, n) => Waits(u, n)
  BY <1>20, <1>27
<1>32. \A acc, N : Sound(u, acc, N) => Sound(Members(p)', acc, N)
  BY <1>31 DEF v
<1>33. \A n : Waits(Members(p)', n) => Waits(u, n)
  BY <1>31 DEF v
<1> QED BY <1>15, <1>16, <1>21, <1>26, <1>29, <1>30, <1>32, <1>33, Zenon

-------------------------------------------------------------------------------
(* What the handlers leave behind before they send.                        *)

LEMMA PeerTypes ==
  ASSUME TypeOK, NEW p \in Peer
  PROVE  /\ NS[p] \in Nat /\ LA[p] \in Nat /\ NR[p] \in Nat
         /\ accepted[p] \in Seq(SDU) /\ Len(accepted[p]) \in Nat
         /\ delivered[p] \in Seq(SDU) /\ Len(delivered[p]) \in Nat
         /\ receivedPDUs[p] \in SUBSET IFrame /\ receivedACKs[p] \in SUBSET Nat
         /\ wire[p] \in Seq(Frame) /\ ackPDUs[p] \in Seq(AckFrame)
<1>1. /\ NS[p] \in Nat /\ LA[p] \in Nat /\ NR[p] \in Nat
      /\ accepted[p] \in Seq(SDU) /\ delivered[p] \in Seq(SDU)
      /\ receivedPDUs[p] \in SUBSET IFrame /\ receivedACKs[p] \in SUBSET Nat
      /\ wire[p] \in Seq(Frame) /\ ackPDUs[p] \in Seq(AckFrame)
  BY DEF TypeOK
<1> QED BY <1>1, LenProperties

LEMMA NumbersOf ==
  ASSUME NEW s \in Seq(IFrame)
  PROVE  /\ \A n : n \in Numbers(s) <=> Has(s, n)
         /\ \A x \in Range(s) : x.NS \in Numbers(s)
<1>1. /\ \A i \in 1 .. Len(s) : s[i] \in Range(s)
      /\ \A x \in Range(s) : \E i \in 1 .. Len(s) : x = s[i]
  BY ElementsInRange
<1> QED BY <1>1 DEF Numbers, Has

(* prepareRetransmission() keeps every frame. *)
LEMMA PreparedKeeps ==
  ASSUME NEW u \in MembersType, NEW acc, NEW N, Keeps(u, acc, N), NEW acks, NEW due
  PROVE  /\ Prepared(u, acks, due) \in MembersType /\ Keeps(Prepared(u, acks, due), acc, N)
         /\ Prepared(u, acks, due).acks = u.acks
         /\ Prepared(u, acks, due).timer = u.timer
         /\ Prepared(u, acks, due).active = u.active
<1> DEFINE v == Prepared(u, acks, due)
           C == Chosen(u.sent, acks, u.twice, due)
           D == Numbers(u.sent) \ C
           s == u.sent
           t == u.again
           a == Active(u)
           g == WithNumbers(s, C)
           r == WithNumbers(s, D)
<1>1. /\ u.sent \in Seq(IFrame) /\ u.again \in Seq(IFrame) /\ u.acks \in Seq(AckFrame)
      /\ u.active \in IFrame \cup {NoCompound} /\ u.now \in BOOLEAN /\ u.timer \in BOOLEAN
      /\ u.twice \in SUBSET Nat /\ Active(u) \in Seq(IFrame)
  BY ActiveIsList
<1>2. /\ v.sent = r /\ v.again = t \o g /\ v.active = u.active /\ v.twice = u.twice
      /\ v.now = u.now /\ v.acks = u.acks /\ v.timer = u.timer
      /\ v = [u EXCEPT !.again = t \o g, !.sent = r]
  BY DEF Prepared, MembersType
<1>3. Active(v) = a
  BY <1>2 DEF Active
<1>c. \A x \in Range(s) : x.NS \in D <=> x.NS \notin C
  BY <1>1, NumbersOf
<1> HIDE DEF C, D
<1>4. /\ g \in Seq(IFrame) /\ Range(g) = {x \in Range(s) : x.NS \in C}
      /\ Distinct(s) => Distinct(g)
  BY <1>1, WithNumbersIs
<1>5. /\ r \in Seq(IFrame) /\ Range(r) = {x \in Range(s) : x.NS \in D}
      /\ Distinct(s) => Distinct(r)
  BY <1>1, WithNumbersIs
<1>6. s \in Seq(IFrame) /\ t \in Seq(IFrame) /\ a \in Seq(IFrame)
  BY <1>1
<1>7. KeptBy(u) = (s \o t) \o a /\ KeptBy(v) = (r \o (t \o g)) \o a
  BY <1>2, <1>3 DEF KeptBy
<1>8. /\ Distinct(KeptBy(u)) /\ AllCarry(KeptBy(u), acc) /\ u.twice \subseteq N
      /\ u.now <=> u.active # NoCompound
      /\ \A n \in Nat : Has(KeptBy(u), n) <=> n \in N
  BY DEF Keeps
<1> HIDE DEF s, t, a, g, r, v
<1>9. t \o g \in Seq(IFrame)
  BY <1>4, <1>6, ConcatProperties
<1>10. v \in MembersType
  BY <1>1, <1>2, <1>5, <1>9 DEF MembersType
<1> DEFINE tg == t \o g
<1>11. /\ tg \in Seq(IFrame) /\ Range(tg) = Range(t) \cup Range(g)
       /\ Distinct(tg) <=> Distinct(t) /\ Distinct(g) /\ Apart(t, g)
  BY <1>4, <1>6, ConcatRange, ConcatDistinct
<1> HIDE DEF tg
<1>12. /\ Distinct(s) /\ Distinct(t) /\ Distinct(a)
       /\ Apart(s, t) /\ Apart(s, a) /\ Apart(t, a)
  BY <1>6, <1>7, <1>8, KeptParts
<1>13. Range(KeptBy(u)) = Range(s) \cup Range(t) \cup Range(a)
  BY <1>6, <1>7, KeptParts
<1>14. Range(KeptBy(v)) = Range(r) \cup Range(tg) \cup Range(a)
  <2>1. KeptBy(v) = (r \o tg) \o a
    BY <1>7 DEF tg
  <2> QED BY <1>5, <1>6, <1>11, <2>1, KeptParts
<1>15. Range(r) \cup Range(g) = Range(s)
  BY <1>4, <1>5, <1>c
<1>16. Range(KeptBy(v)) = Range(KeptBy(u))
  BY <1>11, <1>13, <1>14, <1>15
<1>17. Distinct(KeptBy(v))
  <2>1. Distinct(r) /\ Distinct(tg)
    <3>1. Apart(t, g)
      BY <1>4, <1>12, <1>15 DEF Apart
    <3> QED BY <1>4, <1>5, <1>11, <1>12, <3>1
  <2>2. Apart(r, tg)
    <3>1. Apart(r, t)
      BY <1>12, <1>15 DEF Apart
    <3>2. Apart(r, g)
      BY <1>4, <1>5, <1>c DEF Apart
    <3> QED BY <1>11, <3>1, <3>2 DEF Apart
  <2>3. Apart(r, a) /\ Apart(tg, a)
    BY <1>11, <1>12, <1>15 DEF Apart
  <2>4. Distinct((r \o tg) \o a)
    BY <1>5, <1>6, <1>11, <1>12, <2>1, <2>2, <2>3, KeptParts
  <2> QED BY <1>7, <2>4 DEF tg
<1>18. AllCarry(KeptBy(v), acc) /\ \A n \in Nat : Has(KeptBy(v), n) <=> n \in N
  BY <1>8, <1>16 DEF AllCarry, Has
<1>19. Keeps(v, acc, N)
  BY <1>2, <1>8, <1>17, <1>18 DEF Keeps
<1> QED BY <1>2, <1>10, <1>19 DEF v

LEMMA TimerIfSentKeeps ==
  ASSUME NEW u \in MembersType, NEW acc, NEW N, Keeps(u, acc, N)
  PROVE  /\ TimerIfSent(u) \in MembersType /\ Sound(TimerIfSent(u), acc, N)
         /\ TimerIfSent(u).acks = u.acks /\ TimerIfSent(u).active = u.active
<1> DEFINE v == TimerIfSent(u)
<1>1. /\ v.sent = u.sent /\ v.again = u.again /\ v.active = u.active /\ v.twice = u.twice
      /\ v.now = u.now /\ v.acks = u.acks /\ v.timer = (u.timer /\ u.sent # << >>)
      /\ v \in MembersType
  BY DEF TimerIfSent, MembersType
<1> HIDE DEF v
<1>2. KeptBy(v) = KeptBy(u)
  BY <1>1 DEF KeptBy, Active
<1>3. Keeps(v, acc, N)
  BY <1>1, <1>2 DEF Keeps
<1> QED BY <1>1, <1>3 DEF Sound, v

(* The frame with number n is acknowledged: all others are still kept. *)
LEMMA WithoutACKedKeeps ==
  ASSUME IInv, NEW p \in Peer, NEW n \in Nat, ~Waits(Members(p), n)
  PROVE  /\ WithoutACKed(p, n) \in MembersType /\ WithoutACKed(p, n).acks = ackPDUs[p]
         /\ WithoutACKed(p, n).active = activeCompound[p]
         /\ Keeps(WithoutACKed(p, n), accepted[p], Unacknowledged(p) \ {n})
<1> DEFINE v == Members(p)
           u == WithoutACKed(p, n)
           acc == accepted[p]
           N == Unacknowledged(p)
           s == removeACKed(n, v.sent)
           t == removeACKed(n, v.again)
           a == Active(v)
<1>1. /\ v \in MembersType /\ Keeps(v, acc, N)
      /\ v.acks = ackPDUs[p] /\ v.active = activeCompound[p]
  BY MembersInType DEF IInv, SenderInv, Sound
<1>2. u = [v EXCEPT !.sent = s, !.again = t, !.twice = v.twice \ {n}]
  BY DEF WithoutACKed
<1> HIDE DEF v, u, acc, N
<1>3. /\ v.sent \in Seq(IFrame) /\ v.again \in Seq(IFrame) /\ v.acks \in Seq(AckFrame)
      /\ v.active \in IFrame \cup {NoCompound} /\ v.now \in BOOLEAN /\ v.timer \in BOOLEAN
      /\ v.twice \in SUBSET Nat /\ Active(v) \in Seq(IFrame)
  BY <1>1, ActiveIsList
<1>4. /\ s \in Seq(IFrame) /\ Range(s) = {x \in Range(v.sent) : x.NS # n}
      /\ Distinct(v.sent) => Distinct(s)
  <2> DEFINE D == Numbers(v.sent) \ {n}
  <2>1. \A x \in Range(v.sent) : x.NS \in D <=> x.NS # n
    BY <1>3, NumbersOf
  <2>2. s = WithNumbers(v.sent, D)
    BY DEF removeACKed
  <2> HIDE DEF D, s
  <2> QED BY <1>3, <2>1, <2>2, WithNumbersIs
<1>5. /\ t \in Seq(IFrame) /\ Range(t) = {x \in Range(v.again) : x.NS # n}
      /\ Distinct(v.again) => Distinct(t)
  <2> DEFINE D == Numbers(v.again) \ {n}
  <2>1. \A x \in Range(v.again) : x.NS \in D <=> x.NS # n
    BY <1>3, NumbersOf
  <2>2. t = WithNumbers(v.again, D)
    BY DEF removeACKed
  <2> HIDE DEF D, t
  <2> QED BY <1>3, <2>1, <2>2, WithNumbersIs
<1> HIDE DEF s, t
<1>6. /\ u.sent = s /\ u.again = t /\ u.acks = v.acks /\ u.active = v.active
      /\ u.now = v.now /\ u.twice = v.twice \ {n} /\ u \in MembersType
  BY <1>1, <1>2, <1>3, <1>4, <1>5 DEF MembersType
<1>7. Active(u) = a
  BY <1>6 DEF Active
<1>8. KeptBy(u) = (s \o t) \o a /\ KeptBy(v) = (v.sent \o v.again) \o a /\ a \in Seq(IFrame)
  BY <1>3, <1>6, <1>7 DEF KeptBy
<1>a. \A x \in Range(a) : x.NS # n
  <2>1. CASE v.active = NoCompound
    BY <2>1, Empty DEF Active
  <2>2. CASE v.active # NoCompound
    <3>1. v.active \in IFrame /\ v.active.NS # n
      BY <1>3, <2>2 DEF Waits, v
    <3>2. a = <<v.active>>
      BY <2>2 DEF Active
    <3>3. Range(a) = {v.active}
      BY <3>1, <3>2, Single
    <3> QED BY <3>1, <3>3
  <2> QED BY <2>1, <2>2
<1> HIDE DEF a
<1>k. /\ v.now <=> v.active # NoCompound
      /\ Distinct(KeptBy(v)) /\ AllCarry(KeptBy(v), acc) /\ v.twice \subseteq N
      /\ \A m \in Nat : Has(KeptBy(v), m) <=> m \in N
  BY <1>1 DEF Keeps
<1>9. Distinct(KeptBy(u))
  <2>1. /\ Distinct(v.sent) /\ Distinct(v.again) /\ Distinct(a)
        /\ Apart(v.sent, v.again) /\ Apart(v.sent, a) /\ Apart(v.again, a)
    BY <1>k, <1>3, <1>8, KeptParts
  <2>2. Apart(s, t) /\ Apart(s, a) /\ Apart(t, a)
    BY <1>4, <1>5, <2>1 DEF Apart
  <2> QED BY <1>4, <1>5, <1>8, <2>1, <2>2, KeptParts
<1>10. /\ Range(KeptBy(u)) = Range(s) \cup Range(t) \cup Range(a)
       /\ Range(KeptBy(v)) = Range(v.sent) \cup Range(v.again) \cup Range(a)
  BY <1>3, <1>4, <1>5, <1>8, KeptParts
<1>11. Range(KeptBy(u)) = {x \in Range(KeptBy(v)) : x.NS # n}
  BY <1>4, <1>5, <1>a, <1>10
<1>12. AllCarry(KeptBy(u), acc) /\ \A m \in Nat : Has(KeptBy(u), m) <=> m \in N \ {n}
  BY <1>11, <1>k DEF AllCarry, Has
<1>13. Keeps(u, acc, N \ {n})
  BY <1>6, <1>9, <1>12, <1>k DEF Keeps
<1> QED BY <1>1, <1>6, <1>13 DEF u, acc, N

-------------------------------------------------------------------------------
(* The inductive invariant, action by action.                              *)

(* What every handler that ends with tryToSend() has to see to: u are the  *)
(* members it leaves, wires the frames under way when it sends.            *)
LEMMA SendingKeeps ==
  ASSUME IInv, NEW p \in Peer, NEW u \in MembersType,
         NEW wires \in [Peer -> Seq(Frame)], TryToSend(p, u, wires),
         \A q \in Peer : Len(wires[q]) <= WireCap /\ Range(wires[q]) \subseteq Range(wire[q]),
         \A q \in Peer : q # p => /\ NS'[q] = NS[q] /\ LA'[q] = LA[q]
                                  /\ receivedACKs'[q] = receivedACKs[q]
                                  /\ accepted'[q] = accepted[q],
         NS'[p] = Len(accepted'[p]),
         receivedACKs'[p] \subseteq LA'[p] + 1 .. NS'[p] - 1,
         Sound(u, accepted'[p], Unacknowledged(p)'),
         \A f \in Frame : Carries(f, accepted[p]) => Carries(f, accepted'[p]),
         \A f \in Range(wire[p]) : f.type = "I" => ~Waits(u, f.NS),
         \A f \in Range(u.acks) : Holds(p, f.NS)',
         \A q \in Peer, n \in Nat : Holds(q, n) => Holds(q, n)',
         \A n \in Acked(p)' : Holds(Other(p), n)',
         \A n \in Nat : Holds(Other(p), n)' => ~Waits(u, n),
         \A n \in Nat : Holds(p, n)' => ~Waits(Members(Other(p)), n)
  PROVE  /\ wire' \in [Peer -> Seq(Frame)] /\ ackPDUs' \in [Peer -> Seq(AckFrame)]
         /\ sentPDUs' \in [Peer -> Seq(IFrame)] /\ toRetransmit' \in [Peer -> Seq(IFrame)]
         /\ timeoutSet' \in [Peer -> BOOLEAN] /\ sendNow' \in [Peer -> BOOLEAN]
         /\ activeCompound' \in [Peer -> IFrame \cup {NoCompound}]
         /\ sentAgain' \in [Peer -> SUBSET Nat]
         /\ \A q \in Peer : SenderInv(q)' /\ WireInv(q)' /\ RepliesInv(q)'
<1> DEFINE q == Other(p)
           v == Members(p)'
<1>1. q \in Peer /\ q # p /\ Other(q) = p /\ \A r \in Peer : r = p \/ r = q
  BY PeerFacts
<1>2. /\ TypeOK /\ (u.now <=> u.active # NoCompound) /\ Len(wires[p]) <= WireCap
      /\ \A r \in Peer : SenderInv(r) /\ WireInv(r) /\ RepliesInv(r)
      /\ AllCarry(KeptBy(u), accepted'[p]) /\ wires[p] \in Seq(Frame) /\ wires[q] \in Seq(Frame)
  BY <1>1 DEF IInv, Sound, Keeps
<1>3. /\ wire' \in [Peer -> Seq(Frame)] /\ ackPDUs' \in [Peer -> Seq(AckFrame)]
      /\ sentPDUs' \in [Peer -> Seq(IFrame)] /\ toRetransmit' \in [Peer -> Seq(IFrame)]
      /\ timeoutSet' \in [Peer -> BOOLEAN] /\ sendNow' \in [Peer -> BOOLEAN]
      /\ activeCompound' \in [Peer -> IFrame \cup {NoCompound}]
      /\ sentAgain' \in [Peer -> SUBSET Nat]
      /\ \A r \in Peer : r # p => Members(r)' = Members(r) /\ wire'[r] = wires[r]
      /\ \A acc, N : Sound(u, acc, N) => Sound(v, acc, N)
      /\ Len(wire'[p]) <= WireCap
      /\ \A acc : AllCarry(wires[p], acc) /\ AllCarry(KeptBy(u), acc)
                     => AllCarry(wire'[p], acc)
      /\ \A f \in Range(wire'[p]) : \/ f \in Range(wires[p]) \/ f \in Range(u.acks)
                                    \/ (f \in IFrame /\ f \in Range(sentPDUs'[p]))
      /\ \A n : Waits(v, n) => Waits(u, n)
      /\ Range(ackPDUs'[p]) \subseteq Range(u.acks)
  BY <1>2, TryToSendKeeps
<1>4. Members(q)' = Members(q) /\ wire'[q] = wires[q] /\ ackPDUs'[q] = ackPDUs[q]
  <2>1. Members(q)' = Members(q) /\ wire'[q] = wires[q]
    BY <1>1, <1>3
  <2>2. ackPDUs'[q] = ackPDUs[q]
    BY <1>1, <1>2 DEF TryToSend, TypeOK
  <2> QED BY <2>1, <2>2
<1> HIDE DEF q, v
<1>5. /\ NS'[q] = NS[q] /\ LA'[q] = LA[q] /\ receivedACKs'[q] = receivedACKs[q]
      /\ accepted'[q] = accepted[q]
  BY <1>1
<1>v. v = Members(p)' /\ v \in MembersType /\ v.sent = sentPDUs'[p]
  BY <1>3 DEF v, Members, MembersType
<1>6. Sound(v, accepted'[p], Unacknowledged(p)')
  BY <1>3
<1>7. SenderInv(p)'
  BY <1>6, <1>v DEF SenderInv
<1>8. SenderInv(q)'
  BY <1>1, <1>2, <1>4, <1>5 DEF SenderInv, Unacknowledged
<1>f. /\ \A r \in Peer : \A f \in Range(wires[r]) : f \in Range(wire[r]) /\ f \in Frame
      /\ \A r \in Peer : \A f \in Range(wires[r]) : f.type \in {"I", "ACK"}
  <2>1. \A r \in Peer : Range(wires[r]) \subseteq Frame
    BY ElementsInRange
  <2>2. \A f \in Frame : f.type \in {"I", "ACK"}
    BY FrameShape DEF Frame
  <2> QED BY <2>1, <2>2
<1>9. WireInv(p)'
  <2>1. AllCarry(wires[p], accepted'[p])
    <3>1. AllCarry(wire[p], accepted[p])
      BY <1>2 DEF WireInv
    <3> QED BY <1>f, <3>1 DEF AllCarry
  <2>2. AllCarry(wire'[p], accepted'[p])
    BY <1>2, <1>3, <2>1
  <2>3. ASSUME NEW f \in Range(wire'[p]), f.type = "I" PROVE ~Waits(v, f.NS)
    <3>1. CASE f \in Range(wires[p])
      BY <1>3, <1>f, <2>3, <3>1
    <3>2. CASE f \in Range(u.acks)
      <4>1. u.acks \in Seq(AckFrame)
        BY ActiveIsList
      <4>2. f \in AckFrame
        BY <3>2, <4>1, ElementsInRange
      <4> QED BY <2>3, <4>2, FrameShape
    <3>3. CASE f \in IFrame /\ f \in Range(sentPDUs'[p])
      <4>1. f \in Range(v.sent)
        BY <1>v, <3>3
      <4>2. /\ v.sent \in Seq(IFrame) /\ v.again \in Seq(IFrame) /\ Active(v) \in Seq(IFrame)
            /\ v.active \in IFrame \cup {NoCompound}
        BY <1>v, ActiveIsList
      <4>3. Distinct(KeptBy(v))
        BY <1>6 DEF Sound, Keeps
      <4>4. Apart(v.sent, Active(v))
        <5> DEFINE s == v.sent
                   t == v.again
                   a == Active(v)
        <5>1. s \in Seq(IFrame) /\ t \in Seq(IFrame) /\ a \in Seq(IFrame)
              /\ Distinct((s \o t) \o a)
          BY <4>2, <4>3 DEF KeptBy
        <5> HIDE DEF s, t, a
        <5>2. Apart(s, a)
          BY <5>1, KeptParts
        <5> QED BY <5>2 DEF s, a
      <4>5. ASSUME v.active # NoCompound PROVE v.active.NS # f.NS
        <5>1. v.active \in IFrame /\ Active(v) = <<v.active>>
          BY <4>2, <4>5 DEF Active
        <5>2. v.active \in Range(Active(v))
          BY <5>1, Single
        <5> QED BY <4>1, <4>4, <5>2 DEF Apart
      <4> QED BY <4>5 DEF Waits
    <3> QED BY <1>3, <3>1, <3>2, <3>3
  <2> QED BY <1>3, <1>v, <2>2, <2>3 DEF WireInv
<1>10. WireInv(q)'
  <2>1. AllCarry(wire[q], accepted[q]) /\ \A f \in Range(wire[q]) : f.type = "I" => ~Waits(Members(q), f.NS)
    BY <1>1, <1>2 DEF WireInv
  <2>2. AllCarry(wires[q], accepted[q])
    BY <1>1, <1>f, <2>1 DEF AllCarry
  <2> QED BY <1>1, <1>4, <1>5, <1>f, <2>1, <2>2 DEF WireInv
<1>a. ASSUME NEW r \in Peer, NEW f \in Range(wires[r]), f.type = "ACK" PROVE Holds(r, f.NS)'
  <2>1. f \in Range(wire[r]) /\ f.NS \in Nat
    BY <1>f, FrameShape
  <2>2. Holds(r, f.NS)
    BY <1>2, <1>a, <2>1 DEF RepliesInv, AcksHeld
  <2> QED BY <2>1, <2>2
<1>11. RepliesInv(p)'
  <2>1. AcksHeld(wire[p], p)'
    <3>1. ASSUME NEW f \in Range(wire'[p]), f.type = "ACK" PROVE Holds(p, f.NS)'
      <4>1. f \in Range(wires[p]) \/ f \in Range(u.acks)
        BY <1>3, <3>1, FrameShape
      <4> QED BY <1>a, <3>1, <4>1
    <3> QED BY <3>1 DEF AcksHeld
  <2>2. AcksHeld(ackPDUs[p], p)'
    BY <1>3 DEF AcksHeld
  <2>3. \A n \in Acked(q)' : Holds(p, n)'
    <3>1. Acked(q)' = Acked(q)
      BY <1>5 DEF Acked
    <3>2. \A n \in Acked(q) : n \in Nat /\ Holds(p, n)
      BY <1>1, <1>2, PeerTypes DEF RepliesInv, Acked, q
    <3> QED BY <3>1, <3>2
  <2>4. \A n \in Nat : Holds(p, n)' => ~Waits(Members(q)', n)
    BY <1>4 DEF q
  <2> QED BY <2>1, <2>2, <2>3, <2>4 DEF RepliesInv, q
<1>12. RepliesInv(q)'
  <2>1. AcksHeld(wire[q], q)'
    BY <1>1, <1>4, <1>a DEF AcksHeld
  <2>2. AcksHeld(ackPDUs[q], q)'
    <3>1. ackPDUs[q] \in Seq(AckFrame) /\ AcksHeld(ackPDUs[q], q)
      BY <1>1, <1>2, PeerTypes DEF RepliesInv
    <3>2. \A f \in Range(ackPDUs[q]) : f.NS \in Nat /\ f.type = "ACK"
      BY <3>1, ElementsInRange, FrameShape
    <3>3. \A f \in Range(ackPDUs[q]) : Holds(q, f.NS)'
      BY <1>1, <3>1, <3>2 DEF AcksHeld
    <3> QED BY <1>4, <3>3 DEF AcksHeld
  <2>3. \A n \in Acked(Other(q))' : Holds(q, n)'
    BY <1>1 DEF q
  <2>4. \A n \in Nat : Holds(q, n)' => ~Waits(Members(Other(q))', n)
    BY <1>1, <1>3, <1>v DEF q
  <2> QED BY <2>1, <2>2, <2>3, <2>4 DEF RepliesInv
<1> QED BY <1>1, <1>3, <1>7, <1>8, <1>9, <1>10, <1>11, <1>12

LEMMA TypesFollow ==
  ASSUME NS' \in [Peer -> Nat], NR' \in [Peer -> Nat], LA' \in [Peer -> Nat],
         activeCompound' \in [Peer -> IFrame \cup {NoCompound}],
         sendNow' \in [Peer -> BOOLEAN], timeoutSet' \in [Peer -> BOOLEAN],
         sentPDUs' \in [Peer -> Seq(IFrame)], toRetransmit' \in [Peer -> Seq(IFrame)],
         sentAgain' \in [Peer -> SUBSET Nat], receivedACKs' \in [Peer -> SUBSET Nat],
         receivedPDUs' \in [Peer -> SUBSET IFrame], ackPDUs' \in [Peer -> Seq(AckFrame)],
         delayingDelivery' \in [Peer -> BOOLEAN],
         suspending' \in [Peer -> BOOLEAN], suspended' \in [Peer -> BOOLEAN],
         wire' \in [Peer -> Seq(Frame)],
         accepted' \in [Peer -> Seq(SDU)], delivered' \in [Peer -> Seq(SDU)],
         failure' = "none",
         \A q \in Peer : SenderInv(q)'
  PROVE  TypeOK'
<1>1. ASSUME NEW q \in Peer
      PROVE  /\ sentAgain'[q] \subseteq LA'[q] .. NS'[q] - 1
             /\ receivedACKs'[q] \subseteq LA'[q] + 1 .. NS'[q] - 1
  <2>1. SenderInv(q)' /\ Members(q)'.twice = sentAgain'[q]
    BY DEF Members
  <2>2. Members(q)'.twice \subseteq Unacknowledged(q)'
    BY <2>1 DEF SenderInv, Sound, Keeps
  <2>3. Unacknowledged(q)' \subseteq LA'[q] .. NS'[q] - 1
    BY DEF Unacknowledged
  <2> QED BY <2>1, <2>2, <2>3 DEF SenderInv
<1> QED BY <1>1 DEF TypeOK

(* Nothing is held that was not accepted. *)
LEMMA HeldWasAccepted ==
  ASSUME IInv, NEW p \in Peer, NEW n \in Nat, Holds(p, n)
  PROVE  n < NS[Other(p)]
<1> DEFINE q == Other(p)
<1>1. q \in Peer
  BY PeerFacts
<1>2. /\ NS[q] = Len(accepted[q]) /\ NR[p] <= Len(accepted[q]) /\ NR[p] \in Nat
      /\ Len(accepted[q]) \in Nat
      /\ \A f \in receivedPDUs[p] : f.NS < Len(accepted[q])
  BY <1>1, PeerTypes DEF IInv, ReceiverInv, HandedUp, HeldBack, Carries, SenderInv
<1> HIDE DEF q
<1>3. CASE n < NR[p]
  BY <1>2, <1>3 DEF q
<1>4. CASE \E f \in receivedPDUs[p] : f.NS = n
  BY <1>2, <1>4 DEF q
<1> QED BY <1>3, <1>4 DEF Holds

LEMMA AckedWasAccepted ==
  ASSUME IInv, NEW p \in Peer
  PROVE  LA[p] <= NS[p] /\ \A n \in Acked(p) : n \in Nat /\ n < NS[p]
<1> DEFINE q == Other(p)
<1>1. q \in Peer /\ Other(q) = p /\ NS[p] \in Nat /\ LA[p] \in Nat /\ receivedACKs[p] \in SUBSET Nat
  BY PeerFacts, PeerTypes DEF IInv
<1>2. \A n \in Acked(p) : n \in Nat /\ Holds(q, n)
  <2>1. RepliesInv(q)
    BY <1>1 DEF IInv
  <2>2. \A n \in Acked(p) : Holds(q, n)
    BY <1>1, <2>1 DEF RepliesInv
  <2>3. \A n \in Acked(p) : n \in Nat
    BY <1>1 DEF Acked
  <2> QED BY <2>2, <2>3
<1>3. ASSUME NEW n \in Acked(p) PROVE n \in Nat /\ n < NS[p]
  <2>1. n \in Nat /\ Holds(q, n)
    BY <1>2
  <2>2. n < NS[Other(q)]
    BY <1>1, <2>1, HeldWasAccepted
  <2> QED BY <1>1, <2>1, <2>2
<1>4. CASE LA[p] = 0
  <2>1. LA[p] <= NS[p]
    BY <1>1, <1>4
  <2> QED BY <1>3, <2>1
<1>5. CASE LA[p] # 0
  <2>1. LA[p] - 1 \in Nat /\ LA[p] - 1 < LA[p]
    BY <1>1, <1>5
  <2>2. LA[p] - 1 \in Acked(p)
    BY <2>1 DEF Acked
  <2>3. LA[p] - 1 < NS[p]
    BY <1>3, <2>2
  <2>4. LA[p] <= NS[p]
    BY <1>1, <2>3
  <2> QED BY <1>3, <2>4
<1> QED BY <1>3, <1>4, <1>5

(* What a peer has received does not change when its partner accepts more. *)
LEMMA NothingReceived ==
  ASSUME IInv, NEW p \in Peer,
         NR'[p] = NR[p], delivered'[p] = delivered[p], receivedPDUs'[p] = receivedPDUs[p],
         Len(accepted[Other(p)]) <= Len(accepted'[Other(p)]), Len(accepted'[Other(p)]) \in Nat,
         \A k \in 1 .. Len(accepted[Other(p)]) : accepted'[Other(p)][k] = accepted[Other(p)][k]
  PROVE  ReceiverInv(p)'
<1> DEFINE q == Other(p)
           l == Len(accepted[q])
           m == Len(accepted'[q])
<1>1. /\ q \in Peer /\ ReceiverInv(p) /\ NR[p] \in Nat /\ l \in Nat /\ m \in Nat /\ l <= m
      /\ receivedPDUs[p] \in SUBSET IFrame
      /\ \A k \in 1 .. l : accepted'[q][k] = accepted[q][k]
  BY PeerFacts, PeerTypes DEF IInv
<1>2. NR[p] <= l
  BY <1>1 DEF ReceiverInv, HandedUp
<1>3. \A f \in receivedPDUs[p] : f.NS \in Nat /\ f.NS < l /\ f.sdu = accepted[q][f.NS + 1]
  BY <1>1, FrameShape DEF ReceiverInv, HeldBack, Carries
<1> HIDE DEF l, m
<1>4. NR[p] <= m /\ \A k \in 1 .. NR[p] : k \in 1 .. l
  BY <1>1, <1>2
<1>5. \A f \in receivedPDUs[p] : f.NS < m /\ f.NS + 1 \in 1 .. l
  BY <1>1, <1>3
<1>6. HandedUp(p)'
  BY <1>1, <1>4 DEF ReceiverInv, HandedUp, l, m
<1>7. HeldBack(p)'
  BY <1>1, <1>3, <1>5 DEF ReceiverInv, HeldBack, Carries, l, m
<1> QED BY <1>6, <1>7 DEF ReceiverInv

(* An accepted compound is appended: what was carried still is. *)
LEMMA CarryExtended ==
  ASSUME NEW acc \in Seq(SDU), NEW d \in SDU
  PROVE  /\ Append(acc, d) \in Seq(SDU) /\ Len(Append(acc, d)) = Len(acc) + 1
         /\ \A k \in 1 .. Len(acc) : Append(acc, d)[k] = acc[k]
         /\ Append(acc, d)[Len(acc) + 1] = d
         /\ \A f \in Frame : Carries(f, acc) => Carries(f, Append(acc, d))
<1> DEFINE a == Append(acc, d)
           l == Len(acc)
<1>1. /\ l \in Nat /\ Len(a) = l + 1 /\ a \in Seq(SDU)
      /\ \A k \in 1 .. l : a[k] = acc[k]
      /\ a[l + 1] = d
  BY AppendProperties
<1> HIDE DEF a, l
<1>2. ASSUME NEW f \in Frame, f.NS < l, f.sdu = acc[f.NS + 1] PROVE f.NS < Len(a) /\ f.sdu = a[f.NS + 1]
  <2>1. f.NS \in Nat
    BY FrameShape
  <2> DEFINE n == f.NS
  <2>2. n \in Nat /\ n < l
    BY <1>2, <2>1
  <2> HIDE DEF n
  <2>3. n + 1 \in 1 .. l /\ n < l + 1
    BY <1>1, <2>2
  <2> QED BY <1>1, <1>2, <2>3 DEF n
<1> QED BY <1>1, <1>2 DEF a, l, Carries

LEMMA SendDataKeeps ==
  ASSUME IInv, NEW p \in Peer, NEW d \in SDU, SendData(p, d)
  PROVE  IInv'
<1> DEFINE q == Other(p)
           v == Members(p)
           f == [type |-> "I", NS |-> NS[p], sdu |-> d]
           u == [v EXCEPT !.active = f, !.now = TRUE]
           acc == accepted[p]
           N == Unacknowledged(p)
           s == v.sent \o v.again
           one == <<f>>
<1>1. q \in Peer /\ q # p /\ Other(q) = p /\ \A r \in Peer : r = p \/ r = q
  BY PeerFacts
<1>2. /\ TypeOK /\ v \in MembersType /\ v.active = activeCompound[p] /\ v.acks = ackPDUs[p]
      /\ NS[p] \in Nat /\ LA[p] \in Nat /\ acc \in Seq(SDU) /\ NS[p] = Len(acc)
      /\ Sound(v, acc, N)
  BY MembersInType, PeerTypes DEF IInv, SenderInv
<1>3. /\ activeCompound[p] = NoCompound /\ TryToSend(p, u, wire)
      /\ accepted' = [accepted EXCEPT ![p] = Append(acc, d)]
      /\ NS' = [NS EXCEPT ![p] = NS[p] + 1]
      /\ LA' = LA /\ receivedACKs' = receivedACKs /\ NR' = NR /\ receivedPDUs' = receivedPDUs
      /\ delayingDelivery' = delayingDelivery /\ delivered' = delivered
      /\ suspending' = suspending /\ suspended' = suspended /\ failure' = failure
  BY DEF SendData, hasCapacity, receiverVars, suspendVars
<1>4. /\ f \in IFrame /\ f \in Frame /\ f.NS = NS[p] /\ f.sdu = d /\ f.type = "I" /\ f # NoCompound
  <2>1. f \in IFrame
    BY <1>2 DEF IFrame
  <2> QED BY <2>1, FrameShape DEF Frame
<1> HIDE DEF f, v
<1>5. /\ v.sent \in Seq(IFrame) /\ v.again \in Seq(IFrame) /\ v.acks \in Seq(AckFrame)
      /\ v.now \in BOOLEAN /\ v.timer \in BOOLEAN /\ v.twice \in SUBSET Nat
  BY <1>2, ActiveIsList
<1>6. /\ u \in MembersType /\ u.sent = v.sent /\ u.again = v.again /\ u.acks = v.acks
      /\ u.active = f /\ u.now = TRUE /\ u.twice = v.twice /\ u.timer = v.timer
  BY <1>2, <1>4, <1>5 DEF MembersType
<1>7. /\ NS'[p] = NS[p] + 1 /\ accepted'[p] = Append(acc, d)
      /\ NS'[q] = NS[q] /\ accepted'[q] = accepted[q]
      /\ NS' \in [Peer -> Nat] /\ accepted' \in [Peer -> Seq(SDU)]
  <2> DEFINE a == Append(acc, d)
  <2>1. a \in Seq(SDU)
    BY <1>2
  <2>2. accepted' = [accepted EXCEPT ![p] = a]
    BY <1>3
  <2>3. NS \in [Peer -> Nat] /\ accepted \in [Peer -> Seq(SDU)]
    BY <1>2 DEF TypeOK
  <2> HIDE DEF a
  <2>4. /\ accepted'[p] = a /\ accepted'[q] = accepted[q] /\ accepted' \in [Peer -> Seq(SDU)]
    BY <1>1, <2>1, <2>2, <2>3
  <2>5. /\ NS'[p] = NS[p] + 1 /\ NS'[q] = NS[q] /\ NS' \in [Peer -> Nat]
    BY <1>1, <1>2, <1>3, <2>3
  <2> QED BY <2>4, <2>5 DEF a
<1>8. /\ Len(Append(acc, d)) = NS[p] + 1 /\ Append(acc, d)[NS[p] + 1] = d
      /\ \A k \in 1 .. NS[p] : Append(acc, d)[k] = acc[k]
      /\ \A g \in Frame : Carries(g, acc) => Carries(g, Append(acc, d))
  BY <1>2, CarryExtended
<1>9. /\ v.timer => v.sent # << >>
      /\ Distinct(KeptBy(v)) /\ AllCarry(KeptBy(v), acc)
      /\ \A n \in Nat : Has(KeptBy(v), n) <=> n \in N
      /\ v.twice \subseteq N
  BY <1>2 DEF Sound, Keeps
<1>10. KeptBy(v) = s /\ s \in Seq(IFrame)
  <2>1. Active(v) = << >>
    BY <1>2, <1>3 DEF Active
  <2>2. s \in Seq(IFrame)
    BY <1>5, ConcatProperties
  <2>3. s \o << >> = s
    BY <2>2, ConcatEmptySeq
  <2> QED BY <2>1, <2>2, <2>3 DEF KeptBy
<1>11. KeptBy(u) = s \o one
  <2>1. Active(u) = one
    BY <1>4, <1>6 DEF Active
  <2> QED BY <1>6, <2>1 DEF KeptBy
<1>12. one \in Seq(IFrame) /\ Range(one) = {f} /\ Distinct(one)
  BY <1>4, Single, SingleIsDistinct
<1>13. LA[p] <= NS[p] /\ receivedACKs[p] \subseteq LA[p] + 1 .. NS[p] - 1
  BY AckedWasAccepted DEF IInv, SenderInv
<1>14. Unacknowledged(p)' = N \cup {NS[p]} /\ \A n \in N : n \in Nat /\ n < NS[p]
  <2>1. Unacknowledged(p)' = (LA[p] .. NS[p]) \ receivedACKs[p]
    BY <1>2, <1>3, <1>7 DEF Unacknowledged
  <2>2. N = (LA[p] .. NS[p] - 1) \ receivedACKs[p]
    BY DEF Unacknowledged
  <2> HIDE DEF N
  <2> QED BY <1>2, <1>13, <2>1, <2>2
<1> HIDE DEF u, one, N, s, acc
<1>15. /\ s \o one \in Seq(IFrame) /\ Range(s \o one) = Range(s) \cup Range(one)
       /\ Distinct(s \o one) <=> Distinct(s) /\ Distinct(one) /\ Apart(s, one)
  BY <1>10, <1>12, ConcatRange, ConcatDistinct
<1>16. \A x \in Range(s) : x \in IFrame /\ x.NS \in N
  <2>1. Range(s) \subseteq IFrame
    BY <1>10, ElementsInRange
  <2> QED BY <1>9, <1>10, <2>1, FrameShape DEF Has
<1>17. Distinct(KeptBy(u))
  <2>1. \A x \in Range(s) : x.NS # f.NS
    BY <1>2, <1>4, <1>14, <1>16
  <2>2. Apart(s, one)
    BY <1>12, <2>1 DEF Apart
  <2> QED BY <1>9, <1>10, <1>11, <1>12, <1>15, <2>2
<1>18. AllCarry(KeptBy(u), accepted'[p])
  <2>1. ASSUME NEW x \in Range(s) PROVE Carries(x, accepted'[p])
    <3>1. x \in IFrame /\ x \in Frame /\ x.type = "I"
      BY <1>16, FrameShape DEF Frame
    <3>2. Carries(x, acc)
      BY <1>9, <1>10, <3>1 DEF AllCarry
    <3> QED BY <1>7, <1>8, <3>1, <3>2
  <2>2. Carries(f, accepted'[p])
    BY <1>2, <1>4, <1>7, <1>8 DEF Carries
  <2> QED BY <1>11, <1>12, <1>15, <2>1, <2>2 DEF AllCarry
<1>19. \A n \in Nat : Has(KeptBy(u), n) <=> n \in Unacknowledged(p)'
  <2>1. \A n \in Nat : Has(s, n) <=> n \in N
    BY <1>9, <1>10
  <2> QED BY <1>4, <1>11, <1>12, <1>14, <1>15, <2>1 DEF Has
<1>20. Sound(u, accepted'[p], Unacknowledged(p)')
  BY <1>4, <1>6, <1>9, <1>14, <1>17, <1>18, <1>19 DEF Sound, Keeps
<1>21. /\ \A r \in Peer, n \in Nat : Holds(r, n)' <=> Holds(r, n)
       /\ Acked(p)' = Acked(p)
  BY <1>3 DEF Holds, Acked
<1>22. \A n \in Nat : Holds(q, n)' => ~Waits(u, n)
  BY <1>1, <1>2, <1>4, <1>6, <1>21, HeldWasAccepted DEF Waits
<1>23. \A g \in Range(wire[p]) : g.type = "I" => ~Waits(u, g.NS)
  <2>1. \A g \in Range(wire[p]) : g.type = "I" => g.NS < NS[p]
    BY <1>2 DEF IInv, WireInv, AllCarry, Carries, acc
  <2> QED BY <1>2, <1>4, <1>6, <2>1 DEF Waits
<1>24. /\ \A n \in Nat : Holds(p, n)' => ~Waits(Members(q), n)
       /\ \A n \in Acked(p)' : Holds(q, n)'
       /\ \A g \in Range(u.acks) : Holds(p, g.NS)'
  <2>1. \A n \in Acked(p) : n \in Nat /\ Holds(q, n)
    BY <1>1, AckedWasAccepted DEF IInv, RepliesInv
  <2>2. \A g \in Range(ackPDUs[p]) : g.NS \in Nat /\ Holds(p, g.NS)
    <3>1. \A g \in Range(ackPDUs[p]) : g \in AckFrame
      BY <1>2, <1>5, ElementsInRange
    <3> QED BY <3>1, FrameShape DEF IInv, RepliesInv, AcksHeld
  <2>3. \A n \in Nat : Holds(p, n) => ~Waits(Members(q), n)
    BY DEF IInv, RepliesInv, q
  <2> QED BY <1>1, <1>2, <1>6, <1>21, <2>1, <2>2, <2>3
<1>25. /\ wire \in [Peer -> Seq(Frame)] /\ \A r \in Peer : Len(wire[r]) <= WireCap
       /\ receivedACKs'[p] \subseteq LA'[p] + 1 .. NS'[p] - 1
       /\ NS'[p] = Len(accepted'[p])
       /\ \A g \in Frame : Carries(g, accepted[p]) => Carries(g, accepted'[p])
  <2>1. receivedACKs'[p] \subseteq LA'[p] + 1 .. NS'[p] - 1
    BY <1>2, <1>3, <1>7, <1>13
  <2>2. NS'[p] = Len(accepted'[p])
    BY <1>7, <1>8
  <2>3. \A g \in Frame : Carries(g, accepted[p]) => Carries(g, accepted'[p])
    BY <1>7, <1>8 DEF acc
  <2> QED BY <2>1, <2>2, <2>3 DEF IInv, TypeOK, WireInv
<1>26. \A r \in Peer : r # p => /\ NS'[r] = NS[r] /\ LA'[r] = LA[r]
                               /\ receivedACKs'[r] = receivedACKs[r]
                               /\ accepted'[r] = accepted[r]
  BY <1>1, <1>3, <1>7
<1>27. TryToSend(p, u, wire)
  BY <1>3 DEF u
<1>28. /\ wire' \in [Peer -> Seq(Frame)] /\ ackPDUs' \in [Peer -> Seq(AckFrame)]
       /\ sentPDUs' \in [Peer -> Seq(IFrame)] /\ toRetransmit' \in [Peer -> Seq(IFrame)]
       /\ timeoutSet' \in [Peer -> BOOLEAN] /\ sendNow' \in [Peer -> BOOLEAN]
       /\ activeCompound' \in [Peer -> IFrame \cup {NoCompound}]
       /\ sentAgain' \in [Peer -> SUBSET Nat]
       /\ \A r \in Peer : SenderInv(r)' /\ WireInv(r)' /\ RepliesInv(r)'
  BY <1>6, <1>20, <1>21, <1>22, <1>23, <1>24, <1>25, <1>26, <1>27, SendingKeeps DEF q
<1>29. TypeOK'
  BY <1>2, <1>3, <1>7, <1>28, TypesFollow DEF TypeOK, IInv
<1>30. ReceiverInv(p)' /\ ReceiverInv(q)'
  <2>1. ReceiverInv(p)'
    BY <1>1, <1>2, <1>3, <1>7, PeerTypes, NothingReceived DEF q
  <2>2. ReceiverInv(q)'
    <3>1. Len(accepted'[p]) = Len(accepted[p]) + 1 /\ Len(accepted[p]) \in Nat
          /\ \A k \in 1 .. Len(accepted[p]) : accepted'[p][k] = accepted[p][k]
      BY <1>2, <1>7, <1>8 DEF acc
    <3>2. /\ Len(accepted[p]) <= Len(accepted'[p]) /\ Len(accepted'[p]) \in Nat
          /\ NR'[q] = NR[q] /\ delivered'[q] = delivered[q] /\ receivedPDUs'[q] = receivedPDUs[q]
      BY <1>3, <3>1
    <3> QED BY <1>1, <3>1, <3>2, NothingReceived
  <2> QED BY <2>1, <2>2
<1> QED BY <1>1, <1>3, <1>28, <1>29, <1>30 DEF IInv

(* The same for every entry into the unit but sendData(): nothing is       *)
(* accepted, and the partner's half of the link does not change.           *)
LEMMA EntryKeeps ==
  ASSUME IInv, NEW p \in Peer, NEW u \in MembersType,
         NEW wires \in [Peer -> Seq(Frame)], TryToSend(p, u, wires),
         \A r \in Peer : Len(wires[r]) <= WireCap /\ Range(wires[r]) \subseteq Range(wire[r]),
         NS' = NS, accepted' = accepted, failure' = failure,
         LA' \in [Peer -> Nat], receivedACKs' \in [Peer -> SUBSET Nat],
         NR' \in [Peer -> Nat], receivedPDUs' \in [Peer -> SUBSET IFrame],
         delivered' \in [Peer -> Seq(SDU)], delayingDelivery' \in [Peer -> BOOLEAN],
         suspending' \in [Peer -> BOOLEAN], suspended' \in [Peer -> BOOLEAN],
         \A r \in Peer : r # p => /\ LA'[r] = LA[r] /\ receivedACKs'[r] = receivedACKs[r]
                                  /\ NR'[r] = NR[r] /\ receivedPDUs'[r] = receivedPDUs[r]
                                  /\ delivered'[r] = delivered[r],
         receivedACKs'[p] \subseteq LA'[p] + 1 .. NS[p] - 1,
         Sound(u, accepted[p], Unacknowledged(p)'), u.active = activeCompound[p],
         \A f \in Range(u.acks) : Holds(p, f.NS)',
         \A n \in Acked(p)' : n \in Nat /\ Holds(Other(p), n),
         \A n \in Nat : Holds(p, n) => Holds(p, n)',
         \A n \in Nat : Holds(p, n)' => ~Waits(Members(Other(p)), n),
         ReceiverInv(p)'
  PROVE  IInv'
<1> DEFINE q == Other(p)
<1>1. q \in Peer /\ q # p /\ Other(q) = p /\ \A r \in Peer : r = p \/ r = q
  BY PeerFacts
<1>2. /\ TypeOK /\ failure = "none" /\ NS[p] = Len(accepted[p])
      /\ WireInv(p) /\ RepliesInv(q) /\ ReceiverInv(q)
      /\ NS \in [Peer -> Nat] /\ accepted \in [Peer -> Seq(SDU)]
  BY <1>1 DEF IInv, SenderInv, TypeOK
<1>3. \A n \in Nat : Holds(q, n)' <=> Holds(q, n)
  BY <1>1 DEF Holds
<1>4. \A n : Waits(u, n) <=> Waits(Members(p), n)
  BY <1>2, MembersInType DEF Waits
<1>5. \A r \in Peer, n \in Nat : Holds(r, n) => Holds(r, n)'
  BY <1>1, <1>3
<1>6. \A n \in Nat : Holds(q, n)' => ~Waits(u, n)
  <2>1. \A n \in Nat : Holds(q, n) => ~Waits(Members(p), n)
    BY <1>1, <1>2 DEF RepliesInv
  <2> QED BY <1>3, <1>4, <2>1
<1>7. \A n \in Acked(p)' : Holds(q, n)'
  BY <1>3
<1>8. \A f \in Range(wire[p]) : f.type = "I" => ~Waits(u, f.NS)
  BY <1>2, <1>4 DEF WireInv
<1>9. /\ \A r \in Peer : r # p => /\ NS'[r] = NS[r] /\ LA'[r] = LA[r]
                                  /\ receivedACKs'[r] = receivedACKs[r]
                                  /\ accepted'[r] = accepted[r]
      /\ NS'[p] = Len(accepted'[p]) /\ receivedACKs'[p] \subseteq LA'[p] + 1 .. NS'[p] - 1
      /\ Sound(u, accepted'[p], Unacknowledged(p)')
      /\ \A f \in Frame : Carries(f, accepted[p]) => Carries(f, accepted'[p])
      /\ \A n \in Nat : Holds(p, n)' => ~Waits(Members(q), n)
  BY <1>2
<1>10. /\ wire' \in [Peer -> Seq(Frame)] /\ ackPDUs' \in [Peer -> Seq(AckFrame)]
       /\ sentPDUs' \in [Peer -> Seq(IFrame)] /\ toRetransmit' \in [Peer -> Seq(IFrame)]
       /\ timeoutSet' \in [Peer -> BOOLEAN] /\ sendNow' \in [Peer -> BOOLEAN]
       /\ activeCompound' \in [Peer -> IFrame \cup {NoCompound}]
       /\ sentAgain' \in [Peer -> SUBSET Nat]
       /\ \A r \in Peer : SenderInv(r)' /\ WireInv(r)' /\ RepliesInv(r)'
  BY <1>5, <1>6, <1>7, <1>8, <1>9, SendingKeeps
<1>11. TypeOK'
  <2>1. NS' \in [Peer -> Nat] /\ accepted' \in [Peer -> Seq(SDU)] /\ failure' = "none"
    BY <1>2
  <2> QED BY <1>10, <2>1, TypesFollow
<1>12. ReceiverInv(q)'
  BY <1>1, <1>2 DEF ReceiverInv, HandedUp, HeldBack
<1> QED BY <1>1, <1>2, <1>10, <1>11, <1>12 DEF IInv

(* The frame that arrives leaves the wire. *)
LEMMA TakenFacts ==
  ASSUME IInv, NEW p \in Peer, wire[Other(p)] # << >>
  PROVE  /\ Taken(p) \in [Peer -> Seq(Frame)]
         /\ \A r \in Peer : Len(Taken(p)[r]) <= WireCap /\ Range(Taken(p)[r]) \subseteq Range(wire[r])
         /\ Head(wire[Other(p)]) \in Range(wire[Other(p)])
         /\ Head(wire[Other(p)]) \in Frame /\ Head(wire[Other(p)]).NS \in Nat
<1> DEFINE q == Other(p)
           w == wire[q]
           h == Head(w)
           t == Tail(w)
           l == Len(w)
<1>1. q \in Peer /\ wire \in [Peer -> Seq(Frame)] /\ w \in Seq(Frame) /\ w # << >>
      /\ \A r \in Peer : Len(wire[r]) <= WireCap
  BY PeerFacts DEF IInv, TypeOK, WireInv
<1>2. Taken(p) = [wire EXCEPT ![q] = t]
  BY DEF Taken
<1>w. l <= WireCap /\ WireCap \in Nat /\ l \in Nat
  BY <1>1, LenProperties, SelectiveRepeatAssumption
<1> HIDE DEF w
<1>3. h \in Frame /\ t \in Seq(Frame) /\ Len(t) = l - 1 /\ w = <<h>> \o t
  BY <1>1, HeadTail
<1> HIDE DEF h, t, l
<1>4. <<h>> \in Seq(Frame) /\ Range(<<h>>) = {h}
  BY <1>3, Single
<1>5. Range(w) = {h} \cup Range(t)
  <2> DEFINE o == <<h>>
  <2>1. o \in Seq(Frame) /\ w = o \o t
    BY <1>3, <1>4
  <2> HIDE DEF o
  <2>2. Range(o \o t) = Range(o) \cup Range(t)
    BY <1>3, <2>1, ConcatRange
  <2> QED BY <1>4, <2>1, <2>2 DEF o
<1>6. Taken(p) \in [Peer -> Seq(Frame)] /\ Taken(p)[q] = t
      /\ \A r \in Peer : r # q => Taken(p)[r] = wire[r]
  BY <1>1, <1>2, <1>3
<1>7. Len(t) <= WireCap
  BY <1>3, <1>w
<1>8. \A r \in Peer : Len(Taken(p)[r]) <= WireCap /\ Range(Taken(p)[r]) \subseteq Range(wire[r])
  <2>1. Len(Taken(p)[q]) <= WireCap /\ Range(Taken(p)[q]) \subseteq Range(wire[q])
    BY <1>5, <1>6, <1>7 DEF w
  <2>2. \A r \in Peer : r # q => Len(Taken(p)[r]) <= WireCap /\ Range(Taken(p)[r]) \subseteq Range(wire[r])
    BY <1>1, <1>6
  <2> QED BY <2>1, <2>2
<1>9. h \in Range(w) /\ h.NS \in Nat
  BY <1>3, <1>5, FrameShape
<1> QED BY <1>3, <1>6, <1>8, <1>9 DEF h, w

(* What holds of the members as they are. *)
LEMMA AsTheyAre ==
  ASSUME IInv, NEW p \in Peer
  PROVE  /\ Members(p) \in MembersType /\ Members(p).active = activeCompound[p]
         /\ Members(p).acks = ackPDUs[p] /\ Members(p).sent = sentPDUs[p]
         /\ Members(p).timer = timeoutSet[p]
         /\ Sound(Members(p), accepted[p], Unacknowledged(p))
         /\ receivedACKs[p] \subseteq LA[p] + 1 .. NS[p] - 1
         /\ \A f \in Range(ackPDUs[p]) : Holds(p, f.NS)
         /\ \A n \in Acked(p) : n \in Nat /\ Holds(Other(p), n)
         /\ \A n \in Nat : Holds(p, n) => ~Waits(Members(Other(p)), n)
         /\ \A n \in Nat : Holds(Other(p), n) => ~Waits(Members(p), n)
         /\ ReceiverInv(p)
         /\ wire \in [Peer -> Seq(Frame)] /\ \A r \in Peer : Len(wire[r]) <= WireCap
         /\ LA \in [Peer -> Nat] /\ receivedACKs \in [Peer -> SUBSET Nat]
         /\ NR \in [Peer -> Nat] /\ receivedPDUs \in [Peer -> SUBSET IFrame]
         /\ delivered \in [Peer -> Seq(SDU)] /\ delayingDelivery \in [Peer -> BOOLEAN]
         /\ suspending \in [Peer -> BOOLEAN] /\ suspended \in [Peer -> BOOLEAN]
<1> DEFINE q == Other(p)
<1>1. q \in Peer /\ Other(q) = p
  BY PeerFacts
<1>2. /\ TypeOK /\ SenderInv(p) /\ RepliesInv(p) /\ RepliesInv(q) /\ ReceiverInv(p)
      /\ \A r \in Peer : WireInv(r)
  BY <1>1 DEF IInv
<1>3. /\ Members(p) \in MembersType /\ Members(p).active = activeCompound[p]
      /\ Members(p).acks = ackPDUs[p] /\ Members(p).sent = sentPDUs[p]
      /\ Members(p).timer = timeoutSet[p]
  BY <1>2, MembersInType
<1>4. Sound(Members(p), accepted[p], Unacknowledged(p)) /\ receivedACKs[p] \subseteq LA[p] + 1 .. NS[p] - 1
  BY <1>2 DEF SenderInv
<1>5. \A f \in Range(ackPDUs[p]) : Holds(p, f.NS)
  <2>1. ackPDUs[p] \in Seq(AckFrame)
    BY <1>2, PeerTypes
  <2>2. \A f \in Range(ackPDUs[p]) : f \in AckFrame
    BY <2>1, ElementsInRange
  <2>3. \A f \in Range(ackPDUs[p]) : f.type = "ACK"
    BY <2>2, FrameShape
  <2> QED BY <1>2, <2>3 DEF RepliesInv, AcksHeld
<1>6. \A n \in Acked(p) : n \in Nat /\ Holds(q, n)
  <2>1. \A n \in Acked(p) : Holds(q, n)
    BY <1>1, <1>2 DEF RepliesInv
  <2> QED BY <2>1, AckedWasAccepted
<1>7. \A n \in Nat : Holds(p, n) => ~Waits(Members(q), n)
  BY <1>2 DEF RepliesInv
<1>8. \A n \in Nat : Holds(q, n) => ~Waits(Members(p), n)
  BY <1>1, <1>2 DEF RepliesInv
<1>9. \A r \in Peer : Len(wire[r]) <= WireCap
  BY <1>2 DEF WireInv
<1>10. /\ LA \in [Peer -> Nat] /\ receivedACKs \in [Peer -> SUBSET Nat]
       /\ NR \in [Peer -> Nat] /\ receivedPDUs \in [Peer -> SUBSET IFrame]
       /\ delivered \in [Peer -> Seq(SDU)] /\ delayingDelivery \in [Peer -> BOOLEAN]
       /\ suspending \in [Peer -> BOOLEAN] /\ suspended \in [Peer -> BOOLEAN]
       /\ wire \in [Peer -> Seq(Frame)]
  BY <1>2 DEF TypeOK
<1> QED BY <1>2, <1>3, <1>4, <1>5, <1>6, <1>7, <1>8, <1>9, <1>10

LEMMA ResendKeeps ==
  ASSUME IInv, NEW p \in Peer, NEW u \in MembersType, TryToSend(p, u, wire),
         UNCHANGED <<NS, LA, receivedACKs, receiverVars, userVars, suspendVars, failure>>,
         Sound(u, accepted[p], Unacknowledged(p)), u.active = activeCompound[p],
         u.acks = ackPDUs[p]
  PROVE  IInv'
<1>1. /\ NS' = NS /\ LA' = LA /\ receivedACKs' = receivedACKs /\ NR' = NR
      /\ receivedPDUs' = receivedPDUs /\ delayingDelivery' = delayingDelivery
      /\ accepted' = accepted /\ delivered' = delivered
      /\ suspending' = suspending /\ suspended' = suspended /\ failure' = failure
  BY DEF receiverVars, userVars, suspendVars
<1>2. /\ Unacknowledged(p)' = Unacknowledged(p) /\ Acked(p)' = Acked(p)
      /\ \A n : Holds(p, n)' <=> Holds(p, n)
      /\ ReceiverInv(p)' <=> ReceiverInv(p)
  BY <1>1 DEF Unacknowledged, Acked, Holds, ReceiverInv, HandedUp, HeldBack
<1>3. \A f \in Range(u.acks) : Holds(p, f.NS)'
  BY <1>2, AsTheyAre
<1>4. /\ \A n \in Acked(p)' : n \in Nat /\ Holds(Other(p), n)
      /\ \A n \in Nat : Holds(p, n) => Holds(p, n)'
      /\ \A n \in Nat : Holds(p, n)' => ~Waits(Members(Other(p)), n)
      /\ ReceiverInv(p)' /\ receivedACKs'[p] \subseteq LA'[p] + 1 .. NS[p] - 1
  BY <1>1, <1>2, AsTheyAre
<1>5. /\ LA' \in [Peer -> Nat] /\ receivedACKs' \in [Peer -> SUBSET Nat]
      /\ NR' \in [Peer -> Nat] /\ receivedPDUs' \in [Peer -> SUBSET IFrame]
      /\ delivered' \in [Peer -> Seq(SDU)] /\ delayingDelivery' \in [Peer -> BOOLEAN]
      /\ suspending' \in [Peer -> BOOLEAN] /\ suspended' \in [Peer -> BOOLEAN]
      /\ wire \in [Peer -> Seq(Frame)] /\ \A r \in Peer : Len(wire[r]) <= WireCap
  BY <1>1, AsTheyAre
<1>6. Sound(u, accepted[p], Unacknowledged(p)')
  BY <1>2
<1> QED BY <1>1, <1>3, <1>4, <1>5, <1>6, EntryKeeps

LEMMA OnTimeoutKeeps ==
  ASSUME IInv, NEW p \in Peer, OnTimeout(p)
  PROVE  IInv'
<1> DEFINE u == [Members(p) EXCEPT !.timer = FALSE]
           acc == accepted[p]
           N == Unacknowledged(p)
           v == Members(p)
<1>1. /\ v \in MembersType /\ v.active = activeCompound[p] /\ v.acks = ackPDUs[p]
      /\ v.sent = sentPDUs[p] /\ v.timer = timeoutSet[p] /\ Sound(v, acc, N)
  BY AsTheyAre
<1>2. sentPDUs[p] # << >>
  BY <1>1 DEF OnTimeout, Sound
<1>3. /\ TryToSend(p, Prepared(u, receivedACKs[p], Len(sentPDUs[p])), wire)
      /\ UNCHANGED <<NS, LA, receivedACKs, receiverVars, userVars, suspendVars, failure>>
  BY <1>2 DEF OnTimeout
<1> HIDE DEF v, acc, N
<1>4. u = [v EXCEPT !.timer = FALSE]
  BY DEF v
<1> HIDE DEF u
<1>5. /\ u \in MembersType /\ u.active = v.active /\ u.acks = v.acks /\ u.sent = v.sent
      /\ u.again = v.again /\ u.now = v.now /\ u.twice = v.twice /\ u.timer = FALSE
  BY <1>1, <1>4 DEF MembersType
<1>6. Keeps(u, acc, N)
  <2>1. KeptBy(u) = KeptBy(v)
    BY <1>5 DEF KeptBy, Active
  <2> QED BY <1>1, <1>5, <2>1 DEF Sound, Keeps
<1> DEFINE w == Prepared(u, receivedACKs[p], Len(sentPDUs[p]))
<1>7. /\ w \in MembersType /\ Keeps(w, acc, N) /\ w.acks = u.acks /\ w.timer = u.timer
      /\ w.active = u.active
  BY <1>5, <1>6, PreparedKeeps
<1>8. TryToSend(p, w, wire)
  BY <1>3
<1> HIDE DEF w
<1>9. Sound(w, acc, N)
  BY <1>5, <1>7 DEF Sound
<1>10. Sound(w, accepted[p], Unacknowledged(p)) /\ w.active = activeCompound[p] /\ w.acks = ackPDUs[p]
  BY <1>1, <1>5, <1>7, <1>9 DEF acc, N
<1> QED BY <1>3, <1>7, <1>8, <1>10, ResendKeeps

LEMMA WakeupKeeps ==
  ASSUME IInv, NEW p \in Peer, Wakeup(p)
  PROVE  IInv'
<1>1. /\ TryToSend(p, Members(p), wire)
      /\ UNCHANGED <<NS, LA, receivedACKs, receiverVars, userVars, suspendVars, failure>>
  BY DEF Wakeup
<1> QED BY <1>1, AsTheyAre, ResendKeeps

(* An ACK arrives: the partner holds the frame, which was thus sent. *)
LEMMA AckArrives ==
  ASSUME IInv, NEW p \in Peer, Arrives(p, "ACK"), NEW n, n = Head(wire[Other(p)]).NS
  PROVE  /\ n \in Nat /\ n < NS[p] /\ Holds(Other(p), n) /\ ~Waits(Members(p), n)
         /\ NS[p] \in Nat /\ LA[p] \in Nat /\ receivedACKs[p] \in SUBSET Nat
         /\ receivedACKs[p] \subseteq LA[p] + 1 .. NS[p] - 1
<1> DEFINE q == Other(p)
           h == Head(wire[q])
<1>1. q \in Peer /\ Other(q) = p /\ wire[q] # << >> /\ h.type = "ACK"
  BY PeerFacts DEF Arrives
<1>2. h \in Range(wire[q]) /\ h.NS \in Nat
  BY <1>1, TakenFacts
<1>3. AcksHeld(wire[q], q)
  BY <1>1 DEF IInv, RepliesInv
<1>4. n \in Nat /\ Holds(q, n)
  BY <1>1, <1>2, <1>3 DEF AcksHeld
<1>5. n < NS[p]
  BY <1>1, <1>4, HeldWasAccepted
<1>6. ~Waits(Members(p), n) /\ receivedACKs[p] \subseteq LA[p] + 1 .. NS[p] - 1
  BY <1>4, AsTheyAre
<1>7. NS[p] \in Nat /\ LA[p] \in Nat /\ receivedACKs[p] \in SUBSET Nat
  BY PeerTypes DEF IInv
<1> QED BY <1>4, <1>5, <1>6, <1>7

(* What the three cases of onACKFrame() have in common. *)
LEMMA AckKeeps ==
  ASSUME IInv, NEW p \in Peer, Arrives(p, "ACK"), NEW n, n = Head(wire[Other(p)]).NS,
         NEW u \in MembersType, TryToSend(p, u, Taken(p)),
         UNCHANGED <<NS, receiverVars, userVars, failure>>,
         LA' \in [Peer -> Nat], receivedACKs' \in [Peer -> SUBSET Nat],
         suspending' \in [Peer -> BOOLEAN], suspended' \in [Peer -> BOOLEAN],
         \A r \in Peer : r # p => LA'[r] = LA[r] /\ receivedACKs'[r] = receivedACKs[r],
         receivedACKs'[p] \subseteq LA'[p] + 1 .. NS[p] - 1,
         Sound(u, accepted[p], Unacknowledged(p)'),
         u.active = activeCompound[p], u.acks = ackPDUs[p],
         Acked(p)' \subseteq Acked(p) \cup {n}
  PROVE  IInv'
<1> DEFINE wires == Taken(p)
<1>1. /\ NS' = NS /\ NR' = NR /\ receivedPDUs' = receivedPDUs
      /\ delayingDelivery' = delayingDelivery
      /\ accepted' = accepted /\ delivered' = delivered /\ failure' = failure
  BY DEF receiverVars, userVars
<1>2. /\ n \in Nat /\ Holds(Other(p), n)
  BY AckArrives
<1>3. /\ wires \in [Peer -> Seq(Frame)]
      /\ \A r \in Peer : Len(wires[r]) <= WireCap /\ Range(wires[r]) \subseteq Range(wire[r])
      /\ TryToSend(p, u, wires)
  BY TakenFacts DEF Arrives
<1> HIDE DEF wires
<1>4. /\ \A k : Holds(p, k)' <=> Holds(p, k)
      /\ ReceiverInv(p)' <=> ReceiverInv(p)
  BY <1>1 DEF Holds, ReceiverInv, HandedUp, HeldBack
<1>5. \A f \in Range(u.acks) : Holds(p, f.NS)'
  BY <1>4, AsTheyAre
<1>6. \A k \in Acked(p)' : k \in Nat /\ Holds(Other(p), k)
  BY <1>2, AsTheyAre
<1>7. /\ \A k \in Nat : Holds(p, k) => Holds(p, k)'
      /\ \A k \in Nat : Holds(p, k)' => ~Waits(Members(Other(p)), k)
      /\ ReceiverInv(p)'
  BY <1>4, AsTheyAre
<1>8. /\ NR' \in [Peer -> Nat] /\ receivedPDUs' \in [Peer -> SUBSET IFrame]
      /\ delivered' \in [Peer -> Seq(SDU)] /\ delayingDelivery' \in [Peer -> BOOLEAN]
  BY <1>1, AsTheyAre
<1>9. \A r \in Peer : r # p => /\ LA'[r] = LA[r] /\ receivedACKs'[r] = receivedACKs[r]
                               /\ NR'[r] = NR[r] /\ receivedPDUs'[r] = receivedPDUs[r]
                               /\ delivered'[r] = delivered[r]
  BY <1>1
<1> QED BY <1>1, <1>3, <1>5, <1>6, <1>7, <1>8, <1>9, EntryKeeps

LEMMA ReceiveOldACKKeeps ==
  ASSUME IInv, NEW p \in Peer, ReceiveOldACK(p)
  PROVE  IInv'
<1> DEFINE n == Head(wire[Other(p)]).NS
           w == WithoutACKed(p, n)
           u == TimerIfSent(w)
<1>1. /\ Arrives(p, "ACK") /\ n < LA[p] /\ TryToSend(p, u, Taken(p))
      /\ UNCHANGED <<NS, LA, receivedACKs, receiverVars, suspendVars, userVars, failure>>
  BY DEF ReceiveOldACK
<1> HIDE DEF n, w, u
<1>2. n \in Nat /\ ~Waits(Members(p), n)
  BY <1>1, AckArrives DEF n
<1>3. /\ w \in MembersType /\ w.acks = ackPDUs[p] /\ w.active = activeCompound[p]
      /\ Keeps(w, accepted[p], Unacknowledged(p) \ {n})
  BY <1>2, WithoutACKedKeeps DEF w
<1>4. /\ u \in MembersType /\ u.acks = ackPDUs[p] /\ u.active = activeCompound[p]
      /\ Sound(u, accepted[p], Unacknowledged(p) \ {n})
  BY <1>3, TimerIfSentKeeps DEF u
<1>5. Unacknowledged(p)' = Unacknowledged(p) \ {n} /\ Acked(p)' = Acked(p)
  <2>1. LA[p] \in Nat /\ NS[p] \in Nat
    BY PeerTypes DEF IInv
  <2>2. Unacknowledged(p) \ {n} = Unacknowledged(p)
    BY <1>1, <1>2, <2>1 DEF Unacknowledged
  <2> QED BY <1>1, <2>2 DEF Unacknowledged, Acked
<1>6. /\ LA' \in [Peer -> Nat] /\ receivedACKs' \in [Peer -> SUBSET Nat]
      /\ suspending' \in [Peer -> BOOLEAN] /\ suspended' \in [Peer -> BOOLEAN]
      /\ \A r \in Peer : r # p => LA'[r] = LA[r] /\ receivedACKs'[r] = receivedACKs[r]
      /\ receivedACKs'[p] \subseteq LA'[p] + 1 .. NS[p] - 1
  BY <1>1, AsTheyAre DEF suspendVars
<1>7. UNCHANGED <<NS, receiverVars, userVars, failure>> /\ n = Head(wire[Other(p)]).NS
  BY <1>1 DEF n
<1>8. Sound(u, accepted[p], Unacknowledged(p)') /\ Acked(p)' \subseteq Acked(p) \cup {n}
  BY <1>4, <1>5
<1> QED BY <1>1, <1>4, <1>6, <1>7, <1>8, AckKeeps

LEMMA ReceiveLaterACKKeeps ==
  ASSUME IInv, NEW p \in Peer, ReceiveLaterACK(p)
  PROVE  IInv'
<1> DEFINE n == Head(wire[Other(p)]).NS
           w == WithoutACKed(p, n)
           acks == receivedACKs'[p]
           v(due) == Prepared(w, acks, due)
<1>1. /\ Arrives(p, "ACK") /\ n > LA[p]
      /\ receivedACKs' = [receivedACKs EXCEPT ![p] = receivedACKs[p] \cup {n}]
      /\ \E due : TryToSend(p, TimerIfSent(v(due)), Taken(p))
      /\ UNCHANGED <<NS, LA, receiverVars, suspendVars, userVars, failure>>
  BY DEF ReceiveLaterACK
<1> HIDE DEF n, w, acks
<1>2. PICK due : TryToSend(p, TimerIfSent(v(due)), Taken(p))
  BY <1>1
<1> DEFINE x == v(due)
           u == TimerIfSent(x)
<1> HIDE DEF u, x
<1>3. /\ n \in Nat /\ n < NS[p] /\ ~Waits(Members(p), n) /\ NS[p] \in Nat /\ LA[p] \in Nat
      /\ receivedACKs[p] \in SUBSET Nat /\ receivedACKs[p] \subseteq LA[p] + 1 .. NS[p] - 1
  BY <1>1, AckArrives DEF n
<1>4. /\ w \in MembersType /\ w.acks = ackPDUs[p] /\ w.active = activeCompound[p]
      /\ Keeps(w, accepted[p], Unacknowledged(p) \ {n})
  BY <1>3, WithoutACKedKeeps DEF w
<1>5. /\ x \in MembersType /\ x.acks = ackPDUs[p] /\ x.active = activeCompound[p]
      /\ Keeps(x, accepted[p], Unacknowledged(p) \ {n})
  BY <1>4, PreparedKeeps DEF x
<1>6. /\ u \in MembersType /\ u.acks = ackPDUs[p] /\ u.active = activeCompound[p]
      /\ Sound(u, accepted[p], Unacknowledged(p) \ {n})
  BY <1>5, TimerIfSentKeeps DEF u
<1>7. /\ receivedACKs'[p] = receivedACKs[p] \cup {n}
      /\ receivedACKs' \in [Peer -> SUBSET Nat]
      /\ \A r \in Peer : r # p => receivedACKs'[r] = receivedACKs[r]
  BY <1>1, <1>3, AsTheyAre
<1>8. Unacknowledged(p)' = Unacknowledged(p) \ {n} /\ Acked(p)' = Acked(p) \cup {n}
  <2>1. Unacknowledged(p)' = (LA[p] .. NS[p] - 1) \ (receivedACKs[p] \cup {n})
    BY <1>1, <1>7 DEF Unacknowledged
  <2>2. Acked(p)' = {k \in Nat : k < LA[p]} \cup (receivedACKs[p] \cup {n})
    BY <1>1, <1>7 DEF Acked
  <2> QED BY <2>1, <2>2 DEF Unacknowledged, Acked
<1>9. receivedACKs'[p] \subseteq LA'[p] + 1 .. NS[p] - 1
  BY <1>1, <1>3, <1>7
<1>10. /\ LA' \in [Peer -> Nat]
       /\ suspending' \in [Peer -> BOOLEAN] /\ suspended' \in [Peer -> BOOLEAN]
       /\ \A r \in Peer : r # p => LA'[r] = LA[r] /\ receivedACKs'[r] = receivedACKs[r]
  BY <1>1, <1>7, AsTheyAre DEF suspendVars
<1>11. /\ UNCHANGED <<NS, receiverVars, userVars, failure>> /\ n = Head(wire[Other(p)]).NS
       /\ TryToSend(p, u, Taken(p))
  BY <1>1, <1>2 DEF n, u, x
<1>12. Sound(u, accepted[p], Unacknowledged(p)') /\ Acked(p)' \subseteq Acked(p) \cup {n}
  BY <1>6, <1>8
<1> QED BY <1>1, <1>6, <1>7, <1>9, <1>10, <1>11, <1>12, AckKeeps

(* The oldest frame without an ACK, after the ACK of the one at n. *)
LEMMA NextWithoutACK ==
  ASSUME NEW n \in Nat, NEW b \in Nat, n < b, NEW R \in SUBSET Nat, R \subseteq n + 1 .. b - 1
  PROVE  \E k \in n + 1 .. b : k \notin R /\ n + 1 .. k - 1 \subseteq R
<1> DEFINE T == {k \in Nat : n < k /\ k \notin R}
<1>1. T \in SUBSET Nat /\ b \in T
  OBVIOUS
<1>2. \A k : k \in T <=> k \in Nat /\ n < k /\ k \notin R
  OBVIOUS
<1> HIDE DEF T
<1>3. PICK m \in T : \A k \in T : m <= k
  BY <1>1, EarliestExists
<1>4. m \in Nat /\ n < m /\ m \notin R /\ m <= b
  BY <1>1, <1>2, <1>3
<1>5. ASSUME NEW k \in n + 1 .. m - 1 PROVE k \in R
  <2>1. k \in Nat /\ n < k /\ k < m
    BY <1>4
  <2>2. k \notin T
    BY <1>3, <1>4, <2>1
  <2> QED BY <1>2, <2>1, <2>2
<1>6. m \in n + 1 .. b
  BY <1>4
<1> QED BY <1>4, <1>5, <1>6

LEMMA ReceiveExpectedACKKeeps ==
  ASSUME IInv, NEW p \in Peer, ReceiveExpectedACK(p)
  PROVE  /\ IInv'
         /\ \E la \in Nat : LA'[p] = la /\ trySuspend(p, la)
<1> DEFINE n == Head(wire[Other(p)]).NS
           b == NS[p]
           R == receivedACKs[p]
           la == CHOOSE k \in n + 1 .. b : k \notin R /\ n + 1 .. k - 1 \subseteq R
           w == WithoutACKed(p, n)
           u == TimerIfSent(w)
<1>1. /\ Arrives(p, "ACK") /\ n = LA[p]
      /\ LA' = [LA EXCEPT ![p] = la]
      /\ receivedACKs' = [receivedACKs EXCEPT ![p] = {k \in receivedACKs[p] : k > la}]
      /\ trySuspend(p, la) /\ TryToSend(p, u, Taken(p))
      /\ UNCHANGED <<NS, receiverVars, suspending, userVars, failure>>
  BY DEF ReceiveExpectedACK
<1>n. n = Head(wire[Other(p)]).NS
  OBVIOUS
<1> HIDE DEF n, w, u, b, R, la
<1>2. /\ n \in Nat /\ n < b /\ ~Waits(Members(p), n) /\ b \in Nat
      /\ R \in SUBSET Nat /\ R \subseteq n + 1 .. b - 1
  BY <1>1, AckArrives DEF n, b, R
<1>3. la \in n + 1 .. b /\ la \notin R /\ n + 1 .. la - 1 \subseteq R
  <2>1. \E k \in n + 1 .. b : k \notin R /\ n + 1 .. k - 1 \subseteq R
    BY <1>2, NextWithoutACK
  <2> QED BY <2>1 DEF la
<1>4. la \in Nat /\ n < la /\ la <= b
  BY <1>2, <1>3
<1>5. /\ w \in MembersType /\ w.acks = ackPDUs[p] /\ w.active = activeCompound[p]
      /\ Keeps(w, accepted[p], Unacknowledged(p) \ {n})
  BY <1>2, WithoutACKedKeeps DEF w
<1>6. /\ u \in MembersType /\ u.acks = ackPDUs[p] /\ u.active = activeCompound[p]
      /\ Sound(u, accepted[p], Unacknowledged(p) \ {n})
  BY <1>5, TimerIfSentKeeps DEF u
<1>7. /\ LA'[p] = la /\ LA' \in [Peer -> Nat] /\ \A r \in Peer : r # p => LA'[r] = LA[r]
  BY <1>1, <1>4, AsTheyAre
<1> DEFINE R2 == {k \in R : k > la}
<1>8. /\ receivedACKs'[p] = R2 /\ receivedACKs' \in [Peer -> SUBSET Nat]
      /\ \A r \in Peer : r # p => receivedACKs'[r] = receivedACKs[r]
  BY <1>1, <1>2, AsTheyAre DEF R
<1>9. R2 \subseteq la + 1 .. b - 1
  <2>1. ASSUME NEW k \in R, k > la PROVE k \in la + 1 .. b - 1
    <3>1. k \in Nat /\ k <= b - 1
      BY <1>2
    <3> QED BY <1>2, <1>4, <2>1, <3>1
  <2> QED BY <2>1
<1>10. \A k \in Nat : (k \in n .. b - 1 /\ k \notin R /\ k # n) <=> (k \in la .. b - 1 /\ k \notin R2)
  <2>1. ASSUME NEW k \in Nat, k < la PROVE k \in R \/ k < n \/ k = n
    BY <1>2, <1>3, <1>4, <2>1
  <2> QED BY <1>2, <1>3, <1>4, <2>1
<1>11. Unacknowledged(p)' = Unacknowledged(p) \ {n}
  <2>1. Unacknowledged(p)' = (la .. b - 1) \ R2
    BY <1>1, <1>7, <1>8 DEF Unacknowledged, b
  <2>2. Unacknowledged(p) = (n .. b - 1) \ R
    BY <1>1 DEF Unacknowledged, b, R
  <2>3. (la .. b - 1) \subseteq Nat /\ (n .. b - 1) \subseteq Nat
    BY <1>2, <1>4
  <2> HIDE DEF R2
  <2> QED BY <1>10, <2>1, <2>2, <2>3
<1>12. Acked(p)' \subseteq Acked(p) \cup {n}
  <2>1. Acked(p)' = {k \in Nat : k < la} \cup R2
    BY <1>7, <1>8 DEF Acked
  <2>2. Acked(p) = {k \in Nat : k < n} \cup R
    BY <1>1 DEF Acked, R
  <2>3. ASSUME NEW k \in Nat, k < la PROVE k \in R \/ k < n \/ k = n
    BY <1>2, <1>3, <1>4, <2>3
  <2> QED BY <2>1, <2>2, <2>3
<1>13. receivedACKs'[p] \subseteq LA'[p] + 1 .. NS[p] - 1
  BY <1>7, <1>8, <1>9 DEF b
<1>14. suspending' \in [Peer -> BOOLEAN] /\ suspended' \in [Peer -> BOOLEAN]
  BY <1>1, AsTheyAre DEF trySuspend, onSuspend
<1>15. UNCHANGED <<NS, receiverVars, userVars, failure>>
  BY <1>1
<1>16. \A r \in Peer : r # p => LA'[r] = LA[r] /\ receivedACKs'[r] = receivedACKs[r]
  BY <1>7, <1>8
<1>17. Sound(u, accepted[p], Unacknowledged(p)')
  BY <1>6, <1>11
<1>18. IInv'
  BY <1>1, <1>n, <1>6, <1>7, <1>8, <1>12, <1>13, <1>14, <1>15, <1>16, <1>17, AckKeeps
<1> QED BY <1>1, <1>4, <1>7, <1>18

-------------------------------------------------------------------------------
(* The receiver.                                                           *)

LEMMA CountedBy ==
  ASSUME NEW S, NEW n \in Nat, NEW f \in [1 .. n -> S],
         \A i, j \in 1 .. n : f[i] = f[j] => i = j,
         \A x \in S : \E i \in 1 .. n : f[i] = x
  PROVE  Cardinality(S) = n
<1>1. f \in Bijection(1 .. n, S)
  BY Fun_IsBij
<1>2. ExistsBijection(1 .. n, S)
  BY <1>1, Fun_ExistsBij
<1> QED BY <1>2, FS_CountingElements

(* Frames that carry what was accepted are known by their numbers. *)
LEMMA SameNumberSameFrame ==
  ASSUME NEW acc, NEW x \in IFrame, NEW y \in IFrame,
         Carries(x, acc), Carries(y, acc), x.NS = y.NS
  PROVE  x = y
<1>1. x.sdu = y.sdu
  BY DEF Carries
<1>2. /\ x = [type |-> "I", NS |-> x.NS, sdu |-> x.sdu]
      /\ y = [type |-> "I", NS |-> y.NS, sdu |-> y.sdu]
  BY DEF IFrame
<1> QED BY <1>1, <1>2

(* The loop over the held frames ends at the first number that is missing. *)
LEMMA ConsecutiveIs ==
  ASSUME NEW acc \in Seq(SDU), NEW H \in SUBSET IFrame, NEW n \in Nat, n <= Len(acc),
         \A x \in H : n <= x.NS /\ Carries(x, acc)
  PROVE  \E m \in Nat :
            /\ n <= m /\ m <= Len(acc)
            /\ \A k \in Nat : n <= k /\ k < m => \E x \in H : x.NS = k
            /\ \A x \in H : x.NS # m
            /\ Consecutive(H, n) = {x \in H : x.NS < m}
            /\ Cardinality(Consecutive(H, n)) = m - n
            /\ \A i \in 1 .. m - n :
                  (CHOOSE x \in Consecutive(H, n) : x.NS = n + i - 1).sdu = acc[n + i]
<1> DEFINE l == Len(acc)
           T == {k \in Nat : n <= k /\ \A x \in H : x.NS # k}
           C == Consecutive(H, n)
<1>1. l \in Nat /\ n <= l /\ \A x \in H : x.NS \in Nat /\ n <= x.NS /\ x.NS < l /\ x \in IFrame
  BY FrameShape DEF Carries
<1>2. C = {x \in H : \A k \in n .. x.NS : \E y \in H : y.NS = k}
  BY DEF Consecutive
<1> HIDE DEF l, C
<1>3. T \in SUBSET Nat /\ l \in T
  BY <1>1
<1>4. \A k : k \in T <=> k \in Nat /\ n <= k /\ \A x \in H : x.NS # k
  OBVIOUS
<1> HIDE DEF T
<1>5. PICK m \in T : \A k \in T : m <= k
  BY <1>3, EarliestExists
<1>6. m \in Nat /\ n <= m /\ m <= l /\ \A x \in H : x.NS # m
  BY <1>3, <1>4, <1>5
<1>7. ASSUME NEW k \in Nat, n <= k, k < m PROVE \E x \in H : x.NS = k
  <2>1. k \notin T
    BY <1>5, <1>6, <1>7
  <2> QED BY <1>4, <1>7, <2>1
<1>8. C = {x \in H : x.NS < m}
  <2>1. ASSUME NEW x \in H, x.NS < m PROVE x \in C
    <3>1. ASSUME NEW k \in n .. x.NS PROVE \E y \in H : y.NS = k
      <4>1. k \in Nat /\ n <= k /\ k < m
        BY <1>1, <1>6, <2>1
      <4> QED BY <1>7, <4>1
    <3> QED BY <1>2, <3>1
  <2>2. ASSUME NEW x \in C PROVE x \in H /\ x.NS < m
    <3>1. x \in H /\ \A k \in n .. x.NS : \E y \in H : y.NS = k
      BY <1>2
    <3>2. x.NS \in Nat /\ x.NS # m
      BY <1>1, <1>6, <3>1
    <3>3. CASE x.NS < m
      BY <3>1, <3>3
    <3>4. CASE ~(x.NS < m)
      <4>1. m \in n .. x.NS
        BY <1>6, <3>2, <3>4
      <4> QED BY <1>6, <3>1, <4>1
    <3> QED BY <3>3, <3>4
  <2> QED BY <2>1, <2>2
<1> DEFINE c == m - n
           f == [i \in 1 .. c |-> CHOOSE x \in C : x.NS = n + i - 1]
<1>9. c \in Nat /\ \A i \in 1 .. c : n + i - 1 \in Nat /\ n <= n + i - 1 /\ n + i - 1 < m
  BY <1>6
<1>10. ASSUME NEW i \in 1 .. c PROVE \E x \in C : x.NS = n + i - 1
  <2> DEFINE k == n + i - 1
  <2>1. k \in Nat /\ n <= k /\ k < m
    BY <1>9
  <2> HIDE DEF k
  <2>2. PICK x \in H : x.NS = k
    BY <1>7, <2>1
  <2>3. x \in C
    BY <1>8, <2>1, <2>2
  <2> QED BY <2>2, <2>3 DEF k
<1>11. ASSUME NEW i \in 1 .. c
       PROVE f[i] \in C /\ f[i].NS = n + i - 1 /\ f[i] = CHOOSE x \in C : x.NS = n + i - 1
  <2>1. f[i] = CHOOSE x \in C : x.NS = n + i - 1
    OBVIOUS
  <2> HIDE DEF f, c
  <2> QED BY <1>10, <2>1
<1>12. f \in [1 .. c -> C]
  BY <1>11
<1> HIDE DEF f
<1>13. \A i, j \in 1 .. c : f[i] = f[j] => i = j
  <2>1. ASSUME NEW i \in 1 .. c, NEW j \in 1 .. c, f[i] = f[j] PROVE i = j
    <3>1. n + i - 1 = n + j - 1
      BY <1>11, <2>1
    <3>2. i \in Nat /\ j \in Nat
      BY <1>9
    <3> QED BY <3>1, <3>2
  <2> QED BY <2>1
<1>14. \A x \in C : \E i \in 1 .. c : f[i] = x
  <2>1. ASSUME NEW x \in C PROVE \E i \in 1 .. c : f[i] = x
    <3>1. x \in H /\ x.NS \in Nat /\ n <= x.NS /\ x.NS < m
      BY <1>1, <1>8
    <3> DEFINE i == x.NS - n + 1
               z == x.NS
    <3>z. z \in Nat /\ n <= z /\ z < m /\ i = z - n + 1
      BY <3>1
    <3> HIDE DEF z, i
    <3>2. i \in 1 .. c /\ n + i - 1 = z
      BY <1>6, <3>z
    <3>3. f[i] \in C /\ f[i].NS = z
      BY <1>11, <3>2
    <3>4. f[i] \in H
      BY <1>8, <3>3
    <3>5. f[i] = x
      BY <1>1, <3>1, <3>3, <3>4, SameNumberSameFrame DEF z
    <3> QED BY <3>2, <3>5
  <2> QED BY <2>1
<1> HIDE DEF c
<1>15. Cardinality(C) = c
  BY <1>9, <1>12, <1>13, <1>14, CountedBy
<1>16. \A i \in 1 .. c : (CHOOSE x \in C : x.NS = n + i - 1).sdu = acc[n + i]
  <2>1. ASSUME NEW i \in 1 .. c PROVE (CHOOSE x \in C : x.NS = n + i - 1).sdu = acc[n + i]
    <3>1. f[i] \in H /\ f[i].NS = n + i - 1 /\ f[i] = CHOOSE x \in C : x.NS = n + i - 1
      BY <1>8, <1>11
    <3>2. f[i].sdu = acc[f[i].NS + 1]
      BY <3>1 DEF Carries
    <3>3. (n + i - 1) + 1 = n + i
      BY <1>9
    <3> QED BY <3>1, <3>2, <3>3
  <2> QED BY <2>1
<1> QED BY <1>6, <1>7, <1>8, <1>15, <1>16 DEF c, C, l

(* The compounds of the frames C, one number after another from n on.      *)
Upward(C, n) == [i \in 1 .. Cardinality(C) |-> (CHOOSE x \in C : x.NS = n + i - 1).sdu]

(* HandUp: the frames up to the first that is missing, out of those held   *)
(* and perhaps the one that just arrived.                                  *)
HandsUp(p, H, C) ==
    /\ H \in SUBSET IFrame /\ C = Consecutive(H, NR[p])
    /\ receivedPDUs[p] \subseteq H /\ H \subseteq receivedPDUs[p] \cup C
    /\ \A x \in H : NR[p] <= x.NS /\ Carries(x, accepted[Other(p)])
    /\ delivered' = [delivered EXCEPT ![p] = delivered[p] \o Upward(C, NR[p])]
    /\ accepted' = accepted
    /\ NR' = [NR EXCEPT ![p] = NR[p] + Cardinality(C)]
    /\ receivedPDUs' = [receivedPDUs EXCEPT ![p] = receivedPDUs[p] \ C]

LEMMA HandUpKeeps ==
  ASSUME IInv, NEW p \in Peer, NEW H, NEW C, HandsUp(p, H, C)
  PROVE  /\ NR' \in [Peer -> Nat] /\ receivedPDUs' \in [Peer -> SUBSET IFrame]
         /\ delivered' \in [Peer -> Seq(SDU)]
         /\ \A r \in Peer : r # p => /\ NR'[r] = NR[r] /\ receivedPDUs'[r] = receivedPDUs[r]
                                     /\ delivered'[r] = delivered[r]
         /\ ReceiverInv(p)'
         /\ \A k \in Nat : Holds(p, k) => Holds(p, k)'
         /\ \A k \in Nat : (\E x \in H : x.NS = k) => Holds(p, k)'
         /\ \A k \in Nat : Holds(p, k)' => Holds(p, k) \/ \E x \in H : x.NS = k
         /\ NR[p] <= NR'[p] /\ NR'[p] \in Nat
<1> DEFINE q == Other(p)
           acc == accepted[q]
           n == NR[p]
           R == receivedPDUs[p]
           D == delivered[p]
           c == Cardinality(C)
           G == Upward(C, n)
<1>1. /\ q \in Peer /\ acc \in Seq(SDU) /\ n \in Nat /\ R \in SUBSET IFrame /\ D \in Seq(SDU)
      /\ NR \in [Peer -> Nat] /\ receivedPDUs \in [Peer -> SUBSET IFrame]
      /\ delivered \in [Peer -> Seq(SDU)]
  BY PeerFacts, PeerTypes DEF IInv, TypeOK
<1>2. /\ n <= Len(acc) /\ Len(D) = n /\ \A k \in 1 .. n : D[k] = acc[k]
      /\ \A f \in R : n < f.NS
  BY DEF IInv, ReceiverInv, HandedUp, HeldBack
<1>3. /\ delivered' = [delivered EXCEPT ![p] = D \o G]
      /\ NR' = [NR EXCEPT ![p] = n + c] /\ receivedPDUs' = [receivedPDUs EXCEPT ![p] = R \ C]
  BY DEF HandsUp
<1>h. H \in SUBSET IFrame /\ \A x \in H : n <= x.NS /\ Carries(x, acc) /\ x.NS \in Nat
  BY FrameShape DEF HandsUp
<1>r. R \subseteq H /\ H \subseteq R \cup C /\ C = Consecutive(H, n)
  BY DEF HandsUp
<1>a. accepted'[q] = acc
  BY DEF HandsUp
<1>g. G = [i \in 1 .. c |-> (CHOOSE x \in C : x.NS = n + i - 1).sdu]
  BY DEF Upward
<1>q. \A k : Holds(p, k) <=> (k < n \/ \E f \in R : f.NS = k)
  BY DEF Holds
<1> HIDE DEF acc, n, R, D, G, c
<1>4. PICK m \in Nat :
            /\ n <= m /\ m <= Len(acc)
            /\ \A k \in Nat : n <= k /\ k < m => \E x \in H : x.NS = k
            /\ \A x \in H : x.NS # m
            /\ Consecutive(H, n) = {x \in H : x.NS < m}
            /\ Cardinality(Consecutive(H, n)) = m - n
            /\ \A i \in 1 .. m - n :
                  (CHOOSE x \in Consecutive(H, n) : x.NS = n + i - 1).sdu = acc[n + i]
  BY <1>1, <1>2, <1>h, ConsecutiveIs
<1>5. c = m - n /\ c \in Nat /\ C = {x \in H : x.NS < m} /\ n + c = m
  BY <1>1, <1>4, <1>r DEF c
<1>6. /\ G \in Seq(SDU) /\ Len(G) = c /\ \A i \in 1 .. c : G[i] = acc[n + i]
  <2>1. \A i \in 1 .. c : (CHOOSE x \in C : x.NS = n + i - 1).sdu = acc[n + i]
    BY <1>4, <1>5, <1>r
  <2>2. \A i \in 1 .. c : acc[n + i] \in SDU
    <3>1. ASSUME NEW i \in 1 .. c PROVE n + i \in 1 .. Len(acc)
      BY <1>1, <1>4, <1>5
    <3> QED BY <1>1, <3>1, ElementOfSeq
  <2>3. G = [i \in 1 .. c |-> acc[n + i]]
    BY <1>g, <2>1
  <2> QED BY <1>5, <2>2, <2>3
<1> DEFINE E == D \o G
<1>7. /\ E \in Seq(SDU) /\ Len(E) = m
      /\ \A i \in 1 .. Len(D) + Len(G) : E[i] = IF i <= Len(D) THEN D[i] ELSE G[i - Len(D)]
  <2>1. D \in Seq(SDU) /\ G \in Seq(SDU)
    BY <1>1, <1>6
  <2>2. /\ E \in Seq(SDU) /\ Len(E) = Len(D) + Len(G)
        /\ \A i \in 1 .. Len(D) + Len(G) : E[i] = IF i <= Len(D) THEN D[i] ELSE G[i - Len(D)]
    BY <2>1, ConcatProperties, Zenon
  <2>3. Len(D) + Len(G) = m
    BY <1>2, <1>5, <1>6
  <2> HIDE DEF E
  <2> QED BY <2>2, <2>3
<1> HIDE DEF E
<1>8. \A k \in 1 .. m : E[k] = acc[k]
  <2>1. ASSUME NEW k \in 1 .. m, k <= n PROVE E[k] = acc[k]
    BY <1>1, <1>2, <1>5, <1>6, <1>7, <2>1
  <2>2. ASSUME NEW k \in 1 .. m, ~(k <= n) PROVE E[k] = acc[k]
    <3>1. k - n \in 1 .. c /\ n + (k - n) = k /\ k \in 1 .. n + c
      BY <1>1, <1>5, <2>2
    <3>2. E[k] = G[k - n]
      BY <1>2, <1>6, <1>7, <2>2, <3>1
    <3> QED BY <1>6, <3>1, <3>2
  <2> QED BY <2>1, <2>2
<1>9. /\ NR' \in [Peer -> Nat] /\ NR'[p] = m /\ \A r \in Peer : r # p => NR'[r] = NR[r]
  BY <1>1, <1>3, <1>4, <1>5
<1>10. /\ receivedPDUs' \in [Peer -> SUBSET IFrame] /\ receivedPDUs'[p] = R \ C
       /\ \A r \in Peer : r # p => receivedPDUs'[r] = receivedPDUs[r]
  BY <1>1, <1>3
<1>11. /\ delivered' \in [Peer -> Seq(SDU)] /\ delivered'[p] = E
       /\ \A r \in Peer : r # p => delivered'[r] = delivered[r]
  <2>1. delivered' = [delivered EXCEPT ![p] = E]
    BY <1>3 DEF E
  <2>2. delivered \in [Peer -> Seq(SDU)] /\ E \in Seq(SDU)
    BY <1>1, <1>7
  <2> QED BY <2>1, <2>2
<1>12. HandedUp(p)'
  <2>1. NR'[p] <= Len(accepted'[q])
    BY <1>4, <1>9, <1>a
  <2>2. Len(delivered'[p]) = NR'[p]
    BY <1>7, <1>9, <1>11
  <2>3. \A k \in 1 .. NR'[p] : delivered'[p][k] = accepted'[q][k]
    BY <1>8, <1>9, <1>11, <1>a
  <2> QED BY <2>1, <2>2, <2>3 DEF HandedUp
<1>13. HeldBack(p)'
  <2>1. ASSUME NEW f \in R \ C PROVE m < f.NS /\ Carries(f, acc)
    <3>1. f \in H /\ f.NS \in Nat /\ ~(f.NS < m) /\ f.NS # m /\ Carries(f, acc)
      BY <1>4, <1>5, <1>h, <1>r
    <3> QED BY <3>1
  <2>2. \A f \in receivedPDUs'[p] : NR'[p] < f.NS /\ Carries(f, accepted'[q])
    BY <1>9, <1>10, <1>a, <2>1
  <2> QED BY <2>2 DEF HeldBack, Carries
<1>14. \A k : Holds(p, k)' <=> (k < m \/ \E f \in R \ C : f.NS = k)
  BY <1>9, <1>10 DEF Holds
<1>15. ASSUME NEW k \in Nat PROVE Holds(p, k)' <=> (Holds(p, k) \/ \E x \in H : x.NS = k)
  <2>1. ASSUME k < m PROVE k < n \/ \E x \in H : x.NS = k
    <3>1. n \in Nat /\ (k < n \/ n <= k)
      BY <1>1
    <3>2. n <= k /\ k < m => \E x \in H : x.NS = k
      BY <1>4
    <3> QED BY <2>1, <3>1, <3>2
  <2>2. ASSUME k < n PROVE k < m
    BY <1>1, <1>4, <2>2
  <2>3. ASSUME NEW x \in H, x.NS = k PROVE k < m \/ \E f \in R \ C : f.NS = k
    <3>1. CASE x \in C
      BY <1>5, <2>3, <3>1
    <3>2. CASE x \notin C
      BY <1>r, <2>3, <3>2
    <3> QED BY <3>1, <3>2
  <2>4. (\E f \in R \ C : f.NS = k) => \E x \in H : x.NS = k
    BY <1>r
  <2>5. (\E f \in R : f.NS = k) => \E x \in H : x.NS = k
    BY <1>r
  <2> QED BY <1>14, <1>q, <2>1, <2>2, <2>3, <2>4, <2>5
<1>16. NR[p] <= NR'[p] /\ NR'[p] \in Nat
  BY <1>4, <1>9 DEF n
<1> QED BY <1>9, <1>10, <1>11, <1>12, <1>13, <1>15, <1>16 DEF ReceiverInv

(* An I frame arrives: it was sent, under the number it carries. *)
LEMMA FrameArrives ==
  ASSUME IInv, NEW p \in Peer, Arrives(p, "I"), NEW f, f = Head(wire[Other(p)])
  PROVE  /\ f \in IFrame /\ f.NS \in Nat /\ Carries(f, accepted[Other(p)])
         /\ ~Waits(Members(Other(p)), f.NS) /\ wire[Other(p)] # << >>
<1> DEFINE q == Other(p)
<1>1. q \in Peer /\ wire[q] # << >> /\ f.type = "I" /\ WireInv(q)
  BY PeerFacts DEF Arrives, IInv
<1>2. f \in Range(wire[q]) /\ f \in Frame
  BY <1>1, TakenFacts
<1> QED BY <1>1, <1>2, FrameShape DEF WireInv, AllCarry

(* The end of doOnData for an I frame. *)
LEMMA AcknowledgeKeeps ==
  ASSUME IInv, NEW p \in Peer, Arrives(p, "I"), NEW acks \in Seq(AckFrame),
         Acknowledge(p, acks),
         NR' \in [Peer -> Nat], receivedPDUs' \in [Peer -> SUBSET IFrame],
         delivered' \in [Peer -> Seq(SDU)],
         \A r \in Peer : r # p => /\ NR'[r] = NR[r] /\ receivedPDUs'[r] = receivedPDUs[r]
                                  /\ delivered'[r] = delivered[r],
         \A f \in Range(acks) : Holds(p, f.NS)',
         \A n \in Nat : Holds(p, n) => Holds(p, n)',
         \A n \in Nat : Holds(p, n)' => ~Waits(Members(Other(p)), n),
         ReceiverInv(p)'
  PROVE  IInv'
<1> DEFINE wires == Taken(p)
           v == Members(p)
           a == v.acks \o acks
           u == [v EXCEPT !.acks = a]
<1>1. /\ TryToSend(p, u, wires)
      /\ NS' = NS /\ LA' = LA /\ receivedACKs' = receivedACKs
      /\ suspending' = suspending /\ suspended' = suspended
      /\ accepted' = accepted /\ failure' = failure /\ delayingDelivery' = delayingDelivery
  BY DEF Acknowledge, suspendVars
<1>2. /\ wires \in [Peer -> Seq(Frame)]
      /\ \A r \in Peer : Len(wires[r]) <= WireCap /\ Range(wires[r]) \subseteq Range(wire[r])
  BY TakenFacts DEF Arrives
<1> HIDE DEF wires, v
<1>3. /\ v \in MembersType /\ v.active = activeCompound[p] /\ v.acks = ackPDUs[p]
      /\ Sound(v, accepted[p], Unacknowledged(p)) /\ v.acks \in Seq(AckFrame)
  <2>1. /\ v \in MembersType /\ v.active = activeCompound[p] /\ v.acks = ackPDUs[p]
        /\ Sound(v, accepted[p], Unacknowledged(p))
    BY AsTheyAre DEF v
  <2> QED BY <2>1, ActiveIsList
<1>4. a \in Seq(AckFrame) /\ Range(a) = Range(v.acks) \cup Range(acks)
  <2> DEFINE b == v.acks
  <2>1. b \in Seq(AckFrame)
    BY <1>3
  <2> HIDE DEF b
  <2>2. b \o acks \in Seq(AckFrame) /\ Range(b \o acks) = Range(b) \cup Range(acks)
    BY <2>1, ConcatRange
  <2> QED BY <2>2 DEF b
<1> HIDE DEF a
<1>5. /\ u \in MembersType /\ u.active = v.active /\ u.acks = a /\ u.sent = v.sent
      /\ u.again = v.again /\ u.now = v.now /\ u.twice = v.twice /\ u.timer = v.timer
  BY <1>3, <1>4 DEF MembersType
<1> HIDE DEF u
<1>6. Sound(u, accepted[p], Unacknowledged(p))
  <2>1. KeptBy(u) = KeptBy(v)
    BY <1>5 DEF KeptBy, Active
  <2> QED BY <1>3, <1>5, <2>1 DEF Sound, Keeps
<1>7. Unacknowledged(p)' = Unacknowledged(p) /\ Acked(p)' = Acked(p)
  BY <1>1 DEF Unacknowledged, Acked
<1>8. \A f \in Range(u.acks) : Holds(p, f.NS)'
  <2>1. \A f \in Range(ackPDUs[p]) : f.NS \in Nat /\ Holds(p, f.NS)
    <3>1. \A f \in Range(ackPDUs[p]) : f \in AckFrame
      BY <1>3, ElementsInRange
    <3> QED BY <3>1, AsTheyAre, FrameShape
  <2>2. \A f \in Range(ackPDUs[p]) : Holds(p, f.NS)'
    BY <2>1
  <2> QED BY <1>3, <1>4, <1>5, <2>2
<1>9. /\ \A n \in Acked(p)' : n \in Nat /\ Holds(Other(p), n)
      /\ receivedACKs'[p] \subseteq LA'[p] + 1 .. NS[p] - 1
      /\ LA' \in [Peer -> Nat] /\ receivedACKs' \in [Peer -> SUBSET Nat]
      /\ delayingDelivery' \in [Peer -> BOOLEAN]
      /\ suspending' \in [Peer -> BOOLEAN] /\ suspended' \in [Peer -> BOOLEAN]
  BY <1>1, <1>7, AsTheyAre
<1>10. Sound(u, accepted[p], Unacknowledged(p)') /\ u.active = activeCompound[p]
  BY <1>3, <1>5, <1>6, <1>7
<1>11. \A r \in Peer : r # p => /\ LA'[r] = LA[r] /\ receivedACKs'[r] = receivedACKs[r]
                                /\ NR'[r] = NR[r] /\ receivedPDUs'[r] = receivedPDUs[r]
                                /\ delivered'[r] = delivered[r]
  BY <1>1
<1> QED BY <1>1, <1>2, <1>5, <1>8, <1>9, <1>10, <1>11, EntryKeeps

LEMMA OneAck ==
  ASSUME NEW n \in Nat
  PROVE  LET a == [type |-> "ACK", NS |-> n]
         IN  <<a>> \in Seq(AckFrame) /\ \A x \in Range(<<a>>) : x.NS = n
<1> DEFINE a == [type |-> "ACK", NS |-> n]
<1>1. a \in AckFrame /\ a.NS = n
  BY DEF AckFrame
<1> HIDE DEF a
<1>2. <<a>> \in Seq(AckFrame) /\ Range(<<a>>) = {a}
  BY <1>1, Single
<1>3. <<a>> \in Seq(AckFrame) /\ \A x \in Range(<<a>>) : x.NS = n
  BY <1>1, <1>2
<1> QED BY <1>3 DEF a

LEMMA ReceiveExpectedKeeps ==
  ASSUME IInv, NEW p \in Peer, ReceiveExpected(p)
  PROVE  /\ IInv'
         /\ accepted' = accepted /\ NR[p] <= NR'[p]
         /\ \A r \in Peer : r # p => delivered'[r] = delivered[r]
<1> DEFINE q == Other(p)
           f == Head(wire[q])
           n == f.NS
           H == receivedPDUs[p] \cup {f}
           C == Consecutive(H, NR[p])
           a == [type |-> "ACK", NS |-> n]
           acks == <<a>>
<1>1. /\ Arrives(p, "I") /\ n = NR[p]
      /\ delivered' = [delivered EXCEPT ![p] = delivered[p] \o Upward(C, NR[p])]
      /\ NR' = [NR EXCEPT ![p] = NR[p] + Cardinality(C)]
      /\ receivedPDUs' = [receivedPDUs EXCEPT ![p] = receivedPDUs[p] \ C]
      /\ Acknowledge(p, acks)
  BY DEF ReceiveExpected, HandUp, Upward
<1> HIDE DEF f
<1>2. /\ f \in IFrame /\ n \in Nat /\ Carries(f, accepted[q]) /\ ~Waits(Members(q), n)
  BY <1>1, FrameArrives DEF f
<1>3. acks \in Seq(AckFrame) /\ \A x \in Range(acks) : x.NS = n
  BY <1>2, OneAck
<1> HIDE DEF n, acks
<1>4. /\ receivedPDUs[p] \in SUBSET IFrame /\ NR[p] \in Nat
      /\ \A x \in receivedPDUs[p] : NR[p] < x.NS /\ x.NS \in Nat /\ Carries(x, accepted[q])
  <2>1. receivedPDUs[p] \in SUBSET IFrame /\ NR[p] \in Nat
    BY PeerTypes DEF IInv
  <2>2. \A x \in receivedPDUs[p] : NR[p] < x.NS /\ Carries(x, accepted[q])
    BY DEF IInv, ReceiverInv, HeldBack
  <2> QED BY <2>1, <2>2, FrameShape
<1>5. H \in SUBSET IFrame /\ \A x \in H : NR[p] <= x.NS /\ Carries(x, accepted[q])
  BY <1>1, <1>2, <1>4 DEF n
<1>6. receivedPDUs[p] \subseteq H /\ H \subseteq receivedPDUs[p] \cup C
  <2>1. f \in C
    <3>1. \A k \in NR[p] .. n : k = n
      BY <1>1, <1>2, <1>4
    <3>2. f.NS = n /\ f \in H
      BY DEF n
    <3> QED BY <3>1, <3>2 DEF Consecutive
  <2> QED BY <2>1
<1>7. accepted' = accepted
  BY <1>1 DEF Acknowledge
<1> HIDE DEF H, C
<1>8. C = Consecutive(H, NR[p])
  BY DEF C
<1>i. PICK H0, C0 : H0 = H /\ C0 = C
  OBVIOUS
<1>j. HandsUp(p, H0, C0)
  BY <1>1, <1>5, <1>6, <1>7, <1>8, <1>i DEF HandsUp
<1>9. /\ NR' \in [Peer -> Nat] /\ receivedPDUs' \in [Peer -> SUBSET IFrame]
      /\ delivered' \in [Peer -> Seq(SDU)]
      /\ \A r \in Peer : r # p => /\ NR'[r] = NR[r] /\ receivedPDUs'[r] = receivedPDUs[r]
                                  /\ delivered'[r] = delivered[r]
      /\ ReceiverInv(p)'
  BY <1>j, HandUpKeeps
<1>k. /\ \A k \in Nat : Holds(p, k) => Holds(p, k)'
      /\ \A k \in Nat : (\E x \in H0 : x.NS = k) => Holds(p, k)'
      /\ \A k \in Nat : Holds(p, k)' => Holds(p, k) \/ \E x \in H0 : x.NS = k
  BY <1>j, HandUpKeeps
<1>10. \A k \in Nat : Holds(p, k)' <=> (Holds(p, k) \/ k = n)
  <2>1. \A k \in Nat : (\E x \in H : x.NS = k) => Holds(p, k) \/ k = n
    BY DEF H, n, Holds
  <2>2. \E x \in H : x.NS = n
    BY DEF H, n
  <2> QED BY <1>2, <1>i, <1>k, <2>1, <2>2
<1>11. \A x \in Range(acks) : Holds(p, x.NS)'
  BY <1>2, <1>3, <1>10
<1>12. /\ \A k \in Nat : Holds(p, k) => Holds(p, k)'
       /\ \A k \in Nat : Holds(p, k)' => ~Waits(Members(q), k)
  BY <1>2, <1>10, AsTheyAre
<1>13. IInv'
  BY <1>1, <1>3, <1>9, <1>11, <1>12, AcknowledgeKeeps
<1>14. NR[p] <= NR'[p]
  BY <1>j, HandUpKeeps
<1> QED BY <1>7, <1>9, <1>13, <1>14

LEMMA ReceiveOtherKeeps ==
  ASSUME IInv, NEW p \in Peer, ReceiveOther(p)
  PROVE  IInv'
<1> DEFINE q == Other(p)
           f == Head(wire[q])
           n == f.NS
           R == receivedPDUs[p]
           later == n > NR[p]
           known == \E x \in R : x.NS = n
           a == [type |-> "ACK", NS |-> n]
           one == <<a>>
           acks == IF later \/ ~delayingDelivery[p] THEN one ELSE << >>
           R2 == IF later /\ ~known THEN R \cup {f} ELSE R
<1>1. /\ Arrives(p, "I") /\ (n # NR[p] \/ delayingDelivery[p])
      /\ receivedPDUs' = [receivedPDUs EXCEPT ![p] = R2]
      /\ Acknowledge(p, acks) /\ NR' = NR /\ delivered' = delivered
  BY DEF ReceiveOther
<1>q. q \in Peer
  BY PeerFacts
<1> HIDE DEF f
<1>2. /\ f \in IFrame /\ n \in Nat /\ Carries(f, accepted[q]) /\ ~Waits(Members(q), n)
      /\ NR[p] \in Nat
  <2>1. /\ f \in IFrame /\ n \in Nat /\ Carries(f, accepted[q]) /\ ~Waits(Members(q), n)
    BY <1>1, FrameArrives DEF f
  <2>2. NR[p] \in Nat
    BY PeerTypes DEF IInv
  <2> QED BY <2>1, <2>2
<1>3. one \in Seq(AckFrame) /\ \A x \in Range(one) : x.NS = n
  BY <1>2, OneAck
<1> HIDE DEF n, one
<1>4. acks \in Seq(AckFrame) /\ \A x \in Range(acks) : x.NS = n /\ (later \/ ~delayingDelivery[p])
  <2>1. CASE later \/ ~delayingDelivery[p]
    BY <1>3, <2>1
  <2>2. CASE ~(later \/ ~delayingDelivery[p])
    BY <2>2, Empty
  <2> QED BY <2>1, <2>2
<1> HIDE DEF acks
<1>5. /\ R \in SUBSET IFrame /\ receivedPDUs \in [Peer -> SUBSET IFrame]
      /\ \A x \in R : NR[p] < x.NS /\ Carries(x, accepted[q])
  BY PeerTypes DEF IInv, TypeOK, ReceiverInv, HeldBack
<1>6. /\ R2 \in SUBSET IFrame /\ R \subseteq R2 /\ \A x \in R2 : x \in R \/ (x = f /\ later)
      /\ later => \E x \in R2 : x.NS = n
  <2>1. CASE later /\ ~known
    BY <1>2, <1>5, <2>1 DEF n
  <2>2. CASE ~(later /\ ~known)
    BY <1>5, <2>2
  <2> QED BY <2>1, <2>2
<1> HIDE DEF R2
<1>7. /\ receivedPDUs' \in [Peer -> SUBSET IFrame] /\ receivedPDUs'[p] = R2
      /\ \A r \in Peer : r # p => receivedPDUs'[r] = receivedPDUs[r]
  BY <1>1, <1>5, <1>6
<1>8. \A k : Holds(p, k)' <=> (k < NR[p] \/ \E x \in R2 : x.NS = k)
  BY <1>1, <1>7 DEF Holds
<1>9. \A k : Holds(p, k) <=> (k < NR[p] \/ \E x \in R : x.NS = k)
  BY DEF Holds
<1>10. /\ \A k \in Nat : Holds(p, k) => Holds(p, k)'
       /\ \A k \in Nat : Holds(p, k)' => Holds(p, k) \/ k = n
       /\ later => \A k : k = n => Holds(p, k)'
  <2>1. \A k \in Nat : Holds(p, k) => Holds(p, k)'
    BY <1>6, <1>8, <1>9
  <2>2. \A k \in Nat : Holds(p, k)' => Holds(p, k) \/ k = n
    BY <1>6, <1>8, <1>9 DEF n
  <2>3. later => \A k : k = n => Holds(p, k)'
    BY <1>6, <1>8
  <2> QED BY <2>1, <2>2, <2>3
<1>11. \A x \in Range(acks) : Holds(p, x.NS)'
  <2>1. ~later /\ ~delayingDelivery[p] => \A k : k = n => Holds(p, k)'
    <3>1. ~later /\ ~delayingDelivery[p] => n < NR[p]
      BY <1>1, <1>2
    <3> QED BY <1>8, <3>1
  <2> QED BY <1>4, <1>10, <2>1
<1>12. \A k \in Nat : Holds(p, k)' => ~Waits(Members(q), k)
  BY <1>2, <1>10, AsTheyAre
<1>13. accepted' = accepted
  BY <1>1 DEF Acknowledge
<1>14. ReceiverInv(p)'
  <2>1. HandedUp(p)'
    BY <1>1, <1>13 DEF IInv, ReceiverInv, HandedUp
  <2>2. \A x \in R2 : NR[p] < x.NS /\ Carries(x, accepted[q])
    BY <1>2, <1>5, <1>6 DEF n
  <2>3. HeldBack(p)'
    BY <1>1, <1>7, <1>13, <2>2 DEF HeldBack, Carries
  <2> QED BY <2>1, <2>3 DEF ReceiverInv
<1>15. /\ NR' \in [Peer -> Nat] /\ delivered' \in [Peer -> Seq(SDU)]
       /\ \A r \in Peer : r # p => /\ NR'[r] = NR[r] /\ receivedPDUs'[r] = receivedPDUs[r]
                                   /\ delivered'[r] = delivered[r]
  BY <1>1, <1>7, AsTheyAre
<1> QED BY <1>1, <1>4, <1>7, <1>10, <1>11, <1>12, <1>14, <1>15, AcknowledgeKeeps

-------------------------------------------------------------------------------
(* The steps in which nothing is sent.                                     *)

LEMMA QuietKeeps ==
  ASSUME IInv, NEW p \in Peer,
         UNCHANGED <<NS, LA, receivedACKs, listVars, ackPDUs, accepted, failure>>,
         wire' \in [Peer -> Seq(Frame)],
         \A r \in Peer : Len(wire'[r]) <= WireCap /\ Range(wire'[r]) \subseteq Range(wire[r]),
         NR' \in [Peer -> Nat], receivedPDUs' \in [Peer -> SUBSET IFrame],
         delivered' \in [Peer -> Seq(SDU)], delayingDelivery' \in [Peer -> BOOLEAN],
         suspending' \in [Peer -> BOOLEAN], suspended' \in [Peer -> BOOLEAN],
         \A r \in Peer : r # p => /\ NR'[r] = NR[r] /\ receivedPDUs'[r] = receivedPDUs[r]
                                  /\ delivered'[r] = delivered[r],
         \A n \in Nat : Holds(p, n) => Holds(p, n)',
         \A n \in Nat : Holds(p, n)' => Holds(p, n),
         ReceiverInv(p)'
  PROVE  IInv'
<1> DEFINE q == Other(p)
<1>1. q \in Peer /\ q # p /\ Other(q) = p /\ \A r \in Peer : r = p \/ r = q
  BY PeerFacts
<1>2. /\ NS' = NS /\ LA' = LA /\ receivedACKs' = receivedACKs /\ ackPDUs' = ackPDUs
      /\ activeCompound' = activeCompound /\ sendNow' = sendNow /\ sentPDUs' = sentPDUs
      /\ toRetransmit' = toRetransmit /\ sentAgain' = sentAgain /\ timeoutSet' = timeoutSet
      /\ accepted' = accepted /\ failure' = failure
  BY DEF listVars
<1>3. /\ TypeOK /\ failure = "none"
      /\ \A r \in Peer : SenderInv(r) /\ WireInv(r) /\ RepliesInv(r) /\ ReceiverInv(r)
  BY DEF IInv
<1>4. \A r \in Peer : /\ Members(r)' = Members(r) /\ Unacknowledged(r)' = Unacknowledged(r)
                      /\ Acked(r)' = Acked(r)
  BY <1>2 DEF Members, Unacknowledged, Acked
<1>5. \A n \in Nat : Holds(q, n)' <=> Holds(q, n)
  BY <1>1 DEF Holds
<1>6. \A r \in Peer, n \in Nat : (Holds(r, n) => Holds(r, n)') /\ (Holds(r, n)' => Holds(r, n))
  BY <1>1, <1>5
<1>7. \A r \in Peer : SenderInv(r)'
  BY <1>2, <1>3, <1>4 DEF SenderInv
<1>8. ASSUME NEW r \in Peer PROVE WireInv(r)'
  <2>1. /\ AllCarry(wire[r], accepted[r])
        /\ \A f \in Range(wire[r]) : f.type = "I" => ~Waits(Members(r), f.NS)
    BY <1>3 DEF WireInv
  <2>2. AllCarry(wire'[r], accepted[r])
    BY <2>1 DEF AllCarry
  <2>3. \A f \in Range(wire'[r]) : f.type = "I" => ~Waits(Members(r)', f.NS)
    BY <1>4, <2>1
  <2> QED BY <1>2, <2>2, <2>3 DEF WireInv
<1>9. ASSUME NEW r \in Peer PROVE RepliesInv(r)'
  <2>1. /\ AcksHeld(wire[r], r) /\ AcksHeld(ackPDUs[r], r)
        /\ \A n \in Acked(Other(r)) : Holds(r, n)
        /\ \A n \in Nat : Holds(r, n) => ~Waits(Members(Other(r)), n)
    BY <1>3 DEF RepliesInv
  <2>2. /\ \A f \in Range(wire[r]) : f.NS \in Nat
        /\ \A f \in Range(ackPDUs[r]) : f.NS \in Nat
    <3>1. wire[r] \in Seq(Frame) /\ ackPDUs[r] \in Seq(AckFrame)
      BY <1>3, PeerTypes
    <3>2. Range(wire[r]) \subseteq Frame /\ Range(ackPDUs[r]) \subseteq AckFrame
      BY <3>1, ElementsInRange
    <3> QED BY <3>2, FrameShape
  <2>3. AcksHeld(wire[r], r)'
    BY <1>6, <2>1, <2>2 DEF AcksHeld
  <2>4. AcksHeld(ackPDUs[r], r)'
    BY <1>2, <1>6, <2>1, <2>2 DEF AcksHeld
  <2>5. Other(r) \in Peer
    BY PeerFacts
  <2>6. \A n \in Acked(Other(r))' : Holds(r, n)'
    <3>1. \A n \in Acked(Other(r)) : n \in Nat
      BY <2>5, AckedWasAccepted
    <3> QED BY <1>4, <1>6, <2>1, <2>5, <3>1
  <2>7. \A n \in Nat : Holds(r, n)' => ~Waits(Members(Other(r))', n)
    BY <1>4, <1>6, <2>1, <2>5
  <2> QED BY <2>3, <2>4, <2>6, <2>7 DEF RepliesInv
<1>10. ReceiverInv(q)'
  <2>1. /\ NR'[q] = NR[q] /\ receivedPDUs'[q] = receivedPDUs[q]
        /\ delivered'[q] = delivered[q] /\ ReceiverInv(q)
    BY <1>1, <1>3
  <2> HIDE DEF q
  <2> QED BY <1>2, <2>1 DEF ReceiverInv, HandedUp, HeldBack, Carries
<1>11. TypeOK'
  <2>1. /\ NS' \in [Peer -> Nat] /\ LA' \in [Peer -> Nat]
        /\ activeCompound' \in [Peer -> IFrame \cup {NoCompound}]
        /\ sendNow' \in [Peer -> BOOLEAN] /\ timeoutSet' \in [Peer -> BOOLEAN]
        /\ sentPDUs' \in [Peer -> Seq(IFrame)] /\ toRetransmit' \in [Peer -> Seq(IFrame)]
        /\ sentAgain' \in [Peer -> SUBSET Nat] /\ receivedACKs' \in [Peer -> SUBSET Nat]
        /\ ackPDUs' \in [Peer -> Seq(AckFrame)] /\ accepted' \in [Peer -> Seq(SDU)]
    BY <1>2, <1>3 DEF TypeOK
  <2>2. failure' = "none"
    BY <1>2, <1>3
  <2> QED BY <1>7, <2>1, <2>2, TypesFollow
<1> QED BY <1>1, <1>2, <1>3, <1>7, <1>8, <1>9, <1>10, <1>11 DEF IInv

LEMMA DeliverDelayedKeeps ==
  ASSUME IInv, NEW p \in Peer, DeliverDelayed(p)
  PROVE  /\ IInv'
         /\ accepted' = accepted /\ NR[p] <= NR'[p]
         /\ \A r \in Peer : r # p => delivered'[r] = delivered[r]
<1> DEFINE H == receivedPDUs[p]
           C == Consecutive(H, NR[p])
<1>1. /\ delivered' = [delivered EXCEPT ![p] = delivered[p] \o Upward(C, NR[p])]
      /\ NR' = [NR EXCEPT ![p] = NR[p] + Cardinality(C)]
      /\ receivedPDUs' = [receivedPDUs EXCEPT ![p] = receivedPDUs[p] \ C]
      /\ delayingDelivery' = [delayingDelivery EXCEPT ![p] = FALSE]
      /\ UNCHANGED <<NS, LA, receivedACKs, listVars, ackPDUs, suspendVars, wire, accepted, failure>>
  BY DEF DeliverDelayed, HandUp, Upward
<1>2. /\ H \in SUBSET IFrame /\ NR[p] \in Nat
      /\ \A x \in H : NR[p] <= x.NS /\ Carries(x, accepted[Other(p)])
  <2>1. H \in SUBSET IFrame /\ NR[p] \in Nat
    BY PeerTypes DEF IInv
  <2>2. \A x \in H : NR[p] < x.NS /\ Carries(x, accepted[Other(p)])
    BY DEF IInv, ReceiverInv, HeldBack
  <2>3. \A x \in H : x.NS \in Nat
    BY <2>1, FrameShape
  <2>4. \A x \in H : NR[p] <= x.NS
    BY <2>1, <2>2, <2>3
  <2> QED BY <2>1, <2>2, <2>4
<1>3. PICK H0, C0 : H0 = H /\ C0 = C
  OBVIOUS
<1> HIDE DEF C
<1>4. C0 = Consecutive(H0, NR[p])
  BY <1>3 DEF C
<1>5. HandsUp(p, H0, C0)
  BY <1>1, <1>2, <1>3, <1>4 DEF HandsUp
<1>6. /\ NR' \in [Peer -> Nat] /\ receivedPDUs' \in [Peer -> SUBSET IFrame]
      /\ delivered' \in [Peer -> Seq(SDU)]
      /\ \A r \in Peer : r # p => /\ NR'[r] = NR[r] /\ receivedPDUs'[r] = receivedPDUs[r]
                                  /\ delivered'[r] = delivered[r]
      /\ ReceiverInv(p)'
  BY <1>5, HandUpKeeps
<1>7. /\ \A k \in Nat : Holds(p, k) => Holds(p, k)'
      /\ \A k \in Nat : Holds(p, k)' => Holds(p, k) \/ \E x \in H0 : x.NS = k
  BY <1>5, HandUpKeeps
<1>8. \A k \in Nat : Holds(p, k)' => Holds(p, k)
  <2>1. \A k \in Nat : (\E x \in H0 : x.NS = k) => Holds(p, k)
    BY <1>3 DEF Holds
  <2> QED BY <1>7, <2>1
<1>9. /\ wire' \in [Peer -> Seq(Frame)]
      /\ \A r \in Peer : Len(wire'[r]) <= WireCap /\ Range(wire'[r]) \subseteq Range(wire[r])
      /\ delayingDelivery' \in [Peer -> BOOLEAN]
      /\ suspending' \in [Peer -> BOOLEAN] /\ suspended' \in [Peer -> BOOLEAN]
  BY <1>1, AsTheyAre DEF suspendVars
<1>10. UNCHANGED <<NS, LA, receivedACKs, listVars, ackPDUs, accepted, failure>>
  BY <1>1
<1>11. IInv'
  BY <1>6, <1>7, <1>8, <1>9, <1>10, QuietKeeps
<1>12. NR[p] <= NR'[p]
  BY <1>5, HandUpKeeps
<1> QED BY <1>6, <1>10, <1>11, <1>12

(* Only the wire, the suspend state or the delaying of delivery changes. *)
LEMMA NothingHandedUp ==
  ASSUME IInv, NEW p \in Peer,
         UNCHANGED <<NS, LA, receivedACKs, listVars, NR, receivedPDUs, ackPDUs, userVars, failure>>,
         wire' \in [Peer -> Seq(Frame)],
         \A r \in Peer : Len(wire'[r]) <= WireCap /\ Range(wire'[r]) \subseteq Range(wire[r]),
         delayingDelivery' \in [Peer -> BOOLEAN],
         suspending' \in [Peer -> BOOLEAN], suspended' \in [Peer -> BOOLEAN]
  PROVE  IInv'
<1>1. /\ NR' = NR /\ receivedPDUs' = receivedPDUs /\ delivered' = delivered
      /\ accepted' = accepted
  BY DEF userVars
<1>2. /\ \A n : Holds(p, n)' <=> Holds(p, n)
      /\ ReceiverInv(p)' <=> ReceiverInv(p)
  BY <1>1 DEF Holds, ReceiverInv, HandedUp, HeldBack
<1>3. /\ NR' \in [Peer -> Nat] /\ receivedPDUs' \in [Peer -> SUBSET IFrame]
      /\ delivered' \in [Peer -> Seq(SDU)] /\ ReceiverInv(p)'
  BY <1>1, <1>2, AsTheyAre
<1>4. UNCHANGED <<NS, LA, receivedACKs, listVars, ackPDUs, accepted, failure>>
  BY <1>1
<1> QED BY <1>1, <1>2, <1>3, <1>4, QuietKeeps

LEMMA DelayDeliveryKeeps ==
  ASSUME IInv, NEW p \in Peer, DelayDelivery(p)
  PROVE  IInv'
<1>1. /\ delayingDelivery' = [delayingDelivery EXCEPT ![p] = TRUE]
      /\ UNCHANGED <<NS, LA, receivedACKs, listVars, NR, receivedPDUs, ackPDUs, userVars, failure>>
      /\ wire' = wire /\ suspending' = suspending /\ suspended' = suspended
  BY DEF DelayDelivery, suspendVars
<1>2. /\ wire' \in [Peer -> Seq(Frame)] /\ delayingDelivery' \in [Peer -> BOOLEAN]
      /\ \A r \in Peer : Len(wire'[r]) <= WireCap /\ Range(wire'[r]) \subseteq Range(wire[r])
      /\ suspending' \in [Peer -> BOOLEAN] /\ suspended' \in [Peer -> BOOLEAN]
  BY <1>1, AsTheyAre
<1> QED BY <1>1, <1>2, NothingHandedUp

LEMMA SuspendKeeps ==
  ASSUME IInv, NEW p \in Peer, Suspend(p)
  PROVE  IInv'
<1>1. /\ suspending' = [suspending EXCEPT ![p] = TRUE]
      /\ suspended' = [suspended EXCEPT ![p] = (NS[p] = LA[p])]
      /\ UNCHANGED <<NS, LA, receivedACKs, listVars, NR, receivedPDUs, ackPDUs, userVars, failure>>
      /\ wire' = wire /\ delayingDelivery' = delayingDelivery
  BY DEF Suspend, onSuspend, receiverVars
<1>2. /\ wire' \in [Peer -> Seq(Frame)] /\ delayingDelivery' \in [Peer -> BOOLEAN]
      /\ \A r \in Peer : Len(wire'[r]) <= WireCap /\ Range(wire'[r]) \subseteq Range(wire[r])
      /\ suspending' \in [Peer -> BOOLEAN] /\ suspended' \in [Peer -> BOOLEAN]
  BY <1>1, AsTheyAre
<1> QED BY <1>1, <1>2, NothingHandedUp

LEMMA LoseKeeps ==
  ASSUME IInv, NEW p \in Peer, Lose(p)
  PROVE  IInv'
<1> DEFINE q == Other(p)
<1>1. q \in Peer /\ Other(q) = p
  BY PeerFacts
<1>2. /\ wire[p] # << >> /\ wire' = [wire EXCEPT ![p] = Tail(wire[p])]
      /\ UNCHANGED <<NS, LA, receivedACKs, listVars, NR, receivedPDUs, ackPDUs, userVars, failure>>
      /\ delayingDelivery' = delayingDelivery
      /\ suspending' = suspending /\ suspended' = suspended
  BY DEF Lose, receiverVars, suspendVars
<1>3. wire' = Taken(q)
  BY <1>1, <1>2 DEF Taken
<1>4. /\ Taken(q) \in [Peer -> Seq(Frame)]
      /\ \A r \in Peer : Len(Taken(q)[r]) <= WireCap /\ Range(Taken(q)[r]) \subseteq Range(wire[r])
  <2>1. wire[Other(q)] # << >>
    BY <1>1, <1>2
  <2> HIDE DEF q
  <2> QED BY <1>1, <2>1, TakenFacts
<1>5. /\ delayingDelivery' \in [Peer -> BOOLEAN]
      /\ suspending' \in [Peer -> BOOLEAN] /\ suspended' \in [Peer -> BOOLEAN]
  BY <1>2, AsTheyAre
<1> QED BY <1>2, <1>3, <1>4, <1>5, NothingHandedUp

LEMMA UnchangedKeeps ==
  ASSUME IInv, UNCHANGED vars
  PROVE  IInv'
<1>1. 1 \in Peer
  BY DEF Peer
<1>2. /\ UNCHANGED <<NS, LA, receivedACKs, listVars, NR, receivedPDUs, ackPDUs, userVars, failure>>
      /\ wire' = wire /\ suspending' = suspending /\ suspended' = suspended
      /\ delayingDelivery' = delayingDelivery
  BY DEF vars, suspendVars, receiverVars
<1>3. /\ wire' \in [Peer -> Seq(Frame)] /\ delayingDelivery' \in [Peer -> BOOLEAN]
      /\ \A r \in Peer : Len(wire'[r]) <= WireCap /\ Range(wire'[r]) \subseteq Range(wire[r])
      /\ suspending' \in [Peer -> BOOLEAN] /\ suspended' \in [Peer -> BOOLEAN]
  BY <1>1, <1>2, AsTheyAre
<1> QED BY <1>1, <1>2, <1>3, NothingHandedUp

LEMMA InitKeeps == Init => IInv
<1> SUFFICES ASSUME Init PROVE IInv
  OBVIOUS
<1>e. << >> \in Seq(IFrame) /\ << >> \in Seq(AckFrame) /\ << >> \in Seq(Frame)
      /\ << >> \in Seq(SDU) /\ Len(<< >>) = 0
  OBVIOUS
<1>1. /\ NS \in [Peer -> Nat] /\ NR \in [Peer -> Nat] /\ LA \in [Peer -> Nat]
      /\ sendNow \in [Peer -> BOOLEAN] /\ timeoutSet \in [Peer -> BOOLEAN]
      /\ activeCompound \in [Peer -> IFrame \cup {NoCompound}]
      /\ delayingDelivery \in [Peer -> BOOLEAN]
      /\ suspending \in [Peer -> BOOLEAN] /\ suspended \in [Peer -> BOOLEAN]
      /\ failure = "none"
  BY DEF Init
<1>2. /\ sentPDUs \in [Peer -> Seq(IFrame)] /\ toRetransmit \in [Peer -> Seq(IFrame)]
      /\ ackPDUs \in [Peer -> Seq(AckFrame)] /\ wire \in [Peer -> Seq(Frame)]
      /\ accepted \in [Peer -> Seq(SDU)] /\ delivered \in [Peer -> Seq(SDU)]
  BY <1>e DEF Init
<1>3. /\ sentAgain \in [Peer -> SUBSET Nat] /\ receivedACKs \in [Peer -> SUBSET Nat]
      /\ receivedPDUs \in [Peer -> SUBSET IFrame]
      /\ \A p \in Peer : sentAgain[p] = {} /\ receivedACKs[p] = {} /\ receivedPDUs[p] = {}
  BY DEF Init
<1>4. TypeOK
  BY <1>1, <1>2, <1>3 DEF TypeOK
<1>5. ASSUME NEW p \in Peer PROVE SenderInv(p) /\ WireInv(p) /\ RepliesInv(p) /\ ReceiverInv(p)
  <2> DEFINE q == Other(p)
             u == Members(p)
  <2>1. q \in Peer
    BY PeerFacts
  <2>2. /\ NS[p] = 0 /\ LA[p] = 0 /\ NR[p] = 0 /\ LA[q] = 0
        /\ activeCompound[p] = NoCompound /\ activeCompound[q] = NoCompound
        /\ sendNow[p] = FALSE /\ timeoutSet[p] = FALSE
        /\ sentPDUs[p] = << >> /\ toRetransmit[p] = << >> /\ ackPDUs[p] = << >>
        /\ wire[p] = << >> /\ accepted[p] = << >> /\ accepted[q] = << >> /\ delivered[p] = << >>
        /\ receivedACKs[p] = {} /\ receivedACKs[q] = {} /\ sentAgain[p] = {} /\ receivedPDUs[p] = {}
    BY <2>1 DEF Init
  <2>3. /\ u.active = NoCompound /\ u.now = FALSE /\ u.timer = FALSE /\ u.twice = {}
        /\ u.sent = << >> /\ u.again = << >> /\ Members(q).active = NoCompound
    BY <2>1, <2>2 DEF Members
  <2> HIDE DEF u
  <2>4. KeptBy(u) = << >>
    <3>1. Active(u) = << >>
      BY <2>3 DEF Active
    <3>2. << >> \o << >> = << >>
      OBVIOUS
    <3> QED BY <2>3, <3>1, <3>2 DEF KeptBy
  <2>5. Unacknowledged(p) = {}
    BY <2>2 DEF Unacknowledged
  <2>6. Sound(u, accepted[p], Unacknowledged(p))
    <3>1. Distinct(KeptBy(u)) /\ AllCarry(KeptBy(u), accepted[p])
          /\ \A n \in Nat : ~Has(KeptBy(u), n)
      BY <2>4, Empty DEF AllCarry, Has
    <3> QED BY <2>3, <2>5, <3>1 DEF Sound, Keeps
  <2>7. SenderInv(p)
    BY <2>2, <2>6, <1>e DEF SenderInv, u
  <2>8. WireInv(p)
    BY <2>2, <1>e, Empty, SelectiveRepeatAssumption DEF WireInv, AllCarry
  <2>9. RepliesInv(p)
    <3>1. AcksHeld(wire[p], p) /\ AcksHeld(ackPDUs[p], p)
      BY <2>2, Empty DEF AcksHeld
    <3>2. Acked(q) = {}
      BY <2>2 DEF Acked
    <3>3. \A n \in Nat : ~Waits(Members(q), n)
      BY <2>3 DEF Waits
    <3> QED BY <3>1, <3>2, <3>3 DEF RepliesInv
  <2>10. ReceiverInv(p)
    BY <2>2, <1>e DEF ReceiverInv, HandedUp, HeldBack
  <2> QED BY <2>7, <2>8, <2>9, <2>10
<1> QED BY <1>1, <1>4, <1>5 DEF IInv

(* The inductive invariant, step by step. *)
LEMMA StepKeeps ==
  ASSUME IInv, [Next]_vars
  PROVE  IInv'
<1>1. ASSUME Next PROVE IInv'
  <2>1. PICK p \in Peer :
          \/ \E d \in SDU : SendData(p, d)
          \/ OnTimeout(p) \/ Wakeup(p)
          \/ ReceiveExpected(p) \/ ReceiveOther(p)
          \/ ReceiveExpectedACK(p) \/ ReceiveLaterACK(p) \/ ReceiveOldACK(p)
          \/ DelayDelivery(p) \/ DeliverDelayed(p)
          \/ Suspend(p) \/ Lose(p)
    BY <1>1 DEF Next
  <2>2. ASSUME NEW d \in SDU, SendData(p, d) PROVE IInv'
    BY <2>2, SendDataKeeps
  <2>3. CASE OnTimeout(p)
    BY <2>3, OnTimeoutKeeps
  <2>4. CASE Wakeup(p)
    BY <2>4, WakeupKeeps
  <2>5. CASE ReceiveExpected(p)
    BY <2>5, ReceiveExpectedKeeps
  <2>6. CASE ReceiveOther(p)
    BY <2>6, ReceiveOtherKeeps
  <2>7. CASE ReceiveExpectedACK(p)
    BY <2>7, ReceiveExpectedACKKeeps
  <2>8. CASE ReceiveLaterACK(p)
    BY <2>8, ReceiveLaterACKKeeps
  <2>9. CASE ReceiveOldACK(p)
    BY <2>9, ReceiveOldACKKeeps
  <2>10. CASE DelayDelivery(p)
    BY <2>10, DelayDeliveryKeeps
  <2>11. CASE DeliverDelayed(p)
    BY <2>11, DeliverDelayedKeeps
  <2>12. CASE Suspend(p)
    BY <2>12, SuspendKeeps
  <2>13. CASE Lose(p)
    BY <2>13, LoseKeeps
  <2> QED BY <2>1, <2>2, <2>3, <2>4, <2>5, <2>6, <2>7, <2>8, <2>9, <2>10, <2>11, <2>12, <2>13
<1> QED BY <1>1, UnchangedKeeps

-------------------------------------------------------------------------------
(* What the two units show to the layers above them.                       *)

(* The two lists, the frame that waits, the ACKs that are missing, the     *)
(* ACKs on their way and the frames held behind a gap agree with each      *)
(* other in every reachable state.                                         *)
THEOREM Invariant == Spec => []IInv
<1>1. IInv /\ [Next]_vars => IInv'
  BY StepKeeps
<1> QED BY <1>1, InitKeeps, PTL DEF Spec

(* Every member of the unit has its type; the numbers sent more than once  *)
(* and the ACKs that wait for earlier ones lie within the window.          *)
THEOREM TypeCorrect == Spec => []TypeOK
<1>1. IInv => TypeOK
  BY DEF IInv
<1> QED BY <1>1, Invariant, PTL

(* The three places a frame is kept in, behind each other. *)
LEMMA KeptIs ==
  ASSUME IInv, NEW p \in Peer
  PROVE  /\ Kept(p) = KeptBy(Members(p)) /\ Kept(p) \in Seq(IFrame)
         /\ Keeps(Members(p), accepted[p], Unacknowledged(p))
<1>1. /\ Members(p) \in MembersType /\ Members(p).active = activeCompound[p]
      /\ Members(p).sent = sentPDUs[p] /\ Members(p).again = toRetransmit[p]
  BY MembersInType DEF IInv
<1>2. Kept(p) = KeptBy(Members(p))
  BY <1>1 DEF Kept, KeptBy, Active
<1>3. KeptBy(Members(p)) \in Seq(IFrame)
  BY <1>1, ActiveIsList
<1> QED BY <1>2, <1>3 DEF IInv, SenderInv, Sound

LEMMA DistinctCount ==
  ASSUME NEW s \in Seq(IFrame), Distinct(s)
  PROVE  Len(s) = Cardinality(Numbers(s))
<1> DEFINE n == Len(s)
           f == [i \in 1 .. n |-> s[i].NS]
           N == Numbers(s)
<1>1. n \in Nat /\ N = {s[i].NS : i \in 1 .. n}
  BY LenProperties DEF Numbers
<1>2. \A i, j \in 1 .. n : s[i].NS = s[j].NS => i = j
  BY DEF Distinct
<1> HIDE DEF n, N
<1>3. f \in [1 .. n -> N] /\ \A x \in N : \E i \in 1 .. n : f[i] = x
  BY <1>1
<1>4. \A i, j \in 1 .. n : f[i] = f[j] => i = j
  BY <1>2
<1> HIDE DEF f
<1>5. Cardinality(N) = n
  <2>1. n \in Nat
    BY <1>1
  <2>2. f \in [1 .. n -> N]
    BY <1>3
  <2>3. \A x \in N : \E i \in 1 .. n : f[i] = x
    BY <1>3
  <2> QED BY <1>4, <2>1, <2>2, <2>3, CountedBy
<1> QED BY <1>5 DEF n, N

(* Whatever the order of ACKs, repetitions and timeouts: the frames kept   *)
(* are those without an ACK, each once, each with its compound, and the    *)
(* assure() of onTimeout is never reached.                                 *)
THEOREM UnacknowledgedIsKept == Spec => []KeepsUnacknowledged
<1>1. ASSUME IInv, NEW p \in Peer
      PROVE  /\ Numbers(Kept(p)) = (LA[p] .. NS[p] - 1) \ receivedACKs[p]
             /\ Len(Kept(p)) = Cardinality(Numbers(Kept(p)))
             /\ \A i \in 1 .. Len(Kept(p)) : Kept(p)[i].sdu = accepted[p][Kept(p)[i].NS + 1]
  <2> DEFINE s == Kept(p)
             N == Unacknowledged(p)
             acc == accepted[p]
  <2>1. /\ s \in Seq(IFrame) /\ Distinct(s) /\ AllCarry(s, acc)
        /\ \A n \in Nat : Has(s, n) <=> n \in N
    BY <1>1, KeptIs DEF Keeps
  <2>2. N \subseteq Nat /\ N = (LA[p] .. NS[p] - 1) \ receivedACKs[p]
    <3>1. LA[p] \in Nat /\ NS[p] \in Nat
      BY <1>1, PeerTypes DEF IInv
    <3> QED BY <3>1 DEF Unacknowledged
  <2> HIDE DEF s, N, acc
  <2>3. \A x \in Range(s) : x \in IFrame /\ x.NS \in Nat /\ x.type = "I"
    <3>1. Range(s) \subseteq IFrame
      BY <2>1, ElementsInRange
    <3> QED BY <3>1, FrameShape
  <2>4. \A n : n \in Numbers(s) <=> Has(s, n)
    BY <2>1, NumbersOf
  <2>5. \A n : Has(s, n) => n \in Nat
    BY <2>3 DEF Has
  <2>6. Numbers(s) = N
    BY <2>1, <2>2, <2>4, <2>5
  <2>7. Len(s) = Cardinality(Numbers(s))
    BY <2>1, DistinctCount
  <2>8. \A i \in 1 .. Len(s) : s[i].sdu = acc[s[i].NS + 1]
    <3>1. \A x \in Range(s) : x.sdu = acc[x.NS + 1]
      BY <2>1, <2>3 DEF AllCarry, Carries
    <3>2. \A i \in 1 .. Len(s) : s[i] \in Range(s)
      BY <2>1, ElementsInRange
    <3> QED BY <3>1, <3>2
  <2> QED BY <2>2, <2>6, <2>7, <2>8 DEF s, acc
<1>2. IInv => KeepsUnacknowledged
  <2> SUFFICES ASSUME IInv PROVE KeepsUnacknowledged
    OBVIOUS
  <2>1. failure = "none"
    BY DEF IInv
  <2> QED BY <1>1, <2>1 DEF KeepsUnacknowledged
<1> QED BY <1>2, Invariant, PTL

LEMMA SuspendsWhenAllAcknowledged ==
  ASSUME IInv, [Next]_vars, NEW p \in Peer, suspended'[p], ~suspended[p]
  PROVE  NS'[p] = LA'[p]
<1>1. /\ NS \in [Peer -> Nat] /\ LA \in [Peer -> Nat]
      /\ suspended \in [Peer -> BOOLEAN]
  BY DEF IInv, TypeOK
<1>2. CASE suspended' = suspended
  BY <1>2
<1>3. ASSUME NEW r \in Peer, Suspend(r) PROVE NS'[p] = LA'[p]
  <2>1. suspended' = [suspended EXCEPT ![r] = (NS[r] = LA[r])] /\ NS' = NS /\ LA' = LA
    BY <1>3 DEF Suspend, onSuspend
  <2>2. r = p
    BY <1>1, <2>1
  <2> QED BY <1>1, <2>1, <2>2
<1>4. ASSUME NEW r \in Peer, ReceiveExpectedACK(r), suspended' # suspended PROVE NS'[p] = LA'[p]
  <2>1. PICK la : LA' = [LA EXCEPT ![r] = la] /\ trySuspend(r, la) /\ NS' = NS
    BY <1>4 DEF ReceiveExpectedACK
  <2>2. r = p
    BY <1>1, <2>1 DEF trySuspend
  <2>3. onSuspend(p, la)
    BY <1>1, <2>1, <2>2 DEF trySuspend
  <2> QED BY <1>1, <2>1, <2>2, <2>3 DEF onSuspend
<1>5. ASSUME NEW r \in Peer, NEW d \in SDU, SendData(r, d) PROVE suspended' = suspended
  BY <1>5 DEF SendData, suspendVars
<1>6. ASSUME NEW r \in Peer, OnTimeout(r) \/ Wakeup(r) \/ DelayDelivery(r) \/ DeliverDelayed(r) \/ Lose(r)
      PROVE  suspended' = suspended
  BY <1>6 DEF OnTimeout, Wakeup, DelayDelivery, DeliverDelayed, Lose, suspendVars
<1>7. ASSUME NEW r \in Peer, ReceiveExpected(r) \/ ReceiveOther(r)
      PROVE  suspended' = suspended
  BY <1>7 DEF ReceiveExpected, ReceiveOther, Acknowledge, suspendVars
<1>8. ASSUME NEW r \in Peer, ReceiveLaterACK(r) \/ ReceiveOldACK(r) PROVE suspended' = suspended
  BY <1>8 DEF ReceiveLaterACK, ReceiveOldACK, suspendVars
<1>9. ASSUME UNCHANGED vars PROVE suspended' = suspended
  BY <1>9 DEF vars, suspendVars
<1> QED BY <1>2, <1>3, <1>4, <1>5, <1>6, <1>7, <1>8, <1>9 DEF Next

(* All frames are acknowledged: the partner has handed up every compound,  *)
(* nothing is held back behind a gap.                                      *)
LEMMA AllAcknowledged ==
    IInv => \A p \in Peer : NS[p] = LA[p] => delivered[Other(p)] = accepted[p]
<1> SUFFICES ASSUME IInv, NEW p \in Peer, NS[p] = LA[p]
             PROVE  delivered[Other(p)] = accepted[p]
  OBVIOUS
<1> DEFINE q == Other(p)
           acc == accepted[p]
           del == delivered[q]
           nr == NR[q]
<1>1. q \in Peer /\ Other(q) = p
  BY PeerFacts
<1>2. /\ acc \in Seq(SDU) /\ del \in Seq(SDU) /\ nr \in Nat /\ Len(acc) \in Nat
      /\ SenderInv(p) /\ RepliesInv(q) /\ ReceiverInv(q)
      /\ receivedPDUs[q] \in SUBSET IFrame
  BY <1>1, PeerTypes DEF IInv
<1>3. /\ NS[p] = Len(acc) /\ nr <= Len(acc) /\ Len(del) = nr
      /\ \A k \in 1 .. nr : del[k] = acc[k]
      /\ \A f \in receivedPDUs[q] : nr < f.NS
  BY <1>1, <1>2 DEF SenderInv, ReceiverInv, HandedUp, HeldBack
<1>4. \A n \in Nat : n < LA[p] => Holds(q, n)
  BY <1>1, <1>2 DEF RepliesInv, Acked
<1>5. ~Holds(q, nr)
  <2>1. \A f \in receivedPDUs[q] : f.NS \in Nat
    BY <1>2, FrameShape
  <2>2. \A f \in receivedPDUs[q] : f.NS # nr
    BY <1>2, <1>3, <2>1
  <2> QED BY <1>2, <2>2 DEF Holds
<1>6. nr = Len(acc)
  <2> DEFINE l == Len(acc)
  <2>1. l \in Nat /\ l = LA[p] /\ nr <= l
    BY <1>2, <1>3
  <2> HIDE DEF l, nr
  <2>2. ~(nr < l)
    BY <1>2, <1>4, <1>5, <2>1
  <2> QED BY <1>2, <2>1, <2>2 DEF l
<1> HIDE DEF acc, del, nr
<1>7. acc = del
  BY <1>2, <1>3, <1>6, SeqEqual
<1> QED BY <1>7 DEF acc, del

(* A unit reports suspended() only when its partner has handed up all that *)
(* it accepted.                                                            *)
THEOREM SuspendsCleanly == Spec => SuspendIsClean
<1>1. (\A p \in Peer : NS[p] = LA[p] => delivered[Other(p)] = accepted[p])'
        /\ IInv /\ [Next]_vars =>
        [\A p \in Peer : suspended'[p] /\ ~suspended[p]
             => delivered'[Other(p)] = accepted'[p]]_vars
  BY SuspendsWhenAllAcknowledged
<1> QED BY <1>1, AllAcknowledged, Invariant, PTL DEF Spec, SuspendIsClean

-------------------------------------------------------------------------------
(* What a peer hands up prolongs what it has handed up.                    *)
LEMMA HandsUpPrefix ==
  ASSUME IInv, IInv', NEW p \in Peer, accepted' = accepted,
         \A r \in Peer : r # p => delivered'[r] = delivered[r], NR[p] <= NR'[p]
  PROVE  [Link!Next]_(Link!vars)
<1> DEFINE q == Other(p)
           s == delivered[p]
           t == delivered'[p]
           a == accepted[q]
           m == NR[p]
           n == NR'[p]
<1>1. /\ q \in Peer /\ TypeOK /\ TypeOK' /\ ReceiverInv(p) /\ ReceiverInv(p)'
  BY PeerFacts DEF IInv
<1>2. /\ s \in Seq(SDU) /\ t \in Seq(SDU) /\ a \in Seq(SDU) /\ Len(a) \in Nat
      /\ delivered \in [Peer -> Seq(SDU)] /\ delivered' \in [Peer -> Seq(SDU)]
      /\ m \in Nat /\ n \in Nat
  <2>1. /\ s \in Seq(SDU) /\ t \in Seq(SDU) /\ a \in Seq(SDU)
        /\ delivered \in [Peer -> Seq(SDU)] /\ delivered' \in [Peer -> Seq(SDU)]
        /\ m \in Nat /\ n \in Nat
    BY <1>1 DEF TypeOK
  <2> QED BY <2>1, LenProperties
<1>3. /\ \A k \in 1 .. m : s[k] = a[k]
      /\ \A k \in 1 .. n : t[k] = a[k]
      /\ m <= n /\ n <= Len(a) /\ Len(s) = m /\ Len(t) = n
  BY <1>1 DEF ReceiverInv, HandedUp
<1> HIDE DEF s, t, a, q, m, n
<1>4. CASE m = n
  <2>1. s = t
    <3>1. \A k \in 1 .. m : s[k] = t[k]
      BY <1>3, <1>4
    <3> QED BY <1>2, <1>3, <1>4, <3>1, SeqEqual
  <2>2. delivered' = delivered
    BY <1>2, <2>1 DEF s, t
  <2> QED BY <2>2 DEF Link!vars
<1>5. CASE m # n
  <2>1. n \in Len(s) + 1 .. Len(a)
    BY <1>2, <1>3, <1>5
  <2>2. t = SubSeq(a, 1, n)
    <3>1. \A i \in 1 .. n : a[i] \in SDU
      BY <1>2, <1>3
    <3>2. /\ SubSeq(a, 1, n) \in Seq(SDU) /\ Len(SubSeq(a, 1, n)) = n
          /\ \A i \in 1 .. n : SubSeq(a, 1, n)[i] = a[i]
      BY <1>2, <1>3
    <3> QED BY <1>2, <1>3, <3>2, SeqEqual
  <2>3. delivered' = [delivered EXCEPT ![p] = SubSeq(a, 1, n)]
    BY <1>2, <2>2 DEF t
  <2>4. Link!Deliver(p)
    BY <2>1, <2>3 DEF Link!Deliver, Link!Other, Other, s, a, q
  <2> QED BY <2>4 DEF Link!Next, Link!Peer, Peer
<1> QED BY <1>4, <1>5

(* A compound is accepted only while the window has room: every frame      *)
(* before the oldest without an ACK was handed up.                         *)
LEMMA AcceptsInWindow ==
  ASSUME IInv, NEW p \in Peer, NEW d \in SDU, SendData(p, d)
  PROVE  Link!Accept(p, d)
<1> DEFINE q == Other(p)
           n == NS[p]
           la == LA[p]
           nr == NR[q]
<1>1. q \in Peer /\ Other(q) = p
  BY PeerFacts
<1>2. TypeOK /\ SenderInv(p) /\ RepliesInv(q) /\ ReceiverInv(q)
  BY <1>1 DEF IInv
<1>3. /\ n = Len(accepted[p]) /\ Len(delivered[q]) = nr
      /\ n \in Nat /\ la \in Nat /\ nr \in Nat /\ windowSize \in Nat
      /\ receivedPDUs[q] \in SUBSET IFrame
  BY <1>1, <1>2, PeerTypes, SelectiveRepeatAssumption DEF SenderInv, ReceiverInv, HandedUp
<1>4. la <= nr
  <2>1. \A k \in Nat : k < la => Holds(q, k)
    BY <1>1, <1>2 DEF RepliesInv, Acked
  <2>2. ~Holds(q, nr)
    <3>1. \A f \in receivedPDUs[q] : nr < f.NS /\ f.NS \in Nat
      BY <1>2, <1>3, FrameShape DEF ReceiverInv, HeldBack
    <3> QED BY <1>3, <3>1 DEF Holds
  <2> HIDE DEF la, nr
  <2> QED BY <1>3, <2>1, <2>2
<1>5. n - la < windowSize
  BY DEF SendData, hasCapacity
<1> HIDE DEF n, la, nr
<1>6. n - nr < windowSize
  BY <1>3, <1>4, <1>5
<1>7. Len(accepted[p]) - Len(delivered[q]) < windowSize
  BY <1>3, <1>6
<1> QED BY <1>7 DEF SendData, Link!Accept, Link!Other, Other

LEMMA StepRefines ==
  ASSUME IInv, IInv', [Next]_vars
  PROVE  [Link!Next]_(Link!vars)
<1>1. ASSUME NEW p \in Peer, NEW d \in SDU, SendData(p, d) PROVE [Link!Next]_(Link!vars)
  <2>1. Link!Accept(p, d)
    BY <1>1, AcceptsInWindow
  <2> QED BY <2>1 DEF Link!Next, Link!Peer, Peer
<1>2. ASSUME NEW p \in Peer, ReceiveExpected(p) PROVE [Link!Next]_(Link!vars)
  BY <1>2, ReceiveExpectedKeeps, HandsUpPrefix
<1>3. ASSUME NEW p \in Peer, DeliverDelayed(p) PROVE [Link!Next]_(Link!vars)
  BY <1>3, DeliverDelayedKeeps, HandsUpPrefix
<1>4. ASSUME NEW p \in Peer, OnTimeout(p) \/ Wakeup(p) \/ ReceiveExpectedACK(p)
             \/ ReceiveLaterACK(p) \/ ReceiveOldACK(p) \/ DelayDelivery(p) \/ Suspend(p) \/ Lose(p)
      PROVE  UNCHANGED userVars
  BY <1>4 DEF OnTimeout, Wakeup, ReceiveExpectedACK, ReceiveLaterACK, ReceiveOldACK,
              DelayDelivery, Suspend, Lose
<1>5. ASSUME NEW p \in Peer, ReceiveOther(p) PROVE UNCHANGED userVars
  BY <1>5 DEF ReceiveOther, Acknowledge, userVars
<1>6. UNCHANGED vars => UNCHANGED userVars
  BY DEF vars
<1>7. UNCHANGED userVars => [Link!Next]_(Link!vars)
  BY DEF userVars, Link!vars
<1> QED BY <1>1, <1>2, <1>3, <1>4, <1>5, <1>6, <1>7 DEF Next

(* SelectiveRepeat implements ReliableLink with one window of compounds:   *)
(* what the code does to its users is what the abstract link allows.       *)
THEOREM Refinement == Spec => ImplementsReliableLink
<1>1. Init => Link!Init
  BY DEF Init, Link!Init, Link!Peer, Peer
<1>2. IInv /\ IInv' /\ [Next]_vars => [Link!Next]_(Link!vars)
  BY StepRefines
<1> QED BY <1>1, <1>2, Invariant, PTL DEF Spec, ImplementsReliableLink, Link!Spec

===============================================================================
