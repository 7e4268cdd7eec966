------------------------- MODULE SegAndConcatProofs -------------------------
(***************************************************************************)
(* Segmentation and concatenation from end to end, for every list of SDUs, *)
(* every size of headers, segments and of the window, and every pattern of *)
(* losses, copies and overtaking in which no segment falls a whole window  *)
(* behind.                                                                 *)
(*                                                                         *)
(*  1. the reordering window hands each segment on once and in order, and  *)
(*     the receiving window of the link behaves like it;                   *)
(*  2. the sender carries every bit once (SenderInv);                      *)
(*  3. the reassembly buffer gives up an SDU whole or not at all;          *)
(*  4. the link: LinkInv joins the three.                                  *)
(*                                                                         *)
(* Parts 2 to 4 assume that headers are not aligned to bytes: with         *)
(* byteAlignHeader a segment may be larger than what was asked for, which  *)
(* the assertion of InnerQueue::retrieve excludes.                         *)
(***************************************************************************)
EXTENDS SegAndConcat, TLAPS, WellFoundedInduction, SequenceTheorems

-----------------------------------------------------------------------------
(* The least element of a set of natural numbers.                          *)

Lower == {p \in Nat \X Nat : p[1] < p[2]}

LEMMA LowerPair ==
  ASSUME NEW x \in Nat, NEW y \in Nat, <<y, x>> \notin Lower
  PROVE  x <= y
<1>1. <<y, x>> \in Nat \X Nat
  OBVIOUS
<1>2. ~(y < x)
  BY <1>1, SMT DEF Lower
<1> QED BY <1>2

(* Every nonempty set of natural numbers has a least element. *)
LEMMA LeastElement ==
  ASSUME NEW T \in SUBSET Nat, T /= {}
  PROVE  \E x \in T : \A y \in T : x <= y
<1>1. IsWellFoundedOn(Lower, Nat)
  BY NatLessThanWellFounded, Zenon DEF OpToRel, Lower
<1>2. \E x \in T : \A y \in T : <<y, x>> \notin Lower
  BY <1>1, WFMin
<1>3. \A x \in T : \A y \in T : <<y, x>> \notin Lower => x <= y
  BY LowerPair
<1> QED BY <1>2, <1>3

-----------------------------------------------------------------------------
(* The next missing number is the least one above n that is not held: the
   loop of ReorderingWindow::nextMissingSegment ends. *)
LEMMA NextMissing ==
  ASSUME NEW n \in Nat, NEW held \in SUBSET Nat, NEW uh \in Nat, \A k \in held : k < uh
  PROVE  LET m == nextMissingSegment(n, held, uh)
         IN  /\ m \in Nat /\ n < m /\ m \notin held
             /\ n < uh => m <= uh
<1> DEFINE top == IF uh > n THEN uh ELSE n + 1
           T == {m \in (n + 1) .. top : m \notin held}
<1>1. top \in T
  OBVIOUS
<1>2. T \in SUBSET Nat
  OBVIOUS
<1>3. PICK x \in T : \A y \in T : x <= y
  BY <1>1, <1>2, LeastElement
<1>4. \A k \in (n + 1) .. (x - 1) : k \in held
  <2> SUFFICES ASSUME NEW k \in (n + 1) .. (x - 1), k \notin held
               PROVE  FALSE
    OBVIOUS
  <2>1. k \in T
    BY <1>3
  <2> QED BY <2>1, <1>3
<1>5. \E m \in (n + 1) .. top : m \notin held /\ (n + 1) .. (m - 1) \subseteq held
  BY <1>3, <1>4
<1>6. nextMissingSegment(n, held, uh) \in T
  BY <1>5 DEF nextMissingSegment
<1> HIDE DEF T
<1>7. nextMissingSegment(n, held, uh) \in (n + 1) .. top /\ nextMissingSegment(n, held, uh) \notin held
  BY <1>6 DEF T
<1> QED BY <1>7


-----------------------------------------------------------------------------
(* The invariant.  That a segment is handed on at or above vrUR needs all of
   it: what is held lies above vrUR, what comes is not expired, and the timer
   only runs for a number that vrUR has not reached.                       *)

WindowInv == WindowTypeOK /\ HeldBackIsTimed

HandedOn == \A n \in reassembled' : vrUR <= n /\ n < vrUR'

LEMMA InitWindowInv == WindowInit => WindowInv
<1> SUFFICES ASSUME WindowInit
             PROVE  WindowInv
  OBVIOUS
<1>1. WindowTypeOK
  BY DEF WindowInit, WindowTypeOK
<1>2. vrUH - WindowSize <= vrUR /\ vrUR <= vrUH /\ ~(vrUR < vrUH)
  BY WindowAssumption DEF WindowInit
<1>3. reorderingTimer = FALSE /\ reorderWindow = {}
  BY DEF WindowInit
<1> QED BY <1>1, <1>2, <1>3, Zenon DEF WindowInv, HeldBackIsTimed

(* A segment enters the window. *)
LEMMA PlaceKeepsInv ==
  ASSUME WindowInv, NEW n \in Nat, Timely(n), ~isExpired(n), Place(n), ProcessTimer
  PROVE  WindowInv' /\ HandedOn /\ vrUR <= vrUR'
<1> DEFINE held == reorderWindow \union {n}
           uh == UpperEdge(n)
           first == FirstWaitedFor(uh)
           ur == IF first \in held THEN nextMissingSegment(first, held, uh) ELSE first
           lower == IF ur /= first THEN ur ELSE IF uh /= vrUH THEN uh - WindowSize ELSE 0
<1> USE WindowAssumption
<1>1. /\ vrUH \in Nat /\ vrUR \in Nat /\ vrUX \in Nat /\ reorderingTimer \in BOOLEAN
      /\ reorderWindow \in SUBSET Nat
      /\ \A k \in reorderWindow : vrUR < k /\ k < vrUH
      /\ vrUH - WindowSize <= vrUR /\ vrUR <= vrUH
      /\ reorderingTimer <=> vrUR < vrUH
      /\ reorderingTimer => vrUR < vrUX /\ vrUX <= vrUH
  BY DEF WindowInv, WindowTypeOK, HeldBackIsTimed
<1>2. vrUR <= n
  BY <1>1 DEF Timely, isExpired
<1>3. /\ uh \in Nat /\ vrUH <= uh /\ n < uh
      /\ uh = vrUH \/ (uh = n + 1 /\ vrUH <= n)
  BY <1>1 DEF UpperEdge, isWithinReorderingWindow, Timely
<1>4. /\ first \in Nat /\ vrUR <= first /\ first < uh /\ uh - WindowSize <= first
      /\ first = vrUR \/ (uh /= vrUH /\ first = uh - WindowSize)
  BY <1>1, <1>2, <1>3 DEF FirstWaitedFor, isWithinReorderingWindow
<1>5. /\ held \in SUBSET Nat
      /\ \A k \in held : k < uh /\ vrUR <= k
  BY <1>1, <1>2, <1>3
<1>6. first \in held => /\ nextMissingSegment(first, held, uh) \in Nat
                        /\ first < nextMissingSegment(first, held, uh)
                        /\ nextMissingSegment(first, held, uh) \notin held
                        /\ nextMissingSegment(first, held, uh) <= uh
  <2> HIDE DEF held, uh, first
  <2> QED BY <1>3, <1>4, <1>5, NextMissing
<1>7. /\ ur \in Nat /\ first <= ur /\ ur <= uh /\ ur \notin held
      /\ ur /= first \/ first \notin held
  <2> HIDE DEF held, uh, first
  <2> QED BY <1>3, <1>4, <1>6
<1>8. /\ vrUH' = uh /\ vrUR' = ur
      /\ reassembled' = Below(held, lower)
      /\ reorderWindow' = From(held, lower)
  BY DEF Place
<1> HIDE DEF held, uh, first, ur
<1>9. lower \in Int /\ lower <= ur
  BY <1>1, <1>3, <1>4, <1>7
<1>10. \A k \in held : k >= lower => ur < k
  <2> SUFFICES ASSUME NEW k \in held, k >= lower
               PROVE  ur < k
    OBVIOUS
  <2>1. k \in Nat /\ k /= ur /\ vrUR <= k
    BY <1>5, <1>7
  <2>2. CASE ur /= first
    BY <2>1, <2>2, <1>7
  <2>3. CASE ur = first
    BY <2>1, <2>3, <1>3, <1>4, <1>7, <1>1
  <2> QED BY <2>2, <2>3
<1>11. HandedOn
  BY <1>5, <1>7, <1>8, <1>9 DEF HandedOn, Below
<1>12. /\ reorderWindow' \in SUBSET Nat /\ reassembled' \in SUBSET Nat
       /\ \A k \in reorderWindow' : vrUR' < k /\ k < vrUH'
  BY <1>5, <1>8, <1>10 DEF From, Below
<1>13. /\ vrUH' \in Nat /\ vrUR' \in Nat
       /\ vrUH' - WindowSize <= vrUR' /\ vrUR' <= vrUH' /\ vrUH <= vrUH'
  BY <1>3, <1>4, <1>7, <1>8
<1>14. /\ vrUX' \in Nat /\ reorderingTimer' \in BOOLEAN
       /\ reorderingTimer' <=> vrUR' < vrUH'
       /\ reorderingTimer' => vrUR' < vrUX' /\ vrUX' <= vrUH'
  <2> DEFINE waits == vrUH' > vrUR'
             stopped == \/ vrUX <= vrUR'
                        \/ ~isWithinReorderingWindow(vrUX, vrUH') /\ vrUX /= vrUH'
  <2>1. /\ reorderingTimer' = ((reorderingTimer /\ ~stopped) \/ waits)
        /\ vrUX' = IF ~(reorderingTimer /\ ~stopped) /\ waits THEN vrUH' ELSE vrUX
    BY DEF ProcessTimer
  <2>2. reorderingTimer /\ ~stopped => /\ vrUR' < vrUX /\ vrUX <= vrUH'
                                      /\ waits
    <3>1. reorderingTimer => vrUX <= vrUH
      BY <1>1, Zenon
    <3>2. ~stopped => vrUR' < vrUX
      BY <1>1, <1>13
    <3>3. vrUX <= vrUH => vrUX <= vrUH'
      BY <1>1, <1>13
    <3>4. vrUR' < vrUX /\ vrUX <= vrUH' => waits
      BY <1>1, <1>13
    <3> HIDE DEF stopped, waits
    <3> QED BY <3>1, <3>2, <3>3, <3>4, Zenon
  <2>3. waits <=> vrUR' < vrUH'
    BY <1>13
  <2>4. vrUR' < vrUH' => vrUH' <= vrUH'
    BY <1>13
  <2>5. vrUX' \in Nat
    BY <2>1, <1>1, <1>13
  <2> HIDE DEF stopped, waits
  <2>6. CASE reorderingTimer /\ ~stopped
    <3>1. reorderingTimer' = TRUE /\ vrUX' = vrUX
      BY <2>1, <2>2, <2>6, Zenon
    <3> QED BY <3>1, <2>2, <2>3, <2>5, <2>6, Zenon
  <2>7. CASE ~(reorderingTimer /\ ~stopped) /\ waits
    <3>1. reorderingTimer' = TRUE /\ vrUX' = vrUH'
      BY <2>1, <2>7, Zenon
    <3> QED BY <3>1, <2>3, <2>4, <2>5, <2>7, Zenon
  <2>8. CASE ~(reorderingTimer /\ ~stopped) /\ ~waits
    <3>1. reorderingTimer' = FALSE
      BY <2>1, <2>8, Zenon
    <3> QED BY <3>1, <2>3, <2>5, <2>8, Zenon
  <2> QED BY <2>6, <2>7, <2>8, Zenon
<1>15. vrUR <= vrUR'
  BY <1>1, <1>4, <1>7, <1>8
<1> QED BY <1>11, <1>12, <1>13, <1>14, <1>15 DEF WindowInv, WindowTypeOK, HeldBackIsTimed

(* A duplicate or a segment that comes too late. *)
LEMMA DiscardKeepsInv ==
  ASSUME WindowInv, discard
  PROVE  WindowInv' /\ HandedOn /\ vrUR <= vrUR'
  BY DEF WindowInv, WindowTypeOK, HeldBackIsTimed, HandedOn, discard

(* The timer gives up the missing segments. *)
LEMMA ExpiryKeepsInv ==
  ASSUME WindowInv, onTReorderingExpired
  PROVE  WindowInv' /\ HandedOn /\ vrUR <= vrUR'
<1>1. /\ vrUH \in Nat /\ vrUR \in Nat /\ vrUX \in Nat
      /\ reorderWindow \in SUBSET Nat
      /\ \A k \in reorderWindow : vrUR < k /\ k < vrUH
      /\ vrUH - WindowSize <= vrUR
      /\ vrUR < vrUX /\ vrUX <= vrUH
  BY DEF WindowInv, WindowTypeOK, HeldBackIsTimed, onTReorderingExpired, passMissing
<1> DEFINE ur == nextMissingSegment(vrUX - 1, reorderWindow, vrUH)
<1>2. vrUX - 1 \in Nat /\ vrUX - 1 < vrUH
  BY <1>1
<1>3. ur \in Nat /\ vrUX - 1 < ur /\ ur \notin reorderWindow /\ ur <= vrUH
  BY <1>1, <1>2, NextMissing
<1>4. /\ vrUR' = ur /\ vrUH' = vrUH
      /\ reassembled' = Below(reorderWindow, ur)
      /\ reorderWindow' = From(reorderWindow, ur)
      /\ vrUX' = IF vrUH > ur THEN vrUH ELSE vrUX
  BY DEF onTReorderingExpired, passMissing
<1>5. reorderingTimer' = (vrUH > ur)
  BY DEF onTReorderingExpired, passMissing
<1> HIDE DEF ur
<1>6. HandedOn
  BY <1>1, <1>3, <1>4 DEF HandedOn, Below
<1>7. \A k \in reorderWindow' : k \in Nat /\ vrUR' < k /\ k < vrUH'
  BY <1>1, <1>3, <1>4 DEF From
<1>8. /\ vrUH' \in Nat /\ vrUR' \in Nat /\ vrUX' \in Nat
      /\ reorderWindow' \in SUBSET Nat /\ reassembled' \in SUBSET Nat
      /\ vrUH' - WindowSize <= vrUR' /\ vrUR' <= vrUH'
  <2>1. vrUR' \in Nat /\ vrUH' \in Nat /\ vrUX' \in Nat
    BY <1>1, <1>3, <1>4
  <2>2. vrUH' - WindowSize <= vrUR' /\ vrUR' <= vrUH'
    BY <1>1, <1>3, <1>4, WindowAssumption
  <2>3. reorderWindow' \in SUBSET Nat /\ reassembled' \in SUBSET Nat
    BY <1>1, <1>4 DEF Below, From
  <2> QED BY <2>1, <2>2, <2>3
<1>9. reorderingTimer' \in BOOLEAN /\ (reorderingTimer' <=> vrUR' < vrUH')
  <2> DEFINE waits == vrUH > ur
  <2>1. waits <=> vrUR' < vrUH'
    BY <1>1, <1>3, <1>4
  <2>2. waits \in BOOLEAN /\ reorderingTimer' = waits
    BY <1>5
  <2> HIDE DEF waits
  <2> QED BY <2>1, <2>2, Zenon
<1>10. vrUR' < vrUH' => vrUR' < vrUX' /\ vrUX' <= vrUH'
  BY <1>1, <1>3, <1>4
<1>11. WindowInv'
  BY <1>7, <1>8, <1>9, <1>10, Zenon DEF WindowInv, WindowTypeOK, HeldBackIsTimed
<1>12. vrUR <= vrUR'
  BY <1>1, <1>3, <1>4
<1> QED BY <1>6, <1>11, <1>12

(* Every step of the window keeps its invariant and hands on in order. *)
LEMMA NextKeepsInv ==
  ASSUME WindowInv, [WindowNext]_windowVars
  PROVE  WindowInv' /\ [HandedOn]_windowVars
<1>1. CASE UNCHANGED windowVars
  BY <1>1 DEF WindowInv, WindowTypeOK, HeldBackIsTimed, windowVars
<1>2. ASSUME NEW n \in Nat, Timely(n), onSegment(n)
      PROVE  WindowInv' /\ HandedOn
  BY <1>2, DiscardKeepsInv, PlaceKeepsInv DEF onSegment
<1>3. CASE onTReorderingExpired
  BY <1>3, ExpiryKeepsInv
<1> QED BY <1>1, <1>2, <1>3 DEF WindowNext

-----------------------------------------------------------------------------
(* The types of the window's state, and the rule that ties the timer to what
   is held back. *)
THEOREM WindowIsTimed == WindowSpec => [](WindowTypeOK /\ HeldBackIsTimed)
<1>1. WindowInv /\ [WindowNext]_windowVars => WindowInv'
  BY NextKeepsInv
<1> QED BY InitWindowInv, <1>1, PTL DEF WindowSpec, WindowInv

(* Segments are handed on in the order of their numbers, and none twice:
   isExpired, isDuplicate and updateReassemblyBuffer together. *)
THEOREM WindowHandsOnInOrder == WindowSpec => HandsOnInOrder
<1>1. WindowInv /\ [WindowNext]_windowVars => WindowInv' /\ [HandedOn]_windowVars
  BY NextKeepsInv
<1>2. WindowSpec => [][HandedOn]_windowVars
  BY InitWindowInv, <1>1, PTL DEF WindowSpec
<1> QED BY <1>2 DEF HandsOnInOrder, HandedOn

-----------------------------------------------------------------------------
(* The link.                                                               *)

(* The segments on the wire are the youngest of those sent, fewer than a
   window behind the next one, and the window knows of none that was not sent. *)
NetInv ==
  /\ sequenceNumber \in Nat /\ vrUH \in Nat
  /\ vrUH <= sequenceNumber
  /\ wire \in SUBSET Nat
  /\ \A k \in wire : k < sequenceNumber /\ sequenceNumber - k <= WindowSize

LEMMA InitNetInv == Init => NetInv
  BY DEF Init, QueueInit, WindowInit, NetInv

(* A segment leaves the sender. *)
LEMMA LeaveKeepsNetInv ==
  ASSUME NetInv, RoomFor(sequenceNumber),
         sequenceNumber' = sequenceNumber + 1, wire' = wire \union {sequenceNumber},
         UNCHANGED windowVars
  PROVE  NetInv'
  BY WindowAssumption DEF NetInv, RoomFor, windowVars

(* A segment arrives: it is not a whole window late. *)
LEMMA ArrivalIsTimely ==
  ASSUME NetInv, NEW n \in wire, onSegment(n)
  PROVE  n \in Nat /\ Timely(n) /\ vrUH' \in Nat /\ vrUH' <= sequenceNumber
<1>1. n \in Nat /\ Timely(n) /\ n < sequenceNumber
  BY WindowAssumption DEF NetInv, Timely
<1>2. CASE discard
  BY <1>1, <1>2 DEF discard, NetInv
<1>3. CASE Place(n)
  <2>1. vrUH' = UpperEdge(n)
    BY <1>3 DEF Place
  <2> QED BY <1>1, <2>1 DEF UpperEdge, NetInv
<1> QED BY <1>1, <1>2, <1>3 DEF onSegment

(* Every step of the link is one of its window, or leaves the window alone. *)
LEMMA StepOfWindow ==
  ASSUME NetInv, [Next]_vars
  PROVE  NetInv' /\ [WindowNext]_windowVars
<1>1. CASE UNCHANGED vars
  BY <1>1 DEF NetInv, vars, windowVars, segmentVars, unitVars
<1>2. CASE PutSDU
  BY <1>2 DEF PutSDU, Put, PutDropped, NetInv, windowVars, segmentVars, unitVars
<1>3. CASE Grant
  <2>1. sequenceNumber' = sequenceNumber + 1
    BY <1>3 DEF Grant, getHeadOfLinePDUSegment
  <2>2. UNCHANGED windowVars
    BY <1>3 DEF Grant, receiverVars, windowVars
  <2> QED BY <1>3, <2>1, <2>2, LeaveKeepsNetInv DEF Grant
<1>4. CASE NewFrame
  BY <1>4 DEF NewFrame, frameStarts, NetInv, windowVars, segmentVars, unitVars
<1>5. CASE processOutgoing
  BY <1>5 DEF processOutgoing, NetInv, windowVars, receiverVars, segmentVars
<1>6. CASE getSomethingToSend
  <2>1. UNCHANGED windowVars
    BY <1>6 DEF getSomethingToSend, receiverVars, windowVars
  <2> QED BY <1>6, <2>1, LeaveKeepsNetInv DEF getSomethingToSend
<1>7. CASE processIncoming
  <2>1. PICK n \in wire : onSegment(n) /\ wire' \in {wire, wire \ {n}} /\ UNCHANGED segmentVars
    BY <1>7 DEF processIncoming
  <2>2. n \in Nat /\ Timely(n) /\ vrUH' \in Nat /\ vrUH' <= sequenceNumber
    BY <2>1, ArrivalIsTimely
  <2> QED BY <2>1, <2>2 DEF NetInv, segmentVars, WindowNext
<1>8. CASE TReorderingExpires
  BY <1>8 DEF TReorderingExpires, onTReorderingExpired, WindowNext, NetInv, segmentVars
<1>9. CASE Lose
  BY <1>9 DEF Lose, NetInv, receiverVars, windowVars, segmentVars
<1> QED BY <1>1, <1>2, <1>3, <1>4, <1>5, <1>6, <1>7, <1>8, <1>9 DEF Next

-----------------------------------------------------------------------------
(* The window of the link is a ReorderingWindow: every segment that comes over
   a network that lets none be overtaken by a whole window is timely. *)
THEOREM LinkImplementsWindow == Spec => WindowSpec
<1>1. Init => WindowInit
  BY DEF Init
<1> QED BY <1>1, InitNetInv, StepOfWindow, PTL DEF Spec, WindowSpec

(* Whatever is lost, duplicated or reordered, the window of the link hands the
   segments to the reassembly buffer in order and each number at most once. *)
THEOREM LinkHandsOnInOrder == Spec => HandsOnInOrder
  BY LinkImplementsWindow, WindowHandsOnInOrder

-----------------------------------------------------------------------------
(* Sums of lists.                                                          *)

IsSum(f, s, n) == f = [i \in 0 .. n |-> IF i = 0 THEN 0 ELSE f[i - 1] + s[i]]

(* The recursion of Total has a solution. *)
LEMMA SumExists ==
  ASSUME NEW s \in Seq(Int)
  PROVE  \E f : IsSum(f, s, Len(s))
<1> DEFINE T == {n \in 0 .. Len(s) : ~ \E f : IsSum(f, s, n)}
<1>1. T \in SUBSET Nat
  OBVIOUS
<1>2. SUFFICES ASSUME T /= {}
               PROVE  FALSE
  <2>1. Len(s) \in 0 .. Len(s)
    OBVIOUS
  <2> QED BY <2>1
<1>3. PICK n \in T : \A m \in T : n <= m
  BY <1>1, <1>2, LeastElement
<1>4. CASE n = 0
  <2>1. IsSum([i \in 0 .. 0 |-> 0], s, 0)
    BY DEF IsSum
  <2> QED BY <2>1, <1>3, <1>4
<1>5. CASE n /= 0
  <2>1. n - 1 \in 0 .. Len(s) /\ n - 1 \notin T /\ n \in Nat
    BY <1>3, <1>5
  <2>2. PICK f : IsSum(f, s, n - 1)
    BY <2>1
  <2> DEFINE g == [i \in 0 .. n |-> IF i = n THEN f[n - 1] + s[n] ELSE f[i]]
  <2>3. \A i \in 0 .. n : g[i] = IF i = 0 THEN 0 ELSE g[i - 1] + s[i]
    BY <2>1, <2>2, <1>5 DEF IsSum
  <2>4. g = [i \in 0 .. n |-> IF i = 0 THEN 0 ELSE g[i - 1] + s[i]]
    <3>1. g = [i \in 0 .. n |-> g[i]]
      OBVIOUS
    <3> HIDE DEF g
    <3> QED BY <2>3, <3>1
  <2> HIDE DEF g
  <2>5. IsSum(g, s, n)
    BY <2>4 DEF IsSum
  <2> QED BY <2>5, <1>3
<1> QED BY <1>4, <1>5

(* The partial sums of a list. *)
LEMMA PartialSums ==
  ASSUME NEW s \in Seq(Int)
  PROVE  \E f \in [0 .. Len(s) -> Int] :
           /\ Total(s) = f[Len(s)]
           /\ f[0] = 0
           /\ \A i \in 1 .. Len(s) : f[i] = f[i - 1] + s[i]
<1> DEFINE f == CHOOSE f : IsSum(f, s, Len(s))
<1>1. IsSum(f, s, Len(s))
  BY SumExists
<1>2. Total(s) = f[Len(s)]
  BY DEF Total, IsSum
<1> HIDE DEF f
<1>3. f[0] = 0 /\ \A i \in 1 .. Len(s) : f[i] = f[i - 1] + s[i]
  <2>1. Len(s) \in Nat
    OBVIOUS
  <2>2. \A i \in 0 .. Len(s) : f[i] = IF i = 0 THEN 0 ELSE f[i - 1] + s[i]
    BY <1>1, Zenon DEF IsSum
  <2> QED BY <2>1, <2>2
<1>4. \A i \in 0 .. Len(s) : f[i] \in Int
  <2> DEFINE T == {i \in 0 .. Len(s) : f[i] \notin Int}
  <2>1. T \in SUBSET Nat
    OBVIOUS
  <2>2. SUFFICES ASSUME T /= {}
                 PROVE  FALSE
    OBVIOUS
  <2>3. PICK i \in T : \A m \in T : i <= m
    BY <2>1, <2>2, LeastElement
  <2>4. i /= 0
    BY <2>3, <1>3
  <2>5. i - 1 \in 0 .. Len(s) /\ i - 1 \notin T
    BY <2>3, <2>4
  <2>6. f[i - 1] \in Int /\ s[i] \in Int /\ i \in 1 .. Len(s)
    BY <2>3, <2>4, <2>5
  <2>7. f[i] \in Int
    BY <2>6, <1>3
  <2> QED BY <2>3, <2>7
<1>5. f \in [0 .. Len(s) -> Int]
  BY <1>1, <1>4 DEF IsSum
<1> QED BY <1>2, <1>3, <1>5

(* A function that adds one element after the other ends with the sum. *)
LEMMA TotalIs ==
  ASSUME NEW s \in Seq(Int), NEW g, g[0] = 0, \A i \in 1 .. Len(s) : g[i] = g[i - 1] + s[i]
  PROVE  Total(s) = g[Len(s)]
<1>1. PICK f \in [0 .. Len(s) -> Int] :
        /\ Total(s) = f[Len(s)]
        /\ f[0] = 0
        /\ \A i \in 1 .. Len(s) : f[i] = f[i - 1] + s[i]
  BY PartialSums
<1> DEFINE T == {i \in 0 .. Len(s) : f[i] /= g[i]}
<1>2. T \in SUBSET Nat
  OBVIOUS
<1>3. T = {}
  <2> SUFFICES ASSUME T /= {}
               PROVE  FALSE
    OBVIOUS
  <2>1. PICK i \in T : \A m \in T : i <= m
    BY <1>2, LeastElement
  <2>2. i /= 0
    BY <2>1, <1>1
  <2>3. i - 1 \in 0 .. Len(s) /\ i - 1 \notin T /\ i \in 1 .. Len(s)
    BY <2>1, <2>2
  <2>4. f[i] = g[i]
    BY <2>3, <1>1
  <2> QED BY <2>1, <2>4
<1>4. Len(s) \in 0 .. Len(s)
  OBVIOUS
<1> QED BY <1>1, <1>3, <1>4

LEMMA TotalEmpty == Total(<<>>) = 0
<1> DEFINE g == [i \in {0} |-> 0]
<1>1. <<>> \in Seq(Int) /\ Len(<<>>) = 0
  OBVIOUS
<1>2. g[0] = 0 /\ \A i \in 1 .. Len(<<>>) : g[i] = g[i - 1] + <<>>[i]
  BY <1>1
<1> HIDE DEF g
<1> QED BY <1>1, <1>2, TotalIs

LEMMA TotalType ==
  ASSUME NEW s \in Seq(Int)
  PROVE  Total(s) \in Int
<1>1. PICK f \in [0 .. Len(s) -> Int] : Total(s) = f[Len(s)]
  BY PartialSums
<1>2. Len(s) \in 0 .. Len(s)
  OBVIOUS
<1> QED BY <1>1, <1>2

(* Numbers that are not negative have a sum that is not. *)
LEMMA TotalNat ==
  ASSUME NEW s \in Seq(Nat)
  PROVE  Total(s) \in Nat
<1>1. s \in Seq(Int)
  OBVIOUS
<1>2. PICK f \in [0 .. Len(s) -> Int] :
        /\ Total(s) = f[Len(s)]
        /\ f[0] = 0
        /\ \A i \in 1 .. Len(s) : f[i] = f[i - 1] + s[i]
  BY <1>1, PartialSums
<1> DEFINE T == {i \in 0 .. Len(s) : f[i] \notin Nat}
<1>3. T \in SUBSET Nat
  OBVIOUS
<1>4. T = {}
  <2> SUFFICES ASSUME T /= {}
               PROVE  FALSE
    OBVIOUS
  <2>1. PICK i \in T : \A m \in T : i <= m
    BY <1>3, LeastElement
  <2>2. i /= 0
    BY <2>1, <1>2
  <2>3. i - 1 \in 0 .. Len(s) /\ i - 1 \notin T /\ i \in 1 .. Len(s)
    BY <2>1, <2>2
  <2>4. f[i - 1] \in Nat /\ s[i] \in Nat
    BY <2>3
  <2>5. f[i] \in Nat
    BY <2>3, <2>4, <1>2
  <2> QED BY <2>1, <2>5
<1>5. Len(s) \in 0 .. Len(s)
  OBVIOUS
<1> QED BY <1>2, <1>4, <1>5

(* A number more at the end. *)
LEMMA TotalAppend ==
  ASSUME NEW s \in Seq(Int), NEW x \in Int
  PROVE  Total(Append(s, x)) = Total(s) + x
<1>1. PICK f \in [0 .. Len(s) -> Int] :
        /\ Total(s) = f[Len(s)]
        /\ f[0] = 0
        /\ \A i \in 1 .. Len(s) : f[i] = f[i - 1] + s[i]
  BY PartialSums
<1> DEFINE t == Append(s, x)
           n == Len(s)
           g == [i \in 0 .. n + 1 |-> IF i = n + 1 THEN f[n] + x ELSE f[i]]
<1>2. t \in Seq(Int) /\ Len(t) = n + 1 /\ n \in Nat /\ t[n + 1] = x /\ \A i \in 1 .. n : t[i] = s[i]
  OBVIOUS
<1> HIDE DEF t, n
<1>3. g[0] = 0 /\ g[n + 1] = Total(s) + x
  BY <1>1, <1>2 DEF n
<1>4. \A i \in 1 .. n + 1 : g[i] = g[i - 1] + t[i]
  <2> TAKE i \in 1 .. n + 1
  <2>1. CASE i = n + 1
    BY <2>1, <1>2
  <2>2. CASE i /= n + 1
    <3>1. i \in 1 .. n /\ i - 1 \in 0 .. n + 1 /\ i - 1 /= n + 1
      BY <2>2, <1>2
    <3>2. f[i] = f[i - 1] + s[i] /\ t[i] = s[i]
      BY <3>1, <1>1, <1>2 DEF n
    <3> QED BY <3>1, <3>2
  <2> QED BY <2>1, <2>2
<1> HIDE DEF g
<1>5. Total(t) = g[Len(t)]
  BY <1>2, <1>3, <1>4, TotalIs
<1> QED BY <1>2, <1>3, <1>5 DEF t

(* A number less at the front. *)
LEMMA TotalTail ==
  ASSUME NEW s \in Seq(Int), s /= <<>>
  PROVE  Total(s) = s[1] + Total(Tail(s))
<1> DEFINE l == Len(s)
           t == Tail(s)
           n == Len(t)
<1>1. PICK f \in [0 .. l -> Int] :
        /\ Total(s) = f[l]
        /\ f[0] = 0
        /\ \A i \in 1 .. l : f[i] = f[i - 1] + s[i]
  BY PartialSums
<1>2. t \in Seq(Int) /\ n \in Nat /\ l = n + 1 /\ \A i \in 1 .. n : t[i] = s[i + 1]
  OBVIOUS
<1>3. \A i \in 1 .. l : s[i] \in Int
  OBVIOUS
<1> DEFINE g == [i \in 0 .. n |-> f[i + 1] - s[1]]
<1> HIDE DEF l, t, n
<1>4. f[1] = s[1] /\ s[1] \in Int /\ f[n + 1] = Total(s) /\ Total(s) \in Int
  <2>1. 1 \in 1 .. l /\ l \in 0 .. l /\ 1 - 1 = 0
    BY <1>2
  <2>2. f[1] = f[1 - 1] + s[1] /\ s[1] \in Int
    BY <2>1, <1>1, <1>3
  <2>3. f[l] \in Int
    BY <2>1, <1>1
  <2> QED BY <2>1, <2>2, <2>3, <1>1, <1>2
<1>5. g[0] = 0 /\ g[n] = Total(s) - s[1]
  BY <1>2, <1>4
<1>6. \A i \in 1 .. n : g[i] = g[i - 1] + t[i]
  <2> TAKE i \in 1 .. n
  <2>1. i + 1 \in 1 .. l /\ i - 1 \in 0 .. n /\ i \in 0 .. n /\ (i - 1) + 1 = i /\ (i + 1) - 1 = i
    BY <1>2
  <2>2. i \in 0 .. l /\ i + 1 \in 0 .. l
    BY <1>2
  <2>3. f[i + 1] = f[i] + s[i + 1] /\ f[i] \in Int /\ f[i + 1] \in Int /\ s[i + 1] \in Int
    BY <2>1, <2>2, <1>1, <1>3
  <2>4. g[i] = f[i + 1] - s[1] /\ g[i - 1] = f[i] - s[1] /\ t[i] = s[i + 1]
    BY <2>1, <1>2
  <2> QED BY SMTT(20), <2>3, <2>4, <1>4
<1> HIDE DEF g
<1>7. Total(t) = g[n]
  BY <1>2, <1>5, <1>6, TotalIs DEF n
<1> QED BY <1>4, <1>5, <1>7 DEF t

(* One number of a list grows by x. *)
LEMMA TotalExcept ==
  ASSUME NEW s \in Seq(Int), NEW t \in Seq(Int), Len(t) = Len(s), NEW n \in 1 .. Len(s), NEW x \in Int,
         t[n] = s[n] + x, \A i \in 1 .. Len(s) : i /= n => t[i] = s[i]
  PROVE  Total(t) = Total(s) + x
<1>1. PICK f \in [0 .. Len(s) -> Int] :
        /\ Total(s) = f[Len(s)]
        /\ f[0] = 0
        /\ \A i \in 1 .. Len(s) : f[i] = f[i - 1] + s[i]
  BY PartialSums
<1> DEFINE l == Len(s)
           g == [i \in 0 .. l |-> IF i < n THEN f[i] ELSE f[i] + x]
<1>2. l \in Nat /\ n \in 1 .. l
  OBVIOUS
<1>3. g[0] = 0 /\ g[l] = Total(s) + x
  BY <1>1
<1>4. \A i \in 1 .. l : g[i] = g[i - 1] + t[i]
  <2> TAKE i \in 1 .. l
  <2>2. i \in 0 .. l /\ i - 1 \in 0 .. l
    OBVIOUS
  <2>1. f[i] = f[i - 1] + s[i] /\ f[i] \in Int /\ f[i - 1] \in Int /\ s[i] \in Int
    <3>1. f \in [0 .. l -> Int] /\ s[i] \in Int
      BY <1>1
    <3>2. f[i] = f[i - 1] + s[i]
      BY <1>1
    <3> HIDE DEF l
    <3> QED BY <2>2, <3>1, <3>2
  <2>3. CASE i = n
    <3> DEFINE p == f[i - 1]
               v == s[i]
    <3>1. g[i] = f[i] + x /\ g[i - 1] = p /\ t[i] = v + x
      BY <2>2, <2>3, <1>2
    <3>2. f[i] = p + v /\ p \in Int /\ v \in Int
      BY <2>1
    <3> HIDE DEF p, v, g
    <3> QED BY <3>1, <3>2
  <2>4. CASE i /= n
    <3>1. t[i] = s[i]
      BY <2>4
    <3>2. i - 1 < n <=> i < n
      BY <2>4, <1>2
    <3> DEFINE p == f[i - 1]
               v == s[i]
    <3>4. f[i] = p + v /\ p \in Int /\ v \in Int /\ t[i] = v
      BY <2>1, <3>1
    <3>5. CASE i < n
      <4>1. g[i] = f[i] /\ g[i - 1] = p
        BY <2>2, <3>2, <3>5
      <4> HIDE DEF p, v, g
      <4> QED BY <4>1, <3>4
    <3>6. CASE ~(i < n)
      <4>1. g[i] = f[i] + x /\ g[i - 1] = p + x
        BY <2>2, <3>2, <3>6
      <4> HIDE DEF p, v, g
      <4> QED BY <4>1, <3>4
    <3> QED BY <3>5, <3>6
  <2> QED BY <2>3, <2>4
<1> HIDE DEF g
<1>5. Total(t) = g[Len(t)]
  BY <1>3, <1>4, TotalIs
<1> QED BY <1>3, <1>5

-----------------------------------------------------------------------------
(* The sizes of SDUs in a list.                                            *)

Sizes(q) == [i \in DOMAIN q |-> Size[q[i]]]

LEMMA SizeType ==
  ASSUME NEW n \in SDU
  PROVE  Size[n] \in Nat /\ Size[n] > 0
  BY SizeAssumption DEF SDU

LEMMA SizesType ==
  ASSUME NEW q \in Seq(SDU)
  PROVE  Sizes(q) \in Seq(Nat) /\ Sizes(q) \in Seq(Int) /\ Len(Sizes(q)) = Len(q) /\ SizesOf(q) = Total(Sizes(q))
<1>1. \A i \in 1 .. Len(q) : Size[q[i]] \in Nat
  BY SizeType
<1>2. Sizes(q) = [i \in 1 .. Len(q) |-> Size[q[i]]]
  BY DEF Sizes
<1>3. SizesOf(q) = Total(Sizes(q))
  BY DEF SizesOf, Sizes
<1> QED BY <1>1, <1>2, <1>3

LEMMA SizesOfType ==
  ASSUME NEW q \in Seq(SDU)
  PROVE  SizesOf(q) \in Nat
  BY SizesType, TotalNat

LEMMA SizesOfEmpty == SizesOf(<<>>) = 0
<1>1. [i \in DOMAIN <<>> |-> Size[<<>>[i]]] = <<>>
  OBVIOUS
<1> QED BY <1>1, TotalEmpty DEF SizesOf

(* An SDU enters a queue. *)
LEMMA SizesOfAppend ==
  ASSUME NEW q \in Seq(SDU), NEW n \in SDU
  PROVE  SizesOf(Append(q, n)) = SizesOf(q) + Size[n]
<1> DEFINE r == Append(q, n)
<1>1. r \in Seq(SDU) /\ Len(r) = Len(q) + 1 /\ r[Len(q) + 1] = n /\ \A i \in 1 .. Len(q) : r[i] = q[i]
  OBVIOUS
<1> HIDE DEF r
<1>2. /\ Sizes(r) \in Seq(Nat) /\ Len(Sizes(r)) = Len(q) + 1
      /\ Sizes(q) \in Seq(Nat) /\ Sizes(q) \in Seq(Int) /\ Len(Sizes(q)) = Len(q)
      /\ SizesOf(r) = Total(Sizes(r)) /\ SizesOf(q) = Total(Sizes(q))
  BY <1>1, SizesType
<1>3. Size[n] \in Nat /\ Size[n] \in Int
  BY SizeType
<1>4. Sizes(r) = Append(Sizes(q), Size[n])
  <2>1. Append(Sizes(q), Size[n]) \in Seq(Nat) /\ Len(Append(Sizes(q), Size[n])) = Len(q) + 1
    BY <1>2, <1>3
  <2>2. \A i \in 1 .. Len(q) + 1 : Sizes(r)[i] = Append(Sizes(q), Size[n])[i]
    <3> TAKE i \in 1 .. Len(q) + 1
    <3>1. Sizes(r)[i] = Size[r[i]]
      BY <1>1 DEF Sizes
    <3>2. CASE i = Len(q) + 1
      BY <3>1, <3>2, <1>1, <1>2, <1>3
    <3>3. CASE i \in 1 .. Len(q)
      <4>1. Append(Sizes(q), Size[n])[i] = Sizes(q)[i]
        BY <3>3, <1>2, <1>3
      <4>2. Sizes(q)[i] = Size[q[i]]
        BY <3>3 DEF Sizes
      <4> QED BY <4>1, <4>2, <3>1, <3>3, <1>1
    <3>4. Len(q) \in Nat
      OBVIOUS
    <3>5. i = Len(q) + 1 \/ i \in 1 .. Len(q)
      BY <3>4
    <3> QED BY <3>2, <3>3, <3>5
  <2> QED BY <2>1, <2>2, <1>2, SeqEqual
<1>5. Total(Append(Sizes(q), Size[n])) = Total(Sizes(q)) + Size[n]
  BY <1>2, <1>3, TotalAppend
<1> QED BY <1>2, <1>4, <1>5 DEF r

(* The front SDU leaves a queue. *)
LEMMA SizesOfTail ==
  ASSUME NEW q \in Seq(SDU), q /= <<>>
  PROVE  /\ q[1] \in SDU /\ Tail(q) \in Seq(SDU) /\ Len(Tail(q)) = Len(q) - 1
         /\ SizesOf(q) = Size[q[1]] + SizesOf(Tail(q))
<1> DEFINE r == Tail(q)
<1>1. q[1] \in SDU /\ r \in Seq(SDU) /\ Len(r) = Len(q) - 1 /\ \A i \in 1 .. Len(r) : r[i] = q[i + 1]
  OBVIOUS
<1>2. Len(q) \in Nat /\ Len(q) > 0
  OBVIOUS
<1> HIDE DEF r
<1>3. /\ Sizes(r) \in Seq(Nat) /\ Len(Sizes(r)) = Len(q) - 1
      /\ Sizes(q) \in Seq(Nat) /\ Sizes(q) \in Seq(Int) /\ Len(Sizes(q)) = Len(q)
      /\ SizesOf(r) = Total(Sizes(r)) /\ SizesOf(q) = Total(Sizes(q))
  BY <1>1, SizesType
<1>4. Sizes(q) /= <<>> /\ Sizes(q)[1] = Size[q[1]]
  BY <1>2, <1>3 DEF Sizes
<1>5. Tail(Sizes(q)) \in Seq(Nat) /\ Len(Tail(Sizes(q))) = Len(q) - 1
      /\ \A i \in 1 .. Len(q) - 1 : Tail(Sizes(q))[i] = Sizes(q)[i + 1]
  BY <1>3, <1>4
<1>6. Tail(Sizes(q)) = Sizes(r)
  <2>1. \A i \in 1 .. Len(q) - 1 : Tail(Sizes(q))[i] = Sizes(r)[i]
    <3> TAKE i \in 1 .. Len(q) - 1
    <3>1. Sizes(q)[i + 1] = Size[q[i + 1]]
      BY <1>2 DEF Sizes
    <3>2. Sizes(r)[i] = Size[r[i]] /\ r[i] = q[i + 1]
      BY <1>1 DEF Sizes
    <3> QED BY <3>1, <3>2, <1>5
  <2> QED BY <2>1, <1>3, <1>5, SeqEqual
<1>7. Total(Sizes(q)) = Sizes(q)[1] + Total(Tail(Sizes(q)))
  BY <1>3, <1>4, TotalTail
<1> QED BY <1>1, <1>3, <1>4, <1>6, <1>7 DEF r

-----------------------------------------------------------------------------
(* The loop that packs a segment.                                          *)

Unpacked(overhead) ==
  [queue |-> pduQueue, sent |-> frontSegmentSentBits, header |-> overhead,
   data |-> 0, pdus |-> <<>>, open |-> TRUE]

IsPacking(f, overhead, bits, n) ==
  f = [i \in 0 .. n |-> IF i = 0 THEN Unpacked(overhead) ELSE Pack(f[i - 1], bits)]

(* The rounds of the loop, one after the other. *)
LEMMA PackingRounds ==
  ASSUME pduQueue \in Seq(SDU), NEW overhead, NEW bits
  PROVE  \E f : /\ Packed(overhead, bits) = f[Len(pduQueue)]
                /\ f[0] = Unpacked(overhead)
                /\ \A i \in 1 .. Len(pduQueue) : f[i] = Pack(f[i - 1], bits)
<1> DEFINE l == Len(pduQueue)
           T == {n \in Nat : ~ \E f : IsPacking(f, overhead, bits, n)}
<1>1. T \in SUBSET Nat /\ l \in Nat
  OBVIOUS
<1>2. ASSUME T /= {}
      PROVE  FALSE
  <2>1. PICK n \in T : \A m \in T : n <= m
    BY <1>1, <1>2, LeastElement
  <2>2. CASE n = 0
    <3>1. IsPacking([i \in 0 .. 0 |-> Unpacked(overhead)], overhead, bits, 0)
      BY DEF IsPacking
    <3> QED BY <3>1, <2>1, <2>2
  <2>3. CASE n /= 0
    <3>1. n - 1 \notin T /\ n - 1 \in Nat /\ n \in Nat
      BY <2>1, <2>3
    <3>2. PICK f : IsPacking(f, overhead, bits, n - 1)
      BY <3>1
    <3> DEFINE g == [i \in 0 .. n |-> IF i = n THEN Pack(f[n - 1], bits) ELSE f[i]]
    <3>3. \A i \in 0 .. n : g[i] = IF i = 0 THEN Unpacked(overhead) ELSE Pack(g[i - 1], bits)
      BY <3>1, <3>2, <2>3 DEF IsPacking
    <3>4. g = [i \in 0 .. n |-> g[i]]
      OBVIOUS
    <3> HIDE DEF g
    <3>5. IsPacking(g, overhead, bits, n)
      BY <3>3, <3>4 DEF IsPacking
    <3> QED BY <3>5, <2>1
  <2> QED BY <2>2, <2>3
<1> DEFINE f == CHOOSE f : IsPacking(f, overhead, bits, l)
<1>3. IsPacking(f, overhead, bits, l)
  BY <1>1, <1>2
<1>4. Packed(overhead, bits) = f[l]
  BY DEF Packed, IsPacking, Unpacked
<1> HIDE DEF f, l
<1>5. \A i \in 0 .. l : f[i] = IF i = 0 THEN Unpacked(overhead) ELSE Pack(f[i - 1], bits)
  BY <1>3, Zenon DEF IsPacking
<1>6. f[0] = Unpacked(overhead) /\ \A i \in 1 .. l : f[i] = Pack(f[i - 1], bits)
  BY <1>1, <1>5
<1> QED BY <1>4, <1>6 DEF l

-----------------------------------------------------------------------------
(* What a round of packing keeps.                                          *)

Ascending(s) == \A i, j \in DOMAIN s : i < j => s[i] < s[j]

Packing ==
  [queue : Seq(SDU), sent : Nat, header : Nat, data : Nat, pdus : Seq(SDU), open : BOOLEAN]

(* A front SDU is never sent as a whole and kept, and no bit is lost. *)
PackedBits(p, bits, all) ==
  /\ p \in Packing
  /\ TotalSize(p) <= bits
  /\ p.queue /= <<>> => p.sent < Size[p.queue[1]]
  /\ p.queue = <<>> => p.sent = 0
  /\ p.open => p.queue /= <<>>
  /\ p.data + SizesOf(p.queue) - p.sent = all

(* The SDUs leave in the order of the queue. *)
PackedInOrder(p, bits) ==
  /\ Ascending(p.pdus) /\ Ascending(p.queue)
  /\ \A x \in ToSet(p.pdus), y \in ToSet(p.queue) :
       x <= y /\ (x = y => p.sent > 0 /\ x = p.pdus[Len(p.pdus)])
  /\ ToSet(p.pdus) \union ToSet(p.queue) = ToSet(pduQueue)
  /\ p.pdus /= <<>> /\ p.sent > 0 => p.queue /= <<>> /\ p.pdus[Len(p.pdus)] = p.queue[1]
  /\ p.pdus /= <<>> /\ p.open /\ TotalSize(p) < bits => p.sent = 0
  /\ p.pdus = <<>> => p.queue = pduQueue /\ p.sent = frontSegmentSentBits
  /\ p.pdus /= <<>> => p.pdus[1] = pduQueue[1]

LEMMA PackingType ==
  ASSUME NEW queue \in Seq(SDU), NEW sent \in Nat, NEW header \in Nat, NEW data \in Nat,
         NEW pdus \in Seq(SDU), NEW open \in BOOLEAN
  PROVE  [queue |-> queue, sent |-> sent, header |-> header, data |-> data, pdus |-> pdus,
          open |-> open] \in Packing
  BY DEF Packing

(* The rest of the front SDU fits: room for another extension header is asked for
   only if an SDU follows. *)
LEMMA PackWholeIs ==
  ASSUME ByteAlign = FALSE, NEW bits \in Nat, NEW p \in Packing, p.open, p.queue /= <<>>
  PROVE  \E more \in BOOLEAN :
           /\ more <=> Tail(p.queue) /= <<>> /\ p.header + (p.data + Unsent(p)) + ExtHeader < bits
           /\ PackWhole(p, bits) =
                [queue |-> Tail(p.queue), sent |-> 0,
                 header |-> IF more THEN p.header + ExtHeader ELSE p.header,
                 data |-> p.data + Unsent(p), pdus |-> Append(p.pdus, p.queue[1]), open |-> more]
<1> DEFINE full == [p EXCEPT !.pdus = Append(@, Head(p.queue)), !.data = @ + Unsent(p),
                             !.queue = Tail(@), !.sent = 0]
           another == /\ TotalSize(full) + ExtHeader + Alignment(p.header + ExtHeader) < bits
                      /\ full.queue /= <<>>
<1>1. full = [queue |-> Tail(p.queue), sent |-> 0, header |-> p.header,
              data |-> p.data + Unsent(p), pdus |-> Append(p.pdus, p.queue[1]), open |-> TRUE]
  <2>1. p.open = TRUE
    BY DEF Packing
  <2>2. Head(p.queue) = p.queue[1]
    OBVIOUS
  <2> DEFINE u == Unsent(p)
  <2> HIDE DEF u
  <2>3. full = [p EXCEPT !.pdus = Append(@, p.queue[1]), !.data = @ + u, !.queue = Tail(@), !.sent = 0]
    BY <2>2 DEF u
  <2> HIDE DEF full
  <2>4. full = [queue |-> Tail(p.queue), sent |-> 0, header |-> p.header,
                data |-> p.data + u, pdus |-> Append(p.pdus, p.queue[1]), open |-> p.open]
    BY <2>3, Zenon DEF Packing
  <2> QED BY <2>1, <2>4 DEF u
<1>2. Unsent(p) \in Int /\ p.header \in Int /\ p.data \in Int
  <2>1. p.queue[1] \in SDU /\ p.queue[1] = Head(p.queue)
    BY DEF Packing
  <2> QED BY <2>1, SizeType DEF Unsent, Packing
<1> HIDE DEF full
<1>3. another <=> Tail(p.queue) /= <<>> /\ p.header + (p.data + Unsent(p)) + ExtHeader < bits
  <2>1. full.header = p.header /\ full.data = p.data + Unsent(p) /\ full.queue = Tail(p.queue)
    BY <1>1
  <2>2. TotalSize(full) = p.header + (p.data + Unsent(p)) /\ Alignment(p.header + ExtHeader) = 0
    BY <2>1 DEF TotalSize, Alignment
  <2> DEFINE t == TotalSize(full)
  <2>3. t \in Int /\ ExtHeader \in Int /\ t = p.header + (p.data + Unsent(p))
    BY <1>2, <2>2, BitsAssumption
  <2>4. another <=> t + ExtHeader + 0 < bits /\ Tail(p.queue) /= <<>>
    BY <2>1, <2>2
  <2> HIDE DEF t, another
  <2>5. t + ExtHeader + 0 = t + ExtHeader
    BY <2>3
  <2> QED BY <2>3, <2>4, <2>5
<1>4. PackWhole(p, bits) = IF another THEN [full EXCEPT !.header = @ + ExtHeader]
                                      ELSE [full EXCEPT !.open = FALSE]
  BY Zenon DEF PackWhole, full
<1> HIDE DEF another
<1>5. CASE another
  BY <1>1, <1>3, <1>4, <1>5
<1>6. CASE ~another
  BY <1>1, <1>3, <1>4, <1>6
<1> QED BY <1>5, <1>6

(* Only a part of the front SDU fits: it takes what is left. *)
LEMMA PackPartIs ==
  ASSUME ByteAlign = FALSE, NEW bits \in Nat, NEW p \in Packing, p.queue /= <<>>
  PROVE  PackPart(p, bits) =
           [queue |-> p.queue, sent |-> p.sent + (bits - (p.header + p.data)), header |-> p.header,
            data |-> p.data + (bits - (p.header + p.data)), pdus |-> Append(p.pdus, p.queue[1]),
            open |-> p.open]
<1> DEFINE c == bits - (p.header + p.data)
<1>1. bits - TotalSize(p) - Alignment(p.header) = c /\ p.header + Alignment(p.header) = p.header
  BY DEF TotalSize, Alignment, Packing
<1>2. PackPart(p, bits) =
        [p EXCEPT !.pdus = Append(@, Head(p.queue)), !.data = @ + c, !.header = @, !.sent = @ + c]
  <2>1. PackPart(p, bits) =
        [p EXCEPT !.pdus = Append(@, Head(p.queue)), !.data = @ + (bits - TotalSize(p) - Alignment(p.header)),
                  !.header = @ + Alignment(p.header), !.sent = @ + (bits - TotalSize(p) - Alignment(p.header))]
    BY DEF PackPart
  <2> QED BY <2>1, <1>1
<1>3. Head(p.queue) = p.queue[1]
  OBVIOUS
<1> HIDE DEF c
<1>4. PackPart(p, bits) =
        [queue |-> p.queue, sent |-> p.sent + c, header |-> p.header, data |-> p.data + c,
         pdus |-> Append(p.pdus, p.queue[1]), open |-> p.open]
  BY <1>2, <1>3, Zenon DEF Packing
<1> QED BY <1>4 DEF c

(* One round. *)
LEMMA PackKeepsBits ==
  ASSUME ByteAlign = FALSE, NEW bits \in Nat, NEW all \in Int, NEW p, PackedBits(p, bits, all)
  PROVE  PackedBits(Pack(p, bits), bits, all)
<1> DEFINE n == p.queue[1]
           u == Unsent(p)
<1>1. /\ p \in Packing /\ p.header \in Nat /\ p.data \in Nat /\ p.sent \in Nat /\ p.open \in BOOLEAN
      /\ p.queue \in Seq(SDU) /\ p.pdus \in Seq(SDU)
      /\ TotalSize(p) = p.header + p.data
  BY DEF PackedBits, Packing, TotalSize
<1>2. CASE ~p.open \/ TotalSize(p) >= bits
  BY <1>2 DEF Pack
<1>3. CASE p.open /\ ~(TotalSize(p) >= bits)
  <2>1. /\ p.queue /= <<>> /\ p.sent < Size[n] /\ u = Size[n] - p.sent /\ n \in SDU
        /\ Size[n] \in Nat /\ u \in Nat /\ u > 0
        /\ Tail(p.queue) \in Seq(SDU) /\ SizesOf(p.queue) = Size[n] + SizesOf(Tail(p.queue))
        /\ SizesOf(Tail(p.queue)) \in Nat
    <3>1. p.queue /= <<>>
      BY <1>3 DEF PackedBits
    <3>2. n \in SDU /\ Tail(p.queue) \in Seq(SDU) /\ SizesOf(p.queue) = Size[n] + SizesOf(Tail(p.queue))
      BY <1>1, <3>1, SizesOfTail
    <3>3. Size[n] \in Nat /\ SizesOf(Tail(p.queue)) \in Nat
      BY <3>2, SizeType, SizesOfType
    <3>4. p.sent < Size[n]
      BY <3>1 DEF PackedBits
    <3>5. u = Size[n] - p.sent
      BY <3>1, <1>1 DEF Unsent
    <3> QED BY <3>1, <3>2, <3>3, <3>4, <3>5, <1>1
  <2>2. p.data + SizesOf(p.queue) - p.sent = all /\ p.header + p.data < bits
    BY <1>1, <1>3 DEF PackedBits
  <2>3. Append(p.pdus, n) \in Seq(SDU)
    BY <1>1, <2>1
  <2>4. CASE bits - TotalSize(p) >= u
    <3>1. PICK more \in BOOLEAN :
           /\ more <=> Tail(p.queue) /= <<>> /\ p.header + (p.data + u) + ExtHeader < bits
           /\ PackWhole(p, bits) =
                [queue |-> Tail(p.queue), sent |-> 0,
                 header |-> IF more THEN p.header + ExtHeader ELSE p.header,
                 data |-> p.data + u, pdus |-> Append(p.pdus, n), open |-> more]
      BY <1>1, <1>3, <2>1, PackWholeIs
    <3> DEFINE r == PackWhole(p, bits)
    <3>2. Pack(p, bits) = r
      BY <1>3, <2>4 DEF Pack
    <3>3. /\ r.queue = Tail(p.queue) /\ r.sent = 0 /\ r.data = p.data + u
          /\ r.header = IF more THEN p.header + ExtHeader ELSE p.header
          /\ r.open = more /\ r.pdus = Append(p.pdus, n)
      BY <3>1
    <3>4. r.header \in Nat /\ r.header + r.data <= bits
      <4> HIDE DEF r, n, u
      <4>1. p.header + (p.data + u) <= bits
        BY <2>4, <2>1, <1>1
      <4>2. CASE more
        <5>1. r.header = p.header + ExtHeader /\ r.data = p.data + u
          BY <4>2, <3>3
        <5>2. p.header + (p.data + u) + ExtHeader < bits
          BY <4>2, <3>1
        <5>3. p.header \in Nat /\ p.data \in Nat /\ u \in Nat /\ ExtHeader \in Nat
          BY <2>1, <1>1, BitsAssumption
        <5> QED BY <5>1, <5>2, <5>3
      <4>3. CASE ~more
        BY <4>1, <4>3, <3>3, <2>1, <1>1
      <4> QED BY <4>2, <4>3
    <3>5. r \in Packing
      <4>1. r = [queue |-> Tail(p.queue), sent |-> 0, header |-> r.header,
                 data |-> p.data + u, pdus |-> Append(p.pdus, n), open |-> more]
        BY <3>1, <3>3
      <4> HIDE DEF r, u, n
      <4>2. p.data + u \in Nat
        BY SMTT(20), <1>1, <2>1
      <4>3. 0 \in Nat
        OBVIOUS
      <4>4. [queue |-> Tail(p.queue), sent |-> 0, header |-> r.header, data |-> p.data + u,
             pdus |-> Append(p.pdus, n), open |-> more] \in Packing
        BY <4>2, <4>3, <3>1, <3>4, <2>1, <2>3, PackingType
      <4> QED BY <4>1, <4>4
    <3>6. r.queue /= <<>> => 0 < Size[r.queue[1]]
      BY SMTT(20), <3>3, <2>1, SizeType
    <3>7. r.data + SizesOf(r.queue) - r.sent = all
      <4>1. r.data + SizesOf(r.queue) - r.sent = (p.data + u) + SizesOf(Tail(p.queue)) - 0
        BY <3>3
      <4> HIDE DEF r, n, u
      <4> QED BY SMTT(20), <4>1, <2>1, <2>2, <1>1
    <3> HIDE DEF r
    <3> QED BY <3>1, <3>2, <3>3, <3>4, <3>5, <3>6, <3>7 DEF PackedBits, TotalSize
  <2>5. CASE ~(bits - TotalSize(p) >= u)
    <3> DEFINE c == bits - (p.header + p.data)
               r == PackPart(p, bits)
    <3>1. c \in Nat /\ 0 < c /\ c < u
      <4> DEFINE filled == p.header + p.data
      <4>1. filled \in Nat /\ filled < bits /\ TotalSize(p) = filled /\ u \in Nat
        BY SMTT(20), <2>1, <2>2, <1>1
      <4> HIDE DEF filled, u
      <4>2. ~(bits - filled >= u)
        BY <4>1, <2>5
      <4>3. bits - filled \in Nat /\ 0 < bits - filled /\ bits - filled < u
        BY <4>1, <4>2
      <4> QED BY <4>3 DEF filled
    <3>2. Pack(p, bits) = r
      BY <1>3, <2>5 DEF Pack
    <3>3. r = [queue |-> p.queue, sent |-> p.sent + c, header |-> p.header, data |-> p.data + c,
               pdus |-> Append(p.pdus, n), open |-> p.open]
      BY <1>1, <2>1, PackPartIs
    <3> HIDE DEF r, c
    <3>4. /\ r.queue = p.queue /\ r.sent = p.sent + c /\ r.header = p.header /\ r.data = p.data + c
          /\ r.pdus = Append(p.pdus, n) /\ r.open = p.open
      BY <3>3
    <3>5. r \in Packing
      <4>1. p.sent + c \in Nat /\ p.data + c \in Nat
        BY <3>1, <1>1
      <4> HIDE DEF n, u
      <4> QED BY <4>1, <3>3, <1>1, <2>3, PackingType, Zenon
    <3>6. r.header + r.data <= bits
      BY <3>1, <3>4, <1>1 DEF c
    <3>7. r.sent < Size[r.queue[1]]
      <4> DEFINE h == Size[n]
      <4>1. h \in Nat /\ u = h - p.sent /\ p.sent \in Nat
        BY <2>1, <1>1
      <4>2. r.sent = p.sent + c /\ Size[r.queue[1]] = h
        BY <3>4
      <4> HIDE DEF h, n, u
      <4> QED BY <4>1, <4>2, <3>1
    <3>8. r.data + SizesOf(r.queue) - r.sent = all
      <4>1. SizesOf(p.queue) \in Nat
        BY <2>1
      <4> QED BY <4>1, <3>1, <3>4, <2>2, <1>1
    <3> QED BY <3>2, <3>4, <3>5, <3>6, <3>7, <3>8, <2>1 DEF PackedBits, TotalSize
  <2> QED BY <2>4, <2>5
<1> QED BY <1>2, <1>3

LEMMA SetOfAppend ==
  ASSUME NEW S, NEW s \in Seq(S), NEW x \in S
  PROVE  /\ Append(s, x) \in Seq(S) /\ Append(s, x) /= <<>>
         /\ ToSet(Append(s, x)) = ToSet(s) \union {x}
         /\ Append(s, x)[Len(Append(s, x))] = x
         /\ Append(s, x)[1] = IF s = <<>> THEN x ELSE s[1]
<1> DEFINE t == Append(s, x)
           l == Len(s)
<1>1. t \in Seq(S) /\ l \in Nat /\ Len(t) = l + 1 /\ t[l + 1] = x /\ \A i \in 1 .. l : t[i] = s[i]
  OBVIOUS
<1>2. DOMAIN t = 1 .. l + 1 /\ DOMAIN s = 1 .. l
  OBVIOUS
<1>3. s = <<>> <=> l = 0
  OBVIOUS
<1> HIDE DEF t, l
<1>4. ToSet(t) = ToSet(s) \union {x}
  <2>1. \A y \in ToSet(t) : y \in ToSet(s) \union {x}
    <3> TAKE y \in ToSet(t)
    <3>1. PICK i \in 1 .. l + 1 : t[i] = y
      BY <1>2 DEF ToSet
    <3>2. CASE i = l + 1
      BY <3>1, <3>2, <1>1
    <3>3. CASE i /= l + 1
      <4>1. i \in 1 .. l
        BY <3>3, <1>1
      <4> QED BY <4>1, <3>1, <1>1, <1>2 DEF ToSet
    <3> QED BY <3>2, <3>3
  <2>2. x \in ToSet(t)
    <3>1. l + 1 \in 1 .. l + 1
      BY <1>1
    <3> QED BY <3>1, <1>1, <1>2 DEF ToSet
  <2>3. \A y \in ToSet(s) : y \in ToSet(t)
    <3> TAKE y \in ToSet(s)
    <3>1. PICK i \in 1 .. l : s[i] = y
      BY <1>2 DEF ToSet
    <3>2. i \in 1 .. l + 1
      BY <1>1
    <3> QED BY <3>1, <3>2, <1>1, <1>2 DEF ToSet
  <2> QED BY <2>1, <2>2, <2>3
<1>5. t[1] = IF s = <<>> THEN x ELSE s[1]
  <2>1. CASE l = 0
    BY <2>1, <1>1, <1>3
  <2>2. CASE l /= 0
    <3>1. 1 \in 1 .. l
      BY <2>2, <1>1
    <3> QED BY <3>1, <2>2, <1>1, <1>3
  <2> QED BY <2>1, <2>2
<1>6. t /= <<>> /\ t[Len(t)] = x
  BY <1>1
<1> QED BY <1>1, <1>4, <1>5, <1>6 DEF t

LEMMA SetOfTail ==
  ASSUME NEW S, NEW s \in Seq(S), s /= <<>>
  PROVE  /\ Tail(s) \in Seq(S) /\ s[1] \in S /\ Head(s) = s[1]
         /\ ToSet(s) = {s[1]} \union ToSet(Tail(s))
         /\ Len(s) > 1 => Tail(s) /= <<>> /\ Tail(s)[Len(Tail(s))] = s[Len(s)]
         /\ Len(s) <= 1 => Len(s) = 1 /\ Tail(s) = <<>> /\ ToSet(Tail(s)) = {}
         /\ Len(Tail(s)) = Len(s) - 1 /\ \A i \in 1 .. Len(Tail(s)) : Tail(s)[i] = s[i + 1]
<1> DEFINE t == Tail(s)
           l == Len(t)
<1>1. t \in Seq(S) /\ l \in Nat /\ Len(s) = l + 1 /\ \A i \in 1 .. l : t[i] = s[i + 1]
  OBVIOUS
<1>2. DOMAIN t = 1 .. l /\ DOMAIN s = 1 .. l + 1
  BY <1>1
<1>3. t = <<>> <=> l = 0
  BY <1>1, EmptySeq
<1>4. Head(s) = s[1] /\ s[1] \in S
  OBVIOUS
<1> HIDE DEF t, l
<1>5. ToSet(s) = {s[1]} \union ToSet(t)
  <2>1. \A y \in ToSet(s) : y \in {s[1]} \union ToSet(t)
    <3> TAKE y \in ToSet(s)
    <3>1. PICK i \in 1 .. l + 1 : s[i] = y
      BY <1>2 DEF ToSet
    <3>2. CASE i /= 1
      <4>1. i - 1 \in 1 .. l /\ (i - 1) + 1 = i
        BY <3>2, <1>1
      <4>2. t[i - 1] = y
        BY <4>1, <3>1, <1>1
      <4> QED BY <4>1, <4>2, <1>2 DEF ToSet
    <3> QED BY <3>1, <3>2
  <2>2. \A y \in ToSet(t) : y \in ToSet(s)
    <3> TAKE y \in ToSet(t)
    <3>1. PICK i \in 1 .. l : t[i] = y
      BY <1>2 DEF ToSet
    <3>2. i + 1 \in 1 .. l + 1
      BY <1>1
    <3> QED BY <3>1, <3>2, <1>1, <1>2 DEF ToSet
  <2>3. s[1] \in ToSet(s)
    <3>1. 1 \in 1 .. l + 1
      BY <1>1
    <3> QED BY <3>1, <1>2 DEF ToSet
  <2> QED BY <2>1, <2>2, <2>3
<1>6. l > 0 => t /= <<>> /\ t[l] = s[l + 1]
  BY <1>1, <1>3
<1>7. l = 0 => ToSet(t) = {}
  <2>1. l = 0 => 1 .. l = {}
    OBVIOUS
  <2> QED BY <2>1, <1>2 DEF ToSet
<1>8. Len(s) > 1 <=> l > 0
  BY <1>1
<1> HIDE DEF t
<1> QED BY <1>1, <1>3, <1>4, <1>5, <1>6, <1>7, <1>8 DEF t, l

LEMMA AscendingAppend ==
  ASSUME NEW s \in Seq(Int), NEW x \in Int, Ascending(s), \A y \in ToSet(s) : y < x
  PROVE  Ascending(Append(s, x))
<1> DEFINE t == Append(s, x)
           l == Len(s)
<1>1. l \in Nat /\ Len(t) = l + 1 /\ t[l + 1] = x /\ \A i \in 1 .. l : t[i] = s[i]
  OBVIOUS
<1>2. DOMAIN t = 1 .. l + 1 /\ DOMAIN s = 1 .. l
  OBVIOUS
<1> HIDE DEF t, l
<1>3. ASSUME NEW i \in 1 .. l + 1, NEW j \in 1 .. l + 1, i < j
      PROVE  t[i] < t[j]
  <2>1. i \in 1 .. l /\ t[i] = s[i]
    BY <1>1, <1>3
  <2>2. CASE j = l + 1
    <3>1. s[i] \in ToSet(s)
      BY <2>1, <1>2 DEF ToSet
    <3> QED BY <3>1, <2>1, <2>2, <1>1
  <2>3. CASE j /= l + 1
    <3>1. j \in 1 .. l /\ t[j] = s[j]
      BY <2>3, <1>1
    <3> QED BY <3>1, <2>1, <1>2, <1>3 DEF Ascending
  <2> QED BY <2>2, <2>3
<1> QED BY <1>2, <1>3 DEF Ascending, t

LEMMA AscendingTail ==
  ASSUME NEW s \in Seq(Int), s /= <<>>, Ascending(s)
  PROVE  Ascending(Tail(s)) /\ \A y \in ToSet(Tail(s)) : s[1] < y
<1> DEFINE t == Tail(s)
           l == Len(t)
<1>1. l \in Nat /\ Len(s) = l + 1 /\ \A i \in 1 .. l : t[i] = s[i + 1]
  OBVIOUS
<1>2. DOMAIN t = 1 .. l /\ DOMAIN s = 1 .. l + 1
  BY <1>1
<1> HIDE DEF t, l
<1>3. ASSUME NEW i \in 1 .. l, NEW j \in 1 .. l, i < j
      PROVE  t[i] < t[j]
  <2>1. i + 1 \in 1 .. l + 1 /\ j + 1 \in 1 .. l + 1 /\ i + 1 < j + 1
    BY <1>1, <1>3
  <2>2. s[i + 1] < s[j + 1]
    BY <2>1, <1>2 DEF Ascending
  <2> QED BY <2>2, <1>1
<1>4. ASSUME NEW y \in ToSet(t)
      PROVE  s[1] < y
  <2>1. PICK i \in 1 .. l : t[i] = y
    BY <1>2 DEF ToSet
  <2>2. 1 \in 1 .. l + 1 /\ i + 1 \in 1 .. l + 1 /\ 1 < i + 1
    BY <1>1
  <2>3. s[1] < s[i + 1]
    BY <2>2, <1>2 DEF Ascending
  <2> QED BY <2>1, <2>3, <1>1
<1> QED BY <1>2, <1>3, <1>4 DEF Ascending, t

LEMMA SDUIsInt == SDU \subseteq Int /\ SDU \subseteq Nat /\ \A q \in Seq(SDU) : q \in Seq(Int)
<1>1. SDU = 1 .. Len(Size) /\ Len(Size) \in Nat
  BY SizeAssumption DEF SDU
<1>2. SDU \subseteq Int /\ SDU \subseteq Nat
  BY <1>1
<1>3. \A q \in Seq(SDU) : q \in Seq(Int)
  <2> TAKE q \in Seq(SDU)
  <2>1. \A i \in 1 .. Len(q) : q[i] \in Int
    <3>1. \A i \in 1 .. Len(q) : q[i] \in SDU
      OBVIOUS
    <3> QED BY <3>1, <1>2, Zenon
  <2>2. Len(q) \in Nat /\ q = [i \in 1 .. Len(q) |-> q[i]]
    OBVIOUS
  <2> QED BY <2>1, <2>2
<1> QED BY <1>2, <1>3

(* A round takes SDUs from the front of the queue only, and at least a piece of
   one. *)
LEMMA PackKeepsOrder ==
  ASSUME ByteAlign = FALSE, NEW bits \in Nat, NEW all \in Int, NEW p, PackedBits(p, bits, all),
         PackedInOrder(p, bits)
  PROVE  PackedInOrder(Pack(p, bits), bits) /\ (pduQueue /= <<>> /\ TotalSize(p) < bits /\ p.open => Pack(p, bits).pdus /= <<>>)
                                            /\ (p.pdus /= <<>> => Pack(p, bits).pdus /= <<>>)
<1> DEFINE n == p.queue[1]
           u == Unsent(p)
           new == Append(p.pdus, n)
<1>1. /\ p \in Packing /\ p.header \in Nat /\ p.data \in Nat /\ p.sent \in Nat /\ p.open \in BOOLEAN
      /\ p.queue \in Seq(SDU) /\ p.pdus \in Seq(SDU)
      /\ TotalSize(p) = p.header + p.data
  BY DEF PackedBits, Packing, TotalSize
<1>2. CASE ~p.open \/ TotalSize(p) >= bits
  <2>1. Pack(p, bits) = p
    BY <1>2 DEF Pack
  <2> QED BY <2>1, <1>1, <1>2
<1>3. CASE p.open /\ ~(TotalSize(p) >= bits)
  <2>1. p.queue /= <<>> /\ TotalSize(p) < bits
    BY <1>1, <1>3 DEF PackedBits
  <2>2. /\ Tail(p.queue) \in Seq(SDU) /\ n \in SDU
        /\ ToSet(p.queue) = {n} \union ToSet(Tail(p.queue))
    BY <1>1, <2>1, SetOfTail
  <2>3. /\ new \in Seq(SDU) /\ new /= <<>>
        /\ ToSet(new) = ToSet(p.pdus) \union {n}
        /\ new[Len(new)] = n
        /\ new[1] = IF p.pdus = <<>> THEN n ELSE p.pdus[1]
    BY SMTT(20), <1>1, <2>2, SetOfAppend
  <2>4. ToSet(p.pdus) \subseteq Int /\ ToSet(p.queue) \subseteq Int /\ n \in Int
        /\ p.pdus \in Seq(Int) /\ p.queue \in Seq(Int)
    BY <1>1, <2>2, SDUIsInt DEF ToSet
  <2>5. \A x \in ToSet(p.pdus), y \in ToSet(p.queue) : x < y
    <3>1. ASSUME NEW x \in ToSet(p.pdus), NEW y \in ToSet(p.queue)
          PROVE  x < y
      <4>1. p.pdus /= <<>>
        <5>1. SUFFICES ASSUME p.pdus = <<>>
                       PROVE  FALSE
          OBVIOUS
        <5>2. ToSet(<<>>) = {}
          BY DEF ToSet
        <5> QED BY <3>1, <5>1, <5>2
      <4>2. p.sent = 0
        BY <4>1, <1>3, <2>1 DEF PackedInOrder
      <4>3. x <= y /\ (x = y => p.sent > 0)
        BY DEF PackedInOrder
      <4>4. x \in Int /\ y \in Int
        BY <2>4
      <4> QED BY <4>2, <4>3, <4>4
    <3> QED BY <3>1
  <2>6. Ascending(new) /\ Ascending(Tail(p.queue)) /\ \A y \in ToSet(Tail(p.queue)) : n < y
    <3>1. \A x \in ToSet(p.pdus) : x < n
      BY <2>2, <2>5
    <3>2. Ascending(p.pdus) /\ Ascending(p.queue)
      BY DEF PackedInOrder
    <3>3. Ascending(new)
      BY <3>1, <3>2, <2>4, AscendingAppend
    <3>4. Ascending(Tail(p.queue)) /\ \A y \in ToSet(Tail(p.queue)) : n < y
      BY <3>2, <2>1, <2>4, AscendingTail
    <3> QED BY <3>3, <3>4
  <2>7. ToSet(new) \union ToSet(Tail(p.queue)) = ToSet(pduQueue)
        /\ ToSet(new) \union ToSet(p.queue) = ToSet(pduQueue)
    <3>1. ToSet(p.pdus) \union ToSet(p.queue) = ToSet(pduQueue)
      BY DEF PackedInOrder
    <3> QED BY <3>1, <2>2, <2>3, Zenon
  <2>8. new[1] = pduQueue[1]
    BY <2>3 DEF PackedInOrder
  <2> HIDE DEF new, n, u
  <2>9. CASE bits - TotalSize(p) >= u
    <3>1. PICK more \in BOOLEAN :
           PackWhole(p, bits) =
                [queue |-> Tail(p.queue), sent |-> 0,
                 header |-> IF more THEN p.header + ExtHeader ELSE p.header,
                 data |-> p.data + u, pdus |-> new, open |-> more]
      BY <1>1, <1>3, <2>1, PackWholeIs DEF new, n, u
    <3> DEFINE r == PackWhole(p, bits)
    <3>2. Pack(p, bits) = r
      BY <1>3, <2>9 DEF Pack, u
    <3>3. r.queue = Tail(p.queue) /\ r.sent = 0 /\ r.pdus = new
      BY <3>1
    <3> HIDE DEF r
    <3>4. \A x \in ToSet(new), y \in ToSet(Tail(p.queue)) : x < y /\ x \in Int /\ y \in Int
      BY <2>2, <2>3, <2>4, <2>5, <2>6
    <3>5. \A x \in ToSet(new), y \in ToSet(Tail(p.queue)) : x <= y /\ x /= y
      BY <3>4
    <3>6. PackedInOrder(r, bits)
      BY <3>3, <3>5, <2>3, <2>6, <2>7, <2>8 DEF PackedInOrder
    <3> QED BY <3>2, <3>3, <3>6, <2>3
  <2>10. CASE ~(bits - TotalSize(p) >= u)
    <3> DEFINE c == bits - (p.header + p.data)
               r == PackPart(p, bits)
    <3>1. c \in Nat /\ 0 < c
      BY <2>1, <1>1
    <3>2. Pack(p, bits) = r
      BY <1>3, <2>10 DEF Pack, u
    <3>3. r = [queue |-> p.queue, sent |-> p.sent + c, header |-> p.header, data |-> p.data + c,
               pdus |-> new, open |-> p.open]
      BY <1>1, <2>1, PackPartIs DEF new, n
    <3>4. /\ r.queue = p.queue /\ r.sent = p.sent + c /\ r.header = p.header /\ r.data = p.data + c
          /\ r.pdus = new
      BY <3>3
    <3> HIDE DEF r
    <3>5. TotalSize(r) = bits /\ r.sent > 0
      BY SMTT(20), <3>1, <3>4, <1>1 DEF TotalSize
    <3> HIDE DEF c
    <3>6. \A x \in ToSet(new), y \in ToSet(p.queue) : x <= y /\ (x = y => x = n)
      <4>1. ASSUME NEW x \in ToSet(new), NEW y \in ToSet(p.queue)
            PROVE  x <= y /\ (x = y => x = n)
        <5>1. x \in Int /\ y \in Int /\ n \in Int
          BY <2>3, <2>4
        <5>2. CASE x = n
          <6>1. y = n \/ n < y
            BY <2>2, <2>6
          <6> QED BY <6>1, <5>1, <5>2
        <5>3. CASE x \in ToSet(p.pdus)
          <6>1. x < y
            BY <5>3, <2>5
          <6> QED BY <6>1, <5>1
        <5> QED BY <5>2, <5>3, <2>3
      <4> QED BY <4>1
    <3>7. ~(TotalSize(r) < bits)
      BY <3>5
    <3>8. p.queue[1] = n
      BY DEF n
    <3>9. Ascending(p.queue)
      BY DEF PackedInOrder
    <3>10. PackedInOrder(r, bits)
      BY <3>4, <3>5, <3>6, <3>7, <3>8, <3>9, <2>1, <2>3, <2>6, <2>7, <2>8 DEF PackedInOrder
    <3> QED BY <3>2, <3>4, <3>10, <2>3
  <2> QED BY <2>9, <2>10
<1> QED BY <1>2, <1>3

(* What the front of the queue is like between two segments. *)
Contents ==
  /\ pduQueue \in Seq(SDU) /\ Ascending(pduQueue)
  /\ frontSegmentSentBits \in Nat
  /\ pduQueue /= <<>> => frontSegmentSentBits < Size[pduQueue[1]]
  /\ pduQueue = <<>> => frontSegmentSentBits = 0

(* Where the loop begins. *)
LEMMA UnpackedIs ==
  ASSUME Contents, pduQueue /= <<>>, NEW bits \in Nat, NEW overhead \in Nat, overhead < bits
  PROVE  LET p == Unpacked(overhead)
         IN  /\ PackedBits(p, bits, SizesOf(pduQueue) - frontSegmentSentBits)
             /\ PackedInOrder(p, bits)
             /\ p.open /\ TotalSize(p) < bits /\ p.pdus = <<>>
<1> DEFINE p == Unpacked(overhead)
<1>1. /\ p.queue = pduQueue /\ p.sent = frontSegmentSentBits /\ p.header = overhead /\ p.data = 0
      /\ p.pdus = <<>> /\ p.open = TRUE
  BY DEF Unpacked
<1>2. p \in Packing
  <2>1. <<>> \in Seq(SDU) /\ 0 \in Nat
    OBVIOUS
  <2> QED BY <2>1, PackingType DEF Unpacked, Contents
<1> HIDE DEF p
<1>3. TotalSize(p) = overhead
  BY <1>1 DEF TotalSize
<1>4. SizesOf(pduQueue) \in Nat
  BY SizesOfType DEF Contents
<1>5. PackedBits(p, bits, SizesOf(pduQueue) - frontSegmentSentBits)
  BY <1>1, <1>2, <1>3, <1>4 DEF PackedBits, Contents
<1>6. ToSet(<<>>) = {} /\ Ascending(<<>>)
  BY DEF ToSet, Ascending
<1>7. PackedInOrder(p, bits)
  BY <1>1, <1>6 DEF PackedInOrder, Contents
<1> QED BY <1>1, <1>3, <1>5, <1>7 DEF p

(* A segment holds at least a piece of the front SDU, and everything the queue
   has lost. *)
LEMMA PackedIs ==
  ASSUME ByteAlign = FALSE, Contents, pduQueue /= <<>>,
         NEW bits \in Nat, NEW overhead \in Nat, overhead < bits
  PROVE  LET p == Packed(overhead, bits)
         IN  /\ PackedBits(p, bits, SizesOf(pduQueue) - frontSegmentSentBits)
             /\ PackedInOrder(p, bits)
             /\ p.pdus /= <<>>
<1> DEFINE l == Len(pduQueue)
           all == SizesOf(pduQueue) - frontSegmentSentBits
<1>1. PICK f : /\ Packed(overhead, bits) = f[l]
               /\ f[0] = Unpacked(overhead)
               /\ \A i \in 1 .. l : f[i] = Pack(f[i - 1], bits)
  BY PackingRounds DEF Contents
<1>2. l \in Nat /\ l > 0
  BY EmptySeq DEF Contents
<1>3. all \in Int
  BY SizesOfType DEF Contents
<1> DEFINE T == {i \in 0 .. l : ~ (/\ PackedBits(f[i], bits, all) /\ PackedInOrder(f[i], bits)
                                   /\ (i > 0 => f[i].pdus /= <<>>))}
<1>4. T \in SUBSET Nat
  OBVIOUS
<1> HIDE DEF l, all
<1>5. T = {}
  <2> SUFFICES ASSUME T /= {}
               PROVE  FALSE
    OBVIOUS
  <2>1. PICK i \in T : \A m \in T : i <= m
    BY <1>4, LeastElement
  <2>2. i /= 0
    <3>1. 0 \notin T
      BY <1>1, UnpackedIs DEF all
    <3> QED BY <2>1, <3>1
  <2>3. i \in 1 .. l /\ i - 1 \in 0 .. l /\ i - 1 \notin T
    <3>1. i \in 0 .. l /\ i - 1 < i /\ i \in Nat
      BY <2>1, <1>2
    <3>2. i \in 1 .. l /\ i - 1 \in 0 .. l
      BY <3>1, <2>2, <1>2
    <3>3. ~(i <= i - 1)
      BY <3>1
    <3> HIDE DEF T
    <3> QED BY <3>2, <3>3, <2>1
  <2> DEFINE p == f[i - 1]
  <2>4. PackedBits(p, bits, all) /\ PackedInOrder(p, bits) /\ (i - 1 > 0 => p.pdus /= <<>>)
    BY <2>3
  <2>5. f[i] = Pack(p, bits)
    BY <2>3, <1>1
  <2>6. i - 1 = 0 => p.open /\ TotalSize(p) < bits
    BY <1>1, UnpackedIs
  <2> HIDE DEF p
  <2>7. PackedBits(f[i], bits, all)
    BY <2>4, <2>5, <1>3, PackKeepsBits
  <2>8. PackedInOrder(f[i], bits) /\ f[i].pdus /= <<>>
    <3>1. PackedInOrder(f[i], bits) /\ (TotalSize(p) < bits /\ p.open => f[i].pdus /= <<>>)
          /\ (p.pdus /= <<>> => f[i].pdus /= <<>>)
      BY <2>4, <2>5, <1>3, PackKeepsOrder
    <3>2. i - 1 = 0 \/ i - 1 > 0
      BY <2>3
    <3> QED BY <3>1, <3>2, <2>4, <2>6
  <2> QED BY <2>1, <2>7, <2>8
<1>6. l \in 0 .. l /\ l \notin T
  BY <1>2, <1>5
<1> QED BY <1>1, <1>2, <1>6 DEF all

(* Room for everything that is left. *)
RoomLeft(p, bits) ==
  /\ p.open
  /\ bits - TotalSize(p) = SizesOf(p.queue) - p.sent + (Len(p.queue) - 1) * ExtHeader

(* Extension headers for one SDU fewer. *)
LEMMA ProductStep ==
  ASSUME NEW k \in Nat, NEW e \in Nat
  PROVE  /\ k > 0 => (k - 1) * e \in Nat
         /\ k > 1 => (k - 1) * e = (k - 2) * e + e
<1>1. k > 0 => k - 1 \in Nat
  OBVIOUS
<1>2. \A a \in Nat : a * e \in Nat
  OBVIOUS
<1>3. k > 1 => (k - 1) * e = (k - 2) * e + e
  OBVIOUS
<1> QED BY <1>1, <1>2, <1>3

(* With room for everything, a round takes a whole SDU and leaves room for the
   others. *)
LEMMA PackKeepsRoom ==
  ASSUME ByteAlign = FALSE, NEW bits \in Nat, NEW all \in Int, NEW p, PackedBits(p, bits, all),
         RoomLeft(p, bits)
  PROVE  LET r == Pack(p, bits)
         IN  \/ r.queue = <<>>
             \/ RoomLeft(r, bits) /\ Len(r.queue) = Len(p.queue) - 1
<1> DEFINE n == p.queue[1]
           u == Unsent(p)
           rest == SizesOf(Tail(p.queue))
           k == Len(p.queue)
<1>1. /\ p \in Packing /\ p.header \in Nat /\ p.data \in Nat /\ p.sent \in Nat /\ p.open
      /\ p.queue \in Seq(SDU) /\ p.queue /= <<>>
      /\ TotalSize(p) = p.header + p.data
  BY DEF PackedBits, Packing, TotalSize, RoomLeft
<1>2. /\ n \in SDU /\ Tail(p.queue) \in Seq(SDU) /\ Len(Tail(p.queue)) = k - 1
      /\ SizesOf(p.queue) = Size[n] + rest
  BY <1>1, SizesOfTail
<1>3. k \in Nat /\ k > 0 /\ rest \in Nat /\ Size[n] \in Nat /\ p.sent < Size[n] /\ ExtHeader \in Nat
  <2>1. k \in Nat /\ k > 0
    BY <1>1, EmptySeq
  <2>2. rest \in Nat /\ Size[n] \in Nat
    BY <1>2, SizesOfType, SizeType
  <2>3. p.sent < Size[n]
    BY <1>1 DEF PackedBits
  <2> QED BY <2>1, <2>2, <2>3, BitsAssumption
<1>4. u = Size[n] - p.sent
  BY <1>1 DEF Unsent
<1> DEFINE e == (k - 1) * ExtHeader
           e2 == (k - 2) * ExtHeader
<1>5. e \in Nat /\ (k > 1 => e = e2 + ExtHeader)
  BY <1>3, ProductStep
<1>6. bits - (p.header + p.data) = u + rest + e
  BY <1>1, <1>2, <1>3, <1>4, <1>5 DEF RoomLeft
<1>7. Tail(p.queue) /= <<>> => k > 1 /\ rest > 0
  <2> SUFFICES ASSUME Tail(p.queue) /= <<>>
               PROVE  k > 1 /\ rest > 0
    OBVIOUS
  <2> DEFINE t == Tail(p.queue)
  <2>1. k - 1 > 0
    BY <1>2, EmptySeq
  <2>2. t[1] \in SDU /\ Tail(t) \in Seq(SDU) /\ rest = Size[t[1]] + SizesOf(Tail(t))
    BY <1>2, SizesOfTail
  <2>3. Size[t[1]] > 0 /\ Size[t[1]] \in Nat /\ SizesOf(Tail(t)) \in Nat
    BY <2>2, SizeType, SizesOfType
  <2> HIDE DEF t, rest, k
  <2> QED BY <2>1, <2>2, <2>3, <1>3
<1>8. PICK more \in BOOLEAN :
         /\ more <=> Tail(p.queue) /= <<>> /\ p.header + (p.data + u) + ExtHeader < bits
         /\ PackWhole(p, bits) =
              [queue |-> Tail(p.queue), sent |-> 0,
               header |-> IF more THEN p.header + ExtHeader ELSE p.header,
               data |-> p.data + u, pdus |-> Append(p.pdus, n), open |-> more]
  BY <1>1, PackWholeIs
<1> HIDE DEF u, e, rest, n, k
<1>9. u \in Nat /\ u > 0
  BY <1>1, <1>3, <1>4
<1>10. Pack(p, bits) = PackWhole(p, bits)
  <2>1. TotalSize(p) < bits /\ bits - TotalSize(p) >= u
    BY <1>1, <1>3, <1>5, <1>6, <1>9
  <2>2. ~(TotalSize(p) >= bits)
    BY <2>1, <1>1
  <2> QED BY <2>1, <2>2, <1>1 DEF Pack, u
<1> DEFINE r == PackWhole(p, bits)
<1>11. /\ r.queue = Tail(p.queue) /\ r.sent = 0 /\ r.data = p.data + u /\ r.open = more
       /\ more => r.header = p.header + ExtHeader
  BY <1>8
<1> HIDE DEF r, e2
<1>12. ASSUME r.queue /= <<>>
       PROVE  RoomLeft(r, bits) /\ Len(r.queue) = Len(p.queue) - 1
  <2>1. k > 1 /\ rest > 0 /\ e = e2 + ExtHeader /\ e2 \in Int /\ Len(r.queue) = k - 1
    <3>1. e2 \in Int
      <4>1. k - 2 \in Int
        BY <1>3
      <4> QED BY <4>1, <1>3 DEF e2
    <3> QED BY <3>1, <1>2, <1>5, <1>7, <1>11, <1>12
  <2>2. e2 \in Nat
    <3>1. k - 2 \in Nat
      BY <2>1, <1>3
    <3> QED BY <3>1, <1>3 DEF e2
  <2>3. p.header + (p.data + u) + ExtHeader < bits
    BY SMTT(20), <2>1, <2>2, <1>1, <1>3, <1>6, <1>9
  <2>4. more
    BY <2>3, <1>8, <1>11, <1>12
  <2>5. TotalSize(r) = (p.header + ExtHeader) + (p.data + u)
    BY <2>4, <1>11 DEF TotalSize
  <2>6. bits - TotalSize(r) = rest + e2
    <3>1. bits = (p.header + p.data) + (u + rest + (e2 + ExtHeader))
      BY <2>1, <2>2, <1>1, <1>3, <1>6, <1>9
    <3>2. TotalSize(r) = (p.header + p.data) + (u + ExtHeader)
      BY <2>5, <1>1, <1>3, <1>9
    <3> QED BY <3>1, <3>2, <2>2, <1>1, <1>3, <1>9
  <2>7. SizesOf(r.queue) - r.sent + (Len(r.queue) - 1) * ExtHeader = rest + e2
    <3>1. Len(r.queue) - 1 = k - 2
      BY <2>1, <1>3
    <3>2. (Len(r.queue) - 1) * ExtHeader = e2
      BY <3>1 DEF e2
    <3>3. SizesOf(r.queue) - r.sent = rest - 0
      BY <1>11 DEF rest
    <3> QED BY <3>2, <3>3, <1>3
  <2> QED BY <2>1, <2>4, <2>6, <2>7, <1>11 DEF RoomLeft, k
<1> QED BY <1>10, <1>12 DEF r

(* The bits a connection announces empty its queue. *)
LEMMA AnnouncedIsEnough ==
  ASSUME ByteAlign = FALSE, Contents, pduQueue /= <<>>, fixedOverhead \in Nat,
         nettoBits = SizesOf(pduQueue) - frontSegmentSentBits
  PROVE  Packed(OverheadFor(queuedBruttoBits), queuedBruttoBits).queue = <<>>
<1> DEFINE l == Len(pduQueue)
           bits == queuedBruttoBits
           overhead == OverheadFor(bits)
           all == SizesOf(pduQueue) - frontSegmentSentBits
           e == (l - 1) * ExtHeader
<1>1. l \in Nat /\ l > 0 /\ ExtHeader \in Nat
  BY EmptySeq, BitsAssumption DEF Contents
<1>2. SizesOf(pduQueue) \in Nat /\ frontSegmentSentBits \in Nat /\ all \in Nat /\ all > 0
  <2>1. /\ pduQueue[1] \in SDU /\ Tail(pduQueue) \in Seq(SDU)
        /\ SizesOf(pduQueue) = Size[pduQueue[1]] + SizesOf(Tail(pduQueue))
    BY SizesOfTail DEF Contents
  <2>2. SizesOf(Tail(pduQueue)) \in Nat /\ Size[pduQueue[1]] \in Nat
    BY <2>1, SizesOfType, SizeType
  <2>3. frontSegmentSentBits \in Nat /\ frontSegmentSentBits < Size[pduQueue[1]]
    BY DEF Contents
  <2> QED BY <2>1, <2>2, <2>3
<1>3. e \in Nat
  BY <1>1, ProductStep
<1>4. bits = all + (fixedOverhead + e)
  <2>1. nettoBits /= 0
    BY <1>2
  <2>2. bits = nettoBits + (fixedOverhead + e) + 0
    BY <2>1 DEF queuedBruttoBits, Alignment
  <2> HIDE DEF bits, e
  <2> QED BY <2>2, <1>2, <1>3
<1> HIDE DEF bits, all, e
<1>5. bits \in Nat /\ overhead = fixedOverhead /\ overhead \in Nat /\ overhead < bits
  <2>1. bits \in Nat /\ fixedOverhead < bits
    BY <1>2, <1>3, <1>4
  <2>2. ~(bits <= fixedOverhead)
    BY <2>1
  <2> QED BY <2>1, <2>2 DEF OverheadFor
<1> HIDE DEF overhead
<1>6. PICK f : /\ Packed(overhead, bits) = f[l]
               /\ f[0] = Unpacked(overhead)
               /\ \A i \in 1 .. l : f[i] = Pack(f[i - 1], bits)
  BY PackingRounds DEF Contents
<1> HIDE DEF l
<1> DEFINE T == {i \in 0 .. l : ~ (/\ PackedBits(f[i], bits, all)
                                   /\ \/ f[i].queue = <<>>
                                      \/ RoomLeft(f[i], bits) /\ Len(f[i].queue) = l - i)}
<1>7. T \in SUBSET Nat
  OBVIOUS
<1>8. 0 \notin T
  <2> DEFINE p == Unpacked(overhead)
  <2>1. PackedBits(p, bits, all)
    BY <1>5, UnpackedIs DEF all
  <2>2. p.queue = pduQueue /\ p.sent = frontSegmentSentBits /\ p.open = TRUE /\ p.header = overhead /\ p.data = 0
    BY DEF Unpacked
  <2>3. TotalSize(p) = fixedOverhead
    BY <2>2, <1>5 DEF TotalSize
  <2>4. bits - TotalSize(p) = all + e
    BY <2>3, <1>2, <1>3, <1>4
  <2>5. RoomLeft(p, bits)
    BY <2>2, <2>4 DEF RoomLeft, all, e, l
  <2>6. Len(p.queue) = l - 0
    BY <2>2, <1>1 DEF l
  <2> HIDE DEF p
  <2> QED BY <2>1, <2>5, <2>6, <1>6 DEF p
<1>9. T = {}
  <2> SUFFICES ASSUME T /= {}
               PROVE  FALSE
    OBVIOUS
  <2>1. PICK i \in T : \A m \in T : i <= m
    BY <1>7, LeastElement
  <2>2. i \in 1 .. l /\ i - 1 \in 0 .. l /\ i - 1 \notin T
    <3>1. i \in 0 .. l /\ i - 1 < i /\ i \in Nat /\ i /= 0
      BY <2>1, <1>1, <1>8
    <3>2. i \in 1 .. l /\ i - 1 \in 0 .. l
      BY <3>1, <1>1
    <3>3. ~(i <= i - 1)
      BY <3>1
    <3> HIDE DEF T
    <3> QED BY <3>2, <3>3, <2>1
  <2> DEFINE p == f[i - 1]
  <2>3. /\ PackedBits(p, bits, all)
        /\ p.queue = <<>> \/ (RoomLeft(p, bits) /\ Len(p.queue) = l - (i - 1))
    <3>1. \A j \in 0 .. l : j \notin T =>
            /\ PackedBits(f[j], bits, all)
            /\ f[j].queue = <<>> \/ (RoomLeft(f[j], bits) /\ Len(f[j].queue) = l - j)
      OBVIOUS
    <3> HIDE DEF T
    <3> QED BY <2>2, <3>1
  <2>4. f[i] = Pack(p, bits)
    BY <2>2, <1>6
  <2> HIDE DEF p
  <2>5. PackedBits(f[i], bits, all)
    <3>1. all \in Int /\ PackedBits(p, bits, all)
      BY <2>3, <1>2
    <3>2. PackedBits(Pack(p, bits), bits, all)
      BY <3>1, <1>5, PackKeepsBits
    <3> QED BY <3>2, <2>4
  <2>6. f[i].queue = <<>> \/ (RoomLeft(f[i], bits) /\ Len(f[i].queue) = l - i)
    <3>1. CASE p.queue = <<>>
      <4>1. ~p.open
        BY <3>1, <2>3 DEF PackedBits
      <4> QED BY <4>1, <3>1, <2>4 DEF Pack
    <3>2. CASE RoomLeft(p, bits) /\ Len(p.queue) = l - (i - 1)
      <4>1. l - (i - 1) - 1 = l - i
        BY <2>2, <1>1
      <4>2. f[i].queue = <<>> \/ (RoomLeft(f[i], bits) /\ Len(f[i].queue) = Len(p.queue) - 1)
        <5>1. all \in Int /\ PackedBits(p, bits, all)
          BY <2>3, <1>2
        <5>2. Pack(p, bits).queue = <<>> \/ (RoomLeft(Pack(p, bits), bits) /\ Len(Pack(p, bits).queue) = Len(p.queue) - 1)
          BY <3>2, <5>1, <1>5, PackKeepsRoom
        <5> QED BY <5>2, <2>4
      <4> QED BY <4>1, <4>2, <3>2
    <3> QED BY <3>1, <3>2, <2>3
  <2> QED BY <2>1, <2>5, <2>6
<1>10. l \in 0 .. l /\ l \notin T
  BY <1>1, <1>9
<1>11. PackedBits(f[l], bits, all) /\ (f[l].queue = <<>> \/ Len(f[l].queue) = l - l)
  BY <1>10
<1>12. f[l].queue = <<>>
  <2>1. f[l].queue \in Seq(SDU)
    BY <1>11 DEF PackedBits, Packing
  <2>2. l - l = 0
    BY <1>1
  <2> QED BY <2>1, <2>2, <1>11, EmptySeq
<1> QED BY <1>6, <1>12 DEF overhead, bits

-----------------------------------------------------------------------------
(* The invariant of the sender.                                            *)

Fits(c) == c.header + c.data + c.padding <= c.requested

SenderTypes ==
  /\ offered \in 0 .. Len(Size)
  /\ Contents
  /\ fixedOverhead \in 0 .. FixedHeader
  /\ isSegmenting \in BOOLEAN
  /\ sequenceNumber = Len(segments)
  /\ segments \in Seq(SegmentType) /\ senderPendingSegments \in Seq(SegmentType)
  /\ \A i \in 1 .. Len(segments) : segments[i].sn = i - 1 /\ Fits(segments[i])
  /\ \A i \in 1 .. Len(senderPendingSegments) :
       senderPendingSegments[i].sn = sequenceNumber + i - 1 /\ Fits(senderPendingSegments[i])

DataOf(s) == [i \in DOMAIN s |-> s[i].data]
Weights == [n \in SDU |-> IF n \in Queued THEN Size[n] ELSE 0]

SenderBits ==
  /\ nettoBits = SizesOf(pduQueue) - frontSegmentSentBits
  /\ ~isSegmenting => Total(DataOf(segments)) + nettoBits = Total(Weights)

(* The segments carry the SDUs in their order; one that goes on in the next
   segment is not completed, and one that begins with an SDU is the first to
   carry any of its SDUs. *)
Chained(s) ==
  /\ \A k \in 1 .. Len(s) : s[k].pdus /= <<>> /\ Ascending(s[k].pdus)
  /\ \A j, k \in 1 .. Len(s) : j < k =>
       \A x \in ToSet(s[j].pdus), y \in ToSet(s[k].pdus) :
         x <= y /\ (x = y => ~Completes(s[j], x) /\ ~s[k].begin)
  /\ \A k \in 1 .. Len(s) - 1 : ~s[k].end => s[k + 1].pdus[1] = s[k].pdus[Len(s[k].pdus)]

LastSent == LET c == segments[Len(segments)] IN c.pdus[Len(c.pdus)]

(* The last segment ends within an SDU. *)
Broken == segments /= <<>> /\ ~segments[Len(segments)].end

(* What waits in the queue comes after all that was sent. *)
QueueFollows ==
  /\ \A y \in ToSet(pduQueue) : y <= offered
  /\ isSegmenting => pduQueue = <<>>
  /\ \A k \in 1 .. Len(segments) : \A x \in ToSet(segments[k].pdus) :
       /\ x <= offered
       /\ \A y \in ToSet(pduQueue) :
            x <= y /\ (x = y => ~Completes(segments[k], x) /\ frontSegmentSentBits > 0)
  /\ Broken /\ ~isSegmenting => pduQueue /= <<>> /\ pduQueue[1] = LastSent

(* What SegAndConcat has not passed down yet is the rest of its last SDU. *)
PendingFollows ==
  /\ senderPendingSegments /= <<>> =>
       isSegmenting /\ \A k \in 1 .. Len(segments) : ~Completes(segments[k], offered)
  /\ \A i \in 1 .. Len(senderPendingSegments) :
       LET c == senderPendingSegments[i] IN
       /\ c.pdus = <<offered>>
       /\ c.end <=> i = Len(senderPendingSegments)
       /\ c.begin => i = 1 /\ \A k \in 1 .. Len(segments) : \A x \in ToSet(segments[k].pdus) : x < offered
  /\ Broken /\ isSegmenting => senderPendingSegments /= <<>> /\ LastSent = offered

SenderOrder == Chained(segments) /\ QueueFollows /\ PendingFollows

SenderInv == SenderTypes /\ SenderBits /\ SenderOrder

-----------------------------------------------------------------------------
(* A segment more.                                                         *)

LEMMA OneMore ==
  ASSUME NEW S, NEW s \in Seq(S), NEW c \in S
  PROVE  LET t == Append(s, c)
         IN  /\ t \in Seq(S) /\ Len(t) = Len(s) + 1 /\ t /= <<>> /\ Len(s) \in Nat
             /\ t[Len(s) + 1] = c /\ t[Len(t)] = c
             /\ \A i \in 1 .. Len(s) : t[i] = s[i]
             /\ \A i \in 1 .. Len(t) : i \in 1 .. Len(s) \/ i = Len(s) + 1
             /\ 1 .. Len(t) = 1 .. Len(s) \union {Len(s) + 1}
             /\ DOMAIN t = 1 .. Len(t) /\ DOMAIN s = 1 .. Len(s)
<1> DEFINE t == Append(s, c)
           l == Len(s)
<1>1. t \in Seq(S) /\ Len(t) = l + 1 /\ l \in Nat /\ t[l + 1] = c /\ \A i \in 1 .. l : t[i] = s[i]
  OBVIOUS
<1>2. DOMAIN t = 1 .. Len(t) /\ DOMAIN s = 1 .. l
  OBVIOUS
<1> HIDE DEF t, l
<1>3. t /= <<>>
  BY <1>1, EmptySeq
<1>4. \A i \in 1 .. Len(t) : i \in 1 .. l \/ i = l + 1
  BY <1>1
<1>5. 1 .. Len(t) = 1 .. l \union {l + 1}
  BY <1>1
<1> QED BY <1>1, <1>2, <1>3, <1>4, <1>5 DEF t, l

LEMMA DataOfAppend ==
  ASSUME NEW s \in Seq(SegmentType), NEW c \in SegmentType
  PROVE  /\ Total(DataOf(s)) \in Nat
         /\ Total(DataOf(Append(s, c))) = Total(DataOf(s)) + c.data
<1> DEFINE t == Append(s, c)
<1>1. /\ t \in Seq(SegmentType) /\ Len(t) = Len(s) + 1 /\ t[Len(s) + 1] = c /\ Len(s) \in Nat
      /\ \A i \in 1 .. Len(s) : t[i] = s[i]
      /\ DOMAIN t = 1 .. Len(t) /\ DOMAIN s = 1 .. Len(s)
      /\ 1 .. Len(t) = 1 .. Len(s) \union {Len(s) + 1}
  BY OneMore
<1> HIDE DEF t
<1>2. ASSUME NEW q \in Seq(SegmentType)
      PROVE  DataOf(q) \in Seq(Nat) /\ DataOf(q) \in Seq(Int) /\ Len(DataOf(q)) = Len(q)
  <2>1. \A i \in 1 .. Len(q) : q[i].data \in Nat
    <3>1. \A i \in 1 .. Len(q) : q[i] \in SegmentType
      OBVIOUS
    <3> QED BY <3>1 DEF SegmentType
  <2>2. DataOf(q) = [i \in 1 .. Len(q) |-> q[i].data] /\ Len(q) \in Nat
    BY DEF DataOf
  <2> QED BY <2>1, <2>2
<1>3. c.data \in Nat /\ c.data \in Int
  BY DEF SegmentType
<1> DEFINE a == Append(DataOf(s), c.data)
<1>4. a \in Seq(Nat) /\ Len(a) = Len(s) + 1 /\ a[Len(s) + 1] = c.data
      /\ \A i \in 1 .. Len(s) : a[i] = DataOf(s)[i]
  <2>1. DataOf(s) \in Seq(Nat) /\ Len(DataOf(s)) = Len(s)
    BY <1>2
  <2> QED BY <2>1, <1>3, OneMore
<1>5. DataOf(t) \in Seq(Nat) /\ Len(DataOf(t)) = Len(s) + 1
  BY <1>1, <1>2
<1> HIDE DEF a
<1>6. \A i \in 1 .. Len(s) + 1 : DataOf(t)[i] = a[i]
  <2> TAKE i \in 1 .. Len(s) + 1
  <2>1. DataOf(t)[i] = t[i].data
    BY <1>1 DEF DataOf
  <2>2. CASE i = Len(s) + 1
    BY <2>1, <2>2, <1>1, <1>4
  <2>3. CASE i \in 1 .. Len(s)
    <3>1. DataOf(s)[i] = s[i].data
      BY <2>3, <1>1 DEF DataOf
    <3> QED BY <3>1, <2>1, <2>3, <1>1, <1>4
  <2> QED BY <2>2, <2>3, <1>1
<1>7. DataOf(t) = a
  BY <1>4, <1>5, <1>6, SeqEqual
<1>8. Total(a) = Total(DataOf(s)) + c.data
  BY <1>2, <1>3, TotalAppend DEF a
<1>9. Total(DataOf(s)) \in Nat
  BY <1>2, TotalNat
<1> QED BY <1>7, <1>8, <1>9 DEF t

(* A segment goes on where the last one stopped. *)
LEMMA ChainAppend ==
  ASSUME NEW s \in Seq(SegmentType), Chained(s), NEW c \in SegmentType,
         c.pdus /= <<>>, Ascending(c.pdus),
         \A k \in 1 .. Len(s) : \A x \in ToSet(s[k].pdus), y \in ToSet(c.pdus) :
           x <= y /\ (x = y => ~Completes(s[k], x) /\ ~c.begin),
         s /= <<>> /\ ~s[Len(s)].end => c.pdus[1] = s[Len(s)].pdus[Len(s[Len(s)].pdus)]
  PROVE  Chained(Append(s, c))
<1> DEFINE t == Append(s, c)
           l == Len(s)
<1>1. /\ l \in Nat /\ Len(t) = l + 1 /\ t[l + 1] = c
      /\ \A i \in 1 .. l : t[i] = s[i]
      /\ \A i \in 1 .. Len(t) : i \in 1 .. l \/ i = l + 1
  BY OneMore
<1>2. l > 0 => s /= <<>>
  OBVIOUS
<1> HIDE DEF t
<1>3. \A k \in 1 .. Len(t) : t[k].pdus /= <<>> /\ Ascending(t[k].pdus)
  BY <1>1 DEF Chained
<1>4. ASSUME NEW j \in 1 .. Len(t), NEW k \in 1 .. Len(t), j < k,
             NEW x \in ToSet(t[j].pdus), NEW y \in ToSet(t[k].pdus)
      PROVE  x <= y /\ (x = y => ~Completes(t[j], x) /\ ~t[k].begin)
  <2>1. j \in 1 .. l /\ t[j] = s[j]
    BY <1>1, <1>4
  <2>2. CASE k = l + 1
    BY <2>1, <2>2, <1>1, <1>4
  <2>3. CASE k \in 1 .. l
    BY <2>1, <2>3, <1>1, <1>4 DEF Chained
  <2> QED BY <2>2, <2>3, <1>1
<1>5. ASSUME NEW k \in 1 .. Len(t) - 1, ~t[k].end
      PROVE  t[k + 1].pdus[1] = t[k].pdus[Len(t[k].pdus)]
  <2>1. k \in 1 .. l /\ t[k] = s[k]
    BY <1>1
  <2>2. CASE k = l
    <3>1. s /= <<>>
      BY <2>1, <1>1, <1>2
    <3>2. t[k + 1] = c /\ t[k] = s[l]
      BY <2>1, <2>2, <1>1
    <3> QED BY <3>1, <3>2, <1>5
  <2>3. CASE k /= l
    <3>1. k \in 1 .. l - 1 /\ k + 1 \in 1 .. l
      BY <2>1, <2>3, <1>1
    <3>2. t[k + 1] = s[k + 1]
      BY <3>1, <1>1
    <3> QED BY <3>1, <3>2, <2>1, <1>5 DEF Chained
  <2> QED BY <2>2, <2>3
<1> QED BY <1>3, <1>4, <1>5 DEF Chained, t

-----------------------------------------------------------------------------
(* SDUs enter the queue.                                                   *)

(* An SDU comes in that was neither sent nor waiting: the sum grows by its size. *)
LEMMA QueuedGrows ==
  ASSUME NEW n \in SDU, n \notin Queued, Queued' = Queued \union {n}
  PROVE  Total(Weights') = Total(Weights) + Size[n] /\ Total(Weights) \in Int
<1> DEFINE l == Len(Size)
           s == [k \in 1 .. l |-> IF k \in Queued THEN Size[k] ELSE 0]
           t == [k \in 1 .. l |-> IF k \in Queued' THEN Size[k] ELSE 0]
<1>1. SDU = 1 .. l /\ l \in Nat
  BY SizeAssumption DEF SDU
<1>2. Weights = s /\ Weights' = t
  BY <1>1 DEF Weights
<1>3. \A k \in 1 .. l : Size[k] \in Nat
  BY <1>1, SizeType
<1> HIDE DEF l
<1>4. s \in Seq(Int) /\ Len(s) = l /\ t \in Seq(Int) /\ Len(t) = l
  BY <1>1, <1>3
<1>5. n \in 1 .. l /\ Size[n] \in Int
  BY <1>1, <1>3
<1>6. t[n] = s[n] + Size[n]
  BY <1>3, <1>5
<1>7. \A i \in 1 .. l : i /= n => t[i] = s[i]
  OBVIOUS
<1> HIDE DEF s, t
<1>8. Total(t) = Total(s) + Size[n]
  <2>1. Len(t) = Len(s) /\ n \in 1 .. Len(s) /\ \A i \in 1 .. Len(s) : i /= n => t[i] = s[i]
    BY <1>4, <1>5, <1>7
  <2> QED BY <2>1, <1>4, <1>5, <1>6, TotalExcept
<1>9. Total(s) \in Int
  BY <1>4, TotalType
<1> QED BY <1>2, <1>8, <1>9

(* Nothing was sent or waits that was not offered. *)
LEMMA QueuedBound ==
  ASSUME SenderTypes, SenderOrder
  PROVE  \A n \in Queued : n <= offered
<1> TAKE n \in Queued
<1>1. CASE n \in ToSet(pduQueue)
  BY <1>1 DEF SenderOrder, QueueFollows
<1>2. CASE \E i \in DOMAIN segments : n \in ToSet(segments[i].pdus)
  <2>1. PICK i \in DOMAIN segments : n \in ToSet(segments[i].pdus)
    BY <1>2
  <2>2. i \in 1 .. Len(segments)
    BY DEF SenderTypes
  <2> QED BY <2>1, <2>2 DEF SenderOrder, QueueFollows
<1> QED BY <1>1, <1>2 DEF Queued

(* The upper layer puts an SDU. *)
LEMMA PutKeeps ==
  ASSUME SenderInv, ~isSegmenting, Put, UNCHANGED <<isSegmenting, senderPendingSegments>>
  PROVE  SenderInv'
<1> DEFINE n == offered + 1
<1>1. /\ n \in SDU /\ offered' = n /\ pduQueue' = Append(pduQueue, n) /\ nettoBits' = nettoBits + Size[n]
      /\ frontSegmentSentBits' = frontSegmentSentBits /\ fixedOverhead' = fixedOverhead
      /\ sequenceNumber' = sequenceNumber /\ segments' = segments
      /\ isSegmenting' = isSegmenting /\ senderPendingSegments' = senderPendingSegments
  BY DEF Put, segmentVars
<1>2. offered \in Nat /\ offered < n /\ n \in 0 .. Len(Size)
  <2>1. SDU = 1 .. Len(Size) /\ Len(Size) \in Nat
    BY SizeAssumption DEF SDU
  <2> QED BY <2>1, <1>1 DEF SenderInv, SenderTypes
<1> HIDE DEF n
<1>3. /\ pduQueue \in Seq(SDU) /\ pduQueue \in Seq(Int) /\ Ascending(pduQueue)
      /\ frontSegmentSentBits \in Nat
      /\ pduQueue /= <<>> => frontSegmentSentBits < Size[pduQueue[1]]
      /\ pduQueue = <<>> => frontSegmentSentBits = 0
  BY SDUIsInt DEF SenderInv, SenderTypes, Contents
<1>4. /\ pduQueue' \in Seq(SDU) /\ pduQueue' /= <<>>
      /\ ToSet(pduQueue') = ToSet(pduQueue) \union {n}
      /\ pduQueue'[1] = IF pduQueue = <<>> THEN n ELSE pduQueue[1]
  BY <1>1, <1>3, SetOfAppend
<1>5. /\ QueueFollows /\ PendingFollows /\ Chained(segments)
      /\ nettoBits = SizesOf(pduQueue) - frontSegmentSentBits
  BY DEF SenderInv, SenderOrder, SenderBits
<1>6. ToSet(pduQueue) \subseteq Int
  BY <1>3 DEF ToSet
<1>7. \A y \in ToSet(pduQueue) : y \in Int /\ y < n /\ y <= offered
  BY <1>2, <1>5, <1>6 DEF QueueFollows
<1>8. \A k \in 1 .. Len(segments) : \A x \in ToSet(segments[k].pdus) : x \in Int
  <2> TAKE k \in 1 .. Len(segments)
  <2>1. segments[k] \in SegmentType
    BY DEF SenderInv, SenderTypes
  <2>2. segments[k].pdus \in Seq(SDU)
    BY <2>1 DEF SegmentType
  <2> QED BY <2>2, SDUIsInt DEF ToSet
<1>9. SenderTypes'
  <2>1. Ascending(pduQueue')
    BY <1>1, <1>2, <1>3, <1>7, AscendingAppend
  <2>2. frontSegmentSentBits' < Size[pduQueue'[1]]
    BY <1>1, <1>3, <1>4, SizeType
  <2>3. Contents'
    BY <2>1, <2>2, <1>1, <1>3, <1>4 DEF Contents
  <2> QED BY <2>3, <1>1, <1>2 DEF SenderInv, SenderTypes
<1>10. SenderBits'
  <2>1. SizesOf(pduQueue') = SizesOf(pduQueue) + Size[n] /\ SizesOf(pduQueue) \in Nat /\ Size[n] \in Nat
    BY <1>1, <1>3, SizesOfAppend, SizesOfType, SizeType
  <2>2. nettoBits' = SizesOf(pduQueue') - frontSegmentSentBits'
    BY <2>1, <1>1, <1>3, <1>5
  <2>3. n \notin Queued
    <3>1. \A m \in Queued : m <= offered
      BY QueuedBound DEF SenderInv
    <3> QED BY <3>1, <1>2
  <2>4. Queued' = Queued \union {n}
    BY <1>1, <1>4 DEF Queued
  <2>5. Total(Weights') = Total(Weights) + Size[n] /\ Total(Weights) \in Int
    BY <2>3, <2>4, <1>1, QueuedGrows
  <2>6. DataOf(segments') = DataOf(segments)
    BY <1>1
  <2>7. Total(DataOf(segments)) + nettoBits = Total(Weights) /\ nettoBits \in Int
    BY <2>1, <1>3, <1>5 DEF SenderInv, SenderBits
  <2>8. Total(DataOf(segments)) \in Int
    <3>1. DataOf(segments) \in Seq(Int)
      <4>1. \A i \in 1 .. Len(segments) : segments[i].data \in Nat
        <5>1. \A i \in 1 .. Len(segments) : segments[i] \in SegmentType
          BY DEF SenderInv, SenderTypes
        <5> QED BY <5>1 DEF SegmentType
      <4>2. DataOf(segments) = [i \in 1 .. Len(segments) |-> segments[i].data] /\ Len(segments) \in Nat
        BY DEF DataOf, SenderInv, SenderTypes
      <4> QED BY <4>1, <4>2
    <3> QED BY <3>1, TotalType
  <2>9. Total(DataOf(segments')) + nettoBits' = Total(Weights')
    BY <2>1, <2>5, <2>6, <2>7, <2>8, <1>1
  <2> QED BY <2>2, <2>9 DEF SenderBits, DataOf
<1>11. QueueFollows'
  <2>1. \A y \in ToSet(pduQueue') : y <= offered'
    BY <1>1, <1>2, <1>4, <1>7
  <2>2. ASSUME NEW k \in 1 .. Len(segments), NEW x \in ToSet(segments[k].pdus)
        PROVE  /\ x <= offered'
               /\ \A y \in ToSet(pduQueue') :
                    x <= y /\ (x = y => ~Completes(segments[k], x) /\ frontSegmentSentBits > 0)
    <3>1. x \in Int /\ x <= offered
      BY <1>5, <1>8 DEF QueueFollows
    <3>2. x < n
      BY <3>1, <1>2
    <3>3. \A y \in ToSet(pduQueue) :
                    x <= y /\ (x = y => ~Completes(segments[k], x) /\ frontSegmentSentBits > 0)
      BY <1>5 DEF QueueFollows
    <3>4. x <= n /\ x /= n /\ x <= offered'
      BY <3>1, <3>2, <1>1, <1>2
    <3> QED BY <3>3, <3>4, <1>4
  <2>3. Broken' /\ ~isSegmenting' => pduQueue' /= <<>> /\ pduQueue'[1] = LastSent'
    <3>1. Broken' = Broken /\ LastSent' = LastSent
      BY <1>1 DEF Broken, LastSent
    <3>2. Broken => pduQueue /= <<>> /\ pduQueue[1] = LastSent
      BY <1>5 DEF QueueFollows
    <3> QED BY <3>1, <3>2, <1>4
  <2> QED BY <2>1, <2>2, <2>3, <1>1 DEF QueueFollows, Completes
<1>12. PendingFollows'
  <2>1. senderPendingSegments = <<>>
    BY <1>5 DEF PendingFollows
  <2>2. 1 .. Len(<<>>) = {}
    OBVIOUS
  <2> QED BY <2>1, <2>2, <1>1 DEF PendingFollows
<1>13. Chained(segments)'
  BY <1>1, <1>5
<1> QED BY <1>9, <1>10, <1>11, <1>12, <1>13 DEF SenderInv, SenderOrder

(* A full queue swallows an SDU. *)
LEMMA PutDroppedKeeps ==
  ASSUME SenderInv, ~isSegmenting, PutDropped, UNCHANGED <<isSegmenting, senderPendingSegments>>
  PROVE  SenderInv'
<1>1. /\ offered + 1 \in SDU /\ offered' = offered + 1
      /\ UNCHANGED <<pduQueue, frontSegmentSentBits, nettoBits, fixedOverhead, sequenceNumber, segments,
                     isSegmenting, senderPendingSegments>>
  BY DEF PutDropped, segmentVars
<1>2. offered \in Nat /\ offered < offered' /\ offered' \in 0 .. Len(Size)
  <2>1. SDU = 1 .. Len(Size) /\ Len(Size) \in Nat
    BY SizeAssumption DEF SDU
  <2> QED BY <2>1, <1>1 DEF SenderInv, SenderTypes
<1>3. SenderTypes'
  BY <1>1, <1>2 DEF SenderInv, SenderTypes, Contents
<1>4. SenderBits'
  BY <1>1 DEF SenderInv, SenderBits, Weights, Queued, DataOf
<1>5. QueueFollows /\ PendingFollows /\ Chained(segments)
  BY DEF SenderInv, SenderOrder
<1>6. QueueFollows'
  <2>1. \A y \in ToSet(pduQueue) : y \in Int /\ y <= offered
    <3>1. ToSet(pduQueue) \subseteq Int
      BY SDUIsInt DEF SenderInv, SenderTypes, Contents, ToSet
    <3> QED BY <3>1, <1>5 DEF QueueFollows
  <2>2. \A k \in 1 .. Len(segments) : \A x \in ToSet(segments[k].pdus) : x \in Int /\ x <= offered
    <3> TAKE k \in 1 .. Len(segments)
    <3>1. segments[k] \in SegmentType
      BY DEF SenderInv, SenderTypes
    <3>2. segments[k].pdus \in Seq(SDU)
      BY <3>1 DEF SegmentType
    <3>3. ToSet(segments[k].pdus) \subseteq Int
      BY <3>2, SDUIsInt DEF ToSet
    <3> QED BY <3>3, <1>5 DEF QueueFollows
  <2>3. \A y \in ToSet(pduQueue) : y <= offered'
    BY <2>1, <1>2
  <2>4. \A k \in 1 .. Len(segments) : \A x \in ToSet(segments[k].pdus) : x <= offered'
    BY <2>2, <1>2
  <2>5. Broken' = Broken /\ LastSent' = LastSent
    BY <1>1 DEF Broken, LastSent
  <2> QED BY <2>3, <2>4, <2>5, <1>1, <1>5 DEF QueueFollows, Completes
<1>7. PendingFollows'
  <2>1. senderPendingSegments = <<>>
    BY <1>5 DEF PendingFollows
  <2>2. 1 .. Len(<<>>) = {}
    OBVIOUS
  <2> QED BY <2>1, <2>2, <1>1 DEF PendingFollows
<1>8. Chained(segments)'
  BY <1>1, <1>5
<1> QED BY <1>3, <1>4, <1>6, <1>7, <1>8 DEF SenderInv, SenderOrder

(* Whatever leaves the sender alone keeps its invariant, and so does a new frame. *)
LEMMA FrameKeeps ==
  ASSUME SenderInv, fixedOverhead' \in 0 .. FixedHeader,
         UNCHANGED <<offered, pduQueue, frontSegmentSentBits, nettoBits, segmentVars, isSegmenting,
                     senderPendingSegments>>
  PROVE  SenderInv'
<1>1. /\ UNCHANGED <<offered, pduQueue, frontSegmentSentBits, nettoBits, sequenceNumber, segments,
                     isSegmenting, senderPendingSegments>>
  BY DEF segmentVars
<1>2. SenderTypes'
  BY <1>1 DEF SenderInv, SenderTypes, Contents
<1>3. SenderBits'
  BY <1>1 DEF SenderInv, SenderBits, Weights, Queued, DataOf
<1>4. QueueFollows' /\ PendingFollows' /\ Chained(segments)'
  <2>1. Broken' = Broken /\ LastSent' = LastSent
    BY <1>1 DEF Broken, LastSent
  <2>2. QueueFollows'
    BY <2>1, <1>1 DEF SenderInv, SenderOrder, QueueFollows, Completes
  <2>3. PendingFollows'
    BY <2>1, <1>1 DEF SenderInv, SenderOrder, PendingFollows, Completes
  <2>4. Chained(segments)'
    BY <1>1 DEF SenderInv, SenderOrder
  <2> QED BY <2>2, <2>3, <2>4
<1> QED BY <1>2, <1>3, <1>4 DEF SenderInv, SenderOrder

LEMMA PdusOfSegments ==
  ASSUME SenderTypes, NEW k \in 1 .. Len(segments)
  PROVE  segments[k] \in SegmentType /\ segments[k].pdus \in Seq(SDU) /\ ToSet(segments[k].pdus) \subseteq Int
<1>1. segments[k] \in SegmentType
  BY DEF SenderTypes
<1>2. segments[k].pdus \in Seq(SDU)
  BY <1>1 DEF SegmentType
<1> QED BY <1>1, <1>2, SDUIsInt DEF ToSet

(* The segment that a grant of the scheduler makes. *)
LEMMA GrantMakes ==
  ASSUME ByteAlign = FALSE, Contents, sequenceNumber \in Nat, fixedOverhead \in 0 .. FixedHeader,
         nettoBits = SizesOf(pduQueue) - frontSegmentSentBits,
         NEW bits \in Requests, getHeadOfLinePDUSegment(bits)
  PROVE  \E p, c :
           /\ PackedBits(p, bits, nettoBits) /\ PackedInOrder(p, bits) /\ p.pdus /= <<>>
           /\ c \in SegmentType /\ Fits(c) /\ c.sn = sequenceNumber /\ c.pdus = p.pdus /\ c.data = p.data
           /\ c.begin <=> frontSegmentSentBits = 0
           /\ c.end <=> p.sent = 0
           /\ segments' = Append(segments, c) /\ sequenceNumber' = sequenceNumber + 1
           /\ pduQueue' = p.queue /\ frontSegmentSentBits' = p.sent
           /\ nettoBits' = SizesOf(p.queue) - p.sent
           /\ nettoBits' = nettoBits - p.data
           /\ fixedOverhead' \in 0 .. FixedHeader
<1> DEFINE overhead == OverheadFor(bits)
           p == Packed(overhead, bits)
           c == SegmentOf(p, bits)
<1>1. bits \in Nat /\ bits > 0 /\ fixedOverhead \in Nat /\ FixedHeader \in Nat
  BY BitsAssumption
<1>2. overhead \in Nat /\ overhead < bits /\ fixedOverhead - overhead \in 0 .. FixedHeader
  BY <1>1 DEF OverheadFor
<1>3. /\ pduQueue /= <<>>
      /\ segments' = Append(segments, c) /\ sequenceNumber' = sequenceNumber + 1
      /\ pduQueue' = p.queue /\ frontSegmentSentBits' = p.sent
      /\ nettoBits' = IF p.queue = <<>> THEN 0 ELSE nettoBits - p.data
      /\ fixedOverhead' = fixedOverhead - overhead
  BY DEF getHeadOfLinePDUSegment
<1> HIDE DEF overhead
<1>4. PackedBits(p, bits, nettoBits) /\ PackedInOrder(p, bits) /\ p.pdus /= <<>>
  BY <1>1, <1>2, <1>3, PackedIs
<1> HIDE DEF p
<1>5. /\ p.queue \in Seq(SDU) /\ p.sent \in Nat /\ p.header \in Nat /\ p.data \in Nat /\ p.pdus \in Seq(SDU)
      /\ p.header + p.data <= bits
      /\ p.data + SizesOf(p.queue) - p.sent = nettoBits
      /\ p.queue = <<>> => p.sent = 0
  BY <1>4 DEF PackedBits, Packing, TotalSize
<1>6. SizesOf(p.queue) \in Nat /\ (p.queue = <<>> => SizesOf(p.queue) = 0)
  BY <1>5, SizesOfType, SizesOfEmpty
<1>7. nettoBits' = SizesOf(p.queue) - p.sent /\ nettoBits' = nettoBits - p.data
  BY SMTT(20), <1>3, <1>5, <1>6
<1> DEFINE padding == IF UsePadding THEN bits - p.header - p.data ELSE 0
<1>8. c = [sn |-> sequenceNumber, begin |-> frontSegmentSentBits = 0, end |-> p.sent = 0,
           pdus |-> p.pdus, header |-> p.header, data |-> p.data, padding |-> padding, requested |-> bits]
  <2>1. p.header + Alignment(p.header) = p.header
    BY <1>5 DEF Alignment
  <2> QED BY <2>1 DEF SegmentOf
<1>9. padding \in Nat /\ p.header + p.data + padding <= bits
  BY <1>1, <1>5
<1> HIDE DEF padding, c
<1>10. c \in SegmentType
  BY <1>1, <1>5, <1>8, <1>9 DEF SegmentType
<1>11. /\ c.sn = sequenceNumber /\ c.pdus = p.pdus /\ c.data = p.data
       /\ c.begin <=> frontSegmentSentBits = 0
       /\ c.end <=> p.sent = 0
       /\ Fits(c)
  BY <1>8, <1>9 DEF Fits
<1>12. fixedOverhead' \in 0 .. FixedHeader
  BY <1>2, <1>3
<1> QED BY <1>3, <1>4, <1>7, <1>10, <1>11, <1>12

(* A grant of the scheduler. *)
LEMMA GrantKeeps ==
  ASSUME ByteAlign = FALSE, SenderInv, ~isSegmenting, NEW bits \in Requests, getHeadOfLinePDUSegment(bits),
         UNCHANGED <<isSegmenting, senderPendingSegments>>
  PROVE  SenderInv'
<1>1. /\ Contents /\ sequenceNumber \in Nat /\ fixedOverhead \in 0 .. FixedHeader
      /\ nettoBits = SizesOf(pduQueue) - frontSegmentSentBits
      /\ QueueFollows /\ PendingFollows /\ Chained(segments)
      /\ segments \in Seq(SegmentType) /\ sequenceNumber = Len(segments)
  BY DEF SenderInv, SenderTypes, SenderBits, SenderOrder
<1>2. PICK p, c :
           /\ PackedBits(p, bits, nettoBits) /\ PackedInOrder(p, bits) /\ p.pdus /= <<>>
           /\ c \in SegmentType /\ Fits(c) /\ c.sn = sequenceNumber /\ c.pdus = p.pdus /\ c.data = p.data
           /\ c.begin <=> frontSegmentSentBits = 0
           /\ c.end <=> p.sent = 0
           /\ segments' = Append(segments, c) /\ sequenceNumber' = sequenceNumber + 1
           /\ pduQueue' = p.queue /\ frontSegmentSentBits' = p.sent
           /\ nettoBits' = SizesOf(p.queue) - p.sent
           /\ nettoBits' = nettoBits - p.data
           /\ fixedOverhead' \in 0 .. FixedHeader
  BY <1>1, GrantMakes
<1>3. /\ offered' = offered /\ isSegmenting' = isSegmenting /\ senderPendingSegments' = senderPendingSegments
      /\ pduQueue /= <<>>
  BY DEF getHeadOfLinePDUSegment
<1>4. senderPendingSegments = <<>> /\ 1 .. Len(<<>>) = {}
  <2>1. senderPendingSegments = <<>>
    BY <1>1 DEF PendingFollows
  <2>2. 1 .. Len(<<>>) = {}
    OBVIOUS
  <2> QED BY <2>1, <2>2
<1> DEFINE l == Len(segments)
<1>5. /\ segments' \in Seq(SegmentType) /\ Len(segments') = l + 1 /\ segments' /= <<>> /\ l \in Nat
      /\ segments'[l + 1] = c /\ segments'[Len(segments')] = c
      /\ \A i \in 1 .. l : segments'[i] = segments[i]
      /\ \A i \in 1 .. Len(segments') : i \in 1 .. l \/ i = l + 1
      /\ 1 .. Len(segments') = 1 .. l \union {l + 1}
      /\ DOMAIN segments' = 1 .. Len(segments') /\ DOMAIN segments = 1 .. l
  BY <1>1, <1>2, OneMore
<1> HIDE DEF l
<1>6. /\ p.queue \in Seq(SDU) /\ p.sent \in Nat /\ p.data \in Nat /\ p.pdus \in Seq(SDU)
      /\ p.queue /= <<>> => p.sent < Size[p.queue[1]]
      /\ p.queue = <<>> => p.sent = 0
      /\ Ascending(p.queue) /\ Ascending(p.pdus)
  BY <1>2 DEF PackedBits, PackedInOrder, Packing
<1>7. ToSet(p.pdus) \union ToSet(p.queue) = ToSet(pduQueue) /\ p.pdus[1] = pduQueue[1]
  BY <1>2 DEF PackedInOrder
<1>8. ToSet(pduQueue) \subseteq Int /\ ToSet(p.pdus) \subseteq Int
  BY SMTT(20), <1>1, <1>6, SDUIsInt DEF ToSet, Contents
<1>9. pduQueue[1] \in ToSet(pduQueue) /\ \A y \in ToSet(pduQueue) : pduQueue[1] <= y
  <2>1. /\ ToSet(pduQueue) = {pduQueue[1]} \union ToSet(Tail(pduQueue))
    BY <1>1, <1>3, SetOfTail DEF Contents
  <2>2. \A y \in ToSet(Tail(pduQueue)) : pduQueue[1] < y
    <3>1. pduQueue \in Seq(Int)
      BY <1>1, SDUIsInt DEF Contents
    <3> QED BY <3>1, <1>1, <1>3, AscendingTail DEF Contents
  <2> QED BY <2>1, <2>2, <1>8
<1>10. SenderTypes'
  <2>1. Contents'
    BY <1>2, <1>6 DEF Contents
  <2>2. \A i \in 1 .. Len(segments') : segments'[i].sn = i - 1 /\ Fits(segments'[i])
    <3> TAKE i \in 1 .. Len(segments')
    <3>1. CASE i \in 1 .. l
      BY <3>1, <1>5 DEF SenderInv, SenderTypes, l
    <3>2. CASE i = l + 1
      BY <3>2, <1>1, <1>2, <1>5 DEF l
    <3> QED BY <3>1, <3>2, <1>5
  <2>3. sequenceNumber' = Len(segments')
    BY <1>1, <1>2, <1>5 DEF l
  <2> QED BY <2>1, <2>2, <2>3, <1>2, <1>3, <1>4, <1>5 DEF SenderInv, SenderTypes
<1>11. SenderBits'
  <2>1. Queued' = Queued
    <3>1. \A n : n \in Queued <=> \/ n \in SDU /\ n \in ToSet(pduQueue)
                                  \/ \E i \in 1 .. l : n \in ToSet(segments[i].pdus)
      BY <1>5 DEF Queued
    <3>2. \A n : n \in Queued' <=> \/ n \in SDU /\ n \in ToSet(p.queue)
                                   \/ \E i \in 1 .. Len(segments') : n \in ToSet(segments'[i].pdus)
      BY <1>2, <1>5 DEF Queued
    <3>3. \A n : (\E i \in 1 .. Len(segments') : n \in ToSet(segments'[i].pdus))
                   <=> n \in ToSet(p.pdus) \/ \E i \in 1 .. l : n \in ToSet(segments[i].pdus)
      <4> TAKE n
      <4>1. segments'[l + 1].pdus = p.pdus /\ l + 1 \in 1 .. Len(segments')
        BY <1>2, <1>5
      <4>2. \A i \in 1 .. l : i \in 1 .. Len(segments') /\ segments'[i].pdus = segments[i].pdus
        BY <1>5
      <4>3. \A i \in 1 .. Len(segments') : i \in 1 .. l \/ i = l + 1
        BY <1>5
      <4> QED BY <4>1, <4>2, <4>3, Zenon
    <3>4. \A n : n \in ToSet(pduQueue) <=> n \in ToSet(p.pdus) \/ n \in ToSet(p.queue)
      BY <1>7
    <3>5. \A n \in ToSet(p.pdus) : n \in SDU
      BY <1>6 DEF ToSet
    <3>6. \A n : n \in Queued <=> n \in Queued'
      BY <3>1, <3>2, <3>3, <3>4, <3>5, Zenon
    <3> QED BY <3>6
  <2>2. Weights' = Weights
    BY <2>1 DEF Weights
  <2>3. Total(DataOf(segments)) \in Nat /\ Total(DataOf(segments')) = Total(DataOf(segments)) + c.data
    BY <1>1, <1>2, DataOfAppend
  <2>4. Total(DataOf(segments)) + nettoBits = Total(Weights)
    BY DEF SenderInv, SenderBits
  <2>5. nettoBits \in Int
    <3>1. SizesOf(pduQueue) \in Nat
      BY <1>1, SizesOfType DEF Contents
    <3> QED BY <3>1, <1>1 DEF Contents
  <2>6. Total(DataOf(segments')) + nettoBits' = Total(Weights')
    BY <2>2, <2>3, <2>4, <2>5, <1>2, <1>6
  <2>7. nettoBits' = SizesOf(pduQueue') - frontSegmentSentBits'
    BY <1>2
  <2> QED BY <2>6, <2>7 DEF SenderBits, DataOf
<1>12. \A x \in ToSet(p.pdus), y \in ToSet(p.queue) :
         x <= y /\ (x = y => p.sent > 0 /\ x = p.pdus[Len(p.pdus)] /\ ~Completes(c, x))
  <2> TAKE x \in ToSet(p.pdus), y \in ToSet(p.queue)
  <2>1. x <= y /\ (x = y => p.sent > 0 /\ x = p.pdus[Len(p.pdus)])
    BY <1>2 DEF PackedInOrder
  <2>2. ASSUME x = y
        PROVE  ~Completes(c, x)
    <3>1. ~c.end
      BY <2>1, <2>2, <1>2, <1>6
    <3>2. ASSUME NEW j \in DOMAIN p.pdus, p.pdus[j] = x, j < Len(p.pdus)
          PROVE  FALSE
      <4>1. DOMAIN p.pdus = 1 .. Len(p.pdus) /\ Len(p.pdus) \in Nat
        BY <1>6
      <4>2. Len(p.pdus) \in DOMAIN p.pdus
        BY <3>2, <4>1
      <4>3. p.pdus[j] < p.pdus[Len(p.pdus)]
        BY <3>2, <4>2, <1>6 DEF Ascending
      <4>4. x < x /\ x \in Int
        BY <4>3, <3>2, <2>1, <2>2, <1>8
      <4> QED BY <4>4
    <3> QED BY <3>1, <3>2, <1>2 DEF Completes
  <2> QED BY <2>1, <2>2
<1>13. \A k \in 1 .. l : \A x \in ToSet(segments[k].pdus) :
         /\ x <= offered /\ x \in Int
         /\ \A y \in ToSet(pduQueue) : x <= y /\ (x = y => ~Completes(segments[k], x) /\ frontSegmentSentBits > 0)
  <2> TAKE k \in 1 .. l
  <2>1. ToSet(segments[k].pdus) \subseteq Int
    BY PdusOfSegments DEF SenderInv, l
  <2> QED BY <2>1, <1>1 DEF QueueFollows, l
<1>14. QueueFollows'
  <2>1. \A y \in ToSet(pduQueue') : y <= offered'
    BY <1>1, <1>2, <1>3, <1>7 DEF QueueFollows
  <2>2. ASSUME NEW k \in 1 .. l + 1, NEW x \in ToSet(segments'[k].pdus)
        PROVE  /\ x <= offered
               /\ \A y \in ToSet(p.queue) : x <= y /\ (x = y => ~Completes(segments'[k], x) /\ p.sent > 0)
    <3>1. CASE k \in 1 .. l
      <4>1. x \in ToSet(segments[k].pdus) /\ segments'[k] = segments[k]
        BY <2>2, <3>1, <1>5
      <4>2. x <= offered /\ x \in Int
        BY <3>1, <4>1, <1>13
      <4>3. ASSUME NEW y \in ToSet(p.queue)
            PROVE  x <= y /\ (x = y => ~Completes(segments[k], x) /\ p.sent > 0)
        <5>1. y \in ToSet(pduQueue) /\ y \in Int
          BY <1>7, <1>8
        <5>2. x <= y /\ (x = y => ~Completes(segments[k], x))
          BY <3>1, <4>1, <5>1, <1>13
        <5>3. x = y => p.sent > 0
          <6>1. x <= pduQueue[1] /\ pduQueue[1] <= y /\ pduQueue[1] \in Int
            BY <3>1, <4>1, <5>1, <1>8, <1>9, <1>13
          <6>2. x = y => y = p.pdus[1]
            BY <6>1, <4>2, <5>1, <1>7
          <6>3. p.pdus[1] \in ToSet(p.pdus)
            BY <1>2, <1>6, SetOfTail
          <6> QED BY <6>2, <6>3, <1>12
        <5> QED BY <5>2, <5>3
      <4> QED BY <4>1, <4>2, <4>3
    <3>2. CASE k = l + 1
      <4>1. x \in ToSet(p.pdus) /\ segments'[k] = c
        BY <2>2, <3>2, <1>2, <1>5
      <4>2. x <= offered
        BY <4>1, <1>1, <1>7 DEF QueueFollows
      <4> QED BY <4>1, <4>2, <1>12
    <3> QED BY <3>1, <3>2, <1>5
  <2>3. Broken' => pduQueue' /= <<>> /\ pduQueue'[1] = LastSent'
    <3>1. Broken' => ~c.end
      BY <1>5 DEF Broken
    <3>2. LastSent' = p.pdus[Len(p.pdus)]
      BY <1>2, <1>5 DEF LastSent
    <3>3. ~c.end => p.sent > 0
      BY <1>2, <1>6
    <3> QED BY <3>1, <3>2, <3>3, <1>2 DEF PackedInOrder
  <2>4. \A k \in 1 .. Len(segments') : \A x \in ToSet(segments'[k].pdus) :
          /\ x <= offered'
          /\ \A y \in ToSet(pduQueue') :
               x <= y /\ (x = y => ~Completes(segments'[k], x) /\ frontSegmentSentBits' > 0)
    <3>1. Len(segments') = l + 1 /\ offered' = offered /\ pduQueue' = p.queue /\ frontSegmentSentBits' = p.sent
      BY <1>2, <1>3, <1>5
    <3> QED BY <2>2, <3>1, Zenon
  <2>5. ~isSegmenting'
    BY <1>3
  <2> QED BY <2>1, <2>3, <2>4, <2>5, Zenon DEF QueueFollows
<1>15. PendingFollows'
  BY <1>3, <1>4 DEF PendingFollows
<1>16. Chained(segments)'
  <2>1. \A k \in 1 .. l : \A x \in ToSet(segments[k].pdus), y \in ToSet(c.pdus) :
           x <= y /\ (x = y => ~Completes(segments[k], x) /\ ~c.begin)
    <3> TAKE k \in 1 .. l
    <3> TAKE x \in ToSet(segments[k].pdus), y \in ToSet(c.pdus)
    <3>1. y \in ToSet(pduQueue)
      BY <1>2, <1>7
    <3>2. x <= y /\ (x = y => ~Completes(segments[k], x) /\ frontSegmentSentBits > 0)
      BY <3>1, <1>13
    <3> QED BY <3>2, <1>2
  <2>2. segments /= <<>> /\ ~segments[l].end => c.pdus[1] = segments[l].pdus[Len(segments[l].pdus)]
    BY <1>1, <1>2, <1>7 DEF QueueFollows, Broken, LastSent, l
  <2>3. Chained(Append(segments, c))
    BY <2>1, <2>2, <1>1, <1>2, <1>6, ChainAppend DEF l
  <2> QED BY <2>3, <1>2
<1> QED BY <1>10, <1>11, <1>14, <1>15, <1>16 DEF SenderInv, SenderOrder

(* The pieces that cover a length: the last one is neither empty nor longer
   than the others. *)
LEMMA PieceCountIs ==
  ASSUME NEW length \in Nat, length > 0
  PROVE  LET k == PieceCount(length)
         IN  k \in Nat /\ k >= 1 /\ (k - 1) * SegmentSize < length /\ length - (k - 1) * SegmentSize <= SegmentSize
<1> DEFINE x == length + SegmentSize - 1
           q == x \div SegmentSize
           e == (q - 1) * SegmentSize
<1>1. SegmentSize \in Nat /\ SegmentSize > 0
  BY UnitAssumption
<1>2. x \in Nat /\ x >= SegmentSize /\ x = length + SegmentSize - 1
  BY <1>1
<1> HIDE DEF x
<1>3. q \in Int /\ x >= q * SegmentSize /\ x < q * SegmentSize + SegmentSize
  BY <1>1, <1>2
<1> HIDE DEF q
<1>4. q >= 1
  <2> SUFFICES ASSUME q <= 0
               PROVE  FALSE
    BY <1>3
  <2>1. q * SegmentSize <= 0
    BY <1>1, <1>3
  <2>2. q * SegmentSize \in Int
    BY <1>1, <1>3
  <2> QED BY <2>1, <2>2, <1>1, <1>2, <1>3
<1>5. e = q * SegmentSize - SegmentSize /\ q * SegmentSize \in Int
  BY <1>1, <1>3
<1> HIDE DEF e
<1>6. e < length /\ length - e <= SegmentSize
  BY <1>1, <1>2, <1>3, <1>5
<1>7. PieceCount(length) = q
  BY DEF PieceCount, q, x
<1> QED BY <1>3, <1>4, <1>6, <1>7 DEF e

(* SegAndConcat cuts an SDU. *)
LEMMA CutKeeps ==
  ASSUME SenderInv, processOutgoing
  PROVE  SenderInv'
<1> DEFINE n == offered + 1
           length == Size[n] + LengthAddition
           last == PieceCount(length)
           pieces == [i \in 1 .. last |->
                        [sn |-> sequenceNumber + i - 1, begin |-> i = 1, end |-> i = last, pdus |-> <<n>>,
                         header |-> HeaderSize,
                         data |-> IF i = last THEN length - (last - 1) * SegmentSize ELSE SegmentSize,
                         padding |-> 0, requested |-> HeaderSize + SegmentSize]]
<1>1. /\ isSegmenting /\ n \in SDU /\ senderPendingSegments = <<>> /\ offered' = n
      /\ senderPendingSegments' = pieces
      /\ UNCHANGED <<pduQueue, frontSegmentSentBits, nettoBits, fixedOverhead, sequenceNumber, segments, isSegmenting>>
  BY DEF processOutgoing, segmentVars, hasCapacity
<1>2. offered \in Nat /\ offered < n /\ n \in 0 .. Len(Size)
  <2>1. SDU = 1 .. Len(Size) /\ Len(Size) \in Nat
    BY SizeAssumption DEF SDU
  <2> QED BY <2>1, <1>1 DEF SenderInv, SenderTypes
<1>3. /\ last \in Nat /\ last >= 1
      /\ (last - 1) * SegmentSize < length /\ length - (last - 1) * SegmentSize <= SegmentSize
      /\ length \in Nat /\ HeaderSize \in Nat /\ SegmentSize \in Nat
  <2>1. Size[n] \in Nat /\ Size[n] > 0
    BY <1>1, SizeType
  <2>2. length \in Nat /\ length > 0
    BY <2>1, UnitAssumption
  <2> HIDE DEF length
  <2> QED BY <2>2, PieceCountIs, UnitAssumption
<1> HIDE DEF n, length, last
<1> DEFINE tail == length - (last - 1) * SegmentSize
<1>4. tail \in Nat /\ tail <= SegmentSize
  <2> DEFINE e == (last - 1) * SegmentSize
  <2>1. e \in Int
    BY <1>3
  <2> HIDE DEF e
  <2> QED BY <2>1, <1>3 DEF e
<1> HIDE DEF tail
<1>5. sequenceNumber \in Nat /\ pduQueue = <<>> /\ ~Broken /\ Chained(segments)
      /\ QueueFollows
  BY <1>1 DEF SenderInv, SenderTypes, SenderOrder, QueueFollows, PendingFollows
<1>6. <<n>> \in Seq(SDU)
  BY <1>1
<1>7. \A i \in 1 .. last : /\ pieces[i] \in SegmentType
                           /\ pieces[i].sn = sequenceNumber + i - 1 /\ Fits(pieces[i])
                           /\ pieces[i].pdus = <<n>> /\ pieces[i].begin = (i = 1) /\ pieces[i].end = (i = last)
  <2> TAKE i \in 1 .. last
  <2> DEFINE d == IF i = last THEN tail ELSE SegmentSize
             c == pieces[i]
  <2>1. c = [sn |-> sequenceNumber + i - 1, begin |-> i = 1, end |-> i = last, pdus |-> <<n>>,
             header |-> HeaderSize, data |-> d, padding |-> 0, requested |-> HeaderSize + SegmentSize]
    BY DEF tail
  <2>2. d \in Nat /\ d <= SegmentSize
    BY <1>3, <1>4
  <2>3. sequenceNumber + i - 1 \in Nat /\ HeaderSize + SegmentSize \in Nat
    BY <1>3, <1>5
  <2> HIDE DEF c, d
  <2>4. c \in SegmentType
    BY <2>1, <2>2, <2>3, <1>3, <1>6 DEF SegmentType
  <2>5. Fits(c)
    BY <2>1, <2>2, <1>3 DEF Fits
  <2> QED BY <2>1, <2>4, <2>5 DEF c
<1>16. pieces = [i \in 1 .. last |-> pieces[i]]
  OBVIOUS
<1> HIDE DEF pieces
<1>8. /\ senderPendingSegments' \in Seq(SegmentType) /\ Len(senderPendingSegments') = last
      /\ senderPendingSegments' /= <<>>
      /\ \A i \in 1 .. last : senderPendingSegments'[i] = pieces[i]
  <2>1. senderPendingSegments' = pieces
    BY <1>1
  <2>2. \A i \in 1 .. last : pieces[i] \in SegmentType
    BY <1>7, Zenon
  <2>3. pieces \in Seq(SegmentType) /\ Len(pieces) = last
    BY <2>2, <1>3, <1>16
  <2>4. pieces /= <<>>
    BY <2>3, <1>3, EmptySeq
  <2> QED BY <2>1, <2>3, <2>4
<1>9. SenderTypes'
  <2>1. \A i \in 1 .. Len(senderPendingSegments') :
         senderPendingSegments'[i].sn = sequenceNumber' + i - 1 /\ Fits(senderPendingSegments'[i])
    BY <1>1, <1>7, <1>8
  <2> QED BY <2>1, <1>1, <1>2, <1>8 DEF SenderInv, SenderTypes, Contents
<1>10. SenderBits'
  BY <1>1 DEF SenderInv, SenderBits, Weights, Queued, DataOf
<1>11. \A k \in 1 .. Len(segments) : \A x \in ToSet(segments[k].pdus) : x \in Int /\ x <= offered /\ x < n /\ x /= n /\ x <= n
  <2> TAKE k \in 1 .. Len(segments)
  <2>1. ToSet(segments[k].pdus) \subseteq Int
    BY PdusOfSegments DEF SenderInv
  <2> TAKE x \in ToSet(segments[k].pdus)
  <2>2. x \in Int /\ x <= offered
    BY <2>1, <1>5 DEF QueueFollows
  <2> QED BY <2>2, <1>2
<1>12. Broken' = Broken /\ LastSent' = LastSent
  BY <1>1 DEF Broken, LastSent
<1>13. QueueFollows'
  <2>1. ToSet(<<>>) = {}
    BY DEF ToSet
  <2>2. \A k \in 1 .. Len(segments') : \A x \in ToSet(segments'[k].pdus) : x <= offered'
    BY <1>1, <1>11
  <2>3. pduQueue' = <<>> /\ isSegmenting'
    BY <1>1, <1>5
  <2> QED BY <2>1, <2>2, <2>3, <1>12, <1>5 DEF QueueFollows
<1>14. PendingFollows'
  <2>1. ASSUME NEW k \in 1 .. Len(segments)
        PROVE  ~Completes(segments[k], n)
    <3>1. n \notin ToSet(segments[k].pdus)
      BY <1>11
    <3> QED BY <3>1 DEF Completes, ToSet
  <2>2. \A i \in 1 .. last : /\ senderPendingSegments'[i].pdus = <<n>>
                             /\ senderPendingSegments'[i].end <=> i = last
                             /\ senderPendingSegments'[i].begin <=> i = 1
    BY ZenonT(30), <1>7, <1>8
  <2> QED BY <2>1, <2>2, <1>1, <1>5, <1>8, <1>11, <1>12 DEF PendingFollows
<1>15. Chained(segments)'
  BY <1>1, <1>5
<1> QED BY <1>9, <1>10, <1>13, <1>14, <1>15 DEF SenderInv, SenderOrder

(* A list of one SDU. *)
LEMMA OneOf ==
  ASSUME NEW x, NEW s, s = <<x>>
  PROVE  /\ ToSet(s) = {x} /\ Len(s) = 1 /\ s /= <<>> /\ s[1] = x /\ DOMAIN s = {1}
         /\ Ascending(s)
<1>1. Len(s) = 1 /\ s /= <<>> /\ s[1] = x
  OBVIOUS
<1>2. DOMAIN s = {1}
  OBVIOUS
<1>3. \A i, j \in {1} : ~(i < j)
  OBVIOUS
<1>4. Ascending(s)
  BY <1>2, <1>3 DEF Ascending
<1>5. ToSet(s) = {x}
  BY <1>1, <1>2 DEF ToSet
<1> QED BY <1>1, <1>2, <1>4, <1>5

(* SegAndConcat passes a segment down. *)
LEMMA PassDownKeeps ==
  ASSUME SenderInv, getSomethingToSend
  PROVE  SenderInv'
<1> DEFINE q == senderPendingSegments
           c == q[1]
           l == Len(segments)
           m == Len(q)
<1>1. /\ q /= <<>> /\ segments' = Append(segments, c) /\ sequenceNumber' = sequenceNumber + 1
      /\ senderPendingSegments' = Tail(q)
      /\ UNCHANGED <<offered, pduQueue, frontSegmentSentBits, nettoBits, fixedOverhead, isSegmenting>>
  BY DEF getSomethingToSend, queueVars
<1>2. /\ q \in Seq(SegmentType) /\ segments \in Seq(SegmentType) /\ sequenceNumber = l
      /\ QueueFollows /\ PendingFollows /\ Chained(segments)
  BY DEF SenderInv, SenderTypes, SenderOrder
<1>3. /\ Tail(q) \in Seq(SegmentType) /\ c \in SegmentType /\ m \in Nat /\ m > 0
      /\ Len(Tail(q)) = m - 1 /\ \A i \in 1 .. m - 1 : Tail(q)[i] = q[i + 1]
      /\ 1 \in 1 .. m
  <2>1. m \in Nat /\ m > 0
    BY <1>1, <1>2, EmptySeq
  <2> QED BY <2>1, <1>1, <1>2
<1>4. /\ segments' \in Seq(SegmentType) /\ Len(segments') = l + 1 /\ segments' /= <<>> /\ l \in Nat
      /\ segments'[l + 1] = c /\ segments'[Len(segments')] = c
      /\ \A i \in 1 .. l : segments'[i] = segments[i]
      /\ \A i \in 1 .. Len(segments') : i \in 1 .. l \/ i = l + 1
  BY <1>1, <1>2, <1>3, OneMore
<1> DEFINE one == <<offered>>
<1>15. /\ ToSet(one) = {offered} /\ Len(one) = 1 /\ one /= <<>> /\ one[1] = offered /\ DOMAIN one = {1}
       /\ Ascending(one)
  <2> HIDE DEF one
  <2>1. one = <<offered>>
    BY DEF one
  <2> QED BY <2>1, OneOf
<1>5. /\ isSegmenting /\ pduQueue = <<>>
      /\ \A k \in 1 .. l : ~Completes(segments[k], offered)
      /\ \A i \in 1 .. m : /\ q[i].pdus = one
                           /\ q[i].end <=> i = m
                           /\ q[i].begin => i = 1 /\ \A k \in 1 .. l : \A x \in ToSet(segments[k].pdus) : x < offered
      /\ Broken => LastSent = offered
  BY <1>1, <1>2 DEF QueueFollows, PendingFollows
<1>6. \A i \in 1 .. m : q[i].sn = sequenceNumber + i - 1 /\ Fits(q[i])
  BY DEF SenderInv, SenderTypes
<1>7. /\ c.pdus = one /\ (c.end <=> 1 = m)
      /\ c.begin => \A k \in 1 .. l : \A x \in ToSet(segments[k].pdus) : x < offered
      /\ c.sn = sequenceNumber /\ Fits(c)
  <2>1. sequenceNumber + 1 - 1 = sequenceNumber
    BY <1>2, <1>4
  <2> QED BY <2>1, <1>3, <1>5, <1>6
<1> HIDE DEF q, c, l, m, one
<1>9. offered \in Int /\ \A k \in 1 .. l : \A x \in ToSet(segments[k].pdus) : x \in Int /\ x <= offered
  <2>1. offered \in Int
    BY DEF SenderInv, SenderTypes
  <2> SUFFICES ASSUME NEW k \in 1 .. l
               PROVE  \A x \in ToSet(segments[k].pdus) : x \in Int /\ x <= offered
    BY <2>1
  <2>2. ToSet(segments[k].pdus) \subseteq Int
    BY PdusOfSegments DEF SenderInv, l
  <2> QED BY <2>2, <1>2 DEF QueueFollows, l
<1>10. SenderTypes'
  <2>1. \A i \in 1 .. Len(segments') : segments'[i].sn = i - 1 /\ Fits(segments'[i])
    <3> TAKE i \in 1 .. Len(segments')
    <3>1. CASE i \in 1 .. l
      BY <3>1, <1>4 DEF SenderInv, SenderTypes, l
    <3>2. CASE i = l + 1
      BY <3>2, <1>2, <1>4, <1>7
    <3> QED BY <3>1, <3>2, <1>4
  <2>2. \A i \in 1 .. Len(Tail(q)) : Tail(q)[i].sn = sequenceNumber' + i - 1 /\ Fits(Tail(q)[i])
    <3> TAKE i \in 1 .. Len(Tail(q))
    <3>1. i \in 1 .. m - 1 /\ i + 1 \in 1 .. m
      BY <1>3
    <3>2. q[i + 1].sn = sequenceNumber + (i + 1) - 1 /\ Fits(q[i + 1]) /\ Tail(q)[i] = q[i + 1]
      BY <3>1, <1>3, <1>6
    <3>3. sequenceNumber + (i + 1) - 1 = sequenceNumber' + i - 1
      BY <1>1, <1>2, <1>4
    <3> QED BY <3>2, <3>3
  <2>3. sequenceNumber' = Len(segments')
    BY <1>1, <1>2, <1>4
  <2> QED BY <2>1, <2>2, <2>3, <1>1, <1>3, <1>4 DEF SenderInv, SenderTypes, Contents
<1>11. SenderBits'
  <2>1. isSegmenting'
    BY <1>1, <1>5
  <2> QED BY <2>1, <1>1 DEF SenderInv, SenderBits
<1>12. QueueFollows'
  <2>1. ToSet(<<>>) = {}
    BY DEF ToSet
  <2>2. \A k \in 1 .. Len(segments') : \A x \in ToSet(segments'[k].pdus) : x <= offered'
    <3> TAKE k \in 1 .. Len(segments')
    <3>1. CASE k \in 1 .. l
      BY <3>1, <1>1, <1>4, <1>9
    <3>2. CASE k = l + 1
      BY <3>2, <1>1, <1>4, <1>7, <1>15, <1>9
    <3> QED BY <3>1, <3>2, <1>4
  <2>3. pduQueue' = <<>> /\ isSegmenting'
    BY <1>1, <1>5
  <2> QED BY <2>1, <2>2, <2>3 DEF QueueFollows
<1>13. PendingFollows'
  <2>1. ASSUME Tail(q) /= <<>>
        PROVE  m > 1 /\ \A k \in 1 .. Len(segments') : ~Completes(segments'[k], offered)
    <3>1. m > 1
      BY <2>1, <1>3, EmptySeq
    <3>2. ~c.end
      BY <3>1, <1>3, <1>7
    <3>3. ~Completes(c, offered)
      <4>1. DOMAIN c.pdus = {1} /\ Len(c.pdus) = 1
        BY <1>7, <1>15
      <4>2. ~(1 < 1)
        OBVIOUS
      <4> QED BY <4>1, <4>2, <3>2 DEF Completes
    <3>4. \A k \in 1 .. Len(segments') : ~Completes(segments'[k], offered)
      BY <3>3, <1>4, <1>5
    <3> QED BY <3>1, <3>4
  <2>2. \A i \in 1 .. Len(Tail(q)) : /\ Tail(q)[i].pdus = one
                                     /\ Tail(q)[i].end <=> i = Len(Tail(q))
                                     /\ ~Tail(q)[i].begin
    <3> TAKE i \in 1 .. Len(Tail(q))
    <3>1. i \in 1 .. m - 1 /\ i + 1 \in 1 .. m /\ i + 1 /= 1 /\ (i + 1 = m <=> i = m - 1)
      BY <1>3
    <3>2. Tail(q)[i] = q[i + 1] /\ Len(Tail(q)) = m - 1
      BY <3>1, <1>3
    <3> QED BY <3>1, <3>2, <1>5
  <2>3. Broken' => Tail(q) /= <<>> /\ LastSent' = offered
    <3>1. LastSent' = offered
      BY <1>4, <1>7, <1>15 DEF LastSent
    <3>2. Broken' => ~c.end
      BY <1>4 DEF Broken
    <3>3. ~c.end => Tail(q) /= <<>>
      <4>1. ~c.end => Len(Tail(q)) > 0
        BY <1>3, <1>7
      <4> QED BY <4>1
    <3> QED BY <3>1, <3>2, <3>3
  <2> QED BY <2>1, <2>2, <2>3, <1>1, <1>5 DEF PendingFollows, one
<1>14. Chained(segments)'
  <2>1. \A k \in 1 .. l : \A x \in ToSet(segments[k].pdus), y \in ToSet(c.pdus) :
           x <= y /\ (x = y => ~Completes(segments[k], x) /\ ~c.begin)
    <3> TAKE k \in 1 .. l
    <3> TAKE x \in ToSet(segments[k].pdus), y \in ToSet(c.pdus)
    <3>1. y = offered /\ x \in Int /\ x <= offered
      BY <1>7, <1>15, <1>9
    <3>2. c.begin => x < offered
      BY <1>7
    <3>3. c.begin => x /= offered
      BY <3>1, <3>2
    <3> QED BY <3>1, <3>3, <1>5
  <2>2. segments /= <<>> /\ ~segments[l].end => c.pdus[1] = segments[l].pdus[Len(segments[l].pdus)]
    BY <1>5, <1>7, <1>15 DEF Broken, LastSent, l
  <2>3. c.pdus /= <<>> /\ Ascending(c.pdus)
    BY <1>7, <1>15
  <2>4. Chained(Append(segments, c))
    BY <2>1, <2>2, <2>3, <1>2, <1>3, ChainAppend DEF l
  <2> QED BY <2>4, <1>1
<1> QED BY <1>10, <1>11, <1>12, <1>13, <1>14 DEF SenderInv, SenderOrder

-----------------------------------------------------------------------------
(* The sender as a whole.                                                  *)

(* The sender begins with nothing. *)
LEMMA InitSender == Init => SenderInv
<1> SUFFICES ASSUME Init
             PROVE  SenderInv
  OBVIOUS
<1>1. /\ offered = 0 /\ pduQueue = <<>> /\ frontSegmentSentBits = 0 /\ nettoBits = 0
      /\ fixedOverhead = FixedHeader /\ sequenceNumber = 0 /\ segments = <<>>
      /\ isSegmenting \in BOOLEAN /\ senderPendingSegments = <<>>
  BY DEF Init, QueueInit
<1>2. Len(Size) \in Nat /\ SDU = 1 .. Len(Size) /\ FixedHeader \in Nat
  BY SizeAssumption, BitsAssumption DEF SDU
<1> DEFINE none == <<>>
<1>3. /\ none \in Seq(SDU) /\ none \in Seq(SegmentType) /\ Len(none) = 0 /\ DOMAIN none = {} /\ ToSet(none) = {}
      /\ 1 .. Len(none) = {} /\ 1 .. Len(none) - 1 = {} /\ none = <<>>
  BY DEF ToSet
<1> HIDE DEF none
<1>4. pduQueue = none /\ segments = none /\ senderPendingSegments = none
  BY <1>1, <1>3
<1>5. SenderTypes
  <2>1. Ascending(pduQueue)
    BY <1>3, <1>4 DEF Ascending
  <2>2. Contents
    BY <2>1, <1>1, <1>3, <1>4 DEF Contents
  <2>3. 0 \in 0 .. Len(Size) /\ FixedHeader \in 0 .. FixedHeader
    BY <1>2
  <2> QED BY <2>2, <2>3, <1>1, <1>3, <1>4 DEF SenderTypes
<1>6. SenderBits
  <2>1. SizesOf(pduQueue) = 0
    BY <1>1, SizesOfEmpty
  <2>2. Queued = {}
    <3>1. \A n : n \notin Queued
      BY <1>3, <1>4 DEF Queued
    <3> QED BY <3>1
  <2>3. Total(DataOf(segments)) = 0
    <3>1. DataOf(segments) = <<>>
      BY <1>1 DEF DataOf
    <3> QED BY <3>1, TotalEmpty
  <2>4. Total(Weights) = 0
    <3> DEFINE g == [i \in 0 .. Len(Size) |-> 0]
               s == [n \in 1 .. Len(Size) |-> 0]
    <3>1. Weights = s
      BY <2>2, <1>2 DEF Weights
    <3>2. s \in Seq(Int) /\ Len(s) = Len(Size)
      BY <1>2
    <3>3. g[0] = 0 /\ g[Len(Size)] = 0 /\ \A i \in 1 .. Len(Size) : g[i] = 0 /\ g[i - 1] = 0 /\ s[i] = 0
      BY <1>2
    <3> HIDE DEF g, s
    <3>4. \A i \in 1 .. Len(s) : g[i] = g[i - 1] + s[i]
      BY <3>2, <3>3
    <3>5. Total(s) = g[Len(s)]
      BY <3>2, <3>3, <3>4, TotalIs
    <3> QED BY <3>1, <3>2, <3>3, <3>5
  <2> QED BY <2>1, <2>3, <2>4, <1>1 DEF SenderBits
<1>7. ~Broken
  BY <1>1 DEF Broken
<1>8. Chained(segments) /\ QueueFollows /\ PendingFollows
  BY <1>3, <1>4, <1>7 DEF Chained, QueueFollows, PendingFollows
<1> QED BY <1>5, <1>6, <1>8 DEF SenderInv, SenderOrder

(* Every step of the link keeps the invariant of the sender. *)
LEMMA SenderStep ==
  ASSUME ByteAlign = FALSE, SenderInv, [Next]_vars
  PROVE  SenderInv'
<1>1. fixedOverhead \in 0 .. FixedHeader /\ FixedHeader \in 0 .. FixedHeader
  BY BitsAssumption DEF SenderInv, SenderTypes
<1>2. CASE UNCHANGED <<queueVars, segmentVars, isSegmenting, senderPendingSegments>>
  BY <1>1, <1>2, FrameKeeps DEF queueVars, segmentVars
<1>3. CASE PutSDU
  <2>1. ~isSegmenting /\ (Put \/ PutDropped) /\ UNCHANGED <<isSegmenting, senderPendingSegments>>
    BY <1>3 DEF PutSDU, unitVars
  <2> QED BY <2>1, PutKeeps, PutDroppedKeeps
<1>4. CASE Grant
  <2>1. ~isSegmenting /\ UNCHANGED <<isSegmenting, senderPendingSegments>>
    BY <1>4 DEF Grant
  <2>2. PICK bits \in Requests : getHeadOfLinePDUSegment(bits)
    BY <1>4 DEF Grant
  <2> QED BY <2>1, <2>2, GrantKeeps
<1>5. CASE NewFrame
  <2>1. fixedOverhead' \in 0 .. FixedHeader
    BY <1>1, <1>5 DEF NewFrame, frameStarts
  <2>2. UNCHANGED <<offered, pduQueue, frontSegmentSentBits, nettoBits, segmentVars, isSegmenting,
                     senderPendingSegments>>
    BY <1>5 DEF NewFrame, frameStarts, unitVars
  <2> QED BY <2>1, <2>2, FrameKeeps
<1>6. CASE processOutgoing
  BY <1>6, CutKeeps
<1>7. CASE getSomethingToSend
  BY <1>7, PassDownKeeps
<1>8. CASE processIncoming \/ TReorderingExpires \/ Lose
  BY <1>2, <1>8 DEF processIncoming, TReorderingExpires, Lose
<1>9. CASE UNCHANGED vars
  BY <1>2, <1>9 DEF vars, unitVars
<1> QED BY <1>3, <1>4, <1>5, <1>6, <1>7, <1>8, <1>9 DEF Next

(* The invariant of the sender, be it the queue of the scheduler or the unit
   SegAndConcat: the types, the sums of bits, and the order of the SDUs in what
   was sent and in what still waits. *)
THEOREM SenderIsSound ==
  ASSUME ByteAlign = FALSE
  PROVE  Spec => []SenderInv
<1>1. SenderInv /\ [Next]_vars => SenderInv'
  BY SenderStep
<1> QED BY InitSender, <1>1, PTL DEF Spec

(* The sums of the invariant are those of the property. *)
LEMMA SenderHasBits == SenderInv => SegmentsCarryEveryBit
<1> SUFFICES ASSUME SenderInv
             PROVE  SegmentsCarryEveryBit
  OBVIOUS
<1>1. DOMAIN segments = 1 .. Len(segments)
  BY DEF SenderInv, SenderTypes
<1>2. \A i \in DOMAIN segments :
        segments[i].header + segments[i].data + segments[i].padding <= segments[i].requested
  BY <1>1 DEF SenderInv, SenderTypes, Fits
<1>3. pduQueue /= <<>> => frontSegmentSentBits < Size[Head(pduQueue)]
  BY DEF SenderInv, SenderTypes, Contents
<1> QED BY <1>2, <1>3 DEF SegmentsCarryEveryBit, SenderInv, SenderBits, DataOf, Weights

(* Every bit of the SDUs that were put is in exactly one segment or still
   announced, the front SDU is never sent as a whole and kept, and no segment is
   larger than what was asked for: the assertions of InnerQueue::retrieve. *)
THEOREM EveryBitIsCarried ==
  ASSUME ByteAlign = FALSE
  PROVE  Spec => []SegmentsCarryEveryBit
<1>1. Spec => []SenderInv
  BY SenderIsSound
<1> QED BY <1>1, SenderHasBits, PTL

(* What waits is announced with the headers it needs. *)
LEMMA SenderAnnounces ==
  ASSUME ByteAlign = FALSE, SenderInv
  PROVE  AnnouncedBitsSuffice
<1>1. Contents /\ fixedOverhead \in Nat /\ nettoBits = SizesOf(pduQueue) - frontSegmentSentBits
  BY BitsAssumption DEF SenderInv, SenderTypes, SenderBits
<1> QED BY <1>1, AnnouncedIsEnough DEF AnnouncedBitsSuffice

(* What InnerQueue::queuedBruttoBits announces is enough: one request for as
   many bits empties the queue, whatever was sent of its front SDU. *)
THEOREM AnnouncedIsGranted ==
  ASSUME ByteAlign = FALSE
  PROVE  Spec => []AnnouncedBitsSuffice
<1>1. Spec => []SenderInv
  BY SenderIsSound
<1>2. SenderInv => AnnouncedBitsSuffice
  BY SenderAnnounces
<1> QED BY <1>1, <1>2, PTL

-----------------------------------------------------------------------------
(* The reassembly buffer.  S are the segments sent, P the numbers of those
   that entered the window.                                                *)

Sent(S) == S \in Seq(SegmentType) /\ Chained(S) /\ \A i \in 1 .. Len(S) : S[i].sn = i - 1

CarriersIn(S, n) == {k \in 0 .. Len(S) - 1 : n \in ToSet(S[k + 1].pdus)}

(* What is left of a segment when SDUs are taken out at its front. *)
IsPartOf(c, w) ==
  /\ c.pdus /= <<>> /\ Ascending(c.pdus) /\ ToSet(c.pdus) \subseteq ToSet(w.pdus)
  /\ c.pdus[Len(c.pdus)] = w.pdus[Len(w.pdus)]
  /\ c.end = w.end

(* The buffer holds segments without a gap, all before the number next, and of
   an SDU with a piece in it no piece that was sent before. *)
Run(S, P, b, next) ==
  /\ b \in Seq(SegmentType) /\ next \in 0 .. Len(S)
  /\ \A i \in 1 .. Len(b) :
       /\ b[i].sn = b[1].sn + i - 1
       /\ b[i].sn \in P /\ b[i].sn < next
       /\ IsPartOf(b[i], S[b[i].sn + 1])
       /\ i > 1 => b[i] = S[b[i].sn + 1]
       /\ \A y \in ToSet(b[i].pdus) : \A k \in CarriersIn(S, y) : b[1].sn <= k

(* The SDUs with a piece in a list of segments. *)
Pieces(b) == UNION {ToSet(b[i].pdus) : i \in 1 .. Len(b)}

(* The SDUs of G went up whole, and before any with a piece in the buffer. *)
Up(S, P, b, G, next) ==
  \A n \in G :
    /\ \E k \in 1 .. Len(S) : k <= next /\ Completes(S[k], n)
    /\ CarriersIn(S, n) \subseteq P
    /\ \A y \in Pieces(b) : n < y

LEMMA PdusIn ==
  ASSUME NEW S \in Seq(SegmentType), NEW k \in 1 .. Len(S)
  PROVE  /\ S[k] \in SegmentType /\ S[k].pdus \in Seq(SDU) /\ S[k].pdus \in Seq(Int)
         /\ ToSet(S[k].pdus) \subseteq Int /\ ToSet(S[k].pdus) \subseteq SDU
         /\ S[k].sn \in Nat /\ S[k].end \in BOOLEAN
<1>1. S[k] \in SegmentType
  OBVIOUS
<1>2. S[k].pdus \in Seq(SDU) /\ S[k].sn \in Nat /\ S[k].end \in BOOLEAN
  BY <1>1 DEF SegmentType
<1> QED BY <1>1, <1>2, SDUIsInt DEF ToSet

(* An SDU that a segment completes is in no later one. *)
LEMMA NoneAfter ==
  ASSUME NEW S, Sent(S), NEW j \in 1 .. Len(S), NEW k \in 1 .. Len(S), NEW x \in ToSet(S[k].pdus),
         Completes(S[j], x)
  PROVE  k <= j
<1>1. Len(S) \in Nat
  BY DEF Sent
<1>2. x \in ToSet(S[j].pdus)
  BY DEF Completes, ToSet
<1>3. ~(j < k)
  BY <1>2 DEF Sent, Chained
<1> QED BY <1>1, <1>3

(* Of a part of a segment, every SDU but the last one is completed in it, and
   the last one too if the segment ends with it. *)
LEMMA PartCompletes ==
  ASSUME NEW c \in SegmentType, NEW w \in SegmentType, IsPartOf(c, w), NEW x \in ToSet(c.pdus),
         x /= c.pdus[Len(c.pdus)] \/ c.end
  PROVE  Completes(w, x)
<1>1. x \in ToSet(w.pdus)
  BY DEF IsPartOf
<1>2. w.pdus \in Seq(SDU)
  BY DEF SegmentType
<1>3. PICK j \in 1 .. Len(w.pdus) : w.pdus[j] = x
  BY <1>1, <1>2 DEF ToSet
<1>4. DOMAIN w.pdus = 1 .. Len(w.pdus) /\ Len(w.pdus) \in Nat
  BY <1>2
<1>5. j < Len(w.pdus) \/ w.end
  <2>1. CASE j = Len(w.pdus)
    <3>1. x = c.pdus[Len(c.pdus)]
      BY <2>1, <1>3 DEF IsPartOf
    <3> QED BY <3>1 DEF IsPartOf
  <2>2. CASE j /= Len(w.pdus)
    BY <2>2, <1>4
  <2> QED BY <2>1, <2>2
<1> QED BY <1>3, <1>4, <1>5 DEF Completes

(* Where the buffer stands in what was sent. *)
LEMMA RunPlaces ==
  ASSUME NEW S, Sent(S), NEW P, NEW next, NEW b, Run(S, P, b, next),
         NEW i \in 1 .. Len(b)
  PROVE  /\ 1 \in 1 .. Len(b) /\ b[1].sn \in Nat /\ b[1] \in SegmentType
         /\ b[i].sn \in Nat /\ b[i].sn + 1 \in 1 .. Len(S) /\ b[i].sn + 1 <= next
         /\ b[i].sn \in P
         /\ b[i] \in SegmentType /\ b[i].pdus \in Seq(SDU) /\ b[i].pdus \in Seq(Int)
         /\ ToSet(b[i].pdus) \subseteq Int /\ ToSet(b[i].pdus) \subseteq SDU
         /\ b[i].pdus /= <<>> /\ Ascending(b[i].pdus) /\ b[i].end \in BOOLEAN
         /\ S[b[i].sn + 1] \in SegmentType /\ IsPartOf(b[i], S[b[i].sn + 1])
         /\ ToSet(b[i].pdus) \subseteq ToSet(S[b[i].sn + 1].pdus)
<1>1. b \in Seq(SegmentType) /\ Len(b) \in Nat /\ 1 \in 1 .. Len(b)
  BY DEF Run
<1>2. /\ b[i] \in SegmentType /\ b[i].pdus \in Seq(SDU) /\ b[i].pdus \in Seq(Int)
      /\ ToSet(b[i].pdus) \subseteq Int /\ ToSet(b[i].pdus) \subseteq SDU
      /\ b[i].sn \in Nat /\ b[i].end \in BOOLEAN
  BY <1>1, PdusIn
<1>3. b[1].sn \in Nat /\ b[1] \in SegmentType
  BY <1>1, PdusIn
<1>4. b[i].sn = b[1].sn + i - 1 /\ b[i].sn \in P /\ b[i].sn < next /\ IsPartOf(b[i], S[b[i].sn + 1])
  BY DEF Run
<1>5. Len(S) \in Nat /\ S \in Seq(SegmentType) /\ next \in 0 .. Len(S)
  BY DEF Sent, Run
<1>6. b[i].sn + 1 \in 1 .. Len(S) /\ b[i].sn + 1 <= next
  BY <1>2, <1>4, <1>5
<1>7. S[b[i].sn + 1] \in SegmentType
  BY <1>5, <1>6
<1> QED BY <1>1, <1>2, <1>3, <1>4, <1>6, <1>7 DEF IsPartOf

(* The segments of the buffer are consecutive. *)
LEMMA RunNumbers ==
  ASSUME NEW S, NEW P, NEW next, NEW b, Run(S, P, b, next), NEW i \in 1 .. Len(b)
  PROVE  /\ Len(b) \in Nat /\ b[1].sn \in Nat /\ b[i].sn \in Nat /\ b[i].sn = b[1].sn + i - 1
         /\ i > 1 => b[i] = S[b[i].sn + 1]
         /\ \A y \in ToSet(b[i].pdus) : \A k \in CarriersIn(S, y) : b[1].sn <= k
<1>1. b \in Seq(SegmentType)
  BY DEF Run
<1>2. 1 \in 1 .. Len(b) /\ Len(b) \in Nat
  BY <1>1
<1>3. b[1].sn \in Nat /\ b[i].sn \in Nat
  BY <1>1, <1>2, PdusIn
<1> QED BY <1>2, <1>3 DEF Run

(* The pieces of the buffer stand in the order of the SDUs. *)
LEMMA RunInOrder ==
  ASSUME NEW S, Sent(S), NEW P, NEW next, NEW b, Run(S, P, b, next),
         NEW i \in 1 .. Len(b), NEW j \in 1 .. Len(b), i < j,
         NEW x \in ToSet(S[b[i].sn + 1].pdus), NEW y \in ToSet(b[j].pdus)
  PROVE  x \in Int /\ y \in Int /\ x <= y /\ (x = y => ~Completes(S[b[i].sn + 1], x))
<1>1. /\ b[i].sn + 1 \in 1 .. Len(S) /\ b[j].sn + 1 \in 1 .. Len(S)
      /\ b[i].sn = b[1].sn + i - 1 /\ b[j].sn = b[1].sn + j - 1 /\ b[1].sn \in Nat
      /\ y \in ToSet(S[b[j].sn + 1].pdus) /\ y \in Int /\ Len(b) \in Nat
  <2>1. b[i].sn + 1 \in 1 .. Len(S)
    BY RunPlaces
  <2>2. /\ b[j].sn + 1 \in 1 .. Len(S)
        /\ ToSet(b[j].pdus) \subseteq ToSet(S[b[j].sn + 1].pdus) /\ ToSet(b[j].pdus) \subseteq Int
    BY RunPlaces
  <2>3. b[i].sn = b[1].sn + i - 1 /\ b[j].sn = b[1].sn + j - 1 /\ Len(b) \in Nat /\ b[1].sn \in Nat
    BY SMTT(20), RunNumbers
  <2> QED BY <2>1, <2>2, <2>3
<1>2. b[i].sn + 1 < b[j].sn + 1
  BY <1>1
<1>3. x \in Int
  BY <1>1, PdusIn DEF Sent
<1> QED BY <1>1, <1>2, <1>3 DEF Sent, Chained

(* A segment sent before the e-th of the buffer carries nothing beyond what
   that one carries. *)
LEMMA RunBefore ==
  ASSUME NEW S, Sent(S), NEW P, NEW next, NEW b, Run(S, P, b, next),
         NEW e \in 1 .. Len(b), NEW y, NEW k \in CarriersIn(S, y), k < b[e].sn,
         NEW x \in ToSet(b[e].pdus)
  PROVE  k \in Int /\ y \in Int /\ x \in Int /\ y <= x
<1>1. b[e].sn + 1 \in 1 .. Len(S) /\ x \in ToSet(S[b[e].sn + 1].pdus) /\ x \in Int /\ b[e].sn \in Nat
  BY RunPlaces
<1>2. k \in 0 .. Len(S) - 1 /\ y \in ToSet(S[k + 1].pdus) /\ Len(S) \in Nat
  BY DEF CarriersIn, Sent
<1>3. k + 1 \in 1 .. Len(S) /\ k + 1 < b[e].sn + 1 /\ k \in Int
  <2> DEFINE g == b[e].sn
             l == Len(S)
  <2>1. g \in Nat /\ k < g /\ k \in 0 .. l - 1 /\ l \in Nat
    BY <1>1, <1>2
  <2> HIDE DEF g, l
  <2> QED BY <2>1 DEF g, l
<1>4. y <= x
  <2>1. \A j, m \in 1 .. Len(S) : j < m => \A u \in ToSet(S[j].pdus), v \in ToSet(S[m].pdus) : u <= v
    BY DEF Sent, Chained
  <2> QED BY <2>1, <1>1, <1>2, <1>3
<1>5. y \in Int
  BY <1>2, <1>3, PdusIn DEF Sent
<1> QED BY <1>1, <1>3, <1>4, <1>5

(* All segments that carry the SDU at the front of the buffer are in it once it
   is completed there. *)
LEMMA RunIsWhole ==
  ASSUME NEW S, Sent(S), NEW P, NEW next, NEW b, Run(S, P, b, next),
         NEW e \in 1 .. Len(b), NEW x \in ToSet(b[1].pdus), Completes(S[b[e].sn + 1], x)
  PROVE  CarriersIn(S, x) \subseteq P
<1> SUFFICES ASSUME NEW k \in CarriersIn(S, x)
             PROVE  k \in P
  OBVIOUS
<1>1. k \in 0 .. Len(S) - 1 /\ x \in ToSet(S[k + 1].pdus) /\ Len(S) \in Nat /\ Len(b) \in Nat
  BY DEF CarriersIn, Sent, Run
<1>2. b[1].sn <= k /\ b[1].sn \in Nat /\ b[e].sn + 1 \in 1 .. Len(S) /\ b[e].sn = b[1].sn + e - 1
  <2>1. 1 \in 1 .. Len(b)
    BY RunPlaces
  <2>2. b[1].sn <= k
    BY <2>1 DEF Run
  <2>3. b[1].sn \in Nat /\ b[e].sn = b[1].sn + e - 1
    BY RunNumbers
  <2>4. b[e].sn + 1 \in 1 .. Len(S)
    BY RunPlaces
  <2> QED BY <2>2, <2>3, <2>4
<1>3. k + 1 \in 1 .. Len(S)
  BY <1>1
<1>4. k + 1 <= b[e].sn + 1
  BY <1>1, <1>2, <1>3, NoneAfter
<1> DEFINE i == k - b[1].sn + 1
<1>5. i \in 1 .. Len(b) /\ k = b[1].sn + i - 1
  <2> DEFINE f == b[1].sn
             g == b[e].sn
             l == Len(b)
  <2>1. f \in Nat /\ g = f + e - 1 /\ f <= k /\ k + 1 <= g + 1 /\ k \in Int /\ l \in Nat /\ e \in 1 .. l
        /\ i = k - f + 1
    BY <1>1, <1>2, <1>4
  <2> HIDE DEF f, g, l, i
  <2>2. i \in 1 .. l /\ k = f + i - 1
    BY <2>1
  <2> QED BY <2>2 DEF f, l
<1> HIDE DEF i
<1>6. b[i].sn = k /\ b[i].sn \in P
  BY <1>5 DEF Run
<1> QED BY <1>6

(* What a segment is without its first SDU. *)
LEMMA BeheadedIs ==
  ASSUME NEW c \in SegmentType, Len(c.pdus) > 1
  PROVE  LET d == Beheaded(c)
         IN  /\ d \in SegmentType /\ d.pdus = Tail(c.pdus) /\ d.sn = c.sn /\ d.end = c.end
             /\ d.pdus \in Seq(SDU)
<1> DEFINE q == Tail(c.pdus)
<1>1. c.pdus \in Seq(SDU) /\ c.pdus /= <<>>
  BY DEF SegmentType
<1>2. q \in Seq(SDU)
  BY <1>1, SetOfTail
<1> HIDE DEF q
<1> DEFINE d == [c EXCEPT !.pdus = q, !.begin = TRUE]
<1>3. d \in SegmentType /\ d.pdus = q /\ d.sn = c.sn /\ d.end = c.end
  BY <1>2 DEF SegmentType
<1>4. d = Beheaded(c)
  BY DEF Beheaded, q
<1> QED BY <1>2, <1>3, <1>4 DEF q

(* A segment that ends with an SDU completes all it carries. *)
LEMMA EndCompletes ==
  ASSUME NEW w \in SegmentType, w.end, NEW x \in ToSet(w.pdus)
  PROVE  Completes(w, x)
<1>1. w.pdus \in Seq(SDU)
  BY DEF SegmentType
<1> QED BY <1>1 DEF Completes, ToSet

(* The buffer without the segments up to one that ends with an SDU. *)
LEMMA DropKeepsRun ==
  ASSUME NEW S, Sent(S), NEW P, NEW next, NEW b, Run(S, P, b, next),
         NEW e \in 1 .. Len(b), b[e].end,
         NEW t \in Seq(SegmentType), Len(t) = Len(b) - e, \A i \in 1 .. Len(t) : t[i] = b[e + i]
  PROVE  Run(S, P, t, next)
<1>1. /\ b[e].sn + 1 \in 1 .. Len(S) /\ S[b[e].sn + 1] \in SegmentType /\ IsPartOf(b[e], S[b[e].sn + 1])
      /\ b[e] \in SegmentType /\ b[e].pdus \in Seq(SDU) /\ b[e].pdus /= <<>>
      /\ ToSet(b[e].pdus) \subseteq ToSet(S[b[e].sn + 1].pdus)
  <2>1. b[e].sn + 1 \in 1 .. Len(S) /\ S[b[e].sn + 1] \in SegmentType
    BY RunPlaces
  <2>2. IsPartOf(b[e], S[b[e].sn + 1]) /\ ToSet(b[e].pdus) \subseteq ToSet(S[b[e].sn + 1].pdus)
    BY RunPlaces
  <2>3. b[e] \in SegmentType /\ b[e].pdus \in Seq(SDU) /\ b[e].pdus /= <<>>
    BY RunPlaces
  <2> QED BY <2>1, <2>2, <2>3
<1>2. b[e].sn = b[1].sn + e - 1 /\ b[1].sn \in Nat /\ Len(b) \in Nat
  BY SMTT(20), RunNumbers
<1> DEFINE z == b[e].pdus[1]
           w == S[b[e].sn + 1]
<1>3. z \in ToSet(b[e].pdus) /\ z \in ToSet(w.pdus) /\ Completes(w, z) /\ w.end
  <2>1. z \in ToSet(b[e].pdus)
    BY <1>1, SetOfTail
  <2>2. Completes(w, z)
    BY <2>1, <1>1, PartCompletes
  <2> QED BY <2>1, <2>2, <1>1 DEF IsPartOf
<1> SUFFICES ASSUME NEW i \in 1 .. Len(t)
             PROVE  /\ t[i].sn = t[1].sn + i - 1
                    /\ t[i].sn \in P /\ t[i].sn < next
                    /\ IsPartOf(t[i], S[t[i].sn + 1])
                    /\ i > 1 => t[i] = S[t[i].sn + 1]
                    /\ \A y \in ToSet(t[i].pdus) : \A k \in CarriersIn(S, y) : t[1].sn <= k
  BY DEF Run
<1> DEFINE j == e + i
<1>4. j \in 1 .. Len(b) /\ e < j /\ j > 1 /\ t[i] = b[j] /\ e + 1 \in 1 .. Len(b) /\ t[1] = b[e + 1]
  <2>1. t[i] = b[j] /\ (1 \in 1 .. Len(t) => t[1] = b[e + 1])
    OBVIOUS
  <2> DEFINE l == Len(b)
  <2>2. l \in Nat /\ e \in 1 .. l /\ Len(t) = l - e /\ i \in 1 .. l - e
    BY <1>2
  <2> HIDE DEF l
  <2>3. j \in 1 .. l /\ e < j /\ j > 1 /\ e + 1 \in 1 .. l /\ 1 \in 1 .. Len(t)
    BY <2>2
  <2> QED BY <2>1, <2>3 DEF l
<1>5. b[j].sn = b[1].sn + j - 1 /\ b[e + 1].sn = b[1].sn + (e + 1) - 1
      /\ b[j] = S[b[j].sn + 1]
  <2>1. \A m \in 1 .. Len(b) : b[m].sn = b[1].sn + m - 1 /\ (m > 1 => b[m] = S[b[m].sn + 1])
    BY DEF Run
  <2> DEFINE n == e + 1
  <2>2. n \in 1 .. Len(b)
    BY <1>4
  <2> HIDE DEF j, n
  <2>3. b[j].sn = b[1].sn + j - 1 /\ b[j] = S[b[j].sn + 1] /\ b[n].sn = b[1].sn + n - 1
    BY <2>1, <2>2, <1>4
  <2> QED BY <2>3 DEF n
<1>6. b[j].sn \in P /\ b[j].sn < next /\ IsPartOf(b[j], S[b[j].sn + 1])
  BY <1>4 DEF Run
<1>7. b[j].sn = b[e + 1].sn + i - 1 /\ b[e + 1].sn = b[e].sn + 1
  <2> DEFINE f == b[1].sn
             g == b[j].sn
             h == b[e + 1].sn
             l == b[e].sn
  <2>1. f \in Nat /\ g = f + (e + i) - 1 /\ h = f + (e + 1) - 1 /\ l = f + e - 1
    BY <1>2, <1>5
  <2>2. e \in Int /\ i \in Int
    BY <1>2
  <2> HIDE DEF f, g, h, l
  <2>3. g = h + i - 1 /\ h = l + 1
    BY <2>1, <2>2
  <2> QED BY <2>3 DEF g, h, l
<1>8. ASSUME NEW y \in ToSet(b[j].pdus), NEW k \in CarriersIn(S, y)
      PROVE  b[e].sn + 1 <= k
  <2>1. k \in 0 .. Len(S) - 1 /\ y \in ToSet(S[k + 1].pdus) /\ Len(S) \in Nat /\ b[e].sn \in Nat
    <3>1. b[e].sn \in Nat
      BY RunNumbers
    <3> QED BY <3>1 DEF CarriersIn, Sent
  <2>2. z \in Int /\ y \in Int /\ z <= y /\ z /= y
    <3> HIDE DEF j, z
    <3> QED BY ZenonT(30), <1>3, <1>4, <1>8, RunInOrder DEF w
  <2>3. k /= b[e].sn
    <3> SUFFICES ASSUME k = b[e].sn
                 PROVE  FALSE
      OBVIOUS
    <3>1. y \in ToSet(w.pdus)
      BY <2>1
    <3>2. Completes(w, y)
      BY <3>1, <1>1, <1>3, EndCompletes
    <3> HIDE DEF j
    <3>3. ~Completes(w, y)
      BY <3>1, <1>4, <1>8, RunInOrder DEF w
    <3> QED BY <3>2, <3>3
  <2>4. ~(k < b[e].sn)
    <3> SUFFICES ASSUME k < b[e].sn
                 PROVE  FALSE
      OBVIOUS
    <3> HIDE DEF z
    <3>1. y <= z
      BY <1>3, <1>8, RunBefore
    <3> QED BY <3>1, <2>2
  <2> DEFINE g == b[e].sn
  <2>5. k \in Int /\ g \in Nat /\ k /= g /\ ~(k < g)
    BY <2>1, <2>3, <2>4
  <2> HIDE DEF g
  <2>6. g + 1 <= k
    BY <2>5
  <2> QED BY <2>6 DEF g
<1> HIDE DEF j
<1> QED BY <1>4, <1>5, <1>6, <1>7, <1>8

(* The buffer from a segment on of which the first SDU is taken out. *)
LEMMA BeheadKeepsRun ==
  ASSUME NEW S, Sent(S), NEW P, NEW next, NEW b, Run(S, P, b, next),
         NEW e \in 1 .. Len(b), Len(b[e].pdus) > 1,
         NEW t \in Seq(SegmentType), Len(t) = Len(b) - e + 1, t[1] = Beheaded(b[e]),
         \A i \in 2 .. Len(t) : t[i] = b[e + i - 1]
  PROVE  Run(S, P, t, next)
<1>1. /\ b[e].sn + 1 \in 1 .. Len(S) /\ S[b[e].sn + 1] \in SegmentType /\ IsPartOf(b[e], S[b[e].sn + 1])
      /\ b[e] \in SegmentType /\ b[e].pdus \in Seq(SDU) /\ b[e].pdus \in Seq(Int) /\ b[e].pdus /= <<>>
      /\ Ascending(b[e].pdus) /\ ToSet(b[e].pdus) \subseteq Int
      /\ ToSet(b[e].pdus) \subseteq ToSet(S[b[e].sn + 1].pdus)
  <2>1. /\ b[e].sn + 1 \in 1 .. Len(S) /\ S[b[e].sn + 1] \in SegmentType /\ IsPartOf(b[e], S[b[e].sn + 1])
        /\ b[e] \in SegmentType /\ b[e].pdus \in Seq(SDU) /\ b[e].pdus /= <<>>
        /\ ToSet(b[e].pdus) \subseteq ToSet(S[b[e].sn + 1].pdus)
    <3>1. b[e].sn + 1 \in 1 .. Len(S) /\ S[b[e].sn + 1] \in SegmentType /\ IsPartOf(b[e], S[b[e].sn + 1])
      BY RunPlaces
    <3>2. b[e] \in SegmentType /\ b[e].pdus \in Seq(SDU) /\ b[e].pdus /= <<>>
      BY RunPlaces
    <3> QED BY <3>1, <3>2 DEF IsPartOf
  <2>2. b[e].pdus \in Seq(Int) /\ ToSet(b[e].pdus) \subseteq Int
    BY <2>1, SDUIsInt DEF ToSet
  <2>3. Ascending(b[e].pdus)
    BY <2>1 DEF IsPartOf
  <2> QED BY <2>1, <2>2, <2>3
<1>2. b[e].sn = b[1].sn + e - 1 /\ b[1].sn \in Nat /\ b[e].sn \in Nat /\ Len(b) \in Nat
  BY RunNumbers
<1>3. b[e].sn \in P /\ b[e].sn < next
  BY DEF Run
<1> DEFINE x == b[e].pdus[1]
           q == Tail(b[e].pdus)
           w == S[b[e].sn + 1]
<1>4. /\ t[1] \in SegmentType /\ t[1].pdus = q /\ t[1].sn = b[e].sn /\ t[1].end = b[e].end
      /\ Len(t) \in Nat /\ 1 \in 1 .. Len(t)
  <2>1. LET d == Beheaded(b[e]) IN d \in SegmentType /\ d.pdus = q /\ d.sn = b[e].sn /\ d.end = b[e].end
    BY <1>1, BeheadedIs
  <2>2. Len(t) \in Nat /\ 1 \in 1 .. Len(t)
    BY <1>2
  <2> QED BY <2>1, <2>2
<1>5. /\ x \in ToSet(b[e].pdus) /\ x \in Int /\ q /= <<>> /\ q[Len(q)] = b[e].pdus[Len(b[e].pdus)]
      /\ ToSet(q) \subseteq ToSet(b[e].pdus) /\ q \in Seq(SDU)
  <2>1. x \in ToSet(b[e].pdus) /\ q /= <<>> /\ q[Len(q)] = b[e].pdus[Len(b[e].pdus)]
        /\ ToSet(q) \subseteq ToSet(b[e].pdus) /\ q \in Seq(SDU)
    BY <1>1, SetOfTail
  <2> QED BY <2>1, <1>1
<1>6. Ascending(q) /\ \A y \in ToSet(q) : x < y
  BY <1>1, AscendingTail
<1>7. IsPartOf(t[1], w)
  BY <1>1, <1>4, <1>5, <1>6 DEF IsPartOf
<1> DEFINE z == q[1]
<1>8. z \in ToSet(q) /\ z \in ToSet(b[e].pdus) /\ z \in ToSet(w.pdus) /\ z \in Int /\ x < z
  <2>1. z \in ToSet(q)
    BY <1>5, SetOfTail
  <2> QED BY <2>1, <1>1, <1>5, <1>6
<1>9. ASSUME NEW y \in Int, x < y, NEW k \in CarriersIn(S, y)
      PROVE  b[e].sn <= k
  <2>1. k \in 0 .. Len(S) - 1 /\ Len(S) \in Nat
    BY DEF CarriersIn, Sent
  <2>2. ~(k < b[e].sn)
    <3> SUFFICES ASSUME k < b[e].sn
                 PROVE  FALSE
      OBVIOUS
    <3> HIDE DEF x
    <3>1. y <= x
      BY <1>5, <1>9, RunBefore
    <3> QED BY <3>1, <1>5, <1>9
  <2> QED BY <2>1, <2>2, <1>2
<1> SUFFICES ASSUME NEW i \in 1 .. Len(t)
             PROVE  /\ t[i].sn = t[1].sn + i - 1
                    /\ t[i].sn \in P /\ t[i].sn < next
                    /\ IsPartOf(t[i], S[t[i].sn + 1])
                    /\ i > 1 => t[i] = S[t[i].sn + 1]
                    /\ \A y \in ToSet(t[i].pdus) : \A k \in CarriersIn(S, y) : t[1].sn <= k
  BY DEF Run
<1>10. CASE i = 1
  <2>1. \A y \in ToSet(t[1].pdus) : \A k \in CarriersIn(S, y) : t[1].sn <= k
    <3> HIDE DEF x, q
    <3> QED BY <1>1, <1>4, <1>5, <1>6, <1>9
  <2>2. t[1].sn = t[1].sn + 1 - 1
    BY <1>2, <1>4
  <2> QED BY <2>1, <2>2, <1>3, <1>4, <1>7, <1>10
<1>11. CASE i > 1
  <2> DEFINE j == e + i - 1
  <2>1. j \in 1 .. Len(b) /\ e < j /\ j > 1 /\ t[i] = b[j]
    <3>1. i \in 2 .. Len(t) /\ i \in Int /\ e \in Int /\ e >= 1 /\ i <= Len(b) - e + 1 /\ Len(b) \in Int
      BY <1>2, <1>4, <1>11
    <3>2. t[i] = b[j]
      BY <3>1
    <3>3. j \in 1 .. Len(b) /\ e < j /\ j > 1
      BY <3>1
    <3> QED BY <3>2, <3>3
  <2>2. j = e + i - 1 /\ e \in Int /\ i \in Int
    BY <1>2, <1>4
  <2> HIDE DEF j
  <2>3. b[j].sn = b[1].sn + j - 1 /\ b[j].sn \in Nat /\ b[j] = S[b[j].sn + 1]
    BY <2>1, RunNumbers
  <2>4. b[j].sn \in P /\ b[j].sn < next /\ IsPartOf(b[j], S[b[j].sn + 1])
    BY <2>1 DEF Run
  <2>5. b[j].sn = t[1].sn + i - 1
    <3> DEFINE f == b[1].sn
               g == b[j].sn
               h == t[1].sn
    <3>1. f \in Int /\ g = f + j - 1 /\ h = f + e - 1
      BY <2>3, <1>2, <1>4
    <3> HIDE DEF f, g, h
    <3>2. g = h + i - 1
      BY <3>1, <2>2
    <3> QED BY <3>2 DEF g, h
  <2>6. ASSUME NEW y \in ToSet(b[j].pdus), NEW k \in CarriersIn(S, y)
        PROVE  b[e].sn <= k
    <3> HIDE DEF z, x, w
    <3>1. y \in Int /\ z <= y
      BY <1>8, <2>1, <2>6, RunInOrder DEF w
    <3>2. x < y
      BY <3>1, <1>5, <1>8
    <3> QED BY <3>1, <3>2, <1>9
  <2> QED BY <2>1, <2>3, <2>4, <2>5, <2>6, <1>4
<1> QED BY <1>10, <1>11

(* Behind a segment that ends with an SDU stand later SDUs. *)
LEMMA DropPasses ==
  ASSUME NEW S, Sent(S), NEW P, NEW next, NEW b, Run(S, P, b, next),
         NEW e \in 1 .. Len(b), b[e].end,
         NEW t \in Seq(SegmentType), Len(t) = Len(b) - e, \A i \in 1 .. Len(t) : t[i] = b[e + i],
         NEW x \in ToSet(S[b[e].sn + 1].pdus), NEW y \in Pieces(t)
  PROVE  x < y /\ y \in Pieces(b)
<1>1. PICK i \in 1 .. Len(t) : y \in ToSet(t[i].pdus)
  BY DEF Pieces
<1> DEFINE j == e + i
<1>2. j \in 1 .. Len(b) /\ e < j /\ t[i] = b[j]
  <2>1. t[i] = b[j]
    OBVIOUS
  <2> DEFINE l == Len(b)
  <2>2. l \in Nat /\ e \in 1 .. l /\ Len(t) = l - e /\ i \in 1 .. l - e
    BY DEF Run
  <2> HIDE DEF l
  <2>3. j \in 1 .. l /\ e < j
    BY <2>2
  <2> QED BY <2>1, <2>3 DEF l
<1> HIDE DEF j
<1>3. x \in Int /\ y \in Int /\ x <= y /\ (x = y => ~Completes(S[b[e].sn + 1], x))
  <2>1. y \in ToSet(b[j].pdus) /\ x \in ToSet(S[b[e].sn + 1].pdus) /\ j \in 1 .. Len(b) /\ e < j
    BY <1>1, <1>2
  <2> QED BY <2>1, RunInOrder
<1>4. Completes(S[b[e].sn + 1], x)
  <2>1. S[b[e].sn + 1] \in SegmentType /\ IsPartOf(b[e], S[b[e].sn + 1])
    BY RunPlaces
  <2> QED BY <2>1, EndCompletes DEF IsPartOf
<1>5. x < y
  BY <1>3, <1>4
<1> QED BY <1>1, <1>2, <1>5 DEF Pieces

(* The first of several SDUs of a segment ends in it. *)
LEMMA FirstCompletes ==
  ASSUME NEW S, Sent(S), NEW P, NEW next, NEW b, Run(S, P, b, next),
         NEW e \in 1 .. Len(b), Len(b[e].pdus) > 1
  PROVE  Completes(S[b[e].sn + 1], b[e].pdus[1])
<1>1. S[b[e].sn + 1] \in SegmentType /\ IsPartOf(b[e], S[b[e].sn + 1])
  BY RunPlaces
<1>2. b[e] \in SegmentType /\ b[e].pdus \in Seq(SDU) /\ b[e].pdus /= <<>>
  BY RunPlaces
<1> DEFINE q == b[e].pdus
<1>3. q \in Seq(Int) /\ Ascending(q) /\ Len(q) > 1
  BY <1>1, <1>2, SDUIsInt DEF IsPartOf
<1>4. 1 \in DOMAIN q /\ Len(q) \in DOMAIN q /\ q[1] \in Int /\ q[Len(q)] \in Int
  BY <1>3
<1>5. q[1] < q[Len(q)]
  BY <1>3, <1>4 DEF Ascending
<1>6. q[1] \in ToSet(q) /\ q[1] /= q[Len(q)]
  BY <1>4, <1>5 DEF ToSet
<1> QED BY <1>1, <1>2, <1>6, PartCompletes

(* Behind the first of several SDUs of a segment stand later SDUs. *)
LEMMA BeheadPasses ==
  ASSUME NEW S, Sent(S), NEW P, NEW next, NEW b, Run(S, P, b, next),
         NEW e \in 1 .. Len(b), Len(b[e].pdus) > 1,
         NEW t \in Seq(SegmentType), Len(t) = Len(b) - e + 1, t[1] = Beheaded(b[e]),
         \A i \in 2 .. Len(t) : t[i] = b[e + i - 1],
         NEW y \in Pieces(t)
  PROVE  b[e].pdus[1] < y /\ y \in Pieces(b)
<1> DEFINE x == b[e].pdus[1]
<1>1. PICK i \in 1 .. Len(t) : y \in ToSet(t[i].pdus)
  BY DEF Pieces
<1>2. b[e] \in SegmentType /\ b[e].pdus \in Seq(SDU) /\ b[e].pdus /= <<>>
  BY RunPlaces
<1>3. ToSet(b[e].pdus) \subseteq ToSet(S[b[e].sn + 1].pdus) /\ IsPartOf(b[e], S[b[e].sn + 1])
  BY RunPlaces
<1>4. b[e].pdus \in Seq(Int) /\ Ascending(b[e].pdus)
  BY <1>2, <1>3, SDUIsInt DEF IsPartOf
<1>5. ToSet(b[e].pdus) = {x} \union ToSet(Tail(b[e].pdus))
  BY <1>2, SetOfTail
<1>6. CASE i = 1
  <2>1. y \in ToSet(Tail(b[e].pdus))
    BY <1>1, <1>2, <1>6, BeheadedIs
  <2>2. x < y
    BY <2>1, <1>2, <1>4, AscendingTail
  <2> QED BY <2>1, <2>2, <1>5 DEF Pieces
<1>7. CASE i /= 1
  <2> DEFINE j == e + i - 1
  <2>1. j \in 1 .. Len(b) /\ e < j /\ t[i] = b[j]
    <3> DEFINE l == Len(b)
    <3>1. l \in Nat /\ e \in 1 .. l /\ Len(t) = l - e + 1 /\ i \in 1 .. l - e + 1
      BY DEF Run
    <3> HIDE DEF l
    <3>2. j \in 1 .. l /\ e < j /\ i \in 2 .. Len(t)
      BY <3>1, <1>7
    <3> QED BY <3>2 DEF l
  <2> HIDE DEF j
  <2>2. x \in ToSet(S[b[e].sn + 1].pdus)
    BY <1>3, <1>5
  <2>3. x \in Int /\ y \in Int /\ x <= y /\ (x = y => ~Completes(S[b[e].sn + 1], x))
    <3> HIDE DEF x
    <3> QED BY <2>1, <2>2, <1>1, RunInOrder
  <2>4. Completes(S[b[e].sn + 1], x)
    BY FirstCompletes
  <2>5. x < y
    BY <2>3, <2>4
  <2> QED BY <2>1, <2>5, <1>1 DEF Pieces
<1> QED BY <1>6, <1>7

(* As long as no SDU ends, the segments of the buffer carry one SDU. *)
LEMMA ChainInBuffer ==
  ASSUME NEW S, Sent(S), NEW P, NEW next, NEW b, Run(S, P, b, next),
         NEW e \in 1 .. Len(b), \A i \in 1 .. e - 1 : ~b[i].end /\ Len(b[i].pdus) = 1
  PROVE  b[e].pdus[1] = b[1].pdus[1]
<1> DEFINE T == {i \in 1 .. e : b[i].pdus[1] /= b[1].pdus[1]}
<1>1. Len(b) \in Nat /\ e \in Nat
  BY DEF Run
<1>2. T \in SUBSET Nat
  BY <1>1
<1>3. SUFFICES ASSUME T /= {}
               PROVE  FALSE
  BY <1>1
<1>4. PICK m \in T : \A i \in T : m <= i
  BY <1>2, <1>3, LeastElement
<1> DEFINE k == m - 1
<1>5. m \in 1 .. e /\ m /= 1 /\ b[m].pdus[1] /= b[1].pdus[1]
  BY <1>4
<1>6. k \in 1 .. e - 1 /\ k \in 1 .. e /\ k \in 1 .. Len(b) /\ m \in 1 .. Len(b) /\ ~(m <= k) /\ m > 1 /\ m = k + 1
  BY <1>1, <1>5
<1>7. \A i \in 1 .. e : i \notin T => b[i].pdus[1] = b[1].pdus[1]
  OBVIOUS
<1> HIDE DEF T, k
<1>8. b[k].pdus[1] = b[1].pdus[1]
  BY <1>4, <1>6, <1>7
<1>9. ~b[k].end /\ Len(b[k].pdus) = 1
  BY <1>6
<1> DEFINE n == b[k].sn + 1
<1>10. n \in 1 .. Len(S) /\ IsPartOf(b[k], S[n]) /\ S[n] \in SegmentType
  BY <1>6, RunPlaces
<1>11. b[m].sn + 1 \in 1 .. Len(S)
  BY <1>6, RunPlaces
<1>12. b[k].sn = b[1].sn + k - 1 /\ b[m].sn = b[1].sn + m - 1 /\ b[m] = S[b[m].sn + 1]
  <2>1. \A i \in 1 .. Len(b) : b[i].sn = b[1].sn + i - 1 /\ (i > 1 => b[i] = S[b[i].sn + 1])
    BY DEF Run
  <2> QED BY <2>1, <1>6
<1>13. b[m].sn + 1 = n + 1
  <2> DEFINE f == b[1].sn
             g == b[k].sn
             h == b[m].sn
  <2>1. f \in Nat
    BY <1>6, RunNumbers
  <2>2. g = f + k - 1 /\ h = f + m - 1 /\ n = g + 1 /\ k \in Int
    BY <1>1, <1>6, <1>12
  <2> HIDE DEF f, g, h, n
  <2>3. h + 1 = n + 1
    BY <2>1, <2>2, <1>6
  <2> QED BY <2>3 DEF h
<1> HIDE DEF n
<1>14. n \in 1 .. Len(S) - 1
  BY <1>10, <1>11, <1>13 DEF Sent
<1>15. ~S[n].end /\ S[n].pdus[Len(S[n].pdus)] = b[k].pdus[1]
  BY <1>9, <1>10 DEF IsPartOf
<1>16. S[n + 1].pdus[1] = S[n].pdus[Len(S[n].pdus)]
  BY <1>14, <1>15 DEF Sent, Chained
<1> QED BY <1>5, <1>8, <1>12, <1>13, <1>15, <1>16

LEMMA ConsIs ==
  ASSUME NEW T, NEW c \in T, NEW s \in Seq(T)
  PROVE  LET t == <<c>> \o s
         IN  /\ t \in Seq(T) /\ Len(t) = Len(s) + 1 /\ t[1] = c
             /\ \A i \in 2 .. Len(t) : t[i] = s[i - 1]
<1> DEFINE one == <<c>>
<1>1. one \in Seq(T) /\ Len(one) = 1 /\ one[1] = c
  OBVIOUS
<1> HIDE DEF one
<1>2. one \o s \in Seq(T) /\ Len(one \o s) = Len(one) + Len(s) /\ Len(s) \in Nat
      /\ \A i \in 1 .. Len(one) + Len(s) : (one \o s)[i] = IF i <= Len(one) THEN one[i] ELSE s[i - Len(one)]
  <2>1. Len(s) \in Nat
    OBVIOUS
  <2>2. one \o s \in Seq(T) /\ Len(one \o s) = Len(one) + Len(s)
        /\ \A i \in 1 .. Len(one) + Len(s) : (one \o s)[i] = IF i <= Len(one) THEN one[i] ELSE s[i - Len(one)]
    BY <1>1, ConcatProperties, Zenon
  <2> QED BY <2>1, <2>2
<1>3. (one \o s)[1] = c
  BY <1>1, <1>2
<1>4. \A i \in 2 .. Len(one \o s) : (one \o s)[i] = s[i - 1]
  BY <1>1, <1>2
<1>5. Len(one \o s) = Len(s) + 1
  BY <1>1, <1>2
<1> QED BY <1>2, <1>3, <1>4, <1>5 DEF one

(* What one round takes out of the buffer: SDUs of the segment at its front
   that a segment of the buffer completes. *)
Taken(S, P, next, b, xs, t) ==
  /\ xs \in Seq(SDU) /\ Ascending(xs)
  /\ Run(S, P, t, next)
  /\ Pieces(t) \subseteq Pieces(b)
  /\ \A x \in ToSet(xs) :
       /\ x \in ToSet(b[1].pdus)
       /\ \E e \in 1 .. Len(b) : Completes(S[b[e].sn + 1], x)
       /\ \A y \in Pieces(t) : x < y

(* The segment at the front ends with an SDU. *)
LEMMA TakeAll ==
  ASSUME NEW S, Sent(S), NEW P, NEW next, NEW b, Run(S, P, b, next), 1 \in 1 .. Len(b), b[1].end
  PROVE  Taken(S, P, next, b, b[1].pdus, Tail(b))
<1>1. b \in Seq(SegmentType) /\ Len(b) \in Nat /\ b /= <<>>
  BY DEF Run
<1> DEFINE t == Tail(b)
<1>2. t \in Seq(SegmentType) /\ Len(t) = Len(b) - 1 /\ \A i \in 1 .. Len(t) : t[i] = b[1 + i]
  BY <1>1
<1> HIDE DEF t
<1>3. Run(S, P, t, next)
  BY <1>2, DropKeepsRun
<1>4. \A x \in ToSet(S[b[1].sn + 1].pdus), y \in Pieces(t) : x < y /\ y \in Pieces(b)
  BY <1>2, DropPasses
<1>5. b[1] \in SegmentType /\ b[1].pdus \in Seq(SDU) /\ b[1].pdus /= <<>>
  BY RunPlaces
<1>6. S[b[1].sn + 1] \in SegmentType /\ IsPartOf(b[1], S[b[1].sn + 1])
  BY RunPlaces
<1>7. \A x \in ToSet(b[1].pdus) : Completes(S[b[1].sn + 1], x) /\ x \in ToSet(S[b[1].sn + 1].pdus)
  BY <1>5, <1>6, PartCompletes DEF IsPartOf
<1>8. Pieces(t) \subseteq Pieces(b)
  <2>1. b[1].pdus[1] \in ToSet(b[1].pdus)
    BY <1>5, SetOfTail
  <2> QED BY <2>1, <1>4, <1>7
<1>9. Ascending(b[1].pdus)
  BY <1>6 DEF IsPartOf
<1> QED BY <1>3, <1>4, <1>5, <1>7, <1>8, <1>9 DEF Taken, t

(* SDUs stand behind the first one of the segment at the front. *)
LEMMA TakeFirst ==
  ASSUME NEW S, Sent(S), NEW P, NEW next, NEW b, Run(S, P, b, next), 1 \in 1 .. Len(b), Len(b[1].pdus) > 1
  PROVE  Taken(S, P, next, b, <<b[1].pdus[1]>>, <<Beheaded(b[1])>> \o Tail(b))
<1>1. b \in Seq(SegmentType) /\ Len(b) \in Nat /\ b /= <<>>
  BY DEF Run
<1>2. b[1] \in SegmentType /\ b[1].pdus \in Seq(SDU) /\ b[1].pdus /= <<>>
  BY RunPlaces
<1> DEFINE c == Beheaded(b[1])
           u == Tail(b)
           t == <<c>> \o u
           x == b[1].pdus[1]
           xs == <<x>>
<1>3. c \in SegmentType
  BY <1>2, BeheadedIs
<1>4. u \in Seq(SegmentType) /\ Len(u) = Len(b) - 1 /\ \A i \in 1 .. Len(u) : u[i] = b[i + 1]
  BY <1>1
<1>5. t \in Seq(SegmentType) /\ Len(t) = Len(b) - 1 + 1 /\ t[1] = c /\ \A i \in 2 .. Len(t) : t[i] = b[1 + i - 1]
  <2> HIDE DEF c, u
  <2>1. t \in Seq(SegmentType) /\ Len(t) = Len(u) + 1 /\ t[1] = c /\ \A i \in 2 .. Len(t) : t[i] = u[i - 1]
    BY <1>3, <1>4, ConsIs
  <2> HIDE DEF t
  <2>2. \A i \in 2 .. Len(t) : t[i] = b[1 + i - 1]
    <3> TAKE i \in 2 .. Len(t)
    <3>1. i \in Int /\ i - 1 \in 1 .. Len(u) /\ t[i] = u[i - 1]
      BY <2>1, <1>1, <1>4
    <3>2. u[i - 1] = b[(i - 1) + 1] /\ (i - 1) + 1 = 1 + i - 1
      BY <3>1, <1>4
    <3> QED BY <3>1, <3>2
  <2> QED BY <2>1, <2>2, <1>4
<1>6. t[1] = Beheaded(b[1]) /\ Len(t) = Len(b) - 1 + 1
  BY <1>5
<1> HIDE DEF t
<1>7. Run(S, P, t, next)
  BY <1>5, <1>6, BeheadKeepsRun
<1>8. \A y \in Pieces(t) : x < y /\ y \in Pieces(b)
  BY <1>5, <1>6, BeheadPasses
<1>9. x \in ToSet(b[1].pdus) /\ x \in SDU
  BY <1>2, SetOfTail
<1>10. Completes(S[b[1].sn + 1], x)
  BY FirstCompletes
<1>11. xs \in Seq(SDU) /\ ToSet(xs) = {x} /\ Ascending(xs)
  <2> HIDE DEF x
  <2>1. xs \in Seq(SDU)
    BY <1>9
  <2> HIDE DEF xs
  <2>2. xs = <<x>>
    BY DEF xs
  <2> QED BY <2>1, <2>2, OneOf
<1> HIDE DEF xs, x
<1>12. Pieces(t) \subseteq Pieces(b)
  BY <1>8
<1>13. Taken(S, P, next, b, xs, t)
  BY <1>7, <1>8, <1>9, <1>10, <1>11, <1>12 DEF Taken
<1> QED BY <1>13 DEF xs, x, t

LEMMA LeastIs ==
  ASSUME NEW T \in SUBSET Nat, T /= {}
  PROVE  Min(T) \in T /\ \A i \in T : Min(T) <= i
<1>1. \E i \in T : \A j \in T : i <= j
  BY LeastElement
<1> QED BY <1>1 DEF Min

(* What stands behind the m-th element. *)
LEMMA RestIs ==
  ASSUME NEW T, NEW s \in Seq(T), NEW m \in 1 .. Len(s)
  PROVE  LET t == SubSeq(s, m + 1, Len(s))
         IN  t \in Seq(T) /\ Len(t) = Len(s) - m /\ \A i \in 1 .. Len(t) : t[i] = s[m + i]
<1> DEFINE l == Len(s)
           t == SubSeq(s, m + 1, l)
<1>1. l \in Nat /\ m \in Nat /\ m <= l
  OBVIOUS
<1>2. t = [i \in 1 .. l - m |-> s[i + m]]
  BY <1>1
<1>3. \A i \in 1 .. l - m : s[i + m] \in T
  BY <1>1
<1> HIDE DEF t, l
<1>4. l - m \in Nat /\ t \in Seq(T) /\ Len(t) = l - m
  BY <1>1, <1>2, <1>3
<1>5. \A i \in 1 .. Len(t) : t[i] = s[m + i]
  BY <1>1, <1>2, <1>4
<1> QED BY <1>4, <1>5 DEF t, l

(* The segment at the front carries a piece of one SDU, which goes on. *)
LEMMA TakeRest ==
  ASSUME NEW S, Sent(S), NEW P, NEW next, NEW b, Run(S, P, b, next), 1 \in 1 .. Len(b),
         ~b[1].end, ~(Len(b[1].pdus) > 1), Ends(b) /= {}
  PROVE  Taken(S, P, next, b, <<b[1].pdus[1]>>, dropSegmentsOfSDU(Tail(b)))
<1>1. b \in Seq(SegmentType) /\ Len(b) \in Nat /\ b /= <<>>
  BY DEF Run
<1>2. b[1] \in SegmentType /\ b[1].pdus \in Seq(SDU) /\ b[1].pdus /= <<>>
  BY RunPlaces
<1> DEFINE u == Tail(b)
           m == Min(Ends(u))
           rest == SubSeq(u, m + 1, Len(u))
           t == dropSegmentsOfSDU(u)
           x == b[1].pdus[1]
           xs == <<x>>
           e == m + 1
<1>3. u \in Seq(SegmentType) /\ Len(u) = Len(b) - 1 /\ \A i \in 1 .. Len(u) : u[i] = b[i + 1]
  BY <1>1
<1>4. Ends(u) /= {}
  <2>1. PICK i \in 1 .. Len(b) : b[i].end \/ Len(b[i].pdus) > 1
    BY <1>1 DEF Ends
  <2>2. i /= 1
    BY <2>1
  <2> DEFINE k == i - 1
  <2>3. k \in 1 .. Len(u) /\ u[k] = b[k + 1] /\ k + 1 = i
    BY <2>2, <1>1, <1>3
  <2> HIDE DEF k, u
  <2>4. k \in Ends(u)
    BY <2>1, <2>3, <1>3 DEF Ends
  <2> QED BY <2>4
<1>5. m \in Ends(u) /\ \A i \in Ends(u) : m <= i
  <2>1. Ends(u) \in SUBSET Nat
    BY <1>3 DEF Ends
  <2> QED BY <2>1, <1>4, LeastIs
<1>6. m \in 1 .. Len(u) /\ (u[m].end \/ Len(u[m].pdus) > 1)
  <2> HIDE DEF m, u
  <2>1. DOMAIN u = 1 .. Len(u)
    BY <1>3
  <2> QED BY <2>1, <1>5 DEF Ends
<1>7. \A i \in 1 .. Len(u) : i < m => ~u[i].end /\ ~(Len(u[i].pdus) > 1)
  <2> TAKE i \in 1 .. Len(u)
  <2> HAVE i < m
  <2>1. i \notin Ends(u)
    <3> HIDE DEF m, u
    <3> QED BY <1>3, <1>5, <1>6
  <2> QED BY <2>1, <1>3 DEF Ends
<1>8. t = IF Len(u[m].pdus) > 1 THEN <<Beheaded(u[m])>> \o rest ELSE rest
  BY DEF dropSegmentsOfSDU
<1>9. rest \in Seq(SegmentType) /\ Len(rest) = Len(u) - m /\ \A i \in 1 .. Len(rest) : rest[i] = u[m + i]
  <2> HIDE DEF u, m
  <2> QED BY <1>3, <1>6, RestIs DEF rest
<1> HIDE DEF u, m, rest, t
<1>10. e \in 1 .. Len(b) /\ u[m] = b[e] /\ e > 1
  BY <1>1, <1>3, <1>6
<1>11. Len(rest) = Len(b) - e /\ \A i \in 1 .. Len(rest) : rest[i] = b[e + i]
  <2>1. Len(b) \in Int /\ m \in Int
    BY <1>1, <1>3, <1>6
  <2>2. Len(rest) = Len(b) - e
    BY <2>1, <1>3, <1>9
  <2>3. \A i \in 1 .. Len(rest) : rest[i] = b[e + i]
    <3> TAKE i \in 1 .. Len(rest)
    <3>1. i \in Int /\ m + i \in 1 .. Len(u) /\ (m + i) + 1 = e + i
      BY <2>1, <1>3, <1>6, <1>9
    <3>2. rest[i] = u[m + i] /\ u[m + i] = b[(m + i) + 1]
      BY <3>1, <1>3, <1>9
    <3> QED BY <3>1, <3>2
  <2> QED BY <2>2, <2>3
<1>12. \A i \in 1 .. e - 1 : ~b[i].end /\ Len(b[i].pdus) = 1
  <2> TAKE i \in 1 .. e - 1
  <2>1. i \in 1 .. Len(b) /\ i \in Int /\ m \in Int /\ i <= m
    BY <1>1, <1>3, <1>6, <1>10
  <2>2. ~b[i].end /\ ~(Len(b[i].pdus) > 1)
    <3>1. CASE i = 1
      BY <3>1
    <3>2. CASE i /= 1
      <4> DEFINE k == i - 1
      <4>1. k \in 1 .. Len(u) /\ k < m /\ k + 1 = i
        BY <2>1, <3>2, <1>3, <1>6
      <4> HIDE DEF k
      <4> QED BY <4>1, <1>3, <1>7
    <3> QED BY <3>1, <3>2
  <2>3. b[i].pdus \in Seq(SDU) /\ b[i].pdus /= <<>>
    BY <2>1, RunPlaces
  <2> DEFINE l == Len(b[i].pdus)
  <2>4. l \in Nat /\ l /= 0 /\ ~(l > 1)
    BY <2>2, <2>3, EmptySeq
  <2> HIDE DEF l
  <2>5. l = 1
    BY <2>4
  <2> QED BY <2>2, <2>5 DEF l
<1>13. b[e].end \/ Len(b[e].pdus) > 1
  BY <1>6, <1>10
<1> HIDE DEF e
<1>14. b[e].pdus[1] = x
  BY <1>10, <1>12, ChainInBuffer
<1>15. b[e] \in SegmentType /\ b[e].pdus \in Seq(SDU) /\ b[e].pdus /= <<>>
  BY <1>10, RunPlaces
<1>16. S[b[e].sn + 1] \in SegmentType /\ IsPartOf(b[e], S[b[e].sn + 1])
  BY <1>10, RunPlaces
<1>17. x \in ToSet(b[e].pdus) /\ x \in ToSet(S[b[e].sn + 1].pdus)
  <2>1. x \in ToSet(b[e].pdus)
    BY <1>14, <1>15, SetOfTail
  <2> QED BY <2>1, <1>16 DEF IsPartOf
<1>18. x \in ToSet(b[1].pdus) /\ x \in SDU
  BY <1>2, SetOfTail
<1>19. xs \in Seq(SDU) /\ ToSet(xs) = {x} /\ Ascending(xs)
  <2> HIDE DEF x
  <2>1. xs \in Seq(SDU)
    BY <1>18
  <2> HIDE DEF xs
  <2>2. xs = <<x>>
    BY DEF xs
  <2> QED BY <2>1, <2>2, OneOf
<1>20. /\ Run(S, P, t, next) /\ Completes(S[b[e].sn + 1], x)
       /\ \A y \in Pieces(t) : x < y /\ y \in Pieces(b)
  <2>1. CASE Len(b[e].pdus) > 1
    <3> DEFINE c == Beheaded(b[e])
    <3>1. c \in SegmentType
      BY <2>1, <1>15, BeheadedIs
    <3>2. t = <<c>> \o rest
      BY <2>1, <1>8, <1>10
    <3> HIDE DEF c
    <3>3. t \in Seq(SegmentType) /\ Len(t) = Len(rest) + 1 /\ t[1] = c /\ \A i \in 2 .. Len(t) : t[i] = rest[i - 1]
      BY <3>1, <3>2, <1>9, ConsIs
    <3>4. t[1] = Beheaded(b[e]) /\ Len(t) = Len(b) - e + 1
      BY <3>3, <1>11 DEF c
    <3>5. \A i \in 2 .. Len(t) : t[i] = b[e + i - 1]
      <4> TAKE i \in 2 .. Len(t)
      <4>1. i \in Int /\ e \in Int /\ Len(rest) \in Int
        BY <3>3, <1>1, <1>9, <1>10
      <4>2. i - 1 \in 1 .. Len(rest) /\ t[i] = rest[i - 1]
        BY <4>1, <3>3
      <4>3. rest[i - 1] = b[e + (i - 1)] /\ e + (i - 1) = e + i - 1
        BY <4>1, <4>2, <1>11
      <4> QED BY <4>2, <4>3
    <3>6. Run(S, P, t, next)
      <4>1. e \in 1 .. Len(b) /\ Len(b[e].pdus) > 1 /\ t \in Seq(SegmentType)
        BY <2>1, <3>3, <1>10
      <4>2. Len(t) = Len(b) - e + 1 /\ t[1] = Beheaded(b[e]) /\ \A i \in 2 .. Len(t) : t[i] = b[e + i - 1]
        BY <3>3, <3>4, <3>5
      <4> HIDE DEF e, x, xs
      <4> QED BY <4>1, <4>2, BeheadKeepsRun, Zenon
    <3>7. \A y \in Pieces(t) : b[e].pdus[1] < y /\ y \in Pieces(b)
      BY <2>1, <3>3, <3>4, <3>5, <1>10, BeheadPasses
    <3>8. Completes(S[b[e].sn + 1], b[e].pdus[1])
      BY <2>1, <1>10, FirstCompletes
    <3> QED BY <3>6, <3>7, <3>8, <1>14
  <2>2. CASE ~(Len(b[e].pdus) > 1)
    <3>1. t = rest /\ b[e].end
      BY <2>2, <1>8, <1>10, <1>13
    <3>2. Run(S, P, rest, next)
      <4>1. e \in 1 .. Len(b) /\ b[e].end /\ rest \in Seq(SegmentType)
        BY <3>1, <1>9, <1>10
      <4>2. Len(rest) = Len(b) - e /\ \A i \in 1 .. Len(rest) : rest[i] = b[e + i]
        BY <1>11
      <4> HIDE DEF e, x, xs
      <4> QED BY <4>1, <4>2, DropKeepsRun, Zenon
    <3>3. \A y \in Pieces(rest) : x < y /\ y \in Pieces(b)
      <4> HIDE DEF x
      <4> QED BY <3>1, <1>9, <1>10, <1>11, <1>17, DropPasses
    <3>4. Completes(S[b[e].sn + 1], x)
      <4> HIDE DEF x
      <4> QED BY <3>1, <1>16, <1>17, EndCompletes DEF IsPartOf
    <3> QED BY <3>1, <3>2, <3>3, <3>4
  <2> QED BY <2>1, <2>2
<1> HIDE DEF xs, x
<1>21. Pieces(t) \subseteq Pieces(b)
  BY <1>20
<1>22. Taken(S, P, next, b, xs, t)
  BY <1>10, <1>18, <1>19, <1>20, <1>21 DEF Taken
<1> QED BY <1>22 DEF xs, x, t, u

-----------------------------------------------------------------------------
(* What goes up.                                                           *)

(* Two lists without a common element. *)
LEMMA OnceConcat ==
  ASSUME NEW T, NEW s \in Seq(T), NEW t \in Seq(T), Once(s), Once(t), ToSet(s) \intersect ToSet(t) = {}
  PROVE  s \o t \in Seq(T) /\ Once(s \o t) /\ ToSet(s \o t) = ToSet(s) \union ToSet(t)
<1> DEFINE u == s \o t
           l == Len(s)
           m == Len(t)
<1>1. l \in Nat /\ m \in Nat /\ DOMAIN s = 1 .. l /\ DOMAIN t = 1 .. m
  OBVIOUS
<1>2. u \in Seq(T) /\ Len(u) = l + m
      /\ \A i \in 1 .. l + m : u[i] = IF i <= l THEN s[i] ELSE t[i - l]
  BY ConcatProperties, Zenon
<1>3. DOMAIN u = 1 .. l + m
  BY <1>2
<1> HIDE DEF u, l, m
<1>4. \A i \in 1 .. l : i \in 1 .. l + m /\ u[i] = s[i]
  BY <1>1, <1>2
<1>5. \A i \in 1 .. m : l + i \in 1 .. l + m /\ u[l + i] = t[i]
  <2> TAKE i \in 1 .. m
  <2>1. l + i \in 1 .. l + m /\ ~(l + i <= l) /\ (l + i) - l = i
    BY <1>1
  <2> QED BY <2>1, <1>2
<1>6. \A i \in 1 .. l + m : i \in 1 .. l \/ \E k \in 1 .. m : i = l + k
  <2> TAKE i \in 1 .. l + m
  <2>1. i \in 1 .. l \/ (i - l \in 1 .. m /\ i = l + (i - l))
    BY <1>1
  <2> QED BY <2>1
<1>7. ToSet(u) = ToSet(s) \union ToSet(t)
  <2>1. \A x : x \in ToSet(s) <=> \E i \in 1 .. l : s[i] = x
    BY <1>1 DEF ToSet
  <2>2. \A x : x \in ToSet(t) <=> \E i \in 1 .. m : t[i] = x
    BY <1>1 DEF ToSet
  <2>3. \A x : x \in ToSet(u) <=> \E i \in 1 .. l + m : u[i] = x
    BY <1>3 DEF ToSet
  <2>4. ASSUME NEW x \in ToSet(u)
        PROVE  x \in ToSet(s) \/ x \in ToSet(t)
    <3>1. PICK i \in 1 .. l + m : u[i] = x
      BY <2>3
    <3>2. CASE i \in 1 .. l
      BY <3>1, <3>2, <2>1, <1>4
    <3>3. ASSUME NEW k \in 1 .. m, i = l + k
          PROVE  x \in ToSet(t)
      BY <3>1, <3>3, <2>2, <1>5
    <3> QED BY <3>2, <3>3, <1>6
  <2>5. ASSUME NEW x \in ToSet(s)
        PROVE  x \in ToSet(u)
    BY <2>1, <2>3, <1>4
  <2>6. ASSUME NEW x \in ToSet(t)
        PROVE  x \in ToSet(u)
    <3>1. PICK i \in 1 .. m : t[i] = x
      BY <2>2
    <3> QED BY <3>1, <2>3, <1>5
  <2> QED BY <2>4, <2>5, <2>6
<1>8. ASSUME NEW i \in 1 .. l + m, NEW j \in 1 .. l + m, u[i] = u[j]
      PROVE  i = j
  <2>1. CASE i \in 1 .. l /\ j \in 1 .. l
    <3>1. s[i] = s[j]
      BY <2>1, <1>4, <1>8
    <3> QED BY <3>1, <2>1 DEF Once, l
  <2>2. ASSUME NEW p \in 1 .. m, NEW q \in 1 .. m, i = l + p, j = l + q
        PROVE  i = j
    <3>1. t[p] = t[q]
      BY <2>2, <1>5, <1>8
    <3> QED BY <3>1, <2>2 DEF Once, m
  <2>3. ASSUME NEW p \in 1 .. l, NEW q \in 1 .. m, u[p] = u[l + q]
        PROVE  FALSE
    <3>1. s[p] = t[q]
      BY <2>3, <1>4, <1>5
    <3>2. s[p] \in ToSet(s) /\ t[q] \in ToSet(t)
      BY <1>1 DEF ToSet
    <3> QED BY <3>1, <3>2
  <2> QED BY <2>1, <2>2, <2>3, <1>6, <1>8
<1>9. Once(u)
  BY <1>2, <1>8 DEF Once
<1> QED BY <1>2, <1>7, <1>9 DEF u

(* A list that ascends has no element twice. *)
LEMMA AscendingOnce ==
  ASSUME NEW s \in Seq(Int), Ascending(s)
  PROVE  Once(s)
<1> SUFFICES ASSUME NEW i \in 1 .. Len(s), NEW j \in 1 .. Len(s), s[i] = s[j]
             PROVE  i = j
  BY DEF Once
<1>1. Len(s) \in Nat /\ i \in DOMAIN s /\ j \in DOMAIN s /\ s[i] \in Int /\ s[j] \in Int
  OBVIOUS
<1>2. ~(i < j) /\ ~(j < i)
  <2>1. (i < j => s[i] < s[j]) /\ (j < i => s[j] < s[i])
    BY <1>1 DEF Ascending
  <2> QED BY <2>1, <1>1
<1> QED BY <1>1, <1>2

(* The buffer b, and the SDUs taken out of it after those of G went up. *)
Good(S, P, next, b, sdus, G) ==
  /\ Run(S, P, b, next)
  /\ sdus \in Seq(SDU) /\ Once(sdus) /\ ToSet(sdus) \intersect G = {}
  /\ Up(S, P, b, G \union ToSet(sdus), next)

(* What a round takes out goes to either end of what was taken before. *)
LEMMA TakenKeeps ==
  ASSUME NEW S, Sent(S), NEW P, NEW next, NEW b, NEW sdus, NEW G, Good(S, P, next, b, sdus, G),
         1 \in 1 .. Len(b), NEW xs, NEW t, Taken(S, P, next, b, xs, t),
         NEW all, all = xs \o sdus \/ all = sdus \o xs
  PROVE  Good(S, P, next, t, all, G)
<1>1. Run(S, P, b, next) /\ sdus \in Seq(SDU) /\ Once(sdus) /\ ToSet(sdus) \intersect G = {}
      /\ Up(S, P, b, G \union ToSet(sdus), next)
  BY DEF Good
<1>2. /\ xs \in Seq(SDU) /\ Ascending(xs) /\ Run(S, P, t, next) /\ Pieces(t) \subseteq Pieces(b)
      /\ \A x \in ToSet(xs) :
           /\ x \in ToSet(b[1].pdus)
           /\ \E e \in 1 .. Len(b) : Completes(S[b[e].sn + 1], x)
           /\ \A y \in Pieces(t) : x < y
  BY DEF Taken
<1>3. Once(xs) /\ ToSet(xs) \subseteq Int
  BY <1>2, SDUIsInt, AscendingOnce DEF ToSet
<1>4. \A x \in ToSet(xs) : x \in Pieces(b)
  BY <1>2 DEF Pieces
<1>5. ASSUME NEW n \in G \union ToSet(sdus)
      PROVE  n \notin ToSet(xs)
  <2> SUFFICES ASSUME n \in ToSet(xs)
               PROVE  FALSE
    OBVIOUS
  <2>1. n \in Pieces(b) /\ n \in Int
    BY <1>3, <1>4
  <2>2. n < n
    BY <2>1, <1>1, <1>5 DEF Up
  <2> QED BY <2>1, <2>2
<1>6. all \in Seq(SDU) /\ Once(all) /\ ToSet(all) = ToSet(sdus) \union ToSet(xs)
  <2>1. ToSet(xs) \intersect ToSet(sdus) = {} /\ ToSet(sdus) \intersect ToSet(xs) = {}
    BY <1>5
  <2>2. CASE all = xs \o sdus
    <3>1. all \in Seq(SDU) /\ Once(all) /\ ToSet(all) = ToSet(xs) \union ToSet(sdus)
      BY <2>1, <2>2, <1>1, <1>2, <1>3, OnceConcat
    <3> QED BY <3>1
  <2>3. CASE all = sdus \o xs
    BY <2>1, <2>3, <1>1, <1>2, <1>3, OnceConcat
  <2> QED BY <2>2, <2>3
<1>7. ToSet(all) \intersect G = {}
  BY <1>1, <1>5, <1>6
<1>8. ASSUME NEW n \in G \union ToSet(all)
      PROVE  /\ \E k \in 1 .. Len(S) : k <= next /\ Completes(S[k], n)
             /\ CarriersIn(S, n) \subseteq P
             /\ \A y \in Pieces(t) : n < y
  <2>1. CASE n \in G \union ToSet(sdus)
    BY <2>1, <1>1, <1>2 DEF Up
  <2>2. CASE n \in ToSet(xs)
    <3>1. PICK e \in 1 .. Len(b) : Completes(S[b[e].sn + 1], n)
      BY <2>2, <1>2
    <3>2. b[e].sn + 1 \in 1 .. Len(S) /\ b[e].sn + 1 <= next
      BY <1>1, RunPlaces
    <3>3. CarriersIn(S, n) \subseteq P
      BY <2>2, <3>1, <1>1, <1>2, RunIsWhole
    <3> QED BY <2>2, <3>1, <3>2, <3>3, <1>2
  <2> QED BY <2>1, <2>2, <1>6
<1> QED BY <1>2, <1>6, <1>7, <1>8 DEF Good, Up

(* One round of the reassembly. *)
LEMMA RoundKeeps ==
  ASSUME NEW S, Sent(S), NEW P, NEW next, NEW b, NEW sdus, NEW G, Good(S, P, next, b, sdus, G)
  PROVE  LET r == Round([buffer |-> b, sdus |-> sdus])
         IN  r = [buffer |-> r.buffer, sdus |-> r.sdus] /\ Good(S, P, next, r.buffer, r.sdus, G)
<1> DEFINE p == [buffer |-> b, sdus |-> sdus]
           r == Round(p)
           front == b[1]
           kept == r = [buffer |-> r.buffer, sdus |-> r.sdus] /\ Good(S, P, next, r.buffer, r.sdus, G)
<1> SUFFICES kept
  OBVIOUS
<1>1. p.buffer = b /\ p.sdus = sdus
  OBVIOUS
<1>2. Run(S, P, b, next) /\ b \in Seq(SegmentType) /\ sdus \in Seq(SDU)
  BY DEF Good, Run
<1>3. CASE Ends(b) = {}
  <2>1. r = p
    BY <1>3, <1>1 DEF Round
  <2> QED BY <2>1, <1>1
<1>4. CASE Ends(b) /= {}
  <2>1. 1 \in 1 .. Len(b) /\ Head(b) = front /\ b /= <<>>
    <3>1. PICK i \in DOMAIN b : TRUE
      BY <1>4 DEF Ends
    <3>2. b /= <<>>
      BY <3>1
    <3> QED BY <3>2, <1>2
  <2>2. r = TakeOut(p)
    BY <1>4, <1>1 DEF Round
  <2>3. front.end \in BOOLEAN /\ front.pdus \in Seq(SDU) /\ front.pdus /= <<>> /\ Len(front.pdus) \in Nat
    BY SMTT(20), <2>1, <1>2, RunPlaces
  <2>4. Head(front.pdus) = front.pdus[1] /\ front.pdus[1] \in SDU
    BY <2>3, SetOfTail
  <2> HIDE DEF r, p, front
  <2>5. CASE front.end
    <3>1. r = [buffer |-> Tail(b), sdus |-> sdus \o front.pdus]
      BY <2>5, <2>1, <2>2, <1>1 DEF TakeOut
    <3>2. Taken(S, P, next, b, front.pdus, Tail(b))
      BY <2>5, <2>1, <1>2, TakeAll DEF front
    <3>3. Good(S, P, next, Tail(b), sdus \o front.pdus, G)
      BY <3>2, <2>1, TakenKeeps
    <3> QED BY <3>1, <3>3
  <2>6. CASE ~front.end /\ Len(front.pdus) > 1
    <3> DEFINE t == <<Beheaded(front)>> \o Tail(b)
               xs == <<front.pdus[1]>>
    <3>1. r = [buffer |-> t, sdus |-> xs \o sdus]
      BY <2>6, <2>1, <2>2, <2>4, <1>1 DEF TakeOut
    <3>2. Taken(S, P, next, b, xs, t)
      BY <2>6, <2>1, <1>2, TakeFirst DEF front
    <3> HIDE DEF xs, t
    <3>3. Good(S, P, next, t, xs \o sdus, G)
      BY <3>2, <2>1, TakenKeeps
    <3> QED BY <3>1, <3>3
  <2>7. CASE ~front.end /\ ~(Len(front.pdus) > 1)
    <3> DEFINE t == dropSegmentsOfSDU(Tail(b))
               xs == <<front.pdus[1]>>
    <3>1. r = [buffer |-> t, sdus |-> Append(sdus, front.pdus[1])]
      BY <2>7, <2>1, <2>2, <2>4, <1>1 DEF TakeOut
    <3>2. Append(sdus, front.pdus[1]) = sdus \o xs
      BY <2>4, <1>2
    <3>3. Taken(S, P, next, b, xs, t)
      BY <2>7, <2>1, <1>2, <1>4, TakeRest DEF front
    <3> HIDE DEF xs, t
    <3>4. Good(S, P, next, t, sdus \o xs, G)
      BY <3>3, <2>1, TakenKeeps
    <3> QED BY <3>1, <3>2, <3>4
  <2> QED BY <2>5, <2>6, <2>7
<1> QED BY <1>3, <1>4

Start(b) == [buffer |-> b, sdus |-> <<>>]

IsReassembly(f, b, n) == f = [i \in 0 .. n |-> IF i = 0 THEN Start(b) ELSE Round(f[i - 1])]

(* The rounds of the loop exist for every number of them. *)
LEMMA ReassemblyExists ==
  ASSUME NEW b, NEW l \in Nat
  PROVE  \E f : IsReassembly(f, b, l)
<1> DEFINE T == {n \in Nat : ~ \E f : IsReassembly(f, b, n)}
<1>1. T \in SUBSET Nat
  OBVIOUS
<1>2. ASSUME T /= {}
      PROVE  FALSE
  <2>1. PICK n \in T : \A m \in T : n <= m
    BY <1>1, <1>2, LeastElement
  <2>2. CASE n = 0
    <3>1. IsReassembly([i \in 0 .. 0 |-> Start(b)], b, 0)
      BY DEF IsReassembly
    <3> QED BY <3>1, <2>1, <2>2
  <2>3. CASE n /= 0
    <3>1. n - 1 \notin T /\ n - 1 \in Nat /\ n \in Nat
      BY <2>1, <2>3
    <3>2. PICK f : IsReassembly(f, b, n - 1)
      BY <3>1
    <3> DEFINE g == [i \in 0 .. n |-> IF i = n THEN Round(f[n - 1]) ELSE f[i]]
    <3>3. \A i \in 0 .. n : g[i] = IF i = 0 THEN Start(b) ELSE Round(g[i - 1])
      BY <3>1, <3>2, <2>3 DEF IsReassembly
    <3>4. g = [i \in 0 .. n |-> g[i]]
      OBVIOUS
    <3> HIDE DEF g
    <3>5. IsReassembly(g, b, n)
      BY <3>3, <3>4 DEF IsReassembly
    <3> QED BY <3>5, <2>1
  <2> QED BY <2>2, <2>3
<1> QED BY <1>2

(* The rounds of the loop, one after the other. *)
LEMMA ReassemblyRounds ==
  ASSUME NEW b \in Seq(SegmentType)
  PROVE  \E f : \E l \in Nat : /\ getReassembledSegments(b) = f[l]
                               /\ f[0] = Start(b)
                               /\ \A i \in 1 .. l : f[i] = Round(f[i - 1])
<1> DEFINE s == [i \in DOMAIN b |-> Len(b[i].pdus)]
           l == Total(s)
           f == CHOOSE f : IsReassembly(f, b, l)
<1>1. l \in Nat
  <2>1. \A i \in 1 .. Len(b) : Len(b[i].pdus) \in Nat
    <3> TAKE i \in 1 .. Len(b)
    <3>1. b[i].pdus \in Seq(SDU)
      BY PdusIn
    <3> QED BY <3>1
  <2>2. DOMAIN b = 1 .. Len(b) /\ Len(b) \in Nat
    OBVIOUS
  <2>3. s \in Seq(Nat)
    BY <2>1, <2>2
  <2> HIDE DEF s
  <2> QED BY <2>3, TotalNat
<1>2. getReassembledSegments(b) = f[l]
  BY DEF getReassembledSegments, IsReassembly, Start
<1> HIDE DEF l
<1>3. IsReassembly(f, b, l)
  BY <1>1, ReassemblyExists
<1> HIDE DEF f
<1>4. \A i \in 0 .. l : f[i] = IF i = 0 THEN Start(b) ELSE Round(f[i - 1])
  BY <1>3, Zenon DEF IsReassembly
<1>5. f[0] = Start(b) /\ \A i \in 1 .. l : f[i] = Round(f[i - 1])
  BY <1>1, <1>4
<1> QED BY <1>1, <1>2, <1>5

(* The loop takes out whole SDUs and leaves a run of segments. *)
LEMMA ReassembledIs ==
  ASSUME NEW S, Sent(S), NEW P, NEW next, NEW b, NEW G, Good(S, P, next, b, <<>>, G)
  PROVE  LET r == getReassembledSegments(b) IN Good(S, P, next, r.buffer, r.sdus, G)
<1> DEFINE Held(r) == r = [buffer |-> r.buffer, sdus |-> r.sdus] /\ Good(S, P, next, r.buffer, r.sdus, G)
<1>7. PICK f : \E l \in Nat : /\ getReassembledSegments(b) = f[l]
                              /\ f[0] = Start(b)
                              /\ \A i \in 1 .. l : f[i] = Round(f[i - 1])
  <2>1. b \in Seq(SegmentType)
    BY DEF Good, Run
  <2> QED BY <2>1, ReassemblyRounds
<1>1. PICK l \in Nat : /\ getReassembledSegments(b) = f[l]
                       /\ f[0] = Start(b)
                       /\ \A i \in 1 .. l : f[i] = Round(f[i - 1])
  BY <1>7
<1>2. Held(f[0])
  BY <1>1 DEF Start
<1>3. ASSUME NEW i \in 1 .. l, Held(f[i - 1])
      PROVE  Held(f[i])
  <2> DEFINE p == f[i - 1]
             c == p.buffer
             q == p.sdus
  <2>1. p = [buffer |-> c, sdus |-> q] /\ Good(S, P, next, c, q, G)
    BY <1>3
  <2>2. f[i] = Round(p)
    BY <1>1
  <2> HIDE DEF p, c, q
  <2>3. f[i] = Round([buffer |-> c, sdus |-> q])
    BY <2>1, <2>2
  <2> QED BY <2>1, <2>3, RoundKeeps
<1> HIDE DEF Held
<1> DEFINE T == {i \in 0 .. l : ~Held(f[i])}
<1>4. T = {}
  <2> SUFFICES ASSUME T /= {}
               PROVE  FALSE
    OBVIOUS
  <2>1. T \in SUBSET Nat
    OBVIOUS
  <2>2. PICK i \in T : \A j \in T : i <= j
    <3> HIDE DEF T
    <3> QED BY <2>1, LeastElement
  <2>3. i \in 1 .. l /\ i - 1 \in 0 .. l /\ ~(i <= i - 1) /\ ~Held(f[i])
    BY <2>2, <1>2
  <2>4. Held(f[i - 1])
    BY <2>2, <2>3
  <2> QED BY <2>3, <2>4, <1>3
<1>5. Held(f[l])
  BY <1>4
<1> QED BY <1>1, <1>5 DEF Held

(* A later bound, more segments that entered. *)
LEMMA RunLater ==
  ASSUME NEW S, Sent(S), NEW P, NEW Q, P \subseteq Q, NEW m, NEW n, n \in 0 .. Len(S), m <= n,
         NEW b, Run(S, P, b, m), NEW G, Up(S, P, b, G, m)
  PROVE  Run(S, Q, b, n) /\ Up(S, Q, b, G, n)
<1>1. Len(S) \in Nat /\ m \in Nat /\ n \in Nat
  BY DEF Sent, Run
<1>2. Run(S, Q, b, n)
  <2>1. \A i \in 1 .. Len(b) : b[i].sn \in Q /\ b[i].sn < n
    <3> TAKE i \in 1 .. Len(b)
    <3>1. b[i].sn \in Nat
      BY RunNumbers
    <3>2. b[i].sn \in P /\ b[i].sn < m
      BY DEF Run
    <3> QED BY <3>1, <3>2, <1>1
  <2> QED BY <2>1 DEF Run
<1>3. Up(S, Q, b, G, n)
  <2> SUFFICES ASSUME NEW x \in G
               PROVE  /\ \E k \in 1 .. Len(S) : k <= n /\ Completes(S[k], x)
                      /\ CarriersIn(S, x) \subseteq Q
                      /\ \A y \in Pieces(b) : x < y
    BY DEF Up
  <2>1. PICK k \in 1 .. Len(S) : k <= m /\ Completes(S[k], x)
    BY DEF Up
  <2>2. k <= n
    BY <2>1, <1>1
  <2> QED BY <2>1, <2>2 DEF Up
<1> QED BY <1>2, <1>3

(* Forgetting what the buffer holds harms nothing that went up. *)
LEMMA RunEmpty ==
  ASSUME NEW S, Sent(S), NEW P, NEW n, NEW b, Run(S, P, b, n), NEW G, Up(S, P, b, G, n)
  PROVE  Run(S, P, <<>>, n) /\ Up(S, P, <<>>, G, n)
<1> DEFINE none == <<>>
<1>1. none \in Seq(SegmentType) /\ 1 .. Len(none) = {}
  OBVIOUS
<1> HIDE DEF none
<1>2. Run(S, P, none, n)
  BY <1>1 DEF Run
<1>3. Pieces(none) = {}
  BY <1>1 DEF Pieces
<1>4. Up(S, P, none, G, n)
  BY <1>3 DEF Up
<1> QED BY <1>2, <1>4 DEF none

(* A segment enters the buffer. *)
LEMMA InsertKeeps ==
  ASSUME NEW S, Sent(S), NEW P, NEW n \in P, n \in 0 .. Len(S) - 1, NEW b, Run(S, P, b, n),
         NEW G, Up(S, P, b, G, n), accepts(b, S[n + 1])
  PROVE  LET t == insert(b, S[n + 1]) IN Run(S, P, t, n + 1) /\ Up(S, P, t, G, n + 1)
<1> DEFINE c == S[n + 1]
           d == IF b = <<>> /\ ~c.begin THEN Beheaded(c) ELSE c
           t == insert(b, c)
           l == Len(b)
           m == n + 1
<1>1. /\ Len(S) \in Nat /\ n \in Nat /\ m \in 1 .. Len(S) /\ m = n + 1 /\ S \in Seq(SegmentType)
      /\ b \in Seq(SegmentType) /\ l \in Nat /\ (b = <<>> <=> l = 0)
  BY EmptySeq DEF Sent, Run
<1>2. c \in SegmentType /\ c.pdus \in Seq(SDU) /\ c.pdus \in Seq(Int) /\ ToSet(c.pdus) \subseteq Int
      /\ c.begin \in BOOLEAN /\ c.end \in BOOLEAN
  <2>1. c \in SegmentType /\ c.pdus \in Seq(SDU) /\ c.pdus \in Seq(Int) /\ ToSet(c.pdus) \subseteq Int
    BY <1>1, PdusIn
  <2> QED BY <2>1 DEF SegmentType
<1>3. c.pdus /= <<>> /\ Ascending(c.pdus) /\ c.sn = n
  <2>1. c.pdus /= <<>> /\ Ascending(c.pdus)
    BY <1>1 DEF Sent, Chained
  <2>2. c.sn = (n + 1) - 1
    BY <1>1 DEF Sent
  <2> QED BY <2>1, <2>2, <1>1
<1>4. b = <<>> => c.begin \/ Len(c.pdus) > 1
  BY DEF accepts
<1>5. b /= <<>> => c.sn = b[l].sn + 1
  BY DEF accepts, Last
<1> HIDE DEF c, l, m
<1>6. t = Append(b, d)
  BY DEF insert
<1>7. /\ d \in SegmentType /\ d.sn = n /\ d.end = c.end
      /\ d.pdus /= <<>> /\ Ascending(d.pdus) /\ ToSet(d.pdus) \subseteq ToSet(c.pdus)
      /\ d.pdus[Len(d.pdus)] = c.pdus[Len(c.pdus)]
      /\ b /= <<>> => d = c
      /\ ~(b /= <<>>) /\ ~c.begin => \A y \in ToSet(d.pdus) : c.pdus[1] < y
  <2>1. CASE b = <<>> /\ ~c.begin
    <3>1. d = Beheaded(c) /\ Len(c.pdus) > 1
      BY <2>1, <1>4
    <3>2. d \in SegmentType /\ d.pdus = Tail(c.pdus) /\ d.sn = c.sn /\ d.end = c.end
      BY <3>1, <1>2, BeheadedIs
    <3>3. d.pdus /= <<>> /\ ToSet(d.pdus) \subseteq ToSet(c.pdus) /\ d.pdus[Len(d.pdus)] = c.pdus[Len(c.pdus)]
      BY <3>1, <3>2, <1>2, <1>3, SetOfTail
    <3>4. Ascending(d.pdus) /\ \A y \in ToSet(d.pdus) : c.pdus[1] < y
      BY <3>2, <1>2, <1>3, AscendingTail
    <3> HIDE DEF d
    <3> QED BY <2>1, <3>2, <3>3, <3>4, <1>3
  <2>2. CASE ~(b = <<>> /\ ~c.begin)
    <3>1. d = c
      BY <2>2
    <3> HIDE DEF d
    <3> QED BY <2>2, <3>1, <1>2, <1>3
  <2> QED BY <2>1, <2>2
<1>8. IsPartOf(d, c)
  <2> HIDE DEF d
  <2> QED BY <1>7 DEF IsPartOf
<1> HIDE DEF t, d
<1>9. /\ t \in Seq(SegmentType) /\ Len(t) = l + 1 /\ t[l + 1] = d
      /\ \A i \in 1 .. l : t[i] = b[i]
      /\ \A i \in 1 .. Len(t) : i \in 1 .. l \/ i = l + 1
  BY <1>1, <1>6, <1>7, OneMore DEF l
<1>10. \A j \in 1 .. Len(S) : \A x \in ToSet(S[j].pdus), y \in ToSet(c.pdus) : j < m =>
         x \in Int /\ y \in Int /\ x <= y /\ (x = y => ~Completes(S[j], x) /\ ~c.begin)
  <2> TAKE j \in 1 .. Len(S)
  <2> TAKE x \in ToSet(S[j].pdus), y \in ToSet(c.pdus)
  <2> HAVE j < m
  <2>1. x \in Int
    BY <1>1, PdusIn
  <2>2. c = S[m]
    BY DEF c, m
  <2> QED BY <2>1, <2>2, <1>1, <1>2 DEF Sent, Chained
<1>11. Up(S, P, t, G, n + 1)
  <2> SUFFICES ASSUME NEW x \in G
               PROVE  /\ \E k \in 1 .. Len(S) : k <= n + 1 /\ Completes(S[k], x)
                      /\ CarriersIn(S, x) \subseteq P
                      /\ \A y \in Pieces(t) : x < y
    BY DEF Up
  <2>1. PICK k \in 1 .. Len(S) : k <= n /\ Completes(S[k], x)
    BY DEF Up
  <2>2. k <= n + 1 /\ k < m
    BY <2>1, <1>1
  <2>3. x \in ToSet(S[k].pdus)
    BY <2>1 DEF Completes, ToSet
  <2>4. ASSUME NEW y \in Pieces(t)
        PROVE  x < y
    <3>1. PICK i \in 1 .. Len(t) : y \in ToSet(t[i].pdus)
      BY DEF Pieces
    <3>2. CASE i \in 1 .. l
      <4>1. y \in Pieces(b)
        BY <3>1, <3>2, <1>9 DEF Pieces, l
      <4> QED BY <4>1 DEF Up
    <3>3. CASE i = l + 1
      <4>1. y \in ToSet(c.pdus)
        BY <3>1, <3>3, <1>7, <1>9
      <4>2. x \in Int /\ y \in Int /\ x <= y /\ x /= y
        BY <2>1, <2>2, <2>3, <4>1, <1>10
      <4> QED BY <4>2
    <3> QED BY <3>2, <3>3, <1>9
  <2> QED BY <2>1, <2>2, <2>4 DEF Up
<1>12. ASSUME NEW y \in ToSet(d.pdus), NEW k \in CarriersIn(S, y)
       PROVE  t[1].sn <= k
  <2>1. k \in 0 .. Len(S) - 1 /\ y \in ToSet(S[k + 1].pdus) /\ k \in Int /\ k + 1 \in 1 .. Len(S)
    BY <1>1 DEF CarriersIn
  <2>2. y \in ToSet(c.pdus)
    BY <1>7, <1>12
  <2>3. CASE b = <<>>
    <3>1. t[1].sn = n
      BY <2>3, <1>1, <1>7, <1>9
    <3>2. ASSUME k < n
          PROVE  FALSE
      <4>1. k + 1 < m
        BY <2>1, <3>2, <1>1
      <4>2. ~c.begin
        BY <2>1, <2>2, <4>1, <1>10
      <4>3. c.pdus[1] < y
        BY <2>3, <4>2, <1>7, <1>12
      <4>4. c.pdus[1] \in ToSet(c.pdus)
        BY <1>2, <1>3, SetOfTail
      <4>5. y <= c.pdus[1] /\ y \in Int /\ c.pdus[1] \in Int
        BY <2>1, <4>1, <4>4, <1>10
      <4> QED BY <4>3, <4>5
    <3> QED BY <2>1, <3>1, <3>2, <1>1
  <2>4. CASE b /= <<>>
    <3>1. 1 \in 1 .. Len(b) /\ t[1] = b[1]
      BY <2>4, <1>1, <1>9 DEF l
    <3>2. /\ b[1].sn + 1 \in 1 .. Len(S) /\ b[1].sn + 1 <= n
          /\ b[1].pdus \in Seq(SDU) /\ b[1].pdus /= <<>>
          /\ ToSet(b[1].pdus) \subseteq ToSet(S[b[1].sn + 1].pdus)
      <4>1. b[1].sn + 1 \in 1 .. Len(S) /\ b[1].sn + 1 <= n
        BY <3>1, RunPlaces
      <4>2. b[1].pdus \in Seq(SDU) /\ b[1].pdus /= <<>>
        BY <3>1, RunPlaces
      <4>3. ToSet(b[1].pdus) \subseteq ToSet(S[b[1].sn + 1].pdus)
        BY <3>1, RunPlaces
      <4> QED BY <4>1, <4>2, <4>3
    <3>3. b[1].sn \in Nat /\ \A v \in ToSet(b[1].pdus) : \A j \in CarriersIn(S, v) : b[1].sn <= j
      BY <3>1, RunNumbers
    <3>4. ASSUME k < b[1].sn
          PROVE  FALSE
      <4> DEFINE z == b[1].pdus[1]
      <4>1. z \in ToSet(b[1].pdus) /\ z \in ToSet(S[b[1].sn + 1].pdus)
        BY <3>2, SetOfTail
      <4>2. b[1].sn + 1 < m /\ k + 1 < m
        BY <2>1, <3>2, <3>3, <3>4, <1>1
      <4> HIDE DEF z
      <4>3. z <= y /\ z \in Int /\ y \in Int
        BY <2>2, <3>2, <4>1, <4>2, <1>10
      <4>4. y <= z
        BY <3>1, <3>4, <4>1, RunBefore
      <4>5. y = z
        BY <4>3, <4>4
      <4>6. b[1].sn <= k
        BY <3>3, <4>1, <4>5
      <4> QED BY <2>1, <3>3, <3>4, <4>6
    <3>5. b[1].sn <= k
      <4> DEFINE f == b[1].sn
      <4>1. f \in Nat /\ ~(k < f)
        BY <3>3, <3>4
      <4> HIDE DEF f
      <4>2. f <= k
        BY <2>1, <4>1
      <4> QED BY <4>2 DEF f
    <3> QED BY <3>1, <3>5
  <2> QED BY <2>3, <2>4
<1>13. ASSUME NEW i \in 1 .. Len(t)
       PROVE  /\ t[i].sn = t[1].sn + i - 1
              /\ t[i].sn \in P /\ t[i].sn < n + 1
              /\ IsPartOf(t[i], S[t[i].sn + 1])
              /\ i > 1 => t[i] = S[t[i].sn + 1]
              /\ \A y \in ToSet(t[i].pdus) : \A k \in CarriersIn(S, y) : t[1].sn <= k
  <2>1. CASE i \in 1 .. l
    <3>1. t[i] = b[i] /\ t[1] = b[1] /\ i \in 1 .. Len(b)
      BY <2>1, <1>1, <1>9 DEF l
    <3>2. /\ b[i].sn = b[1].sn + i - 1
          /\ b[i].sn \in P /\ b[i].sn < n
          /\ IsPartOf(b[i], S[b[i].sn + 1])
          /\ i > 1 => b[i] = S[b[i].sn + 1]
          /\ \A y \in ToSet(b[i].pdus) : \A k \in CarriersIn(S, y) : b[1].sn <= k
      BY <3>1 DEF Run
    <3>3. b[i].sn < n + 1
      <4>1. b[i].sn \in Nat
        BY <3>1, RunNumbers
      <4> QED BY <4>1, <3>2, <1>1
    <3> QED BY <3>1, <3>2, <3>3
  <2>2. CASE i = l + 1
    <3>1. t[i] = d /\ d.sn = n /\ n < n + 1 /\ IsPartOf(d, S[n + 1])
      BY <2>2, <1>1, <1>7, <1>8, <1>9 DEF c
    <3>2. i > 1 => d = S[n + 1]
      BY <2>2, <1>1, <1>7 DEF c
    <3>3. d.sn = t[1].sn + i - 1
      <4>1. CASE b = <<>>
        BY <2>2, <3>1, <4>1, <1>1, <1>9
      <4>2. CASE b /= <<>>
        <5>1. l \in 1 .. Len(b) /\ 1 \in 1 .. l
          BY <4>2, <1>1 DEF l
        <5>2. t[1] = b[1] /\ n = b[l].sn + 1
          BY <4>2, <5>1, <1>3, <1>5, <1>9
        <5>3. b[l].sn = b[1].sn + l - 1 /\ b[1].sn \in Nat
          BY <5>1, RunNumbers
        <5> DEFINE f == b[1].sn
                   g == b[l].sn
        <5>4. f \in Nat /\ g = f + l - 1 /\ n = g + 1
          BY <5>2, <5>3
        <5> HIDE DEF f, g
        <5>5. n = f + i - 1
          BY <2>2, <5>4, <1>1
        <5> QED BY <3>1, <5>2, <5>5 DEF f
      <4> QED BY <4>1, <4>2
    <3> QED BY <3>1, <3>2, <3>3, <1>12
  <2> QED BY <2>1, <2>2, <1>9
<1>14. Run(S, P, t, n + 1)
  <2>1. n + 1 \in 0 .. Len(S)
    BY <1>1
  <2> QED BY <2>1, <1>9, <1>13 DEF Run
<1> QED BY <1>11, <1>14 DEF t, c

(* The buffer forgets what it holds if a number is left out. *)
LEMMA EnteredKeeps ==
  ASSUME NEW S, Sent(S), NEW P, NEW n \in P, n \in 0 .. Len(S) - 1, NEW b, Run(S, P, b, n),
         NEW G, Up(S, P, b, G, n)
  PROVE  LET t == Entered(b, S[n + 1]) IN Run(S, P, t, n + 1) /\ Up(S, P, t, G, n + 1)
<1> DEFINE c == S[n + 1]
           kept == IF accepts(b, c) THEN b ELSE <<>>
           m == n + 1
<1>1. Len(S) \in Nat /\ m \in 0 .. Len(S) /\ n <= m
  BY DEF Sent
<1>2. Run(S, P, kept, n) /\ Up(S, P, kept, G, n)
  <2>1. CASE accepts(b, c)
    <3>1. kept = b
      BY <2>1
    <3> QED BY <3>1
  <2>2. CASE ~accepts(b, c)
    <3>1. kept = <<>>
      BY <2>2
    <3> QED BY <3>1, RunEmpty
  <2> QED BY <2>1, <2>2
<1>3. Entered(b, c) = IF accepts(kept, c) THEN insert(kept, c) ELSE kept
  BY DEF Entered
<1> HIDE DEF kept
<1>4. CASE accepts(kept, c)
  <2>1. Entered(b, c) = insert(kept, c)
    BY <1>3, <1>4
  <2> QED BY <2>1, <1>2, <1>4, InsertKeeps
<1>5. CASE ~accepts(kept, c)
  <2>1. Entered(b, c) = kept
    BY <1>3, <1>5
  <2> HIDE DEF c, m
  <2>2. Run(S, P, kept, m) /\ Up(S, P, kept, G, m)
    BY <1>1, <1>2, RunLater
  <2> QED BY <2>1, <2>2 DEF c, m
<1> QED BY <1>4, <1>5

-----------------------------------------------------------------------------
(* What the receiver holds and gave up to the upper layer.                 *)
Upward(S, P, next, b, got) ==
  /\ Run(S, P, b, next)
  /\ got \in Seq(SDU) /\ Once(got)
  /\ Up(S, P, b, ToSet(got), next)

(* Segment n is handed on. *)
LEMMA HandedKeeps ==
  ASSUME Sent(segments), NEW P, NEW n \in P, n \in 0 .. Len(segments) - 1,
         NEW r, Upward(segments, P, n, r.buffer, r.received)
  PROVE  LET t == onReorderedPDU(r, n) IN Upward(segments, P, n + 1, t.buffer, t.received)
<1> DEFINE S == segments
           got == r.received
           b == Entered(r.buffer, S[n + 1])
           taken == getReassembledSegments(b)
           u == taken.buffer
           xs == taken.sdus
           all == got \o xs
           t == onReorderedPDU(r, n)
           G == ToSet(got)
           none == <<>>
           m == n + 1
<1>1. t.buffer = u /\ t.received = all
  BY DEF onReorderedPDU
<1>2. got \in Seq(SDU) /\ Once(got)
  BY DEF Upward
<1>3. Run(S, P, b, m) /\ Up(S, P, b, G, m)
  BY EnteredKeeps DEF Upward
<1>4. Good(S, P, m, b, <<>>, G)
  <2>1. none \in Seq(SDU) /\ ToSet(none) = {} /\ 1 .. Len(none) = {}
    BY DEF ToSet
  <2> HIDE DEF none, G, b, S, m
  <2>2. Once(none) /\ G \union ToSet(none) = G /\ ToSet(none) \intersect G = {}
    BY <2>1 DEF Once
  <2>3. Good(S, P, m, b, none, G)
    BY <1>3, <2>1, <2>2 DEF Good
  <2> QED BY <2>3 DEF none
<1> HIDE DEF b, G, m
<1>5. Good(S, P, m, u, xs, G)
  BY <1>4, ReassembledIs
<1> HIDE DEF u, xs, S, got, t
<1>6. xs \in Seq(SDU) /\ Once(xs) /\ G \intersect ToSet(xs) = {} /\ Run(S, P, u, m)
      /\ Up(S, P, u, G \union ToSet(xs), m)
  BY <1>5 DEF Good
<1>7. all \in Seq(SDU) /\ Once(all) /\ ToSet(all) = G \union ToSet(xs)
  BY <1>2, <1>6, OnceConcat DEF G
<1> HIDE DEF all
<1>8. Upward(S, P, m, u, all)
  BY <1>6, <1>7 DEF Upward
<1> QED BY <1>1, <1>8 DEF S, t, m

(* The signals of one call, one after the other. *)
IsPassing(f, n) ==
  f = [i \in 0 .. n |-> IF i = 0 THEN [buffer |-> buffer, received |-> received]
                                 ELSE Passed(f[i - 1], i - 1)]

(* The signals of a call exist for every number of them. *)
LEMMA PassingExists ==
  ASSUME NEW l \in Nat
  PROVE  \E f : IsPassing(f, l)
<1> DEFINE T == {n \in Nat : ~ \E f : IsPassing(f, n)}
<1>1. T \in SUBSET Nat
  OBVIOUS
<1>2. ASSUME T /= {}
      PROVE  FALSE
  <2>1. PICK n \in T : \A m \in T : n <= m
    BY <1>1, <1>2, LeastElement
  <2>2. CASE n = 0
    <3>1. IsPassing([i \in 0 .. 0 |-> [buffer |-> buffer, received |-> received]], 0)
      BY DEF IsPassing
    <3> QED BY <3>1, <2>1, <2>2
  <2>3. CASE n /= 0
    <3>1. n - 1 \notin T /\ n - 1 \in Nat /\ n \in Nat
      BY <2>1, <2>3
    <3>2. PICK f : IsPassing(f, n - 1)
      BY <3>1
    <3> DEFINE g == [i \in 0 .. n |-> IF i = n THEN Passed(f[n - 1], n - 1) ELSE f[i]]
    <3>3. \A i \in 0 .. n : g[i] = IF i = 0 THEN [buffer |-> buffer, received |-> received]
                                            ELSE Passed(g[i - 1], i - 1)
      BY <3>1, <3>2, <2>3 DEF IsPassing
    <3>4. g = [i \in 0 .. n |-> g[i]]
      OBVIOUS
    <3> HIDE DEF g
    <3>5. IsPassing(g, n)
      BY <3>3, <3>4 DEF IsPassing
    <3> QED BY <3>5, <2>1
  <2> QED BY <2>2, <2>3
<1> QED BY <1>2

(* What a call leaves is what its last signal left. *)
LEMMA PassingSteps ==
  ASSUME Reassemble, vrUR' \in Nat
  PROVE  \E f : /\ buffer' = f[vrUR'].buffer /\ received' = f[vrUR'].received
                /\ f[0].buffer = buffer /\ f[0].received = received
                /\ \A i \in 1 .. vrUR' : f[i] = Passed(f[i - 1], i - 1)
<1> DEFINE l == vrUR'
           f == CHOOSE f : IsPassing(f, l)
<1>1. buffer' = f[l].buffer /\ received' = f[l].received
  BY DEF Reassemble, IsPassing
<1> HIDE DEF l
<1>2. IsPassing(f, l)
  BY PassingExists DEF l
<1> HIDE DEF f
<1>3. \A i \in 0 .. l : f[i] = IF i = 0 THEN [buffer |-> buffer, received |-> received]
                                        ELSE Passed(f[i - 1], i - 1)
  BY <1>2, Zenon DEF IsPassing
<1>4. l \in Nat
  BY DEF l
<1>5. f[0] = [buffer |-> buffer, received |-> received]
  BY <1>3, <1>4
<1>6. \A i \in 1 .. l : f[i] = Passed(f[i - 1], i - 1)
  BY <1>3, <1>4
<1>7. f[0].buffer = buffer /\ f[0].received = received
  BY <1>5
<1> QED BY <1>1, <1>6, <1>7 DEF l

(* What holds at a number holds at a later one. *)
LEMMA UpwardLater ==
  ASSUME NEW S, Sent(S), NEW P, NEW Q, P \subseteq Q, NEW m, NEW n, n \in 0 .. Len(S), m <= n,
         NEW b, NEW got, Upward(S, P, m, b, got)
  PROVE  Upward(S, Q, n, b, got)
<1>1. Run(S, P, b, m) /\ Up(S, P, b, ToSet(got), m)
  BY DEF Upward
<1>2. Run(S, Q, b, n) /\ Up(S, Q, b, ToSet(got), n)
  BY <1>1, RunLater
<1> QED BY <1>2 DEF Upward

(* A call of the window hands segments on, all of them at or after vrUR. *)
LEMMA ReassembleKeeps ==
  ASSUME Sent(segments), NEW P, NEW Q, P \subseteq Q, Reassemble, HandedOn,
         vrUR \in Nat, vrUR' \in Nat, vrUR <= vrUR', vrUR' <= Len(segments),
         reassembled' \subseteq Q, reassembled' \subseteq Nat,
         Upward(segments, P, vrUR, buffer, received)
  PROVE  Upward(segments, Q, vrUR', buffer', received')
<1> DEFINE S == segments
           l == vrUR'
           o == vrUR
           Bound(i) == IF i <= o THEN o ELSE i
           handed == reassembled'
<1>1. PICK f : /\ buffer' = f[l].buffer /\ received' = f[l].received
               /\ f[0].buffer = buffer /\ f[0].received = received
               /\ \A i \in 1 .. l : f[i] = Passed(f[i - 1], i - 1)
  BY PassingSteps
<1> DEFINE Held(i) == Upward(S, Q, Bound(i), f[i].buffer, f[i].received)
<1>2. /\ l \in Nat /\ o \in Nat /\ o <= l /\ Len(S) \in Nat /\ l <= Len(S)
      /\ \A k \in handed : o <= k /\ k < l
  BY DEF Sent, HandedOn
<1>3. Held(0)
  <2>1. Bound(0) = o /\ o \in 0 .. Len(S) /\ o <= o
    BY <1>2
  <2>2. Upward(S, Q, o, buffer, received)
    <3> HIDE DEF o, S
    <3> QED BY <2>1, UpwardLater DEF o, S
  <2> QED BY <2>1, <2>2, <1>1
<1>4. ASSUME NEW i \in 1 .. l, Held(i - 1)
      PROVE  Held(i)
  <2> DEFINE r == f[i - 1]
             k == i - 1
  <2>1. f[i] = IF k \in handed THEN onReorderedPDU(r, k) ELSE r
    BY <1>1 DEF Passed
  <2>2. k \in Nat /\ k \in 0 .. Len(S) - 1 /\ i = k + 1 /\ i \in 0 .. Len(S) /\ k + 1 \in 1 .. l
    BY <1>2
  <2>3. Upward(S, Q, Bound(k), r.buffer, r.received)
    BY <1>4
  <2>4. CASE k \in handed
    <3>1. Bound(k) = k /\ Bound(i) = k + 1 /\ k \in Q
      BY <2>2, <2>4, <1>2
    <3>2. Upward(S, Q, k, r.buffer, r.received)
      BY <2>3, <3>1
    <3> HIDE DEF r, k
    <3>3. LET t == onReorderedPDU(r, k) IN Upward(S, Q, k + 1, t.buffer, t.received)
      BY <2>2, <3>1, <3>2, HandedKeeps
    <3>4. f[i] = onReorderedPDU(r, k)
      BY <2>1, <2>4
    <3> QED BY <3>1, <3>3, <3>4
  <2>5. CASE k \notin handed
    <3>1. Bound(k) <= Bound(i) /\ Bound(i) \in 0 .. Len(S)
      BY <2>2, <1>2
    <3>2. f[i] = r
      BY <2>1, <2>5
    <3> HIDE DEF Bound, r, k
    <3>3. Upward(S, Q, Bound(i), r.buffer, r.received)
      BY <2>3, <3>1, UpwardLater
    <3> QED BY <3>2, <3>3
  <2> QED BY <2>4, <2>5
<1> HIDE DEF Held
<1> DEFINE T == {i \in 0 .. l : ~Held(i)}
<1>5. T = {}
  <2> HIDE DEF l
  <2> SUFFICES ASSUME T /= {}
               PROVE  FALSE
    OBVIOUS
  <2>1. T \in SUBSET Nat
    BY <1>2
  <2>2. PICK i \in T : \A j \in T : i <= j
    <3> HIDE DEF T
    <3> QED BY <2>1, LeastElement
  <2>3. i \in 1 .. l /\ i - 1 \in 0 .. l /\ ~(i <= i - 1) /\ ~Held(i)
    BY <2>2, <1>2, <1>3
  <2>4. Held(i - 1)
    BY <2>2, <2>3
  <2> QED BY <2>3, <2>4, <1>4
<1>6. Held(l) /\ Bound(l) = l
  BY <1>2, <1>5
<1> QED BY <1>1, <1>6 DEF Held

(* A segment more is sent: none of the SDUs that went up is in it. *)
LEMMA SentMoreKeeps ==
  ASSUME NEW S, Sent(S), NEW c, Sent(Append(S, c)), c \in SegmentType, NEW P, NEW next, NEW b, NEW got,
         Upward(S, P, next, b, got)
  PROVE  Upward(Append(S, c), P, next, b, got)
<1> DEFINE t == Append(S, c)
           l == Len(S)
           G == ToSet(got)
<1>1. /\ l \in Nat /\ Len(t) = l + 1 /\ next \in 0 .. l
      /\ Run(S, P, b, next) /\ Up(S, P, b, G, next)
  BY OneMore DEF Sent, Upward, Run
<1>2. \A i \in 1 .. l : t[i] = S[i]
  BY OneMore DEF Sent
<1> HIDE DEF t, l
<1>3. ASSUME NEW y, NEW k \in CarriersIn(t, y), k \notin CarriersIn(S, y)
      PROVE  k = l /\ y \in ToSet(t[k + 1].pdus)
  <2>1. k \in 0 .. l /\ y \in ToSet(t[k + 1].pdus)
    BY <1>1 DEF CarriersIn
  <2>2. ASSUME k \in 0 .. l - 1
        PROVE  FALSE
    <3>1. t[k + 1] = S[k + 1]
      BY <2>2, <1>1, <1>2
    <3>2. k \in CarriersIn(S, y)
      BY <2>1, <2>2, <3>1 DEF CarriersIn, l
    <3> QED BY <3>2, <1>3
  <2> QED BY <2>1, <2>2, <1>1
<1>4. Run(t, P, b, next)
  <2>1. ASSUME NEW i \in 1 .. Len(b)
        PROVE  /\ b[i].sn = b[1].sn + i - 1
               /\ b[i].sn \in P /\ b[i].sn < next
               /\ IsPartOf(b[i], t[b[i].sn + 1])
               /\ i > 1 => b[i] = t[b[i].sn + 1]
               /\ \A y \in ToSet(b[i].pdus) : \A k \in CarriersIn(t, y) : b[1].sn <= k
    <3>1. /\ b[i].sn = b[1].sn + i - 1
          /\ b[i].sn \in P /\ b[i].sn < next
          /\ IsPartOf(b[i], S[b[i].sn + 1])
          /\ i > 1 => b[i] = S[b[i].sn + 1]
          /\ \A y \in ToSet(b[i].pdus) : \A k \in CarriersIn(S, y) : b[1].sn <= k
      BY <1>1 DEF Run
    <3>2. t[b[i].sn + 1] = S[b[i].sn + 1]
      <4>1. b[i].sn + 1 \in 1 .. Len(S)
        BY <1>1, RunPlaces
      <4> QED BY <4>1, <1>2 DEF l
    <3>3. ASSUME NEW y \in ToSet(b[i].pdus), NEW k \in CarriersIn(t, y)
          PROVE  b[1].sn <= k
      <4>1. CASE k \in CarriersIn(S, y)
        BY <4>1, <3>1
      <4>2. CASE k \notin CarriersIn(S, y)
        <5>1. k = l
          BY <4>2, <1>3
        <5>2. 1 \in 1 .. Len(b) /\ b[1].sn \in Nat
          BY <1>1, RunPlaces
        <5>3. b[1].sn < next
          BY <5>2, <1>1 DEF Run
        <5> DEFINE f == b[1].sn
        <5>4. f \in Nat /\ f < next
          BY <5>2, <5>3
        <5> HIDE DEF f
        <5>5. f <= l
          BY <5>4, <1>1
        <5> QED BY <5>1, <5>5 DEF f
      <4> QED BY <4>1, <4>2
    <3> QED BY <3>1, <3>2, <3>3
  <2>2. next \in 0 .. Len(t) /\ b \in Seq(SegmentType)
    BY <1>1 DEF Run
  <2> QED BY <2>1, <2>2 DEF Run
<1>5. Up(t, P, b, G, next)
  <2> SUFFICES ASSUME NEW n \in G
               PROVE  /\ \E k \in 1 .. Len(t) : k <= next /\ Completes(t[k], n)
                      /\ CarriersIn(t, n) \subseteq P
                      /\ \A y \in Pieces(b) : n < y
    BY DEF Up
  <2>1. CarriersIn(S, n) \subseteq P /\ \A y \in Pieces(b) : n < y
    BY <1>1 DEF Up
  <2>2. PICK k \in 1 .. l : k <= next /\ Completes(S[k], n)
    BY <1>1 DEF Up, l
  <2>3. k \in 1 .. Len(t) /\ Completes(t[k], n)
    BY <2>2, <1>1, <1>2
  <2>4. ASSUME NEW j \in CarriersIn(t, n), j \notin CarriersIn(S, n)
        PROVE  FALSE
    <3>1. j = l /\ n \in ToSet(t[l + 1].pdus) /\ l + 1 \in 1 .. Len(t)
      BY <2>4, <1>3, <1>1
    <3>2. l + 1 <= k
      BY <3>1, <2>3, NoneAfter DEF t
    <3> QED BY <3>2, <1>1, <2>2
  <2> QED BY <2>1, <2>2, <2>3, <2>4
<1> QED BY <1>4, <1>5 DEF Upward, t

-----------------------------------------------------------------------------
(* The whole link.                                                         *)
ReceiverInv ==
  /\ Upward(segments, placed, vrUR, buffer, received)
  /\ reorderWindow \subseteq placed
  /\ placed \subseteq 0 .. sequenceNumber - 1

LinkInv == SenderInv /\ WindowInv /\ NetInv /\ ReceiverInv

(* The sender numbers its segments and chains them. *)
LEMMA SegmentsAreSent == SenderInv => Sent(segments) /\ sequenceNumber = Len(segments)
  BY DEF SenderInv, SenderTypes, SenderOrder, Sent

(* The link begins with nothing. *)
LEMMA InitLinkInv == Init => LinkInv
<1> SUFFICES ASSUME Init
             PROVE  LinkInv
  OBVIOUS
<1>1. SenderInv /\ WindowInv /\ NetInv
  BY InitSender, InitWindowInv, InitNetInv DEF Init
<1> DEFINE none == <<>>
<1>2. /\ none \in Seq(SDU) /\ none \in Seq(SegmentType) /\ 1 .. Len(none) = {} /\ ToSet(none) = {}
      /\ Len(none) = 0
  BY DEF ToSet
<1> HIDE DEF none
<1>3. /\ segments = none /\ buffer = none /\ received = none /\ placed = {} /\ vrUR = 0 /\ reorderWindow = {}
  BY DEF Init, QueueInit, WindowInit, none
<1>4. Run(segments, placed, buffer, vrUR)
  BY <1>2, <1>3 DEF Run
<1>5. Once(received) /\ Up(segments, placed, buffer, ToSet(received), vrUR)
  BY <1>2, <1>3 DEF Once, Up
<1> QED BY <1>1, <1>2, <1>3, <1>4, <1>5 DEF LinkInv, ReceiverInv, Upward

(* The window holds back and hands on what it held or what comes. *)
LEMMA WindowHolds ==
  ASSUME NEW n, onSegment(n)
  PROVE  /\ reorderWindow' \subseteq reorderWindow \union {n}
         /\ reassembled' \subseteq reorderWindow \union {n}
<1>1. CASE discard
  BY <1>1 DEF discard
<1>2. CASE Place(n)
  BY <1>2 DEF Place, Below, From
<1> QED BY <1>1, <1>2 DEF onSegment

(* Every step of the link keeps the invariant of the receiver. *)
LEMMA ReceiverStep ==
  ASSUME ByteAlign = FALSE, LinkInv, [Next]_vars
  PROVE  ReceiverInv'
<1>1. /\ Sent(segments) /\ sequenceNumber = Len(segments)
      /\ Sent(segments') /\ sequenceNumber' = Len(segments')
      /\ Len(segments) \in Nat
  <2>1. SenderInv /\ SenderInv'
    BY SenderStep DEF LinkInv
  <2>2. Sent(segments) /\ sequenceNumber = Len(segments)
    BY <2>1, SegmentsAreSent
  <2>3. Sent(segments') /\ sequenceNumber' = Len(segments')
    <3>1. SenderInv' => Sent(segments') /\ sequenceNumber' = Len(segments')
      BY DEF SenderInv, SenderTypes, SenderOrder, Sent
    <3> QED BY <2>1, <3>1
  <2> QED BY <2>2, <2>3 DEF Sent
<1>2. /\ Upward(segments, placed, vrUR, buffer, received)
      /\ reorderWindow \subseteq placed /\ placed \subseteq 0 .. sequenceNumber - 1
  BY DEF LinkInv, ReceiverInv
<1>3. WindowInv' /\ NetInv'
  <2>1. NetInv' /\ [WindowNext]_windowVars
    BY StepOfWindow DEF LinkInv
  <2> QED BY <2>1, NextKeepsInv DEF LinkInv
<1>4. vrUR \in Nat /\ vrUR' \in Nat /\ vrUR' <= Len(segments')
  BY <1>1, <1>3 DEF LinkInv, WindowInv, WindowTypeOK, HeldBackIsTimed, NetInv
<1>5. CASE UNCHANGED <<segmentVars, receiverVars>>
  BY <1>2, <1>5 DEF ReceiverInv, segmentVars, receiverVars
<1>6. ASSUME NEW c, segments' = Append(segments, c), sequenceNumber' = sequenceNumber + 1,
             c \in SegmentType, UNCHANGED receiverVars
      PROVE  ReceiverInv'
  <2>1. Upward(segments', placed, vrUR, buffer, received)
    BY <1>1, <1>2, <1>6, SentMoreKeeps
  <2>2. placed \subseteq 0 .. sequenceNumber' - 1
    BY <1>1, <1>2, <1>6
  <2> QED BY <1>2, <1>6, <2>1, <2>2 DEF ReceiverInv, receiverVars
<1>7. CASE PutSDU
  <2>1. UNCHANGED <<segmentVars, receiverVars>>
    BY <1>7 DEF PutSDU, Put, PutDropped, segmentVars, receiverVars, unitVars, windowVars
  <2> QED BY <2>1, <1>5
<1>8. CASE NewFrame
  <2>1. UNCHANGED <<segmentVars, receiverVars>>
    BY <1>8 DEF NewFrame, frameStarts, segmentVars, receiverVars, unitVars, windowVars
  <2> QED BY <2>1, <1>5
<1>9. CASE processOutgoing
  <2>1. UNCHANGED <<segmentVars, receiverVars>>
    BY <1>9 DEF processOutgoing
  <2> QED BY <2>1, <1>5
<1>10. CASE Lose
  <2>1. UNCHANGED <<segmentVars, receiverVars>>
    BY <1>10 DEF Lose
  <2> QED BY <2>1, <1>5
<1>11. CASE UNCHANGED vars
  <2>1. UNCHANGED <<segmentVars, receiverVars>>
    BY <1>11 DEF vars, segmentVars, receiverVars, unitVars, windowVars
  <2> QED BY <2>1, <1>5
<1>12. CASE Grant \/ getSomethingToSend
  <2>1. PICK c : segments' = Append(segments, c) /\ sequenceNumber' = sequenceNumber + 1
    BY <1>12 DEF Grant, getHeadOfLinePDUSegment, getSomethingToSend
  <2>2. c \in SegmentType
    <3>1. segments' \in Seq(SegmentType) /\ segments \in Seq(SegmentType)
      BY <1>1 DEF Sent
    <3>2. segments'[Len(segments) + 1] = c /\ Len(segments') = Len(segments) + 1
      BY <3>1, <2>1
    <3>3. Len(segments) + 1 \in 1 .. Len(segments')
      BY <3>2, <1>1
    <3> QED BY <3>1, <3>2, <3>3
  <2>3. UNCHANGED receiverVars
    BY <1>12 DEF Grant, getSomethingToSend
  <2> QED BY <2>1, <2>2, <2>3, <1>6
<1>13. CASE processIncoming
  <2>1. PICK n \in wire : /\ onSegment(n) /\ Reassemble
                          /\ placed' = placed \union ({n} \intersect (reorderWindow' \union reassembled'))
                          /\ UNCHANGED segmentVars
    BY <1>13 DEF processIncoming
  <2>2. n \in Nat /\ Timely(n) /\ n < sequenceNumber
    BY <2>1, ArrivalIsTimely DEF LinkInv, NetInv
  <2>3. HandedOn /\ vrUR <= vrUR'
    BY <2>1, <2>2, DiscardKeepsInv, PlaceKeepsInv DEF onSegment, LinkInv
  <2>4. reorderWindow' \subseteq reorderWindow \union {n} /\ reassembled' \subseteq reorderWindow \union {n}
    BY <2>1, WindowHolds
  <2>5. placed \subseteq placed' /\ reorderWindow' \subseteq placed' /\ reassembled' \subseteq placed'
    BY <2>1, <2>4, <1>2
  <2>6. segments' = segments /\ sequenceNumber' = sequenceNumber
    BY <2>1 DEF segmentVars
  <2>7. placed' \subseteq 0 .. sequenceNumber' - 1
    <3>1. sequenceNumber \in Nat
      BY DEF LinkInv, NetInv
    <3>2. n \in 0 .. sequenceNumber - 1
      BY <3>1, <2>2
    <3> QED BY <3>2, <2>1, <2>6, <1>2
  <2>8. reassembled' \subseteq Nat
    BY <1>3 DEF WindowInv, WindowTypeOK
  <2>9. Upward(segments, placed', vrUR', buffer', received')
    BY <1>1, <1>2, <1>4, <2>1, <2>3, <2>5, <2>6, <2>8, ReassembleKeeps
  <2> QED BY <2>5, <2>6, <2>7, <2>9 DEF ReceiverInv
<1>14. CASE TReorderingExpires
  <2>1. /\ onTReorderingExpired /\ Reassemble
        /\ placed' = placed /\ segments' = segments /\ sequenceNumber' = sequenceNumber
    BY <1>14 DEF TReorderingExpires, segmentVars
  <2>2. HandedOn /\ vrUR <= vrUR'
    BY <2>1, ExpiryKeepsInv DEF LinkInv
  <2>3. reorderWindow' \subseteq placed /\ reassembled' \subseteq placed
    BY <2>1, <1>2 DEF onTReorderingExpired, Below, From
  <2>4. reassembled' \subseteq Nat
    BY <1>3 DEF WindowInv, WindowTypeOK
  <2>5. Upward(segments, placed, vrUR', buffer', received')
    <3> DEFINE S == segments
               P == placed
    <3>1. P \subseteq P /\ vrUR' <= Len(S)
      BY <1>4, <2>1
    <3> QED BY <3>1, <1>1, <1>2, <1>4, <2>1, <2>2, <2>3, <2>4, ReassembleKeeps
  <2> QED BY <1>2, <2>1, <2>3, <2>5 DEF ReceiverInv
<1> QED BY <1>7, <1>8, <1>9, <1>10, <1>11, <1>12, <1>13, <1>14 DEF Next

(* Every step keeps the invariant of the link. *)
LEMMA LinkStep ==
  ASSUME ByteAlign = FALSE, LinkInv, [Next]_vars
  PROVE  LinkInv'
<1>1. SenderInv' /\ ReceiverInv'
  BY SenderStep, ReceiverStep DEF LinkInv
<1>2. NetInv' /\ [WindowNext]_windowVars
  BY StepOfWindow DEF LinkInv
<1>3. WindowInv'
  BY <1>2, NextKeepsInv DEF LinkInv
<1> QED BY <1>1, <1>2, <1>3 DEF LinkInv

(* The invariant of the link: the sender's, the window's, the network's and
   that of the reassembly buffer, which says of each segment held which one that
   was sent it is a part of, and of each SDU that went up that it precedes them. *)
THEOREM LinkIsSound ==
  ASSUME ByteAlign = FALSE
  PROVE  Spec => []LinkInv
<1>1. LinkInv /\ [Next]_vars => LinkInv'
  BY LinkStep
<1> QED BY InitLinkInv, <1>1, PTL DEF Spec

(* The invariant has the types; no number of bits is negative because the front
   SDU is never sent as a whole and kept. *)
LEMMA LinkHasTypes == LinkInv => TypeOK
<1> SUFFICES ASSUME LinkInv
             PROVE  TypeOK
  OBVIOUS
<1>1. SenderTypes /\ SenderBits /\ WindowTypeOK /\ NetInv /\ ReceiverInv
  BY DEF LinkInv, SenderInv, WindowInv
<1>2. buffer \in Seq(SegmentType) /\ received \in Seq(SDU)
  BY <1>1 DEF ReceiverInv, Upward, Run
<1>3. wire \subseteq 0 .. sequenceNumber - 1 /\ placed \subseteq 0 .. sequenceNumber - 1
  BY <1>1 DEF NetInv, ReceiverInv
<1>4. /\ pduQueue \in Seq(SDU) /\ frontSegmentSentBits \in Nat /\ nettoBits \in Nat
  <2>1. pduQueue \in Seq(SDU) /\ frontSegmentSentBits \in Nat
    BY <1>1 DEF SenderTypes, Contents
  <2>2. nettoBits \in Nat
    <3>1. nettoBits = SizesOf(pduQueue) - frontSegmentSentBits /\ Contents
      BY <1>1 DEF SenderTypes, SenderBits
    <3>2. CASE pduQueue = <<>>
      BY <3>1, <3>2, SizesOfEmpty DEF Contents
    <3>3. CASE pduQueue /= <<>>
      <4>1. /\ pduQueue[1] \in SDU /\ Tail(pduQueue) \in Seq(SDU)
            /\ SizesOf(pduQueue) = Size[pduQueue[1]] + SizesOf(Tail(pduQueue))
        BY <3>1, <3>3, SizesOfTail DEF Contents
      <4>2. SizesOf(Tail(pduQueue)) \in Nat
        BY <4>1, SizesOfType
      <4>4. Size[pduQueue[1]] \in Nat
        BY <4>1, SizeAssumption DEF SDU
      <4>3. frontSegmentSentBits \in Nat /\ frontSegmentSentBits < Size[pduQueue[1]]
        BY <3>1, <3>3 DEF Contents
      <4> QED BY <3>1, <4>1, <4>2, <4>3, <4>4
    <3> QED BY <3>2, <3>3
  <2> QED BY <2>1, <2>2
<1>5. DOMAIN segments = 1 .. Len(segments)
  BY <1>1 DEF SenderTypes
<1> QED BY <1>1, <1>2, <1>3, <1>4, <1>5 DEF TypeOK, SenderTypes

(* The types of the whole link: no number of bits falls below zero, and no
   segment is on its way or in the window that was not sent. *)
THEOREM LinkTypeCorrect ==
  ASSUME ByteAlign = FALSE
  PROVE  Spec => []TypeOK
<1>1. Spec => []LinkInv
  BY LinkIsSound
<1> QED BY <1>1, LinkHasTypes, PTL

(* What went up was whole, and its carriers had come. *)
LEMMA LinkDeliversWhole == LinkInv => DeliveredWholeOnce
<1> SUFFICES ASSUME LinkInv
             PROVE  DeliveredWholeOnce
  OBVIOUS
<1>1. /\ Upward(segments, placed, vrUR, buffer, received) /\ sequenceNumber = Len(segments)
      /\ segments \in Seq(SegmentType)
  BY SegmentsAreSent DEF LinkInv, ReceiverInv, Sent
<1>2. DOMAIN received = 1 .. Len(received) /\ Once(received) /\ DOMAIN segments = 1 .. Len(segments)
  BY <1>1 DEF Upward
<1>3. ASSUME NEW n \in ToSet(received)
      PROVE  Whole(n) /\ Carriers(n) \subseteq placed
  <2>1. /\ \E k \in 1 .. Len(segments) : Completes(segments[k], n)
        /\ CarriersIn(segments, n) \subseteq placed
    BY <1>1 DEF Upward, Up
  <2> QED BY <2>1, <1>1, <1>2 DEF Whole, Carriers, CarriersIn
<1> QED BY <1>2, <1>3 DEF DeliveredWholeOnce, Once

(* An SDU goes up at most once, and only if every segment with a piece of it
   came in time: ReassemblyBuffer never joins pieces of different SDUs, whatever
   is lost, overtaken or comes twice. *)
THEOREM DeliveredWhole ==
  ASSUME ByteAlign = FALSE
  PROVE  Spec => []DeliveredWholeOnce
<1>1. Spec => []LinkInv
  BY LinkIsSound
<1> QED BY <1>1, LinkDeliversWhole, PTL

=============================================================================
