-------------------------- MODULE ReorderingWindow --------------------------
(***************************************************************************)
(* wns::ldk::sar::reassembly::ReorderingWindow, the receiving side of the  *)
(* unacknowledged mode of 3GPP TS 36.322.  Segments come in any order; the *)
(* window hands them on in the order of their numbers and lets a timer     *)
(* decide when a missing one is given up.  A segment stands here for its   *)
(* number: all copies of it are equal.                                     *)
(***************************************************************************)
EXTENDS Integers

CONSTANT WindowSize    \* windowSize_ = 2^(snFieldLength - 1)

ASSUME WindowAssumption == WindowSize \in Nat \ {0}

VARIABLES
  vrUH,             \* vrUH_: the number after the highest one received
  vrUR,             \* vrUR_: the first number still waited for
  vrUX,             \* vrUX_: the value of vrUH_ when the timer was started
  reorderingTimer,  \* reorderingTimer_ is set and queued
  reorderWindow,    \* reorderWindow_: the segments held back (sorted by their numbers)
  reassembled       \* the segments the last call gave to the reassemble signal

windowVars == <<vrUH, vrUR, vrUX, reorderingTimer, reorderWindow, reassembled>>

WindowInit ==
  /\ vrUH = 0
  /\ vrUR = 0
  /\ vrUX = 0
  /\ reorderingTimer = FALSE
  /\ reorderWindow = {}
  /\ reassembled = {}

-----------------------------------------------------------------------------
(* fault: a number the window has passed is taken for a new one *)
isExpired_Never(n) == FALSE

isExpired(n) == vrUH - WindowSize <= n /\ n < vrUR

isConsideredForReordering(n) == vrUR < n /\ n < vrUH

isWithinReorderingWindow(n, uh) == uh - WindowSize <= n /\ n < uh

\* The least number above n that is not held; no number from uh on is.
nextMissingSegment(n, held, uh) ==
  CHOOSE m \in (n + 1) .. (IF uh > n THEN uh ELSE n + 1) :
    /\ m \notin held
    /\ (n + 1) .. (m - 1) \subseteq held

\* What updateReassemblyBuffer(lower) takes out of the window, and what it leaves.
Below(held, lower) == {n \in held : n < lower}
From(held, lower) == {n \in held : n >= lower}

-----------------------------------------------------------------------------
discard ==
  /\ reassembled' = {}
  /\ UNCHANGED <<vrUH, vrUR, vrUX, reorderingTimer, reorderWindow>>

\* A segment of number n advances the upper edge of the window if it is
\* not within it, and the lower edge drags vrUR along.
UpperEdge(n) == IF isWithinReorderingWindow(n, vrUH) THEN vrUH ELSE n + 1

FirstWaitedFor(uh) ==
  IF uh = vrUH \/ isWithinReorderingWindow(vrUR, uh) THEN vrUR ELSE uh - WindowSize

\* The two calls of updateReassemblyBuffer of onSegment: what the lower edge
\* passed, then everything before the next missing number if the awaited one is held.
Place(n) ==
  LET held == reorderWindow \union {n}
      uh == UpperEdge(n)
      first == FirstWaitedFor(uh)
      ur == IF first \in held THEN nextMissingSegment(first, held, uh) ELSE first
      lower == IF ur /= first THEN ur ELSE IF uh /= vrUH THEN uh - WindowSize ELSE 0
  IN  /\ vrUH' = uh
      /\ vrUR' = ur
      /\ reassembled' = Below(held, lower)
      /\ reorderWindow' = From(held, lower)

\* The timer stops when what it waits for has come, and starts if segments
\* are held back and it is not running.
ProcessTimer ==
  LET stopped == \/ vrUX <= vrUR'
                 \/ ~isWithinReorderingWindow(vrUX, vrUH') /\ vrUX /= vrUH'
      runs == reorderingTimer /\ ~stopped
  IN  /\ reorderingTimer' = (runs \/ vrUH' > vrUR')
      /\ vrUX' = IF ~runs /\ vrUH' > vrUR' THEN vrUH' ELSE vrUX

\* isDuplicate() looks for the number among the segments held.
onSegment(n) ==
  IF isExpired(n) \/ (isConsideredForReordering(n) /\ n \in reorderWindow)
  THEN discard
  ELSE Place(n) /\ ProcessTimer

\* The wait is over: everything up to the segment that started it is given up.
passMissing ==
  /\ reorderingTimer
  /\ vrUR' = nextMissingSegment(vrUX - 1, reorderWindow, vrUH)

(* fault: the timer is not started for the next gap *)
onTReorderingExpired_Once ==
  /\ passMissing
  /\ reassembled' = Below(reorderWindow, vrUR')
  /\ reorderWindow' = From(reorderWindow, vrUR')
  /\ reorderingTimer' = FALSE
  /\ UNCHANGED <<vrUH, vrUX>>

onTReorderingExpired ==
  /\ passMissing
  /\ reassembled' = Below(reorderWindow, vrUR')
  /\ reorderWindow' = From(reorderWindow, vrUR')
  /\ reorderingTimer' = (vrUH > vrUR')
  /\ vrUX' = IF vrUH > vrUR' THEN vrUH ELSE vrUX
  /\ UNCHANGED vrUH

-----------------------------------------------------------------------------
\* A segment that is a whole window behind the highest one received would be
\* taken for a new one and pull the upper edge back; a network in which that
\* happens needs a longer sequence number field.
Timely(n) == n >= vrUH - WindowSize

WindowNext == \/ \E n \in Nat : Timely(n) /\ onSegment(n)
              \/ onTReorderingExpired

WindowSpec == WindowInit /\ [][WindowNext]_windowVars

(* The window holds back exactly what it must: segments it has not handed on
   yet lie above the first missing number and below the highest one received,
   and as long as there are any the timer runs, for a number not yet passed. *)
WindowTypeOK ==
  /\ vrUH \in Nat /\ vrUR \in Nat /\ vrUX \in Nat
  /\ reorderingTimer \in BOOLEAN
  /\ reorderWindow \subseteq Nat
  /\ reassembled \subseteq Nat

HeldBackIsTimed ==
  /\ \A n \in reorderWindow : vrUR < n /\ n < vrUH
  /\ vrUH - WindowSize <= vrUR /\ vrUR <= vrUH
  /\ reorderingTimer <=> vrUR < vrUH
  /\ reorderingTimer => vrUR < vrUX /\ vrUX <= vrUH

(* Segments are handed on in the order of their numbers and no number twice,
   whatever order, number of copies or losses the network produced: each call
   hands on numbers the window still waited for, and moves past them. *)
HandsOnInOrder ==
  [][\A n \in reassembled' : vrUR <= n /\ n < vrUR']_windowVars

=============================================================================
