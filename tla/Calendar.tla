------------------------------- MODULE Calendar -------------------------------
(***************************************************************************)
(* What the event scheduler of openWNS promises to a simulation: the       *)
(* events that are pending run one after the other in the order of their   *)
(* times, those of the same time in the order they were submitted in, and  *)
(* each one at its time.  A withdrawn event does not run.                  *)
(***************************************************************************)
EXTENDS Integers

CONSTANTS Event, Time

VARIABLES clock,     \* the time of the simulation
          pending,   \* what is to run: the event, its time and its number
          count,     \* how many events were submitted so far
          halted     \* the simulation was told to stop

vars == <<clock, pending, count, halted>>

Init == clock = 0 /\ pending = {} /\ count = 0 /\ halted = FALSE

Submit(e, at) ==
    /\ at >= clock
    /\ count' = count + 1
    /\ pending' = pending \cup {[event |-> e, time |-> at, nr |-> count + 1]}
    /\ UNCHANGED <<clock, halted>>

Withdraw(e) ==
    /\ \E x \in pending : x.event = e /\ pending' = pending \ {x}
    /\ UNCHANGED <<clock, count, halted>>

Precedes(x, y) == x.time < y.time \/ (x.time = y.time /\ x.nr < y.nr)

(* Once halted the clock stands still, what is due now still runs.         *)
RunNext ==
    \E x \in pending :
        /\ \A y \in pending \ {x} : Precedes(x, y)
        /\ halted => x.time = clock
        /\ clock' = x.time
        /\ pending' = pending \ {x}
        /\ UNCHANGED <<count, halted>>

Halt == halted' = TRUE /\ UNCHANGED <<clock, pending, count>>

Clear == clock' = 0 /\ pending' = {} /\ UNCHANGED <<count, halted>>

Next == \/ \E e \in Event : Withdraw(e) \/ \E at \in Time : Submit(e, at)
        \/ RunNext \/ Halt \/ Clear

Spec == Init /\ [][Next]_vars
===============================================================================
