-------------------------------- MODULE Lists --------------------------------
(***************************************************************************)
(* Lists in which an element stands once at most: those of events and of   *)
(* commands of the schedulers; and sums over lists of numbers.             *)
(***************************************************************************)
EXTENDS Integers, Sequences

InList(s, c) == \E i \in 1 .. Len(s) : s[i] = c

Once(s) == \A i, j \in 1 .. Len(s) : s[i] = s[j] => i = j

(* c stands before d. *)
Before(s, c, d) ==
    \E i, j \in 1 .. Len(s) : i < j /\ s[i] = c /\ s[j] = d

(* FastList::remove() of an event, std::list::remove() of a command: what  *)
(* stands behind c moves up by one place.                                  *)
Without(s, c) ==
    IF InList(s, c)
    THEN LET at == CHOOSE i \in 1 .. Len(s) : s[i] = c
         IN  [i \in 1 .. Len(s) - 1 |-> s[IF i < at THEN i ELSE i + 1]]
    ELSE s

(* The sum of a list of numbers. *)
Total(s) ==
    LET sum[i \in 0 .. Len(s)] == IF i = 0 THEN 0 ELSE sum[i - 1] + s[i]
    IN  sum[Len(s)]
===============================================================================
