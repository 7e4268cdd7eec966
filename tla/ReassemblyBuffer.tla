-------------------------- MODULE ReassemblyBuffer --------------------------
(***************************************************************************)
(* wns::ldk::sar::reassembly::ReassemblyBuffer as operators on the value   *)
(* of its buffer_: a sequence of segments [sn, begin, end, pdus] with      *)
(* consecutive numbers, the first of which begins with an SDU.             *)
(***************************************************************************)
EXTENDS Integers, Sequences, FiniteSetsExt, SequencesExt, Lists

\* A segment from which the end of an SDU that began elsewhere is taken out:
\* it now begins with its second SDU.
Beheaded(c) == [c EXCEPT !.pdus = Tail(@), !.begin = TRUE]

(* fault: a gap in the numbers is not noticed *)
accepts_AfterGap(buffer, c) ==
  IF buffer = <<>> THEN c.begin \/ Len(c.pdus) > 1
                   ELSE c.sn > Last(buffer).sn

\* accepts() and isNextExpectedSegment() ask the same of a segment: to follow
\* the last one, or to begin an SDU when there is none.
accepts(buffer, c) ==
  IF buffer = <<>> THEN c.begin \/ Len(c.pdus) > 1
                   ELSE c.sn = Last(buffer).sn + 1

insert(buffer, c) ==
  Append(buffer, IF buffer = <<>> /\ ~c.begin THEN Beheaded(c) ELSE c)

\* The segments in which the SDU at the front of the buffer may end.
Ends(buffer) == {i \in DOMAIN buffer : buffer[i].end \/ Len(buffer[i].pdus) > 1}

\* The rest of an SDU whose first part was taken out of the buffer goes.
dropSegmentsOfSDU(buffer) ==
  LET last == Min(Ends(buffer))
      rest == SubSeq(buffer, last + 1, Len(buffer))
  IN  IF Len(buffer[last].pdus) > 1 THEN <<Beheaded(buffer[last])>> \o rest ELSE rest

\* One round of the loop of getReassembledSegments.  A whole SDU in front of
\* another one of its segment is put before those taken out earlier.
TakeOut(r) ==
  LET front == Head(r.buffer) IN
  CASE front.end ->
         [buffer |-> Tail(r.buffer), sdus |-> r.sdus \o front.pdus]
    [] ~front.end /\ Len(front.pdus) > 1 ->
         [buffer |-> <<Beheaded(front)>> \o Tail(r.buffer), sdus |-> <<Head(front.pdus)>> \o r.sdus]
    [] OTHER ->
         [buffer |-> dropSegmentsOfSDU(Tail(r.buffer)), sdus |-> Append(r.sdus, Head(front.pdus))]

Round(r) == IF Ends(r.buffer) = {} THEN r ELSE TakeOut(r)

\* Every round takes at least one piece of an SDU out of the buffer.
getReassembledSegments(buffer) ==
  LET pieces == Total([i \in DOMAIN buffer |-> Len(buffer[i].pdus)])
      rounds[n \in 0 .. pieces] ==
        IF n = 0 THEN [buffer |-> buffer, sdus |-> <<>>] ELSE Round(rounds[n - 1])
  IN  rounds[pieces]

=============================================================================
