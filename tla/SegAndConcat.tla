---------------------------- MODULE SegAndConcat ----------------------------
(***************************************************************************)
(* Segmentation and concatenation of SDUs from end to end: a sender, which *)
(* is either the segmenting queue of the scheduler or the unit             *)
(* wns::ldk::sar::SegAndConcat itself (isSegmenting_), a network that      *)
(* loses, reorders and duplicates segments, and the receiving side of      *)
(* SegAndConcat: the reordering window, whose signals feed the reassembly  *)
(* buffer, whose SDUs go up.                                               *)
(***************************************************************************)
EXTENDS SegmentingQueue, ReorderingWindow, ReassemblyBuffer

CONSTANTS SegmentSize,   \* segmentSize_ of the segmenting unit
          HeaderSize,    \* headerSize_ of the segmenting unit
          LengthAddition,\* sduLengthAddition_
          Losses         \* bound: how many segments the network may lose

ASSUME UnitAssumption == SegmentSize \in Nat \ {0} /\ {HeaderSize, LengthAddition, Losses} \subseteq Nat

VARIABLES
  isSegmenting,            \* the sender is SegAndConcat, not the queue
  senderPendingSegments,   \* the segments SegAndConcat has not passed down yet
  wire,                    \* the numbers of the segments on their way
  placed,                  \* the numbers of the segments that entered the window
  buffer,                  \* ReassemblyBuffer::buffer_
  received                 \* the SDUs the upper layer got, in order

unitVars == <<senderPendingSegments, wire, placed, buffer, received>>
receiverVars == <<vrUH, vrUR, vrUX, reorderingTimer, reorderWindow, reassembled, placed, buffer, received>>
vars == <<queueVars, segmentVars, windowVars, isSegmenting, unitVars>>

Init ==
  /\ QueueInit
  /\ WindowInit
  /\ isSegmenting \in BOOLEAN
  /\ senderPendingSegments = <<>>
  /\ wire = {}
  /\ placed = {}
  /\ buffer = <<>>
  /\ received = <<>>

-----------------------------------------------------------------------------
(* The sender.  The network never lets a segment fall a window behind.     *)

RoomFor(n) == \A k \in wire : n - k < WindowSize

PutSDU ==
  /\ ~isSegmenting
  /\ Put \/ PutDropped
  /\ UNCHANGED <<isSegmenting, unitVars, windowVars>>

Grant ==
  /\ ~isSegmenting
  /\ RoomFor(sequenceNumber)
  /\ \E bits \in Requests : getHeadOfLinePDUSegment(bits)
  /\ wire' = wire \union {sequenceNumber}
  /\ UNCHANGED <<isSegmenting, senderPendingSegments, receiverVars>>

NewFrame ==
  /\ ~isSegmenting
  /\ fixedOverhead /= FixedHeader
  /\ frameStarts
  /\ UNCHANGED <<isSegmenting, unitVars, windowVars>>

\* The pieces of segmentSize_ bits that cover a length.
PieceCount(length) == (length + SegmentSize - 1) \div SegmentSize

hasCapacity == senderPendingSegments = <<>>

\* SegAndConcat::processOutgoing cuts one SDU; nothing is concatenated.  Its
\* nextOutgoingSN_ is sequenceNumber when nothing is pending.
processOutgoing ==
  LET n == offered + 1
      length == Size[n] + LengthAddition
      last == PieceCount(length)
  IN  /\ isSegmenting
      /\ n \in SDU
      /\ hasCapacity
      /\ offered' = n
      /\ senderPendingSegments' =
           [i \in 1..last |->
              [sn |-> sequenceNumber + i - 1, begin |-> i = 1, end |-> i = last, pdus |-> <<n>>,
               header |-> HeaderSize,
               data |-> IF i = last THEN length - (last - 1) * SegmentSize ELSE SegmentSize,
               padding |-> 0, requested |-> HeaderSize + SegmentSize]]
      /\ UNCHANGED <<pduQueue, frontSegmentSentBits, nettoBits, fixedOverhead, segmentVars,
                     isSegmenting, wire, receiverVars>>

getSomethingToSend ==
  /\ senderPendingSegments /= <<>>
  /\ RoomFor(sequenceNumber)
  /\ segments' = Append(segments, Head(senderPendingSegments))
  /\ sequenceNumber' = sequenceNumber + 1
  /\ senderPendingSegments' = Tail(senderPendingSegments)
  /\ wire' = wire \union {sequenceNumber}
  /\ UNCHANGED <<queueVars, isSegmenting, receiverVars>>

-----------------------------------------------------------------------------
(* The receiver.                                                           *)

\* A gap in the numbers ends the hope for the SDU that waits in the buffer.
Entered(b, c) ==
  LET kept == IF accepts(b, c) THEN b ELSE <<>>
  IN  IF accepts(kept, c) THEN insert(kept, c) ELSE kept

onReorderedPDU(r, n) ==
  LET taken == getReassembledSegments(Entered(r.buffer, segments[n + 1]))
  IN  [buffer |-> taken.buffer, received |-> r.received \o taken.sdus]

Passed(r, n) == IF n \in reassembled' THEN onReorderedPDU(r, n) ELSE r

\* The reassemble signal is fired for one segment after the other, in the
\* order of their numbers, from within the call.
Reassemble ==
  LET passed[n \in 0 .. vrUR'] ==
        IF n = 0 THEN [buffer |-> buffer, received |-> received]
                 ELSE Passed(passed[n - 1], n - 1)
  IN  buffer' = passed[vrUR'].buffer /\ received' = passed[vrUR'].received

\* A segment comes; the network may keep a copy of it.
processIncoming ==
  \E n \in wire :
    /\ onSegment(n)
    /\ Reassemble
    /\ placed' = placed \union ({n} \intersect (reorderWindow' \union reassembled'))
    /\ wire' \in {wire, wire \ {n}}
    /\ UNCHANGED <<queueVars, segmentVars, isSegmenting, senderPendingSegments>>

TReorderingExpires ==
  /\ onTReorderingExpired
  /\ Reassemble
  /\ UNCHANGED <<queueVars, segmentVars, isSegmenting, senderPendingSegments, wire, placed>>

\* The segments of which no copy is left and none entered the window.
Gone == (0 .. sequenceNumber - 1) \ (wire \union placed)

Lose ==
  /\ Cardinality(Gone) < Losses
  /\ \E n \in wire : wire' = wire \ {n}
  /\ UNCHANGED <<queueVars, segmentVars, isSegmenting, senderPendingSegments, receiverVars>>

-----------------------------------------------------------------------------
(* Types, and the numbers that name the segments.                          *)
SegmentType ==
  [sn : Nat, begin : BOOLEAN, end : BOOLEAN, pdus : Seq(SDU), header : Nat, data : Nat,
   padding : Nat, requested : Nat]

TypeOK ==
  /\ WindowTypeOK
  /\ offered \in 0 .. Len(Size) /\ pduQueue \in Seq(SDU)
  /\ frontSegmentSentBits \in Nat /\ nettoBits \in Nat /\ fixedOverhead \in 0 .. FixedHeader
  /\ sequenceNumber = Len(segments)
  /\ segments \in Seq(SegmentType) /\ senderPendingSegments \in Seq(SegmentType)
  /\ \A i \in DOMAIN segments : segments[i].sn = i - 1
  /\ isSegmenting \in BOOLEAN
  /\ wire \subseteq 0 .. sequenceNumber - 1 /\ placed \subseteq 0 .. sequenceNumber - 1
  /\ buffer \in Seq(SegmentType) /\ received \in Seq(SDU)

(* The segments carry every bit of the SDUs and no other: what was put into
   the queue is in the segments or still announced, the fraction of the front
   SDU that was sent is a proper one, and no segment is larger than what the
   scheduler granted (the assertions of InnerQueue::retrieve). *)
Queued == {n \in SDU : n \in ToSet(pduQueue)} \union UNION {ToSet(segments[i].pdus) : i \in DOMAIN segments}

SegmentsCarryEveryBit ==
  /\ ~isSegmenting =>
       /\ Total([i \in DOMAIN segments |-> segments[i].data]) + nettoBits
            = Total([n \in SDU |-> IF n \in Queued THEN Size[n] ELSE 0])
       /\ nettoBits = SizesOf(pduQueue) - frontSegmentSentBits
  /\ pduQueue /= <<>> => frontSegmentSentBits < Size[Head(pduQueue)]
  /\ \A i \in DOMAIN segments :
       segments[i].header + segments[i].data + segments[i].padding <= segments[i].requested

(* The bits a connection announces are enough: a scheduler that grants them
   all in one request empties the queue. *)
AnnouncedBitsSuffice ==
  pduQueue /= <<>> => Packed(OverheadFor(queuedBruttoBits), queuedBruttoBits).queue = <<>>

-----------------------------------------------------------------------------
(* An SDU goes up at most once, and only if every segment that carries a
   piece of it came in time: pieces of different SDUs are never joined,
   whatever the network loses, duplicates or reorders. *)
Carriers(n) == {k \in 0 .. sequenceNumber - 1 : n \in ToSet(segments[k + 1].pdus)}
Completes(c, n) == \E j \in DOMAIN c.pdus : c.pdus[j] = n /\ (j < Len(c.pdus) \/ c.end)
Whole(n) == \E i \in DOMAIN segments : Completes(segments[i], n)

DeliveredWholeOnce ==
  /\ \A i, j \in DOMAIN received : received[i] = received[j] => i = j
  /\ \A n \in ToSet(received) : Whole(n) /\ Carriers(n) \subseteq placed

(* An SDU all of whose segments are sent goes up in the end unless one of them
   was lost or came after the timer had given it up: the loss of a segment
   costs the SDUs with a piece in it and no other one. *)
EventuallyDelivered ==
  \A n \in SDU : Whole(n) ~> (n \in ToSet(received) \/ Carriers(n) \intersect Gone /= {})

(* The upper layer gets the SDUs in the order in which they were put. *)
DeliversInOrder == \A i, j \in DOMAIN received : i < j => received[i] < received[j]

-----------------------------------------------------------------------------
Next == \/ PutSDU \/ Grant \/ NewFrame \/ processOutgoing \/ getSomethingToSend
        \/ processIncoming \/ TReorderingExpires \/ Lose

\* Every copy on the wire arrives or is lost, and the timer expires.  The two
\* actions are named by what they alone do to a variable.
Fairness ==
  /\ WF_wire(\E n \in wire : wire' = wire \ {n})
  /\ WF_vrUR(passMissing)

Spec == Init /\ [][Next]_vars /\ Fairness
=============================================================================
