-------------------------- MODULE SegmentingQueue --------------------------
(***************************************************************************)
(* One connection of wns::scheduler::queue::SegmentingQueue together with  *)
(* its detail::InnerQueue.  SDUs wait unsegmented; a request of the        *)
(* scheduler for a number of bits cuts and concatenates them on the fly    *)
(* into one segment.  Sizes are in bits.  SDU number n is the n-th one the *)
(* upper layer offers.                                                     *)
(***************************************************************************)
EXTENDS Integers, Sequences, FiniteSetsExt, SequencesExt, Lists

CONSTANTS Size,          \* Size[n]: the length of SDU n
          FixedHeader,   \* fixedHeaderSize
          ExtHeader,     \* extensionHeaderSize
          ByteAlign,     \* byteAlignHeader
          UsePadding,    \* usePadding
          IsDropping,    \* isDropping: a full queue swallows the SDU
          MaxSize,       \* getQueueSizeLimitPerConnection()
          Requests       \* the numbers of bits the scheduler asks for

ASSUME SizeAssumption == Size \in Seq(Nat \ {0})
ASSUME BitsAssumption == /\ FixedHeader \in Nat /\ ExtHeader \in Nat /\ MaxSize \in Nat
                         /\ Requests \subseteq Nat \ {0}
ASSUME SwitchAssumption == {ByteAlign, UsePadding, IsDropping} \subseteq BOOLEAN

VARIABLES
  offered,               \* how many SDUs the upper layer has offered
  pduQueue,              \* InnerQueue::pduQueue_
  frontSegmentSentBits,  \* InnerQueue::frontSegmentSentBits_
  nettoBits,             \* InnerQueue::nettoBits_
  fixedOverhead,         \* SegmentingQueue::fixedOverhead[cid]
  sequenceNumber,        \* the number of the next segment: InnerQueue::sequenceNumber_
  segments               \* every segment that left the sender, in order

queueVars == <<offered, pduQueue, frontSegmentSentBits, nettoBits, fixedOverhead>>

segmentVars == <<sequenceNumber, segments>>

SDU == DOMAIN Size

QueueInit ==
  /\ offered = 0
  /\ pduQueue = <<>>
  /\ frontSegmentSentBits = 0
  /\ nettoBits = 0
  /\ fixedOverhead = FixedHeader
  /\ sequenceNumber = 0
  /\ segments = <<>>

-----------------------------------------------------------------------------
(* Taking SDUs in.                                                         *)

\* The first SDU of a connection is accepted whatever its size: there is no
\* queue yet that it could overflow.
isAccepting(n) == offered = 0 \/ Size[n] + nettoBits <= MaxSize

Put ==
  LET n == offered + 1 IN
  /\ n \in SDU
  /\ isAccepting(n)
  /\ offered' = n
  /\ pduQueue' = Append(pduQueue, n)
  /\ nettoBits' = nettoBits + Size[n]
  /\ UNCHANGED <<frontSegmentSentBits, fixedOverhead, segmentVars>>

PutDropped ==
  LET n == offered + 1 IN
  /\ n \in SDU
  /\ IsDropping
  /\ ~isAccepting(n)
  /\ offered' = n
  /\ UNCHANGED <<pduQueue, frontSegmentSentBits, nettoBits, fixedOverhead, segmentVars>>

-----------------------------------------------------------------------------
(* Packing one segment of at most a requested number of bits.              *)

\* What aligning a header of h bits adds to it.
Alignment(h) == IF ByteAlign THEN h % 8 ELSE 0

TotalSize(p) == p.header + p.data

(* fault: the bits already sent of the front SDU are forgotten *)
Unsent_WholeFront(p) == Size[Head(p.queue)]

Unsent(p) == Size[Head(p.queue)] - p.sent

\* The front SDU, or what is left of it, fits in completely.  Another one is
\* begun only if a bit of it has room beside its extension header.
PackWhole(p, bits) ==
  LET full == [p EXCEPT !.pdus = Append(@, Head(p.queue)), !.data = @ + Unsent(p),
                        !.queue = Tail(@), !.sent = 0]
      another == /\ TotalSize(full) + ExtHeader + Alignment(p.header + ExtHeader) < bits
                 /\ full.queue /= <<>>
  IN  IF another THEN [full EXCEPT !.header = @ + ExtHeader]
                 ELSE [full EXCEPT !.open = FALSE]

\* Only a fraction of the front SDU fits in.
PackPart(p, bits) ==
  LET capacity == bits - TotalSize(p) - Alignment(p.header)
  IN  [p EXCEPT !.pdus = Append(@, Head(p.queue)), !.data = @ + capacity,
                !.header = @ + Alignment(p.header), !.sent = @ + capacity]

Pack(p, bits) ==
  IF ~p.open \/ TotalSize(p) >= bits THEN p
  ELSE IF bits - TotalSize(p) >= Unsent(p) THEN PackWhole(p, bits)
  ELSE PackPart(p, bits)

\* The loop of InnerQueue::retrieve: every round takes an SDU out or is the
\* last, so there are no more rounds than SDUs.
Packed(overhead, bits) ==
  LET packing[n \in 0 .. Len(pduQueue)] ==
        IF n = 0 THEN [queue |-> pduQueue, sent |-> frontSegmentSentBits, header |-> overhead,
                       data |-> 0, pdus |-> <<>>, open |-> TRUE]
                 ELSE Pack(packing[n - 1], bits)
  IN  packing[Len(pduQueue)]

\* The segment made of the packing p.
SegmentOf(p, bits) ==
  LET header == p.header + Alignment(p.header)
  IN  [sn |-> sequenceNumber, begin |-> frontSegmentSentBits = 0, end |-> p.sent = 0,
       pdus |-> p.pdus, header |-> header, data |-> p.data,
       padding |-> IF UsePadding THEN bits - header - p.data ELSE 0, requested |-> bits]

SizesOf(q) == Total([i \in DOMAIN q |-> Size[q[i]]])

\* A request smaller than the header pays a part of it; the rest of the header
\* is paid by the next request of the frame.
OverheadFor(bits) == IF bits <= fixedOverhead THEN bits - 1 ELSE fixedOverhead

getHeadOfLinePDUSegment(bits) ==
  /\ pduQueue /= <<>>
  /\ LET overhead == OverheadFor(bits)
         p == Packed(overhead, bits)
     IN  /\ segments' = Append(segments, SegmentOf(p, bits))
         /\ sequenceNumber' = sequenceNumber + 1
         /\ pduQueue' = p.queue
         /\ frontSegmentSentBits' = p.sent
         /\ nettoBits' = IF p.queue = <<>> THEN 0 ELSE nettoBits - p.data
         /\ fixedOverhead' = fixedOverhead - overhead
  /\ UNCHANGED offered

(* fault: the header of a frame is added to what is left of the last one's *)
frameStarts_Added ==
  /\ fixedOverhead' = fixedOverhead + FixedHeader
  /\ UNCHANGED <<offered, pduQueue, frontSegmentSentBits, nettoBits, segmentVars>>

\* The header counts once per frame.
frameStarts ==
  /\ fixedOverhead' = FixedHeader
  /\ UNCHANGED <<offered, pduQueue, frontSegmentSentBits, nettoBits, segmentVars>>

(* fault: the extension headers are not announced *)
queuedBruttoBits_OneHeader ==
  IF nettoBits = 0 THEN 0 ELSE nettoBits + fixedOverhead + Alignment(fixedOverhead)

\* What the connection announces to the scheduler: the bits it holds and the
\* headers it would need if all of them left in one segment.
queuedBruttoBits ==
  IF nettoBits = 0 THEN 0
  ELSE LET header == fixedOverhead + (Len(pduQueue) - 1) * ExtHeader
       IN  nettoBits + header + Alignment(header)

=============================================================================
