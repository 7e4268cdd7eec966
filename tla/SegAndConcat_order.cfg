SPECIFICATION Spec
CONSTANTS
  Size <- MCSize
  FixedHeader = 2
  ExtHeader = 1
  ByteAlign = FALSE
  UsePadding = FALSE
  IsDropping = TRUE
  MaxSize = 3
  Requests = {2, 6}
  WindowSize = 4
  SegmentSize = 2
  HeaderSize = 1
  LengthAddition = 2
  Losses = 1
INVARIANT DeliversInOrder
CHECK_DEADLOCK FALSE
