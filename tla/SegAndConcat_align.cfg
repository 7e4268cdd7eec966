SPECIFICATION Spec
CONSTANTS
  Size <- MCSizeAligned
  FixedHeader = 8
  ExtHeader = 12
  ByteAlign = TRUE
  UsePadding = FALSE
  IsDropping = TRUE
  MaxSize = 24
  Requests = {44}
  WindowSize = 4
  SegmentSize = 8
  HeaderSize = 8
  LengthAddition = 0
  Losses = 0
INVARIANT SegmentsCarryEveryBit
CHECK_DEADLOCK FALSE
