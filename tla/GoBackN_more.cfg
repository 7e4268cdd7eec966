SPECIFICATION Spec
CONSTANTS
  SDU = {1, 2, 3}
  NoCompound = NoCompound
  windowSize = 2
  MaxFrames <- ThreeFrames
  WireCap = 2
  AckCap = 1
CONSTRAINT NumberedOneWay
INVARIANTS InOrder
PROPERTIES SuspendIsClean
