SPECIFICATION LiveSpec
CONSTANTS
  SDU = {d1}
  NoCompound = NoCompound
  windowSize = 2
  MaxFrames <- ThreeFrames
  WireCap = 1
  AckCap = 1
CONSTRAINT OneWayUnsuspended
PROPERTIES DeliversEverything
