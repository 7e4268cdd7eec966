SPECIFICATION LiveSpec
CONSTANTS
  SDU = {1, 2}
  NoCompound = NoCompound
  MaxFrames <- BothWays
  WireCap = 2
CONSTRAINT Numbered
CHECK_DEADLOCK FALSE
INVARIANTS TypeOK ActiveUntilDelivered
PROPERTIES ImplementsReliableLink DeliversUnlessStopped
