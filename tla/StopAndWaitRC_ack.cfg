SPECIFICATION Spec
CONSTANTS
  SDU = {1, 2, 3}
  NoCompound = NoCompound
  MaxFrames <- OneWay
  WireCap = 2
CHECK_DEADLOCK FALSE
PROPERTIES DuplicateACKFromDuplicateI
