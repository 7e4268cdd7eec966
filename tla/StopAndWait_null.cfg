SPECIFICATION Spec
CONSTANTS
  SDU = {d1}
  NoCompound = NoCompound
  MaxFrames <- OneWay
  WireCap = 2
INVARIANTS SuccessHasCompound
