SPECIFICATION LiveSpec
CONSTANTS
  SDU = {1, 2}
  NoCompound = NoCompound
  MaxFrames <- BothWays
  WireCap = 2
CONSTRAINT NumberedSuspendedOnce
INVARIANTS TypeOK NoFailure TimerGuardsActive
PROPERTIES SuspendIsClean ImplementsReliableLink DeliversEverything SuspendCompletes
