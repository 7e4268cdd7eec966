SPECIFICATION ThreadsSpec
CONSTANTS
  Command = {c1, c2, c3}
  NoCommand = NoCommand
  Thread = {main, io}
  Main = main
  NoThread = NoThread
SYMMETRY CommandSymmetry
CHECK_DEADLOCK FALSE
INVARIANTS ThreadsTypeOK RunsWhatIsQueued
