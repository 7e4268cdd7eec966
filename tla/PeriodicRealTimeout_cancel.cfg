SPECIFICATION LiveSpec
CONSTANTS
  Command = {c1, c2}
  NoCommand = NoCommand
  Thread = {main, w1, w2}
  Worker = {w1, w2}
  Main = main
  NoThread = NoThread
  CallbackCancels = FALSE
CHECK_DEADLOCK FALSE
PROPERTIES CancelReturns
