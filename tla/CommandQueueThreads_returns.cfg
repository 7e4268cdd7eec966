SPECIFICATION ThreadsLiveSpec
CONSTANTS
  Command = {c1}
  NoCommand = NoCommand
  Thread = {main, io}
  Main = main
  NoThread = NoThread
CHECK_DEADLOCK FALSE
PROPERTIES OperationsReturn
