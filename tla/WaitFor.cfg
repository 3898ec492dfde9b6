\* waitFor on a task that may settle on another thread.
SPECIFICATION FairWaitSpec
CONSTANTS
  Callbacks = {quit}
  NoCallback = NoCallback
  quit = quit
  Owner = main
  Completer = worker
  LiveDisposal = TRUE
INVARIANT
  ResultThere
PROPERTIES
  LoopOutlivesSink
  CallReturns
CHECK_DEADLOCK FALSE
