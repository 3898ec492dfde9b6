\* The call drops its bridge while the dispatch on the other thread, which has
\* posted the quit event, is about to publish settled.
SPECIFICATION WaitSpec
CONSTANTS
  Callbacks = {quit}
  NoCallback = NoCallback
  quit = quit
  Owner = main
  Completer = worker
  LiveDisposal = TRUE
INVARIANT
  NoOrphanFrame
CHECK_DEADLOCK FALSE
