\* Completion on another thread (resumeOn): operations and dispatch interleave.
SPECIFICATION FairSpec
CONSTANTS
  Callbacks = {c1, c2, c3}
  NoCallback = NoCallback
  Owner = main
  Completer = worker
  LiveDisposal = FALSE
INVARIANTS
  FrameSafe
  NoOrphanFrame
  AwaiterAfterCallbacks
PROPERTIES
  ImplementsContract
  ImplementsArmed
  ParkedAwaiterResumes
  DroppedFrameFreed
CHECK_DEADLOCK FALSE
