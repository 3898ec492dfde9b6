\* The awaiting frame is destroyed while a task completes on another thread.
SPECIFICATION Spec
CONSTANTS
  N = 2
  LiveDestroy = TRUE
INVARIANT
  AwaitableLive
CHECK_DEADLOCK FALSE
