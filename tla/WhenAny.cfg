\* whenAny of three tasks, each of which completes here or on its own thread.
SPECIFICATION FairSpec
CONSTANTS
  N = 3
  LiveDestroy = FALSE
INVARIANTS
  AwaitableLive
  WinnerSettled
PROPERTIES
  KeepsPromise
  OneSettleResumes
CHECK_DEADLOCK FALSE
