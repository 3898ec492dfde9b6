\* whenAll of three tasks, each of which completes here or on its own thread.
SPECIFICATION FairSpec
CONSTANTS
  N = 3
  LiveDestroy = FALSE
INVARIANT
  CountsTasks
PROPERTIES
  KeepsPromise
  AllSettleResumes
CHECK_DEADLOCK FALSE
