\* One co_await of a QFuture, finished on the same or another thread.
SPECIFICATION FairSpec
INVARIANT
  NoPostAtTeardown
PROPERTIES
  ResumesFromLoop
  KeepsPromise
  FinishedWaitEnds
CHECK_DEADLOCK FALSE
