\* One co_await with any builders, its context on the awaiting or another thread.
SPECIFICATION FairSpec
CONSTANT
  MaxEmits = 3
INVARIANTS
  OneOutcome
  NothingLeftArmed
  PostsToLiveContext
PROPERTIES
  KeepsPromise
  WaitEnds
CHECK_DEADLOCK FALSE
