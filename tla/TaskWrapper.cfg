\* cancelledBy() or withTimeout(), the task completing here or elsewhere.
SPECIFICATION FairSpec
INVARIANTS
  AnswersWinner
  NothingLeft
PROPERTIES
  KeepsPromise
  WaitEnds
CHECK_DEADLOCK FALSE
