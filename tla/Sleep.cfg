\* A task that sleeps on its owner's thread, and may be dropped while it does.
SPECIFICATION FairSleepSpec
CONSTANTS
  Callbacks = {c1, c2}
  NoCallback = NoCallback
  Owner = main
  Completer = main
  LiveDisposal = FALSE
INVARIANT
  TimerFindsSleeper
PROPERTY
  SleepEnds
CHECK_DEADLOCK FALSE
