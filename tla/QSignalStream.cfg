\* A stream with any of its builders, inputs from both threads.
SPECIFICATION FairSpec
CONSTANTS
  MaxEmits = 3
  MaxWaits = 3
INVARIANTS
  Lossless
  Conflated
  NoLostWakeup
  NeverUnreachable
PROPERTIES
  ImplementsStream
  WaitEnds
CHECK_DEADLOCK FALSE
