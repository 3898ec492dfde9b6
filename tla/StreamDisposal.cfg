\* A stream is disposed of while it is stopped and two threads emit.
SPECIFICATION FairSpec
CONSTANT
  Emissions = {e1, e2}
INVARIANT
  BlockAlive
PROPERTY
  DisposalEnds
CHECK_DEADLOCK FALSE
