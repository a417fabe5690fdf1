SPECIFICATION LiveSpec
CONSTANTS
  Turns = {t1}
  Nodes = {n1}
  None = None
  MaxEpoch = 3
  MaxRev = 1
  MaxBoot = 2
  MaxFaults = 1
  Overlap = FALSE
  LeaseCanExpire = FALSE
  SlowClose = TRUE
INVARIANTS TypeOK NotSentIsTrue BegunIsNotRetried CompletedIsProved SecondDoneIsLate
PROPERTIES EveryTurnSettles DrainedAfterBoot AbandonedIsRecovered
CHECK_DEADLOCK FALSE
