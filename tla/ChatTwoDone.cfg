SPECIFICATION Spec
CONSTANTS
  Turns = {t1}
  Nodes = {n1}
  None = None
  MaxEpoch = 1
  MaxRev = 1
  MaxBoot = 1
  MaxFaults = 0
  Overlap = FALSE
  LeaseCanExpire = FALSE
  SlowClose = TRUE
INVARIANT AtMostOneDone
CHECK_DEADLOCK FALSE
