SPECIFICATION Spec
CONSTANTS
  Turns = {t1}
  Nodes = {n1, n2}
  None = None
  MaxEpoch = 3
  MaxRev = 2
  MaxBoot = 2
  MaxFaults = 0
  Overlap = FALSE
  LeaseCanExpire = TRUE
  SlowClose = FALSE
INVARIANTS GrantIsFenced EffectsOfRunningTurn RetryKeepsConfiguration
PROPERTIES AttemptsAreFinal
CONSTRAINT ChangeBound
SYMMETRY NodeSymmetry
CHECK_DEADLOCK FALSE
