SPECIFICATION Spec
CONSTANTS
  Turns = {t1, t2}
  Nodes = {n1}
  None = None
  MaxEpoch = 4
  MaxRev = 1
  MaxBoot = 2
  MaxFaults = 0
  Overlap = TRUE
  LeaseCanExpire = FALSE
  SlowClose = FALSE
INVARIANTS DeliveredOnce InputOfTurn DeliveredInOrder OneSession QueuedHasTaker
PROPERTIES SettledStays Implements
SYMMETRY TurnSymmetry
CHECK_DEADLOCK FALSE
