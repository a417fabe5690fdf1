SPECIFICATION Spec
CONSTANTS
  MaxSockets = 2
  MaxBytes = 4
  LaterBytes = 1
  MaxSpawns = 2
  MaxFaults = 0
  ChunkSizes = {1}
  RingCap = 0
  CoalesceBytes = 2
  BacklogCap = 1
  MaxOpens = 2
  QuietRemount = FALSE
INVARIANT OneSocket
CHECK_DEADLOCK FALSE
