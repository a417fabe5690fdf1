SPECIFICATION FairSpec
CONSTANTS
  MaxSockets = 2
  MaxBytes = 4
  LaterBytes = 1
  MaxSpawns = 2
  MaxFaults = 1
  ChunkSizes = {1}
  RingCap = 0
  CoalesceBytes = 2
  BacklogCap = 1
  MaxOpens = 2
  QuietRemount = TRUE
INVARIANTS TypeOK ScreenIsStream FirstIsWhole ExitIsLast SuspendedIsQuiet
PROPERTY CatchesUp
CHECK_DEADLOCK FALSE
