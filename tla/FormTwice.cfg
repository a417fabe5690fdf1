SPECIFICATION Spec
CONSTANTS
  Responses = {r1, r2}
  Users = {}
  Pastes = {}
  First = first
  Idle = idle
  MaxAttempts = 3
  GiveUpAt = 2
  MaxSpawns = 2
  MaxFaults = 0
  QueueCap = 1
  BodyAttempts = 1
  SubmitAttempts = 1
  Drains = {i1, i2}
  ToNew = {r2}
  SlowSteps = {"spawning"}
INVARIANT ShownOnce
CHECK_DEADLOCK FALSE
