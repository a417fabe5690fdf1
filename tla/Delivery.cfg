SPECIFICATION Spec
CONSTANTS
  Responses = {r1, r2}
  Users = {u1}
  Pastes = {u1}
  First = first
  Idle = idle
  MaxAttempts = 5
  GiveUpAt = 2
  MaxSpawns = 2
  MaxFaults = 1
  QueueCap = 1
  BodyAttempts = 1
  SubmitAttempts = 1
  Drains = {i1, i2}
  ToNew = {r2}
  SlowSteps = {}
SYMMETRY DrainSymmetry
INVARIANTS TypeOK Unmixed OneTerminal ShownOnce RecordsAreTrue WaitsForSomething NeverAtRest
PROPERTY AnswersAreDelivered
CHECK_DEADLOCK FALSE
