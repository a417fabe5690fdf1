SPECIFICATION FairFeed
CONSTANTS
  c1 = c1
  c2 = c2
  NoConn = NoConn
  Conns <- MCConns1
  MaxSeq = 1
  Hidden <- NoRows
  PumpBatch = 1
  ResumeBatch = 1
  PollBatch = 2
  MaxFaults = 1
  MaxOpens = 1
  CanIdle = TRUE
  Scripts <- NoScripts
PROPERTY Converges
