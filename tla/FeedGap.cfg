SPECIFICATION FeedSpec
CONSTANTS
  c1 = c1
  c2 = c2
  NoConn = NoConn
  Conns <- MCConns1
  MaxSeq = 2
  Hidden <- NoRows
  PumpBatch = 1
  ResumeBatch = 1
  PollBatch = 1
  MaxFaults = 0
  MaxOpens = 1
  CanIdle = FALSE
  Scripts <- NoScripts
INVARIANT NothingIsMissing
