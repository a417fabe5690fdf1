SPECIFICATION FairSpec
CONSTANTS
  c1 = c1
  c2 = c2
  NoConn = NoConn
  Conns <- MCConns2
  MaxSeq = 3
  Hidden <- MCHidden
  PumpBatch = 2
  ResumeBatch = 2
  MaxFaults = 1
  Scripts <- MCScripts
INVARIANTS ServerTypeOK LiveIsExact
PROPERTY EveryoneIsServed
