CONSTANTS
  Kinds = {"List", "Subscribe", "Unsubscribe", "Close"}
  MaxChan = 1
  Requester = {r1}
  p1 = p1
  p2 = p2
  MaxRid = 3
  SidNum = {101}
  Path = {p1}
  PathOf <- OnePath
  MaxId = 8
  Snapshots = TRUE
  MaxInt = 100
  MaxRestarts = 1
  MaxBatch = 1
  MaxVersion = 0
  Nil = Nil
  EndpointCloses = FALSE
SPECIFICATION DurableSpec
CHECK_DEADLOCK FALSE
INVARIANTS RecoveryRestores
