CONSTANTS
  Kinds = {"Subscribe", "Unsubscribe"}
  MaxChan = 2
  Requester = {r1}
  p1 = p1
  p2 = p2
  MaxRid = 3
  SidNum = {101}
  Path = {p1}
  PathOf <- OnePath
  MaxId = 8
  MaxBatch = 2
  MaxVersion = 2
  Nil = Nil
  EndpointCloses = FALSE
SPECIFICATION Spec
CHECK_DEADLOCK FALSE
INVARIANT HandlersNeverThrow
