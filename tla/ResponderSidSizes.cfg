CONSTANTS
  Kinds = {"List", "Subscribe", "Unsubscribe", "Close"}
  MaxChan = 2
  Requester = {r1, r2}
  p1 = p1
  p2 = p2
  MaxRid = 2
  SidNum = {101}
  Path = {p1}
  PathOf <- OnePath
  MaxId = 4
  MaxBatch = 2
  MaxVersion = 2
  Nil = Nil
  EndpointCloses = FALSE
SPECIFICATION Spec
SYMMETRY Symmetric
CHECK_DEADLOCK FALSE
INVARIANT SidSizesMatch
