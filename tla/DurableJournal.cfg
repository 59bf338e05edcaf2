CONSTANTS
  Kinds = {"Subscribe", "Unsubscribe", "List", "Close"}
  MaxChan = 1
  Requester = {r1}
  p1 = p1
  p2 = p2
  MaxRid = 3
  SidNum = {101, 102}
  Path = {p1}
  PathOf <- OnePath
  MaxId = 8
  Snapshots = FALSE
  MaxInt = 100
  MaxRestarts = 1
  MaxBatch = 1
  MaxVersion = 1
  Nil = Nil
  EndpointCloses = FALSE
SPECIFICATION JournalSpec
CHECK_DEADLOCK FALSE
INVARIANTS DurableTypeOK JournalRestores FreshSids ListenersAreIndexed
PROPERTIES KeepsPromise
