CONSTANTS
  Kinds = {"List", "Call", "Subscribe", "Unsubscribe", "Close"}
  MaxChan = 2
  Requester = {r1}
  p1 = p1
  p2 = p2
  MaxRid = 3
  SidNum = {101, 102}
  Path = {p1, p2}
  PathOf <- TwoPaths
  MaxId = 3
  MaxBatch = 2
  MaxVersion = 1
  Nil = Nil
  EndpointCloses = TRUE
SPECIFICATION FairSpec
CHECK_DEADLOCK FALSE
INVARIANTS TypeOK RightRecipients RidMapsAgree TopicsAgree
PROPERTIES CallsEnd
