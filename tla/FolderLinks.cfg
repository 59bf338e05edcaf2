CONSTANTS
  n1 = n1
  w1 = w1
  w2 = w2
  Name = {n1}
  Socket = {w1, w2}
  NameOf <- OneLink
  Nil = Nil
  Operator = Operator
  MaxOrders = 1
  MaxLists = 1
  GroupSize = 1
SPECIFICATION FairSpec
CHECK_DEADLOCK FALSE
INVARIANTS FolderTypeOK RecordsSettle NoMissingChild EndIsNoticed
PROPERTIES Served
