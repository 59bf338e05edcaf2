CONSTANTS
  n1 = n1
  w1 = w1
  w2 = w2
  Name = {n1}
  Socket = {w1, w2}
  NameOf <- OneLink
  Nil = Nil
  Operator = Operator
  MaxOrders = 2
  MaxLists = 0
  GroupSize = 1
SPECIFICATION Spec
CHECK_DEADLOCK FALSE
INVARIANTS RecordsTellConnection
