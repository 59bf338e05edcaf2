CONSTANTS
  me = me
  w1 = w1
  w2 = w2
  Name = {me}
  Me = me
  Socket = {w1, w2}
  Stream = {w1, w2}
  NameOf <- ToMe
  Nil = Nil
  NoSocket = Nil
  Sid = {1,2}
  Level <- Mixed
  Rid = {1,2}
  MaxVersion = 2
  Capacity = 1
  Answered = TRUE
SPECIFICATION Spec
CHECK_DEADLOCK FALSE
INVARIANTS RequesterTypeOK OthersConserved TargetsAgree
PROPERTIES DropsOnlyWithinMessage NeverOlder
