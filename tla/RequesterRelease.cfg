CONSTANTS
  me = me
  w1 = w1
  w2 = w2
  Name = {me}
  Me = me
  Socket = {w1, w2}
  Stream = {w1, w2}
  NameOf <- ToMe
  Nil = Nil
  NoSocket = Nil
  Sid = {1}
  Level <- AllDurable
  Rid = {1}
  MaxVersion = 1
  Capacity = 1
  Answered = TRUE
SPECIFICATION FairSpec
CHECK_DEADLOCK FALSE
PROPERTIES ReleasedOnReconnect
