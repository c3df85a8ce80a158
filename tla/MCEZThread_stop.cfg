\* One client stops a consumer in both ways and restarts it, while others send to
\* it and it stops by itself; a creation may fail.
CONSTANTS
  NULL = NULL
  Objects = {o}
  Consumers = {o}
  Clients = {c}
  Bodies = {b1, b2}
  Ops = {"create", "restart", "fail", "destroy", "destroywait", "self", "data"}
  QueueSize = 2
  SemMax = 2
SPECIFICATION FairSpec
CHECK_DEADLOCK FALSE
INVARIANTS OneThreadPerObject BodyKnowsItself
PROPERTIES StopEndsThread WaiterReleased RestartReturns
