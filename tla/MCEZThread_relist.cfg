\* A worker is restarted at once.
CONSTANTS
  NULL = NULL
  Objects = {o}
  Consumers = {}
  Clients = {c}
  Bodies = {b1, b2}
  Ops = {"create", "restart", "destroy"}
  QueueSize = 1
  SemMax = 2
SPECIFICATION Spec
CHECK_DEADLOCK FALSE
INVARIANTS AddedWhenUnlisted
