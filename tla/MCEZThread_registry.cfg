\* A consumer and two workers come and go in every order; they may fail to start,
\* return by themselves and lose the message that should wake them.
CONSTANTS
  NULL = NULL
  Objects = {o1, o2, o3}
  Consumers = {o1}
  Clients = {c}
  Bodies = {b1, b2, b3}
  Ops = {"create", "destroy", "return", "fail", "stop", "quitmsg"}
  QueueSize = 1
  SemMax = 2
SPECIFICATION Spec
SYMMETRY WorkerBodySymmetry
INVARIANTS RegistryExact
