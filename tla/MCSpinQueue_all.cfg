SPECIFICATION Spec
CONSTANTS
  app = app
  enclave = enclave
  Threads = {app, enclave}
  Messages = {m1, m2, m3}
  NULL = NULL
  Ops <- AllOps
SYMMETRY Containers
INVARIANTS MutualExclusion WellLinked EmptyReadIsTrue
PROPERTIES ImplementsDeque
CHECK_DEADLOCK FALSE
