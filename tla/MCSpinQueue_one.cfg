SPECIFICATION FairSpec
CONSTANTS
  app = app
  enclave = enclave
  Threads = {app, enclave}
  Messages = {m1, m2, m3}
  NULL = NULL
  Ops <- OneConsumerOps
INVARIANTS ListInv CrashNeedsSecondConsumer PolledPopGetsMessage
PROPERTIES LockReleased
CHECK_DEADLOCK FALSE
