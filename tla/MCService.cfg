SPECIFICATION Spec
CONSTANTS
  NumTraces = 2
  PoolSize = 9
  CtrMod = 3
  None = None
INVARIANTS OnePlace PoolSuffices PooledBlank PayloadsOpen FailuresExplained
PROPERTIES ImplementsMeasurement Terminates
CHECK_DEADLOCK FALSE
