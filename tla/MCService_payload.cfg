SPECIFICATION Spec
CONSTANTS
  NumTraces = 2
  PoolSize = 9
  CtrMod = 3
  None = None
INVARIANTS ReplyTellsItsSize
CHECK_DEADLOCK FALSE
