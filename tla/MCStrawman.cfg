SPECIFICATION Spec
CONSTANTS
  Keys = {1, 2, 3}
  NumRows = 2
  RowSize = 4
  CountMod = 8
  WordSize = 4
  Counts = {1, 3}
  HitterSize = 1
  Threshold = 50
  MaxTraces = 3
  Hash <- MCHash
INVARIANTS NoUnderestimate AnswerWithinLoad
PROPERTIES QueriesKeepAnswers
CHECK_DEADLOCK FALSE
