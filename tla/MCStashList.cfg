SPECIFICATION Spec
CONSTANTS
  Nodes = {n1, n2, n3, n4}
  NULL = NULL
  Ids = {i1, i2, i3}
  Data = {0, 1}
  Absent = Absent
  Unset = Unset
  StashSize = 3
SYMMETRY Symmetric
INVARIANTS IInv WalkVisitsNodes
PROPERTIES ImplementsMap
CHECK_DEADLOCK FALSE
