SPECIFICATION Spec
CONSTANTS
  Depth = 2
  Leaves <- MCLeaves
  Buckets <- MCBuckets
  Path <- MCPath
  Z = 2
  Ids = {i1, i2, i3}
  Data = {0, 1}
  Zero = 0
  Dummy = Dummy
  Absent = Absent
  StashSize = 3
  MaxClears = 1
SYMMETRY Symmetric
INVARIANTS SizeIsNumberOfNodes
CHECK_DEADLOCK FALSE
