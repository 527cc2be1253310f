SPECIFICATION Spec
CONSTANTS
  Keys = {1, 2, 3, 4}
  Positions = {1, 2}
  BucketOf <- MCBucketOf
  NumSlots = 2
  Counts = {0, 1, 2, 9}
  MaxPackets = 13
CONSTRAINT Bounded
INVARIANTS IInv UnmarkedExact BoundedEstimate
