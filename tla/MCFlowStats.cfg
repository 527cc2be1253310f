SPECIFICATION Spec
CONSTANTS
  Keys = {1, 2, 3, 4}
  NumSlots = 2
  Flag = 128
  NumRows = 1
  RowSize = 2
  CountMod = 8
  Positions = {1, 2}
  Counts = {0, 1, 2, 9}
  MaxPackets = 13
  BucketOf <- MCBucketOf
  Hash <- MCHash
  HitterSize = 2
INVARIANTS OneSlotPerFlow NoUnderestimate AtMostTwice UnflaggedExact
  HeavyHitterRanksTruly DistWrapNeedsSharedCounter UncountedFlowsAreExact
PROPERTIES ImplementsHeavyLight
