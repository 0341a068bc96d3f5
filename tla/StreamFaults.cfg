SPECIFICATION FairSpec
CONSTANTS
  N = 5
  Items = {0, 1, 2, 3, 4}
  Size <- MCSize
  Capacity = 16
  ShardSize = 2
  Committers = 2
  Workers = {w1, w2}
  WorkCap = 1
  SlotCap = 1
  Skippable = {4}
  Fallible = {0, 3}
  Panicky = {1, 2}
  SinkFails = TRUE
  Idle = Idle
INVARIANTS BytesAccounted MergedLikeBatch OkIsCompleteOrPanicked
PROPERTIES AbortReturns
CHECK_DEADLOCK FALSE
