SPECIFICATION FairSpec
CONSTANTS
  N = 6
  Items = {0, 1, 2, 3, 4, 5}
  Size <- MCSize
  Capacity = 3
  ShardSize = 2
  Committers = 2
  Workers = {w1, w2}
  WorkCap = 1
  SlotCap = 1
  Skippable = {1, 4}
  Fallible = {}
  Panicky = {}
  SinkFails = TRUE
  Idle = Idle
PROPERTIES Termination ImplementsOrderedBuild
CHECK_DEADLOCK FALSE
