SPECIFICATION FairSpec
CONSTANTS
  n1 = n1
  n2 = n2
  n3 = n3
  Nodes = {n1, n2, n3}
  Counts <- MCCounts
  Modes <- AllModes
  Pipe = 1
  Window = 1
  MaxFaults = 2
  None = None
  Gone = Gone
INVARIANTS SuccessIsComplete CapHolds NoResidue HealthyNodesSucceed
PROPERTIES EachSessionEnds
CHECK_DEADLOCK FALSE
