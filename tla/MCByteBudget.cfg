SPECIFICATION PipelineSpec
CONSTANTS
  Reservers = {r1, r2}
  Releasers = {l1, l2}
  empty = empty
  small = small
  large = large
  Nobody = Nobody
  Items = {empty, small, large}
  Size <- MCSize
  Capacity = 3
INVARIANTS AccountsBalance NoLostWakeup
PROPERTIES ReserveReturns ImplementsContract
CHECK_DEADLOCK FALSE
