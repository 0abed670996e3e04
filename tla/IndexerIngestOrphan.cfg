SPECIFICATION Spec
CONSTANTS
  p1 = p1
  N = 3
  Pool <- OnePool
  Kind <- CreateMintTouch
  PoolOf <- SamePool
  Slot = {s1, s2}
  MaxRestarts = 0
  MaxReconnects = 1
  MaxFaults = 0
PROPERTIES
  AggregationOrder
CHECK_DEADLOCK FALSE
