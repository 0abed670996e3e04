SPECIFICATION FairSpec
CONSTANTS
  p1 = p1
  N = 3
  Pool <- OnePool
  Kind <- TwiceCreated
  PoolOf <- SamePool
  Slot = {s1, s2}
  MaxRestarts = 0
  MaxReconnects = 1
  MaxFaults = 1
PROPERTIES
  EveryMessageSettles
CHECK_DEADLOCK FALSE
