SPECIFICATION Spec
CONSTANTS
  p1 = p1
  N = 3
  Pool <- OnePool
  Kind <- CreateMintTouch
  PoolOf <- SamePool
  Slot = {s1, s2}
  MaxRestarts = 1
  MaxReconnects = 1
  MaxFaults = 1
SYMMETRY SlotSymmetry
INVARIANTS
  TypeOK
  InOrderSettlement
  StoredFirst
  EffectUnlessCreationLost
  DoubleCountBound
PROPERTIES
  OrderWhileConnected
CHECK_DEADLOCK FALSE
