SPECIFICATION Spec
CONSTANTS
  N = 2
  Key = {k1, k2}
  Get = {r1}
  NoEntry = NoEntry
  MaxFaults = 1
PROPERTY
  UpsertSurvives
CHECK_DEADLOCK FALSE
