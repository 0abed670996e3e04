SPECIFICATION FairSpec
CONSTANTS
  N = 2
  Key = {k1, k2}
  Get = {r1}
  NoEntry = NoEntry
  MaxFaults = 1
INVARIANTS
  TypeOK
  StaleOnlyByRace
PROPERTIES
  EventuallyCurrent
CHECK_DEADLOCK FALSE
