SPECIFICATION ConfigSpec
CONSTANTS
  c1 = c1
  c2 = c2
  h1 = h1
  h2 = h2
  Call = {c1, c2}
  NoAnswer = NoAnswer
  Slot = {s1, s2}
  Prefetch = {1, 2}
  MaxReconnects = 1
  MaxFaults = 1
  Http = {h1, h2}
  Code = {"g1", "g2"}
  NoRow = NoRow
  CODE_MAX_ATTEMPTS = 2
  Scenarios <- MCScenarios
INVARIANTS
  TypeOK
  PendingExact
  RequestsSurvive
  ToldIsKept
  OneBadge
PROPERTIES
  CallsSpec
  EveryCallSettles
  EveryRequestRuns
CHECK_DEADLOCK FALSE
