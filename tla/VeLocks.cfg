SPECIFICATION Spec
CONSTANTS
  MaxToken = 3
  MaxEvents = 4
  NoRow = NoRow
  MaxFaults = 2
INVARIANTS
  TypeOK
  Converges
  NeverOverstated
PROPERTY
  ClosedStaysClosed
CHECK_DEADLOCK FALSE
