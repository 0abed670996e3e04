SPECIFICATION Spec
CONSTANTS
  Consumers = {c1, c2}
  Cron = cron
  Price = {1, 2}
  Periods = {1, 3}
  MAX_GAP_STEPS = 2
  Retention = 1
  MaxTime = 4
  MaxSwaps = 2
INVARIANTS
  TypeOK
  CountedOnce
  CarriedForward
PROPERTY
  HolesAfterGaps
SYMMETRY Symmetry
CHECK_DEADLOCK FALSE
