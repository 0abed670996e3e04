SPECIFICATION Spec
CONSTANTS
  Consumers = {c1}
  Cron = cron
  Price = {1, 2}
  Periods = {1}
  MAX_GAP_STEPS = 2
  Retention = 4
  MaxTime = 4
  MaxSwaps = 2
INVARIANT SwapInItsBucket
CHECK_DEADLOCK FALSE
