SPECIFICATION Spec
CONSTANTS
  Requests = {r1, r2, r3, r4}
  Limit = 2
  Window = 3
  Concurrency = 1
  MaxTime = 6
CHECK_DEADLOCK FALSE
PROPERTY RefusesOnlyOverQuota
