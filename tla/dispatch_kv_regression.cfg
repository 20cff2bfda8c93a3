SPECIFICATION Spec
CONSTANTS
  Producers = {p1, p2}
  Consumers = {c1}
  Messages = {m1, m2}
  NoMessage = none
  MaxAttempts = 3
  RenderMax = 2
  RawFloor = 3
  MaxRetries = 5
  MaxTime = 9
  MaxFaults = 0
  PromptSteps = TRUE
  LatePuts = FALSE
CHECK_DEADLOCK FALSE
PROPERTY
  KvVerdictSticky
