SPECIFICATION FairSpec
CONSTANTS
  Producers = {p1}
  Consumers = {c1, c2}
  Messages = {m1, m2}
  NoMessage = none
  MaxAttempts = 2
  RenderMax = 2
  RawFloor = 3
  MaxRetries = 1
  MaxTime = 9
  MaxFaults = 2
  PromptSteps = TRUE
  LatePuts = FALSE
CHECK_DEADLOCK FALSE
INVARIANTS
  AcksOnlySettled
  LossNeedsFault
PROPERTIES
  AcceptedSettles
