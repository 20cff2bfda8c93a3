SPECIFICATION Spec
CONSTANTS
  Producers = {p1, p2}
  Consumers = {c1, c2}
  Messages = {m1, m2, m3}
  NoMessage = none
  MaxAttempts = 3
  RenderMax = 2
  RawFloor = 3
  MaxRetries = 1
  MaxTime = 9
  MaxFaults = 1
  PromptSteps = TRUE
  LatePuts = TRUE
SYMMETRY Symmetry
CHECK_DEADLOCK FALSE
INVARIANTS
  TypeOK
  DoneHasResult
  ChargedOnce
  MarkProvesSend
  OneRenderAtATime
  AcceptedIsCarried
  OnlyClaimsAndVerdicts
PROPERTIES
  RegressNeedsCause
