SPECIFICATION Spec
CONSTANTS
  Requests = 2
  None = none
  Expired = expired
  MaxAttempts = 2
  Slots = 1
  MaxAged = 1
  MaxFaults = 1
CHECK_DEADLOCK FALSE
INVARIANTS
  TypeOK
  DoneTrackIsThere
  FinalizingIsExpiry
PROPERTIES
  JobsSettle
