SPECIFICATION Spec
CONSTANTS
  LeaseMs = 3
  MaxTime = 6
  MaxSkew = 2
  MaxProjections = 2
INVARIANTS
  TypeOK
  KvVerdictIsRecord
PROPERTIES
  LeaseExclusion
  OrphanOnce
  ImplementsLifecycle
CHECK_DEADLOCK FALSE
