SPECIFICATION Spec
CONSTANTS
  Videos = {v1, v2}
  Jobs = {j1, j2}
  None = none
  Rounds = 1
  MaxReloads = 1
CHECK_DEADLOCK FALSE
INVARIANTS
  TypeOK
  ShownVerdictIsReal
  RunningJobIsResumable
  StatusTellsWork
  SaveableOutputExists
PROPERTIES
  OnlyAnEndForgets
  StoredJobSettles
