SPECIFICATION Spec
CONSTANTS
  Videos = {v1, v2}
  Jobs = {j1, j2}
  None = none
  Rounds = 1
  MaxReloads = 0
SYMMETRY Symmetry
CHECK_DEADLOCK FALSE
INVARIANTS
  OutputMatchesJob
