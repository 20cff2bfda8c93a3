SPECIFICATION Spec
CONSTANTS
  Edges = {e1, e2}
  Threshold = 1
  MaxSpend = 1
  MaxKeys = 2
  MaxDevices = 2
  Requests = {r1}
  None = none
  MaxReloads = 2
CHECK_DEADLOCK FALSE
INVARIANTS
  TypeOK
  ReadyDeviceCanSign
  QuotaSpentByOwner
PROPERTIES
  OnlyFalseDisarms
  OverspendArms
  ClosedEdgesAdmitNobody
