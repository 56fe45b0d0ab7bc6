SPECIFICATION Spec
CONSTANTS
  Hash <- MCHash
  Versions <- TwoVersions
  InitialImage <- Old
  OtaMessages <- SameAndNew
  Ids = {1}
  Environment = {"drop"}
  MaxInFlight = 1
  None = None
INVARIANTS
  ApplicationIsSubscribed
CHECK_DEADLOCK FALSE
