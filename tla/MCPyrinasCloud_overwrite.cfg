SPECIFICATION Spec
CONSTANTS
  Hash <- MCHash
  Versions <- ThreeVersions
  InitialImage <- New
  OtaMessages <- OldAndNewer
  Ids = {1}
  Environment = {"older", "push"}
  MaxInFlight = 2
  None = None
PROPERTIES
  OnlyNewerImages
CHECK_DEADLOCK FALSE
