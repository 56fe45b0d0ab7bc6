SPECIFICATION FairSpec
CONSTANTS
  Hash <- MCHash
  Versions <- TwoVersions
  InitialImage <- Old
  OtaMessages <- SameAndNew
  Ids = {1}
  Environment = {"drop", "noconnect", "mute"}
  MaxInFlight = 1
  None = None
PROPERTIES
  Reconnects
  BootResolves
  UpgradeEnds
