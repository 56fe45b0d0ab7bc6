SPECIFICATION Spec
CONSTANTS
  Hash <- MCHash
  Versions <- ThreeVersions
  InitialImage <- Old
  OtaMessages <- TwoUpgrades
  Ids = {1}
  Environment = {"push", "dlfail"}
  MaxInFlight = 1
  None = None
PROPERTIES
  OnlyNewerImages
