SPECIFICATION Spec
CONSTANTS
  Hash <- MCHash
  Versions <- ThreeVersions
  InitialImage <- Old
  OtaMessages <- AllMessages
  Ids = {0, 1}
  Environment = {"drop", "refuse", "noconnect", "oversize", "dlfail", "leave"}
  MaxInFlight = 2
  None = None
INVARIANTS
  TypeOK
  ReconnectExactlyWhenDown
  ConnectedIsServed
  NeverStalled
  AnsweredFirst
PROPERTIES
  RestartsForAReason
  Refines
