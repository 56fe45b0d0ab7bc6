SPECIFICATION FairSpec
CONSTANTS
  Pool <- MCPool
  Credits <- MCCredits
  Room = 2
  Lengths = {0, 2, 3}
  DiscardLen = 2
  MaxPackets = 3
  Faults = {"flood", "oversize", "sendfail", "assert"}
INVARIANTS
  TypeOK
  PacketsAreWhole
  FlowControlSuffices
PROPERTIES
  CreditsReturn
  BuffersComeBack
CHECK_DEADLOCK FALSE
