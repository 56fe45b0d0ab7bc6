SPECIFICATION Spec
CONSTANTS
  Peripherals = {p1, p2, p3}
  MaxConn = 2
  QueueSize = 2
  MaxPublish = 2
  MaxDrift = 1
  Environment = {"lost", "failed", "insecure", "scan", "create", "discovery", "service", "again", "write"}
  None = None
SYMMETRY Alike
INVARIANTS
  TypeOK
  EveryConnectionHasItsSlot
  QueuedIsSent
  LooksForPeripherals
  SetupGoesOn
PROPERTIES
  Refines
CHECK_DEADLOCK FALSE
