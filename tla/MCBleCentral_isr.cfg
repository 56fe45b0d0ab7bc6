SPECIFICATION Spec
CONSTANTS
  Peripherals = {p1, p2}
  MaxConn = 2
  QueueSize = 2
  MaxPublish = 1
  MaxDrift = 1
  Environment = {"lost", "isr"}
  None = None
INVARIANTS
  FreeQueuesAreEmpty
CHECK_DEADLOCK FALSE
