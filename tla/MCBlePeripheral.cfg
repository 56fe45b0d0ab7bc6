SPECIFICATION Spec
CONSTANTS
  Names = {ping, pong, other}
  Handlers = {h1, h2}
  MaxSubscriptions = 2
  EventQueueSize = 2
  MaxEvents = 3
  QueueSize = 2
  MaxPublish = 2
  Environment = {"lost", "failed", "insecure", "adv", "notify"}
  None = None
SYMMETRY Alike
INVARIANTS
  TypeOK
  EventsAreDispatched
  ReadyExactlyWhenSecured
  QueuedIsSent
  CanBeFound
PROPERTIES
  EventsReachTheirHandler
  Refines
CHECK_DEADLOCK FALSE
