SPECIFICATION Spec
CONSTANTS
  Hosts <- HostsDef
  Hubs = {"h0"}
  Switches = {"s0"}
  Owner <- OwnerDef
  Wire <- WireDef
  Order <- OrderDef
  Away <- AwayDef
  Everyone = "ff"
  Lossy = {}
  Slow = {}
  Switchable = {}
  QueueSize = 3
  TableSize = 2
  Age = 1
  MaxFrames = 3
  MaxTime = 2
INVARIANTS
  TypeOK
  InSequence
  Reaches
CHECK_DEADLOCK FALSE
