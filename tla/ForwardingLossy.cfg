SPECIFICATION Spec
CONSTANTS
  Hosts <- HostsDef
  Hubs = {"h0"}
  Switches = {"s0"}
  Owner <- OwnerDef
  Wire <- WireDef
  Order <- OrderDef
  Away <- AwayDef
  Everyone = "ff"
  Lossy = {"v1.0", "s0.1"}
  Slow = {"h0.0"}
  Switchable = {"s0"}
  QueueSize = 1
  TableSize = 2
  Age = 1
  MaxFrames = 2
  MaxTime = 2
INVARIANTS
  Conservation
  Learned
PROPERTIES
  ImplementsLan
  Drains
CHECK_DEADLOCK FALSE
