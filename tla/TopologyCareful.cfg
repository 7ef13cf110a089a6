SPECIFICATION TSpec
CONSTANTS
  Boxes = {b1, b2, b3, b4}
  MaxParts = 2
  MaxNodes = 2
  DeviceKinds = {"host", "ether"}
  PortCounts = {1, 2}
  Nil = Nil
  QueueSize = 1
  MaxFlight = 1
SYMMETRY Symmetry
INVARIANTS
  IInv
  WiringSymmetric
  FullDuplex
  ComponentsExact
  RegistryExact
  FlightInv
  OnlyHaste
PROPERTIES
  NoRepatch
  ImplementsPanel
CHECK_DEADLOCK FALSE
