SPECIFICATION Spec
CONSTANTS
  Boxes = {b1, b2, b3}
  MaxParts = 2
  MaxNodes = 1
  DeviceKinds = {"host", "hub", "ether"}
  PortCounts = {0, 1, 2}
  Nil = Nil
SYMMETRY Symmetry
CHECK_DEADLOCK FALSE
INVARIANTS
  TypeOK
  RegistryLive
  CountMatchesLive
  ScanComplete
  OwnersApart
