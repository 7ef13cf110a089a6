SPECIFICATION SwitchSpec
CONSTANTS
  Boxes = {b1, b2, b3, b4}
  MaxParts = 2
  MaxNodes = 2
  DeviceKinds = {"hub", "ether"}
  PortCounts = {1, 2}
  Nil = Nil
SYMMETRY Symmetry
CHECK_DEADLOCK FALSE
INVARIANT NothingOrphaned
