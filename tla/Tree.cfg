SPECIFICATION Spec
CONSTANTS
  Devices = {s1, h1, h2}
  Switches = {s1}
  Counts <- CountsDef
  SwitchCounts = {1, 5}
  OtherCounts = {3}
  MaxLinks = 4
  MaxLeft = 1
  MaxChildren = 3
  Rows = 3
  Columns = 4
  Nil = Nil
SYMMETRY Symmetry
INVARIANTS
  
  TreeExact
  RowPerLeaf
  BarsJoinSiblings
  PipesByPlace
CHECK_DEADLOCK FALSE
