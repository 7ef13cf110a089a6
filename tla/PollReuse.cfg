SPECIFICATION Spec
CONSTANTS
  Virtual = {p1, p2, p3}
  Physical = {}
  MaxFd = 3
  MaxCommands = 1
  Nil = Nil
SYMMETRY Symmetry
INVARIANT AllPolled
