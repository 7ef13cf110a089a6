SPECIFICATION Spec
CONSTANTS
  Virtual = {p1, p2}
  Physical = {q1}
  MaxFd = 3
  MaxCommands = 2
  Nil = Nil
INVARIANTS
  TypeOK
  ListMatches
  HostsSafe
  BlockedByTwo
PROPERTY Served
CHECK_DEADLOCK FALSE
