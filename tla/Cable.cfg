SPECIFICATION Spec
CONSTANTS
  PacketCount = 3
  QueueSize = 2
  Grace = 1
  Bits = 5
  Sizes = {1}
  Bandwidths = {0, 2}
  Default = 2
  MaxCost = 2
  Latencies = {0, 1}
  Jitters = {1}
  DropRates = {1}
  ErrorRates = {1}
  Bodyless = {3}
  Steps = {2}
  Noise <- NoiseDef
  MaxTime = 2
INVARIANTS
  RateBound
  ShutsBriefly
  SteadyInv
  InOrder
PROPERTY Lands
CHECK_DEADLOCK FALSE
