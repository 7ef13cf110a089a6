SPECIFICATION UnplugSpec
CONSTANTS
  PacketCount = 3
  QueueSize = 2
  Grace = 2
  Bits = 2
  Sizes = {1, 3}
  Bandwidths = {0, 3}
  Default = 3
  MaxCost = 2
  Latencies = {0, 2}
  Jitters = {0, 1}
  DropRates = {0, 1}
  ErrorRates = {0, 1}
  Bodyless = {3}
  Steps = {2}
  Noise <- NoiseDef
  MaxTime = 5
INVARIANT NoFault
CHECK_DEADLOCK FALSE
