SPECIFICATION Spec
CONSTANTS
  Reach = 4
  Mss = 4
  PacketSize = 5
  InitialCwnd = 2
  MinCwnd = 2
  MaxCwnd = 4
  MaxBurst = 1
  EpochTicks = 3
  Rtts = {1, 3}
  RttThreshold = 1
  MinSamples = 2
  LowWindow = 3
  InitialGate = 2
INVARIANT TypeOK OneCutbackPerRound
PROPERTY WindowMovesAreJustified SlowStartOnlyAfterTimeout
