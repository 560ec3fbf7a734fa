SPECIFICATION FairSpec
CONSTANTS
  MaxFlight = 2
  MinCwnd = 1
  Bdps = {1, 4}
  AckHeights = {0, 15}
  WordSize = 16
  StartupLossCount = 1
  ProbeLossCount = 1
  FullBwRounds = 2
  MinRtt = 0
  ProbeWait = 1
  ProbeRttPeriod = 1
  ProbeRttDuration = 0
  MaxQuiescence = 1
INVARIANTS TypeOK PhasesAgree CycleIsCounted ModeLoopSettles PhasesLastLongEnough
PROPERTIES ProbeRttIsPeriodic BandwidthIsProbed ProbeRttEnds
