SPECIFICATION FairSpec
CONSTANTS
  MaxPacket = 6
  Cwnd = 4
  ReorderingThreshold = 3
  MaxRtoCount = 1
  DuplicatedAcks = TRUE
INVARIANTS TypeOK FlightIsExact MapIsConsistent ScansAreSound LossTimerWorks
PROPERTIES PacketsLeaveFlight ImplementsLedger
