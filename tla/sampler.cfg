SPECIFICATION Spec
CONSTANTS
  MaxPacket = 3
  MaxAcked = 4
  MaxTime = 3
  Cwnd = 3
  WindowLength = 2
  WordSize = 16
INVARIANTS TypeOK SlopesStartOnTheCurves AppLimitedPhaseEndsWithItsAck FlightIsSampled
