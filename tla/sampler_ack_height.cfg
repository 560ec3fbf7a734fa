SPECIFICATION Spec
CONSTANTS
  MaxPacket = 4
  MaxAcked = 4
  MaxTime = 4
  Cwnd = 3
  WindowLength = 2
  WordSize = 16
INVARIANTS AckHeightWasAcked
