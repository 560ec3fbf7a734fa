SPECIFICATION Spec
CONSTANTS
  MaxPacket = 6
  Cwnd = 4
  ReorderingThreshold = 3
  MaxRtoCount = 1
  DuplicatedAcks = FALSE
INVARIANT AckedRecordsWereDelivered
