SPECIFICATION Spec
CONSTANTS
  Reach = 3
  InitialCwnd = 2
  MinCwnd = 1
  MaxCwnd = 3
  Bandwidths = {1, 2}
  InitialPacingRate = 100
  CycleLength = 3
  StartupRounds = 2
  StartupLossCount = 1
  MinRttExpiry = 1
  ProbeRttTime = 1
INVARIANTS TypeOK MachinesAgree ConservationLastsARound
PROPERTIES RecoveryAdmitsAnAnswer ProbeRttIsHonored StartupNeverShrinks
