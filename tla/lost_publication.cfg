SPECIFICATION Spec
CONSTANTS
  N = 1
  MaxKills = 1
  MaxPowerLosses = 1
  MaxFaults = 0
  MaxMeddles = 0
INVARIANTS
  SomeCopyLeft
CHECK_DEADLOCK FALSE
