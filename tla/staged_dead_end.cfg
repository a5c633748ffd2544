SPECIFICATION Spec
CONSTANTS
  N = 1
  MaxKills = 0
  MaxPowerLosses = 1
  MaxFaults = 0
  MaxMeddles = 0
PROPERTIES
  StagedNeverManual
CHECK_DEADLOCK FALSE
