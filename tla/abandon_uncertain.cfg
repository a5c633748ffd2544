SPECIFICATION Spec
CONSTANTS
  N = 1
  MaxKills = 1
  MaxPowerLosses = 0
  MaxFaults = 0
  MaxMeddles = 1
PROPERTIES
  AbandonRefusesUncertain
CHECK_DEADLOCK FALSE
