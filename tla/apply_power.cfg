SPECIFICATION Spec
CONSTANTS
  N = 2
  MaxKills = 0
  MaxPowerLosses = 2
  MaxFaults = 0
  MaxMeddles = 1
INVARIANTS
  JournalTruth
  NothingLost
CHECK_DEADLOCK FALSE
