SPECIFICATION FairSpec
CONSTANTS
  N = 2
  MaxKills = 1
  MaxPowerLosses = 0
  MaxFaults = 1
  MaxMeddles = 1
INVARIANTS
  TypeOK
  JournalTruth
  FailedRunClean
PROPERTIES
  ForeignKept
  OnlyAllowedTransitions
  CrashesStrandNothing
  CrashedRunFinishes
  ImplementsPublication
CHECK_DEADLOCK FALSE
