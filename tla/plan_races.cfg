SPECIFICATION Spec
CONSTANTS
  c1 = c1
  r1 = r1
  r2 = r2
  none = none
  Sources = {1, 2}
  Comics = {1}
  Candidates = {c1}
  Documents <- OneSoundOneLegacy
  Runs = {r1, r2}
  NoRun = none
  RunOf <- RunOfCandidate
  Yearless = {c1}
  MaxRows = 4
  MaxPlans = 2
  MaxImports = 1
INVARIANTS
  TypeOK
  EligibleIsCurrent
  OneLivePlan
PROPERTIES
  RefusalIsFinal
CHECK_DEADLOCK FALSE
