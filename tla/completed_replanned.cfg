SPECIFICATION Spec
CONSTANTS
  c1 = c1
  c2 = c2
  r1 = r1
  r2 = r2
  none = none
  Sources = {1, 2}
  Comics = {1, 2}
  Candidates = {c1, c2}
  Runs = {r1, r2}
  NoRun = none
  RunOf <- RunOfCandidate
  Yearless = {c2}
  Strong = {c1}
  LocalYear = {1}
  Offers <- OffersTwo
  Evidence = {"scan", "rescan"}
  FirstEvidence = "scan"
  MaxRows = 3
  MaxPlans = 2
PROPERTIES
  CompletedNotReplanned
CHECK_DEADLOCK FALSE
