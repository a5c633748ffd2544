CONSTANTS
  EligibleScore = 92
  EligibleMargin = 12
  Batches <- MCBatches
  Catalogues <- MCCatalogues
  Selections <- MCSelections
  Keys <- MCKeys
  Numbers = {1, 2}
  NameOf <- MCNameOf
  Runs = {"r1", "r2", "r3", "s"}
  Rank <- MCRank
  IssueOf <- MCIssueOf
  DatedRuns <- MCDated
  Likeness <- MCLikeness
  Shelf <- MCShelf
  Shops <- MCShops
  Rejected <- MCRejected
  MaxRuns = 2
  MaxProbes = 4
  Variants = 2
  MaxHits = 2

SPECIFICATION Spec

INVARIANTS
  TypeOK
  EligibleIsRight
  SelectionDecides
  ResolvedByName
  

PROPERTY ResolutionStable
