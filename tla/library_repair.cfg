CONSTANTS
  Fixers = {f1, f2}
  Libraries <- MCLibraries
  Scopes <- MCScopes
  Edits <- MCEdits
  Incoming <- MCIncoming
  Decided <- MCDecided
  Sources <- MCSources
  MaxMeddling = 1
  MaxParts = 4

SYMMETRY FixersAlike
SPECIFICATION Spec

INVARIANTS
  TypeOK
  NothingLost
  LeftoversReported
  PublishedIsCanonical

PROPERTIES
  RepairSettles

CHECK_DEADLOCK FALSE
