CONSTANTS
  Fixers = {f1, f2}
  Libraries <- MCShelvedBooks
  Scopes <- MCScopes
  Edits <- MCEdits
  Incoming <- MCIncoming
  Decided <- MCDecided
  Sources <- MCSources
  MaxMeddling = 1
  MaxParts = 4

SPECIFICATION Spec

INVARIANTS
  PublishedBookStays

CHECK_DEADLOCK FALSE
