CONSTANTS
  Processes = {p1, p2}
  MaxRequests = 2
  Window = 3
  Interval = 1
  BusyTimeout = 1
  Delays <- MCDelays
  TTL = 1
  MaxRetries = 1
  Versions <- MCVersions

SPECIFICATION Spec

INVARIANTS
  TypeOK
  PolicyKept
  RowTellsItsAge

PROPERTIES
  BlockRespected
  NoStandstill
