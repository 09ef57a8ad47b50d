SPECIFICATION Spec
CONSTANTS
  film = film
  ep1 = ep1
  ep2 = ep2
  Files = {film, ep1, ep2}
  LibraryOf <- MCLibraryOf
  Source <- MCSource
  Scans = {daily, manual}
  Daily = daily
  None = None
  MaxChanges = 1
  MaxFaults = 1
INVARIANTS TypeOK LockHasRows
PROPERTIES ReportedWasStray ClearedStaysCleared StrayIsReported
