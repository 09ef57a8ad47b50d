SPECIFICATION Spec
CONSTANTS
  film = film
  season = season
  special = special
  request = request
  NoRow = NoRow
  Ids = {r1, r2}
  Media = {film}
  Kind <- MCKind
  Unnumbered <- MCUnnumbered
  Requests = {request}
  RequestOf <- MCRequestOf
  Files = {f1}
  Scanners = {s1, s2}
  Users = {}
  Graces = {1}
  Switchable = {}
  MaxTime = 1
  MaxFaults = 0
INVARIANTS NoDuplicateActive
