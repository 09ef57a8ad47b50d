SPECIFICATION Spec
CONSTANTS
  film = film
  season = season
  special = special
  request = request
  NoRow = NoRow
  Ids = {r1, r2}
  Media = {film, season, special}
  Kind <- MCKind
  Unnumbered <- MCUnnumbered
  Requests = {request}
  RequestOf <- MCRequestOf
  Files = {f1, f2}
  Scanners = {s1}
  Users = {}
  Graces = {0, 1}
  Switchable = {"sonarr"}
  MaxTime = 0
  MaxFaults = 1
SYMMETRY RowSymmetry
INVARIANTS GraceRespected OutcomeMatchesLog SuccessIsReal NoDuplicateActive
