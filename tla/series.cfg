SPECIFICATION Spec
CONSTANTS
  s1e1 = s1e1
  s2e1 = s2e1
  s2e2 = s2e2
  Catalogue = {s1e1, s2e1, s2e2}
  SeasonOf <- MCSeasonOf
  MayMiss = {"tmdb", "sonarr"}
  MayLackNumber = {1}
  Show = Show
  None = None
  Threshold = 1
  MaxTime = 1
  MaxChanges = 2
INVARIANTS TypeOK NewestComplete MatchWasDue CalmScanIsExact
SYMMETRY Symmetry
CHECK_DEADLOCK FALSE
