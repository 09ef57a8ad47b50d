SPECIFICATION Spec
CONSTANTS
  films = films
  shows = shows
  report = report
  None = None
  Daily = daily
  Needs <- MCNeeds
  Rules = {shows, report}
  Unhandled = {report}
  Incremental = {shows}
  Items = {i1, i2}
  RunIds = {n1, n2}
  Manual = {m1}
  Toggles = {shows, "seerr"}
  MaxFaults = 1
SYMMETRY MCSymmetry
INVARIANTS TypeOK RowHasReason MatchIsQueued ReferencesHold CountsCoverFinishedRules
PROPERTIES ImplementsHistory
CHECK_DEADLOCK FALSE
