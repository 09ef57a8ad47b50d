SPECIFICATION Spec
CONSTANTS
  film = film
  show = show
  r1 = r1
  r2 = r2
  Films = {film}
  Shows = {show}
  Tmdb <- MCTmdb
  Requests = {r1, r2}
  Subject <- MCSubject
  MayLackId = {show}
  MayLackTvdb = {r2}
  None = None
  PageSize = 1
  Threshold = 1
  MaxTime = 1
  MaxChanges <- MCMaxChanges
INVARIANTS TypeOK MatchWasDue JudgedIsRequested MissedAtMostRemoved CalmScanIsExact
CHECK_DEADLOCK FALSE
