# Evictarr in TLA+

Evictarr stages media that nobody needs any more, waits for a grace period and
then asks Seerr, Radarr and Sonarr to delete it. This directory models the
backend (`src/backend/app`), checks it with TLC and proves what matters most
with TLAPS. All paths below are relative to `src/backend/app` unless they begin
with `src/` or `docs/`.

## The system

One process, one event loop, one SQLite file. Every request and every job has a
session of its own; sessions never expire what they loaded
(`db/base.py:16`, `expire_on_commit=False`), SELECTs take no lock, and an
attribute change becomes `UPDATE ... WHERE id = ?` at the next commit. Whatever
a coroutine read before an `await` is therefore what it acts on after it.

| Component | State | Operations | Talks to | What makes it correct |
|---|---|---|---|---|
| Deletion queue (`deletions/queue_service.py`) | `pending_deletions` rows: status, staged_at, grace_period_hours, execute_after, dedupe_key, external ids | `stage`, `cancel` | called by rule scans and the API | one active row per medium; a cancelled row is never executed |
| Executor (`deletions/executor.py`) | the list of due rows and the row in hand (memory); `action_log` | `execute_due`, every 15 min | Seerr, Radarr, Sonarr, notifications | never early, never twice, every attempt logged, log and status agree, everything due is attempted |
| Rule engine (`rules/engine.py`, `context.py`, `base.py`) | `rules`, `runs`, `run_events` | `run_scan` (cron, run-now), rule CRUD | Jellyfin, Seerr, *arr, queue | counts agree with events; a run ends; one rule's failure does not affect another |
| Rules (`movie_watched`, `series_watched`, `stale_request`, `thresholds`) | none | `evaluate`, real or dry run | clients | nothing exempt, unwatched or still airing is staged; the dry run agrees with the real run |
| Preview (`engine.py:84-135`) | module-level cache, 60 s | `preview_watched_status` | rules | never older than promised |
| Clients (`integrations/*_client.py`) | none | HTTP calls, 10 s timeout; `IntegrationError` | external services | paging returns every request |
| Integration settings (`integrations/service.py`) | `integrations` | update, test | clients | the stored test result is that of the stored settings |
| Scheduler (`core/scheduler.py`, `api/routes/settings.py`) | two jobs, `app_settings` | start, reschedule | engine, executor, orphaned scan | jobs run as configured; an exception ends one job run only |
| Orphaned files (`orphaned/scanner.py`) | `orphaned_files` | scan, clear | Radarr, Sonarr, disk | every path reported once |
| Authentication (`auth/`, `api/routes/auth.py`, `profile.py`, `cli.py`) | `users`, `sessions`, `auth_method` | enable, disable, login, MFA, logout | every route | sessions end when the method changes; MFA is required once enrolled |
| Notifications (`notifications/`) | `notification_configs` | staged, executed, summary | Discord, Telegram | a failing provider does not fail the job |
| Secrets (`core/secrets.py`) | two key files | get or create | encryption of API keys | one key for ever |

Hard behaviours: coroutines interleave at every `await` (two scans, a scan and
the executor, a cancel and the executor); ticks end early by an exception; the
process may stop between any two commits; replies of external services are
lost; settings change while rows wait.

## Modules

* `DeletionContract` - the promise: an entry has a fixed deadline, is attempted
  at most once, not before the deadline, not after it was withdrawn, and
  reported at most once.
* `DeletionQueue` - the pipeline as coded. `rows`, `actionLog` are the tables;
  `exec`, `scan`, `cancelling` the local variables of the coroutines between
  two awaits; `requests`, `tracked`, `files` the external services (`RequestOf`
  says which request a rule finds for a medium: one for all seasons of a show,
  and one for a film and a show of the same TMDB number; `Unnumbered` are seasons
  without IndexNumber, which match nothing in Sonarr); `clock`,
  `grace`, `enabled` the time and the settings; `faults` bounds the faults and
  `begun` is a history variable that counts how often a row's deletion began.
  The actions follow the code: `ScanStart`, `StageDuplicate` / `StageLookup` /
  `StageAmbiguous`, `StageInsert`, `ScanEnd` for a scan's calls of `stage` (none,
  one or several active rows found); `CancelRead`, `CancelCommit` for `cancel`;
  `ExecuteDue`, `BeginOne`, the call actions, `RecordOutcome`,
  `NotifyExecuted` for `execute_due` and `_execute_one`, with one action per
  commit and per external call (a season's files are listed once, `SeasonListed`,
  and deleted one by one); `ExecutorRaises`, `ScanRaises`, `Restart`.
* `DeletionRefinement` - the mapping from the one to the other.
* `DeletionQueueProofs` - the TLAPS proofs; `QueueOutcomeProofs` - those about the
  outcomes of attempts and the rows of one medium.
* `MCDeletionQueue` - the instances TLC checks: a film of Radarr and a season of
  Sonarr, which share one request, and a season without a number.
* `RuleScan` - the rule engine as coded. `rules`, `on`, `enabled`, `runs`,
  `events`, `rows` and `active` are the tables; `session[s]` the local variables
  of the `run_scan` coroutine in session `s` between two awaits (rules loaded,
  rule in hand, items left, match logged and not staged, clients built, counts).
  `StartRun`, `LoadRules`, `SkipUnhandled`, `Evaluate`, `RuleUnavailable`,
  `RuleInterrupted`, `RuleDone`, `CompleteRun` follow `run_scan`; `IgnoreItem`,
  `SkipItem`, `MatchItem`, `StageItem` the three ways an item ends in a handler;
  `OrphanScan` the second half of the scheduled job; `LogDangling`,
  `ScanRaises`, `Restart` what ends a scan early. What a rule decides about an
  item is open, and staging is one step: its races belong to `DeletionQueue`.
* `HistoryContract` - what History promises about runs: a run is opened, gets at
  most one verdict per rule and item, none of a rule that failed, and is closed
  or abandoned; an item is queued only for a match logged in an open run; a run is
  closed only when all it matched is queued, with the counts of what it logged.
  `HistoryRefinement` maps `RuleScan` to it: a run is open while a session is inside
  `run_scan` with it; the code has no status for an abandoned one.
* `RuleScanProofs` - the TLAPS proofs; `MCRuleScan` - a film rule and a series
  rule (which calls Jellyfin between items), and a report rule without handler.
* `SeriesRule` - what `series_watched.evaluate` decides about one show, at both
  granularities. `disk`, `played`, `favourites`, `airs`, `clock` are the library
  as Jellyfin reports it, which `Change` (`Download`, `Remove`, `Watch`,
  `ToggleFavourite`, `Cancelled`, `Tick`) alters between any two calls; `scan`
  holds what `evaluate` has read so far, `outcome` what it decided. `ReadShow`,
  `ReadSeasons`, `ReadSeason`, `ReadEpisodes`, `ReadNewest`, `ReadDetails` are one
  call each, with the code up to the next call; `Decision` is the tail common to
  both branches, `FullyReleased` the test of `_last_season_still_airing`. `been`
  and `calm` are history variables. `DueNow` is the reference: what the
  documentation says of one state of the library, seasons without a number
  included.
* `SeriesRuleProofs` - the TLAPS proofs; `MCSeriesRule` - a show of two seasons.
* `RequestRules` - the two rules that go by Seerr requests. `shelf`, `user`,
  `favourites` are Jellyfin, `managed` is Radarr and Sonarr, `queue` Seerr's list
  of available requests; `Change` alters them between any two calls. `scan` holds
  the answers so far: `ReadShelf`, `ReadManaged` and `ReadPage` are one call each,
  in the order of the rule (`NextCall`), `ReadPage` one turn of the loop of
  `list_requests`. `DecideWatched` and `DecideStale` are the loops over the
  answers, which make no further call. `been` (the `Fact`s of a work, moment by
  moment), `lasting`, `removed`, `calm` are history variables; `IsDue`, `FilmDue`,
  `RequestDue` the reference.
* `OrphanedScan` - the orphaned-file report. `disk`, `tracked`, `enabled`, `mounted`
  are the libraries, their services and directories, `table` the report, `lock` SQLite's write lock,
  `scan[s]` the local variables of a scan. Whether the service is enabled is read once
  when a library is begun (`BeginAsking`, `SkipLibrary`), whether the directory is
  there once when its walk is (`Walk`, `SkipUnmounted`). `Ask` is one call of
  `get_tracked_file_paths`, `LookUp` the SELECT of a path, which flushes the row
  added before it and so takes the lock; `Add` reads the size; `Commit` ends a
  library; `Raises`, `LockTimeout`, `Dies` lose its batch.
* `PreviewCache` - the dashboard's preview. `cache` is the module-level cache,
  `load[l]` a run of `preview_watched_status`, `reply` the last answer. What is
  shown of a rule is when it was read (`Reading`); `turned` is a history of the
  rules switched and failing.
* `Auth` - `method`, `user`, `sessions`, `verified` are the tables; `req[r]` is a
  request or a recovery command with the rows it has loaded; `ReadMethod`,
  `ReadSession`, `ReadUser`, `ReadSettings` are its queries, the actions under
  "Writing" its one commit. SQLAlchemy writes the columns that differ from what
  was loaded, so `Confirm` and `WithoutMfa` change the row of now by the
  difference with the row of then; `crossed` notes that they differed.
* `SessionContract` - what signing in promises: the account and the method are
  changed only for an operator at the command line or a request that was admitted,
  while a login was asked for, by a session that had passed every check; locking
  takes nobody's account; every switch of the method ends all sessions, and a
  session that is over stays over. `AuthRefinement` maps `Auth` to it: a request
  has the authority of its session from the query that finds it live and verified
  until it is answered.
* `RequestRulesProofs`, `OrphanedScanProofs`, `PreviewCacheProofs`, `AuthProofs` -
  the TLAPS proofs; `MCRequestRules`, `MCOrphanedScan`, `MCPreviewCache`, `MCAuth` -
  the instances TLC checks.

Definitions whose comment begins with "Mutant" are deliberately wrong variants
of the definition that follows them. Nothing uses them; putting one in place of
the definition makes a checked property fail, which shows that the property
depends on that line of the code.

## Runs

| Run | Shows |
|---|---|
| `queue_media` | A film, a season with two files and a season without a number, Sonarr switched on and off, imports, the grace period changed, one fault: `GraceRespected`, `OutcomeMatchesLog`, `SuccessIsReal`, `NoDuplicateActive` (one scan at a time, no cancellation) |
| `queue_live` | Two scans that may stage the film twice, one cancel request, one fault: `TypeOK`, `AtMostOneAttempt`, `CancelOutsideTick`, `ImplementsContract`; every row past its time is attempted (`DueIsAttempted`); every attempt that no fault meets settles (`AttemptSettles`) |
| `cancel_ignored` | *violated*: `CancelIsFinal`. A due row is cancelled after the executor's SELECT and before the row's own UPDATE, which overwrites the cancellation; the row is deleted all the same |
| `staged_twice` | *violated*: `NoDuplicateActive` with two scans at once |
| `attempt_unlogged` | *violated*: `EveryAttemptLogged` after a crash in the middle of an attempt |
| `scan` | The scheduled job and a manual scan at once, over a series rule and a report rule and two items, with the rule switched and deleted, a service switched off, rows settled, one fault: `TypeOK`, `RowHasReason`, `MatchIsQueued`, `ReferencesHold`, `CountsCoverFinishedRules`; the engine implements `HistoryContract` (`ImplementsHistory`) |
| `series` | One show, both granularities, any state of the library to begin with, two changes anywhere between the calls, any call failing: `TypeOK`; `NewestComplete`; `MatchWasDue`; an undisturbed scan matches exactly what the documentation calls due, provided the newest season has a number (`CalmScanIsExact`) |
| `requests` | The film rule and the stale-request rule over every small library and list of requests, changes between the calls and between pages, any call failing: `TypeOK`; `MatchWasDue` (unmarked and played as it must be at one moment, by the clock of the decision); `JudgedIsRequested`; `MissedAtMostRemoved` (paging); `CalmScanIsExact` |
| `wrong_request` | *violated*: `RequestIsTheFilms`. A film and a show have the same TMDB number; the film takes the show's request along |
| `orphaned` | The daily scan and a manual one at once, a file imported, deleted or forgotten, a service switched or a directory unmounted anywhere in between, reports cleared, one fault: `TypeOK`, `LockHasRows`, `ReportedWasStray`, `ClearedStaysCleared`; a file that stays a stray is reported in the end (`StrayIsReported`) |
| `preview` | Two loads that may overtake each other, two rules switched and failing, restarts: `TypeOK`, `FreshReply`, `SwitchedOffIsGone`, `MissingWasOff` |
| `auth` | Two requests or commands of any kind in flight, login, logout, expiry, restarts: `TypeOK`, `BasicHasUser`, `MfaHasSecret`, `EndedStaysEnded`, `ChangesNeedSession`; they implement `SessionContract` (`ImplementsSigning`) |

Each violated property is a sentence of the documentation or of a docstring;
`PROJECT.json` quotes it. The passing runs hold what the code does keep: a
cancellation is safe whenever the executor does not already hold the row, and a
medium is staged once if scans do not overlap and no row the executor holds is
cancelled. For each violated promise a theorem names what alone can break it
(see Proofs); the violated run shows that it does.

Seven more things met while modelling, for which no run is kept:

* with Radarr switched off, an attempt that called nothing is logged and
  announced as a success (`deletions/executor.py:65-66`);
* a scan that raises anything but `IntegrationError`, or is cut off by a restart,
  stays `running` in History for ever (`rules/engine.py:50`);
* a scheduled scan whose last flush failed takes the orphaned-file scan of that
  day with it, as the session is not rolled back (`core/scheduler.py:30-34`);
* an episode that arrives between the list of shows and the list of episodes is
  queued unwatched with its show (`rules/series_watched.py:183`): `MatchWasDue`
  says of the show that it was watched at one moment of the scan, no more;
* a season without IndexNumber is staged with number `None`
  (`rules/series_watched.py:81`), for which Sonarr's client finds neither season nor
  files (`integrations/sonarr_client.py:36, 45`): the attempt changes nothing and is
  logged as a success. `SuccessIsReal` leaves such seasons out (`Unnumbered`);
* such a season is not held back when it is the newest of a continuing show
  (`rules/series_watched.py:97`), although `docs/getting-started.md:123-125` makes no
  exception; `CalmScanIsExact` compares with the documentation only when the newest
  season has a number, and `NewestComplete` is about numbered ones;
* marks are read once and used later: a mark moved from a season to its show between
  the two readings protects neither (`rules/series_watched.py:68, 129`), and a film
  marked or watched after the list of films is read is put up all the same, by the
  clock of the decision (`rules/movie_watched.py:38, 61`). Each `MatchWasDue` says
  exactly this much.

### Bounds

* `Ids`: two rows. Two is what the races need (one row in the executor's hand while
  another waits, two rows for one medium). A scan that wants to
  insert when both are used waits for ever; that only shortens behaviours.
* `Media`, `Files`: in `queue_media` one film, one season and one season without a
  number, elsewhere fewer. Film and season take the two different paths
  through `_delete_from_arr` (a whole series takes the film's path, through
  Sonarr); two files, so that the deletion of a season can stop between them. The
  two share one request, so that the second attempt may find it gone.
* `MaxTime` and `Graces`: `queue_live` has a grace period of one hour and a clock
  that reaches it; `queue_media` has grace periods of 0 and 1 and a clock at 0, so
  that some rows are due and some are not, whatever the setting is by then.
  `MaxFaults`: one.
* Rows are interchangeable, so the safety runs use symmetry on `Ids`; the
  liveness runs do not.

* `RuleScan`: two sessions are what overlapping scans need; a rule that can
  fail half way and one without a handler; two items; two run ids, after which
  no scan starts. A stopped system is a legal end (`CHECK_DEADLOCK
  FALSE`). Items and run ids are interchangeable; no liveness is checked there, so
  symmetry on them is sound.

* `SeriesRule`: three episodes, so that the newest season can be complete or
  not while an older one is. Season 1 may lack an IndexNumber (`MayLackNumber`); as it
  is the newest when no episode of season 2 is there, that covers a newest season
  without number and an older one. The TMDB id or the show in Sonarr may be missing,
  one at a time (`MayMiss`): the TVDB id has the same effect as Sonarr. Only items whose
  mark the rule looks at are marked (`Markable`). The scan begins
  in any library of that size, so no change is needed before it; two changes
  suffice for one that takes effect and one that undoes it. Dates are 0 or 1 and
  the threshold is 1: past or not. The two episodes of season 2 are symmetric. The
  scan ends, so deadlock is not checked.

* `RequestRules`: a film and a show of the same number, two requests, pages of one:
  enough for a request to slip past a page boundary, for a request of the wrong
  kind to come first, and for a request and a show without id to meet. The scan
  begins in any state of the services; two changes for the film rule, one for the
  stale-request rule, which makes more calls.

* `OrphanedScan`: a film, and two episodes of one series that one batch holds; two
  scans, as the write lock and the unique index need; one change of the files,
  services and directories, one fault. No symmetry: liveness is checked.

* `PreviewCache`: a TTL of two ticks and a clock that goes one beyond it, so that a
  load may end in the tick it began, before the TTL and after it; two loads, the
  fewest that overtake each other.

* `Auth`: two requests in flight, two sessions ever issued, two passwords, two
  secrets, each interchangeable.

### Fairness

In `DeletionQueue` only the executor is fair (`WF_vars(ExecutorStep)`): APScheduler's interval job
fires again and again whether or not the last run failed
(`core/scheduler.py:41-48` swallows the exception), every HTTP call it awaits
has a 10 s timeout, and a database write waits at most 5 s. Scans, requests,
the clock, faults and outcomes are free.

In `OrphanedScan` the daily start and the steps of a scan are fair: the cron
trigger fires every day, an exception ends one run of the job only
(`core/scheduler.py:32-38`), calls have timeouts and the walk is a loop over a
finite directory. Manual scans need not start, and nothing outside is fair.

## Proofs

`DeletionQueueProofs` proves, for any sets of rows, media, files, scans and
requests, any grace periods in `Nat` and any bound on time and faults (only
`QueueAssumption` is assumed):

* `TypeCorrect`, `GraceHolds`, `OneAttempt`: `TypeOK`, `GraceRespected` and
  `AtMostOneAttempt` are invariants;
* `CancelHolds`: `CancelOutsideTick`;
* `Implementation`: `Spec => Contract!Spec`.

None of the safety properties is inductive. `AtMostOneAttempt` needs to know
that a row the executor has loaded but not reached has not been begun, although
its status may have changed under it. The inductive invariant `Inv` therefore
says (`DueNotBegun`) that a loaded row is due, unbegun, and pending or
cancelled; (`PendingNotBegun`) that a pending or free row is unbegun;
(`CurrentBegun`) that the row in hand was begun once and has no log row before
its outcome is recorded; (`DeadlineKept`, `BegunWasDue`) that deadlines do not
move and whatever was begun was due. `QuietStep` handles in one lemma every
step that writes no row; the five that do (`StageInsert`, `CancelCommit`,
`ExecuteDue`, `BeginOne`, `RecordOutcome`) have one lemma each. The refinement
maps a cancellation to a withdrawal at the moment the executor no longer holds
the row: at the commit, or, if the tick aborts, when it does.

`QueueOutcomeProofs` goes on from that invariant. `TableSteps` lists the four steps
that write the table or the log, with one lemma each for what they leave alone.
* `SettledIsLogged`: `OutcomeMatchesLog`. The row in hand has an empty log until the
  commit that writes its status (`CurrentBegun`), so that the one log row is this
  attempt's.
* `RemovedIsGone`: `SuccessIsReal`, for films, shows and seasons with a number. What the
  attempt in hand has achieved so far is real (`CallsAreReal`), and stays so because
  the services lose requests and media and regain none (`ServicesLose`) and a row
  keeps its medium (`KeysStay`).
  A season's files are those of one listing (`exec.listed`); what is left on disk is
  among them, since it is no longer monitored by then (`CallsAreReal`).
Three more theorems are about the promises of the documentation that the violated
runs refute. Each holds in every behaviour of the system in which one thing does not
happen; the passing runs have such behaviours, and the violated run is one in which
it does:
* `CancelFinalOutsideTicks`: `CancelIsFinal`, and that a row that is cancelled before
  its attempt is never attempted (`CancelledNotBegun`), if no row is cancelled while the
  executor holds it (`[][CancelsNoneHeld]_vars`). Then it never holds a cancelled row
  (`NoneHeldCancelled`), as it takes rows only when it selects the due ones
  (`HeldGrows`).
* `StagedOnce`: `NoDuplicateActive`, if moreover scans do not overlap (`[]OneScan`);
  there may be any number of them, one after the other, and any number of users.
  `OneScanInv` adds that what a scan has found absent has no active row until it
  inserts it.
* `LoggedUnlessCutShort`: `EveryAttemptLogged`, if no exception or restart falls
  between the two commits of an attempt (`[][AttemptsEnd]_vars`); outside attempts
  both remain free. `LoggedSoFar` excepts the row in hand.

`RuleScanProofs` proves for any rules, items, scans, runs and faults
(`ScanAssumption` only) that `TypeOK`, `RowHasReason`, `MatchIsQueued`,
`ReferencesHold` (`QueueInv`) and `CountsCoverFinishedRules` (`CountInv`) are
invariants. `MatchIsQueued` speaks of completed runs; what carries it there is
`MatchesQueuedSoFar`: in a live run every logged match is queued but the one in
hand. `ReferencesHold` rests on the order of two commits: the match event keeps
its rule from being deleted until the row is inserted, which is why `StageItem`
need not look (`StagesWhatItLogged`). The counts need an invariant per scan,
`ScanCounts`: rules and items to come have no event yet (`NothingYet`), the
result counts the events of the rule in hand, the total those of the rules that
are over and did not fail. Both need that no two scans share a run (`OwnsRun`).
`ItemEvent`, `FailureEvent`, `RuleBegins` and `RuleJoins` say how each kind of
step changes those cardinalities; `ScanFrame` says what it leaves alone.
* `Implementation`: `ImplementsHistory`, `Spec => History!Spec`. One lemma per
  promise: `LogContract`, `StageContract`, `CloseContract`, `OpenContract`, and
  `AbandonStep` for a session that ends without completing its run, or all of them
  at a restart. A verdict is new because `NothingYet` holds of the rules and items
  to come; a run closes with the right counts by `CountInv`, and with enough
  scanned by `ScannedInv`, in which a match not yet staged counts as one more.

`SeriesRuleProofs` proves for any show, threshold, bound on time and number of
changes (`SeriesAssumption` only) that `TypeOK`, `NewestComplete` and
`MatchWasDue` are invariants. They speak of what has been decided; the
strengthening `Inv` speaks of what is still to be decided, the `Candidates`: each
of them was at one moment watched and, unless it is exempt, unmarked itself
(`WatchedRead`), the show was at one moment unmarked or exempt (`PlainRead`), and a
season whose announced episodes are all in the listing in hand was complete
(`SeenWasThere`). `AllThere` turns the
comparison of two numbers in `_last_season_still_airing` into that inclusion:
a subset with as many elements is the whole set. `ConcludeStep` covers every way
an item is decided. `CalmIsExact` (`CalmScanIsExact`) has an invariant of its own,
`CalmInv`: while nothing happens, what was read is what there is (`ReadIsNow`), the
seasons left are watched ones and those judged are judged as the reference does
(`SeasonsRight`), because each `Decision` is the reference's (`DecisionIsDue`,
`ReleasedIsComplete`). `CalmInv` goes by the gate as the code reads it (`GateAsRead`,
`DueAsRead`); `GateIsDocumented` shows that this is the documented `GateOpen` when the
newest season has a number (`NewestAsRead`), which is what the property is confined to.

`RequestRulesProofs` proves for any works, numbers, page sizes, thresholds and
bounds (`RequestAssumption` only) that `TypeOK`, `MatchWasDue` and
`JudgedIsRequested` are invariants. `Inv` adds what holds before anything is
decided: the `Fact` of now is among those noted (`been`), what the scan has `seen` of
a work was so at one moment and what the service knew of it at another (`SeenWas`), and
each rule makes its own calls only (`InOrder`). `PastIsLongAgo` is the step from the
code's arithmetic to the reference: a date past the threshold when it is read is so at the end. That
`RequestFor` takes a request at all needs that a nonempty set of positions has a
least one (`Least`).
* `OverlookedIsRemoved`: `MissedAtMostRemoved`, for any page size and any changes of
  the list. The invariant is about the requests now on the pages already read
  (`Behind`): of those that were there all the time, at most as many are unlisted
  as were removed (`SlippedAtMostRemoved`). A removal lets one slip behind the
  boundary (`WithdrawPaging`), an arrival none but itself (`ArrivePaging`), and a
  page lists what it moves the boundary over (`ReadPagePaging`). At the last page
  everything is behind.
* `MisledByNumber`: the one foreign request a film can be staged with is that of a
  show of its TMDB number; so `RequestIsRight`: `RequestIsTheFilms` holds if no film
  and show have the same number, which TMDB does not promise (`wrong_request`).
* `CalmIsExact`: `CalmScanIsExact`. While nothing happens, each answer is what
  there is for the kinds read so far (`Shown`, `Held`), and the pages are the list
  up to `skip` (`CalmPage`); `CalmWatched` and `CalmStale` compare the decisions
  with the reference.

`OrphanedScanProofs` proves for any libraries, files, series and scans
(`OrphanAssumption` only) the invariants `TypeOK` and `LockHasRows` and the
action properties `ReportedWasStray` and `ClearedStaysCleared`. The strengthening
is about one scan (`ScanOK`): the files it will still look up or has found absent
were strays at some time since it began to ask, nothing left to walk over is known to
be tracked, and rows it has inserted and not committed are absent from the table,
which holds because it has the write lock.
`ChangeStep` does what happens outside, `OneScan` lifts a step of one scan to all.

`PreviewCacheProofs` proves for any rules, loads and time to live
(`PreviewAssumption` only) that `TypeOK`, `FreshReply`, `SwitchedOffIsGone` and
`MissingWasOff` are invariants. The strengthening says the same of the cache and of
every load under way, from the time it is stamped with (`Backed`, `Complete`);
both only get easier as the clock and the rules' times move on (`TimesMoveOn`,
`BackedStays`).

`AuthProofs` proves for any requests, sessions, passwords and secrets
(`AuthAssumption` only) the invariants `TypeOK`, `BasicHasUser`, `MfaHasSecret` and
the action properties `EndedStaysEnded` and `ChangesNeedSession`. What a request
acts on was found by it (`Passed`): at the commit of a guarded request a verified
session and the user, unless it was let in anonymously; and a user that was
found is there for ever (`LoadedExists`).
* `SigningKept`: `ImplementsSigning`, `Spec => Signing!Spec`. That a request is
  admitted only while a login is asked for, although it read the method one query
  earlier, needs `AskedInv`: whatever switches the method in between ends the
  session it is about to look up, and its cookie is not that of a session still to
  be issued. `LeaveContract`, `QueryContract`, `ChangeContract`, `SwitchContract`,
  `LoginContract`, `VerifyContract` and `FinishContract` map one kind of step each; a
  late verification of a session that is over is a stutter.

Every safety property that a passing run checks is a theorem, and every property
that a violated run refutes is one under the condition that run breaks.
Model-checked only are the liveness properties `DueIsAttempted`, `AttemptSettles`
and `StrayIsReported`, which need fairness and are out of the prover's reach, and
that the violated promises are violated.

## Not modelled

* Delete calls have no other effect than on the medium's request, monitoring and
  files; nobody monitors a medium again by hand, and once a medium is no longer
  monitored nothing is imported for it, downloads under way included. A rule finds the
  same request for a medium at every scan; a medium with several requests is not there. A series
  and one of its seasons, which have different dedupe keys, share no files.
* `SeriesRule` has one show: shows do not influence each other, but for a failing
  call, which ends the rule for all. TMDB announces the episodes a season will
  have; an episode with several files, or in none of the listed seasons, is left
  out, as is the date of an episode begun and not finished.
* `RequestRules` has one Jellyfin item per work, and user data of the one tracked
  user, which is all the code reads.
* `PreviewCache` leaves out the sorting and the limit of 24 items, `OrphanedScan`
  file extensions and sizes, `Auth` hashes, cookies and codes, which are right or
  wrong.
* Connection tests that overlap with an update of the same integration
  (`integrations/service.py:73`), the rescheduling of the executor by every save of
  the settings (`api/routes/settings.py:36`) and the creation of the key files
  (`core/secrets.py:26`): planned.
* Integer widths, time zones and clock jumps.
* The front end, migrations, read-only routes, message texts.

## Plan

Done: the queue and its contract, the rule engine, the rules, the orphaned-file
scan, the preview and authentication, each with its proofs; contracts for the
queue, the history of runs and the sign-in. Left:

1. `Settings` - an update, a connection test and the calls that use the stored
   URL and key; the executor's interval restarted by every save.
2. `Secrets` - creation of the key files by processes that start together or
   crash between creating and writing.
