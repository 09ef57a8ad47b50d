--------------------------- MODULE DeletionQueue ---------------------------
(***************************************************************************)
(* The deletion pipeline of Evictarr: rows are staged into the             *)
(* pending_deletions table by rule scans, cancelled through the API, and   *)
(* carried out by the grace-period executor, which calls Seerr and then    *)
(* Radarr or Sonarr and writes one action_log row per attempt.             *)
(*                                                                         *)
(* Everything runs on one event loop; a step of the model is what a        *)
(* coroutine does between two awaits that matter.  Each session keeps the  *)
(* ORM objects it loaded (expire_on_commit is False), so what a coroutine  *)
(* read before an await is still what it believes after it.                *)
(***************************************************************************)
EXTENDS Integers, FiniteSets, Sequences

CONSTANTS
  Ids,        \* primary keys available in pending_deletions (bounds the rows)
  Media,      \* the underlying media; one dedupe key each
  Kind,       \* Kind[m]: the PendingMediaType of m
  Unnumbered, \* seasons without a number: Jellyfin gives no IndexNumber, so
              \* they are staged with season_number None
  Requests,   \* requests in Seerr
  RequestOf,  \* RequestOf[m]: the request rules find for m; all seasons of a
              \* show have the same, and so may a film and a show
  Files,      \* names of the files a medium may have on disk
  Scanners,   \* sessions that may run a rule scan at the same time
  Users,      \* sessions that may serve a cancel request at the same time
  Graces,     \* values default_grace_period_hours is given in Settings
  Switchable, \* services an administrator enables and disables
  MaxTime,    \* bound: hours the clock may count
  MaxFaults,  \* bound: crashes and unexpected exceptions
  NoRow       \* "no row is being worked on"

Services == {"seerr", "radarr", "sonarr"}

ASSUME QueueAssumption ==
  /\ Kind \in [Media -> {"movie", "series", "season"}]
  /\ Unnumbered \subseteq {m \in Media : Kind[m] = "season"}
  /\ RequestOf \in [Media -> Requests]
  /\ Graces \subseteq Nat /\ Graces # {}
  /\ Switchable \subseteq Services
  /\ MaxTime \in Nat /\ MaxFaults \in Nat
  /\ NoRow \notin Ids

VARIABLES
  clock,      \* hours since the model's start
  grace,      \* app_settings.default_grace_period_hours
  enabled,    \* the integrations switched on in Settings
  rows,       \* the pending_deletions table
  actionLog,  \* actionLog[r]: the action_log rows of row r, oldest first
  exec,       \* the executor job
  scan,       \* scan[s]: the rule scan that session s runs
  cancelling, \* cancelling[u]: the row that u's request read as pending
  requests,   \* the requests that are there
  tracked,    \* movies and series known to Radarr/Sonarr, seasons monitored
  files,      \* files[m]: what is on disk of m
  faults,     \* crashes and unexpected exceptions so far
  begun       \* history: how often the deletion of row r was begun

db       == <<rows, actionLog>>
settings == <<grace, enabled>>
external == <<requests, tracked, files>>
vars     == <<clock, grace, enabled, rows, actionLog, exec, scan, cancelling,
              requests, tracked, files, faults, begun>>

----------------------------------------------------------------------------
(* Types.                                                                  *)

SystemStatus  == {"success", "failed", "skipped"}
OverallStatus == {"success", "partial_failure", "failed"}
PendingStatus == {"pending", "cancelled", "executing", "completed", "failed"}

\* Mutant: a row being executed no longer counts as active.
WaitingStatuses == {"pending"}
ActiveStatuses == {"pending", "executing"}

PendingDeletion ==
  [key : Media, stagedAt : Nat, graceHours : Nat, executeAfter : Nat,
   request : BOOLEAN, status : PendingStatus]

\* An id that no row uses yet.
NoPending == [status |-> "unused"]

ActionLog ==
  [seerr : SystemStatus, arr : SystemStatus, overall : OverallStatus]

\* The executor between two awaits: the rows loaded as due and not yet begun,
\* the row in hand, the outcomes it has so far ("skipped" until known) and, of a
\* season, the files it has listed and not deleted yet.
ExecutorState ==
  [pc : {"idle", "begin", "seerr", "arr", "list", "files", "record", "notify"},
   due : SUBSET Ids, cur : Ids \cup {NoRow},
   seerr : SystemStatus, arr : SystemStatus, listed : SUBSET Files]

Idle == [pc |-> "idle", due |-> {}, cur |-> NoRow,
         seerr |-> "skipped", arr |-> "skipped", listed |-> {}]

\* A scan between two awaits: the media its rules matched and it has not staged
\* yet, those of them it has looked up and is about to insert (at most one),
\* and the requests its listing contained.
ScanState ==
  [pc : {"idle", "lookup", "insert"}, todo : SUBSET Media,
   absent : SUBSET Media, requested : SUBSET Requests]

NoScan == [pc |-> "idle", todo |-> {}, absent |-> {}, requested |-> {}]

Used == {r \in Ids : rows[r].status # "unused"}

\* The rows the executor has loaded: it writes their status without reading it
\* again.
Held == exec.due \cup {exec.cur}

\* find_active_by_dedupe_key, before scalar_one_or_none looks at the result.
ActiveRows(m) == {r \in Used : rows[r].key = m /\ rows[r].status \in ActiveStatuses}

----------------------------------------------------------------------------
Init ==
  /\ clock = 0
  /\ grace \in Graces
  /\ enabled = Services
  /\ rows = [r \in Ids |-> NoPending]
  /\ actionLog = [r \in Ids |-> <<>>]
  /\ exec = Idle
  /\ scan = [s \in Scanners |-> NoScan]
  /\ cancelling = [u \in Users |-> NoRow]
  /\ requests \in SUBSET Requests
  /\ tracked = Media
  /\ files = [m \in Media |-> Files]
  /\ faults = 0
  /\ begun = [r \in Ids |-> 0]

----------------------------------------------------------------------------
(* The environment: time, the settings pages, and Radarr or Sonarr importing *)
(* a file of a medium it still monitors.                                     *)

Tick ==
  /\ clock < MaxTime
  /\ clock' = clock + 1
  /\ UNCHANGED <<settings, db, exec, scan, cancelling, external, faults, begun>>

UpdateSettings(g) ==
  /\ grace' = g
  /\ UNCHANGED <<clock, enabled, db, exec, scan, cancelling, external, faults, begun>>

ToggleIntegration(service) ==
  /\ enabled' = IF service \in enabled THEN enabled \ {service}
                                       ELSE enabled \cup {service}
  /\ UNCHANGED <<clock, grace, db, exec, scan, cancelling, external, faults, begun>>

Import(m, f) ==
  /\ m \in tracked
  /\ files' = [files EXCEPT ![m] = @ \cup {f}]
  /\ UNCHANGED <<clock, settings, db, exec, scan, cancelling, requests, tracked,
                 faults, begun>>

----------------------------------------------------------------------------
(* Staging: what a rule scan does to the queue.                            *)

\* The rules match some of the media that have files.
ScanStart(s) ==
  /\ scan[s].pc = "idle"
  /\ \E matched \in SUBSET {m \in Media : files[m] # {}} :
       /\ matched # {}
       /\ scan' = [scan EXCEPT ![s] = [pc |-> "lookup", todo |-> matched,
                                      absent |-> {}, requested |-> requests]]
  /\ UNCHANGED <<clock, settings, db, exec, cancelling, external, faults, begun>>

\* find_active_by_dedupe_key found one row: stage returns None.
StageDuplicate(s, m) ==
  /\ scan[s].pc = "lookup" /\ m \in scan[s].todo
  /\ Cardinality(ActiveRows(m)) = 1
  /\ scan' = [scan EXCEPT ![s].todo = @ \ {m}]
  /\ UNCHANGED <<clock, settings, db, exec, cancelling, external, faults, begun>>

\* It found none: the medium is inserted after the awaits that follow.
StageLookup(s, m) ==
  /\ scan[s].pc = "lookup" /\ m \in scan[s].todo
  /\ ActiveRows(m) = {}
  /\ scan' = [scan EXCEPT ![s].pc = "insert", ![s].absent = {m},
                         ![s].todo = @ \ {m}]
  /\ UNCHANGED <<clock, settings, db, exec, cancelling, external, faults, begun>>

\* It found several: scalar_one_or_none raises MultipleResultsFound, which no
\* handler catches, and the scan ends there.
StageAmbiguous(s, m) ==
  /\ scan[s].pc = "lookup" /\ m \in scan[s].todo
  /\ Cardinality(ActiveRows(m)) > 1
  /\ scan' = [scan EXCEPT ![s] = NoScan]
  /\ UNCHANGED <<clock, settings, db, exec, cancelling, external, faults, begun>>

\* Mutant: the grace period is subtracted.
StagedInThePast(s, m) ==
  [key |-> m, stagedAt |-> clock, graceHours |-> grace,
   executeAfter |-> clock - grace, request |-> RequestOf[m] \in scan[s].requested,
   status |-> "pending"]

\* The row a scan inserts for m.
Staged(s, m) ==
  [key |-> m, stagedAt |-> clock, graceHours |-> grace,
   executeAfter |-> clock + grace, request |-> RequestOf[m] \in scan[s].requested,
   status |-> "pending"]

StageInsert(s, r) ==
  /\ scan[s].pc = "insert"
  /\ r \notin Used
  /\ \E m \in scan[s].absent : rows' = [rows EXCEPT ![r] = Staged(s, m)]
  /\ scan' = [scan EXCEPT ![s].pc = "lookup", ![s].absent = {}]
  /\ UNCHANGED <<clock, settings, actionLog, exec, cancelling, external, faults, begun>>

ScanEnd(s) ==
  /\ scan[s].pc = "lookup" /\ scan[s].todo = {}
  /\ scan' = [scan EXCEPT ![s] = NoScan]
  /\ UNCHANGED <<clock, settings, db, exec, cancelling, external, faults, begun>>

----------------------------------------------------------------------------
(* Cancelling: the row is read and checked, then written after an await.   *)

CancelRead(u, r) ==
  /\ cancelling[u] = NoRow
  /\ r \in Used /\ rows[r].status = "pending"
  /\ cancelling' = [cancelling EXCEPT ![u] = r]
  /\ UNCHANGED <<clock, settings, db, exec, scan, external, faults, begun>>

\* UPDATE ... WHERE id = r: the status read earlier is not part of it.
CancelCommit(u) ==
  /\ cancelling[u] # NoRow
  /\ rows' = [rows EXCEPT ![cancelling[u]].status = "cancelled"]
  /\ cancelling' = [cancelling EXCEPT ![u] = NoRow]
  /\ UNCHANGED <<clock, settings, actionLog, exec, scan, external, faults, begun>>

----------------------------------------------------------------------------
(* The executor: one job instance at a time, one due row after the other.  *)

\* The medium in hand and the service that removes it.
Medium == rows[exec.cur].key
Service(m) == IF Kind[m] = "movie" THEN "radarr" ELSE "sonarr"

\* Mutants of DueRows: the grace period now in Settings instead of the row's;
\* rows an earlier tick left behind as "executing" too; any row not settled,
\* cancelled ones included; nothing while a row says "executing".
DueByCurrentGrace == {r \in Used : /\ rows[r].status = "pending"
                                   /\ rows[r].stagedAt + grace <= clock}
DueOrInterrupted == {r \in Used : /\ rows[r].status \in {"pending", "executing"}
                                  /\ rows[r].executeAfter <= clock}
DueUnsettled == {r \in Used : /\ rows[r].status \notin {"completed", "failed"}
                              /\ rows[r].executeAfter <= clock}
DueUnlessExecuting ==
  {r \in Used : /\ rows[r].status = "pending" /\ rows[r].executeAfter <= clock
                /\ \A q \in Used : rows[q].status # "executing"}

\* The rows execute_due selects.
DueRows == {r \in Used : rows[r].status = "pending" /\ rows[r].executeAfter <= clock}

\* A tick of the interval job.
ExecuteDue ==
  /\ exec.pc = "idle"
  /\ exec' = IF DueRows = {} THEN exec
             ELSE [Idle EXCEPT !.pc = "begin", !.due = DueRows]
  /\ UNCHANGED <<clock, settings, db, scan, cancelling, external, faults, begun>>

\* The first commit of _execute_one.
BeginOne(r) ==
  /\ exec.pc = "begin" /\ r \in exec.due
  /\ rows' = [rows EXCEPT ![r].status = "executing"]
  /\ begun' = [begun EXCEPT ![r] = @ + 1]
  /\ exec' = [Idle EXCEPT !.pc = "seerr", !.due = exec.due \ {r}, !.cur = r]
  /\ UNCHANGED <<clock, settings, actionLog, scan, cancelling, external, faults>>

\* _delete_from_seerr is over with the given outcome; requests is the caller's.
SeerrIs(outcome) ==
  /\ exec.pc = "seerr"
  /\ exec' = [exec EXCEPT !.pc = "arr", !.seerr = outcome]
  /\ UNCHANGED <<clock, settings, db, scan, cancelling, tracked, files, faults, begun>>

SeerrWanted == rows[exec.cur].request /\ "seerr" \in enabled

SeerrSkipped ==
  /\ SeerrIs("skipped")
  /\ ~SeerrWanted
  /\ UNCHANGED requests

SeerrDeleted ==
  /\ SeerrIs("success")
  /\ SeerrWanted /\ RequestOf[Medium] \in requests
  /\ requests' = requests \ {RequestOf[Medium]}

\* Seerr refuses, is not reached, does not know the request, or its answer to
\* a request it carried out is lost.
SeerrFailed ==
  /\ SeerrIs("failed")
  /\ SeerrWanted
  /\ requests' \in {requests, requests \ {RequestOf[Medium]}}

\* _delete_from_arr is over with the given outcome; tracked and files are the
\* caller's.
ArrIs(outcome) ==
  /\ exec' = [exec EXCEPT !.pc = "record", !.arr = outcome, !.listed = {}]
  /\ UNCHANGED <<clock, settings, db, scan, cancelling, requests, faults, begun>>

ArrWanted == exec.pc = "arr" /\ Service(Medium) \in enabled

ArrSkipped ==
  /\ exec.pc = "arr" /\ Service(Medium) \notin enabled
  /\ ArrIs("skipped")
  /\ UNCHANGED <<tracked, files>>

\* DELETE of a movie or a series with deleteFiles.
RemoveMedium ==
  /\ tracked' = tracked \ {Medium}
  /\ files' = [files EXCEPT ![Medium] = {}]

ArrDeleted ==
  /\ ArrWanted /\ Kind[Medium] # "season" /\ Medium \in tracked
  /\ ArrIs("success")
  /\ RemoveMedium

ArrFailed ==
  /\ ArrWanted /\ Kind[Medium] # "season"
  /\ ArrIs("failed")
  /\ RemoveMedium \/ UNCHANGED <<tracked, files>>

\* Mutant: the season is put back as it was read, still monitored.
StillMonitored == tracked

\* What unmonitor_season's PUT leaves monitored.  It writes the whole series
\* back, with every season unmonitored whose number is the row's: no season has
\* the number None.
Unmonitored == IF Medium \in Unnumbered THEN tracked ELSE tracked \ {Medium}

\* A season is unmonitored first; then its files are listed, once, and those
\* with the row's number go one by one.
SeasonUnmonitored ==
  /\ ArrWanted /\ Kind[Medium] = "season"
  /\ tracked' = Unmonitored
  /\ exec' = [exec EXCEPT !.pc = "list"]
  /\ UNCHANGED <<clock, settings, db, scan, cancelling, requests, files, faults, begun>>

SeasonUnmonitorFailed ==
  /\ ArrWanted /\ Kind[Medium] = "season"
  /\ ArrIs("failed")
  /\ tracked' \in {tracked, Unmonitored}
  /\ UNCHANGED files

SeasonListed ==
  /\ exec.pc = "list"
  /\ exec' = [exec EXCEPT !.pc = "files", !.listed =
                IF Medium \in Unnumbered THEN {} ELSE files[Medium]]
  /\ UNCHANGED <<clock, settings, db, scan, cancelling, external, faults, begun>>

SeasonListFailed ==
  /\ exec.pc = "list"
  /\ ArrIs("failed")
  /\ UNCHANGED <<tracked, files>>

SeasonFileDeleted(f) ==
  /\ exec.pc = "files" /\ f \in exec.listed
  /\ files' = [files EXCEPT ![Medium] = @ \ {f}]
  /\ exec' = [exec EXCEPT !.listed = @ \ {f}]
  /\ UNCHANGED <<clock, settings, db, scan, cancelling, requests, tracked,
                 faults, begun>>

SeasonFilesFailed(f) ==
  /\ exec.pc = "files" /\ f \in exec.listed
  /\ ArrIs("failed")
  /\ files' \in {files, [files EXCEPT ![Medium] = @ \ {f}]}
  /\ UNCHANGED tracked

\* The listing is worked off; what is on disk by now is not asked.
SeasonDone ==
  /\ exec.pc = "files" /\ exec.listed = {}
  /\ ArrIs("success")
  /\ UNCHANGED <<tracked, files>>

\* _overall_status
Overall(seerr, arr) ==
  LET relevant == {seerr, arr} \ {"skipped"} IN
  IF relevant \subseteq {"success"} THEN "success"
  ELSE IF "success" \in relevant THEN "partial_failure" ELSE "failed"

\* Mutants: a partial failure is recorded as failed; anything short of success
\* is left "executing" for a retry.
FailedUnlessSuccess(overall) == IF overall = "success" THEN "completed" ELSE "failed"
ExecutingUnlessSuccess(overall) ==
  IF overall = "success" THEN "completed" ELSE "executing"

\* The status an attempt ends in.
FinalStatus(overall) == IF overall = "failed" THEN "failed" ELSE "completed"

\* The second commit of _execute_one: the log row and the final status at once.
RecordOutcome ==
  LET overall == Overall(exec.seerr, exec.arr) IN
  /\ exec.pc = "record"
  /\ actionLog' = [actionLog EXCEPT ![exec.cur] = Append(@,
       [seerr |-> exec.seerr, arr |-> exec.arr, overall |-> overall])]
  /\ rows' = [rows EXCEPT ![exec.cur].status = FinalStatus(overall)]
  /\ exec' = [exec EXCEPT !.pc = "notify"]
  /\ UNCHANGED <<clock, settings, scan, cancelling, external, faults, begun>>

\* notify_executed returned: the next due row, or the end of the tick.
NotifyExecuted ==
  /\ exec.pc = "notify"
  /\ exec' = IF exec.due = {} THEN Idle
             ELSE [Idle EXCEPT !.pc = "begin", !.due = exec.due]
  /\ UNCHANGED <<clock, settings, db, scan, cancelling, external, faults, begun>>

----------------------------------------------------------------------------
(* What ends a job early.  Nothing in the database is undone or resumed.   *)

\* An exception other than IntegrationError (a body that is no JSON, a locked
\* database, an undecryptable key, a malformed webhook URL) ends the tick.
ExecutorRaises ==
  /\ faults < MaxFaults /\ exec.pc # "idle"
  /\ exec' = Idle
  /\ faults' = faults + 1
  /\ UNCHANGED <<clock, settings, db, scan, cancelling, external, begun>>

ScanRaises(s) ==
  /\ faults < MaxFaults /\ scan[s].pc # "idle"
  /\ scan' = [scan EXCEPT ![s] = NoScan]
  /\ faults' = faults + 1
  /\ UNCHANGED <<clock, settings, db, exec, cancelling, external, begun>>

\* The process stops, by a crash or a restart, and starts again.
Restart ==
  /\ faults < MaxFaults
  /\ exec' = Idle
  /\ scan' = [s \in Scanners |-> NoScan]
  /\ cancelling' = [u \in Users |-> NoRow]
  /\ faults' = faults + 1
  /\ UNCHANGED <<clock, settings, db, external, begun>>

----------------------------------------------------------------------------
Environment ==
  \/ Tick
  \/ \E g \in Graces : UpdateSettings(g)
  \/ \E service \in Switchable : ToggleIntegration(service)
  \/ \E m \in Media, f \in Files : Import(m, f)

ScanStep(s) ==
  \/ ScanStart(s)
  \/ \E m \in Media : \/ StageDuplicate(s, m)
                      \/ StageLookup(s, m)
                      \/ StageAmbiguous(s, m)
  \/ \E r \in Ids : StageInsert(s, r)
  \/ ScanEnd(s)

CancelStep(u) == (\E r \in Ids : CancelRead(u, r)) \/ CancelCommit(u)

\* A step of _execute_one between its two commits.
CallStep ==
  \/ SeerrSkipped \/ SeerrDeleted \/ SeerrFailed
  \/ ArrSkipped \/ ArrDeleted \/ ArrFailed
  \/ SeasonUnmonitored \/ SeasonUnmonitorFailed
  \/ SeasonListed \/ SeasonListFailed
  \/ \E f \in Files : SeasonFileDeleted(f) \/ SeasonFilesFailed(f)
  \/ SeasonDone

ExecutorStep ==
  \/ ExecuteDue
  \/ \E r \in Ids : BeginOne(r)
  \/ CallStep
  \/ RecordOutcome
  \/ NotifyExecuted

Fault ==
  \/ ExecutorRaises
  \/ \E s \in Scanners : ScanRaises(s)
  \/ Restart

Next ==
  \/ Environment
  \/ \E s \in Scanners : ScanStep(s)
  \/ \E u \in Users : CancelStep(u)
  \/ ExecutorStep
  \/ Fault

Spec == Init /\ [][Next]_vars

\* The interval job fires again and again and every call it awaits has a
\* timeout, so a step of the executor that can be taken is taken.
FairSpec == Spec /\ WF_vars(ExecutorStep)
----------------------------------------------------------------------------
(* Properties.                                                             *)

\* Every variable has its type.
TypeOK ==
  /\ clock \in Nat /\ grace \in Graces /\ enabled \in SUBSET Services
  /\ rows \in [Ids -> PendingDeletion \cup {NoPending}]
  /\ actionLog \in [Ids -> Seq(ActionLog)]
  /\ exec \in ExecutorState
  /\ exec.due \subseteq Used
  /\ IF exec.pc \in {"idle", "begin"} THEN exec.cur = NoRow ELSE exec.cur \in Used
  /\ scan \in [Scanners -> ScanState]
  /\ cancelling \in [Users -> Used \cup {NoRow}]
  /\ requests \in SUBSET Requests /\ tracked \in SUBSET Media
  /\ files \in [Media -> SUBSET Files]
  /\ faults \in Nat /\ begun \in [Ids -> Nat]

\* No deletion begins before the grace period the row was staged with is over,
\* whatever is saved in Settings meanwhile (execute_due's time filter).
GraceRespected ==
  \A r \in Used : begun[r] > 0 => clock >= rows[r].stagedAt + rows[r].graceHours

\* A row is attempted at most once and logged at most once, over ticks,
\* crashes, aborted ticks and cancellations (execute_due's status filter and
\* the commit of "executing" before the first call).
AtMostOneAttempt ==
  \A r \in Ids : begun[r] <= 1 /\ Len(actionLog[r]) <= begun[r]

\* A settled status is never seen without its log row, and agrees with it
\* (_execute_one writes both in one commit).
OutcomeMatchesLog ==
  \A r \in Used : rows[r].status \in {"completed", "failed"} =>
    /\ Len(actionLog[r]) = 1
    /\ (rows[r].status = "failed") = (actionLog[r][1].overall = "failed")

\* What the log reports as removed is gone for good: no file is left of it, it
\* is no longer monitored, so nothing is downloaded again, and the request is
\* gone (unmonitor_season before delete_season_files; disk_status mirrors the
\* *arr outcome).  Seasons without a number are left out, because the code does
\* not keep it for them: unmonitor_season and delete_season_files match nothing,
\* succeed, and the log says removed while the season is still there.
SuccessIsReal ==
  \A r \in Used : \A i \in DOMAIN actionLog[r] :
    /\ actionLog[r][i].arr = "success" /\ rows[r].key \notin Unnumbered =>
         files[rows[r].key] = {} /\ rows[r].key \notin tracked
    /\ actionLog[r][i].seerr = "success" => RequestOf[rows[r].key] \notin requests

\* A row cancelled while the executor does not hold it stays cancelled and is
\* never loaded again (cancel, execute_due's status filter).
CancelOutsideTick ==
  [][\A r \in Used : rows[r].status = "cancelled" /\ r \notin Held =>
       rows'[r].status = "cancelled" /\ r \notin Held']_vars

\* One medium has at most one active row (stage's docstring, the comment on
\* dedupe_key).  True of one scan at a time and no cancellation.
NoDuplicateActive ==
  \A r, q \in Used :
    /\ rows[r].status \in {"pending", "executing"}
    /\ rows[q].status \in {"pending", "executing"}
    /\ rows[r].key = rows[q].key
    => r = q

Overdue(r) ==
  r \in Used /\ rows[r].status = "pending" /\ rows[r].executeAfter <= clock

\* With faults bounded, a row left pending past its time is attempted or
\* cancelled (the interval job selects what earlier ticks left behind).
DueIsAttempted ==
  \A r \in Ids : Overdue(r) ~> rows[r].status # "pending"

\* An attempt that no fault meets ends in a log row and a settled status, also
\* if it is cancelled half way.
AttemptSettles ==
  \A r \in Ids : begun[r] = 1 ~>
    \/ Len(actionLog[r]) > 0 /\ rows[r].status \in {"completed", "failed", "cancelled"}
    \/ faults > 0

----------------------------------------------------------------------------
(* What the documentation says and the code does not keep.                 *)

\* "You can cancel anything": a cancelled row is not executed
\* (docs/getting-started.md:142-143).
CancelIsFinal ==
  [][\A r \in Used : rows[r].status = "cancelled" => rows'[r].status = "cancelled"]_vars

\* "Every attempt is logged to History" (docs/getting-started.md:95): with the
\* executor at rest, every row begun has its log row.
EveryAttemptLogged ==
  exec.pc = "idle" => \A r \in Ids : begun[r] = Len(actionLog[r])
=============================================================================
