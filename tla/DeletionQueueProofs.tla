------------------------ MODULE DeletionQueueProofs ------------------------
(***************************************************************************)
(* Proofs about DeletionQueue, for every set of rows, media, scans,        *)
(* cancelling sessions and grace periods, and every number of faults.      *)
(***************************************************************************)
EXTENDS DeletionRefinement, SequenceTheorems, TLAPS

----------------------------------------------------------------------------
(* The inductive invariant.                                                *)

\* A row keeps the deadline it was staged with.
DeadlineKept ==
  \A r \in Used : rows[r].executeAfter = rows[r].stagedAt + rows[r].graceHours

\* A row that is free or still pending has not been begun.
PendingNotBegun ==
  \A r \in Ids : rows[r].status \in {"unused", "pending"} => begun[r] = 0

\* What was begun was due.
BegunWasDue ==
  \A r \in Used : begun[r] > 0 => rows[r].executeAfter <= clock

\* A row loaded by a tick was pending then; all that can have happened to it
\* since is a cancellation.
DueNotBegun ==
  \A r \in exec.due : /\ r \in Used
                      /\ begun[r] = 0
                      /\ rows[r].status \in {"pending", "cancelled"}
                      /\ rows[r].executeAfter <= clock

\* The row in hand was begun once, and is not logged before its outcome is known.
CurrentBegun ==
  /\ exec.pc \notin {"idle", "begin"} => begun[exec.cur] = 1
  /\ exec.pc \in {"seerr", "arr", "list", "files", "record"} => actionLog[exec.cur] = <<>>

Inv ==
  /\ TypeOK
  /\ DeadlineKept
  /\ PendingNotBegun
  /\ BegunWasDue
  /\ DueNotBegun
  /\ CurrentBegun
  /\ AtMostOneAttempt

----------------------------------------------------------------------------
(* Lemmas about the table of rows.                                         *)

LEMMA UsedRow ==
  ASSUME TypeOK, NEW r \in Used
  PROVE  rows[r] \in PendingDeletion
BY DEF TypeOK, Used, NoPending

\* Writing a status (UPDATE ... WHERE id = r) leaves every other row and every
\* other column alone.
LEMMA StatusWritten ==
  ASSUME TypeOK, NEW r \in Used, NEW st \in PendingStatus,
         rows' = [rows EXCEPT ![r].status = st]
  PROVE  /\ rows' \in [Ids -> PendingDeletion \cup {NoPending}]
         /\ Used' = Used
         /\ rows'[r].status = st
         /\ \A q \in Ids : q # r => rows'[q] = rows[q]
         /\ \A q \in Used : /\ rows'[q].executeAfter = rows[q].executeAfter
                            /\ rows'[q].stagedAt = rows[q].stagedAt
                            /\ rows'[q].graceHours = rows[q].graceHours
                            /\ rows'[q].key = rows[q].key
<1>1. rows[r] \in PendingDeletion
  BY UsedRow
<1>2. [rows[r] EXCEPT !.status = st] \in PendingDeletion
  BY <1>1 DEF PendingDeletion
<1>3. rows' = [rows EXCEPT ![r] = [rows[r] EXCEPT !.status = st]]
  OBVIOUS
<1>4. r \in Ids /\ rows \in [Ids -> PendingDeletion \cup {NoPending}]
  BY DEF TypeOK, Used
<1>5. rows'[r] = [rows[r] EXCEPT !.status = st] /\ \A q \in Ids : q # r => rows'[q] = rows[q]
  BY <1>3, <1>4
<1>6. rows' \in [Ids -> PendingDeletion \cup {NoPending}]
  BY <1>2, <1>3, <1>4
<1>7. /\ rows'[r].status = st /\ rows'[r].executeAfter = rows[r].executeAfter
      /\ rows'[r].stagedAt = rows[r].stagedAt
      /\ rows'[r].graceHours = rows[r].graceHours
      /\ rows'[r].key = rows[r].key
  BY <1>1, <1>5 DEF PendingDeletion
<1>8. Used' = Used
  BY <1>5, <1>7, <1>4 DEF Used, PendingStatus
<1> QED
  BY <1>5, <1>6, <1>7, <1>8 DEF Used

----------------------------------------------------------------------------
(* Types.                                                                  *)

LEMMA InitInv == Init => Inv
<1> SUFFICES ASSUME Init PROVE Inv
  OBVIOUS
<1> USE DEF Init
<1>1. Used = {}
  BY DEF Used, NoPending
<1>2. TypeOK
  BY <1>1, QueueAssumption
  DEF TypeOK, ExecutorState, Idle, ScanState, NoScan, SystemStatus, Services
<1>3. DueNotBegun /\ CurrentBegun
  BY DEF DueNotBegun, CurrentBegun, Idle
<1>4. AtMostOneAttempt
  BY DEF AtMostOneAttempt
<1> QED
  BY <1>1, <1>2, <1>3, <1>4 DEF Inv, DeadlineKept, PendingNotBegun, BegunWasDue

\* The row a scan inserts is a row.
LEMMA RowInserted ==
  ASSUME TypeOK, NEW s \in Scanners, NEW r \in Ids, StageInsert(s, r)
  PROVE  \E m \in Media :
           /\ Staged(s, m) \in PendingDeletion
           /\ rows' = [rows EXCEPT ![r] = Staged(s, m)]
           /\ rows' \in [Ids -> PendingDeletion \cup {NoPending}]
           /\ Used' = Used \cup {r}
<1>1. PICK m \in scan[s].absent : rows' = [rows EXCEPT ![r] = Staged(s, m)]
  BY DEF StageInsert
<1>2. m \in Media
  BY DEF TypeOK, ScanState
<1>3. Staged(s, m) \in PendingDeletion
  BY <1>2, QueueAssumption DEF TypeOK, Staged, PendingDeletion, PendingStatus
<1>4. rows' \in [Ids -> PendingDeletion \cup {NoPending}]
  BY <1>1, <1>3 DEF TypeOK
<1>5. rows'[r].status = "pending" /\ \A q \in Ids : q # r => rows'[q] = rows[q]
  BY <1>1 DEF TypeOK, Staged
<1>6. Used' = Used \cup {r}
  BY <1>5 DEF Used
<1> QED
  BY <1>1, <1>2, <1>3, <1>4, <1>6

\* _overall_status and the status an attempt ends in.
LEMMA OverallTypes ==
  \A seerr, arr : /\ Overall(seerr, arr) \in OverallStatus
                  /\ FinalStatus(Overall(seerr, arr)) \in PendingStatus
BY DEF Overall, OverallStatus, FinalStatus, PendingStatus

\* A call to Seerr, Radarr or Sonarr moves on with the row in hand and touches
\* nothing of the database.
LEMMA CallStepShape ==
  ASSUME TypeOK, CallStep
  PROVE  /\ exec.pc \in {"seerr", "arr", "list", "files"}
         /\ exec' \in ExecutorState
         /\ exec'.pc \in {"arr", "list", "files", "record"}
         /\ exec'.cur = exec.cur /\ exec'.due = exec.due
         /\ requests' \in SUBSET Requests /\ tracked' \in SUBSET Media
         /\ files' \in [Media -> SUBSET Files]
         /\ UNCHANGED <<clock, grace, enabled, rows, actionLog, scan, cancelling,
                        faults, begun>>
<1> USE DEF db, settings, SystemStatus, ArrIs, SeerrIs, TypeOK, ExecutorState
<1>1. CASE SeerrSkipped \/ SeerrDeleted \/ SeerrFailed
  BY <1>1 DEF SeerrSkipped, SeerrDeleted, SeerrFailed
<1>2. CASE ArrSkipped \/ ArrDeleted \/ ArrFailed
  BY <1>2 DEF ArrSkipped, ArrDeleted, ArrFailed, ArrWanted, RemoveMedium
<1>3. CASE SeasonUnmonitored \/ SeasonUnmonitorFailed
  BY <1>3 DEF SeasonUnmonitored, SeasonUnmonitorFailed, ArrWanted, Unmonitored
<1>4. ASSUME NEW f \in Files, SeasonFileDeleted(f) \/ SeasonFilesFailed(f)
      PROVE  /\ files' \in [Media -> SUBSET Files]
             /\ exec.pc = "files"
             /\ exec' \in ExecutorState /\ exec'.pc \in {"files", "record"}
             /\ exec'.cur = exec.cur /\ exec'.due = exec.due
             /\ UNCHANGED <<clock, grace, enabled, rows, actionLog, scan, cancelling,
                            requests, tracked, faults, begun>>
  <2>1. [files EXCEPT ![Medium] = @ \ {f}] \in [Media -> SUBSET Files]
    OBVIOUS
  <2>2. CASE SeasonFileDeleted(f)
    BY <2>1, <2>2 DEF SeasonFileDeleted
  <2>3. CASE SeasonFilesFailed(f)
    BY <2>1, <2>3 DEF SeasonFilesFailed
  <2> QED
    BY <1>4, <2>2, <2>3
<1>5. CASE SeasonDone
  BY <1>5 DEF SeasonDone
<1>6. CASE SeasonListed
  <2>1. exec.cur \in Used /\ Medium \in Media
    BY <1>6, UsedRow DEF SeasonListed, Medium, PendingDeletion
  <2>2. (IF Medium \in Unnumbered THEN {} ELSE files[Medium]) \in SUBSET Files
    BY <2>1 DEF TypeOK
  <2> QED
    BY <1>6, <2>2 DEF SeasonListed, external
<1>7. CASE SeasonListFailed
  BY <1>7 DEF SeasonListFailed
<1> QED
  BY <1>1, <1>2, <1>3, <1>4, <1>5, <1>6, <1>7 DEF CallStep

LEMMA TypeStep == TypeOK /\ [Next]_vars => TypeOK'
<1> SUFFICES ASSUME TypeOK, [Next]_vars PROVE TypeOK'
  OBVIOUS
<1> USE DEF db, settings, external
<1>1. CASE UNCHANGED vars
  BY <1>1 DEF vars, TypeOK, Used
<1>2. CASE Environment
  <2>1. CASE Tick
    BY <2>1 DEF Tick, TypeOK, Used
  <2>2. ASSUME NEW g \in Graces, UpdateSettings(g) PROVE TypeOK'
    BY <2>2 DEF UpdateSettings, TypeOK, Used
  <2>3. ASSUME NEW service \in Switchable, ToggleIntegration(service) PROVE TypeOK'
    BY <2>3, QueueAssumption DEF ToggleIntegration, TypeOK, Used
  <2>4. ASSUME NEW m \in Media, NEW f \in Files, Import(m, f) PROVE TypeOK'
    BY <2>4 DEF Import, TypeOK, Used
  <2> QED
    BY <1>2, <2>1, <2>2, <2>3, <2>4 DEF Environment
<1>3. ASSUME NEW s \in Scanners, ScanStep(s) PROVE TypeOK'
  <2>1. CASE ScanStart(s)
    BY <2>1 DEF ScanStart, TypeOK, Used, ScanState
  <2>2. ASSUME NEW m \in Media, StageDuplicate(s, m) PROVE TypeOK'
    BY <2>2 DEF StageDuplicate, TypeOK, Used, ScanState
  <2>3. ASSUME NEW m \in Media, StageLookup(s, m) PROVE TypeOK'
    <3>1. [scan[s] EXCEPT !.pc = "insert", !.absent = {m}, !.todo = @ \ {m}] \in ScanState
      BY DEF TypeOK, ScanState
    <3>2. scan' \in [Scanners -> ScanState]
      BY <2>3, <3>1 DEF StageLookup, TypeOK
    <3> QED
      BY <2>3, <3>2 DEF StageLookup, TypeOK, Used
  <2>4. ASSUME NEW m \in Media, StageAmbiguous(s, m) PROVE TypeOK'
    BY <2>4 DEF StageAmbiguous, TypeOK, Used, ScanState, NoScan
  <2>5. ASSUME NEW r \in Ids, StageInsert(s, r) PROVE TypeOK'
    <3>1. rows' \in [Ids -> PendingDeletion \cup {NoPending}] /\ Used \subseteq Used'
      BY <2>5, RowInserted
    <3>2. scan' \in [Scanners -> ScanState]
      <4>1. [scan[s] EXCEPT !.pc = "lookup", !.absent = {}] \in ScanState
        BY DEF TypeOK, ScanState
      <4> QED
        BY <2>5, <4>1 DEF StageInsert, TypeOK
    <3>3. /\ cancelling' \in [Users -> Used' \cup {NoRow}]
          /\ exec'.due \subseteq Used'
          /\ exec'.pc \notin {"idle", "begin"} => exec'.cur \in Used'
      BY <2>5, <3>1 DEF StageInsert, TypeOK
    <3> QED
      BY <2>5, <3>1, <3>2, <3>3 DEF StageInsert, TypeOK
  <2>6. CASE ScanEnd(s)
    BY <2>6 DEF ScanEnd, TypeOK, Used, ScanState, NoScan
  <2> QED
    BY <1>3, <2>1, <2>2, <2>3, <2>4, <2>5, <2>6 DEF ScanStep
<1>4. ASSUME NEW u \in Users, CancelStep(u) PROVE TypeOK'
  <2>1. ASSUME NEW r \in Ids, CancelRead(u, r) PROVE TypeOK'
    BY <2>1 DEF CancelRead, TypeOK, Used
  <2>2. CASE CancelCommit(u)
    <3>1. cancelling[u] \in Used
      BY <2>2 DEF CancelCommit, TypeOK
    <3>2. rows' \in [Ids -> PendingDeletion \cup {NoPending}] /\ Used' = Used
      BY <2>2, <3>1, StatusWritten DEF CancelCommit, PendingStatus
    <3> QED
      BY <2>2, <3>2 DEF CancelCommit, TypeOK
  <2> QED
    BY <1>4, <2>1, <2>2 DEF CancelStep
<1>5. CASE ExecutorStep
  <2>1. CASE ExecuteDue
    <3>1. DueRows \subseteq Used /\ Used \subseteq Ids
      BY DEF DueRows, Used
    <3>2. /\ exec' \in ExecutorState /\ exec'.pc \in {"idle", "begin"}
          /\ exec'.due \subseteq Used /\ exec'.cur = NoRow
      BY <2>1, <3>1 DEF ExecuteDue, Idle, TypeOK, ExecutorState, SystemStatus
    <3> QED
      BY <2>1, <3>2 DEF ExecuteDue, TypeOK, Used
  <2>2. ASSUME NEW r \in Ids, BeginOne(r) PROVE TypeOK'
    <3>1. r \in Used
      BY <2>2 DEF BeginOne, TypeOK
    <3>2. rows' \in [Ids -> PendingDeletion \cup {NoPending}] /\ Used' = Used
      BY <2>2, <3>1, StatusWritten DEF BeginOne, PendingStatus
    <3>3. exec' \in ExecutorState /\ exec'.cur \in Used /\ exec'.due \subseteq Used
      BY <2>2, <3>1 DEF BeginOne, TypeOK, Used, Idle, ExecutorState, SystemStatus
    <3> QED
      BY <2>2, <3>2, <3>3 DEF BeginOne, TypeOK
  <2>3. CASE CallStep
    <3>1. exec' \in ExecutorState /\ exec'.cur = exec.cur /\ exec.cur \in Used
      BY <2>3, CallStepShape DEF TypeOK
    <3>2. requests' \in SUBSET Requests /\ tracked' \in SUBSET Media
          /\ files' \in [Media -> SUBSET Files]
      BY <2>3, CallStepShape
    <3> QED
      BY <2>3, <3>1, <3>2, CallStepShape DEF TypeOK, Used
  <2>4. CASE RecordOutcome
    <3>1. exec.cur \in Used
      BY <2>4 DEF RecordOutcome, TypeOK
    <3> DEFINE overall == Overall(exec.seerr, exec.arr)
    <3>2. overall \in OverallStatus /\ FinalStatus(overall) \in PendingStatus
      BY OverallTypes
    <3>3. rows' \in [Ids -> PendingDeletion \cup {NoPending}] /\ Used' = Used
      BY <2>4, <3>1, <3>2, StatusWritten DEF RecordOutcome
    <3>4. actionLog' \in [Ids -> Seq(ActionLog)]
      <4> DEFINE entry == [seerr |-> exec.seerr, arr |-> exec.arr, overall |-> overall]
      <4>1. entry \in ActionLog
        BY <3>2 DEF TypeOK, ExecutorState, ActionLog
      <4>2. actionLog' = [actionLog EXCEPT ![exec.cur] = Append(@, entry)]
        BY <2>4 DEF RecordOutcome
      <4> HIDE DEF entry
      <4>3. actionLog[exec.cur] \in Seq(ActionLog)
        BY <3>1 DEF TypeOK, Used
      <4>4. Append(actionLog[exec.cur], entry) \in Seq(ActionLog)
        BY <4>1, <4>3
      <4> QED
        BY <4>2, <4>4 DEF TypeOK
    <3>5. exec' \in ExecutorState /\ exec'.cur \in Used /\ exec'.due \subseteq Used
      BY <2>4, <3>1 DEF RecordOutcome, TypeOK, ExecutorState
    <3> QED
      BY <2>4, <3>3, <3>4, <3>5 DEF RecordOutcome, TypeOK
  <2>5. CASE NotifyExecuted
    BY <2>5 DEF NotifyExecuted, TypeOK, Used, Idle, ExecutorState, SystemStatus
  <2> QED
    BY <1>5, <2>1, <2>2, <2>3, <2>4, <2>5 DEF ExecutorStep
<1>6. CASE Fault
  <2>1. /\ Idle \in ExecutorState /\ NoScan \in ScanState
        /\ Idle.pc = "idle" /\ Idle.due = {} /\ Idle.cur = NoRow
    BY DEF Idle, NoScan, ExecutorState, ScanState, SystemStatus
  <2>2. faults' \in Nat
    BY <1>6 DEF Fault, ExecutorRaises, ScanRaises, Restart, TypeOK
  <2> QED
    BY <1>6, <2>1, <2>2 DEF Fault, ExecutorRaises, ScanRaises, Restart, TypeOK, Used
<1> QED
  BY <1>1, <1>2, <1>3, <1>4, <1>5, <1>6 DEF Next
----------------------------------------------------------------------------
(* The invariant is inductive.                                             *)

Working == {"seerr", "arr", "list", "files", "record"}

\* A step that writes nothing to the database and loads no row keeps it.
LEMMA QuietStep ==
  ASSUME Inv, TypeOK', UNCHANGED <<rows, actionLog, begun>>,
         clock' >= clock, exec'.due \subseteq exec.due,
         exec'.pc \in Working \cup {"notify"} =>
           exec.pc \in Working \cup {"notify"} /\ exec'.cur = exec.cur,
         exec'.pc \in Working => exec.pc \in Working
  PROVE  Inv'
<1>1. Used' = Used
  BY DEF Used
<1>2. \A r \in Used : rows[r] \in PendingDeletion
  BY UsedRow DEF Inv
<1>3. clock \in Nat /\ clock' \in Nat
  BY DEF Inv, TypeOK
<1>4. BegunWasDue' /\ DueNotBegun'
  BY <1>1, <1>2, <1>3 DEF Inv, BegunWasDue, DueNotBegun, PendingDeletion
<1>5. exec.pc \notin {"idle", "begin"} => exec.pc \in Working \cup {"notify"}
      /\ (exec'.pc \notin {"idle", "begin"} => exec'.pc \in Working \cup {"notify"})
  BY DEF Inv, TypeOK, ExecutorState, Working
<1>6. CurrentBegun'
  BY <1>5 DEF Inv, CurrentBegun, Working, TypeOK, ExecutorState
<1> QED
  BY <1>1, <1>4, <1>6 DEF Inv, DeadlineKept, PendingNotBegun, AtMostOneAttempt

LEMMA InsertStep ==
  ASSUME Inv, TypeOK', NEW s \in Scanners, NEW r \in Ids, StageInsert(s, r)
  PROVE  Inv'
<1>1. TypeOK
  BY DEF Inv
<1>2. PICK m \in Media : /\ Staged(s, m) \in PendingDeletion
                         /\ rows' = [rows EXCEPT ![r] = Staged(s, m)]
                         /\ Used' = Used \cup {r}
  BY <1>1, RowInserted
<1>3. rows'[r] = Staged(s, m) /\ \A q \in Ids : q # r => rows'[q] = rows[q]
  BY <1>1, <1>2 DEF TypeOK
<1>4. /\ r \notin Used /\ begun[r] = 0 /\ rows[r].status = "unused"
      /\ UNCHANGED <<clock, exec, actionLog, begun>>
  BY DEF StageInsert, Inv, PendingNotBegun, Used
<1>5. DeadlineKept'
  BY <1>2, <1>3 DEF Inv, DeadlineKept, Staged, Used
<1>6. PendingNotBegun' /\ BegunWasDue'
  BY <1>2, <1>3, <1>4 DEF Inv, PendingNotBegun, BegunWasDue, Used
<1>7. DueNotBegun'
  BY <1>2, <1>3, <1>4 DEF Inv, DueNotBegun, Used
<1>8. CurrentBegun' /\ AtMostOneAttempt'
  BY <1>4 DEF Inv, CurrentBegun, AtMostOneAttempt
<1> QED
  BY <1>5, <1>6, <1>7, <1>8 DEF Inv

LEMMA CancelStepInv ==
  ASSUME Inv, TypeOK', NEW u \in Users, CancelCommit(u)
  PROVE  Inv'
<1>1. TypeOK /\ cancelling[u] \in Used
  BY DEF Inv, TypeOK, CancelCommit
<1>2. /\ Used' = Used
      /\ rows'[cancelling[u]].status = "cancelled"
      /\ \A q \in Ids : q # cancelling[u] => rows'[q] = rows[q]
      /\ \A q \in Used : /\ rows'[q].executeAfter = rows[q].executeAfter
                         /\ rows'[q].stagedAt = rows[q].stagedAt
                         /\ rows'[q].graceHours = rows[q].graceHours
  BY <1>1, StatusWritten DEF CancelCommit, PendingStatus
<1>3. UNCHANGED <<clock, exec, actionLog, begun>>
  BY DEF CancelCommit
<1>4. DeadlineKept' /\ BegunWasDue'
  BY <1>2, <1>3 DEF Inv, DeadlineKept, BegunWasDue
<1>5. PendingNotBegun'
  BY <1>2, <1>3 DEF Inv, PendingNotBegun
<1>6. DueNotBegun'
  BY <1>2, <1>3 DEF Inv, DueNotBegun, Used
<1>7. CurrentBegun' /\ AtMostOneAttempt'
  BY <1>3 DEF Inv, CurrentBegun, AtMostOneAttempt
<1> QED
  BY <1>4, <1>5, <1>6, <1>7 DEF Inv

LEMMA DueStep ==
  ASSUME Inv, TypeOK', ExecuteDue
  PROVE  Inv'
<1>1. UNCHANGED <<clock, rows, actionLog, begun>> /\ Used' = Used
  BY DEF ExecuteDue, db, Used
<1>2. \A r \in DueRows : /\ r \in Used /\ begun[r] = 0
                         /\ rows[r].status = "pending" /\ rows[r].executeAfter <= clock
  BY DEF DueRows, Inv, PendingNotBegun, Used
<1>3. DueNotBegun' /\ CurrentBegun'
  <2>1. CASE DueRows = {}
    BY <1>1, <2>1 DEF ExecuteDue, Inv, DueNotBegun, CurrentBegun
  <2>2. CASE DueRows # {}
    <3>1. exec'.due = DueRows /\ exec'.pc = "begin"
      BY <2>2 DEF ExecuteDue, Idle
    <3> QED
      BY <1>1, <1>2, <3>1 DEF DueNotBegun, CurrentBegun
  <2> QED
    BY <2>1, <2>2
<1>4. DeadlineKept' /\ PendingNotBegun' /\ BegunWasDue' /\ AtMostOneAttempt'
  BY <1>1 DEF Inv, DeadlineKept, PendingNotBegun, BegunWasDue, AtMostOneAttempt
<1> QED
  BY <1>3, <1>4 DEF Inv

LEMMA BeginStep ==
  ASSUME Inv, TypeOK', NEW r \in Ids, BeginOne(r)
  PROVE  Inv'
<1>1. /\ TypeOK /\ r \in exec.due /\ r \in Used /\ begun[r] = 0
      /\ rows[r].executeAfter <= clock
  BY DEF BeginOne, Inv, DueNotBegun
<1>2. /\ Used' = Used
      /\ rows'[r].status = "executing"
      /\ \A q \in Ids : q # r => rows'[q] = rows[q]
      /\ \A q \in Used : /\ rows'[q].executeAfter = rows[q].executeAfter
                         /\ rows'[q].stagedAt = rows[q].stagedAt
                         /\ rows'[q].graceHours = rows[q].graceHours
  BY <1>1, StatusWritten DEF BeginOne, PendingStatus
<1>3. /\ begun'[r] = 1 /\ \A q \in Ids : q # r => begun'[q] = begun[q]
      /\ UNCHANGED <<clock, actionLog>>
      /\ exec'.due = exec.due \ {r} /\ exec'.cur = r /\ exec'.pc = "seerr"
  BY <1>1 DEF BeginOne, TypeOK, Idle
<1>4. actionLog[r] \in Seq(ActionLog) /\ Len(actionLog[r]) <= 0
  BY <1>1 DEF Inv, TypeOK, AtMostOneAttempt
<1>5. actionLog[r] = <<>>
  BY <1>4, EmptySeq, LenProperties
<1>6. DeadlineKept' /\ BegunWasDue'
  BY <1>1, <1>2, <1>3 DEF Inv, DeadlineKept, BegunWasDue, Used
<1>7. PendingNotBegun'
  BY <1>2, <1>3 DEF Inv, PendingNotBegun
<1>8. DueNotBegun'
  BY <1>2, <1>3 DEF Inv, DueNotBegun, Used
<1>9. CurrentBegun'
  BY <1>3, <1>5 DEF CurrentBegun
<1>10. AtMostOneAttempt'
  <2>1. Len(actionLog[r]) <= begun'[r]
    BY <1>3, <1>5
  <2> QED
    BY <1>3, <2>1 DEF Inv, AtMostOneAttempt
<1> QED
  BY <1>6, <1>7, <1>8, <1>9, <1>10 DEF Inv

LEMMA RecordStep ==
  ASSUME Inv, TypeOK', RecordOutcome
  PROVE  Inv'
<1> DEFINE r == exec.cur
<1> DEFINE entry == [seerr |-> exec.seerr, arr |-> exec.arr,
                     overall |-> Overall(exec.seerr, exec.arr)]
<1>1. /\ TypeOK /\ r \in Used /\ begun[r] = 1 /\ actionLog[r] = <<>>
      /\ r \notin exec.due
  BY DEF RecordOutcome, Inv, TypeOK, CurrentBegun, DueNotBegun
<1>2. /\ Used' = Used
      /\ rows'[r].status \in {"completed", "failed"}
      /\ \A q \in Ids : q # r => rows'[q] = rows[q]
      /\ \A q \in Used : /\ rows'[q].executeAfter = rows[q].executeAfter
                         /\ rows'[q].stagedAt = rows[q].stagedAt
                         /\ rows'[q].graceHours = rows[q].graceHours
  <2> DEFINE st == FinalStatus(Overall(exec.seerr, exec.arr))
  <2>1. st \in {"completed", "failed"} /\ st \in PendingStatus
    BY OverallTypes DEF FinalStatus
  <2>2. rows' = [rows EXCEPT ![r].status = st]
    BY DEF RecordOutcome
  <2> QED
    BY <1>1, <2>1, <2>2, StatusWritten
<1>3. actionLog' = [actionLog EXCEPT ![r] = Append(@, entry)]
  BY DEF RecordOutcome
<1> HIDE DEF entry
<1>4. actionLog'[r] = Append(<<>>, entry) /\ \A q \in Ids : q # r => actionLog'[q] = actionLog[q]
  BY <1>1, <1>3 DEF TypeOK, Used
<1>5. Len(Append(<<>>, entry)) = 1
  OBVIOUS
<1>6. UNCHANGED <<clock, begun>> /\ exec'.due = exec.due /\ exec'.pc = "notify" /\ exec'.cur = r
  BY DEF RecordOutcome, Inv, TypeOK, ExecutorState
<1>7. DeadlineKept' /\ BegunWasDue'
  BY <1>2, <1>6 DEF Inv, DeadlineKept, BegunWasDue
<1>8. PendingNotBegun'
  BY <1>2, <1>6 DEF Inv, PendingNotBegun
<1>9. DueNotBegun'
  BY <1>1, <1>2, <1>6 DEF Inv, DueNotBegun, Used
<1>10. CurrentBegun'
  BY <1>1, <1>6 DEF CurrentBegun
<1>11. AtMostOneAttempt'
  BY <1>1, <1>4, <1>5, <1>6 DEF Inv, AtMostOneAttempt
<1> QED
  BY <1>7, <1>8, <1>9, <1>10, <1>11 DEF Inv

LEMMA NextInv == Inv /\ [Next]_vars => Inv'
<1> SUFFICES ASSUME Inv, [Next]_vars PROVE Inv'
  OBVIOUS
<1>0. TypeOK /\ TypeOK' /\ clock \in Nat
  BY TypeStep DEF Inv, TypeOK
<1> USE DEF db, settings, external, Working
<1>1. CASE UNCHANGED vars
  BY <1>0, <1>1, QuietStep DEF vars
<1>2. CASE Environment
  <2>1. /\ UNCHANGED <<rows, actionLog, begun, exec>>
        /\ clock' >= clock
    BY <1>0, <1>2 DEF Environment, Tick, UpdateSettings, ToggleIntegration, Import
  <2> QED
    BY <1>0, <2>1, QuietStep
<1>3. ASSUME NEW s \in Scanners, ScanStep(s) PROVE Inv'
  <2>1. ASSUME NEW r \in Ids, StageInsert(s, r) PROVE Inv'
    BY <1>0, <2>1, InsertStep
  <2>2. CASE UNCHANGED <<clock, rows, actionLog, begun, exec>>
    BY <1>0, <2>2, QuietStep
  <2> QED
    BY <1>3, <2>1, <2>2
    DEF ScanStep, ScanStart, StageDuplicate, StageLookup, StageAmbiguous, ScanEnd
<1>4. ASSUME NEW u \in Users, CancelStep(u) PROVE Inv'
  <2>1. CASE CancelCommit(u)
    BY <1>0, <2>1, CancelStepInv
  <2>2. CASE \E r \in Ids : CancelRead(u, r)
    <3>1. UNCHANGED <<clock, rows, actionLog, begun, exec>>
      BY <2>2 DEF CancelRead
    <3> QED
      BY <1>0, <3>1, QuietStep
  <2> QED
    BY <1>4, <2>1, <2>2 DEF CancelStep
<1>5. CASE ExecutorStep
  <2>1. CASE ExecuteDue
    BY <1>0, <2>1, DueStep
  <2>2. ASSUME NEW r \in Ids, BeginOne(r) PROVE Inv'
    BY <1>0, <2>2, BeginStep
  <2>3. CASE CallStep
    <3>1. /\ UNCHANGED <<clock, rows, actionLog, begun>>
          /\ exec'.cur = exec.cur /\ exec'.due = exec.due
          /\ exec.pc \in Working
      BY <1>0, <2>3, CallStepShape
    <3> QED
      BY <1>0, <3>1, QuietStep
  <2>4. CASE RecordOutcome
    BY <1>0, <2>4, RecordStep
  <2>5. CASE NotifyExecuted
    <3>1. /\ UNCHANGED <<clock, rows, actionLog, begun>>
          /\ exec'.due = exec.due /\ exec'.pc \in {"idle", "begin"}
      BY <2>5 DEF NotifyExecuted, Idle
    <3> QED
      BY <1>0, <3>1, QuietStep
  <2> QED
    BY <1>5, <2>1, <2>2, <2>3, <2>4, <2>5 DEF ExecutorStep
<1>6. CASE Fault
  <2>1. /\ UNCHANGED <<clock, rows, actionLog, begun>>
        /\ exec' = exec \/ exec' = Idle
    BY <1>6 DEF Fault, ExecutorRaises, ScanRaises, Restart
  <2>2. Idle.pc = "idle" /\ Idle.due = {}
    BY DEF Idle
  <2> QED
    BY <1>0, <2>1, <2>2, QuietStep
<1> QED
  BY <1>1, <1>2, <1>3, <1>4, <1>5, <1>6 DEF Next

\* Every reachable state satisfies the inductive invariant.
THEOREM Invariant == Spec => []Inv
<1>1. Init => Inv
  BY InitInv
<1>2. Inv /\ [Next]_vars => Inv'
  BY NextInv
<1> QED
  BY <1>1, <1>2, PTL DEF Spec

\* Every variable of the queue keeps its type; in particular the executor only
\* ever works on rows that were inserted.
THEOREM TypeCorrect == Spec => []TypeOK
<1>1. Inv => TypeOK
  BY DEF Inv
<1> QED
  BY <1>1, Invariant, PTL

\* No deletion begins before the grace period of its row is over.
THEOREM GraceHolds == Spec => []GraceRespected
<1>1. Inv => GraceRespected
  BY DEF Inv, GraceRespected, DeadlineKept, BegunWasDue
<1> QED
  BY <1>1, Invariant, PTL

\* A row is begun at most once and logged at most once.
THEOREM OneAttempt == Spec => []AtMostOneAttempt
<1>1. Inv => AtMostOneAttempt
  BY DEF Inv
<1> QED
  BY <1>1, Invariant, PTL

----------------------------------------------------------------------------
(* Cancellation.                                                           *)

\* A step that writes no row and gives the executor no row it did not hold,
\* except pending ones, leaves cancelled rows out of its hands.
LEMMA CancelledUntouched ==
  ASSUME Inv, [Next]_vars, NEW r \in Used, rows[r].status = "cancelled", r \notin Held
  PROVE  rows'[r].status = "cancelled" /\ r \notin Held'
<1>0. TypeOK /\ r \in Ids /\ r # NoRow /\ r \notin exec.due /\ r # exec.cur
  BY QueueAssumption DEF Inv, Used, Held
<1> USE DEF db, settings, external
<1>1. CASE UNCHANGED vars
  BY <1>1 DEF vars, Held
<1>2. CASE Environment
  BY <1>2 DEF Environment, Tick, UpdateSettings, ToggleIntegration, Import, Held
<1>3. ASSUME NEW s \in Scanners, ScanStep(s)
      PROVE  rows'[r].status = "cancelled" /\ r \notin Held'
  <2>1. ASSUME NEW q \in Ids, StageInsert(s, q)
        PROVE  rows'[r].status = "cancelled" /\ r \notin Held'
    <3>1. q # r
      BY <2>1 DEF StageInsert
    <3>2. rows'[r] = rows[r]
      BY <1>0, <2>1, <3>1 DEF StageInsert, TypeOK
    <3> QED
      BY <2>1, <3>2 DEF StageInsert, Held
  <2>2. CASE UNCHANGED <<rows, exec>>
    BY <2>2 DEF Held
  <2> QED
    BY <1>3, <2>1, <2>2
    DEF ScanStep, ScanStart, StageDuplicate, StageLookup, StageAmbiguous, ScanEnd
<1>4. ASSUME NEW u \in Users, CancelStep(u)
      PROVE  rows'[r].status = "cancelled" /\ r \notin Held'
  <2>1. CASE CancelCommit(u)
    <3>1. cancelling[u] \in Used
      BY <1>0, <2>1 DEF CancelCommit, TypeOK
    <3>2. rows'[r].status = "cancelled"
      BY <1>0, <2>1, <3>1, StatusWritten DEF CancelCommit, PendingStatus
    <3> QED
      BY <2>1, <3>2 DEF CancelCommit, Held
  <2>2. CASE \E q \in Ids : CancelRead(u, q)
    BY <2>2 DEF CancelRead, Held
  <2> QED
    BY <1>4, <2>1, <2>2 DEF CancelStep
<1>5. CASE ExecutorStep
  <2>1. CASE ExecuteDue
    <3>1. r \notin DueRows
      BY DEF DueRows
    <3> QED
      BY <1>0, <2>1, <3>1 DEF ExecuteDue, Idle, Held
  <2>2. ASSUME NEW q \in Ids, BeginOne(q)
        PROVE  rows'[r].status = "cancelled" /\ r \notin Held'
    <3>1. q # r /\ q \in Used
      BY <1>0, <2>2 DEF BeginOne, TypeOK
    <3>2. rows'[r] = rows[r]
      BY <1>0, <2>2, <3>1 DEF BeginOne, TypeOK
    <3> QED
      BY <1>0, <2>2, <3>1, <3>2 DEF BeginOne, Idle, Held
  <2>3. CASE CallStep
    BY <1>0, <2>3, CallStepShape DEF Held
  <2>4. CASE RecordOutcome
    <3>1. rows'[r] = rows[r]
      BY <1>0, <2>4 DEF RecordOutcome, TypeOK
    <3>2. exec'.due = exec.due /\ exec'.cur = exec.cur
      BY <1>0, <2>4 DEF RecordOutcome, TypeOK, ExecutorState
    <3> QED
      BY <1>0, <3>1, <3>2 DEF Held
  <2>5. CASE NotifyExecuted
    BY <1>0, <2>5 DEF NotifyExecuted, Idle, Held
  <2> QED
    BY <1>5, <2>1, <2>2, <2>3, <2>4, <2>5 DEF ExecutorStep
<1>6. CASE Fault
  <2>1. UNCHANGED rows /\ (exec' = exec \/ exec' = Idle)
    BY <1>6 DEF Fault, ExecutorRaises, ScanRaises, Restart
  <2>2. Idle.due = {} /\ Idle.cur = NoRow
    BY DEF Idle
  <2> QED
    BY <1>0, <2>1, <2>2 DEF Held
<1> QED
  BY <1>1, <1>2, <1>3, <1>4, <1>5, <1>6 DEF Next

\* A row cancelled while the executor does not hold it stays cancelled and is
\* never loaded again.
THEOREM CancelHolds == Spec => CancelOutsideTick
<1>1. Inv /\ [Next]_vars =>
        [\A r \in Used : rows[r].status = "cancelled" /\ r \notin Held =>
           rows'[r].status = "cancelled" /\ r \notin Held']_vars
  BY CancelledUntouched
<1> QED
  BY <1>1, Invariant, PTL DEF Spec, CancelOutsideTick

----------------------------------------------------------------------------
(* The queue implements the contract.                                      *)

LEMMA InitContract == Init => Contract!Init
<1> SUFFICES ASSUME Init PROVE Contract!Init
  OBVIOUS
<1>1. Used = {}
  BY DEF Init, Used, NoPending
<1> QED
  BY <1>1 DEF Init, Contract!Init, Contract!NoDeadline, Deadline, Withdrawn,
              Attempted, Reported

\* A step that begins, logs, inserts and un-cancels nothing is a withdrawal.
LEMMA WithdrawStep ==
  ASSUME Inv, [Next]_vars, UNCHANGED <<clock, actionLog, begun>>, Used' = Used,
         \A q \in Used : rows'[q].executeAfter = rows[q].executeAfter
  PROVE  Contract!Withdraw(Withdrawn')
<1>1. UNCHANGED <<Deadline, Attempted, Reported>>
  BY DEF Deadline, Attempted, Reported
<1>2. Withdrawn \subseteq Withdrawn'
  BY CancelledUntouched DEF Withdrawn
<1>3. Withdrawn' \subseteq Contract!Entries \ Attempted
  <2>1. \A q \in Used : rows[q].executeAfter \in Nat
    BY UsedRow DEF Inv, PendingDeletion
  <2> QED
    BY <2>1 DEF Withdrawn, Attempted, Contract!Entries, Contract!NoDeadline, Deadline, Used
<1> QED
  BY <1>1, <1>2, <1>3 DEF Contract!Withdraw

LEMMA TickContract == Tick => Contract!Pass
<1> SUFFICES ASSUME Tick PROVE Contract!Pass
  OBVIOUS
<1>1. clock' = clock + 1 /\ UNCHANGED <<rows, actionLog, exec, begun>>
  BY DEF Tick, db
<1>2. UNCHANGED <<Deadline, Withdrawn, Attempted, Reported>>
  BY <1>1 DEF Deadline, Withdrawn, Attempted, Reported, Used, Held
<1> QED
  BY <1>1, <1>2 DEF Contract!Pass

LEMMA InsertContract ==
  ASSUME Inv, NEW s \in Scanners, NEW r \in Ids, StageInsert(s, r)
  PROVE  Contract!Create(r)
<1>1. PICK m \in Media : /\ Staged(s, m) \in PendingDeletion
                         /\ rows' = [rows EXCEPT ![r] = Staged(s, m)]
                         /\ Used' = Used \cup {r}
  BY RowInserted DEF Inv
<1>2. rows'[r] = Staged(s, m) /\ \A q \in Ids : q # r => rows'[q] = rows[q]
  BY <1>1 DEF Inv, TypeOK
<1>3. r \notin Used /\ UNCHANGED <<clock, exec, actionLog, begun>>
  BY DEF StageInsert
<1>4. clock \in Nat /\ grace \in Nat
  BY QueueAssumption DEF Inv, TypeOK
<1>5. rows'[r].executeAfter = clock + grace /\ rows'[r].status = "pending"
  BY <1>2 DEF Staged
<1>6. Deadline'[r] = clock + grace /\ \A q \in Ids : q # r => Deadline'[q] = Deadline[q]
  BY <1>1, <1>2, <1>5 DEF Deadline
<1>7. Deadline' = [Deadline EXCEPT ![r] = Deadline'[r]]
  BY <1>6 DEF Deadline
<1>8. Withdrawn' = Withdrawn
  BY <1>1, <1>2, <1>3, <1>5 DEF Withdrawn, Used, Held
<1>9. Attempted' = Attempted /\ Reported' = Reported
  BY <1>3 DEF Attempted, Reported
<1>10. r \in Ids \ Contract!Entries
  BY <1>3 DEF Contract!Entries, Contract!NoDeadline, Deadline
<1> QED
  BY <1>3, <1>4, <1>6, <1>7, <1>8, <1>9, <1>10 DEF Contract!Create

LEMMA BeginContract ==
  ASSUME Inv, NEW r \in Ids, BeginOne(r)
  PROVE  Contract!Attempt(r)
<1>1. /\ TypeOK /\ r \in exec.due /\ r \in Used /\ begun[r] = 0
      /\ rows[r].executeAfter <= clock /\ rows[r].executeAfter \in Nat
  BY UsedRow DEF BeginOne, Inv, DueNotBegun, PendingDeletion
<1>2. /\ Used' = Used
      /\ rows'[r].status = "executing"
      /\ \A q \in Ids : q # r => rows'[q] = rows[q]
      /\ \A q \in Used : rows'[q].executeAfter = rows[q].executeAfter
  BY <1>1, StatusWritten DEF BeginOne, PendingStatus
<1>3. /\ begun'[r] = 1 /\ \A q \in Ids : q # r => begun'[q] = begun[q]
      /\ UNCHANGED <<clock, actionLog>>
      /\ exec'.due = exec.due \ {r} /\ exec'.cur = r
      /\ exec.cur = NoRow
  BY <1>1 DEF BeginOne, TypeOK, Idle
<1>4. Held' = exec.due /\ Held = exec.due \cup {NoRow} /\ NoRow \notin Ids
  BY <1>1, <1>3, QueueAssumption DEF Held
<1>5. Deadline' = Deadline /\ Reported' = Reported
  BY <1>2, <1>3 DEF Deadline, Reported
<1>6. Withdrawn' = Withdrawn
  BY <1>1, <1>2, <1>3, <1>4 DEF Withdrawn, Used
<1>7. Attempted' = Attempted \cup {r}
  BY <1>3 DEF Attempted
<1>8. r \in Contract!Entries \ (Withdrawn \cup Attempted) /\ Deadline[r] <= clock
  BY <1>1 DEF Contract!Entries, Contract!NoDeadline, Deadline, Withdrawn, Attempted, Held
<1> QED
  BY <1>3, <1>5, <1>6, <1>7, <1>8 DEF Contract!Attempt

LEMMA RecordContract ==
  ASSUME Inv, RecordOutcome
  PROVE  Contract!Report(exec.cur)
<1> DEFINE r == exec.cur
<1> DEFINE entry == [seerr |-> exec.seerr, arr |-> exec.arr,
                     overall |-> Overall(exec.seerr, exec.arr)]
<1>1. TypeOK /\ r \in Used /\ begun[r] = 1 /\ actionLog[r] = <<>>
  BY DEF RecordOutcome, Inv, TypeOK, CurrentBegun
<1>2. /\ Used' = Used
      /\ \A q \in Ids : q # r => rows'[q] = rows[q]
      /\ \A q \in Used : rows'[q].executeAfter = rows[q].executeAfter
  BY <1>1, StatusWritten, OverallTypes DEF RecordOutcome
<1>3. actionLog' = [actionLog EXCEPT ![r] = Append(@, entry)]
  BY DEF RecordOutcome
<1> HIDE DEF entry
<1>4. /\ actionLog'[r] = Append(<<>>, entry)
      /\ \A q \in Ids : q # r => actionLog'[q] = actionLog[q]
  BY <1>1, <1>3 DEF TypeOK, Used
<1>5. Append(<<>>, entry) # <<>>
  OBVIOUS
<1>6. UNCHANGED <<clock, begun>> /\ Held' = Held
  BY <1>1 DEF RecordOutcome, TypeOK, ExecutorState, Held
<1>7. Deadline' = Deadline /\ Attempted' = Attempted
  BY <1>2, <1>6 DEF Deadline, Attempted
<1>8. Withdrawn' = Withdrawn
  BY <1>1, <1>2, <1>6 DEF Withdrawn, Used
<1>9. Reported' = Reported \cup {r} /\ r \in Attempted \ Reported
  <2>1. r \in Ids /\ begun[r] > 0
    BY <1>1 DEF Used
  <2>2. actionLog'[r] # <<>>
    BY <1>4, <1>5
  <2> HIDE DEF r
  <2>3. Reported' = Reported \cup {r}
    BY <1>4, <2>1, <2>2 DEF Reported
  <2>4. r \in Attempted \ Reported
    BY <1>1, <2>1 DEF Reported, Attempted
  <2> QED
    BY <2>3, <2>4
<1> QED
  BY <1>6, <1>7, <1>8, <1>9 DEF Contract!Report

LEMMA StepContract == Inv /\ [Next]_vars => [Contract!Next]_(Contract!vars)
<1> SUFFICES ASSUME Inv, [Next]_vars PROVE Contract!Next
  OBVIOUS
<1>0. TypeOK /\ \A q \in Ids : q \in Used => rows[q] \in PendingDeletion
  BY UsedRow DEF Inv
<1>w. ASSUME UNCHANGED <<clock, actionLog, begun>>, Used' = Used,
             \A q \in Used : rows'[q].executeAfter = rows[q].executeAfter
      PROVE  Contract!Next
  <2>1. Contract!Withdraw(Withdrawn')
    BY <1>w, WithdrawStep
  <2>2. Withdrawn' \in SUBSET Ids
    BY <1>w DEF Withdrawn, Used
  <2> QED
    BY <2>1, <2>2 DEF Contract!Next
<1>q. ASSUME UNCHANGED <<clock, rows, actionLog, begun>> PROVE Contract!Next
  BY <1>q, <1>w DEF Used
<1> USE DEF db, settings, external
<1>1. CASE UNCHANGED vars
  BY <1>1, <1>q DEF vars
<1>2. CASE Environment
  <2>1. CASE Tick
    BY <2>1, TickContract DEF Contract!Next
  <2>2. CASE UNCHANGED <<clock, rows, actionLog, begun>>
    BY <2>2, <1>q
  <2> QED
    BY <1>2, <2>1, <2>2 DEF Environment, UpdateSettings, ToggleIntegration, Import
<1>3. ASSUME NEW s \in Scanners, ScanStep(s) PROVE Contract!Next
  <2>1. ASSUME NEW r \in Ids, StageInsert(s, r) PROVE Contract!Next
    BY <2>1, InsertContract DEF Contract!Next
  <2>2. CASE UNCHANGED <<clock, rows, actionLog, begun>>
    BY <2>2, <1>q
  <2> QED
    BY <1>3, <2>1, <2>2
    DEF ScanStep, ScanStart, StageDuplicate, StageLookup, StageAmbiguous, ScanEnd
<1>4. ASSUME NEW u \in Users, CancelStep(u) PROVE Contract!Next
  <2>1. CASE CancelCommit(u)
    <3>1. cancelling[u] \in Used
      BY <1>0, <2>1 DEF CancelCommit, TypeOK
    <3>2. Used' = Used /\ \A q \in Used : rows'[q].executeAfter = rows[q].executeAfter
      BY <1>0, <2>1, <3>1, StatusWritten DEF CancelCommit, PendingStatus
    <3> QED
      BY <2>1, <3>2, <1>w DEF CancelCommit
  <2>2. CASE \E q \in Ids : CancelRead(u, q)
    BY <2>2, <1>q DEF CancelRead
  <2> QED
    BY <1>4, <2>1, <2>2 DEF CancelStep
<1>5. CASE ExecutorStep
  <2>1. CASE ExecuteDue \/ NotifyExecuted
    BY <2>1, <1>q DEF ExecuteDue, NotifyExecuted
  <2>2. ASSUME NEW r \in Ids, BeginOne(r) PROVE Contract!Next
    BY <2>2, BeginContract DEF Contract!Next
  <2>3. CASE CallStep
    BY <1>0, <2>3, CallStepShape, <1>q
  <2>4. CASE RecordOutcome
    <3>1. exec.cur \in Ids
      BY <1>0, <2>4 DEF RecordOutcome, TypeOK, Used
    <3> QED
      BY <2>4, <3>1, RecordContract DEF Contract!Next
  <2> QED
    BY <1>5, <2>1, <2>2, <2>3, <2>4 DEF ExecutorStep
<1>6. CASE Fault
  BY <1>6, <1>q DEF Fault, ExecutorRaises, ScanRaises, Restart
<1> QED
  BY <1>1, <1>2, <1>3, <1>4, <1>5, <1>6 DEF Next

\* The queue implements the contract: no attempt before the deadline, none
\* after a withdrawal, never two, no report without an attempt.
THEOREM Implementation == Spec => ImplementsContract
<1>1. Init => Contract!Init
  BY InitContract
<1>2. Inv /\ [Next]_vars => [Contract!Next]_(Contract!vars)
  BY StepContract
<1> QED
  BY <1>1, <1>2, Invariant, PTL DEF Spec, ImplementsContract, Contract!Spec
=============================================================================
