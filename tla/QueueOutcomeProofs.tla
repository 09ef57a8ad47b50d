------------------------- MODULE QueueOutcomeProofs -------------------------
(***************************************************************************)
(* More about DeletionQueue, from the invariant of DeletionQueueProofs:    *)
(* what the tables and the log say of an attempt is what happened.         *)
(***************************************************************************)
EXTENDS DeletionQueueProofs

\* Only the second commit of an attempt writes the log, and of the steps that
\* write a row each has its action.
LEMMA TableSteps ==
  ASSUME Inv, [Next]_vars
  PROVE  \/ UNCHANGED <<rows, actionLog>>
         \/ \E s \in Scanners, r \in Ids : StageInsert(s, r)
         \/ \E u \in Users : CancelCommit(u)
         \/ \E r \in Ids : BeginOne(r)
         \/ RecordOutcome
<1> USE DEF db
<1>0. TypeOK
  BY DEF Inv
<1>1. CASE UNCHANGED vars
  BY <1>1 DEF vars
<1>2. CASE Environment
  BY <1>2 DEF Environment, Tick, UpdateSettings, ToggleIntegration, Import
<1>3. ASSUME NEW s \in Scanners, ScanStep(s)
      PROVE  UNCHANGED <<rows, actionLog>> \/ \E r \in Ids : StageInsert(s, r)
  BY <1>3 DEF ScanStep, ScanStart, StageDuplicate, StageLookup, StageAmbiguous, ScanEnd
<1>4. ASSUME NEW u \in Users, CancelStep(u)
      PROVE  UNCHANGED <<rows, actionLog>> \/ CancelCommit(u)
  BY <1>4 DEF CancelStep, CancelRead
<1>5. CASE ExecutorStep
  BY <1>0, <1>5, CallStepShape DEF ExecutorStep, ExecuteDue, NotifyExecuted
<1>6. CASE Fault
  BY <1>6 DEF Fault, ExecutorRaises, ScanRaises, Restart
<1> QED
  BY <1>1, <1>2, <1>3, <1>4, <1>5, <1>6 DEF Next

\* What each of those does to the table, and what it leaves alone.
LEMMA InsertWrites ==
  ASSUME Inv, NEW s \in Scanners, NEW r \in Ids, StageInsert(s, r)
  PROVE  /\ r \notin Used /\ Used' = Used \cup {r} /\ actionLog[r] = <<>>
         /\ rows'[r].status = "pending" /\ rows'[r].key \in scan[s].absent
         /\ \A q \in Used : rows'[q] = rows[q]
         /\ UNCHANGED actionLog
<1>1. TypeOK
  BY DEF Inv
<1>2. PICK m \in scan[s].absent : rows' = [rows EXCEPT ![r] = Staged(s, m)]
  BY DEF StageInsert
<1>3. rows'[r] = Staged(s, m) /\ \A q \in Ids : q # r => rows'[q] = rows[q]
  BY <1>1, <1>2 DEF TypeOK
<1>4. rows'[r].status = "pending" /\ rows'[r].key = m
  BY <1>3 DEF Staged
<1>5. r \notin Used /\ rows[r].status = "unused" /\ UNCHANGED actionLog
  BY DEF StageInsert, Used
<1>6. actionLog[r] \in Seq(ActionLog) /\ Len(actionLog[r]) <= 0
  BY <1>5 DEF Inv, TypeOK, PendingNotBegun, AtMostOneAttempt
<1>7. actionLog[r] = <<>>
  BY <1>6, EmptySeq, LenProperties
<1>8. Used' = Used \cup {r}
  BY <1>3, <1>4 DEF Used
<1> QED
  BY <1>3, <1>4, <1>5, <1>7, <1>8 DEF Used

LEMMA CancelWrites ==
  ASSUME Inv, NEW u \in Users, CancelCommit(u)
  PROVE  /\ cancelling[u] \in Used /\ Used' = Used /\ UNCHANGED actionLog
         /\ rows'[cancelling[u]].status = "cancelled"
         /\ \A q \in Used : rows'[q].key = rows[q].key
         /\ \A q \in Used : q # cancelling[u] => rows'[q] = rows[q]
<1>1. TypeOK /\ cancelling[u] \in Used
  BY DEF Inv, TypeOK, CancelCommit
<1> QED
  BY <1>1, StatusWritten DEF CancelCommit, PendingStatus, Used

LEMMA BeginWrites ==
  ASSUME Inv, NEW r \in Ids, BeginOne(r)
  PROVE  /\ r \in Used /\ Used' = Used /\ UNCHANGED actionLog
         /\ rows[r].status \in {"pending", "cancelled"}
         /\ rows'[r].status = "executing"
         /\ \A q \in Used : rows'[q].key = rows[q].key
         /\ \A q \in Used : q # r => rows'[q] = rows[q]
<1>1. TypeOK /\ r \in Used /\ rows[r].status \in {"pending", "cancelled"}
  BY DEF Inv, DueNotBegun, BeginOne
<1> QED
  BY <1>1, StatusWritten DEF BeginOne, PendingStatus, Used

LEMMA RecordWrites ==
  ASSUME Inv, RecordOutcome
  PROVE  LET overall == Overall(exec.seerr, exec.arr)
             entry   == [seerr |-> exec.seerr, arr |-> exec.arr, overall |-> overall]
         IN  /\ exec.cur \in Used /\ Used' = Used
             /\ rows'[exec.cur].status = FinalStatus(overall)
             /\ actionLog'[exec.cur] = Append(<<>>, entry)
             /\ \A q \in Used : rows'[q].key = rows[q].key
             /\ \A q \in Ids : q # exec.cur =>
                  rows'[q] = rows[q] /\ actionLog'[q] = actionLog[q]
<1> DEFINE overall == Overall(exec.seerr, exec.arr)
           entry == [seerr |-> exec.seerr, arr |-> exec.arr, overall |-> overall]
<1>1. TypeOK /\ exec.cur \in Used /\ actionLog[exec.cur] = <<>>
  BY DEF RecordOutcome, Inv, TypeOK, CurrentBegun
<1>2. actionLog' = [actionLog EXCEPT ![exec.cur] = Append(@, entry)]
  BY DEF RecordOutcome
<1>3. rows' = [rows EXCEPT ![exec.cur].status = FinalStatus(overall)]
      /\ FinalStatus(overall) \in PendingStatus
  BY OverallTypes DEF RecordOutcome
<1> HIDE DEF entry, overall
<1>4. actionLog'[exec.cur] = Append(<<>>, entry)
      /\ \A q \in Ids : q # exec.cur => actionLog'[q] = actionLog[q]
  BY <1>1, <1>2 DEF TypeOK, Used
<1>5. /\ Used' = Used /\ rows'[exec.cur].status = FinalStatus(overall)
      /\ \A q \in Used : rows'[q].key = rows[q].key
      /\ \A q \in Ids : q # exec.cur => rows'[q] = rows[q]
  BY <1>1, <1>3, StatusWritten
<1> QED
  BY <1>1, <1>4, <1>5 DEF entry, overall

----------------------------------------------------------------------------
(* The log row and the final status belong together.                       *)

LEMMA OutcomeStep ==
  ASSUME Inv, OutcomeMatchesLog, [Next]_vars
  PROVE  OutcomeMatchesLog'
<1>1. CASE UNCHANGED <<rows, actionLog>>
  BY <1>1 DEF OutcomeMatchesLog, Used
<1>2. ASSUME NEW s \in Scanners, NEW r \in Ids, StageInsert(s, r)
      PROVE  OutcomeMatchesLog'
  BY <1>2, InsertWrites DEF OutcomeMatchesLog
<1>3. ASSUME NEW u \in Users, CancelCommit(u)
      PROVE  OutcomeMatchesLog'
  BY <1>3, CancelWrites DEF OutcomeMatchesLog
<1>4. ASSUME NEW r \in Ids, BeginOne(r)
      PROVE  OutcomeMatchesLog'
  BY <1>4, BeginWrites DEF OutcomeMatchesLog
<1>5. CASE RecordOutcome
  <2> DEFINE overall == Overall(exec.seerr, exec.arr)
             entry == [seerr |-> exec.seerr, arr |-> exec.arr, overall |-> overall]
  <2>1. /\ exec.cur \in Used /\ Used' = Used
        /\ rows'[exec.cur].status = FinalStatus(overall)
        /\ actionLog'[exec.cur] = Append(<<>>, entry)
        /\ \A q \in Ids : q # exec.cur =>
             rows'[q] = rows[q] /\ actionLog'[q] = actionLog[q]
    BY <1>5, RecordWrites
  <2>2. entry.overall = overall
    OBVIOUS
  <2> HIDE DEF entry, overall
  <2>3. Len(Append(<<>>, entry)) = 1 /\ Append(<<>>, entry)[1] = entry
    OBVIOUS
  <2>4. (FinalStatus(overall) = "failed") = (overall = "failed")
    BY DEF FinalStatus
  <2>5. /\ Len(actionLog'[exec.cur]) = 1
        /\ (rows'[exec.cur].status = "failed") = (actionLog'[exec.cur][1].overall = "failed")
    BY <2>1, <2>2, <2>3, <2>4
  <2>6. ASSUME NEW q \in Used, q # exec.cur,
               rows'[q].status \in {"completed", "failed"}
        PROVE  /\ Len(actionLog'[q]) = 1
               /\ (rows'[q].status = "failed") = (actionLog'[q][1].overall = "failed")
    <3>1. rows'[q] = rows[q] /\ actionLog'[q] = actionLog[q]
      BY <2>1, <2>6 DEF Used
    <3> QED
      BY <2>6, <3>1 DEF OutcomeMatchesLog
  <2> QED
    BY <2>1, <2>5, <2>6, Zenon DEF OutcomeMatchesLog
<1> QED
  BY <1>1, <1>2, <1>3, <1>4, <1>5, TableSteps

\* A settled row has exactly one log row, and the two agree.
THEOREM SettledIsLogged == Spec => []OutcomeMatchesLog
<1>1. Init => OutcomeMatchesLog
  BY DEF Init, OutcomeMatchesLog, Used, NoPending
<1>2. Inv /\ OutcomeMatchesLog /\ [Next]_vars => OutcomeMatchesLog'
  BY OutcomeStep
<1> QED
  BY <1>1, <1>2, Invariant, PTL DEF Spec

----------------------------------------------------------------------------
(* What is reported as removed is gone.                                    *)

\* What an attempt has achieved so far is so while it lasts: nothing comes to
\* disk that the listing does not have.
CallsAreReal ==
  /\ exec.pc \in {"arr", "list", "files", "record"} /\ exec.seerr = "success" =>
       RequestOf[Medium] \notin requests
  /\ exec.pc \in {"list", "files"} /\ Medium \notin Unnumbered => Medium \notin tracked
  /\ exec.pc = "files" /\ Medium \notin Unnumbered => files[Medium] \subseteq exec.listed
  /\ exec.pc = "record" /\ exec.arr = "success" /\ Medium \notin Unnumbered =>
       files[Medium] = {} /\ Medium \notin tracked

\* Services lose requests and media and regain none; without monitoring no file
\* comes back.
LEMMA ServicesLose ==
  ASSUME Inv, [Next]_vars
  PROVE  /\ requests' \subseteq requests /\ tracked' \subseteq tracked
         /\ \A m \in Media : m \notin tracked => files'[m] \subseteq files[m]
<1> USE DEF external
<1>0. TypeOK /\ files \in [Media -> SUBSET Files]
  BY DEF Inv, TypeOK
<1>1. CASE UNCHANGED vars
  BY <1>1 DEF vars
<1>2. CASE Environment
  <2>1. ASSUME NEW m \in Media, NEW f \in Files, Import(m, f)
        PROVE  /\ UNCHANGED <<requests, tracked>>
               /\ \A n \in Media : n \notin tracked => files'[n] = files[n]
    BY <1>0, <2>1 DEF Import
  <2> QED
    BY <1>2, <2>1 DEF Environment, Tick, UpdateSettings, ToggleIntegration
<1>3. ASSUME NEW s \in Scanners, ScanStep(s)
      PROVE  UNCHANGED external
  BY <1>3 DEF ScanStep, ScanStart, StageDuplicate, StageLookup, StageAmbiguous,
              StageInsert, ScanEnd
<1>4. ASSUME NEW u \in Users, CancelStep(u)
      PROVE  UNCHANGED external
  BY <1>4 DEF CancelStep, CancelRead, CancelCommit
<1>5. CASE CallStep
  <2>1. CASE SeerrSkipped \/ SeerrDeleted \/ SeerrFailed
    BY <2>1 DEF SeerrSkipped, SeerrDeleted, SeerrFailed, SeerrIs
  <2>2. CASE ArrSkipped \/ ArrDeleted \/ ArrFailed
    BY <1>0, <2>2 DEF ArrSkipped, ArrDeleted, ArrFailed, ArrIs, RemoveMedium
  <2>3. CASE \/ SeasonUnmonitored \/ SeasonUnmonitorFailed
             \/ SeasonListed \/ SeasonListFailed \/ SeasonDone
    BY <2>3 DEF SeasonUnmonitored, SeasonUnmonitorFailed, SeasonListed,
                SeasonListFailed, SeasonDone, ArrIs, Unmonitored
  <2>4. ASSUME NEW f \in Files, SeasonFileDeleted(f) \/ SeasonFilesFailed(f)
        PROVE  /\ UNCHANGED <<requests, tracked>>
               /\ \A m \in Media : files'[m] \subseteq files[m]
    <3>1. files' \in {files, [files EXCEPT ![Medium] = @ \ {f}]}
          /\ UNCHANGED <<requests, tracked>>
      BY <2>4 DEF SeasonFileDeleted, SeasonFilesFailed, ArrIs
    <3> QED
      BY <1>0, <3>1
  <2> QED
    BY <1>5, <2>1, <2>2, <2>3, <2>4 DEF CallStep
<1>6. CASE ExecutorStep
  BY <1>5, <1>6 DEF ExecutorStep, ExecuteDue, BeginOne, RecordOutcome, NotifyExecuted
<1>7. CASE Fault
  BY <1>7 DEF Fault, ExecutorRaises, ScanRaises, Restart
<1> QED
  BY <1>1, <1>2, <1>3, <1>4, <1>6, <1>7 DEF Next

\* A row is of one medium for ever.
LEMMA KeysStay ==
  ASSUME Inv, [Next]_vars, NEW r \in Used
  PROVE  r \in Used' /\ rows'[r].key = rows[r].key
<1>1. CASE UNCHANGED <<rows, actionLog>>
  BY <1>1 DEF Used
<1>2. ASSUME NEW s \in Scanners, NEW q \in Ids, StageInsert(s, q)
      PROVE  r \in Used' /\ rows'[r].key = rows[r].key
  BY <1>2, InsertWrites
<1>3. ASSUME NEW u \in Users, CancelCommit(u)
      PROVE  r \in Used' /\ rows'[r].key = rows[r].key
  BY <1>3, CancelWrites
<1>4. ASSUME NEW q \in Ids, BeginOne(q)
      PROVE  r \in Used' /\ rows'[r].key = rows[r].key
  BY <1>4, BeginWrites
<1>5. CASE RecordOutcome
  BY <1>5, RecordWrites
<1> QED
  BY <1>1, <1>2, <1>3, <1>4, <1>5, TableSteps

\* The executor outside its calls.
LEMMA ExecutorOutside ==
  ASSUME Inv, [Next]_vars
  PROVE  \/ exec' = exec \/ CallStep
         \/ exec'.pc \notin {"arr", "list", "files", "record"}
<1> USE DEF Idle
<1>1. CASE UNCHANGED vars
  BY <1>1 DEF vars
<1>2. CASE Environment
  BY <1>2 DEF Environment, Tick, UpdateSettings, ToggleIntegration, Import
<1>3. ASSUME NEW s \in Scanners, ScanStep(s)
      PROVE  exec' = exec
  BY <1>3 DEF ScanStep, ScanStart, StageDuplicate, StageLookup, StageAmbiguous,
              StageInsert, ScanEnd
<1>4. ASSUME NEW u \in Users, CancelStep(u)
      PROVE  exec' = exec
  BY <1>4 DEF CancelStep, CancelRead, CancelCommit
<1>5. CASE ExecutorStep
  <2>1. exec \in ExecutorState
    BY DEF Inv, TypeOK
  <2>2. CASE ExecuteDue
    BY <2>2 DEF ExecuteDue
  <2>3. ASSUME NEW r \in Ids, BeginOne(r)
        PROVE  exec'.pc = "seerr"
    BY <2>3 DEF BeginOne
  <2>4. CASE RecordOutcome
    BY <2>1, <2>4 DEF RecordOutcome, ExecutorState
  <2>5. CASE NotifyExecuted
    BY <2>5 DEF NotifyExecuted
  <2> QED
    BY <1>5, <2>2, <2>3, <2>4, <2>5 DEF ExecutorStep
<1>6. CASE Fault
  BY <1>6 DEF Fault, ExecutorRaises, ScanRaises, Restart
<1> QED
  BY <1>1, <1>2, <1>3, <1>4, <1>5, <1>6 DEF Next

LEMMA CallsRealStep ==
  ASSUME Inv, CallsAreReal, [Next]_vars
  PROVE  CallsAreReal'
<1>0. /\ TypeOK /\ exec \in ExecutorState /\ files \in [Media -> SUBSET Files]
      /\ requests' \subseteq requests /\ tracked' \subseteq tracked
      /\ \A m \in Media : m \notin tracked => files'[m] \subseteq files[m]
  BY ServicesLose DEF Inv, TypeOK
<1>1. exec.pc \notin {"idle", "begin"} =>
        /\ exec.cur \in Used /\ Medium \in Media
        /\ rows'[exec.cur].key = Medium
  BY <1>0, KeysStay, UsedRow DEF TypeOK, Medium, PendingDeletion
<1>2. CASE exec' = exec
  <2>1. exec.pc \notin {"idle", "begin"} => Medium' = Medium
    BY <1>1, <1>2 DEF Medium
  <2> QED
    BY <1>0, <1>1, <1>2, <2>1 DEF CallsAreReal
<1>3. CASE exec'.pc \notin {"arr", "list", "files", "record"}
  BY <1>3 DEF CallsAreReal
<1>4. CASE CallStep
  <2>0. /\ exec.pc \in {"seerr", "arr", "list", "files"} /\ exec'.cur = exec.cur
    BY <1>0, <1>4, CallStepShape
  <2>1. Medium' = Medium /\ Medium \in Media
    BY <1>1, <2>0 DEF Medium
  <2>2. CASE SeerrSkipped \/ SeerrDeleted \/ SeerrFailed
    <3>1. exec'.pc = "arr" /\ (exec'.seerr = "success" => SeerrDeleted)
      BY <1>0, <2>2 DEF SeerrSkipped, SeerrDeleted, SeerrFailed, SeerrIs, ExecutorState
    <3> QED
      BY <2>1, <3>1 DEF CallsAreReal, SeerrDeleted
  <2>3. CASE ArrSkipped \/ ArrDeleted \/ ArrFailed
    <3>1. /\ exec.pc = "arr" /\ exec'.pc = "record" /\ exec'.seerr = exec.seerr
          /\ exec'.arr = "success" => ArrDeleted
      BY <1>0, <2>3 DEF ArrSkipped, ArrDeleted, ArrFailed, ArrIs, ArrWanted, ExecutorState
    <3>2. ArrDeleted => files'[Medium] = {} /\ Medium \notin tracked'
      BY <1>0, <2>1 DEF ArrDeleted, RemoveMedium
    <3> QED
      BY <1>0, <2>1, <3>1, <3>2 DEF CallsAreReal
  <2>4. CASE SeasonUnmonitored
    <3>1. /\ exec.pc = "arr" /\ exec'.pc = "list" /\ exec'.seerr = exec.seerr
          /\ Medium \notin Unnumbered => Medium \notin tracked'
      BY <1>0, <2>4 DEF SeasonUnmonitored, ArrWanted, Unmonitored, ExecutorState
    <3> QED
      BY <1>0, <2>1, <3>1 DEF CallsAreReal
  <2>5. ASSUME NEW f \in Files,
               SeasonFileDeleted(f) \/ SeasonFilesFailed(f)
        PROVE  CallsAreReal'
    <3>1. CASE SeasonFileDeleted(f)
      <4>1. /\ exec.pc = "files" /\ exec'.pc = "files" /\ exec'.seerr = exec.seerr
            /\ exec'.listed = exec.listed \ {f}
            /\ files'[Medium] = files[Medium] \ {f}
        BY <1>0, <2>1, <3>1 DEF SeasonFileDeleted, ExecutorState
      <4> QED
        BY <1>0, <2>1, <4>1 DEF CallsAreReal
    <3>2. CASE SeasonFilesFailed(f)
      <4>1. /\ exec.pc = "files" /\ exec'.seerr = exec.seerr
            /\ exec'.pc = "record" /\ exec'.arr = "failed"
        BY <1>0, <3>2 DEF SeasonFilesFailed, ArrIs, ExecutorState
      <4> QED
        BY <1>0, <2>1, <4>1 DEF CallsAreReal
    <3> QED
      BY <2>5, <3>1, <3>2
  <2>6. CASE SeasonUnmonitorFailed
    <3>1. /\ exec.pc = "arr" /\ exec'.seerr = exec.seerr
          /\ exec'.pc = "record" /\ exec'.arr = "failed"
      BY <1>0, <2>6 DEF SeasonUnmonitorFailed, ArrIs, ArrWanted, ExecutorState
    <3> QED
      BY <1>0, <2>1, <3>1 DEF CallsAreReal
  <2>7. CASE SeasonDone
    <3>1. /\ exec.pc = "files" /\ exec.listed = {} /\ files' = files
          /\ exec'.pc = "record" /\ exec'.seerr = exec.seerr
      BY <1>0, <2>7 DEF SeasonDone, ArrIs, ExecutorState
    <3> QED
      BY <1>0, <2>1, <3>1 DEF CallsAreReal
  <2>8. CASE SeasonListed
    <3>1. /\ exec.pc = "list" /\ exec'.pc = "files" /\ exec'.seerr = exec.seerr
          /\ Medium \notin Unnumbered => exec'.listed = files[Medium]
          /\ UNCHANGED <<files, requests, tracked>>
      BY <1>0, <2>8 DEF SeasonListed, external, ExecutorState
    <3> QED
      BY <2>1, <3>1 DEF CallsAreReal
  <2>9. CASE SeasonListFailed
    <3>1. /\ exec.pc = "list" /\ exec'.seerr = exec.seerr
          /\ exec'.pc = "record" /\ exec'.arr = "failed"
      BY <1>0, <2>9 DEF SeasonListFailed, ArrIs, ExecutorState
    <3> QED
      BY <1>0, <2>1, <3>1 DEF CallsAreReal
  <2> QED
    BY <1>4, <2>2, <2>3, <2>4, <2>5, <2>6, <2>7, <2>8, <2>9 DEF CallStep
<1> QED
  BY <1>2, <1>3, <1>4, ExecutorOutside

LEMMA SuccessStep ==
  ASSUME Inv, CallsAreReal, SuccessIsReal, [Next]_vars
  PROVE  SuccessIsReal'
<1> DEFINE Real(r, entry) ==
             /\ entry.arr = "success" /\ rows[r].key \notin Unnumbered =>
                  files[rows[r].key] = {} /\ rows[r].key \notin tracked
             /\ entry.seerr = "success" => RequestOf[rows[r].key] \notin requests
           RealNext(r, entry) ==
             /\ entry.arr = "success" /\ rows'[r].key \notin Unnumbered =>
                  files'[rows'[r].key] = {} /\ rows'[r].key \notin tracked'
             /\ entry.seerr = "success" => RequestOf[rows'[r].key] \notin requests'
<1>1. ASSUME NEW r \in Used, NEW entry, Real(r, entry)
      PROVE  RealNext(r, entry)
  <2>1. rows[r].key \in Media /\ rows'[r].key = rows[r].key
    BY KeysStay, UsedRow DEF Inv, PendingDeletion
  <2> QED
    BY <1>1, <2>1, ServicesLose
<1>2. \A r \in Used : \A i : i \in DOMAIN actionLog[r] => Real(r, actionLog[r][i])
  BY DEF SuccessIsReal
<1>3. ASSUME NEW r \in Used, NEW i \in DOMAIN actionLog'[r], actionLog'[r] = actionLog[r]
      PROVE  RealNext(r, actionLog'[r][i])
  BY <1>1, <1>2, <1>3
<1>4. CASE Used' = Used /\ UNCHANGED actionLog
  BY <1>3, <1>4 DEF SuccessIsReal
<1>5. ASSUME NEW s \in Scanners, NEW q \in Ids, StageInsert(s, q)
      PROVE  SuccessIsReal'
  <2>1. Used' = Used \cup {q} /\ UNCHANGED actionLog /\ DOMAIN actionLog'[q] = {}
    BY <1>5, InsertWrites
  <2> QED
    BY <1>3, <2>1 DEF SuccessIsReal
<1>6. CASE RecordOutcome
  <2> DEFINE entry == [seerr |-> exec.seerr, arr |-> exec.arr,
                       overall |-> Overall(exec.seerr, exec.arr)]
  <2>1. /\ exec.cur \in Used /\ Used' = Used
        /\ actionLog'[exec.cur] = Append(<<>>, entry)
        /\ \A q \in Ids : q # exec.cur => actionLog'[q] = actionLog[q]
    BY <1>6, RecordWrites
  <2>2. Real(exec.cur, entry)
    BY <1>6 DEF RecordOutcome, CallsAreReal, Medium
  <2>3. RealNext(exec.cur, entry)
    BY <1>1, <2>1, <2>2
  <2> HIDE DEF entry
  <2>4. DOMAIN Append(<<>>, entry) = {1} /\ Append(<<>>, entry)[1] = entry
    OBVIOUS
  <2>5. \A r \in Used : \A i : i \in DOMAIN actionLog'[r] => RealNext(r, actionLog'[r][i])
    <3>1. \A i : i \in DOMAIN actionLog'[exec.cur] => RealNext(exec.cur, actionLog'[exec.cur][i])
      BY <2>1, <2>3, <2>4
    <3>2. ASSUME NEW r \in Used, r # exec.cur
          PROVE  \A i : i \in DOMAIN actionLog'[r] => RealNext(r, actionLog'[r][i])
      BY <1>3, <2>1, <3>2 DEF Used
    <3> QED
      BY <3>1, <3>2
  <2> QED
    BY <2>1, <2>5 DEF SuccessIsReal
<1>7. CASE UNCHANGED <<rows, actionLog>>
  BY <1>4, <1>7 DEF Used
<1>8. ASSUME NEW u \in Users, CancelCommit(u)
      PROVE  SuccessIsReal'
  BY <1>4, <1>8, CancelWrites
<1>9. ASSUME NEW q \in Ids, BeginOne(q)
      PROVE  SuccessIsReal'
  BY <1>4, <1>9, BeginWrites
<1> QED
  BY <1>5, <1>6, <1>7, <1>8, <1>9, TableSteps

\* What the log reports as removed, from Seerr or from Radarr or Sonarr, is gone
\* for good, unless it is a season without a number.
THEOREM RemovedIsGone == Spec => []SuccessIsReal
<1>1. Init => CallsAreReal /\ SuccessIsReal
  BY DEF Init, CallsAreReal, SuccessIsReal, Idle, Used, NoPending
<1>2. Inv /\ CallsAreReal /\ SuccessIsReal /\ [Next]_vars => (CallsAreReal /\ SuccessIsReal)'
  BY CallsRealStep, SuccessStep
<1> QED
  BY <1>1, <1>2, Invariant, PTL DEF Spec

----------------------------------------------------------------------------
(* Cancelling beside the executor.                                         *)

\* No cancel request writes a row while the executor holds it.
CancelsNoneHeld == \A u \in Users : CancelCommit(u) => cancelling[u] \notin Held

\* Then the executor holds no cancelled row.
NoneHeldCancelled == \A r \in Used \cap Held : rows[r].status # "cancelled"

\* The executor takes rows into its hand only when it selects the due ones.
LEMMA HeldGrows ==
  ASSUME Inv, [Next]_vars
  PROVE  \/ Held' \cap Ids \subseteq Held
         \/ rows' = rows /\ Held' \cap Ids \subseteq DueRows
<1> USE QueueAssumption DEF Idle, Held
<1>0. TypeOK /\ exec \in ExecutorState
  BY DEF Inv, TypeOK
<1>1. CASE UNCHANGED vars
  BY <1>1 DEF vars
<1>2. CASE Environment
  BY <1>2 DEF Environment, Tick, UpdateSettings, ToggleIntegration, Import
<1>3. ASSUME NEW s \in Scanners, ScanStep(s)
      PROVE  exec' = exec
  BY <1>3 DEF ScanStep, ScanStart, StageDuplicate, StageLookup, StageAmbiguous,
              StageInsert, ScanEnd
<1>4. ASSUME NEW u \in Users, CancelStep(u)
      PROVE  exec' = exec
  BY <1>4 DEF CancelStep, CancelRead, CancelCommit
<1>5. CASE ExecutorStep
  <2>1. CASE ExecuteDue
    BY <2>1 DEF ExecuteDue, db
  <2>2. ASSUME NEW r \in Ids, BeginOne(r)
        PROVE  Held' \subseteq Held
    BY <2>2 DEF BeginOne
  <2>3. CASE CallStep
    BY <1>0, <2>3, CallStepShape
  <2>4. CASE RecordOutcome
    BY <1>0, <2>4 DEF RecordOutcome, ExecutorState
  <2>5. CASE NotifyExecuted
    BY <2>5 DEF NotifyExecuted
  <2> QED
    BY <1>5, <2>1, <2>2, <2>3, <2>4, <2>5 DEF ExecutorStep
<1>6. CASE Fault
  BY <1>6 DEF Fault, ExecutorRaises, ScanRaises, Restart
<1> QED
  BY <1>1, <1>2, <1>3, <1>4, <1>5, <1>6 DEF Next

LEMMA HeldStep ==
  ASSUME Inv, NoneHeldCancelled, [Next]_vars, [CancelsNoneHeld]_vars
  PROVE  NoneHeldCancelled'
<1>1. CASE rows' = rows /\ Held' \cap Ids \subseteq DueRows
  BY <1>1 DEF NoneHeldCancelled, DueRows, Used
<1>2. ASSUME Held' \cap Ids \subseteq Held, NEW r \in Used' \cap Held'
      PROVE  rows'[r].status # "cancelled"
  <2>0. r \in Ids /\ r \in Held
    BY <1>2 DEF Used
  <2>1. CASE UNCHANGED <<rows, actionLog>>
    BY <2>0, <2>1 DEF NoneHeldCancelled, Used
  <2>2. ASSUME NEW s \in Scanners, NEW q \in Ids, StageInsert(s, q)
        PROVE  rows'[r].status # "cancelled"
    BY <1>2, <2>0, <2>2, InsertWrites DEF NoneHeldCancelled
  <2>3. ASSUME NEW u \in Users, CancelCommit(u)
        PROVE  rows'[r].status # "cancelled"
    <3>1. /\ cancelling[u] \in Used /\ Used' = Used
          /\ rows'[cancelling[u]].status = "cancelled"
          /\ \A q \in Used : q # cancelling[u] => rows'[q] = rows[q]
      BY <2>3, CancelWrites
    <3>2. CASE UNCHANGED vars
      BY <2>0, <3>1, <3>2 DEF vars, NoneHeldCancelled, Used
    <3>3. CASE CancelsNoneHeld
      BY <1>2, <2>0, <2>3, <3>1, <3>3 DEF CancelsNoneHeld, NoneHeldCancelled
    <3> QED
      BY <3>2, <3>3
  <2>4. ASSUME NEW q \in Ids, BeginOne(q)
        PROVE  rows'[r].status # "cancelled"
    BY <1>2, <2>0, <2>4, BeginWrites DEF NoneHeldCancelled
  <2>5. CASE RecordOutcome
    <3>1. FinalStatus(Overall(exec.seerr, exec.arr)) # "cancelled"
      BY DEF FinalStatus
    <3> QED
      BY <1>2, <2>0, <2>5, <3>1, RecordWrites DEF NoneHeldCancelled
  <2> QED
    BY <2>1, <2>2, <2>3, <2>4, <2>5, TableSteps
<1> QED
  BY <1>1, <1>2, HeldGrows DEF NoneHeldCancelled

\* No cancelled row is begun.
CancelledNotBegun ==
  [][\A r \in Used : rows[r].status = "cancelled" => begun'[r] = begun[r]]_vars

LEMMA CancelledNotBegunStep ==
  ASSUME Inv, NoneHeldCancelled, [Next]_vars,
         NEW r \in Used, rows[r].status = "cancelled"
  PROVE  begun'[r] = begun[r]
<1>1. \/ begun' = begun
      \/ \E q \in Ids : BeginOne(q)
  <2>1. CASE ExecutorStep
    <3>1. CallStep => begun' = begun
      BY CallStepShape DEF Inv
    <3> QED
      BY <2>1, <3>1 DEF ExecutorStep, ExecuteDue, RecordOutcome, NotifyExecuted
  <2>2. ASSUME NEW s \in Scanners, ScanStep(s) PROVE begun' = begun
    BY <2>2 DEF ScanStep, ScanStart, StageDuplicate, StageLookup, StageAmbiguous,
                StageInsert, ScanEnd
  <2>3. ASSUME NEW u \in Users, CancelStep(u) PROVE begun' = begun
    BY <2>3 DEF CancelStep, CancelRead, CancelCommit
  <2> QED
    BY <2>1, <2>2, <2>3 DEF Next, Environment, Tick, UpdateSettings,
       ToggleIntegration, Import, Fault, ExecutorRaises, ScanRaises, Restart, vars
<1>2. ASSUME NEW q \in Ids, BeginOne(q) PROVE begun'[r] = begun[r]
  <2>1. q # r
    BY <1>2 DEF BeginOne, NoneHeldCancelled, Held
  <2> QED
    BY <1>2, <2>1 DEF BeginOne, Inv, TypeOK
<1> QED
  BY <1>1, <1>2

\* With no cancellation made while a tick has the row loaded, a cancelled row
\* stays cancelled and is not begun any more.  It may have been begun before: a
\* cancel request that read the row as pending and commits after the attempt
\* writes "cancelled" over its outcome.
THEOREM CancelFinalOutsideTicks ==
  Spec /\ [][CancelsNoneHeld]_vars => CancelIsFinal /\ CancelledNotBegun
<1>1. Init => NoneHeldCancelled
  BY DEF Init, NoneHeldCancelled, Used, NoPending
<1>2. Inv /\ NoneHeldCancelled /\ [Next]_vars /\ [CancelsNoneHeld]_vars => NoneHeldCancelled'
  BY HeldStep
<1>3. Inv /\ NoneHeldCancelled /\ [Next]_vars =>
        [\A r \in Used : rows[r].status = "cancelled" => rows'[r].status = "cancelled"]_vars
  BY CancelledUntouched DEF NoneHeldCancelled
<1>4. Inv /\ NoneHeldCancelled /\ [Next]_vars =>
        [\A r \in Used : rows[r].status = "cancelled" => begun'[r] = begun[r]]_vars
  BY CancelledNotBegunStep
<1> QED
  BY <1>1, <1>2, <1>3, <1>4, Invariant, PTL DEF Spec, CancelIsFinal, CancelledNotBegun

----------------------------------------------------------------------------
(* One scan at a time: no medium is staged twice.                          *)

\* At most one scan is under way.
OneScan == \A s, t \in Scanners : scan[s].pc # "idle" /\ scan[t].pc # "idle" => s = t

\* The executor holds nothing cancelled, and what a scan has looked up and not
\* found has no active row until the scan inserts it.
OneScanInv ==
  /\ NoDuplicateActive
  /\ NoneHeldCancelled
  /\ \A s \in Scanners : scan[s].pc = "insert" =>
       \A m \in scan[s].absent : ActiveRows(m) = {}

\* A look-up that finds nothing is what brings a scan to an insert.
LEMMA ScanSteps ==
  ASSUME Inv, [Next]_vars, NEW s \in Scanners, scan'[s].pc = "insert"
  PROVE  \/ scan'[s] = scan[s]
         \/ /\ rows' = rows
            /\ \A m \in scan'[s].absent : ActiveRows(m) = {}
<1>0. TypeOK /\ scan \in [Scanners -> ScanState]
  BY DEF Inv, TypeOK
<1> USE DEF NoScan
<1>1. CASE UNCHANGED vars
  BY <1>1 DEF vars
<1>2. CASE Environment
  BY <1>2 DEF Environment, Tick, UpdateSettings, ToggleIntegration, Import
<1>3. ASSUME NEW t \in Scanners, ScanStep(t)
      PROVE  \/ scan'[s] = scan[s]
             \/ /\ rows' = rows
                /\ \A m \in scan'[s].absent : ActiveRows(m) = {}
  <2>1. CASE s # t
    BY <1>0, <1>3, <2>1
    DEF ScanStep, ScanStart, StageDuplicate, StageLookup, StageAmbiguous, StageInsert, ScanEnd
  <2>2. ASSUME s = t, NEW m \in Media, StageLookup(t, m)
        PROVE  rows' = rows /\ \A n \in scan'[s].absent : ActiveRows(n) = {}
    <3>1. scan'[s].absent = {m}
      BY <1>0, <2>2 DEF StageLookup, ScanState
    <3> QED
      BY <2>2, <3>1 DEF StageLookup, db
  <2>3. ASSUME s = t, NEW m \in Media, StageDuplicate(t, m)
        PROVE  scan'[s].pc = "lookup"
    BY <1>0, <2>3 DEF StageDuplicate, ScanState
  <2>4. ASSUME s = t, NEW r \in Ids, StageInsert(t, r)
        PROVE  scan'[s].pc = "lookup"
    BY <1>0, <2>4 DEF StageInsert, ScanState
  <2>5. ASSUME s = t, NEW m \in Media, StageAmbiguous(t, m)
        PROVE  scan'[s].pc # "insert"
    BY <1>0, <2>5 DEF StageAmbiguous
  <2>6. ASSUME s = t, ScanStart(t) \/ ScanEnd(t)
        PROVE  scan'[s].pc # "insert"
    BY <1>0, <2>6 DEF ScanStart, ScanEnd
  <2> QED
    BY <1>3, <2>1, <2>2, <2>3, <2>4, <2>5, <2>6 DEF ScanStep
<1>4. ASSUME NEW u \in Users, CancelStep(u)
      PROVE  scan'[s] = scan[s]
  BY <1>4 DEF CancelStep, CancelRead, CancelCommit
<1>5. CASE ExecutorStep
  BY <1>0, <1>5, CallStepShape DEF ExecutorStep, ExecuteDue, BeginOne, RecordOutcome, NotifyExecuted
<1>6. CASE Fault
  BY <1>0, <1>6 DEF Fault, ExecutorRaises, ScanRaises, Restart
<1> QED
  BY <1>1, <1>2, <1>3, <1>4, <1>5, <1>6 DEF Next

\* A step that makes no row active keeps the invariant.
LEMMA NoneActivated ==
  ASSUME Inv, OneScanInv, NoneHeldCancelled', [Next]_vars, Used' = Used,
         \A r \in Used : /\ rows'[r].key = rows[r].key
                         /\ rows'[r].status \in ActiveStatuses => rows[r].status \in ActiveStatuses
  PROVE  OneScanInv'
<1>1. \A m : ActiveRows(m)' \subseteq ActiveRows(m)
  BY DEF ActiveRows, ActiveStatuses
<1>2. NoDuplicateActive'
  BY DEF OneScanInv, NoDuplicateActive, ActiveStatuses
<1>3. ASSUME NEW s \in Scanners, scan'[s].pc = "insert", NEW m \in scan'[s].absent
      PROVE  ActiveRows(m)' = {}
  BY <1>1, <1>3, ScanSteps DEF OneScanInv
<1> QED
  BY <1>2, <1>3 DEF OneScanInv

LEMMA OneScanStep ==
  ASSUME Inv, OneScanInv, [Next]_vars, OneScan, [CancelsNoneHeld]_vars
  PROVE  OneScanInv'
<1>0. NoneHeldCancelled'
  BY HeldStep DEF OneScanInv
<1>1. CASE UNCHANGED <<rows, actionLog>>
  <2>1. Used' = Used
    BY <1>1 DEF Used
  <2> QED
    BY <1>0, <1>1, <2>1, NoneActivated
<1>2. ASSUME NEW s \in Scanners, NEW r \in Ids, StageInsert(s, r)
      PROVE  OneScanInv'
  <2>1. /\ r \notin Used /\ Used' = Used \cup {r}
        /\ rows'[r].status = "pending" /\ rows'[r].key \in scan[s].absent
        /\ \A q \in Used : rows'[q] = rows[q]
    BY <1>2, InsertWrites
  <2>2. ActiveRows(rows'[r].key) = {}
    BY <1>2, <2>1 DEF OneScanInv, StageInsert
  <2>3. \A q \in Used : rows[q].key = rows'[r].key => rows[q].status \notin {"pending", "executing"}
    BY <2>2 DEF ActiveRows, ActiveStatuses
  <2>4. NoDuplicateActive'
    BY <2>1, <2>3 DEF OneScanInv, NoDuplicateActive
  <2>5. \A t \in Scanners : scan'[t].pc # "insert"
    BY <1>2 DEF OneScan, StageInsert, Inv, TypeOK, ScanState
  <2> QED
    BY <1>0, <2>4, <2>5 DEF OneScanInv
<1>3. ASSUME NEW u \in Users, CancelCommit(u)
      PROVE  OneScanInv'
  BY <1>0, <1>3, CancelWrites, NoneActivated DEF ActiveStatuses
<1>4. ASSUME NEW r \in Ids, BeginOne(r)
      PROVE  OneScanInv'
  <2>1. rows[r].status \in ActiveStatuses
    BY <1>4, BeginWrites DEF BeginOne, Held, OneScanInv, NoneHeldCancelled, ActiveStatuses
  <2> QED
    BY <1>0, <1>4, <2>1, BeginWrites, NoneActivated
<1>5. CASE RecordOutcome
  <2>1. \A o : FinalStatus(o) \in {"completed", "failed"}
    BY DEF FinalStatus
  <2> QED
    BY <1>0, <1>5, <2>1, RecordWrites, NoneActivated DEF ActiveStatuses, Used
<1> QED
  BY <1>1, <1>2, <1>3, <1>4, <1>5, TableSteps

\* Two things can stage a medium twice, overlapping scans and cancelling a row
\* that a tick has loaded.  Without them it has at most one active row.
THEOREM StagedOnce ==
  Spec /\ []OneScan /\ [][CancelsNoneHeld]_vars => []NoDuplicateActive
<1>1. Init => OneScanInv
  BY DEF Init, OneScanInv, NoDuplicateActive, NoneHeldCancelled, Used, NoPending, NoScan
<1>2. Inv /\ OneScanInv /\ [Next]_vars /\ OneScan /\ [CancelsNoneHeld]_vars => OneScanInv'
  BY OneScanStep
<1>3. OneScanInv => NoDuplicateActive
  BY DEF OneScanInv
<1> QED
  BY <1>1, <1>2, <1>3, Invariant, PTL DEF Spec

----------------------------------------------------------------------------
(* Attempts that no fault meets are logged.                                *)

\* Between the two commits of an attempt.
Attempting == exec.pc \in {"seerr", "arr", "list", "files", "record"}

\* No exception and no restart ends an attempt.
AttemptsEnd == Attempting => exec'.pc # "idle"

\* Every row begun is logged, the one in hand excepted.
LoggedSoFar ==
  \A r \in Ids : begun[r] = Len(actionLog[r]) \/ (Attempting /\ r = exec.cur)

LEMMA LoggedStep ==
  ASSUME Inv, LoggedSoFar, [Next]_vars, [AttemptsEnd]_vars
  PROVE  LoggedSoFar'
<1> USE DEF db, settings, external
<1>0. TypeOK /\ exec \in ExecutorState
  BY DEF Inv, TypeOK
<1>q. ASSUME UNCHANGED <<actionLog, begun>>, Attempting => Attempting' /\ exec'.cur = exec.cur
      PROVE  LoggedSoFar'
  BY <1>q DEF LoggedSoFar
<1>u. ASSUME UNCHANGED <<actionLog, begun, exec>>
      PROVE  LoggedSoFar'
  BY <1>u, <1>q DEF Attempting
<1>1. CASE UNCHANGED vars
  BY <1>1, <1>u DEF vars
<1>2. CASE Environment
  BY <1>2, <1>u DEF Environment, Tick, UpdateSettings, ToggleIntegration, Import
<1>3. ASSUME NEW s \in Scanners, ScanStep(s)
      PROVE  LoggedSoFar'
  BY <1>3, <1>u DEF ScanStep, ScanStart, StageDuplicate, StageLookup, StageAmbiguous,
                    StageInsert, ScanEnd
<1>4. ASSUME NEW u \in Users, CancelStep(u)
      PROVE  LoggedSoFar'
  BY <1>4, <1>u DEF CancelStep, CancelRead, CancelCommit
<1>5. CASE ExecuteDue \/ NotifyExecuted
  BY <1>5, <1>q DEF ExecuteDue, NotifyExecuted, Attempting
<1>6. ASSUME NEW r \in Ids, BeginOne(r)
      PROVE  LoggedSoFar'
  BY <1>0, <1>6 DEF BeginOne, LoggedSoFar, Attempting, Idle, TypeOK
<1>7. CASE CallStep
  BY <1>0, <1>7, <1>q, CallStepShape DEF Attempting
<1>8. CASE RecordOutcome
  <2>1. exec.cur \in Used /\ begun[exec.cur] = 1 /\ UNCHANGED begun
    BY <1>0, <1>8 DEF RecordOutcome, TypeOK, Inv, CurrentBegun
  <2> DEFINE entry == [seerr |-> exec.seerr, arr |-> exec.arr,
                       overall |-> Overall(exec.seerr, exec.arr)]
  <2>4. actionLog'[exec.cur] = Append(<<>>, entry)
    BY <1>8, RecordWrites
  <2> HIDE DEF entry
  <2>2. Len(actionLog'[exec.cur]) = 1
    BY <2>4
  <2>3. \A q \in Ids : q # exec.cur => actionLog'[q] = actionLog[q]
    BY <1>8, RecordWrites
  <2> QED
    BY <2>1, <2>2, <2>3 DEF LoggedSoFar, Used
<1>9. CASE Fault
  <2>1. UNCHANGED <<actionLog, begun>> /\ (exec' = exec \/ exec' = Idle)
    BY <1>9 DEF Fault, ExecutorRaises, ScanRaises, Restart
  <2>2. CASE exec' = Idle /\ exec # Idle
    <3>1. ~Attempting
      BY <2>2 DEF AttemptsEnd, vars, Idle
    <3> QED
      BY <1>q, <2>1, <3>1
  <2> QED
    BY <1>u, <2>1, <2>2
<1> QED
  BY <1>1, <1>2, <1>3, <1>4, <1>5, <1>6, <1>7, <1>8, <1>9 DEF Next, ExecutorStep

\* Nothing but an exception or a restart between its two commits keeps an
\* attempt out of the log.
THEOREM LoggedUnlessCutShort == Spec /\ [][AttemptsEnd]_vars => []EveryAttemptLogged
<1>1. Init => LoggedSoFar
  BY EmptySeq, LenProperties DEF Init, LoggedSoFar
<1>2. Inv /\ LoggedSoFar /\ [Next]_vars /\ [AttemptsEnd]_vars => LoggedSoFar'
  BY LoggedStep
<1>3. LoggedSoFar => EveryAttemptLogged
  BY DEF LoggedSoFar, EveryAttemptLogged, Attempting
<1> QED
  BY <1>1, <1>2, <1>3, Invariant, PTL DEF Spec
=============================================================================
