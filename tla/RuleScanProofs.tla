--------------------------- MODULE RuleScanProofs ---------------------------
(***************************************************************************)
(* Proofs about the rule engine: every queued row has its reason, what a   *)
(* completed run matched is queued, references hold, and the counts of a   *)
(* completed run are those of the rules that did not fail.                 *)
(***************************************************************************)
EXTENDS HistoryRefinement, FiniteSetTheorems, TLAPS

\* A scan works on a running run of its own.
OwnsRun ==
  \A s \in Sessions : Live(s) =>
    runs[session[s].run] # NoRun
    /\ runs[session[s].run].status = "running" /\ runs[session[s].run].by = s

\* A run that was not started has no events.
UnusedIsEmpty == \A n \in RunIds : runs[n] = NoRun => events[n] = {}

\* A match about to be staged was logged.
StagesWhatItLogged ==
  \A s \in Sessions : session[s].pc = "stage" =>
    [rule |-> session[s].rule, level |-> "match", item |-> session[s].item]
      \in events[session[s].run]

Queued(i) == \E p \in rows : p.item = i

ActiveIsQueued == \A i \in active : Queued(i)

\* In a live run every match is queued but the one about to be.
MatchesQueuedSoFar ==
  \A s \in Sessions : Live(s) =>
    \A e \in events[session[s].run] : e.level = "match" =>
      Queued(e.item) \/ (session[s].pc = "stage" /\ e.item = session[s].item)

QueueInv ==
  /\ TypeOK /\ OwnsRun /\ UnusedIsEmpty /\ StagesWhatItLogged /\ ActiveIsQueued
  /\ MatchesQueuedSoFar /\ RowHasReason /\ MatchIsQueued /\ ReferencesHold

\* Rules that failed, matches, and skipped items among the events of a run.
FailedIn(es) == {e.rule : e \in {x \in es : x.item = None}}
Matches(es)  == {e \in es : e.level = "match"}
Skips(es)    == {e \in es : e.level # "match" /\ e.item # None}

\* Those of the rule in hand, and those of the rules that are over.
Of(scan, part)       == {e \in part : e.rule = scan.rule}
Over(scan, part, es) == {e \in part : e.rule \notin FailedIn(es) /\ e.rule # scan.rule}

\* Rules to come, and items to come of the rule in hand, have no event yet, and
\* the rule in hand has not failed.
NothingYet(scan, es) ==
  /\ scan.pc = "load" => es = {}
  /\ scan.rule \notin scan.todo
  /\ \A e \in es : /\ e.rule \notin scan.todo
                   /\ e.rule = scan.rule => e.item # None /\ e.item \notin scan.left

\* The result counts the events of the rule in hand (but for a match that is
\* not staged yet) ...
ResultCounts(scan, es) ==
  /\ scan.pc = "items" => scan.result.matched = Cardinality(Of(scan, Matches(es)))
  /\ scan.pc = "stage" => scan.result.matched + 1 = Cardinality(Of(scan, Matches(es)))
  /\ scan.pc \in {"items", "stage"} =>
       scan.result.skipped = Cardinality(Of(scan, Skips(es)))

\* ... and the total those of the rules that are over and did not fail.
TotalCounts(scan, es) ==
  /\ scan.total.matched = Cardinality(Over(scan, Matches(es), es))
  /\ scan.total.skipped = Cardinality(Over(scan, Skips(es), es))

ScanCounts(scan, es) ==
  IsFiniteSet(es) /\ NothingYet(scan, es) /\ ResultCounts(scan, es) /\ TotalCounts(scan, es)

CountInv ==
  /\ \A s \in Sessions : Live(s) => ScanCounts(session[s], events[session[s].run])
  /\ CountsCoverFinishedRules
----------------------------------------------------------------------------
(* Types.                                                                  *)

\* What TypeOK says of one session.
ScanOK(x) ==
  /\ x \in Scan
  /\ x.run = None <=> x.pc = "idle"
  /\ x.rule = None <=> x.pc \notin {"items", "stage"}
  /\ x.item = None <=> x.pc # "stage"

LEMMA IdleOK == ScanOK(Idle)
BY DEF ScanOK, Scan, Idle, Tally, Zero

\* A step that changes one session to a well-formed one.
LEMMA SessionChanged ==
  ASSUME TypeOK, NEW s \in Sessions, NEW x, ScanOK(x), session' = [session EXCEPT ![s] = x]
  PROVE  /\ session' \in [Sessions -> Scan]
         /\ \A t \in Sessions : ScanOK(session'[t])
         /\ session'[s] = x
         /\ \A t \in Sessions : t # s => session'[t] = session[t]
BY DEF TypeOK, ScanOK

LEMMA LeaveOK ==
  ASSUME TypeOK, NEW s \in Sessions, session[s].pc # "idle"
  PROVE  ScanOK(Leave(s))
<1>1. session[s] \in Scan /\ session[s].run # None
  BY DEF TypeOK
<1>2. CASE s = Daily
  <2>1. Leave(s) = [pc |-> "orphans", run |-> session[s].run, todo |-> {}, rule |-> None,
                       left |-> {}, item |-> None, clients |-> {}, result |-> Zero,
                       total |-> Zero]
    BY <1>2 DEF Leave, Idle
  <2> QED
    BY <1>1, <2>1 DEF ScanOK, Scan, Tally, Zero
<1>3. CASE s # Daily
  BY <1>3, IdleOK DEF Leave
<1> QED
  BY <1>2, <1>3

\* Every step of a scan leaves the session well formed.
LEMMA StepOK ==
  ASSUME TypeOK, NEW s \in Sessions, ScanStep(s) \/ Failure(s)
  PROVE  /\ session' \in [Sessions -> Scan]
         /\ \A t \in Sessions : ScanOK(session'[t])
         /\ \A t \in Sessions : t # s => session'[t] = session[t]
<1> DEFINE Done == /\ ScanOK(session'[s])
                   /\ session' = [session EXCEPT ![s] = session'[s]]
<1>0. ScanOK(session[s]) /\ session \in [Sessions -> Scan]
  BY DEF TypeOK, ScanOK
<1> USE <1>0 DEF ScanOK, Scan, Tally, Zero
<1>1. ASSUME NEW n \in RunIds, StartRun(s, n) PROVE Done
  BY <1>1, ScanAssumption DEF StartRun, Idle
<1>2. ASSUME NEW ids \in SUBSET Rules, LoadRules(s, ids) PROVE Done
  BY <1>2 DEF LoadRules, TypeOK
<1>3. ASSUME NEW r \in Rules, SkipUnhandled(s, r) PROVE Done
  BY <1>3 DEF SkipUnhandled
<1>4. ASSUME NEW r \in Rules, Evaluate(s, r) PROVE Done
  BY <1>4, ScanAssumption DEF Evaluate, Services
<1>5. ASSUME NEW r \in Rules, RuleUnavailable(s, r) PROVE Done
  <2>1. PICK built \in SUBSET (Needs[r] \cap enabled) :
          session' = [session EXCEPT ![s].todo = @ \ {r}, ![s].clients = @ \cup built]
    BY <1>5 DEF RuleUnavailable
  <2>2. built \subseteq Services
    BY DEF Services
  <2> QED
    BY <1>5, <2>1, <2>2 DEF RuleUnavailable
<1>6. ASSUME RuleInterrupted(s) PROVE Done
  BY <1>6 DEF RuleInterrupted, AfterFailure
<1>7. ASSUME NEW i \in Items, IgnoreItem(s, i) PROVE Done
  BY <1>7 DEF IgnoreItem
<1>8. ASSUME NEW i \in Items, NEW level \in {"skip", "error"}, SkipItem(s, i, level) PROVE Done
  BY <1>8 DEF SkipItem
<1>9. ASSUME NEW i \in Items, MatchItem(s, i) PROVE Done
  BY <1>9, ScanAssumption DEF MatchItem
<1>10. ASSUME StageItem(s) PROVE Done
  BY <1>10 DEF StageItem
<1>11. ASSUME RuleDone(s) PROVE Done
  BY <1>11 DEF RuleDone, Plus
<1>12. ASSUME CompleteRun(s) PROVE Done
  BY <1>12, LeaveOK DEF CompleteRun
<1>13. ASSUME OrphanScan(s) PROVE Done
  BY <1>13, IdleOK DEF OrphanScan
<1>14. ASSUME LogDangling(s) PROVE Done
  BY <1>14, LeaveOK DEF LogDangling
<1>15. ASSUME ScanRaises(s) PROVE Done
  BY <1>15, LeaveOK DEF ScanRaises
<1>16. Done
  BY <1>1, <1>2, <1>3, <1>4, <1>5, <1>6, <1>7, <1>8, <1>9, <1>10, <1>11, <1>12,
     <1>13, <1>14, <1>15 DEF ScanStep, RuleStep, Failure
<1> QED
  BY <1>16, SessionChanged
----------------------------------------------------------------------------
(* The steps of a scan, by what they write.                                *)

\* Nothing but its session.
Reads(s) ==
  \/ \E ids \in SUBSET Rules : LoadRules(s, ids)
  \/ \E r \in Rules : SkipUnhandled(s, r) \/ Evaluate(s, r)
  \/ \E i \in Items : IgnoreItem(s, i)
  \/ RuleDone(s) \/ OrphanScan(s) \/ Failure(s)

\* An event.
Logs(s) ==
  \/ \E r \in Rules : RuleUnavailable(s, r)
  \/ RuleInterrupted(s)
  \/ \E i \in Items, level \in {"skip", "error"} : SkipItem(s, i, level)
  \/ \E i \in Items : MatchItem(s, i)

LEMMA StepKinds ==
  ASSUME NEW s \in Sessions, ScanStep(s) \/ Failure(s)
  PROVE  \/ Reads(s) \/ Logs(s) \/ StageItem(s) \/ CompleteRun(s)
         \/ \E n \in RunIds : StartRun(s, n)
BY DEF ScanStep, RuleStep, Reads, Logs

LEMMA ReadsShape ==
  ASSUME TypeOK, NEW s \in Sessions, Reads(s)
  PROVE  /\ UNCHANGED <<rules, on, enabled, runs, events, rows, active>>
         /\ faults' \in Nat
         /\ session'[s].pc # "stage"
         /\ Live(s)' => Live(s) /\ session[s].pc # "stage" /\ session'[s].run = session[s].run
<1>0. session \in [Sessions -> Scan] /\ session[s] \in Scan /\ faults \in Nat
      /\ (session[s].run = None <=> session[s].pc = "idle")
  BY DEF TypeOK
<1> DEFINE Goal == /\ UNCHANGED <<rules, on, enabled, runs, events, rows, active>>
                   /\ faults' \in Nat
                   /\ session'[s].pc # "stage"
                   /\ Live(s)' => /\ Live(s) /\ session[s].pc # "stage"
                                  /\ session'[s].run = session[s].run
<1> USE DEF Live, Scan
<1>1. ASSUME NEW ids \in SUBSET Rules, LoadRules(s, ids) PROVE Goal
  BY <1>0, <1>1 DEF LoadRules
<1>2. ASSUME NEW r \in Rules, SkipUnhandled(s, r) PROVE Goal
  BY <1>0, <1>2 DEF SkipUnhandled
<1>3. ASSUME NEW r \in Rules, Evaluate(s, r) PROVE Goal
  BY <1>0, <1>3 DEF Evaluate
<1>4. ASSUME NEW i \in Items, IgnoreItem(s, i) PROVE Goal
  BY <1>0, <1>4 DEF IgnoreItem
<1>5. CASE RuleDone(s)
  BY <1>0, <1>5 DEF RuleDone
<1>6. CASE OrphanScan(s)
  BY <1>0, <1>6 DEF OrphanScan, Idle
<1>7. CASE LogDangling(s)
  BY <1>0, <1>7 DEF LogDangling, Leave, Idle
<1>8. ASSUME ScanRaises(s) PROVE Goal
  BY <1>0, <1>8 DEF ScanRaises, Leave, Idle
<1>9. Goal
  BY <1>1, <1>2, <1>3, <1>4, <1>5, <1>6, <1>7, <1>8 DEF Reads, Failure
<1> QED
  BY <1>9

LEMMA LogsShape ==
  ASSUME TypeOK, NEW s \in Sessions, Logs(s)
  PROVE  \E r \in rules, level \in {"match", "skip", "error"}, i \in Items \cup {None} :
           /\ LogEvent(s, r, level, i)
           /\ UNCHANGED <<rules, on, enabled, runs, rows, active, faults>>
           /\ Live(s) /\ Live(s)' /\ session[s].pc # "stage"
           /\ session'[s].run = session[s].run
           /\ level # "match" => session'[s].pc # "stage"
           /\ level = "match" =>
                session'[s].pc = "stage" /\ session'[s].rule = r /\ session'[s].item = i
           /\ i = None => level = "error"
           /\ IF session[s].pc = "rule" THEN r \in session[s].todo
              ELSE /\ session[s].pc = "items" /\ r = session[s].rule
                   /\ i # None => i \in session[s].left
<1>0. session \in [Sessions -> Scan] /\ session[s] \in Scan
      /\ (session[s].rule = None <=> session[s].pc \notin {"items", "stage"})
  BY DEF TypeOK
<1> DEFINE Goal(r, level, i) ==
      /\ LogEvent(s, r, level, i)
      /\ UNCHANGED <<rules, on, enabled, runs, rows, active, faults>>
      /\ Live(s) /\ Live(s)' /\ session[s].pc # "stage"
      /\ session'[s].run = session[s].run
      /\ level # "match" => session'[s].pc # "stage"
      /\ level = "match" =>
           session'[s].pc = "stage" /\ session'[s].rule = r /\ session'[s].item = i
      /\ i = None => level = "error"
      /\ IF session[s].pc = "rule" THEN r \in session[s].todo
         ELSE /\ session[s].pc = "items" /\ r = session[s].rule
              /\ i # None => i \in session[s].left
<1> USE ScanAssumption DEF Live, Scan, CanLog
<1>1. ASSUME NEW r \in Rules, RuleUnavailable(s, r)
      PROVE  r \in rules /\ Goal(r, "error", None)
  BY <1>0, <1>1 DEF RuleUnavailable
<1>2. ASSUME RuleInterrupted(s)
      PROVE  session[s].rule \in rules /\ Goal(session[s].rule, "error", None)
  BY <1>0, <1>2 DEF RuleInterrupted
<1>3. ASSUME NEW i \in Items, NEW level \in {"skip", "error"}, SkipItem(s, i, level)
      PROVE  session[s].rule \in rules /\ Goal(session[s].rule, level, i)
  BY <1>0, <1>3 DEF SkipItem
<1>4. ASSUME NEW i \in Items, MatchItem(s, i)
      PROVE  session[s].rule \in rules /\ Goal(session[s].rule, "match", i)
  BY <1>0, <1>4 DEF MatchItem
<1>5. \E r \in rules, level \in {"match", "skip", "error"}, i \in Items \cup {None} :
        Goal(r, level, i)
  <2> HIDE DEF Goal
  <2> QED
    BY <1>1, <1>2, <1>3, <1>4 DEF Logs
<1> QED
  BY <1>5

LEMMA EventAdded ==
  ASSUME TypeOK, NEW s \in Sessions, Live(s), NEW r \in Rules,
         NEW level \in {"match", "skip", "error"}, NEW i \in Items \cup {None},
         LogEvent(s, r, level, i)
  PROVE  /\ session[s].run \in RunIds
         /\ events' \in [RunIds -> SUBSET RunEvent]
         /\ events'[session[s].run] =
              events[session[s].run] \cup {[rule |-> r, level |-> level, item |-> i]}
         /\ \A n \in RunIds : n # session[s].run => events'[n] = events[n]
<1>1. session[s].run \in RunIds
  BY DEF TypeOK, Scan, Live
<1>2. [rule |-> r, level |-> level, item |-> i] \in RunEvent
  BY DEF RunEvent
<1> QED
  BY <1>1, <1>2 DEF LogEvent, TypeOK

LEMMA InitQueueInv == Init => QueueInv
<1> SUFFICES ASSUME Init PROVE QueueInv
  OBVIOUS
<1> USE DEF Init
<1>1. TypeOK
  BY IdleOK DEF TypeOK, ScanOK
<1>2. \A s \in Sessions : session[s].pc = "idle"
  BY DEF Idle
<1> QED
  BY <1>1, <1>2 DEF QueueInv, OwnsRun, Live, UnusedIsEmpty, StagesWhatItLogged,
    ActiveIsQueued, MatchesQueuedSoFar, RowHasReason, MatchIsQueued, NoRun, ReferencesHold

\* The tables keep their types.
LEMMA TypeStep == QueueInv /\ [Next]_vars => TypeOK'
<1> SUFFICES ASSUME QueueInv, [Next]_vars PROVE TypeOK'
  OBVIOUS
<1> USE DEF QueueInv
<1>1. CASE UNCHANGED vars
  BY <1>1 DEF vars, TypeOK
<1>2. CASE Administration
  BY <1>2 DEF Administration, ToggleRule, DeleteRule, ToggleIntegration, Settle, TypeOK
<1>3. CASE Restart
  BY <1>3, IdleOK DEF Restart, TypeOK, ScanOK
<1>4. ASSUME NEW s \in Sessions, ScanStep(s) \/ Failure(s) PROVE TypeOK'
  <2>1. /\ session' \in [Sessions -> Scan]
        /\ \A t \in Sessions :
             /\ session'[t].run = None <=> session'[t].pc = "idle"
             /\ session'[t].rule = None <=> session'[t].pc \notin {"items", "stage"}
             /\ session'[t].item = None <=> session'[t].pc # "stage"
    BY <1>4, StepOK DEF ScanOK
  <2>2. session[s] \in Scan
    BY DEF TypeOK
  <2>3. CASE Reads(s)
    BY <2>1, <2>3, ReadsShape DEF TypeOK
  <2>4. CASE Logs(s)
    <3>1. PICK r \in rules, level \in {"match", "skip", "error"}, i \in Items \cup {None} :
            /\ LogEvent(s, r, level, i)
            /\ UNCHANGED <<rules, on, enabled, runs, rows, active, faults>>
            /\ Live(s)
      BY <2>4, LogsShape
    <3>2. events' \in [RunIds -> SUBSET RunEvent]
      BY <3>1, EventAdded DEF TypeOK
    <3> QED
      BY <2>1, <3>1, <3>2 DEF TypeOK
  <2>5. CASE StageItem(s)
    <3>1. session[s].rule \in Rules /\ session[s].item \in Items
      BY <2>2, <2>5 DEF StageItem, TypeOK, Scan
    <3>2. rows' \in SUBSET PendingRow /\ active' \in SUBSET Items
      BY <2>5, <3>1 DEF StageItem, TypeOK, PendingRow
    <3> QED
      BY <2>1, <2>5, <3>2 DEF StageItem, TypeOK
  <2>6. CASE CompleteRun(s)
    <3>1. session[s].run \in RunIds /\ session[s].total \in Tally
      BY <2>2, <2>6 DEF CompleteRun, TypeOK, Scan
    <3>2. runs[session[s].run] \in Run
      BY <2>6, <3>1 DEF CompleteRun, OwnsRun, Live, TypeOK
    <3>3. runs' \in [RunIds -> Run \cup {NoRun}]
      BY <2>6, <3>1, <3>2 DEF CompleteRun, TypeOK, Run, RunStatus
    <3> QED
      BY <2>1, <2>6, <3>3 DEF CompleteRun, TypeOK
  <2>7. ASSUME NEW n \in RunIds, StartRun(s, n) PROVE TypeOK'
    <3>1. runs' \in [RunIds -> Run \cup {NoRun}]
      BY <2>7 DEF StartRun, TypeOK, Run, RunStatus, Tally, Zero
    <3> QED
      BY <2>1, <2>7, <3>1 DEF StartRun, TypeOK
  <2> QED
    BY <1>4, <2>3, <2>4, <2>5, <2>6, <2>7, StepKinds
<1> QED
  BY <1>1, <1>2, <1>3, <1>4 DEF Next

----------------------------------------------------------------------------
(* The queue invariant.                                                    *)

\* No two scans work on the same run.
LEMMA RunsApart ==
  ASSUME OwnsRun, NEW s \in Sessions, NEW t \in Sessions, s # t, Live(s), Live(t)
  PROVE  session[s].run # session[t].run
BY DEF OwnsRun

LEMMA LiveRun ==
  ASSUME TypeOK, NEW s \in Sessions, Live(s)
  PROVE  session[s].run \in RunIds
BY DEF TypeOK, Scan, Live

LEMMA ReadsQueueInv ==
  ASSUME QueueInv, NEW s \in Sessions, Reads(s), TypeOK',
         \A t \in Sessions : t # s => session'[t] = session[t]
  PROVE  QueueInv'
<1> USE DEF QueueInv
<1>1. /\ UNCHANGED <<rules, on, enabled, runs, events, rows, active>>
      /\ session'[s].pc # "stage"
      /\ Live(s)' => Live(s) /\ session[s].pc # "stage" /\ session'[s].run = session[s].run
  BY ReadsShape
<1>2. OwnsRun' /\ StagesWhatItLogged'
  BY <1>1 DEF OwnsRun, StagesWhatItLogged, Live
<1>3. MatchesQueuedSoFar'
  BY <1>1 DEF MatchesQueuedSoFar, Live, Queued
<1>4. UnusedIsEmpty' /\ ActiveIsQueued' /\ RowHasReason' /\ MatchIsQueued' /\ ReferencesHold'
  BY <1>1 DEF UnusedIsEmpty, ActiveIsQueued, Queued, RowHasReason, MatchIsQueued, ReferencesHold
<1> QED
  BY <1>2, <1>3, <1>4

LEMMA LogsQueueInv ==
  ASSUME QueueInv, NEW s \in Sessions, Logs(s), TypeOK',
         \A t \in Sessions : t # s => session'[t] = session[t]
  PROVE  QueueInv'
<1> USE DEF QueueInv
<1>1. PICK r \in rules, level \in {"match", "skip", "error"}, i \in Items \cup {None} :
        /\ LogEvent(s, r, level, i)
        /\ UNCHANGED <<rules, on, enabled, runs, rows, active, faults>>
        /\ Live(s) /\ Live(s)' /\ session[s].pc # "stage"
        /\ session'[s].run = session[s].run
        /\ level # "match" => session'[s].pc # "stage"
        /\ level = "match" =>
             session'[s].pc = "stage" /\ session'[s].rule = r /\ session'[s].item = i
  BY LogsShape
<1> DEFINE n == session[s].run
           e == [rule |-> r, level |-> level, item |-> i]
<1>2. /\ n \in RunIds /\ events'[n] = events[n] \cup {e}
      /\ \A m \in RunIds : m # n => events'[m] = events[m]
  BY <1>1, EventAdded DEF TypeOK
<1>3. \A t \in Sessions : Live(t)' => Live(t) /\ session'[t].run = session[t].run
  BY <1>1 DEF Live
<1>4. \A t \in Sessions : t # s /\ Live(t) => session[t].run \in RunIds \ {n}
  BY <1>1, RunsApart, LiveRun
<1>5. runs[n].status = "running" /\ runs[n] # NoRun
  BY <1>1 DEF OwnsRun
<1> HIDE DEF n
<1>6. OwnsRun'
  BY <1>1, <1>3 DEF OwnsRun
<1>7. UnusedIsEmpty'
  BY <1>1, <1>2, <1>5 DEF UnusedIsEmpty
<1>8. StagesWhatItLogged'
  <2>1. ASSUME NEW t \in Sessions, session'[t].pc = "stage"
        PROVE  [rule |-> session'[t].rule, level |-> "match", item |-> session'[t].item]
                 \in events'[session'[t].run]
    <3>1. CASE t = s
      BY <1>1, <1>2, <2>1, <3>1 DEF n
    <3>2. CASE t # s
      BY <1>2, <1>4, <2>1, <3>2 DEF StagesWhatItLogged, Live
    <3> QED
      BY <3>1, <3>2
  <2> QED
    BY <2>1 DEF StagesWhatItLogged
<1>9. MatchesQueuedSoFar'
  <2>1. ASSUME NEW t \in Sessions, Live(t)', NEW x \in events'[session'[t].run],
               x.level = "match"
        PROVE  Queued(x.item)' \/ (session'[t].pc = "stage" /\ x.item = session'[t].item)
    <3>1. CASE t = s
      BY <1>1, <1>2, <2>1, <3>1 DEF MatchesQueuedSoFar, Queued, n
    <3>2. CASE t # s
      BY <1>1, <1>2, <1>3, <1>4, <2>1, <3>2 DEF MatchesQueuedSoFar, Queued
    <3> QED
      BY <3>1, <3>2
  <2> QED
    BY <2>1 DEF MatchesQueuedSoFar
<1>10. ActiveIsQueued'
  BY <1>1 DEF ActiveIsQueued, Queued
<1>11. RowHasReason'
  BY <1>1, <1>2 DEF RowHasReason
<1>12. MatchIsQueued'
  BY <1>1, <1>2, <1>5 DEF MatchIsQueued
<1>13. ReferencesHold'
  <2>1. \A m \in RunIds : \A x \in events'[m] : x.rule \in rules'
    BY <1>1, <1>2 DEF ReferencesHold
  <2> QED
    BY <1>1, <2>1 DEF ReferencesHold
<1> QED
  BY <1>6, <1>7, <1>8, <1>9, <1>10, <1>11, <1>12, <1>13

LEMMA StageQueueInv ==
  ASSUME QueueInv, NEW s \in Sessions, StageItem(s), TypeOK'
  PROVE  QueueInv'
<1> USE DEF QueueInv
<1> DEFINE p == [rule |-> session[s].rule, item |-> session[s].item]
<1>0. session \in [Sessions -> Scan] /\ session[s] \in Scan
  BY DEF TypeOK
<1>1. /\ session[s].pc = "stage" /\ session'[s].pc = "items"
      /\ session'[s].run = session[s].run
      /\ \A t \in Sessions : t # s => session'[t] = session[t]
      /\ UNCHANGED <<rules, on, enabled, runs, events, faults>>
      /\ active' = active \cup {session[s].item}
  <2>1. session' = [session EXCEPT ![s].pc = "items", ![s].item = None,
                      ![s].result.matched = @ + 1]
    BY DEF StageItem
  <2>2. session'[s].pc = "items" /\ session'[s].run = session[s].run
    BY <1>0, <2>1 DEF Scan
  <2>3. \A t \in Sessions : t # s => session'[t] = session[t]
    BY <1>0, <2>1
  <2> QED
    BY <2>2, <2>3 DEF StageItem
<1>2. rows' = IF session[s].item \in active THEN rows ELSE rows \cup {p}
  BY DEF StageItem
<1>3. session[s].run \in RunIds /\ session[s].item \in Items
  BY <1>1 DEF TypeOK, Scan
<1>4. [rule |-> session[s].rule, level |-> "match", item |-> session[s].item]
        \in events[session[s].run]
  BY <1>1 DEF StagesWhatItLogged
<1>5. session[s].rule \in rules
  BY <1>3, <1>4 DEF ReferencesHold
<1>6. \E q \in rows' : q.item = session[s].item
  <2>1. CASE session[s].item \in active
    BY <1>2, <2>1 DEF ActiveIsQueued, Queued
  <2>2. CASE session[s].item \notin active
    <3>1. p \in rows' /\ p.item = session[s].item
      BY <1>2, <2>2
    <3> QED
      BY <3>1
  <2> QED
    BY <2>1, <2>2
<1>7. rows \subseteq rows'
  BY <1>2
<1>8. OwnsRun' /\ StagesWhatItLogged' /\ UnusedIsEmpty'
  BY <1>1 DEF OwnsRun, StagesWhatItLogged, UnusedIsEmpty, Live
<1>9. ActiveIsQueued'
  BY <1>1, <1>6, <1>7 DEF ActiveIsQueued, Queued
<1>10. MatchesQueuedSoFar'
  BY <1>1, <1>6, <1>7 DEF MatchesQueuedSoFar, Live, Queued
<1>11. RowHasReason'
  <2>1. p.rule = session[s].rule /\ p.item = session[s].item
    OBVIOUS
  <2> HIDE DEF p
  <2> QED
    BY <1>1, <1>2, <1>3, <1>4, <2>1 DEF RowHasReason
<1>12. MatchIsQueued'
  BY <1>1, <1>7 DEF MatchIsQueued, Queued
<1>13. ReferencesHold'
  BY <1>1, <1>2, <1>5 DEF ReferencesHold
<1> QED
  BY <1>8, <1>9, <1>10, <1>11, <1>12, <1>13

LEMMA CompleteQueueInv ==
  ASSUME QueueInv, NEW s \in Sessions, CompleteRun(s), TypeOK',
         \A t \in Sessions : t # s => session'[t] = session[t]
  PROVE  QueueInv'
<1> USE DEF QueueInv
<1>1. /\ session[s].pc = "rule" /\ Live(s)
      /\ runs' = [runs EXCEPT ![session[s].run].status = "completed",
                              ![session[s].run].counts = session[s].total]
      /\ UNCHANGED <<rules, on, enabled, events, rows, active, faults>>
  BY DEF CompleteRun, Live
<1>2. session[s].run \in RunIds /\ runs[session[s].run] # NoRun
  BY <1>1, LiveRun DEF OwnsRun
<1>3. \A m \in RunIds : m # session[s].run => runs'[m] = runs[m]
  BY <1>1, <1>2 DEF TypeOK
<1>4. ~Live(s)' /\ session'[s].pc # "stage"
  BY DEF CompleteRun, Leave, Idle, Live, TypeOK
<1>5. \A t \in Sessions : t # s /\ Live(t) => session[t].run \in RunIds \ {session[s].run}
  BY <1>1, RunsApart, LiveRun
<1>6. OwnsRun'
  BY <1>3, <1>4, <1>5 DEF OwnsRun, Live
<1>7. runs'[session[s].run] # NoRun
  BY <1>1, <1>2 DEF TypeOK, Run, NoRun, RunStatus
<1>8. UnusedIsEmpty'
  BY <1>1, <1>3, <1>7 DEF UnusedIsEmpty
<1>9. StagesWhatItLogged' /\ MatchesQueuedSoFar'
  BY <1>1, <1>4 DEF StagesWhatItLogged, MatchesQueuedSoFar, Live, Queued
<1>10. \A e \in events[session[s].run] : e.level = "match" => Queued(e.item)
  BY <1>1 DEF MatchesQueuedSoFar
<1>11. MatchIsQueued'
  BY <1>1, <1>3, <1>10 DEF MatchIsQueued, Queued
<1>12. ActiveIsQueued' /\ RowHasReason' /\ ReferencesHold'
  BY <1>1 DEF ActiveIsQueued, Queued, RowHasReason, ReferencesHold
<1> QED
  BY <1>6, <1>8, <1>9, <1>11, <1>12

LEMMA StartQueueInv ==
  ASSUME QueueInv, NEW s \in Sessions, NEW n \in RunIds, StartRun(s, n), TypeOK',
         \A t \in Sessions : t # s => session'[t] = session[t]
  PROVE  QueueInv'
<1> USE DEF QueueInv
<1>1. /\ runs[n] = NoRun
      /\ runs'[n] = [status |-> "running", by |-> s, counts |-> Zero]
      /\ \A m \in RunIds : m # n => runs'[m] = runs[m]
      /\ session'[s].run = n /\ session'[s].pc = "load"
      /\ UNCHANGED <<rules, on, enabled, events, rows, active, faults>>
  BY DEF StartRun, TypeOK, Idle
<1>2. runs'[n].status = "running" /\ runs'[n].by = s /\ runs'[n] # NoRun
  BY <1>1 DEF NoRun
<1>3. events[n] = {}
  BY <1>1 DEF UnusedIsEmpty
<1>4. \A t \in Sessions : Live(t) => session[t].run \in RunIds \ {n}
  BY <1>1, LiveRun DEF OwnsRun
<1>5. OwnsRun'
  BY <1>1, <1>2, <1>4 DEF OwnsRun, Live
<1>6. UnusedIsEmpty' /\ StagesWhatItLogged'
  BY <1>1, <1>2 DEF UnusedIsEmpty, StagesWhatItLogged
<1>7. MatchesQueuedSoFar'
  BY <1>1, <1>3 DEF MatchesQueuedSoFar, Live, Queued
<1>8. MatchIsQueued'
  BY <1>1, <1>2 DEF MatchIsQueued
<1>9. ActiveIsQueued' /\ RowHasReason' /\ ReferencesHold'
  BY <1>1 DEF ActiveIsQueued, Queued, RowHasReason, ReferencesHold
<1> QED
  BY <1>5, <1>6, <1>7, <1>8, <1>9

LEMMA QueueInvStep == QueueInv /\ [Next]_vars => QueueInv'
<1> SUFFICES ASSUME QueueInv, [Next]_vars PROVE QueueInv'
  OBVIOUS
<1>0. TypeOK'
  BY TypeStep
<1>1. CASE UNCHANGED vars
  BY <1>0, <1>1 DEF vars, QueueInv, OwnsRun, Live, UnusedIsEmpty, StagesWhatItLogged, ActiveIsQueued,
    MatchesQueuedSoFar, Queued, RowHasReason, MatchIsQueued, ReferencesHold
<1>2. CASE Administration
  <2>1. ASSUME NEW r \in Rules, DeleteRule(r) PROVE ReferencesHold'
    BY <2>1 DEF DeleteRule, Referenced, QueueInv, ReferencesHold
  <2>2. /\ UNCHANGED <<runs, events, rows, session>> /\ active' \subseteq active
        /\ ReferencesHold'
    BY <1>2, <2>1 DEF Administration, ToggleRule, DeleteRule, ToggleIntegration, Settle,
      QueueInv, ReferencesHold
  <2> QED
    BY <1>0, <2>2 DEF QueueInv, OwnsRun, Live, UnusedIsEmpty, StagesWhatItLogged,
      ActiveIsQueued, MatchesQueuedSoFar, Queued, RowHasReason, MatchIsQueued
<1>3. CASE Restart
  <2>1. /\ UNCHANGED <<rules, runs, events, rows, active>>
        /\ \A s \in Sessions : session'[s].pc = "idle"
    BY <1>3 DEF Restart, Idle
  <2> QED
    BY <1>0, <2>1 DEF QueueInv, OwnsRun, Live, UnusedIsEmpty, StagesWhatItLogged,
      ActiveIsQueued, MatchesQueuedSoFar, Queued, RowHasReason, MatchIsQueued, ReferencesHold
<1>4. ASSUME NEW s \in Sessions, ScanStep(s) \/ Failure(s) PROVE QueueInv'
  <2>1. \A t \in Sessions : t # s => session'[t] = session[t]
    BY <1>4, StepOK DEF QueueInv
  <2> QED
    BY <1>0, <1>4, <2>1, StepKinds, ReadsQueueInv, LogsQueueInv, StageQueueInv,
      CompleteQueueInv, StartQueueInv
<1> QED
  BY <1>1, <1>2, <1>3, <1>4 DEF Next

\* Every variable keeps its type.
THEOREM TypeCorrect == Spec => []TypeOK
<1>1. Spec => []QueueInv
  BY InitQueueInv, QueueInvStep, PTL DEF Spec
<1>2. QueueInv => TypeOK
  BY DEF QueueInv
<1> QED
  BY <1>1, <1>2, PTL

\* Nothing is queued without a match event (log_event before stage).
THEOREM ReasonKept == Spec => []RowHasReason
<1>1. Spec => []QueueInv
  BY InitQueueInv, QueueInvStep, PTL DEF Spec
<1>2. QueueInv => RowHasReason
  BY DEF QueueInv
<1> QED
  BY <1>1, <1>2, PTL

\* What a completed run matched is queued (run_scan, stage).
THEOREM MatchesQueued == Spec => []MatchIsQueued
<1>1. Spec => []QueueInv
  BY InitQueueInv, QueueInvStep, PTL DEF Spec
<1>2. QueueInv => MatchIsQueued
  BY DEF QueueInv
<1> QED
  BY <1>1, <1>2, PTL

\* Foreign keys to rules hold without stage looking (delete_rule is refused).
THEOREM References == Spec => []ReferencesHold
<1>1. Spec => []QueueInv
  BY InitQueueInv, QueueInvStep, PTL DEF Spec
<1>2. QueueInv => ReferencesHold
  BY DEF QueueInv
<1> QED
  BY <1>1, <1>2, PTL
----------------------------------------------------------------------------
(* The counts.                                                             *)

LEMMA Finite ==
  ASSUME NEW scan, NEW es, IsFiniteSet(es)
  PROVE  /\ IsFiniteSet(Of(scan, Matches(es))) /\ IsFiniteSet(Of(scan, Skips(es)))
         /\ IsFiniteSet(Over(scan, Matches(es), es)) /\ IsFiniteSet(Over(scan, Skips(es), es))
BY FS_Subset DEF Of, Over, Matches, Skips

\* A scan that leaves the events and the rule in hand alone.
LEMMA SameRule ==
  ASSUME NEW scan \in Scan, NEW next \in Scan, NEW es,
         ScanCounts(scan, es), scan.pc = next.pc, next.rule = scan.rule,
         next.todo \subseteq scan.todo, next.left \subseteq scan.left,
         next.total = scan.total, next.result.matched = scan.result.matched,
         next.result.skipped = scan.result.skipped
  PROVE  ScanCounts(next, es)
<1>1. \A part : Of(next, part) = Of(scan, part) /\ Over(next, part, es) = Over(scan, part, es)
  BY DEF Of, Over
<1>2. NothingYet(next, es)
  BY DEF ScanCounts, NothingYet
<1>3. ResultCounts(next, es) /\ TotalCounts(next, es)
  BY <1>1 DEF ScanCounts, ResultCounts, TotalCounts
<1> QED
  BY <1>2, <1>3 DEF ScanCounts

\* A new event of the rule in hand about an item adds one to its part only.
LEMMA ItemEvent ==
  ASSUME NEW scan \in Scan, NEW es, ScanCounts(scan, es), scan.pc = "items",
         NEW i \in Items, i \in scan.left, NEW level,
         NEW e, e = [rule |-> scan.rule, level |-> level, item |-> i],
         NEW fs, fs = es \cup {e}
  PROVE  /\ IsFiniteSet(fs)
         /\ \A part : Over(scan, part \cup {e}, fs) = Over(scan, part, es)
         /\ level = "match" =>
              /\ Skips(fs) = Skips(es) /\ Matches(fs) = Matches(es) \cup {e}
              /\ Cardinality(Of(scan, Matches(fs))) = scan.result.matched + 1
         /\ level # "match" =>
              /\ Matches(fs) = Matches(es) /\ Skips(fs) = Skips(es) \cup {e}
              /\ Cardinality(Of(scan, Skips(fs))) = scan.result.skipped + 1
         /\ \A part : Over(scan, part, fs) = Over(scan, part, es)
<1>0. e.rule = scan.rule /\ e.level = level /\ e.item = i
  OBVIOUS
<1>1. e \notin es
  BY <1>0 DEF ScanCounts, NothingYet
<1>2. IsFiniteSet(fs)
  BY FS_AddElement DEF ScanCounts
<1>3. FailedIn(fs) = FailedIn(es)
  BY <1>0, ScanAssumption DEF FailedIn
<1>4. \A part : Over(scan, part \cup {e}, fs) = Over(scan, part, es)
                /\ Over(scan, part, fs) = Over(scan, part, es)
  BY <1>0, <1>3 DEF Over
<1>5. ASSUME level = "match"
      PROVE  /\ Skips(fs) = Skips(es) /\ Matches(fs) = Matches(es) \cup {e}
             /\ Cardinality(Of(scan, Matches(fs))) = scan.result.matched + 1
  <2>1. Skips(fs) = Skips(es) /\ Matches(fs) = Matches(es) \cup {e}
    BY <1>0, <1>5 DEF Skips, Matches
  <2>2. Of(scan, Matches(fs)) = Of(scan, Matches(es)) \cup {e} /\ e \notin Of(scan, Matches(es))
    BY <1>0, <1>1, <2>1 DEF Of, Matches
  <2>3. IsFiniteSet(Of(scan, Matches(es)))
    BY Finite DEF ScanCounts
  <2>4. Cardinality(Of(scan, Matches(es)) \cup {e}) = Cardinality(Of(scan, Matches(es))) + 1
    BY <2>2, <2>3, FS_AddElement
  <2>5. scan.result.matched = Cardinality(Of(scan, Matches(es)))
    BY DEF ScanCounts, ResultCounts
  <2> QED
    BY <2>1, <2>2, <2>4, <2>5
<1>6. ASSUME level # "match"
      PROVE  /\ Matches(fs) = Matches(es) /\ Skips(fs) = Skips(es) \cup {e}
             /\ Cardinality(Of(scan, Skips(fs))) = scan.result.skipped + 1
  <2>1. Matches(fs) = Matches(es) /\ Skips(fs) = Skips(es) \cup {e}
    BY <1>0, <1>6, ScanAssumption DEF Skips, Matches
  <2>2. Of(scan, Skips(fs)) = Of(scan, Skips(es)) \cup {e} /\ e \notin Of(scan, Skips(es))
    BY <1>0, <1>1, <2>1 DEF Of, Skips
  <2>3. IsFiniteSet(Of(scan, Skips(es)))
    BY Finite DEF ScanCounts
  <2>4. Cardinality(Of(scan, Skips(es)) \cup {e}) = Cardinality(Of(scan, Skips(es))) + 1
    BY <2>2, <2>3, FS_AddElement
  <2>5. scan.result.skipped = Cardinality(Of(scan, Skips(es)))
    BY DEF ScanCounts, ResultCounts
  <2> QED
    BY <2>1, <2>2, <2>4, <2>5
<1> QED
  BY <1>2, <1>4, <1>5, <1>6

\* A rule that fails takes its events out of what is counted.
LEMMA FailureEvent ==
  ASSUME NEW scan \in Scan, NEW es, ScanCounts(scan, es), NEW r \in Rules,
         r = scan.rule \/ (scan.rule = None /\ \A e \in es : e.rule # r),
         NEW next \in Scan, next.pc = "rule", next.rule = None, None \notin next.todo,
         next.todo \subseteq scan.todo \ {r},
         es \in SUBSET RunEvent, next.total = scan.total
  PROVE  ScanCounts(next, es \cup {[rule |-> r, level |-> "error", item |-> None]})
<1> DEFINE e  == [rule |-> r, level |-> "error", item |-> None]
           fs == es \cup {e}
<1>1. IsFiniteSet(fs)
  BY FS_AddElement DEF ScanCounts
<1>2. FailedIn(fs) = FailedIn(es) \cup {r}
  <2>1. e.item = None /\ e.rule = r
    OBVIOUS
  <2> HIDE DEF e
  <2>2. {x \in fs : x.item = None} = {x \in es : x.item = None} \cup {e}
    BY <2>1
  <2> QED
    BY <2>1, <2>2 DEF FailedIn
<1>3. Matches(fs) = Matches(es) /\ Skips(fs) = Skips(es)
  BY DEF Matches, Skips
<1>4. \A x \in es : x.rule \in Rules
  BY DEF RunEvent
<1>5. Over(next, Matches(fs), fs) = Over(scan, Matches(es), es)
      /\ Over(next, Skips(fs), fs) = Over(scan, Skips(es), es)
  <2>1. \A x \in es : x.rule # None /\ x.rule # next.rule
    BY <1>4, ScanAssumption
  <2>2. \A part : part \subseteq es => Over(next, part, fs) = Over(scan, part, es)
    <3>1. CASE r = scan.rule
      BY <1>2, <2>1, <3>1 DEF Over
    <3>2. CASE scan.rule = None /\ \A x \in es : x.rule # r
      BY <1>2, <2>1, <3>2 DEF Over
    <3> QED
      BY <3>1, <3>2
  <2>3. Matches(es) \subseteq es /\ Skips(es) \subseteq es
    BY DEF Matches, Skips
  <2> QED
    BY <1>3, <2>2, <2>3
<1>6. NothingYet(next, fs)
  BY <1>4, ScanAssumption DEF NothingYet, ScanCounts
<1>7. ResultCounts(next, fs) /\ TotalCounts(next, fs)
  BY <1>5 DEF ScanCounts, ResultCounts, TotalCounts
<1> QED
  BY <1>1, <1>6, <1>7 DEF ScanCounts

\* The rule in hand is over: its counts join the total.
LEMMA RuleJoins ==
  ASSUME NEW scan \in Scan, NEW next \in Scan, NEW es, ScanCounts(scan, es),
         scan.pc = "items", next.pc = "rule", next.rule = None, None \notin next.todo,
         next.todo = scan.todo, next.total = Plus(scan.total, scan.result),
         es \in SUBSET RunEvent
  PROVE  ScanCounts(next, es)
<1>1. \A x \in es : x.rule # None /\ (x.rule = scan.rule => x.rule \notin FailedIn(es))
  BY ScanAssumption DEF RunEvent, FailedIn, ScanCounts, NothingYet
<1>2. ASSUME NEW part, part \subseteq es
      PROVE  /\ Over(next, part, es) = Over(scan, part, es) \cup Of(scan, part)
             /\ Over(scan, part, es) \cap Of(scan, part) = {}
  BY <1>1, <1>2 DEF Over, Of
<1>3. ASSUME NEW part, part \subseteq es
      PROVE  Cardinality(Over(next, part, es))
               = Cardinality(Over(scan, part, es)) + Cardinality(Of(scan, part))
  <2>1. IsFiniteSet(Over(scan, part, es)) /\ IsFiniteSet(Of(scan, part))
    BY <1>3, FS_Subset DEF Over, Of, ScanCounts
  <2> DEFINE S == Over(scan, part, es)
             T == Of(scan, part)
  <2> HIDE DEF S, T
  <2>2. Over(next, part, es) = S \cup T /\ S \cap T = {}
    BY <1>2, <1>3 DEF S, T
  <2>3. IsFiniteSet(S) /\ IsFiniteSet(T)
    BY <2>1 DEF S, T
  <2>4. Cardinality(S \cup T) = Cardinality(S) + Cardinality(T) - Cardinality(S \cap T)
    BY <2>3, FS_Union
  <2>5. Cardinality(S \cap T) = 0 /\ Cardinality(S) \in Nat /\ Cardinality(T) \in Nat
    BY <2>2, <2>3, FS_EmptySet, FS_CardinalityType
  <2> QED
    BY <2>2, <2>4, <2>5 DEF S, T
<1>4. Matches(es) \subseteq es /\ Skips(es) \subseteq es
  BY DEF Matches, Skips
<1>5. TotalCounts(next, es)
  <2>1. /\ next.total.matched = scan.total.matched + scan.result.matched
        /\ next.total.skipped = scan.total.skipped + scan.result.skipped
    BY DEF Plus
  <2> QED
    BY <1>3, <1>4, <2>1 DEF ScanCounts, TotalCounts, ResultCounts
<1>6. NothingYet(next, es)
  BY <1>1 DEF NothingYet, ScanCounts
<1> QED
  BY <1>5, <1>6 DEF ScanCounts, ResultCounts

\* The next rule is taken in hand: nothing is counted for it yet.
LEMMA RuleBegins ==
  ASSUME NEW scan \in Scan, NEW next \in Scan, NEW es, ScanCounts(scan, es),
         scan.pc = "rule", scan.rule = None, NEW r \in scan.todo, next.pc = "items",
         next.rule = r, next.todo = scan.todo \ {r}, next.result = Zero,
         next.total = scan.total, es \in SUBSET RunEvent
  PROVE  ScanCounts(next, es)
<1>1. \A x \in es : x.rule # None /\ x.rule # r
  BY ScanAssumption DEF RunEvent, ScanCounts, NothingYet
<1>2. \A part : part \subseteq es =>
        Over(next, part, es) = Over(scan, part, es) /\ Of(next, part) = {}
  BY <1>1 DEF Over, Of
<1>3. Matches(es) \subseteq es /\ Skips(es) \subseteq es
  BY DEF Matches, Skips
<1>4. NothingYet(next, es)
  BY <1>1 DEF NothingYet, ScanCounts
<1>5. ResultCounts(next, es) /\ TotalCounts(next, es)
  BY <1>2, <1>3, FS_EmptySet DEF ScanCounts, ResultCounts, TotalCounts, Zero
<1> QED
  BY <1>4, <1>5 DEF ScanCounts

LEMMA EmptyCounts ==
  ASSUME NEW next \in Scan, next.pc \in {"load", "rule"}, next.rule = None,
         None \notin next.todo, next.total.matched = 0, next.total.skipped = 0
  PROVE  ScanCounts(next, {})
<1>1. \A part : part = {} => Over(next, part, {}) = {}
  BY DEF Over
<1>2. Matches({}) = {} /\ Skips({}) = {}
  BY DEF Matches, Skips
<1>3. TotalCounts(next, {})
  BY <1>1, <1>2, FS_EmptySet DEF TotalCounts
<1> QED
  BY <1>3, FS_EmptySet DEF ScanCounts, NothingYet, ResultCounts

\* The step a scan takes keeps its own counts right.
LEMMA OwnCounts ==
  ASSUME QueueInv, CountInv, TypeOK', NEW s \in Sessions, ScanStep(s) \/ Failure(s), Live(s)'
  PROVE  ScanCounts(session'[s], events'[session'[s].run])
<1> DEFINE scan == session[s]
           next == session'[s]
           es   == events[session[s].run]
           Goal == ScanCounts(session'[s], events'[session'[s].run])
<1>0. /\ session \in [Sessions -> Scan] /\ scan \in Scan /\ next \in Scan
      /\ next.rule = None <=> next.pc \notin {"items", "stage"}
      /\ scan.rule = None <=> scan.pc \notin {"items", "stage"}
      /\ \A t \in Sessions : None \notin session'[t].todo
  BY ScanAssumption DEF QueueInv, TypeOK, Scan
<1>1. Live(s) => /\ ScanCounts(scan, es) /\ es \in SUBSET RunEvent
                 /\ session[s].run \in RunIds /\ events \in [RunIds -> SUBSET RunEvent]
  BY LiveRun DEF CountInv, QueueInv, TypeOK
<1>2. ASSUME NEW n \in RunIds, StartRun(s, n) PROVE Goal
  <2>1. next = [Idle EXCEPT !.pc = "load", !.run = n] /\ events' = events
    BY <1>0, <1>2 DEF StartRun
  <2>2. events[n] = {}
    BY <1>2 DEF StartRun, QueueInv, UnusedIsEmpty
  <2>3. /\ next.pc = "load" /\ next.run = n /\ next.rule = None
        /\ next.total.matched = 0 /\ next.total.skipped = 0
    BY <2>1 DEF Idle, Zero
  <2> QED
    BY <1>0, <2>1, <2>2, <2>3, EmptyCounts
<1>3. ASSUME NEW ids \in SUBSET Rules, LoadRules(s, ids) PROVE Goal
  <2>1. /\ scan.pc = "load" /\ next.pc = "rule" /\ next.total = scan.total
        /\ next.run = scan.run /\ events' = events
    BY <1>0, <1>3 DEF LoadRules, Scan
  <2>2. es = {} /\ scan.total.matched = 0 /\ scan.total.skipped = 0
    <3>1. ScanCounts(scan, es) /\ es = {}
      BY <1>1, <2>1 DEF Live, ScanCounts, NothingYet
    <3>2. Over(scan, Matches(es), es) = {} /\ Over(scan, Skips(es), es) = {}
      BY <3>1 DEF Over, Matches, Skips
    <3> QED
      BY <3>1, <3>2, FS_EmptySet DEF ScanCounts, TotalCounts
  <2> QED
    BY <1>0, <2>1, <2>2, EmptyCounts
<1>4. ASSUME NEW r \in Rules, SkipUnhandled(s, r) PROVE Goal
  <2>1. /\ scan.pc = "rule" /\ next.pc = "rule" /\ next.total = scan.total
        /\ next.run = scan.run /\ events' = events /\ next.rule = scan.rule
        /\ next.result = scan.result /\ next.todo = scan.todo \ {r} /\ next.left = scan.left
    BY <1>0, <1>4 DEF SkipUnhandled, Scan
  <2> QED
    BY <1>0, <1>1, <2>1, SameRule DEF Live
<1>5. ASSUME NEW r \in Rules, Evaluate(s, r) PROVE Goal
  <2>1. /\ scan.pc = "rule" /\ r \in scan.todo /\ next.pc = "items" /\ next.total = scan.total
        /\ next.run = scan.run /\ events' = events /\ next.rule = r
        /\ next.result = Zero /\ next.todo = scan.todo \ {r}
    BY <1>0, <1>5 DEF Evaluate, Scan
  <2> QED
    BY <1>0, <1>1, <2>1, RuleBegins DEF Live
<1>6. ASSUME NEW r \in Rules, RuleUnavailable(s, r) PROVE Goal
  <2>1. /\ scan.pc = "rule" /\ r \in scan.todo /\ next.pc = "rule" /\ next.total = scan.total
        /\ next.run = scan.run /\ LogEvent(s, r, "error", None) /\ next.rule = None
        /\ next.todo = scan.todo \ {r}
    BY <1>0, <1>6 DEF RuleUnavailable, Scan
  <2>2. events'[scan.run] = es \cup {[rule |-> r, level |-> "error", item |-> None]}
    BY <1>1, <2>1 DEF LogEvent, Live
  <2>3. \A e \in es : e.rule # r
    BY <1>1, <2>1 DEF Live, ScanCounts, NothingYet
  <2>4. ScanCounts(next, es \cup {[rule |-> r, level |-> "error", item |-> None]})
    BY <1>0, <1>1, <2>1, <2>3, FailureEvent DEF Live
  <2> QED
    BY <2>1, <2>2, <2>4
<1>7. ASSUME RuleInterrupted(s) PROVE Goal
  <2> DEFINE r == scan.rule
  <2>1. /\ scan.pc = "items" /\ next.pc = "rule" /\ next.total = scan.total
        /\ next.run = scan.run /\ LogEvent(s, r, "error", None) /\ next.rule = None
        /\ next.todo = scan.todo
    BY <1>0, <1>7 DEF RuleInterrupted, AfterFailure, Scan
  <2>2. events'[scan.run] = es \cup {[rule |-> r, level |-> "error", item |-> None]}
    BY <1>1, <2>1 DEF LogEvent, Live
  <2>3. r \in Rules /\ r \notin scan.todo
    BY <1>0, <1>1, <2>1 DEF Live, ScanCounts, NothingYet, Scan
  <2>4. ScanCounts(next, es \cup {[rule |-> r, level |-> "error", item |-> None]})
    BY <1>0, <1>1, <2>1, <2>3, FailureEvent DEF Live
  <2> QED
    BY <2>1, <2>2, <2>4
<1>8. ASSUME NEW i \in Items, IgnoreItem(s, i) PROVE Goal
  <2>1. /\ scan.pc = "items" /\ next.pc = "items" /\ next.total = scan.total
        /\ next.run = scan.run /\ events' = events /\ next.rule = scan.rule
        /\ next.result.matched = scan.result.matched
        /\ next.result.skipped = scan.result.skipped
        /\ next.todo = scan.todo /\ next.left \subseteq scan.left
    BY <1>0, <1>8 DEF IgnoreItem, Scan, Tally
  <2> QED
    BY <1>0, <1>1, <2>1, SameRule DEF Live
<1>9. ASSUME NEW i \in Items, NEW level \in {"skip", "error"}, SkipItem(s, i, level) PROVE Goal
  <2> DEFINE e  == [rule |-> scan.rule, level |-> level, item |-> i]
             fs == es \cup {e}
  <2>1. /\ scan.pc = "items" /\ i \in scan.left /\ next.pc = "items"
        /\ next.total = scan.total /\ next.run = scan.run /\ next.rule = scan.rule
        /\ next.todo = scan.todo /\ next.left = scan.left \ {i}
        /\ next.result.matched = scan.result.matched
        /\ next.result.skipped = scan.result.skipped + 1
        /\ LogEvent(s, scan.rule, level, i)
    BY <1>0, <1>9 DEF SkipItem, Scan, Tally
  <2>2. events'[scan.run] = fs
    BY <1>1, <2>1 DEF LogEvent, Live
  <2>3. ScanCounts(scan, es)
    BY <1>1, <2>1 DEF Live
  <2>4. /\ IsFiniteSet(fs) /\ \A part : Over(scan, part \cup {e}, fs) = Over(scan, part, es)
        /\ \A part : Over(scan, part, fs) = Over(scan, part, es)
        /\ Matches(fs) = Matches(es) /\ Skips(fs) = Skips(es) \cup {e}
        /\ Cardinality(Of(scan, Skips(fs))) = scan.result.skipped + 1
    <3>1. /\ e = [rule |-> scan.rule, level |-> level, item |-> i] /\ fs = es \cup {e}
          /\ scan \in Scan /\ scan.pc = "items" /\ i \in scan.left
      BY <1>0, <2>1
    <3> HIDE DEF e, fs, es, scan
    <3> QED
      BY <2>3, <3>1, ItemEvent
  <2>5. NothingYet(next, fs)
    BY <2>1, <2>3, ScanAssumption DEF ScanCounts, NothingYet
  <2>6. ResultCounts(next, fs) /\ TotalCounts(next, fs)
    <3>1. \A part : Of(next, part) = Of(scan, part)
                    /\ Over(next, part, fs) = Over(scan, part, fs)
      BY <2>1 DEF Of, Over
    <3>2. /\ Over(next, Skips(fs), fs) = Over(scan, Skips(es), es)
          /\ Over(next, Matches(fs), fs) = Over(scan, Matches(es), es)
      BY <2>4, <3>1
    <3>3. Of(next, Skips(fs)) = Of(scan, Skips(fs)) /\ Of(next, Matches(fs)) = Of(scan, Matches(es))
      BY <2>4, <3>1
    <3> HIDE DEF fs
    <3> QED
      BY <2>1, <2>3, <2>4, <3>2, <3>3 DEF ScanCounts, ResultCounts, TotalCounts
  <2> QED
    BY <2>1, <2>2, <2>4, <2>5, <2>6 DEF ScanCounts
<1>10. ASSUME NEW i \in Items, MatchItem(s, i) PROVE Goal
  <2> DEFINE e  == [rule |-> scan.rule, level |-> "match", item |-> i]
             fs == es \cup {e}
  <2>1. /\ scan.pc = "items" /\ i \in scan.left /\ next.pc = "stage"
        /\ next.total = scan.total /\ next.run = scan.run /\ next.rule = scan.rule
        /\ next.todo = scan.todo /\ next.left = scan.left \ {i}
        /\ next.result.matched = scan.result.matched
        /\ next.result.skipped = scan.result.skipped
        /\ LogEvent(s, scan.rule, "match", i)
    BY <1>0, <1>10 DEF MatchItem, Scan, Tally
  <2>2. events'[scan.run] = fs
    BY <1>1, <2>1 DEF LogEvent, Live
  <2>3. ScanCounts(scan, es)
    BY <1>1, <2>1 DEF Live
  <2>4. /\ IsFiniteSet(fs) /\ \A part : Over(scan, part \cup {e}, fs) = Over(scan, part, es)
        /\ \A part : Over(scan, part, fs) = Over(scan, part, es)
        /\ Skips(fs) = Skips(es) /\ Matches(fs) = Matches(es) \cup {e}
        /\ Cardinality(Of(scan, Matches(fs))) = scan.result.matched + 1
    <3>1. /\ e = [rule |-> scan.rule, level |-> "match", item |-> i] /\ fs = es \cup {e}
          /\ scan \in Scan /\ scan.pc = "items" /\ i \in scan.left
      BY <1>0, <2>1
    <3> HIDE DEF e, fs, es, scan
    <3> QED
      BY <2>3, <3>1, ItemEvent
  <2>5. NothingYet(next, fs)
    BY <2>1, <2>3, ScanAssumption DEF ScanCounts, NothingYet
  <2>6. ResultCounts(next, fs) /\ TotalCounts(next, fs)
    <3>1. \A part : Of(next, part) = Of(scan, part)
                    /\ Over(next, part, fs) = Over(scan, part, fs)
      BY <2>1 DEF Of, Over
    <3>2. /\ Over(next, Matches(fs), fs) = Over(scan, Matches(es), es)
          /\ Over(next, Skips(fs), fs) = Over(scan, Skips(es), es)
      BY <2>4, <3>1
    <3>3. Of(next, Matches(fs)) = Of(scan, Matches(fs)) /\ Of(next, Skips(fs)) = Of(scan, Skips(es))
      BY <2>4, <3>1
    <3> HIDE DEF fs
    <3> QED
      BY <2>1, <2>3, <2>4, <3>2, <3>3 DEF ScanCounts, ResultCounts, TotalCounts
  <2> QED
    BY <2>1, <2>2, <2>4, <2>5, <2>6 DEF ScanCounts
<1>11. ASSUME StageItem(s) PROVE Goal
  <2>1. session' = [session EXCEPT ![s].pc = "items", ![s].item = None,
                      ![s].result.matched = @ + 1]
        /\ scan.pc = "stage" /\ events' = events
    BY <1>11 DEF StageItem
  <2>2. /\ next.pc = "items" /\ next.total = scan.total /\ next.run = scan.run
        /\ next.rule = scan.rule /\ next.todo = scan.todo /\ next.left = scan.left
        /\ next.result.matched = scan.result.matched + 1
        /\ next.result.skipped = scan.result.skipped
    BY <1>0, <2>1 DEF Scan, Tally
  <2>3. ScanCounts(scan, es)
    BY <1>1, <2>1 DEF Live
  <2>4. \A part : Of(next, part) = Of(scan, part) /\ Over(next, part, es) = Over(scan, part, es)
    BY <2>2 DEF Of, Over
  <2>5. NothingYet(next, es)
    BY <2>2, <2>3 DEF ScanCounts, NothingYet
  <2>6. ResultCounts(next, es) /\ TotalCounts(next, es)
    BY <2>1, <2>2, <2>3, <2>4 DEF ScanCounts, ResultCounts, TotalCounts
  <2> QED
    BY <2>1, <2>2, <2>3, <2>5, <2>6 DEF ScanCounts
<1>12. ASSUME RuleDone(s) PROVE Goal
  <2>1. /\ scan.pc = "items" /\ next.pc = "rule" /\ next.run = scan.run /\ events' = events
        /\ next.total = Plus(scan.total, scan.result) /\ next.rule = None
        /\ next.todo = scan.todo
    BY <1>0, <1>12 DEF RuleDone, Scan
  <2> QED
    BY <1>0, <1>1, <2>1, RuleJoins DEF Live
<1>13. ~CompleteRun(s) /\ ~OrphanScan(s) /\ ~Failure(s)
  <2>1. next.pc \notin {"idle", "orphans"}
    BY DEF Live
  <2>2. Leave(s).pc \in {"idle", "orphans"}
    BY DEF Leave, Idle
  <2>3. Idle.pc = "idle"
    BY DEF Idle
  <2>4. /\ CompleteRun(s) => next = Leave(s)
        /\ OrphanScan(s) => next = Idle
        /\ LogDangling(s) => next = Leave(s)
    BY <1>0 DEF CompleteRun, OrphanScan, LogDangling
  <2>5. ASSUME ScanRaises(s) PROVE next = Leave(s)
    BY <1>0, <2>5 DEF ScanRaises
  <2> QED
    BY <2>1, <2>2, <2>3, <2>4, <2>5 DEF Failure
<1> HIDE DEF Goal
<1>14. Goal
  BY <1>2, <1>3, <1>4, <1>5, <1>6, <1>7, <1>8, <1>9, <1>10, <1>11, <1>12, <1>13
     DEF ScanStep, RuleStep
<1> QED
  BY <1>14 DEF Goal

\* What the steps of a scan leave alone: the other scans, their events, and the
\* runs that are over.
LEMMA ScanFrame ==
  ASSUME QueueInv, NEW s \in Sessions, ScanStep(s) \/ Failure(s)
  PROVE  /\ \A t \in Sessions : t # s => session'[t] = session[t]
         /\ \A n \in RunIds : ~(Live(s) /\ n = session[s].run) => events'[n] = events[n]
         /\ \A n \in RunIds : runs'[n].status = "completed" =>
              \/ runs'[n] = runs[n] /\ events'[n] = events[n]
              \/ CompleteRun(s) /\ n = session[s].run /\ events' = events
<1> USE DEF QueueInv
<1>1. \A t \in Sessions : t # s => session'[t] = session[t]
  BY StepOK
<1>2. CASE Reads(s) \/ StageItem(s)
  <2>1. UNCHANGED <<runs, events>>
    BY <1>2, ReadsShape DEF StageItem
  <2> QED
    BY <1>1, <2>1
<1>3. CASE Logs(s)
  <2>1. PICK r \in rules, level \in {"match", "skip", "error"}, i \in Items \cup {None} :
          LogEvent(s, r, level, i) /\ UNCHANGED runs /\ Live(s)
    BY <1>3, LogsShape
  <2>2. r \in Rules
    BY DEF TypeOK
  <2>3. \A n \in RunIds : n # session[s].run => events'[n] = events[n]
    BY <2>1, <2>2, EventAdded
  <2>4. runs[session[s].run].status = "running"
    BY <2>1 DEF OwnsRun
  <2> QED
    BY <1>1, <2>1, <2>3, <2>4
<1>4. CASE CompleteRun(s)
  <2>1. \A n \in RunIds : n # session[s].run => runs'[n] = runs[n]
    BY <1>4 DEF CompleteRun, TypeOK
  <2>2. events' = events
    BY <1>4 DEF CompleteRun
  <2> QED
    BY <1>1, <1>4, <2>1, <2>2
<1>5. ASSUME NEW m \in RunIds, StartRun(s, m)
      PROVE  \A n \in RunIds : /\ events'[n] = events[n]
                               /\ runs'[n].status = "completed" => runs'[n] = runs[n]
  <2>1. /\ runs'[m].status = "running" /\ events' = events
        /\ \A n \in RunIds : n # m => runs'[n] = runs[n]
    BY <1>5 DEF StartRun, TypeOK
  <2> QED
    BY <2>1
<1> QED
  BY <1>1, <1>2, <1>3, <1>4, <1>5, StepKinds

\* What run_scan writes at the end is what its events say.
LEMMA CompleteCounts ==
  ASSUME QueueInv, CountInv, NEW s \in Sessions, CompleteRun(s)
  PROVE  LET n == session[s].run IN
         /\ runs'[n].counts.matched = Cardinality({e \in Whole(n) : e.level = "match"})
         /\ runs'[n].counts.skipped = Cardinality({e \in Whole(n) : e.level # "match"})
<1> DEFINE n == session[s].run
           es == events[n]
<1>1. /\ session[s] \in Scan /\ session[s].rule = None /\ n \in RunIds
      /\ runs \in [RunIds -> Run \cup {NoRun}] /\ es \in SUBSET RunEvent
  BY LiveRun DEF CompleteRun, QueueInv, TypeOK, Live
<1>2. ScanCounts(session[s], es) /\ runs[n] \in Run
  BY <1>1 DEF CountInv, CompleteRun, Live, QueueInv, OwnsRun
<1>3. runs'[n].counts = session[s].total
  BY <1>1, <1>2 DEF CompleteRun, Run
<1>4. Failed(n) = FailedIn(es)
  BY DEF Failed, FailedIn
<1>5. \A e \in es : e.rule # None /\ (e.item = None => e.rule \in FailedIn(es))
  BY <1>1, ScanAssumption DEF RunEvent, FailedIn
<1>6. /\ Over(session[s], Matches(es), es) = {e \in Whole(n) : e.level = "match"}
      /\ Over(session[s], Skips(es), es) = {e \in Whole(n) : e.level # "match"}
  BY <1>1, <1>4, <1>5 DEF Over, Matches, Skips, Whole
<1> QED
  BY <1>2, <1>3, <1>6 DEF ScanCounts, TotalCounts

LEMMA CountInvStep == QueueInv /\ CountInv /\ [Next]_vars => CountInv'
<1> SUFFICES ASSUME QueueInv, CountInv, [Next]_vars PROVE CountInv'
  OBVIOUS
<1>0. TypeOK'
  BY TypeStep
<1>1. CASE UNCHANGED vars
  BY <1>1 DEF vars, CountInv, Live, CountsCoverFinishedRules, Whole, Failed
<1>2. CASE Administration
  <2>1. UNCHANGED <<runs, events, session>>
    BY <1>2 DEF Administration, ToggleRule, DeleteRule, ToggleIntegration, Settle
  <2> QED
    BY <2>1 DEF CountInv, Live, CountsCoverFinishedRules, Whole, Failed
<1>3. CASE Restart
  <2>1. UNCHANGED <<runs, events>> /\ \A s \in Sessions : session'[s].pc = "idle"
    BY <1>3 DEF Restart, Idle
  <2> QED
    BY <2>1 DEF CountInv, Live, CountsCoverFinishedRules, Whole, Failed
<1>4. ASSUME NEW s \in Sessions, ScanStep(s) \/ Failure(s) PROVE CountInv'
  <2>1. ASSUME NEW t \in Sessions, Live(t)'
        PROVE  ScanCounts(session'[t], events'[session'[t].run])
    <3>1. CASE t = s
      BY <1>0, <1>4, <2>1, <3>1, OwnCounts
    <3>2. CASE t # s
      <4>1. session'[t] = session[t] /\ Live(t)
        BY <1>4, <2>1, <3>2, ScanFrame DEF Live
      <4>2. session[t].run \in RunIds
        BY <4>1, LiveRun DEF QueueInv
      <4>3. events'[session[t].run] = events[session[t].run]
        BY <1>4, <3>2, <4>1, <4>2, RunsApart, ScanFrame DEF QueueInv
      <4> QED
        BY <4>1, <4>3 DEF CountInv
    <3> QED
      BY <3>1, <3>2
  <2>2. ASSUME NEW n \in RunIds, runs'[n].status = "completed"
        PROVE  /\ runs'[n].counts.matched = Cardinality({e \in Whole(n) : e.level = "match"})'
               /\ runs'[n].counts.skipped = Cardinality({e \in Whole(n) : e.level # "match"})'
    <3>1. CASE runs'[n] = runs[n] /\ events'[n] = events[n]
      BY <2>2, <3>1 DEF CountInv, CountsCoverFinishedRules, Whole, Failed
    <3>2. CASE CompleteRun(s) /\ n = session[s].run /\ events' = events
      BY <3>2, CompleteCounts DEF Whole, Failed
    <3> QED
      BY <1>4, <2>2, <3>1, <3>2, ScanFrame
  <2> QED
    BY <2>1, <2>2 DEF CountInv, CountsCoverFinishedRules
<1> QED
  BY <1>1, <1>2, <1>3, <1>4 DEF Next

LEMMA InitCountInv == Init => CountInv
<1> SUFFICES ASSUME Init PROVE CountInv
  OBVIOUS
<1>1. \A s \in Sessions : ~Live(s)
  BY DEF Init, Live, Idle
<1>2. \A n \in RunIds : runs[n].status # "completed"
  BY DEF Init, NoRun
<1> QED
  BY <1>1, <1>2 DEF CountInv, CountsCoverFinishedRules

\* The counts of a completed run are those of the events of the rules that did
\* not fail in it, whatever ran at the same time (run_scan).
THEOREM CountsExact == Spec => []CountsCoverFinishedRules
<1>1. Spec => [](QueueInv /\ CountInv)
  BY InitQueueInv, InitCountInv, QueueInvStep, CountInvStep, PTL DEF Spec
<1>2. CountInv => CountsCoverFinishedRules
  BY DEF CountInv
<1> QED
  BY <1>1, <1>2, PTL
----------------------------------------------------------------------------
(* History: the rule engine implements its contract.                       *)

\* No more is counted as matched or skipped than as scanned.
ScannedCovers(scan) ==
  /\ scan.total.scanned >= scan.total.matched + scan.total.skipped
  /\ scan.result.scanned >= scan.result.matched + scan.result.skipped
  /\ scan.pc = "stage" =>
       scan.result.scanned >= scan.result.matched + scan.result.skipped + 1

ScannedInv == \A s \in Sessions : ScannedCovers(session[s])

LEMMA ScannedStep ==
  ASSUME TypeOK, ScannedInv, NEW s \in Sessions, ScanStep(s) \/ Failure(s)
  PROVE  ScannedCovers(session'[s])
<1> DEFINE Goal == ScannedCovers(session'[s])
<1>0. /\ session \in [Sessions -> Scan] /\ session[s] \in Scan
      /\ session[s].total \in Tally /\ session[s].result \in Tally
      /\ ScannedCovers(session[s])
  BY DEF TypeOK, Scan, ScannedInv
<1>i. ScannedCovers(Idle) /\ ScannedCovers(Leave(s))
  BY DEF ScannedCovers, Idle, Zero, Leave
<1> USE DEF ScannedCovers, Scan, Tally, Zero
<1>1. ASSUME NEW n \in RunIds, StartRun(s, n) PROVE Goal
  BY <1>0, <1>1 DEF StartRun, Idle
<1>2. ASSUME NEW ids \in SUBSET Rules, LoadRules(s, ids) PROVE Goal
  BY <1>0, <1>2 DEF LoadRules
<1>3. ASSUME NEW r \in Rules, SkipUnhandled(s, r) PROVE Goal
  BY <1>0, <1>3 DEF SkipUnhandled
<1>4. ASSUME NEW r \in Rules, Evaluate(s, r) PROVE Goal
  BY <1>0, <1>4 DEF Evaluate
<1>5. ASSUME NEW r \in Rules, RuleUnavailable(s, r) PROVE Goal
  BY <1>0, <1>5 DEF RuleUnavailable
<1>6. ASSUME RuleInterrupted(s) PROVE Goal
  BY <1>0, <1>6 DEF RuleInterrupted, AfterFailure
<1>7. ASSUME NEW i \in Items, IgnoreItem(s, i) PROVE Goal
  BY <1>0, <1>7 DEF IgnoreItem
<1>8. ASSUME NEW i \in Items, NEW level \in {"skip", "error"}, SkipItem(s, i, level) PROVE Goal
  BY <1>0, <1>8 DEF SkipItem
<1>9. ASSUME NEW i \in Items, MatchItem(s, i) PROVE Goal
  BY <1>0, <1>9 DEF MatchItem
<1>10. ASSUME StageItem(s) PROVE Goal
  BY <1>0, <1>10 DEF StageItem
<1>11. ASSUME RuleDone(s) PROVE Goal
  BY <1>0, <1>11 DEF RuleDone, Plus
<1> HIDE DEF ScannedCovers
<1>12. ASSUME CompleteRun(s) \/ LogDangling(s) \/ ScanRaises(s) PROVE Goal
  BY <1>0, <1>i, <1>12 DEF CompleteRun, LogDangling, ScanRaises
<1>13. ASSUME OrphanScan(s) PROVE Goal
  BY <1>0, <1>i, <1>13 DEF OrphanScan
<1>14. Goal
  BY <1>1, <1>2, <1>3, <1>4, <1>5, <1>6, <1>7, <1>8, <1>9, <1>10, <1>11, <1>12, <1>13
  DEF ScanStep, RuleStep, Failure
<1> QED
  BY <1>14 DEF Goal

LEMMA ScannedInvStep == QueueInv /\ ScannedInv /\ [Next]_vars => ScannedInv'
<1> SUFFICES ASSUME QueueInv, ScannedInv, [Next]_vars PROVE ScannedInv'
  OBVIOUS
<1>0. TypeOK /\ ScannedCovers(Idle)
  BY DEF QueueInv, ScannedCovers, Idle, Zero
<1>1. CASE UNCHANGED vars
  BY <1>1 DEF vars, ScannedInv
<1>2. CASE Administration
  BY <1>2
  DEF Administration, ToggleRule, DeleteRule, ToggleIntegration, Settle, ScannedInv
<1>3. CASE Restart
  BY <1>0, <1>3 DEF Restart, ScannedInv
<1>4. ASSUME NEW s \in Sessions, ScanStep(s) \/ Failure(s) PROVE ScannedInv'
  BY <1>0, <1>4, StepOK, ScannedStep DEF ScannedInv
<1> QED
  BY <1>1, <1>2, <1>3, <1>4 DEF Next

\* The phase of a run, by its row and the sessions.
LEMMA PhaseIs ==
  ASSUME NEW n \in RunIds
  PROVE  /\ runs[n] = NoRun => Phase[n] = "none" /\ Counts[n] = Zero
         /\ runs[n] # NoRun /\ runs[n].status = "completed" =>
              Phase[n] = "closed" /\ Counts[n] = runs[n].counts
         /\ runs[n] # NoRun /\ runs[n].status # "completed" =>
              /\ Counts[n] = Zero
              /\ Phase[n] = IF \E s \in Sessions : Live(s) /\ session[s].run = n
                           THEN "open" ELSE "abandoned"
BY DEF Phase, Counts, NoRun

LEMMA PhaseFunction ==
  /\ Phase = [n \in RunIds |-> Phase[n]] /\ Phase' = [n \in RunIds |-> Phase'[n]]
  /\ Counts = [n \in RunIds |-> Counts[n]] /\ Counts' = [n \in RunIds |-> Counts'[n]]
BY DEF Phase, Counts

LEMMA LiveIsOpen ==
  ASSUME QueueInv, NEW s \in Sessions, Live(s)
  PROVE  session[s].run \in RunIds /\ Phase[session[s].run] = "open"
<1>1. /\ session[s].run \in RunIds
      /\ runs[session[s].run] # NoRun /\ runs[session[s].run].status = "running"
  BY LiveRun DEF QueueInv, OwnsRun
<1> QED
  BY <1>1, PhaseIs

\* A step that writes no table and takes up no run abandons some.
LEMMA AbandonStep ==
  ASSUME UNCHANGED <<runs, events, rows>>,
         \A t \in Sessions : Live(t)' => Live(t) /\ session'[t].run = session[t].run
  PROVE  History!Next
<1> DEFINE S == {n \in RunIds : Phase[n] = "open" /\ Phase'[n] # "open"}
<1>1. Counts' = Counts
  BY DEF Counts
<1>2. ASSUME NEW n \in RunIds
      PROVE  Phase'[n] = IF n \in S THEN "abandoned" ELSE Phase[n]
  BY <1>2 DEF Phase
<1>3. Phase' = [n \in RunIds |-> IF n \in S THEN "abandoned" ELSE Phase[n]]
  BY <1>2 DEF Phase
<1>4. History!Abandon(S)
  BY <1>1, <1>3 DEF History!Abandon
<1> QED
  BY <1>4 DEF History!Next

LEMMA LogContract ==
  ASSUME QueueInv, CountInv, NEW s \in Sessions, Logs(s),
         \A t \in Sessions : t # s => session'[t] = session[t]
  PROVE  History!Next
<1>1. PICK r \in rules, level \in {"match", "skip", "error"}, i \in Items \cup {None} :
        /\ LogEvent(s, r, level, i)
        /\ UNCHANGED <<rules, on, enabled, runs, rows, active, faults>>
        /\ Live(s) /\ Live(s)' /\ session[s].pc # "stage"
        /\ session'[s].run = session[s].run
        /\ i = None => level = "error"
        /\ IF session[s].pc = "rule" THEN r \in session[s].todo
           ELSE /\ session[s].pc = "items" /\ r = session[s].rule
                /\ i # None => i \in session[s].left
  BY LogsShape DEF QueueInv
<1> DEFINE n == session[s].run
           e == [rule |-> r, level |-> level, item |-> i]
<1>2. e \in History!Verdict /\ e.rule = r /\ e.item = i
  BY <1>1 DEF History!Verdict, QueueInv, TypeOK
<1>3. n \in RunIds /\ Phase[n] = "open" /\ NothingYet(session[s], events[n])
  BY <1>1, LiveIsOpen DEF CountInv, ScanCounts
<1>4. Phase' = Phase /\ Counts' = Counts
  <2>1. \A t \in Sessions : /\ Live(t)' <=> Live(t)
                            /\ Live(t) => session'[t].run = session[t].run
    BY <1>1 DEF Live
  <2> QED
    BY <1>1, <2>1 DEF Phase, Counts
<1>5. events' = [events EXCEPT ![n] = @ \cup {e}]
  BY <1>1 DEF LogEvent
<1> HIDE DEF e, n
<1>6. r \notin History!Failed(n)
  BY <1>1, <1>3 DEF History!Failed, NothingYet
<1>7. \A x \in events[n] : x.rule = r => x.item # i
  BY <1>1, <1>3 DEF NothingYet
<1>8. History!Log(n, e)
  BY <1>1, <1>2, <1>3, <1>4, <1>5, <1>6, <1>7 DEF History!Log
<1> QED
  BY <1>2, <1>3, <1>8 DEF History!Next

LEMMA StageContract ==
  ASSUME QueueInv, NEW s \in Sessions, StageItem(s),
         \A t \in Sessions : t # s => session'[t] = session[t]
  PROVE  History!Next \/ UNCHANGED History!vars
<1> DEFINE n == session[s].run
           e == [rule |-> session[s].rule, level |-> "match", item |-> session[s].item]
<1>1. /\ session[s].pc = "stage" /\ session'[s].pc = "items"
      /\ session'[s].run = n /\ UNCHANGED <<runs, events>>
  <2>1. session \in [Sessions -> Scan]
    BY DEF QueueInv, TypeOK
  <2> QED
    BY <2>1 DEF StageItem, Scan
<1>2. Phase' = Phase /\ Counts' = Counts
  BY <1>1 DEF Phase, Counts, Live
<1>3. n \in RunIds /\ Phase[n] = "open" /\ e \in events[n]
  BY <1>1, LiveIsOpen DEF Live, QueueInv, StagesWhatItLogged
<1>4. rows' = rows \/ rows' = rows \cup {[rule |-> e.rule, item |-> e.item]}
  BY DEF StageItem
<1>5. e.level = "match"
  OBVIOUS
<1> HIDE DEF n, e
<1>6. CASE rows' = rows
  BY <1>1, <1>2, <1>6 DEF History!vars
<1>7. CASE rows' = rows \cup {[rule |-> e.rule, item |-> e.item]}
  <2>1. History!Queue(n, e)
    BY <1>1, <1>2, <1>3, <1>5, <1>7 DEF History!Queue
  <2> QED
    BY <1>3, <2>1 DEF History!Next
<1> QED
  BY <1>4, <1>6, <1>7

\* The contract counts as the model does.
LEMMA SameCardinality == \A S : History!Cardinality(S) = Cardinality(S)
BY DEF Cardinality, History!Cardinality

LEMMA CloseContract ==
  ASSUME QueueInv, CountInv, ScannedInv, NEW s \in Sessions, CompleteRun(s),
         \A t \in Sessions : t # s => session'[t] = session[t]
  PROVE  History!Next
<1> DEFINE n == session[s].run
<1>1. /\ session[s].pc = "rule" /\ Live(s) /\ ~Live(s)'
      /\ runs' = [runs EXCEPT ![n].status = "completed", ![n].counts = session[s].total]
      /\ UNCHANGED <<events, rows>>
  BY DEF CompleteRun, Live, Leave, Idle, QueueInv, TypeOK
<1>2. /\ n \in RunIds /\ Phase[n] = "open" /\ runs[n] # NoRun /\ runs[n] \in Run
      /\ runs \in [RunIds -> Run \cup {NoRun}]
  BY <1>1, LiveIsOpen DEF QueueInv, OwnsRun, TypeOK
<1>3. \A e \in events[n] : e.level = "match" => \E p \in rows : p.item = e.item
  BY <1>1 DEF QueueInv, MatchesQueuedSoFar, Queued
<1>4. /\ runs'[n] # NoRun /\ runs'[n].status = "completed"
      /\ runs'[n].counts = session[s].total
      /\ \A m \in RunIds : m # n => runs'[m] = runs[m]
  BY <1>1, <1>2 DEF Run, NoRun
<1>5. /\ runs'[n].counts.matched = Cardinality({e \in Whole(n) : e.level = "match"})
      /\ runs'[n].counts.skipped = Cardinality({e \in Whole(n) : e.level # "match"})
      /\ runs'[n].counts.scanned >= runs'[n].counts.matched + runs'[n].counts.skipped
  BY <1>4, CompleteCounts DEF ScannedInv, ScannedCovers
<1>6. History!Whole(n) = Whole(n)
  BY DEF History!Whole, Whole, History!Failed, Failed
<1> HIDE DEF n
<1>7. Phase'[n] = "closed" /\ Counts'[n] = runs'[n].counts
  BY <1>2, <1>4 DEF Phase, Counts
<1>8. ASSUME NEW m \in RunIds, m # n
      PROVE  Phase'[m] = Phase[m] /\ Counts'[m] = Counts[m]
  <2>1. \A t \in Sessions : session[t].run = m /\ Live(t) => t # s
    BY <1>8 DEF n
  <2>2. \A t \in Sessions : session'[t].run = m /\ Live(t)' => t # s
    BY <1>1
  <2>3. (\E t \in Sessions : Live(t)' /\ session'[t].run = m)
          <=> (\E t \in Sessions : Live(t) /\ session[t].run = m)
    BY <2>1, <2>2 DEF Live
  <2> QED
    BY <1>4, <1>8, <2>3 DEF Phase, Counts
<1>9. Phase' = [Phase EXCEPT ![n] = "closed"] /\ Counts' = [Counts EXCEPT ![n] = Counts'[n]]
  BY <1>2, <1>7, <1>8, PhaseFunction
<1>10. History!Close(n)
  <2>1. /\ Counts'[n].matched
             = History!Cardinality({v \in History!Whole(n) : v.level = "match"})
        /\ Counts'[n].skipped
             = History!Cardinality({v \in History!Whole(n) : v.level # "match"})
        /\ Counts'[n].scanned >= Counts'[n].matched + Counts'[n].skipped
    BY <1>5, <1>6, <1>7, SameCardinality
  <2> QED
    BY <1>1, <1>2, <1>3, <1>9, <2>1 DEF History!Close
<1> QED
  BY <1>2, <1>10 DEF History!Next

LEMMA OpenContract ==
  ASSUME QueueInv, NEW s \in Sessions, NEW n \in RunIds, StartRun(s, n),
         \A t \in Sessions : t # s => session'[t] = session[t]
  PROVE  History!Next
<1>1. /\ runs[n] = NoRun /\ runs \in [RunIds -> Run \cup {NoRun}]
      /\ runs'[n] = [status |-> "running", by |-> s, counts |-> Zero]
      /\ \A m \in RunIds : m # n => runs'[m] = runs[m]
      /\ session'[s].run = n /\ Live(s)' /\ ~Live(s)
      /\ UNCHANGED <<events, rows>>
  BY DEF StartRun, QueueInv, TypeOK, Idle, Live
<1>2. Phase[n] = "none" /\ Counts[n] = Zero
  BY <1>1, PhaseIs
<1>3. Phase'[n] = "open" /\ Counts'[n] = Zero
  BY <1>1 DEF Phase, Counts, NoRun
<1>4. ASSUME NEW m \in RunIds, m # n
      PROVE  Phase'[m] = Phase[m] /\ Counts'[m] = Counts[m]
  <2>1. (\E t \in Sessions : Live(t)' /\ session'[t].run = m)
          <=> (\E t \in Sessions : Live(t) /\ session[t].run = m)
    BY <1>1, <1>4 DEF Live
  <2> QED
    BY <1>1, <1>4, <2>1 DEF Phase, Counts
<1>5. Phase' = [Phase EXCEPT ![n] = "open"] /\ Counts' = Counts
  BY <1>2, <1>3, <1>4, PhaseFunction
<1>6. History!Open(n)
  BY <1>1, <1>2, <1>5 DEF History!Open
<1> QED
  BY <1>6 DEF History!Next

LEMMA HistoryStep ==
  ASSUME QueueInv, CountInv, ScannedInv, [Next]_vars
  PROVE  [History!Next]_(History!vars)
<1>1. CASE UNCHANGED vars
  BY <1>1, AbandonStep DEF vars, Live
<1>2. CASE Administration
  <2>1. UNCHANGED <<runs, events, rows, session>>
    BY <1>2 DEF Administration, ToggleRule, DeleteRule, ToggleIntegration, Settle
  <2> QED
    BY <2>1, AbandonStep DEF Live
<1>3. CASE Restart
  <2>1. UNCHANGED <<runs, events, rows>> /\ \A s \in Sessions : ~Live(s)'
    BY <1>3 DEF Restart, Live, Idle
  <2> QED
    BY <2>1, AbandonStep
<1>4. ASSUME NEW s \in Sessions, ScanStep(s) \/ Failure(s)
      PROVE  [History!Next]_(History!vars)
  <2>1. \A t \in Sessions : t # s => session'[t] = session[t]
    BY <1>4, StepOK DEF QueueInv
  <2>2. CASE Reads(s)
    <3>1. /\ UNCHANGED <<runs, events, rows>>
          /\ \A t \in Sessions : Live(t)' => Live(t) /\ session'[t].run = session[t].run
      BY <2>1, <2>2, ReadsShape DEF QueueInv, Live
    <3> QED
      BY <3>1, AbandonStep
  <2> QED
    BY <1>4, <2>1, <2>2, StepKinds, LogContract, StageContract, CloseContract, OpenContract
<1> QED
  BY <1>1, <1>2, <1>3, <1>4 DEF Next

LEMMA HistoryInit == Init => History!Init
<1> SUFFICES ASSUME Init PROVE History!Init
  OBVIOUS
<1>1. \A n \in RunIds : runs[n] = NoRun
  BY DEF Init
<1>2. Phase = [n \in RunIds |-> "none"] /\ Counts = [n \in RunIds |-> Zero]
  BY <1>1 DEF Phase, Counts, NoRun
<1> QED
  BY <1>2 DEF Init, History!Init, History!Zero, Zero

\* The rule engine keeps the promises of History, whatever scans, faults and
\* administration there are at the same time.
THEOREM Implementation == Spec => ImplementsHistory
<1>1. Init => ScannedInv
  BY DEF Init, ScannedInv, ScannedCovers, Idle, Zero
<1>2. Spec => [](QueueInv /\ CountInv /\ ScannedInv)
  BY <1>1, InitQueueInv, InitCountInv, QueueInvStep, CountInvStep, ScannedInvStep, PTL DEF Spec
<1>3. QueueInv /\ CountInv /\ ScannedInv /\ [Next]_vars => [History!Next]_(History!vars)
  BY HistoryStep
<1> QED
  BY <1>2, <1>3, HistoryInit, PTL DEF Spec, ImplementsHistory, History!Spec
=============================================================================
