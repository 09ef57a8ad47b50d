------------------------------ MODULE RuleScan ------------------------------
(***************************************************************************)
(* The rule engine: scans (the daily job and "Run now" requests, possibly  *)
(* at the same time) load the enabled rules, evaluate one after the other  *)
(* against the integrations, write a run_events row for what they decide,  *)
(* stage the matches and complete their runs row.  Meanwhile rules are     *)
(* switched on and off and deleted, and services are enabled and disabled. *)
(*                                                                         *)
(* What a rule decides about an item is left open here.  Staging is one    *)
(* step: its races are the subject of DeletionQueue.                       *)
(***************************************************************************)
EXTENDS Integers, FiniteSets

CONSTANTS
  Rules,        \* primary keys of the rules table
  Needs,        \* Needs[r]: the services r's handler asks a client for
  Unhandled,    \* rules of type orphaned_scan, which have no handler
  Incremental,  \* rules that call a service between two items
  Items,        \* media, one dedupe key each
  RunIds,       \* primary keys of the runs table (bounds the scans)
  Daily,        \* the session of the scheduled job
  Manual,       \* sessions that serve "Run now" requests
  Toggles,      \* rules an administrator switches or deletes, services too
  MaxFaults,    \* bound: crashes and unexpected exceptions
  None          \* no run, rule or item

Services == UNION {Needs[r] : r \in Rules}
Sessions == {Daily} \cup Manual

ASSUME ScanAssumption ==
  /\ Unhandled \subseteq Rules /\ Incremental \subseteq Rules
  /\ IsFiniteSet(Items) /\ IsFiniteSet(Rules)
  /\ Daily \notin Manual
  /\ None \notin Items \cup Rules \cup RunIds
  /\ MaxFaults \in Nat

VARIABLES
  rules,     \* the rules table: the ids that exist
  on,        \* rules with enabled = True
  enabled,   \* integrations switched on
  runs,      \* the runs table
  events,    \* events[n]: the run_events rows of run n
  rows,      \* the pending_deletions table: which rule staged which item
  active,    \* items with a row that is pending or executing
  session,   \* session[s]: the scan s is busy with
  faults

vars == <<rules, on, enabled, runs, events, rows, active, session, faults>>
----------------------------------------------------------------------------
RunStatus == {"running", "completed"}

Tally == [scanned : Nat, matched : Nat, skipped : Nat]
Zero  == [scanned |-> 0, matched |-> 0, skipped |-> 0]

\* Mutant: the items scanned are not added up.
PlusVerdicts(a, b) == [a EXCEPT !.matched = @ + b.matched, !.skipped = @ + b.skipped]

Plus(a, b) == [scanned |-> a.scanned + b.scanned, matched |-> a.matched + b.matched,
               skipped |-> a.skipped + b.skipped]

Run   == [status : RunStatus, by : Sessions, counts : Tally]
NoRun == [status |-> "unused"]

\* An event about an item, or (item None) about the failure of a whole rule.
RunEvent == [rule : Rules, level : {"match", "skip", "error"}, item : Items \cup {None}]

PendingRow == [rule : Rules, item : Items]

\* A scan between two awaits.  todo: rules loaded and not evaluated yet; rule
\* and left: the rule in hand and the listed items it has not come to; item: a
\* match logged and not staged yet; clients: the services RuleContext holds a
\* client for; result and total: the counts of the rule in hand and of the run.
Scan ==
  [pc : {"idle", "load", "rule", "items", "stage", "orphans"},
   run : RunIds \cup {None}, todo : SUBSET Rules, rule : Rules \cup {None},
   left : SUBSET Items, item : Items \cup {None}, clients : SUBSET Services,
   result : Tally, total : Tally]

Idle == [pc |-> "idle", run |-> None, todo |-> {}, rule |-> None, left |-> {},
         item |-> None, clients |-> {}, result |-> Zero, total |-> Zero]

Init ==
  /\ rules = Rules
  /\ on \in SUBSET Rules /\ Rules \ on \subseteq Toggles
  /\ enabled = Services
  /\ runs = [n \in RunIds |-> NoRun]
  /\ events = [n \in RunIds |-> {}]
  /\ rows = {} /\ active = {}
  /\ session = [s \in Sessions |-> Idle]
  /\ faults = 0
----------------------------------------------------------------------------
(* The rules and integrations pages, and the end of a deletion.            *)

ToggleRule(r) ==
  /\ r \in rules
  /\ on' = IF r \in on THEN on \ {r} ELSE on \cup {r}
  /\ UNCHANGED <<rules, enabled, runs, events, rows, active, session, faults>>

\* Mutant: run_events are forgotten.
QueuedBy(r) == \E p \in rows : p.rule = r

\* Rows that refer to the rule, in run_events and pending_deletions.
Referenced(r) ==
  \/ \E n \in RunIds : \E e \in events[n] : e.rule = r
  \/ \E p \in rows : p.rule = r

\* The foreign keys have no ON DELETE: with a reference left the request fails.
DeleteRule(r) ==
  /\ r \in rules /\ ~Referenced(r)
  /\ rules' = rules \ {r}
  /\ on' = on \ {r}
  /\ UNCHANGED <<enabled, runs, events, rows, active, session, faults>>

ToggleIntegration(service) ==
  /\ enabled' = IF service \in enabled THEN enabled \ {service}
                                       ELSE enabled \cup {service}
  /\ UNCHANGED <<rules, on, runs, events, rows, active, session, faults>>

\* A row is executed or cancelled: its dedupe key is free again.
Settle(i) ==
  /\ i \in active
  /\ active' = active \ {i}
  /\ UNCHANGED <<rules, on, enabled, runs, events, rows, session, faults>>
----------------------------------------------------------------------------
(* run_scan.                                                               *)

\* The runs row is committed before anything else happens.
StartRun(s, n) ==
  /\ session[s].pc = "idle"
  /\ runs[n] = NoRun
  /\ runs' = [runs EXCEPT ![n] = [status |-> "running", by |-> s, counts |-> Zero]]
  /\ session' = [session EXCEPT ![s] = [Idle EXCEPT !.pc = "load", !.run = n]]
  /\ UNCHANGED <<rules, on, enabled, events, rows, active, faults>>

\* The scheduled job takes every enabled rule, a request the ids it names.
LoadRules(s, ids) ==
  /\ session[s].pc = "load"
  /\ s = Daily => ids = Rules
  /\ session' = [session EXCEPT ![s].pc = "rule", ![s].todo = on \cap ids]
  /\ UNCHANGED <<rules, on, enabled, runs, events, rows, active, faults>>

SkipUnhandled(s, r) ==
  /\ session[s].pc = "rule" /\ r \in session[s].todo
  /\ r \in Unhandled
  /\ session' = [session EXCEPT ![s].todo = @ \ {r}]
  /\ UNCHANGED <<rules, on, enabled, runs, events, rows, active, faults>>

\* The handler gets its clients, from the context if the scan already built
\* them, and lists what the library holds.
Evaluate(s, r) ==
  /\ session[s].pc = "rule" /\ r \in session[s].todo \ Unhandled
  /\ Needs[r] \subseteq enabled \cup session[s].clients
  /\ \E listed \in SUBSET Items :
       session' = [session EXCEPT ![s].pc = "items", ![s].todo = @ \ {r},
                     ![s].rule = r, ![s].left = listed, ![s].result = Zero,
                     ![s].clients = @ \cup Needs[r]]
  /\ UNCHANGED <<rules, on, enabled, runs, events, rows, active, faults>>

\* log_event commits a row that refers to the rule.
CanLog(r) == r \in rules

LogEvent(s, r, level, i) ==
  events' = [events EXCEPT ![session[s].run] =
               @ \cup {[rule |-> r, level |-> level, item |-> i]}]

\* Mutant: the scan's state is not given up.
LeaveUnfinished(s) ==
  IF s = Daily THEN [session[s] EXCEPT !.pc = "orphans"] ELSE Idle

\* Where the job goes when run_scan returns or raises.
Leave(s) ==
  IF s = Daily THEN [Idle EXCEPT !.pc = "orphans", !.run = session[s].run] ELSE Idle

\* A rule fails with IntegrationError before its first item, because a service
\* is disabled or not reached: one error event, and the next rule.
RuleUnavailable(s, r) ==
  /\ session[s].pc = "rule" /\ r \in session[s].todo \ Unhandled
  /\ CanLog(r)
  /\ LogEvent(s, r, "error", None)
  /\ \E built \in SUBSET (Needs[r] \cap enabled) :
       session' = [session EXCEPT ![s].todo = @ \ {r}, ![s].clients = @ \cup built]
  /\ UNCHANGED <<rules, on, enabled, runs, rows, active, faults>>

\* Mutant: the counts of a rule that fails half way are kept.
CountPartial(scan) == Plus(scan.total, scan.result)

\* The total after a rule failed: its result is lost with the exception.
AfterFailure(scan) == scan.total

\* The same half way through the items.
RuleInterrupted(s) ==
  LET scan == session[s] IN
  /\ scan.pc = "items" /\ scan.rule \in Incremental
  /\ CanLog(scan.rule)
  /\ LogEvent(s, scan.rule, "error", None)
  /\ session' = [session EXCEPT ![s].pc = "rule", ![s].rule = None,
                   ![s].left = {}, ![s].result = Zero, ![s].total = AfterFailure(scan)]
  /\ UNCHANGED <<rules, on, enabled, runs, rows, active, faults>>

\* Nothing to do about the item: not watched, not past the threshold.
IgnoreItem(s, i) ==
  /\ session[s].pc = "items" /\ i \in session[s].left
  /\ session' = [session EXCEPT ![s].left = @ \ {i}, ![s].result.scanned = @ + 1]
  /\ UNCHANGED <<rules, on, enabled, runs, events, rows, active, faults>>

\* A favourite, or an item that cannot be found elsewhere: both count as skipped.
SkipItem(s, i, level) ==
  /\ session[s].pc = "items" /\ i \in session[s].left
  /\ CanLog(session[s].rule)
  /\ LogEvent(s, session[s].rule, level, i)
  /\ session' = [session EXCEPT ![s].left = @ \ {i}, ![s].result.scanned = @ + 1,
                   ![s].result.skipped = @ + 1]
  /\ UNCHANGED <<rules, on, enabled, runs, rows, active, faults>>

\* Mutant: the match is logged after staging, so not if that fails.
MatchUnlogged(s, i) ==
  /\ session[s].pc = "items" /\ i \in session[s].left
  /\ CanLog(session[s].rule)
  /\ session' = [session EXCEPT ![s].pc = "stage", ![s].item = i,
                   ![s].left = @ \ {i}, ![s].result.scanned = @ + 1]
  /\ UNCHANGED <<rules, on, enabled, runs, events, rows, active, faults>>

MatchItem(s, i) ==
  /\ session[s].pc = "items" /\ i \in session[s].left
  /\ CanLog(session[s].rule)
  /\ LogEvent(s, session[s].rule, "match", i)
  /\ session' = [session EXCEPT ![s].pc = "stage", ![s].item = i,
                   ![s].left = @ \ {i}, ![s].result.scanned = @ + 1]
  /\ UNCHANGED <<rules, on, enabled, runs, rows, active, faults>>

\* Mutant: a rule switched off meanwhile stages nothing.
StageIfOn(s) ==
  LET scan == session[s] IN
  /\ scan.pc = "stage"
  /\ rows' = IF scan.item \in active \/ scan.rule \notin on THEN rows
             ELSE rows \cup {[rule |-> scan.rule, item |-> scan.item]}
  /\ active' = IF scan.rule \in on THEN active \cup {scan.item} ELSE active
  /\ session' = [session EXCEPT ![s].pc = "items", ![s].item = None,
                   ![s].result.matched = @ + 1]
  /\ UNCHANGED <<rules, on, enabled, runs, events, faults>>

\* stage: a row unless one is active; counted as matched either way.
StageItem(s) ==
  LET scan == session[s] IN
  /\ scan.pc = "stage"
  /\ rows' = IF scan.item \in active THEN rows
             ELSE rows \cup {[rule |-> scan.rule, item |-> scan.item]}
  /\ active' = active \cup {scan.item}
  /\ session' = [session EXCEPT ![s].pc = "items", ![s].item = None,
                   ![s].result.matched = @ + 1]
  /\ UNCHANGED <<rules, on, enabled, runs, events, faults>>

RuleDone(s) ==
  LET scan == session[s] IN
  /\ scan.pc = "items" /\ scan.left = {}
  /\ session' = [session EXCEPT ![s].pc = "rule", ![s].rule = None,
                   ![s].result = Zero, ![s].total = Plus(@, scan.result)]
  /\ UNCHANGED <<rules, on, enabled, runs, events, rows, active, faults>>

\* The counts and the status in one commit.
CompleteRun(s) ==
  LET scan == session[s] IN
  /\ scan.pc = "rule" /\ scan.todo = {}
  /\ runs' = [runs EXCEPT ![scan.run].status = "completed",
                          ![scan.run].counts = scan.total]
  /\ session' = [session EXCEPT ![s] = Leave(s)]
  /\ UNCHANGED <<rules, on, enabled, events, rows, active, faults>>

\* _run_scheduled_scan goes on to the orphaned-file scan (OrphanedScan) with the
\* same session; until that is over the daily job does not start again.
OrphanScan(s) ==
  /\ session[s].pc = "orphans"
  /\ session' = [session EXCEPT ![s] = Idle]
  /\ UNCHANGED <<rules, on, enabled, runs, events, rows, active, faults>>
----------------------------------------------------------------------------
(* What ends a scan early.                                                 *)

\* The rule in hand was deleted: the insert of an event breaks the foreign key
\* and the IntegrityError leaves run_scan.
LogDangling(s) ==
  /\ \/ /\ session[s].pc = "items" /\ ~CanLog(session[s].rule)
        /\ session[s].left # {} \/ session[s].rule \in Incremental
     \/ session[s].pc = "rule" /\ \E r \in session[s].todo \ Unhandled : ~CanLog(r)
  /\ session' = [session EXCEPT ![s] = Leave(s)]
  /\ UNCHANGED <<rules, on, enabled, runs, events, rows, active, faults>>

\* Any other exception: a body that is no JSON, a key that cannot be decrypted,
\* a malformed webhook URL, or a locked database.
ScanRaises(s) ==
  /\ faults < MaxFaults
  /\ session[s].pc \notin {"idle", "orphans"}
  /\ session' = [session EXCEPT ![s] = Leave(s)]
  /\ faults' = faults + 1
  /\ UNCHANGED <<rules, on, enabled, runs, events, rows, active>>

Restart ==
  /\ faults < MaxFaults
  /\ session' = [s \in Sessions |-> Idle]
  /\ faults' = faults + 1
  /\ UNCHANGED <<rules, on, enabled, runs, events, rows, active>>
----------------------------------------------------------------------------
Administration ==
  \/ \E r \in Rules \cap Toggles : ToggleRule(r) \/ DeleteRule(r)
  \/ \E service \in Services \cap Toggles : ToggleIntegration(service)
  \/ \E i \in Items : Settle(i)

RuleStep(s) ==
  \/ \E r \in Rules : SkipUnhandled(s, r) \/ Evaluate(s, r) \/ RuleUnavailable(s, r)
  \/ RuleInterrupted(s)
  \/ \E i \in Items : \/ IgnoreItem(s, i)
                      \/ \E level \in {"skip", "error"} : SkipItem(s, i, level)
                      \/ MatchItem(s, i)
  \/ StageItem(s)
  \/ RuleDone(s)

ScanStep(s) ==
  \/ \E n \in RunIds : StartRun(s, n)
  \/ \E ids \in SUBSET Rules : LoadRules(s, ids)
  \/ RuleStep(s)
  \/ CompleteRun(s)
  \/ OrphanScan(s)

Failure(s) == LogDangling(s) \/ ScanRaises(s)

Next ==
  \/ Administration
  \/ \E s \in Sessions : ScanStep(s) \/ Failure(s)
  \/ Restart

Spec == Init /\ [][Next]_vars
----------------------------------------------------------------------------
(* Properties.                                                             *)

\* Every variable has its type, and a scan holds a run, a rule and an item just
\* while it works on them.
TypeOK ==
  /\ rules \in SUBSET Rules /\ on \in SUBSET rules /\ enabled \in SUBSET Services
  /\ runs \in [RunIds -> Run \cup {NoRun}]
  /\ events \in [RunIds -> SUBSET RunEvent]
  /\ rows \in SUBSET PendingRow /\ active \in SUBSET Items
  /\ session \in [Sessions -> Scan]
  /\ \A s \in Sessions :
       /\ session[s].run = None <=> session[s].pc = "idle"
       /\ session[s].rule = None <=> session[s].pc \notin {"items", "stage"}
       /\ session[s].item = None <=> session[s].pc # "stage"
  /\ faults \in Nat

\* Nothing is queued without a match event that says why, over crashes and
\* aborted scans (log_event commits before stage).
RowHasReason ==
  \A p \in rows : \E n \in RunIds :
    [rule |-> p.rule, level |-> "match", item |-> p.item] \in events[n]

\* What a completed run reports as matched has been queued, by it or before,
\* whatever happened to the rule meanwhile (stage returns None only for an item
\* with an active row).
MatchIsQueued ==
  \A n \in RunIds : runs[n].status = "completed" =>
    \A e \in events[n] : e.level = "match" => \E p \in rows : p.item = e.item

\* Events and rows refer to rules that exist.  StageItem does not look: the
\* match event written before it keeps the rule from being deleted.
ReferencesHold ==
  /\ \A n \in RunIds : \A e \in events[n] : e.rule \in rules
  /\ \A p \in rows : p.rule \in rules

\* Rules that failed in run n, and the events of the others.
Failed(n) == {e.rule : e \in {x \in events[n] : x.item = None}}
Whole(n)  == {e \in events[n] : e.rule \notin Failed(n)}

\* The counts of a completed run are those of the rules that did not fail in
\* it: every match counted once, every favourite and every item not found as
\* skipped (run_scan adds up what evaluate returns).
CountsCoverFinishedRules ==
  \A n \in RunIds : runs[n].status = "completed" =>
    /\ runs[n].counts.matched = Cardinality({e \in Whole(n) : e.level = "match"})
    /\ runs[n].counts.skipped = Cardinality({e \in Whole(n) : e.level # "match"})
=============================================================================
