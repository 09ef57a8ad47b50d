-------------------------- MODULE HistoryContract --------------------------
(***************************************************************************)
(* What History promises about rule scans.  A run is opened, is given at   *)
(* most one verdict per rule and listed item, and is then closed or        *)
(* abandoned: nothing is written to it afterwards.  A rule that failed     *)
(* says no more in that run.  An item is queued only for a match that an   *)
(* open run has logged.  A run is closed when all it matched is queued,    *)
(* with the counts of the rules that did not fail.                         *)
(***************************************************************************)
EXTENDS Integers, FiniteSets

CONSTANTS Runs, Rules, Items, None

VARIABLES
  phase,   \* phase[n]: none, open, closed or abandoned
  log,     \* log[n]: the verdicts of run n
  counts,  \* counts[n]: what a closed run reports
  queue    \* which rule queued which item

vars == <<phase, log, counts, queue>>

Zero == [scanned |-> 0, matched |-> 0, skipped |-> 0]

\* A verdict about an item, or (item None) the failure of a whole rule.
Verdict == {v \in [rule : Rules, level : {"match", "skip", "error"}, item : Items \cup {None}] :
              v.item = None => v.level = "error"}

Failed(n) == {v.rule : v \in {x \in log[n] : x.item = None}}
Whole(n)  == {v \in log[n] : v.rule \notin Failed(n)}

Init ==
  /\ phase = [n \in Runs |-> "none"]
  /\ log = [n \in Runs |-> {}]
  /\ counts = [n \in Runs |-> Zero]
  /\ queue = {}

Open(n) ==
  /\ phase[n] = "none"
  /\ phase' = [phase EXCEPT ![n] = "open"]
  /\ UNCHANGED <<log, counts, queue>>

Log(n, v) ==
  /\ phase[n] = "open"
  /\ v.rule \notin Failed(n)
  /\ \A x \in log[n] : x.rule = v.rule => x.item # v.item
  /\ log' = [log EXCEPT ![n] = @ \cup {v}]
  /\ UNCHANGED <<phase, counts, queue>>

Queue(n, v) ==
  /\ phase[n] = "open"
  /\ v.level = "match"
  /\ queue' = queue \cup {[rule |-> v.rule, item |-> v.item]}
  /\ UNCHANGED <<phase, log, counts>>

Close(n) ==
  /\ phase[n] = "open"
  /\ \A v \in log[n] : v.level = "match" => \E p \in queue : p.item = v.item
  /\ counts'[n].matched = Cardinality({v \in Whole(n) : v.level = "match"})
  /\ counts'[n].skipped = Cardinality({v \in Whole(n) : v.level # "match"})
  /\ counts'[n].scanned >= counts'[n].matched + counts'[n].skipped
  /\ counts' = [counts EXCEPT ![n] = counts'[n]]
  /\ phase' = [phase EXCEPT ![n] = "closed"]
  /\ UNCHANGED <<log, queue>>

\* A restart abandons every open run at once.
Abandon(S) ==
  /\ \A n \in S : phase[n] = "open"
  /\ phase' = [n \in Runs |-> IF n \in S THEN "abandoned" ELSE phase[n]]
  /\ UNCHANGED <<log, counts, queue>>

Next ==
  \/ \E S \in SUBSET Runs : Abandon(S)
  \/ \E n \in Runs : Open(n) \/ Close(n) \/ \E v \in log[n] : Queue(n, v)
  \/ \E n \in Runs, v \in Verdict : Log(n, v)

Spec == Init /\ [][Next]_vars
=============================================================================
