------------------------- MODULE HistoryRefinement -------------------------
(***************************************************************************)
(* RuleScan implements HistoryContract.  A run is open while a session is  *)
(* inside run_scan with it.  The code keeps no "abandoned": such a run     *)
(* stays "running" in the table for ever.                                  *)
(***************************************************************************)
EXTENDS RuleScan

\* The session is inside run_scan.
Live(s) == session[s].pc \notin {"idle", "orphans"}

Phase == [n \in RunIds |->
  IF runs[n] = NoRun THEN "none"
  ELSE IF runs[n].status = "completed" THEN "closed"
  ELSE IF \E s \in Sessions : Live(s) /\ session[s].run = n THEN "open" ELSE "abandoned"]

Counts == [n \in RunIds |-> IF runs[n].status = "completed" THEN runs[n].counts ELSE Zero]

History == INSTANCE HistoryContract
  WITH Runs <- RunIds, phase <- Phase, log <- events, counts <- Counts, queue <- rows

\* Every behaviour of the rule engine is one History promises: verdicts come one
\* per rule and item, none after a rule failed or a run is over, and a run ends
\* with the counts of what it logged and everything it matched in the queue.
\* (engine.py run_scan, log_event and stage, whatever runs at the same time)
ImplementsHistory == History!Spec
=============================================================================
