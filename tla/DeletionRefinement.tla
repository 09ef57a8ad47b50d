------------------------- MODULE DeletionRefinement -------------------------
(***************************************************************************)
(* DeletionQueue implements DeletionContract.  A row is an entry once it   *)
(* is inserted; "in time" means cancelled while the executor does not hold *)
(* it; an attempt is the commit of "executing" and the report the          *)
(* action_log row.                                                         *)
(***************************************************************************)
EXTENDS DeletionQueue

Deadline  == [r \in Ids |-> IF r \in Used THEN rows[r].executeAfter ELSE -1]
Withdrawn == {r \in Used : rows[r].status = "cancelled" /\ r \notin Held /\ begun[r] = 0}
Attempted == {r \in Ids : begun[r] > 0}
Reported  == {r \in Ids : actionLog[r] # <<>>}

Contract == INSTANCE DeletionContract
  WITH now <- clock, deadline <- Deadline, withdrawn <- Withdrawn,
       attempted <- Attempted, reported <- Reported

\* Every behaviour of the queue is one the contract allows: no row is deleted
\* early, twice, or after a cancellation made while the executor did not hold
\* it, and what is logged was attempted.
ImplementsContract == Contract!Spec
=============================================================================
