-------------------------- MODULE DeletionContract --------------------------
(***************************************************************************)
(* What the deletion queue promises about the one thing that cannot be     *)
(* undone: an attempt to delete a medium.  Each queue entry gets a         *)
(* deadline when it is created and keeps it; it is attempted at most once, *)
(* not before its deadline and never after it was withdrawn; an attempt is *)
(* reported at most once, after it was made.                               *)
(***************************************************************************)
EXTENDS Integers

CONSTANT Ids  \* the entries there may ever be

VARIABLES
  now,        \* the current hour
  deadline,   \* deadline[r]: the hour from which r may be attempted
  withdrawn,  \* entries withdrawn in time
  attempted,  \* entries whose deletion was begun
  reported    \* entries whose attempt has been reported

vars == <<now, deadline, withdrawn, attempted, reported>>

\* The deadline of an entry not created yet.
NoDeadline == -1

Entries == {r \in Ids : deadline[r] # NoDeadline}

Init ==
  /\ now = 0
  /\ deadline = [r \in Ids |-> NoDeadline]
  /\ withdrawn = {} /\ attempted = {} /\ reported = {}

Pass ==
  /\ now' = now + 1
  /\ UNCHANGED <<deadline, withdrawn, attempted, reported>>

Create(r) ==
  /\ r \in Ids \ Entries
  /\ deadline'[r] >= now
  /\ deadline' = [deadline EXCEPT ![r] = deadline'[r]]
  /\ UNCHANGED <<now, withdrawn, attempted, reported>>

Withdraw(R) ==
  /\ R \subseteq Entries \ attempted
  /\ withdrawn' = withdrawn \cup R
  /\ UNCHANGED <<now, deadline, attempted, reported>>

Attempt(r) ==
  /\ r \in Entries \ (withdrawn \cup attempted)
  /\ deadline[r] <= now
  /\ attempted' = attempted \cup {r}
  /\ UNCHANGED <<now, deadline, withdrawn, reported>>

Report(r) ==
  /\ r \in attempted \ reported
  /\ reported' = reported \cup {r}
  /\ UNCHANGED <<now, deadline, withdrawn, attempted>>

Next ==
  \/ Pass
  \/ \E r \in Ids : Create(r) \/ Attempt(r) \/ Report(r)
  \/ \E R \in SUBSET Ids : Withdraw(R)

Spec == Init /\ [][Next]_vars
=============================================================================
