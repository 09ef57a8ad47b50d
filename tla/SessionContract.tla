-------------------------- MODULE SessionContract --------------------------
(***************************************************************************)
(* What signing in promises.  The account, and whether it takes a login to *)
(* get in, are changed only on somebody's authority: an operator at the    *)
(* command line, or a request that was admitted by a session that had      *)
(* passed every check.  Only locking the door needs no authority, it takes *)
(* no account away and lets nobody stay in.  A session is over for good.   *)
(***************************************************************************)
CONSTANTS Requests, Tokens, Accounts, NoAccount

VARIABLES
  locked,   \* whether a login is asked for
  account,  \* whom it lets in, or NoAccount
  token,    \* token[t]: unused, half (its code is still to come), full or over
  who       \* who[r]: nobody, session or operator

vars == <<locked, account, token, who>>

Init ==
  /\ locked = FALSE /\ account = NoAccount
  /\ token = [t \in Tokens |-> "unused"]
  /\ who = [r \in Requests |-> "nobody"]

AllOver == token' = [t \in Tokens |-> IF token[t] = "unused" THEN "unused" ELSE "over"]

Become(r, authority) == who' = [who EXCEPT ![r] = authority]

Issue(t) ==
  /\ token[t] = "unused" /\ account # NoAccount
  /\ \E level \in {"half", "full"} : token' = [token EXCEPT ![t] = level]
  /\ UNCHANGED <<locked, account, who>>

Raise(t) ==
  /\ token[t] = "half" /\ account # NoAccount
  /\ token' = [token EXCEPT ![t] = "full"]
  /\ UNCHANGED <<locked, account, who>>

Finish(t) ==
  /\ token[t] \in {"half", "full"}
  /\ token' = [token EXCEPT ![t] = "over"]
  /\ UNCHANGED <<locked, account, who>>

Command(r) ==
  /\ who[r] = "nobody" /\ Become(r, "operator")
  /\ UNCHANGED <<locked, account, token>>

Admit(r) ==
  /\ who[r] = "nobody" /\ Become(r, "session")
  /\ locked
  /\ \E t \in Tokens : token[t] = "full"
  /\ UNCHANGED <<locked, account, token>>

\* Requests end, one by one or all at a restart.
Leave(R) ==
  /\ UNCHANGED <<locked, account, token>>
  /\ who' = [r \in Requests |-> IF r \in R THEN "nobody" ELSE who[r]]

Change(r) ==
  /\ who[r] # "nobody" /\ Become(r, "nobody")
  /\ account' \in Accounts
  /\ UNCHANGED <<locked, token>>

Unlock(r) ==
  /\ who[r] # "nobody" /\ Become(r, "nobody")
  /\ locked' = FALSE /\ AllOver
  /\ UNCHANGED account

Lock ==
  /\ locked' = TRUE /\ AllOver
  /\ account' \in Accounts /\ (account # NoAccount => account' = account)
  /\ UNCHANGED who

Next ==
  \/ \E R \in SUBSET Requests : Leave(R)
  \/ \E r \in Requests : Command(r) \/ Admit(r) \/ Change(r) \/ Unlock(r)
  \/ \E t \in Tokens : Issue(t) \/ Raise(t) \/ Finish(t)
  \/ Lock

Spec == Init /\ [][Next]_vars
=============================================================================
