--------------------------- MODULE AuthRefinement ---------------------------
(***************************************************************************)
(* Auth implements SessionContract.  A request has the authority of a      *)
(* session from the query that finds it live and verified; the rows it     *)
(* reads afterwards may have changed by the time it commits.               *)
(***************************************************************************)
EXTENDS Auth

Token == [t \in Tokens |->
  IF sessions[t] = "unused" THEN "unused"
  ELSE IF sessions[t] # "live" THEN "over"
  ELSE IF verified[t] THEN "full" ELSE "half"]

Who == [r \in Requests |->
  IF req[r].op \in Commands THEN "operator"
  ELSE IF req[r].op \in Guarded /\ req[r].verified THEN "session"
  ELSE "nobody"]

Signing == INSTANCE SessionContract
  WITH Accounts <- User, NoAccount <- NoUser,
       locked <- (method = "basic"), account <- user, token <- Token, who <- Who

\* Every behaviour of the handlers and commands is one the sign-in promises, in
\* whatever order their queries and commits fall: what is changed is changed for
\* an operator or for a request that a full session admitted, switching on takes
\* the account of nobody, and no late write gives a finished session back.
\* (auth/dependencies.py:20-45, api/routes/auth.py, cli.py)
ImplementsSigning == Signing!Spec
=============================================================================
