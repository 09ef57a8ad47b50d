-------------------------------- MODULE Auth --------------------------------
(***************************************************************************)
(* Authentication: the method in app_settings, the single user row with    *)
(* its TOTP secret, and the sessions.  Requests read them in separate      *)
(* queries and write in one commit; recovery commands do the same from     *)
(* another process.  SQLAlchemy writes only the columns that differ from   *)
(* what was loaded.                                                        *)
(***************************************************************************)
EXTENDS Integers, FiniteSets

CONSTANTS
  Requests,     \* requests and commands in flight
  Tokens,       \* bound: sessions ever issued
  Credentials,  \* a user name with its password
  Secrets,      \* of TOTP
  None

ASSUME AuthAssumption == None \notin Tokens \cup Secrets

VARIABLES
  method,    \* app_settings.auth_method
  user,      \* the row of users, or NoUser
  sessions,  \* sessions[t]: the row of token t
  verified,  \* verified[t]: its mfa_verified
  standIn,   \* mfa_enabled of _ANONYMOUS_USER, an object of the process
  req,       \* req[r]: the local variables of request r
  crossed    \* history: an MFA change was made on a row that had changed since

database == <<method, user, sessions, verified>>
vars == <<database, standIn, req, crossed>>
----------------------------------------------------------------------------
User   == [credential : Credentials, mfa : BOOLEAN, secret : Secrets \cup {None}]
NoUser == [credential |-> None]

Row == {"unused", "live", "expired", "gone"}

\* Routes that depend on get_current_user, the one that only needs a session,
\* the open ones, and the commands of cli.py.
Guarded  == {"disable", "password", "confirm", "unenroll"}
Open     == {"login", "enable"}
Commands == {"resetPassword", "dropMfa", "openUp"}
Ops == Guarded \cup {"verify"} \cup Open \cup Commands

\* A request between two queries: the query to come, its cookie, whether it goes
\* as the stand-in, and the rows it has loaded.
Req == [op : Ops \cup {"none"}, pc : {"idle", "method", "session", "user", "settings", "commit"},
        token : Tokens \cup {None}, anonymous : BOOLEAN,
        user : User \cup {NoUser}, verified : BOOLEAN]

Idle == [op |-> "none", pc |-> "idle", token |-> None, anonymous |-> FALSE,
         user |-> NoUser, verified |-> FALSE]

Init ==
  /\ method = "none" /\ user = NoUser
  /\ sessions = [t \in Tokens |-> "unused"]
  /\ verified = [t \in Tokens |-> FALSE]
  /\ standIn = FALSE
  /\ req = [r \in Requests |-> Idle]
  /\ crossed = FALSE
----------------------------------------------------------------------------
(* Reading.                                                                *)

FirstQuery(op) ==
  CASE op \in Guarded \cup {"verify"}                  -> "method"
    [] op \in {"enable", "openUp"}                     -> "settings"
    [] op \in {"login", "resetPassword", "dropMfa"}    -> "user"

\* A request arrives, with the cookie of some session or none.
Arrive(r, op, t) ==
  /\ req[r] = Idle
  /\ t # None => op \in Guarded \cup {"verify"} /\ sessions[t] # "unused"
  /\ req' = [req EXCEPT ![r] = [Idle EXCEPT !.op = op, !.pc = FirstQuery(op), !.token = t]]
  /\ UNCHANGED <<database, standIn, crossed>>

Proceed(r, next) == req' = [req EXCEPT ![r] = next]
Answer(r)        == Proceed(r, Idle)

\* Mutant: without authentication the row stands in for itself.
AsTheUser(r) ==
  IF req[r].op = "disable" THEN [req[r] EXCEPT !.pc = "settings", !.anonymous = TRUE]
  ELSE [req[r] EXCEPT !.pc = "commit", !.anonymous = (user = NoUser), !.user = user]

\* _ANONYMOUS_SESSION and _ANONYMOUS_USER.
AsStandIn(r) ==
  [req[r] EXCEPT !.pc = IF req[r].op = "disable" THEN "settings" ELSE "commit",
                 !.anonymous = TRUE]

\* get_current_session: the method, then the session.
ReadMethod(r) ==
  /\ req[r].pc = "method"
  /\ \/ method = "none" /\ Proceed(r, AsStandIn(r))
     \/ method = "basic" /\ req[r].token = None /\ Answer(r)
     \/ method = "basic" /\ req[r].token # None
          /\ Proceed(r, [req[r] EXCEPT !.pc = "session"])
  /\ UNCHANGED <<database, standIn, crossed>>

\* get_session, and get_current_user unless only the session is asked for.
ReadSession(r) ==
  /\ req[r].pc = "session"
  /\ LET t == req[r].token
     IN  IF sessions[t] = "live" /\ (verified[t] \/ req[r].op = "verify")
         THEN Proceed(r, [req[r] EXCEPT !.pc = "user", !.verified = verified[t]])
         ELSE Answer(r)
  /\ UNCHANGED <<database, standIn, crossed>>

\* get_user; only enable and reset-password go on without one.
ReadUser(r) ==
  /\ req[r].pc = "user"
  /\ IF user = NoUser /\ req[r].op \notin {"enable", "resetPassword"}
     THEN Answer(r)
     ELSE Proceed(r, [req[r] EXCEPT !.user = user,
                        !.pc = IF req[r].op = "disable" THEN "settings" ELSE "commit"])
  /\ UNCHANGED <<database, standIn, crossed>>

\* The row of app_settings: enabling needs none, disabling needs basic.
ReadSettings(r) ==
  /\ req[r].pc = "settings"
  /\ IF method = (IF req[r].op = "enable" THEN "basic" ELSE "none")
     THEN Answer(r)
     ELSE Proceed(r, [req[r] EXCEPT !.pc = IF req[r].op = "enable" THEN "user" ELSE "commit"])
  /\ UNCHANGED <<database, standIn, crossed>>

\* A wrong password or code; what the stand-in asks for, but ConfirmStandIn,
\* which has no effect or ends in an exception; a failing query or commit, which
\* is rolled back: a user row inserted twice, an UPDATE of a session that is gone.
Refuse(r) ==
  /\ req[r].pc \notin {"idle", "method"}
  /\ Answer(r)
  /\ UNCHANGED <<database, standIn, crossed>>
----------------------------------------------------------------------------
(* Writing.                                                                *)

Commits(r, op) == req[r].pc = "commit" /\ req[r].op = op /\ ~req[r].anonymous /\ Answer(r)

NewUser(c) == [credential |-> c, mfa |-> FALSE, secret |-> None]

\* The row inserted if none was loaded: id 1, so not if there is one by now.
Insert(r, c) == req[r].user = NoUser /\ user = NoUser /\ user' = NewUser(c)

\* Mutant: switching the method leaves the sessions alone.
EndNone == UNCHANGED sessions

\* invalidate_all_sessions
EndAll == sessions' = [t \in Tokens |-> IF sessions[t] = "unused" THEN "unused" ELSE "gone"]

\* Mutant: the user is left to a later request.
EnableOnly(r) ==
  /\ Commits(r, "enable")
  /\ UNCHANGED user
  /\ method' = "basic" /\ EndAll
  /\ UNCHANGED <<verified, standIn, crossed>>

\* enable_auth: an existing user keeps its credentials.
Enable(r) ==
  /\ Commits(r, "enable")
  /\ \/ \E c \in Credentials : Insert(r, c)
     \/ req[r].user # NoUser /\ UNCHANGED user
  /\ method' = "basic" /\ EndAll
  /\ UNCHANGED <<verified, standIn, crossed>>

\* disable_auth of the API, with the password right.
Disable(r) ==
  /\ Commits(r, "disable")
  /\ method' = "none" /\ EndAll
  /\ UNCHANGED <<user, verified, standIn, crossed>>

\* disable_auth of the command line.
OpenUp(r) ==
  /\ Commits(r, "openUp")
  /\ method' = "none" /\ EndAll
  /\ UNCHANGED <<user, verified, standIn, crossed>>

\* authenticate and create_session: verified if the user loaded has no MFA.
Login(r, t) ==
  /\ Commits(r, "login") /\ sessions[t] = "unused"
  /\ sessions' = [sessions EXCEPT ![t] = "live"]
  /\ verified' = [verified EXCEPT ![t] = ~req[r].user.mfa]
  /\ UNCHANGED <<method, user, standIn, crossed>>

\* Mutant: the session is merged, which inserts it again if it is gone.
VerifyByMerge(r) ==
  /\ Commits(r, "verify") /\ req[r].user.secret # None
  /\ sessions' = [sessions EXCEPT ![req[r].token] = "live"]
  /\ verified' = [verified EXCEPT ![req[r].token] = TRUE]
  /\ UNCHANGED <<method, user, standIn, crossed>>

\* mark_mfa_verified, with the code right: no UPDATE if the flag was set.
Verify(r) ==
  /\ Commits(r, "verify") /\ req[r].user.secret # None
  /\ \/ req[r].verified /\ UNCHANGED verified
     \/ /\ ~req[r].verified /\ sessions[req[r].token] # "gone"
        /\ verified' = [verified EXCEPT ![req[r].token] = TRUE]
  /\ UNCHANGED <<method, user, sessions, standIn, crossed>>

\* change_password; hashes are salted, so the column always differs.
ChangePassword(r, c) ==
  /\ Commits(r, "password")
  /\ user' = [user EXCEPT !.credential = c]
  /\ UNCHANGED <<method, sessions, verified, standIn, crossed>>

\* reset-password: creates the user if there is none.
ResetPassword(r, c) ==
  /\ Commits(r, "resetPassword")
  /\ \/ Insert(r, c)
     \/ req[r].user # NoUser /\ user' = [user EXCEPT !.credential = c]
  /\ UNCHANGED <<method, sessions, verified, standIn, crossed>>

Mfa(u) == <<u.mfa, u.secret>>

NoteCrossing(r) == crossed' = (crossed \/ Mfa(req[r].user) # Mfa(user))

\* confirm_mfa_enrollment
Confirm(r, s) ==
  /\ Commits(r, "confirm")
  /\ user' = [user EXCEPT !.secret = s, !.mfa = @ \/ ~req[r].user.mfa]
  /\ NoteCrossing(r)
  /\ UNCHANGED <<method, sessions, verified, standIn>>

\* ... of the stand-in, which belongs to no session: nothing is stored.
ConfirmStandIn(r) ==
  /\ req[r].pc = "commit" /\ req[r].op = "confirm" /\ req[r].anonymous
  /\ Answer(r)
  /\ standIn' = TRUE
  /\ UNCHANGED <<database, crossed>>

\* Mutant: the secret is kept for the next time.
KeepSecret(r) == [user EXCEPT !.mfa = @ /\ ~req[r].user.mfa]

\* Mutant: the secret is emptied.
EmptySecret(r) == [user EXCEPT !.mfa = @ /\ ~req[r].user.mfa, !.secret = ""]

\* MFA is taken off the row loaded, column by column.
WithoutMfa(r) ==
  [user EXCEPT !.mfa    = @ /\ ~req[r].user.mfa,
               !.secret = IF req[r].user.secret = None THEN @ ELSE None]

\* disable_mfa of the API, with password and code right, and disable-mfa.
DropMfa(r) ==
  /\ \/ Commits(r, "unenroll") /\ req[r].user.secret # None
     \/ Commits(r, "dropMfa")
  /\ user' = WithoutMfa(r)
  /\ NoteCrossing(r)
  /\ UNCHANGED <<method, sessions, verified, standIn>>

\* logout: one statement, for whatever cookie.
Logout(t) ==
  /\ sessions[t] \in {"live", "expired"}
  /\ sessions' = [sessions EXCEPT ![t] = "gone"]
  /\ UNCHANGED <<method, user, verified, standIn, req, crossed>>

\* Time passes expires_at: the row stays, get_session finds it no more.
Expire(t) ==
  /\ sessions[t] = "live"
  /\ sessions' = [sessions EXCEPT ![t] = "expired"]
  /\ UNCHANGED <<method, user, verified, standIn, req, crossed>>

\* The process stops between two commits; commands belong to another one.
Restart ==
  /\ req' = [r \in Requests |-> IF req[r].op \in Commands THEN req[r] ELSE Idle]
  /\ standIn' = FALSE
  /\ UNCHANGED <<database, crossed>>

Next ==
  \/ \E r \in Requests :
       \/ \E op \in Ops, t \in Tokens \cup {None} : Arrive(r, op, t)
       \/ ReadMethod(r) \/ ReadSession(r) \/ ReadUser(r) \/ ReadSettings(r) \/ Refuse(r)
       \/ Enable(r) \/ Disable(r) \/ OpenUp(r) \/ Verify(r) \/ ConfirmStandIn(r) \/ DropMfa(r)
       \/ \E t \in Tokens : Login(r, t)
       \/ \E c \in Credentials : ChangePassword(r, c) \/ ResetPassword(r, c)
       \/ \E s \in Secrets : Confirm(r, s)
  \/ \E t \in Tokens : Logout(t) \/ Expire(t)
  \/ Restart

Spec == Init /\ [][Next]_vars
----------------------------------------------------------------------------
(* Properties.                                                             *)

\* Every variable has its type.
TypeOK ==
  /\ method \in {"none", "basic"}
  /\ user \in User \cup {NoUser}
  /\ sessions \in [Tokens -> Row] /\ verified \in [Tokens -> BOOLEAN]
  /\ standIn \in BOOLEAN
  /\ req \in [Requests -> Req]
  /\ crossed \in BOOLEAN

\* Whenever a login is asked for there is somebody who can log in, also when the
\* method is switched twice at once or a command creates the user meanwhile: of
\* two inserts one fails and takes its switch with it. (api/routes/auth.py:50-59,
\* cli.py:26-34)
BasicHasUser == method = "basic" => user # NoUser

\* MFA is asked for if and only if there is a secret to check a code against,
\* unless two MFA changes overlapped: each writes the columns that differ from
\* what it loaded, so that two of them can leave one half each.
\* (auth/service.py:100-106, 116-124, cli.py:38-49)
MfaHasSecret == user # NoUser /\ ~crossed => (user.mfa <=> user.secret # None)

\* A session that was ended (logged out, invalidated) or has expired never comes
\* back, whatever was in flight for it: the late UPDATE of a verification does
\* not bring it to life again. (auth/service.py:35-36, 70, 75-83)
EndedStaysEnded ==
  [][\A t \in Tokens :
       /\ sessions[t] = "gone" => sessions'[t] = "gone"
       /\ sessions[t] = "expired" => sessions'[t] \in {"expired", "gone"}]_vars

\* A guarded request changes the user, the sessions or the method only if it has
\* found a live session that was verified: one that was let through because
\* authentication was off changes none of them, even if it is switched on before
\* the request is carried out. (auth/dependencies.py:11-17, 24-30, 38-45)
ChangesNeedSession ==
  [][\A r \in Requests :
       req[r].op \in Guarded /\ ~req[r].verified /\ req'[r] # req[r] => UNCHANGED database]_vars
=============================================================================
