----------------------------- MODULE AuthProofs -----------------------------
(***************************************************************************)
(* Auth for any number of requests, sessions, credentials and secrets.     *)
(***************************************************************************)
EXTENDS AuthRefinement, TLAPS

Reads(r) == ReadMethod(r) \/ ReadSession(r) \/ ReadUser(r) \/ ReadSettings(r)

\* A user that was loaded is still there: the row is never deleted.
LoadedExists == \A r \in Requests : req[r].user # NoUser => user # NoUser

\* What a request has found when it gets to its last queries.
Passed(r) ==
  /\ req[r].pc = "session" => req[r].token # None
  /\ req[r].pc = "settings" => req[r].op \in {"disable", "enable", "openUp"}
  /\ ~req[r].anonymous =>
       /\ req[r].op \in Guarded /\ req[r].pc \in {"user", "settings", "commit"}
            => req[r].verified
       /\ req[r].op \in Guarded /\ req[r].pc = "settings" => req[r].user # NoUser
       /\ req[r].op \in Guarded \cup {"verify", "login", "dropMfa"} /\ req[r].pc = "commit"
            => req[r].user # NoUser

\* The strengthening: what a request acts on was found by it.
Inv ==
  /\ TypeOK
  /\ LoadedExists
  /\ \A r \in Requests : Passed(r)
  /\ BasicHasUser /\ MfaHasSecret
----------------------------------------------------------------------------
LEMMA RowIsNotNoUser == \A u \in User : u # NoUser
<1>1. \A u \in User : "mfa" \in DOMAIN u
  BY DEF User
<1>2. "mfa" \notin DOMAIN NoUser
  BY DEF NoUser
<1> QED
  BY <1>1, <1>2

LEMMA NewUserIsUser == \A c \in Credentials : NewUser(c) \in User
BY DEF NewUser, User

LEMMA IdleIsReq == Idle \in Req
BY DEF Idle, Req

\* What a step does to the row of users.
LEMMA UserStep ==
  ASSUME Inv, [Next]_vars
  PROVE  /\ user' \in User \cup {NoUser}
         /\ user # NoUser => user' # NoUser
         /\ MfaHasSecret'
<1> DEFINE Goal == /\ user' \in User \cup {NoUser}
                   /\ user # NoUser => user' # NoUser
                   /\ MfaHasSecret'
<1> USE DEF Inv, TypeOK
<1>1. CASE UNCHANGED <<user, crossed>>
  BY <1>1 DEF MfaHasSecret
<1>2. ASSUME NEW r \in Requests, Enable(r) PROVE Goal
  <2>1. CASE UNCHANGED user
    BY <1>2, <2>1 DEF Enable, MfaHasSecret
  <2>2. ASSUME NEW c \in Credentials, Insert(r, c) PROVE Goal
    <3>1. user' \in User /\ user'.mfa = FALSE /\ user'.secret = None /\ crossed' = crossed
      BY <1>2, <2>2, NewUserIsUser DEF Enable, Insert, NewUser
    <3> QED
      BY <3>1, RowIsNotNoUser DEF MfaHasSecret
  <2> QED
    BY <1>2, <2>1, <2>2 DEF Enable
<1>3. ASSUME NEW r \in Requests, NEW c \in Credentials, ResetPassword(r, c) PROVE Goal
  <2>1. CASE Insert(r, c)
    <3>1. user' \in User /\ user'.mfa = FALSE /\ user'.secret = None /\ crossed' = crossed
      BY <1>3, <2>1, NewUserIsUser DEF ResetPassword, Insert, NewUser
    <3> QED
      BY <3>1, RowIsNotNoUser DEF MfaHasSecret
  <2>2. CASE req[r].user # NoUser /\ user' = [user EXCEPT !.credential = c]
    <3>1. user \in User
      BY <2>2 DEF LoadedExists
    <3>2. user' \in User /\ user'.mfa = user.mfa /\ user'.secret = user.secret /\ crossed' = crossed
      BY <1>3, <2>2, <3>1 DEF ResetPassword, User
    <3> QED
      BY <3>1, <3>2, RowIsNotNoUser DEF MfaHasSecret
  <2> QED
    BY <1>3, <2>1, <2>2 DEF ResetPassword
<1>4. ASSUME NEW r \in Requests, NEW c \in Credentials, ChangePassword(r, c) PROVE Goal
  <2>1. user \in User
    BY <1>4 DEF ChangePassword, Commits, Passed, Guarded, LoadedExists
  <2>2. user' \in User /\ user'.mfa = user.mfa /\ user'.secret = user.secret /\ crossed' = crossed
    BY <1>4, <2>1 DEF ChangePassword, User
  <2> QED
    BY <2>1, <2>2, RowIsNotNoUser DEF MfaHasSecret
<1>5. ASSUME NEW r \in Requests, NEW s \in Secrets, Confirm(r, s) PROVE Goal
  <2>1. user \in User /\ req[r].user \in User
    BY <1>5 DEF Confirm, Commits, Passed, Guarded, LoadedExists, Req
  <2>2. user' = [credential |-> user.credential, mfa |-> user.mfa \/ ~req[r].user.mfa, secret |-> s]
    BY <1>5, <2>1 DEF Confirm, User
  <2>3. ~crossed' => req[r].user.mfa = user.mfa
    BY <1>5, <2>1 DEF Confirm, NoteCrossing, Mfa, User
  <2>4. user.mfa \in BOOLEAN /\ req[r].user.mfa \in BOOLEAN /\ user.credential \in Credentials
    BY <2>1 DEF User
  <2>5. (user.mfa \/ ~req[r].user.mfa) \in BOOLEAN /\ s # None
    BY AuthAssumption
  <2>6. user' \in User /\ user'.secret = s /\ user'.mfa = (user.mfa \/ ~req[r].user.mfa)
    BY <2>2, <2>4, <2>5 DEF User
  <2>7. ~crossed' => user'.mfa = TRUE
    BY <2>3, <2>4, <2>6
  <2> QED
    BY <2>5, <2>6, <2>7, RowIsNotNoUser DEF MfaHasSecret
<1>6. ASSUME NEW r \in Requests, DropMfa(r) PROVE Goal
  <2>1. user \in User /\ req[r].user \in User
    BY <1>6 DEF DropMfa, Commits, Passed, Guarded, LoadedExists, Req
  <2>2. user' = [credential |-> user.credential, mfa |-> user.mfa /\ ~req[r].user.mfa,
                 secret |-> IF req[r].user.secret = None THEN user.secret ELSE None]
    BY <1>6, <2>1 DEF DropMfa, WithoutMfa, User
  <2>3. ~crossed' => req[r].user.mfa = user.mfa /\ req[r].user.secret = user.secret
    BY <1>6, <2>1 DEF DropMfa, NoteCrossing, Mfa, User
  <2>4. /\ user.mfa \in BOOLEAN /\ req[r].user.mfa \in BOOLEAN /\ user.credential \in Credentials
        /\ user.secret \in Secrets \cup {None}
    BY <2>1 DEF User
  <2>5. (user.mfa /\ ~req[r].user.mfa) \in BOOLEAN
    OBVIOUS
  <2>6. /\ user' \in User /\ user'.mfa = (user.mfa /\ ~req[r].user.mfa)
        /\ user'.secret = IF req[r].user.secret = None THEN user.secret ELSE None
    BY <2>2, <2>4, <2>5 DEF User
  <2>7. ~crossed' => user'.mfa = FALSE /\ user'.secret = None
    BY <2>3, <2>4, <2>6
  <2> QED
    BY <2>6, <2>7, RowIsNotNoUser DEF MfaHasSecret
<1> QED
  BY <1>1, <1>2, <1>3, <1>4, <1>5, <1>6
  DEF Next, Arrive, ReadMethod, ReadSession, ReadUser, ReadSettings, Refuse, Disable, OpenUp,
      Verify, ConfirmStandIn, Login, Logout, Expire, Restart, database, vars

\* A request that does not query goes on as it was, or is answered.
LEMMA RequestsEnd ==
  ASSUME Inv, [Next]_vars
  PROVE  \/ \E r \in Requests : Reads(r)
         \/ \E r \in Requests, op \in Ops, t \in Tokens \cup {None} : Arrive(r, op, t)
         \/ /\ req' = [q \in Requests |-> req'[q]]
            /\ \A q \in Requests : req'[q] = req[q] \/ req'[q] = Idle
<1> DEFINE Goal == /\ req' = [q \in Requests |-> req'[q]]
                   /\ \A q \in Requests : req'[q] = req[q] \/ req'[q] = Idle
<1>0. req \in [Requests -> Req]
  BY DEF Inv, TypeOK
<1>1. CASE UNCHANGED req
  BY <1>0, <1>1
<1>2. ASSUME NEW r \in Requests, Answer(r) PROVE Goal
  BY <1>0, <1>2 DEF Answer, Proceed
<1>3. CASE Restart
  BY <1>0, <1>3 DEF Restart
<1> QED
  BY <1>1, <1>2, <1>3
  DEF Next, Reads, Refuse, Enable, Disable, OpenUp, Verify, ConfirmStandIn, Login, ChangePassword,
      ResetPassword, Confirm, DropMfa, Commits, Logout, Expire, vars

\* The request that queries is still a request, and has found what it needs.
LEMMA QueryStep ==
  ASSUME Inv, NEW r \in Requests,
         Reads(r) \/ (\E op \in Ops, t \in Tokens \cup {None} : Arrive(r, op, t))
  PROVE  /\ user' = user /\ req' = [req EXCEPT ![r] = req'[r]] /\ req'[r] \in Req
         /\ req'[r].user # NoUser => user # NoUser
         /\ Passed(r)'
<1> DEFINE Goal == /\ user' = user /\ req' = [req EXCEPT ![r] = req'[r]] /\ req'[r] \in Req
                   /\ req'[r].user # NoUser => user # NoUser
                   /\ Passed(r)'
<1>0. /\ req \in [Requests -> Req] /\ req[r] \in Req /\ Passed(r)
      /\ req[r].user # NoUser => user # NoUser
      /\ user \in User \cup {NoUser} /\ verified \in [Tokens -> BOOLEAN]
  BY DEF Inv, TypeOK, LoadedExists
<1>1. ASSUME NEW op \in Ops, NEW t \in Tokens \cup {None}, Arrive(r, op, t) PROVE Goal
  <2>1. req'[r] = [op |-> op, pc |-> FirstQuery(op), token |-> t, anonymous |-> FALSE,
                   user |-> NoUser, verified |-> FALSE]
    BY <1>0, <1>1 DEF Arrive, Idle
  <2>2. /\ FirstQuery(op) \in {"method", "user", "settings"}
        /\ op \in Guarded \cup {"verify"} => FirstQuery(op) = "method"
    BY DEF FirstQuery, Ops, Guarded, Open, Commands
  <2>3. user' = user /\ req' = [req EXCEPT ![r] = req'[r]]
    BY <1>0, <1>1 DEF Arrive, database
  <2> QED
    <3>1. req'[r] \in Req
      BY <2>1, <2>2 DEF Req
    <3>2. /\ req'[r].op = op /\ req'[r].pc = FirstQuery(op) /\ req'[r].user = NoUser
          /\ FirstQuery(op) = "settings" => op \in {"enable", "openUp"}
      BY <2>1 DEF FirstQuery, Ops, Guarded, Open, Commands
    <3> QED
      BY <2>2, <2>3, <3>1, <3>2 DEF Passed
<1>2. CASE Answer(r) /\ Reads(r)
  BY <1>0, <1>2, IdleIsReq
  DEF Reads, ReadMethod, ReadSession, ReadUser, ReadSettings, Answer, Proceed, Passed, Idle,
      Guarded, database
<1>4. CASE ReadMethod(r) /\ ~Answer(r)
  <2> USE <1>0, <1>4 DEF ReadMethod, database
  <2>1. CASE Proceed(r, AsStandIn(r))
    <3>1. /\ req'[r] = [op |-> req[r].op, token |-> req[r].token,
                        pc |-> IF req[r].op = "disable" THEN "settings" ELSE "commit",
                        anonymous |-> TRUE, user |-> req[r].user, verified |-> req[r].verified]
          /\ req' = [req EXCEPT ![r] = req'[r]]
      BY <2>1 DEF Proceed, AsStandIn, Req
    <3>2. /\ req'[r].anonymous = TRUE /\ req'[r].user = req[r].user /\ req'[r].op = req[r].op
          /\ req'[r].pc = IF req[r].op = "disable" THEN "settings" ELSE "commit"
      BY <3>1
    <3>3. req'[r] \in Req
      BY <3>1 DEF Req
    <3> QED
      BY <3>1, <3>2, <3>3 DEF Passed
  <2>2. CASE req[r].token # None /\ Proceed(r, [req[r] EXCEPT !.pc = "session"])
    <3>1. /\ req'[r] = [op |-> req[r].op, pc |-> "session", token |-> req[r].token,
                        anonymous |-> req[r].anonymous, user |-> req[r].user,
                        verified |-> req[r].verified]
          /\ req' = [req EXCEPT ![r] = req'[r]]
      BY <2>2 DEF Proceed, Req
    <3>2. /\ req'[r].pc = "session" /\ req'[r].user = req[r].user
          /\ req'[r].token = req[r].token /\ req[r].token # None
      BY <2>2, <3>1
    <3>3. req'[r] \in Req
      BY <3>1 DEF Req
    <3> QED
      BY <3>1, <3>2, <3>3 DEF Passed
  <2> QED
    BY <2>1, <2>2
<1>5. CASE ReadSession(r) /\ ~Answer(r)
  <2>0. /\ Proceed(r, [req[r] EXCEPT !.pc = "user", !.verified = verified[req[r].token]])
        /\ verified[req[r].token] \/ req[r].op = "verify"
        /\ user' = user
    BY <1>5 DEF ReadSession, database
  <2>1. /\ req'[r] = [op |-> req[r].op, pc |-> "user", token |-> req[r].token,
                      anonymous |-> req[r].anonymous, user |-> req[r].user,
                      verified |-> verified[req[r].token]]
        /\ req' = [req EXCEPT ![r] = req'[r]]
    BY <1>0, <2>0 DEF Proceed, Req
  <2>2. req[r].token \in Tokens
    BY <1>0, <1>5 DEF ReadSession, Passed, Req
  <2>3. req'[r] \in Req
    BY <1>0, <2>1, <2>2 DEF Req
  <2>4. /\ req'[r].pc = "user" /\ req'[r].op = req[r].op /\ req'[r].user = req[r].user
        /\ req'[r].verified = verified[req[r].token]
    BY <2>1
  <2>5. req[r].op \in Guarded => verified[req[r].token]
    BY <2>0 DEF Guarded
  <2>6. req[r].op \in Guarded => req'[r].verified
    BY <2>4, <2>5
  <2>7. Passed(r)'
    BY <2>4, <2>6 DEF Passed
  <2> QED
    BY <1>0, <2>0, <2>1, <2>3, <2>4, <2>7
<1>6. CASE ReadUser(r) /\ ~Answer(r)
  <2>0. /\ Proceed(r, [req[r] EXCEPT !.user = user,
                         !.pc = IF req[r].op = "disable" THEN "settings" ELSE "commit"])
        /\ user = NoUser => req[r].op \in {"enable", "resetPassword"}
        /\ user' = user /\ req[r].pc = "user"
    BY <1>6 DEF ReadUser, database
  <2>1. /\ req'[r] = [op |-> req[r].op, token |-> req[r].token,
                      pc |-> IF req[r].op = "disable" THEN "settings" ELSE "commit",
                      anonymous |-> req[r].anonymous, user |-> user,
                      verified |-> req[r].verified]
        /\ req' = [req EXCEPT ![r] = req'[r]]
    BY <1>0, <2>0 DEF Proceed, Req
  <2>2. req'[r] \in Req
    BY <1>0, <2>1 DEF Req
  <2>3. /\ req'[r].pc = (IF req[r].op = "disable" THEN "settings" ELSE "commit")
        /\ req'[r].op = req[r].op /\ req'[r].user = user
        /\ req'[r].verified = req[r].verified /\ req'[r].anonymous = req[r].anonymous
    BY <2>1
  <2>4. Passed(r)'
    BY <1>0, <2>0, <2>3 DEF Passed, Guarded
  <2> QED
    BY <2>0, <2>1, <2>2, <2>3, <2>4
<1>7. CASE ReadSettings(r) /\ ~Answer(r)
  <2>1. /\ req'[r] = [op |-> req[r].op, token |-> req[r].token,
                      pc |-> IF req[r].op = "enable" THEN "user" ELSE "commit",
                      anonymous |-> req[r].anonymous, user |-> req[r].user,
                      verified |-> req[r].verified]
        /\ req' = [req EXCEPT ![r] = req'[r]] /\ user' = user
        /\ req[r].pc = "settings"
    BY <1>0, <1>7 DEF ReadSettings, Proceed, Req, database
  <2>2. req'[r] \in Req
    BY <1>0, <2>1 DEF Req
  <2>3. /\ req'[r].pc = (IF req[r].op = "enable" THEN "user" ELSE "commit")
        /\ req'[r].op = req[r].op /\ req'[r].user = req[r].user
        /\ req'[r].verified = req[r].verified /\ req'[r].anonymous = req[r].anonymous
    BY <2>1
  <2>4. Passed(r)'
    BY <1>0, <2>1, <2>3 DEF Passed, Guarded
  <2> QED
    BY <1>0, <2>1, <2>2, <2>3, <2>4
<1> QED
  BY <1>1, <1>2, <1>4, <1>5, <1>6, <1>7 DEF Reads

\* The types of the tables.
LEMMA TablesStep ==
  ASSUME Inv, [Next]_vars
  PROVE  /\ method' \in {"none", "basic"}
         /\ sessions' \in [Tokens -> Row] /\ verified' \in [Tokens -> BOOLEAN]
         /\ standIn' \in BOOLEAN /\ crossed' \in BOOLEAN
         /\ BasicHasUser'
<1> DEFINE Goal == /\ method' \in {"none", "basic"}
                   /\ sessions' \in [Tokens -> Row] /\ verified' \in [Tokens -> BOOLEAN]
                   /\ standIn' \in BOOLEAN /\ crossed' \in BOOLEAN
                   /\ BasicHasUser'
<1>0. TypeOK /\ BasicHasUser /\ LoadedExists /\ (user # NoUser => user' # NoUser)
  BY UserStep DEF Inv
<1> USE <1>0 DEF TypeOK, BasicHasUser
<1>1. CASE UNCHANGED <<database, standIn, crossed>>
  BY <1>1 DEF database
<1>2. ASSUME NEW r \in Requests, Enable(r) PROVE Goal
  <2>1. user' # NoUser
    BY <1>2, NewUserIsUser, RowIsNotNoUser DEF Enable, Insert, LoadedExists
  <2> QED
    BY <1>2, <2>1 DEF Enable, EndAll, Row
<1>3. ASSUME NEW r \in Requests, Disable(r) \/ OpenUp(r) PROVE Goal
  BY <1>3 DEF Disable, OpenUp, EndAll, Row
<1>4. ASSUME NEW r \in Requests, NEW t \in Tokens, Login(r, t) PROVE Goal
  <2>1. req[r].user \in User
    BY <1>4 DEF Login, Commits, Inv, Passed, Guarded, Req
  <2> QED
    BY <1>4, <2>1 DEF Login, Row, User
<1>5. ASSUME NEW r \in Requests, Verify(r) PROVE Goal
  BY <1>5 DEF Verify
<1>6. ASSUME NEW r \in Requests, NEW c \in Credentials, ChangePassword(r, c) \/ ResetPassword(r, c)
      PROVE  Goal
  BY <1>6 DEF ChangePassword, ResetPassword
<1>7. ASSUME NEW r \in Requests, DropMfa(r) \/ \E s \in Secrets : Confirm(r, s) PROVE Goal
  BY <1>7 DEF DropMfa, Confirm, NoteCrossing
<1>8. ASSUME NEW r \in Requests, ConfirmStandIn(r) PROVE Goal
  BY <1>8 DEF ConfirmStandIn, database
<1>9. ASSUME NEW t \in Tokens, Logout(t) \/ Expire(t) PROVE Goal
  BY <1>9 DEF Logout, Expire, Row
<1>10. CASE Restart
  BY <1>10 DEF Restart, database
<1> QED
  BY <1>1, <1>2, <1>3, <1>4, <1>5, <1>6, <1>7, <1>8, <1>9, <1>10
  DEF Next, Arrive, ReadMethod, ReadSession, ReadUser, ReadSettings, Refuse, database, vars

\* Every step keeps the strengthening.
LEMMA InvStep ==
  ASSUME Inv, [Next]_vars
  PROVE  Inv'
<1>1. /\ req' \in [Requests -> Req]
      /\ LoadedExists' /\ \A r \in Requests : Passed(r)'
  <2>0. /\ req \in [Requests -> Req] /\ LoadedExists /\ \A r \in Requests : Passed(r)
        /\ user # NoUser => user' # NoUser
    BY UserStep DEF Inv, TypeOK
  <2>1. ASSUME NEW r \in Requests,
               Reads(r) \/ (\E op \in Ops, t \in Tokens \cup {None} : Arrive(r, op, t))
        PROVE  <1>1
    <3>1. /\ user' = user /\ req' = [req EXCEPT ![r] = req'[r]] /\ req'[r] \in Req
          /\ req'[r].user # NoUser => user # NoUser
          /\ Passed(r)'
      BY <2>1, QueryStep
    <3>2. \A q \in Requests : q # r => req'[q] = req[q]
      BY <2>0, <3>1
    <3>3. req' \in [Requests -> Req]
      BY <2>0, <3>1
    <3>4. LoadedExists'
      BY <2>0, <3>1, <3>2 DEF LoadedExists
    <3>5. ASSUME NEW q \in Requests PROVE Passed(q)'
      <4>1. CASE q = r
        BY <3>1, <4>1
      <4>2. CASE q # r
        BY <2>0, <3>2, <4>2 DEF Passed
      <4> QED
        BY <4>1, <4>2
    <3> QED
      BY <3>3, <3>4, <3>5
  <2>2. ASSUME req' = [q \in Requests |-> req'[q]],
               \A q \in Requests : req'[q] = req[q] \/ req'[q] = Idle
        PROVE  <1>1
    <3>1. req' \in [Requests -> Req]
      BY <2>0, <2>2, IdleIsReq
    <3>2. LoadedExists'
      BY <2>0, <2>2 DEF LoadedExists, Idle
    <3>3. ASSUME NEW q \in Requests PROVE Passed(q)'
      <4>1. CASE req'[q] = req[q]
        BY <2>0, <4>1 DEF Passed
      <4>2. CASE req'[q] = Idle
        BY <4>2 DEF Passed, Idle
      <4> QED
        BY <2>2, <4>1, <4>2
    <3> QED
      BY <3>1, <3>2, <3>3
  <2> QED
    BY <2>1, <2>2, RequestsEnd
<1> QED
  BY <1>1, UserStep, TablesStep DEF Inv, TypeOK

LEMMA InvInit == Init => Inv
<1> SUFFICES ASSUME Init PROVE Inv
  OBVIOUS
<1>1. \A r \in Requests : req[r] = Idle
  BY DEF Init
<1>2. LoadedExists /\ \A r \in Requests : Passed(r)
  BY <1>1 DEF LoadedExists, Passed, Idle
<1>3. TypeOK /\ BasicHasUser /\ MfaHasSecret
  BY IdleIsReq DEF Init, TypeOK, Row, BasicHasUser, MfaHasSecret
<1> QED
  BY <1>2, <1>3 DEF Inv

LEMMA Invariant == Spec => []Inv
BY InvInit, InvStep, PTL DEF Spec
----------------------------------------------------------------------------
\* Every variable keeps its type.
THEOREM TypeCorrect == Spec => []TypeOK
BY Invariant, PTL DEF Inv

\* Switching authentication on never leaves nobody who can log in.
THEOREM SomebodyCanLogIn == Spec => []BasicHasUser
BY Invariant, PTL DEF Inv

\* MFA and its secret come and go together, unless two MFA changes overlapped.
THEOREM MfaIsWhole == Spec => []MfaHasSecret
BY Invariant, PTL DEF Inv

\* A session that is over stays over.
THEOREM EndedIsEnded == Spec => EndedStaysEnded
<1>1. ASSUME Inv, [Next]_vars, NEW t \in Tokens
      PROVE  /\ sessions[t] = "gone" => sessions'[t] = "gone"
             /\ sessions[t] = "expired" => sessions'[t] \in {"expired", "gone"}
  <2>1. sessions \in [Tokens -> Row]
    BY <1>1 DEF Inv, TypeOK
  <2>2. CASE UNCHANGED sessions
    BY <2>2
  <2>3. CASE EndAll
    BY <2>1, <2>3 DEF EndAll
  <2>4. ASSUME NEW r \in Requests, NEW x \in Tokens, Login(r, x)
        PROVE  sessions[t] \in {"gone", "expired"} => sessions'[t] = sessions[t]
    BY <2>1, <2>4 DEF Login
  <2>5. ASSUME NEW x \in Tokens, Logout(x) \/ Expire(x)
        PROVE  /\ sessions[t] = "gone" => sessions'[t] = "gone"
               /\ sessions[t] = "expired" => sessions'[t] \in {"expired", "gone"}
    BY <2>1, <2>5 DEF Logout, Expire
  <2> QED
    BY <1>1, <2>2, <2>3, <2>4, <2>5
    DEF Next, Arrive, ReadMethod, ReadSession, ReadUser, ReadSettings, Refuse, Enable, Disable,
        OpenUp, Verify, ConfirmStandIn, DropMfa, ChangePassword, ResetPassword, Confirm, Restart,
        database, vars
<1>2. ASSUME Inv, [Next]_vars
      PROVE  [\A t \in Tokens :
                /\ sessions[t] = "gone" => sessions'[t] = "gone"
                /\ sessions[t] = "expired" => sessions'[t] \in {"expired", "gone"}]_vars
  BY <1>1, <1>2
<1> QED
  BY <1>2, Invariant, PTL DEF Spec, EndedStaysEnded

\* Nothing is changed by a guarded request without a session that was verified.
THEOREM ChangesAreGuarded == Spec => ChangesNeedSession
<1>1. ASSUME Inv, [Next]_vars, NEW r \in Requests, req[r].op \in Guarded, ~req[r].verified,
             req'[r] # req[r]
      PROVE  UNCHANGED database
  <2>1. req \in [Requests -> Req] /\ Passed(r)
    BY <1>1 DEF Inv, TypeOK
  <2>2. ~(req[r].pc = "commit" /\ ~req[r].anonymous)
    BY <1>1, <2>1 DEF Passed
  <2>3. ASSUME NEW q \in Requests, NEW op \in Ops, Commits(q, op) PROVE FALSE
    <3>1. q = r
      BY <1>1, <2>1, <2>3 DEF Commits, Answer, Proceed
    <3> QED
      BY <2>2, <2>3, <3>1 DEF Commits
  <2>4. \A q \in Requests, op \in Ops : ~Commits(q, op)
    BY <2>3
  <2>5. req' # req
    BY <1>1
  <2> QED
    BY <1>1, <2>4, <2>5
    DEF Next, Arrive, ReadMethod, ReadSession, ReadUser, ReadSettings, Refuse, Enable, Disable,
        OpenUp, Verify, ConfirmStandIn, DropMfa, Login, ChangePassword, ResetPassword, Confirm,
        Logout, Expire, Restart, Ops, Guarded, Open, Commands, vars
<1>2. ASSUME Inv, [Next]_vars
      PROVE  [\A r \in Requests :
                req[r].op \in Guarded /\ ~req[r].verified /\ req'[r] # req[r]
                  => UNCHANGED database]_vars
  BY <1>1, <1>2
<1> QED
  BY <1>2, Invariant, PTL DEF Spec, ChangesNeedSession
----------------------------------------------------------------------------
(* The promises of the sign-in.                                            *)

\* A cookie is that of a session once issued, and while that session lives the
\* method is still the one that made the request ask for it: switching the
\* method ends every session.
Asked(r) ==
  /\ req[r].token \in Tokens => sessions[req[r].token] # "unused"
  /\ req[r].pc = "session" /\ sessions[req[r].token] = "live" => method = "basic"

AskedInv == \A r \in Requests : Asked(r)

\* Sessions are issued once, end, and live on only under the same method.
LEMMA SessionsStep ==
  ASSUME Inv, [Next]_vars, NEW t \in Tokens, sessions[t] # "unused"
  PROVE  /\ sessions'[t] # "unused"
         /\ sessions'[t] = "live" => sessions[t] = "live" /\ (method = "basic" => method' = "basic")
<1> DEFINE Goal == /\ sessions'[t] # "unused"
                   /\ sessions'[t] = "live" =>
                        sessions[t] = "live" /\ (method = "basic" => method' = "basic")
<1>1. sessions \in [Tokens -> Row]
  BY DEF Inv, TypeOK
<1>2. CASE UNCHANGED <<method, sessions>>
  BY <1>2
<1>3. CASE EndAll
  BY <1>1, <1>3 DEF EndAll
<1>4. ASSUME NEW r \in Requests, NEW x \in Tokens, Login(r, x) PROVE Goal
  BY <1>1, <1>4 DEF Login
<1>5. ASSUME NEW x \in Tokens, Logout(x) \/ Expire(x) PROVE Goal
  BY <1>1, <1>5 DEF Logout, Expire
<1> QED
  BY <1>2, <1>3, <1>4, <1>5
  DEF Next, Arrive, ReadMethod, ReadSession, ReadUser, ReadSettings, Refuse, Enable, Disable,
      OpenUp, Verify, ConfirmStandIn, DropMfa, ChangePassword, ResetPassword, Confirm, Restart,
      database, vars

\* What a query leaves of the request, and what it never changes.
LEMMA QueryKeeps ==
  ASSUME Inv, NEW r \in Requests, Reads(r), ~Answer(r)
  PROVE  /\ req' = [req EXCEPT ![r] = req'[r]]
         /\ req'[r].op = req[r].op /\ req'[r].token = req[r].token
         /\ req'[r].pc = "session" => method = "basic"
         /\ IF req[r].pc = "session"
            THEN /\ sessions[req[r].token] = "live"
                 /\ req'[r].verified = verified[req[r].token]
                 /\ req[r].op \in Guarded => verified[req[r].token]
            ELSE req'[r].verified = req[r].verified
         /\ UNCHANGED database
<1>1. req \in [Requests -> Req] /\ req[r] \in Req
  BY DEF Inv, TypeOK
<1>2. CASE ReadMethod(r)
  <2>1. req[r].pc = "method" /\ UNCHANGED database
    BY <1>2 DEF ReadMethod
  <2>2. CASE Proceed(r, AsStandIn(r))
    <3>1. /\ req' = [req EXCEPT ![r] = req'[r]]
          /\ req'[r] = [req[r] EXCEPT !.anonymous = TRUE,
                         !.pc = IF req[r].op = "disable" THEN "settings" ELSE "commit"]
      BY <1>1, <2>2 DEF Proceed, AsStandIn, Req
    <3>2. /\ req'[r].op = req[r].op /\ req'[r].token = req[r].token
          /\ req'[r].verified = req[r].verified /\ req'[r].pc # "session"
      BY <1>1, <3>1 DEF Req
    <3> QED
      BY <2>1, <3>1, <3>2
  <2>3. CASE method = "basic" /\ Proceed(r, [req[r] EXCEPT !.pc = "session"])
    BY <1>1, <2>1, <2>3 DEF Proceed, Req
  <2> QED
    BY <1>2, <2>2, <2>3 DEF ReadMethod
<1>3. CASE ReadSession(r)
  <2>1. Proceed(r, [req[r] EXCEPT !.pc = "user", !.verified = verified[req[r].token]])
    BY <1>3 DEF ReadSession
  <2>2. /\ req' = [req EXCEPT ![r] = req'[r]]
        /\ req'[r] = [req[r] EXCEPT !.pc = "user", !.verified = verified[req[r].token]]
    BY <1>1, <2>1 DEF Proceed
  <2>3. /\ req'[r].op = req[r].op /\ req'[r].token = req[r].token /\ req'[r].pc = "user"
        /\ req'[r].verified = verified[req[r].token]
    BY <1>1, <2>2 DEF Req
  <2> QED
    BY <1>3, <2>2, <2>3 DEF ReadSession, Guarded
<1>4. CASE ReadUser(r)
  <2>1. /\ Proceed(r, [req[r] EXCEPT !.user = user,
                         !.pc = IF req[r].op = "disable" THEN "settings" ELSE "commit"])
        /\ req[r].pc = "user" /\ UNCHANGED database
    BY <1>4 DEF ReadUser
  <2>2. /\ req' = [req EXCEPT ![r] = req'[r]]
        /\ req'[r] = [req[r] EXCEPT !.user = user,
                       !.pc = IF req[r].op = "disable" THEN "settings" ELSE "commit"]
    BY <1>1, <2>1 DEF Proceed
  <2>3. /\ req'[r].op = req[r].op /\ req'[r].token = req[r].token
        /\ req'[r].verified = req[r].verified /\ req'[r].pc # "session"
    BY <1>1, <2>2 DEF Req
  <2> QED
    BY <2>1, <2>2, <2>3
<1>5. CASE ReadSettings(r)
  BY <1>1, <1>5 DEF ReadSettings, Proceed, Req
<1> QED
  BY <1>2, <1>3, <1>4, <1>5 DEF Reads

LEMMA AskedStep ==
  ASSUME Inv, AskedInv, [Next]_vars
  PROVE  AskedInv'
<1>0. req \in [Requests -> Req]
  BY DEF Inv, TypeOK
<1>1. ASSUME NEW q \in Requests, req'[q].token = req[q].token,
             req'[q].pc = "session" => req[q].pc = "session"
      PROVE  Asked(q)'
  <2>1. CASE req[q].token \in Tokens
    BY <1>1, <2>1, SessionsStep DEF AskedInv, Asked
  <2>2. CASE req[q].token \notin Tokens
    <3>1. req[q].token = None
      BY <1>0, <2>2 DEF Req
    <3>2. req[q].pc # "session"
      BY <3>1 DEF Inv, Passed
    <3> QED
      BY <1>1, <2>2, <3>2 DEF Asked
  <2> QED
    BY <2>1, <2>2
<1>2. ASSUME NEW q \in Requests, req'[q] = Idle PROVE Asked(q)'
  BY <1>2, AuthAssumption DEF Asked, Idle
<1>3. ASSUME NEW r \in Requests, NEW op \in Ops, NEW t \in Tokens \cup {None}, Arrive(r, op, t)
      PROVE  AskedInv'
  <2>1. /\ req'[r] = [Idle EXCEPT !.op = op, !.pc = FirstQuery(op), !.token = t]
        /\ \A q \in Requests : q # r => req'[q] = req[q]
        /\ UNCHANGED sessions
    BY <1>0, <1>3 DEF Arrive, database
  <2>2. req'[r].token = t /\ req'[r].pc = FirstQuery(op)
    BY <2>1 DEF Idle
  <2>3. FirstQuery(op) # "session"
    BY DEF FirstQuery, Ops, Guarded, Open, Commands
  <2>4. Asked(r)'
    BY <1>3, <2>1, <2>2, <2>3, AuthAssumption DEF Arrive, Asked
  <2> QED
    BY <1>1, <2>1, <2>4 DEF AskedInv
<1>4. ASSUME NEW r \in Requests, Reads(r), ~Answer(r) PROVE AskedInv'
  <2>1. /\ req'[r].token = req[r].token
        /\ req'[r].pc = "session" => method = "basic"
        /\ \A q \in Requests : q # r => req'[q] = req[q]
        /\ UNCHANGED <<method, sessions>>
    BY <1>0, <1>4, QueryKeeps DEF database
  <2>2. Asked(r)'
    BY <2>1 DEF AskedInv, Asked
  <2> QED
    BY <1>1, <2>1, <2>2 DEF AskedInv
<1>5. ASSUME \A q \in Requests : req'[q] = req[q] \/ req'[q] = Idle PROVE AskedInv'
  BY <1>1, <1>2, <1>5 DEF AskedInv
<1>6. ASSUME NEW r \in Requests, Answer(r) PROVE AskedInv'
  BY <1>0, <1>5, <1>6 DEF Answer, Proceed
<1> QED
  BY <1>3, <1>4, <1>5, <1>6, RequestsEnd
----------------------------------------------------------------------------
\* Sessions that stay as they are have the standing they had.
LEMMA SameToken == UNCHANGED <<sessions, verified>> => Token' = Token
BY DEF Token

\* A request that keeps its operation and what it found keeps its authority.
LEMMA SameWho ==
  ASSUME NEW q \in Requests, req'[q].op = req[q].op, req'[q].verified = req[q].verified
  PROVE  Who'[q] = Who[q]
BY DEF Who

\* Whatever ended the requests, it took nothing but their authority.
LEMMA LeaveContract ==
  ASSUME \A q \in Requests : req'[q] = req[q] \/ req'[q] = Idle, UNCHANGED <<method, user>>,
         Token' = Token
  PROVE  Signing!Next
<1> DEFINE R == {q \in Requests : Who'[q] = "nobody"}
<1>1. ASSUME NEW q \in Requests PROVE Who'[q] = IF q \in R THEN "nobody" ELSE Who[q]
  <2>1. CASE req'[q] = Idle
    BY <2>1 DEF Who, Idle, Commands, Guarded
  <2>2. CASE req'[q] = req[q]
    BY <2>2, SameWho
  <2> QED
    BY <2>1, <2>2
<1>2. Who' = [q \in Requests |-> Who'[q]]
  BY DEF Who
<1>3. Who' = [q \in Requests |-> IF q \in R THEN "nobody" ELSE Who[q]]
  BY <1>1, <1>2
<1>4. R \in SUBSET Requests
  OBVIOUS
<1> HIDE DEF R
<1>5. Signing!Leave(R)
  BY <1>3 DEF Signing!Leave
<1> QED
  BY <1>4, <1>5 DEF Signing!Next

\* The answer ends the authority of that request.
LEMMA AnswerWho ==
  ASSUME Inv, NEW r \in Requests, Answer(r)
  PROVE  /\ Who' = [Who EXCEPT ![r] = "nobody"]
         /\ Who[r] = "nobody" => Who' = Who
<1>1. req \in [Requests -> Req] /\ req' = [req EXCEPT ![r] = Idle]
  BY DEF Inv, TypeOK, Answer, Proceed
<1>2. Who'[r] = "nobody"
  BY <1>1 DEF Who, Idle, Commands, Guarded
<1>3. ASSUME NEW q \in Requests, q # r PROVE Who'[q] = Who[q]
  BY <1>1, <1>3, SameWho
<1>4. Who = [q \in Requests |-> Who[q]] /\ Who' = [q \in Requests |-> Who'[q]]
  BY DEF Who
<1> QED
  BY <1>2, <1>3, <1>4

\* An arriving command has an operator behind it, a query may be what admits.
LEMMA QueryContract ==
  ASSUME Inv, AskedInv, NEW r \in Requests,
         Reads(r) \/ (\E op \in Ops, t \in Tokens \cup {None} : Arrive(r, op, t))
  PROVE  Signing!Next \/ UNCHANGED Signing!vars
<1> DEFINE Goal == Signing!Next \/ UNCHANGED Signing!vars
<1>0. /\ req \in [Requests -> Req] /\ Passed(r) /\ Asked(r)
      /\ Who = [q \in Requests |-> Who[q]] /\ Who' = [q \in Requests |-> Who'[q]]
  BY DEF Inv, TypeOK, AskedInv, Who
<1>1. /\ UNCHANGED database /\ Token' = Token
      /\ \A q \in Requests : q # r => req'[q] = req[q]
  BY <1>0, SameToken
  DEF Reads, ReadMethod, ReadSession, ReadUser, ReadSettings, Arrive, Answer, Proceed, database
<1>2. \A q \in Requests : q # r => Who'[q] = Who[q]
  BY <1>1, SameWho
<1>3. CASE Who'[r] = Who[r]
  <2>1. Who' = Who
    BY <1>0, <1>2, <1>3
  <2> QED
    BY <1>1, <2>1 DEF Signing!vars, database
<1>4. ASSUME NEW op \in Ops, NEW t \in Tokens \cup {None}, Arrive(r, op, t), Who'[r] # Who[r]
      PROVE  Goal
  <2>1. req[r] = Idle /\ req'[r] = [Idle EXCEPT !.op = op, !.pc = FirstQuery(op), !.token = t]
    BY <1>0, <1>4 DEF Arrive
  <2>2. req'[r].op = op /\ req'[r].verified = FALSE
    BY <2>1 DEF Idle
  <2>3. Who[r] = "nobody"
    BY <2>1 DEF Who, Idle, Commands, Guarded
  <2>4. Who'[r] = "operator"
    BY <1>4, <2>2, <2>3 DEF Who
  <2>5. Who' = [Who EXCEPT ![r] = "operator"]
    BY <1>0, <1>2, <2>4
  <2>6. Signing!Command(r)
    BY <1>1, <2>3, <2>5 DEF Signing!Command, Signing!Become, database
  <2> QED
    BY <2>6 DEF Signing!Next
<1>5. ASSUME Reads(r), ~Answer(r), Who'[r] # Who[r] PROVE Goal
  <2> DEFINE t == req[r].token
  <2>1. req'[r].op = req[r].op
    BY <1>5, QueryKeeps
  <2>2. req'[r].verified # req[r].verified
    BY <1>5, <2>1, SameWho
  <2>3. /\ req[r].pc = "session" /\ sessions[t] = "live" /\ req'[r].verified = verified[t]
        /\ req[r].op \in Guarded => verified[t]
    BY <1>5, <2>2, QueryKeeps
  <2>4. req[r].op \in Guarded
    BY <1>5, <2>1 DEF Who
  <2>5. req[r].op \notin Commands
    BY <2>4 DEF Guarded, Commands
  <2>6. verified[t] /\ ~req[r].verified
    BY <1>0, <2>2, <2>3, <2>4 DEF Req
  <2>7. t \in Tokens /\ method = "basic"
    BY <1>0, <2>3 DEF Passed, Asked, Req
  <2>8. Who[r] = "nobody" /\ Who'[r] = "session"
    BY <2>1, <2>3, <2>4, <2>5, <2>6 DEF Who
  <2>9. Who' = [Who EXCEPT ![r] = "session"]
    BY <1>0, <1>2, <2>8
  <2>10. Token[t] = "full"
    BY <2>3, <2>6, <2>7 DEF Token
  <2>11. Signing!Admit(r)
    BY <1>1, <2>7, <2>8, <2>9, <2>10 DEF Signing!Admit, Signing!Become, database
  <2> QED
    BY <2>11 DEF Signing!Next
<1>6. CASE Answer(r)
  <2>1. \A q \in Requests : req'[q] = req[q] \/ req'[q] = Idle
    BY <1>0, <1>6 DEF Answer, Proceed
  <2> QED
    BY <1>1, <2>1, LeaveContract DEF database
<1> QED
  BY <1>3, <1>4, <1>5, <1>6
----------------------------------------------------------------------------
\* The user is changed for whoever has authority to.
LEMMA ChangeContract ==
  ASSUME Inv, [Next]_vars, NEW r \in Requests,
         \/ DropMfa(r)
         \/ \E c \in Credentials : ChangePassword(r, c) \/ ResetPassword(r, c)
         \/ \E s \in Secrets : Confirm(r, s)
  PROVE  Signing!Next
<1>1. /\ Answer(r) /\ UNCHANGED <<method, sessions, verified>>
      /\ req[r].op \in {"unenroll", "dropMfa", "password", "resetPassword", "confirm"}
      /\ req[r].pc = "commit" /\ ~req[r].anonymous
  BY DEF DropMfa, ChangePassword, ResetPassword, Confirm, Commits
<1>2. Who[r] # "nobody"
  BY <1>1 DEF Who, Inv, Passed, Guarded, Commands
<1>3. user' \in User
  <2>1. user' \in User \cup {NoUser} /\ (user # NoUser => user' # NoUser)
    BY UserStep
  <2>2. req[r].user # NoUser => user # NoUser
    BY DEF Inv, LoadedExists
  <2>3. CASE req[r].user # NoUser
    BY <2>1, <2>2, <2>3
  <2>4. CASE req[r].user = NoUser
    <3>1. req[r].op = "resetPassword"
      BY <1>1, <2>4 DEF Inv, Passed, Guarded
    <3>2. PICK c \in Credentials : ResetPassword(r, c)
      BY <3>1 DEF DropMfa, ChangePassword, Confirm, Commits
    <3>3. user' = NewUser(c)
      BY <2>4, <3>2 DEF ResetPassword, Insert
    <3> QED
      BY <3>3, NewUserIsUser
  <2> QED
    BY <2>3, <2>4
<1>4. Signing!Change(r)
  BY <1>1, <1>2, <1>3, AnswerWho, SameToken DEF Signing!Change, Signing!Become
<1> QED
  BY <1>4 DEF Signing!Next

\* Ending all sessions leaves none of them half or full.
LEMMA EndAllToken ==
  ASSUME Inv, EndAll
  PROVE  Signing!AllOver
<1>1. sessions \in [Tokens -> Row]
  BY DEF Inv, TypeOK
<1>2. ASSUME NEW t \in Tokens
      PROVE  Token'[t] = IF Token[t] = "unused" THEN "unused" ELSE "over"
  <2>1. sessions'[t] = IF sessions[t] = "unused" THEN "unused" ELSE "gone"
    BY <1>2 DEF EndAll
  <2>2. Token[t] = "unused" <=> sessions[t] = "unused"
    BY <1>1 DEF Token, Row
  <2>3. sessions'[t] = "unused" => Token'[t] = "unused"
    BY DEF Token
  <2>4. sessions'[t] = "gone" => Token'[t] = "over"
    BY DEF Token
  <2> QED
    BY <2>1, <2>2, <2>3, <2>4
<1>3. Token' = [t \in Tokens |-> Token'[t]]
  BY DEF Token
<1> QED
  BY <1>2, <1>3 DEF Signing!AllOver

\* Switching on takes no authority, switching off does.
LEMMA SwitchContract ==
  ASSUME Inv, [Next]_vars, NEW r \in Requests, Enable(r) \/ Disable(r) \/ OpenUp(r)
  PROVE  Signing!Next
<1>1. /\ Answer(r) /\ EndAll /\ Passed(r) /\ req[r].pc = "commit" /\ ~req[r].anonymous
  BY DEF Enable, Disable, OpenUp, Commits, Inv
<1>2. CASE Enable(r)
  <2>1. Who[r] = "nobody"
    BY <1>2 DEF Enable, Commits, Who, Commands, Guarded
  <2>2. user' \in User /\ (user # NoUser => user' = user)
    BY <1>2, NewUserIsUser DEF Enable, Insert, Inv, TypeOK, LoadedExists
  <2>3. method' = "basic"
    BY <1>2 DEF Enable
  <2>4. Signing!Lock
    BY <1>1, <2>1, <2>2, <2>3, AnswerWho, EndAllToken DEF Signing!Lock
  <2> QED
    BY <2>4 DEF Signing!Next
<1>3. CASE Disable(r) \/ OpenUp(r)
  <2>1. Who[r] # "nobody"
    BY <1>1, <1>3 DEF Disable, OpenUp, Commits, Who, Passed, Commands, Guarded
  <2>2. method' = "none" /\ UNCHANGED user
    BY <1>3 DEF Disable, OpenUp
  <2>3. Signing!Unlock(r)
    BY <1>1, <2>1, <2>2, AnswerWho, EndAllToken DEF Signing!Unlock, Signing!Become
  <2> QED
    BY <2>3 DEF Signing!Next
<1> QED
  BY <1>2, <1>3

\* One session that is written, and the others as they were.
LEMMA OneToken ==
  ASSUME NEW t \in Tokens,
         \A x \in Tokens : x # t => sessions'[x] = sessions[x] /\ verified'[x] = verified[x]
  PROVE  Token' = [Token EXCEPT ![t] = Token'[t]]
<1>1. Token = [x \in Tokens |-> Token[x]] /\ Token' = [x \in Tokens |-> Token'[x]]
  BY DEF Token
<1>2. \A x \in Tokens : x # t => Token'[x] = Token[x]
  BY DEF Token
<1> QED
  BY <1>1, <1>2

\* Login issues a session for the account, verification raises it.
LEMMA LoginContract ==
  ASSUME Inv, NEW r \in Requests, NEW t \in Tokens, Login(r, t)
  PROVE  Signing!Next
<1>1. /\ Answer(r) /\ req[r].op = "login" /\ sessions[t] = "unused" /\ UNCHANGED <<method, user>>
      /\ sessions' = [sessions EXCEPT ![t] = "live"]
      /\ verified' = [verified EXCEPT ![t] = ~req[r].user.mfa]
      /\ sessions \in [Tokens -> Row] /\ verified \in [Tokens -> BOOLEAN]
  BY DEF Login, Commits, Inv, TypeOK
<1>2. Who' = Who
  BY <1>1, AnswerWho DEF Who, Commands, Guarded
<1>3. user # NoUser
  BY DEF Login, Commits, Inv, Passed, LoadedExists
<1>4. Token' = [Token EXCEPT ![t] = Token'[t]]
  BY <1>1, OneToken
<1>5. Token[t] = "unused" /\ Token'[t] \in {"half", "full"}
  BY <1>1 DEF Token
<1>6. Signing!Issue(t)
  BY <1>1, <1>2, <1>3, <1>4, <1>5 DEF Signing!Issue
<1> QED
  BY <1>6 DEF Signing!Next

LEMMA VerifyContract ==
  ASSUME Inv, NEW r \in Requests, Verify(r)
  PROVE  Signing!Next \/ UNCHANGED Signing!vars
<1> DEFINE t == req[r].token
<1>1. /\ Answer(r) /\ req[r].op = "verify" /\ UNCHANGED <<method, user, sessions>>
      /\ UNCHANGED verified \/ verified' = [verified EXCEPT ![t] = TRUE]
      /\ sessions \in [Tokens -> Row] /\ verified \in [Tokens -> BOOLEAN]
  BY DEF Verify, Commits, Inv, TypeOK
<1>2. Who' = Who
  BY <1>1, AnswerWho DEF Who, Commands, Guarded
<1>3. user # NoUser
  BY DEF Verify, Commits, Inv, Passed, LoadedExists
<1>4. CASE Token' = Token
  BY <1>1, <1>2, <1>4 DEF Signing!vars
<1>5. CASE t \in Tokens /\ Token' # Token
  <2>1. verified' = [verified EXCEPT ![t] = TRUE]
    BY <1>1, <1>5, SameToken
  <2>2. Token' = [Token EXCEPT ![t] = Token'[t]]
    BY <1>1, <1>5, <2>1, OneToken
  <2>3. Token'[t] # Token[t]
    <3>1. Token = [x \in Tokens |-> Token[x]]
      BY DEF Token
    <3> QED
      BY <1>5, <2>2, <3>1
  <2>4. sessions[t] = "live" /\ ~verified[t] /\ verified'[t] = TRUE
    BY <1>1, <1>5, <2>1, <2>3 DEF Token
  <2>5. Token[t] = "half" /\ Token'[t] = "full"
    BY <1>1, <1>5, <2>4 DEF Token
  <2>6. Signing!Raise(t)
    BY <1>1, <1>2, <1>3, <2>2, <2>5 DEF Signing!Raise
  <2> QED
    BY <1>5, <2>6 DEF Signing!Next
<1>6. CASE t \notin Tokens
  <2>1. verified' = verified
    BY <1>1, <1>6
  <2> QED
    BY <1>1, <1>4, <2>1, SameToken
<1> QED
  BY <1>4, <1>5, <1>6

\* A session ends by logout or by time.
LEMMA FinishContract ==
  ASSUME Inv, NEW t \in Tokens, Logout(t) \/ Expire(t)
  PROVE  Signing!Next \/ UNCHANGED Signing!vars
<1>1. /\ UNCHANGED <<method, user, verified, req>>
      /\ sessions[t] \in {"live", "expired"}
      /\ sessions' = [sessions EXCEPT ![t] = sessions'[t]] /\ sessions'[t] \in {"expired", "gone"}
      /\ sessions \in [Tokens -> Row]
  BY DEF Logout, Expire, Inv, TypeOK
<1>2. Who' = Who
  BY <1>1 DEF Who
<1>3. Token' = [Token EXCEPT ![t] = "over"]
  <2>1. Token' = [Token EXCEPT ![t] = Token'[t]]
    BY <1>1, OneToken
  <2>2. Token'[t] = "over"
    BY <1>1 DEF Token
  <2> QED
    BY <2>1, <2>2
<1>4. CASE sessions[t] = "live"
  <2>1. Token[t] \in {"half", "full"}
    BY <1>4 DEF Token
  <2>2. Signing!Finish(t)
    BY <1>1, <1>2, <1>3, <2>1 DEF Signing!Finish
  <2> QED
    BY <2>2 DEF Signing!Next
<1>5. CASE sessions[t] = "expired"
  <2>1. Token[t] = "over" /\ Token = [x \in Tokens |-> Token[x]]
    BY <1>5 DEF Token
  <2>2. Token' = Token
    BY <1>3, <2>1
  <2> QED
    BY <1>1, <1>2, <2>2 DEF Signing!vars
<1> QED
  BY <1>1, <1>4, <1>5

LEMMA SigningStep ==
  ASSUME Inv, AskedInv, [Next]_vars
  PROVE  [Signing!Next]_(Signing!vars)
<1>0. req \in [Requests -> Req]
  BY DEF Inv, TypeOK
<1>1. CASE UNCHANGED vars
  BY <1>1 DEF vars, database, Token, Who, Signing!vars
<1>2. ASSUME NEW r \in Requests,
             Reads(r) \/ (\E op \in Ops, t \in Tokens \cup {None} : Arrive(r, op, t))
      PROVE  [Signing!Next]_(Signing!vars)
  BY <1>2, QueryContract
<1>3. ASSUME NEW r \in Requests, Refuse(r) \/ ConfirmStandIn(r) PROVE Signing!Next
  <2>1. Answer(r) /\ UNCHANGED database
    BY <1>3 DEF Refuse, ConfirmStandIn
  <2>2. \A q \in Requests : req'[q] = req[q] \/ req'[q] = Idle
    BY <1>0, <2>1 DEF Answer, Proceed
  <2> QED
    BY <2>1, <2>2, LeaveContract, SameToken DEF database
<1>4. CASE Restart
  <2>1. UNCHANGED database /\ \A q \in Requests : req'[q] = req[q] \/ req'[q] = Idle
    BY <1>4 DEF Restart
  <2> QED
    BY <2>1, LeaveContract, SameToken DEF database
<1> QED
  BY <1>1, <1>2, <1>3, <1>4, ChangeContract, SwitchContract, LoginContract, VerifyContract,
     FinishContract
  DEF Next, Reads

LEMMA SigningInit == Init => Signing!Init
<1> SUFFICES ASSUME Init PROVE Signing!Init
  OBVIOUS
<1>1. \A r \in Requests : Who[r] = "nobody"
  BY DEF Init, Who, Idle, Commands, Guarded
<1>2. \A t \in Tokens : Token[t] = "unused"
  BY DEF Init, Token
<1>3. Who = [r \in Requests |-> Who[r]] /\ Token = [t \in Tokens |-> Token[t]]
  BY DEF Who, Token
<1>4. Who = [r \in Requests |-> "nobody"] /\ Token = [t \in Tokens |-> "unused"]
  BY <1>1, <1>2, <1>3
<1> QED
  BY <1>4 DEF Init, Signing!Init

\* Handlers and commands keep the promises of the sign-in in whatever order their
\* queries and commits fall.
THEOREM SigningKept == Spec => ImplementsSigning
<1>1. Init => AskedInv
  BY AuthAssumption DEF Init, AskedInv, Asked, Idle
<1>2. Spec => [](Inv /\ AskedInv)
  BY <1>1, InvInit, InvStep, AskedStep, PTL DEF Spec
<1>3. Inv /\ AskedInv /\ [Next]_vars => [Signing!Next]_(Signing!vars)
  BY SigningStep
<1> QED
  BY <1>2, <1>3, SigningInit, PTL DEF Spec, ImplementsSigning, Signing!Spec
=============================================================================
