---------------------------- MODULE PreviewCache ----------------------------
(***************************************************************************)
(* The dashboard's preview: every load of the page asks for it, a module-  *)
(* level cache answers for TTL seconds, and loads that find it expired     *)
(* each evaluate the enabled watched rules, one after the other, and       *)
(* overwrite it.  Meanwhile rules are switched, calls fail and loads       *)
(* overtake one another, so an older preview may replace a newer one.      *)
(***************************************************************************)
EXTENDS Integers

CONSTANTS
  Loads,    \* requests for /api/dashboard/watched-status in progress
  Rules,    \* watched rules
  Nothing,  \* no cache, no reply
  TTL,      \* _PREVIEW_CACHE_TTL_SECONDS, in ticks of the clock
  MaxTime   \* bound: the clock

ASSUME PreviewAssumption == TTL \in Nat \ {0} /\ MaxTime \in Nat

VARIABLES
  clock,
  on,      \* enabled rules
  cache,   \* _preview_cache and _preview_cache_at
  load,    \* load[l]: the local variables of preview_watched_status
  reply,   \* the last answer given, and when it was asked for
  turned   \* history: of an enabled rule, when it was last disabled or could not
           \* be evaluated; of a disabled one, when it was last enabled

vars == <<clock, on, cache, load, reply, turned>>
----------------------------------------------------------------------------
\* What a preview holds of a rule: its items, as the services listed them at
\* some time.
Reading == [rule : Rules, at : Nat]
Preview == [at : Nat, shown : SUBSET Reading]

LoadState == [pc : {"idle", "query", "rules"}, at : Nat,
              todo : SUBSET Rules, shown : SUBSET Reading]
Idle == [pc |-> "idle", at |-> 0, todo |-> {}, shown |-> {}]

\* No rule was switched within a TTL before the process started.
Init ==
  /\ clock = 0 /\ on \in SUBSET Rules
  /\ cache = Nothing
  /\ load = [l \in Loads |-> Idle]
  /\ reply = Nothing
  /\ turned = [r \in Rules |-> -TTL]

\* The last time, up to now, at which r was enabled; at which it was not, or a
\* call of its evaluation failed.
LastOn(r) == IF r \in on THEN clock ELSE turned[r]
Lapsed(r) == IF r \in on THEN turned[r] ELSE clock
----------------------------------------------------------------------------
Tick ==
  /\ clock < MaxTime
  /\ clock' = clock + 1
  /\ UNCHANGED <<on, cache, load, reply, turned>>

\* toggle_rule, update_rule, create_rule, delete_rule
Switch(r) ==
  /\ on' = IF r \in on THEN on \ {r} ELSE on \cup {r}
  /\ turned' = [turned EXCEPT ![r] = clock]
  /\ UNCHANGED <<clock, cache, load, reply>>
----------------------------------------------------------------------------
Answer(asked, P) == reply' = [at |-> asked, shown |-> P]

\* Mutant: the last second still counts.
FreshOrJustExpired == cache # Nothing /\ clock - cache.at <= TTL

Fresh == cache # Nothing /\ clock - cache.at < TTL

ServeCached(l) ==
  /\ load[l].pc = "idle" /\ Fresh
  /\ Answer(clock, cache.shown)
  /\ UNCHANGED <<clock, on, cache, load, turned>>

Open(l) ==
  /\ load[l].pc = "idle" /\ ~Fresh
  /\ load' = [load EXCEPT ![l] = [Idle EXCEPT !.pc = "query", !.at = clock]]
  /\ UNCHANGED <<clock, on, cache, reply, turned>>

LoadRules(l) ==
  /\ load[l].pc = "query"
  /\ load' = [load EXCEPT ![l].pc = "rules", ![l].todo = on]
  /\ UNCHANGED <<clock, on, cache, reply, turned>>

\* Mutant: a rule is evaluated for each of its two item types.
EvaluateAgain(l, r) ==
  /\ load[l].pc = "rules" /\ r \in load[l].todo
  /\ load' = [load EXCEPT ![l].shown = @ \cup {[rule |-> r, at |-> clock]}]
  /\ UNCHANGED <<clock, on, cache, reply, turned>>

\* evaluate(dry_run=True); "at" is when the oldest list it uses was read.
Evaluate(l, r) ==
  /\ load[l].pc = "rules" /\ r \in load[l].todo
  /\ load' = [load EXCEPT ![l].todo = @ \ {r},
                          ![l].shown = @ \cup {[rule |-> r, at |-> clock]}]
  /\ UNCHANGED <<clock, on, cache, reply, turned>>

\* Mutant: the first failure ends the loop.
Break(l, r) == [load[l] EXCEPT !.todo = {}]

Continue(l, r) == [load[l] EXCEPT !.todo = @ \ {r}]

\* IntegrationError: a call failed or the service is disabled.
SkipRule(l, r) ==
  /\ load[l].pc = "rules" /\ r \in load[l].todo
  /\ load' = [load EXCEPT ![l] = Continue(l, r)]
  /\ turned' = IF r \in on THEN [turned EXCEPT ![r] = clock] ELSE turned
  /\ UNCHANGED <<clock, on, cache, reply>>

\* Mutant: the preview is as old as its completion.
StampedAtEnd(l) == [at |-> clock, shown |-> load[l].shown]

Result(l) == [at |-> load[l].at, shown |-> load[l].shown]

Finish(l) ==
  /\ load[l].pc = "rules" /\ load[l].todo = {}
  /\ cache' = Result(l)
  /\ Answer(load[l].at, load[l].shown)
  /\ load' = [load EXCEPT ![l] = Idle]
  /\ UNCHANGED <<clock, on, turned>>

\* Any other exception; the request is answered with an error.
Abort(l) ==
  /\ load[l].pc # "idle"
  /\ load' = [load EXCEPT ![l] = Idle]
  /\ UNCHANGED <<clock, on, cache, reply, turned>>

Restart ==
  /\ cache' = Nothing
  /\ load' = [l \in Loads |-> Idle]
  /\ UNCHANGED <<clock, on, reply, turned>>
----------------------------------------------------------------------------
LoadStep(l) ==
  \/ ServeCached(l)
  \/ Open(l)
  \/ LoadRules(l)
  \/ \E r \in Rules : Evaluate(l, r) \/ SkipRule(l, r)
  \/ Finish(l)
  \/ Abort(l)

Next ==
  \/ Tick
  \/ \E r \in Rules : Switch(r)
  \/ \E l \in Loads : LoadStep(l)
  \/ Restart

Spec == Init /\ [][Next]_vars
----------------------------------------------------------------------------
(* Properties.                                                             *)

\* Every variable has its type, a load starts in the past, and no rule is
\* evaluated twice for one preview.
TypeOK ==
  /\ clock \in Nat /\ on \in SUBSET Rules
  /\ cache \in Preview \cup {Nothing}
  /\ load \in [Loads -> LoadState]
  /\ \A l \in Loads : /\ load[l].at <= clock
                      /\ \A x \in load[l].shown : x.rule \notin load[l].todo
  /\ reply \in Preview \cup {Nothing}
  /\ turned \in [Rules -> Int]

\* However loads overtake one another, a reply shows nothing that was read a
\* TTL or more before it was asked for (_preview_cache_at is when the load
\* began, not when it ended).
FreshReply ==
  reply # Nothing => \A x \in reply.shown : x.at > reply.at - TTL

\* A rule that has been off for a TTL is not shown, although the loads that
\* overwrite the cache may have read the rules before it was switched off.
SwitchedOffIsGone ==
  reply # Nothing => \A x \in reply.shown : LastOn(x.rule) > reply.at - TTL

\* A rule missing from a reply was off, or could not be evaluated, less than a
\* TTL before it was asked for: another rule's failure, or a preview made
\* without it by an earlier load, does not hide it for longer.
MissingWasOff ==
  reply # Nothing => \A r \in Rules :
    (\A x \in reply.shown : x.rule # r) => Lapsed(r) > reply.at - TTL
=============================================================================
