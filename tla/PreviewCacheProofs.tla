------------------------- MODULE PreviewCacheProofs -------------------------
(***************************************************************************)
(* PreviewCache for any number of loads and rules and any TTL: no reply is *)
(* staler than the TTL allows.                                             *)
(***************************************************************************)
EXTENDS PreviewCache, TLAPS

\* A preview stamped "at" is backed by what happened since: what it shows was
\* read, and its rules were enabled, no earlier.
Backed(at, shown) ==
  \A x \in shown : x.at >= at /\ LastOn(x.rule) >= at

\* Rules it leaves out, but those still to come, lapsed no earlier.
Complete(at, shown, todo) ==
  \A r \in Rules : (\A x \in shown : x.rule # r) /\ r \notin todo => Lapsed(r) >= at

LoadOK(l) ==
  /\ Backed(load[l].at, load[l].shown)
  /\ load[l].pc = "query" => load[l].shown = {}
  /\ load[l].pc = "rules" =>
       /\ Complete(load[l].at, load[l].shown, load[l].todo)
       /\ \A r \in load[l].todo : LastOn(r) >= load[l].at

CacheOK ==
  cache # Nothing => Backed(cache.at, cache.shown) /\ Complete(cache.at, cache.shown, {})

\* The strengthening: loads and cache are backed from the time they are stamped
\* with, and a reply is stamped less than a TTL before it was asked for.
Inv ==
  /\ TypeOK
  /\ \A r \in Rules : turned[r] <= clock
  /\ \A l \in Loads : LoadOK(l)
  /\ CacheOK
  /\ FreshReply /\ SwitchedOffIsGone /\ MissingWasOff
----------------------------------------------------------------------------
\* The last times at which a rule was on, and off or failing, only move on.
LEMMA TimesMoveOn ==
  ASSUME Inv, [Next]_vars
  PROVE  /\ clock' \in Nat /\ clock' >= clock
         /\ turned' \in [Rules -> Int] /\ on' \in SUBSET Rules
         /\ \A r \in Rules : /\ turned'[r] <= clock'
                             /\ LastOn(r)' \in Int /\ LastOn(r)' >= LastOn(r)
                             /\ Lapsed(r)' \in Int /\ Lapsed(r)' >= Lapsed(r)
<1> DEFINE Goal == /\ clock' \in Nat /\ clock' >= clock
                   /\ turned' \in [Rules -> Int] /\ on' \in SUBSET Rules
                   /\ \A r \in Rules : /\ turned'[r] <= clock'
                             /\ LastOn(r)' \in Int /\ LastOn(r)' >= LastOn(r)
                             /\ Lapsed(r)' \in Int /\ Lapsed(r)' >= Lapsed(r)
<1> USE DEF Inv, TypeOK, LastOn, Lapsed
<1>1. CASE UNCHANGED <<clock, on, turned>>
  BY <1>1
<1>2. CASE Tick
  BY <1>2 DEF Tick
<1>3. ASSUME NEW r \in Rules, Switch(r) PROVE Goal
  BY <1>3 DEF Switch
<1>4. ASSUME NEW l \in Loads, NEW r \in Rules, SkipRule(l, r) PROVE Goal
  BY <1>4 DEF SkipRule
<1> QED
  BY <1>1, <1>2, <1>3, <1>4
  DEF Next, LoadStep, ServeCached, Open, LoadRules, Evaluate, Finish, Abort, Restart, vars

\* What is backed stays backed, what is complete stays complete.
LEMMA BackedStays ==
  ASSUME Inv, [Next]_vars, NEW at \in Nat, NEW shown \in SUBSET Reading
  PROVE  /\ Backed(at, shown) =>
              \A x \in shown : /\ x.rule \in Rules /\ x.at \in Nat /\ x.at >= at
                               /\ LastOn(x.rule)' \in Int /\ LastOn(x.rule)' >= at
         /\ \A r \in Rules : Lapsed(r) >= at => Lapsed(r)' \in Int /\ Lapsed(r)' >= at
<1>1. \A r \in Rules : /\ LastOn(r)' \in Int /\ LastOn(r)' >= LastOn(r)
                       /\ Lapsed(r)' \in Int /\ Lapsed(r)' >= Lapsed(r)
                       /\ LastOn(r) \in Int /\ Lapsed(r) \in Int
  BY TimesMoveOn DEF LastOn, Lapsed, Inv, TypeOK
<1>2. \A x \in shown : x.rule \in Rules /\ x.at \in Nat
  BY DEF Reading
<1> QED
  BY <1>1, <1>2 DEF Backed

\* What a step leaves alone stays right.
LEMMA FrameStep ==
  ASSUME Inv, [Next]_vars
  PROVE  /\ cache' = cache => CacheOK'
         /\ \A l \in Loads : load'[l] = load[l] => LoadOK(l)'
         /\ reply' = reply => (FreshReply /\ SwitchedOffIsGone /\ MissingWasOff)'
<1>1. \A r \in Rules : /\ LastOn(r)' \in Int /\ LastOn(r)' >= LastOn(r)
                       /\ Lapsed(r)' \in Int /\ Lapsed(r)' >= Lapsed(r)
                       /\ LastOn(r) \in Int /\ Lapsed(r) \in Int
  BY TimesMoveOn DEF LastOn, Lapsed, Inv, TypeOK
<1>2. ASSUME cache' = cache, cache # Nothing PROVE CacheOK'
  <2>1. /\ cache.at \in Nat /\ cache.shown \in SUBSET Reading
        /\ Backed(cache.at, cache.shown) /\ Complete(cache.at, cache.shown, {})
    BY <1>2 DEF Inv, CacheOK, TypeOK, Preview
  <2>2. \A x \in cache.shown : x.at >= cache.at /\ LastOn(x.rule)' >= cache.at
    BY <2>1, BackedStays
  <2>3. \A r \in Rules : (\A x \in cache.shown : x.rule # r) => Lapsed(r)' >= cache.at
    BY <1>1, <2>1 DEF Complete
  <2> QED
    BY <1>2, <2>2, <2>3 DEF CacheOK, Backed, Complete
<1>3. ASSUME NEW l \in Loads, load'[l] = load[l] PROVE LoadOK(l)'
  <2>1. /\ load[l].at \in Nat /\ load[l].shown \in SUBSET Reading
        /\ load[l].todo \in SUBSET Rules /\ LoadOK(l)
    BY DEF Inv, TypeOK, LoadState
  <2>2. \A x \in load[l].shown : x.at >= load[l].at /\ LastOn(x.rule)' >= load[l].at
    BY <2>1, BackedStays DEF LoadOK
  <2>3. load[l].pc = "rules" =>
          /\ \A r \in Rules : (\A x \in load[l].shown : x.rule # r) /\ r \notin load[l].todo
                                => Lapsed(r)' >= load[l].at
          /\ \A r \in load[l].todo : LastOn(r)' >= load[l].at
    BY <1>1, <2>1 DEF Complete, LoadOK
  <2>4. load[l].pc = "query" => load[l].shown = {}
    BY <2>1 DEF LoadOK
  <2> QED
    BY <1>3, <2>2, <2>3, <2>4 DEF LoadOK, Backed, Complete
<1>4. ASSUME reply' = reply, reply # Nothing
      PROVE  (FreshReply /\ SwitchedOffIsGone /\ MissingWasOff)'
  <2>1. /\ reply.at \in Nat /\ reply.shown \in SUBSET Reading
        /\ \A x \in reply.shown : x.rule \in Rules
    BY <1>4 DEF Inv, TypeOK, Preview, Reading
  <2> QED
    BY <1>1, <1>4, <2>1, PreviewAssumption
    DEF Inv, FreshReply, SwitchedOffIsGone, MissingWasOff
<1> QED
  BY <1>2, <1>3, <1>4 DEF CacheOK, FreshReply, SwitchedOffIsGone, MissingWasOff

\* An answer made of what was backed less than a TTL before it was asked for.
LEMMA AnswerStep ==
  ASSUME Inv, [Next]_vars, NEW asked \in Nat, NEW at \in Nat, NEW shown \in SUBSET Reading,
         at > asked - TTL, Backed(at, shown), Complete(at, shown, {}), Answer(asked, shown)
  PROVE  (FreshReply /\ SwitchedOffIsGone /\ MissingWasOff)'
<1>1. \A r \in Rules : LastOn(r)' \in Int /\ Lapsed(r)' \in Int
  BY TimesMoveOn
<1>2. \A x \in shown : x.rule \in Rules /\ x.at \in Nat /\ x.at >= at /\ LastOn(x.rule)' >= at
  BY BackedStays
<1>3. \A r \in Rules : (\A x \in shown : x.rule # r) => Lapsed(r)' >= at
  <2>1. \A r \in Rules : Lapsed(r) >= at => Lapsed(r)' >= at
    BY BackedStays
  <2> QED
    BY <2>1 DEF Complete
<1>4. reply'.at = asked /\ reply'.shown = shown
  BY DEF Answer
<1> QED
  BY <1>1, <1>2, <1>3, <1>4, PreviewAssumption DEF FreshReply, SwitchedOffIsGone, MissingWasOff

\* A step of a load: its new local variables are right.
LEMMA LoadStays ==
  ASSUME Inv, NEW l \in Loads, LoadStep(l)
  PROVE  LoadOK(l)' /\ load'[l] \in LoadState /\ load'[l].at <= clock'
         /\ \A x \in load'[l].shown : x.rule \notin load'[l].todo
<1> DEFINE Goal == LoadOK(l)' /\ load'[l] \in LoadState /\ load'[l].at <= clock'
                   /\ \A x \in load'[l].shown : x.rule \notin load'[l].todo
<1>0. [Next]_vars
  BY DEF Next
<1>1. /\ load[l] \in LoadState /\ LoadOK(l) /\ load[l].at <= clock /\ clock \in Nat
      /\ \A x \in load[l].shown : x.rule \notin load[l].todo
      /\ load \in [Loads -> LoadState] /\ on \in SUBSET Rules
  BY DEF Inv, TypeOK
<1>2. CASE UNCHANGED load
  <2>1. LoadOK(l)' /\ load'[l] = load[l]
    BY <1>0, <1>2, FrameStep
  <2>2. clock' \in Nat /\ clock' >= clock
    BY <1>0, TimesMoveOn
  <2> QED
    BY <1>1, <2>1, <2>2 DEF LoadState
<1>3. CASE load' = [load EXCEPT ![l] = Idle]
  BY <1>1, <1>3, TimesMoveOn, <1>0 DEF Idle, LoadState, LoadOK, Backed
<1>4. CASE Open(l)
  <2>1. load'[l] = [pc |-> "query", at |-> clock, todo |-> {}, shown |-> {}] /\ clock' = clock
    BY <1>1, <1>4 DEF Open, Idle
  <2> QED
    BY <1>1, <2>1 DEF LoadState, LoadOK, Backed
<1>5. CASE LoadRules(l)
  <2>1. load'[l] = [pc |-> "rules", at |-> load[l].at, todo |-> on, shown |-> {}]
        /\ UNCHANGED <<clock, on, turned>>
    BY <1>1, <1>5 DEF LoadRules, LoadState, LoadOK
  <2> QED
    BY <1>1, <2>1 DEF LoadState, LoadOK, Backed, Complete, LastOn, Lapsed
<1>6. ASSUME NEW r \in Rules, Evaluate(l, r) PROVE Goal
  <2>1. load'[l] = [pc |-> "rules", at |-> load[l].at, todo |-> load[l].todo \ {r},
                    shown |-> load[l].shown \cup {[rule |-> r, at |-> clock]}]
        /\ UNCHANGED <<clock, on, turned>> /\ r \in load[l].todo /\ load[l].pc = "rules"
    BY <1>1, <1>6 DEF Evaluate, LoadState
  <2>2. /\ load[l].at \in Nat /\ load[l].todo \in SUBSET Rules
        /\ Backed(load[l].at, load[l].shown)
        /\ Complete(load[l].at, load[l].shown, load[l].todo)
        /\ \A q \in load[l].todo : LastOn(q) >= load[l].at
    BY <1>1, <2>1 DEF LoadState, LoadOK
  <2>3. Backed(load'[l].at, load'[l].shown)
    BY <1>1, <2>1, <2>2 DEF Backed
  <2>4. Complete(load'[l].at, load'[l].shown, load'[l].todo)
    <3>1. ASSUME NEW q \in Rules, q \notin load'[l].todo,
                 \A x \in load'[l].shown : x.rule # q
          PROVE  Lapsed(q) >= load[l].at
      <4>1. [rule |-> r, at |-> clock] \in load'[l].shown
        BY <2>1
      <4>2. q # r /\ q \notin load[l].todo
        <5>1. [rule |-> r, at |-> clock].rule # q
          BY <3>1, <4>1
        <5> QED
          BY <2>1, <3>1, <5>1
      <4>3. \A x \in load[l].shown : x.rule # q
        BY <2>1, <3>1
      <4> QED
        BY <2>2, <4>2, <4>3 DEF Complete
    <3>2. load'[l].at = load[l].at
      BY <2>1
    <3> QED
      BY <3>1, <3>2 DEF Complete
  <2>5. LoadOK(l)'
    BY <2>1, <2>2, <2>3, <2>4 DEF LoadOK, Backed, Complete, LastOn, Lapsed
  <2> QED
    BY <1>1, <2>1, <2>5 DEF LoadState, Reading
<1>7. ASSUME NEW r \in Rules, SkipRule(l, r) PROVE Goal
  <2>1. load'[l] = [pc |-> "rules", at |-> load[l].at, todo |-> load[l].todo \ {r},
                    shown |-> load[l].shown]
        /\ UNCHANGED <<clock, on>> /\ r \in load[l].todo /\ load[l].pc = "rules"
        /\ turned' = IF r \in on THEN [turned EXCEPT ![r] = clock] ELSE turned
    BY <1>1, <1>7 DEF SkipRule, Continue, LoadState
  <2>2. Lapsed(r)' = clock
    BY <2>1 DEF Lapsed, Inv, TypeOK
  <2>3. \A x \in load[l].shown : x.at >= load[l].at /\ LastOn(x.rule)' >= load[l].at
    BY <1>0, <1>1, BackedStays DEF LoadOK, LoadState
  <2>4. \A q \in Rules : /\ LastOn(q)' >= LastOn(q) /\ Lapsed(q)' >= Lapsed(q)
                         /\ LastOn(q) \in Int /\ Lapsed(q) \in Int
                         /\ LastOn(q)' \in Int /\ Lapsed(q)' \in Int
    BY <1>0, TimesMoveOn DEF LastOn, Lapsed, Inv, TypeOK
  <2>5. LoadOK(l)'
    BY <1>1, <2>1, <2>2, <2>3, <2>4 DEF LoadState, LoadOK, Backed, Complete
  <2> QED
    BY <1>1, <2>1, <2>5 DEF LoadState
<1> QED
  BY <1>2, <1>3, <1>4, <1>5, <1>6, <1>7 DEF LoadStep, ServeCached, Finish, Abort

\* Every step keeps the strengthening.
LEMMA InvStep ==
  ASSUME Inv, [Next]_vars
  PROVE  Inv'
<1>1. \A r \in Rules : turned'[r] <= clock'
  BY TimesMoveOn
<1>2. /\ load' \in [Loads -> LoadState]
      /\ \A l \in Loads : /\ LoadOK(l)' /\ load'[l].at <= clock'
                          /\ \A x \in load'[l].shown : x.rule \notin load'[l].todo
  <2>1. CASE UNCHANGED load
    BY <2>1, FrameStep, TimesMoveOn DEF Inv, TypeOK, LoadState
  <2>2. ASSUME NEW l \in Loads, LoadStep(l) PROVE <1>2!1 /\ <1>2!2
    <3>1. \A k \in Loads : k # l => load'[k] = load[k]
      BY <2>2 DEF LoadStep, ServeCached, Open, LoadRules, Evaluate, SkipRule, Finish, Abort, Inv, TypeOK
    <3>2. load' = [k \in Loads |-> load'[k]]
      BY <2>2 DEF LoadStep, ServeCached, Open, LoadRules, Evaluate, SkipRule, Finish, Abort, Inv, TypeOK
    <3> QED
      BY <2>2, <3>1, <3>2, LoadStays, FrameStep, TimesMoveOn DEF Inv, TypeOK, LoadState
  <2>3. CASE Restart
    BY <2>3, TimesMoveOn DEF Restart, Idle, LoadState, LoadOK, Backed
  <2> QED
    BY <2>1, <2>2, <2>3 DEF Next, Tick, Switch, vars
<1>3. /\ cache' \in Preview \cup {Nothing} /\ CacheOK'
      /\ reply' \in Preview \cup {Nothing}
      /\ (FreshReply /\ SwitchedOffIsGone /\ MissingWasOff)'
  <2>1. CASE UNCHANGED <<cache, reply>>
    BY <2>1, FrameStep DEF Inv, TypeOK
  <2>2. ASSUME NEW l \in Loads, ServeCached(l) PROVE <1>3
    <3>1. /\ cache.at \in Nat /\ cache.shown \in SUBSET Reading /\ cache.at > clock - TTL
          /\ Backed(cache.at, cache.shown) /\ Complete(cache.at, cache.shown, {})
      BY <2>2, PreviewAssumption DEF ServeCached, Fresh, Inv, TypeOK, CacheOK, Preview
    <3>2. Answer(clock, cache.shown) /\ cache' = cache /\ clock \in Nat
      BY <2>2 DEF ServeCached, Inv, TypeOK
    <3>3. (FreshReply /\ SwitchedOffIsGone /\ MissingWasOff)'
      BY <3>1, <3>2, AnswerStep
    <3> QED
      BY <3>1, <3>2, <3>3, FrameStep DEF Answer, Preview, Inv, TypeOK
  <2>3. ASSUME NEW l \in Loads, Finish(l) PROVE <1>3
    <3>1. /\ load[l].at \in Nat /\ load[l].shown \in SUBSET Reading
          /\ Backed(load[l].at, load[l].shown) /\ Complete(load[l].at, load[l].shown, {})
      BY <2>3 DEF Finish, Inv, TypeOK, LoadOK, LoadState
    <3>0. load[l].at > load[l].at - TTL
      BY <3>1, PreviewAssumption
    <3>2. Answer(load[l].at, load[l].shown) /\ cache' = [at |-> load[l].at, shown |-> load[l].shown]
      BY <2>3 DEF Finish, Result
    <3>3. (FreshReply /\ SwitchedOffIsGone /\ MissingWasOff)'
      BY <3>0, <3>1, <3>2, AnswerStep
    <3>4. CacheOK'
      <4>1. \A x \in load[l].shown : x.at >= load[l].at /\ LastOn(x.rule)' >= load[l].at
        BY <3>1, BackedStays
      <4>2. \A r \in Rules : Lapsed(r) >= load[l].at => Lapsed(r)' >= load[l].at
        BY <3>1, BackedStays
      <4>3. \A r \in Rules : (\A x \in load[l].shown : x.rule # r)
                               => Lapsed(r)' >= load[l].at
        BY <3>1, <4>2 DEF Complete
      <4>4. cache'.at = load[l].at /\ cache'.shown = load[l].shown
        BY <3>2
      <4> QED
        BY <4>1, <4>3, <4>4 DEF CacheOK, Backed, Complete
    <3> QED
      BY <3>1, <3>2, <3>3, <3>4 DEF Answer, Preview
  <2>4. CASE Restart
    BY <2>4, FrameStep DEF Restart, CacheOK, Inv, TypeOK
  <2> QED
    BY <2>1, <2>2, <2>3, <2>4
    DEF Next, LoadStep, Tick, Switch, Open, LoadRules, Evaluate, SkipRule, Abort, vars
<1> QED
  BY <1>1, <1>2, <1>3, TimesMoveOn DEF Inv, TypeOK

LEMMA InvInit == Init => Inv
BY PreviewAssumption
DEF Init, Inv, TypeOK, LoadOK, CacheOK, Backed, Idle, LoadState, FreshReply, SwitchedOffIsGone,
    MissingWasOff

LEMMA Invariant == Spec => []Inv
BY InvInit, InvStep, PTL DEF Spec
----------------------------------------------------------------------------
\* Every variable keeps its type and no rule is evaluated twice for one preview.
THEOREM TypeCorrect == Spec => []TypeOK
BY Invariant, PTL DEF Inv

\* No reply shows anything read a TTL or more before it was asked for.
THEOREM RepliesAreFresh == Spec => []FreshReply
BY Invariant, PTL DEF Inv

\* A rule that has been off for a TTL is not shown any more.
THEOREM SwitchedOffGoes == Spec => []SwitchedOffIsGone
BY Invariant, PTL DEF Inv

\* A rule is left out only if it was off or failing within a TTL.
THEOREM NothingHidden == Spec => []MissingWasOff
BY Invariant, PTL DEF Inv
=============================================================================
