------------------------- MODULE RequestRulesProofs -------------------------
(***************************************************************************)
(* RequestRules for any works, requests, page size, threshold, and any     *)
(* number of changes between the calls.                                    *)
(***************************************************************************)
EXTENDS RequestRules, TLAPS, SequenceTheorems, FiniteSetTheorems, WellFoundedInduction

\* What was read of a work was true of it at some moment of the scan.
Was(w, snapshot) ==
  \E f \in been[w] : f.shelved /\ f.data = snapshot.data /\ f.plain = snapshot.plain

SeenWas ==
  /\ \A w \in DOMAIN scan.seen : Was(w, scan.seen[w])
  /\ \A w \in scan.found : \E f \in been[w] : f.managed

\* Each rule makes its own calls.
InOrder == scan.pc \in DOMAIN NextCall[rule.kind] \cup {"decide", "done", "failed"}

\* The strengthening: what is true is noted as it changes, and nothing is decided
\* before the end.
Inv ==
  /\ TypeOK
  /\ \A w \in Works : Fact(w) \in been[w]
  /\ SeenWas
  /\ InOrder
  /\ scan.pc # "done" => verdicts = {}
  /\ MatchWasDue /\ JudgedIsRequested
----------------------------------------------------------------------------
(* Numbers and sequences.                                                  *)

LEMMA Least ==
  ASSUME NEW T \in SUBSET Nat, T # {}
  PROVE  \E x \in T : \A y \in T : x <= y
<1> DEFINE R == OpToRel(<, Nat)
<1>1. IsWellFoundedOn(R, Nat)
  BY NatLessThanWellFounded
<1>2. PICK x \in T : \A y \in T : <<y, x>> \notin R
  <2> HIDE DEF R
  <2> QED
    BY <1>1, WFMin
<1>3. \A y \in T : ~(y < x)
  BY <1>2 DEF OpToRel
<1>4. \A y \in T : y \in Nat
  OBVIOUS
<1>5. \A y \in T : x <= y
  <2> HIDE DEF R
  <2> QED
    BY <1>3, <1>4
<1> QED
  BY <1>5

LEMMA Part ==
  ASSUME NEW S, NEW q \in Seq(S), NEW m \in Nat \ {0}, NEW n \in Int, n <= Len(q)
  PROVE  SubSeq(q, m, n) \in Seq(S)
<1>1. Len(q) \in Nat /\ \A j \in 1 .. Len(q) : q[j] \in S
  BY LenProperties, ElementOfSeq
<1>2. \A j \in m .. n : q[j] \in S
  BY <1>1
<1> QED
  BY <1>2, SubSeqProperties

LEMMA Removed ==
  ASSUME NEW S, NEW q \in Seq(S), NEW i \in DOMAIN q
  PROVE  SubSeq(q, 1, i - 1) \o SubSeq(q, i + 1, Len(q)) \in Seq(S)
<1>1. i \in 1 .. Len(q) /\ Len(q) \in Nat
  BY LenProperties
<1>2. SubSeq(q, 1, i - 1) \in Seq(S) /\ SubSeq(q, i + 1, Len(q)) \in Seq(S)
  BY <1>1, Part
<1> QED
  BY <1>2, ConcatProperties

LEMMA Inserted ==
  ASSUME NEW S, NEW q \in Seq(S), NEW i \in 0 .. Len(q), NEW x \in S
  PROVE  SubSeq(q, 1, i) \o <<x>> \o SubSeq(q, i + 1, Len(q)) \in Seq(S)
<1>1. Len(q) \in Nat
  BY LenProperties
<1>2. SubSeq(q, 1, i) \in Seq(S) /\ SubSeq(q, i + 1, Len(q)) \in Seq(S) /\ <<x>> \in Seq(S)
  BY <1>1, Part
<1>3. SubSeq(q, 1, i) \o <<x>> \in Seq(S)
  BY <1>2, ConcatProperties
<1> QED
  BY <1>2, <1>3, ConcatProperties

LEMMA EntriesType == \A q \in Seq(Requests) : Entries(q) \subseteq Requests
BY ElementOfSeq, LenProperties DEF Entries
----------------------------------------------------------------------------
LEMMA ListingType ==
  ASSUME NEW f
  PROVE  f \in Listing <=> /\ f = [w \in DOMAIN f |-> f[w]] /\ DOMAIN f \subseteq Works
                           /\ \A w \in DOMAIN f : f[w] \in Snapshots
BY DEF Listing

LEMMA SnapshotType == TypeOK => \A w \in Works : Snapshot(w) \in Snapshots
BY DEF TypeOK, Snapshot, Snapshots

\* What is due depends on the user data and the mark.
LEMMA SameDue ==
  ASSUME NEW x, NEW y, x.data = y.data, x.plain = y.plain
  PROVE  IsDue(x) <=> IsDue(y)
BY DEF IsDue

LEMMA NextCallType ==
  ASSUME NEW k \in {"watched", "stale"}
  PROVE  /\ FirstCall[k] \in DOMAIN NextCall[k]
         /\ DOMAIN NextCall[k] \subseteq {"films", "shows", "radarr", "sonarr", "requests"}
         /\ \A c \in DOMAIN NextCall[k] : NextCall[k][c] \in DOMAIN NextCall[k] \cup {"decide"}
BY DEF FirstCall, NextCall

\* The request that goes with a film, if any, is one of those read, of its number.
LEMMA RequestForType ==
  ASSUME Inv, NEW w
  PROVE  /\ RequestFor(w) \in Requests \cup {None}
         /\ RequestFor(w) # None => Tmdb[Subject[RequestFor(w)]] = Tmdb[w]
<1> DEFINE hits == {i \in DOMAIN scan.listed : Tmdb[Subject[scan.listed[i]]] = Tmdb[w]}
<1>1. scan.listed \in Seq(Requests)
  BY DEF Inv, TypeOK, Scan
<1>2. hits \in SUBSET Nat /\ \A i \in hits : scan.listed[i] \in Requests
  BY <1>1, LenProperties, ElementOfSeq
<1>3. CASE hits # {}
  <2>1. \E i \in hits : \A j \in hits : i <= j
    <3> HIDE DEF hits
    <3> QED
      BY <1>2, <1>3, Least
  <2>2. (CHOOSE i \in hits : \A j \in hits : i <= j) \in hits
    <3> HIDE DEF hits
    <3> QED
      BY <2>1
  <2> QED
    BY <1>2, <2>2 DEF RequestFor
<1> QED
  BY <1>3 DEF RequestFor

\* The house changes: its snapshots are noted.
LEMMA ChangeStep ==
  ASSUME Inv, Change
  PROVE  Inv'
<1> USE DEF Inv, TypeOK
<1>1. /\ shelf' \subseteq Works /\ managed' \subseteq Works /\ favourites' \subseteq Works
  BY DEF Change, Watch, ToggleFavourite, Shelve, Withdraw, Arrive, Tick, Judged, Works
<1>2. clock' \in 0 .. MaxTime
  <2>1. clock' = clock \/ Tick
    BY DEF Change, Watch, ToggleFavourite, Shelve, Withdraw, Arrive
  <2>2. CASE Tick
    BY <2>2, RequestAssumption DEF Tick
  <2> QED
    BY <2>1, <2>2
<1>3. user' \in [Works -> UserData]
  <2>1. user' = user \/ \E w \in Works : Watch(w)
    BY DEF Change, ToggleFavourite, Shelve, Withdraw, Arrive, Tick, Judged, Works
  <2>2. ASSUME NEW w \in Works, Watch(w) PROVE user' \in [Works -> UserData]
    <3>1. PICK data \in {Never, Begun, clock} : user' = [user EXCEPT ![w] = data]
      BY <2>2 DEF Watch
    <3>2. data \in UserData
      BY DEF UserData
    <3> QED
      BY <3>1, <3>2
  <2> QED
    BY <2>1, <2>2
<1>4. queue' \in Seq(Requests)
  <2>1. \/ queue' = queue
        \/ \E i \in DOMAIN queue : Withdraw(i)
        \/ \E r \in Requests, i \in 0 .. Len(queue) : Arrive(r, i)
    BY DEF Change, Watch, ToggleFavourite, Shelve, Tick
  <2>2. ASSUME NEW i \in DOMAIN queue, Withdraw(i) PROVE queue' \in Seq(Requests)
    BY <2>2, Removed DEF Withdraw
  <2>3. ASSUME NEW r \in Requests, NEW i \in 0 .. Len(queue), Arrive(r, i)
        PROVE  queue' \in Seq(Requests)
    BY <2>3, Inserted DEF Arrive
  <2> QED
    BY <2>1, <2>2, <2>3
<1>5. lasting' \subseteq Requests
  BY DEF Change, Watch, ToggleFavourite, Shelve, Withdraw, Arrive, Tick
<1>6. removed' \in Nat
  <2>1. removed' = removed \/ removed' = removed + 1
    BY DEF Change, Watch, ToggleFavourite, Shelve, Withdraw, Arrive, Tick
  <2> QED
    BY <2>1
<1>7. changes' \in 0 .. MaxChanges[rule'.kind]
  <2>1. rule' = rule /\ MaxChanges[rule.kind] \in Nat
    BY RequestAssumption DEF Change, facts
  <2> QED
    BY <2>1 DEF Change
<1>8. \A w \in Works : Fact(w)' \in Facts
  BY <1>3 DEF Fact, Facts
<1>9. /\ been' \in [Works -> SUBSET Facts]
      /\ \A w \in Works : Fact(w)' \in been'[w] /\ been[w] \subseteq been'[w]
  BY <1>8 DEF Change
<1>10. UNCHANGED <<facts, scan, verdicts>> /\ calm' \in BOOLEAN /\ scan.pc # "done"
  BY DEF Change
<1>11. TypeOK'
  BY <1>1, <1>2, <1>3, <1>4, <1>5, <1>6, <1>7, <1>9, <1>10 DEF facts
<1>12. SeenWas'
  <2>1. DOMAIN scan.seen \subseteq Works /\ scan.found \subseteq Works
    BY ListingType DEF Scan
  <2>2. \A w \in DOMAIN scan.seen : Was(w, scan.seen[w])'
    BY <1>9, <1>10, <2>1 DEF SeenWas, Was
  <2>3. \A w \in scan.found : \E f \in been'[w] : f.managed
    BY <1>9, <2>1 DEF SeenWas
  <2> QED
    BY <1>10, <2>2, <2>3 DEF SeenWas
<1>13. verdicts' = {}
  BY <1>10
<1> QED
  BY <1>9, <1>10, <1>11, <1>12, <1>13 DEF MatchWasDue, JudgedIsRequested, Matches, InOrder, facts

\* Before the end, a step that only reads.
LEMMA ReadingStep ==
  ASSUME Inv, UNCHANGED <<facts, house, verdicts, been, changes>>, scan.pc # "done",
         scan' \in Scan, SeenWas', calm' \in BOOLEAN, lasting' \subseteq Requests, removed' = removed,
         scan'.pc \in DOMAIN NextCall[rule.kind] \cup {"decide", "failed"}
  PROVE  Inv'
<1>1. verdicts' = {}
  BY DEF Inv
<1>2. TypeOK'
  BY DEF Inv, TypeOK, facts, house
<1>3. \A w \in Works : Fact(w)' = Fact(w)
  BY DEF Fact, house
<1>4. InOrder'
  BY DEF InOrder, facts
<1> QED
  BY <1>1, <1>2, <1>3, <1>4 DEF Inv, MatchWasDue, JudgedIsRequested, Matches

LEMMA AnswerType ==
  ASSUME Inv, scan.pc \notin {"decide", "done", "failed"}
  PROVE  /\ Answer \in DOMAIN NextCall[rule.kind] \cup {"decide"}
         /\ Answer \in {"films", "shows", "radarr", "sonarr", "requests", "decide"}
         /\ scan.pc \in DOMAIN NextCall[rule.kind]
<1>1. rule.kind \in {"watched", "stale"} /\ scan.pc \in DOMAIN NextCall[rule.kind]
  BY DEF Inv, TypeOK, InOrder
<1> QED
  BY <1>1, NextCallType DEF Answer

LEMMA ReadShelfStep ==
  ASSUME Inv, ReadShelf
  PROVE  Inv'
<1> DEFINE kind == IF scan.pc = "films" THEN Films ELSE Shows
           read == DOMAIN scan.seen \cup (shelf \cap kind)
           seen == [w \in read |-> IF w \in shelf \cap kind THEN Snapshot(w) ELSE scan.seen[w]]
<1>1. /\ scan' = [scan EXCEPT !.pc = Answer, !.seen = seen] /\ scan.pc \in {"films", "shows"}
      /\ UNCHANGED <<facts, house, verdicts, calm, been, changes, lasting, removed>>
  BY DEF ReadShelf, rest
<1>2. scan \in Scan /\ scan.seen \in Listing /\ TypeOK /\ shelf \subseteq Works
  BY DEF Inv, TypeOK, Scan
<1>3. DOMAIN scan.seen \subseteq Works /\ \A w \in DOMAIN scan.seen : scan.seen[w] \in Snapshots
  BY <1>2, ListingType
<1>4. \A w \in read : w \in Works /\ seen[w] \in Snapshots
  BY <1>2, <1>3, SnapshotType
<1>5. ASSUME NEW w \in read PROVE Was(w, seen[w])
  <2>1. CASE w \in kind \cap shelf
    <3>1. seen[w] = Snapshot(w) /\ Fact(w) \in been[w]
      BY <1>4, <2>1 DEF Inv
    <3> QED
      BY <2>1, <3>1 DEF Was, Snapshot, Fact
  <2>2. CASE w \notin kind \cap shelf
    BY <2>2 DEF Inv, SeenWas
  <2> QED
    BY <2>1, <2>2
<1>6. seen \in Listing
  BY <1>4, ListingType
<1> HIDE DEF seen, read, kind
<1>7. scan' \in Scan /\ scan'.pc = Answer /\ scan'.seen = seen
  BY <1>1, <1>2, <1>6, AnswerType DEF Scan
<1>8. SeenWas'
  <2>1. \A w \in DOMAIN scan'.seen : Was(w, scan'.seen[w])
    BY <1>5, <1>7 DEF seen
  <2>2. scan'.found = scan.found /\ been' = been
    BY <1>1, <1>2 DEF Scan
  <2> QED
    BY <2>1, <2>2 DEF SeenWas, Was, Inv
<1>9. calm' \in BOOLEAN /\ lasting' \subseteq Requests
  BY <1>1 DEF Inv, TypeOK
<1> QED
  BY <1>1, <1>7, <1>8, <1>9, AnswerType, ReadingStep

LEMMA ReadManagedStep ==
  ASSUME Inv, ReadManaged
  PROVE  Inv'
<1> DEFINE found == scan.found \cup (managed \cap (IF scan.pc = "radarr" THEN Films ELSE Shows))
<1>1. /\ scan' = [scan EXCEPT !.pc = Answer, !.found = found] /\ scan.pc \in {"radarr", "sonarr"}
      /\ UNCHANGED <<facts, house, verdicts, calm, been, changes, lasting, removed>>
  BY DEF ReadManaged, rest
<1>2. scan \in Scan /\ found \subseteq Works
  BY DEF Inv, TypeOK, Scan
<1> HIDE DEF found
<1>3. scan' \in Scan /\ scan'.pc = Answer /\ scan'.seen = scan.seen /\ scan'.found = found
  BY <1>1, <1>2, AnswerType DEF Scan
<1>4. SeenWas'
  <2>1. \A w \in found : \E f \in been[w] : f.managed
    <3>1. \A w \in managed : Fact(w) \in been[w] /\ Fact(w).managed
      BY DEF Inv, TypeOK, Fact
    <3> QED
      BY <3>1 DEF found, Inv, SeenWas
  <2> QED
    BY <1>1, <1>3, <2>1 DEF SeenWas, Was, Inv
<1>5. calm' \in BOOLEAN /\ lasting' \subseteq Requests
  BY <1>1 DEF Inv, TypeOK
<1> QED
  BY <1>1, <1>3, <1>4, <1>5, AnswerType, ReadingStep

LEMMA ReadPageStep ==
  ASSUME Inv, ReadPage
  PROVE  Inv'
<1> DEFINE next == scan.skip + PageSize
           page == SubSeq(queue, scan.skip + 1, IF next <= Len(queue) THEN next ELSE Len(queue))
           pc   == IF LastPage(next) THEN Answer ELSE "requests"
<1>1. /\ scan' = [scan EXCEPT !.listed = @ \o page, !.skip = next, !.pc = pc]
      /\ scan.pc = "requests" /\ lasting' = IF scan.skip = 0 THEN Entries(queue) ELSE lasting
      /\ UNCHANGED <<facts, house, verdicts, calm, been, changes, removed>>
  BY DEF ReadPage, rest
<1>2. scan \in Scan /\ queue \in Seq(Requests) /\ scan.skip \in Nat /\ scan.listed \in Seq(Requests)
  BY DEF Inv, TypeOK, Scan
<1>3. next \in Nat /\ Len(queue) \in Nat
  BY <1>2, RequestAssumption, LenProperties
<1>4. page \in Seq(Requests)
  BY <1>2, <1>3, Part
<1>5. pc \in DOMAIN NextCall[rule.kind] \cup {"decide"}
      /\ pc \in {"films", "shows", "radarr", "sonarr", "requests", "decide"}
  BY <1>1, AnswerType
<1> HIDE DEF next, page, pc
<1>6. scan.listed \o page \in Seq(Requests)
  BY <1>2, <1>4, ConcatProperties
<1>7. scan' \in Scan /\ scan'.pc = pc /\ scan'.seen = scan.seen /\ scan'.found = scan.found
  BY <1>1, <1>2, <1>3, <1>5, <1>6 DEF Scan
<1>8. SeenWas'
  BY <1>1, <1>7 DEF SeenWas, Was, Inv
<1>9. calm' \in BOOLEAN /\ lasting' \subseteq Requests /\ scan.pc # "done"
  BY <1>1, <1>2, EntriesType DEF Inv, TypeOK
<1> QED
  BY <1>1, <1>5, <1>7, <1>8, <1>9, ReadingStep

LEMMA CallFailsStep ==
  ASSUME Inv, CallFails
  PROVE  Inv'
<1>1. scan \in Scan
  BY DEF Inv, TypeOK
<1>2. scan' \in Scan /\ scan'.pc = "failed" /\ scan'.seen = scan.seen /\ scan'.found = scan.found
  BY <1>1 DEF CallFails, Scan
<1>3. SeenWas'
  BY <1>2 DEF CallFails, SeenWas, Was, Inv
<1>4. calm' \in BOOLEAN /\ lasting' \subseteq Requests
  BY DEF CallFails, Inv, TypeOK
<1> QED
  BY <1>2, <1>3, <1>4, ReadingStep DEF CallFails
----------------------------------------------------------------------------
(* The decisions.                                                          *)

\* What a decision must be for the invariant to hold.
GoodVerdict(v) ==
  /\ v \in Verdicts
  /\ v.reason = "match" =>
       /\ v.entry \in named
       /\ \E f \in been[v.entry] : f.shelved /\ IsDue(f)
       /\ \E f \in been[v.entry] : f.managed
       /\ rule.kind = "stale" => added[v.request] \in LongAgo
       /\ rule.kind = "stale" => v.item = Subject[v.request] /\ v.entry = Subject[v.request]

LEMMA DecisionStep ==
  ASSUME Inv, scan' = [scan EXCEPT !.pc = "done"], \A v \in verdicts' : GoodVerdict(v),
         UNCHANGED <<facts, house, calm, been, lasting, removed, changes>>
  PROVE  Inv'
<1>1. scan \in Scan
  BY DEF Inv, TypeOK
<1>2. scan' \in Scan /\ scan'.pc = "done" /\ scan'.seen = scan.seen /\ scan'.found = scan.found
  BY <1>1 DEF Scan
<1>3. verdicts' \subseteq Verdicts
  BY DEF GoodVerdict
<1>4. TypeOK'
  BY <1>2, <1>3 DEF Inv, TypeOK, facts, house
<1>5. \A w \in Works : Fact(w)' = Fact(w)
  BY DEF Fact, house
<1>6. (\A x : IsDue(x)' <=> IsDue(x)) /\ LongAgo' = LongAgo
  BY DEF IsDue, LongAgo, facts, house
<1>7. MatchWasDue'
  BY <1>6 DEF MatchWasDue, Matches, GoodVerdict, facts
<1>8. JudgedIsRequested'
  BY DEF JudgedIsRequested, Matches, GoodVerdict, facts
<1> QED
  BY <1>2, <1>4, <1>5, <1>7, <1>8 DEF Inv, SeenWas, Was, InOrder

\* What is past the threshold has its date in LongAgo.
LEMMA PastIsLongAgo ==
  ASSUME Inv, NEW d \in UserData
  PROVE  (IsPast(d) <=> d \in LongAgo) /\ (IsPast(d) => d >= Undated)
<1>1. d \in Int /\ clock \in Int /\ Threshold \in Int
  BY RequestAssumption DEF UserData, Never, Begun, Undated, Inv, TypeOK
<1> QED
  BY <1>1 DEF IsPast, LongAgo, Undated

LEMMA SeenFacts ==
  ASSUME Inv, NEW w \in DOMAIN scan.seen
  PROVE  /\ w \in Works
         /\ IsDue(scan.seen[w]) => \E f \in been[w] : f.shelved /\ IsDue(f)
         /\ scan.seen[w].data \in UserData /\ scan.seen[w].plain \in BOOLEAN
<1>1. scan.seen \in Listing
  BY DEF Inv, TypeOK, Scan
<1>2. w \in Works /\ scan.seen[w] \in Snapshots
  BY <1>1, ListingType
<1>3. PICK f \in been[w] : f.shelved /\ f.data = scan.seen[w].data /\ f.plain = scan.seen[w].plain
  BY DEF Inv, SeenWas, Was
<1> QED
  BY <1>2, <1>3, SameDue DEF Snapshots

LEMMA DecideWatchedStep ==
  ASSUME Inv, DecideWatched
  PROVE  Inv'
<1>1. ASSUME NEW w \in DOMAIN scan.seen PROVE GoodVerdict(WatchedVerdict(w))
  <2>1. /\ w \in Works
        /\ IsDue(scan.seen[w]) => \E f \in been[w] : f.shelved /\ IsDue(f)
        /\ scan.seen[w].data \in UserData /\ scan.seen[w].plain \in BOOLEAN
    BY SeenFacts
  <2>2. ASSUME NEW x \in Reasons \ {"match"} PROVE GoodVerdict(Verdict(w, x))
    <3>1. Verdict(w, x) \in Verdicts /\ Verdict(w, x).reason # "match"
      BY <2>1 DEF Verdict, Verdicts
    <3> QED
      BY <3>1 DEF GoodVerdict
  <2>3. CASE /\ IsPast(scan.seen[w].data) /\ ~IsExempt(w)
             /\ w \in named /\ w \in scan.found
    <3>1. IsDue(scan.seen[w])
      BY <2>1, <2>3, PastIsLongAgo DEF IsDue, IsExempt, DecideWatched
    <3>2. /\ Match(w, w, RequestFor(w)) \in Verdicts
          /\ Match(w, w, RequestFor(w)).entry = w
      BY <2>1, RequestForType DEF Match, Verdicts, Reasons
    <3>3. GoodVerdict(Match(w, w, RequestFor(w)))
      BY <2>1, <2>3, <3>1, <3>2 DEF GoodVerdict, DecideWatched, Inv, SeenWas
    <3> QED
      BY <2>2, <2>3, <3>3 DEF WatchedVerdict, Reasons
  <2>4. CASE ~(/\ IsPast(scan.seen[w].data) /\ ~IsExempt(w)
               /\ w \in named /\ w \in scan.found)
    BY <2>2, <2>4 DEF WatchedVerdict, Reasons
  <2> QED
    BY <2>3, <2>4
<1>2. \A v \in verdicts' : GoodVerdict(v)
  BY <1>1 DEF DecideWatched
<1> QED
  BY <1>2, DecisionStep DEF DecideWatched

LEMMA DecideStaleStep ==
  ASSUME Inv, DecideStale
  PROVE  Inv'
<1> DEFINE old == {r \in Entries(scan.listed) : IsPast(added[r])}
           listed == {r \in old : Candidates(r) # {}}
<1>1. PICK pick \in [listed -> Works] :
        /\ \A r \in listed : pick[r] \in Candidates(r)
        /\ verdicts' = {Verdict(None, "unknown") : r \in old \ listed}
             \cup {StaleVerdict(r, pick[r]) : r \in {q \in listed : scan.seen[pick[q]].data = Never}}
  BY DEF DecideStale
<1>2. old \subseteq Requests
  BY EntriesType DEF Inv, TypeOK, Scan
<1>3. GoodVerdict(Verdict(None, "unknown"))
  <2>1. Verdict(None, "unknown") \in Verdicts /\ Verdict(None, "unknown").reason # "match"
    BY DEF Verdict, Verdicts, Reasons
  <2> QED
    BY <2>1 DEF GoodVerdict
<1>4. ASSUME NEW r \in Requests, IsPast(added[r]),
             NEW w \in Candidates(r), scan.seen[w].data = Never
      PROVE  GoodVerdict(StaleVerdict(r, w))
  <2>1. w \in DOMAIN scan.seen
    BY <1>4 DEF Candidates
  <2>2. /\ w \in Works /\ scan.seen[w].plain \in BOOLEAN
        /\ IsDue(scan.seen[w]) => \E f \in been[w] : f.shelved /\ IsDue(f)
    BY <2>1, SeenFacts
  <2>3. ASSUME NEW x \in Reasons \ {"match"} PROVE GoodVerdict(Verdict(w, x))
    <3>1. Verdict(w, x) \in Verdicts /\ Verdict(w, x).reason # "match"
      BY <2>2 DEF Verdict, Verdicts
    <3> QED
      BY <3>1 DEF GoodVerdict
  <2>4. CASE ~IsExempt(w) /\ IsManaged(r)
    <3>1. w = Subject[r] /\ w \in named /\ w \in scan.found
      <4>1. CASE Subject[r] \in Films
        BY <1>4, <2>4, <4>1, RequestAssumption DEF Candidates, IsManaged
      <4>2. CASE Subject[r] \notin Films
        BY <1>4, <2>4, <4>2 DEF Candidates, IsManaged
      <4> QED
        BY <4>1, <4>2
    <3>2. IsDue(scan.seen[w])
      BY <1>4, <2>2, <2>4 DEF IsDue, IsExempt, DecideStale
    <3>3. /\ Match(w, w, r) \in Verdicts /\ Match(w, w, r).entry = w
          /\ Match(w, w, r).item = w /\ Match(w, w, r).request = r
      BY <2>2 DEF Match, Verdicts, Reasons
    <3>4. added[r] \in LongAgo
      <4>1. added[r] \in UserData
        BY RequestAssumption DEF Inv, TypeOK, UserData
      <4> QED
        BY <1>4, <4>1, PastIsLongAgo
    <3>5. \E f \in been[w] : f.managed
      BY <3>1 DEF Inv, SeenWas
    <3>6. GoodVerdict(Match(w, w, r))
      BY <2>2, <3>1, <3>2, <3>3, <3>4, <3>5 DEF GoodVerdict
    <3> QED
      BY <2>4, <3>1, <3>6 DEF StaleVerdict
  <2>5. CASE ~(~IsExempt(w) /\ IsManaged(r))
    BY <2>3, <2>5 DEF StaleVerdict, Reasons
  <2> QED
    BY <2>4, <2>5
<1>5. \A v \in verdicts' : GoodVerdict(v)
  BY <1>1, <1>2, <1>3, <1>4
<1> QED
  BY <1>5, DecisionStep DEF DecideStale
----------------------------------------------------------------------------
LEMMA InvStep ==
  ASSUME Inv, [Next]_vars
  PROVE  Inv'
<1>1. CASE UNCHANGED vars
  BY <1>1 DEF vars, facts, house, Inv, TypeOK, SeenWas, InOrder, Was, Fact, MatchWasDue,
              JudgedIsRequested, Matches, IsDue, LongAgo
<1> QED
  BY <1>1, ChangeStep, ReadShelfStep, ReadManagedStep, ReadPageStep, CallFailsStep,
     DecideWatchedStep, DecideStaleStep
  DEF Next

LEMMA InvInit == Init => Inv
<1> SUFFICES ASSUME Init PROVE Inv
  OBVIOUS
<1>1. rule.kind \in {"watched", "stale"} /\ clock \in 0 .. MaxTime
  BY DEF Init
<1>2. Start \in Scan /\ Start.pc \in DOMAIN NextCall[rule.kind] /\ DOMAIN Start.seen = {}
      /\ Start.pc # "done"
  <2>1. Start.pc = FirstCall[rule.kind] /\ Start.seen = [w \in {} |-> None]
    BY DEF Start
  <2>2. FirstCall[rule.kind] \in DOMAIN NextCall[rule.kind]
        /\ DOMAIN NextCall[rule.kind] \subseteq {"films", "shows", "radarr", "sonarr", "requests"}
    BY <1>1, NextCallType
  <2>3. [w \in {} |-> None] \in Listing
    BY ListingType
  <2> QED
    BY <2>1, <2>2, <2>3 DEF Start, Scan
<1>3. user \in [Works -> UserData] /\ added \in [Requests -> {Undated} \cup (0 .. MaxTime)]
  BY <1>1, RequestAssumption DEF Init, UserData
<1>4. \A w \in Works : Fact(w) \in Facts
  BY <1>3 DEF Fact, Facts
<1>5. queue \in Seq(Requests)
  <2>1. Cardinality(Requests) \in Nat
    BY RequestAssumption, FS_CardinalityType
  <2>2. PICK n \in 0 .. Cardinality(Requests) : queue \in [1 .. n -> Requests]
    BY DEF Init, Orders
  <2> QED
    BY <2>1, <2>2, SeqDef
<1>6. changes \in 0 .. MaxChanges[rule.kind]
  BY <1>1, RequestAssumption DEF Init
<1>7. shelf \subseteq Works /\ managed \subseteq Works /\ favourites \subseteq Works
  BY DEF Init, Judged, Works
<1>8. been \in [Works -> SUBSET Facts] /\ \A w \in Works : Fact(w) \in been[w]
  BY <1>4 DEF Init
<1>9. TypeOK
  BY <1>1, <1>2, <1>3, <1>5, <1>6, <1>7, <1>8, RequestAssumption DEF Init, TypeOK
<1> QED
  BY <1>2, <1>8, <1>9 DEF Init, Start, Inv, SeenWas, InOrder, MatchWasDue, JudgedIsRequested, Matches

LEMMA Invariant == Spec => []Inv
BY InvInit, InvStep, PTL DEF Spec
----------------------------------------------------------------------------
\* Every variable keeps its type.
THEOREM TypeCorrect == Spec => []TypeOK
BY Invariant, PTL DEF Inv

\* Whatever is matched has an id and was in Jellyfin, no favourite and played (or
\* not) as it must be, at one moment of the scan, and in Radarr or Sonarr at one.
THEOREM MatchesWereDue == Spec => []MatchWasDue
BY Invariant, PTL DEF Inv

\* The stale-request rule deletes what was requested and what it looked at.
THEOREM JudgedWasRequested == Spec => []JudgedIsRequested
BY Invariant, PTL DEF Inv
----------------------------------------------------------------------------
(* Paging: what list_requests overlooks.                                   *)

\* The requests on the pages that have been read, as the list is now.
Behind == {queue[j] : j \in {k \in DOMAIN queue : k <= scan.skip}}

\* Between two pages what was missed is what slipped behind the boundary, one
\* for each that was removed.
SlippedAtMostRemoved ==
  Paging => /\ lasting \subseteq Entries(queue)
            /\ Cardinality((lasting \ Entries(scan.listed)) \cap Behind) <= removed

\* The film rule comes to the list of requests once.
NotYetPaged == rule.kind = "watched" /\ scan.pc \in {"films", "radarr"} => scan.skip = 0

PagingInv == SlippedAtMostRemoved /\ NotYetPaged /\ MissedAtMostRemoved

\* A set of requests with at most n of another's and one more.
LEMMA AtMost ==
  ASSUME NEW A \in SUBSET Requests, NEW B \in SUBSET Requests, NEW x, NEW n \in Nat,
         A \subseteq B \cup {x}, Cardinality(B) <= n
  PROVE  /\ Cardinality(A) \in Nat /\ Cardinality(A) <= n + 1
         /\ A \subseteq B => Cardinality(A) <= n
<1>1. IsFiniteSet(A) /\ IsFiniteSet(B)
  BY FS_Subset, RequestAssumption
<1>2. /\ IsFiniteSet(B \cup {x})
      /\ Cardinality(B \cup {x}) = IF x \in B THEN Cardinality(B) ELSE Cardinality(B) + 1
  BY <1>1, FS_AddElement
<1>3. Cardinality(B) \in Nat /\ Cardinality(A) \in Nat
  BY <1>1, FS_CardinalityType
<1>4. Cardinality(A) <= Cardinality(B \cup {x})
  BY <1>2, FS_Subset
<1>5. A \subseteq B => Cardinality(A) <= Cardinality(B)
  BY <1>1, FS_Subset
<1> QED
  BY <1>2, <1>3, <1>4, <1>5

\* The elements of a part of a list, and of two lists in a row.
LEMMA PartElements ==
  ASSUME NEW S, NEW q \in Seq(S), NEW m \in Nat \ {0}, NEW n \in Nat, n <= Len(q), m <= n + 1
  PROVE  /\ SubSeq(q, m, n) \in Seq(S) /\ Len(SubSeq(q, m, n)) = n - m + 1
         /\ \A j \in Nat : 1 <= j /\ j <= n - m + 1 => SubSeq(q, m, n)[j] = q[m + j - 1]
<1>1. Len(q) \in Nat /\ \A j \in 1 .. Len(q) : q[j] \in S
  BY LenProperties, ElementOfSeq
<1>2. \A j \in m .. n : q[j] \in S
  BY <1>1
<1>3. /\ SubSeq(q, m, n) \in Seq(S)
      /\ Len(SubSeq(q, m, n)) = IF m <= n THEN n - m + 1 ELSE 0
      /\ \A j \in 1 .. n - m + 1 : SubSeq(q, m, n)[j] = q[m + j - 1]
  BY <1>2, SubSeqProperties
<1>4. (IF m <= n THEN n - m + 1 ELSE 0) = n - m + 1
  OBVIOUS
<1>5. \A j \in Nat : 1 <= j /\ j <= n - m + 1 => j \in 1 .. n - m + 1
  OBVIOUS
<1> QED
  BY <1>3, <1>4, <1>5

\* The place a position has among those after another one.
LEMMA Offset ==
  ASSUME NEW a \in Nat, NEW l \in Nat, NEW k \in Nat, a < k, k <= l
  PROVE  /\ k - a \in Nat /\ 1 <= k - a /\ k - a <= l - (a + 1) + 1
         /\ (a + 1) + (k - a) - 1 = k
OBVIOUS

\* The place a position of the second row has in both together.
LEMMA Shift ==
  ASSUME NEW a \in Nat, NEW b \in Nat, NEW i \in Nat, 1 <= i, i <= b
  PROVE  /\ a + i \in Nat /\ a < a + i /\ a + i <= a + b
         /\ 1 <= a + i /\ (a + i) - a = i
OBVIOUS

LEMMA RowElements ==
  ASSUME NEW S, NEW u \in Seq(S), NEW v \in Seq(S)
  PROVE  /\ u \o v \in Seq(S) /\ Len(u \o v) = Len(u) + Len(v)
         /\ \A j \in Nat : 1 <= j /\ j <= Len(u) => (u \o v)[j] = u[j]
         /\ \A j \in Nat : Len(u) < j /\ j <= Len(u) + Len(v) => (u \o v)[j] = v[j - Len(u)]
<1>1. Len(u) \in Nat /\ Len(v) \in Nat
  BY LenProperties
<1>2. /\ u \o v \in Seq(S) /\ Len(u \o v) = Len(u) + Len(v)
      /\ \A j \in 1 .. Len(u) + Len(v) : (u \o v)[j] = IF j <= Len(u) THEN u[j] ELSE v[j - Len(u)]
  BY ConcatProperties
<1>3. ASSUME NEW j \in Nat, 1 <= j, j <= Len(u) + Len(v)
      PROVE  (u \o v)[j] = IF j <= Len(u) THEN u[j] ELSE v[j - Len(u)]
  <2>1. j \in 1 .. Len(u) + Len(v)
    BY <1>1, <1>3
  <2> QED
    BY <1>2, <2>1
<1> QED
  BY <1>1, <1>2, <1>3

\* A list with r after its i-th element.
With(q, i, r) == SubSeq(q, 1, i) \o <<r>> \o SubSeq(q, i + 1, Len(q))

\* A list without its i-th element, and a list with r after its i-th.
LEMMA RemovedElements ==
  ASSUME NEW S, NEW q \in Seq(S), NEW i \in DOMAIN q
  PROVE  LET t == SubSeq(q, 1, i - 1) \o SubSeq(q, i + 1, Len(q)) IN
         /\ t \in Seq(S) /\ Len(t) = Len(q) - 1
         /\ \A j \in Nat : 1 <= j /\ j < i => t[j] = q[j]
         /\ \A j \in Nat : i < j /\ j <= Len(q) => t[j - 1] = q[j]
<1> DEFINE u == SubSeq(q, 1, i - 1)
           v == SubSeq(q, i + 1, Len(q))
           t == u \o v
<1>1. i \in Nat /\ 1 <= i /\ i <= Len(q) /\ Len(q) \in Nat
  BY LenProperties
<1>2. u \in Seq(S) /\ Len(u) = i - 1 /\ \A j \in Nat : 1 <= j /\ j <= i - 1 => u[j] = q[j]
  <2>1. /\ u \in Seq(S) /\ Len(u) = (i - 1) - 1 + 1
        /\ \A j \in Nat : 1 <= j /\ j <= (i - 1) - 1 + 1 => u[j] = q[1 + j - 1]
    <3>1. i - 1 \in Nat /\ 1 \in Nat \ {0} /\ i - 1 <= Len(q) /\ 1 <= (i - 1) + 1
      BY <1>1
    <3> QED
      BY <3>1, PartElements
  <2>2. (i - 1) - 1 + 1 = i - 1 /\ \A j \in Nat : 1 + j - 1 = j
    BY <1>1
  <2> HIDE DEF u
  <2> QED
    BY <2>1, <2>2
<1>3. v \in Seq(S) /\ Len(v) = Len(q) - i
      /\ \A j \in Nat : 1 <= j /\ j <= Len(q) - i => v[j] = q[i + j]
  <2>1. /\ v \in Seq(S) /\ Len(v) = Len(q) - (i + 1) + 1
        /\ \A j \in Nat : 1 <= j /\ j <= Len(q) - (i + 1) + 1 => v[j] = q[(i + 1) + j - 1]
    <3>1. i + 1 \in Nat \ {0} /\ Len(q) \in Nat /\ i + 1 <= Len(q) + 1
      BY <1>1
    <3> QED
      BY <1>1, <3>1, PartElements
  <2>2. Len(q) - (i + 1) + 1 = Len(q) - i /\ \A j \in Nat : (i + 1) + j - 1 = i + j
    BY <1>1
  <2> HIDE DEF v
  <2> QED
    BY <2>1, <2>2
<1> HIDE DEF u, v
<1>4. /\ t \in Seq(S) /\ Len(t) = (i - 1) + (Len(q) - i)
      /\ \A j \in Nat : 1 <= j /\ j <= i - 1 => t[j] = u[j]
      /\ \A j \in Nat : i - 1 < j /\ j <= (i - 1) + (Len(q) - i) => t[j] = v[j - (i - 1)]
  <2>1. /\ t \in Seq(S) /\ Len(t) = Len(u) + Len(v)
        /\ \A j \in Nat : 1 <= j /\ j <= Len(u) => t[j] = u[j]
        /\ \A j \in Nat : Len(u) < j /\ j <= Len(u) + Len(v) => t[j] = v[j - Len(u)]
    <3>1. u \in Seq(S) /\ v \in Seq(S)
      BY <1>2, <1>3
    <3> QED
      BY <3>1, RowElements
  <2> HIDE DEF t
  <2> QED
    BY <1>2, <1>3, <2>1
<1> HIDE DEF t
<1>5. ASSUME NEW j \in Nat, 1 <= j, j < i
      PROVE  t[j] = q[j]
  <2>1. j <= i - 1
    BY <1>1, <1>5
  <2> QED
    BY <1>2, <1>4, <1>5, <2>1
<1>6. ASSUME NEW j \in Nat, i < j, j <= Len(q)
      PROVE  t[j - 1] = q[j]
  <2>1. /\ j - 1 \in Nat /\ i - 1 < j - 1 /\ j - 1 <= (i - 1) + (Len(q) - i)
        /\ (j - 1) - (i - 1) = j - i /\ j - i \in Nat /\ 1 <= j - i /\ j - i <= Len(q) - i
        /\ i + (j - i) = j
    BY <1>1, <1>6
  <2>2. t[j - 1] = v[(j - 1) - (i - 1)]
    BY <1>4, <2>1
  <2>3. v[j - i] = q[i + (j - i)]
    BY <1>3, <2>1
  <2> QED
    BY <2>1, <2>2, <2>3
<1>7. Len(t) = Len(q) - 1
  BY <1>1, <1>4
<1> QED
  BY <1>4, <1>5, <1>6, <1>7 DEF t, u, v

LEMMA InsertedElements ==
  ASSUME NEW S, NEW q \in Seq(S), NEW i \in 0 .. Len(q), NEW r \in S,
         NEW t, t = With(q, i, r)
  PROVE  /\ t \in Seq(S) /\ Len(t) = Len(q) + 1 /\ t[i + 1] = r
         /\ \A j \in Nat : 1 <= j /\ j <= i => t[j] = q[j]
         /\ \A j \in Nat : i + 1 < j /\ j <= Len(q) + 1 => t[j] = q[j - 1]
<1> DEFINE u == SubSeq(q, 1, i)
           v == SubSeq(q, i + 1, Len(q))
           w == u \o <<r>>
           z == w \o v
<1>1. i \in Nat /\ i <= Len(q) /\ Len(q) \in Nat
  BY LenProperties
<1>2. u \in Seq(S) /\ Len(u) = i /\ \A j \in Nat : 1 <= j /\ j <= i => u[j] = q[j]
  <2>1. /\ u \in Seq(S) /\ Len(u) = i - 1 + 1
        /\ \A j \in Nat : 1 <= j /\ j <= i - 1 + 1 => u[j] = q[1 + j - 1]
    <3>1. i \in Nat /\ 1 \in Nat \ {0} /\ i <= Len(q) /\ 1 <= i + 1
      BY <1>1
    <3> QED
      BY <3>1, PartElements
  <2>2. i - 1 + 1 = i /\ \A j \in Nat : 1 + j - 1 = j
    BY <1>1
  <2> HIDE DEF u
  <2> QED
    BY <2>1, <2>2
<1>3. v \in Seq(S) /\ Len(v) = Len(q) - i
      /\ \A j \in Nat : 1 <= j /\ j <= Len(q) - i => v[j] = q[i + j]
  <2>1. /\ v \in Seq(S) /\ Len(v) = Len(q) - (i + 1) + 1
        /\ \A j \in Nat : 1 <= j /\ j <= Len(q) - (i + 1) + 1 => v[j] = q[(i + 1) + j - 1]
    <3>1. i + 1 \in Nat \ {0} /\ Len(q) \in Nat /\ i + 1 <= Len(q) + 1
      BY <1>1
    <3> QED
      BY <1>1, <3>1, PartElements
  <2>2. Len(q) - (i + 1) + 1 = Len(q) - i /\ \A j \in Nat : (i + 1) + j - 1 = i + j
    BY <1>1
  <2> HIDE DEF v
  <2> QED
    BY <2>1, <2>2
<1>4. <<r>> \in Seq(S) /\ Len(<<r>>) = 1 /\ <<r>>[1] = r
  OBVIOUS
<1> HIDE DEF u, v
<1>5. /\ w \in Seq(S) /\ Len(w) = i + 1
      /\ \A j \in Nat : 1 <= j /\ j <= i => w[j] = u[j]
      /\ \A j \in Nat : i < j /\ j <= i + 1 => w[j] = <<r>>[j - i]
  BY <1>2, <1>4, RowElements
<1>6. w[i + 1] = r
  <2>1. i + 1 \in Nat /\ i < i + 1 /\ (i + 1) - i = 1
    BY <1>1
  <2> QED
    BY <1>4, <1>5, <2>1
<1> HIDE DEF w
<1>7. /\ z \in Seq(S) /\ Len(z) = (i + 1) + (Len(q) - i)
      /\ \A j \in Nat : 1 <= j /\ j <= i + 1 => z[j] = w[j]
      /\ \A j \in Nat : i + 1 < j /\ j <= (i + 1) + (Len(q) - i) => z[j] = v[j - (i + 1)]
  <2>1. /\ z \in Seq(S) /\ Len(z) = Len(w) + Len(v)
        /\ \A j \in Nat : 1 <= j /\ j <= Len(w) => z[j] = w[j]
        /\ \A j \in Nat : Len(w) < j /\ j <= Len(w) + Len(v) => z[j] = v[j - Len(w)]
    <3>1. w \in Seq(S) /\ v \in Seq(S)
      BY <1>3, <1>5
    <3> QED
      BY <3>1, RowElements
  <2> HIDE DEF z
  <2> QED
    BY <1>3, <1>5, <2>1
<1> HIDE DEF z
<1>8. z[i + 1] = r
  <2>1. i + 1 \in Nat /\ 1 <= i + 1
    BY <1>1
  <2> QED
    BY <1>6, <1>7, <2>1
<1>9. ASSUME NEW j \in Nat, 1 <= j, j <= i
      PROVE  z[j] = q[j]
  <2>1. j <= i + 1
    BY <1>1, <1>9
  <2> QED
    BY <1>2, <1>5, <1>7, <1>9, <2>1
<1>10. ASSUME NEW j \in Nat, i + 1 < j, j <= Len(q) + 1
       PROVE  z[j] = q[j - 1]
  <2>1. /\ j <= (i + 1) + (Len(q) - i) /\ j - (i + 1) \in Nat /\ 1 <= j - (i + 1)
        /\ j - (i + 1) <= Len(q) - i /\ i + (j - (i + 1)) = j - 1
    BY <1>1, <1>10
  <2>2. z[j] = v[j - (i + 1)]
    BY <1>7, <1>10, <2>1
  <2>3. v[j - (i + 1)] = q[i + (j - (i + 1))]
    BY <1>3, <2>1
  <2> QED
    BY <2>1, <2>2, <2>3
<1>11. Len(z) = Len(q) + 1
  BY <1>1, <1>7
<1>12. t = z
  BY DEF z, u, v, w, With
<1> QED
  BY <1>7, <1>8, <1>9, <1>10, <1>11, <1>12

\* One request is deleted: one more may slip behind the boundary.
LEMMA WithdrawPaging ==
  ASSUME TypeOK, PagingInv, UNCHANGED <<rule, scan>>, NEW i \in DOMAIN queue, Withdraw(i)
  PROVE  PagingInv'
<1>1. /\ queue \in Seq(Requests) /\ Len(queue) \in Nat /\ scan.skip \in Nat
      /\ removed \in Nat /\ lasting \in SUBSET Requests
      /\ \A k \in Nat : 1 <= k /\ k <= Len(queue) <=> k \in DOMAIN queue
  BY LenProperties DEF TypeOK, Scan
<1>2. i \in Nat /\ 1 <= i /\ i <= Len(queue)
  BY <1>1, LenProperties
<1>3. /\ queue' \in Seq(Requests) /\ Len(queue') = Len(queue) - 1
      /\ \A j \in Nat : 1 <= j /\ j < i => queue'[j] = queue[j]
      /\ \A j \in Nat : i < j /\ j <= Len(queue) => queue'[j - 1] = queue[j]
  BY <1>1, RemovedElements DEF Withdraw
<1>4. \A j \in DOMAIN queue' : j \in Nat /\ 1 <= j /\ j <= Len(queue) - 1
  BY <1>1, <1>3, LenProperties
<1>5. \A j \in Nat : 1 <= j /\ j <= Len(queue) - 1 => j \in DOMAIN queue'
  BY <1>1, <1>3, LenProperties
<1>6. CASE Paging
  <2>1. lasting' = lasting \ {queue[i]} /\ removed' = removed + 1
    BY <1>6 DEF Withdraw
  <2>2. lasting' \subseteq Entries(queue')
    <3> SUFFICES ASSUME NEW r \in lasting, r # queue[i]
                 PROVE  \E j \in DOMAIN queue' : queue'[j] = r
      BY <2>1 DEF Entries
    <3>1. PICK k \in DOMAIN queue : queue[k] = r
      BY <1>6 DEF PagingInv, SlippedAtMostRemoved, Entries
    <3>2. k \in Nat /\ 1 <= k /\ k <= Len(queue) /\ k # i
      BY <1>1, <3>1, LenProperties
    <3>3. CASE k < i
      <4>1. k \in DOMAIN queue' /\ queue'[k] = queue[k]
        BY <1>1, <1>2, <1>3, <1>5, <3>2, <3>3
      <4> QED
        BY <3>1, <4>1
    <3>4. CASE i < k
      <4>1. k - 1 \in Nat /\ 1 <= k - 1 /\ k - 1 <= Len(queue) - 1
        BY <1>1, <1>2, <3>2, <3>4
      <4>2. k - 1 \in DOMAIN queue' /\ queue'[k - 1] = queue[k]
        BY <1>3, <1>5, <3>2, <3>4, <4>1
      <4> QED
        BY <3>1, <4>2
    <3> QED
      BY <1>2, <3>2, <3>3, <3>4
  <2>3. Behind' \subseteq Behind \cup {queue[scan.skip + 1]}
    <3> SUFFICES ASSUME NEW j \in DOMAIN queue', j <= scan.skip
                 PROVE  queue'[j] \in Behind \cup {queue[scan.skip + 1]}
      BY DEF Behind
    <3>1. j \in Nat /\ 1 <= j /\ j <= Len(queue) - 1
      BY <1>4
    <3>2. CASE j < i
      <4>1. j \in DOMAIN queue /\ queue'[j] = queue[j]
        BY <1>1, <1>3, <3>1, <3>2
      <4> QED
        BY <4>1 DEF Behind
    <3>3. CASE i <= j
      <4>1. /\ j + 1 \in Nat /\ i < j + 1 /\ j + 1 <= Len(queue) /\ 1 <= j + 1
            /\ (j + 1) - 1 = j /\ (j + 1 <= scan.skip \/ j = scan.skip)
        BY <1>1, <1>2, <3>1, <3>3
      <4>2. queue'[(j + 1) - 1] = queue[j + 1]
        BY <1>3, <4>1
      <4>3. queue'[j] = queue[j + 1] /\ j + 1 \in DOMAIN queue
        BY <1>1, <4>1, <4>2
      <4> QED
        BY <4>1, <4>3 DEF Behind
    <3> QED
      BY <1>2, <3>1, <3>2, <3>3
  <2>4. Cardinality(((lasting \ Entries(scan.listed)) \cap Behind)') <= removed + 1
    <3>1. /\ (lasting \ Entries(scan.listed)) \cap Behind \in SUBSET Requests
          /\ ((lasting \ Entries(scan.listed)) \cap Behind)' \in SUBSET Requests
      BY <1>1, <2>1
    <3>2. ((lasting \ Entries(scan.listed)) \cap Behind)'
            \subseteq ((lasting \ Entries(scan.listed)) \cap Behind) \cup {queue[scan.skip + 1]}
      BY <2>1, <2>3 DEF Entries
    <3>3. Cardinality((lasting \ Entries(scan.listed)) \cap Behind) <= removed
      BY <1>6 DEF PagingInv, SlippedAtMostRemoved
    <3> DEFINE A == ((lasting \ Entries(scan.listed)) \cap Behind)'
               B == (lasting \ Entries(scan.listed)) \cap Behind
               x == queue[scan.skip + 1]
    <3>4. /\ A \in SUBSET Requests /\ B \in SUBSET Requests
          /\ A \subseteq B \cup {x} /\ Cardinality(B) <= removed /\ removed \in Nat
      BY <1>1, <3>1, <3>2, <3>3
    <3> HIDE DEF A, B, x
    <3>5. Cardinality(A) <= removed + 1
      BY <3>4, AtMost
    <3> QED
      BY <3>5 DEF A
  <2>5. SlippedAtMostRemoved'
    BY <2>1, <2>2, <2>4 DEF SlippedAtMostRemoved
  <2> QED
    BY <1>6, <2>5 DEF PagingInv, NotYetPaged, MissedAtMostRemoved, Paging
<1>7. CASE ~Paging
  BY <1>7 DEF Withdraw, PagingInv, SlippedAtMostRemoved, NotYetPaged, MissedAtMostRemoved,
              Paging, Entries
<1> QED
  BY <1>6, <1>7

\* A request becomes available: it pushes others ahead, behind comes only itself.
LEMMA ArrivePaging ==
  ASSUME TypeOK, PagingInv, UNCHANGED <<rule, scan>>,
         NEW r \in Requests, NEW i \in 0 .. Len(queue), Arrive(r, i)
  PROVE  PagingInv'
<1>1. /\ queue \in Seq(Requests) /\ Len(queue) \in Nat /\ scan.skip \in Nat
      /\ removed \in Nat /\ lasting \in SUBSET Requests
      /\ \A k \in Nat : 1 <= k /\ k <= Len(queue) <=> k \in DOMAIN queue
  BY LenProperties DEF TypeOK, Scan
<1>2. i \in Nat /\ i <= Len(queue)
  BY <1>1
<1>3. /\ queue' \in Seq(Requests) /\ Len(queue') = Len(queue) + 1 /\ queue'[i + 1] = r
      /\ \A j \in Nat : 1 <= j /\ j <= i => queue'[j] = queue[j]
      /\ \A j \in Nat : i + 1 < j /\ j <= Len(queue) + 1 => queue'[j] = queue[j - 1]
  <2>1. queue' = With(queue, i, r)
    BY DEF Arrive, With
  <2> DEFINE t == queue'
  <2>2. t = With(queue, i, r)
    BY <2>1
  <2> HIDE DEF t
  <2>3. queue \in Seq(Requests)
    BY <1>1
  <2>4. t \in Seq(Requests) /\ Len(t) = Len(queue) + 1
    BY <2>2, <2>3, InsertedElements
  <2>5. t[i + 1] = r
    BY <2>2, <2>3, InsertedElements
  <2>6. \A j \in Nat : 1 <= j /\ j <= i => t[j] = queue[j]
    BY <2>2, <2>3, InsertedElements
  <2>7. \A j \in Nat : i + 1 < j /\ j <= Len(queue) + 1 => t[j] = queue[j - 1]
    BY <2>2, <2>3, InsertedElements
  <2> QED
    BY <2>4, <2>5, <2>6, <2>7 DEF t
<1>4. \A j \in DOMAIN queue' : j \in Nat /\ 1 <= j /\ j <= Len(queue) + 1
  BY <1>1, <1>3, LenProperties
<1>5. \A j \in Nat : 1 <= j /\ j <= Len(queue) + 1 => j \in DOMAIN queue'
  BY <1>1, <1>3, LenProperties
<1>6. CASE Paging
  <2>1. lasting' = lasting /\ removed' = removed /\ r \notin Entries(queue)
    BY DEF Arrive
  <2>2. Entries(queue) \subseteq Entries(queue')
    <3> SUFFICES ASSUME NEW k \in DOMAIN queue
                 PROVE  \E j \in DOMAIN queue' : queue'[j] = queue[k]
      BY DEF Entries
    <3>1. k \in Nat /\ 1 <= k /\ k <= Len(queue)
      BY <1>1, LenProperties
    <3>2. CASE k <= i
      BY <1>1, <1>3, <1>5, <3>1, <3>2
    <3>3. CASE i < k
      <4>1. /\ k + 1 \in Nat /\ 1 <= k + 1 /\ k + 1 <= Len(queue) + 1
            /\ i + 1 < k + 1 /\ (k + 1) - 1 = k
        BY <1>1, <1>2, <3>1, <3>3
      <4>2. queue'[k + 1] = queue[(k + 1) - 1] /\ k + 1 \in DOMAIN queue'
        BY <1>3, <1>5, <4>1
      <4> QED
        BY <4>1, <4>2
    <3> QED
      BY <1>2, <3>1, <3>2, <3>3
  <2>3. Behind' \subseteq Behind \cup {r}
    <3> SUFFICES ASSUME NEW j \in DOMAIN queue', j <= scan.skip
                 PROVE  queue'[j] \in Behind \cup {r}
      BY DEF Behind
    <3>1. j \in Nat /\ 1 <= j /\ j <= Len(queue) + 1
      BY <1>4
    <3>2. CASE j <= i
      <4>1. j \in DOMAIN queue /\ queue'[j] = queue[j]
        BY <1>1, <1>2, <1>3, <3>1, <3>2
      <4> QED
        BY <4>1 DEF Behind
    <3>3. CASE j = i + 1
      BY <1>3, <3>3
    <3>4. CASE i + 1 < j
      <4>1. /\ j - 1 \in Nat /\ j - 1 <= Len(queue) /\ 1 <= j - 1
            /\ j - 1 <= scan.skip
        BY <1>1, <1>2, <3>1, <3>4
      <4>2. queue'[j] = queue[j - 1]
        BY <1>3, <3>1, <3>4
      <4>3. j - 1 \in DOMAIN queue
        BY <1>1, <4>1
      <4> QED
        BY <4>1, <4>2, <4>3 DEF Behind
    <3> QED
      BY <1>2, <3>1, <3>2, <3>3, <3>4
  <2>4. lasting \subseteq Entries(queue)
        /\ Cardinality((lasting \ Entries(scan.listed)) \cap Behind) <= removed
    BY <1>6 DEF PagingInv, SlippedAtMostRemoved
  <2>5. Cardinality(((lasting \ Entries(scan.listed)) \cap Behind)') <= removed
    <3>1. /\ (lasting \ Entries(scan.listed)) \cap Behind \in SUBSET Requests
          /\ ((lasting \ Entries(scan.listed)) \cap Behind)' \in SUBSET Requests
      BY <1>1, <2>1
    <3>2. ((lasting \ Entries(scan.listed)) \cap Behind)'
            \subseteq (lasting \ Entries(scan.listed)) \cap Behind
      BY <2>1, <2>3, <2>4 DEF Entries
    <3> QED
      BY <1>1, <2>4, <3>1, <3>2, AtMost
  <2>6. SlippedAtMostRemoved'
    BY <2>1, <2>2, <2>4, <2>5 DEF SlippedAtMostRemoved
  <2> QED
    BY <1>6, <2>6 DEF PagingInv, NotYetPaged, MissedAtMostRemoved, Paging
<1>7. CASE ~Paging
  BY <1>7 DEF Arrive, PagingInv, SlippedAtMostRemoved, NotYetPaged, MissedAtMostRemoved,
              Paging, Entries
<1> QED
  BY <1>6, <1>7

\* A page is read: what it holds is listed, so that nothing new is missed.
LEMMA ReadPagePaging ==
  ASSUME TypeOK, PagingInv, ReadPage
  PROVE  PagingInv'
<1> DEFINE next == scan.skip + PageSize
           last == IF next <= Len(queue) THEN next ELSE Len(queue)
           page == SubSeq(queue, scan.skip + 1, last)
           missed == (lasting' \ Entries(scan.listed')) \cap Behind'
<1>1. /\ queue \in Seq(Requests) /\ Len(queue) \in Nat /\ scan.skip \in Nat
      /\ scan.listed \in Seq(Requests) /\ Len(scan.listed) \in Nat
      /\ removed \in Nat /\ lasting \in SUBSET Requests /\ PageSize \in Nat \ {0}
      /\ \A k \in DOMAIN queue : k \in Nat /\ 1 <= k /\ k <= Len(queue)
  BY LenProperties, RequestAssumption DEF TypeOK, Scan
<1>2. /\ scan.pc = "requests" /\ scan'.skip = next /\ scan'.listed = scan.listed \o page
      /\ scan'.pc = (IF LastPage(next) THEN Answer ELSE "requests")
      /\ lasting' = (IF scan.skip = 0 THEN Entries(queue) ELSE lasting)
      /\ queue' = queue /\ removed' = removed /\ rule' = rule
  BY DEF ReadPage, rest, house, facts, TypeOK, Scan
<1>3. /\ \A j \in DOMAIN scan.listed : scan.listed[j] \in Entries(scan'.listed)
      /\ \A k \in DOMAIN queue : scan.skip < k /\ k <= next => queue[k] \in Entries(scan'.listed)
  <2>1. CASE scan.skip < Len(queue)
    <3>1. /\ scan.skip + 1 \in Nat \ {0} /\ last \in Nat /\ last <= Len(queue)
          /\ scan.skip + 1 <= last + 1
      BY <1>1, <2>1
    <3>2. /\ page \in Seq(Requests) /\ Len(page) = last - (scan.skip + 1) + 1
          /\ \A j \in Nat : 1 <= j /\ j <= last - (scan.skip + 1) + 1
                              => page[j] = queue[(scan.skip + 1) + j - 1]
      <4> HIDE DEF last
      <4> QED
        BY <1>1, <3>1, PartElements
    <3>3. /\ scan'.listed \in Seq(Requests) /\ Len(scan'.listed) = Len(scan.listed) + Len(page)
          /\ \A j \in Nat : 1 <= j /\ j <= Len(scan.listed) => scan'.listed[j] = scan.listed[j]
          /\ \A j \in Nat : Len(scan.listed) < j /\ j <= Len(scan.listed) + Len(page)
                              => scan'.listed[j] = page[j - Len(scan.listed)]
      <4> DEFINE t == scan.listed \o page
      <4>1. scan.listed \in Seq(Requests) /\ page \in Seq(Requests)
        BY <1>1, <3>2
      <4> HIDE DEF page
      <4>2. /\ t \in Seq(Requests) /\ Len(t) = Len(scan.listed) + Len(page)
            /\ \A j \in Nat : 1 <= j /\ j <= Len(scan.listed) => t[j] = scan.listed[j]
            /\ \A j \in Nat : Len(scan.listed) < j /\ j <= Len(scan.listed) + Len(page)
                                => t[j] = page[j - Len(scan.listed)]
        BY <4>1, RowElements, Zenon
      <4>3. scan'.listed = t
        BY <1>2
      <4> HIDE DEF t
      <4> QED
        BY <4>2, <4>3
    <3>4. \A j \in Nat : 1 <= j /\ j <= Len(scan.listed) + Len(page)
                           => scan'.listed[j] \in Entries(scan'.listed)
      <4> HIDE DEF page
      <4>1. DOMAIN scan'.listed = 1 .. Len(scan.listed) + Len(page)
        BY <3>3, LenProperties
      <4>2. \A j \in Nat : 1 <= j /\ j <= Len(scan.listed) + Len(page)
                              => j \in DOMAIN scan'.listed
        BY <1>1, <3>2, <4>1
      <4> QED
        BY <4>2 DEF Entries
    <3>5. Len(page) \in Nat
      BY <3>2, LenProperties
    <3>6. ASSUME NEW j \in DOMAIN scan.listed
          PROVE  scan.listed[j] \in Entries(scan'.listed)
      <4>1. j \in Nat /\ 1 <= j /\ j <= Len(scan.listed)
        BY <1>1, LenProperties
      <4> HIDE DEF page
      <4>2. j <= Len(scan.listed) + Len(page)
        BY <1>1, <3>5, <4>1
      <4> QED
        BY <3>3, <3>4, <4>1, <4>2
    <3>7. ASSUME NEW k \in DOMAIN queue, scan.skip < k, k <= next
          PROVE  queue[k] \in Entries(scan'.listed)
      <4>1. k \in Nat /\ k <= last
        BY <1>1, <3>7
      <4> DEFINE j == k - scan.skip
                 g == Len(scan.listed) + j
      <4>2. j \in Nat /\ 1 <= j /\ j <= last - (scan.skip + 1) + 1 /\ (scan.skip + 1) + j - 1 = k
        <5>1. scan.skip \in Nat /\ last \in Nat /\ scan.skip < k
          BY <1>1, <3>1, <3>7
        <5> HIDE DEF last
        <5> QED
          BY <5>1, <4>1, Offset
      <4>3. page[j] = queue[(scan.skip + 1) + j - 1] /\ j <= Len(page)
        <5> HIDE DEF page, last, j
        <5> QED
          BY <3>2, <4>2
      <4>4. /\ g \in Nat /\ Len(scan.listed) < g /\ g <= Len(scan.listed) + Len(page)
            /\ 1 <= g /\ g - Len(scan.listed) = j
        <5>1. Len(scan.listed) \in Nat /\ j \in Nat /\ 1 <= j /\ j <= Len(page)
          BY <1>1, <4>2, <4>3
        <5> HIDE DEF page, last, j
        <5> QED
          BY <3>5, <5>1, Shift
      <4>5. scan'.listed[g] = page[g - Len(scan.listed)] /\ scan'.listed[g] \in Entries(scan'.listed)
        <5> HIDE DEF page, g
        <5> QED
          BY <3>3, <3>4, <4>4
      <4>6. scan'.listed[g] = queue[k]
        <5> HIDE DEF page, j, g
        <5> QED
          BY <4>2, <4>3, <4>4, <4>5
      <4> QED
        BY <4>5, <4>6
    <3> QED
      BY <3>6, <3>7
  <2>2. CASE ~(scan.skip < Len(queue))
    <3>1. \A k \in DOMAIN queue : ~(scan.skip < k)
      BY <1>1, <2>2
    <3>2. page = << >>
      BY <1>1, <2>2
    <3>3. scan'.listed = scan.listed
      BY <1>1, <1>2, <3>2, ConcatEmptySeq
    <3> QED
      BY <3>1, <3>3 DEF Entries
  <2> QED
    BY <2>1, <2>2
<1>4. lasting' \subseteq Entries(queue) \/ scan.skip > 0
  BY <1>1, <1>2
<1>5. scan.skip > 0 => /\ lasting \subseteq Entries(queue)
                       /\ Cardinality((lasting \ Entries(scan.listed)) \cap Behind) <= removed
  BY <1>2 DEF PagingInv, SlippedAtMostRemoved, Paging
<1>6. lasting' \in SUBSET Requests
  BY <1>1, <1>2, EntriesType
<1>7. missed \subseteq IF scan.skip = 0 THEN {} ELSE (lasting \ Entries(scan.listed)) \cap Behind
  <2> SUFFICES ASSUME NEW r \in missed
               PROVE  scan.skip # 0 /\ r \in (lasting \ Entries(scan.listed)) \cap Behind
    OBVIOUS
  <2>1. PICK k \in DOMAIN queue : k <= next /\ queue[k] = r
    BY <1>2 DEF Behind
  <2>2. r \notin Entries(scan'.listed)
    OBVIOUS
  <2>3. ~(scan.skip < k)
    BY <1>3, <2>1, <2>2
  <2>4. k <= scan.skip /\ scan.skip # 0
    BY <1>1, <2>3
  <2>5. r \in lasting /\ r \in Behind
    BY <1>2, <2>1, <2>4 DEF Behind
  <2>6. r \notin Entries(scan.listed)
    BY <1>3, <2>2 DEF Entries
  <2> QED
    BY <2>4, <2>5, <2>6
<1>8. Cardinality(missed) <= removed
  <2>1. CASE scan.skip = 0
    <3>1. missed = {}
      BY <1>7, <2>1
    <3> HIDE DEF missed
    <3> QED
      BY <1>1, <3>1, FS_EmptySet
  <2>2. CASE scan.skip # 0
    <3> DEFINE B == (lasting \ Entries(scan.listed)) \cap Behind
    <3>1. /\ missed \in SUBSET Requests /\ B \in SUBSET Requests /\ missed \subseteq B
          /\ Cardinality(B) <= removed /\ removed \in Nat
      BY <1>1, <1>5, <1>6, <1>7, <2>2
    <3>2. missed \subseteq B \cup {None}
      BY <3>1
    <3> HIDE DEF missed, B
    <3> QED
      BY <3>1, <3>2, AtMost
  <2> QED
    BY <2>1, <2>2
<1>9. lasting' \subseteq Entries(queue)
  BY <1>1, <1>2, <1>5
<1>10. CASE LastPage(next)
  <2>1. Behind' = Entries(queue)
    BY <1>1, <1>2, <1>10 DEF Behind, LastPage, Entries
  <2>2. missed = lasting' \ Entries(scan.listed')
    BY <1>9, <2>1
  <2>3. scan'.pc = Answer /\ Answer \in {"films", "decide"}
    <3>1. rule.kind \in {"watched", "stale"}
      BY DEF TypeOK
    <3>2. Answer \in {"films", "decide"} /\ (rule.kind = "watched" => Answer = "decide")
      BY <1>2, <3>1 DEF Answer, NextCall
    <3> QED
      BY <1>2, <1>10, <3>2
  <2>4. rule.kind = "watched" => Answer = "decide"
    BY <1>2 DEF Answer, NextCall
  <2>5. MissedAtMostRemoved'
    BY <1>2, <1>8, <2>2 DEF MissedAtMostRemoved
  <2> QED
    BY <1>2, <2>3, <2>4, <2>5 DEF PagingInv, SlippedAtMostRemoved, NotYetPaged, Paging
<1>11. CASE ~LastPage(next)
  <2>1. scan'.pc = "requests"
    BY <1>2, <1>11
  <2>2. SlippedAtMostRemoved'
    BY <1>2, <1>8, <1>9 DEF SlippedAtMostRemoved, Entries
  <2> QED
    BY <2>1, <2>2 DEF PagingInv, NotYetPaged, MissedAtMostRemoved
<1> QED
  BY <1>10, <1>11

\* The other changes of the house leave the list of requests alone.
LEMMA ChangePaging ==
  ASSUME TypeOK, PagingInv, Change
  PROVE  PagingInv'
<1>1. UNCHANGED <<rule, scan>>
  BY DEF Change, facts
<1>2. ASSUME NEW w \in Judged, Watch(w) \/ ToggleFavourite(w) \/ Shelve(w)
      PROVE  PagingInv'
  BY <1>1, <1>2 DEF Watch, ToggleFavourite, Shelve, PagingInv, SlippedAtMostRemoved, NotYetPaged,
                    MissedAtMostRemoved, Paging, Entries, Behind
<1>3. ASSUME NEW i \in DOMAIN queue, Withdraw(i)
      PROVE  PagingInv'
  BY <1>1, <1>3, WithdrawPaging
<1>4. ASSUME NEW r \in Requests, NEW i \in 0 .. Len(queue), Arrive(r, i)
      PROVE  PagingInv'
  BY <1>1, <1>4, ArrivePaging
<1>5. CASE Tick
  BY <1>1, <1>5 DEF Tick, PagingInv, SlippedAtMostRemoved, NotYetPaged,
                    MissedAtMostRemoved, Paging, Entries, Behind
<1> QED
  BY <1>2, <1>3, <1>4, <1>5 DEF Change

\* A call that reads no page: the film rule has read none before it, the
\* stale-request rule the last one.
LEMMA CallPaging ==
  ASSUME Inv, PagingInv, ReadShelf \/ ReadManaged
  PROVE  PagingInv'
<1>1. /\ UNCHANGED <<rule, lasting, removed>> /\ scan'.skip = scan.skip
      /\ scan'.listed = scan.listed /\ scan'.pc = NextCall[rule.kind][scan.pc]
      /\ scan.pc \in {"films", "shows", "radarr", "sonarr"}
  BY DEF ReadShelf, ReadManaged, rest, facts, Inv, TypeOK, Scan, Answer
<1>2. scan.skip \in Nat /\ rule.kind \in {"watched", "stale"}
  BY DEF Inv, TypeOK, Scan
<1>3. CASE rule.kind = "watched"
  <2>1. scan.pc \in {"films", "radarr"}
    BY <1>1, <1>3 DEF Inv, InOrder, NextCall
  <2>2. scan.skip = 0
    BY <1>3, <2>1 DEF PagingInv, NotYetPaged
  <2> QED
    BY <1>1, <2>2 DEF PagingInv, SlippedAtMostRemoved, NotYetPaged, MissedAtMostRemoved, Paging
<1>4. CASE rule.kind = "stale"
  <2>1. scan.pc \in {"films", "shows", "radarr", "sonarr"}
        /\ scan'.pc \in {"shows", "radarr", "sonarr", "decide"}
    BY <1>1, <1>4 DEF Inv, InOrder, NextCall
  <2>2. MissedAtMostRemoved'
    BY <1>1, <2>1 DEF PagingInv, MissedAtMostRemoved, Entries
  <2> QED
    BY <1>1, <1>4, <2>1, <2>2 DEF PagingInv, SlippedAtMostRemoved, NotYetPaged, Paging
<1> QED
  BY <1>2, <1>3, <1>4

\* A scan that fails or decides reads nothing any more.
LEMMA EndPaging ==
  ASSUME Inv, PagingInv, CallFails \/ DecideWatched \/ DecideStale
  PROVE  PagingInv'
<1>1. scan \in Scan
  BY DEF Inv, TypeOK
<1>2. CASE CallFails
  <2>1. scan'.pc = "failed"
    BY <1>1, <1>2 DEF CallFails, Scan
  <2> QED
    BY <2>1 DEF PagingInv, SlippedAtMostRemoved, NotYetPaged, MissedAtMostRemoved, Paging
<1>3. CASE DecideWatched \/ DecideStale
  <2>1. /\ scan.pc = "decide" /\ scan'.pc = "done" /\ scan'.skip = scan.skip
        /\ scan'.listed = scan.listed /\ UNCHANGED <<lasting, removed>>
    BY <1>1, <1>3 DEF DecideWatched, DecideStale, Scan
  <2> QED
    BY <2>1 DEF PagingInv, SlippedAtMostRemoved, NotYetPaged, MissedAtMostRemoved, Paging, Entries
<1> QED
  BY <1>2, <1>3

LEMMA PagingStep ==
  ASSUME Inv, PagingInv, [Next]_vars
  PROVE  PagingInv'
<1>1. CASE UNCHANGED vars
  BY <1>1 DEF vars, facts, house, PagingInv, SlippedAtMostRemoved, NotYetPaged,
              MissedAtMostRemoved, Paging, Entries, Behind
<1>2. TypeOK
  BY DEF Inv
<1> QED
  BY <1>1, <1>2, ChangePaging, ReadPagePaging, CallPaging, EndPaging DEF Next

\* However the list changes between its pages, what is overlooked of the requests
\* that were in it all the time is no more than was removed.
THEOREM OverlookedIsRemoved == Spec => []MissedAtMostRemoved
<1>1. Init => PagingInv
  BY DEF Init, Start, PagingInv, SlippedAtMostRemoved, NotYetPaged, MissedAtMostRemoved, Paging
<1> QED
  BY <1>1, PagingStep, Invariant, PTL DEF Spec, PagingInv
----------------------------------------------------------------------------
(* A scan during which nothing happens.                                    *)

\* The works a rule has seen in Jellyfin, and in Radarr and Sonarr, when the call
\* pc is to come.
Shown == [watched |-> [films |-> {}, radarr |-> Films, requests |-> Films, decide |-> Films],
          stale   |-> [requests |-> {}, films |-> {}, shows |-> Films, radarr |-> Works,
                       sonarr |-> Works, decide |-> Works]]
Held  == [watched |-> [films |-> {}, radarr |-> {}, requests |-> Films, decide |-> Films],
          stale   |-> [requests |-> {}, films |-> {}, shows |-> {}, radarr |-> {},
                       sonarr |-> Films, decide |-> Works]]
AllListed == IF rule.kind = "watched" THEN scan.pc = "decide" ELSE scan.pc # "requests"

\* What has been read is what there is.
CalmRead ==
  /\ DOMAIN scan.seen = shelf \cap Shown[rule.kind][scan.pc]
  /\ \A w \in DOMAIN scan.seen : scan.seen[w] = Snapshot(w)
  /\ scan.found = managed \cap Held[rule.kind][scan.pc]
  /\ IF AllListed THEN scan.listed = queue
     ELSE scan.skip <= Len(queue) /\ scan.listed = SubSeq(queue, 1, scan.skip)

CalmInv ==
  /\ calm /\ scan.pc \notin {"done", "failed"} => CalmRead
  /\ CalmScanIsExact

LEMMA CalmShelf ==
  ASSUME Inv, CalmInv, ReadShelf
  PROVE  CalmInv'
<1> DEFINE kind == IF scan.pc = "films" THEN Films ELSE Shows
           read == DOMAIN scan.seen \cup (shelf \cap kind)
           seen == [w \in read |-> IF w \in shelf \cap kind THEN Snapshot(w) ELSE scan.seen[w]]
<1>1. /\ UNCHANGED <<rule, shelf, user, favourites, managed, queue, calm>>
      /\ scan'.pc = NextCall[rule.kind][scan.pc] /\ scan'.seen = seen /\ scan'.found = scan.found
      /\ scan'.listed = scan.listed /\ scan'.skip = scan.skip /\ scan.pc \in {"films", "shows"}
  BY DEF ReadShelf, rest, facts, house, Inv, TypeOK, Scan, Answer
<1>2. rule.kind \in {"watched", "stale"} /\ shelf \subseteq Works
  BY DEF Inv, TypeOK
<1>3. scan.pc \in DOMAIN NextCall[rule.kind]
  BY <1>1 DEF Inv, InOrder
<1>4. \A w : Snapshot(w)' = Snapshot(w)
  BY <1>1 DEF Snapshot
<1>5. /\ scan'.pc \notin {"done", "failed", "requests"} \/ rule.kind = "watched"
      /\ scan'.pc # "done"
      /\ kind \cup Shown[rule.kind][scan.pc] = Shown[rule.kind][scan'.pc]
      /\ Held[rule.kind][scan'.pc] = Held[rule.kind][scan.pc]
      /\ AllListed' <=> AllListed
  <2> HIDE DEF seen
  <2>1. CASE rule.kind = "watched"
    BY <1>1, <1>3, <2>1 DEF NextCall, Shown, Held, AllListed
  <2>2. CASE rule.kind = "stale" /\ scan.pc = "films"
    BY <1>1, <2>2 DEF NextCall, Shown, Held, AllListed
  <2>3. CASE rule.kind = "stale" /\ scan.pc = "shows"
    BY <1>1, <2>3 DEF NextCall, Shown, Held, AllListed, Works
  <2> QED
    BY <1>1, <1>2, <2>1, <2>2, <2>3
<1>6. CASE calm
  <2>1. CalmRead
    BY <1>1, <1>6 DEF CalmInv
  <2>2. DOMAIN seen = shelf \cap (kind \cup Shown[rule.kind][scan.pc])
    BY <2>1 DEF CalmRead
  <2>3. \A w \in DOMAIN seen : seen[w] = Snapshot(w)
    BY <2>1 DEF CalmRead
  <2> HIDE DEF seen, kind
  <2>4. CalmRead'
    BY <1>1, <1>4, <1>5, <2>1, <2>2, <2>3 DEF CalmRead
  <2> QED
    BY <1>5, <2>4 DEF CalmInv, CalmScanIsExact
<1>7. CASE ~calm
  BY <1>1, <1>7 DEF CalmInv, CalmScanIsExact
<1> QED
  BY <1>6, <1>7

LEMMA CalmManaged ==
  ASSUME Inv, CalmInv, ReadManaged
  PROVE  CalmInv'
<1> DEFINE kind == IF scan.pc = "radarr" THEN Films ELSE Shows
<1>1. /\ UNCHANGED <<rule, shelf, user, favourites, managed, queue, calm>>
      /\ scan'.pc = NextCall[rule.kind][scan.pc] /\ scan'.seen = scan.seen
      /\ scan'.found = scan.found \cup (managed \cap kind)
      /\ scan'.listed = scan.listed /\ scan'.skip = scan.skip /\ scan.pc \in {"radarr", "sonarr"}
  BY DEF ReadManaged, rest, facts, house, Inv, TypeOK, Scan, Answer
<1>2. rule.kind \in {"watched", "stale"}
  BY DEF Inv, TypeOK
<1>3. scan.pc \in DOMAIN NextCall[rule.kind]
  BY <1>1 DEF Inv, InOrder
<1>4. \A w : Snapshot(w)' = Snapshot(w)
  BY <1>1 DEF Snapshot
<1>5. /\ scan'.pc # "done"
      /\ kind \cup Held[rule.kind][scan.pc] = Held[rule.kind][scan'.pc]
      /\ Shown[rule.kind][scan'.pc] = Shown[rule.kind][scan.pc]
      /\ AllListed' <=> AllListed
  <2>1. CASE rule.kind = "watched"
    <3>1. scan.pc = "radarr" /\ scan'.pc = "requests"
      BY <1>1, <1>3, <2>1 DEF NextCall
    <3> QED
      BY <1>1, <2>1, <3>1 DEF Shown, Held, AllListed
  <2>2. CASE rule.kind = "stale" /\ scan.pc = "radarr"
    <3>1. scan'.pc = "sonarr"
      BY <1>1, <2>2 DEF NextCall
    <3> QED
      BY <1>1, <2>2, <3>1 DEF Shown, Held, AllListed
  <2>3. CASE rule.kind = "stale" /\ scan.pc = "sonarr"
    <3>1. scan'.pc = "decide"
      BY <1>1, <2>3 DEF NextCall
    <3> QED
      BY <1>1, <2>3, <3>1 DEF Shown, Held, AllListed, Works
  <2> QED
    BY <1>1, <1>2, <2>1, <2>2, <2>3
<1> HIDE DEF kind
<1>6. CASE calm
  <2>1. CalmRead
    BY <1>1, <1>6 DEF CalmInv
  <2>2. CalmRead'
    BY <1>1, <1>4, <1>5, <2>1 DEF CalmRead
  <2> QED
    BY <1>5, <2>2 DEF CalmInv, CalmScanIsExact
<1>7. CASE ~calm
  BY <1>1, <1>7 DEF CalmInv, CalmScanIsExact
<1> QED
  BY <1>6, <1>7

\* The pages read one after the other are the list up to where they reach.
LEMMA CalmPage ==
  ASSUME Inv, CalmInv, ReadPage
  PROVE  CalmInv'
<1> DEFINE next == scan.skip + PageSize
           last == IF next <= Len(queue) THEN next ELSE Len(queue)
           page == SubSeq(queue, scan.skip + 1, last)
<1>1. /\ UNCHANGED <<rule, shelf, user, favourites, managed, queue, calm>>
      /\ scan'.pc = (IF LastPage(next) THEN NextCall[rule.kind][scan.pc] ELSE "requests")
      /\ scan'.seen = scan.seen /\ scan'.found = scan.found
      /\ scan'.listed = scan.listed \o page /\ scan'.skip = next /\ scan.pc = "requests"
  BY DEF ReadPage, rest, facts, house, Inv, TypeOK, Scan, Answer
<1>2. /\ rule.kind \in {"watched", "stale"} /\ queue \in Seq(Requests) /\ Len(queue) \in Nat
      /\ scan.skip \in Nat /\ PageSize \in Nat \ {0}
  BY LenProperties, RequestAssumption DEF Inv, TypeOK, Scan
<1>3. \A w : Snapshot(w)' = Snapshot(w)
  BY <1>1 DEF Snapshot
<1>4. /\ scan'.pc # "done"
      /\ Held[rule.kind][scan'.pc] = Held[rule.kind][scan.pc]
      /\ Shown[rule.kind][scan'.pc] = Shown[rule.kind][scan.pc]
      /\ ~AllListed /\ (AllListed' <=> LastPage(next))
  <2> HIDE DEF next
  <2>1. CASE rule.kind = "watched"
    <3>1. scan'.pc = IF LastPage(next) THEN "decide" ELSE "requests"
      BY <1>1, <2>1 DEF NextCall
    <3> QED
      BY <1>1, <2>1, <3>1 DEF Shown, Held, AllListed
  <2>2. CASE rule.kind = "stale"
    <3>1. scan'.pc = IF LastPage(next) THEN "films" ELSE "requests"
      BY <1>1, <2>2 DEF NextCall
    <3>2. rule'.kind = "stale" /\ scan.pc = "requests"
      BY <1>1, <2>2
    <3>3. ~AllListed /\ (AllListed' <=> LastPage(next))
      BY <2>2, <3>1, <3>2 DEF AllListed
    <3>4. /\ Held["stale"].films = Held["stale"].requests
          /\ Shown["stale"].films = Shown["stale"].requests
      BY DEF Shown, Held
    <3>5. /\ Held["stale"][scan'.pc] = Held["stale"][scan.pc]
          /\ Shown["stale"][scan'.pc] = Shown["stale"][scan.pc]
      BY <3>1, <3>2, <3>4
    <3> QED
      BY <2>2, <3>1, <3>3, <3>5
  <2> QED
    BY <1>2, <2>1, <2>2
<1>5. CASE calm
  <2>1. CalmRead
    BY <1>1, <1>5 DEF CalmInv
  <2>2. scan.skip <= Len(queue) /\ scan.listed = SubSeq(queue, 1, scan.skip)
    BY <1>4, <2>1 DEF CalmRead
  <2>3. /\ 1 \in 1 .. Len(queue) + 1 /\ scan.skip \in (1 - 1) .. Len(queue)
        /\ last \in scan.skip .. Len(queue)
    BY <1>2, <2>2
  <2>4. scan'.listed = SubSeq(queue, 1, last)
    <3>1. SubSeq(queue, 1, scan.skip) \o page = SubSeq(queue, 1, last)
      <4> HIDE DEF last
      <4> QED
        BY <1>2, <2>3, ConcatAdjacentSubSeq, Zenon DEF page
    <3> HIDE DEF page, last
    <3> QED
      BY <1>1, <2>2, <3>1
  <2>5. CASE LastPage(next)
    <3>1. last = Len(queue)
      BY <1>2, <2>5 DEF LastPage
    <3>2. scan'.listed = queue
      BY <1>2, <2>4, <3>1, SubSeqFull
    <3> QED
      BY <1>1, <1>3, <1>4, <2>1, <2>5, <3>2 DEF CalmRead, CalmInv, CalmScanIsExact
  <2>6. CASE ~LastPage(next)
    <3>1. last = next /\ next <= Len(queue)
      BY <1>2, <2>6 DEF LastPage
    <3> QED
      BY <1>1, <1>3, <1>4, <2>1, <2>4, <2>6, <3>1 DEF CalmRead, CalmInv, CalmScanIsExact
  <2> QED
    BY <2>5, <2>6
<1>6. CASE ~calm
  BY <1>1, <1>6 DEF CalmInv, CalmScanIsExact
<1> QED
  BY <1>5, <1>6

\* Without a request of its number, and only then, a film has none.
LEMMA NoRequestFor ==
  ASSUME Inv, NEW w
  PROVE  RequestFor(w) = None <=> ~\E r \in Entries(scan.listed) : Tmdb[Subject[r]] = Tmdb[w]
<1> DEFINE hits == {i \in DOMAIN scan.listed : Tmdb[Subject[scan.listed[i]]] = Tmdb[w]}
<1>1. scan.listed \in Seq(Requests) /\ None \notin Requests
  BY RequestAssumption DEF Inv, TypeOK, Scan
<1>2. hits \in SUBSET Nat /\ \A i \in hits : scan.listed[i] \in Requests
  BY <1>1, LenProperties, ElementOfSeq
<1>3. hits # {} <=> \E r \in Entries(scan.listed) : Tmdb[Subject[r]] = Tmdb[w]
  BY DEF Entries
<1>4. CASE hits # {}
  <2>1. (CHOOSE i \in hits : \A j \in hits : i <= j) \in hits
    <3> HIDE DEF hits
    <3>1. \E i \in hits : \A j \in hits : i <= j
      BY <1>2, <1>4, Least
    <3> QED
      BY <3>1
  <2>2. RequestFor(w) \in Requests
    BY <1>2, <1>4, <2>1 DEF RequestFor
  <2> HIDE DEF hits
  <2> QED
    BY <1>1, <1>3, <1>4, <2>2
<1>5. CASE hits = {}
  BY <1>3, <1>5 DEF RequestFor
<1> QED
  BY <1>4, <1>5

\* What is there is not changed by a decision.
LEMMA DecidedNow ==
  ASSUME UNCHANGED <<facts, house>>
  PROVE  /\ \A w : FilmDue(w)' <=> FilmDue(w)
         /\ \A r : RequestDue(r)' <=> RequestDue(r)
         /\ Entries(queue)' = Entries(queue) /\ rule' = rule
BY DEF facts, house, FilmDue, RequestDue, IsDue, LongAgo, Snapshot, Entries

LEMMA CalmWatched ==
  ASSUME Inv, CalmInv, DecideWatched
  PROVE  CalmInv'
<1> DEFINE played == {w \in DOMAIN scan.seen : scan.seen[w].data >= Undated}
<1>1. /\ scan.pc = "decide" /\ rule.kind = "watched" /\ scan'.pc = "done" /\ calm' = calm
      /\ verdicts' = {WatchedVerdict(w) : w \in played}
      /\ UNCHANGED <<facts, house>>
  BY DEF DecideWatched, Inv, TypeOK, Scan
<1>2. CASE calm
  <2>1. /\ DOMAIN scan.seen = shelf \cap Films /\ scan.found = managed \cap Films
        /\ \A w \in DOMAIN scan.seen : scan.seen[w] = Snapshot(w)
        /\ scan.listed = queue
    BY <1>1, <1>2 DEF CalmInv, CalmRead, Shown, Held, AllListed
  <2>2. ASSUME NEW w \in DOMAIN scan.seen
        PROVE  IF FilmDue(w)
               THEN /\ w \in played /\ WatchedVerdict(w).reason = "match"
                    /\ WatchedVerdict(w).item = w /\ WatchedVerdict(w).request = RequestFor(w)
               ELSE WatchedVerdict(w).reason # "match"
    <3>1. /\ w \in Films /\ w \in shelf /\ scan.seen[w] = Snapshot(w)
          /\ scan.seen[w].data \in UserData
      BY <2>1, SeenFacts
    <3>2. FilmDue(w) <=> /\ IsPast(scan.seen[w].data) /\ ~IsExempt(w)
                         /\ w \in named /\ w \in scan.found
      BY <1>1, <2>1, <3>1, PastIsLongAgo DEF FilmDue, IsDue, IsExempt
    <3>3. CASE FilmDue(w)
      <4>1. WatchedVerdict(w) = Match(w, w, RequestFor(w))
        BY <3>2, <3>3 DEF WatchedVerdict
      <4>2. w \in played
        BY <3>1, <3>2, <3>3, PastIsLongAgo
      <4> QED
        BY <3>3, <4>1, <4>2 DEF Match
    <3>4. CASE ~FilmDue(w)
      <4>1. \E x \in Reasons \ {"match"} : WatchedVerdict(w) = Verdict(w, x)
        BY <3>2, <3>4 DEF WatchedVerdict, Reasons
      <4> QED
        BY <3>4, <4>1 DEF Verdict
    <3> QED
      BY <3>3, <3>4
  <2>3. \A w : FilmDue(w) => w \in DOMAIN scan.seen
    BY <2>1 DEF FilmDue
  <2>4. \A v \in Matches' : \E w \in Films : /\ FilmDue(w) /\ v.item = w
                                             /\ v.request = RequestFor(w)
    <3> SUFFICES ASSUME NEW w \in played, WatchedVerdict(w).reason = "match"
                 PROVE  \E x \in Films : /\ FilmDue(x) /\ WatchedVerdict(w).item = x
                                         /\ WatchedVerdict(w).request = RequestFor(x)
      BY <1>1 DEF Matches
    <3>1. w \in DOMAIN scan.seen /\ w \in Films
      BY <2>1
    <3> QED
      BY <2>2, <3>1
  <2>5. \A w \in Films : FilmDue(w) => \E v \in Matches' : v.item = w
    BY <1>1, <2>2, <2>3 DEF Matches
  <2>6. {v.item : v \in Matches'} = {w \in Films : FilmDue(w)}
    BY <2>4, <2>5
  <2>7. \A v \in Matches' : v.request = None
                             <=> ~\E r \in Entries(queue) : Tmdb[Subject[r]] = Tmdb[v.item]
    BY <2>1, <2>4, NoRequestFor
  <2>8. CalmScanIsExact'
    BY <1>1, <2>6, <2>7, DecidedNow DEF CalmScanIsExact
  <2> QED
    BY <1>1, <2>8 DEF CalmInv
<1>3. CASE ~calm
  BY <1>1, <1>3 DEF CalmInv, CalmScanIsExact
<1> QED
  BY <1>2, <1>3

LEMMA CalmStale ==
  ASSUME Inv, CalmInv, DecideStale
  PROVE  CalmInv'
<1> DEFINE old == {r \in Entries(scan.listed) : IsPast(added[r])}
           listed == {r \in old : Candidates(r) # {}}
<1>1. PICK pick \in [listed -> Works] :
        /\ \A r \in listed : pick[r] \in Candidates(r)
        /\ verdicts' = {Verdict(None, "unknown") : r \in old \ listed}
             \cup {StaleVerdict(r, pick[r]) : r \in {q \in listed : scan.seen[pick[q]].data = Never}}
  BY DEF DecideStale
<1>2. /\ scan.pc = "decide" /\ rule.kind = "stale" /\ scan'.pc = "done" /\ calm' = calm
      /\ UNCHANGED <<facts, house>>
  BY DEF DecideStale, Inv, TypeOK, Scan
<1>3. CASE calm
  <2>1. /\ DOMAIN scan.seen = shelf \cap Works /\ scan.found = managed \cap Works
        /\ \A w \in DOMAIN scan.seen : scan.seen[w] = Snapshot(w)
        /\ scan.listed = queue
    BY <1>2, <1>3 DEF CalmInv, CalmRead, Shown, Held, AllListed
  <2>2. Entries(queue) \subseteq Requests
    BY EntriesType DEF Inv, TypeOK
  <2>3. \A r \in Requests : Subject[r] \in Works /\ added[r] \in UserData
    BY RequestAssumption DEF Inv, TypeOK, UserData
  <2>4. ASSUME NEW r \in Requests, IsManaged(r)
        PROVE  /\ \A w \in Candidates(r) : w = Subject[r] /\ w \in named /\ w \in DOMAIN scan.seen
               /\ Subject[r] \in shelf \cap named => Subject[r] \in Candidates(r)
    <3>1. CASE Subject[r] \in Films
      BY <2>1, <2>3, <3>1, RequestAssumption DEF Candidates
    <3>2. CASE Subject[r] \notin Films
      BY <2>1, <2>3, <2>4, <3>2 DEF Candidates, IsManaged, Works
    <3> QED
      BY <3>1, <3>2
  <2>5. ASSUME NEW r \in Requests, NEW w
        PROVE  /\ StaleVerdict(r, w).reason = "match" <=> ~IsExempt(w) /\ IsManaged(r)
               /\ StaleVerdict(r, w).reason = "match" => StaleVerdict(r, w).request = r
    BY DEF StaleVerdict, Verdict, Match
  <2>6. ASSUME NEW r \in listed, scan.seen[pick[r]].data = Never,
               StaleVerdict(r, pick[r]).reason = "match"
        PROVE  RequestDue(r)
    <3>1. r \in Requests /\ pick[r] \in Candidates(r) /\ IsPast(added[r])
      BY <1>1, <2>1, <2>2
    <3>2. ~IsExempt(pick[r]) /\ IsManaged(r)
      BY <2>5, <2>6, <3>1
    <3>3. pick[r] = Subject[r] /\ Subject[r] \in named /\ Subject[r] \in DOMAIN scan.seen
      BY <2>4, <3>1, <3>2
    <3>4. added[r] \in LongAgo
      BY <2>3, <3>1, PastIsLongAgo
    <3>5. IsDue(Snapshot(Subject[r]))
      BY <1>2, <2>1, <2>6, <3>2, <3>3 DEF IsDue, IsExempt
    <3> QED
      BY <2>1, <3>2, <3>3, <3>4, <3>5 DEF RequestDue, IsManaged
  <2>7. ASSUME NEW r \in Entries(queue), RequestDue(r)
        PROVE  /\ r \in listed /\ scan.seen[pick[r]].data = Never
               /\ StaleVerdict(r, pick[r]).reason = "match"
    <3>1. r \in Requests /\ Subject[r] \in DOMAIN scan.seen
      BY <2>1, <2>2, <2>3, <2>7 DEF RequestDue
    <3>2. IsManaged(r) /\ Subject[r] \in shelf \cap named
      BY <2>1, <2>3, <2>7, <3>1 DEF RequestDue, IsManaged
    <3>3. Subject[r] \in Candidates(r)
      BY <2>4, <3>1, <3>2
    <3>4. IsPast(added[r])
      BY <2>3, <2>7, <3>1, PastIsLongAgo DEF RequestDue
    <3>5. r \in listed
      BY <2>1, <3>3, <3>4
    <3>6. pick[r] = Subject[r]
      BY <1>1, <2>4, <3>1, <3>2, <3>5
    <3>7. scan.seen[pick[r]].data = Never /\ ~IsExempt(pick[r])
      BY <1>2, <2>1, <2>7, <3>1, <3>6 DEF RequestDue, IsDue, IsExempt
    <3> QED
      BY <2>5, <3>1, <3>2, <3>5, <3>7
  <2>8. Verdict(None, "unknown").reason # "match"
    BY DEF Verdict
  <2>9. \A r \in listed : r \in Entries(queue) /\ r \in Requests
    BY <2>1, <2>2
  <2> HIDE DEF old, listed
  <2>10. \A v \in Matches' : v.request \in {r \in Entries(queue) : RequestDue(r)}
    <3> SUFFICES ASSUME NEW v \in verdicts', v.reason = "match"
                 PROVE  v.request \in {r \in Entries(queue) : RequestDue(r)}
      BY DEF Matches
    <3>1. PICK r \in listed : scan.seen[pick[r]].data = Never /\ v = StaleVerdict(r, pick[r])
      BY <1>1, <2>8
    <3>2. RequestDue(r) /\ v.request = r
      BY <2>5, <2>6, <2>9, <3>1
    <3> QED
      BY <2>9, <3>1, <3>2
  <2>11. ASSUME NEW r \in Entries(queue), RequestDue(r)
         PROVE  \E v \in Matches' : v.request = r
    <3>1. /\ r \in listed /\ scan.seen[pick[r]].data = Never
          /\ StaleVerdict(r, pick[r]).reason = "match"
      BY <2>7, <2>11
    <3>2. StaleVerdict(r, pick[r]) \in verdicts' /\ StaleVerdict(r, pick[r]).request = r
      BY <1>1, <2>5, <2>9, <3>1
    <3> QED
      BY <3>1, <3>2 DEF Matches
  <2>12. {v.request : v \in Matches'} = {r \in Entries(queue) : RequestDue(r)}
    BY <2>10, <2>11
  <2>13. CalmScanIsExact'
    BY <1>2, <2>12, DecidedNow DEF CalmScanIsExact
  <2> QED
    BY <1>2, <2>13 DEF CalmInv
<1>4. CASE ~calm
  BY <1>2, <1>4 DEF CalmInv, CalmScanIsExact
<1> QED
  BY <1>3, <1>4

LEMMA CalmStep ==
  ASSUME Inv, CalmInv, [Next]_vars
  PROVE  CalmInv'
<1>1. CASE UNCHANGED vars
  <2>1. \A w : FilmDue(w)' <=> FilmDue(w)
    BY <1>1, DecidedNow DEF vars
  <2>2. \A r : RequestDue(r)' <=> RequestDue(r)
    BY <1>1, DecidedNow DEF vars
  <2>3. /\ UNCHANGED <<rule, shelf, user, favourites, managed, queue, calm, scan, verdicts>>
        /\ Entries(queue)' = Entries(queue)
    BY <1>1 DEF vars, facts, house, Entries
  <2>4. CalmScanIsExact'
    BY <2>1, <2>2, <2>3 DEF CalmInv, CalmScanIsExact, Matches
  <2> QED
    BY <2>3, <2>4 DEF CalmInv, CalmRead, AllListed, Snapshot
<1>2. CASE Change \/ CallFails
  BY <1>2 DEF Change, CallFails, CalmInv, CalmScanIsExact
<1> QED
  BY <1>1, <1>2, CalmShelf, CalmManaged, CalmPage, CalmWatched, CalmStale DEF Next

LEMMA CalmInit == Init => CalmInv
<1> SUFFICES ASSUME Init PROVE CalmInv
  OBVIOUS
<1>1. rule.kind \in {"watched", "stale"} /\ Inv
  BY InvInit DEF Init
<1>2. /\ scan.pc = FirstCall[rule.kind] /\ scan.skip = 0 /\ scan.listed = << >>
      /\ DOMAIN scan.seen = {} /\ scan.found = {}
  BY DEF Init, Start
<1>3. Len(queue) \in Nat
  BY <1>1, LenProperties DEF Inv, TypeOK
<1>4. SubSeq(queue, 1, 0) = << >>
  BY SubSeqEmpty
<1>5. /\ scan.pc \in {"films", "requests"} /\ ~AllListed
      /\ Shown[rule.kind][scan.pc] = {} /\ Held[rule.kind][scan.pc] = {}
  BY <1>1, <1>2 DEF FirstCall, Shown, Held, AllListed
<1> QED
  BY <1>2, <1>3, <1>4, <1>5 DEF CalmInv, CalmRead, CalmScanIsExact

\* A scan in peace matches what is due: no more and no less, on whatever page the
\* request is.
THEOREM CalmIsExact == Spec => []CalmScanIsExact
BY CalmInit, CalmStep, Invariant, PTL DEF Spec, CalmInv
----------------------------------------------------------------------------
(* The request that goes with a match.                                     *)

\* A request that goes with a match and does not ask for it asks for a show that
\* has the number of the film.
OnlyShowsMislead ==
  \A v \in Matches :
    v.request # None /\ Subject[v.request] # v.entry =>
      /\ v.entry \in Films /\ Subject[v.request] \in Shows
      /\ Tmdb[Subject[v.request]] = Tmdb[v.entry]

\* movie_watched asks Jellyfin for films only.
SeesFilms == rule.kind = "watched" => DOMAIN scan.seen \subseteq Films

LEMMA SeesFilmsStep ==
  ASSUME Inv, SeesFilms, [Next]_vars
  PROVE  SeesFilms'
<1> USE DEF SeesFilms, facts, house, rest
<1>0. scan \in Scan /\ rule.kind \in {"watched", "stale"}
  BY DEF Inv, TypeOK
<1>1. CASE UNCHANGED vars
  BY <1>1 DEF vars
<1>2. CASE Change \/ ReadManaged \/ ReadPage \/ CallFails \/ DecideWatched \/ DecideStale
  BY <1>0, <1>2
  DEF Change, ReadManaged, ReadPage, CallFails, DecideWatched, DecideStale, Scan
<1>3. ASSUME ReadShelf, rule.kind = "watched"
      PROVE  DOMAIN scan'.seen \subseteq Films
  <2>1. scan.pc \in DOMAIN NextCall["watched"] /\ scan.pc \in {"films", "shows"}
    BY <1>3, AnswerType DEF ReadShelf
  <2>2. scan.pc = "films"
    BY <2>1 DEF NextCall
  <2>3. DOMAIN scan'.seen = DOMAIN scan.seen \cup (shelf \cap Films)
    BY <1>0, <1>3, <2>2 DEF ReadShelf, Scan
  <2> QED
    BY <1>3, <2>3
<1> QED
  BY <1>1, <1>2, <1>3 DEF Next, ReadShelf

LEMMA MisleadStep ==
  ASSUME Inv, SeesFilms, OnlyShowsMislead, [Next]_vars
  PROVE  OnlyShowsMislead'
<1>0. Inv'
  BY InvStep
<1>1. CASE UNCHANGED verdicts
  BY <1>1 DEF OnlyShowsMislead, Matches
<1>2. CASE DecideStale
  <2>1. rule'.kind = "stale"
    BY <1>2 DEF DecideStale, facts
  <2> QED
    BY <1>0, <2>1 DEF Inv, JudgedIsRequested, OnlyShowsMislead
<1>3. CASE DecideWatched
  <2>1. ASSUME NEW w \in DOMAIN scan.seen, WatchedVerdict(w).reason = "match"
        PROVE  WatchedVerdict(w) = Match(w, w, RequestFor(w)) /\ w \in Films
    BY <1>3, <2>1 DEF WatchedVerdict, Verdict, SeesFilms, DecideWatched
  <2>2. ASSUME NEW w \in Films, RequestFor(w) # None, Subject[RequestFor(w)] # w
        PROVE  Subject[RequestFor(w)] \in Shows /\ Tmdb[Subject[RequestFor(w)]] = Tmdb[w]
    <3>1. Tmdb[Subject[RequestFor(w)]] = Tmdb[w] /\ Subject[RequestFor(w)] \in Works
      BY <2>2, RequestForType, RequestAssumption
    <3> QED
      BY <2>2, <3>1, RequestAssumption DEF Works
  <2>3. ASSUME NEW v \in Matches'
        PROVE  \E w \in Films : v = Match(w, w, RequestFor(w))
    BY <1>3, <2>1, <2>3 DEF Matches, DecideWatched
  <2> QED
    BY <2>2, <2>3 DEF OnlyShowsMislead, Match
<1> QED
  BY <1>1, <1>2, <1>3
  DEF Next, vars, Change, ReadShelf, ReadManaged, ReadPage, CallFails, rest

\* The one way in which the request of somebody else goes with a match: it asks
\* for a show whose TMDB number is that of the film.
THEOREM MisledByNumber == Spec => []OnlyShowsMislead
<1>1. Init => SeesFilms /\ OnlyShowsMislead
  BY DEF Init, Start, SeesFilms, OnlyShowsMislead, Matches
<1> QED
  BY <1>1, SeesFilmsStep, MisleadStep, Invariant, PTL DEF Spec

\* Were the numbers of films and shows distinct, the request would be the film's.
THEOREM RequestIsRight ==
  ASSUME \A f \in Films, s \in Shows : Tmdb[f] # Tmdb[s]
  PROVE  Spec => []RequestIsTheFilms
<1>1. OnlyShowsMislead => RequestIsTheFilms
  BY DEF OnlyShowsMislead, RequestIsTheFilms
<1> QED
  BY <1>1, MisledByNumber, PTL
=============================================================================
