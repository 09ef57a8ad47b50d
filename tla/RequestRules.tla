---------------------------- MODULE RequestRules ----------------------------
(***************************************************************************)
(* The two rules that go by Seerr requests: movie_watched.evaluate, which  *)
(* removes the request together with a watched film, and                   *)
(* stale_request.evaluate, which looks for requests nobody watched.  Each  *)
(* reads Jellyfin, Radarr, Sonarr and the pages of Seerr's request list in *)
(* separate calls, while people watch, favourite, request and delete, and  *)
(* then decides on what it has read.                                       *)
(***************************************************************************)
EXTENDS Integers, Sequences, FiniteSets

CONSTANTS
  Films, Shows,
  Tmdb,          \* Tmdb[w]: TMDB id of work w; films and shows are numbered apart
  Requests,      \* of Seerr
  Subject,       \* Subject[r]: the work asked for
  MayLackId,     \* works Jellyfin may have no provider id for
  MayLackTvdb,   \* requests Seerr may have no TVDB id for
  None,
  PageSize,      \* take
  Threshold,     \* of the rule
  MaxTime, MaxChanges  \* bounds: the clock, changes during a scan of each rule

Works == Films \cup Shows

ASSUME RequestAssumption ==
  /\ IsFiniteSet(Works) /\ IsFiniteSet(Requests) /\ Films \cap Shows = {}
  /\ \A v, w \in Films : Tmdb[v] = Tmdb[w] => v = w
  /\ Subject \in [Requests -> Works] /\ MayLackTvdb \subseteq Requests
  /\ None \notin Works \cup Requests \cup {Tmdb[w] : w \in Works}
  /\ PageSize \in Nat \ {0} /\ Threshold \in Nat /\ MaxTime \in Nat
  /\ MaxChanges \in [{"watched", "stale"} -> Nat]

VARIABLES
  rule,        \* which of the two, and exempt_favorite
  named,       \* works with a provider id in Jellyfin
  numbered,    \* requests with a TVDB id in Seerr
  added,       \* added[r]: when what r asks for became available
  shelf,       \* works in Jellyfin
  user,        \* user[w]: what Jellyfin has noted for the tracked user
  favourites,
  managed,     \* works in Radarr or Sonarr
  queue,       \* Seerr's list of available requests
  clock,
  scan,        \* what evaluate has read
  verdicts,    \* what it decided
  calm,        \* history: no change and no failed call since the scan began
  been,        \* history: been[w]: what was true of w at any time since then
  lasting,     \* history: requests in the list ever since its first page was read
  removed,     \* history: how many left it before its last page was read
  changes

house == <<shelf, user, favourites, managed, queue, clock>>
facts == <<rule, named, numbered, added>>
vars  == <<facts, house, scan, verdicts, calm, been, lasting, removed, changes>>
----------------------------------------------------------------------------
\* UserData: not played at all, begun, played without a LastPlayedDate, a date.
Never   == -3
Begun   == -2
Undated == -1
UserData  == {Never, Begun, Undated} \cup (0 .. MaxTime)
Snapshots == [data : UserData, plain : BOOLEAN]

Snapshot(w) == [data |-> user[w], plain |-> w \notin favourites]

\* What is true of a work at one moment, in Jellyfin and in Radarr or Sonarr.
Facts == [data : UserData, plain : BOOLEAN, shelved : BOOLEAN, managed : BOOLEAN]

Fact(w) == [data |-> user[w], plain |-> w \notin favourites,
            shelved |-> w \in shelf, managed |-> w \in managed]

\* An answer of Jellyfin: some works with their user data.
Listing == UNION {[S -> Snapshots] : S \in SUBSET Works}

Entries(seq) == {seq[i] : i \in DOMAIN seq}

\* The calls of each rule, in order.
FirstCall == [watched |-> "films", stale |-> "requests"]
NextCall  == [watched |-> [films |-> "radarr", radarr |-> "requests", requests |-> "decide"],
              stale   |-> [requests |-> "films", films |-> "shows", shows |-> "radarr",
                           radarr |-> "sonarr", sonarr |-> "decide"]]

\* evaluate between two calls: the call to come, how many requests were asked
\* for, and the answers so far.
Scan == [pc : {"films", "shows", "radarr", "sonarr", "requests", "decide", "done", "failed"},
         skip : Nat, listed : Seq(Requests), seen : Listing, found : SUBSET Works]

Start == [pc |-> FirstCall[rule.kind], skip |-> 0, listed |-> <<>>,
          seen |-> [w \in {} |-> None], found |-> {}]

Reasons  == {"approaching", "favorited", "unknown", "missing", "match"}
Verdicts == [item : Works \cup {None}, reason : Reasons,
             entry : Works \cup {None}, request : Requests \cup {None}]

\* Sequences without repetition of the elements of a set.
Orders(S) == {q \in UNION {[1 .. n -> S] : n \in 0 .. Cardinality(S)} :
                \A i, j \in DOMAIN q : q[i] = q[j] => i = j}

\* The works a rule looks at.
Judged == IF rule.kind = "watched" THEN Films ELSE Works

\* What a rule does not look at has one value only.
Init ==
  /\ rule \in [kind : {"watched", "stale"}, exemptFavorite : BOOLEAN]
  /\ named \in {Works \ S : S \in SUBSET MayLackId}
  /\ numbered \in {Requests \ S : S \in SUBSET MayLackTvdb}
  /\ clock \in 0 .. MaxTime
  /\ added \in [Requests -> {Undated} \cup (0 .. clock)]
  /\ user \in [Works -> {Never, Begun, Undated} \cup (0 .. clock)]
  /\ rule.kind = "watched" =>
       /\ numbered = Requests /\ added = [r \in Requests |-> Undated]
       /\ \A w \in Shows : user[w] = Never
  /\ rule.kind = "stale" => \A w \in Works : user[w] \in {Never, Begun}
  /\ shelf \in SUBSET Judged /\ managed \in SUBSET Judged
  /\ favourites \in SUBSET (IF rule.exemptFavorite THEN shelf ELSE {})
  /\ queue \in Orders(Requests)
  /\ scan = Start /\ verdicts = {}
  /\ calm = TRUE /\ been = [w \in Works |-> {Fact(w)}]
  /\ lasting = {} /\ removed = 0 /\ changes = 0
----------------------------------------------------------------------------
(* Everything else that happens in the house and in Seerr.                 *)

Paging == scan.pc = "requests" /\ scan.skip > 0

\* A film or show is watched; begun only, or to its end.
Watch(w) ==
  /\ w \in shelf
  /\ \E data \in {Never, Begun, clock} : user' = [user EXCEPT ![w] = data]
  /\ UNCHANGED <<shelf, favourites, managed, queue, clock, lasting, removed>>

ToggleFavourite(w) ==
  /\ rule.exemptFavorite /\ w \in shelf
  /\ favourites' = IF w \in favourites THEN favourites \ {w} ELSE favourites \cup {w}
  /\ UNCHANGED <<shelf, user, managed, queue, clock, lasting, removed>>

\* Imported, or deleted by the executor or by hand.
Shelve(w) ==
  /\ shelf'   = IF w \in shelf THEN shelf \ {w} ELSE shelf \cup {w}
  /\ managed' = IF w \in shelf THEN managed \ {w} ELSE managed \cup {w}
  /\ UNCHANGED <<user, favourites, queue, clock, lasting, removed>>

Tick ==
  /\ clock < MaxTime /\ clock' = clock + 1
  /\ UNCHANGED <<shelf, user, favourites, managed, queue, lasting, removed>>

\* A request is deleted, by the executor or by hand.
Withdraw(i) ==
  /\ i \in DOMAIN queue
  /\ queue' = SubSeq(queue, 1, i - 1) \o SubSeq(queue, i + 1, Len(queue))
  /\ lasting' = IF Paging THEN lasting \ {queue[i]} ELSE lasting
  /\ removed' = IF Paging THEN removed + 1 ELSE removed
  /\ UNCHANGED <<shelf, user, favourites, managed, clock>>

\* A request becomes available: the list is sorted by another date.
Arrive(r, i) ==
  /\ r \notin Entries(queue) /\ i \in 0 .. Len(queue)
  /\ queue' = SubSeq(queue, 1, i) \o <<r>> \o SubSeq(queue, i + 1, Len(queue))
  /\ UNCHANGED <<shelf, user, favourites, managed, clock, lasting, removed>>

\* Before the first call everything is as Init leaves it, anything.
Change ==
  /\ scan # Start /\ scan.pc \notin {"done", "failed"}
  /\ changes < MaxChanges[rule.kind] /\ changes' = changes + 1
  /\ \/ \E w \in Judged : Watch(w) \/ ToggleFavourite(w) \/ Shelve(w)
     \/ \E i \in DOMAIN queue : Withdraw(i)
     \/ \E r \in Requests, i \in 0 .. Len(queue) : Arrive(r, i)
     \/ Tick
  /\ calm' = FALSE
  /\ UNCHANGED <<facts, scan, verdicts>>
  /\ been' = [w \in Works |-> been[w] \cup {Fact(w)'}]
----------------------------------------------------------------------------
(* The calls.                                                              *)

Answer == NextCall[rule.kind][scan.pc]

rest == <<facts, house, verdicts, calm, been, changes>>

\* get_movies and get_series of Jellyfin.
ReadShelf ==
  /\ scan.pc \in {"films", "shows"}
  /\ LET kind == IF scan.pc = "films" THEN Films ELSE Shows
         read == DOMAIN scan.seen \cup (shelf \cap kind)
     IN  scan' = [scan EXCEPT !.pc = Answer,
           !.seen = [w \in read |-> IF w \in shelf \cap kind THEN Snapshot(w) ELSE scan.seen[w]]]
  /\ UNCHANGED <<rest, lasting, removed>>

\* get_movies of Radarr, get_series of Sonarr.
ReadManaged ==
  /\ scan.pc \in {"radarr", "sonarr"}
  /\ scan' = [scan EXCEPT !.pc = Answer,
                !.found = @ \cup (managed \cap (IF scan.pc = "radarr" THEN Films ELSE Shows))]
  /\ UNCHANGED <<rest, lasting, removed>>

\* Mutant: one page short.
StopsEarly(skip) == skip + PageSize >= Len(queue)

\* The page just read was the last: pageInfo.results is the length of the list.
LastPage(skip) == skip >= Len(queue)

\* One turn of the loop of list_requests.
ReadPage ==
  /\ scan.pc = "requests"
  /\ LET next == scan.skip + PageSize
         page == SubSeq(queue, scan.skip + 1, IF next <= Len(queue) THEN next ELSE Len(queue))
     IN  /\ lasting' = IF scan.skip = 0 THEN Entries(queue) ELSE lasting
         /\ scan' = [scan EXCEPT !.listed = @ \o page, !.skip = next,
                       !.pc = IF LastPage(next) THEN Answer ELSE "requests"]
  /\ UNCHANGED <<rest, removed>>

\* IntegrationError in any call, or in building a client before the first.
CallFails ==
  /\ scan.pc \notin {"decide", "done", "failed"}
  /\ scan' = [scan EXCEPT !.pc = "failed"]
  /\ calm' = FALSE
  /\ UNCHANGED <<facts, house, verdicts, been, lasting, removed, changes>>
----------------------------------------------------------------------------
(* The decision, made on the answers and the time.                         *)

\* Mutant: the boundary does not count.
IsLongPast(date) == date >= 0 /\ date + Threshold < clock

\* is_past_threshold; what is undated is not past.
IsPast(date) == date >= 0 /\ date + Threshold <= clock

\* Mutant: the favourite flag as it is when the decision is made.
ExemptByNow(w) == rule.exemptFavorite /\ w \in favourites

IsExempt(w) == rule.exemptFavorite /\ ~scan.seen[w].plain

\* Mutant: the number of the request's medium in place of the request's own.
NumberFor(w) ==
  IF \E i \in DOMAIN scan.listed : Tmdb[Subject[scan.listed[i]]] = Tmdb[w] THEN Tmdb[w] ELSE None

\* The first of the requests read whose TMDB id is that of w.
RequestFor(w) ==
  LET hits == {i \in DOMAIN scan.listed : Tmdb[Subject[scan.listed[i]]] = Tmdb[w]}
  IN  IF hits = {} THEN None ELSE scan.listed[CHOOSE i \in hits : \A j \in hits : i <= j]

Verdict(item, reason) == [item |-> item, reason |-> reason, entry |-> None, request |-> None]
Match(item, entry, r) == [item |-> item, reason |-> "match", entry |-> entry, request |-> r]

\* movie_watched on a film Jellyfin reports as played; only the dry run lists
\* the approaching ones.
WatchedVerdict(w) ==
  IF ~IsPast(scan.seen[w].data) THEN Verdict(w, "approaching")
  ELSE IF IsExempt(w)      THEN Verdict(w, "favorited")
  ELSE IF w \notin named   THEN Verdict(w, "unknown")
  ELSE IF w \notin scan.found THEN Verdict(w, "missing")
  ELSE Match(w, w, RequestFor(w))

DecideWatched ==
  /\ scan.pc = "decide" /\ rule.kind = "watched"
  /\ verdicts' = {WatchedVerdict(w) : w \in {v \in DOMAIN scan.seen : scan.seen[v].data >= Undated}}
  /\ scan' = [scan EXCEPT !.pc = "done"]
  /\ UNCHANGED <<facts, house, calm, been, lasting, removed, changes>>

\* Mutant: any work of that number, film or show.
OfAnyKind(r) ==
  {w \in DOMAIN scan.seen \cap named : Tmdb[w] = Tmdb[Subject[r]]}

\* Works in Jellyfin with the id of r: TMDB for a film, TVDB for a show.  A
\* request without TVDB id goes with shows that have none either.
Candidates(r) ==
  IF Subject[r] \in Films
  THEN {w \in DOMAIN scan.seen \cap Films \cap named : Tmdb[w] = Tmdb[Subject[r]]}
  ELSE {w \in DOMAIN scan.seen \cap Shows :
          IF r \in numbered THEN w \in named /\ w = Subject[r] ELSE w \notin named}

\* find_by_tmdb_id, find_by_tvdb_id: what is deleted is looked up by the id of
\* the request, and every show in Sonarr has a TVDB id.
IsManaged(r) ==
  Subject[r] \in scan.found /\ (Subject[r] \in Films \/ r \in numbered)

\* stale_request on a request whose item is w.
StaleVerdict(r, w) ==
  IF IsExempt(w) THEN Verdict(w, "favorited")
  ELSE IF ~IsManaged(r) THEN Verdict(w, "missing")
  ELSE Match(w, Subject[r], r)

\* pick[r]: the first of the candidates in Jellyfin's order.
DecideStale ==
  /\ scan.pc = "decide" /\ rule.kind = "stale"
  /\ LET old    == {r \in Entries(scan.listed) : IsPast(added[r])}
         listed == {r \in old : Candidates(r) # {}}
     IN  \E pick \in [listed -> Works] :
           /\ \A r \in listed : pick[r] \in Candidates(r)
           /\ verdicts' = {Verdict(None, "unknown") : r \in old \ listed}
                \cup {StaleVerdict(r, pick[r]) :
                        r \in {q \in listed : scan.seen[pick[q]].data = Never}}
  /\ scan' = [scan EXCEPT !.pc = "done"]
  /\ UNCHANGED <<facts, house, calm, been, lasting, removed, changes>>

Next ==
  \/ Change
  \/ ReadShelf \/ ReadManaged \/ ReadPage \/ CallFails
  \/ DecideWatched \/ DecideStale

Spec == Init /\ [][Next]_vars
----------------------------------------------------------------------------
(* Properties.                                                             *)

\* Every variable has its type; a verdict names works and requests, or none.
TypeOK ==
  /\ rule \in [kind : {"watched", "stale"}, exemptFavorite : BOOLEAN]
  /\ named \subseteq Works /\ numbered \subseteq Requests
  /\ added \in [Requests -> {Undated} \cup (0 .. MaxTime)]
  /\ shelf \subseteq Works /\ managed \subseteq Works /\ favourites \subseteq Works
  /\ user \in [Works -> UserData]
  /\ queue \in Seq(Requests)
  /\ clock \in 0 .. MaxTime
  /\ scan \in Scan /\ verdicts \subseteq Verdicts
  /\ calm \in BOOLEAN /\ been \in [Works -> SUBSET Facts]
  /\ lasting \subseteq Requests /\ removed \in Nat /\ changes \in 0 .. MaxChanges[rule.kind]

Matches == {v \in verdicts : v.reason = "match"}

LongAgo == 0 .. clock - Threshold

\* What a rule may call due at this time, going by user data read at some time.
IsDue(s) ==
  /\ IF rule.kind = "watched" THEN s.data \in LongAgo ELSE s.data = Never
  /\ rule.exemptFavorite => s.plain

\* However the house changes between the calls, what is put up for deletion has an
\* id and was, at one moment of the scan, in Jellyfin and no favourite, with the
\* play date (or never played) that makes it due when the decision is made; at one
\* moment, maybe another, Radarr or Sonarr had it.  A favourite mark or a play that
\* comes after the reading does not count.
\* (movie_watched.py:38-93, stale_request.py:41-90)
MatchWasDue ==
  \A v \in Matches :
    /\ v.entry \in named
    /\ \E f \in been[v.entry] : f.shelved /\ IsDue(f)
    /\ \E f \in been[v.entry] : f.managed
    /\ rule.kind = "stale" => added[v.request] \in LongAgo

\* The stale-request rule deletes the work that was asked for and that it looked
\* at, although a request without an id is compared with shows without one.
\* (stale_request.py:45-50, 71, 86)
JudgedIsRequested ==
  rule.kind = "stale" =>
    \A v \in Matches : v.item = Subject[v.request] /\ v.entry = Subject[v.request]

\* list_requests overlooks no more of the requests that were in the list all the
\* time than were removed from it between two pages. (seerr_client.py:17-31)
MissedAtMostRemoved ==
  scan.skip > 0 /\ scan.pc \notin {"requests", "failed"} =>
    Cardinality(lasting \ Entries(scan.listed)) <= removed

\* The documentation, for one state of the house.
FilmDue(w) ==
  w \in shelf \cap Films \cap named \cap managed /\ IsDue(Snapshot(w))
RequestDue(r) ==
  /\ Subject[r] \in shelf \cap named \cap managed
  /\ Subject[r] \in Films \/ r \in numbered
  /\ added[r] \in LongAgo /\ IsDue(Snapshot(Subject[r]))

\* A scan during which nothing happens matches exactly what is due, and a film
\* together with a request if the list has one of its number, on any page.
\* (movie_watched.py:30-111, stale_request.py:39-102, seerr_client.py:17-31)
CalmScanIsExact ==
  calm /\ scan.pc = "done" =>
    IF rule.kind = "watched"
    THEN /\ {v.item : v \in Matches} = {w \in Films : FilmDue(w)}
         /\ \A v \in Matches :
              v.request = None <=> ~\E r \in Entries(queue) : Tmdb[Subject[r]] = Tmdb[v.item]
    ELSE {v.request : v \in Matches} = {r \in Entries(queue) : RequestDue(r)}

\* The request that is removed with a film asks for that film: "the Seerr request
\* is deleted" (docs/getting-started.md:93). Violated: the numbers of films and
\* shows overlap and the media type is not compared. (movie_watched.py:95)
RequestIsTheFilms ==
  \A v \in Matches : v.request # None => Subject[v.request] = v.entry
=============================================================================
