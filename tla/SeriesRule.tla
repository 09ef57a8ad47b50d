----------------------------- MODULE SeriesRule -----------------------------
(***************************************************************************)
(* One series rule looking at one show: series_watched.evaluate reads the  *)
(* list of shows, then the show's seasons, episodes and announced episode  *)
(* counts in separate calls, while people watch, favourite and download.   *)
(* What is decided from these readings is staged for deletion.             *)
(***************************************************************************)
EXTENDS Integers, FiniteSets

CONSTANTS
  Catalogue,     \* all episodes announced for the show
  SeasonOf,      \* SeasonOf[e]: the season of episode e
  Show, None,    \* the show as a whole; no item
  Threshold,     \* of the rule
  MayMiss,       \* look-ups that may fail, one at a time
  MayLackNumber, \* seasons that may have no IndexNumber in Jellyfin
  MaxTime, MaxChanges  \* bounds: the clock, changes of the library

Seasons == {SeasonOf[e] : e \in Catalogue}
Items   == Seasons \cup {Show}

EpisodesOf(i) == IF i = Show THEN Catalogue ELSE {e \in Catalogue : SeasonOf[e] = i}

ASSUME SeriesAssumption ==
  /\ IsFiniteSet(Catalogue) /\ \A e \in Catalogue : SeasonOf[e] \in Nat
  /\ Show \notin Nat /\ None \notin Nat /\ Show # None
  /\ Threshold \in Nat /\ MaxTime \in Nat /\ MaxChanges \in Nat

VARIABLES
  rule,        \* granularity and exempt_favorite
  known,       \* lookups that succeed: the ids Jellyfin has, the show in Sonarr
  numbered,    \* seasons with an IndexNumber in Jellyfin
  airs,        \* the show's Status is "Continuing"
  disk,        \* episodes in the library
  played,      \* played[e]: UserData of episode e
  favourites,  \* shows and seasons marked as favourite
  clock,
  scan,        \* what evaluate has read
  outcome,     \* outcome[i]: what it decided about item i
  calm,        \* history: no change and no failed call since the scan began
  been,        \* history: been[i]: the facts that held of item i together, at
               \* the moments since then
  changes

library == <<airs, disk, played, favourites, clock>>
vars == <<rule, known, numbered, library, scan, outcome, calm, been, changes>>
----------------------------------------------------------------------------
\* UserData of an episode: not played, played without a LastPlayedDate, a date.
Never   == -2
Undated == -1
UserData == {Never, Undated} \cup (0 .. MaxTime)

Lookups  == {"tmdb", "tvdb", "sonarr"}
Outcomes == {"none", "airing", "waiting", "favorited", "unknown", "missing", "match"}

\* A listing of episodes with their user data.
Listing == UNION {[S -> UserData] : S \in SUBSET Catalogue}

\* What Jellyfin reports: an item's episodes, and Played for those it has all
\* episodes of watched.
ListingOf(i) == [e \in disk \cap EpisodesOf(i) |-> played[e]]
IsPlayed(i)  == /\ disk \cap EpisodesOf(i) # {}
                /\ \A e \in disk \cap EpisodesOf(i) : played[e] # Never
Listed       == {SeasonOf[e] : e \in disk}

\* What is true of item i now: fully watched, no favourite, all it has been
\* announced with in the library.
Facts == {"watched", "plain", "complete"}

FactsOf(i) ==
  {f \in Facts : \/ f = "watched"  /\ IsPlayed(i)
                 \/ f = "plain"    /\ i \notin favourites
                 \/ f = "complete" /\ EpisodesOf(i) \subseteq disk}

\* evaluate between two calls.  exempt, continuing, listed: flags and seasons as
\* read; todo: seasons not judged yet; item, seen: the item in hand and its
\* listing; newest: the season whose episode count is asked for.
Scan == [pc : {"start", "seasons", "season", "episodes", "newest", "details", "done"},
         exempt : SUBSET Items, continuing : BOOLEAN,
         listed : SUBSET Seasons, todo : SUBSET Seasons, item : Items \cup {None},
         seen : Listing, newest : Seasons \cup {None}]

Nothing == [e \in {} |-> Never]

Start == [pc |-> "start", exempt |-> {}, continuing |-> FALSE,
          listed |-> {}, todo |-> {}, item |-> None, seen |-> Nothing, newest |-> None]

\* The items whose marks the rule looks at; the others play no part.
Markable == IF ~rule.exemptFavorite THEN {}
            ELSE IF rule.granularity = "series" THEN {Show} ELSE Items

Init ==
  /\ rule \in [granularity : {"series", "season"}, exemptFavorite : BOOLEAN]
  /\ known \in {Lookups \ {l} : l \in MayMiss \cup {None}}
  /\ numbered \in {Seasons} \cup {Seasons \ {n} : n \in MayLackNumber}
  /\ airs \in BOOLEAN
  /\ ~airs => "tmdb" \in known /\ numbered = Seasons  \* an ended show is asked for neither
  /\ disk \in SUBSET Catalogue
  /\ clock \in 0 .. MaxTime
  /\ played \in [Catalogue -> UserData]
  /\ \A e \in Catalogue : played[e] <= (IF e \in disk THEN clock ELSE Never)
  /\ favourites \in SUBSET Markable
  /\ scan = Start
  /\ outcome = [i \in Items |-> "none"]
  /\ calm = TRUE /\ been = [i \in Items |-> {}]
  /\ changes = 0
----------------------------------------------------------------------------
(* Everything else that happens in the house.                              *)

Download(e) ==
  /\ e \notin disk
  /\ disk' = disk \cup {e}
  /\ UNCHANGED <<airs, played, favourites, clock>>

\* A deletion, by the executor or by hand; the user data of e stays.
Remove(e) ==
  /\ e \in disk
  /\ disk' = disk \ {e}
  /\ UNCHANGED <<airs, played, favourites, clock>>

Watch(e) ==
  /\ e \in disk
  /\ \E data \in {Never, clock} : played' = [played EXCEPT ![e] = data]
  /\ UNCHANGED <<airs, disk, favourites, clock>>

ToggleFavourite(i) ==
  /\ i \in Markable
  /\ favourites' = IF i \in favourites THEN favourites \ {i} ELSE favourites \cup {i}
  /\ UNCHANGED <<airs, disk, played, clock>>

Cancelled ==
  /\ airs /\ airs' = FALSE
  /\ UNCHANGED <<disk, played, favourites, clock>>

Tick ==
  /\ clock < MaxTime /\ clock' = clock + 1
  /\ UNCHANGED <<airs, disk, played, favourites>>

\* Before the scan the library is as Init leaves it, anything.
Change ==
  /\ scan.pc \notin {"start", "done"}
  /\ changes < MaxChanges /\ changes' = changes + 1
  /\ \/ \E e \in Catalogue : Download(e) \/ Remove(e) \/ Watch(e)
     \/ \E i \in Items : ToggleFavourite(i)
     \/ Cancelled \/ Tick
  /\ calm' = FALSE
  /\ been' = [i \in Items |-> been[i] \cup {FactsOf(i)'}]
  /\ UNCHANGED <<rule, known, numbered, scan, outcome>>
----------------------------------------------------------------------------
(* evaluate.                                                               *)

\* Mutant: the least recent date.
PastForSome(seen) == \E e \in DOMAIN seen : seen[e] >= 0 /\ seen[e] + Threshold <= clock

\* latest_played_at, is_past_threshold: no date is not past.
IsPast(seen) ==
  /\ \E e \in DOMAIN seen : seen[e] >= 0
  /\ \A e \in DOMAIN seen : seen[e] >= 0 => seen[e] + Threshold <= clock

\* Mutant: at season granularity only the season's own mark counts.
OwnMark(i) == rule.exemptFavorite /\ i \in scan.exempt

\* is_favorite, as read.
IsExempt(i) == rule.exemptFavorite /\ ({i, Show} \cap scan.exempt # {})

\* What is decided about item i from its listing.
Decision(i, seen) ==
  CASE ~IsPast(seen)         -> "waiting"
    [] IsPast(seen) /\ IsExempt(i) -> "favorited"
    [] IsPast(seen) /\ ~IsExempt(i) /\ "tvdb" \notin known -> "unknown"
    [] IsPast(seen) /\ ~IsExempt(i) /\ "tvdb" \in known /\ "sonarr" \notin known -> "missing"
    [] OTHER -> "match"

Ended == [scan EXCEPT !.pc = "done", !.todo = {}, !.exempt = {},
                      !.item = None, !.seen = Nothing, !.newest = None]

\* Mutant: the season in hand stays on the list.
JudgedAgain(i) ==
  IF i = Show THEN Ended
  ELSE [scan EXCEPT !.pc = "season", !.item = None, !.seen = Nothing, !.newest = None]

\* The next season, or the end of the show.
Judged(i) ==
  IF i = Show THEN Ended
  ELSE [scan EXCEPT !.pc = "season", !.todo = @ \ {i},
                    !.item = None, !.seen = Nothing, !.newest = None]

Conclude(i, result) ==
  /\ outcome' = [outcome EXCEPT ![i] = result]
  /\ scan' = Judged(i)

\* n is the last of the given seasons.
Latest(n, seasons) == n \in seasons /\ \A m \in seasons : m <= n

\* last_season_number: n is the newest of the seasons listed with a number.
IsNewest(n, listed) == Latest(n, listed \cap numbered)

rest == <<rule, known, numbered, library, been, changes>>

\* get_series: the flags of the show.
ReadShow ==
  /\ scan.pc = "start"
  /\ scan' = [scan EXCEPT
       !.pc = IF rule.granularity = "season" THEN "seasons"
              ELSE IF IsPlayed(Show) THEN "episodes" ELSE "done",
       !.exempt = favourites \cap {Show}, !.continuing = airs]
  /\ been' = [i \in Items |-> {FactsOf(i)}]
  /\ UNCHANGED <<rule, known, numbered, library, outcome, calm, changes>>

\* get_seasons at season granularity.
ReadSeasons ==
  /\ scan.pc = "seasons"
  /\ scan' = [scan EXCEPT !.pc = "season", !.listed = Listed,
                !.todo = {n \in Listed : IsPlayed(n)},
                !.exempt = @ \cup (favourites \cap Listed)]
  /\ UNCHANGED <<rest, outcome, calm>>

\* get_episodes of one season.  Only the newest of a continuing show needs its
\* announced count, which needs a TMDB id.
ReadSeason(n) ==
  /\ scan.pc = "season" /\ n \in scan.todo
  /\ LET seen  == ListingOf(n)
         gated == scan.continuing /\ IsNewest(n, scan.listed)
     IN  \/ /\ ~gated
            /\ Conclude(n, Decision(n, seen))
         \/ /\ gated /\ "tmdb" \notin known
            /\ Conclude(n, "airing")
         \/ /\ gated /\ "tmdb" \in known
            /\ scan' = [scan EXCEPT !.pc = "details", !.item = n, !.seen = seen, !.newest = n]
            /\ UNCHANGED outcome
  /\ UNCHANGED <<rest, calm>>

SeasonsDone ==
  /\ scan.pc = "season" /\ scan.todo = {}
  /\ scan' = Ended
  /\ UNCHANGED <<rest, outcome, calm>>

\* get_episodes of the whole show.
ReadEpisodes ==
  /\ scan.pc = "episodes"
  /\ LET seen == ListingOf(Show)
     IN  \/ /\ ~scan.continuing
            /\ Conclude(Show, Decision(Show, seen))
         \/ /\ scan.continuing
            /\ scan' = [scan EXCEPT !.pc = "newest", !.item = Show, !.seen = seen]
            /\ UNCHANGED outcome
  /\ UNCHANGED <<rest, calm>>

\* get_seasons at series granularity.
ReadNewest ==
  /\ scan.pc = "newest"
  /\ \/ /\ Listed \cap numbered = {}
        /\ Conclude(Show, Decision(Show, scan.seen))
     \/ \E n \in Listed :
          /\ IsNewest(n, Listed)
          /\ \/ /\ "tmdb" \notin known
                /\ Conclude(Show, "airing")
             \/ /\ "tmdb" \in known
                /\ scan' = [scan EXCEPT !.pc = "details", !.listed = Listed, !.newest = n]
                /\ UNCHANGED outcome
  /\ UNCHANGED <<rest, calm>>

\* Mutant: the episodes of all seasons are counted.
AllAvailable == DOMAIN scan.seen

\* Episodes of the newest season in the listing.
Available == {e \in DOMAIN scan.seen : SeasonOf[e] = scan.newest}

\* season_episode_count, and the comparison with what Jellyfin has.
FullyReleased ==
  Cardinality(Available) >= Cardinality(EpisodesOf(scan.newest))

\* get_tv_details: a failing call or a season without a count is still airing.
ReadDetails ==
  /\ scan.pc = "details"
  /\ \E answered \in BOOLEAN :
       /\ calm' = (calm /\ answered)
       /\ Conclude(scan.item, IF answered /\ FullyReleased
                              THEN Decision(scan.item, scan.seen) ELSE "airing")
  /\ UNCHANGED rest

\* An IntegrationError from any other call ends the rule.
Interrupted ==
  /\ scan.pc \in {"start", "seasons", "season", "episodes", "newest"}
  /\ scan' = Ended
  /\ calm' = FALSE
  /\ UNCHANGED <<rest, outcome>>

Evaluate ==
  \/ ReadShow \/ ReadSeasons \/ SeasonsDone \/ ReadEpisodes \/ ReadNewest
  \/ ReadDetails \/ Interrupted
  \/ \E n \in Seasons : ReadSeason(n)

Next == Change \/ Evaluate

Spec == Init /\ [][Next]_vars
----------------------------------------------------------------------------
(* Properties.                                                             *)

\* Every variable has its type, and a season is judged once.
TypeOK ==
  /\ rule \in [granularity : {"series", "season"}, exemptFavorite : BOOLEAN]
  /\ known \in SUBSET Lookups /\ numbered \in SUBSET Seasons
  /\ airs \in BOOLEAN /\ disk \in SUBSET Catalogue /\ played \in [Catalogue -> UserData]
  /\ favourites \in SUBSET Items /\ clock \in 0 .. MaxTime
  /\ scan \in Scan /\ outcome \in [Items -> Outcomes]
  /\ (scan.item = None) = (scan.pc \notin {"newest", "details"})
  /\ scan.pc = "season" => \A n \in scan.todo : outcome[n] = "none"
  /\ calm \in BOOLEAN /\ been \in [Items -> SUBSET SUBSET Facts]
  /\ changes \in 0 .. MaxChanges

Matched == {i \in Items : outcome[i] = "match"}

\* Of a show read as continuing, the newest season listed with a number is
\* matched, alone or with the show, only when at one moment of the scan all its
\* announced episodes were in the library, whatever comes and goes between the
\* calls (_last_season_still_airing).
NewestComplete ==
  \A i \in Matched : scan.continuing =>
    \A n \in Seasons : IsNewest(n, scan.listed) /\ i \in {n, Show} =>
      \E f \in been[n] : "complete" \in f

\* However the readings interleave with changes, there was a moment of the scan
\* when a matched item was fully watched and no favourite (is_played and
\* is_favorite of one reading), and a moment when its show was no favourite.
\* The two may be different moments: the show is read before its seasons, so a
\* mark moved from the season to the show in between protects neither.
MatchWasDue ==
  \A i \in Matched :
    /\ \E f \in been[i] : "watched" \in f /\ (rule.exemptFavorite => "plain" \in f)
    /\ rule.exemptFavorite => \E f \in been[Show] : "plain" \in f

\* The reference: what the documentation says about one state of the library
\* (docs/getting-started.md:114-130).  The newest season, whichever it is, holds
\* itself and the show back until all its announced episodes are there.
GateOpen(i) ==
  airs => \A n \in Listed : Latest(n, Listed) /\ i \in {n, Show} =>
    "tmdb" \in known /\ EpisodesOf(n) \subseteq disk

\* Due but for that.
LongWatched(i) ==
  LET episodes == disk \cap EpisodesOf(i) IN
  /\ \A e \in episodes : played[e] # Never /\ (played[e] = Undated \/ clock - played[e] >= Threshold)
  /\ \E e \in episodes : played[e] # Undated
  /\ rule.exemptFavorite => favourites \cap {i, Show} = {}
  /\ {"tvdb", "sonarr"} \subseteq known

DueNow(i) == LongWatched(i) /\ GateOpen(i)

\* The newest season has a number: a season without one is older than another.
NewestNumbered == \A m \in Listed \ numbered : \E n \in Listed \cap numbered : m < n

\* When nothing changes and no call fails, a scan matches exactly what the
\* documentation calls due, provided the newest season has a number.  If it has
\* none the code holds it back no more, against the documentation and the
\* docstring of _last_season_still_airing (series_watched.py:97); what is matched
\* is then at least watched for long enough and no favourite.
CalmScanIsExact ==
  scan.pc = "done" /\ calm =>
    /\ \A i \in Matched : LongWatched(i)
    /\ NewestNumbered =>
         Matched = {i \in (IF rule.granularity = "series" THEN {Show} ELSE Seasons) : DueNow(i)}
=============================================================================
