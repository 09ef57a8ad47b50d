-------------------------- MODULE SeriesRuleProofs --------------------------
(***************************************************************************)
(* Proofs about the series rule: whatever changes between its readings, a  *)
(* match was watched and not exempt, and the newest season of a continuing *)
(* show was complete.                                                      *)
(***************************************************************************)
EXTENDS SeriesRule, FiniteSetTheorems, TLAPS

Early == {"start", "seasons", "episodes", "newest"}

\* Where evaluate is tells what it has read and decided.
Progress ==
  /\ scan.pc \in Early => /\ scan.todo = {} /\ scan.listed = {}
                          /\ \A i \in Items : outcome[i] = "none"
  /\ \A n \in scan.todo : outcome[n] = "none"
  /\ scan.pc = "newest" => scan.item = Show
  /\ scan.pc = "details" =>
       /\ IsNewest(scan.newest, scan.listed)
       /\ scan.item = Show \/ (scan.item = scan.newest /\ scan.item \in scan.todo)

\* History has what is true now ...
Witnessed ==
  scan.pc \notin {"start", "done"} => \A i \in Items : FactsOf(i) \in been[i]

\* ... and what the scan has read of the items it may still match.
Candidates ==
  scan.todo \cup (IF scan.pc = "details" THEN {scan.item} ELSE {})
            \cup (IF scan.pc \in {"episodes", "newest"} THEN {Show} ELSE {})

\* Is there a moment at which item i was watched, and unmarked unless it was read
\* as marked?
WasDue(i) ==
  \E f \in been[i] : "watched" \in f /\ (i \notin scan.exempt => "plain" \in f)

WatchedRead == \A i \in Candidates : WasDue(i)

PlainRead ==
  scan.pc \notin {"start", "done"} =>
    (Show \notin scan.exempt => \E f \in been[Show] : "plain" \in f)

SeenWasThere ==
  scan.pc \in {"newest", "details"} =>
    \A n \in Seasons : EpisodesOf(n) \subseteq DOMAIN scan.seen =>
      \E f \in been[n] : "complete" \in f

Inv ==
  /\ TypeOK /\ Progress /\ Witnessed /\ WatchedRead /\ PlainRead /\ SeenWasThere
  /\ MatchWasDue /\ NewestComplete
----------------------------------------------------------------------------
(* Items, listings and decisions.                                          *)

LEMMA ItemFacts ==
  /\ Show \in Items /\ Seasons \subseteq Items /\ Seasons \subseteq Nat
  /\ Show \notin Seasons /\ None \notin Items
  /\ \A i \in Items : i # Show => i \in Seasons
BY SeriesAssumption DEF Items, Seasons

\* What Jellyfin lists has its type, and of a show or season only its episodes.
LEMMA ListingType ==
  ASSUME TypeOK, NEW i \in Items
  PROVE  ListingOf(i) \in Listing /\ DOMAIN ListingOf(i) = disk \cap EpisodesOf(i)
<1>1. DOMAIN ListingOf(i) = disk \cap EpisodesOf(i)
  BY DEF ListingOf
<1>2. disk \cap EpisodesOf(i) \in SUBSET Catalogue
  BY DEF TypeOK
<1>3. ListingOf(i) \in [disk \cap EpisodesOf(i) -> UserData]
  BY <1>2 DEF ListingOf, TypeOK
<1> QED
  BY <1>1, <1>2, <1>3 DEF Listing

LEMMA NothingType == Nothing \in Listing
<1>1. Nothing \in [{} -> UserData]
  BY DEF Nothing
<1> QED
  BY <1>1 DEF Listing

\* Nothing exempt is a match.
LEMMA DecisionType ==
  ASSUME NEW i, NEW seen
  PROVE  Decision(i, seen) \in Outcomes /\ (Decision(i, seen) = "match" => ~IsExempt(i))
BY DEF Decision, Outcomes

LEMMA FactMeaning ==
  ASSUME NEW i
  PROVE  /\ FactsOf(i) \subseteq Facts
         /\ IsPlayed(i) => "watched" \in FactsOf(i)
         /\ i \notin favourites => "plain" \in FactsOf(i)
         /\ EpisodesOf(i) \subseteq disk => "complete" \in FactsOf(i)
BY DEF FactsOf, Facts

\* As many episodes as announced are all of them.
LEMMA AllThere ==
  ASSUME TypeOK, scan.newest \in Seasons, FullyReleased
  PROVE  EpisodesOf(scan.newest) \subseteq DOMAIN scan.seen
<1> DEFINE all == EpisodesOf(scan.newest)
<1>1. all \subseteq Catalogue /\ scan.newest # Show
  BY ItemFacts DEF EpisodesOf
<1>2. IsFiniteSet(all)
  BY <1>1, FS_Subset, SeriesAssumption
<1>3. DOMAIN scan.seen \subseteq Catalogue
  BY DEF TypeOK, Scan, Listing
<1>4. Available \subseteq all
  BY <1>1, <1>3 DEF Available, EpisodesOf
<1>5. IsFiniteSet(Available) /\ Cardinality(Available) <= Cardinality(all)
  BY <1>2, <1>4, FS_Subset
<1>6. Cardinality(Available) \in Nat /\ Cardinality(all) \in Nat
  BY <1>2, <1>5, FS_CardinalityType
<1>7. Cardinality(Available) = Cardinality(all)
  BY <1>5, <1>6 DEF FullyReleased
<1>8. Available = all
  BY <1>2, <1>4, <1>7, FS_Subset
<1> QED
  BY <1>8 DEF Available
----------------------------------------------------------------------------
(* Steps that conclude about an item, and steps that conclude nothing.     *)

\* What is decided about a candidate from what was read of it.
LEMMA ConcludeStep ==
  ASSUME Inv, NEW i \in Candidates \cap Items, NEW result \in Outcomes,
         scan.pc \in {"season", "episodes", "newest", "details"},
         i # Show => i \in scan.todo,
         result = "match" => ~IsExempt(i),
         result = "match" /\ scan.continuing =>
           \A n \in Seasons : IsNewest(n, scan.listed) /\ i \in {n, Show} =>
             \E f \in been[n] : "complete" \in f,
         Conclude(i, result), UNCHANGED rest, calm' \in BOOLEAN
  PROVE  Inv'
<1> USE DEF Inv
<1>1. scan' \in Scan /\ scan'.pc \in {"season", "done"} /\ scan'.item = None
      /\ scan'.todo \subseteq scan.todo \ {i} /\ scan'.exempt \subseteq scan.exempt
      /\ scan'.listed = scan.listed /\ scan'.continuing = scan.continuing
      /\ (scan'.pc = "season" => scan'.exempt = scan.exempt)
  <2>1. CASE i = Show
    BY <2>1, ItemFacts, NothingType DEF Conclude, Judged, Ended, TypeOK, Scan
  <2>2. CASE i # Show
    BY <2>2, NothingType DEF Conclude, Judged, TypeOK, Scan
  <2> QED BY <2>1, <2>2
<1>d. scan'.pc = "done" => scan'.todo = {}
  <2>1. CASE i = Show
    BY <2>1 DEF Conclude, Judged, Ended, TypeOK, Scan
  <2>2. CASE i # Show
    BY <2>2 DEF Conclude, Judged, TypeOK, Scan
  <2> QED BY <2>1, <2>2
<1>2. outcome' = [outcome EXCEPT ![i] = result] /\ outcome' \in [Items -> Outcomes]
  BY DEF Conclude, TypeOK
<1>4. UNCHANGED <<rule, known, numbered, airs, disk, played, favourites, clock, been, changes>>
  BY DEF rest, library
<1>5. \A n \in scan'.todo : outcome'[n] = "none"
  BY <1>1, <1>2, ItemFacts DEF Progress, TypeOK, Scan
<1>6. TypeOK'
  BY <1>1, <1>2, <1>4, <1>5 DEF TypeOK
<1>7. Progress'
  BY <1>1, <1>5 DEF Progress, Early
<1>8. Witnessed'
  <2>1. ASSUME NEW j PROVE FactsOf(j)' = FactsOf(j)
    BY <1>4 DEF FactsOf, IsPlayed
  <2> QED BY <1>1, <1>4, <2>1 DEF Witnessed
<1>9. Candidates' \subseteq Candidates
  BY <1>1 DEF Candidates
<1>10. WatchedRead' /\ PlainRead' /\ SeenWasThere'
  <2>1. scan'.pc = "done" => Candidates' = {}
    BY <1>d DEF Candidates
  <2>2. CASE scan'.pc = "season"
    BY <1>1, <1>4, <1>9, <2>2 DEF WatchedRead, WasDue, PlainRead, SeenWasThere
  <2>3. CASE scan'.pc = "done"
    BY <2>1, <2>3 DEF WatchedRead, WasDue, PlainRead, SeenWasThere
  <2> QED
    BY <1>1, <2>2, <2>3
<1>11. ASSUME NEW j \in Items, outcome'[j] = "match"
       PROVE  (j = i /\ result = "match") \/ outcome[j] = "match"
  BY <1>2, <1>11 DEF TypeOK
<1>12. result = "match" =>
         /\ \E f \in been[i] : "watched" \in f /\ (rule.exemptFavorite => "plain" \in f)
         /\ rule.exemptFavorite => \E f \in been[Show] : "plain" \in f
  <2>1. WasDue(i) /\ PlainRead /\ scan.pc \notin {"start", "done"}
    BY DEF WatchedRead
  <2>2. result = "match" /\ rule.exemptFavorite => i \notin scan.exempt /\ Show \notin scan.exempt
    BY DEF IsExempt
  <2> QED
    BY <2>1, <2>2 DEF WasDue, PlainRead
<1>13. MatchWasDue'
  BY <1>4, <1>11, <1>12 DEF MatchWasDue, Matched
<1>14. NewestComplete'
  BY <1>1, <1>4, <1>11 DEF NewestComplete, Matched, IsNewest, Latest
<1> QED
  BY <1>6, <1>7, <1>8, <1>10, <1>13, <1>14

\* The library changes, or nothing does.
LEMMA ChangeStep ==
  ASSUME Inv, Change
  PROVE  Inv'
<1> USE DEF Inv
<1>1. UNCHANGED <<rule, known, numbered, scan, outcome>> /\ calm' = FALSE
  BY DEF Change
<1>2. been' = [i \in Items |-> been[i] \cup {FactsOf(i)'}] /\ changes' \in 0 .. MaxChanges
  BY SeriesAssumption DEF Change, TypeOK
<1>3. been' \in [Items -> SUBSET SUBSET Facts] /\ \A i \in Items : been[i] \subseteq been'[i]
  BY <1>2 DEF TypeOK, FactsOf
<1>4. airs' \in BOOLEAN /\ disk' \in SUBSET Catalogue /\ played' \in [Catalogue -> UserData]
      /\ favourites' \in SUBSET Items /\ clock' \in 0 .. MaxTime
  <2>1. CASE \E e \in Catalogue : Download(e) \/ Remove(e) \/ Watch(e)
    BY <2>1 DEF Download, Remove, Watch, TypeOK, UserData
  <2>2. CASE \E i \in Items : ToggleFavourite(i)
    BY <2>2 DEF ToggleFavourite, TypeOK
  <2>3. CASE Cancelled
    BY <2>3 DEF Cancelled, TypeOK
  <2>4. CASE Tick
    BY <2>4, SeriesAssumption DEF Tick, TypeOK
  <2> QED BY <2>1, <2>2, <2>3, <2>4 DEF Change
<1>5. TypeOK'
  BY <1>1, <1>2, <1>3, <1>4 DEF TypeOK
<1>6. Candidates' = Candidates /\ Candidates \subseteq Items
  BY <1>1, ItemFacts DEF Candidates, Progress, TypeOK, Scan
<1>7. Progress' /\ Witnessed'
  BY <1>1, <1>2 DEF Progress, Witnessed, IsNewest, Latest
<1>8. WatchedRead' /\ PlainRead' /\ SeenWasThere'
  BY <1>1, <1>3, <1>6, ItemFacts DEF WatchedRead, WasDue, PlainRead, SeenWasThere
<1>9. MatchWasDue' /\ NewestComplete'
  BY <1>1, <1>3, ItemFacts DEF MatchWasDue, NewestComplete, Matched, IsNewest, Latest
<1> QED
  BY <1>5, <1>7, <1>8, <1>9
----------------------------------------------------------------------------
(* The steps of evaluate.                                                  *)

LEMMA ReadShowStep ==
  ASSUME Inv, ReadShow
  PROVE  Inv'
<1> USE DEF Inv
<1>1. UNCHANGED <<rule, known, numbered, airs, disk, played, favourites, clock,
                  outcome, calm, changes>>
      /\ been' = [i \in Items |-> {FactsOf(i)}]
  BY DEF ReadShow, library
<1>2. scan' \in Scan /\ scan'.pc \in {"seasons", "episodes", "done"} /\ scan'.todo = {}
      /\ scan'.listed = {} /\ scan'.item = None /\ scan'.exempt = favourites \cap {Show}
      /\ (scan'.pc = "episodes" => IsPlayed(Show))
  BY ItemFacts DEF ReadShow, TypeOK, Scan, Progress, Early
<1>3. \A i \in Items : outcome[i] = "none"
  BY DEF ReadShow, Progress, Early
<1>4. been' \in [Items -> SUBSET SUBSET Facts]
  BY <1>1 DEF FactsOf
<1>5. TypeOK'
  BY <1>1, <1>2, <1>4 DEF TypeOK
<1>6. \A i \in Items : FactsOf(i)' = FactsOf(i)
  BY <1>1 DEF FactsOf, IsPlayed
<1>7. Progress' /\ Witnessed' /\ SeenWasThere'
  BY <1>1, <1>2, <1>3, <1>6 DEF Progress, Early, Witnessed, SeenWasThere
<1>8. Candidates' \subseteq {Show} /\ (Show \in Candidates' => IsPlayed(Show))
  BY <1>2 DEF Candidates
<1>9. WatchedRead' /\ PlainRead'
  BY <1>1, <1>2, <1>8, ItemFacts, FactMeaning DEF WatchedRead, WasDue, PlainRead
<1>10. MatchWasDue' /\ NewestComplete'
  BY <1>1, <1>3 DEF MatchWasDue, NewestComplete, Matched
<1> QED
  BY <1>5, <1>7, <1>9, <1>10

LEMMA ReadSeasonsStep ==
  ASSUME Inv, ReadSeasons
  PROVE  Inv'
<1> USE DEF Inv
<1>1. UNCHANGED <<rule, known, numbered, airs, disk, played, favourites, clock, been,
                  outcome, calm, changes>>
  BY DEF ReadSeasons, rest, library
<1>2. Listed \subseteq Seasons
  BY DEF Listed, Seasons, TypeOK
<1>3. scan' \in Scan /\ scan'.pc = "season" /\ scan'.todo = {n \in Listed : IsPlayed(n)}
      /\ scan'.item = None /\ scan'.exempt = scan.exempt \cup (favourites \cap Listed)
  BY <1>2, ItemFacts DEF ReadSeasons, TypeOK, Scan
<1>4. \A i \in Items : outcome[i] = "none"
  BY DEF ReadSeasons, Progress, Early
<1>5. TypeOK'
  BY <1>1, <1>2, <1>3, <1>4, ItemFacts DEF TypeOK
<1>6. \A i \in Items : FactsOf(i)' = FactsOf(i) /\ FactsOf(i) \in been[i]
  BY <1>1 DEF FactsOf, IsPlayed, Witnessed, ReadSeasons
<1>7. Progress' /\ Witnessed' /\ SeenWasThere'
  BY <1>1, <1>2, <1>3, <1>4, <1>6, ItemFacts DEF Progress, Early, Witnessed, SeenWasThere
<1>8. Candidates' = {n \in Listed : IsPlayed(n)}
  BY <1>3 DEF Candidates
\* Both flags of a season come with the one listing.
<1>9. WatchedRead'
  <2> SUFFICES ASSUME NEW n \in Listed, IsPlayed(n) PROVE WasDue(n)'
    BY <1>8 DEF WatchedRead
  <2>1. n \in Seasons /\ n # Show /\ n \in Items
    BY <1>2, ItemFacts
  <2>2. FactsOf(n) \in been[n] /\ "watched" \in FactsOf(n)
    BY <1>6, <2>1, FactMeaning
  <2>3. n \notin scan'.exempt => "plain" \in FactsOf(n)
    BY <1>3, FactMeaning
  <2> QED
    BY <1>1, <2>2, <2>3 DEF WasDue
<1>10. PlainRead'
  <2>1. Show \notin scan'.exempt => Show \notin scan.exempt
    BY <1>3
  <2> QED
    BY <1>1, <2>1 DEF PlainRead, ReadSeasons
<1>11. MatchWasDue' /\ NewestComplete'
  BY <1>1, <1>4 DEF MatchWasDue, NewestComplete, Matched
<1> QED
  BY <1>5, <1>7, <1>9, <1>10, <1>11

\* A season ends here, or waits for the number of episodes announced.
LEMMA ReadSeasonStep ==
  ASSUME Inv, NEW n \in Seasons, ReadSeason(n)
  PROVE  Inv'
<1> USE DEF Inv
<1> DEFINE gated == scan.continuing /\ IsNewest(n, scan.listed)
<1>1. n \in Candidates \cap Items /\ n # Show /\ n \in scan.todo /\ scan.pc = "season"
  BY ItemFacts DEF ReadSeason, Candidates
<1>2. UNCHANGED rest /\ calm' = calm /\ calm' \in BOOLEAN
  BY DEF ReadSeason, TypeOK
<1>3. CASE ~gated /\ Conclude(n, Decision(n, ListingOf(n)))
  <2>1. scan.continuing =>
          \A m \in Seasons : IsNewest(m, scan.listed) /\ n \in {m, Show} =>
            \E f \in been[m] : "complete" \in f
    BY <1>1, <1>3
  <2> QED
    BY <1>1, <1>2, <1>3, <2>1, DecisionType, ConcludeStep
<1>4. CASE Conclude(n, "airing")
  BY <1>1, <1>2, <1>4, ConcludeStep DEF Outcomes
<1>5. CASE /\ gated
           /\ scan' = [scan EXCEPT !.pc = "details", !.item = n, !.seen = ListingOf(n), !.newest = n]
           /\ UNCHANGED outcome
  <2>1. UNCHANGED <<rule, known, numbered, airs, disk, played, favourites, clock, been,
                    outcome, calm, changes>>
    BY <1>2, <1>5 DEF rest, library
  <2>2. scan' \in Scan /\ scan'.pc = "details" /\ scan'.todo = scan.todo /\ scan'.newest = n
        /\ scan'.item = n /\ scan'.exempt = scan.exempt /\ scan'.listed = scan.listed
        /\ scan'.continuing = scan.continuing /\ scan'.seen = ListingOf(n)
    BY <1>1, <1>5, ListingType DEF TypeOK, Scan
  <2>3. TypeOK'
    BY <1>1, <2>1, <2>2, ItemFacts DEF TypeOK
  <2>4. \A i \in Items : FactsOf(i)' = FactsOf(i) /\ FactsOf(i) \in been[i]
    BY <1>1, <2>1 DEF FactsOf, IsPlayed, Witnessed
  <2>5. Progress' /\ Witnessed'
    BY <1>1, <1>5, <2>1, <2>2, <2>4 DEF Progress, Early, Witnessed, IsNewest, Latest
  <2>6. Candidates' = Candidates
    BY <1>1, <2>2 DEF Candidates
  <2>7. WatchedRead' /\ PlainRead'
    BY <1>1, <2>1, <2>2, <2>6 DEF WatchedRead, WasDue, PlainRead
  <2>8. SeenWasThere'
    <3>1. ASSUME NEW m \in Seasons, EpisodesOf(m) \subseteq DOMAIN ListingOf(n)
          PROVE  \E f \in been[m] : "complete" \in f
      BY <1>1, <2>4, <3>1, ItemFacts, FactMeaning, ListingType
    <3> QED BY <2>1, <2>2, <3>1 DEF SeenWasThere
  <2>9. MatchWasDue' /\ NewestComplete'
    BY <2>1, <2>2 DEF MatchWasDue, NewestComplete, Matched, IsNewest, Latest
  <2> QED
    BY <2>3, <2>5, <2>7, <2>8, <2>9
<1> QED
  BY <1>3, <1>4, <1>5 DEF ReadSeason

LEMMA ReadEpisodesStep ==
  ASSUME Inv, ReadEpisodes
  PROVE  Inv'
<1> USE DEF Inv
<1> DEFINE seen == ListingOf(Show)
<1>1. Show \in Candidates \cap Items /\ scan.pc = "episodes"
  BY ItemFacts DEF ReadEpisodes, Candidates
<1>2. UNCHANGED rest /\ calm' = calm /\ calm' \in BOOLEAN
  BY DEF ReadEpisodes, TypeOK
<1>3. CASE ~scan.continuing /\ Conclude(Show, Decision(Show, seen))
  BY <1>1, <1>2, <1>3, DecisionType, ConcludeStep
<1>4. CASE /\ scan' = [scan EXCEPT !.pc = "newest", !.item = Show, !.seen = seen]
           /\ UNCHANGED outcome
  <2>1. UNCHANGED <<rule, known, numbered, airs, disk, played, favourites, clock, been,
                    outcome, calm, changes>>
    BY <1>2, <1>4 DEF rest, library
  <2>2. scan' \in Scan /\ scan'.pc = "newest" /\ scan'.todo = {} /\ scan'.item = Show
        /\ scan'.listed = {} /\ scan'.exempt = scan.exempt /\ scan'.seen = seen
    BY <1>1, <1>4, ListingType, ItemFacts DEF TypeOK, Scan, Progress, Early
  <2>3. \A i \in Items : outcome[i] = "none"
    BY <1>1 DEF Progress, Early
  <2>4. TypeOK'
    BY <1>1, <2>1, <2>2, ItemFacts DEF TypeOK
  <2>5. \A i \in Items : FactsOf(i)' = FactsOf(i) /\ FactsOf(i) \in been[i]
    BY <1>1, <2>1 DEF FactsOf, IsPlayed, Witnessed
  <2>6. Progress' /\ Witnessed'
    BY <2>1, <2>2, <2>3, <2>5 DEF Progress, Early, Witnessed
  <2>7. Candidates' = {Show} /\ Show \in Candidates
    BY <1>1, <2>2 DEF Candidates
  <2>8. WatchedRead' /\ PlainRead'
    BY <1>1, <2>1, <2>2, <2>7 DEF WatchedRead, WasDue, PlainRead
  <2>9. SeenWasThere'
    <3>1. ASSUME NEW m \in Seasons, EpisodesOf(m) \subseteq DOMAIN seen
          PROVE  \E f \in been[m] : "complete" \in f
      BY <1>1, <2>5, <3>1, ItemFacts, FactMeaning, ListingType
    <3> QED BY <2>1, <2>2, <3>1 DEF SeenWasThere
  <2>10. MatchWasDue' /\ NewestComplete'
    BY <2>1, <2>3 DEF MatchWasDue, NewestComplete, Matched
  <2> QED
    BY <2>4, <2>6, <2>8, <2>9, <2>10
<1> QED
  BY <1>3, <1>4 DEF ReadEpisodes

LEMMA ReadNewestStep ==
  ASSUME Inv, ReadNewest
  PROVE  Inv'
<1> USE DEF Inv
<1>1. Show \in Candidates \cap Items /\ scan.pc = "newest"
  BY ItemFacts DEF ReadNewest, Candidates
<1>2. UNCHANGED rest /\ calm' = calm /\ calm' \in BOOLEAN
  BY DEF ReadNewest, TypeOK
<1>3. CASE Conclude(Show, Decision(Show, scan.seen))
  <2>1. \A m \in Seasons : ~IsNewest(m, scan.listed)
    BY <1>1 DEF IsNewest, Latest, Progress, Early
  <2> QED
    BY <1>1, <1>2, <1>3, <2>1, DecisionType, ConcludeStep
<1>4. CASE Conclude(Show, "airing")
  BY <1>1, <1>2, <1>4, ConcludeStep DEF Outcomes
<1>5. ASSUME NEW n \in Listed, IsNewest(n, Listed),
             scan' = [scan EXCEPT !.pc = "details", !.listed = Listed, !.newest = n],
             UNCHANGED outcome
      PROVE  Inv'
  <2>1. UNCHANGED <<rule, known, numbered, airs, disk, played, favourites, clock, been,
                    outcome, calm, changes>>
    BY <1>2, <1>5 DEF rest, library
  <2>2. Listed \subseteq Seasons
    BY DEF Listed, Seasons, TypeOK
  <2>3. scan' \in Scan /\ scan'.pc = "details" /\ scan'.todo = {} /\ scan'.item = Show
        /\ scan'.exempt = scan.exempt /\ scan'.seen = scan.seen /\ scan'.newest = n
        /\ scan'.listed = Listed
    BY <1>1, <1>5, <2>2 DEF TypeOK, Scan, Progress, Early
  <2>4. \A i \in Items : outcome[i] = "none"
    BY <1>1 DEF Progress, Early
  <2>5. TypeOK'
    BY <1>1, <2>1, <2>3, ItemFacts DEF TypeOK
  <2>6. \A i \in Items : FactsOf(i)' = FactsOf(i) /\ FactsOf(i) \in been[i]
    BY <1>1, <2>1 DEF FactsOf, IsPlayed, Witnessed
  <2>7. Progress' /\ Witnessed'
    BY <1>5, <2>1, <2>3, <2>6 DEF Progress, Early, Witnessed, IsNewest, Latest
  <2>8. Candidates' = {Show} /\ Show \in Candidates
    BY <1>1, <2>3 DEF Candidates
  <2>9. WatchedRead' /\ PlainRead' /\ SeenWasThere'
    BY <1>1, <2>1, <2>3, <2>8 DEF WatchedRead, WasDue, PlainRead, SeenWasThere
  <2>10. MatchWasDue' /\ NewestComplete'
    BY <2>1, <2>4 DEF MatchWasDue, NewestComplete, Matched
  <2> QED
    BY <2>5, <2>7, <2>9, <2>10
<1> QED
  BY <1>3, <1>4, <1>5 DEF ReadNewest

\* Of a complete newest season, and of its show, the gate is open rightly.
LEMMA ReadDetailsStep ==
  ASSUME Inv, ReadDetails
  PROVE  Inv'
<1> USE DEF Inv
<1> DEFINE item == scan.item
<1>1. scan.pc = "details" /\ item \in Candidates /\ item \in {scan.newest, Show}
      /\ IsNewest(scan.newest, scan.listed)
  BY DEF ReadDetails, Candidates, Progress
<1>2. scan.listed \subseteq Seasons /\ scan.newest \in Seasons /\ item \in Items
  BY <1>1, ItemFacts DEF TypeOK, Scan, IsNewest, Latest
<1>3. UNCHANGED rest
  BY DEF ReadDetails
<1>4. PICK answered \in BOOLEAN :
        /\ calm' = (calm /\ answered)
        /\ Conclude(item, IF answered /\ FullyReleased
                                     THEN Decision(item, scan.seen) ELSE "airing")
  BY DEF ReadDetails
<1>5. calm' \in BOOLEAN
  BY <1>4 DEF TypeOK
<1>6. item # Show => item \in scan.todo
  BY <1>1, ItemFacts DEF Progress
<1>7. CASE answered /\ FullyReleased
  <2>1. \E f \in been[scan.newest] : "complete" \in f
    BY <1>1, <1>2, <1>7, AllThere DEF SeenWasThere
  <2>2. ASSUME NEW m \in Seasons, IsNewest(m, scan.listed) PROVE m = scan.newest
    <3>1. m <= scan.newest /\ scan.newest <= m
      BY <1>1, <2>2 DEF IsNewest, Latest
    <3> QED BY <1>2, <3>1, ItemFacts
  <2>3. Conclude(item, Decision(item, scan.seen))
    BY <1>4, <1>7
  <2> QED
    BY <1>1, <1>2, <1>3, <1>5, <1>6, <2>1, <2>2, <2>3, DecisionType, ConcludeStep
<1>8. CASE ~(answered /\ FullyReleased)
  <2>1. Conclude(item, "airing")
    BY <1>4, <1>8
  <2> QED
    BY <1>1, <1>2, <1>3, <1>5, <1>6, <2>1, ConcludeStep DEF Outcomes
<1> QED
  BY <1>7, <1>8

LEMMA EndStep ==
  ASSUME Inv, SeasonsDone \/ Interrupted
  PROVE  Inv'
<1> USE DEF Inv
<1>1. UNCHANGED <<rule, known, numbered, airs, disk, played, favourites, clock, been,
                  outcome, changes>> /\ calm' \in BOOLEAN
  BY DEF SeasonsDone, Interrupted, rest, library, TypeOK
<1>2. scan' \in Scan /\ scan'.pc = "done" /\ scan'.todo = {} /\ scan'.item = None
      /\ scan'.listed = scan.listed /\ scan'.continuing = scan.continuing
  BY NothingType DEF SeasonsDone, Interrupted, Ended, TypeOK, Scan
<1>3. TypeOK'
  BY <1>1, <1>2 DEF TypeOK
<1>4. Progress' /\ Witnessed' /\ WatchedRead' /\ PlainRead' /\ SeenWasThere'
  BY <1>2 DEF Progress, Early, Witnessed, WatchedRead, Candidates, PlainRead, SeenWasThere
<1>5. MatchWasDue' /\ NewestComplete'
  BY <1>1, <1>2 DEF MatchWasDue, NewestComplete, Matched, IsNewest, Latest
<1> QED
  BY <1>3, <1>4, <1>5
----------------------------------------------------------------------------
(* Theorems.                                                               *)

LEMMA InitInv == Init => Inv
<1> SUFFICES ASSUME Init PROVE Inv
  OBVIOUS
<1>1. scan = Start /\ outcome = [i \in Items |-> "none"] /\ calm = TRUE
      /\ been = [i \in Items |-> {}] /\ changes = 0
  BY DEF Init
<1>2. TypeOK
  <2>1. scan \in Scan /\ scan.item = None /\ scan.pc = "start"
    BY <1>1, NothingType DEF Start, Scan
  <2>2. favourites \in SUBSET Items /\ numbered \in SUBSET Seasons /\ known \in SUBSET Lookups
    BY ItemFacts DEF Init, Markable
  <2>3. outcome \in [Items -> Outcomes] /\ been \in [Items -> SUBSET SUBSET Facts]
    BY <1>1 DEF Outcomes
  <2>4. rule \in [granularity : {"series", "season"}, exemptFavorite : BOOLEAN]
        /\ airs \in BOOLEAN /\ disk \in SUBSET Catalogue /\ played \in [Catalogue -> UserData]
        /\ clock \in 0 .. MaxTime
    BY DEF Init
  <2> QED
    BY <1>1, <2>1, <2>2, <2>3, <2>4, SeriesAssumption DEF TypeOK
<1>3. scan.pc = "start" /\ scan.todo = {} /\ scan.listed = {}
  BY <1>1 DEF Start
<1>4. Progress /\ Witnessed /\ WatchedRead /\ PlainRead /\ SeenWasThere
  BY <1>1, <1>3 DEF Progress, Witnessed, WatchedRead, Candidates, PlainRead, SeenWasThere
<1>5. MatchWasDue /\ NewestComplete
  BY <1>1 DEF MatchWasDue, NewestComplete, Matched
<1> QED
  BY <1>2, <1>4, <1>5 DEF Inv

LEMMA StepInv == Inv /\ [Next]_vars => Inv'
<1> SUFFICES ASSUME Inv, [Next]_vars PROVE Inv'
  OBVIOUS
<1>1. CASE Change
  BY <1>1, ChangeStep
<1>2. CASE ReadShow
  BY <1>2, ReadShowStep
<1>3. CASE ReadSeasons
  BY <1>3, ReadSeasonsStep
<1>4. CASE \E n \in Seasons : ReadSeason(n)
  BY <1>4, ReadSeasonStep
<1>5. CASE SeasonsDone \/ Interrupted
  BY <1>5, EndStep
<1>6. CASE ReadEpisodes
  BY <1>6, ReadEpisodesStep
<1>7. CASE ReadNewest
  BY <1>7, ReadNewestStep
<1>8. CASE ReadDetails
  BY <1>8, ReadDetailsStep
<1>9. CASE UNCHANGED vars
  BY <1>9 DEF vars, library, Inv, TypeOK, Progress, Witnessed, FactsOf, IsPlayed, WatchedRead,
              WasDue, Candidates, PlainRead, SeenWasThere, MatchWasDue, NewestComplete,
              Matched, IsNewest, Latest
<1> QED
  BY <1>1, <1>2, <1>3, <1>4, <1>5, <1>6, <1>7, <1>8, <1>9 DEF Next, Evaluate

THEOREM Invariance == Spec => []Inv
  BY InitInv, StepInv, PTL DEF Spec

\* Every variable of the series rule has its type, and no season is judged
\* twice, for any show, threshold, and number of changes.
THEOREM TypeCorrect == Spec => []TypeOK
<1>1. Inv => TypeOK
  BY DEF Inv
<1> QED
  BY <1>1, Invariance, PTL

\* evaluate matches the newest season of a continuing show only if it was
\* complete at some time of the scan, whatever is downloaded, removed or watched
\* between its calls.
THEOREM NoneStillAiring == Spec => []NewestComplete
<1>1. Inv => NewestComplete
  BY DEF Inv
<1> QED
  BY <1>1, Invariance, PTL

\* What evaluate matches was, at one moment of the scan, fully watched and no
\* favourite, and at one moment its show was no favourite; the two moments may
\* differ.
THEOREM MatchesWereDue == Spec => []MatchWasDue
<1>1. Inv => MatchWasDue
  BY DEF Inv
<1> QED
  BY <1>1, Invariance, PTL
----------------------------------------------------------------------------
(* An undisturbed scan.                                                    *)

\* What evaluate takes for the newest season is the newest with a number.
GateAsRead(i) ==
  airs => \A n \in Seasons : IsNewest(n, Listed) /\ i \in {n, Show} =>
    "tmdb" \in known /\ EpisodesOf(n) \subseteq disk

DueAsRead(i) == LongWatched(i) /\ GateAsRead(i)

CalmScanAsRead ==
  scan.pc = "done" /\ calm =>
    Matched = {i \in (IF rule.granularity = "series" THEN {Show} ELSE Seasons) : DueAsRead(i)}

\* What a scan has read is still so, and what it has decided is right.
ReadIsNow ==
  /\ scan.pc \notin {"start", "done"} =>
       /\ scan.continuing = airs
       /\ Show \in scan.exempt <=> Show \in favourites
  /\ scan.pc \in {"episodes", "newest"} => IsPlayed(Show)
  /\ scan.pc \in {"newest", "details"} => airs /\ scan.seen = ListingOf(scan.item)
  /\ scan.pc \in {"season", "details"} => scan.listed = Listed
  /\ scan.pc = "details" => "tmdb" \in known /\ IsPlayed(scan.item)

SeasonsRight ==
  scan.pc \in {"season", "details"} /\ rule.granularity = "season" =>
    /\ \A n \in scan.todo : IsPlayed(n) /\ (n \in scan.exempt <=> n \in favourites)
    /\ \A n \in Seasons \ scan.todo : outcome[n] = "match" <=> DueAsRead(n)

\* The rule judges what it is about.
OwnItems ==
  IF rule.granularity = "series" THEN \A n \in Seasons : outcome[n] # "match"
                                 ELSE outcome[Show] # "match"

\* Each granularity has its own calls, and the show's mark is read first.
InOrder ==
  /\ scan.pc \in {"seasons", "season"} => rule.granularity = "season"
  /\ scan.pc \in {"episodes", "newest"} => rule.granularity = "series"
  /\ scan.pc = "details" => (rule.granularity = "series" <=> scan.item = Show)
  /\ scan.pc = "seasons" => scan.exempt \subseteq {Show}

CalmInv == InOrder /\ OwnItems /\ (calm => ReadIsNow /\ SeasonsRight /\ CalmScanAsRead)

\* Which of the items of the rule is due does not depend on the scan.
LEMMA DueStays ==
  ASSUME UNCHANGED <<rule, known, numbered, airs, disk, played, favourites, clock>>
  PROVE  /\ Listed' = Listed
         /\ \A i : /\ IsPlayed(i)' = IsPlayed(i)
                   /\ ListingOf(i)' = ListingOf(i)
                   /\ DueAsRead(i)' = DueAsRead(i)
BY Zenon DEF Listed, IsPlayed, ListingOf, DueAsRead, LongWatched, GateAsRead, IsNewest, Latest

\* Nothing is due that is not fully watched or held back by the gate.
LEMMA NotDue ==
  ASSUME NEW i, ~IsPlayed(i) \/ ~GateAsRead(i)
  PROVE  ~DueAsRead(i)
BY DEF DueAsRead, LongWatched, IsPlayed

\* past_threshold, exemption and the look-ups, against the reference.
LEMMA DecisionIsDue ==
  ASSUME TypeOK, NEW i \in Items, IsPlayed(i), GateAsRead(i),
         \A j \in {i, Show} : j \in scan.exempt <=> j \in favourites
  PROVE  Decision(i, ListingOf(i)) = "match" <=> DueAsRead(i)
<1> DEFINE episodes == disk \cap EpisodesOf(i)
<1>1. DOMAIN ListingOf(i) = episodes /\ \A e \in episodes : ListingOf(i)[e] = played[e]
  BY DEF ListingOf
<1>2. \A e \in episodes : /\ played[e] # Never
                          /\ played[e] \in UserData
  BY DEF IsPlayed, TypeOK
<1>3. clock \in Nat /\ Threshold \in Nat
  BY SeriesAssumption DEF TypeOK
<1>4. \A e \in episodes : /\ played[e] >= 0 <=> played[e] # Undated
                          /\ played[e] >= 0 =>
                               (played[e] + Threshold <= clock <=> clock - played[e] >= Threshold)
  <2> SUFFICES ASSUME NEW e \in episodes
               PROVE  /\ played[e] >= 0 <=> played[e] # Undated
                      /\ played[e] >= 0 =>
                           (played[e] + Threshold <= clock <=> clock - played[e] >= Threshold)
    OBVIOUS
  <2>1. played[e] = Undated \/ played[e] \in Nat
    BY <1>2, SeriesAssumption DEF UserData
  <2> QED
    BY <1>3, <2>1 DEF Undated
<1>5. IsPast(ListingOf(i)) <=>
        /\ \E e \in episodes : played[e] # Undated
        /\ \A e \in episodes : played[e] = Undated \/ clock - played[e] >= Threshold
  BY <1>1, <1>4 DEF IsPast
<1>6. IsExempt(i) <=> rule.exemptFavorite /\ favourites \cap {i, Show} # {}
  BY DEF IsExempt
<1>7. Decision(i, ListingOf(i)) = "match" <=>
        IsPast(ListingOf(i)) /\ ~IsExempt(i) /\ "tvdb" \in known /\ "sonarr" \in known
  BY DEF Decision
<1>8. rule.exemptFavorite \in BOOLEAN
  BY DEF TypeOK
<1> HIDE DEF episodes
<1>9. DueAsRead(i) <=>
        /\ \A e \in episodes : played[e] = Undated \/ clock - played[e] >= Threshold
        /\ \E e \in episodes : played[e] # Undated
        /\ ~(rule.exemptFavorite /\ favourites \cap {i, Show} # {})
        /\ "tvdb" \in known /\ "sonarr" \in known
  BY <1>2, <1>8 DEF DueAsRead, LongWatched, episodes
<1> QED
  BY <1>5, <1>6, <1>7, <1>9

\* The comparison of the two numbers is the inclusion.
LEMMA ReleasedIsComplete ==
  ASSUME TypeOK, scan.newest \in Seasons
  PROVE  FullyReleased <=> EpisodesOf(scan.newest) \subseteq DOMAIN scan.seen
<1> DEFINE all == EpisodesOf(scan.newest)
<1>1. all \subseteq Catalogue /\ \A e \in all : SeasonOf[e] = scan.newest
  BY ItemFacts DEF EpisodesOf
<1>2. Cardinality(all) \in Nat
  BY <1>1, FS_Subset, FS_CardinalityType, SeriesAssumption
<1>3. ASSUME all \subseteq DOMAIN scan.seen PROVE FullyReleased
  <2>1. DOMAIN scan.seen \subseteq Catalogue
    BY DEF TypeOK, Scan, Listing
  <2>2. Available = all
    BY <1>1, <1>3, <2>1, ItemFacts DEF Available, EpisodesOf
  <2> QED
    BY <1>2, <2>2 DEF FullyReleased
<1> QED
  BY <1>3, AllThere

\* An item judged rightly.
LEMMA CalmConclude ==
  ASSUME Inv, CalmInv, NEW i \in Items, NEW result \in Outcomes,
         scan.pc \in {"season", "episodes", "newest", "details"},
         IF rule.granularity = "series" THEN i = Show ELSE i \in scan.todo /\ i # Show,
         calm' => calm /\ (result = "match" <=> DueAsRead(i)),
         Conclude(i, result), UNCHANGED rest
  PROVE  CalmInv'
<1>1. UNCHANGED <<rule, known, numbered, airs, disk, played, favourites, clock>>
  BY DEF rest, library
<1>2. /\ TypeOK /\ outcome' = [outcome EXCEPT ![i] = result]
      /\ outcome \in [Items -> Outcomes] /\ scan \in Scan
  BY DEF Inv, TypeOK, Conclude
<1>3. outcome'[i] = result /\ \A j \in Items : j # i => outcome'[j] = outcome[j]
  BY <1>2
<1>4. OwnItems'
  BY <1>1, <1>3, ItemFacts DEF OwnItems, CalmInv
<1>5. InOrder'
  <2>1. i # Show => rule.granularity = "season"
    BY <1>2 DEF Inv, TypeOK
  <2> QED
    BY <1>1, <1>2, <2>1 DEF InOrder, Conclude, Judged, Ended, Scan
<1>6. ASSUME calm'
      PROVE  (ReadIsNow /\ SeasonsRight /\ CalmScanAsRead)'
  <2>1. calm /\ ReadIsNow /\ SeasonsRight /\ (result = "match" <=> DueAsRead(i))
    BY <1>6 DEF CalmInv
  <2>2. CASE rule.granularity = "series"
    <3>1. i = Show /\ scan'.pc = "done"
      BY <1>2, <2>2 DEF Conclude, Judged, Ended, Scan
    <3>2. Matched' = {j \in {Show} : DueAsRead(j)}
      BY <1>1, <1>3, <1>4, <2>1, <2>2, <3>1, ItemFacts DEF Matched, OwnItems
    <3>3. Matched' = {j \in {Show} : DueAsRead(j)'}
      BY <1>1, <3>2, DueStays
    <3> QED
      BY <1>1, <2>2, <3>1, <3>3 DEF ReadIsNow, SeasonsRight, CalmScanAsRead
  <2>3. CASE rule.granularity # "series"
    <3>1. /\ i # Show /\ i \in scan.todo
          /\ scan' = [scan EXCEPT !.pc = "season", !.todo = @ \ {i}, !.item = None,
                                  !.seen = Nothing, !.newest = None]
      BY <2>3 DEF Conclude, Judged
    <3>2. /\ scan'.pc = "season" /\ scan'.todo = scan.todo \ {i} /\ scan'.exempt = scan.exempt
          /\ scan'.continuing = scan.continuing /\ scan'.listed = scan.listed
      BY <1>2, <3>1 DEF Scan
    <3>3. rule.granularity = "season" /\ scan.pc \in {"season", "details"}
      BY <1>2, <2>3 DEF TypeOK, CalmInv, InOrder
    <3>4. ReadIsNow'
      BY <1>1, <2>1, <3>2, <3>3, DueStays DEF ReadIsNow
    <3>5. \A n \in Seasons \ scan'.todo : outcome'[n] = "match" <=> DueAsRead(n)
      BY <1>3, <2>1, <3>2, <3>3, ItemFacts DEF SeasonsRight
    <3>6. \A n \in Seasons \ scan'.todo : outcome'[n] = "match" <=> DueAsRead(n)'
      BY <1>1, <3>5, DueStays
    <3>7. SeasonsRight'
      BY <1>1, <2>1, <3>2, <3>3, <3>6, DueStays DEF SeasonsRight
    <3> QED
      BY <3>2, <3>4, <3>7 DEF CalmScanAsRead
  <2> QED
    BY <2>2, <2>3
<1> QED
  BY <1>4, <1>5, <1>6 DEF CalmInv

\* A reading after which more is to be read.
LEMMA CalmReading ==
  ASSUME Inv, CalmInv, ReadShow \/ ReadSeasons
  PROVE  CalmInv'
<1>1. /\ UNCHANGED <<rule, known, numbered, airs, disk, played, favourites, clock, outcome, calm>>
      /\ TypeOK /\ scan \in Scan /\ \A i \in Items : outcome[i] = "none"
  BY DEF ReadShow, ReadSeasons, rest, library, Inv, TypeOK, Progress, Early
<1>2. OwnItems'
  BY <1>1, ItemFacts DEF OwnItems
<1>3. Matched' = {}
  BY <1>1 DEF Matched
<1>4. InOrder'
  <2>1. rule.granularity \in {"series", "season"}
    BY <1>1 DEF TypeOK
  <2>2. CASE ReadShow
    <3>1. scan'.exempt = favourites \cap {Show} /\ scan'.pc \in {"seasons", "episodes", "done"}
          /\ (scan'.pc = "seasons" <=> rule.granularity = "season")
      BY <1>1, <2>2 DEF ReadShow, Scan
    <3> QED
      BY <1>1, <2>1, <3>1 DEF InOrder
  <2>3. CASE ReadSeasons
    <3>1. scan'.pc = "season" /\ scan.pc = "seasons"
      BY <1>1, <2>3 DEF ReadSeasons, Scan
    <3> QED
      BY <1>1, <3>1 DEF InOrder, CalmInv
  <2> QED
    BY <2>2, <2>3
<1>5. ASSUME calm, ReadShow
      PROVE  (ReadIsNow /\ SeasonsRight /\ CalmScanAsRead)'
  <2>1. /\ scan'.continuing = airs /\ scan'.exempt = favourites \cap {Show}
        /\ scan'.pc = IF rule.granularity = "season" THEN "seasons"
                      ELSE IF IsPlayed(Show) THEN "episodes" ELSE "done"
    BY <1>1, <1>5 DEF ReadShow, Scan
  <2>2. ReadIsNow' /\ SeasonsRight'
    BY <1>1, <2>1, DueStays DEF ReadIsNow, SeasonsRight, TypeOK
  <2>3. scan'.pc = "done" => rule.granularity = "series" /\ ~DueAsRead(Show)
    BY <1>1, <2>1, NotDue DEF TypeOK
  <2>4. CalmScanAsRead'
    BY <1>1, <1>3, <2>3, DueStays DEF CalmScanAsRead
  <2> QED
    BY <2>2, <2>4
<1>6. ASSUME calm, ReadSeasons
      PROVE  (ReadIsNow /\ SeasonsRight /\ CalmScanAsRead)'
  <2>1. /\ scan'.continuing = scan.continuing /\ scan'.listed = Listed
        /\ scan'.todo = {n \in Listed : IsPlayed(n)}
        /\ scan'.exempt = scan.exempt \cup (favourites \cap Listed)
        /\ scan'.pc = "season" /\ scan.pc = "seasons"
    BY <1>1, <1>6 DEF ReadSeasons, Scan
  <2>2. ReadIsNow /\ rule.granularity = "season"
    BY <1>6, <2>1 DEF CalmInv, InOrder
  <2>3. Listed \subseteq Seasons
    BY <1>1 DEF Listed, Seasons, TypeOK
  <2>4. scan.exempt \subseteq {Show}
    BY <2>1 DEF CalmInv, InOrder
  <2>5. ReadIsNow'
    BY <1>1, <2>1, <2>2, <2>3, ItemFacts, DueStays DEF ReadIsNow
  <2>6. ASSUME NEW n \in Seasons \ scan'.todo
        PROVE  ~DueAsRead(n)
    <3>1. n \notin Listed => disk \cap EpisodesOf(n) = {}
      BY ItemFacts DEF Listed, EpisodesOf
    <3> QED
      BY <2>1, <2>6, <3>1, NotDue DEF IsPlayed
  <2>7. SeasonsRight'
    BY <1>1, <2>1, <2>3, <2>4, <2>6, ItemFacts, DueStays DEF SeasonsRight
  <2> QED
    BY <2>1, <2>5, <2>7 DEF CalmScanAsRead
<1> QED
  BY <1>1, <1>2, <1>4, <1>5, <1>6 DEF CalmInv

LEMMA CalmSeason ==
  ASSUME Inv, CalmInv, NEW n \in Seasons, ReadSeason(n)
  PROVE  CalmInv'
<1> DEFINE gated == scan.continuing /\ IsNewest(n, scan.listed)
<1>1. /\ UNCHANGED rest /\ calm' = calm /\ scan.pc = "season" /\ n \in scan.todo
      /\ TypeOK /\ scan \in Scan /\ n \in Items /\ n # Show
  BY ItemFacts DEF ReadSeason, Inv, TypeOK
<1>2. UNCHANGED <<rule, known, numbered, airs, disk, played, favourites, clock>>
  BY <1>1 DEF rest, library
<1>3. calm => /\ rule.granularity = "season" /\ scan.continuing = airs /\ scan.listed = Listed
              /\ IsPlayed(n) /\ \A j \in {n, Show} : j \in scan.exempt <=> j \in favourites
  BY <1>1 DEF CalmInv, InOrder, ReadIsNow, SeasonsRight
<1>4. CASE rule.granularity = "series"
  BY <1>1, <1>4 DEF CalmInv, InOrder
<1>5. CASE rule.granularity = "season" /\ ~gated /\ Conclude(n, Decision(n, ListingOf(n)))
  <2>1. calm => GateAsRead(n)
    BY <1>1, <1>3, <1>5 DEF GateAsRead
  <2>2. calm => (Decision(n, ListingOf(n)) = "match" <=> DueAsRead(n))
    BY <1>1, <1>3, <2>1, DecisionIsDue
  <2> QED
    BY <1>1, <1>5, <2>2, DecisionType, CalmConclude
<1>6. CASE rule.granularity = "season" /\ gated /\ "tmdb" \notin known /\ Conclude(n, "airing")
  <2>1. calm => ~GateAsRead(n)
    BY <1>3, <1>6 DEF GateAsRead
  <2>2. calm => ("airing" = "match" <=> DueAsRead(n))
    BY <2>1, NotDue
  <2> QED
    BY <1>1, <1>6, <2>2, CalmConclude DEF Outcomes
<1>7. CASE /\ rule.granularity = "season" /\ gated /\ "tmdb" \in known /\ UNCHANGED outcome
           /\ scan' = [scan EXCEPT !.pc = "details", !.item = n, !.seen = ListingOf(n), !.newest = n]
  <2>1. /\ scan'.pc = "details" /\ scan'.item = n /\ scan'.seen = ListingOf(n)
        /\ scan'.continuing = scan.continuing /\ scan'.exempt = scan.exempt
        /\ scan'.todo = scan.todo /\ scan'.listed = scan.listed
    BY <1>1, <1>7 DEF Scan
  <2>2. calm => ReadIsNow'
    BY <1>1, <1>2, <1>3, <1>7, <2>1, DueStays DEF CalmInv, ReadIsNow
  <2>3. calm => SeasonsRight'
    BY <1>1, <1>2, <1>7, <2>1, DueStays DEF CalmInv, SeasonsRight
  <2> QED
    BY <1>1, <1>2, <1>7, <2>1, <2>2, <2>3 DEF CalmInv, InOrder, OwnItems, CalmScanAsRead
<1>8. rule.granularity \in {"series", "season"}
  BY <1>1 DEF TypeOK
<1> QED
  BY <1>4, <1>5, <1>6, <1>7, <1>8 DEF ReadSeason

LEMMA CalmEpisodes ==
  ASSUME Inv, CalmInv, ReadEpisodes
  PROVE  CalmInv'
<1> DEFINE seen == ListingOf(Show)
<1>1. /\ UNCHANGED rest /\ calm' = calm /\ scan.pc = "episodes"
      /\ TypeOK /\ scan \in Scan /\ Show \in Items /\ rule.granularity = "series"
  BY ItemFacts DEF ReadEpisodes, Inv, TypeOK, CalmInv, InOrder
<1>2. UNCHANGED <<rule, known, numbered, airs, disk, played, favourites, clock>>
  BY <1>1 DEF rest, library
<1>3. calm => /\ scan.continuing = airs /\ IsPlayed(Show)
              /\ Show \in scan.exempt <=> Show \in favourites
  BY <1>1 DEF CalmInv, ReadIsNow
<1>4. CASE ~scan.continuing /\ Conclude(Show, Decision(Show, seen))
  <2>1. calm => GateAsRead(Show)
    BY <1>3, <1>4 DEF GateAsRead
  <2>2. calm => (Decision(Show, seen) = "match" <=> DueAsRead(Show))
    BY <1>1, <1>3, <2>1, DecisionIsDue
  <2> QED
    BY <1>1, <1>4, <2>2, DecisionType, CalmConclude
<1>5. CASE /\ scan.continuing /\ UNCHANGED outcome
           /\ scan' = [scan EXCEPT !.pc = "newest", !.item = Show, !.seen = seen]
  <2>1. /\ scan'.pc = "newest" /\ scan'.item = Show /\ scan'.seen = seen
        /\ scan'.continuing = scan.continuing /\ scan'.exempt = scan.exempt
    BY <1>1, <1>5 DEF Scan
  <2>2. calm => ReadIsNow'
    BY <1>1, <1>2, <1>3, <1>5, <2>1, DueStays DEF CalmInv, ReadIsNow
  <2> QED
    BY <1>1, <1>2, <1>5, <2>1, <2>2 DEF CalmInv, InOrder, OwnItems, SeasonsRight, CalmScanAsRead
<1> QED
  BY <1>4, <1>5 DEF ReadEpisodes

LEMMA CalmNewest ==
  ASSUME Inv, CalmInv, ReadNewest
  PROVE  CalmInv'
<1>1. /\ UNCHANGED rest /\ calm' = calm /\ scan.pc = "newest" /\ scan.item = Show
      /\ TypeOK /\ scan \in Scan /\ Show \in Items /\ rule.granularity = "series"
  BY ItemFacts DEF ReadNewest, Inv, TypeOK, CalmInv, InOrder, Progress
<1>2. UNCHANGED <<rule, known, numbered, airs, disk, played, favourites, clock>>
  BY <1>1 DEF rest, library
<1>3. calm => /\ scan.continuing = airs /\ airs /\ IsPlayed(Show) /\ scan.seen = ListingOf(Show)
              /\ Show \in scan.exempt <=> Show \in favourites
  BY <1>1 DEF CalmInv, ReadIsNow
<1>4. CASE Listed \cap numbered = {} /\ Conclude(Show, Decision(Show, scan.seen))
  <2>1. calm => GateAsRead(Show)
    BY <1>3, <1>4 DEF GateAsRead, IsNewest, Latest
  <2>2. calm => (Decision(Show, scan.seen) = "match" <=> DueAsRead(Show))
    BY <1>1, <1>3, <2>1, DecisionIsDue
  <2> QED
    BY <1>1, <1>4, <2>2, DecisionType, CalmConclude
<1>5. ASSUME NEW n \in Listed, IsNewest(n, Listed), "tmdb" \notin known, Conclude(Show, "airing")
      PROVE  CalmInv'
  <2>1. n \in Seasons
    BY <1>1 DEF Listed, Seasons, TypeOK
  <2>2. calm => ~GateAsRead(Show)
    BY <1>3, <1>5, <2>1 DEF GateAsRead
  <2>3. calm => ("airing" = "match" <=> DueAsRead(Show))
    BY <2>2, NotDue
  <2> QED
    BY <1>1, <1>5, <2>3, CalmConclude DEF Outcomes
<1>6. ASSUME NEW n \in Listed, IsNewest(n, Listed), "tmdb" \in known, UNCHANGED outcome,
             scan' = [scan EXCEPT !.pc = "details", !.listed = Listed, !.newest = n]
      PROVE  CalmInv'
  <2>1. /\ scan'.pc = "details" /\ scan'.item = Show /\ scan'.seen = scan.seen
        /\ scan'.continuing = scan.continuing /\ scan'.exempt = scan.exempt
        /\ scan'.listed = Listed
    BY <1>1, <1>6 DEF Scan
  <2>2. calm => ReadIsNow'
    BY <1>1, <1>2, <1>3, <1>6, <2>1, DueStays DEF CalmInv, ReadIsNow
  <2> QED
    BY <1>1, <1>2, <1>6, <2>1, <2>2 DEF CalmInv, InOrder, OwnItems, SeasonsRight, CalmScanAsRead
<1> QED
  BY <1>4, <1>5, <1>6 DEF ReadNewest

LEMMA CalmDetails ==
  ASSUME Inv, CalmInv, ReadDetails
  PROVE  CalmInv'
<1> DEFINE item == scan.item
<1>1. /\ UNCHANGED rest /\ scan.pc = "details" /\ TypeOK /\ scan \in Scan
      /\ IsNewest(scan.newest, scan.listed) /\ scan.newest \in Seasons
      /\ item = Show \/ (item = scan.newest /\ item \in scan.todo)
  BY DEF ReadDetails, Inv, TypeOK, Progress, Scan, IsNewest, Latest
<1>2. /\ item \in Items
      /\ IF rule.granularity = "series" THEN item = Show ELSE item \in scan.todo /\ item # Show
  BY <1>1, ItemFacts DEF CalmInv, InOrder, Scan
<1>3. PICK answered \in BOOLEAN :
        /\ calm' = (calm /\ answered)
        /\ Conclude(item, IF answered /\ FullyReleased THEN Decision(item, scan.seen) ELSE "airing")
  BY DEF ReadDetails
<1>4. calm => /\ airs /\ scan.listed = Listed /\ scan.seen = ListingOf(item)
              /\ "tmdb" \in known /\ IsPlayed(item)
              /\ \A j \in {item, Show} : j \in scan.exempt <=> j \in favourites
  BY <1>1, <1>2 DEF CalmInv, ReadIsNow, SeasonsRight, InOrder, TypeOK
<1>5. calm => (FullyReleased <=> GateAsRead(item))
  <2> SUFFICES ASSUME calm PROVE FullyReleased <=> GateAsRead(item)
    OBVIOUS
  <2>1. DOMAIN scan.seen = disk \cap EpisodesOf(item)
    BY <1>1, <1>2, <1>4, ListingType
  <2>2. EpisodesOf(scan.newest) \subseteq EpisodesOf(item)
    BY <1>1 DEF EpisodesOf
  <2>3. FullyReleased <=> EpisodesOf(scan.newest) \subseteq disk
    BY <1>1, <2>1, <2>2, ReleasedIsComplete
  <2>4. ASSUME NEW m \in Seasons, IsNewest(m, Listed) PROVE m = scan.newest
    <3>1. m <= scan.newest /\ scan.newest <= m
      BY <1>1, <1>4, <2>4 DEF IsNewest, Latest
    <3> QED BY <1>1, <3>1, ItemFacts
  <2>5. GateAsRead(item) <=> EpisodesOf(scan.newest) \subseteq disk
    BY <1>1, <1>4, <2>4 DEF GateAsRead
  <2> QED
    BY <2>3, <2>5
<1>6. CASE answered /\ FullyReleased
  <2>1. Conclude(item, Decision(item, scan.seen))
    BY <1>3, <1>6
  <2>2. calm => (Decision(item, scan.seen) = "match" <=> DueAsRead(item))
    BY <1>1, <1>2, <1>4, <1>5, <1>6, DecisionIsDue
  <2> QED
    BY <1>1, <1>2, <1>3, <2>1, <2>2, DecisionType, CalmConclude
<1>7. CASE ~(answered /\ FullyReleased)
  <2>1. Conclude(item, "airing")
    BY <1>3, <1>7
  <2>2. calm' => calm /\ ("airing" = "match" <=> DueAsRead(item))
    BY <1>3, <1>5, <1>7, NotDue
  <2> QED
    BY <1>1, <1>2, <2>1, <2>2, CalmConclude DEF Outcomes
<1> QED
  BY <1>6, <1>7

LEMMA CalmEnd ==
  ASSUME Inv, CalmInv, SeasonsDone
  PROVE  CalmInv'
<1>1. /\ UNCHANGED rest /\ UNCHANGED <<outcome, calm>> /\ scan.pc = "season" /\ scan.todo = {}
      /\ scan'.pc = "done" /\ TypeOK /\ rule.granularity = "season"
  BY DEF SeasonsDone, Inv, CalmInv, InOrder, TypeOK, Scan, Ended
<1>2. UNCHANGED <<rule, known, numbered, airs, disk, played, favourites, clock>>
  BY <1>1 DEF rest, library
<1>3. calm => Matched' = {n \in Seasons : DueAsRead(n)}
  BY <1>1, <1>2, ItemFacts DEF CalmInv, SeasonsRight, OwnItems, Matched
<1>4. calm => CalmScanAsRead'
  BY <1>1, <1>2, <1>3, DueStays DEF CalmScanAsRead
<1> QED
  BY <1>1, <1>2, <1>4 DEF CalmInv, InOrder, OwnItems, ReadIsNow, SeasonsRight

LEMMA CalmStep == Inv /\ CalmInv /\ [Next]_vars => CalmInv'
<1> SUFFICES ASSUME Inv, CalmInv, [Next]_vars PROVE CalmInv'
  OBVIOUS
<1>1. CASE Change \/ Interrupted
  BY <1>1 DEF Change, Interrupted, Ended, Inv, TypeOK, Scan, rest, CalmInv, InOrder, OwnItems
<1>2. CASE ReadShow \/ ReadSeasons
  BY <1>2, CalmReading
<1>3. CASE \E n \in Seasons : ReadSeason(n)
  BY <1>3, CalmSeason
<1>4. CASE ReadEpisodes
  BY <1>4, CalmEpisodes
<1>5. CASE ReadNewest
  BY <1>5, CalmNewest
<1>6. CASE ReadDetails
  BY <1>6, CalmDetails
<1>7. CASE SeasonsDone
  BY <1>7, CalmEnd
<1>8. CASE UNCHANGED vars
  <2>1. UNCHANGED <<rule, known, numbered, airs, disk, played, favourites, clock,
                    scan, outcome, calm>>
    BY <1>8 DEF vars, library
  <2> QED
    BY <2>1, DueStays DEF CalmInv, InOrder, OwnItems, ReadIsNow, SeasonsRight, CalmScanAsRead, Matched
<1> QED
  BY <1>1, <1>2, <1>3, <1>4, <1>5, <1>6, <1>7, <1>8 DEF Next, Evaluate

\* If the newest season has a number, it is the newest with a number.
LEMMA NewestAsRead ==
  ASSUME TypeOK, NewestNumbered, NEW n
  PROVE  IsNewest(n, Listed) <=> Latest(n, Listed)
<1>1. Listed \subseteq Nat
  BY ItemFacts DEF Listed, Seasons, TypeOK
<1>2. ASSUME IsNewest(n, Listed), NEW m \in Listed PROVE m <= n
  <2>1. n \in Listed /\ \A k \in Listed \cap numbered : k <= n
    BY <1>2 DEF IsNewest, Latest
  <2>2. CASE m \in numbered
    BY <2>1, <2>2
  <2>3. CASE m \notin numbered
    <3>1. PICK k \in Listed \cap numbered : m < k
      BY <2>3 DEF NewestNumbered
    <3> QED
      BY <1>1, <2>1, <3>1
  <2> QED
    BY <2>2, <2>3
<1>3. ASSUME Latest(n, Listed) PROVE n \in numbered
  <2>1. n \in Listed /\ \A m \in Listed : m <= n
    BY <1>3 DEF Latest
  <2>2. ASSUME n \notin numbered PROVE FALSE
    <3>1. PICK k \in Listed \cap numbered : n < k
      BY <2>1, <2>2 DEF NewestNumbered
    <3> QED
      BY <1>1, <2>1, <3>1
  <2> QED
    BY <2>2
<1> QED
  BY <1>2, <1>3 DEF IsNewest, Latest

LEMMA GateIsDocumented ==
  ASSUME TypeOK, NewestNumbered, NEW i
  PROVE  GateAsRead(i) <=> GateOpen(i)
<1>1. Listed \subseteq Seasons
  BY DEF Listed, Seasons, TypeOK
<1>2. \A n \in Seasons : IsNewest(n, Listed) <=> Latest(n, Listed)
  BY NewestAsRead
<1>3. \A n : Latest(n, Listed) => n \in Listed
  BY DEF Latest
<1> QED
  BY <1>1, <1>2, <1>3 DEF GateAsRead, GateOpen

\* An undisturbed scan of any show matches exactly what the documentation calls
\* due if the newest season has a number, and nothing but what was watched for
\* long enough in any case.
THEOREM CalmIsExact == Spec => []CalmScanIsExact
<1>1. Init => CalmInv
  BY ItemFacts DEF Init, Start, CalmInv, InOrder, OwnItems, ReadIsNow, SeasonsRight, CalmScanAsRead
<1>2. Inv /\ CalmInv => CalmScanIsExact
  <2> SUFFICES ASSUME TypeOK, CalmScanAsRead, scan.pc = "done", calm
               PROVE  /\ \A i \in Matched : LongWatched(i)
                      /\ NewestNumbered => Matched =
                           {i \in (IF rule.granularity = "series" THEN {Show} ELSE Seasons) : DueNow(i)}
    BY DEF Inv, CalmInv, CalmScanIsExact
  <2> DEFINE own == IF rule.granularity = "series" THEN {Show} ELSE Seasons
  <2>1. Matched = {i \in own : DueAsRead(i)}
    BY DEF CalmScanAsRead
  <2>2. NewestNumbered => \A i \in own : DueAsRead(i) <=> DueNow(i)
    BY GateIsDocumented DEF DueAsRead, DueNow
  <2> HIDE DEF own
  <2>3. \A i \in Matched : LongWatched(i)
    BY <2>1 DEF DueAsRead
  <2>4. NewestNumbered => Matched = {i \in own : DueNow(i)}
    BY <2>1, <2>2
  <2> QED
    BY <2>3, <2>4 DEF own
<1> QED
  BY <1>1, <1>2, CalmStep, Invariance, PTL DEF Spec
=============================================================================
