---------------------------- MODULE MCRuleScan ----------------------------
(* Two rules, one for films and one for series, for model checking.        *)
EXTENDS HistoryRefinement, TLC

CONSTANTS films, shows, report

\* The services each handler asks for; Jellyfin, which both need, is left out.
MCNeeds == (films :> {"seerr", "radarr"}) @@ (shows :> {"seerr", "sonarr"})
           @@ (report :> {})
MCSymmetry == Permutations(Items) \cup Permutations(RunIds)
=============================================================================
