------------------------- MODULE MCDeletionQueue -------------------------
(* Instances of DeletionQueue for TLC.                                     *)
EXTENDS DeletionRefinement, TLC

CONSTANTS film, season, special, request

\* A film of Radarr; anything else is a season of Sonarr.
MCKind == [m \in Media |-> IF m = film THEN "movie" ELSE "season"]

\* Both have the one request of the show.
MCRequestOf == [m \in Media |-> request]

\* A season that Jellyfin gives no number.
MCUnnumbered == Media \cap {special}

RowSymmetry == Permutations(Ids)
==========================================================================
