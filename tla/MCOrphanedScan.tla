--------------------------- MODULE MCOrphanedScan ---------------------------
(* A film and two episodes of one series; the daily and a manual scan.     *)
EXTENDS OrphanedScan, TLC

CONSTANTS film, ep1, ep2

MCLibraryOf == (film :> "movies") @@ (ep1 :> "tv") @@ (ep2 :> "tv")
MCSource    == (film :> "radarr") @@ (ep1 :> "series") @@ (ep2 :> "series")
=============================================================================
