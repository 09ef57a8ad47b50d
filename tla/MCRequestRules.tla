--------------------------- MODULE MCRequestRules ---------------------------
(* A film and a show that share a TMDB number, each requested.             *)
EXTENDS RequestRules, TLC

CONSTANTS film, show, r1, r2

MCTmdb       == (film :> 1) @@ (show :> 1)
MCSubject    == (r1 :> film) @@ (r2 :> show)
MCMaxChanges == [watched |-> 2, stale |-> 1]
=============================================================================
