---------------------------- MODULE MCSeriesRule ----------------------------
(* A show with two seasons, the second of two episodes, for model checking. *)
EXTENDS SeriesRule, TLC

CONSTANTS s1e1, s2e1, s2e2

MCSeasonOf == (s1e1 :> 1) @@ (s2e1 :> 2) @@ (s2e2 :> 2)

\* Episodes of one season are interchangeable.
Symmetry == Permutations({s2e1, s2e2})
=============================================================================
