--------------------------- MODULE MCPreviewCache ---------------------------
(* Two loads that may overlap, two rules; a TTL of two ticks.              *)
EXTENDS PreviewCache, TLC

PreviewSymmetry == Permutations(Loads) \cup Permutations(Rules)
=============================================================================
