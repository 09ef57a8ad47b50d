------------------------------- MODULE MCAuth -------------------------------
(* Requests, sessions, credentials and secrets are interchangeable.        *)
EXTENDS AuthRefinement, TLC

Symmetry == Permutations(Requests) \cup Permutations(Tokens)
              \cup Permutations(Credentials) \cup Permutations(Secrets)
=============================================================================
