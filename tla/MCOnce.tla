------------------------------- MODULE MCOnce --------------------------------
(* Instances of Once for TLC. *)
EXTENDS Once, TLC

CONSTANTS k1, k2, c1, c2, c3

Interchangeable == Permutations({k1, k2}) \cup Permutations({c1, c2, c3})
=============================================================================
