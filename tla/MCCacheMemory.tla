---------------------------- MODULE MCCacheMemory ----------------------------
(* Instances of CacheMemory for TLC. *)
EXTENDS CacheMemory, TLC

CONSTANTS k1, k2, k3, k4, c1, c2

Interchangeable == Permutations({k1, k2, k3}) \cup Permutations({c1, c2})
=============================================================================
