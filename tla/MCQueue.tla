------------------------------- MODULE MCQueue -------------------------------
(* The instance of Queue for TLC. *)
EXTENDS Queue

CONSTANTS j1, j2, w1, w2, s1, s2

TwoJobs  == {j1, j2}
TwoNames == [j \in TwoJobs |-> IF j = j1 THEN "mail" ELSE "report"]
=============================================================================
