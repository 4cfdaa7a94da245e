------------------------------ MODULE JobLedger ------------------------------
(***************************************************************************)
(* What an in-process queue promises about the jobs handed to it, with no  *)
(* channel, lock, worker or retry in sight.  A job is offered once; it is  *)
(* refused or it waits; a waiting job is run by one worker and ends in one *)
(* fate, for good.  Queue.tla is shown to implement this ledger.           *)
(***************************************************************************)
EXTENDS Naturals, FiniteSets

CONSTANTS Jobs,    (* the submissions                             *)
          Depth,   (* how many jobs may wait                      *)
          Slots    (* how many jobs may run at once               *)

VARIABLES ledger,  (* ledger[j]: where submission j stands        *)
          phase,   (* "open", then "closing", then "closed"       *)
          clean    (* a shutdown has been reported as clean       *)

vars == <<ledger, phase, clean>>

Fates == {"processed", "failed", "abandoned"}
At(place) == {j \in Jobs : ledger[j] = place}

Init ==
  /\ ledger = [j \in Jobs |-> "offered"]
  /\ phase = "open"
  /\ clean = FALSE

Move(j, place) ==
  /\ ledger' = [ledger EXCEPT ![j] = place]
  /\ UNCHANGED <<phase, clean>>

Refuse(j) == ledger[j] = "offered" /\ Move(j, "refused")

\* Work is accepted until the queue is closed, while there is room to wait.
Accept(j) ==
  /\ ledger[j] = "offered"
  /\ phase # "closed"
  /\ Cardinality(At("waiting")) < Depth
  /\ Move(j, "waiting")

Take(j) ==
  /\ ledger[j] = "waiting"
  /\ Cardinality(At("running")) < Slots
  /\ Move(j, "running")

\* A job that ran succeeds or fails.  A job no handler exists for fails unrun.
Settle(j, fate) ==
  /\ \/ ledger[j] = "running"
     \/ ledger[j] = "waiting" /\ fate = "failed"
  /\ fate = "abandoned" => phase # "open"
  /\ Move(j, fate)

Advance ==
  /\ \/ phase = "open" /\ phase' = "closing"
     \/ phase = "closing" /\ phase' = "closed"
  /\ UNCHANGED <<ledger, clean>>

\* Nothing accepted may be unresolved when a shutdown is reported clean.
ReportClean ==
  /\ phase = "closed"
  /\ At("waiting") = {} /\ At("running") = {}
  /\ clean' = TRUE
  /\ UNCHANGED <<ledger, phase>>

Next ==
  \/ \E j \in Jobs : Refuse(j) \/ Accept(j) \/ Take(j)
  \/ \E j \in Jobs, fate \in Fates : Settle(j, fate)
  \/ Advance
  \/ ReportClean

Spec == Init /\ [][Next]_vars
=============================================================================
