-------------------------------- MODULE Store --------------------------------
(***************************************************************************)
(* What a cache store that can also add (cache.Store and cache.Adder,      *)
(* src/cache/store.go) promises its callers: one value per key, which      *)
(* disappears when it is deleted, when its lifetime ends, or, in a store   *)
(* that evicts, at any moment.  Each call takes effect at one instant.     *)
(* Values are abstracted: a key is free, or taken for a lease or for good. *)
(***************************************************************************)
CONSTANTS Keys,      (* cache keys                                       *)
          Callers,   (* goroutines that call the store                   *)
          Evicting   (* the store may drop a live value to keep a bound  *)

VARIABLES store,     (* store[k]: what key k holds                       *)
          answer     (* answer[c]: what the last Get or Add told c of    *)
                     (* which key                                        *)

vars == <<store, answer>>

Lives    == {"forever", "leased"}
NoAnswer == [was |-> "none"]
Answers  == {NoAnswer} \cup [key : Keys, was : {"hit", "miss", "stored", "taken"}]

Init ==
  /\ store = [k \in Keys |-> "free"]
  /\ answer = [c \in Callers |-> NoAnswer]

Tell(c, k, a) == answer' = [answer EXCEPT ![c] = [key |-> k, was |-> a]]

Get(c, k) ==
  /\ Tell(c, k, IF store[k] = "free" THEN "miss" ELSE "hit")
  /\ UNCHANGED store

Set(k, life) == store' = [store EXCEPT ![k] = life] /\ UNCHANGED answer

\* The check and the write are one step.
Add(c, k, life) ==
  \/ store[k] # "free" /\ Tell(c, k, "taken") /\ UNCHANGED store
  \/ store[k] = "free" /\ Tell(c, k, "stored") /\ store' = [store EXCEPT ![k] = life]

Free(k) == store' = [store EXCEPT ![k] = "free"] /\ UNCHANGED answer

Delete(k) == Free(k)
Expire(k) == store[k] = "leased" /\ Free(k)
Evict(k)  == Evicting /\ Free(k)

Next ==
  \/ \E c \in Callers, k \in Keys : Get(c, k)
  \/ \E k \in Keys, life \in Lives : Set(k, life)
  \/ \E c \in Callers, k \in Keys, life \in Lives : Add(c, k, life)
  \/ \E k \in Keys : Delete(k) \/ Expire(k) \/ Evict(k)

Spec == Init /\ [][Next]_vars
=============================================================================
