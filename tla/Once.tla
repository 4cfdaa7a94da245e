-------------------------------- MODULE Once ---------------------------------
(***************************************************************************)
(* Claim and Once, src/cache/store.go, over the contract of a store that   *)
(* can add (Store.tla, which the in-memory driver implements): callers     *)
(* that take a key with a lease, run work, and release the key when the    *)
(* work fails.                                                             *)
(*                                                                         *)
(* Calls with invalid arguments or a store without Add return an error and *)
(* change nothing.  The work may return, fail, panic, or outlive its lease.*)
(***************************************************************************)
CONSTANTS Keys, Callers, Evicting,
          Nil   (* no caller, no key *)

ASSUME OnceAssumption == Nil \notin Callers /\ Nil \notin Keys

VARIABLES
  store, answer,   (* of the store                                         *)
  at,              (* at[c]: where c's call of Once stands                 *)
  key,             (* key[c]: the key it was called with                   *)
  owner,           (* history: whose claim k holds                         *)
  kept,            (* history: the keys whose claim outlived its call      *)
  lapsed           (* history: the keys a lease ran out on during work     *)

calls == <<at, key>>
vars  == <<store, answer, calls, owner, kept, lapsed>>

Cache == INSTANCE Store

Init ==
  /\ Cache!Init
  /\ at = [c \in Callers |-> "idle"] /\ key = [c \in Callers |-> Nil]
  /\ owner = [k \in Keys |-> Nil]
  /\ kept = {} /\ lapsed = {}

On(k)      == {c \in Callers : at[c] # "idle" /\ key[c] = k}
Running(k) == {c \in On(k) : at[c] = "working"}

Granted(c, k) ==
  /\ at' = [at EXCEPT ![c] = "working"]
  /\ key' = [key EXCEPT ![c] = k]
  /\ owner' = [owner EXCEPT ![k] = c]
  /\ kept' = kept \ {k}
  /\ lapsed' = IF On(k) = {} THEN lapsed \ {k} ELSE lapsed

\* A bug to look for: a claim that is a Get followed by a Set.
TakeUnchecked(c, k) ==
  /\ at[c] = "idle"
  /\ \/ /\ store[k] = "free" /\ key[c] = Nil
        /\ key' = [key EXCEPT ![c] = k]
        /\ Cache!Get(c, k)
        /\ UNCHANGED <<at, owner, kept, lapsed>>
     \/ /\ key[c] = k
        /\ Cache!Set(k, "leased")
        /\ Granted(c, k)

\* Claim: the key is added with a lease, or someone has it.
TakeClaim(c, k) ==
  /\ at[c] = "idle"
  /\ Cache!Add(c, k, "leased")
  /\ \/ store[k] = "free" /\ Granted(c, k)
     \/ store[k] # "free" /\ UNCHANGED <<calls, owner, kept, lapsed>>

\* The call of Once is over, and the claim stays, if it is still the caller's.
Leave(c) ==
  /\ at' = [at EXCEPT ![c] = "idle"]
  /\ key' = [key EXCEPT ![c] = Nil]
  /\ kept' = IF owner[key[c]] = c THEN kept \cup {key[c]} ELSE kept
  /\ UNCHANGED <<store, answer, owner, lapsed>>

\* The work returned nil, or panicked through Once.
WorkDone(c) == at[c] = "working" /\ Leave(c)

\* The work returned an error.
WorkFail(c) ==
  /\ at[c] = "working"
  /\ at' = [at EXCEPT ![c] = "release"]
  /\ UNCHANGED <<store, answer, key, owner, kept, lapsed>>

\* The release, by key, with a context that is not cancelled; the store may
\* still fail it.
Release(c) ==
  /\ at[c] = "release"
  /\ \/ /\ Cache!Delete(key[c])
        /\ owner' = [owner EXCEPT ![key[c]] = Nil]
        /\ kept' = kept \ {key[c]}
        /\ at' = [at EXCEPT ![c] = "idle"]
        /\ key' = [key EXCEPT ![c] = Nil]
        /\ UNCHANGED lapsed
     \/ Leave(c)

\* The lease on k runs out, or the store evicts the claim.
Lapse(k) ==
  /\ Cache!Expire(k) \/ (store[k] = "leased" /\ Cache!Evict(k))
  /\ owner' = [owner EXCEPT ![k] = Nil]
  /\ kept' = kept \ {k}
  /\ lapsed' = IF k \notin kept THEN lapsed \cup {k} ELSE lapsed
  /\ UNCHANGED calls

Next ==
  \/ \E c \in Callers, k \in Keys : TakeClaim(c, k)
  \/ \E c \in Callers : WorkDone(c) \/ WorkFail(c) \/ Release(c)
  \/ \E k \in Keys : Lapse(k)

Spec == Init /\ [][Next]_vars

-----------------------------------------------------------------------------
(* Properties *)

\* Every variable keeps its type, and a call has a key while it lasts.
TypeOK ==
  /\ store \in [Keys -> Cache!Lives \cup {"free"}]
  /\ answer \in [Callers -> Cache!Answers]
  /\ at \in [Callers -> {"idle", "working", "release"}]
  /\ key \in [Callers -> Keys \cup {Nil}]
  /\ \A c \in Callers : at[c] # "idle" <=> key[c] # Nil
  /\ owner \in [Keys -> Callers \cup {Nil}]
  /\ kept \subseteq Keys /\ lapsed \subseteq Keys

\* Two callers work under one key only when a lease on it ran out while its
\* holder was still at work.
NoOverlap ==
  \A k \in Keys : \A c, d \in Running(k) : c = d \/ k \in lapsed

\* A claim that is in place is of work in progress, unless its work is done or
\* its release failed: failed work never bars a retry for the whole lease.
FailureReleases ==
  \A k \in Keys : store[k] # "free" => k \in kept \/ owner[k] \in On(k)
=============================================================================
