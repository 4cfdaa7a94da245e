----------------------------- MODULE CacheMemory -----------------------------
(***************************************************************************)
(* The in-memory cache driver, src/cache/memory.go: a map, a list of its   *)
(* keys in order of use, a cursor that samples the list for expired        *)
(* entries, and an optional bound that evicts from the front.              *)
(*                                                                         *)
(* A call that takes Memory.mu for writing is a run of steps under that    *)
(* lock, one per iteration of its loops; no other goroutine moves in the   *)
(* map or the list until it unlocks.                                       *)
(*                                                                         *)
(* Abstracted: the bytes of a value, and the clock.  A leased entry may    *)
(* expire at any moment between two critical sections (each reads the      *)
(* clock once).  Calls that fail validation change nothing.                *)
(***************************************************************************)
EXTENDS Naturals, Sequences, SequencesExt

CONSTANTS
  Keys,         (* cache keys                                            *)
  Callers,      (* goroutines that call the cache                        *)
  MaxEntries,   (* WithMaxEntries; 0 is no bound                         *)
  SampleSize,   (* memoryCleanupSampleSize                               *)
  Nil           (* no list element                                       *)

ASSUME CacheAssumption ==
  /\ MaxEntries \in Nat
  /\ SampleSize \in Nat \ {0}
  /\ Nil \notin Keys

VARIABLES
  entries,      (* Memory.entries: "absent", or how long k is kept       *)
  order,        (* Memory.order, an element for each entry               *)
  cursor,       (* Memory.cursor, as the key of the element              *)
  mu,           (* Memory.mu and the locals of the call that holds it    *)
  upgrading,    (* upgrading[c]: the key Get saw expired under RLock     *)
  answer,       (* answer[c]: what the last Get or Add told c, of a key  *)
  older         (* history: <<a, b>> when resident a was used before b   *)

list == <<entries, order, cursor, older>>
vars == <<list, mu, upgrading, answer>>

Lives    == {"forever", "leased"}
NoAnswer == [was |-> "none"]
Answers  == {NoAnswer} \cup [key : Keys, was : {"hit", "miss", "stored", "taken"}]
Bounded  == MaxEntries > 0

Live(k)  == entries[k] \in Lives
Resident == {k \in Keys : entries[k] # "absent"}

Unlocked == [op |-> "free"]
Sampling == {"get", "set", "add"}

Init ==
  /\ entries = [k \in Keys |-> "absent"]
  /\ order = <<>> /\ cursor = Nil /\ older = {}
  /\ mu = Unlocked
  /\ upgrading = [c \in Callers |-> Nil]
  /\ answer = [c \in Callers |-> NoAnswer]

-----------------------------------------------------------------------------
(* The list *)

Position(k) == CHOOSE i \in 1..Len(order) : order[i] = k
After(k)    == IF Position(k) = Len(order) THEN Nil ELSE order[Position(k) + 1]
Without(k)  == RemoveAt(order, Position(k))

Involving(k)   == {p \in Keys \X Keys : p[1] = k \/ p[2] = k}
Used(k)        == older' = (older \ Involving(k)) \cup ((Resident \ {k}) \X {k})

\* A bug to look for: the cursor is left at the element that is removed.
UnlinkOnly(k, at) ==
  /\ entries' = [entries EXCEPT ![k] = "absent"]
  /\ order' = Without(k)
  /\ older' = older \ Involving(k)
  /\ cursor' = at

\* deleteLocked, when the cursor is at "at".
Unlink(k, at) ==
  /\ entries' = [entries EXCEPT ![k] = "absent"]
  /\ order' = Without(k)
  /\ older' = older \ Involving(k)
  /\ cursor' = IF at = k THEN After(k) ELSE at

\* The number of iterations purgeSampleLocked makes on a list of length n.
Window(n) == IF n < SampleSize THEN n ELSE SampleSize

Tell(c, k, a) == answer' = [answer EXCEPT ![c] = [key |-> k, was |-> a]]

\* Bugs to look for: the cursor moves on only past what is removed, or the
\* live entries a sample visits go to the back.
StuckSample ==
  /\ mu.op \in Sampling /\ mu.left > 0
  /\ mu' = [mu EXCEPT !.left = @ - 1]
  /\ LET k == IF cursor = Nil THEN Head(order) ELSE cursor
     IN  \/ entries[k] = "expired" /\ Unlink(k, After(k))
         \/ entries[k] # "expired" /\ cursor' = k /\ UNCHANGED <<entries, order, older>>
  /\ UNCHANGED <<upgrading, answer>>

RotatingSample ==
  /\ mu.op \in Sampling /\ mu.left > 0
  /\ mu' = [mu EXCEPT !.left = @ - 1]
  /\ LET k == IF cursor = Nil THEN Head(order) ELSE cursor
     IN  \/ entries[k] = "expired" /\ Unlink(k, After(k))
         \/ /\ entries[k] # "expired"
            /\ cursor' = After(k)
            /\ order' = Append(Without(k), k)
            /\ UNCHANGED <<entries, older>>
  /\ UNCHANGED <<upgrading, answer>>

\* One iteration of purgeSampleLocked.  The cursor moves on before a removal.
SampleStep ==
  /\ mu.op \in Sampling /\ mu.left > 0
  /\ mu' = [mu EXCEPT !.left = @ - 1]
  /\ LET k == IF cursor = Nil THEN Head(order) ELSE cursor
     IN  \/ entries[k] = "expired" /\ Unlink(k, After(k))
         \/ entries[k] # "expired" /\ cursor' = After(k) /\ UNCHANGED <<entries, order, older>>
  /\ UNCHANGED <<upgrading, answer>>

-----------------------------------------------------------------------------
(* Get *)

\* Unbounded, under the read lock: a hit, a miss, or an expired candidate that
\* needs the exclusive lock.
GetRead(c, k) ==
  /\ ~Bounded
  /\ mu = Unlocked /\ upgrading[c] = Nil
  /\ \/ entries[k] = "absent" /\ Tell(c, k, "miss") /\ UNCHANGED upgrading
     \/ Live(k) /\ Tell(c, k, "hit") /\ UNCHANGED upgrading
     \/ entries[k] = "expired" /\ upgrading' = [upgrading EXCEPT ![c] = k] /\ UNCHANGED answer
  /\ UNCHANGED <<list, mu>>

\* What both forms of Get do under the exclusive lock with a key that is
\* absent or expired: remove it, and clean a sample.
Reclaim(c, k, reply) ==
  /\ \/ entries[k] = "expired" /\ Unlink(k, cursor)
     \/ entries[k] # "expired" /\ UNCHANGED list
  /\ mu' = [op |-> "get", by |-> c, key |-> k, reply |-> reply, left |-> Window(Len(order'))]
  /\ UNCHANGED answer

\* A bug to look for: the value seen under the read lock is returned.
StaleUpgrade(c) ==
  /\ mu = Unlocked /\ upgrading[c] # Nil
  /\ upgrading' = [upgrading EXCEPT ![c] = Nil]
  /\ LET k == upgrading[c] IN Reclaim(c, k, IF entries[k] # "expired" THEN "hit" ELSE "miss")

\* The entry is looked up again: another call may have removed or replaced it.
GetUpgrade(c) ==
  /\ mu = Unlocked /\ upgrading[c] # Nil
  /\ upgrading' = [upgrading EXCEPT ![c] = Nil]
  /\ LET k == upgrading[c] IN Reclaim(c, k, IF Live(k) THEN "hit" ELSE "miss")

\* getAndPromote.  A cursor at the element goes to the back with it.
GetPromote(c, k) ==
  /\ Bounded
  /\ mu = Unlocked
  /\ \/ /\ Live(k)
        /\ order' = Append(Without(k), k)
        /\ Used(k)
        /\ Tell(c, k, "hit")
        /\ UNCHANGED <<entries, cursor, mu>>
     \/ ~Live(k) /\ Reclaim(c, k, "miss")
  /\ UNCHANGED upgrading

GetReturn ==
  /\ mu.op = "get" /\ mu.left = 0
  /\ Tell(mu.by, mu.key, mu.reply)
  /\ mu' = Unlocked
  /\ UNCHANGED <<list, upgrading>>

-----------------------------------------------------------------------------
(* Set and Add *)

SetBegin(k, life) ==
  /\ mu = Unlocked
  /\ mu' = [op |-> "set", key |-> k, life |-> life, left |-> Window(Len(order))]
  /\ UNCHANGED <<list, upgrading, answer>>

\* A bug to look for: the stale element stays in the list when its entry is
\* replaced.
LeakyAdd(c, k, life) ==
  /\ mu = Unlocked
  /\ \/ Live(k) /\ Tell(c, k, "taken") /\ UNCHANGED <<list, mu>>
     \/ /\ ~Live(k)
        /\ entries' = [entries EXCEPT ![k] = "absent"]
        /\ UNCHANGED <<order, cursor, older>>
        /\ mu' = [op |-> "add", by |-> c, key |-> k, life |-> life, left |-> Window(Len(order))]
        /\ UNCHANGED answer
  /\ UNCHANGED upgrading

\* A live value is left alone; an expired one is removed first.
AddBegin(c, k, life) ==
  /\ mu = Unlocked
  /\ \/ Live(k) /\ Tell(c, k, "taken") /\ UNCHANGED <<list, mu>>
     \/ /\ ~Live(k)
        /\ \/ entries[k] = "expired" /\ Unlink(k, cursor)
           \/ entries[k] = "absent" /\ UNCHANGED list
        /\ mu' = [op |-> "add", by |-> c, key |-> k, life |-> life, left |-> Window(Len(order'))]
        /\ UNCHANGED answer
  /\ UNCHANGED upgrading

\* The sample is done: the entry goes to the back of the list, its element
\* moved there when the key is resident (MoveToBack) and pushed otherwise.
Insert ==
  /\ mu.op \in {"set", "add"} /\ mu.left = 0
  /\ entries' = [entries EXCEPT ![mu.key] = mu.life]
  /\ order' = Append(IF mu.key \in Resident THEN Without(mu.key) ELSE order, mu.key)
  /\ Used(mu.key)
  /\ IF mu.op = "add" THEN Tell(mu.by, mu.key, "stored") ELSE UNCHANGED answer
  /\ mu' = [op |-> "evict", key |-> mu.key]
  /\ UNCHANGED <<cursor, upgrading>>

\* A bug to look for: one entry too many is kept.
LaxBudget == Bounded /\ Len(order) > MaxEntries + 1

OverBudget == Bounded /\ Len(order) > MaxEntries

\* One iteration of evictLocked.
EvictStep ==
  /\ mu.op = "evict"
  /\ OverBudget
  /\ Unlink(Head(order), cursor)
  /\ UNCHANGED <<mu, upgrading, answer>>

WriteReturn ==
  /\ mu.op = "evict"
  /\ ~OverBudget
  /\ mu' = Unlocked
  /\ UNCHANGED <<list, upgrading, answer>>

-----------------------------------------------------------------------------
(* Delete and PurgeExpired *)

Delete(k) ==
  /\ mu = Unlocked
  /\ k \in Resident
  /\ Unlink(k, cursor)
  /\ UNCHANGED <<mu, upgrading, answer>>

PurgeBegin ==
  /\ mu = Unlocked
  /\ mu' = [op |-> "purge"]
  /\ UNCHANGED <<list, upgrading, answer>>

\* The map is walked in no particular order.
PurgeStep(k) ==
  /\ mu.op = "purge"
  /\ entries[k] = "expired"
  /\ Unlink(k, cursor)
  /\ UNCHANGED <<mu, upgrading, answer>>

PurgeReturn ==
  /\ mu.op = "purge"
  /\ \A k \in Keys : entries[k] # "expired"
  /\ mu' = Unlocked
  /\ UNCHANGED <<list, upgrading, answer>>

\* Time passes.
Expire(k) ==
  /\ mu = Unlocked
  /\ entries[k] = "leased"
  /\ entries' = [entries EXCEPT ![k] = "expired"]
  /\ UNCHANGED <<order, cursor, older, mu, upgrading, answer>>

-----------------------------------------------------------------------------
Get   == \/ \E c \in Callers, k \in Keys : GetRead(c, k) \/ GetPromote(c, k)
         \/ \E c \in Callers : GetUpgrade(c)
         \/ GetReturn
Set   == \E k \in Keys, life \in Lives : SetBegin(k, life)
Add   == \E c \in Callers, k \in Keys, life \in Lives : AddBegin(c, k, life)
Evict == EvictStep \/ WriteReturn
Purge == PurgeBegin \/ PurgeReturn \/ \E k \in Keys : PurgeStep(k)

Next ==
  \/ Get \/ Set \/ Add \/ SampleStep \/ Insert \/ Evict \/ Purge
  \/ \E k \in Keys : Delete(k) \/ Expire(k)

Spec == Init /\ [][Next]_vars

\* A goroutine that holds the lock goes on.
Unlocking ==
  WF_vars(SampleStep \/ GetReturn \/ Insert \/ Evict \/ PurgeReturn
          \/ \E k \in Keys : PurgeStep(k))

\* Someone keeps writing to the cache, whatever the keys, and sync.RWMutex
\* lets no writer starve.
Traffic == SF_vars(Set)

TrafficSpec == Spec /\ Unlocking /\ Traffic

-----------------------------------------------------------------------------
(* Properties *)

Calls ==
  {Unlocked, [op |-> "purge"]}
    \cup [op : {"get"}, by : Callers, key : Keys, reply : {"hit", "miss"}, left : 0..SampleSize]
    \cup [op : {"set"}, key : Keys, life : Lives, left : 0..SampleSize]
    \cup [op : {"add"}, by : Callers, key : Keys, life : Lives, left : 0..SampleSize]
    \cup [op : {"evict"}, key : Keys]

\* Every variable keeps its type.
TypeOK ==
  /\ entries \in [Keys -> Lives \cup {"absent", "expired"}]
  /\ order \in Seq(Keys)
  /\ cursor \in Keys \cup {Nil}
  /\ mu \in Calls
  /\ upgrading \in [Callers -> Keys \cup {Nil}]
  /\ answer \in [Callers -> Answers]
  /\ older \in SUBSET (Keys \X Keys)

\* The map and the list agree, which deleteLocked and evictLocked rely on:
\* each entry has one element, and no element is left without its entry.
ListMatchesMap ==
  /\ \A i \in 1..Len(order) : order[i] \in Resident
  /\ \A k \in Resident : \E i \in 1..Len(order) : order[i] = k
  /\ \A i, j \in 1..Len(order) : order[i] = order[j] => i = j

\* The cursor is never left at an element that was removed from the list: its
\* links are cleared, and the keys behind it would not be visited.
CursorInList == cursor = Nil \/ \E i \in 1..Len(order) : order[i] = cursor

\* A sample never runs out of elements, however many it removes: Front would
\* be nil and purgeSampleLocked would panic holding the lock.
SampleHasElement == mu.op \in Sampling => mu.left <= Len(order)

\* The bound holds whenever another caller can look.
WithinBound == Bounded /\ mu = Unlocked => Len(order) <= MaxEntries

\* A live value goes only by Delete, by its lifetime, or by an eviction: no
\* Get, sample or purge that raced a Set takes the value it stored.
LiveValuesKept ==
  [][\A k \in Keys : Live(k) /\ ~Live(k)' => Delete(k) \/ Expire(k) \/ EvictStep]_vars

\* The list is in order of last use: cleaning does not decide what eviction
\* takes, and eviction, from the front, takes the least recently used.
ListInOrderOfUse ==
  \A i, j \in 1..Len(order) : i < j => <<order[i], order[j]>> \in older

\* What the comment on purgeSampleLocked says: "every resident key is visited",
\* so an entry that expired does not stay for ever in a cache that is written to.
ExpiredReclaimed ==
  \A k \in Keys : entries[k] = "expired" ~> entries[k] # "expired"

-----------------------------------------------------------------------------
(* The driver implements the store contract. *)

Seen == [k \in Keys |-> IF Live(k) THEN entries[k] ELSE "free"]

Contract == INSTANCE Store WITH Evicting <- Bounded, store <- Seen

\* Seen by its callers, a two-step Get, the samples, the list and the lock are
\* one value per key: each Get and Add tells what its key held at one instant
\* of the call, and Add never stores over a live value.
ImplementsStore == Contract!Spec
=============================================================================
