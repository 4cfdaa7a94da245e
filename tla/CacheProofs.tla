----------------------------- MODULE CacheProofs ------------------------------
(***************************************************************************)
(* Theorems about CacheMemory, for any keys, callers, bound and sample.    *)
(***************************************************************************)
EXTENDS CacheMemory, SequenceTheorems, TLAPS

-----------------------------------------------------------------------------
(* What list.Remove and list.PushBack do to the sequence that stands for   *)
(* the list.                                                               *)

\* A removal closes the gap at i and keeps the rest in order.
LEMMA RemoveOne ==
  ASSUME NEW S, NEW q \in Seq(S), NEW i \in 1..Len(q)
  PROVE  /\ RemoveAt(q, i) \in Seq(S)
         /\ Len(RemoveAt(q, i)) = Len(q) - 1
         /\ \A j \in 1..(Len(q) - 1) :
              RemoveAt(q, i)[j] = IF j < i THEN q[j] ELSE q[j + 1]
<1> DEFINE l == SubSeq(q, 1, i - 1)
           r == SubSeq(q, i + 1, Len(q))
<1>1. l \in Seq(S) /\ Len(l) = i - 1 /\ \A j \in 1..(i - 1) : l[j] = q[j]
  OBVIOUS
<1>2. r \in Seq(S) /\ Len(r) = Len(q) - i /\ \A j \in 1..(Len(q) - i) : r[j] = q[j + i]
  OBVIOUS
<1>3. RemoveAt(q, i) = l \o r
  BY DEF RemoveAt
<1> HIDE DEF l, r
<1>4. /\ l \o r \in Seq(S)
      /\ Len(l \o r) = Len(q) - 1
      /\ \A j \in 1..(Len(q) - 1) : (l \o r)[j] = IF j < i THEN l[j] ELSE r[j - i + 1]
  <2>1. /\ l \o r \in Seq(S)
        /\ Len(l \o r) = Len(l) + Len(r)
        /\ \A j \in 1..(Len(l) + Len(r)) :
             (l \o r)[j] = IF j <= Len(l) THEN l[j] ELSE r[j - Len(l)]
    BY <1>1, <1>2, ConcatProperties
  <2>2. Len(l) = i - 1 /\ Len(l) + Len(r) = Len(q) - 1
    BY <1>1, <1>2
  <2>3. \A j \in 1..(Len(q) - 1) : j - (i - 1) = j - i + 1 /\ (j <= i - 1 <=> j < i)
    OBVIOUS
  <2> QED  BY <2>1, <2>2, <2>3
<1>5. ASSUME NEW j \in 1..(Len(q) - 1), ~(j < i) PROVE r[j - i + 1] = q[j + 1]
  <2>1. j - i + 1 \in 1..(Len(q) - i) /\ (j - i + 1) + i = j + 1
    BY <1>5
  <2> QED  BY <2>1, <1>2
<1> QED  BY <1>1, <1>3, <1>4, <1>5

\* A push adds at the back.
LEMMA PushOne ==
  ASSUME NEW S, NEW q \in Seq(S), NEW e \in S
  PROVE  /\ Append(q, e) \in Seq(S)
         /\ Len(Append(q, e)) = Len(q) + 1
         /\ \A j \in 1..(Len(q) + 1) :
              Append(q, e)[j] = IF j = Len(q) + 1 THEN e ELSE q[j]
  OBVIOUS

-----------------------------------------------------------------------------
(* The inductive invariant.  Each key of R has one element in q.           *)

ListOf(q, R) ==
  /\ q \in Seq(Keys)
  /\ \A i \in 1..Len(q) : q[i] \in R
  /\ \A k \in R : \E i \in 1..Len(q) : q[i] = k
  /\ \A i, j \in 1..Len(q) : q[i] = q[j] => i = j

Ordered(q, before) ==
  \A i, j \in 1..Len(q) : i < j => <<q[i], q[j]>> \in before

\* The map, the list and the cursor, whatever holds the lock.
Lists ==
  /\ entries \in [Keys -> Lives \cup {"absent", "expired"}]
  /\ older \in SUBSET (Keys \X Keys)
  /\ ListOf(order, Resident)
  /\ Ordered(order, older)
  /\ cursor \in Resident \cup {Nil}

\* The call that holds the lock, and the callers.
Locals ==
  /\ mu \in Calls
  /\ upgrading \in [Callers -> Keys \cup {Nil}]
  /\ answer \in [Callers -> Answers]

\* Only a write that has yet to evict may be over the bound.
Budget == Bounded /\ mu.op # "evict" => Len(order) <= MaxEntries

\* The call that holds the lock acts on what it saw of its key.
Replies ==
  /\ mu.op = "get" => (mu.reply = "hit" <=> Live(mu.key))
  /\ mu.op = "add" => ~Live(mu.key)

IInv == Lists /\ Locals /\ SampleHasElement /\ Budget /\ Replies

-----------------------------------------------------------------------------

\* Position finds the element of a resident key.
LEMMA PositionFound ==
  ASSUME NEW k, \E i \in 1..Len(order) : order[i] = k
  PROVE  Position(k) \in 1..Len(order) /\ order[Position(k)] = k
  BY DEF Position

\* Taking a resident key out of the list leaves a list of the others, in order.
LEMMA WithoutList ==
  ASSUME Lists, NEW k \in Resident
  PROVE  /\ ListOf(Without(k), Resident \ {k})
         /\ Ordered(Without(k), older \ Involving(k))
         /\ Len(Without(k)) = Len(order) - 1
         /\ Len(order) \in Nat \ {0}
<1> DEFINE p == Position(k)
           q == Without(k)
<1>1. order \in Seq(Keys) /\ Len(order) \in Nat
  BY DEF Lists, ListOf
<1>2. p \in 1..Len(order) /\ order[p] = k
  BY PositionFound DEF Lists, ListOf
<1>3. /\ q \in Seq(Keys) /\ Len(q) = Len(order) - 1
      /\ \A j \in 1..(Len(order) - 1) : q[j] = IF j < p THEN order[j] ELSE order[j + 1]
  BY <1>1, <1>2, RemoveOne DEF Without
<1> HIDE DEF p, q
\* Where the element at j of the shorter list was.
<1> DEFINE was(j) == IF j < p THEN j ELSE j + 1
<1>4. ASSUME NEW j \in 1..Len(q)
      PROVE  was(j) \in 1..Len(order) /\ was(j) # p /\ q[j] = order[was(j)]
  BY <1>1, <1>2, <1>3
<1>5. ASSUME NEW i \in 1..Len(order), i # p
      PROVE  \E j \in 1..Len(q) : q[j] = order[i]
  <2>1. CASE i < p
    BY <2>1, <1>1, <1>2, <1>3
  <2>2. CASE i > p
    <3>1. i - 1 \in 1..Len(q) /\ ~(i - 1 < p) /\ (i - 1) + 1 = i
      BY <2>2, <1>1, <1>2, <1>3
    <3> QED  BY <3>1, <1>3
  <2> QED  BY <2>1, <2>2, <1>5, <1>1, <1>2
<1>6. ASSUME NEW i \in 1..Len(q), NEW j \in 1..Len(q)
      PROVE  (i < j => was(i) < was(j)) /\ (was(i) = was(j) => i = j)
  BY <1>1, <1>2, <1>3
<1>7. ASSUME NEW i \in 1..Len(order), i # p PROVE order[i] \in Resident \ {k}
  BY <1>7, <1>2 DEF Lists, ListOf
<1> HIDE DEF was
<1>8. ListOf(q, Resident \ {k})
  <2>1. \A j \in 1..Len(q) : q[j] \in Resident \ {k}
    BY <1>4, <1>7
  <2>2. \A l \in Resident \ {k} : \E j \in 1..Len(q) : q[j] = l
    BY <1>2, <1>5 DEF Lists, ListOf
  <2>3. \A i, j \in 1..Len(q) : q[i] = q[j] => i = j
    BY <1>4, <1>6 DEF Lists, ListOf
  <2> QED  BY <1>3, <2>1, <2>2, <2>3 DEF ListOf
<1>9. Ordered(q, older \ Involving(k))
  <2> SUFFICES ASSUME NEW i \in 1..Len(q), NEW j \in 1..Len(q), i < j
               PROVE  <<q[i], q[j]>> \in older \ Involving(k)
    BY DEF Ordered
  <2>1. was(i) < was(j) /\ was(i) \in 1..Len(order) /\ was(j) \in 1..Len(order)
        /\ q[i] = order[was(i)] /\ q[j] = order[was(j)]
    BY <1>4, <1>6
  <2>2. <<q[i], q[j]>> \in older
    BY <2>1 DEF Lists, Ordered
  <2>3. q[i] # k /\ q[j] # k
    BY <1>8 DEF ListOf
  <2> QED  BY <2>2, <2>3 DEF Involving
<1> QED  BY <1>1, <1>2, <1>3, <1>8, <1>9 DEF q

\* Pushing a key at the back makes it the one used last.
LEMMA PushList ==
  ASSUME NEW q, NEW R \in SUBSET Keys, NEW before, NEW k \in Keys \ R,
         ListOf(q, R), Ordered(q, before)
  PROVE  /\ ListOf(Append(q, k), R \cup {k})
         /\ Ordered(Append(q, k), before \cup (R \X {k}))
         /\ Len(Append(q, k)) = Len(q) + 1
<1> DEFINE b == Append(q, k)
<1>1. q \in Seq(Keys) /\ Len(q) \in Nat
  BY DEF ListOf
<1>2. /\ b \in Seq(Keys) /\ Len(b) = Len(q) + 1
      /\ \A j \in 1..(Len(q) + 1) : b[j] = IF j = Len(q) + 1 THEN k ELSE q[j]
  BY <1>1, PushOne
<1> HIDE DEF b
<1>3. b[Len(q) + 1] = k /\ Len(q) + 1 \in 1..Len(b)
  BY <1>1, <1>2
<1>4. \A j \in 1..Len(q) : b[j] = q[j] /\ q[j] \in R /\ j \in 1..Len(b)
  BY <1>1, <1>2 DEF ListOf
<1>5. \A j \in 1..Len(b) : j = Len(q) + 1 \/ j \in 1..Len(q)
  BY <1>1, <1>2
<1>6. ListOf(b, R \cup {k})
  <2>1. \A j \in 1..Len(b) : b[j] \in R \cup {k}
    BY <1>3, <1>4, <1>5
  <2>2. \A l \in R \cup {k} : \E j \in 1..Len(b) : b[j] = l
    BY <1>3, <1>4 DEF ListOf
  <2>3. \A i, j \in 1..Len(b) : b[i] = b[j] => i = j
    BY <1>3, <1>4, <1>5 DEF ListOf
  <2> QED  BY <1>2, <2>1, <2>2, <2>3 DEF ListOf
<1>7. Ordered(b, before \cup (R \X {k}))
  <2> SUFFICES ASSUME NEW i \in 1..Len(b), NEW j \in 1..Len(b), i < j
               PROVE  <<b[i], b[j]>> \in before \cup (R \X {k})
    BY DEF Ordered
  <2>1. i \in 1..Len(q)
    BY <1>1, <1>2
  <2>2. CASE j = Len(q) + 1
    BY <2>1, <2>2, <1>3, <1>4
  <2>3. CASE j \in 1..Len(q)
    BY <2>1, <2>3, <1>4 DEF Ordered
  <2> QED  BY <2>2, <2>3, <1>5
<1> QED  BY <1>2, <1>6, <1>7 DEF b
\* element.Next() of a resident key is nil or another resident key.
LEMMA AfterAnother ==
  ASSUME Lists, NEW k \in Resident
  PROVE  After(k) \in (Resident \ {k}) \cup {Nil}
<1>1. Position(k) \in 1..Len(order) /\ order[Position(k)] = k
  BY PositionFound DEF Lists, ListOf
<1>2. order \in Seq(Keys) /\ Len(order) \in Nat
  BY DEF Lists, ListOf
<1>3. CASE Position(k) = Len(order)
  BY <1>3 DEF After
<1>4. CASE Position(k) # Len(order)
  <2>1. Position(k) + 1 \in 1..Len(order) /\ Position(k) + 1 # Position(k)
    BY <1>1, <1>2, <1>4
  <2>2. order[Position(k) + 1] \in Resident /\ order[Position(k) + 1] # k
    BY <1>1, <2>1 DEF Lists, ListOf
  <2> QED  BY <1>4, <2>2 DEF After
<1> QED  BY <1>3, <1>4

\* deleteLocked keeps map, list and cursor together.
LEMMA UnlinkLists ==
  ASSUME Lists, NEW k \in Resident, NEW at \in Resident \cup {Nil}, Unlink(k, at)
  PROVE  Lists' /\ Len(order') = Len(order) - 1 /\ Len(order) \in Nat \ {0}
<1>1. /\ entries' = [entries EXCEPT ![k] = "absent"]
      /\ order' = Without(k)
      /\ older' = older \ Involving(k)
      /\ cursor' = IF at = k THEN After(k) ELSE at
  BY DEF Unlink
<1>2. /\ ListOf(Without(k), Resident \ {k})
      /\ Ordered(Without(k), older \ Involving(k))
      /\ Len(Without(k)) = Len(order) - 1
      /\ Len(order) \in Nat \ {0}
  BY WithoutList
<1>3. Resident' = Resident \ {k}
  BY <1>1 DEF Lists, Lives, Resident
<1>4. entries' \in [Keys -> Lives \cup {"absent", "expired"}] /\ older' \in SUBSET (Keys \X Keys)
  BY <1>1 DEF Lists, Resident
<1>5. cursor' \in Resident' \cup {Nil}
  BY <1>1, <1>3, AfterAnother
<1>6. ListOf(order, Resident)' /\ Ordered(order, older)'
  BY <1>1, <1>2, <1>3 DEF ListOf, Ordered
<1> QED  BY <1>1, <1>2, <1>4, <1>5, <1>6 DEF Lists

\* One step of a sample: it visits a resident key, removes at most that one,
\* and leaves the cursor in the list.
LEMMA SampleLists ==
  ASSUME Lists, Locals, SampleHasElement, SampleStep
  PROVE  /\ Lists' /\ Len(order') >= Len(order) - 1 /\ Len(order') <= Len(order)
         /\ Len(order) \in Nat \ {0} /\ Len(order') \in Nat
<1>1. order \in Seq(Keys) /\ Len(order) \in Nat \ {0}
  <2>1. mu.left \in Nat /\ mu.left > 0 /\ mu.left <= Len(order)
    BY CacheAssumption DEF SampleStep, Locals, Calls, Unlocked, Sampling, SampleHasElement
  <2> QED  BY <2>1 DEF Lists, ListOf
<1>2. PICK k : /\ k = IF cursor = Nil THEN Head(order) ELSE cursor
               /\ \/ entries[k] = "expired" /\ Unlink(k, After(k))
                  \/ entries[k] # "expired" /\ cursor' = After(k) /\ UNCHANGED <<entries, order, older>>
  BY DEF SampleStep
<1>3. k \in Resident
  <2>1. CASE cursor = Nil
    <3>1. Head(order) = order[1] /\ 1 \in 1..Len(order)
      BY <1>1
    <3> QED  BY <1>2, <2>1, <3>1 DEF Lists, ListOf
  <2>2. CASE cursor # Nil
    BY <1>2, <2>2 DEF Lists
  <2> QED  BY <2>1, <2>2
<1>4. After(k) \in Resident \cup {Nil}
  BY <1>3, AfterAnother
<1>5. CASE Unlink(k, After(k))
  BY <1>1, <1>3, <1>4, <1>5, UnlinkLists
<1>6. CASE cursor' = After(k) /\ UNCHANGED <<entries, order, older>>
  BY <1>1, <1>4, <1>6 DEF Lists, ListOf, Ordered, Resident
<1> QED  BY <1>2, <1>5, <1>6

\* A key that is used goes to the back, whether its element is moved or pushed.
LEMMA UsedLists ==
  ASSUME Lists, NEW k \in Keys, Used(k),
         entries' = [entries EXCEPT ![k] = entries'[k]],
         entries'[k] \in Lives, UNCHANGED cursor,
         order' = Append(IF k \in Resident THEN Without(k) ELSE order, k)
  PROVE  /\ Lists'
         /\ Len(order) \in Nat
         /\ Len(order') = IF k \in Resident THEN Len(order) ELSE Len(order) + 1
<1> DEFINE q == IF k \in Resident THEN Without(k) ELSE order
<1>1. order \in Seq(Keys) /\ Len(order) \in Nat
  BY DEF Lists, ListOf
<1>2. /\ ListOf(q, Resident \ {k})
      /\ Ordered(q, older \ Involving(k))
      /\ Len(q) = IF k \in Resident THEN Len(order) - 1 ELSE Len(order)
  <2>1. CASE k \in Resident
    BY <2>1, WithoutList
  <2>2. CASE k \notin Resident
    <3>1. Resident \ {k} = Resident /\ q = order
      BY <2>2
    <3>2. \A i \in 1..Len(order) : order[i] # k
      BY <2>2 DEF Lists, ListOf
    <3> QED  BY <2>2, <3>1, <3>2 DEF Lists, Ordered, Involving
  <2> QED  BY <2>1, <2>2
<1>3. Resident \ {k} \in SUBSET Keys /\ k \in Keys \ (Resident \ {k})
  BY DEF Resident
<1>4. order' = Append(q, k)
  OBVIOUS
<1> HIDE DEF q
<1>5. /\ ListOf(Append(q, k), (Resident \ {k}) \cup {k})
      /\ Ordered(Append(q, k), (older \ Involving(k)) \cup ((Resident \ {k}) \X {k}))
      /\ Len(Append(q, k)) = Len(q) + 1
  BY <1>2, <1>3, PushList
<1>6. Resident' = (Resident \ {k}) \cup {k}
  BY DEF Lists, Lives, Resident
<1>7. /\ entries' \in [Keys -> Lives \cup {"absent", "expired"}]
      /\ older' \in SUBSET (Keys \X Keys)
  BY DEF Lists, Resident, Used
<1>8. ListOf(order, Resident)' /\ Ordered(order, older)'
  <2>1. older' = (older \ Involving(k)) \cup ((Resident \ {k}) \X {k})
    BY DEF Used
  <2>2. ListOf(order', Resident') /\ Ordered(order', older')
    BY ONLY <1>4, <1>5, <1>6, <2>1
  <2> QED  BY ONLY <2>2 DEF ListOf, Ordered
<1>9. cursor' \in Resident' \cup {Nil}
  BY <1>6 DEF Lists
<1> QED  BY <1>1, <1>2, <1>4, <1>5, <1>7, <1>8, <1>9 DEF Lists
\* Removing an expired entry cannot be seen.
LEMMA UnlinkUnseen ==
  ASSUME Lists, NEW k \in Keys, entries[k] = "expired", NEW at, Unlink(k, at)
  PROVE  Seen' = Seen /\ \A l \in Keys : Live(l)' <=> Live(l)
<1>1. entries' = [entries EXCEPT ![k] = "absent"]
  BY DEF Unlink
<1>2. ASSUME NEW l \in Keys
      PROVE  /\ Live(l)' <=> Live(l)
             /\ Live(l) => entries'[l] = entries[l]
  BY <1>1 DEF Lists, Live, Lives
<1> QED  BY <1>2 DEF Seen

\* A sample looks at no more elements than there are.
LEMMA WindowFits ==
  ASSUME NEW n \in Nat
  PROVE  Window(n) \in 0..SampleSize /\ Window(n) <= n
  BY CacheAssumption DEF Window

-----------------------------------------------------------------------------
(* Every action keeps the invariant. *)

\* What both forms of Get do under the exclusive lock.
LEMMA ReclaimIInv ==
  ASSUME IInv, mu = Unlocked, NEW c \in Callers, NEW k \in Keys,
         NEW reply \in {"hit", "miss"}, reply = "hit" <=> Live(k),
         Reclaim(c, k, reply)
  PROVE  /\ Lists' /\ mu' \in Calls /\ SampleHasElement' /\ Budget' /\ Replies'
         /\ Seen' = Seen
<1>1. /\ Lists' /\ Len(order) \in Nat /\ Len(order') \in Nat
      /\ Len(order') <= Len(order)
      /\ Seen' = Seen /\ (Live(k)' <=> Live(k))
  <2>1. CASE entries[k] = "expired" /\ Unlink(k, cursor)
    <3>1. k \in Resident /\ cursor \in Resident \cup {Nil} /\ Lists
      BY <2>1 DEF Resident, IInv, Lists
    <3> QED  BY <2>1, <3>1, UnlinkLists, UnlinkUnseen
  <2>2. CASE UNCHANGED list
    BY <2>2 DEF IInv, Lists, ListOf, Ordered, Resident, Seen, Live, list
  <2> QED  BY <2>1, <2>2 DEF Reclaim
<1>2. mu' = [op |-> "get", by |-> c, key |-> k, reply |-> reply, left |-> Window(Len(order'))]
  BY DEF Reclaim
<1>3. Window(Len(order')) \in 0..SampleSize /\ Window(Len(order')) <= Len(order')
  BY <1>1, WindowFits
<1>4. mu' \in Calls
  BY <1>2, <1>3 DEF Calls
<1>5. SampleHasElement' /\ Replies'
  BY <1>1, <1>2, <1>3 DEF SampleHasElement, Replies
<1>6. Budget'
  BY <1>1, <1>2, CacheAssumption DEF IInv, Budget, Bounded, Unlocked
<1> QED  BY <1>1, <1>4, <1>5, <1>6

LEMMA GetReadIInv ==
  ASSUME IInv, NEW c \in Callers, NEW k \in Keys, GetRead(c, k)
  PROVE  IInv'
<1>1. Lists' /\ SampleHasElement' /\ Budget' /\ Replies'
  BY DEF IInv, GetRead, Lists, ListOf, Ordered, Resident, SampleHasElement, Budget,
     Replies, Live, list
<1>2. Locals'
  BY DEF IInv, GetRead, Locals, Tell, Answers, NoAnswer
<1> QED  BY <1>1, <1>2 DEF IInv

LEMMA GetUpgradeIInv ==
  ASSUME IInv, NEW c \in Callers, GetUpgrade(c)
  PROVE  IInv' /\ Seen' = Seen
<1> DEFINE k == upgrading[c]
           reply == IF Live(k) THEN "hit" ELSE "miss"
<1>1. k \in Keys /\ mu = Unlocked /\ Reclaim(c, k, reply)
  BY DEF IInv, Locals, GetUpgrade
<1>2. reply \in {"hit", "miss"} /\ (reply = "hit" <=> Live(k))
  OBVIOUS
<1> HIDE DEF k, reply
<1>3. /\ Lists' /\ mu' \in Calls /\ SampleHasElement' /\ Budget' /\ Replies'
      /\ Seen' = Seen
  BY <1>1, <1>2, ReclaimIInv
<1>4. Locals'
  BY <1>3 DEF IInv, Locals, GetUpgrade, Reclaim
<1> QED  BY <1>3, <1>4 DEF IInv

LEMMA GetPromoteIInv ==
  ASSUME IInv, NEW c \in Callers, NEW k \in Keys, GetPromote(c, k)
  PROVE  IInv' /\ Seen' = Seen
<1>1. CASE Live(k) /\ order' = Append(Without(k), k) /\ Used(k)
           /\ Tell(c, k, "hit") /\ UNCHANGED <<entries, cursor, mu>>
  <2>1. k \in Resident /\ entries' = [entries EXCEPT ![k] = entries'[k]] /\ entries'[k] \in Lives
    BY <1>1 DEF IInv, Lists, Live, Lives, Resident
  <2>2. Lists' /\ Len(order') = Len(order)
    BY <1>1, <2>1, UsedLists DEF IInv
  <2>3. Locals'
    BY <1>1 DEF IInv, Locals, GetPromote, Tell, Answers
  <2>4. SampleHasElement' /\ Budget' /\ Replies' /\ Seen' = Seen
    BY <1>1, <2>2 DEF IInv, SampleHasElement, Budget, Replies, Live, Seen
  <2> QED  BY <2>2, <2>3, <2>4 DEF IInv
<1>2. CASE ~Live(k) /\ Reclaim(c, k, "miss")
  <2>1. /\ Lists' /\ mu' \in Calls /\ SampleHasElement' /\ Budget' /\ Replies'
        /\ Seen' = Seen
    BY <1>2, ReclaimIInv DEF GetPromote
  <2>2. Locals'
    BY <1>2, <2>1 DEF IInv, Locals, GetPromote, Reclaim
  <2> QED  BY <2>1, <2>2 DEF IInv
<1> QED  BY <1>1, <1>2 DEF GetPromote

LEMMA GetReturnIInv ==
  ASSUME IInv, GetReturn
  PROVE  IInv'
<1>1. Lists' /\ Budget'
  BY DEF IInv, GetReturn, Lists, ListOf, Ordered, Resident, Budget, Unlocked, list
<1>2. SampleHasElement' /\ Replies'
  BY DEF GetReturn, SampleHasElement, Replies, Unlocked, Sampling
<1>3. mu.by \in Callers /\ mu.key \in Keys /\ mu.reply \in {"hit", "miss"}
  BY DEF IInv, Locals, GetReturn, Calls, Unlocked
<1>4. Locals'
  <2>1. mu' \in Calls /\ UNCHANGED upgrading
    BY DEF GetReturn, Calls
  <2>2. answer' \in [Callers -> Answers]
    BY <1>3 DEF IInv, Locals, GetReturn, Tell, Answers
  <2> QED  BY <2>1, <2>2 DEF IInv, Locals
<1> QED  BY <1>1, <1>2, <1>4 DEF IInv
\* A sample is nobody's answer, and changes nothing a caller can see.
LEMMA SampleIInv ==
  ASSUME IInv, SampleStep
  PROVE  IInv' /\ Seen' = Seen /\ \A l \in Keys : Live(l)' <=> Live(l)
<1>1. /\ Lists' /\ Len(order') >= Len(order) - 1 /\ Len(order') <= Len(order)
      /\ Len(order) \in Nat \ {0} /\ Len(order') \in Nat
  BY SampleLists DEF IInv
<1>2. Seen' = Seen /\ \A l \in Keys : Live(l)' <=> Live(l)
  <2>1. PICK k : \/ entries[k] = "expired" /\ Unlink(k, After(k))
                 \/ UNCHANGED <<entries, order, older>>
    BY DEF SampleStep
  <2>2. CASE entries[k] = "expired" /\ Unlink(k, After(k)) /\ k \in Keys
    BY <2>2, UnlinkUnseen DEF IInv
  <2>3. CASE entries[k] = "expired" /\ Unlink(k, After(k)) /\ k \notin Keys
    <3>1. entries' = entries
      BY <2>3 DEF Unlink, IInv, Lists
    <3> QED  BY <3>1 DEF Seen, Live
  <2>4. CASE UNCHANGED <<entries, order, older>>
    BY <2>4 DEF Seen, Live
  <2> QED  BY <2>1, <2>2, <2>3, <2>4
<1>3. /\ mu.op \in Sampling /\ mu.left \in 0..SampleSize /\ mu.left > 0
      /\ mu' = [mu EXCEPT !.left = @ - 1]
      /\ mu.op = "get" => mu \in [op : {"get"}, by : Callers, key : Keys, reply : {"hit", "miss"}, left : 0..SampleSize]
      /\ mu.op = "set" => mu \in [op : {"set"}, key : Keys, life : Lives, left : 0..SampleSize]
      /\ mu.op = "add" => mu \in [op : {"add"}, by : Callers, key : Keys, life : Lives, left : 0..SampleSize]
  BY DEF IInv, Locals, Calls, SampleStep, Sampling, Unlocked
<1>4. mu.left - 1 \in 0..SampleSize
  BY <1>3, CacheAssumption
<1>5. mu' \in Calls /\ mu'.op = mu.op /\ mu'.left = mu.left - 1 /\ mu.key \in Keys
      /\ mu'.key = mu.key /\ (mu.op = "get" => mu'.reply = mu.reply)
  <2>1. CASE mu.op = "get"
    BY <2>1, <1>3, <1>4 DEF Calls
  <2>2. CASE mu.op = "set"
    BY <2>2, <1>3, <1>4 DEF Calls
  <2>3. CASE mu.op = "add"
    BY <2>3, <1>3, <1>4 DEF Calls
  <2> QED  BY <2>1, <2>2, <2>3, <1>3 DEF Sampling
<1>6. Locals'
  BY <1>5 DEF IInv, Locals, SampleStep
<1>7. SampleHasElement'
  BY <1>1, <1>3, <1>5 DEF IInv, SampleHasElement
<1>8. Budget'
  BY <1>1, <1>5, CacheAssumption DEF IInv, Budget, Bounded
<1>9. Replies'
  BY <1>2, <1>5 DEF IInv, Replies
<1> QED  BY <1>1, <1>2, <1>6, <1>7, <1>8, <1>9 DEF IInv

LEMMA SetBeginIInv ==
  ASSUME IInv, NEW k \in Keys, NEW life \in Lives, SetBegin(k, life)
  PROVE  IInv'
<1>1. Len(order) \in Nat
  BY DEF IInv, Lists, ListOf
<1>2. Window(Len(order)) \in 0..SampleSize /\ Window(Len(order)) <= Len(order)
  BY <1>1, WindowFits
<1>3. mu' \in Calls /\ mu'.op = "set" /\ mu'.left = Window(Len(order)) /\ UNCHANGED <<list, upgrading, answer>>
  BY <1>2 DEF SetBegin, Calls
<1>4. Lists' /\ Locals'
  BY <1>3 DEF IInv, Lists, ListOf, Ordered, Resident, Locals, list
<1>5. SampleHasElement' /\ Budget' /\ Replies'
  BY <1>2, <1>3 DEF IInv, SampleHasElement, Budget, Replies, SetBegin, Unlocked, list
<1> QED  BY <1>4, <1>5 DEF IInv

LEMMA AddBeginIInv ==
  ASSUME IInv, NEW c \in Callers, NEW k \in Keys, NEW life \in Lives, AddBegin(c, k, life)
  PROVE  IInv' /\ Seen' = Seen
<1>1. CASE Live(k) /\ Tell(c, k, "taken") /\ UNCHANGED <<list, mu>>
  <2>1. Lists' /\ SampleHasElement' /\ Budget' /\ Replies' /\ Seen' = Seen
    BY <1>1 DEF IInv, Lists, ListOf, Ordered, Resident, SampleHasElement, Budget,
       Replies, Live, Seen, list
  <2>2. Locals'
    BY <1>1 DEF IInv, AddBegin, Locals, Tell, Answers
  <2> QED  BY <2>1, <2>2 DEF IInv
<1>2. CASE /\ ~Live(k)
           /\ \/ entries[k] = "expired" /\ Unlink(k, cursor)
              \/ entries[k] = "absent" /\ UNCHANGED list
           /\ mu' = [op |-> "add", by |-> c, key |-> k, life |-> life, left |-> Window(Len(order'))]
           /\ UNCHANGED answer
  <2>1. /\ Lists' /\ Len(order) \in Nat /\ Len(order') \in Nat
        /\ Len(order') <= Len(order)
        /\ Seen' = Seen /\ ~Live(k)'
    <3>1. CASE entries[k] = "expired" /\ Unlink(k, cursor)
      <4>1. k \in Resident /\ cursor \in Resident \cup {Nil} /\ Lists
        BY <3>1 DEF Resident, IInv, Lists
      <4> QED  BY <1>2, <3>1, <4>1, UnlinkLists, UnlinkUnseen
    <3>2. CASE UNCHANGED list
      BY <1>2, <3>2 DEF IInv, Lists, ListOf, Ordered, Resident, Seen, Live, list
    <3> QED  BY <1>2, <3>1, <3>2
  <2>2. Window(Len(order')) \in 0..SampleSize /\ Window(Len(order')) <= Len(order')
    BY <2>1, WindowFits
  <2>3. mu' \in Calls
    BY <1>2, <2>2 DEF Calls
  <2>4. Locals'
    BY <1>2, <2>3 DEF IInv, Locals, AddBegin
  <2>5. SampleHasElement' /\ Replies'
    BY <1>2, <2>1, <2>2 DEF SampleHasElement, Replies
  <2>6. Budget'
    BY <1>2, <2>1, CacheAssumption DEF IInv, Budget, Bounded, AddBegin, Unlocked
  <2> QED  BY <2>1, <2>4, <2>5, <2>6 DEF IInv
<1> QED  BY <1>1, <1>2 DEF AddBegin

LEMMA InsertIInv ==
  ASSUME IInv, Insert
  PROVE  IInv'
<1>1. /\ mu.key \in Keys /\ mu.life \in Lives
      /\ mu.op = "add" => mu.by \in Callers
  BY DEF IInv, Locals, Insert, Calls, Unlocked
<1>2. /\ entries' = [entries EXCEPT ![mu.key] = entries'[mu.key]]
      /\ entries'[mu.key] \in Lives
      /\ order' = Append(IF mu.key \in Resident THEN Without(mu.key) ELSE order, mu.key)
      /\ Used(mu.key) /\ UNCHANGED <<cursor, upgrading>>
      /\ mu' = [op |-> "evict", key |-> mu.key]
  BY <1>1 DEF Insert, IInv, Lists
<1>3. Lists'
  BY <1>1, <1>2, UsedLists DEF IInv
<1>4. Locals'
  <2>1. mu' \in Calls
    BY <1>1, <1>2 DEF Calls
  <2>2. answer' \in [Callers -> Answers]
    BY <1>1 DEF Insert, IInv, Locals, Tell, Answers
  <2> QED  BY <1>2, <2>1, <2>2 DEF IInv, Locals
<1>5. SampleHasElement' /\ Budget' /\ Replies'
  BY <1>2 DEF SampleHasElement, Budget, Replies, Sampling
<1> QED  BY <1>3, <1>4, <1>5 DEF IInv

\* evictLocked takes the element at the front.
LEMMA FrontResident ==
  ASSUME Lists, OverBudget
  PROVE  Head(order) \in Resident
<1>1. order \in Seq(Keys) /\ Len(order) > 0
  BY CacheAssumption DEF Lists, ListOf, OverBudget, Bounded
<1>2. Head(order) = order[1] /\ 1 \in 1..Len(order)
  BY <1>1
<1> QED  BY <1>2 DEF Lists, ListOf

LEMMA EvictIInv ==
  ASSUME IInv, Evict
  PROVE  IInv'
<1>1. CASE EvictStep
  <2>1. Head(order) \in Resident /\ cursor \in Resident \cup {Nil} /\ Lists
    BY <1>1, FrontResident DEF IInv, EvictStep, Lists
  <2>2. Lists'
    BY <1>1, <2>1, UnlinkLists DEF EvictStep
  <2>3. Locals' /\ SampleHasElement' /\ Budget' /\ Replies'
    BY <1>1 DEF EvictStep, IInv, Locals, SampleHasElement, Budget, Replies, Sampling
  <2> QED  BY <2>2, <2>3 DEF IInv
<1>2. CASE WriteReturn
  <2>1. Lists' /\ Locals'
    BY <1>2 DEF WriteReturn, IInv, Lists, ListOf, Ordered, Resident, Locals, Calls, list
  <2>2. Len(order) \in Nat
    BY DEF IInv, Lists, ListOf
  <2>3. SampleHasElement' /\ Budget' /\ Replies'
    BY <1>2, <2>2, CacheAssumption DEF WriteReturn, SampleHasElement, Budget, Replies, Sampling,
       Unlocked, OverBudget, Bounded, list
  <2> QED  BY <2>1, <2>3 DEF IInv
<1> QED  BY <1>1, <1>2 DEF Evict
\* A removal outside a sample, as Delete and PurgeExpired do it.
LEMMA RemoveIInv ==
  ASSUME IInv, NEW k \in Resident, mu.op \notin Sampling, Unlink(k, cursor),
         UNCHANGED <<mu, upgrading, answer>>
  PROVE  IInv'
<1>1. Lists' /\ Len(order') = Len(order) - 1 /\ Len(order) \in Nat \ {0}
  BY UnlinkLists DEF IInv, Lists
<1>2. Locals' /\ SampleHasElement' /\ Replies'
  BY DEF IInv, Locals, SampleHasElement, Replies, Sampling
<1>3. Budget'
  BY <1>1, CacheAssumption DEF IInv, Budget, Bounded
<1> QED  BY <1>1, <1>2, <1>3 DEF IInv

LEMMA ExpireIInv ==
  ASSUME IInv, NEW k \in Keys, Expire(k)
  PROVE  IInv'
<1>1. entries' = [entries EXCEPT ![k] = "expired"] /\ entries[k] = "leased"
      /\ mu = Unlocked /\ UNCHANGED <<order, cursor, older, mu, upgrading, answer>>
  BY DEF Expire
<1>2. Resident' = Resident
  BY <1>1 DEF IInv, Lists, Resident
<1>3. Lists'
  BY <1>1, <1>2 DEF IInv, Lists, ListOf, Ordered
<1>4. Locals' /\ SampleHasElement' /\ Budget' /\ Replies'
  BY <1>1 DEF IInv, Locals, SampleHasElement, Budget, Replies, Unlocked, Sampling
<1> QED  BY <1>3, <1>4 DEF IInv

\* The initial state satisfies the invariant.
LEMMA InitIInv == Init => IInv
<1> SUFFICES ASSUME Init PROVE IInv
  OBVIOUS
<1>1. Lists
  BY DEF Init, Lists, ListOf, Ordered, Resident
<1>2. Locals /\ SampleHasElement /\ Replies
  BY DEF Init, Locals, Calls, Unlocked, SampleHasElement, Replies, Sampling, Answers, NoAnswer
<1>3. Budget
  BY CacheAssumption DEF Init, Budget, Bounded
<1> QED  BY <1>1, <1>2, <1>3 DEF IInv

\* Every step keeps it.
LEMMA StepIInv == IInv /\ [Next]_vars => IInv'
<1> SUFFICES ASSUME IInv, [Next]_vars PROVE IInv'
  OBVIOUS
<1>1. CASE Get
  BY <1>1, GetReadIInv, GetUpgradeIInv, GetPromoteIInv, GetReturnIInv DEF Get
<1>2. CASE Set
  BY <1>2, SetBeginIInv DEF Set
<1>3. CASE Add
  BY <1>3, AddBeginIInv DEF Add
<1>4. CASE SampleStep
  BY <1>4, SampleIInv
<1>5. CASE Insert
  BY <1>5, InsertIInv
<1>6. CASE Evict
  BY <1>6, EvictIInv
<1>7. CASE Purge
  <2>1. CASE PurgeBegin
    BY <2>1 DEF PurgeBegin, IInv, Lists, ListOf, Ordered, Resident, Locals, Calls,
       SampleHasElement, Budget, Replies, Sampling, Unlocked, list
  <2>2. CASE PurgeReturn
    BY <2>2 DEF PurgeReturn, IInv, Lists, ListOf, Ordered, Resident, Locals, Calls,
       SampleHasElement, Budget, Replies, Sampling, Unlocked, list
  <2>3. ASSUME NEW k \in Keys, PurgeStep(k) PROVE IInv'
    <3>1. k \in Resident /\ mu.op \notin Sampling
      BY <2>3 DEF PurgeStep, Resident, Sampling
    <3> QED  BY <2>3, <3>1, RemoveIInv DEF PurgeStep
  <2> QED  BY <1>7, <2>1, <2>2, <2>3 DEF Purge
<1>8. ASSUME NEW k \in Keys, Delete(k) PROVE IInv'
  <2>1. mu.op \notin Sampling
    BY <1>8 DEF Delete, Unlocked, Sampling
  <2> QED  BY <1>8, <2>1, RemoveIInv DEF Delete
<1>9. ASSUME NEW k \in Keys, Expire(k) PROVE IInv'
  BY <1>9, ExpireIInv
<1>10. CASE UNCHANGED vars
  BY <1>10 DEF vars, list, IInv, Lists, ListOf, Ordered, Resident, Locals, SampleHasElement,
     Budget, Replies, Live
<1> QED
  BY <1>1, <1>2, <1>3, <1>4, <1>5, <1>6, <1>7, <1>8, <1>9, <1>10 DEF Next

\* The invariant holds in every state of the driver.
LEMMA Invariance == Spec => []IInv
  BY InitIInv, StepIInv, PTL DEF Spec

-----------------------------------------------------------------------------
(* Theorems *)

\* The types of map, list, cursor, lock and answers.
THEOREM TypeCorrect == Spec => []TypeOK
<1>1. IInv => TypeOK
  BY DEF IInv, Lists, Locals, ListOf, Resident, TypeOK
<1> QED  BY <1>1, Invariance, PTL

\* Each entry has one element of the list, and each element an entry.
THEOREM MapAndListAgree == Spec => []ListMatchesMap
<1>1. IInv => ListMatchesMap
  BY DEF IInv, Lists, ListOf, ListMatchesMap
<1> QED  BY <1>1, Invariance, PTL

\* The cursor is never left at an element that was removed.
THEOREM CursorValid == Spec => []CursorInList
<1>1. IInv => CursorInList
  BY DEF IInv, Lists, ListOf, CursorInList
<1> QED  BY <1>1, Invariance, PTL

\* A sample never asks an empty list for its front.
THEOREM SampleSafe == Spec => []SampleHasElement
<1>1. IInv => SampleHasElement
  BY DEF IInv
<1> QED  BY <1>1, Invariance, PTL

\* A bounded cache is within its bound whenever it is not locked.
THEOREM BoundKept == Spec => []WithinBound
<1>1. IInv => WithinBound
  BY DEF IInv, Budget, WithinBound, Unlocked
<1> QED  BY <1>1, Invariance, PTL

\* The list is in order of last use, so eviction takes the least recently used.
THEOREM OrderOfUse == Spec => []ListInOrderOfUse
<1>1. IInv => ListInOrderOfUse
  BY DEF IInv, Lists, Ordered, ListInOrderOfUse
<1> QED  BY <1>1, Invariance, PTL
-----------------------------------------------------------------------------
(* What callers see.                                                       *)

\* Putting anything but a live value under a key frees it.
LEMMA FreeSeen ==
  ASSUME Lists, NEW k \in Keys, NEW v, v \notin Lives, entries' = [entries EXCEPT ![k] = v]
  PROVE  Seen' = [Seen EXCEPT ![k] = "free"]
  BY DEF Lists, Seen, Live

\* Storing a live value shows it, and nothing else.
LEMMA StoreSeen ==
  ASSUME Lists, NEW k \in Keys, NEW v \in Lives, entries' = [entries EXCEPT ![k] = v]
  PROVE  Seen' = [Seen EXCEPT ![k] = v] /\ \A l \in Keys : Live(l) => Live(l)'
  BY DEF Lists, Seen, Live

\* A key is free to a caller exactly when it has no live value.
LEMMA SeenFree == \A k \in Keys : Seen[k] = "free" <=> ~Live(k)
  BY DEF Seen, Live, Lives

\* The steps a caller cannot see.
Hidden ==
  \/ Set \/ SampleStep \/ WriteReturn \/ Purge
  \/ \E c \in Callers : GetUpgrade(c)

LEMMA HiddenUnseen ==
  ASSUME IInv, Hidden
  PROVE  Seen' = Seen /\ answer' = answer
<1>1. CASE Set \/ WriteReturn \/ PurgeBegin \/ PurgeReturn
  BY <1>1 DEF Set, SetBegin, WriteReturn, PurgeBegin, PurgeReturn, list, Seen, Live
<1>2. CASE SampleStep
  BY <1>2, SampleIInv DEF SampleStep
<1>3. ASSUME NEW k \in Keys, PurgeStep(k) PROVE Seen' = Seen /\ answer' = answer
  BY <1>3, UnlinkUnseen DEF PurgeStep, IInv
<1>4. ASSUME NEW c \in Callers, GetUpgrade(c) PROVE Seen' = Seen /\ answer' = answer
  BY <1>4, GetUpgradeIInv DEF GetUpgrade, Reclaim
<1> QED  BY <1>1, <1>2, <1>3, <1>4 DEF Hidden, Purge

\* One step of the driver is one step of the store contract, or none.
LEMMA StepContract == IInv /\ [Next]_vars => [Contract!Next]_(Contract!vars)
<1> SUFFICES ASSUME IInv, [Next]_vars
             PROVE  Contract!Next \/ (Seen' = Seen /\ answer' = answer)
  BY DEF Contract!vars
<1>1. CASE Hidden
  BY <1>1, HiddenUnseen
<1>2. ASSUME NEW c \in Callers, NEW k \in Keys, GetRead(c, k)
      PROVE  Contract!Get(c, k) \/ (Seen' = Seen /\ answer' = answer)
  <2>1. Seen' = Seen
    BY <1>2 DEF GetRead, list, Seen, Live
  <2>2. CASE entries[k] = "absent" /\ Tell(c, k, "miss")
    <3>1. Seen[k] = "free"
      BY <2>2, SeenFree DEF Live, Lives
    <3> QED  BY <2>1, <2>2, <3>1 DEF Contract!Get, Contract!Tell, Tell
  <2>3. CASE Live(k) /\ Tell(c, k, "hit")
    <3>1. Seen[k] # "free"
      BY <2>3, SeenFree
    <3> QED  BY <2>1, <2>3, <3>1 DEF Contract!Get, Contract!Tell, Tell
  <2> QED  BY <1>2, <2>1, <2>2, <2>3 DEF GetRead
<1>3. ASSUME NEW c \in Callers, NEW k \in Keys, GetPromote(c, k)
      PROVE  Contract!Get(c, k) \/ (Seen' = Seen /\ answer' = answer)
  <2>1. Seen' = Seen
    BY <1>3, GetPromoteIInv
  <2>2. CASE Live(k) /\ Tell(c, k, "hit")
    <3>1. Seen[k] # "free"
      BY <2>2, SeenFree
    <3> QED  BY <2>1, <2>2, <3>1 DEF Contract!Get, Contract!Tell, Tell
  <2> QED  BY <1>3, <2>1, <2>2 DEF GetPromote, Reclaim
<1>4. ASSUME GetReturn
      PROVE  mu.by \in Callers /\ mu.key \in Keys /\ Contract!Get(mu.by, mu.key)
  <2>1. mu.by \in Callers /\ mu.key \in Keys /\ mu.reply \in {"hit", "miss"}
    BY <1>4 DEF IInv, Locals, GetReturn, Calls, Unlocked
  <2>2. mu.reply = IF Seen[mu.key] = "free" THEN "miss" ELSE "hit"
    BY <1>4, <2>1, SeenFree DEF IInv, Replies, GetReturn
  <2>3. Seen' = Seen
    BY <1>4 DEF GetReturn, list, Seen, Live
  <2> QED  BY <1>4, <2>1, <2>2, <2>3 DEF GetReturn, Tell, Contract!Get, Contract!Tell
<1>5. ASSUME NEW c \in Callers, NEW k \in Keys, NEW life \in Lives, AddBegin(c, k, life)
      PROVE  Contract!Add(c, k, life) \/ (Seen' = Seen /\ answer' = answer)
  <2>1. Seen' = Seen
    BY <1>5, AddBeginIInv
  <2>2. CASE Live(k) /\ Tell(c, k, "taken")
    <3>1. Seen[k] # "free"
      BY <2>2, SeenFree
    <3> QED  BY <2>1, <2>2, <3>1 DEF Contract!Add, Contract!Tell, Tell
  <2> QED  BY <1>5, <2>1, <2>2 DEF AddBegin
<1>6. ASSUME Insert PROVE Contract!Next
  <2>1. mu.key \in Keys /\ mu.life \in Lives /\ mu.op \in {"set", "add"}
    BY <1>6 DEF IInv, Locals, Insert, Calls, Unlocked
  <2>2. Seen' = [Seen EXCEPT ![mu.key] = mu.life]
    BY <1>6, <2>1, StoreSeen DEF Insert, IInv
  <2>3. CASE mu.op = "set"
    <3>1. Contract!Set(mu.key, mu.life)
      BY <1>6, <2>2, <2>3 DEF Insert, Contract!Set
    <3> QED  BY <2>1, <3>1 DEF Contract!Next, Contract!Lives, Lives
  <2>4. CASE mu.op = "add"
    <3>1. mu.by \in Callers /\ Seen[mu.key] = "free"
      BY <1>6, <2>1, <2>4, SeenFree DEF IInv, Locals, Calls, Unlocked, Replies
    <3>2. Contract!Add(mu.by, mu.key, mu.life)
      BY <1>6, <2>2, <2>4, <3>1 DEF Insert, Tell, Contract!Add, Contract!Tell
    <3> QED  BY <2>1, <3>1, <3>2 DEF Contract!Next, Contract!Lives, Lives
  <2> QED  BY <2>1, <2>3, <2>4
<1>7. ASSUME EvictStep PROVE Contract!Next
  <2>1. PICK k \in Keys : k = Head(order)
    BY <1>7, FrontResident DEF EvictStep, IInv, Resident
  <2>2. entries' = [entries EXCEPT ![k] = "absent"] /\ answer' = answer
    BY <1>7, <2>1 DEF EvictStep, Unlink
  <2>3. Seen' = [Seen EXCEPT ![k] = "free"]
    BY <2>2, FreeSeen DEF IInv, Lives
  <2>4. Contract!Evict(k)
    BY <1>7, <2>2, <2>3 DEF EvictStep, OverBudget, Contract!Evict, Contract!Free
  <2> QED  BY <2>1, <2>4 DEF Contract!Next
<1>8. ASSUME NEW k \in Keys, Delete(k) PROVE Contract!Delete(k)
  <2>1. entries' = [entries EXCEPT ![k] = "absent"] /\ answer' = answer
    BY <1>8 DEF Delete, Unlink
  <2>2. Seen' = [Seen EXCEPT ![k] = "free"]
    BY <2>1, FreeSeen DEF IInv, Lives
  <2> QED  BY <2>1, <2>2 DEF Contract!Delete, Contract!Free
<1>9. ASSUME NEW k \in Keys, Expire(k) PROVE Contract!Expire(k)
  <2>1. entries' = [entries EXCEPT ![k] = "expired"] /\ answer' = answer /\ entries[k] = "leased"
    BY <1>9 DEF Expire
  <2>2. Seen' = [Seen EXCEPT ![k] = "free"]
    BY <2>1, FreeSeen DEF IInv, Lives
  <2>3. Seen[k] = "leased"
    BY <2>1 DEF Seen, Live, Lives
  <2> QED  BY <2>1, <2>2, <2>3 DEF Contract!Expire, Contract!Free
<1>10. CASE UNCHANGED vars
  BY <1>10 DEF vars, list, Seen, Live
<1>11. ASSUME Get, ~Hidden PROVE Contract!Next \/ (Seen' = Seen /\ answer' = answer)
  BY <1>2, <1>3, <1>4, <1>11 DEF Get, Hidden, Contract!Next
<1>12. ASSUME Add PROVE Contract!Next \/ (Seen' = Seen /\ answer' = answer)
  <2>1. PICK c \in Callers, k \in Keys, life \in Lives : AddBegin(c, k, life)
    BY <1>12 DEF Add
  <2> QED  BY <2>1, <1>5 DEF Contract!Next, Contract!Lives, Lives
<1> QED
  BY <1>1, <1>6, <1>7, <1>8, <1>9, <1>10, <1>11, <1>12
     DEF Next, Hidden, Evict, Contract!Next

\* A step that takes a live value is a Delete, the end of its lifetime, or an
\* eviction.
LEMMA StepKeeps ==
  ASSUME IInv, [Next]_vars, NEW k \in Keys, Live(k), ~Live(k)'
  PROVE  Delete(k) \/ Expire(k) \/ EvictStep
<1>1. entries' # entries
  BY DEF Live
<1>2. CASE GetReturn \/ WriteReturn \/ PurgeBegin \/ PurgeReturn \/ Set \/ UNCHANGED vars
  BY <1>1, <1>2 DEF GetReturn, WriteReturn, PurgeBegin, PurgeReturn, Set, SetBegin, vars, list
<1>3. ASSUME Seen' = Seen PROVE FALSE
  <2>1. Seen[k] # "free" /\ Seen'[k] = "free"
    BY SeenFree DEF Seen, Live
  <2> QED  BY <1>3, <2>1
<1>4. ~Hidden
  BY <1>3, HiddenUnseen
<1>5. ~Add
  BY <1>3, AddBeginIInv DEF Add
<1>6. ~Get
  <2>1. ASSUME NEW c \in Callers, NEW l \in Keys, GetRead(c, l) PROVE FALSE
    BY <1>1, <2>1 DEF GetRead, list
  <2>2. ASSUME NEW c \in Callers, NEW l \in Keys, GetPromote(c, l) PROVE FALSE
    BY <1>3, <2>2, GetPromoteIInv
  <2>3. ~GetReturn
    BY <1>1 DEF GetReturn, list
  <2> QED  BY <1>4, <2>1, <2>2, <2>3 DEF Get, Hidden
<1>7. ASSUME Insert PROVE FALSE
  <2>1. mu.key \in Keys /\ mu.life \in Lives
    BY <1>7 DEF IInv, Locals, Insert, Calls, Unlocked
  <2>2. Live(k)'
    BY <1>7, <2>1, StoreSeen DEF Insert, IInv
  <2> QED  BY <2>2
<1>8. ASSUME NEW l \in Keys, Delete(l) \/ Expire(l) PROVE Delete(k) \/ Expire(k)
  <2>1. entries' = [entries EXCEPT ![l] = entries'[l]]
    BY <1>8 DEF Delete, Expire, Unlink, IInv, Lists
  <2>2. l = k
    BY <2>1 DEF Live, IInv, Lists
  <2> QED  BY <1>8, <2>2
<1> QED
  BY <1>2, <1>4, <1>5, <1>6, <1>7, <1>8 DEF Next, Hidden, Evict

\* No Get, sample or purge that raced a Set takes the live value it stored.
THEOREM ValuesKept == Spec => LiveValuesKept
<1>1. IInv /\ [Next]_vars =>
        [\A k \in Keys : Live(k) /\ ~Live(k)' => Delete(k) \/ Expire(k) \/ EvictStep]_vars
  BY StepKeeps
<1> QED  BY <1>1, Invariance, PTL DEF Spec, LiveValuesKept

\* Every behaviour of the driver is one its callers expect of a store.
THEOREM Refinement == Spec => ImplementsStore
<1>1. Init => Contract!Init
  BY DEF Init, Contract!Init, Seen, Live, Lives, NoAnswer, Contract!NoAnswer
<1> QED  BY <1>1, StepContract, Invariance, PTL DEF Spec, ImplementsStore, Contract!Spec
=============================================================================
