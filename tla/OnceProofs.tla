----------------------------- MODULE OnceProofs ------------------------------
(***************************************************************************)
(* Exclusion under a lease, for any number of keys and callers.            *)
(***************************************************************************)
EXTENDS Once, TLAPS

\* Calls under a key on which no lease ran out: there is one at most, and the
\* claim in place is its own.
Exclusive ==
  \A k \in Keys : k \notin lapsed =>
    /\ \A c, d \in On(k) : c = d
    /\ \A c \in On(k) : owner[k] = c /\ store[k] # "free" /\ k \notin kept

\* The history agrees with the store.
Claims ==
  \A k \in Keys :
    /\ owner[k] = Nil <=> store[k] = "free"
    /\ k \in kept => store[k] # "free"
    /\ store[k] # "free" => store[k] = "leased"

IInv == TypeOK /\ Exclusive /\ FailureReleases /\ Claims

LEMMA InitIInv == Init => IInv
BY OnceAssumption
   DEF Init, IInv, TypeOK, Exclusive, FailureReleases, Claims, On, Cache!Init,
       Cache!Lives, Cache!Answers

LEMMA TakeClaimIInv ==
  ASSUME IInv, NEW c \in Callers, NEW k \in Keys, TakeClaim(c, k)
  PROVE  IInv'
<1> USE OnceAssumption
<1>1. CASE store[k] # "free"
  <2>1. answer' = [answer EXCEPT ![c] = [key |-> k, was |-> "taken"]]
        /\ UNCHANGED <<store, at, key, owner, kept, lapsed>>
    BY <1>1 DEF TakeClaim, Cache!Add, Cache!Tell, calls
  <2>2. TypeOK'
    BY <2>1 DEF IInv, TypeOK, Cache!Answers
  <2> QED  BY <2>1, <2>2 DEF IInv, Exclusive, FailureReleases, Claims, On
<1>2. CASE store[k] = "free"
  <2>1. /\ at[c] = "idle" /\ at' = [at EXCEPT ![c] = "working"]
        /\ key' = [key EXCEPT ![c] = k]
        /\ owner' = [owner EXCEPT ![k] = c]
        /\ kept' = kept \ {k}
        /\ lapsed' = IF On(k) = {} THEN lapsed \ {k} ELSE lapsed
        /\ store' = [store EXCEPT ![k] = "leased"]
        /\ answer' = [answer EXCEPT ![c] = [key |-> k, was |-> "stored"]]
    BY <1>2 DEF TakeClaim, Granted, Cache!Add, Cache!Tell
  <2>2. TypeOK'
    BY <2>1 DEF IInv, TypeOK, Cache!Answers, Cache!Lives
  <2>3. \A l \in Keys : On(l)' = IF l = k THEN On(k) \cup {c} ELSE On(l)
    BY <2>1 DEF On, IInv, TypeOK
  <2>4. Exclusive'
    <3> SUFFICES ASSUME NEW l \in Keys, l \notin lapsed'
                 PROVE  /\ \A a, b \in On(l)' : a = b
                        /\ \A a \in On(l)' : /\ owner'[l] = a
                                             /\ store'[l] # "free" /\ l \notin kept'
      BY DEF Exclusive
    <3>1. CASE l = k
      <4>1. On(k) = {}
        BY <1>2, <2>1, <3>1 DEF IInv, Exclusive
      <4> QED  BY <2>1, <2>3, <3>1, <4>1 DEF IInv, TypeOK
    <3>2. CASE l # k
      BY <2>1, <2>3, <3>2 DEF IInv, Exclusive, TypeOK
    <3> QED  BY <3>1, <3>2
  <2>5. FailureReleases'
    BY <2>1, <2>3 DEF IInv, TypeOK, FailureReleases
  <2>6. Claims'
    BY <2>1 DEF IInv, TypeOK, Claims
  <2> QED  BY <2>2, <2>4, <2>5, <2>6 DEF IInv
<1> QED  BY <1>1, <1>2

\* A call that ends and leaves its claim in place.
LEMMA LeaveIInv ==
  ASSUME IInv, NEW c \in Callers, at[c] # "idle", Leave(c)
  PROVE  IInv'
<1> USE OnceAssumption
<1>0. PICK k \in Keys : key[c] = k
  BY DEF IInv, TypeOK
<1>1. /\ at' = [at EXCEPT ![c] = "idle"] /\ key' = [key EXCEPT ![c] = Nil]
      /\ kept' = IF owner[k] = c THEN kept \cup {k} ELSE kept
      /\ UNCHANGED <<store, answer, owner, lapsed>>
  BY <1>0 DEF Leave
<1>2. TypeOK'
  BY <1>1 DEF IInv, TypeOK
<1>3. \A l \in Keys : On(l)' = IF l = k THEN On(l) \ {c} ELSE On(l)
  BY <1>0, <1>1 DEF On, IInv, TypeOK
<1>4. c \in On(k)
  BY <1>0 DEF On
<1>5. Exclusive'
  BY <1>1, <1>3, <1>4 DEF IInv, Exclusive
<1>6. FailureReleases'
  BY <1>1, <1>3, <1>4 DEF IInv, FailureReleases
<1>7. Claims'
  BY <1>0, <1>1 DEF IInv, Claims
<1> QED  BY <1>2, <1>5, <1>6, <1>7 DEF IInv

LEMMA WorkFailIInv ==
  ASSUME IInv, NEW c \in Callers, WorkFail(c)
  PROVE  IInv'
<1>1. /\ at[c] = "working" /\ at' = [at EXCEPT ![c] = "release"]
      /\ UNCHANGED <<store, answer, key, owner, kept, lapsed>>
  BY DEF WorkFail
<1>2. TypeOK'
  BY <1>1 DEF IInv, TypeOK
<1>3. \A l \in Keys : On(l)' = On(l)
  BY <1>1 DEF On, IInv, TypeOK
<1> QED  BY <1>1, <1>2, <1>3 DEF IInv, Exclusive, FailureReleases, Claims

LEMMA ReleaseIInv ==
  ASSUME IInv, NEW c \in Callers, Release(c)
  PROVE  IInv'
<1> USE OnceAssumption
<1>1. CASE Leave(c)
  BY <1>1, LeaveIInv DEF Release
<1>2. CASE ~Leave(c)
  <2>0. PICK k \in Keys : key[c] = k
    BY DEF IInv, TypeOK, Release
  <2>1. /\ at[c] = "release" /\ at' = [at EXCEPT ![c] = "idle"]
        /\ key' = [key EXCEPT ![c] = Nil]
        /\ kept' = kept \ {k}
        /\ owner' = [owner EXCEPT ![k] = Nil]
        /\ store' = [store EXCEPT ![k] = "free"]
        /\ UNCHANGED <<answer, lapsed>>
    BY <1>2, <2>0 DEF Release, Cache!Delete, Cache!Free
  <2>2. TypeOK'
    BY <2>1 DEF IInv, TypeOK
  <2>3. \A l \in Keys : On(l)' = IF l = k THEN On(l) \ {c} ELSE On(l)
    BY <2>0, <2>1 DEF On, IInv, TypeOK
  <2>4. c \in On(k)
    BY <2>0, <2>1 DEF On
  <2>5. Exclusive'
    BY <2>1, <2>3, <2>4 DEF IInv, TypeOK, Exclusive
  <2>6. FailureReleases'
    BY <2>1, <2>3 DEF IInv, TypeOK, FailureReleases
  <2>7. Claims'
    BY <2>1 DEF IInv, TypeOK, Claims
  <2> QED  BY <2>2, <2>5, <2>6, <2>7 DEF IInv
<1> QED  BY <1>1, <1>2

LEMMA LapseIInv ==
  ASSUME IInv, NEW k \in Keys, Lapse(k)
  PROVE  IInv'
<1> USE OnceAssumption
<1>1. /\ store[k] = "leased" /\ store' = [store EXCEPT ![k] = "free"]
      /\ owner' = [owner EXCEPT ![k] = Nil]
      /\ kept' = kept \ {k}
      /\ lapsed' = IF k \notin kept THEN lapsed \cup {k} ELSE lapsed
      /\ UNCHANGED <<answer, at, key>>
  BY DEF Lapse, calls, Cache!Expire, Cache!Evict, Cache!Free
<1>2. TypeOK'
  BY <1>1 DEF IInv, TypeOK
<1>3. \A l \in Keys : On(l)' = On(l)
  BY <1>1 DEF On
<1>4. Exclusive'
  BY <1>1, <1>3 DEF IInv, TypeOK, Exclusive
<1>5. FailureReleases'
  BY <1>1, <1>3 DEF IInv, TypeOK, FailureReleases
<1>6. Claims'
  BY <1>1 DEF IInv, TypeOK, Claims
<1> QED  BY <1>2, <1>4, <1>5, <1>6 DEF IInv

LEMMA OnceInvariance == Spec => []IInv
<1>1. IInv /\ [Next]_vars => IInv'
  <2> SUFFICES ASSUME IInv, [Next]_vars PROVE IInv'
    OBVIOUS
  <2>1. CASE \E c \in Callers, k \in Keys : TakeClaim(c, k)
    BY <2>1, TakeClaimIInv
  <2>2. CASE \E c \in Callers : WorkDone(c)
    BY <2>2, LeaveIInv DEF WorkDone
  <2>3. CASE \E c \in Callers : WorkFail(c)
    BY <2>3, WorkFailIInv
  <2>4. CASE \E c \in Callers : Release(c)
    BY <2>4, ReleaseIInv
  <2>5. CASE \E k \in Keys : Lapse(k)
    BY <2>5, LapseIInv
  <2>6. CASE UNCHANGED vars
    BY <2>6 DEF vars, calls, IInv, TypeOK, Exclusive, FailureReleases, Claims, On
  <2> QED  BY <2>1, <2>2, <2>3, <2>4, <2>5, <2>6 DEF Next
<1> QED  BY <1>1, InitIInv, PTL DEF Spec

\* Once runs work under a key for one caller at a time, unless a lease ran out
\* while its holder was at work.
THEOREM Exclusion == Spec => []NoOverlap
<1>1. IInv => NoOverlap
  BY DEF IInv, Exclusive, NoOverlap, Running
<1> QED  BY <1>1, OnceInvariance, PTL

\* Work that failed, and whose release did not fail, leaves no claim behind.
THEOREM RetriesAdmitted == Spec => []FailureReleases
<1>1. IInv => FailureReleases
  BY DEF IInv
<1> QED  BY <1>1, OnceInvariance, PTL
=============================================================================
