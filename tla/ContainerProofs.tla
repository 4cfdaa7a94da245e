--------------------------- MODULE ContainerProofs ----------------------------
(***************************************************************************)
(* Theorems about Container and the Wiring generated beside it, for any    *)
(* services, registrations and number of goroutines.                       *)
(***************************************************************************)
EXTENDS Wiring, SequenceTheorems, FiniteSetTheorems, TLAPS

Frame == [key : Services, next : Nat \ {0}]
KeysOf(s) == {s[i].key : i \in DOMAIN s}
Distinct(s) == \A i, j \in DOMAIN s : s[i].key = s[j].key => i = j

-----------------------------------------------------------------------------
(* The inductive invariant                                                 *)

\* TypeOK without its last conjuncts, and the graph that Validate walks.
Types ==
  /\ Registered \subseteq Services
  /\ \A s \in Registered : registry[s] \in Registrations /\ registry[s].key = s
  /\ ready \subseteq Registered /\ checked \subseteq Registered
  /\ "snapshot" \in DOMAIN walk /\ DOMAIN walk.snapshot \subseteq Registered
  /\ mutex \in [Services -> Goroutines \cup {"nobody"}]
  /\ built \in [Services -> Nat]
  /\ pc \in [Goroutines -> {"idle", "enter", "build", "value", "fail"}]
  /\ want \in [Goroutines -> Services \cup {"none"}]
  /\ stack \in [Goroutines -> Seq(Frame)]

\* A goroutine enters resolve with a service and build with a frame, and no service
\* is built inside itself.
Control ==
  \A g \in Goroutines :
    /\ pc[g] = "enter" => want[g] \in Services
    /\ pc[g] = "build" => stack[g] # <<>>
    /\ KeysOf(stack[g]) \subseteq Registered
    /\ Distinct(stack[g])

\* The mutex of a singleton is held exactly by the goroutine that builds it.
Locks ==
  /\ \A s \in Services \ Registered : mutex[s] = "nobody"
  /\ \A g \in Goroutines, s \in Registered :
       mutex[s] = g <=> registry[s].lifetime = "singleton" /\ s \in KeysOf(stack[g])

\* A singleton is stored once, and while it is built there is no instance of it.
Stored ==
  /\ \A s \in Services : built[s] <= 1 /\ (s \notin ready => built[s] = 0)
  /\ \A s \in Registered : registry[s].source = "instance" => s \in ready /\ built[s] = 0
  /\ \A g \in Goroutines, s \in Registered :
       registry[s].lifetime = "singleton" /\ s \in KeysOf(stack[g]) => s \notin ready

IInv == Types /\ Control /\ Locks /\ Stored

-----------------------------------------------------------------------------
(* Lemmas on the stack of builds                                           *)

\* What a push, a pop and the delivery of an argument leave.
Grown(s, t, k) ==
  t \in Seq(Frame) /\ t # <<>> /\ KeysOf(t) = KeysOf(s) \cup {k} /\ Distinct(t)
Shrunk(s, t, k) ==
  t \in Seq(Frame) /\ k \in KeysOf(s) /\ KeysOf(t) = KeysOf(s) \ {k} /\ Distinct(t)
Moved(s, t) ==
  t \in Seq(Frame) /\ t # <<>> /\ KeysOf(t) = KeysOf(s) /\ Distinct(t)

LEMMA PushOf ==
  ASSUME NEW s \in Seq(Frame), Distinct(s), NEW k \in Services, k \notin KeysOf(s)
  PROVE  Grown(s, Append(s, [key |-> k, next |-> 1]), k)
<1> DEFINE f == [key |-> k, next |-> 1]
           t == Append(s, f)
           n == Len(s)
<1>1. f \in Frame /\ f.key = k
  BY DEF Frame
<1> HIDE DEF f
<1>2. /\ t \in Seq(Frame) /\ t # <<>> /\ n \in Nat /\ DOMAIN s = 1..n /\ DOMAIN t = 1..(n + 1)
      /\ \A i \in 1..n : t[i] = s[i]
      /\ t[n + 1] = f
  BY <1>1
<1> HIDE DEF t, n
<1>3. KeysOf(t) = KeysOf(s) \cup {k}
  BY <1>1, <1>2 DEF KeysOf
<1>4. Distinct(t)
  <2>1. \A i \in 1..n : s[i].key # k
    BY <1>2 DEF KeysOf
  <2>2. \A i \in 1..(n + 1) : i \in 1..n \/ i = n + 1
    BY <1>2
  <2> QED  BY <1>1, <1>2, <2>1, <2>2 DEF Distinct
<1> QED  BY <1>2, <1>3, <1>4 DEF Grown, t, f

LEMMA PopOf ==
  ASSUME NEW s \in Seq(Frame), Distinct(s), s # <<>>
  PROVE  Shrunk(s, Pop(s), Top(s).key) /\ Top(s) \in Frame
<1> DEFINE n == Len(s) - 1
           t == SubSeq(s, 1, n)
           k == s[n + 1].key
<1>1. n \in Nat /\ DOMAIN s = 1..(n + 1) /\ \A i \in 1..(n + 1) : s[i] \in Frame
  OBVIOUS
<1>2. t \in Seq(Frame) /\ DOMAIN t = 1..n /\ \A i \in 1..n : t[i] = s[i]
  <2>1. 1 \in Int /\ n \in Int /\ \A i \in 1..n : s[i] \in Frame
    BY <1>1
  <2>2. /\ t \in Seq(Frame) /\ Len(t) = IF 1 <= n THEN n - 1 + 1 ELSE 0
        /\ \A i \in 1..(n - 1 + 1) : t[i] = s[1 + i - 1]
    <3> HIDE DEF n
    <3> QED  BY <2>1, SubSeqProperties
  <2> HIDE DEF t, n
  <2> QED  BY <1>1, <2>2
<1>3. Pop(s) = t /\ Top(s) = s[n + 1]
  BY <1>1 DEF Pop, Top
<1> HIDE DEF n, t
<1>4. \A i \in 1..(n + 1) : i \in 1..n \/ i = n + 1
  BY <1>1
<1>5. n + 1 \in 1..(n + 1) /\ \A i \in 1..n : i \in 1..(n + 1) /\ i # n + 1
  BY <1>1
<1>6. \A i \in 1..n : s[i].key # k
  BY <1>1, <1>5 DEF Distinct
<1>7. KeysOf(t) = KeysOf(s) \ {k} /\ k \in KeysOf(s)
  BY <1>1, <1>2, <1>4, <1>5, <1>6 DEF KeysOf
<1>8. Distinct(t)
  BY <1>1, <1>2, <1>5 DEF Distinct
<1> QED  BY <1>1, <1>2, <1>3, <1>5, <1>7, <1>8 DEF Shrunk

LEMMA AdvanceOf ==
  ASSUME NEW s \in Seq(Frame), Distinct(s), s # <<>>
  PROVE  Moved(s, Advance(s))
<1> DEFINE n == Len(s)
           f == [s[n] EXCEPT !.next = @ + 1]
           t == [s EXCEPT ![n] = f]
<1>1. n \in Nat /\ DOMAIN s = 1..n /\ n \in 1..n /\ \A i \in 1..n : s[i] \in Frame
  OBVIOUS
<1>2. Advance(s) = t
  BY DEF Advance
<1>3. f \in Frame /\ f.key = s[n].key
  <2>1. s[n] \in Frame
    BY <1>1
  <2> HIDE DEF n
  <2> QED  BY <2>1 DEF Frame
<1> HIDE DEF f
<1>4. t \in Seq(Frame) /\ DOMAIN t = 1..n /\ t # <<>>
  BY <1>1, <1>3
<1>5. \A i \in 1..n : t[i] = IF i = n THEN f ELSE s[i]
  BY <1>1
<1> HIDE DEF t, n
<1>6. \A i \in 1..n : t[i].key = s[i].key
  BY <1>3, <1>5
<1>7. KeysOf(t) = KeysOf(s) /\ Distinct(t)
  BY <1>1, <1>4, <1>6 DEF KeysOf, Distinct
<1> QED  BY <1>2, <1>4, <1>7 DEF Moved

-----------------------------------------------------------------------------
(* Steps of one goroutine                                                  *)

Places == {"idle", "enter", "build", "value", "fail"}

\* A goroutine goes to p, asks for w and builds t; the graph stays.
Goes(g, p, w, t) ==
  /\ pc' = [pc EXCEPT ![g] = p] /\ want' = [want EXCEPT ![g] = w]
  /\ stack' = [stack EXCEPT ![g] = t]
  /\ UNCHANGED graph

\* The same, of the types a step must keep.
GoesTyped(g, p, w, t) ==
  /\ p \in Places /\ w \in Services \cup {"none"} /\ t \in Seq(Frame)
  /\ KeysOf(t) \subseteq Registered /\ Distinct(t)
  /\ p = "enter" => w \in Services
  /\ p = "build" => t # <<>>
  /\ Goes(g, p, w, t)
  /\ ready' \subseteq Registered /\ mutex' \in [Services -> Goroutines \cup {"nobody"}]
  /\ built' \in [Services -> Nat]

LEMMA Gone ==
  ASSUME IInv, NEW g \in Goroutines, NEW p, NEW w, NEW t, GoesTyped(g, p, w, t)
  PROVE  /\ Types' /\ Control' /\ UNCHANGED registry
         /\ \A h \in Goroutines : stack'[h] = IF h = g THEN t ELSE stack[h]
<1> USE DEF GoesTyped
<1>1. UNCHANGED <<registry, checked, walk>>
  BY DEF Goes, graph
<1>2. Types'
  BY <1>1 DEF IInv, Types, Registered, Goes, Places
<1>3. /\ \A h \in Goroutines : stack'[h] = IF h = g THEN t ELSE stack[h]
      /\ \A h \in Goroutines : pc'[h] = IF h = g THEN p ELSE pc[h]
      /\ \A h \in Goroutines : want'[h] = IF h = g THEN w ELSE want[h]
  BY DEF IInv, Types, Goes
<1>4. Control'
  BY <1>1, <1>3 DEF IInv, Control, Registered
<1> QED  BY <1>1, <1>2, <1>3, <1>4

\* A step that begins or ends no build.
LEMMA GoesQuietly ==
  ASSUME IInv, NEW g \in Goroutines, NEW p \in Places, NEW w \in Services \cup {"none"},
         NEW t, t = stack[g] \/ Moved(stack[g], t), Goes(g, p, w, t),
         UNCHANGED <<ready, mutex, built>>,
         p = "enter" => w \in Services, p = "build" => t # <<>>
  PROVE  IInv'
<1>1. stack[g] \in Seq(Frame) /\ KeysOf(stack[g]) \subseteq Registered /\ Distinct(stack[g])
  BY DEF IInv, Types, Control
<1>2. t \in Seq(Frame) /\ KeysOf(t) = KeysOf(stack[g]) /\ Distinct(t)
  BY <1>1 DEF Moved
<1>3. /\ Types' /\ Control' /\ UNCHANGED registry
      /\ \A h \in Goroutines : stack'[h] = IF h = g THEN t ELSE stack[h]
  <2>1. /\ ready' \subseteq Registered /\ mutex' \in [Services -> Goroutines \cup {"nobody"}]
        /\ built' \in [Services -> Nat] /\ KeysOf(t) \subseteq Registered
    BY <1>1, <1>2 DEF IInv, Types
  <2>2. GoesTyped(g, p, w, t)
    BY <1>2, <2>1 DEF GoesTyped
  <2> QED  BY <2>2, Gone
<1>4. \A h \in Goroutines : KeysOf(stack'[h]) = KeysOf(stack[h])
  BY <1>2, <1>3
<1>5. Locks' /\ Stored'
  BY <1>3, <1>4 DEF IInv, Locks, Stored, Registered
<1> QED  BY <1>3, <1>5 DEF IInv

\* A build begins; that of a singleton takes its free mutex.
LEMMA Begins ==
  ASSUME IInv, NEW g \in Goroutines, NEW k \in Registered, k \notin KeysOf(stack[g]),
         Goes(g, "build", "none", Append(stack[g], [key |-> k, next |-> 1])),
         UNCHANGED <<ready, built>>,
         IF registry[k].lifetime = "singleton"
           THEN mutex[k] = "nobody" /\ k \notin ready /\ mutex' = [mutex EXCEPT ![k] = g]
           ELSE mutex' = mutex
  PROVE  IInv'
<1> DEFINE t == Append(stack[g], [key |-> k, next |-> 1])
<1>1. stack[g] \in Seq(Frame) /\ KeysOf(stack[g]) \subseteq Registered /\ Distinct(stack[g])
      /\ k \in Services
  BY DEF IInv, Types, Control
<1>2. Grown(stack[g], t, k) /\ Goes(g, "build", "none", t)
  BY <1>1, PushOf
<1> HIDE DEF t
<1>3. /\ t \in Seq(Frame) /\ t # <<>> /\ KeysOf(t) = KeysOf(stack[g]) \cup {k} /\ Distinct(t)
      /\ KeysOf(t) \subseteq Registered
  BY <1>1, <1>2 DEF Grown
<1>4. mutex' \in [Services -> Goroutines \cup {"nobody"}]
  BY DEF IInv, Types
<1>5. "build" \in Places /\ "build" # "enter" /\ "none" \in Services \cup {"none"}
  BY DEF Places
<1>6. /\ Types' /\ Control' /\ UNCHANGED registry
      /\ \A h \in Goroutines : stack'[h] = IF h = g THEN t ELSE stack[h]
  <2>1. ready' \subseteq Registered /\ built' \in [Services -> Nat]
    BY DEF IInv, Types
  <2>2. GoesTyped(g, "build", "none", t)
    BY <1>2, <1>3, <1>4, <1>5, <2>1 DEF GoesTyped
  <2> QED  BY <2>2, Gone
<1>7. Locks'
  <2>1. \A s \in Services \ Registered : mutex'[s] = "nobody"
    BY DEF IInv, Types, Locks
  <2>2. ASSUME NEW h \in Goroutines, NEW s \in Registered
        PROVE  mutex'[s] = h <=> registry[s].lifetime = "singleton" /\ s \in KeysOf(stack'[h])
    <3>1. mutex[s] = h <=> registry[s].lifetime = "singleton" /\ s \in KeysOf(stack[h])
      BY DEF IInv, Locks
    <3>2. h # "nobody"
      BY ContainerAssumption
    <3>3. mutex'[s] = IF s = k /\ registry[k].lifetime = "singleton" THEN g ELSE mutex[s]
      BY DEF IInv, Types
    <3> QED  BY <1>3, <1>6, <3>1, <3>2, <3>3
  <2> QED  BY <1>6, <2>1, <2>2 DEF Locks, Registered
<1>8. Stored'
  <2>1. ASSUME NEW h \in Goroutines, NEW s \in Registered,
               registry[s].lifetime = "singleton", s \in KeysOf(stack'[h])
        PROVE  s \notin ready
    BY <1>3, <1>6, <2>1 DEF IInv, Stored
  <2> QED  BY <1>6, <2>1 DEF IInv, Stored, Registered
<1> QED  BY <1>6, <1>7, <1>8 DEF IInv

\* A build ends; that of a singleton gives its mutex back, and may leave an instance.
LEMMA Ends ==
  ASSUME IInv, NEW g \in Goroutines, stack[g] # <<>>, NEW p \in {"value", "fail"},
         NEW k, k = Top(stack[g]).key, Goes(g, p, want[g], Pop(stack[g])),
         mutex' = IF registry[k].lifetime = "singleton"
                  THEN [mutex EXCEPT ![k] = "nobody"] ELSE mutex,
         \/ UNCHANGED <<ready, built>>
         \/ /\ registry[k].lifetime = "singleton"
            /\ ready' = ready \cup {k} /\ built' = [built EXCEPT ![k] = @ + 1]
  PROVE  IInv'
<1> DEFINE t == Pop(stack[g])
<1>1. stack[g] \in Seq(Frame) /\ KeysOf(stack[g]) \subseteq Registered /\ Distinct(stack[g])
      /\ want[g] \in Services \cup {"none"}
  BY DEF IInv, Types, Control
<1>2. Shrunk(stack[g], t, k) /\ Goes(g, p, want[g], t)
  BY <1>1, PopOf
<1> HIDE DEF t
<1>3. /\ t \in Seq(Frame) /\ KeysOf(t) = KeysOf(stack[g]) \ {k} /\ Distinct(t)
      /\ KeysOf(t) \subseteq Registered /\ k \in KeysOf(stack[g]) /\ k \in Registered
      /\ k \in Services
  BY <1>1, <1>2 DEF Shrunk, IInv, Types
<1>4. /\ mutex' \in [Services -> Goroutines \cup {"nobody"}]
      /\ built' \in [Services -> Nat] /\ ready' \subseteq Registered
  BY <1>3 DEF IInv, Types
<1>5. p \in Places /\ p \notin {"enter", "build"}
  BY DEF Places
<1>6. /\ Types' /\ Control' /\ UNCHANGED registry
      /\ \A h \in Goroutines : stack'[h] = IF h = g THEN t ELSE stack[h]
  <2>1. GoesTyped(g, p, want[g], t)
    BY <1>1, <1>2, <1>3, <1>4, <1>5 DEF GoesTyped
  <2> QED  BY <2>1, Gone
<1>7. \A h \in Goroutines, s \in Registered :
        mutex[s] = h <=> registry[s].lifetime = "singleton" /\ s \in KeysOf(stack[h])
  BY DEF IInv, Locks
<1>8. "nobody" \notin Goroutines
  BY ContainerAssumption
<1>9. \A s \in Services :
        mutex'[s] = IF s = k /\ registry[k].lifetime = "singleton" THEN "nobody" ELSE mutex[s]
  BY <1>3 DEF IInv, Types
<1>10. Locks'
  <2>1. \A s \in Services \ Registered : mutex'[s] = "nobody"
    BY <1>9 DEF IInv, Locks
  <2>2. ASSUME NEW h \in Goroutines, NEW s \in Registered
        PROVE  mutex'[s] = h <=> registry[s].lifetime = "singleton" /\ s \in KeysOf(stack'[h])
    <3>1. s \in Services
      BY DEF IInv, Types
    <3>2. CASE s # k \/ registry[k].lifetime # "singleton"
      BY <1>3, <1>6, <1>7, <1>9, <3>1, <3>2
    <3>3. CASE s = k /\ registry[k].lifetime = "singleton"
      <4>1. mutex'[s] = "nobody" /\ mutex[k] = g
        BY <1>3, <1>7, <1>9, <3>1, <3>3
      <4>2. s \notin KeysOf(stack'[h])
        BY <1>3, <1>6, <1>7, <3>3, <4>1
      <4> QED  BY <1>8, <4>1, <4>2
    <3> QED  BY <3>2, <3>3
  <2> QED  BY <1>6, <2>1, <2>2 DEF Locks, Registered
<1>11. Stored'
  <2>1. ASSUME NEW h \in Goroutines, NEW s \in Registered,
               registry[s].lifetime = "singleton", s \in KeysOf(stack'[h])
        PROVE  s \notin ready'
    <3>1. s \in KeysOf(stack[h]) /\ (h = g => s # k)
      BY <1>3, <1>6, <2>1
    <3>2. s \notin ready /\ mutex[s] = h
      BY <1>7, <2>1, <3>1 DEF IInv, Stored
    <3>3. s = k /\ registry[k].lifetime = "singleton" => h = g
      BY <1>3, <1>7, <3>2
    <3> QED  BY <3>1, <3>2, <3>3
  <2>2. CASE UNCHANGED <<ready, built>>
    BY <1>6, <2>1, <2>2 DEF IInv, Stored, Registered
  <2>3. CASE /\ registry[k].lifetime = "singleton"
             /\ ready' = ready \cup {k} /\ built' = [built EXCEPT ![k] = @ + 1]
    <3>1. k \notin ready /\ built[k] = 0
      BY <1>3, <2>3 DEF IInv, Stored
    <3>2. \A s \in Services : built'[s] = IF s = k THEN 1 ELSE built[s]
      BY <2>3, <3>1 DEF IInv, Types
    <3>3. \A s \in Services : built'[s] <= 1 /\ (s \notin ready' => built'[s] = 0)
      BY <2>3, <3>2 DEF IInv, Stored
    <3>4. \A s \in Registered : registry[s].source = "instance" => s \in ready' /\ built'[s] = 0
      BY <2>3, <3>1, <3>2 DEF IInv, Stored, Types
    <3> QED  BY <1>6, <2>1, <3>3, <3>4 DEF Stored, Registered
  <2> QED  BY <2>2, <2>3
<1> QED  BY <1>6, <1>10, <1>11 DEF IInv

-----------------------------------------------------------------------------
(* The actions                                                             *)

LEMMA ProvideKeeps ==
  ASSUME IInv, NEW r \in Registrations, Provide(r)
  PROVE  IInv'
<1> DEFINE k == r.key
<1>1. k \in Services \ Registered
  BY ContainerAssumption DEF Provide
<1>2. /\ Registered' = Registered \cup {k} /\ registry'[k] = r
      /\ \A s \in Registered : registry'[s] = registry[s]
  BY <1>1 DEF Provide, Extended, Registered
<1>3. /\ ready' = IF r.source = "instance" THEN ready \cup {k} ELSE ready
      /\ UNCHANGED <<mutex, built, pc, want, stack, checked, walk>>
  BY DEF Provide
<1>4. \A g \in Goroutines : KeysOf(stack[g]) \subseteq Registered
  BY DEF IInv, Control
<1>5. Types'
  BY <1>1, <1>2, <1>3 DEF IInv, Types
<1>6. Control'
  BY <1>2, <1>3 DEF IInv, Control
<1>7. Locks'
  <2>1. \A g \in Goroutines : mutex[k] # g /\ k \notin KeysOf(stack[g])
    BY <1>1, <1>4, ContainerAssumption DEF IInv, Locks
  <2> QED  BY <1>1, <1>2, <1>3, <2>1 DEF IInv, Locks
<1>8. Stored'
  <2>1. k \notin ready /\ built[k] = 0
    BY <1>1 DEF IInv, Types, Stored
  <2>2. \A g \in Goroutines : k \notin KeysOf(stack[g])
    BY <1>1, <1>4
  <2> HIDE DEF k
  <2>3. \A s \in Registered' : s = k \/ s \in Registered
    BY <1>2
  <2>4. \A s \in Services : built'[s] <= 1 /\ (s \notin ready' => built'[s] = 0)
    BY <1>3 DEF IInv, Stored
  <2>5. \A s \in Registered' : registry'[s].source = "instance" => s \in ready' /\ built'[s] = 0
    BY <1>2, <1>3, <2>1, <2>3 DEF IInv, Stored
  <2>6. \A g \in Goroutines, s \in Registered' :
          registry'[s].lifetime = "singleton" /\ s \in KeysOf(stack'[g]) => s \notin ready'
    BY <1>2, <1>3, <2>2, <2>3 DEF IInv, Stored
  <2> QED  BY <2>4, <2>5, <2>6 DEF Stored
<1> QED  BY <1>5, <1>6, <1>7, <1>8 DEF IInv

\* Validate changes nothing but its walk, and what it has checked.
LEMMA ValidateKeeps ==
  ASSUME IInv, Validate
  PROVE  IInv'
<1>1. UNCHANGED <<registry, ready, mutex, built, pc, want, stack>>
  BY DEF Validate, ValidateBegin, VisitRoot, VisitInput, VisitEnd, ValidateOk, builders
<1>2. /\ "snapshot" \in DOMAIN walk' /\ DOMAIN walk'.snapshot \subseteq Registered
      /\ checked' \subseteq Registered
  <2>1. "snapshot" \in DOMAIN walk /\ DOMAIN walk.snapshot \subseteq Registered
        /\ checked \subseteq Registered
    BY DEF IInv, Types
  <2>2. "snapshot" \in DOMAIN NoWalk /\ DOMAIN NoWalk.snapshot = {}
    BY DEF NoWalk
  <2>3. CASE ValidateBegin
    BY <2>1, <2>3 DEF ValidateBegin, Registered
  <2>4. CASE VisitRoot
    BY <2>1, <2>4 DEF VisitRoot, Enter
  <2>5. CASE VisitInput
    BY <2>1, <2>2, <2>5 DEF VisitInput, Enter
  <2>6. CASE VisitEnd
    BY <2>1, <2>6 DEF VisitEnd
  <2>7. CASE ValidateOk
    BY <2>1, <2>2, <2>7 DEF ValidateOk
  <2> QED  BY <2>3, <2>4, <2>5, <2>6, <2>7 DEF Validate
<1>3. Types'
  BY <1>1, <1>2 DEF IInv, Types, Registered
<1>4. Control' /\ Locks' /\ Stored'
  BY <1>1 DEF IInv, Control, Locks, Stored, Registered
<1> QED  BY <1>3, <1>4 DEF IInv

LEMMA StackOf ==
  ASSUME IInv, NEW g \in Goroutines
  PROVE  /\ stack[g] \in Seq(Frame) /\ KeysOf(stack[g]) \subseteq Registered
         /\ Distinct(stack[g]) /\ Building(g) = KeysOf(stack[g])
         /\ want[g] \in Services \cup {"none"} /\ pc[g] \in Places
         /\ [stack EXCEPT ![g] = stack[g]] = stack /\ [want EXCEPT ![g] = want[g]] = want
         /\ [pc EXCEPT ![g] = pc[g]] = pc
         /\ pc[g] = "build" => stack[g] # <<>>
BY DEF IInv, Types, Control, Building, KeysOf, Places

\* The steps that ask, refuse and deliver.
LEMMA QuietSteps ==
  ASSUME IInv, NEW g \in Goroutines, Resolve(g) \/ Refuse(g) \/ Argument(g) \/ Deliver(g)
  PROVE  IInv'
<1>1. CASE Resolve(g)
  <2>1. PICK s \in Services : Ask(g, s)
    BY <1>1 DEF Resolve
  <2>2. Goes(g, "enter", s, stack[g])
    BY <1>1, <2>1, StackOf DEF Resolve, Ask, Goto, Goes
  <2> QED  BY <1>1, <2>2, GoesQuietly DEF Resolve, Places
<1>2. CASE Refuse(g)
  <2>1. Goes(g, "fail", "none", stack[g])
    BY <1>2, StackOf DEF Refuse, Leave, Goto, Goes
  <2> QED  BY <1>2, <2>1, GoesQuietly DEF Refuse, Places
<1>3. CASE Argument(g)
  <2> DEFINE i == Top(stack[g]).next
             w == Current(g).inputs[i]
  <2>1. Top(stack[g]).key \in Registered /\ i \in Nat \ {0}
    <3>1. Shrunk(stack[g], Pop(stack[g]), Top(stack[g]).key) /\ Top(stack[g]) \in Frame
      BY <1>3, StackOf, PopOf DEF Argument
    <3> QED  BY <3>1, StackOf DEF Shrunk, Frame
  <2>2. Current(g).inputs \in Seq(Services)
    BY <2>1, ContainerAssumption DEF Current, IInv, Types
  <2>3. w \in Services
    BY <1>3, <2>1, <2>2 DEF Argument
  <2>4. Goes(g, "enter", w, stack[g])
    BY <1>3, StackOf DEF Argument, Ask, Goto, Goes
  <2> HIDE DEF w
  <2> QED  BY <1>3, <2>3, <2>4, GoesQuietly DEF Argument, Places
<1>4. CASE Deliver(g)
  <2>1. CASE stack[g] = <<>>
    <3>1. Goes(g, "idle", want[g], stack[g])
      BY <1>4, <2>1, StackOf DEF Deliver, Goto, Goes
    <3> QED  BY <1>4, <3>1, StackOf, GoesQuietly DEF Deliver, Places
  <2>2. CASE stack[g] # <<>>
    <3>1. Moved(stack[g], Advance(stack[g]))
      BY <2>2, StackOf, AdvanceOf
    <3>2. Goes(g, "build", want[g], Advance(stack[g]))
      BY <1>4, <2>2, StackOf DEF Deliver, Goto, Goes
    <3> QED  BY <1>4, <3>1, <3>2, StackOf, GoesQuietly DEF Deliver, Places, Moved
  <2> QED  BY <2>1, <2>2
<1> QED  BY <1>1, <1>2, <1>3, <1>4

LEMMA BeginTransientKeeps ==
  ASSUME IInv, NEW g \in Goroutines, BeginTransient(g)
  PROVE  IInv'
<1>1. want[g] \in Registered /\ want[g] \notin KeysOf(stack[g])
  BY StackOf DEF BeginTransient
<1>2. Goes(g, "build", "none", Append(stack[g], [key |-> want[g], next |-> 1]))
  BY DEF BeginTransient, Push, Leave, Goto, Goes, IInv, Types
<1> QED  BY <1>1, <1>2, Begins DEF BeginTransient

LEMMA BeginSingletonKeeps ==
  ASSUME IInv, NEW g \in Goroutines, BeginSingleton(g)
  PROVE  IInv'
<1>1. want[g] \in Registered /\ want[g] \notin KeysOf(stack[g])
  BY StackOf DEF BeginSingleton
<1>2. CASE want[g] \in ready
  <2>1. Goes(g, "value", "none", stack[g])
    BY <1>2, StackOf DEF BeginSingleton, Leave, Goto, Goes
  <2> QED  BY <1>2, <2>1, GoesQuietly DEF BeginSingleton, Places
<1>3. CASE want[g] \notin ready
  <2>1. Goes(g, "build", "none", Append(stack[g], [key |-> want[g], next |-> 1]))
    BY <1>3 DEF BeginSingleton, Push, Leave, Goto, Goes, IInv, Types
  <2> QED  BY <1>1, <1>3, <2>1, Begins DEF BeginSingleton
<1> QED  BY <1>2, <1>3

LEMMA ConstructKeeps ==
  ASSUME IInv, NEW g \in Goroutines, Construct(g)
  PROVE  IInv'
<1> DEFINE key == Top(stack[g]).key
<1>1. stack[g] # <<>> /\ UNCHANGED <<want, graph>>
  BY StackOf DEF Construct
<1>2. CASE /\ Unlock(g) /\ Goto(g, "value")
           /\ IF Current(g).lifetime = "singleton"
              THEN ready' = ready \cup {key} /\ built' = [built EXCEPT ![key] = @ + 1]
              ELSE UNCHANGED <<ready, built>>
  <2>1. Goes(g, "value", want[g], Pop(stack[g]))
    BY <1>1, <1>2, StackOf DEF Unlock, Goto, Goes
  <2>2. mutex' = IF registry[key].lifetime = "singleton"
                 THEN [mutex EXCEPT ![key] = "nobody"] ELSE mutex
    BY <1>2 DEF Unlock, Current
  <2>3. \/ UNCHANGED <<ready, built>>
        \/ /\ registry[key].lifetime = "singleton"
           /\ ready' = ready \cup {key} /\ built' = [built EXCEPT ![key] = @ + 1]
    BY <1>2 DEF Current
  <2>4. "value" \in {"value", "fail"}
    OBVIOUS
  <2> QED  BY <1>1, <2>1, <2>2, <2>3, <2>4, Ends
<1>3. CASE Goto(g, "fail") /\ UNCHANGED <<ready, built, mutex, stack>>
  <2>1. Goes(g, "fail", want[g], stack[g])
    BY <1>1, <1>3, StackOf DEF Goto, Goes
  <2> QED  BY <1>3, <2>1, StackOf, GoesQuietly DEF Places
<1> QED  BY <1>2, <1>3 DEF Construct

LEMMA UnwindKeeps ==
  ASSUME IInv, NEW g \in Goroutines, Unwind(g)
  PROVE  IInv'
<1>1. CASE stack[g] = <<>>
  <2>1. Goes(g, "idle", want[g], stack[g])
    BY <1>1, StackOf DEF Unwind, Goto, Goes
  <2> QED  BY <1>1, <2>1, StackOf, GoesQuietly DEF Unwind, Places
<1>2. CASE stack[g] # <<>>
  <2>1. Goes(g, "fail", want[g], Pop(stack[g]))
    BY <1>2, StackOf DEF Unwind, Unlock, Goes
  <2>2. mutex' = IF registry[Top(stack[g]).key].lifetime = "singleton"
                 THEN [mutex EXCEPT ![Top(stack[g]).key] = "nobody"] ELSE mutex
    BY <1>2 DEF Unwind, Unlock, Current
  <2>3. UNCHANGED <<ready, built>> /\ "fail" \in {"value", "fail"}
    BY DEF Unwind
  <2> QED  BY <1>2, <2>1, <2>2, <2>3, Ends
<1> QED  BY <1>1, <1>2

-----------------------------------------------------------------------------
(* The theorems                                                            *)

LEMMA InitIInv == Init => IInv
<1> SUFFICES ASSUME Init
             PROVE  IInv
  OBVIOUS
<1>1. Registered = {} /\ "snapshot" \in DOMAIN NoWalk /\ DOMAIN NoWalk.snapshot = {}
  BY DEF Init, Registered, NoWalk
<1>2. \A g \in Goroutines : stack[g] = <<>> /\ pc[g] = "idle"
  BY DEF Init
<1>3. KeysOf(<<>>) = {} /\ Distinct(<<>>)
  BY DEF KeysOf, Distinct
<1>4. Types
  BY <1>1 DEF Init, Types
<1>5. Control
  BY <1>2, <1>3 DEF Control
<1>6. Locks /\ Stored
  BY <1>1 DEF Init, Locks, Stored
<1> QED  BY <1>4, <1>5, <1>6 DEF IInv

LEMMA NextKeepsIInv == IInv /\ [Next]_vars => IInv'
<1> SUFFICES ASSUME IInv, [Next]_vars
             PROVE  IInv'
  OBVIOUS
<1>1. CASE UNCHANGED vars
  <2>1. UNCHANGED <<registry, checked, walk, ready, mutex, built, pc, want, stack>>
    BY <1>1 DEF vars, graph, builders
  <2>2. Types'
    BY <2>1 DEF IInv, Types, Registered
  <2>3. Control' /\ Locks' /\ Stored'
    BY <2>1 DEF IInv, Control, Locks, Stored, Registered
  <2> QED  BY <2>2, <2>3 DEF IInv
<1>2. CASE Register
  BY <1>2, ProvideKeeps DEF Register
<1>3. CASE Validate
  BY <1>3, ValidateKeeps
<1>4. CASE Resolution
  <2>1. PICK g \in Goroutines : Resolve(g) \/ BeginSingleton(g) \/ Progress(g)
    BY <1>4 DEF Resolution
  <2> QED
    BY <2>1, QuietSteps, BeginTransientKeeps, BeginSingletonKeeps, ConstructKeeps, UnwindKeeps
       DEF Progress
<1> QED  BY <1>1, <1>2, <1>3, <1>4 DEF Next

\* The inductive invariant holds (Container.Spec, whatever the fairness).
THEOREM Invariance == Spec => []IInv
BY InitIInv, NextKeepsIInv, PTL DEF Spec

LEMMA SingletonOnce == IInv => OneInstance
<1> SUFFICES ASSUME IInv, NEW s \in Registered
             PROVE  built[s] <= IF registry[s].source = "instance" THEN 0 ELSE 1
  BY DEF OneInstance
<1>1. s \in Services /\ built[s] \in Nat
  BY DEF IInv, Types
<1>2. built[s] <= 1 /\ (registry[s].source = "instance" => built[s] = 0)
  BY <1>1 DEF IInv, Stored
<1> QED  BY <1>1, <1>2

\* A singleton has one instance however many goroutines ask for it at once, and one
\* that was handed in is never built (Container.OneInstance).
THEOREM SingleInstance == Spec => []OneInstance
BY SingletonOnce, Invariance, PTL

\* A sequence is one of a smaller set when its elements are of that set.
LEMMA Narrowed ==
  ASSUME NEW S, NEW T, NEW s \in Seq(S), \A i \in 1..Len(s) : s[i] \in T
  PROVE  s \in Seq(T)
OBVIOUS

\* Every variable keeps its type, and a mutex is held exactly by the goroutine that
\* builds its singleton (Container.TypeOK).
THEOREM TypeCorrect == Spec => []TypeOK
<1>1. IInv => TypeOK
  <2> SUFFICES ASSUME IInv
               PROVE  TypeOK
    OBVIOUS
  <2>1. ASSUME NEW g \in Goroutines
        PROVE  stack[g] \in Seq([key : Registered, next : Nat \ {0}])
    <3>1. stack[g] \in Seq(Frame) /\ DOMAIN stack[g] = 1..Len(stack[g])
      BY StackOf
    <3>2. ASSUME NEW i \in 1..Len(stack[g])
          PROVE  stack[g][i] \in [key : Registered, next : Nat \ {0}]
      <4>1. stack[g][i] \in Frame
        BY <3>1
      <4>2. stack[g][i].key \in Registered
        BY <3>1, StackOf DEF KeysOf
      <4> QED  BY <4>1, <4>2 DEF Frame
    <3> QED  BY <3>1, <3>2, Narrowed
  <2>2. ASSUME NEW g \in Goroutines, NEW s \in Registered
        PROVE  mutex[s] = g <=> registry[s].lifetime = "singleton" /\ s \in Building(g)
    <3>1. Building(g) = KeysOf(stack[g])
      BY DEF Building, KeysOf
    <3>2. mutex[s] = g <=> registry[s].lifetime = "singleton" /\ s \in KeysOf(stack[g])
      BY DEF IInv, Locks
    <3> QED  BY <3>1, <3>2
  <2> QED  BY <2>1, <2>2 DEF IInv, Types, TypeOK
<1> QED  BY <1>1, Invariance, PTL

\* No goroutine waits for a mutex of its own: one it holds belongs to a service it
\* builds, and resolve refuses that one (the buildStack) before it asks for the mutex.
OwnMutexRefused ==
  \A g \in Goroutines :
    pc[g] = "enter" /\ want[g] \in Registered /\ mutex[want[g]] = g => want[g] \in Building(g)

\* OwnMutexRefused holds whatever is registered, validated or not: resolve cannot lock
\* itself out through a cycle.
THEOREM NoSelfWait == Spec => []OwnMutexRefused
<1>1. IInv => OwnMutexRefused
  BY StackOf DEF IInv, Locks, OwnMutexRefused
<1> QED  BY <1>1, Invariance, PTL

-----------------------------------------------------------------------------
(* What Validate accepts                                                   *)

\* The services a constructor takes, in the registrations f.
Needs(f, k) == {f[k].inputs[i] : i \in 1..Len(f[k].inputs)}

\* D is registered, complete and without a cycle: however it is cut, some service takes
\* nothing of the rest.
Settled(f, D) ==
  /\ D \subseteq DOMAIN f
  /\ \A k \in D : Needs(f, k) \subseteq D
  /\ \A S \in SUBSET D : S # {} => \E k \in S : Needs(f, k) \cap S = {}

Done == {k \in DOMAIN walk.snapshot : walk.state[k] = "done"}

\* Validate walks a snapshot the registrations agree with.  The services on its path are
\* open, each the input at which the one before it stands; inputs before that are done.
WalkTypes ==
  /\ walk = [snapshot |-> walk.snapshot, state |-> walk.state, path |-> walk.path]
  /\ DOMAIN walk.snapshot \subseteq Registered
  /\ \A k \in DOMAIN walk.snapshot : walk.snapshot[k] = registry[k]
  /\ walk.state \in [DOMAIN walk.snapshot -> {"new", "open", "done"}]
  /\ walk.path \in Seq(Frame) /\ Distinct(walk.path)
  /\ KeysOf(walk.path) = {k \in DOMAIN walk.snapshot : walk.state[k] = "open"}

Ordered(f, path, D) ==
  \A i \in 1..Len(path) : \A j \in 1..Len(f[path[i].key].inputs) :
    j < path[i].next =>
      \/ f[path[i].key].inputs[j] \in D
      \/ i + 1 <= Len(path) /\ f[path[i].key].inputs[j] = path[i + 1].key

GraphInv ==
  /\ WalkTypes /\ Ordered(registry, walk.path, Done)
  /\ Settled(registry, Done) /\ Settled(registry, checked)

-----------------------------------------------------------------------------
(* The chain of builds                                                     *)

\* Each service on a stack is an input of the one before it, and so is the one asked for.
Linked(f, s) ==
  \A i \in 1..Len(s) : i + 1 <= Len(s) => s[i + 1].key \in Needs(f, s[i].key)

Chained ==
  \A g \in Goroutines :
    /\ Linked(registry, stack[g])
    /\ pc[g] = "enter" /\ stack[g] # <<>> => want[g] \in Needs(registry, Top(stack[g]).key)
    /\ pc[g] = "idle" => stack[g] = <<>>

\* g waits for the mutex of a service that another goroutine, one of G, builds.
WaitsFor(g, G) ==
  /\ pc[g] = "enter" /\ want[g] \in Registered \ Building(g)
  /\ mutex[want[g]] \in G

\* No goroutines that build services Validate accepted wait for one another in a circle.
NoCircularWait ==
  \A G \in SUBSET Goroutines :
    G # {} /\ (\A g \in G : Building(g) \subseteq checked) => \E g \in G : ~WaitsFor(g, G)

-----------------------------------------------------------------------------
(* Lemmas on what is settled and on the walk's path                        *)

\* A service that takes only settled ones is settled with them.
LEMMA Settle ==
  ASSUME NEW f, NEW D, Settled(f, D), NEW k \in DOMAIN f \ D, Needs(f, k) \subseteq D
  PROVE  Settled(f, D \cup {k})
<1>1. D \cup {k} \subseteq DOMAIN f
  BY DEF Settled
<1>2. \A c \in D \cup {k} : Needs(f, c) \subseteq D
  BY DEF Settled
<1>3. ASSUME NEW S \in SUBSET (D \cup {k}), S # {}
      PROVE  \E c \in S : Needs(f, c) \cap S = {}
  <2>1. CASE S \ {k} = {}
    <3>1. S = {k}
      BY <1>3, <2>1
    <3> QED  BY <3>1
  <2>2. CASE S \ {k} # {}
    <3>1. S \ {k} \in SUBSET D
      OBVIOUS
    <3>2. PICK c \in S \ {k} : Needs(f, c) \cap (S \ {k}) = {}
      BY <2>2, <3>1 DEF Settled
    <3>3. Needs(f, c) \cap S = {}
      BY <1>2, <3>2
    <3> QED  BY <3>2, <3>3
  <2> QED  BY <2>1, <2>2
<1> QED  BY <1>1, <1>2, <1>3 DEF Settled

\* Registrations are only added, so what was settled stays settled.
LEMMA SettledStays ==
  ASSUME NEW f, NEW h, NEW D, Settled(f, D),
         DOMAIN f \subseteq DOMAIN h, \A k \in DOMAIN f : h[k] = f[k]
  PROVE  Settled(h, D)
<1>1. \A k \in D : Needs(h, k) = Needs(f, k)
  BY DEF Settled, Needs
<1> QED  BY <1>1 DEF Settled

\* A push, a pop and an advance, element by element.
LEMMA PushAt ==
  ASSUME NEW s \in Seq(Frame), NEW k \in Services
  PROVE  LET t == Append(s, [key |-> k, next |-> 1]) IN
         /\ Len(t) = Len(s) + 1 /\ \A i \in 1..Len(s) : t[i] = s[i]
         /\ t[Len(s) + 1].key = k /\ t[Len(s) + 1].next = 1
<1> DEFINE f == [key |-> k, next |-> 1]
<1>1. f \in Frame /\ f.key = k /\ f.next = 1
  BY DEF Frame
<1> HIDE DEF f
<1>2. /\ Len(Append(s, f)) = Len(s) + 1 /\ \A i \in 1..Len(s) : Append(s, f)[i] = s[i]
      /\ Append(s, f)[Len(s) + 1] = f
  BY <1>1
<1> QED  BY <1>1, <1>2 DEF f

LEMMA PopAt ==
  ASSUME NEW s \in Seq(Frame), s # <<>>
  PROVE  /\ Len(s) \in Nat \ {0} /\ Len(Pop(s)) = Len(s) - 1
         /\ \A i \in 1..(Len(s) - 1) : Pop(s)[i] = s[i]
<1> DEFINE n == Len(s) - 1
<1>1. n \in Nat /\ Len(s) = n + 1 /\ \A i \in 1..(n + 1) : s[i] \in Frame
  OBVIOUS
<1>2. Pop(s) = SubSeq(s, 1, n)
  BY DEF Pop
<1> HIDE DEF n
<1>3. 1 \in Int /\ n \in Int /\ \A i \in 1..n : s[i] \in Frame
  BY <1>1
<1>4. /\ Len(SubSeq(s, 1, n)) = IF 1 <= n THEN n - 1 + 1 ELSE 0
      /\ \A i \in 1..(n - 1 + 1) : SubSeq(s, 1, n)[i] = s[1 + i - 1]
  BY <1>3, SubSeqProperties
<1>5. Len(SubSeq(s, 1, n)) = n /\ \A i \in 1..n : SubSeq(s, 1, n)[i] = s[i]
  <2>1. \A i \in 1..n : i \in 1..(n - 1 + 1) /\ 1 + i - 1 = i
    BY <1>1
  <2> QED  BY <1>1, <1>4, <2>1
<1> QED  BY <1>1, <1>2, <1>5

LEMMA AdvanceAt ==
  ASSUME NEW s \in Seq(Frame), s # <<>>
  PROVE  LET t == Advance(s)
             n == Len(s) IN
         /\ Len(t) = n /\ \A i \in 1..n : i + 1 <= n => t[i] = s[i]
         /\ t[n].key = s[n].key /\ t[n].next = s[n].next + 1
<1> DEFINE n == Len(s)
           f == [s[n] EXCEPT !.next = @ + 1]
<1>1. n \in Nat /\ DOMAIN s = 1..n /\ n \in 1..n /\ s[n] \in Frame
  OBVIOUS
<1>2. f.key = s[n].key /\ f.next = s[n].next + 1 /\ f \in Frame
  BY <1>1 DEF Frame
<1> HIDE DEF f
<1>3. Advance(s) = [s EXCEPT ![n] = f]
  BY DEF Advance, f
<1>4. Len(Advance(s)) = n /\ \A i \in 1..n : Advance(s)[i] = IF i = n THEN f ELSE s[i]
  BY <1>1, <1>2, <1>3
<1> HIDE DEF n
<1>5. \A i \in 1..n : i + 1 <= n => i # n
  BY <1>1
<1> QED  BY <1>1, <1>2, <1>4, <1>5 DEF n

\* The order of the walk is kept when it enters a root, enters an input, passes one that
\* is done, and leaves a service.
LEMMA OrderedRoot ==
  ASSUME NEW f, NEW D, NEW k \in Services
  PROVE  Ordered(f, Append(<<>>, [key |-> k, next |-> 1]), D)
<1> DEFINE t == Append(<<>>, [key |-> k, next |-> 1])
<1>1. <<>> \in Seq(Frame) /\ Len(<<>>) = 0
  OBVIOUS
<1>2. Len(t) = 1 /\ t[1].next = 1
  BY <1>1, PushAt
<1> HIDE DEF t
<1>3. \A i \in 1..Len(t) : i = 1
  BY <1>2
<1>4. \A j : j \in Nat \ {0} => ~(j < 1)
  OBVIOUS
<1>5. Ordered(f, t, D)
  BY <1>2, <1>3 DEF Ordered
<1> QED  BY <1>5 DEF t

LEMMA OrderedAdvance ==
  ASSUME NEW f, NEW D, NEW s \in Seq(Frame), s # <<>>, Ordered(f, s, D),
         NEW c, c = f[s[Len(s)].key].inputs[s[Len(s)].next], c \in D
  PROVE  Ordered(f, Advance(s), D)
<1> DEFINE n == Len(s)
           t == Advance(s)
<1>1. n \in Nat /\ n \in 1..n /\ s[n] \in Frame /\ \A i \in 1..n : s[i] \in Frame
  OBVIOUS
<1>2. /\ Len(t) = n /\ \A i \in 1..n : i + 1 <= n => t[i] = s[i]
      /\ t[n].key = s[n].key /\ t[n].next = s[n].next + 1
  BY AdvanceAt
<1>3. s[n].next \in Nat
  BY <1>1 DEF Frame
<1> HIDE DEF t
<1>4. ASSUME NEW i \in 1..n, NEW j \in 1..Len(f[t[i].key].inputs), j < t[i].next
      PROVE  \/ f[t[i].key].inputs[j] \in D
             \/ i + 1 <= n /\ f[t[i].key].inputs[j] = t[i + 1].key
  <2>1. CASE i = n
    <3>1. j < s[n].next \/ j = s[n].next
      BY <1>2, <1>3, <1>4, <2>1
    <3>2. CASE j = s[n].next
      BY <1>2, <2>1, <3>2
    <3>3. CASE j < s[n].next
      <4>1. j \in 1..Len(f[s[n].key].inputs) /\ ~(n + 1 <= n)
        BY <1>1, <1>2, <2>1
      <4> QED  BY <1>1, <1>2, <2>1, <3>3, <4>1 DEF Ordered
    <3> QED  BY <3>1, <3>2, <3>3
  <2>2. CASE i # n
    <3>1. i + 1 <= n /\ i + 1 \in 1..n
      BY <1>1, <2>2
    <3>2. t[i] = s[i] /\ t[i + 1].key = s[i + 1].key
      BY <1>1, <1>2, <3>1
    <3> QED  BY <1>4, <3>1, <3>2 DEF Ordered
  <2> QED  BY <2>1, <2>2
<1>5. Ordered(f, t, D)
  BY <1>2, <1>4 DEF Ordered
<1> QED  BY <1>5 DEF t

LEMMA OrderedEnter ==
  ASSUME NEW f, NEW D, NEW s \in Seq(Frame), s # <<>>, Ordered(f, s, D),
         NEW c \in Services, c = f[s[Len(s)].key].inputs[s[Len(s)].next],
         Advance(s) \in Seq(Frame)
  PROVE  Ordered(f, Append(Advance(s), [key |-> c, next |-> 1]), D)
<1> DEFINE n == Len(s)
           a == Advance(s)
           t == Append(a, [key |-> c, next |-> 1])
<1>1. n \in Nat /\ n \in 1..n /\ s[n] \in Frame /\ \A i \in 1..n : s[i] \in Frame
  OBVIOUS
<1>2. /\ Len(a) = n /\ \A i \in 1..n : i + 1 <= n => a[i] = s[i]
      /\ a[n].key = s[n].key /\ a[n].next = s[n].next + 1
  BY AdvanceAt
<1>3. /\ Len(t) = n + 1 /\ \A i \in 1..n : t[i] = a[i]
      /\ t[n + 1].key = c /\ t[n + 1].next = 1
  BY <1>2, PushAt
<1>4. s[n].next \in Nat
  BY <1>1 DEF Frame
<1> HIDE DEF t, a
<1>5. ASSUME NEW i \in 1..(n + 1), NEW j \in 1..Len(f[t[i].key].inputs), j < t[i].next
      PROVE  \/ f[t[i].key].inputs[j] \in D
             \/ i + 1 <= n + 1 /\ f[t[i].key].inputs[j] = t[i + 1].key
  <2>1. CASE i = n + 1
    BY <1>3, <1>5, <2>1
  <2>2. CASE i = n
    <3>1. j < s[n].next \/ j = s[n].next
      BY <1>1, <1>2, <1>3, <1>4, <1>5, <2>2
    <3>2. CASE j = s[n].next
      BY <1>1, <1>2, <1>3, <2>2, <3>2
    <3>3. CASE j < s[n].next
      <4>1. j \in 1..Len(f[s[n].key].inputs) /\ ~(n + 1 <= n) /\ t[n].key = s[n].key
        BY <1>1, <1>2, <1>3, <2>2
      <4> QED  BY <1>1, <2>2, <3>3, <4>1 DEF Ordered
    <3> QED  BY <3>1, <3>2, <3>3
  <2>3. CASE i # n /\ i # n + 1
    <3>1. i \in 1..n /\ i + 1 <= n /\ i + 1 \in 1..n /\ i + 1 <= n + 1
      BY <1>1, <2>3
    <3>2. t[i] = s[i] /\ t[i + 1].key = s[i + 1].key
      BY <1>1, <1>2, <1>3, <3>1
    <3> QED  BY <1>5, <3>1, <3>2 DEF Ordered
  <2> QED  BY <2>1, <2>2, <2>3
<1>6. Ordered(f, t, D)
  BY <1>3, <1>5 DEF Ordered
<1> QED  BY <1>6 DEF t, a

LEMMA OrderedPop ==
  ASSUME NEW f, NEW D, NEW s \in Seq(Frame), s # <<>>, Ordered(f, s, D)
  PROVE  Ordered(f, Pop(s), D \cup {Top(s).key})
<1> DEFINE n == Len(s)
           t == Pop(s)
<1>1. n \in Nat \ {0} /\ Len(t) = n - 1 /\ \A i \in 1..(n - 1) : t[i] = s[i]
  BY PopAt
<1>2. Top(s) = s[n]
  BY DEF Top
<1> HIDE DEF n, t
<1>3. ASSUME NEW i \in 1..(n - 1), NEW j \in 1..Len(f[t[i].key].inputs), j < t[i].next
      PROVE  \/ f[t[i].key].inputs[j] \in D \cup {Top(s).key}
             \/ i + 1 <= n - 1 /\ f[t[i].key].inputs[j] = t[i + 1].key
  <2>1. i \in 1..n /\ t[i] = s[i] /\ (i + 1 <= n - 1 \/ i + 1 = n)
    BY <1>1
  <2>2. \/ f[t[i].key].inputs[j] \in D
        \/ f[t[i].key].inputs[j] = s[i + 1].key
    BY <1>3, <2>1 DEF Ordered, n
  <2>3. i + 1 <= n - 1 => t[i + 1] = s[i + 1]
    BY <1>1
  <2> QED  BY <1>2, <2>1, <2>2, <2>3
<1>4. Ordered(f, t, D \cup {Top(s).key})
  BY <1>1, <1>3 DEF Ordered
<1> QED  BY <1>4 DEF t

\* The record depends on the registrations of the services on the path only.
LEMMA OrderedSame ==
  ASSUME NEW f, NEW h, NEW D, NEW s \in Seq(Frame), Ordered(f, s, D),
         \A k \in KeysOf(s) : h[k] = f[k]
  PROVE  Ordered(h, s, D)
<1>1. \A i \in 1..Len(s) : s[i].key \in KeysOf(s)
  BY DEF KeysOf
<1> QED  BY <1>1 DEF Ordered

-----------------------------------------------------------------------------
(* Every step keeps the graph in order                                     *)

\* What the top of the walk's path and its next input are.
LEMMA WalkTop ==
  ASSUME IInv, GraphInv, walk.path # <<>>
  PROVE  LET top == Top(walk.path) IN
         /\ top = walk.path[Len(walk.path)] /\ top \in Frame
         /\ top.key \in DOMAIN walk.snapshot /\ walk.state[top.key] = "open"
         /\ Inputs = registry[top.key].inputs /\ registry[top.key].inputs \in Seq(Services)
<1>1. Top(walk.path) = walk.path[Len(walk.path)]
  BY DEF Top
<1>2. /\ Len(walk.path) \in 1..Len(walk.path) /\ walk.path[Len(walk.path)] \in Frame
      /\ Len(walk.path) \in DOMAIN walk.path
  BY DEF GraphInv, WalkTypes
<1>3. Top(walk.path).key \in KeysOf(walk.path)
  BY <1>1, <1>2 DEF KeysOf
<1>4. /\ Top(walk.path).key \in DOMAIN walk.snapshot
      /\ walk.state[Top(walk.path).key] = "open"
      /\ Top(walk.path).key \in Registered
      /\ walk.snapshot[Top(walk.path).key] = registry[Top(walk.path).key]
  BY <1>3 DEF GraphInv, WalkTypes
<1>5. registry[Top(walk.path).key] \in Registrations
  BY <1>4 DEF IInv, Types
<1> QED  BY <1>1, <1>2, <1>4, <1>5, ContainerAssumption DEF Inputs

LEMMA InitGraph == Init => GraphInv
<1> SUFFICES ASSUME Init
             PROVE  GraphInv
  OBVIOUS
<1>1. /\ walk = [snapshot |-> <<>>, state |-> <<>>, path |-> <<>>]
      /\ checked = {} /\ registry = <<>>
  BY DEF Init, NoWalk
<1>2. /\ walk.snapshot = <<>> /\ walk.state = <<>> /\ walk.path = <<>>
  BY <1>1
<1>3. DOMAIN <<>> = {} /\ <<>> \in Seq(Frame) /\ Len(<<>>) = 0
  OBVIOUS
<1>4. WalkTypes
  <2>1. KeysOf(walk.path) = {} /\ Distinct(walk.path)
    BY <1>2, <1>3 DEF KeysOf, Distinct
  <2>2. walk.state \in [DOMAIN walk.snapshot -> {"new", "open", "done"}]
    BY <1>2, <1>3
  <2> QED  BY <1>1, <1>2, <1>3, <2>1, <2>2 DEF WalkTypes
<1>5. Ordered(registry, walk.path, Done)
  BY <1>2, <1>3 DEF Ordered
<1>6. Done = {} /\ Settled(registry, {})
  BY <1>2, <1>3 DEF Done, Settled
<1> QED  BY <1>1, <1>4, <1>5, <1>6 DEF GraphInv

\* Registrations are added, and those there are stay as they are.
LEMMA GraphGrows ==
  ASSUME IInv, GraphInv, UNCHANGED <<checked, walk>>,
         Registered \subseteq Registered', \A k \in Registered : registry'[k] = registry[k]
  PROVE  GraphInv'
<1>1. WalkTypes'
  BY DEF GraphInv, WalkTypes
<1>2. Done' = Done
  BY DEF Done
<1>3. Settled(registry', Done) /\ Settled(registry', checked)
  BY SettledStays DEF GraphInv, Registered
<1>4. KeysOf(walk.path) \subseteq Registered /\ walk.path \in Seq(Frame)
  BY DEF GraphInv, WalkTypes
<1>5. Ordered(registry', walk.path, Done)
  BY <1>4, OrderedSame DEF GraphInv
<1> QED  BY <1>1, <1>2, <1>3, <1>5 DEF GraphInv

\* A walk that is given up, or has not begun.
LEMMA NoWalkGraph ==
  ASSUME walk' = NoWalk, Settled(registry', checked')
  PROVE  GraphInv'
<1>1. /\ walk'.snapshot = <<>> /\ walk'.state = <<>> /\ walk'.path = <<>>
      /\ walk' = [snapshot |-> walk'.snapshot, state |-> walk'.state, path |-> walk'.path]
  BY DEF NoWalk
<1>2. DOMAIN <<>> = {} /\ <<>> \in Seq(Frame) /\ Len(<<>>) = 0
  OBVIOUS
<1>3. KeysOf(walk'.path) = {} /\ Distinct(walk'.path)
  BY <1>1, <1>2 DEF KeysOf, Distinct
<1>4. walk'.state \in [DOMAIN walk'.snapshot -> {"new", "open", "done"}]
  BY <1>1, <1>2
<1>5. WalkTypes'
  BY <1>1, <1>2, <1>3, <1>4 DEF WalkTypes
<1>6. Ordered(registry', walk'.path, Done')
  BY <1>1, <1>2 DEF Ordered
<1>7. Done' = {} /\ Settled(registry', {})
  BY <1>1, <1>2 DEF Done, Settled
<1> QED  BY <1>5, <1>6, <1>7 DEF GraphInv

\* The fields of the walk after a step of it.
\* Validate's walk marks k and goes on along path.
Marks(k, v, path) ==
  /\ k \in DOMAIN walk.snapshot /\ v \in {"new", "open", "done"}
  /\ walk' = [walk EXCEPT !.path = path, !.state[k] = v]

LEMMA WalkFields ==
  ASSUME GraphInv, NEW path, NEW k, NEW v, Marks(k, v, path)
  PROVE  /\ walk'.path = path /\ walk'.snapshot = walk.snapshot
         /\ walk' = [snapshot |-> walk'.snapshot, state |-> walk'.state, path |-> walk'.path]
         /\ walk'.state \in [DOMAIN walk.snapshot -> {"new", "open", "done"}]
         /\ \A c \in DOMAIN walk.snapshot : walk'.state[c] = IF c = k THEN v ELSE walk.state[c]
<1>1. /\ walk = [snapshot |-> walk.snapshot, state |-> walk.state, path |-> walk.path]
      /\ walk.state \in [DOMAIN walk.snapshot -> {"new", "open", "done"}]
  BY DEF GraphInv, WalkTypes
<1>2. walk' = [snapshot |-> walk.snapshot, state |-> [walk.state EXCEPT ![k] = v],
               path |-> path]
  BY <1>1 DEF Marks
<1>3. /\ walk'.path = path /\ walk'.snapshot = walk.snapshot
      /\ walk'.state = [walk.state EXCEPT ![k] = v]
  BY <1>2
<1>4. walk' = [snapshot |-> walk'.snapshot, state |-> walk'.state, path |-> walk'.path]
  BY <1>2, <1>3
<1>5. /\ walk'.state \in [DOMAIN walk.snapshot -> {"new", "open", "done"}]
      /\ \A c \in DOMAIN walk.snapshot : walk'.state[c] = IF c = k THEN v ELSE walk.state[c]
  BY <1>1, <1>3 DEF Marks
<1> QED  BY <1>3, <1>4, <1>5

\* A service is entered: it is new, and becomes the open end of the path.
LEMMA EnterGraph ==
  ASSUME IInv, GraphInv, UNCHANGED <<registry, checked>>,
         NEW path \in Seq(Frame), NEW k \in DOMAIN walk.snapshot, Enter(path, k),
         walk.state[k] = "new", Distinct(path), KeysOf(path) = KeysOf(walk.path),
         Ordered(registry, Append(path, [key |-> k, next |-> 1]), Done)
  PROVE  GraphInv'
<1> DEFINE t == Append(path, [key |-> k, next |-> 1])
<1>1. /\ k \in Services /\ k \notin KeysOf(path)
      /\ KeysOf(walk.path) = {c \in DOMAIN walk.snapshot : walk.state[c] = "open"}
  BY DEF IInv, Types, GraphInv, WalkTypes
<1>2. Grown(path, t, k)
  BY <1>1, PushOf
<1>3. Marks(k, "open", t)
  BY DEF Enter, Marks
<1> HIDE DEF t
<1>4. /\ walk'.path = t /\ walk'.snapshot = walk.snapshot
      /\ walk' = [snapshot |-> walk'.snapshot, state |-> walk'.state, path |-> walk'.path]
      /\ walk'.state \in [DOMAIN walk.snapshot -> {"new", "open", "done"}]
      /\ \A c \in DOMAIN walk.snapshot :
           walk'.state[c] = IF c = k THEN "open" ELSE walk.state[c]
  BY <1>3, WalkFields
<1>5. KeysOf(t) = {c \in DOMAIN walk.snapshot : walk'.state[c] = "open"}
  BY <1>1, <1>2, <1>4 DEF Grown
<1>6. WalkTypes'
  BY <1>2, <1>4, <1>5 DEF GraphInv, WalkTypes, Grown, Registered
<1>7. Done' = Done
  BY <1>4 DEF Done
<1> QED  BY <1>4, <1>6, <1>7 DEF GraphInv, t

LEMMA BeginGraph ==
  ASSUME IInv, GraphInv, ValidateBegin
  PROVE  GraphInv'
<1>1. /\ walk' = [snapshot |-> registry, path |-> <<>>, state |-> [s \in Registered |-> "new"]]
      /\ UNCHANGED <<registry, checked>>
  BY DEF ValidateBegin
<1>2. /\ walk'.snapshot = registry /\ walk'.path = <<>>
      /\ walk'.state = [s \in Registered |-> "new"]
  BY <1>1
<1>3. walk' = [snapshot |-> walk'.snapshot, state |-> walk'.state, path |-> walk'.path]
  BY <1>1, <1>2
<1>4. <<>> \in Seq(Frame) /\ Len(<<>>) = 0 /\ KeysOf(<<>>) = {} /\ Distinct(<<>>)
  BY DEF KeysOf, Distinct
<1>5. /\ walk'.state \in [DOMAIN walk'.snapshot -> {"new", "open", "done"}]
      /\ \A c \in DOMAIN walk'.snapshot : walk'.state[c] = "new"
  BY <1>2 DEF Registered
<1>6. WalkTypes'
  BY <1>1, <1>2, <1>3, <1>4, <1>5 DEF WalkTypes, Registered
<1>7. Done' = {}
  BY <1>5 DEF Done
<1>8. Settled(registry, {}) /\ Settled(registry, checked)
  BY DEF Settled, GraphInv
<1>9. Ordered(registry, <<>>, {})
  BY <1>4 DEF Ordered
<1> QED  BY <1>1, <1>2, <1>6, <1>7, <1>8, <1>9 DEF GraphInv

LEMMA RootGraph ==
  ASSUME IInv, GraphInv, VisitRoot
  PROVE  GraphInv'
<1>1. PICK k \in DOMAIN walk.snapshot : walk.state[k] = "new" /\ Enter(<<>>, k)
  BY DEF VisitRoot
<1>2. <<>> \in Seq(Frame) /\ Distinct(<<>>) /\ KeysOf(<<>>) = KeysOf(walk.path)
  BY DEF VisitRoot, Distinct
<1>3. k \in Services
  BY DEF IInv, Types
<1>4. Ordered(registry, Append(<<>>, [key |-> k, next |-> 1]), Done)
  BY <1>3, OrderedRoot
<1> QED  BY <1>1, <1>2, <1>4, EnterGraph DEF VisitRoot

LEMMA InputGraph ==
  ASSUME IInv, GraphInv, VisitInput
  PROVE  GraphInv'
<1> DEFINE s == walk.path
           c == Inputs[Top(walk.path).next]
           a == Advance(walk.path)
<1>1. /\ s \in Seq(Frame) /\ Distinct(s) /\ s # <<>> /\ Ordered(registry, s, Done)
      /\ UNCHANGED <<registry, checked>>
  BY DEF GraphInv, WalkTypes, VisitInput
<1>2. c = registry[s[Len(s)].key].inputs[s[Len(s)].next]
  BY <1>1, WalkTop
<1>3. a \in Seq(Frame) /\ KeysOf(a) = KeysOf(s) /\ Distinct(a)
  BY <1>1, AdvanceOf DEF Moved
<1>4. CASE walk' = NoWalk
  BY <1>1, <1>4, NoWalkGraph DEF GraphInv
<1>5. CASE c \in DOMAIN walk.snapshot /\ walk.state[c] = "new" /\ Enter(a, c)
  <2>1. c \in Services
    BY <1>5 DEF IInv, Types
  <2> HIDE DEF c
  <2>2. Ordered(registry, Append(a, [key |-> c, next |-> 1]), Done)
    BY <1>1, <1>2, <1>3, <2>1, OrderedEnter
  <2> HIDE DEF a, s
  <2> QED  BY <1>1, <1>3, <1>5, <2>2, EnterGraph DEF s
<1>6. CASE /\ c \in DOMAIN walk.snapshot /\ walk.state[c] \notin {"new", "open"}
           /\ walk' = [walk EXCEPT !.path = a]
  <2>1. /\ walk = [snapshot |-> walk.snapshot, state |-> walk.state, path |-> walk.path]
        /\ walk.state \in [DOMAIN walk.snapshot -> {"new", "open", "done"}]
    BY DEF GraphInv, WalkTypes
  <2>2. c \in Done
    BY <1>6, <2>1 DEF Done
  <2> HIDE DEF c
  <2>3. Ordered(registry, a, Done)
    BY <1>1, <1>2, <2>2, OrderedAdvance
  <2> HIDE DEF a
  <2>4. walk' = [snapshot |-> walk.snapshot, state |-> walk.state, path |-> a]
    BY <1>6, <2>1
  <2>5. /\ walk'.path = a /\ walk'.snapshot = walk.snapshot /\ walk'.state = walk.state
    BY <2>4
  <2>6. WalkTypes'
    BY <1>1, <1>3, <2>4, <2>5 DEF GraphInv, WalkTypes, Registered
  <2>7. Done' = Done
    BY <2>5 DEF Done
  <2> QED  BY <1>1, <2>3, <2>5, <2>6, <2>7 DEF GraphInv
<1> QED  BY <1>4, <1>5, <1>6 DEF VisitInput

\* The service at the end of the path is left: each of its inputs is done.
LEMMA EndGraph ==
  ASSUME IInv, GraphInv, VisitEnd
  PROVE  GraphInv'
<1> DEFINE s == walk.path
           k == Top(walk.path).key
           n == Len(walk.path)
<1>1. /\ s \in Seq(Frame) /\ Distinct(s) /\ s # <<>> /\ Ordered(registry, s, Done)
      /\ UNCHANGED <<registry, checked>> /\ Settled(registry, Done)
      /\ DOMAIN walk.snapshot \subseteq Registered
  BY DEF GraphInv, WalkTypes, VisitEnd
<1>2. /\ Top(s) = s[n] /\ Top(s) \in Frame /\ k \in DOMAIN walk.snapshot
      /\ walk.state[k] = "open" /\ Inputs = registry[k].inputs
      /\ registry[k].inputs \in Seq(Services)
  BY <1>1, WalkTop
<1>3. n \in Nat /\ n \in 1..n /\ ~(n + 1 <= n)
  BY <1>1
<1>4. Top(s).next > Len(registry[k].inputs) /\ Top(s).next \in Nat
  BY <1>2 DEF VisitEnd, Frame
<1>5. Needs(registry, k) \subseteq Done
  <2>1. \A j \in 1..Len(registry[k].inputs) : j < s[n].next
    BY <1>2, <1>4
  <2>2. \A j \in 1..Len(registry[k].inputs) : registry[k].inputs[j] \in Done
    BY <1>1, <1>2, <1>3, <2>1 DEF Ordered
  <2> QED  BY <2>2 DEF Needs
<1>6. k \in Registered /\ k \notin Done
  BY <1>1, <1>2 DEF Done
<1>7. Settled(registry, Done \cup {k})
  BY <1>1, <1>5, <1>6, Settle DEF Registered
<1>8. /\ Pop(s) \in Seq(Frame) /\ KeysOf(Pop(s)) = KeysOf(s) \ {k} /\ Distinct(Pop(s))
  BY <1>1, PopOf DEF Shrunk
<1>9. Ordered(registry, Pop(s), Done \cup {k})
  BY <1>1, OrderedPop
<1>10. Marks(k, "done", Pop(s))
  BY <1>2 DEF VisitEnd, Marks
<1> HIDE DEF k
<1>11. /\ walk'.path = Pop(s) /\ walk'.snapshot = walk.snapshot
       /\ walk' = [snapshot |-> walk'.snapshot, state |-> walk'.state, path |-> walk'.path]
       /\ walk'.state \in [DOMAIN walk.snapshot -> {"new", "open", "done"}]
       /\ \A c \in DOMAIN walk.snapshot :
            walk'.state[c] = IF c = k THEN "done" ELSE walk.state[c]
  BY <1>2, <1>10, WalkFields
<1>12. WalkTypes'
  <2>1. KeysOf(s) = {c \in DOMAIN walk.snapshot : walk.state[c] = "open"}
    BY DEF GraphInv, WalkTypes
  <2>2. KeysOf(walk'.path) = {c \in DOMAIN walk.snapshot : walk'.state[c] = "open"}
    BY <1>8, <1>11, <2>1
  <2> QED  BY <1>1, <1>8, <1>11, <2>2 DEF GraphInv, WalkTypes, Registered
<1>13. Done' = Done \cup {k}
  BY <1>2, <1>11 DEF Done
<1> QED  BY <1>1, <1>7, <1>9, <1>11, <1>12, <1>13 DEF GraphInv

LEMMA OkGraph ==
  ASSUME IInv, GraphInv, ValidateOk
  PROVE  GraphInv'
<1>1. checked' = Done /\ walk' = NoWalk /\ UNCHANGED registry
  BY DEF ValidateOk, Done
<1> QED  BY <1>1, NoWalkGraph DEF GraphInv

LEMMA NextKeepsGraph == IInv /\ GraphInv /\ [Next]_vars => GraphInv'
<1> SUFFICES ASSUME IInv, GraphInv, [Next]_vars
             PROVE  GraphInv'
  OBVIOUS
<1>1. CASE UNCHANGED graph
  BY <1>1, GraphGrows DEF graph, Registered
<1>2. CASE Register
  <2>1. PICK r \in Registrations : Provide(r)
    BY <1>2 DEF Register
  <2>2. /\ Registered \subseteq Registered' /\ \A k \in Registered : registry'[k] = registry[k]
        /\ UNCHANGED <<checked, walk>>
    BY <2>1 DEF Provide, Extended, Registered
  <2> QED  BY <2>2, GraphGrows
<1>3. CASE Validate
  BY <1>3, BeginGraph, RootGraph, InputGraph, EndGraph, OkGraph DEF Validate
<1>4. CASE Resolution
  <2>1. UNCHANGED graph
    BY <1>4 DEF Resolution, Progress, Resolve, Refuse, BeginTransient, BeginSingleton, Argument,
                Construct, Deliver, Unwind
  <2> QED  BY <1>1, <2>1
<1> QED  BY <1>1, <1>2, <1>3, <1>4 DEF Next, vars

-----------------------------------------------------------------------------
(* Every step keeps the chain                                              *)

LEMMA LinkedPush ==
  ASSUME NEW f, NEW s \in Seq(Frame), Linked(f, s), NEW k \in Services,
         s # <<>> => k \in Needs(f, Top(s).key)
  PROVE  Linked(f, Append(s, [key |-> k, next |-> 1]))
<1> DEFINE t == Append(s, [key |-> k, next |-> 1])
           n == Len(s)
<1>1. /\ n \in Nat /\ Len(t) = n + 1 /\ \A i \in 1..n : t[i] = s[i]
      /\ t[n + 1].key = k
  BY PushAt
<1>2. n # 0 => k \in Needs(f, s[n].key)
  BY DEF Top
<1> HIDE DEF t, n
<1>3. ASSUME NEW i \in 1..(n + 1), i + 1 <= n + 1
      PROVE  t[i + 1].key \in Needs(f, t[i].key)
  <2>1. i \in 1..n /\ t[i] = s[i] /\ n # 0
    BY <1>1, <1>3
  <2>2. CASE i = n
    BY <1>1, <1>2, <2>1, <2>2
  <2>3. CASE i # n
    <3>1. i + 1 \in 1..n /\ i + 1 <= n
      BY <1>1, <2>1, <2>3
    <3> QED  BY <1>1, <2>1, <3>1 DEF Linked, n
  <2> QED  BY <2>2, <2>3
<1>4. Linked(f, t)
  BY <1>1, <1>3 DEF Linked
<1> QED  BY <1>4 DEF t

LEMMA LinkedPop ==
  ASSUME NEW f, NEW s \in Seq(Frame), Linked(f, s), s # <<>>
  PROVE  Linked(f, Pop(s))
<1> DEFINE n == Len(s)
           t == Pop(s)
<1>1. n \in Nat \ {0} /\ Len(t) = n - 1 /\ \A i \in 1..(n - 1) : t[i] = s[i]
  BY PopAt
<1> HIDE DEF t, n
<1>2. ASSUME NEW i \in 1..(n - 1), i + 1 <= n - 1
      PROVE  t[i + 1].key \in Needs(f, t[i].key)
  <2>1. i \in 1..n /\ i + 1 <= n /\ t[i] = s[i] /\ t[i + 1] = s[i + 1]
    BY <1>1, <1>2
  <2> QED  BY <2>1 DEF Linked, n
<1>3. Linked(f, t)
  BY <1>1, <1>2 DEF Linked
<1> QED  BY <1>3 DEF t

LEMMA LinkedAdvance ==
  ASSUME NEW f, NEW s \in Seq(Frame), Linked(f, s), s # <<>>
  PROVE  Linked(f, Advance(s))
<1> DEFINE n == Len(s)
           t == Advance(s)
<1>1. /\ Len(t) = n /\ \A i \in 1..n : i + 1 <= n => t[i] = s[i]
      /\ t[n].key = s[n].key /\ n \in Nat
  BY AdvanceAt
<1> HIDE DEF t, n
<1>2. \A i \in 1..n : t[i].key = s[i].key
  <2> SUFFICES ASSUME NEW i \in 1..n
               PROVE  t[i].key = s[i].key
    OBVIOUS
  <2>1. i = n \/ i + 1 <= n
    BY <1>1
  <2> QED  BY <1>1, <2>1
<1>3. ASSUME NEW i \in 1..n, i + 1 <= n
      PROVE  t[i + 1].key \in Needs(f, t[i].key)
  <2>1. i + 1 \in 1..n
    BY <1>1, <1>3
  <2> QED  BY <1>2, <1>3, <2>1 DEF Linked, n
<1>4. Linked(f, t)
  BY <1>1, <1>3 DEF Linked
<1> QED  BY <1>4 DEF t

\* A step of one goroutine.
LEMMA ChainGone ==
  ASSUME IInv, Chained, NEW g \in Goroutines, NEW p, NEW w, NEW t, Goes(g, p, w, t),
         Linked(registry, t), p = "idle" => t = <<>>,
         p = "enter" /\ t # <<>> => w \in Needs(registry, Top(t).key)
  PROVE  Chained'
<1>1. /\ \A h \in Goroutines : stack'[h] = IF h = g THEN t ELSE stack[h]
      /\ \A h \in Goroutines : pc'[h] = IF h = g THEN p ELSE pc[h]
      /\ \A h \in Goroutines : want'[h] = IF h = g THEN w ELSE want[h]
      /\ registry' = registry
  BY DEF IInv, Types, Goes, graph
<1>2. ASSUME NEW h \in Goroutines
      PROVE  /\ Linked(registry, stack'[h])
             /\ pc'[h] = "enter" /\ stack'[h] # <<>> =>
                  want'[h] \in Needs(registry, Top(stack'[h]).key)
             /\ pc'[h] = "idle" => stack'[h] = <<>>
  <2>1. CASE h = g
    BY <1>1, <2>1
  <2>2. CASE h # g
    BY <1>1, <2>2 DEF Chained
  <2> QED  BY <2>1, <2>2
<1> QED  BY <1>1, <1>2 DEF Chained

LEMMA GoroutineKeepsChain ==
  ASSUME IInv, Chained, NEW g \in Goroutines,
         Resolve(g) \/ BeginSingleton(g) \/ Progress(g)
  PROVE  Chained'
<1> DEFINE s == stack[g]
<1>1. /\ s \in Seq(Frame) /\ Linked(registry, s)
      /\ pc[g] = "enter" /\ s # <<>> => want[g] \in Needs(registry, Top(s).key)
      /\ pc[g] = "idle" => s = <<>>
  BY StackOf DEF Chained
<1>2. CASE Resolve(g)
  <2>1. PICK k \in Services : Ask(g, k)
    BY <1>2 DEF Resolve
  <2>2. Goes(g, "enter", k, s)
    BY <1>2, <2>1, StackOf DEF Resolve, Ask, Goto, Goes
  <2>3. s = <<>>
    BY <1>1, <1>2 DEF Resolve
  <2> QED  BY <1>1, <2>2, <2>3, ChainGone
<1>3. CASE Refuse(g)
  <2>1. Goes(g, "fail", "none", s)
    BY <1>3, StackOf DEF Refuse, Leave, Goto, Goes
  <2> QED  BY <1>1, <2>1, ChainGone
<1>4. CASE BeginTransient(g) \/ (BeginSingleton(g) /\ want[g] \notin ready)
  <2> DEFINE k == want[g]
             t == Append(s, [key |-> k, next |-> 1])
  <2>1. Goes(g, "build", "none", t)
    BY <1>4 DEF BeginTransient, BeginSingleton, Push, Leave, Goto, Goes, IInv, Types
  <2>2. k \in Services /\ pc[g] = "enter"
    BY <1>4 DEF BeginTransient, BeginSingleton, IInv, Types
  <2>3. Linked(registry, t)
    BY <1>1, <2>2, LinkedPush
  <2> HIDE DEF t
  <2> QED  BY <2>1, <2>3, ChainGone
<1>5. CASE BeginSingleton(g) /\ want[g] \in ready
  <2>1. Goes(g, "value", "none", s)
    BY <1>5, StackOf DEF BeginSingleton, Leave, Goto, Goes
  <2> QED  BY <1>1, <2>1, ChainGone
<1>6. CASE Argument(g)
  <2> DEFINE i == Top(s).next
             k == Top(s).key
             w == registry[k].inputs[i]
  <2>1. Goes(g, "enter", w, s)
    BY <1>6, StackOf DEF Argument, Current, Ask, Goto, Goes
  <2>2. Top(s) \in Frame
    BY <1>1, <1>6, StackOf, PopOf DEF Argument
  <2>3. i \in Nat \ {0} /\ i <= Len(registry[k].inputs)
    BY <1>6, <2>2 DEF Argument, Current, Frame
  <2>4. k \in Registered
    <3>1. Shrunk(s, Pop(s), k)
      BY <1>1, <1>6, StackOf, PopOf DEF Argument
    <3> QED  BY <3>1, StackOf DEF Shrunk
  <2>5. registry[k].inputs \in Seq(Services)
    BY <2>4, ContainerAssumption DEF IInv, Types
  <2> HIDE DEF i, k
  <2>6. i \in 1..Len(registry[k].inputs)
    BY <2>3, <2>5
  <2>7. w \in Needs(registry, k)
    BY <2>6 DEF Needs
  <2> HIDE DEF w
  <2> QED  BY <1>1, <2>1, <2>7, ChainGone DEF k
<1>7. CASE (Construct(g) \/ Unwind(g)) /\ stack' # stack
  <2>1. /\ s # <<>> /\ UNCHANGED <<want, graph>> /\ stack' = [stack EXCEPT ![g] = Pop(s)]
        /\ \E p \in {"value", "fail"} : pc' = [pc EXCEPT ![g] = p]
    BY <1>7, StackOf DEF Construct, Unwind, Unlock, Goto
  <2>2. PICK p \in {"value", "fail"} : pc' = [pc EXCEPT ![g] = p]
    BY <2>1
  <2>3. Goes(g, p, want[g], Pop(s))
    BY <2>1, <2>2, StackOf DEF Goes
  <2>4. Linked(registry, Pop(s))
    BY <1>1, <2>1, LinkedPop
  <2> QED  BY <2>3, <2>4, ChainGone
<1>8. CASE (Construct(g) \/ Unwind(g)) /\ stack' = stack
  <2>1. /\ UNCHANGED <<want, stack, graph>>
        /\ \E p \in {"value", "fail", "idle"} :
             pc' = [pc EXCEPT ![g] = p] /\ (p = "idle" => s = <<>>)
    BY <1>8, StackOf DEF Construct, Unwind, Unlock, Goto
  <2>2. PICK p \in {"value", "fail", "idle"} :
          pc' = [pc EXCEPT ![g] = p] /\ (p = "idle" => s = <<>>)
    BY <2>1
  <2>3. Goes(g, p, want[g], s)
    BY <2>1, <2>2, StackOf DEF Goes
  <2> QED  BY <1>1, <2>2, <2>3, ChainGone
<1>9. CASE Deliver(g)
  <2>1. CASE s = <<>>
    <3>1. Goes(g, "idle", want[g], s)
      BY <1>9, <2>1, StackOf DEF Deliver, Goto, Goes
    <3> QED  BY <1>1, <2>1, <3>1, ChainGone
  <2>2. CASE s # <<>>
    <3>1. Goes(g, "build", want[g], Advance(s))
      BY <1>9, <2>2, StackOf DEF Deliver, Goto, Goes
    <3>2. Linked(registry, Advance(s))
      BY <1>1, <2>2, LinkedAdvance
    <3> QED  BY <3>1, <3>2, ChainGone
  <2> QED  BY <2>1, <2>2
<1> QED  BY <1>2, <1>3, <1>4, <1>5, <1>6, <1>7, <1>8, <1>9 DEF Progress

LEMMA NextKeepsChain == IInv /\ Chained /\ [Next]_vars => Chained'
<1> SUFFICES ASSUME IInv, Chained, [Next]_vars
             PROVE  Chained'
  OBVIOUS
<1>1. CASE UNCHANGED <<registry, pc, want, stack>>
  BY <1>1 DEF Chained
<1>2. CASE Register
  <2>1. PICK r \in Registrations : Provide(r)
    BY <1>2 DEF Register
  <2>2. \A k \in Registered : registry'[k] = registry[k]
    BY <2>1 DEF Provide, Extended, Registered
  <2>3. UNCHANGED <<pc, want, stack>>
    BY <2>1 DEF Provide
  <2>4. \A k \in Registered : Needs(registry', k) = Needs(registry, k)
    BY <2>2 DEF Needs
  <2>5. ASSUME NEW g \in Goroutines
        PROVE  \A i \in 1..Len(stack[g]) : stack[g][i].key \in Registered
    BY StackOf DEF KeysOf
  <2>6. ASSUME NEW g \in Goroutines
        PROVE  Linked(registry', stack[g])
    BY <2>4, <2>5 DEF Chained, Linked
  <2>7. ASSUME NEW g \in Goroutines, stack[g] # <<>>
        PROVE  Top(stack[g]).key \in Registered
    <3>1. Len(stack[g]) \in 1..Len(stack[g])
      BY <2>7, StackOf
    <3> QED  BY <2>5, <3>1 DEF Top
  <2> QED  BY <2>3, <2>4, <2>6, <2>7 DEF Chained
<1>3. CASE Validate
  BY <1>1, <1>3
  DEF Validate, ValidateBegin, VisitRoot, VisitInput, VisitEnd, ValidateOk, builders
<1>4. CASE Resolution
  BY <1>4, GoroutineKeepsChain DEF Resolution
<1>5. UNCHANGED vars => UNCHANGED <<registry, pc, want, stack>>
  BY DEF vars, graph, builders
<1> QED  BY <1>1, <1>2, <1>3, <1>4, <1>5 DEF Next

\* Goroutines that wait in a circle build services none of which comes last: each takes
\* one that is built by one of them.  What Validate accepted has no such set.
LEMMA ChainBreaks == IInv /\ Settled(registry, checked) /\ Chained => NoCircularWait
<1> SUFFICES ASSUME IInv, Settled(registry, checked), Chained,
                    NEW G \in SUBSET Goroutines, G # {},
                    \A g \in G : Building(g) \subseteq checked, \A g \in G : WaitsFor(g, G)
             PROVE  FALSE
  BY DEF NoCircularWait
<1> DEFINE V == UNION {KeysOf(stack[g]) : g \in G}
<1>1. \A g \in G : Building(g) = KeysOf(stack[g])
  BY DEF Building, KeysOf
<1>2. V \subseteq checked
  BY <1>1
<1>3. \A g \in G : want[g] \in V
  <2> SUFFICES ASSUME NEW g \in G
               PROVE  want[g] \in V
    OBVIOUS
  <2>1. want[g] \in Registered /\ mutex[want[g]] \in G
    BY DEF WaitsFor
  <2>2. want[g] \in KeysOf(stack[mutex[want[g]]])
    BY <2>1 DEF IInv, Locks
  <2> QED  BY <2>1, <2>2
<1>4. PICK k \in V : Needs(registry, k) \cap V = {}
  <2>1. V # {}
    BY <1>3
  <2> QED  BY <1>2, <2>1 DEF Settled
<1>5. PICK g \in G : k \in KeysOf(stack[g])
  OBVIOUS
<1>6. stack[g] \in Seq(Frame)
  BY StackOf
<1>7. PICK i \in 1..Len(stack[g]) : k = stack[g][i].key
  BY <1>5, <1>6 DEF KeysOf
<1>8. CASE i = Len(stack[g])
  <2>1. want[g] \in Needs(registry, k)
    BY <1>6, <1>7, <1>8 DEF Chained, WaitsFor, Top
  <2> QED  BY <1>3, <1>4, <2>1
<1>9. CASE i # Len(stack[g])
  <2>1. i + 1 \in 1..Len(stack[g]) /\ i + 1 <= Len(stack[g])
    BY <1>6, <1>9
  <2>2. stack[g][i + 1].key \in Needs(registry, k)
    BY <1>7, <2>1 DEF Chained, Linked
  <2>3. stack[g][i + 1].key \in V
    BY <1>6, <2>1 DEF KeysOf
  <2> QED  BY <1>4, <2>2, <2>3
<1> QED  BY <1>8, <1>9

LEMMA InitChain == Init => Chained
<1> SUFFICES ASSUME Init, NEW g \in Goroutines
             PROVE  Linked(registry, <<>>) /\ pc[g] = "idle" /\ stack[g] = <<>>
  BY DEF Chained
<1> QED  BY DEF Init, Linked

-----------------------------------------------------------------------------
(* The theorems on what Validate accepts                                   *)

\* What Validate accepted is complete and free of cycles, and stays so whatever is
\* registered later (Container.Validate).
THEOREM ValidatedGraph == Spec => []Settled(registry, checked)
<1>1. IInv /\ GraphInv => Settled(registry, checked)
  BY DEF GraphInv
<1> QED  BY <1>1, InitIInv, NextKeepsIInv, InitGraph, NextKeepsGraph, PTL DEF Spec

\* Resolutions of services that Validate accepted cannot deadlock: no goroutines wait for
\* one another's mutexes in a circle (Container.BeginSingleton).
THEOREM NoDeadlock == Spec => []NoCircularWait
<1>1. IInv /\ GraphInv /\ Chained => NoCircularWait
  BY ChainBreaks DEF GraphInv
<1> QED  BY <1>1, InitIInv, NextKeepsIInv, InitGraph, NextKeepsGraph, InitChain,
            NextKeepsChain, PTL DEF Spec

-----------------------------------------------------------------------------
(* The generated file, and the processes that start beside it              *)

\* A goroutine that is not at the entry of resolve asks for nothing.
Rested == \A g \in Goroutines : pc[g] # "enter" => want[g] = "none"

\* The file, if there is one, is what the generator made of the registrations behind it.
IsGraph(f) ==
  /\ f = [s \in DOMAIN f |-> f[s]]
  /\ \A s \in DOMAIN f : f[s] \in Registrations /\ f[s].key = s

FileOf(f) == [program |-> Program(f), graph |-> f, fingerprint |-> Fingerprint(f)]

FileInv ==
  /\ IsGraph(registry)
  /\ file # NoFile => IsGraph(file.graph) /\ file = FileOf(file.graph)

LEMMA RestGone ==
  ASSUME IInv, Rested, NEW g \in Goroutines, NEW p, NEW w,
         pc' = [pc EXCEPT ![g] = p], want' = [want EXCEPT ![g] = w],
         p # "enter" => w = "none"
  PROVE  Rested'
<1>1. \A h \in Goroutines : /\ pc'[h] = IF h = g THEN p ELSE pc[h]
                            /\ want'[h] = IF h = g THEN w ELSE want[h]
  BY DEF IInv, Types
<1> QED  BY <1>1 DEF Rested

LEMMA NextKeepsRest == IInv /\ Rested /\ [Next]_vars => Rested'
<1> SUFFICES ASSUME IInv, Rested, [Next]_vars
             PROVE  Rested'
  OBVIOUS
<1>1. CASE UNCHANGED <<pc, want>>
  BY <1>1 DEF Rested
<1>2. CASE Resolution
  <2>1. PICK g \in Goroutines : Resolve(g) \/ BeginSingleton(g) \/ Progress(g)
    BY <1>2 DEF Resolution
  <2>2. CASE Resolve(g) \/ Argument(g)
    <3>1. PICK w : Ask(g, w)
      BY <2>2 DEF Resolve, Argument
    <3> QED  BY <3>1, RestGone DEF Ask, Goto
  <2>3. CASE Refuse(g) \/ BeginTransient(g) \/ BeginSingleton(g)
    <3>1. PICK p \in {"fail", "build", "value"} : Leave(g, p)
      BY <2>3 DEF Refuse, BeginTransient, BeginSingleton
    <3> QED  BY <3>1, RestGone DEF Leave, Goto
  <2>4. CASE Construct(g) \/ Deliver(g) \/ Unwind(g)
    <3>1. pc[g] # "enter" /\ UNCHANGED want
      BY <2>4 DEF Construct, Deliver, Unwind
    <3>2. \/ UNCHANGED pc
          \/ \E p \in {"value", "fail", "idle", "build"} : Goto(g, p)
      BY <2>4 DEF Construct, Deliver, Unwind
    <3>3. CASE UNCHANGED pc
      BY <1>1, <3>1, <3>3
    <3>4. CASE \E p \in {"value", "fail", "idle", "build"} : Goto(g, p)
      <4>1. PICK p \in {"value", "fail", "idle", "build"} : Goto(g, p)
        BY <3>4
      <4>2. want' = [want EXCEPT ![g] = "none"]
        BY <3>1 DEF Rested, IInv, Types
      <4> QED  BY <4>1, <4>2, RestGone DEF Goto
    <3> QED  BY <3>2, <3>3, <3>4
  <2> QED  BY <2>1, <2>2, <2>3, <2>4 DEF Progress
<1>3. CASE Register
  BY <1>1, <1>3 DEF Register, Provide
<1>4. CASE Validate
  BY <1>1, <1>4 DEF Validate, ValidateBegin, VisitRoot, VisitInput, VisitEnd, ValidateOk,
     builders
<1> QED  BY <1>1, <1>2, <1>3, <1>4 DEF Next, vars, builders

\* Generate writes only the file: what is left are the container's steps and Boot.
LEMMA WiringSteps == [WiringNext]_<<vars, file>> => [Next]_vars \/ Boot
BY DEF WiringNext, Generate, Next

\* A process that starts finds a container as Init describes it.
LEMMA BootIsInit == IInv /\ Chained /\ Rested /\ Boot => Init'
<1> SUFFICES ASSUME IInv, Chained, Rested, Boot
             PROVE  Init'
  OBVIOUS
<1>1. \A g \in Goroutines : pc[g] = "idle" /\ stack[g] = <<>> /\ want[g] = "none"
  BY DEF Boot, Chained, Rested
<1>2. pc = [g \in Goroutines |-> "idle"]
  BY <1>1 DEF IInv, Types
<1>3. want = [g \in Goroutines |-> "none"]
  BY <1>1 DEF IInv, Types
<1>4. stack = [g \in Goroutines |-> <<>>]
  BY <1>1 DEF IInv, Types
<1>5. \A s \in Services : mutex[s] = "nobody"
  <2> SUFFICES ASSUME NEW s \in Services, mutex[s] # "nobody"
               PROVE  FALSE
    OBVIOUS
  <2>1. mutex[s] \in Goroutines /\ s \in Registered
    BY DEF IInv, Types, Locks
  <2>2. s \in KeysOf(stack[mutex[s]])
    BY <2>1 DEF IInv, Locks
  <2> QED  BY <1>1, <2>1, <2>2 DEF KeysOf
<1>6. mutex = [s \in Services |-> "nobody"]
  BY <1>5 DEF IInv, Types
<1> QED  BY <1>2, <1>3, <1>4, <1>6 DEF Boot, Init

\* Registrations that differ have fingerprints that differ.
LEMMA EntryOf ==
  ASSUME NEW f, NEW h, IsGraph(f), IsGraph(h), Fingerprint(f) = Fingerprint(h),
         NEW s \in DOMAIN f
  PROVE  s \in DOMAIN h /\ f[s] = h[s]
<1>1. PICK t \in DOMAIN h :
        <<s, f[s].pkg, f[s].source, f[s].returns, f[s].inputs, f[s].lifetime>>
          = <<t, h[t].pkg, h[t].source, h[t].returns, h[t].inputs, h[t].lifetime>>
  BY Zenon DEF Fingerprint
<1>2. /\ s = t /\ f[s].pkg = h[t].pkg /\ f[s].source = h[t].source
      /\ f[s].returns = h[t].returns /\ f[s].inputs = h[t].inputs
      /\ f[s].lifetime = h[t].lifetime
  BY <1>1
<1>3. f[s] \in Registrations /\ f[s].key = s /\ h[s] \in Registrations /\ h[s].key = s
  BY <1>2 DEF IsGraph
<1>4. /\ f[s] = [key |-> s, pkg |-> f[s].pkg, source |-> f[s].source,
                returns |-> f[s].returns, inputs |-> f[s].inputs, lifetime |-> f[s].lifetime]
      /\ h[s] = [key |-> s, pkg |-> h[s].pkg, source |-> h[s].source,
                returns |-> h[s].returns, inputs |-> h[s].inputs, lifetime |-> h[s].lifetime]
  BY <1>3, WiringAssumption, Zenon
<1> QED  BY <1>2, <1>4, Zenon

LEMMA FingerprintOf ==
  ASSUME NEW f, NEW h, IsGraph(f), IsGraph(h), Fingerprint(f) = Fingerprint(h)
  PROVE  f = h
<1>1. DOMAIN f = DOMAIN h /\ \A s \in DOMAIN f : f[s] = h[s]
  BY EntryOf
<1>2. f = [s \in DOMAIN f |-> f[s]] /\ h = [s \in DOMAIN h |-> h[s]]
  BY DEF IsGraph
<1> HIDE DEF Fingerprint
<1> QED  BY <1>1, <1>2

LEMMA InitFile == WiringInit => FileInv
<1> SUFFICES ASSUME WiringInit
             PROVE  FileInv
  OBVIOUS
<1>1. registry = <<>> /\ file = NoFile
  BY DEF WiringInit, Init
<1> QED  BY <1>1 DEF FileInv, IsGraph

LEMMA NextKeepsFile == FileInv /\ [WiringNext]_<<vars, file>> => FileInv'
<1> SUFFICES ASSUME FileInv, [WiringNext]_<<vars, file>>
             PROVE  FileInv'
  OBVIOUS
<1>1. CASE UNCHANGED <<registry, file>>
  BY <1>1 DEF FileInv
<1>2. CASE Register /\ UNCHANGED file
  <2>1. PICK r \in Registrations :
          registry' = [k \in DOMAIN registry \cup {r.key} |->
                         IF k = r.key THEN r ELSE registry[k]]
    BY <1>2 DEF Register, Provide, Extended
  <2> DEFINE D == DOMAIN registry \cup {r.key}
  <2>2. DOMAIN registry' = D /\ \A k \in D : registry'[k] = IF k = r.key THEN r ELSE registry[k]
    BY <2>1
  <2>3. registry' = [k \in DOMAIN registry' |-> registry'[k]]
    BY <2>1
  <2>4. \A k \in D : registry'[k] \in Registrations /\ registry'[k].key = k
    BY <2>2 DEF FileInv, IsGraph
  <2>5. IsGraph(registry')
    BY <2>2, <2>3, <2>4 DEF IsGraph
  <2> QED  BY <1>2, <2>5 DEF FileInv
<1>3. CASE Generate
  <2>1. UNCHANGED registry /\ file' = FileOf(registry) /\ file'.graph = registry
    BY <1>3 DEF Generate, vars, graph, FileOf
  <2> QED  BY <2>1 DEF FileInv
<1>4. CASE Boot
  <2>1. registry' = <<>> /\ UNCHANGED file
    BY <1>4 DEF Boot
  <2>2. IsGraph(registry')
    BY <2>1 DEF IsGraph
  <2> QED  BY <2>1, <2>2 DEF FileInv
<1>5. CASE Validate /\ UNCHANGED file
  <2>1. UNCHANGED registry
    BY <1>5 DEF Validate, ValidateBegin, VisitRoot, VisitInput, VisitEnd, ValidateOk
  <2> QED  BY <1>1, <1>5, <2>1
<1>6. CASE Resolution /\ UNCHANGED file
  <2>1. UNCHANGED registry
    BY <1>6 DEF Resolution, Progress, Resolve, Refuse, BeginTransient, BeginSingleton,
       Argument, Construct, Deliver, Unwind, graph
  <2> QED  BY <1>1, <1>6, <2>1
<1> QED  BY <1>1, <1>2, <1>3, <1>4, <1>5, <1>6 DEF WiringNext, vars, graph

LEMMA WiringInvariance == WiringSpec => [](IInv /\ GraphInv /\ Chained /\ Rested)
<1> DEFINE Inv == IInv /\ GraphInv /\ Chained /\ Rested
<1>1. Init => Inv
  BY InitIInv, InitGraph, InitChain DEF Init, Rested
<1>2. Inv /\ [Next]_vars => Inv'
  BY NextKeepsIInv, NextKeepsGraph, NextKeepsChain, NextKeepsRest
<1>3. Inv /\ Boot => Init'
  BY BootIsInit
<1> QED  BY <1>1, <1>2, <1>3, WiringSteps, PTL DEF WiringSpec, WiringInit

-----------------------------------------------------------------------------
(* What the generator makes of a graph that Validate accepted               *)

\* A nonempty set of numbers has a least element.
LEMMA Least ==
  ASSUME NEW S \in SUBSET Nat, S # {}
  PROVE  \E m \in S : \A n \in S : m <= n
<1>1. PICK m \in S : \A n \in S : ~(<<n, m>> \in OpToRel(<, Nat))
  BY WFMin, NatLessThanWellFounded, Zenon
<1>2. \A n \in S : ~(n < m)
  BY <1>1 DEF OpToRel
<1>3. m \in Nat /\ \A n \in S : n \in Nat
  OBVIOUS
<1>4. \A n \in S : m <= n
  BY <1>2, <1>3
<1> QED  BY <1>4

\* Induction along a loop of N steps.
LEMMA UpTo ==
  ASSUME NEW N \in Nat, NEW S, 0 \in S, \A n \in 1..N : n - 1 \in S => n \in S
  PROVE  \A n \in 0..N : n \in S
<1> SUFFICES ASSUME \E n \in 0..N : n \notin S
             PROVE  FALSE
  OBVIOUS
<1> DEFINE T == {n \in 0..N : n \notin S}
<1>1. PICK m \in T : \A n \in T : m <= n
  <2>1. T \in SUBSET Nat /\ T # {}
    OBVIOUS
  <2> HIDE DEF T
  <2> QED  BY <2>1, Least
<1>2. m \in 1..N /\ m - 1 \in 0..N /\ m - 1 \notin T
  BY <1>1
<1> QED  BY <1>1, <1>2

LEMMA RangeOfAppend ==
  ASSUME NEW D, NEW s \in Seq(D), NEW x \in D
  PROVE  Append(s, x) \in Seq(D) /\ Range(Append(s, x)) = Range(s) \cup {x}
<1>1. /\ Append(s, x) \in Seq(D) /\ Len(Append(s, x)) = Len(s) + 1 /\ Len(s) \in Nat
      /\ \A i \in 1..Len(s) : Append(s, x)[i] = s[i]
      /\ Append(s, x)[Len(s) + 1] = x
  BY AppendProperties
<1>2. /\ Range(s) = {s[i] : i \in 1..Len(s)}
      /\ Range(Append(s, x)) = {Append(s, x)[i] : i \in 1..(Len(s) + 1)}
  BY <1>1, RangeEquality
<1> QED  BY <1>1, <1>2

\* The loop of Chosen, with one entry for each element of seq.
LEMMA ChosenOf ==
  ASSUME NEW D, NEW seq \in Seq(D), NEW S
  PROVE  /\ Chosen(seq, S) \in Seq(D \cap S)
         /\ \A s \in S : s \in Range(seq) => s \in Range(Chosen(seq, S))
<1> DEFINE N == Len(seq)
           Step(c, n) == IF seq[n] \in S THEN Append(c, seq[n]) ELSE c
           Is(g, m) == g = [n \in 0..m |-> IF n = 0 THEN <<>> ELSE Step(g[n - 1], n)]
           Right(g, n) == /\ g[n] \in Seq(D \cap S)
                          /\ \A k \in 1..n : seq[k] \in S => seq[k] \in Range(g[n])
<1>1. N \in Nat
  OBVIOUS
<1> HIDE DEF N, Is
<1>2. \E g : Is(g, N)
  <2> DEFINE T == {m \in 0..N : \E g : Is(g, m)}
  <2>1. 0 \in T
    <3> DEFINE h == [n \in 0..0 |-> <<>>]
    <3>1. \A n \in 0..0 : n = 0
      OBVIOUS
    <3> HIDE DEF Step
    <3>2. Is(h, 0)
      BY <3>1 DEF Is
    <3> QED  BY <1>1, <3>2
  <2>2. \A m \in 1..N : m - 1 \in T => m \in T
    <3> SUFFICES ASSUME NEW m \in 1..N, m - 1 \in T
                 PROVE  \E g : Is(g, m)
      BY <1>1
    <3>1. PICK g : Is(g, m - 1)
      OBVIOUS
    <3> DEFINE h == [n \in 0..m |-> IF n = m THEN Step(g[m - 1], m) ELSE g[n]]
    <3> HIDE DEF Step
    <3>2. \A n \in 0..m : h[n] = IF n = 0 THEN <<>> ELSE Step(h[n - 1], n)
      BY <1>1, <3>1 DEF Is
    <3>3. h = [n \in 0..m |-> h[n]]
      BY Zenon
    <3> HIDE DEF h
    <3>4. Is(h, m)
      BY <3>2, <3>3 DEF Is
    <3> QED  BY <3>4
  <2> HIDE DEF T
  <2>3. \A n \in 0..N : n \in T
    BY <1>1, <2>1, <2>2, UpTo
  <2>4. N \in T
    BY <1>1, <2>3
  <2> QED  BY <2>4 DEF T
<1>3. PICK g : Is(g, N) /\ Chosen(seq, S) = g[N]
  <2>1. Chosen(seq, S) = (CHOOSE h : Is(h, N))[N]
    BY DEF Chosen, N, Is
  <2> QED  BY <1>2, <2>1, Zenon
<1>4. \A n \in 0..N : Right(g, n)
  <2> DEFINE T == {n \in 0..N : Right(g, n)}
  <2>1. 0 \in T
    <3>1. g[0] = <<>>
      BY <1>1, <1>3 DEF Is
    <3>2. Right(g, 0)
      BY <3>1
    <3> QED  BY <1>1, <3>2
  <2>2. \A n \in 1..N : n - 1 \in T => n \in T
    <3> SUFFICES ASSUME NEW n \in 1..N, Right(g, n - 1)
                 PROVE  Right(g, n)
      BY <1>1
    <3>1. g[n] = Step(g[n - 1], n)
      <4> HIDE DEF Step
      <4> QED  BY <1>1, <1>3 DEF Is
    <3>2. CASE seq[n] \in S
      <4>1. g[n] = Append(g[n - 1], seq[n]) /\ seq[n] \in D \cap S
        BY <3>1, <3>2 DEF N
      <4>2. g[n] \in Seq(D \cap S) /\ Range(g[n]) = Range(g[n - 1]) \cup {seq[n]}
        BY <4>1, RangeOfAppend
      <4> QED  BY <4>2, <1>1
    <3>3. CASE seq[n] \notin S
      BY <1>1, <3>1, <3>3
    <3> QED  BY <3>2, <3>3
  <2> HIDE DEF T
  <2>3. \A n \in 0..N : n \in T
    BY <1>1, <2>1, <2>2, UpTo
  <2> QED  BY <2>3 DEF T
<1>5. Right(g, N)
  BY <1>1, <1>4
<1>6. Range(seq) = {seq[i] : i \in 1..N}
  BY RangeEquality DEF N
<1> QED  BY <1>3, <1>5, <1>6

\* The suffixes from 2 up do not run out: with one more of them than names are taken, one
\* makes a name that is free.
LEMMA UniqueIsFresh ==
  ASSUME NEW V, NEW name \in Seq(V), NEW taken, IsFiniteSet(taken)
  PROVE  Unique(name, taken) \notin taken
<1> DEFINE c == Cardinality(taken)
           I == 2..(c + 2)
           free == {n \in I : Append(name, n) \notin taken}
<1>1. c \in Nat /\ IsFiniteSet(I) /\ Cardinality(I) = c + 1
  <2>1. c \in Nat
    BY FS_CardinalityType
  <2> HIDE DEF c
  <2>2. 2 \in Int /\ c + 2 \in Int
    BY <2>1
  <2> QED  BY <2>1, <2>2, FS_Interval
<1>2. \A n \in Nat : Append(name, n)[Len(name) + 1] = n
  BY AppendProperties
<1>3. free # {}
  <2> SUFFICES ASSUME \A n \in I : Append(name, n) \in taken
               PROVE  FALSE
    OBVIOUS
  <2> DEFINE F == [n \in I |-> Append(name, n)]
  <2>1. F \in [I -> taken]
    OBVIOUS
  <2>2. Cardinality(taken) < Cardinality(I)
    BY <1>1
  <2> HIDE DEF F, I, c
  <2>3. PICK m \in I, n \in I : m # n /\ F[m] = F[n]
    BY <1>1, <2>1, <2>2, FS_PigeonHole
  <2>4. Append(name, m) = Append(name, n) /\ m \in Nat /\ n \in Nat
    BY <1>1, <2>3 DEF F, I
  <2> QED  BY <1>2, <2>3, <2>4
<1>4. free \in SUBSET Nat
  BY <1>1
<1> HIDE DEF free
<1>5. Min(free) \in free
  BY <1>3, <1>4, Least DEF Min
<1>6. Append(name, Min(free)) \notin taken
  BY <1>5 DEF free
<1> QED  BY <1>6 DEF Unique, free

\* Names that are different from one another and from the reserved ones.
Apart(names, reserved) ==
  /\ IsFiniteSet(Range(names)) /\ Range(names) \cap reserved = {}
  /\ \A x, y \in DOMAIN names : names[x] = names[y] => x = y

LEMMA HandOut ==
  ASSUME NEW names, NEW reserved, Apart(names, reserved),
         NEW x, x \notin DOMAIN names, NEW u, u \notin reserved \cup Range(names)
  PROVE  /\ Apart(Extended(names, x, u), reserved)
         /\ DOMAIN Extended(names, x, u) = DOMAIN names \cup {x}
<1> DEFINE e == Extended(names, x, u)
<1>1. /\ DOMAIN e = DOMAIN names \cup {x} /\ e[x] = u
      /\ \A y \in DOMAIN names : e[y] = names[y]
  BY DEF Extended
<1> HIDE DEF e
<1>2. Range(e) = Range(names) \cup {u}
  BY <1>1 DEF Range
<1>3. IsFiniteSet(Range(e))
  BY <1>2, FS_AddElement DEF Apart
<1>4. \A y \in DOMAIN names : names[y] # u
  BY DEF Range
<1>5. \A y, z \in DOMAIN e : e[y] = e[z] => y = z
  BY <1>1, <1>4 DEF Apart
<1>6. Apart(e, reserved)
  BY <1>2, <1>3, <1>5 DEF Apart
<1> QED  BY <1>1, <1>6 DEF e

\* The loop of Named: each of seq has a name, and no two have the same.
LEMMA NamedApart ==
  ASSUME NEW X, NEW seq \in Seq(X), NEW V, NEW wish, \A x \in X : wish[x] \in Seq(V),
         NEW reserved, IsFiniteSet(reserved)
  PROVE  /\ Apart(Named(seq, wish, reserved), reserved)
         /\ DOMAIN Named(seq, wish, reserved) = Range(seq)
<1> DEFINE N == Len(seq)
           Step(c, n) == IF seq[n] \in DOMAIN c THEN c
                         ELSE Extended(c, seq[n], Unique(wish[seq[n]], reserved \cup Range(c)))
           Is(g, m) == g = [n \in 0..m |-> IF n = 0 THEN <<>> ELSE Step(g[n - 1], n)]
           Right(g, n) == Apart(g[n], reserved) /\ DOMAIN g[n] = {seq[k] : k \in 1..n}
<1>1. N \in Nat
  OBVIOUS
<1> HIDE DEF N, Is, Step
<1>2. \E g : Is(g, N)
  <2> DEFINE T == {m \in 0..N : \E g : Is(g, m)}
  <2>1. 0 \in T
    <3> DEFINE h == [n \in 0..0 |-> <<>>]
    <3>1. \A n \in 0..0 : n = 0
      OBVIOUS
    <3>2. Is(h, 0)
      BY <3>1 DEF Is
    <3> QED  BY <1>1, <3>2
  <2>2. \A m \in 1..N : m - 1 \in T => m \in T
    <3> SUFFICES ASSUME NEW m \in 1..N, m - 1 \in T
                 PROVE  m \in T
      OBVIOUS
    <3>1. PICK g : Is(g, m - 1)
      OBVIOUS
    <3> DEFINE h == [n \in 0..m |-> IF n = m THEN Step(g[m - 1], m) ELSE g[n]]
    <3>2. \A n \in 0..m : h[n] = IF n = 0 THEN <<>> ELSE Step(h[n - 1], n)
      BY <1>1, <3>1 DEF Is
    <3>3. h = [n \in 0..m |-> h[n]]
      BY Zenon
    <3> HIDE DEF h
    <3>4. Is(h, m)
      BY <3>2, <3>3 DEF Is
    <3> QED  BY <1>1, <3>4
  <2> HIDE DEF T
  <2>3. \A n \in 0..N : n \in T
    BY <1>1, <2>1, <2>2, UpTo
  <2>4. N \in T
    BY <1>1, <2>3
  <2> QED  BY <2>4 DEF T
<1>3. PICK g : Is(g, N) /\ Named(seq, wish, reserved) = g[N]
  <2>1. Named(seq, wish, reserved) = (CHOOSE h : Is(h, N))[N]
    BY DEF Named, N, Is, Step
  <2> QED  BY <1>2, <2>1, Zenon
<1>4. \A n \in 0..N : Right(g, n)
  <2> DEFINE T == {n \in 0..N : Right(g, n)}
  <2>1. 0 \in T
    <3>1. g[0] = <<>>
      BY <1>1, <1>3 DEF Is
    <3>2. DOMAIN g[0] = {} /\ Range(g[0]) = {} /\ {seq[k] : k \in 1..0} = {}
      BY <3>1 DEF Range
    <3>3. Right(g, 0)
      BY <3>2, FS_EmptySet DEF Apart
    <3> QED  BY <1>1, <3>3
  <2>2. \A n \in 1..N : n - 1 \in T => n \in T
    <3> SUFFICES ASSUME NEW n \in 1..N, Right(g, n - 1)
                 PROVE  Right(g, n)
      BY <1>1
    <3> DEFINE c == g[n - 1]
               u == Unique(wish[seq[n]], reserved \cup Range(c))
    <3>1. g[n] = Step(c, n)
      BY <1>1, <1>3 DEF Is
    <3>2. {seq[k] : k \in 1..n} = {seq[k] : k \in 1..(n - 1)} \cup {seq[n]}
      BY <1>1
    <3>3. CASE seq[n] \in DOMAIN c
      BY <3>1, <3>2, <3>3 DEF Step
    <3>4. CASE seq[n] \notin DOMAIN c
      <4>1. IsFiniteSet(reserved \cup Range(c))
        BY FS_Union DEF Apart
      <4>2. wish[seq[n]] \in Seq(V)
        BY DEF N
      <4>3. u \notin reserved \cup Range(c)
        BY <4>1, <4>2, UniqueIsFresh
      <4>4. g[n] = Extended(c, seq[n], u)
        BY <3>1, <3>4 DEF Step
      <4> HIDE DEF c, u
      <4>5. Apart(c, reserved) /\ DOMAIN c = {seq[k] : k \in 1..(n - 1)}
        BY DEF c
      <4>6. Apart(g[n], reserved) /\ DOMAIN g[n] = DOMAIN c \cup {seq[n]}
        <5>1. Apart(c, reserved)
          BY <4>5
        <5>2. seq[n] \notin DOMAIN c
          BY <3>4
        <5>3. /\ Apart(Extended(c, seq[n], u), reserved)
              /\ DOMAIN Extended(c, seq[n], u) = DOMAIN c \cup {seq[n]}
          BY <4>3, <5>1, <5>2, HandOut
        <5> QED  BY <4>4, <5>3
      <4> QED  BY <3>2, <4>5, <4>6
    <3> QED  BY <3>3, <3>4
  <2> HIDE DEF T
  <2>3. \A n \in 0..N : n \in T
    BY <1>1, <2>1, <2>2, UpTo
  <2> QED  BY <2>3 DEF T
<1>5. Right(g, N)
  BY <1>1, <1>4
<1>6. Range(seq) = {seq[i] : i \in 1..N}
  BY RangeEquality DEF N
<1> QED  BY <1>3, <1>5, <1>6

\* g is the traversal of seq from acc, place by place, and stays in A.
Traversed(visit, seq, acc, A, g) ==
  /\ g[0] = acc /\ \A n \in 1..Len(seq) : g[n] = visit[seq[n]][g[n - 1]]
  /\ \A n \in 0..Len(seq) : g[n] \in A
  /\ Through(visit, seq, acc) = g[Len(seq)]

LEMMA ThroughOf ==
  ASSUME NEW D, NEW A, NEW visit, \A x \in D : visit[x] \in [A -> A],
         NEW seq \in Seq(D), NEW acc \in A
  PROVE  \E g : Traversed(visit, seq, acc, A, g)
<1> DEFINE N == Len(seq)
           Step(e, n) == visit[seq[n]][e]
           Is(g, m) == g = [n \in 0..m |-> IF n = 0 THEN acc ELSE Step(g[n - 1], n)]
<1>1. N \in Nat /\ \A n \in 1..N : seq[n] \in D
  OBVIOUS
<1> HIDE DEF N, Is, Step
<1>2. \E g : Is(g, N)
  <2> DEFINE T == {m \in 0..N : \E g : Is(g, m)}
  <2>1. 0 \in T
    <3> DEFINE h == [n \in 0..0 |-> acc]
    <3>1. \A n \in 0..0 : n = 0
      OBVIOUS
    <3>2. Is(h, 0)
      BY <3>1 DEF Is
    <3> QED  BY <1>1, <3>2
  <2>2. \A m \in 1..N : m - 1 \in T => m \in T
    <3> SUFFICES ASSUME NEW m \in 1..N, m - 1 \in T
                 PROVE  m \in T
      OBVIOUS
    <3>1. PICK g : Is(g, m - 1)
      OBVIOUS
    <3> DEFINE h == [n \in 0..m |-> IF n = m THEN Step(g[m - 1], m) ELSE g[n]]
    <3>2. \A n \in 0..m : h[n] = IF n = 0 THEN acc ELSE Step(h[n - 1], n)
      BY <1>1, <3>1 DEF Is
    <3>3. h = [n \in 0..m |-> h[n]]
      BY Zenon
    <3> HIDE DEF h
    <3>4. Is(h, m)
      BY <3>2, <3>3 DEF Is
    <3> QED  BY <1>1, <3>4
  <2> HIDE DEF T
  <2>3. \A n \in 0..N : n \in T
    BY <1>1, <2>1, <2>2, UpTo
  <2>4. N \in T
    BY <1>1, <2>3
  <2> QED  BY <2>4 DEF T
<1>3. PICK g : Is(g, N) /\ Through(visit, seq, acc) = g[N]
  <2>1. Through(visit, seq, acc) = (CHOOSE h : Is(h, N))[N]
    BY DEF Through, N, Is, Step
  <2> QED  BY <1>2, <2>1, Zenon
<1>4. \A n \in 0..N : g[n] \in A
  <2> DEFINE T == {n \in 0..N : g[n] \in A}
  <2>1. 0 \in T
    BY <1>1, <1>3 DEF Is
  <2>2. \A n \in 1..N : n - 1 \in T => n \in T
    BY <1>1, <1>3 DEF Is, Step
  <2> HIDE DEF T
  <2>3. \A n \in 0..N : n \in T
    BY <1>1, <2>1, <2>2, UpTo
  <2> QED  BY <2>3 DEF T
<1>5. g[0] = acc /\ \A n \in 1..N : g[n] = visit[seq[n]][g[n - 1]]
  BY <1>1, <1>3 DEF Is, Step
<1> QED  BY <1>3, <1>4, <1>5 DEF N, Traversed

\* What a traversal does depends on the visits it makes.
LEMMA ThroughSame ==
  ASSUME NEW D, NEW A, NEW visit, \A x \in D : visit[x] \in [A -> A],
         NEW other, \A x \in D : other[x] = visit[x], NEW seq \in Seq(D), NEW acc \in A
  PROVE  Through(other, seq, acc) = Through(visit, seq, acc)
<1> DEFINE N == Len(seq)
<1>1. N \in Nat /\ \A n \in 1..N : seq[n] \in D
  OBVIOUS
<1>2. PICK g : Traversed(visit, seq, acc, A, g)
  BY ThroughOf
<1>3. PICK h : Traversed(other, seq, acc, A, h)
  <2>1. \A x \in D : other[x] \in [A -> A]
    OBVIOUS
  <2> QED  BY <2>1, ThroughOf
<1> HIDE DEF N
<1> DEFINE T == {n \in 0..N : g[n] = h[n]}
<1>4. 0 \in T
  BY <1>1, <1>2, <1>3 DEF Traversed, N
<1>5. \A n \in 1..N : n - 1 \in T => n \in T
  <2> SUFFICES ASSUME NEW n \in 1..N, n - 1 \in T
               PROVE  n \in T
    OBVIOUS
  <2>1. g[n] = visit[seq[n]][g[n - 1]] /\ h[n] = other[seq[n]][h[n - 1]]
    BY <1>1, <1>2, <1>3 DEF Traversed, N
  <2> QED  BY <1>1, <2>1
<1> HIDE DEF T
<1>6. \A n \in 0..N : n \in T
  BY <1>1, <1>4, <1>5, UpTo
<1>7. g[N] = h[N]
  BY <1>1, <1>6 DEF T
<1> QED  BY <1>2, <1>3, <1>7 DEF Traversed, N

\* Of the services of a settled graph, those that have a property are all of them if one has
\* it whenever its inputs do.
LEMMA Settling ==
  ASSUME NEW f, Settled(f, DOMAIN f), IsFiniteSet(DOMAIN f), NEW C, {} \in C,
         \A D \in C : D \subseteq DOMAIN f /\ \A k \in DOMAIN f \ D :
            Needs(f, k) \subseteq D => D \cup {k} \in C
  PROVE  DOMAIN f \in C
<1> DEFINE N == Cardinality(DOMAIN f)
           T == {n \in 0..N : \E D \in C : Cardinality(D) = n}
<1>1. N \in Nat
  BY FS_CardinalityType
<1> HIDE DEF N
<1>2. 0 \in T
  BY <1>1, FS_EmptySet
<1>3. \A n \in 1..N : n - 1 \in T => n \in T
  <2> SUFFICES ASSUME NEW n \in 1..N, n - 1 \in T
               PROVE  n \in T
    OBVIOUS
  <2>1. PICK D \in C : Cardinality(D) = n - 1
    OBVIOUS
  <2>2. D \subseteq DOMAIN f
    OBVIOUS
  <2>3. DOMAIN f \ D # {}
    <3> SUFFICES ASSUME DOMAIN f = D
                 PROVE  FALSE
      BY <2>2
    <3>1. N = n - 1
      BY <2>1 DEF N
    <3> QED  BY <1>1, <3>1
  <2>4. PICK k \in DOMAIN f \ D : Needs(f, k) \cap (DOMAIN f \ D) = {}
    BY <2>3 DEF Settled
  <2>5. Needs(f, k) \subseteq D
    BY <2>4 DEF Settled
  <2>6. D \cup {k} \in C
    BY <2>5
  <2>7. IsFiniteSet(D)
    BY <2>2, FS_Subset
  <2>8. Cardinality(D \cup {k}) = n
    <3>1. Cardinality(D \cup {k}) = Cardinality(D) + 1
      BY <2>7, FS_AddElement
    <3> QED  BY <1>1, <2>1, <3>1
  <2> QED  BY <2>6, <2>8
<1> HIDE DEF T
<1>4. \A n \in 0..N : n \in T
  BY <1>1, <1>2, <1>3, UpTo
<1>5. N \in T
  BY <1>1, <1>4
<1>6. PICK D \in C : Cardinality(D) = N
  BY <1>5 DEF T
<1> QED  BY <1>6, FS_Subset DEF N

\* What the constructor of s makes of what h has for its inputs.
Applied(f, h, s) ==
  IF Instance(f, s) THEN <<"instance", s>>
  ELSE <<f[s].pkg, f[s].source, [i \in DOMAIN f[s].inputs |-> h[f[s].inputs[i]]]>>

TermOn(f, h, D) == h = [s \in D |-> Applied(f, h, s)]

LEMMA InputsOf ==
  ASSUME NEW f, IsGraph(f), NEW s \in DOMAIN f
  PROVE  /\ f[s].inputs \in Seq(Needs(f, s)) /\ Needs(f, s) = Range(f[s].inputs)
         /\ DOMAIN f[s].inputs = 1..Len(f[s].inputs)
         /\ \A i \in DOMAIN f[s].inputs : f[s].inputs[i] \in Needs(f, s)
         /\ s \in Services
<1>1. f[s].inputs \in Seq(Services) /\ s \in Services
  BY ContainerAssumption DEF IsGraph
<1>2. Range(f[s].inputs) = Needs(f, s)
  BY <1>1, RangeEquality DEF Needs
<1>3. f[s].inputs \in Seq(Needs(f, s))
  BY <1>1, <1>2, SeqOfRange
<1> QED  BY <1>1, <1>2, <1>3

LEMMA AppliedSame ==
  ASSUME NEW f, IsGraph(f), NEW s \in DOMAIN f, NEW g, NEW h,
         \A t \in Needs(f, s) : g[t] = h[t]
  PROVE  Applied(f, g, s) = Applied(f, h, s)
<1>1. \A i \in DOMAIN f[s].inputs : g[f[s].inputs[i]] = h[f[s].inputs[i]]
  BY InputsOf
<1>2. [i \in DOMAIN f[s].inputs |-> g[f[s].inputs[i]]]
        = [i \in DOMAIN f[s].inputs |-> h[f[s].inputs[i]]]
  BY <1>1, Zenon
<1> QED  BY <1>2, Zenon DEF Applied

\* A sound graph, as the generator sees it: finite, settled, and nothing it refuses.
Generated(f) == IsGraph(f) /\ Settled(f, DOMAIN f) /\ Supported(f)

LEMMA FiniteGraph ==
  ASSUME NEW f, IsGraph(f)
  PROVE  IsFiniteSet(DOMAIN f)
<1>1. DOMAIN f \subseteq Services
  BY InputsOf
<1>2. IsFiniteSet(Range(KeyOrder))
  <2> DEFINE N == Len(KeyOrder)
             F == [i \in 1..N |-> KeyOrder[i]]
  <2>1. KeyOrder \in Seq(Services) /\ N \in Nat
    BY WiringAssumption
  <2>2. Range(KeyOrder) = {KeyOrder[i] : i \in 1..N}
    BY <2>1, RangeEquality
  <2>3. F \in Surjection(1..N, Range(KeyOrder))
    BY <2>2 DEF Surjection
  <2>4. IsFiniteSet(1..N)
    BY <2>1, FS_Interval
  <2> HIDE DEF F, N
  <2> QED  BY <2>3, <2>4, FS_Surjection
<1> QED  BY <1>1, <1>2, FS_Subset, WiringAssumption

LEMMA TermOf ==
  ASSUME NEW f, Generated(f)
  PROVE  TermOn(f, Term(f), DOMAIN f)
<1> DEFINE C == {D \in SUBSET DOMAIN f : /\ \A s \in D : Needs(f, s) \subseteq D
                                         /\ \E h : TermOn(f, h, D)}
<1>1. {} \in C
  <2>1. TermOn(f, [s \in {} |-> s], {})
    BY Zenon DEF TermOn
  <2> QED  BY <2>1
<1>2. \A D \in C : D \subseteq DOMAIN f /\ \A k \in DOMAIN f \ D :
         Needs(f, k) \subseteq D => D \cup {k} \in C
  <2> SUFFICES ASSUME NEW D \in C, NEW k \in DOMAIN f \ D, Needs(f, k) \subseteq D
               PROVE  D \cup {k} \in C
    OBVIOUS
  <2> DEFINE E == D \cup {k}
  <2>1. PICK h : TermOn(f, h, D)
    OBVIOUS
  <2> DEFINE g == [s \in E |-> IF s = k THEN Applied(f, h, k) ELSE h[s]]
  <2>2. \A s \in D : g[s] = h[s] /\ h[s] = Applied(f, h, s)
    BY <2>1 DEF TermOn
  <2>3. g[k] = Applied(f, h, k) /\ DOMAIN g = E
    OBVIOUS
  <2>4. \A s \in E : s \in DOMAIN f /\ Needs(f, s) \subseteq D
    OBVIOUS
  <2>5. g = [s \in E |-> g[s]]
    BY Zenon
  <2> HIDE DEF g, E
  <2>6. \A s \in E : g[s] = Applied(f, g, s)
    <3> SUFFICES ASSUME NEW s \in E
                 PROVE  g[s] = Applied(f, g, s)
      OBVIOUS
    <3>1. \A t \in Needs(f, s) : g[t] = h[t]
      BY <2>2, <2>4
    <3>2. Applied(f, g, s) = Applied(f, h, s)
      BY <2>4, <3>1, AppliedSame DEF Generated
    <3> QED  BY <2>2, <2>3, <3>2 DEF E
  <2>7. TermOn(f, g, E)
    BY <2>5, <2>6 DEF TermOn
  <2> QED  BY <2>4, <2>7 DEF E
<1> HIDE DEF C
<1>3. DOMAIN f \in C
  BY <1>1, <1>2, Settling, FiniteGraph DEF Generated
<1>4. \E h : TermOn(f, h, DOMAIN f)
  BY <1>3 DEF C
<1>5. Term(f) = CHOOSE h : TermOn(f, h, DOMAIN f)
  BY DEF Term, TermOn, Applied
<1> QED  BY <1>4, <1>5, Zenon

\* What the visit of s makes of a traversal, with h for the visits of its inputs.
Visiting(f, h, s) ==
  [acc \in Traversals(f) |->
     IF s \in acc.visited THEN acc
     ELSE Emit(f, Through(h, f[s].inputs, Mark(acc, s)), s)]

VisitOn(f, h, D) == h = [s \in D |-> Visiting(f, h, s)]

\* But for the services in O, whose visits are under way, every constructed singleton that
\* was visited is emitted, once and behind those it needs.
InOrder(f, acc, O) ==
  /\ \A s \in acc.visited \ O : Constructed(f, s) => s \in Range(acc.ordered)
  /\ Range(acc.ordered) \subseteq acc.visited \ O
  /\ \A i, j \in 1..Len(acc.ordered) : acc.ordered[i] = acc.ordered[j] => i = j
  /\ \A i \in 1..Len(acc.ordered) :
       /\ Constructed(f, acc.ordered[i])
       /\ \A t \in Needs(f, acc.ordered[i]) :
            Constructed(f, t) => \E j \in 1..(i - 1) : acc.ordered[j] = t

Closed(f, U) == U \subseteq DOMAIN f /\ \A k \in U : Needs(f, k) \subseteq U

\* A visit of s marks s, unmarks nothing and keeps the order, unless it meets a visit that
\* is under way.
Visits(f, visit, s) ==
  /\ visit \in [Traversals(f) -> Traversals(f)]
  /\ \A acc \in Traversals(f) : \A O, U :
       InOrder(f, acc, O) /\ Closed(f, U) /\ s \in U /\ U \cap O = {} =>
         InOrder(f, visit[acc], O) /\ acc.visited \cup {s} \subseteq visit[acc].visited

LEMMA MarkTyped ==
  ASSUME NEW f, NEW s \in DOMAIN f, NEW acc \in Traversals(f)
  PROVE  /\ Mark(acc, s) \in Traversals(f)
         /\ Mark(acc, s).visited = acc.visited \cup {s}
         /\ Mark(acc, s).ordered = acc.ordered
BY DEF Mark, Traversals

LEMMA EmitTyped ==
  ASSUME NEW f, NEW s \in DOMAIN f, NEW acc \in Traversals(f)
  PROVE  Emit(f, acc, s) \in Traversals(f) /\ Emit(f, acc, s).visited = acc.visited
<1>1. acc.visited \in SUBSET DOMAIN f /\ acc.ordered \in Seq(DOMAIN f)
  BY DEF Traversals
<1>2. Append(acc.ordered, s) \in Seq(DOMAIN f)
  BY <1>1
<1> QED  BY <1>1, <1>2 DEF Emit, Traversals

\* s is emitted when all it needs was visited, and none of that is under way.
LEMMA EmitInOrder ==
  ASSUME NEW f, NEW s \in DOMAIN f, NEW acc \in Traversals(f), NEW O, s \notin O,
         InOrder(f, acc, O \cup {s}), s \in acc.visited,
         Needs(f, s) \subseteq acc.visited \ (O \cup {s})
  PROVE  InOrder(f, Emit(f, acc, s), O)
<1> DEFINE o == acc.ordered
           e == Emit(f, acc, s)
<1>1. o \in Seq(DOMAIN f) /\ Len(o) \in Nat /\ e.visited = acc.visited
  BY DEF Traversals, Emit
<1>2. /\ s \notin Range(o) /\ Range(o) \subseteq acc.visited \ O
      /\ \A t \in acc.visited \ O : Constructed(f, t) => t = s \/ t \in Range(o)
      /\ \A i, j \in 1..Len(o) : o[i] = o[j] => i = j
  BY DEF InOrder
<1>3. \A i \in 1..Len(o) : Constructed(f, o[i]) /\ \A t \in Needs(f, o[i]) :
        Constructed(f, t) => \E j \in 1..(i - 1) : o[j] = t
  BY DEF InOrder
<1>4. CASE Constructed(f, s)
  <2>1. e.ordered = Append(o, s)
    BY <1>4 DEF Emit
  <2>2. \A t \in Needs(f, s) : Constructed(f, t) => t \in Range(o)
    BY DEF InOrder
  <2> HIDE DEF e, o
  <2>3. /\ Len(e.ordered) = Len(o) + 1 /\ e.ordered[Len(o) + 1] = s
        /\ \A i \in 1..Len(o) : e.ordered[i] = o[i]
    BY <1>1, <2>1
  <2>4. Range(e.ordered) = Range(o) \cup {s} /\ Range(o) = {o[i] : i \in 1..Len(o)}
    BY <1>1, <2>1, RangeOfAppend, RangeEquality
  <2>5. \A i \in 1..Len(e.ordered) : i \in 1..Len(o) \/ i = Len(o) + 1
    BY <1>1, <2>3
  <2>6. \A i, j \in 1..Len(e.ordered) : e.ordered[i] = e.ordered[j] => i = j
    BY <1>2, <2>3, <2>4, <2>5
  <2>7. ASSUME NEW i \in 1..Len(e.ordered)
        PROVE  /\ Constructed(f, e.ordered[i])
               /\ \A t \in Needs(f, e.ordered[i]) :
                    Constructed(f, t) => \E j \in 1..(i - 1) : e.ordered[j] = t
    <3>1. CASE i \in 1..Len(o)
      <4>1. \A j \in 1..(i - 1) : j \in 1..Len(o)
        BY <1>1, <3>1
      <4> QED  BY <1>3, <2>3, <3>1, <4>1
    <3>2. CASE i = Len(o) + 1
      <4> SUFFICES ASSUME NEW t \in Needs(f, s), Constructed(f, t)
                   PROVE  \E j \in 1..(i - 1) : e.ordered[j] = t
        BY <1>4, <2>3, <3>2
      <4>1. PICK j \in 1..Len(o) : o[j] = t
        BY <2>2, <2>4
      <4> QED  BY <1>1, <2>3, <3>2, <4>1
    <3> QED  BY <2>5, <3>1, <3>2
  <2>8. InOrder(f, e, O)
    BY <1>1, <1>2, <2>4, <2>6, <2>7 DEF InOrder
  <2> QED  BY <2>8 DEF e
<1>5. CASE ~Constructed(f, s)
  <2>1. e.ordered = o
    BY <1>5 DEF Emit
  <2> HIDE DEF e, o
  <2>2. InOrder(f, e, O)
    BY <1>1, <1>2, <1>3, <1>5, <2>1 DEF InOrder
  <2> QED  BY <2>2 DEF e
<1> QED  BY <1>4, <1>5

LEMMA ThroughVisits ==
  ASSUME NEW f, NEW D, NEW visit, \A x \in D : Visits(f, visit[x], x),
         NEW seq \in Seq(D), NEW acc \in Traversals(f)
  PROVE  /\ Through(visit, seq, acc) \in Traversals(f)
         /\ \A O, U : InOrder(f, acc, O) /\ Closed(f, U) /\ D \subseteq U /\ U \cap O = {} =>
              /\ InOrder(f, Through(visit, seq, acc), O)
              /\ acc.visited \cup Range(seq) \subseteq Through(visit, seq, acc).visited
<1> DEFINE N == Len(seq)
<1>1. N \in Nat /\ \A n \in 1..N : seq[n] \in D
  OBVIOUS
<1>2. PICK g : Traversed(visit, seq, acc, Traversals(f), g)
  <2>1. \A x \in D : visit[x] \in [Traversals(f) -> Traversals(f)]
    BY DEF Visits
  <2> QED  BY <2>1, ThroughOf
<1> HIDE DEF N
<1>3. /\ g[0] = acc
      /\ \A n \in 1..N : g[n] = visit[seq[n]][g[n - 1]] /\ g[n - 1] \in Traversals(f)
      /\ g[N] \in Traversals(f) /\ Through(visit, seq, acc) = g[N]
  BY <1>1, <1>2 DEF Traversed, N
<1>4. SUFFICES ASSUME NEW O, NEW U, InOrder(f, acc, O), Closed(f, U), D \subseteq U,
                      U \cap O = {}
               PROVE  /\ InOrder(f, g[N], O)
                      /\ acc.visited \cup Range(seq) \subseteq g[N].visited
  BY <1>3
<1> DEFINE T == {n \in 0..N : /\ InOrder(f, g[n], O) /\ acc.visited \subseteq g[n].visited
                              /\ \A k \in 1..n : seq[k] \in g[n].visited}
<1>5. 0 \in T
  BY <1>1, <1>3, <1>4
<1>6. \A n \in 1..N : n - 1 \in T => n \in T
  <2> SUFFICES ASSUME NEW n \in 1..N, n - 1 \in T
               PROVE  n \in T
    OBVIOUS
  <2>1. /\ Visits(f, visit[seq[n]], seq[n]) /\ seq[n] \in U
        /\ g[n - 1] \in Traversals(f) /\ InOrder(f, g[n - 1], O)
    BY <1>1, <1>3, <1>4
  <2>2. /\ InOrder(f, g[n], O)
        /\ g[n - 1].visited \cup {seq[n]} \subseteq g[n].visited
    BY <1>3, <1>4, <2>1 DEF Visits
  <2>3. \A k \in 1..n : k = n \/ k \in 1..(n - 1)
    BY <1>1
  <2> QED  BY <2>2, <2>3
<1> HIDE DEF T
<1>7. \A n \in 0..N : n \in T
  BY <1>1, <1>5, <1>6, UpTo
<1>8. N \in T
  BY <1>1, <1>7
<1>9. Range(seq) = {seq[n] : n \in 1..N}
  BY RangeEquality DEF N
<1> QED  BY <1>8, <1>9 DEF T

\* One visit, with those of the inputs right: none of them comes back to s.
LEMMA VisitingVisits ==
  ASSUME NEW f, IsGraph(f), NEW h, NEW D, Closed(f, D), NEW s \in DOMAIN f \ D,
         Needs(f, s) \subseteq D, \A t \in D : Visits(f, h[t], t)
  PROVE  Visits(f, Visiting(f, h, s), s)
<1> DEFINE A == Traversals(f)
           In(acc) == Through(h, f[s].inputs, Mark(acc, s))
           Clear(O, U) == Closed(f, U) /\ Needs(f, s) \subseteq U /\ U \cap O = {}
           v == Visiting(f, h, s)
<1>1. f[s].inputs \in Seq(Needs(f, s)) /\ Range(f[s].inputs) = Needs(f, s)
  BY InputsOf
<1>2. ASSUME NEW acc \in A
      PROVE  /\ In(acc) \in A
             /\ \A O, U : InOrder(f, Mark(acc, s), O) /\ Clear(O, U) =>
                  /\ InOrder(f, In(acc), O)
                  /\ acc.visited \cup {s} \cup Needs(f, s) \subseteq In(acc).visited
  <2>1. Mark(acc, s) \in A /\ Mark(acc, s).visited = acc.visited \cup {s}
    BY MarkTyped
  <2>2. \A t \in Needs(f, s) : Visits(f, h[t], t)
    OBVIOUS
  <2> DEFINE m == Mark(acc, s)
  <2>3. In(acc) = Through(h, f[s].inputs, m)
    OBVIOUS
  <2> HIDE DEF In, m
  <2>4. /\ Through(h, f[s].inputs, m) \in A
        /\ \A O, U : InOrder(f, m, O) /\ Clear(O, U) =>
             /\ InOrder(f, Through(h, f[s].inputs, m), O)
             /\ m.visited \cup Range(f[s].inputs) \subseteq Through(h, f[s].inputs, m).visited
    <3>1. m \in A
      BY <2>1 DEF m
    <3> QED  BY <1>1, <2>2, <3>1, ThroughVisits
  <2>5. m.visited \cup Range(f[s].inputs) = acc.visited \cup {s} \cup Needs(f, s)
    BY <1>1, <2>1 DEF m
  <2> QED  BY <2>3, <2>4, <2>5 DEF m
<1>3. \A acc \in A : v[acc] = IF s \in acc.visited THEN acc ELSE Emit(f, In(acc), s)
  BY Zenon DEF Visiting
<1>4. v = [acc \in A |-> v[acc]]
  BY Zenon DEF Visiting
<1> HIDE DEF v, In
<1>5. \A acc \in A : Emit(f, In(acc), s) \in A /\ Emit(f, In(acc), s).visited = In(acc).visited
  BY <1>2, EmitTyped
<1>6. ASSUME NEW acc \in A, NEW O, NEW U,
             InOrder(f, acc, O), Closed(f, U), s \in U, U \cap O = {}
      PROVE  InOrder(f, v[acc], O) /\ acc.visited \cup {s} \subseteq v[acc].visited
  <2>1. CASE s \in acc.visited
    BY <1>3, <1>6, <2>1
  <2>2. CASE s \notin acc.visited
    <3> DEFINE P == O \cup {s}
               W == U \cap D
               m == Mark(acc, s)
    <3>1. v[acc] = Emit(f, In(acc), s)
      BY <1>3, <2>2
    <3>2. Closed(f, W) /\ Needs(f, s) \subseteq W /\ W \cap P = {} /\ s \notin O
      BY <1>6 DEF Closed
    <3>3. InOrder(f, m, P)
      <4>1. m.visited \ P = acc.visited \ O /\ m.ordered = acc.ordered
        BY <2>2, <3>2, MarkTyped
      <4> HIDE DEF m, P
      <4> QED  BY <1>6, <4>1 DEF InOrder
    <3>4. /\ In(acc) \in A /\ InOrder(f, In(acc), P)
          /\ acc.visited \cup {s} \cup Needs(f, s) \subseteq In(acc).visited
      BY <1>2, <3>2, <3>3
    <3>5. Needs(f, s) \subseteq In(acc).visited \ P
      BY <3>2, <3>4
    <3>6. InOrder(f, Emit(f, In(acc), s), O)
      BY <3>2, <3>4, <3>5, EmitInOrder
    <3> QED  BY <1>5, <3>1, <3>4, <3>6
  <2> QED  BY <2>1, <2>2
<1>7. v \in [A -> A]
  <2>1. \A acc \in A : v[acc] \in A
    BY <1>3, <1>5
  <2> HIDE DEF A
  <2> QED  BY <1>4, <2>1
<1> QED  BY <1>6, <1>7 DEF Visits, v

\* visit is defined on a graph without a cycle, and does what its comment says.
LEMMA VisitOf ==
  ASSUME NEW f, Generated(f)
  PROVE  \A s \in DOMAIN f : Visits(f, Visit(f)[s], s)
<1> DEFINE A == Traversals(f)
           C == {D \in SUBSET DOMAIN f :
                   /\ \A s \in D : Needs(f, s) \subseteq D
                   /\ \E h : VisitOn(f, h, D) /\ \A s \in D : Visits(f, h[s], s)}
<1>1. {} \in C
  <2>1. VisitOn(f, [s \in {} |-> s], {})
    BY Zenon DEF VisitOn
  <2> QED  BY <2>1
<1>2. \A D \in C : D \subseteq DOMAIN f /\ \A k \in DOMAIN f \ D :
         Needs(f, k) \subseteq D => D \cup {k} \in C
  <2> SUFFICES ASSUME NEW D \in C, NEW k \in DOMAIN f \ D, Needs(f, k) \subseteq D
               PROVE  D \cup {k} \in C
    OBVIOUS
  <2> DEFINE E == D \cup {k}
  <2>1. PICK h : VisitOn(f, h, D) /\ \A s \in D : Visits(f, h[s], s)
    OBVIOUS
  <2> DEFINE g == [s \in E |-> IF s = k THEN Visiting(f, h, k) ELSE h[s]]
  <2>2. \A s \in D : g[s] = h[s] /\ h[s] = Visiting(f, h, s)
    BY <2>1 DEF VisitOn
  <2>3. g[k] = Visiting(f, h, k) /\ DOMAIN g = E
    OBVIOUS
  <2>4. \A s \in E : s \in DOMAIN f /\ Needs(f, s) \subseteq D
    OBVIOUS
  <2>5. g = [s \in E |-> g[s]]
    BY Zenon
  <2> HIDE DEF g, E
  <2>6. \A s \in E : g[s] = Visiting(f, g, s)
    <3> SUFFICES ASSUME NEW s \in E
                 PROVE  g[s] = Visiting(f, g, s)
      OBVIOUS
    <3>1. \A t \in Needs(f, s) : g[t] = h[t] /\ h[t] \in [A -> A]
      BY <2>1, <2>2, <2>4 DEF Visits
    <3>2. f[s].inputs \in Seq(Needs(f, s))
      BY <2>4, InputsOf DEF Generated
    <3>3. \A acc \in A :
            Through(g, f[s].inputs, Mark(acc, s)) = Through(h, f[s].inputs, Mark(acc, s))
      <4>1. \A acc \in A : Mark(acc, s) \in A
        BY <2>4, MarkTyped
      <4> HIDE DEF A
      <4> QED  BY <3>1, <3>2, <4>1, ThroughSame
    <3>4. Visiting(f, g, s) = Visiting(f, h, s)
      BY <3>3, Zenon DEF Visiting
    <3> QED  BY <2>2, <2>3, <3>4 DEF E
  <2>7. VisitOn(f, g, E)
    BY <2>5, <2>6 DEF VisitOn
  <2>8. Visits(f, g[k], k)
    BY <2>1, <2>3, VisitingVisits DEF Generated, Closed
  <2>9. \A s \in E : Visits(f, g[s], s)
    BY <2>1, <2>2, <2>8 DEF E
  <2> QED  BY <2>4, <2>7, <2>9 DEF E
<1> HIDE DEF C
<1>3. DOMAIN f \in C
  BY <1>1, <1>2, Settling, FiniteGraph DEF Generated
<1>4. \E h : VisitOn(f, h, DOMAIN f)
  BY <1>3 DEF C
<1>5. Visit(f) = CHOOSE h : VisitOn(f, h, DOMAIN f)
  BY DEF Visit, VisitOn, Visiting
<1>6. VisitOn(f, Visit(f), DOMAIN f)
  BY <1>4, <1>5, Zenon
<1> DEFINE R == {D \in SUBSET DOMAIN f : /\ \A s \in D : Needs(f, s) \subseteq D
                                         /\ \A s \in D : Visits(f, Visit(f)[s], s)}
<1>7. \A D \in R : D \subseteq DOMAIN f /\ \A k \in DOMAIN f \ D :
         Needs(f, k) \subseteq D => D \cup {k} \in R
  <2> SUFFICES ASSUME NEW D \in R, NEW k \in DOMAIN f \ D, Needs(f, k) \subseteq D
               PROVE  D \cup {k} \in R
    OBVIOUS
  <2>1. Visit(f)[k] = Visiting(f, Visit(f), k)
    BY <1>6 DEF VisitOn
  <2>2. Visits(f, Visit(f)[k], k)
    BY <2>1, VisitingVisits DEF Generated, Closed
  <2> QED  BY <2>2
<1>8. {} \in R
  OBVIOUS
<1> HIDE DEF R
<1>9. DOMAIN f \in R
  BY <1>7, <1>8, Settling, FiniteGraph DEF Generated
<1> QED  BY <1>9 DEF R

\* Order: every singleton that Wire constructs, once, and what it needs before it.
LEMMA OrderOf ==
  ASSUME NEW f, Generated(f)
  PROVE  /\ Order(f) \in Seq(DOMAIN f)
         /\ \A s \in DOMAIN f : Constructed(f, s) => s \in Range(Order(f))
         /\ \A i, j \in 1..Len(Order(f)) : Order(f)[i] = Order(f)[j] => i = j
         /\ \A i \in 1..Len(Order(f)) :
              /\ Constructed(f, Order(f)[i])
              /\ \A t \in Needs(f, Order(f)[i]) :
                   Constructed(f, t) => \E j \in 1..(i - 1) : Order(f)[j] = t
<1> DEFINE S == {s \in DOMAIN f : Single(f, s)}
           roots == Chosen(KeyOrder, S)
           all == Through(Visit(f), roots, Start)
<1>1. Start \in Traversals(f) /\ InOrder(f, Start, {})
  BY DEF Start, Traversals, InOrder, Range
<1>2. /\ roots \in Seq(Services \cap S)
      /\ \A s \in S : s \in Range(KeyOrder) => s \in Range(roots)
  BY ChosenOf, WiringAssumption
<1>3. S \subseteq Range(KeyOrder)
  BY InputsOf, WiringAssumption DEF Generated
<1>4. \A s \in Services \cap S : Visits(f, Visit(f)[s], s)
  BY VisitOf
<1>5. Closed(f, DOMAIN f) /\ Services \cap S \subseteq DOMAIN f
  BY DEF Generated, Settled, Closed
<1> HIDE DEF S, roots
<1>6. all \in Traversals(f) /\ InOrder(f, all, {}) /\ Range(roots) \subseteq all.visited
  BY <1>1, <1>2, <1>4, <1>5, ThroughVisits
<1>7. Order(f) = all.ordered
  BY DEF Order, roots, S
<1> HIDE DEF all
<1>8. \A s \in DOMAIN f : Constructed(f, s) => s \in all.visited
  BY <1>2, <1>3, <1>6 DEF Constructed, S
<1> QED  BY <1>6, <1>7, <1>8 DEF InOrder, Traversals

-----------------------------------------------------------------------------
(* The generated program, run                                              *)

LEMMA BoundTo ==
  ASSUME NEW pairs, NEW a, NEW b, <<a, b>> \in pairs,
         \A p \in pairs : p[1] = a => p = <<a, b>>
  PROVE  Bound(pairs, a) = b
<1> DEFINE found == {p \in pairs : p[1] = a}
<1>1. found = {<<a, b>>}
  OBVIOUS
<1>2. Cardinality({<<a, b>>}) = 1
  BY FS_Singleton
<1>3. (CHOOSE p \in {<<a, b>>} : TRUE) = <<a, b>>
  OBVIOUS
<1>4. Bound(pairs, a) = IF Cardinality(found) = 1 THEN (CHOOSE p \in found : TRUE)[2]
                        ELSE "does not compile"
  BY DEF Bound
<1> HIDE DEF found
<1>5. Bound(pairs, a) = <<a, b>>[2]
  BY <1>1, <1>2, <1>3, <1>4, Zenon
<1> QED  BY <1>5

\* Every service has a variable name and every package an alias, and no two the same.
LEMMA NamesOf ==
  ASSUME NEW f, Generated(f)
  PROVE  /\ DOMAIN VarNames(f) = DOMAIN f
         /\ \A s, t \in DOMAIN f : VarNames(f)[s] = VarNames(f)[t] => s = t
         /\ \A s \in DOMAIN f : f[s].pkg \in DOMAIN Aliases(f)
         /\ \A p, q \in DOMAIN Aliases(f) : Aliases(f)[p] = Aliases(f)[q] => p = q
<1> DEFINE K == Keys(f)
           P == {f[s].pkg : s \in DOMAIN f}
           pkgs == [i \in DOMAIN K |-> f[K[i]].pkg]
<1>1. DOMAIN f \subseteq Services
  BY InputsOf DEF Generated
<1>2. K \in Seq(Services \cap DOMAIN f) /\ \A s \in DOMAIN f : s \in Range(K)
  BY <1>1, ChosenOf, WiringAssumption DEF Keys
<1> HIDE DEF K
<1>3. /\ Range(K) = {K[i] : i \in 1..Len(K)} /\ DOMAIN K = 1..Len(K)
      /\ Len(K) \in Nat /\ \A i \in 1..Len(K) : K[i] \in DOMAIN f
  BY <1>2, RangeEquality
<1>4. Range(K) = DOMAIN f
  BY <1>2, <1>3
<1>5. \A s \in Services \cap DOMAIN f : Lower[s] \in Seq(STRING)
  BY WiringAssumption
<1>6. Apart(VarNames(f), Keywords) /\ DOMAIN VarNames(f) = DOMAIN f
  <2>1. IsFiniteSet(Keywords)
    BY WiringAssumption
  <2>2. VarNames(f) = Named(K, Lower, Keywords)
    BY DEF VarNames, K
  <2> QED  BY <1>2, <1>4, <1>5, <2>1, <2>2, NamedApart
<1>7. \A p \in P : Base[p] \in Seq(STRING)
  BY WiringAssumption DEF Generated, IsGraph
<1>8. pkgs \in Seq(P) /\ Range(pkgs) = P
  <2>1. pkgs \in Seq(P)
    BY <1>3
  <2>2. Range(pkgs) = {pkgs[i] : i \in 1..Len(K)}
    BY <1>3 DEF Range
  <2>3. \A i \in 1..Len(K) : pkgs[i] = f[K[i]].pkg
    BY <1>3
  <2>4. \A s \in DOMAIN f : \E i \in 1..Len(K) : K[i] = s
    BY <1>3, <1>4
  <2> QED  BY <1>3, <2>1, <2>2, <2>3, <2>4
<1>9. IsFiniteSet({<<"fmt">>})
  BY FS_Singleton
<1>10. Aliases(f) = Named(pkgs, Base, {<<"fmt">>})
  BY DEF Aliases, K
<1> HIDE DEF pkgs, P
<1>11. Apart(Aliases(f), {<<"fmt">>}) /\ DOMAIN Aliases(f) = P
  BY <1>7, <1>8, <1>9, <1>10, NamedApart
<1> QED  BY <1>6, <1>11 DEF Apart, P

\* No variable hides a package.
LEMMA NothingHidden ==
  ASSUME NEW f, Generated(f), KeptApart(f), NEW s \in DOMAIN f, NEW t \in DOMAIN f
  PROVE  VarNames(f)[s] # Aliases(f)[f[t].pkg]
<1>1. VarNames(f)[s] \in Range(VarNames(f)) /\ Aliases(f)[f[t].pkg] \in Range(Aliases(f))
  BY NamesOf DEF Range
<1>2. Range(VarNames(f)) \cap Range(Aliases(f)) = {}
  BY DEF KeptApart
<1> QED  BY <1>1, <1>2

LEMMA MadeOf ==
  ASSUME NEW f, Generated(f), NEW s \in DOMAIN f, NEW args,
         NEW scope, Aliases(f)[f[s].pkg] \notin scope
  PROVE  Made(Program(f), scope, Call(f, s), args) = <<f[s].pkg, f[s].source, args>>
<1> DEFINE p == f[s].pkg
           I == Program(f).imports
<1>1. I = {<<Aliases(f)[q], q>> : q \in DOMAIN Aliases(f)}
  BY DEF Program
<1>2. /\ p \in DOMAIN Aliases(f)
      /\ \A q \in DOMAIN Aliases(f) : Aliases(f)[q] = Aliases(f)[p] => q = p
  BY NamesOf
<1> HIDE DEF p, I
<1>3. /\ <<Aliases(f)[p], p>> \in I
      /\ \A q \in I : q[1] = Aliases(f)[p] => q = <<Aliases(f)[p], p>>
  BY <1>1, <1>2
<1>4. Bound(I, Aliases(f)[p]) = p
  BY <1>3, BoundTo
<1>5. Call(f, s)[1] = Aliases(f)[p] /\ Call(f, s)[2] = f[s].source
  BY DEF Call, p
<1> QED  BY <1>4, <1>5 DEF Made, p, I

\* The variables of Wire hold what the container builds, one after the other.
LEMMA WiredOf ==
  ASSUME NEW f, Generated(f), KeptApart(f)
  PROVE  Wired(Program(f)) =
           {<<VarNames(f)[s], Term(f)[s]>> : s \in {t \in DOMAIN f : Single(f, t)}}
<1> DEFINE prog == Program(f)
           o == Order(f)
           N == Len(o)
           V(s) == VarNames(f)[s]
           given == {s \in DOMAIN f : Single(f, s) /\ Instance(f, s)}
           Known(n) == given \cup {o[i] : i \in 1..n}
           Holds(n) == {<<V(s), Term(f)[s]>> : s \in Known(n)}
           St(e, n) == <<prog.wire[n].var,
                         Made(prog, Names(e), prog.wire[n].call,
                              [i \in DOMAIN prog.wire[n].args |->
                                 Bound(e, prog.wire[n].args[i])])>>
           First == {<<p[1], <<"instance", p[2]>> >> : p \in prog.params}
           Step(e, n) == e \cup {St(e, n)}
           Is(g) == g = [n \in 0..N |-> IF n = 0 THEN First ELSE Step(g[n - 1], n)]
<1>1. /\ o \in Seq(DOMAIN f) /\ N \in Nat
      /\ \A s \in DOMAIN f : Constructed(f, s) => s \in Range(o)
      /\ \A n \in 1..N : /\ o[n] \in DOMAIN f /\ Constructed(f, o[n])
                         /\ \A t \in Needs(f, o[n]) :
                              Constructed(f, t) => \E j \in 1..(n - 1) : o[j] = t
  BY OrderOf
<1>2. prog.wire = [n \in 1..N |-> Statement(f, o[n])] /\ Len(prog.wire) = N
  BY <1>1 DEF Program
<1>3. Wired(prog) = (CHOOSE g : Is(g))[N]
  BY <1>2 DEF Wired
<1>4. First = Holds(0)
  <2>1. prog.params = {<<V(s), s>> : s \in given}
    BY DEF Program
  <2>2. \A s \in given : Term(f)[s] = <<"instance", s>>
    BY TermOf DEF TermOn, Applied
  <2>3. Known(0) = given
    BY <1>1
  <2> HIDE DEF prog, given, V
  <2> DEFINE G == {<<V(s), <<"instance", s>> >> : s \in given}
  <2>4. First = G
    <3>1. \A s \in given : <<V(s), s>> \in prog.params
      BY <2>1
    <3>2. ASSUME NEW x \in G PROVE x \in First
      <4>1. PICK s \in given : x = <<V(s), <<"instance", s>> >>
        OBVIOUS
      <4>2. <<V(s), s>> \in prog.params
        BY <3>1
      <4> QED  BY <4>1, <4>2
    <3>3. ASSUME NEW x \in First PROVE x \in G
      <4>1. PICK p \in prog.params : x = <<p[1], <<"instance", p[2]>> >>
        OBVIOUS
      <4>2. PICK s \in given : p = <<V(s), s>>
        BY <2>1
      <4> QED  BY <4>1, <4>2
    <3> HIDE DEF First, G
    <3> QED  BY <3>2, <3>3
  <2>5. Holds(0) = G
    BY <2>2, <2>3
  <2> QED  BY <2>4, <2>5
<1>5. \A n \in 1..N : Step(Holds(n - 1), n) = Holds(n)
  <2> SUFFICES ASSUME NEW n \in 1..N
               PROVE  Step(Holds(n - 1), n) = Holds(n)
    OBVIOUS
  <2> DEFINE s == o[n]
             e == Holds(n - 1)
  <2>1. s \in DOMAIN f /\ Single(f, s) /\ ~Instance(f, s)
    BY <1>1 DEF Constructed
  <2>2. /\ DOMAIN f[s].inputs = 1..Len(f[s].inputs)
        /\ \A i \in DOMAIN f[s].inputs : f[s].inputs[i] \in Needs(f, s)
        /\ Needs(f, s) = Range(f[s].inputs)
    BY <2>1, InputsOf DEF Generated
  <2>3. \A t \in Needs(f, s) : t \in DOMAIN f /\ Single(f, t)
    BY <2>1, <2>2 DEF Generated, Settled, Supported
  <2>4. \A t \in Needs(f, s) : t \in Known(n - 1)
    BY <1>1, <2>3 DEF Constructed
  <2>5. \A t \in Known(n - 1) : t \in DOMAIN f
    BY <1>1
  <2>6. \A t \in Known(n - 1) : Bound(e, V(t)) = Term(f)[t]
    <3> SUFFICES ASSUME NEW t \in Known(n - 1)
                 PROVE  Bound(e, V(t)) = Term(f)[t]
      OBVIOUS
    <3>1. \A r \in Known(n - 1) : V(r) = V(t) => r = t
      BY <2>5, NamesOf
    <3> HIDE DEF V, Known
    <3>2. <<V(t), Term(f)[t]>> \in e
      OBVIOUS
    <3>3. \A p \in e : p[1] = V(t) => p = <<V(t), Term(f)[t]>>
      BY <3>1
    <3> HIDE DEF e
    <3> QED  BY <3>2, <3>3, BoundTo
  <2>7. prog.wire[n] = Statement(f, s)
    BY <1>2
  <2>13. Aliases(f)[f[s].pkg] \notin Names(e)
    <3>1. \A p \in e : \E t \in DOMAIN f : p[1] = V(t)
      BY <2>5
    <3>2. \A t \in DOMAIN f : V(t) # Aliases(f)[f[s].pkg]
      BY <2>1, NothingHidden
    <3> HIDE DEF e, V
    <3> QED  BY <3>1, <3>2 DEF Names
  <2> HIDE DEF prog, e, s, Known
  <2>8. St(e, n) = <<V(s), <<f[s].pkg, f[s].source,
                              [i \in DOMAIN f[s].inputs |-> Term(f)[f[s].inputs[i]]]>> >>
    <3> DEFINE args == [i \in DOMAIN f[s].inputs |-> V(f[s].inputs[i])]
               vals == [i \in DOMAIN f[s].inputs |-> Bound(e, args[i])]
    <3>1. /\ prog.wire[n].var = V(s) /\ prog.wire[n].call = Call(f, s)
          /\ prog.wire[n].args = args
      BY <2>7 DEF Statement
    <3>2. DOMAIN args = DOMAIN f[s].inputs
      OBVIOUS
    <3>3. \A i \in DOMAIN f[s].inputs : Bound(e, args[i]) = Term(f)[f[s].inputs[i]]
      BY <2>2, <2>4, <2>6
    <3>4. vals = [i \in DOMAIN f[s].inputs |-> Term(f)[f[s].inputs[i]]]
      BY <3>3, Zenon
    <3>5. Made(prog, Names(e), Call(f, s), vals) = <<f[s].pkg, f[s].source, vals>>
      BY <2>1, <2>13, MadeOf DEF prog
    <3>6. St(e, n) = <<V(s), Made(prog, Names(e), Call(f, s), vals)>>
      BY <3>1, <3>2, Zenon
    <3> HIDE DEF vals
    <3> QED  BY <3>4, <3>5, <3>6
  <2>9. Term(f)[s] = <<f[s].pkg, f[s].source,
                       [i \in DOMAIN f[s].inputs |-> Term(f)[f[s].inputs[i]]]>>
    BY <2>1, TermOf, Zenon DEF TermOn, Applied
  <2>10. Known(n) = Known(n - 1) \cup {s}
    BY <1>1 DEF Known, s
  <2>11. St(e, n) = <<V(s), Term(f)[s]>>
    BY <2>8, <2>9, Zenon
  <2> HIDE DEF St, V
  <2>12. e \cup {<<V(s), Term(f)[s]>>} = Holds(n)
    BY <2>10 DEF e
  <2> QED  BY <2>11, <2>12 DEF e
<1> HIDE DEF First, Step, Holds, N, prog
<1>6. PICK g : Is(g) /\ Wired(prog) = g[N]
  <2> DEFINE h == [n \in 0..N |-> Holds(n)]
  <2>1. \A n \in 0..N : h[n] = IF n = 0 THEN First ELSE Step(h[n - 1], n)
    BY <1>1, <1>4, <1>5
  <2>2. h = [n \in 0..N |-> h[n]]
    OBVIOUS
  <2> HIDE DEF h
  <2>3. Is(h)
    BY <2>1, <2>2
  <2> HIDE DEF Is
  <2> QED  BY <1>3, <2>3, Zenon
<1> DEFINE T == {n \in 0..N : g[n] = Holds(n)}
<1>7. 0 \in T
  BY <1>1, <1>4, <1>6
<1>8. \A n \in 1..N : n - 1 \in T => n \in T
  <2> SUFFICES ASSUME NEW n \in 1..N, g[n - 1] = Holds(n - 1)
               PROVE  g[n] = Holds(n)
    BY <1>1
  <2>1. g[n] = Step(g[n - 1], n)
    BY <1>1, <1>6
  <2> QED  BY <1>5, <2>1
<1> HIDE DEF T
<1>9. \A n \in 0..N : n \in T
  BY <1>1, <1>7, <1>8, UpTo
<1>10. g[N] = Holds(N)
  BY <1>1, <1>9 DEF T
<1>11. Known(N) = {t \in DOMAIN f : Single(f, t)}
  <2>1. Range(o) = {o[i] : i \in 1..N}
    BY <1>1, RangeEquality DEF N
  <2> QED  BY <1>1, <2>1 DEF Constructed
<1> QED  BY <1>6, <1>10, <1>11 DEF Holds, prog

LEMMA ReadOf ==
  ASSUME NEW f, Generated(f), KeptApart(f), NEW s \in DOMAIN f, Single(f, s)
  PROVE  Read(Program(f), Field[s]) = Term(f)[s]
<1> DEFINE single == {t \in DOMAIN f : Single(f, t)}
           V(t) == VarNames(f)[t]
           fields == {<<Field[t], V(t)>> : t \in single}
           held == {<<V(t), Term(f)[t]>> : t \in single}
<1>1. /\ \A t \in single : Field[t] = Field[s] => t = s
      /\ \A t \in single : V(t) = V(s) => t = s
  BY NamesOf DEF Generated, Supported
<1>2. s \in single
  OBVIOUS
<1>3. Program(f).fields = fields
  BY DEF Program
<1>4. Wired(Program(f)) = held
  BY WiredOf
<1> HIDE DEF V, single
<1>5. Bound(fields, Field[s]) = V(s)
  <2>1. /\ <<Field[s], V(s)>> \in fields
        /\ \A p \in fields : p[1] = Field[s] => p = <<Field[s], V(s)>>
    BY <1>1, <1>2
  <2> HIDE DEF fields
  <2> QED  BY <2>1, BoundTo
<1>6. Bound(held, V(s)) = Term(f)[s]
  <2>1. /\ <<V(s), Term(f)[s]>> \in held
        /\ \A p \in held : p[1] = V(s) => p = <<V(s), Term(f)[s]>>
    BY <1>1, <1>2
  <2> HIDE DEF held
  <2> QED  BY <2>1, BoundTo
<1> HIDE DEF fields, held
<1> QED  BY <1>3, <1>4, <1>5, <1>6 DEF Read

\* One call of a generated factory, with h for those it calls.
Factored(prog, h, field) ==
  LET c == Bound(prog.factories, field)
      local == {i \in DOMAIN c.args : c.args[i].new}
  IN IF \E i, j \in local : i # j /\ c.args[i].var = c.args[j].var
     THEN <<"does not compile">>
     ELSE Made(prog, {c.args[i].var : i \in local}, c.call,
               [i \in DOMAIN c.args |-> IF c.args[i].new THEN h[c.args[i].field]
                                        ELSE Read(prog, c.args[i].field)])

LEMMA FactoredOf ==
  ASSUME NEW f, Generated(f), KeptApart(f), NEW s \in DOMAIN f, ~Single(f, s), NEW h,
         \A t \in Needs(f, s) : ~Single(f, t) => h[Field[t]] = Term(f)[t]
  PROVE  Factored(Program(f), h, Field[s]) = Term(f)[s]
<1> DEFINE prog == Program(f)
           rest == DOMAIN f \ {t \in DOMAIN f : Single(f, t)}
           made == {<<Field[t], Factory(f, t)>> : t \in rest}
           c == Factory(f, s)
           vals == [i \in DOMAIN c.args |-> IF c.args[i].new THEN h[c.args[i].field]
                                            ELSE Read(prog, c.args[i].field)]
           D == DOMAIN f[s].inputs
           local == {i \in DOMAIN c.args : c.args[i].new}
           scope == {c.args[i].var : i \in local}
<1>1. \A i \in D : f[s].inputs[i] \in Needs(f, s) /\ f[s].inputs[i] \in DOMAIN f
  BY InputsOf DEF Generated, Settled
<1>2. Bound(prog.factories, Field[s]) = c
  <2>1. prog.factories = made
    BY DEF Program
  <2>2. s \in rest /\ \A t \in rest : Field[t] = Field[s] => t = s
    BY DEF Generated, Supported
  <2> HIDE DEF rest, c
  <2>3. <<Field[s], c>> \in made /\ \A p \in made : p[1] = Field[s] => p = <<Field[s], c>>
    BY <2>2 DEF c
  <2> HIDE DEF made, prog
  <2> QED  BY <2>1, <2>3, BoundTo
<1>3. /\ c.call = Call(f, s) /\ DOMAIN c.args = D
      /\ \A i \in D : /\ c.args[i].field = Field[f[s].inputs[i]]
                      /\ c.args[i].var = VarNames(f)[f[s].inputs[i]]
                      /\ c.args[i].new = ~Single(f, f[s].inputs[i])
  BY DEF Factory
<1>4. \A i \in D : (IF c.args[i].new THEN h[c.args[i].field] ELSE Read(prog, c.args[i].field))
                     = Term(f)[f[s].inputs[i]]
  <2> SUFFICES ASSUME NEW i \in D
               PROVE  (IF c.args[i].new THEN h[c.args[i].field]
                       ELSE Read(prog, c.args[i].field)) = Term(f)[f[s].inputs[i]]
    OBVIOUS
  <2>1. CASE Single(f, f[s].inputs[i])
    <3>1. Read(prog, Field[f[s].inputs[i]]) = Term(f)[f[s].inputs[i]]
      BY <1>1, <2>1, ReadOf
    <3> HIDE DEF prog, c
    <3> QED  BY <1>3, <2>1, <3>1
  <2>2. CASE ~Single(f, f[s].inputs[i])
    <3> HIDE DEF prog, c
    <3> QED  BY <1>1, <1>3, <2>2
  <2> QED  BY <2>1, <2>2
<1>5. vals = [i \in D |-> Term(f)[f[s].inputs[i]]]
  <2> HIDE DEF prog, c, D
  <2> QED  BY <1>3, <1>4, Zenon
<1>6. ~\E i, j \in local : i # j /\ c.args[i].var = c.args[j].var
  <2> SUFFICES ASSUME NEW i \in D, NEW j \in D, c.args[i].new, c.args[j].new,
                      c.args[i].var = c.args[j].var
               PROVE  i = j
    <3> HIDE DEF c, D
    <3> QED  BY <1>3
  <2>1. VarNames(f)[f[s].inputs[i]] = VarNames(f)[f[s].inputs[j]] /\ ~Single(f, f[s].inputs[i])
    BY <1>3
  <2>2. f[s].inputs[i] = f[s].inputs[j]
    BY <1>1, <2>1, NamesOf
  <2> QED  BY <2>1, <2>2 DEF KeptApart
<1>7. Factored(prog, h, Field[s]) = Made(prog, scope, c.call, vals)
  <2> DEFINE Out(x) ==
               IF \E i, j \in {k \in DOMAIN x.args : x.args[k].new} :
                    i # j /\ x.args[i].var = x.args[j].var
               THEN <<"does not compile">>
               ELSE Made(prog, {x.args[i].var : i \in {k \in DOMAIN x.args : x.args[k].new}},
                         x.call, [i \in DOMAIN x.args |->
                                    IF x.args[i].new THEN h[x.args[i].field]
                                    ELSE Read(prog, x.args[i].field)])
  <2> HIDE DEF prog, c
  <2>1. Factored(prog, h, Field[s]) = Out(Bound(prog.factories, Field[s]))
    BY DEF Factored
  <2>2. Out(c) = Made(prog, scope, c.call, vals)
    BY <1>6
  <2> HIDE DEF Out
  <2> QED  BY <1>2, <2>1, <2>2, Zenon
<1>8. Aliases(f)[f[s].pkg] \notin scope
  <2>1. \A i \in D : VarNames(f)[f[s].inputs[i]] # Aliases(f)[f[s].pkg]
    BY <1>1, NothingHidden
  <2> HIDE DEF c, D
  <2> QED  BY <1>3, <2>1
<1> HIDE DEF scope
<1>9. Made(prog, scope, Call(f, s), vals) = <<f[s].pkg, f[s].source, vals>>
  BY <1>8, MadeOf
<1>10. ~Instance(f, s)
  BY WiringAssumption DEF Generated, IsGraph, Instance, Single
<1>11. Term(f)[s] = <<f[s].pkg, f[s].source, [i \in D |-> Term(f)[f[s].inputs[i]]]>>
  <2>1. Term(f)[s] = Applied(f, Term(f), s)
    BY TermOf DEF TermOn
  <2> QED  BY <1>10, <2>1, Zenon DEF Applied
<1> HIDE DEF prog, vals, c, D
<1> QED  BY <1>3, <1>5, <1>7, <1>9, <1>11 DEF prog

LEMMA NewOf ==
  ASSUME NEW f, Generated(f), KeptApart(f), NEW s \in DOMAIN f, ~Single(f, s)
  PROVE  New(Program(f))[Field[s]] = Term(f)[s]
<1> DEFINE prog == Program(f)
           rest == DOMAIN f \ {t \in DOMAIN f : Single(f, t)}
           all == Names(prog.factories)
           Is(g) == g = [x \in all |-> Factored(prog, g, x)]
<1>1. \A t \in rest : t \in DOMAIN f /\ ~Single(f, t)
  OBVIOUS
<1>2. all = {Field[t] : t \in rest}
  <2>1. prog.factories = {<<Field[t], Factory(f, t)>> : t \in rest}
    BY DEF Program
  <2> HIDE DEF prog, rest
  <2>2. \A t \in rest : <<Field[t], Factory(f, t)>> \in prog.factories
    BY <2>1
  <2>3. ASSUME NEW t \in rest PROVE Field[t] \in all
    <3>1. <<Field[t], Factory(f, t)>>[1] = Field[t]
      OBVIOUS
    <3> QED  BY <2>2, <3>1 DEF Names
  <2>4. ASSUME NEW x \in all PROVE \E t \in rest : x = Field[t]
    <3>1. PICK p \in prog.factories : x = p[1]
      BY DEF Names
    <3>2. PICK t \in rest : p = <<Field[t], Factory(f, t)>>
      BY <2>1
    <3> QED  BY <3>1, <3>2
  <2> HIDE DEF all
  <2> QED  BY <2>3, <2>4
<1>3. \A t \in DOMAIN f : ~Single(f, t) <=> t \in rest
  OBVIOUS
<1> HIDE DEF all, rest
<1>4. \E g : Is(g)
  <2> DEFINE g == [x \in all |-> Term(f)[CHOOSE t \in rest : Field[t] = x]]
  <2>1. \A t \in rest : g[Field[t]] = Term(f)[t]
    <3> SUFFICES ASSUME NEW t \in rest
                 PROVE  g[Field[t]] = Term(f)[t]
      OBVIOUS
    <3> DEFINE r == CHOOSE r \in rest : Field[r] = Field[t]
    <3>1. r \in rest /\ Field[r] = Field[t]
      OBVIOUS
    <3>2. r = t
      BY <1>1, <3>1 DEF Generated, Supported
    <3>3. g[Field[t]] = Term(f)[r]
      BY <1>2
    <3> QED  BY <3>2, <3>3
  <2>2. g = [x \in all |-> g[x]]
    OBVIOUS
  <2> HIDE DEF g
  <2>3. \A t \in rest : Factored(prog, g, Field[t]) = Term(f)[t]
    <3> SUFFICES ASSUME NEW t \in rest
                 PROVE  Factored(prog, g, Field[t]) = Term(f)[t]
      OBVIOUS
    <3>1. \A u \in Needs(f, t) : ~Single(f, u) => g[Field[u]] = Term(f)[u]
      BY <1>1, <1>3, <2>1 DEF Generated, Settled
    <3> QED  BY <1>1, <3>1, FactoredOf
  <2>4. \A x \in all : g[x] = Factored(prog, g, x)
    BY <1>2, <2>1, <2>3
  <2> HIDE DEF prog
  <2>5. Is(g)
    BY <2>2, <2>4
  <2> QED  BY <2>5
<1>5. New(prog) = CHOOSE g : Is(g)
  BY DEF New, Factored, all
<1>6. Is(New(prog))
  <2> HIDE DEF Is, prog
  <2> QED  BY <1>4, <1>5, Zenon
<1> DEFINE C == {D \in SUBSET DOMAIN f :
                   \A t \in D : ~Single(f, t) => New(prog)[Field[t]] = Term(f)[t]}
<1>7. {} \in C
  OBVIOUS
<1>8. \A D \in C : D \subseteq DOMAIN f /\ \A k \in DOMAIN f \ D :
         Needs(f, k) \subseteq D => D \cup {k} \in C
  <2> SUFFICES ASSUME NEW D \in C, NEW k \in DOMAIN f \ D, Needs(f, k) \subseteq D,
                      ~Single(f, k)
               PROVE  New(prog)[Field[k]] = Term(f)[k]
    OBVIOUS
  <2>1. Field[k] \in all
    BY <1>2, <1>3
  <2>2. New(prog)[Field[k]] = Factored(prog, New(prog), Field[k])
    BY <1>6, <2>1
  <2>3. \A t \in Needs(f, k) : ~Single(f, t) => New(prog)[Field[t]] = Term(f)[t]
    OBVIOUS
  <2>4. Factored(prog, New(prog), Field[k]) = Term(f)[k]
    BY <2>3, FactoredOf
  <2> QED  BY <2>2, <2>4
<1> HIDE DEF C
<1>9. DOMAIN f \in C
  BY <1>7, <1>8, Settling, FiniteGraph DEF Generated
<1> QED  BY <1>9 DEF C, prog

LEMMA LikeContainer ==
  ASSUME NEW f, Generated(f), KeptApart(f)
  PROVE  \A s \in DOMAIN f :
           Term(f)[s] = IF Single(f, s) THEN Read(Program(f), Field[s])
                        ELSE New(Program(f))[Field[s]]
BY ReadOf, NewOf

\* Wire declares each of its variables once.
LEMMA DeclaredOnce ==
  ASSUME NEW f, Generated(f)
  PROVE  \A i, j \in DOMAIN Program(f).wire :
           Program(f).wire[i].var = Program(f).wire[j].var => i = j
<1> DEFINE o == Order(f)
           w == Program(f).wire
<1>1. /\ o \in Seq(DOMAIN f) /\ \A n \in 1..Len(o) : o[n] \in DOMAIN f
      /\ \A i, j \in 1..Len(o) : o[i] = o[j] => i = j
  BY OrderOf
<1>2. DOMAIN o = 1..Len(o)
  BY <1>1
<1>3. w = [n \in DOMAIN o |-> Statement(f, o[n])]
  BY DEF Program
<1>4. DOMAIN w = 1..Len(o) /\ \A n \in 1..Len(o) : w[n].var = VarNames(f)[o[n]]
  BY <1>2, <1>3 DEF Statement
<1> HIDE DEF o, w
<1>5. \A i, j \in DOMAIN w : w[i].var = w[j].var => i = j
  BY <1>1, <1>4, NamesOf
<1> QED  BY <1>5 DEF w

\* The file was generated from a graph that Validate accepted and collect did not refuse.
FileSound == file # NoFile => Generated(file.graph)

LEMMA NextKeepsSound ==
  FileInv /\ GraphInv /\ FileSound /\ [WiringNext]_<<vars, file>> => FileSound'
<1> SUFFICES ASSUME FileInv, GraphInv, FileSound, [WiringNext]_<<vars, file>>
             PROVE  FileSound'
  OBVIOUS
<1>1. CASE UNCHANGED file
  BY <1>1 DEF FileSound
<1>2. CASE Generate
  <2>1. file'.graph = registry /\ checked = DOMAIN registry /\ Supported(registry)
    BY <1>2 DEF Generate, Registered
  <2>2. IsGraph(registry) /\ Settled(registry, checked)
    BY DEF FileInv, GraphInv
  <2> QED  BY <2>1, <2>2 DEF FileSound, Generated
<1> QED  BY <1>1, <1>2 DEF WiringNext, Boot

-----------------------------------------------------------------------------
(* The theorems on the processes of Wiring                                 *)

\* Whatever graph Validate accepts and the generator does not refuse, the generated file
\* compiles and builds what the container builds, when no variable has the name of a
\* package and no constructor takes one transient twice; services and packages may lower
\* to equal names in any other way (collect, render, uniqueVarName, importAlias).
THEOREM WiredRight == WiringSpec => []WiredLikeContainer
<1>1. FileInv /\ FileSound => WiredLikeContainer
  <2> SUFFICES ASSUME FileInv, FileSound, file # NoFile, KeptApart(file.graph)
               PROVE  BuildsTheSame(file.program, file.graph)
    BY DEF WiredLikeContainer
  <2>1. Generated(file.graph) /\ file = FileOf(file.graph)
    BY DEF FileInv, FileSound
  <2>2. file.program = Program(file.graph)
    BY <2>1 DEF FileOf
  <2> QED  BY <2>1, <2>2, DeclaredOnce, LikeContainer DEF BuildsTheSame
<1>2. WiringInit => FileSound
  BY DEF WiringInit, FileSound
<1>3. WiringSpec => []GraphInv
  BY WiringInvariance, PTL
<1> QED  BY <1>1, <1>2, <1>3, InitFile, NextKeepsFile, NextKeepsSound, PTL DEF WiringSpec

\* A file whose fingerprint is that of the registrations is the file they would generate:
\* no change of what a constructor is or needs goes unnoticed (WiringFingerprint).
THEOREM StaleFile == WiringSpec => []StaleFileNoticed
<1>1. FileInv => StaleFileNoticed
  <2> SUFFICES ASSUME FileInv, file # NoFile, file.fingerprint = Fingerprint(registry)
               PROVE  file.program = Program(registry)
    BY DEF StaleFileNoticed
  <2>1. IsGraph(file.graph) /\ IsGraph(registry) /\ file = FileOf(file.graph)
    BY DEF FileInv
  <2>2. file.program = Program(file.graph) /\ file.fingerprint = Fingerprint(file.graph)
    BY <2>1 DEF FileOf
  <2>3. file.graph = registry
    BY <2>1, <2>2, FingerprintOf
  <2> QED  BY <2>2, <2>3
<1> QED  BY <1>1, InitFile, NextKeepsFile, PTL DEF WiringSpec

\* In every process that starts from the registrations of its own source, a singleton
\* has one instance (Container.resolve).
THEOREM SingleInstanceOfEach == WiringSpec => []OneInstance
BY SingletonOnce, WiringInvariance, PTL

\* And no goroutines wait for one another's mutexes in a circle (Container.resolve).
THEOREM NoDeadlockOfEach == WiringSpec => []NoCircularWait
<1>1. IInv /\ GraphInv /\ Chained => NoCircularWait
  BY ChainBreaks DEF GraphInv
<1> QED  BY <1>1, WiringInvariance, PTL
=============================================================================
