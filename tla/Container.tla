------------------------------ MODULE Container --------------------------------
(***************************************************************************)
(* The service container, src/container.go: registration, Validate, and    *)
(* resolution by several goroutines, which build a singleton while they    *)
(* hold the mutex of its registration.                                     *)
(*                                                                         *)
(* Abstracted: types and reflection; a registration is a record of its     *)
(* key, what builds it, its inputs and its lifetime.  A constructor ends;  *)
(* one that returns an error may fail.  (A panic of a constructor unlocks  *)
(* like an error.)                                                         *)
(***************************************************************************)
EXTENDS Naturals, Sequences

CONSTANTS
  Services,       (* the types                                             *)
  Goroutines,
  Registrations   (* what the application may provide                      *)

ASSUME ContainerAssumption ==
  /\ "nobody" \notin Goroutines /\ "none" \notin Services
  /\ \A r \in Registrations : /\ r.key \in Services /\ r.inputs \in Seq(Services)
                              /\ r.lifetime \in {"singleton", "transient"}

VARIABLES
  registry,   (* the registrations by key                                  *)
  ready,      (* the singletons that have an instance                      *)
  mutex,      (* the goroutine in each registration's mutex                *)
  built,      (* history: how often a singleton's instance was stored      *)
  pc,         (* where each goroutine stands in resolve and build          *)
  want,       (* the service it asks for, none past the entry of resolve   *)
  stack,      (* the services it builds, outermost first, with the next input *)
  walk,       (* Validate: the snapshot, the colours and the path          *)
  checked     (* the services the last successful Validate looked at       *)

graph    == <<registry, checked, walk>>
builders == <<ready, mutex, built, pc, want, stack>>
vars     == <<graph, builders>>

Registered == DOMAIN registry
NoWalk == [snapshot |-> <<>>, state |-> <<>>, path |-> <<>>]

Init ==
  /\ registry = <<>> /\ checked = {} /\ walk = NoWalk
  /\ ready = {} /\ mutex = [s \in Services |-> "nobody"]
  /\ built = [s \in Services |-> 0]
  /\ pc = [g \in Goroutines |-> "idle"]
  /\ want = [g \in Goroutines |-> "none"]
  /\ stack = [g \in Goroutines |-> <<>>]

Extended(f, key, value) == [k \in DOMAIN f \cup {key} |-> IF k = key THEN value ELSE f[k]]

-----------------------------------------------------------------------------
(* Registration *)

\* Provide, ProvideAs and Instance: a key is registered once.
Provide(r) ==
  /\ r.key \notin Registered
  /\ registry' = Extended(registry, r.key, r)
  /\ ready' = IF r.source = "instance" THEN ready \cup {r.key} ELSE ready
  /\ UNCHANGED <<mutex, built, pc, want, stack, checked, walk>>

-----------------------------------------------------------------------------
(* Validate: a depth-first walk over a snapshot of the registrations *)

Top(s) == s[Len(s)]
Pop(s) == SubSeq(s, 1, Len(s) - 1)
Advance(s) == [s EXCEPT ![Len(s)].next = @ + 1]

Walking == walk # NoWalk
Inputs == walk.snapshot[Top(walk.path).key].inputs

\* The walk reads its snapshot only, so resolutions beside it are left out.
ValidateBegin ==
  /\ ~Walking /\ registry # <<>> /\ \A g \in Goroutines : pc[g] = "idle"
  /\ walk' = [snapshot |-> registry, path |-> <<>>,
              state |-> [s \in Registered |-> "new"]]
  /\ UNCHANGED <<registry, checked, builders>>

Enter(path, key) ==
  walk' = [walk EXCEPT !.path = Append(path, [key |-> key, next |-> 1]),
                       !.state[key] = "open"]

\* The loop over the registrations, in no particular order.
VisitRoot ==
  /\ Walking /\ walk.path = <<>>
  /\ \E key \in DOMAIN walk.snapshot : walk.state[key] = "new" /\ Enter(<<>>, key)
  /\ UNCHANGED <<registry, checked, builders>>

\* A bug to look for: a service on the path counts as visited.
VisitInputBlindly ==
  /\ Walking /\ walk.path # <<>> /\ Top(walk.path).next <= Len(Inputs)
  /\ LET input == Inputs[Top(walk.path).next] IN
       IF input \notin DOMAIN walk.snapshot THEN walk' = NoWalk
       ELSE IF walk.state[input] = "new" THEN Enter(Advance(walk.path), input)
       ELSE walk' = [walk EXCEPT !.path = Advance(@)]
  /\ UNCHANGED <<registry, checked, builders>>

\* A missing or an open input is the error Validate returns.
VisitInput ==
  /\ Walking /\ walk.path # <<>> /\ Top(walk.path).next <= Len(Inputs)
  /\ LET input == Inputs[Top(walk.path).next] IN
       IF input \notin DOMAIN walk.snapshot \/ walk.state[input] = "open" THEN walk' = NoWalk
       ELSE IF walk.state[input] = "new" THEN Enter(Advance(walk.path), input)
       ELSE walk' = [walk EXCEPT !.path = Advance(@)]
  /\ UNCHANGED <<registry, checked, builders>>

VisitEnd ==
  /\ Walking /\ walk.path # <<>> /\ Top(walk.path).next > Len(Inputs)
  /\ walk' = [walk EXCEPT !.path = Pop(@), !.state[Top(walk.path).key] = "done"]
  /\ UNCHANGED <<registry, checked, builders>>

ValidateOk ==
  /\ Walking /\ walk.path = <<>>
  /\ \A key \in DOMAIN walk.snapshot : walk.state[key] = "done"
  /\ checked' = DOMAIN walk.snapshot /\ walk' = NoWalk
  /\ UNCHANGED <<registry, builders>>

Validate == ValidateBegin \/ VisitRoot \/ VisitInput \/ VisitEnd \/ ValidateOk

-----------------------------------------------------------------------------
(* Resolution *)

Goto(g, place) == pc' = [pc EXCEPT ![g] = place]
Ask(g, s) == want' = [want EXCEPT ![g] = s] /\ Goto(g, "enter")
Leave(g, place) == want' = [want EXCEPT ![g] = "none"] /\ Goto(g, place)
Push(g, key) == stack' = [stack EXCEPT ![g] = Append(@, [key |-> key, next |-> 1])]
Building(g) == {stack[g][i].key : i \in DOMAIN stack[g]}

Resolve(g) ==
  /\ pc[g] = "idle" /\ ~Walking
  /\ \E s \in Services : Ask(g, s)
  /\ UNCHANGED <<ready, mutex, built, stack, graph>>

\* An unregistered service, or one this goroutine is already building.
Refuse(g) ==
  /\ pc[g] = "enter"
  /\ want[g] \notin Registered \/ want[g] \in Building(g)
  /\ Leave(g, "fail")
  /\ UNCHANGED <<ready, mutex, built, stack, graph>>

BeginTransient(g) ==
  /\ pc[g] = "enter" /\ want[g] \in Registered \ Building(g)
  /\ registry[want[g]].lifetime = "transient"
  /\ Push(g, want[g]) /\ Leave(g, "build")
  /\ UNCHANGED <<ready, mutex, built, graph>>

\* A bug to look for: ready is looked at before the mutex is taken.
BeginSingletonUnlocked(g) ==
  /\ pc[g] = "enter" /\ want[g] \in Registered \ Building(g)
  /\ registry[want[g]].lifetime = "singleton"
  /\ IF want[g] \in ready
     THEN Leave(g, "value") /\ UNCHANGED <<mutex, stack>>
     ELSE Push(g, want[g]) /\ Leave(g, "build") /\ UNCHANGED mutex
  /\ UNCHANGED <<ready, built, graph>>

\* The mutex is taken, and kept for the build unless the instance is there.
BeginSingleton(g) ==
  /\ pc[g] = "enter" /\ want[g] \in Registered \ Building(g)
  /\ registry[want[g]].lifetime = "singleton"
  /\ mutex[want[g]] = "nobody"
  /\ IF want[g] \in ready
     THEN Leave(g, "value") /\ UNCHANGED <<mutex, stack>>
     ELSE /\ Push(g, want[g]) /\ Leave(g, "build")
          /\ mutex' = [mutex EXCEPT ![want[g]] = g]
  /\ UNCHANGED <<ready, built, graph>>

Current(g) == registry[Top(stack[g]).key]

\* build resolves the next input.
Argument(g) ==
  /\ pc[g] = "build" /\ Top(stack[g]).next <= Len(Current(g).inputs)
  /\ Ask(g, Current(g).inputs[Top(stack[g]).next])
  /\ UNCHANGED <<ready, mutex, built, stack, graph>>

\* The frame ends, and with it the deferred unlock of a singleton.
Unlock(g) ==
  /\ stack' = [stack EXCEPT ![g] = Pop(@)]
  /\ mutex' = IF Current(g).lifetime = "singleton"
              THEN [mutex EXCEPT ![Top(stack[g]).key] = "nobody"] ELSE mutex

Construct(g) ==
  LET key == Top(stack[g]).key IN
  /\ pc[g] = "build" /\ Top(stack[g]).next > Len(Current(g).inputs)
  /\ \/ /\ Unlock(g) /\ Goto(g, "value")
        /\ IF Current(g).lifetime = "singleton"
           THEN ready' = ready \cup {key} /\ built' = [built EXCEPT ![key] = @ + 1]
           ELSE UNCHANGED <<ready, built>>
     \/ /\ Current(g).returns = 2
        /\ Goto(g, "fail") /\ UNCHANGED <<ready, built, mutex, stack>>
  /\ UNCHANGED <<want, graph>>

\* A value is the caller's, or the next argument of the build around it.
Deliver(g) ==
  /\ pc[g] = "value"
  /\ IF stack[g] = <<>> THEN Goto(g, "idle") /\ UNCHANGED stack
     ELSE Goto(g, "build") /\ stack' = [stack EXCEPT ![g] = Advance(@)]
  /\ UNCHANGED <<ready, mutex, built, want, graph>>

\* An error ends every build around it; nothing of it is kept.
Unwind(g) ==
  /\ pc[g] = "fail"
  /\ IF stack[g] = <<>> THEN Goto(g, "idle") /\ UNCHANGED <<stack, mutex>>
     ELSE Unlock(g) /\ UNCHANGED pc
  /\ UNCHANGED <<ready, built, want, graph>>

Progress(g) ==
  \/ Refuse(g) \/ BeginTransient(g) \/ Argument(g) \/ Construct(g)
  \/ Deliver(g) \/ Unwind(g)

-----------------------------------------------------------------------------
Register == \E r \in Registrations : Provide(r)

Resolution == \E g \in Goroutines : Resolve(g) \/ BeginSingleton(g) \/ Progress(g)

Next == Register \/ Validate \/ Resolution

Spec == Init /\ [][Next]_vars

\* Goroutines run, and Go's mutexes starve no one.
Fair == \A g \in Goroutines : WF_vars(Progress(g)) /\ SF_vars(BeginSingleton(g))
FairSpec == Spec /\ Fair

-----------------------------------------------------------------------------
(* Properties *)

\* Every variable keeps its type, and a mutex is held exactly by the goroutine that
\* builds its singleton.
TypeOK ==
  /\ Registered \subseteq Services
  /\ \A s \in Registered : registry[s] \in Registrations /\ registry[s].key = s
  /\ ready \subseteq Registered /\ checked \subseteq Registered
  /\ mutex \in [Services -> Goroutines \cup {"nobody"}]
  /\ built \in [Services -> Nat]
  /\ pc \in [Goroutines -> {"idle", "enter", "build", "value", "fail"}]
  /\ want \in [Goroutines -> Services \cup {"none"}]
  /\ \A g \in Goroutines :
       stack[g] \in Seq([key : Registered, next : Nat \ {0}])
  /\ \A g \in Goroutines, s \in Registered :
       mutex[s] = g <=> registry[s].lifetime = "singleton" /\ s \in Building(g)

\* A singleton has one instance however many goroutines ask for it at once, and an
\* instance that was handed in is never built.
OneInstance ==
  \A s \in Registered : built[s] <= IF registry[s].source = "instance" THEN 0 ELSE 1

\* In a graph Validate accepted, every resolution returns: no goroutine waits for a
\* mutex that waits for its own, whatever is registered later.
ResolveReturns ==
  \A g \in Goroutines :
    pc[g] # "idle" /\ ({want[g]} \ {"none"}) \cup Building(g) \subseteq checked ~> pc[g] = "idle"
=============================================================================
