--------------------------- MODULE LifecycleProofs ----------------------------
(***************************************************************************)
(* Theorems about Lifecycle, for any number of calls of Serve, Start and   *)
(* Stop, any buffer of the queue and any order of registration.            *)
(***************************************************************************)
EXTENDS Lifecycle, TLAPS

-----------------------------------------------------------------------------
(* The inductive invariant, in the parts its proof is split along. *)

\* TypeOK, variable by variable of the caller, of the server and of the components.
CallTypes ==
  /\ order \in [1..3 -> Components]
  /\ valid \in BOOLEAN
  /\ ctx \in {"live", "cancelled"}
  /\ mode \in {"none", "serve", "start", "stop"}
  /\ pc \in {"idle", "build", "start", "select", "shutdown", "join", "stop", "drain", "janitor"}
  /\ calls \in 0..MaxCalls /\ hook \in 0..4
  /\ deadline \in {"none", "running", "passed"}
  /\ err \subseteq {"argument", "ctx", "services", "build", "start", "server", "shutdown"}
               \cup Components

ServerTypes ==
  /\ routes \subseteq Routes /\ mux \subseteq Routes
  /\ built \in {"no", "ok", "failed"}
  /\ server \in {"none", "opening", "listening", "ended"}
  /\ closing \in BOOLEAN /\ errCh \in {"empty", "failed", "closed"}
  /\ requests \subseteq 1..MaxCalls

PartTypes ==
  /\ db \in {"open", "closed"}
  /\ janitor \in [launches : Nat, live : Nat, cancelled : BOOLEAN, stopped : BOOLEAN]
  /\ queue \in [closed : BOOLEAN, jobs : 0..MaxJobs, cancelled : BOOLEAN,
                worker : {"none", "check", "receive", "busy", "exited"}]
  /\ crashed \in BOOLEAN

Stopping == pc \in {"stop", "drain", "janitor"}

\* Every component is registered.
Registered == \A c \in Components : \E i \in 1..3 : order[i] = c

\* Nothing goes on before the first call, and the loops of Start and Stop stay in the
\* list.
HookInRange ==
  /\ pc # "idle" \/ server # "none" => calls > 0
  /\ pc = "start" => hook \in 1..4
  /\ Stopping => hook \in 0..3
  /\ pc \in {"drain", "janitor"} => hook > 0
  /\ pc = "drain" => order[hook] = "queue"
  /\ pc = "janitor" => order[hook] = "janitor"

\* The mux has the accepted routes once the chain is built, and nothing listens,
\* and no hook runs, before that.
Routed ==
  /\ built = "ok" => mux = routes
  /\ pc \in {"start", "select", "shutdown", "join"} => built = "ok"
  /\ server # "none" => built = "ok"

\* The server's only error arrives when its goroutine ends, and one that was told
\* to close takes no request any more.
ServerEnds ==
  /\ errCh # "empty" => server = "ended"
  /\ pc \in {"shutdown", "join"} => closing
  /\ pc = "join" /\ calls \in requests => "shutdown" \in err
  /\ mode = "serve" /\ Stopping =>
       /\ server = "ended"
       /\ calls \in requests => err \cap {"shutdown", "server"} # {}

\* A janitor that exits leaves one launch fewer alive than there were; the channel is
\* closed by the first of them.
Launches ==
  /\ janitor.live <= janitor.launches
  /\ janitor.stopped => janitor.live < janitor.launches

\* What the stop hook of a component leaves behind, and what the call knows of it.
Closed(c) ==
  /\ c = "database" => db = "closed"
  /\ c = "janitor" => janitor.cancelled
  /\ c = "queue" => queue.closed /\ (queue.cancelled \/ queue.worker \in {"none", "exited"})

Told(c) ==
  /\ c = "janitor" /\ janitor.live > 0 => "janitor" \in err \/ janitor.launches > 1
  /\ c = "queue" /\ (queue.worker \notin {"none", "exited"} \/ queue.jobs > 0)
       => "queue" \in err

\* The loop of Stop has closed what it has passed, from the last hook down.
HooksDone ==
  /\ Stopping => \A i \in 1..3 : i > hook => Closed(order[i]) /\ Told(order[i])
  /\ pc = "drain" => queue.closed
  /\ pc = "janitor" => janitor.cancelled /\ janitor.launches > 0

\* What is so when a call that got as far as its stop hooks has returned.
Returned ==
  pc = "idle" /\ mode \in {"serve", "stop"} /\ err \cap NotStarted = {} =>
    /\ \A c \in Components : Closed(c) /\ Told(c)
    /\ mode = "serve" =>
         /\ server = "ended"
         /\ calls \in requests => err \cap {"shutdown", "server"} # {}

\* The pool is closed after what was registered behind it.
PoolLast == db = "closed" /\ Before("database", "queue") => Closed("queue")

IInv ==
  /\ CallTypes /\ ServerTypes /\ PartTypes
  /\ Registered /\ HookInRange /\ Routed /\ ServerEnds /\ Launches
  /\ HooksDone /\ Returned /\ PoolLast /\ OnlyRestartCrashes

-----------------------------------------------------------------------------
(* Lemmas *)

LEMMA Types == TypeOK <=> CallTypes /\ ServerTypes /\ PartTypes
BY DEF TypeOK, CallTypes, ServerTypes, PartTypes

LEMMA OrderLength ==
  ASSUME IInv
  PROVE  Len(order) = 3
<1>1. order = [i \in 1..3 |-> order[i]]
  BY DEF IInv, CallTypes
<1>2. Len([i \in 1..3 |-> order[i]]) = 3
  OBVIOUS
<1> QED  BY <1>1

\* Three components in three places: each has one.
LEMMA OnePlaceEach ==
  ASSUME IInv, NEW i \in 1..3, NEW j \in 1..3, order[i] = order[j]
  PROVE  i = j
<1>1. PICK d \in 1..3, e \in 1..3, f \in 1..3 :
        order[d] = "database" /\ order[e] = "janitor" /\ order[f] = "queue"
  BY DEF IInv, Registered, Components
<1>2. d # e /\ d # f /\ e # f
  BY <1>1
<1> QED  BY <1>1

\* A part of the invariant holds on while what it speaks of stays.
LEMMA Undisturbed ==
  ASSUME IInv, UNCHANGED config
  PROVE  /\ UNCHANGED <<ctx, mode, pc, calls, hook, deadline, err>> => CallTypes'
         /\ UNCHANGED <<chain, http>> => ServerTypes'
         /\ UNCHANGED <<db, janitor, queue, crashed>> => PartTypes'
         /\ Registered'
         /\ UNCHANGED <<pc, calls, hook, server>> => HookInRange'
         /\ UNCHANGED <<pc, built, mux, routes, server>> => Routed'
         /\ UNCHANGED <<pc, mode, calls, err, http>> => ServerEnds'
         /\ UNCHANGED janitor => Launches'
         /\ UNCHANGED <<pc, hook, err, db, janitor, queue>> => HooksDone'
         /\ UNCHANGED <<pc, mode, calls, err, server, requests, db, janitor, queue>>
               => Returned'
         /\ UNCHANGED <<db, queue>> => PoolLast'
         /\ UNCHANGED <<janitor, crashed>> => OnlyRestartCrashes'
<1> USE DEF IInv, config
<1>1. UNCHANGED <<ctx, mode, pc, calls, hook, deadline, err>> => CallTypes'
  BY DEF CallTypes
<1>6. UNCHANGED <<chain, http>> => ServerTypes'
  BY DEF ServerTypes, chain, http
<1>7. UNCHANGED <<db, janitor, queue, crashed>> => PartTypes'
  BY DEF PartTypes
<1>2. Registered' /\ (UNCHANGED <<pc, calls, hook, server>> => HookInRange')
  BY DEF Registered, HookInRange, Stopping
<1>3. /\ UNCHANGED <<pc, built, mux, routes, server>> => Routed'
      /\ UNCHANGED <<pc, mode, calls, err, http>> => ServerEnds'
  BY DEF Routed, ServerEnds, Stopping, http
<1>4. /\ UNCHANGED janitor => Launches'
      /\ UNCHANGED <<pc, hook, err, db, janitor, queue>> => HooksDone'
      /\ UNCHANGED <<db, queue>> => PoolLast'
      /\ UNCHANGED <<janitor, crashed>> => OnlyRestartCrashes'
  BY DEF Launches, HooksDone, Stopping, Closed, Told, PoolLast, Before, OnlyRestartCrashes
<1>5. UNCHANGED <<pc, mode, calls, err, server, requests, db, janitor, queue>> => Returned'
  BY DEF Returned, Closed, Told
<1> QED  BY <1>1, <1>2, <1>3, <1>4, <1>5, <1>6, <1>7


LEMMA CallServeIInv ==
  ASSUME IInv, CallServe, ~crashed, UNCHANGED <<config, ctx>>
  PROVE  IInv'
<1> USE LifecycleAssumption DEF IInv
<1>1. CallTypes'
  BY DEF CallTypes, CallServe, Call, Return, config
<1>2. HookInRange'
  BY DEF CallTypes, HookInRange, Stopping, CallServe, Call, Return
<1>3. Routed'
  BY DEF Routed, CallServe, Call, Return, chain, http
<1>4. ServerEnds'
  BY DEF ServerEnds, Stopping, CallServe, Call, Return, http
<1>5. HooksDone'
  BY DEF HooksDone, Stopping, CallServe, Return
<1>6. Returned'
  BY DEF Returned, NotStarted, CallServe, Return
<1> QED
  BY <1>1, <1>2, <1>3, <1>4, <1>5, <1>6, Undisturbed DEF CallServe, Call, parts

LEMMA CallStartIInv ==
  ASSUME IInv, CallStart, ~crashed, UNCHANGED <<config, ctx>>
  PROVE  IInv'
<1> USE LifecycleAssumption DEF IInv
<1>1. CallTypes'
  BY DEF CallTypes, CallStart, Call, config
<1>2. HookInRange'
  BY DEF CallTypes, HookInRange, Stopping, CallStart, Call
<1>3. Routed'
  BY DEF Routed, CallStart, Call, chain, http
<1>4. ServerEnds'
  BY DEF ServerEnds, CallStart, Call, http
<1>5. HooksDone'
  BY DEF HooksDone, Stopping, CallStart
<1>6. Returned'
  BY DEF Returned, CallStart
<1> QED
  BY <1>1, <1>2, <1>3, <1>4, <1>5, <1>6, Undisturbed DEF CallStart, Call, parts

LEMMA CallStopIInv ==
  ASSUME IInv, CallStop, ~crashed, UNCHANGED <<config, ctx>>
  PROVE  IInv'
<1> USE LifecycleAssumption DEF IInv
<1>1. CallTypes'
  BY DEF CallTypes, CallStop, Call, config
<1>2. HookInRange'
  BY DEF CallTypes, HookInRange, CallStop, Call
<1>3. Routed'
  BY DEF Routed, CallStop, Call, chain, http
<1>4. ServerEnds'
  BY DEF ServerEnds, CallStop, Call, http
<1>5. HooksDone'
  BY OrderLength DEF HooksDone, CallStop
<1>6. Returned'
  BY DEF Returned, CallStop
<1> QED
  BY <1>1, <1>2, <1>3, <1>4, <1>5, <1>6, Undisturbed DEF CallStop, Call, parts

LEMMA ChainIInv ==
  ASSUME IInv, Register \/ ServeHTTP, ~crashed, UNCHANGED <<config, ctx>>
  PROVE  IInv'
<1> USE LifecycleAssumption DEF IInv
<1>1. ServerTypes'
  BY DEF ServerTypes, Register, ServeHTTP, BuildHandler, http
<1>2. Routed'
  BY DEF Routed, Register, ServeHTTP, BuildHandler, call, http
<1> QED
  BY <1>1, <1>2, Undisturbed DEF Register, ServeHTTP, call, http, parts

LEMMA BuildIInv ==
  ASSUME IInv, Build, ~crashed, UNCHANGED <<config, ctx>>
  PROVE  IInv'
<1> USE LifecycleAssumption DEF IInv
<1>1. CallTypes'
  <2>1. err' \subseteq err \cup {"services", "build"} \/ err' = {"services"} \/ err' = {"build"}
    BY DEF Build, Return
  <2>2. hook' \in 0..4 /\ pc' \in {"idle", "start"} /\ deadline' \in {deadline, "none"}
    BY DEF Build, Return, CallTypes
  <2>3. UNCHANGED <<order, valid, ctx, mode, calls>>
    BY DEF Build, config
  <2> QED  BY <2>1, <2>2, <2>3 DEF CallTypes
<1>2. ServerTypes'
  <2>1. built' \in {"no", "ok", "failed"} /\ mux' \subseteq Routes
    BY DEF Build, BuildHandler, ServerTypes
  <2>2. UNCHANGED <<routes, http>>
    BY DEF Build
  <2> QED  BY <2>1, <2>2 DEF ServerTypes, http
<1>3. HookInRange'
  BY DEF HookInRange, Stopping, Build, Return
<1>4. Routed'
  BY DEF Routed, ServerTypes, Build, BuildHandler, Return, http
<1>5. ServerEnds'
  BY DEF ServerEnds, Stopping, Build, Return, http
<1>6. HooksDone'
  BY DEF HooksDone, Stopping, Build, Return
<1>7. Returned'
  BY DEF Returned, NotStarted, Build, Return
<1> QED
  BY <1>1, <1>2, <1>3, <1>4, <1>5, <1>6, <1>7, Undisturbed DEF Build, parts

LEMMA StartHookIInv ==
  ASSUME IInv, StartHook, ~crashed, UNCHANGED <<config, ctx>>
  PROVE  IInv'
<1> USE LifecycleAssumption DEF IInv
<1>1. CallTypes'
  <2>1. hook' \in 0..4
    BY OrderLength DEF StartHook, StartDatabase, StartJanitor, StartQueue, NextHook, HookInRange
  <2>2. pc' \in {pc, "idle"} /\ err' \in {err, {"start"}} /\ deadline' \in {deadline, "none"}
    BY DEF StartHook, StartDatabase, StartJanitor, StartQueue, NextHook, Return
  <2>3. UNCHANGED <<order, valid, ctx, mode, calls>>
    BY DEF StartHook, config
  <2> QED  BY <2>1, <2>2, <2>3 DEF CallTypes
<1>2. PartTypes'
  <2>1. janitor' \in [launches : Nat, live : Nat, cancelled : BOOLEAN, stopped : BOOLEAN]
    <3>1. CASE UNCHANGED janitor
      BY <3>1 DEF PartTypes
    <3>2. CASE janitor' = [janitor EXCEPT !.launches = @ + 1, !.live = @ + 1]
      <4>1. janitor.launches + 1 \in Nat /\ janitor.live + 1 \in Nat
        BY DEF PartTypes
      <4> QED  BY <3>2, <4>1 DEF PartTypes
    <3> QED  BY <3>1, <3>2 DEF StartHook, StartDatabase, StartJanitor, StartQueue
  <2>2. queue' = queue \/ queue' = [queue EXCEPT !.worker = "check"]
    BY DEF StartHook, StartDatabase, StartJanitor, StartQueue
  <2>3. UNCHANGED <<db, crashed>>
    BY DEF StartHook, StartDatabase, StartJanitor, StartQueue
  <2> QED  BY <2>1, <2>2, <2>3 DEF PartTypes
<1>3. HookInRange'
  <2>1. pc' = "idle" \/ (pc' = "start" /\ hook' \in 1..4)
    BY OrderLength
    DEF StartHook, StartDatabase, StartJanitor, StartQueue, NextHook, Return, HookInRange
  <2>2. UNCHANGED <<order, calls, server>> /\ pc = "start"
    BY DEF StartHook, http, config
  <2> QED  BY <2>1, <2>2 DEF HookInRange, Stopping
<1>4. Routed'
  BY DEF Routed, StartHook, chain
<1>5. ServerEnds'
  BY
  DEF ServerEnds, Stopping, StartHook, StartDatabase, StartJanitor, StartQueue, NextHook,
      Return, http
<1>6. Launches'
  <2>1. CASE UNCHANGED janitor
    BY <2>1 DEF Launches
  <2>2. CASE janitor' = [janitor EXCEPT !.launches = @ + 1, !.live = @ + 1]
    <3>1. /\ janitor'.launches = janitor.launches + 1 /\ janitor'.live = janitor.live + 1
          /\ janitor'.stopped = janitor.stopped
      BY <2>2
    <3> QED  BY <3>1 DEF Launches, PartTypes
  <2> QED  BY <2>1, <2>2 DEF StartHook, StartDatabase, StartJanitor, StartQueue
<1>7. HooksDone'
  BY
  DEF HooksDone, Stopping, StartHook, StartDatabase, StartJanitor, StartQueue, NextHook, Return
<1>8. Returned'
  BY
  DEF Returned, NotStarted, StartHook, StartDatabase, StartJanitor, StartQueue, NextHook, Return
<1>9. PoolLast'
  BY DEF PoolLast, Closed, Before, StartHook, StartDatabase, StartJanitor, StartQueue, config
<1>10. OnlyRestartCrashes'
  BY DEF OnlyRestartCrashes, StartHook
<1> QED
  BY <1>1, <1>2, <1>3, <1>4, <1>5, <1>6, <1>7, <1>8, <1>9, <1>10, Undisturbed DEF StartHook

LEMMA StartedIInv ==
  ASSUME IInv, Started, ~crashed, UNCHANGED <<config, ctx>>
  PROVE  IInv'
<1> USE LifecycleAssumption DEF IInv
<1>1. CallTypes'
  BY DEF CallTypes, Started, Return, config
<1>2. ServerTypes'
  BY DEF ServerTypes, Started, chain
<1>3. HookInRange'
  BY DEF HookInRange, Stopping, Started, Return
<1>4. Routed'
  BY DEF Routed, Started, chain
<1>5. ServerEnds'
  BY DEF ServerEnds, Stopping, Started, Return
<1>6. HooksDone'
  BY OrderLength DEF HooksDone, HookInRange, Started, Return
<1>7. Returned'
  BY DEF Returned, Started
<1> QED
  BY <1>1, <1>2, <1>3, <1>4, <1>5, <1>6, <1>7, Undisturbed DEF Started, parts

LEMMA SelectIInv ==
  ASSUME IInv, SelectError \/ SelectDone, ~crashed, UNCHANGED <<config, ctx>>
  PROVE  IInv'
<1> USE LifecycleAssumption DEF IInv
<1>1. CallTypes'
  <2>1. err' \subseteq err \cup {"server"}
    BY DEF SelectError, SelectDone
  <2>2. hook' \in {hook, 3} /\ pc' \in {"shutdown", "stop"} /\ deadline' = "running"
    BY OrderLength DEF SelectError, SelectDone, ToStop
  <2>3. UNCHANGED <<order, valid, ctx, mode, calls>>
    BY DEF SelectError, SelectDone, config
  <2> QED  BY <2>1, <2>2, <2>3 DEF CallTypes
<1>2. ServerTypes'
  BY DEF ServerTypes, SelectError, SelectDone, chain, http
<1>3. HookInRange'
  BY DEF CallTypes, HookInRange, Stopping, SelectError, SelectDone, ToStop
<1>4. Routed'
  BY DEF Routed, SelectError, SelectDone, chain
<1>5. ServerEnds'
  BY DEF ServerEnds, Stopping, SelectError, SelectDone, ToStop, http
<1>6. HooksDone'
  BY OrderLength DEF HooksDone, Stopping, SelectError, SelectDone, ToStop
<1>7. Returned'
  BY DEF Returned, SelectError, SelectDone, ToStop
<1> QED
  BY <1>1, <1>2, <1>3, <1>4, <1>5, <1>6, <1>7, Undisturbed DEF SelectError, SelectDone, parts

LEMMA ShutdownIInv ==
  ASSUME IInv, Shutdown \/ Join, ~crashed, UNCHANGED <<config, ctx>>
  PROVE  IInv'
<1> USE LifecycleAssumption DEF IInv
<1>1. CallTypes'
  <2>1. err' \subseteq err \cup {"shutdown", "server"}
    BY DEF Shutdown, Join
  <2>2. hook' \in {hook, 3} /\ pc' \in {"join", "stop"} /\ deadline' \in {deadline, "running"}
    BY OrderLength DEF Shutdown, Join, ToStop
  <2>3. UNCHANGED <<order, valid, ctx, mode, calls>>
    BY DEF Shutdown, Join, config
  <2> QED  BY <2>1, <2>2, <2>3 DEF CallTypes
<1>2. HookInRange'
  BY DEF CallTypes, HookInRange, Stopping, Shutdown, Join, ToStop
<1>3. Routed'
  BY DEF Routed, Shutdown, Join, chain
<1>4. ServerEnds'
  BY DEF ServerEnds, Stopping, Shutdown, Join, http
<1>5. HooksDone'
  BY OrderLength DEF HooksDone, Stopping, Shutdown, Join, ToStop
<1>6. Returned'
  BY DEF Returned, Shutdown, Join, ToStop
<1> QED
  BY <1>1, <1>2, <1>3, <1>4, <1>5, <1>6, Undisturbed DEF Shutdown, Join, parts

LEMMA StopDatabaseIInv ==
  ASSUME IInv, StopDatabase, hook > 0, ~crashed,
         UNCHANGED <<mode, calls, deadline, chain, http, crashed, config, ctx>>
  PROVE  IInv'
<1> USE LifecycleAssumption DEF IInv
<1>1. CallTypes'
  <2>1. err' \subseteq err \cup {"database"}
    BY DEF StopDatabase, Failing
  <2>2. hook' \in 0..4 /\ pc' = "stop"
    BY DEF StopDatabase, PreviousHook, CallTypes
  <2>3. UNCHANGED <<order, valid, ctx, mode, calls, deadline>>
    BY DEF config
  <2> QED  BY <2>1, <2>2, <2>3 DEF CallTypes, Components
<1>2. PartTypes'
  BY DEF PartTypes, StopDatabase
<1>3. HookInRange'
  BY DEF HookInRange, Stopping, StopDatabase, PreviousHook
<1>4. Routed'
  BY DEF Routed, StopDatabase, PreviousHook, chain, http
<1>5. ServerEnds'
  BY DEF ServerEnds, Stopping, StopDatabase, Failing, PreviousHook, http
<1>6. HooksDone'
  BY
  DEF HooksDone, Stopping, Closed, Told, HookInRange, StopDatabase, Failing, PreviousHook,
      config
<1>7. Returned'
  BY DEF Returned, StopDatabase, PreviousHook
<1>8. PoolLast'
  <2> SUFFICES ASSUME Before("database", "queue")'
               PROVE  Closed("queue")'
    BY DEF PoolLast
  <2>1. PICK i \in 1..3, j \in 1..3 : i < j /\ order[i] = "database" /\ order[j] = "queue"
    BY DEF Before, CallTypes, config
  <2>2. i = hook
    <3>1. hook \in 1..3 /\ order[hook] = "database"
      BY DEF StopDatabase, HookInRange, Stopping
    <3> QED  BY <2>1, <3>1, OnePlaceEach
  <2>3. Closed("queue")
    BY <2>1, <2>2 DEF StopDatabase, HooksDone, Stopping
  <2> QED  BY <2>3 DEF StopDatabase, Closed
<1> QED
  BY <1>1, <1>2, <1>3, <1>4, <1>5, <1>6, <1>7, <1>8, Undisturbed DEF StopDatabase

LEMMA StopJanitorIInv ==
  ASSUME IInv, StopJanitor, hook > 0, ~crashed,
         UNCHANGED <<mode, calls, deadline, chain, http, crashed, config, ctx>>
  PROVE  IInv'
<1> USE LifecycleAssumption DEF IInv
<1>1. CallTypes'
  BY DEF CallTypes, StopJanitor, PreviousHook, config
<1>2. PartTypes'
  BY DEF PartTypes, StopJanitor
<1>3. HookInRange'
  BY DEF HookInRange, Stopping, StopJanitor, PreviousHook, config
<1>4. Routed'
  BY DEF Routed, StopJanitor, PreviousHook, chain, http
<1>5. ServerEnds'
  BY DEF ServerEnds, Stopping, StopJanitor, PreviousHook, http
<1>6. Launches'
  BY DEF Launches, StopJanitor
<1>7. HooksDone'
  BY
  DEF PartTypes, HooksDone, Stopping, Closed, Told, HookInRange, Launches, StopJanitor,
      PreviousHook, config
<1>8. Returned'
  BY DEF Returned, StopJanitor, PreviousHook
<1>9. OnlyRestartCrashes'
  BY DEF OnlyRestartCrashes
<1> QED
  BY <1>1, <1>2, <1>3, <1>4, <1>5, <1>6, <1>7, <1>8, <1>9, Undisturbed DEF StopJanitor

LEMMA JanitorStoppedIInv ==
  ASSUME IInv, JanitorStopped, hook > 0, ~crashed,
         UNCHANGED <<mode, calls, deadline, chain, http, crashed, config, ctx>>
  PROVE  IInv'
<1> USE LifecycleAssumption DEF IInv
<1>1. CallTypes'
  <2>1. err' \subseteq err \cup {"janitor"}
    BY DEF JanitorStopped, Failing
  <2>2. hook' \in 0..4 /\ pc' = "stop"
    BY DEF JanitorStopped, PreviousHook, CallTypes
  <2>3. UNCHANGED <<order, valid, ctx, mode, calls, deadline>>
    BY DEF config
  <2> QED  BY <2>1, <2>2, <2>3 DEF CallTypes, Components
<1>2. HookInRange'
  BY DEF HookInRange, Stopping, JanitorStopped, PreviousHook
<1>3. Routed'
  BY DEF Routed, JanitorStopped, PreviousHook, chain, http
<1>4. ServerEnds'
  BY DEF ServerEnds, Stopping, JanitorStopped, Failing, PreviousHook, http
<1>5. HooksDone'
  BY
  DEF PartTypes, HooksDone, Stopping, Closed, Told, HookInRange, Launches, JanitorStopped,
      Failing, PreviousHook, config
<1>6. Returned'
  BY DEF Returned, JanitorStopped, PreviousHook
<1> QED
  BY <1>1, <1>2, <1>3, <1>4, <1>5, <1>6, Undisturbed DEF JanitorStopped

LEMMA StopQueueIInv ==
  ASSUME IInv, StopQueue, hook > 0, ~crashed,
         UNCHANGED <<mode, calls, deadline, chain, http, crashed, config, ctx>>
  PROVE  IInv'
<1> USE LifecycleAssumption DEF IInv
<1>1. CallTypes'
  BY DEF CallTypes, StopQueue, config
<1>2. PartTypes'
  BY DEF PartTypes, StopQueue
<1>3. HookInRange'
  BY DEF HookInRange, Stopping, StopQueue, config
<1>4. Routed'
  BY DEF Routed, StopQueue, chain, http
<1>5. ServerEnds'
  BY DEF ServerEnds, Stopping, StopQueue, http
<1>6. HooksDone'
  BY DEF HooksDone, Stopping, Closed, Told, StopQueue, config
<1>7. Returned'
  BY DEF Returned, StopQueue
<1>8. PoolLast'
  BY DEF PoolLast, Closed, Before, StopQueue, config
<1> QED
  BY <1>1, <1>2, <1>3, <1>4, <1>5, <1>6, <1>7, <1>8, Undisturbed DEF StopQueue

LEMMA QueueStoppedIInv ==
  ASSUME IInv, QueueStopped, hook > 0, ~crashed,
         UNCHANGED <<mode, calls, deadline, chain, http, crashed, config, ctx>>
  PROVE  IInv'
<1> USE LifecycleAssumption DEF IInv
<1>1. CallTypes'
  <2>1. err' \subseteq err \cup {"queue"}
    BY DEF QueueStopped, Failing
  <2>2. hook' \in 0..4 /\ pc' = "stop"
    BY DEF QueueStopped, PreviousHook, CallTypes
  <2>3. UNCHANGED <<order, valid, ctx, mode, calls, deadline>>
    BY DEF config
  <2> QED  BY <2>1, <2>2, <2>3 DEF CallTypes, Components
<1>2. PartTypes'
  BY DEF PartTypes, QueueStopped
<1>3. HookInRange'
  BY DEF HookInRange, Stopping, QueueStopped, PreviousHook
<1>4. Routed'
  BY DEF Routed, QueueStopped, PreviousHook, chain, http
<1>5. ServerEnds'
  BY DEF ServerEnds, Stopping, QueueStopped, Failing, PreviousHook, http
<1>6. HooksDone'
  BY
  DEF PartTypes, HooksDone, Stopping, Closed, Told, HookInRange, QueueStopped, Failing,
      PreviousHook, config
<1>7. Returned'
  BY DEF Returned, QueueStopped, PreviousHook
<1>8. PoolLast'
  BY DEF PartTypes, PoolLast, Closed, HooksDone, QueueStopped
<1> QED
  BY <1>1, <1>2, <1>3, <1>4, <1>5, <1>6, <1>7, <1>8, Undisturbed DEF QueueStopped

LEMMA StoppedIInv ==
  ASSUME IInv, Stopped, ~crashed, UNCHANGED <<config, ctx>>
  PROVE  IInv'
<1> USE LifecycleAssumption DEF IInv
<1>1. CallTypes'
  BY DEF CallTypes, Stopped, Return, config
<1>2. HookInRange'
  BY DEF HookInRange, Stopped, Return
<1>3. Routed'
  BY DEF Routed, Stopped, Return, chain, http
<1>4. ServerEnds'
  BY DEF ServerEnds, Stopping, Stopped, Return, http
<1>5. HooksDone'
  BY DEF HooksDone, Stopping, Stopped, Return
<1>6. Returned'
  BY
  DEF Returned, Closed, Told, HooksDone, Stopping, ServerEnds, Registered, Stopped, Return,
      http, parts
<1> QED
  BY <1>1, <1>2, <1>3, <1>4, <1>5, <1>6, Undisturbed DEF Stopped, parts

LEMMA ServerIInv ==
  ASSUME IInv, Server, ~crashed, UNCHANGED <<config, ctx>>
  PROVE  IInv'
<1> USE LifecycleAssumption DEF IInv
<1>1. ServerTypes'
  <2>1. /\ requests' \subseteq requests \cup {calls}
        /\ requests' \subseteq requests \/ server = "listening"
    BY DEF Server, Listen, ListenFails, CloseElsewhere, ListenClosed, Request, RequestEnds
  <2>2. server = "listening" => calls \in 1..MaxCalls
    BY DEF HookInRange, CallTypes
  <2>3. requests' \subseteq 1..MaxCalls
    BY <2>1, <2>2 DEF ServerTypes
  <2>4. /\ UNCHANGED <<routes, mux, built>> /\ server' \in {server, "listening", "ended"}
        /\ closing' \in BOOLEAN /\ errCh' \in {errCh, "failed", "closed"}
    BY
    DEF Server, Listen, ListenFails, CloseElsewhere, ListenClosed, Request, RequestEnds, chain,
        ServerTypes
  <2> QED  BY <2>3, <2>4 DEF ServerTypes
<1>2. HookInRange'
  BY
  DEF HookInRange, Stopping, Server, Listen, ListenFails, CloseElsewhere, ListenClosed,
      Request, RequestEnds, Listening, call, config
<1>3. Routed'
  BY
  DEF Routed, Server, Listen, ListenFails, CloseElsewhere, ListenClosed, Request, RequestEnds,
      Listening, call, chain
<1>4. ServerEnds'
  BY
  DEF ServerEnds, Stopping, Server, Listen, ListenFails, CloseElsewhere, ListenClosed, Request,
      RequestEnds, call
<1>5. Returned'
  BY
  DEF Returned, Closed, Told, Server, Listen, ListenFails, CloseElsewhere, ListenClosed,
      Request, RequestEnds, call, parts
<1> QED
  BY <1>1, <1>2, <1>3, <1>4, <1>5, Undisturbed DEF Server, call, parts

LEMMA WorkerIInv ==
  ASSUME IInv, Enqueue \/ WorkerChecks \/ WorkerTakes \/ JobEnds \/ WorkerExits, ~crashed,
         UNCHANGED <<call, chain, http, config, ctx>>
  PROVE  IInv'
<1> USE LifecycleAssumption DEF IInv
<1>1. PartTypes'
  <2>1. CASE Enqueue
    <3>1. queue.jobs + 1 \in 0..MaxJobs
      BY <2>1 DEF Enqueue, PartTypes
    <3> QED  BY <2>1 DEF Enqueue, PartTypes
  <2>2. CASE WorkerTakes
    <3>1. queue.jobs - 1 \in 0..MaxJobs
      BY <2>2 DEF WorkerTakes, PartTypes
    <3> QED  BY <2>2, <3>1 DEF WorkerTakes, PartTypes
  <2>3. CASE WorkerChecks \/ JobEnds \/ WorkerExits
    BY <2>3 DEF WorkerChecks, JobEnds, WorkerExits, PartTypes
  <2> QED  BY <2>1, <2>2, <2>3
<1>2. HooksDone'
  BY
  DEF PartTypes, HooksDone, Stopping, Closed, Told, Enqueue, WorkerChecks, WorkerTakes,
      JobEnds, WorkerExits, call, config
<1>3. Returned'
  BY
  DEF PartTypes, Returned, Closed, Told, Enqueue, WorkerChecks, WorkerTakes, JobEnds,
      WorkerExits, call, http
<1>4. PoolLast'
  <2>1. UNCHANGED db /\ (Closed("queue") => Closed("queue")')
    <3>1. CASE Enqueue
      BY <3>1 DEF PartTypes, Closed, Enqueue
    <3>2. CASE WorkerChecks
      BY <3>2 DEF PartTypes, Closed, WorkerChecks
    <3>3. CASE WorkerTakes \/ JobEnds \/ WorkerExits
      BY <3>3 DEF PartTypes, Closed, WorkerTakes, JobEnds, WorkerExits
    <3> QED  BY <3>1, <3>2, <3>3
  <2> QED  BY <2>1 DEF PoolLast, Before, config
<1> QED
  BY <1>1, <1>2, <1>3, <1>4, Undisturbed
  DEF Enqueue, WorkerChecks, WorkerTakes, JobEnds, WorkerExits, call, chain, http

LEMMA JanitorExitsIInv ==
  ASSUME IInv, JanitorExits, ~crashed, UNCHANGED <<call, chain, http, config, ctx>>
  PROVE  IInv'
<1> USE LifecycleAssumption DEF IInv
<1>1. PartTypes'
  <2>1. janitor.live - 1 \in Nat
    BY DEF JanitorExits, PartTypes
  <2> QED  BY <2>1 DEF JanitorExits, PartTypes
<1>2. Launches'
  BY DEF Launches, PartTypes, JanitorExits
<1>3. HooksDone'
  BY DEF HooksDone, Stopping, Closed, Told, JanitorExits, call, config
<1>4. Returned'
  BY DEF Returned, Closed, Told, JanitorExits, call, http
<1>5. OnlyRestartCrashes'
  BY DEF OnlyRestartCrashes, Launches, PartTypes, JanitorExits
<1> QED
  BY <1>1, <1>2, <1>3, <1>4, <1>5, Undisturbed DEF JanitorExits, call, chain, http

LEMMA DeadlineIInv ==
  ASSUME IInv, (DeadlinePasses /\ UNCHANGED ctx) \/ Cancel, UNCHANGED config
  PROVE  IInv'
<1> USE DEF IInv
<1>1. CallTypes'
  BY DEF CallTypes, DeadlinePasses, Cancel, call, config
<1> QED
  BY <1>1, Undisturbed DEF DeadlinePasses, Cancel, call, parts, http, chain

LEMMA StutterIInv ==
  ASSUME IInv, UNCHANGED vars
  PROVE  IInv'
BY Undisturbed DEF IInv, vars, call, parts, http, chain

-----------------------------------------------------------------------------
(* The invariant *)

LEMMA InitIInv == Init => IInv
<1> SUFFICES ASSUME Init PROVE IInv
  OBVIOUS
<1> USE LifecycleAssumption
<1>1. CallTypes
  <2>1. order \in [1..3 -> Components] /\ calls \in 0..MaxCalls /\ hook \in 0..4
    BY DEF Init
  <2> QED  BY DEF Init, CallTypes
<1>2. PartTypes
  <2>1. 0 \in Nat /\ 0 \in 0..MaxJobs
    OBVIOUS
  <2> QED  BY <2>1 DEF Init, PartTypes
<1>6. ServerTypes
  BY DEF Init, ServerTypes
<1>3. Registered
  <2>1. order \in [1..3 -> Components] /\ \A i, j \in 1..3 : order[i] = order[j] => i = j
    BY DEF Init, IsInjective
  <2> QED  BY <2>1 DEF Registered, Components
<1>4. HookInRange /\ Routed /\ ServerEnds /\ Launches /\ HooksDone /\ Returned /\ PoolLast
  BY
  DEF Init, HookInRange, Stopping, Routed, ServerEnds, Launches, HooksDone, Returned, PoolLast
<1>5. OnlyRestartCrashes
  BY DEF Init, OnlyRestartCrashes
<1> QED  BY <1>1, <1>2, <1>3, <1>4, <1>5, <1>6 DEF IInv

LEMMA NextIInv == IInv /\ [Next]_vars => IInv'
<1> SUFFICES ASSUME IInv, [Next]_vars PROVE IInv'
  OBVIOUS
<1>1. CASE UNCHANGED vars
  BY <1>1, StutterIInv
<1>2. CASE Next
  <2> ~crashed /\ UNCHANGED config
    BY <1>2 DEF Next
  <2>1. CASE Calls /\ UNCHANGED ctx
    BY <2>1, CallServeIInv, CallStartIInv, CallStopIInv, ChainIInv DEF Calls
  <2>2. CASE Caller /\ UNCHANGED ctx
    <3>1. CASE StopHook
      BY <2>2, <3>1, StopDatabaseIInv, StopJanitorIInv, JanitorStoppedIInv, StopQueueIInv,
         QueueStoppedIInv DEF StopHook
    <3>2. CASE Build \/ StartHook \/ Started
      BY <2>2, <3>2, BuildIInv, StartHookIInv, StartedIInv
    <3>3. CASE SelectError \/ SelectDone \/ Shutdown \/ Join \/ Stopped
      BY <2>2, <3>3, SelectIInv, ShutdownIInv, StoppedIInv
    <3> QED  BY <2>2, <3>1, <3>2, <3>3 DEF Caller
  <2>3. CASE Server /\ UNCHANGED ctx
    BY <2>3, ServerIInv
  <2>4. CASE Background /\ UNCHANGED ctx
    BY <2>4, WorkerIInv, JanitorExitsIInv DEF Background
  <2>5. CASE (DeadlinePasses /\ UNCHANGED ctx) \/ Cancel
    BY <2>5, DeadlineIInv
  <2> QED  BY <1>2, <2>1, <2>2, <2>3, <2>4, <2>5 DEF Next
<1> QED  BY <1>1, <1>2

-----------------------------------------------------------------------------
(* Theorems *)

\* Whatever the calls, and however hooks, requests, jobs and janitors end, the
\* inductive invariant holds.
THEOREM Invariance == Spec => []IInv
<1>1. Init => IInv
  BY InitIInv
<1>2. IInv /\ [Next]_vars => IInv'
  BY NextIInv
<1> QED  BY <1>1, <1>2, PTL DEF Spec

\* Every variable keeps its type: Start and Stop stay within the list of hooks.
THEOREM TypeCorrect == Spec => []TypeOK
<1>1. IInv => TypeOK
  BY Types DEF IInv
<1> QED  BY <1>1, Invariance, PTL

\* What serve and Stop leave running, a request, a worker, a job that waits or a
\* janitor, is in the error they return, even when hooks fail or time runs out.
THEOREM LeftIsReported == Spec => []WhatIsLeftIsReported
<1>1. IInv => WhatIsLeftIsReported
  BY DEF IInv, Returned, Told, Components, WhatIsLeftIsReported
<1> QED  BY <1>1, Invariance, PTL

\* In every order of registration, a queue registered after the pool has drained,
\* or was told to give up, when the pool closes.
THEOREM ClosedInOrder == Spec => []DependenciesCloseLast
<1>1. IInv => DependenciesCloseLast
  BY DEF IInv, PoolLast, Closed, DependenciesCloseLast
<1> QED  BY <1>1, Invariance, PTL

\* A failing hook or a spent deadline keeps Stop from no hook.
THEOREM AllHooksRun == Spec => []NoHookSkipped
<1>1. IInv => NoHookSkipped
  BY DEF IInv, Returned, Closed, Components, NoHookSkipped
<1> QED  BY <1>1, Invariance, PTL

\* Whenever the application listens, every route it accepted is in the mux.
THEOREM RoutesServed == Spec => []NoRouteIgnored
<1>1. IInv => NoRouteIgnored
  BY DEF IInv, Routed, Listening, NoRouteIgnored
<1> QED  BY <1>1, Invariance, PTL

\* The process dies only of a janitor launched twice, so only after a second Start.
THEOREM RestartOnly == Spec => []OnlyRestartCrashes
<1>1. IInv => OnlyRestartCrashes
  BY DEF IInv
<1> QED  BY <1>1, Invariance, PTL

-----------------------------------------------------------------------------
(* The safety half of ServeReturns *)

\* Whatever a call of serve or Stop waits for is under way, or has a deadline: the server
\* runs or has told how it ended, and is told to close before serve waits for that; the
\* queue is closed before its workers are waited for, and a janitor that is waited for
\* was told to stop and either runs or has stopped.
EveryWaitEnds ==
  /\ mode = "serve" /\ pc \in {"select", "shutdown", "join"} =>
       Listening \/ (server = "ended" /\ errCh # "empty")
  /\ pc = "join" => closing
  /\ pc = "shutdown" \/ (mode = "serve" /\ pc \in {"drain", "janitor"}) => deadline # "none"
  /\ pc = "drain" => queue.closed
  /\ pc = "janitor" => janitor.cancelled /\ (janitor.stopped \/ janitor.live > 0)

\* What it needs beside IInv: a deadline is set when serve turns to its stop hooks, a
\* call that builds or starts is not Stop, and every launch has a janitor until one stops.
Waits ==
  /\ mode = "serve" /\ pc \in {"select", "shutdown", "join"} =>
       Listening \/ (server = "ended" /\ errCh # "empty")
  /\ pc = "shutdown" \/ (mode = "serve" /\ Stopping) => deadline # "none"
  /\ pc \in {"build", "start"} => mode \in {"serve", "start"}
  /\ pc \in {"select", "shutdown", "join"} => mode = "serve"
  /\ ~janitor.stopped => janitor.live = janitor.launches

LEMMA WaitsEnd == IInv /\ Waits => EveryWaitEnds
BY DEF IInv, PartTypes, ServerEnds, HooksDone, Stopping, Waits, EveryWaitEnds

LEMMA StepWaits == IInv /\ Waits /\ [Next]_vars => Waits'
<1> SUFFICES ASSUME IInv, Waits, [Next]_vars
             PROVE  Waits'
  OBVIOUS
<1> USE DEF Waits, Stopping, Listening, IInv, CallTypes, ServerTypes, PartTypes
<1>1. CASE UNCHANGED <<mode, pc, deadline, server, errCh, janitor>>
  BY <1>1
<1>2. CASE CallServe \/ CallStart \/ CallStop
  <2>1. UNCHANGED <<server, errCh, janitor>>
    BY <1>2 DEF CallServe, CallStart, CallStop, Call, http, parts
  <2>2. CASE CallServe \/ CallStart
    <3>1. pc' \in {"idle", "build"} /\ mode' \in {"serve", "start"}
      BY <2>2 DEF CallServe, CallStart, Call, Return
    <3> QED  BY <2>1, <3>1
  <2>3. CASE CallStop
    BY <2>1, <2>3 DEF CallStop, Call
  <2> QED  BY <1>2, <2>2, <2>3
<1>3. CASE Register \/ ServeHTTP
  BY <1>1, <1>3 DEF Register, ServeHTTP, call, http, parts
<1>4. CASE Build
  BY <1>4 DEF Build, Return, http, parts
<1>5. CASE StartHook
  <2>1. CASE StartJanitor
    BY <1>5, <2>1 DEF StartHook, StartJanitor, NextHook, chain, http
  <2>2. CASE StartDatabase \/ StartQueue
    BY <1>5, <2>2 DEF StartHook, StartDatabase, StartQueue, NextHook, Return, chain, http
  <2> QED  BY <1>5, <2>1, <2>2 DEF StartHook
<1>6. CASE Started
  BY <1>6 DEF Started, Return, parts, chain
<1>7. CASE SelectError \/ SelectDone \/ Shutdown \/ Join
  <2>1. UNCHANGED <<mode, server, errCh, janitor>>
    BY <1>7 DEF SelectError, SelectDone, Shutdown, Join, http, parts
  <2>2. \/ pc' = "stop" /\ deadline' = "running"
        \/ pc = "select" /\ pc' = "shutdown" /\ deadline' = "running"
        \/ pc = "shutdown" /\ pc' = "join" /\ UNCHANGED deadline
    BY <1>7 DEF SelectError, SelectDone, Shutdown, Join, ToStop
  <2> QED  BY <2>1, <2>2
<1>8. CASE StopHook
  BY <1>8 DEF StopHook, StopDatabase, StopJanitor, JanitorStopped, StopQueue, QueueStopped,
     PreviousHook, http
<1>9. CASE Stopped
  BY <1>9 DEF Stopped, Return, http, parts
<1>10. CASE Server
  BY <1>10 DEF Server, Listen, ListenFails, CloseElsewhere, ListenClosed, Request, RequestEnds,
     call, parts
<1>11. CASE Background
  <2>1. CASE JanitorExits
    BY <1>11, <2>1 DEF Background, JanitorExits, call, http
  <2>2. CASE Enqueue \/ WorkerChecks \/ WorkerTakes \/ JobEnds \/ WorkerExits
    BY <1>1, <1>11, <2>2
    DEF Background, Enqueue, WorkerChecks, WorkerTakes, JobEnds, WorkerExits, call, http
  <2> QED  BY <1>11, <2>1, <2>2 DEF Background
<1>12. CASE DeadlinePasses
  BY <1>12 DEF DeadlinePasses, http, parts
<1>13. CASE Cancel
  BY <1>1, <1>13 DEF Cancel, call, http, parts
<1>14. CASE UNCHANGED vars
  BY <1>1, <1>14 DEF vars, call, http, parts
<1> QED
  BY <1>2, <1>3, <1>4, <1>5, <1>6, <1>7, <1>8, <1>9, <1>10, <1>11, <1>12, <1>13, <1>14
     DEF Next, Calls, Caller

\* No call of serve or Stop waits for what nobody will do: neither for a server that ended
\* without a word, nor for a janitor that was never launched or never told to stop
\* (App.serve and the stop hooks of App.Stop).
THEOREM NoWaitForNothing == Spec => []EveryWaitEnds
<1>1. Init => Waits
  BY DEF Init, Waits, Stopping, Listening
<1> QED  BY <1>1, WaitsEnd, StepWaits, InitIInv, NextIInv, PTL DEF Spec
=============================================================================
