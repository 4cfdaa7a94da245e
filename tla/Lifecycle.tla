------------------------------ MODULE Lifecycle -------------------------------
(***************************************************************************)
(* The life of an application, src/app.go and src/lifecycle.go: Start,     *)
(* Stop and serve, composed with the three components that hook into it,   *)
(* the database pool (src/database/database.go), the cache janitor         *)
(* (src/cache/register.go) and the job queue (src/queue/queue.go).         *)
(*                                                                         *)
(* One goroutine owns the application and calls Serve, Start and Stop one  *)
(* after the other; every Serve has a server of its own.  Abstracted: a    *)
(* server has at most one request in flight, the queue one worker, a job   *)
(* one attempt (Queue.tla has them all); what an error says beyond where   *)
(* it comes from.                                                          *)
(***************************************************************************)
EXTENDS Naturals, Sequences, Functions

CONSTANTS
  MaxCalls,   (* bound: calls of Serve, Start and Stop                     *)
  MaxJobs     (* the queue's buffer                                        *)

ASSUME LifecycleAssumption == MaxCalls \in Nat /\ MaxJobs \in Nat

VARIABLES
  order,      (* the components in the order they were registered          *)
  valid,      (* whether the service graph is valid                        *)
  ctx,        (* the context given to Serve: live or cancelled             *)
  mode,       (* the current call, or the last one                         *)
  pc,         (* where the caller stands; idle between calls               *)
  calls,      (* the number of calls so far                                *)
  hook,       (* the hook Start or Stop is at                              *)
  deadline,   (* the timeout of the context in use                         *)
  err,        (* what the errors of the current or last call are about     *)
  routes,     (* the routes that were accepted                             *)
  built,      (* handlerOnce and buildErr                                  *)
  mux,        (* the routes in the ServeMux                                *)
  server,     (* the listen goroutine of the current server                *)
  closing,    (* the current server was told to close                      *)
  errCh,      (* the channel of one server error                           *)
  requests,   (* the calls whose server has a request in flight            *)
  db,         (* the connection pool                                       *)
  janitor,    (* launches, live goroutines, context, the stopped channel   *)
  queue,      (* closed, jobs in the channel, worker, job context          *)
  crashed     (* the process died of a panic                               *)

config == <<order, valid>>
call   == <<mode, pc, calls, hook, deadline, err>>
chain  == <<routes, built, mux>>
http   == <<server, closing, errCh, requests>>
parts  == <<db, janitor, queue, crashed>>
vars   == <<config, ctx, call, chain, http, parts>>

Components == {"database", "janitor", "queue"}

\* Two routes; their patterns conflict.
Routes == {"route", "twin"}

Before(c, d) == \E i, j \in DOMAIN order : i < j /\ order[i] = c /\ order[j] = d

Init ==
  /\ order \in {o \in [1..3 -> Components] : IsInjective(o)}
  /\ valid \in BOOLEAN
  /\ ctx = "live"
  /\ mode = "none" /\ pc = "idle" /\ calls = 0 /\ hook = 0 /\ deadline = "none"
  /\ err = {} /\ routes = {} /\ built = "no" /\ mux = {}
  /\ server = "none" /\ closing = FALSE /\ errCh = "empty" /\ requests = {}
  /\ db = "open"
  /\ janitor = [launches |-> 0, live |-> 0, cancelled |-> FALSE, stopped |-> FALSE]
  /\ queue = [closed |-> FALSE, jobs |-> 0, worker |-> "none", cancelled |-> FALSE]
  /\ crashed = FALSE

-----------------------------------------------------------------------------
(* Calls and returns *)

Call(m) ==
  /\ pc = "idle" /\ calls < MaxCalls
  /\ calls' = calls + 1 /\ mode' = m
  /\ UNCHANGED <<chain, http, parts>>

Return(errors) == pc' = "idle" /\ err' = errors /\ deadline' = "none"

\* Run, Serve, ServeTLS, ServeListener: without a server, a listener or a
\* certificate, or with a context that is already cancelled, nothing is started.
CallServe ==
  /\ Call("serve")
  /\ \/ Return({"argument"})
     \/ ctx = "cancelled" /\ Return({"ctx"})
     \/ ctx = "live" /\ pc' = "build" /\ err' = {} /\ UNCHANGED deadline
  /\ UNCHANGED hook

CallStart ==
  /\ Call("start")
  /\ pc' = "build" /\ err' = {}
  /\ UNCHANGED <<hook, deadline>>

\* Stop, with a context of the caller's that may have no deadline.
CallStop ==
  /\ Call("stop")
  /\ pc' = "stop" /\ err' = {} /\ hook' = Len(order)
  /\ deadline' \in {"none", "running"}

-----------------------------------------------------------------------------
(* Start *)

\* A bug to look for: registration is refused only while a server listens.
RegisterUntilServing ==
  /\ pc = "idle"
  /\ \E r \in Routes : routes' = routes \cup {r}
  /\ UNCHANGED <<call, built, mux, http, parts>>

\* Handle, and its many forms: it panics once the routes are frozen.
Register ==
  /\ pc = "idle" /\ built = "no"
  /\ \E r \in Routes : routes' = routes \cup {r}
  /\ UNCHANGED <<call, built, mux, http, parts>>

\* A bug to look for: only the first build reports that it failed.
ForgetfulBuild ==
  \/ /\ built = "no" /\ routes # Routes
     /\ built' = "ok" /\ mux' = routes
  \/ /\ built = "no" /\ routes = Routes
     /\ built' = "failed" /\ \E r \in Routes : mux' = {r}
  \/ /\ built # "no"
     /\ built' = "ok" /\ UNCHANGED mux

\* buildHandler: the routes enter the mux once, in order, until one is refused,
\* and that failure is kept.
BuildHandler ==
  \/ /\ built = "no" /\ routes # Routes
     /\ built' = "ok" /\ mux' = routes
  \/ /\ built = "no" /\ routes = Routes
     /\ built' = "failed" /\ \E r \in Routes : mux' = {r}
  \/ built # "no" /\ UNCHANGED <<built, mux>>

Build ==
  /\ pc = "build"
  /\ IF ~valid
     THEN Return({"services"}) /\ UNCHANGED <<hook, built, mux>>
     ELSE /\ BuildHandler
          /\ IF built' = "failed" THEN Return({"build"}) /\ UNCHANGED hook
             ELSE pc' = "start" /\ hook' = 1 /\ UNCHANGED <<err, deadline>>
  /\ UNCHANGED <<mode, calls, routes, http, parts>>

\* The application used as an http.Handler, without Start.
ServeHTTP ==
  /\ BuildHandler
  /\ UNCHANGED <<call, routes, http, parts>>

NextHook == hook' = hook + 1 /\ UNCHANGED <<pc, err, deadline>>

\* The ping of Register: it fails on a closed pool, or for the database's reasons.
StartDatabase ==
  /\ order[hook] = "database"
  /\ \/ db = "open" /\ NextHook
     \/ Return({"start"}) /\ UNCHANGED hook
  /\ UNCHANGED <<db, janitor, queue>>

StartJanitor ==
  /\ order[hook] = "janitor"
  /\ janitor' = [janitor EXCEPT !.launches = @ + 1, !.live = @ + 1]
  /\ NextHook /\ UNCHANGED <<db, queue>>

StartQueue ==
  /\ order[hook] = "queue"
  /\ queue' = IF queue.closed \/ queue.worker # "none" THEN queue
              ELSE [queue EXCEPT !.worker = "check"]
  /\ NextHook /\ UNCHANGED <<db, janitor>>

StartHook ==
  /\ pc = "start" /\ hook <= Len(order)
  /\ StartDatabase \/ StartJanitor \/ StartQueue
  /\ UNCHANGED <<mode, calls, chain, http, crashed>>

\* Start returns to its caller, or to serve, which launches the listener.
Started ==
  /\ pc = "start" /\ hook > Len(order)
  /\ IF mode = "start"
     THEN Return({}) /\ UNCHANGED <<server, closing, errCh>>
     ELSE /\ pc' = "select"
          /\ server' = "opening" /\ closing' = FALSE /\ errCh' = "empty"
          /\ UNCHANGED <<err, deadline>>
  /\ UNCHANGED <<mode, calls, hook, chain, requests, parts>>

-----------------------------------------------------------------------------
(* serve, once it listens *)

ToStop == pc' = "stop" /\ hook' = Len(order) /\ deadline' = "running"

\* The server stopped on its own.
SelectError ==
  /\ pc = "select" /\ errCh # "empty"
  /\ err' = err \cup {"server"}
  /\ ToStop
  /\ UNCHANGED <<mode, calls, chain, http, parts>>

\* Shutdown closes the listener before it waits.
SelectDone ==
  /\ pc = "select" /\ ctx = "cancelled"
  /\ pc' = "shutdown" /\ deadline' = "running" /\ closing' = TRUE
  /\ UNCHANGED <<mode, calls, hook, err, chain, server, errCh, requests, parts>>

\* A bug to look for: Shutdown is given a context without a deadline.
ShutdownWaits ==
  /\ pc = "shutdown" /\ calls \notin requests
  /\ pc' = "join" /\ UNCHANGED <<err, mode, calls, hook, deadline, chain, http, parts>>

Shutdown ==
  /\ pc = "shutdown"
  /\ \/ calls \notin requests /\ UNCHANGED err
     \/ deadline = "passed" /\ err' = err \cup {"shutdown"}
  /\ pc' = "join"
  /\ UNCHANGED <<mode, calls, hook, deadline, chain, http, parts>>

\* A bug to look for: a graceful shutdown drops the error of its wait.
JoinAlone ==
  /\ pc = "join" /\ errCh # "empty"
  /\ err' = IF errCh = "closed" THEN {} ELSE {"server"}
  /\ ToStop
  /\ UNCHANGED <<mode, calls, chain, http, parts>>

\* ErrServerClosed is what a graceful shutdown asked for.
Join ==
  /\ pc = "join" /\ errCh # "empty"
  /\ err' = IF errCh = "closed" THEN err ELSE err \cup {"server"}
  /\ ToStop
  /\ UNCHANGED <<mode, calls, chain, http, parts>>

-----------------------------------------------------------------------------
(* Stop: the hooks in reverse order, under one deadline *)

Failing(errors) == err' = err \cup errors

PreviousHook == hook' = hook - 1 /\ pc' = "stop"

StopDatabase ==
  /\ pc = "stop" /\ order[hook] = "database"
  /\ db' = "closed"
  /\ \E errors \in {{}, {"database"}} : Failing(errors)
  /\ PreviousHook /\ UNCHANGED <<janitor, queue>>

\* A bug to look for: the hook also closes the channel of a janitor never launched.
StopJanitorEagerly ==
  /\ pc = "stop" /\ order[hook] = "janitor"
  /\ janitor' = [janitor EXCEPT !.cancelled = TRUE, !.stopped = @ \/ janitor.launches = 0]
  /\ IF janitor.launches = 0 THEN PreviousHook
     ELSE pc' = "janitor" /\ UNCHANGED hook
  /\ UNCHANGED <<err, db, queue>>

\* A janitor that was never launched is not waited for.
StopJanitor ==
  /\ pc = "stop" /\ order[hook] = "janitor"
  /\ janitor' = [janitor EXCEPT !.cancelled = TRUE]
  /\ IF janitor.launches = 0 THEN PreviousHook
     ELSE pc' = "janitor" /\ UNCHANGED hook
  /\ UNCHANGED <<err, db, queue>>

JanitorStopped ==
  /\ pc = "janitor"
  /\ \/ janitor.stopped /\ UNCHANGED err
     \/ deadline = "passed" /\ Failing({"janitor"})
  /\ PreviousHook /\ UNCHANGED <<db, janitor, queue>>

StopQueue ==
  /\ pc = "stop" /\ order[hook] = "queue"
  /\ queue' = [queue EXCEPT !.closed = TRUE]
  /\ pc' = "drain" /\ UNCHANGED <<hook, err, db, janitor>>

\* Drained, or out of time; jobs nobody ran are reported.
QueueStopped ==
  /\ pc = "drain"
  /\ \/ /\ queue.worker \in {"none", "exited"}
        /\ Failing(IF queue.jobs > 0 THEN {"queue"} ELSE {})
        /\ UNCHANGED queue
     \/ /\ deadline = "passed"
        /\ Failing({"queue"})
        /\ queue' = [queue EXCEPT !.cancelled = TRUE]
  /\ PreviousHook /\ UNCHANGED <<db, janitor>>

\* A bug to look for: the hooks run in registration order.
StopHookForwards ==
  LET next == Len(order) + 1 - hook
      c    == order[IF next \in DOMAIN order THEN next ELSE 1]
  IN /\ pc = "stop" /\ hook > 0
     /\ db' = IF c = "database" THEN "closed" ELSE db
     /\ queue' = IF c = "queue" THEN [queue EXCEPT !.closed = TRUE] ELSE queue
     /\ IF c = "queue" THEN pc' = "drain" /\ UNCHANGED hook ELSE PreviousHook
     /\ UNCHANGED <<err, janitor, mode, calls, deadline, chain, http, crashed>>

\* A bug to look for: Stop gives up at the first hook that fails.
StopHookUntilError ==
  /\ hook > 0
  /\ IF err \cap Components = {}
     THEN StopDatabase \/ StopJanitor \/ JanitorStopped \/ StopQueue \/ QueueStopped
     ELSE pc = "stop" /\ hook' = 0 /\ UNCHANGED <<pc, err, db, janitor, queue>>
  /\ UNCHANGED <<mode, calls, deadline, chain, http, crashed>>

StopHook ==
  /\ hook > 0
  /\ StopDatabase \/ StopJanitor \/ JanitorStopped \/ StopQueue \/ QueueStopped
  /\ UNCHANGED <<mode, calls, deadline, chain, http, crashed>>

Stopped ==
  /\ pc = "stop" /\ hook = 0
  /\ Return(err)
  /\ UNCHANGED <<mode, calls, hook, chain, http, parts>>

Caller ==
  \/ Build \/ StartHook \/ Started
  \/ SelectError \/ SelectDone \/ Shutdown \/ Join
  \/ StopHook \/ Stopped
Calls == CallServe \/ CallStart \/ CallStop \/ Register \/ ServeHTTP

-----------------------------------------------------------------------------
(* The server: the listen goroutine and the requests *)

Listening == server \in {"opening", "listening"}

Listen ==
  /\ server = "opening" /\ ~closing
  /\ server' = "listening" /\ UNCHANGED <<closing, errCh, requests>>

\* The port is taken, or Accept fails.
ListenFails ==
  /\ Listening /\ ~closing
  /\ server' = "ended" /\ errCh' = "failed" /\ UNCHANGED <<closing, requests>>

\* Someone other than serve closes the server.
CloseElsewhere ==
  /\ Listening /\ ~closing
  /\ closing' = TRUE /\ UNCHANGED <<server, errCh, requests>>

ListenClosed ==
  /\ Listening /\ closing
  /\ server' = "ended" /\ errCh' = "closed" /\ UNCHANGED <<closing, requests>>

Request ==
  /\ server = "listening" /\ ~closing
  /\ requests' = requests \cup {calls}
  /\ UNCHANGED <<server, closing, errCh>>

RequestEnds ==
  /\ \E c \in requests : requests' = requests \ {c}
  /\ UNCHANGED <<server, closing, errCh>>

Server ==
  /\ Listen \/ ListenFails \/ CloseElsewhere \/ ListenClosed \/ Request \/ RequestEnds
  /\ UNCHANGED <<call, chain, parts>>

-----------------------------------------------------------------------------
(* The components' own goroutines *)

\* A request submits a job; a full or closed queue refuses it.
Enqueue ==
  /\ requests # {} /\ ~queue.closed /\ queue.jobs < MaxJobs
  /\ queue' = [queue EXCEPT !.jobs = @ + 1]
  /\ UNCHANGED <<db, janitor, crashed>>

\* The check of the job context, and the receive: a job may start after the cancel.
WorkerChecks ==
  /\ queue.worker = "check"
  /\ queue' = [queue EXCEPT !.worker = IF queue.cancelled THEN "exited" ELSE "receive"]
  /\ UNCHANGED <<db, janitor, crashed>>

WorkerTakes ==
  /\ queue.worker = "receive" /\ queue.jobs > 0
  /\ queue' = [queue EXCEPT !.worker = "busy", !.jobs = @ - 1]
  /\ UNCHANGED <<db, janitor, crashed>>

JobEnds ==
  /\ queue.worker = "busy"
  /\ queue' = [queue EXCEPT !.worker = "check"]
  /\ UNCHANGED <<db, janitor, crashed>>

WorkerExits ==
  /\ queue.worker = "receive" /\ queue.closed /\ queue.jobs = 0
  /\ queue' = [queue EXCEPT !.worker = "exited"]
  /\ UNCHANGED <<db, janitor, crashed>>

\* The deferred close panics when another janitor closed the channel before.
JanitorExits ==
  /\ janitor.live > 0 /\ janitor.cancelled
  /\ crashed' = janitor.stopped
  /\ janitor' = [janitor EXCEPT !.live = @ - 1, !.stopped = TRUE]
  /\ UNCHANGED <<db, queue>>

Background ==
  /\ Enqueue \/ WorkerChecks \/ WorkerTakes \/ JobEnds \/ WorkerExits \/ JanitorExits
  /\ UNCHANGED <<call, chain, http>>

DeadlinePasses ==
  /\ deadline = "running"
  /\ deadline' = "passed"
  /\ UNCHANGED <<mode, pc, calls, hook, err, chain, http, parts>>

Cancel ==
  /\ ctx = "live" /\ ctx' = "cancelled"
  /\ UNCHANGED <<call, chain, http, parts>>

-----------------------------------------------------------------------------
Next ==
  /\ ~crashed
  /\ \/ (Calls \/ Caller \/ Server \/ Background \/ DeadlinePasses) /\ UNCHANGED ctx
     \/ Cancel
  /\ UNCHANGED config

Spec == Init /\ [][Next]_vars

\* The calls proceed, timers fire and a closed listener returns; requests and
\* jobs need not end.
Fair ==
  /\ WF_vars(Caller /\ ~crashed /\ UNCHANGED <<ctx, config>>)
  /\ WF_vars(DeadlinePasses /\ ~crashed /\ UNCHANGED <<ctx, config>>)
  /\ WF_vars(ListenClosed /\ ~crashed /\ UNCHANGED <<ctx, config, call, chain, parts>>)
FairSpec == Spec /\ Fair

-----------------------------------------------------------------------------
(* Properties *)

\* Every variable keeps its type.
TypeOK ==
  /\ order \in [1..3 -> Components]
  /\ valid \in BOOLEAN
  /\ ctx \in {"live", "cancelled"}
  /\ mode \in {"none", "serve", "start", "stop"}
  /\ pc \in {"idle", "build", "start", "select", "shutdown", "join", "stop", "drain", "janitor"}
  /\ calls \in 0..MaxCalls /\ hook \in 0..4
  /\ deadline \in {"none", "running", "passed"}
  /\ err \subseteq {"argument", "ctx", "services", "build", "start", "server", "shutdown"}
               \cup Components
  /\ routes \subseteq Routes /\ mux \subseteq Routes
  /\ built \in {"no", "ok", "failed"}
  /\ server \in {"none", "opening", "listening", "ended"}
  /\ closing \in BOOLEAN /\ errCh \in {"empty", "failed", "closed"}
  /\ requests \subseteq 1..MaxCalls
  /\ db \in {"open", "closed"}
  /\ janitor \in [launches : Nat, live : Nat, cancelled : BOOLEAN, stopped : BOOLEAN]
  /\ queue \in [closed : BOOLEAN, jobs : 0..MaxJobs, cancelled : BOOLEAN,
                worker : {"none", "check", "receive", "busy", "exited"}]
  /\ crashed \in BOOLEAN

NotStarted == {"argument", "ctx", "services", "build", "start"}

\* serve and Stop report what they leave behind: a request outlives serve only
\* with a shutdown or server error, a worker or a waiting job only with an error
\* of the queue, a janitor only with its own or after a second Start.  What a
\* failed Start left running is reported as that failure.
WhatIsLeftIsReported ==
  pc = "idle" /\ mode \in {"serve", "stop"} /\ err \cap NotStarted = {} =>
    /\ mode = "serve" /\ calls \in requests => err \cap {"shutdown", "server"} # {}
    /\ queue.worker \notin {"none", "exited"} \/ queue.jobs > 0 => "queue" \in err
    /\ janitor.live > 0 => "janitor" \in err \/ janitor.launches > 1

\* Stop hooks run in reverse: a queue registered after the database, as its
\* documentation asks, runs no job on a closed pool, unless its drain ran out of
\* time and told the job to stop.
DependenciesCloseLast ==
  db = "closed" /\ queue.worker = "busy" /\ Before("database", "queue") => queue.cancelled

\* "All hooks are attempted": neither a failing hook nor a spent deadline keeps
\* Stop from the hooks after it.
NoHookSkipped ==
  pc = "idle" /\ mode \in {"serve", "stop"} /\ err \cap NotStarted = {} =>
    db = "closed" /\ queue.closed /\ janitor.cancelled

\* An application that listens serves every route it accepted: one registered
\* too late panics "instead of being silently ignored", and one that conflicts keeps
\* the application from ever listening, however often it is started.
NoRouteIgnored == Listening => mux = routes

\* Start and Stop in any order, Stop alone and Stop twice included, never kill the
\* process; only a second Start does, which launches a second janitor.
OnlyRestartCrashes == crashed => janitor.launches > 1

\* serve returns once its context is cancelled or its server has stopped, however
\* long requests and jobs take.
ServeReturns ==
  mode = "serve" /\ (ctx = "cancelled" \/ errCh # "empty") ~> pc = "idle" \/ crashed
=============================================================================
