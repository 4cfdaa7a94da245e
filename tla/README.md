# Ossein in TLA+

Ossein is a small web framework for Go. This directory holds TLA+ models of its
stateful and concurrent parts, TLC configurations that check them on small
instances, and TLAPS proofs of main properties for every instance. Paths like
`queue/queue.go` are relative to the repository's root.

Modelled: the in-process job queue, the in-memory cache and the claims made through
it, the timeout middleware, the application's lifecycle with the components that hook
into it, the migration runner, the service container and the wiring generated from it,
the way of a request through middleware, dispatch and error handling, and the
development loop. Proved: the safety of all of them.

## The system

| component | state it keeps | operations | what is hard about it |
|---|---|---|---|
| job queue, `queue/queue.go` | handler table, buffered channel, worker pool, shutdown flags, counters | Handle, Start, Enqueue, Stop, Stats | Enqueue racing Stop on a channel that gets closed; a pool that drains, retries, abandons; several Stops |
| cache driver, `cache/memory.go` | map, list in order of use, cleanup cursor | Get, Set, Add, Delete, PurgeExpired, Len | a two-lock Get; a cursor that walks a list others edit; a bound |
| claims, `cache/store.go` | none of its own: the store | Claim, Once | leases that run out during work; a release by key |
| Remember, `cache/json.go` | none of its own: the store | Remember, RememberJSON | loads racing invalidation; failures of the store |
| janitor, `cache/register.go` | a goroutine, a stop channel | start and stop hook | start or stop called twice, or out of order |
| timeout, `middleware/timeout.go` | guard: lock, committed, hijacked; outcome channel | one request | two goroutines and one response |
| response writer, `response_writer.go` | first status, bytes | WriteHeader, Write | read by another goroutine |
| application, `app.go`, `lifecycle.go` | hooks, frozen, handler | Start, Stop, serve | shutdown order, one deadline for all, hooks that fail |
| container, `container.go`, `wiring.go` | registrations, instances | Provide, Validate, Resolve | lazy concurrent construction, cycles |
| routing, `router.go`, `route.go`, `notfound.go` | routes, mux | register, dispatch | freezing, a writer that suppresses the mux's own responses |
| errors and responses, `errors.go`, `response.go` | rendering flag, committed status | WriteError, JSON, ... | one response, whichever layer fails |
| recover, access log, `middleware/` | none | one request | panics before and after the commit |
| request, `context.go`, `form.go`, `query.go`, `values.go`, `validation.go` | cached body | Body, Bind, accessors | one stream read by several helpers |
| events, `sse.go` | closed | Send, ... | a stream that outlives its handler |
| migrations, `migrate/` | metadata table, lock, runner mutex | Up, Down, Statuses | several processes, crashes, lock timeouts, two locking schemes |
| database, `database/` | none | WithinTransaction, hooks, Classify | failures at every step |
| dev loop, `internal/cli/dev.go` | child process, snapshot of files | build, run, watch, stop | edits, crashes and interrupts at any point |
| CORS, security headers, config, env files, seeds, factories, CLI, apitest | little or none | pure decisions, parsing, I/O | boundary cases |

The parts meet at few places. An `App` owns the container, the routes and two lists
of hooks; `queue.Register`, `cache.RegisterMemory` and `database.Register` add their
component to the container and to the hooks, and `App.serve` runs Start, the HTTP
server and Stop. A request goes through the response writer, then the middleware
(Recover outside Timeout), the mux and a handler; errors come back to `WriteError`.
Handlers call `Enqueue`, the cache and `Once` from request goroutines, so those
three see arbitrary interleavings, and Stop of the queue runs while requests that
outlived the server's own shutdown may still enqueue.

The properties that make each part correct:

- queue: an accepted job is never lost, duplicated or run by two workers; a failed
  one is reported exactly once; Stop never panics a submitter, never reports a clean
  drain that dropped work, and returns by its deadline.
- cache: a caller cannot tell the driver from one value per key; map, list and cursor
  stay consistent; expired entries are reclaimed; eviction takes the least recently used.
- claims: work under one key does not overlap; failed work may be retried.
- timeout: the client gets the handler's response or the timeout document, never parts of
  both; nothing touches a response net/http has taken back; neither goroutine waits for the
  other past the deadline.
- application: every stop hook runs, in an order in which dependencies close last,
  within its deadline; what is left running is reported; what listens serves every
  accepted route.
- migrations: record and schema agree after any crash; nobody acts on a stale plan; an
  Up that succeeds leaves nothing pending.
- container and wiring: a singleton is built once; what Validate accepts resolves; the
  generated code builds what the container would, and a stale file is noticed.
- request pipeline: one author per response; a failure is answered as a failure, even
  when rendering it fails; the log tells what the client got.
- dev loop: the running process is that of the last edit; none is left behind.

## The modules

| module | what it is | extends or instantiates |
|---|---|---|
| `Queue` | the queue, one action per stretch of a goroutine another can observe | `JobLedger` |
| `JobLedger` | what a queue promises: each submission moves along a ledger | |
| `QueueProofs` | the inductive invariant, the safety theorems; the queue implements the ledger | `Queue` |
| `CacheMemory` | the cache driver, one step per loop iteration under its lock | `Store` |
| `Store` | what a store promises: one value per key, each call at one instant | |
| `CacheProofs` | map, list, cursor, bound, order of use; the driver implements the store | `CacheMemory` |
| `Once` | `Claim` and `Once` over the store's promise | `Store` |
| `OnceProofs` | exclusion under a lease | `Once` |
| `Timeout` | the middleware, its guard and the response writer under it | |
| `Lifecycle` | `Start`, `Stop` and `serve`, composed with pool, janitor, queue and server | |
| `LifecycleProofs` | hooks, routes, order of closing, what is left | `Lifecycle` |
| `Migrate` | several processes that migrate one database, under both locking schemes | `MigrationLog` |
| `MigrationLog` | what a migrated database promises: schema and record move together | |
| `MigrateProofs` | nothing stale is acted on, nothing left pending; the runner implements the log | `Migrate` |
| `Container` | registration, `Validate`, resolution by several goroutines | |
| `ContainerProofs` | one instance; what `Validate` accepts has no cycle and does not deadlock; the generated file builds what the container builds, and a stale one is noticed | `Container`, `Wiring` |
| `Wiring` | the generator and its fingerprint, beside the container | `Container` |
| `Pipeline` | one request on a goroutine's call stack | |
| `PipelineProofs` | one author, failures, log and headers | `Pipeline` |
| `DevLoop` | the loop, and the editor, compiler, server process and user around it | |
| `SelectProofs` | the timeout: one response, nothing written after the return; the dev loop: no server left behind, no edit missed | `Timeout`, `DevLoop` |
| `MCQueue`, `MCCacheMemory`, `MCOnce`, `MCMigrate`, `MCWiring`, `MCPipeline`, `MCDevLoop` | instances for TLC | the module they are named after |

`Once` is checked over `Store`, and `CacheMemory` is shown to implement `Store`
(with `Evicting` exactly when the driver has a bound): the claims hold of the driver
through the contract, without a product of the two. `Lifecycle` has a queue with one
worker and one attempt, enough to see what shutdown does to it; what happens inside is
`Queue`'s matter.

Definitions headed "A bug to look for" are variants of the definition below them.
No specification uses them; putting one in the place of the original shows that a
property would notice that bug.

### Queue

`closeMu` is the heart of it. Enqueue and Start check `closed` and act under the read
side; Stop sets it and closes the channel under the write side. The module makes the
check (`EnqueueLock`) and the send (`EnqueueSend`) two steps, and so for Start, and
`StopClose` waits for `HasReader` to be false. A writer that waits keeps new readers
out, as `sync.RWMutex` does (`WriterWaiting`). `sync.Once` in Stop lets one caller
through (`StopBegin`, `StopLock`, `StopClose`) and holds the others until it is done
(`StopJoin`). A worker goes `check` (the test of `jobCtx`), `receive`, `running`,
perhaps `backoff` and `running` again, perhaps `report`, and back. Handle's check of
`started` and its write are two steps because the code takes no lock over both.

Time is not modelled: a timer or a deadline may fire at any moment, and `select` with
two branches ready takes either. A handler may return nil, fail (a panic becomes an
error in `invoke`) or hang. One that ends its goroutine with `runtime.Goexit` is left
out. The counters of Stats are modelled, Stats itself is a read. Each submission is a
distinct job offered once, so the state space is finite without another bound.

`JobLedger` is the queue with everything internal removed: a job is offered, then
refused or waiting, then running, then in one fate; the number waiting is bounded by
the buffer, the number running by the workers; nothing is accepted once closed; and a
clean shutdown is reported only when nothing is unresolved. `Ledger` in `Queue` gives
the refinement mapping.

### Cache

A call that takes the exclusive lock is modelled as a run of steps under it (`mu`
holds the call and its loop counter), so the order inside `purgeSampleLocked`,
`evictLocked` and `purgeExpiredLocked` is checked iteration by iteration. The list is a
sequence of keys, the cursor a key or `Nil`. `GetRead` and `GetUpgrade` are the two
halves of an unbounded Get, between which anything may happen. A leased entry expires
at any moment no call holds the lock, since each critical section reads the clock once.

`Store` says what callers may rely on: each key holds one value or none, and every
call takes effect at one instant. `ImplementsStore` shows that the two-step Get, the
samples and the list are invisible from outside; the history variable `older`, the
order of use, exists only to state `ListInOrderOfUse`.

`Once` models what callers do with a lease: take it, work, and release it on failure.
`owner` (whose claim a key holds), `kept` (claims that outlive their call) and `lapsed`
(keys whose lease ran out during work) are history. Work that panics goes through Once
without releasing, like work that succeeds. A release may fail.

### Timeout

The request goroutine and the handler goroutine are `request` and `handler`; `done` is
the buffered channel between them, `mu`, `committed` and `hijacked` are the guard.
`HandlerWriteHeader` and `HandlerWrite` take the lock, check, and keep it until the inner
call returns (`InnerWrite`), which a client that takes nothing can hold up for ever.
`Expire` takes the lock and `Render` writes the 504 under it. Writers are known by
author, `status` is what `ResponseWriter` recorded, and `sent`, `body` and `conn` stand
for net/http below it (external): the first status wins, and nothing is sent on a
connection the handler took over. Flush and Hijack reach net/http past the guard, as
`Unwrap` lets them; a flush before the first write sends a 200 that neither guard nor
`ResponseWriter` knows of (`"flushed"`). The application's error handler is taken to be the
default one. A Flush or Hijack after `ServeHTTP` returned is net/http's own undefined
territory and is left out.

`OneResponse` says which parts may come together, for every way the status line was sent.
`NeitherWaits` is the liveness of both goroutines: once the deadline passed the request
ends, unless some write to the client never returns (`Writing`), and a handler that ended
never hangs on its outcome.

### Lifecycle

One goroutine owns the application and makes calls (`CallServe`, `CallStart`,
`CallStop`, `Register`, `ServeHTTP`); `pc` is where the call stands. `Build` is
`Validate` and `buildHandler` with its `sync.Once`: `built` is that `Once` together with
`buildErr`, `mux` what `registerRoutes` got into the ServeMux before a conflict. The
hooks are those the repository itself registers, in any order (`order`): the ping and
the close of `database.Register`, the goroutine and the wait of the janitor in
`cache/register.go`, start and drain of the queue. Start runs them forwards and stops at
the first failure; Stop runs all of them backwards under one deadline, which may pass
at any moment. `serve` selects between its `errCh` and the cancelled context
(`SelectError`, `SelectDone`), shuts the server down, joins its listen goroutine and
stops. The server is external: it opens, listens, fails or is closed, and has requests
in flight, which may enqueue jobs and never end. The worker of the queue checks the job
context and receives in two steps, as in `Queue`. A second launch of the janitor closes
a closed channel: `crashed`.

### Migrations

A `Runner` is one process: its mutex serializes the calls. `dialect` says whether the
lock belongs to the session for the whole call (PostgreSQL, MySQL) or to the transaction
of each version (SQLite); the actions are the same and `Commit` differs. `lock` may be
`"orphan"`: granted to a session whose process is dead, has given up waiting, or failed
to unlock; only the database ends that (`SessionEnds`). `Read` is `applied`, `Decide` the
choice of the next version with the checks for renamed and missing migrations, `Execute`
the statements and the row in a transaction, `Commit` its commit. Any step may fail,
a commit may take effect although its reply is lost, and a process may die at any
point, with the commit it sent or without it. What a directory holds is data with the
shape `LoadFS` checks; a directory that is not `Usable` ends the call.

`MigrationLog` is the database with the processes removed: a version is applied when it
is not recorded, the highest recorded one is rolled back, and schema and record change
in one step. The highest one is what the code takes; its comment and the documentation say
another thing (gap 10).

### Container and wiring

A registration is a record of key, package, constructor, inputs and lifetime. `Validate`
is the colouring walk over a snapshot (`walk`); it reads nothing else, so it does not
interleave with resolutions. A resolution is a stack of builds: `BeginSingleton` takes the
mutex of the registration and, when there is no instance, keeps it until the frame
ends, as the deferred unlock does; `Refuse` is the error for a missing service or one
that this goroutine is already building. Two goroutines that enter a cycle from two
ends do deadlock in the model as in the code; `ResolveReturns` says that this needs a
graph Validate has not accepted.

`Wiring` collects names in key order, orders the singletons, and generates a program, a
record of imports, parameters, calls and factories. `Wired` and `New` evaluate that
program with Go's rules: a name bound twice, or not yet, does not compile, and a variable
in scope hides the package of its name (`Made`). `Term` is what the container builds, and
`BuildsTheSame` compares the two for every service. The generator keeps variables apart
from variables and packages from packages, not the ones from the others, so a file may not
compile: that is `WrittenFileCompiles`, the second finding. `WiredLikeContainer` is about the
files whose names are `KeptApart`, whatever suffixes that took.
`Visit` is the recursive closure of `collect` as a function: what a visit of a service does
to a traversal, `Mark` first and `Emit` when the inputs are done. Validate leaves no cycle,
so the function exists; that it does is part of what is proved.
`Fingerprint` is the part of the registrations the generator hashes.

### Request pipeline

One goroutine, whose call stack is `stack` and whose way of unwinding is `mode`: a call,
a return, a panic, or the panic with `http.ErrAbortHandler`. Each layer is an action:
request context, access log, CORS, security headers, an application's own middleware
that calls `WriteError` (`Auth`), `Recover` with `respondInternalError`, dispatch with its
watcher of misses, handlers, and the error handler, which may render, delegate back to
`WriteError`, or panic. What application code does at each point is free, up to `MaxOps`
operations on the response. The response is kept twice: `tracked` is what
`ResponseWriter` believes, `status`, `by`, `body` and `sent` what net/http (external) does. They
disagree after a flush before the first write, an informational status, or an error
with a status that is none of HTTP's; `astray` remembers it. Three of the properties
hold only until then, and say so with `Trusted`.

### Development loop

`disk` has a version number per file, which every save makes new. The walk over the
sources and the compiler read file by file, with edits in between. `stopProcess`
interrupts, kills after a grace period, and waits (`BeginStop`, `KillTimeout`, `Reap`).
An edit falls anywhere: before the snapshot, between the snapshot and the compiler's
read, while the server stops. `Watched` is what `watchedDevFile` and
`ignoredDevDirectory` let through.

## The runs

| run | what it asks | bounds | distinct states |
|---|---|---|---|
| `queue` | no interleaving loses, duplicates or misreports a job; the queue implements the ledger; Stop returns, the pool drains, accepted jobs resolve | 2 jobs, 2 names, 2 workers, 2 Stops, buffer 1, 2 attempts | 279,410 |
| `cache_unbounded` | the driver implements the store; expired entries are reclaimed | 3 keys, 1 caller, sample 2, no bound | 705,341 |
| `cache_bounded` | map, list, cursor, bound and order of use | 4 keys, 1 caller, sample 2, bound 3 | 214,142 (with symmetry) |
| `once` | work overlaps only after a lease ran out | 2 keys, 3 callers | 2,079 (with symmetry) |
| `timeout` | one response, nothing after the return, nobody waits past the deadline | one request | 996 |
| `lifecycle` | every hook runs, dependencies close last, what is left is reported, serve returns | 3 components in every order, 2 calls, 2 routes, a queue of 1 | 374,133 |
| `migrate` | the log is implemented, plans are current, calls return | 2 processes, 4 directories, limits 0 and 1, 3 calls, 1 crash, both locks | 563,644 |
| `services` | one instance per singleton, validated graphs resolve, wiring equals container | 3 types, 9 registrations, 2 goroutines | 143,992 |
| `pipeline` | one author, failures answered, the log is right, headers on every answer | 4 orders of middleware, 3 statuses, 5 error statuses, 2 operations | 2,390,592 |
| `devloop` | no server left behind, no edit lost, ^C ends the session | 4 files, 2 of them watched, 3 edits | 156,693 |
| `timeout_dropped` | finding: dropped output answered with an empty 200 | one request | |
| `wiring_hidden` | finding: a variable hides a package in a generated file | as `services` | |

Why these bounds are enough for the interesting cases.

- Queue: two jobs and a buffer of one make the channel full and empty, and refuse, drain
  and abandon; two workers make one idle, or late, while the other retries; two attempts
  make a first, a last and a retry; two names let one be registered late; two Stops make a
  second caller wait for, or expire beside, the first. `Delayed = {1}` makes the only
  backoff a real wait; the other value, no wait at all, is `WorkerWake` on its own.
- Cache: three keys and a sample of two make a sample shorter than the list, one as
  long, and a wrap round its end; with one key more than the bound, an insertion of a
  new key evicts. Callers differ only in `upgrading` and `answer`, and one caller's
  two-step Get races `Set`, `Delete` and the clock, which have no caller.
- Once: three callers are what it takes for the late release of the first to let the
  third in beside the second. Timeout has one request and no parameters.
- Lifecycle: two calls give every pair, Start after Start, Stop after a failed Start,
  Serve after Stop, and a request of the first server that outlives it into the second
  call; a queue with one waiting job and one running is full and busy.
- Migrate: two processes and three calls make one process run twice around the other's
  call. The directories have a version added late below an applied one, a renamed version
  and an unpaired file. One crash is enough to leave the lock and the commit in doubt; a
  lost reply needs none.
- Services: among the nine registrations are a cycle, a missing input, a diamond, a
  transient under a singleton, one needed twice by a constructor, a constructor that may
  fail, a closure, two names that lower to one variable, two packages with one base name
  and one with the name of a variable.
- Pipeline: the orders have Recover outside and inside the access log, innermost, and
  absent. Two operations are what it takes to commit and then go on; the error statuses
  have unset, ordinary and impossible ones.
- Dev loop: three edits put one before the snapshot, one into the build and one into
  the restart, or create and delete a file twice over. The two files that are not watched
  show that their edits restart nothing.

Deadlock is checked in the runs of the cache and of the claims, where some call is
always possible. It is not checked (`CHECK_DEADLOCK FALSE`) where the system does stop:
a drained queue, a finished request, an application or a migration whose calls are used
up, a dev session that returned, and a container in which goroutines wait in a cycle
Validate never saw. Symmetry is used only in runs without liveness properties.

### Fairness

- Queue, `Fair`: a goroutine that can take its next step takes it. That covers locks
  being granted, sends, receives, the drain and abandonment. Nothing says that callers
  call, that handlers return, that timers fire or that a Stop has a deadline. A
  property that needs one of these says so: `HandlersReturn`, `TimersFire` and
  `DeadlinesFire` stand on the left of its implication (`App.serve` gives Stop a
  deadline; a handler is application code).
- Cache, `Unlocking`: the holder of the lock goes on. `Traffic`: someone keeps calling
  Set, with any keys, and is let in (`sync.RWMutex` blocks new readers for a waiting
  writer, hence strong fairness). Reclamation without traffic is the janitor's job.
- Timeout, `Fair`: both goroutines are scheduled, and the lock comes to `Expire` in the
  end although the handler takes it again and again (strong fairness: `sync.Mutex` hands
  over to a waiter after a millisecond). The handler need not end, no write to the client
  need return, neither a handler's nor that of the 504, and neither the deadline nor the
  client need do anything.
- Lifecycle, `Fair`: the calls proceed, timers fire, and the listen goroutine of a closed
  server returns, as `serve` relies on. Requests and jobs need not end.
- Migrate, `Fair`: a call takes its next step. Nothing in it waits without a deadline:
  the wait for the lock ends with `ErrLockTimeout` or the caller's context, everything
  else is a statement that succeeds or fails. An orphaned session need not end.
- Container, `Fair`: goroutines run. Taking a mutex is strongly fair (`BeginSingleton`):
  it is enabled again and again while others hold it in turn, and `sync.Mutex` hands over to a
  waiter after a millisecond. Constructors return.
- Dev loop: the loop runs, tickers and timers fire, and a killed process dies. Go's select
  picks among ready cases at random, so one that is ready at every turn is taken in the
  end (strong fairness of `SelectCancelled`, `WaitDone`, `SelectExited`). That `command.Wait`
  returns assumes that nothing the server started keeps its output open. The editor, the
  user and a server that ignores the interrupt owe nothing.
- The remaining runs state no liveness.

### The findings

`timeout_dropped`. Past the deadline, a handler that returns makes both branches of
`select` ready. If `done` is taken, its output was dropped, nothing is rendered, and the
client gets an empty 200, where the comments promise a 504 and say that the outcome
does not depend on that race (`middleware/timeout.go:16`, `:22`).

`wiring_hidden`. `uniqueVarName` keeps variables apart from variables and keywords, and
`importAlias` packages from packages. A service `Log` gets the variable `log`; a singleton
from a package `log` that is built after it is then `log.NewApp(...)`, where `log` is the
variable, and the file does not compile. A factory whose constructor takes one transient
twice declares its variable twice (`wiring.go:358`), to the same end. `wiring.go:143-147`
describes such a file, "code the generator reports as written and the compiler then
rejects", and says "Uniqueness is enforced here rather than hoped for"; `:32` promises
that what cannot be expressed is reported "instead of guessing".

### Known gaps

Found while modelling. The models contain the first group's behaviour, so that the
properties say what remains true; the second group is outside the models.

In the models:

1. A job may start after an expired Stop cancelled the job context: `run` tests `jobCtx`
   and then receives (`queue/queue.go:489`, `:492`). The comment on Stop says "no worker
   starts another job" (`:425`), and the one in `run` that "a plain check keeps 'stop
   starting work' from racing with a ready job" (`:488`). `LateStartsBounded` is what is
   true: one job per worker.
2. A Handle that passed its check before Start stores its name after Start copied the
   table (`queue/queue.go:316`). The worker's branch for a job without handler, of which
   `:505` says "the in-process queue cannot reach this", is reached; the job is reported as
   failed, so nothing is lost.
3. In a bounded cache a hit moves its entry behind the cursor and visits nothing. When
   the hits between two writes promote as many entries as a sample visits, an expired
   entry at the front outlives any amount of traffic (`cache/memory.go:204`, `:250`), where
   `docs/CACHE.md:42` says every resident key is visited. The janitor, or eviction, gets it.
4. Once releases by key: work that fails after its lease ran out releases the claim of
   the next holder, and a third caller starts beside it (`cache/store.go:156`).
5. The lock of a migration may stay with a pooled session that failed to unlock; others
   time out until the database drops it (`migrate/runner.go`, `ReleaseFails`).
6. `ResponseWriter` takes an informational or an impossible status for the response's own
   and misses a flush before the first write. `Written` is then wrong, and a request that
   fails afterwards may be answered 200 (`response_writer.go`).
7. In the dev loop, a file created after the snapshot, compiled, and deleted before the
   next poll leaves equal snapshots (`CreatedAndDeleted`), and a file that vanishes during
   a walk ends the session (`WalkFails`).
8. A second Start of an application launches a second janitor, and stopping then panics
   (`OnlyRestartCrashes`).
9. Flush reaches net/http past the timeout's guard (`middleware/timeout.go:178`). When a
   handler flushes before it writes, `committed` is still false: past the deadline the timeout
   document is appended to the 200 the flush sent, where `:28` promises that "a streaming
   handler that overruns keeps what the client received rather than having a timeout
   document appended to it". `OneResponse` excepts this status line, `"flushed"`. Hijack
   sets `hijacked` only after the connection has changed hands (`:192`).
10. `Down` rolls back the highest recorded version (`migrate/runner.go:184`, `sqlite.go:110`).
    The comment on it says "Down rolls back the most recently applied migrations"
    (`runner.go:151`) and `docs/MIGRATIONS.md:97` "Roll back the most recently applied
    migration": with a lower version applied late, as a directory of the run has it, they
    are not the same. `ImplementsLog` says what the code does.
11. A write to a client that takes nothing holds the timeout's guard (`middleware/timeout.go:165`),
    and `expire` waits for it past the deadline (`:213`), where `:16` says "Timeout bounds how
    long a request may take". `DeadlineHonoured` excepts it; a write timeout of the server
    ends it.

Outside the models:

1. A panic delivered just before the deadline is neither raised again nor logged when
   `select` takes `ctx.Done()` (`middleware/timeout.go:60`).
2. A handler that calls `runtime.Goexit` ends its worker and leaves its job unsettled
   (`queue/queue.go:572`). Stats is five separate reads (`:470`).
3. A variable of generated wiring may also hide the receiver `s`, `err`, or a built-in the
   file uses, a singleton of a type `NewX` beside a transient `X` gives a field and a method
   of one name, and a variable may hide the package of a type. `KeptApart` leaves the names
   of the first kind out (`Own`); the others are not looked at.
4. A route registered while the handler is being built may be accepted and dropped: the
   check of `frozen` and the append are two steps (`app.go:215`).
5. MySQL commits DDL implicitly, so a failed migration may stay half applied there.
6. The dev loop does not see an edit that keeps size and modification time, nor embedded
   files of an unwatched kind; a grandchild that keeps the output open blocks `command.Wait`.
7. A load of `Remember` that began before an invalidation stores its old value after it,
   for a whole lifetime (`cache/json.go:156`).

## What is proved

Every theorem holds for all values of the constants that satisfy the named assumption
of its module. No theorem rests on anything unproved.

`QueueProofs`, from `QueueAssumption` (finite jobs and workers, a positive buffer and
attempt bound): types, `NoSendOnClosedChannel`, `OnePlace`, `CountersAgree`,
`FateJustified`, `CleanStopMeansDone`, `ReportedOnce`, `CancelAfterClose` and
`LateStartsBounded`. None is inductive alone. `IInv` joins them with

- `Locks`: while a submission is at its send, or Start at its launch, the queue is open.
  This is what the read lock buys, and `NoSendOnClosedChannel` follows.
- `Phases`: shutdown before closed before finished or cancelled; no worker before Start;
  all workers gone after finished.
- `Hands`: a worker holds a job exactly while it runs, waits or reports; the job's runs
  are the worker's attempt.
- `Records`: a job nobody took never ran, a settled job nobody holds was reported unless
  it was processed.
- `Lateness`: a worker that has had a job in hand since the cancel does not come back to the
  receive.

The proof has one step per action and, under it, one per conjunct the action disturbs;
`Undisturbed` settles the rest. `CountersAgree` needs cardinalities and is proved on
top of `IInv`. The last part proves `Spec => ImplementsLedger`: each action moves one
job's `Standing`, or the phase, or nothing, and the capacity guards of the ledger
follow from `OnePlace` (distinct jobs in the channel, one per worker).
`DrainEnds` is the safety half of `DrainCompletes`, for any `MaxAttempts`: after the close
the channel only shortens, and between two receives each step of a worker lowers its
`Rank`, a bound on the steps it has left until the next.

`OnceProofs`, from `OnceAssumption`: `NoOverlap` and `FailureReleases`, for a store
that evicts or not. The invariant says that on a key no lease ran out on there is at
most one call, and the claim in place is its own.

`CacheProofs`, from `CacheAssumption` (a sample of at least one, a bound or none):
`TypeOK`, `ListMatchesMap`, `CursorInList`, `SampleHasElement`, `WithinBound`,
`ListInOrderOfUse`, `LiveValuesKept` and `Spec => ImplementsStore`. The list is
described by two operators, `ListOf` (one element per resident key) and `Ordered`, and
three lemmas say what a removal, a push and a use do to them, so that no proof about an
action touches an index. `Budget` says that only a write that has yet to evict is over
the bound, and `Replies` that a call under the lock acts on what it saw: a Get that
will answer "hit" has a live key, an Add that will store has a free one. The refinement
shows that the steps in `Hidden` change nothing a caller can see.

`MigrateProofs`, from `MigrateAssumption`: `TypeOK` (with the lock held by exactly the
runner past `Acquire`), `PlanIsCurrent` and `Spec => ImplementsLog`, for any number of
processes, directories, calls and crashes. `IInv` adds `Loaded` (a call that reached the
database has a usable directory) and `InHand` (the migration in hand is one the log may
take next). That only one runner is in its transaction (`LockExcludes`) is why a change
by one leaves the plans of the others alone; two lemmas, one for the steps that leave the
database as it is and one for a commit that took effect, carry all ten actions. The
refinement then needs only that a commit is `Apply` or `Rollback`.
`NothingPending` is `UpLeavesNothingPending`. What it needs is `Complete`: an Up without a
limit that is about to let go of the lock with success has all its migrations recorded, and
others leave the record alone until it does. In SQLite the last commit is the end of such a
call, and what it decided in that transaction is enough (`EndComplete`).

`LifecycleProofs`, from `LifecycleAssumption` (the two bounds are numbers): `TypeOK`,
`WhatIsLeftIsReported`, `DependenciesCloseLast`, `NoHookSkipped`, `NoRouteIgnored` and
`OnlyRestartCrashes`, for any number of calls and any buffer. None but the last is
inductive. `HooksDone` is the invariant of the loop in Stop: every hook it has passed has
closed its component (`Closed`), and the error it will return names what that component
left running (`Told`). `Returned` carries this over the return, where later requests and
jobs must not undo it: `ServerEnds` says that a server told to close takes none. `Routed`
ties the mux to the accepted routes, `Launches` counts the janitors, and `PoolLast` says
that the pool goes after what was registered behind it. `NoWaitForNothing` is the safety
half of `ServeReturns`: `EveryWaitEnds` says of each place where serve or Stop waits that
what it waits for was sent or has a sender, or that a deadline is set.

`ContainerProofs`, from `ContainerAssumption` (registrations have services as key and
inputs): `TypeOK`, with each mutex held by exactly the goroutine that builds its singleton;
`OneInstance`; `OwnMutexRefused`, that resolve never waits for a mutex its own goroutine
holds, whatever is registered; and two results about `Validate`.

- `ValidatedGraph`: the services Validate accepted are registered, complete and without a
  cycle, now and after any later registration. `Settled` says "without a cycle" by sets:
  of any of them, one takes nothing of the rest. The proof is that of depth-first search:
  a service turns `"done"` when its inputs are (`Ordered`: the inputs before the one at
  which the path stands are done), and `Settle` adds it.
- `NoDeadlock`: goroutines that build services Validate accepted never wait for one
  another's mutexes in a circle, be they two or any number. Each service on a stack is an
  input of the one before it (`Chained`), so the services such a circle builds would be a set
  in which each takes another: what `Settled` excludes. It is the safety behind
  `ResolveReturns`. Without the premise it is false: two goroutines that enter a cycle from
  two ends are the counterexample TLC gives.

These three are about `Container!Spec`, one process. `SingleInstanceOfEach` and
`NoDeadlockOfEach` carry the last two over to `WiringSpec`, where processes follow one
another: every step of it is one of the container, or leaves it alone, or is a `Boot`, after
which the container is as at the start (`BootIsInit`).

The last two are about the generator, from `WiringAssumption`: a registration is its six
attributes; `Instance` registers singletons (`container.go:103`); all services have a place
in the order of the keys; package and type names lower to names, which are sequences; the
keywords are finitely many. Any two names may lower to the same, or to a keyword.

`StaleFile` is `StaleFileNoticed`. `FileInv` says that the program in a file is that of the
registrations behind it, and so is the fingerprint; `FingerprintOf` that two graphs with one
fingerprint are the same graph, so that the programs are equal whatever the generator does. It
needs every attribute: without what a constructor returns (`FingerprintWithoutArity`) the
lemma is false, and the run shows the file that goes unnoticed.

`WiredRight` is `WiredLikeContainer`, for every graph that Validate accepts and the
generator does not refuse (`Generated`; `FileSound` says that a file comes from nothing
else), under the hypothesis the property has: the names it ends up with are `KeptApart`, no
variable and package the same, none one of the file's own, and no constructor takes one
transient twice. Without it the statement is false, as `wiring_hidden` shows. The generator is loops and recursions over such a graph, so the proof is by two
inductions, each over a set and not over an operator, which the provers could not take:
`UpTo` along the steps of a loop, and `Settling` over the graph: what holds of no service,
and of a service when it holds of its inputs, holds of all, since a settled set always has
one more service whose inputs are done.

- `Settling` first gives that the recursive functions exist: `VisitOf`, `TermOf`, `NewOf`
  build each of them one service at a time. `Traversed` does the same for loops.
- Names: `UniqueIsFresh` says that the suffix `uniqueVarName` looks for exists, a free one
  being among one more candidates than there are names taken, and `NamedApart` carries it
  along the loop: no two services, and no two packages, have one name (`NamesOf`).
- Order: `InOrder` is the invariant of the closure. Its `O` are the services under way,
  marked but not emitted; since there is no cycle no visit of an input comes back to
  them (`VisitingVisits`), so that whatever was visited and is not under way was emitted, once
  and behind what it needs. `OrderOf` is the result for the whole run.
- `WiredOf` runs the generated `Wire`: after n calls its variables hold the terms of the
  instances handed in and of the first n singletons of the order. `ReadOf` and `NewOf` read
  the fields and run the factories, in whose scope no variable hides a package;
  `DeclaredOnce` says that no variable is declared twice.

`PipelineProofs`, from `PipelineAssumption`: `TypeOK`, `OneAuthor`, `NoRenderingLoop`,
`LogMatchesAnswer`, `FailureIsAnswered` and `HeadersOnEveryAnswer`, for any order of the
middleware, any statuses and any number of operations. `Core` is the inductive part: the
stack grows along the chain and ends in at most three frames that are not middleware
(`WellFormed`); what the frame on top may count on when it is called (`Control`); the
recorder agrees with the response (`Recorded`); a handler works on a response that is its own
or nobody's (`Handling`). On top of it stand `Logged` for the access log, `Panics` and
`Pending` for failures (one that nobody answered is on its way to who will), and `Layers`
for the headers. Two theorems have a hypothesis on the application, which the constants
of the run satisfy: `FailuresAnswered` takes `ErrorsFail`, no error with a final status
below 400; `HeadersEverywhere` takes `HeadersFirst`, CORS and security headers
registered, and before a middleware that refuses requests. Without them the code does what
it is told: an error with status 200 is answered 200, and who answers first sends no
headers of those behind it.

`SelectProofs` has the two components that are one goroutine around a `select`; they share
no state, and `DevLoop` names its specification `DevSpec` so that one module can hold both.
For `Timeout` it proves `TypeOK`, `OneResponse` and `NoWriteAfterReturn`. The invariant ties
what is on the wire to the status `ResponseWriter` recorded (`Authorship`), and says
that a request is over only when its handler ended or its deadline passed (`Progress`);
after that, either nobody writes or everything is dropped. `NoOutcomeLost` is the safety half
of `NeitherWaits`: what became of a handler is kept until the select takes it, and the
channel has room for it when nobody does.

For `DevLoop`, from `DevLoopAssumption` (the bound on edits is a number): `DevTypeOK`,
`NoServerLeftBehind` and `EditsShow`, for any files and any number of edits. `EditsShow`
is the safety half of `SessionSettles`: when the sources look as in the snapshot polls are
compared with, the last build is of what is on disk, so an edit during a build is always
a difference the next quiet poll sees. The only exception is `CreatedAndDeleted`. The
invariant is `BuiltAsSeen`: a file that is as in the snapshot was built as it is, because
the build read it after the snapshot and a version does not come back. A snapshot taken after
the build (`BaselineAfterBuild`) breaks it.

The invariants above were checked by TLC on the instances of the runs, or smaller ones,
before they were proved.

Only model-checked: liveness, which is beyond the prover. The properties are `StopReturns`,
`DrainCompletes`, `AcceptedResolves`, `ExpiredReclaimed`, `NeitherWaits`, `ServeReturns`,
`CallReturns`, `ResolveReturns` and `SessionSettles`. The safety they rest on is proved for
`DrainCompletes` (`DrainEnds`), `NeitherWaits` (`NoOutcomeLost`), `ServeReturns`
(`NoWaitForNothing`), `ResolveReturns` (`NoDeadlock`) and `SessionSettles` (`NoEditMissed`).

## Not modelled

- Text: error messages, log lines, templates, the contents of headers.
- Parsers and accessors (`form.go`, `query.go`, `values.go`, `config.go`,
  `envfile.go`, the classification in `database/errors.go`): pure functions of their input.
- `Remember`: one Get, one load and one Set without a lock between them, each a call of
  the modelled store.
- `database/transaction.go`: one goroutine and one branch per outcome.
- Seeds, factories and the command line: loops, a counter, I/O.
- The framing and the closed flag of event streams, and reading and binding of bodies;
  `Pipeline` has only their effect on the response.
- The data race of an event stream that outlives its handler, and of a Flush past the
  end of a request: undefined in net/http itself.
- `apitest/` and `examples/`: clients of the framework.

## Plan

1. Done, with proofs: queue and ledger; cache, store and claims; timeout and pipeline;
   lifecycle; migrations; container and wiring; dev loop.
2. `Remember` over `Store`, and the closed flag of event streams in `Pipeline`.
