-------------------------------- MODULE Queue --------------------------------
(***************************************************************************)
(* The in-process job queue, src/queue/queue.go: registration racing       *)
(* Start, submissions racing Stop, the worker pool with its retries, and   *)
(* the drain.  Every action is what one goroutine does between two points  *)
(* where another goroutine can observe it.                                 *)
(*                                                                         *)
(* Abstracted: payloads, request IDs and loggers; the length of a delay    *)
(* (a timer may fire at any time); panics in a handler, which invoke turns *)
(* into an error; panics in the failure callback, which are recovered.     *)
(***************************************************************************)
EXTENDS Naturals, Sequences, FiniteSets

CONSTANTS
  Names,        (* job names a handler may be registered under          *)
  Jobs,         (* submissions, each one call of Enqueue                *)
  NameOf,       (* NameOf[j]: the Name field of job j                   *)
  Workers,      (* the workers settings.workers asks for                *)
  Stoppers,     (* calls of Stop                                        *)
  Buffer,       (* settings.buffer                                      *)
  MaxAttempts,  (* settings.maxAttempts                                 *)
  Delayed,      (* attempts after which settings.backoff is positive    *)
  Nil           (* no job in hand                                       *)

ASSUME QueueAssumption ==
  /\ IsFiniteSet(Jobs) /\ IsFiniteSet(Workers)
  /\ NameOf \in [Jobs -> Names]
  /\ Buffer \in Nat \ {0}
  /\ MaxAttempts \in Nat \ {0}
  /\ Delayed \subseteq Nat
  /\ Nil \notin Jobs

VARIABLES
  handlers,     (* Memory.handlers: the names registered so far         *)
  handle,       (* handle[n]: where a call of Handle(n) stands          *)
  start,        (* where Start stands; started is start # "idle"        *)
  snapshot,     (* the clone of handlers the workers dispatch on        *)
  enqueue,      (* enqueue[j]: where the call of Enqueue(j) stands      *)
  jobs,         (* Memory.jobs, a buffered channel                      *)
  shutdown,     (* Memory.shutdown is closed                            *)
  closed,       (* Memory.closed; Memory.jobs is closed in that step    *)
  finished,     (* Memory.finished is closed                            *)
  cancelled,    (* jobCtx is cancelled                                  *)
  stop,         (* stop[s]: where a call of Stop stands                 *)
  worker,       (* worker[w]: where the loop of run stands              *)
  inHand,       (* inHand[w]: the job w is processing                   *)
  attempt,      (* attempt[w]: the attempt it is on                     *)
  processed, failed, abandoned, refused,  (* the counters of Stats      *)
  runs,         (* history: runs[j] counts invocations of j's handler   *)
  fate,         (* history: fate[j] is the way process ended j          *)
  reports,      (* history: reports[j] counts failure callbacks for j   *)
  late          (* history: late[w] counts jobs in w's hands since cancel *)

callers   == <<handle, start, snapshot, handlers>>
admission == <<enqueue, refused>>
closing   == <<shutdown, closed, finished, cancelled, stop>>
pool      == <<worker, inHand, attempt>>
counters  == <<processed, failed, abandoned>>
history   == <<runs, fate, reports, late>>

vars == <<callers, admission, jobs, closing, pool, counters, history>>

Fates == {"processed", "failed", "abandoned"}
Busy  == {"running", "backoff"}

Init ==
  /\ handlers = {} /\ handle = [n \in Names |-> "idle"]
  /\ start = "idle" /\ snapshot = {}
  /\ enqueue = [j \in Jobs |-> "idle"] /\ refused = 0
  /\ jobs = <<>>
  /\ shutdown = FALSE /\ closed = FALSE /\ finished = FALSE /\ cancelled = FALSE
  /\ stop = [s \in Stoppers |-> "idle"]
  /\ worker = [w \in Workers |-> "none"]
  /\ inHand = [w \in Workers |-> Nil] /\ attempt = [w \in Workers |-> 0]
  /\ processed = 0 /\ failed = 0 /\ abandoned = 0
  /\ runs = [j \in Jobs |-> 0] /\ fate = [j \in Jobs |-> "none"]
  /\ reports = [j \in Jobs |-> 0] /\ late = [w \in Workers |-> 0]

-----------------------------------------------------------------------------
(* Handle reads started before it takes handlersMu.  A call that panics    *)
(* (after Start, or on a duplicate name) leaves the queue as it was.       *)

HandleCheck(n) ==
  /\ handle[n] = "idle"
  /\ start = "idle"
  /\ handle' = [handle EXCEPT ![n] = "checked"]
  /\ UNCHANGED <<start, snapshot, handlers, admission, jobs, closing, pool, counters, history>>

HandleStore(n) ==
  /\ handle[n] = "checked"
  /\ handle' = [handle EXCEPT ![n] = "idle"]
  /\ handlers' = handlers \cup {n}
  /\ UNCHANGED <<start, snapshot, admission, jobs, closing, pool, counters, history>>

-----------------------------------------------------------------------------
(* closeMu: Start and Enqueue hold the read side, Stop takes the write     *)
(* side; a writer waiting for readers keeps new readers out.               *)

HasReader     == start = "claimed" \/ \E j \in Jobs : enqueue[j] = "sending"
WriterWaiting == \E s \in Stoppers : stop[s] = "locking"

\* Start up to the compare-and-swap on started.  A call on a closed or a
\* started queue returns and changes nothing.
StartClaim ==
  /\ ~WriterWaiting
  /\ ~closed
  /\ start = "idle"
  /\ start' = "claimed"
  /\ UNCHANGED <<handle, snapshot, handlers, admission, jobs, closing, pool, counters, history>>

\* The rest of Start: clone the table, add and launch the workers, unlock.
StartSpawn ==
  /\ start = "claimed"
  /\ start' = "spawned"
  /\ snapshot' = handlers
  /\ worker' = [w \in Workers |-> "check"]
  /\ UNCHANGED <<handle, handlers, admission, jobs, closing, inHand, attempt, counters, history>>

-----------------------------------------------------------------------------
(* Enqueue *)

\* The context was cancelled, or no handler has the job's name.
EnqueueReject(j) ==
  /\ enqueue[j] = "idle"
  /\ enqueue' = [enqueue EXCEPT ![j] = "rejected"]
  /\ UNCHANGED <<callers, refused, jobs, closing, pool, counters, history>>

EnqueueLookup(j) ==
  /\ enqueue[j] = "idle"
  /\ NameOf[j] \in handlers
  /\ enqueue' = [enqueue EXCEPT ![j] = "found"]
  /\ UNCHANGED <<callers, refused, jobs, closing, pool, counters, history>>

\* closeMu.RLock and the check of closed under it.
EnqueueLock(j) ==
  /\ enqueue[j] = "found"
  /\ ~WriterWaiting
  /\ enqueue' = [enqueue EXCEPT ![j] = IF closed THEN "closed" ELSE "sending"]
  /\ UNCHANGED <<callers, refused, jobs, closing, pool, counters, history>>

\* The send that does not block, and closeMu.RUnlock.  A send on a closed
\* channel would panic.
EnqueueSend(j) ==
  /\ enqueue[j] = "sending"
  /\ \/ /\ closed
        /\ enqueue' = [enqueue EXCEPT ![j] = "panicked"]
        /\ UNCHANGED <<jobs, refused>>
     \/ /\ ~closed /\ Len(jobs) < Buffer
        /\ enqueue' = [enqueue EXCEPT ![j] = "accepted"]
        /\ jobs' = Append(jobs, j)
        /\ UNCHANGED refused
     \/ /\ ~closed /\ Len(jobs) = Buffer
        /\ enqueue' = [enqueue EXCEPT ![j] = "full"]
        /\ refused' = refused + 1
        /\ UNCHANGED jobs
  /\ UNCHANGED <<callers, closing, pool, counters, history>>

-----------------------------------------------------------------------------
(* Stop.  sync.Once lets the first caller through and holds the others     *)
(* until it is done, which is when closed is set.                          *)

StopBegin(s) ==
  /\ stop[s] = "idle"
  /\ ~shutdown
  /\ shutdown' = TRUE
  /\ stop' = [stop EXCEPT ![s] = "began"]
  /\ UNCHANGED <<callers, admission, jobs, closed, finished, cancelled, pool, counters, history>>

StopLock(s) ==
  /\ stop[s] = "began"
  /\ stop' = [stop EXCEPT ![s] = "locking"]
  /\ UNCHANGED <<callers, admission, jobs, shutdown, closed, finished, cancelled, pool, counters, history>>

\* Bugs to look for: the channel is closed without the write lock, or only
\* once the workers are done.
UnlockedClose(s) ==
  /\ stop[s] = "locking"
  /\ closed' = TRUE
  /\ stop' = [stop EXCEPT ![s] = "waiting"]
  /\ UNCHANGED <<callers, admission, jobs, shutdown, finished, cancelled, pool, counters, history>>

LateClose(s) ==
  /\ \A w \in Workers : worker[w] \in {"none", "exited"}
  /\ ~HasReader
  /\ UnlockedClose(s)

StopClose(s) ==
  /\ stop[s] = "locking"
  /\ ~HasReader
  /\ closed' = TRUE
  /\ stop' = [stop EXCEPT ![s] = "waiting"]
  /\ UNCHANGED <<callers, admission, jobs, shutdown, finished, cancelled, pool, counters, history>>

StopJoin(s) ==
  /\ stop[s] = "idle"
  /\ closed
  /\ stop' = [stop EXCEPT ![s] = "waiting"]
  /\ UNCHANGED <<callers, admission, jobs, shutdown, closed, finished, cancelled, pool, counters, history>>

\* A bug to look for: the drain waits for the channel, not for the workers.
EmptyFinish ==
  /\ closed /\ ~finished
  /\ jobs = <<>>
  /\ finished' = TRUE
  /\ UNCHANGED <<callers, admission, jobs, shutdown, closed, cancelled, stop, pool, counters, history>>

\* The goroutine Stop leaves behind: workers.Wait, then close(finished).
DrainFinish ==
  /\ closed /\ ~finished
  /\ \A w \in Workers : worker[w] \in {"none", "exited"}
  /\ finished' = TRUE
  /\ UNCHANGED <<callers, admission, jobs, shutdown, closed, cancelled, stop, pool, counters, history>>

\* A bug to look for: a drain with no worker is reported as a clean one.
UncheckedReturn(s) ==
  /\ stop[s] = "waiting"
  /\ finished
  /\ stop' = [stop EXCEPT ![s] = "clean"]
  /\ UNCHANGED <<callers, admission, jobs, shutdown, closed, finished, cancelled, pool, counters, history>>

StopReturn(s) ==
  /\ stop[s] = "waiting"
  /\ finished
  /\ stop' = [stop EXCEPT ![s] = IF jobs # <<>> THEN "dropped" ELSE "clean"]
  /\ UNCHANGED <<callers, admission, jobs, shutdown, closed, finished, cancelled, pool, counters, history>>

\* The caller's context ended; when the drain finished too, select may pick
\* either branch.
StopExpire(s) ==
  /\ stop[s] = "waiting"
  /\ cancelled' = TRUE
  /\ stop' = [stop EXCEPT ![s] = "expired"]
  /\ late' = IF cancelled THEN late ELSE [w \in Workers |-> IF inHand[w] = Nil THEN 0 ELSE 1]
  /\ UNCHANGED <<callers, admission, jobs, shutdown, closed, finished, pool, counters,
                 runs, fate, reports>>

-----------------------------------------------------------------------------
(* run and process *)

\* Bugs to look for: no check of the job context, or a check of shutdown.
UncheckedLoop(w) ==
  /\ worker[w] = "check"
  /\ worker' = [worker EXCEPT ![w] = "receive"]
  /\ UNCHANGED <<callers, admission, jobs, closing, inHand, attempt, counters, history>>

EagerExit(w) ==
  /\ worker[w] = "check"
  /\ worker' = [worker EXCEPT ![w] = IF shutdown THEN "exited" ELSE "receive"]
  /\ UNCHANGED <<callers, admission, jobs, closing, inHand, attempt, counters, history>>

WorkerCheck(w) ==
  /\ worker[w] = "check"
  /\ worker' = [worker EXCEPT ![w] = IF cancelled THEN "exited" ELSE "receive"]
  /\ UNCHANGED <<callers, admission, jobs, closing, inHand, attempt, counters, history>>

\* Receive on an empty channel waits until the channel is closed.
WorkerExit(w) ==
  /\ worker[w] = "receive"
  /\ jobs = <<>> /\ closed
  /\ worker' = [worker EXCEPT ![w] = "exited"]
  /\ UNCHANGED <<callers, admission, jobs, closing, inHand, attempt, counters, history>>

\* The receive, the lookup in the snapshot and the start of attempt 1.  A
\* name the snapshot lacks is counted as failed and goes to reportFailure.
WorkerReceive(w) ==
  /\ worker[w] = "receive"
  /\ jobs # <<>>
  /\ LET j == Head(jobs) IN
       /\ jobs' = Tail(jobs)
       /\ inHand' = [inHand EXCEPT ![w] = j]
       /\ attempt' = [attempt EXCEPT ![w] = 1]
       /\ late' = [late EXCEPT ![w] = IF cancelled THEN @ + 1 ELSE @]
       /\ \/ /\ NameOf[j] \in snapshot
             /\ worker' = [worker EXCEPT ![w] = "running"]
             /\ runs' = [runs EXCEPT ![j] = @ + 1]
             /\ UNCHANGED <<failed, fate>>
          \/ /\ NameOf[j] \notin snapshot
             /\ worker' = [worker EXCEPT ![w] = "report"]
             /\ failed' = failed + 1
             /\ fate' = [fate EXCEPT ![j] = "failed"]
             /\ UNCHANGED runs
  /\ UNCHANGED <<callers, admission, closing, processed, abandoned, reports>>

\* The handler returned nil.
WorkerSucceed(w) ==
  /\ worker[w] = "running"
  /\ worker' = [worker EXCEPT ![w] = "check"]
  /\ inHand' = [inHand EXCEPT ![w] = Nil]
  /\ processed' = processed + 1
  /\ fate' = [fate EXCEPT ![inHand[w]] = "processed"]
  /\ UNCHANGED <<callers, admission, jobs, closing, attempt, failed, abandoned, runs, reports, late>>

\* A bug to look for: one attempt too many.
ExtraRetry(w) ==
  /\ worker[w] = "running"
  /\ attempt[w] <= MaxAttempts
  /\ worker' = [worker EXCEPT ![w] = "backoff"]
  /\ UNCHANGED <<callers, admission, jobs, closing, inHand, attempt, counters, history>>

\* The handler returned an error or panicked with attempts left.
WorkerRetry(w) ==
  /\ worker[w] = "running"
  /\ attempt[w] < MaxAttempts
  /\ worker' = [worker EXCEPT ![w] = "backoff"]
  /\ UNCHANGED <<callers, admission, jobs, closing, inHand, attempt, counters, history>>

\* It did so on the last attempt.
WorkerGiveUp(w) ==
  /\ worker[w] = "running"
  /\ attempt[w] >= MaxAttempts
  /\ worker' = [worker EXCEPT ![w] = "report"]
  /\ failed' = failed + 1
  /\ fate' = [fate EXCEPT ![inHand[w]] = "failed"]
  /\ UNCHANGED <<callers, admission, jobs, closing, inHand, attempt, processed, abandoned, runs, reports, late>>

\* wait returned true: the timer fired, or there was no delay to wait for.
\* The timer may win over a shutdown that has begun.
WorkerWake(w) ==
  /\ worker[w] = "backoff"
  /\ worker' = [worker EXCEPT ![w] = "running"]
  /\ attempt' = [attempt EXCEPT ![w] = @ + 1]
  /\ runs' = [runs EXCEPT ![inHand[w]] = @ + 1]
  /\ UNCHANGED <<callers, admission, jobs, closing, inHand, counters, fate, reports, late>>

\* Bugs to look for: an abandoned job is counted as failed too, or is
\* abandoned only when the job context is cancelled.
AbandonCountedTwice(w) ==
  /\ worker[w] = "backoff" /\ attempt[w] \in Delayed /\ shutdown
  /\ worker' = [worker EXCEPT ![w] = "report"]
  /\ abandoned' = abandoned + 1 /\ failed' = failed + 1
  /\ fate' = [fate EXCEPT ![inHand[w]] = "abandoned"]
  /\ UNCHANGED <<callers, admission, jobs, closing, inHand, attempt, processed, runs, reports, late>>

AbandonOnCancel(w) ==
  /\ worker[w] = "backoff" /\ attempt[w] \in Delayed /\ cancelled
  /\ worker' = [worker EXCEPT ![w] = "report"]
  /\ abandoned' = abandoned + 1
  /\ fate' = [fate EXCEPT ![inHand[w]] = "abandoned"]
  /\ UNCHANGED <<callers, admission, jobs, closing, inHand, attempt, processed, failed, runs, reports, late>>

\* wait returned false: shutdown began while the worker waited.
WorkerAbandon(w) ==
  /\ worker[w] = "backoff"
  /\ attempt[w] \in Delayed
  /\ shutdown
  /\ worker' = [worker EXCEPT ![w] = "report"]
  /\ abandoned' = abandoned + 1
  /\ fate' = [fate EXCEPT ![inHand[w]] = "abandoned"]
  /\ UNCHANGED <<callers, admission, jobs, closing, inHand, attempt, processed, failed, runs, reports, late>>

\* reportFailure returned from the application's callback.
WorkerReport(w) ==
  /\ worker[w] = "report"
  /\ worker' = [worker EXCEPT ![w] = "check"]
  /\ reports' = [reports EXCEPT ![inHand[w]] = @ + 1]
  /\ inHand' = [inHand EXCEPT ![w] = Nil]
  /\ UNCHANGED <<callers, admission, jobs, closing, attempt, counters, runs, fate, late>>

-----------------------------------------------------------------------------
Registration == \E n \in Names : HandleCheck(n) \/ HandleStore(n)
Start == StartClaim \/ StartSpawn
Enqueue(j) == EnqueueReject(j) \/ EnqueueLookup(j) \/ EnqueueLock(j) \/ EnqueueSend(j)
Stop(s) ==
  \/ StopBegin(s) \/ StopLock(s) \/ StopClose(s)
  \/ StopJoin(s) \/ StopReturn(s) \/ StopExpire(s)
Run(w) ==
  \/ WorkerCheck(w) \/ WorkerExit(w) \/ WorkerReceive(w)
  \/ WorkerSucceed(w) \/ WorkerRetry(w) \/ WorkerGiveUp(w)
  \/ WorkerWake(w) \/ WorkerAbandon(w) \/ WorkerReport(w)

Next ==
  \/ Registration
  \/ Start
  \/ \E j \in Jobs : Enqueue(j)
  \/ \E s \in Stoppers : Stop(s)
  \/ DrainFinish
  \/ \E w \in Workers : Run(w)

Spec == Init /\ [][Next]_vars

-----------------------------------------------------------------------------
(* Fairness.  A goroutine with a step to take is eventually scheduled.     *)
(* Callers need not call, handlers need not return, a backoff may be as    *)
(* long as it likes and a Stop context need not have a deadline: each of   *)
(* those is assumed only where a property says so.                         *)

Fair ==
  /\ \A j \in Jobs : WF_vars(EnqueueLock(j)) /\ WF_vars(EnqueueSend(j))
  /\ WF_vars(StartSpawn)
  /\ \A s \in Stoppers : /\ WF_vars(StopLock(s)) /\ WF_vars(StopClose(s))
                         /\ WF_vars(StopReturn(s))
  /\ WF_vars(DrainFinish)
  /\ \A w \in Workers :
       /\ WF_vars(WorkerCheck(w)) /\ WF_vars(WorkerExit(w))
       /\ WF_vars(WorkerReceive(w)) /\ WF_vars(WorkerAbandon(w))
       /\ WF_vars(attempt[w] \notin Delayed /\ WorkerWake(w))

\* Handlers and the failure callback return.
HandlersReturn ==
  \A w \in Workers :
    /\ WF_vars(WorkerSucceed(w) \/ WorkerRetry(w) \/ WorkerGiveUp(w))
    /\ WF_vars(WorkerReport(w))

\* Every backoff is finite.
TimersFire == \A w \in Workers : WF_vars(WorkerWake(w))

\* The context handed to Stop has a deadline, as App.serve gives it.
DeadlinesFire == \A s \in Stoppers : WF_vars(StopExpire(s))

FairSpec == Spec /\ Fair

-----------------------------------------------------------------------------
(* Properties *)

\* Every variable keeps its type and the channel its capacity (make(chan Job,
\* buffer)).
TypeOK ==
  /\ handlers \subseteq Names /\ snapshot \subseteq Names
  /\ handle \in [Names -> {"idle", "checked"}]
  /\ start \in {"idle", "claimed", "spawned"}
  /\ enqueue \in [Jobs -> {"idle", "rejected", "found", "sending",
                           "accepted", "full", "closed", "panicked"}]
  /\ jobs \in Seq(Jobs) /\ Len(jobs) <= Buffer
  /\ shutdown \in BOOLEAN /\ closed \in BOOLEAN
  /\ finished \in BOOLEAN /\ cancelled \in BOOLEAN
  /\ stop \in [Stoppers -> {"idle", "began", "locking", "waiting",
                            "clean", "dropped", "expired"}]
  /\ worker \in [Workers -> {"none", "check", "receive", "running",
                             "backoff", "report", "exited"}]
  /\ inHand \in [Workers -> Jobs \cup {Nil}]
  /\ attempt \in [Workers -> Nat]
  /\ processed \in Nat /\ failed \in Nat /\ abandoned \in Nat /\ refused \in Nat
  /\ runs \in [Jobs -> Nat] /\ reports \in [Jobs -> Nat]
  /\ late \in [Workers -> Nat]
  /\ fate \in [Jobs -> Fates \cup {"none"}]

InChannel(j) == \E i \in 1..Len(jobs) : jobs[i] = j
Held(j)      == \E w \in Workers : inHand[w] = j
Unsettled(j) == fate[j] = "none"

\* No submission sends on the closed channel, whatever Stop does between the
\* check of closed and the send: a panic in the caller's request goroutine.
NoSendOnClosedChannel == \A j \in Jobs : enqueue[j] # "panicked"

OnceInChannel == \A i, k \in 1..Len(jobs) : jobs[i] = jobs[k] => i = k
OneHolder     == \A v, w \in Workers : inHand[v] = inHand[w] => v = w \/ inHand[v] = Nil
Accounted(j)  ==
  /\ enqueue[j] = "accepted" <=> InChannel(j) \/ Held(j) \/ ~Unsettled(j)
  /\ InChannel(j) => Unsettled(j) /\ ~Held(j)

\* An accepted job is in one place only: once in the channel, in the hands of
\* one worker, or settled.  None is lost, duplicated or run by two workers.
OnePlace == OnceInChannel /\ OneHolder /\ \A j \in Jobs : Accounted(j)

\* The counters Stats reads agree with what became of the jobs: each job is
\* counted once, under the fate it had.
CountersAgree ==
  /\ processed = Cardinality({j \in Jobs : fate[j] = "processed"})
  /\ failed    = Cardinality({j \in Jobs : fate[j] = "failed"})
  /\ abandoned = Cardinality({j \in Jobs : fate[j] = "abandoned"})

\* A job fails only after its last attempt (or unrun, when no worker knows its
\* name), is abandoned only during shutdown with attempts left, and is never
\* run more often than WithMaxAttempts allows.
FateJustified ==
  \A j \in Jobs :
    /\ runs[j] <= MaxAttempts
    /\ fate[j] = "processed" => runs[j] > 0
    /\ fate[j] = "failed" => \/ runs[j] = MaxAttempts
                             \/ runs[j] = 0 /\ NameOf[j] \notin snapshot
    /\ fate[j] = "abandoned" => shutdown /\ runs[j] \in 1..(MaxAttempts - 1)

\* Stop returns nil only when every accepted job is settled, every failed or
\* abandoned one has been handed to the failure handler, and no worker runs.
CleanStopMeansDone ==
  (\E s \in Stoppers : stop[s] = "clean") =>
    /\ \A j \in Jobs : enqueue[j] = "accepted" => ~Unsettled(j)
    /\ \A j \in Jobs : fate[j] \in {"failed", "abandoned"} => reports[j] = 1
    /\ \A w \in Workers : worker[w] \in {"none", "exited"}

\* The failure handler sees a job at most once, and never one that succeeded
\* or is still being tried.
ReportedOnce ==
  \A j \in Jobs : /\ reports[j] <= 1
                  /\ reports[j] = 1 => fate[j] \in {"failed", "abandoned"}

\* The job context is cancelled only after the channel is closed, which is
\* what keeps a worker from waiting in its receive for ever.
CancelAfterClose == cancelled => closed

\* Since the drain timed out, a worker had one job in its hands at most: a busy worker
\* starts no other, one past its check of jobCtx takes one more.  That one job is more
\* than the code promises: "no worker starts another job" (queue.go:425), "a plain check
\* keeps 'stop starting work' from racing with a ready job" (queue.go:488).
LateStartsBounded == \A w \in Workers : late[w] <= 1

\* A Stop whose context has a deadline returns, even when a handler hangs.
StopReturns ==
  DeadlinesFire =>
    \A s \in Stoppers :
      stop[s] # "idle" ~> stop[s] \in {"clean", "dropped", "expired"}

\* Once closed, the pool drains if handlers return, however long a backoff is.
DrainCompletes == HandlersReturn => (closed ~> finished)

\* Every job accepted by a queue that is running gets a fate, during shutdown
\* too, unless the drain runs out of time.
AcceptedResolves ==
  HandlersReturn /\ TimersFire =>
    \A j \in Jobs : enqueue[j] = "accepted" /\ start = "spawned"
                      ~> ~Unsettled(j) \/ cancelled

-----------------------------------------------------------------------------
(* The queue implements the ledger. *)

Standing(j) ==
  IF ~Unsettled(j) THEN fate[j]
  ELSE IF InChannel(j) THEN "waiting"
  ELSE IF Held(j) THEN "running"
  ELSE IF enqueue[j] \in {"rejected", "full", "closed", "panicked"} THEN "refused"
  ELSE "offered"

Ledger == INSTANCE JobLedger WITH
  Depth  <- Buffer,
  Slots  <- Cardinality(Workers),
  ledger <- [j \in Jobs |-> Standing(j)],
  phase  <- IF closed THEN "closed" ELSE IF shutdown THEN "closing" ELSE "open",
  clean  <- \E s \in Stoppers : stop[s] = "clean"

\* Seen from outside, the channel, the locks, the pool and the retries are the
\* ledger: every step moves one job along it, or nothing.
ImplementsLedger == Ledger!Spec
=============================================================================
