------------------------------- MODULE Migrate ---------------------------------
(***************************************************************************)
(* The migration runner, src/migrate: several processes, each with a       *)
(* Runner and the migrations of its own build, over one database.          *)
(*                                                                         *)
(* PostgreSQL and MySQL hold a lock of their session for the whole call    *)
(* ("session"); SQLite takes its write lock anew for every version         *)
(* ("transactional").  Abstracted: the statements of a migration are in    *)
(* effect or they are not, so MySQL's implicit commits, which end its      *)
(* transactions early, are not here; contexts and timeouts are failures    *)
(* that may happen at any step.  Calls on one Runner are serialized by its *)
(* mutex, so a Runner is one process.                                      *)
(***************************************************************************)
EXTENDS Naturals, FiniteSets

CONSTANTS
  Runners,
  Directories,  (* what a build's migration directory may hold: sets of files *)
  Limits,       (* the limits and steps the commands are given             *)
  MaxCalls,     (* bound: calls of Up and Down                             *)
  MaxCrashes    (* bound: processes that die                               *)

ASSUME MigrateAssumption ==
  /\ "free" \notin Runners /\ "orphan" \notin Runners
  /\ Limits \subseteq Nat /\ MaxCalls \in Nat /\ MaxCrashes \in Nat

VARIABLES
  dialect,      (* session or transactional locks                          *)
  files,        (* the directory of each build                             *)
  recorded,     (* the rows of the metadata table                          *)
  schema,       (* the versions whose statements are in effect             *)
  lock,         (* the runner whose session has the lock, free, or orphan  *)
  pc,           (* where each call stands                                  *)
  op,           (* Up or Down                                              *)
  limit,        (* its limit, or steps                                     *)
  count,        (* the migrations it has applied or rolled back            *)
  plan,         (* the rows it believes to be recorded                     *)
  at,           (* the migration it is working on                          *)
  result,       (* of the last call: ok or error                           *)
  calls,        (* the number of calls so far                              *)
  crashes       (* the number of crashes so far                            *)

config == <<dialect, files>>
db     == <<recorded, schema>>
call   == <<op, limit>>
state  == <<pc, count, plan, at, result>>
bounds == <<calls, crashes>>
vars   == <<config, db, lock, call, state, bounds>>

Versions(rows) == {m.version : m \in rows}

-----------------------------------------------------------------------------
(* The source of migrations *)

\* ValidateMigrations: versions are positive and unique.
Valid(migrations) ==
  /\ \A m \in migrations : m.version > 0
  /\ Cardinality(Versions(migrations)) = Cardinality(migrations)

\* LoadFS: every version has one file up, one file down, and one name.
Paired(dir) ==
  \A f \in dir :
    /\ \E g \in dir : g.version = f.version /\ g.way # f.way
    /\ \A g \in dir : g.version = f.version =>
         /\ g.name = f.name
         /\ g.way = f.way => g = f

LoadFS(dir) == {[version |-> f.version, name |-> f.name] : f \in dir}

Usable(dir) == Paired(dir) /\ Valid(LoadFS(dir))

Local(r) == LoadFS(files[r])

Migrations == UNION {LoadFS(dir) : dir \in {d \in Directories : Usable(d)}}

Nothing == [version |-> 0, name |-> "none"]

Init ==
  /\ dialect \in {"session", "transactional"}
  /\ files \in [Runners -> Directories]
  /\ recorded = {} /\ schema = {} /\ lock = "free"
  /\ pc = [r \in Runners |-> "idle"]
  /\ op = [r \in Runners |-> "up"] /\ limit = [r \in Runners |-> 0]
  /\ count = [r \in Runners |-> 0] /\ plan = [r \in Runners |-> {}]
  /\ at = [r \in Runners |-> Nothing] /\ result = [r \in Runners |-> "none"]
  /\ calls = 0 /\ crashes = 0

-----------------------------------------------------------------------------
(* A call, and its end *)

\* migrate and migrate:rollback; a bad source, limit or number of steps ends the
\* call before it reaches the database.
Call(r) ==
  /\ pc[r] = "idle" /\ calls < MaxCalls
  /\ calls' = calls + 1
  /\ \E o \in {"up", "down"}, n \in Limits :
       /\ op' = [op EXCEPT ![r] = o] /\ limit' = [limit EXCEPT ![r] = n]
       /\ IF Usable(files[r]) /\ (o = "down" => n > 0)
          THEN /\ pc' = [pc EXCEPT ![r] = "lock"] /\ result' = [result EXCEPT ![r] = "none"]
          ELSE /\ result' = [result EXCEPT ![r] = "error"] /\ UNCHANGED pc
  /\ count' = [count EXCEPT ![r] = 0]
  /\ UNCHANGED <<plan, at, db, lock, crashes>>

Goto(r, place) == pc' = [pc EXCEPT ![r] = place]

End(r, how, place) == Goto(r, place) /\ result' = [result EXCEPT ![r] = how]

-----------------------------------------------------------------------------
(* The lock: pg_advisory_lock, GET_LOCK, BEGIN IMMEDIATE *)

Acquire(r) ==
  /\ pc[r] = "lock" /\ lock = "free"
  /\ lock' = r
  /\ Goto(r, "read")
  /\ UNCHANGED <<db, call, count, plan, at, result, bounds>>

\* A bug to look for: the wait has no deadline, and the caller's context no end.
NoTimeout(r) == pc[r] = "lock" /\ FALSE

\* ErrLockTimeout, or the caller's context.  The database may have granted the
\* lock by then to a session that nobody waits for any more.
AcquireTimeout(r) ==
  /\ pc[r] = "lock"
  /\ End(r, "error", "idle")
  /\ UNCHANGED lock \/ (lock = "free" /\ lock' = "orphan")
  /\ UNCHANGED <<db, call, count, plan, at, bounds>>

\* The unlock of a session, or the end of a transaction without changes.
Release(r) ==
  /\ pc[r] = "release"
  /\ lock' = "free" /\ Goto(r, "idle")
  /\ UNCHANGED <<db, call, count, plan, at, result, bounds>>

ReleaseFails(r) ==
  /\ pc[r] = "release"
  /\ lock' = "orphan" /\ End(r, "error", "idle")
  /\ UNCHANGED <<db, call, count, plan, at, bounds>>

\* The database drops the session, and with it the lock.
SessionEnds ==
  /\ lock = "orphan" /\ lock' = "free"
  /\ UNCHANGED <<db, call, state, bounds>>

-----------------------------------------------------------------------------
(* The plan *)

\* A bug to look for: the metadata is read before the lock is taken.
ReadUnlocked(r) ==
  \/ /\ pc[r] = "lock" /\ plan' = [plan EXCEPT ![r] = recorded]
     /\ UNCHANGED <<pc, count, at, result, db, lock, call, bounds>>
  \/ /\ pc[r] = "read" /\ Goto(r, "decide")
     /\ UNCHANGED <<plan, count, at, result, db, lock, call, bounds>>

\* ensureTable and applied: once per session lock, once per SQLite transaction.
Read(r) ==
  /\ pc[r] = "read"
  /\ plan' = [plan EXCEPT ![r] = recorded]
  /\ Goto(r, "decide")
  /\ UNCHANGED <<count, at, result, db, lock, call, bounds>>

Pending(r) == {m \in Local(r) : m.version \notin Versions(plan[r])}

Lowest(m, ms) == \A n \in ms : m.version <= n.version
Highest(m, ms) == \A n \in ms : n.version <= m.version

\* Versions recorded under another name.  With a session lock the loop meets only
\* those below the next pending one; SQLite's looks at all of them.
Clashes(r) ==
  {m \in Local(r) :
     /\ m.version \in Versions(plan[r]) /\ m \notin plan[r]
     /\ dialect = "session" => Lowest(m, Pending(r))}

Work(r, m) == at' = [at EXCEPT ![r] = m] /\ Goto(r, "work") /\ UNCHANGED result

Finish(r) == End(r, "ok", "release") /\ UNCHANGED at
Fail(r) == End(r, "error", "release") /\ UNCHANGED at

DecideUp(r) ==
  IF Clashes(r) # {} THEN Fail(r)
  ELSE IF Pending(r) = {} \/ (limit[r] > 0 /\ count[r] >= limit[r]) THEN Finish(r)
  ELSE \E m \in Pending(r) : Lowest(m, Pending(r)) /\ Work(r, m)

\* A bug to look for: rows are rolled back in ascending order.
DecideDownAscending(r) ==
  IF count[r] >= limit[r] \/ plan[r] = {} THEN Finish(r)
  ELSE \E m \in plan[r] :
         /\ Lowest(m, plan[r])
         /\ IF m \in Local(r) THEN Work(r, m) ELSE Fail(r)

\* A recorded migration that is missing or has another name here stops the call.
DecideDown(r) ==
  IF count[r] >= limit[r] \/ plan[r] = {} THEN Finish(r)
  ELSE \E m \in plan[r] :
         /\ Highest(m, plan[r])
         /\ IF m \in Local(r) THEN Work(r, m) ELSE Fail(r)

Decide(r) ==
  /\ pc[r] = "decide"
  /\ IF op[r] = "up" THEN DecideUp(r) ELSE DecideDown(r)
  /\ UNCHANGED <<count, plan, db, lock, call, bounds>>

-----------------------------------------------------------------------------
(* One version, in its transaction *)

\* The statements and the row; they fail when the version is already in effect.
Execute(r) ==
  /\ pc[r] = "work"
  /\ (op[r] = "up") = (at[r].version \notin schema)
  /\ Goto(r, "commit")
  /\ UNCHANGED <<count, plan, at, result, db, lock, call, bounds>>

\* A failed read, statement or transaction start: everything is rolled back.
StepFails(r) ==
  /\ pc[r] \in {"read", "work"}
  /\ Fail(r)
  /\ UNCHANGED <<count, plan, db, lock, call, bounds>>

Changed(rows, r) == IF op[r] = "up" THEN rows \cup {at[r]} ELSE rows \ {at[r]}

Applied(r) ==
  /\ recorded' = Changed(recorded, r)
  /\ schema' = IF op[r] = "up" THEN schema \cup {at[r].version}
               ELSE schema \ {at[r].version}

\* A bug to look for: SQLite's loop stops after the version before the last.
NoMoreThanTwo(r) ==
  \/ limit[r] > 0 /\ count[r] + 1 >= limit[r]
  \/ op[r] = "up" /\ Cardinality(Pending(r)) <= 2
  \/ op[r] = "down" /\ plan[r] = {at[r]}

\* hasMore, and the condition of SQLite's loop.
NoMore(r) ==
  \/ limit[r] > 0 /\ count[r] + 1 >= limit[r]
  \/ op[r] = "up" /\ Pending(r) = {at[r]}
  \/ op[r] = "down" /\ plan[r] = {at[r]}

\* The commit of SQLite also gives up the lock.
Commit(r) ==
  /\ pc[r] = "commit"
  /\ Applied(r)
  /\ count' = [count EXCEPT ![r] = @ + 1]
  /\ plan' = [plan EXCEPT ![r] = Changed(@, r)]
  /\ IF dialect = "session"
     THEN Goto(r, "decide") /\ UNCHANGED <<lock, result>>
     ELSE /\ lock' = "free"
          /\ IF NoMore(r) THEN End(r, "ok", "idle")
             ELSE Goto(r, "lock") /\ UNCHANGED result
  /\ UNCHANGED <<at, call, bounds>>

\* The commit fails, or its reply is lost.
CommitFails(r) ==
  /\ pc[r] = "commit"
  /\ \/ Fail(r) /\ UNCHANGED <<db, lock>>
     \/ Applied(r) /\ dialect = "session" /\ Fail(r) /\ UNCHANGED lock
     \/ /\ Applied(r) /\ dialect = "transactional"
        /\ lock' = "free" /\ End(r, "error", "idle") /\ UNCHANGED at
  /\ UNCHANGED <<count, plan, call, bounds>>

\* A bug to look for: the statements commit before the version is recorded.
CrashBetween(r) ==
  /\ pc[r] # "idle" /\ crashes < MaxCrashes
  /\ crashes' = crashes + 1
  /\ lock' = IF lock = r THEN "orphan" ELSE lock
  /\ End(r, "error", "idle")
  /\ \/ UNCHANGED db
     \/ /\ pc[r] = "commit" /\ UNCHANGED recorded
        /\ schema' = IF op[r] = "up" THEN schema \cup {at[r].version}
                     ELSE schema \ {at[r].version}
  /\ UNCHANGED <<count, plan, at, call, calls>>

\* The process dies.  A commit that was sent may or may not have arrived.
Crash(r) ==
  /\ pc[r] # "idle" /\ crashes < MaxCrashes
  /\ crashes' = crashes + 1
  /\ lock' = IF lock = r THEN "orphan" ELSE lock
  /\ End(r, "error", "idle")
  /\ UNCHANGED db \/ (pc[r] = "commit" /\ Applied(r))
  /\ UNCHANGED <<count, plan, at, call, calls>>

-----------------------------------------------------------------------------
Step(r) ==
  \/ Acquire(r) \/ AcquireTimeout(r) \/ Read(r) \/ Decide(r) \/ Execute(r) \/ StepFails(r)
  \/ Commit(r) \/ CommitFails(r) \/ Release(r) \/ ReleaseFails(r)

Next ==
  /\ SessionEnds \/ \E r \in Runners : Call(r) \/ Step(r) \/ Crash(r)
  /\ UNCHANGED config

Spec == Init /\ [][Next]_vars

\* Every wait has a deadline, so a call always takes its next step; a session that
\* nobody uses need not end.
Fair == \A r \in Runners : WF_vars(Step(r) /\ UNCHANGED config)
FairSpec == Spec /\ Fair

-----------------------------------------------------------------------------
(* Properties *)

\* Every variable keeps its type, and the lock is held exactly from Acquire to the
\* end of the transaction or of the session.
TypeOK ==
  /\ dialect \in {"session", "transactional"}
  /\ files \in [Runners -> Directories]
  /\ recorded \subseteq Migrations /\ schema \subseteq Versions(Migrations)
  /\ lock \in Runners \cup {"free", "orphan"}
  /\ pc \in [Runners -> {"idle", "lock", "read", "decide", "work", "commit", "release"}]
  /\ op \in [Runners -> {"up", "down"}] /\ limit \in [Runners -> Limits \cup {0}]
  /\ count \in [Runners -> Nat] /\ plan \in [Runners -> SUBSET Migrations]
  /\ at \in [Runners -> Migrations \cup {Nothing}]
  /\ result \in [Runners -> {"none", "ok", "error"}]
  /\ calls \in 0..MaxCalls /\ crashes \in 0..MaxCrashes
  /\ \A r \in Runners : lock = r <=> pc[r] \notin {"idle", "lock"}

\* The database's own view: schema and metadata change together, one version at a
\* time, whatever the processes, their crashes and their lost replies do.  What is
\* rolled back is the highest version, where runner.go:151 and docs/MIGRATIONS.md:97
\* promise the most recently applied one; the two differ once a lower version is
\* applied late.
Log == INSTANCE MigrationLog
ImplementsLog == Log!Spec

\* What a runner read as applied is still so when it acts on it: no other process
\* has applied, or rolled back, the version it is about to change.
PlanIsCurrent ==
  \A r \in Runners : pc[r] \in {"decide", "work", "commit"} => plan[r] = recorded

\* An Up without a limit that reports success leaves none of its own migrations
\* pending when it lets go of the lock, even where SQLite takes the lock anew for
\* every version while others roll back.
UpLeavesNothingPending ==
  [][\A r \in Runners :
       /\ pc[r] # "idle" /\ pc'[r] = "idle" /\ result'[r] = "ok"
       /\ op[r] = "up" /\ limit[r] = 0
       => Local(r) \subseteq recorded']_vars

\* No call waits forever: not for the lock of a process that died holding it, nor
\* for one that others keep taking.
CallReturns == \A r \in Runners : pc[r] # "idle" ~> pc[r] = "idle"
=============================================================================
