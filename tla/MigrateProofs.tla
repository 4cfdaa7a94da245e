---------------------------- MODULE MigrateProofs -------------------------------
(***************************************************************************)
(* The migration runner keeps its types, acts only on what the database    *)
(* records, and implements MigrationLog, for any number of processes, any  *)
(* directories, and any number of calls and crashes.                       *)
(***************************************************************************)
EXTENDS Migrate, TLAPS

\* A call that reached the database has a usable directory.
Loaded == \A r \in Runners : pc[r] # "idle" => Usable(files[r])

\* The migration in hand is one the log may take next.
InHand ==
  \A r \in Runners :
    pc[r] \in {"work", "commit"} =>
      /\ at[r] \in Migrations
      /\ IF op[r] = "up" THEN at[r].version \notin Versions(plan[r])
         ELSE at[r] \in plan[r] /\ Highest(at[r], plan[r])

IInv == TypeOK /\ Loaded /\ PlanIsCurrent /\ InHand

-----------------------------------------------------------------------------
(* Lemmas *)

LEMMA LocalMigrations ==
  ASSUME IInv, NEW r \in Runners, pc[r] # "idle"
  PROVE  Local(r) \subseteq Migrations
BY DEF IInv, TypeOK, Loaded, Local, Migrations

\* The runner in its transaction has the lock, so no other is in one.
LEMMA LockExcludes ==
  ASSUME IInv, NEW r \in Runners, NEW s \in Runners,
         pc[r] \notin {"idle", "lock"}, pc[s] \notin {"idle", "lock"}
  PROVE  r = s
BY DEF IInv, TypeOK

LEMMA InitIInv == Init => IInv
<1> SUFFICES ASSUME Init PROVE IInv
  OBVIOUS
<1> USE MigrateAssumption
<1>1. TypeOK
  BY DEF Init, TypeOK
<1>2. Loaded /\ PlanIsCurrent /\ InHand
  BY DEF Init, Loaded, PlanIsCurrent, InHand
<1> QED  BY <1>1, <1>2 DEF IInv

LEMMA StutterIInv ==
  ASSUME IInv, UNCHANGED vars
  PROVE  IInv'
<1>1. UNCHANGED <<dialect, files, recorded, schema, lock, op, limit, pc, count, plan, at, result,
                  calls, crashes>>
  BY DEF vars, config, db, call, state, bounds
<1>2. TypeOK'
  BY <1>1 DEF IInv, TypeOK
<1>3. Loaded' /\ PlanIsCurrent' /\ InHand'
  BY <1>1 DEF IInv, Loaded, PlanIsCurrent, InHand
<1> QED  BY <1>2, <1>3 DEF IInv

-----------------------------------------------------------------------------
(* The steps that leave the database alone *)

LEMMA CallIInv ==
  ASSUME IInv, NEW r \in Runners, Call(r), UNCHANGED config
  PROVE  IInv'
<1> USE MigrateAssumption
<1>1. PICK o \in {"up", "down"}, n \in Limits :
        /\ pc[r] = "idle" /\ calls < MaxCalls /\ calls' = calls + 1
        /\ op' = [op EXCEPT ![r] = o] /\ limit' = [limit EXCEPT ![r] = n]
        /\ \/ /\ Usable(files[r])
              /\ pc' = [pc EXCEPT ![r] = "lock"] /\ result' = [result EXCEPT ![r] = "none"]
           \/ result' = [result EXCEPT ![r] = "error"] /\ UNCHANGED pc
        /\ count' = [count EXCEPT ![r] = 0]
        /\ UNCHANGED <<plan, at, recorded, schema, lock, crashes, dialect, files>>
  BY DEF Call, db, config
<1>2. TypeOK'
  BY <1>1 DEF IInv, TypeOK
<1>3. Loaded'
  BY <1>1 DEF IInv, TypeOK, Loaded
<1>4. PlanIsCurrent'
  BY <1>1 DEF IInv, TypeOK, PlanIsCurrent
<1>5. InHand'
  BY <1>1 DEF IInv, TypeOK, InHand
<1> QED  BY <1>2, <1>3, <1>4, <1>5 DEF IInv

\* A step of one runner that changes neither its call nor the database.
LEMMA QuietIInv ==
  ASSUME IInv, NEW r \in Runners, UNCHANGED <<config, db, call, calls, count, at>>,
         plan' = plan,
         NEW place \in {"idle", "lock", "read", "release"},
         pc' = [pc EXCEPT ![r] = place], pc[r] # "idle",
         result' \in [Runners -> {"none", "ok", "error"}],
         crashes' \in 0..MaxCrashes,
         lock' \in Runners \cup {"free", "orphan"},
         \A s \in Runners : lock' = s <=> pc'[s] \notin {"idle", "lock"}
  PROVE  IInv'
<1>1. TypeOK'
  BY DEF IInv, TypeOK, config, db, call
<1>2. Loaded'
  BY DEF IInv, TypeOK, Loaded, config
<1>3. PlanIsCurrent'
  BY DEF IInv, TypeOK, PlanIsCurrent, db
<1>4. InHand'
  BY DEF IInv, TypeOK, InHand, call
<1> QED  BY <1>1, <1>2, <1>3, <1>4 DEF IInv

LEMMA AcquireIInv ==
  ASSUME IInv, NEW r \in Runners, Acquire(r), UNCHANGED config
  PROVE  IInv'
<1> USE MigrateAssumption
<1>1. /\ pc[r] = "lock" /\ lock = "free" /\ lock' = r
      /\ pc' = [pc EXCEPT ![r] = "read"]
      /\ UNCHANGED <<db, call, count, plan, at, result, bounds>>
  BY DEF Acquire, Goto
<1>2. \A s \in Runners : lock' = s <=> pc'[s] \notin {"idle", "lock"}
  BY <1>1 DEF IInv, TypeOK
<1> QED  BY <1>1, <1>2, QuietIInv DEF IInv, TypeOK, bounds

LEMMA AcquireTimeoutIInv ==
  ASSUME IInv, NEW r \in Runners, AcquireTimeout(r), UNCHANGED config
  PROVE  IInv'
<1> USE MigrateAssumption
<1>1. /\ pc[r] = "lock" /\ pc' = [pc EXCEPT ![r] = "idle"]
      /\ result' = [result EXCEPT ![r] = "error"]
      /\ lock' = lock \/ (lock = "free" /\ lock' = "orphan")
      /\ UNCHANGED <<db, call, count, plan, at, bounds>>
  BY DEF AcquireTimeout, End, Goto
<1>2. \A s \in Runners : lock' = s <=> pc'[s] \notin {"idle", "lock"}
  BY <1>1 DEF IInv, TypeOK
<1>3. result' \in [Runners -> {"none", "ok", "error"}] /\ crashes' \in 0..MaxCrashes
      /\ lock' \in Runners \cup {"free", "orphan"}
  BY <1>1 DEF IInv, TypeOK, bounds
<1> QED  BY <1>1, <1>2, <1>3, QuietIInv DEF bounds

LEMMA ReleaseIInv ==
  ASSUME IInv, NEW r \in Runners, Release(r) \/ ReleaseFails(r), UNCHANGED config
  PROVE  IInv'
<1> USE MigrateAssumption
<1>1. /\ pc[r] = "release" /\ pc' = [pc EXCEPT ![r] = "idle"]
      /\ lock' \in {"free", "orphan"}
      /\ result' = result \/ result' = [result EXCEPT ![r] = "error"]
      /\ UNCHANGED <<db, call, count, plan, at, bounds>>
  BY DEF Release, ReleaseFails, End, Goto
<1>2. \A s \in Runners : lock' = s <=> pc'[s] \notin {"idle", "lock"}
  BY <1>1 DEF IInv, TypeOK
<1>3. result' \in [Runners -> {"none", "ok", "error"}] /\ crashes' \in 0..MaxCrashes
      /\ lock' \in Runners \cup {"free", "orphan"}
  BY <1>1 DEF IInv, TypeOK, bounds
<1> QED  BY <1>1, <1>2, <1>3, QuietIInv DEF bounds

LEMMA StepFailsIInv ==
  ASSUME IInv, NEW r \in Runners, StepFails(r), UNCHANGED config
  PROVE  IInv'
<1> USE MigrateAssumption
<1>1. /\ pc[r] \in {"read", "work"} /\ pc' = [pc EXCEPT ![r] = "release"]
      /\ result' = [result EXCEPT ![r] = "error"]
      /\ UNCHANGED <<db, lock, call, count, plan, at, bounds>>
  BY DEF StepFails, Fail, End, Goto
<1>2. \A s \in Runners : lock' = s <=> pc'[s] \notin {"idle", "lock"}
  BY <1>1 DEF IInv, TypeOK
<1>3. result' \in [Runners -> {"none", "ok", "error"}] /\ crashes' \in 0..MaxCrashes
      /\ lock' \in Runners \cup {"free", "orphan"}
  BY <1>1 DEF IInv, TypeOK, bounds
<1> QED  BY <1>1, <1>2, <1>3, QuietIInv DEF bounds

LEMMA SessionEndsIInv ==
  ASSUME IInv, SessionEnds, UNCHANGED config
  PROVE  IInv'
<1> USE MigrateAssumption
<1>1. /\ lock = "orphan" /\ lock' = "free"
      /\ UNCHANGED <<config, db, call, state, bounds>>
  BY DEF SessionEnds
<1> QED
  BY <1>1 DEF IInv, TypeOK, Loaded, PlanIsCurrent, InHand, config, db, call, state, bounds

-----------------------------------------------------------------------------
(* The plan and the migration in hand *)

LEMMA ReadIInv ==
  ASSUME IInv, NEW r \in Runners, Read(r), UNCHANGED config
  PROVE  IInv'
<1>1. /\ pc[r] = "read" /\ pc' = [pc EXCEPT ![r] = "decide"]
      /\ plan' = [plan EXCEPT ![r] = recorded]
      /\ UNCHANGED <<dialect, files, recorded, schema, lock, op, limit, count, at, result,
                     calls, crashes>>
  BY DEF Read, Goto, config, db, call, bounds
<1>2. TypeOK'
  BY <1>1 DEF IInv, TypeOK
<1>3. Loaded'
  BY <1>1 DEF IInv, TypeOK, Loaded
<1>4. PlanIsCurrent'
  BY <1>1 DEF IInv, TypeOK, PlanIsCurrent
<1>5. InHand'
  BY <1>1 DEF IInv, TypeOK, InHand
<1> QED  BY <1>2, <1>3, <1>4, <1>5 DEF IInv

LEMMA DecideIInv ==
  ASSUME IInv, NEW r \in Runners, Decide(r), UNCHANGED config
  PROVE  IInv'
<1> USE MigrateAssumption
<1>1. /\ pc[r] = "decide"
      /\ UNCHANGED <<count, plan, db, lock, call, bounds>>
  BY DEF Decide
<1>2. CASE Finish(r) \/ Fail(r)
  <2>1. /\ pc' = [pc EXCEPT ![r] = "release"] /\ UNCHANGED at
        /\ result' \in {[result EXCEPT ![r] = "ok"], [result EXCEPT ![r] = "error"]}
    BY <1>2 DEF Finish, Fail, End, Goto
  <2>2. \A s \in Runners : lock' = s <=> pc'[s] \notin {"idle", "lock"}
    BY <1>1, <2>1 DEF IInv, TypeOK
  <2>3. result' \in [Runners -> {"none", "ok", "error"}] /\ crashes' \in 0..MaxCrashes
        /\ lock' \in Runners \cup {"free", "orphan"}
    BY <1>1, <2>1 DEF IInv, TypeOK, bounds
  <2> QED  BY <1>1, <2>1, <2>2, <2>3, QuietIInv DEF bounds
<1>3. ASSUME NEW m, Work(r, m), m \in Migrations,
             IF op[r] = "up" THEN m.version \notin Versions(plan[r])
             ELSE m \in plan[r] /\ Highest(m, plan[r])
      PROVE  IInv'
  <2>1. /\ at' = [at EXCEPT ![r] = m] /\ pc' = [pc EXCEPT ![r] = "work"]
        /\ UNCHANGED <<dialect, files, recorded, schema, lock, op, limit, count, plan, result,
                       calls, crashes>>
    BY <1>1, <1>3 DEF Work, Goto, config, db, call, bounds
  <2>2. TypeOK'
    BY <1>1, <1>3, <2>1 DEF IInv, TypeOK
  <2>3. Loaded'
    BY <1>1, <2>1 DEF IInv, TypeOK, Loaded
  <2>4. PlanIsCurrent'
    BY <1>1, <2>1 DEF IInv, TypeOK, PlanIsCurrent
  <2>5. InHand'
    BY <1>1, <1>3, <2>1 DEF IInv, TypeOK, InHand
  <2> QED  BY <2>2, <2>3, <2>4, <2>5 DEF IInv
<1>4. CASE op[r] = "up"
  <2>1. \/ Finish(r) \/ Fail(r)
        \/ \E m \in Pending(r) : Work(r, m)
    BY <1>4 DEF Decide, DecideUp
  <2>2. ASSUME NEW m \in Pending(r), Work(r, m) PROVE IInv'
    BY <1>1, <1>3, <1>4, <2>2, LocalMigrations DEF Pending
  <2> QED  BY <1>2, <2>1, <2>2
<1>5. CASE op[r] # "up"
  <2>1. \/ Finish(r) \/ Fail(r)
        \/ \E m \in plan[r] : Highest(m, plan[r]) /\ Work(r, m)
    BY <1>5 DEF Decide, DecideDown
  <2>2. ASSUME NEW m \in plan[r], Highest(m, plan[r]), Work(r, m) PROVE IInv'
    BY <1>3, <1>5, <2>2 DEF IInv, TypeOK
  <2> QED  BY <1>2, <2>1, <2>2
<1> QED  BY <1>4, <1>5

LEMMA ExecuteIInv ==
  ASSUME IInv, NEW r \in Runners, Execute(r), UNCHANGED config
  PROVE  IInv'
<1>1. /\ pc[r] = "work" /\ pc' = [pc EXCEPT ![r] = "commit"]
      /\ UNCHANGED <<dialect, files, recorded, schema, lock, op, limit, count, plan, at, result,
                     calls, crashes>>
  BY DEF Execute, Goto, config, db, call, bounds
<1>2. TypeOK'
  BY <1>1 DEF IInv, TypeOK
<1>3. Loaded'
  BY <1>1 DEF IInv, TypeOK, Loaded
<1>4. PlanIsCurrent'
  BY <1>1 DEF IInv, TypeOK, PlanIsCurrent
<1>5. InHand'
  BY <1>1 DEF IInv, TypeOK, InHand
<1> QED  BY <1>2, <1>3, <1>4, <1>5 DEF IInv

-----------------------------------------------------------------------------
(* The steps that may change the database *)

LEMMA AppliedTypes ==
  ASSUME IInv, NEW r \in Runners, pc[r] = "commit", Applied(r)
  PROVE  /\ recorded' \subseteq Migrations /\ schema' \subseteq Versions(Migrations)
         /\ recorded' = Changed(plan[r], r)
BY DEF IInv, TypeOK, PlanIsCurrent, InHand, Applied, Changed, Versions

\* An applied change, whatever becomes of the call and of the lock.
LEMMA AppliedIInv ==
  ASSUME IInv, NEW r \in Runners, pc[r] = "commit", Applied(r),
         NEW place \in {"decide", "lock", "idle", "release"},
         pc' = [pc EXCEPT ![r] = place],
         plan' \in [Runners -> SUBSET Migrations],
         place = "decide" => plan'[r] = recorded',
         \A s \in Runners \ {r} : plan'[s] = plan[s],
         count' \in [Runners -> Nat],
         result' \in [Runners -> {"none", "ok", "error"}],
         crashes' \in 0..MaxCrashes,
         lock' \in Runners \cup {"free", "orphan"},
         \A s \in Runners : lock' = s <=> pc'[s] \notin {"idle", "lock"},
         UNCHANGED <<dialect, files, op, limit, at, calls>>
  PROVE  IInv'
<1>1. TypeOK'
  BY AppliedTypes DEF IInv, TypeOK
<1>2. Loaded'
  BY DEF IInv, TypeOK, Loaded
<1>3. \A s \in Runners \ {r} : pc'[s] = pc[s] /\ pc[s] \in {"idle", "lock"}
  BY LockExcludes DEF IInv, TypeOK
<1>4. PlanIsCurrent'
  BY <1>3 DEF IInv, TypeOK, PlanIsCurrent
<1>5. InHand'
  BY <1>3 DEF IInv, TypeOK, InHand
<1> QED  BY <1>1, <1>2, <1>4, <1>5 DEF IInv

LEMMA CommitIInv ==
  ASSUME IInv, NEW r \in Runners, Commit(r), UNCHANGED config
  PROVE  IInv'
<1> USE MigrateAssumption
<1>1. /\ pc[r] = "commit" /\ Applied(r)
      /\ count' = [count EXCEPT ![r] = @ + 1]
      /\ plan' = [plan EXCEPT ![r] = Changed(@, r)]
      /\ UNCHANGED <<dialect, files, op, limit, at, calls, crashes>>
  BY DEF Commit, config, call, bounds
<1>2. PICK place \in {"decide", "lock", "idle"} :
        /\ pc' = [pc EXCEPT ![r] = place]
        /\ lock' = IF place = "decide" THEN lock ELSE "free"
        /\ result' = result \/ result' = [result EXCEPT ![r] = "ok"]
  BY DEF Commit, End, Goto
<1>3. plan' \in [Runners -> SUBSET Migrations] /\ plan'[r] = recorded'
  BY <1>1, AppliedTypes DEF IInv, TypeOK
<1>4. /\ \A s \in Runners \ {r} : plan'[s] = plan[s]
      /\ count' \in [Runners -> Nat]
      /\ result' \in [Runners -> {"none", "ok", "error"}]
      /\ crashes' \in 0..MaxCrashes
      /\ lock' \in Runners \cup {"free", "orphan"}
  BY <1>1, <1>2 DEF IInv, TypeOK
<1>5. \A s \in Runners : lock' = s <=> pc'[s] \notin {"idle", "lock"}
  BY <1>1, <1>2 DEF IInv, TypeOK
<1> QED  BY <1>1, <1>2, <1>3, <1>4, <1>5, AppliedIInv

LEMMA CommitFailsIInv ==
  ASSUME IInv, NEW r \in Runners, CommitFails(r), UNCHANGED config
  PROVE  IInv'
<1> USE MigrateAssumption
<1>1. /\ pc[r] = "commit"
      /\ UNCHANGED <<dialect, files, op, limit, at, count, plan, calls, crashes>>
  BY DEF CommitFails, Fail, config, call, bounds
<1>2. PICK place \in {"release", "idle"} :
        /\ pc' = [pc EXCEPT ![r] = place]
        /\ lock' = IF place = "release" THEN lock ELSE "free"
        /\ result' = [result EXCEPT ![r] = "error"]
        /\ Applied(r) \/ (place = "release" /\ UNCHANGED db)
  BY DEF CommitFails, Fail, End, Goto
<1>3. /\ result' \in [Runners -> {"none", "ok", "error"}]
      /\ lock' \in Runners \cup {"free", "orphan"}
      /\ \A s \in Runners : lock' = s <=> pc'[s] \notin {"idle", "lock"}
  BY <1>1, <1>2 DEF IInv, TypeOK
<1>4. /\ plan' \in [Runners -> SUBSET Migrations] /\ count' \in [Runners -> Nat]
      /\ crashes' \in 0..MaxCrashes
  BY <1>1 DEF IInv, TypeOK
<1>5. CASE Applied(r)
  BY <1>1, <1>2, <1>3, <1>4, <1>5, AppliedIInv
<1>6. CASE UNCHANGED db
  BY <1>1, <1>2, <1>3, <1>4, <1>6, QuietIInv DEF config, call
<1> QED  BY <1>2, <1>5, <1>6

LEMMA CrashIInv ==
  ASSUME IInv, NEW r \in Runners, Crash(r), UNCHANGED config
  PROVE  IInv'
<1> USE MigrateAssumption
<1>1. /\ pc[r] # "idle" /\ crashes < MaxCrashes /\ crashes' = crashes + 1
      /\ lock' = IF lock = r THEN "orphan" ELSE lock
      /\ pc' = [pc EXCEPT ![r] = "idle"] /\ result' = [result EXCEPT ![r] = "error"]
      /\ UNCHANGED db \/ (pc[r] = "commit" /\ Applied(r))
      /\ UNCHANGED <<dialect, files, op, limit, at, count, plan, calls>>
  BY DEF Crash, End, Goto, config, call
<1>2. /\ result' \in [Runners -> {"none", "ok", "error"}]
      /\ lock' \in Runners \cup {"free", "orphan"}
      /\ \A s \in Runners : lock' = s <=> pc'[s] \notin {"idle", "lock"}
  BY <1>1 DEF IInv, TypeOK
<1>3. /\ plan' \in [Runners -> SUBSET Migrations] /\ count' \in [Runners -> Nat]
      /\ crashes' \in 0..MaxCrashes
  BY <1>1 DEF IInv, TypeOK
<1>4. CASE UNCHANGED db
  BY <1>1, <1>2, <1>3, <1>4, QuietIInv DEF config, call
<1>5. CASE pc[r] = "commit" /\ Applied(r)
  BY <1>1, <1>2, <1>3, <1>5, AppliedIInv
<1> QED  BY <1>1, <1>4, <1>5

-----------------------------------------------------------------------------
(* Invariance *)

LEMMA NextIInv ==
  ASSUME IInv, [Next]_vars
  PROVE  IInv'
<1>1. CASE UNCHANGED vars
  BY <1>1, StutterIInv
<1>2. CASE SessionEnds /\ UNCHANGED config
  BY <1>2, SessionEndsIInv
<1>3. ASSUME NEW r \in Runners, Call(r) \/ Step(r) \/ Crash(r), UNCHANGED config
      PROVE  IInv'
  BY <1>3, CallIInv, AcquireIInv, AcquireTimeoutIInv, ReadIInv, DecideIInv, ExecuteIInv,
     StepFailsIInv, CommitIInv, CommitFailsIInv, ReleaseIInv, CrashIInv DEF Step
<1> QED  BY <1>1, <1>2, <1>3 DEF Next

\* The inductive invariant: the types with the holder of the lock, that every call
\* beyond its entry has a usable directory, that what a runner believes to be recorded
\* is, and that the migration it has in hand is one the log may take next.
THEOREM Invariance == Spec => []IInv
<1> QED  BY InitIInv, NextIInv, PTL DEF Spec

\* Every variable keeps its type, and the lock is held by exactly the runner that is
\* past Acquire and has not released it.
THEOREM TypeCorrect == Spec => []TypeOK
<1>1. IInv => TypeOK
  BY DEF IInv
<1> QED  BY <1>1, Invariance, PTL

\* A runner acts only on what the metadata table records at that moment, for any
\* number of processes, crashes and lost replies (Up and Down after acquire).
THEOREM NothingStale == Spec => []PlanIsCurrent
<1>1. IInv => PlanIsCurrent
  BY DEF IInv
<1> QED  BY <1>1, Invariance, PTL

-----------------------------------------------------------------------------
(* The refinement *)

\* A change that commits is one step of the log.
LEMMA AppliedIsLogged ==
  ASSUME IInv, NEW r \in Runners, pc[r] = "commit", Applied(r)
  PROVE  Log!Next
<1>1. at[r] \in Migrations /\ plan[r] = recorded
  BY DEF IInv, InHand, PlanIsCurrent
<1>2. CASE op[r] = "up"
  <2>1. Log!Apply(at[r])
    BY <1>1, <1>2 DEF IInv, InHand, Applied, Changed, Log!Apply, Log!Versions, Versions
  <2> QED  BY <1>1, <2>1 DEF Log!Next
<1>3. CASE op[r] # "up"
  <2>1. Log!Rollback(at[r])
    BY <1>1, <1>3 DEF IInv, InHand, Applied, Changed, Log!Rollback, Highest
  <2> QED  BY <1>1, <2>1 DEF Log!Next
<1> QED  BY <1>2, <1>3

LEMMA StepRefines ==
  ASSUME IInv, [Next]_vars
  PROVE  [Log!Next]_(Log!log)
<1>1. CASE UNCHANGED db
  BY <1>1 DEF db, Log!log
<1>2. ASSUME NEW r \in Runners, pc[r] = "commit", Applied(r) PROVE Log!Next
  BY <1>2, AppliedIsLogged
<1>3. ASSUME NEW r \in Runners, Call(r) \/ Step(r) \/ Crash(r)
      PROVE  UNCHANGED db \/ (pc[r] = "commit" /\ Applied(r))
  BY <1>3 DEF Call, Step, Crash, Acquire, AcquireTimeout, Read, Decide, Execute, StepFails,
              Commit, CommitFails, Release, ReleaseFails
<1>4. SessionEnds => UNCHANGED db
  BY DEF SessionEnds
<1>5. UNCHANGED vars => UNCHANGED db
  BY DEF vars
<1> QED  BY <1>1, <1>2, <1>3, <1>4, <1>5 DEF Next

\* The migration runner implements the log: the schema and the metadata table change
\* together, one version at a time, the highest going first, for any number of
\* processes and whatever fails or dies between a migration's statements and its commit.
THEOREM Refinement == Spec => ImplementsLog
<1>1. Init => Log!Init
  BY DEF Init, Log!Init
<1>2. IInv /\ [Next]_vars => [Log!Next]_(Log!log)
  BY StepRefines
<1> QED  BY <1>1, <1>2, Invariance, PTL DEF Spec, ImplementsLog, Log!Spec
-----------------------------------------------------------------------------
(* A successful Up                                                         *)

\* SQLite's Up works on a version only while no recorded name clashes with its own, and
\* an Up without a limit that is about to let go of the lock, with success, has all of
\* its migrations recorded.
Complete(r) ==
  op[r] = "up" =>
    /\ pc[r] \in {"work", "commit"} /\ dialect = "transactional" => Clashes(r) = {}
    /\ pc[r] = "release" /\ result[r] = "ok" /\ limit[r] = 0 => Local(r) \subseteq recorded

AllComplete == \A r \in Runners : Complete(r)

\* Where no name clashes, a migration that is not pending is recorded.
LEMMA NotPending ==
  ASSUME NEW r \in Runners, Clashes(r) = {}, dialect = "session" => Pending(r) = {}
  PROVE  Local(r) \subseteq plan[r] \cup Pending(r)
BY DEF Clashes, Pending, Lowest

\* What a step of one runner leaves of another.
LEMMA OthersStay ==
  ASSUME IInv, NEW r \in Runners, Call(r) \/ Step(r) \/ Crash(r), UNCHANGED config,
         NEW s \in Runners, s # r
  PROVE  /\ pc'[s] = pc[s] /\ op'[s] = op[s] /\ limit'[s] = limit[s]
         /\ plan'[s] = plan[s] /\ result'[s] = result[s]
         /\ pc[s] = "release" => recorded' = recorded
<1> USE DEF IInv, TypeOK, Goto, End, call, db, state
<1>1. CASE Call(r)
  BY <1>1 DEF Call
<1>2. CASE Acquire(r) \/ AcquireTimeout(r) \/ Release(r) \/ ReleaseFails(r)
  BY <1>2 DEF Acquire, AcquireTimeout, Release, ReleaseFails
<1>3. CASE Read(r) \/ Execute(r) \/ StepFails(r)
  BY <1>3 DEF Read, Execute, StepFails, Fail
<1>4. CASE Decide(r)
  BY <1>4 DEF Decide, DecideUp, DecideDown, Finish, Fail, Work
<1>5. ASSUME pc[r] = "commit" PROVE pc[s] # "release"
  BY <1>5, LockExcludes
<1>6. CASE Commit(r)
  BY <1>5, <1>6 DEF Commit
<1>7. CASE CommitFails(r)
  BY <1>5, <1>7 DEF CommitFails, Fail
<1>8. CASE Crash(r)
  BY <1>5, <1>8 DEF Crash
<1> QED  BY <1>1, <1>2, <1>3, <1>4, <1>6, <1>7, <1>8 DEF Step

LEMMA CompleteStays ==
  ASSUME NEW s \in Runners, Complete(s), UNCHANGED config,
         pc'[s] = pc[s], op'[s] = op[s], limit'[s] = limit[s], plan'[s] = plan[s],
         result'[s] = result[s], pc[s] = "release" => recorded' = recorded
  PROVE  Complete(s)'
<1>1. UNCHANGED <<dialect, files>>
  BY DEF config
<1>2. Local(s)' = Local(s) /\ Clashes(s)' = Clashes(s)
  BY <1>1 DEF Local, Clashes, Pending
<1> QED  BY <1>1, <1>2 DEF Complete

\* A runner's own step: only Decide brings it to a version or to a success.
LEMMA OwnComplete ==
  ASSUME IInv, NEW r \in Runners, Complete(r), Call(r) \/ Step(r) \/ Crash(r),
         UNCHANGED config
  PROVE  Complete(r)'
<1>1. ASSUME \/ pc'[r] \notin {"work", "commit", "release"}
             \/ pc'[r] = "release" /\ result'[r] = "error"
      PROVE  Complete(r)'
  BY <1>1 DEF Complete
<1>2. CASE Call(r)
  BY <1>1, <1>2 DEF Call, IInv, TypeOK
<1>3. CASE Acquire(r) \/ AcquireTimeout(r) \/ Release(r) \/ ReleaseFails(r)
  BY <1>1, <1>3 DEF Acquire, AcquireTimeout, Release, ReleaseFails, Goto, End, IInv, TypeOK
<1>4. CASE Read(r) \/ StepFails(r) \/ Commit(r) \/ CommitFails(r) \/ Crash(r)
  BY <1>1, <1>4 DEF Read, StepFails, Commit, CommitFails, Crash, Fail, Goto, End, IInv, TypeOK
<1>5. CASE Execute(r)
  <2>1. /\ pc[r] = "work" /\ pc'[r] = "commit"
        /\ UNCHANGED <<dialect, files, op, plan>>
    BY <1>5 DEF Execute, Goto, config, call, IInv, TypeOK
  <2>2. Clashes(r)' = Clashes(r)
    BY <2>1 DEF Local, Clashes, Pending
  <2> QED  BY <2>1, <2>2 DEF Complete
<1>6. CASE Decide(r)
  <2>1. /\ pc[r] = "decide" /\ plan[r] = recorded
        /\ UNCHANGED <<dialect, files, recorded, op, limit, plan>>
    BY <1>6 DEF Decide, config, db, call, IInv, PlanIsCurrent
  <2>2. Local(r)' = Local(r) /\ Clashes(r)' = Clashes(r)
    BY <2>1 DEF Local, Clashes, Pending
  <2>3. CASE op[r] # "up"
    BY <2>1, <2>3 DEF Complete
  <2>4. CASE op[r] = "up" /\ Fail(r)
    BY <1>1, <2>4 DEF Fail, End, Goto, IInv, TypeOK
  <2>5. CASE op[r] = "up" /\ ~Fail(r)
    <3>1. Clashes(r) = {} /\ op[r] = "up"
      BY <1>6, <2>5 DEF Decide, DecideUp
    <3>2. CASE Finish(r) /\ (Pending(r) = {} \/ limit[r] > 0)
      <4>1. pc'[r] = "release"
        BY <3>2 DEF Finish, End, Goto, IInv, TypeOK
      <4>2. limit[r] = 0 => Local(r) \subseteq recorded
        BY <2>1, <3>1, <3>2, NotPending
      <4> QED  BY <2>1, <2>2, <4>1, <4>2 DEF Complete
    <3>3. CASE \E m \in Pending(r) : Work(r, m)
      <4>1. pc'[r] = "work"
        BY <3>3 DEF Work, Goto, IInv, TypeOK
      <4> QED  BY <2>2, <3>1, <4>1 DEF Complete
    <3> QED  BY <1>6, <3>1, <3>2, <3>3 DEF Decide, DecideUp
  <2> QED  BY <2>3, <2>4, <2>5
<1> QED  BY <1>2, <1>3, <1>4, <1>5, <1>6 DEF Step

LEMMA NextComplete ==
  ASSUME IInv, AllComplete, [Next]_vars
  PROVE  AllComplete'
<1>1. CASE UNCHANGED vars \/ (SessionEnds /\ UNCHANGED config)
  <2>1. UNCHANGED <<config, recorded, op, limit, pc, plan, result>>
    BY <1>1 DEF vars, SessionEnds, db, call, state
  <2>2. \A s \in Runners : Complete(s)'
    BY <2>1, CompleteStays DEF AllComplete
  <2> QED  BY <2>2 DEF AllComplete
<1>2. ASSUME NEW r \in Runners, Call(r) \/ Step(r) \/ Crash(r), UNCHANGED config
      PROVE  AllComplete'
  <2>1. Complete(r)'
    BY <1>2, OwnComplete DEF AllComplete
  <2>2. ASSUME NEW s \in Runners, s # r PROVE Complete(s)'
    BY <1>2, <2>2, OthersStay, CompleteStays DEF AllComplete
  <2> QED  BY <2>1, <2>2 DEF AllComplete
<1> QED  BY <1>1, <1>2 DEF Next

\* How a call comes to an end with success.
LEMMA EndComplete ==
  ASSUME IInv, NEW r \in Runners, Complete(r), Call(r) \/ Step(r) \/ Crash(r),
         UNCHANGED config,
         pc[r] # "idle", pc'[r] = "idle", result'[r] = "ok", op[r] = "up", limit[r] = 0
  PROVE  Local(r) \subseteq recorded'
<1> USE DEF IInv, TypeOK, Goto, End
<1>1. ~Call(r) /\ ~Crash(r) /\ ~AcquireTimeout(r) /\ ~ReleaseFails(r)
  BY DEF Call, Crash, AcquireTimeout, ReleaseFails
<1>2. ~Acquire(r) /\ ~Read(r) /\ ~Execute(r) /\ ~StepFails(r) /\ ~CommitFails(r)
  BY DEF Acquire, Read, Execute, StepFails, CommitFails, Fail
<1>3. ~Decide(r)
  BY DEF Decide, DecideUp, DecideDown, Finish, Fail, Work
<1>4. CASE Release(r)
  BY <1>4 DEF Release, Complete, db
<1>5. CASE Commit(r)
  <2>1. /\ pc[r] = "commit" /\ dialect # "session" /\ Pending(r) = {at[r]}
        /\ recorded' = recorded \cup {at[r]}
    BY <1>5 DEF Commit, NoMore, Applied, Changed
  <2>2. Clashes(r) = {} /\ plan[r] = recorded
    BY <2>1 DEF Complete, PlanIsCurrent
  <2> QED  BY <2>1, <2>2, NotPending
<1> QED  BY <1>1, <1>2, <1>3, <1>4, <1>5 DEF Step

\* An Up that succeeds leaves none of its migrations pending (UpLeavesNothingPending),
\* for any number of processes: with SQLite too, which lets others in between versions.
THEOREM NothingPending == Spec => UpLeavesNothingPending
<1>1. Init => AllComplete
  BY DEF Init, AllComplete, Complete
<1>2. IInv /\ AllComplete /\ [Next]_vars => AllComplete'
  BY NextComplete
<1>3. ASSUME IInv, AllComplete, [Next]_vars, NEW r \in Runners,
             pc[r] # "idle", pc'[r] = "idle", result'[r] = "ok", op[r] = "up", limit[r] = 0
      PROVE  Local(r) \subseteq recorded'
  <2>1. CASE UNCHANGED vars \/ (SessionEnds /\ UNCHANGED config)
    BY <1>3, <2>1 DEF vars, SessionEnds, state
  <2>2. ASSUME NEW s \in Runners, Call(s) \/ Step(s) \/ Crash(s), UNCHANGED config
        PROVE  Local(r) \subseteq recorded'
    <3>1. s = r
      BY <1>3, <2>2, OthersStay
    <3> QED  BY <1>3, <2>2, <3>1, EndComplete DEF AllComplete
  <2> QED  BY <1>3, <2>1, <2>2 DEF Next
<1>4. IInv /\ AllComplete /\ [Next]_vars =>
        [\A r \in Runners :
           /\ pc[r] # "idle" /\ pc'[r] = "idle" /\ result'[r] = "ok"
           /\ op[r] = "up" /\ limit[r] = 0
           => Local(r) \subseteq recorded']_vars
  BY <1>3
<1> QED  BY <1>1, <1>2, <1>4, Invariance, PTL DEF Spec, UpLeavesNothingPending
=============================================================================
