----------------------------- MODULE QueueProofs -----------------------------
(***************************************************************************)
(* Theorems about Queue, for any number of jobs, names, workers and Stop   *)
(* calls, any buffer and any number of attempts: the invariants, and then  *)
(* that Queue implements JobLedger (initial states map to the ledger's,   *)
(* and each step to a step of the ledger or to none).                      *)
(***************************************************************************)
EXTENDS Queue, FiniteSetTheorems, FunctionTheorems, TLAPS

-----------------------------------------------------------------------------
(* The inductive invariant, in the parts its proof is split along. *)

\* closeMu: a submission past the check of closed, and a Start past its own,
\* still hold the read lock, so the queue is open.
Locks ==
  /\ \A j \in Jobs : enqueue[j] = "sending" => ~closed
  /\ start = "claimed" => ~closed
  /\ NoSendOnClosedChannel

\* The order in which Stop closes things.
Phases ==
  /\ \A s \in Stoppers : /\ stop[s] \in {"began", "locking"} => shutdown
                         /\ stop[s] \in {"waiting", "clean", "dropped", "expired"} => closed
                         /\ stop[s] = "clean" => finished /\ jobs = <<>>
  /\ closed => shutdown
  /\ cancelled => closed
  /\ finished => closed
  /\ start # "spawned" => /\ \A w \in Workers : worker[w] = "none"
                          /\ \A j \in Jobs : Unsettled(j)
  /\ finished => \A w \in Workers : worker[w] \in {"none", "exited"}

\* A worker holds a job exactly while it processes or reports one.
Hands ==
  \A w \in Workers :
    /\ inHand[w] # Nil <=> worker[w] \in Busy \cup {"report"}
    /\ worker[w] \in Busy => /\ Unsettled(inHand[w])
                             /\ runs[inHand[w]] = attempt[w]
                             /\ attempt[w] \in 1..MaxAttempts
    /\ worker[w] = "backoff" => attempt[w] < MaxAttempts
    /\ worker[w] = "report" => /\ fate[inHand[w]] \in {"failed", "abandoned"}
                               /\ reports[inHand[w]] = 0

\* A job no worker has taken has not run; a settled job no worker holds has
\* been reported unless it was processed.
Records ==
  \A j \in Jobs :
    /\ Unsettled(j) /\ ~Held(j) => runs[j] = 0
    /\ Unsettled(j) \/ fate[j] = "processed" => reports[j] = 0
    /\ fate[j] \in {"failed", "abandoned"} /\ ~Held(j) => reports[j] = 1

\* A worker that had a job in hand since the cancel never comes back to the receive.
Lateness ==
  \A w \in Workers :
    /\ late[w] <= 1
    /\ late[w] = 1 => cancelled /\ worker[w] # "receive"

IInv ==
  /\ TypeOK /\ Locks /\ Phases /\ OnePlace /\ Hands /\ Records
  /\ FateJustified /\ Lateness

-----------------------------------------------------------------------------
(* What the channel operations do to the sequence that stands for it. *)

\* A send puts the job behind the others (the select in Enqueue).
LEMMA SendAtBack ==
  ASSUME NEW q \in Seq(Jobs), NEW j \in Jobs
  PROVE  /\ Append(q, j) \in Seq(Jobs)
         /\ Len(Append(q, j)) = Len(q) + 1
         /\ \A i \in 1..Len(q) : Append(q, j)[i] = q[i]
         /\ Append(q, j)[Len(q) + 1] = j
  OBVIOUS

\* A receive takes the first job and moves the others up (the receive in run).
LEMMA ReceiveAtFront ==
  ASSUME NEW q \in Seq(Jobs), q # <<>>
  PROVE  /\ Len(q) \in Nat \ {0}
         /\ Head(q) = q[1] /\ Head(q) \in Jobs
         /\ Tail(q) \in Seq(Jobs)
         /\ Len(Tail(q)) = Len(q) - 1
         /\ \A i \in 1..(Len(q) - 1) : Tail(q)[i] = q[i + 1]
  OBVIOUS

-----------------------------------------------------------------------------

\* A conjunct holds on when none of the variables it reads changes.
LEMMA Undisturbed ==
  ASSUME IInv
  PROVE  /\ UNCHANGED <<enqueue, start, closed>> => Locks'
         /\ UNCHANGED <<jobs, shutdown, closed, finished, cancelled, stop, start,
                        worker, fate>> => Phases'
         /\ UNCHANGED <<jobs, enqueue, inHand, fate>> => OnePlace'
         /\ UNCHANGED <<worker, inHand, attempt, runs, fate, reports>> => Hands'
         /\ UNCHANGED <<inHand, runs, fate, reports>> => Records'
         /\ UNCHANGED <<snapshot, shutdown, runs, fate>> => FateJustified'
         /\ UNCHANGED <<cancelled, worker, late>> => Lateness'
  BY DEF IInv, Locks, NoSendOnClosedChannel, Phases, OnePlace, OnceInChannel,
     OneHolder, Accounted, InChannel, Held, Unsettled, Hands, Busy, Records,
     FateJustified, Lateness

\* Every step of Queue keeps the invariant: one step of the proof per action,
\* one conjunct at a time.
LEMMA StepIInv == IInv /\ [Next]_vars => IInv'
<1> USE QueueAssumption DEF callers, admission, closing, pool, counters, history
<1> SUFFICES ASSUME IInv, [Next]_vars PROVE IInv'
  OBVIOUS
<1>1. ASSUME NEW n \in Names, HandleCheck(n) PROVE IInv'
  <2>1. Locks' /\ Phases' /\ OnePlace' /\ Hands' /\ Records' /\ FateJustified' /\ Lateness'
    BY <1>1, Undisturbed DEF HandleCheck
  <2>2. TypeOK'
    BY <1>1 DEF IInv, HandleCheck, TypeOK
  <2> QED  BY <2>1, <2>2 DEF IInv
<1>2. ASSUME NEW n \in Names, HandleStore(n) PROVE IInv'
  <2>1. Locks' /\ Phases' /\ OnePlace' /\ Hands' /\ Records' /\ FateJustified' /\ Lateness'
    BY <1>2, Undisturbed DEF HandleStore
  <2>2. TypeOK'
    BY <1>2 DEF IInv, HandleStore, TypeOK
  <2> QED  BY <2>1, <2>2 DEF IInv
<1>3. ASSUME StartClaim PROVE IInv'
  <2>1. OnePlace' /\ Hands' /\ Records' /\ FateJustified' /\ Lateness'
    BY <1>3, Undisturbed DEF StartClaim
  <2>2. TypeOK'
    BY <1>3 DEF IInv, StartClaim, TypeOK
  <2>3. Locks'
    BY <1>3 DEF IInv, StartClaim, Locks, NoSendOnClosedChannel
  <2>4. Phases'
    BY <1>3 DEF IInv, StartClaim, Phases, Unsettled
  <2> QED  BY <2>1, <2>2, <2>3, <2>4 DEF IInv
<1>4. ASSUME StartSpawn PROVE IInv'
  <2>1. OnePlace' /\ Records'
    BY <1>4, Undisturbed DEF StartSpawn
  <2>2. TypeOK'
    BY <1>4 DEF IInv, StartSpawn, TypeOK
  <2>3. Locks'
    BY <1>4 DEF IInv, StartSpawn, Locks, NoSendOnClosedChannel
  <2>4. Phases'
    BY <1>4 DEF IInv, StartSpawn, TypeOK, Locks, Phases, Unsettled, HasReader
  <2>5. Hands'
    BY <1>4 DEF IInv, StartSpawn, Hands, Unsettled, TypeOK, Phases, OnePlace,
        OneHolder, Busy
  <2>6. FateJustified'
    BY <1>4 DEF IInv, StartSpawn, FateJustified, TypeOK, Phases, Hands, Records,
        Busy, Unsettled, Held
  <2>7. Lateness'
    BY <1>4 DEF IInv, StartSpawn, Lateness
  <2> QED  BY <2>1, <2>2, <2>3, <2>4, <2>5, <2>6, <2>7 DEF IInv
<1>5. ASSUME NEW j \in Jobs, EnqueueReject(j) PROVE IInv'
  <2>1. Phases' /\ Hands' /\ Records' /\ FateJustified' /\ Lateness'
    BY <1>5, Undisturbed DEF EnqueueReject
  <2>2. TypeOK'
    BY <1>5 DEF IInv, EnqueueReject, TypeOK
  <2>3. Locks'
    BY <1>5 DEF IInv, EnqueueReject, Locks, NoSendOnClosedChannel
  <2>4. OnePlace'
    BY <1>5 DEF IInv, EnqueueReject, OnePlace, OnceInChannel, OneHolder,
        Accounted, InChannel, Held, Unsettled
  <2> QED  BY <2>1, <2>2, <2>3, <2>4 DEF IInv
<1>6. ASSUME NEW j \in Jobs, EnqueueLookup(j) PROVE IInv'
  <2>1. Phases' /\ Hands' /\ Records' /\ FateJustified' /\ Lateness'
    BY <1>6, Undisturbed DEF EnqueueLookup
  <2>2. TypeOK'
    BY <1>6 DEF IInv, EnqueueLookup, TypeOK
  <2>3. Locks'
    BY <1>6 DEF IInv, EnqueueLookup, Locks, NoSendOnClosedChannel
  <2>4. OnePlace'
    BY <1>6 DEF IInv, EnqueueLookup, OnePlace, OnceInChannel, OneHolder,
        Accounted, InChannel, Held, Unsettled
  <2> QED  BY <2>1, <2>2, <2>3, <2>4 DEF IInv
<1>7. ASSUME NEW j \in Jobs, EnqueueLock(j) PROVE IInv'
  <2>1. Phases' /\ Hands' /\ Records' /\ FateJustified' /\ Lateness'
    BY <1>7, Undisturbed DEF EnqueueLock
  <2>2. TypeOK'
    BY <1>7 DEF IInv, EnqueueLock, TypeOK
  <2>3. Locks'
    BY <1>7 DEF IInv, EnqueueLock, Locks, NoSendOnClosedChannel
  <2>4. OnePlace'
    BY <1>7 DEF IInv, EnqueueLock, OnePlace, OnceInChannel, OneHolder,
        Accounted, InChannel, Held, Unsettled
  <2> QED  BY <2>1, <2>2, <2>3, <2>4 DEF IInv
<1>8. ASSUME NEW j \in Jobs, EnqueueSend(j) PROVE IInv'
  <2>a. /\ Append(jobs, j) \in Seq(Jobs)
        /\ Len(Append(jobs, j)) = Len(jobs) + 1
        /\ \A i \in 1..Len(jobs) : Append(jobs, j)[i] = jobs[i]
        /\ Append(jobs, j)[Len(jobs) + 1] = j
    BY SendAtBack DEF IInv, TypeOK
  <2>b. \/ /\ jobs' = jobs /\ enqueue'[j] # "accepted"
        \/ /\ jobs' = Append(jobs, j) /\ Len(jobs) < Buffer
           /\ enqueue' = [enqueue EXCEPT ![j] = "accepted"]
    BY <1>8 DEF IInv, EnqueueSend, TypeOK
  <2>1. Hands' /\ Records' /\ FateJustified' /\ Lateness'
    BY <1>8, Undisturbed DEF EnqueueSend
  <2>2. TypeOK'
    <3>1. jobs' \in Seq(Jobs) /\ Len(jobs') <= Buffer
      <4>1. Len(jobs) \in Nat /\ Len(jobs) <= Buffer /\ jobs \in Seq(Jobs)
        BY DEF IInv, TypeOK
      <4>2. CASE jobs' = jobs
        BY <4>1, <4>2
      <4>3. CASE jobs' = Append(jobs, j) /\ Len(jobs) < Buffer
        <5>1. jobs' \in Seq(Jobs) /\ Len(jobs') = Len(jobs) + 1
          BY <2>a, <4>3
        <5> QED  BY <4>1, <4>3, <5>1
      <4> QED  BY <2>b, <4>2, <4>3
    <3>2. enqueue' \in [Jobs -> {"idle", "rejected", "found", "sending",
                                 "accepted", "full", "closed", "panicked"}]
      <4>1. \E v \in {"panicked", "accepted", "full"} : enqueue' = [enqueue EXCEPT ![j] = v]
        BY <1>8 DEF EnqueueSend
      <4> QED  BY <4>1 DEF IInv, TypeOK
    <3>4. refused' \in Nat
      <4>1. refused' = refused \/ refused' = refused + 1
        BY <1>8 DEF EnqueueSend
      <4> QED  BY <4>1 DEF IInv, TypeOK
    <3>3. UNCHANGED <<callers, closing, pool, counters, history>>
      BY <1>8 DEF EnqueueSend
    <3> QED  BY <3>1, <3>2, <3>3, <3>4 DEF IInv, TypeOK
  <2>3. Locks'
    BY <1>8 DEF IInv, EnqueueSend, TypeOK, Locks, NoSendOnClosedChannel,
        HasReader
  <2>4. Phases'
    BY <1>8 DEF IInv, EnqueueSend, Phases, Unsettled
  <2>5. OnePlace'
    <3>1. /\ \A k \in Jobs : k # j => enqueue'[k] = enqueue[k]
          /\ \A k \in Jobs : (Held(k)' <=> Held(k)) /\ (Unsettled(k)' <=> Unsettled(k))
      BY <1>8 DEF IInv, EnqueueSend, TypeOK, Held, Unsettled
    <3>2. OneHolder'
      BY <1>8 DEF IInv, EnqueueSend, OnePlace, OneHolder
    <3>3. enqueue[j] # "accepted" /\ ~InChannel(j) /\ ~Held(j) /\ Unsettled(j)
      BY <1>8 DEF IInv, EnqueueSend, OnePlace, Accounted
    <3>4. CASE jobs' = jobs /\ enqueue'[j] # "accepted"
      BY <3>1, <3>2, <3>3, <3>4 DEF IInv, OnePlace, OnceInChannel, Accounted, InChannel
    <3>5. CASE jobs' = Append(jobs, j) /\ enqueue' = [enqueue EXCEPT ![j] = "accepted"]
      <4>1. Len(jobs') = Len(jobs) + 1 /\ Len(jobs) \in Nat
        BY <2>a, <3>5 DEF IInv, TypeOK
      <4>2. /\ \A i \in 1..Len(jobs) : jobs'[i] = jobs[i]
            /\ jobs'[Len(jobs) + 1] = j
        BY <2>a, <3>5
      <4>3. \A k \in Jobs : InChannel(k)' <=> InChannel(k) \/ k = j
        BY <4>1, <4>2 DEF InChannel
      <4>4. OnceInChannel'
        BY <3>3, <4>1, <4>2 DEF IInv, OnePlace, OnceInChannel, InChannel
      <4>5. enqueue'[j] = "accepted"
        BY <3>5 DEF IInv, TypeOK
      <4>6. \A k \in Jobs : Accounted(k)'
        BY <3>1, <3>3, <4>3, <4>5 DEF IInv, OnePlace, Accounted
      <4> QED  BY <3>2, <4>4, <4>6 DEF OnePlace
    <3> QED  BY <2>b, <3>4, <3>5
  <2> QED  BY <2>1, <2>2, <2>3, <2>4, <2>5 DEF IInv
<1>9. ASSUME NEW s \in Stoppers, StopBegin(s) PROVE IInv'
  <2>1. Locks' /\ OnePlace' /\ Hands' /\ Records' /\ Lateness'
    BY <1>9, Undisturbed DEF StopBegin
  <2>2. TypeOK'
    BY <1>9 DEF IInv, StopBegin, TypeOK
  <2>3. Phases'
    BY <1>9 DEF IInv, StopBegin, Phases, Unsettled
  <2>4. FateJustified'
    BY <1>9 DEF IInv, StopBegin, FateJustified
  <2> QED  BY <2>1, <2>2, <2>3, <2>4 DEF IInv
<1>10. ASSUME NEW s \in Stoppers, StopLock(s) PROVE IInv'
  <2>1. Locks' /\ OnePlace' /\ Hands' /\ Records' /\ FateJustified' /\ Lateness'
    BY <1>10, Undisturbed DEF StopLock
  <2>2. TypeOK'
    BY <1>10 DEF IInv, StopLock, TypeOK
  <2>3. Phases'
    BY <1>10 DEF IInv, StopLock, Phases, Unsettled
  <2> QED  BY <2>1, <2>2, <2>3 DEF IInv
<1>11. ASSUME NEW s \in Stoppers, StopClose(s) PROVE IInv'
  <2>1. OnePlace' /\ Hands' /\ Records' /\ FateJustified' /\ Lateness'
    BY <1>11, Undisturbed DEF StopClose
  <2>2. TypeOK'
    BY <1>11 DEF IInv, StopClose, TypeOK
  <2>3. Locks'
    BY <1>11 DEF IInv, StopClose, TypeOK, Locks, NoSendOnClosedChannel,
        HasReader
  <2>4. Phases'
    BY <1>11 DEF IInv, StopClose, Phases, Unsettled
  <2> QED  BY <2>1, <2>2, <2>3, <2>4 DEF IInv
<1>12. ASSUME NEW s \in Stoppers, StopJoin(s) PROVE IInv'
  <2>1. Locks' /\ OnePlace' /\ Hands' /\ Records' /\ FateJustified' /\ Lateness'
    BY <1>12, Undisturbed DEF StopJoin
  <2>2. TypeOK'
    BY <1>12 DEF IInv, StopJoin, TypeOK
  <2>3. Phases'
    BY <1>12 DEF IInv, StopJoin, Phases, Unsettled
  <2> QED  BY <2>1, <2>2, <2>3 DEF IInv
<1>13. ASSUME NEW s \in Stoppers, StopReturn(s) PROVE IInv'
  <2>1. Locks' /\ OnePlace' /\ Hands' /\ Records' /\ FateJustified' /\ Lateness'
    BY <1>13, Undisturbed DEF StopReturn
  <2>2. TypeOK'
    BY <1>13 DEF IInv, StopReturn, TypeOK
  <2>3. Phases'
    BY <1>13 DEF IInv, StopReturn, Phases, Unsettled
  <2> QED  BY <2>1, <2>2, <2>3 DEF IInv
<1>14. ASSUME NEW s \in Stoppers, StopExpire(s) PROVE IInv'
  <2>1. Locks' /\ OnePlace' /\ Hands' /\ Records' /\ FateJustified'
    BY <1>14, Undisturbed DEF StopExpire
  <2>2. TypeOK'
    BY <1>14 DEF IInv, StopExpire, TypeOK
  <2>3. Phases'
    BY <1>14 DEF IInv, StopExpire, Phases, Unsettled
  <2>4. Lateness'
    <3>1. CASE cancelled
      BY <1>14, <3>1 DEF IInv, StopExpire, Lateness
    <3>2. CASE ~cancelled
      <4>1. \A w \in Workers : late'[w] = (IF inHand[w] = Nil THEN 0 ELSE 1)
        BY <1>14, <3>2 DEF StopExpire
      <4>2. \A w \in Workers : inHand[w] # Nil => worker[w] # "receive"
        BY DEF IInv, Hands, Busy
      <4>3. worker' = worker /\ cancelled'
        BY <1>14 DEF StopExpire
      <4> QED  BY <4>1, <4>2, <4>3 DEF Lateness
    <3> QED  BY <3>1, <3>2
  <2> QED  BY <2>1, <2>2, <2>3, <2>4 DEF IInv
<1>15. ASSUME DrainFinish PROVE IInv'
  <2>1. Locks' /\ OnePlace' /\ Hands' /\ Records' /\ FateJustified' /\ Lateness'
    BY <1>15, Undisturbed DEF DrainFinish
  <2>2. TypeOK'
    BY <1>15 DEF IInv, DrainFinish, TypeOK
  <2>3. Phases'
    BY <1>15 DEF IInv, DrainFinish, Phases, Unsettled
  <2> QED  BY <2>1, <2>2, <2>3 DEF IInv
<1>16. ASSUME NEW w \in Workers, WorkerCheck(w) PROVE IInv'
  <2>1. Locks' /\ OnePlace' /\ Records' /\ FateJustified'
    BY <1>16, Undisturbed DEF WorkerCheck
  <2>2. TypeOK'
    BY <1>16 DEF IInv, WorkerCheck, TypeOK
  <2>3. Phases'
    BY <1>16 DEF IInv, WorkerCheck, Phases, Unsettled
  <2>4. Hands'
    BY <1>16 DEF IInv, WorkerCheck, Hands, Unsettled, TypeOK, Phases, OnePlace,
        OneHolder, Busy
  <2>5. Lateness'
    BY <1>16 DEF IInv, WorkerCheck, Lateness
  <2> QED  BY <2>1, <2>2, <2>3, <2>4, <2>5 DEF IInv
<1>17. ASSUME NEW w \in Workers, WorkerExit(w) PROVE IInv'
  <2>1. Locks' /\ OnePlace' /\ Records' /\ FateJustified'
    BY <1>17, Undisturbed DEF WorkerExit
  <2>2. TypeOK'
    BY <1>17 DEF IInv, WorkerExit, TypeOK
  <2>3. Phases'
    BY <1>17 DEF IInv, WorkerExit, Phases, Unsettled
  <2>4. Hands'
    BY <1>17 DEF IInv, WorkerExit, Hands, Unsettled, TypeOK, Phases, OnePlace,
        OneHolder, Busy
  <2>5. Lateness'
    BY <1>17 DEF IInv, WorkerExit, Lateness
  <2> QED  BY <2>1, <2>2, <2>3, <2>4, <2>5 DEF IInv
<1>18. ASSUME NEW w \in Workers, WorkerReceive(w) PROVE IInv'
  <2> DEFINE j == Head(jobs)
  <2>a. /\ Len(jobs) \in Nat \ {0}
        /\ j = jobs[1] /\ j \in Jobs
        /\ jobs' \in Seq(Jobs) /\ Len(jobs') = Len(jobs) - 1
        /\ \A i \in 1..Len(jobs') : jobs'[i] = jobs[i + 1]
    BY <1>18, ReceiveAtFront DEF IInv, TypeOK, WorkerReceive
  <2>b. InChannel(j)
    BY <2>a DEF InChannel
  <2>c. enqueue[j] = "accepted" /\ Unsettled(j) /\ ~Held(j) /\ runs[j] = 0
    BY <2>a, <2>b DEF IInv, OnePlace, Accounted, Records
  <2>d. inHand[w] = Nil
    BY <1>18 DEF IInv, WorkerReceive, Hands, Busy
  <2>e. inHand' = [inHand EXCEPT ![w] = j] /\ attempt' = [attempt EXCEPT ![w] = 1]
    BY <1>18 DEF WorkerReceive
  <2>f. /\ late' = [late EXCEPT ![w] = IF cancelled THEN @ + 1 ELSE @]
        /\ \/ /\ NameOf[j] \in snapshot
              /\ worker' = [worker EXCEPT ![w] = "running"]
              /\ runs' = [runs EXCEPT ![j] = @ + 1]
              /\ UNCHANGED <<failed, fate>>
           \/ /\ NameOf[j] \notin snapshot
              /\ worker' = [worker EXCEPT ![w] = "report"]
              /\ failed' = failed + 1
              /\ fate' = [fate EXCEPT ![j] = "failed"]
              /\ UNCHANGED runs
        /\ UNCHANGED <<callers, admission, closing, processed, abandoned, reports>>
    BY <1>18 DEF WorkerReceive
  <2> HIDE DEF j
  <2>1. Locks'
    BY <1>18, Undisturbed DEF WorkerReceive
  <2>2. TypeOK'
    <3>1. Len(jobs') <= Buffer
      BY <2>a DEF IInv, TypeOK
    <3>2. worker' \in [Workers -> {"none", "check", "receive", "running",
                                   "backoff", "report", "exited"}]
      <4>1. \E v \in {"running", "report"} : worker' = [worker EXCEPT ![w] = v]
        BY <2>f
      <4> QED  BY <4>1 DEF IInv, TypeOK
    <3>3. runs' \in [Jobs -> Nat]
      <4>1. runs' = runs \/ runs' = [runs EXCEPT ![j] = @ + 1]
        BY <2>f
      <4> QED  BY <2>a, <4>1 DEF IInv, TypeOK
    <3>4. fate' \in [Jobs -> Fates \cup {"none"}] /\ failed' \in Nat
      <4>1. CASE fate' = fate /\ failed' = failed
        BY <4>1 DEF IInv, TypeOK
      <4>2. CASE fate' = [fate EXCEPT ![j] = "failed"] /\ failed' = failed + 1
        BY <2>a, <4>2 DEF IInv, TypeOK, Fates
      <4> QED  BY <2>f, <4>1, <4>2
    <3>5. late' \in [Workers -> Nat]
      BY <2>f DEF IInv, TypeOK
    <3>6. /\ inHand' \in [Workers -> Jobs \cup {Nil}]
          /\ attempt' \in [Workers -> Nat]
      BY <2>a, <2>e DEF IInv, TypeOK
    <3> QED  BY <2>a, <2>f, <3>1, <3>2, <3>3, <3>4, <3>5, <3>6 DEF IInv, TypeOK
  <2>3. Phases'
    BY <1>18 DEF IInv, WorkerReceive, Phases, Unsettled
  <2>4. OnePlace'
    <3>1. OnceInChannel'
      BY <2>a DEF IInv, OnePlace, OnceInChannel
    <3>2. OneHolder'
      BY <2>a, <2>c, <2>e DEF IInv, TypeOK, OnePlace, OneHolder, Held
    <3>3. \A k \in Jobs : InChannel(k)' <=> InChannel(k) /\ k # j
      <4>1. ASSUME NEW k \in Jobs, NEW i \in 1..Len(jobs), jobs[i] = k, k # j
            PROVE  i - 1 \in 1..Len(jobs') /\ jobs'[i - 1] = k
        BY <2>a, <4>1
      <4> QED  BY <2>a, <4>1 DEF IInv, OnePlace, OnceInChannel, InChannel
    <3>4. \A k \in Jobs : Held(k)' <=> Held(k) \/ k = j
      BY <2>a, <2>d, <2>e, QueueAssumption DEF IInv, TypeOK, Held
    <3>5. /\ enqueue' = enqueue
          /\ \A k \in Jobs : k # j => (Unsettled(k)' <=> Unsettled(k))
      <4>1. ASSUME NEW k \in Jobs, k # j
            PROVE  runs'[k] = runs[k] /\ fate'[k] = fate[k] /\ reports'[k] = reports[k]
        BY <2>a, <2>f, <4>1 DEF IInv, TypeOK
      <4> QED  BY <2>f, <4>1 DEF Unsettled
    <3>6. \A k \in Jobs : Accounted(k)'
      BY <2>c, <3>3, <3>4, <3>5 DEF IInv, OnePlace, Accounted
    <3> QED  BY <3>1, <3>2, <3>6 DEF OnePlace
  <2>5. Hands'
    <3>1. \A v \in Workers : v # w => inHand[v] # j
      BY <2>c DEF Held
    <3>2. CASE NameOf[j] \in snapshot /\ worker' = [worker EXCEPT ![w] = "running"]
      BY <2>a, <2>c, <2>e, <2>f, <3>1, <3>2, QueueAssumption
      DEF IInv, TypeOK, Hands, Busy, Unsettled
    <3>3. CASE NameOf[j] \notin snapshot /\ worker' = [worker EXCEPT ![w] = "report"]
      BY <2>a, <2>c, <2>e, <2>f, <3>1, <3>3, QueueAssumption
      DEF IInv, TypeOK, Hands, Busy, Records, Unsettled
    <3> QED  BY <2>f, <3>2, <3>3
  <2>6. Records'
    <3>1. \A k \in Jobs : Held(k)' <=> Held(k) \/ k = j
      BY <2>a, <2>d, <2>e, QueueAssumption DEF IInv, TypeOK, Held
    <3> QED
      BY <2>a, <2>c, <2>f, <3>1 DEF IInv, TypeOK, Records, Unsettled
  <2>7. FateJustified'
    <3>1. \A k \in Jobs : k # j => runs'[k] = runs[k] /\ fate'[k] = fate[k]
      BY <2>a, <2>f DEF IInv, TypeOK
    <3>2. \/ runs'[j] = 1 /\ fate'[j] = "none"
          \/ runs'[j] = 0 /\ fate'[j] = "failed" /\ NameOf[j] \notin snapshot
      BY <2>a, <2>c, <2>f DEF IInv, TypeOK, Unsettled
    <3>3. UNCHANGED <<shutdown, snapshot>>
      BY <2>f
    <3> QED  BY <3>1, <3>2, <3>3 DEF IInv, FateJustified
  <2>8. Lateness'
    <3>1. late[w] = 0
      BY <1>18 DEF IInv, WorkerReceive, Lateness, TypeOK
    <3>2. late'[w] <= 1 /\ (late'[w] = 1 => cancelled)
      BY <2>f, <3>1 DEF IInv, TypeOK
    <3>3. worker'[w] # "receive"
      BY <2>f DEF IInv, TypeOK
    <3>4. \A v \in Workers : v # w => late'[v] = late[v] /\ worker'[v] = worker[v]
      BY <2>f DEF IInv, TypeOK
    <3> QED  BY <2>f, <3>2, <3>3, <3>4 DEF IInv, Lateness
  <2> QED  BY <2>1, <2>2, <2>3, <2>4, <2>5, <2>6, <2>7, <2>8 DEF IInv
<1>19. ASSUME NEW w \in Workers, WorkerSucceed(w) PROVE IInv'
  <2>1. Locks'
    BY <1>19, Undisturbed DEF WorkerSucceed
  <2>2. TypeOK'
    BY <1>19 DEF IInv, WorkerSucceed, TypeOK, Hands, Fates, Busy
  <2>3. Phases'
    BY <1>19 DEF IInv, WorkerSucceed, Phases, Unsettled
  <2>4. OnePlace'
    <3>1. inHand[w] \in Jobs
      BY <1>19 DEF IInv, WorkerSucceed, TypeOK, Hands, Busy
    <3>2. \A k \in Jobs : Held(k)' <=> Held(k) /\ k # inHand[w]
      BY <1>19, <3>1, QueueAssumption DEF IInv, WorkerSucceed, TypeOK, OnePlace, OneHolder, Held

    <3>3. enqueue[inHand[w]] = "accepted" /\ ~InChannel(inHand[w])
      BY <1>19, <3>1 DEF IInv, WorkerSucceed, OnePlace, Accounted, Held, Hands, Unsettled
    <3>4. /\ enqueue' = enqueue
          /\ \A k \in Jobs : /\ Unsettled(k)' <=> Unsettled(k) /\ k # inHand[w]
                             /\ InChannel(k)' <=> InChannel(k)
      BY <1>19 DEF IInv, WorkerSucceed, TypeOK, InChannel, Unsettled
    <3>5. \A k \in Jobs : Accounted(k)'
      BY <3>1, <3>2, <3>3, <3>4 DEF IInv, OnePlace, Accounted
    <3>6. OnceInChannel' /\ OneHolder'
      BY <1>19 DEF IInv, WorkerSucceed, TypeOK, OnePlace, OnceInChannel, OneHolder
    <3> QED  BY <3>5, <3>6 DEF OnePlace
  <2>5. Hands'
    BY <1>19 DEF IInv, WorkerSucceed, Hands, Unsettled, TypeOK, Phases,
        OnePlace, OneHolder, Busy
  <2>6. Records'
    BY <1>19 DEF IInv, WorkerSucceed, Records, Held, Unsettled, TypeOK,
        OnePlace, OneHolder, Hands, Busy
  <2>7. FateJustified'
    BY <1>19 DEF IInv, WorkerSucceed, FateJustified, TypeOK, Phases, Hands,
        Records, Busy, Unsettled, Held
  <2>8. Lateness'
    BY <1>19 DEF IInv, WorkerSucceed, Lateness
  <2> QED  BY <2>1, <2>2, <2>3, <2>4, <2>5, <2>6, <2>7, <2>8 DEF IInv
<1>20. ASSUME NEW w \in Workers, WorkerRetry(w) PROVE IInv'
  <2>1. Locks' /\ OnePlace' /\ Records' /\ FateJustified'
    BY <1>20, Undisturbed DEF WorkerRetry
  <2>2. TypeOK'
    BY <1>20 DEF IInv, WorkerRetry, TypeOK
  <2>3. Phases'
    BY <1>20 DEF IInv, WorkerRetry, Phases, Unsettled
  <2>4. Hands'
    BY <1>20 DEF IInv, WorkerRetry, Hands, Unsettled, TypeOK, Phases, OnePlace,
        OneHolder, Busy
  <2>5. Lateness'
    BY <1>20 DEF IInv, WorkerRetry, Lateness
  <2> QED  BY <2>1, <2>2, <2>3, <2>4, <2>5 DEF IInv
<1>21. ASSUME NEW w \in Workers, WorkerGiveUp(w) PROVE IInv'
  <2>1. Locks'
    BY <1>21, Undisturbed DEF WorkerGiveUp
  <2>2. TypeOK'
    BY <1>21 DEF IInv, WorkerGiveUp, TypeOK, Hands, Fates, Busy
  <2>3. Phases'
    BY <1>21 DEF IInv, WorkerGiveUp, Phases, Unsettled
  <2>4. OnePlace'
    BY <1>21 DEF IInv, WorkerGiveUp, OnePlace, OnceInChannel, OneHolder,
        Accounted, InChannel, Held, Unsettled
  <2>5. Hands'
    <3>1. \A v \in Workers : v # w /\ inHand[v] # Nil => inHand[v] # inHand[w]
      BY DEF IInv, OnePlace, OneHolder
    <3>2. inHand[w] \in Jobs
      BY <1>21 DEF IInv, WorkerGiveUp, TypeOK, Hands, Busy
    <3> QED
      BY <1>21, <3>1, <3>2 DEF IInv, WorkerGiveUp, TypeOK, Hands, Records, Busy, Unsettled
  <2>6. Records'
    BY <1>21 DEF IInv, WorkerGiveUp, Records, Held, Unsettled
  <2>7. FateJustified'
    BY <1>21 DEF IInv, WorkerGiveUp, FateJustified, TypeOK, Phases, Hands,
        Records, Busy, Unsettled, Held
  <2>8. Lateness'
    BY <1>21 DEF IInv, WorkerGiveUp, Lateness
  <2> QED  BY <2>1, <2>2, <2>3, <2>4, <2>5, <2>6, <2>7, <2>8 DEF IInv
<1>22. ASSUME NEW w \in Workers, WorkerWake(w) PROVE IInv'
  <2>1. Locks' /\ OnePlace'
    BY <1>22, Undisturbed DEF WorkerWake
  <2>2. TypeOK'
    BY <1>22 DEF IInv, WorkerWake, TypeOK, Hands, Fates, Busy
  <2>3. Phases'
    BY <1>22 DEF IInv, WorkerWake, Phases, Unsettled
  <2>4. Hands'
    BY <1>22 DEF IInv, WorkerWake, Hands, Unsettled, TypeOK, Phases, OnePlace,
        OneHolder, Busy
  <2>5. Records'
    BY <1>22 DEF IInv, WorkerWake, Records, Held, Unsettled
  <2>6. FateJustified'
    BY <1>22 DEF IInv, WorkerWake, FateJustified, TypeOK, Phases, Hands,
        Records, Busy, Unsettled, Held
  <2>7. Lateness'
    BY <1>22 DEF IInv, WorkerWake, Lateness
  <2> QED  BY <2>1, <2>2, <2>3, <2>4, <2>5, <2>6, <2>7 DEF IInv
<1>23. ASSUME NEW w \in Workers, WorkerAbandon(w) PROVE IInv'
  <2>1. Locks'
    BY <1>23, Undisturbed DEF WorkerAbandon
  <2>2. TypeOK'
    BY <1>23 DEF IInv, WorkerAbandon, TypeOK, Hands, Fates, Busy
  <2>3. Phases'
    BY <1>23 DEF IInv, WorkerAbandon, Phases, Unsettled
  <2>4. OnePlace'
    BY <1>23 DEF IInv, WorkerAbandon, OnePlace, OnceInChannel, OneHolder,
        Accounted, InChannel, Held, Unsettled
  <2>5. Hands'
    <3>1. \A v \in Workers : v # w /\ inHand[v] # Nil => inHand[v] # inHand[w]
      BY DEF IInv, OnePlace, OneHolder
    <3>2. inHand[w] \in Jobs
      BY <1>23 DEF IInv, WorkerAbandon, TypeOK, Hands, Busy
    <3> QED
      BY <1>23, <3>1, <3>2 DEF IInv, WorkerAbandon, TypeOK, Hands, Records, Busy, Unsettled
  <2>6. Records'
    BY <1>23 DEF IInv, WorkerAbandon, Records, Held, Unsettled
  <2>7. FateJustified'
    BY <1>23 DEF IInv, WorkerAbandon, FateJustified, TypeOK, Phases, Hands,
        Records, Busy, Unsettled, Held
  <2>8. Lateness'
    BY <1>23 DEF IInv, WorkerAbandon, Lateness
  <2> QED  BY <2>1, <2>2, <2>3, <2>4, <2>5, <2>6, <2>7, <2>8 DEF IInv
<1>24. ASSUME NEW w \in Workers, WorkerReport(w) PROVE IInv'
  <2>1. Locks' /\ FateJustified'
    BY <1>24, Undisturbed DEF WorkerReport
  <2>2. TypeOK'
    BY <1>24 DEF IInv, WorkerReport, TypeOK, Hands, Fates, Busy
  <2>3. Phases'
    BY <1>24 DEF IInv, WorkerReport, Phases, Unsettled
  <2>4. OnePlace'
    <3>1. inHand[w] \in Jobs
      BY <1>24 DEF IInv, WorkerReport, TypeOK, Hands, Busy
    <3>2. \A k \in Jobs : Held(k)' <=> Held(k) /\ k # inHand[w]
      BY <1>24, <3>1, QueueAssumption DEF IInv, WorkerReport, TypeOK, OnePlace, OneHolder, Held

    <3>3. enqueue[inHand[w]] = "accepted" /\ ~InChannel(inHand[w]) /\ ~Unsettled(inHand[w])
      BY <1>24, <3>1 DEF IInv, WorkerReport, OnePlace, Accounted, Held, Hands, Unsettled
    <3>4. /\ enqueue' = enqueue
          /\ \A k \in Jobs : /\ Unsettled(k)' <=> Unsettled(k)
                             /\ InChannel(k)' <=> InChannel(k)
      BY <1>24 DEF IInv, WorkerReport, TypeOK, InChannel, Unsettled
    <3>5. \A k \in Jobs : Accounted(k)'
      BY <3>1, <3>2, <3>3, <3>4 DEF IInv, OnePlace, Accounted
    <3>6. OnceInChannel' /\ OneHolder'
      BY <1>24 DEF IInv, WorkerReport, TypeOK, OnePlace, OnceInChannel, OneHolder
    <3> QED  BY <3>5, <3>6 DEF OnePlace
  <2>5. Hands'
    BY <1>24 DEF IInv, WorkerReport, Hands, Unsettled, TypeOK, Phases, OnePlace,
        OneHolder, Busy
  <2>6. Records'
    <3>1. inHand[w] \in Jobs
      BY <1>24 DEF IInv, WorkerReport, TypeOK, Hands, Busy
    <3>2. \A k \in Jobs : Held(k)' <=> Held(k) /\ k # inHand[w]
      BY <1>24, <3>1, QueueAssumption DEF IInv, WorkerReport, TypeOK, OnePlace, OneHolder, Held

    <3>3. reports[inHand[w]] = 0 /\ fate[inHand[w]] \in {"failed", "abandoned"}
      BY <1>24 DEF IInv, WorkerReport, Hands
    <3>4. /\ runs' = runs /\ fate' = fate
          /\ reports' = [reports EXCEPT ![inHand[w]] = @ + 1]
      BY <1>24 DEF WorkerReport
    <3> QED
      BY <3>1, <3>2, <3>3, <3>4 DEF IInv, TypeOK, Records, Unsettled
  <2>7. Lateness'
    BY <1>24 DEF IInv, WorkerReport, Lateness
  <2> QED  BY <2>1, <2>2, <2>3, <2>4, <2>5, <2>6, <2>7 DEF IInv
<1>25. CASE UNCHANGED vars
  BY <1>25 DEF vars, IInv, TypeOK, Locks, NoSendOnClosedChannel, Phases,
    Unsettled, OnePlace, OnceInChannel, OneHolder, Accounted, InChannel, Held,
    Unsettled, Hands, Unsettled, Records, Held, Unsettled, FateJustified,
    Lateness, Busy
<1> QED  BY <1>1, <1>2, <1>3, <1>4, <1>5, <1>6, <1>7, <1>8, <1>9, <1>10, <1>11,
    <1>12, <1>13, <1>14, <1>15, <1>16, <1>17, <1>18, <1>19, <1>20, <1>21, <1>22,
    <1>23, <1>24, <1>25 DEF Next,
    Registration, Start, Enqueue, Stop, Run

-----------------------------------------------------------------------------
(* Theorems *)

\* A queue fresh from NewMemory satisfies the invariant.
LEMMA InitIInv == Init => IInv
<1> USE QueueAssumption
<1> SUFFICES ASSUME Init PROVE IInv
  OBVIOUS
<1>1. TypeOK
  <2>1. jobs \in Seq(Jobs) /\ Len(jobs) <= Buffer
    BY DEF Init
  <2>2. /\ handlers \subseteq Names /\ snapshot \subseteq Names
        /\ handle \in [Names -> {"idle", "checked"}]
        /\ start \in {"idle", "claimed", "spawned"}
        /\ enqueue \in [Jobs -> {"idle", "rejected", "found", "sending",
                                 "accepted", "full", "closed", "panicked"}]
    BY DEF Init
  <2>3. /\ inHand \in [Workers -> Jobs \cup {Nil}]
        /\ worker \in [Workers -> {"none", "check", "receive", "running",
                                   "backoff", "report", "exited"}]
        /\ stop \in [Stoppers -> {"idle", "began", "locking", "waiting",
                                  "clean", "dropped", "expired"}]
    BY DEF Init
  <2>4. /\ attempt \in [Workers -> Nat] /\ late \in [Workers -> Nat]
        /\ runs \in [Jobs -> Nat] /\ reports \in [Jobs -> Nat]
        /\ fate \in [Jobs -> Fates \cup {"none"}]
    BY DEF Init, Fates
  <2> QED  BY <2>1, <2>2, <2>3, <2>4 DEF Init, TypeOK
<1>2. Locks
  BY DEF Init, Locks, NoSendOnClosedChannel
<1>3. Phases
  BY DEF Init, Phases, Unsettled
<1>4. \A j \in Jobs : ~InChannel(j) /\ ~Held(j) /\ Unsettled(j)
  BY DEF Init, InChannel, Held, Unsettled
<1>5. OnePlace
  BY <1>4 DEF Init, OnePlace, OnceInChannel, OneHolder, Accounted
<1>6. Hands /\ Lateness
  BY DEF Init, Hands, Busy, Lateness
<1>7. Records /\ FateJustified
  BY <1>4 DEF Init, Records, FateJustified, Unsettled
<1> QED  BY <1>1, <1>2, <1>3, <1>5, <1>6, <1>7 DEF IInv

\* The inductive invariant holds in every reachable state.
THEOREM Invariance == Spec => []IInv
BY InitIInv, StepIInv, PTL DEF Spec

\* The variables keep their types: the channel never exceeds its buffer.
THEOREM TypeCorrect == Spec => []TypeOK
<1>1. IInv => TypeOK
  BY DEF IInv
<1> QED  BY <1>1, Invariance, PTL

\* No submission ever sends on the closed channel (Enqueue against Stop).
THEOREM NoPanickingSend == Spec => []NoSendOnClosedChannel
<1>1. IInv => NoSendOnClosedChannel
  BY DEF IInv, Locks
<1> QED  BY <1>1, Invariance, PTL

\* No accepted job is lost, duplicated or held by two workers.
THEOREM JobsConserved == Spec => []OnePlace
<1>1. IInv => OnePlace
  BY DEF IInv
<1> QED  BY <1>1, Invariance, PTL

\* Jobs fail, succeed and are abandoned only as process allows.
THEOREM FatesJustified == Spec => []FateJustified
<1>1. IInv => FateJustified
  BY DEF IInv
<1> QED  BY <1>1, Invariance, PTL

\* A nil from Stop means everything accepted was settled and reported.
THEOREM StopIsHonest == Spec => []CleanStopMeansDone
<1>1. IInv => CleanStopMeansDone
  <2> SUFFICES ASSUME IInv, NEW s \in Stoppers, stop[s] = "clean"
               PROVE  /\ \A j \in Jobs : enqueue[j] = "accepted" => ~Unsettled(j)
                      /\ \A j \in Jobs : fate[j] \in {"failed", "abandoned"} => reports[j] = 1
                      /\ \A w \in Workers : worker[w] \in {"none", "exited"}
    BY DEF CleanStopMeansDone
  <2>1. finished /\ jobs = <<>> /\ \A w \in Workers : worker[w] \in {"none", "exited"}
    BY DEF IInv, Phases
  <2>2. \A j \in Jobs : ~Held(j)
    BY <2>1, QueueAssumption DEF IInv, Hands, Busy, Held
  <2>3. \A j \in Jobs : ~InChannel(j)
    BY <2>1 DEF InChannel
  <2> QED  BY <2>1, <2>2, <2>3 DEF IInv, OnePlace, Accounted, Records
<1> QED  BY <1>1, Invariance, PTL

\* The failure handler sees no job twice.
THEOREM NoDoubleReport == Spec => []ReportedOnce
<1>1. IInv => ReportedOnce
  <2> SUFFICES ASSUME IInv, NEW j \in Jobs
               PROVE  reports[j] <= 1 /\ (reports[j] = 1 => fate[j] \in {"failed", "abandoned"})
    BY DEF ReportedOnce
  <2>1. CASE Unsettled(j) \/ fate[j] = "processed"
    BY <2>1 DEF IInv, Records
  <2>2. CASE fate[j] \in {"failed", "abandoned"} /\ ~Held(j)
    BY <2>2 DEF IInv, Records
  <2>3. CASE fate[j] \in {"failed", "abandoned"} /\ Held(j)
    <3>1. PICK w \in Workers : inHand[w] = j
      BY <2>3 DEF Held
    <3>2. worker[w] = "report"
      BY <2>3, <3>1, QueueAssumption DEF IInv, Hands, Unsettled
    <3> QED  BY <2>3, <3>1, <3>2 DEF IInv, Hands
  <2> QED  BY <2>1, <2>2, <2>3 DEF IInv, TypeOK, Fates, Unsettled
<1> QED  BY <1>1, Invariance, PTL

\* The job context is cancelled only once the channel is closed.
THEOREM CancelFollowsClose == Spec => []CancelAfterClose
<1>1. IInv => CancelAfterClose
  BY DEF IInv, Phases, CancelAfterClose
<1> QED  BY <1>1, Invariance, PTL

\* Since the drain deadline a worker has at most one job: the one it was at, or one more.
THEOREM FewLateStarts == Spec => []LateStartsBounded
<1>1. IInv => LateStartsBounded
  BY DEF IInv, Lateness, LateStartsBounded
<1> QED  BY <1>1, Invariance, PTL

-----------------------------------------------------------------------------
(* The counters. *)

\* Settling one more job raises the count of its fate by one and no other.
LEMMA OneMoreSettled ==
  ASSUME NEW f \in [Jobs -> Fates \cup {"none"}], NEW j \in Jobs, f[j] = "none",
         NEW v \in Fates, NEW g, g = [f EXCEPT ![j] = v], NEW u \in Fates
  PROVE  Cardinality({k \in Jobs : g[k] = u})
           = Cardinality({k \in Jobs : f[k] = u}) + (IF u = v THEN 1 ELSE 0)
<1> DEFINE F == {k \in Jobs : f[k] = u}
           G == {k \in Jobs : g[k] = u}
<1> SUFFICES Cardinality(G) = Cardinality(F) + (IF u = v THEN 1 ELSE 0)
  OBVIOUS
<1>1. IsFiniteSet(F) /\ j \notin F
  <2>1. "none" \notin Fates
    BY DEF Fates
  <2> QED  BY <2>1, QueueAssumption, FS_Subset
<1>2. G = IF u = v THEN F \cup {j} ELSE F
  BY DEF Fates
<1>3. Cardinality(F) \in Nat /\ Cardinality(F \cup {j}) = Cardinality(F) + 1
  BY <1>1, FS_AddElement, FS_CardinalityType
<1> HIDE DEF F, G
<1>4. CASE u = v
  BY <1>2, <1>3, <1>4
<1>5. CASE u # v
  BY <1>2, <1>3, <1>5
<1> QED  BY <1>4, <1>5

\* Stats never counts a job twice, or under a fate it did not have.
THEOREM CountersCorrect == Spec => []CountersAgree
<1>1. Init => CountersAgree
  <2> SUFFICES ASSUME Init PROVE CountersAgree
    OBVIOUS
  <2>1. \A u \in Fates : {j \in Jobs : fate[j] = u} = {}
    BY DEF Init, Fates
  <2> QED  BY <2>1, FS_EmptySet DEF Init, CountersAgree, Fates
<1>2. IInv /\ CountersAgree /\ [Next]_vars => CountersAgree'
  <2> USE DEF callers, admission, closing, pool, counters, history
  <2> SUFFICES ASSUME IInv, CountersAgree, [Next]_vars PROVE CountersAgree'
    OBVIOUS
  <2> DEFINE Settles(j, v) ==
        /\ j \in Jobs /\ fate[j] = "none" /\ fate' = [fate EXCEPT ![j] = v]
        /\ processed' = processed + (IF v = "processed" THEN 1 ELSE 0)
        /\ failed'    = failed + (IF v = "failed" THEN 1 ELSE 0)
        /\ abandoned' = abandoned + (IF v = "abandoned" THEN 1 ELSE 0)
  <2>1. CASE UNCHANGED <<counters, fate>>
    BY <2>1 DEF CountersAgree
  <2>2. ASSUME NEW j, NEW v \in Fates, Settles(j, v) PROVE CountersAgree'
    <3>1. fate \in [Jobs -> Fates \cup {"none"}]
      BY DEF IInv, TypeOK
    <3>2. \A u \in Fates : Cardinality({k \in Jobs : fate'[k] = u})
            = Cardinality({k \in Jobs : fate[k] = u}) + (IF u = v THEN 1 ELSE 0)
      <4>1. j \in Jobs /\ fate[j] = "none" /\ fate' = [fate EXCEPT ![j] = v]
        BY <2>2
      <4> QED  BY <3>1, <4>1, OneMoreSettled
    <3> QED  BY <2>2, <3>2 DEF CountersAgree, Fates
  <2>3. ASSUME NEW w \in Workers, WorkerReceive(w)
        PROVE  UNCHANGED <<counters, fate>> \/ Settles(Head(jobs), "failed")
    <3>1. Head(jobs) = jobs[1] /\ 1 \in 1..Len(jobs) /\ Head(jobs) \in Jobs
      BY <2>3, ReceiveAtFront DEF WorkerReceive, IInv, TypeOK
    <3>2. Unsettled(Head(jobs))
      BY <3>1 DEF IInv, OnePlace, Accounted, InChannel
    <3> QED  BY <2>3, <3>1, <3>2 DEF WorkerReceive, Unsettled, IInv, TypeOK
  <2>4. ASSUME NEW w \in Workers,
               WorkerSucceed(w) \/ WorkerGiveUp(w) \/ WorkerAbandon(w)
        PROVE  \E v \in Fates : Settles(inHand[w], v)
    <3>1. inHand[w] \in Jobs /\ fate[inHand[w]] = "none"
      BY <2>4 DEF WorkerSucceed, WorkerGiveUp, WorkerAbandon, IInv, TypeOK, Hands,
         Busy, Unsettled
    <3>2. CASE WorkerSucceed(w)
      BY <3>1, <3>2 DEF WorkerSucceed, Fates, IInv, TypeOK
    <3>3. CASE WorkerGiveUp(w)
      BY <3>1, <3>3 DEF WorkerGiveUp, Fates, IInv, TypeOK
    <3>4. CASE WorkerAbandon(w)
      BY <3>1, <3>4 DEF WorkerAbandon, Fates, IInv, TypeOK
    <3> QED  BY <2>4, <3>2, <3>3, <3>4
  <2> HIDE DEF Settles
  <2>5. CASE \E w \in Workers : Run(w)
    <3>1. PICK w \in Workers : Run(w)
      BY <2>5
    <3>2. CASE WorkerReceive(w)
      BY <2>1, <2>2, <2>3, <3>2 DEF Fates
    <3>3. CASE WorkerSucceed(w) \/ WorkerGiveUp(w) \/ WorkerAbandon(w)
      BY <2>2, <2>4, <3>3
    <3>4. CASE WorkerCheck(w) \/ WorkerExit(w) \/ WorkerRetry(w) \/ WorkerWake(w)
                 \/ WorkerReport(w)
      BY <2>1, <3>4 DEF WorkerCheck, WorkerExit, WorkerRetry, WorkerWake, WorkerReport
    <3> QED  BY <3>1, <3>2, <3>3, <3>4 DEF Run
  <2>6. CASE \E j \in Jobs : Enqueue(j)
    BY <2>1, <2>6 DEF Enqueue, EnqueueReject, EnqueueLookup, EnqueueLock, EnqueueSend
  <2>7. CASE (\E s \in Stoppers : Stop(s)) \/ DrainFinish
    BY <2>1, <2>7 DEF Stop, StopBegin, StopLock, StopClose, StopJoin, StopReturn,
       StopExpire, DrainFinish
  <2>8. CASE Registration \/ Start \/ UNCHANGED vars
    BY <2>1, <2>8 DEF Registration, HandleCheck, HandleStore, Start, StartClaim,
       StartSpawn, vars
  <2> QED  BY <2>5, <2>6, <2>7, <2>8 DEF Next
<1> QED  BY <1>1, <1>2, Invariance, PTL DEF Spec

-----------------------------------------------------------------------------
(* Queue implements JobLedger *)

\* The ledger counts as this module does.
LEMMA SameCardinality == \A S : Ledger!Cardinality(S) = Cardinality(S)
BY DEF Ledger!Cardinality, Cardinality

\* Standing is a function of these variables only.
LEMMA StandingStays ==
  ASSUME UNCHANGED <<jobs, inHand, fate, enqueue>>
  PROVE  \A j \in Jobs : Standing(j)' = Standing(j)
BY DEF Standing, Unsettled, InChannel, Held

\* A submission that is not accepted stands on its own in the mapping.
LEMMA NotAccepted ==
  ASSUME IInv, NEW j \in Jobs, enqueue[j] # "accepted"
  PROVE  Unsettled(j) /\ ~InChannel(j) /\ ~Held(j)
BY DEF IInv, OnePlace, Accounted

\* One job changes its place: the abstract ledger is updated at that job.
LEMMA Moved ==
  ASSUME NEW j \in Jobs, NEW p, Standing(j)' = p,
         \A k \in Jobs : k # j => Standing(k)' = Standing(k),
         UNCHANGED <<closed, shutdown, stop>>
  PROVE  Ledger!Move(j, p)
<1>1. [k \in Jobs |-> Standing(k)'] = [[k \in Jobs |-> Standing(k)] EXCEPT ![j] = p]
  OBVIOUS
<1> QED  BY <1>1 DEF Ledger!Move

\* No more jobs wait than the channel holds (the capacity Enqueue relies on).
LEMMA WaitingBound ==
  ASSUME IInv
  PROVE  /\ IsFiniteSet(Ledger!At("waiting"))
         /\ Cardinality(Ledger!At("waiting")) <= Len(jobs)
<1> DEFINE S == {j \in Jobs : InChannel(j)}
           f == [i \in 1..Len(jobs) |-> jobs[i]]
<1>1. Len(jobs) \in Nat /\ \A i \in 1..Len(jobs) : jobs[i] \in Jobs
  BY DEF IInv, TypeOK
<1>2. f \in Surjection(1..Len(jobs), S)
  BY <1>1 DEF Surjection, InChannel
<1>3. Cardinality(S) <= Len(jobs)
  BY <1>1, <1>2, FS_SurjCardinalityBound DEF ExistsSurjection
<1>4. Ledger!At("waiting") = S
  <2>1. \A j \in Jobs : Standing(j) = "waiting" <=> InChannel(j)
    BY DEF IInv, TypeOK, OnePlace, Accounted, Standing, Unsettled, Fates
  <2> QED  BY <2>1 DEF Ledger!At
<1> QED  BY <1>3, <1>4, QueueAssumption, FS_Subset

\* A worker at its receive is not among those that run a job.
LEMMA RunningBound ==
  ASSUME IInv, NEW w \in Workers, inHand[w] = Nil
  PROVE  Cardinality(Ledger!At("running")) < Cardinality(Workers)
<1> DEFINE R == Ledger!At("running")
           h == [j \in R |-> CHOOSE v \in Workers : inHand[v] = j]
<1>1. R \subseteq Jobs /\ \A j \in R : Held(j)
  BY DEF Ledger!At, Standing, IInv, TypeOK, Fates, Unsettled
<1>2. \A j \in R : h[j] \in Workers /\ inHand[h[j]] = j
  BY <1>1 DEF Held
<1>3. h \in Injection(R, Workers \ {w})
  <2>1. \A j \in R : h[j] \in Workers \ {w}
    BY <1>1, <1>2, QueueAssumption
  <2>2. h \in [R -> Workers \ {w}]
    BY <2>1
  <2>3. \A j, k \in R : h[j] = h[k] => j = k
    BY <1>2
  <2> HIDE DEF h, R
  <2> QED  BY <2>2, <2>3, Fun_IsInj
<1>4. /\ IsFiniteSet(Workers \ {w})
      /\ Cardinality(Workers \ {w}) = Cardinality(Workers) - 1
      /\ Cardinality(Workers) \in Nat
  BY QueueAssumption, FS_RemoveElement, FS_CardinalityType
<1> HIDE DEF h, R
<1>5. Cardinality(R) <= Cardinality(Workers \ {w}) /\ IsFiniteSet(R)
  BY <1>3, <1>4, FS_Injection
<1>6. Cardinality(R) \in Nat
  BY <1>5, FS_CardinalityType
<1> QED  BY <1>4, <1>5, <1>6 DEF R

-----------------------------------------------------------------------------

\* An Enqueue that is turned away is a refusal.
LEMMA RefuseStep ==
  ASSUME IInv, NEW j \in Jobs, enqueue[j] # "accepted",
         enqueue[j] \in {"idle", "found", "sending"},
         NEW v \in {"rejected", "full", "closed"},
         enqueue' = [enqueue EXCEPT ![j] = v],
         UNCHANGED <<jobs, inHand, fate, closed, shutdown, stop>>
  PROVE  Ledger!Next
<1>1. Standing(j) = "offered" /\ Standing(j)' = "refused"
  BY NotAccepted DEF IInv, TypeOK, Standing, Unsettled, InChannel, Held
<1>2. \A k \in Jobs : k # j => Standing(k)' = Standing(k)
  BY DEF IInv, TypeOK, Standing, Unsettled, InChannel, Held
<1>3. Ledger!Refuse(j)
  BY <1>1, <1>2, Moved DEF Ledger!Refuse
<1> QED  BY <1>3 DEF Ledger!Next

\* Each step of a call of Enqueue.
LEMMA EnqueueSteps ==
  ASSUME IInv, NEW j \in Jobs, Enqueue(j)
  PROVE  Ledger!Next \/ UNCHANGED Ledger!vars
<1> USE DEF callers, closing, pool, counters, history, admission
<1>1. CASE EnqueueReject(j)
  BY <1>1, RefuseStep DEF EnqueueReject
<1>2. ASSUME enqueue[j] \in {"idle", "found"}, NEW v \in {"found", "sending"},
             enqueue' = [enqueue EXCEPT ![j] = v],
             UNCHANGED <<jobs, inHand, fate, closed, shutdown, stop>>
      PROVE  UNCHANGED Ledger!vars
  <2>1. Standing(j) = "offered" /\ Standing(j)' = "offered"
    BY <1>2, NotAccepted DEF IInv, TypeOK, Standing, Unsettled, InChannel, Held
  <2>2. \A k \in Jobs : Standing(k)' = Standing(k)
    BY <1>2, <2>1 DEF IInv, TypeOK, Standing, Unsettled, InChannel, Held
  <2> QED  BY <1>2, <2>2 DEF Ledger!vars
<1>3. CASE EnqueueLookup(j)
  BY <1>2, <1>3 DEF EnqueueLookup
<1>4. CASE EnqueueLock(j)
  BY <1>2, <1>4, RefuseStep DEF EnqueueLock
<1>5. CASE EnqueueSend(j) /\ jobs' = Append(jobs, j)
                          /\ enqueue' = [enqueue EXCEPT ![j] = "accepted"]
                          /\ ~closed /\ Len(jobs) < Buffer
  <2>1. enqueue[j] = "sending" /\ UNCHANGED <<inHand, fate, closed, shutdown, stop>>
    BY <1>5 DEF EnqueueSend
  <2>2. /\ Len(jobs') = Len(jobs) + 1 /\ Len(jobs) \in Nat
        /\ \A i \in 1..Len(jobs) : jobs'[i] = jobs[i]
        /\ jobs'[Len(jobs) + 1] = j
    BY <1>5, SendAtBack DEF IInv, TypeOK
  <2>3. \A k \in Jobs : InChannel(k)' <=> InChannel(k) \/ k = j
    BY <2>2 DEF InChannel
  <2>4. Standing(j) = "offered" /\ Standing(j)' = "waiting"
    BY <2>1, <2>3, NotAccepted DEF IInv, TypeOK, Standing, Unsettled
  <2>5. \A k \in Jobs : k # j => Standing(k)' = Standing(k)
    BY <1>5, <2>1, <2>3 DEF IInv, TypeOK, Standing, Unsettled, Held
  <2>6. Cardinality(Ledger!At("waiting")) < Buffer
    BY <1>5, <2>2, WaitingBound, FS_CardinalityType, QueueAssumption
  <2>7. Ledger!Move(j, "waiting")
    BY <2>1, <2>4, <2>5, Moved
  <2>8. Ledger!Accept(j)
    BY <1>5, <2>4, <2>6, <2>7, SameCardinality DEF Ledger!Accept
  <2> QED  BY <2>8 DEF Ledger!Next
<1>6. CASE EnqueueSend(j) /\ jobs' = jobs
                          /\ enqueue' = [enqueue EXCEPT ![j] = "full"]
  BY <1>6, RefuseStep DEF EnqueueSend
<1> QED  BY <1>1, <1>3, <1>4, <1>5, <1>6
           DEF Enqueue, EnqueueSend, IInv, Locks

\* Each step of a call of Stop, and of the goroutine it leaves behind.
LEMMA StopSteps ==
  ASSUME IInv, (\E s \in Stoppers : Stop(s)) \/ DrainFinish
  PROVE  Ledger!Next \/ UNCHANGED Ledger!vars
<1> USE DEF callers, closing, pool, counters, history, admission
<1>1. UNCHANGED <<jobs, inHand, fate, enqueue>>
  BY DEF Stop, StopBegin, StopLock, StopClose, StopJoin, StopReturn, StopExpire,
     DrainFinish
<1>2. \A j \in Jobs : Standing(j)' = Standing(j)
  BY <1>1, StandingStays
<1> DEFINE cleaned == \E s \in Stoppers : stop[s] = "clean"
<1>3. ASSUME NEW s \in Stoppers, stop[s] # "clean", NEW v, v # "clean",
             stop' = [stop EXCEPT ![s] = v]
      PROVE  cleaned' <=> cleaned
  BY <1>3 DEF IInv, TypeOK
<1>4. ASSUME NEW s \in Stoppers, StopBegin(s) PROVE Ledger!Advance
  BY <1>2, <1>3, <1>4 DEF StopBegin, Ledger!Advance, IInv, TypeOK, Phases
<1>5. ASSUME NEW s \in Stoppers, StopClose(s)
      PROVE  Ledger!Advance \/ UNCHANGED Ledger!vars
  <2>1. shutdown /\ shutdown' = shutdown /\ closed'
    BY <1>5 DEF StopClose, IInv, Phases
  <2>2. cleaned' <=> cleaned
    BY <1>3, <1>5 DEF StopClose
  <2> QED  BY <1>2, <2>1, <2>2 DEF Ledger!Advance, Ledger!vars
<1>6. ASSUME NEW s \in Stoppers, StopReturn(s), jobs = <<>> PROVE Ledger!ReportClean
  <2>1. closed /\ finished /\ UNCHANGED <<closed, shutdown>> /\ cleaned'
    BY <1>6 DEF StopReturn, IInv, TypeOK, Phases
  <2>2. \A j \in Jobs : ~Held(j) /\ ~InChannel(j)
    BY <1>6, <2>1, QueueAssumption DEF IInv, Phases, Hands, Busy, Held, InChannel
  <2>3. \A j \in Jobs : Standing(j) \notin {"waiting", "running"}
    BY <2>2 DEF IInv, TypeOK, Standing, Unsettled, Fates
  <2>4. Ledger!At("waiting") = {} /\ Ledger!At("running") = {}
    BY <2>3 DEF Ledger!At
  <2> QED  BY <1>2, <2>1, <2>4 DEF Ledger!ReportClean
<1>7. ASSUME NEW s \in Stoppers,
             \/ StopLock(s) \/ StopJoin(s) \/ StopExpire(s)
             \/ StopReturn(s) /\ jobs # <<>>
      PROVE  UNCHANGED Ledger!vars
  <2>1. UNCHANGED <<closed, shutdown>>
    BY <1>7 DEF StopLock, StopJoin, StopExpire, StopReturn
  <2>2. cleaned' <=> cleaned
    BY <1>3, <1>7 DEF StopLock, StopJoin, StopExpire, StopReturn
  <2> QED  BY <1>2, <2>1, <2>2 DEF Ledger!vars
<1>8. CASE DrainFinish
  BY <1>2, <1>8 DEF DrainFinish, Ledger!vars
<1> QED  BY <1>4, <1>5, <1>6, <1>7, <1>8 DEF Stop, Ledger!Next

\* A receive takes the job, or fails it when its name is not in the snapshot.
LEMMA ReceiveStep ==
  ASSUME IInv, NEW w \in Workers, WorkerReceive(w)
  PROVE  Ledger!Next
<1> USE DEF callers, closing, pool, counters, history, admission
<1>0. PICK j \in Jobs : j = Head(jobs)
  BY ReceiveAtFront DEF IInv, TypeOK, WorkerReceive
<1>1. /\ j = jobs[1] /\ Len(jobs) \in Nat \ {0}
      /\ Len(jobs') = Len(jobs) - 1
      /\ \A i \in 1..Len(jobs') : jobs'[i] = jobs[i + 1]
  BY <1>0, ReceiveAtFront DEF IInv, TypeOK, WorkerReceive
<1>2. /\ inHand' = [inHand EXCEPT ![w] = j] /\ inHand[w] = Nil
      /\ UNCHANGED <<enqueue, closed, shutdown, stop>>
      /\ \/ UNCHANGED fate
         \/ fate' = [fate EXCEPT ![j] = "failed"]
  BY <1>0 DEF WorkerReceive, IInv, Hands, Busy
<1>3. InChannel(j) /\ Unsettled(j) /\ ~Held(j)
  BY <1>1 DEF IInv, OnePlace, Accounted, InChannel
<1>4. \A k \in Jobs : InChannel(k)' <=> InChannel(k) /\ k # j
  <2>1. ASSUME NEW k \in Jobs, NEW i \in 1..Len(jobs), jobs[i] = k, k # j
        PROVE  i - 1 \in 1..Len(jobs') /\ jobs'[i - 1] = k
    BY <1>1, <2>1
  <2> QED  BY <1>1, <2>1 DEF IInv, OnePlace, OnceInChannel, InChannel
<1>5. \A k \in Jobs : Held(k)' <=> Held(k) \/ k = j
  BY <1>1, <1>2, QueueAssumption DEF IInv, TypeOK, Held
<1>6. Standing(j) = "waiting"
  BY <1>3 DEF Standing
<1>7. \A k \in Jobs : k # j => Standing(k)' = Standing(k)
  <2>1. \A k \in Jobs : k # j => fate'[k] = fate[k]
    BY <1>2 DEF IInv, TypeOK
  <2> QED  BY <1>2, <1>4, <1>5, <2>1 DEF Standing, Unsettled
<1>8. CASE UNCHANGED fate
  <2>1. Unsettled(j)' /\ ~InChannel(j)' /\ Held(j)'
    BY <1>1, <1>3, <1>4, <1>5, <1>8 DEF Unsettled
  <2>2. Standing(j)' = "running"
    BY <2>1 DEF Standing
  <2>3. Ledger!Move(j, "running")
    BY <1>1, <1>2, <1>7, <2>2, Moved
  <2>4. Cardinality(Ledger!At("running")) < Cardinality(Workers)
    BY <1>2, RunningBound
  <2>5. Ledger!Take(j)
    BY <1>1, <1>6, <2>3, <2>4, SameCardinality DEF Ledger!Take
  <2> QED  BY <1>1, <2>5 DEF Ledger!Next
<1>9. CASE fate' = [fate EXCEPT ![j] = "failed"]
  <2>1. fate'[j] = "failed"
    BY <1>1, <1>9 DEF IInv, TypeOK
  <2>2. Standing(j)' = "failed"
    BY <2>1 DEF Standing, Unsettled
  <2>3. Ledger!Move(j, "failed")
    BY <1>1, <1>2, <1>7, <2>2, Moved
  <2>4. Ledger!Settle(j, "failed")
    BY <1>1, <1>6, <2>3 DEF Ledger!Settle
  <2> QED  BY <1>1, <2>4 DEF Ledger!Next, Ledger!Fates
<1> QED  BY <1>2, <1>8, <1>9

\* A worker ends the job it runs.
LEMMA SettleStep ==
  ASSUME IInv, NEW w \in Workers,
         WorkerSucceed(w) \/ WorkerGiveUp(w) \/ WorkerAbandon(w)
  PROVE  Ledger!Next
<1> USE DEF callers, closing, pool, counters, history, admission
<1>0. PICK j \in Jobs : j = inHand[w]
  BY DEF WorkerSucceed, WorkerGiveUp, WorkerAbandon, IInv, TypeOK, Hands, Busy
<1>1. Unsettled(j) /\ Held(j)
  BY <1>0 DEF WorkerSucceed, WorkerGiveUp, WorkerAbandon, IInv, Hands, Busy, Held,
     Unsettled
<1>2. Standing(j) = "running"
  BY <1>1 DEF IInv, OnePlace, Accounted, Standing
<1>3. PICK v \in Fates : /\ fate' = [fate EXCEPT ![j] = v]
                         /\ v = "abandoned" => shutdown
  <2>1. CASE WorkerSucceed(w)
    BY <1>0, <2>1 DEF WorkerSucceed, Fates
  <2>2. CASE WorkerGiveUp(w)
    BY <1>0, <2>2 DEF WorkerGiveUp, Fates
  <2>3. CASE WorkerAbandon(w)
    BY <1>0, <2>3 DEF WorkerAbandon, Fates
  <2> QED  BY <2>1, <2>2, <2>3
<1>4. /\ UNCHANGED <<enqueue, jobs, closed, shutdown, stop>>
      /\ inHand' = inHand \/ inHand' = [inHand EXCEPT ![w] = Nil]
  BY DEF WorkerSucceed, WorkerGiveUp, WorkerAbandon
<1>5. Standing(j)' = v
  <2>1. fate'[j] = v /\ v # "none"
    BY <1>1, <1>3 DEF IInv, TypeOK, Fates
  <2> QED  BY <2>1 DEF Standing, Unsettled
<1>6. \A k \in Jobs : k # j => Standing(k)' = Standing(k)
  <2>1. \A k \in Jobs : k # j => (Held(k)' <=> Held(k))
    BY <1>0, <1>4, QueueAssumption DEF IInv, TypeOK, Held
  <2>2. \A k \in Jobs : k # j => fate'[k] = fate[k]
    BY <1>3 DEF IInv, TypeOK
  <2> QED  BY <1>4, <2>1, <2>2 DEF Standing, Unsettled, InChannel
<1>7. Ledger!Move(j, v)
  BY <1>1, <1>4, <1>5, <1>6, Moved
<1>8. Ledger!Settle(j, v)
  BY <1>1, <1>2, <1>3, <1>7 DEF Ledger!Settle
<1> QED  BY <1>1, <1>8 DEF Ledger!Next, Ledger!Fates, Fates

\* The other steps of a worker do not show.
LEMMA HiddenSteps ==
  ASSUME IInv, NEW w \in Workers,
         \/ WorkerCheck(w) \/ WorkerExit(w) \/ WorkerRetry(w) \/ WorkerWake(w)
         \/ WorkerReport(w)
  PROVE  UNCHANGED Ledger!vars
<1> USE DEF callers, closing, pool, counters, history, admission
<1>1. UNCHANGED <<enqueue, jobs, fate, closed, shutdown, stop>>
  BY DEF WorkerCheck, WorkerExit, WorkerRetry, WorkerWake, WorkerReport
<1>2. CASE UNCHANGED inHand
  BY <1>1, <1>2, StandingStays DEF Ledger!vars
<1>3. CASE WorkerReport(w)
  <2>1. inHand' = [inHand EXCEPT ![w] = Nil] /\ ~Unsettled(inHand[w])
    BY <1>3 DEF WorkerReport, IInv, Hands, Unsettled
  <2>2. \A k \in Jobs : Unsettled(k) => (Held(k)' <=> Held(k))
    BY <2>1, QueueAssumption DEF IInv, TypeOK, Held
  <2>3. \A k \in Jobs : Standing(k)' = Standing(k)
    BY <1>1, <2>2 DEF Standing, Unsettled, InChannel
  <2> QED  BY <1>1, <2>3 DEF Ledger!vars
<1> QED  BY <1>2, <1>3 DEF WorkerCheck, WorkerExit, WorkerRetry, WorkerWake

\* The channel, the locks, the pool and the retries implement the ledger.
THEOREM Refinement == Spec => ImplementsLedger
<1>1. Init => Ledger!Init
  <2> SUFFICES ASSUME Init PROVE Ledger!Init
    OBVIOUS
  <2>1. \A j \in Jobs : Standing(j) = "offered"
    BY QueueAssumption DEF Init, Standing, Unsettled, InChannel, Held
  <2> QED  BY <2>1 DEF Init, Ledger!Init
<1>2. IInv /\ [Next]_vars => [Ledger!Next]_(Ledger!vars)
  <2> SUFFICES ASSUME IInv, [Next]_vars PROVE Ledger!Next \/ UNCHANGED Ledger!vars
    OBVIOUS
  <2>1. CASE \E j \in Jobs : Enqueue(j)
    BY <2>1, EnqueueSteps
  <2>2. CASE (\E s \in Stoppers : Stop(s)) \/ DrainFinish
    BY <2>2, StopSteps
  <2>3. CASE \E w \in Workers : Run(w)
    BY <2>3, ReceiveStep, SettleStep, HiddenSteps DEF Run
  <2>4. CASE Registration \/ Start \/ UNCHANGED vars
    <3>1. UNCHANGED <<enqueue, jobs, inHand, fate, closed, shutdown, stop>>
      BY <2>4 DEF Registration, HandleCheck, HandleStore, Start, StartClaim,
         StartSpawn, vars, callers, closing, pool, counters, history, admission
    <3> QED  BY <3>1, StandingStays DEF Ledger!vars
  <2> QED  BY <2>1, <2>2, <2>3, <2>4 DEF Next
<1> QED  BY <1>1, <1>2, Invariance, PTL DEF Spec, ImplementsLedger, Ledger!Spec

-----------------------------------------------------------------------------
(* The drain comes to an end: the safety half of DrainCompletes. *)

\* A bound on the steps a worker takes before it is at the receive with nothing in hand.
Rank(w) ==
  CASE worker[w] = "running" -> 2 * (MaxAttempts - attempt[w]) + 4
    [] worker[w] = "backoff" -> 2 * (MaxAttempts - attempt[w]) + 3
    [] worker[w] = "report"  -> 3
    [] worker[w] = "check"   -> 2
    [] worker[w] = "receive" -> 1
    [] OTHER -> 0

\* Once the channel is closed, a step takes a job off it for one worker, or it brings a
\* worker closer to its next receive and takes none further from it: with a finite
\* channel and finitely many attempts the workers run out of steps.
DrainDescends ==
  [][closed =>
       IF jobs' = jobs
       THEN /\ \A w \in Workers : Rank(w)' <= Rank(w)
            /\ worker' # worker => \E w \in Workers : Rank(w)' < Rank(w)
       ELSE /\ jobs # <<>> /\ jobs' = Tail(jobs)
            /\ \E w \in Workers : \A v \in Workers \ {w} : Rank(v)' = Rank(v)]_vars

\* The ranks, place by place; a worker has its attempts before it.
Ranked ==
  \A w \in Workers :
    /\ Rank(w) \in Nat
    /\ worker[w] = "running" => Rank(w) = 2 * (MaxAttempts - attempt[w]) + 4
    /\ worker[w] = "backoff" => Rank(w) = 2 * (MaxAttempts - attempt[w]) + 3
    /\ worker[w] = "report" => Rank(w) = 3
    /\ worker[w] = "check" => Rank(w) = 2
    /\ worker[w] = "receive" => Rank(w) = 1
    /\ worker[w] \in {"none", "exited"} => Rank(w) = 0
    /\ worker[w] \in Busy => attempt[w] \in Nat /\ attempt[w] <= MaxAttempts
    /\ worker[w] = "backoff" => attempt[w] < MaxAttempts

LEMMA RankOf == IInv => Ranked
<1> SUFFICES ASSUME IInv PROVE Ranked
  OBVIOUS
<1>1. \A w \in Workers :
        /\ worker[w] \in {"none", "check", "receive", "running", "backoff", "report", "exited"}
        /\ worker[w] \in Busy => attempt[w] \in Nat /\ attempt[w] <= MaxAttempts
        /\ worker[w] = "backoff" => attempt[w] < MaxAttempts
  BY QueueAssumption DEF IInv, TypeOK, Hands
<1> QED  BY <1>1, QueueAssumption DEF Ranked, Rank, Busy

\* A step that moves one worker, w, without the channel.
Descends(w) ==
  /\ UNCHANGED jobs /\ Rank(w)' < Rank(w)
  /\ \A v \in Workers \ {w} : Rank(v)' = Rank(v)

\* Workers that a step leaves where they are keep their rank.
LEMMA RankStays ==
  ASSUME NEW w \in Workers, worker'[w] = worker[w], attempt'[w] = attempt[w]
  PROVE  Rank(w)' = Rank(w)
BY DEF Rank

LEMMA RunDescends ==
  ASSUME IInv, IInv', NEW w \in Workers, Run(w), ~WorkerReceive(w)
  PROVE  Descends(w)
<1> USE DEF counters, history, closing, admission, callers
<1>1. /\ \A v \in Workers \ {w} : worker'[v] = worker[v] /\ attempt'[v] = attempt[v]
      /\ UNCHANGED jobs
  BY DEF Run, WorkerCheck, WorkerExit, WorkerSucceed, WorkerRetry, WorkerGiveUp, WorkerWake,
     WorkerAbandon, WorkerReport, IInv, TypeOK
<1>2. \A v \in Workers \ {w} : Rank(v)' = Rank(v)
  BY <1>1, RankStays
<1> DEFINE a == attempt[w]
<1>3. \/ worker[w] = "check" /\ worker'[w] \in {"exited", "receive"}
      \/ worker[w] = "receive" /\ worker'[w] = "exited"
      \/ worker[w] = "running" /\ worker'[w] \in {"check", "report"}
      \/ worker[w] = "running" /\ worker'[w] = "backoff" /\ attempt'[w] = a
      \/ worker[w] = "backoff" /\ worker'[w] = "running" /\ attempt'[w] = a + 1
      \/ worker[w] = "backoff" /\ worker'[w] = "report"
      \/ worker[w] = "report" /\ worker'[w] = "check"
  BY DEF Run, WorkerCheck, WorkerExit, WorkerSucceed, WorkerRetry, WorkerGiveUp, WorkerWake,
     WorkerAbandon, WorkerReport, IInv, TypeOK
<1>4. Ranked /\ Ranked'
  BY RankOf, PTL
<1>5. MaxAttempts \in Nat /\ a \in Nat
  BY QueueAssumption DEF IInv, TypeOK
<1>6. Rank(w)' < Rank(w)
  <2> HIDE DEF a
  <2>1. CASE worker[w] \in {"check", "receive", "report"}
    BY <1>3, <1>4, <2>1 DEF Ranked
  <2>2. CASE worker[w] = "running"
    BY <1>3, <1>4, <1>5, <2>2 DEF Ranked, Busy, a
  <2>3. CASE worker[w] = "backoff"
    BY <1>3, <1>4, <1>5, <2>3 DEF Ranked, Busy, a
  <2> QED  BY <1>3, <2>1, <2>2, <2>3
<1> QED  BY <1>1, <1>2, <1>6 DEF Descends

\* Nothing else moves a worker of a closed queue: Start is past its check of closed, and
\* no submission is at its send.
LEMMA OthersDescend ==
  ASSUME IInv, closed,
         \/ Registration \/ Start \/ DrainFinish
         \/ \E j \in Jobs : Enqueue(j)
         \/ \E s \in Stoppers : Stop(s)
  PROVE  UNCHANGED <<jobs, worker, attempt>>
<1> USE DEF pool, counters, history, closing, admission, callers
<1>1. CASE Registration \/ Start \/ DrainFinish
  BY <1>1 DEF Registration, HandleCheck, HandleStore, Start, StartClaim, StartSpawn, DrainFinish,
     IInv, Locks
<1>2. CASE \E j \in Jobs : Enqueue(j)
  BY <1>2 DEF Enqueue, EnqueueReject, EnqueueLookup, EnqueueLock, EnqueueSend, IInv, Locks
<1>3. CASE \E s \in Stoppers : Stop(s)
  BY <1>3 DEF Stop, StopBegin, StopLock, StopClose, StopJoin, StopReturn, StopExpire
<1> QED  BY <1>1, <1>2, <1>3

LEMMA StepDescends ==
  ASSUME IInv, IInv', [Next]_vars, closed
  PROVE  IF jobs' = jobs
         THEN /\ \A w \in Workers : Rank(w)' <= Rank(w)
              /\ worker' # worker => \E w \in Workers : Rank(w)' < Rank(w)
         ELSE /\ jobs # <<>> /\ jobs' = Tail(jobs)
              /\ \E w \in Workers : \A v \in Workers \ {w} : Rank(v)' = Rank(v)
<1>1. \A v \in Workers : Rank(v) \in Nat /\ Rank(v)' \in Nat
  <2>1. Ranked /\ Ranked'
    BY RankOf, PTL
  <2> QED  BY <2>1 DEF Ranked
<1>2. CASE UNCHANGED <<jobs, worker, attempt>>
  BY <1>1, <1>2, RankStays
<1>3. CASE \E w \in Workers : Run(w) /\ ~WorkerReceive(w)
  <2>1. PICK w \in Workers : Descends(w)
    BY <1>3, RunDescends
  <2> QED  BY <1>1, <2>1 DEF Descends
<1>4. CASE \E w \in Workers : WorkerReceive(w)
  <2>1. PICK w \in Workers : WorkerReceive(w)
    BY <1>4
  <2>2. /\ jobs # <<>> /\ jobs' = Tail(jobs)
        /\ \A v \in Workers \ {w} : worker'[v] = worker[v] /\ attempt'[v] = attempt[v]
    BY <2>1 DEF WorkerReceive, IInv, TypeOK
  <2>3. jobs' # jobs
    <3>1. jobs \in Seq(Jobs) /\ Len(Tail(jobs)) = Len(jobs) - 1 /\ Len(jobs) \in Nat
      BY <2>2, ReceiveAtFront DEF IInv, TypeOK
    <3>2. Len(jobs') = Len(Tail(jobs))
      BY <2>2
    <3>3. Len(Tail(jobs)) # Len(jobs)
      <4> DEFINE n == Len(jobs)
      <4>1. n \in Nat /\ Len(Tail(jobs)) = n - 1
        BY <3>1
      <4> HIDE DEF n
      <4>2. n - 1 # n
        BY <4>1
      <4> QED  BY <4>1, <4>2, Zenon DEF n
    <3> QED  BY <3>2, <3>3, Zenon
  <2>4. \A v \in Workers \ {w} : Rank(v)' = Rank(v)
    BY <2>2, RankStays
  <2>5. \E u \in Workers : \A v \in Workers \ {u} : Rank(v)' = Rank(v)
    BY <2>4
  <2>6. jobs # <<>> /\ jobs' = Tail(jobs)
    BY <2>2
  <2> QED  BY <2>3, <2>5, <2>6, Zenon
<1>5. CASE UNCHANGED vars
  BY <1>2, <1>5 DEF vars, pool
<1> QED  BY <1>2, <1>3, <1>4, <1>5, OthersDescend DEF Next

\* The workers of a closed queue come to an end, however their steps interleave, whatever
\* handlers return and whichever timer fires (Queue.run, Queue.process and Queue.Stop).
THEOREM DrainEnds == Spec => DrainDescends
BY InitIInv, StepIInv, StepDescends, PTL DEF Spec, DrainDescends
=============================================================================
