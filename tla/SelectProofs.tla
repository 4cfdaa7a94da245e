----------------------------- MODULE SelectProofs -----------------------------
(***************************************************************************)
(* Theorems about the two components that are one goroutine around a       *)
(* select, beside processes it does not control: the request goroutine of  *)
(* Timeout and the loop of DevLoop.  The two share no state.               *)
(***************************************************************************)
EXTENDS Timeout, DevLoop, TLAPS

-----------------------------------------------------------------------------
(* The timeout: its types, OneResponse and NoWriteAfterReturn.  The        *)
(* inductive invariant adds to OneResponse who recorded the status whose   *)
(* body is on the wire, and to the types that the request goroutine is     *)
(* over only once the deadline passed or the handler ended.                *)

\* What is recorded by ResponseWriter decides what may be on the wire.
Authorship ==
  /\ status = "none" => body = {} /\ sent \notin {"handler", "timeout"}
  /\ status = "handler" => body \subseteq {"handler"} /\ sent # "timeout"
  /\ status = "timeout" =>
       ctx = "expired" /\ body \subseteq {"timeout"} /\ sent # "handler"
  /\ sent = "timeout" => body = {"timeout"}
  /\ sent = "none" => body = {}
  /\ sent = "implicit" => body = {} /\ request \in Over

\* Where the request goroutine stands tells how far the others are.
Progress ==
  /\ request \in {"expire", "render"} => ctx = "expired"
  /\ request = "finish" => handler = "ended"
  /\ handler \in {"header", "write"} => status # "timeout"
  /\ request \in Over =>
       /\ handler = "ended" \/ ctx = "expired"
       /\ handler \notin {"header", "write"}

IInv == TypeOK /\ Authorship /\ Progress

-----------------------------------------------------------------------------
\* The initial state satisfies the invariant.
LEMMA InitIInv == Init => IInv
  BY DEF Init, IInv, TypeOK, Authorship, Progress, Over

\* Every step keeps it: one case per action.
LEMMA StepIInv == IInv /\ [Next]_vars => IInv'
<1> SUFFICES ASSUME IInv, [Next]_vars PROVE IInv'
  OBVIOUS
<1> USE DEF IInv, TypeOK, Authorship, Progress, Over, Reject, Record, Send, SendBody, Close,
            guard, wire
<1>1. CASE Deadline
  BY <1>1 DEF Deadline
<1>2. CASE ClientGone
  BY <1>2 DEF ClientGone
<1>3. CASE HandlerWriteHeader
  <2>1. TypeOK'
    BY <1>3 DEF HandlerWriteHeader
  <2>2. Authorship' /\ Progress'
    BY <1>3 DEF HandlerWriteHeader
  <2> QED  BY <2>1, <2>2
<1>4. CASE HandlerWrite
  BY <1>4 DEF HandlerWrite
<1>5. CASE HandlerFlush
  BY <1>5 DEF HandlerFlush
<1>6. CASE HandlerHijack
  BY <1>6 DEF HandlerHijack
<1>7. CASE HandlerHijacked
  BY <1>7 DEF HandlerHijacked
<1>8. CASE HandlerEnd
  BY <1>8 DEF HandlerEnd
<1>9. CASE Deliver
  <2>1. /\ handler \in {"returning", "panicking"} /\ handler' = "ended"
        /\ UNCHANGED <<ctx, request, committed, hijacked, mu, wire, discarded>>
    BY <1>9 DEF Deliver
  <2>2. CASE handler = "panicking" /\ ctx = "expired"
    <3>1. logged' = TRUE /\ done' = done
      BY <1>9, <2>2, Zenon DEF Deliver
    <3> QED  BY <2>1, <3>1
  <2>3. CASE ~(handler = "panicking" /\ ctx = "expired")
    <3>1. logged' = logged /\ done' = handler
      BY <1>9, <2>3, Zenon DEF Deliver
    <3> QED  BY <2>1, <3>1
  <2> QED  BY <2>2, <2>3
<1>10. CASE SelectDone
  BY <1>10 DEF SelectDone
<1>11. CASE SelectEnded
  BY <1>11 DEF SelectEnded
<1>12. CASE Wait
  BY <1>12 DEF Wait
<1>13. CASE Finish
  BY <1>13 DEF Finish
<1>14. CASE Expire
  BY <1>14 DEF Expire
<1>15. CASE Render
  BY <1>15 DEF Render
<1>17. CASE InnerWrite
  BY <1>17 DEF InnerWrite
<1>16. CASE UNCHANGED vars
  BY <1>16 DEF vars
<1> QED
  BY <1>1, <1>2, <1>3, <1>4, <1>5, <1>6, <1>7, <1>8, <1>9, <1>10, <1>11, <1>12,
     <1>13, <1>14, <1>15, <1>16, <1>17 DEF Next, Handler, Request

\* The invariant holds in every state of the specification.
LEMMA Invariance == Spec => []IInv
  BY InitIInv, StepIInv, PTL DEF Spec

-----------------------------------------------------------------------------
\* The types, the lock held exactly while a write to the client is under way, and an
\* outcome delivered only by an ended handler.
THEOREM TypeCorrect == Spec => []TypeOK
  BY Invariance, PTL DEF IInv

\* The handler's response or the timeout document reaches the client, never parts of
\* both, unless the handler flushed before it wrote (expire, rejectLocked).
THEOREM SingleResponse == Spec => []OneResponse
<1>1. IInv => OneResponse
  BY DEF IInv, TypeOK, Authorship, OneResponse
<1> QED
  BY <1>1, Invariance, PTL

\* One step of the system never touches the response of a request that is over.
LEMMA StepNoWrite == IInv /\ [Next]_vars => [(request \in Over) => UNCHANGED wire]_vars
<1> SUFFICES ASSUME IInv, [Next]_vars, request \in Over PROVE UNCHANGED wire
  OBVIOUS
<1> USE DEF IInv, TypeOK, Progress, Over, wire
<1>1. CASE HandlerWriteHeader \/ HandlerWrite \/ InnerWrite
  BY <1>1 DEF HandlerWriteHeader, HandlerWrite, InnerWrite
<1>2. CASE HandlerFlush \/ HandlerHijack \/ HandlerHijacked \/ HandlerEnd \/ Deliver
  BY <1>2 DEF HandlerFlush, HandlerHijack, HandlerHijacked, HandlerEnd, Deliver
<1>3. CASE Deadline \/ ClientGone
  BY <1>3 DEF Deadline, ClientGone
<1>4. CASE Request
  BY <1>4 DEF Request, SelectDone, SelectEnded, Wait, Finish, Expire, Render
<1>5. CASE UNCHANGED vars
  BY <1>5 DEF vars
<1> QED
  BY <1>1, <1>2, <1>3, <1>4, <1>5 DEF Next, Handler

\* No write of a handler that is still running reaches a response whose
\* request returned.
THEOREM ResponseClosed == Spec => NoWriteAfterReturn
  BY Invariance, StepNoWrite, PTL DEF Spec, NoWriteAfterReturn

\* Neither goroutine of Timeout waits for what does not come: the request waits for the
\* handler only when the client went away, and then the outcome of a handler that ended
\* is there; and the channel has room when the handler sends, so that its goroutine
\* ends whether or not anyone still waits.
OutcomeKept ==
  /\ request = "wait" => ctx = "cancelled" /\ (handler = "ended" => done # "empty")
  /\ handler \in {"returning", "panicking"} => done = "empty"
  /\ handler = "ended" /\ done = "empty" => ctx = "expired" /\ logged

LEMMA StepOutcome == IInv /\ OutcomeKept /\ [Next]_vars => OutcomeKept'
<1> SUFFICES ASSUME IInv, OutcomeKept, [Next]_vars PROVE OutcomeKept'
  OBVIOUS
<1> USE DEF IInv, TypeOK, OutcomeKept, Over
<1>1. CASE HandlerWriteHeader \/ HandlerWrite \/ InnerWrite \/ HandlerFlush \/ HandlerHijack
  BY <1>1 DEF HandlerWriteHeader, HandlerWrite, InnerWrite, HandlerFlush, HandlerHijack
<1>2. CASE HandlerHijacked \/ HandlerEnd \/ Deliver
  BY <1>2 DEF HandlerHijacked, HandlerEnd, Deliver
<1>3. CASE Deadline \/ ClientGone
  BY <1>3 DEF Deadline, ClientGone
<1>4. CASE SelectDone \/ SelectEnded \/ Wait
  BY <1>4 DEF SelectDone, SelectEnded, Wait
<1>5. CASE Finish
  BY <1>5 DEF Finish
<1>6. CASE Expire \/ Render
  BY <1>6 DEF Expire, Render
<1>7. CASE UNCHANGED vars
  BY <1>7 DEF vars
<1> QED
  BY <1>1, <1>2, <1>3, <1>4, <1>5, <1>6, <1>7 DEF Next, Handler, Request

\* The safety half of NeitherWaits: an outcome that someone waits for is never lost, and
\* none blocks the goroutine that delivers it (the buffered channel of Timeout).
THEOREM NoOutcomeLost == Spec => []OutcomeKept
<1>1. Init => OutcomeKept
  BY DEF Init, OutcomeKept
<1> QED  BY <1>1, InitIInv, StepIInv, StepOutcome, PTL DEF Spec

-----------------------------------------------------------------------------
(* The development loop, for any files and any number of edits: its types, *)
(* that no server is left behind, and the safety half of "an edit is never *)
(* lost".                                                                  *)

\* The numbers given to saves so far, and what a walk may have recorded.
Versions  == 1..(edits + 1)
Snapshots == UNION {[S -> Versions] : S \in SUBSET Watched}

\* DevTypeOK with the versions that exist, which are those of the saves so far.
DevTypes ==
  /\ pc \in {"top", "walk", "build", "built", "select", "wait", "stop", "reap", "returned"}
  /\ goal \in {"baseline", "poll", "wait"}
  /\ todo \subseteq Watched
  /\ seen \in Snapshots /\ state \in Snapshots
  /\ compiled \in [Watched -> {0} \cup Versions]
  /\ child \in {"none", "running", "interrupted", "killed", "exited"}
  /\ failed \in BOOLEAN /\ code \in {-1, 0, 1}
  /\ disk \in [Files -> {0} \cup Versions]
  /\ edits \in 0..MaxEdits /\ cancelled \in BOOLEAN

\* A server exists only while the loop watches it or stops it.
Unattended ==
  \/ pc \in {"top", "build", "built", "wait", "returned"}
  \/ pc = "walk" /\ goal # "poll"

Attended == Unattended => child = "none"

\* The files the last build has read: all of them once it is over.
Read ==
  IF pc = "build" THEN Watched \ todo
  ELSE IF pc \in {"built", "select", "wait"} \/ (pc = "walk" /\ goal # "baseline") THEN Watched
  ELSE {}

\* A file that is on disk as the snapshot before the build has it was built as it is: the
\* build read it after the snapshot, and a version does not come back.
BuiltAsSeen == \A f \in Read \cap DOMAIN state : state[f] = disk[f] => compiled[f] = disk[f]

DevInv == DevTypes /\ Attended /\ BuiltAsSeen

-----------------------------------------------------------------------------
(* Lemmas                                                                  *)

\* What a walk records.
LEMMA Snapshot ==
  ASSUME NEW s
  PROVE  s \in Snapshots <=> \E S \in SUBSET Watched : s \in [S -> Versions]
BY DEF Snapshots

LEMMA WatchedFiles == Watched \subseteq Files
BY DEF Watched, watchedDevFile

LEMMA InitDevInv == DevInit => DevInv
<1> SUFFICES ASSUME DevInit
             PROVE  DevInv
  OBVIOUS
<1> USE DevLoopAssumption
<1>1. Nothing \in Snapshots /\ DOMAIN Nothing = {}
  <2>1. Nothing \in [{} -> Versions] /\ {} \in SUBSET Watched
    BY DEF Nothing
  <2> QED  BY <2>1, Snapshot DEF Nothing
<1>2. edits = 0 /\ Versions = 1..1
  BY DEF DevInit, Versions
<1>3. DevTypes
  <2>1. 1 \in Versions /\ 0 \in {0} \cup Versions /\ edits \in 0..MaxEdits
    BY <1>2
  <2>2. disk \in [Files -> {0} \cup Versions] /\ compiled \in [Watched -> {0} \cup Versions]
    BY <2>1 DEF DevInit
  <2> QED  BY <1>1, <2>1, <2>2 DEF DevInit, DevTypes
<1>4. Attended /\ BuiltAsSeen
  BY <1>1 DEF DevInit, Attended, BuiltAsSeen
<1> QED  BY <1>3, <1>4 DEF DevInv

\* A save.  It gives the file a version no snapshot has, or none.
LEMMA EditDevInv ==
  ASSUME DevInv, NEW f \in Files, NEW gone \in BOOLEAN, Edit(f, gone)
  PROVE  DevInv'
<1>1. /\ edits < MaxEdits /\ edits' = edits + 1
      /\ disk' = [disk EXCEPT ![f] = IF gone THEN 0 ELSE edits + 2]
      /\ UNCHANGED <<pc, goal, todo, seen, state, compiled, child, failed, code, cancelled>>
  BY DEF Edit
<1>2. edits \in 0..MaxEdits /\ MaxEdits \in Nat
  BY DevLoopAssumption DEF DevInv, DevTypes
<1>3. /\ edits' \in 0..MaxEdits /\ Versions \subseteq Versions' /\ edits + 2 \in Versions'
      /\ edits + 2 \notin Versions /\ 0 \notin Versions
  BY <1>1, <1>2 DEF Versions
<1>4. Snapshots \subseteq Snapshots'
  <2> SUFFICES ASSUME NEW S \in SUBSET Watched
               PROVE  [S -> Versions] \subseteq [S -> Versions']
    BY DEF Snapshots
  <2> QED  BY <1>3
<1>5. DevTypes'
  <2>1. disk' \in [Files -> {0} \cup Versions'] /\ compiled' \in [Watched -> {0} \cup Versions']
    BY <1>1, <1>3 DEF DevInv, DevTypes
  <2> QED  BY <1>1, <1>3, <1>4, <2>1 DEF DevInv, DevTypes
<1>6. Attended'
  BY <1>1 DEF DevInv, Attended, Unattended
<1>7. BuiltAsSeen'
  <2> SUFFICES ASSUME NEW g \in Read \cap DOMAIN state, state[g] = disk'[g]
               PROVE  compiled[g] = disk'[g]
    BY <1>1 DEF BuiltAsSeen, Read
  <2>1. state[g] \in Versions /\ g \in Files
    BY WatchedFiles DEF DevInv, DevTypes, Snapshots
  <2>2. g # f
    BY <1>1, <1>3, <2>1 DEF DevInv, DevTypes
  <2> QED  BY <1>1, <2>1, <2>2 DEF DevInv, DevTypes, BuiltAsSeen
<1> QED  BY <1>5, <1>6, <1>7 DEF DevInv

\* The steps that leave the sources, the snapshot and the build as they are: no more files
\* count as read, and the server is gone when nobody attends to it.
LEMMA Quiet ==
  ASSUME DevInv, UNCHANGED <<disk, edits, state, compiled>>, Read' \subseteq Read,
         pc' \in {"top", "walk", "build", "built", "select", "wait", "stop", "reap", "returned"},
         goal' \in {"baseline", "poll", "wait"}, todo' \subseteq Watched, seen' \in Snapshots,
         child' \in {"none", "running", "interrupted", "killed", "exited"},
         failed' \in BOOLEAN, code' \in {-1, 0, 1}, cancelled' \in BOOLEAN,
         Unattended' => child' = "none"
  PROVE  DevInv'
<1>1. Versions' = Versions /\ Snapshots' = Snapshots
  BY DEF Versions, Snapshots
<1>2. DevTypes'
  BY <1>1 DEF DevInv, DevTypes
<1>3. Attended' /\ BuiltAsSeen'
  BY DEF DevInv, Attended, BuiltAsSeen
<1> QED  BY <1>2, <1>3 DEF DevInv

LEMMA Empty == Nothing \in Snapshots /\ Present \subseteq Watched
<1>1. Nothing \in [{} -> Versions] /\ {} \in SUBSET Watched
  BY DEF Nothing
<1> QED  BY <1>1, Snapshot DEF Present

\* The steps of the user, the server and the loop that read nothing.
LEMMA QuietDevInv ==
  ASSUME DevInv,
         \/ Cancel \/ ChildExits \/ Top \/ WalkFails \/ Compare \/ BuildEnds \/ Start
         \/ SelectCancelled \/ SelectExited \/ SelectTick \/ WaitDone \/ WaitTick
         \/ Reap \/ KillTimeout
  PROVE  DevInv'
<1> USE DEF Read, Unattended, Attended, outside
<1>1. CASE Cancel
  BY <1>1, Quiet DEF Cancel, DevInv, DevTypes
<1>2. CASE ChildExits
  BY <1>2, Quiet DEF ChildExits, DevInv, DevTypes
<1>3. CASE Top
  BY <1>3, Quiet, Empty DEF Top, BeginWalk, Return, DevInv, DevTypes
<1>4. CASE WalkFails
  BY <1>4, Quiet DEF WalkFails, BeginStop, Return, DevInv, DevTypes
<1>5. CASE Compare
  BY <1>5, Quiet DEF Compare, BeginStop, DevInv, DevTypes
<1>6. CASE BuildEnds
  BY <1>6, Quiet DEF BuildEnds, Return, DevInv, DevTypes
<1>7. CASE Start
  BY <1>7, Quiet DEF Start, Return, DevInv, DevTypes
<1>8. CASE SelectCancelled
  BY <1>8, Quiet DEF SelectCancelled, BeginStop, DevInv, DevTypes
<1>9. CASE SelectExited
  BY <1>9, Quiet DEF SelectExited, DevInv, DevTypes
<1>10. CASE SelectTick
  BY <1>10, Quiet, Empty DEF SelectTick, BeginWalk, DevInv, DevTypes
<1>11. CASE WaitDone
  BY <1>11, Quiet DEF WaitDone, Return, DevInv, DevTypes
<1>12. CASE WaitTick
  BY <1>12, Quiet, Empty DEF WaitTick, BeginWalk, DevInv, DevTypes
<1>13. CASE Reap
  BY <1>13, Quiet DEF Reap, Stopped, Return, DevInv, DevTypes
<1>14. CASE KillTimeout
  BY <1>14, Quiet DEF KillTimeout, DevInv, DevTypes
<1> QED  BY <1>1, <1>2, <1>3, <1>4, <1>5, <1>6, <1>7, <1>8, <1>9, <1>10, <1>11, <1>12,
            <1>13, <1>14

LEMMA WalkFileDevInv ==
  ASSUME DevInv, NEW f \in Watched, WalkFile(f)
  PROVE  DevInv'
<1>1. PICK S \in SUBSET Watched : seen \in [S -> Versions]
  BY Snapshot DEF DevInv, DevTypes
<1>2. disk[f] \in Versions
  BY WatchedFiles DEF WalkFile, DevInv, DevTypes, Versions
<1>3. seen' \in [S \cup {f} -> Versions]
  BY <1>1, <1>2 DEF WalkFile
<1>4. seen' \in Snapshots
  BY <1>3, Snapshot
<1> QED  BY <1>4, Quiet DEF WalkFile, DevInv, DevTypes, Read, Unattended, Attended, outside

\* The build begins with nothing read.
LEMMA TakeBaselineDevInv ==
  ASSUME DevInv, TakeBaseline
  PROVE  DevInv'
<1>1. Versions' = Versions /\ Snapshots' = Snapshots
  BY DEF TakeBaseline, outside, Versions, Snapshots
<1>2. DevTypes'
  BY <1>1 DEF TakeBaseline, outside, DevInv, DevTypes
<1>3. Attended' /\ Read' = {}
  BY DEF TakeBaseline, DevInv, Attended, Unattended, Read
<1> QED  BY <1>2, <1>3 DEF DevInv, BuiltAsSeen

LEMMA BuildReadDevInv ==
  ASSUME DevInv, NEW f \in Watched, BuildRead(f)
  PROVE  DevInv'
<1>1. /\ pc = "build" /\ f \in todo /\ todo' = todo \ {f}
      /\ compiled' = [compiled EXCEPT ![f] = disk[f]]
      /\ UNCHANGED <<pc, goal, seen, state, child, failed, code, disk, edits, cancelled>>
  BY DEF BuildRead, outside
<1>2. Versions' = Versions /\ Snapshots' = Snapshots /\ disk[f] \in {0} \cup Versions
  BY <1>1, WatchedFiles DEF Versions, Snapshots, DevInv, DevTypes
<1>3. DevTypes'
  BY <1>1, <1>2 DEF DevInv, DevTypes
<1>4. Attended' /\ Read' = Read \cup {f}
  BY <1>1 DEF DevInv, Attended, Unattended, Read
<1>5. \A g \in Watched : compiled'[g] = IF g = f THEN disk[f] ELSE compiled[g]
  BY <1>1 DEF DevInv, DevTypes
<1>6. BuiltAsSeen'
  BY <1>1, <1>4, <1>5 DEF DevInv, DevTypes, BuiltAsSeen, Read
<1> QED  BY <1>3, <1>4, <1>6 DEF DevInv

LEMMA StepDevInv == DevInv /\ [DevNext]_devVars => DevInv'
<1> SUFFICES ASSUME DevInv, [DevNext]_devVars
             PROVE  DevInv'
  OBVIOUS
<1>1. CASE UNCHANGED devVars
  BY <1>1
  DEF devVars, DevInv, DevTypes, Versions, Snapshots, Attended, Unattended, BuiltAsSeen, Read
<1>2. CASE \E f \in Files, gone \in BOOLEAN : Edit(f, gone)
  BY <1>2, EditDevInv
<1>3. CASE \E f \in Watched : WalkFile(f) \/ BuildRead(f)
  BY <1>3, WalkFileDevInv, BuildReadDevInv
<1>4. CASE TakeBaseline
  BY <1>4, TakeBaselineDevInv
<1> QED  BY <1>1, <1>2, <1>3, <1>4, QuietDevInv DEF DevNext, Loop

-----------------------------------------------------------------------------
(* The theorems                                                            *)

\* The inductive invariant holds (DevLoop.DevSpec, whatever the fairness).
THEOREM DevInvariance == DevSpec => []DevInv
BY InitDevInv, StepDevInv, PTL DEF DevSpec

\* Every variable keeps its type, and no version is given twice (DevLoop.DevTypeOK).
THEOREM DevTypeCorrect == DevSpec => []DevTypeOK
<1>1. DevInv => DevTypeOK
  <2> SUFFICES ASSUME DevInv
               PROVE  DevTypeOK
    OBVIOUS
  <2>1. Versions \subseteq 1..MaxEdits + 1
    BY DevLoopAssumption DEF DevInv, DevTypes, Versions
  <2>2. ASSUME NEW s \in Snapshots
        PROVE  s \in UNION {[S -> 1..MaxEdits + 1] : S \in SUBSET Watched}
    <3>1. PICK S \in SUBSET Watched : s \in [S -> Versions]
      BY Snapshot
    <3>2. s \in [S -> 1..MaxEdits + 1]
      BY <2>1, <3>1
    <3> QED  BY <3>2
  <2>3. {0} \cup Versions \subseteq 0..MaxEdits + 1
    BY <2>1, DevLoopAssumption
  <2>4. compiled \in [Watched -> 0..MaxEdits + 1] /\ disk \in [Files -> 0..MaxEdits + 1]
    BY <2>3 DEF DevInv, DevTypes
  <2> QED  BY <2>2, <2>4 DEF DevInv, DevTypes, DevTypeOK
<1> QED  BY <1>1, DevInvariance, PTL

\* At most one server runs, and none is left behind when the next one is about to be
\* started or the loop has returned (DevLoop.NoServerLeftBehind).
THEOREM NoneLeftBehind == DevSpec => []NoServerLeftBehind
<1>1. DevInv => NoServerLeftBehind
  BY DEF DevInv, Attended, Unattended, NoServerLeftBehind
<1> QED  BY <1>1, DevInvariance, PTL

\* After a build: while the server is started and watched, or a change is waited for.
Built == pc \in {"built", "select", "wait"} \/ (pc = "walk" /\ goal # "baseline")

\* When the sources are as in the snapshot that polls are compared with, the last build is
\* of what is on disk: an edit during the build, however its reads fell, is a difference a
\* poll will see.
EditsShow ==
  Built /\ state = [f \in Present |-> disk[f]] =>
    \A f \in Watched : compiled[f] = disk[f] \/ CreatedAndDeleted(f)

\* The safety behind DevLoop.SessionSettles: EditsShow, for any number of files and edits.
THEOREM NoEditMissed == DevSpec => []EditsShow
<1>1. DevInv => EditsShow
  <2> SUFFICES ASSUME DevInv, Built, state = [f \in Present |-> disk[f]], NEW f \in Watched
               PROVE  compiled[f] = disk[f] \/ CreatedAndDeleted(f)
    BY DEF EditsShow
  <2>1. f \in Read
    BY DEF Built, Read
  <2>2. CASE f \in Present
    BY <2>1, <2>2 DEF DevInv, BuiltAsSeen
  <2>3. CASE f \notin Present
    <3>1. disk[f] = 0
      BY <2>3, WatchedFiles DEF Present, DevInv, DevTypes, Versions
    <3>2. f \notin DOMAIN state
      BY <2>3
    <3> QED  BY <3>1, <3>2 DEF CreatedAndDeleted
  <2> QED  BY <2>2, <2>3
<1> QED  BY <1>1, DevInvariance, PTL
=============================================================================
