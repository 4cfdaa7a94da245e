------------------------------ MODULE DevLoop ------------------------------
(***************************************************************************)
(* ossein dev (internal/cli/dev.go): build the server, run it, poll the    *)
(* sources and restart on a change.  The loop is one goroutine; around it  *)
(* act an editor, the compiler, the server process and the user's ^C.      *)
(* Neither the walk over the sources nor the compiler reads them at one    *)
(* instant: both go file by file while the editor keeps saving.            *)
(*                                                                         *)
(* A file's content, size and modification time are one version number:    *)
(* every save gives a version not seen before, and 0 is a file that is not *)
(* there.                                                                  *)
(***************************************************************************)
EXTENDS Integers, FiniteSets

CONSTANTS
  Files,     \* the files of the project, as records [dir, name, ext]
  MaxEdits   \* bound: how often the editor saves or deletes a file

ASSUME DevLoopAssumption == MaxEdits \in Nat

VARIABLES
  pc,        \* where the loop is
  goal,      \* what the running walk is for: "baseline", "poll" or "wait"
  todo,      \* files the walk, or the compiler, has listed and not yet read
  seen,      \* what the walk has recorded so far: a function on files
  state,     \* the baseline snapshot
  compiled,  \* what the last build read of each file
  child,     \* the server process
  failed,    \* the loop is stopping the server because a walk failed
  code,      \* the exit code of the loop, -1 until it has returned
  disk,      \* the sources: file -> version
  edits,     \* number of saves so far
  cancelled  \* the context is cancelled: the user pressed ^C

devVars == <<pc, goal, todo, seen, state, compiled, child, failed, code,
             disk, edits, cancelled>>
outside == <<disk, edits, cancelled>>

(* ignoredDevDirectory and watchedDevFile.  ".ossein-" stands for every    *)
(* directory whose name starts so, and ext is in lower case.               *)
ignoredDevDirectory ==
  {".git", ".idea", ".vscode", "bin", "node_modules", "tmp", "vendor", ".ossein-"}
watchedDevFile ==
  {f \in Files : \/ f.name \in {".env", "go.mod", "go.sum", "go.work", "go.work.sum"}
                 \/ f.ext \in {".go", ".json", ".sql", ".toml", ".yaml", ".yml"}}
Watched == {f \in watchedDevFile : f.dir \notin ignoredDevDirectory}

Present == {f \in Watched : disk[f] > 0}

\* No file recorded: the map a walk starts from.
Nothing == [f \in {} |-> 0]

DevTypeOK ==
  /\ pc \in {"top", "walk", "build", "built", "select", "wait", "stop",
             "reap", "returned"}
  /\ goal \in {"baseline", "poll", "wait"}
  /\ todo \subseteq Watched
  /\ seen \in UNION {[S -> 1..MaxEdits + 1] : S \in SUBSET Watched}
  /\ state \in UNION {[S -> 1..MaxEdits + 1] : S \in SUBSET Watched}
  /\ compiled \in [Watched -> 0..MaxEdits + 1]
  /\ child \in {"none", "running", "interrupted", "killed", "exited"}
  /\ failed \in BOOLEAN
  /\ code \in {-1, 0, 1}
  /\ disk \in [Files -> 0..MaxEdits + 1]
  /\ edits \in 0..MaxEdits
  /\ cancelled \in BOOLEAN

DevInit ==
  /\ pc = "top" /\ goal = "baseline" /\ todo = {}
  /\ seen = Nothing /\ state = Nothing
  /\ compiled = [f \in Watched |-> 0]
  /\ child = "none" /\ failed = FALSE /\ code = -1
  /\ disk = [f \in Files |-> 1]
  /\ edits = 0 /\ cancelled = FALSE

-----------------------------------------------------------------------------
(* The world around the loop.                                              *)

\* The editor saves f, creates it, or (gone) deletes it.
Edit(f, gone) ==
  /\ edits < MaxEdits
  /\ gone => disk[f] > 0
  /\ edits' = edits + 1
  /\ disk' = [disk EXCEPT ![f] = IF gone THEN 0 ELSE edits + 2]
  /\ UNCHANGED <<pc, goal, todo, seen, state, compiled, child, failed, code, cancelled>>

Cancel ==
  /\ ~cancelled
  /\ cancelled' = TRUE
  /\ UNCHANGED <<pc, goal, todo, seen, state, compiled, child, failed, code, disk, edits>>

\* The server ends - it finishes or crashes by itself, it obeys the
\* interrupt, or it dies of the kill - and the goroutine in command.Wait
\* puts the result in the buffered channel exited.
ChildExits ==
  /\ child \in {"running", "interrupted", "killed"}
  /\ child' = "exited"
  /\ UNCHANGED <<pc, goal, todo, seen, state, compiled, failed, code, outside>>

-----------------------------------------------------------------------------
(* The loop.                                                               *)

Return(c) == pc' = "returned" /\ code' = c

\* The steps that begin a walk: WalkDir reads the directories' entries.
BeginWalk(g) == pc' = "walk" /\ goal' = g /\ todo' = Present /\ seen' = Nothing

\* stopProcess: interrupt the server.  One that has already gone cannot be
\* signalled; killing it instead changes nothing.
BeginStop ==
  /\ pc' = "stop"
  /\ child' = IF child = "running" THEN "interrupted" ELSE child

\* The head of the loop: a cancelled context ends it, anything else takes
\* the snapshot the next build is compared with.
Top ==
  /\ pc = "top"
  /\ IF cancelled THEN Return(0) /\ UNCHANGED <<goal, todo, seen>>
                  ELSE BeginWalk("baseline") /\ UNCHANGED code
  /\ UNCHANGED <<state, compiled, child, failed, outside>>

\* watchState reaches one file of the listing.
WalkFile(f) ==
  /\ pc = "walk" /\ f \in todo /\ disk[f] > 0
  /\ seen' = [g \in DOMAIN seen \cup {f} |-> IF g = f THEN disk[f] ELSE seen[g]]
  /\ todo' = todo \ {f}
  /\ UNCHANGED <<pc, goal, state, compiled, child, failed, code, outside>>

\* entry.Info fails: the file was deleted after its directory was listed.
\* The walk's error ends the session, once the server, if any, is stopped.
WalkFails ==
  /\ pc = "walk" /\ \E f \in todo : disk[f] = 0
  /\ todo' = {}
  /\ failed' = TRUE
  /\ IF goal = "poll" THEN BeginStop /\ UNCHANGED code
                      ELSE Return(1) /\ UNCHANGED child
  /\ UNCHANGED <<goal, seen, state, compiled, outside>>

\* The walk for the baseline has ended: the compiler starts, and lists what
\* it will read.
TakeBaseline ==
  /\ pc = "walk" /\ todo = {} /\ goal = "baseline"
  /\ state' = seen
  /\ pc' = "build"
  /\ todo' = Watched
  /\ UNCHANGED <<goal, seen, compiled, child, failed, code, outside>>

\* The walk of a poll has ended: sameState keeps polling; a difference stops
\* the server, or ends waitForChange and starts the loop over.  The snapshot
\* compared is dropped: the next build takes its own.
Compare ==
  /\ pc = "walk" /\ todo = {} /\ goal \in {"poll", "wait"}
  /\ \/ /\ seen = state
        /\ pc' = IF goal = "poll" THEN "select" ELSE "wait"
        /\ UNCHANGED child
     \/ /\ seen # state /\ goal = "poll"
        /\ BeginStop
     \/ /\ seen # state /\ goal = "wait"
        /\ pc' = "top"
        /\ UNCHANGED child
  /\ UNCHANGED <<goal, todo, seen, state, compiled, failed, code, outside>>

\* go build reads one more file.
BuildRead(f) ==
  /\ pc = "build" /\ f \in todo
  /\ compiled' = [compiled EXCEPT ![f] = disk[f]]
  /\ todo' = todo \ {f}
  /\ UNCHANGED <<pc, goal, seen, state, child, failed, code, outside>>

\* A bug to look for: the baseline is taken after the build.
BaselineAfterBuild ==
  /\ pc = "build" /\ todo = {}
  /\ pc' \in {"built", "wait"}
  /\ state' = [f \in Present |-> disk[f]]
  /\ UNCHANGED <<goal, todo, seen, compiled, child, failed, code, outside>>

\* The build ends.  It fails on its input, or is killed by the context; a
\* failure is the end of the loop when the context is cancelled.
BuildEnds ==
  /\ pc = "build"
  /\ \/ todo = {} /\ pc' = "built" /\ UNCHANGED code
     \/ todo = {} /\ ~cancelled /\ pc' = "wait" /\ UNCHANGED code
     \/ cancelled /\ Return(0)
  /\ todo' = {}
  /\ UNCHANGED <<goal, seen, state, compiled, child, failed, outside>>

\* command.Start, and the goroutine that waits for the process.
Start ==
  /\ pc = "built"
  /\ \/ child' = "running" /\ pc' = "select" /\ UNCHANGED code
     \/ Return(1) /\ UNCHANGED child
  /\ UNCHANGED <<goal, todo, seen, state, compiled, failed, outside>>

\* The select over a running server: cancellation, its exit, the ticker.
SelectCancelled ==
  /\ pc = "select" /\ cancelled
  /\ BeginStop
  /\ UNCHANGED <<goal, todo, seen, state, compiled, failed, code, outside>>

SelectExited ==
  /\ pc = "select" /\ child = "exited"
  /\ child' = "none"
  /\ pc' = "wait"
  /\ UNCHANGED <<goal, todo, seen, state, compiled, failed, code, outside>>

SelectTick ==
  /\ pc = "select"
  /\ BeginWalk("poll")
  /\ UNCHANGED <<state, compiled, child, failed, code, outside>>

\* waitForChange: nothing runs; cancellation ends the loop, with code 0.
WaitDone ==
  /\ pc = "wait" /\ cancelled
  /\ Return(0)
  /\ UNCHANGED <<goal, todo, seen, state, compiled, child, failed, outside>>

WaitTick ==
  /\ pc = "wait"
  /\ BeginWalk("wait")
  /\ UNCHANGED <<state, compiled, child, failed, code, outside>>

\* stopProcess's select.  After it the loop returns - the context was
\* cancelled when it was called, or the walk failed - or starts over.  A
\* restart that finds the context cancelled returns at the head of the loop.
Stopped ==
  IF failed THEN Return(1) ELSE pc' = "top" /\ UNCHANGED code

Reap ==
  /\ pc \in {"stop", "reap"} /\ child = "exited"
  /\ child' = "none"
  /\ Stopped
  /\ UNCHANGED <<goal, todo, seen, state, compiled, failed, outside>>

\* Bugs to look for: stopProcess kills and does not wait for
\* the process; it waits for the interrupted server and never kills it.
KillAndLeave ==
  /\ pc = "stop"
  /\ child' = IF child = "interrupted" THEN "killed" ELSE child
  /\ Stopped
  /\ UNCHANGED <<goal, todo, seen, state, compiled, failed, outside>>

KillNever == FALSE

\* The server outlives shutdownTimeout: it is killed, and waited for.
KillTimeout ==
  /\ pc = "stop"
  /\ child' = IF child = "interrupted" THEN "killed" ELSE child
  /\ pc' = "reap"
  /\ UNCHANGED <<goal, todo, seen, state, compiled, failed, code, outside>>

Loop ==
  \/ Top \/ WalkFails \/ TakeBaseline \/ Compare \/ BuildEnds \/ Start
  \/ SelectCancelled \/ SelectExited \/ SelectTick \/ WaitDone \/ WaitTick
  \/ Reap \/ KillTimeout
  \/ \E f \in Watched : WalkFile(f) \/ BuildRead(f)

DevNext ==
  \/ Loop \/ Cancel \/ ChildExits
  \/ \E f \in Files, gone \in BOOLEAN : Edit(f, gone)

DevSpec == DevInit /\ [][DevNext]_devVars

\* The loop runs, its tickers and timers fire, and a killed process dies.
\* That command.Wait then returns assumes that nothing the server started
\* still holds its output.  Go's select picks among ready cases at random,
\* so a case that is ready at every turn is taken in the end.  The editor,
\* the user and a server that ignores the interrupt owe nothing.
DevFairSpec ==
  /\ DevSpec
  /\ WF_devVars(Loop)
  /\ WF_devVars(child = "killed" /\ ChildExits)
  /\ SF_devVars(SelectCancelled) /\ SF_devVars(WaitDone) /\ SF_devVars(SelectExited)

-----------------------------------------------------------------------------
(* Properties.                                                             *)

\* At most one server runs, and none outlives the session: whenever the
\* loop is about to start one, or has returned, every process it started
\* has been waited for - however the session ended (an edit, ^C, a failed
\* walk, a server that ignores the interrupt).
NoServerLeftBehind ==
  pc \in {"top", "build", "built", "wait", "returned"} => child = "none"

\* A file created after the snapshot, read by the compiler and deleted again
\* before the next poll leaves two equal snapshots around a build that
\* contains it.
CreatedAndDeleted(f) == disk[f] = 0 /\ f \notin DOMAIN state

\* An edit is never lost, wherever it falls - between the snapshot and the
\* compiler's read, during the walk, while the server starts or stops: once
\* the editor rests, the last build has read what is on disk, unless the
\* session has ended; and ^C ends the session, whatever the server does
\* about the interrupt.
SessionSettles ==
  <>[](\/ pc = "returned"
       \/ /\ ~cancelled
          /\ \A f \in Watched : compiled[f] = disk[f] \/ CreatedAndDeleted(f))

=============================================================================
