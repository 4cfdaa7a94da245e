------------------------------- MODULE Timeout --------------------------------
(***************************************************************************)
(* The timeout middleware, src/middleware/timeout.go, on top of the        *)
(* response writer of src/response_writer.go: the request goroutine, the   *)
(* goroutine that runs the handler, the deadline, and the guard between    *)
(* the two goroutines and the response.                                    *)
(*                                                                         *)
(* Abstracted: what is written; a status or a body part is known by its    *)
(* author.  The application's error handler is taken to be the default     *)
(* one.  net/http, below the response writer, sends the first status it is *)
(* given, or an implicit 200, and nothing on a connection it gave away; a  *)
(* write waits for as long as the client takes nothing.  A Flush or Hijack *)
(* that reaches it after ServeHTTP returned is outside the model.          *)
(***************************************************************************)

VARIABLES
  ctx,        (* the request context: live, past its deadline, cancelled   *)
  request,    (* where the request goroutine stands                        *)
  handler,    (* where the handler goroutine stands                        *)
  done,       (* the buffered channel of one outcome                       *)
  mu,         (* timeoutWriter.mu: free, or the goroutine that writes      *)
  committed,  (* timeoutWriter.committed                                   *)
  hijacked,   (* timeoutWriter.hijacked                                    *)
  status,     (* ResponseWriter.status, by author                          *)
  sent,       (* net/http: the author of the status line on the wire       *)
  body,       (* net/http: the authors of the body                         *)
  conn,       (* net/http: who owns the connection                         *)
  logged,     (* a panic after the deadline was logged                     *)
  discarded   (* history: the guard dropped something the handler wrote    *)

guard == <<mu, committed, hijacked>>
wire  == <<status, sent, body, conn>>
vars  == <<ctx, request, handler, done, guard, wire, logged, discarded>>

Over == {"returned", "panicked"}

Init ==
  /\ ctx = "live" /\ request = "select" /\ handler = "running" /\ done = "empty"
  /\ mu = "free" /\ committed = FALSE /\ hijacked = FALSE
  /\ status = "none" /\ sent = "none" /\ body = {} /\ conn = "server"
  /\ logged = FALSE /\ discarded = FALSE

-----------------------------------------------------------------------------
(* The context *)

Deadline ==
  /\ ctx = "live"
  /\ ctx' = "expired"
  /\ UNCHANGED <<request, handler, done, guard, wire, logged, discarded>>

\* The client went away.
ClientGone ==
  /\ ctx = "live"
  /\ ctx' = "cancelled"
  /\ UNCHANGED <<request, handler, done, guard, wire, logged, discarded>>

-----------------------------------------------------------------------------
(* What reaches net/http *)

\* WriteHeader or Write on the response writer: the status is recorded once.
Record(author) == status' = IF status = "none" THEN author ELSE status

Send(author) ==
  sent' = IF sent = "none" /\ conn = "server" THEN author ELSE sent

SendBody(author) ==
  body' = IF conn = "server" THEN body \cup {author} ELSE body

\* ServeHTTP returns: an unwritten response becomes an empty 200.
Close == sent' = IF sent = "none" /\ conn = "server" THEN "implicit" ELSE sent

-----------------------------------------------------------------------------
(* The handler, through the guard *)

\* A bug to look for: output is dropped only once the timeout has answered.
LateReject == hijacked \/ (ctx = "expired" /\ mu = "request")

Reject == hijacked \/ ctx = "expired"

\* WriteHeader and Write hold the lock from the check to the return of the inner call.
\* A second status is dropped whatever the deadline.
HandlerWriteHeader ==
  /\ handler = "running" /\ mu = "free"
  /\ \/ /\ ~committed /\ ~Reject
        /\ committed' = TRUE /\ mu' = "handler" /\ handler' = "header"
        /\ UNCHANGED discarded
     \/ /\ committed \/ Reject
        /\ discarded' = (discarded \/ Reject)
        /\ UNCHANGED <<committed, mu, handler>>
  /\ UNCHANGED <<ctx, request, done, hijacked, wire, logged>>

HandlerWrite ==
  /\ handler = "running" /\ mu = "free"
  /\ \/ /\ ~Reject
        /\ committed' = TRUE /\ mu' = "handler" /\ handler' = "write"
        /\ UNCHANGED discarded
     \/ /\ Reject
        /\ discarded' = TRUE
        /\ UNCHANGED <<committed, mu, handler>>
  /\ UNCHANGED <<ctx, request, done, hijacked, wire, logged>>

\* The inner call, when the client lets it return.
InnerWrite ==
  /\ handler \in {"header", "write"}
  /\ Record("handler") /\ Send("handler")
  /\ IF handler = "write" THEN SendBody("handler") ELSE UNCHANGED body
  /\ mu' = "free" /\ handler' = "running"
  /\ UNCHANGED <<ctx, request, done, committed, hijacked, conn, logged, discarded>>

\* http.ResponseController reaches net/http through Unwrap, past the guard and
\* past the record of the response writer: a flush before the first write sends an
\* empty 200 that neither knows of.
HandlerFlush ==
  /\ handler = "running" /\ request \notin Over
  /\ Send("flushed")
  /\ UNCHANGED <<ctx, request, handler, done, guard, status, body, conn, logged, discarded>>

HandlerHijack ==
  /\ handler = "running" /\ request \notin Over
  /\ conn = "server"
  /\ conn' = "handler" /\ handler' = "hijacking"
  /\ UNCHANGED <<ctx, request, done, guard, status, sent, body, logged, discarded>>

HandlerHijacked ==
  /\ handler = "hijacking" /\ mu = "free"
  /\ hijacked' = TRUE /\ handler' = "running"
  /\ UNCHANGED <<ctx, request, done, mu, committed, wire, logged, discarded>>

HandlerEnd ==
  /\ handler = "running"
  /\ handler' \in {"returning", "panicking"}
  /\ UNCHANGED <<ctx, request, done, guard, wire, logged, discarded>>

\* A bug to look for: the channel has no buffer.
RendezvousDeliver ==
  /\ handler \in {"returning", "panicking"}
  /\ request \in {"select", "wait"}
  /\ handler' = "ended"
  /\ done' = handler
  /\ UNCHANGED <<ctx, request, guard, wire, logged, discarded>>

\* The deferred function: a panic past the deadline is logged, any other end
\* is delivered to the request goroutine.
Deliver ==
  /\ handler \in {"returning", "panicking"}
  /\ handler' = "ended"
  /\ IF handler = "panicking" /\ ctx = "expired"
     THEN logged' = TRUE /\ UNCHANGED done
     ELSE done' = handler /\ UNCHANGED logged
  /\ UNCHANGED <<ctx, request, guard, wire, discarded>>

-----------------------------------------------------------------------------
(* The request goroutine *)

\* When both are ready select may take either branch.
SelectDone ==
  /\ request = "select" /\ done # "empty"
  /\ request' = "finish"
  /\ UNCHANGED <<ctx, handler, done, guard, wire, logged, discarded>>

\* A bug to look for: the handler is waited for whatever ended the context.
SelectWait ==
  /\ request = "select" /\ ctx # "live"
  /\ request' = "wait"
  /\ UNCHANGED <<ctx, handler, done, guard, wire, logged, discarded>>

SelectEnded ==
  /\ request = "select" /\ ctx # "live"
  /\ request' = IF ctx = "expired" THEN "expire" ELSE "wait"
  /\ UNCHANGED <<ctx, handler, done, guard, wire, logged, discarded>>

Wait ==
  /\ request = "wait" /\ done # "empty"
  /\ request' = "finish"
  /\ UNCHANGED <<ctx, handler, done, guard, wire, logged, discarded>>

\* finish: commitHeaders, then the handler's panic or the return, and the
\* deferred cancel.
Finish ==
  /\ request = "finish" /\ mu = "free"
  /\ committed' = (committed \/ ~Reject)
  /\ IF done = "panicking"
     THEN request' = "panicked" /\ UNCHANGED sent
     ELSE request' = "returned" /\ Close
  /\ ctx' = IF ctx = "live" THEN "cancelled" ELSE ctx
  /\ UNCHANGED <<handler, done, mu, hijacked, status, body, conn, logged, discarded>>

Expire ==
  /\ request = "expire" /\ mu = "free"
  /\ IF committed \/ hijacked
     THEN request' = "returned" /\ Close /\ UNCHANGED <<mu, committed>>
     ELSE request' = "render" /\ mu' = "request" /\ committed' = TRUE /\ UNCHANGED sent
  /\ UNCHANGED <<ctx, handler, done, hijacked, status, body, conn, logged, discarded>>

\* WriteError under the lock, unless the response writer recorded a response.
Render ==
  /\ request = "render"
  /\ IF status = "none"
     THEN Record("timeout") /\ Send("timeout") /\ SendBody("timeout")
     ELSE Close /\ UNCHANGED <<status, body>>
  /\ mu' = "free" /\ request' = "returned"
  /\ UNCHANGED <<ctx, handler, done, committed, hijacked, conn, logged, discarded>>

-----------------------------------------------------------------------------
Handler ==
  \/ HandlerWriteHeader \/ HandlerWrite \/ InnerWrite \/ HandlerFlush
  \/ HandlerHijack \/ HandlerHijacked \/ HandlerEnd \/ Deliver
Request == SelectDone \/ SelectEnded \/ Wait \/ Finish \/ Expire \/ Render

Next == Deadline \/ ClientGone \/ Handler \/ Request

Spec == Init /\ [][Next]_vars

\* Both goroutines are scheduled, and sync.Mutex hands over to expire although the
\* handler takes it again and again.  The handler need not end, and no write to the
\* client need return, neither a handler's nor that of the 504.
Fair ==
  /\ WF_vars(SelectDone \/ SelectEnded \/ Wait \/ Finish) /\ SF_vars(Expire)
  /\ WF_vars(Deliver) /\ WF_vars(HandlerHijacked)
FairSpec == Spec /\ Fair

-----------------------------------------------------------------------------
(* Properties *)

\* Every variable keeps its type; the guard is locked exactly while a write to the
\* client is under way (the deferred unlocks), and only an ended handler has delivered
\* its outcome.
TypeOK ==
  /\ ctx \in {"live", "expired", "cancelled"}
  /\ request \in {"select", "finish", "wait", "expire", "render"} \cup Over
  /\ handler \in {"running", "header", "write", "hijacking", "returning", "panicking",
                  "ended"}
  /\ done \in {"empty", "returning", "panicking"}
  /\ mu \in {"free", "handler", "request"}
  /\ {committed, hijacked, logged, discarded} \subseteq BOOLEAN
  /\ status \in {"none", "handler", "timeout"}
  /\ sent \in {"none", "handler", "timeout", "flushed", "implicit"}
  /\ body \subseteq {"handler", "timeout"}
  /\ conn \in {"server", "handler"}
  /\ mu = "request" <=> request = "render"
  /\ mu = "handler" <=> handler \in {"header", "write"}
  /\ done # "empty" => handler = "ended"

\* The client gets the handler's response or the timeout document, never parts of both:
\* expire leaves a committed response alone, nothing the handler writes later is added to
\* the 504, and an empty response stays empty.  A handler that flushes before it writes
\* commits a 200 without committing the guard: the timeout document may follow on that
\* one ("flushed"), where the comment on Timeout promises "a streaming handler that
\* overruns keeps what the client received rather than having a timeout document appended
\* to it" (timeout.go:28).
OneResponse ==
  /\ body # {"handler", "timeout"}
  /\ sent = "handler" => body \subseteq {"handler"}
  /\ sent = "timeout" => body = {"timeout"}
  /\ sent = "implicit" => body = {}

\* Once ServeHTTP returned, net/http may reuse the response: no write of a
\* handler that is still running reaches it.
NoWriteAfterReturn ==
  [][(request \in Over) => UNCHANGED wire]_vars

\* A write to the client is under way, and holds the guard.
Writing == handler \in {"header", "write"} \/ request = "render"

\* A handler that ignores its context does not hold the client: the request ends once
\* the deadline passed, unless a client that takes nothing keeps a write from ever
\* returning; expire waits for that one.
DeadlineHonoured == <>[]Writing \/ (ctx = "expired" ~> request \in Over)

\* The handler goroutine does not leak: when the handler ends, it ends, whether
\* or not anyone still waits for its outcome.
HandlerGoroutineEnds ==
  handler \in {"returning", "panicking"} ~> handler = "ended"

\* The request goroutine waits for the handler and the handler's for someone to
\* take its outcome; neither outlasts the other.
NeitherWaits == DeadlineHonoured /\ HandlerGoroutineEnds

\* What the comment on Timeout says: rejection "does not depend on a race"
\* with the scheduling of this middleware.  A request whose handler's output
\* was dropped is answered, by the handler's earlier commit or with a 504.
DroppedMeansAnswered ==
  request = "returned" /\ discarded /\ conn = "server" => status # "none"
=============================================================================
