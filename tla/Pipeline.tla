----------------------------- MODULE Pipeline ------------------------------
(***************************************************************************)
(* One request on its way through an application: request context,         *)
(* middleware, dispatch, handler, error handler, and back (app.go,         *)
(* notfound.go, errors.go, response.go, middleware/*.go).  It runs on one  *)
(* goroutine, and every layer may answer: a miss is answered by the mux    *)
(* and answered again by the application, an error by the error handler, a *)
(* panic by Recover, which may panic in turn.  The model is the goroutine's *)
(* call stack; what application code does at each call is free.            *)
(*                                                                         *)
(* Of a response the model keeps who wrote its status, its body and its    *)
(* Content-Type, and the headers that went out with it.                    *)
(***************************************************************************)
EXTENDS Integers, Sequences, FiniteSets, SequencesExt

CONSTANTS
  Chains,         \* the orders in which App.Use registers the middleware
  Statuses,       \* the statuses a handler gives to WriteHeader
  ErrorStatuses,  \* the statuses of the errors it returns; see Render
  MaxOps          \* bound: operations of application code on the response

Middlewares == {"accessLog", "cors", "recover", "security", "auth"}

\* A middleware is registered once at most; net/http refuses any other status.
ASSUME PipelineAssumption ==
  /\ \A c \in Chains : c \in Seq(Middlewares) /\ IsInjective(c)
  /\ Statuses \subseteq 100..999 /\ ErrorStatuses \subseteq Int /\ MaxOps \in Nat

VARIABLES
  request,   \* [route, origin, preflight, skipped]; never changes
  config,    \* [chain, errorHandler, notFound, wildcard]; never changes
  stack,     \* the frames of the goroutine, innermost last
  mode,      \* how control reaches the top frame: "call", "return",
             \* "panic" or "abort" (a panic with http.ErrAbortHandler)
  watcher,   \* missWatcher: [routed, status]
  header,    \* the header map: [type, origin, vary, secure]
  resp,      \* the response: [tracked, status, by, body, sent, astray]; see
             \* the response writer
  err,       \* status of the error being rendered
  ops,       \* operations of application code so far
  logged,    \* status in the access log line, -1 before it
  outcome,   \* what net/http makes of the request: "open", "sent" or "closed"
  first,     \* history: who was the first to write, other than the mux
  failed,    \* history: a failure found nothing written
  loose      \* history: the application raised http.ErrAbortHandler, or
             \* panicked with no Recover around it

vars == <<request, config, stack, mode, watcher, header, resp, err, ops,
          logged, outcome, first, failed, loose>>
fixed == <<request, config>>

Nobody == "nobody"
Top == IF stack = <<>> THEN Nobody ELSE Last(stack)
Rest == Front(stack)

TypeOK ==
  /\ mode \in {"call", "return", "panic", "abort"}
  /\ watcher \in [routed : BOOLEAN, status : {0, 404, 405}]
  /\ header.origin \in {Nobody, "preset", "*", "origin"}
  /\ resp.status \in {0, 101} \cup 200..999 /\ resp.tracked \in Int
  /\ logged \in Int
  /\ outcome \in {"open", "sent", "closed"}
  /\ ops \in 0..MaxOps

\* An outer layer (a proxy, a wrapper around the App) may have granted any
\* origin before the application sees the request.
Init ==
  /\ request \in [route : {"ossein", "native", "miss", "method", "redirect"},
                  origin : {"", "listed", "other"}, preflight : BOOLEAN,
                  skipped : BOOLEAN]
  /\ request.preflight => (request.origin # "" /\ request.route = "method")
  /\ config \in [chain : Chains, errorHandler : {"default", "custom"},
                 notFound : {"default", "custom"}, wildcard : BOOLEAN]
  /\ stack = <<"requestContext">> /\ mode = "call"
  /\ watcher = [routed |-> FALSE, status |-> 0]
  /\ \E o \in {Nobody, "preset"} :
       header = [type |-> Nobody, origin |-> o, vary |-> FALSE, secure |-> FALSE]
  /\ resp = [tracked |-> 0, status |-> 0, by |-> Nobody, body |-> {},
             sent |-> header, astray |-> FALSE]
  /\ err = 0 /\ ops = 0 /\ logged = -1 /\ outcome = "open"
  /\ first = Nobody /\ failed = FALSE /\ loose = FALSE

-----------------------------------------------------------------------------
(* The response writer, over net/http's.  tracked is what ResponseWriter    *)
(* has recorded; status, by, body and sent (the headers as they went out)  *)
(* are what the client gets.  astray is a history: the two have disagreed. *)

\* 101 is final to net/http.
Informational(s) == s \in 100..199 \ {101}

Compared(r) == [r EXCEPT !.astray = @ \/ r.tracked # r.status]

\* net/http commits the first final status.
Commit(r, h, s, who) ==
  IF r.status # 0 \/ Informational(s) THEN r
  ELSE [r EXCEPT !.status = s, !.by = who, !.sent = h]

\* ResponseWriter.WriteHeader records the first status of any kind.
SendHeader(r, h, s, who) ==
  Compared(Commit([r EXCEPT !.tracked = IF @ = 0 THEN s ELSE @], h, s, who))

\* ResponseWriter.Write: an implicit 200, and a body.
SendBody(r, h, who) ==
  [SendHeader(r, h, 200, who) EXCEPT !.body = @ \cup {who}]

Written == resp.tracked # 0

\* A whole answer: Content-Type, status and body.
Answer(r, h, s, who) == SendBody(SendHeader(r, [h EXCEPT !.type = who], s, who),
                                 [h EXCEPT !.type = who], who)

\* A failure that meets an unwritten response owes the client an answer.
Fail == failed' = (failed \/ resp.status = 0)

\* A panic: http.ErrAbortHandler is meant to close the connection, any other
\* one is a failure that Recover, if it is around, must answer.
Protected == {stack[i] : i \in DOMAIN stack} \cap {"recover", "respondInternalError"} # {}
Raise(how) ==
  /\ IF how = "abort" THEN UNCHANGED failed ELSE Fail
  /\ loose' = (loose \/ how = "abort" \/ ~Protected)

\* The first author, the mux excepted: dispatch may take its answer back.
Claim(who) == first' = IF first = Nobody THEN who ELSE first

Go(s, m) == stack' = s /\ mode' = m
Pop(m) == Go(Rest, m)

\* The next layer: chain after chain, dispatch last.  The bottom frame is
\* the request context's.
Inward ==
  IF Len(stack) <= Len(config.chain) THEN config.chain[Len(stack)] ELSE "dispatch"
Pass == Go(Append(stack, Inward), "call")

Unwinding == mode # "call"

-----------------------------------------------------------------------------
(* Request context and middleware.                                         *)

\* requestContextMiddleware installs the writer and the request state; when
\* it is left, net/http sends an implicit 200 for an unwritten response, or
\* closes the connection on a panic.
RequestContext ==
  /\ Top = "requestContext"
  /\ \/ /\ mode = "call" /\ Pass
        /\ UNCHANGED <<resp, outcome>>
     \/ /\ mode = "return" /\ Pop("return")
        /\ outcome' = "sent"
        /\ resp' = IF resp.status = 0
                     THEN [resp EXCEPT !.status = 200, !.sent = header] ELSE resp
     \/ /\ mode \in {"panic", "abort"} /\ Pop(mode)
        /\ outcome' = "closed"
        /\ UNCHANGED resp
  /\ UNCHANGED <<fixed, watcher, header, err, ops, logged, first, failed, loose>>

\* A bug to look for: an unset status is logged as it is.
AccessLogUnset ==
  /\ Top = "accessLog"
  /\ \/ mode = "call" /\ Pass /\ UNCHANGED logged
     \/ /\ Unwinding /\ Pop(mode)
        /\ logged' = IF request.skipped THEN logged ELSE resp.tracked
  /\ UNCHANGED <<fixed, watcher, header, resp, err, ops, outcome, first, failed, loose>>

\* AccessLog logs on the way out, a panic included; an unset status is the
\* 200 that net/http will send.
AccessLog ==
  /\ Top = "accessLog"
  /\ \/ mode = "call" /\ Pass /\ UNCHANGED logged
     \/ /\ Unwinding /\ Pop(mode)
        /\ logged' = IF request.skipped THEN logged
                     ELSE IF Written THEN resp.tracked ELSE 200
  /\ UNCHANGED <<fixed, watcher, header, resp, err, ops, outcome, first, failed, loose>>

\* SecurityHeaders fills in the headers that are absent.
SecurityHeaders ==
  /\ Top = "security"
  /\ \/ mode = "call" /\ Pass /\ header' = [header EXCEPT !.secure = TRUE]
     \/ Unwinding /\ Pop(mode) /\ UNCHANGED header
  /\ UNCHANGED <<fixed, watcher, resp, err, ops, logged, outcome, first, failed, loose>>

\* corsPolicy.allows, and what writeAllowOrigin or clearCORSHeaders leave.
Allows == config.wildcard \/ request.origin = "listed"
AllowOrigin == IF config.wildcard THEN "*" ELSE "origin"

\* A bug to look for: a refused origin's headers are left as they came.
GrantedOrKept(ok) ==
  [header EXCEPT !.vary = TRUE, !.origin = IF ok THEN AllowOrigin ELSE @]

Granted(ok) == [header EXCEPT !.vary = TRUE, !.origin = IF ok THEN AllowOrigin ELSE Nobody]

\* CORS: no Origin passes untouched; a preflight is answered here, whatever
\* the policy says of its method; any other request passes with its headers.
Cors ==
  /\ Top = "cors"
  /\ \/ /\ mode = "call" /\ request.origin = ""
        /\ Pass /\ UNCHANGED <<header, resp, first>>
     \/ /\ mode = "call" /\ request.preflight
        /\ \E method \in BOOLEAN : header' = Granted(Allows /\ method)
        /\ resp' = SendHeader(resp, header', 204, "cors")
        /\ Claim("cors") /\ Pop("return")
     \/ /\ mode = "call" /\ request.origin # "" /\ ~request.preflight
        /\ header' = Granted(Allows)
        /\ Pass /\ UNCHANGED <<resp, first>>
     \/ Unwinding /\ Pop(mode) /\ UNCHANGED <<header, resp, first>>
  /\ UNCHANGED <<fixed, watcher, err, ops, logged, outcome, failed, loose>>

\* An application's own middleware: it may refuse the request through
\* WriteError, before the layers below or after them, let it through, or
\* panic.  WriteError renders with the request state marked as rendering.
Auth ==
  /\ Top = "auth"
  /\ \/ mode = "call" /\ Pass /\ UNCHANGED <<err, failed, loose>>
     \/ /\ mode \in {"call", "return"}
        /\ err' = 401 /\ Fail
        /\ Go(Append(Rest, "rendering"), "call")
        /\ UNCHANGED loose
     \/ mode = "call" /\ Raise("panic") /\ Pop("panic") /\ UNCHANGED err
     \/ Unwinding /\ Pop(mode) /\ UNCHANGED <<err, failed, loose>>
  /\ UNCHANGED <<fixed, watcher, header, resp, ops, logged, outcome, first>>

\* Recover: a panic becomes a 500 through WriteError, unless something has
\* been written; http.ErrAbortHandler is raised again.
Recover ==
  /\ Top = "recover"
  /\ \/ mode = "call" /\ Pass /\ UNCHANGED err
     \/ mode \in {"return", "abort"} /\ Pop(mode) /\ UNCHANGED err
     \/ mode = "panic" /\ Written /\ Pop("return") /\ UNCHANGED err
     \/ /\ mode = "panic" /\ ~Written
        /\ Go(Rest \o <<"respondInternalError", "rendering">>, "call")
        /\ err' = 500
  /\ UNCHANGED <<fixed, watcher, header, resp, ops, logged, outcome, first, failed, loose>>

\* A bug to look for: respondInternalError does not recover.
RespondUnprotected ==
  /\ Top = "respondInternalError" /\ Unwinding /\ Pop(mode)
  /\ UNCHANGED <<fixed, watcher, header, resp, err, ops, logged, outcome, first, failed, loose>>

\* respondInternalError: the error handler may be what panicked, so its
\* second panic is answered in plain text.
RespondInternalError ==
  /\ Top = "respondInternalError" /\ Unwinding
  /\ Pop(IF mode = "panic" THEN "return" ELSE mode)
  /\ IF mode = "panic" /\ ~Written
       THEN /\ resp' = Answer(resp, header, 500, "fallback")
            /\ header' = [header EXCEPT !.type = "fallback"]
            /\ Claim("fallback")
       ELSE UNCHANGED <<resp, header, first>>
  /\ UNCHANGED <<fixed, watcher, err, ops, logged, outcome, failed, loose>>

-----------------------------------------------------------------------------
(* Dispatch and handlers.                                                  *)

\* A bug to look for: routes are not marked.
MatchUnmarked ==
  /\ Top = "dispatch" /\ mode = "call" /\ request.route \in {"ossein", "native"}
  /\ Go(Append(stack, request.route), "call")
  /\ UNCHANGED <<fixed, watcher, header, resp, err, ops, logged, outcome, first, failed, loose>>

\* dispatch serves the mux behind a missWatcher.  A route's handler is
\* wrapped by markRouted, from the outside.
Match ==
  /\ Top = "dispatch" /\ mode = "call" /\ request.route \in {"ossein", "native"}
  /\ watcher' = [watcher EXCEPT !.routed = TRUE]
  /\ Go(Append(stack, request.route), "call")
  /\ UNCHANGED <<fixed, header, resp, err, ops, logged, outcome, first, failed, loose>>

\* isRoutingMiss, and what the watcher then does to a status and to a body.
Suppresses(s) == watcher.status = 0 /\ ~watcher.routed /\ s \in {404, 405}

\* The mux answers by itself: a miss, which the watcher keeps, or a redirect
\* of the path, which it lets through.
MuxAnswers ==
  /\ Top = "dispatch" /\ mode = "call" /\ request.route \notin {"ossein", "native"}
  /\ LET s == CASE request.route = "miss" -> 404
                [] request.route = "method" -> 405
                [] OTHER -> 301
     IN IF Suppresses(s)
          THEN watcher' = [watcher EXCEPT !.status = s] /\ UNCHANGED <<resp, first>>
          ELSE resp' = Answer(resp, header, s, "mux") /\ Claim("mux") /\ UNCHANGED watcher
  /\ header' = [header EXCEPT !.type = "mux"]
  /\ Go(stack, "return")
  /\ UNCHANGED <<fixed, err, ops, logged, outcome, failed, loose>>

\* A bug to look for: serveMiss keeps the Content-Type of the mux.
DispatchedAsPlain ==
  /\ Top = "dispatch" /\ Unwinding
  /\ IF mode = "return" /\ watcher.status # 0
       THEN Go(Rest \o <<"serveMiss", "notFound">>, "call") ELSE Pop(mode)
  /\ UNCHANGED <<fixed, watcher, header, resp, err, ops, logged, outcome, first, failed, loose>>

\* dispatch after the mux: a suppressed miss goes to serveMiss, which drops
\* the Content-Type the mux announced and runs the application's handler.
Dispatched ==
  /\ Top = "dispatch" /\ Unwinding
  /\ IF mode = "return" /\ watcher.status # 0
       THEN /\ Go(Rest \o <<"serveMiss", "notFound">>, "call")
            /\ header' = [header EXCEPT !.type = IF @ = "mux" THEN Nobody ELSE @]
       ELSE Pop(mode) /\ UNCHANGED header
  /\ UNCHANGED <<fixed, watcher, resp, err, ops, logged, outcome, first, failed, loose>>

\* A bug to look for: serveMiss leaves the response as its handler did.
MissUnserved ==
  /\ Top = "serveMiss" /\ Unwinding /\ Pop(mode)
  /\ UNCHANGED <<fixed, watcher, header, resp, err, ops, logged, outcome, first, failed, loose>>

\* serveMiss when its handler has returned nil: a response nobody wrote gets
\* the status the mux had given.
MissServed ==
  /\ Top = "serveMiss" /\ Unwinding /\ Pop(mode)
  /\ IF mode = "return" /\ ~Written
       THEN resp' = SendHeader(resp, header, watcher.status, "serveMiss") /\ Claim("serveMiss")
       ELSE UNCHANGED <<resp, first>>
  /\ UNCHANGED <<fixed, watcher, header, err, ops, logged, outcome, failed, loose>>

\* Where application code runs: a route's handler, behind the watcher, or the
\* application's not-found or method-not-allowed handler, in front of it.
Handlers == {"ossein", "native", "notFound"}
Running ==
  /\ Top \in Handlers /\ mode = "call"
  /\ Top = "notFound" => config.notFound = "custom"
Behind == Top # "notFound"
Operate == Running /\ ops < MaxOps /\ ops' = ops + 1

\* It sends a status by itself: WriteHeader, NoContent.
HandlerStatus(s) ==
  /\ Operate
  /\ IF Behind /\ Suppresses(s)
       THEN watcher' = [watcher EXCEPT !.status = s] /\ UNCHANGED resp
       ELSE resp' = SendHeader(resp, header, s, Top) /\ UNCHANGED watcher
  /\ IF Informational(s) THEN UNCHANGED first ELSE Claim(Top)
  /\ UNCHANGED <<fixed, stack, mode, header, err, logged, outcome, failed, loose>>

\* It flushes through http.ResponseController, which goes past the
\* ResponseWriter: net/http sends its implicit 200.
HandlerFlush ==
  /\ Operate
  /\ resp' = Compared(Commit(resp, header, 200, Top))
  /\ Claim(Top)
  /\ UNCHANGED <<fixed, stack, mode, watcher, header, err, logged, outcome, failed, loose>>

\* It writes a body by itself: Write, an event on a stream.
HandlerWrite ==
  /\ Operate
  /\ resp' = IF Behind /\ watcher.status # 0 THEN resp ELSE SendBody(resp, header, Top)
  /\ Claim(Top)
  /\ UNCHANGED <<fixed, stack, mode, watcher, header, err, logged, outcome, failed, loose>>

\* It opens an event stream: headers, 200, flushed.
HandlerStream ==
  /\ Operate
  /\ header' = [header EXCEPT !.type = Top]
  /\ resp' = SendHeader(resp, header', 200, Top)
  /\ Claim(Top)
  /\ UNCHANGED <<fixed, stack, mode, watcher, err, logged, outcome, failed, loose>>

\* JSON, Text, HTML, Blob, Stream, Redirect and File refuse when something has
\* been written; the error is theirs to return, which they may ignore.
HandlerAnswer(s) ==
  /\ Operate
  /\ IF Written THEN UNCHANGED <<resp, header, first, watcher>>
     ELSE /\ header' = [header EXCEPT !.type = Top]
          /\ IF Behind /\ Suppresses(s)
               THEN watcher' = [watcher EXCEPT !.status = s] /\ UNCHANGED resp
               ELSE resp' = Answer(resp, header, s, Top) /\ UNCHANGED watcher
          /\ Claim(Top)
  /\ UNCHANGED <<fixed, stack, mode, err, logged, outcome, failed, loose>>

\* It returns: nil, or an error, which osseinHandler and serveMiss give to the
\* error handler directly - the request is not marked as rendering - and then
\* return, without serveMiss's own status.  A native handler has no error.
HandlerReturns ==
  /\ Running /\ Pop("return")
  /\ UNCHANGED <<fixed, watcher, header, resp, err, ops, logged, outcome, first, failed, loose>>

HandlerFails(s) ==
  /\ Top \in {"ossein", "notFound"} /\ mode = "call"
  /\ (Top = "notFound" /\ config.notFound = "default") => s = watcher.status
  /\ err' = s /\ Fail
  /\ Go(Append(IF Top = "notFound" THEN Front(Rest) ELSE Rest, "errorHandler"), "call")
  /\ UNCHANGED <<fixed, watcher, header, resp, ops, logged, outcome, first, loose>>

HandlerPanics(how) ==
  /\ Running
  /\ Raise(how) /\ Pop(how)
  /\ UNCHANGED <<fixed, watcher, header, resp, err, ops, logged, outcome, first>>

-----------------------------------------------------------------------------
(* The error handler: "errorHandler" called directly, "rendering" called   *)
(* by WriteError with requestState.rendering set.  A custom handler may    *)
(* render a document of its own, with a helper that checks Written, hand   *)
(* the error to DefaultErrorHandler or back to WriteError, or panic.       *)

Rendering == Top \in {"errorHandler", "rendering"} /\ mode = "call"
Custom == Rendering /\ config.errorHandler = "custom"

\* A bug to look for: the document is written over a committed response.
RenderAnyway(who) ==
  /\ Rendering
  /\ who = "custom" => Custom
  /\ Pop("return")
  /\ header' = [header EXCEPT !.type = who]
  /\ resp' = Answer(resp, header, err, who)
  /\ Claim(who)
  /\ UNCHANGED <<fixed, watcher, err, ops, logged, outcome, failed, loose>>

\* defaultErrorResponse, or the custom handler's document.  An HTTPError
\* whose status was never set, or is none of HTTP's, makes net/http panic in
\* WriteHeader, once it has been recorded.
Render(who) ==
  /\ Rendering
  /\ who = "custom" => Custom
  /\ IF Written THEN Pop("return") /\ UNCHANGED <<header, resp, first, failed, loose>>
     ELSE IF err \notin 100..999
       THEN /\ Raise("panic") /\ Pop("panic")
            /\ header' = [header EXCEPT !.type = who]
            /\ resp' = Compared([resp EXCEPT !.tracked = err])
            /\ UNCHANGED first
       ELSE /\ Pop("return")
            /\ header' = [header EXCEPT !.type = who]
            /\ resp' = Answer(resp, header, err, who)
            /\ Claim(who)
            /\ UNCHANGED <<failed, loose>>
  /\ UNCHANGED <<fixed, watcher, err, ops, logged, outcome>>

\* A bug to look for: WriteError does not mark the request.
DelegateUnmarked ==
  /\ Custom
  /\ Go(Append(stack, "errorHandler"), "call")
  /\ UNCHANGED <<fixed, watcher, header, resp, err, ops, logged, outcome, first, failed, loose>>

\* The custom handler delegates to WriteError.  The second time it renders
\* the default document, as Render("default") does.
Delegate ==
  /\ Custom /\ Top = "errorHandler"
  /\ Go(Append(stack, "rendering"), "call")
  /\ UNCHANGED <<fixed, watcher, header, resp, err, ops, logged, outcome, first, failed, loose>>

ErrorHandlerPanics(how) ==
  /\ Custom
  /\ Raise(how) /\ Pop(how)
  /\ UNCHANGED <<fixed, watcher, header, resp, err, ops, logged, outcome, first>>

Rendered ==
  /\ Top \in {"errorHandler", "rendering"} /\ Unwinding
  /\ Pop(mode)
  /\ UNCHANGED <<fixed, watcher, header, resp, err, ops, logged, outcome, first, failed, loose>>

-----------------------------------------------------------------------------
Next ==
  \/ RequestContext \/ AccessLog \/ SecurityHeaders \/ Cors \/ Auth \/ Recover
  \/ RespondInternalError \/ Match \/ MuxAnswers \/ Dispatched \/ MissServed
  \/ HandlerWrite \/ HandlerFlush \/ HandlerStream \/ HandlerReturns
  \/ Delegate \/ Rendered
  \/ \E s \in Statuses : HandlerStatus(s) \/ HandlerAnswer(s)
  \/ \E s \in ErrorStatuses \cup {404, 405} : HandlerFails(s)
  \/ \E how \in {"panic", "abort"} : HandlerPanics(how) \/ ErrorHandlerPanics(how)
  \/ \E who \in {"default", "custom"} : Render(who)

Spec == Init /\ [][Next]_vars

-----------------------------------------------------------------------------
(* Properties.                                                             *)

\* The record may miss a commit or see one too early: a flush before the
\* first write, an informational status, an error whose status is none of
\* HTTP's.  From then on Written misleads everyone who asks, and the first
\* two properties and the log's hold only up to that point.
Trusted == ~resp.astray

\* One response has one author: whoever wrote first wrote the status and all
\* of the body, and no Content-Type of another layer went out with it.  So a
\* route's own 404 is not taken for a miss, a document is never appended to
\* a response, and nothing of the mux's answer survives a suppressed miss.
OneAuthor ==
  Trusted /\ resp.by # Nobody =>
    /\ resp.by = first
    /\ resp.body \subseteq {first}
    /\ resp.sent.type \in {Nobody, first}

\* A request that failed before anything was written - an error returned, a
\* panic, a miss - is not answered as a success, and a panic inside Recover
\* does not cost the connection, even when the error handler panics as well.
Miss == watcher.status # 0 /\ first = Nobody
FailureIsAnswered ==
  /\ Trusted /\ outcome = "sent" /\ (failed \/ Miss) => resp.status >= 400
  /\ outcome = "closed" => loose

\* However deep middleware, error handler and WriteError call one another,
\* at most two activations of the error handler are on the stack.
NoRenderingLoop ==
  Cardinality({i \in DOMAIN stack : stack[i] \in {"errorHandler", "rendering"}}) <= 2

\* The access log's status is the one the client got, for every author of
\* the response, when the log is the outermost middleware.
LogMatchesAnswer ==
  Trusted /\ outcome = "sent" /\ logged # -1 /\ config.chain[1] = "accessLog" =>
    logged = resp.status

\* Every answer to a cross-origin request - the handler's, an error, a miss,
\* a recovered panic, a preflight - lets an allowed origin read it and no
\* other one, whatever an outer layer granted, and tells caches to keep the
\* origins apart; all but the preflight carry the security headers.
HeadersOnEveryAnswer ==
  resp.status # 0 =>
    /\ request.origin # "" => resp.sent.vary /\ resp.sent.origin # "preset"
    /\ request.origin # "" /\ ~Allows => resp.sent.origin = Nobody
    /\ request.origin # "" /\ Allows /\ ~request.preflight =>
         resp.sent.origin = AllowOrigin
    /\ resp.by # "cors" => resp.sent.secure
=============================================================================
