---------------------------- MODULE PipelineProofs -----------------------------
(***************************************************************************)
(* Theorems about Pipeline, for every order of the middleware, any         *)
(* statuses and any number of operations.                                  *)
(***************************************************************************)
EXTENDS Pipeline, FiniteSetTheorems, SequenceTheorems, TLAPS

\* No error of the application names a final status of success or of redirection, nor 101;
\* it may name one that is none at all, on which WriteHeader panics.
ErrorsFail == ErrorStatuses \cap ({101} \cup 200..399) = {}

\* CORS and SecurityHeaders are registered, and before what may refuse a request.
HeadersFirst ==
  \A c \in Chains :
    /\ \E i \in DOMAIN c : c[i] = "cors"
    /\ \E i \in DOMAIN c : c[i] = "security"
    /\ \A i, j \in DOMAIN c : c[i] \in {"cors", "security"} /\ c[j] = "auth" => i < j

-----------------------------------------------------------------------------
(* The stack                                                               *)

Outer == Middlewares \cup {"requestContext"}
Routes == {"ossein", "native"}
Renderers == {"errorHandler", "rendering"}
Frames == Outer \cup Routes \cup Renderers
            \cup {"dispatch", "serveMiss", "notFound", "respondInternalError"}

\* The frames a frame may be called by.
Callers(f) ==
  IF f \in Routes THEN {"dispatch"}
  ELSE IF f = "notFound" THEN {"serveMiss"}
  ELSE IF f = "errorHandler" THEN Outer \cup {"dispatch"}
  ELSE IF f = "rendering" THEN Outer \cup {"errorHandler", "respondInternalError"}
  ELSE Outer

\* A stack grows along the chain, and at most three frames stand on it.
WellFormed(s) ==
  /\ s \in Seq(Frames)
  /\ \A i \in 1..Len(s) : s[i] = "requestContext" <=> i = 1
  /\ \A i \in 1..Len(s) : s[i] \in Middlewares =>
       i - 1 \in 1..Len(config.chain) /\ s[i] = config.chain[i - 1]
  /\ \A i \in 2..Len(s) : s[i - 1] \in Callers(s[i])
  /\ \A i \in 1..Len(s) : i < Len(s) - 2 => s[i] \in Outer

-----------------------------------------------------------------------------
(* The inductive invariant                                                 *)

Authors == Frames \cup {Nobody, "mux", "default", "custom", "fallback"}
Headers == [type : Authors, origin : {Nobody, "preset", "*", "origin"},
            vary : BOOLEAN, secure : BOOLEAN]
Responses == [tracked : Int, status : {0, 101} \cup 200..999, by : Authors,
              body : SUBSET Authors, sent : Headers, astray : BOOLEAN]

Inputs ==
  /\ request \in [route : {"ossein", "native", "miss", "method", "redirect"},
                  origin : {"", "listed", "other"}, preflight : BOOLEAN,
                  skipped : BOOLEAN]
  /\ request.preflight => request.origin # ""
  /\ config \in [chain : Chains, errorHandler : {"default", "custom"},
                 notFound : {"default", "custom"}, wildcard : BOOLEAN]

Types ==
  /\ mode \in {"call", "return", "panic", "abort"}
  /\ watcher \in [routed : BOOLEAN, status : {0, 404, 405}]
  /\ header \in Headers /\ resp \in Responses
  /\ err \in Int /\ ops \in 0..MaxOps /\ logged \in Int
  /\ outcome \in {"open", "sent", "closed"}
  /\ first \in Authors /\ failed \in BOOLEAN /\ loose \in BOOLEAN

\* Nothing has been written; only the mux may have announced a type.
Untouched == ~resp.astray /\ resp.tracked = 0 /\ first = Nobody /\ ~failed

\* A dispatch that has called a handler has marked the request.
RoutedBelow ==
  \A i \in 1..Len(stack) : stack[i] = "dispatch" /\ i < Len(stack) => watcher.routed

\* What each kind of frame, when it is on top, may count on.
Control ==
  /\ outcome = "open" <=> stack # <<>>
  /\ mode = "call" /\ Top \in Outer \cup {"dispatch"} =>
       Untouched /\ header.type = Nobody /\ ~watcher.routed /\ watcher.status = 0
  /\ mode = "call" => Top \notin {"serveMiss", "respondInternalError"}
  /\ mode = "call" /\ Top \in Renderers =>
       err \in ErrorStatuses \cup {401, 404, 405, 500}
  /\ watcher.routed => watcher.status = 0
  /\ Top \in {"serveMiss", "notFound"} => watcher.status # 0
  /\ Top \in Routes => watcher.routed
  /\ Top = "dispatch" /\ watcher.status # 0 =>
       mode = "return" /\ Untouched /\ header.type = "mux"
  /\ Top \in Handlers => mode = "call"

\* The record and the response agree, and a response nobody wrote is empty.
Recorded ==
  Trusted /\ stack # <<>> =>
    /\ resp.tracked = resp.status
    /\ resp.by = Nobody <=> resp.status = 0
    /\ first = Nobody <=> resp.status = 0
    /\ resp.status = 0 => resp.body = {}

\* A handler runs on a response that is its own or nobody's, and serveMiss writes
\* its status under no one's type.
Handling ==
  /\ Top \in Handlers => ~failed
  /\ Trusted /\ Top \in Handlers =>
       /\ first \in {Nobody, Top}
       /\ header.type \in {Nobody, Top}
       /\ header.type = Top => Written
  /\ Top = "serveMiss" /\ mode = "return" =>
       /\ ~failed
       /\ Trusted /\ ~Written => header.type = Nobody

\* A failure or a miss that nobody has answered yet is on its way to who will.
Pending ==
  Trusted /\ stack # <<>> /\ resp.status = 0 /\ (failed \/ watcher.status # 0) =>
    \/ mode \in {"panic", "abort"}
    \/ mode = "call" /\ Top \in Renderers
    \/ ~failed /\ Top \in {"dispatch", "serveMiss", "notFound"}

Failures ==
  /\ Trusted /\ failed /\ resp.status # 0 => resp.status >= 400
  /\ Trusted /\ outcome = "sent" /\ Miss => resp.status >= 400
  /\ Trusted /\ outcome = "sent" /\ failed => resp.status # 0

\* A panic no one will recover is the application's own.
Panics ==
  /\ mode = "abort" => loose
  /\ mode = "panic" => loose \/ Protected
  /\ outcome = "closed" => loose

\* The outermost log is written when only the request context is left.
Logged ==
  logged # -1 /\ config.chain[1] = "accessLog" =>
    /\ Len(stack) <= 1 /\ mode # "call"
    /\ Trusted /\ stack # <<>> => logged = IF resp.status = 0 THEN 200 ELSE resp.status
    /\ Trusted /\ outcome = "sent" => logged = resp.status

\* What CORS and SecurityHeaders put in a header map.
Granting(h) ==
  request.origin # "" =>
    /\ h.vary /\ h.origin # "preset"
    /\ ~Allows => h.origin = Nobody
    /\ Allows /\ ~request.preflight => h.origin = AllowOrigin

\* The layers the stack has gone through have left their headers, and all of them
\* have once the request is answered or turns back.
Layers ==
  /\ mode = "call" /\ Top \in Outer =>
       \A i \in 1..(Len(stack) - 2) :
         /\ config.chain[i] = "cors" => Granting(header)
         /\ config.chain[i] = "security" => header.secure
  /\ ~(mode = "call" /\ Top \in Outer) =>
       Granting(header) /\ (resp.by # "cors" => header.secure)
  /\ resp.by # Nobody => resp.status # 0
  /\ resp.status # 0 => Granting(resp.sent) /\ (resp.by # "cors" => resp.sent.secure)

Core ==
  /\ Inputs /\ Types /\ WellFormed(stack) /\ RoutedBelow /\ Control /\ Recorded
  /\ OneAuthor /\ Handling

-----------------------------------------------------------------------------
(* Lemmas on the stack                                                     *)

LEMMA FrontOf ==
  ASSUME NEW s \in Seq(Frames), s # <<>>
  PROVE  /\ Front(s) \in Seq(Frames)
         /\ Len(s) >= 1 /\ Len(Front(s)) = Len(s) - 1
         /\ \A i \in 1..(Len(s) - 1) : Front(s)[i] = s[i]
         /\ Last(s) = s[Len(s)]
<1>1. Len(s) \in Nat /\ Len(s) >= 1 /\ \A i \in 1..(Len(s) - 1) : s[i] \in Frames
  OBVIOUS
<1> DEFINE n == Len(s) - 1
           r == SubSeq(s, 1, n)
<1>2. 1 \in Int /\ n \in Int /\ \A i \in 1..n : s[i] \in Frames
  BY <1>1
<1>3. /\ r \in Seq(Frames) /\ Len(r) = IF 1 <= n THEN n - 1 + 1 ELSE 0
      /\ \A i \in 1..(n - 1 + 1) : r[i] = s[1 + i - 1]
  <2> HIDE DEF n
  <2> QED  BY <1>2, SubSeqProperties
<1>4. Front(s) = r /\ Last(s) = s[Len(s)]
  BY DEF Front, Last
<1> HIDE DEF r
<1> QED  BY <1>1, <1>3, <1>4

LEMMA AppendOf ==
  ASSUME NEW s \in Seq(Frames), NEW f \in Frames
  PROVE  /\ Append(s, f) \in Seq(Frames) /\ Append(s, f) # <<>>
         /\ Len(Append(s, f)) = Len(s) + 1
         /\ \A i \in 1..Len(s) : Append(s, f)[i] = s[i]
         /\ Append(s, f)[Len(s) + 1] = f
         /\ Last(Append(s, f)) = f
BY DEF Last

LEMMA FrontWellFormed ==
  ASSUME NEW s, WellFormed(s), s # <<>>
  PROVE  /\ WellFormed(Front(s))
         /\ Last(s) = "requestContext" <=> Front(s) = <<>>
         /\ Front(s) # <<>> => Last(Front(s)) \in Callers(Last(s))
<1>1. /\ Front(s) \in Seq(Frames)
      /\ Len(s) >= 1 /\ Len(Front(s)) = Len(s) - 1
      /\ \A i \in 1..(Len(s) - 1) : Front(s)[i] = s[i]
      /\ Last(s) = s[Len(s)]
  BY FrontOf DEF WellFormed
<1>2. WellFormed(Front(s))
  BY <1>1 DEF WellFormed
<1>3. Last(s) = "requestContext" <=> Front(s) = <<>>
  BY <1>1 DEF WellFormed
<1>4. Front(s) # <<>> => Last(Front(s)) \in Callers(Last(s))
  <2> SUFFICES ASSUME Front(s) # <<>>
               PROVE  Last(Front(s)) \in Callers(Last(s))
    OBVIOUS
  <2>1. Last(Front(s)) = Front(s)[Len(Front(s))] /\ Len(Front(s)) >= 1
    BY <1>1, FrontOf
  <2>2. Last(Front(s)) = s[Len(s) - 1] /\ Len(s) \in 2..Len(s)
    BY <1>1, <2>1
  <2>3. s[Len(s) - 1] \in Callers(s[Len(s)])
    BY <2>2 DEF WellFormed
  <2> QED  BY <1>1, <2>2, <2>3
<1> QED  BY <1>2, <1>3, <1>4

\* The chain is one of Chains, and registers a middleware once at most.
LEMMA ChainOf ==
  ASSUME Core
  PROVE  /\ config.chain \in Chains /\ config.chain \in Seq(Middlewares)
         /\ IsInjective(config.chain)
         /\ DOMAIN config.chain = 1..Len(config.chain) /\ Len(config.chain) \in Nat
<1>1. config.chain \in Chains
  BY DEF Core, Inputs
<1>2. config.chain \in Seq(Middlewares) /\ IsInjective(config.chain)
  <2>1. \A c \in Chains : c \in Seq(Middlewares) /\ IsInjective(c)
    BY PipelineAssumption
  <2> QED  BY <1>1, <2>1
<1>3. DOMAIN config.chain = 1..Len(config.chain) /\ Len(config.chain) \in Nat
  BY <1>2
<1> QED  BY <1>1, <1>2, <1>3

\* A frame that is none of the chain may stand on its callers, while there is room.
LEMMA AppendWellFormed ==
  ASSUME NEW s, WellFormed(s), s # <<>>, NEW f \in Frames \ Outer, Last(s) \in Callers(f)
  PROVE  WellFormed(Append(s, f)) /\ Last(Append(s, f)) = f /\ Append(s, f) # <<>>
<1> DEFINE t == Append(s, f)
           n == Len(s)
<1>1. /\ t \in Seq(Frames) /\ Len(t) = n + 1 /\ Last(t) = f /\ t # <<>>
      /\ \A i \in 1..n : t[i] = s[i]
      /\ t[n + 1] = f /\ s \in Seq(Frames) /\ n \in Nat /\ n >= 1
      /\ Last(s) = s[n]
  BY AppendOf, FrontOf DEF WellFormed
<1> HIDE DEF t, n
<1>2. \A i \in 1..(n + 1) : t[i] = "requestContext" <=> i = 1
  BY <1>1 DEF WellFormed, n, Outer
<1>3. \A i \in 1..(n + 1) : t[i] \in Middlewares =>
        i - 1 \in 1..Len(config.chain) /\ t[i] = config.chain[i - 1]
  BY <1>1 DEF WellFormed, n, Outer
<1>4. \A i \in 2..(n + 1) : t[i - 1] \in Callers(t[i])
  BY <1>1 DEF WellFormed, n
<1>5. ASSUME NEW i \in 1..(n + 1), i < n - 1
      PROVE  t[i] \in Outer
  <2>1. CASE i < n - 2
    BY <1>1, <1>5, <2>1 DEF WellFormed, n
  <2>2. CASE i = n - 2
    <3>1. s[n - 1] \in Callers(s[n]) /\ s[n - 2] \in Callers(s[n - 1]) /\ s[n] \in Callers(f)
      BY <1>1, <2>2 DEF WellFormed, n
    <3>2. s[n - 1] \in Outer \cup {"dispatch", "serveMiss", "errorHandler", "respondInternalError"}
      BY <3>1 DEF Callers, Outer, Routes, Frames, Renderers
    <3> QED  BY <1>1, <2>2, <3>1 DEF Callers, Outer, Routes, Frames, Renderers, Middlewares
  <2> QED  BY <1>5, <1>1, <2>1, <2>2
<1> QED  BY <1>1, <1>2, <1>3, <1>4, <1>5 DEF WellFormed, t

LEMMA TopOf ==
  ASSUME Core
  PROVE  /\ stack = <<>> <=> Top = Nobody
         /\ stack # <<>> => Top = Last(stack) /\ Top \in Frames /\ Top = stack[Len(stack)]
<1>1. CASE stack = <<>>
  BY <1>1 DEF Top
<1>2. CASE stack # <<>>
  <2>1. Len(stack) \in 1..Len(stack) /\ Last(stack) = stack[Len(stack)]
    BY <1>2, FrontOf DEF Core, WellFormed
  <2>2. Last(stack) \in Frames
    BY <2>1 DEF Core, WellFormed
  <2> QED  BY <1>2, <2>1, <2>2 DEF Top, Frames, Outer, Middlewares, Routes, Renderers, Nobody
<1> QED  BY <1>1, <1>2

LEMMA Popped ==
  ASSUME Core, Top # Nobody, stack' = Rest, UNCHANGED config, UNCHANGED watcher
  PROVE  /\ WellFormed(stack)' /\ RoutedBelow'
         /\ Top = "requestContext" <=> stack' = <<>>
         /\ stack' = <<>> <=> Top' = Nobody
         /\ stack' # <<>> => Top' \in Callers(Top)
         /\ Top' = "dispatch" => watcher.routed
<1>1. stack # <<>> /\ Top = Last(stack) /\ WellFormed(stack) /\ stack \in Seq(Frames)
  BY TopOf DEF Core, WellFormed
<1>2. /\ WellFormed(Rest)
      /\ Top = "requestContext" <=> Rest = <<>>
      /\ Rest # <<>> => Last(Rest) \in Callers(Top)
  BY <1>1, FrontWellFormed DEF Rest
<1>3. WellFormed(stack)'
  BY <1>2 DEF WellFormed
<1>4. /\ Len(Rest) = Len(stack) - 1 /\ Len(stack) >= 1 /\ Len(stack) \in Nat
      /\ \A i \in 1..(Len(stack) - 1) : Rest[i] = stack[i]
  BY <1>1, FrontOf DEF Rest
<1>5. RoutedBelow'
  BY <1>4 DEF Core, RoutedBelow
<1>6. stack' # <<>> => Top' = Last(Rest)
  BY DEF Top
<1>7. stack' # <<>> => Top' \in Frames
  BY <1>2, <1>6, FrontOf DEF WellFormed
<1>8. Top' = "dispatch" => watcher.routed
  <2> SUFFICES ASSUME Top' = "dispatch" PROVE watcher.routed
    OBVIOUS
  <2>1. stack' # <<>>
    BY DEF Top, Nobody
  <2>2. Rest[Len(Rest)] = "dispatch" /\ Len(Rest) >= 1
    BY <1>2, <1>6, <2>1, FrontOf DEF WellFormed
  <2>3. stack[Len(stack) - 1] = "dispatch" /\ Len(stack) - 1 \in 1..Len(stack)
    BY <1>4, <2>2
  <2> QED  BY <1>4, <2>3 DEF Core, RoutedBelow
<1> QED
  BY <1>2, <1>3, <1>5, <1>6, <1>7, <1>8
     DEF Top, Nobody, Frames, Outer, Middlewares, Routes, Renderers

\* A frame put on the stack, on top of what is there or in place of the top.
LEMMA Pushed ==
  ASSUME Core, Top # Nobody, NEW f \in Frames \ Outer, UNCHANGED config,
         \/ stack' = Append(stack, f) /\ Top \in Callers(f) /\ (Top = "dispatch" => watcher'.routed)
         \/ /\ stack' = Append(Rest, f) /\ Top # "requestContext"
            /\ Callers(Top) \subseteq Callers(f),
         UNCHANGED watcher \/ (watcher'.routed /\ ~watcher.routed)
  PROVE  WellFormed(stack)' /\ RoutedBelow' /\ stack' # <<>> /\ Top' = f
<1>1. stack # <<>> /\ Top = Last(stack) /\ WellFormed(stack) /\ stack \in Seq(Frames)
  BY TopOf DEF Core, WellFormed
<1>2. CASE stack' = Append(stack, f) /\ Top \in Callers(f) /\ (Top = "dispatch" => watcher'.routed)
  <2>1. WellFormed(Append(stack, f)) /\ Last(Append(stack, f)) = f /\ Append(stack, f) # <<>>
    BY <1>1, <1>2, AppendWellFormed
  <2>2. Len(stack') = Len(stack) + 1 /\ \A i \in 1..Len(stack) : stack'[i] = stack[i]
    BY <1>1, <1>2, AppendOf
  <2>3. RoutedBelow'
    <3>1. stack[Len(stack)] = Top /\ Len(stack) \in Nat
      BY <1>1, FrontOf
    <3> QED  BY <1>2, <2>2, <3>1 DEF Core, RoutedBelow
  <2> QED  BY <1>2, <2>1, <2>3 DEF WellFormed, Top
<1>3. CASE /\ stack' = Append(Rest, f) /\ Top # "requestContext"
           /\ Callers(Top) \subseteq Callers(f)
  <2>1. /\ WellFormed(Rest) /\ Rest # <<>> /\ Last(Rest) \in Callers(f)
    BY <1>1, <1>3, FrontWellFormed DEF Rest
  <2>2. WellFormed(stack') /\ Last(stack') = f /\ stack' # <<>>
    BY <1>3, <2>1, AppendWellFormed
  <2>3. /\ Len(stack') = Len(stack) /\ Len(stack) \in Nat
        /\ \A i \in 1..(Len(stack) - 1) : stack'[i] = stack[i]
    <3>1. /\ Rest \in Seq(Frames) /\ Len(Rest) = Len(stack) - 1 /\ Len(stack) \in Nat
          /\ \A i \in 1..(Len(stack) - 1) : Rest[i] = stack[i]
      BY <1>1, FrontOf DEF Rest
    <3> QED  BY <1>3, <3>1, AppendOf
  <2>4. RoutedBelow'
    BY <2>3 DEF Core, RoutedBelow
  <2> QED  BY <2>2, <2>4 DEF WellFormed, Top
<1> QED  BY <1>2, <1>3

-----------------------------------------------------------------------------
(* Lemmas on the response                                                  *)

\* What a write by who, of a response r under the headers h, may leave.
Wrote(r, q, h, who) ==
  /\ q \in Responses
  /\ r.astray => q.astray
  /\ ~q.astray => q.tracked = q.status /\ q.status # 0
  /\ q.body \subseteq r.body \cup {who}
  /\ IF r.status = 0 /\ q.status # 0 THEN q.by = who /\ q.sent = h
     ELSE q.by = r.by /\ q.sent = r.sent /\ q.status = r.status

\* The same of a commit alone, and of a write that announces the status s.
Committed(r, c, h, s, who) ==
  /\ c \in Responses /\ c.tracked = r.tracked /\ c.body = r.body /\ c.astray = r.astray
  /\ IF r.status # 0 \/ Informational(s)
     THEN c.status = r.status /\ c.by = r.by /\ c.sent = r.sent
     ELSE c.status = s /\ c.by = who /\ c.sent = h

Announced(r, q, h, s, who) ==
  /\ Wrote(r, q, h, who)
  /\ r.tracked = 0 /\ ~q.astray => q.status = s
  /\ q.tracked = IF r.tracked = 0 THEN s ELSE r.tracked

\* Without a body; an informational status commits nothing.
HeaderOnly(r, q, h, s, who) ==
  /\ Announced(r, q, h, s, who) /\ q.body = r.body
  /\ IF Informational(s) THEN q.status = r.status ELSE q.status # 0

LEMMA ComparedFields ==
  ASSUME NEW r \in Responses
  PROVE  /\ Compared(r) \in Responses
         /\ Compared(r).tracked = r.tracked /\ Compared(r).status = r.status
         /\ Compared(r).by = r.by /\ Compared(r).body = r.body /\ Compared(r).sent = r.sent
         /\ Compared(r).astray <=> r.astray \/ r.tracked # r.status
<1> DEFINE b == r.astray \/ r.tracked # r.status
<1>1. b \in BOOLEAN
  OBVIOUS
<1>2. Compared(r) = [r EXCEPT !.astray = b]
  BY DEF Compared, Responses
<1> HIDE DEF b
<1>3. /\ Compared(r) \in Responses
      /\ Compared(r).tracked = r.tracked /\ Compared(r).status = r.status
      /\ Compared(r).by = r.by /\ Compared(r).body = r.body /\ Compared(r).sent = r.sent
      /\ Compared(r).astray = b
  BY <1>1, <1>2 DEF Responses
<1> QED  BY <1>3 DEF b

LEMMA CommitFields ==
  ASSUME NEW r \in Responses, NEW h \in Headers, NEW s \in 100..999, NEW who \in Authors
  PROVE  Committed(r, Commit(r, h, s, who), h, s, who)
<1>1. CASE r.status # 0 \/ Informational(s)
  BY <1>1 DEF Commit, Informational, Committed
<1>2. CASE ~(r.status # 0 \/ Informational(s))
  <2> DEFINE d == [r EXCEPT !.status = s]
             e == [d EXCEPT !.by = who]
             f == [e EXCEPT !.sent = h]
  <2>1. /\ d \in Responses /\ d.tracked = r.tracked /\ d.body = r.body /\ d.astray = r.astray
        /\ d.status = s
    BY <1>2 DEF Responses, Informational
  <2>2. /\ e \in Responses /\ e.tracked = r.tracked /\ e.body = r.body /\ e.astray = r.astray
        /\ e.status = s /\ e.by = who
    <3> HIDE DEF d
    <3> QED  BY <2>1 DEF Responses
  <2>3. /\ f \in Responses /\ f.tracked = r.tracked /\ f.body = r.body /\ f.astray = r.astray
        /\ f.status = s /\ f.by = who /\ f.sent = h
    <3> HIDE DEF d, e
    <3> QED  BY <2>2 DEF Responses
  <2>4. Commit(r, h, s, who) = f
    BY <1>2 DEF Commit, Informational
  <2> HIDE DEF f
  <2> QED  BY <1>2, <2>3, <2>4 DEF Committed
<1> QED  BY <1>1, <1>2

LEMMA SendHeaderWrote ==
  ASSUME NEW r \in Responses, NEW h \in Headers, NEW s \in 100..999, NEW who \in Authors
  PROVE  HeaderOnly(r, SendHeader(r, h, s, who), h, s, who)
<1> DEFINE t == IF r.tracked = 0 THEN s ELSE r.tracked
           p == [r EXCEPT !.tracked = IF @ = 0 THEN s ELSE @]
           c == Commit(p, h, s, who)
           q == SendHeader(r, h, s, who)
<1>1. /\ p \in Responses /\ p.tracked = t
      /\ p.status = r.status /\ p.by = r.by /\ p.body = r.body /\ p.sent = r.sent
      /\ p.astray = r.astray
  BY DEF Responses
<1>2. q = Compared(c)
  BY DEF SendHeader
<1>3. t # 0
  OBVIOUS
<1> HIDE DEF p, t
<1>4. Committed(p, c, h, s, who)
  BY <1>1, CommitFields
<1> HIDE DEF c, q
<1>5. /\ q \in Responses /\ (q.astray <=> r.astray \/ t # c.status)
      /\ q.tracked = t /\ q.status = c.status /\ q.by = c.by /\ q.body = r.body
      /\ q.sent = c.sent
  BY <1>1, <1>2, <1>4, ComparedFields DEF Committed
<1>6. Wrote(r, q, h, who)
  <2>1. ~q.astray => q.tracked = q.status /\ q.status # 0
    BY <1>3, <1>5
  <2>2. IF r.status = 0 /\ q.status # 0 THEN q.by = who /\ q.sent = h
        ELSE q.by = r.by /\ q.sent = r.sent /\ q.status = r.status
    BY <1>1, <1>4, <1>5 DEF Committed
  <2> QED  BY <1>5, <2>1, <2>2 DEF Wrote
<1>7. r.tracked = 0 /\ ~q.astray => q.status = s
  BY <1>5 DEF t
<1>8. IF Informational(s) THEN q.status = r.status ELSE q.status # 0
  BY <1>1, <1>4, <1>5 DEF Committed
<1> QED  BY <1>5, <1>6, <1>7, <1>8 DEF q, t, Announced, HeaderOnly

LEMMA SendBodyWrote ==
  ASSUME NEW r \in Responses, NEW h \in Headers, NEW who \in Authors
  PROVE  /\ Wrote(r, SendBody(r, h, who), h, who)
         /\ r.status # 0 => SendBody(r, h, who).status = r.status
         /\ r.tracked # 0 => SendBody(r, h, who).tracked = r.tracked
<1> DEFINE p == SendHeader(r, h, 200, who)
           q == SendBody(r, h, who)
<1>1. q = [p EXCEPT !.body = @ \cup {who}]
  BY DEF SendBody
<1>2. HeaderOnly(r, p, h, 200, who)
  BY SendHeaderWrote
<1> HIDE DEF p, q
<1>3. /\ q \in Responses /\ q.body = r.body \cup {who}
      /\ q.tracked = p.tracked /\ q.status = p.status /\ q.by = p.by /\ q.sent = p.sent
      /\ q.astray = p.astray
  BY <1>1, <1>2 DEF HeaderOnly, Announced, Wrote, Responses
<1> QED  BY <1>2, <1>3 DEF HeaderOnly, Announced, Wrote, q

LEMMA HeaderThenBody ==
  ASSUME NEW r \in Responses, NEW h \in Headers, NEW s \in 100..999, NEW who \in Authors
  PROVE  Announced(r, SendBody(SendHeader(r, h, s, who), h, who), h, s, who)
<1> DEFINE p == SendHeader(r, h, s, who)
           q == SendBody(p, h, who)
<1>1. HeaderOnly(r, p, h, s, who)
  BY SendHeaderWrote
<1> HIDE DEF p
<1>2. p \in Responses
  BY <1>1 DEF HeaderOnly, Announced, Wrote
<1>3. /\ Wrote(p, q, h, who)
      /\ p.status # 0 => q.status = p.status
      /\ p.tracked # 0 => q.tracked = p.tracked
  BY <1>2, SendBodyWrote
<1> HIDE DEF q
<1>4. Wrote(r, q, h, who)
  BY <1>1, <1>3 DEF HeaderOnly, Announced, Wrote
<1>5. r.tracked = 0 /\ ~q.astray => q.status = s
  BY <1>1, <1>3 DEF HeaderOnly, Announced, Wrote
<1>6. p.tracked # 0
  BY <1>1 DEF HeaderOnly, Announced
<1> QED  BY <1>1, <1>3, <1>4, <1>5, <1>6 DEF HeaderOnly, Announced, q, p

\* Headers that announce the Content-Type of who.
Typed(h, who) == [h EXCEPT !.type = who]

LEMMA TypedHeader ==
  ASSUME NEW h \in Headers, NEW who \in Authors
  PROVE  Typed(h, who) \in Headers /\ Typed(h, who).type = who
BY DEF Headers, Typed

LEMMA AnswerWrote ==
  ASSUME NEW r \in Responses, NEW h \in Headers, NEW s \in 100..999, NEW who \in Authors
  PROVE  Announced(r, Answer(r, h, s, who), Typed(h, who), s, who)
<1> DEFINE g == Typed(h, who)
<1>1. g \in Headers
  BY TypedHeader
<1>2. Answer(r, h, s, who) = SendBody(SendHeader(r, g, s, who), g, who)
  BY DEF Answer, Typed
<1> HIDE DEF g
<1>3. Announced(r, SendBody(SendHeader(r, g, s, who), g, who), g, s, who)
  BY <1>1, HeaderThenBody
<1> QED  BY <1>2, <1>3 DEF g

\* A whole answer goes out with the Content-Type of its author.
AnswerSent(s, who) ==
  /\ s \in 100..999 /\ who \in Authors
  /\ resp' = Answer(resp, header, s, who) /\ header' = Typed(header, who)

LEMMA SentAnswer ==
  ASSUME resp \in Responses, header \in Headers, NEW s, NEW who, AnswerSent(s, who)
  PROVE  /\ Announced(resp, resp', header', s, who)
         /\ header' \in Headers /\ header'.type = who
<1>1. /\ s \in 100..999 /\ who \in Authors
      /\ resp' = Answer(resp, header, s, who) /\ header' = Typed(header, who)
  BY DEF AnswerSent
<1>2. Announced(resp, Answer(resp, header, s, who), Typed(header, who), s, who)
  BY <1>1, AnswerWrote
<1> QED  BY <1>1, <1>2, TypedHeader

LEMMA FlushWrote ==
  ASSUME NEW r \in Responses, NEW h \in Headers, NEW who \in Authors
  PROVE  Wrote(r, Compared(Commit(r, h, 200, who)), h, who)
<1> DEFINE c == Commit(r, h, 200, who)
           q == Compared(c)
<1>1. Committed(r, c, h, 200, who)
  BY CommitFields
<1> HIDE DEF c
<1>2. /\ q \in Responses /\ (q.astray <=> r.astray \/ r.tracked # c.status)
      /\ q.tracked = r.tracked /\ q.status = c.status /\ q.by = c.by /\ q.body = r.body
      /\ q.sent = c.sent
  BY <1>1, ComparedFields DEF Committed
<1> HIDE DEF q
<1>3. c.status # 0
  BY <1>1 DEF Committed, Informational
<1>4. Wrote(r, q, h, who)
  BY <1>1, <1>2, <1>3 DEF Committed, Wrote
<1> QED  BY <1>4 DEF q, c

-----------------------------------------------------------------------------
(* Who writes what                                                         *)

LEMMA RecordOf ==
  ASSUME Core, Top # Nobody, Trusted
  PROVE  /\ resp.tracked = resp.status
         /\ resp.by = Nobody <=> resp.status = 0
         /\ first = Nobody <=> resp.status = 0
         /\ resp.status = 0 => resp.body = {}
BY TopOf DEF Core, Recorded

\* A write on a response that is the writer's own, or nobody's.
LEMMA WriteKeeps ==
  ASSUME Core, Top # Nobody, NEW h \in Headers, NEW who \in Authors \ {Nobody},
         Wrote(resp, resp', h, who),
         Trusted' => first' = IF first = Nobody THEN who ELSE first,
         Trusted => first \in {Nobody, who},
         Trusted /\ resp.status = 0 => h.type \in {Nobody, who}
  PROVE  /\ OneAuthor' /\ Recorded' /\ resp' \in Responses
         /\ Trusted' => Trusted /\ resp'.status # 0 /\ resp'.tracked # 0 /\ first' = who
<1>1. Trusted' => Trusted
  BY DEF Wrote, Trusted
<1>2. Trusted =>
        /\ resp.by = Nobody <=> resp.status = 0
        /\ first = Nobody <=> resp.status = 0
        /\ resp.status = 0 => resp.body = {}
        /\ resp.by # Nobody =>
             resp.by = first /\ resp.body \subseteq {first} /\ resp.sent.type \in {Nobody, first}
  BY TopOf DEF Core, Recorded, OneAuthor
<1>3. Trusted' => resp'.status # 0 /\ resp'.tracked = resp'.status /\ first' = who
  BY <1>1 DEF Wrote, Trusted
<1>4. Trusted' => resp'.by = who
  BY <1>1, <1>2, <1>3 DEF Wrote
<1>5. Trusted' => resp'.body \subseteq {who} /\ resp'.sent.type \in {Nobody, who}
  BY <1>1, <1>2, <1>3 DEF Wrote
<1> QED
  BY <1>1, <1>3, <1>4, <1>5 DEF OneAuthor, Recorded, Wrote

LEMMA InputsKept ==
  ASSUME Core, UNCHANGED fixed
  PROVE  Inputs' /\ UNCHANGED <<request, config>>
<1>1. UNCHANGED <<request, config>>
  BY DEF fixed
<1> QED  BY <1>1 DEF Core, Inputs

\* The call goes one layer down: into the next middleware, or into dispatch.
LEMMA PassWellFormed ==
  ASSUME Core, Top \in Outer, mode = "call", Pass, UNCHANGED <<config, watcher>>
  PROVE  /\ WellFormed(stack)' /\ RoutedBelow' /\ mode' = "call" /\ stack' # <<>>
         /\ Top' \in Middlewares \cup {"dispatch"}
         /\ Len(stack') = Len(stack) + 1
<1>1. stack # <<>> /\ Top = Last(stack) /\ WellFormed(stack) /\ stack \in Seq(Frames)
      /\ Top = stack[Len(stack)] /\ Len(stack) \in Nat /\ Len(stack) >= 1
  BY TopOf DEF Core, WellFormed, Outer, Middlewares, Nobody
<1>2. stack' = Append(stack, Inward) /\ mode' = "call"
  BY DEF Pass, Go
<1>3. \/ Inward = "dispatch"
      \/ Inward \in Middlewares /\ Len(stack) <= Len(config.chain)
         /\ Inward = config.chain[Len(stack)]
  <2>1. config.chain \in Seq(Middlewares)
    BY ChainOf
  <2> QED  BY <1>1, <2>1 DEF Inward
<1>4. Inward \in Frames
  BY <1>3 DEF Frames, Outer
<1>5. /\ stack' \in Seq(Frames) /\ Len(stack') = Len(stack) + 1 /\ stack' # <<>>
      /\ \A i \in 1..Len(stack) : stack'[i] = stack[i]
      /\ stack'[Len(stack) + 1] = Inward /\ Last(stack') = Inward
  BY <1>1, <1>2, <1>4, AppendOf
<1>6. RoutedBelow'
  BY <1>1, <1>5 DEF Core, RoutedBelow, Outer, Middlewares
<1>7. WellFormed(stack)'
  <2>1. CASE Inward = "dispatch"
    <3>1. "dispatch" \in Frames \ Outer
      BY DEF Frames, Outer, Middlewares
    <3>2. Last(stack) \in Callers("dispatch")
      BY <1>1 DEF Callers, Outer, Middlewares, Routes, Renderers
    <3>3. WellFormed(Append(stack, "dispatch"))
      BY <1>1, <3>1, <3>2, AppendWellFormed
    <3> QED  BY <1>2, <2>1, <3>3 DEF WellFormed
  <2>2. CASE Inward # "dispatch"
    <3>1. \A i \in 1..Len(stack') : stack'[i] = "requestContext" <=> i = 1
      BY <1>1, <1>3, <1>5, <2>2 DEF WellFormed, Middlewares
    <3>2. \A i \in 1..Len(stack') : stack'[i] \in Middlewares =>
            i - 1 \in 1..Len(config.chain) /\ stack'[i] = config.chain[i - 1]
      BY <1>1, <1>3, <1>5, <2>2 DEF WellFormed
    <3>3. \A i \in 2..Len(stack') : stack'[i - 1] \in Callers(stack'[i])
      BY <1>1, <1>3, <1>5, <2>2 DEF WellFormed, Callers, Middlewares, Routes
    <3>4. ASSUME NEW i \in 1..Len(stack'), i < Len(stack') - 2
          PROVE  stack'[i] \in Outer
      <4>1. CASE i < Len(stack) - 2
        BY <1>1, <1>5, <4>1 DEF WellFormed
      <4>2. CASE i = Len(stack) - 2
        <5>1. stack[Len(stack) - 1] \in Outer
          BY <1>1, <4>2 DEF WellFormed, Callers, Outer, Middlewares, Routes
        <5>2. stack[Len(stack) - 2] \in Outer
          BY <1>1, <4>2, <5>1 DEF WellFormed, Callers, Outer, Middlewares, Routes
        <5> QED  BY <1>5, <4>2, <5>2
      <4> QED  BY <1>1, <1>5, <3>4, <4>1, <4>2
    <3> QED  BY <1>5, <3>1, <3>2, <3>3, <3>4 DEF WellFormed
  <2> QED  BY <2>1, <2>2
<1> QED  BY <1>2, <1>3, <1>5, <1>6, <1>7 DEF Top

LEMMA PassCore ==
  ASSUME Core, Top \in Outer, mode = "call", Pass, header' \in Headers, header'.type = header.type,
         UNCHANGED <<fixed, watcher, resp, err, ops, outcome, first, failed, loose>>, logged' \in Int
  PROVE  Core'
<1>1. /\ WellFormed(stack)' /\ RoutedBelow' /\ mode' = "call" /\ stack' # <<>>
      /\ Top' \in Middlewares \cup {"dispatch"}
  BY PassWellFormed DEF fixed
<1>2. Types' /\ Inputs'
  BY <1>1, InputsKept DEF Core, Types
<1>3. Control'
  <2>1. Untouched /\ header.type = Nobody /\ ~watcher.routed /\ watcher.status = 0
    BY DEF Core, Control
  <2>2. outcome = "open"
    BY TopOf DEF Core, Control, Outer, Middlewares, Nobody
  <2>3. /\ Untouched' /\ header'.type = Nobody
        /\ ~watcher'.routed /\ watcher'.status = 0 /\ outcome' = "open"
    BY <2>1, <2>2 DEF Untouched
  <2> QED  BY <1>1, <2>3 DEF Control, Middlewares, Routes, Renderers, Handlers, Outer
<1>4. Recorded' /\ OneAuthor'
  BY TopOf DEF Core, Recorded, OneAuthor, Trusted, Outer, Middlewares, Nobody
<1>5. Handling'
  BY <1>1 DEF Handling, Handlers, Middlewares
<1> QED  BY <1>1, <1>2, <1>3, <1>4, <1>5 DEF Core

\* A frame leaves the stack without having written: it was no request context,
\* no dispatch with a miss, and no serveMiss that owes a status.
LEMMA PopCore ==
  ASSUME Core, Top \notin {Nobody, "requestContext"},
         stack' = Rest, mode' \in {"return", "panic", "abort"},
         Top \in {"dispatch", "serveMiss"} => mode # "call",
         UNCHANGED <<fixed, watcher, header, resp, err, ops, outcome, first>>,
         logged' \in Int, failed' \in BOOLEAN, loose' \in BOOLEAN,
         mode' = "return" => failed' = failed
  PROVE  Core'
<1>1. UNCHANGED <<request, config>> /\ Inputs'
  BY InputsKept
<1>2. /\ WellFormed(stack)' /\ RoutedBelow' /\ stack' # <<>> /\ stack # <<>>
      /\ Top' \in Callers(Top) /\ Top \in Frames
      /\ Top' = "dispatch" => watcher.routed
  BY <1>1, TopOf, Popped
<1>3. /\ Top' \notin Handlers \cup {Nobody}
      /\ Top' = "serveMiss" => Top = "notFound"
  BY <1>2 DEF Callers, Handlers, Frames, Outer, Middlewares, Routes, Renderers, Nobody
<1>4. Types'
  BY DEF Core, Types
<1>5. Control'
  BY <1>2, <1>3 DEF Core, Control, Handlers, Routes
<1>6. Recorded' /\ OneAuthor'
  BY <1>2 DEF Core, Recorded, OneAuthor, Trusted
<1>7. Handling'
  BY <1>3 DEF Core, Handling, Handlers, Trusted, Written
<1> QED  BY <1>1, <1>2, <1>4, <1>5, <1>6, <1>7 DEF Core

\* A frame of the error handler comes to the top.
LEMMA RendererCore ==
  ASSUME Core, WellFormed(stack)', RoutedBelow', stack # <<>>, stack' # <<>>,
         Top' \in Renderers, mode' = "call",
         err' \in ErrorStatuses \cup {401, 404, 405, 500},
         UNCHANGED <<fixed, watcher, header, resp, ops, logged, outcome, first, loose>>,
         failed' \in BOOLEAN
  PROVE  Core'
<1>1. Inputs'
  BY InputsKept
<1>2. Types'
  BY PipelineAssumption DEF Core, Types
<1>3. Control'
  BY DEF Core, Control, Renderers, Outer, Middlewares, Handlers, Routes
<1>4. Recorded' /\ OneAuthor'
  BY DEF Core, Recorded, OneAuthor, Trusted
<1>5. Handling'
  BY DEF Handling, Handlers, Renderers
<1> QED  BY <1>1, <1>2, <1>3, <1>4, <1>5 DEF Core

\* An answer, of a response that has none, by the error handler or its fallback.
RenderedBy(s, who) ==
  /\ Top \in Renderers \cup {"respondInternalError"} /\ ~Written
  /\ stack' = Rest /\ mode' = "return"
  /\ who \in {"default", "custom", "fallback"} /\ AnswerSent(s, who) /\ Claim(who)
  /\ UNCHANGED <<fixed, watcher, err, ops, logged, outcome, failed, loose>>

LEMMA RenderedCore ==
  ASSUME Core, NEW s, NEW who, RenderedBy(s, who)
  PROVE  Core' /\ (Trusted' => Trusted /\ resp'.status = s)
<1> USE DEF RenderedBy
<1>1. UNCHANGED <<request, config>> /\ Inputs'
  BY InputsKept
<1>2. Top # Nobody /\ Top # "requestContext"
  BY DEF Renderers, Nobody
<1>3. /\ WellFormed(stack)' /\ RoutedBelow' /\ stack' # <<>> /\ stack # <<>>
      /\ Top' \in Callers(Top)
      /\ Top' = "dispatch" => watcher.routed
  BY <1>1, <1>2, TopOf, Popped
<1>4. Top' \in Outer \cup {"dispatch", "errorHandler", "respondInternalError"}
  BY <1>3 DEF Callers, Renderers, Routes, Outer, Middlewares
<1>5. who \in Authors \ {Nobody}
  BY DEF Authors, Nobody
<1>6. resp \in Responses /\ header \in Headers
  BY DEF Core, Types
<1>7. /\ Announced(resp, resp', header', s, who)
      /\ header' \in Headers /\ header'.type = who
  BY <1>5, <1>6, SentAnswer
<1>8. Trusted => first = Nobody
  BY <1>3 DEF Core, Recorded, Written, Types, Responses
<1>9. /\ OneAuthor' /\ Recorded' /\ resp' \in Responses
      /\ Trusted' => Trusted
  <2>1. Trusted' => first' = IF first = Nobody THEN who ELSE first
    BY DEF Claim
  <2> QED  BY <1>2, <1>5, <1>7, <1>8, <2>1, WriteKeeps DEF Announced
<1>10. Trusted' => resp'.status = s
  BY <1>7 DEF Announced, Written, Trusted
<1>11. Types'
  BY <1>5, <1>7, <1>9 DEF Core, Types, Claim
<1>12. Control'
  BY <1>3, <1>4 DEF Core, Control, Handlers, Outer, Middlewares, Routes
<1>13. Handling'
  BY <1>4 DEF Handling, Handlers, Outer, Middlewares
<1> QED  BY <1>1, <1>3, <1>9, <1>10, <1>11, <1>12, <1>13 DEF Core

\* The plain-text answer to a panic nobody has answered.
LEMMA FallbackSent ==
  ASSUME Core, RespondInternalError, mode = "panic", ~Written
  PROVE  /\ Core' /\ (Trusted' => Trusted /\ resp'.status = 500)
         /\ AnswerSent(500, "fallback")
<1>1. AnswerSent(500, "fallback")
  BY DEF RespondInternalError, AnswerSent, Authors, Typed
<1>2. RenderedBy(500, "fallback")
  BY <1>1 DEF RespondInternalError, Pop, Go, RenderedBy
<1> QED  BY <1>1, <1>2, RenderedCore

\* Two frames take the place of the top one.
LEMMA PushedTwo ==
  ASSUME Core, Top \notin {Nobody, "requestContext"}, UNCHANGED <<config, watcher>>,
         NEW f \in Frames \ Outer, NEW g \in Frames \ Outer, f # "dispatch",
         Callers(Top) \subseteq Callers(f), f \in Callers(g),
         stack' = Rest \o <<f, g>>
  PROVE  WellFormed(stack)' /\ RoutedBelow' /\ stack' # <<>> /\ Top' = g
<1> DEFINE s == Append(Rest, f)
<1>1. stack # <<>> /\ Top = Last(stack) /\ WellFormed(stack) /\ stack \in Seq(Frames)
  BY TopOf DEF Core, WellFormed
<1>2. /\ Rest \in Seq(Frames) /\ Len(Rest) = Len(stack) - 1 /\ Len(stack) \in Nat
      /\ \A i \in 1..(Len(stack) - 1) : Rest[i] = stack[i]
  BY <1>1, FrontOf DEF Rest
<1>3. stack' = Append(s, g)
  BY <1>2
<1>4. WellFormed(Rest) /\ Rest # <<>> /\ Last(Rest) \in Callers(f)
  BY <1>1, FrontWellFormed DEF Rest
<1>5. WellFormed(s) /\ Last(s) = f /\ s # <<>>
  BY <1>4, AppendWellFormed
<1>6. /\ Len(s) = Len(stack) /\ s[Len(stack)] = f /\ s \in Seq(Frames)
      /\ \A i \in 1..(Len(stack) - 1) : s[i] = stack[i]
  BY <1>2, AppendOf
<1> HIDE DEF s
<1>7. WellFormed(stack') /\ Last(stack') = g /\ stack' # <<>>
  BY <1>3, <1>5, AppendWellFormed
<1>8. Len(stack') = Len(stack) + 1 /\ \A i \in 1..Len(stack) : stack'[i] = s[i]
  <2>1. Len(Append(s, g)) = Len(s) + 1 /\ \A i \in 1..Len(s) : Append(s, g)[i] = s[i]
    BY <1>6, AppendOf
  <2> QED  BY <1>3, <1>6, <2>1
<1>9. RoutedBelow'
  BY <1>2, <1>6, <1>8 DEF Core, RoutedBelow
<1> QED  BY <1>7, <1>9 DEF WellFormed, Top

\* The error handler takes the place of a miss's handler and of serveMiss.
LEMMA MissFails ==
  ASSUME Core, Top = "notFound", UNCHANGED <<config, watcher>>,
         stack' = Append(Front(Rest), "errorHandler")
  PROVE  WellFormed(stack)' /\ RoutedBelow' /\ stack' # <<>> /\ Top' = "errorHandler"
<1>1. stack # <<>> /\ Top = Last(stack) /\ WellFormed(stack) /\ stack \in Seq(Frames)
  BY TopOf DEF Core, WellFormed, Nobody
<1>2. WellFormed(Rest) /\ Rest # <<>> /\ Last(Rest) = "serveMiss"
  BY <1>1, FrontWellFormed DEF Rest, Callers, Routes
<1>3. WellFormed(Front(Rest)) /\ Front(Rest) # <<>> /\ Last(Front(Rest)) \in Outer
  BY <1>2, FrontWellFormed DEF Callers, Routes
<1>4. "errorHandler" \in Frames \ Outer /\ Outer \subseteq Callers("errorHandler")
  BY DEF Frames, Outer, Middlewares, Renderers, Callers, Routes
<1>5. WellFormed(stack') /\ Last(stack') = "errorHandler" /\ stack' # <<>>
  BY <1>3, <1>4, AppendWellFormed
<1>6. RoutedBelow'
  <2>1. /\ Rest \in Seq(Frames) /\ Len(Rest) = Len(stack) - 1 /\ Len(stack) \in Nat
        /\ \A i \in 1..(Len(stack) - 1) : Rest[i] = stack[i]
    BY <1>1, FrontOf DEF Rest
  <2>2. /\ Front(Rest) \in Seq(Frames) /\ Len(Front(Rest)) = Len(stack) - 2
        /\ \A i \in 1..(Len(stack) - 2) : Front(Rest)[i] = stack[i]
    BY <1>2, <2>1, FrontOf
  <2>3. /\ Len(stack') = Len(stack) - 1
        /\ \A i \in 1..(Len(stack) - 2) : stack'[i] = stack[i]
    BY <1>4, <2>2, AppendOf
  <2> QED  BY <2>1, <2>3 DEF Core, RoutedBelow
<1> QED  BY <1>5, <1>6 DEF WellFormed, Top

-----------------------------------------------------------------------------
(* The invariant of authorship, step by step                               *)

LEMMA RaiseTypes ==
  ASSUME Core
  PROVE  /\ Fail => failed' \in BOOLEAN
         /\ \A how : Raise(how) => failed' \in BOOLEAN /\ loose' \in BOOLEAN
BY DEF Core, Types, Fail, Raise

\* net/http refuses a status that is none of HTTP's, once it has been recorded.
RefusedBy(who) ==
  /\ Top \in Renderers /\ ~Written /\ err \notin 100..999
  /\ stack' = Rest /\ mode' = "panic" /\ Raise("panic")
  /\ who \in {"default", "custom"} /\ header' = Typed(header, who)
  /\ resp' = Compared([resp EXCEPT !.tracked = err])
  /\ UNCHANGED <<fixed, watcher, err, ops, logged, outcome, first>>

LEMMA RefusedCore ==
  ASSUME Core, NEW who, RefusedBy(who)
  PROVE  /\ Core' /\ resp'.status = resp.status
         /\ resp'.by = resp.by /\ resp'.sent = resp.sent /\ (Trusted' => Trusted)
<1> USE DEF RefusedBy
<1>0. failed' \in BOOLEAN /\ loose' \in BOOLEAN
  BY RaiseTypes
<1>1. UNCHANGED <<request, config>> /\ Inputs'
  BY InputsKept
<1>2. Top # Nobody /\ Top # "requestContext"
  BY DEF Renderers, Nobody
<1>3. /\ WellFormed(stack)' /\ RoutedBelow' /\ stack' # <<>> /\ stack # <<>>
      /\ Top' \in Callers(Top)
      /\ Top' = "dispatch" => watcher.routed
  BY <1>1, <1>2, TopOf, Popped
<1>4. Top' \in Outer \cup {"dispatch", "errorHandler", "respondInternalError"}
  BY <1>3 DEF Callers, Renderers, Routes, Outer, Middlewares
<1>5. who \in Authors
  BY DEF Authors
<1>6. header' \in Headers
  BY <1>5, TypedHeader DEF Core, Types
<1> DEFINE r == [resp EXCEPT !.tracked = err]
<1>7. /\ r \in Responses /\ r.tracked = err /\ r.status = resp.status /\ r.by = resp.by
      /\ r.body = resp.body /\ r.sent = resp.sent /\ r.astray = resp.astray
  BY DEF Core, Types, Responses
<1>8. resp' = Compared(r)
  OBVIOUS
<1> HIDE DEF r
<1>9. /\ resp' \in Responses /\ resp'.tracked = err /\ resp'.status = resp.status
      /\ resp'.by = resp.by /\ resp'.body = resp.body /\ resp'.sent = resp.sent
      /\ resp'.astray <=> resp.astray \/ err # resp.status
  BY <1>7, <1>8, ComparedFields
<1>10. Types'
  BY <1>0, <1>6, <1>9 DEF Core, Types
<1>11. Control'
  BY <1>3, <1>4 DEF Core, Control, Handlers, Outer, Middlewares, Routes
<1>12. Recorded' /\ OneAuthor'
  <2>1. Trusted' => Trusted /\ resp'.tracked = resp'.status
    BY <1>9 DEF Trusted
  <2>2. Recorded'
    <3>1. Trusted => /\ resp.by = Nobody <=> resp.status = 0
                     /\ first = Nobody <=> resp.status = 0
                     /\ resp.status = 0 => resp.body = {}
      BY <1>2, RecordOf
    <3>2. /\ Trusted' => resp'.tracked = resp'.status
          /\ Trusted' => (resp'.by = Nobody <=> resp'.status = 0)
          /\ Trusted' => (first' = Nobody <=> resp'.status = 0)
          /\ Trusted' => (resp'.status = 0 => resp'.body = {})
      BY <1>9, <2>1, <3>1
    <3> QED  BY <3>2 DEF Recorded
  <2>3. OneAuthor'
    BY <1>9, <2>1 DEF Core, OneAuthor
  <2> QED  BY <2>2, <2>3
<1>13. Handling'
  BY <1>4 DEF Handling, Handlers, Outer, Middlewares
<1> QED  BY <1>1, <1>3, <1>9, <1>10, <1>11, <1>12, <1>13 DEF Core, Trusted

\* CORS answers a preflight.
LEMMA PreflightCore ==
  ASSUME Core, Top = "cors", mode = "call", stack' = Rest, mode' = "return",
         header' \in Headers, header'.type = header.type,
         resp' = SendHeader(resp, header', 204, "cors"), Claim("cors"),
         UNCHANGED <<fixed, watcher, err, ops, logged, outcome, failed, loose>>
  PROVE  /\ Core'
         /\ HeaderOnly(resp, resp', header', 204, "cors")
<1>1. UNCHANGED <<request, config>> /\ Inputs'
  BY InputsKept
<1>2. Top # Nobody /\ Top # "requestContext" /\ "cors" \in Authors \ {Nobody}
  BY DEF Nobody, Authors, Frames, Outer, Middlewares
<1>3. /\ WellFormed(stack)' /\ RoutedBelow' /\ stack' # <<>> /\ stack # <<>>
      /\ Top' \in Callers(Top)
  BY <1>1, <1>2, TopOf, Popped
<1>4. Top' \in Outer
  BY <1>3 DEF Callers, Renderers, Routes
<1>5. HeaderOnly(resp, resp', header', 204, "cors")
  BY <1>2, SendHeaderWrote DEF Core, Types
<1>6. first = Nobody /\ header.type = Nobody /\ outcome = "open" /\ ~watcher.routed
      /\ watcher.status = 0
  BY <1>3 DEF Core, Control, Untouched, Outer, Middlewares
<1>7. /\ OneAuthor' /\ Recorded' /\ resp' \in Responses
  BY <1>2, <1>5, <1>6, WriteKeeps DEF HeaderOnly, Announced, Claim
<1>8. Types'
  BY <1>2, <1>7 DEF Core, Types, Claim
<1>9. Control'
  BY <1>3, <1>4, <1>6 DEF Control, Handlers, Outer, Middlewares, Routes
<1>10. Handling'
  BY <1>4 DEF Handling, Handlers, Outer, Middlewares
<1> QED  BY <1>1, <1>3, <1>5, <1>7, <1>8, <1>9, <1>10 DEF Core

\* Application code writes, or only says so: a flush goes past the record.
LEMMA OperateCore ==
  ASSUME Core, Top \in Handlers, ops' \in 0..MaxOps,
         UNCHANGED <<fixed, stack, mode, watcher, err, logged, outcome, failed, loose>>,
         NEW h \in Headers, h.type \in {header.type, Top},
         Wrote(resp, resp', h, Top),
         Trusted' => first' = IF first = Nobody THEN Top ELSE first,
         first' \in Authors, header' \in Headers, header'.type \in {header.type, Top}
  PROVE  Core'
<1>1. UNCHANGED <<request, config>> /\ Inputs'
  BY InputsKept
<1>2. Top # Nobody /\ Top \in Authors /\ Top' = Top
  BY DEF Handlers, Nobody, Authors, Frames, Routes, Top, Rest
<1>3. WellFormed(stack)' /\ RoutedBelow'
  BY <1>1 DEF Core, WellFormed, RoutedBelow
<1>4. /\ OneAuthor' /\ Recorded' /\ resp' \in Responses
      /\ Trusted' => Trusted /\ resp'.tracked # 0 /\ first' = Top
  BY <1>2, WriteKeeps DEF Core, Handling
<1>5. Types'
  BY <1>4 DEF Core, Types
<1>6. Control'
  BY <1>2 DEF Core, Control, Handlers, Outer, Middlewares, Routes, Renderers
<1>7. Handling'
  BY <1>2, <1>4 DEF Core, Handling, Handlers, Written
<1> QED  BY <1>1, <1>3, <1>4, <1>5, <1>6, <1>7 DEF Core

\* An operation that finds the response written, and writes nothing.
LEMMA RefrainCore ==
  ASSUME Core, Top \in Handlers, ops' \in 0..MaxOps,
         UNCHANGED <<fixed, stack, mode, watcher, header, resp, err, logged, outcome, first,
                     failed, loose>>
  PROVE  Core'
<1>1. UNCHANGED <<request, config>> /\ Inputs'
  BY InputsKept
<1>2. Top' = Top
  BY DEF Top, Rest
<1>3. WellFormed(stack)' /\ RoutedBelow'
  BY <1>1 DEF Core, WellFormed, RoutedBelow
<1>4. Types' /\ Recorded' /\ OneAuthor'
  BY DEF Core, Types, Recorded, OneAuthor, Trusted
<1>5. Control' /\ Handling'
  BY <1>2 DEF Core, Control, Untouched, Handling, Trusted, Written
<1> QED  BY <1>1, <1>3, <1>4, <1>5 DEF Core

\* A route's handler is marked before it runs, so the watcher lets it answer.
LEMMA BehindIsRouted ==
  ASSUME Core, Top \in Handlers, Behind
  PROVE  ~Suppresses(404) /\ ~Suppresses(405) /\ watcher.status = 0
         /\ \A s : ~Suppresses(s)
BY DEF Core, Control, Behind, Handlers, Routes, Suppresses

LEMMA HandlerOperatesCore ==
  ASSUME Core,
         \/ HandlerWrite \/ HandlerFlush \/ HandlerStream
         \/ \E s \in Statuses : HandlerStatus(s) \/ HandlerAnswer(s)
  PROVE  /\ Core'
         /\ \/ UNCHANGED resp
            \/ \E h \in Headers : Wrote(resp, resp', h, Top) /\ h \in {header, header'}
         /\ Top \in Handlers
<1>1. Top \in Handlers /\ mode = "call" /\ ops' \in 0..MaxOps /\ Operate
  BY PipelineAssumption
     DEF Core, Types, HandlerWrite, HandlerFlush, HandlerStream, HandlerStatus, HandlerAnswer,
         Operate, Running
<1>2. Top \in Authors /\ resp \in Responses /\ header \in Headers /\ first \in Authors
  BY <1>1 DEF Core, Types, Handlers, Authors, Frames, Routes
<1>3. Behind => watcher.status = 0 /\ \A s : ~Suppresses(s)
  BY <1>1, BehindIsRouted
<1>4. CASE HandlerWrite
  <2>1. resp' = SendBody(resp, header, Top)
    BY <1>3, <1>4 DEF HandlerWrite
  <2>2. Wrote(resp, resp', header, Top)
    BY <1>2, <2>1, SendBodyWrote
  <2>3. /\ UNCHANGED <<fixed, stack, mode, watcher, header, err, logged, outcome, failed, loose>>
        /\ first' = IF first = Nobody THEN Top ELSE first
    BY <1>4 DEF HandlerWrite, Claim
  <2> QED  BY <1>1, <1>2, <2>2, <2>3, OperateCore
<1>5. CASE HandlerFlush
  <2>1. Wrote(resp, resp', header, Top)
    BY <1>2, <1>5, FlushWrote DEF HandlerFlush
  <2>2. /\ UNCHANGED <<fixed, stack, mode, watcher, header, err, logged, outcome, failed, loose>>
        /\ first' = IF first = Nobody THEN Top ELSE first
    BY <1>5 DEF HandlerFlush, Claim
  <2> QED  BY <1>1, <1>2, <2>1, <2>2, OperateCore
<1>6. CASE HandlerStream
  <2>1. header' \in Headers /\ header'.type = Top
    BY <1>2, <1>6, TypedHeader DEF HandlerStream, Headers
  <2>2. HeaderOnly(resp, resp', header', 200, Top)
    BY <1>2, <1>6, <2>1, SendHeaderWrote DEF HandlerStream
  <2>3. /\ UNCHANGED <<fixed, stack, mode, watcher, err, logged, outcome, failed, loose>>
        /\ first' = IF first = Nobody THEN Top ELSE first
    BY <1>6 DEF HandlerStream, Claim
  <2> QED  BY <1>1, <1>2, <2>1, <2>2, <2>3, OperateCore DEF HeaderOnly, Announced
<1>7. ASSUME NEW s \in Statuses, HandlerStatus(s)
      PROVE  Core' /\ \E h \in Headers : Wrote(resp, resp', h, Top) /\ h \in {header, header'}
  <2>1. s \in 100..999
    BY PipelineAssumption
  <2>2. resp' = SendHeader(resp, header, s, Top) /\ UNCHANGED watcher
    BY <1>3, <1>7 DEF HandlerStatus
  <2>3. HeaderOnly(resp, resp', header, s, Top)
    BY <1>2, <2>1, <2>2, SendHeaderWrote
  <2>4. UNCHANGED <<fixed, stack, mode, header, err, logged, outcome, failed, loose>>
    BY <1>7 DEF HandlerStatus
  <2>5. /\ Trusted' => first' = IF first = Nobody THEN Top ELSE first
        /\ first' \in Authors
    <3>1. CASE ~Informational(s)
      BY <1>2, <1>7, <3>1 DEF HandlerStatus, Claim
    <3>2. CASE Informational(s)
      <4>1. first' = first
        BY <1>7, <3>2 DEF HandlerStatus
      <4>2. Trusted' => resp.status # 0
        <5>1. resp.status = 0 => resp'.status = 0
          BY <2>3, <3>2 DEF HeaderOnly, Informational
        <5> QED  BY <2>3, <5>1 DEF HeaderOnly, Announced, Wrote, Trusted
      <4>3. Trusted' => first # Nobody
        BY <1>1, <2>3, <4>2, TopOf
        DEF Core, Recorded, HeaderOnly, Announced, Wrote, Trusted, Handlers, Nobody
      <4> QED  BY <1>2, <4>1, <4>3
    <3> QED  BY <3>1, <3>2
  <2> QED  BY <1>1, <1>2, <2>2, <2>3, <2>4, <2>5, OperateCore DEF HeaderOnly, Announced
<1>8. ASSUME NEW s \in Statuses, HandlerAnswer(s)
      PROVE  /\ Core'
             /\ \/ UNCHANGED resp
                \/ \E h \in Headers : Wrote(resp, resp', h, Top) /\ h \in {header, header'}
  <2>1. CASE Written
    BY <1>1, <1>8, <2>1, RefrainCore DEF HandlerAnswer
  <2>2. CASE ~Written
    <3>1. s \in 100..999
      BY PipelineAssumption
    <3>2. /\ AnswerSent(s, Top)
          /\ UNCHANGED <<fixed, stack, mode, watcher, err, logged, outcome, failed, loose>>
          /\ first' = IF first = Nobody THEN Top ELSE first
      BY <1>2, <1>3, <1>8, <2>2, <3>1 DEF HandlerAnswer, Claim, AnswerSent, Typed
    <3>3. /\ header' \in Headers /\ header'.type = Top
          /\ Announced(resp, resp', header', s, Top)
      BY <1>2, <3>1, <3>2, SentAnswer
    <3>4. Wrote(resp, resp', header', Top)
      BY <3>3 DEF Announced
    <3>5. first' \in Authors
      BY <1>2, <3>2
    <3> QED  BY <1>1, <1>2, <3>2, <3>3, <3>4, <3>5, OperateCore
  <2> QED  BY <2>1, <2>2
<1> QED  BY <1>1, <1>2, <1>4, <1>5, <1>6, <1>7, <1>8

\* A route's handler is called, and the request marked.
LEMMA MatchCore ==
  ASSUME Core, Match
  PROVE  Core'
<1>1. /\ Top = "dispatch" /\ mode = "call" /\ request.route \in Routes
      /\ watcher' = [watcher EXCEPT !.routed = TRUE]
      /\ stack' = Append(stack, request.route) /\ mode' = "call"
      /\ UNCHANGED <<fixed, header, resp, err, ops, logged, outcome, first, failed, loose>>
  BY DEF Match, Go, Routes
<1>2. Untouched /\ header.type = Nobody /\ ~watcher.routed /\ watcher.status = 0
  BY <1>1 DEF Core, Control
<1>3. UNCHANGED <<request, config>> /\ Inputs'
  BY <1>1, InputsKept
<1>4. Top # Nobody /\ stack # <<>>
  BY <1>1, TopOf DEF Nobody
<1>5. /\ watcher' \in [routed : BOOLEAN, status : {0, 404, 405}]
      /\ watcher'.routed /\ watcher'.status = 0
  <2>1. watcher = [routed |-> watcher.routed, status |-> watcher.status]
    BY DEF Core, Types
  <2>2. watcher' = [routed |-> TRUE, status |-> 0]
    BY <1>1, <1>2, <2>1
  <2> QED  BY <2>2
<1>6. request.route \in Frames \ Outer /\ Top \in Callers(request.route)
  BY <1>1 DEF Frames, Outer, Routes, Middlewares, Callers
<1>7. WellFormed(stack)' /\ RoutedBelow' /\ stack' # <<>> /\ Top' = request.route
  BY <1>1, <1>2, <1>3, <1>4, <1>5, <1>6, Pushed
<1>8. Types'
  BY <1>1, <1>5 DEF Core, Types
<1>9. Control'
  BY <1>1, <1>4, <1>5, <1>7 DEF Core, Control, Routes, Renderers, Handlers, Outer, Middlewares
<1>10. Recorded' /\ OneAuthor'
  BY <1>1, <1>4 DEF Core, Recorded, OneAuthor, Trusted
<1>11. Handling'
  BY <1>1, <1>2, <1>7 DEF Handling, Untouched, Routes, Nobody
<1> QED  BY <1>3, <1>7, <1>8, <1>9, <1>10, <1>11 DEF Core

\* The mux answers: a miss is kept back, a redirect goes out.
LEMMA MuxCore ==
  ASSUME Core, MuxAnswers
  PROVE  /\ Core' /\ Top = "dispatch" /\ mode = "call" /\ stack' = stack /\ mode' = "return"
         /\ UNCHANGED <<fixed, err, ops, logged, outcome, failed, loose>>
         /\ header' = Typed(header, "mux")
         /\ \/ UNCHANGED <<resp, first>>
            \/ Announced(resp, resp', header', 301, "mux") /\ first' = "mux" /\ UNCHANGED watcher
<1>1. /\ Top = "dispatch" /\ mode = "call" /\ stack' = stack /\ mode' = "return"
      /\ header' = Typed(header, "mux")
      /\ UNCHANGED <<fixed, err, ops, logged, outcome, failed, loose>>
  BY DEF MuxAnswers, Go, Typed
<1>2. Untouched /\ header.type = Nobody /\ ~watcher.routed /\ watcher.status = 0
  BY <1>1 DEF Core, Control
<1>3. \/ \E s \in {404, 405} :
           watcher' = [watcher EXCEPT !.status = s] /\ UNCHANGED <<resp, first>>
      \/ resp' = Answer(resp, header, 301, "mux") /\ Claim("mux") /\ UNCHANGED watcher
  <2>1. CASE request.route = "miss"
    BY <1>2, <2>1 DEF MuxAnswers, Suppresses
  <2>2. CASE request.route = "method"
    BY <1>2, <2>2 DEF MuxAnswers, Suppresses
  <2>3. CASE request.route \notin {"miss", "method"}
    BY <1>2, <2>3 DEF MuxAnswers, Suppresses
  <2> QED  BY <2>1, <2>2, <2>3
<1>4. UNCHANGED <<request, config>> /\ Inputs'
  BY <1>1, InputsKept
<1>5. Top' = Top /\ Top # Nobody /\ stack # <<>>
  BY <1>1, TopOf DEF Top, Nobody
<1>6. "mux" \in Authors \ {Nobody}
  BY DEF Authors, Nobody
<1>7. header' \in Headers /\ header'.type = "mux"
  BY <1>1, <1>6, TypedHeader DEF Core, Types, Headers
<1>8. CASE \E s \in {404, 405} :
             watcher' = [watcher EXCEPT !.status = s] /\ UNCHANGED <<resp, first>>
  <2>1. /\ watcher' \in [routed : BOOLEAN, status : {0, 404, 405}] /\ watcher'.status # 0
        /\ ~watcher'.routed /\ ~watcher.routed
    BY <1>2, <1>8 DEF Core, Types
  <2>2. Untouched'
    BY <1>1, <1>2, <1>8 DEF Untouched
  <2>3. WellFormed(stack)' /\ RoutedBelow'
    BY <1>1, <1>4, <2>1 DEF Core, WellFormed, RoutedBelow
  <2>4. Types'
    BY <1>1, <1>7, <1>8, <2>1 DEF Core, Types
  <2>5. Control'
    BY <1>1, <1>5, <1>7, <2>1, <2>2 DEF Core, Control, Routes, Handlers
  <2>6. Recorded' /\ OneAuthor'
    BY <1>1, <1>8 DEF Core, Recorded, OneAuthor, Trusted
  <2>7. Handling'
    BY <1>1, <1>5 DEF Handling, Handlers
  <2> QED  BY <1>1, <1>4, <1>8, <2>3, <2>4, <2>5, <2>6, <2>7 DEF Core
<1>9. CASE resp' = Answer(resp, header, 301, "mux") /\ Claim("mux") /\ UNCHANGED watcher
  <2>a. AnswerSent(301, "mux") /\ resp \in Responses /\ header \in Headers
    BY <1>1, <1>6, <1>9 DEF Core, Types, AnswerSent
  <2>1. Announced(resp, resp', header', 301, "mux")
    BY <2>a, SentAnswer
  <2>2. first = Nobody /\ first' = "mux"
    BY <1>2, <1>9 DEF Claim, Untouched
  <2>3. OneAuthor' /\ Recorded' /\ resp' \in Responses
    BY <1>5, <1>6, <1>7, <2>1, <2>2, WriteKeeps DEF Announced
  <2>4. WellFormed(stack)' /\ RoutedBelow'
    BY <1>1, <1>4, <1>9 DEF Core, WellFormed, RoutedBelow
  <2>5. Types'
    BY <1>1, <1>6, <1>7, <1>9, <2>2, <2>3 DEF Core, Types
  <2>6. Control'
    BY <1>1, <1>2, <1>5, <1>9 DEF Core, Control, Routes, Handlers
  <2>7. Handling'
    BY <1>1, <1>5 DEF Handling, Handlers
  <2> QED  BY <1>1, <1>4, <1>9, <2>1, <2>2, <2>3, <2>4, <2>5, <2>6, <2>7 DEF Core
<1> QED  BY <1>3, <1>8, <1>9

\* dispatch goes back, or hands a miss to serveMiss and the application's handler.
LEMMA DispatchedCore ==
  ASSUME Core, Dispatched
  PROVE  Core'
<1>1. /\ Top = "dispatch" /\ mode \in {"return", "panic", "abort"}
      /\ UNCHANGED <<fixed, watcher, resp, err, ops, logged, outcome, first, failed, loose>>
  BY DEF Dispatched, Unwinding, Core, Types
<1>2. CASE mode = "return" /\ watcher.status # 0
  <2>1. /\ stack' = Rest \o <<"serveMiss", "notFound">> /\ mode' = "call"
        /\ header' = [header EXCEPT !.type = IF @ = "mux" THEN Nobody ELSE @]
    BY <1>2 DEF Dispatched, Go
  <2>2. Untouched /\ header.type = "mux"
    BY <1>1, <1>2 DEF Core, Control
  <2>3. header' \in Headers /\ header'.type = Nobody
    BY <2>1, <2>2 DEF Core, Types, Headers, Authors
  <2>4. UNCHANGED <<request, config>> /\ Inputs'
    BY <1>1, InputsKept
  <2>5. Top # Nobody /\ stack # <<>>
    BY <1>1, TopOf DEF Nobody
  <2>6. /\ "serveMiss" \in Frames \ Outer /\ "notFound" \in Frames \ Outer
        /\ "serveMiss" \in Callers("notFound") /\ Callers("dispatch") \subseteq Callers("serveMiss")
    BY DEF Frames, Outer, Middlewares, Callers, Routes
  <2>7. WellFormed(stack)' /\ RoutedBelow' /\ stack' # <<>> /\ Top' = "notFound"
    BY <1>1, <2>1, <2>4, <2>5, <2>6, PushedTwo
  <2>8. Types'
    BY <1>1, <2>1, <2>3 DEF Core, Types
  <2>9. Control'
    BY <1>1, <1>2, <2>1, <2>5, <2>7 DEF Core, Control, Routes, Renderers, Outer, Middlewares
  <2>10. Recorded' /\ OneAuthor'
    BY <1>1, <2>5 DEF Core, Recorded, OneAuthor, Trusted
  <2>11. Handling'
    BY <1>1, <2>2, <2>3, <2>7 DEF Handling, Untouched, Nobody
  <2> QED  BY <2>4, <2>7, <2>8, <2>9, <2>10, <2>11 DEF Core
<1>3. CASE ~(mode = "return" /\ watcher.status # 0)
  <2>1. stack' = Rest /\ mode' = mode /\ UNCHANGED header
    BY <1>3 DEF Dispatched, Pop, Go
  <2> QED  BY <1>1, <2>1, PopCore DEF Core, Types, Nobody
<1> QED  BY <1>2, <1>3

\* serveMiss gives a response its handler left unwritten the status of the mux.
LEMMA MissServedCore ==
  ASSUME Core, MissServed
  PROVE  /\ Core'
         /\ \/ UNCHANGED <<resp, first>> /\ (mode = "return" => Written)
            \/ Announced(resp, resp', header, watcher.status, "serveMiss") /\ mode = "return"
<1>1. /\ Top = "serveMiss" /\ mode \in {"return", "panic", "abort"}
      /\ stack' = Rest /\ mode' = mode
      /\ UNCHANGED <<fixed, watcher, header, err, ops, logged, outcome, failed, loose>>
  BY DEF MissServed, Unwinding, Pop, Go, Core, Types
<1>2. CASE mode = "return" /\ ~Written
  <2>1. resp' = SendHeader(resp, header, watcher.status, "serveMiss") /\ Claim("serveMiss")
    BY <1>2 DEF MissServed
  <2>2. watcher.status \in 100..999
    BY <1>1 DEF Core, Control, Types
  <2>3. "serveMiss" \in Authors \ {Nobody} /\ Top # Nobody
    BY <1>1 DEF Authors, Frames, Nobody
  <2>4. HeaderOnly(resp, resp', header, watcher.status, "serveMiss")
    BY <2>1, <2>2, <2>3, SendHeaderWrote DEF Core, Types
  <2>5. Trusted => header.type = Nobody /\ first = Nobody
    BY <1>1, <1>2, <2>3, RecordOf DEF Core, Handling, Written
  <2>6. first' = IF first = Nobody THEN "serveMiss" ELSE first
    BY <2>1 DEF Claim
  <2>7. OneAuthor' /\ Recorded' /\ resp' \in Responses
    BY <2>3, <2>4, <2>5, <2>6, WriteKeeps DEF Core, Types, HeaderOnly, Announced
  <2>8. UNCHANGED <<request, config>> /\ Inputs'
    BY <1>1, InputsKept
  <2>9. /\ WellFormed(stack)' /\ RoutedBelow' /\ stack' # <<>> /\ stack # <<>>
        /\ Top' \in Outer
    BY <1>1, <2>3, <2>8, Popped, TopOf DEF Callers, Routes
  <2>10. Types'
    BY <1>1, <2>3, <2>6, <2>7 DEF Core, Types
  <2>11. Control'
    BY <1>1, <1>2, <2>9 DEF Core, Control, Handlers, Outer, Middlewares, Routes
  <2>12. Handling'
    BY <2>9 DEF Handling, Handlers, Outer, Middlewares
  <2> QED  BY <1>2, <2>4, <2>7, <2>8, <2>9, <2>10, <2>11, <2>12 DEF Core, HeaderOnly
<1>3. CASE ~(mode = "return" /\ ~Written)
  <2>1. UNCHANGED <<resp, first>>
    BY <1>3 DEF MissServed
  <2> QED  BY <1>1, <1>3, <2>1, PopCore DEF Core, Types, Nobody
<1> QED  BY <1>2, <1>3

\* The request context is left: net/http ends the response, or the connection.
LEMMA ContextCore ==
  ASSUME Core, RequestContext
  PROVE  Core'
<1>1. /\ Top = "requestContext"
      /\ UNCHANGED <<fixed, watcher, header, err, ops, logged, first, failed, loose>>
  BY DEF RequestContext
<1>2. CASE mode = "call"
  <2>1. Pass /\ UNCHANGED <<resp, outcome>>
    BY <1>2 DEF RequestContext
  <2> QED  BY <1>1, <1>2, <2>1, PassCore DEF Outer, Core, Types
<1>3. CASE mode # "call"
  <2>1. stack' = Rest /\ mode' = mode
    BY <1>3 DEF RequestContext, Pop, Go
  <2>2. UNCHANGED <<request, config>> /\ Inputs'
    BY <1>1, InputsKept
  <2>3. Top # Nobody
    BY <1>1 DEF Nobody
  <2>4. WellFormed(stack)' /\ RoutedBelow' /\ stack' = <<>> /\ Top' = Nobody
    BY <1>1, <2>1, <2>2, <2>3, Popped
  <2>5. outcome' \in {"sent", "closed"}
    BY <1>3 DEF RequestContext
  <2>6. /\ resp' \in Responses /\ UNCHANGED <<resp.by, resp.body, resp.astray, resp.tracked>>
        /\ resp.status # 0 => UNCHANGED resp
    <3>1. resp \in Responses /\ header \in Headers
      BY DEF Core, Types
    <3>2. CASE resp' = resp
      BY <3>1, <3>2
    <3>3. CASE resp' = [resp EXCEPT !.status = 200, !.sent = header] /\ resp.status = 0
      <4> DEFINE d == [resp EXCEPT !.status = 200]
      <4>1. /\ d \in Responses /\ d.status = 200
            /\ d.by = resp.by /\ d.body = resp.body /\ d.astray = resp.astray
            /\ d.tracked = resp.tracked
        BY <3>1 DEF Responses
      <4>2. resp' = [d EXCEPT !.sent = header]
        BY <3>3
      <4> HIDE DEF d
      <4> QED  BY <3>1, <3>3, <4>1, <4>2 DEF Responses
    <3> QED  BY <1>3, <3>2, <3>3 DEF RequestContext
  <2>7. Types'
    BY <1>1, <2>1, <2>5, <2>6 DEF Core, Types
  <2>8. Control'
    BY <1>1, <2>4, <2>5
    DEF Core, Control, Nobody, Outer, Middlewares, Routes, Renderers, Handlers
  <2>9. Recorded'
    BY <2>4 DEF Recorded
  <2>10. OneAuthor'
    <3>1. Trusted => (resp.by = Nobody <=> resp.status = 0)
      BY <2>3, RecordOf
    <3> QED  BY <1>1, <2>6, <3>1 DEF Core, OneAuthor, Trusted
  <2>11. Handling'
    BY <2>4 DEF Handling, Nobody, Handlers
  <2> QED  BY <2>2, <2>4, <2>7, <2>8, <2>9, <2>10, <2>11 DEF Core
<1> QED  BY <1>2, <1>3

LEMMA GrantedHeader ==
  ASSUME Core, NEW ok \in BOOLEAN
  PROVE  /\ Granted(ok) \in Headers /\ Granted(ok).type = header.type
         /\ Granted(ok).vary = TRUE /\ Granted(ok).secure = header.secure
         /\ Granted(ok).origin = IF ok THEN AllowOrigin ELSE Nobody
<1> DEFINE o == IF ok THEN AllowOrigin ELSE Nobody
           d == [header EXCEPT !.vary = TRUE]
<1>1. o \in {Nobody, "preset", "*", "origin"}
  BY DEF AllowOrigin
<1>2. /\ d \in Headers /\ d.type = header.type /\ d.vary = TRUE /\ d.secure = header.secure
  BY DEF Core, Types, Headers
<1>3. Granted(ok) = [d EXCEPT !.origin = o]
  BY DEF Granted
<1> HIDE DEF o, d
<1>4. /\ Granted(ok) \in Headers /\ Granted(ok).type = d.type /\ Granted(ok).vary = d.vary
      /\ Granted(ok).secure = d.secure /\ Granted(ok).origin = o
  BY <1>1, <1>2, <1>3 DEF Headers
<1> QED  BY <1>2, <1>4 DEF o

LEMMA UnwindingModes ==
  ASSUME Core, Unwinding
  PROVE  mode \in {"return", "panic", "abort"}
BY DEF Core, Types, Unwinding

LEMMA AccessLogCore ==
  ASSUME Core, AccessLog
  PROVE  Core'
<1>1. /\ Top = "accessLog"
      /\ UNCHANGED <<fixed, watcher, header, resp, err, ops, outcome, first, failed, loose>>
  BY DEF AccessLog
<1>2. CASE mode = "call" /\ Pass /\ UNCHANGED logged
  BY <1>1, <1>2, PassCore DEF Core, Types, Outer, Middlewares
<1>3. CASE /\ Unwinding /\ Pop(mode)
           /\ logged' = IF request.skipped THEN logged
                        ELSE IF Written THEN resp.tracked ELSE 200
  <2>1. logged' \in Int
    BY <1>3 DEF Core, Types, Responses
  <2> QED
    BY <1>1, <1>3, <2>1, UnwindingModes, PopCore DEF Core, Types, Pop, Go, Nobody
<1> QED  BY <1>2, <1>3 DEF AccessLog

LEMMA SecurityHeadersCore ==
  ASSUME Core, SecurityHeaders
  PROVE  Core'
<1>1. /\ Top = "security"
      /\ UNCHANGED <<fixed, watcher, resp, err, ops, logged, outcome, first, failed, loose>>
  BY DEF SecurityHeaders
<1>2. CASE mode = "call" /\ Pass /\ header' = [header EXCEPT !.secure = TRUE]
  <2>1. header' \in Headers /\ header'.type = header.type
    BY <1>2 DEF Core, Types, Headers
  <2> QED  BY <1>1, <1>2, <2>1, PassCore DEF Core, Types, Outer, Middlewares
<1>3. CASE Unwinding /\ Pop(mode) /\ UNCHANGED header
  BY <1>1, <1>3, UnwindingModes, PopCore DEF Core, Types, Pop, Go, Nobody
<1> QED  BY <1>2, <1>3 DEF SecurityHeaders

LEMMA CorsCore ==
  ASSUME Core, Cors
  PROVE  Core'
<1>1. Top = "cors" /\ UNCHANGED <<fixed, watcher, err, ops, logged, outcome, failed, loose>>
  BY DEF Cors
<1>2. CASE mode = "call" /\ Pass /\ UNCHANGED <<header, resp, first>>
  BY <1>1, <1>2, PassCore DEF Core, Types, Outer, Middlewares
<1>3. CASE /\ mode = "call" /\ request.preflight
           /\ \E method \in BOOLEAN : header' = Granted(Allows /\ method)
           /\ resp' = SendHeader(resp, header', 204, "cors")
           /\ Claim("cors") /\ Pop("return")
  <2>1. header' \in Headers /\ header'.type = header.type
    BY <1>3, GrantedHeader
  <2> QED  BY <1>1, <1>3, <2>1, PreflightCore DEF Pop, Go
<1>4. CASE /\ mode = "call" /\ header' = Granted(Allows)
           /\ Pass /\ UNCHANGED <<resp, first>>
  <2>1. header' \in Headers /\ header'.type = header.type
    BY <1>4, GrantedHeader DEF Allows, Core, Inputs
  <2> QED  BY <1>1, <1>4, <2>1, PassCore DEF Core, Types, Outer, Middlewares
<1>5. CASE Unwinding /\ Pop(mode) /\ UNCHANGED <<header, resp, first>>
  BY <1>1, <1>5, UnwindingModes, PopCore DEF Core, Types, Pop, Go, Nobody
<1> QED  BY <1>2, <1>3, <1>4, <1>5 DEF Cors

LEMMA AuthCore ==
  ASSUME Core, Auth
  PROVE  Core'
<1>1. Top = "auth" /\ UNCHANGED <<fixed, watcher, header, resp, ops, logged, outcome, first>>
  BY DEF Auth
<1>2. CASE mode = "call" /\ Pass /\ UNCHANGED <<err, failed, loose>>
  BY <1>1, <1>2, PassCore DEF Core, Types, Outer, Middlewares
<1>3. CASE err' = 401 /\ Fail /\ Go(Append(Rest, "rendering"), "call") /\ UNCHANGED loose
  <2>1. "rendering" \in Frames \ Outer /\ Callers(Top) \subseteq Callers("rendering")
    BY <1>1 DEF Frames, Outer, Middlewares, Renderers, Routes, Callers
  <2>2. WellFormed(stack)' /\ RoutedBelow' /\ stack' # <<>> /\ Top' = "rendering"
    BY <1>1, <1>3, <2>1, Pushed DEF Go, fixed, Nobody
  <2> QED  BY <1>1, <1>3, <2>2, RaiseTypes, TopOf, RendererCore DEF Go, Renderers, Nobody
<1>4. CASE Raise("panic") /\ Pop("panic") /\ UNCHANGED err
  BY <1>1, <1>4, RaiseTypes, PopCore DEF Core, Types, Pop, Go, Nobody
<1>5. CASE Unwinding /\ Pop(mode) /\ UNCHANGED <<err, failed, loose>>
  BY <1>1, <1>5, UnwindingModes, PopCore DEF Core, Types, Pop, Go, Nobody
<1> QED  BY <1>2, <1>3, <1>4, <1>5 DEF Auth

LEMMA RecoverCore ==
  ASSUME Core, Recover
  PROVE  Core'
<1>1. /\ Top = "recover"
      /\ UNCHANGED <<fixed, watcher, header, resp, ops, logged, outcome, first, failed, loose>>
  BY DEF Recover
<1>2. CASE mode = "call" /\ Pass /\ UNCHANGED err
  BY <1>1, <1>2, PassCore DEF Core, Types, Outer, Middlewares
<1>3. CASE (\E m \in {"return", "abort"} : Pop(m)) /\ UNCHANGED err
  BY <1>1, <1>3, PopCore DEF Core, Types, Pop, Go, Nobody
<1>4. CASE Go(Rest \o <<"respondInternalError", "rendering">>, "call") /\ err' = 500
  <2>1. /\ "respondInternalError" \in Frames \ Outer /\ "rendering" \in Frames \ Outer
        /\ "respondInternalError" \in Callers("rendering")
        /\ Callers("recover") \subseteq Callers("respondInternalError")
    BY DEF Frames, Outer, Middlewares, Renderers, Routes, Callers
  <2>2. WellFormed(stack)' /\ RoutedBelow' /\ stack' # <<>> /\ Top' = "rendering"
    BY <1>1, <1>4, <2>1, PushedTwo DEF Go, fixed, Nobody
  <2> QED  BY <1>1, <1>4, <2>2, TopOf, RendererCore DEF Core, Types, Go, Renderers, Nobody
<1> QED  BY <1>2, <1>3, <1>4 DEF Recover

LEMMA RespondInternalErrorCore ==
  ASSUME Core, RespondInternalError
  PROVE  Core'
<1>1. /\ Top = "respondInternalError" /\ mode \in {"return", "panic", "abort"}
      /\ UNCHANGED <<fixed, watcher, err, ops, logged, outcome, failed, loose>>
      /\ stack' = Rest /\ mode' = IF mode = "panic" THEN "return" ELSE mode
  BY UnwindingModes DEF RespondInternalError, Pop, Go
<1>2. CASE mode = "panic" /\ ~Written
  BY <1>2, FallbackSent
<1>3. CASE ~(mode = "panic" /\ ~Written)
  BY <1>1, <1>3, PopCore DEF Core, Types, RespondInternalError, Nobody
<1> QED  BY <1>2, <1>3

LEMMA HandlerReturnsCore ==
  ASSUME Core, HandlerReturns \/ \E how \in {"panic", "abort"} : HandlerPanics(how)
  PROVE  Core'
BY RaiseTypes, PopCore
   DEF HandlerReturns, HandlerPanics, Running, Handlers, Pop, Go, Core, Types, Nobody

LEMMA HandlerFailsCore ==
  ASSUME Core, NEW s \in ErrorStatuses \cup {404, 405}, HandlerFails(s)
  PROVE  Core'
<1>1. /\ Top \in {"ossein", "notFound"} /\ err' = s /\ failed' \in BOOLEAN /\ mode' = "call"
      /\ UNCHANGED <<fixed, watcher, header, resp, ops, logged, outcome, first, loose>>
      /\ stack' = Append(IF Top = "notFound" THEN Front(Rest) ELSE Rest, "errorHandler")
  BY RaiseTypes DEF HandlerFails, Go
<1>2. WellFormed(stack)' /\ RoutedBelow' /\ stack' # <<>> /\ Top' = "errorHandler"
  <2>1. CASE Top = "notFound"
    BY <1>1, <2>1, MissFails DEF fixed
  <2>2. CASE Top = "ossein"
    <3>1. "errorHandler" \in Frames \ Outer /\ Callers("ossein") \subseteq Callers("errorHandler")
      BY DEF Frames, Outer, Middlewares, Renderers, Routes, Callers
    <3> QED  BY <1>1, <2>2, <3>1, Pushed DEF fixed, Nobody
  <2> QED  BY <1>1, <2>1, <2>2
<1> QED  BY <1>1, <1>2, TopOf, RendererCore DEF Renderers, Nobody

LEMMA RenderCore ==
  ASSUME Core, NEW who \in {"default", "custom"}, Render(who)
  PROVE  Core'
<1>1. Top \in Renderers /\ stack' = Rest /\ mode' \in {"return", "panic"}
      /\ UNCHANGED <<fixed, watcher, err, ops, logged, outcome>>
  BY DEF Render, Rendering, Renderers, Pop, Go
<1>2. CASE Written
  BY <1>1, <1>2, PopCore DEF Render, Pop, Go, Renderers, Nobody, Core, Types
<1>3. CASE ~Written /\ err \notin 100..999
  <2>1. RefusedBy(who)
    BY <1>1, <1>3 DEF Render, Pop, Go, RefusedBy, Typed
  <2> QED  BY <2>1, RefusedCore
<1>4. CASE ~Written /\ err \in 100..999
  <2>1. AnswerSent(err, who)
    BY <1>4 DEF Render, AnswerSent, Authors, Typed
  <2>2. RenderedBy(err, who)
    BY <1>1, <1>4, <2>1 DEF Render, Pop, Go, RenderedBy
  <2> QED  BY <2>2, RenderedCore
<1> QED  BY <1>2, <1>3, <1>4

LEMMA DelegateCore ==
  ASSUME Core, Delegate
  PROVE  Core'
<1>1. /\ Top = "errorHandler" /\ mode = "call"
      /\ stack' = Append(stack, "rendering") /\ mode' = "call"
      /\ UNCHANGED <<fixed, watcher, header, resp, err, ops, logged, outcome, first, failed, loose>>
  BY DEF Delegate, Custom, Rendering, Go
<1>2. "rendering" \in Frames \ Outer /\ Top \in Callers("rendering")
  BY <1>1 DEF Frames, Outer, Middlewares, Renderers, Routes, Callers
<1>3. WellFormed(stack)' /\ RoutedBelow' /\ stack' # <<>> /\ Top' = "rendering"
  BY <1>1, <1>2, Pushed DEF fixed, Nobody
<1> QED  BY <1>1, <1>3, TopOf, RendererCore DEF Core, Control, Types, Renderers, Nobody

LEMMA ErrorHandlerEndsCore ==
  ASSUME Core, Rendered \/ \E how \in {"panic", "abort"} : ErrorHandlerPanics(how)
  PROVE  Core'
<1>1. CASE Rendered
  BY <1>1, UnwindingModes, PopCore DEF Rendered, Pop, Go, Core, Types, Nobody
<1>2. CASE \E how \in {"panic", "abort"} : ErrorHandlerPanics(how)
  BY <1>2, RaiseTypes, PopCore
     DEF ErrorHandlerPanics, Custom, Rendering, Pop, Go, Core, Types, Nobody
<1> QED  BY <1>1, <1>2

LEMMA InitCore ==
  ASSUME Init
  PROVE  Core
<1>1. Inputs
  BY DEF Init, Inputs
<1>2. "requestContext" \in Frames /\ Nobody \in Authors
  BY DEF Frames, Outer, Authors, Middlewares
<1>3. header \in Headers /\ header.type = Nobody
  <2>1. PICK o \in {Nobody, "preset"} :
          header = [type |-> Nobody, origin |-> o, vary |-> FALSE, secure |-> FALSE]
    BY DEF Init
  <2> QED  BY <1>2, <2>1 DEF Headers
<1>4. resp \in Responses
  <2>1. resp = [tracked |-> 0, status |-> 0, by |-> Nobody, body |-> {},
                sent |-> header, astray |-> FALSE]
    BY DEF Init
  <2> QED  BY <1>2, <1>3, <2>1 DEF Responses
<1>5. Types
  <2>1. mode = "call" /\ watcher = [routed |-> FALSE, status |-> 0]
        /\ err = 0 /\ ops = 0 /\ logged = -1 /\ outcome = "open"
        /\ first = Nobody /\ failed = FALSE /\ loose = FALSE
    BY DEF Init
  <2>2. 0 \in 0..MaxOps
    <3>1. MaxOps \in Nat
      BY PipelineAssumption
    <3> QED  BY <3>1
  <2>3. watcher \in [routed : BOOLEAN, status : {0, 404, 405}]
    BY <2>1
  <2>4. failed \in BOOLEAN /\ loose \in BOOLEAN
    BY <2>1, Zenon
  <2>5. err \in Int /\ logged \in Int
    BY <2>1
  <2> QED  BY <1>2, <1>3, <1>4, <2>1, <2>2, <2>3, <2>4, <2>5 DEF Types
<1>6. stack \in Seq(Frames) /\ Len(stack) = 1 /\ stack[1] = "requestContext" /\ Top = "requestContext"
  <2>1. stack = <<"requestContext">>
    BY DEF Init
  <2> QED  BY <1>2, <2>1 DEF Top, Last
<1>7. WellFormed(stack) /\ RoutedBelow
  BY <1>6 DEF WellFormed, RoutedBelow, Middlewares, Outer
<1>8. Control
  BY <1>3, <1>6 DEF Init, Control, Untouched, Renderers, Handlers, Routes
<1>9. Recorded /\ OneAuthor
  BY DEF Init, Recorded, OneAuthor
<1>10. Handling
  BY <1>6 DEF Handling, Handlers
<1> QED  BY <1>1, <1>5, <1>7, <1>8, <1>9, <1>10 DEF Core

LEMMA StepCore ==
  ASSUME Core, [Next]_vars
  PROVE  Core'
<1>1. CASE UNCHANGED vars
  <2>1. UNCHANGED <<request, config, stack, mode, watcher, header, resp, err, ops,
                    logged, outcome, first, failed, loose>>
    BY <1>1 DEF vars
  <2>2. Top' = Top
    BY <2>1 DEF Top
  <2>3. Inputs' /\ Types'
    <3>1. Inputs'
      BY <2>1 DEF Core, Inputs
    <3>2. Types'
      BY <2>1 DEF Core, Types
    <3> QED  BY <3>1, <3>2
  <2>4. WellFormed(stack)' /\ RoutedBelow'
    BY <2>1 DEF Core, WellFormed, RoutedBelow
  <2>5. Control' /\ Recorded' /\ OneAuthor' /\ Handling'
    BY <2>1, <2>2 DEF Core, Control, Untouched, Recorded, OneAuthor, Handling, Trusted, Written
  <2> QED  BY <2>3, <2>4, <2>5 DEF Core
<1>2. CASE RequestContext
  BY <1>2, ContextCore
<1>3. CASE AccessLog \/ SecurityHeaders
  BY <1>3, AccessLogCore, SecurityHeadersCore
<1>4. CASE Cors \/ Auth
  BY <1>4, CorsCore, AuthCore
<1>5. CASE Recover \/ RespondInternalError
  BY <1>5, RecoverCore, RespondInternalErrorCore
<1>6. CASE Match \/ MuxAnswers \/ Dispatched \/ MissServed
  BY <1>6, MatchCore, MuxCore, DispatchedCore, MissServedCore
<1>7. CASE \/ HandlerWrite \/ HandlerFlush \/ HandlerStream
           \/ \E s \in Statuses : HandlerStatus(s) \/ HandlerAnswer(s)
  BY <1>7, HandlerOperatesCore
<1>8. CASE HandlerReturns \/ \E how \in {"panic", "abort"} : HandlerPanics(how)
  BY <1>8, HandlerReturnsCore
<1>9. CASE \E s \in ErrorStatuses \cup {404, 405} : HandlerFails(s)
  BY <1>9, HandlerFailsCore
<1>10. CASE Delegate \/ \E who \in {"default", "custom"} : Render(who)
  BY <1>10, DelegateCore, RenderCore
<1>11. CASE Rendered \/ \E how \in {"panic", "abort"} : ErrorHandlerPanics(how)
  BY <1>11, ErrorHandlerEndsCore
<1> QED
  BY <1>1, <1>2, <1>3, <1>4, <1>5, <1>6, <1>7, <1>8, <1>9, <1>10, <1>11 DEF Next

\* The inductive invariant: whatever the middleware, handlers and error handler do, every
\* frame runs with the tracked response, the header map and the request marks it counts on.
THEOREM CoreHolds == Spec => []Core
<1>1. Init => Core
  BY InitCore
<1>2. Core /\ [Next]_vars => Core'
  BY StepCore
<1> QED  BY <1>1, <1>2, PTL DEF Spec

\* One response has one author (Pipeline.OneAuthor): status, body and
\* Content-Type of an answer are those of whoever wrote first.
THEOREM OneAuthorHolds == Spec => []OneAuthor
<1>1. Core => OneAuthor
  BY DEF Core
<1> QED  BY <1>1, CoreHolds, PTL

\* Every variable keeps its type: a status the client got is one net/http can send.
THEOREM TypeCorrect == Spec => []TypeOK
<1>1. Core => TypeOK
  BY DEF Core, Types, TypeOK, Headers, Responses
<1> QED  BY <1>1, CoreHolds, PTL

\* However deep middleware, error handler and WriteError call one another, the
\* error handler is on the stack at most twice (Pipeline.NoRenderingLoop).
THEOREM NoLoop == Spec => []NoRenderingLoop
<1> DEFINE n == Len(stack)
           R == {i \in DOMAIN stack : stack[i] \in {"errorHandler", "rendering"}}
<1>1. Core => NoRenderingLoop
  <2> SUFFICES ASSUME Core
               PROVE  Cardinality(R) <= 2
    BY DEF NoRenderingLoop
  <2>1. n \in Nat /\ DOMAIN stack = 1..n
    BY DEF Core, WellFormed
  <2>2. R \subseteq {n - 1, n}
    <3> SUFFICES ASSUME NEW i \in R
                 PROVE  i \in {n - 1, n}
      OBVIOUS
    <3>1. i \in 1..n /\ stack[i] \in Renderers
      BY <2>1 DEF Renderers
    <3>2. ~(i < n - 2)
      BY <3>1 DEF Core, WellFormed, Renderers, Outer, Middlewares
    <3>3. i # n - 2
      <4> SUFFICES ASSUME i = n - 2
                   PROVE  FALSE
        OBVIOUS
      <4>1. stack[n - 2] \in Callers(stack[n - 1]) /\ stack[n - 1] \in Callers(stack[n])
        BY <2>1, <3>1 DEF Core, WellFormed
      <4>2. stack[n - 2] \in Renderers
        BY <3>1
      <4>3. stack[n - 1] = "rendering"
        BY <4>1, <4>2 DEF Callers, Renderers, Routes, Outer, Middlewares
      <4> QED  BY <4>1, <4>3 DEF Callers, Routes, Outer, Middlewares
    <3> QED  BY <2>1, <3>1, <3>2, <3>3
  <2>3. IsFiniteSet({n - 1, n}) /\ Cardinality({n - 1, n}) <= 2
    <3>1. IsFiniteSet({n}) /\ Cardinality({n}) = 1
      BY FS_Singleton
    <3>2. /\ IsFiniteSet({n} \cup {n - 1})
          /\ Cardinality({n} \cup {n - 1}) = Cardinality({n}) + 1
      <4> HIDE DEF n
      <4>1. n - 1 \notin {n}
        BY <2>1
      <4>2. \A S, x : IsFiniteSet(S) => /\ IsFiniteSet(S \cup {x})
                                        /\ Cardinality(S \cup {x}) =
                                             IF x \in S THEN Cardinality(S) ELSE Cardinality(S) + 1
        BY FS_AddElement
      <4> QED  BY <3>1, <4>1, <4>2
    <3>3. {n - 1, n} = {n} \cup {n - 1}
      OBVIOUS
    <3> QED  BY <3>1, <3>2, <3>3
  <2>4. /\ Cardinality(R) <= Cardinality({n - 1, n})
        /\ Cardinality(R) \in Nat /\ Cardinality({n - 1, n}) \in Nat
    BY <2>2, <2>3, FS_Subset, FS_CardinalityType
  <2> HIDE DEF R, n
  <2> QED  BY <2>3, <2>4
<1> QED  BY <1>1, CoreHolds, PTL

-----------------------------------------------------------------------------
(* The access log                                                          *)

\* What an unwinding request context leaves.
LEMMA ContextLeaves ==
  ASSUME Core, RequestContext, mode # "call"
  PROVE  /\ stack # <<>> /\ stack' = <<>> /\ mode' = mode /\ mode \in {"return", "panic", "abort"}
         /\ outcome' = IF mode = "return" THEN "sent" ELSE "closed"
         /\ UNCHANGED <<fixed, watcher, header, logged, first, failed, loose>>
         /\ resp'.astray = resp.astray /\ resp'.by = resp.by
         /\ IF mode = "return" /\ resp.status = 0
              THEN resp'.status = 200 /\ resp'.sent = header
              ELSE resp' = resp
<1>1. /\ Top = "requestContext" /\ stack' = Rest /\ mode' = mode
      /\ mode \in {"return", "panic", "abort"}
      /\ outcome' = IF mode = "return" THEN "sent" ELSE "closed"
      /\ UNCHANGED <<fixed, watcher, header, logged, first, failed, loose>>
  BY DEF RequestContext, Pop, Go, Core, Types
<1>2. Top # Nobody /\ stack # <<>>
  BY <1>1, TopOf DEF Nobody
<1>3. stack' = <<>>
  BY <1>1, <1>2, Popped DEF fixed
<1>4. CASE mode = "return" /\ resp.status = 0
  <2>1. resp' = [resp EXCEPT !.status = 200, !.sent = header] /\ resp \in Responses
    BY <1>4 DEF RequestContext, Core, Types
  <2> QED  BY <1>1, <1>2, <1>3, <1>4, <2>1 DEF Responses
<1>5. CASE ~(mode = "return" /\ resp.status = 0)
  BY <1>1, <1>2, <1>3, <1>5 DEF RequestContext
<1> QED  BY <1>4, <1>5

\* The outermost access log stands on the request context.
LEMMA OutermostLog ==
  ASSUME Core, Top = "accessLog", config.chain[1] = "accessLog"
  PROVE  Len(stack) = 2
<1>1. stack # <<>> /\ stack[Len(stack)] = "accessLog" /\ Len(stack) \in Nat /\ Len(stack) >= 1
  BY TopOf, FrontOf DEF Core, WellFormed, Nobody
<1>2. Len(stack) - 1 \in 1..Len(config.chain) /\ config.chain[Len(stack) - 1] = "accessLog"
  BY <1>1 DEF Core, WellFormed, Middlewares
<1>3. config.chain \in Seq(Middlewares) /\ IsInjective(config.chain)
  BY ChainOf
<1>4. DOMAIN config.chain = 1..Len(config.chain) /\ Len(config.chain) \in Nat
  BY <1>3
<1>5. \A i, j \in 1..Len(config.chain) : config.chain[i] = config.chain[j] => i = j
  BY <1>3, <1>4 DEF IsInjective
<1>6. 1 \in 1..Len(config.chain)
  BY <1>2, <1>4
<1>7. Len(stack) - 1 = 1
  BY <1>2, <1>5, <1>6
<1> QED  BY <1>1, <1>7

LEMMA AccessLogLogs ==
  ASSUME Core, Logged, AccessLog
  PROVE  Logged'
<1>1. /\ Top = "accessLog"
      /\ UNCHANGED <<config, resp, outcome>>
  BY DEF AccessLog, fixed
<1>2. CASE mode = "call" /\ UNCHANGED logged
  BY <1>1, <1>2 DEF Logged
<1>3. CASE /\ Unwinding /\ Pop(mode)
           /\ logged' = IF request.skipped THEN logged
                        ELSE IF Written THEN resp.tracked ELSE 200
  <2> SUFFICES ASSUME logged' # -1, config.chain[1] = "accessLog"
               PROVE  /\ Len(stack') <= 1 /\ mode' # "call"
                      /\ Trusted' /\ stack' # <<>> =>
                           logged' = IF resp'.status = 0 THEN 200 ELSE resp'.status
                      /\ Trusted' /\ outcome' = "sent" => logged' = resp'.status
    BY <1>1 DEF Logged
  <2>1. Len(stack) = 2
    BY <1>1, OutermostLog
  <2>2. stack # <<>> /\ outcome = "open" /\ stack \in Seq(Frames)
    BY <1>1, TopOf DEF Core, Control, WellFormed, Nobody
  <2>3. Len(stack') = 1 /\ mode' # "call"
    <3>1. Len(Rest) = Len(stack) - 1
      BY <2>2, FrontOf DEF Rest
    <3> QED  BY <1>3, <2>1, <3>1 DEF Pop, Go, Unwinding
  <2>4. logged' = IF Written THEN resp.tracked ELSE 200
    BY <1>3, <2>1 DEF Logged
  <2>5. Trusted => resp.tracked = resp.status
    BY <1>1, RecordOf DEF Nobody
  <2> QED  BY <1>1, <2>2, <2>3, <2>4, <2>5 DEF Trusted, Written
<1> QED  BY <1>2, <1>3 DEF AccessLog

\* Nothing but the request context is left to run once the outermost log is written.
LEMMA LoggedStep ==
  ASSUME Core, Logged, [Next]_vars
  PROVE  Logged'
<1>1. CASE UNCHANGED vars
  BY <1>1 DEF vars, Logged, Trusted
<1>2. CASE AccessLog
  BY <1>2, AccessLogLogs
<1>3. CASE RequestContext
  <2>1. UNCHANGED <<config, logged>>
    BY <1>3 DEF RequestContext, fixed
  <2>2. CASE mode = "call"
    BY <2>1, <2>2 DEF Logged
  <2>3. CASE mode # "call"
    <3>1. Len(stack') = 0
      BY <1>3, <2>3, ContextLeaves
    <3> QED  BY <1>3, <2>1, <2>3, <3>1, ContextLeaves DEF Logged, Trusted
  <2> QED  BY <2>2, <2>3
<1>4. CASE Next /\ ~AccessLog /\ ~RequestContext
  <2>1. logged' = logged /\ Top \notin {Nobody, "requestContext"} /\ UNCHANGED config
    <3>1. CASE SecurityHeaders \/ Cors \/ Auth \/ Recover \/ RespondInternalError
      BY <3>1 DEF SecurityHeaders, Cors, Auth, Recover, RespondInternalError, fixed, Nobody
    <3>2. CASE Match \/ MuxAnswers \/ Dispatched \/ MissServed
      BY <3>2 DEF Match, MuxAnswers, Dispatched, MissServed, fixed, Nobody
    <3>3. CASE \/ HandlerWrite \/ HandlerFlush \/ HandlerStream \/ HandlerReturns
               \/ \E s \in Statuses : HandlerStatus(s) \/ HandlerAnswer(s)
      BY <3>3 DEF HandlerWrite, HandlerFlush, HandlerStream, HandlerReturns, HandlerStatus,
                  HandlerAnswer, Operate, Running, Handlers, fixed, Nobody
    <3>4. CASE \/ \E s \in ErrorStatuses \cup {404, 405} : HandlerFails(s)
               \/ \E how \in {"panic", "abort"} : HandlerPanics(how)
      BY <3>4 DEF HandlerFails, HandlerPanics, Running, Handlers, fixed, Nobody
    <3>5. CASE \/ Delegate \/ Rendered
               \/ \E how \in {"panic", "abort"} : ErrorHandlerPanics(how)
               \/ \E who \in {"default", "custom"} : Render(who)
      BY <3>5
      DEF Delegate, Rendered, ErrorHandlerPanics, Render, Custom, Rendering, fixed, Nobody
    <3> QED  BY <1>4, <3>1, <3>2, <3>3, <3>4, <3>5 DEF Next
  <2>2. Len(stack) > 1
    <3>1. stack # <<>> /\ Top = stack[Len(stack)] /\ Len(stack) \in 1..Len(stack)
      BY <2>1, TopOf, FrontOf DEF Core, WellFormed
    <3>2. Len(stack) # 1
      BY <2>1, <3>1 DEF Core, WellFormed
    <3> QED  BY <3>1, <3>2
  <2> QED  BY <2>1, <2>2 DEF Logged
<1> QED  BY <1>1, <1>2, <1>3, <1>4

\* The outermost access log names the status the client got (Pipeline.LogMatchesAnswer).
THEOREM LogIsTrue == Spec => []LogMatchesAnswer
<1>1. Init => Logged
  BY DEF Init, Logged
<1>2. Core /\ Logged /\ [Next]_vars => Logged'
  BY LoggedStep
<1>3. Logged => LogMatchesAnswer
  BY DEF Logged, LogMatchesAnswer
<1> QED  BY <1>1, <1>2, <1>3, CoreHolds, PTL DEF Spec

-----------------------------------------------------------------------------
(* Panics                                                                  *)

\* A frame that does not recover leaves the ones that do.
LEMMA ProtectedBelow ==
  ASSUME Core, Top \notin {Nobody, "recover", "respondInternalError"}, stack' = Rest
  PROVE  Protected' <=> Protected
<1>1. stack # <<>> /\ Top = stack[Len(stack)] /\ stack \in Seq(Frames) /\ Len(stack) \in Nat
  BY TopOf DEF Core, WellFormed
<1>2. /\ Len(Rest) = Len(stack) - 1 /\ Len(stack) >= 1 /\ Rest \in Seq(Frames)
      /\ \A i \in 1..(Len(stack) - 1) : Rest[i] = stack[i]
  BY <1>1, FrontOf DEF Rest
<1>3. DOMAIN stack = 1..Len(stack) /\ DOMAIN Rest = 1..(Len(stack) - 1)
  BY <1>1, <1>2
<1>4. Protected <=> \E i \in 1..Len(stack) : stack[i] \in {"recover", "respondInternalError"}
  BY <1>3 DEF Protected
<1>5. Protected' <=> \E i \in 1..(Len(stack) - 1) : Rest[i] \in {"recover", "respondInternalError"}
  BY <1>3 DEF Protected
<1>6. \A i \in 1..Len(stack) : i \in 1..(Len(stack) - 1) \/ i = Len(stack)
  BY <1>1
<1>7. \A i \in 1..(Len(stack) - 1) : i \in 1..Len(stack)
  BY <1>1
<1> QED  BY <1>1, <1>2, <1>4, <1>5, <1>6, <1>7

\* Control goes on by a call or a return, and the connection is left open.
LEMMA NoPanic ==
  ASSUME Panics, mode' \in {"call", "return"}, outcome' = outcome, loose => loose'
  PROVE  Panics'
BY DEF Panics

\* A panic passes a frame that does not recover, or begins there.
LEMMA PanicPasses ==
  ASSUME Core, Panics, Top \notin {Nobody, "recover", "respondInternalError"},
         stack' = Rest, outcome' = outcome,
         \/ mode' = mode /\ loose' = loose
         \/ \E how \in {"panic", "abort"} : mode' = how /\ Raise(how)
  PROVE  Panics'
<1>1. Protected' <=> Protected
  BY ProtectedBelow
<1>2. CASE mode' = mode /\ loose' = loose
  BY <1>1, <1>2 DEF Panics
<1>3. CASE \E how \in {"panic", "abort"} : mode' = how /\ Raise(how)
  BY <1>1, <1>3 DEF Panics, Raise
<1> QED  BY <1>2, <1>3

LEMMA PanicsStep ==
  ASSUME Core, Panics, [Next]_vars
  PROVE  Panics'
<1>1. CASE UNCHANGED vars
  BY <1>1 DEF vars, Panics, Protected
<1>2. CASE RequestContext
  <2>1. CASE mode = "call"
    BY <1>2, <2>1, NoPanic DEF RequestContext, Pass, Go
  <2>2. CASE mode # "call"
    <3>1. mode = "panic" => ~Protected
      <4>1. stack # <<>> /\ Rest = <<>> /\ Top = "requestContext"
        BY <1>2, <2>2, ContextLeaves DEF RequestContext, Pop, Go
      <4>2. Len(stack) = 1 /\ stack[1] = "requestContext" /\ DOMAIN stack = 1..1
        <5>1. /\ stack \in Seq(Frames) /\ stack[Len(stack)] = "requestContext"
              /\ Len(stack) \in 1..Len(stack)
          BY <4>1, TopOf, FrontOf DEF Core, WellFormed
        <5>2. Len(stack) = 1
          BY <5>1 DEF Core, WellFormed
        <5> QED  BY <5>1, <5>2
      <4>3. \A i \in DOMAIN stack : stack[i] = "requestContext"
        BY <4>2
      <4> QED  BY <4>3 DEF Protected
    <3>2. outcome' = (IF mode = "return" THEN "sent" ELSE "closed") /\ mode' = mode
          /\ loose' = loose /\ mode \in {"return", "panic", "abort"}
      BY <1>2, <2>2, ContextLeaves
    <3> QED  BY <3>1, <3>2 DEF Panics
  <2> QED  BY <2>1, <2>2
<1>3. CASE AccessLog \/ SecurityHeaders
  <2>1. /\ Top \in {"accessLog", "security"} /\ UNCHANGED <<outcome, loose>>
        /\ Pass \/ Pop(mode)
    BY <1>3 DEF AccessLog, SecurityHeaders
  <2> QED  BY <2>1, NoPanic, PanicPasses DEF Pass, Pop, Go, Nobody
<1>4. CASE Cors
  <2>1. /\ Top = "cors" /\ UNCHANGED <<outcome, loose>>
        /\ Pass \/ Pop("return") \/ Pop(mode)
    BY <1>4 DEF Cors
  <2> QED  BY <2>1, NoPanic, PanicPasses DEF Pass, Pop, Go, Nobody
<1>5. CASE Auth
  <2>1. /\ Top = "auth" /\ UNCHANGED outcome
        /\ \/ Pass /\ UNCHANGED loose
           \/ Go(Append(Rest, "rendering"), "call") /\ UNCHANGED loose
           \/ Raise("panic") /\ Pop("panic")
           \/ Pop(mode) /\ UNCHANGED loose
    BY <1>5 DEF Auth
  <2> QED  BY <2>1, NoPanic, PanicPasses DEF Pass, Pop, Go, Nobody
<1>6. CASE Recover
  <2>1. /\ UNCHANGED <<outcome, loose>>
        /\ mode' \in {"call", "return"} \/ (mode' = "abort" /\ mode = "abort")
    BY <1>6 DEF Recover, Pass, Pop, Go
  <2> QED  BY <2>1 DEF Panics
<1>7. CASE RespondInternalError
  <2>1. /\ UNCHANGED <<outcome, loose>>
        /\ mode' = "return" \/ (mode' = "abort" /\ mode = "abort")
    BY <1>7, UnwindingModes DEF RespondInternalError, Pop, Go
  <2> QED  BY <2>1 DEF Panics
<1>8. CASE Match \/ MuxAnswers
  BY <1>8, NoPanic DEF Match, MuxAnswers, Go
<1>9. CASE Dispatched \/ MissServed
  <2>1. /\ Top \in {"dispatch", "serveMiss"} /\ UNCHANGED <<outcome, loose>>
        /\ mode' = "call" \/ Pop(mode)
    BY <1>9 DEF Dispatched, MissServed, Go
  <2> QED  BY <2>1, NoPanic, PanicPasses DEF Pop, Go, Nobody
<1>10. CASE \/ HandlerWrite \/ HandlerFlush \/ HandlerStream \/ HandlerReturns
            \/ \E s \in Statuses : HandlerStatus(s) \/ HandlerAnswer(s)
  <2>1. UNCHANGED <<outcome, loose>> /\ mode' \in {"call", "return"}
    BY <1>10 DEF HandlerWrite, HandlerFlush, HandlerStream, HandlerReturns, HandlerStatus,
                 HandlerAnswer, Operate, Running, Pop, Go
  <2> QED  BY <2>1, NoPanic
<1>11. CASE \E s \in ErrorStatuses \cup {404, 405} : HandlerFails(s)
  BY <1>11, NoPanic DEF HandlerFails, Go
<1>12. CASE \E how \in {"panic", "abort"} : HandlerPanics(how) \/ ErrorHandlerPanics(how)
  <2>1. /\ Top \in Handlers \cup Renderers /\ UNCHANGED outcome
        /\ \E how \in {"panic", "abort"} : Raise(how) /\ Pop(how)
    BY <1>12 DEF HandlerPanics, ErrorHandlerPanics, Running, Custom, Rendering, Renderers
  <2> QED  BY <2>1, PanicPasses DEF Pop, Go, Nobody, Handlers, Renderers
<1>13. CASE Delegate
  BY <1>13, NoPanic DEF Delegate, Go
<1>14. CASE Rendered
  <2>1. Top \in Renderers /\ UNCHANGED <<outcome, loose>> /\ Pop(mode)
    BY <1>14 DEF Rendered, Renderers
  <2> QED  BY <2>1, PanicPasses DEF Pop, Go, Nobody, Renderers
<1>15. CASE \E who \in {"default", "custom"} : Render(who)
  <2>1. /\ Top \in Renderers /\ UNCHANGED outcome
        /\ \/ Pop("return") /\ UNCHANGED loose
           \/ Raise("panic") /\ Pop("panic")
    BY <1>15 DEF Render, Rendering, Renderers
  <2> QED  BY <2>1, NoPanic, PanicPasses DEF Pop, Go, Nobody, Renderers
<1> QED
  BY <1>1, <1>2, <1>3, <1>4, <1>5, <1>6, <1>7, <1>8, <1>9, <1>10, <1>11, <1>12, <1>13,
     <1>14, <1>15 DEF Next

LEMMA PanicsHold == Spec => []Panics
<1>1. Init => Panics
  BY DEF Init, Panics
<1>2. Core /\ Panics /\ [Next]_vars => Panics'
  BY PanicsStep
<1> QED  BY <1>1, <1>2, CoreHolds, PTL DEF Spec

-----------------------------------------------------------------------------
(* Failures and misses                                                     *)

\* The frame on top has returned to the one below.
Returning == mode = "return"

\* Whoever is called has no failure behind it, or is there to answer it.
LEMMA PendingUnlessReturning ==
  ASSUME Core, ~Returning
  PROVE  Pending
<1> SUFFICES ASSUME stack # <<>>, failed \/ watcher.status # 0, mode = "call"
             PROVE  \/ Top \in Renderers
                    \/ ~failed /\ Top \in {"dispatch", "serveMiss", "notFound"}
  BY DEF Pending, Core, Types, Returning
<1>1. Top \in Frames
  BY TopOf
<1>2. Top \notin Outer \cup {"dispatch"}
  BY DEF Core, Control, Untouched
<1>3. Top \notin Routes
  BY DEF Core, Control, Handling, Handlers, Routes
<1>4. Top = "notFound" => ~failed
  BY DEF Core, Handling, Handlers
<1> QED  BY <1>1, <1>2, <1>3, <1>4 DEF Frames, Core, Control

\* What a step that writes nothing may do to the record of failures.
Unwritten ==
  /\ resp'.status = resp.status /\ (Trusted' => Trusted) /\ outcome' = outcome
  /\ Fail \/ failed' = failed

\* What a step that answers does.
Answered ==
  /\ Trusted' => resp'.status # 0
  /\ Trusted' /\ failed => resp'.status >= 400
  /\ outcome' = outcome /\ failed' = failed

LEMMA FailuresKept ==
  ASSUME Core, Failures, Top # Nobody, Unwritten \/ Answered
  PROVE  Failures'
<1>1. outcome = "open" /\ outcome' = outcome
  BY TopOf DEF Core, Control, Unwritten, Answered
<1>2. CASE Unwritten
  <2>1. failed' /\ resp'.status # 0 => failed /\ resp.status # 0
    BY <1>2 DEF Unwritten, Fail
  <2>2. Trusted' => Trusted /\ resp'.status = resp.status
    BY <1>2 DEF Unwritten
  <2> QED  BY <1>1, <2>1, <2>2 DEF Failures
<1>3. CASE Answered
  BY <1>1, <1>3 DEF Failures, Answered
<1> QED  BY <1>2, <1>3

\* A frame returns: the response is written, or nothing was pending.
LEMMA ReturnKeepsPending ==
  ASSUME Core, Pending, Top # Nobody, mode' = "return",
         \/ Trusted' => resp'.status # 0
         \/ mode = "return" /\ Top \notin {"dispatch", "serveMiss"}
              /\ UNCHANGED <<resp, failed, watcher>>
         \/ ~failed' /\ watcher'.status = 0
         \/ ~failed' /\ Top' \in {"dispatch", "serveMiss"}
  PROVE  Pending'
<1>1. stack # <<>>
  BY TopOf
<1>2. CASE mode = "return" /\ Top \notin {"dispatch", "serveMiss"}
             /\ UNCHANGED <<resp, failed, watcher>>
  <2>1. Top # "notFound"
    BY <1>2 DEF Core, Control, Handlers
  <2> QED  BY <1>1, <1>2, <2>1 DEF Pending, Trusted
<1>3. CASE Trusted' => resp'.status # 0
  BY <1>3 DEF Pending
<1>4. CASE ~failed' /\ (watcher'.status = 0 \/ Top' \in {"dispatch", "serveMiss"})
  BY <1>4 DEF Pending
<1> QED  BY <1>2, <1>3, <1>4

LEMMA WrittenStatus ==
  ASSUME Core, Top # Nobody, Trusted
  PROVE  Written <=> resp.status # 0
BY RecordOf DEF Written

\* A middleware that writes nothing and does not fail.
LEMMA OuterFailures ==
  ASSUME Core, Pending, Failures, Top \in Outer \cup Renderers \cup {"respondInternalError"},
         UNCHANGED <<resp, outcome, watcher>>,
         \/ mode' # "return" /\ (Fail \/ failed' = failed)
         \/ failed' = failed /\ (mode = "return" \/ Written)
  PROVE  Failures' /\ (Returning' => Pending')
<1>1. Top # Nobody /\ Top \notin {"dispatch", "serveMiss"}
  BY DEF Outer, Middlewares, Renderers, Nobody
<1>2. Failures'
  BY <1>1, FailuresKept DEF Unwritten, Trusted
<1>3. CASE mode' # "return"
  BY <1>2, <1>3 DEF Returning
<1>4. CASE mode' = "return" /\ failed' = failed /\ (mode = "return" \/ Written)
  <2>1. Written => (Trusted' => resp'.status # 0)
    BY <1>1, WrittenStatus DEF Trusted
  <2> QED  BY <1>1, <1>2, <1>4, <2>1, ReturnKeepsPending
<1> QED  BY <1>2, <1>3, <1>4

LEMMA ContextFailures ==
  ASSUME Core, Pending, Failures, RequestContext
  PROVE  Failures' /\ (Returning' => Pending')
<1>1. CASE mode = "call"
  <2>1. UNCHANGED <<resp, outcome, failed, watcher>> /\ mode' = "call" /\ Top = "requestContext"
    BY <1>1 DEF RequestContext, Pass, Go
  <2> QED  BY <2>1, OuterFailures DEF Outer
<1>2. CASE mode # "call"
  <2>1. /\ stack # <<>> /\ stack' = <<>>
        /\ outcome' = "sent" => mode = "return"
        /\ UNCHANGED <<watcher, first, failed>> /\ (Trusted' <=> Trusted)
        /\ IF mode = "return" /\ resp.status = 0 THEN resp'.status = 200 ELSE resp' = resp
    BY <1>2, ContextLeaves DEF Trusted
  <2>2. Top = "requestContext" /\ Top # Nobody
    BY DEF RequestContext, Nobody
  <2>3. Trusted /\ mode = "return" /\ resp.status = 0 => ~failed /\ watcher.status = 0
    BY <2>1, <2>2 DEF Pending, Renderers
  <2>4. Trusted => (first = Nobody <=> resp.status = 0)
    BY <2>2, RecordOf
  <2>5. Failures'
    BY <2>1, <2>3, <2>4 DEF Failures, Miss
  <2>6. Pending'
    BY <2>1 DEF Pending
  <2> QED  BY <2>5, <2>6
<1> QED  BY <1>1, <1>2

LEMMA MiddlewareFailures ==
  ASSUME Core, Pending, Failures, AccessLog \/ SecurityHeaders \/ Cors \/ Auth \/ Recover
  PROVE  Failures' /\ (Returning' => Pending')
<1>1. CASE AccessLog \/ SecurityHeaders
  <2>1. /\ Top \in {"accessLog", "security"} /\ UNCHANGED <<resp, outcome, watcher, failed>>
        /\ mode' = "call" \/ mode' = mode
    BY <1>1 DEF AccessLog, SecurityHeaders, Pass, Pop, Go
  <2> QED  BY <2>1, OuterFailures DEF Outer, Middlewares
<1>2. CASE Cors
  <2>1. CASE UNCHANGED resp /\ (Pass \/ Pop(mode))
    <3>1. /\ Top = "cors" /\ UNCHANGED <<resp, outcome, watcher, failed>>
          /\ mode' = "call" \/ mode' = mode
      BY <1>2, <2>1 DEF Cors, Pass, Pop, Go
    <3> QED  BY <3>1, OuterFailures DEF Outer, Middlewares
  <2>2. CASE /\ mode = "call" /\ \E method \in BOOLEAN : header' = Granted(Allows /\ method)
             /\ resp' = SendHeader(resp, header', 204, "cors") /\ Claim("cors") /\ Pop("return")
    <3>1. Top = "cors" /\ UNCHANGED <<fixed, watcher, err, ops, logged, outcome, failed, loose>>
      BY <1>2 DEF Cors
    <3>2. header' \in Headers /\ header'.type = header.type
      BY <2>2, GrantedHeader
    <3>3. HeaderOnly(resp, resp', header', 204, "cors")
      BY <2>2, <3>1, <3>2, PreflightCore DEF Pop, Go
    <3>4. Trusted' => resp'.status # 0
      BY <3>3 DEF HeaderOnly, Announced, Wrote, Trusted
    <3>5. ~failed
      BY <2>2, <3>1 DEF Core, Control, Untouched, Outer, Middlewares
    <3>6. Failures'
      BY <3>1, <3>4, <3>5, FailuresKept DEF Answered, Nobody
    <3> QED  BY <3>1, <3>4, <3>6, ReturnKeepsPending DEF Nobody, Returning
  <2> QED  BY <1>2, <2>1, <2>2 DEF Cors
<1>3. CASE Auth
  <2>1. /\ Top = "auth" /\ UNCHANGED <<resp, outcome, watcher>>
        /\ \/ mode' \in {"call", "panic"} /\ (Fail \/ failed' = failed)
           \/ mode' = mode /\ failed' = failed
    BY <1>3 DEF Auth, Pass, Pop, Go, Raise
  <2> QED  BY <2>1, OuterFailures DEF Outer, Middlewares
<1>4. CASE Recover
  <2>1. /\ Top = "recover" /\ UNCHANGED <<resp, outcome, watcher, failed>>
        /\ mode' \in {"call", "abort"} \/ mode' = mode \/ (mode' = "return" /\ Written)
    BY <1>4 DEF Recover, Pass, Pop, Go
  <2> QED  BY <2>1, OuterFailures DEF Outer, Middlewares
<1> QED  BY <1>1, <1>2, <1>3, <1>4

LEMMA RespondFailures ==
  ASSUME Core, Pending, Failures, RespondInternalError
  PROVE  Failures' /\ (Returning' => Pending')
<1>1. /\ Top = "respondInternalError" /\ mode \in {"return", "panic", "abort"}
      /\ UNCHANGED <<fixed, watcher, err, ops, logged, outcome, failed, loose>>
      /\ stack' = Rest /\ mode' = IF mode = "panic" THEN "return" ELSE mode
  BY UnwindingModes DEF RespondInternalError, Pop, Go
<1>2. CASE mode = "panic" /\ ~Written
  <2>2. Trusted' => resp'.status = 500
    BY <1>2, FallbackSent
  <2>3. Failures'
    BY <1>1, <2>2, FailuresKept DEF Answered, Nobody
  <2> QED  BY <1>1, <1>2, <2>2, <2>3, ReturnKeepsPending DEF Nobody, Returning
<1>3. CASE ~(mode = "panic" /\ ~Written)
  <2>1. UNCHANGED resp
    BY <1>3 DEF RespondInternalError
  <2> QED  BY <1>1, <1>3, <2>1, OuterFailures
<1> QED  BY <1>2, <1>3

LEMMA DispatchFailures ==
  ASSUME Core, Pending, Failures, Match \/ MuxAnswers \/ Dispatched \/ MissServed
  PROVE  Failures' /\ (Returning' => Pending')
<1>1. CASE Match
  <2>1. Top = "dispatch" /\ UNCHANGED <<resp, outcome, failed>> /\ mode' = "call"
    BY <1>1 DEF Match, Go
  <2> QED  BY <2>1, FailuresKept DEF Unwritten, Trusted, Nobody, Returning
<1>2. CASE MuxAnswers
  <2>1. /\ Top = "dispatch" /\ mode = "call" /\ stack' = stack /\ mode' = "return"
        /\ UNCHANGED <<outcome, failed>>
        /\ UNCHANGED resp \/ Announced(resp, resp', header', 301, "mux")
    BY <1>2, MuxCore
  <2>2. ~failed
    BY <2>1 DEF Core, Control, Untouched
  <2>3. Failures'
    <3>1. CASE UNCHANGED resp
      BY <2>1, <3>1, FailuresKept DEF Unwritten, Trusted, Nobody
    <3>2. CASE Announced(resp, resp', header', 301, "mux")
      BY <2>1, <2>2, <3>2, FailuresKept DEF Answered, Announced, Wrote, Trusted, Nobody
    <3> QED  BY <2>1, <3>1, <3>2
  <2>4. ~failed' /\ Top' = "dispatch"
    BY <2>1, <2>2 DEF Top
  <2> QED  BY <2>1, <2>3, <2>4, ReturnKeepsPending DEF Nobody
<1>3. CASE Dispatched
  <2>1. /\ Top = "dispatch" /\ UNCHANGED <<resp, outcome, failed, watcher>>
        /\ mode' = "call" \/ (mode' = mode /\ (mode = "return" => watcher.status = 0))
    BY <1>3 DEF Dispatched, Pop, Go
  <2>2. Failures'
    BY <2>1, FailuresKept DEF Unwritten, Trusted, Nobody
  <2>3. ASSUME mode' = "return" PROVE Pending'
    <3>1. mode = "return" /\ watcher.status = 0
      BY <2>1, <2>3
    <3>2. Trusted /\ resp.status = 0 => ~failed
      BY <2>1, <3>1, TopOf DEF Pending, Renderers, Nobody
    <3>3. Pending'
      BY <2>1, <3>1, <3>2 DEF Pending, Trusted
    <3> QED  BY <3>3
  <2> QED  BY <2>2, <2>3 DEF Returning
<1>4. CASE MissServed
  <2>1. /\ Top = "serveMiss" /\ UNCHANGED <<outcome, failed, watcher>> /\ mode' = mode
    BY <1>4 DEF MissServed, Pop, Go
  <2>2. CASE UNCHANGED <<resp, first>> /\ (mode = "return" => Written)
    <3>1. Failures'
      BY <2>1, <2>2, FailuresKept DEF Unwritten, Trusted, Nobody
    <3>2. mode = "return" => (Trusted' => resp'.status # 0)
      BY <2>1, <2>2, WrittenStatus DEF Trusted, Nobody
    <3> QED  BY <2>1, <3>1, <3>2, ReturnKeepsPending DEF Nobody, Returning
  <2>3. CASE Announced(resp, resp', header, watcher.status, "serveMiss") /\ mode = "return"
    <3>1. ~failed
      BY <2>1, <2>3 DEF Core, Handling
    <3>2. Trusted' => resp'.status # 0
      BY <2>3 DEF Announced, Wrote, Trusted
    <3>3. Failures'
      BY <2>1, <3>1, <3>2, FailuresKept DEF Answered, Nobody
    <3> QED  BY <2>1, <2>3, <3>2, <3>3, ReturnKeepsPending DEF Nobody
  <2> QED  BY <1>4, <2>2, <2>3, MissServedCore
<1> QED  BY <1>1, <1>2, <1>3, <1>4

LEMMA HandlerFailures ==
  ASSUME Core, Pending, Failures,
         \/ HandlerWrite \/ HandlerFlush \/ HandlerStream \/ HandlerReturns
         \/ \E s \in Statuses : HandlerStatus(s) \/ HandlerAnswer(s)
         \/ \E s \in ErrorStatuses \cup {404, 405} : HandlerFails(s)
         \/ \E how \in {"panic", "abort"} : HandlerPanics(how)
  PROVE  Failures' /\ (Returning' => Pending')
<1>1. CASE \/ HandlerWrite \/ HandlerFlush \/ HandlerStream
           \/ \E s \in Statuses : HandlerStatus(s) \/ HandlerAnswer(s)
  <2>1. /\ Top \in Handlers
        /\ UNCHANGED resp \/ \E h \in Headers : Wrote(resp, resp', h, Top)
    BY <1>1, HandlerOperatesCore
  <2>2. UNCHANGED <<outcome, failed, mode>>
    BY <1>1 DEF HandlerWrite, HandlerFlush, HandlerStream, HandlerStatus, HandlerAnswer
  <2>3. ~failed /\ mode = "call" /\ Top # Nobody
    BY <2>1 DEF Core, Handling, Control, Handlers, Nobody
  <2>4. CASE UNCHANGED resp
    BY <2>2, <2>3, <2>4, FailuresKept DEF Unwritten, Trusted, Returning
  <2>5. CASE \E h \in Headers : Wrote(resp, resp', h, Top)
    BY <2>2, <2>3, <2>5, FailuresKept DEF Answered, Wrote, Trusted, Returning
  <2> QED  BY <2>1, <2>4, <2>5
<1>2. CASE HandlerReturns
  <2>1. Top \in Handlers /\ Pop("return") /\ UNCHANGED <<resp, outcome, failed, watcher, config>>
    BY <1>2 DEF HandlerReturns, Running, fixed
  <2>2. ~failed /\ Top # Nobody
    BY <2>1 DEF Core, Handling, Handlers, Nobody
  <2>3. Failures'
    BY <2>1, <2>2, FailuresKept DEF Unwritten, Trusted
  <2>4. CASE Top \in Routes
    BY <2>1, <2>2, <2>3, <2>4, ReturnKeepsPending DEF Pop, Go, Core, Control
  <2>5. CASE Top = "notFound"
    <3>1. Top' = "serveMiss"
      BY <2>1, <2>2, <2>5, Popped DEF Pop, Go, Callers, Routes
    <3> QED  BY <2>1, <2>2, <2>3, <3>1, ReturnKeepsPending DEF Pop, Go
  <2> QED  BY <2>1, <2>4, <2>5 DEF Handlers, Routes
<1>3. CASE \/ \E s \in ErrorStatuses \cup {404, 405} : HandlerFails(s)
           \/ \E how \in {"panic", "abort"} : HandlerPanics(how)
  <2>1. /\ Top \in Handlers /\ UNCHANGED <<resp, outcome>> /\ mode' \in {"call", "panic", "abort"}
        /\ Fail \/ failed' = failed
    BY <1>3 DEF HandlerFails, HandlerPanics, Running, Handlers, Raise, Pop, Go
  <2>2. Top # Nobody
    BY <2>1 DEF Handlers, Nobody
  <2> QED  BY <2>1, <2>2, FailuresKept DEF Unwritten, Trusted, Returning
<1> QED  BY <1>1, <1>2, <1>3

LEMMA StatusOf ==
  ASSUME NEW r \in Responses
  PROVE  r.status \in {0, 101} \cup 200..999
BY DEF Responses

\* An error's status, once it is accepted, is one of failure.
LEMMA FinalErrors ==
  ASSUME Core, Core', ErrorsFail, Top \in Renderers, mode = "call", err \in 100..999,
         Trusted' => resp'.status = err
  PROVE  Trusted' => resp'.status >= 400
<1>1. err \in ErrorStatuses \cup {401, 404, 405, 500}
  BY DEF Core, Control
<1>2. resp'.status \in {0, 101} \cup 200..999
  <2>1. resp' \in Responses
    BY DEF Core, Types
  <2> QED  BY <2>1, StatusOf
<1>3. err \in ErrorStatuses => err \notin {101} \cup 200..399
  BY DEF ErrorsFail
<1>4. err \notin {101} \cup 200..399
  BY <1>1, <1>3
<1> QED  BY <1>2, <1>4

LEMMA RendererFailures ==
  ASSUME Core, Core', Pending, Failures, ErrorsFail,
         \/ Delegate \/ Rendered
         \/ \E how \in {"panic", "abort"} : ErrorHandlerPanics(how)
         \/ \E who \in {"default", "custom"} : Render(who)
  PROVE  Failures' /\ (Returning' => Pending')
<1>1. CASE Delegate \/ Rendered
  <2>1. /\ Top \in Renderers /\ UNCHANGED <<resp, outcome, failed, watcher>>
        /\ mode' = "call" \/ mode' = mode
    BY <1>1 DEF Delegate, Custom, Rendering, Rendered, Renderers, Pop, Go
  <2> QED  BY <2>1, OuterFailures
<1>2. CASE \E how \in {"panic", "abort"} : ErrorHandlerPanics(how)
  <2>1. /\ Top \in Renderers /\ UNCHANGED <<resp, outcome, watcher>>
        /\ mode' \in {"panic", "abort"} /\ (Fail \/ failed' = failed)
    BY <1>2 DEF ErrorHandlerPanics, Custom, Rendering, Renderers, Raise, Pop, Go
  <2> QED  BY <2>1, OuterFailures
<1>3. ASSUME NEW who \in {"default", "custom"}, Render(who)
      PROVE  Failures' /\ (Returning' => Pending')
  <2>1. Top \in Renderers /\ mode = "call" /\ UNCHANGED <<fixed, watcher, err, ops, logged, outcome>>
        /\ stack' = Rest /\ Top # Nobody
    BY <1>3 DEF Render, Rendering, Renderers, Nobody, Pop, Go
  <2>2. CASE Written
    BY <1>3, <2>1, <2>2, OuterFailures DEF Render, Pop, Go
  <2>3. CASE ~Written /\ err \notin 100..999
    <3>1. Raise("panic") /\ mode' = "panic"
      BY <1>3, <2>3 DEF Render, Pop, Go
    <3>4. RefusedBy(who)
      BY <1>3, <2>1, <2>3, <3>1 DEF Render, RefusedBy, Typed
    <3>2. resp'.status = resp.status /\ (Trusted' => Trusted)
      BY <3>4, RefusedCore
    <3>3. Fail
      BY <3>1 DEF Raise
    <3> QED  BY <2>1, <3>1, <3>2, <3>3, FailuresKept DEF Unwritten, Returning
  <2>4. CASE ~Written /\ err \in 100..999
    <3>1. AnswerSent(err, who) /\ mode' = "return" /\ UNCHANGED failed
      BY <1>3, <2>4 DEF Render, Pop, Go, AnswerSent, Authors, Typed
    <3>5. RenderedBy(err, who)
      BY <1>3, <2>1, <2>4, <3>1 DEF Render, RenderedBy
    <3>2. Trusted' => resp'.status = err
      BY <3>5, RenderedCore
    <3>3. Trusted' => resp'.status >= 400 /\ resp'.status # 0
      BY <2>1, <2>4, <3>2, FinalErrors
    <3>4. Failures'
      BY <2>1, <3>1, <3>3, FailuresKept DEF Answered
    <3> QED  BY <2>1, <3>1, <3>3, <3>4, ReturnKeepsPending
  <2> QED  BY <2>2, <2>3, <2>4
<1> QED  BY <1>1, <1>2, <1>3

LEMMA FailuresStep ==
  ASSUME Core, Core', Pending, Failures, ErrorsFail, [Next]_vars
  PROVE  Failures' /\ (Returning' => Pending')
<1>1. CASE UNCHANGED vars
  <2>1. Top' = Top /\ (Trusted' <=> Trusted)
    BY <1>1 DEF vars, Top, Trusted
  <2> QED  BY <1>1, <2>1 DEF vars, Failures, Pending, Miss
<1>2. CASE RequestContext
  BY <1>2, ContextFailures
<1>3. CASE AccessLog \/ SecurityHeaders \/ Cors \/ Auth \/ Recover
  BY <1>3, MiddlewareFailures
<1>4. CASE RespondInternalError
  BY <1>4, RespondFailures
<1>5. CASE Match \/ MuxAnswers \/ Dispatched \/ MissServed
  BY <1>5, DispatchFailures
<1>6. CASE \/ HandlerWrite \/ HandlerFlush \/ HandlerStream \/ HandlerReturns
           \/ \E s \in Statuses : HandlerStatus(s) \/ HandlerAnswer(s)
           \/ \E s \in ErrorStatuses \cup {404, 405} : HandlerFails(s)
           \/ \E how \in {"panic", "abort"} : HandlerPanics(how)
  BY <1>6, HandlerFailures
<1>7. CASE \/ Delegate \/ Rendered
           \/ \E how \in {"panic", "abort"} : ErrorHandlerPanics(how)
           \/ \E who \in {"default", "custom"} : Render(who)
  BY <1>7, RendererFailures
<1> QED  BY <1>1, <1>2, <1>3, <1>4, <1>5, <1>6, <1>7 DEF Next

\* A request that failed, or missed, before anything was written is not answered
\* as a success, and a panic does not cost the connection (Pipeline.FailureIsAnswered).
THEOREM FailuresAnswered == ErrorsFail => (Spec => []FailureIsAnswered)
<1> SUFFICES ASSUME ErrorsFail
             PROVE  Spec => []FailureIsAnswered
  OBVIOUS
<1>1. Init => Pending /\ Failures
  <2> SUFFICES ASSUME Init
               PROVE  Pending /\ Failures
    OBVIOUS
  <2>1. ~failed /\ watcher.status = 0 /\ outcome = "open"
    BY DEF Init
  <2> QED  BY <2>1 DEF Pending, Failures, Miss
<1>2. Core /\ Core' /\ Pending /\ Failures /\ [Next]_vars => Failures' /\ (Returning' => Pending')
  BY FailuresStep
<1>3. Core /\ ~Returning => Pending
  BY PendingUnlessReturning
<1>4. Failures /\ Panics => FailureIsAnswered
  BY DEF Failures, Panics, FailureIsAnswered
<1> QED  BY <1>1, <1>2, <1>3, <1>4, CoreHolds, PanicsHold, PTL DEF Spec

-----------------------------------------------------------------------------
(* Headers                                                                 *)

\* Two header maps that CORS and SecurityHeaders see alike.
Alike(h, g) == h.vary = g.vary /\ h.origin = g.origin /\ h.secure = g.secure

LEMMA TypedAlike ==
  ASSUME NEW h \in Headers, NEW who
  PROVE  Alike(Typed(h, who), h)
BY DEF Headers, Alike, Typed

LEMMA GrantingKept ==
  ASSUME UNCHANGED <<request, config>>, Alike(header', header), Granting(header)
  PROVE  Granting(header)'
BY DEF Granting, Alike, Allows, AllowOrigin

\* The headers that went out, before and after a step.
LEMMA SentKept ==
  ASSUME UNCHANGED <<request, config>>, Granting(resp.sent), resp'.sent = resp.sent
  PROVE  Granting(resp.sent)'
BY DEF Granting, Allows, AllowOrigin

\* Called from a layer, the next one finds the headers of those before it.
LEMMA PassLayers ==
  ASSUME Core, Layers, HeadersFirst, Top \in Outer, mode = "call", Pass,
         UNCHANGED <<fixed, watcher, resp>>,
         Granting(header) => Granting(header)',
         header.secure => header'.secure,
         Top = "cors" => Granting(header)',
         Top = "security" => header'.secure
  PROVE  Layers'
<1> DEFINE n == Len(stack)
<1>1. /\ mode' = "call" /\ Top' \in Middlewares \cup {"dispatch"} /\ Len(stack') = n + 1
      /\ UNCHANGED <<request, config>>
  BY PassWellFormed DEF fixed
<1>2. stack # <<>> /\ Top = stack[n] /\ n \in Nat /\ n >= 1
  BY TopOf, FrontOf DEF Core, WellFormed, Outer, Middlewares, Nobody
<1>3. \A i \in 1..(n - 2) :
        /\ config.chain[i] = "cors" => Granting(header)
        /\ config.chain[i] = "security" => header.secure
  BY DEF Layers
<1>4. n > 1 => Top = config.chain[n - 1]
  BY <1>2 DEF Core, WellFormed, Outer
<1>5. \A i \in 1..(n - 1) :
        /\ config.chain[i] = "cors" => Granting(header)'
        /\ config.chain[i] = "security" => header'.secure
  <2> SUFFICES ASSUME NEW i \in 1..(n - 1)
               PROVE  /\ config.chain[i] = "cors" => Granting(header)'
                      /\ config.chain[i] = "security" => header'.secure
    OBVIOUS
  <2>1. CASE i \in 1..(n - 2)
    BY <1>3, <2>1
  <2>2. CASE i = n - 1
    BY <1>2, <1>4, <2>2
  <2>3. i \in 1..(n - 2) \/ i = n - 1
    <3>1. n \in Nat /\ i \in 1..(n - 1)
      BY <1>2
    <3> HIDE DEF n
    <3> QED  BY <3>1
  <2> QED  BY <2>1, <2>2, <2>3
<1>6. resp.status = 0 \/ (Granting(resp.sent)' /\ (resp'.by # "cors" => resp'.sent.secure))
  BY <1>1, SentKept DEF Layers
<1>7. CASE Top' \in Outer
  <2>1. \A i \in 1..(Len(stack') - 2) :
          /\ config.chain[i] = "cors" => Granting(header)'
          /\ config.chain[i] = "security" => header'.secure
    <3> HIDE DEF n
    <3>1. Len(stack') - 2 = n - 1
      BY <1>1, <1>2
    <3> QED  BY <1>5, <3>1
  <2> QED  BY <1>1, <1>6, <1>7, <2>1 DEF Layers
<1>8. CASE Top' = "dispatch"
  <2>1. Inward = "dispatch"
    <3>1. stack \in Seq(Frames)
      BY DEF Core, WellFormed
    <3>2. stack' = Append(stack, Inward)
      BY DEF Pass, Go
    <3>3. Inward \in Frames
      <4>1. config.chain \in Seq(Middlewares)
        BY ChainOf
      <4> QED  BY <1>2, <4>1 DEF Inward, Frames, Outer
    <3>4. Top' = Inward
      BY <3>1, <3>2, <3>3, AppendOf DEF Top
    <3> QED  BY <1>8, <3>4
  <2>2. config.chain \in Seq(Middlewares) /\ config.chain \in Chains
    BY ChainOf
  <2>3. ~(n <= Len(config.chain))
    BY <1>2, <2>1, <2>2 DEF Inward, Middlewares
  <2>4. PICK i \in DOMAIN config.chain : config.chain[i] = "cors"
    BY <2>2 DEF HeadersFirst
  <2>5. PICK j \in DOMAIN config.chain : config.chain[j] = "security"
    BY <2>2 DEF HeadersFirst
  <2>6. i \in 1..(n - 1) /\ j \in 1..(n - 1)
    <3> HIDE DEF n
    <3> QED  BY <1>2, <2>2, <2>3
  <2>7. Granting(header)' /\ header'.secure
    BY <1>5, <2>4, <2>5, <2>6
  <2> QED  BY <1>1, <1>6, <1>8, <2>7 DEF Layers, Outer, Middlewares
<1> QED  BY <1>1, <1>7, <1>8 DEF Outer

\* A layer that turns back before the others has their headers behind it.
LEMMA TurnsBack ==
  ASSUME Core, Layers, HeadersFirst, Top = "auth", mode = "call"
  PROVE  Granting(header) /\ header.secure
<1> DEFINE n == Len(stack)
<1>1. stack # <<>> /\ Top = stack[n] /\ n \in Nat /\ n >= 1
  BY TopOf, FrontOf DEF Core, WellFormed, Nobody
<1>2. n - 1 \in DOMAIN config.chain /\ config.chain[n - 1] = "auth" /\ config.chain \in Chains
  <2>1. config.chain \in Seq(Middlewares) /\ config.chain \in Chains
    BY ChainOf
  <2>2. n - 1 \in 1..Len(config.chain) /\ stack[n] = config.chain[n - 1]
    BY <1>1 DEF Core, WellFormed, Middlewares
  <2> QED  BY <1>1, <2>1, <2>2
<1>3. PICK i \in DOMAIN config.chain : config.chain[i] = "cors"
  BY <1>2 DEF HeadersFirst
<1>4. PICK j \in DOMAIN config.chain : config.chain[j] = "security"
  BY <1>2 DEF HeadersFirst
<1>5. i < n - 1 /\ j < n - 1
  BY <1>2, <1>3, <1>4 DEF HeadersFirst
<1>6. i \in 1..(n - 2) /\ j \in 1..(n - 2)
  <2>1. config.chain \in Seq(Middlewares)
    BY ChainOf
  <2> HIDE DEF n
  <2> QED  BY <1>1, <1>5, <2>1
<1>7. Top \in Outer
  BY DEF Outer, Middlewares
<1> QED  BY <1>3, <1>4, <1>6, <1>7 DEF Layers

\* What a step does to the response, if anything: somebody's answer goes out
\* with the headers of the moment.
SentAlike ==
  \/ resp'.status = resp.status /\ resp'.by = resp.by /\ resp'.sent = resp.sent
  \/ \E h \in Headers, who \in Authors : Wrote(resp, resp', h, who) /\ Alike(h, header)
  \/ resp'.sent = header /\ resp'.by = resp.by /\ resp'.status # 0

\* Past the layers, every step keeps the headers and answers under them.
LEMMA InnerLayers ==
  ASSUME Core, Layers, UNCHANGED fixed, Alike(header', header), SentAlike,
         Granting(header), resp.by # "cors" => header.secure,
         ~(mode' = "call" /\ Top' \in Outer)
  PROVE  Layers'
<1>1. UNCHANGED <<request, config>>
  BY DEF fixed
<1>2. Granting(header)'
  BY <1>1, GrantingKept
<1>3. CASE resp'.status = resp.status /\ resp'.by = resp.by /\ resp'.sent = resp.sent
  <2>1. resp.status # 0 => Granting(resp.sent)'
    BY <1>1, <1>3, SentKept DEF Layers
  <2> QED  BY <1>2, <1>3, <2>1 DEF Layers, Alike
<1>4. ASSUME NEW h \in Headers, NEW who \in Authors, Wrote(resp, resp', h, who), Alike(h, header)
      PROVE  Layers'
  <2>1. CASE resp.status = 0 /\ resp'.status # 0
    <3>1. resp'.by = who /\ resp'.sent = h
      BY <1>4, <2>1 DEF Wrote
    <3>2. Granting(resp.sent)'
      BY <1>1, <1>4, <3>1 DEF Granting, Alike, Allows, AllowOrigin
    <3>3. header'.secure /\ resp'.sent.secure
      <4>1. resp.by = Nobody
        BY <2>1 DEF Layers
      <4>2. header.secure
        BY <4>1 DEF Nobody
      <4> QED  BY <1>4, <3>1, <4>2 DEF Alike
    <3> QED  BY <1>2, <2>1, <3>1, <3>2, <3>3 DEF Layers
  <2>2. CASE ~(resp.status = 0 /\ resp'.status # 0)
    <3>1. resp'.by = resp.by /\ resp'.sent = resp.sent /\ resp'.status = resp.status
      BY <1>4, <2>2 DEF Wrote
    <3>2. resp.status # 0 => Granting(resp.sent)'
      BY <1>1, <3>1, SentKept DEF Layers
    <3> QED  BY <1>2, <3>1, <3>2 DEF Layers, Alike
  <2> QED  BY <2>1, <2>2
<1>5. CASE resp'.sent = header /\ resp'.by = resp.by /\ resp'.status # 0
  <2>1. Granting(resp.sent)'
    BY <1>1, <1>5 DEF Granting, Allows, AllowOrigin
  <2> QED  BY <1>2, <1>5, <2>1 DEF Layers, Alike
<1> QED  BY <1>3, <1>4, <1>5 DEF SentAlike

LEMMA QuietLayers ==
  ASSUME Core, Layers, ~(mode = "call" /\ Top \in Outer), UNCHANGED <<fixed, resp>>,
         Alike(header', header), ~(mode' = "call" /\ Top' \in Outer)
  PROVE  Layers'
BY InnerLayers DEF Layers, SentAlike

LEMMA AnsweredLayers ==
  ASSUME Core, Layers, ~(mode = "call" /\ Top \in Outer), UNCHANGED fixed,
         NEW h \in Headers, NEW who \in Authors, Wrote(resp, resp', h, who), Alike(h, header),
         Alike(header', header), ~(mode' = "call" /\ Top' \in Outer)
  PROVE  Layers'
BY InnerLayers DEF Layers, SentAlike

LEMMA SameAlike ==
  \A h : Alike(h, h)
BY DEF Alike

LEMMA MiddlewareLayers ==
  ASSUME Core, Layers, HeadersFirst,
         RequestContext \/ AccessLog \/ SecurityHeaders \/ Auth \/ Recover
  PROVE  Layers'
<1>1. CASE RequestContext
  <2>1. CASE mode = "call"
    <3>1. Top = "requestContext" /\ Pass /\ UNCHANGED <<fixed, watcher, resp, header>>
      BY <1>1, <2>1 DEF RequestContext
    <3>2. Granting(header) => Granting(header)'
      BY <3>1, SameAlike, GrantingKept DEF fixed
    <3> QED  BY <2>1, <3>1, <3>2, PassLayers DEF Outer
  <2>2. CASE mode # "call"
    <3>1. /\ mode' # "call" /\ UNCHANGED <<fixed, header>> /\ resp'.by = resp.by
          /\ resp' = resp \/ (resp'.status = 200 /\ resp'.sent = header)
      BY <1>1, <2>2, ContextLeaves
    <3>2. SentAlike
      BY <3>1 DEF SentAlike
    <3> QED  BY <2>2, <3>1, <3>2, SameAlike, InnerLayers DEF Layers
  <2> QED  BY <2>1, <2>2
<1>2. CASE AccessLog
  <2>1. Top = "accessLog" /\ UNCHANGED <<fixed, watcher, resp, header>>
    BY <1>2 DEF AccessLog
  <2>2. Granting(header) => Granting(header)'
    BY <2>1, SameAlike, GrantingKept DEF fixed
  <2>3. CASE mode = "call" /\ Pass
    BY <2>1, <2>2, <2>3, PassLayers DEF Outer, Middlewares
  <2>4. CASE Unwinding /\ Pop(mode)
    BY <2>1, <2>4, SameAlike, QuietLayers DEF Unwinding, Pop, Go
  <2> QED  BY <1>2, <2>3, <2>4 DEF AccessLog
<1>3. CASE SecurityHeaders
  <2>1. Top = "security" /\ UNCHANGED <<fixed, watcher, resp>>
    BY <1>3 DEF SecurityHeaders
  <2>2. CASE mode = "call" /\ Pass /\ header' = [header EXCEPT !.secure = TRUE]
    <3>1. header'.secure /\ header'.vary = header.vary /\ header'.origin = header.origin
      BY <2>2 DEF Core, Types, Headers
    <3>2. Granting(header) => Granting(header)'
      BY <2>1, <3>1 DEF Granting, Allows, AllowOrigin, fixed
    <3> QED  BY <2>1, <2>2, <3>1, <3>2, PassLayers DEF Outer, Middlewares
  <2>3. CASE Unwinding /\ Pop(mode) /\ UNCHANGED header
    BY <2>1, <2>3, SameAlike, QuietLayers DEF Unwinding, Pop, Go
  <2> QED  BY <1>3, <2>2, <2>3 DEF SecurityHeaders
<1>4. CASE Auth
  <2>1. Top = "auth" /\ UNCHANGED <<fixed, watcher, resp, header>>
    BY <1>4 DEF Auth
  <2>2. CASE mode = "call" /\ Pass
    <3>1. Granting(header) => Granting(header)'
      BY <2>1, SameAlike, GrantingKept DEF fixed
    <3> QED  BY <2>1, <2>2, <3>1, PassLayers DEF Outer, Middlewares
  <2>3. CASE Go(Append(Rest, "rendering"), "call") \/ Pop("panic") \/ (Unwinding /\ Pop(mode))
    <3>1. ~(mode' = "call" /\ Top' \in Outer)
      <4>1. CASE Go(Append(Rest, "rendering"), "call")
        <5>1. "rendering" \in Frames \ Outer /\ Callers(Top) \subseteq Callers("rendering")
          BY <2>1 DEF Frames, Outer, Middlewares, Renderers, Routes, Callers
        <5>2. Top' = "rendering"
          BY <2>1, <4>1, <5>1, Pushed DEF Go, fixed, Nobody
        <5> QED  BY <5>1, <5>2
      <4>2. CASE Pop("panic") \/ (Unwinding /\ Pop(mode))
        BY <4>2 DEF Pop, Go, Unwinding
      <4> QED  BY <2>3, <4>1, <4>2
    <3>2. Granting(header) /\ (resp.by # "cors" => header.secure)
      BY <2>1, TurnsBack DEF Layers
    <3>3. SentAlike
      BY <2>1 DEF SentAlike
    <3> QED  BY <2>1, <3>1, <3>2, <3>3, SameAlike, InnerLayers
  <2> QED  BY <1>4, <2>2, <2>3 DEF Auth
<1>5. CASE Recover
  <2>1. Top = "recover" /\ UNCHANGED <<fixed, watcher, resp, header>>
    BY <1>5 DEF Recover
  <2>2. CASE mode = "call" /\ Pass
    <3>1. Granting(header) => Granting(header)'
      BY <2>1, SameAlike, GrantingKept DEF fixed
    <3> QED  BY <2>1, <2>2, <3>1, PassLayers DEF Outer, Middlewares
  <2>3. CASE mode # "call" /\ \E m \in {"return", "abort"} : Pop(m)
    BY <2>1, <2>3, SameAlike, QuietLayers DEF Pop, Go
  <2>4. CASE mode # "call" /\ Go(Rest \o <<"respondInternalError", "rendering">>, "call")
    <3>1. /\ "respondInternalError" \in Frames \ Outer /\ "rendering" \in Frames \ Outer
          /\ "respondInternalError" \in Callers("rendering")
          /\ Callers("recover") \subseteq Callers("respondInternalError")
      BY DEF Frames, Outer, Middlewares, Renderers, Routes, Callers
    <3>2. Top' = "rendering"
      BY <2>1, <2>4, <3>1, PushedTwo DEF Go, fixed, Nobody
    <3> QED  BY <2>1, <2>4, <3>1, <3>2, SameAlike, QuietLayers
  <2> QED  BY <1>5, <2>2, <2>3, <2>4 DEF Recover
<1> QED  BY <1>1, <1>2, <1>3, <1>4, <1>5

\* CORS itself: whatever an outer layer had granted is replaced.
LEMMA CorsGrants ==
  ASSUME Core, UNCHANGED fixed, NEW ok \in BOOLEAN, header' = Granted(ok),
         ok => Allows, request.preflight \/ ok = Allows
  PROVE  Granting(header)' /\ header'.secure = header.secure
<1>1. /\ header'.vary = TRUE /\ header'.secure = header.secure
      /\ header'.origin = IF ok THEN AllowOrigin ELSE Nobody
  BY GrantedHeader
<1>2. AllowOrigin # "preset" /\ Nobody # "preset"
  BY DEF AllowOrigin, Nobody
<1> QED  BY <1>1, <1>2 DEF Granting, Allows, AllowOrigin, fixed

LEMMA CorsLayers ==
  ASSUME Core, Layers, HeadersFirst, Cors
  PROVE  Layers'
<1>1. Top = "cors" /\ UNCHANGED <<fixed, watcher, err, ops, logged, outcome, failed, loose>>
  BY DEF Cors
<1>2. CASE mode = "call" /\ request.origin = "" /\ Pass /\ UNCHANGED <<header, resp>>
  <2>1. Granting(header)'
    BY <1>1, <1>2 DEF Granting, fixed
  <2> QED  BY <1>1, <1>2, <2>1, PassLayers DEF Outer, Middlewares
<1>3. CASE /\ mode = "call" /\ request.preflight
           /\ \E method \in BOOLEAN : header' = Granted(Allows /\ method)
           /\ resp' = SendHeader(resp, header', 204, "cors")
           /\ Claim("cors") /\ Pop("return")
  <2>1. PICK method \in BOOLEAN : header' = Granted(Allows /\ method)
    BY <1>3
  <2>2. (Allows /\ method) \in BOOLEAN /\ (Allows /\ method => Allows)
    OBVIOUS
  <2>3. Granting(header)'
    BY <1>1, <1>3, <2>1, <2>2, CorsGrants
  <2>4. header' \in Headers /\ header'.type = header.type
    BY <2>1, <2>2, GrantedHeader
  <2>5. HeaderOnly(resp, resp', header', 204, "cors")
    BY <1>1, <1>3, <2>4, PreflightCore DEF Pop, Go
  <2>6. resp.status = 0
    <3>1. Trusted /\ resp.tracked = 0
      BY <1>1, <1>3 DEF Core, Control, Untouched, Outer, Middlewares, Trusted
    <3> QED  BY <1>1, <3>1, RecordOf DEF Nobody
  <2>7. mode' = "return" /\ UNCHANGED <<request, config>>
    BY <1>1, <1>3 DEF Pop, Go, fixed
  <2>8. resp.by = Nobody
    BY <2>6 DEF Layers
  <2>9. resp'.status # 0 => resp'.by = "cors" /\ resp'.sent = header'
    BY <2>5, <2>6 DEF HeaderOnly, Announced, Wrote
  <2>10. resp'.status # 0
    BY <2>5 DEF HeaderOnly, Informational
  <2>11. Granting(resp.sent)'
    BY <2>3, <2>7, <2>9, <2>10 DEF Granting, Allows, AllowOrigin
  <2> QED  BY <2>3, <2>7, <2>9, <2>10, <2>11 DEF Layers
<1>4. CASE /\ mode = "call" /\ request.origin # "" /\ ~request.preflight
           /\ header' = Granted(Allows)
           /\ Pass /\ UNCHANGED <<resp, first>>
  <2>1. Allows \in BOOLEAN
    BY DEF Allows, Core, Inputs
  <2>2. Granting(header)' /\ header'.secure = header.secure
    BY <1>1, <1>4, <2>1, CorsGrants
  <2> QED  BY <1>1, <1>4, <2>2, PassLayers DEF Outer, Middlewares
<1>5. CASE Unwinding /\ Pop(mode) /\ UNCHANGED <<header, resp, first>>
  BY <1>1, <1>5, SameAlike, QuietLayers DEF Unwinding, Pop, Go
<1> QED  BY <1>2, <1>3, <1>4, <1>5 DEF Cors

LEMMA InnerStepLayers ==
  ASSUME Core, Core', Layers,
         \/ RespondInternalError \/ Match \/ MuxAnswers \/ Dispatched \/ MissServed
         \/ HandlerReturns
         \/ \E s \in ErrorStatuses \cup {404, 405} : HandlerFails(s)
         \/ \E how \in {"panic", "abort"} : HandlerPanics(how) \/ ErrorHandlerPanics(how)
         \/ Delegate \/ Rendered
  PROVE  Layers'
<1>0. header \in Headers /\ resp \in Responses /\ mode \in {"call", "return", "panic", "abort"}
  BY DEF Core, Types
<1>1. CASE RespondInternalError
  <2>1. Top \notin Outer /\ mode' # "call" /\ UNCHANGED fixed
    BY <1>1, UnwindingModes DEF RespondInternalError, Pop, Go, Outer, Middlewares
  <2>2. CASE mode = "panic" /\ ~Written
    <3>1. AnswerSent(500, "fallback")
      BY <1>1, <2>2, FallbackSent
    <3>2. "fallback" \in Authors
      BY DEF Authors
    <3>3. /\ Announced(resp, resp', header', 500, "fallback") /\ header' \in Headers
      BY <1>0, <3>1, <3>2, SentAnswer
    <3>4. Wrote(resp, resp', header', "fallback")
      BY <3>3 DEF Announced
    <3>5. Alike(header', header)
      BY <1>0, <3>1, TypedAlike DEF AnswerSent
    <3> QED  BY <2>1, <3>2, <3>3, <3>4, <3>5, AnsweredLayers
  <2>3. CASE ~(mode = "panic" /\ ~Written)
    <3>1. UNCHANGED <<resp, header>>
      BY <1>1, <2>3 DEF RespondInternalError
    <3> QED  BY <2>1, <3>1, SameAlike, QuietLayers
  <2> QED  BY <2>2, <2>3
<1>2. CASE Match
  <2>1. /\ Top = "dispatch" /\ UNCHANGED <<fixed, resp, header>>
        /\ stack' = Append(stack, request.route) /\ request.route \in Routes
    BY <1>2 DEF Match, Go, Routes
  <2>2. Top' \notin Outer
    <3>1. stack \in Seq(Frames) /\ request.route \in Frames
      BY <2>1 DEF Core, WellFormed, Frames
    <3>2. Top' = request.route
      BY <2>1, <3>1, AppendOf DEF Top
    <3> QED  BY <2>1, <3>2 DEF Outer, Middlewares, Routes
  <2> QED  BY <2>1, <2>2, SameAlike, QuietLayers DEF Outer, Middlewares
<1>3. CASE MuxAnswers
  <2>1. /\ Top = "dispatch" /\ mode' = "return" /\ UNCHANGED fixed
        /\ header' = Typed(header, "mux")
        /\ UNCHANGED resp \/ Announced(resp, resp', header', 301, "mux")
    BY <1>3, MuxCore
  <2>2. "mux" \in Authors
    BY DEF Authors
  <2>3. header' \in Headers /\ Alike(header', header)
    BY <1>0, <2>1, <2>2, TypedHeader, TypedAlike
  <2>4. Top \notin Outer
    BY <2>1 DEF Outer, Middlewares
  <2>5. CASE UNCHANGED resp
    BY <2>1, <2>3, <2>4, <2>5, QuietLayers
  <2>6. CASE Announced(resp, resp', header', 301, "mux")
    BY <2>1, <2>2, <2>3, <2>4, <2>6, AnsweredLayers DEF Announced
  <2> QED  BY <2>1, <2>5, <2>6
<1>4. CASE Dispatched
  <2>1. /\ Top = "dispatch" /\ UNCHANGED <<fixed, watcher, resp>> /\ mode # "call"
    BY <1>4 DEF Dispatched, Unwinding
  <2>2. CASE mode = "return" /\ watcher.status # 0
    <3>1. /\ stack' = Rest \o <<"serveMiss", "notFound">>
          /\ header' = [header EXCEPT !.type = IF @ = "mux" THEN Nobody ELSE @]
      BY <1>4, <2>2 DEF Dispatched, Go
    <3>2. Alike(header', header)
      BY <1>0, <3>1 DEF Headers, Alike
    <3>3. /\ "serveMiss" \in Frames \ Outer /\ "notFound" \in Frames \ Outer
          /\ "serveMiss" \in Callers("notFound") /\ Callers("dispatch") \subseteq Callers("serveMiss")
      BY DEF Frames, Outer, Middlewares, Callers, Routes
    <3>4. Top' = "notFound"
      BY <2>1, <3>1, <3>3, PushedTwo DEF fixed, Nobody
    <3> QED  BY <2>1, <3>2, <3>3, <3>4, QuietLayers
  <2>3. CASE ~(mode = "return" /\ watcher.status # 0)
    BY <1>4, <2>1, <2>3, SameAlike, QuietLayers DEF Dispatched, Pop, Go
  <2> QED  BY <2>2, <2>3
<1>5. CASE MissServed
  <2>1. Top = "serveMiss" /\ UNCHANGED <<fixed, header>> /\ mode # "call" /\ mode' = mode
    BY <1>5 DEF MissServed, Unwinding, Pop, Go
  <2>2. "serveMiss" \in Authors
    BY DEF Authors, Frames
  <2>3. UNCHANGED resp \/ Wrote(resp, resp', header, "serveMiss")
    BY <1>5, MissServedCore DEF Announced
  <2> QED  BY <1>0, <2>1, <2>2, <2>3, SameAlike, QuietLayers, AnsweredLayers
<1>6. CASE \/ HandlerReturns
           \/ \E how \in {"panic", "abort"} : HandlerPanics(how) \/ ErrorHandlerPanics(how)
  <2>1. Top \in Handlers \cup Renderers /\ UNCHANGED <<fixed, resp, header>> /\ mode' # "call"
    BY <1>6 DEF HandlerReturns, HandlerPanics, ErrorHandlerPanics, Running, Custom, Rendering,
                Renderers, Pop, Go
  <2> QED  BY <2>1, SameAlike, QuietLayers DEF Outer, Middlewares, Handlers, Renderers
<1>7. CASE \E s \in ErrorStatuses \cup {404, 405} : HandlerFails(s)
  <2>1. /\ Top \in Handlers /\ UNCHANGED <<fixed, resp, header, watcher>>
        /\ stack' = Append(IF Top = "notFound" THEN Front(Rest) ELSE Rest, "errorHandler")
    BY <1>7 DEF HandlerFails, Handlers, Go
  <2>2. Top' \notin Outer
    <3>1. stack # <<>> /\ stack' # <<>>
      BY <2>1, TopOf DEF Handlers, Nobody
    <3>2. "errorHandler" \in Frames \ Outer
      BY DEF Frames, Outer, Middlewares, Renderers
    <3>3. CASE Top = "notFound"
      BY <2>1, <3>2, <3>3, MissFails DEF fixed
    <3>4. CASE Top # "notFound"
      <4>1. Callers(Top) \subseteq Callers("errorHandler") /\ Top \notin {Nobody, "requestContext"}
        BY <2>1, <3>4 DEF Callers, Handlers, Routes, Nobody
      <4> QED  BY <2>1, <3>2, <3>4, <4>1, Pushed DEF fixed
    <3> QED  BY <3>3, <3>4
  <2> QED  BY <2>1, <2>2, SameAlike, QuietLayers DEF Outer, Middlewares, Handlers
<1>8. CASE Delegate
  <2>1. /\ Top = "errorHandler" /\ UNCHANGED <<fixed, resp, header>>
        /\ stack' = Append(stack, "rendering")
    BY <1>8 DEF Delegate, Custom, Go
  <2>2. Top' = "rendering"
    <3>1. stack \in Seq(Frames) /\ "rendering" \in Frames
      BY DEF Core, WellFormed, Frames, Renderers
    <3> QED  BY <2>1, <3>1, AppendOf DEF Top
  <2> QED  BY <2>1, <2>2, SameAlike, QuietLayers DEF Outer, Middlewares
<1>9. CASE Rendered
  <2>1. Top \in Renderers /\ UNCHANGED <<fixed, resp, header>> /\ mode' # "call"
    BY <1>9 DEF Rendered, Renderers, Unwinding, Pop, Go
  <2> QED  BY <2>1, SameAlike, QuietLayers DEF Outer, Middlewares, Renderers
<1> QED  BY <1>1, <1>2, <1>3, <1>4, <1>5, <1>6, <1>7, <1>8, <1>9

LEMMA OperateLayers ==
  ASSUME Core, Layers,
         \/ HandlerWrite \/ HandlerFlush \/ HandlerStream
         \/ \E s \in Statuses : HandlerStatus(s) \/ HandlerAnswer(s)
  PROVE  Layers'
<1>1. /\ Top \in Handlers
      /\ UNCHANGED resp \/ \E h \in Headers : Wrote(resp, resp', h, Top) /\ h \in {header, header'}
  BY HandlerOperatesCore
<1>2. /\ UNCHANGED <<fixed, stack, mode>> /\ header \in Headers
      /\ UNCHANGED header \/ header' = Typed(header, Top)
  <2>1. UNCHANGED <<fixed, stack, mode>> /\ header \in Headers
    BY DEF HandlerWrite, HandlerFlush, HandlerStream, HandlerStatus, HandlerAnswer, Core, Types
  <2>2. UNCHANGED header \/ header' = Typed(header, Top)
    BY DEF HandlerWrite, HandlerFlush, HandlerStream, HandlerStatus, HandlerAnswer, Typed
  <2> QED  BY <2>1, <2>2
<1>3. Top' = Top
  BY <1>2 DEF Top
<1>4. Top \notin Outer /\ Top \in Authors
  BY <1>1 DEF Handlers, Outer, Middlewares, Authors, Frames, Routes
<1>5. Alike(header', header)
  <2>1. CASE header' = header
    BY <2>1, SameAlike
  <2>2. CASE header' = Typed(header, Top)
    BY <1>2, <2>2, TypedAlike
  <2> QED  BY <1>2, <2>1, <2>2
<1>6. \A h \in {header, header'} : Alike(h, header)
  BY <1>5, SameAlike
<1>7. CASE UNCHANGED resp
  BY <1>2, <1>3, <1>4, <1>5, <1>7, QuietLayers
<1>8. CASE \E h \in Headers : Wrote(resp, resp', h, Top) /\ h \in {header, header'}
  <2>1. PICK h \in Headers : Wrote(resp, resp', h, Top) /\ Alike(h, header)
    BY <1>6, <1>8
  <2> QED  BY <1>2, <1>3, <1>4, <1>5, <2>1, AnsweredLayers
<1> QED  BY <1>1, <1>7, <1>8

LEMMA RenderLayers ==
  ASSUME Core, Layers, NEW who \in {"default", "custom"}, Render(who)
  PROVE  Layers'
<1>1. Top \in Renderers /\ mode = "call" /\ UNCHANGED <<fixed, watcher, err, ops, logged, outcome>>
      /\ stack' = Rest /\ mode' # "call" /\ Top \notin Outer
  BY DEF Render, Rendering, Renderers, Pop, Go, Outer, Middlewares
<1>2. header \in Headers /\ resp \in Responses /\ who \in Authors
  BY DEF Core, Types, Authors
<1>3. Alike(header', header)
  <2>1. UNCHANGED header \/ header' = Typed(header, who)
    BY DEF Render, Typed
  <2> QED  BY <1>2, <2>1, SameAlike, TypedAlike
<1>4. CASE Written
  BY <1>1, <1>3, <1>4, QuietLayers DEF Render
<1>5. CASE ~Written /\ err \notin 100..999
  <2>1. RefusedBy(who)
    BY <1>1, <1>5 DEF Render, Rendering, Renderers, Pop, Go, RefusedBy, Typed
  <2>2. resp'.status = resp.status /\ resp'.by = resp.by /\ resp'.sent = resp.sent
    BY <2>1, RefusedCore
  <2> QED  BY <1>1, <1>3, <2>2, InnerLayers DEF SentAlike, Layers
<1>6. CASE ~Written /\ err \in 100..999
  <2>1. AnswerSent(err, who)
    BY <1>6 DEF Render, AnswerSent, Authors, Typed
  <2>2. header' \in Headers /\ Announced(resp, resp', header', err, who)
    BY <1>2, <1>6, <2>1, SentAnswer
  <2>5. Wrote(resp, resp', header', who)
    BY <2>2 DEF Announced
  <2> QED  BY <1>1, <1>2, <1>3, <2>2, <2>5, AnsweredLayers
<1> QED  BY <1>4, <1>5, <1>6

LEMMA LayersStep ==
  ASSUME Core, Core', Layers, HeadersFirst, [Next]_vars
  PROVE  Layers'
<1>1. CASE UNCHANGED vars
  <2>1. Top' = Top /\ UNCHANGED <<request, config, stack, mode, header, resp>>
    BY <1>1 DEF vars, Top
  <2> QED  BY <2>1 DEF Layers, Granting, Allows, AllowOrigin
<1>2. CASE Next
  BY <1>2, MiddlewareLayers, CorsLayers, InnerStepLayers, OperateLayers, RenderLayers DEF Next
<1> QED  BY <1>1, <1>2

\* Every answer carries the headers of CORS and SecurityHeaders, when they are
\* registered before what may refuse a request (Pipeline.HeadersOnEveryAnswer).
THEOREM HeadersEverywhere == HeadersFirst => (Spec => []HeadersOnEveryAnswer)
<1> SUFFICES ASSUME HeadersFirst
             PROVE  Spec => []HeadersOnEveryAnswer
  OBVIOUS
<1>1. Init => Layers
  <2> SUFFICES ASSUME Init
               PROVE  Layers
    OBVIOUS
  <2>1. /\ stack = <<"requestContext">> /\ mode = "call" /\ resp.status = 0 /\ resp.by = Nobody
    BY DEF Init
  <2>2. Len(stack) = 1 /\ Top = "requestContext"
    BY <2>1 DEF Top, Last
  <2> QED  BY <2>1, <2>2 DEF Layers, Outer
<1>2. Core /\ Core' /\ Layers /\ [Next]_vars => Layers'
  BY LayersStep
<1>3. Layers => HeadersOnEveryAnswer
  BY DEF Layers, Granting, HeadersOnEveryAnswer
<1> QED  BY <1>1, <1>2, <1>3, CoreHolds, PTL DEF Spec
=============================================================================
