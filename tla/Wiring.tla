-------------------------------- MODULE Wiring ---------------------------------
(***************************************************************************)
(* The wiring generator, src/wiring.go, beside the container: one process  *)
(* generates a file from its registrations, others start later, with the   *)
(* same or with other registrations, and compare fingerprints.             *)
(*                                                                         *)
(* Abstracted: Go source.  The generated file is a record of what it       *)
(* declares and calls, and is evaluated as Go would, a variable hiding the *)
(* package of its name; a name is a sequence, its base and the suffix that *)
(* made it unique.  Of the packages only those of constructors are looked  *)
(* at.                                                                     *)
(***************************************************************************)
EXTENDS Container, SequencesExt

CONSTANTS
  KeyOrder,   (* the services in the order of their type names             *)
  Field,      (* wiringFieldName: the field of each service                *)
  Lower,      (* lowerCamel: the variable name of each service             *)
  Base,       (* the last segment of each package path, an identifier      *)
  Keywords    (* goKeywords                                                *)

\* A registration is what Container looks at, the package of its constructor and the
\* number of its results, and nothing else; Instance registers a singleton.
ASSUME WiringAssumption ==
  /\ \A r \in Registrations :
       /\ r = [key |-> r.key, pkg |-> r.pkg, source |-> r.source, returns |-> r.returns,
               inputs |-> r.inputs, lifetime |-> r.lifetime]
       /\ r.source = "instance" => r.lifetime = "singleton"
       /\ Base[r.pkg] \in Seq(STRING)
  /\ KeyOrder \in Seq(Services) /\ Services \subseteq Range(KeyOrder)
  /\ \A s \in Services : Lower[s] \in Seq(STRING)
  /\ IsFiniteSet(Keywords)

VARIABLE
  file        (* the generated file, with the registrations behind it      *)

NoFile == [program |-> "none"]

-----------------------------------------------------------------------------
(* collect *)

\* The elements of seq that are in S, in their order.
Chosen(seq, S) ==
  LET chosen[n \in 0..Len(seq)] ==
        IF n = 0 THEN <<>>
        ELSE IF seq[n] \in S THEN Append(chosen[n - 1], seq[n]) ELSE chosen[n - 1]
  IN chosen[Len(seq)]

Keys(reg) == Chosen(KeyOrder, DOMAIN reg)

Instance(reg, s) == reg[s].source = "instance"
Single(reg, s) == reg[s].lifetime = "singleton"

\* A bug to look for: names are only kept apart from the keywords.
NotUnique(name, taken) == IF name \in Keywords THEN Append(name, 2) ELSE name

\* uniqueVarName, and the loop of importAlias.
Unique(name, taken) ==
  IF name \notin taken THEN name
  ELSE LET free == {n \in 2..(Cardinality(taken) + 2) : Append(name, n) \notin taken}
       IN Append(name, Min(free))

\* Names are handed out in the order of the keys.
Named(seq, wish, reserved) ==
  LET names[n \in 0..Len(seq)] ==
        IF n = 0 THEN <<>>
        ELSE IF seq[n] \in DOMAIN names[n - 1] THEN names[n - 1]
        ELSE Extended(names[n - 1], seq[n],
                      Unique(wish[seq[n]], reserved \cup Range(names[n - 1])))
  IN names[Len(seq)]

VarNames(reg) == Named(Keys(reg), Lower, Keywords)

Aliases(reg) == Named([i \in DOMAIN Keys(reg) |-> reg[Keys(reg)[i]].pkg], Base, {<<"fmt">>})

\* What cannot be generated is reported: one field for two types, a constructor that
\* is not a function with a name, a singleton that needs a transient.
Supported(reg) ==
  \A s \in DOMAIN reg :
    /\ reg[s].source # "closure"
    /\ \A t \in DOMAIN reg : Field[t] = Field[s] => t = s
    /\ Single(reg, s) => \A input \in Range(reg[s].inputs) : Single(reg, input)

\* What visit fills in.
Traversals(reg) == [visited : SUBSET DOMAIN reg, ordered : Seq(DOMAIN reg)]
Start == [visited |-> {}, ordered |-> <<>>]

\* One service after the other is visited.
Through(visit, seq, acc) ==
  LET after[n \in 0..Len(seq)] == IF n = 0 THEN acc ELSE visit[seq[n]][after[n - 1]]
  IN after[Len(seq)]

Mark(acc, s) == [visited |-> acc.visited \cup {s}, ordered |-> acc.ordered]

\* Only what Wire has to construct is emitted.
Constructed(reg, s) == Single(reg, s) /\ ~Instance(reg, s)
Emit(reg, acc, s) ==
  [visited |-> acc.visited,
   ordered |-> IF Constructed(reg, s) THEN Append(acc.ordered, s) ELSE acc.ordered]

\* A bug to look for: a service is emitted before its inputs are visited.
VisitFirst(reg) ==
  LET visit[s \in DOMAIN reg] ==
        [acc \in Traversals(reg) |->
           IF s \in acc.visited THEN acc
           ELSE Through(visit, reg[s].inputs, Emit(reg, Mark(acc, s), s))]
  IN visit

\* visit: the inputs of a service come before it.
Visit(reg) ==
  LET visit[s \in DOMAIN reg] ==
        [acc \in Traversals(reg) |->
           IF s \in acc.visited THEN acc
           ELSE Emit(reg, Through(visit, reg[s].inputs, Mark(acc, s)), s)]
  IN visit

Order(reg) ==
  Through(Visit(reg), Chosen(KeyOrder, {s \in DOMAIN reg : Single(reg, s)}), Start).ordered

FactoryErr(reg) ==
  LET err[s \in DOMAIN reg] ==
        /\ ~Single(reg, s)
        /\ reg[s].returns = 2 \/ \E input \in Range(reg[s].inputs) : err[input]
  IN err

-----------------------------------------------------------------------------
(* render *)

Call(reg, s) == <<Aliases(reg)[reg[s].pkg], reg[s].source, reg[s].returns>>

Statement(reg, s) ==
  [var |-> VarNames(reg)[s], call |-> Call(reg, s),
   args |-> [i \in DOMAIN reg[s].inputs |-> VarNames(reg)[reg[s].inputs[i]]]]

\* renderFactory: a singleton is read from its field, a transient is built.
Factory(reg, s) ==
  [call |-> Call(reg, s), err |-> FactoryErr(reg)[s],
   args |-> [i \in DOMAIN reg[s].inputs |->
               LET input == reg[s].inputs[i] IN
               [field |-> Field[input], var |-> VarNames(reg)[input],
                new |-> ~Single(reg, input)]]]

Program(reg) ==
  LET single == {s \in DOMAIN reg : Single(reg, s)} IN
  [imports   |-> {<<Aliases(reg)[p], p>> : p \in DOMAIN Aliases(reg)},
   params    |-> {<<VarNames(reg)[s], s>> : s \in {t \in single : Instance(reg, t)}},
   wire      |-> [i \in DOMAIN Order(reg) |-> Statement(reg, Order(reg)[i])],
   fields    |-> {<<Field[s], VarNames(reg)[s]>> : s \in single},
   factories |-> {<<Field[s], Factory(reg, s)>> : s \in DOMAIN reg \ single}]

\* A bug to look for: what a constructor returns is left out.
FingerprintWithoutArity(reg) ==
  {<<s, reg[s].pkg, reg[s].source, reg[s].inputs, reg[s].lifetime>> : s \in DOMAIN reg}

Fingerprint(reg) ==
  {<<s, reg[s].pkg, reg[s].source, reg[s].returns, reg[s].inputs, reg[s].lifetime>> :
     s \in DOMAIN reg}

-----------------------------------------------------------------------------
(* Processes *)

\* WriteWiringFile, after Validate.
Generate ==
  /\ ~Walking /\ registry # <<>> /\ checked = Registered
  /\ Supported(registry)
  /\ file' = [program |-> Program(registry), graph |-> registry,
              fingerprint |-> Fingerprint(registry)]
  /\ UNCHANGED vars

\* Another process starts, from another state of the source.
Boot ==
  /\ \A g \in Goroutines : pc[g] = "idle"
  /\ UNCHANGED file /\ registry' = <<>> /\ checked' = {} /\ walk' = NoWalk /\ ready' = {}
  /\ built' = [s \in Services |-> 0] /\ UNCHANGED <<mutex, pc, want, stack>>

WiringInit == Init /\ file = NoFile

\* Resolution does not look at the file, and is left out once there is one.
WiringNext ==
  \/ (Register \/ Validate \/ (file = NoFile /\ Resolution)) /\ UNCHANGED file
  \/ Generate \/ Boot

WiringSpec ==
  WiringInit /\ [][WiringNext]_<<vars, file>>
  /\ \A g \in Goroutines :
       /\ WF_<<vars, file>>(Progress(g) /\ UNCHANGED file)
       /\ SF_<<vars, file>>(BeginSingleton(g) /\ UNCHANGED file)

-----------------------------------------------------------------------------
(* Properties *)

\* What the container builds for s: the constructor applied to what it builds for
\* its inputs.
Term(reg) ==
  LET term[s \in DOMAIN reg] ==
        IF Instance(reg, s) THEN <<"instance", s>>
        ELSE <<reg[s].pkg, reg[s].source,
               [i \in DOMAIN reg[s].inputs |-> term[reg[s].inputs[i]]]>>
  IN term

\* What a name is bound to; names bound to two things, or to nothing, do not compile.
Bound(pairs, name) ==
  LET found == {p \in pairs : p[1] = name}
  IN IF Cardinality(found) = 1 THEN (CHOOSE p \in found : TRUE)[2] ELSE "does not compile"

Names(pairs) == {p[1] : p \in pairs}

\* A call of a constructor: a variable in scope hides the package of its name.
Made(prog, scope, call, args) ==
  <<IF call[1] \in scope THEN "does not compile" ELSE Bound(prog.imports, call[1]),
    call[2], args>>

\* The generated Wire, run: the variables and what they hold.
Wired(prog) ==
  LET env[n \in 0..Len(prog.wire)] ==
        IF n = 0 THEN {<<p[1], <<"instance", p[2]>> >> : p \in prog.params}
        ELSE LET st == prog.wire[n] IN
             env[n - 1] \cup
               {<<st.var, Made(prog, Names(env[n - 1]), st.call,
                               [i \in DOMAIN st.args |-> Bound(env[n - 1], st.args[i])])>>}
  IN env[Len(prog.wire)]

Read(prog, field) == Bound(Wired(prog), Bound(prog.fields, field))

\* The generated factories: what they build is in variables of their own until the call.
New(prog) ==
  LET new[field \in Names(prog.factories)] ==
        LET f == Bound(prog.factories, field)
            local == {i \in DOMAIN f.args : f.args[i].new}
        IN IF \E i, j \in local : i # j /\ f.args[i].var = f.args[j].var
           THEN <<"does not compile">>
           ELSE Made(prog, {f.args[i].var : i \in local}, f.call,
                     [i \in DOMAIN f.args |-> IF f.args[i].new THEN new[f.args[i].field]
                                              ELSE Read(prog, f.args[i].field)])
  IN new

\* The generated wiring compiles and builds what the container would: for every
\* service the same constructor from the same package, applied to the same things,
\* each declared once, before it is used and under a name of its own.
BuildsTheSame(prog, reg) ==
  /\ \A i, j \in DOMAIN prog.wire : prog.wire[i].var = prog.wire[j].var => i = j
  /\ \A s \in DOMAIN reg :
       Term(reg)[s] = IF Single(reg, s) THEN Read(prog, Field[s]) ELSE New(prog)[Field[s]]

\* The names that Wire and the factories use for themselves.
Own == {<<"err">>, <<"fmt">>, <<"new">>, <<"nil">>, <<"s">>}

\* What the generator does not look at: no variable has the name of a package, neither has
\* one of the file's own, and no constructor takes one transient twice.
KeptApart(reg) ==
  LET variables == Range(VarNames(reg))  packages == Range(Aliases(reg)) IN
  /\ variables \cap packages = {}
  /\ (variables \cup packages) \cap (Own \cup Keywords) = {}
  /\ \A s \in DOMAIN reg : \A i, j \in DOMAIN reg[s].inputs :
       reg[s].inputs[i] = reg[s].inputs[j] => i = j \/ Single(reg, reg[s].inputs[i])

\* When its names are kept apart, a file that is written compiles and builds what the
\* container builds: uniqueVarName, importAlias and the order of visit see to the rest.
WiredLikeContainer ==
  file # NoFile /\ KeptApart(file.graph) => BuildsTheSame(file.program, file.graph)

\* What GenerateWiring promises of every file: "Generation reports registrations that
\* cannot be expressed as source code instead of guessing" (wiring.go:32), and of names
\* that do not compile, "Uniqueness is enforced here rather than hoped for" (:147).
WrittenFileCompiles == file # NoFile => BuildsTheSame(file.program, file.graph)

\* A file generated from other registrations has another fingerprint: while the two
\* agree, generating again would change nothing.
StaleFileNoticed ==
  file # NoFile /\ registry # <<>> /\ file.fingerprint = Fingerprint(registry) =>
    file.program = Program(registry)
=============================================================================
