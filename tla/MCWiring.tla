------------------------------- MODULE MCWiring --------------------------------
(***************************************************************************)
(* Three types, two of which lower to one variable name, from two packages *)
(* with one base name and from one with the name of a variable.  Among     *)
(* their registrations are a cycle, a missing service, a singleton over a  *)
(* transient, a transient needed twice, and two that differ only in        *)
(* whether the constructor returns an error.                               *)
(***************************************************************************)
EXTENDS Wiring

Reg(key, pkg, source, returns, inputs, lifetime) ==
  [key |-> key, pkg |-> pkg, source |-> source, returns |-> returns,
   inputs |-> inputs, lifetime |-> lifetime]

MCServices == {"App", "LOG", "Log"}

MCRegistrations ==
  { Reg("App", "a/kit", "NewApp", 1, <<"Log", "LOG">>, "singleton"),
    Reg("App", "c/log", "NewApp", 1, <<"Log", "LOG">>, "singleton"),
    Reg("App", "a/kit", "NewApp", 2, <<"Log", "LOG", "LOG">>, "transient"),
    Reg("LOG", "b/kit", "NewLOG", 2, <<"Log">>, "singleton"),
    Reg("LOG", "b/kit", "NewLOG", 1, <<"Log">>, "singleton"),
    Reg("LOG", "b/kit", "NewLOG", 1, <<"Log">>, "transient"),
    Reg("Log", "a/kit", "instance", 1, <<>>, "singleton"),
    Reg("Log", "b/kit", "NewLog", 1, <<>>, "singleton"),
    Reg("Log", "a/kit", "closure", 1, <<"App">>, "singleton") }

MCKeyOrder == <<"App", "LOG", "Log">>
MCField == [s \in MCServices |-> s]
MCLower == [App |-> <<"app">>, LOG |-> <<"log">>, Log |-> <<"log">>]
MCBase == [p \in {"a/kit", "b/kit", "c/log"} |-> IF p = "c/log" THEN <<"log">> ELSE <<"kit">>]
MCKeywords == {<<"if">>}
=============================================================================
