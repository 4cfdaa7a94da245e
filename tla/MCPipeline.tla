---------------------------- MODULE MCPipeline -----------------------------
(* Recover outermost, as its comment asks, and inside AccessLog, as that    *)
(* one's does; then an application without it.                             *)
EXTENDS Pipeline

MCChains == {<<"accessLog", "recover", "cors", "security", "auth">>,
             <<"recover", "accessLog", "security", "cors", "auth">>,
             <<"cors", "security", "accessLog", "auth", "recover">>,
             <<"accessLog", "cors", "security", "auth">>}
=============================================================================
