----------------------------- MODULE MigrationLog ------------------------------
(***************************************************************************)
(* What the code of src/migrate keeps of a database, whoever migrates it   *)
(* and whatever fails: the schema and the table of applied migrations      *)
(* change together, one version at a time; a version is applied when it is *)
(* not recorded, and the highest recorded version is the one rolled back.  *)
(***************************************************************************)
EXTENDS Naturals

CONSTANT Migrations   (* records of a version and a name                   *)

VARIABLES
  recorded,           (* the rows of the metadata table                    *)
  schema              (* the versions whose statements are in effect       *)

log == <<recorded, schema>>

Versions(rows) == {m.version : m \in rows}

Init == recorded = {} /\ schema = {}

Apply(m) ==
  /\ m.version \notin Versions(recorded)
  /\ recorded' = recorded \cup {m}
  /\ schema' = schema \cup {m.version}

\* The highest version recorded, as runner.go:184 and sqlite.go:110-112 sort them.  The
\* comment on Down (runner.go:151, "rolls back the most recently applied migrations")
\* and docs/MIGRATIONS.md:97 ("Roll back the most recently applied migration") say
\* another thing: once a lower version is applied late, that one is the most recent.
Rollback(m) ==
  /\ m \in recorded /\ \A n \in recorded : n.version <= m.version
  /\ recorded' = recorded \ {m}
  /\ schema' = schema \ {m.version}

Next == \E m \in Migrations : Apply(m) \/ Rollback(m)

Spec == Init /\ [][Next]_log
=============================================================================
