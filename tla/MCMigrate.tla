------------------------------ MODULE MCMigrate --------------------------------
(***************************************************************************)
(* Two builds over one database.  The directories: two versions, the same  *)
(* with an older one added late, one version under another name, and one   *)
(* that lacks a file.                                                      *)
(***************************************************************************)
EXTENDS Migrate

Both(version, name) ==
  {[version |-> version, name |-> name, way |-> w] : w \in {"up", "down"}}

MCDirectories ==
  { Both(2, "a") \cup Both(3, "a"),
    Both(1, "a") \cup Both(2, "a") \cup Both(3, "a"),
    Both(2, "b"),
    Both(2, "a") \cup {[version |-> 3, name |-> "a", way |-> "up"]} }
=============================================================================
