----------------------------- MODULE MCDevLoop -----------------------------
(* A watched source, a watched file without an extension that counts, one  *)
(* in a directory the walk skips and one of a kind it does not watch.      *)
EXTENDS DevLoop

File(d, n, e) == [dir |-> d, name |-> n, ext |-> e]
MCFiles == {File("cmd", "main.go", ".go"), File(".", ".env", ".env"),
            File("bin", "gen.go", ".go"), File("views", "page.html", ".html")}
=============================================================================
