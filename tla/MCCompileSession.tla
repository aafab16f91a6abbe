--------------------------- MODULE MCCompileSession ---------------------------
(* Small instances of CompileSession for TLC. *)
EXTENDS CompileSessionProps

CONSTANTS gui, p1, p2

OnlyGui    == {gui}
OneProject == {p1}
TwoProjects == {p1, p2}

=============================================================================
