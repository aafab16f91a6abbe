------------------------- MODULE MCShellConnection -------------------------
(* An instance of ShellConnection for TLC. *)
EXTENDS ShellConnection

CONSTANTS gui, worker

OnlyGui == {gui}
Both == {gui, worker}

=============================================================================
