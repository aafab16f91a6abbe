--------------------------- MODULE MCDebugSession ---------------------------
(* An instance of DebugSession for TLC: three stop threads may be created. *)
EXTENDS DebugSession

CONSTANTS s1, s2, s3

StopThreads == {s1, s2, s3}

=============================================================================
