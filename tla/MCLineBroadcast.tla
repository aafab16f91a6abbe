--------------------------- MODULE MCLineBroadcast ---------------------------
(* Small instances of LineBroadcast for TLC. *)
EXTENDS LineBroadcast

CONSTANTS manager, editor, log, shellThread, guiThread

AllListeners == {manager, editor, log}
ViewsAndManager == {manager, log}
TwoThreads == {shellThread, guiThread}
OneThread == {shellThread}

=============================================================================
