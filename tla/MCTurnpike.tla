----------------------------- MODULE MCTurnpike -----------------------------
(* Instances of Turnpike for TLC: two projects that share the lock, the GUI *)
(* thread and a compile or debugger thread.                                *)
EXTENDS Turnpike

CONSTANTS p1, p2, gui, worker

TwoProjects == {p1, p2}
TwoListeners == <<p2, p1>>
OneProject == {p1}
OneListener == <<p1>>
TwoThreads == {gui, worker}
CalmKinds == {"command", "break", "start"}
ModalKinds == {"plain", "modal"}

=============================================================================
