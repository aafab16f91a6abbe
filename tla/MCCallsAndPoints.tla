--------------------------- MODULE MCCallsAndPoints ---------------------------
(***************************************************************************)
(* Small instances of two parts that share no state, for TLC: the event     *)
(* queue of the GUI thread, and the break points.  One `part` is played in  *)
(* each behaviour, and the variables of the other stay as they begin.       *)
(***************************************************************************)
EXTENDS MCTurnpike, BreakPoints

VARIABLE part

MCInit ==
  /\ part \in {"calls", "points"}
  /\ Init /\ PointInit
  /\ part = "calls" => marks = <<>>

MCNext ==
  \/ /\ part = "calls" /\ Next
     /\ UNCHANGED <<pointVars, part>>
  \/ /\ part = "points" /\ PointNext
     /\ UNCHANGED <<vars, part>>

(* The fairness of Turnpike, whose actions wait for a message or the lock:  *)
(* none is enabled in the other part.                                      *)
MCSpec == MCInit /\ [][MCNext]_<<vars, pointVars, part>> /\ Fairness

=============================================================================
