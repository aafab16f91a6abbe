---------------------------- MODULE MCBuildAndLines ----------------------------
(***************************************************************************)
(* Small instances of two parts that share no state, for TLC: builds in the  *)
(* steady environment, and the line listeners.  One `part` is played in     *)
(* each behaviour, and the variables of the other stay as they begin.       *)
(***************************************************************************)
EXTENDS MCCompileSession, MCLineBroadcast

VARIABLE part

MCInit ==
  /\ part \in {"builds", "lines"}
  /\ Init /\ LineInit

MCNext ==
  \/ /\ part = "builds" /\ SteadyNext
     /\ UNCHANGED <<lineVars, part>>
  \/ /\ part = "lines" /\ LineNext
     /\ UNCHANGED <<vars, part>>

MCSpec == MCInit /\ [][MCNext]_<<vars, lineVars, part>>

=============================================================================
