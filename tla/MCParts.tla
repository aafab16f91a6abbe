------------------------------- MODULE MCParts -------------------------------
(***************************************************************************)
(* Small instances of the parts that share no state, for TLC: one `scene`   *)
(* is played in each behaviour, and the variables of the others stay as     *)
(* they begin.                                                             *)
(***************************************************************************)
EXTENDS SftpTransfer, QueryThread, TagCache, MCDebugSession

VARIABLE scene

sceneVars == <<vars, ftpVars, queryVars, tagVars, scene>>

PartsInit ==
  /\ scene \in {"debug", "transfer", "query", "symbols"}
  /\ Init /\ FtpInit /\ QueryInit /\ TagInit
  /\ scene # "query" => terminator
  /\ showing

PartsNext ==
  \/ /\ scene = "debug" /\ Next
     /\ UNCHANGED <<ftpVars, queryVars, tagVars, scene>>
  \/ /\ scene = "transfer" /\ FtpNext
     /\ UNCHANGED <<vars, queryVars, tagVars, scene>>
  \/ /\ scene = "query" /\ QueryNext
     /\ UNCHANGED <<vars, ftpVars, tagVars, scene>>
  \/ /\ scene = "symbols" /\ TagNext
     /\ UNCHANGED <<vars, ftpVars, queryVars, scene>>

(* The fairness of DebugSession, in its scene. *)
SceneFairness ==
  /\ WF_vars(scene = "debug" /\ Starting) /\ WF_vars(scene = "debug" /\ Seen)
  /\ WF_vars(scene = "debug" /\ told /\ ShellEnds)
  /\ \A t \in Threads : WF_vars(scene = "debug" /\ (Cleaning(t) \/ Ends(t)))
  /\ \A k \in Stops : WF_vars(scene = "debug" /\ Watch(k))

PartsSpec == PartsInit /\ [][PartsNext]_sceneVars /\ SceneFairness

=============================================================================
