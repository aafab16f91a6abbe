---------------------------- MODULE DelayedCalls ----------------------------
(***************************************************************************)
(* What the queue of delayed GUI calls promises (RemoteProject/            *)
(* Turnpike.cpp, comment of OnProcess): whatever thread asks for a call,   *)
(* the GUI carries out the calls of a project one by one, each exactly     *)
(* once, in the order in which they were asked for.                        *)
(***************************************************************************)
EXTENDS Naturals, Sequences

CONSTANT Projects

VARIABLES
  asked,   \* asked[p]: number of calls asked for
  done     \* done[p]: the calls carried out, by their number

Init ==
  /\ asked = [p \in Projects |-> 0]
  /\ done  = [p \in Projects |-> <<>>]

(* A call that is carried out may itself ask for more. *)
Step(p) ==
  /\ asked' \in [Projects -> Nat]
  /\ asked'[p] >= asked[p]
  /\ \A q \in Projects \ {p} : asked'[q] = asked[q]
  /\ \/ UNCHANGED done
     \/ /\ Len(done[p]) < asked[p]
        /\ done' = [done EXCEPT ![p] = Append(@, Len(@) + 1)]

Next == \E p \in Projects : Step(p)

Spec == Init /\ [][Next]_<<asked, done>>

=============================================================================
