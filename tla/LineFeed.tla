------------------------------ MODULE LineFeed ------------------------------
(***************************************************************************)
(* What CShellManager promises its line listeners: a broadcast is offered  *)
(* once to each listener registered when it began, and to nobody else; it  *)
(* may be cut short only if somebody joined or left in the meantime.       *)
(***************************************************************************)
EXTENDS Naturals, Sequences

CONSTANTS Listeners, Threads, MaxLines

VARIABLES
  members,   \* the registered listeners
  count,     \* lines broadcast so far
  line,      \* line[b]: the line thread b broadcasts, 0 before its first
  to,        \* to[b]: listeners the broadcast of b has yet to reach
  open,      \* open[b]: b is broadcasting
  stale,     \* stale[b]: somebody joined or left since b began
  got        \* got[l]: the lines listener l has received

vars == <<members, count, line, to, open, stale, got>>

AllStale == [b \in Threads |-> TRUE]

Init ==
  /\ members \in SUBSET Listeners
  /\ count = 0
  /\ line  = [b \in Threads |-> 0]
  /\ to    = [b \in Threads |-> {}]
  /\ open  = [b \in Threads |-> FALSE]
  /\ stale = [b \in Threads |-> FALSE]
  /\ got   = [l \in Listeners |-> <<>>]

Join(l) ==
  /\ l \notin members
  /\ members' = members \union {l}
  /\ stale' = AllStale
  /\ UNCHANGED <<count, line, to, open, got>>

Leave(l) ==
  /\ l \in members
  /\ members' = members \ {l}
  /\ stale' = AllStale
  /\ UNCHANGED <<count, line, to, open, got>>

Begin(b) ==
  /\ ~open[b] /\ count < MaxLines
  /\ count' = count + 1
  /\ line'  = [line EXCEPT ![b] = count + 1]
  /\ to'    = [to EXCEPT ![b] = members]
  /\ open'  = [open EXCEPT ![b] = members # {}]
  /\ stale' = [stale EXCEPT ![b] = FALSE]
  /\ UNCHANGED <<members, got>>

(* A listener may unregister while it handles a line. *)
Hear(b, l) ==
  /\ open[b] /\ l \in to[b]
  /\ got' = [got EXCEPT ![l] = Append(@, line[b])]
  /\ to'  = [to EXCEPT ![b] = @ \ {l}]
  /\ \/ UNCHANGED <<members, stale>>
     \/ l \in members /\ members' = members \ {l} /\ stale' = AllStale
  /\ UNCHANGED <<count, line, open>>

End(b) ==
  /\ open[b]
  /\ to[b] = {} \/ stale[b]
  /\ to'   = [to EXCEPT ![b] = {}]
  /\ open' = [open EXCEPT ![b] = FALSE]
  /\ UNCHANGED <<members, count, line, stale, got>>

Next ==
  \/ \E l \in Listeners : Join(l) \/ Leave(l)
  \/ \E b \in Threads : Begin(b) \/ End(b) \/ \E l \in Listeners : Hear(b, l)

Spec == Init /\ [][Next]_vars

=============================================================================
