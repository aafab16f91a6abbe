---------------------------- MODULE LineBroadcast ----------------------------
(***************************************************************************)
(* The line listeners of a shell (RemoteProject/ShellProxy.cpp).  Lines    *)
(* come from the shell thread, from the GUI thread (delayed compiler       *)
(* lines) and from the compile thread (the marker after a failed send).    *)
(* BroadcastLine copies the listener list under g_csLineData and then      *)
(* calls the copied pointers without it, last first.                       *)
(*                                                                         *)
(* Listeners come and go on other threads: editors while a build runs, the *)
(* log view, a script command's CCommandExecute.  The compile manager      *)
(* takes itself off the list when it is given the marker line.             *)
(***************************************************************************)
EXTENDS SequencesExt

CONSTANTS
  Listeners,
  Threads,    \* the threads that call BroadcastLine
  Manager,    \* the CCompileManager, one of the listeners
  MaxLines    \* bound: lines broadcast in a behaviour

ASSUME ManagerAssumption == Manager \in Listeners
ASSUME MaxLinesAssumption == MaxLines \in Nat

VARIABLES
  list,     \* m_LineListeners
  copy,     \* copy[b]: the local copy, LineListeners, of thread b
  pos,      \* pos[b]: index of the listener b calls or has just called
  step,     \* step[b]: where b is in BroadcastLine
  line,     \* line[b]: number of the line b broadcasts, 0 before its first
  marker,   \* marker[b]: that line is the termination marker
  count,    \* lines broadcast so far
  got,      \* got[l]: the lines l's OnIncomingLine has been given (history)
  stale     \* stale[b]: the list changed since b copied it (history)

lineVars == <<list, copy, pos, step, line, marker, count, got, stale>>

Members(q) == ToSet(q)
Without(q, l) == RemoveAt(q, CHOOSE i \in 1..Len(q) : q[i] = l)
AllStale == [b \in Threads |-> TRUE]

LineInit ==
  /\ list   = <<>>
  /\ copy   = [b \in Threads |-> <<>>]
  /\ pos    = [b \in Threads |-> 0]
  /\ step   = [b \in Threads |-> "idle"]
  /\ line   = [b \in Threads |-> 0]
  /\ marker = [b \in Threads |-> FALSE]
  /\ count  = 0
  /\ got    = [l \in Listeners |-> <<>>]
  /\ stale  = [b \in Threads |-> FALSE]

(* Variant: no search for the listener before it is added. *)
AddLineListenerTwice(l) ==
  /\ list'  = Append(list, l)
  /\ stale' = AllStale
  /\ UNCHANGED <<copy, pos, step, line, marker, count, got>>

(* A listener that is on the list already is not added again. *)
AddLineListener(l) ==
  /\ l \notin Members(list)
  /\ list'  = Append(list, l)
  /\ stale' = AllStale
  /\ UNCHANGED <<copy, pos, step, line, marker, count, got>>

RemoveLineListener(l) ==
  /\ l \in Members(list)
  /\ list'  = Without(list, l)
  /\ stale' = AllStale
  /\ UNCHANGED <<copy, pos, step, line, marker, count, got>>

(* Variant: the calls begin one entry too high. *)
CopyOneTooHigh(b) ==
  /\ step[b] = "idle" /\ count < MaxLines
  /\ count'  = count + 1
  /\ line'   = [line EXCEPT ![b] = count + 1]
  /\ marker' \in {[marker EXCEPT ![b] = m] : m \in BOOLEAN}
  /\ copy'   = [copy EXCEPT ![b] = list]
  /\ pos'    = [pos EXCEPT ![b] = Len(list) + 1]
  /\ step'   = [step EXCEPT ![b] = "call"]
  /\ stale'  = [stale EXCEPT ![b] = FALSE]
  /\ UNCHANGED <<list, got>>

(* BroadcastLine: the copy. *)
Copy(b) ==
  /\ step[b] = "idle" /\ count < MaxLines
  /\ count'  = count + 1
  /\ line'   = [line EXCEPT ![b] = count + 1]
  /\ marker' \in {[marker EXCEPT ![b] = m] : m \in BOOLEAN}
  /\ copy'   = [copy EXCEPT ![b] = list]
  /\ pos'    = [pos EXCEPT ![b] = Len(list)]
  /\ step'   = [step EXCEPT ![b] = IF list = <<>> THEN "idle" ELSE "call"]
  /\ stale'  = [stale EXCEPT ![b] = FALSE]
  /\ UNCHANGED <<list, got>>

(* LineListeners[i]->OnIncomingLine; the manager leaves at the marker. *)
Call(b) ==
  LET l == copy[b][pos[b]] IN
  /\ step[b] = "call"
  /\ step' = [step EXCEPT ![b] = "check"]
  /\ got'  = [got EXCEPT ![l] = Append(@, line[b])]
  /\ IF marker[b] /\ l = Manager /\ l \in Members(list)
     THEN list' = Without(list, l) /\ stale' = AllStale
     ELSE UNCHANGED <<list, stale>>
  /\ UNCHANGED <<copy, pos, line, marker, count>>

(* Variant: a list of another size is copied again instead of given up. *)
CheckRestarts(b) ==
  /\ step[b] = "check"
  /\ IF Len(list) # Len(copy[b]) /\ list # <<>>
     THEN /\ copy' = [copy EXCEPT ![b] = list]
          /\ pos'  = [pos EXCEPT ![b] = Len(list)]
          /\ step' = [step EXCEPT ![b] = "call"]
     ELSE /\ pos'  = [pos EXCEPT ![b] = @ - 1]
          /\ step' = [step EXCEPT ![b] = IF pos[b] = 1 THEN "idle" ELSE "call"]
          /\ UNCHANGED copy
  /\ UNCHANGED <<list, line, marker, count, got, stale>>

(* if( m_LineListeners.GetSize() != LineListeners.GetSize() ) break; *)
Check(b) ==
  /\ step[b] = "check"
  /\ pos'  = [pos EXCEPT ![b] = @ - 1]
  /\ step' = [step EXCEPT ![b] =
                IF Len(list) # Len(copy[b]) \/ pos[b] = 1 THEN "idle" ELSE "call"]
  /\ UNCHANGED <<list, copy, line, marker, count, got, stale>>

Broadcast(b) == Copy(b) \/ Call(b) \/ Check(b)

LineNext ==
  \/ \E l \in Listeners : AddLineListener(l) \/ RemoveLineListener(l)
  \/ \E b \in Threads : Broadcast(b)

LineSpec == LineInit /\ [][LineNext]_lineVars

-----------------------------------------------------------------------------
(* Type invariant of the listener list and of the broadcasting threads. *)
LineTypeOK ==
  /\ list \in Seq(Listeners)
  /\ copy \in [Threads -> Seq(Listeners)]
  /\ pos \in [Threads -> Nat]
  /\ step \in [Threads -> {"idle", "call", "check"}]
  /\ \A b \in Threads : step[b] # "idle" => pos[b] \in 1..Len(copy[b])
  /\ line \in [Threads -> Nat]
  /\ marker \in [Threads -> BOOLEAN]
  /\ count \in 0..MaxLines
  /\ got \in [Listeners -> Seq(Nat)]
  /\ stale \in [Threads -> BOOLEAN]

(* What else the steps rely on: no pointer is on a list twice, and a copy   *)
(* that is not the list any more is known to be stale.                      *)
CopiesInv ==
  /\ IsInjective(list)
  /\ \A b \in Threads :
       /\ IsInjective(copy[b])
       /\ step[b] # "idle" /\ ~stale[b] => copy[b] = list

(* The listeners a broadcast has not reached yet. *)
Pending(b) ==
  IF step[b] = "idle" THEN {}
  ELSE {copy[b][i] : i \in 1..(IF step[b] = "call" THEN pos[b] ELSE pos[b] - 1)}

Feed == INSTANCE LineFeed WITH
  members <- Members(list),
  to      <- [b \in Threads |-> Pending(b)],
  open    <- [b \in Threads |-> step[b] # "idle"]

(* BroadcastLine keeps what LineFeed says: nobody is given a line twice,    *)
(* nobody who was not registered at the copy is given it, and a listener    *)
(* that stays on the list is skipped only if another one came or went.      *)
FeedSpec == Feed!Spec

(* "Need to broadcast termination marker to allow gracefull closure of       *)
(* views" (CompileManager.cpp:114): the marker gets to every listener that  *)
(* was registered when it was sent and still is.                            *)
MarkerReachesViews ==
  [][\A b \in Threads :
       (step[b] = "check" /\ step'[b] = "idle" /\ marker[b]) =>
         \A l \in Members(copy[b]) \intersect Members(list) :
           \E k \in 1..Len(got[l]) : got[l][k] = line[b]]_lineVars

=============================================================================
