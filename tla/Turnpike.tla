------------------------------ MODULE Turnpike ------------------------------
(***************************************************************************)
(* The queue of delayed GUI calls (RemoteProject/Turnpike.cpp).  A thread  *)
(* that wants something done to the user interface adds an entry to the    *)
(* project's m_aLazyData and posts WM_COMMAND/ID_PROCESS to the main       *)
(* window, which hands it to every project's OnProcess.  One recursive     *)
(* critical section, g_csDelayedData, guards the queues of all projects.   *)
(*                                                                         *)
(* Some entries make OnProcess add entries, collect a debugger command or  *)
(* put up a modal box.  The message loop of the box dispatches further     *)
(* ID_PROCESS messages: OnProcess runs inside itself, on the same thread.  *)
(***************************************************************************)
EXTENDS Naturals, Sequences, SequencesExt, FiniteSets

CONSTANTS
  Projects,     \* the remote projects of the solution
  Listeners,    \* the projects in the order the main window tells them
  Threads,      \* threads that ask for calls
  Gui,          \* the GUI thread, one of them
  Kinds,        \* kinds of entries asked for
  MaxItems,     \* bound: entries a project's threads ask for
  MaxPosts      \* bound: messages at which a failed attempt re-posts no more

AllKinds == {"plain", "command", "break", "start", "kill", "modal"}

ASSUME GuiAssumption == Gui \in Threads
ASSUME KindsAssumption == Kinds \subseteq AllKinds
ASSUME NoneAssumption == "none" \notin Threads
ASSUME ListenersAssumption ==
  /\ Listeners \in Seq(Projects) /\ Listeners # <<>>
  /\ \A p \in Projects : \E k \in 1..Len(Listeners) : Listeners[k] = p
  /\ \A j, k \in 1..Len(Listeners) : Listeners[j] = Listeners[k] => j = k

VARIABLES
  lazy,     \* lazy[p]: m_aLazyData
  owner,    \* the thread inside g_csDelayedData, or "none"
  posts,    \* ID_PROCESS messages in the main window's queue
  pc,       \* pc[t]: where thread t is in a Delayed...() function
  work,     \* work[t]: what it adds
  stack,    \* the activations of OnProcess on the GUI thread, innermost last
  asked,    \* asked[p]: number of entries ever added (history)
  done,     \* done[p]: the numbers of the entries handled (history)
  issued    \* issued[p]: the commands given to the debugger (history)

vars == <<lazy, owner, posts, pc, work, stack, asked, done, issued>>

Item  == [n : Nat \ {0}, kind : AllKinds]
Frame == [at : 1..Len(Listeners), st : {"enter", "try", "loop", "modal", "clear", "send"},
          idx : Nat, cmds : Seq(Nat), upd : BOOLEAN]

(* The number under which the refresh of all debug views is recorded. *)
Refresh == 0

-----------------------------------------------------------------------------
(* A thread that asks for a call: Delayed...().  The GUI thread does so     *)
(* when it handles something else than ID_PROCESS.                         *)

Lock(t, p, kind) ==
  /\ pc[t] = "idle" /\ owner = "none"
  /\ t = Gui => stack = <<>>
  /\ asked[p] < MaxItems
  /\ pc'    = [pc EXCEPT ![t] = "locked"]
  /\ work'  = [work EXCEPT ![t] = [proj |-> p, kind |-> kind]]
  /\ owner' = t
  /\ UNCHANGED <<lazy, posts, stack, asked, done, issued>>

(* Add(items, p): the entries, numbered, at the end of the queue of p. *)
Numbered(p, kinds) == [k \in 1..Len(kinds) |-> [n |-> asked[p] + k, kind |-> kinds[k]]]

Add(p, kinds) ==
  /\ lazy'  = [lazy EXCEPT ![p] = @ \o Numbered(p, kinds)]
  /\ asked' = [asked EXCEPT ![p] = @ + Len(kinds)]

AddItem(t) ==
  /\ pc[t] = "locked"
  /\ pc' = [pc EXCEPT ![t] = "added"]
  /\ Add(work[t].proj, <<work[t].kind>>)
  /\ UNCHANGED <<owner, posts, work, stack, done, issued>>

(* Variant: the message is forgotten. *)
PostMessageForgotten(t) ==
  /\ pc[t] = "added"
  /\ pc'    = [pc EXCEPT ![t] = "idle"]
  /\ owner' = "none"
  /\ UNCHANGED <<lazy, posts, work, stack, asked, done, issued>>

PostMessage(t) ==
  /\ pc[t] = "added"
  /\ pc'    = [pc EXCEPT ![t] = "idle"]
  /\ posts' = posts + 1
  /\ owner' = "none"
  /\ UNCHANGED <<lazy, work, stack, asked, done, issued>>

-----------------------------------------------------------------------------
(* OnProcess, on the GUI thread.                                           *)

Depth == Len(stack)
Top   == stack[Depth]
Proj  == Listeners[Top.at]

Entry(k) == [at |-> k, st |-> "enter", idx |-> 0, cmds |-> <<>>, upd |-> FALSE]

SetTop(f) == stack' = [stack EXCEPT ![Depth] = f]

(* Variant: one listener too many. *)
NextListenerOneMore ==
  IF Top.at <= Len(Listeners)
  THEN SetTop(Entry(Top.at + 1))
  ELSE stack' = Front(stack)

(* The main window tells the next project, or the message is dealt with. *)
NextListener ==
  IF Top.at < Len(Listeners)
  THEN SetTop(Entry(Top.at + 1))
  ELSE stack' = Front(stack)

(* The message loop, the GUI's own or that of a modal box, takes a message. *)
Dispatch ==
  /\ posts > 0 /\ pc[Gui] = "idle"
  /\ stack # <<>> => Top.st = "modal"
  /\ posts' = posts - 1
  /\ stack' = Append(stack, Entry(1))
  /\ UNCHANGED <<lazy, owner, pc, work, asked, done, issued>>

(* `if( m_aLazyData.GetSize() == 0 ) return 0;`, read without the lock *)
Enter ==
  /\ Depth > 0 /\ Top.st = "enter"
  /\ IF lazy[Proj] = <<>> THEN NextListener ELSE SetTop([Top EXCEPT !.st = "try"])
  /\ UNCHANGED <<lazy, owner, posts, pc, work, asked, done, issued>>

(* TryEnterCriticalSection: a thread that owns the section gets in again. *)
TryEnter ==
  /\ Depth > 0 /\ Top.st = "try"
  /\ owner \in {"none", Gui}
  /\ owner' = Gui
  /\ SetTop([Top EXCEPT !.st = "loop"])
  /\ UNCHANGED <<lazy, posts, pc, work, asked, done, issued>>

(* Variant: a failed attempt is not repeated. *)
RepostDropped ==
  /\ Depth > 0 /\ Top.st = "try"
  /\ owner \notin {"none", Gui}
  /\ NextListener
  /\ UNCHANGED <<lazy, owner, posts, pc, work, asked, done, issued>>

Repost ==
  /\ Depth > 0 /\ Top.st = "try"
  /\ owner \notin {"none", Gui} /\ posts < MaxPosts
  /\ posts' = posts + 1
  /\ NextListener
  /\ UNCHANGED <<lazy, owner, pc, work, asked, done, issued>>

(* The entry the loop is at, and the calls its handler asks for: the start  *)
(* of a debug session asks for two, its end for one.                       *)
Current == lazy[Proj][Top.idx + 1]

Asks(kind) == CASE kind = "start" -> <<"plain", "plain">>
                [] kind = "kill"  -> <<"plain">>
                [] OTHER          -> <<>>

(* A view that cannot be opened puts up a box, unless one is up already.    *)
InModal == \E k \in 1..Depth : stack[k].st = "modal"

Advance == [Top EXCEPT !.idx = @ + 1]

Handled(f) ==
  /\ SetTop(f)
  /\ done' = [done EXCEPT ![Proj] = Append(@, Current.n)]
  /\ Add(Proj, Asks(Current.kind))
  /\ posts' = posts + Len(Asks(Current.kind))
  /\ UNCHANGED <<owner, pc, work, issued>>

Looping == Depth > 0 /\ Top.st = "loop"

HandlePlain ==
  /\ Looping /\ Top.idx < Len(lazy[Proj])
  /\ Current.kind \in {"plain", "start", "kill"} \/ (Current.kind = "modal" /\ InModal)
  /\ Handled(Advance)

HandleCommand ==
  /\ Looping /\ Top.idx < Len(lazy[Proj]) /\ Current.kind = "command"
  /\ Handled([Advance EXCEPT !.cmds = Append(@, Current.n)])

HandleBreak ==
  /\ Looping /\ Top.idx < Len(lazy[Proj]) /\ Current.kind = "break"
  /\ Handled([Advance EXCEPT !.upd = TRUE])

HandleModal ==
  /\ Looping /\ Top.idx < Len(lazy[Proj]) /\ Current.kind = "modal" /\ ~InModal
  /\ Handled([Top EXCEPT !.st = "modal"])

CloseBox ==
  /\ Depth > 0 /\ Top.st = "modal"
  /\ SetTop([Advance EXCEPT !.st = "loop"])
  /\ UNCHANGED <<lazy, owner, posts, pc, work, asked, done, issued>>

(* Variant: the loop ends after one entry. *)
LoopOverEarly ==
  /\ Looping /\ Top.idx >= 1
  /\ SetTop([Top EXCEPT !.st = "clear"])
  /\ UNCHANGED <<lazy, owner, posts, pc, work, asked, done, issued>>

(* The loop is over; after a break the views add their commands. *)
LoopOver ==
  /\ Looping /\ Top.idx >= Len(lazy[Proj])
  /\ SetTop([Top EXCEPT !.st = "clear",
                        !.cmds = IF Top.upd THEN Append(@, Refresh) ELSE @])
  /\ UNCHANGED <<lazy, owner, posts, pc, work, asked, done, issued>>

(* Variant: the queue is not emptied. *)
RemoveAllForgotten ==
  /\ Depth > 0 /\ Top.st = "clear"
  /\ owner' = IF Depth = 1 THEN "none" ELSE Gui
  /\ SetTop([Top EXCEPT !.st = "send"])
  /\ UNCHANGED <<lazy, posts, pc, work, asked, done, issued>>

(* m_aLazyData.RemoveAll(), and the section is left; an outer activation   *)
(* still owns it.                                                          *)
RemoveAll ==
  /\ Depth > 0 /\ Top.st = "clear"
  /\ lazy'  = [lazy EXCEPT ![Proj] = <<>>]
  /\ owner' = IF Depth = 1 THEN "none" ELSE Gui
  /\ SetTop([Top EXCEPT !.st = "send"])
  /\ UNCHANGED <<posts, pc, work, asked, done, issued>>

(* DoDebugCommand for every command collected, without the lock. *)
SendDebugCommand ==
  /\ Depth > 0 /\ Top.st = "send" /\ Top.cmds # <<>>
  /\ issued' = [issued EXCEPT ![Proj] = Append(@, Head(Top.cmds))]
  /\ SetTop([Top EXCEPT !.cmds = Tail(@)])
  /\ UNCHANGED <<lazy, owner, posts, pc, work, asked, done>>

Return ==
  /\ Depth > 0 /\ Top.st = "send" /\ Top.cmds = <<>>
  /\ NextListener
  /\ UNCHANGED <<lazy, owner, posts, pc, work, asked, done, issued>>

OnProcess ==
  \/ Enter \/ TryEnter \/ Repost \/ HandlePlain \/ HandleCommand \/ HandleBreak
  \/ LoopOver \/ RemoveAll \/ SendDebugCommand \/ Return

-----------------------------------------------------------------------------
Init ==
  /\ lazy   = [p \in Projects |-> <<>>]
  /\ owner  = "none"
  /\ posts  = 0
  /\ pc     = [t \in Threads |-> "idle"]
  /\ work   \in [Threads -> {[proj |-> p, kind |-> "plain"] : p \in {Listeners[1]}}]
  /\ stack  = <<>>
  /\ asked  = [p \in Projects |-> 0]
  /\ done   = [p \in Projects |-> <<>>]
  /\ issued = [p \in Projects |-> <<>>]

Next ==
  \/ \E t \in Threads :
       \/ \E p \in Projects, kind \in Kinds : Lock(t, p, kind)
       \/ AddItem(t) \/ PostMessage(t)
  \/ Dispatch \/ OnProcess

Spec == Init /\ [][Next]_vars

(* The same with entries that put up a box. *)
NestedNext == Next \/ HandleModal \/ CloseBox
NestedSpec == Init /\ [][NestedNext]_vars

(* The message loop runs and every thread leaves its Delayed...() function. *)
Fairness ==
  /\ WF_vars(Dispatch \/ OnProcess)
  /\ \A t \in Threads : WF_vars(AddItem(t) \/ PostMessage(t))

FairSpec == Spec /\ Fairness

-----------------------------------------------------------------------------
(* The types of the queue, the lock and the activations.                   *)
TypeOK ==
  /\ lazy   \in [Projects -> Seq(Item)]
  /\ owner  \in Threads \union {"none"}
  /\ posts  \in Nat
  /\ pc     \in [Threads -> {"idle", "locked", "added"}]
  /\ work   \in [Threads -> [proj : Projects, kind : AllKinds]]
  /\ stack  \in Seq(Frame)
  /\ asked  \in [Projects -> Nat]
  /\ done   \in [Projects -> Seq(Nat)]
  /\ issued \in [Projects -> Seq(Nat)]

(* Activation f still comes to project p and will look at its queue.        *)
WillVisit(f, p) ==
  \E k \in f.at..Len(Listeners) :
    Listeners[k] = p /\ (k = f.at => f.st # "send")

(* No wake-up is lost although the queue is first read without the lock and *)
(* a failed attempt gives up: an entry that waits has a message underway,  *)
(* a thread about to post one, or an activation that will come to it.      *)
NoLostPost ==
  \A p \in Projects : lazy[p] # <<>> =>
    \/ posts > 0
    \/ \E t \in Threads : pc[t] = "added" /\ work[t].proj = p
    \/ \E k \in 1..Depth : WillVisit(stack[k], p)

(* ATLASSERT(m_aLazyData.GetSize()==iIndex) at the end of the loop          *)
(* (Turnpike.cpp:267-270): "Make sure we're processing all commands in the *)
(* queue; new commands may get added during the processing above but we    *)
(* should detect them during the loop."                                    *)
WholeQueueProcessed ==
  (Depth > 0 /\ Top.st = "clear") => Top.idx = Len(lazy[Proj])

(* Commands, refreshes of the views aside, in the order of their numbers.   *)
InOrder(cmds) ==
  \A i, j \in 1..Len(cmds) :
    i < j /\ Refresh \notin {cmds[i], cmds[j]} => cmds[i] < cmds[j]

(* The debugger is given the commands of a project in the order in which    *)
(* they were asked for and each of them once, over all batches, although   *)
(* they leave the queue before they are sent.                              *)
CommandsInOrder == \A p \in Projects : InOrder(issued[p])

(* OnProcess with the Delayed...() functions implements DelayedCalls.       *)
Calls == INSTANCE DelayedCalls
CallsSpec == Calls!Spec

(* Why it does, as long as no entry puts up a box: there is one activation  *)
(* at most, whoever adds owns the lock, and so does an activation from its  *)
(* first look at an entry to the moment it has emptied the queue ...        *)
Inside == Depth > 0 /\ Top.st \in {"loop", "clear"}

LockInv ==
  /\ Depth <= 1
  /\ Depth > 0 => Top.st # "modal" /\ pc[Gui] = "idle"
  /\ \A t \in Threads : pc[t] # "idle" => owner = t
  /\ Inside => owner = Gui

(* ... and the queue holds the last calls asked for, of which the           *)
(* activation has handled those up to its index.                           *)
Progress(p) == IF Inside /\ Proj = p THEN Top.idx ELSE 0

QueueInv ==
  /\ Depth > 0 /\ Top.st \in {"enter", "try"} => Top.idx = 0
  /\ Inside => Top.idx <= Len(lazy[Proj])
  /\ Depth > 0 /\ Top.st = "clear" => Top.idx = Len(lazy[Proj])
  /\ \A p \in Projects :
       /\ \A k \in 1..Len(lazy[p]) : lazy[p][k].n + Len(lazy[p]) = asked[p] + k
       /\ Len(done[p]) + Len(lazy[p]) = asked[p] + Progress(p)

(* The commands sent, then those collected and still to be sent, are in     *)
(* order, and none of them is later than the calls handled so far.          *)
SentInv ==
  /\ \A p \in Projects :
       InOrder(issued[p]) /\ \A k \in 1..Len(issued[p]) : issued[p][k] <= Len(done[p])
  /\ Depth > 0 =>
       /\ Top.st \in {"enter", "try"} => Top.cmds = <<>>
       /\ InOrder(Top.cmds)
       /\ \A k \in 1..Len(Top.cmds) : Top.cmds[k] <= Len(done[Proj])
       /\ \A i \in 1..Len(issued[Proj]), k \in 1..Len(Top.cmds) :
            Refresh \notin {issued[Proj][i], Top.cmds[k]} => issued[Proj][i] < Top.cmds[k]

(* Every call asked for is carried out sooner or later.                     *)
EveryCallDone == \A p \in Projects : []<>(Len(done[p]) = asked[p])

=============================================================================
