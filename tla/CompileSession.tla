--------------------------- MODULE CompileSession ---------------------------
(***************************************************************************)
(* The build side of the RemoteProject plug-in: CCompileManager, its       *)
(* CCompileThread and the shell thread it talks through                    *)
(* (RemoteProject/CompileManager.cpp, Source/CPP/Include/Thread.h).        *)
(*                                                                         *)
(* Every project owns a manager, a compile thread that feeds queued        *)
(* commands to the remote shell, and a shell thread that brings lines      *)
(* back.  One busy flag, s_bBusy, is shared by the managers of all         *)
(* projects.  A build queues its commands and then a marker; when the      *)
(* remote shell echoes the marker the session is over.                     *)
(*                                                                         *)
(* Clients are the threads that call the managers: the GUI thread and the  *)
(* solution-rebuild thread.  The remote host is a FIFO of commands it has  *)
(* received and not yet answered.                                          *)
(***************************************************************************)
EXTENDS Naturals, Sequences, FiniteSets

CONSTANTS
  Projects,     \* the projects of the solution
  Clients,      \* threads that call DoAction, Start and Stop
  Gui,          \* the GUI thread, one of the clients
  Batch,        \* shell commands of a session, the marker not counted
  MaxSessions   \* bound: sessions queued in a behaviour

ASSUME GuiAssumption == Gui \in Clients
ASSUME BatchAssumption == Batch \in Nat \ {0}
ASSUME MaxSessionsAssumption == MaxSessions \in Nat

VARIABLES
  pc,           \* pc[c]: where client c is in DoAction/_StartProcess/Stop
  job,          \* job[c]: the project and the operation c works on
  sess,         \* every session queued so far, numbered by its position
  queue,        \* queue[p]: m_CompileThread.m_aCommands
  aFlags,       \* aFlags[p]: m_CompileThread.m_aFlags
  cpc,          \* cpc[p]: where the compile thread is in Run()
  local,        \* local[p]: aActions, the batch the thread is sending
  cstop,        \* cstop[p]: m_bStopped of the compile thread
  event,        \* event[p]: m_event, an auto-reset event
  flags,        \* flags[p]: m_Flags, the flags of the active session
  busy,         \* s_bBusy, shared by all managers
  compiling,    \* compiling[p]: m_bCompiling
  listening,    \* listening[p]: the manager is a line listener of its shell
  shell,        \* shell[p]: state of the shell thread
  shellStop,    \* shellStop[p]: m_bStopped of the shell thread
  host,         \* host[p]: commands the remote host has not answered
  sent,         \* sent[p]: every command written to the host (history)
  delayed       \* projects with a marker line waiting in the GUI queue

clientVars == <<pc, job, sess>>
threadVars == <<queue, aFlags, cpc, local, cstop, event>>
stateVars  == <<flags, busy, compiling, listening>>
shellVars  == <<shell, shellStop, host, sent>>
vars == <<clientVars, threadVars, stateVars, shellVars, delayed>>

-----------------------------------------------------------------------------
(* Sessions.  A "build" stands for Build/Rebuild/Compile/Clean..., a "cz"   *)
(* for the silent scripting command.                                       *)

Kinds == {"build", "cz"}
Flag  == {"COMMANDMODE", "IGNOREOUTPUT", "BUILDSESSION"}

SessionFlags(kind) ==
  IF kind = "build" THEN {"BUILDSESSION"} ELSE {"COMMANDMODE", "IGNOREOUTPUT"}

Session == [proj : Projects, kind : Kinds]
Op      == Kinds \union {"connect", "close"}
Job     == [proj : Projects, op : Op]

(* Command i of session s; the last one is TERM_MARKER. *)
Command == [s : Nat \ {0}, i : 1..(Batch + 1)]
IsMarker(cmd) == cmd.i = Batch + 1

(* Variant: the marker is queued twice. *)
ScriptTwoMarkers(s) == [k \in 1..(Batch + 2) |-> [s |-> s, i |-> k]]

(* What _StartProcess queues for session s: its commands, then the marker. *)
Script(s) == [k \in 1..(Batch + 1) |-> [s |-> s, i |-> k]]

IsConnected(p) == cpc[p] # "off" /\ shell[p] = "up"

AllIdle == \A c \in Clients : pc[c] = "idle"

-----------------------------------------------------------------------------
(* Variant: SignalStop forgets to wake the compile thread. *)
SignalStopNoWakeUp(p) ==
  /\ shellStop' = [shellStop EXCEPT ![p] = TRUE]
  /\ cstop'     = [cstop EXCEPT ![p] = TRUE]
  /\ compiling' = [compiling EXCEPT ![p] = FALSE]
  /\ busy'      = FALSE
  /\ flags'     = [flags EXCEPT ![p] = {}]
  /\ UNCHANGED event

(* CCompileManager::SignalStop, without the calls that only repaint views. *)

SignalStop(p) ==
  /\ shellStop' = [shellStop EXCEPT ![p] = TRUE]
  /\ cstop'     = [cstop EXCEPT ![p] = TRUE]
  /\ event'     = [event EXCEPT ![p] = TRUE]
  /\ compiling' = [compiling EXCEPT ![p] = FALSE]
  /\ busy'      = FALSE
  /\ flags'     = [flags EXCEPT ![p] = {}]

(* Variant: the marker does not release the busy flag. *)
MarkerLineKeepsBusy(p) ==
  /\ listening' = [listening EXCEPT ![p] = FALSE]
  /\ flags'     = [flags EXCEPT ![p] = {}]
  /\ compiling' = [compiling EXCEPT ![p] = FALSE]
  /\ UNCHANGED busy

(* OnIncomingLine for a line that holds the marker: whoever broadcasts it,  *)
(* the session ends if the manager is still listening.                     *)
MarkerLine(p) ==
  IF listening[p]
  THEN /\ listening' = [listening EXCEPT ![p] = FALSE]
       /\ flags'     = [flags EXCEPT ![p] = {}]
       /\ busy'      = FALSE
       /\ compiling' = [compiling EXCEPT ![p] = FALSE]
  ELSE UNCHANGED stateVars

-----------------------------------------------------------------------------
(* The client threads.                                                     *)

Goto(c, from, to) == pc[c] = from /\ pc' = [pc EXCEPT ![c] = to]

(* Sessions queued, plus those that clients are about to queue. *)
InFlight == {c \in Clients : pc[c] # "idle" /\ job[c].op \in Kinds}

Request(c, p, op) ==
  /\ Goto(c, "idle", "enter")
  /\ op \in Kinds => Len(sess) + Cardinality(InFlight) < MaxSessions
  /\ job' = [job EXCEPT ![c] = [proj |-> p, op |-> op]]
  /\ UNCHANGED <<sess, threadVars, stateVars, shellVars, delayed>>

(* `if( !IsConnected() ) Start();` and Stop(): signal, stop listening, join *)
EnterConnected(c) ==
  LET p == job[c].proj IN
  /\ job[c].op # "close" /\ IsConnected(p)
  /\ Goto(c, "enter", IF job[c].op = "connect" THEN "idle" ELSE "check")
  /\ UNCHANGED <<job, sess, threadVars, stateVars, shellVars, delayed>>

EnterStop(c) ==
  LET p == job[c].proj IN
  /\ job[c].op = "close" \/ ~IsConnected(p)
  /\ Goto(c, "enter", "joinShell")
  /\ SignalStop(p)
  /\ listening' = [listening EXCEPT ![p] = FALSE]
  /\ UNCHANGED <<job, sess, queue, aFlags, cpc, local, shell, host, sent, delayed>>

(* The shell thread is gone; m_CompileThread.Stop() sets its stop flag. *)
JoinShell(c) ==
  /\ shell[job[c].proj] = "off"
  /\ Goto(c, "joinShell", "joinThread")
  /\ cstop' = [cstop EXCEPT ![job[c].proj] = TRUE]
  /\ UNCHANGED <<job, sess, queue, aFlags, cpc, local, event, stateVars, shellVars, delayed>>

(* The end of Stop(), and for Start() the two new threads. *)
JoinThread(c) ==
  LET p == job[c].proj
      op == job[c].op IN
  /\ cpc[p] = "off"
  /\ Goto(c, "joinThread", IF op \in Kinds THEN "check" ELSE "idle")
  /\ compiling' = [compiling EXCEPT ![p] = FALSE]
  /\ busy'      = FALSE
  /\ flags'     = [flags EXCEPT ![p] = {}]
  /\ IF op = "close"
     THEN UNCHANGED <<shell, shellStop, cpc, cstop>>
     ELSE /\ shell'     = [shell EXCEPT ![p] = "connecting"]
          /\ shellStop' = [shellStop EXCEPT ![p] = FALSE]
          /\ cpc'       = [cpc EXCEPT ![p] = "wait"]
          /\ cstop'     = [cstop EXCEPT ![p] = FALSE]
  /\ UNCHANGED <<job, sess, queue, aFlags, local, event, listening, host, sent, delayed>>

(* Variant: no busy check. *)
CheckBusyNever(c) ==
  /\ Goto(c, "check", IF shell[job[c].proj] = "up" THEN "listen" ELSE "ask")
  /\ UNCHANGED <<job, sess, threadVars, stateVars, shellVars, delayed>>

(* `if( IsBusy() ) ... return false;` *)
CheckBusy(c) ==
  /\ Goto(c, "check", IF busy THEN "idle"
                      ELSE IF shell[job[c].proj] = "up" THEN "listen" ELSE "ask")
  /\ UNCHANGED <<job, sess, threadVars, stateVars, shellVars, delayed>>

(* Not connected: a silent command gives up, the user may give up; else    *)
(* WaitForConnection(), whose result is ignored, returns sooner or later.  *)
Ask(c) ==
  /\ \/ Goto(c, "ask", "idle")
     \/ job[c].op # "cz" /\ Goto(c, "ask", "listen")
  /\ UNCHANGED <<job, sess, threadVars, stateVars, shellVars, delayed>>

Listen(c) ==
  /\ Goto(c, "listen", "enqueue")
  /\ listening' = [listening EXCEPT ![job[c].proj] = TRUE]
  /\ UNCHANGED <<job, sess, threadVars, flags, busy, compiling, shellVars, delayed>>

(* The commands, the marker and the flags go in under m_CompileThread.m_cs *)
Enqueue(c) ==
  LET p == job[c].proj IN
  /\ Goto(c, "enqueue", "signal")
  /\ sess'   = Append(sess, [proj |-> p, kind |-> job[c].op])
  /\ queue'  = [queue EXCEPT ![p] = @ \o Script(Len(sess) + 1)]
  /\ aFlags' = [aFlags EXCEPT ![p] = Append(@, SessionFlags(job[c].op))]
  /\ UNCHANGED <<job, cpc, local, cstop, event, stateVars, shellVars, delayed>>

(* `s_bBusy = true; m_bCompiling = true; ... m_event.SetEvent();` *)
SignalData(c) ==
  LET p == job[c].proj IN
  /\ Goto(c, "signal", "idle")
  /\ busy'      = TRUE
  /\ compiling' = [compiling EXCEPT ![p] = TRUE]
  /\ event'     = [event EXCEPT ![p] = TRUE]
  /\ UNCHANGED <<job, sess, queue, aFlags, cpc, local, cstop, flags, listening,
                 shellVars, delayed>>

(* DoAction("Stop"): signal, and send the marker the long way round. *)
StopBuild(p) ==
  /\ pc[Gui] = "idle" /\ compiling[p]
  /\ SignalStop(p)
  /\ delayed' = delayed \union {p}
  /\ UNCHANGED <<clientVars, queue, aFlags, cpc, local, listening, shell, host, sent>>

(* CRemoteProject::OnProcess broadcasts a delayed marker line; the GUI     *)
(* thread does so between commands and while it shows the question box.    *)
OnProcess(p) ==
  /\ pc[Gui] \in {"idle", "ask"} /\ p \in delayed
  /\ delayed' = delayed \ {p}
  /\ MarkerLine(p)
  /\ UNCHANGED <<clientVars, threadVars, shellVars>>

Client(c) ==
  \/ \E p \in Projects, op \in Op : Request(c, p, op)
  \/ EnterConnected(c) \/ EnterStop(c) \/ JoinShell(c) \/ JoinThread(c)
  \/ CheckBusy(c) \/ Ask(c) \/ Listen(c) \/ Enqueue(c) \/ SignalData(c)

-----------------------------------------------------------------------------
(* CCompileThread::Run                                                     *)

ThreadGoto(p, from, to) == cpc[p] = from /\ cpc' = [cpc EXCEPT ![p] = to]

(* m_event.WaitForEvent(); if( ShouldStop() ) break; *)
WakeUp(p) ==
  /\ event[p]
  /\ ThreadGoto(p, "wait", IF cstop[p] THEN "off" ELSE "take")
  /\ event' = [event EXCEPT ![p] = FALSE]
  /\ UNCHANGED <<clientVars, queue, aFlags, local, cstop, stateVars, shellVars, delayed>>

(* Variants: the taken commands stay queued; the taken flags stay. *)
TakeBatchKeepsQueue(p) ==
  /\ ThreadGoto(p, "take", "send")
  /\ local'  = [local EXCEPT ![p] = queue[p]]
  /\ flags'  = [flags EXCEPT ![p] = UNION {aFlags[p][k] : k \in 1..Len(aFlags[p])}]
  /\ aFlags' = [aFlags EXCEPT ![p] = <<>>]
  /\ UNCHANGED <<clientVars, queue, cstop, event, busy, compiling, listening, shellVars, delayed>>

TakeBatchKeepsFlags(p) ==
  /\ ThreadGoto(p, "take", "send")
  /\ local'  = [local EXCEPT ![p] = queue[p]]
  /\ queue'  = [queue EXCEPT ![p] = <<>>]
  /\ flags'  = [flags EXCEPT ![p] = UNION {aFlags[p][k] : k \in 1..Len(aFlags[p])}]
  /\ UNCHANGED <<clientVars, aFlags, cstop, event, busy, compiling, listening, shellVars, delayed>>

(* The queued commands become aActions and their flags m_Flags, under m_cs. *)
TakeBatch(p) ==
  /\ ThreadGoto(p, "take", "send")
  /\ local'  = [local EXCEPT ![p] = queue[p]]
  /\ queue'  = [queue EXCEPT ![p] = <<>>]
  /\ flags'  = [flags EXCEPT ![p] = UNION {aFlags[p][k] : k \in 1..Len(aFlags[p])}]
  /\ aFlags' = [aFlags EXCEPT ![p] = <<>>]
  /\ UNCHANGED <<clientVars, cstop, event, busy, compiling, listening, shellVars, delayed>>

(* WriteData succeeds only on a live connection nobody has told to stop. *)
SendCommand(p) ==
  /\ local[p] # <<>> /\ shell[p] = "up" /\ ~shellStop[p]
  /\ ThreadGoto(p, "send", "sent")
  /\ sent'  = [sent EXCEPT ![p] = Append(@, Head(local[p]))]
  /\ host'  = [host EXCEPT ![p] = Append(@, Head(local[p]))]
  /\ local' = [local EXCEPT ![p] = Tail(@)]
  /\ UNCHANGED <<clientVars, queue, aFlags, cstop, event, stateVars, shell, shellStop, delayed>>

(* Variant: a command that cannot be sent is skipped. *)
SendFailsSkips(p) ==
  /\ local[p] # <<>>
  /\ ThreadGoto(p, "send", "sent")
  /\ local' = [local EXCEPT ![p] = Tail(@)]
  /\ UNCHANGED <<clientVars, queue, aFlags, cstop, event, stateVars, shellVars, delayed>>

(* ...and may fail at any time: stopped, timed out, or a socket error. *)
SendFails(p) ==
  /\ local[p] # <<>>
  /\ ThreadGoto(p, "send", "fail")
  /\ UNCHANGED <<clientVars, queue, aFlags, local, cstop, event, stateVars, shellVars, delayed>>

(* After the pause: if( ShouldStop() ) break; *)
AfterSend(p) ==
  /\ ThreadGoto(p, "sent", IF cstop[p] THEN "idle" ELSE "send")
  /\ local' = IF cstop[p] THEN [local EXCEPT ![p] = <<>>] ELSE local
  /\ UNCHANGED <<clientVars, queue, aFlags, cstop, event, stateVars, shellVars, delayed>>

BatchDone(p) ==
  /\ local[p] = <<>>
  /\ ThreadGoto(p, "send", "idle")
  /\ UNCHANGED <<clientVars, queue, aFlags, local, cstop, event, stateVars, shellVars, delayed>>

(* while( IsBusy() && IsQueueEmpty() ) Sleep(200);  then while( !ShouldStop() ) *)
IdleWaitOver(p) ==
  /\ ~(busy /\ queue[p] = <<>>)
  /\ ThreadGoto(p, "idle", IF cstop[p] THEN "off" ELSE "wait")
  /\ UNCHANGED <<clientVars, queue, aFlags, local, cstop, event, stateVars, shellVars, delayed>>

(* A failed send: broadcast the marker, ... *)
FailBroadcast(p) ==
  /\ ThreadGoto(p, "fail", "failStop")
  /\ MarkerLine(p)
  /\ UNCHANGED <<clientVars, queue, aFlags, local, cstop, event, shellVars, delayed>>

(* ... stop the manager, ... *)
FailSignal(p) ==
  /\ ThreadGoto(p, "failStop", "failClear")
  /\ SignalStop(p)
  /\ UNCHANGED <<clientVars, queue, aFlags, local, listening, shell, host, sent, delayed>>

(* ... and drop what is queued; the flags that go with it stay. *)
FailExit(p) ==
  /\ ThreadGoto(p, "failClear", "off")
  /\ queue' = [queue EXCEPT ![p] = <<>>]
  /\ local' = [local EXCEPT ![p] = <<>>]
  /\ UNCHANGED <<clientVars, aFlags, cstop, event, stateVars, shellVars, delayed>>

CompileThread(p) ==
  \/ WakeUp(p) \/ TakeBatch(p) \/ SendCommand(p) \/ SendFails(p) \/ AfterSend(p)
  \/ BatchDone(p) \/ IdleWaitOver(p) \/ FailBroadcast(p) \/ FailSignal(p) \/ FailExit(p)

-----------------------------------------------------------------------------
(* The shell thread and the remote host.                                   *)

Connect(p) ==
  /\ shell[p] = "connecting" /\ ~shellStop[p]
  /\ shell' = [shell EXCEPT ![p] = "up"]
  /\ UNCHANGED <<clientVars, threadVars, stateVars, shellStop, host, sent, delayed>>

(* The thread ends: connect refused, told to stop, or connection reset. *)
ShellExit(p) ==
  /\ shell[p] = "connecting" \/ (shell[p] = "up" /\ shellStop[p])
  /\ shell' = [shell EXCEPT ![p] = "off"]
  /\ host'  = [host EXCEPT ![p] = <<>>]
  /\ UNCHANGED <<clientVars, threadVars, stateVars, shellStop, sent, delayed>>

(* WSAECONNRESET: the thread tells itself to stop. *)
ConnectionLost(p) ==
  /\ shell[p] = "up" /\ ~shellStop[p]
  /\ shellStop' = [shellStop EXCEPT ![p] = TRUE]
  /\ UNCHANGED <<clientVars, threadVars, stateVars, shell, host, sent, delayed>>

(* The host has executed its next command: output, or the echoed marker. *)
HostAnswers(p) ==
  /\ shell[p] = "up" /\ ~shellStop[p] /\ host[p] # <<>>
  /\ host' = [host EXCEPT ![p] = Tail(@)]
  /\ IF IsMarker(Head(host[p])) THEN MarkerLine(p) ELSE UNCHANGED stateVars
  /\ UNCHANGED <<clientVars, threadVars, shell, shellStop, sent, delayed>>

Shell(p) == Connect(p) \/ ShellExit(p) \/ ConnectionLost(p) \/ HostAnswers(p)

-----------------------------------------------------------------------------
Init ==
  /\ pc        = [c \in Clients |-> "idle"]
  /\ job       \in [Clients -> {[proj |-> p, op |-> "connect"] : p \in Projects}]
  /\ sess      = <<>>
  /\ queue     = [p \in Projects |-> <<>>]
  /\ aFlags    = [p \in Projects |-> <<>>]
  /\ cpc       = [p \in Projects |-> "off"]
  /\ local     = [p \in Projects |-> <<>>]
  /\ cstop     = [p \in Projects |-> FALSE]
  /\ event     = [p \in Projects |-> FALSE]
  /\ flags     = [p \in Projects |-> {}]
  /\ busy      = FALSE
  /\ compiling = [p \in Projects |-> FALSE]
  /\ listening = [p \in Projects |-> FALSE]
  /\ shell     = [p \in Projects |-> "off"]
  /\ shellStop = [p \in Projects |-> FALSE]
  /\ host      = [p \in Projects |-> <<>>]
  /\ sent      = [p \in Projects |-> <<>>]
  /\ delayed   = {}

Next ==
  \/ \E c \in Clients : Client(c)
  \/ \E p \in Projects : StopBuild(p) \/ OnProcess(p) \/ CompileThread(p) \/ Shell(p)

Spec == Init /\ [][Next]_vars

=============================================================================
