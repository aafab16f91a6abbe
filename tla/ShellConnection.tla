--------------------------- MODULE ShellConnection ---------------------------
(***************************************************************************)
(* A shell connection (RemoteProject/TelnetProtocol.cpp) as the compile    *)
(* manager uses it.  The owner, the GUI thread, starts and stops it and    *)
(* waits for it before it queues commands; the writer, the compile thread, *)
(* writes lines and waits for it inside WriteData.  Who waits may restart  *)
(* the connection.  An I/O thread opens the socket, logs in, reads, and    *)
(* closes it.                                                              *)
(*                                                                         *)
(* The threads share, without a lock: the stop flag of the thread object,  *)
(* the socket, m_bConnected and m_dwErrorCode.  What is read is data of a  *)
(* few kinds: a prompt for the credentials, the welcome or the refusal that *)
(* answers them, and the error that tells of an aborted connection.        *)
(***************************************************************************)
EXTENDS Naturals, FiniteSets

CONSTANTS
  Owner,        \* the GUI thread
  Writer,       \* the compile thread
  Restarters,   \* callers that may find the I/O thread gone for two seconds
  MaxThreads,   \* bound: I/O threads ever created
  MaxWrites     \* bound: calls of WriteData

ASSUME CallersAssumption == Owner # Writer
ASSUME RestartersAssumption == Restarters \subseteq {Owner, Writer}
ASSUME BoundsAssumption == MaxThreads \in Nat /\ MaxWrites \in Nat

Callers == {Owner, Writer}
Threads == 1..MaxThreads

VARIABLES
  pc,         \* pc[c]: where caller c is
  op,         \* op[c]: what it does; "shell" is the second half of "start"
  target,     \* target[c]: the I/O thread it joins
  hasRun,     \* hasRun[c]: bHasRun of WaitForConnection
  quit,       \* m_bStopped of the compile thread
  writes,     \* calls of WriteData so far
  created,    \* I/O threads created so far
  io,         \* io[i]: where I/O thread i is
  handle,     \* m_thread.m_hThread, 0 is NULL
  stopped,    \* m_thread.m_bStopped
  event,      \* m_event, reset by the wait that it ends
  sock,       \* m_socket: the thread that opened it, 0 is closed
  connected,  \* m_bConnected
  error,      \* m_dwErrorCode # 0
  peer,       \* peer[i]: what the host makes of the connection of thread i
  data,       \* data[i]: what it has sent and nobody has read
  heard       \* heard[i]: the states of the host in which it was given a line

caller == <<pc, op, target, hasRun, quit, writes>>
thread == <<handle, stopped, event>>
host   == <<peer, data, heard>>
vars   == <<caller, created, io, thread, sock, connected, error, host>>

Goto(c, l) == pc' = [pc EXCEPT ![c] = l]

Running(i) == i # 0 /\ io[i] # "ended"

(* The bound leaves room for the threads that are about to be created. *)
Creating == {c \in Callers : op[c] # "close" /\ pc[c] \in {"signal", "join", "wait", "reset", "writer",
                                                          "create"}}
MayCreate == created + Cardinality(Creating) < MaxThreads

-----------------------------------------------------------------------------
(* Start() and Stop().  SignalStop() of the manager also tells the writer. *)

Begin(o) ==
  /\ pc[Owner] = "idle"
  /\ o = "start" => MayCreate
  /\ Goto(Owner, "signal")
  /\ op' = [op EXCEPT ![Owner] = o]
  /\ UNCHANGED <<target, hasRun, quit, writes, created, io, thread, sock, connected, error, host>>

(* Variant: the event is not set. *)
SignalStopQuiet(c) ==
  /\ pc[c] = "signal"
  /\ Goto(c, "join")
  /\ stopped' = (stopped \/ handle # 0)
  /\ quit' = (quit \/ op[c] \in {"start", "close"})
  /\ UNCHANGED <<op, target, hasRun, writes, created, io, handle, event, sock, connected, error,
                 host>>

SignalStop(c) ==
  /\ pc[c] = "signal"
  /\ Goto(c, "join")
  /\ stopped' = (stopped \/ handle # 0)
  /\ event' = TRUE
  /\ quit' = (quit \/ op[c] \in {"start", "close"})
  /\ UNCHANGED <<op, target, hasRun, writes, created, io, handle, sock, connected, error, host>>

(* CThreadImpl::Stop: nothing without a handle; else wait and release it.   *)
Join(c) ==
  /\ pc[c] = "join"
  /\ IF handle = 0
     THEN Goto(c, "reset") /\ UNCHANGED <<target, stopped>>
     ELSE Goto(c, "wait") /\ target' = [target EXCEPT ![c] = handle] /\ stopped' = TRUE
  /\ UNCHANGED <<op, hasRun, quit, writes, created, io, handle, event, sock, connected, error, host>>

(* Variant: the thread is not waited for. *)
JoinedAtOnce(c) ==
  /\ pc[c] = "wait"
  /\ Goto(c, "reset")
  /\ handle' = 0
  /\ target' = [target EXCEPT ![c] = 0]
  /\ UNCHANGED <<op, hasRun, quit, writes, created, io, stopped, event, sock, connected,
                 error, host>>

Joined(c) ==
  /\ pc[c] = "wait" /\ ~Running(target[c])
  /\ Goto(c, "reset")
  /\ handle' = 0
  /\ target' = [target EXCEPT ![c] = 0]
  /\ UNCHANGED <<op, hasRun, quit, writes, created, io, stopped, event, sock, connected,
                 error, host>>

Reset(c) ==
  /\ pc[c] = "reset"
  /\ sock' = 0 /\ error' = FALSE /\ connected' = FALSE
  /\ Goto(c, IF op[c] \in {"shell", "restart"} THEN "create" ELSE "writer")
  /\ UNCHANGED <<op, target, hasRun, quit, writes, created, io, thread, host>>

(* The compile thread is joined; Start() then starts the shell, which is    *)
(* stopped once more, and the compile thread.                              *)
JoinWriter ==
  /\ pc[Owner] = "writer" /\ pc[Writer] = "off"
  /\ IF op[Owner] = "start"
     THEN Goto(Owner, "signal") /\ op' = [op EXCEPT ![Owner] = "shell"]
     ELSE Goto(Owner, "idle") /\ UNCHANGED op
  /\ UNCHANGED <<target, hasRun, quit, writes, created, io, thread, sock, connected, error, host>>

Create(c) ==
  /\ pc[c] = "create" /\ created < MaxThreads
  /\ created' = created + 1
  /\ handle' = created' /\ stopped' = FALSE /\ event' = FALSE
  /\ io' = [io EXCEPT ![created'] = "new"]
  /\ IF op[c] = "shell"
     THEN quit' = FALSE /\ pc' = [pc EXCEPT ![c] = "idle", ![Writer] = "idle"]
     ELSE Goto(c, "failed") /\ UNCHANGED quit
  /\ UNCHANGED <<op, target, hasRun, writes, sock, connected, error, host>>

-----------------------------------------------------------------------------
(* WaitForConnection(), called by the owner, and by the writer in WriteData *)

WriteData ==
  /\ pc[Writer] = "idle" /\ ~quit /\ writes < MaxWrites
  /\ writes' = writes + 1
  /\ Goto(Writer, IF sock = 0 \/ stopped THEN "failed" ELSE "poll")
  /\ UNCHANGED <<op, target, hasRun, quit, created, io, thread, sock, connected, error, host>>

Await ==
  /\ pc[Owner] = "idle" /\ ~connected
  /\ Goto(Owner, "poll")
  /\ op' = [op EXCEPT ![Owner] = "wait"]
  /\ UNCHANGED <<target, hasRun, quit, writes, created, io, thread, sock, connected, error, host>>

(* `while( !m_bConnected )`, and the error of the I/O thread *)
Poll(c) ==
  /\ pc[c] = "poll" /\ (connected \/ error)
  /\ Goto(c, IF connected /\ c = Writer THEN "send" ELSE "failed")
  /\ UNCHANGED <<op, target, hasRun, quit, writes, created, io, thread, sock, connected, error, host>>

(* bHasRun |= m_thread.IsRunning(), every 200 ms *)
Look(c) ==
  /\ pc[c] = "poll" /\ ~connected /\ ~error /\ Running(handle) /\ ~hasRun[c]
  /\ hasRun' = [hasRun EXCEPT ![c] = TRUE]
  /\ UNCHANGED <<pc, op, target, quit, writes, created, io, thread, sock, connected, error, host>>

(* At some time the wait is over ...                                       *)
TimeOut(c) ==
  /\ pc[c] = "poll" /\ ~connected /\ ~error
  /\ Goto(c, "failed")
  /\ UNCHANGED <<op, target, hasRun, quit, writes, created, io, thread, sock, connected, error, host>>

(* ... and earlier if the thread has not been seen to run for two seconds:  *)
(* then it is started again, and the call fails.  The two seconds count    *)
(* from the first look and may be over at any moment of the others; only a *)
(* writer that saw the connection stand has written by then.               *)
Restart(c) ==
  /\ pc[c] = "poll" /\ ~connected /\ ~error /\ c \in Restarters
  /\ ~hasRun[c] /\ ~Running(handle) /\ pc[Writer] # "send" /\ MayCreate
  /\ Goto(c, "signal")
  /\ op' = [op EXCEPT ![c] = "restart"]
  /\ UNCHANGED <<target, hasRun, quit, writes, created, io, thread, sock, connected, error, host>>

Returns(c) ==
  /\ op' = [op EXCEPT ![c] = "wait"]
  /\ hasRun' = [hasRun EXCEPT ![c] = FALSE]

(* The line is written to whatever socket there is. *)
Send ==
  /\ pc[Writer] = "send" /\ sock # 0
  /\ Goto(Writer, "idle")
  /\ heard' = [heard EXCEPT ![sock] = @ \union {peer[sock]}]
  /\ Returns(Writer)
  /\ UNCHANGED <<target, quit, writes, created, io, thread, sock, connected, error,
                 peer, data>>

SendFails ==
  /\ pc[Writer] = "send"
  /\ sock # 0 => peer[sock] = "gone"
  /\ Goto(Writer, "failed")
  /\ UNCHANGED <<op, target, hasRun, quit, writes, created, io, thread, sock, connected, error, host>>

(* The owner does not look at the result; the compile thread stops the      *)
(* manager and ends.                                                       *)
Failed(c) ==
  /\ pc[c] = "failed"
  /\ IF c = Owner
     THEN Goto(c, "idle") /\ UNCHANGED <<quit, stopped, event>>
     ELSE /\ Goto(c, "off") /\ quit' = TRUE
          /\ stopped' = (stopped \/ handle # 0) /\ event' = TRUE
  /\ Returns(c)
  /\ UNCHANGED <<target, writes, created, io, handle, sock, connected, error, host>>

WriterEnds ==
  /\ pc[Writer] = "idle" /\ quit
  /\ Goto(Writer, "off")
  /\ UNCHANGED <<op, target, hasRun, quit, writes, created, io, thread, sock, connected, error, host>>

-----------------------------------------------------------------------------
(* The I/O thread: CTelnetThread::Run.                                     *)

At(i, from, to) == io[i] = from /\ io' = [io EXCEPT ![i] = to]

Run(i) ==
  /\ At(i, "new", "open")
  /\ error' = FALSE /\ connected' = FALSE
  /\ UNCHANGED <<caller, created, thread, sock, host>>

Open(i) ==
  /\ At(i, "open", "top")
  /\ sock' = i
  /\ peer' = [peer EXCEPT ![i] = "fresh"]
  /\ UNCHANGED <<caller, created, thread, connected, error, data, heard>>

(* Variant: the socket is not closed. *)
OpenFailsUnclosed(i) ==
  /\ At(i, "open", "ended")
  /\ sock' = i /\ error' = TRUE
  /\ UNCHANGED <<caller, created, thread, connected, host>>

OpenFails(i) ==
  /\ At(i, "open", "ended")
  /\ sock' = 0 /\ error' = TRUE
  /\ UNCHANGED <<caller, created, thread, connected, host>>

(* `while( !ShouldStop() )` *)
Loop(i) ==
  /\ IF stopped THEN At(i, "top", "close") ELSE At(i, "top", "wait")
  /\ UNCHANGED <<caller, created, thread, sock, connected, error, host>>

(* WaitForMultipleObjects; the socket comes before the event. *)
Wake(i) ==
  /\ data[i] # "none" \/ event
  /\ At(i, "wait", IF stopped THEN "close" ELSE "read")
  /\ event' = (event /\ data[i] # "none")
  /\ UNCHANGED <<caller, created, handle, stopped, sock, connected, error, host>>

(* Variant: connected as soon as there is a line. *)
ReadPromptConnects(i) ==
  /\ At(i, "read", "top") /\ data[i] = "prompt"
  /\ data' = [data EXCEPT ![i] = "none"]
  /\ peer' = [peer EXCEPT ![i] = "auth"]
  /\ connected' = TRUE
  /\ UNCHANGED <<caller, created, thread, sock, error, heard>>

(* The prompt is answered with user name and password. *)
ReadPrompt(i) ==
  /\ At(i, "read", "top") /\ data[i] = "prompt"
  /\ data' = [data EXCEPT ![i] = "none"]
  /\ peer' = [peer EXCEPT ![i] = "auth"]
  /\ UNCHANGED <<caller, created, thread, sock, connected, error, heard>>

ReadWelcome(i) ==
  /\ At(i, "read", "top") /\ data[i] = "welcome"
  /\ data' = [data EXCEPT ![i] = "none"]
  /\ connected' = TRUE
  /\ UNCHANGED <<caller, created, thread, sock, error, peer, heard>>

(* A refusal is an error, and the thread is to stop; m_bConnected is set    *)
(* nevertheless.                                                           *)
ReadRefusal(i) ==
  /\ At(i, "read", "refused") /\ data[i] = "refusal"
  /\ data' = [data EXCEPT ![i] = "none"]
  /\ error' = TRUE /\ stopped' = TRUE
  /\ UNCHANGED <<caller, created, handle, event, sock, connected, peer, heard>>

Refused(i) ==
  /\ At(i, "refused", "top")
  /\ connected' = TRUE
  /\ UNCHANGED <<caller, created, thread, sock, error, host>>

(* An aborted connection stops the thread; other wake-ups bring nothing.    *)
ReadAbort(i) ==
  /\ At(i, "read", "top") /\ data[i] \in {"abort", "none"}
  /\ stopped' = (stopped \/ data[i] = "abort")
  /\ UNCHANGED <<caller, created, handle, event, sock, connected, error, host>>

CloseSocket(i) ==
  /\ At(i, "close", "closed")
  /\ sock' = 0
  /\ UNCHANGED <<caller, created, thread, connected, error, host>>

EndRun(i) ==
  /\ At(i, "closed", "ended")
  /\ connected' = FALSE
  /\ UNCHANGED <<caller, created, thread, sock, error, host>>

-----------------------------------------------------------------------------
(* The host asks for the credentials, answers them, and may go away: the    *)
(* read then fails, or nothing is ever heard of it again (only writing to   *)
(* it tells the difference from silence).                                  *)

Says(i, from, to, what) ==
  /\ peer[i] \in from
  /\ peer' = [peer EXCEPT ![i] = to]
  /\ data' = [data EXCEPT ![i] = what]
  /\ UNCHANGED <<caller, created, io, thread, sock, connected, error, heard>>

Prompts(i) == Says(i, {"fresh"}, "prompted", "prompt")
Accepts(i) == Says(i, {"auth"}, "shell", "welcome")
Refuses(i) == Says(i, {"auth"}, "refused", "refusal")
Aborts(i)  == Says(i, {"fresh", "prompted", "auth", "shell", "refused"}, "gone", "abort")
FadesAway(i) ==
  /\ data[i] = "none"
  /\ Says(i, {"shell"}, "gone", "none")

-----------------------------------------------------------------------------
Init ==
  /\ pc        = [c \in Callers |-> IF c = Owner THEN "idle" ELSE "off"]
  /\ op        = [c \in Callers |-> IF c = Owner THEN "close" ELSE "wait"]
  /\ target    = [c \in Callers |-> 0]
  /\ hasRun    = [c \in Callers |-> FALSE]
  /\ quit      = FALSE
  /\ writes    = 0
  /\ created   = 0
  /\ io        = [i \in Threads |-> "none"]
  /\ handle    = 0
  /\ stopped   = FALSE
  /\ event     = FALSE
  /\ sock      = 0
  /\ connected = FALSE
  /\ error     = FALSE
  /\ peer      = [i \in Threads |-> "none"]
  /\ data      = [i \in Threads |-> "none"]
  /\ heard     = [i \in Threads |-> {}]

Stopping(c) == SignalStop(c) \/ Join(c) \/ Joined(c) \/ Reset(c) \/ Create(c)

Waiting(c) ==
  \/ Poll(c) \/ Look(c) \/ TimeOut(c) \/ Restart(c) \/ Failed(c)

IoThread(i) ==
  \/ Run(i) \/ Open(i) \/ OpenFails(i) \/ Loop(i) \/ Wake(i)
  \/ ReadPrompt(i) \/ ReadWelcome(i) \/ ReadRefusal(i) \/ Refused(i) \/ ReadAbort(i)
  \/ CloseSocket(i) \/ EndRun(i)

Host(i) == Prompts(i) \/ Accepts(i) \/ Refuses(i) \/ Aborts(i) \/ FadesAway(i)

Next ==
  \/ \E o \in {"start", "close"} : Begin(o)
  \/ JoinWriter \/ Await \/ WriteData \/ Send \/ SendFails \/ WriterEnds
  \/ \E c \in Callers : Stopping(c) \/ Waiting(c)
  \/ \E i \in Threads : IoThread(i) \/ Host(i)

Spec == Init /\ [][Next]_vars

(* Threads inside a call and the I/O thread run; a wait for the connection  *)
(* is over sooner or later; the host owes nothing.                         *)
Fairness ==
  /\ WF_vars(JoinWriter) /\ WF_vars(WriterEnds) /\ WF_vars(Send \/ SendFails)
  /\ \A c \in Callers : WF_vars(Stopping(c)) /\ WF_vars(Waiting(c))
  /\ \A i \in Threads : WF_vars(IoThread(i))

FairSpec == Spec /\ Fairness

-----------------------------------------------------------------------------
(* The types; a socket that is open has a host at its other end.           *)
TypeOK ==
  /\ pc \in [Callers -> {"off", "idle", "signal", "join", "wait", "reset", "writer", "create",
                         "poll", "send", "failed"}]
  /\ op \in [Callers -> {"start", "shell", "close", "restart", "wait"}]
  /\ target \in [Callers -> 0..MaxThreads] /\ hasRun \in [Callers -> BOOLEAN]
  /\ quit \in BOOLEAN /\ writes \in 0..MaxWrites /\ created \in 0..MaxThreads
  /\ io \in [Threads -> {"none", "new", "open", "top", "wait", "read", "refused", "close",
                         "closed", "ended"}]
  /\ handle \in 0..MaxThreads /\ stopped \in BOOLEAN /\ event \in BOOLEAN
  /\ sock \in 0..MaxThreads /\ connected \in BOOLEAN /\ error \in BOOLEAN
  /\ peer \in [Threads -> {"none", "fresh", "prompted", "auth", "shell", "refused", "gone"}]
  /\ data \in [Threads -> {"none", "prompt", "welcome", "refusal", "abort"}]
  /\ heard \in [Threads -> SUBSET {"fresh", "prompted", "auth", "shell", "refused", "gone"}]
  /\ sock # 0 => peer[sock] # "none"

(* The socket and the flags are used by one I/O thread at a time, although  *)
(* two threads start and stop it.                                          *)
OneThread ==
  \A i, j \in Threads : io[i] \notin {"none", "ended"} /\ io[j] \notin {"none", "ended"} => i = j

(* No line is given to a host that still waits for the user name or the     *)
(* password: it would be taken for them.                                   *)
LinesAfterLogin ==
  \A i \in Threads : heard[i] \intersect {"fresh", "prompted", "auth"} = {}

(* _ASSERTE(m_hThread==NULL) when a thread is created (Thread.h:57): the    *)
(* one before has been joined and its handle released.                     *)
HandleFree == [][\A c \in Callers : Create(c) => handle = 0]_vars

(* When Stop() of the manager has returned, no I/O thread is left, and none  *)
(* has left the socket or m_bConnected behind.                             *)
StopStops ==
  pc[Owner] = "idle" /\ op[Owner] = "close" =>
    /\ \A i \in Threads : io[i] \in {"none", "ended"}
    /\ sock = 0 /\ ~connected

(* Start(), Stop(), WriteData() and WaitForConnection() come to an end: the *)
(* thread that is joined is not asleep, whatever the host does.            *)
CallsReturn ==
  \A c \in Callers :
    pc[c] \in {"signal", "wait", "writer", "poll"} ~> pc[c] \in {"idle", "off"}

=============================================================================
