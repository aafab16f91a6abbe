------------------------- MODULE CompileSessionProps -------------------------
(***************************************************************************)
(* What the build side promises: invariants, and what the source says that *)
(* its executions do not keep.                                             *)
(***************************************************************************)
EXTENDS CompileSession

ClientPc == {"idle", "enter", "joinShell", "joinThread", "check", "ask",
             "listen", "enqueue", "signal"}
ThreadPc == {"off", "wait", "take", "send", "sent", "idle",
             "fail", "failStop", "failClear"}

(* Type invariant of the build side. *)
TypeOK ==
  /\ pc \in [Clients -> ClientPc]
  /\ job \in [Clients -> Job]
  /\ sess \in Seq(Session)
  /\ queue \in [Projects -> Seq(Command)]
  /\ aFlags \in [Projects -> Seq(SUBSET Flag)]
  /\ cpc \in [Projects -> ThreadPc]
  /\ local \in [Projects -> Seq(Command)]
  /\ cstop \in [Projects -> BOOLEAN]
  /\ event \in [Projects -> BOOLEAN]
  /\ flags \in [Projects -> SUBSET Flag]
  /\ busy \in BOOLEAN
  /\ compiling \in [Projects -> BOOLEAN]
  /\ listening \in [Projects -> BOOLEAN]
  /\ shell \in [Projects -> {"off", "connecting", "up"}]
  /\ shellStop \in [Projects -> BOOLEAN]
  /\ host \in [Projects -> Seq(Command)]
  /\ sent \in [Projects -> Seq(Command)]
  /\ delayed \in SUBSET Projects

-----------------------------------------------------------------------------
(* x was queued before y. *)
Before(x, y) == x.s < y.s \/ (x.s = y.s /\ x.i < y.i)

(* The commands of a project reach the host in the order they were queued,  *)
(* each at most once, however many clients queue and however often the      *)
(* threads are stopped and started (CCompileThread::Run, _StartProcess).    *)
SentInOrder ==
  \A p \in Projects : \A j, k \in 1..Len(sent[p]) :
    j < k => Before(sent[p][j], sent[p][k])

(* A command that is not the first of its session reaches the host directly *)
(* after its predecessor: sessions never interleave, an aborted one is cut  *)
(* off for good, and the marker only follows the complete batch.            *)
SentAsBatches ==
  \A p \in Projects : \A k \in 1..Len(sent[p]) :
    sent[p][k].i > 1 =>
      /\ k > 1
      /\ sent[p][k - 1] = [s |-> sent[p][k].s, i |-> sent[p][k].i - 1]

(* The order of the commands the thread is sending, of those behind them in *)
(* the queue and of those already sent, and what makes it inductive: in     *)
(* `local' only a thread that is sending has commands that still count.     *)
Sending(p) == cpc[p] \in {"send", "sent"}
AllBefore(q, r) == \A j \in 1..Len(q), k \in 1..Len(r) : Before(q[j], r[k])
Sorted(q) == \A j, k \in 1..Len(q) : j < k => Before(q[j], q[k])
Queued(q) == \A k \in 1..Len(q) : q[k].s <= Len(sess)

OrderAt(p) ==
  /\ Sorted(sent[p]) /\ Queued(sent[p])
  /\ Sorted(queue[p]) /\ Queued(queue[p])
  /\ AllBefore(sent[p], queue[p])
  /\ Sending(p) => /\ Sorted(local[p]) /\ Queued(local[p])
                   /\ AllBefore(sent[p], local[p])
                   /\ AllBefore(local[p], queue[p])
OrderInv == \A p \in Projects : OrderAt(p)

(* x is the command before y in y's session. *)
Precedes(x, y) == x.s = y.s /\ x.i + 1 = y.i
Chained(q) == \A k \in 1..Len(q) : q[k].i > 1 => k > 1 /\ Precedes(q[k - 1], q[k])

BatchAt(p) ==
  /\ Chained(sent[p])
  /\ Chained(queue[p])
  /\ Sending(p) =>
       \A k \in 1..Len(local[p]) : local[p][k].i > 1 =>
         IF k = 1
         THEN sent[p] # <<>> /\ Precedes(sent[p][Len(sent[p])], local[p][1])
         ELSE Precedes(local[p][k - 1], local[p][k])
BatchInv == \A p \in Projects : BatchAt(p)

-----------------------------------------------------------------------------
(* Sessions of p, and the commands of p that are on their way.              *)

SessionsOf(p) == {n \in 1..Len(sess) : sess[n].proj = p}
Latest(p) == CHOOSE n \in SessionsOf(p) : \A m \in SessionsOf(p) : m <= n

SessionsIn(cmds) == {cmds[k].s : k \in 1..Len(cmds)}
InProgress(p) == SessionsIn(queue[p]) \union SessionsIn(local[p]) \union SessionsIn(host[p])

ClientAt(p) == \E c \in Clients : pc[c] # "idle" /\ job[c].proj = p

(* The remote host works on commands of p and the manager waits for it. *)
Compiling(p) ==
  /\ IsConnected(p) /\ ~cstop[p] /\ ~shellStop[p]
  /\ listening[p] /\ host[p] # <<>> /\ ~ClientAt(p)

(* "Add new commands to command list and add marker that will end the       *)
(* compile session" (CompileManager.cpp:627): a marker the manager is about *)
(* to see belongs to the session it started last.                           *)
MarkerEndsOwnSession ==
  \A p \in Projects :
    (Compiling(p) /\ IsMarker(Head(host[p]))) => Head(host[p]).s = Latest(p)

(* "Assign flags to active session" (CompileManager.cpp:100): while the      *)
(* thread sends a session, m_Flags, which routes or drops the output, are   *)
(* the flags the session was started with.                                  *)
FlagsOfActiveSession ==
  \A p \in Projects :
    (cpc[p] = "send" /\ local[p] # <<>> /\ ~cstop[p]) =>
      flags[p] = SessionFlags(sess[Head(local[p]).s].kind)

(* "We want all projects in a Solution to be aware of this state. It        *)
(* signals that some project is currently compiling"                       *)
(* (CompileManager.cpp:152): s_bBusy is set while a project compiles.       *)
CompilingSetsBusy == (\E p \in Projects : Compiling(p)) => busy

(* What the busy check of _StartProcess is for: the commands of one session *)
(* at most are on their way (IDS_COMPILE_BUSY, IsBusy, OnIncomingLine).     *)
OneSessionAtATime ==
  \A p \in Projects : \A m, n \in InProgress(p) : m = n

-----------------------------------------------------------------------------
(* Nobody presses Stop or closes the project, the connection holds, and     *)
(* whoever asks for a build waits until the shell is connected.             *)
SteadyNext ==
  \/ \E c \in Clients :
       \/ \E p \in Projects, op \in Op \ {"close"} :
            (cpc[p] = "off" \/ shell[p] = "up") /\ Request(c, p, op)
       \/ EnterConnected(c) \/ EnterStop(c) \/ JoinShell(c) \/ JoinThread(c)
       \/ CheckBusy(c) \/ (shell[job[c].proj] = "up" /\ Ask(c))
       \/ Listen(c) \/ Enqueue(c) \/ SignalData(c)
  \/ \E p \in Projects :
       \/ WakeUp(p) \/ TakeBatch(p) \/ SendCommand(p) \/ AfterSend(p) \/ BatchDone(p)
       \/ IdleWaitOver(p) \/ Connect(p) \/ HostAnswers(p)

SteadySpec == Init /\ [][SteadyNext]_vars

(* One thread, one project: two threads pass the busy check together, and  *)
(* connecting one project clears the flag another has set.                 *)
Alone == Clients = {Gui} /\ \A p, q \in Projects : p = q

(* What makes the promises above inductive in that environment.  The        *)
(* commands on their way, from the one the host answers next to the last.   *)
Work(p) == (host[p] \o local[p]) \o queue[p]
Free(p) == host[p] = <<>> /\ local[p] = <<>> /\ queue[p] = <<>> /\ aFlags[p] = <<>>

(* The only connection is made before the first session and never stopped. *)
ConnectedOnce(p) ==
  /\ job[Gui].op # "close"
  /\ cpc[p] = "off" => /\ shell[p] = "off" /\ Free(p)
                       /\ pc[Gui] \in {"idle", "enter", "joinShell", "joinThread"}
  /\ cpc[p] # "off" => ~cstop[p] /\ pc[Gui] \notin {"joinShell", "joinThread"}
  /\ pc[Gui] = "enter" => cpc[p] = "off" \/ shell[p] = "up"

(* Who has passed the busy check finds nothing on its way. *)
TurnTaken(p) ==
  /\ ~Free(p) => busy \/ pc[Gui] = "signal"
  /\ pc[Gui] \in {"ask", "listen", "enqueue"} => Free(p)

(* All that is on its way is the rest of the latest session, with its flags *)
(* in the place where its commands are.                                     *)
LatestOnly(p) ==
  LET latest == SessionFlags(sess[Len(sess)].kind) IN
  /\ Sorted(Work(p))
  /\ \A k \in 1..Len(Work(p)) : Work(p)[k].s = Len(sess)
  /\ local[p] # <<>> => Sending(p) /\ flags[p] = latest
  /\ aFlags[p] = IF queue[p] = <<>> THEN <<>> ELSE <<latest>>

SteadyInv == \A p \in Projects : ConnectedOnce(p) /\ TurnTaken(p) /\ LatestOnly(p)

-----------------------------------------------------------------------------
(* Fairness: the scheduler runs every thread; a connection attempt ends and *)
(* the remote shell answers.  Nothing makes a user issue a request.         *)
ClientStep(c) ==
  \/ EnterConnected(c) \/ EnterStop(c) \/ JoinShell(c) \/ JoinThread(c)
  \/ CheckBusy(c) \/ Ask(c) \/ Listen(c) \/ Enqueue(c) \/ SignalData(c)

Fairness ==
  /\ \A c \in Clients : WF_vars(ClientStep(c))
  /\ \A p \in Projects :
       /\ WF_vars(CompileThread(p))
       /\ WF_vars(Connect(p) \/ ShellExit(p))
       /\ WF_vars(HostAnswers(p))

FairSpec == Spec /\ Fairness

(* Stop() joins both threads without a deadline: the joins return.  The     *)
(* wake-up of a compile thread that waits for data must not get lost.       *)
StopCompletes ==
  \A c \in Clients : pc[c] \in {"joinShell", "joinThread"} ~> pc[c] \notin {"joinShell", "joinThread"}

(* A session whose commands are on their way when s_bBusy is set gives the  *)
(* flag back, or its connection or its thread is gone.                      *)
WorkReleasesBusy ==
  \A p \in Projects :
    (busy /\ listening[p] /\ InProgress(p) # {}) ~> (~busy \/ ~IsConnected(p))

=============================================================================
