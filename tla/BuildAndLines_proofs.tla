------------------------ MODULE BuildAndLines_proofs -------------------------
(***************************************************************************)
(* Theorems about CompileSession for any number of projects, clients,      *)
(* commands and sessions; in the steady environment, for one project with   *)
(* one client.  And about the line listeners that its lines go through:     *)
(* LineBroadcast implements LineFeed for any listeners and threads.         *)
(***************************************************************************)
EXTENDS CompileSessionProps, LineBroadcast, SequenceTheorems, TLAPS

-----------------------------------------------------------------------------
(* What is queued for a session is a sequence of commands. *)
LEMMA ScriptType ==
  ASSUME NEW n \in Nat \ {0}
  PROVE  Script(n) \in Seq(Command) /\ Len(Script(n)) = Batch + 1
<1>1. Batch + 1 \in Nat
  BY BatchAssumption
<1>2. \A k \in 1..(Batch + 1) : [s |-> n, i |-> k] \in Command
  BY DEF Command
<1> QED
  BY <1>1, <1>2 DEF Script

LEMMA TypeInit == Init => TypeOK
<1> SUFFICES ASSUME Init PROVE TypeOK
  OBVIOUS
<1>1. job \in [Clients -> Job]
  BY DEF Init, Job, Op
<1>2. /\ sess \in Seq(Session)
      /\ queue \in [Projects -> Seq(Command)]
      /\ aFlags \in [Projects -> Seq(SUBSET Flag)]
      /\ local \in [Projects -> Seq(Command)]
      /\ host \in [Projects -> Seq(Command)]
      /\ sent \in [Projects -> Seq(Command)]
  BY DEF Init
<1>3. /\ pc \in [Clients -> ClientPc]
      /\ cpc \in [Projects -> ThreadPc]
      /\ shell \in [Projects -> {"off", "connecting", "up"}]
  BY DEF Init, ClientPc, ThreadPc
<1>4. /\ cstop \in [Projects -> BOOLEAN]
      /\ event \in [Projects -> BOOLEAN]
      /\ flags \in [Projects -> SUBSET Flag]
      /\ busy \in BOOLEAN
      /\ compiling \in [Projects -> BOOLEAN]
      /\ listening \in [Projects -> BOOLEAN]
      /\ shellStop \in [Projects -> BOOLEAN]
      /\ delayed \in SUBSET Projects
  BY DEF Init
<1> QED
  BY <1>1, <1>2, <1>3, <1>4 DEF TypeOK

(* TypeOK is not inductive: a queued session has a session's kind because  *)
(* only build requests get past the beginning of _StartProcess.            *)
Starting == {"check", "ask", "listen", "enqueue", "signal"}
OnlyBuildsStart == \A c \in Clients : pc[c] \in Starting => job[c].op \in Kinds

(* A step of a client thread keeps the types. *)
LEMMA TypeClient ==
  ASSUME TypeOK, OnlyBuildsStart, NEW c \in Clients, Client(c)
  PROVE  TypeOK'
<1> DEFINE p == job[c].proj
<1>1. p \in Projects /\ job[c].op \in Op
  BY DEF TypeOK, Job
<1>2. ASSUME NEW q \in Projects, NEW op \in Op, Request(c, q, op) PROVE TypeOK'
  BY <1>2 DEF TypeOK, Request, Goto, ClientPc, Job, threadVars, stateVars, shellVars
<1>3. CASE EnterConnected(c)
  BY <1>3 DEF TypeOK, EnterConnected, Goto, ClientPc, threadVars, stateVars, shellVars
<1>4. CASE EnterStop(c)
  BY <1>1, <1>4 DEF TypeOK, EnterStop, SignalStop, Goto, ClientPc
<1>5. CASE JoinShell(c)
  BY <1>1, <1>5 DEF TypeOK, JoinShell, Goto, ClientPc, stateVars, shellVars
<1>6. CASE JoinThread(c)
  <2>1. pc' \in [Clients -> ClientPc]
    BY <1>6 DEF TypeOK, JoinThread, Goto, ClientPc
  <2>2. /\ compiling' \in [Projects -> BOOLEAN] /\ busy' \in BOOLEAN
        /\ flags' \in [Projects -> SUBSET Flag]
    BY <1>1, <1>6 DEF TypeOK, JoinThread
  <2>3. /\ shell' \in [Projects -> {"off", "connecting", "up"}]
        /\ shellStop' \in [Projects -> BOOLEAN]
        /\ cpc' \in [Projects -> ThreadPc]
        /\ cstop' \in [Projects -> BOOLEAN]
    BY <1>1, <1>6 DEF TypeOK, JoinThread, ThreadPc
  <2> QED
    BY <1>6, <2>1, <2>2, <2>3 DEF TypeOK, JoinThread
<1>7. CASE CheckBusy(c)
  BY <1>7 DEF TypeOK, CheckBusy, Goto, ClientPc, threadVars, stateVars, shellVars
<1>8. CASE Ask(c)
  BY <1>8 DEF TypeOK, Ask, Goto, ClientPc, threadVars, stateVars, shellVars
<1>9. CASE Listen(c)
  BY <1>1, <1>9 DEF TypeOK, Listen, Goto, ClientPc, threadVars, shellVars
<1>10. CASE Enqueue(c)
  <2>1. Len(sess) + 1 \in Nat \ {0}
    BY DEF TypeOK
  <2>2. queue' \in [Projects -> Seq(Command)]
    BY <1>1, <1>10, <2>1, ScriptType DEF TypeOK, Enqueue
  <2>3. pc' \in [Clients -> ClientPc]
    BY <1>10 DEF TypeOK, Enqueue, Goto, ClientPc
  <2>4. job[c].op \in Kinds
    BY <1>10 DEF Enqueue, Goto, OnlyBuildsStart, Starting
  <2>5. sess' \in Seq(Session)
    BY <1>1, <1>10, <2>4 DEF TypeOK, Enqueue, Session
  <2>6. SessionFlags(job[c].op) \in SUBSET Flag
    BY DEF SessionFlags, Flag
  <2>7. aFlags' \in [Projects -> Seq(SUBSET Flag)]
    <3>1. ASSUME NEW f \in Seq(SUBSET Flag) 
          PROVE  Append(f, SessionFlags(job[c].op)) \in Seq(SUBSET Flag)
      BY <2>6
    <3> QED
      BY <1>1, <1>10, <3>1 DEF TypeOK, Enqueue
  <2> QED
    BY <1>10, <2>2, <2>3, <2>5, <2>7 DEF TypeOK, Enqueue, stateVars, shellVars
<1>11. CASE SignalData(c)
  BY <1>1, <1>11 DEF TypeOK, SignalData, Goto, ClientPc, shellVars
<1> QED
  BY <1>2, <1>3, <1>4, <1>5, <1>6, <1>7, <1>8, <1>9, <1>10, <1>11 DEF Client

LEMMA BuildsClient ==
  ASSUME TypeOK, OnlyBuildsStart, NEW c \in Clients, Client(c)
  PROVE  OnlyBuildsStart'
<1> USE DEF OnlyBuildsStart, Starting, Goto, TypeOK
<1>2. ASSUME NEW q \in Projects, NEW op \in Op, Request(c, q, op)
      PROVE  OnlyBuildsStart'
  BY <1>2 DEF Request
<1>3. CASE EnterConnected(c)
  BY <1>3 DEF EnterConnected, Kinds, Op, Job
<1>4. CASE EnterStop(c)
  BY <1>4 DEF EnterStop
<1>5. CASE JoinShell(c)
  BY <1>5 DEF JoinShell
<1>6. CASE JoinThread(c)
  BY <1>6 DEF JoinThread
<1>7. CASE CheckBusy(c)
  BY <1>7 DEF CheckBusy
<1>8. CASE Ask(c)
  BY <1>8 DEF Ask
<1>9. CASE Listen(c)
  BY <1>9 DEF Listen
<1>10. CASE Enqueue(c)
  BY <1>10 DEF Enqueue
<1>11. CASE SignalData(c)
  BY <1>11 DEF SignalData
<1> QED
  BY <1>2, <1>3, <1>4, <1>5, <1>6, <1>7, <1>8, <1>9, <1>10, <1>11 DEF Client

(* A step of a compile thread keeps the types. *)
LEMMA TypeThread ==
  ASSUME TypeOK, NEW p \in Projects, CompileThread(p)
  PROVE  TypeOK'
<1> USE DEF TypeOK, ThreadGoto, ThreadPc, clientVars, stateVars, shellVars
<1>1. CASE WakeUp(p)
  BY <1>1 DEF WakeUp
<1>2. CASE TakeBatch(p)
  <2>1. UNION {aFlags[p][k] : k \in 1..Len(aFlags[p])} \in SUBSET Flag
    OBVIOUS
  <2>2. flags' \in [Projects -> SUBSET Flag]
    BY <1>2, <2>1 DEF TakeBatch
  <2>3. aFlags' \in [Projects -> Seq(SUBSET Flag)]
    BY <1>2 DEF TakeBatch
  <2> QED
    BY <1>2, <2>2, <2>3 DEF TakeBatch
<1>3. CASE SendCommand(p)
  <2>1. Head(local[p]) \in Command /\ Tail(local[p]) \in Seq(Command)
    BY <1>3 DEF SendCommand
  <2> QED
    BY <1>3, <2>1 DEF SendCommand
<1>4. CASE SendFails(p)
  BY <1>4 DEF SendFails
<1>5. CASE AfterSend(p)
  BY <1>5 DEF AfterSend
<1>6. CASE BatchDone(p)
  BY <1>6 DEF BatchDone
<1>7. CASE IdleWaitOver(p)
  BY <1>7 DEF IdleWaitOver
<1>8. CASE FailBroadcast(p)
  BY <1>8 DEF FailBroadcast, MarkerLine
<1>9. CASE FailSignal(p)
  BY <1>9 DEF FailSignal, SignalStop
<1>10. CASE FailExit(p)
  BY <1>10 DEF FailExit
<1> QED
  BY <1>1, <1>2, <1>3, <1>4, <1>5, <1>6, <1>7, <1>8, <1>9, <1>10 DEF CompileThread

(* So does a step of a shell thread or of the GUI thread between commands. *)
LEMMA TypeOthers ==
  ASSUME TypeOK, NEW p \in Projects, StopBuild(p) \/ OnProcess(p) \/ Shell(p)
  PROVE  TypeOK'
<1> USE DEF TypeOK, clientVars, threadVars, stateVars, shellVars
<1>1. CASE StopBuild(p)
  BY <1>1 DEF StopBuild, SignalStop
<1>2. CASE OnProcess(p)
  BY <1>2 DEF OnProcess, MarkerLine
<1>3. CASE Connect(p)
  BY <1>3 DEF Connect
<1>4. CASE ShellExit(p)
  BY <1>4 DEF ShellExit
<1>5. CASE ConnectionLost(p)
  BY <1>5 DEF ConnectionLost
<1>6. CASE HostAnswers(p)
  <2>1. Tail(host[p]) \in Seq(Command)
    BY <1>6 DEF HostAnswers
  <2> QED
    BY <1>6, <2>1 DEF HostAnswers, MarkerLine
<1> QED
  BY <1>1, <1>2, <1>3, <1>4, <1>5, <1>6 DEF Shell

TypeInv == TypeOK /\ OnlyBuildsStart

LEMMA TypeStep == TypeInv /\ [Next]_vars => TypeInv'
<1> SUFFICES ASSUME TypeInv, [Next]_vars PROVE TypeInv'
  OBVIOUS
<1> USE DEF TypeInv
<1>1. ASSUME NEW c \in Clients, Client(c) PROVE TypeInv'
  BY <1>1, TypeClient, BuildsClient
<1>2. ASSUME NEW p \in Projects,
             StopBuild(p) \/ OnProcess(p) \/ CompileThread(p) \/ Shell(p)
      PROVE  TypeInv'
  <2>1. TypeOK'
    BY <1>2, TypeThread, TypeOthers
  <2>2. UNCHANGED <<pc, job>>
    BY <1>2 DEF StopBuild, OnProcess, CompileThread, WakeUp, TakeBatch, SendCommand,
         SendFails, AfterSend, BatchDone, IdleWaitOver, FailBroadcast, FailSignal,
         FailExit, Shell, Connect, ShellExit, ConnectionLost, HostAnswers, clientVars
  <2> QED
    BY <2>1, <2>2 DEF OnlyBuildsStart
<1>3. CASE UNCHANGED vars
  BY <1>3 DEF vars, clientVars, threadVars, stateVars, shellVars, TypeOK, OnlyBuildsStart
<1> QED
  BY <1>1, <1>2, <1>3 DEF Next

LEMMA TypeInvariant == Spec => []TypeInv
<1>1. Init => TypeInv
  BY TypeInit DEF Init, TypeInv, OnlyBuildsStart, Starting
<1> QED
  BY <1>1, TypeStep, PTL DEF Spec

(* Every variable of the build side always has its type (CompileManager.h). *)
THEOREM TypeCorrect == Spec => []TypeOK
<1>1. TypeInv => TypeOK
  BY DEF TypeInv
<1> QED
  BY <1>1, TypeInvariant, PTL

-----------------------------------------------------------------------------
(* The order of commands.  Four actions move commands; of a project that    *)
(* none of them touches, everything stays.                                  *)

(* The steps that move no command of p that still counts. *)
Quiet(p) ==
  /\ sent'[p] = sent[p] /\ queue'[p] = queue[p]
  /\ Sending(p)' => Sending(p) /\ local'[p] = local[p]

LEMMA QuietClient ==
  ASSUME TypeInv, NEW c \in Clients, Client(c), ~Enqueue(c), NEW p \in Projects
  PROVE  Quiet(p) /\ sess' = sess
<1> USE DEF Quiet, Sending, threadVars, shellVars
<1>2. ASSUME NEW q \in Projects, NEW op \in Op, Request(c, q, op)
      PROVE  Quiet(p) /\ sess' = sess
  BY <1>2 DEF Request
<1>3. CASE EnterConnected(c)
  BY <1>3 DEF EnterConnected
<1>4. CASE EnterStop(c)
  BY <1>4 DEF EnterStop
<1>5. CASE JoinShell(c)
  BY <1>5 DEF JoinShell
<1>6. CASE JoinThread(c)
  BY <1>6 DEF JoinThread, TypeInv, TypeOK
<1>7. CASE CheckBusy(c)
  BY <1>7 DEF CheckBusy
<1>8. CASE Ask(c)
  BY <1>8 DEF Ask
<1>9. CASE Listen(c)
  BY <1>9 DEF Listen
<1>11. CASE SignalData(c)
  BY <1>11 DEF SignalData
<1> QED
  BY <1>2, <1>3, <1>4, <1>5, <1>6, <1>7, <1>8, <1>9, <1>11 DEF Client

LEMMA QuietThread ==
  ASSUME TypeInv, NEW q \in Projects, CompileThread(q),
         ~TakeBatch(q), ~SendCommand(q), ~FailExit(q), NEW p \in Projects
  PROVE  Quiet(p) /\ sess' = sess
<1> USE DEF Quiet, Sending, ThreadGoto, clientVars, shellVars, TypeInv, TypeOK
<1>1. CASE WakeUp(q)
  BY <1>1 DEF WakeUp
<1>2. CASE SendFails(q)
  BY <1>2 DEF SendFails
<1>3. CASE AfterSend(q)
  BY <1>3 DEF AfterSend
<1>4. CASE BatchDone(q)
  BY <1>4 DEF BatchDone
<1>5. CASE IdleWaitOver(q)
  BY <1>5 DEF IdleWaitOver
<1>6. CASE FailBroadcast(q)
  BY <1>6 DEF FailBroadcast
<1>7. CASE FailSignal(q)
  BY <1>7 DEF FailSignal
<1> QED
  BY <1>1, <1>2, <1>3, <1>4, <1>5, <1>6, <1>7 DEF CompileThread

LEMMA QuietOthers ==
  ASSUME NEW q \in Projects, StopBuild(q) \/ OnProcess(q) \/ Shell(q),
         NEW p \in Projects
  PROVE  Quiet(p) /\ sess' = sess
BY DEF StopBuild, OnProcess, Shell, Connect, ShellExit, ConnectionLost, HostAnswers,
       Quiet, Sending, clientVars, threadVars, shellVars

(* A command of another project moves. *)
LEMMA QuietElsewhere ==
  ASSUME TypeInv, NEW q \in Projects, NEW p \in Projects \ {q},
         TakeBatch(q) \/ SendCommand(q) \/ FailExit(q)
  PROVE  Quiet(p) /\ sess' = sess
BY DEF TakeBatch, SendCommand, FailExit, Quiet, Sending, ThreadGoto, clientVars,
       shellVars, TypeInv, TypeOK

LEMMA QuietKeepsOrder ==
  ASSUME NEW p \in Projects, OrderAt(p), Quiet(p), sess' = sess
  PROVE  OrderAt(p)'
<1>1. Queued(sent[p])' /\ Queued(queue[p])'
  BY DEF OrderAt, Quiet, Queued
<1>2. Sorted(sent[p])' /\ Sorted(queue[p])' /\ AllBefore(sent[p], queue[p])'
  BY DEF OrderAt, Quiet, Sorted, AllBefore, Before
<1>3. ASSUME Sending(p)'
      PROVE  /\ Sorted(local[p])' /\ Queued(local[p])'
             /\ AllBefore(sent[p], local[p])' /\ AllBefore(local[p], queue[p])'
  BY <1>3 DEF OrderAt, Quiet, Sorted, Queued, AllBefore, Before
<1> QED
  BY <1>1, <1>2, <1>3 DEF OrderAt

LEMMA QuietKeepsBatches ==
  ASSUME NEW p \in Projects, BatchAt(p), Quiet(p)
  PROVE  BatchAt(p)'
BY DEF BatchAt, Quiet, Chained, Precedes

(* Facts about sequences of commands. *)
LEMMA CommandAt ==
  ASSUME NEW q \in Seq(Command), NEW k \in 1..Len(q)
  PROVE  q[k] \in Command /\ q[k].s \in Nat /\ q[k].i \in Nat
<1>1. q[k] \in Command
  OBVIOUS
<1> QED
  BY <1>1, BatchAssumption DEF Command

LEMMA ConcatAt ==
  ASSUME NEW q \in Seq(Command), NEW r \in Seq(Command), NEW k \in 1..Len(q \o r)
  PROVE  /\ k <= Len(q) => k \in 1..Len(q) /\ (q \o r)[k] = q[k]
         /\ k > Len(q) => /\ k - Len(q) \in 1..Len(r)
                          /\ (q \o r)[k] = r[k - Len(q)]
OBVIOUS

LEMMA TailAt ==
  ASSUME NEW q \in Seq(Command), q # <<>>, NEW k \in 1..Len(Tail(q))
  PROVE  k + 1 \in 1..Len(q) /\ Tail(q)[k] = q[k + 1]
OBVIOUS

LEMMA AppendAt ==
  ASSUME NEW q \in Seq(Command), NEW e \in Command, NEW k \in 1..Len(Append(q, e))
  PROVE  \/ k \in 1..Len(q) /\ Append(q, e)[k] = q[k]
         \/ k = Len(q) + 1 /\ Append(q, e)[k] = e
OBVIOUS

LEMMA ConcatAllBefore ==
  ASSUME NEW x \in Seq(Command), NEW q \in Seq(Command), NEW r \in Seq(Command),
         AllBefore(x, q), AllBefore(x, r)
  PROVE  AllBefore(x, q \o r)
<1> SUFFICES ASSUME NEW j \in 1..Len(x), NEW k \in 1..Len(q \o r)
             PROVE  Before(x[j], (q \o r)[k])
  BY DEF AllBefore
<1>1. CASE k <= Len(q)
  <2>1. k \in 1..Len(q) /\ (q \o r)[k] = q[k]
    BY <1>1, ConcatAt
  <2> QED
    BY <2>1 DEF AllBefore
<1>2. CASE k > Len(q)
  <2>1. k - Len(q) \in 1..Len(r) /\ (q \o r)[k] = r[k - Len(q)]
    BY <1>2, ConcatAt
  <2> QED
    BY <2>1 DEF AllBefore
<1> QED
  BY <1>1, <1>2

LEMMA ConcatSorted ==
  ASSUME NEW q \in Seq(Command), NEW r \in Seq(Command),
         Sorted(q), Sorted(r), AllBefore(q, r)
  PROVE  Sorted(q \o r)
<1> SUFFICES ASSUME NEW j \in 1..Len(q \o r), NEW k \in 1..Len(q \o r), j < k
             PROVE  Before((q \o r)[j], (q \o r)[k])
  BY DEF Sorted
<1>1. CASE k <= Len(q)
  <2>1. /\ j \in 1..Len(q) /\ (q \o r)[j] = q[j]
        /\ k \in 1..Len(q) /\ (q \o r)[k] = q[k]
    BY <1>1, ConcatAt
  <2> QED
    BY <2>1 DEF Sorted
<1>2. CASE j <= Len(q) /\ k > Len(q)
  <2>1. /\ j \in 1..Len(q) /\ (q \o r)[j] = q[j]
        /\ k - Len(q) \in 1..Len(r) /\ (q \o r)[k] = r[k - Len(q)]
    BY <1>2, ConcatAt
  <2> QED
    BY <2>1 DEF AllBefore
<1>3. CASE j > Len(q)
  <2>1. /\ j - Len(q) \in 1..Len(r) /\ (q \o r)[j] = r[j - Len(q)]
        /\ k - Len(q) \in 1..Len(r) /\ (q \o r)[k] = r[k - Len(q)]
        /\ j - Len(q) < k - Len(q)
    BY <1>3, ConcatAt
  <2> QED
    BY <2>1 DEF Sorted
<1> QED
  BY <1>1, <1>2, <1>3

(* A new session comes after everything queued so far. *)
LEMMA ScriptOrder ==
  ASSUME NEW n \in Nat \ {0}, n = Len(sess) + 1
  PROVE  /\ Sorted(Script(n))
         /\ \A k \in 1..Len(Script(n)) : Script(n)[k].s = n
         /\ \A q \in Seq(Command) : Queued(q) => AllBefore(q, Script(n))
<1>1. Len(Script(n)) = Batch + 1 /\ Batch + 1 \in Nat
  BY ScriptType, BatchAssumption
<1>2. \A k \in 1..(Batch + 1) : Script(n)[k].s = n /\ Script(n)[k].i = k
  BY DEF Script
<1>3. ASSUME NEW q \in Seq(Command), Queued(q) PROVE AllBefore(q, Script(n))
  <2> SUFFICES ASSUME NEW j \in 1..Len(q), NEW k \in 1..Len(Script(n))
               PROVE  q[j].s < Script(n)[k].s
    BY DEF AllBefore, Before
  <2>1. q[j].s \in Nat /\ q[j].s <= Len(sess)
    BY <1>3, CommandAt DEF Queued
  <2> QED
    BY <1>1, <1>2, <2>1
<1>4. Sorted(Script(n))
  BY <1>1, <1>2 DEF Sorted, Before
<1> QED
  BY <1>1, <1>2, <1>3, <1>4

(* The four actions that move commands keep the order ... *)
LEMMA EnqueueOrder ==
  ASSUME TypeInv, NEW c \in Clients, Enqueue(c), NEW p \in Projects, OrderAt(p)
  PROVE  OrderAt(p)'
<1> DEFINE n == Len(sess) + 1
<1>1. sess \in Seq(Session) /\ Len(sess') = n /\ n \in Nat \ {0}
  BY DEF Enqueue, TypeInv, TypeOK
<1>2. /\ sent' = sent /\ local' = local /\ cpc' = cpc
      /\ queue'[p] = queue[p] \/ queue'[p] = queue[p] \o Script(n)
  BY DEF Enqueue, shellVars, TypeInv, TypeOK
<1>3. queue[p] \in Seq(Command) /\ local[p] \in Seq(Command) /\ sent[p] \in Seq(Command)
  BY DEF TypeInv, TypeOK
<1>4. Script(n) \in Seq(Command)
  BY <1>1, ScriptType
<1>5. ASSUME NEW q \in Seq(Command), Queued(q)
      PROVE  \A k \in 1..Len(q) : q[k].s <= Len(sess')
  BY <1>1, <1>5, CommandAt DEF Queued
<1>6. Sorted(queue'[p])
  BY <1>1, <1>2, <1>3, <1>4, ConcatSorted, ScriptOrder DEF OrderAt
<1>7. \A q \in Seq(Command) :
        Queued(q) /\ AllBefore(q, queue[p]) => AllBefore(q, queue'[p])
  BY <1>1, <1>2, <1>3, <1>4, ConcatAllBefore, ScriptOrder
<1>8. \A k \in 1..Len(queue'[p]) : queue'[p][k].s <= Len(sess')
  <2>1. CASE queue'[p] = queue[p]
    BY <1>3, <1>5, <2>1 DEF OrderAt
  <2>2. CASE queue'[p] = queue[p] \o Script(n)
    <3> SUFFICES ASSUME NEW k \in 1..Len(queue[p] \o Script(n))
                 PROVE  (queue[p] \o Script(n))[k].s <= Len(sess')
      BY <2>2
    <3>1. CASE k <= Len(queue[p])
      <4>1. k \in 1..Len(queue[p]) /\ (queue[p] \o Script(n))[k] = queue[p][k]
        BY <1>3, <1>4, <3>1, ConcatAt
      <4> QED
        BY <1>3, <1>5, <4>1 DEF OrderAt
    <3>2. CASE k > Len(queue[p])
      <4>1. /\ k - Len(queue[p]) \in 1..Len(Script(n))
            /\ (queue[p] \o Script(n))[k] = Script(n)[k - Len(queue[p])]
        BY <1>3, <1>4, <3>2, ConcatAt
      <4> QED
        BY <1>1, <4>1, ScriptOrder
    <3> QED
      BY <1>3, <1>4, <3>1, <3>2
  <2> QED
    BY <1>2, <2>1, <2>2
<1>9. Sorted(sent'[p]) /\ AllBefore(sent'[p], queue'[p])
  BY <1>2, <1>3, <1>7 DEF OrderAt
<1>10. Sending(p)' =>
         /\ Sorted(local'[p]) /\ Queued(local[p])
         /\ AllBefore(sent'[p], local'[p]) /\ AllBefore(local'[p], queue'[p])
  BY <1>2, <1>3, <1>7 DEF OrderAt, Sending
<1>11. /\ \A k \in 1..Len(sent'[p]) : sent'[p][k].s <= Len(sess')
       /\ Sending(p)' => \A k \in 1..Len(local'[p]) : local'[p][k].s <= Len(sess')
  BY <1>2, <1>3, <1>5, <1>10 DEF OrderAt
<1> QED
  BY <1>6, <1>8, <1>9, <1>10, <1>11 DEF OrderAt, Sorted, AllBefore, Queued, Before

LEMMA TakeOrder ==
  ASSUME TypeInv, NEW p \in Projects, TakeBatch(p), OrderAt(p)
  PROVE  OrderAt(p)'
<1>1. /\ sent' = sent /\ sess' = sess /\ local'[p] = queue[p] /\ queue'[p] = <<>>
  BY DEF TakeBatch, TypeInv, TypeOK, shellVars, clientVars
<1> QED
  BY <1>1 DEF OrderAt, Sorted, Queued, AllBefore, Before

LEMMA SendOrder ==
  ASSUME TypeInv, NEW p \in Projects, SendCommand(p), OrderAt(p)
  PROVE  OrderAt(p)'
<1> DEFINE l == local[p]
           s == sent[p]
<1>1. /\ sess' = sess /\ queue' = queue /\ Sending(p)
      /\ sent'[p] = Append(s, l[1]) /\ local'[p] = Tail(l) /\ l # <<>>
  BY DEF SendCommand, ThreadGoto, Sending, TypeInv, TypeOK, clientVars
<1>2. /\ s \in Seq(Command) /\ l \in Seq(Command) /\ queue[p] \in Seq(Command)
      /\ 1 \in 1..Len(l) /\ l[1] \in Command
  BY <1>1 DEF TypeInv, TypeOK
<1>3. /\ Sorted(s) /\ Queued(s) /\ Sorted(l) /\ Queued(l)
      /\ AllBefore(s, l) /\ AllBefore(s, queue[p]) /\ AllBefore(l, queue[p])
  BY <1>1 DEF OrderAt
<1>4. \A k \in 1..Len(Tail(l)) : k + 1 \in 1..Len(l) /\ Tail(l)[k] = l[k + 1]
  BY <1>1, <1>2, TailAt
<1>5. \A k \in 1..Len(Append(s, l[1])) :
        \/ k \in 1..Len(s) /\ Append(s, l[1])[k] = s[k]
        \/ k = Len(s) + 1 /\ Append(s, l[1])[k] = l[1]
  BY <1>2, AppendAt
<1>6. Sorted(Append(s, l[1])) /\ Sorted(Tail(l))
  <2>1. Sorted(Tail(l))
    <3> SUFFICES ASSUME NEW j \in 1..Len(Tail(l)), NEW k \in 1..Len(Tail(l)), j < k
                 PROVE  Before(Tail(l)[j], Tail(l)[k])
      BY DEF Sorted
    <3>1. j + 1 < k + 1
      OBVIOUS
    <3> QED
      BY <1>3, <1>4, <3>1 DEF Sorted
  <2>2. Sorted(Append(s, l[1]))
    <3> SUFFICES ASSUME NEW j \in 1..Len(Append(s, l[1])),
                        NEW k \in 1..Len(Append(s, l[1])), j < k
                 PROVE  Before(Append(s, l[1])[j], Append(s, l[1])[k])
      BY DEF Sorted
    <3>1. j \in 1..Len(s) /\ Append(s, l[1])[j] = s[j]
      BY <1>2, <1>5
    <3> QED
      BY <1>2, <1>3, <1>5, <3>1 DEF Sorted, AllBefore
  <2> QED
    BY <2>1, <2>2
<1>7. Queued(Append(s, l[1])) /\ Queued(Tail(l))
  BY <1>2, <1>3, <1>4, <1>5 DEF Queued
<1>8. AllBefore(Append(s, l[1]), queue[p]) /\ AllBefore(Tail(l), queue[p])
  BY <1>2, <1>3, <1>4, <1>5 DEF AllBefore
<1>9. AllBefore(Append(s, l[1]), Tail(l))
  <2> SUFFICES ASSUME NEW j \in 1..Len(Append(s, l[1])), NEW k \in 1..Len(Tail(l))
               PROVE  Before(Append(s, l[1])[j], l[k + 1])
    BY <1>4 DEF AllBefore
  <2>1. k + 1 \in 1..Len(l) /\ 1 < k + 1
    BY <1>4
  <2> QED
    BY <1>2, <1>3, <1>5, <2>1 DEF AllBefore, Sorted
<1>10. /\ Sorted(sent'[p]) /\ Queued(sent'[p]) /\ AllBefore(sent'[p], queue'[p])
       /\ Sorted(queue'[p]) /\ Queued(queue'[p])
       /\ Sorted(local'[p]) /\ Queued(local'[p])
       /\ AllBefore(sent'[p], local'[p]) /\ AllBefore(local'[p], queue'[p])
  BY <1>1, <1>6, <1>7, <1>8, <1>9 DEF OrderAt
<1> QED
  BY <1>1, <1>10 DEF OrderAt, Sorted, AllBefore, Queued, Before

LEMMA ExitOrder ==
  ASSUME TypeInv, NEW p \in Projects, FailExit(p), OrderAt(p)
  PROVE  OrderAt(p)'
<1>1. /\ sent' = sent /\ sess' = sess /\ queue'[p] = <<>> /\ ~Sending(p)'
  BY DEF FailExit, ThreadGoto, Sending, TypeInv, TypeOK, shellVars, clientVars
<1> QED
  BY <1>1 DEF OrderAt, Sorted, Queued, AllBefore, Before

(* ... and the batches. *)
LEMMA ConcatChained ==
  ASSUME NEW q \in Seq(Command), NEW r \in Seq(Command), Chained(q), Chained(r)
  PROVE  Chained(q \o r)
<1> SUFFICES ASSUME NEW k \in 1..Len(q \o r), (q \o r)[k].i > 1
             PROVE  k > 1 /\ Precedes((q \o r)[k - 1], (q \o r)[k])
  BY DEF Chained
<1>1. CASE k <= Len(q)
  <2>1. k \in 1..Len(q) /\ (q \o r)[k] = q[k]
    BY <1>1, ConcatAt
  <2>2. k > 1 /\ Precedes(q[k - 1], q[k])
    BY <2>1 DEF Chained
  <2>3. (q \o r)[k - 1] = q[k - 1]
    BY <2>1, <2>2
  <2> QED
    BY <2>1, <2>2, <2>3
<1>2. CASE k > Len(q)
  <2> DEFINE m == k - Len(q)
  <2>1. m \in 1..Len(r) /\ (q \o r)[k] = r[m]
    BY <1>2, ConcatAt
  <2>2. m > 1 /\ Precedes(r[m - 1], r[m])
    BY <2>1 DEF Chained
  <2>3. (q \o r)[k - 1] = r[m - 1]
    BY <1>2, <2>1, <2>2
  <2> QED
    BY <2>1, <2>2, <2>3
<1> QED
  BY <1>1, <1>2

LEMMA EnqueueBatch ==
  ASSUME TypeInv, NEW c \in Clients, Enqueue(c), NEW p \in Projects, BatchAt(p)
  PROVE  BatchAt(p)'
<1> DEFINE n == Len(sess) + 1
<1>1. n \in Nat \ {0}
  BY DEF TypeInv, TypeOK
<1>2. /\ sent' = sent /\ local' = local /\ cpc' = cpc
      /\ queue'[p] = queue[p] \/ queue'[p] = queue[p] \o Script(n)
  BY DEF Enqueue, shellVars, TypeInv, TypeOK
<1>3. queue[p] \in Seq(Command) /\ Script(n) \in Seq(Command)
  BY <1>1, ScriptType DEF TypeInv, TypeOK
<1>4. Chained(Script(n))
  <2>1. Len(Script(n)) = Batch + 1 /\ Batch + 1 \in Nat
    BY <1>1, ScriptType, BatchAssumption
  <2>2. \A k \in 1..(Batch + 1) : Script(n)[k].s = n /\ Script(n)[k].i = k
    BY DEF Script
  <2> QED
    BY <2>1, <2>2 DEF Chained, Precedes
<1>5. Chained(queue'[p])
  BY <1>2, <1>3, <1>4, ConcatChained DEF BatchAt
<1>6. Chained(sent'[p])
  BY <1>2 DEF BatchAt
<1> QED
  BY <1>2, <1>5, <1>6 DEF BatchAt, Chained, Precedes, Sending

LEMMA TakeBatches ==
  ASSUME TypeInv, NEW p \in Projects, TakeBatch(p), BatchAt(p)
  PROVE  BatchAt(p)'
<1>1. /\ sent' = sent /\ local'[p] = queue[p] /\ queue'[p] = <<>>
  BY DEF TakeBatch, TypeInv, TypeOK, shellVars, clientVars
<1> QED
  BY <1>1 DEF BatchAt, Chained, Precedes

LEMMA SendBatch ==
  ASSUME TypeInv, NEW p \in Projects, SendCommand(p), BatchAt(p)
  PROVE  BatchAt(p)'
<1> DEFINE l == local[p]
           s == sent[p]
           t == Append(s, l[1])
<1>1. /\ queue' = queue /\ Sending(p)
      /\ sent'[p] = t /\ local'[p] = Tail(l) /\ l # <<>>
  BY DEF SendCommand, ThreadGoto, Sending, TypeInv, TypeOK
<1>2. /\ s \in Seq(Command) /\ l \in Seq(Command)
      /\ 1 \in 1..Len(l) /\ l[1] \in Command
  BY <1>1 DEF TypeInv, TypeOK
<1>3. Chained(t)
  <2> SUFFICES ASSUME NEW k \in 1..Len(t), t[k].i > 1
               PROVE  k > 1 /\ Precedes(t[k - 1], t[k])
    BY DEF Chained
  <2>1. CASE k \in 1..Len(s) /\ t[k] = s[k]
    <3>1. k > 1 /\ Precedes(s[k - 1], s[k])
      BY <2>1 DEF BatchAt, Chained
    <3>2. t[k - 1] = s[k - 1]
      BY <1>2, <2>1, <3>1
    <3> QED
      BY <2>1, <3>1, <3>2
  <2>2. CASE k = Len(s) + 1 /\ t[k] = l[1]
    <3>1. s # <<>> /\ Precedes(s[Len(s)], l[1])
      BY <1>1, <1>2, <2>2 DEF BatchAt
    <3>2. t[k - 1] = s[Len(s)] /\ k > 1
      BY <1>2, <2>2, <3>1
    <3> QED
      BY <2>2, <3>1, <3>2
  <2> QED
    BY <1>2, <2>1, <2>2, AppendAt
<1>4. ASSUME NEW k \in 1..Len(Tail(l)), Tail(l)[k].i > 1
      PROVE  IF k = 1 THEN t # <<>> /\ Precedes(t[Len(t)], Tail(l)[1])
                      ELSE Precedes(Tail(l)[k - 1], Tail(l)[k])
  <2>1. k + 1 \in 1..Len(l) /\ Tail(l)[k] = l[k + 1]
    BY <1>1, <1>2, TailAt
  <2>2. Precedes(l[k], l[k + 1])
    BY <1>1, <1>2, <1>4, <2>1 DEF BatchAt
  <2>3. CASE k = 1
    <3>1. t # <<>> /\ t[Len(t)] = l[1]
      BY <1>2
    <3> QED
      BY <2>1, <2>2, <2>3, <3>1
  <2>4. CASE k # 1
    <3>1. Tail(l)[k - 1] = l[k]
      BY <1>1, <1>2, <2>4
    <3> QED
      BY <2>1, <2>2, <2>4, <3>1
  <2> QED
    BY <2>3, <2>4
<1>5. Chained(queue'[p])
  BY <1>1 DEF BatchAt
<1> HIDE DEF t, l, s
<1> QED
  BY <1>1, <1>3, <1>4, <1>5 DEF BatchAt, Chained, Precedes

LEMMA ExitBatch ==
  ASSUME TypeInv, NEW p \in Projects, FailExit(p), BatchAt(p)
  PROVE  BatchAt(p)'
<1>1. sent' = sent /\ queue'[p] = <<>> /\ ~Sending(p)'
  BY DEF FailExit, ThreadGoto, Sending, TypeInv, TypeOK, shellVars
<1> QED
  BY <1>1 DEF BatchAt, Chained, Precedes

-----------------------------------------------------------------------------
LEMMA CommandsStep ==
  TypeInv /\ OrderInv /\ BatchInv /\ [Next]_vars => OrderInv' /\ BatchInv'
<1> SUFFICES ASSUME TypeInv, OrderInv, BatchInv, [Next]_vars, NEW p \in Projects
             PROVE  OrderAt(p)' /\ BatchAt(p)'
  BY DEF OrderInv, BatchInv
<1>1. OrderAt(p) /\ BatchAt(p)
  BY DEF OrderInv, BatchInv
<1>2. ASSUME Quiet(p), sess' = sess PROVE OrderAt(p)' /\ BatchAt(p)'
  BY <1>1, <1>2, QuietKeepsOrder, QuietKeepsBatches
<1>3. ASSUME NEW c \in Clients, Client(c) PROVE OrderAt(p)' /\ BatchAt(p)'
  <2>1. CASE Enqueue(c)
    BY <1>1, <2>1, EnqueueOrder, EnqueueBatch
  <2>2. CASE ~Enqueue(c)
    BY <1>2, <1>3, <2>2, QuietClient
  <2> QED
    BY <2>1, <2>2
<1>4. ASSUME NEW q \in Projects, CompileThread(q) PROVE OrderAt(p)' /\ BatchAt(p)'
  <2>1. CASE TakeBatch(q) \/ SendCommand(q) \/ FailExit(q)
    <3>1. CASE q = p
      BY <1>1, <2>1, <3>1, TakeOrder, TakeBatches, SendOrder, SendBatch, ExitOrder, ExitBatch
    <3>2. CASE q # p
      BY <1>2, <2>1, <3>2, QuietElsewhere
    <3> QED
      BY <3>1, <3>2
  <2>2. CASE ~(TakeBatch(q) \/ SendCommand(q) \/ FailExit(q))
    BY <1>2, <1>4, <2>2, QuietThread
  <2> QED
    BY <2>1, <2>2
<1>5. ASSUME NEW q \in Projects, StopBuild(q) \/ OnProcess(q) \/ Shell(q)
      PROVE  OrderAt(p)' /\ BatchAt(p)'
  BY <1>2, <1>5, QuietOthers
<1>6. CASE UNCHANGED vars
  <2>1. Quiet(p) /\ sess' = sess
    BY <1>6 DEF vars, clientVars, threadVars, shellVars, Quiet, Sending
  <2> QED
    BY <1>2, <2>1
<1> QED
  BY <1>3, <1>4, <1>5, <1>6 DEF Next

LEMMA CommandsInvariant == Spec => [](TypeInv /\ OrderInv /\ BatchInv)
<1>1. Init => OrderInv /\ BatchInv
  BY DEF Init, OrderInv, OrderAt, BatchInv, BatchAt, Sorted, Queued, AllBefore, Chained, Sending
<1> QED
  BY <1>1, CommandsStep, TypeInvariant, PTL DEF Spec

(* Whatever the clients, failures and restarts, commands reach the host in  *)
(* the order they were queued and each at most once.                        *)
THEOREM CommandsSentInOrder == Spec => []SentInOrder
<1>1. OrderInv => SentInOrder
  BY DEF OrderInv, OrderAt, Sorted, SentInOrder
<1> QED
  BY <1>1, CommandsInvariant, PTL

(* ... and a command never reaches the host without the one before it.      *)
THEOREM CommandsSentAsBatches == Spec => []SentAsBatches
<1>1. TypeInv /\ BatchInv => SentAsBatches
  <2> SUFFICES ASSUME TypeInv, BatchInv, NEW p \in Projects,
                      NEW k \in 1..Len(sent[p]), sent[p][k].i > 1
               PROVE  k > 1 /\ sent[p][k - 1] = [s |-> sent[p][k].s, i |-> sent[p][k].i - 1]
    BY DEF SentAsBatches
  <2>1. sent[p] \in Seq(Command)
    BY DEF TypeInv, TypeOK
  <2>2. k > 1 /\ Precedes(sent[p][k - 1], sent[p][k])
    BY DEF BatchInv, BatchAt, Chained
  <2>3. k - 1 \in 1..Len(sent[p])
    BY <2>1, <2>2
  <2>4. sent[p][k - 1] \in Command /\ sent[p][k - 1].i \in Nat /\ sent[p][k].i \in Nat
    BY <2>1, <2>3, CommandAt
  <2> QED
    BY <2>2, <2>4 DEF Precedes, Command
<1> QED
  BY <1>1, CommandsInvariant, PTL

-----------------------------------------------------------------------------
(* The steady environment (SteadySpec): one client, one project.            *)

LEMMA SteadyTypes == SteadySpec => []TypeInv
<1>1. Init => TypeInv
  BY TypeInit DEF Init, TypeInv, OnlyBuildsStart, Starting
<1>2. SteadyNext => Next
  BY DEF SteadyNext, Next, Client, CompileThread, Shell
<1>3. TypeInv /\ [SteadyNext]_vars => TypeInv'
  BY <1>2, TypeStep
<1> QED
  BY <1>1, <1>3, PTL DEF SteadySpec

(* A command that is sent, or a batch that is taken, stays on its way, and  *)
(* an answer removes the first command.                                     *)
LEMMA WorkSent ==
  ASSUME NEW h \in Seq(Command), NEW l \in Seq(Command), NEW q \in Seq(Command), l # <<>>
  PROVE  (Append(h, Head(l)) \o Tail(l)) \o q = (h \o l) \o q
<1>1. Append(h, Head(l)) \o Tail(l) = h \o l
  <2> DEFINE x == Append(h, Head(l)) \o Tail(l)
             y == h \o l
  <2>1. x \in Seq(Command) /\ y \in Seq(Command) /\ Len(x) = Len(y)
    OBVIOUS
  <2>2. ASSUME NEW k \in 1..Len(y) PROVE x[k] = y[k]
    <3>1. CASE k <= Len(h)
      BY <3>1
    <3>2. CASE k = Len(h) + 1
      BY <3>2
    <3>3. CASE k > Len(h) + 1
      BY <3>3
    <3> QED
      BY <3>1, <3>2, <3>3
  <2> HIDE DEF x, y
  <2> QED
    BY <2>1, <2>2
<1> QED
  BY <1>1

LEMMA WorkTaken ==
  ASSUME NEW h \in Seq(Command), NEW q \in Seq(Command)
  PROVE  (h \o q) \o <<>> = (h \o <<>>) \o q
OBVIOUS

LEMMA WorkAnswered ==
  ASSUME NEW h \in Seq(Command), NEW l \in Seq(Command), NEW q \in Seq(Command), h # <<>>
  PROVE  /\ (h \o l) \o q \in Seq(Command) /\ (h \o l) \o q # <<>>
         /\ (Tail(h) \o l) \o q = Tail((h \o l) \o q)
         /\ ((h \o l) \o q)[1] = Head(h)
         /\ Len((h \o l) \o q) = Len(h) + Len(l) + Len(q)
OBVIOUS

LEMMA OneLeft == ASSUME NEW S, NEW q \in Seq(S), Len(q) = 1 PROVE Tail(q) = <<>>
<1>1. q # <<>>
  OBVIOUS
<1>2. Tail(q) \in Seq(S) /\ Len(Tail(q)) = 0
  BY <1>1, HeadTailProperties
<1> QED
  BY <1>2, EmptySeq

(* Each command in one of the three places is on its way. *)
AllOf(q, n) == \A k \in 1..Len(q) : q[k].s = n

LEMMA WorkHolds ==
  ASSUME NEW h \in Seq(Command), NEW l \in Seq(Command), NEW q \in Seq(Command),
         NEW n, AllOf((h \o l) \o q, n)
  PROVE  AllOf(h, n) /\ AllOf(l, n) /\ AllOf(q, n)
<1> USE DEF AllOf
<1>1. ASSUME NEW k \in 1..Len(h) PROVE h[k].s = n
  <2>1. k \in 1..Len((h \o l) \o q) /\ ((h \o l) \o q)[k] = h[k]
    OBVIOUS
  <2> QED
    BY <2>1
<1>2. ASSUME NEW k \in 1..Len(l) PROVE l[k].s = n
  <2>1. /\ Len(h) + k \in 1..Len((h \o l) \o q)
        /\ ((h \o l) \o q)[Len(h) + k] = l[k]
    OBVIOUS
  <2> QED
    BY <2>1
<1>3. ASSUME NEW k \in 1..Len(q) PROVE q[k].s = n
  <2>1. /\ Len(h) + Len(l) + k \in 1..Len((h \o l) \o q)
        /\ ((h \o l) \o q)[Len(h) + Len(l) + k] = q[k]
    OBVIOUS
  <2> QED
    BY <2>1
<1> QED
  BY <1>1, <1>2, <1>3

(* Behind the marker of a session there is no command of that session. *)
LEMMA MarkerIsLast ==
  ASSUME NEW w \in Seq(Command), NEW n, Sorted(w), w # <<>>, IsMarker(w[1]),
         AllOf(w, n)
  PROVE  Len(w) = 1
<1> SUFFICES ASSUME Len(w) # 1 PROVE FALSE
  OBVIOUS
<1>1. 1 \in 1..Len(w) /\ 2 \in 1..Len(w) /\ 1 < 2
  <2>1. Len(w) \in Nat /\ Len(w) # 0 /\ Len(w) # 1
    OBVIOUS
  <2>2. \A m \in Nat : m # 0 /\ m # 1 => 1 \in 1..m /\ 2 \in 1..m /\ 1 < 2
    OBVIOUS
  <2> QED
    BY <2>1, <2>2, Zenon
<1>2. Before(w[1], w[2]) /\ w[1].s = n /\ w[2].s = n
  BY <1>1 DEF Sorted, AllOf
<1>3. w[1].s \in Nat /\ w[1].i \in Nat /\ w[2].i \in Nat /\ w[2].i <= Batch + 1
  <2>1. w[2] \in Command
    BY <1>1
  <2>2. w[2].i \in 1..(Batch + 1)
    BY <2>1 DEF Command
  <2>3. w[1].s \in Nat /\ w[1].i \in Nat /\ w[2].i \in Nat
    BY <1>1, CommandAt
  <2> QED
    BY <2>2, <2>3, BatchAssumption
<1> QED
  BY <1>2, <1>3, BatchAssumption DEF Before, IsMarker

(* A step that moves no command. *)
StillWork(p) ==
  /\ host'[p] = host[p] /\ local'[p] = local[p] /\ queue'[p] = queue[p]
  /\ aFlags'[p] = aFlags[p] /\ sess' = sess

LEMMA StillFree ==
  ASSUME NEW p \in Projects, StillWork(p)
  PROVE  (Free(p)' <=> Free(p)) /\ Work(p)' = Work(p)
BY DEF StillWork, Free, Work

LEMMA StillLatest ==
  ASSUME NEW p \in Projects, LatestOnly(p), StillWork(p),
         local[p] # <<>> => Sending(p)' /\ flags'[p] = flags[p]
  PROVE  LatestOnly(p)'
<1>1. Work(p)' = Work(p)
  BY StillFree
<1>2. Sorted(Work(p))'
  BY <1>1 DEF LatestOnly, Sorted, Before
<1>3. \A k \in 1..Len(Work(p)') : (Work(p)')[k].s = Len(sess')
  BY <1>1 DEF LatestOnly, StillWork
<1> QED
  BY <1>2, <1>3 DEF LatestOnly, StillWork, SessionFlags

(* The environment of one step: the project is p, its types hold, and the   *)
(* client is the GUI thread.                                                *)
Steady(p) ==
  /\ Alone /\ TypeInv /\ TypeInv' /\ p \in Projects
  /\ ConnectedOnce(p) /\ TurnTaken(p) /\ LatestOnly(p)
SteadyAt(p) == ConnectedOnce(p) /\ TurnTaken(p) /\ LatestOnly(p)

LEMMA SteadyJob ==
  ASSUME NEW p \in Projects, Steady(p), NEW c \in Clients
  PROVE  /\ c = Gui /\ job[c].proj = p /\ job[c].op \in Op
         /\ pc \in [Clients -> ClientPc] /\ cpc \in [Projects -> ThreadPc]
         /\ \A q \in Projects : q = p
BY DEF Steady, Alone, TypeInv, TypeOK, Job

(* A client that neither stops, queues nor signals. *)
LEMMA SteadyAsks ==
  ASSUME NEW p \in Projects, Steady(p), NEW c \in Clients,
         \/ \E q \in Projects, op \in Op \ {"close"} :
              (cpc[q] = "off" \/ shell[q] = "up") /\ Request(c, q, op)
         \/ EnterConnected(c) \/ CheckBusy(c) \/ Ask(c) \/ Listen(c)
  PROVE  SteadyAt(p)'
<1>1. /\ c = Gui /\ job[c].proj = p /\ pc \in [Clients -> ClientPc]
      /\ \A q \in Projects : q = p
  BY SteadyJob
<1>2. /\ StillWork(p) /\ cpc' = cpc /\ flags' = flags /\ busy' = busy
      /\ shell' = shell /\ cstop' = cstop
  BY DEF Request, EnterConnected, CheckBusy, Ask, Listen, threadVars, stateVars,
         shellVars, StillWork
<1>3. LatestOnly(p)'
  BY <1>2, StillLatest DEF Steady, LatestOnly, Sending
<1>4. (Free(p)' <=> Free(p)) /\ pc[Gui] # "signal" /\ pc'[Gui] # "signal"
  BY <1>1, <1>2, StillFree DEF Request, EnterConnected, CheckBusy, Ask, Listen, Goto
<1>5. ConnectedOnce(p) /\ TurnTaken(p)
  BY DEF Steady
<1>6. ConnectedOnce(p)'
  <2>1. CASE \E q \in Projects, op \in Op \ {"close"} :
               (cpc[q] = "off" \/ shell[q] = "up") /\ Request(c, q, op)
    BY <1>1, <1>2, <1>4, <1>5, <2>1 DEF Request, Goto, ConnectedOnce
  <2>2. CASE EnterConnected(c)
    BY <1>1, <1>2, <1>4, <1>5, <2>2 DEF EnterConnected, IsConnected, Goto, ConnectedOnce
  <2>3. CASE CheckBusy(c) \/ Ask(c) \/ Listen(c)
    BY <1>1, <1>2, <1>4, <1>5, <2>3 DEF CheckBusy, Ask, Listen, Goto, ConnectedOnce
  <2> QED
    BY <2>1, <2>2, <2>3
<1>7. TurnTaken(p)'
  <2>1. ~Free(p)' => busy'
    BY <1>2, <1>4, <1>5 DEF TurnTaken
  <2>2. pc'[Gui] \in {"ask", "listen", "enqueue"} => Free(p)'
    BY <1>1, <1>4, <1>5 DEF TurnTaken, Request, EnterConnected, CheckBusy, Ask, Listen, Goto
  <2> QED
    BY <2>1, <2>2 DEF TurnTaken
<1> QED
  BY <1>3, <1>6, <1>7 DEF SteadyAt

(* The first connection: Stop(), and the two threads. *)
LEMMA SteadyConnects ==
  ASSUME NEW p \in Projects, Steady(p), NEW c \in Clients,
         EnterStop(c) \/ JoinShell(c) \/ JoinThread(c)
  PROVE  SteadyAt(p)'
<1>1. /\ c = Gui /\ job[c].proj = p /\ job[c].op \in Op /\ pc \in [Clients -> ClientPc]
      /\ cpc \in [Projects -> ThreadPc]
  BY SteadyJob
<1>2. /\ cstop \in [Projects -> BOOLEAN] /\ shell \in [Projects -> {"off", "connecting", "up"}]
      /\ flags \in [Projects -> SUBSET Flag]
  BY DEF Steady, TypeInv, TypeOK
<1>3. ConnectedOnce(p) /\ TurnTaken(p) /\ LatestOnly(p)
  BY DEF Steady
<1>4. /\ StillWork(p) /\ c = Gui /\ pc[Gui] \in {"enter", "joinShell", "joinThread"}
  BY <1>1 DEF EnterStop, JoinShell, JoinThread, Goto, stateVars, shellVars, StillWork
<1>5. cpc[p] = "off" /\ Free(p)
  <2>1. CASE EnterStop(c)
    <3>1. job[c].op # "close"
      BY <1>1, <1>3 DEF ConnectedOnce
    <3> QED
      BY <1>1, <1>3, <2>1, <3>1 DEF EnterStop, IsConnected, Goto, ConnectedOnce
  <2>2. CASE JoinShell(c) \/ JoinThread(c)
    BY <1>1, <1>3, <2>2 DEF JoinShell, JoinThread, Goto, ConnectedOnce
  <2> QED
    BY <2>1, <2>2
<1>6. Free(p)' /\ LatestOnly(p)' /\ TurnTaken(p)'
  <2>1. Free(p)'
    BY <1>4, <1>5, StillFree
  <2>2. LatestOnly(p)'
    BY <1>3, <1>4, <1>5, StillLatest DEF Free
  <2> QED
    BY <2>1, <2>2 DEF TurnTaken
<1>7. ConnectedOnce(p)'
  <2>1. CASE EnterStop(c)
    BY <1>1, <1>2, <1>3, <1>5, <1>6, <2>1 DEF EnterStop, Goto, ConnectedOnce
  <2>2. CASE JoinShell(c)
    BY <1>1, <1>2, <1>3, <1>5, <1>6, <2>2 DEF JoinShell, Goto, ConnectedOnce, shellVars
  <2>3. CASE JoinThread(c)
    <3>1. /\ cpc'[p] = "wait" /\ ~cstop'[p] /\ job' = job
          /\ pc'[Gui] \in {"check", "idle"}
      BY <1>1, <1>2, <1>3, <2>3 DEF JoinThread, Goto, ConnectedOnce
    <3> QED
      BY <1>3, <3>1 DEF ConnectedOnce
  <2> QED
    BY <2>1, <2>2, <2>3
<1> QED
  BY <1>6, <1>7 DEF SteadyAt

(* A session is queued: the script is all that is on its way. *)
LEMMA SteadyEnqueues ==
  ASSUME NEW p \in Projects, Steady(p), NEW c \in Clients, Enqueue(c)
  PROVE  SteadyAt(p)'
<1> DEFINE n == Len(sess) + 1
           script == Script(n)
<1>1. /\ c = Gui /\ job[c].proj = p /\ pc \in [Clients -> ClientPc]
  BY SteadyJob
<1>2. ConnectedOnce(p) /\ TurnTaken(p) /\ LatestOnly(p)
  BY DEF Steady
<1>3. pc[Gui] = "enqueue" /\ pc'[Gui] = "signal" /\ Free(p)
  BY <1>1, <1>2 DEF Enqueue, Goto, TurnTaken
<1>4. /\ sess \in Seq(Session) /\ n \in Nat \ {0} /\ script \in Seq(Command)
      /\ queue \in [Projects -> Seq(Command)] /\ aFlags \in [Projects -> Seq(SUBSET Flag)]
      /\ Len(script) = Batch + 1 /\ script # <<>>
  <2>1. sess \in Seq(Session) /\ n \in Nat \ {0}
    BY DEF Steady, TypeInv, TypeOK
  <2>2. script \in Seq(Command) /\ Len(script) = Batch + 1
    BY <2>1, ScriptType
  <2>3. script # <<>>
    BY <2>2, BatchAssumption
  <2> QED
    BY <2>1, <2>2, <2>3 DEF Steady, TypeInv, TypeOK
<1>5. sess' = Append(sess, [proj |-> p, kind |-> job[c].op])
  BY <1>1 DEF Enqueue
<1>6. Len(sess') = n /\ sess'[Len(sess')].kind = job[c].op
  BY <1>4, <1>5
<1>7. /\ host'[p] = <<>> /\ local'[p] = <<>> /\ queue'[p] = script
      /\ aFlags'[p] = <<SessionFlags(job[c].op)>>
  BY <1>1, <1>3, <1>4 DEF Enqueue, shellVars, Free
<1>8. Work(p)' = script
  BY <1>4, <1>7 DEF Work
<1>9. LatestOnly(p)'
  <2> HIDE DEF script, n
  <2>1. Sorted(Work(p))'
    <3>1. Sorted(script)
      BY <1>4, ScriptOrder DEF script, n
    <3> QED
      BY <1>8, <3>1 DEF Sorted, Before
  <2>2. \A k \in 1..Len(Work(p)') : (Work(p)')[k].s = Len(sess')
    BY <1>4, <1>6, <1>8, ScriptOrder DEF script, n
  <2> QED
    BY <1>4, <1>6, <1>7, <2>1, <2>2 DEF LatestOnly, SessionFlags
<1>10. ConnectedOnce(p)'
  BY <1>2, <1>3 DEF Enqueue, ConnectedOnce
<1>11. TurnTaken(p)'
  BY <1>3 DEF TurnTaken
<1> QED
  BY <1>9, <1>10, <1>11 DEF SteadyAt

(* ... and the busy flag follows. *)
LEMMA SteadySignals ==
  ASSUME NEW p \in Projects, Steady(p), NEW c \in Clients, SignalData(c)
  PROVE  SteadyAt(p)'
<1>1. /\ c = Gui /\ pc \in [Clients -> ClientPc]
  BY SteadyJob
<1>2. ConnectedOnce(p) /\ TurnTaken(p) /\ LatestOnly(p)
  BY DEF Steady
<1>3. StillWork(p) /\ pc[Gui] = "signal" /\ pc'[Gui] = "idle" /\ busy'
  BY <1>1 DEF SignalData, Goto, StillWork, shellVars
<1>4. /\ cpc' = cpc /\ cstop' = cstop /\ shell' = shell /\ flags' = flags /\ job' = job
  BY DEF SignalData, shellVars
<1>5. LatestOnly(p)'
  BY <1>2, <1>3, <1>4, StillLatest DEF LatestOnly, Sending
<1>6. ConnectedOnce(p)'
  BY <1>2, <1>3, <1>4 DEF ConnectedOnce
<1>7. TurnTaken(p)'
  BY <1>3 DEF TurnTaken
<1> QED
  BY <1>5, <1>6, <1>7 DEF SteadyAt

(* The compile thread; only a batch that is taken or a command that is sent *)
(* changes place.                                                           *)
LEMMA SteadyThread ==
  ASSUME NEW p \in Projects, Steady(p),
         WakeUp(p) \/ AfterSend(p) \/ BatchDone(p) \/ IdleWaitOver(p)
  PROVE  SteadyAt(p)'
<1>1. /\ cpc \in [Projects -> ThreadPc] /\ local \in [Projects -> Seq(Command)]
      /\ ConnectedOnce(p) /\ TurnTaken(p) /\ LatestOnly(p)
  BY DEF Steady, TypeInv, TypeOK
<1>2. ~cstop[p] /\ cpc[p] # "off" /\ cpc'[p] # "off"
  BY <1>1 DEF WakeUp, AfterSend, BatchDone, IdleWaitOver, ThreadGoto, ConnectedOnce
<1>3. /\ StillWork(p) /\ flags' = flags /\ busy' = busy /\ shell' = shell /\ cstop' = cstop
      /\ pc' = pc /\ job' = job
  BY <1>2 DEF WakeUp, AfterSend, BatchDone, IdleWaitOver, clientVars, stateVars, shellVars,
              StillWork
<1>4. local[p] # <<>> => Sending(p)'
  <2>1. local[p] # <<>> => Sending(p)
    BY <1>1 DEF LatestOnly
  <2> QED
    BY <1>1, <1>2, <2>1 DEF WakeUp, AfterSend, BatchDone, IdleWaitOver, ThreadGoto, Sending
<1>5. LatestOnly(p)'
  BY <1>1, <1>3, <1>4, StillLatest
<1>6. ConnectedOnce(p)'
  BY <1>1, <1>2, <1>3 DEF ConnectedOnce
<1>7. TurnTaken(p)'
  BY <1>1, <1>3, StillFree DEF TurnTaken
<1> QED
  BY <1>5, <1>6, <1>7 DEF SteadyAt

LEMMA SteadyTakes ==
  ASSUME NEW p \in Projects, Steady(p), TakeBatch(p)
  PROVE  SteadyAt(p)'
<1>1. /\ cpc \in [Projects -> ThreadPc] /\ local \in [Projects -> Seq(Command)]
      /\ queue \in [Projects -> Seq(Command)] /\ host \in [Projects -> Seq(Command)]
      /\ aFlags \in [Projects -> Seq(SUBSET Flag)] /\ flags \in [Projects -> SUBSET Flag]
      /\ ConnectedOnce(p) /\ TurnTaken(p) /\ LatestOnly(p)
  BY DEF Steady, TypeInv, TypeOK
<1>2. /\ cpc[p] = "take" /\ cpc'[p] = "send"
      /\ local'[p] = queue[p] /\ queue'[p] = <<>> /\ aFlags'[p] = <<>> /\ host'[p] = host[p]
      /\ flags'[p] = UNION {aFlags[p][k] : k \in 1..Len(aFlags[p])}
      /\ busy' = busy /\ cstop' = cstop /\ shell' = shell /\ sess' = sess
      /\ pc' = pc /\ job' = job
  BY <1>1 DEF TakeBatch, ThreadGoto, clientVars, shellVars
<1>3. local[p] = <<>>
  BY <1>1, <1>2 DEF LatestOnly, Sending
<1>4. Work(p)' = Work(p)
  BY <1>1, <1>2, <1>3, WorkTaken DEF Work
<1>5. Sorted(Work(p))' /\ \A k \in 1..Len(Work(p)') : (Work(p)')[k].s = Len(sess')
  BY <1>1, <1>2, <1>4 DEF LatestOnly, Sorted, Before
<1>6. queue[p] # <<>> => flags'[p] = SessionFlags(sess[Len(sess)].kind)
  <2>1. \A f : UNION {<<f>>[k] : k \in 1..Len(<<f>>)} = f
    <3> TAKE f
    <3>1. Len(<<f>>) = 1 /\ <<f>>[1] = f /\ 1..1 = {1}
      OBVIOUS
    <3>2. {<<f>>[k] : k \in 1..Len(<<f>>)} = {f}
      BY <3>1
    <3> QED
      BY <3>2
  <2>2. queue[p] # <<>> => aFlags[p] = <<SessionFlags(sess[Len(sess)].kind)>>
    BY <1>1 DEF LatestOnly
  <2> DEFINE f == SessionFlags(sess[Len(sess)].kind)
  <2>3. ASSUME queue[p] # <<>> PROVE flags'[p] = f
    <3>1. flags'[p] = UNION {<<f>>[k] : k \in 1..Len(<<f>>)}
      BY <1>2, <2>2, <2>3
    <3> HIDE DEF f
    <3> QED
      BY <2>1, <3>1
  <2> QED
    BY <2>3
<1>7. LatestOnly(p)'
  BY <1>2, <1>5, <1>6 DEF LatestOnly, Sending, SessionFlags
<1>8. ConnectedOnce(p)'
  BY <1>1, <1>2 DEF ConnectedOnce
<1>9. Free(p) => Free(p)'
  BY <1>2 DEF Free
<1>10. Free(p)' => Free(p)
  BY <1>1, <1>2, <1>3 DEF Free, LatestOnly
<1>11. TurnTaken(p)'
  BY <1>1, <1>2, <1>9, <1>10 DEF TurnTaken
<1> QED
  BY <1>7, <1>8, <1>11 DEF SteadyAt

LEMMA SteadySends ==
  ASSUME NEW p \in Projects, Steady(p), SendCommand(p)
  PROVE  SteadyAt(p)'
<1>1. /\ cpc \in [Projects -> ThreadPc] /\ local \in [Projects -> Seq(Command)]
      /\ queue[p] \in Seq(Command) /\ host \in [Projects -> Seq(Command)]
      /\ local[p] \in Seq(Command) /\ host[p] \in Seq(Command)
      /\ ConnectedOnce(p) /\ TurnTaken(p) /\ LatestOnly(p)
  BY DEF Steady, TypeInv, TypeOK
<1>2. /\ cpc[p] = "send" /\ cpc'[p] = "sent" /\ local[p] # <<>>
      /\ local'[p] = Tail(local[p]) /\ host'[p] = Append(host[p], Head(local[p]))
      /\ queue' = queue /\ aFlags' = aFlags /\ flags' = flags
      /\ busy' = busy /\ cstop' = cstop /\ shell' = shell /\ sess' = sess
      /\ pc' = pc /\ job' = job
  BY <1>1 DEF SendCommand, ThreadGoto, clientVars, stateVars
<1>3. Work(p)' = Work(p)
  <2>1. Work(p)' = (Append(host[p], Head(local[p])) \o Tail(local[p])) \o queue[p]
    BY <1>2 DEF Work
  <2>2. @ = (host[p] \o local[p]) \o queue[p]
    BY <1>1, <1>2, WorkSent
  <2> QED
    BY <2>1, <2>2 DEF Work
<1>4. Sorted(Work(p))' /\ \A k \in 1..Len(Work(p)') : (Work(p)')[k].s = Len(sess')
  BY <1>1, <1>2, <1>3 DEF LatestOnly, Sorted, Before
<1>5. flags[p] = SessionFlags(sess[Len(sess)].kind)
  BY <1>1, <1>2 DEF LatestOnly
<1>6. LatestOnly(p)'
  BY <1>1, <1>2, <1>4, <1>5 DEF LatestOnly, Sending, SessionFlags
<1>7. ConnectedOnce(p)'
  BY <1>1, <1>2 DEF ConnectedOnce
<1>8. ~Free(p)
  BY <1>2 DEF Free
<1>9. TurnTaken(p)'
  BY <1>1, <1>2, <1>8 DEF TurnTaken
<1> QED
  BY <1>6, <1>7, <1>9 DEF SteadyAt

(* The host answers; a marker is the last command on its way. *)
LEMMA SteadyAnswers ==
  ASSUME NEW p \in Projects, Steady(p), HostAnswers(p)
  PROVE  SteadyAt(p)'
<1>1. /\ local[p] \in Seq(Command) /\ queue[p] \in Seq(Command)
      /\ host[p] \in Seq(Command) /\ host \in [Projects -> Seq(Command)]
      /\ flags \in [Projects -> SUBSET Flag]
      /\ ConnectedOnce(p) /\ TurnTaken(p) /\ LatestOnly(p)
  BY DEF Steady, TypeInv, TypeOK
<1>2. /\ host[p] # <<>> /\ host'[p] = Tail(host[p])
      /\ local' = local /\ queue' = queue /\ aFlags' = aFlags /\ cpc' = cpc
      /\ cstop' = cstop /\ shell' = shell /\ sess' = sess /\ pc' = pc /\ job' = job
  BY <1>1 DEF HostAnswers, clientVars, threadVars
<1> DEFINE w == Work(p)
<1>3. /\ w \in Seq(Command) /\ w # <<>> /\ w[1] = Head(host[p])
      /\ Len(w) = Len(host[p]) + Len(local[p]) + Len(queue[p])
      /\ Work(p)' = Tail(w)
  <2>1. Work(p)' = (Tail(host[p]) \o local[p]) \o queue[p]
    BY <1>2 DEF Work
  <2> QED
    BY <1>1, <1>2, <2>1, WorkAnswered DEF Work
<1>4. Sorted(w) /\ \A k \in 1..Len(w) : w[k].s = Len(sess)
  BY <1>1 DEF LatestOnly
<1>5. Sorted(Work(p))' /\ \A k \in 1..Len(Work(p)') : (Work(p)')[k].s = Len(sess')
  <2> HIDE DEF w
  <2>1. \A k \in 1..Len(Tail(w)) : k + 1 \in 1..Len(w) /\ Tail(w)[k] = w[k + 1]
    BY <1>3, TailAt
  <2>2. \A k \in 1..Len(Tail(w)) : Tail(w)[k].s = Len(sess)
    BY <1>4, <2>1
  <2>3. ASSUME NEW j \in 1..Len(Tail(w)), NEW k \in 1..Len(Tail(w)), j < k
        PROVE  Before(Tail(w)[j], Tail(w)[k])
    <3>1. j + 1 < k + 1
      BY <2>3
    <3> QED
      BY <1>4, <2>1, <3>1 DEF Sorted
  <2> QED
    BY <1>2, <1>3, <2>2, <2>3 DEF Sorted, Before
<1>6. CASE IsMarker(Head(host[p]))
  <2>1. Len(w) = 1
    BY <1>3, <1>4, <1>6, MarkerIsLast DEF AllOf
  <2>2. host'[p] = <<>> /\ local[p] = <<>> /\ queue[p] = <<>>
    <3>1. /\ Len(host[p]) \in Nat \ {0} /\ Len(local[p]) \in Nat /\ Len(queue[p]) \in Nat
      BY <1>1, <1>2
    <3>2. \A x \in Nat \ {0}, y, z \in Nat : x + y + z = 1 => x = 1 /\ y = 0 /\ z = 0
      OBVIOUS
    <3>3. Len(host[p]) + Len(local[p]) + Len(queue[p]) = 1
      BY <1>3, <2>1
    <3>4. Len(host[p]) = 1 /\ Len(local[p]) = 0 /\ Len(queue[p]) = 0
      BY <3>1, <3>2, <3>3
    <3>5. Tail(host[p]) = <<>>
      BY <1>1, <3>4, OneLeft
    <3>6. \A q \in Seq(Command) : Len(q) = 0 => q = <<>>
      OBVIOUS
    <3> QED
      BY <1>1, <1>2, <3>4, <3>5, <3>6
  <2>3. Free(p)'
    BY <1>1, <1>2, <2>2 DEF Free, LatestOnly
  <2> QED
    BY <1>1, <1>2, <1>5, <2>2, <2>3 DEF SteadyAt, LatestOnly, TurnTaken, ConnectedOnce, Sending
<1>7. CASE ~IsMarker(Head(host[p]))
  <2>1. flags' = flags /\ busy' = busy
    BY <1>7 DEF HostAnswers, stateVars
  <2>2. ~Free(p)
    BY <1>2 DEF Free
  <2>3. TurnTaken(p)'
    BY <1>1, <1>2, <2>1, <2>2 DEF TurnTaken
  <2>4. LatestOnly(p)'
    BY <1>1, <1>2, <1>5, <2>1 DEF LatestOnly, Sending
  <2>5. ConnectedOnce(p)'
    <3>1. cpc[p] # "off"
      BY <1>1, <2>2 DEF ConnectedOnce
    <3> QED
      BY <1>1, <1>2, <3>1 DEF ConnectedOnce
  <2> QED
    BY <2>3, <2>4, <2>5 DEF SteadyAt
<1> QED
  BY <1>6, <1>7

LEMMA SteadyUps ==
  ASSUME NEW p \in Projects, Steady(p), Connect(p)
  PROVE  SteadyAt(p)'
<1>1. shell \in [Projects -> {"off", "connecting", "up"}]
      /\ ConnectedOnce(p) /\ TurnTaken(p) /\ LatestOnly(p)
  BY DEF Steady, TypeInv, TypeOK
<1>2. /\ StillWork(p) /\ flags' = flags /\ busy' = busy /\ cpc' = cpc /\ cstop' = cstop
      /\ pc' = pc /\ job' = job /\ shell[p] = "connecting" /\ shell'[p] = "up"
  BY <1>1 DEF Connect, clientVars, threadVars, stateVars, StillWork
<1>3. LatestOnly(p)'
  BY <1>1, <1>2, StillLatest DEF LatestOnly, Sending
<1> QED
  BY <1>1, <1>2, <1>3, StillFree DEF SteadyAt, ConnectedOnce, TurnTaken

LEMMA SteadyStep ==
  Alone /\ TypeInv /\ TypeInv' /\ SteadyInv /\ [SteadyNext]_vars => SteadyInv'
<1> SUFFICES ASSUME Alone, TypeInv, TypeInv', SteadyInv, [SteadyNext]_vars,
                    NEW p \in Projects
             PROVE  SteadyAt(p)'
  BY DEF SteadyInv, SteadyAt
<1>1. Steady(p) /\ \A q \in Projects : q = p
  BY DEF Steady, SteadyInv, Alone
<1>2. ASSUME NEW c \in Clients,
        \/ \E q \in Projects, op \in Op \ {"close"} :
             (cpc[q] = "off" \/ shell[q] = "up") /\ Request(c, q, op)
        \/ EnterConnected(c) \/ EnterStop(c) \/ JoinShell(c) \/ JoinThread(c)
        \/ CheckBusy(c) \/ (shell[job[c].proj] = "up" /\ Ask(c))
        \/ Listen(c) \/ Enqueue(c) \/ SignalData(c)
      PROVE  SteadyAt(p)'
  BY <1>1, <1>2, SteadyAsks, SteadyConnects, SteadyEnqueues, SteadySignals
<1>3. ASSUME NEW q \in Projects,
        \/ WakeUp(q) \/ TakeBatch(q) \/ SendCommand(q) \/ AfterSend(q) \/ BatchDone(q)
        \/ IdleWaitOver(q) \/ Connect(q) \/ HostAnswers(q)
      PROVE  SteadyAt(p)'
  BY <1>1, <1>3, SteadyThread, SteadyTakes, SteadySends, SteadyAnswers, SteadyUps
<1>4. CASE UNCHANGED vars
  <2>1. /\ StillWork(p) /\ flags' = flags /\ busy' = busy /\ cpc' = cpc /\ cstop' = cstop
        /\ pc' = pc /\ job' = job /\ shell' = shell
    BY <1>4 DEF vars, clientVars, threadVars, stateVars, shellVars, StillWork
  <2>2. ConnectedOnce(p) /\ TurnTaken(p) /\ LatestOnly(p)
    BY <1>1 DEF Steady
  <2>3. LatestOnly(p)'
    BY <2>1, <2>2, StillLatest DEF LatestOnly, Sending
  <2> QED
    BY <2>1, <2>2, <2>3, StillFree DEF SteadyAt, ConnectedOnce, TurnTaken
<1> QED
  BY <1>2, <1>3, <1>4 DEF SteadyNext

LEMMA SteadyInvariant == ASSUME Alone PROVE SteadySpec => [](TypeInv /\ SteadyInv)
<1>1. Init => SteadyInv
  <2> SUFFICES ASSUME Init, NEW p \in Projects PROVE SteadyAt(p)
    BY DEF SteadyInv, SteadyAt
  <2>1. Free(p) /\ Work(p) = <<>> /\ cpc[p] = "off" /\ shell[p] = "off"
    BY DEF Init, Free, Work
  <2>2. pc[Gui] = "idle" /\ job[Gui].op = "connect"
    BY GuiAssumption DEF Init
  <2> QED
    BY <2>1, <2>2 DEF SteadyAt, ConnectedOnce, TurnTaken, LatestOnly, Free, Sorted
<1>2. TypeInv /\ TypeInv' /\ SteadyInv /\ [SteadyNext]_vars => SteadyInv'
  BY SteadyStep
<1> QED
  BY <1>1, <1>2, SteadyTypes, PTL DEF SteadySpec

(* So every command in one of the three places is of the latest session.    *)
LEMMA LatestEverywhere ==
  ASSUME NEW p \in Projects, TypeInv, LatestOnly(p)
  PROVE  AllOf(host[p], Len(sess)) /\ AllOf(local[p], Len(sess)) /\ AllOf(queue[p], Len(sess))
<1>1. /\ host[p] \in Seq(Command) /\ local[p] \in Seq(Command) /\ queue[p] \in Seq(Command)
  BY DEF TypeInv, TypeOK
<1>2. AllOf((host[p] \o local[p]) \o queue[p], Len(sess))
  BY DEF LatestOnly, Work, AllOf
<1> QED
  BY <1>1, <1>2, WorkHolds

(* In the steady environment the busy check of _StartProcess (line 584)     *)
(* keeps its promise: the commands on their way are of one session.         *)
THEOREM SessionsDoNotMix == ASSUME Alone PROVE SteadySpec => []OneSessionAtATime
<1>1. TypeInv /\ SteadyInv => OneSessionAtATime
  <2> SUFFICES ASSUME TypeInv, SteadyInv, NEW p \in Projects, NEW m \in InProgress(p)
               PROVE  m = Len(sess)
    BY DEF OneSessionAtATime
  <2>1. AllOf(host[p], Len(sess)) /\ AllOf(local[p], Len(sess)) /\ AllOf(queue[p], Len(sess))
    BY LatestEverywhere DEF SteadyInv
  <2> QED
    BY <2>1 DEF InProgress, SessionsIn, AllOf
<1> QED
  BY <1>1, SteadyInvariant, PTL

(* ... so the marker the manager is about to see is that of its session ... *)
THEOREM MarkerIsOwn == ASSUME Alone PROVE SteadySpec => []MarkerEndsOwnSession
<1>1. TypeInv /\ SteadyInv => MarkerEndsOwnSession
  <2> SUFFICES ASSUME TypeInv, SteadyInv, NEW p \in Projects, host[p] # <<>>
               PROVE  Head(host[p]).s = Latest(p)
    BY DEF MarkerEndsOwnSession, Compiling
  <2> DEFINE n == Len(sess)
  <2>1. /\ LatestOnly(p) /\ host[p] \in Seq(Command) /\ local[p] \in Seq(Command)
        /\ queue[p] \in Seq(Command) /\ sess \in Seq(Session) /\ n \in Nat
    BY DEF SteadyInv, TypeInv, TypeOK
  <2>2. Head(host[p]).s = n /\ Head(host[p]) \in Command
    <3>1. Work(p) # <<>> /\ Work(p) \in Seq(Command) /\ Work(p)[1] = Head(host[p])
      BY <2>1, WorkAnswered DEF Work
    <3>2. 1 \in 1..Len(Work(p))
      BY <3>1
    <3> QED
      BY <2>1, <3>1, <3>2 DEF LatestOnly
  <2>3. n \in 1..n
    BY <2>1, <2>2 DEF Command
  <2>4. SessionsOf(p) = 1..n
    <3>1. \A k \in 1..n : sess[k].proj = p
      <4>1. \A k \in 1..n : sess[k] \in Session
        BY <2>1
      <4>2. \A x \in Session : x.proj \in Projects
        BY DEF Session
      <4> QED
        BY <4>1, <4>2 DEF Alone
    <3> QED
      BY <3>1 DEF SessionsOf
  <2>5. Latest(p) = n
    <3>1. n \in SessionsOf(p) /\ \A m \in SessionsOf(p) : m <= n
      BY <2>1, <2>3, <2>4
    <3>2. \A k \in SessionsOf(p) : (\A m \in SessionsOf(p) : m <= k) => k = n
      BY <2>1, <2>3, <2>4
    <3> QED
      BY <3>1, <3>2 DEF Latest
  <2> QED
    BY <2>2, <2>5
<1> QED
  BY <1>1, SteadyInvariant, PTL

(* ... and its output is routed by the flags it was started with.           *)
THEOREM FlagsAreActive == ASSUME Alone PROVE SteadySpec => []FlagsOfActiveSession
<1>1. TypeInv /\ SteadyInv => FlagsOfActiveSession
  <2> SUFFICES ASSUME TypeInv, SteadyInv, NEW p \in Projects, local[p] # <<>>
               PROVE  flags[p] = SessionFlags(sess[Head(local[p]).s].kind)
    BY DEF FlagsOfActiveSession
  <2>1. LatestOnly(p) /\ local[p] \in Seq(Command)
    BY DEF SteadyInv, TypeInv, TypeOK
  <2>2. \A k \in 1..Len(local[p]) : local[p][k].s = Len(sess)
    BY <2>1, LatestEverywhere DEF AllOf
  <2>3. Head(local[p]).s = Len(sess)
    <3>1. 1 \in 1..Len(local[p]) /\ Head(local[p]) = local[p][1]
      BY <2>1
    <3> QED
      BY <2>2, <3>1
  <2> QED
    BY <2>1, <2>3 DEF LatestOnly
<1> QED
  BY <1>1, SteadyInvariant, PTL


-----------------------------------------------------------------------------
(* The line listeners. *)
(* A pointer is added at the end of the list. *)
LEMMA AppendList ==
  ASSUME NEW q \in Seq(Listeners), NEW l \in Listeners, l \notin Members(q), IsInjective(q)
  PROVE  /\ Append(q, l) \in Seq(Listeners)
         /\ IsInjective(Append(q, l))
         /\ Members(Append(q, l)) = Members(q) \union {l}
<1>1. /\ DOMAIN Append(q, l) = 1..(Len(q) + 1) /\ Append(q, l)[Len(q) + 1] = l
      /\ \A i \in 1..Len(q) : Append(q, l)[i] = q[i] /\ q[i] # l
  BY DEF Members, ToSet
<1>2. IsInjective(Append(q, l))
  <2> SUFFICES ASSUME NEW i \in 1..(Len(q) + 1), NEW j \in 1..(Len(q) + 1),
                      Append(q, l)[i] = Append(q, l)[j]
               PROVE  i = j
    BY <1>1 DEF IsInjective
  <2>1. CASE i \in 1..Len(q) /\ j \in 1..Len(q)
    BY <1>1, <2>1 DEF IsInjective
  <2> QED
    BY <1>1, <2>1
<1>3. Members(Append(q, l)) = Members(q) \union {l}
  BY <1>1 DEF Members, ToSet
<1> QED
  BY <1>2, <1>3

(* The first occurrence of a pointer is removed, which is the only one. *)
LEMMA RemoveList ==
  ASSUME NEW q \in Seq(Listeners), NEW l \in Members(q), IsInjective(q)
  PROVE  /\ Without(q, l) \in Seq(Listeners)
         /\ IsInjective(Without(q, l))
         /\ Members(Without(q, l)) = Members(q) \ {l}
         /\ Len(Without(q, l)) = Len(q) - 1
<1> DEFINE i == CHOOSE i \in 1..Len(q) : q[i] = l
           r == Without(q, l)
<1>1. i \in 1..Len(q) /\ q[i] = l
  BY DEF Members, ToSet
<1> HIDE DEF i
<1>2. r = SubSeq(q, 1, i - 1) \o SubSeq(q, i + 1, Len(q))
  BY DEF Without, RemoveAt, i
<1>3. /\ r \in Seq(Listeners) /\ Len(r) = Len(q) - 1
      /\ \A k \in 1..Len(r) : r[k] = IF k < i THEN q[k] ELSE q[k + 1]
  <2>1. /\ SubSeq(q, 1, i - 1) \in Seq(Listeners) /\ Len(SubSeq(q, 1, i - 1)) = i - 1
        /\ \A k \in 1..(i - 1) : SubSeq(q, 1, i - 1)[k] = q[k]
    BY <1>1
  <2>2. /\ SubSeq(q, i + 1, Len(q)) \in Seq(Listeners)
        /\ Len(SubSeq(q, i + 1, Len(q))) = Len(q) - i
        /\ \A k \in 1..(Len(q) - i) : SubSeq(q, i + 1, Len(q))[k] = q[k + i]
    BY <1>1
  <2> DEFINE a == SubSeq(q, 1, i - 1)
             b == SubSeq(q, i + 1, Len(q))
  <2>3. /\ a \in Seq(Listeners) /\ Len(a) = i - 1 /\ r = a \o b
        /\ b \in Seq(Listeners) /\ Len(b) = Len(q) - i
    BY <1>2, <2>1, <2>2
  <2>4. \A k \in 1..(i - 1) : a[k] = q[k]
    BY <2>1
  <2>5. \A k \in 1..(Len(q) - i) : b[k] = q[k + i]
    BY <2>2
  <2> HIDE DEF a, b, r
  <2>6. r \in Seq(Listeners) /\ Len(r) = Len(q) - 1
    BY <1>1, <2>3
  <2>7. ASSUME NEW k \in 1..Len(r) PROVE r[k] = IF k < i THEN q[k] ELSE q[k + 1]
    <3>1. CASE k < i
      BY <1>1, <2>3, <2>4, <2>6, <3>1
    <3>2. CASE k >= i
      <4>1. r[k] = b[k - (i - 1)] /\ k - (i - 1) \in 1..(Len(q) - i)
        BY <1>1, <2>3, <2>6, <3>2
      <4>2. b[k - (i - 1)] = q[(k - (i - 1)) + i] /\ (k - (i - 1)) + i = k + 1
        BY <1>1, <2>5, <4>1
      <4> QED
        BY <1>1, <3>2, <4>1, <4>2
    <3> QED
      BY <1>1, <3>1, <3>2
  <2> QED
    BY <2>6, <2>7
<1> HIDE DEF r
<1>4. IsInjective(r)
  <2> SUFFICES ASSUME NEW j \in 1..Len(r), NEW k \in 1..Len(r), r[j] = r[k]
               PROVE  j = k
    BY <1>3 DEF IsInjective
  <2> DEFINE m == IF j < i THEN j ELSE j + 1
             n == IF k < i THEN k ELSE k + 1
  <2>1. m \in 1..Len(q) /\ n \in 1..Len(q) /\ r[j] = q[m] /\ r[k] = q[n]
    BY <1>1, <1>3
  <2>2. m = n
    <3> HIDE DEF m, n
    <3>1. q[m] = q[n]
      BY <2>1
    <3>2. DOMAIN q = 1..Len(q)
      OBVIOUS
    <3> QED
      BY <2>1, <3>1, <3>2 DEF IsInjective
  <2> QED
    BY <1>1, <1>3, <2>2
<1>5. Members(r) = Members(q) \ {l}
  <2>1. ASSUME NEW x \in Members(r) PROVE x \in Members(q) /\ x # l
    <3>1. PICK k \in 1..Len(r) : x = r[k]
      BY <1>3 DEF Members, ToSet
    <3> QED
      BY <1>1, <1>3, <3>1 DEF Members, ToSet, IsInjective
  <2>2. ASSUME NEW x \in Members(q), x # l PROVE x \in Members(r)
    <3>1. PICK k \in 1..Len(q) : x = q[k]
      BY DEF Members, ToSet
    <3>2. CASE k < i
      <4>1. k \in 1..Len(r) /\ r[k] = x
        BY <1>1, <1>3, <3>1, <3>2
      <4> QED
        BY <1>3, <4>1 DEF Members, ToSet
    <3>3. CASE k > i
      <4>1. k - 1 \in 1..Len(r) /\ r[k - 1] = x
        BY <1>1, <1>3, <3>1, <3>3
      <4> QED
        BY <1>3, <4>1 DEF Members, ToSet
    <3> QED
      BY <1>1, <2>2, <3>1, <3>2, <3>3
  <2> QED
    BY <2>1, <2>2
<1> QED
  BY <1>3, <1>4, <1>5 DEF r

-----------------------------------------------------------------------------
Inv == LineTypeOK /\ CopiesInv

LEMMA InvInit == LineInit => Inv
<1> SUFFICES ASSUME LineInit PROVE Inv
  OBVIOUS
<1>1. LineTypeOK
  BY MaxLinesAssumption DEF LineInit, LineTypeOK
<1>2. CopiesInv
  BY DEF LineInit, CopiesInv, IsInjective
<1> QED
  BY <1>1, <1>2 DEF Inv

LEMMA InvStep == Inv /\ [LineNext]_lineVars => Inv'
<1> SUFFICES ASSUME Inv, [LineNext]_lineVars PROVE Inv'
  OBVIOUS
<1> USE DEF Inv
<1>1. ASSUME NEW l \in Listeners, AddLineListener(l) PROVE Inv'
  <2>1. list' \in Seq(Listeners) /\ IsInjective(list')
    BY <1>1, AppendList DEF AddLineListener, LineTypeOK, CopiesInv
  <2> QED
    BY <1>1, <2>1 DEF AddLineListener, LineTypeOK, CopiesInv, AllStale
<1>2. ASSUME NEW l \in Listeners, RemoveLineListener(l) PROVE Inv'
  <2>1. list' \in Seq(Listeners) /\ IsInjective(list')
    BY <1>2, RemoveList DEF RemoveLineListener, LineTypeOK, CopiesInv
  <2> QED
    BY <1>2, <2>1 DEF RemoveLineListener, LineTypeOK, CopiesInv, AllStale
<1>3. ASSUME NEW b \in Threads, Copy(b) PROVE Inv'
  <2>1. LineTypeOK'
    <3>1. step'[b] # "idle" => pos'[b] \in 1..Len(copy'[b])
      BY <1>3 DEF Copy, LineTypeOK
    <3>2. \A c \in Threads : step'[c] # "idle" => pos'[c] \in 1..Len(copy'[c])
      BY <1>3, <3>1 DEF Copy, LineTypeOK
    <3>3. copy' \in [Threads -> Seq(Listeners)] /\ pos' \in [Threads -> Nat]
      BY <1>3 DEF Copy, LineTypeOK
    <3>4. count' \in 0..MaxLines /\ line' \in [Threads -> Nat]
      BY <1>3, MaxLinesAssumption DEF Copy, LineTypeOK
    <3>5. /\ step' \in [Threads -> {"idle", "call", "check"}]
          /\ marker' \in [Threads -> BOOLEAN] /\ stale' \in [Threads -> BOOLEAN]
      BY <1>3 DEF Copy, LineTypeOK
    <3> QED
      BY <1>3, <3>2, <3>3, <3>4, <3>5 DEF Copy, LineTypeOK
  <2>2. CopiesInv'
    BY <1>3 DEF Copy, LineTypeOK, CopiesInv
  <2> QED
    BY <2>1, <2>2
<1>4. ASSUME NEW b \in Threads, Call(b) PROVE Inv'
  <2>1. copy[b][pos[b]] \in Listeners
    <3>1. step[b] = "call"
      BY <1>4 DEF Call
    <3>2. copy[b] \in Seq(Listeners) /\ pos[b] \in 1..Len(copy[b])
      BY <3>1 DEF LineTypeOK
    <3> QED
      BY <3>2
  <2>2. list' \in Seq(Listeners) /\ IsInjective(list')
    BY <1>4, RemoveList DEF Call, LineTypeOK, CopiesInv
  <2>3. LineTypeOK'
    <3>1. got' \in [Listeners -> Seq(Nat)]
      BY <1>4, <2>1 DEF Call, LineTypeOK
    <3>2. stale' \in [Threads -> BOOLEAN]
      BY <1>4 DEF Call, LineTypeOK, AllStale
    <3>3. /\ step' \in [Threads -> {"idle", "call", "check"}]
          /\ \A c \in Threads : step'[c] # "idle" => step[c] # "idle"
      BY <1>4 DEF Call, LineTypeOK
    <3> QED
      BY <1>4, <2>2, <3>1, <3>2, <3>3 DEF Call, LineTypeOK
  <2>4. CopiesInv'
    BY <1>4, <2>2 DEF Call, LineTypeOK, CopiesInv, AllStale
  <2> QED
    BY <2>3, <2>4
<1>5. ASSUME NEW b \in Threads, Check(b) PROVE Inv'
  <2>1. step[b] = "check" /\ pos[b] \in 1..Len(copy[b]) /\ copy[b] \in Seq(Listeners)
    BY <1>5 DEF Check, LineTypeOK
  <2>2. pos' \in [Threads -> Nat] /\ step' \in [Threads -> {"idle", "call", "check"}]
    BY <1>5, <2>1 DEF Check, LineTypeOK
  <2>3. \A c \in Threads : step'[c] # "idle" => pos'[c] \in 1..Len(copy'[c])
    BY <1>5, <2>1 DEF Check, LineTypeOK
  <2>4. \A c \in Threads : step'[c] # "idle" => step[c] # "idle"
    BY <1>5, <2>1 DEF Check, LineTypeOK
  <2> QED
    BY <1>5, <2>2, <2>3, <2>4 DEF Check, LineTypeOK, CopiesInv
<1>6. CASE UNCHANGED lineVars
  BY <1>6 DEF lineVars, LineTypeOK, CopiesInv
<1> QED
  BY <1>1, <1>2, <1>3, <1>4, <1>5, <1>6 DEF LineNext, Broadcast

LEMMA Invariant == LineSpec => []Inv
BY InvInit, InvStep, PTL DEF LineSpec

(* The list, the copies and the broadcasting threads keep their types, and  *)
(* the index of a broadcast underway is within its copy (LineTypeOK).           *)
THEOREM LineTypeCorrect == LineSpec => []LineTypeOK
BY Invariant, PTL DEF Inv

(* No pointer is twice on the listener list or on a copy of it, and a copy  *)
(* that nobody has made stale is the list (AddLineListener, BroadcastLine). *)
THEOREM CopiesCorrect == LineSpec => [](LineTypeOK /\ CopiesInv)
BY Invariant, PTL DEF Inv

-----------------------------------------------------------------------------
(* The refinement: the members are the pointers on the list, and a thread    *)
(* still owes its line to the copied pointers at and below its index.       *)

LEMMA FeedInit == LineInit => Feed!Init
<1> SUFFICES ASSUME LineInit PROVE Feed!Init
  OBVIOUS
<1>1. Members(list) = {}
  BY DEF LineInit, Members, ToSet
<1>2. \A b \in Threads : Pending(b) = {} /\ step[b] = "idle"
  BY DEF LineInit, Pending
<1> QED
  BY <1>1, <1>2 DEF LineInit, Feed!Init

(* Adding and removing are Join and Leave. *)
LEMMA FeedJoin ==
  ASSUME Inv, NEW l \in Listeners, AddLineListener(l)
  PROVE  Feed!Join(l)
<1>1. Members(list') = Members(list) \union {l}
  BY AppendList DEF AddLineListener, Inv, LineTypeOK, CopiesInv
<1>2. \A b \in Threads : Pending(b)' = Pending(b)
  BY DEF AddLineListener, Pending
<1> QED
  BY <1>1, <1>2 DEF AddLineListener, AllStale, Feed!Join, Feed!AllStale, Members

LEMMA FeedLeave ==
  ASSUME Inv, NEW l \in Listeners, RemoveLineListener(l)
  PROVE  Feed!Leave(l)
<1>1. Members(list') = Members(list) \ {l}
  BY RemoveList DEF RemoveLineListener, Inv, LineTypeOK, CopiesInv
<1>2. \A b \in Threads : Pending(b)' = Pending(b)
  BY DEF RemoveLineListener, Pending
<1> QED
  BY <1>1, <1>2 DEF RemoveLineListener, AllStale, Feed!Leave, Feed!AllStale, Members

(* Copying begins the broadcast. *)
LEMMA FeedBegin ==
  ASSUME Inv, NEW b \in Threads, Copy(b)
  PROVE  Feed!Begin(b)
<1>1. list \in Seq(Listeners) /\ copy'[b] = list /\ pos'[b] = Len(list)
  BY DEF Copy, Inv, LineTypeOK
<1>2. list = <<>> <=> Members(list) = {}
  <2>1. CASE list = <<>>
    BY <2>1 DEF Members, ToSet
  <2>2. CASE list # <<>>
    <3>1. 1 \in DOMAIN list
      BY <1>1, <2>2
    <3> QED
      BY <2>2, <3>1 DEF Members, ToSet
  <2> QED
    BY <2>1, <2>2
<1>3. step'[b] = IF list = <<>> THEN "idle" ELSE "call"
  BY DEF Copy, Inv, LineTypeOK
<1>4. Pending(b)' = Members(list)
  <2>1. CASE list = <<>>
    BY <1>2, <1>3, <2>1 DEF Pending
  <2>2. CASE list # <<>>
    BY <1>1, <1>3, <2>2 DEF Pending, Members, ToSet
  <2> QED
    BY <2>1, <2>2
<1>5. \A c \in Threads \ {b} : Pending(c)' = Pending(c) /\ step'[c] = step[c]
  BY DEF Copy, Pending, Inv, LineTypeOK
<1>6. [c \in Threads |-> Pending(c)]' = [[c \in Threads |-> Pending(c)] EXCEPT ![b] = Members(list)]
  BY <1>4, <1>5
<1>7. [c \in Threads |-> step[c] # "idle"]'
        = [[c \in Threads |-> step[c] # "idle"] EXCEPT ![b] = Members(list) # {}]
  BY <1>2, <1>3, <1>5
<1>8. Members(list)' = Members(list)
  BY DEF Copy, Members
<1>9. step[b] = "idle"
  BY DEF Copy
<1> QED
  BY <1>6, <1>7, <1>8, <1>9 DEF Copy, Feed!Begin

(* Each copied pointer is called once: copies are without duplicates. *)
LEMMA FeedHear ==
  ASSUME Inv, NEW b \in Threads, Call(b)
  PROVE  Feed!Hear(b, copy[b][pos[b]]) /\ copy[b][pos[b]] \in Listeners
<1> DEFINE l == copy[b][pos[b]]
<1>1. step[b] = "call" /\ pos[b] \in 1..Len(copy[b]) /\ copy[b] \in Seq(Listeners)
  BY DEF Call, Inv, LineTypeOK
<1>2. l \in Listeners
  BY <1>1
<1>3. step'[b] = "check" /\ pos' = pos /\ copy' = copy
  BY DEF Call, Inv, LineTypeOK
<1>4. l \in Pending(b) /\ Pending(b)' = Pending(b) \ {l}
  <2>1. Pending(b) = {copy[b][i] : i \in 1..pos[b]}
    BY <1>1 DEF Pending
  <2>2. Pending(b)' = {copy[b][i] : i \in 1..(pos[b] - 1)}
    BY <1>3 DEF Pending
  <2>3. \A i \in 1..(pos[b] - 1) : copy[b][i] # l
    <3>1. DOMAIN copy[b] = 1..Len(copy[b]) /\ IsInjective(copy[b])
      BY <1>1 DEF Inv, CopiesInv
    <3> QED
      BY <1>1, <3>1 DEF IsInjective
  <2> QED
    BY <1>1, <2>1, <2>2, <2>3
<1>5. \A c \in Threads \ {b} : Pending(c)' = Pending(c) /\ step'[c] = step[c]
  BY DEF Call, Pending, Inv, LineTypeOK
<1>6. [c \in Threads |-> Pending(c)]'
        = [[c \in Threads |-> Pending(c)] EXCEPT ![b] = @ \ {l}]
  BY <1>4, <1>5
<1>7. [c \in Threads |-> step[c] # "idle"]' = [c \in Threads |-> step[c] # "idle"]
  BY <1>1, <1>3, <1>5
<1>8. \/ Members(list)' = Members(list) /\ stale' = stale
      \/ /\ l \in Members(list) /\ Members(list)' = Members(list) \ {l}
         /\ stale' = AllStale
  <2>1. CASE marker[b] /\ l = Manager /\ l \in Members(list)
    BY <2>1, RemoveList DEF Call, Inv, LineTypeOK, CopiesInv, Members
  <2>2. CASE ~(marker[b] /\ l = Manager /\ l \in Members(list))
    BY <2>2 DEF Call, Members
  <2> QED
    BY <2>1, <2>2
<1>9. [c \in Threads |-> Pending(c)][b] = Pending(b)
  OBVIOUS
<1> HIDE DEF l
<1>10. got' = [got EXCEPT ![l] = Append(@, line[b])] /\ UNCHANGED <<count, line>>
  BY DEF Call, l
<1>11. Feed!Hear(b, l)
  BY <1>1, <1>4, <1>6, <1>7, <1>8, <1>9, <1>10 DEF Feed!Hear, Feed!AllStale, AllStale
<1> QED
  BY <1>2, <1>11 DEF l

(* The broadcast ends, or goes on to the next pointer. *)
LEMMA FeedEnd ==
  ASSUME Inv, NEW b \in Threads, Check(b)
  PROVE  Feed!End(b) \/ UNCHANGED Feed!vars
<1>1. step[b] = "check" /\ pos[b] \in 1..Len(copy[b]) /\ pos'[b] = pos[b] - 1
  BY DEF Check, Inv, LineTypeOK
<1>2. \A c \in Threads \ {b} : Pending(c)' = Pending(c) /\ step'[c] = step[c]
  BY DEF Check, Pending, Inv, LineTypeOK
<1>3. Members(list)' = Members(list) /\ UNCHANGED <<count, line, stale, got>> /\ copy' = copy
  BY DEF Check, Members
<1>4. CASE Len(list) # Len(copy[b]) \/ pos[b] = 1
  <2>1. step'[b] = "idle" /\ Pending(b)' = {}
    BY <1>4 DEF Check, Inv, LineTypeOK, Pending
  <2>2. Pending(b) = {} \/ stale[b]
    <3>1. CASE pos[b] = 1
      BY <1>1, <3>1 DEF Pending
    <3>2. CASE Len(list) # Len(copy[b])
      BY <1>1, <3>2 DEF Inv, CopiesInv, LineTypeOK
    <3> QED
      BY <1>4, <3>1, <3>2
  <2>3. [c \in Threads |-> Pending(c)]' = [[c \in Threads |-> Pending(c)] EXCEPT ![b] = {}]
    BY <1>2, <2>1
  <2>4. [c \in Threads |-> step[c] # "idle"]'
          = [[c \in Threads |-> step[c] # "idle"] EXCEPT ![b] = FALSE]
    BY <1>2, <2>1
  <2> QED
    BY <1>1, <1>3, <2>2, <2>3, <2>4 DEF Feed!End
<1>5. CASE ~(Len(list) # Len(copy[b]) \/ pos[b] = 1)
  <2>1. step'[b] = "call"
    BY <1>5 DEF Check, Inv, LineTypeOK
  <2>2. Pending(b)' = Pending(b)
    BY <1>1, <1>3, <2>1 DEF Pending
  <2>3. [c \in Threads |-> Pending(c)]' = [c \in Threads |-> Pending(c)]
    BY <1>2, <2>2
  <2>4. [c \in Threads |-> step[c] # "idle"]' = [c \in Threads |-> step[c] # "idle"]
    BY <1>1, <1>2, <2>1
  <2> QED
    BY <1>3, <2>3, <2>4 DEF Feed!vars
<1> QED
  BY <1>4, <1>5

LEMMA FeedStep == Inv /\ [LineNext]_lineVars => [Feed!Next]_(Feed!vars)
<1> SUFFICES ASSUME Inv, [LineNext]_lineVars PROVE Feed!Next \/ UNCHANGED Feed!vars
  OBVIOUS
<1>1. ASSUME NEW l \in Listeners, AddLineListener(l) \/ RemoveLineListener(l)
      PROVE  Feed!Next
  BY <1>1, FeedJoin, FeedLeave DEF Feed!Next
<1>2. ASSUME NEW b \in Threads, Broadcast(b) PROVE Feed!Next \/ UNCHANGED Feed!vars
  <2>1. CASE Copy(b)
    BY <2>1, FeedBegin DEF Feed!Next
  <2>2. CASE Call(b)
    BY <2>2, FeedHear DEF Feed!Next
  <2>3. CASE Check(b)
    BY <2>3, FeedEnd DEF Feed!Next
  <2> QED
    BY <1>2, <2>1, <2>2, <2>3 DEF Broadcast
<1>3. CASE UNCHANGED lineVars
  BY <1>3 DEF lineVars, Feed!vars, Members, ToSet, Pending
<1> QED
  BY <1>1, <1>2, <1>3 DEF LineNext

(* BroadcastLine and the two list operations implement LineFeed.            *)
THEOREM ImplementsFeed == LineSpec => FeedSpec
BY FeedInit, FeedStep, Invariant, PTL DEF LineSpec, FeedSpec, Feed!Spec

=============================================================================
