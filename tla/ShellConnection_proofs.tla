----------------------- MODULE ShellConnection_proofs -----------------------
(***************************************************************************)
(* When the owner alone restarts the connection, there is one I/O thread   *)
(* at a time, Stop() leaves nothing behind, and no line is written before  *)
(* the host has answered the login: for any number of threads and writes.  *)
(***************************************************************************)
EXTENDS ShellConnection, TLAPS

(* Only the owner gets into the situation to restart the connection.        *)
OnlyOwner == Restarters \subseteq {Owner}

-----------------------------------------------------------------------------
(* Why they hold when the owner alone restarts: the invariants of the       *)
(* proofs.  First, the threads: the one that runs has its handle in         *)
(* m_thread, and between the join and the creation there is none.          *)
ThreadInv ==
  /\ \A i \in Threads : io[i] \notin {"none", "ended"} => i = handle
  /\ \A i \in Threads : i > created => io[i] = "none"
  /\ pc[Writer] \in {"off", "idle", "poll", "send", "failed"}
  /\ pc[Owner] \notin {"off", "send"}
  /\ pc[Owner] = "wait" => target[Owner] = handle
  /\ pc[Owner] \in {"reset", "writer", "create"} => handle = 0
  /\ pc[Owner] = "idle" /\ op[Owner] = "close" => handle = 0

(* The socket is open, and the connection stands, only while it runs.       *)
Inside == {"top", "wait", "read", "refused", "close"}
SocketInv ==
  /\ \A i \in Threads : io[i] \in Inside => sock = i
  /\ sock # 0 => io[sock] \in Inside
  /\ connected => handle # 0 /\ io[handle] \in Inside \union {"closed"}

(* What the host has sent goes with what it makes of the connection; the    *)
(* connection stands, and a line is about to be written, only after it has *)
(* answered, and no thread is created or has yet to open the socket.       *)
Answered == {"shell", "refused", "gone"}
HostInv ==
  \A i \in Threads :
    /\ io[i] \in {"none", "new", "open"} => peer[i] = "none" /\ data[i] = "none" /\ heard[i] = {}
    /\ data[i] = "prompt" => peer[i] = "prompted"
    /\ data[i] = "welcome" => peer[i] = "shell"
    /\ data[i] = "refusal" => peer[i] = "refused"
    /\ io[i] = "refused" => peer[i] \in {"refused", "gone"}

Sure == connected \/ pc[Writer] = "send"
Starting == pc[Owner] \in {"signal", "join", "wait", "reset", "create"}
LoginInv ==
  /\ Sure /\ sock # 0 => peer[sock] \in Answered
  /\ Sure => \A i \in Threads : io[i] \notin {"new", "open"}
  /\ Starting /\ op[Owner] = "restart" =>
       ~Sure /\ \A i \in Threads : io[i] \in {"none", "ended"}
  /\ Starting /\ op[Owner] = "shell" => pc[Writer] = "off"
  /\ pc[Owner] = "create" => op[Owner] \in {"shell", "restart"}

IInv == ThreadInv /\ SocketInv /\ HostInv /\ LoginInv

LEMMA BeginStep ==
  ASSUME TypeOK, NEW o \in {"start", "close"}, Begin(o)
  PROVE  TypeOK' /\ (OnlyOwner /\ IInv => IInv')
<1> USE CallersAssumption, BoundsAssumption DEF Begin, Goto, Callers, Threads, caller, thread, host
<1>1. TypeOK'
  BY DEF TypeOK
<1>2. ASSUME OnlyOwner, IInv
      PROVE  IInv'
  <2>1. ThreadInv'
    BY <1>2 DEF IInv, TypeOK, ThreadInv
  <2>2. SocketInv'
    BY <1>2 DEF IInv, TypeOK, ThreadInv, SocketInv, Inside
  <2>3. HostInv'
    BY <1>2 DEF IInv, TypeOK, ThreadInv, HostInv
  <2>4. LoginInv'
    BY <1>2 DEF IInv, TypeOK, ThreadInv, SocketInv, HostInv, LoginInv, Sure, Starting, Answered, Inside
  <2> QED
    BY <2>1, <2>2, <2>3, <2>4 DEF IInv
<1> QED
  BY <1>1, <1>2

LEMMA JoinWriterStep ==
  ASSUME TypeOK, JoinWriter
  PROVE  TypeOK' /\ (OnlyOwner /\ IInv => IInv')
<1> USE CallersAssumption, BoundsAssumption DEF JoinWriter, Goto, Callers, Threads, caller, thread, host
<1>1. TypeOK'
  BY DEF TypeOK
<1>2. ASSUME OnlyOwner, IInv
      PROVE  IInv'
  <2>1. ThreadInv'
    BY <1>2 DEF IInv, TypeOK, ThreadInv
  <2>2. SocketInv'
    BY <1>2 DEF IInv, TypeOK, ThreadInv, SocketInv, Inside
  <2>3. HostInv'
    BY <1>2 DEF IInv, TypeOK, ThreadInv, HostInv
  <2>4. LoginInv'
    BY <1>2 DEF IInv, TypeOK, ThreadInv, SocketInv, HostInv, LoginInv, Sure, Starting, Answered, Inside
  <2> QED
    BY <2>1, <2>2, <2>3, <2>4 DEF IInv
<1> QED
  BY <1>1, <1>2

LEMMA AwaitStep ==
  ASSUME TypeOK, Await
  PROVE  TypeOK' /\ (OnlyOwner /\ IInv => IInv')
<1> USE CallersAssumption, BoundsAssumption DEF Await, Goto, Callers, Threads, caller, thread, host
<1>1. TypeOK'
  BY DEF TypeOK
<1>2. ASSUME OnlyOwner, IInv
      PROVE  IInv'
  <2>1. ThreadInv'
    BY <1>2 DEF IInv, TypeOK, ThreadInv
  <2>2. SocketInv'
    BY <1>2 DEF IInv, TypeOK, ThreadInv, SocketInv, Inside
  <2>3. HostInv'
    BY <1>2 DEF IInv, TypeOK, ThreadInv, HostInv
  <2>4. LoginInv'
    BY <1>2 DEF IInv, TypeOK, ThreadInv, SocketInv, HostInv, LoginInv, Sure, Starting, Answered, Inside
  <2> QED
    BY <2>1, <2>2, <2>3, <2>4 DEF IInv
<1> QED
  BY <1>1, <1>2

LEMMA WriteDataStep ==
  ASSUME TypeOK, WriteData
  PROVE  TypeOK' /\ (OnlyOwner /\ IInv => IInv')
<1> USE CallersAssumption, BoundsAssumption DEF WriteData, Goto, Callers, Threads, caller, thread, host
<1>1. TypeOK'
  BY DEF TypeOK
<1>2. ASSUME OnlyOwner, IInv
      PROVE  IInv'
  <2>1. ThreadInv'
    BY <1>2 DEF IInv, TypeOK, ThreadInv
  <2>2. SocketInv'
    BY <1>2 DEF IInv, TypeOK, ThreadInv, SocketInv, Inside
  <2>3. HostInv'
    BY <1>2 DEF IInv, TypeOK, ThreadInv, HostInv
  <2>4. LoginInv'
    BY <1>2 DEF IInv, TypeOK, ThreadInv, SocketInv, HostInv, LoginInv, Sure, Starting, Answered, Inside
  <2> QED
    BY <2>1, <2>2, <2>3, <2>4 DEF IInv
<1> QED
  BY <1>1, <1>2

LEMMA SendStep ==
  ASSUME TypeOK, Send
  PROVE  TypeOK' /\ (OnlyOwner /\ IInv => IInv')
<1> USE CallersAssumption, BoundsAssumption DEF Send, Goto, Returns, Callers, Threads, caller, thread, host
<1>1. TypeOK'
  BY DEF TypeOK
<1>2. ASSUME OnlyOwner, IInv
      PROVE  IInv'
  <2>1. ThreadInv'
    BY <1>2 DEF IInv, TypeOK, ThreadInv
  <2>2. SocketInv'
    BY <1>2 DEF IInv, TypeOK, ThreadInv, SocketInv, Inside
  <2>3. HostInv'
    BY <1>2 DEF IInv, TypeOK, ThreadInv, HostInv
  <2>4. LoginInv'
    BY <1>2 DEF IInv, TypeOK, ThreadInv, SocketInv, HostInv, LoginInv, Sure, Starting, Answered, Inside
  <2> QED
    BY <2>1, <2>2, <2>3, <2>4 DEF IInv
<1> QED
  BY <1>1, <1>2

LEMMA SendFailsStep ==
  ASSUME TypeOK, SendFails
  PROVE  TypeOK' /\ (OnlyOwner /\ IInv => IInv')
<1> USE CallersAssumption, BoundsAssumption DEF SendFails, Goto, Callers, Threads, caller, thread, host
<1>1. TypeOK'
  BY DEF TypeOK
<1>2. ASSUME OnlyOwner, IInv
      PROVE  IInv'
  <2>1. ThreadInv'
    BY <1>2 DEF IInv, TypeOK, ThreadInv
  <2>2. SocketInv'
    BY <1>2 DEF IInv, TypeOK, ThreadInv, SocketInv, Inside
  <2>3. HostInv'
    BY <1>2 DEF IInv, TypeOK, ThreadInv, HostInv
  <2>4. LoginInv'
    BY <1>2 DEF IInv, TypeOK, ThreadInv, SocketInv, HostInv, LoginInv, Sure, Starting, Answered, Inside
  <2> QED
    BY <2>1, <2>2, <2>3, <2>4 DEF IInv
<1> QED
  BY <1>1, <1>2

LEMMA WriterEndsStep ==
  ASSUME TypeOK, WriterEnds
  PROVE  TypeOK' /\ (OnlyOwner /\ IInv => IInv')
<1> USE CallersAssumption, BoundsAssumption DEF WriterEnds, Goto, Callers, Threads, caller, thread, host
<1>1. TypeOK'
  BY DEF TypeOK
<1>2. ASSUME OnlyOwner, IInv
      PROVE  IInv'
  <2>1. ThreadInv'
    BY <1>2 DEF IInv, TypeOK, ThreadInv
  <2>2. SocketInv'
    BY <1>2 DEF IInv, TypeOK, ThreadInv, SocketInv, Inside
  <2>3. HostInv'
    BY <1>2 DEF IInv, TypeOK, ThreadInv, HostInv
  <2>4. LoginInv'
    BY <1>2 DEF IInv, TypeOK, ThreadInv, SocketInv, HostInv, LoginInv, Sure, Starting, Answered, Inside
  <2> QED
    BY <2>1, <2>2, <2>3, <2>4 DEF IInv
<1> QED
  BY <1>1, <1>2

LEMMA SignalStopStep ==
  ASSUME TypeOK, NEW c \in Callers, SignalStop(c)
  PROVE  TypeOK' /\ (OnlyOwner /\ IInv => IInv')
<1> USE CallersAssumption, BoundsAssumption DEF SignalStop, Goto, Callers, Threads, caller, thread, host
<1>1. TypeOK'
  BY DEF TypeOK
<1>2. ASSUME OnlyOwner, IInv
      PROVE  IInv'
  <2>1. ThreadInv'
    BY <1>2 DEF IInv, TypeOK, ThreadInv
  <2>2. SocketInv'
    BY <1>2 DEF IInv, TypeOK, ThreadInv, SocketInv, Inside
  <2>3. HostInv'
    BY <1>2 DEF IInv, TypeOK, ThreadInv, HostInv
  <2>4. LoginInv'
    BY <1>2 DEF IInv, TypeOK, ThreadInv, SocketInv, HostInv, LoginInv, Sure, Starting, Answered, Inside
  <2> QED
    BY <2>1, <2>2, <2>3, <2>4 DEF IInv
<1> QED
  BY <1>1, <1>2

LEMMA JoinStep ==
  ASSUME TypeOK, NEW c \in Callers, Join(c)
  PROVE  TypeOK' /\ (OnlyOwner /\ IInv => IInv')
<1> USE CallersAssumption, BoundsAssumption DEF Join, Goto, Callers, Threads, caller, thread, host
<1>1. TypeOK'
  <2>1. CASE handle = 0
    BY <2>1 DEF TypeOK
  <2>2. CASE handle # 0
    BY <2>2 DEF TypeOK
  <2> QED
    BY <2>1, <2>2
<1>2. ASSUME OnlyOwner, IInv
      PROVE  IInv'
  <2>1. ThreadInv'
    BY <1>2 DEF IInv, TypeOK, ThreadInv
  <2>2. SocketInv'
    BY <1>2 DEF IInv, TypeOK, ThreadInv, SocketInv, Inside
  <2>3. HostInv'
    BY <1>2 DEF IInv, TypeOK, ThreadInv, HostInv
  <2>4. LoginInv'
    BY <1>2 DEF IInv, TypeOK, ThreadInv, SocketInv, HostInv, LoginInv, Sure, Starting, Answered, Inside
  <2> QED
    BY <2>1, <2>2, <2>3, <2>4 DEF IInv
<1> QED
  BY <1>1, <1>2

LEMMA JoinedStep ==
  ASSUME TypeOK, NEW c \in Callers, Joined(c)
  PROVE  TypeOK' /\ (OnlyOwner /\ IInv => IInv')
<1> USE CallersAssumption, BoundsAssumption DEF Joined, Goto, Running, Callers, Threads, caller, thread, host
<1>1. TypeOK'
  BY DEF TypeOK
<1>2. ASSUME OnlyOwner, IInv
      PROVE  IInv'
  <2>1. ThreadInv'
    BY <1>2 DEF IInv, TypeOK, ThreadInv
  <2>2. SocketInv'
    BY <1>2 DEF IInv, TypeOK, ThreadInv, SocketInv, Inside
  <2>3. HostInv'
    BY <1>2 DEF IInv, TypeOK, ThreadInv, HostInv
  <2>4. LoginInv'
    BY <1>2 DEF IInv, TypeOK, ThreadInv, SocketInv, HostInv, LoginInv, Sure, Starting, Answered, Inside
  <2> QED
    BY <2>1, <2>2, <2>3, <2>4 DEF IInv
<1> QED
  BY <1>1, <1>2

LEMMA ResetStep ==
  ASSUME TypeOK, NEW c \in Callers, Reset(c)
  PROVE  TypeOK' /\ (OnlyOwner /\ IInv => IInv')
<1> USE CallersAssumption, BoundsAssumption DEF Reset, Goto, Callers, Threads, caller, thread, host
<1>1. TypeOK'
  <2>1. pc' \in [Callers -> {"off", "idle", "signal", "join", "wait", "reset", "writer", "create",
                             "poll", "send", "failed"}]
    BY DEF TypeOK
  <2>2. sock' = 0 /\ error' \in BOOLEAN /\ connected' \in BOOLEAN
    OBVIOUS
  <2> QED
    BY <2>1, <2>2 DEF TypeOK
<1>2. ASSUME OnlyOwner, IInv
      PROVE  IInv'
  <2>1. ThreadInv'
    BY <1>2 DEF IInv, TypeOK, ThreadInv
  <2>2. SocketInv'
    BY <1>2 DEF IInv, TypeOK, ThreadInv, SocketInv, Inside
  <2>3. HostInv'
    BY <1>2 DEF IInv, TypeOK, ThreadInv, HostInv
  <2>4. LoginInv'
    BY <1>2 DEF IInv, TypeOK, ThreadInv, SocketInv, HostInv, LoginInv, Sure, Starting, Answered, Inside
  <2> QED
    BY <2>1, <2>2, <2>3, <2>4 DEF IInv
<1> QED
  BY <1>1, <1>2

LEMMA CreateStep ==
  ASSUME TypeOK, NEW c \in Callers, Create(c)
  PROVE  TypeOK' /\ (OnlyOwner /\ IInv => IInv')
<1> USE CallersAssumption, BoundsAssumption DEF Create, Goto, Callers, Threads, caller, thread, host
<1>1. TypeOK'
  <2>1. pc' \in [Callers -> {"off", "idle", "signal", "join", "wait", "reset", "writer", "create",
                             "poll", "send", "failed"}]
    BY DEF TypeOK
  <2>2. stopped' \in BOOLEAN /\ event' \in BOOLEAN
    OBVIOUS
  <2>3. quit' \in BOOLEAN
    BY DEF TypeOK
  <2>4. created' \in Threads /\ handle' \in Threads
    BY DEF TypeOK
  <2>5. io' \in [Threads -> {"none", "new", "open", "top", "wait", "read", "refused", "close",
                             "closed", "ended"}]
    BY DEF TypeOK
  <2> QED
    BY <2>1, <2>2, <2>3, <2>4, <2>5 DEF TypeOK
<1>2. ASSUME OnlyOwner, IInv
      PROVE  IInv'
  <2>1. ThreadInv'
    BY <1>2 DEF IInv, TypeOK, ThreadInv
  <2>2. SocketInv'
    BY <1>2 DEF IInv, TypeOK, ThreadInv, SocketInv, Inside
  <2>3. HostInv'
    BY <1>2 DEF IInv, TypeOK, ThreadInv, HostInv
  <2>4. LoginInv'
    BY <1>2 DEF IInv, TypeOK, ThreadInv, SocketInv, HostInv, LoginInv, Sure, Starting, Answered, Inside
  <2> QED
    BY <2>1, <2>2, <2>3, <2>4 DEF IInv
<1> QED
  BY <1>1, <1>2

LEMMA PollStep ==
  ASSUME TypeOK, NEW c \in Callers, Poll(c)
  PROVE  TypeOK' /\ (OnlyOwner /\ IInv => IInv')
<1> USE CallersAssumption, BoundsAssumption DEF Poll, Goto, Callers, Threads, caller, thread, host
<1>1. TypeOK'
  BY DEF TypeOK
<1>2. ASSUME OnlyOwner, IInv
      PROVE  IInv'
  <2>1. ThreadInv'
    BY <1>2 DEF IInv, TypeOK, ThreadInv
  <2>2. SocketInv'
    BY <1>2 DEF IInv, TypeOK, ThreadInv, SocketInv, Inside
  <2>3. HostInv'
    BY <1>2 DEF IInv, TypeOK, ThreadInv, HostInv
  <2>4. LoginInv'
    BY <1>2 DEF IInv, TypeOK, ThreadInv, SocketInv, HostInv, LoginInv, Sure, Starting, Answered, Inside
  <2> QED
    BY <2>1, <2>2, <2>3, <2>4 DEF IInv
<1> QED
  BY <1>1, <1>2

LEMMA LookStep ==
  ASSUME TypeOK, NEW c \in Callers, Look(c)
  PROVE  TypeOK' /\ (OnlyOwner /\ IInv => IInv')
<1> USE CallersAssumption, BoundsAssumption DEF Look, Goto, Running, Callers, Threads, caller, thread, host
<1>1. TypeOK'
  BY DEF TypeOK
<1>2. ASSUME OnlyOwner, IInv
      PROVE  IInv'
  <2>1. ThreadInv'
    BY <1>2 DEF IInv, TypeOK, ThreadInv
  <2>2. SocketInv'
    BY <1>2 DEF IInv, TypeOK, ThreadInv, SocketInv, Inside
  <2>3. HostInv'
    BY <1>2 DEF IInv, TypeOK, ThreadInv, HostInv
  <2>4. LoginInv'
    BY <1>2 DEF IInv, TypeOK, ThreadInv, SocketInv, HostInv, LoginInv, Sure, Starting, Answered, Inside
  <2> QED
    BY <2>1, <2>2, <2>3, <2>4 DEF IInv
<1> QED
  BY <1>1, <1>2

LEMMA TimeOutStep ==
  ASSUME TypeOK, NEW c \in Callers, TimeOut(c)
  PROVE  TypeOK' /\ (OnlyOwner /\ IInv => IInv')
<1> USE CallersAssumption, BoundsAssumption DEF TimeOut, Goto, Callers, Threads, caller, thread, host
<1>1. TypeOK'
  BY DEF TypeOK
<1>2. ASSUME OnlyOwner, IInv
      PROVE  IInv'
  <2>1. ThreadInv'
    BY <1>2 DEF IInv, TypeOK, ThreadInv
  <2>2. SocketInv'
    BY <1>2 DEF IInv, TypeOK, ThreadInv, SocketInv, Inside
  <2>3. HostInv'
    BY <1>2 DEF IInv, TypeOK, ThreadInv, HostInv
  <2>4. LoginInv'
    BY <1>2 DEF IInv, TypeOK, ThreadInv, SocketInv, HostInv, LoginInv, Sure, Starting, Answered, Inside
  <2> QED
    BY <2>1, <2>2, <2>3, <2>4 DEF IInv
<1> QED
  BY <1>1, <1>2

LEMMA RestartStep ==
  ASSUME TypeOK, NEW c \in Callers, Restart(c)
  PROVE  TypeOK' /\ (OnlyOwner /\ IInv => IInv')
<1> USE CallersAssumption, BoundsAssumption DEF Restart, Goto, Running, Callers, Threads, caller, thread, host
<1>1. TypeOK'
  BY DEF TypeOK
<1>2. ASSUME OnlyOwner, IInv
      PROVE  IInv'
  <2>1. ThreadInv'
    BY <1>2 DEF IInv, TypeOK, ThreadInv, OnlyOwner
  <2>2. SocketInv'
    BY <1>2 DEF IInv, TypeOK, ThreadInv, SocketInv, Inside, OnlyOwner
  <2>3. HostInv'
    BY <1>2 DEF IInv, TypeOK, ThreadInv, HostInv, OnlyOwner
  <2>4. LoginInv'
    BY <1>2 DEF IInv, TypeOK, ThreadInv, SocketInv, HostInv, LoginInv, Sure, Starting, Answered, Inside, OnlyOwner
  <2> QED
    BY <2>1, <2>2, <2>3, <2>4 DEF IInv
<1> QED
  BY <1>1, <1>2

LEMMA FailedStep ==
  ASSUME TypeOK, NEW c \in Callers, Failed(c)
  PROVE  TypeOK' /\ (OnlyOwner /\ IInv => IInv')
<1> USE CallersAssumption, BoundsAssumption DEF Failed, Goto, Returns, Callers, Threads, caller, thread, host
<1>1. TypeOK'
  <2>1. CASE c = Owner
    BY <2>1 DEF TypeOK
  <2>2. CASE c # Owner
    BY <2>2 DEF TypeOK
  <2> QED
    BY <2>1, <2>2
<1>2. ASSUME OnlyOwner, IInv
      PROVE  IInv'
  <2>1. ThreadInv'
    BY <1>2 DEF IInv, TypeOK, ThreadInv
  <2>2. SocketInv'
    BY <1>2 DEF IInv, TypeOK, ThreadInv, SocketInv, Inside
  <2>3. HostInv'
    BY <1>2 DEF IInv, TypeOK, ThreadInv, HostInv
  <2>4. LoginInv'
    BY <1>2 DEF IInv, TypeOK, ThreadInv, SocketInv, HostInv, LoginInv, Sure, Starting, Answered, Inside
  <2> QED
    BY <2>1, <2>2, <2>3, <2>4 DEF IInv
<1> QED
  BY <1>1, <1>2

LEMMA RunStep ==
  ASSUME TypeOK, NEW i \in Threads, Run(i)
  PROVE  TypeOK' /\ (OnlyOwner /\ IInv => IInv')
<1> USE CallersAssumption, BoundsAssumption DEF Run, At, Callers, Threads, caller, thread, host
<1>1. TypeOK'
  BY DEF TypeOK
<1>2. ASSUME OnlyOwner, IInv
      PROVE  IInv'
  <2>1. ThreadInv'
    BY <1>2 DEF IInv, TypeOK, ThreadInv
  <2>2. SocketInv'
    BY <1>2 DEF IInv, TypeOK, ThreadInv, SocketInv, Inside
  <2>3. HostInv'
    BY <1>2 DEF IInv, TypeOK, ThreadInv, HostInv
  <2>4. LoginInv'
    BY <1>2 DEF IInv, TypeOK, ThreadInv, SocketInv, HostInv, LoginInv, Sure, Starting, Answered, Inside
  <2> QED
    BY <2>1, <2>2, <2>3, <2>4 DEF IInv
<1> QED
  BY <1>1, <1>2

LEMMA OpenStep ==
  ASSUME TypeOK, NEW i \in Threads, Open(i)
  PROVE  TypeOK' /\ (OnlyOwner /\ IInv => IInv')
<1> USE CallersAssumption, BoundsAssumption DEF Open, At, Callers, Threads, caller, thread, host
<1>1. TypeOK'
  BY DEF TypeOK
<1>2. ASSUME OnlyOwner, IInv
      PROVE  IInv'
  <2>1. ThreadInv'
    BY <1>2 DEF IInv, TypeOK, ThreadInv
  <2>2. SocketInv'
    BY <1>2 DEF IInv, TypeOK, ThreadInv, SocketInv, Inside
  <2>3. HostInv'
    BY <1>2 DEF IInv, TypeOK, ThreadInv, HostInv
  <2>4. LoginInv'
    BY <1>2 DEF IInv, TypeOK, ThreadInv, SocketInv, HostInv, LoginInv, Sure, Starting, Answered, Inside
  <2> QED
    BY <2>1, <2>2, <2>3, <2>4 DEF IInv
<1> QED
  BY <1>1, <1>2

LEMMA OpenFailsStep ==
  ASSUME TypeOK, NEW i \in Threads, OpenFails(i)
  PROVE  TypeOK' /\ (OnlyOwner /\ IInv => IInv')
<1> USE CallersAssumption, BoundsAssumption DEF OpenFails, At, Callers, Threads, caller, thread, host
<1>1. TypeOK'
  BY DEF TypeOK
<1>2. ASSUME OnlyOwner, IInv
      PROVE  IInv'
  <2>1. ThreadInv'
    BY <1>2 DEF IInv, TypeOK, ThreadInv
  <2>2. SocketInv'
    BY <1>2 DEF IInv, TypeOK, ThreadInv, SocketInv, Inside
  <2>3. HostInv'
    BY <1>2 DEF IInv, TypeOK, ThreadInv, HostInv
  <2>4. LoginInv'
    BY <1>2 DEF IInv, TypeOK, ThreadInv, SocketInv, HostInv, LoginInv, Sure, Starting, Answered, Inside
  <2> QED
    BY <2>1, <2>2, <2>3, <2>4 DEF IInv
<1> QED
  BY <1>1, <1>2

LEMMA LoopStep ==
  ASSUME TypeOK, NEW i \in Threads, Loop(i)
  PROVE  TypeOK' /\ (OnlyOwner /\ IInv => IInv')
<1> USE CallersAssumption, BoundsAssumption DEF Loop, At, Callers, Threads, caller, thread, host
<1>1. TypeOK'
  BY DEF TypeOK
<1>2. ASSUME OnlyOwner, IInv
      PROVE  IInv'
  <2>1. ThreadInv'
    BY <1>2 DEF IInv, TypeOK, ThreadInv
  <2>2. SocketInv'
    BY <1>2 DEF IInv, TypeOK, ThreadInv, SocketInv, Inside
  <2>3. HostInv'
    BY <1>2 DEF IInv, TypeOK, ThreadInv, HostInv
  <2>4. LoginInv'
    BY <1>2 DEF IInv, TypeOK, ThreadInv, SocketInv, HostInv, LoginInv, Sure, Starting, Answered, Inside
  <2> QED
    BY <2>1, <2>2, <2>3, <2>4 DEF IInv
<1> QED
  BY <1>1, <1>2

LEMMA WakeStep ==
  ASSUME TypeOK, NEW i \in Threads, Wake(i)
  PROVE  TypeOK' /\ (OnlyOwner /\ IInv => IInv')
<1> USE CallersAssumption, BoundsAssumption DEF Wake, At, Callers, Threads, caller, thread, host
<1>1. TypeOK'
  BY DEF TypeOK
<1>2. ASSUME OnlyOwner, IInv
      PROVE  IInv'
  <2>1. ThreadInv'
    BY <1>2 DEF IInv, TypeOK, ThreadInv
  <2>2. SocketInv'
    BY <1>2 DEF IInv, TypeOK, ThreadInv, SocketInv, Inside
  <2>3. HostInv'
    BY <1>2 DEF IInv, TypeOK, ThreadInv, HostInv
  <2>4. LoginInv'
    BY <1>2 DEF IInv, TypeOK, ThreadInv, SocketInv, HostInv, LoginInv, Sure, Starting, Answered, Inside
  <2> QED
    BY <2>1, <2>2, <2>3, <2>4 DEF IInv
<1> QED
  BY <1>1, <1>2

LEMMA ReadPromptStep ==
  ASSUME TypeOK, NEW i \in Threads, ReadPrompt(i)
  PROVE  TypeOK' /\ (OnlyOwner /\ IInv => IInv')
<1> USE CallersAssumption, BoundsAssumption DEF ReadPrompt, At, Callers, Threads, caller, thread, host
<1>1. TypeOK'
  BY DEF TypeOK
<1>2. ASSUME OnlyOwner, IInv
      PROVE  IInv'
  <2>1. ThreadInv'
    BY <1>2 DEF IInv, TypeOK, ThreadInv
  <2>2. SocketInv'
    BY <1>2 DEF IInv, TypeOK, ThreadInv, SocketInv, Inside
  <2>3. HostInv'
    BY <1>2 DEF IInv, TypeOK, ThreadInv, HostInv
  <2>4. LoginInv'
    BY <1>2 DEF IInv, TypeOK, ThreadInv, SocketInv, HostInv, LoginInv, Sure, Starting, Answered, Inside
  <2> QED
    BY <2>1, <2>2, <2>3, <2>4 DEF IInv
<1> QED
  BY <1>1, <1>2

LEMMA ReadWelcomeStep ==
  ASSUME TypeOK, NEW i \in Threads, ReadWelcome(i)
  PROVE  TypeOK' /\ (OnlyOwner /\ IInv => IInv')
<1> USE CallersAssumption, BoundsAssumption DEF ReadWelcome, At, Callers, Threads, caller, thread, host
<1>1. TypeOK'
  BY DEF TypeOK
<1>2. ASSUME OnlyOwner, IInv
      PROVE  IInv'
  <2>1. ThreadInv'
    BY <1>2 DEF IInv, TypeOK, ThreadInv
  <2>2. SocketInv'
    BY <1>2 DEF IInv, TypeOK, ThreadInv, SocketInv, Inside
  <2>3. HostInv'
    BY <1>2 DEF IInv, TypeOK, ThreadInv, HostInv
  <2>4. LoginInv'
    BY <1>2 DEF IInv, TypeOK, ThreadInv, SocketInv, HostInv, LoginInv, Sure, Starting, Answered, Inside
  <2> QED
    BY <2>1, <2>2, <2>3, <2>4 DEF IInv
<1> QED
  BY <1>1, <1>2

LEMMA ReadRefusalStep ==
  ASSUME TypeOK, NEW i \in Threads, ReadRefusal(i)
  PROVE  TypeOK' /\ (OnlyOwner /\ IInv => IInv')
<1> USE CallersAssumption, BoundsAssumption DEF ReadRefusal, At, Callers, Threads, caller, thread, host
<1>1. TypeOK'
  BY DEF TypeOK
<1>2. ASSUME OnlyOwner, IInv
      PROVE  IInv'
  <2>1. ThreadInv'
    BY <1>2 DEF IInv, TypeOK, ThreadInv
  <2>2. SocketInv'
    BY <1>2 DEF IInv, TypeOK, ThreadInv, SocketInv, Inside
  <2>3. HostInv'
    BY <1>2 DEF IInv, TypeOK, ThreadInv, HostInv
  <2>4. LoginInv'
    BY <1>2 DEF IInv, TypeOK, ThreadInv, SocketInv, HostInv, LoginInv, Sure, Starting, Answered, Inside
  <2> QED
    BY <2>1, <2>2, <2>3, <2>4 DEF IInv
<1> QED
  BY <1>1, <1>2

LEMMA RefusedStep ==
  ASSUME TypeOK, NEW i \in Threads, Refused(i)
  PROVE  TypeOK' /\ (OnlyOwner /\ IInv => IInv')
<1> USE CallersAssumption, BoundsAssumption DEF Refused, At, Callers, Threads, caller, thread, host
<1>1. TypeOK'
  BY DEF TypeOK
<1>2. ASSUME OnlyOwner, IInv
      PROVE  IInv'
  <2>1. ThreadInv'
    BY <1>2 DEF IInv, TypeOK, ThreadInv
  <2>2. SocketInv'
    BY <1>2 DEF IInv, TypeOK, ThreadInv, SocketInv, Inside
  <2>3. HostInv'
    BY <1>2 DEF IInv, TypeOK, ThreadInv, HostInv
  <2>4. LoginInv'
    BY <1>2 DEF IInv, TypeOK, ThreadInv, SocketInv, HostInv, LoginInv, Sure, Starting, Answered, Inside
  <2> QED
    BY <2>1, <2>2, <2>3, <2>4 DEF IInv
<1> QED
  BY <1>1, <1>2

LEMMA ReadAbortStep ==
  ASSUME TypeOK, NEW i \in Threads, ReadAbort(i)
  PROVE  TypeOK' /\ (OnlyOwner /\ IInv => IInv')
<1> USE CallersAssumption, BoundsAssumption DEF ReadAbort, At, Callers, Threads, caller, thread, host
<1>1. TypeOK'
  BY DEF TypeOK
<1>2. ASSUME OnlyOwner, IInv
      PROVE  IInv'
  <2>1. ThreadInv'
    BY <1>2 DEF IInv, TypeOK, ThreadInv
  <2>2. SocketInv'
    BY <1>2 DEF IInv, TypeOK, ThreadInv, SocketInv, Inside
  <2>3. HostInv'
    BY <1>2 DEF IInv, TypeOK, ThreadInv, HostInv
  <2>4. LoginInv'
    BY <1>2 DEF IInv, TypeOK, ThreadInv, SocketInv, HostInv, LoginInv, Sure, Starting, Answered, Inside
  <2> QED
    BY <2>1, <2>2, <2>3, <2>4 DEF IInv
<1> QED
  BY <1>1, <1>2

LEMMA CloseSocketStep ==
  ASSUME TypeOK, NEW i \in Threads, CloseSocket(i)
  PROVE  TypeOK' /\ (OnlyOwner /\ IInv => IInv')
<1> USE CallersAssumption, BoundsAssumption DEF CloseSocket, At, Callers, Threads, caller, thread, host
<1>1. TypeOK'
  BY DEF TypeOK
<1>2. ASSUME OnlyOwner, IInv
      PROVE  IInv'
  <2>1. ThreadInv'
    BY <1>2 DEF IInv, TypeOK, ThreadInv
  <2>2. SocketInv'
    BY <1>2 DEF IInv, TypeOK, ThreadInv, SocketInv, Inside
  <2>3. HostInv'
    BY <1>2 DEF IInv, TypeOK, ThreadInv, HostInv
  <2>4. LoginInv'
    BY <1>2 DEF IInv, TypeOK, ThreadInv, SocketInv, HostInv, LoginInv, Sure, Starting, Answered, Inside
  <2> QED
    BY <2>1, <2>2, <2>3, <2>4 DEF IInv
<1> QED
  BY <1>1, <1>2

LEMMA EndRunStep ==
  ASSUME TypeOK, NEW i \in Threads, EndRun(i)
  PROVE  TypeOK' /\ (OnlyOwner /\ IInv => IInv')
<1> USE CallersAssumption, BoundsAssumption DEF EndRun, At, Callers, Threads, caller, thread, host
<1>1. TypeOK'
  BY DEF TypeOK
<1>2. ASSUME OnlyOwner, IInv
      PROVE  IInv'
  <2>1. ThreadInv'
    BY <1>2 DEF IInv, TypeOK, ThreadInv
  <2>2. SocketInv'
    BY <1>2 DEF IInv, TypeOK, ThreadInv, SocketInv, Inside
  <2>3. HostInv'
    BY <1>2 DEF IInv, TypeOK, ThreadInv, HostInv
  <2>4. LoginInv'
    BY <1>2 DEF IInv, TypeOK, ThreadInv, SocketInv, HostInv, LoginInv, Sure, Starting, Answered, Inside
  <2> QED
    BY <2>1, <2>2, <2>3, <2>4 DEF IInv
<1> QED
  BY <1>1, <1>2

LEMMA PromptsStep ==
  ASSUME TypeOK, NEW i \in Threads, Prompts(i)
  PROVE  TypeOK' /\ (OnlyOwner /\ IInv => IInv')
<1> USE CallersAssumption, BoundsAssumption DEF Prompts, Says, Callers, Threads, caller, thread, host
<1>1. TypeOK'
  BY DEF TypeOK
<1>2. ASSUME OnlyOwner, IInv
      PROVE  IInv'
  <2>1. ThreadInv'
    BY <1>2 DEF IInv, TypeOK, ThreadInv
  <2>2. SocketInv'
    BY <1>2 DEF IInv, TypeOK, ThreadInv, SocketInv, Inside
  <2>3. HostInv'
    BY <1>2 DEF IInv, TypeOK, ThreadInv, HostInv
  <2>4. LoginInv'
    BY <1>2 DEF IInv, TypeOK, ThreadInv, SocketInv, HostInv, LoginInv, Sure, Starting, Answered, Inside
  <2> QED
    BY <2>1, <2>2, <2>3, <2>4 DEF IInv
<1> QED
  BY <1>1, <1>2

LEMMA AcceptsStep ==
  ASSUME TypeOK, NEW i \in Threads, Accepts(i)
  PROVE  TypeOK' /\ (OnlyOwner /\ IInv => IInv')
<1> USE CallersAssumption, BoundsAssumption DEF Accepts, Says, Callers, Threads, caller, thread, host
<1>1. TypeOK'
  BY DEF TypeOK
<1>2. ASSUME OnlyOwner, IInv
      PROVE  IInv'
  <2>1. ThreadInv'
    BY <1>2 DEF IInv, TypeOK, ThreadInv
  <2>2. SocketInv'
    BY <1>2 DEF IInv, TypeOK, ThreadInv, SocketInv, Inside
  <2>3. HostInv'
    BY <1>2 DEF IInv, TypeOK, ThreadInv, HostInv
  <2>4. LoginInv'
    BY <1>2 DEF IInv, TypeOK, ThreadInv, SocketInv, HostInv, LoginInv, Sure, Starting, Answered, Inside
  <2> QED
    BY <2>1, <2>2, <2>3, <2>4 DEF IInv
<1> QED
  BY <1>1, <1>2

LEMMA RefusesStep ==
  ASSUME TypeOK, NEW i \in Threads, Refuses(i)
  PROVE  TypeOK' /\ (OnlyOwner /\ IInv => IInv')
<1> USE CallersAssumption, BoundsAssumption DEF Refuses, Says, Callers, Threads, caller, thread, host
<1>1. TypeOK'
  BY DEF TypeOK
<1>2. ASSUME OnlyOwner, IInv
      PROVE  IInv'
  <2>1. ThreadInv'
    BY <1>2 DEF IInv, TypeOK, ThreadInv
  <2>2. SocketInv'
    BY <1>2 DEF IInv, TypeOK, ThreadInv, SocketInv, Inside
  <2>3. HostInv'
    BY <1>2 DEF IInv, TypeOK, ThreadInv, HostInv
  <2>4. LoginInv'
    BY <1>2 DEF IInv, TypeOK, ThreadInv, SocketInv, HostInv, LoginInv, Sure, Starting, Answered, Inside
  <2> QED
    BY <2>1, <2>2, <2>3, <2>4 DEF IInv
<1> QED
  BY <1>1, <1>2

LEMMA AbortsStep ==
  ASSUME TypeOK, NEW i \in Threads, Aborts(i)
  PROVE  TypeOK' /\ (OnlyOwner /\ IInv => IInv')
<1> USE CallersAssumption, BoundsAssumption DEF Aborts, Says, Callers, Threads, caller, thread, host
<1>1. TypeOK'
  BY DEF TypeOK
<1>2. ASSUME OnlyOwner, IInv
      PROVE  IInv'
  <2>1. ThreadInv'
    BY <1>2 DEF IInv, TypeOK, ThreadInv
  <2>2. SocketInv'
    BY <1>2 DEF IInv, TypeOK, ThreadInv, SocketInv, Inside
  <2>3. HostInv'
    BY <1>2 DEF IInv, TypeOK, ThreadInv, HostInv
  <2>4. LoginInv'
    BY <1>2 DEF IInv, TypeOK, ThreadInv, SocketInv, HostInv, LoginInv, Sure, Starting, Answered, Inside
  <2> QED
    BY <2>1, <2>2, <2>3, <2>4 DEF IInv
<1> QED
  BY <1>1, <1>2

LEMMA FadesAwayStep ==
  ASSUME TypeOK, NEW i \in Threads, FadesAway(i)
  PROVE  TypeOK' /\ (OnlyOwner /\ IInv => IInv')
<1> USE CallersAssumption, BoundsAssumption DEF FadesAway, Says, Callers, Threads, caller, thread, host
<1>1. TypeOK'
  BY DEF TypeOK
<1>2. ASSUME OnlyOwner, IInv
      PROVE  IInv'
  <2>1. ThreadInv'
    BY <1>2 DEF IInv, TypeOK, ThreadInv
  <2>2. SocketInv'
    BY <1>2 DEF IInv, TypeOK, ThreadInv, SocketInv, Inside
  <2>3. HostInv'
    BY <1>2 DEF IInv, TypeOK, ThreadInv, HostInv
  <2>4. LoginInv'
    BY <1>2 DEF IInv, TypeOK, ThreadInv, SocketInv, HostInv, LoginInv, Sure, Starting, Answered, Inside
  <2> QED
    BY <2>1, <2>2, <2>3, <2>4 DEF IInv
<1> QED
  BY <1>1, <1>2

LEMMA UnchangedStep ==
  ASSUME TypeOK, UNCHANGED vars
  PROVE  TypeOK' /\ (OnlyOwner /\ IInv => IInv')
<1> USE DEF vars, caller, thread, host
<1>1. TypeOK'
  BY DEF TypeOK
<1>2. ASSUME OnlyOwner, IInv
      PROVE  IInv'
  <2>1. ThreadInv'
    BY <1>2 DEF IInv, ThreadInv
  <2>2. SocketInv'
    BY <1>2 DEF IInv, SocketInv
  <2>3. HostInv'
    BY <1>2 DEF IInv, HostInv
  <2>4. LoginInv'
    BY <1>2 DEF IInv, LoginInv, Sure, Starting
  <2> QED
    BY <2>1, <2>2, <2>3, <2>4 DEF IInv
<1> QED
  BY <1>1, <1>2

LEMMA NextStep ==
  ASSUME TypeOK, [Next]_vars
  PROVE  TypeOK' /\ (OnlyOwner /\ IInv => IInv')
<1>1. CASE \E o \in {"start", "close"} : Begin(o)
  BY <1>1, BeginStep
<1>2. CASE JoinWriter \/ Await \/ WriteData \/ Send \/ SendFails \/ WriterEnds
  BY <1>2, JoinWriterStep, AwaitStep, WriteDataStep, SendStep, SendFailsStep, WriterEndsStep
<1>3. CASE \E c \in Callers : Stopping(c)
  BY <1>3, SignalStopStep, JoinStep, JoinedStep, ResetStep, CreateStep DEF Stopping
<1>4. CASE \E c \in Callers : Waiting(c)
  BY <1>4, PollStep, LookStep, TimeOutStep, RestartStep, FailedStep DEF Waiting
<1>5. CASE \E i \in Threads : IoThread(i)
  BY <1>5, RunStep, OpenStep, OpenFailsStep, LoopStep, WakeStep, ReadPromptStep,
     ReadWelcomeStep, ReadRefusalStep, RefusedStep, ReadAbortStep, CloseSocketStep, EndRunStep DEF IoThread
<1>6. CASE \E i \in Threads : Host(i)
  BY <1>6, PromptsStep, AcceptsStep, RefusesStep, AbortsStep, FadesAwayStep DEF Host
<1>7. CASE UNCHANGED vars
  BY <1>7, UnchangedStep
<1> QED
  BY <1>1, <1>2, <1>3, <1>4, <1>5, <1>6, <1>7 DEF Next

LEMMA InitInv == Init => TypeOK /\ IInv
<1> SUFFICES ASSUME Init PROVE TypeOK /\ IInv
  OBVIOUS
<1> USE CallersAssumption, BoundsAssumption DEF Init, Callers, Threads
<1>1. TypeOK
  <2>1. quit \in BOOLEAN /\ stopped \in BOOLEAN /\ event \in BOOLEAN /\ connected \in BOOLEAN
        /\ error \in BOOLEAN
    OBVIOUS
  <2>2. /\ target \in [Callers -> 0..MaxThreads] /\ hasRun \in [Callers -> BOOLEAN]
        /\ writes \in 0..MaxWrites /\ created \in 0..MaxThreads
        /\ handle \in 0..MaxThreads /\ sock \in 0..MaxThreads /\ sock = 0
    OBVIOUS
  <2> QED
    BY <2>1, <2>2 DEF TypeOK
<1>2. pc[Owner] = "idle" /\ pc[Writer] = "off" /\ \A i \in Threads : io[i] = "none"
  OBVIOUS
<1>3. ThreadInv /\ SocketInv /\ HostInv
  <2>1. ThreadInv
    BY <1>2 DEF ThreadInv
  <2>2. SocketInv
    BY <1>2 DEF SocketInv, Inside
  <2>3. HostInv
    BY <1>2 DEF HostInv
  <2> QED
    BY <2>1, <2>2, <2>3
<1>4. LoginInv
  BY DEF LoginInv, Sure, Starting
<1> QED
  BY <1>1, <1>3, <1>4 DEF IInv

(* Every variable keeps its type, whoever restarts.                         *)
THEOREM TypeCorrect == Spec => []TypeOK
<1>1. TypeOK /\ [Next]_vars => TypeOK'
  BY NextStep
<1> QED
  BY <1>1, InitInv, PTL DEF Spec

(* The strengthening is inductive.                                          *)
LEMMA Invariants ==
  ASSUME OnlyOwner
  PROVE  Spec => [](TypeOK /\ IInv)
<1>1. TypeOK /\ IInv /\ [Next]_vars => (TypeOK /\ IInv)'
  BY NextStep
<1> QED
  BY <1>1, InitInv, PTL DEF Spec

(* One I/O thread at a time uses the socket and the flags, although Start()  *)
(* and Stop() are called without a lock and WaitForConnection() restarts.   *)
THEOREM OneIoThread ==
  ASSUME OnlyOwner
  PROVE  Spec => []OneThread
<1>1. TypeOK /\ IInv => OneThread
  BY DEF IInv, ThreadInv, OneThread
<1> QED
  BY <1>1, Invariants, PTL

(* Stop() leaves no thread, no socket and no m_bConnected behind.           *)
THEOREM NothingAfterStop ==
  ASSUME OnlyOwner
  PROVE  Spec => []StopStops
<1>1. TypeOK /\ IInv => StopStops
  BY DEF TypeOK, IInv, ThreadInv, SocketInv, StopStops, Threads, Inside
<1> QED
  BY <1>1, Invariants, PTL

(* A thread is created only when the one before has been joined: the        *)
(* assertion of Thread.h:57.                                                *)
THEOREM HandleFreeAtCreation ==
  ASSUME OnlyOwner
  PROVE  Spec => HandleFree
<1>1. TypeOK /\ IInv => [\A c \in Callers : Create(c) => handle = 0]_vars
  BY DEF IInv, ThreadInv, Create, Callers
<1> QED
  BY <1>1, Invariants, PTL DEF HandleFree

(* What the host has been given was written after it had answered the login. *)
THEOREM NoLineBeforeLogin ==
  ASSUME OnlyOwner
  PROVE  Spec => []LinesAfterLogin
<1>1. LinesAfterLogin /\ TypeOK /\ IInv /\ [Next]_vars => LinesAfterLogin'
  <2> SUFFICES ASSUME LinesAfterLogin, TypeOK, IInv, [Next]_vars
               PROVE  LinesAfterLogin'
    OBVIOUS
  <2>1. CASE Send
    BY <2>1, CallersAssumption DEF Send, LinesAfterLogin, TypeOK, IInv, LoginInv, Sure, Answered,
       Threads, Callers
  <2>2. CASE UNCHANGED heard
    BY <2>2 DEF LinesAfterLogin
  <2>3. Send \/ UNCHANGED heard
    BY DEF Next, Begin, JoinWriter, Await, WriteData, SendFails, WriterEnds, Stopping, SignalStop,
       Join, Joined, Reset, Create, Waiting, Poll, Look, TimeOut, Restart, Failed, IoThread, Run,
       Open, OpenFails, Loop, Wake, ReadPrompt, ReadWelcome, ReadRefusal, Refused, ReadAbort,
       CloseSocket, EndRun, Host, Prompts, Accepts, Refuses, Aborts, FadesAway, Says, vars, host
  <2> QED
    BY <2>1, <2>2, <2>3
<1>2. Init => LinesAfterLogin
  BY DEF Init, LinesAfterLogin
<1> QED
  BY <1>1, <1>2, Invariants, PTL DEF Spec

=============================================================================
