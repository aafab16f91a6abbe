------------------------- MODULE DebugSession_proofs -------------------------
(***************************************************************************)
(* Theorems about DebugSession, for any number of stop threads and         *)
(* sessions: the types and DebuggingHears in either mode and however the    *)
(* threads overlap; ViewsFollow and EndsOwnSession without a maintained     *)
(* session and when one thread at a time is in ProgramStop().               *)
(***************************************************************************)
EXTENDS DebugSession, SequenceTheorems, TLAPS

-----------------------------------------------------------------------------
(* What the steps a thread has yet to make look like.                      *)

Has(s, x) == \E n \in 1..Len(s) : s[n] = x

(* The steps that never follow, at any distance. *)
Never(x) ==
  CASE x \in {"flag", "run"} -> {"flag", "run", "forget", "joinStop"}
    [] x = "launch" -> {"launch", "flag", "run", "forget", "joinStop"}
    [] x \in {"send", "write", "prompt"} -> {"launch", "flag", "run"}
    [] x \in {"tellStop", "joinStop"} -> {"joinShell"}
    [] x \in {"connect", "create"} -> {"joinStop"}
    [] x = "spawn" -> {"joinStop", "spawn"}
    [] OTHER -> {}
Ordered(s) == \A m, n \in 1..Len(s) : m < n => s[n] \notin Never(s[m])

(* The steps that come in pairs, and those that come last. *)
Linked(s) ==
  \A n \in 1..Len(s) :
    /\ s[n] \in {"check", "watch"} => n = Len(s)
    /\ s[n] = "tellStop" => n < Len(s) /\ s[n + 1] = "joinStop"
    /\ s[n] = "unhook" => n < Len(s) /\ s[n + 1] = "forget"
    /\ n < Len(s) =>
         /\ s[n + 1] = "joinStop" => s[n] = "tellStop"
         /\ s[n + 1] = "unhook" => s[n] = "kill"
         /\ s[n + 1] = "forget" => s[n] = "unhook"

Plan(s) == s \in Seq(Step) /\ Ordered(s) /\ Linked(s)
StopStep == {"watch", "signal", "kill", "unhook", "forget"}

(* What begins a function never completes a pair. *)
Second == {"joinStop", "unhook", "forget"}
Last == {"check", "watch"}

PlanInv ==
  /\ todo \in [Threads -> Seq(Step)]
  /\ \A t \in Threads : Plan(todo[t])
  /\ \A k \in Stops, x \in Step : Has(todo[k], x) => x \in StopStep
  /\ Has(todo[Gui], "flag") \/ Has(todo[Gui], "run") => session < MaxSessions

-----------------------------------------------------------------------------
(* The shell thread ends between two lines only. *)
ShellInv ==
  /\ connected => up
  /\ ~up => todo[Reader] = <<>> /\ gdb = "off"

(* Stop() is over, or about to join the stop thread: nobody else ends the   *)
(* session while the GUI thread sets up the next one.                       *)
Setting(s) == Has(s, "flag") \/ Has(s, "run") \/ Has(s, "launch")
Quiet == \A k \in Stops : todo[k] = <<>>

SetupInv ==
  LET s == todo[Gui] IN
  /\ Has(s, "joinStop") /\ ~Has(s, "joinShell") /\ ~Has(s, "spawn") => ~up
  /\ Setting(s) => ~Ending(Gui)
  /\ Setting(s) /\ ~Has(s, "joinStop") => Quiet /\ gdb = "off" /\ todo[Reader] = <<>>
  /\ Has(s, "launch") /\ ~Has(s, "flag") =>
       debugging /\ ~Has(s, "joinStop") /\ ~Has(s, "forget")

(* One thread at a time creates a stop thread, when there is none; and the  *)
(* one there is can be joined.                                              *)
StopInv ==
  /\ ~(Ending(Gui) /\ Ending(Reader))
  /\ \A t \in {Gui, Reader} : Has(todo[t], "spawn") => Quiet
  /\ Has(todo[Reader], "joinStop") => Has(todo[Reader], "spawn")
  /\ Does(Gui, "joinStop") /\ ~Has(todo[Gui], "spawn") => target[Gui] = handle
  /\ \A k \in Stops : todo[k] # <<>> => k = handle /\ cause[k] = session

ViewInv ==
  /\ views = "open" => debugging
  /\ \A t \in Threads : Does(t, "unhook") \/ Does(t, "forget") => views = "closed"

(* Whoever starts debugging without hearing the debugger gets no prompt.    *)
HearInv ==
  /\ Has(todo[Gui], "flag") => Has(todo[Gui], "prompt")
  /\ debugging /\ ~hooked =>
       \/ \E t \in Threads : Has(todo[t], "forget")
       \/ Has(todo[Gui], "prompt") /\ ~acked

(* A stop thread is created once: it is known by its session, which has begun. *)
CountInv ==
  /\ debugging \/ running => session > 0
  /\ Has(todo[Gui], "launch") => Has(todo[Gui], "flag") \/ session > 0
  /\ \A t \in {Gui, Reader} : Ending(t) => session > 0
  /\ \A k \in Stops : todo[k] # <<>> => cause[k] > 0

-----------------------------------------------------------------------------
(* The steps of a sequence, of its tail and of two sequences one after the  *)
(* other.                                                                  *)

LEMMA HasNone == \A x : ~Has(<<>>, x)
BY DEF Has

LEMMA HasTail ==
  ASSUME NEW s \in Seq(Step), s # <<>>
  PROVE  /\ Tail(s) \in Seq(Step)
         /\ \A x : Has(Tail(s), x) => Has(s, x)
         /\ \A x : Has(s, x) => x = Head(s) \/ Has(Tail(s), x)
         /\ Has(s, Head(s)) /\ Head(s) \in Step
<1>1. /\ Tail(s) \in Seq(Step) /\ Len(Tail(s)) = Len(s) - 1 /\ Head(s) = s[1]
      /\ \A n \in 1..Len(Tail(s)) : Tail(s)[n] = s[n + 1]
      /\ Len(s) \in Nat \ {0} /\ Head(s) \in Step
  BY HeadTailProperties, EmptySeq
<1>2. ASSUME NEW x, Has(Tail(s), x) PROVE Has(s, x)
  BY <1>1, <1>2 DEF Has
<1>3. ASSUME NEW x, NEW n \in 1..Len(s), s[n] = x, x # Head(s) PROVE Has(Tail(s), x)
  <2>1. n - 1 \in 1..Len(Tail(s)) /\ Tail(s)[n - 1] = x
    BY <1>1, <1>3
  <2> QED
    BY <2>1 DEF Has
<1> QED
  BY <1>1, <1>2, <1>3 DEF Has

LEMMA HasConcat ==
  ASSUME NEW q \in Seq(Step), NEW r \in Seq(Step)
  PROVE  /\ q \o r \in Seq(Step)
         /\ \A x : Has(q \o r, x) <=> Has(q, x) \/ Has(r, x)
<1>1. /\ q \o r \in Seq(Step) /\ Len(q \o r) = Len(q) + Len(r)
      /\ \A n \in 1..Len(q) : (q \o r)[n] = q[n]
      /\ \A n \in 1..Len(r) : (q \o r)[Len(q) + n] = r[n]
      /\ Len(q) \in Nat /\ Len(r) \in Nat
  OBVIOUS
<1>2. ASSUME NEW x, Has(q \o r, x) PROVE Has(q, x) \/ Has(r, x)
  <2>1. PICK n \in 1..(Len(q) + Len(r)) : (q \o r)[n] = x
    BY <1>1, <1>2 DEF Has
  <2>2. n \in 1..Len(q) \/ (n - Len(q) \in 1..Len(r) /\ n = Len(q) + (n - Len(q)))
    BY <1>1
  <2> QED
    BY <1>1, <2>1, <2>2 DEF Has
<1>3. ASSUME NEW x, Has(q, x) PROVE Has(q \o r, x)
  BY <1>1, <1>3 DEF Has
<1>4. ASSUME NEW x, Has(r, x) PROVE Has(q \o r, x)
  <2>1. PICK n \in 1..Len(r) : r[n] = x
    BY <1>4 DEF Has
  <2>2. Len(q) + n \in 1..Len(q \o r)
    BY <1>1
  <2> QED
    BY <1>1, <2>1, <2>2 DEF Has
<1> QED
  BY <1>1, <1>2, <1>3, <1>4

(* What is left of a plan is a plan, and what has been done is not done     *)
(* again where it must not be.                                              *)
LEMMA PlanTail ==
  ASSUME NEW s, Plan(s), s # <<>>
  PROVE  /\ Plan(Tail(s))
         /\ \A x \in Never(Head(s)) : ~Has(Tail(s), x)
         /\ Head(s) \in Last => Tail(s) = <<>>
         /\ Head(s) = "tellStop" => Tail(s) # <<>> /\ Head(Tail(s)) = "joinStop"
         /\ Head(s) = "unhook" => Tail(s) # <<>> /\ Head(Tail(s)) = "forget"
         /\ Tail(s) # <<>> =>
              /\ Head(Tail(s)) = "joinStop" => Head(s) = "tellStop"
              /\ Head(Tail(s)) = "unhook" => Head(s) = "kill"
              /\ Head(Tail(s)) = "forget" => Head(s) = "unhook"
<1> DEFINE r == Tail(s)
<1>1. /\ s \in Seq(Step) /\ r \in Seq(Step) /\ Len(r) = Len(s) - 1 /\ Head(s) = s[1]
      /\ \A n \in 1..Len(r) : r[n] = s[n + 1]
      /\ Len(s) \in Nat \ {0}
      /\ r # <<>> => Len(r) \in Nat \ {0} /\ Head(r) = r[1]
      /\ Len(r) # 0 => r # <<>>
  <2>1. s \in Seq(Step)
    BY DEF Plan
  <2>2. /\ r \in Seq(Step) /\ Len(r) = Len(s) - 1 /\ Head(s) = s[1]
        /\ \A n \in 1..Len(r) : r[n] = s[n + 1]
    BY <2>1, HeadTailProperties
  <2>3. Len(s) \in Nat \ {0}
    BY <2>1, EmptySeq
  <2> HIDE DEF r
  <2>4. r # <<>> => Len(r) \in Nat \ {0} /\ Head(r) = r[1]
    BY <2>2, EmptySeq
  <2>5. Len(r) # 0 => r # <<>>
    BY <2>2
  <2> QED
    BY <2>1, <2>2, <2>3, <2>4, <2>5
<1>2. Ordered(s) /\ Linked(s)
  BY DEF Plan
<1> HIDE DEF r
<1>3. Ordered(r)
  <2> SUFFICES ASSUME NEW m \in 1..Len(r), NEW n \in 1..Len(r), m < n
               PROVE  r[n] \notin Never(r[m])
    BY DEF Ordered
  <2>1. m + 1 \in 1..Len(s) /\ n + 1 \in 1..Len(s) /\ m + 1 < n + 1
    BY <1>1
  <2> QED
    BY <1>1, <1>2, <2>1 DEF Ordered
<1>4. Linked(r)
  <2> SUFFICES ASSUME NEW n \in 1..Len(r)
               PROVE  /\ r[n] \in {"check", "watch"} => n = Len(r)
                      /\ r[n] = "tellStop" => n < Len(r) /\ r[n + 1] = "joinStop"
                      /\ r[n] = "unhook" => n < Len(r) /\ r[n + 1] = "forget"
                      /\ n < Len(r) =>
                           /\ r[n + 1] = "joinStop" => r[n] = "tellStop"
                           /\ r[n + 1] = "unhook" => r[n] = "kill"
                           /\ r[n + 1] = "forget" => r[n] = "unhook"
    BY DEF Linked
  <2>1. n + 1 \in 1..Len(s) /\ r[n] = s[n + 1] /\ (n < Len(r) <=> n + 1 < Len(s))
    BY <1>1
  <2>2. n < Len(r) => r[n + 1] = s[(n + 1) + 1]
    BY <1>1
  <2> QED
    BY <1>1, <1>2, <2>1, <2>2 DEF Linked
<1>5. \A x \in Never(Head(s)) : ~Has(r, x)
  <2> SUFFICES ASSUME NEW n \in 1..Len(r) PROVE r[n] \notin Never(s[1])
    BY <1>1 DEF Has
  <2>1. 1 \in 1..Len(s) /\ n + 1 \in 1..Len(s) /\ 1 < n + 1
    BY <1>1
  <2> QED
    BY <1>1, <1>2, <2>1 DEF Ordered
<1>6. 1 \in 1..Len(s) /\ (r # <<>> => 1 < Len(s) /\ Head(r) = s[1 + 1])
  BY <1>1
<1>7. /\ Head(s) \in {"check", "watch"} => 1 = Len(s)
      /\ Head(s) = "tellStop" => 1 < Len(s) /\ s[1 + 1] = "joinStop"
      /\ Head(s) = "unhook" => 1 < Len(s) /\ s[1 + 1] = "forget"
      /\ 1 < Len(s) =>
           /\ s[1 + 1] = "joinStop" => Head(s) = "tellStop"
           /\ s[1 + 1] = "unhook" => Head(s) = "kill"
           /\ s[1 + 1] = "forget" => Head(s) = "unhook"
  BY <1>1, <1>2, <1>6 DEF Linked
<1>8. 1 < Len(s) => r # <<>> /\ Head(r) = s[1 + 1]
  BY <1>1, <1>6
<1>9. Plan(r)
  BY <1>1, <1>3, <1>4 DEF Plan
<1> QED
  BY <1>1, <1>5, <1>6, <1>7, <1>8, <1>9 DEF Last, r

LEMMA PlanConcat ==
  ASSUME NEW q, NEW r, Plan(q), Plan(r),
         \A x \in Last : ~Has(q, x),
         \A x, y : Has(q, x) /\ Has(r, y) => y \notin Never(x),
         r # <<>> => Head(r) \notin Second
  PROVE  Plan(q \o r)
<1> DEFINE s == q \o r
<1>1. /\ s \in Seq(Step) /\ Len(s) = Len(q) + Len(r)
      /\ \A n \in 1..Len(q) : s[n] = q[n]
      /\ \A n \in 1..Len(s) : n > Len(q) => s[n] = r[n - Len(q)]
      /\ Len(q) \in Nat /\ Len(r) \in Nat
      /\ Len(r) # 0 => r # <<>> /\ Head(r) = r[1]
  BY DEF Plan
<1>2. Ordered(q) /\ Ordered(r) /\ Linked(q) /\ Linked(r)
  BY DEF Plan
<1> HIDE DEF s
<1>3. Ordered(s)
  <2> SUFFICES ASSUME NEW m \in 1..Len(s), NEW n \in 1..Len(s), m < n
               PROVE  s[n] \notin Never(s[m])
    BY DEF Ordered
  <2>1. CASE n <= Len(q)
    BY <1>1, <1>2, <2>1 DEF Ordered
  <2>2. CASE m <= Len(q) /\ n > Len(q)
    <3>1. m \in 1..Len(q) /\ n - Len(q) \in 1..Len(r)
      BY <1>1, <2>2
    <3>2. Has(q, s[m]) /\ Has(r, s[n])
      BY <1>1, <2>2, <3>1 DEF Has
    <3> QED
      BY <3>2
  <2>3. CASE m > Len(q)
    <3>1. m - Len(q) \in 1..Len(r) /\ n - Len(q) \in 1..Len(r) /\ m - Len(q) < n - Len(q)
      BY <1>1, <2>3
    <3>2. s[m] = r[m - Len(q)] /\ s[n] = r[n - Len(q)]
      BY <1>1, <2>3
    <3> QED
      BY <1>2, <3>1, <3>2 DEF Ordered
  <2> QED
    BY <1>1, <2>1, <2>2, <2>3
<1>4. Linked(s)
  <2> SUFFICES ASSUME NEW n \in 1..Len(s)
               PROVE  /\ s[n] \in {"check", "watch"} => n = Len(s)
                      /\ s[n] = "tellStop" => n < Len(s) /\ s[n + 1] = "joinStop"
                      /\ s[n] = "unhook" => n < Len(s) /\ s[n + 1] = "forget"
                      /\ n < Len(s) =>
                           /\ s[n + 1] = "joinStop" => s[n] = "tellStop"
                           /\ s[n + 1] = "unhook" => s[n] = "kill"
                           /\ s[n + 1] = "forget" => s[n] = "unhook"
    BY DEF Linked
  <2>1. CASE n < Len(q)
    <3>1. n \in 1..Len(q) /\ n + 1 \in 1..Len(q) /\ n < Len(s)
      BY <1>1, <2>1
    <3>2. s[n] = q[n] /\ s[n + 1] = q[n + 1] /\ s[n] \notin Last
      BY <1>1, <3>1 DEF Has
    <3> QED
      BY <1>2, <2>1, <3>1, <3>2 DEF Linked, Last
  <2>2. CASE n = Len(q)
    <3>1. n \in 1..Len(q) /\ s[n] = q[n]
      BY <1>1, <2>2
    <3>2. s[n] \notin {"check", "watch", "tellStop", "unhook"}
      BY <1>2, <2>2, <3>1 DEF Linked, Has, Last
    <3>3. n < Len(s) => r # <<>> /\ s[n + 1] = Head(r)
      <4>1. n < Len(s) => n + 1 \in 1..Len(s) /\ n + 1 > Len(q) /\ (n + 1) - Len(q) = 1
        BY <1>1, <2>2
      <4> QED
        BY <1>1, <2>2, <4>1
    <3> QED
      BY <3>2, <3>3 DEF Second
  <2>3. CASE n > Len(q)
    <3> DEFINE m == n - Len(q)
    <3>1. m \in 1..Len(r) /\ s[n] = r[m] /\ (n < Len(s) <=> m < Len(r))
          /\ (n = Len(s) <=> m = Len(r))
      BY <1>1, <2>3
    <3>2. n < Len(s) => s[n + 1] = r[m + 1]
      <4>1. n < Len(s) => n + 1 \in 1..Len(s) /\ n + 1 > Len(q) /\ (n + 1) - Len(q) = m + 1
        BY <1>1, <2>3
      <4> QED
        BY <1>1, <4>1
    <3> HIDE DEF m
    <3> QED
      BY <1>2, <3>1, <3>2 DEF Linked
  <2> QED
    BY <1>1, <2>1, <2>2, <2>3
<1> QED
  BY <1>1, <1>3, <1>4 DEF Plan, s

-----------------------------------------------------------------------------
(* The functions of the source are plans: their first step and their steps. *)
IsFunction(q, first, steps) ==
  /\ Plan(q) /\ q # <<>> /\ Head(q) = first
  /\ \A x : Has(q, x) <=> x \in steps

LEMMA FunctionConcat ==
  ASSUME NEW q, NEW r, NEW f, NEW g, NEW Q, NEW R,
         IsFunction(q, f, Q), IsFunction(r, g, R), g \notin Second,
         \A x \in Q : x \notin Last /\ Never(x) \intersect R = {}
  PROVE  IsFunction(q \o r, f, Q \union R)
<1>1. Plan(q) /\ Plan(r) /\ q \in Seq(Step) /\ r \in Seq(Step)
  BY DEF IsFunction, Plan
<1>2. Plan(q \o r)
  BY <1>1, PlanConcat DEF IsFunction
<1>3. \A x : Has(q \o r, x) <=> x \in Q \union R
  BY <1>1, HasConcat DEF IsFunction
<1>4. q \o r # <<>> /\ Head(q \o r) = Head(q)
  BY <1>1 DEF IsFunction
<1> QED
  BY <1>2, <1>3, <1>4 DEF IsFunction

ClearSteps  == {"kill", "unhook", "forget"}
ShellSteps  == {"tellShell", "joinShell"}
WaitSteps   == {"tellStop", "joinStop"}
StopSteps   == ShellSteps \union WaitSteps \union ClearSteps
AttachSteps == {"hook", "flag", "connect", "launch", "send", "prompt"}
RunSteps    == {"connect", "run", "write"}

LEMMA ClearLinkPlan == IsFunction(ClearLink, "kill", ClearSteps)
BY DEF IsFunction, Plan, Has, Ordered, Linked, Never, Step, ClearLink, ClearSteps

LEMMA JoinShellPlan == IsFunction(JoinShell, "tellShell", ShellSteps)
BY DEF IsFunction, Plan, Has, Ordered, Linked, Never, Step, JoinShell, ShellSteps

LEMMA JoinStopPlan == IsFunction(JoinStop, "tellStop", WaitSteps)
BY DEF IsFunction, Plan, Has, Ordered, Linked, Never, Step, JoinStop, WaitSteps

LEMMA AttachPlan == IsFunction(Attach, "hook", AttachSteps)
BY DEF IsFunction, Plan, Has, Ordered, Linked, Never, Step, Attach, AttachSteps

LEMMA RunPlan == IsFunction(RunNormal, "connect", RunSteps)
BY DEF IsFunction, Plan, Has, Ordered, Linked, Never, Step, RunNormal, RunSteps

LEMMA ProgramStopPlan == IsFunction(ProgramStop, "exit", {"exit", "check"})
BY DEF IsFunction, Plan, Has, Ordered, Linked, Never, Step, ProgramStop

LEMMA OneSignal == IsFunction(<<"signal">>, "signal", {"signal"})
BY DEF IsFunction, Plan, Has, Ordered, Linked, Never, Step

LEMMA OneSeen == IsFunction(<<"seen">>, "seen", {"seen"})
BY DEF IsFunction, Plan, Has, Ordered, Linked, Never, Step

LEMMA OneSpawn == IsFunction(<<"spawn">>, "spawn", {"spawn"})
BY DEF IsFunction, Plan, Has, Ordered, Linked, Never, Step

LEMMA OneWatch == IsFunction(<<"watch">>, "watch", {"watch"})
BY DEF IsFunction, Plan, Has, Ordered, Linked, Never, Step

LEMMA CreateAwait == IsFunction(<<"create", "await">>, "create", {"create", "await"})
BY DEF IsFunction, Plan, Has, Ordered, Linked, Never, Step

(* ... and so are their combinations. *)
LEMMA SignalStopPlan == IsFunction(SignalStop, "signal", {"signal"} \union ClearSteps)
BY OneSignal, ClearLinkPlan, FunctionConcat
   DEF Never, Last, Second, ClearSteps, ShellSteps, WaitSteps, StopSteps, AttachSteps, RunSteps, SignalStop

LEMMA ConnectPlan ==
  IsFunction(Connect, "tellShell", ShellSteps \union {"create", "await"})
BY JoinShellPlan, CreateAwait, FunctionConcat
   DEF Never, Last, Second, ClearSteps, ShellSteps, WaitSteps, StopSteps, AttachSteps, RunSteps, Connect

LEMMA SpawnPlan ==
  IsFunction(JoinStop \o <<"spawn">>, "tellStop", WaitSteps \union {"spawn"})
BY JoinStopPlan, OneSpawn, FunctionConcat
   DEF Never, Last, Second, ClearSteps, ShellSteps, WaitSteps, StopSteps, AttachSteps, RunSteps

LEMMA SeenPlan == IsFunction(ClearLink \o <<"seen">>, "kill", ClearSteps \union {"seen"})
BY ClearLinkPlan, OneSeen, FunctionConcat
   DEF Never, Last, Second, ClearSteps, ShellSteps, WaitSteps, StopSteps, AttachSteps, RunSteps

LEMMA JoinPlan ==
  IsFunction(JoinShell \o JoinStop, "tellShell", ShellSteps \union WaitSteps)
BY JoinShellPlan, JoinStopPlan, FunctionConcat
   DEF Never, Last, Second, ClearSteps, ShellSteps, WaitSteps, StopSteps, AttachSteps, RunSteps

LEMMA StopPlan == IsFunction(Stop, "tellShell", StopSteps)
BY JoinPlan, ClearLinkPlan, FunctionConcat
   DEF Never, Last, Second, ClearSteps, ShellSteps, WaitSteps, StopSteps, AttachSteps, RunSteps, Stop

LEMMA DebugPlan == IsFunction(Stop \o Attach, "tellShell", StopSteps \union AttachSteps)
BY StopPlan, AttachPlan, FunctionConcat
   DEF Never, Last, Second, ClearSteps, ShellSteps, WaitSteps, StopSteps, AttachSteps, RunSteps

LEMMA RunProgramPlan ==
  IsFunction(Stop \o RunNormal, "tellShell", StopSteps \union RunSteps)
BY StopPlan, RunPlan, FunctionConcat
   DEF Never, Last, Second, ClearSteps, ShellSteps, WaitSteps, StopSteps, AttachSteps, RunSteps

LEMMA AbandonPlan ==
  IsFunction(SignalStop \o Stop, "signal", {"signal"} \union ClearSteps \union StopSteps)
BY SignalStopPlan, StopPlan, FunctionConcat
   DEF Never, Last, Second, ClearSteps, ShellSteps, WaitSteps, StopSteps, AttachSteps, RunSteps

-----------------------------------------------------------------------------
(* Every thread always has a plan.                                         *)

(* A thread gets another sequence of steps. *)
LEMMA Replaced ==
  ASSUME PlanInv, NEW t \in Threads, NEW s, Plan(s), todo' = [todo EXCEPT ![t] = s],
         t \in Stops => \A x \in Step : Has(s, x) => x \in StopStep,
         IF t = Gui THEN Has(s, "flag") \/ Has(s, "run") => session' < MaxSessions
                    ELSE session' = session
  PROVE  PlanInv'
<1>1. s \in Seq(Step)
  BY DEF Plan
<1>2. /\ todo' \in [Threads -> Seq(Step)]
      /\ \A u \in Threads : todo'[u] = IF u = t THEN s ELSE todo[u]
  BY <1>1 DEF PlanInv
<1>3. \A u \in Threads : Plan(todo'[u])
  BY <1>2 DEF PlanInv
<1>4. \A k \in Stops, x \in Step : Has(todo'[k], x) => x \in StopStep
  BY <1>2 DEF PlanInv, Threads
<1>5. Has(todo'[Gui], "flag") \/ Has(todo'[Gui], "run") => session' < MaxSessions
  BY <1>2 DEF PlanInv, Threads
<1> QED
  BY <1>2, <1>3, <1>4, <1>5 DEF PlanInv, Plan, Ordered, Linked, Has

LEMMA Planned ==
  ASSUME PlanInv, NEW t \in Threads
  PROVE  Plan(todo[t]) /\ todo[t] \in Seq(Step) /\ todo \in [Threads -> Seq(Step)]
BY DEF PlanInv, Plan

(* ... the rest of what it had ... *)
LEMMA DonePlan ==
  ASSUME PlanInv, NEW t \in Threads, todo[t] # <<>>, Done(t),
         \/ session' = session
         \/ t = Gui /\ (Does(t, "flag") \/ Does(t, "run"))
  PROVE  PlanInv'
<1>1. Plan(todo[t]) /\ todo[t] \in Seq(Step)
  BY Planned
<1>2. Plan(Tail(todo[t])) /\ \A x : Has(Tail(todo[t]), x) => Has(todo[t], x)
  BY <1>1, PlanTail, HasTail
<1>3. todo' = [todo EXCEPT ![t] = Tail(todo[t])]
  BY DEF Done
<1>4. CASE session' = session
  <2>1. t \in Stops => \A x \in Step : Has(Tail(todo[t]), x) => x \in StopStep
    BY <1>2 DEF PlanInv
  <2>2. t = Gui /\ (Has(Tail(todo[t]), "flag") \/ Has(Tail(todo[t]), "run"))
          => session' < MaxSessions
    BY <1>2, <1>4 DEF PlanInv
  <2> QED
    BY <1>2, <1>3, <1>4, <2>1, <2>2, Replaced
<1>5. CASE t = Gui /\ (Does(t, "flag") \/ Does(t, "run"))
  <2>1. ~Has(Tail(todo[t]), "flag") /\ ~Has(Tail(todo[t]), "run")
    BY <1>1, <1>5, PlanTail DEF Does, Never
  <2>2. t \in Stops => \A x \in Step : Has(Tail(todo[t]), x) => x \in StopStep
    BY <1>2 DEF PlanInv
  <2> QED
    BY <1>2, <1>3, <1>5, <2>1, <2>2, Replaced
<1> QED
  BY <1>4, <1>5

(* ... or the steps of a function, in place of the step that calls it.      *)
LEMMA CallPlan ==
  ASSUME PlanInv, NEW t \in Threads, NEW x \in Last \union {"connect"}, Does(t, x),
         NEW q, NEW f, NEW Q, IsFunction(q, f, Q), Q \intersect Last = {},
         x = "connect" => Q = ShellSteps \union {"create", "await"}
  PROVE  /\ Plan(q \o Tail(todo[t]))
         /\ \A y : Has(q \o Tail(todo[t]), y) <=> y \in Q \/ Has(Tail(todo[t]), y)
         /\ q \o Tail(todo[t]) # <<>> /\ Head(q \o Tail(todo[t])) = f
<1> DEFINE r == Tail(todo[t])
<1>1. Plan(todo[t]) /\ todo[t] \in Seq(Step) /\ todo[t] # <<>> /\ Head(todo[t]) = x
  BY Planned DEF Does
<1>2. Plan(r) /\ r \in Seq(Step) /\ (x \in Last => r = <<>>)
  BY <1>1, PlanTail, HasTail
<1>3. Plan(q) /\ q \in Seq(Step) /\ (\A y : Has(q, y) <=> y \in Q) /\ q # <<>> /\ Head(q) = f
  BY DEF IsFunction, Plan
<1>4. r # <<>> => Head(r) \notin Second
  BY <1>1, PlanTail DEF Second, Last
<1>5. ASSUME NEW y, NEW z, Has(q, y), Has(r, z) PROVE z \notin Never(y)
  <2>1. x = "connect"
    BY <1>2, <1>5, HasNone
  <2>2. ~Has(r, "joinStop")
    BY <1>1, <2>1, PlanTail DEF Never
  <2>3. y \in {"tellShell", "joinShell", "create", "await"}
    BY <1>3, <1>5, <2>1 DEF ShellSteps
  <2> QED
    BY <1>5, <2>2, <2>3 DEF Never
<1> HIDE DEF r
<1>6. Plan(q \o r)
  BY <1>2, <1>3, <1>4, <1>5, PlanConcat
<1>7. \A y : Has(q \o r, y) <=> y \in Q \/ Has(r, y)
  BY <1>2, <1>3, HasConcat
<1>8. q \o r # <<>> /\ Head(q \o r) = Head(q)
  BY <1>2, <1>3
<1> QED
  BY <1>3, <1>6, <1>7, <1>8 DEF r

(* A thread begins a function. *)
LEMMA InsteadPlan ==
  ASSUME PlanInv, NEW t \in {Gui, Reader}, NEW q, NEW f, NEW Q, IsFunction(q, f, Q),
         Instead(t, q), session' = session,
         t = Gui /\ ("flag" \in Q \/ "run" \in Q) => session < MaxSessions
  PROVE  PlanInv'
<1>1. t \in Threads /\ t \notin Stops
  BY ThreadsAssumption DEF Threads
<1>2. /\ Plan(q) /\ todo' = [todo EXCEPT ![t] = q]
      /\ \A x : Has(q, x) <=> x \in Q
  BY DEF IsFunction, Instead
<1> QED
  BY <1>1, <1>2, Replaced

LEMMA EmptyTail ==
  ASSUME PlanInv, NEW t \in Threads
  PROVE  <<>> \o Tail(todo[t]) = Tail(todo[t]) \/ todo[t] = <<>>
<1>1. todo[t] \in Seq(Step)
  BY Planned
<1>2. todo[t] # <<>> => Tail(todo[t]) \in Seq(Step)
  BY <1>1, HasTail
<1> QED
  BY <1>2

-----------------------------------------------------------------------------
(* The steps of the four kinds of threads. *)

LEMMA PlanUser == ASSUME PlanInv, User PROVE PlanInv'
<1> USE DEF StopSteps, ShellSteps, WaitSteps, ClearSteps, AttachSteps, RunSteps
<1>1. CASE Debug
  <2>1. CASE Maintain /\ seenExit
    <3>1. <<>> \o Attach = Attach
      BY DEF Attach
    <3> QED
      BY <1>1, <2>1, <3>1, AttachPlan, InsteadPlan DEF Debug
  <2>2. CASE ~(Maintain /\ seenExit)
    BY <1>1, <2>2, DebugPlan, InsteadPlan DEF Debug
  <2> QED
    BY <2>1, <2>2
<1>2. CASE RunProgram
  BY <1>2, RunProgramPlan, InsteadPlan DEF RunProgram
<1>3. CASE End
  BY <1>3, ProgramStopPlan, InsteadPlan DEF End
<1>4. CASE Abandon
  BY <1>4, AbandonPlan, InsteadPlan DEF Abandon
<1> QED
  BY <1>1, <1>2, <1>3, <1>4 DEF User

LEMMA PlanCleaning == ASSUME PlanInv, NEW t \in Threads, Cleaning(t) PROVE PlanInv'
<1>1. CASE Signal(t) \/ TellShell(t) \/ ShellJoined(t) \/ StopJoined(t) \/ Kill(t)
           \/ Unhook(t) \/ Forget(t)
  <2>1. todo[t] # <<>> /\ Done(t) /\ session' = session
    BY <1>1 DEF Signal, TellShell, ShellJoined, StopJoined, Kill, Unhook, Forget, Does
  <2> QED
    BY <2>1, DonePlan
<1>2. CASE TellStop(t)
  <2>1. CASE handle = None
    <3>1. /\ Plan(todo[t]) /\ todo[t] \in Seq(Step) /\ todo[t] # <<>>
          /\ Head(todo[t]) = "tellStop"
      BY <1>2, Planned DEF TellStop, Does
    <3>2. /\ Plan(Tail(todo[t])) /\ Tail(todo[t]) # <<>>
          /\ \A x : Has(Tail(todo[t]), x) => Has(todo[t], x)
      BY <3>1, PlanTail, HasTail
    <3>3. /\ Plan(Tail(Tail(todo[t])))
          /\ \A x : Has(Tail(Tail(todo[t])), x) => Has(todo[t], x)
      BY <3>2, PlanTail, HasTail DEF Plan
    <3>4. todo' = [todo EXCEPT ![t] = Tail(Tail(todo[t]))] /\ session' = session
      BY <1>2, <2>1 DEF TellStop
    <3> QED
      BY <3>3, <3>4, Replaced DEF PlanInv
  <2>2. CASE handle # None
    <3>1. todo[t] # <<>> /\ Done(t) /\ session' = session
      BY <1>2, <2>2 DEF TellStop, Does
    <3> QED
      BY <3>1, DonePlan
  <2> QED
    BY <2>1, <2>2
<1> QED
  BY <1>1, <1>2 DEF Cleaning

LEMMA PlanEnds == ASSUME PlanInv, NEW t \in {Gui, Reader}, Ends(t) PROVE PlanInv'
<1>0. t \in Threads /\ t \notin Stops
  BY ThreadsAssumption DEF Threads
<1>1. CASE Exit(t)
  <2>1. todo[t] # <<>> /\ Done(t) /\ session' = session
    BY <1>1 DEF Exit, Does
  <2> QED
    BY <1>0, <2>1, DonePlan
<1>2. CASE Check(t)
  <2>1. CASE Alive(handle)
    <3>1. todo[t] # <<>> /\ Done(t) /\ session' = session
      <4>1. <<>> \o Tail(todo[t]) = Tail(todo[t]) /\ todo[t] # <<>>
        BY <1>0, <1>2, EmptyTail DEF Check, Does
      <4> QED
        BY <1>2, <2>1, <4>1 DEF Check, First, Done
    <3> QED
      BY <1>0, <3>1, DonePlan
  <2>2. CASE ~Alive(handle)
    <3> DEFINE q == JoinStop \o <<"spawn">>
               s == q \o Tail(todo[t])
    <3>1. Does(t, "check") /\ todo' = [todo EXCEPT ![t] = s] /\ session' = session
      BY <1>2, <2>2 DEF Check, First
    <3>2. IsFunction(q, "tellStop", WaitSteps \union {"spawn"})
      BY SpawnPlan
    <3> HIDE DEF q
    <3>3. /\ Plan(s)
          /\ \A y : Has(s, y) <=> y \in WaitSteps \union {"spawn"} \/ Has(Tail(todo[t]), y)
      BY <1>0, <3>1, <3>2, CallPlan DEF Last, WaitSteps
    <3>4. Tail(todo[t]) = <<>>
      BY <1>0, <3>1, Planned, PlanTail DEF Does, Last
    <3>5. ~Has(s, "flag") /\ ~Has(s, "run")
      <4>1. ~Has(Tail(todo[t]), "flag") /\ ~Has(Tail(todo[t]), "run")
        BY <3>4, HasNone
      <4>2. "flag" \notin WaitSteps \union {"spawn"} /\ "run" \notin WaitSteps \union {"spawn"}
        BY DEF WaitSteps
      <4> HIDE DEF s
      <4> QED
        BY <3>3, <4>1, <4>2
    <3> HIDE DEF s
    <3> QED
      BY <1>0, <3>1, <3>3, <3>5, Replaced
  <2> QED
    BY <2>1, <2>2
<1>3. CASE Spawn(t)
  <2>1. PICK k \in Stops : todo' = [todo EXCEPT ![t] = Tail(@), ![k] = <<"watch">>]
    BY <1>3 DEF Spawn
  <2>2. session' = session /\ todo[t] # <<>> /\ t # k /\ k \in Threads
    BY <1>0, <1>3 DEF Spawn, Does, Threads
  <2>3. /\ todo[t] \in Seq(Step) /\ Plan(Tail(todo[t]))
        /\ \A x : Has(Tail(todo[t]), x) => Has(todo[t], x)
    BY <1>0, <2>2, Planned, PlanTail, HasTail
  <2>4. Plan(<<"watch">>) /\ \A x : Has(<<"watch">>, x) <=> x = "watch"
    BY OneWatch DEF IsFunction
  <2>5. /\ todo' \in [Threads -> Seq(Step)]
        /\ \A u \in Threads :
             todo'[u] = IF u = k THEN <<"watch">> ELSE IF u = t THEN Tail(todo[t]) ELSE todo[u]
    BY <1>0, <2>1, <2>2, <2>3, <2>4 DEF PlanInv, Plan
  <2>6. \A u \in Threads : Plan(todo'[u])
    BY <2>3, <2>4, <2>5 DEF PlanInv
  <2>7. \A n \in Stops, x \in Step : Has(todo'[n], x) => x \in StopStep
    BY <1>0, <2>3, <2>4, <2>5 DEF PlanInv, Threads, StopStep
  <2>8. Has(todo'[Gui], "flag") \/ Has(todo'[Gui], "run") => session' < MaxSessions
    BY <1>0, <2>2, <2>3, <2>5, ThreadsAssumption DEF PlanInv, Threads
  <2> QED
    BY <2>5, <2>6, <2>7, <2>8 DEF PlanInv, Plan, Ordered, Linked, Has
<1> QED
  BY <1>1, <1>2, <1>3 DEF Ends

(* The steps of Ends are not in the plan of a stop thread. *)
LEMMA StopsOnlyStop ==
  ASSUME PlanInv, NEW k \in Stops, NEW x \in Step \ StopStep
  PROVE  ~Does(k, x) /\ ~Has(todo[k], x)
<1>1. k \in Threads
  BY DEF Threads
<1>2. Does(k, x) => Has(todo[k], x)
  BY <1>1, Planned, HasTail DEF Does
<1> QED
  BY <1>2 DEF PlanInv

LEMMA PlanWatch == ASSUME PlanInv, NEW k \in Stops, Watch(k) PROVE PlanInv'
<1>1. k \in Threads /\ k # Gui
  BY ThreadsAssumption DEF Threads
<1>2. Tail(todo[k]) = <<>> /\ Does(k, "watch") /\ session' = session
  BY <1>1, Planned, PlanTail DEF Watch, Does, Last
<1>3. ASSUME NEW q, NEW f, NEW Q, IsFunction(q, f, Q), Q \subseteq StopStep \ Last,
             First(k, q)
      PROVE  PlanInv'
  <2> DEFINE s == q \o Tail(todo[k])
  <2>1. /\ Plan(s) /\ \A y : Has(s, y) <=> y \in Q \/ Has(Tail(todo[k]), y)
    BY <1>1, <1>2, <1>3, CallPlan DEF Last
  <2>2. \A x \in Step : Has(s, x) => x \in StopStep
    <3> HIDE DEF s
    <3> QED
      BY <1>2, <1>3, <2>1, HasNone
  <2>3. todo' = [todo EXCEPT ![k] = s]
    BY <1>3 DEF First
  <2> HIDE DEF s
  <2> QED
    BY <1>1, <1>2, <2>1, <2>2, <2>3, Replaced
<1>4. CASE Busy
  BY <1>3, <1>4, SignalStopPlan DEF Watch, StopStep, Last, ClearSteps
<1>5. CASE ~Busy
  BY <1>3, <1>5, ClearLinkPlan DEF Watch, StopStep, Last, ClearSteps
<1> QED
  BY <1>4, <1>5

LEMMA PlanStarting == ASSUME PlanInv, Starting PROVE PlanInv'
<1>0. Gui \in Threads /\ Gui \in {Gui, Reader}
  BY DEF Threads
<1>1. CASE Hook \/ Create \/ Launch \/ Send \/ Write
  <2>1. todo[Gui] # <<>> /\ Done(Gui) /\ session' = session
    BY <1>1 DEF Hook, Create, Launch, Send, Write, Does
  <2> QED
    BY <1>0, <2>1, DonePlan
<1>2. CASE Flag \/ Run
  <2>1. todo[Gui] # <<>> /\ Done(Gui) /\ (Does(Gui, "flag") \/ Does(Gui, "run"))
    BY <1>2 DEF Flag, Run, Does
  <2> QED
    BY <1>0, <2>1, DonePlan
<1>3. ASSUME Instead(Gui, SignalStop \o Stop), session' = session PROVE PlanInv'
  BY <1>0, <1>3, AbandonPlan, InsteadPlan
     DEF StopSteps, ShellSteps, WaitSteps, ClearSteps
<1>4. CASE SendFails
  BY <1>3, <1>4 DEF SendFails, Fails
<1>5. CASE Prompt
  <2>1. CASE acked
    BY <1>0, <1>5, <2>1, DonePlan DEF Prompt, Does
  <2>2. CASE ~acked
    BY <1>3, <1>5, <2>2 DEF Prompt, Fails
  <2> QED
    BY <2>1, <2>2
<1>6. CASE Await
  <2>1. CASE connected
    BY <1>0, <1>6, <2>1, DonePlan DEF Await, Does
  <2>2. CASE Instead(Gui, Stop)
    BY <1>0, <1>6, <2>2, StopPlan, InsteadPlan
       DEF Await, StopSteps, ShellSteps, WaitSteps, ClearSteps
  <2> QED
    BY <1>3, <1>6, <2>1, <2>2 DEF Await
<1>7. CASE ConnectIfNot
  <2>1. CASE connected
    <3>1. <<>> \o Tail(todo[Gui]) = Tail(todo[Gui]) /\ todo[Gui] # <<>>
      BY <1>0, <1>7, EmptyTail DEF ConnectIfNot, Does
    <3> QED
      BY <1>0, <1>7, <2>1, <3>1, DonePlan DEF ConnectIfNot, First, Done
  <2>2. CASE ~connected
    <3> DEFINE s == Connect \o Tail(todo[Gui])
    <3>1. Does(Gui, "connect") /\ todo' = [todo EXCEPT ![Gui] = s] /\ session' = session
      BY <1>7, <2>2 DEF ConnectIfNot, First
    <3>2. /\ Plan(s)
          /\ \A y : Has(s, y) <=>
               y \in ShellSteps \union {"create", "await"} \/ Has(Tail(todo[Gui]), y)
      BY <1>0, <3>1, ConnectPlan, CallPlan DEF Last, ShellSteps
    <3>3. Has(s, "flag") \/ Has(s, "run") => Has(todo[Gui], "flag") \/ Has(todo[Gui], "run")
      <4>1. \A y : Has(Tail(todo[Gui]), y) => Has(todo[Gui], y)
        BY <1>0, <3>1, Planned, HasTail DEF Does
      <4> HIDE DEF s
      <4> QED
        BY <3>2, <4>1 DEF ShellSteps
    <3> HIDE DEF s
    <3> QED
      BY <1>0, <3>1, <3>2, <3>3, ThreadsAssumption, Replaced DEF PlanInv
  <2> QED
    BY <2>1, <2>2
<1> QED
  BY <1>1, <1>2, <1>4, <1>5, <1>6, <1>7 DEF Starting

LEMMA PlanShell == ASSUME PlanInv, ShellThread \/ ShellEnds PROVE PlanInv'
<1>0. Reader \in Threads
  BY DEF Threads
<1>1. CASE UNCHANGED todo
  BY <1>1 DEF Login, HearPrompt, HearExit, HearOver, Seen, ShellEnds, ShellThread, PlanInv,
              Plan, Ordered, Linked, Has
<1>2. CASE HearOver
  BY <1>2, ProgramStopPlan, InsteadPlan DEF HearOver
<1>3. CASE HearExit /\ Instead(Reader, ClearLink \o <<"seen">>)
  BY <1>3, SeenPlan, InsteadPlan DEF HearExit, ClearSteps
<1>4. CASE Seen
  BY <1>0, <1>4, DonePlan DEF Seen, Does
<1> QED
  BY <1>1, <1>2, <1>3, <1>4 DEF Login, HearPrompt, HearExit, ShellEnds, ShellThread

LEMMA PlanStep == PlanInv /\ [Next]_vars => PlanInv'
<1> SUFFICES ASSUME PlanInv, [Next]_vars PROVE PlanInv'
  OBVIOUS
<1>1. CASE UNCHANGED vars
  BY <1>1 DEF vars, PlanInv, Plan, Ordered, Linked, Has
<1>2. ASSUME NEW t \in Threads, Ends(t) PROVE PlanInv'
  <2>1. CASE t \in Stops
    BY <1>2, <2>1, StopsOnlyStop DEF Ends, Exit, Check, Spawn, Step, StopStep
  <2>2. CASE t \in {Gui, Reader}
    BY <1>2, <2>2, PlanEnds
  <2> QED
    BY <2>1, <2>2 DEF Threads
<1> QED
  BY <1>1, <1>2, PlanUser, PlanCleaning, PlanWatch, PlanStarting, PlanShell DEF Next

-----------------------------------------------------------------------------
(* The types, and the shell thread.                                        *)

LEMMA Distinct ==
  /\ Gui # Reader /\ Gui \in Threads /\ Reader \in Threads
  /\ Gui \notin Stops /\ Reader \notin Stops
  /\ \A k \in Stops : k \in Threads /\ k # None
BY ThreadsAssumption, NoneAssumption DEF Threads

(* The shell thread ends between two lines: what it has yet to do is done   *)
(* while it runs.                                                          *)
LEMMA ShellStep ==
  ASSUME PlanInv, ShellInv, [Next]_vars
  PROVE  ShellInv'
<1> USE Distinct DEF ShellInv, shell
<1>0. todo \in [Threads -> Seq(Step)]
  BY DEF PlanInv
<1>1. CASE User
  BY <1>0, <1>1 DEF User, Debug, RunProgram, End, Abandon, Instead
<1>2. ASSUME NEW t \in Threads, Cleaning(t) PROVE ShellInv'
  BY <1>0, <1>2 DEF Cleaning, Signal, TellShell, ShellJoined, TellStop, StopJoined, Kill, Unhook,
                    Forget, Does, Done
<1>3. ASSUME NEW t \in Threads, Ends(t) PROVE ShellInv'
  <2>1. CASE Exit(t)
    BY <1>0, <2>1 DEF Exit, Does, Done
  <2>3. CASE Check(t)
    <3>1. /\ t # Reader => todo'[Reader] = todo[Reader]
          /\ t = Reader => todo[Reader] # <<>>
      BY <1>0, <2>3 DEF Check, Does, First
    <3>2. UNCHANGED shell
      BY <2>3 DEF Check
    <3> QED
      BY <3>1, <3>2
  <2>2. CASE Spawn(t)
    BY <1>0, <2>2 DEF Spawn, Does
  <2> QED
    BY <1>3, <2>1, <2>2, <2>3 DEF Ends
<1>4. CASE Starting
  <2>1. todo'[Reader] = todo[Reader]
    <3>1. CASE ConnectIfNot
      BY <1>0, <3>1 DEF ConnectIfNot, First
    <3>2. CASE Await
      BY <1>0, <3>2 DEF Await, Done, Instead
    <3>3. CASE SendFails \/ Prompt
      BY <1>0, <3>3 DEF SendFails, Prompt, Fails, Done, Instead
    <3> QED
      BY <1>0, <1>4, <3>1, <3>2, <3>3 DEF Starting, Hook, Flag, Create, Launch, Run, Send, Write,
         Done
  <2>2. CASE Create
    BY <2>1, <2>2 DEF Create
  <2>3. CASE Send
    BY <2>1, <2>3 DEF Send
  <2>4. CASE ~Create /\ ~Send
    <3>1. UNCHANGED shell
      BY <1>4, <2>4 DEF Starting, Hook, Flag, ConnectIfNot, Await, Launch, Run, Write, SendFails,
                        Prompt
    <3> QED
      BY <2>1, <3>1
  <2> QED
    BY <2>2, <2>3, <2>4
<1>5. CASE ShellThread \/ ShellEnds
  BY <1>0, <1>5 DEF ShellThread, ShellEnds, Login, HearPrompt, HearOver, HearExit, Seen, Reading,
                    Does, Done, Instead
<1>6. ASSUME NEW k \in Stops, Watch(k) PROVE ShellInv'
  BY <1>0, <1>6 DEF Watch, First
<1>7. CASE UNCHANGED vars
  BY <1>7 DEF vars
<1> QED
  BY <1>1, <1>2, <1>3, <1>4, <1>5, <1>6, <1>7 DEF Next

LEMMA TypeStep ==
  ASSUME PlanInv, PlanInv', ShellInv', TypeOK, [Next]_vars
  PROVE  TypeOK'
<1> USE Distinct DEF TypeOK, shell, flags, ender
<1>0. todo' \in [Threads -> Seq(Step)] /\ (connected' => up')
  BY DEF PlanInv, ShellInv
<1> DEFINE Rest ==
      /\ target' \in [Threads -> Stops \union {None}] /\ handle' \in Stops \union {None}
      /\ {up', told', connected', acked', hooked', debugging', running', seenExit'} \subseteq BOOLEAN
      /\ gdb' \in {"off", "starting", "ready", "leaving"} /\ views' \in {"open", "closed"}
      /\ session' \in 0..MaxSessions /\ cause' \in [Stops -> 0..MaxSessions]
<1> SUFFICES Rest
  BY <1>0
<1>1. CASE User
  BY <1>1 DEF User, Debug, RunProgram, End, Abandon
<1>2. ASSUME NEW t \in Threads, Cleaning(t) PROVE Rest
  BY <1>2 DEF Cleaning, Signal, TellShell, ShellJoined, TellStop, StopJoined, Kill, Unhook, Forget
<1>3. ASSUME NEW t \in Threads, Ends(t) PROVE Rest
  <2>1. CASE Exit(t) \/ Check(t)
    BY <2>1 DEF Exit, Check
  <2>2. CASE Spawn(t)
    BY <2>2 DEF Spawn
  <2> QED
    BY <1>3, <2>1, <2>2 DEF Ends
<1>4. CASE Flag \/ Run
  <2>1. session < MaxSessions
    <3>1. Does(Gui, "flag") \/ Does(Gui, "run")
      BY <1>4 DEF Flag, Run
    <3>2. Has(todo[Gui], "flag") \/ Has(todo[Gui], "run")
      BY <3>1, Planned, HasTail DEF Does
    <3> QED
      BY <3>2 DEF PlanInv
  <2>2. session' \in 0..MaxSessions
    BY <1>4, <2>1, BoundsAssumption DEF Flag, Run
  <2> QED
    BY <1>4, <2>2 DEF Flag, Run
<1>5. CASE Starting /\ ~Flag /\ ~Run
  BY <1>5 DEF Starting, Hook, ConnectIfNot, Create, Await, Launch, Send, Write, SendFails, Prompt
<1>6. CASE ShellThread \/ ShellEnds
  BY <1>6 DEF ShellThread, ShellEnds, Login, HearPrompt, HearOver, HearExit, Seen
<1>7. ASSUME NEW k \in Stops, Watch(k) PROVE Rest
  BY <1>7 DEF Watch
<1>8. CASE UNCHANGED vars
  BY <1>8 DEF vars
<1> QED
  BY <1>1, <1>2, <1>3, <1>4, <1>5, <1>6, <1>7, <1>8 DEF Next

LEMMA TypeStart == Init => PlanInv /\ ShellInv /\ TypeOK
<1> SUFFICES ASSUME Init PROVE PlanInv /\ ShellInv /\ TypeOK
  OBVIOUS
<1>1. /\ todo \in [Threads -> Seq(Step)] /\ \A t \in Threads : todo[t] = <<>>
  BY DEF Init
<1>2. Plan(<<>>) /\ \A x : ~Has(<<>>, x)
  BY DEF Plan, Ordered, Linked, Has
<1>3. PlanInv
  BY <1>1, <1>2, Distinct DEF PlanInv
<1>4. ShellInv
  BY <1>1, Distinct DEF Init, ShellInv
<1>5. TypeOK
  <2>1. /\ target \in [Threads -> Stops \union {None}] /\ cause \in [Stops -> 0..MaxSessions]
        /\ session \in 0..MaxSessions
    BY BoundsAssumption DEF Init
  <2> QED
    BY <1>1, <2>1 DEF Init, TypeOK
<1> QED
  BY <1>3, <1>4, <1>5

LEMMA TypeInvariant == Spec => [](PlanInv /\ ShellInv /\ TypeOK)
BY TypeStart, PlanStep, ShellStep, TypeStep, PTL DEF Spec

(* Every variable of the debug session keeps its type, in either mode and   *)
(* however the threads overlap; a logged-in shell has its thread.           *)
THEOREM TypeCorrect == Spec => []TypeOK
<1> QED
  BY TypeInvariant, PTL

-----------------------------------------------------------------------------
(* The session: what the invariants say of a thread is said with Has and    *)
(* Does only.                                                              *)

DebugInv ==
  /\ PlanInv /\ ShellInv /\ TypeOK
  /\ SetupInv /\ StopInv /\ ViewInv

LEMMA EndingHas ==
  ASSUME PlanInv, NEW t \in Threads
  PROVE  Ending(t) <=> Has(todo[t], "exit") \/ Has(todo[t], "check") \/ Has(todo[t], "spawn")
<1>1. DOMAIN todo[t] = 1..Len(todo[t])
  BY Planned
<1> QED
  BY <1>1 DEF Ending, Has

LEMMA EndingNext ==
  ASSUME PlanInv', NEW t \in Threads
  PROVE  Ending(t)' <=> Has(todo'[t], "exit") \/ Has(todo'[t], "check") \/ Has(todo'[t], "spawn")
<1>1. DOMAIN todo'[t] = 1..Len(todo'[t])
  BY DEF PlanInv
<1> QED
  BY <1>1 DEF Ending, Has

(* A thread that does a step has it, and what must not follow is not there. *)
LEMMA DoesFacts ==
  ASSUME PlanInv, NEW t \in Threads, NEW x, Does(t, x)
  PROVE  /\ todo[t] # <<>> /\ Has(todo[t], x) /\ x \in Step
         /\ \A y \in Never(x) : y # x => ~Has(todo[t], y)
<1>1. Plan(todo[t]) /\ todo[t] \in Seq(Step)
  BY Planned
<1> QED
  BY <1>1, PlanTail, HasTail DEF Does

(* ... and it goes on to the next. *)
LEMMA DoneFacts ==
  ASSUME PlanInv, NEW t \in Threads, NEW x, Does(t, x), todo'[t] = Tail(todo[t])
  PROVE  /\ \A y : Has(todo'[t], y) => Has(todo[t], y)
         /\ \A y : y # x /\ Has(todo[t], y) => Has(todo'[t], y)
         /\ \A y \in Never(x) : ~Has(todo'[t], y)
         /\ Does(t, "joinStop")' => x = "tellStop"
         /\ Does(t, "unhook")' => x = "kill"
         /\ Does(t, "forget")' => x = "unhook"
         /\ x = "unhook" => Has(todo'[t], "forget")
<1>1. Plan(todo[t]) /\ todo[t] \in Seq(Step) /\ todo[t] # <<>> /\ Head(todo[t]) = x
  BY Planned DEF Does
<1>2. Tail(todo[t]) \in Seq(Step)
  BY <1>1, HasTail
<1>3. x = "unhook" => Has(Tail(todo[t]), "forget")
  BY <1>1, <1>2, PlanTail, HasTail
<1>4. /\ Does(t, "joinStop")' => x = "tellStop"
      /\ Does(t, "unhook")' => x = "kill"
      /\ Does(t, "forget")' => x = "unhook"
  BY <1>1, PlanTail DEF Does
<1> QED
  BY <1>1, <1>3, <1>4, PlanTail, HasTail

(* TellStop() without a stop thread passes over the join. *)
LEMMA SkipFacts ==
  ASSUME PlanInv, NEW t \in Threads, Does(t, "tellStop"), todo'[t] = Tail(Tail(todo[t]))
  PROVE  /\ Has(todo[t], "joinStop") /\ ~Has(todo[t], "joinShell")
         /\ \A y : Has(todo'[t], y) => Has(todo[t], y)
         /\ \A y : y \notin WaitSteps /\ Has(todo[t], y) => Has(todo'[t], y)
         /\ \A y \in {"joinStop", "unhook", "forget"} : ~Does(t, y)'
<1> DEFINE r == Tail(todo[t])
<1>1. Plan(todo[t]) /\ todo[t] \in Seq(Step) /\ todo[t] # <<>> /\ Head(todo[t]) = "tellStop"
  BY Planned DEF Does
<1>2. Plan(r) /\ r \in Seq(Step) /\ r # <<>> /\ Head(r) = "joinStop"
  BY <1>1, PlanTail, HasTail
<1> HIDE DEF r
<1>3. /\ Has(todo[t], "joinStop") /\ ~Has(todo[t], "joinShell")
  <2>1. Has(r, "joinStop")
    BY <1>2, HasTail
  <2>2. Has(todo[t], "joinStop")
    BY <1>1, <2>1, HasTail DEF r
  <2>3. "joinShell" \in Never("tellStop") /\ "joinShell" # "tellStop"
    BY DEF Never
  <2> QED
    BY <2>2, <2>3, DoesFacts
<1>4. \A y : Has(Tail(r), y) => Has(todo[t], y)
  BY <1>1, <1>2, HasTail DEF r
<1>5. \A y : y \notin WaitSteps /\ Has(todo[t], y) => Has(Tail(r), y)
  BY <1>1, <1>2, HasTail DEF r, WaitSteps
<1>6. \A y \in {"joinStop", "unhook", "forget"} : ~Does(t, y)'
  BY <1>2, PlanTail DEF r, Does
<1> QED
  BY <1>3, <1>4, <1>5, <1>6 DEF r

(* A step of another thread than the GUI thread, which is not setting up    *)
(* then, or is before its join.                                            *)
LEMMA SetupOther ==
  ASSUME DebugInv, NEW t \in Threads \ {Gui}, todo[t] # <<>> \/ gdb # "off",
         todo'[Gui] = todo[Gui], up' = up
  PROVE  SetupInv'
<1>1. ~(Setting(todo[Gui]) /\ ~Has(todo[Gui], "joinStop"))
  BY DEF DebugInv, SetupInv, Quiet, Threads
<1>2. Ending(Gui)' <=> Ending(Gui)
  BY DEF Ending
<1> QED
  BY <1>1, <1>2 DEF DebugInv, SetupInv, Setting

(* A step of the GUI thread that goes on to the next. *)
LEMMA SetupDone ==
  ASSUME DebugInv, PlanInv', NEW x, Does(Gui, x), x # "spawn", Done(Gui),
         up' = up \/ x = "create", x = "joinShell" => ~up, x = "joinStop" => Quiet,
         gdb' \in {gdb, "off"} \/ gdb # "off" \/ x = "send",
         debugging' = debugging \/ x \in {"forget", "flag"}, x = "flag" => debugging'
  PROVE  SetupInv'
<1> DEFINE s == todo[Gui]
           r == todo'[Gui]
<1>1. PlanInv /\ SetupInv /\ ShellInv
  BY DEF DebugInv
<1>2. /\ r = Tail(s) /\ \A u \in Threads : u # Gui => todo'[u] = todo[u]
  BY <1>1, Distinct DEF Done, PlanInv
<1>3. /\ \A y : Has(r, y) => Has(s, y)
      /\ \A y : y # x /\ Has(s, y) => Has(r, y)
      /\ \A y \in Never(x) : ~Has(r, y)
  BY <1>1, <1>2, Distinct, DoneFacts
<1>4. Has(s, x) /\ \A y \in Never(x) : y # x => ~Has(s, y)
  BY <1>1, Distinct, DoesFacts
<1>5. /\ Has(r, "joinStop") /\ ~Has(r, "joinShell") /\ ~Has(r, "spawn") => ~up'
  BY <1>1, <1>3 DEF SetupInv, Never
<1>6. (Setting(r) => Setting(s)) /\ (Setting(s) => ~Ending(Gui)) /\ (Ending(Gui)' => Ending(Gui))
  <2>1. Setting(r) => Setting(s)
    BY <1>3 DEF Setting
  <2>2. Ending(Gui)' => Ending(Gui)
    BY <1>1, <1>3, Distinct, EndingHas, EndingNext
  <2> QED
    BY <1>1, <2>1, <2>2 DEF SetupInv
<1>7. ASSUME Setting(r), ~Has(r, "joinStop")
      PROVE  Quiet' /\ gdb' = "off" /\ todo'[Reader] = <<>>
  <2>1. Quiet /\ gdb = "off" /\ todo[Reader] = <<>>
    <3>1. CASE ~Has(s, "joinStop")
      BY <1>1, <1>6, <1>7, <3>1 DEF SetupInv
    <3>2. CASE Has(s, "joinStop")
      <4>1. x = "joinStop"
        BY <1>3, <1>7, <3>2
      <4>2. ~Has(s, "joinShell")
        BY <1>4, <4>1 DEF Never
      <4>3. ~Has(s, "spawn")
        BY <1>1, <1>6, <1>7, Distinct, EndingHas
      <4>4. ~up
        BY <1>1, <3>2, <4>2, <4>3 DEF SetupInv
      <4> QED
        BY <1>1, <4>1, <4>4 DEF ShellInv
    <3> QED
      BY <3>1, <3>2
  <2>2. x # "send"
    BY <1>3, <1>7 DEF Never, Setting
  <2> QED
    BY <1>2, <2>1, <2>2, Distinct DEF Quiet
<1>8. ASSUME Has(r, "launch"), ~Has(r, "flag")
      PROVE  debugging' /\ ~Has(r, "joinStop") /\ ~Has(r, "forget")
  <2>1. CASE x = "flag"
    BY <1>3, <2>1 DEF Never
  <2>2. CASE x # "flag"
    <3>1. debugging /\ ~Has(s, "joinStop") /\ ~Has(s, "forget")
      BY <1>1, <1>3, <1>8, <2>2 DEF SetupInv
    <3> QED
      BY <1>3, <1>4, <2>2, <3>1
  <2> QED
    BY <2>1, <2>2
<1> HIDE DEF r, s
<1> QED
  BY <1>5, <1>6, <1>7, <1>8 DEF SetupInv, r

LEMMA StopDone ==
  ASSUME DebugInv, PlanInv', NEW t \in Threads, NEW x, Does(t, x), x # "spawn", Done(t),
         handle' = handle \/ Quiet, cause' = cause, session' = session \/ Quiet,
         target'[Gui] = target[Gui] \/ t = Gui,
         t = Gui /\ x = "tellStop" => target'[Gui] = handle, x = "tellStop" => handle' = handle,
         handle' = handle \/ t = Gui \/ t = Reader
  PROVE  StopInv'
<1>1. PlanInv /\ StopInv /\ SetupInv /\ ShellInv
  BY DEF DebugInv
<1>2. todo'[t] = Tail(todo[t]) /\ \A u \in Threads : u # t => todo'[u] = todo[u]
  BY <1>1, Distinct DEF Done, PlanInv
<1>3. /\ \A y : Has(todo'[t], y) => Has(todo[t], y)
      /\ \A y : y # x /\ Has(todo[t], y) => Has(todo'[t], y)
      /\ Does(t, "joinStop")' => x = "tellStop"
  BY <1>1, <1>2, DoneFacts
<1>4. \A u \in Threads : \A y : Has(todo'[u], y) => Has(todo[u], y)
  BY <1>2, <1>3
<1>5. Quiet => Quiet'
  <2>1. todo[t] # <<>>
    BY DEF Does
  <2> QED
    BY <1>2, <2>1, Distinct DEF Quiet
<1>6. ~(Ending(Gui)' /\ Ending(Reader)')
  BY <1>1, <1>4, Distinct, EndingHas, EndingNext DEF StopInv
<1>7. \A u \in {Gui, Reader} : Has(todo'[u], "spawn") => Quiet'
  BY <1>1, <1>4, <1>5, Distinct DEF StopInv
<1>8. Has(todo'[Reader], "joinStop") => Has(todo'[Reader], "spawn")
  BY <1>1, <1>2, <1>3, Distinct DEF StopInv
<1>9. ASSUME Does(Gui, "joinStop")', ~Has(todo'[Gui], "spawn")
      PROVE  target'[Gui] = handle'
  <2>1. CASE t = Gui
    BY <1>3, <1>9, <2>1
  <2>2. CASE t # Gui
    <3>1. Does(Gui, "joinStop") /\ ~Has(todo[Gui], "spawn")
      BY <1>2, <1>9, <2>2, Distinct DEF Does
    <3>2. ~up
      BY <1>1, <3>1, Distinct, DoesFacts DEF SetupInv, Never
    <3>3. todo[Reader] = <<>>
      BY <1>1, <3>2 DEF ShellInv
    <3>4. handle' = handle
      BY <2>2, <3>3 DEF Does
    <3> QED
      BY <1>1, <2>2, <3>1, <3>4 DEF StopInv
  <2> QED
    BY <2>1, <2>2
<1>10. ASSUME NEW k \in Stops, todo'[k] # <<>> PROVE k = handle' /\ cause'[k] = session'
  <2>1. ~Quiet
    BY <1>5, <1>10 DEF Quiet
  <2>2. todo[k] # <<>>
    BY <1>2, <1>10, Distinct DEF Does
  <2> QED
    BY <1>1, <2>1, <2>2 DEF StopInv
<1>11. Quiet' <=> \A k \in Stops : todo'[k] = <<>>
  BY DEF Quiet
<1> QED
  BY <1>6, <1>7, <1>8, <1>9, <1>10, <1>11 DEF StopInv

LEMMA ViewDone ==
  ASSUME DebugInv, NEW t \in Threads, NEW x, Does(t, x), x \notin {"launch", "spawn"}, Done(t),
         views' = views \/ (x = "kill" /\ views' = "closed"),
         debugging' = debugging \/ debugging' \/ x = "forget",
         x = "kill" => views' = "closed"
  PROVE  ViewInv'
<1>1. PlanInv /\ ViewInv /\ views \in {"open", "closed"}
  BY DEF DebugInv, TypeOK
<1>2. todo'[t] = Tail(todo[t]) /\ \A u \in Threads : u # t => todo'[u] = todo[u]
  BY <1>1, Distinct DEF Done, PlanInv
<1>3. (Does(t, "unhook")' => x = "kill") /\ (Does(t, "forget")' => x = "unhook")
  BY <1>1, <1>2, DoneFacts
<1>4. views' = "open" => debugging'
  BY <1>1 DEF ViewInv
<1>5. ASSUME NEW u \in Threads, Does(u, "unhook")' \/ Does(u, "forget")'
      PROVE  views' = "closed"
  <2>1. CASE u = t
    BY <1>1, <1>3, <1>5, <2>1 DEF ViewInv
  <2>2. CASE u # t
    <3>1. Does(u, "unhook") \/ Does(u, "forget")
      BY <1>2, <1>5, <2>2 DEF Does
    <3> QED
      BY <1>1, <3>1 DEF ViewInv
  <2> QED
    BY <2>1, <2>2
<1> QED
  BY <1>4, <1>5 DEF ViewInv

(* Whoever joins the stop thread knows it: afterwards there is none.        *)
LEMMA JoinedQuiet ==
  ASSUME DebugInv, NEW t \in Threads, StopJoined(t)
  PROVE  Quiet /\ t \in {Gui, Reader}
<1>1. PlanInv /\ StopInv
  BY DEF DebugInv
<1>2. Does(t, "joinStop") /\ ~Alive(target[t])
  BY DEF StopJoined
<1>3. t \in {Gui, Reader}
  BY <1>1, <1>2, StopsOnlyStop DEF Threads, Step, StopStep
<1>4. CASE Has(todo[t], "spawn")
  BY <1>1, <1>3, <1>4 DEF StopInv
<1>5. CASE ~Has(todo[t], "spawn")
  <2>1. t = Gui
    BY <1>1, <1>2, <1>3, <1>5, DoesFacts DEF StopInv
  <2>2. target[Gui] = handle
    BY <1>1, <1>2, <1>5, <2>1 DEF StopInv
  <2>3. ASSUME NEW k \in Stops, todo[k] # <<>> PROVE FALSE
    BY <1>1, <1>2, <2>1, <2>2, <2>3, Distinct DEF StopInv, Alive
  <2> QED
    BY <1>3, <2>3 DEF Quiet
<1> QED
  BY <1>3, <1>4, <1>5

-----------------------------------------------------------------------------
(* The ways a step changes what the threads have to do.                    *)
SessionInv == SetupInv /\ StopInv /\ ViewInv

(* It goes on to the next ... *)
LEMMA DoneStep ==
  ASSUME DebugInv, PlanInv', NEW t \in Threads, NEW x, Does(t, x), Done(t),
         x \notin {"spawn", "launch"}, x = "flag" => t = Gui,
         up' = up \/ (t = Gui /\ x = "create"), x = "joinShell" => ~up,
         x = "joinStop" => Quiet, gdb' \in {gdb, "off"} \/ gdb # "off" \/ x = "send",
         handle' = handle \/ (x = "joinStop" /\ t \in {Gui, Reader}), cause' = cause,
         session' = session \/ Quiet,
         target'[Gui] = target[Gui] \/ t = Gui,
         t = Gui /\ x = "tellStop" => target'[Gui] = handle,
         views' = IF x = "kill" THEN "closed" ELSE views,
         debugging' = ((debugging \/ x = "flag") /\ x # "forget")
  PROVE  SessionInv'
<1>0. debugging \in BOOLEAN
  BY DEF DebugInv, TypeOK
<1>1. SetupInv'
  <2>1. CASE t = Gui
    <3>1. /\ debugging' = debugging \/ x \in {"forget", "flag"}
          /\ x = "flag" => debugging'
      BY <1>0
    <3> QED
      BY <1>0, <2>1, <3>1, SetupDone
  <2>2. CASE t # Gui
    <3>1. todo'[Gui] = todo[Gui] /\ up' = up /\ todo[t] # <<>>
      BY <2>2, Distinct DEF DebugInv, PlanInv, Done, Does
    <3> QED
      BY <2>2, <3>1, SetupOther
  <2> QED
    BY <2>1, <2>2
<1>2. StopInv'
  BY StopDone
<1>3. ViewInv'
  <2>1. debugging' = debugging \/ debugging' \/ x = "forget"
    BY <1>0
  <2> QED
    BY <2>1, ViewDone
<1> QED
  BY <1>1, <1>2, <1>3 DEF SessionInv

(* ... the GUI thread begins a function, or gives up what it was doing ...   *)
LEMMA GuiBegins ==
  ASSUME DebugInv, PlanInv', NEW q, NEW f, NEW Q, IsFunction(q, f, Q), Instead(Gui, q),
         f \in {"tellShell", "signal", "exit"}, "spawn" \notin Q,
         "joinStop" \in Q => "joinShell" \in Q,
         Q \intersect {"flag", "run", "launch"} # {} =>
           "joinStop" \in Q /\ "exit" \notin Q /\ "check" \notin Q,
         "launch" \in Q => "flag" \in Q,
         "exit" \in Q \/ "check" \in Q => ~Ending(Reader),
         UNCHANGED <<target, shell, flags, ender, session>>
  PROVE  SessionInv'
<1>1. PlanInv /\ SetupInv /\ StopInv /\ ViewInv
  BY DEF DebugInv
<1>2. /\ todo'[Gui] = q /\ \A u \in Threads : u # Gui => todo'[u] = todo[u]
      /\ q # <<>> /\ Head(q) = f /\ \A x : Has(q, x) <=> x \in Q
  BY <1>1, Distinct DEF PlanInv, Instead, IsFunction
<1>3. UNCHANGED <<target, up, gdb, debugging, views, handle, cause, session>>
  BY DEF shell, flags, ender
<1>4. \A x \in {"joinStop", "unhook", "forget"} : ~Does(Gui, x)'
  BY <1>2 DEF Does
<1>5. Ending(Gui)' <=> "exit" \in Q \/ "check" \in Q
  BY <1>2, Distinct, EndingNext
<1>6. Ending(Reader)' <=> Ending(Reader)
  BY <1>1, <1>2, Distinct, EndingHas, EndingNext
<1>7. Setting(q) => Q \intersect {"flag", "run", "launch"} # {}
  BY <1>2 DEF Setting
<1>8. SetupInv'
  BY <1>2, <1>4, <1>5, <1>7 DEF SetupInv
<1>9. StopInv'
  <2>1. Quiet' <=> Quiet
    BY <1>2, Distinct DEF Quiet
  <2>2. \A u \in {Gui, Reader} : Has(todo'[u], "spawn") => Quiet'
    BY <1>1, <1>2, <2>1, Distinct DEF StopInv
  <2>3. Has(todo'[Reader], "joinStop") => Has(todo'[Reader], "spawn")
    BY <1>1, <1>2, Distinct DEF StopInv
  <2>4. \A k \in Stops : todo'[k] # <<>> => k = handle' /\ cause'[k] = session'
    BY <1>1, <1>2, <1>3, Distinct DEF StopInv
  <2> QED
    BY <1>4, <1>5, <1>6, <2>2, <2>3, <2>4 DEF StopInv
<1>10. ViewInv'
  <2>1. \A u \in Threads : u # Gui =>
           (Does(u, "unhook")' <=> Does(u, "unhook")) /\ (Does(u, "forget")' <=> Does(u, "forget"))
    BY <1>2 DEF Does
  <2> QED
    BY <1>1, <1>3, <1>4, <2>1 DEF ViewInv
<1> QED
  BY <1>8, <1>9, <1>10 DEF SessionInv

(* ... the shell thread begins one, while there is a debugger ...           *)
LEMMA ReaderBegins ==
  ASSUME DebugInv, PlanInv', NEW q, NEW f, NEW Q, IsFunction(q, f, Q), Instead(Reader, q),
         todo[Reader] = <<>>, gdb # "off", f \in {"exit", "kill"},
         "spawn" \notin Q, "joinStop" \notin Q,
         "exit" \in Q \/ "check" \in Q => ~Ending(Gui),
         UNCHANGED <<target, up, flags, ender, session>>
  PROVE  SessionInv'
<1>1. PlanInv /\ SetupInv /\ StopInv /\ ViewInv
  BY DEF DebugInv
<1>2. /\ todo'[Reader] = q /\ \A u \in Threads : u # Reader => todo'[u] = todo[u]
      /\ q # <<>> /\ Head(q) = f /\ \A x : Has(q, x) <=> x \in Q
  BY <1>1, Distinct DEF PlanInv, Instead, IsFunction
<1>3. UNCHANGED <<target, up, debugging, views, handle, cause, session>>
  BY DEF flags, ender
<1>4. Ending(Reader)' <=> "exit" \in Q \/ "check" \in Q
  BY <1>2, Distinct, EndingNext
<1>5. Ending(Gui)' <=> Ending(Gui)
  BY <1>1, <1>2, Distinct, EndingHas, EndingNext
<1>6. \A u \in Threads : \A x : u # Reader => (Does(u, x)' <=> Does(u, x))
  BY <1>2 DEF Does
<1>7. SetupInv'
  BY <1>2, <1>3, Distinct, SetupOther
<1>8. StopInv'
  <2>1. Quiet' <=> Quiet
    BY <1>2, Distinct DEF Quiet
  <2>2. \A u \in {Gui, Reader} : Has(todo'[u], "spawn") => Quiet'
    BY <1>1, <1>2, <2>1, Distinct DEF StopInv
  <2>3. Does(Gui, "joinStop")' /\ ~Has(todo'[Gui], "spawn") => target'[Gui] = handle'
    BY <1>1, <1>2, <1>3, <1>6, Distinct DEF StopInv
  <2>4. \A k \in Stops : todo'[k] # <<>> => k = handle' /\ cause'[k] = session'
    BY <1>1, <1>2, <1>3, Distinct DEF StopInv
  <2> QED
    BY <1>2, <1>4, <1>5, <2>2, <2>3, <2>4 DEF StopInv
<1>9. ViewInv'
  <2>1. ~Does(Reader, "unhook")' /\ ~Does(Reader, "forget")'
    BY <1>2 DEF Does
  <2> QED
    BY <1>1, <1>3, <1>6, <2>1 DEF ViewInv
<1> QED
  BY <1>7, <1>8, <1>9 DEF SessionInv

(* ... or nothing at all: a shell thread ends, logs in or hears a prompt.   *)
LEMMA Still ==
  ASSUME DebugInv, todo' = todo, up' = up \/ ~up',
         gdb' \in {gdb, "off"} \/ gdb # "off",
         UNCHANGED <<target, debugging, views, ender, session>>
  PROVE  SessionInv'
<1>1. PlanInv /\ SetupInv /\ StopInv /\ ViewInv
  BY DEF DebugInv
<1>2. SetupInv'
  BY <1>1 DEF SetupInv, Ending, Does, Quiet
<1>3. StopInv'
  BY <1>1 DEF StopInv, Ending, Does, Quiet, ender
<1>4. ViewInv'
  BY <1>1 DEF ViewInv, Does
<1> QED
  BY <1>2, <1>3, <1>4 DEF SessionInv

-----------------------------------------------------------------------------
(* The steps of the four kinds of threads keep the invariant, when sessions *)
(* are not maintained and ProgramStop() does not overlap with itself.       *)

LEMMA SessionUser ==
  ASSUME DebugInv, PlanInv', ~Maintain, ~Overlap, User
  PROVE  SessionInv'
<1> USE DEF StopSteps, ShellSteps, WaitSteps, ClearSteps, AttachSteps, RunSteps
<1>1. CASE Debug
  BY <1>1, DebugPlan, GuiBegins DEF Debug
<1>2. CASE RunProgram
  BY <1>2, RunProgramPlan, GuiBegins DEF RunProgram
<1>3. CASE End
  BY <1>3, ProgramStopPlan, GuiBegins DEF End
<1>4. CASE Abandon
  BY <1>4, AbandonPlan, GuiBegins DEF Abandon
<1> QED
  BY <1>1, <1>2, <1>3, <1>4 DEF User

(* Without a stop thread there is nothing to join. *)
LEMMA SessionSkip ==
  ASSUME DebugInv, PlanInv', NEW t \in Threads, TellStop(t), handle = None
  PROVE  SessionInv'
<1> DEFINE s == todo[Gui]
           r == todo'[Gui]
<1>1. PlanInv /\ SetupInv /\ StopInv /\ ViewInv /\ ShellInv
  BY DEF DebugInv
<1>2. /\ Does(t, "tellStop") /\ todo'[t] = Tail(Tail(todo[t]))
      /\ \A u \in Threads : u # t => todo'[u] = todo[u]
      /\ UNCHANGED <<target, up, gdb, debugging, views, handle, cause, session>>
  BY <1>1 DEF TellStop, PlanInv, shell, flags, ender
<1>3. /\ Has(todo[t], "joinStop") /\ ~Has(todo[t], "joinShell")
      /\ \A y : Has(todo'[t], y) => Has(todo[t], y)
      /\ \A y : y \notin WaitSteps /\ Has(todo[t], y) => Has(todo'[t], y)
      /\ \A y \in {"joinStop", "unhook", "forget"} : ~Does(t, y)'
  BY <1>1, <1>2, SkipFacts
<1>4. \A k \in Stops : todo[k] = <<>> /\ todo'[k] = <<>>
  <2>1. \A k \in Stops : todo[k] = <<>>
    BY <1>1, Distinct DEF StopInv
  <2>2. t \notin Stops
    BY <1>2, <2>1 DEF Does
  <2> QED
    BY <1>2, <2>1, <2>2, Distinct
<1>5. \A u \in Threads : \A y :
        /\ Has(todo'[u], y) => Has(todo[u], y)
        /\ y \notin WaitSteps /\ Has(todo[u], y) => Has(todo'[u], y)
  BY <1>2, <1>3
<1>6. \A u \in {Gui, Reader} : Ending(u)' <=> Ending(u)
  BY <1>1, <1>5, Distinct, EndingHas, EndingNext DEF WaitSteps
<1>7. SetupInv'
  <2>1. CASE t # Gui
    <3>1. todo[t] # <<>> /\ todo'[Gui] = todo[Gui]
      BY <1>2, <2>1, Distinct DEF Does
    <3> QED
      BY <1>2, <2>1, <3>1, SetupOther
  <2>2. CASE t = Gui
    <3>1. /\ \A y : Has(r, y) => Has(s, y)
          /\ \A y : y \notin WaitSteps /\ Has(s, y) => Has(r, y)
          /\ Has(s, "joinStop") /\ ~Has(s, "joinShell")
      BY <1>3, <2>2
    <3>2. ~Has(s, "spawn") => ~up
      BY <1>1, <3>1 DEF SetupInv
    <3>3. Setting(r) => Setting(s) /\ ~Has(s, "spawn")
      BY <1>1, <3>1, Distinct, EndingHas DEF Setting, SetupInv
    <3>4. Setting(r) => Quiet' /\ gdb' = "off" /\ todo'[Reader] = <<>>
      BY <1>1, <1>2, <1>4, <2>2, <3>2, <3>3, Distinct DEF Quiet, ShellInv
    <3>5. Setting(r) => ~Ending(Gui)'
      BY <1>1, <1>6, <3>3 DEF SetupInv
    <3>6. ~(Has(r, "launch") /\ ~Has(r, "flag"))
      BY <1>1, <3>1 DEF SetupInv, WaitSteps
    <3>7. Has(s, "spawn") => Has(r, "spawn")
      BY <3>1 DEF WaitSteps
    <3> HIDE DEF r, s
    <3>9. Has(r, "joinStop") /\ ~Has(r, "joinShell") /\ ~Has(r, "spawn") => ~up'
      BY <1>2, <3>2, <3>7
    <3> QED
      BY <3>4, <3>5, <3>6, <3>9 DEF SetupInv, r
  <2> QED
    BY <2>1, <2>2
<1>8. StopInv'
  <2>1. ~(Ending(Gui)' /\ Ending(Reader)')
    BY <1>1, <1>6 DEF StopInv
  <2>2. Quiet'
    BY <1>4 DEF Quiet
  <2>3. Has(todo'[Reader], "joinStop") => Has(todo'[Reader], "spawn")
    BY <1>1, <1>5, Distinct DEF StopInv, WaitSteps
  <2>4. Does(Gui, "joinStop")' /\ ~Has(todo'[Gui], "spawn") => target'[Gui] = handle'
    <3>1. CASE t = Gui
      BY <1>3, <3>1
    <3>2. CASE t # Gui
      BY <1>1, <1>2, <3>2, Distinct DEF StopInv, Does
    <3> QED
      BY <3>1, <3>2
  <2>5. \A k \in Stops : todo'[k] # <<>> => k = handle' /\ cause'[k] = session'
    BY <1>4
  <2> QED
    BY <2>1, <2>2, <2>3, <2>4, <2>5 DEF StopInv
<1>9. ViewInv'
  <2>1. \A u \in Threads : u # t =>
          (Does(u, "unhook")' <=> Does(u, "unhook")) /\ (Does(u, "forget")' <=> Does(u, "forget"))
    BY <1>2 DEF Does
  <2> QED
    BY <1>1, <1>2, <1>3, <2>1 DEF ViewInv
<1> QED
  BY <1>7, <1>8, <1>9 DEF SessionInv

LEMMA SessionCleaning ==
  ASSUME DebugInv, PlanInv', NEW t \in Threads, Cleaning(t)
  PROVE  SessionInv'
<1> USE DEF shell, flags, ender
<1>0. /\ PlanInv /\ TypeOK /\ ViewInv /\ debugging \in BOOLEAN
      /\ views \in {"open", "closed"} /\ target \in [Threads -> Stops \union {None}]
  BY DEF DebugInv, TypeOK
<1>1. CASE Signal(t)
  BY <1>0, <1>1, DoneStep DEF Signal
<1>2. CASE TellShell(t)
  BY <1>0, <1>2, DoneStep DEF TellShell
<1>3. CASE ShellJoined(t)
  BY <1>0, <1>3, DoneStep DEF ShellJoined
<1>4. CASE TellStop(t)
  <2>1. CASE handle = None
    BY <1>4, <2>1, SessionSkip
  <2>2. CASE handle # None
    <3>1. /\ Does(t, "tellStop") /\ Done(t) /\ UNCHANGED <<shell, flags, ender, session>>
          /\ target'[Gui] = target[Gui] \/ t = Gui
          /\ t = Gui => target'[Gui] = handle
      BY <1>0, <1>4, <2>2, Distinct DEF TellStop
    <3> QED
      BY <1>0, <3>1, DoneStep
  <2> QED
    BY <2>1, <2>2
<1>5. CASE StopJoined(t)
  <2>1. Quiet /\ t \in {Gui, Reader}
    BY <1>5, JoinedQuiet
  <2>2. target'[Gui] = target[Gui] \/ t = Gui
    BY <1>0, <1>5, Distinct DEF StopJoined
  <2> QED
    BY <1>0, <1>5, <2>1, <2>2, DoneStep DEF StopJoined
<1>6. CASE Kill(t)
  <2>1. views' = "closed"
    BY <1>0, <1>6 DEF Kill, ViewInv
  <2> QED
    BY <1>0, <1>6, <2>1, DoneStep DEF Kill
<1>7. CASE Unhook(t)
  BY <1>0, <1>7, DoneStep DEF Unhook
<1>8. CASE Forget(t)
  BY <1>0, <1>8, DoneStep DEF Forget
<1> QED
  BY <1>1, <1>2, <1>3, <1>4, <1>5, <1>6, <1>7, <1>8 DEF Cleaning

(* A stop thread is created after the one before it has been joined. *)
LEMMA SessionCheck ==
  ASSUME DebugInv, PlanInv', NEW t \in {Gui, Reader}, Check(t), ~Alive(handle)
  PROVE  SessionInv'
<1> DEFINE q == JoinStop \o <<"spawn">>
<1>1. /\ PlanInv /\ SetupInv /\ StopInv /\ ViewInv
      /\ t \in Threads /\ t \notin Stops
  BY Distinct DEF DebugInv
<1>2. /\ Does(t, "check") /\ todo'[t] = q \o Tail(todo[t])
      /\ \A u \in Threads : u # t => todo'[u] = todo[u]
      /\ UNCHANGED <<target, up, gdb, debugging, views, handle, cause, session>>
  BY <1>1 DEF Check, PlanInv, First, shell, flags, ender
<1>3. Tail(todo[t]) = <<>> /\ Has(todo[t], "check") /\ \A x : Has(todo[t], x) => x = "check"
  BY <1>1, <1>2, Planned, PlanTail, HasTail, HasNone DEF Does, Last
<1>4. IsFunction(q, "tellStop", WaitSteps \union {"spawn"})
  BY SpawnPlan
<1> HIDE DEF q
<1>5. /\ \A x : Has(todo'[t], x) <=> x \in WaitSteps \union {"spawn"}
      /\ todo'[t] # <<>> /\ Head(todo'[t]) = "tellStop"
  <2>1. (WaitSteps \union {"spawn"}) \intersect Last = {} /\ "check" \in Last
    BY DEF WaitSteps, Last
  <2>2. /\ \A x : Has(q \o Tail(todo[t]), x) <=>
               x \in WaitSteps \union {"spawn"} \/ Has(Tail(todo[t]), x)
        /\ q \o Tail(todo[t]) # <<>> /\ Head(q \o Tail(todo[t])) = "tellStop"
    <3> DEFINE Q == WaitSteps \union {"spawn"}
    <3>1. /\ IsFunction(q, "tellStop", Q) /\ Q \intersect Last = {}
          /\ "check" \in Last \union {"connect"} /\ "check" # "connect"
      BY <1>4, <2>1
    <3> HIDE DEF Q
    <3>2. /\ \A x : Has(q \o Tail(todo[t]), x) <=> x \in Q \/ Has(Tail(todo[t]), x)
          /\ q \o Tail(todo[t]) # <<>> /\ Head(q \o Tail(todo[t])) = "tellStop"
      BY <1>1, <1>2, <3>1, CallPlan
    <3> QED
      BY <3>2 DEF Q
  <2> QED
    BY <1>2, <1>3, <2>2, HasNone
<1>6. Quiet /\ Quiet'
  <2>1. \A k \in Stops : todo[k] = <<>>
    BY <1>1, Distinct DEF StopInv, Alive
  <2> QED
    BY <1>1, <1>2, <2>1, Distinct DEF Quiet
<1>7. Ending(t) /\ \A u \in Threads : u # t => (Ending(u)' <=> Ending(u))
  BY <1>1, <1>2, <1>3, EndingHas, EndingNext
<1>8. SetupInv'
  <2>1. CASE t = Gui
    <3>1. /\ \A x \in {"flag", "run", "launch"} : ~Has(todo'[Gui], x)
          /\ Has(todo'[Gui], "spawn")
      BY <1>5, <2>1 DEF WaitSteps, Does
    <3> QED
      BY <3>1 DEF SetupInv, Setting
  <2>2. CASE t # Gui
    BY <1>1, <1>2, <2>2, Distinct, SetupOther DEF Does
  <2> QED
    BY <2>1, <2>2
<1>9. StopInv'
  <2>1. ~(Ending(Gui)' /\ Ending(Reader)')
    BY <1>1, <1>7, Distinct DEF StopInv
  <2>2. Has(todo'[Reader], "joinStop") => Has(todo'[Reader], "spawn")
    BY <1>1, <1>2, <1>5, Distinct DEF StopInv
  <2>3. Does(Gui, "joinStop")' /\ ~Has(todo'[Gui], "spawn") => target'[Gui] = handle'
    <3>1. CASE t = Gui
      BY <1>5, <3>1 DEF Does
    <3>2. CASE t # Gui
      BY <1>1, <1>2, <3>2, Distinct DEF StopInv, Does
    <3> QED
      BY <3>1, <3>2
  <2> QED
    BY <1>6, <2>1, <2>2, <2>3 DEF StopInv, Quiet
<1>10. ViewInv'
  <2>1. \A u \in Threads : u # t =>
          (Does(u, "unhook")' <=> Does(u, "unhook")) /\ (Does(u, "forget")' <=> Does(u, "forget"))
    BY <1>2 DEF Does
  <2>2. ~Does(t, "unhook")' /\ ~Does(t, "forget")'
    BY <1>5 DEF Does
  <2> QED
    BY <1>1, <1>2, <2>1, <2>2 DEF ViewInv
<1> QED
  BY <1>8, <1>9, <1>10 DEF SessionInv

LEMMA SessionSpawn ==
  ASSUME DebugInv, PlanInv', NEW t \in {Gui, Reader}, Spawn(t)
  PROVE  SessionInv'
<1>1. /\ PlanInv /\ SetupInv /\ StopInv /\ ViewInv /\ ShellInv
      /\ t \in Threads /\ t \notin Stops
  BY Distinct DEF DebugInv
<1>2. PICK k \in Stops :
        /\ cause' = [cause EXCEPT ![k] = session] /\ handle' = k
        /\ todo' = [todo EXCEPT ![t] = Tail(@), ![k] = <<"watch">>]
  BY DEF Spawn
<1>3. /\ Does(t, "spawn") /\ k \in Threads /\ k # t /\ k # Gui /\ k # Reader
      /\ UNCHANGED <<target, up, gdb, debugging, views, session>>
  BY <1>1, Distinct DEF Spawn, shell, flags
<1>4. /\ todo'[t] = Tail(todo[t]) /\ todo'[k] = <<"watch">>
      /\ \A u \in Threads : u # t /\ u # k => todo'[u] = todo[u]
  BY <1>1, <1>2, <1>3 DEF PlanInv
<1>5. /\ \A y : Has(todo'[t], y) => Has(todo[t], y)
      /\ \A y : y # "spawn" /\ Has(todo[t], y) => Has(todo'[t], y)
      /\ \A y \in {"joinStop", "spawn"} : ~Has(todo'[t], y)
      /\ \A y \in {"joinStop", "unhook", "forget"} : ~Does(t, y)'
  BY <1>1, <1>3, <1>4, DoneFacts DEF Never
<1>6. Has(todo[t], "spawn") /\ Quiet /\ Ending(t) /\ todo[t] # <<>>
  BY <1>1, <1>3, DoesFacts, EndingHas DEF StopInv
<1>7. \A u \in {Gui, Reader} : Ending(u)' => Ending(u)
  <2>1. \A u \in {Gui, Reader} : \A y : Has(todo'[u], y) => Has(todo[u], y)
    BY <1>3, <1>4, <1>5, Distinct
  <2> QED
    BY <1>1, <2>1, Distinct, EndingHas, EndingNext
<1>8. SetupInv'
  <2>1. CASE t = Gui
    <3>1. ~Setting(todo[Gui])
      BY <1>1, <1>6, <2>1 DEF SetupInv
    <3>2. ~Setting(todo'[Gui])
      BY <1>5, <2>1, <3>1 DEF Setting
    <3>3. ~Has(todo'[Gui], "launch")
      BY <3>2 DEF Setting
    <3> QED
      BY <1>5, <2>1, <3>2, <3>3 DEF SetupInv
  <2>2. CASE t # Gui
    BY <1>1, <1>3, <1>4, <1>6, <2>2, Distinct, SetupOther
  <2> QED
    BY <2>1, <2>2
<1>9. StopInv'
  <2>1. ~(Ending(Gui)' /\ Ending(Reader)')
    BY <1>1, <1>7 DEF StopInv
  <2>2. \A u \in {Gui, Reader} : ~Has(todo'[u], "spawn")
    <3> SUFFICES ASSUME NEW u \in {Gui, Reader}, u # t PROVE ~Has(todo'[u], "spawn")
      BY <1>5
    <3>1. ~Ending(u)
      BY <1>1, <1>6 DEF StopInv
    <3> QED
      BY <1>1, <1>3, <1>4, <3>1, Distinct, EndingHas
  <2>3. ~Has(todo'[Reader], "joinStop")
    <3>1. CASE t = Reader
      BY <1>5, <3>1
    <3>2. CASE t # Reader
      <4>1. todo'[Reader] = todo[Reader]
        BY <1>3, <1>4, <3>2, Distinct
      <4> QED
        BY <1>1, <2>2, <4>1 DEF StopInv
    <3> QED
      BY <3>1, <3>2
  <2>4. ~Does(Gui, "joinStop")'
    <3>1. CASE t = Gui
      BY <1>5, <3>1
    <3>2. CASE t = Reader
      <4>1. SUFFICES ASSUME Does(Gui, "joinStop") PROVE FALSE
        BY <1>3, <1>4, <3>2, Distinct DEF Does
      <4>2. Has(todo[Gui], "joinStop") /\ ~Has(todo[Gui], "joinShell")
        BY <1>1, <4>1, Distinct, DoesFacts DEF Never
      <4>3. ~Has(todo[Gui], "spawn")
        BY <1>3, <1>4, <2>2, <3>2, Distinct
      <4>4. ~up
        BY <1>1, <4>2, <4>3 DEF SetupInv
      <4> QED
        BY <1>1, <1>6, <3>2, <4>4 DEF ShellInv
    <3> QED
      BY <3>1, <3>2
  <2>5. ASSUME NEW j \in Stops, todo'[j] # <<>> PROVE j = handle' /\ cause'[j] = session'
    <3>1. j = k
      BY <1>1, <1>4, <1>6, <2>5, Distinct DEF Quiet
    <3>2. cause'[k] = session
      BY <1>2 DEF DebugInv, TypeOK
    <3> QED
      BY <1>2, <1>3, <3>1, <3>2
  <2> QED
    BY <2>1, <2>2, <2>3, <2>4, <2>5 DEF StopInv
<1>10. ViewInv'
  <2>1. \A u \in Threads : u # t /\ u # k =>
          (Does(u, "unhook")' <=> Does(u, "unhook")) /\ (Does(u, "forget")' <=> Does(u, "forget"))
    BY <1>4 DEF Does
  <2>2. ~Does(k, "unhook")' /\ ~Does(k, "forget")'
    BY <1>4 DEF Does
  <2> QED
    BY <1>1, <1>3, <1>5, <2>1, <2>2 DEF ViewInv
<1> QED
  BY <1>8, <1>9, <1>10 DEF SessionInv

LEMMA SessionEnding ==
  ASSUME DebugInv, PlanInv', NEW t \in Threads, Ends(t)
  PROVE  SessionInv'
<1> USE DEF shell, flags, ender
<1>0. PlanInv /\ debugging \in BOOLEAN
  BY DEF DebugInv, TypeOK
<1>1. t \in {Gui, Reader}
  BY <1>0, StopsOnlyStop DEF Ends, Exit, Check, Spawn, Step, StopStep, Threads
<1>2. CASE Exit(t)
  <2>1. gdb' = gdb \/ gdb # "off"
    BY <1>2 DEF Exit
  <2> QED
    BY <1>0, <1>2, <2>1, DoneStep DEF Exit
<1>3. CASE Check(t) /\ Alive(handle)
  <2>1. <<>> \o Tail(todo[t]) = Tail(todo[t])
    BY <1>0, <1>3, EmptyTail DEF Check, Does
  <2>2. Done(t)
    BY <1>3, <2>1 DEF Check, First, Done
  <2> QED
    BY <1>0, <1>3, <2>2, DoneStep DEF Check
<1>4. CASE Check(t) /\ ~Alive(handle)
  BY <1>1, <1>4, SessionCheck
<1>5. CASE Spawn(t)
  BY <1>1, <1>5, SessionSpawn
<1> QED
  BY <1>2, <1>3, <1>4, <1>5 DEF Ends

(* The stop thread is over with waiting. *)
LEMMA SessionWatch ==
  ASSUME DebugInv, PlanInv', NEW k \in Stops, Watch(k)
  PROVE  SessionInv'
<1>1. /\ PlanInv /\ SetupInv /\ StopInv /\ ViewInv
      /\ k \in Threads /\ k # Gui /\ k # Reader
  BY Distinct DEF DebugInv
<1>2. /\ Does(k, "watch") /\ todo[k] # <<>>
      /\ UNCHANGED <<target, up, gdb, debugging, views, handle, cause, session>>
  BY DEF Watch, Does, shell, flags, ender
<1>3. \A u \in Threads : u # k => todo'[u] = todo[u]
  BY <1>1 DEF Watch, First, PlanInv
<1>4. ~Does(k, "unhook")' /\ ~Does(k, "forget")'
  <2>1. ASSUME NEW q, NEW f, NEW Q, IsFunction(q, f, Q), Q \intersect Last = {},
               First(k, q), f \notin {"unhook", "forget"}
        PROVE  ~Does(k, "unhook")' /\ ~Does(k, "forget")'
    <3>1. "watch" \in Last \union {"connect"} /\ "watch" # "connect"
      BY DEF Last
    <3>2. /\ \A x : Has(q \o Tail(todo[k]), x) <=> x \in Q \/ Has(Tail(todo[k]), x)
          /\ q \o Tail(todo[k]) # <<>> /\ Head(q \o Tail(todo[k])) = f
      BY <1>1, <1>2, <2>1, <3>1, CallPlan
    <3>3. todo'[k] = q \o Tail(todo[k])
      BY <1>1, <2>1 DEF First, PlanInv
    <3> QED
      BY <2>1, <3>2, <3>3 DEF Does
  <2>2. CASE Busy
    BY <2>1, <2>2, SignalStopPlan DEF Watch, Last, ClearSteps
  <2>3. CASE ~Busy
    BY <2>1, <2>3, ClearLinkPlan DEF Watch, Last, ClearSteps
  <2> QED
    BY <2>2, <2>3
<1>5. todo'[Gui] = todo[Gui] /\ todo'[Reader] = todo[Reader]
  BY <1>1, <1>3, Distinct
<1>6. SetupInv'
  BY <1>1, <1>2, <1>5, SetupOther
<1>7. StopInv'
  <2>1. ~Quiet
    BY <1>2 DEF Quiet
  <2>2. \A u \in {Gui, Reader} : ~Has(todo'[u], "spawn")
    BY <1>1, <1>5, <2>1 DEF StopInv
  <2>3. ~(Ending(Gui)' /\ Ending(Reader)')
    BY <1>1, <1>5, Distinct, EndingHas, EndingNext DEF StopInv
  <2>4. ~Has(todo'[Reader], "joinStop")
    BY <1>1, <1>5, <2>2 DEF StopInv
  <2>5. Does(Gui, "joinStop")' /\ ~Has(todo'[Gui], "spawn") => target'[Gui] = handle'
    BY <1>1, <1>2, <1>5 DEF StopInv, Does
  <2>6. \A j \in Stops : todo'[j] # <<>> => j = handle' /\ cause'[j] = session'
    BY <1>1, <1>2, <1>3, Distinct DEF StopInv
  <2> QED
    BY <2>2, <2>3, <2>4, <2>5, <2>6 DEF StopInv
<1>8. ViewInv'
  <2>1. \A u \in Threads : u # k =>
          (Does(u, "unhook")' <=> Does(u, "unhook")) /\ (Does(u, "forget")' <=> Does(u, "forget"))
    BY <1>3 DEF Does
  <2> QED
    BY <1>1, <1>2, <1>4, <2>1 DEF ViewInv
<1> QED
  BY <1>6, <1>7, <1>8 DEF SessionInv

(* The next session is set up when all that ended the last one is over.     *)
LEMMA SettingUp ==
  ASSUME DebugInv, Does(Gui, "flag") \/ Does(Gui, "run") \/ Does(Gui, "launch")
  PROVE  /\ Quiet /\ gdb = "off" /\ todo[Reader] = <<>>
         /\ Does(Gui, "launch") => debugging
<1>1. PlanInv /\ SetupInv
  BY DEF DebugInv
<1>2. Setting(todo[Gui]) /\ ~Has(todo[Gui], "joinStop")
  BY <1>1, Distinct, DoesFacts DEF Setting, Never
<1>3. Does(Gui, "launch") => Has(todo[Gui], "launch") /\ ~Has(todo[Gui], "flag")
  BY <1>1, Distinct, DoesFacts DEF Never
<1> QED
  BY <1>1, <1>2, <1>3 DEF SetupInv

(* The views are opened for the session that has begun. *)
LEMMA SessionLaunch ==
  ASSUME DebugInv, PlanInv', Launch
  PROVE  SessionInv'
<1>1. /\ PlanInv /\ ViewInv
      /\ Does(Gui, "launch") /\ Done(Gui) /\ views' = "open"
      /\ UNCHANGED <<target, up, gdb, debugging, handle, cause, session>>
  BY DEF DebugInv, Launch, shell, ender
<1>2. Quiet /\ todo[Reader] = <<>> /\ debugging
  BY <1>1, SettingUp
<1>3. /\ todo'[Gui] = Tail(todo[Gui]) /\ \A u \in Threads : u # Gui => todo'[u] = todo[u]
  BY <1>1, Distinct DEF Done, PlanInv
<1>4. ~Does(Gui, "unhook")' /\ ~Does(Gui, "forget")'
  BY <1>1, <1>3, Distinct, DoneFacts
<1>5. \A u \in Threads : u # Gui => todo'[u] = <<>>
  BY <1>2, <1>3 DEF Quiet, Threads
<1>6. ViewInv'
  BY <1>1, <1>2, <1>4, <1>5 DEF ViewInv, Does
<1>7. SetupInv'
  BY <1>1, SetupDone
<1>8. StopInv'
  BY <1>1, Distinct, StopDone
<1> QED
  BY <1>6, <1>7, <1>8 DEF SessionInv

(* The connection is made, if there is none. *)
LEMMA SessionConnect ==
  ASSUME DebugInv, PlanInv', ConnectIfNot, ~connected
  PROVE  SessionInv'
<1> DEFINE s == todo[Gui]
           r == todo'[Gui]
           Q == ShellSteps \union {"create", "await"}
<1>1. /\ PlanInv /\ SetupInv /\ StopInv /\ ViewInv
      /\ Does(Gui, "connect") /\ r = Connect \o Tail(s)
      /\ \A u \in Threads : u # Gui => todo'[u] = todo[u]
      /\ UNCHANGED <<target, up, gdb, debugging, views, handle, cause, session>>
  BY Distinct DEF DebugInv, ConnectIfNot, First, PlanInv, shell, flags, ender
<1>2. /\ \A x : Has(r, x) <=> x \in Q \/ Has(Tail(s), x)
      /\ r # <<>> /\ Head(r) = "tellShell"
  <2>1. /\ IsFunction(Connect, "tellShell", Q) /\ Q \intersect Last = {}
        /\ "connect" \in Last \union {"connect"} /\ Q = ShellSteps \union {"create", "await"}
    BY ConnectPlan DEF ShellSteps, Last
  <2> HIDE DEF Q
  <2>2. /\ \A x : Has(Connect \o Tail(s), x) <=> x \in Q \/ Has(Tail(s), x)
        /\ Connect \o Tail(s) # <<>> /\ Head(Connect \o Tail(s)) = "tellShell"
    <3>1. PlanInv /\ Gui \in Threads /\ Does(Gui, "connect")
      BY <1>1, Distinct
    <3>2. /\ \A x : Has(Connect \o Tail(todo[Gui]), x) <=> x \in Q \/ Has(Tail(todo[Gui]), x)
          /\ Connect \o Tail(todo[Gui]) # <<>> /\ Head(Connect \o Tail(todo[Gui])) = "tellShell"
      BY ONLY <2>1, <3>1, CallPlan
    <3> QED
      BY <3>2
  <2> QED
    BY <1>1, <2>2
<1>3. /\ \A x : Has(r, x) => Has(s, x) \/ x \in {"tellShell", "joinShell", "create", "await"}
      /\ \A x : x # "connect" /\ Has(s, x) => Has(r, x)
      /\ ~Has(s, "joinStop")
  <2>1. s \in Seq(Step) /\ s # <<>> /\ Head(s) = "connect"
    BY <1>1, Distinct, Planned DEF Does
  <2>2. ~Has(s, "joinStop")
    BY <1>1, Distinct, DoesFacts DEF Never
  <2> HIDE DEF s, r
  <2> QED
    BY <1>2, <2>1, <2>2, HasTail DEF ShellSteps
<1>4. \A x \in {"joinStop", "unhook", "forget"} : ~Does(Gui, x)'
  BY <1>2 DEF Does
<1>5. \A u \in {Gui, Reader} : Ending(u)' => Ending(u)
  <2>1. \A x \in {"exit", "check", "spawn"} : Has(r, x) => Has(s, x)
    BY <1>3
  <2> QED
    BY <1>1, <2>1, Distinct, EndingHas, EndingNext
<1>6. Quiet' <=> Quiet
  BY <1>1, Distinct DEF Quiet
<1>7. SetupInv'
  <2>1. Setting(r) => Setting(s)
    BY <1>3 DEF Setting
  <2>2. ~Has(r, "joinStop")
    BY <1>3
  <2>3. Setting(r) => ~Ending(Gui)'
    BY <1>1, <1>5, <2>1 DEF SetupInv
  <2>4. Setting(r) => Quiet' /\ gdb' = "off" /\ todo'[Reader] = <<>>
    BY <1>1, <1>3, <1>6, <2>1, Distinct DEF SetupInv
  <2>5. Has(r, "launch") /\ ~Has(r, "flag") => debugging' /\ ~Has(r, "forget")
    <3>1. /\ Has(r, "launch") => Has(s, "launch")
          /\ Has(s, "flag") => Has(r, "flag")
          /\ Has(r, "forget") => Has(s, "forget")
      BY <1>3
    <3> QED
      BY <1>1, <3>1 DEF SetupInv
  <2> HIDE DEF r, s
  <2> QED
    BY <1>4, <2>2, <2>3, <2>4, <2>5 DEF SetupInv, r
<1>8. StopInv'
  <2>1. ~(Ending(Gui)' /\ Ending(Reader)')
    BY <1>1, <1>5 DEF StopInv
  <2>2. \A u \in {Gui, Reader} : Has(todo'[u], "spawn") => Quiet'
    <3>1. Has(r, "spawn") => Has(s, "spawn")
      BY <1>3
    <3> QED
      BY <1>1, <1>6, <3>1, Distinct DEF StopInv
  <2>3. Has(todo'[Reader], "joinStop") => Has(todo'[Reader], "spawn")
    BY <1>1, Distinct DEF StopInv
  <2>4. \A k \in Stops : todo'[k] # <<>> => k = handle' /\ cause'[k] = session'
    BY <1>1, Distinct DEF StopInv
  <2> QED
    BY <1>4, <2>1, <2>2, <2>3, <2>4 DEF StopInv
<1>9. ViewInv'
  <2>1. \A u \in Threads : u # Gui =>
          (Does(u, "unhook")' <=> Does(u, "unhook")) /\ (Does(u, "forget")' <=> Does(u, "forget"))
    BY <1>1 DEF Does
  <2> QED
    BY <1>1, <1>4, <2>1 DEF ViewInv
<1> QED
  BY <1>7, <1>8, <1>9 DEF SessionInv

LEMMA SessionStarting ==
  ASSUME DebugInv, PlanInv', Starting
  PROVE  SessionInv'
<1> USE DEF shell, flags, ender
<1>0. /\ PlanInv /\ Gui \in Threads
      /\ debugging \in BOOLEAN /\ up \in BOOLEAN
  BY Distinct DEF DebugInv, TypeOK
<1>1. CASE Hook
  BY <1>0, <1>1, DoneStep DEF Hook
<1>2. CASE Flag
  <2>1. Quiet
    BY <1>2, SettingUp DEF Flag
  <2> QED
    BY <1>0, <1>2, <2>1, DoneStep DEF Flag
<1>3. CASE Run
  <2>1. Quiet
    BY <1>3, SettingUp DEF Run
  <2> QED
    BY <1>0, <1>3, <2>1, DoneStep DEF Run
<1>4. CASE Create
  BY <1>0, <1>4, DoneStep DEF Create
<1>5. CASE Send
  BY <1>0, <1>5, DoneStep DEF Send
<1>6. CASE Write
  BY <1>0, <1>6, DoneStep DEF Write
<1>7. CASE Launch
  BY <1>7, SessionLaunch
<1>8. ASSUME Instead(Gui, SignalStop \o Stop), UNCHANGED <<target, shell, flags, ender, session>>
      PROVE  SessionInv'
  BY <1>8, AbandonPlan, GuiBegins DEF StopSteps, ShellSteps, WaitSteps, ClearSteps
<1>9. CASE SendFails
  BY <1>8, <1>9 DEF SendFails, Fails
<1>10. CASE Prompt
  <2>1. CASE acked
    BY <1>0, <1>10, <2>1, DoneStep DEF Prompt
  <2>2. CASE ~acked
    BY <1>8, <1>10, <2>2 DEF Prompt, Fails
  <2> QED
    BY <2>1, <2>2
<1>11. CASE Await
  <2>1. CASE connected
    BY <1>0, <1>11, <2>1, DoneStep DEF Await
  <2>2. CASE Instead(Gui, Stop)
    BY <1>11, <2>2, StopPlan, GuiBegins DEF Await, StopSteps, ShellSteps, WaitSteps, ClearSteps
  <2>3. CASE Instead(Gui, SignalStop \o Stop)
    BY <1>8, <1>11, <2>3 DEF Await
  <2> QED
    BY <1>11, <2>1, <2>2, <2>3 DEF Await
<1>12. CASE ConnectIfNot
  <2>1. CASE connected
    <3>1. <<>> \o Tail(todo[Gui]) = Tail(todo[Gui])
      BY <1>0, <1>12, EmptyTail DEF ConnectIfNot, Does
    <3>2. Done(Gui)
      BY <1>12, <2>1, <3>1 DEF ConnectIfNot, First, Done
    <3> QED
      BY <1>0, <1>12, <3>2, DoneStep DEF ConnectIfNot
  <2>2. CASE ~connected
    BY <1>12, <2>2, SessionConnect
  <2> QED
    BY <2>1, <2>2
<1> QED
  BY <1>1, <1>2, <1>3, <1>4, <1>5, <1>6, <1>7, <1>9, <1>10, <1>11, <1>12 DEF Starting

LEMMA SessionShell ==
  ASSUME DebugInv, PlanInv', ~Overlap, ShellThread \/ ShellEnds
  PROVE  SessionInv'
<1> USE DEF shell, flags, ender
<1>0. /\ PlanInv /\ Reader \in Threads
      /\ debugging \in BOOLEAN
  BY Distinct DEF DebugInv, TypeOK
<1>1. CASE Login
  BY <1>1, Still DEF Login
<1>2. CASE HearPrompt
  BY <1>2, Still DEF HearPrompt
<1>3. CASE HearOver
  BY <1>3, ProgramStopPlan, ReaderBegins DEF HearOver, Reading
<1>4. CASE HearExit
  <2>1. CASE Hears /\ acked
    BY <1>4, <2>1, SeenPlan, ReaderBegins DEF HearExit, Reading, ClearSteps
  <2>2. CASE ~(Hears /\ acked)
    BY <1>4, <2>2, Still DEF HearExit
  <2> QED
    BY <2>1, <2>2
<1>5. CASE Seen
  BY <1>0, <1>5, DoneStep DEF Seen
<1>6. CASE ShellEnds
  BY <1>6, Still DEF ShellEnds
<1> QED
  BY <1>1, <1>2, <1>3, <1>4, <1>5, <1>6 DEF ShellThread

LEMMA DebugStep ==
  ASSUME ~Maintain, ~Overlap, DebugInv, [Next]_vars
  PROVE  DebugInv'
<1>1. PlanInv' /\ ShellInv' /\ TypeOK'
  BY PlanStep, ShellStep, TypeStep DEF DebugInv
<1>2. SessionInv'
  <2>1. CASE UNCHANGED vars
    BY <2>1, Still DEF vars, shell, flags
  <2> QED
    BY <1>1, <2>1, SessionUser, SessionCleaning, SessionEnding, SessionWatch, SessionStarting,
       SessionShell DEF Next
<1> QED
  BY <1>1, <1>2 DEF DebugInv, SessionInv

LEMMA DebugInvariant ==
  ASSUME ~Maintain, ~Overlap
  PROVE  Spec => []DebugInv
<1>1. Init => SetupInv /\ StopInv /\ ViewInv
  <2> SUFFICES ASSUME Init PROVE SetupInv /\ StopInv /\ ViewInv
    OBVIOUS
  <2>1. /\ \A t \in Threads : todo[t] = <<>> /\ ~Ending(t) /\ \A x : ~Does(t, x)
        /\ \A x : ~Has(<<>>, x)
    BY HasNone DEF Init, Ending, Does
  <2>2. SetupInv
    BY <2>1, Distinct DEF SetupInv, Setting
  <2>3. StopInv
    BY <2>1, Distinct DEF StopInv
  <2>4. ViewInv
    BY <2>1 DEF Init, ViewInv
  <2> QED
    BY <2>2, <2>3, <2>4
<1>2. Init => PlanInv /\ ShellInv /\ TypeOK
  BY TypeStart
<1>3. Init => DebugInv
  BY <1>1, <1>2 DEF DebugInv
<1>4. DebugInv /\ [Next]_vars => DebugInv'
  BY DebugStep
<1> QED
  BY <1>3, <1>4, PTL DEF Spec

(* Without a maintained session, and when ProgramStop() does not overlap    *)
(* with itself, the debug views never stay open after their session.        *)
THEOREM ViewsAreClosed ==
  ASSUME ~Maintain, ~Overlap
  PROVE  Spec => []ViewsFollow
<1>1. DebugInv => ViewsFollow
  BY DEF DebugInv, ViewInv, ViewsFollow
<1> QED
  BY <1>1, DebugInvariant, PTL

(* ... and a stop thread ends the session it was created for, and no other. *)
THEOREM OwnSessionEnded ==
  ASSUME ~Maintain, ~Overlap
  PROVE  Spec => EndsOwnSession
<1>1. DebugInv => \A k \in Stops : Forget(k) => cause[k] = session
  BY DEF DebugInv, StopInv, Forget, Does
<1>2. DebugInv /\ [Next]_vars =>
        [\A k \in Stops : Forget(k) /\ (debugging \/ running) => cause[k] = session]_vars
  BY <1>1
<1> QED
  BY <1>2, DebugInvariant, PTL DEF Spec, EndsOwnSession

-----------------------------------------------------------------------------
(* Who debugs without hearing the debugger ends the session, in either mode *)
(* and however the threads overlap.                                        *)
HeardInv == HearInv /\ CountInv
Known == PlanInv /\ PlanInv' /\ TypeOK /\ HeardInv

(* What may not get lost, and what may not appear. *)
LEMMA HeardKept ==
  ASSUME Known, UNCHANGED <<debugging, hooked, running, session, cause>>,
         debugging /\ ~hooked => acked' = acked,
         \A u \in Threads : Has(todo[u], "forget") => \E v \in Threads : Has(todo'[v], "forget"),
         Has(todo[Gui], "prompt") /\ ~acked =>
           Has(todo'[Gui], "prompt") \/ \E v \in Threads : Has(todo'[v], "forget"),
         Has(todo'[Gui], "flag") => Has(todo'[Gui], "prompt"),
         Has(todo'[Gui], "launch") => Has(todo'[Gui], "flag") \/ session > 0,
         \A u \in {Gui, Reader} : Ending(u)' => Ending(u) \/ session > 0,
         \A k \in Stops : todo'[k] # <<>> => todo[k] # <<>>
  PROVE  HeardInv'
<1>1. HearInv'
  BY DEF Known, HeardInv, HearInv
<1>2. CountInv'
  <2>1. CountInv
    BY DEF Known, HeardInv
  <2>2. debugging' \/ running' => session' > 0
    BY <2>1 DEF CountInv
  <2>3. \A u \in {Gui, Reader} : Ending(u)' => session' > 0
    BY <2>1 DEF CountInv
  <2>4. \A k \in Stops : todo'[k] # <<>> => cause'[k] > 0
    BY <2>1 DEF CountInv
  <2> QED
    BY <2>2, <2>3, <2>4 DEF CountInv
<1> QED
  BY <1>1, <1>2 DEF HeardInv

(* A thread goes on to its next step ... *)
LEMMA HeardDone ==
  ASSUME Known, NEW t \in Threads, NEW x, Does(t, x), Done(t), x # "spawn",
         x = "flag" => t = Gui /\ ~acked' /\ session' = session + 1,
         x = "run" => session' = session + 1, x \notin {"flag", "run"} => session' = session,
         x = "prompt" => acked, x # "flag" => acked' = acked,
         x = "forget" => ~debugging' /\ ~running', x = "hook" => hooked',
         x \notin {"forget", "flag"} => debugging' = debugging,
         x \notin {"hook", "unhook"} => hooked' = hooked,
         x \notin {"forget", "launch", "run"} => running' = running,
         x = "launch" => t = Gui, cause' = cause
  PROVE  HeardInv'
<1>1. /\ PlanInv /\ HearInv /\ CountInv /\ session \in Nat /\ session' \in Nat
      /\ session' >= session /\ (x \in {"flag", "run"} => session' > 0)
  <2>1. PlanInv /\ HearInv /\ CountInv /\ session \in Nat
    BY BoundsAssumption DEF Known, HeardInv, TypeOK
  <2> QED
    BY <2>1
<1>2. /\ todo'[t] = Tail(todo[t]) /\ \A u \in Threads : u # t => todo'[u] = todo[u]
      /\ todo[t] # <<>>
  BY <1>1, Distinct DEF Done, PlanInv, Does
<1>3. /\ \A y : Has(todo'[t], y) => Has(todo[t], y)
      /\ \A y : y # x /\ Has(todo[t], y) => Has(todo'[t], y)
      /\ \A y \in Never(x) : ~Has(todo'[t], y)
      /\ x = "unhook" => Has(todo'[t], "forget")
  BY <1>1, <1>2, DoneFacts
<1>4. Has(todo[t], x) /\ \A y \in Never(x) : y # x => ~Has(todo[t], y)
  BY <1>1, DoesFacts
<1>5. \A u \in Threads : \A y :
        (Has(todo'[u], y) => Has(todo[u], y)) /\ (y # x /\ Has(todo[u], y) => Has(todo'[u], y))
  BY <1>2, <1>3
<1>6. HearInv'
  <2>1. Has(todo'[Gui], "flag") => Has(todo'[Gui], "prompt")
    <3>1. CASE t = Gui /\ x = "prompt"
      BY <1>3, <3>1 DEF Never
    <3>2. CASE ~(t = Gui /\ x = "prompt")
      <4>1. Has(todo[Gui], "prompt") => Has(todo'[Gui], "prompt")
        BY <1>2, <1>5, <3>2, Distinct
      <4> QED
        BY <1>1, <1>5, <4>1, Distinct DEF HearInv
    <3> QED
      BY <3>1, <3>2
  <2>2. ASSUME debugging', ~hooked'
        PROVE  \/ \E u \in Threads : Has(todo'[u], "forget")
               \/ Has(todo'[Gui], "prompt") /\ ~acked'
    <3>1. CASE x = "flag"
      BY <1>1, <1>4, <1>5, <3>1, Distinct DEF HearInv
    <3>2. CASE x = "unhook"
      BY <1>3, <3>2
    <3>3. CASE x \notin {"flag", "unhook"}
      <4>0. x # "forget" /\ x # "hook" /\ x # "flag" /\ x # "unhook"
        BY <2>2, <3>3
      <4>1. debugging' = debugging /\ hooked' = hooked /\ acked' = acked
        BY <4>0
      <4>2. debugging /\ ~hooked
        BY <2>2, <4>1, Zenon
      <4>3. CASE Has(todo[Gui], "prompt") /\ ~acked
        BY <1>5, <4>1, <4>3, Distinct
      <4>4. CASE \E u \in Threads : Has(todo[u], "forget")
        BY <1>5, <4>0, <4>4
      <4> QED
        BY <1>1, <4>2, <4>3, <4>4 DEF HearInv
    <3> QED
      BY <3>1, <3>2, <3>3
  <2> QED
    BY <2>1, <2>2 DEF HearInv
<1>7. CountInv'
  <2>1. debugging' \/ running' => session' > 0
    <3>1. x = "launch" => session > 0
      BY <1>1, <1>4 DEF CountInv, Never
    <3> QED
      BY <1>1, <3>1 DEF CountInv
  <2>2. Has(todo'[Gui], "launch") => Has(todo'[Gui], "flag") \/ session' > 0
    <3>1. Has(todo[Gui], "flag") => Has(todo'[Gui], "flag") \/ session' > 0
      BY <1>1, <1>5, Distinct
    <3>2. Has(todo'[Gui], "launch") => Has(todo[Gui], "launch")
      BY <1>5, Distinct
    <3> QED
      BY <1>1, <3>1, <3>2 DEF CountInv
  <2>3. ASSUME NEW u \in {Gui, Reader}, Ending(u)' PROVE session' > 0
    <3>1. Ending(u)
      BY <1>1, <1>5, <2>3, Distinct, EndingHas, EndingNext DEF Known
    <3> QED
      BY <1>1, <3>1 DEF CountInv
  <2>4. \A k \in Stops : todo'[k] # <<>> => cause'[k] > 0
    BY <1>1, <1>2, Distinct DEF CountInv
  <2> QED
    BY <2>1, <2>2, <2>3, <2>4 DEF CountInv
<1> QED
  BY <1>6, <1>7 DEF HeardInv

(* ... or begins a function, or replaces what it was doing. *)
LEMMA HeardReplaced ==
  ASSUME Known, NEW t \in Threads, NEW s, todo' = [todo EXCEPT ![t] = s],
         UNCHANGED <<flags, cause, session>>,
         Has(s, "forget") \/ (~Has(todo[t], "forget") /\
           (t = Gui /\ ~acked /\ Has(todo[Gui], "prompt") => Has(s, "prompt"))),
         t = Gui /\ Has(s, "flag") => Has(s, "prompt"),
         t = Gui /\ Has(s, "launch") => Has(s, "flag") \/ session > 0,
         \A x \in {"exit", "check", "spawn"} : Has(s, x) => t \in Stops \/ Ending(t) \/ session > 0,
         t \in Stops => todo[t] # <<>>
  PROVE  HeardInv'
<1>1. PlanInv /\ PlanInv' /\ HearInv /\ CountInv
  BY DEF Known, HeardInv
<1>2. todo'[t] = s /\ \A u \in Threads : u # t => todo'[u] = todo[u]
  BY <1>1 DEF PlanInv
<1>3. \A u \in Threads : Has(todo[u], "forget") => \E v \in Threads : Has(todo'[v], "forget")
  BY <1>2
<1>4. Has(todo[Gui], "prompt") /\ ~acked =>
        Has(todo'[Gui], "prompt") \/ \E v \in Threads : Has(todo'[v], "forget")
  BY <1>2, Distinct
<1>5. /\ Has(todo'[Gui], "flag") => Has(todo'[Gui], "prompt")
      /\ Has(todo'[Gui], "launch") => Has(todo'[Gui], "flag") \/ session > 0
  <2>1. CASE t = Gui
    BY <1>2, <2>1
  <2>2. CASE t # Gui
    BY <1>1, <1>2, <2>2, Distinct DEF HearInv, CountInv
  <2> QED
    BY <2>1, <2>2
<1>6. ASSUME NEW u \in {Gui, Reader}, Ending(u)' PROVE Ending(u) \/ session > 0
  <2>1. CASE u = t
    BY <1>1, <1>2, <1>6, <2>1, Distinct, EndingNext
  <2>2. CASE u # t
    BY <1>1, <1>2, <1>6, <2>2, Distinct, EndingHas, EndingNext
  <2> QED
    BY <2>1, <2>2
<1>7. \A k \in Stops : todo'[k] # <<>> => todo[k] # <<>>
  BY <1>2, Distinct
<1> QED
  BY <1>3, <1>4, <1>5, <1>6, <1>7, HeardKept DEF flags

LEMMA HeardBegins ==
  ASSUME Known, NEW t \in {Gui, Reader}, NEW q, NEW f, NEW Q, IsFunction(q, f, Q),
         Instead(t, q), UNCHANGED <<flags, cause, session>>,
         "forget" \in Q \/ todo[t] = <<>>, "flag" \in Q => "prompt" \in Q,
         "launch" \in Q => "flag" \in Q, "spawn" \notin Q,
         "exit" \in Q \/ "check" \in Q => session > 0
  PROVE  HeardInv'
<1>1. /\ \A x : Has(q, x) <=> x \in Q
      /\ todo' = [todo EXCEPT ![t] = q] /\ t \in Threads /\ t \notin Stops
  BY Distinct DEF IsFunction, Instead
<1>2. \A x : todo[t] = <<>> => ~Has(todo[t], x)
  BY HasNone
<1> QED
  BY <1>1, <1>2, HeardReplaced

LEMMA HeardUser == ASSUME Known, User PROVE HeardInv'
<1> USE DEF StopSteps, ShellSteps, WaitSteps, ClearSteps, AttachSteps, RunSteps
<1>0. CountInv /\ UNCHANGED <<flags, cause, session>>
  BY DEF Known, HeardInv, User, Debug, RunProgram, End, Abandon, ender
<1>1. CASE Debug
  <2>1. CASE Maintain /\ seenExit
    <3>1. <<>> \o Attach = Attach
      BY DEF Attach
    <3> QED
      BY <1>0, <1>1, <2>1, <3>1, AttachPlan, HeardBegins DEF Debug
  <2>2. CASE ~(Maintain /\ seenExit)
    BY <1>0, <1>1, <2>2, DebugPlan, HeardBegins DEF Debug
  <2> QED
    BY <2>1, <2>2
<1>2. CASE RunProgram
  BY <1>0, <1>2, RunProgramPlan, HeardBegins DEF RunProgram
<1>3. CASE End
  <2>1. session > 0
    BY <1>0, <1>3 DEF End, Busy, CountInv
  <2> QED
    BY <1>0, <1>3, <2>1, ProgramStopPlan, HeardBegins DEF End
<1>4. CASE Abandon
  BY <1>0, <1>4, AbandonPlan, HeardBegins DEF Abandon
<1> QED
  BY <1>1, <1>2, <1>3, <1>4 DEF User

LEMMA HeardCleaning == ASSUME Known, NEW t \in Threads, Cleaning(t) PROVE HeardInv'
<1> USE DEF flags, ender
<1>0. PlanInv /\ HearInv /\ CountInv /\ TypeOK
  BY DEF Known, HeardInv
<1>1. CASE Signal(t)
  BY <1>1, HeardDone DEF Signal
<1>2. CASE TellShell(t)
  BY <1>2, HeardDone DEF TellShell
<1>3. CASE ShellJoined(t)
  BY <1>3, HeardDone DEF ShellJoined
<1>4. CASE TellStop(t)
  <2>1. CASE handle = None
    <3> DEFINE s == Tail(Tail(todo[t]))
    <3>1. /\ todo' = [todo EXCEPT ![t] = s] /\ Does(t, "tellStop") /\ todo'[t] = s
          /\ UNCHANGED <<flags, cause, session>>
      BY <1>0, <1>4, <2>1 DEF TellStop, PlanInv
    <3>2. /\ \A y : Has(s, y) => Has(todo[t], y)
          /\ \A y : y \notin WaitSteps /\ Has(todo[t], y) => Has(s, y)
      BY <1>0, <3>1, SkipFacts
    <3>3. /\ Has(todo[t], "forget") => Has(s, "forget")
          /\ Has(todo[t], "prompt") => Has(s, "prompt")
          /\ Has(todo[t], "flag") => Has(s, "flag")
      BY <3>2 DEF WaitSteps
    <3>4. \A x \in {"exit", "check", "spawn"} : Has(s, x) => Ending(t)
      BY <1>0, <3>2, EndingHas
    <3>5. todo[t] # <<>>
      BY <3>1 DEF Does
    <3> HIDE DEF s
    <3>6. t = Gui /\ Has(s, "flag") => Has(s, "prompt")
      BY <1>0, <3>2, <3>3 DEF HearInv
    <3>7. t = Gui /\ Has(s, "launch") => Has(s, "flag") \/ session > 0
      BY <1>0, <3>2, <3>3 DEF CountInv
    <3> QED
      BY <3>1, <3>3, <3>4, <3>5, <3>6, <3>7, HeardReplaced
  <2>2. CASE handle # None
    BY <1>4, <2>2, HeardDone DEF TellStop
  <2> QED
    BY <2>1, <2>2
<1>5. CASE StopJoined(t)
  BY <1>5, HeardDone DEF StopJoined
<1>6. CASE Kill(t)
  BY <1>6, HeardDone DEF Kill
<1>7. CASE Unhook(t)
  BY <1>7, HeardDone DEF Unhook
<1>8. CASE Forget(t)
  BY <1>8, HeardDone DEF Forget
<1> QED
  BY <1>1, <1>2, <1>3, <1>4, <1>5, <1>6, <1>7, <1>8 DEF Cleaning

LEMMA HeardEnds == ASSUME Known, NEW t \in Threads, Ends(t) PROVE HeardInv'
<1> USE DEF flags, ender
<1>0. /\ PlanInv /\ PlanInv' /\ HearInv /\ CountInv /\ TypeOK
      /\ t \in {Gui, Reader} /\ t \notin Stops
  <2>1. PlanInv /\ PlanInv' /\ HearInv /\ CountInv /\ TypeOK
    BY DEF Known, HeardInv
  <2>2. t \in {Gui, Reader}
    BY <2>1, StopsOnlyStop DEF Ends, Exit, Check, Spawn, Step, StopStep, Threads
  <2> QED
    BY <2>1, <2>2, Distinct
<1>1. CASE Exit(t)
  BY <1>1, HeardDone DEF Exit
<1>2. CASE Check(t) /\ Alive(handle)
  <2>1. <<>> \o Tail(todo[t]) = Tail(todo[t])
    BY <1>0, <1>2, EmptyTail DEF Check, Does
  <2>2. Done(t)
    BY <1>2, <2>1 DEF Check, First, Done
  <2> QED
    BY <1>2, <2>2, HeardDone DEF Check
<1>3. CASE Check(t) /\ ~Alive(handle)
  <2> DEFINE s == (JoinStop \o <<"spawn">>) \o Tail(todo[t])
             Q == WaitSteps \union {"spawn"}
  <2>1. /\ Does(t, "check") /\ todo' = [todo EXCEPT ![t] = s]
        /\ UNCHANGED <<flags, cause, session>>
    BY <1>3 DEF Check, First
  <2>2. Tail(todo[t]) = <<>> /\ Has(todo[t], "check") /\ \A x : Has(todo[t], x) => x = "check"
    BY <1>0, <2>1, Planned, PlanTail, HasTail, HasNone DEF Does, Last
  <2>3. /\ IsFunction(JoinStop \o <<"spawn">>, "tellStop", Q) /\ Q \intersect Last = {}
        /\ "check" \in Last \union {"connect"} /\ "check" # "connect"
    BY SpawnPlan DEF WaitSteps, Last
  <2> HIDE DEF Q
  <2>4. \A x : Has(s, x) <=> x \in Q \/ Has(Tail(todo[t]), x)
    BY <1>0, <2>1, <2>3, CallPlan
  <2> HIDE DEF s
  <2>5. \A x : Has(s, x) <=> x \in Q
    BY <2>2, <2>4, HasNone
  <2>6. ~Has(s, "flag") /\ ~Has(s, "launch")
    BY <2>5 DEF Q, WaitSteps
  <2>7. Ending(t)
    BY <1>0, <2>2, EndingHas
  <2>8. ~Has(todo[t], "forget") /\ ~Has(todo[t], "prompt")
    BY <2>2
  <2> QED
    BY <1>0, <2>1, <2>6, <2>7, <2>8, HeardReplaced
<1>4. CASE Spawn(t)
  <2>1. PICK k \in Stops :
          /\ cause[k] = 0 /\ cause' = [cause EXCEPT ![k] = session]
          /\ todo' = [todo EXCEPT ![t] = Tail(@), ![k] = <<"watch">>]
    BY <1>4 DEF Spawn
  <2>2. /\ Does(t, "spawn") /\ UNCHANGED <<flags, session>> /\ k \in Threads /\ k # t /\ k # Gui
        /\ todo[k] = <<>>
    BY <1>0, <1>4, <2>1, Distinct DEF Spawn, CountInv
  <2>3. /\ todo'[t] = Tail(todo[t]) /\ todo'[k] = <<"watch">>
        /\ \A u \in Threads : u # t /\ u # k => todo'[u] = todo[u]
    BY <1>0, <2>1, <2>2 DEF PlanInv
  <2>4. \A u \in Threads : u # k => \A y :
          /\ Has(todo'[u], y) => Has(todo[u], y)
          /\ y # "spawn" /\ Has(todo[u], y) => Has(todo'[u], y)
    BY <1>0, <2>2, <2>3, DoneFacts
  <2>5. HearInv'
    <3>1. Has(todo'[Gui], "flag") => Has(todo'[Gui], "prompt")
      BY <1>0, <2>2, <2>4, Distinct DEF HearInv
    <3>2. ~Has(todo[k], "forget")
      BY <2>2, HasNone
    <3>3. (\E u \in Threads : Has(todo[u], "forget")) => \E u \in Threads : Has(todo'[u], "forget")
      BY <2>4, <3>2
    <3>4. Has(todo[Gui], "prompt") => Has(todo'[Gui], "prompt")
      BY <2>2, <2>4, Distinct
    <3> QED
      BY <1>0, <2>2, <3>1, <3>3, <3>4 DEF HearInv
  <2>6. CountInv'
    <3>1. session > 0
      BY <1>0, <2>2, DoesFacts, EndingHas DEF CountInv
    <3>2. \A j \in Stops : todo'[j] # <<>> => cause'[j] > 0
      BY <1>0, <2>1, <2>3, <3>1, Distinct DEF CountInv, TypeOK
    <3> QED
      BY <2>2, <3>1, <3>2 DEF CountInv
  <2> QED
    BY <2>5, <2>6 DEF HeardInv
<1> QED
  BY <1>1, <1>2, <1>3, <1>4 DEF Ends

LEMMA HeardWatch == ASSUME Known, NEW k \in Stops, Watch(k) PROVE HeardInv'
<1>0. PlanInv /\ k \in Threads /\ k # Gui /\ UNCHANGED <<flags, cause, session>>
  BY Distinct DEF Known, Watch, ender
<1>1. ASSUME NEW q, NEW f, NEW Q, IsFunction(q, f, Q), Q \intersect Last = {},
             First(k, q), "forget" \in Q
      PROVE  HeardInv'
  <2> DEFINE s == q \o Tail(todo[k])
  <2>1. "watch" \in Last \union {"connect"} /\ "watch" # "connect" /\ Does(k, "watch")
    BY DEF Last, Watch
  <2>2. \A x : Has(s, x) <=> x \in Q \/ Has(Tail(todo[k]), x)
    BY <1>0, <1>1, <2>1, CallPlan
  <2>3. todo' = [todo EXCEPT ![k] = s] /\ todo[k] # <<>>
    BY <1>1, <2>1 DEF First, Does
  <2> HIDE DEF s
  <2> QED
    BY <1>0, <1>1, <2>2, <2>3, HeardReplaced
<1>2. CASE Busy
  BY <1>1, <1>2, SignalStopPlan DEF Watch, Last, ClearSteps
<1>3. CASE ~Busy
  BY <1>1, <1>3, ClearLinkPlan DEF Watch, Last, ClearSteps
<1> QED
  BY <1>2, <1>3

LEMMA HeardConnect == ASSUME Known, ConnectIfNot, ~connected PROVE HeardInv'
<1> DEFINE r == todo[Gui]
           s == Connect \o Tail(todo[Gui])
           Q == ShellSteps \union {"create", "await"}
<1>1. /\ PlanInv /\ HearInv /\ CountInv /\ Gui \in Threads /\ Gui \notin Stops
      /\ Does(Gui, "connect") /\ todo' = [todo EXCEPT ![Gui] = s]
      /\ UNCHANGED <<flags, cause, session>>
  BY Distinct DEF Known, HeardInv, ConnectIfNot, First, ender
<1>2. \A x : Has(s, x) <=> x \in Q \/ Has(Tail(r), x)
  <2>1. /\ IsFunction(Connect, "tellShell", Q) /\ Q \intersect Last = {}
        /\ "connect" \in Last \union {"connect"} /\ Q = ShellSteps \union {"create", "await"}
    BY ConnectPlan DEF ShellSteps, Last
  <2>2. PlanInv /\ Gui \in Threads /\ Does(Gui, "connect")
    BY <1>1
  <2> HIDE DEF Q
  <2> QED
    BY ONLY <2>1, <2>2, CallPlan DEF r, s
<1>3. /\ \A x : Has(s, x) => Has(r, x) \/ x \in {"tellShell", "joinShell", "create", "await"}
      /\ \A x : x # "connect" /\ Has(r, x) => Has(s, x)
  <2>1. r \in Seq(Step) /\ r # <<>> /\ Head(r) = "connect"
    BY <1>1, Planned DEF Does
  <2> HIDE DEF r, s
  <2> QED
    BY <1>2, <2>1, HasTail DEF ShellSteps
<1>4. /\ Has(r, "forget") => Has(s, "forget")
      /\ Has(r, "prompt") => Has(s, "prompt")
      /\ Has(r, "flag") <=> Has(s, "flag")
      /\ Has(s, "launch") => Has(r, "launch")
      /\ \A x \in {"exit", "check", "spawn"} : Has(s, x) => Has(r, x)
  BY <1>3
<1> HIDE DEF s
<1>5. Has(s, "flag") => Has(s, "prompt")
  BY <1>1, <1>4 DEF HearInv
<1>6. Has(s, "launch") => Has(s, "flag") \/ session > 0
  BY <1>1, <1>4 DEF CountInv
<1>7. \A x \in {"exit", "check", "spawn"} : Has(s, x) => Ending(Gui)
  BY <1>1, <1>4, EndingHas
<1> QED
  BY <1>1, <1>4, <1>5, <1>6, <1>7, HeardReplaced

LEMMA HeardStarting == ASSUME Known, Starting PROVE HeardInv'
<1> USE DEF flags, ender
<1>0. PlanInv /\ Gui \in Threads
  BY Distinct DEF Known
<1>1. CASE Hook
  BY <1>0, <1>1, HeardDone DEF Hook
<1>2. CASE Flag
  BY <1>0, <1>2, HeardDone DEF Flag
<1>3. CASE Run
  BY <1>0, <1>3, HeardDone DEF Run
<1>4. CASE Create
  BY <1>0, <1>4, HeardDone DEF Create
<1>5. CASE Send
  BY <1>0, <1>5, HeardDone DEF Send
<1>6. CASE Write
  BY <1>0, <1>6, HeardDone DEF Write
<1>7. CASE Launch
  BY <1>0, <1>7, HeardDone DEF Launch
<1>8. ASSUME Instead(Gui, SignalStop \o Stop), UNCHANGED <<flags, ender, session>>
      PROVE  HeardInv'
  BY <1>8, AbandonPlan, HeardBegins DEF StopSteps, ShellSteps, WaitSteps, ClearSteps
<1>9. CASE SendFails
  BY <1>8, <1>9 DEF SendFails, Fails
<1>10. CASE Prompt
  <2>1. CASE acked
    BY <1>0, <1>10, <2>1, HeardDone DEF Prompt
  <2>2. CASE ~acked
    BY <1>8, <1>10, <2>2 DEF Prompt, Fails
  <2> QED
    BY <2>1, <2>2
<1>11. CASE Await
  <2>1. CASE connected /\ Done(Gui)
    BY <1>0, <1>11, <2>1, HeardDone DEF Await
  <2>2. CASE Instead(Gui, Stop)
    BY <1>11, <2>2, StopPlan, HeardBegins DEF Await, StopSteps, ShellSteps, WaitSteps, ClearSteps
  <2>3. CASE Instead(Gui, SignalStop \o Stop)
    BY <1>8, <1>11, <2>3 DEF Await
  <2> QED
    BY <1>11, <2>1, <2>2, <2>3 DEF Await
<1>12. CASE ConnectIfNot
  <2>1. CASE connected
    <3>1. <<>> \o Tail(todo[Gui]) = Tail(todo[Gui])
      BY <1>0, <1>12, EmptyTail DEF ConnectIfNot, Does
    <3>2. Done(Gui)
      BY <1>12, <2>1, <3>1 DEF ConnectIfNot, First, Done
    <3> QED
      BY <1>0, <1>12, <3>2, HeardDone DEF ConnectIfNot
  <2>2. CASE ~connected
    BY <1>12, <2>2, HeardConnect
  <2> QED
    BY <2>1, <2>2
<1> QED
  BY <1>1, <1>2, <1>3, <1>4, <1>5, <1>6, <1>7, <1>9, <1>10, <1>11, <1>12 DEF Starting

(* Nobody does anything but hear. *)
LEMMA HeardStill ==
  ASSUME Known, todo' = todo, UNCHANGED <<debugging, hooked, running, session, cause>>,
         debugging /\ ~hooked => acked' = acked
  PROVE  HeardInv'
<1>1. HearInv /\ CountInv
  BY DEF Known, HeardInv
<1>2. \A u \in {Gui, Reader} : Ending(u)' <=> Ending(u)
  BY DEF Ending
<1> QED
  BY <1>1, <1>2, HeardKept DEF HearInv, CountInv

LEMMA HeardShell == ASSUME Known, ShellThread \/ ShellEnds PROVE HeardInv'
<1> USE DEF flags, ender
<1>0. PlanInv /\ Reader \in Threads /\ CountInv
  BY Distinct DEF Known, HeardInv
<1>1. CASE Login \/ ShellEnds
  BY <1>1, HeardStill DEF Login, ShellEnds
<1>2. CASE HearPrompt
  <2>1. debugging /\ ~hooked => acked' = acked
    BY <1>2 DEF HearPrompt, Hears, Known, TypeOK
  <2> QED
    BY <1>2, <2>1, HeardStill DEF HearPrompt
<1>3. CASE HearOver
  <2>1. session > 0
    BY <1>0, <1>3 DEF HearOver, Hears, CountInv
  <2> QED
    BY <1>3, <2>1, ProgramStopPlan, HeardBegins DEF HearOver, Reading
<1>4. CASE HearExit
  <2>1. CASE Hears /\ acked
    BY <1>4, <2>1, SeenPlan, HeardBegins DEF HearExit, ClearSteps
  <2>2. CASE ~(Hears /\ acked)
    BY <1>4, <2>2, HeardStill DEF HearExit
  <2> QED
    BY <2>1, <2>2
<1>5. CASE Seen
  BY <1>0, <1>5, HeardDone DEF Seen
<1> QED
  BY <1>1, <1>2, <1>3, <1>4, <1>5 DEF ShellThread

LEMMA HeardInvariant == Spec => [](PlanInv /\ TypeOK /\ HeardInv)
<1>1. Init => HeardInv
  <2> SUFFICES ASSUME Init PROVE HeardInv
    OBVIOUS
  <2>1. /\ \A t \in Threads : todo[t] = <<>> /\ ~Ending(t)
        /\ \A x : ~Has(<<>>, x)
    BY HasNone DEF Init, Ending
  <2>2. HearInv
    BY <2>1, Distinct DEF Init, HearInv
  <2>3. CountInv
    BY <2>1, Distinct DEF Init, CountInv
  <2> QED
    BY <2>2, <2>3 DEF HeardInv
<1>2. PlanInv /\ TypeOK /\ HeardInv /\ PlanInv' /\ [Next]_vars => HeardInv'
  <2> SUFFICES ASSUME PlanInv, TypeOK, HeardInv, PlanInv', [Next]_vars PROVE HeardInv'
    OBVIOUS
  <2>1. Known
    BY DEF Known
  <2>2. CASE UNCHANGED vars
    BY <2>1, <2>2, HeardStill DEF vars, flags, ender
  <2> QED
    BY <2>1, <2>2, HeardUser, HeardCleaning, HeardEnds, HeardWatch, HeardStarting, HeardShell
       DEF Next
<1> QED
  BY <1>1, <1>2, TypeInvariant, PTL DEF Spec

(* In either mode, and however the threads overlap, the manager does not go *)
(* on debugging without hearing the debugger, unless somebody is about to   *)
(* end the session.                                                        *)
THEOREM DebuggerIsHeard == Spec => []DebuggingHears
<1>1. PlanInv /\ HeardInv => DebuggingHears
  <2> SUFFICES ASSUME PlanInv, HearInv, todo[Gui] = <<>>, debugging, ~hooked
               PROVE  \E t \in Threads : \E n \in DOMAIN todo[t] : todo[t][n] = "forget"
    BY DEF DebuggingHears, HeardInv
  <2>1. ~Has(todo[Gui], "prompt")
    BY HasNone
  <2>2. PICK t \in Threads : Has(todo[t], "forget")
    BY <2>1 DEF HearInv
  <2>3. DOMAIN todo[t] = 1..Len(todo[t])
    BY Planned
  <2> QED
    BY <2>2, <2>3 DEF Has
<1> QED
  BY <1>1, HeardInvariant, PTL

=============================================================================
