---------------------------- MODULE DebugSession ----------------------------
(***************************************************************************)
(* How the debug manager starts and ends sessions (DebugManager.cpp).      *)
(* Three kinds of threads do it without a lock: the GUI thread starts and   *)
(* stops; the shell thread finds in the lines of the debugger that the      *)
(* program or the debugger is gone; and a stop thread, created whenever a    *)
(* session is asked to end, waits for a while and then cleans up, or cuts    *)
(* the connection.                                                         *)
(*                                                                         *)
(* Each thread has the steps it has yet to make in `todo`: functions of the *)
(* source are sequences of steps, a step is what nobody can come between.  *)
(* What is asked of the debugger is left out, but for its end.              *)
(***************************************************************************)
EXTENDS Naturals, Sequences, FiniteSets

CONSTANTS
  Gui,          \* the GUI thread
  Reader,        \* the thread of the shell
  Stops,        \* the stop threads that may be created
  None,         \* no stop thread
  Maintain,     \* m_bMaintainSession
  Overlap,      \* may two threads be in ProgramStop() at once?
  MaxSessions   \* bound: sessions started

ASSUME ThreadsAssumption == Gui # Reader /\ {Gui, Reader} \intersect Stops = {}
ASSUME NoneAssumption == None \notin Stops
ASSUME ModesAssumption == Maintain \in BOOLEAN /\ Overlap \in BOOLEAN
ASSUME BoundsAssumption == MaxSessions \in Nat /\ IsFiniteSet(Stops)

Threads == {Gui, Reader} \union Stops

VARIABLES
  todo,       \* todo[t]: the steps of thread t
  target,     \* target[t]: the stop thread that t joins
  up,         \* the shell thread runs
  told,       \* ... and has been told to stop
  connected,  \* the shell is logged in
  gdb,        \* the debugger on the host
  acked,      \* m_nDebugAck > 0
  hooked,     \* the manager listens and has an adaptor
  debugging,  \* m_bDebugging
  running,    \* m_bRunning
  seenExit,   \* m_bSeenExit
  views,      \* what the debug views were last told
  handle,     \* m_StopThread.m_hThread
  session,    \* number of the session
  cause       \* cause[k]: the session stop thread k was created for, or 0

shell  == <<up, told, connected, gdb>>
flags  == <<acked, hooked, debugging, running, seenExit, views>>
ender  == <<handle, cause>>
vars   == <<todo, target, shell, flags, ender, session>>

(* IsBusy() *)
Busy == running /\ connected

Alive(k) == k # None /\ todo[k] # <<>>

-----------------------------------------------------------------------------
(* The functions as sequences of steps.                                    *)

(* Variant: the flags are cleared before the views are told. *)
ClearLinkLate == <<"unhook", "forget", "kill">>

ClearLink   == <<"kill", "unhook", "forget">>
SignalStop  == <<"signal">> \o ClearLink
JoinShell   == <<"tellShell", "joinShell">>
JoinStop    == <<"tellStop", "joinStop">>

(* Variant: the stop thread is joined first. *)
StopSwapped == JoinStop \o JoinShell \o ClearLink

Stop        == JoinShell \o JoinStop \o ClearLink
ProgramStop == <<"exit", "check">>
Connect     == JoinShell \o <<"create", "await">>
Attach      == <<"hook", "flag", "connect", "launch", "send", "prompt">>
RunNormal   == <<"connect", "run", "write">>

Does(t, s) == todo[t] # <<>> /\ Head(todo[t]) = s
Done(t) == todo' = [todo EXCEPT ![t] = Tail(@)]
First(t, steps) == todo' = [todo EXCEPT ![t] = steps \o Tail(@)]
Instead(t, steps) == todo' = [todo EXCEPT ![t] = steps]

Ending(t) == \E n \in DOMAIN todo[t] : todo[t][n] \in {"exit", "check", "spawn"}

(* Each ProgramStop() may create a stop thread: the bound leaves room. *)
MayEnd ==
  Cardinality({t \in {Gui, Reader} : Ending(t)}) < Cardinality({k \in Stops : cause[k] = 0})

-----------------------------------------------------------------------------
(* What the user does.                                                     *)

(* RunDebug() and the like; a clean exit in a maintained session keeps the  *)
(* connection.                                                             *)
Debug ==
  /\ todo[Gui] = <<>> /\ ~Busy /\ session < MaxSessions
  /\ Instead(Gui, (IF Maintain /\ seenExit THEN <<>> ELSE Stop) \o Attach)
  /\ UNCHANGED <<target, shell, flags, ender, session>>

RunProgram ==
  /\ todo[Gui] = <<>> /\ ~debugging /\ ~Busy /\ session < MaxSessions
  /\ Instead(Gui, Stop \o RunNormal)
  /\ UNCHANGED <<target, shell, flags, ender, session>>

End ==
  /\ todo[Gui] = <<>> /\ Busy /\ MayEnd
  /\ Overlap \/ ~Ending(Reader)
  /\ Instead(Gui, ProgramStop)
  /\ UNCHANGED <<target, shell, flags, ender, session>>

(* A build, or the project is closed. *)
Abandon ==
  /\ todo[Gui] = <<>>
  /\ Instead(Gui, SignalStop \o Stop)
  /\ UNCHANGED <<target, shell, flags, ender, session>>

-----------------------------------------------------------------------------
(* Stop(), SignalStop() and ClearLink().                                   *)

Signal(t) ==
  /\ Does(t, "signal") /\ Done(t)
  /\ told' = TRUE
  /\ UNCHANGED <<target, up, connected, gdb, flags, ender, session>>

TellShell(t) ==
  /\ Does(t, "tellShell") /\ Done(t)
  /\ told' = TRUE
  /\ UNCHANGED <<target, up, connected, gdb, flags, ender, session>>

ShellJoined(t) ==
  /\ Does(t, "joinShell") /\ ~up /\ Done(t)
  /\ connected' = FALSE
  /\ UNCHANGED <<target, up, told, gdb, flags, ender, session>>

TellStop(t) ==
  /\ Does(t, "tellStop")
  /\ IF handle = None
     THEN todo' = [todo EXCEPT ![t] = Tail(Tail(@))] /\ UNCHANGED target
     ELSE Done(t) /\ target' = [target EXCEPT ![t] = handle]
  /\ UNCHANGED <<shell, flags, ender, session>>

StopJoined(t) ==
  /\ Does(t, "joinStop") /\ ~Alive(target[t]) /\ Done(t)
  /\ handle' = None /\ target' = [target EXCEPT ![t] = None]
  /\ UNCHANGED <<shell, flags, cause, session>>

(* LAZY_DEBUG_KILL_EVENT *)
Kill(t) ==
  /\ Does(t, "kill") /\ Done(t)
  /\ views' = IF debugging THEN "closed" ELSE views
  /\ UNCHANGED <<target, shell, acked, hooked, debugging, running, seenExit, ender, session>>

Unhook(t) ==
  /\ Does(t, "unhook") /\ Done(t)
  /\ hooked' = FALSE
  /\ UNCHANGED <<target, shell, acked, debugging, running, seenExit, views, ender, session>>

(* Variant: m_bDebugging stays. *)
ForgetRunning(t) ==
  /\ Does(t, "forget") /\ Done(t)
  /\ running' = FALSE
  /\ UNCHANGED <<target, shell, acked, hooked, debugging, seenExit, views, ender, session>>

Forget(t) ==
  /\ Does(t, "forget") /\ Done(t)
  /\ debugging' = FALSE /\ running' = FALSE
  /\ UNCHANGED <<target, shell, acked, hooked, seenExit, views, ender, session>>

-----------------------------------------------------------------------------
(* ProgramStop(), and the stop thread.                                     *)

Exit(t) ==
  /\ Does(t, "exit") /\ Done(t)
  /\ gdb' = IF debugging /\ connected /\ gdb # "off" THEN "leaving" ELSE gdb
  /\ UNCHANGED <<target, up, told, connected, flags, ender, session>>

Check(t) ==
  /\ Does(t, "check")
  /\ First(t, IF Alive(handle) THEN <<>> ELSE JoinStop \o <<"spawn">>)
  /\ UNCHANGED <<target, shell, flags, ender, session>>

Spawn(t) ==
  /\ Does(t, "spawn")
  /\ \E k \in Stops :
       /\ cause[k] = 0
       /\ cause' = [cause EXCEPT ![k] = session]
       /\ handle' = k
       /\ todo' = [todo EXCEPT ![t] = Tail(@), ![k] = <<"watch">>]
  /\ UNCHANGED <<target, shell, flags, session>>

(* Variant: nothing is cut off. *)
WatchPatient(k) ==
  /\ Does(k, "watch")
  /\ First(k, IF Busy THEN <<>> ELSE ClearLink)
  /\ UNCHANGED <<target, shell, flags, ender, session>>

(* After three seconds, or earlier if nothing is busy or m_bStopped is set.  *)
(* A step may take any time, so the flag itself is left out.                *)
Watch(k) ==
  /\ Does(k, "watch")
  /\ First(k, IF Busy THEN SignalStop ELSE ClearLink)
  /\ UNCHANGED <<target, shell, flags, ender, session>>

-----------------------------------------------------------------------------
(* _AttachDebugger() and RunNormal() after Stop().                         *)

(* ... and when something fails. *)
Fails(t) == Instead(t, SignalStop \o Stop)

Hook ==
  /\ Does(Gui, "hook") /\ Done(Gui)
  /\ hooked' = TRUE
  /\ UNCHANGED <<target, shell, acked, debugging, running, seenExit, views, ender, session>>

Flag ==
  /\ Does(Gui, "flag") /\ Done(Gui)
  /\ debugging' = TRUE /\ acked' = FALSE /\ session' = session + 1
  /\ UNCHANGED <<target, shell, hooked, running, seenExit, views, ender>>

ConnectIfNot ==
  /\ Does(Gui, "connect")
  /\ First(Gui, IF connected THEN <<>> ELSE Connect)
  /\ UNCHANGED <<target, shell, flags, ender, session>>

Create ==
  /\ Does(Gui, "create") /\ Done(Gui)
  /\ up' = TRUE /\ told' = FALSE /\ gdb' = "off"
  /\ UNCHANGED <<target, connected, flags, ender, session>>

Await ==
  /\ Does(Gui, "await")
  /\ \/ connected /\ Done(Gui)
     \/ ~connected /\ Instead(Gui, IF "run" = todo[Gui][2] THEN Stop ELSE SignalStop \o Stop)
  /\ UNCHANGED <<target, shell, flags, ender, session>>

(* LAZY_DEBUG_START_EVENT *)
Launch ==
  /\ Does(Gui, "launch") /\ Done(Gui)
  /\ running' = TRUE /\ seenExit' = FALSE /\ views' = "open"
  /\ UNCHANGED <<target, shell, acked, hooked, debugging, ender, session>>

Run ==
  /\ Does(Gui, "run") /\ Done(Gui)
  /\ running' = TRUE /\ seenExit' = FALSE /\ session' = session + 1
  /\ UNCHANGED <<target, shell, acked, hooked, debugging, views, ender>>

Send ==
  /\ Does(Gui, "send") /\ connected /\ Done(Gui)
  /\ gdb' = "starting"
  /\ UNCHANGED <<target, up, told, connected, flags, ender, session>>

Write ==
  /\ Does(Gui, "write") /\ connected /\ Done(Gui)
  /\ UNCHANGED <<target, shell, flags, ender, session>>

SendFails ==
  /\ Does(Gui, "send") \/ Does(Gui, "write")
  /\ Fails(Gui)
  /\ UNCHANGED <<target, shell, flags, ender, session>>

(* The prompt of the debugger arrives, or does not in time. *)
Prompt ==
  /\ Does(Gui, "prompt")
  /\ IF acked THEN Done(Gui) ELSE Fails(Gui)
  /\ UNCHANGED <<target, shell, flags, ender, session>>

-----------------------------------------------------------------------------
(* The shell thread: it logs in, hands lines to OnIncomingLine(), and ends  *)
(* when told so or when the connection is lost.                            *)

Reading == up /\ todo[Reader] = <<>>
Hears == hooked /\ debugging

Login ==
  /\ Reading /\ ~connected /\ ~told
  /\ connected' = TRUE
  /\ UNCHANGED <<todo, target, up, told, gdb, flags, ender, session>>

ShellEnds ==
  /\ Reading
  /\ up' = FALSE /\ connected' = FALSE /\ gdb' = "off"
  /\ UNCHANGED <<todo, target, told, flags, ender, session>>

(* "(gdb)" *)
HearPrompt ==
  /\ Reading /\ connected /\ gdb = "starting"
  /\ gdb' = "ready" /\ acked' = (acked \/ Hears)
  /\ UNCHANGED <<todo, target, up, told, connected, hooked, debugging, running, seenExit, views,
                 ender, session>>

(* The program has exited, or the debugger reports an internal error. *)
HearOver ==
  /\ Reading /\ connected /\ gdb # "off" /\ Hears /\ MayEnd
  /\ Overlap \/ ~Ending(Gui)
  /\ Instead(Reader, ProgramStop)
  /\ UNCHANGED <<target, shell, flags, ender, session>>

(* "^exit" *)
HearExit ==
  /\ Reading /\ connected /\ gdb = "leaving"
  /\ gdb' = "off"
  /\ IF Hears /\ acked THEN Instead(Reader, ClearLink \o <<"seen">>) ELSE UNCHANGED todo
  /\ UNCHANGED <<target, up, told, connected, flags, ender, session>>

Seen ==
  /\ Does(Reader, "seen") /\ Done(Reader)
  /\ seenExit' = TRUE
  /\ UNCHANGED <<target, shell, acked, hooked, debugging, running, views, ender, session>>

-----------------------------------------------------------------------------
Init ==
  /\ todo = [t \in Threads |-> <<>>]
  /\ target = [t \in Threads |-> None]
  /\ up = FALSE /\ told = FALSE /\ connected = FALSE /\ gdb = "off"
  /\ acked = FALSE /\ hooked = FALSE /\ debugging = FALSE /\ running = FALSE
  /\ seenExit = FALSE /\ views = "closed"
  /\ handle = None
  /\ session = 0
  /\ cause = [k \in Stops |-> 0]

User == Debug \/ RunProgram \/ End \/ Abandon

Cleaning(t) ==
  \/ Signal(t) \/ TellShell(t) \/ ShellJoined(t) \/ TellStop(t) \/ StopJoined(t)
  \/ Kill(t) \/ Unhook(t) \/ Forget(t)

Ends(t) == Exit(t) \/ Check(t) \/ Spawn(t)

Starting ==
  \/ Hook \/ Flag \/ ConnectIfNot \/ Create \/ Await \/ Launch \/ Run \/ Send \/ Write
  \/ SendFails \/ Prompt

ShellThread == Login \/ HearPrompt \/ HearOver \/ HearExit \/ Seen

Next ==
  \/ User \/ Starting \/ ShellThread \/ ShellEnds
  \/ \E t \in Threads : Cleaning(t) \/ Ends(t)
  \/ \E k \in Stops : Watch(k)

Spec == Init /\ [][Next]_vars

(* Threads that have something to do do it; the shell thread ends when told. *)
Fairness ==
  /\ WF_vars(Starting) /\ WF_vars(Seen) /\ WF_vars(told /\ ShellEnds)
  /\ \A t \in Threads : WF_vars(Cleaning(t) \/ Ends(t))
  /\ \A k \in Stops : WF_vars(Watch(k))

FairSpec == Spec /\ Fairness

-----------------------------------------------------------------------------
Step == {"kill", "unhook", "forget", "signal", "tellShell", "joinShell", "tellStop", "joinStop",
         "exit", "check", "spawn", "watch", "hook", "flag", "connect", "create", "await",
         "launch", "run", "send", "write", "prompt", "seen"}

(* The types; who is logged in has a shell thread.                         *)
TypeOK ==
  /\ todo \in [Threads -> Seq(Step)]
  /\ target \in [Threads -> Stops \union {None}] /\ handle \in Stops \union {None}
  /\ {up, told, connected, acked, hooked, debugging, running, seenExit} \subseteq BOOLEAN
  /\ gdb \in {"off", "starting", "ready", "leaving"} /\ views \in {"open", "closed"}
  /\ session \in 0..MaxSessions /\ cause \in [Stops -> 0..MaxSessions]
  /\ connected => up

(* A stop thread ends the session it was created for, and no other: it is    *)
(* "designed to wait a short while for the debugged process to exit cleanly" *)
(* (DebugManager.cpp:27), not to end what was started in the meantime.      *)
EndsOwnSession ==
  [][\A k \in Stops : Forget(k) /\ (debugging \/ running) => cause[k] = session]_vars

(* The debug views are open only while there is a session: nobody else      *)
(* closes them.                                                            *)
ViewsFollow == todo[Gui] = <<>> /\ views = "open" => debugging

(* While the manager is debugging it hears the debugger, unless somebody is  *)
(* about to end the session.                                               *)
DebuggingHears ==
  todo[Gui] = <<>> /\ debugging /\ ~hooked =>
    \E t \in Threads : \E n \in DOMAIN todo[t] : todo[t][n] = "forget"

(* A session that has been asked to end ends, whatever the debugger does.    *)
SessionEnds ==
  \A k \in Stops : Alive(k) ~> (~debugging /\ ~running) \/ session # cause[k]

=============================================================================
