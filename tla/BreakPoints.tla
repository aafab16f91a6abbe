----------------------------- MODULE BreakPoints -----------------------------
(***************************************************************************)
(* The break points of the debug manager (DebugManager.cpp).  The manager   *)
(* keeps a list, the debugger another; an entry is known to the debugger by  *)
(* a number the manager is told in the answer to "-break-insert".           *)
(* The debugger takes no command while the program runs: the GUI thread      *)
(* interrupts it, sends what it has to say, and lets it run on; the shell    *)
(* thread, which hears the answers, must not show such a stop to the user.  *)
(*                                                                         *)
(* What the GUI thread has yet to do is in `ops`; `at` is the set of places  *)
(* a step or a command is about.  The wait of at most 150 ms before a        *)
(* command is sent changes nothing and is left out.                         *)
(***************************************************************************)
EXTENDS SequencesExt

CONSTANTS
  Places,     \* lines of source files
  Files,      \* ... and the lines of each file
  Closed,     \* ... of files that no view shows
  Absent,     \* ... where the debugger cannot set a break point
  Late,       \* may a break take longer than the second it is given?
  MaxActs, MaxStops, MaxStarts   \* bounds

ASSUME FilesAssumption ==
  /\ UNION Files = Places
  /\ \A f, g \in Files : f = g \/ f \intersect g = {}
ASSUME ClosedAssumption == \E closed \in SUBSET Files : Closed = UNION closed

VARIABLES
  marks,      \* m_aBreakpoints
  debugging,  \* m_bDebugging
  breaked,    \* m_bBreaked
  ignore,     \* m_nIgnoreBreaks
  found,      \* what _UpdateBreakpoint() is about to store, and where
  ops,        \* the steps the GUI thread has yet to make
  restart,    \* bRestartApp
  sent,       \* commands the debugger has not read
  sigint,     \* a break is on its way
  lines,      \* what the debugger said and the manager has not heard
  prog,       \* the debugged program
  points,     \* the break points of the debugger
  number,     \* ... and the number of the next one
  shown,      \* what the views say of the program
  astray,     \* places for which a command named another's number
  acts, stops, starts

manager   == <<marks, debugging, breaked, ignore, found>>
user      == <<ops, restart>>
debugger  == <<prog, points, number>>
tally     == <<acts, stops, starts>>
pointVars == <<manager, user, sent, sigint, lines, debugger, shown, astray, tally>>

NotFound == [index |-> 0, no |-> 0, at |-> {}]
Step(do, at) == [do |-> do, at |-> at]
Command(do, at, nos) == [do |-> do, at |-> at, nos |-> nos]
Said(word, at, no) == [word |-> word, at |-> at, no |-> no]
Prompt == Said("prompt", {}, 0)

Listed == {marks[i].at : i \in DOMAIN marks}
Numbers(at) == {marks[i].no : i \in {j \in DOMAIN marks : marks[j].at \in at}}
Does(do) == ops # <<>> /\ Head(ops).do = do
Done == ops' = Tail(ops)

-----------------------------------------------------------------------------
(* What the user asks for, as steps: _PauseDebugger(), the command, and      *)
(* _ResumeDebugger() if there is a debugger, then the list.                 *)

InDebugger(do, at) ==
  IF debugging THEN <<Step("pause", {}), Step(do, at), Step("list", {}), Step("resume", {})>>
               ELSE <<>>

Removing(l) == InDebugger("delete", {l}) \o <<Step("drop", {l})>>
Clearing == InDebugger("delete", Listed) \o <<Step("clear", Listed)>>

(* Variant: an entry of the same line stays in the debugger. *)
AddingTwice(l) ==
  (IF l \in Listed THEN <<Step("drop", {l})>> ELSE <<>>)
    \o <<Step("enter", {l})>> \o InDebugger("insert", {l})

(* Variant: the entry of the same line is not removed first. *)
AddingAgain(l) == <<Step("enter", {l})>> \o InDebugger("insert", {l})

Adding(l) ==
  (IF l \in Listed THEN Removing(l) ELSE <<>>)
    \o <<Step("enter", {l})>> \o InDebugger("insert", {l})

Switching(on, at) ==
  InDebugger(IF on THEN "enable" ELSE "disable", at) \o <<Step(IF on THEN "on" ELSE "off", at)>>

Ask(steps) ==
  /\ ops = <<>> /\ acts < MaxActs
  /\ ops' = steps /\ acts' = acts + 1
  /\ UNCHANGED <<manager, restart, sent, sigint, lines, debugger, shown, astray, stops, starts>>

AddBreakpoint == \E l \in Places :
  (\A i \in DOMAIN marks : marks[i].at = l => ~marks[i].on) /\ Ask(Adding(l))
RemoveBreakpoint == \E l \in Listed : Ask(Removing(l))
EnableBreakpoint == \E l \in Listed, on \in BOOLEAN : Ask(Switching(on, {l}))
ClearAllBreakpoints == marks # <<>> /\ Ask(Clearing)
DisableAllBreakpoints == marks # <<>> /\ Ask(Switching(FALSE, Listed))

(* Neither looks whether the program is halted: the menu offers "Start" only *)
(* then (Project.cpp:347), but a script may call StartApp() at any time, and *)
(* the views offer "Set next statement" as long as there is a session.      *)
RunContinue == debugging /\ Ask(<<Step("continue", {})>>)
SetNextStatement == \E l \in Places :
  debugging /\ Ask(<<Step("temporary", {l}), Step("continue", {})>>)

Break ==
  /\ ops = <<>> /\ acts < MaxActs /\ debugging /\ ~breaked
  /\ sigint' = TRUE /\ acts' = acts + 1
  /\ UNCHANGED <<manager, user, sent, lines, debugger, shown, astray, stops, starts>>

(* _AttachDebugger(): the open views tell their marks, one file after the    *)
(* other and the enabled ones of a file first; what is known of files that   *)
(* nobody shows stays where and as it was.                                  *)
SameFile(l, k) == \E f \in Files : {l, k} \subseteq f
Orders ==
  {o \in Bijection(DOMAIN marks, DOMAIN marks) :
     \A i, j \in DOMAIN marks : i < j =>
       LET b == marks[o[i]]  c == marks[o[j]] IN
       /\ c.at \in Closed => b.at \in Closed /\ o[i] < o[j]
       /\ SameFile(b.at, c.at) /\ c.at \notin Closed =>
            /\ c.on => b.on
            /\ \A n \in i..j : SameFile(b.at, marks[o[n]].at)}
Reordered(o) ==
  [i \in DOMAIN marks |->
     IF marks[o[i]].at \in Closed THEN marks[o[i]] ELSE [marks[o[i]] EXCEPT !.no = 0]]
Inserts(s) == [i \in DOMAIN s |-> Step("insert", {s[i].at})]

Attach(process) ==
  /\ ops = <<>> /\ ~debugging /\ starts < MaxStarts
  /\ \E o \in Orders :
       /\ marks' = Reordered(o)
       /\ ops' = Inserts(Reordered(o))
                   \o <<Step("guess", {}), Step(IF process THEN "halted" ELSE "run", {})>>
  /\ debugging' = TRUE /\ breaked' = FALSE /\ ignore' = 0
  /\ prog' = IF process THEN "halted" ELSE "none"
  /\ starts' = starts + 1
  /\ UNCHANGED <<found, restart, sent, sigint, lines, points, number, shown, astray, acts, stops>>

(* The session ends: see DebugSession. *)
End ==
  /\ debugging /\ ops = <<>> /\ found = NotFound
  /\ debugging' = FALSE
  /\ prog' = "none" /\ points' = {} /\ number' = 1
  /\ sent' = <<>> /\ lines' = <<>> /\ sigint' = FALSE
  /\ shown' = "running" /\ astray' = {}
  /\ UNCHANGED <<marks, breaked, ignore, found, user, tally>>

-----------------------------------------------------------------------------
(* The steps of the GUI thread.                                            *)

Pause ==
  /\ Does("pause")
  /\ IF breaked
     THEN Done /\ restart' = FALSE /\ UNCHANGED <<ignore, sigint>>
     ELSE /\ ops' = <<Step("await", {})>> \o Tail(ops)
          /\ ignore' = ignore + 1 /\ sigint' = TRUE
          /\ UNCHANGED restart
  /\ UNCHANGED <<marks, debugging, breaked, found, sent, lines, debugger, shown, astray, tally>>

StopIsComing == sigint \/ \E n \in DOMAIN lines : lines[n].word = "stopped"

(* ... until it is breaked, or for a second. *)
Await ==
  /\ Does("await")
  /\ breaked \/ Late \/ ~StopIsComing
  /\ restart' = breaked /\ Done
  /\ UNCHANGED <<manager, sent, sigint, lines, debugger, shown, astray, tally>>

(* The numbers are read when the command is sent; _AttachDebugger() guesses  *)
(* those of the disabled ones.                                              *)
Guessed == {i \in DOMAIN marks : ~marks[i].on}

Write ==
  /\ ops # <<>> /\ Done
  /\ LET s == Head(ops) IN
     \/ s.do \in {"insert", "temporary", "list", "run", "continue"}
        /\ UNCHANGED restart
        /\ sent' = Append(sent, Command(s.do, s.at, {}))
     \/ s.do \in {"delete", "enable", "disable"}
        /\ UNCHANGED restart
        /\ sent' = Append(sent, Command(s.do, s.at, Numbers(s.at)))
     \/ s.do = "guess" /\ UNCHANGED restart
        /\ sent' = IF Guessed = {} THEN sent
                   ELSE Append(sent, Command("disable", {marks[i].at : i \in Guessed}, Guessed))
     \/ s.do = "resume" /\ restart' = FALSE
        /\ sent' = IF restart THEN Append(sent, Command("continue", {}, {})) ELSE sent
  /\ UNCHANGED <<manager, sigint, lines, debugger, shown, astray, tally>>

Store ==
  /\ ops # <<>> /\ Done
  /\ LET s == Head(ops) IN
     \/ s.do = "enter" /\ \E l \in s.at :
          marks' = Append(marks, [at |-> l, no |-> 0, on |-> TRUE])
     \/ s.do = "drop" /\ \E i \in DOMAIN marks :
          marks[i].at \in s.at /\ marks' = RemoveAt(marks, i)
     \/ s.do = "clear" /\ marks' = <<>>
     \/ s.do \in {"on", "off"}
        /\ marks' = [i \in DOMAIN marks |->
                       IF marks[i].at \in s.at THEN [marks[i] EXCEPT !.on = (s.do = "on")]
                       ELSE marks[i]]
  /\ UNCHANGED <<debugging, breaked, ignore, found, restart, sent, sigint, lines, debugger,
                 shown, astray, tally>>

(* AttachProcess() *)
Halted ==
  /\ Does("halted") /\ Done
  /\ breaked' = TRUE /\ shown' = "stopped"
  /\ UNCHANGED <<marks, debugging, ignore, found, restart, sent, sigint, lines, debugger,
                 astray, tally>>

-----------------------------------------------------------------------------
(* The debugger.                                                           *)

Says(s) == lines' = lines \o s \o <<Prompt>>
Stopped == Said("stopped", {}, 0)

(* The places a command was not meant for, or missed. *)
Misses(c) ==
  {l \in Places : (l \in c.at) # (\E p \in points : p.at = l /\ p.no \in c.nos)}

Insert(c) ==
  \E l \in c.at :
    IF l \in Absent
    THEN Says(<<>>) /\ UNCHANGED <<points, number>> /\ astray' = astray \union {l}
    ELSE /\ points' = IF c.do = "temporary" THEN points
                      ELSE points \union {[no |-> number, at |-> l, on |-> TRUE]}
         /\ number' = number + 1
         /\ Says(<<Said("bkpt", {l}, number)>>)
         /\ UNCHANGED astray

Change(c) ==
  /\ points' = IF c.do = "delete" THEN {p \in points : p.no \notin c.nos}
               ELSE {IF p.no \in c.nos THEN [p EXCEPT !.on = (c.do = "enable")] ELSE p : p \in points}
  /\ astray' = astray \union Misses(c)
  /\ Says(<<>>) /\ UNCHANGED number

Execute ==
  /\ sent # <<>> /\ prog # "running"
  /\ sent' = Tail(sent)
  /\ LET c == Head(sent) IN
     \/ c.do \in {"insert", "temporary"} /\ Insert(c) /\ UNCHANGED prog
     \/ c.do \in {"delete", "enable", "disable"} /\ Change(c) /\ UNCHANGED prog
     \/ c.do = "list" /\ Says(<<>>) /\ UNCHANGED <<debugger, astray>>
     \/ c.do \in {"run", "continue"} /\ prog' = "running" /\ Says(<<Said("running", {}, 0)>>)
        /\ UNCHANGED <<points, number, astray>>
  /\ UNCHANGED <<manager, user, sigint, shown, tally>>

ProgramStops ==
  /\ prog = "running" /\ stops < MaxStops
  /\ prog' = "halted" /\ stops' = stops + 1
  /\ Says(<<Stopped>>)
  /\ UNCHANGED <<manager, user, sent, sigint, points, number, shown, astray, acts, starts>>

Interrupted ==
  /\ sigint /\ sigint' = FALSE
  /\ IF prog = "running" THEN prog' = "halted" /\ Says(<<Stopped>>)
     ELSE Says(<<>>) /\ UNCHANGED prog
  /\ UNCHANGED <<manager, user, sent, points, number, shown, astray, tally>>

-----------------------------------------------------------------------------
(* The shell thread: OnIncomingLine().  It takes no lock, so the list may    *)
(* change between finding an entry and storing the number.                  *)

Hear(word) ==
  /\ lines # <<>> /\ found = NotFound /\ Head(lines).word = word
  /\ lines' = Tail(lines)
  /\ UNCHANGED <<marks, debugging, user, sent, sigint, debugger, tally>>

HearPrompt ==
  /\ Hear("prompt")
  /\ ignore' = IF ignore > 0 THEN ignore - 1 ELSE 0
  /\ UNCHANGED <<breaked, found, shown, astray>>

HearRunning ==
  /\ Hear("running")
  /\ breaked' = FALSE /\ shown' = "running"
  /\ UNCHANGED <<ignore, found, astray>>

(* Variant: a stop of our own is no break. *)
HearStoppedOurs ==
  /\ Hear("stopped")
  /\ breaked' = (ignore = 0 \/ breaked) /\ shown' = IF ignore > 0 THEN shown ELSE "stopped"
  /\ UNCHANGED <<ignore, found, astray>>

HearStopped ==
  /\ Hear("stopped")
  /\ breaked' = TRUE /\ shown' = IF ignore > 0 THEN shown ELSE "stopped"
  /\ UNCHANGED <<ignore, found, astray>>

HearNumber ==
  /\ Hear("bkpt")
  /\ LET at == {i \in DOMAIN marks : marks[i].at \in Head(lines).at} IN
     found' = IF at = {} THEN NotFound
              ELSE [index |-> CHOOSE i \in at : \A j \in at : i <= j,
                    no |-> Head(lines).no, at |-> Head(lines).at]
  /\ UNCHANGED <<breaked, ignore, shown, astray>>

_UpdateBreakpoint ==
  /\ found # NotFound /\ found' = NotFound
  /\ marks' = IF found.index \in DOMAIN marks THEN [marks EXCEPT ![found.index].no = found.no]
              ELSE marks
  /\ UNCHANGED <<debugging, breaked, ignore, user, sent, sigint, lines, debugger, shown, astray, tally>>

-----------------------------------------------------------------------------
(* Some break points were set, and disabled, before the first session. *)
PointInit ==
  /\ marks \in {<<>>} \union {<<[at |-> l, no |-> 0, on |-> FALSE]>> : l \in Closed}
  /\ debugging = FALSE /\ breaked = FALSE /\ ignore = 0 /\ found = NotFound
  /\ ops = <<>> /\ restart = FALSE
  /\ sent = <<>> /\ sigint = FALSE /\ lines = <<>>
  /\ prog = "none" /\ points = {} /\ number = 1
  /\ shown = "running" /\ astray = {}
  /\ acts = 0 /\ stops = 0 /\ starts = 0

PointNext ==
  \/ AddBreakpoint \/ RemoveBreakpoint \/ EnableBreakpoint
  \/ ClearAllBreakpoints \/ DisableAllBreakpoints
  \/ RunContinue \/ SetNextStatement \/ Break
  \/ \E process \in BOOLEAN : Attach(process)
  \/ End
  \/ Pause \/ Await \/ Write \/ Store \/ Halted
  \/ Execute \/ ProgramStops \/ Interrupted
  \/ HearPrompt \/ HearRunning \/ HearStopped \/ HearNumber \/ _UpdateBreakpoint

PointSpec == PointInit /\ [][PointNext]_pointVars

-----------------------------------------------------------------------------
(* The types; no place is on the list twice.                               *)
PointTypeOK ==
  /\ \A i \in DOMAIN marks : marks[i] \in [at : Places, no : Nat, on : BOOLEAN]
  /\ points \subseteq [no : 1..number, at : Places, on : BOOLEAN]
  /\ Len(marks) = Cardinality(Listed) /\ astray \subseteq Places
  /\ prog \in {"none", "running", "halted"} /\ shown \in {"running", "stopped"}

(* Nothing is left to be done, read or heard. *)
Settled ==
  debugging /\ ops = <<>> /\ sent = <<>> /\ lines = <<>> /\ ~sigint /\ found = NotFound

(* The list and the debugger agree on the break points once all is said,    *)
(* but for the places where a command went by a number that was not (yet)   *)
(* theirs: "we'll soon learn when GDB answers" (DebugManager.cpp:291).      *)
PointsAgree ==
  Settled => \A l \in Places \ astray :
    {<<p.on>> : p \in {q \in points : q.at = l}} =
    {<<marks[i].on>> : i \in {j \in DOMAIN marks : marks[j].at = l}}
    /\ Cardinality({p \in points : p.at = l}) <= 1

(* The user is shown whether the program runs: a stop of the manager's own,  *)
(* "an internal event" (DebugManager.cpp:1040), is over, any other is shown, *)
(* and the next one will be.                                               *)
ShownAgrees ==
  Settled => /\ ignore = 0
             /\ breaked <=> prog = "halted"
             /\ shown = "stopped" <=> prog = "halted"

=============================================================================
