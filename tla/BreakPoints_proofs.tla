-------------------------- MODULE BreakPoints_proofs --------------------------
(***************************************************************************)
(* Theorems about BreakPoints, for any places and any number of requests,   *)
(* stops and sessions: its types; the list and the debugger agree but for    *)
(* the places in `astray'; and, if a break takes less than its second, the   *)
(* user is shown whether the program runs.                                  *)
(***************************************************************************)
EXTENDS BreakPoints, SequenceTheorems, FiniteSetTheorems, TLAPS

-----------------------------------------------------------------------------
(* Types. *)
Entries == [at : Places, no : Nat, on : BOOLEAN]
Instructions == {"insert", "temporary", "delete", "enable", "disable", "list", "run", "continue"}
Names == Instructions \union
  {"pause", "await", "guess", "resume", "halted", "enter", "drop", "clear", "on", "off"}
Steps == [do : Names, at : SUBSET Places]
Commands == [do : Instructions, at : SUBSET Places, nos : SUBSET Nat]
Words == [word : {"prompt", "running", "stopped", "bkpt"}, at : SUBSET Places, no : Nat]

Distinct(q) == \A i, j \in DOMAIN q : q[i].at = q[j].at => i = j

TypeInv ==
  /\ marks \in Seq(Entries) /\ Distinct(marks)
  /\ debugging \in BOOLEAN /\ breaked \in BOOLEAN /\ ignore \in Nat
  /\ found.no \in Nat
  /\ ops \in Seq(Steps) /\ restart \in BOOLEAN
  /\ sent \in Seq(Commands) /\ sigint \in BOOLEAN /\ lines \in Seq(Words)
  /\ prog \in {"none", "running", "halted"}
  /\ number \in Nat \ {0} /\ points \subseteq [no : 1..number, at : Places, on : BOOLEAN]
  /\ shown \in {"running", "stopped"} /\ astray \subseteq Places

(* Before and after a session there is nothing of the debugger. *)
AtRest ==
  /\ sent = <<>> /\ lines = <<>> /\ ~sigint
  /\ prog = "none" /\ points = {} /\ astray = {} /\ shown = "running"
QuietSteps == {s \in Steps : s.do \in {"enter", "drop", "clear", "on", "off"}}
QuietInv == ~debugging => AtRest /\ ops \in Seq(QuietSteps)

(* Some steps and commands are about one place. *)
SingleSteps ==
  {s \in Steps : s.do \in {"insert", "enter", "drop"} => \E l \in Places : s.at = {l}}
SingleCommands == {c \in Commands : c.do = "insert" => \E l \in Places : c.at = {l}}
SingleInv == ops \in Seq(SingleSteps) /\ sent \in Seq(SingleCommands)

-----------------------------------------------------------------------------
(* What becomes of one place: d says what the debugger has there, and        *)
(* "stray" once a command has gone astray; m is what the list has.          *)
ListStates == {"none", "on", "off"}
DebuggerStates == {"none", "on", "off", "stray"}
Views == [d : DebuggerStates, m : ListStates]
View(d, m) == [d |-> d, m |-> m]

AtDebugger(l) ==
  IF l \in astray THEN "stray"
  ELSE IF \A p \in points : p.at # l THEN "none"
  ELSE IF \E p \in points : p.at = l /\ p.on THEN "on" ELSE "off"
InList(l) ==
  IF l \notin Listed THEN "none"
  ELSE IF \E i \in DOMAIN marks : marks[i].at = l /\ marks[i].on THEN "on" ELSE "off"

(* A step, or a command, of the name do. *)
Changed(d, to) == IF d \in {"on", "off"} THEN to ELSE "stray"
Effect(v, e, l) ==
  CASE e.do = "insert" /\ l \in e.at  -> [v EXCEPT !.d = IF @ = "stray" THEN @ ELSE "on"]
    [] e.do = "delete" /\ l \in e.at  -> [v EXCEPT !.d = Changed(@, "none")]
    [] e.do = "enable" /\ l \in e.at  -> [v EXCEPT !.d = Changed(@, "on")]
    [] e.do = "disable" /\ l \in e.at -> [v EXCEPT !.d = Changed(@, "off")]
    [] e.do = "guess" /\ v.m = "off"  -> [v EXCEPT !.d = Changed(@, "off")]
    [] e.do = "enter" /\ l \in e.at   -> [v EXCEPT !.m = "on"]
    [] e.do = "drop" /\ l \in e.at    -> [v EXCEPT !.m = "none"]
    [] e.do = "clear"                 -> [v EXCEPT !.m = "none"]
    [] e.do \in {"on", "off"} /\ l \in e.at /\ v.m # "none" -> [v EXCEPT !.m = e.do]
    [] OTHER -> v

(* Nothing is inserted or entered twice. *)
Allows(v, e, l) ==
  l \in e.at => /\ e.do = "insert" => v.d \in {"none", "stray"}
                /\ e.do = "enter" => v.m = "none"

(* The steps q lead from v to w. *)
Path(v, q, w, l) ==
  \E h \in [1..(Len(q) + 1) -> Views] :
    /\ h[1] = v /\ h[Len(q) + 1] = w
    /\ \A i \in 1..Len(q) : Allows(h[i], q[i], l) /\ h[i + 1] = Effect(h[i], q[i], l)

(* What was sent, and then what is yet to be done, makes the debugger agree  *)
(* with the list.                                                          *)
AgreeInv ==
  \A l \in Places : \E d \in DebuggerStates, w \in Views :
    /\ Path(View(AtDebugger(l), "none"), sent, View(d, "none"), l)
    /\ Path(View(d, InList(l)), ops, w, l)
    /\ debugging => w.d \in {"stray", w.m}

UniqueInv ==
  \A p, q \in points : p.at = q.at /\ p.at \notin astray => p = q

-----------------------------------------------------------------------------
(* What the user is shown. *)
LinesInv ==
  \A i \in DOMAIN lines :
    lines[i].word # "prompt" => i < Len(lines) /\ lines[i + 1].word = "prompt"

News(q, i) == q[i].word \in {"running", "stopped"}
Latest(q, i) == i \in 1..Len(q) /\ News(q, i) /\ \A j \in 1..Len(q) : j > i => ~News(q, j)
NoNews(q) == \A i \in 1..Len(q) : ~News(q, i)

(* A program that is attached to is halted before the manager knows. *)
HaltPending == \E i \in DOMAIN ops : ops[i].do = "halted"
HaltedInv ==
  HaltPending =>
    /\ \A i \in DOMAIN ops : ops[i].do \in {"insert", "guess"} \/ (ops[i].do = "halted" /\ i = Len(ops))
    /\ \A i \in DOMAIN sent : sent[i].do \notin {"run", "continue"}
    /\ NoNews(lines)
    /\ prog = "halted" /\ ~breaked /\ ~sigint /\ shown = "running"

(* _PauseDebugger(), the command, "-break-list", _ResumeDebugger(). *)
Pauses(s) == s.do \in {"pause", "await"}
Blocks ==
  \A i \in DOMAIN ops :
    /\ ops[i].do = "await" => i = 1
    /\ Pauses(ops[i]) =>
         /\ i + 3 \in DOMAIN ops /\ ops[i + 3].do = "resume"
         /\ ~Pauses(ops[i + 1]) /\ ~Pauses(ops[i + 2])
Restarts ==
  restart =>
    \E k \in DOMAIN ops : ops[k].do = "resume" /\ \A j \in 1..k : ~Pauses(ops[j])
BlockInv == Blocks /\ Restarts

Awaiting == Does("await")

(* The last word on the program is right, and without one the manager is. *)
NewsInv ==
  debugging =>
    /\ \A i \in 1..Len(lines) : Latest(lines, i) =>
         prog = IF lines[i].word = "running" THEN "running" ELSE "halted"
    /\ NoNews(lines) =>
                 /\ HaltPending \/ (breaked <=> prog = "halted")
                 /\ shown = "stopped" => prog = "halted"

(* The prompts before line n, and those that do not belong to a stop. *)
Prompts(q, n) == {i \in 1..Len(q) : q[i].word = "prompt" /\ i < n}
Spare(q) == {i \in 1..Len(q) : q[i].word = "prompt" /\ (i > 1 => q[i - 1].word # "stopped")}

(* m_nIgnoreBreaks does not outlast the prompts that are on their way, but  *)
(* for the stop the GUI thread waits for.                                  *)
IgnoreInv ==
  debugging =>
    \/ ignore <= Cardinality(Spare(lines))
    \/ /\ Awaiting /\ StopIsComing /\ ~breaked
       /\ ignore <= Cardinality(Spare(lines)) + 1

(* Whoever hides a stop lets the program run on. *)
Resumes ==
  \/ Awaiting
  \/ restart
  \/ \E i \in DOMAIN sent : sent[i].do \in {"run", "continue"}
HiddenInv ==
  debugging =>
    /\ \A i \in 1..Len(lines) :
         Latest(lines, i) /\ lines[i].word = "stopped" /\ ignore > Cardinality(Prompts(lines, i)) => Resumes
    /\ NoNews(lines) /\ breaked /\ shown = "running" => Resumes

-----------------------------------------------------------------------------
(* Sequences. *)
LEMMA TailOf ==
  ASSUME NEW S, NEW q \in Seq(S), q # <<>>
  PROVE  /\ Len(q) \in Nat /\ 1 \in 1..Len(q) /\ Head(q) = q[1] /\ Head(q) \in S
         /\ Tail(q) \in Seq(S) /\ Len(Tail(q)) = Len(q) - 1
         /\ \A i \in 1..(Len(q) - 1) : i + 1 \in 1..Len(q) /\ Tail(q)[i] = q[i + 1]
  OBVIOUS

LEMMA AppendOf ==
  ASSUME NEW S, NEW q \in Seq(S), NEW e \in S
  PROVE  /\ Len(q) \in Nat /\ Append(q, e) \in Seq(S) /\ Len(Append(q, e)) = Len(q) + 1
         /\ \A i \in 1..Len(q) : Append(q, e)[i] = q[i]
         /\ Append(q, e)[Len(q) + 1] = e
  OBVIOUS

LEMMA ConcatOf ==
  ASSUME NEW S, NEW p \in Seq(S), NEW q \in Seq(S)
  PROVE  /\ Len(p) \in Nat /\ Len(q) \in Nat /\ p \o q \in Seq(S) /\ Len(p \o q) = Len(p) + Len(q)
         /\ \A i \in 1..Len(p) : (p \o q)[i] = p[i]
         /\ \A i \in 1..Len(q) : (p \o q)[Len(p) + i] = q[i]
         /\ \A i \in 1..Len(p \o q) : i \in 1..Len(p) \/ i - Len(p) \in 1..Len(q)
  OBVIOUS

LEMMA RemoveAtOf ==
  ASSUME NEW S, NEW q \in Seq(S), NEW i \in DOMAIN q
  PROVE  /\ Len(q) \in Nat /\ RemoveAt(q, i) \in Seq(S) /\ Len(RemoveAt(q, i)) = Len(q) - 1
         /\ \A j \in 1..(Len(q) - 1) :
              RemoveAt(q, i)[j] = IF j < i THEN q[j] ELSE q[j + 1]
<1> DEFINE a == SubSeq(q, 1, i - 1)
           b == SubSeq(q, i + 1, Len(q))
<1>1. Len(q) \in Nat /\ i \in 1..Len(q)
  OBVIOUS
<1>2. a \in Seq(S) /\ Len(a) = i - 1 /\ \A j \in 1..(i - 1) : a[j] = q[j]
  BY <1>1
<1>3. b \in Seq(S) /\ Len(b) = Len(q) - i /\ \A j \in 1..(Len(q) - i) : b[j] = q[i + j]
  BY <1>1
<1>4. RemoveAt(q, i) = a \o b
  BY DEF RemoveAt
<1> HIDE DEF a, b
<1>5. /\ a \o b \in Seq(S) /\ Len(a \o b) = Len(a) + Len(b)
      /\ \A j \in 1..Len(a) : (a \o b)[j] = a[j]
      /\ \A j \in 1..Len(b) : (a \o b)[Len(a) + j] = b[j]
  <2>1. a \in Seq(S) /\ b \in Seq(S)
    BY <1>2, <1>3
  <2> HIDE <1>1, <1>2, <1>3, <1>4
  <2>2. /\ a \o b \in Seq(S) /\ Len(a \o b) = Len(a) + Len(b)
    BY <2>1
  <2>3. \A j \in 1..Len(a) : (a \o b)[j] = a[j]
    BY <2>1
  <2>4. \A j \in 1..Len(b) : (a \o b)[Len(a) + j] = b[j]
    BY <2>1, ConcatOf
  <2> QED BY <2>2, <2>3, <2>4
<1>6. ASSUME NEW j \in 1..(Len(q) - 1)
      PROVE  (a \o b)[j] = IF j < i THEN q[j] ELSE q[j + 1]
  <2>1. CASE j < i
    BY <1>1, <1>2, <1>5, <2>1
  <2>2. CASE ~(j < i)
    <3>1. PICK k \in 1..(Len(q) - i) : j = (i - 1) + k /\ j + 1 = i + k
      <4>1. j - (i - 1) \in 1..(Len(q) - i) /\ j = (i - 1) + (j - (i - 1)) /\ j + 1 = i + (j - (i - 1))
        BY <1>1, <2>2
      <4> QED BY <4>1
    <3>2. (a \o b)[j] = b[k]
      BY <1>2, <1>3, <1>5, <3>1
    <3> QED BY <1>3, <2>2, <3>1, <3>2
  <2> QED BY <2>1, <2>2
<1>7. Len(a) + Len(b) = Len(q) - 1
  BY <1>1, <1>2, <1>3
<1> QED BY <1>1, <1>4, <1>5, <1>6, <1>7

-----------------------------------------------------------------------------
(* Paths. *)
LEMMA EffectType ==
  ASSUME NEW v \in Views, NEW e, NEW l PROVE Effect(v, e, l) \in Views
BY DEF Effect, Changed, Views, DebuggerStates, ListStates

LEMMA EffectSame ==
  ASSUME NEW v \in Views, NEW e, NEW f, e.do = f.do, e.at = f.at, NEW l
  PROVE  Effect(v, e, l) = Effect(v, f, l) /\ (Allows(v, e, l) <=> Allows(v, f, l))
BY DEF Effect, Allows

LEMMA PathEmpty ==
  ASSUME NEW v \in Views, NEW l PROVE Path(v, <<>>, v, l)
<1> DEFINE h == [i \in 1..1 |-> v]
<1>1. Len(<<>>) = 0 /\ h \in [1..(Len(<<>>) + 1) -> Views] /\ h[1] = v
  OBVIOUS
<1> HIDE DEF h
<1>2. h[Len(<<>>) + 1] = v /\ 1..Len(<<>>) = {}
  BY <1>1
<1> QED BY <1>1, <1>2 DEF Path

LEMMA PathNone ==
  ASSUME NEW v, NEW w, NEW l, Path(v, <<>>, w, l) PROVE v = w
BY DEF Path

LEMMA PathTail ==
  ASSUME NEW S, NEW q \in Seq(S), q # <<>>, NEW v, NEW w, NEW l, Path(v, q, w, l)
  PROVE  /\ v \in Views /\ w \in Views /\ Allows(v, Head(q), l)
         /\ Path(Effect(v, Head(q), l), Tail(q), w, l)
<1>1. PICK h \in [1..(Len(q) + 1) -> Views] :
        /\ h[1] = v /\ h[Len(q) + 1] = w
        /\ \A i \in 1..Len(q) : Allows(h[i], q[i], l) /\ h[i + 1] = Effect(h[i], q[i], l)
  BY DEF Path
<1> DEFINE g == [i \in 1..Len(q) |-> h[i + 1]]
<1>2. /\ Len(q) \in Nat /\ 1 \in 1..Len(q) /\ Head(q) = q[1] /\ Len(Tail(q)) = Len(q) - 1
      /\ \A i \in 1..(Len(q) - 1) : i + 1 \in 1..Len(q) /\ Tail(q)[i] = q[i + 1]
  BY TailOf
<1>3. /\ g \in [1..(Len(Tail(q)) + 1) -> Views]
      /\ g[1] = Effect(v, Head(q), l) /\ g[Len(Tail(q)) + 1] = w
  BY <1>1, <1>2
<1>4. ASSUME NEW i \in 1..Len(Tail(q))
      PROVE  Allows(g[i], Tail(q)[i], l) /\ g[i + 1] = Effect(g[i], Tail(q)[i], l)
  <2>1. i + 1 \in 1..Len(q) /\ i \in 1..Len(q) /\ Tail(q)[i] = q[i + 1] /\ g[i] = h[i + 1]
        /\ g[i + 1] = h[(i + 1) + 1]
    BY <1>2
  <2> QED BY <1>1, <2>1
<1>5. v \in Views /\ w \in Views /\ Allows(v, Head(q), l)
  BY <1>1, <1>2
<1> QED BY <1>3, <1>4, <1>5 DEF Path

LEMMA PathConcat ==
  ASSUME NEW S, NEW p \in Seq(S), NEW q \in Seq(S), NEW u, NEW v, NEW w, NEW l,
         Path(u, p, v, l), Path(v, q, w, l)
  PROVE  Path(u, p \o q, w, l)
<1>1. PICK h \in [1..(Len(p) + 1) -> Views] :
        /\ h[1] = u /\ h[Len(p) + 1] = v
        /\ \A i \in 1..Len(p) : Allows(h[i], p[i], l) /\ h[i + 1] = Effect(h[i], p[i], l)
  BY DEF Path
<1>2. PICK g \in [1..(Len(q) + 1) -> Views] :
        /\ g[1] = v /\ g[Len(q) + 1] = w
        /\ \A i \in 1..Len(q) : Allows(g[i], q[i], l) /\ g[i + 1] = Effect(g[i], q[i], l)
  BY DEF Path
<1> DEFINE r == p \o q
           f == [i \in 1..(Len(p) + Len(q) + 1) |-> IF i <= Len(p) THEN h[i] ELSE g[i - Len(p)]]
<1>3. /\ Len(p) \in Nat /\ Len(q) \in Nat /\ Len(r) = Len(p) + Len(q)
      /\ \A i \in 1..Len(p) : r[i] = p[i]
      /\ \A i \in 1..Len(q) : r[Len(p) + i] = q[i]
      /\ \A i \in 1..Len(r) : i \in 1..Len(p) \/ i - Len(p) \in 1..Len(q)
  BY ConcatOf
<1> HIDE DEF r
<1>4. f \in [1..(Len(r) + 1) -> Views] /\ f[1] = u /\ f[Len(r) + 1] = w
  BY <1>1, <1>2, <1>3
<1>5. ASSUME NEW i \in 1..Len(r)
      PROVE  Allows(f[i], r[i], l) /\ f[i + 1] = Effect(f[i], r[i], l)
  <2>1. CASE i \in 1..Len(p)
    <3>1. f[i] = h[i] /\ r[i] = p[i] /\ f[i + 1] = h[i + 1]
      BY <1>1, <1>2, <1>3, <2>1
    <3> QED BY <1>1, <2>1, <3>1
  <2>2. CASE i - Len(p) \in 1..Len(q)
    <3>0. i \in Int /\ Len(p) \in Int
      BY <1>3
    <3>1. PICK k \in 1..Len(q) : k = i - Len(p) /\ i = Len(p) + k
      <4>1. Len(p) + (i - Len(p)) = i
        BY <3>0
      <4> QED BY <2>2, <4>1
    <3>a. i \in 1..(Len(p) + Len(q)) /\ i \in Int /\ k \in Int /\ ~(i <= Len(p)) /\ ~(i + 1 <= Len(p))
      BY <1>3, <3>1
    <3>b. (i + 1) - Len(p) = k + 1 /\ i + 1 \in 1..(Len(p) + Len(q) + 1)
      BY <1>3, <3>1, <3>a
    <3>c. f[i] = g[k] /\ f[i + 1] = g[k + 1]
      BY <1>3, <3>1, <3>a, <3>b
    <3>2. r[i] = q[k]
      BY <1>3, <3>1
    <3> QED BY <1>2, <3>1, <3>2, <3>c
  <2> QED BY <1>3, <2>1, <2>2
<1> QED BY <1>4, <1>5 DEF Path, r

LEMMA PathOne ==
  ASSUME NEW e, NEW v \in Views, NEW l, Allows(v, e, l) PROVE Path(v, <<e>>, Effect(v, e, l), l)
<1> DEFINE w == Effect(v, e, l)
           h == [i \in 1..2 |-> IF i = 1 THEN v ELSE w]
<1>1. w \in Views
  BY EffectType
<1> HIDE DEF w
<1>2. h \in [1..(Len(<<e>>) + 1) -> Views] /\ h[1] = v /\ h[Len(<<e>>) + 1] = w /\ Len(<<e>>) = 1
  BY <1>1
<1>3. \A i \in 1..Len(<<e>>) : Allows(h[i], <<e>>[i], l) /\ h[i + 1] = Effect(h[i], <<e>>[i], l)
  BY <1>2 DEF w
<1> QED BY <1>2, <1>3 DEF Path, w

LEMMA PathTwo ==
  ASSUME NEW a, NEW b, NEW u \in Views, NEW l,
         Allows(u, a, l), Allows(Effect(u, a, l), b, l)
  PROVE  Path(u, <<a, b>>, Effect(Effect(u, a, l), b, l), l)
<1> DEFINE v == Effect(u, a, l)
           w == Effect(v, b, l)
           h == [i \in 1..3 |-> IF i = 1 THEN u ELSE IF i = 2 THEN v ELSE w]
<1>1. v \in Views /\ w \in Views
  BY EffectType
<1>2. Allows(u, a, l) /\ v = Effect(u, a, l) /\ Allows(v, b, l) /\ w = Effect(v, b, l)
  OBVIOUS
<1> HIDE DEF v, w
<1>3. Len(<<a, b>>) = 2 /\ <<a, b>>[1] = a /\ <<a, b>>[2] = b
  OBVIOUS
<1>4. h \in [1..3 -> Views] /\ h[1] = u /\ h[2] = v /\ h[3] = w
  BY <1>1
<1> HIDE DEF h
<1>5. ASSUME NEW i \in 1..2
      PROVE  Allows(h[i], <<a, b>>[i], l) /\ h[i + 1] = Effect(h[i], <<a, b>>[i], l)
  <2>1. i = 1 \/ i = 2
    OBVIOUS
  <2> QED BY <1>2, <1>3, <1>4, <2>1
<1>6. Path(u, <<a, b>>, w, l)
  BY <1>3, <1>4, <1>5 DEF Path
<1> QED BY <1>6 DEF v, w

LEMMA PathAppend ==
  ASSUME NEW S, NEW q \in Seq(S), NEW e \in S, NEW v, NEW w, NEW l,
         Path(v, q, w, l), Allows(w, e, l)
  PROVE  Path(v, Append(q, e), Effect(w, e, l), l)
<1>1. w \in Views
  BY DEF Path
<1>2. Path(w, <<e>>, Effect(w, e, l), l)
  BY <1>1, PathOne
<1>3. Append(q, e) = q \o <<e>> /\ <<e>> \in Seq(S)
  OBVIOUS
<1> HIDE DEF Path
<1> QED BY <1>2, <1>3, PathConcat

(* Once a command has gone astray, nothing brings the debugger back. *)
Stray(v) == [v EXCEPT !.d = "stray"]

LEMMA StrayEffect ==
  ASSUME NEW v \in Views, NEW e, NEW l, Allows(v, e, l)
  PROVE  Allows(Stray(v), e, l) /\ Effect(Stray(v), e, l) = Stray(Effect(v, e, l))
BY DEF Allows, Stray, Effect, Changed, Views, DebuggerStates, ListStates

LEMMA PathStray ==
  ASSUME NEW S, NEW q \in Seq(S), NEW v, NEW w, NEW l, Path(v, q, w, l)
  PROVE  Path(Stray(v), q, Stray(w), l)
<1>1. PICK h \in [1..(Len(q) + 1) -> Views] :
        /\ h[1] = v /\ h[Len(q) + 1] = w
        /\ \A i \in 1..Len(q) : Allows(h[i], q[i], l) /\ h[i + 1] = Effect(h[i], q[i], l)
  BY DEF Path
<1> DEFINE g == [i \in 1..(Len(q) + 1) |-> Stray(h[i])]
<1>2. Len(q) \in Nat
  OBVIOUS
<1>3. \A i \in 1..(Len(q) + 1) : Stray(h[i]) \in Views
  BY DEF Stray, Views, DebuggerStates
<1>4. /\ g \in [1..(Len(q) + 1) -> Views] /\ g[1] = Stray(v) /\ g[Len(q) + 1] = Stray(w)
  BY <1>1, <1>2, <1>3
<1>5. ASSUME NEW i \in 1..Len(q)
      PROVE  Allows(g[i], q[i], l) /\ g[i + 1] = Effect(g[i], q[i], l)
  <2>1. g[i] = Stray(h[i]) /\ g[i + 1] = Stray(h[i + 1]) /\ h[i] \in Views
    BY <1>2
  <2> QED BY <1>1, <2>1, StrayEffect
<1> QED BY <1>4, <1>5 DEF Path

-----------------------------------------------------------------------------
(* Types. *)
LEMMA TupleTypes ==
  ASSUME NEW S, NEW a \in S, NEW b \in S
  PROVE  <<>> \in Seq(S) /\ <<a>> \in Seq(S) /\ <<a, b>> \in Seq(S)
OBVIOUS

LEMMA FourType ==
  ASSUME NEW S, NEW a \in S, NEW b \in S, NEW c \in S, NEW d \in S
  PROVE  <<a, b, c, d>> \in Seq(S)
OBVIOUS

LEMMA StepType ==
  ASSUME NEW do \in Names, NEW at \in SUBSET Places
  PROVE  /\ Step(do, at) \in Steps /\ Step(do, at).do = do /\ Step(do, at).at = at
         /\ <<Step(do, at)>> \in Seq(Steps)
<1>1. Step(do, at) \in Steps /\ Step(do, at).do = do /\ Step(do, at).at = at
  BY DEF Step, Steps
<1> HIDE DEF Steps
<1> QED BY <1>1, TupleTypes

LEMMA ListedType ==
  ASSUME marks \in Seq(Entries) PROVE Listed \in SUBSET Places
<1>1. ASSUME NEW i \in DOMAIN marks PROVE marks[i].at \in Places
  <2>1. marks[i] \in Entries
    OBVIOUS
  <2> QED BY <2>1 DEF Entries
<1> QED BY <1>1 DEF Listed

(* The steps of the plans, in the list and in the debugger. *)
Local(S) ==
  /\ \A l \in Places : Step("drop", {l}) \in S /\ Step("enter", {l}) \in S
  /\ \A at \in SUBSET Places :
       Step("clear", at) \in S /\ Step("on", at) \in S /\ Step("off", at) \in S
Remote(S) ==
  /\ Step("pause", {}) \in S /\ Step("list", {}) \in S /\ Step("resume", {}) \in S
  /\ Step("continue", {}) \in S
  /\ \A l \in Places : Step("insert", {l}) \in S /\ Step("temporary", {l}) \in S
  /\ \A at \in SUBSET Places :
       Step("delete", at) \in S /\ Step("enable", at) \in S /\ Step("disable", at) \in S

LEMMA InDebuggerIn ==
  ASSUME NEW S, NEW do, NEW at, debugging => Remote(S) /\ Step(do, at) \in S
  PROVE  InDebugger(do, at) \in Seq(S)
<1>1. CASE debugging
  <2>1. /\ Step("pause", {}) \in S /\ Step(do, at) \in S
        /\ Step("list", {}) \in S /\ Step("resume", {}) \in S
    BY <1>1 DEF Remote
  <2>2. <<Step("pause", {}), Step(do, at), Step("list", {}), Step("resume", {})>> \in Seq(S)
    BY <2>1, FourType
  <2> QED BY <1>1, <2>2 DEF InDebugger
<1>2. CASE ~debugging
  BY <1>2 DEF InDebugger
<1> QED BY <1>1, <1>2

LEMMA RemovingIn ==
  ASSUME NEW S, Local(S), debugging => Remote(S), NEW l \in Places
  PROVE  Removing(l) \in Seq(S)
<1>1. {l} \in SUBSET Places
  OBVIOUS
<1>2. InDebugger("delete", {l}) \in Seq(S)
  BY <1>1, InDebuggerIn DEF Remote
<1>3. <<Step("drop", {l})>> \in Seq(S)
  BY TupleTypes DEF Local
<1> QED BY <1>2, <1>3, ConcatOf DEF Removing

LEMMA AddingIn ==
  ASSUME NEW S, Local(S), debugging => Remote(S), NEW l \in Places
  PROVE  Adding(l) \in Seq(S)
<1>1. <<Step("enter", {l})>> \in Seq(S)
  BY TupleTypes DEF Local
<1>2. InDebugger("insert", {l}) \in Seq(S)
  BY InDebuggerIn DEF Remote
<1> DEFINE r == IF l \in Listed THEN Removing(l) ELSE <<>>
<1>3. r \in Seq(S)
  BY RemovingIn
<1>4. Adding(l) = (r \o <<Step("enter", {l})>>) \o InDebugger("insert", {l})
  BY DEF Adding
<1> HIDE DEF r
<1>5. r \o <<Step("enter", {l})>> \in Seq(S)
  BY <1>1, <1>3, ConcatOf
<1> QED BY <1>2, <1>4, <1>5, ConcatOf

LEMMA ClearingIn ==
  ASSUME NEW S, Local(S), debugging => Remote(S), Listed \in SUBSET Places
  PROVE  Clearing \in Seq(S)
<1>1. <<Step("clear", Listed)>> \in Seq(S)
  BY TupleTypes DEF Local
<1>2. InDebugger("delete", Listed) \in Seq(S)
  BY InDebuggerIn DEF Remote
<1> QED BY <1>1, <1>2, ConcatOf DEF Clearing

LEMMA SwitchingIn ==
  ASSUME NEW S, Local(S), debugging => Remote(S), NEW on \in BOOLEAN, NEW at \in SUBSET Places
  PROVE  Switching(on, at) \in Seq(S)
<1>1. CASE on = TRUE
  <2>1. <<Step("on", at)>> \in Seq(S)
    BY TupleTypes DEF Local
  <2>2. InDebugger("enable", at) \in Seq(S)
    BY InDebuggerIn DEF Remote
  <2>3. Switching(on, at) = InDebugger("enable", at) \o <<Step("on", at)>>
    BY <1>1 DEF Switching
  <2> QED BY <2>1, <2>2, <2>3, ConcatOf
<1>2. CASE on = FALSE
  <2>1. <<Step("off", at)>> \in Seq(S)
    BY TupleTypes DEF Local
  <2>2. InDebugger("disable", at) \in Seq(S)
    BY InDebuggerIn DEF Remote
  <2>3. Switching(on, at) = InDebugger("disable", at) \o <<Step("off", at)>>
    BY <1>2 DEF Switching
  <2> QED BY <2>1, <2>2, <2>3, ConcatOf
<1> QED BY <1>1, <1>2

(* The plans for one place, or all. *)
Continuing == <<Step("continue", {})>>
Setting(l) == <<Step("temporary", {l}), Step("continue", {})>>

Asks == AddBreakpoint \/ RemoveBreakpoint \/ EnableBreakpoint \/ ClearAllBreakpoints
          \/ DisableAllBreakpoints \/ RunContinue \/ SetNextStatement

IsPlan(plan) ==
  \/ \E l \in Listed : plan = Removing(l)
  \/ \E l \in Places : plan = Adding(l)
  \/ plan = Clearing
  \/ \E on \in BOOLEAN, l \in Listed : plan = Switching(on, {l})
  \/ plan = Switching(FALSE, Listed)
  \/ debugging /\ plan = Continuing
  \/ debugging /\ \E l \in Places : plan = Setting(l)

LEMMA AskPlan ==
  ASSUME Asks PROVE \E plan : IsPlan(plan) /\ Ask(plan)
<1>1. CASE AddBreakpoint
  BY <1>1 DEF AddBreakpoint, IsPlan
<1>2. CASE RemoveBreakpoint
  BY <1>2 DEF RemoveBreakpoint, IsPlan
<1>3. CASE EnableBreakpoint
  BY <1>3 DEF EnableBreakpoint, IsPlan
<1>4. CASE ClearAllBreakpoints
  BY <1>4 DEF ClearAllBreakpoints, IsPlan
<1>5. CASE DisableAllBreakpoints
  BY <1>5 DEF DisableAllBreakpoints, IsPlan
<1>6. CASE RunContinue
  BY <1>6 DEF RunContinue, IsPlan, Continuing
<1>7. CASE SetNextStatement
  BY <1>7 DEF SetNextStatement, IsPlan, Setting
<1> QED BY <1>1, <1>2, <1>3, <1>4, <1>5, <1>6, <1>7 DEF Asks

LEMMA PlanIn ==
  ASSUME NEW S, Local(S), debugging => Remote(S), Listed \in SUBSET Places,
         NEW plan, IsPlan(plan)
  PROVE  plan \in Seq(S)
<1>1. debugging => Continuing \in Seq(S) /\ \A l \in Places : Setting(l) \in Seq(S)
  BY TupleTypes DEF Remote, Continuing, Setting
<1>2. \A l \in Listed : {l} \in SUBSET Places /\ l \in Places
  OBVIOUS
<1>3. CASE \/ \E l \in Listed : plan = Removing(l)
           \/ \E l \in Places : plan = Adding(l)
           \/ plan = Clearing
  BY <1>2, <1>3, RemovingIn, AddingIn, ClearingIn
<1>4. CASE \E on \in BOOLEAN, l \in Listed : plan = Switching(on, {l})
  BY <1>2, <1>4, SwitchingIn
<1>5. CASE plan = Switching(FALSE, Listed)
  BY <1>5, SwitchingIn
<1> QED BY <1>1, <1>3, <1>4, <1>5 DEF IsPlan

LEMMA StepsRemote == Local(Steps) /\ Remote(Steps)
<1>1. \A do \in Names, at \in SUBSET Places : Step(do, at) \in Steps
  BY StepType
<1>2. {} \in SUBSET Places /\ \A l \in Places : {l} \in SUBSET Places
  OBVIOUS
<1>3. /\ "drop" \in Names /\ "enter" \in Names /\ "clear" \in Names /\ "on" \in Names
      /\ "off" \in Names /\ "pause" \in Names /\ "list" \in Names /\ "resume" \in Names
      /\ "continue" \in Names /\ "insert" \in Names /\ "temporary" \in Names
      /\ "delete" \in Names /\ "enable" \in Names /\ "disable" \in Names
  BY DEF Names, Instructions
<1> HIDE DEF Steps, Names
<1>4. Local(Steps)
  BY <1>1, <1>2, <1>3 DEF Local
<1>5. Remote(Steps)
  BY <1>1, <1>2, <1>3 DEF Remote
<1> QED BY <1>4, <1>5

LEMMA PlanType ==
  ASSUME TypeInv, NEW plan, IsPlan(plan) PROVE plan \in Seq(Steps)
<1>1. Listed \in SUBSET Places
  BY ListedType DEF TypeInv
<1> QED BY <1>1, StepsRemote, PlanIn

-----------------------------------------------------------------------------
(* The types, step by step. *)
LEMMA SaidType ==
  ASSUME NEW word \in {"prompt", "running", "stopped", "bkpt"},
         NEW at \in SUBSET Places, NEW no \in Nat
  PROVE  Said(word, at, no) \in Words
BY DEF Said, Words

LEMMA StoppedType == <<Stopped>> \in Seq(Words) /\ <<>> \in Seq(Words)
<1>1. Stopped \in Words
  BY SaidType DEF Stopped
<1> HIDE DEF Words
<1> QED BY <1>1, TupleTypes

LEMMA SaysType ==
  ASSUME lines \in Seq(Words), NEW s \in Seq(Words), Says(s) PROVE lines' \in Seq(Words)
<1>1. Prompt \in Words
  BY SaidType DEF Prompt
<1> HIDE DEF Words
<1>2. lines' = (lines \o s) \o <<Prompt>> /\ <<Prompt>> \in Seq(Words)
  BY <1>1, TupleTypes DEF Says
<1>3. lines \o s \in Seq(Words)
  BY ConcatOf
<1> HIDE DEF Prompt
<1> QED BY <1>2, <1>3, ConcatOf

LEMMA CommandType ==
  ASSUME NEW do \in Instructions, NEW at \in SUBSET Places, NEW nos \in SUBSET Nat
  PROVE  Command(do, at, nos) \in Commands
BY DEF Command, Commands

LEMMA NumbersType ==
  ASSUME marks \in Seq(Entries), NEW at PROVE Numbers(at) \in SUBSET Nat
<1>1. ASSUME NEW i \in DOMAIN marks PROVE marks[i].no \in Nat
  <2>1. marks[i] \in Entries
    OBVIOUS
  <2> QED BY <2>1 DEF Entries
<1> QED BY <1>1 DEF Numbers

LEMMA OpsType ==
  ASSUME ops \in Seq(Steps), ops # <<>>
  PROVE  /\ Tail(ops) \in Seq(Steps) /\ Head(ops) \in Steps
         /\ Head(ops).do \in Names /\ Head(ops).at \in SUBSET Places
<1>1. Tail(ops) \in Seq(Steps) /\ Head(ops) \in Steps
  BY TailOf
<1> QED BY <1>1 DEF Steps

LEMMA TypeInit == PointInit => TypeInv
<1> SUFFICES ASSUME PointInit PROVE TypeInv
  OBVIOUS
<1>1. marks \in Seq(Entries) /\ Distinct(marks)
  <2>1. CASE marks = <<>>
    BY <2>1 DEF Distinct
  <2>2. CASE \E l \in Closed : marks = <<[at |-> l, no |-> 0, on |-> FALSE]>>
    <3>1. PICK l \in Closed : marks = <<[at |-> l, no |-> 0, on |-> FALSE]>>
      BY <2>2
    <3>2. [at |-> l, no |-> 0, on |-> FALSE] \in Entries
      BY FilesAssumption, ClosedAssumption DEF Entries
    <3>3. marks \in Seq(Entries)
      BY <3>1, <3>2, TupleTypes
    <3>4. DOMAIN marks = {1}
      BY <3>1
    <3> QED BY <3>3, <3>4 DEF Distinct
  <2> QED BY <2>1, <2>2 DEF PointInit
<1>2. found.no \in Nat
  BY DEF PointInit, NotFound
<1>3. ops \in Seq(Steps) /\ sent \in Seq(Commands) /\ lines \in Seq(Words)
  BY DEF PointInit
<1>4. /\ debugging \in BOOLEAN /\ breaked \in BOOLEAN /\ ignore \in Nat
      /\ restart \in BOOLEAN /\ sigint \in BOOLEAN
      /\ prog \in {"none", "running", "halted"}
      /\ shown \in {"running", "stopped"} /\ astray \subseteq Places
  BY DEF PointInit
<1>5. number \in Nat \ {0} /\ points \subseteq [no : 1..number, at : Places, on : BOOLEAN]
  BY DEF PointInit
<1> QED BY <1>1, <1>2, <1>3, <1>4, <1>5 DEF TypeInv

LEMMA TypeAsk == ASSUME TypeInv, Asks PROVE TypeInv'
<1>1. PICK plan : IsPlan(plan) /\ Ask(plan)
  BY AskPlan
<1>2. plan \in Seq(Steps)
  BY <1>1, PlanType
<1>3. ops' \in Seq(Steps)
  BY <1>1, <1>2 DEF Ask
<1> QED BY <1>1, <1>3 DEF TypeInv, Ask, manager, debugger

LEMMA TypeBreak == ASSUME TypeInv, Break PROVE TypeInv'
BY DEF TypeInv, Break, manager, user, debugger

LEMMA ReorderedType ==
  ASSUME TypeInv, NEW o \in Orders
  PROVE  /\ Reordered(o) \in Seq(Entries) /\ Distinct(Reordered(o))
         /\ DOMAIN Reordered(o) = DOMAIN marks
         /\ o \in [DOMAIN marks -> DOMAIN marks]
         /\ \A i \in DOMAIN marks : \E j \in DOMAIN marks : o[j] = i
         /\ \A i, j \in DOMAIN marks : o[i] = o[j] => i = j
         /\ \A i \in DOMAIN marks :
               Reordered(o)[i].at = marks[o[i]].at /\ Reordered(o)[i].on = marks[o[i]].on
<1>1. /\ o \in [DOMAIN marks -> DOMAIN marks]
      /\ \A i \in DOMAIN marks : \E j \in DOMAIN marks : o[j] = i
      /\ \A i, j \in DOMAIN marks : o[i] = o[j] => i = j
  BY DEF Orders, Bijection, Injection, Surjection, IsInjective
<1>2. ASSUME NEW i \in DOMAIN marks
      PROVE  /\ Reordered(o)[i] \in Entries
             /\ Reordered(o)[i].at = marks[o[i]].at /\ Reordered(o)[i].on = marks[o[i]].on
  <2>1. o[i] \in DOMAIN marks
    BY <1>1
  <2>2. marks[o[i]] \in Entries
    BY <2>1 DEF TypeInv
  <2>3. Reordered(o)[i] = IF marks[o[i]].at \in Closed THEN marks[o[i]] ELSE [marks[o[i]] EXCEPT !.no = 0]
    BY DEF Reordered
  <2> QED BY <2>2, <2>3 DEF Entries
<1>3. DOMAIN Reordered(o) = DOMAIN marks
  BY DEF Reordered
<1>4. DOMAIN marks = 1..Len(marks) /\ Len(marks) \in Nat
  BY DEF TypeInv
<1>5. Reordered(o) \in Seq(Entries)
  <2>1. Reordered(o) = [i \in 1..Len(marks) |-> Reordered(o)[i]]
    BY <1>4 DEF Reordered
  <2>2. \A i \in 1..Len(marks) : Reordered(o)[i] \in Entries
    BY <1>2, <1>4
  <2> HIDE DEF Entries
  <2>3. [i \in 1..Len(marks) |-> Reordered(o)[i]] \in [1..Len(marks) -> Entries]
    BY <2>2
  <2> QED BY <1>4, <2>1, <2>3
<1>6. Distinct(Reordered(o))
  <2> SUFFICES ASSUME NEW i \in DOMAIN marks, NEW j \in DOMAIN marks,
                      Reordered(o)[i].at = Reordered(o)[j].at
               PROVE  i = j
    BY <1>3 DEF Distinct
  <2>1. marks[o[i]].at = marks[o[j]].at /\ o[i] \in DOMAIN marks /\ o[j] \in DOMAIN marks
    BY <1>1, <1>2
  <2> QED BY <1>1, <2>1 DEF TypeInv, Distinct
<1> QED BY <1>1, <1>2, <1>3, <1>5, <1>6

LEMMA InsertsType ==
  ASSUME NEW s \in Seq(Entries)
  PROVE  /\ Inserts(s) \in Seq(Steps) /\ Len(Inserts(s)) = Len(s) /\ Len(s) \in Nat
         /\ \A i \in 1..Len(s) : Inserts(s)[i] = Step("insert", {s[i].at}) /\ s[i].at \in Places
<1>1. Len(s) \in Nat /\ DOMAIN s = 1..Len(s)
  OBVIOUS
<1>2. ASSUME NEW i \in 1..Len(s)
      PROVE  /\ s[i].at \in Places /\ Inserts(s)[i] = Step("insert", {s[i].at})
             /\ Inserts(s)[i] \in Steps
  <2>1. s[i] \in Entries
    BY <1>1
  <2>2. s[i].at \in Places /\ {s[i].at} \in SUBSET Places
    BY <2>1 DEF Entries
  <2>3. "insert" \in Names
    BY DEF Names, Instructions
  <2> QED BY <1>1, <2>2, <2>3, StepType DEF Inserts
<1> HIDE DEF Steps
<1>3. Inserts(s) \in [1..Len(s) -> Steps]
  BY <1>1, <1>2 DEF Inserts
<1> QED BY <1>1, <1>2, <1>3

LEMMA TypeAttach ==
  ASSUME TypeInv, NEW process \in BOOLEAN, Attach(process) PROVE TypeInv'
<1>1. PICK o \in Orders :
        /\ marks' = Reordered(o)
        /\ ops' = Inserts(Reordered(o))
                    \o <<Step("guess", {}), Step(IF process THEN "halted" ELSE "run", {})>>
  BY DEF Attach
<1> DEFINE b == IF process THEN "halted" ELSE "run"
           e == <<Step("guess", {}), Step(b, {})>>
<1>2. marks' \in Seq(Entries) /\ Distinct(marks)'
  <2> HIDE DEF b, e
  <2>1. Reordered(o) \in Seq(Entries) /\ Distinct(Reordered(o))
    BY ReorderedType
  <2>2. marks' = Reordered(o)
    BY <1>1
  <2> HIDE DEF Entries
  <2> QED BY <2>1, <2>2 DEF Distinct
<1>3. e \in Seq(Steps)
  <2>1. "guess" \in Names /\ b \in Names /\ {} \in SUBSET Places
    BY DEF Names, Instructions
  <2>2. Step("guess", {}) \in Steps /\ Step(b, {}) \in Steps
    BY <2>1, StepType
  <2> HIDE DEF Steps, b
  <2> QED BY <2>2, TupleTypes
<1>4. ops' = Inserts(Reordered(o)) \o e
  BY <1>1
<1> HIDE DEF e, Steps
<1>5. ops' \in Seq(Steps)
  BY <1>2, <1>3, <1>4, <1>1, InsertsType, ConcatOf
<1>6. /\ debugging' = TRUE /\ breaked' = FALSE /\ ignore' = 0
      /\ prog' \in {"none", "running", "halted"}
      /\ UNCHANGED <<found, restart, sent, sigint, lines, points, number, shown, astray>>
  BY DEF Attach
<1> QED BY <1>2, <1>5, <1>6 DEF TypeInv

LEMMA TypeEnd == ASSUME TypeInv, End PROVE TypeInv'
<1>1. /\ debugging' = FALSE /\ prog' = "none" /\ points' = {} /\ number' = 1
      /\ sent' = <<>> /\ lines' = <<>> /\ sigint' = FALSE
      /\ shown' = "running" /\ astray' = {}
      /\ UNCHANGED <<marks, breaked, ignore, found, ops, restart>>
  BY DEF End, user
<1>2. sent' \in Seq(Commands) /\ lines' \in Seq(Words)
  BY <1>1
<1>3. number' \in Nat \ {0} /\ points' \subseteq [no : 1..number', at : Places, on : BOOLEAN]
  BY <1>1
<1>4. marks' \in Seq(Entries) /\ Distinct(marks)'
  BY <1>1 DEF TypeInv, Distinct
<1> QED BY <1>1, <1>2, <1>3, <1>4 DEF TypeInv

LEMMA TypePause == ASSUME TypeInv, Pause PROVE TypeInv'
<1>1. ops # <<>> /\ Tail(ops) \in Seq(Steps)
  BY OpsType DEF TypeInv, Pause, Does
<1>2. <<Step("await", {})>> \in Seq(Steps)
  <2>1. "await" \in Names /\ {} \in SUBSET Places
    BY DEF Names, Instructions
  <2> QED BY <2>1, StepType
<1> HIDE DEF Steps
<1>3. <<Step("await", {})>> \o Tail(ops) \in Seq(Steps)
  BY <1>1, <1>2, ConcatOf
<1>4. ops' \in Seq(Steps)
  BY <1>1, <1>3 DEF Pause, Done
<1>7. restart \in BOOLEAN /\ ignore \in Nat /\ sigint \in BOOLEAN
  BY DEF TypeInv
<1>8. /\ restart' = FALSE \/ restart' = restart
      /\ ignore' = ignore \/ ignore' = ignore + 1
      /\ sigint' = sigint \/ sigint' = TRUE
  BY Zenon DEF Pause
<1>9. restart' \in BOOLEAN /\ sigint' \in BOOLEAN
  BY Zenon, <1>7, <1>8
<1>6. ignore' \in Nat
  BY <1>7, <1>8
<1>5. UNCHANGED <<marks, debugging, breaked, found, sent, lines, debugger, shown, astray>>
  BY DEF Pause
<1> QED BY <1>4, <1>5, <1>6, <1>9 DEF TypeInv, debugger

LEMMA TypeAwait == ASSUME TypeInv, Await PROVE TypeInv'
<1>1. ops' \in Seq(Steps) /\ restart' \in BOOLEAN
  BY OpsType DEF TypeInv, Await, Done, Does
<1> QED BY <1>1 DEF TypeInv, Await, manager, debugger

(* What a step sends. *)
LEMMA WriteSends ==
  ASSUME TypeInv, Write
  PROVE  \/ /\ sent' = sent
            /\ Head(ops).do = "resume" \/ (Head(ops).do = "guess" /\ Guessed = {})
         \/ /\ Head(ops).do \in Instructions
            /\ \E c \in Commands :
                 sent' = Append(sent, c) /\ c.do = Head(ops).do /\ c.at = Head(ops).at
         \/ /\ Head(ops).do = "guess"
            /\ \E c \in Commands :
                 sent' = Append(sent, c) /\ c.do = "disable" /\ c.at = {marks[i].at : i \in Guessed}
         \/ /\ Head(ops).do = "resume" /\ restart
            /\ \E c \in Commands :
                 sent' = Append(sent, c) /\ c.do = "continue" /\ c.at = {}
<1> DEFINE s == Head(ops)
<1>0. sent \in Seq(Commands) /\ marks \in Seq(Entries)
  BY DEF TypeInv
<1>1. s.at \in SUBSET Places
  BY OpsType DEF TypeInv, Write
<1>2. CASE /\ s.do \in {"insert", "temporary", "list", "run", "continue"}
           /\ sent' = Append(sent, Command(s.do, s.at, {}))
  <2>1. Command(s.do, s.at, {}) \in Commands
    BY <1>1, <1>2, CommandType DEF Instructions
  <2>2. Command(s.do, s.at, {}).do = s.do /\ Command(s.do, s.at, {}).at = s.at
    BY DEF Command
  <2> HIDE DEF Commands
  <2> QED BY <1>2, <2>1, <2>2 DEF Instructions
<1>3. CASE /\ s.do \in {"delete", "enable", "disable"}
           /\ sent' = Append(sent, Command(s.do, s.at, Numbers(s.at)))
  <2>1. Command(s.do, s.at, Numbers(s.at)) \in Commands
    BY <1>0, <1>1, <1>3, NumbersType, CommandType DEF Instructions
  <2>2. Command(s.do, s.at, Numbers(s.at)).do = s.do /\ Command(s.do, s.at, Numbers(s.at)).at = s.at
    BY DEF Command
  <2> HIDE DEF Commands
  <2> QED BY <1>3, <2>1, <2>2 DEF Instructions
<1>4. CASE /\ s.do = "guess"
           /\ sent' = IF Guessed = {} THEN sent
                      ELSE Append(sent, Command("disable", {marks[i].at : i \in Guessed}, Guessed))
  <2> DEFINE at == {marks[i].at : i \in Guessed}
  <2>1. Guessed \in SUBSET Nat /\ at \in SUBSET Places
    <3>1. Guessed \subseteq DOMAIN marks /\ DOMAIN marks \subseteq Nat
      BY <1>0 DEF Guessed
    <3>2. at \subseteq Listed
      BY <3>1 DEF Listed
    <3> QED BY <1>0, <3>1, <3>2, ListedType
  <2>2. Command("disable", at, Guessed) \in Commands
    BY <2>1, CommandType DEF Instructions
  <2>3. Command("disable", at, Guessed).do = "disable" /\ Command("disable", at, Guessed).at = at
    BY DEF Command
  <2> HIDE DEF Commands
  <2> QED BY <1>4, <2>2, <2>3
<1>5. CASE /\ s.do = "resume"
           /\ sent' = IF restart THEN Append(sent, Command("continue", {}, {})) ELSE sent
  <2>1. Command("continue", {}, {}) \in Commands
    BY CommandType DEF Instructions
  <2>2. Command("continue", {}, {}).do = "continue" /\ Command("continue", {}, {}).at = {}
    BY DEF Command
  <2> HIDE DEF Commands
  <2> QED BY <1>5, <2>1, <2>2
<1> QED BY <1>2, <1>3, <1>4, <1>5 DEF Write

LEMMA TypeWrite == ASSUME TypeInv, Write PROVE TypeInv'
<1>1. ops # <<>> /\ ops' = Tail(ops)
  BY DEF Write, Done
<1>2. ops' \in Seq(Steps)
  BY <1>1, OpsType DEF TypeInv
<1>3. restart' \in BOOLEAN
  BY DEF Write, TypeInv
<1>4. sent' = sent \/ \E c \in Commands : sent' = Append(sent, c)
  BY WriteSends
<1>5. sent \in Seq(Commands)
  BY DEF TypeInv
<1>6. sent' \in Seq(Commands)
  BY <1>4, <1>5, AppendOf
<1>7. UNCHANGED <<manager, sigint, lines, debugger, shown, astray>>
  BY DEF Write
<1> QED BY <1>2, <1>3, <1>6, <1>7 DEF TypeInv, manager, debugger

(* The list has no place twice: what is entered was not in the list. *)
LEMMA TypeStore ==
  ASSUME TypeInv, Store, Does("enter") => Head(ops).at \intersect Listed = {} PROVE TypeInv'
<1>1. ops # <<>> /\ ops' = Tail(ops)
  BY DEF Store, Done
<1>2. ops' \in Seq(Steps) /\ Head(ops).at \in SUBSET Places
  BY <1>1, OpsType DEF TypeInv
<1>3. UNCHANGED <<debugging, breaked, ignore, found, restart, sent, sigint, lines, debugger,
                  shown, astray>>
  BY DEF Store
<1> DEFINE s == Head(ops)
<1>4. marks' \in Seq(Entries) /\ Distinct(marks')
  <2>0. marks \in Seq(Entries) /\ Distinct(marks) /\ Len(marks) \in Nat /\ DOMAIN marks = 1..Len(marks)
    BY DEF TypeInv
  <2>1. CASE s.do = "enter" /\ \E l \in s.at :
               marks' = Append(marks, [at |-> l, no |-> 0, on |-> TRUE])
    <3>1. PICK l \in s.at : marks' = Append(marks, [at |-> l, no |-> 0, on |-> TRUE])
      BY <2>1
    <3>2. l \notin Listed
      BY <1>1, <2>1 DEF Does
    <3> DEFINE e == [at |-> l, no |-> 0, on |-> TRUE]
    <3>3. e \in Entries /\ e.at = l
      BY <1>2 DEF Entries
    <3>4. marks' = Append(marks, e)
      BY <3>1
    <3> HIDE DEF e, Entries
    <3>5. /\ marks' \in Seq(Entries) /\ Len(marks') = Len(marks) + 1
          /\ \A i \in 1..Len(marks) : marks'[i] = marks[i]
          /\ marks'[Len(marks) + 1] = e
      BY <2>0, <3>3, <3>4, AppendOf
    <3>6. DOMAIN marks' = 1..(Len(marks) + 1)
      BY <3>5
    <3>7. \A i \in 1..Len(marks) : marks[i].at # l
      BY <2>0, <3>2 DEF Listed
    <3>8. ASSUME NEW i \in DOMAIN marks', NEW j \in DOMAIN marks', marks'[i].at = marks'[j].at
          PROVE  i = j
      <4>1. i \in 1..Len(marks) \/ i = Len(marks) + 1
        BY <2>0, <3>6
      <4>2. j \in 1..Len(marks) \/ j = Len(marks) + 1
        BY <2>0, <3>6
      <4> QED BY <2>0, <3>3, <3>5, <3>7, <3>8, <4>1, <4>2 DEF Distinct
    <3> QED BY <3>5, <3>8 DEF Distinct
  <2>2. CASE s.do = "drop" /\ \E i \in DOMAIN marks :
               marks[i].at \in s.at /\ marks' = RemoveAt(marks, i)
    <3>1. PICK k \in DOMAIN marks : marks' = RemoveAt(marks, k)
      BY <2>2
    <3> HIDE DEF Entries
    <3>2. /\ marks' \in Seq(Entries) /\ Len(marks') = Len(marks) - 1
          /\ \A j \in 1..(Len(marks) - 1) :
               marks'[j] = IF j < k THEN marks[j] ELSE marks[j + 1]
      BY <2>0, <3>1, RemoveAtOf
    <3>3. DOMAIN marks' = 1..(Len(marks) - 1)
      BY <3>2
    <3>4. ASSUME NEW i \in DOMAIN marks', NEW j \in DOMAIN marks', marks'[i].at = marks'[j].at
          PROVE  i = j
      <4> DEFINE f(x) == IF x < k THEN x ELSE x + 1
      <4>1. f(i) \in DOMAIN marks /\ f(j) \in DOMAIN marks /\ k \in Nat
        BY <2>0, <3>3
      <4>2. marks'[i] = marks[f(i)] /\ marks'[j] = marks[f(j)]
        BY <3>2, <3>3
      <4>3. f(i) = f(j)
        <5> HIDE DEF f
        <5> QED BY <2>0, <3>4, <4>1, <4>2 DEF Distinct
      <4> QED BY <2>0, <3>3, <4>1, <4>3
    <3> QED BY <3>2, <3>4 DEF Distinct
  <2>3. CASE s.do = "clear" /\ marks' = <<>>
    BY <2>3 DEF Distinct
  <2>4. CASE /\ s.do \in {"on", "off"}
             /\ marks' = [i \in DOMAIN marks |->
                            IF marks[i].at \in s.at THEN [marks[i] EXCEPT !.on = (s.do = "on")]
                            ELSE marks[i]]
    <3>1. ASSUME NEW i \in DOMAIN marks
          PROVE  marks'[i] \in Entries /\ marks'[i].at = marks[i].at
      <4>1. marks[i] \in Entries
        BY <2>0
      <4>2. marks'[i] = IF marks[i].at \in s.at THEN [marks[i] EXCEPT !.on = (s.do = "on")] ELSE marks[i]
        BY <2>4
      <4> QED BY <4>1, <4>2 DEF Entries
    <3>2. DOMAIN marks' = DOMAIN marks /\ marks' = [i \in DOMAIN marks |-> marks'[i]]
      BY <2>4
    <3> HIDE DEF Entries
    <3>3. marks' \in [1..Len(marks) -> Entries]
      BY <2>0, <3>1, <3>2
    <3> QED BY <2>0, <3>1, <3>2, <3>3 DEF Distinct
  <2> QED BY <2>1, <2>2, <2>3, <2>4 DEF Store
<1> QED BY <1>2, <1>3, <1>4 DEF TypeInv, debugger

LEMMA TypeHalted == ASSUME TypeInv, Halted PROVE TypeInv'
<1>1. ops' \in Seq(Steps)
  BY OpsType DEF TypeInv, Halted, Done, Does
<1> QED BY <1>1 DEF TypeInv, Halted, debugger

LEMMA SentType ==
  ASSUME sent \in Seq(Commands), sent # <<>>
  PROVE  /\ Tail(sent) \in Seq(Commands) /\ Head(sent) \in Commands
         /\ Head(sent).do \in Instructions /\ Head(sent).at \in SUBSET Places
         /\ Head(sent).nos \in SUBSET Nat
<1>1. Tail(sent) \in Seq(Commands) /\ Head(sent) \in Commands
  BY TailOf
<1> QED BY <1>1 DEF Commands

LEMMA TypeInsert ==
  ASSUME TypeInv, sent # <<>>, Insert(Head(sent))
  PROVE  /\ number' \in Nat \ {0} /\ points' \subseteq [no : 1..number', at : Places, on : BOOLEAN]
         /\ astray' \subseteq Places /\ lines' \in Seq(Words)
<1> DEFINE c == Head(sent)
<1>1. c.at \in SUBSET Places
  BY SentType DEF TypeInv
<1>2. lines \in Seq(Words) /\ number \in Nat \ {0}
      /\ points \subseteq [no : 1..number, at : Places, on : BOOLEAN] /\ astray \subseteq Places
  BY DEF TypeInv
<1> HIDE DEF c
<1>3. PICK l \in c.at :
        IF l \in Absent
        THEN Says(<<>>) /\ UNCHANGED <<points, number>> /\ astray' = astray \union {l}
        ELSE /\ points' = IF c.do = "temporary" THEN points
                          ELSE points \union {[no |-> number, at |-> l, on |-> TRUE]}
             /\ number' = number + 1
             /\ Says(<<Said("bkpt", {l}, number)>>)
             /\ UNCHANGED astray
  BY DEF Insert, c
<1>4. CASE l \in Absent
  <2>1. lines' \in Seq(Words)
    BY <1>2, <1>3, <1>4, SaysType, StoppedType
  <2> QED BY <1>1, <1>2, <1>3, <1>4, <2>1
<1>5. CASE l \notin Absent
  <2>1. Said("bkpt", {l}, number) \in Words
    BY <1>1, <1>2, SaidType
  <2> HIDE DEF Words
  <2>2. <<Said("bkpt", {l}, number)>> \in Seq(Words)
    BY <2>1, TupleTypes
  <2>3. lines' \in Seq(Words)
    BY <1>2, <1>3, <1>5, <2>2, SaysType
  <2>4. points' \subseteq [no : 1..number', at : Places, on : BOOLEAN]
    <3>1. points \subseteq [no : 1..number', at : Places, on : BOOLEAN]
      BY <1>2, <1>3, <1>5
    <3>2. [no |-> number, at |-> l, on |-> TRUE] \in [no : 1..number', at : Places, on : BOOLEAN]
      BY <1>1, <1>2, <1>3, <1>5
    <3> QED BY <1>3, <1>5, <3>1, <3>2
  <2> QED BY <1>2, <1>3, <1>5, <2>3, <2>4
<1> QED BY <1>4, <1>5

LEMMA TypeChange ==
  ASSUME TypeInv, NEW c, Change(c)
  PROVE  /\ number' \in Nat \ {0} /\ points' \subseteq [no : 1..number', at : Places, on : BOOLEAN]
         /\ astray' \subseteq Places /\ lines' \in Seq(Words)
<1>1. lines' \in Seq(Words)
  BY SaysType, StoppedType DEF Change, TypeInv
<1>2. number' = number /\ astray' = astray \union Misses(c)
  BY DEF Change
<1>3. Misses(c) \subseteq Places
  BY DEF Misses
<1>4. \A p \in points : p \in [no : 1..number, at : Places, on : BOOLEAN]
  BY DEF TypeInv
<1>5. \A p \in points : [p EXCEPT !.on = (c.do = "enable")] \in [no : 1..number, at : Places, on : BOOLEAN]
  BY <1>4
<1>6. points' \subseteq [no : 1..number, at : Places, on : BOOLEAN]
  BY <1>4, <1>5 DEF Change
<1> QED BY <1>1, <1>2, <1>3, <1>6 DEF TypeInv

LEMMA TypeExecute == ASSUME TypeInv, Execute PROVE TypeInv'
<1>1. sent # <<>> /\ sent' = Tail(sent)
  BY DEF Execute
<1>2. sent' \in Seq(Commands)
  BY <1>1, SentType DEF TypeInv
<1> DEFINE c == Head(sent)
<1>3. /\ number' \in Nat \ {0} /\ points' \subseteq [no : 1..number', at : Places, on : BOOLEAN]
      /\ astray' \subseteq Places /\ lines' \in Seq(Words)
      /\ prog' \in {"none", "running", "halted"}
  <2>1. CASE Insert(c) /\ UNCHANGED prog
    BY <1>1, <2>1, TypeInsert DEF TypeInv
  <2>2. CASE Change(c) /\ UNCHANGED prog
    BY <2>2, TypeChange DEF TypeInv
  <2>3. CASE c.do = "list" /\ Says(<<>>) /\ UNCHANGED <<debugger, astray>>
    BY <2>3, SaysType, StoppedType DEF TypeInv, debugger
  <2>4. CASE /\ prog' = "running" /\ Says(<<Said("running", {}, 0)>>)
             /\ UNCHANGED <<points, number, astray>>
    <3>1. Said("running", {}, 0) \in Words
      BY SaidType
    <3> HIDE DEF Words
    <3>2. lines' \in Seq(Words)
      BY <2>4, <3>1, SaysType, TupleTypes DEF TypeInv
    <3> QED BY <2>4, <3>2 DEF TypeInv
  <2> QED BY <2>1, <2>2, <2>3, <2>4 DEF Execute
<1>4. UNCHANGED <<manager, user, sigint, shown>>
  BY DEF Execute
<1> QED BY <1>2, <1>3, <1>4 DEF TypeInv, manager, user

LEMMA TypeStops == ASSUME TypeInv, ProgramStops \/ Interrupted PROVE TypeInv'
<1>1. Says(<<Stopped>>) \/ Says(<<>>)
  BY DEF ProgramStops, Interrupted
<1>2. lines' \in Seq(Words)
  BY <1>1, SaysType, StoppedType DEF TypeInv
<1>3. /\ sigint' \in BOOLEAN /\ prog' \in {"none", "running", "halted"}
      /\ UNCHANGED <<manager, user, sent, points, number, shown, astray>>
  BY DEF TypeInv, ProgramStops, Interrupted
<1> QED BY <1>2, <1>3 DEF TypeInv, manager, user

LEMMA LinesType ==
  ASSUME lines \in Seq(Words), lines # <<>>
  PROVE  /\ Tail(lines) \in Seq(Words) /\ Head(lines) \in Words
         /\ Head(lines).no \in Nat /\ Head(lines).at \in SUBSET Places
<1>1. Tail(lines) \in Seq(Words) /\ Head(lines) \in Words
  BY TailOf
<1> QED BY <1>1 DEF Words

LEMMA TypeHear ==
  ASSUME TypeInv, HearPrompt \/ HearRunning \/ HearStopped \/ HearNumber PROVE TypeInv'
<1>1. lines # <<>> /\ lines' = Tail(lines)
      /\ UNCHANGED <<marks, debugging, user, sent, sigint, debugger>>
  BY DEF HearPrompt, HearRunning, HearStopped, HearNumber, Hear
<1>2. lines' \in Seq(Words)
  BY <1>1, LinesType DEF TypeInv
<1>3. Head(lines).no \in Nat
  BY <1>1, LinesType DEF TypeInv
<1>0. /\ ignore \in Nat /\ breaked \in BOOLEAN /\ shown \in {"running", "stopped"}
      /\ astray \subseteq Places
  BY DEF TypeInv
<1>6. /\ ignore' = ignore \/ ignore' = (IF ignore > 0 THEN ignore - 1 ELSE 0)
      /\ breaked' = breaked \/ breaked' = TRUE \/ breaked' = FALSE
      /\ shown' = shown \/ shown' = "running" \/ shown' = "stopped"
      /\ astray' = astray
  BY Zenon DEF HearPrompt, HearRunning, HearStopped, HearNumber
<1>7. ignore' \in Nat
  BY <1>0, <1>6
<1>4. /\ ignore' \in Nat /\ breaked' \in BOOLEAN /\ shown' \in {"running", "stopped"}
      /\ astray' \subseteq Places
  BY <1>0, <1>6, <1>7
<1>5. found'.no \in Nat
  BY <1>3 DEF TypeInv, HearPrompt, HearRunning, HearStopped, HearNumber, NotFound
<1> QED BY <1>1, <1>2, <1>4, <1>5 DEF TypeInv, user, debugger

LEMMA UpdateMarks ==
  ASSUME TypeInv, _UpdateBreakpoint
  PROVE  /\ marks' \in Seq(Entries) /\ DOMAIN marks' = DOMAIN marks
         /\ \A i \in DOMAIN marks : marks'[i].at = marks[i].at /\ marks'[i].on = marks[i].on
<1>1. CASE found.index \notin DOMAIN marks
  BY <1>1 DEF _UpdateBreakpoint, TypeInv
<1>2. CASE found.index \in DOMAIN marks
  <2>1. marks' = [marks EXCEPT ![found.index].no = found.no]
    BY <1>2 DEF _UpdateBreakpoint
  <2>2. ASSUME NEW i \in DOMAIN marks
        PROVE  /\ marks'[i] \in Entries
               /\ marks'[i].at = marks[i].at /\ marks'[i].on = marks[i].on
    <3>1. marks[i] \in Entries /\ found.no \in Nat
      BY DEF TypeInv
    <3>2. marks'[i] = IF i = found.index THEN [marks[i] EXCEPT !.no = found.no] ELSE marks[i]
      BY <2>1
    <3> QED BY <3>1, <3>2 DEF Entries
  <2>3. DOMAIN marks = 1..Len(marks) /\ Len(marks) \in Nat /\ DOMAIN marks' = DOMAIN marks
    BY <2>1 DEF TypeInv
  <2> HIDE DEF Entries
  <2>4. marks' = [i \in 1..Len(marks) |-> marks'[i]]
    BY <2>1, <2>3
  <2>5. marks' \in [1..Len(marks) -> Entries]
    BY <2>2, <2>3, <2>4
  <2> QED BY <2>2, <2>3, <2>5
<1> QED BY <1>1, <1>2

LEMMA TypeUpdate == ASSUME TypeInv, _UpdateBreakpoint PROVE TypeInv'
<1>1. marks' \in Seq(Entries) /\ Distinct(marks')
  BY UpdateMarks DEF TypeInv, Distinct
<1>2. found'.no \in Nat
  BY DEF _UpdateBreakpoint, NotFound
<1> QED BY <1>1, <1>2 DEF TypeInv, _UpdateBreakpoint, user, debugger

LEMMA TypeStep ==
  ASSUME TypeInv, [PointNext]_pointVars,
         Store /\ Does("enter") => Head(ops).at \intersect Listed = {}
  PROVE  TypeInv'
<1>1. CASE UNCHANGED pointVars
  BY <1>1 DEF TypeInv, pointVars, manager, user, debugger
<1>2. CASE Asks
  BY <1>2, TypeAsk
<1>3. CASE \E process \in BOOLEAN : Attach(process)
  BY <1>3, TypeAttach
<1>4. CASE Break
  BY <1>4, TypeBreak
<1>5. CASE End
  BY <1>5, TypeEnd
<1>6. CASE Pause
  BY <1>6, TypePause
<1>7. CASE Await
  BY <1>7, TypeAwait
<1>8. CASE Write
  BY <1>8, TypeWrite
<1>9. CASE Store
  BY <1>9, TypeStore
<1>10. CASE Halted
  BY <1>10, TypeHalted
<1>11. CASE Execute
  BY <1>11, TypeExecute
<1>12. CASE ProgramStops \/ Interrupted
  BY <1>12, TypeStops
<1>13. CASE HearPrompt \/ HearRunning \/ HearStopped \/ HearNumber
  BY <1>13, TypeHear
<1>14. CASE _UpdateBreakpoint
  BY <1>14, TypeUpdate
<1> QED BY <1>1, <1>2, <1>3, <1>4, <1>5, <1>6, <1>7, <1>8, <1>9, <1>10, <1>11, <1>12, <1>13, <1>14
        DEF PointNext, Asks

-----------------------------------------------------------------------------
(* No debugger, no steps that are for it. *)
LEMMA TailIn == ASSUME NEW S, NEW q \in Seq(S), q # <<>> PROVE Tail(q) \in Seq(S) /\ Head(q) \in S
BY TailOf

LEMMA QuietOps ==
  ASSUME QuietInv, ops # <<>>, Head(ops).do \notin {"enter", "drop", "clear", "on", "off"}
  PROVE  debugging
<1> SUFFICES ASSUME ~debugging PROVE FALSE
  OBVIOUS
<1>1. Head(ops) \in QuietSteps
  BY TailIn DEF QuietInv
<1> QED BY <1>1 DEF QuietSteps

LEMMA QuietPlan ==
  ASSUME TypeInv, ~debugging, NEW plan, IsPlan(plan) PROVE plan \in Seq(QuietSteps)
<1>1. Listed \in SUBSET Places
  BY ListedType DEF TypeInv
<1>2. Local(QuietSteps)
  <2>1. Local(Steps)
    BY StepsRemote
  <2> HIDE DEF Steps
  <2> QED BY <2>1 DEF Local, QuietSteps, Step
<1> QED BY <1>1, <1>2, PlanIn

LEMMA QuietInit == PointInit => QuietInv
BY DEF PointInit, QuietInv, AtRest

LEMMA QuietStep == ASSUME TypeInv, QuietInv, [PointNext]_pointVars PROVE QuietInv'
<1> USE DEF QuietInv
<1>1. CASE UNCHANGED pointVars
  BY <1>1 DEF pointVars, manager, user, debugger, AtRest
<1>2. CASE Asks
  <2>1. PICK plan : IsPlan(plan) /\ Ask(plan)
    BY <1>2, AskPlan
  <2>2. ~debugging => plan \in Seq(QuietSteps)
    BY <2>1, QuietPlan
  <2> QED BY <2>1, <2>2 DEF Ask, manager, debugger, AtRest
<1>3. CASE \E process \in BOOLEAN : Attach(process)
  BY <1>3 DEF Attach
<1>4. CASE Break
  BY <1>4 DEF Break, manager
<1>5. CASE End
  BY <1>5 DEF End, user, AtRest
<1>6. CASE Pause \/ Await \/ Write \/ Halted
  <2>1. debugging /\ UNCHANGED debugging
    BY <1>6, QuietOps DEF Pause, Await, Write, Halted, Does, manager
  <2> QED BY <2>1
<1>7. CASE Store
  <2>1. ops # <<>> /\ ops' = Tail(ops)
    BY <1>7 DEF Store, Done
  <2>2. ops \in Seq(QuietSteps) => ops' \in Seq(QuietSteps)
    BY <2>1, TailIn
  <2> QED BY <1>7, <2>2 DEF Store, AtRest, debugger
<1>8. CASE Execute \/ ProgramStops \/ Interrupted
  <2>1. debugging /\ UNCHANGED debugging
    BY <1>8 DEF Execute, ProgramStops, Interrupted, AtRest, manager
  <2> QED BY <2>1
<1>9. CASE HearPrompt \/ HearRunning \/ HearStopped \/ HearNumber
  <2>1. debugging /\ UNCHANGED debugging
    BY <1>9 DEF HearPrompt, HearRunning, HearStopped, HearNumber, Hear, AtRest
  <2> QED BY <2>1
<1>10. CASE _UpdateBreakpoint
  BY <1>10 DEF _UpdateBreakpoint, user, debugger, AtRest
<1> QED BY <1>1, <1>2, <1>3, <1>4, <1>5, <1>6, <1>7, <1>8, <1>9, <1>10 DEF PointNext, Asks

-----------------------------------------------------------------------------
(* What is inserted, entered and dropped is one place. *)
LEMMA SingleRemote == Local(SingleSteps) /\ Remote(SingleSteps)
<1>1. Local(Steps) /\ Remote(Steps)
  BY StepsRemote
<1> HIDE DEF Steps
<1>2. Local(SingleSteps)
  BY <1>1 DEF Local, SingleSteps, Step
<1>3. Remote(SingleSteps)
  BY <1>1 DEF Remote, SingleSteps, Step
<1> QED BY <1>2, <1>3

LEMMA SinglePlan ==
  ASSUME TypeInv, NEW plan, IsPlan(plan) PROVE plan \in Seq(SingleSteps)
<1>1. Listed \in SUBSET Places
  BY ListedType DEF TypeInv
<1> QED BY <1>1, SingleRemote, PlanIn

LEMMA SingleInserts ==
  ASSUME NEW s \in Seq(Entries) PROVE Inserts(s) \in Seq(SingleSteps)
<1>1. /\ Inserts(s) \in Seq(Steps) /\ Len(Inserts(s)) = Len(s) /\ Len(s) \in Nat
      /\ \A i \in 1..Len(s) : Inserts(s)[i] = Step("insert", {s[i].at}) /\ s[i].at \in Places
  BY InsertsType
<1>2. \A i \in 1..Len(s) : Inserts(s)[i] \in SingleSteps
  BY <1>1, SingleRemote DEF Remote
<1>3. Inserts(s) = [i \in 1..Len(s) |-> Inserts(s)[i]]
  BY <1>1 DEF Inserts
<1> HIDE DEF SingleSteps
<1>4. Inserts(s) \in [1..Len(s) -> SingleSteps]
  BY <1>2, <1>3
<1> QED BY <1>1, <1>4

LEMMA SingleInit == PointInit => SingleInv
BY DEF PointInit, SingleInv

LEMMA SingleStep == ASSUME TypeInv, TypeInv', SingleInv, [PointNext]_pointVars PROVE SingleInv'
<1> USE DEF SingleInv
<1>1. CASE UNCHANGED pointVars
  BY <1>1 DEF pointVars, user
<1>2. CASE Asks
  <2>1. PICK plan : IsPlan(plan) /\ Ask(plan)
    BY <1>2, AskPlan
  <2> QED BY <2>1, SinglePlan DEF Ask
<1>3. CASE \E process \in BOOLEAN : Attach(process)
  <2>1. PICK process \in BOOLEAN, o \in Orders :
          /\ ops' = Inserts(Reordered(o))
                      \o <<Step("guess", {}), Step(IF process THEN "halted" ELSE "run", {})>>
          /\ sent' = sent
    BY <1>3 DEF Attach
  <2> DEFINE b == IF process THEN "halted" ELSE "run"
  <2>2. Step("guess", {}) \in SingleSteps /\ Step(b, {}) \in SingleSteps
    <3>1. "guess" \in Names /\ b \in Names /\ {} \in SUBSET Places
      BY DEF Names, Instructions
    <3>2. Step("guess", {}) \in Steps /\ Step(b, {}) \in Steps
      BY <3>1, StepType
    <3> HIDE DEF Steps
    <3> QED BY <3>2 DEF SingleSteps, Step
  <2>3. Inserts(Reordered(o)) \in Seq(SingleSteps)
    BY ReorderedType, SingleInserts
  <2> HIDE DEF SingleSteps, b
  <2>4. <<Step("guess", {}), Step(b, {})>> \in Seq(SingleSteps)
    BY <2>2, TupleTypes
  <2>5. ops' \in Seq(SingleSteps)
    BY <2>1, <2>3, <2>4, ConcatOf DEF b
  <2> QED BY <2>1, <2>5
<1>4. CASE Break \/ ProgramStops \/ Interrupted
  BY <1>4 DEF Break, ProgramStops, Interrupted, user
<1>5. CASE End
  BY <1>5 DEF End, user
<1>6. CASE Pause
  <2>1. ops # <<>> /\ Tail(ops) \in Seq(SingleSteps)
    BY <1>6, TailIn DEF Pause, Does
  <2>2. Step("await", {}) \in SingleSteps
    <3>1. "await" \in Names /\ {} \in SUBSET Places
      BY DEF Names, Instructions
    <3>2. Step("await", {}) \in Steps
      BY <3>1, StepType
    <3> HIDE DEF Steps
    <3> QED BY <3>2 DEF SingleSteps, Step
  <2> HIDE DEF SingleSteps
  <2>3. <<Step("await", {})>> \o Tail(ops) \in Seq(SingleSteps)
    BY <2>1, <2>2, TupleTypes, ConcatOf
  <2> QED BY <1>6, <2>1, <2>3 DEF Pause, Done
<1>7. CASE Await \/ Store \/ Halted
  <2>1. ops # <<>> /\ ops' = Tail(ops) /\ sent' = sent
    BY <1>7 DEF Await, Store, Halted, Done, Does
  <2> QED BY <2>1, TailIn
<1>8. CASE Write
  <2>1. ops # <<>> /\ ops' = Tail(ops)
    BY <1>8 DEF Write, Done
  <2>2. Tail(ops) \in Seq(SingleSteps) /\ Head(ops) \in SingleSteps
    BY <2>1, TailIn
  <2>3. \/ sent' = sent
        \/ \E c \in Commands :
             /\ sent' = Append(sent, c)
             /\ (c.do = "insert" => Head(ops).do = "insert" /\ c.at = Head(ops).at)
    BY <1>8, <2>1, WriteSends
  <2>4. \A c \in Commands : (c.do = "insert" => Head(ops).do = "insert" /\ c.at = Head(ops).at)
                              => c \in SingleCommands
    BY <2>2 DEF SingleSteps, SingleCommands
  <2> HIDE DEF SingleCommands, Commands
  <2>5. \A c \in SingleCommands : Append(sent, c) \in Seq(SingleCommands)
    BY AppendOf
  <2>6. sent' \in Seq(SingleCommands)
    <3>1. CASE sent' = sent
      BY <3>1
    <3>2. CASE ~(sent' = sent)
      <4>1. PICK c \in Commands :
              /\ sent' = Append(sent, c)
              /\ (c.do = "insert" => Head(ops).do = "insert" /\ c.at = Head(ops).at)
        BY <2>3, <3>2
      <4>2. c \in SingleCommands
        BY <2>4, <4>1
      <4> QED BY <2>5, <4>1, <4>2
    <3> QED BY <3>1, <3>2
  <2> QED BY <2>1, <2>2, <2>6
<1>9. CASE Execute
  <2>1. sent # <<>> /\ sent' = Tail(sent) /\ ops' = ops
    BY <1>9 DEF Execute, user
  <2> QED BY <2>1, TailIn
<1>10. CASE HearPrompt \/ HearRunning \/ HearStopped \/ HearNumber \/ _UpdateBreakpoint
  BY <1>10 DEF HearPrompt, HearRunning, HearStopped, HearNumber, Hear, _UpdateBreakpoint, user
<1> QED BY <1>1, <1>2, <1>3, <1>4, <1>5, <1>6, <1>7, <1>8, <1>9, <1>10 DEF PointNext, Asks

-----------------------------------------------------------------------------
(* A place in the list and in the debugger. *)
AgreeAt(l) ==
  \E d \in DebuggerStates, w \in Views :
    /\ Path(View(AtDebugger(l), "none"), sent, View(d, "none"), l)
    /\ Path(View(d, InList(l)), ops, w, l)
    /\ debugging => w.d \in {"stray", w.m}

LEMMA ViewType ==
  /\ \A d \in DebuggerStates, m \in ListStates :
       View(d, m) \in Views /\ View(d, m).d = d /\ View(d, m).m = m
  /\ \A v \in Views : v.d \in DebuggerStates /\ v.m \in ListStates /\ v = View(v.d, v.m)
  /\ \A l : AtDebugger(l) \in DebuggerStates /\ InList(l) \in ListStates
BY DEF View, Views, AtDebugger, InList, DebuggerStates, ListStates

(* Nothing else is about the places. *)
LEMMA AgreeSame ==
  ASSUME AgreeInv, UNCHANGED <<debugging, ops, sent, points, astray>>,
         \A l \in Places : InList(l)' = InList(l)
  PROVE  AgreeInv'
<1>1. \A l : AtDebugger(l)' = AtDebugger(l)
  BY DEF AtDebugger
<1> QED BY <1>1 DEF AgreeInv

LEMMA InListEntry ==
  ASSUME TypeInv, NEW i \in DOMAIN marks
  PROVE  InList(marks[i].at) = IF marks[i].on THEN "on" ELSE "off"
<1>1. marks[i].at \in Listed
  BY DEF Listed
<1>2. \A j \in DOMAIN marks : marks[j].at = marks[i].at => j = i
  BY DEF TypeInv, Distinct
<1> QED BY <1>1, <1>2 DEF InList

LEMMA InListNone ==
  ASSUME NEW l PROVE InList(l) = "none" <=> \A i \in DOMAIN marks : marks[i].at # l
BY DEF InList, Listed

(* The states of a place along a path that only changes what the debugger has. *)
LEMMA InstructionEffect ==
  ASSUME NEW d \in DebuggerStates, NEW m \in ListStates, NEW e, NEW l, e.do \in Instructions
  PROVE  /\ Effect(View(d, m), e, l) = View(Effect(View(d, "none"), e, l).d, m)
         /\ Effect(View(d, "none"), e, l).d \in DebuggerStates
         /\ Allows(View(d, m), e, l) <=> Allows(View(d, "none"), e, l)
BY DEF Effect, Changed, Allows, View, Instructions, DebuggerStates, ListStates

LEMMA NoEffect ==
  ASSUME NEW v \in Views, NEW e, NEW l,
         e.do \in {"pause", "await", "list", "resume", "run", "continue", "temporary", "halted"}
  PROVE  Allows(v, e, l) /\ Effect(v, e, l) = v
BY DEF Effect, Allows

LEMMA PathBlock ==
  ASSUME NEW v \in Views, NEW do, NEW at, NEW l, Allows(v, Step(do, at), l)
  PROVE  Path(v, InDebugger(do, at), IF debugging THEN Effect(v, Step(do, at), l) ELSE v, l)
<1>1. CASE ~debugging
  BY <1>1, PathEmpty DEF InDebugger
<1>2. CASE debugging
  <2> DEFINE a == Step("pause", {})
             b == Step(do, at)
             c == Step("list", {})
             e == Step("resume", {})
             w == Effect(v, b, l)
             q == <<a, b, c, e>>
             h == [i \in 1..5 |-> IF i <= 2 THEN v ELSE w]
  <2>1. w \in Views
    BY EffectType
  <2>2. Allows(v, a, l) /\ Effect(v, a, l) = v /\ Allows(w, c, l) /\ Effect(w, c, l) = w
        /\ Allows(w, e, l) /\ Effect(w, e, l) = w
    BY <2>1, NoEffect DEF Step
  <2>4. InDebugger(do, at) = q
    BY <1>2 DEF InDebugger
  <2>5. Allows(v, b, l) /\ w = Effect(v, b, l)
    OBVIOUS
  <2> HIDE DEF a, b, c, e, w
  <2>6. Len(q) = 4 /\ q[1] = a /\ q[2] = b /\ q[3] = c /\ q[4] = e
    OBVIOUS
  <2> HIDE DEF q
  <2>7. h \in [1..5 -> Views] /\ h[1] = v /\ h[2] = v /\ h[3] = w /\ h[4] = w /\ h[5] = w
    BY <2>1
  <2> HIDE DEF h
  <2>8. /\ Allows(h[1], q[1], l) /\ h[2] = Effect(h[1], q[1], l)
        /\ Allows(h[2], q[2], l) /\ h[3] = Effect(h[2], q[2], l)
        /\ Allows(h[3], q[3], l) /\ h[4] = Effect(h[3], q[3], l)
        /\ Allows(h[4], q[4], l) /\ h[5] = Effect(h[4], q[4], l)
    BY <2>2, <2>5, <2>6, <2>7
  <2>9. ASSUME NEW i \in 1..4 PROVE Allows(h[i], q[i], l) /\ h[i + 1] = Effect(h[i], q[i], l)
    <3>1. i = 1 \/ i = 2 \/ i = 3 \/ i = 4
      OBVIOUS
    <3> QED BY <2>8, <3>1
  <2>10. Path(v, q, w, l)
    BY <2>6, <2>7, <2>9 DEF Path
  <2> QED BY <1>2, <2>4, <2>10 DEF w, b
<1> QED BY <1>1, <1>2

(* A command to the debugger, and then the same for the list. *)
LEMMA PathBoth ==
  ASSUME NEW v \in Views, NEW do \in {"delete", "enable", "disable"},
         NEW own \in {"drop", "clear", "on", "off"}, NEW at \in SUBSET Places, NEW l
  PROVE  \E u \in Views :
           /\ u = IF debugging THEN Effect(v, Step(do, at), l) ELSE v
           /\ Path(v, InDebugger(do, at) \o <<Step(own, at)>>, Effect(u, Step(own, at), l), l)
<1> DEFINE u == IF debugging THEN Effect(v, Step(do, at), l) ELSE v
<1>1. u \in Views
  BY EffectType
<1>2. Path(v, InDebugger(do, at), u, l)
  <2>1. Allows(v, Step(do, at), l)
    BY DEF Allows, Step
  <2> QED BY <2>1, PathBlock
<1> HIDE DEF u
<1>3. Path(u, <<Step(own, at)>>, Effect(u, Step(own, at), l), l)
  <2>1. Allows(u, Step(own, at), l)
    BY DEF Allows, Step
  <2> QED BY <1>1, <2>1, PathOne
<1>4. InDebugger(do, at) \in Seq(Steps) /\ <<Step(own, at)>> \in Seq(Steps)
  <2>1. Local(Steps) /\ Remote(Steps)
    BY StepsRemote
  <2>2. Step(do, at) \in Steps /\ Step(own, at) \in Steps
    BY StepType DEF Names, Instructions
  <2> HIDE DEF Steps
  <2> QED BY <2>1, <2>2, InDebuggerIn, TupleTypes
<1>5. Path(v, InDebugger(do, at) \o <<Step(own, at)>>, Effect(u, Step(own, at), l), l)
  BY <1>2, <1>3, <1>4, PathConcat
<1> QED BY <1>1, <1>5 DEF u

Fits(v) == debugging => v.d \in {"stray", v.m}

LEMMA SwitchingPath ==
  ASSUME TypeInv, NEW on \in BOOLEAN, NEW at \in SUBSET Listed, NEW l \in Places,
         NEW v \in Views, v.m = InList(l), Fits(v)
  PROVE  \E w \in Views : Path(v, Switching(on, at), w, l) /\ Fits(w)
<1>1. at \in SUBSET Places
  BY ListedType DEF TypeInv
<1>2. l \in at => v.m # "none"
  BY DEF InList
<1>3. CASE on = TRUE
  <2>1. PICK u \in Views :
          /\ u = IF debugging THEN Effect(v, Step("enable", at), l) ELSE v
          /\ Path(v, InDebugger("enable", at) \o <<Step("on", at)>>,
                  Effect(u, Step("on", at), l), l)
    BY <1>1, PathBoth
  <2> DEFINE w == Effect(u, Step("on", at), l)
  <2>2. w \in Views
    BY EffectType
  <2>3. Switching(on, at) = InDebugger("enable", at) \o <<Step("on", at)>>
    BY <1>3 DEF Switching
  <2>4. Fits(w)
    BY <1>2, <2>1 DEF Fits, Effect, Changed, Step, Views, DebuggerStates, ListStates
  <2> HIDE DEF w
  <2> QED BY <2>1, <2>2, <2>3, <2>4 DEF w
<1>4. CASE on = FALSE
  <2>1. PICK u \in Views :
          /\ u = IF debugging THEN Effect(v, Step("disable", at), l) ELSE v
          /\ Path(v, InDebugger("disable", at) \o <<Step("off", at)>>,
                  Effect(u, Step("off", at), l), l)
    BY <1>1, PathBoth
  <2> DEFINE w == Effect(u, Step("off", at), l)
  <2>2. w \in Views
    BY EffectType
  <2>3. Switching(on, at) = InDebugger("disable", at) \o <<Step("off", at)>>
    BY <1>4 DEF Switching
  <2>4. Fits(w)
    BY <1>2, <2>1 DEF Fits, Effect, Changed, Step, Views, DebuggerStates, ListStates
  <2> HIDE DEF w
  <2> QED BY <2>1, <2>2, <2>3, <2>4 DEF w
<1> QED BY <1>3, <1>4

LEMMA RemovingPath ==
  ASSUME TypeInv, NEW x \in Listed, NEW l \in Places,
         NEW v \in Views, v.m = InList(l), Fits(v)
  PROVE  \E w \in Views : Path(v, Removing(x), w, l) /\ Fits(w) /\ w.m = IF l = x THEN "none" ELSE v.m
<1> DEFINE at == {x}
<1>1. at \in SUBSET Places
  BY ListedType DEF TypeInv
<1>2. PICK u \in Views :
        /\ u = IF debugging THEN Effect(v, Step("delete", at), l) ELSE v
        /\ Path(v, InDebugger("delete", at) \o <<Step("drop", at)>>, Effect(u, Step("drop", at), l), l)
  <2> HIDE DEF at
  <2> QED BY <1>1, PathBoth
<1> DEFINE w == Effect(u, Step("drop", at), l)
<1>3. w \in Views
  BY EffectType
<1>4. l = x => v.m # "none"
  BY DEF InList
<1>5. Fits(w) /\ w.m = IF l = x THEN "none" ELSE v.m
  BY <1>2, <1>4 DEF Fits, Effect, Changed, Step, Views, DebuggerStates, ListStates
<1> HIDE DEF w
<1> QED BY <1>2, <1>3, <1>5 DEF w, Removing

LEMMA ClearingPath ==
  ASSUME TypeInv, NEW l \in Places, NEW v \in Views, v.m = InList(l), Fits(v)
  PROVE  \E w \in Views : Path(v, Clearing, w, l) /\ Fits(w)
<1>1. Listed \in SUBSET Places
  BY ListedType DEF TypeInv
<1>2. PICK u \in Views :
        /\ u = IF debugging THEN Effect(v, Step("delete", Listed), l) ELSE v
        /\ Path(v, InDebugger("delete", Listed) \o <<Step("clear", Listed)>>,
                Effect(u, Step("clear", Listed), l), l)
  BY <1>1, PathBoth
<1> DEFINE w == Effect(u, Step("clear", Listed), l)
<1>3. w \in Views
  BY EffectType
<1>4. l \in Listed <=> v.m # "none"
  BY DEF InList
<1>5. Fits(w)
  BY <1>2, <1>4 DEF Fits, Effect, Changed, Step, Views, DebuggerStates, ListStates
<1> HIDE DEF w
<1> QED BY <1>2, <1>3, <1>5 DEF w, Clearing

LEMMA EnteringPath ==
  ASSUME NEW x \in Places, NEW l \in Places, NEW v \in Views, Fits(v), l = x => v.m = "none"
  PROVE  \E u, w \in Views : /\ Path(v, <<Step("enter", {x})>>, u, l)
                             /\ Path(u, InDebugger("insert", {x}), w, l) /\ Fits(w)
<1> DEFINE u == Effect(v, Step("enter", {x}), l)
           w == IF debugging THEN Effect(u, Step("insert", {x}), l) ELSE u
<1>1. u \in Views /\ w \in Views
  BY EffectType
<1>2. Allows(v, Step("enter", {x}), l)
  BY DEF Allows, Step
<1>3. Path(v, <<Step("enter", {x})>>, u, l)
  BY <1>2, PathOne
<1>4. u = IF l = x THEN [v EXCEPT !.m = "on"] ELSE v
  BY DEF Effect, Step
<1>5. CASE debugging
  <2>1. Allows(u, Step("insert", {x}), l)
    BY <1>4, <1>5 DEF Allows, Step, Fits, Views, DebuggerStates, ListStates
  <2>2. w = IF l = x THEN [u EXCEPT !.d = IF @ = "stray" THEN @ ELSE "on"] ELSE u
    BY <1>5 DEF Effect, Step
  <2>3. Fits(w)
    BY <1>4, <1>5, <2>2 DEF Fits, Views, DebuggerStates, ListStates
  <2> HIDE DEF u
  <2>4. Path(u, InDebugger("insert", {x}), w, l)
    BY <1>1, <2>1, PathBlock
  <2> QED BY <1>1, <1>3, <2>3, <2>4
<1>6. CASE ~debugging
  <2> HIDE DEF u
  <2>1. Path(u, InDebugger("insert", {x}), u, l)
    BY <1>1, <1>6, PathEmpty DEF InDebugger
  <2> QED BY <1>1, <1>3, <1>6, <2>1 DEF Fits
<1> QED BY <1>5, <1>6

LEMMA AddingPath ==
  ASSUME TypeInv, NEW x \in Places, NEW l \in Places,
         NEW v \in Views, v.m = InList(l), Fits(v)
  PROVE  \E w \in Views : Path(v, Adding(x), w, l) /\ Fits(w)
<1> DEFINE r == IF x \in Listed THEN Removing(x) ELSE <<>>
<1>1. PICK y \in Views : Path(v, r, y, l) /\ Fits(y) /\ (l = x => y.m = "none")
  <2>1. CASE x \in Listed
    BY <2>1, RemovingPath
  <2>2. CASE x \notin Listed
    <3>1. l = x => v.m = "none"
      BY <2>2 DEF InList
    <3> QED BY <2>2, <3>1, PathEmpty
  <2> QED BY <2>1, <2>2
<1>2. Adding(x) = (r \o <<Step("enter", {x})>>) \o InDebugger("insert", {x})
  BY DEF Adding
<1>3. r \in Seq(Steps) /\ <<Step("enter", {x})>> \in Seq(Steps) /\ InDebugger("insert", {x}) \in Seq(Steps)
  <2>1. Local(Steps) /\ Remote(Steps)
    BY StepsRemote
  <2>2. Step("enter", {x}) \in Steps /\ Step("insert", {x}) \in Steps
    BY StepType DEF Names, Instructions
  <2> HIDE DEF Steps
  <2>3. Removing(x) \in Seq(Steps) /\ <<>> \in Seq(Steps)
    BY <2>1, RemovingIn
  <2> QED BY <2>1, <2>2, <2>3, InDebuggerIn, TupleTypes
<1> HIDE DEF r, Steps
<1>4. PICK u, w \in Views : /\ Path(y, <<Step("enter", {x})>>, u, l)
                            /\ Path(u, InDebugger("insert", {x}), w, l) /\ Fits(w)
  BY <1>1, EnteringPath
<1>5. Path(v, r \o <<Step("enter", {x})>>, u, l) /\ r \o <<Step("enter", {x})>> \in Seq(Steps)
  BY <1>1, <1>3, <1>4, PathConcat, ConcatOf
<1>6. Path(v, Adding(x), w, l)
  BY <1>2, <1>3, <1>4, <1>5, PathConcat
<1> QED BY <1>4, <1>6

LEMMA PlanPath ==
  ASSUME TypeInv, NEW plan, IsPlan(plan), NEW l \in Places,
         NEW v \in Views, v.m = InList(l), Fits(v)
  PROVE  \E w \in Views : Path(v, plan, w, l) /\ Fits(w)
<1>1. CASE \E x \in Listed : plan = Removing(x)
  BY <1>1, RemovingPath
<1>2. CASE \E x \in Places : plan = Adding(x)
  BY <1>2, AddingPath
<1>3. CASE plan = Clearing
  BY <1>3, ClearingPath
<1>4. CASE \/ \E on \in BOOLEAN, x \in Listed : plan = Switching(on, {x})
           \/ plan = Switching(FALSE, Listed)
  BY <1>4, SwitchingPath
<1>5. Path(v, Continuing, v, l)
  <2>1. Allows(v, Step("continue", {}), l) /\ Effect(v, Step("continue", {}), l) = v
    BY NoEffect DEF Step
  <2> QED BY <2>1, PathOne DEF Continuing
<1>6. ASSUME NEW x \in Places PROVE Path(v, Setting(x), v, l)
  <2>1. /\ Allows(v, Step("temporary", {x}), l) /\ Effect(v, Step("temporary", {x}), l) = v
        /\ Allows(v, Step("continue", {}), l) /\ Effect(v, Step("continue", {}), l) = v
    BY NoEffect DEF Step
  <2> QED BY <2>1, PathTwo DEF Setting
<1>7. CASE plan = Continuing \/ \E x \in Places : plan = Setting(x)
  BY <1>5, <1>6, <1>7
<1> QED BY <1>1, <1>2, <1>3, <1>4, <1>7 DEF IsPlan

-----------------------------------------------------------------------------
(* Attaching: the marks are set, and the disabled ones disabled. *)
LEMMA ReorderedInList ==
  ASSUME TypeInv, NEW o \in Orders, marks' = Reordered(o), NEW l PROVE InList(l)' = InList(l)
<1>1. /\ DOMAIN marks' = DOMAIN marks /\ o \in [DOMAIN marks -> DOMAIN marks]
      /\ \A i \in DOMAIN marks : \E j \in DOMAIN marks : o[j] = i
      /\ \A i \in DOMAIN marks : marks'[i].at = marks[o[i]].at /\ marks'[i].on = marks[o[i]].on
  BY ReorderedType
<1>2. l \in Listed' <=> l \in Listed
  <2>1. l \in Listed' <=> \E i \in DOMAIN marks' : marks'[i].at = l
    BY DEF Listed
  <2>2. l \in Listed <=> \E i \in DOMAIN marks : marks[i].at = l
    BY DEF Listed
  <2> QED BY <1>1, <2>1, <2>2
<1>3. (\E i \in DOMAIN marks' : marks'[i].at = l /\ marks'[i].on)
        <=> (\E i \in DOMAIN marks : marks[i].at = l /\ marks[i].on)
  BY <1>1
<1> QED BY <1>2, <1>3 DEF InList

LEMMA InsertsPath ==
  ASSUME NEW s \in Seq(Entries), Distinct(s), NEW l, NEW m \in ListStates
  PROVE  Path(View("none", m), Inserts(s),
              View(IF \E i \in DOMAIN s : s[i].at = l THEN "on" ELSE "none", m), l)
<1>1. /\ Inserts(s) \in Seq(Steps) /\ Len(Inserts(s)) = Len(s) /\ Len(s) \in Nat
      /\ \A i \in 1..Len(s) : Inserts(s)[i] = Step("insert", {s[i].at})
  BY InsertsType
<1>2. DOMAIN s = 1..Len(s)
  OBVIOUS
<1> DEFINE n == Len(s)
           f(k) == IF \E i \in 1..n : i < k /\ s[i].at = l THEN "on" ELSE "none"
           h == [k \in 1..(n + 1) |-> View(f(k), m)]
<1>3. \A k \in 1..(n + 1) : View(f(k), m) \in Views
  BY ViewType DEF DebuggerStates
<1>4. h \in [1..(n + 1) -> Views]
  BY <1>3
<1>5. h[1] = View("none", m)
  <2>1. f(1) = "none"
    OBVIOUS
  <2> QED BY <1>1, <2>1
<1>6. h[n + 1] = View(IF \E i \in DOMAIN s : s[i].at = l THEN "on" ELSE "none", m)
  <2>1. f(n + 1) = IF \E i \in DOMAIN s : s[i].at = l THEN "on" ELSE "none"
    BY <1>1, <1>2
  <2> HIDE DEF f
  <2> QED BY <1>1, <2>1
<1>7. ASSUME NEW k \in 1..n
      PROVE  Allows(h[k], Inserts(s)[k], l) /\ h[k + 1] = Effect(h[k], Inserts(s)[k], l)
  <2>1. Inserts(s)[k] = Step("insert", {s[k].at})
    BY <1>1
  <2>2. k \in 1..(n + 1) /\ k + 1 \in 1..(n + 1)
    BY <1>1
  <2>3. h[k] = View(f(k), m) /\ h[k + 1] = View(f(k + 1), m)
    BY <2>2
  <2>4. CASE s[k].at = l
    <3>1. \A i \in 1..n : s[i].at = l => i = k
      BY <1>2, <2>4 DEF Distinct
    <3>2. f(k) = "none" /\ f(k + 1) = "on"
      BY <1>1, <2>4, <3>1
    <3>3. /\ Allows(View("none", m), Step("insert", {s[k].at}), l)
          /\ Effect(View("none", m), Step("insert", {s[k].at}), l) = View("on", m)
      BY <2>4 DEF Allows, Effect, View, Step
    <3> QED BY <2>1, <2>3, <3>2, <3>3
  <2>5. CASE s[k].at # l
    <3>1. f(k + 1) = f(k)
      <4>1. \A i \in 1..n : s[i].at = l => (i < k + 1 <=> i < k)
        BY <1>1, <2>5
      <4> QED BY <4>1
    <3>2. \A v : /\ Allows(v, Step("insert", {s[k].at}), l)
                 /\ Effect(v, Step("insert", {s[k].at}), l) = v
      BY <2>5 DEF Allows, Effect, Step
    <3> QED BY <2>1, <2>3, <3>1, <3>2
  <2> QED BY <2>4, <2>5
<1> HIDE DEF h
<1> QED BY <1>1, <1>4, <1>5, <1>6, <1>7 DEF Path

LEMMA AttachPath ==
  ASSUME TypeInv, NEW o \in Orders, NEW b \in {"halted", "run"}, NEW l \in Places
  PROVE  \E w \in Views :
           /\ Path(View("none", InList(l)),
                   Inserts(Reordered(o)) \o <<Step("guess", {}), Step(b, {})>>, w, l)
           /\ w.d = w.m
<1> DEFINE s == Reordered(o)
           m == InList(l)
           d == IF \E i \in DOMAIN s : s[i].at = l THEN "on" ELSE "none"
           a == Step("guess", {})
           c == Step(b, {})
           w == Effect(View(d, m), a, l)
<1>1. /\ s \in Seq(Entries) /\ Distinct(s) /\ DOMAIN s = DOMAIN marks
      /\ o \in [DOMAIN marks -> DOMAIN marks]
      /\ \A i \in DOMAIN marks : \E j \in DOMAIN marks : o[j] = i
      /\ \A i \in DOMAIN marks : s[i].at = marks[o[i]].at
  BY ReorderedType
<1>2. d = "none" <=> m = "none"
  <2>1. m = "none" <=> \A i \in DOMAIN marks : marks[i].at # l
    BY InListNone
  <2> HIDE DEF s, m
  <2>2. (\E i \in DOMAIN s : s[i].at = l) <=> \E i \in DOMAIN marks : marks[i].at = l
    <3>1. ASSUME NEW i \in DOMAIN s, s[i].at = l PROVE \E j \in DOMAIN marks : marks[j].at = l
      <4>1. o[i] \in DOMAIN marks /\ marks[o[i]].at = l
        BY <1>1, <3>1
      <4> QED BY <4>1
    <3>2. ASSUME NEW i \in DOMAIN marks, marks[i].at = l PROVE \E j \in DOMAIN s : s[j].at = l
      <4>1. PICK j \in DOMAIN marks : o[j] = i
        BY <1>1
      <4>2. j \in DOMAIN s /\ s[j].at = l
        BY <1>1, <3>2, <4>1
      <4> QED BY <4>2
    <3> QED BY <3>1, <3>2
  <2> QED BY <2>1, <2>2 DEF d
<1>3. m \in ListStates /\ d \in {"none", "on"}
  BY ViewType
<1> HIDE DEF s, m, d
<1>4. View(d, m) \in Views
  BY <1>3, ViewType DEF DebuggerStates
<1>5. Path(View("none", m), Inserts(s), View(d, m), l)
  BY <1>1, <1>3, InsertsPath DEF d
<1>6. w \in Views
  BY EffectType, <1>4
<1>7. w.d = w.m
  BY <1>2, <1>3 DEF Effect, View, Step, Changed, ListStates
<1>8. Allows(View(d, m), a, l)
  BY DEF Allows, Step
<1> HIDE DEF w
<1>9. Allows(w, c, l) /\ Effect(w, c, l) = w
  BY <1>6, NoEffect DEF Step
<1>10. Path(View(d, m), <<a, c>>, w, l)
  BY <1>4, <1>8, <1>9, PathTwo DEF w
<1>11. <<a, c>> \in Seq(Steps) /\ Inserts(s) \in Seq(Steps)
  <2>1. {} \in SUBSET Places /\ "guess" \in Names /\ b \in Names
    BY DEF Names, Instructions
  <2>2. a \in Steps /\ c \in Steps
    BY <2>1, StepType
  <2> HIDE DEF Steps, a, c
  <2> QED BY <1>1, <2>2, TupleTypes, InsertsType
<1> HIDE DEF a, c, Steps
<1>12. Path(View("none", m), Inserts(s) \o <<a, c>>, w, l)
  BY <1>5, <1>10, <1>11, PathConcat
<1> QED BY <1>6, <1>7, <1>12 DEF s, m, a, c

-----------------------------------------------------------------------------
(* A step of the list does to a place what Effect says. *)
LEMMA StoreEffect ==
  ASSUME TypeInv, TypeInv', SingleInv, Store, NEW l \in Places, NEW d \in DebuggerStates,
         Allows(View(d, InList(l)), Head(ops), l)
  PROVE  Effect(View(d, InList(l)), Head(ops), l) = View(d, InList(l)')
<1> DEFINE s == Head(ops)
<1>0. marks \in Seq(Entries) /\ Distinct(marks) /\ Len(marks) \in Nat /\ DOMAIN marks = 1..Len(marks)
  BY DEF TypeInv
<1>s. s.do \in {"enter", "drop"} => \E x \in Places : s.at = {x}
  <2>1. s \in SingleSteps
    BY TailIn DEF SingleInv, Store
  <2> QED BY <2>1 DEF SingleSteps
<1>1. CASE s.do = "enter" /\ \E x \in s.at :
             marks' = Append(marks, [at |-> x, no |-> 0, on |-> TRUE])
  <2>1. PICK x \in Places : s.at = {x} /\ marks' = Append(marks, [at |-> x, no |-> 0, on |-> TRUE])
    BY <1>s, <1>1
  <2> DEFINE e == [at |-> x, no |-> 0, on |-> TRUE]
  <2>2. e \in Entries /\ e.at = x /\ e.on = TRUE /\ marks' = Append(marks, e)
    BY <2>1 DEF Entries
  <2> HIDE DEF e, Entries
  <2>3. /\ Len(marks') = Len(marks) + 1
        /\ \A i \in 1..Len(marks) : marks'[i] = marks[i]
        /\ marks'[Len(marks) + 1] = e
    BY <1>0, <2>2, AppendOf
  <2>4. DOMAIN marks' = 1..(Len(marks) + 1)
    BY <2>3, <1>0 DEF TypeInv
  <2>5. InList(l)' = IF l = x THEN "on" ELSE InList(l)
    <3>1. l \in Listed' <=> \E i \in DOMAIN marks' : marks'[i].at = l
      BY DEF Listed
    <3>2. l \in Listed <=> \E i \in DOMAIN marks : marks[i].at = l
      BY DEF Listed
    <3>3. CASE l = x
      BY <1>0, <2>2, <2>3, <2>4, <3>1, <3>3 DEF InList
    <3>4. CASE l # x
      <4>1. \A i \in DOMAIN marks' : marks'[i].at = l => i \in DOMAIN marks
        BY <1>0, <2>2, <2>3, <2>4, <3>4
      <4>2. \A i \in DOMAIN marks : i \in DOMAIN marks' /\ marks'[i] = marks[i]
        BY <1>0, <2>3, <2>4
      <4> QED BY <3>1, <3>2, <3>4, <4>1, <4>2 DEF InList
    <3> QED BY <3>3, <3>4
  <2> HIDE DEF InList
  <2> QED BY <1>1, <2>1, <2>5 DEF Effect, View
<1>2. CASE s.do = "drop" /\ \E i \in DOMAIN marks :
             marks[i].at \in s.at /\ marks' = RemoveAt(marks, i)
  <2>1. PICK k \in DOMAIN marks : s.at = {marks[k].at} /\ marks' = RemoveAt(marks, k)
    BY <1>s, <1>2
  <2> HIDE DEF Entries
  <2>2. /\ Len(marks') = Len(marks) - 1
        /\ \A j \in 1..(Len(marks) - 1) :
             marks'[j] = IF j < k THEN marks[j] ELSE marks[j + 1]
    BY <1>0, <2>1, RemoveAtOf
  <2>3. DOMAIN marks' = 1..(Len(marks) - 1)
    BY <1>0, <2>2 DEF TypeInv
  <2>4. InList(l)' = IF l = marks[k].at THEN "none" ELSE InList(l)
    <3>1. l \in Listed' <=> \E i \in DOMAIN marks' : marks'[i].at = l
      BY DEF Listed
    <3>2. l \in Listed <=> \E i \in DOMAIN marks : marks[i].at = l
      BY DEF Listed
    <3>3. \A j \in DOMAIN marks' : \E i \in DOMAIN marks : i # k /\ marks'[j] = marks[i]
      <4>1. ASSUME NEW j \in DOMAIN marks' PROVE \E i \in DOMAIN marks : i # k /\ marks'[j] = marks[i]
        <5>1. CASE j < k
          BY <1>0, <2>2, <2>3, <5>1
        <5>2. CASE ~(j < k)
          <6>1. j + 1 \in DOMAIN marks /\ j + 1 # k /\ marks'[j] = marks[j + 1]
            BY <1>0, <2>2, <2>3, <5>2
          <6> QED BY <6>1
        <5> QED BY <5>1, <5>2
      <4> QED BY <4>1
    <3>4. \A i \in DOMAIN marks : i # k => \E j \in DOMAIN marks' : marks'[j] = marks[i]
      <4>1. ASSUME NEW i \in DOMAIN marks, i # k PROVE \E j \in DOMAIN marks' : marks'[j] = marks[i]
        <5>1. CASE i < k
          <6>1. i \in DOMAIN marks' /\ marks'[i] = marks[i]
            BY <1>0, <2>2, <2>3, <5>1
          <6> QED BY <6>1
        <5>2. CASE ~(i < k)
          <6>1. i - 1 \in DOMAIN marks' /\ ~(i - 1 < k) /\ (i - 1) + 1 = i
            BY <1>0, <2>3, <4>1, <5>2
          <6> QED BY <2>2, <2>3, <6>1
        <5> QED BY <5>1, <5>2
      <4> QED BY <4>1
    <3>5. CASE l = marks[k].at
      <4>1. \A i \in DOMAIN marks : i # k => marks[i].at # l
        BY <1>0, <3>5 DEF Distinct
      <4>2. l \notin Listed'
        BY <3>1, <3>3, <4>1
      <4> QED BY <3>5, <4>2 DEF InList
    <3>6. CASE l # marks[k].at
      <4>1. l \in Listed' <=> l \in Listed
        BY <3>1, <3>2, <3>3, <3>4, <3>6
      <4>2. (\E j \in DOMAIN marks' : marks'[j].at = l /\ marks'[j].on)
              <=> \E i \in DOMAIN marks : marks[i].at = l /\ marks[i].on
        BY <3>3, <3>4, <3>6
      <4> QED BY <3>6, <4>1, <4>2 DEF InList
    <3> QED BY <3>5, <3>6
  <2> HIDE DEF InList
  <2> QED BY <1>2, <2>1, <2>4 DEF Effect, View
<1>3. CASE s.do = "clear" /\ marks' = <<>>
  <2>1. InList(l)' = "none"
    BY <1>3 DEF InList, Listed
  <2> QED BY <1>3, <2>1 DEF Effect, View
<1>4. CASE /\ s.do \in {"on", "off"}
           /\ marks' = [i \in DOMAIN marks |->
                          IF marks[i].at \in s.at THEN [marks[i] EXCEPT !.on = (s.do = "on")]
                          ELSE marks[i]]
  <2>1. ASSUME NEW i \in DOMAIN marks
        PROVE  /\ marks'[i].at = marks[i].at
               /\ marks'[i].on = IF marks[i].at \in s.at THEN s.do = "on" ELSE marks[i].on
    <3>1. marks[i] \in Entries
      BY <1>0
    <3>2. marks'[i] = IF marks[i].at \in s.at THEN [marks[i] EXCEPT !.on = (s.do = "on")] ELSE marks[i]
      BY <1>4
    <3> QED BY <3>1, <3>2 DEF Entries
  <2>2. DOMAIN marks' = DOMAIN marks
    BY <1>4
  <2>3. InList(l)' = IF l \in s.at /\ InList(l) # "none" THEN s.do ELSE InList(l)
    <3>1. l \in Listed' <=> \E i \in DOMAIN marks' : marks'[i].at = l
      BY DEF Listed
    <3>2. l \in Listed <=> \E i \in DOMAIN marks : marks[i].at = l
      BY DEF Listed
    <3>3. l \in Listed' <=> l \in Listed
      BY <2>1, <2>2, <3>1, <3>2
    <3>4. CASE l \notin Listed
      BY <3>3, <3>4 DEF InList
    <3>5. CASE l \in Listed
      <4>1. PICK i \in DOMAIN marks : marks[i].at = l
        BY <3>2, <3>5
      <4>2. InList(l) = IF marks[i].on THEN "on" ELSE "off"
        BY <4>1, InListEntry
      <4>3. \A j \in DOMAIN marks : marks'[j].at = l => j = i
        BY <1>0, <2>1, <4>1 DEF Distinct
      <4>4. InList(l)' = IF marks'[i].on THEN "on" ELSE "off"
        BY <2>1, <2>2, <3>3, <3>5, <4>1, <4>3 DEF InList
      <4>5. marks'[i].on = IF l \in s.at THEN s.do = "on" ELSE marks[i].on
        BY <2>1, <4>1
      <4> QED BY <1>4, <4>2, <4>4, <4>5
    <3> QED BY <3>4, <3>5
  <2> HIDE DEF InList
  <2> QED BY <1>4, <2>3 DEF Effect, View
<1> QED BY <1>1, <1>2, <1>3, <1>4 DEF Store

-----------------------------------------------------------------------------
(* A command does to a place what Effect says, or has gone astray. *)
LEMMA AtDebuggerSame ==
  ASSUME NEW l, l \in astray' <=> l \in astray,
         \A p \in points : p.at = l => p \in points',
         \A p \in points' : p.at = l => p \in points
  PROVE  AtDebugger(l)' = AtDebugger(l)
<1>1. (\A p \in points' : p.at # l) <=> (\A p \in points : p.at # l)
  OBVIOUS
<1>2. (\E p \in points' : p.at = l /\ p.on) <=> (\E p \in points : p.at = l /\ p.on)
  OBVIOUS
<1> QED BY <1>1, <1>2 DEF AtDebugger

LEMMA AtDebuggerPoint ==
  ASSUME UniqueInv, NEW p \in points, p.at \notin astray
  PROVE  AtDebugger(p.at) = IF p.on THEN "on" ELSE "off"
<1>1. \A q \in points : q.at = p.at => q = p
  BY DEF UniqueInv
<1> QED BY <1>1 DEF AtDebugger

LEMMA InsertEffect ==
  ASSUME TypeInv, SingleInv, sent # <<>>, Head(sent).do \in {"insert", "temporary"},
         Insert(Head(sent)), NEW l \in Places,
         Allows(View(AtDebugger(l), "none"), Head(sent), l)
  PROVE  AtDebugger(l)' \in {"stray", Effect(View(AtDebugger(l), "none"), Head(sent), l).d}
<1> DEFINE c == Head(sent)
<1>1. c \in SingleCommands
  BY TailIn DEF SingleInv
<1>2. c.do = "insert" => \E x \in Places : c.at = {x}
  BY <1>1 DEF SingleCommands
<1> HIDE DEF c
<1>3. PICK x \in c.at :
        IF x \in Absent
        THEN Says(<<>>) /\ UNCHANGED <<points, number>> /\ astray' = astray \union {x}
        ELSE /\ points' = IF c.do = "temporary" THEN points
                          ELSE points \union {[no |-> number, at |-> x, on |-> TRUE]}
             /\ number' = number + 1
             /\ Says(<<Said("bkpt", {x}, number)>>)
             /\ UNCHANGED astray
  BY DEF Insert, c
<1>4. Effect(View(AtDebugger(l), "none"), c, l).d =
        IF c.do = "insert" /\ l = x /\ AtDebugger(l) # "stray" THEN "on" ELSE AtDebugger(l)
  <2>1. CASE c.do = "insert"
    BY <1>2, <1>3, <2>1 DEF Effect, View
  <2>2. CASE c.do = "temporary"
    BY <2>2 DEF Effect, View
  <2> QED BY <2>1, <2>2 DEF c
<1>5. CASE x \in Absent
  <2>1. CASE l = x
    BY <1>3, <1>5, <2>1 DEF AtDebugger
  <2>2. CASE l # x
    <3>1. AtDebugger(l)' = AtDebugger(l)
      BY <1>3, <1>5, <2>2 DEF AtDebugger
    <3> QED BY <1>4, <2>2, <3>1 DEF c
  <2> QED BY <2>1, <2>2
<1>6. CASE x \notin Absent /\ c.do = "insert"
  <2> DEFINE p == [no |-> number, at |-> x, on |-> TRUE]
  <2>1. points' = points \union {p} /\ astray' = astray /\ p.at = x /\ p.on = TRUE
    BY <1>3, <1>6
  <2> HIDE DEF p
  <2>2. CASE l = x
    <3>1. AtDebugger(l)' = IF l \in astray THEN "stray" ELSE "on"
      BY <2>1, <2>2 DEF AtDebugger
    <3>2. AtDebugger(l) = "stray" => l \in astray
      BY DEF AtDebugger
    <3> QED BY <1>4, <1>6, <2>2, <3>1, <3>2 DEF c
  <2>3. CASE l # x
    <3>1. AtDebugger(l)' = AtDebugger(l)
      BY <2>1, <2>3, AtDebuggerSame
    <3> QED BY <1>4, <2>3, <3>1 DEF c
  <2> QED BY <2>2, <2>3
<1>7. CASE x \notin Absent /\ c.do = "temporary"
  <2>1. AtDebugger(l)' = AtDebugger(l)
    BY <1>3, <1>7 DEF AtDebugger
  <2> QED BY <1>4, <1>7, <2>1 DEF c
<1> QED BY <1>4, <1>5, <1>6, <1>7 DEF c

LEMMA ChangeEffect ==
  ASSUME TypeInv, UniqueInv, NEW c, c.do \in {"delete", "enable", "disable"}, Change(c),
         NEW l \in Places
  PROVE  AtDebugger(l)' \in {"stray", Effect(View(AtDebugger(l), "none"), c, l).d}
<1> DEFINE d == AtDebugger(l)
<1>1. astray' = astray \union Misses(c)
  BY DEF Change
<1>2. CASE l \in astray \/ l \in Misses(c)
  BY <1>1, <1>2 DEF AtDebugger
<1>3. CASE l \notin astray /\ l \notin Misses(c)
  <2>1. (l \in c.at) <=> (\E p \in points : p.at = l /\ p.no \in c.nos)
    BY <1>3 DEF Misses
  <2>2. l \notin astray'
    BY <1>1, <1>3
  <2>3. d # "stray"
    BY <1>3 DEF AtDebugger
  <2>4. CASE l \notin c.at
    <3>1. Effect(View(d, "none"), c, l).d = d
      BY <2>4 DEF Effect, View
    <3>2. \A p \in points : p.at = l => p.no \notin c.nos
      BY <2>1, <2>4
    <3>3. /\ \A p \in points : p.at = l => p \in points'
          /\ \A p \in points' : p.at = l => p \in points
      <4>1. CASE c.do = "delete"
        BY <3>2, <4>1 DEF Change
      <4>2. CASE c.do # "delete"
        <5>1. points' = {IF p.no \in c.nos THEN [p EXCEPT !.on = (c.do = "enable")] ELSE p : p \in points}
          BY <4>2 DEF Change
        <5>2. \A p \in points : p.at = l => p \in points'
          BY <3>2, <5>1
        <5>3. ASSUME NEW q \in points', q.at = l PROVE q \in points
          <6>1. PICK p \in points : q = IF p.no \in c.nos THEN [p EXCEPT !.on = (c.do = "enable")] ELSE p
            BY <5>1
          <6>2. p \in [no : 1..number, at : Places, on : BOOLEAN]
            BY DEF TypeInv
          <6>3. q.at = p.at
            BY <6>1, <6>2
          <6> QED BY <3>2, <5>3, <6>1, <6>3
        <5> QED BY <5>2, <5>3
      <4> QED BY <4>1, <4>2
    <3>4. AtDebugger(l)' = d
      BY <1>3, <2>2, <3>3, AtDebuggerSame
    <3> QED BY <3>1, <3>4
  <2>5. CASE l \in c.at
    <3>1. PICK p \in points : p.at = l /\ p.no \in c.nos
      BY <2>1, <2>5
    <3>2. \A q \in points : q.at = l => q = p
      BY <1>3, <3>1 DEF UniqueInv
    <3>3. d \in {"on", "off"}
      BY <1>3, <3>1, AtDebuggerPoint
    <3>4. p \in [no : 1..number, at : Places, on : BOOLEAN]
      BY DEF TypeInv
    <3>5. CASE c.do = "delete"
      <4>1. \A q \in points' : q.at # l
        BY <3>1, <3>2, <3>5 DEF Change
      <4>2. AtDebugger(l)' = "none"
        BY <2>2, <4>1 DEF AtDebugger
      <4>3. Effect(View(d, "none"), c, l).d = "none"
        BY <2>5, <3>3, <3>5 DEF Effect, Changed, View
      <4> QED BY <4>2, <4>3
    <3>6. CASE c.do # "delete"
      <4> DEFINE g(q) == IF q.no \in c.nos THEN [q EXCEPT !.on = (c.do = "enable")] ELSE q
      <4>1. points' = {g(q) : q \in points}
        BY <3>6 DEF Change
      <4>2. g(p).at = l /\ g(p).on = (c.do = "enable") /\ g(p) \in points'
        BY <3>1, <3>4, <4>1
      <4>3. ASSUME NEW r \in points', r.at = l PROVE r = g(p)
        <5>1. PICK q \in points : r = g(q)
          BY <4>1
        <5>2. q \in [no : 1..number, at : Places, on : BOOLEAN]
          BY DEF TypeInv
        <5>3. q.at = l
          BY <4>3, <5>1, <5>2
        <5> QED BY <3>2, <5>1, <5>3
      <4> HIDE DEF g
      <4>4. AtDebugger(l)' = IF c.do = "enable" THEN "on" ELSE "off"
        BY <2>2, <4>2, <4>3 DEF AtDebugger
      <4>5. Effect(View(d, "none"), c, l).d = IF c.do = "enable" THEN "on" ELSE "off"
        BY <2>5, <3>3, <3>6 DEF Effect, Changed, View
      <4> QED BY <4>4, <4>5
    <3> QED BY <3>5, <3>6
  <2> QED BY <2>4, <2>5
<1> QED BY <1>2, <1>3

LEMMA ExecuteEffect ==
  ASSUME TypeInv, SingleInv, UniqueInv, Execute, NEW l \in Places,
         Allows(View(AtDebugger(l), "none"), Head(sent), l)
  PROVE  AtDebugger(l)' \in {"stray", Effect(View(AtDebugger(l), "none"), Head(sent), l).d}
<1> DEFINE c == Head(sent)
<1>1. CASE c.do \in {"insert", "temporary"} /\ Insert(c)
  BY <1>1, InsertEffect DEF Execute
<1>2. CASE c.do \in {"delete", "enable", "disable"} /\ Change(c)
  BY <1>2, ChangeEffect
<1>3. CASE c.do \in {"list", "run", "continue"} /\ UNCHANGED <<points, astray>>
  <2>1. AtDebugger(l)' = AtDebugger(l)
    BY <1>3 DEF AtDebugger
  <2>2. Effect(View(AtDebugger(l), "none"), c, l).d = AtDebugger(l)
    <3>1. View(AtDebugger(l), "none") \in Views
      BY ViewType DEF ListStates
    <3>2. Effect(View(AtDebugger(l), "none"), c, l) = View(AtDebugger(l), "none")
      BY <1>3, <3>1, NoEffect
    <3> QED BY <3>2 DEF View
  <2> QED BY <2>1, <2>2
<1> QED BY <1>1, <1>2, <1>3 DEF Execute, debugger

LEMMA AgreeExecute ==
  ASSUME TypeInv, SingleInv, UniqueInv, AgreeInv, Execute PROVE AgreeInv'
<1> SUFFICES ASSUME NEW l \in Places
             PROVE  \E d \in DebuggerStates, w \in Views :
                      /\ Path(View(AtDebugger(l)', "none"), sent', View(d, "none"), l)
                      /\ Path(View(d, InList(l)'), ops', w, l)
                      /\ debugging' => w.d \in {"stray", w.m}
  BY DEF AgreeInv
<1>0. /\ sent \in Seq(Commands) /\ sent # <<>> /\ sent' = Tail(sent)
      /\ ops' = ops /\ debugging' = debugging /\ InList(l)' = InList(l)
      /\ ops \in Seq(Steps)
  BY DEF TypeInv, Execute, manager, user, InList, Listed
<1>1. PICK d \in DebuggerStates, w \in Views :
        /\ Path(View(AtDebugger(l), "none"), sent, View(d, "none"), l)
        /\ Path(View(d, InList(l)), ops, w, l)
        /\ debugging => w.d \in {"stray", w.m}
  BY DEF AgreeInv
<1> DEFINE c == Head(sent)
           v == View(AtDebugger(l), "none")
           u == Effect(v, c, l)
<1>2. Allows(v, c, l) /\ Path(u, Tail(sent), View(d, "none"), l)
  <2> HIDE DEF Commands
  <2> QED BY <1>0, <1>1, PathTail
<1>3. c.do \in Instructions
  BY <1>0, SentType
<1>4. u = View(u.d, "none") /\ u.d \in DebuggerStates
  BY <1>3, ViewType, InstructionEffect DEF ListStates
<1>5. AtDebugger(l)' \in {"stray", u.d}
  BY <1>2, ExecuteEffect
<1> HIDE DEF c, v, u
<1>6. CASE AtDebugger(l)' = u.d
  BY <1>0, <1>1, <1>2, <1>4, <1>6
<1>7. CASE AtDebugger(l)' = "stray"
  <2>1. Tail(sent) \in Seq(Commands)
    BY <1>0, SentType
  <2>2. Path(Stray(u), Tail(sent), Stray(View(d, "none")), l)
    <3> HIDE DEF Commands
    <3> QED BY <1>2, <2>1, PathStray
  <2>3. Stray(u) = View("stray", "none") /\ Stray(View(d, "none")) = View("stray", "none")
        /\ Stray(View(d, InList(l))) = View("stray", InList(l))
    <3>1. \A e, m : Stray(View(e, m)) = View("stray", m)
      BY DEF Stray, View
    <3> QED BY <1>4, <3>1
  <2>4. Path(Stray(View(d, InList(l))), ops, Stray(w), l)
    <3> HIDE DEF Steps
    <3> QED BY <1>0, <1>1, PathStray
  <2>5. Stray(w) \in Views /\ Stray(w).d = "stray" /\ "stray" \in DebuggerStates
    BY DEF Stray, Views, DebuggerStates
  <2> QED BY <1>0, <1>7, <2>2, <2>3, <2>4, <2>5
<1> QED BY <1>5, <1>6, <1>7

(* The head of what is to be done leads on. *)
LEMMA AgreeHead ==
  ASSUME TypeInv, AgreeInv, ops # <<>>, NEW l \in Places
  PROVE  \E d \in DebuggerStates, w \in Views :
           /\ Path(View(AtDebugger(l), "none"), sent, View(d, "none"), l)
           /\ Allows(View(d, InList(l)), Head(ops), l)
           /\ Path(Effect(View(d, InList(l)), Head(ops), l), Tail(ops), w, l)
           /\ Path(View(d, InList(l)), ops, w, l)
           /\ debugging => w.d \in {"stray", w.m}
<1>1. PICK d \in DebuggerStates, w \in Views :
        /\ Path(View(AtDebugger(l), "none"), sent, View(d, "none"), l)
        /\ Path(View(d, InList(l)), ops, w, l)
        /\ debugging => w.d \in {"stray", w.m}
  BY DEF AgreeInv
<1>2. ops \in Seq(Steps)
  BY DEF TypeInv
<1>3. /\ Allows(View(d, InList(l)), Head(ops), l)
      /\ Path(Effect(View(d, InList(l)), Head(ops), l), Tail(ops), w, l)
  <2> HIDE DEF Steps
  <2> QED BY <1>1, <1>2, PathTail
<1> QED BY <1>1, <1>3

LEMMA EnterNew ==
  ASSUME TypeInv, AgreeInv, Does("enter") PROVE Head(ops).at \intersect Listed = {}
<1>1. ASSUME NEW l \in Head(ops).at PROVE l \notin Listed
  <2>1. l \in Places /\ ops # <<>>
    BY OpsType DEF TypeInv, Does
  <2>2. PICK d \in DebuggerStates : Allows(View(d, InList(l)), Head(ops), l)
    BY <2>1, AgreeHead
  <2>3. InList(l) = "none"
    BY <2>2 DEF Allows, View, Does
  <2> QED BY <2>3 DEF InList
<1> QED BY <1>1

LEMMA AgreeAsk == ASSUME TypeInv, AgreeInv, Asks PROVE AgreeInv'
<1>1. PICK plan : IsPlan(plan) /\ Ask(plan)
  BY AskPlan
<1> SUFFICES ASSUME NEW l \in Places
             PROVE  \E d \in DebuggerStates, w \in Views :
                      /\ Path(View(AtDebugger(l)', "none"), sent', View(d, "none"), l)
                      /\ Path(View(d, InList(l)'), ops', w, l)
                      /\ debugging' => w.d \in {"stray", w.m}
  BY DEF AgreeInv
<1>2. PICK d \in DebuggerStates, w \in Views :
        /\ Path(View(AtDebugger(l), "none"), sent, View(d, "none"), l)
        /\ Path(View(d, InList(l)), ops, w, l)
        /\ debugging => w.d \in {"stray", w.m}
  BY DEF AgreeInv
<1>3. ops = <<>> /\ ops' = plan /\ UNCHANGED <<sent, debugging, points, astray, marks>>
  BY <1>1 DEF Ask, manager, debugger
<1>4. w = View(d, InList(l))
  BY <1>2, <1>3, PathNone
<1>5. View(d, InList(l)).m = InList(l) /\ Fits(View(d, InList(l))) /\ View(d, InList(l)) \in Views
  BY <1>2, <1>4, ViewType DEF Fits
<1>6. PICK y \in Views : Path(View(d, InList(l)), plan, y, l) /\ Fits(y)
  BY <1>1, <1>5, PlanPath
<1>7. AtDebugger(l)' = AtDebugger(l) /\ InList(l)' = InList(l)
  BY <1>3 DEF AtDebugger, InList, Listed
<1> QED BY <1>2, <1>3, <1>6, <1>7 DEF Fits

LEMMA AgreeAttach ==
  ASSUME TypeInv, QuietInv, AgreeInv, NEW process \in BOOLEAN, Attach(process) PROVE AgreeInv'
<1> SUFFICES ASSUME NEW l \in Places
             PROVE  \E d \in DebuggerStates, w \in Views :
                      /\ Path(View(AtDebugger(l)', "none"), sent', View(d, "none"), l)
                      /\ Path(View(d, InList(l)'), ops', w, l)
                      /\ debugging' => w.d \in {"stray", w.m}
  BY DEF AgreeInv
<1> DEFINE b == IF process THEN "halted" ELSE "run"
<1>1. PICK o \in Orders :
        /\ marks' = Reordered(o)
        /\ ops' = Inserts(Reordered(o)) \o <<Step("guess", {}), Step(b, {})>>
  BY DEF Attach
<1>2. /\ sent' = <<>> /\ points' = {} /\ astray' = {}
  BY DEF Attach, QuietInv, AtRest
<1>3. AtDebugger(l)' = "none"
  BY <1>2 DEF AtDebugger
<1>4. InList(l)' = InList(l)
  BY <1>1, ReorderedInList
<1>5. b \in {"halted", "run"}
  OBVIOUS
<1> HIDE DEF b
<1>6. PICK w \in Views :
        /\ Path(View("none", InList(l)),
                Inserts(Reordered(o)) \o <<Step("guess", {}), Step(b, {})>>, w, l)
        /\ w.d = w.m
  BY <1>5, AttachPath
<1>6a. w \in Views
  BY <1>6
<1>7. Path(View("none", "none"), <<>>, View("none", "none"), l)
  BY PathEmpty, ViewType DEF DebuggerStates, ListStates
<1>8. "none" \in DebuggerStates
  BY DEF DebuggerStates
<1>9. /\ Path(View(AtDebugger(l)', "none"), sent', View("none", "none"), l)
      /\ Path(View("none", InList(l)'), ops', w, l)
      /\ w.d \in {"stray", w.m}
  BY <1>1, <1>2, <1>3, <1>4, <1>6, <1>7
<1> QED BY <1>8, <1>9

LEMMA AgreeEnd == ASSUME TypeInv, End PROVE AgreeInv'
<1> SUFFICES ASSUME NEW l \in Places
             PROVE  \E d \in DebuggerStates, w \in Views :
                      /\ Path(View(AtDebugger(l)', "none"), sent', View(d, "none"), l)
                      /\ Path(View(d, InList(l)'), ops', w, l)
                      /\ debugging' => w.d \in {"stray", w.m}
  BY DEF AgreeInv
<1>1. sent' = <<>> /\ ops' = <<>> /\ AtDebugger(l)' = "none" /\ debugging' = FALSE
  BY DEF End, user, AtDebugger
<1>2. InList(l)' \in ListStates
  BY DEF InList, ListStates
<1>3. View("none", "none") \in Views /\ View("none", InList(l)') \in Views /\ "none" \in DebuggerStates
  BY <1>2, ViewType DEF DebuggerStates, ListStates
<1> QED BY <1>1, <1>3, PathEmpty

LEMMA AgreeInit == PointInit => AgreeInv
<1> SUFFICES ASSUME PointInit, NEW l \in Places
             PROVE  \E d \in DebuggerStates, w \in Views :
                      /\ Path(View(AtDebugger(l), "none"), sent, View(d, "none"), l)
                      /\ Path(View(d, InList(l)), ops, w, l)
                      /\ debugging => w.d \in {"stray", w.m}
  BY DEF AgreeInv
<1>1. sent = <<>> /\ ops = <<>> /\ AtDebugger(l) = "none" /\ debugging = FALSE
  BY DEF PointInit, AtDebugger
<1>2. View("none", "none") \in Views /\ View("none", InList(l)) \in Views /\ "none" \in DebuggerStates
  BY ViewType DEF DebuggerStates, ListStates
<1> QED BY <1>1, <1>2, PathEmpty

LEMMA AgreePause == ASSUME TypeInv, AgreeInv, Pause PROVE AgreeInv'
<1> SUFFICES ASSUME NEW l \in Places
             PROVE  \E d \in DebuggerStates, w \in Views :
                      /\ Path(View(AtDebugger(l)', "none"), sent', View(d, "none"), l)
                      /\ Path(View(d, InList(l)'), ops', w, l)
                      /\ debugging' => w.d \in {"stray", w.m}
  BY DEF AgreeInv
<1>0. /\ ops # <<>> /\ Head(ops).do = "pause" /\ UNCHANGED <<sent, debugging, marks, points, astray>>
      /\ ops' = Tail(ops) \/ ops' = <<Step("await", {})>> \o Tail(ops)
  BY DEF Pause, Does, Done, debugger
<1>1. AtDebugger(l)' = AtDebugger(l) /\ InList(l)' = InList(l)
  BY <1>0 DEF AtDebugger, InList, Listed
<1>2. PICK d \in DebuggerStates, w \in Views :
        /\ Path(View(AtDebugger(l), "none"), sent, View(d, "none"), l)
        /\ Path(Effect(View(d, InList(l)), Head(ops), l), Tail(ops), w, l)
        /\ debugging => w.d \in {"stray", w.m}
  BY <1>0, AgreeHead
<1> DEFINE v == View(d, InList(l))
<1>3. v \in Views
  BY ViewType
<1> HIDE DEF v
<1>4. Effect(v, Head(ops), l) = v
  BY <1>0, <1>3, NoEffect
<1>5. Path(v, Tail(ops), w, l)
  BY <1>2, <1>4 DEF v
<1>6. Allows(v, Step("await", {}), l) /\ Effect(v, Step("await", {}), l) = v
  BY <1>3, NoEffect DEF Step
<1>7. Path(v, <<Step("await", {})>>, v, l)
  BY <1>3, <1>6, PathOne
<1>8. <<Step("await", {})>> \in Seq(Steps) /\ Tail(ops) \in Seq(Steps)
  <2>1. "await" \in Names /\ {} \in SUBSET Places
    BY DEF Names, Instructions
  <2> QED BY <1>0, <2>1, StepType, OpsType DEF TypeInv
<1> HIDE DEF Steps
<1>9. Path(v, <<Step("await", {})>> \o Tail(ops), w, l)
  BY <1>5, <1>7, <1>8, PathConcat
<1>10. Path(v, ops', w, l)
  BY <1>0, <1>5, <1>9
<1> QED BY <1>0, <1>1, <1>2, <1>10 DEF v

LEMMA AgreeWaits == ASSUME TypeInv, AgreeInv, Await \/ Halted PROVE AgreeInv'
<1> SUFFICES ASSUME NEW l \in Places
             PROVE  \E d \in DebuggerStates, w \in Views :
                      /\ Path(View(AtDebugger(l)', "none"), sent', View(d, "none"), l)
                      /\ Path(View(d, InList(l)'), ops', w, l)
                      /\ debugging' => w.d \in {"stray", w.m}
  BY DEF AgreeInv
<1>0. /\ ops # <<>> /\ Head(ops).do \in {"await", "halted"} /\ ops' = Tail(ops)
      /\ UNCHANGED <<sent, debugging, marks, points, astray>>
  BY DEF Await, Halted, Does, Done, debugger, manager
<1>1. AtDebugger(l)' = AtDebugger(l) /\ InList(l)' = InList(l)
  BY <1>0 DEF AtDebugger, InList, Listed
<1>2. PICK d \in DebuggerStates, w \in Views :
        /\ Path(View(AtDebugger(l), "none"), sent, View(d, "none"), l)
        /\ Path(Effect(View(d, InList(l)), Head(ops), l), Tail(ops), w, l)
        /\ debugging => w.d \in {"stray", w.m}
  BY <1>0, AgreeHead
<1>3. View(d, InList(l)) \in Views
  BY ViewType
<1>4. Effect(View(d, InList(l)), Head(ops), l) = View(d, InList(l))
  BY <1>0, <1>3, NoEffect
<1> QED BY <1>0, <1>1, <1>2, <1>4

LEMMA AgreeStore ==
  ASSUME TypeInv, TypeInv', SingleInv, AgreeInv, Store PROVE AgreeInv'
<1> SUFFICES ASSUME NEW l \in Places
             PROVE  \E d \in DebuggerStates, w \in Views :
                      /\ Path(View(AtDebugger(l)', "none"), sent', View(d, "none"), l)
                      /\ Path(View(d, InList(l)'), ops', w, l)
                      /\ debugging' => w.d \in {"stray", w.m}
  BY DEF AgreeInv
<1>0. /\ ops # <<>> /\ ops' = Tail(ops) /\ UNCHANGED <<sent, debugging, points, astray>>
  BY DEF Store, Done, debugger
<1>1. AtDebugger(l)' = AtDebugger(l)
  BY <1>0 DEF AtDebugger
<1>2. PICK d \in DebuggerStates, w \in Views :
        /\ Path(View(AtDebugger(l), "none"), sent, View(d, "none"), l)
        /\ Allows(View(d, InList(l)), Head(ops), l)
        /\ Path(Effect(View(d, InList(l)), Head(ops), l), Tail(ops), w, l)
        /\ debugging => w.d \in {"stray", w.m}
  BY <1>0, AgreeHead
<1>3. Effect(View(d, InList(l)), Head(ops), l) = View(d, InList(l)')
  BY <1>2, StoreEffect
<1> QED BY <1>0, <1>1, <1>2, <1>3

(* What a step sends does to a place what the step says. *)
LEMMA WriteEffect ==
  ASSUME TypeInv, Write, NEW l \in Places, NEW d \in DebuggerStates,
         Allows(View(d, InList(l)), Head(ops), l)
  PROVE  \E e \in DebuggerStates :
           /\ Effect(View(d, InList(l)), Head(ops), l) = View(e, InList(l))
           /\ \/ sent' = sent /\ e = d
              \/ \E c \in Commands : /\ sent' = Append(sent, c)
                                     /\ Allows(View(d, "none"), c, l)
                                     /\ Effect(View(d, "none"), c, l) = View(e, "none")
<1> DEFINE s == Head(ops)
           m == InList(l)
           v == View(d, m)
           x == View(d, "none")
<1>1. v \in Views /\ x \in Views /\ m \in ListStates /\ "none" \in ListStates
  BY ViewType DEF ListStates
<1>a. m = "off" <=> \E i \in Guessed : marks[i].at = l
  <2>1. CASE \E i \in DOMAIN marks : marks[i].at = l
    <3>1. PICK i \in DOMAIN marks : marks[i].at = l
      BY <2>1
    <3>2. m = IF marks[i].on THEN "on" ELSE "off"
      BY <3>1, InListEntry
    <3>3. \A j \in DOMAIN marks : marks[j].at = l => j = i
      BY <3>1 DEF TypeInv, Distinct
    <3> HIDE DEF m
    <3> QED BY <3>1, <3>2, <3>3 DEF Guessed
  <2>2. CASE ~\E i \in DOMAIN marks : marks[i].at = l
    <3>1. m = "none"
      BY <2>2, InListNone
    <3> HIDE DEF m
    <3> QED BY <2>2, <3>1 DEF Guessed
  <2> QED BY <2>1, <2>2
<1> HIDE DEF m
<1>2. CASE /\ s.do \in Instructions
           /\ \E c \in Commands : sent' = Append(sent, c) /\ c.do = s.do /\ c.at = s.at
  <2>1. PICK c \in Commands : sent' = Append(sent, c) /\ c.do = s.do /\ c.at = s.at
    BY <1>2
  <2>2. /\ Effect(v, s, l) = View(Effect(x, s, l).d, m)
        /\ Effect(x, s, l).d \in DebuggerStates
        /\ Allows(v, s, l) <=> Allows(x, s, l)
    BY <1>1, <1>2, InstructionEffect
  <2>3. Effect(x, s, l) = View(Effect(x, s, l).d, "none")
    BY <1>1, <1>2, InstructionEffect
  <2>4. Effect(x, c, l) = Effect(x, s, l) /\ (Allows(x, c, l) <=> Allows(x, s, l))
    BY <1>1, <2>1, EffectSame
  <2>5. Allows(x, s, l)
    BY <2>2 DEF m
  <2> HIDE DEF s, v, x
  <2> QED BY <2>1, <2>2, <2>3, <2>4, <2>5 DEF s, v, x, m
<1>3. CASE s.do = "guess" /\ (sent' = sent /\ Guessed = {})
  <2>1. Effect(v, s, l) = View(d, m)
    BY <1>3, <1>a DEF Effect, View
  <2> QED BY <1>3, <2>1 DEF m
<1>4. CASE /\ s.do = "guess"
           /\ \E c \in Commands :
                 sent' = Append(sent, c) /\ c.do = "disable" /\ c.at = {marks[i].at : i \in Guessed}
  <2>1. PICK c \in Commands :
          sent' = Append(sent, c) /\ c.do = "disable" /\ c.at = {marks[i].at : i \in Guessed}
    BY <1>4
  <2> DEFINE e == IF m = "off" THEN Changed(d, "off") ELSE d
  <2>2. e \in DebuggerStates
    BY DEF Changed, DebuggerStates
  <2>3. Effect(v, s, l) = View(e, m)
    BY <1>4 DEF Effect, View
  <2>4. l \in c.at <=> m = "off"
    BY <1>a, <2>1
  <2>5. Allows(x, c, l)
    BY <2>1 DEF Allows
  <2>6. Effect(x, c, l) = View(e, "none")
    BY <2>1, <2>4 DEF Effect, View
  <2> HIDE DEF e, s, v, x
  <2> QED BY <2>1, <2>2, <2>3, <2>5, <2>6 DEF s, v, x, m
<1>5. CASE s.do = "resume" /\ sent' = sent
  <2>1. Effect(v, s, l) = v
    BY <1>1, <1>5, NoEffect
  <2> QED BY <1>5, <2>1 DEF m
<1>6. CASE /\ s.do = "resume"
           /\ \E c \in Commands : sent' = Append(sent, c) /\ c.do = "continue"
  <2>1. PICK c \in Commands : sent' = Append(sent, c) /\ c.do = "continue"
    BY <1>6
  <2>2. Effect(v, s, l) = v /\ Effect(x, c, l) = x /\ Allows(x, c, l)
    BY <1>1, <1>6, <2>1, NoEffect
  <2> QED BY <2>1, <2>2 DEF m
<1> QED BY <1>2, <1>3, <1>4, <1>5, <1>6, WriteSends

LEMMA AgreeWrite == ASSUME TypeInv, AgreeInv, Write PROVE AgreeInv'
<1> SUFFICES ASSUME NEW l \in Places
             PROVE  \E d \in DebuggerStates, w \in Views :
                      /\ Path(View(AtDebugger(l)', "none"), sent', View(d, "none"), l)
                      /\ Path(View(d, InList(l)'), ops', w, l)
                      /\ debugging' => w.d \in {"stray", w.m}
  BY DEF AgreeInv
<1>0. ops # <<>> /\ ops' = Tail(ops) /\ UNCHANGED <<debugging, marks, points, astray>>
      /\ sent \in Seq(Commands)
  BY DEF Write, Done, debugger, manager, TypeInv
<1>1. AtDebugger(l)' = AtDebugger(l) /\ InList(l)' = InList(l)
  BY <1>0 DEF AtDebugger, InList, Listed
<1>2. PICK d \in DebuggerStates, w \in Views :
        /\ Path(View(AtDebugger(l), "none"), sent, View(d, "none"), l)
        /\ Allows(View(d, InList(l)), Head(ops), l)
        /\ Path(Effect(View(d, InList(l)), Head(ops), l), Tail(ops), w, l)
        /\ debugging => w.d \in {"stray", w.m}
  BY <1>0, AgreeHead
<1>3. PICK e \in DebuggerStates :
           /\ Effect(View(d, InList(l)), Head(ops), l) = View(e, InList(l))
           /\ \/ sent' = sent /\ e = d
              \/ \E c \in Commands : /\ sent' = Append(sent, c)
                                     /\ Allows(View(d, "none"), c, l)
                                     /\ Effect(View(d, "none"), c, l) = View(e, "none")
  BY <1>2, WriteEffect
<1>4. Path(View(AtDebugger(l), "none"), sent', View(e, "none"), l)
  <2> HIDE DEF Commands
  <2>1. CASE sent' = sent /\ e = d
    BY <1>2, <2>1
  <2>2. CASE \E c \in Commands : /\ sent' = Append(sent, c)
                                 /\ Allows(View(d, "none"), c, l)
                                 /\ Effect(View(d, "none"), c, l) = View(e, "none")
    BY <1>0, <1>2, <2>2, PathAppend
  <2> QED BY <1>3, <2>1, <2>2
<1> QED BY <1>0, <1>1, <1>2, <1>3, <1>4

LEMMA AgreeStep ==
  ASSUME TypeInv, TypeInv', QuietInv, SingleInv, UniqueInv, AgreeInv, [PointNext]_pointVars
  PROVE  AgreeInv'
<1>1. CASE UNCHANGED pointVars
  <2>1. UNCHANGED <<debugging, ops, sent, points, astray, marks>>
    BY <1>1 DEF pointVars, manager, user, debugger
  <2> QED BY <2>1, AgreeSame DEF InList, Listed
<1>2. CASE Asks
  BY <1>2, AgreeAsk
<1>3. CASE \E process \in BOOLEAN : Attach(process)
  BY <1>3, AgreeAttach
<1>4. CASE Break \/ ProgramStops \/ Interrupted \/ HearPrompt \/ HearRunning \/ HearStopped \/ HearNumber
  <2>1. UNCHANGED <<debugging, ops, sent, points, astray, marks>>
    BY <1>4 DEF Break, ProgramStops, Interrupted, HearPrompt, HearRunning, HearStopped, HearNumber,
                Hear, manager, user, debugger
  <2> QED BY <2>1, AgreeSame DEF InList, Listed
<1>5. CASE End
  BY <1>5, AgreeEnd
<1>6. CASE Pause
  BY <1>6, AgreePause
<1>7. CASE Await \/ Halted
  BY <1>7, AgreeWaits
<1>8. CASE Write
  BY <1>8, AgreeWrite
<1>9. CASE Store
  BY <1>9, AgreeStore
<1>10. CASE Execute
  BY <1>10, AgreeExecute
<1>11. CASE _UpdateBreakpoint
  <2>1. UNCHANGED <<debugging, ops, sent, points, astray>>
    BY <1>11 DEF _UpdateBreakpoint, user, debugger
  <2>2. /\ DOMAIN marks' = DOMAIN marks
        /\ \A i \in DOMAIN marks : marks'[i].at = marks[i].at /\ marks'[i].on = marks[i].on
    BY <1>11, UpdateMarks
  <2>3. \A l \in Places : InList(l)' = InList(l)
    <3>1. ASSUME NEW l \in Places PROVE InList(l)' = InList(l)
      <4>1. l \in Listed' <=> l \in Listed
        <5>1. l \in Listed' <=> \E i \in DOMAIN marks' : marks'[i].at = l
          BY DEF Listed
        <5>2. l \in Listed <=> \E i \in DOMAIN marks : marks[i].at = l
          BY DEF Listed
        <5> QED BY <2>2, <5>1, <5>2
      <4>2. (\E i \in DOMAIN marks' : marks'[i].at = l /\ marks'[i].on)
              <=> (\E i \in DOMAIN marks : marks[i].at = l /\ marks[i].on)
        BY <2>2
      <4> QED BY <4>1, <4>2 DEF InList
    <3> QED BY <3>1
  <2> QED BY <2>1, <2>3, AgreeSame
<1> QED BY <1>1, <1>2, <1>3, <1>4, <1>5, <1>6, <1>7, <1>8, <1>9, <1>10, <1>11 DEF PointNext, Asks

-----------------------------------------------------------------------------
(* A place the debugger has a point at is not inserted again. *)
LEMMA UniqueChange == ASSUME TypeInv, UniqueInv, NEW c, Change(c) PROVE UniqueInv'
<1> SUFFICES ASSUME NEW q \in points', NEW r \in points', q.at = r.at, q.at \notin astray'
             PROVE  q = r
  BY DEF UniqueInv
<1>1. q.at \notin astray
  BY DEF Change
<1>2. CASE c.do = "delete"
  BY <1>1, <1>2 DEF Change, UniqueInv
<1>3. CASE c.do # "delete"
  <2> DEFINE g(p) == IF p.no \in c.nos THEN [p EXCEPT !.on = (c.do = "enable")] ELSE p
  <2>1. points' = {g(p) : p \in points}
    BY <1>3 DEF Change
  <2>2. PICK a \in points, b \in points : q = g(a) /\ r = g(b)
    BY <2>1
  <2>3. \A p \in points : g(p).at = p.at
    <3>1. \A p \in points : p \in [no : 1..number, at : Places, on : BOOLEAN]
      BY DEF TypeInv
    <3> QED BY <3>1
  <2>4. a = b
    BY <1>1, <2>2, <2>3 DEF UniqueInv
  <2> QED BY <2>2, <2>4
<1> QED BY <1>2, <1>3

LEMMA UniqueInsert ==
  ASSUME TypeInv, SingleInv, UniqueInv, AgreeInv, sent # <<>>,
         Head(sent).do \in {"insert", "temporary"}, Insert(Head(sent))
  PROVE  UniqueInv'
<1>1. PICK x \in Head(sent).at :
        IF x \in Absent
        THEN Says(<<>>) /\ UNCHANGED <<points, number>> /\ astray' = astray \union {x}
        ELSE /\ points' = IF Head(sent).do = "temporary" THEN points
                          ELSE points \union {[no |-> number, at |-> x, on |-> TRUE]}
             /\ number' = number + 1
             /\ Says(<<Said("bkpt", {x}, number)>>)
             /\ UNCHANGED astray
  BY DEF Insert
<1>2. CASE points' = points /\ astray \subseteq astray'
  BY <1>2 DEF UniqueInv
<1>3. CASE /\ Head(sent).do = "insert" /\ astray' = astray
           /\ points' = points \union {[no |-> number, at |-> x, on |-> TRUE]}
  <2>1. x \in Places
    BY SentType DEF TypeInv
  <2>2. x \notin astray => \A p \in points : p.at # x
    <3>1. PICK d \in DebuggerStates : Path(View(AtDebugger(x), "none"), sent, View(d, "none"), x)
      BY <2>1 DEF AgreeInv
    <3>2. sent \in Seq(Commands)
      BY DEF TypeInv
    <3>3. Allows(View(AtDebugger(x), "none"), Head(sent), x)
      <4> HIDE DEF Commands
      <4> QED BY <3>1, <3>2, PathTail
    <3>4. AtDebugger(x) \in {"none", "stray"}
      BY <1>3, <3>3 DEF Allows, View
    <3> QED BY <3>4 DEF AtDebugger
  <2> DEFINE p == [no |-> number, at |-> x, on |-> TRUE]
  <2>3. p.at = x /\ points' = points \union {p}
    BY <1>3
  <2> HIDE DEF p
  <2> QED BY <1>3, <2>2, <2>3 DEF UniqueInv
<1> QED BY <1>1, <1>2, <1>3

LEMMA UniqueStep ==
  ASSUME TypeInv, SingleInv, UniqueInv, AgreeInv, [PointNext]_pointVars PROVE UniqueInv'
<1>1. CASE Execute
  <2> DEFINE c == Head(sent)
  <2>1. CASE c.do \in {"insert", "temporary"} /\ Insert(c)
    BY <1>1, <2>1, UniqueInsert DEF Execute
  <2>2. CASE Change(c)
    BY <2>2, UniqueChange
  <2>3. CASE UNCHANGED <<points, astray>>
    BY <2>3 DEF UniqueInv
  <2> QED BY <1>1, <2>1, <2>2, <2>3 DEF Execute, debugger
<1>2. CASE End
  BY <1>2 DEF End, UniqueInv
<1>3. CASE UNCHANGED <<points, astray>>
  BY <1>3 DEF UniqueInv
<1>4. CASE Asks
  <2>1. PICK plan : Ask(plan)
    BY <1>4, AskPlan
  <2> QED BY <1>3, <2>1 DEF Ask, debugger
<1>5. CASE \/ UNCHANGED pointVars \/ \E process \in BOOLEAN : Attach(process)
           \/ Break \/ Pause \/ Await \/ Write \/ Store \/ Halted \/ ProgramStops \/ Interrupted
           \/ HearPrompt \/ HearRunning \/ HearStopped \/ HearNumber \/ _UpdateBreakpoint
  <2>1. UNCHANGED <<points, astray>>
    BY <1>5 DEF pointVars, debugger, Attach, Break, Pause, Await, Write, Store, Halted,
                ProgramStops, Interrupted, HearPrompt, HearRunning, HearStopped, HearNumber, Hear,
                _UpdateBreakpoint
  <2> QED BY <1>3, <2>1
<1> QED BY <1>1, <1>2, <1>4, <1>5 DEF PointNext, Asks

-----------------------------------------------------------------------------
ListInv == TypeInv /\ QuietInv /\ SingleInv /\ UniqueInv /\ AgreeInv

LEMMA ListInvariant == PointSpec => []ListInv
<1>1. PointInit => ListInv
  BY TypeInit, QuietInit, SingleInit, AgreeInit DEF ListInv, PointInit, UniqueInv
<1>2. ListInv /\ [PointNext]_pointVars => ListInv'
  <2> SUFFICES ASSUME ListInv, [PointNext]_pointVars PROVE ListInv'
    OBVIOUS
  <2> USE DEF ListInv
  <2>1. Store /\ Does("enter") => Head(ops).at \intersect Listed = {}
    BY EnterNew
  <2>2. TypeInv'
    BY <2>1, TypeStep
  <2>3. QuietInv'
    BY QuietStep
  <2>4. SingleInv'
    BY <2>2, SingleStep
  <2>5. UniqueInv'
    BY UniqueStep
  <2>6. AgreeInv'
    BY <2>2, AgreeStep
  <2> QED BY <2>2, <2>3, <2>4, <2>5, <2>6
<1> QED BY <1>1, <1>2, PTL DEF PointSpec

(* The entries of the list and the break points of the debugger are what     *)
(* they should be, and no line is in the list twice (DebugManager.cpp).     *)
THEOREM PointTypesCorrect == PointSpec => []PointTypeOK
<1>1. ListInv => PointTypeOK
  <2> SUFFICES ASSUME TypeInv PROVE PointTypeOK
    BY DEF ListInv
  <2>1. marks \in Seq(Entries) /\ Distinct(marks) /\ Len(marks) \in Nat /\ DOMAIN marks = 1..Len(marks)
    BY DEF TypeInv
  <2>2. \A i \in DOMAIN marks : marks[i] \in [at : Places, no : Nat, on : BOOLEAN]
    <3>1. \A i \in DOMAIN marks : marks[i] \in Entries
      BY <2>1
    <3> QED BY <3>1 DEF Entries
  <2>3. Len(marks) = Cardinality(Listed)
    <3> DEFINE f == [i \in 1..Len(marks) |-> marks[i].at]
    <3>1. f \in [1..Len(marks) -> Listed]
      BY <2>1 DEF Listed
    <3>2. \A i, j \in DOMAIN f : f[i] = f[j] => i = j
      BY <2>1 DEF Distinct
    <3>3. \A l \in Listed : \E i \in 1..Len(marks) : f[i] = l
      BY <2>1 DEF Listed
    <3> HIDE DEF f
    <3>4. f \in Bijection(1..Len(marks), Listed)
      BY <3>1, <3>2, <3>3 DEF Bijection, Injection, Surjection, IsInjective
    <3>5. ExistsBijection(1..Len(marks), Listed)
      BY <3>4 DEF ExistsBijection
    <3>6. IsFiniteSet(1..Len(marks)) /\ Cardinality(1..Len(marks)) = Len(marks)
      <4>1. 1 \in Int /\ Len(marks) \in Int
        BY <2>1
      <4> QED BY <2>1, <4>1, FS_Interval
    <3> QED BY <3>5, <3>6, FS_Bijection
  <2> QED BY <2>2, <2>3 DEF TypeInv, PointTypeOK
<1> QED BY <1>1, ListInvariant, PTL

(* Once all is said and done, the break points of the debugger are those of  *)
(* the list, on or off as there, and no line has two, but for the lines for  *)
(* which a command went by another's number (DebugManager.cpp:291).         *)
THEOREM ListsAgree == PointSpec => []PointsAgree
<1>1. ListInv => PointsAgree
  <2> SUFFICES ASSUME ListInv, Settled, NEW l \in Places \ astray
               PROVE  /\ {<<p.on>> : p \in {q \in points : q.at = l}} =
                         {<<marks[i].on>> : i \in {j \in DOMAIN marks : marks[j].at = l}}
                      /\ Cardinality({p \in points : p.at = l}) <= 1
    BY DEF PointsAgree
  <2> USE DEF ListInv
  <2>1. PICK d \in DebuggerStates, w \in Views :
          /\ Path(View(AtDebugger(l), "none"), <<>>, View(d, "none"), l)
          /\ Path(View(d, InList(l)), <<>>, w, l)
          /\ w.d \in {"stray", w.m}
    BY DEF AgreeInv, Settled
  <2>2. AtDebugger(l) = d /\ d \in {"stray", InList(l)}
    <3>1. View(AtDebugger(l), "none") = View(d, "none") /\ View(d, InList(l)) = w
      BY <2>1, PathNone
    <3> QED BY <2>1, <3>1 DEF View
  <2>3. AtDebugger(l) = InList(l)
    <3>1. AtDebugger(l) # "stray"
      BY DEF AtDebugger
    <3> QED BY <2>2, <3>1
  <2>4. CASE InList(l) = "none"
    <3>1. \A i \in DOMAIN marks : marks[i].at # l
      BY <2>4, InListNone
    <3>2. \A p \in points : p.at # l
      BY <2>3, <2>4 DEF AtDebugger
    <3>3. {q \in points : q.at = l} = {} /\ {j \in DOMAIN marks : marks[j].at = l} = {}
      BY <3>1, <3>2
    <3>4. Cardinality({}) = 0
      BY FS_EmptySet
    <3> QED BY <3>3, <3>4
  <2>5. CASE InList(l) # "none"
    <3>1. PICK i \in DOMAIN marks : marks[i].at = l
      BY <2>5, InListNone
    <3>2. InList(l) = IF marks[i].on THEN "on" ELSE "off"
      BY <3>1, InListEntry
    <3>3. PICK p \in points : p.at = l
      BY <2>3, <2>5 DEF AtDebugger
    <3>4. AtDebugger(l) = IF p.on THEN "on" ELSE "off"
      BY <3>3, AtDebuggerPoint
    <3>5. p.on \in BOOLEAN /\ marks[i].on \in BOOLEAN
      <4>1. marks[i] \in Entries /\ p \in [no : 1..number, at : Places, on : BOOLEAN]
        BY DEF TypeInv
      <4> QED BY <4>1 DEF Entries
    <3>6. p.on = marks[i].on
      BY <2>3, <3>2, <3>4, <3>5
    <3>7. {q \in points : q.at = l} = {p}
      BY <3>3 DEF UniqueInv
    <3>8. {j \in DOMAIN marks : marks[j].at = l} = {i}
      BY <3>1 DEF TypeInv, Distinct
    <3>9. Cardinality({p}) = 1
      BY FS_Singleton
    <3> QED BY <3>6, <3>7, <3>8, <3>9
  <2> QED BY <2>4, <2>5
<1> QED BY <1>1, ListInvariant, PTL

-----------------------------------------------------------------------------
(* What the debugger says, and counting the prompts. *)
LEMMA SaysNone ==
  ASSUME lines \in Seq(Words), Says(<<>>)
  PROVE  /\ Len(lines) \in Nat /\ Len(lines') = Len(lines) + 1
         /\ \A i \in 1..Len(lines) : lines'[i] = lines[i]
         /\ lines'[Len(lines) + 1].word = "prompt"
<1>1. Prompt \in Words /\ Prompt.word = "prompt"
  BY SaidType DEF Prompt, Said
<1> HIDE DEF Words, Prompt
<1>2. lines' = lines \o <<Prompt>>
  BY DEF Says
<1>3. <<Prompt>> \in Seq(Words) /\ Len(<<Prompt>>) = 1 /\ <<Prompt>>[1] = Prompt /\ 1 \in 1..1
  BY <1>1
<1>4. /\ Len(lines) \in Nat /\ Len(lines') = Len(lines) + 1
      /\ \A i \in 1..Len(lines) : lines'[i] = lines[i]
      /\ lines'[Len(lines) + 1] = Prompt
  BY <1>2, <1>3, ConcatOf
<1> QED BY <1>1, <1>4

LEMMA SaysOne ==
  ASSUME lines \in Seq(Words), NEW w \in Words, Says(<<w>>)
  PROVE  /\ Len(lines) \in Nat /\ Len(lines') = Len(lines) + 2
         /\ \A i \in 1..Len(lines) : lines'[i] = lines[i]
         /\ lines'[Len(lines) + 1] = w
         /\ lines'[Len(lines) + 2].word = "prompt"
<1>1. Prompt \in Words /\ Prompt.word = "prompt"
  BY SaidType DEF Prompt, Said
<1> HIDE DEF Words, Prompt
<1> DEFINE q == lines \o <<w>>
<1>2. lines' = q \o <<Prompt>>
  BY DEF Says
<1>3. <<w>> \in Seq(Words) /\ Len(<<w>>) = 1 /\ <<w>>[1] = w /\ 1 \in 1..1
  OBVIOUS
<1>4. <<Prompt>> \in Seq(Words) /\ Len(<<Prompt>>) = 1 /\ <<Prompt>>[1] = Prompt
  BY <1>1
<1>5. /\ Len(lines) \in Nat /\ q \in Seq(Words) /\ Len(q) = Len(lines) + 1
      /\ \A i \in 1..Len(lines) : q[i] = lines[i]
      /\ q[Len(lines) + 1] = w
  BY <1>3, ConcatOf
<1> HIDE DEF q
<1>6. /\ Len(q) \in Nat /\ Len(lines') = Len(q) + 1
      /\ \A i \in 1..Len(q) : lines'[i] = q[i]
      /\ lines'[Len(q) + 1] = Prompt
  BY <1>2, <1>3, <1>4, <1>5, ConcatOf
<1>7. Len(lines') = Len(lines) + 2 /\ Len(q) + 1 = Len(lines) + 2
      /\ \A i \in 1..Len(lines) : i \in 1..Len(q)
      /\ Len(lines) + 1 \in 1..Len(q)
  BY <1>5, <1>6
<1> QED BY <1>1, <1>5, <1>6, <1>7

LEMMA Counted ==
  ASSUME NEW q, Len(q) \in Nat
  PROVE  /\ IsFiniteSet(Spare(q)) /\ Cardinality(Spare(q)) \in Nat
         /\ \A n : /\ IsFiniteSet(Prompts(q, n)) /\ Cardinality(Prompts(q, n)) \in Nat
<1>1. IsFiniteSet(1..Len(q))
  <2>1. 1 \in Int /\ Len(q) \in Int
    OBVIOUS
  <2> QED BY <2>1, FS_Interval
<1>2. Spare(q) \subseteq 1..Len(q) /\ \A n : Prompts(q, n) \subseteq 1..Len(q)
  BY DEF Spare, Prompts
<1>3. IsFiniteSet(Spare(q)) /\ \A n : IsFiniteSet(Prompts(q, n))
  BY <1>1, <1>2, FS_Subset
<1> QED BY <1>3, FS_CardinalityType

LEMMA ShiftCount ==
  ASSUME NEW T \in SUBSET Nat, IsFiniteSet(T)
  PROVE  /\ IsFiniteSet({i + 1 : i \in T}) /\ Cardinality({i + 1 : i \in T}) = Cardinality(T)
<1> DEFINE U == {i + 1 : i \in T}
           f == [i \in T |-> i + 1]
<1>1. f \in [T -> U] /\ \A i \in T : f[i] = i + 1
  OBVIOUS
<1>2. \A i, j \in T : f[i] = f[j] => i = j
  BY <1>1
<1>3. \A u \in U : \E i \in T : f[i] = u
  OBVIOUS
<1> HIDE DEF f, U
<1>4. f \in Bijection(T, U)
  BY <1>1, <1>2, <1>3 DEF Bijection, Injection, Surjection, IsInjective
<1>5. ExistsBijection(T, U)
  BY <1>4 DEF ExistsBijection
<1> QED BY <1>5, FS_Bijection DEF U

(* The lines r are q and a prompt, or q, a word and a prompt, or q but its first. *)
Prompted(q, r) ==
  /\ Len(q) \in Nat /\ Len(r) = Len(q) + 1
  /\ \A i \in 1..Len(q) : r[i] = q[i]
  /\ r[Len(q) + 1].word = "prompt"
Answered(q, r, word) ==
  /\ Len(q) \in Nat /\ Len(r) = Len(q) + 2
  /\ \A i \in 1..Len(q) : r[i] = q[i]
  /\ r[Len(q) + 1].word = word /\ word # "prompt"
  /\ r[Len(q) + 2].word = "prompt"
Heard(q, r) ==
  /\ Len(q) \in Nat /\ Len(q) > 0 /\ Len(r) = Len(q) - 1
  /\ \A i \in 1..(Len(q) - 1) : r[i] = q[i + 1]
Paired(q) ==
  \A i \in 1..Len(q) : q[i].word # "prompt" => i < Len(q) /\ q[i + 1].word = "prompt"

LEMMA PairedPrompted == ASSUME NEW q, NEW r, Paired(q), Prompted(q, r) PROVE Paired(r)
<1> SUFFICES ASSUME NEW i \in 1..Len(r), r[i].word # "prompt"
             PROVE  i < Len(r) /\ r[i + 1].word = "prompt"
  BY DEF Paired
<1>1. i \in 1..Len(q)
  BY DEF Prompted
<1>2. i < Len(q) /\ q[i + 1].word = "prompt" /\ i + 1 \in 1..Len(q)
  BY <1>1 DEF Prompted, Paired
<1> QED BY <1>1, <1>2 DEF Prompted

LEMMA PairedAnswered ==
  ASSUME NEW q, NEW r, NEW word, Paired(q), Answered(q, r, word) PROVE Paired(r)
<1> SUFFICES ASSUME NEW i \in 1..Len(r), r[i].word # "prompt"
             PROVE  i < Len(r) /\ r[i + 1].word = "prompt"
  BY DEF Paired
<1>1. CASE i \in 1..Len(q)
  <2>1. i < Len(q) /\ q[i + 1].word = "prompt" /\ i + 1 \in 1..Len(q)
    BY <1>1 DEF Answered, Paired
  <2> QED BY <1>1, <2>1 DEF Answered
<1>2. CASE i \notin 1..Len(q)
  <2>1. i = Len(q) + 1
    BY <1>2 DEF Answered
  <2> QED BY <2>1 DEF Answered
<1> QED BY <1>1, <1>2

LEMMA PairedHeard == ASSUME NEW q, NEW r, Paired(q), Heard(q, r) PROVE Paired(r)
<1> SUFFICES ASSUME NEW i \in 1..Len(r), r[i].word # "prompt"
             PROVE  i < Len(r) /\ r[i + 1].word = "prompt"
  BY DEF Paired
<1>1. i \in 1..(Len(q) - 1) /\ i + 1 \in 1..Len(q) /\ r[i] = q[i + 1]
  BY DEF Heard
<1>2. i + 1 < Len(q) /\ q[(i + 1) + 1].word = "prompt"
  BY <1>1 DEF Paired
<1>3. i + 1 \in 1..(Len(q) - 1)
  BY <1>1, <1>2 DEF Heard
<1> QED BY <1>1, <1>2, <1>3 DEF Heard

LEMMA SparePrompted ==
  ASSUME NEW q, NEW r, Paired(q), Prompted(q, r)
  PROVE  Cardinality(Spare(r)) = Cardinality(Spare(q)) + 1
<1> DEFINE n == Len(q) + 1
<1>1. n > 1 => r[n - 1].word = "prompt"
  <2> SUFFICES ASSUME Len(q) > 0 PROVE r[Len(q)].word = "prompt"
    BY DEF Prompted
  <2>1. Len(q) \in 1..Len(q)
    BY DEF Prompted
  <2>2. q[Len(q)].word = "prompt"
    BY <2>1 DEF Paired, Prompted
  <2> QED BY <2>1, <2>2 DEF Prompted
<1>2. Spare(r) = Spare(q) \union {n}
  <2>1. ASSUME NEW i \in 1..Len(q) PROVE i \in Spare(r) <=> i \in Spare(q)
    <3>1. i \in 1..Len(r) /\ r[i] = q[i] /\ (i > 1 => r[i - 1] = q[i - 1])
      BY DEF Prompted
    <3> QED BY <3>1 DEF Spare
  <2>2. n \in Spare(r)
    BY <1>1 DEF Prompted, Spare
  <2>3. Spare(r) \subseteq 1..Len(q) \union {n}
    BY DEF Prompted, Spare
  <2>4. Spare(q) \subseteq 1..Len(q)
    BY DEF Spare
  <2> QED BY <2>1, <2>2, <2>3, <2>4
<1>3. n \notin Spare(q) /\ Len(q) \in Nat
  BY DEF Spare, Prompted
<1> HIDE DEF n
<1> QED BY <1>2, <1>3, Counted, FS_AddElement

LEMMA SpareAnswered ==
  ASSUME NEW q, NEW r, NEW word, Answered(q, r, word)
  PROVE  Cardinality(Spare(r)) = Cardinality(Spare(q)) + IF word = "stopped" THEN 0 ELSE 1
<1> DEFINE n == Len(q) + 2
<1>1. ASSUME NEW i \in 1..Len(q) PROVE i \in Spare(r) <=> i \in Spare(q)
  <2>1. i \in 1..Len(r) /\ r[i] = q[i] /\ (i > 1 => r[i - 1] = q[i - 1])
    BY DEF Answered
  <2> QED BY <2>1 DEF Spare
<1>2. n \in Spare(r) <=> word # "stopped"
  BY DEF Answered, Spare
<1>3. Spare(r) \subseteq 1..Len(q) \union {n}
  BY DEF Answered, Spare
<1>4. Spare(q) \subseteq 1..Len(q) /\ n \notin Spare(q) /\ Len(q) \in Nat
  BY DEF Spare, Answered
<1>5. CASE word = "stopped"
  <2>1. Spare(r) = Spare(q)
    BY <1>1, <1>2, <1>3, <1>4, <1>5
  <2> QED BY <1>4, <1>5, <2>1, Counted
<1>6. CASE word # "stopped"
  <2>1. Spare(r) = Spare(q) \union {n}
    BY <1>1, <1>2, <1>3, <1>4, <1>6
  <2> HIDE DEF n
  <2> QED BY <1>4, <1>6, <2>1, Counted, FS_AddElement
<1> QED BY <1>5, <1>6

LEMMA SpareHeard ==
  ASSUME NEW q, NEW r, Paired(q), Heard(q, r)
  PROVE  Cardinality(Spare(r)) =
           CASE q[1].word = "prompt"  -> Cardinality(Spare(q)) - 1
             [] q[1].word = "stopped" -> Cardinality(Spare(q)) + 1
             [] OTHER -> Cardinality(Spare(q))
<1> DEFINE T == {i + 1 : i \in Spare(r)}
<1>0. Len(q) \in Nat /\ Len(r) \in Nat /\ 1 \in 1..Len(q)
  BY DEF Heard
<1>1. Spare(r) \in SUBSET Nat /\ IsFiniteSet(Spare(r)) /\ Cardinality(Spare(r)) \in Nat
  BY <1>0, Counted DEF Spare
<1>2. Cardinality(T) = Cardinality(Spare(r))
  BY <1>1, ShiftCount
<1>3. \A j : j \in T <=> /\ j \in 1..Len(q) /\ j > 1 /\ q[j].word = "prompt"
                         /\ j > 2 => q[j - 1].word # "stopped"
  <2>1. ASSUME NEW j, j \in T
        PROVE  /\ j \in 1..Len(q) /\ j > 1 /\ q[j].word = "prompt"
               /\ j > 2 => q[j - 1].word # "stopped"
    <3>1. PICK i \in Spare(r) : j = i + 1
      BY <2>1
    <3>2. i \in 1..(Len(q) - 1) /\ r[i] = q[i + 1] /\ r[i].word = "prompt"
          /\ (i > 1 => r[i - 1].word # "stopped")
      BY DEF Spare, Heard
    <3>3. i > 1 => i - 1 \in 1..(Len(q) - 1) /\ (i - 1) + 1 = i
      BY <1>0, <3>2
    <3>4. i > 1 => r[i - 1] = q[i]
      BY <3>3 DEF Heard
    <3> QED BY <1>0, <3>1, <3>2, <3>4
  <2>2. ASSUME NEW j \in 1..Len(q), j > 1, q[j].word = "prompt", j > 2 => q[j - 1].word # "stopped"
        PROVE  j \in T
    <3>1. PICK i \in 1..(Len(q) - 1) : j = i + 1
      <4>1. j - 1 \in 1..(Len(q) - 1) /\ j = (j - 1) + 1
        BY <1>0, <2>2
      <4> QED BY <4>1
    <3>2. r[i] = q[j] /\ i \in 1..Len(r)
      BY <3>1 DEF Heard
    <3>3. i > 1 => i - 1 \in 1..(Len(q) - 1) /\ (i - 1) + 1 = i /\ j > 2 /\ j - 1 = i
      BY <1>0, <3>1
    <3>4. i > 1 => r[i - 1] = q[i]
      BY <3>3 DEF Heard
    <3>5. i \in Spare(r)
      BY <2>2, <3>2, <3>3, <3>4 DEF Spare
    <3> QED BY <3>1, <3>5
  <2> QED BY <2>1, <2>2
<1> HIDE DEF T
<1>4. \A j : j \in Spare(q) <=> /\ j \in 1..Len(q) /\ q[j].word = "prompt"
                                /\ j > 1 => q[j - 1].word # "stopped"
  BY DEF Spare
<1>5. IsFiniteSet(Spare(q)) /\ Cardinality(Spare(q)) \in Nat
  BY <1>0, Counted
<1>6. CASE q[1].word = "prompt"
  <2>1. T = Spare(q) \ {1}
    <3>1. ASSUME NEW j PROVE j \in T <=> j \in Spare(q) /\ j # 1
      <4>1. j = 2 => q[j - 1].word # "stopped"
        BY <1>6
      <4>2. j \in 1..Len(q) => j = 1 \/ j = 2 \/ j > 2
        BY <1>0
      <4> QED BY <1>0, <1>3, <1>4, <4>1, <4>2
    <3> QED BY <3>1
  <2>2. 1 \in Spare(q)
    BY <1>0, <1>4, <1>6
  <2> QED BY <1>2, <1>5, <1>6, <2>1, <2>2, FS_RemoveElement
<1>7. CASE q[1].word = "stopped"
  <2>1. 2 \in 1..Len(q) /\ q[2].word = "prompt"
    BY <1>0, <1>7 DEF Paired
  <2>2. T = Spare(q) \union {2}
    <3>1. ASSUME NEW j PROVE j \in T <=> j \in Spare(q) \/ j = 2
      <4>1. j = 1 => j \notin Spare(q)
        BY <1>4, <1>7
      <4>2. j \in 1..Len(q) => j = 1 \/ j = 2 \/ j > 2
        BY <1>0
      <4> QED BY <1>0, <1>3, <1>4, <2>1, <4>1, <4>2
    <3> QED BY <3>1
  <2>3. 2 \notin Spare(q)
    BY <1>4, <1>7
  <2> QED BY <1>2, <1>5, <1>7, <2>2, <2>3, FS_AddElement
<1>8. CASE q[1].word \notin {"prompt", "stopped"}
  <2>1. T = Spare(q)
    <3>1. ASSUME NEW j PROVE j \in T <=> j \in Spare(q)
      <4>1. j = 1 => j \notin Spare(q)
        BY <1>4, <1>8
      <4>2. j = 2 => q[j - 1].word # "stopped"
        BY <1>8
      <4>3. j \in 1..Len(q) => j = 1 \/ j = 2 \/ j > 2
        BY <1>0
      <4> QED BY <1>0, <1>3, <1>4, <4>1, <4>2, <4>3
    <3> QED BY <3>1
  <2> QED BY <1>2, <1>8, <2>1
<1> QED BY <1>6, <1>7, <1>8

LEMMA PromptsHeard ==
  ASSUME NEW q, NEW r, Heard(q, r), NEW n \in Nat, n > 0
  PROVE  Cardinality(Prompts(r, n)) =
           Cardinality(Prompts(q, n + 1)) - IF q[1].word = "prompt" THEN 1 ELSE 0
<1> DEFINE T == {i + 1 : i \in Prompts(r, n)}
<1>0. Len(q) \in Nat /\ Len(r) \in Nat /\ 1 \in 1..Len(q)
  BY DEF Heard
<1>1. Prompts(r, n) \in SUBSET Nat /\ IsFiniteSet(Prompts(r, n))
  <2>1. Prompts(r, n) \in SUBSET Nat
    BY DEF Prompts
  <2> QED BY <1>0, <2>1, Counted
<1>2. Cardinality(T) = Cardinality(Prompts(r, n))
  BY <1>1, ShiftCount
<1>3. T = Prompts(q, n + 1) \ {1}
  <2>1. ASSUME NEW j \in T PROVE j \in Prompts(q, n + 1) \ {1}
    <3>1. PICK i \in Prompts(r, n) : j = i + 1
      BY <2>1
    <3>2. i \in 1..(Len(q) - 1) /\ r[i] = q[i + 1] /\ r[i].word = "prompt" /\ i < n
      BY DEF Prompts, Heard
    <3> QED BY <1>0, <3>1, <3>2 DEF Prompts
  <2>2. ASSUME NEW j \in Prompts(q, n + 1), j # 1 PROVE j \in T
    <3>1. j \in 1..Len(q) /\ q[j].word = "prompt" /\ j < n + 1
      BY DEF Prompts
    <3>2. PICK i \in 1..(Len(q) - 1) : j = i + 1
      <4>1. j - 1 \in 1..(Len(q) - 1) /\ j = (j - 1) + 1
        BY <1>0, <2>2, <3>1
      <4> QED BY <4>1
    <3>3. i \in Prompts(r, n)
      BY <1>0, <3>1, <3>2 DEF Prompts, Heard
    <3> QED BY <3>2, <3>3
  <2> QED BY <2>1, <2>2
<1>4. 1 \in Prompts(q, n + 1) <=> q[1].word = "prompt"
  BY <1>0 DEF Prompts
<1>5. IsFiniteSet(Prompts(q, n + 1)) /\ Cardinality(Prompts(q, n + 1)) \in Nat
  BY <1>0, Counted
<1>6. Cardinality(T) = IF 1 \in Prompts(q, n + 1) THEN Cardinality(Prompts(q, n + 1)) - 1
                       ELSE Cardinality(Prompts(q, n + 1))
  BY <1>3, <1>5, FS_RemoveElement
<1> HIDE DEF T
<1> QED BY <1>2, <1>4, <1>5, <1>6

LEMMA PromptsSame ==
  ASSUME NEW q, NEW r, Len(q) \in Nat, Len(r) \in Nat, Len(r) >= Len(q),
         \A i \in 1..Len(q) : r[i] = q[i], NEW n \in Nat, n <= Len(q) + 1
  PROVE  Prompts(r, n) = Prompts(q, n)
BY DEF Prompts

LEMMA SparePrompts ==
  ASSUME NEW q, Len(q) \in Nat
  PROVE  Cardinality(Spare(q)) <= Cardinality(Prompts(q, Len(q) + 1))
<1>1. Spare(q) \subseteq Prompts(q, Len(q) + 1)
  BY DEF Spare, Prompts
<1> QED BY <1>1, Counted, FS_Subset

-----------------------------------------------------------------------------
(* Every word but the prompt is followed by one. *)
LEMMA LinesPaired == ASSUME TypeInv PROVE LinesInv <=> Paired(lines)
<1>1. DOMAIN lines = 1..Len(lines)
  BY DEF TypeInv
<1> QED BY <1>1 DEF LinesInv, Paired

LEMMA LinesHeard ==
  ASSUME TypeInv, lines # <<>>, lines' = Tail(lines)
  PROVE  Heard(lines, lines') /\ Head(lines) = lines[1]
<1>1. lines \in Seq(Words)
  BY DEF TypeInv
<1> HIDE DEF Words
<1>2. /\ Len(lines) \in Nat /\ 1 \in 1..Len(lines) /\ Head(lines) = lines[1]
      /\ Len(Tail(lines)) = Len(lines) - 1
      /\ \A i \in 1..(Len(lines) - 1) : Tail(lines)[i] = lines[i + 1]
  BY <1>1, TailOf
<1> QED BY <1>2 DEF Heard

LEMMA LinesPrompted == ASSUME TypeInv, Says(<<>>) PROVE Prompted(lines, lines')
BY SaysNone DEF TypeInv, Prompted

LEMMA LinesAnswered ==
  ASSUME TypeInv, NEW word \in {"running", "stopped", "bkpt"}, NEW at \in SUBSET Places,
         NEW no \in Nat, Says(<<Said(word, at, no)>>)
  PROVE  Answered(lines, lines', word)
<1>1. Said(word, at, no) \in Words /\ Said(word, at, no).word = word
  BY SaidType DEF Said
<1> QED BY <1>1, SaysOne DEF TypeInv, Answered

(* What the actions do to the lines and to the program. *)
LEMMA ExecuteLines ==
  ASSUME TypeInv, Execute
  PROVE  \/ /\ Prompted(lines, lines') \/ Answered(lines, lines', "bkpt")
            /\ prog' = prog /\ Head(sent).do \notin {"run", "continue"}
         \/ /\ Answered(lines, lines', "running")
            /\ prog' = "running" /\ Head(sent).do \in {"run", "continue"}
<1> DEFINE c == Head(sent)
<1>0. c.at \in SUBSET Places /\ number \in Nat
  BY SentType DEF TypeInv, Execute
<1>1. CASE c.do \in {"insert", "temporary"} /\ Insert(c) /\ UNCHANGED prog
  <2>1. Says(<<>>) \/ \E l \in Places : Says(<<Said("bkpt", {l}, number)>>)
    BY <1>0, <1>1 DEF Insert
  <2>2. CASE Says(<<>>)
    BY <1>1, <2>2, LinesPrompted
  <2>3. CASE \E l \in Places : Says(<<Said("bkpt", {l}, number)>>)
    BY <1>0, <1>1, <2>3, LinesAnswered
  <2> QED BY <2>1, <2>2, <2>3
<1>2. CASE c.do \in {"delete", "enable", "disable"} /\ Change(c) /\ UNCHANGED prog
  BY <1>2, LinesPrompted DEF Change
<1>3. CASE c.do = "list" /\ Says(<<>>) /\ UNCHANGED <<debugger, astray>>
  BY <1>3, LinesPrompted DEF debugger
<1>4. CASE c.do \in {"run", "continue"} /\ prog' = "running" /\ Says(<<Said("running", {}, 0)>>)
  <2>1. Answered(lines, lines', "running")
    BY <1>4, LinesAnswered
  <2> QED BY <1>4, <2>1
<1> HIDE DEF c
<1> QED BY <1>1, <1>2, <1>3, <1>4 DEF Execute, c

LEMMA StopsLines ==
  ASSUME TypeInv, ProgramStops \/ Interrupted
  PROVE  \/ Answered(lines, lines', "stopped") /\ prog = "running" /\ prog' = "halted"
         \/ Interrupted /\ Prompted(lines, lines') /\ prog' = prog /\ prog # "running"
<1>1. Says(<<Stopped>>) => Answered(lines, lines', "stopped")
  BY LinesAnswered DEF Stopped
<1>2. Says(<<>>) => Prompted(lines, lines')
  BY LinesPrompted
<1> QED BY <1>1, <1>2 DEF ProgramStops, Interrupted

LEMMA HearLines ==
  ASSUME TypeInv, HearPrompt \/ HearRunning \/ HearStopped \/ HearNumber
  PROVE  /\ Heard(lines, lines')
         /\ UNCHANGED <<debugging, ops, restart, sent, sigint, prog>>
         /\ HearPrompt => lines[1].word = "prompt"
         /\ HearRunning => lines[1].word = "running"
         /\ HearStopped => lines[1].word = "stopped"
         /\ HearNumber => lines[1].word = "bkpt"
<1>1. lines # <<>> /\ lines' = Tail(lines)
  BY DEF HearPrompt, HearRunning, HearStopped, HearNumber, Hear
<1>2. Heard(lines, lines') /\ Head(lines) = lines[1]
  BY <1>1, LinesHeard
<1> QED BY <1>2 DEF HearPrompt, HearRunning, HearStopped, HearNumber, Hear, user, debugger

LEMMA LinesStep ==
  ASSUME TypeInv, TypeInv', LinesInv, [PointNext]_pointVars PROVE LinesInv'
<1>1. Paired(lines)
  BY LinesPaired
<1>2. SUFFICES Paired(lines')
  <2>1. DOMAIN lines' = 1..Len(lines')
    BY DEF TypeInv
  <2> QED BY <2>1 DEF LinesInv, Paired
<1>3. CASE UNCHANGED lines
  BY <1>1, <1>3
<1>4. CASE Execute \/ ProgramStops \/ Interrupted
  BY <1>1, <1>4, ExecuteLines, StopsLines, PairedPrompted, PairedAnswered
<1>5. CASE HearPrompt \/ HearRunning \/ HearStopped \/ HearNumber
  BY <1>1, <1>5, HearLines, PairedHeard
<1>6. CASE End
  BY <1>6 DEF End, Paired
<1>7. CASE Asks
  <2>1. PICK plan : Ask(plan)
    BY <1>7, AskPlan
  <2> QED BY <1>3, <2>1 DEF Ask
<1>8. CASE \/ UNCHANGED pointVars \/ \E process \in BOOLEAN : Attach(process)
           \/ Break \/ Pause \/ Await \/ Write \/ Store \/ Halted \/ _UpdateBreakpoint
  <2>1. UNCHANGED lines
    BY <1>8 DEF pointVars, Attach, Break, Pause, Await, Write, Store, Halted, _UpdateBreakpoint
  <2> QED BY <1>3, <2>1
<1> QED BY <1>4, <1>5, <1>6, <1>7, <1>8 DEF PointNext, Asks

-----------------------------------------------------------------------------
(* A pause and the resumption that goes with it. *)
Fresh(q) ==
  \A i \in 1..Len(q) :
    /\ q[i].do \notin {"await", "halted"}
    /\ q[i].do = "pause" =>
         /\ i + 3 \in 1..Len(q) /\ q[i + 3].do = "resume"
         /\ q[i + 1].do # "pause" /\ q[i + 2].do # "pause"

LEMMA FreshConcat ==
  ASSUME NEW S, NEW p \in Seq(S), NEW q \in Seq(S), Fresh(p), Fresh(q) PROVE Fresh(p \o q)
<1> DEFINE r == p \o q
<1>1. /\ Len(p) \in Nat /\ Len(q) \in Nat /\ Len(r) = Len(p) + Len(q)
      /\ \A i \in 1..Len(p) : r[i] = p[i]
      /\ \A i \in 1..Len(q) : r[Len(p) + i] = q[i]
      /\ \A i \in 1..Len(r) : i \in 1..Len(p) \/ i - Len(p) \in 1..Len(q)
  BY ConcatOf
<1> HIDE DEF r
<1>2. ASSUME NEW i \in 1..Len(r)
      PROVE  /\ r[i].do \notin {"await", "halted"}
             /\ r[i].do = "pause" =>
                  /\ i + 3 \in 1..Len(r) /\ r[i + 3].do = "resume"
                  /\ r[i + 1].do # "pause" /\ r[i + 2].do # "pause"
  <2>1. CASE i \in 1..Len(p)
    <3>1. r[i] = p[i] /\ p[i].do \notin {"await", "halted"}
      BY <1>1, <2>1 DEF Fresh
    <3>2. ASSUME p[i].do = "pause"
          PROVE  /\ i + 3 \in 1..Len(r) /\ r[i + 3].do = "resume"
                 /\ r[i + 1].do # "pause" /\ r[i + 2].do # "pause"
      <4>1. /\ i + 3 \in 1..Len(p) /\ p[i + 3].do = "resume"
            /\ p[i + 1].do # "pause" /\ p[i + 2].do # "pause"
        BY <2>1, <3>2 DEF Fresh
      <4>2. i + 1 \in 1..Len(p) /\ i + 2 \in 1..Len(p) /\ i + 3 \in 1..Len(r)
        BY <1>1, <2>1, <4>1
      <4> QED BY <1>1, <4>1, <4>2
    <3> QED BY <3>1, <3>2
  <2>2. CASE i - Len(p) \in 1..Len(q)
    <3>1. PICK k \in 1..Len(q) : i = Len(p) + k
      <4>1. i = Len(p) + (i - Len(p))
        BY <1>1
      <4> QED BY <2>2, <4>1
    <3>2. r[i] = q[k] /\ q[k].do \notin {"await", "halted"}
      BY <1>1, <3>1 DEF Fresh
    <3>3. ASSUME q[k].do = "pause"
          PROVE  /\ i + 3 \in 1..Len(r) /\ r[i + 3].do = "resume"
                 /\ r[i + 1].do # "pause" /\ r[i + 2].do # "pause"
      <4>1. /\ k + 3 \in 1..Len(q) /\ q[k + 3].do = "resume"
            /\ q[k + 1].do # "pause" /\ q[k + 2].do # "pause"
        BY <3>3 DEF Fresh
      <4>2. /\ k + 1 \in 1..Len(q) /\ k + 2 \in 1..Len(q) /\ i + 3 \in 1..Len(r)
            /\ i + 1 = Len(p) + (k + 1) /\ i + 2 = Len(p) + (k + 2) /\ i + 3 = Len(p) + (k + 3)
        BY <1>1, <3>1, <4>1
      <4> QED BY <1>1, <4>1, <4>2
    <3> QED BY <3>2, <3>3
  <2> QED BY <1>1, <2>1, <2>2
<1> QED BY <1>2 DEF Fresh, r

LEMMA FreshOne ==
  ASSUME NEW do \in Names \ {"pause", "await", "halted"}, NEW at PROVE Fresh(<<Step(do, at)>>)
<1>1. Len(<<Step(do, at)>>) = 1 /\ <<Step(do, at)>>[1].do = do
  BY DEF Step
<1> HIDE DEF Names
<1> QED BY <1>1 DEF Fresh

LEMMA FreshBlock ==
  ASSUME NEW do \in Names \ {"pause", "await", "halted"}, NEW at PROVE Fresh(InDebugger(do, at))
<1>1. CASE ~debugging
  <2>1. InDebugger(do, at) = <<>> /\ Len(<<>>) = 0
    BY <1>1 DEF InDebugger
  <2> QED BY <2>1 DEF Fresh
<1>2. CASE debugging
  <2> DEFINE a == Step("pause", {})
             b == Step(do, at)
             c == Step("list", {})
             e == Step("resume", {})
             q == <<a, b, c, e>>
  <2>1. InDebugger(do, at) = q
    BY <1>2 DEF InDebugger
  <2>2. a.do = "pause" /\ b.do = do /\ c.do = "list" /\ e.do = "resume"
    BY DEF Step
  <2> HIDE DEF a, b, c, e
  <2>3. Len(q) = 4 /\ q[1] = a /\ q[2] = b /\ q[3] = c /\ q[4] = e
    OBVIOUS
  <2> HIDE DEF q, Names
  <2>4. ASSUME NEW i \in 1..4
        PROVE  /\ q[i].do \notin {"await", "halted"}
               /\ q[i].do = "pause" =>
                    /\ i + 3 \in 1..4 /\ q[i + 3].do = "resume"
                    /\ q[i + 1].do # "pause" /\ q[i + 2].do # "pause"
    <3>1. i = 1 \/ i = 2 \/ i = 3 \/ i = 4
      OBVIOUS
    <3> QED BY <2>2, <2>3, <3>1
  <2> QED BY <2>1, <2>3, <2>4 DEF Fresh
<1> QED BY <1>1, <1>2

LEMMA FreshBoth ==
  ASSUME NEW do \in {"delete", "enable", "disable"}, NEW own \in {"drop", "clear", "on", "off"},
         NEW at \in SUBSET Places
  PROVE  Fresh(InDebugger(do, at) \o <<Step(own, at)>>)
<1>1. do \in Names \ {"pause", "await", "halted"} /\ own \in Names \ {"pause", "await", "halted"}
  BY DEF Names, Instructions
<1>2. Fresh(InDebugger(do, at)) /\ Fresh(<<Step(own, at)>>)
  BY <1>1, FreshBlock, FreshOne
<1>3. Local(Steps) /\ Remote(Steps) /\ Step(do, at) \in Steps /\ Step(own, at) \in Steps
  BY <1>1, StepsRemote, StepType
<1> HIDE DEF Steps
<1>4. InDebugger(do, at) \in Seq(Steps) /\ <<Step(own, at)>> \in Seq(Steps)
  BY <1>3, InDebuggerIn, TupleTypes
<1> QED BY <1>2, <1>4, FreshConcat

LEMMA FreshRemoving == ASSUME NEW l \in Places PROVE Fresh(Removing(l))
<1>1. {l} \in SUBSET Places
  OBVIOUS
<1> QED BY <1>1, FreshBoth DEF Removing

LEMMA FreshAdding == ASSUME NEW l \in Places PROVE Fresh(Adding(l))
<1>1. "insert" \in Names \ {"pause", "await", "halted"} /\ "enter" \in Names \ {"pause", "await", "halted"}
  BY DEF Names, Instructions
<1>2. Fresh(InDebugger("insert", {l})) /\ Fresh(<<Step("enter", {l})>>)
  BY <1>1, FreshBlock, FreshOne
<1> DEFINE r == IF l \in Listed THEN Removing(l) ELSE <<>>
<1>3. Fresh(r)
  <2>1. Fresh(<<>>)
    <3>1. Len(<<>>) = 0
      OBVIOUS
    <3> QED BY <3>1 DEF Fresh
  <2> QED BY <2>1, FreshRemoving
<1>4. Local(Steps) /\ Remote(Steps)
  BY StepsRemote
<1> HIDE DEF Steps
<1>5. r \in Seq(Steps)
  BY <1>4, RemovingIn
<1>6. InDebugger("insert", {l}) \in Seq(Steps)
  <2>1. Step("insert", {l}) \in Steps
    BY <1>4 DEF Remote
  <2> QED BY <1>4, <2>1, InDebuggerIn
<1>7. <<Step("enter", {l})>> \in Seq(Steps)
  BY <1>4, TupleTypes DEF Local
<1>8. Adding(l) = (r \o <<Step("enter", {l})>>) \o InDebugger("insert", {l})
  BY DEF Adding
<1> HIDE DEF r
<1>9. r \o <<Step("enter", {l})>> \in Seq(Steps) /\ Fresh(r \o <<Step("enter", {l})>>)
  BY <1>2, <1>3, <1>5, <1>7, ConcatOf, FreshConcat
<1> QED BY <1>2, <1>6, <1>8, <1>9, FreshConcat

LEMMA FreshPlan == ASSUME TypeInv, NEW plan, IsPlan(plan) PROVE Fresh(plan)
<1>1. Listed \in SUBSET Places
  BY ListedType DEF TypeInv
<1>2. CASE \/ \E x \in Listed : plan = Removing(x)
           \/ \E x \in Places : plan = Adding(x)
  BY <1>1, <1>2, FreshRemoving, FreshAdding
<1>3. CASE plan = Clearing
  BY <1>1, <1>3, FreshBoth DEF Clearing
<1>4. ASSUME NEW on \in BOOLEAN, NEW at \in SUBSET Places PROVE Fresh(Switching(on, at))
  <2>1. CASE on = TRUE
    BY <2>1, FreshBoth DEF Switching
  <2>2. CASE on = FALSE
    BY <2>2, FreshBoth DEF Switching
  <2> QED BY <2>1, <2>2
<1>5. CASE \/ \E on \in BOOLEAN, x \in Listed : plan = Switching(on, {x})
           \/ plan = Switching(FALSE, Listed)
  <2>1. \A x \in Listed : {x} \in SUBSET Places
    BY <1>1
  <2> QED BY <1>1, <1>4, <1>5, <2>1
<1>6. "continue" \in Names \ {"pause", "await", "halted"} /\ "temporary" \in Names \ {"pause", "await", "halted"}
  BY DEF Names, Instructions
<1>7. Fresh(Continuing)
  BY <1>6, FreshOne DEF Continuing
<1>8. ASSUME NEW x \in Places PROVE Fresh(Setting(x))
  <2>1. Len(Setting(x)) = 2 /\ Setting(x)[1] = Step("temporary", {x}) /\ Setting(x)[2] = Step("continue", {})
    BY DEF Setting
  <2>2. Setting(x)[1].do = "temporary" /\ Setting(x)[2].do = "continue"
    BY <2>1 DEF Step
  <2>3. \A i \in 1..2 : i = 1 \/ i = 2
    OBVIOUS
  <2> QED BY <2>1, <2>2, <2>3 DEF Fresh
<1>9. CASE plan = Continuing \/ \E x \in Places : plan = Setting(x)
  BY <1>7, <1>8, <1>9
<1> QED BY <1>2, <1>3, <1>5, <1>9 DEF IsPlan

LEMMA OpsTail ==
  ASSUME TypeInv, ops # <<>>, ops' = Tail(ops)
  PROVE  /\ Len(ops) \in Nat /\ DOMAIN ops = 1..Len(ops) /\ 1 \in DOMAIN ops /\ Head(ops) = ops[1]
         /\ DOMAIN ops' = 1..(Len(ops) - 1)
         /\ \A i \in 1..(Len(ops) - 1) : i + 1 \in DOMAIN ops /\ ops'[i] = ops[i + 1]
<1>1. ops \in Seq(Steps)
  BY DEF TypeInv
<1> HIDE DEF Steps
<1>2. /\ Len(ops) \in Nat /\ 1 \in 1..Len(ops) /\ Head(ops) = ops[1] /\ Tail(ops) \in Seq(Steps)
      /\ Len(Tail(ops)) = Len(ops) - 1
      /\ \A i \in 1..(Len(ops) - 1) : i + 1 \in 1..Len(ops) /\ Tail(ops)[i] = ops[i + 1]
  BY <1>1, TailOf
<1>3. DOMAIN ops = 1..Len(ops)
  BY <1>1
<1>4. DOMAIN Tail(ops) = 1..Len(Tail(ops))
  BY <1>2
<1> QED BY <1>2, <1>3, <1>4

LEMMA BlocksTail ==
  ASSUME TypeInv, Blocks, ops # <<>>, ops' = Tail(ops) PROVE Blocks'
<1>1. /\ Len(ops) \in Nat /\ DOMAIN ops = 1..Len(ops) /\ DOMAIN ops' = 1..(Len(ops) - 1)
      /\ \A i \in 1..(Len(ops) - 1) : i + 1 \in DOMAIN ops /\ ops'[i] = ops[i + 1]
  BY OpsTail
<1> SUFFICES ASSUME NEW i \in DOMAIN ops'
             PROVE  /\ ops'[i].do = "await" => i = 1
                    /\ Pauses(ops'[i]) =>
                         /\ i + 3 \in DOMAIN ops' /\ ops'[i + 3].do = "resume"
                         /\ ~Pauses(ops'[i + 1]) /\ ~Pauses(ops'[i + 2])
  BY DEF Blocks, Pauses
<1>2. i + 1 \in DOMAIN ops /\ ops'[i] = ops[i + 1] /\ i \in 1..(Len(ops) - 1)
  BY <1>1
<1>3. ops'[i].do # "await"
  <2>1. i + 1 # 1
    BY <1>1
  <2> QED BY <1>2, <2>1 DEF Blocks
<1>4. ASSUME Pauses(ops'[i])
      PROVE  /\ i + 3 \in DOMAIN ops' /\ ops'[i + 3].do = "resume"
             /\ ~Pauses(ops'[i + 1]) /\ ~Pauses(ops'[i + 2])
  <2>1. /\ (i + 1) + 3 \in DOMAIN ops /\ ops[(i + 1) + 3].do = "resume"
        /\ ~Pauses(ops[(i + 1) + 1]) /\ ~Pauses(ops[(i + 1) + 2])
    BY <1>2, <1>4 DEF Blocks
  <2>2. /\ i + 1 \in 1..(Len(ops) - 1) /\ i + 2 \in 1..(Len(ops) - 1) /\ i + 3 \in 1..(Len(ops) - 1)
        /\ (i + 1) + 2 = (i + 2) + 1 /\ (i + 1) + 3 = (i + 3) + 1
    BY <1>1, <1>2, <2>1
  <2>3. ops'[i + 1] = ops[(i + 1) + 1] /\ ops'[i + 2] = ops[(i + 2) + 1] /\ ops'[i + 3] = ops[(i + 3) + 1]
    BY <1>1, <2>2
  <2> QED BY <1>1, <2>1, <2>2, <2>3
<1> QED BY <1>3, <1>4

LEMMA RestartsTail ==
  ASSUME TypeInv, Restarts, ops # <<>>, ops' = Tail(ops), Head(ops).do # "resume",
         restart' => restart
  PROVE  Restarts'
<1> SUFFICES ASSUME restart
             PROVE  \E k \in DOMAIN ops' : ops'[k].do = "resume" /\ \A j \in 1..k : ~Pauses(ops'[j])
  BY DEF Restarts, Pauses
<1>1. /\ Len(ops) \in Nat /\ DOMAIN ops = 1..Len(ops) /\ Head(ops) = ops[1]
      /\ DOMAIN ops' = 1..(Len(ops) - 1)
      /\ \A i \in 1..(Len(ops) - 1) : i + 1 \in DOMAIN ops /\ ops'[i] = ops[i + 1]
  BY OpsTail
<1>2. PICK k \in DOMAIN ops : ops[k].do = "resume" /\ \A j \in 1..k : ~Pauses(ops[j])
  BY DEF Restarts
<1>3. k - 1 \in 1..(Len(ops) - 1) /\ (k - 1) + 1 = k
  <2>1. k # 1
    BY <1>1, <1>2
  <2> QED BY <1>1, <2>1
<1>4. ops'[k - 1].do = "resume"
  BY <1>1, <1>2, <1>3
<1>5. ASSUME NEW j \in 1..(k - 1) PROVE ~Pauses(ops'[j])
  <2>1. j \in 1..(Len(ops) - 1) /\ j + 1 \in 1..k
    BY <1>1, <1>3
  <2> QED BY <1>1, <1>2, <2>1
<1> QED BY <1>1, <1>3, <1>4, <1>5

LEMMA PausedFirst ==
  ASSUME TypeInv, BlockInv, ops # <<>>, Pauses(Head(ops))
  PROVE  /\ ~restart /\ 4 \in DOMAIN ops /\ ops[4].do = "resume"
         /\ ~Pauses(ops[2]) /\ ~Pauses(ops[3])
<1>1. Head(ops) = ops[1] /\ 1 \in DOMAIN ops /\ DOMAIN ops = 1..Len(ops)
  <2>1. ops \in Seq(Steps)
    BY DEF TypeInv
  <2> HIDE DEF Steps
  <2> QED BY <2>1, TailOf
<1>2. ~restart
  <2> SUFFICES ASSUME restart PROVE FALSE
    OBVIOUS
  <2>1. PICK k \in DOMAIN ops : \A j \in 1..k : ~Pauses(ops[j])
    BY DEF BlockInv, Restarts
  <2>2. 1 \in 1..k
    BY <1>1
  <2> QED BY <1>1, <2>1, <2>2
<1>3. /\ 1 + 3 \in DOMAIN ops /\ ops[1 + 3].do = "resume"
      /\ ~Pauses(ops[1 + 1]) /\ ~Pauses(ops[1 + 2])
  BY <1>1 DEF BlockInv, Blocks
<1> QED BY <1>2, <1>3

LEMMA BlockAsk == ASSUME TypeInv, TypeInv', BlockInv, Asks PROVE BlockInv'
<1>1. PICK plan : IsPlan(plan) /\ Ask(plan)
  BY AskPlan
<1>2. Fresh(plan) /\ ops' = plan /\ ops = <<>> /\ restart' = restart
  BY <1>1, FreshPlan DEF Ask
<1>3. DOMAIN ops' = 1..Len(ops')
  BY DEF TypeInv
<1>4. Blocks'
  <2>1. ASSUME NEW i \in 1..Len(plan)
        PROVE  /\ plan[i].do # "await"
               /\ Pauses(plan[i]) =>
                    /\ i + 3 \in 1..Len(plan) /\ plan[i + 3].do = "resume"
                    /\ ~Pauses(plan[i + 1]) /\ ~Pauses(plan[i + 2])
    <3>1. /\ plan[i].do \notin {"await", "halted"}
          /\ plan[i].do = "pause" =>
               /\ i + 3 \in 1..Len(plan) /\ plan[i + 3].do = "resume"
               /\ plan[i + 1].do # "pause" /\ plan[i + 2].do # "pause"
      BY <1>2 DEF Fresh
    <3>2. i + 3 \in 1..Len(plan) => i + 1 \in 1..Len(plan) /\ i + 2 \in 1..Len(plan)
      <4>1. Len(plan) \in Nat
        BY <1>2 DEF TypeInv
      <4> QED BY <4>1
    <3>3. i + 3 \in 1..Len(plan) => plan[i + 1].do # "await" /\ plan[i + 2].do # "await"
      BY <1>2, <3>2 DEF Fresh
    <3> QED BY <3>1, <3>3 DEF Pauses
  <2> QED BY <1>2, <1>3, <2>1 DEF Blocks, Pauses
<1>5. Restarts'
  <2>1. ~restart
    BY <1>2 DEF BlockInv, Restarts
  <2> QED BY <1>2, <2>1 DEF Restarts
<1> QED BY <1>4, <1>5 DEF BlockInv

LEMMA AttachOps ==
  ASSUME TypeInv, NEW process \in BOOLEAN, Attach(process)
  PROVE  \E n \in Nat :
           /\ DOMAIN ops' = 1..(n + 2) /\ Len(ops') = n + 2
           /\ \A i \in 1..n : ops'[i].do = "insert"
           /\ ops'[n + 1].do = "guess"
           /\ ops'[n + 2].do = IF process THEN "halted" ELSE "run"
<1> DEFINE b == IF process THEN "halted" ELSE "run"
           e == <<Step("guess", {}), Step(b, {})>>
<1>1. PICK o \in Orders : ops' = Inserts(Reordered(o)) \o e
  BY DEF Attach
<1> DEFINE s == Reordered(o)
<1>2. s \in Seq(Entries)
  BY ReorderedType
<1> HIDE DEF s
<1>3. /\ Inserts(s) \in Seq(Steps) /\ Len(Inserts(s)) = Len(s) /\ Len(s) \in Nat
      /\ \A i \in 1..Len(s) : Inserts(s)[i].do = "insert"
  <2>1. /\ Inserts(s) \in Seq(Steps) /\ Len(Inserts(s)) = Len(s) /\ Len(s) \in Nat
        /\ \A i \in 1..Len(s) : Inserts(s)[i] = Step("insert", {s[i].at})
    BY <1>2, InsertsType
  <2>2. \A at : Step("insert", at).do = "insert"
    BY DEF Step
  <2> HIDE DEF Steps
  <2> QED BY <2>1, <2>2
<1>4. Step("guess", {}).do = "guess" /\ Step(b, {}).do = b
  BY DEF Step
<1>5. Step("guess", {}) \in Steps /\ Step(b, {}) \in Steps
  <2>1. "guess" \in Names /\ b \in Names /\ {} \in SUBSET Places
    BY DEF Names, Instructions
  <2> QED BY <2>1, StepType
<1> HIDE DEF b, Steps
<1>6. e \in Seq(Steps) /\ Len(e) = 2 /\ e[1] = Step("guess", {}) /\ e[2] = Step(b, {})
  BY <1>5, TupleTypes
<1> HIDE DEF e
<1>7. /\ ops' \in Seq(Steps) /\ Len(ops') = Len(s) + 2
      /\ \A i \in 1..Len(s) : ops'[i] = Inserts(s)[i]
      /\ ops'[Len(s) + 1] = e[1] /\ ops'[Len(s) + 2] = e[2]
  <2>1. ops' = Inserts(s) \o e
    BY <1>1 DEF s
  <2>2. /\ ops' \in Seq(Steps) /\ Len(ops') = Len(s) + 2
        /\ \A i \in 1..Len(s) : ops'[i] = Inserts(s)[i]
        /\ \A i \in 1..2 : ops'[Len(s) + i] = e[i]
    <3>1. /\ ops' \in Seq(Steps) /\ Len(ops') = Len(Inserts(s)) + Len(e)
          /\ \A i \in 1..Len(Inserts(s)) : ops'[i] = Inserts(s)[i]
          /\ \A i \in 1..Len(e) : ops'[Len(Inserts(s)) + i] = e[i]
      <4> DEFINE p == Inserts(s)
      <4>1. p \in Seq(Steps) /\ e \in Seq(Steps) /\ ops' = p \o e
        BY <1>3, <1>6, <2>1
      <4> HIDE DEF p
      <4>2. /\ p \o e \in Seq(Steps) /\ Len(p \o e) = Len(p) + Len(e)
            /\ \A i \in 1..Len(p) : (p \o e)[i] = p[i]
            /\ \A i \in 1..Len(e) : (p \o e)[Len(p) + i] = e[i]
        BY <4>1, ConcatOf
      <4> QED BY <4>1, <4>2 DEF p
    <3> QED BY <1>3, <1>6, <3>1
  <2>3. 1 \in 1..2 /\ 2 \in 1..2
    OBVIOUS
  <2> QED BY <2>2, <2>3
<1>8. DOMAIN ops' = 1..(Len(s) + 2)
  BY <1>7
<1> QED BY <1>3, <1>4, <1>6, <1>7, <1>8 DEF b

LEMMA BlockAttach ==
  ASSUME TypeInv, BlockInv, NEW process \in BOOLEAN, Attach(process) PROVE BlockInv'
<1>1. PICK n \in Nat :
        /\ DOMAIN ops' = 1..(n + 2)
        /\ \A i \in 1..n : ops'[i].do = "insert"
        /\ ops'[n + 1].do = "guess"
        /\ ops'[n + 2].do = IF process THEN "halted" ELSE "run"
  BY AttachOps
<1>2. \A i \in DOMAIN ops' : i \in 1..n \/ i = n + 1 \/ i = n + 2
  BY <1>1
<1>3. \A i \in DOMAIN ops' : ops'[i].do \notin {"pause", "await"}
  BY <1>1, <1>2
<1>4. Blocks'
  BY <1>3 DEF Blocks, Pauses
<1>5. ~restart /\ restart' = restart
  BY DEF Attach, BlockInv, Restarts
<1> QED BY <1>4, <1>5 DEF BlockInv, Restarts

(* The pause of a running program becomes the wait. *)
LEMMA PauseOps ==
  ASSUME TypeInv, Pause, ~breaked
  PROVE  /\ Len(ops) \in Nat /\ DOMAIN ops = 1..Len(ops) /\ DOMAIN ops' = 1..Len(ops)
         /\ 1 \in 1..Len(ops) /\ ops[1].do = "pause" /\ ops'[1].do = "await"
         /\ \A i \in 1..Len(ops) : i # 1 => ops'[i] = ops[i]
         /\ Does("await")'
<1> DEFINE a == Step("await", {})
<1>1. ops # <<>> /\ Head(ops).do = "pause" /\ ops' = <<a>> \o Tail(ops)
  BY DEF Pause, Does
<1>2. ops \in Seq(Steps)
  BY DEF TypeInv
<1>3. a \in Steps /\ a.do = "await"
  <2>1. "await" \in Names /\ {} \in SUBSET Places
    BY DEF Names, Instructions
  <2> QED BY <2>1, StepType
<1> HIDE DEF a, Steps
<1>4. /\ Len(ops) \in Nat /\ 1 \in 1..Len(ops) /\ Head(ops) = ops[1] /\ Tail(ops) \in Seq(Steps)
      /\ Len(Tail(ops)) = Len(ops) - 1
      /\ \A i \in 1..(Len(ops) - 1) : i + 1 \in 1..Len(ops) /\ Tail(ops)[i] = ops[i + 1]
  BY <1>1, <1>2, TailOf
<1>5. <<a>> \in Seq(Steps) /\ Len(<<a>>) = 1 /\ <<a>>[1] = a
  BY <1>3
<1>6. /\ ops' \in Seq(Steps) /\ Len(ops') = Len(ops) /\ ops'[1] = a
      /\ \A i \in 1..(Len(ops) - 1) : ops'[1 + i] = Tail(ops)[i]
  <2>1. /\ ops' \in Seq(Steps) /\ Len(ops') = 1 + Len(Tail(ops))
        /\ \A i \in 1..1 : ops'[i] = <<a>>[i]
        /\ \A i \in 1..Len(Tail(ops)) : ops'[1 + i] = Tail(ops)[i]
    BY <1>1, <1>4, <1>5, ConcatOf
  <2> QED BY <1>4, <1>5, <2>1
<1>7. DOMAIN ops' = 1..Len(ops) /\ DOMAIN ops = 1..Len(ops)
  BY <1>2, <1>6
<1>8. ASSUME NEW i \in 1..Len(ops), i # 1 PROVE ops'[i] = ops[i]
  <2>1. i - 1 \in 1..(Len(ops) - 1) /\ 1 + (i - 1) = i /\ (i - 1) + 1 = i
    BY <1>4, <1>8
  <2> QED BY <1>4, <1>6, <2>1
<1>9. ops' # <<>> /\ Head(ops') = ops'[1]
  BY <1>4, <1>6
<1> QED BY <1>1, <1>3, <1>4, <1>6, <1>7, <1>8, <1>9 DEF Does

LEMMA BlockPause == ASSUME TypeInv, BlockInv, Pause PROVE BlockInv'
<1>1. ops # <<>> /\ Head(ops).do = "pause"
  BY DEF Pause, Does
<1>2. ~restart /\ (restart' = restart \/ restart' = FALSE)
  BY <1>1, PausedFirst DEF Pauses, Pause
<1>3. Restarts'
  BY <1>2 DEF Restarts
<1>4. CASE breaked
  <2>1. ops' = Tail(ops)
    BY <1>4 DEF Pause, Done
  <2> QED BY <1>1, <1>3, <2>1, BlocksTail DEF BlockInv
<1>5. CASE ~breaked
  <2>1. /\ Len(ops) \in Nat /\ DOMAIN ops = 1..Len(ops) /\ DOMAIN ops' = 1..Len(ops)
        /\ 1 \in 1..Len(ops) /\ ops[1].do = "pause" /\ ops'[1].do = "await"
        /\ \A i \in 1..Len(ops) : i # 1 => ops'[i] = ops[i]
    BY <1>5, PauseOps
  <2>2. \A i \in 1..Len(ops) : Pauses(ops'[i]) <=> Pauses(ops[i])
    BY <2>1 DEF Pauses
  <2>3. ASSUME NEW i \in 1..Len(ops)
        PROVE  /\ ops'[i].do = "await" => i = 1
               /\ Pauses(ops'[i]) =>
                    /\ i + 3 \in 1..Len(ops) /\ ops'[i + 3].do = "resume"
                    /\ ~Pauses(ops'[i + 1]) /\ ~Pauses(ops'[i + 2])
    <3>1. ops'[i].do = "await" => i = 1
      BY <2>1 DEF BlockInv, Blocks
    <3>2. ASSUME Pauses(ops'[i])
          PROVE  /\ i + 3 \in 1..Len(ops) /\ ops'[i + 3].do = "resume"
                 /\ ~Pauses(ops'[i + 1]) /\ ~Pauses(ops'[i + 2])
      <4>1. /\ i + 3 \in 1..Len(ops) /\ ops[i + 3].do = "resume"
            /\ ~Pauses(ops[i + 1]) /\ ~Pauses(ops[i + 2])
        BY <2>1, <2>2, <3>2 DEF BlockInv, Blocks
      <4>2. i + 1 \in 1..Len(ops) /\ i + 2 \in 1..Len(ops) /\ i + 3 # 1
        BY <2>1, <4>1
      <4> QED BY <2>1, <2>2, <4>1, <4>2
    <3> QED BY <3>1, <3>2
  <2>4. Blocks'
    BY <2>1, <2>3 DEF Blocks, Pauses
  <2> QED BY <1>3, <2>4 DEF BlockInv
<1> QED BY <1>4, <1>5

LEMMA BlockAwait == ASSUME TypeInv, BlockInv, Await PROVE BlockInv'
<1>1. ops # <<>> /\ Head(ops).do = "await" /\ ops' = Tail(ops)
  BY DEF Await, Does, Done
<1>2. Blocks'
  BY <1>1, BlocksTail DEF BlockInv
<1>3. /\ 4 \in DOMAIN ops /\ ops[4].do = "resume" /\ ~Pauses(ops[2]) /\ ~Pauses(ops[3])
  BY <1>1, PausedFirst DEF Pauses
<1>4. /\ Len(ops) \in Nat /\ DOMAIN ops = 1..Len(ops) /\ DOMAIN ops' = 1..(Len(ops) - 1)
      /\ \A i \in 1..(Len(ops) - 1) : i + 1 \in DOMAIN ops /\ ops'[i] = ops[i + 1]
  BY <1>1, OpsTail
<1>5. 3 \in 1..(Len(ops) - 1) /\ 2 \in 1..(Len(ops) - 1) /\ 1 \in 1..(Len(ops) - 1)
  BY <1>3, <1>4
<1>6. ops'[1] = ops[1 + 1] /\ ops'[2] = ops[2 + 1] /\ ops'[3] = ops[3 + 1]
  BY <1>4, <1>5
<1>7. ops'[3].do = "resume" /\ ~Pauses(ops'[1]) /\ ~Pauses(ops'[2]) /\ ~Pauses(ops'[3])
  BY <1>3, <1>6 DEF Pauses
<1>8. \A j \in 1..3 : j = 1 \/ j = 2 \/ j = 3
  OBVIOUS
<1>9. \A j \in 1..3 : ~Pauses(ops'[j])
  BY <1>7, <1>8
<1>10. Restarts'
  BY <1>4, <1>5, <1>7, <1>9 DEF Restarts, Pauses
<1> QED BY <1>2, <1>10 DEF BlockInv

LEMMA BlockInit == PointInit => BlockInv
BY DEF PointInit, BlockInv, Blocks, Restarts

LEMMA BlockStep ==
  ASSUME TypeInv, TypeInv', BlockInv, [PointNext]_pointVars PROVE BlockInv'
<1>1. CASE Asks
  BY <1>1, BlockAsk
<1>2. CASE \E process \in BOOLEAN : Attach(process)
  BY <1>2, BlockAttach
<1>3. CASE Pause
  BY <1>3, BlockPause
<1>4. CASE Await
  BY <1>4, BlockAwait
<1>5. CASE Write
  <2>1. ops # <<>> /\ ops' = Tail(ops)
    BY <1>5 DEF Write, Done
  <2>2. Blocks'
    BY <2>1, BlocksTail DEF BlockInv
  <2>3. CASE Head(ops).do = "resume"
    <3>1. restart' = FALSE
      BY <1>5, <2>3 DEF Write
    <3> QED BY <2>2, <3>1 DEF BlockInv, Restarts
  <2>4. CASE Head(ops).do # "resume"
    <3>1. restart' = restart
      BY <1>5, <2>4 DEF Write
    <3> QED BY <2>1, <2>2, <2>4, <3>1, RestartsTail DEF BlockInv
  <2> QED BY <2>3, <2>4
<1>6. CASE Store \/ Halted
  <2>1. ops # <<>> /\ ops' = Tail(ops) /\ Head(ops).do # "resume" /\ restart' = restart
    BY <1>6 DEF Store, Halted, Done, Does
  <2> QED BY <2>1, BlocksTail, RestartsTail DEF BlockInv
<1>7. CASE UNCHANGED <<ops, restart>>
  BY <1>7 DEF BlockInv, Blocks, Restarts, Pauses
<1>8. CASE \/ UNCHANGED pointVars \/ Break \/ End \/ Execute \/ ProgramStops \/ Interrupted
           \/ HearPrompt \/ HearRunning \/ HearStopped \/ HearNumber \/ _UpdateBreakpoint
  <2>1. UNCHANGED <<ops, restart>>
    BY <1>8 DEF pointVars, user, Break, End, Execute, ProgramStops, Interrupted, HearPrompt,
                HearRunning, HearStopped, HearNumber, Hear, _UpdateBreakpoint
  <2> QED BY <1>7, <2>1
<1> QED BY <1>1, <1>2, <1>3, <1>4, <1>5, <1>6, <1>8 DEF PointNext, Asks

-----------------------------------------------------------------------------
(* The last word on the program, as lines come and go. *)
LEMMA NewsNone ==
  ASSUME NEW q, NEW r, Prompted(q, r) \/ Answered(q, r, "bkpt")
  PROVE  /\ NoNews(r) <=> NoNews(q)
         /\ \A i : Latest(r, i) <=> Latest(q, i)
<1>1. /\ Len(q) \in Nat /\ Len(r) \in Nat /\ Len(r) >= Len(q)
      /\ \A i \in 1..Len(q) : i \in 1..Len(r) /\ (News(r, i) <=> News(q, i))
  BY DEF Prompted, Answered, News
<1>2. ASSUME NEW i \in 1..Len(r), i \notin 1..Len(q) PROVE ~News(r, i)
  <2>1. CASE Prompted(q, r)
    <3>1. i = Len(q) + 1
      BY <1>2, <2>1 DEF Prompted
    <3> QED BY <2>1, <3>1 DEF Prompted, News
  <2>2. CASE Answered(q, r, "bkpt")
    <3>1. i = Len(q) + 1 \/ i = Len(q) + 2
      BY <1>2, <2>2 DEF Answered
    <3> QED BY <2>2, <3>1 DEF Answered, News
  <2> QED BY <2>1, <2>2
<1>3. NoNews(r) <=> NoNews(q)
  BY <1>1, <1>2 DEF NoNews
<1>4. \A i : Latest(r, i) <=> Latest(q, i)
  BY <1>1, <1>2 DEF Latest
<1> QED BY <1>3, <1>4

LEMMA NewsOne ==
  ASSUME NEW q, NEW r, NEW word \in {"running", "stopped"}, Answered(q, r, word)
  PROVE  /\ ~NoNews(r)
         /\ \A i : Latest(r, i) <=> i = Len(q) + 1
<1>1. /\ Len(q) \in Nat /\ Len(q) + 1 \in 1..Len(r) /\ News(r, Len(q) + 1)
  BY DEF Answered, News
<1>2. \A j \in 1..Len(r) : j > Len(q) + 1 => ~News(r, j)
  <2> SUFFICES ASSUME NEW j \in 1..Len(r), j > Len(q) + 1 PROVE ~News(r, j)
    OBVIOUS
  <2>1. j = Len(q) + 2
    BY DEF Answered
  <2> QED BY <2>1 DEF Answered, News
<1>3. ~NoNews(r)
  BY <1>1 DEF NoNews
<1>4. Latest(r, Len(q) + 1)
  BY <1>1, <1>2 DEF Latest
<1>5. ASSUME NEW i, Latest(r, i) PROVE i = Len(q) + 1
  <2>1. i \in 1..Len(r) /\ News(r, i) /\ ~(Len(q) + 1 > i)
    BY <1>1, <1>5 DEF Latest
  <2> QED BY <1>1, <1>2, <2>1
<1> QED BY <1>3, <1>4, <1>5

LEMMA NewsHeard ==
  ASSUME NEW q, NEW r, Heard(q, r)
  PROVE  /\ \A i \in 1..Len(r) : r[i] = q[i + 1] /\ i + 1 \in 1..Len(q)
                                 /\ (Latest(r, i) => Latest(q, i + 1))
         /\ NoNews(r) => IF News(q, 1) THEN Latest(q, 1) ELSE NoNews(q)
         /\ 1 \in 1..Len(q) /\ Len(q) \in Nat
<1>1. /\ Len(q) \in Nat /\ Len(r) = Len(q) - 1 /\ 1 \in 1..Len(q)
      /\ \A i \in 1..Len(r) : r[i] = q[i + 1] /\ i + 1 \in 1..Len(q)
  BY DEF Heard
<1>2. ASSUME NEW j \in 1..Len(q), j > 1 PROVE j - 1 \in 1..Len(r) /\ (News(r, j - 1) <=> News(q, j))
  <2>1. j - 1 \in 1..Len(r) /\ (j - 1) + 1 = j
    BY <1>1, <1>2
  <2> QED BY <1>1, <2>1 DEF News
<1>3. ASSUME NEW i \in 1..Len(r), Latest(r, i) PROVE Latest(q, i + 1)
  <2>1. News(q, i + 1)
    BY <1>1, <1>3 DEF Latest, News
  <2>2. ASSUME NEW j \in 1..Len(q), j > i + 1 PROVE ~News(q, j)
    <3>1. j > 1 /\ j - 1 > i
      BY <1>1, <2>2
    <3> QED BY <1>2, <1>3, <3>1 DEF Latest
  <2> QED BY <1>1, <2>1, <2>2 DEF Latest
<1>4. ASSUME NoNews(r) PROVE IF News(q, 1) THEN Latest(q, 1) ELSE NoNews(q)
  <2>1. \A j \in 1..Len(q) : j > 1 => ~News(q, j)
    BY <1>2, <1>4 DEF NoNews
  <2>2. \A j \in 1..Len(q) : j = 1 \/ j > 1
    BY <1>1
  <2> QED BY <1>1, <2>1, <2>2 DEF Latest, NoNews
<1> QED BY <1>1, <1>3, <1>4

LEMMA HaltTail ==
  ASSUME TypeInv, ops # <<>>, ops' = Tail(ops), HaltPending' PROVE HaltPending
<1>1. PICK i \in DOMAIN ops' : ops'[i].do = "halted"
  BY DEF HaltPending
<1>2. i + 1 \in DOMAIN ops /\ ops'[i] = ops[i + 1]
  BY OpsTail
<1> QED BY <1>1, <1>2 DEF HaltPending

(* What is yet to be done when the program is attached to. *)
LEMMA HaltHead ==
  ASSUME TypeInv, HaltedInv, HaltPending
  PROVE  /\ ops # <<>> /\ 1 \in DOMAIN ops /\ Head(ops) = ops[1]
         /\ Head(ops).do \in {"insert", "guess"} \/ (Head(ops).do = "halted" /\ Len(ops) = 1)
<1>1. ops \in Seq(Steps) /\ \E i \in DOMAIN ops : TRUE
  BY DEF TypeInv, HaltPending
<1> HIDE DEF Steps
<1>2. ops # <<>> /\ 1 \in DOMAIN ops /\ Head(ops) = ops[1]
  BY <1>1
<1> QED BY <1>2 DEF HaltedInv

LEMMA HaltedAttach ==
  ASSUME TypeInv, QuietInv, NEW process \in BOOLEAN, Attach(process)
  PROVE  HaltedInv' /\ (process => HaltPending') /\ (HaltPending' => process)
<1>1. PICK n \in Nat :
        /\ DOMAIN ops' = 1..(n + 2) /\ Len(ops') = n + 2
        /\ \A i \in 1..n : ops'[i].do = "insert"
        /\ ops'[n + 1].do = "guess"
        /\ ops'[n + 2].do = IF process THEN "halted" ELSE "run"
  BY AttachOps
<1>2. \A i \in DOMAIN ops' : i \in 1..n \/ i = n + 1 \/ i = n + 2
  BY <1>1
<1>3. n + 2 \in DOMAIN ops'
  BY <1>1
<1>4. HaltPending' => process
  BY <1>1, <1>2 DEF HaltPending
<1>5. process => HaltPending'
  BY <1>1, <1>3 DEF HaltPending
<1>6. /\ sent' = <<>> /\ lines' = <<>> /\ ~sigint' /\ shown' = "running" /\ ~breaked'
      /\ process => prog' = "halted"
  BY DEF Attach, QuietInv, AtRest
<1>7. process => \A i \in DOMAIN ops' :
        ops'[i].do \in {"insert", "guess"} \/ (ops'[i].do = "halted" /\ i = Len(ops'))
  BY <1>1, <1>2
<1>8. NoNews(lines') /\ DOMAIN sent' = {}
  BY <1>6 DEF NoNews
<1>9. HaltedInv'
  BY <1>4, <1>6, <1>7, <1>8 DEF HaltedInv
<1> QED BY <1>4, <1>5, <1>9

LEMMA HaltedWrite == ASSUME TypeInv, TypeInv', HaltedInv, Write PROVE HaltedInv'
<1> SUFFICES ASSUME HaltPending' PROVE HaltedInv'
  BY DEF HaltedInv
<1>1. ops # <<>> /\ ops' = Tail(ops) /\ UNCHANGED <<lines, prog, breaked, sigint, shown>>
  BY DEF Write, Done, manager, debugger
<1>2. HaltPending
  BY <1>1, HaltTail
<1>3. /\ Len(ops) \in Nat /\ DOMAIN ops = 1..Len(ops) /\ DOMAIN ops' = 1..(Len(ops) - 1)
      /\ \A i \in 1..(Len(ops) - 1) : i + 1 \in DOMAIN ops /\ ops'[i] = ops[i + 1]
  BY <1>1, OpsTail
<1>4. DOMAIN ops' = 1..Len(ops') /\ Len(ops') \in Nat
  BY DEF TypeInv
<1>5. Len(ops') = Len(ops) - 1
  BY <1>1 DEF TypeInv
<1>6. \A i \in DOMAIN ops' :
        ops'[i].do \in {"insert", "guess"} \/ (ops'[i].do = "halted" /\ i = Len(ops'))
  BY <1>2, <1>3, <1>5 DEF HaltedInv
<1>7. Head(ops).do \in {"insert", "guess", "halted"}
  BY <1>2, HaltHead
<1>8. sent' = sent \/ \E c \in Commands : sent' = Append(sent, c) /\ c.do \in {"insert", "disable"}
  BY <1>7, WriteSends DEF Instructions
<1>9. \A i \in DOMAIN sent' : sent'[i].do \notin {"run", "continue"}
  <2>1. CASE sent' = sent
    BY <1>2, <2>1 DEF HaltedInv
  <2>2. ASSUME NEW c \in Commands, sent' = Append(sent, c), c.do \in {"insert", "disable"}
        PROVE  \A i \in DOMAIN sent' : sent'[i].do \notin {"run", "continue"}
    <3>1. sent \in Seq(Commands) /\ sent' \in Seq(Commands)
      BY DEF TypeInv
    <3> HIDE DEF Commands
    <3>2. /\ Len(sent) \in Nat /\ Len(sent') = Len(sent) + 1 /\ sent'[Len(sent) + 1] = c
          /\ \A i \in 1..Len(sent) : sent'[i] = sent[i]
      BY <2>2, <3>1, AppendOf
    <3>3. DOMAIN sent' = 1..(Len(sent) + 1) /\ DOMAIN sent = 1..Len(sent)
      BY <3>1, <3>2
    <3>4. \A i \in 1..(Len(sent) + 1) : i \in 1..Len(sent) \/ i = Len(sent) + 1
      BY <3>2
    <3> QED BY <1>2, <2>2, <3>2, <3>3, <3>4 DEF HaltedInv
  <2> QED BY <1>8, <2>1, <2>2
<1> QED BY <1>1, <1>2, <1>6, <1>9 DEF HaltedInv

LEMMA HaltedExecute == ASSUME TypeInv, HaltedInv, Execute PROVE HaltedInv'
<1> SUFFICES ASSUME HaltPending' PROVE HaltedInv'
  BY DEF HaltedInv
<1>1. UNCHANGED <<ops, breaked, sigint, shown>> /\ sent # <<>> /\ sent' = Tail(sent)
  BY DEF Execute, manager, user
<1>2. HaltPending
  BY <1>1 DEF HaltPending
<1>3. sent \in Seq(Commands)
  BY DEF TypeInv
<1> HIDE DEF Commands
<1>4. /\ Len(sent) \in Nat /\ 1 \in 1..Len(sent) /\ Head(sent) = sent[1] /\ Tail(sent) \in Seq(Commands)
      /\ Len(Tail(sent)) = Len(sent) - 1
      /\ \A i \in 1..(Len(sent) - 1) : i + 1 \in 1..Len(sent) /\ Tail(sent)[i] = sent[i + 1]
  BY <1>1, <1>3, TailOf
<1>5. DOMAIN sent = 1..Len(sent) /\ DOMAIN sent' = 1..(Len(sent) - 1)
  BY <1>1, <1>3, <1>4
<1>6. \A i \in DOMAIN sent' : sent'[i].do \notin {"run", "continue"}
  BY <1>1, <1>2, <1>4, <1>5 DEF HaltedInv
<1>7. Head(sent).do \notin {"run", "continue"}
  BY <1>2, <1>4, <1>5 DEF HaltedInv
<1>8. (Prompted(lines, lines') \/ Answered(lines, lines', "bkpt")) /\ prog' = prog
  BY <1>7, ExecuteLines
<1>9. NoNews(lines')
  BY <1>2, <1>8, NewsNone DEF HaltedInv
<1> QED BY <1>1, <1>2, <1>6, <1>8, <1>9 DEF HaltedInv

LEMMA HaltedHear ==
  ASSUME TypeInv, HaltedInv, HearPrompt \/ HearRunning \/ HearStopped \/ HearNumber PROVE HaltedInv'
<1> SUFFICES ASSUME HaltPending' PROVE HaltedInv'
  BY DEF HaltedInv
<1>1. /\ Heard(lines, lines') /\ UNCHANGED <<ops, sent, sigint, prog>>
      /\ HearRunning => lines[1].word = "running"
      /\ HearStopped => lines[1].word = "stopped"
  BY HearLines
<1>2. HaltPending
  BY <1>1 DEF HaltPending
<1>3. NoNews(lines)
  BY <1>2 DEF HaltedInv
<1>4. 1 \in 1..Len(lines) /\ \A i \in 1..Len(lines') : lines'[i] = lines[i + 1] /\ i + 1 \in 1..Len(lines)
  BY <1>1, NewsHeard
<1>5. NoNews(lines')
  BY <1>3, <1>4 DEF NoNews, News
<1>6. HearPrompt \/ HearNumber
  BY <1>1, <1>3, <1>4 DEF NoNews, News
<1>7. UNCHANGED <<breaked, shown>>
  BY <1>6 DEF HearPrompt, HearNumber
<1> QED BY <1>1, <1>2, <1>5, <1>7 DEF HaltedInv

LEMMA HaltedInit == PointInit => HaltedInv
BY DEF PointInit, HaltedInv, HaltPending

LEMMA HaltedStep ==
  ASSUME TypeInv, TypeInv', QuietInv, HaltedInv, [PointNext]_pointVars PROVE HaltedInv'
<1>1. CASE Asks
  <2>1. PICK plan : IsPlan(plan) /\ Ask(plan)
    BY <1>1, AskPlan
  <2>2. Fresh(plan) /\ ops' = plan
    BY <2>1, FreshPlan DEF Ask
  <2>3. DOMAIN ops' = 1..Len(ops')
    BY DEF TypeInv
  <2>4. ~HaltPending'
    BY <2>2, <2>3 DEF HaltPending, Fresh
  <2> QED BY <2>4 DEF HaltedInv
<1>2. CASE \E process \in BOOLEAN : Attach(process)
  BY <1>2, HaltedAttach
<1>3. CASE Break \/ End
  <2>1. ops = <<>> /\ ops' = ops
    BY <1>3 DEF Break, End, user
  <2>2. ~HaltPending'
    BY <2>1 DEF HaltPending
  <2> QED BY <2>2 DEF HaltedInv
<1>4. CASE Pause
  <2>1. ops # <<>> /\ Head(ops).do = "pause"
    BY <1>4 DEF Pause, Does
  <2>2. ~HaltPending
    BY <2>1, HaltHead
  <2>3. CASE breaked
    <3>1. ops' = Tail(ops)
      BY <1>4, <2>3 DEF Pause, Done
    <3> QED BY <2>1, <2>2, <3>1, HaltTail DEF HaltedInv
  <2>4. CASE ~breaked
    <3>1. /\ DOMAIN ops = 1..Len(ops) /\ DOMAIN ops' = 1..Len(ops) /\ ops'[1].do = "await"
          /\ \A i \in 1..Len(ops) : i # 1 => ops'[i] = ops[i]
      BY <1>4, <2>4, PauseOps
    <3>2. ~HaltPending'
      BY <2>2, <3>1 DEF HaltPending
    <3> QED BY <3>2 DEF HaltedInv
  <2> QED BY <2>3, <2>4
<1>5. CASE Await \/ Store
  <2>1. ops # <<>> /\ ops' = Tail(ops) /\ Head(ops).do \in {"await", "enter", "drop", "clear", "on", "off"}
    BY <1>5 DEF Await, Store, Does, Done
  <2>2. ~HaltPending
    BY <2>1, HaltHead
  <2> QED BY <2>1, <2>2, HaltTail DEF HaltedInv
<1>6. CASE Write
  BY <1>6, HaltedWrite
<1>7. CASE Halted
  <2>1. ops # <<>> /\ ops' = Tail(ops) /\ Head(ops).do = "halted"
    BY <1>7 DEF Halted, Does, Done
  <2>2. /\ DOMAIN ops' = 1..(Len(ops) - 1) /\ 1 \in DOMAIN ops /\ Head(ops) = ops[1]
    BY <2>1, OpsTail
  <2>3. HaltPending
    BY <2>1, <2>2 DEF HaltPending
  <2>4. Len(ops) = 1
    BY <2>1, <2>3, HaltHead
  <2>5. ~HaltPending'
    BY <2>2, <2>4 DEF HaltPending
  <2> QED BY <2>5 DEF HaltedInv
<1>8. CASE Execute
  BY <1>8, HaltedExecute
<1>9. CASE ProgramStops \/ Interrupted
  <2>1. UNCHANGED ops /\ (prog = "running" \/ sigint)
    BY <1>9 DEF ProgramStops, Interrupted, user
  <2> QED BY <2>1 DEF HaltedInv, HaltPending
<1>10. CASE HearPrompt \/ HearRunning \/ HearStopped \/ HearNumber
  BY <1>10, HaltedHear
<1>11. CASE UNCHANGED pointVars \/ _UpdateBreakpoint
  <2>1. UNCHANGED <<ops, sent, lines, prog, breaked, sigint, shown>>
    BY <1>11 DEF pointVars, manager, user, debugger, _UpdateBreakpoint
  <2> QED BY <2>1 DEF HaltedInv, HaltPending
<1> QED BY <1>1, <1>2, <1>3, <1>4, <1>5, <1>6, <1>7, <1>8, <1>9, <1>10, <1>11 DEF PointNext, Asks
-----------------------------------------------------------------------------
(* What was said last of the program. *)
LEMMA HaltKeeps ==
  ASSUME TypeInv, ops # <<>>, ops' = Tail(ops), Head(ops).do # "halted", HaltPending
  PROVE  HaltPending'
<1>1. PICK i \in DOMAIN ops : ops[i].do = "halted"
  BY DEF HaltPending
<1>2. /\ Len(ops) \in Nat /\ DOMAIN ops = 1..Len(ops) /\ Head(ops) = ops[1]
      /\ DOMAIN ops' = 1..(Len(ops) - 1)
      /\ \A j \in 1..(Len(ops) - 1) : ops'[j] = ops[j + 1]
  BY OpsTail
<1>3. i - 1 \in 1..(Len(ops) - 1) /\ (i - 1) + 1 = i
  <2>1. i # 1
    BY <1>1, <1>2
  <2> QED BY <1>2, <2>1
<1>4. i - 1 \in DOMAIN ops' /\ ops'[i - 1].do = "halted"
  BY <1>1, <1>2, <1>3
<1> QED BY <1>4 DEF HaltPending

LEMMA NewsSame ==
  ASSUME NewsInv, UNCHANGED <<debugging, lines, prog, breaked, shown>>,
         HaltPending => HaltPending'
  PROVE  NewsInv'
BY DEF NewsInv

LEMMA NewsSays ==
  ASSUME TypeInv, NewsInv, Execute \/ ProgramStops \/ Interrupted PROVE NewsInv'
<1>1. UNCHANGED <<debugging, ops, breaked, shown>>
  BY DEF Execute, ProgramStops, Interrupted, manager, user
<1>2. HaltPending' <=> HaltPending
  BY <1>1 DEF HaltPending
<1>3. CASE (Prompted(lines, lines') \/ Answered(lines, lines', "bkpt")) /\ prog' = prog
  <2>1. /\ NoNews(lines') <=> NoNews(lines)
        /\ \A i : Latest(lines', i) <=> Latest(lines, i)
    BY <1>3, NewsNone
  <2>2. \A i \in 1..Len(lines) : lines'[i] = lines[i]
    BY <1>3 DEF Prompted, Answered
  <2>3. \A i : Latest(lines, i) => i \in 1..Len(lines)
    BY DEF Latest
  <2> QED BY <1>1, <1>2, <1>3, <2>1, <2>2, <2>3 DEF NewsInv
<1>4. CASE \/ Answered(lines, lines', "running") /\ prog' = "running"
           \/ Answered(lines, lines', "stopped") /\ prog' = "halted"
  <2>1. ~NoNews(lines') /\ \A i : Latest(lines', i) <=> i = Len(lines) + 1
    BY <1>4, NewsOne
  <2>2. lines'[Len(lines) + 1].word = IF prog' = "running" THEN "running" ELSE "stopped"
    BY <1>4 DEF Answered
  <2> QED BY <1>4, <2>1, <2>2 DEF NewsInv
<1> QED BY <1>3, <1>4, ExecuteLines, StopsLines

LEMMA NewsHear ==
  ASSUME TypeInv, NewsInv, HearPrompt \/ HearRunning \/ HearStopped \/ HearNumber PROVE NewsInv'
<1>1. /\ Heard(lines, lines') /\ UNCHANGED <<debugging, ops, prog>>
      /\ HearPrompt => lines[1].word = "prompt"
      /\ HearRunning => lines[1].word = "running"
      /\ HearStopped => lines[1].word = "stopped"
      /\ HearNumber => lines[1].word = "bkpt"
  BY HearLines
<1>2. /\ \A i \in 1..Len(lines') : lines'[i] = lines[i + 1] /\ i + 1 \in 1..Len(lines)
                                   /\ (Latest(lines', i) => Latest(lines, i + 1))
      /\ NoNews(lines') => IF News(lines, 1) THEN Latest(lines, 1) ELSE NoNews(lines)
      /\ 1 \in 1..Len(lines)
  BY <1>1, NewsHeard
<1> SUFFICES ASSUME debugging PROVE NewsInv'
  BY <1>1 DEF NewsInv
<1>3. \A i \in 1..Len(lines') : Latest(lines', i) =>
        prog' = IF lines'[i].word = "running" THEN "running" ELSE "halted"
  BY <1>1, <1>2 DEF NewsInv
<1>4. HaltPending' <=> HaltPending
  BY <1>1 DEF HaltPending
<1>5. ASSUME NoNews(lines')
      PROVE  /\ HaltPending' \/ (breaked' <=> prog' = "halted")
             /\ shown' = "stopped" => prog' = "halted"
  <2>1. CASE HearPrompt \/ HearNumber
    <3>1. NoNews(lines) /\ UNCHANGED <<breaked, shown>>
      BY <1>1, <1>2, <1>5, <2>1 DEF News, HearPrompt, HearNumber
    <3> QED BY <1>1, <1>4, <3>1 DEF NewsInv
  <2>2. CASE HearRunning
    <3>1. Latest(lines, 1)
      BY <1>1, <1>2, <1>5, <2>2 DEF News
    <3>2. prog' = "running"
      BY <1>1, <1>2, <2>2, <3>1 DEF NewsInv
    <3> QED BY <2>2, <3>2 DEF HearRunning
  <2>3. CASE HearStopped
    <3>1. Latest(lines, 1)
      BY <1>1, <1>2, <1>5, <2>3 DEF News
    <3>2. prog' = "halted"
      BY <1>1, <1>2, <2>3, <3>1 DEF NewsInv
    <3> QED BY <2>3, <3>2 DEF HearStopped
  <2> QED BY <2>1, <2>2, <2>3
<1> QED BY <1>3, <1>5 DEF NewsInv

LEMMA NewsInit == PointInit => NewsInv
BY DEF PointInit, NewsInv

LEMMA NewsStep ==
  ASSUME TypeInv, QuietInv, HaltedInv, NewsInv, [PointNext]_pointVars PROVE NewsInv'
<1>1. CASE Asks \/ Break
  <2>1. ops = <<>> /\ UNCHANGED <<debugging, lines, prog, breaked, shown>>
    <3>1. CASE Break
      BY <3>1 DEF Break, manager, debugger
    <3>2. CASE Asks
      <4>1. PICK plan : Ask(plan)
        BY <3>2, AskPlan
      <4> QED BY <4>1 DEF Ask, manager, debugger
    <3> QED BY <1>1, <3>1, <3>2
  <2>2. ~HaltPending
    BY <2>1 DEF HaltPending
  <2> QED BY <2>1, <2>2, NewsSame
<1>2. ASSUME NEW process \in BOOLEAN, Attach(process) PROVE NewsInv'
  <2>1. process => HaltPending'
    BY <1>2, HaltedAttach
  <2>2. /\ lines' = <<>> /\ breaked' = FALSE /\ shown' = "running"
        /\ prog' = IF process THEN "halted" ELSE "none"
    BY <1>2 DEF Attach, QuietInv, AtRest
  <2>3. 1..Len(lines') = {}
    BY <2>2
  <2> QED BY <2>1, <2>2, <2>3 DEF NewsInv
<1>3. CASE End
  BY <1>3 DEF End, NewsInv
<1>4. CASE Pause
  <2>1. ~HaltPending
    BY <1>4, HaltHead DEF Pause, Does
  <2>2. UNCHANGED <<debugging, lines, prog, breaked, shown>>
    BY <1>4 DEF Pause, debugger
  <2> QED BY <2>1, <2>2, NewsSame
<1>5. CASE Await \/ Write \/ Store
  <2>1. /\ ops # <<>> /\ ops' = Tail(ops) /\ Head(ops).do # "halted"
        /\ UNCHANGED <<debugging, lines, prog, breaked, shown>>
    BY <1>5 DEF Await, Write, Store, Does, Done, manager, debugger
  <2> QED BY <2>1, HaltKeeps, NewsSame
<1>6. CASE Halted
  <2>1. ops # <<>> /\ 1 \in DOMAIN ops /\ ops[1].do = "halted"
    <3>1. ops # <<>> /\ Head(ops).do = "halted"
      BY <1>6 DEF Halted, Does
    <3>2. ops \in Seq(Steps)
      BY DEF TypeInv
    <3> HIDE DEF Steps
    <3> QED BY <3>1, <3>2
  <2>2. HaltPending
    BY <2>1 DEF HaltPending
  <2>3. NoNews(lines) /\ prog = "halted"
    BY <2>2 DEF HaltedInv
  <2>4. UNCHANGED <<lines, prog>> /\ breaked' = TRUE
    BY <1>6 DEF Halted, debugger
  <2>5. \A i \in 1..Len(lines) : ~Latest(lines, i)
    BY <2>3 DEF NoNews, Latest
  <2> QED BY <2>3, <2>4, <2>5 DEF NewsInv
<1>7. CASE Execute \/ ProgramStops \/ Interrupted
  BY <1>7, NewsSays
<1>8. CASE HearPrompt \/ HearRunning \/ HearStopped \/ HearNumber
  BY <1>8, NewsHear
<1>9. CASE UNCHANGED pointVars \/ _UpdateBreakpoint
  <2>1. UNCHANGED <<ops, debugging, lines, prog, breaked, shown>>
    BY <1>9 DEF pointVars, manager, user, debugger, _UpdateBreakpoint
  <2>2. HaltPending' <=> HaltPending
    BY <2>1 DEF HaltPending
  <2> QED BY <2>1, <2>2, NewsSame
<1> QED BY <1>1, <1>2, <1>3, <1>4, <1>5, <1>6, <1>7, <1>8, <1>9 DEF PointNext, Asks

-----------------------------------------------------------------------------
(* m_nIgnoreBreaks and the prompts. *)
LEMMA IgnoreSame ==
  ASSUME IgnoreInv, ~Awaiting, UNCHANGED <<debugging, lines, ignore>> PROVE IgnoreInv'
BY DEF IgnoreInv

LEMMA StopSaid ==
  ASSUME TypeInv, TypeInv'
  PROVE  /\ StopIsComing <=> sigint \/ \E n \in 1..Len(lines) : lines[n].word = "stopped"
         /\ StopIsComing' <=> sigint' \/ \E n \in 1..Len(lines') : lines'[n].word = "stopped"
         /\ Len(lines) \in Nat /\ Len(lines') \in Nat
<1>1. /\ DOMAIN lines = 1..Len(lines) /\ DOMAIN lines' = 1..Len(lines')
      /\ Len(lines) \in Nat /\ Len(lines') \in Nat
  BY DEF TypeInv
<1> QED BY <1>1 DEF StopIsComing

LEMMA IgnoreSays ==
  ASSUME TypeInv, TypeInv', LinesInv, IgnoreInv, Execute \/ ProgramStops \/ Interrupted
  PROVE  IgnoreInv'
<1>1. UNCHANGED <<debugging, ops, breaked, ignore>>
  BY DEF Execute, ProgramStops, Interrupted, manager, user
<1>2. Paired(lines) /\ ignore \in Nat
  BY LinesPaired DEF TypeInv
<1>3. Cardinality(Spare(lines)) \in Nat
  BY StopSaid, Counted
<1>4. CASE \/ Prompted(lines, lines') \/ Answered(lines, lines', "bkpt")
           \/ Answered(lines, lines', "running")
  <2>1. Cardinality(Spare(lines')) = Cardinality(Spare(lines)) + 1
    <3>1. CASE Prompted(lines, lines')
      BY <1>2, <3>1, SparePrompted
    <3>2. CASE Answered(lines, lines', "bkpt") \/ Answered(lines, lines', "running")
      BY <3>2, SpareAnswered
    <3> QED BY <1>4, <3>1, <3>2
  <2> QED BY <1>1, <1>2, <1>3, <2>1 DEF IgnoreInv
<1>5. CASE Answered(lines, lines', "stopped")
  <2>1. Cardinality(Spare(lines')) = Cardinality(Spare(lines))
    <3>1. Cardinality(Spare(lines')) = Cardinality(Spare(lines)) + 0
      BY <1>5, SpareAnswered
    <3> QED BY <1>3, <3>1
  <2>2. Len(lines) + 1 \in 1..Len(lines') /\ lines'[Len(lines) + 1].word = "stopped"
    BY <1>5 DEF Answered
  <2>3. StopIsComing'
    BY <2>2, StopSaid
  <2>4. Awaiting' <=> Awaiting
    BY <1>1 DEF Awaiting, Does
  <2> QED BY <1>1, <2>1, <2>3, <2>4 DEF IgnoreInv
<1> QED BY <1>4, <1>5, ExecuteLines, StopsLines

LEMMA IgnoreHear ==
  ASSUME TypeInv, TypeInv', LinesInv, IgnoreInv,
         HearPrompt \/ HearRunning \/ HearStopped \/ HearNumber
  PROVE  IgnoreInv'
<1> DEFINE s == Cardinality(Spare(lines))
<1>1. /\ Heard(lines, lines') /\ UNCHANGED <<debugging, ops, sigint>>
      /\ HearPrompt => lines[1].word = "prompt"
      /\ HearRunning => lines[1].word = "running"
      /\ HearStopped => lines[1].word = "stopped"
      /\ HearNumber => lines[1].word = "bkpt"
  BY HearLines
<1>2. Paired(lines) /\ ignore \in Nat
  BY LinesPaired DEF TypeInv
<1>3. s \in Nat /\ Cardinality(Spare(lines')) \in Nat
  BY StopSaid, Counted
<1>4. Cardinality(Spare(lines')) =
        CASE lines[1].word = "prompt"  -> s - 1
          [] lines[1].word = "stopped" -> s + 1
          [] OTHER -> s
  BY <1>1, <1>2, SpareHeard
<1> HIDE DEF s
<1>5. Awaiting' <=> Awaiting
  BY <1>1 DEF Awaiting, Does
<1>6. ASSUME lines[1].word # "stopped", StopIsComing PROVE StopIsComing'
  <2>1. CASE sigint
    BY <1>1, <2>1, StopSaid
  <2>2. ASSUME NEW n \in 1..Len(lines), lines[n].word = "stopped" PROVE StopIsComing'
    <3>1. n # 1
      BY <1>6, <2>2
    <3>2. n - 1 \in 1..Len(lines') /\ n - 1 \in 1..(Len(lines) - 1) /\ (n - 1) + 1 = n
      BY <1>1, <3>1 DEF Heard
    <3>3. lines'[n - 1] = lines[n]
      BY <1>1, <3>2 DEF Heard
    <3> QED BY <2>2, <3>2, <3>3, StopSaid
  <2> QED BY <1>6, <2>1, <2>2, StopSaid
<1>7. CASE HearPrompt
  <2>1. Cardinality(Spare(lines')) = s - 1 /\ lines[1].word # "stopped"
    BY <1>1, <1>4, <1>7
  <2>2. ignore' = (IF ignore > 0 THEN ignore - 1 ELSE 0) /\ breaked' = breaked
    BY <1>7 DEF HearPrompt
  <2>3. ignore <= s => ignore' <= Cardinality(Spare(lines'))
    BY <1>2, <1>3, <2>1, <2>2
  <2>4. ignore <= s + 1 => ignore' <= Cardinality(Spare(lines')) + 1
    BY <1>2, <1>3, <2>1, <2>2
  <2> QED BY <1>1, <1>5, <1>6, <2>1, <2>2, <2>3, <2>4 DEF IgnoreInv, s
<1>8. CASE HearRunning \/ HearNumber
  <2>1. Cardinality(Spare(lines')) = s /\ lines[1].word # "stopped"
    BY <1>1, <1>4, <1>8
  <2>2. ignore' = ignore /\ (breaked' = breaked \/ breaked' = FALSE)
    BY <1>8 DEF HearRunning, HearNumber
  <2> QED BY <1>1, <1>5, <1>6, <2>1, <2>2 DEF IgnoreInv, s
<1>9. CASE HearStopped
  <2>1. Cardinality(Spare(lines')) = s + 1
    BY <1>1, <1>4, <1>9
  <2>2. ignore' = ignore
    BY <1>9 DEF HearStopped
  <2>3. debugging => ignore <= s + 1
    BY <1>2, <1>3 DEF IgnoreInv, s
  <2> QED BY <1>1, <2>1, <2>2, <2>3 DEF IgnoreInv
<1> QED BY <1>7, <1>8, <1>9

LEMMA IgnoreInit == PointInit => IgnoreInv
BY DEF PointInit, IgnoreInv

(* A break that comes in time is over when the wait is. *)
LEMMA IgnoreStep ==
  ASSUME ~Late, TypeInv, TypeInv', QuietInv, LinesInv, IgnoreInv, [PointNext]_pointVars
  PROVE  IgnoreInv'
<1>1. CASE Asks \/ Break
  <2>1. ops = <<>> /\ UNCHANGED <<debugging, lines, ignore>>
    <3>1. CASE Break
      BY <3>1 DEF Break, manager
    <3>2. CASE Asks
      <4>1. PICK plan : Ask(plan)
        BY <3>2, AskPlan
      <4> QED BY <4>1 DEF Ask, manager
    <3> QED BY <1>1, <3>1, <3>2
  <2>2. ~Awaiting
    BY <2>1 DEF Awaiting, Does
  <2> QED BY <2>1, <2>2, IgnoreSame
<1>2. CASE \E process \in BOOLEAN : Attach(process)
  <2>1. ignore' = 0
    BY <1>2 DEF Attach
  <2>2. Cardinality(Spare(lines')) \in Nat
    BY StopSaid, Counted
  <2> QED BY <2>1, <2>2 DEF IgnoreInv
<1>3. CASE End
  BY <1>3 DEF End, IgnoreInv
<1>4. CASE Pause
  <2>1. ~Awaiting /\ UNCHANGED <<debugging, lines, breaked>>
    BY <1>4 DEF Pause, Awaiting, Does
  <2>2. CASE breaked
    <3>1. ignore' = ignore
      BY <1>4, <2>2 DEF Pause
    <3> QED BY <2>1, <3>1, IgnoreSame
  <2>3. CASE ~breaked
    <3>1. Awaiting' /\ ignore' = ignore + 1 /\ sigint' = TRUE
      BY <1>4, <2>3, PauseOps DEF Pause, Awaiting
    <3>2. debugging => ignore <= Cardinality(Spare(lines))
      BY <2>1 DEF IgnoreInv
    <3>3. ignore \in Nat /\ Cardinality(Spare(lines)) \in Nat
      BY StopSaid, Counted DEF TypeInv
    <3>4. debugging' => ignore' <= Cardinality(Spare(lines')) + 1
      BY <2>1, <3>1, <3>2, <3>3
    <3> QED BY <2>1, <2>3, <3>1, <3>4 DEF IgnoreInv, StopIsComing
  <2> QED BY <2>2, <2>3
<1>5. CASE Await
  <2>1. (breaked \/ ~StopIsComing) /\ UNCHANGED <<debugging, lines, ignore>>
    BY <1>5 DEF Await, manager
  <2> QED BY <2>1 DEF IgnoreInv
<1>6. CASE Write \/ Store \/ Halted
  <2>1. ~Awaiting /\ UNCHANGED <<debugging, lines, ignore>>
    BY <1>6 DEF Write, Store, Halted, Awaiting, Does, manager
  <2> QED BY <2>1, IgnoreSame
<1>7. CASE Execute \/ ProgramStops \/ Interrupted
  BY <1>7, IgnoreSays
<1>8. CASE HearPrompt \/ HearRunning \/ HearStopped \/ HearNumber
  BY <1>8, IgnoreHear
<1>9. CASE UNCHANGED pointVars \/ _UpdateBreakpoint
  <2>1. UNCHANGED <<debugging, ops, lines, ignore, sigint, breaked>>
    BY <1>9 DEF pointVars, manager, user, _UpdateBreakpoint
  <2> QED BY <2>1 DEF IgnoreInv, Awaiting, Does, StopIsComing
<1> QED BY <1>1, <1>2, <1>3, <1>4, <1>5, <1>6, <1>7, <1>8, <1>9 DEF PointNext, Asks
-----------------------------------------------------------------------------
(* Hidden stops. *)
LEMMA ResumesSame ==
  ASSUME UNCHANGED <<restart, sent>>, Resumes, ~Awaiting \/ ops' = ops PROVE Resumes'
<1>1. CASE Awaiting
  BY <1>1 DEF Resumes, Awaiting, Does
<1>2. CASE ~Awaiting
  BY <1>2 DEF Resumes
<1> QED BY <1>1, <1>2

LEMMA HiddenSame ==
  ASSUME HiddenInv, UNCHANGED <<debugging, lines, ignore, breaked, shown>>, Resumes => Resumes'
  PROVE  HiddenInv'
BY DEF HiddenInv

LEMMA ResumesWrite == ASSUME TypeInv, TypeInv', BlockInv, Write, Resumes PROVE Resumes'
<1>1. ~Awaiting
  BY DEF Write, Awaiting, Does
<1>2. sent \in Seq(Commands) /\ sent' \in Seq(Commands)
  BY DEF TypeInv
<1>3. CASE Head(ops).do = "resume" /\ restart
  <2>1. PICK c \in Commands : sent' = Append(sent, c) /\ c.do = "continue"
    <3>1. sent' = Append(sent, Command("continue", {}, {}))
      BY <1>3 DEF Write
    <3>2. Command("continue", {}, {}) \in Commands /\ Command("continue", {}, {}).do = "continue"
      BY CommandType DEF Instructions, Command
    <3> HIDE DEF Commands
    <3> QED BY <3>1, <3>2
  <2> HIDE DEF Commands
  <2>2. Len(sent) \in Nat /\ Len(sent') = Len(sent) + 1 /\ sent'[Len(sent) + 1] = c
    BY <1>2, <2>1, AppendOf
  <2>3. Len(sent) + 1 \in DOMAIN sent'
    BY <1>2, <2>2
  <2> QED BY <2>1, <2>2, <2>3 DEF Resumes
<1>4. CASE restart /\ Head(ops).do # "resume"
  BY <1>4 DEF Write, Resumes
<1>5. ASSUME NEW i \in DOMAIN sent, sent[i].do \in {"run", "continue"} PROVE Resumes'
  <2>1. CASE sent' = sent
    BY <1>5, <2>1 DEF Resumes
  <2>2. ASSUME NEW c \in Commands, sent' = Append(sent, c) PROVE Resumes'
    <3> HIDE DEF Commands
    <3>1. /\ Len(sent) \in Nat /\ Len(sent') = Len(sent) + 1
          /\ \A j \in 1..Len(sent) : sent'[j] = sent[j]
      BY <1>2, <2>2, AppendOf
    <3>2. i \in 1..Len(sent)
      BY <1>2
    <3>3. i \in DOMAIN sent'
      BY <1>2, <3>1, <3>2
    <3> QED BY <1>5, <3>1, <3>2, <3>3 DEF Resumes
  <2> QED BY <2>1, <2>2, WriteSends
<1> QED BY <1>1, <1>3, <1>4, <1>5 DEF Resumes

LEMMA ResumesExecute ==
  ASSUME TypeInv, Execute, Resumes, Head(sent).do \notin {"run", "continue"} PROVE Resumes'
<1>1. UNCHANGED <<ops, restart>> /\ sent # <<>> /\ sent' = Tail(sent)
  BY DEF Execute, user
<1>2. CASE Awaiting \/ restart
  BY <1>1, <1>2 DEF Resumes, Awaiting, Does
<1>3. ASSUME NEW i \in DOMAIN sent, sent[i].do \in {"run", "continue"} PROVE Resumes'
  <2>1. sent \in Seq(Commands)
    BY DEF TypeInv
  <2> HIDE DEF Commands
  <2>2. /\ Len(sent) \in Nat /\ Head(sent) = sent[1] /\ Tail(sent) \in Seq(Commands)
        /\ Len(Tail(sent)) = Len(sent) - 1
        /\ \A j \in 1..(Len(sent) - 1) : Tail(sent)[j] = sent[j + 1]
    BY <1>1, <2>1, TailOf
  <2>3. DOMAIN sent = 1..Len(sent) /\ DOMAIN sent' = 1..(Len(sent) - 1)
    BY <1>1, <2>1, <2>2
  <2>4. i # 1
    BY <1>3, <2>2
  <2>5. i - 1 \in 1..(Len(sent) - 1) /\ (i - 1) + 1 = i
    BY <2>2, <2>3, <2>4
  <2> QED BY <1>1, <1>3, <2>2, <2>3, <2>5 DEF Resumes
<1> QED BY <1>2, <1>3 DEF Resumes

LEMMA HiddenSays ==
  ASSUME TypeInv, TypeInv', LinesInv, IgnoreInv, HiddenInv, Execute \/ ProgramStops \/ Interrupted
  PROVE  HiddenInv'
<1>1. UNCHANGED <<debugging, ops, breaked, ignore, restart, shown>>
  BY DEF Execute, ProgramStops, Interrupted, manager, user
<1>2. Len(lines) \in Nat /\ Len(lines') \in Nat /\ ignore \in Nat
  BY StopSaid DEF TypeInv
<1>3. CASE /\ Prompted(lines, lines') \/ Answered(lines, lines', "bkpt")
           /\ Resumes => Resumes'
  <2>1. /\ NoNews(lines') <=> NoNews(lines)
        /\ \A i : Latest(lines', i) <=> Latest(lines, i)
    BY <1>3, NewsNone
  <2>2. Len(lines') >= Len(lines) /\ \A i \in 1..Len(lines) : lines'[i] = lines[i]
    BY <1>3 DEF Prompted, Answered
  <2>3. \A i \in 1..Len(lines) : Prompts(lines', i) = Prompts(lines, i)
    <3> SUFFICES ASSUME NEW i \in 1..Len(lines) PROVE Prompts(lines', i) = Prompts(lines, i)
      OBVIOUS
    <3>1. i \in Nat /\ i <= Len(lines) + 1
      BY <1>2
    <3> QED BY <1>2, <2>2, <3>1, PromptsSame
  <2>4. \A i : Latest(lines, i) => i \in 1..Len(lines)
    BY DEF Latest
  <2> QED BY <1>1, <1>3, <2>1, <2>2, <2>3, <2>4 DEF HiddenInv
<1>4. CASE Answered(lines, lines', "running")
  <2>1. ~NoNews(lines') /\ \A i : Latest(lines', i) <=> i = Len(lines) + 1
    BY <1>4, NewsOne
  <2>2. lines'[Len(lines) + 1].word = "running"
    BY <1>4 DEF Answered
  <2> QED BY <2>1, <2>2 DEF HiddenInv
<1>5. CASE Answered(lines, lines', "stopped")
  <2> DEFINE n == Len(lines) + 1
  <2>1. ~NoNews(lines') /\ \A i : Latest(lines', i) <=> i = n
    BY <1>5, NewsOne
  <2>2. Len(lines') >= Len(lines) /\ \A i \in 1..Len(lines) : lines'[i] = lines[i]
    BY <1>5 DEF Answered
  <2>3. Prompts(lines', n) = Prompts(lines, n)
    <3>1. n \in Nat /\ n <= Len(lines) + 1
      BY <1>2
    <3> HIDE DEF n
    <3> QED BY <1>2, <2>2, <3>1, PromptsSame
  <2>4. ASSUME debugging, ignore > Cardinality(Prompts(lines', n)) PROVE Resumes'
    <3>1. Cardinality(Spare(lines)) <= Cardinality(Prompts(lines, n))
      BY <1>2, SparePrompts
    <3>2. Cardinality(Spare(lines)) \in Nat /\ Cardinality(Prompts(lines, n)) \in Nat
      BY <1>2, Counted
    <3> HIDE DEF n
    <3>3. ~(ignore <= Cardinality(Spare(lines)))
      BY <1>2, <2>3, <2>4, <3>1, <3>2
    <3>4. Awaiting
      BY <2>4, <3>3 DEF IgnoreInv
    <3> QED BY <1>1, <3>4 DEF Resumes, Awaiting, Does
  <2> HIDE DEF n
  <2> QED BY <1>1, <2>1, <2>4 DEF HiddenInv
<1>6. CASE Execute
  BY <1>3, <1>4, <1>6, ExecuteLines, ResumesExecute
<1>7. CASE ProgramStops \/ Interrupted
  <2>1. UNCHANGED <<sent, ops, restart>>
    BY <1>7 DEF ProgramStops, Interrupted, user
  <2>2. Resumes => Resumes'
    BY <2>1, ResumesSame
  <2> QED BY <1>3, <1>5, <1>7, <2>2, StopsLines
<1> QED BY <1>6, <1>7

LEMMA HiddenHear ==
  ASSUME TypeInv, TypeInv', HiddenInv, HearPrompt \/ HearRunning \/ HearStopped \/ HearNumber
  PROVE  HiddenInv'
<1>1. /\ Heard(lines, lines') /\ UNCHANGED <<debugging, ops, restart, sent>>
      /\ HearPrompt => lines[1].word = "prompt"
      /\ HearRunning => lines[1].word = "running"
      /\ HearStopped => lines[1].word = "stopped"
      /\ HearNumber => lines[1].word = "bkpt"
  BY HearLines
<1>2. /\ \A i \in 1..Len(lines') : lines'[i] = lines[i + 1] /\ i + 1 \in 1..Len(lines)
                                   /\ (Latest(lines', i) => Latest(lines, i + 1))
      /\ NoNews(lines') => IF News(lines, 1) THEN Latest(lines, 1) ELSE NoNews(lines)
      /\ 1 \in 1..Len(lines)
  BY <1>1, NewsHeard
<1>3. Resumes => Resumes'
  BY <1>1, ResumesSame
<1>4. Len(lines) \in Nat /\ Len(lines') \in Nat /\ ignore \in Nat
  BY StopSaid DEF TypeInv
<1> SUFFICES ASSUME debugging PROVE HiddenInv'
  BY <1>1 DEF HiddenInv
<1>5. ASSUME NEW i \in 1..Len(lines'), Latest(lines', i), lines'[i].word = "stopped",
             ignore' > Cardinality(Prompts(lines', i))
      PROVE  Resumes'
  <2> DEFINE p == Cardinality(Prompts(lines', i))
             q == Cardinality(Prompts(lines, i + 1))
  <2>1. i \in Nat /\ i > 0
    BY <1>4
  <2>2. p = q - IF lines[1].word = "prompt" THEN 1 ELSE 0
    BY <1>1, <2>1, PromptsHeard
  <2>3. p \in Nat /\ q \in Nat
    BY <1>4, Counted
  <2>4. ignore' > p
    BY <1>5
  <2> HIDE DEF p, q
  <2>5. ignore > q
    <3>1. CASE HearPrompt
      <4>1. ignore' = IF ignore > 0 THEN ignore - 1 ELSE 0
        BY <3>1 DEF HearPrompt
      <4>2. p = q - 1
        BY <1>1, <2>2, <3>1
      <4> QED BY <1>4, <2>3, <2>4, <4>1, <4>2
    <3>2. CASE HearRunning \/ HearStopped \/ HearNumber
      <4>1. ignore' = ignore
        BY <3>2 DEF HearRunning, HearStopped, HearNumber
      <4>2. p = q
        BY <1>1, <2>2, <2>3, <3>2
      <4> QED BY <2>4, <4>1, <4>2
    <3> QED BY <3>1, <3>2
  <2>6. Latest(lines, i + 1) /\ lines[i + 1].word = "stopped" /\ i + 1 \in 1..Len(lines)
    BY <1>2, <1>5
  <2>7. Resumes
    BY <2>5, <2>6 DEF HiddenInv, q
  <2> QED BY <1>3, <2>7
<1>6. ASSUME NoNews(lines'), breaked', shown' = "running" PROVE Resumes'
  <2>1. CASE HearPrompt \/ HearNumber
    <3>1. NoNews(lines) /\ UNCHANGED <<breaked, shown>>
      BY <1>1, <1>2, <1>6, <2>1 DEF News, HearPrompt, HearNumber
    <3> QED BY <1>3, <1>6, <3>1 DEF HiddenInv
  <2>2. CASE HearRunning
    BY <1>6, <2>2 DEF HearRunning
  <2>3. CASE HearStopped
    <3>1. Latest(lines, 1) /\ lines[1].word = "stopped"
      BY <1>1, <1>2, <1>6, <2>3 DEF News
    <3>2. ignore > 0
      BY <1>6, <2>3 DEF HearStopped
    <3>3. Cardinality(Prompts(lines, 1)) = 0
      <4>1. Prompts(lines, 1) = {}
        BY <1>4 DEF Prompts
      <4> QED BY <4>1, FS_EmptySet
    <3>4. Resumes
      BY <1>2, <3>1, <3>2, <3>3 DEF HiddenInv
    <3> QED BY <1>3, <3>4
  <2> QED BY <2>1, <2>2, <2>3
<1> QED BY <1>5, <1>6 DEF HiddenInv

LEMMA HiddenInit == PointInit => HiddenInv
BY DEF PointInit, HiddenInv

LEMMA HiddenStep ==
  ASSUME ~Late, TypeInv, TypeInv', QuietInv, LinesInv, HaltedInv, BlockInv, IgnoreInv, HiddenInv,
         [PointNext]_pointVars
  PROVE  HiddenInv'
<1>1. CASE Asks \/ Break
  <2>1. ops = <<>> /\ UNCHANGED <<debugging, lines, ignore, breaked, shown, restart, sent>>
    <3>1. CASE Break
      BY <3>1 DEF Break, manager, user
    <3>2. CASE Asks
      <4>1. PICK plan : Ask(plan)
        BY <3>2, AskPlan
      <4> QED BY <4>1 DEF Ask, manager
    <3> QED BY <1>1, <3>1, <3>2
  <2>2. ~Awaiting
    BY <2>1 DEF Awaiting, Does
  <2> QED BY <2>1, <2>2, ResumesSame, HiddenSame
<1>2. CASE \E process \in BOOLEAN : Attach(process)
  <2>1. lines' = <<>> /\ breaked' = FALSE
    BY <1>2 DEF Attach, QuietInv, AtRest
  <2>2. 1..Len(lines') = {}
    BY <2>1
  <2> QED BY <2>1, <2>2 DEF HiddenInv
<1>3. CASE End
  BY <1>3 DEF End, HiddenInv
<1>4. CASE Pause
  <2>1. /\ ops # <<>> /\ Head(ops).do = "pause" /\ ~Awaiting
        /\ UNCHANGED <<debugging, lines, breaked, sent, shown>>
    BY <1>4 DEF Pause, Awaiting, Does
  <2>2. CASE breaked
    <3>1. ~restart
      BY <2>1, PausedFirst DEF Pauses
    <3>2. ignore' = ignore /\ (Resumes => Resumes')
      BY <1>4, <2>1, <2>2, <3>1 DEF Pause, Resumes
    <3> QED BY <2>1, <3>2, HiddenSame
  <2>3. CASE ~breaked
    <3>1. Resumes'
      BY <1>4, <2>3, PauseOps DEF Resumes, Awaiting
    <3> QED BY <3>1 DEF HiddenInv
  <2> QED BY <2>2, <2>3
<1>5. CASE Await
  <2>1. /\ breaked \/ ~StopIsComing
        /\ restart' = breaked
        /\ UNCHANGED <<debugging, lines, ignore, breaked, shown>>
    BY <1>5 DEF Await, manager
  <2>2. CASE breaked
    <3>1. Resumes'
      BY <1>5, <2>2 DEF Await, Resumes
    <3> QED BY <3>1 DEF HiddenInv
  <2>3. CASE ~breaked
    <3>1. \A n \in 1..Len(lines) : lines[n].word # "stopped"
      BY <1>5, <2>3, StopSaid DEF Await
    <3> QED BY <2>1, <2>3, <3>1 DEF HiddenInv
  <2> QED BY <2>2, <2>3
<1>6. CASE Write
  <2>1. UNCHANGED <<debugging, lines, ignore, breaked, shown>>
    BY <1>6 DEF Write, manager
  <2> QED BY <1>6, <2>1, ResumesWrite, HiddenSame
<1>7. CASE Store
  <2>1. ~Awaiting /\ UNCHANGED <<debugging, lines, ignore, breaked, shown, restart, sent>>
    BY <1>7 DEF Store, Awaiting, Does
  <2> QED BY <2>1, ResumesSame, HiddenSame
<1>8. CASE Halted
  <2>1. ops # <<>> /\ Head(ops).do = "halted" /\ shown' = "stopped" /\ lines' = lines
    BY <1>8 DEF Halted, Does
  <2>2. HaltPending
    <3>1. ops \in Seq(Steps)
      BY DEF TypeInv
    <3> HIDE DEF Steps
    <3>2. 1 \in DOMAIN ops /\ Head(ops) = ops[1]
      BY <2>1, <3>1
    <3> QED BY <2>1, <3>2 DEF HaltPending
  <2>3. NoNews(lines)
    BY <2>2 DEF HaltedInv
  <2>4. \A i : ~Latest(lines', i)
    BY <2>1, <2>3 DEF NoNews, Latest
  <2> QED BY <2>1, <2>4 DEF HiddenInv
<1>9. CASE Execute \/ ProgramStops \/ Interrupted
  BY <1>9, HiddenSays
<1>10. CASE HearPrompt \/ HearRunning \/ HearStopped \/ HearNumber
  BY <1>10, HiddenHear
<1>11. CASE UNCHANGED pointVars \/ _UpdateBreakpoint
  <2>1. UNCHANGED <<ops, debugging, lines, ignore, breaked, shown, restart, sent>>
    BY <1>11 DEF pointVars, manager, user, _UpdateBreakpoint
  <2> QED BY <2>1, ResumesSame, HiddenSame
<1> QED BY <1>1, <1>2, <1>3, <1>4, <1>5, <1>6, <1>7, <1>8, <1>9, <1>10, <1>11 DEF PointNext, Asks

-----------------------------------------------------------------------------
ShownInv ==
  ListInv /\ LinesInv /\ HaltedInv /\ BlockInv /\ NewsInv /\ IgnoreInv /\ HiddenInv

LEMMA LinesInit == PointInit => LinesInv
BY DEF PointInit, LinesInv

LEMMA ShownInvariant == ASSUME ~Late PROVE PointSpec => []ShownInv
<1>1. PointInit /\ ListInv => ShownInv
  BY LinesInit, HaltedInit, BlockInit, NewsInit, IgnoreInit, HiddenInit DEF ShownInv
<1>2. ListInv /\ ListInv' /\ ShownInv /\ [PointNext]_pointVars => ShownInv'
  <2> SUFFICES ASSUME ListInv', ShownInv, [PointNext]_pointVars PROVE ShownInv'
    OBVIOUS
  <2>1. /\ TypeInv /\ TypeInv' /\ QuietInv /\ LinesInv /\ HaltedInv /\ BlockInv /\ NewsInv
        /\ IgnoreInv /\ HiddenInv
    BY DEF ShownInv, ListInv
  <2>2. LinesInv'
    BY <2>1, LinesStep
  <2>3. HaltedInv'
    BY <2>1, HaltedStep
  <2>4. BlockInv'
    BY <2>1, BlockStep
  <2>5. NewsInv'
    BY <2>1, NewsStep
  <2>6. IgnoreInv'
    BY <2>1, IgnoreStep
  <2>7. HiddenInv'
    BY <2>1, HiddenStep
  <2> QED BY <2>2, <2>3, <2>4, <2>5, <2>6, <2>7 DEF ShownInv
<1> QED BY <1>1, <1>2, ListInvariant, PTL DEF PointSpec

(* When a break comes within the second it is given, the user is shown        *)
(* whether the program runs, once all is said and done: no stop of the       *)
(* manager's own is shown, no other is hidden, and m_nIgnoreBreaks is zero    *)
(* again, so that the next will be shown (DebugManager.cpp:1040).           *)
THEOREM UserIsShown == ASSUME ~Late PROVE PointSpec => []ShownAgrees
<1>1. ShownInv => ShownAgrees
  <2> SUFFICES ASSUME ShownInv, Settled PROVE /\ ignore = 0 /\ (breaked <=> prog = "halted")
                                              /\ (shown = "stopped" <=> prog = "halted")
    BY DEF ShownAgrees
  <2>1. /\ debugging /\ ops = <<>> /\ sent = <<>> /\ lines = <<>>
        /\ DOMAIN ops = {} /\ DOMAIN sent = {} /\ Len(lines) = 0
    BY DEF Settled
  <2>2. /\ TypeInv /\ BlockInv /\ NewsInv /\ IgnoreInv /\ HiddenInv
    BY DEF ShownInv, ListInv
  <2>3. NoNews(lines) /\ ~HaltPending /\ ~Awaiting
    BY <2>1 DEF NoNews, HaltPending, Awaiting, Does
  <2>4. ignore = 0
    <3>1. Spare(lines) = {}
      BY <2>1 DEF Spare
    <3>2. ignore <= Cardinality(Spare(lines))
      BY <2>1, <2>2, <2>3 DEF IgnoreInv
    <3>3. Cardinality(Spare(lines)) = 0
      BY <3>1, FS_EmptySet
    <3> QED BY <2>2, <3>2, <3>3 DEF TypeInv
  <2>5. (breaked <=> prog = "halted") /\ (shown = "stopped" => prog = "halted")
    BY <2>1, <2>2, <2>3 DEF NewsInv
  <2>6. ~restart
    BY <2>1, <2>2 DEF BlockInv, Restarts
  <2>7. ~Resumes
    BY <2>1, <2>3, <2>6 DEF Resumes
  <2>8. ~(breaked /\ shown = "running")
    BY <2>1, <2>2, <2>3, <2>7 DEF HiddenInv
  <2>9. shown \in {"running", "stopped"}
    BY <2>2 DEF TypeInv
  <2> QED BY <2>4, <2>5, <2>8, <2>9
<1> QED BY <1>1, ShownInvariant, PTL
=============================================================================
