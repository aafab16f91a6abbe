-------------------------- MODULE SftpTransfer_proofs --------------------------
(***************************************************************************)
(* SftpTransfer when no answer is late, for all files, sizes and numbers of  *)
(* calls: an answer is that to the last request, a call that ends well has   *)
(* given back its handle, whatever handles failed calls have left open, and  *)
(* what was saved or loaded is on the host as the editor shows it.          *)
(***************************************************************************)
EXTENDS SftpTransfer, TLAPS

Bounds ==
  /\ ~Late
  /\ Chunks \in Nat /\ MaxEdits \in Nat /\ MaxCalls \in Nat /\ MaxStarts \in Nat
  /\ Missing \notin Seq(0..MaxEdits)

Value == 0..MaxEdits
Texts == Seq(Value)
Kinds == {"load", "save"}

Calls == [kind : Kinds, file : Files, phase : Phases, next : Nat \ {0}, id : Nat, ok : BOOLEAN,
          data : Texts, step : Steps]
Requests == [id : Nat, kind : Steps, file : Files, for : Kinds, handle : Nat, at : Nat \ {0},
             data : Value]
Replies == [id : Nat, kind : {"handle", "ok", "bad", "data", "eof"}, data : Value]

Prefix(s, n) == [i \in 1..n |-> s[i]]

(* The types of what only the call in progress knows. *)
CallInv ==
  \/ call = NoCall
  \/ /\ call \in Calls
     /\ call.step \in {"remove", "write"} => call.kind = "save"
     /\ call.step = "read" => call.kind = "load"
     /\ call.phase = "connect" => call.step \in {"remove", "open"}
     /\ call.step \in {"remove", "open"} => call.next = 1 /\ call.data = <<>>
     /\ call.kind = "save" /\ call.step = "open" /\ call.phase # "connect" => text[call.file] # <<>>
     /\ call.step = "write" => call.next <= Len(text[call.file])
     /\ outcome[call.file] = "busy"

TypeInv ==
  /\ \A f \in Files : disk[f] = Missing \/ disk[f] \in Texts
  /\ DOMAIN disk = Files /\ text \in [Files -> Texts]
  /\ outcome \in [Files -> {"new", "edited", "busy", "saved", "loaded", "failed"}]
  /\ opened \subseteq [id : Nat, file : Files]
  /\ requests \in Seq(Requests) /\ replies \in Seq(Replies)
  /\ link \in {"none", "connecting", "up", "lost", "off"}
  /\ msgId \in Nat
  /\ edits \in 0..MaxEdits /\ calls \in 0..MaxCalls /\ starts \in 0..MaxStarts

(* One request is on its way, or its answer, or neither. *)
Current ==
  [id |-> msgId, kind |-> call.step, file |-> call.file, for |-> call.kind, handle |-> call.id,
   at |-> call.next,
   data |-> IF call.step = "write" THEN text[call.file][call.next] ELSE 0]

Linked == link \in {"up", "lost"}

WireInv ==
  /\ requests # <<>> => requests = <<Current>> /\ replies = <<>> /\ At("answer") /\ link = "up"
  /\ replies # <<>> => Len(replies) = 1 /\ replies[1].id = msgId /\ At("answer")
  /\ ~Linked => opened = {} /\ (Idle \/ call.phase = "connect")

(* The handle the call in progress has open. *)
Held ==
  IF Idle \/ call.phase = "connect" \/ call.step = "remove" THEN {}
  ELSE IF call.step = "open"
       THEN IF replies # <<>> /\ replies[1].kind = "handle"
            THEN {[id |-> replies[1].id, file |-> call.file]} ELSE {}
  ELSE IF call.step = "close" /\ call.phase = "answer" /\ requests = <<>> THEN {}
  ELSE {[id |-> call.id, file |-> call.file]}

(* Among the handles failed calls have left open it is the only one with its *)
(* number, and once the host has closed it, it is gone.                     *)
Numbered ==
  /\ \A o \in opened : o.id <= msgId /\ (requests # <<>> => o.id < msgId)
  /\ \A o, p \in opened : o.id = p.id => o = p
Closing == ~Idle /\ call.step = "close" /\ call.phase = "answer"
HandleInv ==
  link = "up" =>
    /\ Held \subseteq opened
    /\ Numbered
    /\ Closing /\ requests = <<>> => \A o \in opened : o.id # call.id

(* What the host has of the file, as far as the call has come. *)
SaveInv ==
  call.kind = "save" =>
    /\ call.step = "open" /\ replies # <<>> /\ replies[1].kind = "handle" => disk[call.file] = <<>>
    /\ call.step = "write" /\ (call.phase = "send" \/ requests # <<>>) =>
         disk[call.file] = Prefix(text[call.file], call.next - 1)
    /\ call.step = "write" /\ replies # <<>> /\ replies[1].kind = "ok" =>
         disk[call.file] = Prefix(text[call.file], call.next)
    /\ call.step = "close" /\ call.ok => disk[call.file] = text[call.file]

LoadInv ==
  call.kind = "load" =>
    /\ call.step = "open" /\ replies # <<>> /\ replies[1].kind = "handle" => disk[call.file] # Missing
    /\ call.step = "read" =>
         /\ disk[call.file] \in Texts /\ call.next - 1 <= Len(disk[call.file])
         /\ call.data = Prefix(disk[call.file], call.next - 1)
    /\ call.step = "read" /\ replies # <<>> /\ replies[1].kind = "data" =>
         call.next <= Len(disk[call.file]) /\ replies[1].data = disk[call.file][call.next]
    /\ call.step = "read" /\ replies # <<>> /\ replies[1].kind = "eof" =>
         call.next > Len(disk[call.file])
    /\ call.step = "close" /\ call.ok => disk[call.file] = call.data

FtpInv ==
  TypeInv /\ CallInv /\ WireInv /\ HandleInv /\ SaveInv /\ LoadInv /\ TransfersWhole

-----------------------------------------------------------------------------
(* Prefixes of a text. *)
LEMMA PrefixFacts ==
  ASSUME NEW S, NEW s \in Seq(S)
  PROVE  /\ Prefix(s, 0) = <<>>
         /\ Prefix(s, Len(s)) = s
         /\ \A n \in 0..(Len(s) - 1) : Prefix(s, n + 1) = Append(Prefix(s, n), s[n + 1])
<1>1. Prefix(s, 0) = <<>>
  BY DEF Prefix
<1>2. Prefix(s, Len(s)) = s
  BY DEF Prefix
<1>3. ASSUME NEW n \in 0..(Len(s) - 1) PROVE Prefix(s, n + 1) = Append(Prefix(s, n), s[n + 1])
  <2>1. Prefix(s, n) \in Seq(S) /\ Len(Prefix(s, n)) = n
    BY DEF Prefix
  <2>2. Prefix(s, n + 1) \in Seq(S) /\ Len(Prefix(s, n + 1)) = n + 1
    BY DEF Prefix
  <2>3. s[n + 1] \in S
    OBVIOUS
  <2>4. ASSUME NEW i \in 1..(n + 1) PROVE Prefix(s, n + 1)[i] = Append(Prefix(s, n), s[n + 1])[i]
    BY <2>1 DEF Prefix
  <2> HIDE DEF Prefix
  <2> QED BY <2>1, <2>2, <2>3, <2>4
<1> QED BY <1>1, <1>2, <1>3

(* A chunk written behind a prefix. *)
LEMMA PutFacts ==
  ASSUME NEW S, NEW s \in Seq(S), NEW n \in 1..Len(s)
  PROVE  Put(Prefix(s, n - 1), n, s[n]) = Prefix(s, n)
<1>1. Len(Prefix(s, n - 1)) = n - 1
  BY DEF Prefix
<1> QED BY <1>1 DEF Put, Prefix

LEMMA PutTypes ==
  ASSUME Bounds, NEW s \in Texts, NEW n \in Nat \ {0}, NEW c \in Value
  PROVE  Put(s, n, c) \in Texts
<1>1. 0 \in Value
  BY DEF Bounds, Value
<1> DEFINE m == IF n > Len(s) THEN n ELSE Len(s)
<1>2. m \in Nat
  BY DEF Texts
<1>3. ASSUME NEW i \in 1..m PROVE (IF i = n THEN c ELSE IF i <= Len(s) THEN s[i] ELSE 0) \in Value
  BY <1>1 DEF Texts
<1> HIDE DEF m
<1>4. [i \in 1..m |-> IF i = n THEN c ELSE IF i <= Len(s) THEN s[i] ELSE 0] \in Seq(Value)
  BY <1>2, <1>3
<1> QED BY <1>4 DEF Put, Texts, m

-----------------------------------------------------------------------------
LEMMA InitInv == Bounds /\ FtpInit => FtpInv
<1> SUFFICES ASSUME Bounds, FtpInit PROVE FtpInv
  OBVIOUS
<1>1. TypeInv
  <2>1. <<>> \in Texts /\ requests \in Seq(Requests) /\ replies \in Seq(Replies)
    BY DEF FtpInit, Texts
  <2> QED BY <2>1 DEF FtpInit, TypeInv, Bounds
<1>2. CallInv
  BY DEF FtpInit, CallInv
<1>3. WireInv /\ HandleInv
  BY DEF FtpInit, WireInv, HandleInv, Idle, NoCall, Linked
<1>4. SaveInv /\ LoadInv /\ TransfersWhole
  BY DEF FtpInit, SaveInv, LoadInv, TransfersWhole, NoCall
<1> QED BY <1>1, <1>2, <1>3, <1>4 DEF FtpInv

(* A call that is there has its type, and its file a text. *)
LEMMA InCall ==
  ASSUME FtpInv, ~Idle
  PROVE  /\ call \in Calls /\ call.kind \in Kinds /\ call.file \in Files /\ call.step \in Steps
         /\ call.phase \in Phases /\ call.next \in Nat \ {0} /\ call.id \in Nat
         /\ call.ok \in BOOLEAN /\ call.data \in Texts
         /\ text[call.file] \in Texts /\ outcome[call.file] = "busy"
<1>1. call \in Calls /\ outcome[call.file] = "busy"
  BY DEF FtpInv, CallInv, Idle, NoCall
<1> QED BY <1>1 DEF Calls, FtpInv, TypeInv

(* Handles are kept while nothing is on the wire, and no number is given     *)
(* twice.                                                                  *)
LEMMA HandlesKept ==
  ASSUME FtpInv, opened' = opened, requests' = <<>>, msgId' \in {msgId, msgId + 1},
         link' = "up" => link = "up", ~Closing', link = "up" => Held' \subseteq opened
  PROVE  HandleInv'
<1> SUFFICES ASSUME link' = "up" PROVE HandleInv'
  BY DEF HandleInv
<1>1. link = "up" /\ Numbered /\ msgId \in Nat /\ \A o \in opened : o.id \in Nat
  BY DEF FtpInv, HandleInv, TypeInv
<1>2. Numbered'
  BY <1>1 DEF Numbered
<1> QED BY <1>1, <1>2 DEF HandleInv

(* A call that returns. *)
LEMMA Returns ==
  ASSUME FtpInv, ~Idle, NEW ok \in BOOLEAN, Return(ok),
         requests' = <<>>, replies' = <<>>, msgId' \in {msgId, msgId + 1},
         link' = link \/ (link = "none" /\ link' = "connecting"),
         UNCHANGED <<disk, opened, counts>>,
         ok => disk[call.file] = IF call.kind = "load" THEN call.data ELSE text[call.file]
  PROVE  FtpInv'
<1>1. call' = NoCall /\ Idle'
  BY DEF Return, NoCall, Idle
<1>2. TypeInv'
  <2> msgId' \in Nat
    BY DEF FtpInv, TypeInv
  <2>1. text' \in [Files -> Texts]
    BY InCall DEF Return, FtpInv, TypeInv
  <2>2. outcome' \in [Files -> {"new", "edited", "busy", "saved", "loaded", "failed"}]
    BY InCall DEF Return, FtpInv, TypeInv
  <2>3. requests' \in Seq(Requests) /\ replies' \in Seq(Replies)
    OBVIOUS
  <2> QED BY <2>1, <2>2, <2>3 DEF FtpInv, TypeInv, counts
<1>3. CallInv'
  BY <1>1 DEF CallInv
<1>4. WireInv'
  BY <1>1 DEF WireInv, FtpInv, Linked
<1>5. HandleInv'
  BY <1>1, HandlesKept DEF Held, Closing
<1>6. SaveInv' /\ LoadInv'
  BY <1>1 DEF SaveInv, LoadInv, NoCall
<1>7. TransfersWhole'
  <2> SUFFICES ASSUME NEW f \in Files, outcome'[f] \in {"saved", "loaded"} PROVE disk'[f] = text'[f]
    BY DEF TransfersWhole
  <2>1. CASE f # call.file
    <3>1. outcome'[f] = outcome[f] /\ text'[f] = text[f]
      BY <2>1 DEF Return, FtpInv, TypeInv
    <3> QED BY <3>1 DEF FtpInv, TransfersWhole
  <2>2. CASE f = call.file
    <3>1. ok
      <4>1. outcome' = [outcome EXCEPT ![call.file] =
                          IF ~ok THEN "failed" ELSE IF call.kind = "save" THEN "saved" ELSE "loaded"]
        BY DEF Return
      <4>2. f \in DOMAIN outcome
        BY DEF FtpInv, TypeInv
      <4>3. ~ok => outcome'[f] = "failed"
        BY <2>2, <4>1, <4>2
      <4> QED BY <4>3
    <3>2. text'[f] = IF call.kind = "load" THEN call.data ELSE text[f]
      BY <2>2, <3>1 DEF Return, FtpInv, TypeInv
    <3> QED BY <2>2, <3>1, <3>2
  <2> QED BY <2>1, <2>2
<1> QED BY <1>2, <1>3, <1>4, <1>5, <1>6, <1>7 DEF FtpInv

(* A call that goes on, with nothing on the wire. *)
LEMMA GoesOn ==
  ASSUME FtpInv, ~Idle, NEW c \in Calls, Proceed(c),
         c.kind = call.kind, c.file = call.file, c.phase # "answer",
         requests' = <<>>, replies' = <<>>, msgId' \in {msgId, msgId + 1},
         link' = link \/ (link = "none" /\ link' = "connecting"),
         UNCHANGED <<disk, opened, counts>>,
         CallInv', Linked \/ c.phase = "connect", link = "up" => Held' \subseteq opened,
         SaveInv', LoadInv'
  PROVE  FtpInv'
<1>1. call' = c /\ UNCHANGED <<text, outcome>>
  BY DEF Proceed
<1>2. TypeInv'
  <2>1. requests' \in Seq(Requests) /\ replies' \in Seq(Replies)
    OBVIOUS
  <2>2. msgId' \in Nat
    BY DEF FtpInv, TypeInv
  <2> QED BY <1>1, <2>1, <2>2 DEF FtpInv, TypeInv, counts
<1>3. WireInv'
  BY <1>1 DEF WireInv, FtpInv, Linked
<1>4. HandleInv'
  BY <1>1, HandlesKept DEF Closing
<1>5. TransfersWhole'
  BY <1>1 DEF FtpInv, TransfersWhole
<1> QED BY <1>2, <1>3, <1>4, <1>5 DEF FtpInv

(* From the removal to the opening. *)
LEMMA ToOpen ==
  ASSUME FtpInv, At("send") \/ At("answer") \/ At("connect"), call.step = "remove", GotoOpen,
         requests' = <<>>, replies' = <<>>, msgId' \in {msgId, msgId + 1},
         link' = link \/ (link = "none" /\ link' = "connecting"),
         UNCHANGED <<disk, opened, counts>>
  PROVE  FtpInv'
<1>1. ~Idle /\ call.kind = "save"
  <2>1. ~Idle
    BY DEF At
  <2>2. call # NoCall
    BY <2>1 DEF Idle, NoCall
  <2> QED BY <2>1, <2>2 DEF FtpInv, CallInv
<1>3. CASE text[call.file] = <<>>
  BY <1>1, <1>3, Returns DEF GotoOpen
<1>4. CASE text[call.file] # <<>>
  <2> DEFINE c == [call EXCEPT !.step = "open", !.phase = "connect"]
  <2>1. Proceed(c)
    BY <1>4 DEF GotoOpen
  <2>2. c \in Calls /\ c.kind = "save" /\ c.file = call.file /\ c.phase = "connect" /\ c.step = "open"
        /\ c.next = call.next /\ c.data = call.data
    BY <1>1, InCall DEF Calls, Steps, Phases
  <2>3. call' = c /\ UNCHANGED <<text, outcome>>
    BY <2>1 DEF Proceed
  <2> HIDE DEF c
  <2>4. CallInv'
    <3>1. call.next = 1 /\ call.data = <<>> /\ outcome[call.file] = "busy"
      BY <1>1 DEF FtpInv, CallInv, NoCall, Idle
    <3> QED BY <2>2, <2>3, <3>1 DEF CallInv
  <2>5. Held' = {}
    BY <2>2, <2>3 DEF Held
  <2>6. SaveInv' /\ LoadInv'
    BY <2>2, <2>3 DEF SaveInv, LoadInv
  <2> QED BY <1>1, <2>1, <2>2, <2>4, <2>5, <2>6, GoesOn
<1> QED BY <1>3, <1>4

(* A call that fails in between. *)
LEMMA Fails ==
  ASSUME FtpInv, At("send") \/ At("answer") \/ At("connect"), Fail,
         requests' = <<>>, replies' = <<>>, msgId' \in {msgId, msgId + 1},
         link' = link \/ (link = "none" /\ link' = "connecting"), UNCHANGED <<disk, opened, counts>>
  PROVE  FtpInv'
<1>1. CASE call.step = "remove"
  BY <1>1, ToOpen DEF Fail
<1>2. CASE call.step # "remove"
  BY <1>2, Returns DEF Fail, At
<1> QED BY <1>1, <1>2

-----------------------------------------------------------------------------
(* The user and the connection. *)
LEMMA EditStep == ASSUME FtpInv, NEW f \in Files, Edit(f), Bounds PROVE FtpInv'
<1>1. Idle /\ Idle' /\ call' = call /\ UNCHANGED <<host, wire>>
  BY DEF Edit, Idle
<1>2. TypeInv'
  <2>1. edits + 1 \in Value /\ edits' = edits + 1
    BY DEF Edit, Value, Bounds, FtpInv, TypeInv
  <2>2. text' \in [Files -> Texts]
    <3>1. PICK size \in {0, Chunks} : text' = [text EXCEPT ![f] = [n \in 1..size |-> edits + 1]]
      BY DEF Edit
    <3>2. [n \in 1..size |-> edits + 1] \in Texts
      BY <2>1 DEF Texts, Bounds
    <3> QED BY <3>1, <3>2 DEF FtpInv, TypeInv
  <2>3. outcome' \in [Files -> {"new", "edited", "busy", "saved", "loaded", "failed"}]
    BY DEF Edit, FtpInv, TypeInv
  <2> QED BY <1>1, <2>1, <2>2, <2>3 DEF FtpInv, TypeInv, Edit, host, wire, Value
<1>3. call' = NoCall
  BY <1>1 DEF FtpInv, CallInv, Idle, Calls, Kinds
<1>4. CallInv' /\ SaveInv' /\ LoadInv'
  BY <1>3 DEF CallInv, SaveInv, LoadInv, NoCall
<1>5. WireInv' /\ HandleInv'
  BY <1>1 DEF FtpInv, WireInv, HandleInv, Numbered, Closing, Held, At, Linked, host, wire
<1>6. TransfersWhole'
  <2> SUFFICES ASSUME NEW g \in Files, outcome'[g] \in {"saved", "loaded"} PROVE disk'[g] = text'[g]
    BY DEF TransfersWhole
  <2>1. outcome' = [outcome EXCEPT ![f] = "edited"] /\ f \in DOMAIN outcome
    BY DEF Edit, FtpInv, TypeInv
  <2>2. g # f
    BY <2>1
  <2>3. outcome'[g] = outcome[g] /\ text'[g] = text[g] /\ disk'[g] = disk[g]
    BY <1>1, <2>2 DEF Edit, host, FtpInv, TypeInv
  <2> QED BY <2>3 DEF FtpInv, TransfersWhole
<1> QED BY <1>2, <1>4, <1>5, <1>6 DEF FtpInv

(* Nothing is on the wire when no call is in progress. *)
LEMMA QuietWhenIdle ==
  ASSUME FtpInv, Idle PROVE call = NoCall /\ requests = <<>> /\ replies = <<>>
BY DEF FtpInv, CallInv, Calls, Kinds, WireInv, At, Idle

LEMMA BeginStep ==
  ASSUME FtpInv, NEW f \in Files, NEW kind \in Kinds, Begin(kind, f), Bounds PROVE FtpInv'
<1>1. Idle /\ call' = Called(kind, f) /\ UNCHANGED <<host, wire, text>>
  BY DEF Begin
<1>2. outcome' = [outcome EXCEPT ![f] = "busy"] /\ f \in DOMAIN outcome
  BY DEF Begin, FtpInv, TypeInv
<1>3. TypeInv'
  <2>1. calls' \in 0..MaxCalls
    BY DEF Begin, FtpInv, TypeInv, Bounds
  <2> QED BY <1>1, <1>2, <2>1 DEF Begin, FtpInv, TypeInv, host, wire
<1>4. call'.kind = kind /\ call'.file = f /\ call'.phase = "connect" /\ call'.next = 1
      /\ call'.id = 0 /\ call'.ok = TRUE /\ call'.data = <<>> /\ call'.step \in {"remove", "open"}
      /\ (kind = "load" => call'.step = "open") /\ call' \in Calls
  <2>1. <<>> \in Texts
    BY DEF Texts
  <2> QED BY <1>1, <2>1 DEF Called, Calls, Kinds, Steps, Phases
<1>5. CallInv'
  BY <1>2, <1>4 DEF CallInv, Kinds
<1>6. WireInv' /\ HandleInv'
  BY <1>1, <1>4, QuietWhenIdle
     DEF FtpInv, WireInv, HandleInv, Numbered, Closing, Held, Linked, host, wire
<1>7. SaveInv' /\ LoadInv'
  BY <1>1, <1>4, QuietWhenIdle DEF SaveInv, LoadInv, wire
<1>8. TransfersWhole'
  BY <1>1, <1>2 DEF FtpInv, TransfersWhole, host
<1> QED BY <1>3, <1>5, <1>6, <1>7, <1>8 DEF FtpInv

LEMMA RestartStep == ASSUME FtpInv, Restart, Bounds PROVE FtpInv'
<1>1. call' = NoCall /\ Idle' /\ requests' = <<>> /\ replies' = <<>>
  BY QuietWhenIdle DEF Restart, Idle
<1>2. TypeInv'
  <2>1. requests' \in Seq(Requests) /\ replies' \in Seq(Replies) /\ starts' \in 0..MaxStarts
    BY <1>1 DEF Restart, FtpInv, TypeInv, Bounds
  <2> QED BY <1>1, <2>1 DEF Restart, FtpInv, TypeInv
<1>3. CallInv' /\ SaveInv' /\ LoadInv'
  BY <1>1 DEF CallInv, SaveInv, LoadInv, NoCall
<1>4. WireInv' /\ HandleInv'
  BY <1>1 DEF Restart, WireInv, HandleInv, Held
<1>5. TransfersWhole'
  BY DEF Restart, FtpInv, TransfersWhole
<1> QED BY <1>2, <1>3, <1>4, <1>5 DEF FtpInv

LEMMA ConnectsStep == ASSUME FtpInv, Connects PROVE FtpInv'
<1>1. UNCHANGED <<host, requests, replies, msgId, call, text, outcome, counts>>
      /\ link = "connecting" /\ link' \in {"up", "off"}
  BY DEF Connects
<1>2. TypeInv'
  BY <1>1 DEF FtpInv, TypeInv, host, counts
<1>3. CallInv'
  BY <1>1 DEF FtpInv, CallInv
<1>4. WireInv' /\ HandleInv'
  BY <1>1 DEF FtpInv, WireInv, HandleInv, Numbered, Closing, Held, Idle, At, Linked, host
<1>5. SaveInv' /\ LoadInv' /\ TransfersWhole'
  BY <1>1 DEF FtpInv, SaveInv, LoadInv, TransfersWhole, host
<1> QED BY <1>2, <1>3, <1>4, <1>5 DEF FtpInv

LEMMA LoseStep == ASSUME FtpInv, Lose PROVE FtpInv'
<1>1. UNCHANGED <<host, msgId, call, text, outcome, counts>> /\ link = "up" /\ link' = "lost"
      /\ requests' = <<>>
  BY DEF Lose
<1>2. replies' = replies \/ replies' = <<>>
  <2>1. PICK n \in 0..Len(replies) : replies' = SubSeq(replies, 1, n)
    BY DEF Lose
  <2>2. replies \in Seq(Replies) /\ Len(replies) \in {0, 1}
    BY DEF FtpInv, TypeInv, WireInv
  <2>3. CASE n = 0
    BY <2>1, <2>2, <2>3
  <2>4. CASE n = Len(replies)
    BY <2>1, <2>2, <2>4
  <2> QED BY <2>1, <2>2, <2>3, <2>4
<1>3. TypeInv'
  <2>1. requests' \in Seq(Requests)
    BY <1>1
  <2>2. replies \in Seq(Replies) /\ <<>> \in Seq(Replies)
    BY DEF FtpInv, TypeInv
  <2>3. replies' \in Seq(Replies)
    BY <1>2, <2>2
  <2> QED BY <1>1, <2>1, <2>3 DEF FtpInv, TypeInv, host, counts
<1>4. CallInv'
  BY <1>1 DEF FtpInv, CallInv
<1>5. WireInv' /\ HandleInv'
  BY <1>1, <1>2 DEF FtpInv, WireInv, HandleInv, Idle, At, Linked
<1>6. SaveInv' /\ LoadInv' /\ TransfersWhole'
  BY <1>1, <1>2 DEF FtpInv, SaveInv, LoadInv, TransfersWhole, host
<1> QED BY <1>3, <1>4, <1>5, <1>6 DEF FtpInv

-----------------------------------------------------------------------------
(* The GUI thread. *)
LEMMA BetweenRequests ==
  ASSUME FtpInv, At("connect") \/ At("send")
  PROVE  ~Idle /\ requests = <<>> /\ replies = <<>> /\ msgId \in Nat
<1>1. ~Idle /\ ~At("answer")
  BY DEF At
<1> QED BY <1>1 DEF FtpInv, WireInv, TypeInv

LEMMA WaitForConnectionStep == ASSUME FtpInv, WaitForConnection PROVE FtpInv'
<1>1. At("connect") /\ ~Idle /\ requests' = <<>> /\ replies' = <<>> /\ msgId' \in {msgId, msgId + 1}
      /\ UNCHANGED <<disk, opened, counts>>
      /\ (link' = link \/ (link = "none" /\ link' = "connecting"))
  BY BetweenRequests DEF WaitForConnection, host
<1>3. CASE Return(FALSE)
  BY <1>1, <1>3, Returns
<1>4. CASE /\ ~(call.kind = "save" /\ text[call.file] = <<>> /\ call.step = "open")
           /\ link \in {"up", "lost"} /\ Proceed([call EXCEPT !.phase = "send"])
  <2> DEFINE c == [call EXCEPT !.phase = "send"]
  <2>1. c \in Calls /\ c.kind = call.kind /\ c.file = call.file /\ c.phase = "send"
        /\ c.step = call.step /\ c.next = call.next /\ c.data = call.data
    BY <1>1, InCall DEF Calls, Phases
  <2>2. call' = c /\ UNCHANGED <<text, outcome>> /\ Proceed(c)
    BY <1>4 DEF Proceed
  <2> HIDE DEF c
  <2>3. call # NoCall /\ call.step \in {"remove", "open"}
    BY <1>1 DEF FtpInv, CallInv, NoCall, Idle, At
  <2>4. CallInv'
    BY <1>4, <2>1, <2>2, <2>3 DEF FtpInv, CallInv
  <2>5. Held' = {}
    BY <1>1, <2>1, <2>2, <2>3 DEF Held
  <2>6. SaveInv' /\ LoadInv'
    BY <1>1, <2>1, <2>2, <2>3 DEF SaveInv, LoadInv
  <2> QED BY <1>1, <1>4, <2>1, <2>2, <2>4, <2>5, <2>6, GoesOn DEF Linked
<1>5. CASE Fail
  BY <1>1, <1>5, Fails
<1> QED BY <1>3, <1>4, <1>5 DEF WaitForConnection

LEMMA SendStep == ASSUME FtpInv, WriteData, Bounds PROVE FtpInv'
<1>1. At("send") /\ ~Idle /\ requests = <<>> /\ replies = <<>> /\ msgId \in Nat
  BY BetweenRequests DEF WriteData
<1>2. UNCHANGED <<disk, opened, replies, link, counts, text, outcome>> /\ msgId' = msgId + 1
      /\ call' = [call EXCEPT !.phase = "answer"]
  BY DEF WriteData, Proceed, host
<1>3. call' \in Calls /\ call'.kind = call.kind /\ call'.file = call.file /\ call'.phase = "answer"
      /\ call'.step = call.step /\ call'.next = call.next /\ call'.data = call.data
      /\ call'.id = call.id /\ call'.ok = call.ok
  BY <1>1, <1>2, InCall DEF Calls, Phases
<1>4. link = "up" \/ link = "lost"
  BY <1>1 DEF At, FtpInv, WireInv, Linked
<1>5. call # NoCall
  BY <1>1 DEF NoCall, Idle
<1>6. Request = Current'
  BY <1>2, <1>3 DEF Request, Current
<1>7. Request \in Requests
  <2>1. (IF call.step = "write" THEN text[call.file][call.next] ELSE 0) \in Value
    <3>1. CASE call.step = "write"
      <4>1. call.next \in 1..Len(text[call.file]) /\ text[call.file] \in Seq(Value)
        BY <1>1, <1>5, <3>1, InCall DEF FtpInv, CallInv, Texts
      <4> QED BY <3>1, <4>1
    <3>2. CASE call.step # "write"
      BY <3>2 DEF Bounds, Value
    <3> QED BY <3>1, <3>2
  <2> QED BY <1>1, <2>1, InCall DEF Request, Requests
<1>8. IF link = "up" THEN requests' = <<Current'>> ELSE requests' = <<>>
  BY <1>1, <1>4, <1>6 DEF WriteData
<1>9. TypeInv'
  <2>1. requests' \in Seq(Requests)
    <3>1. Current' \in Requests
      BY <1>6, <1>7
    <3>2. \A q \in Requests : <<q>> \in Seq(Requests)
      OBVIOUS
    <3>3. requests' = <<Current'>> \/ requests' = <<>>
      BY <1>8
    <3>4. <<>> \in Seq(Requests)
      OBVIOUS
    <3> QED BY <3>1, <3>2, <3>3, <3>4
  <2> QED BY <1>1, <1>2, <2>1 DEF FtpInv, TypeInv, counts
<1>10. CallInv'
  BY <1>1, <1>2, <1>3, <1>5 DEF FtpInv, CallInv, At
<1>11. WireInv'
  <2>1. At("answer")' /\ Linked'
    BY <1>2, <1>3, <1>4, <1>1, InCall DEF At, Idle, Linked
  <2> QED BY <1>1, <1>2, <1>8, <2>1 DEF WireInv
<1>12. HandleInv'
  <2> SUFFICES ASSUME link = "up" PROVE HandleInv'
    BY <1>2 DEF HandleInv
  <2>1. Held \subseteq opened /\ Numbered /\ opened \subseteq [id : Nat, file : Files]
    BY DEF FtpInv, HandleInv, TypeInv
  <2>2. Held' \subseteq opened'
    BY <1>1, <1>2, <1>3, <1>8, <2>1 DEF Held, At, Idle
  <2>3. Numbered'
    BY <1>1, <1>2, <2>1 DEF Numbered
  <2>4. requests' # <<>>
    BY <1>8
  <2> QED BY <2>2, <2>3, <2>4 DEF HandleInv
<1>13. SaveInv' /\ LoadInv'
  BY <1>1, <1>2, <1>3, <1>8 DEF FtpInv, SaveInv, LoadInv, At
<1>14. TransfersWhole'
  BY <1>2 DEF FtpInv, TransfersWhole
<1> QED BY <1>9, <1>10, <1>11, <1>12, <1>13, <1>14 DEF FtpInv

LEMMA SendFailsStep == ASSUME FtpInv, WriteFails, Bounds PROVE FtpInv'
<1>1. At("send") /\ Fail /\ UNCHANGED <<disk, opened, link, counts>>
      /\ requests' = <<>> /\ replies' = <<>> /\ msgId' \in {msgId, msgId + 1}
  BY BetweenRequests DEF WriteFails, host, Bounds
<1> QED BY <1>1, Fails

LEMMA ReadFailsStep == ASSUME FtpInv, ReadFails, Bounds PROVE FtpInv'
<1>1. At("answer") /\ link = "lost" /\ Fail /\ UNCHANGED <<disk, opened, link, counts>>
      /\ requests' = <<>> /\ replies' = <<>> /\ msgId' \in {msgId, msgId + 1}
  BY DEF ReadFails, Bounds, host, wire, FtpInv, WireInv, TypeInv
<1> QED BY <1>1, Fails

(* An answer: it is the only one, and that to the last request. *)
LEMMA Received ==
  ASSUME FtpInv, NEW r, Receive(r)
  PROVE  /\ replies # <<>> /\ r = replies[1] /\ r \in Replies /\ r.id = msgId /\ At("answer") /\ ~Idle
         /\ requests = <<>> /\ requests' = <<>> /\ replies' = <<>> /\ msgId' \in {msgId, msgId + 1}
         /\ Linked /\ link' = link /\ UNCHANGED <<disk, opened, counts>>
<1>1. replies # <<>> /\ r = replies[1] /\ Len(replies) = 1 /\ replies[1].id = msgId /\ At("answer")
      /\ replies \in Seq(Replies)
  BY DEF Receive, FtpInv, WireInv, TypeInv
<1>2. requests = <<>>
  BY <1>1 DEF FtpInv, WireInv
<1>3. replies' = <<>>
  <2>1. PICK n \in 1..Len(replies) : replies' = SubSeq(replies, n + 1, Len(replies))
    BY DEF Receive
  <2> QED BY <1>1, <2>1
<1>4. ~Idle /\ Linked
  BY <1>1 DEF At, FtpInv, WireInv
<1> QED BY <1>1, <1>2, <1>3, <1>4 DEF Receive, host, FtpInv, TypeInv

LEMMA RemovedStep == ASSUME FtpInv, Removed PROVE FtpInv'
<1>1. PICK r \in {replies[n] : n \in DOMAIN replies} : Waits("remove") /\ Receive(r) /\ GotoOpen
  BY DEF Removed
<1> QED BY <1>1, Received, ToOpen DEF Waits

LEMMA OpenReplyStep == ASSUME FtpInv, OpenReply PROVE FtpInv'
<1>1. PICK r \in {replies[n] : n \in DOMAIN replies} :
        /\ Waits("open") /\ Receive(r)
        /\ \/ Return(FALSE)
           \/ r.kind = "handle"
              /\ Proceed([call EXCEPT !.step = IF call.kind = "save" THEN "write" ELSE "read",
                                      !.phase = "send", !.id = r.id])
  BY DEF OpenReply
<1>2. /\ replies # <<>> /\ r = replies[1] /\ r.id \in Nat /\ call.phase = "answer" /\ ~Idle
      /\ requests' = <<>> /\ replies' = <<>> /\ msgId' \in {msgId, msgId + 1}
      /\ Linked /\ link' = link /\ UNCHANGED <<disk, opened, counts>> /\ call.step = "open"
  BY <1>1, Received DEF Waits, At, Replies
<1>3. CASE Return(FALSE)
  BY <1>2, <1>3, Returns
<1>4. CASE ~Return(FALSE)
  <2> r.kind = "handle"
    BY <1>1, <1>4
  <2> DEFINE c == [call EXCEPT !.step = IF call.kind = "save" THEN "write" ELSE "read",
                               !.phase = "send", !.id = r.id]
  <2>1. c \in Calls /\ c.kind = call.kind /\ c.file = call.file /\ c.phase = "send"
        /\ c.step = (IF call.kind = "save" THEN "write" ELSE "read") /\ c.next = call.next
        /\ c.data = call.data /\ c.id = r.id
    BY <1>2, InCall DEF Calls, Phases, Steps
  <2>2. Proceed(c) /\ call' = c /\ UNCHANGED <<text, outcome>>
    BY <1>1, <1>4 DEF Proceed
  <2> HIDE DEF c
  <2>3. /\ call.next = 1 /\ call.data = <<>> /\ outcome[call.file] = "busy"
        /\ call.kind = "save" => text[call.file] # <<>>
    <3>1. call # NoCall
      BY <1>2 DEF NoCall, Idle
    <3> QED BY <1>2, <3>1 DEF FtpInv, CallInv
  <2>4. text[call.file] \in Texts /\ (disk[call.file] = Missing \/ disk[call.file] \in Texts)
        /\ call.kind \in Kinds
    BY <1>2, InCall DEF FtpInv, TypeInv
  <2>5. CallInv'
    <3>1. call.kind = "save" => 1 <= Len(text[call.file])
      <4>1. \A s \in Seq(Value) : s # <<>> => 1 <= Len(s)
        OBVIOUS
      <4> QED BY <2>3, <2>4, <4>1 DEF Texts
    <3> QED BY <2>1, <2>2, <2>3, <2>4, <3>1 DEF CallInv, Kinds
  <2>6. link = "up" => Held' \subseteq opened
    <3>1. ~Idle' /\ c.step \notin {"remove", "open", "close"}
      BY <1>2, <2>1, <2>2 DEF Idle
    <3>2. link = "up" => [id |-> r.id, file |-> call.file] \in opened
      BY <1>2, <1>4 DEF FtpInv, HandleInv, Held
    <3> QED BY <1>2, <2>1, <2>2, <3>1, <3>2 DEF Held
  <2>7. SaveInv'
    <3>1. call.kind = "save" => disk[call.file] = <<>>
      BY <1>2, <1>4 DEF FtpInv, SaveInv
    <3>2. Prefix(text[call.file], 0) = <<>>
      BY DEF Prefix
    <3> QED BY <1>2, <2>1, <2>2, <2>3, <3>1, <3>2 DEF SaveInv
  <2>8. LoadInv'
    <3>1. call.kind = "load" => disk[call.file] \in Texts
      BY <1>2, <1>4, InCall DEF FtpInv, LoadInv, TypeInv
    <3>2. Prefix(disk[call.file], 0) = <<>>
      BY DEF Prefix
    <3>3. call.kind = "load" => 0 <= Len(disk[call.file])
      BY <3>1 DEF Texts
    <3> QED BY <1>2, <2>1, <2>2, <2>3, <3>1, <3>2, <3>3 DEF LoadInv
  <2> QED BY <1>2, <2>1, <2>2, <2>5, <2>6, <2>7, <2>8, GoesOn
<1> QED BY <1>3, <1>4

(* From the transfer to the close. *)
LEMMA ToClose ==
  ASSUME FtpInv, At("answer"), call.step \in {"write", "read"}, NEW ok \in BOOLEAN, GotoClose(ok),
         requests' = <<>>, replies' = <<>>, msgId' \in {msgId, msgId + 1}, Linked, link' = link,
         UNCHANGED <<disk, opened, counts>>,
         ok => disk[call.file] = IF call.kind = "load" THEN call.data ELSE text[call.file]
  PROVE  FtpInv'
<1> DEFINE c == [call EXCEPT !.step = "close", !.phase = "send", !.ok = ok]
<1>1. ~Idle /\ call.phase = "answer"
  BY DEF At
<1>2. c \in Calls /\ c.kind = call.kind /\ c.file = call.file /\ c.phase = "send"
      /\ c.step = "close" /\ c.data = call.data /\ c.id = call.id /\ c.ok = ok
  BY <1>1, InCall DEF Calls, Phases, Steps
<1>3. Proceed(c) /\ call' = c /\ UNCHANGED <<text, outcome>>
  BY DEF Proceed, GotoClose
<1> HIDE DEF c
<1>4. CallInv'
  BY <1>1, <1>2, <1>3, InCall DEF CallInv
<1>5. link = "up" => Held' \subseteq opened
  BY <1>1, <1>2, <1>3 DEF FtpInv, HandleInv, Held, Idle
<1>6. SaveInv' /\ LoadInv'
  BY <1>1, <1>2, <1>3 DEF SaveInv, LoadInv
<1> QED BY <1>1, <1>2, <1>3, <1>4, <1>5, <1>6, GoesOn

LEMMA WriteReplyStep == ASSUME FtpInv, WriteReply PROVE FtpInv'
<1>1. PICK r \in {replies[n] : n \in DOMAIN replies} :
        /\ Waits("write") /\ Receive(r)
        /\ IF r.kind # "ok" THEN GotoClose(FALSE)
           ELSE IF call.next < Len(text[call.file])
           THEN Proceed([call EXCEPT !.next = @ + 1, !.phase = "send"])
           ELSE GotoClose(TRUE)
  BY DEF WriteReply
<1>2. /\ replies # <<>> /\ r = replies[1] /\ At("answer") /\ call.phase = "answer" /\ ~Idle
      /\ requests' = <<>> /\ replies' = <<>> /\ msgId' \in {msgId, msgId + 1}
      /\ Linked /\ link' = link /\ UNCHANGED <<disk, opened, counts>> /\ call.step = "write"
  BY <1>1, Received DEF Waits, At
<1>3. /\ call.kind = "save" /\ call.next \in 1..Len(text[call.file])
      /\ text[call.file] \in Seq(Value) /\ outcome[call.file] = "busy"
  <2>1. call # NoCall
    BY <1>2 DEF NoCall, Idle
  <2> QED BY <1>2, <2>1, InCall DEF FtpInv, CallInv, Texts
<1>4. CASE r.kind # "ok"
  BY <1>1, <1>2, <1>4, ToClose
<1>5. r.kind = "ok" => disk[call.file] = Prefix(text[call.file], call.next)
  BY <1>2, <1>3 DEF FtpInv, SaveInv
<1>6. CASE r.kind = "ok" /\ ~(call.next < Len(text[call.file]))
  <2>1. call.next = Len(text[call.file])
    BY <1>3, <1>6
  <2>2. disk[call.file] = text[call.file]
    BY <1>3, <1>5, <1>6, <2>1, PrefixFacts
  <2> QED BY <1>1, <1>2, <1>3, <1>6, <2>2, ToClose
<1>7. CASE r.kind = "ok" /\ call.next < Len(text[call.file])
  <2> DEFINE c == [call EXCEPT !.next = @ + 1, !.phase = "send"]
  <2>1. c \in Calls /\ c.kind = "save" /\ c.file = call.file /\ c.phase = "send"
        /\ c.step = "write" /\ c.next = call.next + 1 /\ c.id = call.id
    <3>1. call.next + 1 \in Nat \ {0} /\ call \in Calls /\ "send" \in Phases
      BY <1>2, InCall DEF Phases
    <3> QED BY <1>2, <1>3, <3>1 DEF Calls
  <2>2. Proceed(c) /\ call' = c /\ UNCHANGED <<text, outcome>>
    BY <1>1, <1>7 DEF Proceed
  <2> HIDE DEF c
  <2>3. CallInv'
    BY <1>3, <1>7, <2>1, <2>2 DEF CallInv
  <2>4. link = "up" => Held' \subseteq opened
    BY <1>2, <2>1, <2>2 DEF FtpInv, HandleInv, Held, Idle
  <2>5. SaveInv' /\ LoadInv'
    <3>1. (call.next + 1) - 1 = call.next
      BY <1>3
    <3> QED BY <1>2, <1>5, <1>7, <2>1, <2>2, <3>1 DEF SaveInv, LoadInv
  <2> QED BY <1>2, <1>3, <2>1, <2>2, <2>3, <2>4, <2>5, GoesOn
<1> QED BY <1>4, <1>6, <1>7

LEMMA ReadReplyStep == ASSUME FtpInv, ReadReply PROVE FtpInv'
<1>1. PICK r \in {replies[n] : n \in DOMAIN replies} :
        /\ Waits("read") /\ Receive(r)
        /\ CASE r.kind = "data" -> TakeData(r)
             [] r.kind = "eof" -> GotoClose(TRUE)
             [] OTHER -> GotoClose(FALSE)
  BY DEF ReadReply
<1>2. /\ replies # <<>> /\ r = replies[1] /\ r.data \in Value
      /\ At("answer") /\ call.phase = "answer" /\ ~Idle
      /\ requests' = <<>> /\ replies' = <<>> /\ msgId' \in {msgId, msgId + 1}
      /\ Linked /\ link' = link /\ UNCHANGED <<disk, opened, counts>> /\ call.step = "read"
  BY <1>1, Received DEF Waits, At, Replies
<1>3. /\ call.kind = "load" /\ call.next \in Nat \ {0} /\ call.data \in Seq(Value)
      /\ outcome[call.file] = "busy"
  <2>1. call # NoCall
    BY <1>2 DEF NoCall, Idle
  <2> QED BY <1>2, <2>1, InCall DEF FtpInv, CallInv, Texts
<1>4. /\ disk[call.file] \in Seq(Value) /\ call.next - 1 <= Len(disk[call.file])
      /\ call.data = Prefix(disk[call.file], call.next - 1)
      /\ r.kind = "data" =>
           call.next <= Len(disk[call.file]) /\ r.data = disk[call.file][call.next]
      /\ r.kind = "eof" => call.next > Len(disk[call.file])
  BY <1>2, <1>3 DEF FtpInv, LoadInv, Texts
<1>5. CASE r.kind \notin {"data", "eof"}
  BY <1>1, <1>2, <1>5, ToClose
<1>6. CASE r.kind = "eof"
  <2>1. call.next - 1 = Len(disk[call.file])
    BY <1>3, <1>4, <1>6
  <2>2. disk[call.file] = call.data
    BY <1>4, <2>1, PrefixFacts
  <2> QED BY <1>1, <1>2, <1>3, <1>6, <2>2, ToClose
<1>7. CASE r.kind = "data" /\ Return(FALSE)
  BY <1>2, <1>7, Returns
<1>8. CASE r.kind = "data" /\ ~Return(FALSE)
  <2> DEFINE c == [call EXCEPT !.next = @ + 1, !.phase = "send", !.data = Append(@, r.data)]
  <2>1. Append(call.data, r.data) \in Texts
    BY <1>2, <1>3 DEF Texts
  <2>2. c \in Calls /\ c.kind = "load" /\ c.file = call.file /\ c.phase = "send"
        /\ c.step = "read" /\ c.next = call.next + 1 /\ c.id = call.id
        /\ c.data = Append(call.data, r.data)
    <3>1. call.next + 1 \in Nat \ {0} /\ call \in Calls /\ "send" \in Phases
      BY <1>2, InCall DEF Phases
    <3> QED BY <1>2, <1>3, <2>1, <3>1 DEF Calls
  <2>3. Proceed(c) /\ call' = c /\ UNCHANGED <<text, outcome>>
    BY <1>1, <1>8 DEF Proceed, TakeData
  <2> HIDE DEF c
  <2>4. CallInv'
    BY <1>3, <2>2, <2>3 DEF CallInv
  <2>5. link = "up" => Held' \subseteq opened
    BY <1>2, <2>2, <2>3 DEF FtpInv, HandleInv, Held, Idle
  <2>6. Append(call.data, r.data) = Prefix(disk[call.file], call.next)
    <3>1. call.next - 1 \in 0..(Len(disk[call.file]) - 1) /\ (call.next - 1) + 1 = call.next
      BY <1>3, <1>4, <1>8
    <3> QED BY <1>4, <1>8, <3>1, PrefixFacts
  <2>7. SaveInv' /\ LoadInv'
    <3>1. (call.next + 1) - 1 = call.next /\ call.next <= Len(disk[call.file])
          /\ disk[call.file] \in Texts
      BY <1>3, <1>4, <1>8 DEF Texts
    <3> QED BY <1>2, <2>2, <2>3, <2>6, <3>1 DEF SaveInv, LoadInv
  <2> QED BY <1>2, <1>3, <2>2, <2>3, <2>4, <2>5, <2>7, GoesOn
<1> QED BY <1>5, <1>6, <1>7, <1>8

(* The rest of the data does not come. *)
LEMMA ReadCutStep == ASSUME FtpInv, ReadCut, Bounds PROVE FtpInv'
<1>1. PICK r \in {replies[n] : n \in DOMAIN replies} :
        Waits("read") /\ r = Head(replies) /\ replies' = Tail(replies)
        /\ Proceed([call EXCEPT !.phase = "send"])
        /\ UNCHANGED <<host, requests, link, msgId, counts>>
  BY DEF ReadCut, Bounds
<1>2. /\ call.phase = "answer" /\ ~Idle /\ requests' = <<>> /\ replies' = <<>> /\ call.step = "read"
      /\ msgId' = msgId /\ Linked /\ link' = link /\ UNCHANGED <<disk, opened, counts>>
      /\ msgId \in Nat
  <2>1. replies # <<>> /\ Len(replies) = 1 /\ replies \in Seq(Replies) /\ At("answer")
    BY <1>1 DEF FtpInv, WireInv, TypeInv
  <2>2. Tail(replies) = <<>>
    BY <2>1
  <2>3. requests = <<>> /\ Linked /\ msgId \in Nat
    BY <2>1 DEF FtpInv, WireInv, TypeInv, At
  <2> QED BY <1>1, <2>1, <2>2, <2>3 DEF Waits, At, host
<1> DEFINE c == [call EXCEPT !.phase = "send"]
<1>3. c \in Calls /\ c.kind = call.kind /\ c.file = call.file /\ c.phase = "send" /\ c.step = "read"
      /\ c.next = call.next /\ c.data = call.data /\ c.id = call.id /\ c.ok = call.ok
  BY <1>2, InCall DEF Calls, Phases
<1>4. Proceed(c) /\ call' = c /\ UNCHANGED <<text, outcome>>
  BY <1>1 DEF Proceed
<1> HIDE DEF c
<1>5. call # NoCall
  BY <1>2 DEF NoCall, Idle
<1>6. CallInv'
  BY <1>2, <1>3, <1>4, <1>5 DEF FtpInv, CallInv
<1>7. link = "up" => Held' \subseteq opened
  BY <1>2, <1>3, <1>4 DEF FtpInv, HandleInv, Held, Idle
<1>8. SaveInv' /\ LoadInv'
  BY <1>2, <1>3, <1>4 DEF FtpInv, SaveInv, LoadInv
<1> QED BY <1>2, <1>3, <1>4, <1>6, <1>7, <1>8, GoesOn

LEMMA CloseReplyStep == ASSUME FtpInv, CloseReply PROVE FtpInv'
<1>1. PICK r \in {replies[n] : n \in DOMAIN replies} :
        Waits("close") /\ Receive(r) /\ Return(call.ok)
  BY DEF CloseReply
<1>2. /\ call.phase = "answer" /\ ~Idle /\ requests = <<>> /\ requests' = <<>> /\ replies' = <<>>
      /\ msgId' \in {msgId, msgId + 1} /\ link' = link /\ UNCHANGED <<disk, opened, counts>>
      /\ call.step = "close"
  BY <1>1, Received DEF Waits, At
<1>4. call.ok => disk[call.file] = IF call.kind = "load" THEN call.data ELSE text[call.file]
  BY <1>2, InCall DEF FtpInv, SaveInv, LoadInv, Kinds
<1> QED BY <1>1, <1>2, <1>4, InCall, Returns

-----------------------------------------------------------------------------
(* The host. *)

(* The request it takes is that of the call in progress. *)
LEMMA Serving ==
  ASSUME FtpInv, Serve
  PROVE  /\ ~Idle /\ call.phase = "answer" /\ link = "up" /\ requests' = <<>> /\ replies = <<>>
         /\ Head(requests) = Current /\ requests # <<>> /\ Held \subseteq opened
         /\ Numbered /\ \A o \in opened : o.id \in Nat /\ o.id < msgId
         /\ UNCHANGED <<link, msgId, call, text, outcome, counts>>
<1>1. requests = <<Current>> /\ replies = <<>> /\ At("answer") /\ link = "up"
  BY DEF Serve, FtpInv, WireInv
<1>2. requests' = <<>> /\ Head(requests) = Current
  BY <1>1 DEF Serve
<1>3. Held \subseteq opened /\ Numbered /\ requests # <<>>
  BY <1>1 DEF FtpInv, HandleInv
<1>4. \A o \in opened : o.id \in Nat /\ o.id < msgId
  BY <1>3 DEF Numbered, FtpInv, TypeInv
<1> QED BY <1>1, <1>2, <1>3, <1>4 DEF Serve, At

LEMMA OneHandle ==
  ASSUME NEW h, NEW f, Numbered, [id |-> h, file |-> f] \in opened PROVE FileOf(h) = {f}
<1>1. {x \in opened : x.id = h} = {[id |-> h, file |-> f]}
  BY DEF Numbered
<1>2. {o.file : o \in {[id |-> h, file |-> f]}} = {f}
  OBVIOUS
<1> QED BY <1>1, <1>2 DEF FileOf

(* What all its answers have in common. *)
LEMMA Answered ==
  ASSUME FtpInv, Serve, Bounds, NEW kind \in {"handle", "ok", "bad", "data", "eof"}, NEW data \in Value,
         Reply(kind, data), DOMAIN disk' = Files, opened' \subseteq [id : Nat, file : Files],
         \A f \in Files : disk'[f] = disk[f]
                          \/ (f = call.file /\ (disk'[f] = Missing \/ disk'[f] \in Texts)),
         HandleInv', SaveInv', LoadInv'
  PROVE  FtpInv'
<1> DEFINE a == [id |-> msgId, kind |-> kind, data |-> data]
<1>1. replies' = <<a>>
  BY Serving DEF Reply, Current
<1>2. a \in Replies /\ a.id = msgId
  BY DEF FtpInv, TypeInv, Replies
<1> HIDE DEF a
<1>3. TypeInv'
  <2>1. replies' \in Seq(Replies) /\ requests' \in Seq(Requests)
    BY <1>1, <1>2, Serving
  <2>2. \A f \in Files : disk'[f] = Missing \/ disk'[f] \in Texts
    BY DEF FtpInv, TypeInv
  <2> QED BY <2>1, <2>2, Serving DEF FtpInv, TypeInv, counts
<1>4. CallInv'
  BY Serving DEF FtpInv, CallInv
<1>5. WireInv'
  BY <1>1, <1>2, Serving DEF WireInv, At, Idle, Linked
<1>6. TransfersWhole'
  BY Serving, InCall DEF FtpInv, TransfersWhole
<1> QED BY <1>3, <1>4, <1>5, <1>6 DEF FtpInv

(* Answers that open and close nothing. *)
LEMMA SameHandles ==
  ASSUME FtpInv, Serve, UNCHANGED opened, call.step # "close",
         call.step = "open" => replies'[1].kind # "handle"
  PROVE  HandleInv'
<1>1. Held' \subseteq opened'
  BY Serving DEF Held, Idle
<1>2. Numbered'
  <2>1. msgId \in Nat
    BY DEF FtpInv, TypeInv
  <2> QED BY <2>1, Serving DEF Numbered
<1>3. ~Closing'
  BY Serving DEF Closing
<1> QED BY <1>1, <1>2, <1>3 DEF HandleInv

(* What the answers to each request may change. *)
LEMMA RefuseStep ==
  ASSUME FtpInv, Serve, Bounds, Refuse, call.step # "close" PROVE FtpInv'
<1>1. Reply("bad", 0) /\ UNCHANGED <<disk, opened>> /\ 0 \in Value
  BY DEF Refuse, host, Bounds, Value
<1>2. replies' # <<>> /\ replies'[1].kind = "bad"
  BY <1>1, Serving DEF Reply
<1>3. HandleInv'
  BY <1>1, <1>2, SameHandles
<1>4. SaveInv' /\ LoadInv'
  BY <1>1, <1>2, Serving DEF FtpInv, SaveInv, LoadInv
<1> QED BY <1>1, <1>3, <1>4, Answered DEF FtpInv, TypeInv

LEMMA OpenStep ==
  ASSUME FtpInv, Serve, Bounds, call.step = "open", ServeOpen(Head(requests)) PROVE FtpInv'
<1>1. CASE Refuse
  BY <1>1, RefuseStep
<1>2. CASE ~Refuse
  <2>1. /\ call.kind = "load" => disk[call.file] # Missing
        /\ disk' = IF call.kind = "save" THEN [disk EXCEPT ![call.file] = <<>>] ELSE disk
        /\ opened' = opened \union {[id |-> msgId, file |-> call.file]}
        /\ Reply("handle", 0)
    BY <1>2, Serving DEF ServeOpen, Current
  <2>2. replies' # <<>> /\ replies'[1].kind = "handle" /\ replies'[1].id = msgId
    BY <2>1, Serving DEF Reply, Current
  <2>3. msgId \in Nat /\ opened' \subseteq [id : Nat, file : Files]
    BY <2>1, Serving, InCall DEF FtpInv, TypeInv
  <2>4. HandleInv'
    <3>1. Held' \subseteq opened'
      BY <2>1, <2>2, Serving DEF Held, Idle
    <3>2. Numbered'
      BY <2>1, <2>3, Serving DEF Numbered
    <3>3. ~Closing'
      BY Serving DEF Closing
    <3> QED BY <3>1, <3>2, <3>3 DEF HandleInv
  <2>5. SaveInv' /\ LoadInv'
    <3>1. call.file \in DOMAIN disk
      BY Serving, InCall DEF FtpInv, TypeInv
    <3> QED BY <2>1, <3>1, Serving DEF SaveInv, LoadInv
  <2>6. /\ DOMAIN disk' = Files /\ opened' \subseteq [id : Nat, file : Files]
        /\ \A f \in Files : disk'[f] = disk[f]
                            \/ (f = call.file /\ (disk'[f] = Missing \/ disk'[f] \in Texts))
    <3>1. <<>> \in Texts
      BY DEF Texts
    <3> QED BY <2>1, <2>3, <3>1, Serving, InCall DEF FtpInv, TypeInv
  <2>7. 0 \in Value
    BY DEF Bounds, Value
  <2> QED BY <2>1, <2>4, <2>5, <2>6, <2>7, Answered
<1> QED BY <1>1, <1>2

LEMMA RemoveStep ==
  ASSUME FtpInv, Serve, Bounds, call.step = "remove", ServeRemove(Head(requests)) PROVE FtpInv'
<1>1. CASE Refuse
  BY <1>1, RefuseStep
<1>2. CASE ~Refuse
  <2>1. disk' = [disk EXCEPT ![call.file] = Missing] /\ Reply("ok", 0) /\ UNCHANGED opened
    BY <1>2, Serving DEF ServeRemove, Current
  <2>2. HandleInv'
    BY <2>1, Serving, SameHandles
  <2>3. SaveInv' /\ LoadInv'
    BY Serving DEF SaveInv, LoadInv
  <2>4. 0 \in Value
    BY DEF Bounds, Value
  <2>5. DOMAIN disk' = Files /\ opened' \subseteq [id : Nat, file : Files]
        /\ \A f \in Files : disk'[f] = disk[f]
                            \/ (f = call.file /\ (disk'[f] = Missing \/ disk'[f] \in Texts))
    BY <2>1 DEF FtpInv, TypeInv
  <2> QED BY <2>1, <2>2, <2>3, <2>4, <2>5, Answered
<1> QED BY <1>1, <1>2

LEMMA WriteStep ==
  ASSUME FtpInv, Serve, Bounds, call.step = "write", ServeWrite(Head(requests)) PROVE FtpInv'
<1>1. CASE Refuse
  BY <1>1, RefuseStep
<1>2. CASE ~Refuse
  <2>1. /\ call.kind = "save" /\ text[call.file] \in Seq(Value) /\ call.next \in 1..Len(text[call.file])
        /\ disk[call.file] = Prefix(text[call.file], call.next - 1) /\ call.file \in Files
    <3>1. call # NoCall
      BY Serving DEF NoCall, Idle
    <3> QED BY <3>1, Serving, InCall DEF FtpInv, CallInv, SaveInv, Texts
  <2>2. [id |-> call.id, file |-> call.file] \in opened
    BY Serving DEF Held
  <2>3. FileOf(call.id) = {call.file}
    BY <2>2, Serving, OneHandle
  <2>4. /\ disk' = [disk EXCEPT ![call.file] =
                      Put(Bytes(call.file), call.next, text[call.file][call.next])]
        /\ Reply("ok", 0) /\ UNCHANGED opened
    <3>1. PICK f \in FileOf(call.id) :
            /\ disk' = [disk EXCEPT ![f] = Put(Bytes(f), call.next, text[call.file][call.next])]
            /\ Reply("ok", 0) /\ UNCHANGED opened
      BY <1>2, Serving DEF ServeWrite, Current
    <3> QED BY <2>3, <3>1
  <2>5. Bytes(call.file) = Prefix(text[call.file], call.next - 1)
    <3>1. Prefix(text[call.file], call.next - 1) \in Seq(Value)
      BY <2>1 DEF Prefix
    <3> QED BY <2>1, <3>1 DEF Bytes, Bounds, Value
  <2>6. disk'[call.file] = Prefix(text[call.file], call.next)
    <3>1. call.file \in DOMAIN disk
      BY <2>1 DEF FtpInv, TypeInv
    <3>2. disk'[call.file] = Put(Bytes(call.file), call.next, text[call.file][call.next])
      BY <2>4, <3>1
    <3> QED BY <2>1, <2>5, <3>2, PutFacts
  <2>7. HandleInv'
    BY <2>4, Serving, SameHandles
  <2>8. SaveInv' /\ LoadInv'
    BY <2>1, <2>6, Serving DEF SaveInv, LoadInv
  <2>9. DOMAIN disk' = Files /\ opened' \subseteq [id : Nat, file : Files]
        /\ \A f \in Files : disk'[f] = disk[f]
                            \/ (f = call.file /\ (disk'[f] = Missing \/ disk'[f] \in Texts))
    <3>1. Prefix(text[call.file], call.next) \in Texts
      <4>1. \A i \in 1..call.next : text[call.file][i] \in Value
        BY <2>1
      <4>2. call.next \in Nat
        BY <2>1
      <4> QED BY <4>1, <4>2 DEF Prefix, Texts
    <3> QED BY <2>4, <2>6, <3>1 DEF FtpInv, TypeInv
  <2>10. 0 \in Value
    BY DEF Bounds, Value
  <2> QED BY <2>4, <2>7, <2>8, <2>9, <2>10, Answered
<1> QED BY <1>1, <1>2

LEMMA ReadStep ==
  ASSUME FtpInv, Serve, Bounds, call.step = "read", ServeRead(Head(requests)) PROVE FtpInv'
<1>1. CASE Refuse
  BY <1>1, RefuseStep
<1>2. CASE ~Refuse
  <2>1. /\ call.kind = "load" /\ disk[call.file] \in Seq(Value) /\ call.next \in Nat \ {0}
        /\ Bytes(call.file) = disk[call.file]
    <3>1. call # NoCall
      BY Serving DEF NoCall, Idle
    <3> QED BY <3>1, Serving, InCall DEF FtpInv, CallInv, LoadInv, Texts, Bytes, Bounds, Value
  <2>2. [id |-> call.id, file |-> call.file] \in opened
    BY Serving DEF Held
  <2>3. FileOf(call.id) = {call.file}
    BY <2>2, Serving, OneHandle
  <2>4. /\ IF call.next <= Len(disk[call.file])
           THEN Reply("data", disk[call.file][call.next]) ELSE Reply("eof", 0)
        /\ UNCHANGED <<disk, opened>>
    <3>1. PICK f \in FileOf(call.id) :
            /\ IF call.next <= Len(Bytes(f)) THEN Reply("data", Bytes(f)[call.next]) ELSE Reply("eof", 0)
            /\ UNCHANGED host
      BY <1>2, Serving DEF ServeRead, Current
    <3> QED BY <2>1, <2>3, <3>1 DEF host
  <2>5. HandleInv'
    BY <2>4, Serving, SameHandles
  <2>6. SaveInv'
    BY <2>1, Serving DEF SaveInv
  <2>7. CASE call.next <= Len(disk[call.file])
    <3>1. Reply("data", disk[call.file][call.next]) /\ disk[call.file][call.next] \in Value
      BY <2>1, <2>4, <2>7
    <3>2. replies'[1].kind = "data" /\ replies'[1].data = disk[call.file][call.next]
      BY <3>1, Serving DEF Reply
    <3>3. LoadInv'
      BY <2>4, <2>7, <3>2, Serving DEF FtpInv, LoadInv
    <3> QED BY <2>4, <2>5, <2>6, <3>1, <3>3, Answered DEF FtpInv, TypeInv
  <2>8. CASE ~(call.next <= Len(disk[call.file]))
    <3>1. Reply("eof", 0) /\ 0 \in Value
      BY <2>4, <2>8 DEF Bounds, Value
    <3>2. replies'[1].kind = "eof" /\ call.next > Len(disk[call.file])
      BY <2>1, <2>8, <3>1, Serving DEF Reply
    <3>3. LoadInv'
      BY <2>4, <3>2, Serving DEF FtpInv, LoadInv
    <3> QED BY <2>4, <2>5, <2>6, <3>1, <3>3, Answered DEF FtpInv, TypeInv
  <2> QED BY <2>7, <2>8
<1> QED BY <1>1, <1>2

LEMMA CloseStep ==
  ASSUME FtpInv, Serve, Bounds, call.step = "close", ServeClose(Head(requests)) PROVE FtpInv'
<1>1. [id |-> call.id, file |-> call.file] \in opened
  BY Serving DEF Held
<1>2. opened' = {o \in opened : o.id # call.id} /\ UNCHANGED disk /\ Reply("ok", 0)
  <2>1. FileOf(call.id) = {call.file}
    BY <1>1, Serving, OneHandle
  <2>2. Head(requests).handle = call.id /\ ServeClose(Head(requests))
    BY Serving DEF Current
  <2>3. opened' = {o \in opened : o.id # call.id} /\ UNCHANGED disk
    BY <2>2 DEF ServeClose
  <2>4. FileOf(Head(requests).handle) # {}
    BY <2>1, <2>2
  <2>5. Reply("ok", 0)
    BY <2>2, <2>4 DEF ServeClose
  <2> QED BY <2>3, <2>5
<1>3. HandleInv'
  <2>1. Held' = {}
    BY Serving DEF Held, Idle
  <2>2. Numbered'
    <3>1. msgId \in Nat
      BY DEF FtpInv, TypeInv
    <3> QED BY <1>2, <3>1, Serving DEF Numbered
  <2> QED BY <1>2, <2>1, <2>2, Serving DEF HandleInv
<1>4. SaveInv' /\ LoadInv'
  BY <1>2, Serving DEF FtpInv, SaveInv, LoadInv
<1>5. 0 \in Value /\ DOMAIN disk' = Files /\ opened' \subseteq [id : Nat, file : Files]
  BY <1>2 DEF Bounds, Value, FtpInv, TypeInv
<1>6. \A f \in Files : disk'[f] = disk[f]
  BY <1>2
<1> QED BY <1>2, <1>3, <1>4, <1>5, <1>6, Answered

LEMMA ServeStep == ASSUME FtpInv, Serve, Bounds PROVE FtpInv'
<1>1. Head(requests).kind = call.step /\ call.step \in Steps
  BY Serving, InCall DEF Current
<1>2. CASE call.step = "open"
  BY <1>1, <1>2, OpenStep DEF Serve
<1>3. CASE call.step = "remove"
  BY <1>1, <1>3, RemoveStep DEF Serve
<1>4. CASE call.step = "write"
  BY <1>1, <1>4, WriteStep DEF Serve
<1>5. CASE call.step = "read"
  BY <1>1, <1>5, ReadStep DEF Serve
<1>6. CASE call.step = "close"
  BY <1>1, <1>6, CloseStep DEF Serve
<1> QED BY <1>1, <1>2, <1>3, <1>4, <1>5, <1>6 DEF Steps

-----------------------------------------------------------------------------
LEMMA NextInv == ASSUME FtpInv, Bounds, [FtpNext]_ftpVars PROVE FtpInv'
<1>1. CASE Commands
  BY <1>1, RestartStep, EditStep, BeginStep DEF Commands, Kinds
<1>2. CASE GuiThread
  BY <1>2, WaitForConnectionStep, SendStep, SendFailsStep, ReadFailsStep, RemovedStep, OpenReplyStep,
     WriteReplyStep, ReadReplyStep, ReadCutStep, CloseReplyStep DEF GuiThread
<1>3. CASE Serve
  BY <1>3, ServeStep
<1>4. CASE Connects
  BY <1>4, ConnectsStep
<1>5. CASE Lose
  BY <1>5, LoseStep
<1>6. CASE UNCHANGED ftpVars
  <2>1. UNCHANGED <<disk, opened, requests, replies, link, msgId, call, text, outcome, edits, calls, starts>>
    BY <1>6 DEF ftpVars, host, wire, counts
  <2>2. TypeInv' /\ CallInv' /\ WireInv'
    BY <2>1 DEF FtpInv, TypeInv, CallInv, WireInv, At, Idle, Linked, Current
  <2>3. HandleInv' /\ SaveInv' /\ LoadInv' /\ TransfersWhole'
    BY <2>1 DEF FtpInv, HandleInv, Numbered, Closing, Held, SaveInv, LoadInv, TransfersWhole, Idle
  <2> QED BY <2>2, <2>3 DEF FtpInv
<1> QED BY <1>1, <1>2, <1>3, <1>4, <1>5, <1>6 DEF FtpNext

LEMMA Inductive == ASSUME Bounds PROVE FtpSpec => []FtpInv
<1>1. FtpInit => FtpInv
  BY InitInv
<1>2. FtpInv /\ [FtpNext]_ftpVars => FtpInv'
  BY NextInv
<1> QED BY <1>1, <1>2, PTL DEF FtpSpec

(* Every variable of the transfer keeps its type. *)
THEOREM TypesHold == ASSUME Bounds PROVE FtpSpec => []FtpTypeOK
<1>1. FtpInv => FtpTypeOK
  <2> SUFFICES ASSUME FtpInv PROVE FtpTypeOK
    OBVIOUS
  <2>1. Idle \/ (call.kind \in {"load", "save"} /\ call.file \in Files /\ call.step \in Steps
                 /\ call.phase \in Phases /\ outcome[call.file] = "busy"
                 /\ (call.step = "write" => call.next \in 1..Len(text[call.file])))
    <3>1. CASE call = NoCall
      BY <3>1 DEF Idle, NoCall
    <3>2. CASE call # NoCall
      <4>1. /\ call \in Calls /\ outcome[call.file] = "busy"
            /\ call.step = "write" => call.next <= Len(text[call.file])
        BY <3>2 DEF FtpInv, CallInv
      <4>2. Len(text[call.file]) \in Nat
        BY <4>1 DEF FtpInv, TypeInv, Texts, Calls
      <4> QED BY <4>1, <4>2 DEF Calls, Kinds
    <3> QED BY <3>1, <3>2
  <2> QED BY <2>1 DEF FtpInv, TypeInv, FtpTypeOK, Texts, Value
<1> QED BY <1>1, Inductive, PTL

(* What SaveFile() and LoadFile() report as done is on the host as the editor shows it. *)
THEOREM TransfersAreWhole == ASSUME Bounds PROVE FtpSpec => []TransfersWhole
<1>1. FtpInv => TransfersWhole
  BY DEF FtpInv
<1> QED BY <1>1, Inductive, PTL

(* LoadFile() and SaveFile() have given back the handle when they end well,  *)
(* and SaveFile() also when the host refuses a chunk, whatever handles       *)
(* failed calls have left open before.                                      *)
THEOREM HandlesReturned == ASSUME Bounds PROVE FtpSpec => HandleReturned
<1>1. FtpInv /\ [FtpNext]_ftpVars
        => [~Idle /\ call' = NoCall /\ link = "up" /\ (EndsWell \/ Refused)
              => \A o \in opened' : o.id # call.id]_ftpVars
  <2> SUFFICES ASSUME FtpInv, [FtpNext]_ftpVars, ~Idle, call' = NoCall, link = "up",
                      EndsWell \/ Refused
               PROVE  \A o \in opened' : o.id # call.id
    OBVIOUS
  <2>1. call' # call
    BY DEF Idle, NoCall
  <2>2. outcome \in [Files -> {"new", "edited", "busy", "saved", "loaded", "failed"}]
        /\ call.file \in Files /\ outcome[call.file] = "busy"
    BY InCall DEF FtpInv, TypeInv
  <2>3. \A f \in Files, kind \in Kinds : ~Begin(kind, f)
    BY DEF Begin
  <2>4. GuiThread
    BY <2>1, <2>3 DEF FtpNext, Commands, Edit, Begin, Restart, Serve, Connects, Lose, ftpVars, Idle
  <2>5. Return(FALSE) => Refused
    BY <2>2 DEF Return, EndsWell
  <2>6. ~\E c \in Calls : Proceed(c)
    BY DEF Proceed, NoCall, Calls, Kinds
  <2>7. /\ [call EXCEPT !.step = "open", !.phase = "connect"] \in Calls
        /\ [call EXCEPT !.phase = "send"] \in Calls /\ [call EXCEPT !.phase = "answer"] \in Calls
        /\ [call EXCEPT !.next = @ + 1, !.phase = "send"] \in Calls
        /\ \A ok \in BOOLEAN : [call EXCEPT !.step = "close", !.phase = "send", !.ok = ok] \in Calls
    <3>1. call.next + 1 \in Nat \ {0}
      BY InCall
    <3> QED BY <3>1, InCall DEF Calls, Steps, Phases
  <2>8. ~GotoClose(TRUE) /\ ~GotoClose(FALSE)
    BY <2>6, <2>7 DEF GotoClose
  <2>9. (GotoOpen => Return(FALSE)) /\ (Fail => Return(FALSE))
    BY <2>6, <2>7 DEF GotoOpen, Fail
  <2>10. CASE WaitForConnection \/ WriteData \/ WriteFails \/ ReadFails
    <3>1. replies' = replies
      BY <2>10 DEF WaitForConnection, WriteData, WriteFails, ReadFails, wire
    <3>2. Return(FALSE)
      BY <2>6, <2>7, <2>9, <2>10 DEF WaitForConnection, WriteData, WriteFails, ReadFails
    <3> QED BY <2>5, <3>1, <3>2 DEF Refused
  <2>11. CASE Removed \/ OpenReply \/ ReadReply \/ ReadCut
    <3>1. call.step \in {"remove", "open", "read"}
      BY <2>11 DEF Removed, OpenReply, ReadReply, ReadCut, Waits
    <3>2. Return(FALSE)
      <4>1. CASE Removed
        BY <2>9, <4>1 DEF Removed
      <4>2. CASE ReadCut
        BY <2>6, <2>7, <4>2 DEF ReadCut
      <4>3. CASE OpenReply
        <5>1. PICK r \in {replies[n] : n \in DOMAIN replies} :
                /\ Receive(r)
                /\ \/ Return(FALSE)
                   \/ Proceed([call EXCEPT !.step = IF call.kind = "save" THEN "write" ELSE "read",
                                           !.phase = "send", !.id = r.id])
          BY <4>3 DEF OpenReply
        <5>2. r.id \in Nat
          BY <5>1, Received DEF Replies
        <5>3. [call EXCEPT !.step = IF call.kind = "save" THEN "write" ELSE "read",
                           !.phase = "send", !.id = r.id] \in Calls
          BY <5>2, InCall DEF Calls, Steps, Phases
        <5> QED BY <2>6, <5>1, <5>3
      <4>4. CASE ReadReply
        <5>1. PICK r \in {replies[n] : n \in DOMAIN replies} :
                /\ Receive(r)
                /\ CASE r.kind = "data" -> TakeData(r)
                     [] r.kind = "eof" -> GotoClose(TRUE)
                     [] OTHER -> GotoClose(FALSE)
          BY <4>4 DEF ReadReply
        <5>2. TakeData(r)
          BY <2>8, <5>1
        <5>3. r.data \in Value /\ call.next + 1 \in Nat \ {0}
          BY <5>1, Received, InCall DEF Replies
        <5>4. Append(call.data, r.data) \in Texts
          BY <5>3, InCall DEF Texts
        <5>5. [call EXCEPT !.next = @ + 1, !.phase = "send", !.data = Append(@, r.data)] \in Calls
          BY <5>3, <5>4, InCall DEF Calls, Phases
        <5> QED BY <2>6, <5>2, <5>5 DEF TakeData
      <4> QED BY <2>11, <4>1, <4>2, <4>3, <4>4
    <3> QED BY <2>5, <3>1, <3>2 DEF Refused
  <2>12. ~WriteReply
    BY <2>6, <2>7, <2>8 DEF WriteReply
  <2>13. CASE CloseReply
    <3>1. Closing /\ requests = <<>> /\ UNCHANGED opened
      BY <2>13, Received DEF CloseReply, Closing, Waits, At
    <3> QED BY <3>1 DEF FtpInv, HandleInv
  <2> QED BY <2>4, <2>10, <2>11, <2>12, <2>13 DEF GuiThread
<1> QED BY <1>1, Inductive, PTL DEF FtpSpec, HandleReturned

(* The ATLASSERTs on msgid hold when no answer is late. *)
THEOREM RepliesMatch == ASSUME Bounds PROVE FtpSpec => ReplyMatches
<1>1. FtpInv /\ [FtpNext]_ftpVars
        => [Len(replies') < Len(replies) /\ link' = link => Head(replies).id = msgId]_ftpVars
  <2> SUFFICES ASSUME FtpInv, Len(replies') < Len(replies), FtpInv' PROVE Head(replies).id = msgId
    BY NextInv
  <2>1. replies \in Seq(Replies) /\ replies' \in Seq(Replies)
    BY DEF FtpInv, TypeInv
  <2>2. replies # <<>>
    BY <2>1
  <2> QED BY <2>1, <2>2 DEF FtpInv, WireInv
<1> QED BY <1>1, Inductive, PTL DEF FtpSpec, ReplyMatches

=============================================================================
