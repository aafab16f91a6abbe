---------------------------- MODULE SftpTransfer ----------------------------
(***************************************************************************)
(* How documents are loaded and saved over SFTP (SftpProtocol.cpp, called   *)
(* by FileProxy.cpp and Files.cpp).  The GUI thread sends one request at a   *)
(* time and takes whatever comes back for its answer: that the numbers      *)
(* match is asserted, not tested.  A read that runs into its time-out gives  *)
(* up the call, but the answer is still on its way.                        *)
(*                                                                         *)
(* A text is a sequence of chunks, a chunk is the number of the edit it      *)
(* comes from.                                                             *)
(***************************************************************************)
EXTENDS Naturals, Sequences, FiniteSets

CONSTANTS
  Files,        \* the remote files
  Missing,      \* content of a file that does not exist
  Chunks,       \* chunks of an edited text
  DeleteFirst,  \* CompatibilityMode, or protectReadOnly is off
  Late,         \* may answers come later than the time-out?
  MaxEdits, MaxCalls, MaxStarts   \* bounds

VARIABLES
  disk,      \* disk[f]: what the host has
  opened,    \* the host's open handles: [id of the SSH_FXP_OPEN, file]
  requests,  \* on their way to the host
  replies,   \* on their way back
  link,      \* the connection; "lost" is not seen: m_bConnected is still set
  msgId,     \* m_dwMsgId
  call,      \* what the GUI thread is doing
  text,      \* text[f]: the text in the editor
  outcome,   \* outcome[f]: what was last done with the document
  edits, calls, starts

host    == <<disk, opened>>
wire    == <<requests, replies, link, msgId>>
counts  == <<edits, calls, starts>>
ftpVars == <<host, wire, call, text, outcome, counts>>

NoCall == [kind |-> "none"]
Steps  == {"remove", "open", "write", "read", "close"}
Phases == {"connect", "send", "answer"}
Called(kind, f) ==
  [kind |-> kind, file |-> f, phase |-> "connect", next |-> 1, id |-> 0, ok |-> TRUE, data |-> <<>>,
   step |-> IF kind = "save" /\ DeleteFirst THEN "remove" ELSE "open"]

Idle == call.kind = "none"
At(phase) == ~Idle /\ call.phase = phase
Waits(s) == At("answer") /\ call.step = s

-----------------------------------------------------------------------------
(* The user edits a document, saves it, opens it, or has the connection     *)
(* made anew (wizard, or an error when a view is opened).                   *)

Edit(f) ==
  /\ Idle /\ edits < MaxEdits
  /\ \E size \in {0, Chunks} : text' = [text EXCEPT ![f] = [n \in 1..size |-> edits + 1]]
  /\ outcome' = [outcome EXCEPT ![f] = "edited"]
  /\ edits' = edits + 1
  /\ UNCHANGED <<host, wire, call, calls, starts>>

Begin(kind, f) ==
  /\ Idle /\ calls < MaxCalls
  /\ call' = Called(kind, f)
  /\ outcome' = [outcome EXCEPT ![f] = "busy"]
  /\ calls' = calls + 1
  /\ UNCHANGED <<host, wire, text, edits, starts>>

(* Stop() and Start(): the session goes, and with it what was on its way.   *)
Restart ==
  /\ Idle /\ starts < MaxStarts
  /\ link' = "connecting" /\ msgId' = 0 /\ requests' = <<>> /\ replies' = <<>>
  /\ opened' = {}
  /\ starts' = starts + 1
  /\ UNCHANGED <<disk, call, text, outcome, edits, calls>>

-----------------------------------------------------------------------------
(* CSftpThread, and what happens to the connection.                        *)

Connects ==
  /\ link = "connecting"
  /\ link' \in {"up", "off"}
  /\ UNCHANGED <<host, requests, replies, msgId, call, text, outcome, counts>>

(* What was on its way may be lost with it. *)
Lose ==
  /\ link = "up" /\ link' = "lost"
  /\ requests' = <<>>
  /\ \E n \in 0..Len(replies) : replies' = SubSeq(replies, 1, n)
  /\ UNCHANGED <<host, msgId, call, text, outcome, counts>>

-----------------------------------------------------------------------------
(* LoadFile() and SaveFile(): one request, one answer.                     *)

Return(ok) ==
  /\ call' = NoCall
  /\ outcome' = [outcome EXCEPT ![call.file] =
                   IF ~ok THEN "failed" ELSE IF call.kind = "save" THEN "saved" ELSE "loaded"]
  /\ text' = [text EXCEPT ![call.file] = IF call.kind = "load" /\ ok THEN call.data ELSE @]

Proceed(c) == call' = c /\ UNCHANGED <<text, outcome>>
GotoClose(ok) == Proceed([call EXCEPT !.step = "close", !.phase = "send", !.ok = ok])

(* The result of DeleteFile() is ignored, SaveFile() connects once more; it  *)
(* does not save an empty text.                                            *)
GotoOpen ==
  IF text[call.file] = <<>> THEN Return(FALSE)
  ELSE Proceed([call EXCEPT !.step = "open", !.phase = "connect"])
Fail == IF call.step = "remove" THEN GotoOpen ELSE Return(FALSE)

(* WaitForConnection(): it starts a connection that was never tried, and     *)
(* fails all the same.                                                     *)
WaitForConnection ==
  /\ At("connect")
  /\ IF call.kind = "save" /\ text[call.file] = <<>> /\ call.step = "open" THEN Return(FALSE)
     ELSE \/ link \in {"up", "lost"} /\ Proceed([call EXCEPT !.phase = "send"])
          \/ link \in {"none", "off"} /\ Fail
  /\ link' = IF link = "none" THEN "connecting" ELSE link
  /\ UNCHANGED <<host, requests, replies, msgId, counts>>

Request ==
  [id |-> msgId + 1, kind |-> call.step, file |-> call.file, for |-> call.kind, handle |-> call.id,
   at |-> call.next,
   data |-> IF call.step = "write" THEN text[call.file][call.next] ELSE 0]

WriteData ==
  /\ At("send")
  /\ requests' = IF link = "lost" THEN requests ELSE Append(requests, Request)
  /\ msgId' = msgId + 1
  /\ Proceed([call EXCEPT !.phase = "answer"])
  /\ UNCHANGED <<host, replies, link, counts>>

(* A short write, a time-out or an error; the session may be as alive as     *)
(* before, and a handle the call has open stays open.  What could not be     *)
(* written never leaves, or leaves late and whole: half a packet makes the   *)
(* host end the session, which is Lose.                                     *)
WriteFails ==
  /\ At("send")
  /\ Fail
  /\ msgId' = msgId + 1
  /\ requests' \in {requests} \union IF Late /\ link = "up" THEN {Append(requests, Request)} ELSE {}
  /\ UNCHANGED <<host, replies, link, counts>>

(* _ReadData() takes what has arrived, be it more than one answer, and only  *)
(* the first of them is looked at; LoadFile() reads the length it was told.  *)
Receive(r) ==
  /\ replies # <<>> /\ r = Head(replies)
  /\ \E n \in 1..Len(replies) :
       /\ call.step = "read" => n = 1
       /\ replies' = SubSeq(replies, n + 1, Len(replies))
  /\ UNCHANGED <<host, requests, link, msgId, counts>>

(* Time-out, or the session is gone. *)
ReadFails ==
  /\ At("answer")
  /\ (link = "lost" /\ replies = <<>>) \/ Late
  /\ Fail
  /\ UNCHANGED <<host, wire, counts>>

Removed == \E r \in {replies[n] : n \in DOMAIN replies} :
  Waits("remove") /\ Receive(r) /\ GotoOpen

(* A handle may be too long: the host has the file open, the call returns.   *)
OpenReply == \E r \in {replies[n] : n \in DOMAIN replies} :
  /\ Waits("open") /\ Receive(r)
  /\ \/ Return(FALSE)
     \/ r.kind = "handle"
        /\ Proceed([call EXCEPT !.step = IF call.kind = "save" THEN "write" ELSE "read",
                                !.phase = "send", !.id = r.id])

(* Variant: any status will do. *)
WriteReplyTrusting == \E r \in {replies[n] : n \in DOMAIN replies} :
  /\ Waits("write") /\ Receive(r)
  /\ IF call.next < Len(text[call.file])
     THEN Proceed([call EXCEPT !.next = @ + 1, !.phase = "send"])
     ELSE GotoClose(TRUE)

(* Variant: one chunk more than there are. *)
WriteReplyOneMore == \E r \in {replies[n] : n \in DOMAIN replies} :
  /\ Waits("write") /\ Receive(r)
  /\ IF r.kind # "ok" THEN GotoClose(FALSE)
     ELSE IF call.next <= Len(text[call.file])
     THEN Proceed([call EXCEPT !.next = @ + 1, !.phase = "send"])
     ELSE GotoClose(TRUE)

(* Variant: a chunk that is refused ends the save at once. *)
WriteReplyUnclosed == \E r \in {replies[n] : n \in DOMAIN replies} :
  /\ Waits("write") /\ Receive(r)
  /\ IF r.kind # "ok" THEN Return(FALSE)
     ELSE IF call.next < Len(text[call.file])
     THEN Proceed([call EXCEPT !.next = @ + 1, !.phase = "send"])
     ELSE GotoClose(TRUE)

WriteReply == \E r \in {replies[n] : n \in DOMAIN replies} :
  /\ Waits("write") /\ Receive(r)
  /\ IF r.kind # "ok" THEN GotoClose(FALSE)
     ELSE IF call.next < Len(text[call.file])
     THEN Proceed([call EXCEPT !.next = @ + 1, !.phase = "send"])
     ELSE GotoClose(TRUE)

(* LoadFile() has read the header; there may be no memory for the data       *)
(* (realloc: it returns and leaves the handle open), or the rest does not    *)
(* come: it asks for the same chunk again, and if the rest comes after all,  *)
(* takes it for the answer.                                                *)
TakeData(r) ==
  \/ Proceed([call EXCEPT !.next = @ + 1, !.phase = "send", !.data = Append(@, r.data)])
  \/ Return(FALSE)

ReadCut == \E r \in {replies[n] : n \in DOMAIN replies} :
  /\ Waits("read") /\ r = Head(replies) /\ r.kind = "data"
  /\ link = "lost" \/ Late
  /\ replies' \in {Tail(replies)} \union IF Late THEN {<<[r EXCEPT !.kind = "bad"]>> \o Tail(replies)} ELSE {}
  /\ Proceed([call EXCEPT !.phase = "send"])
  /\ UNCHANGED <<host, requests, link, msgId, counts>>

ReadReply == \E r \in {replies[n] : n \in DOMAIN replies} :
  /\ Waits("read") /\ Receive(r)
  /\ CASE r.kind = "data" -> TakeData(r)
       [] r.kind = "eof" -> GotoClose(TRUE)
       [] OTHER -> GotoClose(FALSE)

(* Variant: nobody waits for the answer to the close. *)
CloseReplyUnread ==
  Waits("close") /\ Return(call.ok) /\ UNCHANGED <<host, wire, counts>>

CloseReply == \E r \in {replies[n] : n \in DOMAIN replies} :
  Waits("close") /\ Receive(r) /\ Return(call.ok)

-----------------------------------------------------------------------------
(* The host handles the requests in order, and may refuse any.              *)

FileOf(h) == {o.file : o \in {x \in opened : x.id = h}}
Put(s, n, c) == [i \in 1..(IF n > Len(s) THEN n ELSE Len(s)) |->
                   IF i = n THEN c ELSE IF i <= Len(s) THEN s[i] ELSE 0]
Bytes(f) == IF disk[f] = Missing THEN <<>> ELSE disk[f]

Reply(kind, data) ==
  replies' = Append(replies, [id |-> Head(requests).id, kind |-> kind, data |-> data])

Refuse == Reply("bad", 0) /\ UNCHANGED host

ServeOpen(q) ==
  \/ Refuse
  \/ /\ q.for = "load" => disk[q.file] # Missing
     /\ disk' = IF q.for = "save" THEN [disk EXCEPT ![q.file] = <<>>] ELSE disk
     /\ opened' = opened \union {[id |-> q.id, file |-> q.file]}
     /\ Reply("handle", 0)

ServeRemove(q) ==
  \/ Refuse
  \/ disk' = [disk EXCEPT ![q.file] = Missing] /\ Reply("ok", 0) /\ UNCHANGED opened

ServeWrite(q) ==
  \/ Refuse
  \/ \E f \in FileOf(q.handle) :
       /\ disk' = [disk EXCEPT ![f] = Put(Bytes(f), q.at, q.data)]
       /\ Reply("ok", 0) /\ UNCHANGED opened

ServeRead(q) ==
  \/ Refuse
  \/ \E f \in FileOf(q.handle) :
       /\ IF q.at <= Len(Bytes(f)) THEN Reply("data", Bytes(f)[q.at]) ELSE Reply("eof", 0)
       /\ UNCHANGED host

ServeClose(q) ==
  /\ opened' = {o \in opened : o.id # q.handle}
  /\ Reply(IF FileOf(q.handle) = {} THEN "bad" ELSE "ok", 0)
  /\ UNCHANGED disk

Serve ==
  /\ requests # <<>> /\ link = "up"
  /\ requests' = Tail(requests)
  /\ LET q == Head(requests) IN
       CASE q.kind = "open"   -> ServeOpen(q)
         [] q.kind = "remove" -> ServeRemove(q)
         [] q.kind = "write"  -> ServeWrite(q)
         [] q.kind = "read"   -> ServeRead(q)
         [] q.kind = "close"  -> ServeClose(q)
  /\ UNCHANGED <<link, msgId, call, text, outcome, counts>>

-----------------------------------------------------------------------------
FtpInit ==
  /\ disk = [f \in Files |-> Missing] /\ opened = {}
  /\ requests = <<>> /\ replies = <<>> /\ link = "none" /\ msgId = 0
  /\ call = NoCall
  /\ text = [f \in Files |-> <<>>] /\ outcome = [f \in Files |-> "new"]
  /\ edits = 0 /\ calls = 0 /\ starts = 0

Commands == Restart \/ \E f \in Files : Edit(f) \/ Begin("save", f) \/ Begin("load", f)

GuiThread ==
  \/ WaitForConnection \/ WriteData \/ WriteFails \/ ReadFails
  \/ Removed \/ OpenReply \/ WriteReply \/ ReadCut \/ ReadReply \/ CloseReply

FtpNext == Commands \/ GuiThread \/ Serve \/ Connects \/ Lose

FtpSpec == FtpInit /\ [][FtpNext]_ftpVars

-----------------------------------------------------------------------------
(* The types; the chunk a save is about to write exists, and of the file a   *)
(* call is about nothing is claimed yet.                                    *)
FtpTypeOK ==
  /\ \A f \in Files : disk[f] = Missing \/ disk[f] \in Seq(0..MaxEdits)
  /\ \A f \in Files : text[f] \in Seq(0..MaxEdits)
  /\ outcome \in [Files -> {"new", "edited", "busy", "saved", "loaded", "failed"}]
  /\ \A o \in opened : o.id \in Nat /\ o.file \in Files
  /\ link \in {"none", "connecting", "up", "lost", "off"}
  /\ Idle \/ (call.kind \in {"load", "save"} /\ call.file \in Files /\ call.step \in Steps
             /\ call.phase \in Phases /\ outcome[call.file] = "busy"
             /\ (call.step = "write" => call.next \in 1..Len(text[call.file])))
  /\ edits \in 0..MaxEdits /\ calls \in 0..MaxCalls /\ starts \in 0..MaxStarts

(* When a document was saved or loaded without an error, the host has what   *)
(* the editor shows, down to the last chunk, whatever failed before.        *)
TransfersWhole ==
  \A f \in Files : outcome[f] \in {"saved", "loaded"} => disk[f] = text[f]

(* A call that ends well has given back its handle, and so has a save that    *)
(* fails because the host refuses a chunk.  The other failures leave it open *)
(* on a live session: a write that fails (477, 534, 650, 688), a handle that *)
(* is too long (458-461, 621-624), no memory (506), a time-out (479, 655).   *)
EndsWell == outcome'[call.file] \in {"saved", "loaded"}
Refused == call.step \in {"write", "close"} /\ replies' # replies
HandleReturned ==
  [][~Idle /\ call' = NoCall /\ link = "up" /\ (EndsWell \/ Refused)
       => \A o \in opened' : o.id # call.id]_ftpVars

(* "ATLASSERT(msgid==m_dwMsgId)", SftpProtocol.cpp:450 and wherever else it  *)
(* reads an answer (but for the open of a save, 605, where the number is     *)
(* read and never looked at): what is taken for the answer is the answer to  *)
(* what was asked last.                                                    *)
ReplyMatches ==
  [][Len(replies') < Len(replies) /\ link' = link => Head(replies).id = msgId]_ftpVars

=============================================================================
