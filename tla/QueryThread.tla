---------------------------- MODULE QueryThread ----------------------------
(***************************************************************************)
(* How an SQL view and the thread that runs its queries talk to each other  *)
(* (SqlProject).  The view leaves one word in m_state and sets an           *)
(* auto-reset event; the thread takes the word, clears it, and answers with  *)
(* packets posted to the result view.  There is no lock: what the view       *)
(* writes before the word is cleared is gone, and so is what it overwrites.  *)
(*                                                                         *)
(* A row is <<query, part, row>>: a query is split in parts, each run on     *)
(* its own.                                                                *)
(***************************************************************************)
EXTENDS Naturals, Sequences

CONSTANTS
  MaxAsked,   \* bound: what the user and the timer ask for
  MaxParts,   \* bound: statements of a query
  Sizes,      \* numbers of records a statement may return
  Chunk       \* m_nChunkSize

VARIABLES
  word,       \* m_state
  signal,     \* m_event
  sql,        \* m_sSQL, a number
  executing,  \* m_bExecuting
  worker,     \* the thread
  posted,     \* packets on their way to the result view
  lists,      \* m_aLists
  current,    \* index of m_pCurProcessingList, 0 if NULL
  spinning,   \* the animation runs
  view,       \* what the GUI thread is doing
  asked,
  terminator  \* editors.sql.terminator is not empty

words     == <<word, signal, sql>>
shown     == <<lists, current, spinning>>
queryVars == <<words, executing, worker, posted, shown, view, asked, terminator>>

Words == {"nothing", "connect", "disconnect", "abort", "execute", "inforequest"}
NoThread == [at |-> "none", word |-> "nothing", query |-> 0, parts |-> 0, part |-> 0,
             rows |-> 0, row |-> 0, packet |-> <<>>]

IsQueryRunning == worker.at # "ended" /\ executing
IsBusy == ~executing /\ word # "nothing"
Joining == view \in {"join", "aborted"}
WindowGone == Joining \/ view = "closed"

-----------------------------------------------------------------------------
(* The GUI thread.                                                         *)

(* OpenView(): the thread is started and asked to connect. *)
OpenView ==
  /\ view = "none" /\ view' = "signal"
  /\ worker' = [worker EXCEPT !.at = "top"]
  /\ word' = "connect"
  /\ UNCHANGED <<signal, sql, executing, posted, shown, asked, terminator>>

Ask(w) ==
  /\ view = "idle" /\ asked < MaxAsked
  /\ asked' = asked + 1
  /\ word' = w
  /\ view' = IF w = "abort" THEN "idle" ELSE "signal"
  /\ UNCHANGED <<signal, sql, executing, worker, posted, shown, terminator>>

(* Run() and ExecuteSql(): first the text, then the word. *)
RunQuery ==
  /\ view = "idle" /\ asked < MaxAsked /\ ~IsQueryRunning
  /\ asked' = asked + 1
  /\ sql' = asked + 1 /\ view' = "asking"
  /\ UNCHANGED <<word, signal, executing, worker, posted, shown, terminator>>

ExecuteSql ==
  /\ view = "asking"
  /\ word' = "execute" /\ view' = "signal"
  /\ UNCHANGED <<signal, sql, executing, worker, posted, shown, asked, terminator>>

(* By the user, or by a message the result view posts to itself when it has  *)
(* shown maxErrors errors (303), which may come at any later time.          *)
Abort == IsQueryRunning /\ Ask("abort")
InfoRequest == ~IsBusy /\ worker.at # "ended" /\ Ask("inforequest")

(* Variant: a thread that runs a query looks at the word anyway. *)
SetEventUnlessExecuting ==
  /\ view \in {"signal", "closing"}
  /\ signal' = (signal \/ ~executing)
  /\ view' = IF view = "closing" THEN "destroy" ELSE "idle"
  /\ UNCHANGED <<word, sql, executing, worker, posted, shown, asked, terminator>>

SetEvent ==
  /\ view \in {"signal", "closing"}
  /\ signal' = TRUE
  /\ view' = IF view = "closing" THEN "destroy" ELSE "idle"
  /\ UNCHANGED <<word, sql, executing, worker, posted, shown, asked, terminator>>

(* CloseView(): Disconnect(), DestroyClient(), Stop().  The window aborts   *)
(* the query that runs when it is destroyed.                               *)
Disconnect ==
  /\ view = "idle" /\ view' = "closing"
  /\ word' = "disconnect"
  /\ UNCHANGED <<signal, sql, executing, worker, posted, shown, asked, terminator>>

OnDestroy ==
  /\ view = "destroy" /\ view' = IF IsQueryRunning THEN "aborted" ELSE "join"
  /\ word' = IF IsQueryRunning THEN "abort" ELSE word
  /\ posted' = <<>>
  /\ lists' = <<>> /\ current' = 0 /\ UNCHANGED spinning
  /\ UNCHANGED <<signal, sql, executing, worker, asked, terminator>>

JoinThread ==
  /\ Joining /\ worker.at = "ended"
  /\ view' = "closed"
  /\ UNCHANGED <<words, executing, worker, posted, shown, asked, terminator>>

(* read: the number of records, once the statement is finished. *)
NewList(p) == [of |-> p.of, rows |-> <<>>, read |-> {}]

(* CResultView::OnDataArrived(); a statement without columns has no list.   *)
OnDataArrived ==
  LET p == Head(posted) IN
  /\ view = "idle" /\ posted # <<>>
  /\ posted' = Tail(posted)
  /\ CASE p.type = "start"   -> lists' = <<>> /\ current' = 0 /\ spinning' = TRUE
       [] p.type = "columns" ->
            /\ current' = IF p.cols THEN Len(lists) + 1 ELSE 0
            /\ lists' = IF p.cols THEN Append(lists, NewList(p)) ELSE lists
            /\ UNCHANGED spinning
       [] p.type = "rows"    ->
            /\ lists' = IF p.cols /\ current # 0 THEN [lists EXCEPT ![current].rows = @ \o p.rows]
                        ELSE lists
            /\ UNCHANGED <<current, spinning>>
       [] p.type = "finish"  ->
            /\ lists' = IF p.cols /\ current # 0 THEN [lists EXCEPT ![current].read = {p.read}]
                        ELSE lists
            /\ UNCHANGED <<current, spinning>>
       [] p.type = "done"    -> spinning' = FALSE /\ UNCHANGED <<lists, current>>
       [] p.type = "error"   -> UNCHANGED shown
  /\ UNCHANGED <<words, executing, worker, view, asked, terminator>>

-----------------------------------------------------------------------------
(* CQueryThread::Run().                                                    *)

Of == <<worker.query, worker.part>>
Packet(type, cols, rows, read) ==
  [type |-> type, of |-> Of, cols |-> cols, rows |-> rows, read |-> read]
Plain(type) == Packet(type, FALSE, <<>>, 0)
Post(packets) == posted' = IF WindowGone THEN posted ELSE posted \o packets

Loop ==
  /\ worker.at = "top" /\ worker' = [worker EXCEPT !.at = "wait"]
  /\ executing' = FALSE
  /\ UNCHANGED <<words, posted, shown, view, asked, terminator>>

WaitForEvent ==
  /\ worker.at = "wait" /\ signal
  /\ signal' = FALSE
  /\ worker' = [worker EXCEPT !.at = "woken"]
  /\ UNCHANGED <<word, sql, executing, posted, shown, view, asked, terminator>>

Take ==
  /\ worker.at = "woken"
  /\ worker' = [worker EXCEPT !.at = "state", !.word = word]
  /\ UNCHANGED <<words, executing, posted, shown, view, asked, terminator>>

TakeText ==
  /\ worker.at = "state"
  /\ worker' = [worker EXCEPT !.at = "taken", !.query = sql]
  /\ UNCHANGED <<words, executing, posted, shown, view, asked, terminator>>

(* m_state = STATE_NOTHING, whatever it is by now.  A thread that cannot     *)
(* create the data source ends.                                            *)
Clear ==
  /\ worker.at = "taken"
  /\ word' = "nothing"
  /\ \E at \in CASE worker.word = "disconnect" -> {"ended"}
               [] worker.word = "execute"    -> {"start"}
               [] worker.word = "connect"    -> {"top", "ended"}
               [] OTHER                      -> {"top"} :
       worker' = [worker EXCEPT !.at = at]
  /\ UNCHANGED <<signal, sql, executing, posted, shown, view, asked, terminator>>

(* An empty text is not run; one that cannot be split is, as far as the view *)
(* is told.                                                                *)
Start ==
  /\ worker.at = "start"
  /\ \/ worker' = [worker EXCEPT !.at = "top"] /\ UNCHANGED <<executing, posted>>
     \/ /\ executing' = TRUE
        /\ Post(<<Plain("start")>>)
        /\ IF terminator
           THEN \E n \in 0..MaxParts :
                  worker' = [worker EXCEPT !.at = "part", !.parts = n, !.part = 1]
           ELSE worker' = [worker EXCEPT !.at = "top"]
  /\ UNCHANGED <<words, shown, view, asked, terminator>>

NextPart == [worker EXCEPT !.at = "part", !.part = @ + 1]

Execute ==
  /\ worker.at = "part" /\ worker.part <= worker.parts
  /\ \/ Post(<<Plain("error")>>) /\ worker' = NextPart
     \/ \E cols \in BOOLEAN, n \in Sizes \union {0} :
          /\ n \in IF cols THEN Sizes ELSE {0}
          /\ Post(<<Packet("columns", cols, <<>>, 0)>>)
          /\ worker' = [worker EXCEPT !.at = IF cols THEN "rows" ELSE "affected", !.rows = n,
                                      !.row = 0, !.packet = <<>>]
  /\ UNCHANGED <<words, executing, shown, view, asked, terminator>>

Interrupts == word \in {"disconnect", "abort"}

(* Variant: the word is looked at before a full packet is posted. *)
ReadRecordLosing ==
  LET packet == Append(worker.packet, <<worker.query, worker.part, worker.row + 1>>) IN
  /\ worker.at = "rows" /\ worker.row < worker.rows
  /\ worker' = [worker EXCEPT !.row = @ + 1, !.rows = IF Interrupts THEN worker.row + 1 ELSE @,
                              !.packet = IF Len(packet) >= Chunk THEN <<>> ELSE packet]
  /\ Post(IF Len(packet) >= Chunk /\ ~Interrupts THEN <<Packet("rows", TRUE, packet, 0)>> ELSE <<>>)
  /\ UNCHANGED <<words, executing, shown, view, asked, terminator>>

(* Variant: a packet is full when it has a record too many. *)
ReadRecordOneMore ==
  LET packet == Append(worker.packet, <<worker.query, worker.part, worker.row + 1>>) IN
  /\ worker.at = "rows" /\ worker.row < worker.rows
  /\ worker' = [worker EXCEPT !.row = @ + 1, !.rows = IF Interrupts THEN worker.row + 1 ELSE @,
                              !.packet = IF Len(packet) > Chunk THEN <<>> ELSE packet]
  /\ Post(IF Len(packet) > Chunk THEN <<Packet("rows", TRUE, packet, 0)>> ELSE <<>>)
  /\ UNCHANGED <<words, executing, shown, view, asked, terminator>>

(* A record; with an abort, this one is the last. *)
ReadRecord ==
  LET packet == Append(worker.packet, <<worker.query, worker.part, worker.row + 1>>) IN
  /\ worker.at = "rows" /\ worker.row < worker.rows
  /\ worker' = [worker EXCEPT !.row = @ + 1, !.rows = IF Interrupts THEN worker.row + 1 ELSE @,
                              !.packet = IF Len(packet) >= Chunk THEN <<>> ELSE packet]
  /\ Post(IF Len(packet) >= Chunk THEN <<Packet("rows", TRUE, packet, 0)>> ELSE <<>>)
  /\ UNCHANGED <<words, executing, shown, view, asked, terminator>>

FinishPart ==
  LET cols == worker.at = "rows" IN
  /\ worker.at = "affected" \/ (worker.at = "rows" /\ worker.row = worker.rows)
  /\ Post(<<Packet("rows", cols, worker.packet, 0), Packet("finish", cols, <<>>, worker.row)>>)
  /\ worker' = NextPart
  /\ UNCHANGED <<words, executing, shown, view, asked, terminator>>

(* Variant: an aborted query is not done. *)
QueryDoneUnlessAborted ==
  /\ worker.at = "part" /\ worker.part > worker.parts
  /\ Post(IF word = "abort" THEN <<>> ELSE <<Plain("done")>>)
  /\ worker' = [worker EXCEPT !.at = "top"]
  /\ UNCHANGED <<words, executing, shown, view, asked, terminator>>

QueryDone ==
  /\ worker.at = "part" /\ worker.part > worker.parts
  /\ Post(<<Plain("done")>>)
  /\ worker' = [worker EXCEPT !.at = "top"]
  /\ UNCHANGED <<words, executing, shown, view, asked, terminator>>

-----------------------------------------------------------------------------
QueryInit ==
  /\ word = "nothing" /\ signal = FALSE /\ sql = 0 /\ executing = FALSE
  /\ worker = NoThread /\ posted = <<>>
  /\ lists = <<>> /\ current = 0 /\ spinning = FALSE
  /\ view = "none" /\ asked = 0
  /\ terminator \in BOOLEAN

QueryNext ==
  \/ OpenView \/ RunQuery \/ ExecuteSql \/ Abort \/ InfoRequest \/ SetEvent \/ Disconnect \/ OnDestroy \/ JoinThread
  \/ OnDataArrived
  \/ Loop \/ WaitForEvent \/ Take \/ TakeText \/ Clear \/ Start \/ Execute \/ ReadRecord \/ FinishPart \/ QueryDone

QuerySpec == QueryInit /\ [][QueryNext]_queryVars

-----------------------------------------------------------------------------
(* The types; the packet being filled has room for one more record. *)
QueryTypeOK ==
  /\ word \in Words /\ signal \in BOOLEAN /\ executing \in BOOLEAN
  /\ worker.word \in Words /\ worker.row \in Nat /\ worker.rows \in Nat
  /\ Len(worker.packet) < Chunk
  /\ current \in 0..Len(lists) /\ spinning \in BOOLEAN /\ asked \in 0..MaxAsked

(* The thread never waits while a word it has to take is there and nobody is *)
(* about to set the event.                                                 *)
RequestsNoticed ==
  worker.at = "wait" /\ word \notin {"nothing", "abort"} =>
    signal \/ view \in {"signal", "closing"}

(* Each list shows the records of one statement, from the first on, without *)
(* a gap; all lists are of one query; and when the statement is finished, no *)
(* record that was read is missing.                                        *)
RowsOfOneStatement ==
  /\ \A i \in 1..Len(lists) :
       LET l == lists[i] IN
       /\ l.rows = [n \in 1..Len(l.rows) |-> Append(l.of, n)]
       /\ l.read \subseteq {Len(l.rows)}
  /\ \A i, j \in 1..Len(lists) : i < j => /\ lists[i].of[1] = lists[j].of[1]
                                          /\ lists[i].of[2] < lists[j].of[2]

(* As long as the view has its window, the animation follows the query: it   *)
(* runs only while the query does or the packet that stops it is posted, and *)
(* while statements are run it runs, or the packet that starts it is posted, *)
(* also from one query to the next.  A view that is closed in mid-query      *)
(* throws its packets away and leaves the animation, which is that of the    *)
(* main frame, as it is (OnDestroy, ResultView.cpp:97-102); with no          *)
(* terminator set no query ever stops it (QueryThread.cpp:69).              *)
OnItsWay(type) == \E i \in 1..Len(posted) : posted[i].type = type
AnimationFollows ==
  terminator /\ ~WindowGone =>
    /\ spinning => executing \/ OnItsWay("done")
    /\ worker.at \in {"part", "rows", "affected"} => spinning \/ OnItsWay("start")

(* "We really need it to shut down though..." (Container.cpp:154), of the    *)
(* query that is aborted with its window: the GUI thread never waits for a   *)
(* thread that waits for the GUI thread.                                   *)
ShutsDown == ~(view = "aborted" /\ worker.at = "wait" /\ ~signal)

=============================================================================
