--------------------------- MODULE QueryThread_proofs ---------------------------
(***************************************************************************)
(* For every number of requests, statements and records: the types of       *)
(* QueryThread, that no request is slept over, that a list shows the records *)
(* of one statement, and that the animation follows the query.              *)
(***************************************************************************)
EXTENDS QueryThread, TLAPS

(* What the constants are. *)
Bounds ==
  /\ MaxAsked \in Nat /\ MaxParts \in Nat
  /\ Sizes \subseteq Nat /\ Chunk \in Nat \ {0}

Places  == {"none", "top", "wait", "woken", "state", "taken", "start", "part", "rows", "affected", "ended"}
Views   == {"none", "idle", "asking", "signal", "closing", "destroy", "aborted", "join", "closed"}
Types   == {"start", "columns", "rows", "finish", "done", "error"}
Rows    == Seq(Nat \X Nat \X Nat)
Worker  == [at : Places, word : Words, query : Nat, parts : Nat, part : Nat,
            rows : Nat, row : Nat, packet : Rows]
Packets == [type : Types, of : Nat \X Nat, cols : BOOLEAN, rows : Rows, read : Nat]
List    == [of : Nat \X Nat, rows : Rows, read : SUBSET Nat]

(* The types, in full. *)
TypeInv ==
  /\ word \in Words /\ signal \in BOOLEAN /\ sql \in Nat /\ executing \in BOOLEAN
  /\ worker \in Worker /\ Len(worker.packet) < Chunk
  /\ posted \in Seq(Packets)
  /\ lists \in Seq(List) /\ current \in 0..Len(lists) /\ spinning \in BOOLEAN
  /\ view \in Views /\ asked \in 0..MaxAsked /\ terminator \in BOOLEAN

-----------------------------------------------------------------------------
LEMMA NoRows == <<>> \in Rows
  BY DEF Rows

LEMMA InitTypes == Bounds /\ QueryInit => TypeInv
<1> SUFFICES ASSUME Bounds, QueryInit PROVE TypeInv
  OBVIOUS
<1>1. worker \in Worker /\ worker.packet = <<>>
  BY NoRows DEF QueryInit, NoThread, Worker, Places, Words
<1>2. Len(worker.packet) < Chunk
  BY <1>1 DEF Bounds
<1>3. posted \in Seq(Packets) /\ lists \in Seq(List) /\ current \in 0..Len(lists)
  BY DEF QueryInit
<1>4. word \in Words /\ view \in Views
  BY DEF QueryInit, Words, Views
<1>5. asked \in 0..MaxAsked
  BY DEF QueryInit, Bounds
<1>6. signal \in BOOLEAN /\ sql \in Nat /\ executing \in BOOLEAN /\ spinning \in BOOLEAN
      /\ terminator \in BOOLEAN
  BY DEF QueryInit
<1> QED BY <1>1, <1>2, <1>3, <1>4, <1>5, <1>6 DEF TypeInv

LEMMA Replaced ==
  ASSUME NEW S, NEW s \in Seq(S), NEW i \in 1..Len(s), NEW x \in S
  PROVE  [s EXCEPT ![i] = x] \in Seq(S) /\ Len([s EXCEPT ![i] = x]) = Len(s)
  OBVIOUS

LEMMA NextPartTypes == TypeInv => NextPart \in Worker /\ NextPart.packet = worker.packet
<1> SUFFICES ASSUME TypeInv PROVE NextPart \in Worker /\ NextPart.packet = worker.packet
  OBVIOUS
<1>1. worker \in Worker
  BY DEF TypeInv
<1>2. NextPart \in Worker
  <2>1. worker.part + 1 \in Nat /\ "part" \in Places
    BY <1>1 DEF Worker, Places
  <2> QED BY <1>1, <2>1 DEF NextPart, Worker
<1>3. NextPart.packet = worker.packet
  BY <1>1 DEF NextPart, Worker
<1> QED BY <1>2, <1>3

(* One packet more, two, or none. *)
LEMMA PostTypes ==
  ASSUME TypeInv, NEW s \in Seq(Packets), Post(s)
  PROVE  posted' \in Seq(Packets)
<1> HIDE DEF Packets
<1> QED BY DEF Post, TypeInv

LEMMA PostOne ==
  ASSUME TypeInv, NEW p \in Packets, Post(<<p>>)
  PROVE  posted' \in Seq(Packets)
<1>1. <<p>> \in Seq(Packets)
  OBVIOUS
<1> QED BY <1>1, PostTypes

LEMMA PacketTypes ==
  ASSUME TypeInv, NEW type \in Types, NEW cols \in BOOLEAN, NEW rows \in Rows, NEW read \in Nat
  PROVE  Packet(type, cols, rows, read) \in Packets
  BY DEF Packet, Of, Packets, TypeInv, Worker

LEMMA PlainTypes == ASSUME TypeInv, NEW type \in Types PROVE Plain(type) \in Packets
  BY PacketTypes, NoRows DEF Plain

LEMMA NextTypes == ASSUME Bounds, TypeInv, [QueryNext]_queryVars PROVE TypeInv'
<1> USE DEF Bounds
<1>0. CASE UNCHANGED queryVars
  BY <1>0 DEF TypeInv, queryVars, words, shown
<1>1. CASE OpenView
  BY <1>1 DEF OpenView, TypeInv, words, shown, Words, Worker, Places, Views
<1>2. CASE RunQuery \/ ExecuteSql \/ Abort \/ InfoRequest
  <2>1. ASSUME NEW w \in {"abort", "inforequest"}, Ask(w) PROVE TypeInv'
    BY <2>1 DEF Ask, TypeInv, shown, Words, Views
  <2>2. CASE RunQuery \/ ExecuteSql
    BY <2>2 DEF RunQuery, ExecuteSql, TypeInv, shown, Words, Views
  <2> QED BY <1>2, <2>1, <2>2 DEF Abort, InfoRequest
<1>3. CASE SetEvent
  BY <1>3 DEF SetEvent, TypeInv, shown, Views
<1>4. CASE Disconnect
  BY <1>4 DEF Disconnect, TypeInv, shown, Words, Views
<1>5. CASE OnDestroy
  BY <1>5 DEF OnDestroy, TypeInv, Words, Views
<1>6. CASE JoinThread
  BY <1>6 DEF JoinThread, TypeInv, words, shown, Views
<1>7. CASE OnDataArrived
  <2> DEFINE p == Head(posted)
  <2>1. posted # <<>> /\ posted' = Tail(posted)
        /\ UNCHANGED <<words, executing, worker, view, asked, terminator>>
    BY <1>7 DEF OnDataArrived
  <2>2. p \in Packets /\ posted' \in Seq(Packets)
    BY <2>1 DEF TypeInv
  <2>3. p.of \in Nat \X Nat /\ p.rows \in Rows /\ p.read \in Nat
        /\ p.cols \in BOOLEAN /\ p.type \in Types
    BY <2>2 DEF Packets
  <2>4. lists' \in Seq(List) /\ current' \in 0..Len(lists') /\ spinning' \in BOOLEAN
    <3>1. CASE p.type = "start"
      <4>1. lists' = <<>> /\ current' = 0 /\ spinning' = TRUE
        BY <1>7, <3>1 DEF OnDataArrived
      <4> QED BY <4>1
    <3>2. CASE p.type = "columns"
      <4>1. NewList(p) \in List
        BY <2>3, NoRows DEF NewList, List
      <4> HIDE DEF p
      <4>2. /\ current' = IF p.cols THEN Len(lists) + 1 ELSE 0
            /\ lists' = IF p.cols THEN Append(lists, NewList(p)) ELSE lists
            /\ UNCHANGED spinning
        BY <1>7, <3>2 DEF OnDataArrived, p
      <4> QED BY <4>1, <4>2 DEF TypeInv
    <3>3. CASE p.type = "rows"
      <4>1. CASE p.cols /\ current # 0
        <5>1. lists' = [lists EXCEPT ![current].rows = @ \o p.rows] /\ UNCHANGED <<current, spinning>>
          BY <1>7, <3>3, <4>1 DEF OnDataArrived
        <5>2. current \in 1..Len(lists) /\ lists[current] \in List
          BY <4>1 DEF TypeInv
        <5>3. [lists[current] EXCEPT !.rows = @ \o p.rows] \in List
          <6> HIDE DEF p
          <6>1. lists[current].rows \o p.rows \in Rows
            BY <5>2, <2>3 DEF List, Rows
          <6> QED BY <5>2, <6>1 DEF List
        <5>4. lists' = [lists EXCEPT ![current] = [lists[current] EXCEPT !.rows = @ \o p.rows]]
          BY <5>1
        <5> HIDE DEF p
        <5>5. lists' \in Seq(List) /\ Len(lists') = Len(lists)
          BY <5>2, <5>3, <5>4, Replaced DEF TypeInv
        <5> QED BY <5>1, <5>5 DEF TypeInv
      <4>2. CASE ~(p.cols /\ current # 0)
        BY <1>7, <3>3, <4>2 DEF OnDataArrived, TypeInv
      <4> QED BY <4>1, <4>2
    <3>4. CASE p.type = "finish"
      <4>1. CASE p.cols /\ current # 0
        <5>1. lists' = [lists EXCEPT ![current].read = {p.read}] /\ UNCHANGED <<current, spinning>>
          BY <1>7, <3>4, <4>1 DEF OnDataArrived
        <5>2. current \in 1..Len(lists) /\ lists[current] \in List
          BY <4>1 DEF TypeInv
        <5>3. [lists[current] EXCEPT !.read = {p.read}] \in List
          BY <5>2, <2>3 DEF List
        <5> QED BY <5>1, <5>2, <5>3 DEF TypeInv
      <4>2. CASE ~(p.cols /\ current # 0)
        BY <1>7, <3>4, <4>2 DEF OnDataArrived, TypeInv
      <4> QED BY <4>1, <4>2
    <3>5. CASE p.type \in {"done", "error"}
      BY <1>7, <3>5 DEF OnDataArrived, shown, TypeInv
    <3> QED BY <2>3, <3>1, <3>2, <3>3, <3>4, <3>5 DEF Types
  <2> QED BY <2>1, <2>2, <2>4 DEF TypeInv, words
<1>8. CASE Loop \/ WaitForEvent
  BY <1>8 DEF Loop, WaitForEvent, TypeInv, words, shown, Worker, Places
<1>9. CASE Take \/ TakeText
  BY <1>9 DEF Take, TakeText, TypeInv, words, shown, Worker, Places
<1>10. CASE Clear
  <2>1. /\ word' = "nothing" /\ \E at \in Places : worker' = [worker EXCEPT !.at = at]
        /\ UNCHANGED <<signal, sql, executing, posted, shown, view, asked, terminator>>
    BY <1>10 DEF Clear, Places
  <2> QED BY <2>1 DEF TypeInv, shown, Worker, Words
<1>11. CASE Start
  <2>1. posted' = posted \/ Post(<<Plain("start")>>)
    BY <1>11 DEF Start
  <2>2. posted' \in Seq(Packets)
    BY <2>1, PlainTypes, PostOne DEF Types, TypeInv
  <2>3. worker' \in Worker /\ worker'.packet = worker.packet
    <3>1. worker \in Worker
      BY DEF TypeInv
    <3>2. ASSUME NEW n \in 0..MaxParts, worker' = [worker EXCEPT !.at = "part", !.parts = n, !.part = 1]
          PROVE  worker' \in Worker /\ worker'.packet = worker.packet
      <4>1. worker' \in Worker
        <5>1. n \in Nat /\ "part" \in Places
          BY DEF Places
        <5> QED BY <3>1, <3>2, <5>1 DEF Worker
      <4>2. worker'.packet = worker.packet
        BY <3>1, <3>2 DEF Worker
      <4> QED BY <4>1, <4>2
    <3>3. ASSUME worker' = [worker EXCEPT !.at = "top"]
          PROVE  worker' \in Worker /\ worker'.packet = worker.packet
      BY <3>1, <3>3 DEF Worker, Places
    <3> QED BY <1>11, <3>2, <3>3 DEF Start
  <2>4. executing' \in BOOLEAN
    BY <1>11 DEF Start, TypeInv
  <2>5. UNCHANGED <<words, shown, view, asked, terminator>>
    BY <1>11 DEF Start
  <2> QED BY <2>2, <2>3, <2>4, <2>5 DEF TypeInv, words, shown
<1>12. CASE Execute
  <2>1. CASE Post(<<Plain("error")>>) /\ worker' = NextPart
    <3>1. posted' \in Seq(Packets)
      BY <2>1, PlainTypes, PostOne DEF Types
    <3>2. UNCHANGED <<words, executing, shown, view, asked, terminator>>
      BY <1>12 DEF Execute
    <3>3. worker' \in Worker /\ worker'.packet = worker.packet
      BY <2>1, NextPartTypes
    <3> QED BY <3>1, <3>2, <3>3 DEF TypeInv, words, shown
  <2>2. ASSUME NEW cols \in BOOLEAN, NEW n \in Nat,
               Post(<<Packet("columns", cols, <<>>, 0)>>),
               worker' = [worker EXCEPT !.at = IF cols THEN "rows" ELSE "affected", !.rows = n,
                                        !.row = 0, !.packet = <<>>]
        PROVE  TypeInv'
    <3>1. Packet("columns", cols, <<>>, 0) \in Packets
      BY PacketTypes, NoRows DEF Types
    <3>2. posted' \in Seq(Packets)
      BY <2>2, <3>1, PostOne
    <3>3. worker' \in Worker /\ worker'.packet = <<>>
      BY <2>2, NoRows DEF TypeInv, Worker, Places
    <3>4. Len(worker'.packet) < Chunk
      BY <3>3
    <3> QED BY <1>12, <3>2, <3>3, <3>4 DEF Execute, TypeInv, words, shown
  <2>3. \/ Post(<<Plain("error")>>) /\ worker' = NextPart
        \/ \E cols \in BOOLEAN, n \in Nat :
             /\ Post(<<Packet("columns", cols, <<>>, 0)>>)
             /\ worker' = [worker EXCEPT !.at = IF cols THEN "rows" ELSE "affected", !.rows = n,
                                         !.row = 0, !.packet = <<>>]
    BY <1>12 DEF Execute
  <2> QED BY <2>1, <2>2, <2>3
<1>13. CASE ReadRecord
  <2> DEFINE packet == Append(worker.packet, <<worker.query, worker.part, worker.row + 1>>)
             rest == IF Len(packet) >= Chunk THEN <<>> ELSE packet
             last == IF Interrupts THEN worker.row + 1 ELSE worker.rows
  <2>1. packet \in Rows /\ Len(packet) \in Nat
    BY DEF TypeInv, Worker, Rows
  <2>2. posted' \in Seq(Packets)
    <3>1. Packet("rows", TRUE, packet, 0) \in Packets
      BY <2>1, PacketTypes DEF Types
    <3>2. Post(<<Packet("rows", TRUE, packet, 0)>>) \/ Post(<<>>)
      BY <1>13 DEF ReadRecord
    <3>3. <<>> \in Seq(Packets)
      OBVIOUS
    <3> QED BY <3>1, <3>2, <3>3, PostOne, PostTypes
  <2>3. worker' = [worker EXCEPT !.row = @ + 1, !.rows = last, !.packet = rest]
    BY <1>13 DEF ReadRecord
  <2>4. rest \in Rows /\ Len(rest) < Chunk
    BY <2>1, NoRows
  <2>5. last \in Nat
    BY DEF TypeInv, Worker
  <2>6. worker' \in Worker /\ Len(worker'.packet) < Chunk
    <3> HIDE DEF rest, last
    <3>1. worker \in Worker
      BY DEF TypeInv
    <3>2. worker.row + 1 \in Nat
      BY <3>1 DEF Worker
    <3>3. worker' \in Worker
      BY <2>3, <2>4, <2>5, <3>1, <3>2 DEF Worker
    <3>4. worker'.packet = rest
      BY <2>3, <3>1 DEF Worker
    <3> QED BY <2>4, <3>3, <3>4
  <2>7. UNCHANGED <<words, executing, shown, view, asked, terminator>>
    BY <1>13 DEF ReadRecord
  <2> QED BY <2>2, <2>6, <2>7 DEF TypeInv, words, shown
<1>14. CASE FinishPart
  <2>1. /\ Post(<<Packet("rows", worker.at = "rows", worker.packet, 0),
                  Packet("finish", worker.at = "rows", <<>>, worker.row)>>)
        /\ worker' = NextPart
        /\ UNCHANGED <<words, executing, shown, view, asked, terminator>>
    BY <1>14 DEF FinishPart
  <2>2. ASSUME NEW p \in Packets, NEW q \in Packets PROVE <<p, q>> \in Seq(Packets)
    OBVIOUS
  <2>3. Packet("rows", worker.at = "rows", worker.packet, 0) \in Packets
    BY PacketTypes DEF Types, TypeInv, Worker
  <2>4. Packet("finish", worker.at = "rows", <<>>, worker.row) \in Packets
    BY PacketTypes, NoRows DEF Types, TypeInv, Worker
  <2>5. posted' \in Seq(Packets)
    BY <2>1, <2>2, <2>3, <2>4, PostTypes
  <2>6. worker' \in Worker /\ worker'.packet = worker.packet
    BY <2>1, NextPartTypes
  <2> QED BY <2>1, <2>5, <2>6 DEF TypeInv, words, shown
<1>15. CASE QueryDone
  <2>1. posted' \in Seq(Packets)
    BY <1>15, PlainTypes, PostOne DEF QueryDone, Types
  <2> QED BY <1>15, <2>1 DEF QueryDone, TypeInv, words, shown, Worker, Places
<1> QED
  BY <1>0, <1>1, <1>2, <1>3, <1>4, <1>5, <1>6, <1>7, <1>8, <1>9, <1>10, <1>11, <1>12, <1>13,
     <1>14, <1>15 DEF QueryNext

(* Every variable keeps its type, and a packet that is being filled always   *)
(* has room for one record (pRowInfo->pstrData, QueryThread.cpp:145).        *)
THEOREM TypesCorrect == ASSUME Bounds PROVE QuerySpec => []QueryTypeOK
<1>1. QueryInit => TypeInv
  BY InitTypes
<1>2. TypeInv /\ [QueryNext]_queryVars => TypeInv'
  BY NextTypes
<1>3. TypeInv => QueryTypeOK
  BY DEF TypeInv, QueryTypeOK, Worker
<1> QED BY <1>1, <1>2, <1>3, PTL DEF QuerySpec

-----------------------------------------------------------------------------
(* A request that is there without the event having been set is about to be  *)
(* taken, or to be lost between taking and clearing.                        *)
NoticeInv ==
  word \notin {"nothing", "abort"} /\ ~signal /\ view \notin {"signal", "closing"} =>
    worker.at \in {"woken", "state", "taken"}

LEMMA NextNotices ==
  ASSUME TypeInv, NoticeInv, [QueryNext]_queryVars PROVE NoticeInv'
<1>0. CASE UNCHANGED queryVars
  BY <1>0 DEF NoticeInv, queryVars, words
<1>1. CASE OpenView
  BY <1>1 DEF OpenView, NoticeInv
<1>2. CASE RunQuery \/ ExecuteSql \/ Abort \/ InfoRequest
  BY <1>2 DEF RunQuery, ExecuteSql, Abort, InfoRequest, Ask, NoticeInv
<1>3. CASE SetEvent \/ Disconnect
  BY <1>3 DEF SetEvent, Disconnect, NoticeInv
<1>4. CASE OnDestroy
  BY <1>4 DEF OnDestroy, NoticeInv
<1>5. CASE JoinThread \/ OnDataArrived
  BY <1>5 DEF JoinThread, Joining, OnDataArrived, words, NoticeInv
<1>6. CASE Loop
  BY <1>6 DEF Loop, words, NoticeInv
<1>7. CASE WaitForEvent \/ Take \/ TakeText
  <2>1. worker' \in Worker /\ worker'.at \in {"woken", "state", "taken"}
    BY <1>7 DEF WaitForEvent, Take, TakeText, TypeInv, Worker, Places
  <2> QED BY <2>1 DEF NoticeInv
<1>8. CASE Clear
  BY <1>8 DEF Clear, NoticeInv
<1>9. CASE Start \/ Execute \/ ReadRecord \/ FinishPart \/ QueryDone
  <2>1. worker.at \notin {"woken", "state", "taken"} /\ UNCHANGED <<words, view>>
    BY <1>9 DEF Start, Execute, ReadRecord, FinishPart, QueryDone
  <2> QED BY <2>1 DEF words, NoticeInv
<1> QED
  BY <1>0, <1>1, <1>2, <1>3, <1>4, <1>5, <1>6, <1>7, <1>8, <1>9 DEF QueryNext

(* However requests, aborts and the closing of the view are timed, the       *)
(* thread does not sleep over an order it can still see: what is lost is     *)
(* lost by being overwritten or cleared (QueryThread.cpp:38-42).            *)
THEOREM NoRequestSleptOver == ASSUME Bounds PROVE QuerySpec => []RequestsNoticed
<1>1. QueryInit => TypeInv /\ NoticeInv
  BY InitTypes DEF QueryInit, NoticeInv
<1>2. TypeInv /\ NoticeInv /\ [QueryNext]_queryVars => (TypeInv /\ NoticeInv)'
  BY NextTypes, NextNotices
<1>3. NoticeInv => RequestsNoticed
  BY DEF NoticeInv, RequestsNoticed
<1> QED BY <1>1, <1>2, <1>3, PTL DEF QuerySpec

-----------------------------------------------------------------------------
(* The last packet of a query is posted, or the thread will post it.        *)
Running == worker.at \in {"part", "rows", "affected"}
EndAfter(i) == \E j \in DOMAIN posted : j > i /\ posted[j].type = "done"
AnimationInv ==
  terminator /\ ~WindowGone =>
    /\ Running => executing
    /\ spinning => Running \/ EndAfter(0)
    /\ \A i \in DOMAIN posted : posted[i].type = "start" => Running \/ EndAfter(i)

(* The thread is started with the view. *)
OpenedInv == view = "none" => worker.at = "none"

LEMMA NextOpened ==
  ASSUME OpenedInv, [QueryNext]_queryVars PROVE OpenedInv'
<1>1. CASE UNCHANGED <<view, worker>>
  BY <1>1 DEF OpenedInv
<1>2. CASE view' # "none"
  BY <1>2 DEF OpenedInv
<1>3. CASE \/ Loop \/ WaitForEvent \/ Take \/ TakeText \/ Clear
           \/ Start \/ Execute \/ ReadRecord \/ FinishPart \/ QueryDone
  BY <1>3 DEF Loop, WaitForEvent, Take, TakeText, Clear, Start, Execute, ReadRecord, FinishPart, QueryDone, OpenedInv
<1>4. CASE \/ OpenView \/ RunQuery \/ ExecuteSql \/ Abort \/ InfoRequest
           \/ SetEvent \/ Disconnect \/ OnDestroy \/ JoinThread
  BY <1>2, <1>4 DEF OpenView, RunQuery, ExecuteSql, Abort, InfoRequest, Ask, SetEvent, Disconnect, OnDestroy, JoinThread
<1>5. CASE OnDataArrived
  BY <1>1, <1>5 DEF OnDataArrived
<1> QED
  BY <1>1, <1>3, <1>4, <1>5 DEF QueryNext, queryVars

(* More packets, while the query goes on. *)
LEMMA StillRunning ==
  ASSUME Running', executing', UNCHANGED <<view, terminator>> PROVE AnimationInv'
  BY DEF AnimationInv

(* Steps that change nothing but the word, the event or the window. *)
LEMMA Unmoved ==
  ASSUME AnimationInv, UNCHANGED <<worker, posted, spinning, terminator, executing>>,
         WindowGone => WindowGone'
  PROVE  AnimationInv'
  BY DEF AnimationInv, Running, EndAfter

LEMMA NotRunning ==
  ASSUME AnimationInv, ~Running, UNCHANGED <<posted, spinning, view, terminator>>
  PROVE  AnimationInv' \/ Running'
  BY DEF AnimationInv, EndAfter, WindowGone, Joining

LEMMA PostEnd ==
  ASSUME TypeInv, AnimationInv, QueryDone PROVE AnimationInv'
<1> SUFFICES ASSUME terminator, ~WindowGone PROVE AnimationInv'
  BY DEF QueryDone, AnimationInv, WindowGone, Joining
<1>1. posted' = Append(posted, Plain("done")) /\ posted \in Seq(Packets)
  <2>1. posted' = posted \o <<Plain("done")>>
    BY DEF QueryDone, Post
  <2>2. Plain("done") \in Packets
    BY PlainTypes DEF Types
  <2> QED BY <2>1, <2>2 DEF TypeInv
<1>2. Plain("done").type = "done"
  BY DEF Plain, Packet
<1>3. Len(posted) \in Nat /\ DOMAIN posted' = 1..(Len(posted) + 1) /\ posted'[Len(posted) + 1].type = "done"
      /\ \A i \in 1..Len(posted) : posted'[i] = posted[i]
  BY <1>1, <1>2
<1>4. \A i \in 0..Len(posted) : EndAfter(i)'
  BY <1>3 DEF EndAfter
<1>5. ~Running'
  BY DEF QueryDone, Running, TypeInv, Worker
<1>6. \A i \in DOMAIN posted' : posted'[i].type = "start" => EndAfter(i)'
  BY <1>3, <1>4
<1> QED BY <1>3, <1>4, <1>5, <1>6 DEF AnimationInv

LEMMA Arrive ==
  ASSUME TypeInv, AnimationInv, OnDataArrived PROVE AnimationInv'
<1> SUFFICES ASSUME terminator, ~WindowGone PROVE AnimationInv'
  BY DEF OnDataArrived, AnimationInv, WindowGone, Joining
<1>1. /\ posted # <<>> /\ posted' = Tail(posted) /\ posted \in Seq(Packets)
      /\ UNCHANGED <<words, executing, worker, view, terminator>>
  BY DEF OnDataArrived, TypeInv
<1>2. /\ Len(posted) \in Nat /\ DOMAIN posted = 1..Len(posted) /\ DOMAIN posted' = 1..(Len(posted) - 1)
      /\ \A i \in 1..(Len(posted) - 1) : posted'[i] = posted[i + 1]
      /\ 1 \in DOMAIN posted /\ Head(posted) = posted[1]
  BY <1>1
<1>3. ASSUME NEW i \in 0..(Len(posted) - 1), EndAfter(i + 1) PROVE EndAfter(i)'
  <2>1. PICK j \in DOMAIN posted : j > i + 1 /\ posted[j].type = "done"
    BY <1>3 DEF EndAfter
  <2>2. j - 1 \in DOMAIN posted' /\ j - 1 > i /\ posted'[j - 1] = posted[j]
    BY <1>2, <2>1
  <2> QED BY <2>1, <2>2 DEF EndAfter
<1>4. \A i \in DOMAIN posted' : posted'[i].type = "start" => Running \/ EndAfter(i)'
  <2> TAKE i \in DOMAIN posted'
  <2> HAVE posted'[i].type = "start"
  <2>1. i + 1 \in DOMAIN posted /\ posted[i + 1].type = "start" /\ i \in 0..(Len(posted) - 1)
    BY <1>2
  <2>2. Running \/ EndAfter(i + 1)
    BY <2>1 DEF AnimationInv
  <2> QED BY <1>3, <2>1, <2>2
<1>5. spinning' => Running \/ EndAfter(0)'
  <2> HAVE spinning'
  <2>1. Head(posted).type = "start" \/ (spinning /\ Head(posted).type # "done")
    <3>1. Head(posted).type \in Types
      <4>1. posted[1] \in Packets
        BY <1>1, <1>2
      <4> QED BY <1>2, <4>1 DEF Packets
    <3>2. CASE Head(posted).type = "done"
      BY <3>2 DEF OnDataArrived
    <3>3. CASE Head(posted).type \in {"columns", "rows", "finish", "error"}
      <4>1. UNCHANGED spinning
        BY <3>3 DEF OnDataArrived, shown
      <4> QED BY <3>3, <4>1
    <3> QED BY <3>1, <3>2, <3>3 DEF Types
  <2>2. Running \/ EndAfter(1)
    <3>1. CASE Head(posted).type = "start"
      BY <1>2, <3>1 DEF AnimationInv
    <3>2. CASE spinning /\ Head(posted).type # "done"
      <4>1. CASE Running
        BY <4>1
      <4>2. CASE EndAfter(0)
        <5>1. PICK j \in DOMAIN posted : j > 0 /\ posted[j].type = "done"
          BY <4>2 DEF EndAfter
        <5>2. j > 1
          BY <1>2, <3>2, <5>1
        <5> QED BY <5>1, <5>2 DEF EndAfter
      <4> QED BY <3>2, <4>1, <4>2 DEF AnimationInv
    <3> QED BY <2>1, <3>1, <3>2
  <2>3. 0 \in 0..(Len(posted) - 1)
    BY <1>2
  <2> QED BY <1>3, <2>2, <2>3
<1>6. Running' = Running
  BY <1>1 DEF Running
<1> QED BY <1>1, <1>4, <1>5, <1>6 DEF AnimationInv

(* Between two queries no statement is run. *)
LEMMA Elsewhere ==
  ASSUME TypeInv, Loop \/ WaitForEvent \/ Take \/ TakeText \/ Clear PROVE ~Running'
<1>1. worker \in Worker
  BY DEF TypeInv
<1>2. CASE Clear
  <2>1. \E at \in {"top", "start", "ended"} : worker' = [worker EXCEPT !.at = at]
    BY <1>2 DEF Clear
  <2> QED BY <1>1, <2>1 DEF Running, Worker
<1>3. CASE Loop \/ WaitForEvent \/ Take \/ TakeText
  BY <1>1, <1>3 DEF Loop, WaitForEvent, Take, TakeText, Running, Worker
<1> QED BY <1>2, <1>3

LEMMA NextAnimates ==
  ASSUME TypeInv, OpenedInv, AnimationInv, [QueryNext]_queryVars PROVE AnimationInv'
<1>0. CASE UNCHANGED queryVars
  BY <1>0, Unmoved DEF queryVars, shown, WindowGone, Joining
<1>1. CASE OpenView
  <2>1. ~Running /\ UNCHANGED <<posted, spinning, terminator>>
    BY <1>1 DEF OpenView, OpenedInv, Running, shown
  <2>2. ~Running' /\ ~WindowGone
    BY <1>1 DEF OpenView, Running, WindowGone, Joining, TypeInv, Worker
  <2> QED BY <2>1, <2>2 DEF AnimationInv, EndAfter
<1>2. CASE RunQuery \/ ExecuteSql \/ Abort \/ InfoRequest
  BY <1>2, Unmoved DEF RunQuery, ExecuteSql, Abort, InfoRequest, Ask, shown, WindowGone, Joining
<1>3. CASE SetEvent \/ Disconnect \/ JoinThread
  BY <1>3, Unmoved DEF SetEvent, Disconnect, JoinThread, shown, WindowGone, Joining
<1>4. CASE OnDestroy
  BY <1>4 DEF OnDestroy, AnimationInv, WindowGone, Joining
<1>5. CASE OnDataArrived
  BY <1>5, Arrive
<1>6. CASE Loop \/ WaitForEvent \/ Take \/ TakeText \/ Clear
  <2>1. ~Running /\ UNCHANGED <<posted, spinning, view, terminator>>
    BY <1>6 DEF Loop, WaitForEvent, Take, TakeText, Clear, Running, shown
  <2>2. ~Running'
    BY <1>6, Elsewhere
  <2> QED BY <2>1, <2>2, NotRunning
<1>7. CASE Start
  <2>1. CASE worker' = [worker EXCEPT !.at = "top"] /\ UNCHANGED <<executing, posted>>
    <3>1. ~Running /\ ~Running' /\ UNCHANGED <<posted, spinning, view, terminator>>
      BY <1>7, <2>1 DEF Start, Running, shown, TypeInv, Worker
    <3> QED BY <3>1, NotRunning
  <2>2. CASE executing' /\ terminator
             /\ \E n \in 0..MaxParts : worker' = [worker EXCEPT !.at = "part", !.parts = n, !.part = 1]
    <3>1. Running'
      BY <2>2 DEF Running, TypeInv, Worker
    <3> QED BY <1>7, <2>2, <3>1, StillRunning DEF Start
  <2>3. CASE ~terminator
    BY <1>7, <2>3 DEF Start, AnimationInv
  <2> QED BY <1>7, <2>1, <2>2, <2>3 DEF Start
<1>8. CASE Execute \/ ReadRecord \/ FinishPart
  <2>1. Running /\ Running' /\ UNCHANGED <<view, terminator, executing>>
    <3>1. Running
      BY <1>8 DEF Execute, ReadRecord, FinishPart, Running
    <3>2. UNCHANGED <<view, terminator, executing>>
      BY <1>8 DEF Execute, ReadRecord, FinishPart
    <3>3. worker \in Worker
      BY DEF TypeInv
    <3>4. Running'
      <4>1. CASE Execute
        BY <3>3, <4>1 DEF Execute, NextPart, Running, Worker
      <4>2. CASE ReadRecord
        BY <3>3, <4>2 DEF ReadRecord, Running, Worker
      <4>3. CASE FinishPart
        BY <3>3, <4>3 DEF FinishPart, NextPart, Running, Worker
      <4> QED BY <1>8, <4>1, <4>2, <4>3
    <3> QED BY <3>1, <3>2, <3>4
  <2>2. CASE terminator /\ ~WindowGone
    <3>1. executing'
      BY <2>1, <2>2 DEF AnimationInv
    <3> QED BY <2>1, <3>1, StillRunning
  <2>3. CASE ~(terminator /\ ~WindowGone)
    BY <2>1, <2>3 DEF AnimationInv, WindowGone, Joining
  <2> QED BY <2>2, <2>3
<1>9. CASE QueryDone
  BY <1>9, PostEnd
<1> QED
  BY <1>0, <1>1, <1>2, <1>3, <1>4, <1>5, <1>6, <1>7, <1>8, <1>9 DEF QueryNext

(* While statements are run the animation runs and nothing posted stops it,  *)
(* or what starts it is posted behind whatever stops it.                    *)
StartInv ==
  ~WindowGone /\ Running =>
    \/ spinning /\ ~EndAfter(0)
    \/ \E i \in DOMAIN posted : posted[i].type = "start" /\ ~EndAfter(i)

(* More packets, none of which is the last of the query. *)
LEMMA NoEndPosted ==
  ASSUME TypeInv, StartInv, Running, ~WindowGone, NEW q \in Seq(Packets), posted' = posted \o q,
         \A k \in 1..Len(q) : q[k].type # "done", UNCHANGED spinning
  PROVE  StartInv'
<1>1. posted \in Seq(Packets) /\ Len(posted) \in Nat /\ Len(q) \in Nat
      /\ DOMAIN posted = 1..Len(posted) /\ DOMAIN posted' = 1..(Len(posted) + Len(q))
      /\ \A i \in 1..Len(posted) : posted'[i] = posted[i]
  <2>1. posted \in Seq(Packets)
    BY DEF TypeInv
  <2> HIDE DEF Packets
  <2> QED BY <2>1
<1>2. \A j \in DOMAIN posted' : j \notin DOMAIN posted => posted'[j].type # "done"
  <2> TAKE j \in DOMAIN posted'
  <2> HAVE j \notin DOMAIN posted
  <2>1. j - Len(posted) \in 1..Len(q)
    BY <1>1
  <2>2. posted'[j] = q[j - Len(posted)]
    <3> HIDE DEF Packets
    <3> QED BY <1>1, <2>1
  <2> QED BY <2>1, <2>2
<1>3. ASSUME NEW i \in 0..Len(posted), EndAfter(i)' PROVE EndAfter(i)
  BY <1>1, <1>2, <1>3 DEF EndAfter
<1>4. 0 \in 0..Len(posted) /\ DOMAIN posted \subseteq 0..Len(posted) /\ DOMAIN posted \subseteq DOMAIN posted'
  BY <1>1
<1>5. CASE spinning /\ ~EndAfter(0)
  BY <1>3, <1>4, <1>5 DEF StartInv
<1>6. ASSUME NEW i \in DOMAIN posted, posted[i].type = "start", ~EndAfter(i) PROVE StartInv'
  <2>1. posted'[i].type = "start" /\ ~EndAfter(i)'
    BY <1>1, <1>3, <1>4, <1>6
  <2> QED BY <1>4, <2>1 DEF StartInv
<1> QED BY <1>5, <1>6 DEF StartInv

LEMMA StartPosted ==
  ASSUME TypeInv, Post(<<Plain("start")>>), ~WindowGone PROVE StartInv'
<1>1. posted' = Append(posted, Plain("start")) /\ posted \in Seq(Packets)
  <2>1. posted' = posted \o <<Plain("start")>>
    BY DEF Post
  <2>2. Plain("start") \in Packets
    BY PlainTypes DEF Types
  <2> QED BY <2>1, <2>2 DEF TypeInv
<1>2. Plain("start").type = "start"
  BY DEF Plain, Packet
<1>3. Len(posted) + 1 \in DOMAIN posted' /\ posted'[Len(posted) + 1].type = "start"
      /\ DOMAIN posted' = 1..(Len(posted) + 1) /\ Len(posted) \in Nat
  BY <1>1, <1>2
<1>4. PICK n : n = Len(posted) + 1
  OBVIOUS
<1>5. ~EndAfter(n)'
  BY <1>3, <1>4 DEF EndAfter
<1> QED BY <1>3, <1>4, <1>5 DEF StartInv

LEMMA StartArrives ==
  ASSUME TypeInv, StartInv, OnDataArrived PROVE StartInv'
<1> SUFFICES ASSUME Running, ~WindowGone PROVE StartInv'
  BY DEF OnDataArrived, StartInv, WindowGone, Joining, Running
<1>1. /\ posted # <<>> /\ posted' = Tail(posted) /\ posted \in Seq(Packets)
  BY DEF OnDataArrived, TypeInv
<1>2. /\ Len(posted) \in Nat /\ DOMAIN posted = 1..Len(posted) /\ DOMAIN posted' = 1..(Len(posted) - 1)
      /\ \A i \in 1..(Len(posted) - 1) : posted'[i] = posted[i + 1]
      /\ 1 \in DOMAIN posted /\ Head(posted) = posted[1] /\ posted[1] \in Packets
  BY <1>1
<1>3. ASSUME NEW i \in 0..(Len(posted) - 1), EndAfter(i)' PROVE EndAfter(i + 1)
  <2>1. PICK j \in DOMAIN posted' : j > i /\ posted'[j].type = "done"
    BY <1>3 DEF EndAfter
  <2>2. j + 1 \in DOMAIN posted /\ j + 1 > i + 1 /\ posted[j + 1].type = "done"
    BY <1>2, <2>1
  <2> QED BY <2>2 DEF EndAfter
<1>4. CASE spinning /\ ~EndAfter(0)
  <2>1. Head(posted).type # "done"
    BY <1>2, <1>4 DEF EndAfter
  <2>2. spinning'
    <3>1. Head(posted).type \in Types
      BY <1>2 DEF Packets
    <3>2. CASE Head(posted).type = "start"
      BY <3>2 DEF OnDataArrived
    <3>3. CASE Head(posted).type \in {"columns", "rows", "finish", "error"}
      BY <1>4, <3>3 DEF OnDataArrived, shown
    <3> QED BY <2>1, <3>1, <3>2, <3>3 DEF Types
  <2>3. ~EndAfter(0)'
    <3>1. ~EndAfter(1)
      BY <1>2, <1>4 DEF EndAfter
    <3> QED BY <1>2, <1>3, <3>1
  <2> QED BY <2>2, <2>3 DEF StartInv
<1>5. ASSUME NEW i \in DOMAIN posted, posted[i].type = "start", ~EndAfter(i) PROVE StartInv'
  <2>1. CASE i = 1
    <3>1. spinning'
      BY <1>2, <1>5, <2>1 DEF OnDataArrived
    <3>2. ~EndAfter(0)'
      BY <1>2, <1>3, <1>5, <2>1
    <3> QED BY <3>1, <3>2 DEF StartInv
  <2>2. CASE i # 1
    <3>1. i - 1 \in DOMAIN posted' /\ posted'[i - 1].type = "start" /\ i - 1 \in 0..(Len(posted) - 1)
      BY <1>2, <1>5, <2>2
    <3>2. ~EndAfter(i - 1)'
      BY <1>2, <1>3, <1>5, <3>1
    <3> QED BY <3>1, <3>2 DEF StartInv
  <2> QED BY <2>1, <2>2
<1> QED BY <1>4, <1>5 DEF StartInv

LEMMA NextStarts ==
  ASSUME TypeInv, OpenedInv, StartInv, [QueryNext]_queryVars PROVE StartInv'
<1>0. ASSUME UNCHANGED <<worker, posted, spinning>>, WindowGone => WindowGone' PROVE StartInv'
  BY <1>0 DEF StartInv, Running, EndAfter
<1>1. ASSUME ~Running' PROVE StartInv'
  BY <1>1 DEF StartInv
<1>2. CASE UNCHANGED queryVars
  BY <1>0, <1>2 DEF queryVars, shown, WindowGone, Joining
<1>3. CASE OpenView
  BY <1>1, <1>3 DEF OpenView, Running, TypeInv, Worker
<1>4. CASE RunQuery \/ ExecuteSql \/ Abort \/ InfoRequest
  BY <1>0, <1>4 DEF RunQuery, ExecuteSql, Abort, InfoRequest, Ask, shown, WindowGone, Joining
<1>5. CASE SetEvent \/ Disconnect \/ JoinThread
  BY <1>0, <1>5 DEF SetEvent, Disconnect, JoinThread, shown, WindowGone, Joining
<1>6. CASE OnDestroy
  BY <1>6 DEF OnDestroy, StartInv, WindowGone, Joining
<1>7. CASE OnDataArrived
  BY <1>7, StartArrives
<1>8. CASE Loop \/ WaitForEvent \/ Take \/ TakeText \/ Clear
  BY <1>1, <1>8, Elsewhere
<1>9. CASE Start
  <2>1. CASE worker' = [worker EXCEPT !.at = "top"]
    BY <1>1, <2>1 DEF Running, TypeInv, Worker
  <2>2. CASE Post(<<Plain("start")>>) /\ ~WindowGone
    BY <2>2, StartPosted
  <2>3. CASE WindowGone
    BY <1>9, <2>3 DEF Start, StartInv, WindowGone, Joining
  <2> QED BY <1>9, <2>1, <2>2, <2>3 DEF Start
<1>10. CASE (Execute \/ ReadRecord \/ FinishPart) /\ WindowGone
  BY <1>10 DEF Execute, ReadRecord, FinishPart, StartInv, WindowGone, Joining
<1>11. CASE (Execute \/ ReadRecord \/ FinishPart) /\ ~WindowGone
  <2>1. Running /\ UNCHANGED spinning
    BY <1>11 DEF Execute, ReadRecord, FinishPart, Running, shown
  <2>2. ASSUME NEW q \in Seq(Packets), Post(q), \A k \in 1..Len(q) : q[k].type # "done" PROVE StartInv'
    BY <1>11, <2>1, <2>2, NoEndPosted DEF Post
  <2>3. ASSUME NEW type \in Types \ {"done"}, NEW cols \in BOOLEAN, NEW rows \in Rows, NEW read \in Nat
        PROVE  Packet(type, cols, rows, read) \in Packets /\ Packet(type, cols, rows, read).type # "done"
    BY PacketTypes DEF Packet
  <2>4. ASSUME NEW p \in Packets, p.type # "done", Post(<<p>>) PROVE StartInv'
    <3>1. <<p>> \in Seq(Packets) /\ \A k \in 1..Len(<<p>>) : <<p>>[k].type # "done"
      BY <2>4
    <3> QED BY <2>2, <2>4, <3>1
  <2>5. CASE Execute
    <3>1. CASE Post(<<Plain("error")>>)
      <4>1. Plain("error") \in Packets /\ Plain("error").type # "done"
        BY PlainTypes DEF Plain, Packet, Types
      <4> QED BY <2>4, <3>1, <4>1
    <3>2. ASSUME NEW cols \in BOOLEAN, Post(<<Packet("columns", cols, <<>>, 0)>>) PROVE StartInv'
      BY <2>3, <2>4, <3>2, NoRows DEF Types
    <3> QED BY <2>5, <3>1, <3>2 DEF Execute
  <2>6. CASE ReadRecord
    <3> DEFINE packet == Append(worker.packet, <<worker.query, worker.part, worker.row + 1>>)
    <3>1. packet \in Rows
      BY DEF TypeInv, Worker, Rows
    <3>2. Post(<<Packet("rows", TRUE, packet, 0)>>) \/ Post(<<>>)
      BY <2>6 DEF ReadRecord
    <3> HIDE DEF packet
    <3>3. CASE Post(<<Packet("rows", TRUE, packet, 0)>>)
      BY <2>3, <2>4, <3>1, <3>3 DEF Types
    <3>4. CASE Post(<<>>)
      <4>1. <<>> \in Seq(Packets) /\ \A k \in 1..Len(<<>>) : <<>>[k].type # "done"
        OBVIOUS
      <4> QED BY <2>2, <3>4, <4>1
    <3> QED BY <3>2, <3>3, <3>4
  <2>7. CASE FinishPart
    <3>1. PICK cols \in BOOLEAN, rows \in Rows, read \in Nat :
            cols = (worker.at = "rows") /\ rows = worker.packet /\ read = worker.row
      BY DEF TypeInv, Worker
    <3>2. PICK p, r : p = Packet("rows", cols, rows, 0) /\ r = Packet("finish", cols, <<>>, read)
      OBVIOUS
    <3>3. p \in Packets /\ p.type # "done"
      BY <2>3, <3>2 DEF Types
    <3>4. r \in Packets /\ r.type # "done"
      BY <2>3, <3>2, NoRows DEF Types
    <3>5. <<p, r>> \in Seq(Packets) /\ \A k \in 1..Len(<<p, r>>) : <<p, r>>[k].type # "done"
      BY <3>3, <3>4
    <3>6. Post(<<p, r>>)
      BY <2>7, <3>1, <3>2 DEF FinishPart
    <3> QED BY <2>2, <3>5, <3>6
  <2> QED BY <1>11, <2>5, <2>6, <2>7
<1>12. CASE QueryDone
  BY <1>1, <1>12 DEF QueryDone, Running, TypeInv, Worker
<1> QED
  BY <1>2, <1>3, <1>4, <1>5, <1>6, <1>7, <1>8, <1>9, <1>10, <1>11, <1>12 DEF QueryNext

(* Whatever statements fail, are aborted or return nothing, and from one     *)
(* query to the next: as long as the view has its window and a terminator is *)
(* set, the animation runs while the query does, but for packets that are    *)
(* still to arrive.                                                        *)
THEOREM AnimationFollowsQuery == ASSUME Bounds PROVE QuerySpec => []AnimationFollows
<1>1. QueryInit => TypeInv /\ OpenedInv /\ AnimationInv /\ StartInv
  BY InitTypes DEF QueryInit, OpenedInv, AnimationInv, StartInv, Running, NoThread
<1>2. TypeInv /\ OpenedInv /\ AnimationInv /\ StartInv /\ [QueryNext]_queryVars
        => (TypeInv /\ OpenedInv /\ AnimationInv /\ StartInv)'
  BY NextTypes, NextOpened, NextAnimates, NextStarts
<1>3. TypeInv /\ AnimationInv /\ StartInv => AnimationFollows
  BY DEF AnimationInv, StartInv, Running, AnimationFollows, OnItsWay, EndAfter, TypeInv
<1> QED BY <1>1, <1>2, <1>3, PTL DEF QuerySpec

-----------------------------------------------------------------------------
(* What the result view shows once the packets so far have arrived: the      *)
(* query and the last part that has a list, and whether more of its records  *)
(* are to come, after the first n.                                         *)
Shown == [query : Nat, part : Nat, open : BOOLEAN, n : Nat]

(* The packets a view that shows s may be given next ... *)
Allows(s, p) ==
  /\ p.type = "columns" => p.of[1] = s.query /\ p.of[2] > s.part
  /\ p.type \in {"rows", "finish"} /\ p.cols => s.open /\ p.of = <<s.query, s.part>>
  /\ p.type = "rows" /\ p.cols => \A k \in 1..Len(p.rows) : p.rows[k] = Append(p.of, s.n + k)
  /\ p.type = "finish" /\ p.cols => p.read = s.n

(* ... and what it shows after that. *)
After(s, p) ==
  CASE p.type = "start"   -> [query |-> p.of[1], part |-> 0, open |-> FALSE, n |-> 0]
    [] p.type = "columns" -> IF p.cols
                             THEN [query |-> s.query, part |-> p.of[2], open |-> TRUE, n |-> 0]
                             ELSE [s EXCEPT !.open = FALSE]
    [] p.type = "rows"    -> IF p.cols THEN [s EXCEPT !.n = @ + Len(p.rows)] ELSE s
    [] p.type = "finish"  -> [s EXCEPT !.open = FALSE]
    [] OTHER              -> s

(* The lists show s. *)
Shows(s) ==
  /\ \A i \in 1..Len(lists) : lists[i].of[1] = s.query /\ lists[i].of[2] <= s.part
  /\ s.open => /\ current # 0 /\ current = Len(lists)
                /\ lists[current].of = <<s.query, s.part>>
                /\ Len(lists[current].rows) = s.n /\ lists[current].read = {}

(* The packets q bring the view to s.                                       *)
Brings(q, s) ==
  \E h \in Seq(Shown) :
    /\ Len(h) = Len(q) + 1 /\ Shows(h[1]) /\ h[Len(h)] = s
    /\ \A i \in 1..Len(q) : Allows(h[i], q[i]) /\ h[i + 1] = After(h[i], q[i])

(* The thread goes on from s. *)
GoesOn(s) ==
  /\ worker.at \in {"part", "affected"} => s.query = worker.query /\ s.part < worker.part
  /\ worker.at = "rows" =>
       /\ s.open /\ s.query = worker.query /\ s.part = worker.part
       /\ s.n + Len(worker.packet) = worker.row
       /\ \A k \in 1..Len(worker.packet) :
            worker.packet[k] = <<worker.query, worker.part, s.n + k>>

RowsInv ==
  /\ RowsOfOneStatement
  /\ ~WindowGone => \E s \in Shown : Brings(posted, s) /\ GoesOn(s)

LEMMA AfterShown ==
  ASSUME NEW s \in Shown, NEW p \in Packets PROVE After(s, p) \in Shown
<1>1. /\ p.of[1] \in Nat /\ p.of[2] \in Nat /\ p.cols \in BOOLEAN /\ Len(p.rows) \in Nat
      /\ s.query \in Nat /\ s.part \in Nat /\ s.open \in BOOLEAN /\ s.n \in Nat
  BY DEF Packets, Shown, Rows
<1>2. CASE p.type = "start"
  BY <1>1, <1>2 DEF After, Shown
<1>3. CASE p.type = "columns"
  <2>1. After(s, p) = IF p.cols
                      THEN [query |-> s.query, part |-> p.of[2], open |-> TRUE, n |-> 0]
                      ELSE [s EXCEPT !.open = FALSE]
    BY <1>3 DEF After
  <2>2. [s EXCEPT !.open = FALSE] \in Shown
    BY <1>1 DEF Shown
  <2>3. [query |-> s.query, part |-> p.of[2], open |-> TRUE, n |-> 0] \in Shown
    BY <1>1 DEF Shown
  <2> QED BY <1>1, <2>1, <2>2, <2>3
<1>4. CASE p.type = "rows"
  <2>1. After(s, p) = IF p.cols THEN [s EXCEPT !.n = @ + Len(p.rows)] ELSE s
    BY <1>4 DEF After
  <2>2. s.n + Len(p.rows) \in Nat
    BY <1>1
  <2> QED BY <2>1, <2>2 DEF Shown
<1>5. CASE p.type = "finish"
  BY <1>1, <1>5 DEF After, Shown
<1>6. CASE p.type \notin {"start", "columns", "rows", "finish"}
  BY <1>6 DEF After
<1> QED BY <1>2, <1>3, <1>4, <1>5, <1>6

(* One packet more. *)
LEMMA BringsAppend ==
  ASSUME NEW q \in Seq(Packets), NEW s \in Shown, Brings(q, s),
         NEW p \in Packets, Allows(s, p)
  PROVE  Brings(Append(q, p), After(s, p))
<1> DEFINE t == After(s, p)
           r == Append(q, p)
<1>1. PICK h \in Seq(Shown) :
        /\ Len(h) = Len(q) + 1 /\ Shows(h[1]) /\ h[Len(h)] = s
        /\ \A i \in 1..Len(q) : Allows(h[i], q[i]) /\ h[i + 1] = After(h[i], q[i])
  BY DEF Brings
<1> DEFINE g == Append(h, t)
<1>2. t \in Shown
  BY AfterShown
<1> HIDE DEF t, Shown, Packets
<1>3. /\ g \in Seq(Shown) /\ Len(g) = Len(h) + 1 /\ g[Len(g)] = t
      /\ \A i \in 1..Len(h) : g[i] = h[i]
  BY <1>2
<1>4. Len(r) = Len(q) + 1 /\ r[Len(r)] = p /\ \A i \in 1..Len(q) : r[i] = q[i]
  OBVIOUS
<1> HIDE DEF g, r
<1>5. Len(q) \in Nat /\ g[1] = h[1] /\ g[Len(h)] = s
  BY <1>1, <1>3
<1>6. ASSUME NEW i \in 1..Len(r) PROVE Allows(g[i], r[i]) /\ g[i + 1] = After(g[i], r[i])
  <2>1. CASE i \in 1..Len(q)
    <3>1. g[i] = h[i] /\ g[i + 1] = h[i + 1] /\ r[i] = q[i]
      BY <1>1, <1>3, <1>4, <1>5, <2>1
    <3> QED BY <1>1, <2>1, <3>1
  <2>2. CASE i = Len(r)
    <3>1. g[i] = s /\ r[i] = p /\ g[i + 1] = t
      BY <1>1, <1>3, <1>4, <1>5, <2>2
    <3> QED BY <3>1 DEF t
  <2> QED BY <1>4, <1>5, <2>1, <2>2
<1>7. Shows(g[1])
  BY <1>1, <1>5
<1>8. Len(g) = Len(r) + 1
  BY <1>1, <1>3, <1>4, <1>5
<1> QED BY <1>3, <1>6, <1>7, <1>8 DEF Brings, r, t

(* Steps that neither post nor deliver. *)
LEMMA RowsFrame ==
  ASSUME RowsInv, UNCHANGED <<posted, lists, current>>, WindowGone => WindowGone',
         \A s \in Shown : GoesOn(s) => GoesOn(s)'
  PROVE  RowsInv'
<1>1. RowsOfOneStatement'
  BY DEF RowsInv, RowsOfOneStatement
<1>2. ASSUME ~WindowGone' PROVE (\E s \in Shown : Brings(posted, s) /\ GoesOn(s))'
  <2>1. PICK s \in Shown : Brings(posted, s) /\ GoesOn(s)
    BY <1>2 DEF RowsInv
  <2>2. Brings(posted, s)'
    BY <2>1 DEF Brings, Shows
  <2> QED BY <2>1, <2>2
<1> QED BY <1>1, <1>2 DEF RowsInv

LEMMA Concat ==
  ASSUME NEW S, NEW a \in Seq(S), NEW b \in Seq(S)
  PROVE  /\ a \o b \in Seq(S) /\ Len(a \o b) = Len(a) + Len(b)
         /\ \A k \in 1..Len(a) : (a \o b)[k] = a[k]
         /\ \A k \in 1..Len(a \o b) :
              k \notin 1..Len(a) => k - Len(a) \in 1..Len(b) /\ (a \o b)[k] = b[k - Len(a)]
  OBVIOUS

(* The thread posts a packet, and goes on from what it shows. *)
LEMMA RowsPost ==
  ASSUME TypeInv, RowsInv, UNCHANGED <<lists, current, view>>, NEW p \in Packets, Post(<<p>>),
         \A s \in Shown : GoesOn(s) => Allows(s, p) /\ GoesOn(After(s, p))'
  PROVE  RowsInv'
<1>1. RowsOfOneStatement'
  BY DEF RowsInv, RowsOfOneStatement
<1>2. ASSUME ~WindowGone PROVE (\E s \in Shown : Brings(posted, s) /\ GoesOn(s))'
  <2>1. PICK s \in Shown : Brings(posted, s) /\ GoesOn(s)
    BY <1>2 DEF RowsInv
  <2>2. posted' = Append(posted, p) /\ posted \in Seq(Packets)
    BY <1>2 DEF Post, TypeInv
  <2> DEFINE t == After(s, p)
  <2>3. t \in Shown /\ Brings(Append(posted, p), t)
    BY <2>1, <2>2, AfterShown, BringsAppend
  <2>4. GoesOn(t)'
    BY <2>1
  <2> HIDE DEF t
  <2>5. Brings(posted, t)'
    BY <2>2, <2>3 DEF Brings, Shows
  <2> QED BY <2>3, <2>4, <2>5
<1>3. WindowGone' <=> WindowGone
  BY DEF WindowGone, Joining
<1> QED BY <1>1, <1>2, <1>3 DEF RowsInv

(* A record is numbered within its part. *)
LEMMA AppendPair ==
  ASSUME NEW a \in Nat, NEW b \in Nat, NEW n \in Nat PROVE Append(<<a, b>>, n) = <<a, b, n>>
<1>1. /\ <<a, b>> \in Seq(Nat) /\ Len(<<a, b>>) = 2 /\ <<a, b>>[1] = a /\ <<a, b>>[2] = b
  OBVIOUS
<1>2. /\ <<a, b, n>> \in Seq(Nat) /\ Len(<<a, b, n>>) = 3
      /\ <<a, b, n>>[1] = a /\ <<a, b, n>>[2] = b /\ <<a, b, n>>[3] = n
  OBVIOUS
<1>3. ASSUME NEW s \in Seq(Nat), Len(s) = 2
      PROVE  Append(s, n) \in Seq(Nat) /\ Len(Append(s, n)) = 3
             /\ Append(s, n)[1] = s[1] /\ Append(s, n)[2] = s[2] /\ Append(s, n)[3] = n
  <2>1. /\ Append(s, n) \in Seq(Nat) /\ Len(Append(s, n)) = Len(s) + 1
        /\ Append(s, n)[Len(s) + 1] = n
        /\ \A i \in 1..Len(s) : Append(s, n)[i] = s[i]
    OBVIOUS
  <2>2. 1 \in 1..Len(s) /\ 2 \in 1..Len(s) /\ Len(s) + 1 = 3
    BY <1>3
  <2> HIDE <1>3
  <2> QED BY <2>1, <2>2
<1>4. ASSUME NEW s \in Seq(Nat), NEW t \in Seq(Nat), Len(s) = 3, Len(t) = 3,
             s[1] = t[1], s[2] = t[2], s[3] = t[3]
      PROVE  s = t
  <2>1. \A i \in 1..3 : s[i] = t[i]
    BY <1>4
  <2> QED BY <1>4, <2>1
<1> QED BY <1>1, <1>2, <1>3, <1>4

LEMMA AppendOf ==
  ASSUME NEW of \in Nat \X Nat, NEW n \in Nat PROVE Append(of, n) = <<of[1], of[2], n>>
<1>1. PICK a \in Nat, b \in Nat : of = <<a, b>>
  OBVIOUS
<1> QED BY <1>1, AppendPair

(* Records are added to the list that is filled. *)
LEMMA ShowRows ==
  ASSUME TypeInv, RowsOfOneStatement, NEW s \in Shown, Shows(s), NEW p \in Packets,
         p.type = "rows", p.cols, Allows(s, p), OnDataArrived, Head(posted) = p
  PROVE  Shows(After(s, p))' /\ RowsOfOneStatement'
<1> DEFINE l == lists[current]
           rows == l.rows \o p.rows
           m == [l EXCEPT !.rows = rows]
<1>1. /\ s.open /\ current # 0 /\ current = Len(lists) /\ l.of = <<s.query, s.part>>
      /\ Len(l.rows) = s.n /\ l.read = {} /\ p.of = l.of
      /\ \A k \in 1..Len(p.rows) : p.rows[k] = Append(p.of, s.n + k)
  BY DEF Allows, Shows
<1>2. current \in 1..Len(lists) /\ lists \in Seq(List) /\ l \in List
  BY <1>1 DEF TypeInv
<1>3. lists' = [lists EXCEPT ![current] = m] /\ current' = current
  <2>1. lists' = [lists EXCEPT ![current].rows = @ \o p.rows] /\ UNCHANGED <<current, spinning>>
    BY <1>1 DEF OnDataArrived
  <2> QED BY <2>1
<1>4. /\ l.rows \in Rows /\ p.rows \in Rows /\ l.of \in Nat \X Nat /\ s.n \in Nat
      /\ l.rows = [n \in 1..Len(l.rows) |-> Append(l.of, n)]
  BY <1>2 DEF List, Packets, Shown, RowsOfOneStatement
<1>5. /\ rows \in Rows /\ Len(rows) = s.n + Len(p.rows)
      /\ \A k \in 1..Len(rows) : rows[k] = Append(l.of, k)
  <2>1. /\ rows \in Rows /\ Len(rows) = Len(l.rows) + Len(p.rows)
        /\ \A k \in 1..Len(l.rows) : rows[k] = l.rows[k]
        /\ \A k \in 1..Len(rows) : k \notin 1..Len(l.rows) =>
             k - Len(l.rows) \in 1..Len(p.rows) /\ rows[k] = p.rows[k - Len(l.rows)]
    <3>1. PICK S : Rows = Seq(S)
      BY DEF Rows
    <3> DEFINE a == l.rows
               b == p.rows
    <3>2. a \in Seq(S) /\ b \in Seq(S)
      BY <1>4, <3>1
    <3> HIDE DEF a, b
    <3>3. /\ a \o b \in Seq(S) /\ Len(a \o b) = Len(a) + Len(b)
          /\ \A k \in 1..Len(a) : (a \o b)[k] = a[k]
          /\ \A k \in 1..Len(a \o b) :
               k \notin 1..Len(a) => k - Len(a) \in 1..Len(b) /\ (a \o b)[k] = b[k - Len(a)]
      BY <3>2, Concat
    <3> QED BY <3>1, <3>3 DEF a, b
  <2>2. ASSUME NEW k \in 1..Len(rows) PROVE rows[k] = Append(l.of, k)
    <3>1. CASE k \in 1..Len(l.rows)
      BY <1>4, <2>1, <3>1
    <3>2. CASE k \notin 1..Len(l.rows)
      <4>1. s.n + (k - s.n) = k
        BY <1>4
      <4> HIDE DEF rows, l
      <4>2. k - s.n \in 1..Len(p.rows) /\ rows[k] = p.rows[k - s.n]
        BY <1>1, <2>1, <3>2
      <4> QED BY <1>1, <4>1, <4>2
    <3> QED BY <3>1, <3>2
  <2> QED BY <1>1, <2>1, <2>2
<1>6. /\ m.rows = rows /\ m.of = l.of /\ m.read = {}
      /\ rows = [n \in 1..Len(rows) |-> Append(l.of, n)]
  <2>1. m.rows = rows /\ m.of = l.of /\ m.read = {}
    BY <1>1, <1>2 DEF List
  <2>2. rows = [n \in 1..Len(rows) |-> Append(l.of, n)]
    <3> HIDE DEF rows, l
    <3> QED BY <1>5 DEF Rows
  <2> QED BY <2>1, <2>2
<1> HIDE DEF m, rows
<1>7. /\ Len(lists') = Len(lists) /\ lists'[current] = m
      /\ \A i \in 1..Len(lists) : i # current => lists'[i] = lists[i]
      /\ \A i \in 1..Len(lists) : lists'[i].of = lists[i].of
  BY <1>2, <1>3, <1>6
<1>8. RowsOfOneStatement'
  <2>1. ASSUME NEW i \in 1..Len(lists)
        PROVE  /\ lists'[i].rows = [n \in 1..Len(lists'[i].rows) |-> Append(lists'[i].of, n)]
               /\ lists'[i].read \subseteq {Len(lists'[i].rows)}
    <3>1. CASE i = current
      BY <1>2, <1>6, <1>7, <3>1 DEF RowsOfOneStatement
    <3>2. CASE i # current
      BY <1>7, <3>2 DEF RowsOfOneStatement
    <3> QED BY <3>1, <3>2
  <2>2. ASSUME NEW i \in 1..Len(lists), NEW j \in 1..Len(lists), i < j
        PROVE  lists'[i].of[1] = lists'[j].of[1] /\ lists'[i].of[2] < lists'[j].of[2]
    BY <1>7, <2>2 DEF RowsOfOneStatement
  <2> QED BY <1>7, <2>1, <2>2 DEF RowsOfOneStatement
<1>9. After(s, p).query = s.query /\ After(s, p).part = s.part /\ After(s, p).open = s.open
      /\ After(s, p).n = s.n + Len(p.rows)
  <2>1. After(s, p) = [s EXCEPT !.n = @ + Len(p.rows)]
    BY DEF After
  <2> QED BY <2>1 DEF Shown
<1>10. Shows(After(s, p))'
  <2>1. \A i \in 1..Len(lists') : lists'[i].of[1] = s.query /\ lists'[i].of[2] <= s.part
    BY <1>7 DEF Shows
  <2>2. /\ current' # 0 /\ current' = Len(lists') /\ lists'[current'].of = <<s.query, s.part>>
        /\ Len(lists'[current'].rows) = s.n + Len(p.rows) /\ lists'[current'].read = {}
    BY <1>1, <1>2, <1>3, <1>5, <1>6, <1>7
  <2> DEFINE t == After(s, p)
  <2> HIDE DEF t
  <2>3. t.query = s.query /\ t.part = s.part /\ t.open = s.open /\ t.n = s.n + Len(p.rows)
    BY <1>9 DEF t
  <2>4. Shows(t)'
    BY <2>1, <2>2, <2>3 DEF Shows
  <2> QED BY <2>4 DEF t
<1> QED BY <1>8, <1>10

(* The statement is finished: the number of records is that of the list. *)
LEMMA ShowFinish ==
  ASSUME TypeInv, RowsOfOneStatement, NEW s \in Shown, Shows(s), NEW p \in Packets,
         p.type = "finish", p.cols, Allows(s, p), OnDataArrived, Head(posted) = p
  PROVE  Shows(After(s, p))' /\ RowsOfOneStatement'
<1> DEFINE l == lists[current]
           m == [l EXCEPT !.read = {p.read}]
<1>1. /\ current # 0 /\ current = Len(lists) /\ Len(l.rows) = s.n /\ p.read = s.n
  BY DEF Allows, Shows
<1>2. current \in 1..Len(lists) /\ lists \in Seq(List) /\ l \in List
  BY <1>1 DEF TypeInv
<1>3. lists' = [lists EXCEPT ![current] = m] /\ current' = current
  <2>1. lists' = [lists EXCEPT ![current].read = {p.read}] /\ UNCHANGED <<current, spinning>>
    BY <1>1 DEF OnDataArrived
  <2> QED BY <2>1
<1>4. m.rows = l.rows /\ m.of = l.of /\ m.read = {Len(l.rows)}
  BY <1>1, <1>2 DEF List
<1> HIDE DEF m
<1>5. /\ Len(lists') = Len(lists) /\ lists'[current] = m
      /\ \A i \in 1..Len(lists) : i # current => lists'[i] = lists[i]
      /\ \A i \in 1..Len(lists) : lists'[i].of = lists[i].of
  BY <1>2, <1>3, <1>4
<1>6. RowsOfOneStatement'
  <2>1. ASSUME NEW i \in 1..Len(lists)
        PROVE  /\ lists'[i].rows = [n \in 1..Len(lists'[i].rows) |-> Append(lists'[i].of, n)]
               /\ lists'[i].read \subseteq {Len(lists'[i].rows)}
    <3>1. CASE i = current
      <4>1. l.rows = [n \in 1..Len(l.rows) |-> Append(l.of, n)]
        BY <1>2 DEF RowsOfOneStatement
      <4> QED BY <1>4, <1>5, <3>1, <4>1
    <3>2. CASE i # current
      BY <1>5, <3>2 DEF RowsOfOneStatement
    <3> QED BY <3>1, <3>2
  <2>2. ASSUME NEW i \in 1..Len(lists), NEW j \in 1..Len(lists), i < j
        PROVE  lists'[i].of[1] = lists'[j].of[1] /\ lists'[i].of[2] < lists'[j].of[2]
    BY <1>5, <2>2 DEF RowsOfOneStatement
  <2> QED BY <1>5, <2>1, <2>2 DEF RowsOfOneStatement
<1>7. After(s, p) = [s EXCEPT !.open = FALSE]
  BY DEF After
<1>8. Shows(After(s, p))'
  <2> DEFINE t == After(s, p)
  <2>1. t.query = s.query /\ t.part = s.part /\ ~t.open
    BY <1>7 DEF Shown
  <2> HIDE DEF t
  <2>2. Shows(t)'
    BY <1>5, <2>1 DEF Shows
  <2> QED BY <2>2 DEF t
<1> QED BY <1>6, <1>8

(* A statement begins: a list of its own, if it has columns. *)
LEMMA ShowColumns ==
  ASSUME TypeInv, RowsOfOneStatement, NEW s \in Shown, Shows(s), NEW p \in Packets,
         p.type = "columns", Allows(s, p), OnDataArrived, Head(posted) = p
  PROVE  Shows(After(s, p))' /\ RowsOfOneStatement'
<1>1. /\ current' = IF p.cols THEN Len(lists) + 1 ELSE 0
      /\ lists' = IF p.cols THEN Append(lists, NewList(p)) ELSE lists
  BY DEF OnDataArrived
<1>2. p.of[1] = s.query /\ p.of[2] > s.part /\ p.of \in Nat \X Nat /\ lists \in Seq(List)
      /\ s.part \in Nat /\ s.query \in Nat
  BY DEF Allows, Packets, TypeInv, Shown
<1> DEFINE t == After(s, p)
<1>3. CASE ~p.cols
  <2>1. t = [s EXCEPT !.open = FALSE] /\ lists' = lists
    BY <1>1, <1>3 DEF After
  <2>2. t.query = s.query /\ t.part = s.part /\ ~t.open
    BY <2>1 DEF Shown
  <2> HIDE DEF t
  <2>3. Shows(t)' /\ RowsOfOneStatement'
    BY <2>1, <2>2 DEF Shows, RowsOfOneStatement
  <2> QED BY <2>3 DEF t
<1>4. CASE p.cols
  <2> DEFINE m == NewList(p)
  <2>1. m.of = p.of /\ m.rows = <<>> /\ m.read = {} /\ m \in List
    BY <1>2, NoRows DEF NewList, List
  <2>2. t = [query |-> s.query, part |-> p.of[2], open |-> TRUE, n |-> 0]
    BY <1>4 DEF After
  <2>3. lists' = Append(lists, m) /\ current' = Len(lists) + 1
    BY <1>1, <1>4
  <2> HIDE DEF t, m, List
  <2>4. /\ Len(lists) \in Nat /\ Len(lists') = Len(lists) + 1 /\ lists'[Len(lists) + 1] = m
        /\ \A i \in 1..Len(lists) : lists'[i] = lists[i] /\ lists[i] \in List
    BY <1>2, <2>1, <2>3
  <2>5. \A i \in 1..Len(lists) : lists[i].of[1] = s.query /\ lists[i].of[2] <= s.part
                                  /\ lists[i].of[2] \in Nat
    BY <2>4 DEF Shows, List
  <2>6. \A i \in 1..Len(lists') : lists'[i].of[1] = s.query /\ lists'[i].of[2] <= p.of[2]
    BY <1>2, <2>1, <2>4, <2>5
  <2>7. p.of = <<s.query, p.of[2]>> /\ Len(m.rows) = 0
    <3>1. PICK a \in Nat, b \in Nat : p.of = <<a, b>>
      BY <1>2
    <3> QED BY <1>2, <2>1, <3>1
  <2>8. Shows(t)'
    BY <2>1, <2>2, <2>3, <2>4, <2>6, <2>7 DEF Shows
  <2>9. ASSUME NEW i \in 1..Len(lists')
        PROVE  /\ lists'[i].rows = [n \in 1..Len(lists'[i].rows) |-> Append(lists'[i].of, n)]
               /\ lists'[i].read \subseteq {Len(lists'[i].rows)}
    <3>1. CASE i \in 1..Len(lists)
      BY <2>4, <3>1 DEF RowsOfOneStatement
    <3>2. CASE i = Len(lists) + 1
      <4>1. lists'[i] = m
        BY <2>4, <3>2
      <4>2. m.rows = [n \in 1..Len(m.rows) |-> Append(m.of, n)]
        BY <2>1, <2>7
      <4> QED BY <2>1, <4>1, <4>2
    <3> QED BY <2>4, <3>1, <3>2
  <2>10. ASSUME NEW i \in 1..Len(lists'), NEW j \in 1..Len(lists'), i < j
         PROVE  lists'[i].of[1] = lists'[j].of[1] /\ lists'[i].of[2] < lists'[j].of[2]
    <3>1. CASE j \in 1..Len(lists)
      <4>1. i \in 1..Len(lists)
        BY <2>10, <3>1
      <4> QED BY <2>4, <2>10, <3>1, <4>1 DEF RowsOfOneStatement
    <3>2. CASE j = Len(lists) + 1
      <4>1. i \in 1..Len(lists)
        BY <2>4, <2>10, <3>2
      <4> QED BY <1>2, <2>1, <2>4, <2>5, <3>2, <4>1
    <3> QED BY <2>4, <3>1, <3>2
  <2> QED BY <2>8, <2>9, <2>10 DEF RowsOfOneStatement, t
<1> QED BY <1>3, <1>4

LEMMA ShowNext ==
  ASSUME TypeInv, RowsOfOneStatement, NEW s \in Shown, Shows(s), NEW p \in Packets,
         Allows(s, p), OnDataArrived, Head(posted) = p
  PROVE  Shows(After(s, p))' /\ RowsOfOneStatement'
<1> DEFINE t == After(s, p)
<1>1. CASE p.type = "start"
  <2>1. lists' = <<>> /\ t = [query |-> p.of[1], part |-> 0, open |-> FALSE, n |-> 0]
    BY <1>1 DEF OnDataArrived, After
  <2>2. ~t.open
    BY <2>1
  <2> HIDE DEF t
  <2>3. Shows(t)' /\ RowsOfOneStatement'
    BY <2>1, <2>2 DEF Shows, RowsOfOneStatement
  <2> QED BY <2>3 DEF t
<1>2. CASE p.type = "columns"
  BY <1>2, ShowColumns
<1>3. CASE p.type = "rows" /\ p.cols
  BY <1>3, ShowRows
<1>4. CASE p.type = "finish" /\ p.cols
  BY <1>4, ShowFinish
<1>5. CASE p.type \in {"rows", "finish"} /\ ~p.cols
  <2>1. lists' = lists /\ current' = current
    BY <1>5 DEF OnDataArrived
  <2>2. t.query = s.query /\ t.part = s.part /\ t.n = s.n /\ (t.open => s.open)
    BY <1>5 DEF After, Shown
  <2> HIDE DEF t
  <2>3. Shows(t)' /\ RowsOfOneStatement'
    BY <2>1, <2>2 DEF Shows, RowsOfOneStatement
  <2> QED BY <2>3 DEF t
<1>6. CASE p.type \in {"done", "error"}
  <2>1. lists' = lists /\ current' = current /\ t = s
    BY <1>6 DEF OnDataArrived, shown, After
  <2> HIDE DEF t
  <2>2. Shows(t)' /\ RowsOfOneStatement'
    BY <2>1 DEF Shows, RowsOfOneStatement
  <2> QED BY <2>2 DEF t
<1>7. p.type \in Types /\ p.cols \in BOOLEAN
  BY DEF Packets
<1> QED BY <1>1, <1>2, <1>3, <1>4, <1>5, <1>6, <1>7 DEF Types

(* The same for two packets. *)
LEMMA RowsPostTwo ==
  ASSUME TypeInv, RowsInv, UNCHANGED <<lists, current, view>>,
         NEW p \in Packets, NEW r \in Packets, Post(<<p, r>>),
         \A s \in Shown : GoesOn(s) =>
           Allows(s, p) /\ Allows(After(s, p), r) /\ GoesOn(After(After(s, p), r))'
  PROVE  RowsInv'
<1>1. RowsOfOneStatement'
  BY DEF RowsInv, RowsOfOneStatement
<1>2. ASSUME ~WindowGone PROVE (\E s \in Shown : Brings(posted, s) /\ GoesOn(s))'
  <2>1. PICK s \in Shown : Brings(posted, s) /\ GoesOn(s)
    BY <1>2 DEF RowsInv
  <2>2. posted' = posted \o <<p, r>> /\ posted \in Seq(Packets)
    BY <1>2 DEF Post, TypeInv
  <2>3. posted \o <<p, r>> = Append(Append(posted, p), r) /\ Append(posted, p) \in Seq(Packets)
    <3> HIDE DEF Packets
    <3> QED BY <2>2
  <2> DEFINE t == After(s, p)
             u == After(t, r)
  <2>4. t \in Shown /\ Brings(Append(posted, p), t) /\ Allows(t, r) /\ GoesOn(u)'
    BY <2>1, <2>2, AfterShown, BringsAppend
  <2> HIDE DEF t
  <2>5. u \in Shown /\ Brings(Append(Append(posted, p), r), u)
    BY <2>3, <2>4, AfterShown, BringsAppend
  <2> HIDE DEF u
  <2>6. Brings(posted, u)'
    BY <2>2, <2>3, <2>5 DEF Brings, Shows
  <2> QED BY <2>4, <2>5, <2>6
<1>3. WindowGone' <=> WindowGone
  BY DEF WindowGone, Joining
<1> QED BY <1>1, <1>2, <1>3 DEF RowsInv

LEMMA RowsArrive ==
  ASSUME TypeInv, RowsInv, OnDataArrived PROVE RowsInv'
<1>1. /\ posted # <<>> /\ posted' = Tail(posted) /\ posted \in Seq(Packets)
      /\ view' = view /\ worker' = worker /\ ~WindowGone
  BY DEF OnDataArrived, TypeInv, WindowGone, Joining
<1>2. PICK s \in Shown : Brings(posted, s) /\ GoesOn(s)
  BY <1>1 DEF RowsInv
<1>3. PICK h \in Seq(Shown) :
        /\ Len(h) = Len(posted) + 1 /\ Shows(h[1]) /\ h[Len(h)] = s
        /\ \A i \in 1..Len(posted) : Allows(h[i], posted[i]) /\ h[i + 1] = After(h[i], posted[i])
  BY <1>2 DEF Brings
<1>4. PICK p \in Packets : p = Head(posted) /\ p = posted[1]
  <2> HIDE DEF Packets
  <2> QED BY <1>1
<1> DEFINE q == posted
           g == Tail(h)
<1>5. /\ Len(q) \in Nat \ {0} /\ Len(Tail(q)) = Len(q) - 1
      /\ \A i \in 1..(Len(q) - 1) : Tail(q)[i] = q[i + 1]
  <2> HIDE DEF Packets
  <2> QED BY <1>1
<1>6. /\ g \in Seq(Shown) /\ Len(g) = Len(h) - 1 /\ \A i \in 1..(Len(h) - 1) : g[i] = h[i + 1]
      /\ h[1] \in Shown
  <2> HIDE DEF Shown
  <2>1. h # <<>> /\ 1 \in 1..Len(h)
    BY <1>3, <1>5
  <2> QED BY <2>1
<1>7. Shows(After(h[1], p))' /\ RowsOfOneStatement'
  <2>1. Allows(h[1], p)
    BY <1>3, <1>4, <1>5
  <2> QED BY <1>3, <1>4, <1>6, <2>1, ShowNext DEF RowsInv
<1>8. h[2] = After(h[1], p)
  BY <1>3, <1>4, <1>5
<1> HIDE DEF g, Shown
<1>9. Shows(g[1])'
  <2>1. g[1] = h[2]
    BY <1>3, <1>5, <1>6
  <2> QED BY <1>7, <1>8, <2>1
<1>10. Len(g) = Len(posted') + 1 /\ g[Len(g)] = s
  BY <1>1, <1>3, <1>5, <1>6
<1>11. ASSUME NEW i \in 1..Len(posted')
       PROVE  Allows(g[i], posted'[i]) /\ g[i + 1] = After(g[i], posted'[i])
  <2>1. /\ i + 1 \in 1..Len(q) /\ i \in 1..(Len(q) - 1) /\ i + 1 \in 1..(Len(h) - 1)
        /\ i \in 1..(Len(h) - 1)
    BY <1>1, <1>3, <1>5
  <2>2. posted'[i] = q[i + 1] /\ g[i] = h[i + 1] /\ g[i + 1] = h[(i + 1) + 1]
    BY <1>1, <1>5, <1>6, <2>1
  <2> QED BY <1>3, <2>1, <2>2
<1>12. Brings(posted, s)'
  BY <1>6, <1>9, <1>10, <1>11 DEF Brings
<1>13. GoesOn(s)'
  BY <1>1, <1>2 DEF GoesOn
<1> QED BY <1>7, <1>12, <1>13 DEF RowsInv

(* A record read is held back, or fills the packet. *)
LEMMA RowsRead ==
  ASSUME TypeInv, RowsInv, ReadRecord PROVE RowsInv'
<1> DEFINE packet == Append(worker.packet, <<worker.query, worker.part, worker.row + 1>>)
           full == Len(packet) >= Chunk
<1>1. /\ worker \in Worker /\ worker.at = "rows" /\ worker.query \in Nat /\ worker.part \in Nat
      /\ worker.row \in Nat /\ worker.packet \in Rows
  BY DEF ReadRecord, TypeInv, Worker
<1>2. /\ packet \in Rows /\ Len(packet) = Len(worker.packet) + 1 /\ Len(worker.packet) \in Nat
      /\ \A k \in 1..Len(worker.packet) : packet[k] = worker.packet[k]
      /\ packet[Len(worker.packet) + 1] = <<worker.query, worker.part, worker.row + 1>>
  <2>1. PICK r : r = <<worker.query, worker.part, worker.row + 1>> /\ r \in Nat \X Nat \X Nat
    <3> DEFINE m == worker.row + 1
    <3>1. m \in Nat
      BY <1>1
    <3> HIDE DEF m
    <3>2. <<worker.query, worker.part, m>> \in Nat \X Nat \X Nat
      BY <1>1, <3>1
    <3> QED BY <3>2 DEF m
  <2>2. PICK S : S = Nat \X Nat \X Nat
    OBVIOUS
  <2>3. worker.packet \in Seq(S) /\ r \in S /\ Rows = Seq(S)
    BY <1>1, <2>1, <2>2 DEF Rows
  <2> DEFINE w == worker.packet
  <2> HIDE DEF w
  <2>4. /\ Append(w, r) \in Seq(S) /\ Len(Append(w, r)) = Len(w) + 1 /\ Len(w) \in Nat
        /\ \A k \in 1..Len(w) : Append(w, r)[k] = w[k]
        /\ Append(w, r)[Len(w) + 1] = r
    BY <2>3 DEF w
  <2> QED BY <2>1, <2>3, <2>4 DEF w
<1>3. /\ worker'.at = "rows" /\ worker'.query = worker.query /\ worker'.part = worker.part
      /\ worker'.row = worker.row + 1 /\ worker'.packet = IF full THEN <<>> ELSE packet
  <2>1. \E n : worker' = [worker EXCEPT !.row = @ + 1, !.rows = n,
                                        !.packet = IF full THEN <<>> ELSE packet]
    BY DEF ReadRecord
  <2> HIDE DEF packet, full
  <2> QED BY <1>1, <2>1 DEF Worker
<1>4. /\ UNCHANGED <<lists, current, view>>
      /\ Post(IF full THEN <<Packet("rows", TRUE, packet, 0)>> ELSE <<>>)
  BY DEF ReadRecord, shown
<1>5. ASSUME NEW s \in Shown, GoesOn(s)
      PROVE  /\ s.open /\ s.query = worker.query /\ s.part = worker.part /\ s.n \in Nat
             /\ s.n + Len(packet) = worker.row + 1
             /\ \A k \in 1..Len(packet) :
                  packet[k] = <<worker.query, worker.part, s.n + k>>
  <2>1. /\ s.open /\ s.query = worker.query /\ s.part = worker.part /\ s.n \in Nat
        /\ s.n + Len(worker.packet) = worker.row
        /\ \A k \in 1..Len(worker.packet) :
             worker.packet[k] = <<worker.query, worker.part, s.n + k>>
    BY <1>1, <1>5 DEF GoesOn, Shown
  <2>2. s.n + Len(packet) = worker.row + 1
    <3> HIDE DEF packet
    <3> QED BY <1>1, <1>2, <2>1
  <2>3. ASSUME NEW k \in 1..Len(packet)
        PROVE  packet[k] = <<worker.query, worker.part, s.n + k>>
    <3> HIDE DEF packet
    <3>1. CASE k \in 1..Len(worker.packet)
      BY <1>2, <2>1, <3>1
    <3>2. CASE k = Len(worker.packet) + 1
      <4>1. s.n + k = worker.row + 1
        <5> DEFINE w == Len(worker.packet)
        <5>1. s.n \in Nat /\ w \in Nat /\ s.n + w = worker.row /\ k = w + 1
          BY <1>2, <2>1, <3>2
        <5> HIDE DEF w
        <5> QED BY <5>1
      <4> QED BY <1>2, <3>2, <4>1
    <3> QED BY <1>2, <3>1, <3>2
  <2> QED BY <2>1, <2>2, <2>3
<1>6. CASE full
  <2>1. PICK p \in Packets : p = Packet("rows", TRUE, packet, 0)
    BY <1>2, PacketTypes DEF Types
  <2>2. p.type = "rows" /\ p.cols /\ p.rows = packet /\ p.of = <<worker.query, worker.part>>
    BY <2>1 DEF Packet, Of
  <2>3. Post(<<p>>)
    BY <1>4, <1>6, <2>1
  <2>4. ASSUME NEW s \in Shown, GoesOn(s)
        PROVE  Allows(s, p) /\ GoesOn(After(s, p))'
    <3>1. /\ s.open /\ s.query = worker.query /\ s.part = worker.part /\ s.n \in Nat
          /\ s.n + Len(packet) = worker.row + 1
          /\ \A k \in 1..Len(packet) :
               packet[k] = <<worker.query, worker.part, s.n + k>>
      BY <1>5, <2>4
    <3> HIDE DEF packet, full
    <3>2. \A k \in 1..Len(packet) : Append(p.of, s.n + k) = <<worker.query, worker.part, s.n + k>>
      <4> TAKE k \in 1..Len(packet)
      <4>1. s.n + k \in Nat
        BY <1>2, <3>1
      <4> QED BY <1>1, <2>2, <4>1, AppendPair
    <3>3. Allows(s, p)
      BY <2>2, <3>1, <3>2 DEF Allows
    <3> DEFINE t == After(s, p)
    <3>4. t = [s EXCEPT !.n = @ + Len(packet)]
      BY <2>2 DEF After
    <3>5. t.query = s.query /\ t.part = s.part /\ t.open = s.open /\ t.n = s.n + Len(packet)
      BY <3>4 DEF Shown
    <3> HIDE DEF t
    <3>6. worker'.packet = <<>>
      BY <1>3, <1>6
    <3>7. GoesOn(t)'
      BY <1>1, <1>3, <3>1, <3>5, <3>6 DEF GoesOn
    <3> QED BY <3>3, <3>7 DEF t
  <2> QED BY <1>4, <2>3, <2>4, RowsPost
<1>7. CASE ~full
  <2>1. posted' = posted
    <3>1. posted' = posted \/ posted' = posted \o <<>>
      BY <1>4, <1>7 DEF Post
    <3>2. posted \in Seq(Packets)
      BY DEF TypeInv
    <3> HIDE DEF Packets
    <3> QED BY <3>1, <3>2
  <2>2. ASSUME NEW s \in Shown, GoesOn(s) PROVE GoesOn(s)'
    <3> HIDE DEF packet, full
    <3> QED BY <1>1, <1>3, <1>5, <1>7, <2>2 DEF GoesOn
  <2>3. WindowGone => WindowGone'
    BY <1>4 DEF WindowGone, Joining
  <2> QED BY <1>4, <2>1, <2>2, <2>3, RowsFrame
<1> QED BY <1>6, <1>7

(* The rest of the records, and their number. *)
LEMMA RowsFinish ==
  ASSUME TypeInv, RowsInv, FinishPart PROVE RowsInv'
<1> DEFINE cols == worker.at = "rows"
<1>1. /\ worker \in Worker /\ worker.at \in {"affected", "rows"}
      /\ worker.query \in Nat /\ worker.part \in Nat
      /\ worker.row \in Nat /\ worker.packet \in Rows /\ Len(worker.packet) \in Nat
      /\ UNCHANGED <<lists, current, view>>
  BY DEF FinishPart, TypeInv, Worker, shown, Rows
<1>2. worker'.at = "part" /\ worker'.query = worker.query /\ worker'.part = worker.part + 1
  BY <1>1 DEF FinishPart, NextPart, Worker
<1>3. PICK p \in Packets : p = Packet("rows", cols, worker.packet, 0)
  BY <1>1, PacketTypes DEF Types
<1>4. PICK r \in Packets : r = Packet("finish", cols, <<>>, worker.row)
  BY <1>1, NoRows, PacketTypes DEF Types
<1>5. /\ p.type = "rows" /\ p.cols = cols /\ p.rows = worker.packet
      /\ p.of = <<worker.query, worker.part>>
      /\ r.type = "finish" /\ r.cols = cols /\ r.read = worker.row
      /\ r.of = <<worker.query, worker.part>>
  BY <1>3, <1>4 DEF Packet, Of
<1>6. Post(<<p, r>>)
  BY <1>3, <1>4 DEF FinishPart
<1>7. ASSUME NEW s \in Shown, GoesOn(s)
      PROVE  Allows(s, p) /\ Allows(After(s, p), r) /\ GoesOn(After(After(s, p), r))'
  <2>0. s.n \in Nat /\ s.part \in Nat /\ s.query \in Nat /\ s.open \in BOOLEAN
    BY DEF Shown
  <2> DEFINE t == After(s, p)
             u == After(t, r)
  <2>1. t = IF cols THEN [s EXCEPT !.n = @ + Len(worker.packet)] ELSE s
    BY <1>5 DEF After
  <2>2. t.query = s.query /\ t.part = s.part /\ t.open = s.open /\ t \in Shown
        /\ t.n = IF cols THEN s.n + Len(worker.packet) ELSE s.n
    BY <2>1, AfterShown DEF Shown
  <2> HIDE DEF t
  <2>3. u = [t EXCEPT !.open = FALSE]
    BY <1>5 DEF After
  <2>4. u.query = s.query /\ u.part = s.part
    BY <2>2, <2>3 DEF Shown
  <2> HIDE DEF u
  <2>5. CASE cols
    <3>1. /\ s.open /\ s.query = worker.query /\ s.part = worker.part
          /\ s.n + Len(worker.packet) = worker.row
          /\ \A k \in 1..Len(worker.packet) :
               worker.packet[k] = <<worker.query, worker.part, s.n + k>>
      BY <1>7, <2>5 DEF GoesOn
    <3>2. \A k \in 1..Len(worker.packet) :
            Append(p.of, s.n + k) = <<worker.query, worker.part, s.n + k>>
      <4> TAKE k \in 1..Len(worker.packet)
      <4>1. s.n + k \in Nat
        BY <1>1, <2>0
      <4> QED BY <1>1, <1>5, <4>1, AppendPair
    <3>3. Allows(s, p)
      BY <1>5, <3>1, <3>2 DEF Allows
    <3>4. Allows(t, r)
      BY <1>5, <2>2, <2>5, <3>1 DEF Allows
    <3>5. GoesOn(u)'
      BY <1>1, <1>2, <2>4, <3>1 DEF GoesOn
    <3> QED BY <3>3, <3>4, <3>5 DEF t, u
  <2>6. CASE ~cols
    <3>1. s.query = worker.query /\ s.part < worker.part
      BY <1>1, <1>7, <2>6 DEF GoesOn
    <3>2. Allows(s, p) /\ Allows(t, r)
      BY <1>5, <2>6 DEF Allows
    <3>3. GoesOn(u)'
      BY <1>1, <1>2, <2>0, <2>4, <3>1 DEF GoesOn
    <3> QED BY <3>2, <3>3 DEF t, u
  <2> QED BY <2>5, <2>6
<1> QED BY <1>1, <1>6, <1>7, RowsPostTwo

(* A statement fails, or returns columns and so many records. *)
LEMMA RowsExecute ==
  ASSUME TypeInv, RowsInv, Execute PROVE RowsInv'
<1>1. /\ worker \in Worker /\ worker.at = "part" /\ worker.query \in Nat /\ worker.part \in Nat
      /\ UNCHANGED <<lists, current, view>>
  BY DEF Execute, TypeInv, Worker, shown
<1>2. CASE Post(<<Plain("error")>>) /\ worker' = NextPart
  <2>1. PICK p \in Packets : p = Plain("error")
    BY PlainTypes DEF Types
  <2>2. p.type = "error"
    BY <2>1 DEF Plain, Packet
  <2>3. worker'.at = "part" /\ worker'.query = worker.query /\ worker'.part = worker.part + 1
    BY <1>1, <1>2 DEF NextPart, Worker
  <2>4. ASSUME NEW s \in Shown, GoesOn(s) PROVE Allows(s, p) /\ GoesOn(After(s, p))'
    <3>1. After(s, p) = s /\ Allows(s, p)
      BY <2>2 DEF After, Allows
    <3>2. GoesOn(s)'
      BY <1>1, <2>3, <2>4 DEF GoesOn, Shown
    <3> QED BY <3>1, <3>2
  <2> QED BY <1>1, <1>2, <2>1, <2>4, RowsPost
<1>3. ASSUME NEW cols \in BOOLEAN, NEW n, Post(<<Packet("columns", cols, <<>>, 0)>>),
             worker' = [worker EXCEPT !.at = IF cols THEN "rows" ELSE "affected", !.rows = n,
                                      !.row = 0, !.packet = <<>>]
      PROVE  RowsInv'
  <2>1. PICK p \in Packets : p = Packet("columns", cols, <<>>, 0)
    BY PacketTypes, NoRows DEF Types
  <2>2. p.type = "columns" /\ p.cols = cols /\ p.of = <<worker.query, worker.part>>
    BY <2>1 DEF Packet, Of
  <2>3. /\ worker'.at = (IF cols THEN "rows" ELSE "affected")
        /\ worker'.query = worker.query /\ worker'.part = worker.part
        /\ worker'.row = 0 /\ worker'.packet = <<>>
    BY <1>1, <1>3 DEF Worker
  <2>4. ASSUME NEW s \in Shown, GoesOn(s) PROVE Allows(s, p) /\ GoesOn(After(s, p))'
    <3>1. s.query = worker.query /\ s.part < worker.part
      BY <1>1, <2>4 DEF GoesOn
    <3>2. Allows(s, p)
      BY <1>1, <2>2, <3>1 DEF Allows, Shown
    <3> DEFINE t == After(s, p)
    <3>3. t = IF cols THEN [query |-> s.query, part |-> worker.part, open |-> TRUE, n |-> 0]
              ELSE [s EXCEPT !.open = FALSE]
      BY <2>2 DEF After
    <3>4. t.query = s.query /\ (cols => t.part = worker.part /\ t.open /\ t.n = 0)
          /\ (~cols => t.part = s.part)
      BY <3>3 DEF Shown
    <3> HIDE DEF t
    <3>5. GoesOn(t)'
      BY <1>1, <2>3, <3>1, <3>4 DEF GoesOn
    <3> QED BY <3>2, <3>5 DEF t
  <2> QED BY <1>1, <1>3, <2>1, <2>4, RowsPost
<1> QED BY <1>2, <1>3 DEF Execute

LEMMA RowsStart ==
  ASSUME TypeInv, RowsInv, Start PROVE RowsInv'
<1>1. /\ worker \in Worker /\ worker.query \in Nat /\ UNCHANGED <<lists, current, view>>
  BY DEF Start, TypeInv, Worker, shown
<1>2. CASE worker' = [worker EXCEPT !.at = "top"] /\ UNCHANGED posted
  <2>1. \A s \in Shown : GoesOn(s)'
    BY <1>1, <1>2 DEF GoesOn, Worker
  <2> QED BY <1>1, <1>2, <2>1, RowsFrame DEF WindowGone, Joining
<1>3. ASSUME NEW n, Post(<<Plain("start")>>),
             \/ worker' = [worker EXCEPT !.at = "part", !.parts = n, !.part = 1]
             \/ worker' = [worker EXCEPT !.at = "top"]
      PROVE  RowsInv'
  <2>1. PICK p \in Packets : p = Plain("start")
    BY PlainTypes DEF Types
  <2>2. p.type = "start" /\ p.of[1] = worker.query
    BY <2>1 DEF Plain, Packet, Of
  <2>3. \/ worker'.at = "part" /\ worker'.query = worker.query /\ worker'.part = 1
        \/ worker'.at = "top"
    BY <1>1, <1>3 DEF Worker
  <2>4. ASSUME NEW s \in Shown, GoesOn(s) PROVE Allows(s, p) /\ GoesOn(After(s, p))'
    <3>1. Allows(s, p)
      BY <2>2 DEF Allows
    <3> DEFINE t == After(s, p)
    <3>2. t = [query |-> p.of[1], part |-> 0, open |-> FALSE, n |-> 0]
      BY <2>2 DEF After
    <3>3. t.query = worker.query /\ t.part = 0
      BY <2>2, <3>2
    <3> HIDE DEF t
    <3>4. GoesOn(t)'
      BY <2>3, <3>3 DEF GoesOn
    <3> QED BY <3>1, <3>4 DEF t
  <2> QED BY <1>1, <1>3, <2>1, <2>4, RowsPost
<1> QED BY <1>2, <1>3 DEF Start

LEMMA NextRows ==
  ASSUME TypeInv, RowsInv, [QueryNext]_queryVars PROVE RowsInv'
<1>0. ASSUME UNCHANGED <<posted, lists, current, worker>>, WindowGone => WindowGone'
      PROVE  RowsInv'
  BY <1>0, RowsFrame DEF GoesOn
<1>1. CASE UNCHANGED queryVars
  BY <1>0, <1>1 DEF queryVars, shown, WindowGone, Joining
<1>2. ASSUME UNCHANGED <<posted, lists, current, view>>, worker' \in Worker,
             worker'.at \notin {"part", "affected", "rows"}
      PROVE  RowsInv'
  BY <1>2, RowsFrame DEF GoesOn, WindowGone, Joining
<1>3. CASE OpenView
  <2>1. worker'.at = "top" /\ ~WindowGone /\ UNCHANGED <<posted, lists, current>>
    BY <1>3 DEF OpenView, TypeInv, Worker, WindowGone, Joining, shown
  <2> QED BY <2>1, RowsFrame DEF GoesOn
<1>4. CASE RunQuery \/ ExecuteSql \/ Abort \/ InfoRequest
  BY <1>0, <1>4 DEF RunQuery, ExecuteSql, Abort, InfoRequest, Ask, shown, WindowGone, Joining
<1>5. CASE SetEvent \/ Disconnect \/ JoinThread
  BY <1>0, <1>5 DEF SetEvent, Disconnect, JoinThread, shown, WindowGone, Joining
<1>6. CASE OnDestroy
  <2>1. lists' = <<>> /\ WindowGone'
    BY <1>6 DEF OnDestroy, WindowGone, Joining
  <2> QED BY <2>1 DEF RowsInv, RowsOfOneStatement
<1>7. CASE OnDataArrived
  BY <1>7, RowsArrive
<1>8. CASE Loop \/ WaitForEvent \/ Take \/ TakeText \/ Clear
  <2>1. UNCHANGED <<posted, lists, current, view>>
    BY <1>8 DEF Loop, WaitForEvent, Take, TakeText, Clear, shown
  <2>2. worker'.at \notin {"part", "affected", "rows"}
    BY <1>8, Elsewhere DEF Running
  <2> QED BY <2>1, <2>2, RowsFrame DEF GoesOn, WindowGone, Joining
<1>9. CASE QueryDone
  <2>1. PICK p \in Packets : p = Plain("done")
    BY PlainTypes DEF Types
  <2>2. p.type = "done"
    BY <2>1 DEF Plain, Packet
  <2>3. worker'.at = "top" /\ UNCHANGED <<lists, current, view>> /\ Post(<<p>>)
    BY <1>9, <2>1 DEF QueryDone, TypeInv, Worker, shown
  <2>4. \A s \in Shown : Allows(s, p) /\ GoesOn(After(s, p))'
    BY <2>2, <2>3 DEF Allows, GoesOn
  <2> QED BY <2>3, <2>4, RowsPost
<1> QED
  BY <1>1, <1>3, <1>4, <1>5, <1>6, <1>7, <1>8, <1>9, RowsStart, RowsExecute, RowsRead, RowsFinish
     DEF QueryNext

(* For any number of requests, statements and records, and wherever the      *)
(* thread is interrupted, every list shows the records of one statement from *)
(* the first on, all of the same query, and none is missing when the         *)
(* statement is finished.                                                  *)
THEOREM ListsComplete == ASSUME Bounds PROVE QuerySpec => []RowsOfOneStatement
<1>1. QueryInit => TypeInv /\ RowsInv
  <2> SUFFICES ASSUME QueryInit PROVE RowsInv
    BY InitTypes
  <2> DEFINE s == [query |-> 0, part |-> 0, open |-> FALSE, n |-> 0]
  <2>1. s \in Shown /\ Shows(s) /\ GoesOn(s)
    BY DEF QueryInit, Shown, Shows, GoesOn, NoThread
  <2> HIDE DEF s
  <2>2. <<s>> \in Seq(Shown) /\ Len(<<s>>) = 1 /\ <<s>>[1] = s
    BY <2>1
  <2>3. Brings(posted, s)
    <3>1. posted = <<>>
      BY DEF QueryInit
    <3>2. Len(posted) = 0 /\ 1..Len(posted) = {}
      BY <3>1
    <3> HIDE DEF Shown
    <3> DEFINE h == <<s>>
    <3>3. h \in Seq(Shown) /\ Len(h) = Len(posted) + 1 /\ Shows(h[1]) /\ h[Len(h)] = s
      BY <2>1, <2>2, <3>2
    <3> HIDE DEF h
    <3> QED BY <3>2, <3>3 DEF Brings
  <2>4. RowsOfOneStatement
    BY DEF QueryInit, RowsOfOneStatement
  <2> QED BY <2>1, <2>3, <2>4 DEF RowsInv
<1>2. TypeInv /\ RowsInv /\ [QueryNext]_queryVars => (TypeInv /\ RowsInv)'
  BY NextTypes, NextRows
<1>3. RowsInv => RowsOfOneStatement
  BY DEF RowsInv
<1> QED BY <1>1, <1>2, <1>3, PTL DEF QuerySpec

=============================================================================
