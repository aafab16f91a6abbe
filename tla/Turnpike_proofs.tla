--------------------------- MODULE Turnpike_proofs ---------------------------
(***************************************************************************)
(* Turnpike loses no wake-up and, when no entry runs a message loop,       *)
(* implements DelayedCalls: for any projects, threads and kinds of entry.  *)
(***************************************************************************)
EXTENDS Turnpike, TLAPS

-----------------------------------------------------------------------------
(* Types.                                                                  *)

(* All of a sequence but its last element. *)
LEMMA FrontSeq ==
  ASSUME NEW S, NEW s \in Seq(S), s # <<>>
  PROVE  /\ Front(s) \in Seq(S) /\ Len(Front(s)) = Len(s) - 1
         /\ \A k \in 1..(Len(s) - 1) : Front(s)[k] = s[k]
<1>1. Front(s) = SubSeq(s, 1, Len(s) - 1) /\ Len(s) \in Nat \ {0}
  BY DEF Front
<1>2. SubSeq(s, 1, Len(s) - 1) \in Seq(S)
  <2>1. \A k \in 1..(Len(s) - 1) : s[k] \in S
    BY <1>1
  <2> QED
    BY <1>1, <2>1
<1>3. Len(SubSeq(s, 1, Len(s) - 1)) = Len(s) - 1
  <2>1. CASE Len(s) = 1
    BY <1>1, <2>1
  <2>2. CASE Len(s) > 1
    BY <1>1, <2>2
  <2>3. Len(s) = 1 \/ Len(s) > 1
    <3> DEFINE n == Len(s)
    <3>1. n \in Nat /\ n # 0
      BY <1>1
    <3> HIDE DEF n
    <3>2. n = 1 \/ n > 1
      BY <3>1
    <3> QED
      BY <3>2 DEF n
  <2> QED
    BY <2>1, <2>2, <2>3
<1>4. \A k \in 1..(Len(s) - 1) : SubSeq(s, 1, Len(s) - 1)[k] = s[k]
  BY <1>1
<1> QED
  BY <1>1, <1>2, <1>3, <1>4

(* The innermost activation, and the project it is at. *)
LEMMA TopType ==
  ASSUME TypeOK, Depth > 0
  PROVE  /\ Depth \in Nat \ {0} /\ Top \in Frame /\ Proj \in Projects
         /\ lazy[Proj] \in Seq(Item) /\ asked[Proj] \in Nat
         /\ done[Proj] \in Seq(Nat) /\ issued[Proj] \in Seq(Nat)
<1>1. Depth \in Nat \ {0} /\ Top \in Frame
  BY DEF TypeOK, Depth, Top
<1>2. Proj \in Projects
  BY <1>1, ListenersAssumption DEF Proj, Frame
<1> QED
  BY <1>1, <1>2 DEF TypeOK

LEMMA EntryType ==
  ASSUME NEW k \in 1..Len(Listeners)
  PROVE  Entry(k) \in Frame
BY DEF Entry, Frame

LEMMA SetTopType ==
  ASSUME TypeOK, Depth > 0, NEW f \in Frame, SetTop(f)
  PROVE  /\ stack' \in Seq(Frame) /\ Len(stack') = Depth /\ stack'[Depth] = f
         /\ \A k \in 1..(Depth - 1) : stack'[k] = stack[k]
BY DEF TypeOK, Depth, SetTop

LEMMA NextListenerType ==
  ASSUME TypeOK, Depth > 0, NextListener
  PROVE  stack' \in Seq(Frame)
<1>1. CASE Top.at < Len(Listeners)
  <2>1. Top.at + 1 \in 1..Len(Listeners)
    <3>1. Top.at \in 1..Len(Listeners)
      BY TopType DEF Frame
    <3> QED
      BY <1>1, <3>1
  <2>2. Entry(Top.at + 1) \in Frame
    BY <2>1, EntryType
  <2> QED
    BY <1>1, <2>2, SetTopType DEF NextListener
<1>2. CASE ~(Top.at < Len(Listeners))
  BY <1>2, FrontSeq DEF NextListener, TypeOK, Depth
<1> QED
  BY <1>1, <1>2

(* What Add does to the queue and to the count. *)
LEMMA AddType ==
  ASSUME TypeOK, NEW p \in Projects, NEW kinds \in Seq(AllKinds), Add(p, kinds)
  PROVE  /\ lazy' \in [Projects -> Seq(Item)] /\ asked' \in [Projects -> Nat]
         /\ Len(lazy'[p]) = Len(lazy[p]) + Len(kinds)
         /\ \A k \in 1..Len(lazy[p]) : lazy'[p][k] = lazy[p][k]
         /\ \A k \in 1..Len(kinds) :
              lazy'[p][Len(lazy[p]) + k] = [n |-> asked[p] + k, kind |-> kinds[k]]
         /\ asked'[p] = asked[p] + Len(kinds)
         /\ \A q \in Projects \ {p} : lazy'[q] = lazy[q] /\ asked'[q] = asked[q]
<1>1. lazy[p] \in Seq(Item) /\ asked[p] \in Nat
  BY DEF TypeOK
<1>2. /\ Numbered(p, kinds) \in Seq(Item) /\ Len(Numbered(p, kinds)) = Len(kinds)
      /\ \A k \in 1..Len(kinds) : Numbered(p, kinds)[k] = [n |-> asked[p] + k, kind |-> kinds[k]]
  BY <1>1 DEF Numbered, Item
<1>3. lazy'[p] = lazy[p] \o Numbered(p, kinds) /\ asked'[p] = asked[p] + Len(kinds)
  BY DEF Add, TypeOK
<1>4. \A q \in Projects \ {p} : lazy'[q] = lazy[q] /\ asked'[q] = asked[q]
  BY DEF Add, TypeOK
<1>5. lazy' \in [Projects -> Seq(Item)] /\ asked' \in [Projects -> Nat]
  BY <1>1, <1>2 DEF Add, TypeOK
<1> DEFINE a == lazy[p]
           b == Numbered(p, kinds)
<1>6. /\ a \in Seq(Item) /\ b \in Seq(Item) /\ lazy'[p] = a \o b /\ Len(b) = Len(kinds)
      /\ \A k \in 1..Len(b) : b[k] = [n |-> asked[p] + k, kind |-> kinds[k]]
  BY <1>1, <1>2, <1>3
<1> HIDE DEF a, b
<1>7. Len(a \o b) = Len(a) + Len(kinds) /\ \A k \in 1..Len(a) : (a \o b)[k] = a[k]
  BY <1>6
<1>8. \A k \in 1..Len(b) : (a \o b)[Len(a) + k] = b[k]
  BY <1>6
<1> QED
  BY <1>3, <1>4, <1>5, <1>6, <1>7, <1>8 DEF a

LEMMA AsksType ==
  ASSUME NEW kind
  PROVE  Asks(kind) \in Seq(AllKinds) /\ Len(Asks(kind)) \in Nat
<1>1. CASE kind = "start"
  <2>1. Asks(kind) = <<"plain", "plain">>
    BY <1>1 DEF Asks
  <2> QED
    BY <2>1 DEF AllKinds
<1>2. CASE kind = "kill"
  <2>1. Asks(kind) = <<"plain">>
    BY <1>2 DEF Asks
  <2> QED
    BY <2>1 DEF AllKinds
<1>3. CASE kind \notin {"start", "kill"}
  <2>1. Asks(kind) = <<>>
    BY <1>3 DEF Asks
  <2> QED
    BY <2>1
<1> QED
  BY <1>1, <1>2, <1>3

(* The entry being handled. *)
LEMMA CurrentType ==
  ASSUME TypeOK, Depth > 0, Top.idx < Len(lazy[Proj])
  PROVE  Current \in Item
BY TopType DEF Current, Frame

LEMMA HandledType ==
  ASSUME TypeOK, Depth > 0, Top.idx < Len(lazy[Proj]), NEW f \in Frame, Handled(f)
  PROVE  TypeOK'
<1>1. Current \in Item /\ Proj \in Projects /\ done[Proj] \in Seq(Nat)
  BY TopType, CurrentType
<1>2. Len(Asks(Current.kind)) \in Nat /\ Asks(Current.kind) \in Seq(AllKinds)
  BY AsksType
<1>3. lazy' \in [Projects -> Seq(Item)] /\ asked' \in [Projects -> Nat]
  BY <1>1, <1>2, AddType DEF Handled
<1>4. stack' \in Seq(Frame)
  BY SetTopType DEF Handled
<1>5. done' \in [Projects -> Seq(Nat)]
  BY <1>1 DEF Handled, TypeOK, Item
<1>6. posts' \in Nat
  BY <1>2 DEF Handled, TypeOK
<1> QED
  BY <1>3, <1>4, <1>5, <1>6 DEF Handled, TypeOK

LEMMA FrameUpdate ==
  ASSUME NEW f \in Frame, NEW n \in Nat
  PROVE  /\ [f EXCEPT !.idx = @ + 1] \in Frame
         /\ [f EXCEPT !.cmds = Append(@, n)] \in Frame
<1>1. f.idx + 1 \in Nat /\ Append(f.cmds, n) \in Seq(Nat)
  BY DEF Frame
<1> QED
  BY <1>1 DEF Frame

LEMMA AdvanceType ==
  ASSUME TypeOK, Depth > 0
  PROVE  Advance \in Frame
BY TopType, FrameUpdate DEF Advance

LEMMA TypeStep == TypeOK /\ [NestedNext]_vars => TypeOK'
<1> SUFFICES ASSUME TypeOK, [NestedNext]_vars PROVE TypeOK'
  OBVIOUS
<1>1. ASSUME NEW t \in Threads, NEW p \in Projects, NEW kind \in Kinds, Lock(t, p, kind)
      PROVE  TypeOK'
  BY <1>1, KindsAssumption DEF Lock, TypeOK
<1>2. ASSUME NEW t \in Threads, AddItem(t) PROVE TypeOK'
  <2>1. work[t].proj \in Projects /\ <<work[t].kind>> \in Seq(AllKinds)
    BY DEF TypeOK
  <2>2. lazy' \in [Projects -> Seq(Item)] /\ asked' \in [Projects -> Nat]
    BY <1>2, <2>1, AddType DEF AddItem
  <2> QED
    BY <1>2, <2>2 DEF AddItem, TypeOK
<1>3. ASSUME NEW t \in Threads, PostMessage(t) PROVE TypeOK'
  BY <1>3 DEF PostMessage, TypeOK
<1>4. CASE Dispatch
  <2>1. Entry(1) \in Frame
    BY EntryType, ListenersAssumption
  <2> QED
    BY <1>4, <2>1 DEF Dispatch, TypeOK
<1>5. CASE Enter
  <2>1. CASE lazy[Proj] = <<>>
    BY <1>5, <2>1, NextListenerType DEF Enter, TypeOK
  <2>2. CASE lazy[Proj] # <<>>
    <3>1. [Top EXCEPT !.st = "try"] \in Frame
      BY <1>5, TopType DEF Frame, Enter
    <3> QED
      BY <1>5, <2>2, <3>1, SetTopType DEF Enter, TypeOK
  <2> QED
    BY <2>1, <2>2
<1>6. CASE TryEnter
  <2>1. [Top EXCEPT !.st = "loop"] \in Frame
    BY <1>6, TopType DEF Frame, TryEnter
  <2> QED
    BY <1>6, <2>1, SetTopType, GuiAssumption DEF TryEnter, TypeOK
<1>7. CASE Repost
  BY <1>7, NextListenerType DEF Repost, TypeOK
<1>8. CASE HandlePlain
  BY <1>8, HandledType, AdvanceType DEF HandlePlain, Looping
<1>9. CASE HandleCommand
  <2>1. [Advance EXCEPT !.cmds = Append(@, Current.n)] \in Frame
    <3>1. Advance \in Frame /\ Current.n \in Nat
      BY <1>9, AdvanceType, CurrentType DEF HandleCommand, Looping, Item
    <3> QED
      BY <3>1, FrameUpdate
  <2> QED
    BY <1>9, <2>1, HandledType DEF HandleCommand, Looping
<1>10. CASE HandleBreak
  <2>1. [Advance EXCEPT !.upd = TRUE] \in Frame
    BY <1>10, AdvanceType DEF HandleBreak, Looping, Frame
  <2> QED
    BY <1>10, <2>1, HandledType DEF HandleBreak, Looping
<1>11. CASE HandleModal
  <2>1. [Top EXCEPT !.st = "modal"] \in Frame
    BY <1>11, TopType DEF HandleModal, Looping, Frame
  <2> QED
    BY <1>11, <2>1, HandledType DEF HandleModal, Looping
<1>12. CASE CloseBox
  <2>1. [Advance EXCEPT !.st = "loop"] \in Frame
    BY <1>12, AdvanceType DEF CloseBox, Frame
  <2> QED
    BY <1>12, <2>1, SetTopType DEF CloseBox, TypeOK
<1>13. CASE LoopOver
  <2>1. [Top EXCEPT !.st = "clear", !.cmds = IF Top.upd THEN Append(@, Refresh) ELSE @] \in Frame
    <3>1. Top \in Frame /\ Append(Top.cmds, Refresh) \in Seq(Nat)
      BY <1>13, TopType DEF LoopOver, Looping, Frame, Refresh
    <3> QED
      BY <3>1 DEF Frame
  <2> QED
    BY <1>13, <2>1, SetTopType DEF LoopOver, Looping, TypeOK
<1>14. CASE RemoveAll
  <2>1. [Top EXCEPT !.st = "send"] \in Frame
    BY <1>14, TopType DEF RemoveAll, Frame
  <2> QED
    BY <1>14, <2>1, SetTopType, TopType, GuiAssumption DEF RemoveAll, TypeOK
<1>15. CASE SendDebugCommand
  <2>1. Top.cmds \in Seq(Nat) /\ Head(Top.cmds) \in Nat /\ Tail(Top.cmds) \in Seq(Nat)
    BY <1>15, TopType DEF SendDebugCommand, Frame
  <2>2. [Top EXCEPT !.cmds = Tail(@)] \in Frame
    BY <1>15, <2>1, TopType DEF SendDebugCommand, Frame
  <2>3. issued' \in [Projects -> Seq(Nat)]
    BY <1>15, <2>1, TopType DEF SendDebugCommand, TypeOK
  <2> QED
    BY <1>15, <2>2, <2>3, SetTopType DEF SendDebugCommand, TypeOK
<1>16. CASE Return
  BY <1>16, NextListenerType DEF Return, TypeOK
<1>17. CASE UNCHANGED vars
  BY <1>17 DEF vars, TypeOK
<1> QED
  BY <1>1, <1>2, <1>3, <1>4, <1>5, <1>6, <1>7, <1>8, <1>9, <1>10, <1>11, <1>12,
     <1>13, <1>14, <1>15, <1>16, <1>17 DEF NestedNext, Next, OnProcess

LEMMA TypeInit == Init => TypeOK
BY ListenersAssumption DEF Init, TypeOK, AllKinds

(* Every variable of the queue keeps its type, nested or not (TypeOK).      *)
THEOREM NestedTypeCorrect == NestedSpec => []TypeOK
BY TypeInit, TypeStep, PTL DEF NestedSpec

LEMMA SpecIsNested == Spec => NestedSpec
<1>1. [Next]_vars => [NestedNext]_vars
  BY DEF NestedNext
<1> QED
  BY <1>1, PTL DEF Spec, NestedSpec

(* The same for the specification the runs check (TypeOK).                  *)
THEOREM TypeCorrect == Spec => []TypeOK
BY SpecIsNested, NestedTypeCorrect, PTL

-----------------------------------------------------------------------------
(* No wake-up is lost.                                                     *)

(* Only the innermost activation changes; it still comes to the projects    *)
(* behind the one it is at, and to that one unless it has sent it off.     *)
Covered(p) == \E k \in 1..Depth : WillVisit(stack[k], p)

LEMMA SetTopCovers ==
  ASSUME TypeOK, Depth > 0, NEW f \in Frame, SetTop(f), NEW p \in Projects,
         Covered(p), f.at = Top.at, f.st # "send" \/ Proj # p
  PROVE  Covered(p)'
<1>1. PICK k \in 1..Depth : WillVisit(stack[k], p)
  BY DEF Covered
<1>2. Depth' = Depth /\ stack'[Depth] = f /\ \A j \in 1..(Depth - 1) : stack'[j] = stack[j]
  BY SetTopType DEF Depth
<1>3. CASE k # Depth
  <2>1. stack'[k] = stack[k]
    BY <1>2, <1>3, TopType
  <2> QED
    BY <1>1, <1>2, <2>1 DEF Covered, WillVisit
<1>4. CASE k = Depth
  <2>1. WillVisit(Top, p)
    BY <1>1, <1>4 DEF Top
  <2>2. WillVisit(f, p)
    BY <2>1, TopType DEF WillVisit, Proj, Frame
  <2> QED
    BY <1>2, <1>4, <2>2 DEF Covered, WillVisit
<1> QED
  BY <1>3, <1>4

LEMMA NextListenerCovers ==
  ASSUME TypeOK, Depth > 0, NextListener, NEW p \in Projects, Covered(p),
         Top.st = "send" \/ Proj # p
  PROVE  Covered(p)'
<1>1. PICK k \in 1..Depth : WillVisit(stack[k], p)
  BY DEF Covered
<1>2. Top \in Frame /\ Depth \in Nat \ {0}
  BY TopType
<1>3. WillVisit(Top, p) => \E j \in (Top.at + 1)..Len(Listeners) : Listeners[j] = p
  <2>1. ASSUME WillVisit(Top, p)
        PROVE  \E j \in (Top.at + 1)..Len(Listeners) : Listeners[j] = p
    <3>1. PICK j \in Top.at..Len(Listeners) :
            Listeners[j] = p /\ (j = Top.at => Top.st # "send")
      BY <2>1 DEF WillVisit
    <3>2. j # Top.at
      BY <3>1 DEF Proj
    <3>3. Top.at \in Int /\ Len(Listeners) \in Int
      <4>1. Top.at \in 1..Len(Listeners)
        BY <1>2 DEF Frame
      <4>2. Len(Listeners) \in Nat
        BY ListenersAssumption
      <4> QED
        BY <4>1, <4>2
    <3>4. j \in (Top.at + 1)..Len(Listeners)
      BY <3>2, <3>3
    <3> QED
      BY <3>1, <3>4
  <2> QED
    BY <2>1
<1>4. CASE Top.at < Len(Listeners)
  <2>1. Top.at + 1 \in 1..Len(Listeners)
    BY <1>2, <1>4, ListenersAssumption DEF Frame
  <2>2. Entry(Top.at + 1) \in Frame /\ SetTop(Entry(Top.at + 1))
    BY <1>4, <2>1, EntryType DEF NextListener
  <2>3. /\ Depth' = Depth /\ stack'[Depth] = Entry(Top.at + 1)
        /\ \A j \in 1..(Depth - 1) : stack'[j] = stack[j]
    BY <2>2, SetTopType DEF Depth
  <2>4. CASE k # Depth
    <3>1. stack'[k] = stack[k]
      BY <1>2, <2>3, <2>4
    <3> QED
      BY <1>1, <2>3, <3>1 DEF Covered, WillVisit
  <2>5. CASE k = Depth
    <3>1. PICK j \in (Top.at + 1)..Len(Listeners) : Listeners[j] = p
      BY <1>1, <1>3, <2>5 DEF Top
    <3>2. WillVisit(Entry(Top.at + 1), p)
      BY <3>1 DEF WillVisit, Entry
    <3> QED
      BY <1>2, <2>3, <3>2 DEF Covered, WillVisit
  <2> QED
    BY <2>4, <2>5
<1>5. CASE ~(Top.at < Len(Listeners))
  <2>1. stack' = Front(stack) /\ stack \in Seq(Frame) /\ stack # <<>>
    BY <1>2, <1>5 DEF NextListener, TypeOK, Depth
  <2>2. Depth' = Depth - 1 /\ \A j \in 1..(Depth - 1) : stack'[j] = stack[j]
    BY <2>1, FrontSeq DEF Depth
  <2>3. k # Depth
    BY <1>1, <1>2, <1>3, <1>5, ListenersAssumption DEF Top, Frame
  <2>4. k \in 1..(Depth - 1) /\ stack'[k] = stack[k]
    BY <1>2, <2>2, <2>3
  <2> QED
    BY <1>1, <2>2, <2>4 DEF Covered, WillVisit
<1> QED
  BY <1>4, <1>5

(* The disjuncts of NoLostPost for one project.                             *)
Posting(p) == \E t \in Threads : pc[t] = "added" /\ work[t].proj = p
Underway(p) == posts > 0 \/ Posting(p) \/ Covered(p)

LEMMA NoLostPostAlt == NoLostPost <=> \A p \in Projects : lazy[p] # <<>> => Underway(p)
BY DEF NoLostPost, Underway, Posting, Covered

(* A step of OnProcess that keeps the innermost activation at its project.  *)
LEMMA StayStep ==
  ASSUME TypeOK, NoLostPost, Depth > 0, NEW f \in Frame, SetTop(f), f.at = Top.at,
         f.st # "send" \/ lazy'[Proj] = <<>>, posts' \in Nat, posts' >= posts,
         UNCHANGED <<pc, work>>,
         \A p \in Projects \ {Proj} : lazy'[p] = lazy[p]
  PROVE  NoLostPost'
<1> SUFFICES ASSUME NEW p \in Projects, lazy'[p] # <<>>
             PROVE  posts' > 0 \/ Posting(p)' \/ Covered(p)'
  BY DEF NoLostPost, Posting, Covered, Depth
<1>1. Top \in Frame /\ Depth \in Nat \ {0} /\ Proj \in Projects
  BY TopType
<1>2. CASE p = Proj
  <2>1. f.st # "send"
    BY <1>2
  <2>2. f.at \in f.at..Len(Listeners) /\ Listeners[f.at] = p
    BY <1>1, <1>2, ListenersAssumption DEF Proj, Frame
  <2>3. WillVisit(f, p)
    BY <2>1, <2>2 DEF WillVisit
  <2>4. Depth' = Depth /\ stack'[Depth] = f
    BY SetTopType DEF Depth
  <2> QED
    BY <1>1, <2>3, <2>4 DEF Covered, WillVisit
<1>3. CASE p # Proj
  <2>1. Underway(p)
    BY <1>3, NoLostPostAlt
  <2>2. Covered(p) => Covered(p)'
    BY <1>3, SetTopCovers
  <2>3. posts > 0 => posts' > 0
    BY DEF TypeOK
  <2>4. Posting(p) => Posting(p)'
    BY DEF Posting
  <2> QED
    BY <2>1, <2>2, <2>3, <2>4 DEF Underway
<1> QED
  BY <1>2, <1>3

(* A step that goes to the next listener. *)
LEMMA LeaveStep ==
  ASSUME TypeOK, NoLostPost, Depth > 0, NextListener,
         Top.st = "send" \/ lazy[Proj] = <<>> \/ posts' > 0,
         posts' \in Nat, posts' >= posts, UNCHANGED <<pc, work, lazy>>
  PROVE  NoLostPost'
<1> SUFFICES ASSUME NEW p \in Projects, lazy[p] # <<>>
             PROVE  posts' > 0 \/ Posting(p)' \/ Covered(p)'
  BY DEF NoLostPost, Posting, Covered, Depth
<1>1. Underway(p)
  BY NoLostPostAlt
<1>2. posts > 0 => posts' > 0
  BY DEF TypeOK
<1>3. Posting(p) => Posting(p)'
  BY DEF Posting
<1>4. Covered(p) => Covered(p)' \/ posts' > 0
  BY NextListenerCovers
<1> QED
  BY <1>1, <1>2, <1>3, <1>4 DEF Underway

(* A handled entry: the activation stays, whatever the entry asks for. *)
LEMMA HandledStep ==
  ASSUME TypeOK, NoLostPost, Depth > 0, Top.idx < Len(lazy[Proj]),
         NEW f \in Frame, f.at = Top.at, f.st # "send", Handled(f)
  PROVE  NoLostPost'
<1>1. Len(Asks(Current.kind)) \in Nat /\ Asks(Current.kind) \in Seq(AllKinds)
  BY AsksType
<1>2. posts' \in Nat /\ posts' >= posts
  BY <1>1 DEF Handled, TypeOK
<1>3. \A p \in Projects \ {Proj} : lazy'[p] = lazy[p]
  BY <1>1, AddType, TopType DEF Handled
<1> QED
  BY <1>2, <1>3, StayStep DEF Handled

LEMMA PostStep == TypeOK /\ NoLostPost /\ [NestedNext]_vars => NoLostPost'
<1> SUFFICES ASSUME TypeOK, NoLostPost, [NestedNext]_vars PROVE NoLostPost'
  OBVIOUS
<1>1. ASSUME NEW t \in Threads, NEW p \in Projects, NEW kind \in Kinds, Lock(t, p, kind)
      PROVE  NoLostPost'
  <2>1. \A u \in Threads : pc[u] = "added" => pc'[u] = "added" /\ work'[u] = work[u]
    BY <1>1 DEF Lock, TypeOK
  <2> QED
    BY <1>1, <2>1 DEF Lock, NoLostPost, Depth, WillVisit
<1>2. ASSUME NEW t \in Threads, AddItem(t) PROVE NoLostPost'
  <2>1. work[t].proj \in Projects /\ <<work[t].kind>> \in Seq(AllKinds)
    BY DEF TypeOK
  <2>2. \A q \in Projects \ {work[t].proj} : lazy'[q] = lazy[q]
    BY <1>2, <2>1, AddType DEF AddItem
  <2>3. /\ pc'[t] = "added" /\ work' = work
        /\ \A u \in Threads : pc[u] = "added" => pc'[u] = "added"
    BY <1>2 DEF AddItem, TypeOK
  <2> QED
    BY <1>2, <2>2, <2>3 DEF AddItem, NoLostPost, Depth, WillVisit
<1>3. ASSUME NEW t \in Threads, PostMessage(t) PROVE NoLostPost'
  BY <1>3 DEF PostMessage, NoLostPost, TypeOK
<1>4. CASE Dispatch
  <2>1. stack' \in Seq(Frame) /\ Len(stack') = Depth + 1 /\ stack'[Depth + 1] = Entry(1)
    <3>1. Entry(1) \in Frame
      BY EntryType, ListenersAssumption
    <3>2. stack' = Append(stack, Entry(1)) /\ stack \in Seq(Frame)
      BY <1>4 DEF Dispatch, TypeOK
    <3> QED
      BY <3>1, <3>2 DEF Depth
  <2>2. ASSUME NEW p \in Projects PROVE WillVisit(Entry(1), p)
    BY ListenersAssumption DEF WillVisit, Entry
  <2>3. Depth + 1 \in 1..Depth'
    BY <2>1 DEF Depth, TypeOK
  <2> QED
    BY <2>1, <2>2, <2>3 DEF NoLostPost, WillVisit
<1>5. CASE Enter
  <2>1. CASE lazy[Proj] = <<>>
    BY <1>5, <2>1, LeaveStep DEF Enter, TypeOK
  <2>2. CASE lazy[Proj] # <<>>
    <3> DEFINE f == [Top EXCEPT !.st = "try"]
    <3>1. f \in Frame /\ f.at = Top.at /\ f.st # "send"
      BY <1>5, TopType DEF Frame, Enter
    <3>2. Depth > 0 /\ SetTop(f) /\ UNCHANGED <<pc, work, lazy, posts>> /\ posts \in Nat
      BY <1>5, <2>2 DEF Enter, TypeOK
    <3> HIDE DEF f
    <3> QED
      BY <3>1, <3>2, StayStep
  <2> QED
    BY <2>1, <2>2
<1>6. CASE TryEnter
  <2> DEFINE f == [Top EXCEPT !.st = "loop"]
  <2>1. f \in Frame /\ f.at = Top.at /\ f.st # "send"
    BY <1>6, TopType DEF Frame, TryEnter
  <2>2. Depth > 0 /\ SetTop(f) /\ UNCHANGED <<pc, work, lazy, posts>> /\ posts \in Nat
    BY <1>6 DEF TryEnter, TypeOK
  <2> HIDE DEF f
  <2> QED
    BY <2>1, <2>2, StayStep
<1>7. CASE Repost
  BY <1>7, LeaveStep DEF Repost, TypeOK
<1>8. CASE HandlePlain
  <2>1. Advance \in Frame /\ Advance.at = Top.at /\ Advance.st # "send"
    BY <1>8, AdvanceType, TopType DEF Advance, HandlePlain, Looping, Frame
  <2> QED
    BY <1>8, <2>1, HandledStep DEF HandlePlain, Looping
<1>9. CASE HandleCommand
  <2> DEFINE f == [Advance EXCEPT !.cmds = Append(@, Current.n)]
  <2>1. f \in Frame
    <3>1. Advance \in Frame /\ Current.n \in Nat
      BY <1>9, AdvanceType, CurrentType DEF HandleCommand, Looping, Item
    <3> QED
      BY <3>1, FrameUpdate
  <2>2. f.at = Top.at /\ f.st # "send"
    BY <1>9, TopType DEF Advance, HandleCommand, Looping, Frame
  <2> HIDE DEF f
  <2>3. Handled(f)
    BY <1>9 DEF HandleCommand, f
  <2> QED
    BY <1>9, <2>1, <2>2, <2>3, HandledStep DEF HandleCommand, Looping
<1>10. CASE HandleBreak
  <2> DEFINE f == [Advance EXCEPT !.upd = TRUE]
  <2>1. f \in Frame /\ f.at = Top.at /\ f.st # "send"
    BY <1>10, AdvanceType, TopType DEF Advance, HandleBreak, Looping, Frame
  <2> QED
    BY <1>10, <2>1, HandledStep DEF HandleBreak, Looping
<1>11. CASE HandleModal
  <2> DEFINE f == [Top EXCEPT !.st = "modal"]
  <2>1. f \in Frame /\ f.at = Top.at /\ f.st # "send"
    BY <1>11, TopType DEF HandleModal, Looping, Frame
  <2> QED
    BY <1>11, <2>1, HandledStep DEF HandleModal, Looping
<1>12. CASE CloseBox
  <2> DEFINE f == [Advance EXCEPT !.st = "loop"]
  <2>1. f \in Frame /\ f.at = Top.at /\ f.st # "send"
    BY <1>12, AdvanceType, TopType DEF Advance, CloseBox, Frame
  <2>2. Depth > 0 /\ SetTop(f) /\ UNCHANGED <<pc, work, lazy, posts>> /\ posts \in Nat
    BY <1>12 DEF CloseBox, TypeOK
  <2> HIDE DEF f
  <2> QED
    BY <2>1, <2>2, StayStep
<1>13. CASE LoopOver
  <2> DEFINE f == [Top EXCEPT !.st = "clear", !.cmds = IF Top.upd THEN Append(@, Refresh) ELSE @]
  <2>1. f \in Frame
    <3>1. Top \in Frame /\ Append(Top.cmds, Refresh) \in Seq(Nat)
      BY <1>13, TopType DEF LoopOver, Looping, Frame, Refresh
    <3> QED
      BY <3>1 DEF Frame
  <2>2. f.at = Top.at /\ f.st # "send"
    BY <1>13, TopType DEF LoopOver, Looping, Frame
  <2>3. SetTop(f)
    BY <1>13 DEF LoopOver
  <2> HIDE DEF f
  <2> QED
    BY <1>13, <2>1, <2>2, <2>3, StayStep DEF LoopOver, Looping, TypeOK
<1>14. CASE RemoveAll
  <2> DEFINE f == [Top EXCEPT !.st = "send"]
  <2>1. f \in Frame /\ f.at = Top.at
    BY <1>14, TopType DEF RemoveAll, Frame
  <2>2. lazy'[Proj] = <<>> /\ \A p \in Projects \ {Proj} : lazy'[p] = lazy[p]
    BY <1>14, TopType DEF RemoveAll, TypeOK
  <2>3. Depth > 0 /\ SetTop(f) /\ UNCHANGED <<pc, work, posts>> /\ posts \in Nat
    BY <1>14 DEF RemoveAll, TypeOK
  <2> HIDE DEF f
  <2> QED
    BY <2>1, <2>2, <2>3, StayStep
<1>15. CASE SendDebugCommand
  <2> DEFINE f == [Top EXCEPT !.cmds = Tail(@)]
  <2>1. Depth > 0 /\ Top.st = "send" /\ SetTop(f)
    BY <1>15 DEF SendDebugCommand
  <2>2. Top \in Frame /\ Depth \in Nat \ {0}
    BY <2>1, TopType
  <2>3. Tail(Top.cmds) \in Seq(Nat)
    BY <1>15, <2>2 DEF SendDebugCommand, Frame
  <2>4. f \in Frame /\ f.at = Top.at /\ f.st = Top.st
    BY <2>2, <2>3 DEF Frame
  <2> HIDE DEF f
  <2>5. ASSUME NEW p \in Projects, Covered(p) PROVE Covered(p)'
    <3>1. PICK k \in 1..Depth : WillVisit(stack[k], p)
      BY <2>5 DEF Covered
    <3>2. /\ Depth' = Depth /\ stack'[Depth] = f
          /\ \A j \in 1..(Depth - 1) : stack'[j] = stack[j]
      BY <2>1, <2>4, SetTopType DEF Depth
    <3>3. CASE k = Depth
      <4>1. WillVisit(f, p)
        BY <2>4, <3>1, <3>3 DEF WillVisit, Top
      <4> QED
        BY <3>2, <3>3, <4>1 DEF Covered, WillVisit
    <3>4. CASE k # Depth
      <4>1. stack'[k] = stack[k]
        BY <2>2, <3>2, <3>4
      <4> QED
        BY <3>1, <3>2, <4>1 DEF Covered, WillVisit
    <3> QED
      BY <3>3, <3>4
  <2> QED
    BY <1>15, <2>5 DEF SendDebugCommand, NoLostPost, Covered, Depth
<1>16. CASE Return
  BY <1>16, LeaveStep DEF Return, TypeOK
<1>17. CASE UNCHANGED vars
  BY <1>17 DEF vars, NoLostPost, Depth, WillVisit
<1> QED
  BY <1>1, <1>2, <1>3, <1>4, <1>5, <1>6, <1>7, <1>8, <1>9, <1>10, <1>11, <1>12,
     <1>13, <1>14, <1>15, <1>16, <1>17 DEF NestedNext, Next, OnProcess

(* An entry that waits in a queue always has a message, a thread about to   *)
(* post one or an activation of OnProcess that brings the GUI thread to it, *)
(* nested message loops included (NoLostPost).                              *)
THEOREM NoWakeUpLost == NestedSpec => []NoLostPost
<1>1. Init => NoLostPost
  BY DEF Init, NoLostPost
<1> QED
  BY <1>1, NestedTypeCorrect, PostStep, PTL DEF NestedSpec

-----------------------------------------------------------------------------
(* The queue implements DelayedCalls.                                      *)

CallInv == TypeOK /\ LockInv /\ QueueInv

(* With one activation, the innermost one is the first. *)
LEMMA OneActivation ==
  ASSUME CallInv, Depth > 0
  PROVE  /\ Depth = 1 /\ Top = stack[1] /\ Top \in Frame /\ Proj \in Projects
         /\ stack = <<Top>> /\ Top.st # "modal" /\ owner \in Threads \union {"none"}
<1>1. Depth = 1
  BY TopType DEF CallInv, LockInv
<1>2. Top = stack[1] /\ Top \in Frame /\ Proj \in Projects
  BY <1>1, TopType DEF CallInv, Top
<1>3. stack = <<Top>>
  BY <1>1, <1>2 DEF Depth, CallInv, TypeOK
<1> QED
  BY <1>1, <1>2, <1>3 DEF CallInv, LockInv, TypeOK

LEMMA SetTopOne ==
  ASSUME CallInv, Depth > 0, NEW f \in Frame, SetTop(f)
  PROVE  Depth' = 1 /\ Top' = f /\ (f.at = Top.at => Proj' = Proj)
<1>1. Depth' = Depth /\ stack'[Depth] = f /\ Depth = 1
  BY OneActivation, SetTopType DEF CallInv, Depth
<1>2. Depth' = 1 /\ Top' = f
  BY <1>1 DEF Top
<1> QED
  BY <1>2 DEF Proj

(* The next listener finds an activation that has handled nothing. *)
LEMMA NextListenerOne ==
  ASSUME CallInv, Depth > 0, NextListener
  PROVE  \/ /\ Depth' = 1 /\ Top' \in Frame
            /\ Top'.st = "enter" /\ Top'.idx = 0 /\ Top'.cmds = <<>>
         \/ Depth' = 0
<1>1. CASE Top.at < Len(Listeners)
  <2>1. Top.at + 1 \in 1..Len(Listeners)
    <3>1. Top.at \in 1..Len(Listeners)
      BY OneActivation DEF Frame
    <3> QED
      BY <1>1, <3>1
  <2>2. Entry(Top.at + 1) \in Frame /\ SetTop(Entry(Top.at + 1))
    BY <1>1, <2>1, EntryType DEF NextListener
  <2>3. Depth' = 1 /\ Top' = Entry(Top.at + 1)
    BY <2>2, SetTopOne
  <2> QED
    BY <2>2, <2>3 DEF Entry
<1>2. CASE ~(Top.at < Len(Listeners))
  <2>1. stack' = Front(stack) /\ stack # <<>>
    BY <1>2, OneActivation DEF NextListener, Depth
  <2>2. Len(Front(stack)) = Len(stack) - 1 /\ Len(stack) = 1
    BY <2>1, FrontSeq, OneActivation DEF Depth, CallInv, TypeOK
  <2> QED
    BY <2>1, <2>2 DEF Depth
<1> QED
  BY <1>1, <1>2

(* A step of the activation that only changes it, inside its loop or not.   *)
LEMMA QuietStep ==
  ASSUME CallInv, TypeOK', UNCHANGED <<lazy, asked, done, pc>>, Depth' \in {0, 1},
         Depth' = 1 => pc[Gui] = "idle" /\ Top'.st # "modal",
         Inside => Inside' /\ Proj' = Proj /\ Top'.idx = Top.idx /\ owner' = owner,
         Inside' /\ ~Inside => Top'.idx = 0 /\ owner' = Gui,
         Depth' = 1 /\ Top'.st \in {"enter", "try"} => Top'.idx = 0,
         Depth' = 1 /\ Top'.st = "clear" => Inside /\ Top.idx = Len(lazy[Proj]),
         \A t \in Threads : pc[t] # "idle" => owner' = t
  PROVE  CallInv'
<1>1. LockInv'
  BY DEF CallInv, LockInv
<1>2. \A p \in Projects : Progress(p)' = Progress(p)
  BY DEF Progress
<1>3. ASSUME NEW p \in Projects
      PROVE  /\ \A k \in 1..Len(lazy'[p]) : lazy'[p][k].n + Len(lazy'[p]) = asked'[p] + k
             /\ Len(done'[p]) + Len(lazy'[p]) = asked'[p] + Progress(p)'
  BY <1>2 DEF CallInv, QueueInv
<1>4. Inside' => Top'.idx <= Len(lazy'[Proj'])
  <2>1. CASE Inside
    BY <2>1 DEF CallInv, QueueInv
  <2>2. CASE Inside' /\ ~Inside
    <3>1. Top' \in Frame
      BY <2>2 DEF Inside, TypeOK, Depth, Top
    <3>2. Proj' \in Projects
      BY <3>1, ListenersAssumption DEF Proj, Frame
    <3>3. Top'.idx = 0 /\ Len(lazy'[Proj']) \in Nat
      BY <2>2, <3>2 DEF TypeOK
    <3> QED
      BY <3>3
  <2> QED
    BY <2>1, <2>2
<1>5. Depth' > 0 /\ Top'.st = "clear" => Top'.idx = Len(lazy'[Proj'])
  BY DEF Inside
<1>6. Depth' > 0 /\ Top'.st \in {"enter", "try"} => Top'.idx = 0
  OBVIOUS
<1>7. QueueInv'
  BY <1>3, <1>4, <1>5, <1>6 DEF QueueInv
<1> QED
  BY <1>1, <1>7 DEF CallInv

(* A handled entry moves the index on and is the next one in the count. *)
LEMMA HandledCount ==
  ASSUME CallInv, Looping, Top.idx < Len(lazy[Proj])
  PROVE  Current.n = Len(done[Proj]) + 1 /\ Len(done[Proj]) < asked[Proj]
<1>1. /\ Proj \in Projects /\ Top.idx \in Nat /\ lazy[Proj] \in Seq(Item)
      /\ asked[Proj] \in Nat /\ done[Proj] \in Seq(Nat)
  BY TopType DEF CallInv, Looping, Frame
<1>2. Current = lazy[Proj][Top.idx + 1] /\ Top.idx + 1 \in 1..Len(lazy[Proj]) /\ Current \in Item
  BY <1>1, CurrentType DEF Current, CallInv, Looping
<1>3. Current.n + Len(lazy[Proj]) = asked[Proj] + (Top.idx + 1)
  BY <1>1, <1>2 DEF CallInv, QueueInv
<1>4. Len(done[Proj]) + Len(lazy[Proj]) = asked[Proj] + Top.idx
  BY <1>1 DEF CallInv, QueueInv, Progress, Inside, Looping
<1> DEFINE n == Current.n
           l == Len(lazy[Proj])
           d == Len(done[Proj])
           a == asked[Proj]
           i == Top.idx
<1>5. n \in Int /\ l \in Int /\ d \in Int /\ a \in Int /\ i \in Int
  BY <1>1, <1>2 DEF Item
<1>6. n + l = a + (i + 1) /\ d + l = a + i /\ i < l
  BY <1>3, <1>4
<1>7. n = d + 1 /\ d < a
  <2> HIDE DEF n, l, d, a, i
  <2> QED
    BY <1>5, <1>6
<1> QED
  BY <1>7

LEMMA HandledInv ==
  ASSUME CallInv, TypeOK', Looping, Top.idx < Len(lazy[Proj]), Handled(Advance) \/
         \E f \in Frame : Handled(f) /\ f.at = Top.at /\ f.st = "loop" /\ f.idx = Top.idx + 1
  PROVE  CallInv'
<1>1. PICK f \in Frame : Handled(f) /\ f.at = Top.at /\ f.st = "loop" /\ f.idx = Top.idx + 1
  <2>1. Advance \in Frame /\ Advance.at = Top.at /\ Advance.st = "loop" /\ Advance.idx = Top.idx + 1
    BY AdvanceType, TopType DEF Advance, CallInv, Looping, Frame
  <2> QED
    BY <2>1
<1> DEFINE kinds == Asks(Current.kind)
<1>2. kinds \in Seq(AllKinds) /\ Len(kinds) \in Nat
  BY AsksType
<1>3. /\ Proj \in Projects /\ Top.idx \in Nat /\ lazy[Proj] \in Seq(Item)
      /\ asked[Proj] \in Nat /\ done[Proj] \in Seq(Nat) /\ Current.n \in Nat
  BY TopType, CurrentType DEF CallInv, Looping, Frame, Item
<1>4. Depth' = 1 /\ Top' = f /\ Proj' = Proj
  BY <1>1, SetTopOne DEF Handled, Looping
<1>5. /\ Len(lazy'[Proj]) = Len(lazy[Proj]) + Len(kinds) /\ asked'[Proj] = asked[Proj] + Len(kinds)
      /\ \A k \in 1..Len(lazy[Proj]) : lazy'[Proj][k] = lazy[Proj][k]
      /\ \A k \in 1..Len(kinds) : lazy'[Proj][Len(lazy[Proj]) + k].n = asked[Proj] + k
      /\ \A q \in Projects \ {Proj} : lazy'[q] = lazy[q] /\ asked'[q] = asked[q]
  <2>1. Add(Proj, kinds) /\ TypeOK
    BY <1>1 DEF Handled, CallInv
  <2> HIDE DEF kinds
  <2>2. /\ Len(lazy'[Proj]) = Len(lazy[Proj]) + Len(kinds) /\ asked'[Proj] = asked[Proj] + Len(kinds)
        /\ \A k \in 1..Len(lazy[Proj]) : lazy'[Proj][k] = lazy[Proj][k]
        /\ \A k \in 1..Len(kinds) :
             lazy'[Proj][Len(lazy[Proj]) + k] = [n |-> asked[Proj] + k, kind |-> kinds[k]]
        /\ \A q \in Projects \ {Proj} : lazy'[q] = lazy[q] /\ asked'[q] = asked[q]
    BY <1>2, <1>3, <2>1, AddType
  <2>3. ASSUME NEW k \in 1..Len(kinds)
        PROVE  lazy'[Proj][Len(lazy[Proj]) + k].n = asked[Proj] + k
    <3>1. lazy'[Proj][Len(lazy[Proj]) + k] = [n |-> asked[Proj] + k, kind |-> kinds[k]]
      BY <2>2
    <3> QED
      BY <3>1
  <2> QED
    BY <2>2, <2>3
<1> HIDE DEF kinds
<1>3a. /\ Len(lazy[Proj]) \in Int /\ Len(done[Proj]) \in Int /\ asked[Proj] \in Int
       /\ Top.idx \in Int /\ Len(kinds) \in Int
  BY <1>2, <1>3
<1>6. /\ Len(done'[Proj]) = Len(done[Proj]) + 1
      /\ \A q \in Projects \ {Proj} : done'[q] = done[q]
  BY <1>1, <1>3 DEF Handled, CallInv, TypeOK
<1>7. owner' = owner /\ pc' = pc
  BY <1>1 DEF Handled
<1>8. LockInv'
  BY <1>1, <1>4, <1>7 DEF CallInv, LockInv, Looping, Inside
<1>9. ASSUME NEW p \in Projects, NEW k \in 1..Len(lazy'[p])
      PROVE  lazy'[p][k].n + Len(lazy'[p]) = asked'[p] + k
  <2>1. CASE p # Proj
    BY <1>5, <1>9, <2>1 DEF CallInv, QueueInv
  <2>2. CASE p = Proj /\ k <= Len(lazy[Proj])
    <3>1. k \in 1..Len(lazy[Proj])
      BY <1>3a, <2>2
    <3>2. lazy[Proj][k] \in Item
      BY <1>3, <3>1
    <3>3. lazy[Proj][k].n \in Int /\ k \in Int
      BY <3>1, <3>2 DEF Item
    <3>4. lazy[Proj][k].n + Len(lazy[Proj]) = asked[Proj] + k
      BY <1>3, <3>1 DEF CallInv, QueueInv
    <3>5. lazy'[Proj][k].n = lazy[Proj][k].n
      BY <1>5, <3>1
    <3>6. /\ Len(lazy'[Proj]) = Len(lazy[Proj]) + Len(kinds)
          /\ asked'[Proj] = asked[Proj] + Len(kinds)
      BY <1>5
    <3> DEFINE x == lazy[Proj][k].n
               x2 == lazy'[Proj][k].n
               l == Len(lazy[Proj])
               l2 == Len(lazy'[Proj])
               a == asked[Proj]
               a2 == asked'[Proj]
               c == Len(kinds)
    <3>7. x \in Int /\ l \in Int /\ a \in Int /\ k \in Int /\ c \in Int /\ x2 = x
          /\ x + l = a + k /\ l2 = l + c /\ a2 = a + c
      BY <1>3a, <3>3, <3>4, <3>5, <3>6
    <3>8. x2 + l2 = a2 + k
      <4> HIDE DEF x, x2, l, l2, a, a2, c
      <4> QED
        BY <3>7
    <3> QED
      BY <2>2, <3>8
  <2>3. CASE p = Proj /\ k > Len(lazy[Proj])
    <3>1. k - Len(lazy[Proj]) \in 1..Len(kinds) /\ k = Len(lazy[Proj]) + (k - Len(lazy[Proj]))
      BY <1>2, <1>3, <1>5, <2>3
    <3>2. lazy'[Proj][k].n = asked[Proj] + (k - Len(lazy[Proj]))
      BY <1>5, <3>1
    <3> QED
      BY <1>2, <1>3, <1>5, <2>3, <3>2
  <2> QED
    BY <1>3, <2>1, <2>2, <2>3
<1>10. ASSUME NEW p \in Projects
       PROVE  Len(done'[p]) + Len(lazy'[p]) = asked'[p] + Progress(p)'
  <2>1. Len(done[p]) + Len(lazy[p]) = asked[p] + Progress(p)
    BY DEF CallInv, QueueInv
  <2>2. CASE p # Proj
    BY <1>4, <1>5, <1>6, <2>1, <2>2 DEF Progress
  <2>3. CASE p = Proj
    <3>1. Progress(p) = Top.idx /\ Progress(p)' = Top.idx + 1
      BY <1>1, <1>4, <2>3 DEF Progress, Inside, Looping
    <3>2. /\ Len(lazy'[Proj]) = Len(lazy[Proj]) + Len(kinds)
          /\ asked'[Proj] = asked[Proj] + Len(kinds) /\ Len(done'[Proj]) = Len(done[Proj]) + 1
      BY <1>5, <1>6
    <3> DEFINE l == Len(lazy[Proj])
               l2 == Len(lazy'[Proj])
               a == asked[Proj]
               a2 == asked'[Proj]
               d == Len(done[Proj])
               d2 == Len(done'[Proj])
               c == Len(kinds)
               i == Top.idx
    <3>3. l \in Int /\ a \in Int /\ d \in Int /\ c \in Int /\ i \in Int
          /\ d + l = a + i /\ l2 = l + c /\ a2 = a + c /\ d2 = d + 1
      BY <1>3a, <2>1, <2>3, <3>1, <3>2
    <3>4. d2 + l2 = a2 + (i + 1)
      <4> HIDE DEF l, l2, a, a2, d, d2, c, i
      <4> QED
        BY <3>3
    <3> QED
      BY <2>3, <3>1, <3>4
  <2> QED
    BY <2>2, <2>3
<1>11. QueueInv'
  <2>1. Top'.idx <= Len(lazy'[Proj']) /\ Top'.st = "loop"
    BY <1>1, <1>2, <1>3, <1>4, <1>5
  <2> QED
    BY <1>9, <1>10, <2>1 DEF QueueInv
<1> QED
  BY <1>8, <1>11 DEF CallInv

LEMMA AddItemInv ==
  ASSUME CallInv, TypeOK', NEW t \in Threads, AddItem(t)
  PROVE  CallInv'
<1> DEFINE q == work[t].proj
           kind == work[t].kind
<1>1. q \in Projects /\ <<kind>> \in Seq(AllKinds) /\ Len(<<kind>>) = 1 /\ TypeOK
  <2>1. TypeOK /\ work[t] \in [proj : Projects, kind : AllKinds]
    BY DEF CallInv, TypeOK
  <2>2. q \in Projects /\ kind \in AllKinds
    BY <2>1
  <2> HIDE DEF q, kind
  <2> QED
    BY <2>1, <2>2
<1>2. Add(q, <<kind>>) /\ UNCHANGED <<owner, posts, work, stack, done, issued>>
  BY DEF AddItem
<1> HIDE DEF q, kind
<1>3. lazy[q] \in Seq(Item) /\ asked[q] \in Nat /\ done[q] \in Seq(Nat)
  BY <1>1 DEF TypeOK
<1>4. /\ Len(lazy'[q]) = Len(lazy[q]) + 1 /\ asked'[q] = asked[q] + 1
      /\ \A k \in 1..Len(lazy[q]) : lazy'[q][k] = lazy[q][k]
      /\ lazy'[q][Len(lazy[q]) + 1].n = asked[q] + 1
      /\ \A r \in Projects \ {q} : lazy'[r] = lazy[r] /\ asked'[r] = asked[r]
  <2>1. /\ Len(lazy'[q]) = Len(lazy[q]) + Len(<<kind>>) /\ asked'[q] = asked[q] + Len(<<kind>>)
        /\ \A k \in 1..Len(lazy[q]) : lazy'[q][k] = lazy[q][k]
        /\ \A k \in 1..Len(<<kind>>) :
             lazy'[q][Len(lazy[q]) + k] = [n |-> asked[q] + k, kind |-> <<kind>>[k]]
        /\ \A r \in Projects \ {q} : lazy'[r] = lazy[r] /\ asked'[r] = asked[r]
    BY <1>1, <1>2, AddType
  <2>2. lazy'[q][Len(lazy[q]) + 1] = [n |-> asked[q] + 1, kind |-> <<kind>>[1]]
    BY <1>1, <2>1
  <2>3. lazy'[q][Len(lazy[q]) + 1].n = asked[q] + 1
    BY <2>2
  <2> QED
    BY <1>1, <2>1, <2>3
<1>3a. Len(lazy[q]) \in Int /\ Len(done[q]) \in Int /\ asked[q] \in Int
  BY <1>3
<1>5. ~Inside
  <2>1. pc[t] # "idle" /\ owner = t
    BY DEF AddItem, CallInv, LockInv
  <2> QED
    BY <2>1 DEF CallInv, LockInv, Inside
<1>6. LockInv'
  BY <1>2 DEF CallInv, LockInv, AddItem, Depth, Top, Inside, TypeOK
<1>7. ASSUME NEW p \in Projects, NEW k \in 1..Len(lazy'[p])
      PROVE  lazy'[p][k].n + Len(lazy'[p]) = asked'[p] + k
  <2>1. CASE p # q
    BY <1>4, <1>7, <2>1 DEF CallInv, QueueInv
  <2>2. CASE p = q /\ k <= Len(lazy[q])
    <3>1. k \in 1..Len(lazy[q])
      BY <1>3a, <2>2
    <3>2. lazy[q][k] \in Item
      BY <1>3, <3>1
    <3>3. lazy[q][k].n \in Int /\ k \in Int
      BY <3>1, <3>2 DEF Item
    <3>4. lazy[q][k].n + Len(lazy[q]) = asked[q] + k
      BY <1>1, <3>1 DEF CallInv, QueueInv
    <3>5. lazy'[q][k].n = lazy[q][k].n
      BY <1>4, <3>1
    <3>6. Len(lazy'[q]) = Len(lazy[q]) + 1 /\ asked'[q] = asked[q] + 1
      BY <1>4
    <3> DEFINE x == lazy[q][k].n
               x2 == lazy'[q][k].n
               l == Len(lazy[q])
               l2 == Len(lazy'[q])
               a == asked[q]
               a2 == asked'[q]
    <3>7. x \in Int /\ l \in Int /\ a \in Int /\ k \in Int /\ x2 = x /\ x + l = a + k
          /\ l2 = l + 1 /\ a2 = a + 1
      BY <1>3a, <3>3, <3>4, <3>5, <3>6
    <3>8. x2 + l2 = a2 + k
      <4> HIDE DEF x, x2, l, l2, a, a2
      <4> QED
        BY <3>7
    <3> QED
      BY <2>2, <3>8
  <2>3. CASE p = q /\ k > Len(lazy[q])
    <3>1. k = Len(lazy[q]) + 1
      BY <1>3, <1>4, <2>3
    <3> QED
      BY <1>3, <1>4, <2>3, <3>1
  <2> QED
    BY <1>3, <2>1, <2>2, <2>3
<1>8. ~Inside' /\ \A p \in Projects : Progress(p) = 0 /\ Progress(p)' = 0
  BY <1>2, <1>5 DEF Inside, Progress, Depth, Top
<1>9. ASSUME NEW p \in Projects
      PROVE  Len(done'[p]) + Len(lazy'[p]) = asked'[p] + Progress(p)'
  <2>1. Len(done[p]) + Len(lazy[p]) = asked[p] + 0 /\ done' = done
    BY <1>2, <1>8 DEF CallInv, QueueInv
  <2>2. CASE p # q
    BY <1>4, <1>8, <2>1, <2>2
  <2>3. CASE p = q
    <3>1. Len(lazy'[q]) = Len(lazy[q]) + 1 /\ asked'[q] = asked[q] + 1
      BY <1>4
    <3>2. Progress(p)' = 0
      BY <1>8
    <3> DEFINE l == Len(lazy[q])
               l2 == Len(lazy'[q])
               a == asked[q]
               a2 == asked'[q]
               d == Len(done[q])
               d2 == Len(done'[q])
    <3>3. l \in Int /\ a \in Int /\ d \in Int
          /\ d + l = a + 0 /\ l2 = l + 1 /\ a2 = a + 1 /\ d2 = d
      BY <1>3a, <2>1, <2>3, <3>1, <3>2
    <3>4. d2 + l2 = a2 + 0
      <4> HIDE DEF l, l2, a, a2, d, d2
      <4> QED
        BY <3>3
    <3> QED
      BY <2>3, <3>2, <3>4
  <2> QED
    BY <2>2, <2>3
<1>10. QueueInv'
  <2>1. Depth' > 0 /\ Top'.st \in {"enter", "try"} => Top'.idx = 0
    BY <1>2 DEF CallInv, QueueInv, Depth, Top
  <2> QED
    BY <1>7, <1>8, <1>9, <2>1 DEF QueueInv, Inside
<1> QED
  BY <1>6, <1>10 DEF CallInv

(* A thread that takes or leaves the lock does so outside the loop. *)
LEMMA LockInvStep ==
  ASSUME CallInv, NEW t \in Threads,
         PostMessage(t) \/ \E p \in Projects, kind \in Kinds : Lock(t, p, kind)
  PROVE  CallInv'
<1>1. TypeOK'
  BY TypeStep DEF CallInv, NestedNext, Next
<1>2. ~Inside
  BY NoneAssumption, GuiAssumption DEF CallInv, LockInv, Inside, Lock, PostMessage
<1>3. UNCHANGED <<lazy, stack, asked, done>>
  BY DEF Lock, PostMessage
<1>4. LockInv'
  <2>1. CASE PostMessage(t)
    BY <1>2, <1>3, <2>1 DEF CallInv, LockInv, Inside, Depth, Top, PostMessage, TypeOK
  <2>2. CASE \E p \in Projects, kind \in Kinds : Lock(t, p, kind)
    <3>1. /\ owner = "none" /\ owner' = t /\ pc' = [pc EXCEPT ![t] = "locked"]
          /\ t = Gui => stack = <<>>
      BY <2>2 DEF Lock
    <3>2. \A u \in Threads : pc[u] = "idle"
      BY <3>1, NoneAssumption DEF CallInv, LockInv
    <3>3. Depth > 0 => Top.st # "modal" /\ pc'[Gui] = "idle"
      BY <3>1, <3>2, GuiAssumption DEF CallInv, LockInv, Depth, TypeOK
    <3>4. \A u \in Threads : pc'[u] # "idle" => owner' = u
      BY <3>1, <3>2 DEF CallInv, TypeOK
    <3> QED
      BY <1>2, <1>3, <3>3, <3>4 DEF CallInv, LockInv, Inside, Depth, Top
  <2> QED
    BY <2>1, <2>2
<1>5. QueueInv'
  BY <1>3 DEF CallInv, QueueInv, Inside, Progress, Depth, Top, Proj
<1> QED
  BY <1>1, <1>4, <1>5 DEF CallInv

(* The queue is emptied when everything in it is done. *)
LEMMA RemoveAllInv ==
  ASSUME CallInv, TypeOK', RemoveAll
  PROVE  CallInv'
<1> DEFINE f == [Top EXCEPT !.st = "send"]
<1>1. Depth = 1 /\ Top \in Frame /\ Proj \in Projects /\ Top.st = "clear" /\ Inside /\ TypeOK
  BY OneActivation DEF RemoveAll, CallInv, Inside
<1>2. f \in Frame /\ f.at = Top.at /\ f.st = "send"
  BY <1>1 DEF Frame
<1>3. SetTop(f)
  BY DEF RemoveAll
<1> HIDE DEF f
<1>4. Depth' = 1 /\ Top' = f
  BY <1>1, <1>2, <1>3, SetTopOne
<1>5. /\ lazy' = [lazy EXCEPT ![Proj] = <<>>] /\ owner' = "none"
      /\ UNCHANGED <<posts, pc, work, asked, done, issued>>
  BY <1>1 DEF RemoveAll
<1>6. ~Inside' /\ \A p \in Projects : Progress(p)' = 0
  BY <1>2, <1>4 DEF Inside, Progress
<1>7. \A t \in Threads : pc[t] = "idle"
  BY <1>1, GuiAssumption DEF CallInv, LockInv
<1>8. LockInv'
  BY <1>2, <1>4, <1>5, <1>6, <1>7, GuiAssumption DEF LockInv
<1>9. ASSUME NEW p \in Projects
      PROVE  /\ \A k \in 1..Len(lazy'[p]) : lazy'[p][k].n + Len(lazy'[p]) = asked'[p] + k
             /\ Len(done'[p]) + Len(lazy'[p]) = asked'[p] + Progress(p)'
  <2>1. CASE p # Proj
    <3>1. lazy'[p] = lazy[p] /\ Progress(p) = 0
      BY <1>1, <1>5, <2>1 DEF TypeOK, Progress
    <3> QED
      BY <1>5, <1>6, <3>1 DEF CallInv, QueueInv
  <2>2. CASE p = Proj
    <3>1. lazy'[p] = <<>> /\ Len(lazy'[p]) = 0
      BY <1>1, <1>5, <2>2 DEF TypeOK
    <3>2. Top.idx = Len(lazy[Proj]) /\ Progress(p) = Top.idx
      BY <1>1, <2>2 DEF CallInv, QueueInv, Progress
    <3> DEFINE d == Len(done[p])
               a == asked[p]
               l == Len(lazy[p])
    <3>3. d \in Int /\ a \in Int /\ l \in Int /\ d + l = a + l
      BY <1>1, <2>2, <3>2 DEF CallInv, QueueInv, TypeOK
    <3>4. d + 0 = a + 0
      <4> HIDE DEF d, a, l
      <4> QED
        BY <3>3
    <3>5. Len(done'[p]) + Len(lazy'[p]) = asked'[p] + Progress(p)'
      BY <1>5, <1>6, <3>1, <3>4
    <3> QED
      BY <3>1, <3>5
  <2> QED
    BY <2>1, <2>2
<1>10. QueueInv'
  BY <1>2, <1>4, <1>6, <1>9 DEF QueueInv
<1> QED
  BY <1>8, <1>10 DEF CallInv

LEMMA CallInvStep == CallInv /\ [Next]_vars => CallInv'
<1> SUFFICES ASSUME CallInv, [Next]_vars
             PROVE  CallInv'
  OBVIOUS
<1>0. TypeOK /\ TypeOK'
  BY TypeStep DEF CallInv, NestedNext
<1>1. ASSUME NEW t \in Threads,
             PostMessage(t) \/ \E p \in Projects, kind \in Kinds : Lock(t, p, kind)
      PROVE  CallInv'
  BY <1>1, LockInvStep
<1>2. ASSUME NEW t \in Threads, AddItem(t)
      PROVE  CallInv'
  BY <1>0, <1>2, AddItemInv
<1>3. CASE Dispatch
  <2>1. stack = <<>> /\ pc[Gui] = "idle" /\ UNCHANGED <<lazy, owner, pc, asked, done>>
    BY <1>3 DEF Dispatch, CallInv, LockInv, TypeOK, Depth
  <2>2. stack' = <<Entry(1)>>
    BY <1>3, <2>1 DEF Dispatch
  <2>3. Depth = 0 /\ Depth' = 1 /\ Top' = Entry(1)
    BY <2>1, <2>2 DEF Depth, Top
  <2>4. Top'.st = "enter" /\ Top'.idx = 0
    BY <2>3 DEF Entry
  <2> QED
    BY <1>0, <2>1, <2>3, <2>4, QuietStep DEF Inside, CallInv, LockInv
<1>4. CASE Enter
  <2>1. /\ Depth = 1 /\ Top \in Frame /\ Top.st = "enter" /\ Top.idx = 0 /\ ~Inside
        /\ UNCHANGED <<lazy, owner, pc, asked, done>> /\ pc[Gui] = "idle"
    BY <1>4, OneActivation DEF Enter, CallInv, LockInv, QueueInv, Inside
  <2>2. CASE NextListener
    BY <1>0, <2>1, <2>2, NextListenerOne, QuietStep DEF Inside, CallInv, LockInv
  <2>3. CASE SetTop([Top EXCEPT !.st = "try"])
    <3> DEFINE f == [Top EXCEPT !.st = "try"]
    <3>1. f \in Frame /\ f.st = "try" /\ f.idx = 0 /\ SetTop(f)
      BY <2>1, <2>3 DEF Frame
    <3> HIDE DEF f
    <3>2. Depth' = 1 /\ Top' = f
      BY <2>1, <3>1, SetTopOne
    <3> QED
      BY <1>0, <2>1, <3>1, <3>2, QuietStep DEF Inside, CallInv, LockInv
  <2> QED
    BY <1>4, <2>2, <2>3 DEF Enter
<1>5. CASE TryEnter
  <2> DEFINE f == [Top EXCEPT !.st = "loop"]
  <2>1. /\ Depth = 1 /\ Top \in Frame /\ Top.st = "try" /\ Top.idx = 0 /\ ~Inside
        /\ UNCHANGED <<lazy, pc, asked, done>> /\ owner \in {"none", Gui} /\ owner' = Gui
        /\ pc[Gui] = "idle"
    BY <1>5, OneActivation DEF TryEnter, CallInv, LockInv, QueueInv, Inside
  <2>2. f \in Frame /\ f.st = "loop" /\ f.idx = 0 /\ SetTop(f)
    BY <1>5, <2>1 DEF TryEnter, Frame
  <2> HIDE DEF f
  <2>3. Depth' = 1 /\ Top' = f
    BY <2>1, <2>2, SetTopOne
  <2>4. \A t \in Threads : pc[t] # "idle" => owner' = t
    BY <2>1, NoneAssumption DEF CallInv, LockInv
  <2> QED
    BY <1>0, <2>1, <2>2, <2>3, <2>4, QuietStep DEF Inside
<1>6. CASE Repost
  <2>1. /\ Depth = 1 /\ ~Inside /\ NextListener
        /\ UNCHANGED <<lazy, owner, pc, asked, done>> /\ pc[Gui] = "idle"
    BY <1>6, OneActivation DEF Repost, CallInv, LockInv, Inside
  <2> QED
    BY <1>0, <2>1, NextListenerOne, QuietStep DEF Inside, CallInv, LockInv
<1>7. CASE HandlePlain
  BY <1>0, <1>7, HandledInv DEF HandlePlain
<1>8. CASE HandleCommand
  <2> DEFINE f == [Advance EXCEPT !.cmds = Append(@, Current.n)]
  <2>1. Looping /\ Top.idx < Len(lazy[Proj]) /\ Handled(f)
    BY <1>8 DEF HandleCommand
  <2>2. Top \in Frame /\ Advance \in Frame /\ Current.n \in Nat
    BY <1>0, <2>1, TopType, AdvanceType, CurrentType DEF Looping, Item
  <2>3. f \in Frame /\ f.at = Advance.at /\ f.st = Advance.st /\ f.idx = Advance.idx
    BY <2>2, FrameUpdate DEF Frame
  <2>4. Advance.at = Top.at /\ Advance.st = "loop" /\ Advance.idx = Top.idx + 1
    BY <2>1, <2>2 DEF Advance, Looping, Frame
  <2> QED
    BY <1>0, <2>1, <2>3, <2>4, HandledInv
<1>9. CASE HandleBreak
  <2> DEFINE f == [Advance EXCEPT !.upd = TRUE]
  <2>1. Looping /\ Top.idx < Len(lazy[Proj]) /\ Handled(f)
    BY <1>9 DEF HandleBreak
  <2>2. Top \in Frame /\ Advance \in Frame
    BY <1>0, <2>1, TopType, AdvanceType DEF Looping
  <2>3. f \in Frame /\ f.at = Advance.at /\ f.st = Advance.st /\ f.idx = Advance.idx
    BY <2>2 DEF Frame
  <2>4. Advance.at = Top.at /\ Advance.st = "loop" /\ Advance.idx = Top.idx + 1
    BY <2>1, <2>2 DEF Advance, Looping, Frame
  <2> QED
    BY <1>0, <2>1, <2>3, <2>4, HandledInv
<1>10. CASE LoopOver
  <2> DEFINE f == [Top EXCEPT !.st = "clear",
                              !.cmds = IF Top.upd THEN Append(@, Refresh) ELSE @]
  <2>1. /\ Depth = 1 /\ Top \in Frame /\ Top.st = "loop" /\ Inside
        /\ UNCHANGED <<lazy, owner, pc, asked, done>> /\ pc[Gui] = "idle"
        /\ Top.idx >= Len(lazy[Proj]) /\ Proj \in Projects
    BY <1>10, OneActivation DEF LoopOver, Looping, CallInv, LockInv, Inside
  <2>2. f \in Frame /\ f.st = "clear" /\ f.idx = Top.idx /\ f.at = Top.at /\ SetTop(f)
    <3> DEFINE g == [Top EXCEPT !.st = "clear"]
               h == [g EXCEPT !.cmds = Append(@, 0)]
    <3>1. g \in Frame /\ g.st = "clear" /\ g.idx = Top.idx /\ g.at = Top.at
      BY <2>1 DEF Frame
    <3>2. h \in Frame /\ h.st = "clear" /\ h.idx = Top.idx /\ h.at = Top.at
      <4> HIDE DEF g
      <4> QED
        BY <3>1, FrameUpdate DEF Frame
    <3>3. f = IF Top.upd THEN h ELSE g
      BY <2>1 DEF Frame, Refresh
    <3>4. SetTop(f)
      BY <1>10 DEF LoopOver
    <3> HIDE DEF f, g, h
    <3> QED
      BY <3>1, <3>2, <3>3, <3>4
  <2> HIDE DEF f
  <2>3. Depth' = 1 /\ Top' = f /\ Proj' = Proj
    BY <2>1, <2>2, SetTopOne
  <2>4. Top.idx = Len(lazy[Proj])
    <3>1. Top.idx <= Len(lazy[Proj]) /\ Len(lazy[Proj]) \in Nat /\ Top.idx \in Nat
      BY <1>0, <2>1 DEF CallInv, QueueInv, TypeOK, Frame
    <3> QED
      BY <2>1, <3>1
  <2> QED
    BY <1>0, <2>1, <2>2, <2>3, <2>4, QuietStep DEF Inside, CallInv, LockInv
<1>11. CASE RemoveAll
  BY <1>0, <1>11, RemoveAllInv
<1>12. CASE SendDebugCommand
  <2> DEFINE f == [Top EXCEPT !.cmds = Tail(@)]
  <2>1. /\ Depth = 1 /\ Top \in Frame /\ Top.st = "send" /\ ~Inside
        /\ UNCHANGED <<lazy, owner, pc, asked, done>> /\ pc[Gui] = "idle"
        /\ Top.cmds # <<>>
    BY <1>12, OneActivation DEF SendDebugCommand, CallInv, LockInv, Inside
  <2>2. Tail(Top.cmds) \in Seq(Nat)
    BY <2>1 DEF Frame
  <2>3. f \in Frame /\ f.st = "send" /\ SetTop(f)
    BY <1>12, <2>1, <2>2 DEF SendDebugCommand, Frame
  <2> HIDE DEF f
  <2>4. Depth' = 1 /\ Top' = f
    BY <2>1, <2>3, SetTopOne
  <2> QED
    BY <1>0, <2>1, <2>3, <2>4, QuietStep DEF Inside, CallInv, LockInv
<1>13. CASE Return
  <2>1. /\ Depth = 1 /\ ~Inside /\ NextListener
        /\ UNCHANGED <<lazy, owner, pc, asked, done>> /\ pc[Gui] = "idle"
    BY <1>13, OneActivation DEF Return, CallInv, LockInv, Inside
  <2> QED
    BY <1>0, <2>1, NextListenerOne, QuietStep DEF Inside, CallInv, LockInv
<1>14. CASE UNCHANGED vars
  BY <1>0, <1>14 DEF vars, CallInv, LockInv, QueueInv, Inside, Progress, Depth, Top, Proj
<1> QED
  BY <1>1, <1>2, <1>3, <1>4, <1>5, <1>6, <1>7, <1>8, <1>9, <1>10, <1>11, <1>12,
     <1>13, <1>14 DEF Next, OnProcess

LEMMA CallInvInit == Init => CallInv
<1> SUFFICES ASSUME Init PROVE CallInv
  OBVIOUS
<1>1. Depth = 0 /\ ~Inside
  BY DEF Init, Depth, Inside
<1>2. LockInv
  BY <1>1 DEF Init, LockInv
<1>3. QueueInv
  BY <1>1 DEF Init, QueueInv, Progress
<1> QED
  BY <1>2, <1>3, TypeInit DEF CallInv

LEMMA CallInvCorrect == Spec => []CallInv
BY CallInvInit, CallInvStep, PTL DEF Spec

(* When no entry runs a message loop, OnProcess has handled the whole queue *)
(* when it empties it: the assertion at Turnpike.cpp:267-270 holds, for any *)
(* projects, threads and kinds of entry (WholeQueueProcessed).              *)
THEOREM QueueProcessed == Spec => []WholeQueueProcessed
<1>1. CallInv => WholeQueueProcessed
  BY DEF CallInv, QueueInv, WholeQueueProcessed
<1> QED
  BY <1>1, CallInvCorrect, PTL

(* Handling an entry carries out the next call and asks for the new ones.   *)
LEMMA HandledIsStep ==
  ASSUME CallInv, CallInv', Looping, Top.idx < Len(lazy[Proj]), NEW f, Handled(f)
  PROVE  Calls!Step(Proj)
<1> DEFINE kinds == Asks(Current.kind)
<1>1. Proj \in Projects /\ done[Proj] \in Seq(Nat) /\ asked[Proj] \in Nat /\ TypeOK
  BY TopType DEF CallInv, Looping
<1>2. kinds \in Seq(AllKinds) /\ Len(kinds) \in Nat
  BY AsksType
<1>3. Add(Proj, kinds) /\ done' = [done EXCEPT ![Proj] = Append(@, Current.n)]
  BY DEF Handled
<1> HIDE DEF kinds
<1>4. /\ asked' \in [Projects -> Nat] /\ asked'[Proj] = asked[Proj] + Len(kinds)
      /\ \A q \in Projects \ {Proj} : asked'[q] = asked[q]
  BY <1>1, <1>2, <1>3, AddType
<1>5. asked'[Proj] >= asked[Proj]
  BY <1>1, <1>2, <1>4
<1>6. done' = [done EXCEPT ![Proj] = Append(@, Len(@) + 1)] /\ Len(done[Proj]) < asked[Proj]
  BY <1>3, HandledCount DEF Looping
<1> QED
  BY <1>4, <1>5, <1>6 DEF Calls!Step

LEMMA CallsStep == CallInv /\ CallInv' /\ [Next]_vars => [Calls!Next]_<<asked, done>>
<1> SUFFICES ASSUME CallInv, CallInv', [Next]_vars
             PROVE  Calls!Next \/ UNCHANGED <<asked, done>>
  OBVIOUS
<1>1. ASSUME NEW t \in Threads, AddItem(t)
      PROVE  Calls!Next
  <2> DEFINE q == work[t].proj
             kinds == <<work[t].kind>>
  <2>1. work[t] \in [proj : Projects, kind : AllKinds] /\ TypeOK
    BY DEF CallInv, TypeOK
  <2>2. q \in Projects /\ kinds \in Seq(AllKinds) /\ Len(kinds) = 1
    BY <2>1
  <2>3. Add(q, kinds) /\ done' = done
    BY <1>1 DEF AddItem
  <2> HIDE DEF q, kinds
  <2>4. /\ asked' \in [Projects -> Nat] /\ asked'[q] = asked[q] + 1
        /\ \A r \in Projects \ {q} : asked'[r] = asked[r]
    BY <2>1, <2>2, <2>3, AddType
  <2>5. asked'[q] >= asked[q]
    BY <2>1, <2>2, <2>4 DEF TypeOK
  <2> QED
    BY <2>2, <2>3, <2>4, <2>5 DEF Calls!Next, Calls!Step
<1>2. ASSUME Looping, Top.idx < Len(lazy[Proj]), NEW f, Handled(f)
      PROVE  Calls!Next
  <2>1. Proj \in Projects
    BY <1>2, TopType DEF CallInv, Looping
  <2> QED
    BY <1>2, <2>1, HandledIsStep DEF Calls!Next
<1>3. CASE HandlePlain
  BY <1>2, <1>3 DEF HandlePlain
<1>4. CASE HandleCommand
  BY <1>2, <1>4 DEF HandleCommand
<1>5. CASE HandleBreak
  BY <1>2, <1>5 DEF HandleBreak
<1>6. CASE \/ \E t \in Threads :
                \/ \E p \in Projects, kind \in Kinds : Lock(t, p, kind)
                \/ PostMessage(t)
           \/ Dispatch \/ Enter \/ TryEnter \/ Repost \/ LoopOver \/ RemoveAll
           \/ SendDebugCommand \/ Return \/ UNCHANGED vars
  BY <1>6 DEF Lock, PostMessage, Dispatch, Enter, TryEnter, Repost, LoopOver, RemoveAll,
     SendDebugCommand, Return, vars
<1> QED
  BY <1>1, <1>3, <1>4, <1>5, <1>6 DEF Next, OnProcess

(* Whatever threads ask for, the GUI thread carries out the calls of every  *)
(* project one by one, each exactly once, in the order they were asked for  *)
(* (CallsSpec), as long as no entry runs a message loop.                    *)
THEOREM ImplementsCalls == Spec => CallsSpec
<1>1. Init => Calls!Init
  BY DEF Init, Calls!Init
<1> QED
  BY <1>1, CallInvCorrect, CallsStep, PTL DEF CallsSpec, Calls!Spec, Spec

-----------------------------------------------------------------------------
(* The debugger's commands.                                                *)

(* A command, or a refresh, behind those that are in order already. *)
LEMMA InOrderAppend ==
  ASSUME NEW c \in Seq(Nat), NEW n \in Nat, InOrder(c),
         \A k \in 1..Len(c) : Refresh \notin {c[k], n} => c[k] < n
  PROVE  InOrder(Append(c, n))
<1> DEFINE d == Append(c, n)
<1>1. /\ Len(d) = Len(c) + 1 /\ d[Len(c) + 1] = n
      /\ \A k \in 1..Len(c) : d[k] = c[k]
  OBVIOUS
<1> HIDE DEF d
<1> SUFFICES ASSUME NEW i \in 1..Len(d), NEW j \in 1..Len(d), i < j,
                    Refresh \notin {d[i], d[j]}
             PROVE  d[i] < d[j]
  BY DEF InOrder, d
<1>2. i \in 1..Len(c) /\ d[i] = c[i]
  BY <1>1
<1>3. CASE j \in 1..Len(c)
  BY <1>1, <1>2, <1>3 DEF InOrder
<1>4. CASE j = Len(c) + 1
  BY <1>1, <1>2, <1>4
<1> QED
  BY <1>1, <1>3, <1>4

(* A step that sends nothing and collects nothing. *)
LEMMA SentFrame ==
  ASSUME TypeOK, TypeOK', SentInv, issued' = issued,
         \A p \in Projects : Len(done'[p]) >= Len(done[p]),
         Depth' > 0 =>
           \/ Top'.cmds = <<>>
           \/ /\ Depth > 0 /\ Proj' = Proj /\ Top'.cmds = Top.cmds
              /\ Top'.st \in {"enter", "try"} => Top.st \in {"enter", "try"}
  PROVE  SentInv'
<1>1. ASSUME NEW p \in Projects
      PROVE  /\ InOrder(issued'[p])
             /\ \A k \in 1..Len(issued'[p]) : issued'[p][k] <= Len(done'[p])
  <2>1. issued[p] \in Seq(Nat) /\ done[p] \in Seq(Nat) /\ done'[p] \in Seq(Nat)
    BY DEF TypeOK
  <2> QED
    BY <2>1 DEF SentInv
<1>2. CASE Depth' > 0 /\ Top'.cmds = <<>>
  BY <1>1, <1>2 DEF SentInv, InOrder
<1>3. CASE /\ Depth' > 0 /\ Depth > 0 /\ Proj' = Proj /\ Top'.cmds = Top.cmds
           /\ Top'.st \in {"enter", "try"} => Top.st \in {"enter", "try"}
  <2>1. Proj \in Projects /\ Top.cmds \in Seq(Nat)
    BY <1>3, TopType DEF Frame
  <2>2. done[Proj] \in Seq(Nat) /\ done'[Proj] \in Seq(Nat)
    BY <2>1 DEF TypeOK
  <2>3. \A k \in 1..Len(Top.cmds) : Top.cmds[k] <= Len(done'[Proj])
    BY <1>3, <2>1, <2>2 DEF SentInv
  <2> QED
    BY <1>1, <1>3, <2>3 DEF SentInv
<1>4. CASE ~(Depth' > 0)
  BY <1>1, <1>4 DEF SentInv
<1> QED
  BY <1>2, <1>3, <1>4

(* What handling an entry does to the calls handled. *)
LEMMA HandledDone ==
  ASSUME CallInv, Looping, Top.idx < Len(lazy[Proj]), NEW f, Handled(f)
  PROVE  /\ Current.n \in Nat /\ Current.n = Len(done[Proj]) + 1
         /\ Len(done'[Proj]) = Current.n
         /\ \A p \in Projects : Len(done'[p]) >= Len(done[p])
<1>1. /\ TypeOK /\ Proj \in Projects /\ done[Proj] \in Seq(Nat)
      /\ Current.n = Len(done[Proj]) + 1
  BY HandledCount, TopType DEF CallInv, Looping
<1>2. done'[Proj] = Append(done[Proj], Current.n)
      /\ \A p \in Projects \ {Proj} : done'[p] = done[p]
  BY <1>1 DEF Handled, TypeOK
<1>3. Len(done'[Proj]) = Len(done[Proj]) + 1 /\ Len(done[Proj]) \in Nat
  BY <1>1, <1>2
<1>4. \A p \in Projects : Len(done[p]) \in Nat
  BY <1>1 DEF TypeOK
<1> QED
  BY <1>1, <1>2, <1>3, <1>4

(* The steps of the loop: a command collected is later than all before it,  *)
(* and the refresh behind the last of them has no number to compare.       *)
LEMMA SentCollect ==
  ASSUME CallInv, TypeOK', SentInv, Looping, NEW n \in Nat,
         NEW f \in Frame, f.at = Top.at, f.cmds = Append(Top.cmds, n),
         f.st \notin {"enter", "try"}, SetTop(f), issued' = issued,
         n = Refresh \/ n > Len(done[Proj]), n <= Len(done'[Proj]),
         \A p \in Projects : Len(done'[p]) >= Len(done[p])
  PROVE  SentInv'
<1>1. /\ TypeOK /\ Depth > 0 /\ Proj \in Projects /\ Top.cmds \in Seq(Nat)
      /\ issued[Proj] \in Seq(Nat) /\ done[Proj] \in Seq(Nat)
  BY TopType DEF CallInv, Looping, Frame
<1>2. Depth' = 1 /\ Top' = f /\ Proj' = Proj /\ done'[Proj] \in Seq(Nat)
  BY <1>1, SetTopOne DEF TypeOK
<1>3. ASSUME NEW p \in Projects
      PROVE  /\ InOrder(issued'[p])
             /\ \A k \in 1..Len(issued'[p]) : issued'[p][k] <= Len(done'[p])
  <2>1. issued[p] \in Seq(Nat) /\ done[p] \in Seq(Nat) /\ done'[p] \in Seq(Nat)
    BY <1>1 DEF TypeOK
  <2> QED
    BY <2>1 DEF SentInv
<1> DEFINE c == Top.cmds
<1>4. /\ InOrder(c) /\ \A k \in 1..Len(c) : c[k] <= Len(done[Proj])
      /\ \A i \in 1..Len(issued[Proj]), k \in 1..Len(c) :
           Refresh \notin {issued[Proj][i], c[k]} => issued[Proj][i] < c[k]
      /\ \A i \in 1..Len(issued[Proj]) : issued[Proj][i] <= Len(done[Proj])
  BY <1>1 DEF SentInv
<1>5. c \in Seq(Nat) /\ Top'.cmds = Append(c, n)
  BY <1>1, <1>2
<1> HIDE DEF c
<1>6. InOrder(Append(c, n))
  <2>1. \A k \in 1..Len(c) : c[k] \in Nat
    BY <1>5
  <2>2. \A k \in 1..Len(c) : Refresh \notin {c[k], n} => c[k] < n
    BY <1>1, <1>4, <2>1
  <2> QED
    BY <1>4, <1>5, <2>2, InOrderAppend
<1>7. \A k \in 1..Len(Append(c, n)) :
        \/ k \in 1..Len(c) /\ Append(c, n)[k] = c[k]
        \/ k = Len(c) + 1 /\ Append(c, n)[k] = n
  BY <1>5
<1>8. ASSUME NEW k \in 1..Len(Append(c, n)) PROVE Append(c, n)[k] <= Len(done'[Proj])
  BY <1>1, <1>2, <1>4, <1>5, <1>7
<1>9. ASSUME NEW i \in 1..Len(issued[Proj]), NEW k \in 1..Len(Append(c, n)),
             Refresh \notin {issued[Proj][i], Append(c, n)[k]}
      PROVE  issued[Proj][i] < Append(c, n)[k]
  <2>1. issued[Proj][i] \in Nat /\ issued[Proj][i] <= Len(done[Proj])
    BY <1>1, <1>4
  <2>2. CASE k \in 1..Len(c) /\ Append(c, n)[k] = c[k]
    BY <1>4, <1>9, <2>2
  <2>3. CASE Append(c, n)[k] = n
    BY <1>1, <1>9, <2>1, <2>3
  <2> QED
    BY <1>7, <2>2, <2>3
<1> QED
  BY <1>2, <1>3, <1>5, <1>6, <1>8, <1>9 DEF SentInv

(* The first command collected is sent. *)
LEMMA SentSend ==
  ASSUME CallInv, TypeOK', SentInv, SendDebugCommand
  PROVE  SentInv'
<1> DEFINE c == Top.cmds
           s == issued[Proj]
           f == [Top EXCEPT !.cmds = Tail(@)]
<1>1. /\ TypeOK /\ Depth > 0 /\ Top \in Frame /\ Proj \in Projects /\ Top.st = "send"
      /\ c \in Seq(Nat) /\ c # <<>> /\ s \in Seq(Nat) /\ done[Proj] \in Seq(Nat)
  BY TopType DEF CallInv, SendDebugCommand, Frame
<1>2. Tail(c) \in Seq(Nat) /\ Len(Tail(c)) = Len(c) - 1 /\ Head(c) = c[1] /\ Head(c) \in Nat
      /\ \A k \in 1..Len(Tail(c)) : Tail(c)[k] = c[k + 1] /\ k + 1 \in 1..Len(c)
  BY <1>1
<1>3. f \in Frame /\ f.at = Top.at /\ f.st = Top.st /\ f.cmds = Tail(c)
  BY <1>1, <1>2 DEF Frame
<1>4. Depth' = 1 /\ Top' = f /\ Proj' = Proj /\ done' = done
  <2>1. SetTop(f) /\ done' = done
    BY DEF SendDebugCommand
  <2> HIDE DEF f
  <2> QED
    BY <1>1, <1>3, <2>1, SetTopOne
<1>5. issued'[Proj] = Append(s, Head(c)) /\ \A p \in Projects \ {Proj} : issued'[p] = issued[p]
  BY <1>1 DEF SendDebugCommand, TypeOK
<1>6. /\ InOrder(c) /\ InOrder(s)
      /\ \A k \in 1..Len(c) : c[k] <= Len(done[Proj])
      /\ \A i \in 1..Len(s) : s[i] <= Len(done[Proj])
      /\ \A i \in 1..Len(s), k \in 1..Len(c) : Refresh \notin {s[i], c[k]} => s[i] < c[k]
  BY <1>1 DEF SentInv
<1>7. \A p \in Projects \ {Proj} :
        InOrder(issued'[p]) /\ \A k \in 1..Len(issued'[p]) : issued'[p][k] <= Len(done'[p])
  BY <1>4, <1>5 DEF SentInv
<1>8. Top'.st \notin {"enter", "try"} /\ Top'.cmds = Tail(c)
  BY <1>1, <1>3, <1>4
<1> HIDE DEF c, s, f
<1>9. 1 \in 1..Len(c)
  BY <1>1
<1>10. InOrder(Append(s, Head(c)))
  BY <1>1, <1>2, <1>6, <1>9, InOrderAppend
<1>11. \A k \in 1..Len(Append(s, Head(c))) :
         \/ k \in 1..Len(s) /\ Append(s, Head(c))[k] = s[k]
         \/ Append(s, Head(c))[k] = c[1]
  <2> DEFINE n == Head(c)
  <2>1. n \in Nat /\ n = c[1]
    BY <1>2
  <2> HIDE DEF n
  <2>2. \A k \in 1..Len(Append(s, n)) :
          \/ k \in 1..Len(s) /\ Append(s, n)[k] = s[k]
          \/ Append(s, n)[k] = n
    BY <1>1, <2>1
  <2> QED
    BY <2>1, <2>2 DEF n
<1>12. InOrder(Tail(c))
  <2> SUFFICES ASSUME NEW i \in 1..Len(Tail(c)), NEW j \in 1..Len(Tail(c)), i < j,
                      Refresh \notin {Tail(c)[i], Tail(c)[j]}
               PROVE  Tail(c)[i] < Tail(c)[j]
    BY DEF InOrder
  <2>1. /\ Tail(c)[i] = c[i + 1] /\ Tail(c)[j] = c[j + 1] /\ i + 1 < j + 1
        /\ i + 1 \in 1..Len(c) /\ j + 1 \in 1..Len(c)
    BY <1>2
  <2> QED
    BY <1>6, <2>1 DEF InOrder
<1>13. \A k \in 1..Len(Tail(c)) : Tail(c)[k] <= Len(done[Proj])
  BY <1>2, <1>6
<1>14. ASSUME NEW i \in 1..Len(Append(s, Head(c))), NEW k \in 1..Len(Tail(c)),
              Refresh \notin {Append(s, Head(c))[i], Tail(c)[k]}
       PROVE  Append(s, Head(c))[i] < Tail(c)[k]
  <2>1. Tail(c)[k] = c[k + 1] /\ k + 1 \in 1..Len(c) /\ 1 < k + 1
    BY <1>2
  <2>2. CASE i \in 1..Len(s) /\ Append(s, Head(c))[i] = s[i]
    BY <1>6, <1>14, <2>1, <2>2
  <2>3. CASE Append(s, Head(c))[i] = c[1]
    BY <1>6, <1>9, <1>14, <2>1, <2>3 DEF InOrder
  <2> QED
    BY <1>11, <2>2, <2>3
<1>15. \A k \in 1..Len(Append(s, Head(c))) : Append(s, Head(c))[k] <= Len(done[Proj])
  BY <1>6, <1>9, <1>11
<1> QED
  BY <1>4, <1>5, <1>7, <1>8, <1>10, <1>12, <1>13, <1>14, <1>15 DEF SentInv

LEMMA SentStep == CallInv /\ CallInv' /\ SentInv /\ [Next]_vars => SentInv'
<1> SUFFICES ASSUME CallInv, CallInv', SentInv, [Next]_vars
             PROVE  SentInv'
  OBVIOUS
<1>0. /\ TypeOK /\ TypeOK'
      /\ done' = done => \A p \in Projects : Len(done'[p]) >= Len(done[p])
  <2>1. \A p \in Projects : Len(done[p]) \in Nat
    BY DEF CallInv, TypeOK
  <2> QED
    BY <2>1 DEF CallInv
<1>1. CASE UNCHANGED <<stack, done, issued>>
  BY <1>0, <1>1, SentFrame DEF Depth, Top, Proj
<1>2. CASE Dispatch
  <2>1. /\ Depth' = 1 /\ Top' = Entry(1) /\ UNCHANGED <<done, issued>>
    <3>1. stack = <<>>
      BY <1>2, OneActivation DEF Dispatch, CallInv, TypeOK, Depth
    <3>2. stack' = <<Entry(1)>> /\ UNCHANGED <<done, issued>>
      BY <1>2, <3>1 DEF Dispatch
    <3> QED
      BY <3>2 DEF Depth, Top
  <2> QED
    BY <1>0, <2>1, SentFrame DEF Entry
<1>3. CASE Depth > 0 /\ NextListener /\ UNCHANGED <<done, issued>>
  BY <1>0, <1>3, NextListenerOne, SentFrame
<1>4. ASSUME NEW f \in Frame, SetTop(f), Depth > 0, f.at = Top.at, f.cmds = Top.cmds,
             f.st \in {"enter", "try"} => Top.st \in {"enter", "try"}, issued' = issued,
             \A p \in Projects : Len(done'[p]) >= Len(done[p])
      PROVE  SentInv'
  BY <1>0, <1>4, SetTopOne, SentFrame
<1>5. CASE Enter
  <2>1. CASE lazy[Proj] = <<>>
    BY <1>3, <1>5, <2>1 DEF Enter
  <2>2. CASE lazy[Proj] # <<>>
    <3> DEFINE f == [Top EXCEPT !.st = "try"]
    <3>1. f \in Frame /\ f.at = Top.at /\ f.cmds = Top.cmds /\ Top.st = "enter"
      BY <1>0, <1>5, TopType DEF Frame, Enter
    <3>2. SetTop(f) /\ Depth > 0 /\ UNCHANGED <<done, issued>>
      BY <1>5, <2>2 DEF Enter
    <3> HIDE DEF f
    <3> QED
      BY <1>0, <1>4, <3>1, <3>2
  <2> QED
    BY <2>1, <2>2
<1>6. CASE TryEnter
  <2> DEFINE f == [Top EXCEPT !.st = "loop"]
  <2>1. f \in Frame /\ f.at = Top.at /\ f.cmds = Top.cmds /\ f.st = "loop"
    BY <1>0, <1>6, TopType DEF Frame, TryEnter
  <2>2. SetTop(f) /\ Depth > 0 /\ UNCHANGED <<done, issued>>
    BY <1>6 DEF TryEnter
  <2> HIDE DEF f
  <2> QED
    BY <1>0, <1>4, <2>1, <2>2
<1>7. CASE Repost
  BY <1>3, <1>7 DEF Repost
<1>8. CASE HandlePlain
  <2>1. Advance \in Frame /\ Advance.at = Top.at /\ Advance.cmds = Top.cmds /\ Advance.st = "loop"
    BY <1>0, <1>8, AdvanceType, TopType DEF Advance, HandlePlain, Looping, Frame
  <2>2. SetTop(Advance) /\ Depth > 0 /\ issued' = issued
    BY <1>8 DEF HandlePlain, Handled, Looping
  <2>3. \A p \in Projects : Len(done'[p]) >= Len(done[p])
    BY <1>8, HandledDone DEF HandlePlain
  <2> QED
    BY <1>4, <2>1, <2>2, <2>3
<1>9. CASE HandleCommand
  <2> DEFINE f == [Advance EXCEPT !.cmds = Append(@, Current.n)]
  <2>1. Handled(f) /\ Looping /\ Top.idx < Len(lazy[Proj])
    BY <1>9 DEF HandleCommand
  <2>2. /\ Current.n \in Nat /\ Current.n = Len(done[Proj]) + 1
        /\ Len(done'[Proj]) = Current.n
        /\ \A p \in Projects : Len(done'[p]) >= Len(done[p])
    BY <2>1, HandledDone
  <2>3. f \in Frame
    BY <1>0, <2>1, <2>2, AdvanceType, FrameUpdate DEF Looping
  <2>4. f.at = Top.at /\ f.st = "loop" /\ f.cmds = Append(Top.cmds, Current.n)
    BY <1>0, <2>1, TopType DEF Advance, Looping, Frame
  <2>5. SetTop(f) /\ issued' = issued
    BY <2>1 DEF Handled
  <2>6. Current.n > Len(done[Proj]) /\ Current.n <= Len(done'[Proj])
    <3>1. done[Proj] \in Seq(Nat)
      BY <1>0, <2>1, TopType DEF Looping
    <3> QED
      BY <2>2, <3>1
  <2> HIDE DEF f
  <2> QED
    BY <1>0, <2>1, <2>2, <2>3, <2>4, <2>5, <2>6, SentCollect
<1>10. CASE HandleBreak
  <2> DEFINE f == [Advance EXCEPT !.upd = TRUE]
  <2>1. f \in Frame /\ f.at = Top.at /\ f.cmds = Top.cmds /\ f.st = "loop"
    BY <1>0, <1>10, AdvanceType, TopType DEF Advance, HandleBreak, Looping, Frame
  <2>2. Handled(f) /\ Looping /\ Top.idx < Len(lazy[Proj])
    BY <1>10 DEF HandleBreak
  <2> HIDE DEF f
  <2>3. SetTop(f) /\ Depth > 0 /\ issued' = issued
    BY <2>2 DEF Handled, Looping
  <2>4. \A p \in Projects : Len(done'[p]) >= Len(done[p])
    BY <2>2, HandledDone
  <2> QED
    BY <1>4, <2>1, <2>3, <2>4
<1>11. CASE LoopOver
  <2> DEFINE f == [Top EXCEPT !.st = "clear", !.cmds = IF Top.upd THEN Append(@, Refresh) ELSE @]
  <2>1. Top \in Frame /\ Append(Top.cmds, Refresh) \in Seq(Nat) /\ done[Proj] \in Seq(Nat)
    BY <1>0, <1>11, TopType DEF LoopOver, Looping, Frame, Refresh
  <2>2. /\ f \in Frame /\ f.at = Top.at /\ f.st = "clear"
        /\ f.cmds = IF Top.upd THEN Append(Top.cmds, Refresh) ELSE Top.cmds
    BY <2>1 DEF Frame
  <2>3. SetTop(f) /\ Looping /\ Depth > 0 /\ UNCHANGED <<done, issued>>
    BY <1>11 DEF LoopOver, Looping
  <2> HIDE DEF f
  <2>4. CASE Top.upd
    BY <1>0, <2>1, <2>2, <2>3, <2>4, SentCollect DEF Refresh
  <2>5. CASE ~Top.upd
    BY <1>0, <1>4, <2>2, <2>3, <2>5
  <2> QED
    BY <2>4, <2>5
<1>12. CASE RemoveAll
  <2> DEFINE f == [Top EXCEPT !.st = "send"]
  <2>1. f \in Frame /\ f.at = Top.at /\ f.cmds = Top.cmds /\ f.st = "send"
    BY <1>0, <1>12, TopType DEF RemoveAll, Frame
  <2>2. SetTop(f) /\ Depth > 0 /\ UNCHANGED <<done, issued>>
    BY <1>12 DEF RemoveAll
  <2> HIDE DEF f
  <2> QED
    BY <1>0, <1>4, <2>1, <2>2
<1>13. CASE SendDebugCommand
  BY <1>0, <1>13, SentSend
<1>14. CASE Return
  BY <1>3, <1>14 DEF Return
<1>15. \A t \in Threads :
         (AddItem(t) \/ PostMessage(t) \/ \E p \in Projects, kind \in Kinds : Lock(t, p, kind))
           => UNCHANGED <<stack, done, issued>>
  BY DEF AddItem, PostMessage, Lock
<1> QED
  BY <1>1, <1>2, <1>5, <1>6, <1>7, <1>8, <1>9, <1>10, <1>11, <1>12, <1>13, <1>14, <1>15
     DEF Next, OnProcess, vars

(* The debugger is given a project's commands in the order asked for, and   *)
(* each once, over all batches, for any projects, threads and kinds of      *)
(* entry: they are collected in the order of the queue and sent, after it   *)
(* has been emptied, before the next batch is begun (CommandsInOrder).      *)
THEOREM CommandsSentInOrder == Spec => []CommandsInOrder
<1>1. Init => SentInv
  BY DEF Init, SentInv, InOrder, Depth
<1>2. SentInv => CommandsInOrder
  BY DEF SentInv, CommandsInOrder
<1> QED
  BY <1>1, <1>2, SentStep, CallInvCorrect, PTL DEF Spec

=============================================================================
