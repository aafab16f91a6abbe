--------------------------- MODULE TagCache_proofs ---------------------------
(***************************************************************************)
(* For every project and however much is typed, saved and shown: the types   *)
(* of TagCache, that the class view holds no pointer to a file that is not   *)
(* in the list, and that the symbol view shows what was asked for last.      *)
(***************************************************************************)
EXTENDS TagCache, FiniteSetTheorems, TLAPS

LEMMA NumbersTypes == ASSUME NEW F \in SUBSET LexFile PROVE Numbers(F) \subseteq Nat
  BY DEF Numbers, LexFile

LEMMA Messages ==
  /\ [msg |-> "process"] \in Message /\ [msg |-> "get"] \in Message
  /\ \A c \in Nat, l \in Result : [msg |-> "got", cookie |-> c, list |-> l] \in Message
  BY DEF Message

LEMMA NoSymbolsType == NoSymbols \in Result
  BY DEF NoSymbols, Result

LEMMA Resumes == Resumed \in {"process", "idle"}
  BY DEF Resumed

-----------------------------------------------------------------------------
LEMMA InitTypes == TagInit => TagTypes
<1> SUFFICES ASSUME TagInit PROVE TagTypes
  OBVIOUS
<1>1. stage \in [gui : GuiStages, finder : FinderStages]
  BY DEF TagInit, GuiStages, FinderStages
<1>2. inbox \in Seq(Message) /\ merges \in Seq(LexFile)
  BY DEF TagInit
<1>3. finder \in [cookie : Nat, pattern : Nat, found : SUBSET Nat, stop : BOOLEAN]
  BY DEF TagInit
<1> QED BY <1>1, <1>2, <1>3, NoSymbolsType DEF TagInit, TagTypes

LEMMA StageTypes ==
  ASSUME TagTypes
  PROVE  /\ \A g \in GuiStages : [stage EXCEPT !.gui = g] \in [gui : GuiStages, finder : FinderStages]
         /\ \A f \in FinderStages :
              [stage EXCEPT !.finder = f] \in [gui : GuiStages, finder : FinderStages]
  BY DEF TagTypes

(* What a lookup does to the stage of its thread. *)
LEMMA LookTypes ==
  ASSUME TagTypes, NEW t \in Lookers, NEW s \in GuiStages \intersect FinderStages,
         stage' = [stage EXCEPT ![t] = s]
  PROVE  stage' \in [gui : GuiStages, finder : FinderStages]
<1>1. CASE t = "gui"
  BY <1>1, StageTypes
<1>2. CASE t = "finder"
  BY <1>2, StageTypes
<1> QED BY <1>1, <1>2 DEF Lookers

LEMMA LoadTypes ==
  ASSUME TagTypes, NEW t \in Lookers, LoadFiles(t)
  PROVE  made' \in Nat /\ lexFiles' \in SUBSET LexFile
<1>1. PICK present \in SUBSET Sources :
        /\ made' = made + Cardinality(present)
        /\ \E number \in [present -> made + 1 .. made + Cardinality(present)] :
             /\ \A s, r \in present : number[s] = number[r] => s = r
             /\ lexFiles' = lexFiles \union {[n |-> number[s], source |-> s] : s \in present}
  BY DEF LoadFiles
<1>2. Cardinality(present) \in Nat
  BY SourcesAssumption, FS_Subset, FS_CardinalityType
<1>3. PICK number \in [present -> made + 1 .. made + Cardinality(present)] :
        lexFiles' = lexFiles \union {[n |-> number[s], source |-> s] : s \in present}
  BY <1>1
<1>4. made \in Nat
  BY DEF TagTypes
<1>5. \A s \in present : number[s] \in Nat /\ s \in Sources
  BY <1>2, <1>4
<1>6. \A s \in present : [n |-> number[s], source |-> s] \in LexFile
  BY <1>5 DEF LexFile
<1> HIDE DEF LexFile
<1> QED BY <1>1, <1>2, <1>3, <1>4, <1>6 DEF TagTypes

LEMMA StoppedType ==
  TagTypes => /\ Stopped \in [cookie : Nat, pattern : Nat, found : SUBSET Nat, stop : BOOLEAN]
               /\ Stopped.cookie = finder.cookie /\ Stopped.found = finder.found
               /\ Stopped.pattern = finder.pattern
  BY DEF Stopped, TagTypes

LEMMA AppendTypes ==
  ASSUME TagTypes, NEW m \in Message, inbox' = Append(inbox, m)
  PROVE  inbox' \in Seq(Message)
<1> HIDE DEF Message
<1> QED BY DEF TagTypes

LEMMA DispatchTypes ==
  ASSUME TagTypes, NEW m, Dispatch(m)
  PROVE  inbox' \in Seq(Message) /\ Head(inbox) \in Message /\ Head(inbox).msg = m
<1> HIDE DEF Message
<1> QED BY DEF TagTypes, Dispatch

LEMMA RebuildTypes ==
  ASSUME TagTypes, Rebuild
  PROVE  populated' \in BOOLEAN /\ stage' \in [gui : GuiStages, finder : FinderStages]
<1>1. (IF showing' THEN "look" ELSE Resumed) \in GuiStages
  BY Resumes DEF GuiStages
<1> QED BY <1>1, StageTypes DEF Rebuild, GuiGoes

LEMMA ReplaceTypes ==
  ASSUME TagTypes, NEW file \in LexFile, Replace(file)
  PROVE  lexFiles' \in SUBSET LexFile /\ oldFiles' \in SUBSET LexFile
<1> HIDE DEF LexFile
<1> QED BY DEF Replace, TagTypes

LEMMA NextSaves ==
  ASSUME TagTypes, SavesSource, [TagNext]_tagVars
  PROVE  SavesSource'
<1> USE DEF tags, parsing, symbolView, classView, tagCounts, GuiIs, SavesSource, TagTypes
<1>1. CASE \E s \in Sources : SaveFile(s)
  BY <1>1 DEF SaveFile
<1>2. CASE UNCHANGED <<stage, saving>>
  BY <1>2
<1>3. ASSUME NEW g \in {"idle", "wait", "process", "look", "load", "fill", "gather", "halt"},
             stage' = [stage EXCEPT !.gui = g]
      PROVE  SavesSource'
  BY <1>3
<1>4. ASSUME NEW g, stage' = [stage EXCEPT !.finder = g], UNCHANGED saving
      PROVE  SavesSource'
  BY <1>4
<1>5. CASE \E t \in Lookers : TestLoaded(t) \/ ClearTags(t) \/ LoadFiles(t)
  <2> PICK t \in Lookers, g \in {"load", "fill", "gather"} :
        stage' = [stage EXCEPT ![t] = g] /\ UNCHANGED saving
    BY <1>5 DEF TestLoaded, ClearTags, LoadFiles
  <2>1. CASE t = "gui"
    BY <2>1, <1>3
  <2>2. CASE t = "finder"
    BY <2>2, <1>4
  <2> QED BY <2>1, <2>2 DEF Lookers
<1>6. CASE Rebuild
  <2>1. (IF showing' THEN "look" ELSE Resumed) \in {"look", "process", "idle"}
    BY DEF Resumed
  <2> QED BY <1>6, <2>1, <1>3 DEF Rebuild, GuiGoes
<1>7. CASE PopulateTree
  BY <1>7, <1>3, Resumes DEF PopulateTree, GuiGoes
<1>8. CASE Show
  BY <1>8, <1>2, <1>6 DEF Show
<1>9. CASE SortTree \/ MergeIntoTree
  BY <1>9, <1>6 DEF SortTree, MergeIntoTree
<1>10. CASE StartLexer \/ WaitForThread
  BY <1>10, <1>3 DEF StartLexer, WaitForThread, GuiGoes
<1>11. CASE OnGetSymbolData
  BY <1>11, <1>2, <1>3 DEF OnGetSymbolData, GuiGoes
<1>12. CASE StartFinder
  BY <1>12 DEF StartFinder
<1>13. CASE MatchSymbols \/ TestStop \/ PostSymbols
  BY <1>13, <1>4 DEF MatchSymbols, TestStop, PostSymbols
<1>14. CASE OnProcess \/ EndProcess
  BY <1>14, <1>3 DEF OnProcess, EndProcess, GuiGoes
<1> QED
  BY <1>1, <1>2, <1>5, <1>7, <1>8, <1>9, <1>10, <1>11, <1>12, <1>13, <1>14
  DEF TagNext, tagVars, Hide, ParseFile, ParseFails, DelayedClassTreeInfo, Type, SortSymbols,
      OnGotSymbolData

LEMMA NextTypes == ASSUME TagTypes, SavesSource, [TagNext]_tagVars PROVE TagTypes'
<1> USE DEF tags, parsing, symbolView, classView, tagCounts
<1>0. CASE UNCHANGED tagVars
  BY <1>0 DEF TagTypes, tagVars
<1>1. CASE \E t \in Lookers : TestLoaded(t) \/ ClearTags(t) \/ LoadFiles(t)
  <2> PICK t \in Lookers : TestLoaded(t) \/ ClearTags(t) \/ LoadFiles(t)
    BY <1>1
  <2>1. CASE TestLoaded(t)
    <3>1. (IF loaded THEN "gather" ELSE "load") \in GuiStages \intersect FinderStages
      BY DEF GuiStages, FinderStages
    <3>2. stage' \in [gui : GuiStages, finder : FinderStages]
      BY <2>1, <3>1, LookTypes DEF TestLoaded
    <3> QED BY <2>1, <3>2 DEF TestLoaded, TagTypes
  <2>2. CASE ClearTags(t)
    <3>1. stage' \in [gui : GuiStages, finder : FinderStages]
      BY <2>2, LookTypes DEF ClearTags, GuiStages, FinderStages
    <3> QED BY <2>2, <3>1 DEF ClearTags, TagTypes
  <2>3. CASE LoadFiles(t)
    <3>1. stage' \in [gui : GuiStages, finder : FinderStages]
      BY <2>3, LookTypes DEF LoadFiles, GuiStages, FinderStages
    <3>2. UNCHANGED <<oldFiles, loaded, parsing, inbox, inProcess, finder, symbolView, classView, tagCounts>>
      BY <2>3 DEF LoadFiles
    <3> QED BY <2>3, <3>1, <3>2, LoadTypes DEF TagTypes
  <2> QED BY <2>1, <2>2, <2>3
<1>2. CASE PopulateTree
  <2>1. Resumed \in GuiStages /\ Numbers(lexFiles) \subseteq Nat
    BY Resumes, NumbersTypes DEF GuiStages, TagTypes
  <2> QED BY <1>2, <2>1, StageTypes DEF PopulateTree, GuiGoes, TagTypes
<1>3. CASE Show
  <2>1. /\ stage' \in [gui : GuiStages, finder : FinderStages]
        /\ populated' \in BOOLEAN /\ locked' \in BOOLEAN
    <3>1. CASE populated
      BY <1>3, <3>1 DEF Show, TagTypes
    <3>2. CASE ~populated
      BY <1>3, <3>2, RebuildTypes DEF Show
    <3> QED BY <3>1, <3>2
  <2>2. showing' \in BOOLEAN /\ shows' \in Nat
    BY <1>3 DEF Show, TagTypes
  <2>3. UNCHANGED <<tags, made, parsing, inbox, inProcess, finder, symbolView, tree, typed, saved>>
    BY <1>3 DEF Show
  <2> QED BY <2>1, <2>2, <2>3 DEF TagTypes
<1>4. CASE Hide
  BY <1>4 DEF Hide, TagTypes
<1>5. CASE SortTree
  BY <1>5, RebuildTypes DEF SortTree, TagTypes
<1>6. CASE \E s \in Sources : SaveFile(s)
  <2> PICK s \in Sources : SaveFile(s)
    BY <1>6
  <2>1. stage' \in [gui : GuiStages, finder : FinderStages]
    BY StageTypes DEF SaveFile, GuiGoes, GuiStages, TagTypes
  <2>2. saving' \in Sources \union {NoFile.source} /\ saved' \in Nat
    BY DEF SaveFile, TagTypes
  <2>3. UNCHANGED <<tags, made, lexer, merges, inbox, inProcess, finder, symbolView, classView,
                    typed, shows>>
    BY DEF SaveFile
  <2> QED BY <2>1, <2>2, <2>3 DEF TagTypes
<1>7. CASE StartLexer
  <2>1. stage' \in [gui : GuiStages, finder : FinderStages]
    BY <1>7, StageTypes DEF StartLexer, GuiGoes, GuiStages
  <2>2. saving \in Sources
    BY <1>7 DEF StartLexer, SavesSource
  <2>3. lexer' \in [at : {"parse", "post"}, file : LexFile]
    BY <1>7, <2>2 DEF StartLexer, LexFile
  <2> QED BY <1>7, <2>1, <2>3 DEF StartLexer, TagTypes
<1>8. CASE ParseFile
  <2>1. made \in Nat /\ lexer.file \in LexFile
    BY <1>8 DEF ParseFile, TagTypes, NoParse
  <2>2. [at |-> "post", file |-> [lexer.file EXCEPT !.n = made + 1]] \in [at : {"parse", "post"}, file : LexFile]
    BY <2>1 DEF LexFile
  <2> QED BY <1>8, <2>1, <2>2 DEF ParseFile, TagTypes
<1>9. CASE ParseFails
  BY <1>9 DEF ParseFails, TagTypes
<1>10. CASE DelayedClassTreeInfo
  <2>1. lexer.file \in LexFile
    BY <1>10 DEF DelayedClassTreeInfo, TagTypes, NoParse
  <2>2. inbox' \in Seq(Message)
    BY <1>10, AppendTypes, Messages DEF DelayedClassTreeInfo
  <2>3. merges' \in Seq(LexFile)
    BY <1>10, <2>1 DEF DelayedClassTreeInfo, TagTypes
  <2> QED BY <1>10, <2>2, <2>3 DEF DelayedClassTreeInfo, TagTypes
<1>11. CASE Type(typed + 1) \/ (Erase /\ Type(0))
  <2> PICK p \in Nat : Type(p)
    BY <1>11 DEF TagTypes
  <2>1. inbox' \in Seq(Message)
    BY AppendTypes, Messages DEF Type
  <2> QED BY <2>1, StoppedType DEF Type, TagTypes
<1>12. CASE SortSymbols
  <2>1. inbox' \in Seq(Message)
    BY <1>12, AppendTypes, Messages DEF SortSymbols
  <2> QED BY <1>12, <2>1 DEF SortSymbols, TagTypes
<1>13. CASE OnGetSymbolData
  <2>1. inbox' \in Seq(Message)
    BY <1>13, DispatchTypes DEF OnGetSymbolData
  <2>2. CASE pattern = 0
    BY <1>13, <2>1, <2>2, NoSymbolsType DEF OnGetSymbolData, TagTypes
  <2>3. CASE pattern # 0
    <3>1. stage' \in [gui : GuiStages, finder : FinderStages]
      BY <1>13, <2>3, StageTypes DEF OnGetSymbolData, GuiGoes, GuiStages
    <3>2. /\ finder' \in [cookie : Nat, pattern : Nat, found : SUBSET Nat, stop : BOOLEAN]
          /\ UNCHANGED symbols
      BY <1>13, <2>3, StoppedType DEF OnGetSymbolData
    <3>3. UNCHANGED <<tags, made, parsing, inProcess, cookie, pattern, classView, tagCounts>>
      BY <1>13 DEF OnGetSymbolData
    <3> QED BY <2>1, <3>1, <3>2, <3>3 DEF TagTypes
  <2> QED BY <2>2, <2>3
<1>14. CASE StartFinder
  BY <1>14 DEF StartFinder, GuiStages, FinderStages, TagTypes
<1>15. CASE MatchSymbols
  <2>1. Numbers(lexFiles) \subseteq Nat
    BY NumbersTypes DEF TagTypes
  <2> QED BY <1>15, <2>1, StageTypes DEF MatchSymbols, FinderStages, TagTypes
<1>16. CASE TestStop
  BY <1>16, StageTypes DEF TestStop, FinderStages, TagTypes
<1>17. CASE PostSymbols
  <2>1. finder.cookie \in Nat /\ [pattern |-> finder.pattern, files |-> finder.found] \in Result
    BY DEF TagTypes, Result
  <2>2. inbox' \in Seq(Message)
    BY <1>17, <2>1, AppendTypes, Messages DEF PostSymbols
  <2>3. stage' \in [gui : GuiStages, finder : FinderStages]
    BY <1>17, StageTypes DEF PostSymbols, FinderStages
  <2> QED BY <1>17, <2>2, <2>3 DEF PostSymbols, TagTypes
<1>18. CASE OnGotSymbolData
  <2>1. inbox' \in Seq(Message) /\ Head(inbox) \in Message /\ Head(inbox).msg = "got"
    BY <1>18, DispatchTypes DEF OnGotSymbolData
  <2>2. Head(inbox).list \in Result
    BY <2>1 DEF Message
  <2> HIDE DEF Result
  <2> QED BY <1>18, <2>1, <2>2 DEF OnGotSymbolData, TagTypes
<1>19. CASE OnProcess
  <2>1. inbox' \in Seq(Message)
    BY <1>19, DispatchTypes DEF OnProcess
  <2> QED BY <1>19, <2>1, StageTypes DEF OnProcess, GuiGoes, GuiStages, TagTypes
<1>20. CASE EndProcess
  BY <1>20, StageTypes DEF EndProcess, GuiGoes, GuiStages, TagTypes
<1>21. CASE MergeIntoTree
  <2>1. Head(merges) \in LexFile /\ merges' \in Seq(LexFile)
    BY <1>21 DEF MergeIntoTree, TagTypes
  <2>2. lexFiles' \in SUBSET LexFile /\ oldFiles' \in SUBSET LexFile
    BY <1>21, <2>1, ReplaceTypes DEF MergeIntoTree
  <2>3. populated' \in BOOLEAN /\ stage' \in [gui : GuiStages, finder : FinderStages]
    BY <1>21, RebuildTypes DEF MergeIntoTree
  <2>4. /\ finder' \in [cookie : Nat, pattern : Nat, found : SUBSET Nat, stop : BOOLEAN]
        /\ cookie' \in Nat /\ symbols' \in Result
    BY <1>21, StoppedType, NoSymbolsType DEF MergeIntoTree, ClearSymbols
  <2> QED BY <1>21, <2>1, <2>2, <2>3, <2>4 DEF MergeIntoTree, TagTypes
<1>22. CASE WaitForThread
  BY <1>22, StageTypes DEF WaitForThread, GuiGoes, GuiStages, TagTypes
<1> QED BY <1>0, <1>1, <1>2, <1>3, <1>4, <1>5, <1>6, <1>7, <1>8, <1>9, <1>10, <1>11, <1>12, <1>13,
           <1>14, <1>15, <1>16, <1>17, <1>18, <1>19, <1>20, <1>21, <1>22 DEF TagNext

LEMMA NextLock ==
  ASSUME TagTypes, LockWhileProcessing, [TagNext]_tagVars
  PROVE  LockWhileProcessing'
<1> USE DEF tags, parsing, symbolView, classView, tagCounts, GuiIs, LockWhileProcessing,
            Processing, TagTypes
<1>1. CASE UNCHANGED <<stage, inProcess>>
  BY <1>1
<1>2. ASSUME NEW g, stage' = [stage EXCEPT !.gui = g], UNCHANGED inProcess,
             inProcess => g \in Processing
      PROVE  LockWhileProcessing'
  BY <1>2
<1>3. ASSUME NEW g, stage' = [stage EXCEPT !.finder = g], UNCHANGED inProcess
      PROVE  LockWhileProcessing'
  BY <1>3
<1>4. CASE \E t \in Lookers : TestLoaded(t) \/ ClearTags(t) \/ LoadFiles(t)
  <2> PICK t \in Lookers, g \in {"load", "fill", "gather"} :
        stage' = [stage EXCEPT ![t] = g] /\ UNCHANGED inProcess
    BY <1>4 DEF TestLoaded, ClearTags, LoadFiles
  <2>1. CASE t = "gui"
    BY <2>1, <1>2
  <2>2. CASE t = "finder"
    BY <2>2, <1>3
  <2> QED BY <2>1, <2>2 DEF Lookers
<1>5. inProcess => Resumed \in Processing
  BY DEF Resumed
<1>6. CASE Rebuild /\ UNCHANGED inProcess
  BY <1>6, <1>5, <1>2 DEF Rebuild, GuiGoes
<1>7. CASE PopulateTree
  BY <1>7, <1>5, <1>2 DEF PopulateTree, GuiGoes
<1>8. CASE Show
  BY <1>8, <1>1, <1>6 DEF Show
<1>9. CASE SortTree \/ MergeIntoTree
  BY <1>9, <1>6 DEF SortTree, MergeIntoTree
<1>10. CASE (\E s \in Sources : SaveFile(s)) \/ StartLexer \/ WaitForThread
  <2>1. ~inProcess
    BY <1>10 DEF SaveFile, StartLexer, WaitForThread
  <2> QED BY <1>10, <2>1 DEF SaveFile, StartLexer, WaitForThread
<1>11. CASE OnGetSymbolData \/ StartFinder
  <2>1. ~inProcess
    BY <1>11 DEF OnGetSymbolData, Dispatch, StartFinder
  <2> QED BY <1>11, <2>1 DEF OnGetSymbolData, StartFinder
<1>12. CASE MatchSymbols \/ TestStop \/ PostSymbols
  BY <1>12, <1>3 DEF MatchSymbols, TestStop, PostSymbols
<1>13. CASE OnProcess
  BY <1>13 DEF OnProcess, GuiGoes
<1>14. CASE EndProcess
  BY <1>14 DEF EndProcess
<1> QED
  BY <1>1, <1>4, <1>7, <1>8, <1>9, <1>10, <1>11, <1>12, <1>13, <1>14
  DEF TagNext, tagVars, Hide, ParseFile, ParseFails, DelayedClassTreeInfo, Type, SortSymbols,
      OnGotSymbolData

(* The variables of the symbols (LexInfo.cpp), of their threads and of the   *)
(* two views keep their types, and OnProcess() its lock no longer than it    *)
(* merges.                                                                  *)
THEOREM TagTypesCorrect == TagSpec => []TagTypeOK
<1>1. TagInit => TagTypeOK
  BY InitTypes DEF TagInit, TagTypeOK, SavesSource, LockWhileProcessing, GuiIs
<1>2. TagTypeOK /\ [TagNext]_tagVars => TagTypeOK'
  BY NextTypes, NextSaves, NextLock DEF TagTypeOK
<1> QED BY <1>1, <1>2, PTL DEF TagSpec

-----------------------------------------------------------------------------
(* Until the tags are loaded nobody is asked for symbols, and the class view *)
(* stays locked; then only the thread that loads them may clear them.        *)
NotLoaded ==
  ~loaded => /\ locked /\ stage.finder = "none"
             /\ stage.gui \notin {"fill", "gather", "halt"}
             /\ \A k \in DOMAIN inbox : inbox[k].msg # "get"
Loading ==
  /\ stage.gui \in {"load", "fill"} => locked
  /\ stage.gui = "load" => ~loaded
  /\ stage.finder \notin {"load", "fill"}

LoadInv == NotLoaded /\ Loading /\ TreeCurrent

LEMMA AppendAsks ==
  ASSUME TagTypes, NEW m \in Message, m.msg # "get", inbox' = Append(inbox, m),
         \A k \in DOMAIN inbox : inbox[k].msg # "get"
  PROVE  \A k \in DOMAIN inbox' : inbox'[k].msg # "get"
<1> HIDE DEF Message
<1> QED BY DEF TagTypes

LEMMA DispatchAsks ==
  ASSUME TagTypes, NEW m, Dispatch(m), \A k \in DOMAIN inbox : inbox[k].msg # "get"
  PROVE  m # "get" /\ \A k \in DOMAIN inbox' : inbox'[k].msg # "get"
<1> HIDE DEF Message
<1>1. inbox \in Seq(Message) /\ inbox # <<>>
  BY DEF TagTypes, Dispatch
<1>2. Head(inbox).msg # "get"
  BY <1>1
<1>3. \A k \in DOMAIN Tail(inbox) : k + 1 \in DOMAIN inbox /\ Tail(inbox)[k] = inbox[k + 1]
  BY <1>1
<1> QED BY <1>2, <1>3 DEF Dispatch

LEMMA MergeClears ==
  ASSUME TagTypes, MergeIntoTree
  PROVE  locked' /\ stage'.finder = stage.finder /\ stage'.gui \in {"look", "process", "idle"}
  BY Resumes DEF MergeIntoTree, Rebuild, GuiGoes, TagTypes

LEMMA NextLoads ==
  ASSUME TagTypes, LoadInv, ~Racing, [TagNext]_tagVars
  PROVE  LoadInv'
<1> USE DEF tags, parsing, symbolView, classView, tagCounts, LoadInv, NotLoaded, Loading, TreeCurrent
<1> USE DEF GuiIs, GuiGoes
<1>t. stage \in [gui : GuiStages, finder : FinderStages]
  BY DEF TagTypes
<1>0. CASE UNCHANGED <<stage, tags, locked, tree, inbox>>
  BY <1>0
<1>1. CASE \E t \in Lookers : TestLoaded(t) \/ ClearTags(t) \/ LoadFiles(t)
  <2>1. CASE TestLoaded("gui") \/ TestLoaded("finder")
    BY <2>1, <1>t DEF TestLoaded
  <2>2. CASE ClearTags("gui")
    BY <2>2, <1>t DEF ClearTags
  <2>3. CASE LoadFiles("gui")
    BY <2>3, <1>t DEF LoadFiles
  <2>4. CASE ClearTags("finder") \/ LoadFiles("finder")
    BY <2>4 DEF ClearTags, LoadFiles
  <2> QED BY <1>1, <2>1, <2>2, <2>3, <2>4 DEF Lookers
<1>2. CASE PopulateTree
  BY <1>2, <1>t, Resumes DEF PopulateTree
<1>3. CASE Show
  BY <1>3, <1>t, Resumes DEF Show, Rebuild
<1>4. CASE Hide
  BY <1>4 DEF Hide
<1>5. CASE SortTree
  BY <1>5, <1>t, Resumes DEF SortTree, Rebuild
<1>6. CASE \E s \in Sources : SaveFile(s)
  BY <1>6, <1>t DEF SaveFile
<1>7. CASE StartLexer \/ WaitForThread
  BY <1>7, <1>t DEF StartLexer, WaitForThread
<1>8. CASE DelayedClassTreeInfo
  <2>1. ~loaded => \A k \in DOMAIN inbox' : inbox'[k].msg # "get"
    BY <1>8, AppendAsks, Messages DEF DelayedClassTreeInfo
  <2> QED BY <1>8, <2>1 DEF DelayedClassTreeInfo
<1>9. CASE Type(typed + 1) \/ (Erase /\ Type(0)) \/ SortSymbols
  <2>1. loaded /\ UNCHANGED <<stage, tags, locked, tree>>
    BY <1>9 DEF Type, SortSymbols
  <2> QED BY <2>1
<1>10. CASE OnGetSymbolData
  <2>1. loaded
    BY <1>10, DispatchAsks DEF OnGetSymbolData
  <2> QED BY <1>10, <2>1, <1>t DEF OnGetSymbolData
<1>11. CASE StartFinder
  BY <1>11 DEF StartFinder
<1>12. CASE MatchSymbols \/ TestStop
  BY <1>12, <1>t DEF MatchSymbols, TestStop
<1>13. CASE PostSymbols
  <2>1. loaded
    BY <1>13 DEF PostSymbols
  <2> QED BY <1>13, <2>1, <1>t DEF PostSymbols
<1>14. CASE OnGotSymbolData
  <2>1. ~loaded => \A k \in DOMAIN inbox' : inbox'[k].msg # "get"
    BY <1>14, DispatchAsks DEF OnGotSymbolData
  <2> QED BY <1>14, <2>1 DEF OnGotSymbolData
<1>15. CASE OnProcess
  <2>1. ~loaded => \A k \in DOMAIN inbox' : inbox'[k].msg # "get"
    BY <1>15, DispatchAsks DEF OnProcess
  <2> QED BY <1>15, <2>1, <1>t DEF OnProcess
<1>16. CASE EndProcess
  BY <1>16, <1>t DEF EndProcess
<1>17. CASE MergeIntoTree
  BY <1>17, MergeClears DEF MergeIntoTree
<1> QED
  BY <1>0, <1>1, <1>2, <1>3, <1>4, <1>5, <1>6, <1>7, <1>8, <1>9, <1>10, <1>11, <1>12, <1>13, <1>14,
     <1>15, <1>16, <1>17
  DEF TagNext, tagVars, ParseFile, ParseFails

LEMMA InitLoads == TagInit => LoadInv
  BY DEF TagInit, LoadInv, NotLoaded, Loading, TreeCurrent

(* A class view that may be drawn points only into files of the list, when   *)
(* nobody looks for symbols before the class view has loaded the tags        *)
(* (LexInfo.cpp:501 tests and clears without the lock).                     *)
THEOREM TreeIsCurrent ==
  ASSUME ~Racing
  PROVE  TagSpec => []TreeCurrent
<1>1. TagInit => TagTypes /\ SavesSource /\ LoadInv
  BY InitTypes, InitLoads DEF TagInit, SavesSource, GuiIs
<1>2. TagTypes /\ SavesSource /\ LoadInv /\ [TagNext]_tagVars
      => TagTypes' /\ SavesSource' /\ LoadInv'
  BY NextTypes, NextSaves, NextLoads
<1>3. LoadInv => TreeCurrent
  BY DEF LoadInv
<1> QED BY <1>1, <1>2, <1>3, PTL DEF TagSpec

-----------------------------------------------------------------------------
(* The cookie is 0 while the view is empty, and a request has a cookie of    *)
(* its own that no merge can give it back: whoever carries the cookie of the *)
(* view has gathered from the files that are in the list.                  *)
Running == stage.finder # "none"
Gots == {k \in DOMAIN inbox : inbox[k].msg = "got"}
Gets == {k \in DOMAIN inbox : inbox[k].msg = "get"}

CookieInv ==
  /\ \A k \in Gots : inbox[k].cookie >= 1
  /\ Running => finder.cookie >= 1
  /\ cookie = 0 => symbols = NoSymbols
  /\ pattern = 0 => cookie = 0
  /\ ~loaded => cookie = 0
  /\ stage.gui = "halt" => pattern # 0
  /\ Running /\ finder.cookie = cookie => finder.found \subseteq Numbers(lexFiles)

(* Unless another request is about to be made, what the view will show is    *)
(* under way, or is the last result in the queue, or is shown.             *)
Good(l) == l.files = {} \/ (l.pattern = pattern /\ l.files \subseteq Numbers(lexFiles))
Asked == stage.gui = "halt" \/ Gets # {}
UnderWay == Running /\ ~finder.stop /\ finder.cookie = cookie /\ finder.pattern = pattern
Last(k) == inbox[k].cookie = cookie /\ Good(inbox[k].list) /\ \A j \in Gots : j <= k

ListInv ==
  \/ Asked \/ cookie = 0 \/ UnderWay
  \/ ~Running /\ (\E k \in Gots : Last(k))
  \/ ~Running /\ Gots = {} /\ Good(symbols)

(* What most steps leave alone. *)
Frame ==
  /\ Numbers(lexFiles) \subseteq Numbers(lexFiles)'
  /\ UNCHANGED <<cookie, pattern, symbols, finder>>
  /\ loaded => loaded'
  /\ Running' = Running
  /\ stage'.gui = "halt" <=> stage.gui = "halt"

LEMMA FrameKeeps ==
  ASSUME TagTypes, CookieInv, ListInv, Frame, inbox' = inbox
  PROVE  CookieInv' /\ ListInv'
<1> USE DEF Frame
<1>1. Gots' = Gots /\ Gets' = Gets
  BY DEF Gots, Gets
<1>2. CookieInv'
  BY <1>1 DEF CookieInv
<1>3. \A l : Good(l) => Good(l)'
  BY DEF Good
<1>4. \A k \in Gots : Last(k) => Last(k)'
  BY <1>1, <1>3 DEF Last
<1>5. Good(symbols) => Good(symbols)'
  BY DEF Good
<1> QED BY <1>1, <1>2, <1>4, <1>5 DEF ListInv, Asked, UnderWay

LEMMA AppendGots ==
  ASSUME TagTypes, NEW m \in Message, inbox' = Append(inbox, m)
  PROVE  /\ Len(inbox) \in Nat /\ DOMAIN inbox = 1 .. Len(inbox)
         /\ Gots' = Gots \union (IF m.msg = "got" THEN {Len(inbox) + 1} ELSE {})
         /\ Gets' = Gets \union (IF m.msg = "get" THEN {Len(inbox) + 1} ELSE {})
         /\ \A k \in DOMAIN inbox : inbox'[k] = inbox[k]
         /\ inbox'[Len(inbox) + 1] = m
<1> HIDE DEF Message
<1>1. inbox \in Seq(Message)
  BY DEF TagTypes
<1>2. /\ Len(inbox) \in Nat /\ DOMAIN inbox = 1 .. Len(inbox)
      /\ DOMAIN inbox' = 1 .. Len(inbox) + 1
      /\ \A k \in DOMAIN inbox : inbox'[k] = inbox[k]
      /\ inbox'[Len(inbox) + 1] = m
  BY <1>1
<1> QED BY <1>2 DEF Gots, Gets

LEMMA DispatchGots ==
  ASSUME TagTypes, NEW m, Dispatch(m)
  PROVE  /\ Head(inbox).msg = m /\ Head(inbox) = inbox[1] /\ 1 \in DOMAIN inbox
         /\ DOMAIN inbox \subseteq Nat \ {0}
         /\ Gots' = {k - 1 : k \in Gots \ {1}}
         /\ Gets' = {k - 1 : k \in Gets \ {1}}
         /\ \A k \in DOMAIN inbox \ {1} : k - 1 \in DOMAIN inbox' /\ inbox'[k - 1] = inbox[k]
<1> HIDE DEF Message
<1>1. inbox \in Seq(Message) /\ inbox # <<>> /\ inbox' = Tail(inbox) /\ Head(inbox).msg = m
  BY DEF TagTypes, Dispatch
<1>2. /\ Len(inbox) \in Nat \ {0} /\ DOMAIN inbox = 1 .. Len(inbox)
      /\ DOMAIN inbox' = 1 .. Len(inbox) - 1 /\ Head(inbox) = inbox[1]
      /\ \A k \in 1 .. Len(inbox) - 1 : inbox'[k] = inbox[k + 1]
  BY <1>1
<1>3. \A k \in DOMAIN inbox \ {1} : k - 1 \in DOMAIN inbox' /\ inbox'[k - 1] = inbox[k]
  BY <1>2
<1>4. \A k \in DOMAIN inbox' : k + 1 \in DOMAIN inbox \ {1} /\ (k + 1) - 1 = k /\ inbox'[k] = inbox[k + 1]
  BY <1>2
<1>5. Gots' = {k - 1 : k \in Gots \ {1}}
  BY <1>3, <1>4 DEF Gots
<1>6. Gets' = {k - 1 : k \in Gets \ {1}}
  BY <1>3, <1>4 DEF Gets
<1> QED BY <1>1, <1>2, <1>3, <1>5, <1>6

LEMMA FrameAppends ==
  ASSUME TagTypes, CookieInv, ListInv, Frame, NEW m \in Message, m.msg # "got",
         inbox' = Append(inbox, m)
  PROVE  CookieInv' /\ ListInv'
<1> USE DEF Frame
<1> HIDE DEF Message
<1>1. /\ Gots' = Gots /\ Gets \subseteq Gets' /\ \A k \in Gots : inbox'[k] = inbox[k]
  BY AppendGots DEF Gots
<1>2. CookieInv'
  BY <1>1 DEF CookieInv
<1>3. \A k \in Gots : Last(k) => Last(k)'
  BY <1>1 DEF Last, Good
<1>4. Good(symbols) => Good(symbols)'
  BY DEF Good
<1> QED BY <1>1, <1>2, <1>3, <1>4 DEF ListInv, Asked, UnderWay

LEMMA FrameDispatches ==
  ASSUME TagTypes, CookieInv, ListInv, Frame, NEW m, m \notin {"got", "get"},
         Dispatch(m)
  PROVE  CookieInv' /\ ListInv'
<1> USE DEF Frame
<1>1. 1 \notin Gots /\ 1 \notin Gets
  BY DispatchGots DEF Gots, Gets
<1>2. /\ Gots \subseteq Nat /\ Gots' = {k - 1 : k \in Gots} /\ Gets' = {k - 1 : k \in Gets}
      /\ \A k \in Gots : inbox'[k - 1] = inbox[k]
  BY <1>1, DispatchGots DEF Gots, Gets
<1>3. CookieInv'
  BY <1>2 DEF CookieInv
<1>4. \A k \in Gots : Last(k) => Last(k - 1)'
  <2> SUFFICES ASSUME NEW k \in Gots, Last(k) PROVE Last(k - 1)'
    OBVIOUS
  <2>1. \A j \in Gots' : j <= k - 1
    BY <1>2 DEF Last
  <2>2. inbox'[k - 1].cookie = cookie' /\ Good(inbox[k - 1].list)'
    BY <1>2 DEF Last, Good
  <2> QED BY <2>1, <2>2 DEF Last
<1>5. Good(symbols) => Good(symbols)'
  BY DEF Good
<1> QED BY <1>2, <1>3, <1>4, <1>5 DEF ListInv, Asked, UnderWay

LEMMA LoadGrows ==
  ASSUME NEW t, LoadFiles(t)
  PROVE  Numbers(lexFiles) \subseteq Numbers(lexFiles)'
  BY DEF LoadFiles, Numbers

(* The steps that leave the request and its list alone. *)
LEMMA FrameSteps ==
  ASSUME TagTypes, LoadInv,
         \/ \E t \in Lookers : TestLoaded(t) \/ LoadFiles(t)
         \/ PopulateTree \/ Show \/ Hide \/ SortTree
         \/ \E s \in Sources : SaveFile(s)
         \/ StartLexer \/ WaitForThread \/ ParseFile \/ ParseFails \/ EndProcess
  PROVE  Frame /\ inbox' = inbox
<1> USE DEF tags, parsing, symbolView, classView, tagCounts, Frame, Running, GuiIs, GuiGoes
<1>t. stage \in [gui : GuiStages, finder : FinderStages]
  BY DEF TagTypes
<1>1. CASE \E t \in Lookers : TestLoaded(t)
  BY <1>1, <1>t DEF TestLoaded, Lookers
<1>2. CASE \E t \in Lookers : LoadFiles(t)
  <2> PICK t \in Lookers : LoadFiles(t)
    BY <1>2
  <2>1. Numbers(lexFiles) \subseteq Numbers(lexFiles)'
    BY LoadGrows
  <2>2. Running' = Running /\ (stage'.gui = "halt" <=> stage.gui = "halt")
    BY <1>t DEF LoadFiles, Lookers
  <2> QED BY <2>1, <2>2 DEF LoadFiles
<1>3. CASE PopulateTree
  BY <1>3, <1>t, Resumes DEF PopulateTree
<1>4. CASE Show \/ SortTree
  BY <1>4, <1>t DEF Show, SortTree, Rebuild
<1>5. CASE Hide \/ ParseFile \/ ParseFails
  BY <1>5 DEF Hide, ParseFile, ParseFails
<1>6. CASE \E s \in Sources : SaveFile(s)
  BY <1>6, <1>t DEF SaveFile
<1>7. CASE StartLexer \/ WaitForThread \/ EndProcess
  BY <1>7, <1>t DEF StartLexer, WaitForThread, EndProcess
<1> QED BY <1>1, <1>2, <1>3, <1>4, <1>5, <1>6, <1>7

(* The pattern is changed: the list is about to be asked for. *)
LEMMA TypeKeeps ==
  ASSUME TagTypes, CookieInv, NEW p \in Nat \ {0}, Type(p)
  PROVE  CookieInv' /\ ListInv'
<1> USE DEF tags, symbolView, classView
<1>1. Gots' = Gots /\ Gets' # {} /\ \A k \in Gots : inbox'[k] = inbox[k]
  BY Messages, AppendGots DEF Type, Gots
<1>2. /\ UNCHANGED <<stage, cookie, symbols, lexFiles, loaded>> /\ pattern' # 0
      /\ finder'.cookie = finder.cookie /\ finder'.found = finder.found
  BY StoppedType DEF Type
<1>3. CookieInv'
  BY <1>1, <1>2 DEF CookieInv, Running, Numbers
<1> QED BY <1>1, <1>3 DEF ListInv, Asked

LEMMA RequestKeeps ==
  ASSUME TagTypes, CookieInv, OnGetSymbolData
  PROVE  CookieInv' /\ ListInv'
<1> USE DEF tags, classView
<1>1. /\ Gots' = {k - 1 : k \in Gots}
      /\ \A k \in Gots : inbox'[k - 1] = inbox[k]
  BY DispatchGots DEF OnGetSymbolData, Gots
<1>2. /\ UNCHANGED <<cookie, pattern, lexFiles, loaded>> /\ Running' = Running
      /\ finder'.cookie = finder.cookie /\ finder'.found = finder.found
      /\ symbols' \in {symbols, NoSymbols} /\ (stage'.gui = "halt" => pattern # 0)
  BY StoppedType DEF OnGetSymbolData, Dispatch, GuiIs, GuiGoes, Running, TagTypes
<1>3. CookieInv'
  BY <1>1, <1>2 DEF CookieInv, Numbers
<1>4. CASE pattern = 0
  BY <1>2, <1>3, <1>4 DEF ListInv, CookieInv
<1>5. CASE pattern # 0
  BY <1>3, <1>5 DEF ListInv, Asked, OnGetSymbolData, GuiGoes, TagTypes
<1> QED BY <1>3, <1>4, <1>5

LEMMA StartKeeps ==
  ASSUME TagTypes, LoadInv, CookieInv, StartFinder
  PROVE  CookieInv' /\ ListInv'
<1> USE DEF tags, classView
<1>1. Gots' = Gots /\ UNCHANGED <<inbox, pattern, symbols, lexFiles, loaded>>
  BY DEF StartFinder, Gots
<1>2. /\ Running' /\ finder'.cookie = cookie' /\ finder'.pattern = pattern /\ ~finder'.stop
      /\ finder'.found = {} /\ cookie' >= 1 /\ cookie' \in Nat
  BY DEF StartFinder, Running, TagTypes
<1>3. loaded
  BY DEF StartFinder, GuiIs, LoadInv, NotLoaded
<1>4. CookieInv'
  BY <1>1, <1>2, <1>3 DEF CookieInv, StartFinder, GuiIs
<1> QED BY <1>1, <1>2, <1>4 DEF ListInv, UnderWay

(* The symbol thread gathers, looks whether it is stopped, and posts. *)
LEMMA FinderKeeps ==
  ASSUME TagTypes, CookieInv, ListInv, MatchSymbols \/ TestStop
  PROVE  CookieInv' /\ ListInv'
<1> USE DEF tags, symbolView, classView
<1>1. /\ UNCHANGED <<inbox, cookie, pattern, symbols, lexFiles, loaded>>
      /\ Gots' = Gots /\ Gets' = Gets /\ stage'.gui = stage.gui /\ Running
  BY DEF MatchSymbols, TestStop, Gots, Gets, Running, TagTypes
<1>2. /\ finder'.cookie = finder.cookie /\ finder'.pattern = finder.pattern
      /\ finder'.stop = finder.stop
      /\ finder'.found \in {finder.found, Numbers(lexFiles)}
      /\ ~finder.stop => Running'
  BY DEF MatchSymbols, TestStop, Running, TagTypes
<1>3. CookieInv'
  BY <1>1, <1>2 DEF CookieInv, Numbers
<1>4. Asked \/ cookie = 0 \/ UnderWay
  BY <1>1 DEF ListInv
<1> QED BY <1>1, <1>2, <1>3, <1>4 DEF ListInv, Asked, UnderWay

LEMMA PostKeeps ==
  ASSUME TagTypes, CookieInv, ListInv, PostSymbols
  PROVE  CookieInv' /\ ListInv'
<1> USE DEF tags, symbolView, classView
<1> DEFINE list == [pattern |-> finder.pattern, files |-> finder.found]
           m == [msg |-> "got", cookie |-> finder.cookie, list |-> list]
<1>1. m \in Message /\ finder.cookie \in Nat
  BY DEF TagTypes, Message, Result
<1>2. inbox' = Append(inbox, m) /\ UNCHANGED <<cookie, pattern, symbols, lexFiles, loaded, finder>>
  BY DEF PostSymbols
<1>3. Running /\ ~Running' /\ stage'.gui = stage.gui
  BY DEF PostSymbols, Running, TagTypes
<1> HIDE DEF m
<1>4. m.msg = "got" /\ m.cookie = finder.cookie /\ m.list = list
  BY DEF m
<1>n. PICK n : n = Len(inbox) + 1
  OBVIOUS
<1>5. /\ Gots' = Gots \union {n} /\ Gets' = Gets /\ inbox'[n] = m
      /\ \A k \in Gots : inbox'[k] = inbox[k] /\ k <= n
  <2>1. /\ Gots' = Gots \union {n} /\ Gets' = Gets /\ inbox'[n] = m
        /\ Len(inbox) \in Nat /\ DOMAIN inbox = 1 .. Len(inbox)
        /\ \A k \in DOMAIN inbox : inbox'[k] = inbox[k]
    BY <1>1, <1>2, <1>4, <1>n, AppendGots
  <2>2. \A k \in Gots : k \in DOMAIN inbox
    BY DEF Gots
  <2> QED BY <2>1, <2>2, <1>n
<1>6. CookieInv'
  BY <1>2, <1>3, <1>4, <1>5 DEF CookieInv, Numbers
<1>7. CASE Asked \/ cookie = 0
  BY <1>2, <1>3, <1>5, <1>6, <1>7 DEF ListInv, Asked
<1>8. CASE UnderWay
  <2>1. Good(list)'
    BY <1>2, <1>3, <1>8 DEF UnderWay, CookieInv, Good, Numbers
  <2>2. \A j \in Gots' : j <= n
    BY <1>n, <1>5, <1>1, <1>2, AppendGots
  <2>3. Last(n)'
    BY <1>2, <1>4, <1>5, <1>8, <2>1, <2>2 DEF Last, UnderWay
  <2> QED BY <1>3, <1>5, <1>6, <2>3 DEF ListInv
<1> QED BY <1>3, <1>7, <1>8 DEF ListInv

(* A result arrives. *)
LEMMA ResultKeeps ==
  ASSUME TagTypes, CookieInv, ListInv, OnGotSymbolData
  PROVE  CookieInv' /\ ListInv'
<1> USE DEF tags, classView
<1> DEFINE r == Head(inbox)
<1>1. /\ UNCHANGED <<stage, finder, cookie, pattern, lexFiles, loaded>> /\ Running' = Running
      /\ symbols' = IF r.cookie = cookie THEN r.list ELSE symbols
  BY DEF OnGotSymbolData, Running
<1>2. /\ r = inbox[1] /\ 1 \in Gots /\ 1 \notin Gets /\ Gots \subseteq Nat \ {0}
      /\ Gots' = {k - 1 : k \in Gots \ {1}} /\ Gets' = {k - 1 : k \in Gets}
      /\ \A k \in Gots \ {1} : inbox'[k - 1] = inbox[k]
  BY DispatchGots DEF OnGotSymbolData, Gots, Gets
<1> HIDE DEF r
<1>3. cookie = 0 => symbols' = NoSymbols
  BY <1>1, <1>2 DEF CookieInv
<1>4. CookieInv'
  BY <1>1, <1>2, <1>3 DEF CookieInv, Numbers
<1>5. CASE Asked \/ cookie = 0 \/ UnderWay
  BY <1>1, <1>2, <1>4, <1>5 DEF ListInv, Asked, UnderWay
<1>6. ASSUME ~Running, NEW k \in Gots, Last(k)
      PROVE  ListInv'
  <2>l. PICK l : l = inbox[k].list
    OBVIOUS
  <2>g. Good(l)' /\ ~Running'
    BY <1>1, <1>6, <2>l DEF Last, Good, Numbers
  <2>1. CASE k = 1
    <3>1. \A j \in Gots : j = 1
      BY <1>2, <1>6, <2>1 DEF Last
    <3>2. Gots' = {} /\ symbols' = l
      BY <1>1, <1>2, <1>6, <2>1, <2>l, <3>1 DEF Last
    <3>3. Good(symbols)'
      BY <2>g, <3>2 DEF Good
    <3> QED BY <2>g, <3>2, <3>3 DEF ListInv
  <2>2. CASE k # 1
    <3>1. \A j \in Gots' : j <= k - 1
      BY <1>2, <1>6, <2>2 DEF Last
    <3>2. k - 1 \in Gots' /\ inbox'[k - 1] = inbox[k]
      BY <1>2, <1>6, <2>2
    <3>3. inbox'[k - 1].cookie = cookie' /\ Good(inbox[k - 1].list)'
      BY <1>1, <1>6, <2>l, <2>g, <3>2 DEF Last, Good
    <3>4. Last(k - 1)'
      BY <3>1, <3>3 DEF Last
    <3> QED BY <2>g, <3>2, <3>4 DEF ListInv
  <2> QED BY <2>1, <2>2
<1> QED BY <1>1, <1>2, <1>4, <1>5, <1>6 DEF ListInv

(* The old files are freed, or replaced: the view is emptied. *)
LEMMA ClearKeeps ==
  ASSUME TagTypes, LoadInv, CookieInv, ClearTags("gui") \/ MergeIntoTree
  PROVE  CookieInv' /\ ListInv'
<1>1. CASE ClearTags("gui")
  <2>1. cookie = 0 /\ UNCHANGED <<cookie, pattern, symbols, finder, inbox>> /\ loaded'
        /\ stage'.finder = stage.finder /\ stage'.gui = "fill"
    BY <1>1 DEF ClearTags, LoadInv, Loading, CookieInv, symbolView, TagTypes
  <2>2. Gots' = Gots
    BY <2>1 DEF Gots
  <2> QED BY <2>1, <2>2 DEF CookieInv, ListInv, Running
<1>2. CASE MergeIntoTree
  <2>1. /\ cookie' = 0 /\ symbols' = NoSymbols /\ finder'.cookie = finder.cookie
        /\ UNCHANGED <<pattern, inbox>>
    BY <1>2, StoppedType DEF MergeIntoTree, ClearSymbols
  <2>2. Gots' = Gots /\ Running' = Running /\ stage'.gui # "halt"
    BY <1>2, <2>1, MergeClears DEF Gots, Running
  <2> QED BY <2>1, <2>2 DEF CookieInv, ListInv
<1> QED BY <1>1, <1>2

LEMMA NextLists ==
  ASSUME TagTypes, LoadInv, CookieInv, ListInv, ~Racing, ~Erase, [TagNext]_tagVars
  PROVE  CookieInv' /\ ListInv'
<1> USE DEF tags, parsing, symbolView, classView, tagCounts
<1>0. CASE UNCHANGED tagVars
  <2>1. Frame /\ inbox' = inbox
    BY <1>0 DEF tagVars, Frame, Running
  <2> QED BY <2>1, FrameKeeps
<1>1. CASE \/ \E t \in Lookers : TestLoaded(t) \/ LoadFiles(t)
           \/ PopulateTree \/ Show \/ Hide \/ SortTree
           \/ \E s \in Sources : SaveFile(s)
           \/ StartLexer \/ WaitForThread \/ ParseFile \/ ParseFails \/ EndProcess
  BY <1>1, FrameSteps, FrameKeeps
<1>2. CASE \E t \in Lookers : ClearTags(t)
  <2>1. ClearTags("gui")
    BY <1>2 DEF Lookers, ClearTags, LoadInv, Loading
  <2> QED BY <2>1, ClearKeeps
<1>3. CASE MergeIntoTree
  BY <1>3, ClearKeeps
<1>4. CASE DelayedClassTreeInfo \/ SortSymbols
  <2>1. Frame
    BY <1>4 DEF DelayedClassTreeInfo, SortSymbols, Frame, Running
  <2>2. PICK m \in {[msg |-> "process"], [msg |-> "get"]} : inbox' = Append(inbox, m)
    BY <1>4 DEF DelayedClassTreeInfo, SortSymbols
  <2>3. m \in Message /\ m.msg # "got"
    BY Messages
  <2> QED BY <2>1, <2>2, <2>3, FrameAppends
<1>5. CASE Type(typed + 1) \/ (Erase /\ Type(0))
  <2>1. typed + 1 \in Nat \ {0} /\ Type(typed + 1)
    BY <1>5 DEF TagTypes
  <2> QED BY <2>1, TypeKeeps
<1>6. CASE OnGetSymbolData
  BY <1>6, RequestKeeps
<1>7. CASE StartFinder
  BY <1>7, StartKeeps
<1>8. CASE MatchSymbols \/ TestStop
  BY <1>8, FinderKeeps
<1>9. CASE PostSymbols
  BY <1>9, PostKeeps
<1>10. CASE OnGotSymbolData
  BY <1>10, ResultKeeps
<1>11. CASE OnProcess
  <2>1. Frame
    BY <1>11 DEF OnProcess, Dispatch, Frame, Running, GuiIs, GuiGoes, TagTypes
  <2>2. Dispatch("process")
    BY <1>11 DEF OnProcess
  <2> QED BY <2>1, <2>2, FrameDispatches
<1> QED BY <1>0, <1>1, <1>2, <1>3, <1>4, <1>5, <1>6, <1>7, <1>8, <1>9, <1>10, <1>11 DEF TagNext

LEMMA InitLists == TagInit => CookieInv /\ ListInv
  BY DEF TagInit, CookieInv, ListInv, Running, Gots

LEMMA Settles == ASSUME CookieInv, ListInv PROVE SettledList
<1> SUFFICES ASSUME Quiet
             PROVE  \/ symbols.files = {}
                    \/ symbols.pattern = pattern /\ symbols.files \subseteq Numbers(lexFiles)
  BY DEF SettledList
<1>1. ~Running /\ Gots = {} /\ ~Asked
  BY DEF Quiet, GuiIs, Running, Gots, Gets, Asked
<1>2. CASE cookie = 0
  BY <1>2 DEF CookieInv, NoSymbols
<1>3. CASE Good(symbols)
  BY <1>3 DEF Good
<1> QED BY <1>1, <1>2, <1>3 DEF ListInv, UnderWay

(* When nothing is under way, the symbol view is empty or shows what matches *)
(* the pattern in files of the list (SymbolView.cpp:186-218), when the       *)
(* pattern is never erased and nobody looks for symbols before the tags are  *)
(* loaded.                                                                 *)
THEOREM ListSettles ==
  ASSUME ~Racing, ~Erase
  PROVE  TagSpec => []SettledList
<1> DEFINE Inv == TagTypes /\ SavesSource /\ LoadInv /\ CookieInv /\ ListInv
<1>1. TagInit => Inv
  BY InitTypes, InitLoads, InitLists DEF TagInit, SavesSource, GuiIs
<1>2. Inv /\ [TagNext]_tagVars => Inv'
  BY NextTypes, NextSaves, NextLoads, NextLists
<1>3. Inv => SettledList
  BY Settles
<1> QED BY <1>1, <1>2, <1>3, PTL DEF TagSpec

=============================================================================
