----------------------------- MODULE TagCache -----------------------------
(***************************************************************************)
(* The symbols of a project (LexInfo.cpp) and the two views that hold        *)
(* pointers into them (ClassView.cpp, SymbolView.cpp).  A saved file is      *)
(* parsed by the lex thread, and the GUI thread puts the new LEXFILE in the  *)
(* place of the old one, which is kept for a while and then freed.  The      *)
(* symbol view has a thread of its own that collects what matches a pattern  *)
(* and posts it.  A LEXFILE is a number and the source file it comes from;   *)
(* a pointer to one of its tags is the number.                             *)
(***************************************************************************)
EXTENDS Naturals, Sequences, FiniteSets

CONSTANTS
  Sources,   \* the C++ files of the project
  Keep,      \* replaced files kept before they are freed (10)
  Racing,    \* may symbols be looked for before the tags are loaded?
  Erase,     \* may the pattern be erased?
  MaxTyped, MaxSaved, MaxShown   \* bounds

ASSUME SourcesAssumption == IsFiniteSet(Sources)
ASSUME ModeAssumption == Racing \in BOOLEAN /\ Erase \in BOOLEAN

VARIABLES
  lexFiles,   \* m_aFiles
  oldFiles,   \* m_aDelayedFiles
  loaded,     \* m_bLoaded
  made,       \* LEXFILEs made
  lexer,      \* the lex thread
  saving,     \* the file MergeFile() is called for
  merges,     \* the LAZY_CLASSTREE_INFO entries in m_aLazyData
  inbox,      \* messages posted to the GUI thread
  inProcess,  \* the GUI thread is in OnProcess
  stage,      \* what the GUI thread and the symbol thread are doing
  finder,     \* the members of the symbol thread
  cookie,     \* CSymbolView::m_dwCookie
  pattern,    \* the text of the pattern control, 0 if empty
  symbols,    \* the items of the symbol view
  tree,       \* the items of the class view
  locked, populated, showing,   \* m_bLocked, m_bPopulated, IsWindowVisible()
  typed, saved, shows

tags       == <<lexFiles, oldFiles, loaded>>
parsing    == <<lexer, saving, merges>>
symbolView == <<cookie, pattern, symbols>>
classView  == <<tree, locked, populated, showing>>
tagCounts  == <<typed, saved, shows>>
tagVars    == <<tags, made, parsing, inbox, inProcess, stage, finder, symbolView, classView, tagCounts>>

Numbers(files) == {f.n : f \in files}
NoSymbols == [pattern |-> 0, files |-> {}]
NoFile    == [n |-> 0, source |-> "none"]
NoParse   == [at |-> "none", file |-> NoFile]
Lookers   == {"gui", "finder"}

GuiIs(s) == stage.gui = s
GuiGoes(s) == stage' = [stage EXCEPT !.gui = s]
Resumed == IF inProcess THEN "process" ELSE "idle"

-----------------------------------------------------------------------------
(* A lookup: load the tags if nobody has (_LoadTags), then gather pointers   *)
(* under the tag lock.  The test and Clear() are outside of the lock that    *)
(* is held while the files are read.                                       *)

TestLoaded(t) ==
  /\ stage[t] = "look"
  /\ stage' = [stage EXCEPT ![t] = IF loaded THEN "gather" ELSE "load"]
  /\ UNCHANGED <<tags, made, parsing, inbox, inProcess, finder, symbolView, classView, tagCounts>>

ClearTags(t) ==
  /\ stage[t] = "load"
  /\ stage' = [stage EXCEPT ![t] = "fill"]
  /\ lexFiles' = {} /\ oldFiles' = {} /\ loaded' = TRUE
  /\ UNCHANGED <<made, parsing, inbox, inProcess, finder, symbolView, classView, tagCounts>>

(* The sources whose .lex file exists are read. *)
LoadFiles(t) ==
  /\ stage[t] = "fill"
  /\ stage' = [stage EXCEPT ![t] = "gather"]
  /\ \E present \in SUBSET Sources :
       /\ made' = made + Cardinality(present)
       /\ \E number \in [present -> made + 1 .. made + Cardinality(present)] :
            /\ \A s, r \in present : number[s] = number[r] => s = r
            /\ lexFiles' = lexFiles \union {[n |-> number[s], source |-> s] : s \in present}
  /\ UNCHANGED <<oldFiles, loaded, parsing, inbox, inProcess, finder, symbolView, classView, tagCounts>>

(* _PopulateTree(): the only place where the class view is unlocked. *)
PopulateTree ==
  /\ GuiIs("gather") /\ GuiGoes(Resumed)
  /\ tree' = Numbers(lexFiles)
  /\ locked' = FALSE /\ populated' = TRUE
  /\ UNCHANGED <<tags, made, parsing, inbox, inProcess, finder, symbolView, showing, tagCounts>>

-----------------------------------------------------------------------------
(* The class view. *)

Rebuild ==
  /\ populated' = FALSE
  /\ GuiGoes(IF showing' THEN "look" ELSE Resumed)

(* OnPopulate(), sent when the view is shown. *)
Show ==
  /\ GuiIs("idle") /\ ~showing /\ shows < MaxShown
  /\ showing' = TRUE /\ shows' = shows + 1
  /\ IF populated THEN UNCHANGED <<populated, stage, locked>> ELSE locked' = TRUE /\ Rebuild
  /\ UNCHANGED <<tags, made, parsing, inbox, inProcess, finder, symbolView, tree, typed, saved>>

(* The view is sent the same message when it is hidden. *)
Hide ==
  /\ GuiIs("idle") /\ showing
  /\ showing' = FALSE
  /\ locked' = (locked \/ ~populated)
  /\ UNCHANGED <<tags, made, parsing, inbox, inProcess, stage, finder, symbolView, tree, populated,
                 tagCounts>>

(* Another order is chosen from the menu; nothing locks the view. *)
SortTree ==
  /\ GuiIs("idle") /\ showing /\ shows < MaxShown
  /\ shows' = shows + 1
  /\ UNCHANGED showing /\ Rebuild
  /\ UNCHANGED <<tags, made, parsing, inbox, inProcess, finder, symbolView, tree, locked, typed, saved>>

-----------------------------------------------------------------------------
(* A file is saved: MergeFile() joins the lex thread of the file before,     *)
(* starts it and gives it a millisecond.  An empty text is not parsed: the   *)
(* symbols of the text before stay.                                         *)

SaveFile(s) ==
  /\ GuiIs("idle") /\ saved < MaxSaved
  /\ saved' = saved + 1
  /\ \/ saving' = s /\ GuiGoes("join")
     \/ UNCHANGED <<saving, stage>>
  /\ UNCHANGED <<tags, made, lexer, merges, inbox, inProcess, finder, symbolView, classView, typed, shows>>

StartLexer ==
  /\ GuiIs("join") /\ lexer.at = "none"
  /\ lexer' = [at |-> "parse", file |-> [n |-> 0, source |-> saving]]
  /\ GuiGoes("wait")
  /\ UNCHANGED <<tags, made, saving, merges, inbox, inProcess, finder, symbolView, classView, tagCounts>>

WaitForThread ==
  /\ GuiIs("wait") /\ GuiGoes("idle")
  /\ UNCHANGED <<tags, made, parsing, inbox, inProcess, finder, symbolView, classView, tagCounts>>

ParseFile ==
  /\ lexer.at = "parse"
  /\ made' = made + 1
  /\ lexer' = [at |-> "post", file |-> [lexer.file EXCEPT !.n = made + 1]]
  /\ UNCHANGED <<tags, saving, merges, inbox, inProcess, stage, finder, symbolView, classView, tagCounts>>

(* The text has a syntax error. *)
ParseFails ==
  /\ lexer.at = "parse" /\ lexer' = NoParse
  /\ UNCHANGED <<tags, made, saving, merges, inbox, inProcess, stage, finder, symbolView, classView,
                 tagCounts>>

(* The GUI thread holds the lock of the entries while it is in OnProcess. *)
DelayedClassTreeInfo ==
  /\ lexer.at = "post" /\ ~inProcess
  /\ lexer' = NoParse
  /\ merges' = Append(merges, lexer.file)
  /\ inbox' = Append(inbox, [msg |-> "process"])
  /\ UNCHANGED <<tags, made, saving, inProcess, stage, finder, symbolView, classView, tagCounts>>

-----------------------------------------------------------------------------
(* The symbol view. *)

Stopped == [finder EXCEPT !.stop = stage.finder # "none"]

(* Variant: the cookie stays, "it only ever grows". *)
ClearSymbolsOnly ==
  /\ UNCHANGED cookie
  /\ finder' = Stopped
  /\ symbols' = NoSymbols

(* CSymbolView::Clear() *)
ClearSymbols ==
  /\ cookie' = 0
  /\ finder' = Stopped
  /\ symbols' = NoSymbols

(* OnPatternChange() *)
Type(p) ==
  /\ GuiIs("idle") /\ typed < MaxTyped
  /\ loaded \/ Racing
  /\ typed' = typed + 1
  /\ pattern' = p
  /\ finder' = Stopped
  /\ inbox' = Append(inbox, [msg |-> "get"])
  /\ UNCHANGED <<tags, made, parsing, inProcess, stage, cookie, symbols, classView, saved, shows>>

(* Another order is chosen from the menu: the list is asked for again. *)
SortSymbols ==
  /\ GuiIs("idle") /\ typed < MaxTyped
  /\ loaded \/ Racing
  /\ typed' = typed + 1
  /\ inbox' = Append(inbox, [msg |-> "get"])
  /\ UNCHANGED <<tags, made, parsing, inProcess, stage, finder, symbolView, classView, saved, shows>>

Dispatch(m) ==
  /\ GuiIs("idle") /\ inbox # <<>> /\ Head(inbox).msg = m
  /\ inbox' = Tail(inbox)

(* OnGetSymbolData(): Stop() joins the thread of the request before. *)
OnGetSymbolData ==
  /\ Dispatch("get")
  /\ IF pattern = 0
     THEN symbols' = NoSymbols /\ UNCHANGED <<stage, finder>>
     ELSE GuiGoes("halt") /\ finder' = Stopped /\ UNCHANGED symbols
  /\ UNCHANGED <<tags, made, parsing, inProcess, cookie, pattern, classView, tagCounts>>

StartFinder ==
  /\ GuiIs("halt") /\ stage.finder = "none"
  /\ cookie' = cookie + 1
  /\ finder' = [cookie |-> cookie + 1, pattern |-> pattern, found |-> {}, stop |-> FALSE]
  /\ stage' = [gui |-> "idle", finder |-> "look"]
  /\ UNCHANGED <<tags, made, parsing, inbox, inProcess, pattern, symbols, classView, tagCounts>>

MatchSymbols ==
  /\ stage.finder = "gather"
  /\ stage' = [stage EXCEPT !.finder = "check"]
  /\ finder' = [finder EXCEPT !.found = Numbers(lexFiles)]
  /\ UNCHANGED <<tags, made, parsing, inbox, inProcess, symbolView, classView, tagCounts>>

TestStop ==
  /\ stage.finder = "check"
  /\ stage' = [stage EXCEPT !.finder = IF finder.stop THEN "none" ELSE "post"]
  /\ UNCHANGED <<tags, made, parsing, inbox, inProcess, finder, symbolView, classView, tagCounts>>

PostSymbols ==
  /\ stage.finder = "post"
  /\ stage' = [stage EXCEPT !.finder = "none"]
  /\ inbox' = Append(inbox, [msg |-> "got", cookie |-> finder.cookie,
                             list |-> [pattern |-> finder.pattern, files |-> finder.found]])
  /\ UNCHANGED <<tags, made, parsing, inProcess, finder, symbolView, classView, tagCounts>>

OnGotSymbolData ==
  /\ Dispatch("got")
  /\ symbols' = IF Head(inbox).cookie = cookie THEN Head(inbox).list ELSE symbols
  /\ UNCHANGED <<tags, made, parsing, inProcess, stage, finder, cookie, pattern, classView, tagCounts>>

-----------------------------------------------------------------------------
(* OnProcess, as far as the symbols are concerned. *)

OnProcess ==
  /\ Dispatch("process")
  /\ inProcess' = (merges # <<>>)
  /\ GuiGoes(IF merges = <<>> THEN "idle" ELSE "process")
  /\ UNCHANGED <<tags, made, parsing, finder, symbolView, classView, tagCounts>>

(* Variant: the lock is not given back. *)
EndProcessLocked ==
  /\ GuiIs("process") /\ merges = <<>>
  /\ UNCHANGED inProcess /\ GuiGoes("idle")
  /\ UNCHANGED <<tags, made, parsing, inbox, finder, symbolView, classView, tagCounts>>

EndProcess ==
  /\ GuiIs("process") /\ merges = <<>>
  /\ inProcess' = FALSE /\ GuiGoes("idle")
  /\ UNCHANGED <<tags, made, parsing, inbox, finder, symbolView, classView, tagCounts>>

(* The file is put in the place of one of the same name. *)
Replace(file) ==
  LET kept  == IF Cardinality(oldFiles) >= Keep THEN {} ELSE oldFiles
      same  == {f \in lexFiles : f.source = file.source}
  IN \/ /\ same = {}
        /\ lexFiles' = lexFiles \union {file} /\ oldFiles' = kept
     \/ \E f \in same :
          /\ lexFiles' = (lexFiles \ {f}) \union {file}
          /\ oldFiles' = kept \union {f}

(* Variant: the lock is not taken, the tree is rebuilt anyway. *)
MergeUnlocked ==
  /\ GuiIs("process") /\ merges # <<>>
  /\ merges' = Tail(merges)
  /\ UNCHANGED <<showing, locked>>
  /\ ClearSymbols /\ Replace(Head(merges)) /\ Rebuild
  /\ UNCHANGED <<loaded, made, lexer, saving, inbox, inProcess, pattern, tree, tagCounts>>

MergeIntoTree ==
  /\ GuiIs("process") /\ merges # <<>>
  /\ merges' = Tail(merges)
  /\ locked' = TRUE /\ UNCHANGED showing
  /\ ClearSymbols /\ Replace(Head(merges)) /\ Rebuild
  /\ UNCHANGED <<loaded, made, lexer, saving, inbox, inProcess, pattern, tree, tagCounts>>

-----------------------------------------------------------------------------
(* The project is opened: ActivateProject() has called Populate(). *)
TagInit ==
  /\ lexFiles = {} /\ oldFiles = {} /\ loaded = FALSE /\ made = 0
  /\ lexer = NoParse /\ saving = NoFile.source /\ merges = <<>>
  /\ inbox = <<>> /\ inProcess = FALSE
  /\ finder = [cookie |-> 0, pattern |-> 0, found |-> {}, stop |-> FALSE]
  /\ cookie = 0 /\ pattern = 0 /\ symbols = NoSymbols
  /\ tree = {} /\ locked = TRUE /\ populated = FALSE /\ showing \in BOOLEAN
  /\ stage = [gui |-> IF showing THEN "look" ELSE "idle", finder |-> "none"]
  /\ typed = 0 /\ saved = 0 /\ shows = 0

TagNext ==
  \/ \E t \in Lookers : TestLoaded(t) \/ ClearTags(t) \/ LoadFiles(t)
  \/ PopulateTree \/ Show \/ Hide \/ SortTree
  \/ \E s \in Sources : SaveFile(s)
  \/ StartLexer \/ WaitForThread \/ ParseFile \/ ParseFails \/ DelayedClassTreeInfo
  \/ Type(typed + 1) \/ (Erase /\ Type(0)) \/ SortSymbols
  \/ OnGetSymbolData \/ StartFinder \/ MatchSymbols \/ TestStop \/ PostSymbols \/ OnGotSymbolData
  \/ OnProcess \/ EndProcess \/ MergeIntoTree

TagSpec == TagInit /\ [][TagNext]_tagVars

-----------------------------------------------------------------------------
LexFile == [n : Nat, source : Sources]
Result  == [pattern : Nat, files : SUBSET Nat]
Message == [msg : {"process", "get"}] \union [msg : {"got"}, cookie : Nat, list : Result]

GuiStages    == {"idle", "join", "wait", "halt", "process", "look", "load", "fill", "gather"}
FinderStages == {"none", "look", "load", "fill", "gather", "check", "post"}

TagTypes ==
  /\ lexFiles \in SUBSET LexFile /\ oldFiles \in SUBSET LexFile
  /\ loaded \in BOOLEAN /\ made \in Nat
  /\ lexer = NoParse \/ lexer \in [at : {"parse", "post"}, file : LexFile]
  /\ saving \in Sources \union {NoFile.source} /\ merges \in Seq(LexFile)
  /\ inbox \in Seq(Message) /\ inProcess \in BOOLEAN
  /\ stage \in [gui : GuiStages, finder : FinderStages]
  /\ finder \in [cookie : Nat, pattern : Nat, found : SUBSET Nat, stop : BOOLEAN]
  /\ cookie \in Nat /\ pattern \in Nat /\ symbols \in Result /\ tree \subseteq Nat
  /\ locked \in BOOLEAN /\ populated \in BOOLEAN /\ showing \in BOOLEAN
  /\ typed \in Nat /\ saved \in Nat /\ shows \in Nat

(* The GUI thread waits for the lex thread in order to start it on a source. *)
SavesSource == GuiIs("join") => saving \in Sources

(* It holds the lock of the entries only while it merges, or has the tree    *)
(* populated for a merge: never when it is idle or joins a thread.          *)
Processing == {"process", "look", "load", "fill", "gather"}
LockWhileProcessing == inProcess => stage.gui \in Processing

(* The types of the symbols, the views and the threads, and what goes with  *)
(* what the GUI thread is doing.                                           *)
TagTypeOK == TagTypes /\ SavesSource /\ LockWhileProcessing

(* A class view that may be drawn (m_bLocked is not set, ClassView.cpp:409)  *)
(* holds pointers into files that are in the project's list: whatever is     *)
(* replaced, and whether the view is shown or not.                         *)
TreeCurrent == ~locked => tree \subseteq Numbers(lexFiles)

Quiet == GuiIs("idle") /\ inbox = <<>> /\ stage.finder = "none"

(* When nothing is under way, the symbol view is empty or shows what         *)
(* matches the pattern in the control, in files that are in the list         *)
(* (SymbolView.cpp:194-196): cancelled requests, results that arrive late    *)
(* and merged files in between leave nothing behind.                       *)
SettledList ==
  Quiet => \/ symbols.files = {}
           \/ symbols.pattern = pattern /\ symbols.files \subseteq Numbers(lexFiles)

=============================================================================
