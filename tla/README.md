# A verification project for BVRDE

BVRDE is a Windows IDE for programs that live on a remote Unix host.  Its
core is the *remote project* plug-in (`src/RemoteProject`): it keeps several
telnet/ssh/rlogin/cmd shells open, sends build and debugger command lines
through them, scans what comes back, transfers files, and has all of it shown
by a GUI thread.  The program has no unit tests and relies on a dozen
threads, flags and queues that are read and written from everywhere.  This
directory holds TLA+ models of that core, the TLC runs that check them and the
TLAPS proofs about them.

## Inventory

| Part | State it keeps | Operations | Talks to |
|---|---|---|---|
| Build sessions (`CompileManager.cpp`) | `m_aCommands` (queue), `m_Flags`/`m_aFlags`, `m_event`, the thread, the *shared* `s_bBusy` | `Start`, `Stop`, `SignalStop`, `DoAction`, `_StartProcess`, `CCompileThread::Run`, `OnIncomingLine` | its shell, the line listeners, the GUI queue, the solution-rebuild thread |
| Line listeners (`ShellProxy.cpp`) | `m_LineListeners` under a lock | `AddLineListener`, `RemoveLineListener`, `BroadcastLine` | shell threads call it, managers and views listen |
| GUI queue (`Turnpike.cpp`) | `m_aLazyData` per project, the global recursive `g_csDelayedData`, window messages | `Delayed...()`, `OnProcess` | every thread of the plug-in, the main window |
| Shell protocols (`TelnetProtocol.cpp`, `SshProtocol.cpp`, `RloginProtocol.cpp`, `ComSpecProtocol.cpp`) | thread, socket or pipe, `m_bConnected`, last error, event | `Start`, `Stop`, `SignalStop`, `WaitForConnection`, `WriteData`, `Run` | listeners above, host below |
| Debug manager (`DebugManager.cpp`) | debug level, nesting, break points, link to the views, counters of breaks to ignore | `RunNormal`, `RunDebug`, `Break`, `ProgramStop`, break points, `OnIncomingLine` | shell, GUI queue, adaptors |
| File transfer (`FtpProtocol.cpp`, `SftpProtocol.cpp`, `FileProtocol.cpp`, `FileProxy.cpp`) | connection handle, thread, last error, a cancel thread | `LoadFile`, `SaveFile`, `WaitForConnection`, `Start`/`Stop` | editor, project |
| SQL projects (`src/SqlProject`) | per view: `m_state` (one word), `m_event`, the query thread, the result lists | `OpenView`, `Run`, `Abort`, `CloseView`, background requests for column information | query thread, result view, OLE DB |
| Tags and lexer cache (`LexInfo.cpp`, `ClassView.cpp`, `SymbolView.cpp`) | `m_aFiles`, `m_aDelayedFiles`, `m_bLoaded`; pointers into them in two views; `m_dwCookie`, `m_bLocked` | `MergeFile`, `MergeIntoTree`, `_LoadTags`, `Populate`, `Rebuild`, pattern changes | lex thread, symbol thread, GUI queue |
| Project, files, scripting, other views, credentials | tree of files, dirty flags, caches | commands of the IDE | GUI thread only, with a few background threads |
| IDE host, source control, editors, tool plug-ins | windows, documents | GUI framework | — |

`PROJECT.json` lists every part with its sources, modelled or not.

### What is hard in this code

* **Flags set and cleared apart from the lock.**  `s_bBusy` is tested at
  `CompileManager.cpp:584`, set at 656 and cleared at 302, 317 and 839, by four
  kinds of threads; it belongs to all projects at once.
* **Threads that end on their own.**  `CThreadImpl::Stop` joins without a
  time-out; the thread joined may wait for a flag of somebody else.
* **Lists copied, then used without the lock.**  `BroadcastLine` calls through
  copied pointers; listeners unregister in the middle of the loop.
* **A lock the owner can enter again.**  `OnProcess` holds a critical section
  over calls that may run a message loop, which calls `OnProcess`.
* **Double-checked wake-ups.**  `OnProcess` looks at the queue without the lock,
  and only *tries* to take it.
* **Markers without identity.**  A session ends when the text of a marker comes
  back; nothing says whose marker it was.
* **Failures in the middle.**  A send may fail between two lines of a session, a
  write between two chunks of a file.
* **Answers without identity.**  What arrives next over SFTP is taken for the answer
  to what was asked last; the debugger's break point numbers are used before they
  have arrived.
* **Pointers into data that is replaced.**  Class view and symbol view keep pointers to the
  tags of a file; saving the file replaces them, from another thread's result.
* **One word for everything.**  The SQL view tells its thread what to do by overwriting
  one variable.

The hazards, each at its line and with the properties that cover it, are the
`hazards` list of `PROJECT.json`.

## Modules

| Module | Models | Role |
|---|---|---|
| `CompileSession` | `CompileManager.cpp`, with the part of the shell thread it joins | state machine: client threads, compile thread, shell thread, host |
| `CompileSessionProps` | — | the steady environment, fairness, and the properties of `CompileSession` |
| `LineFeed` | — | abstract: what a listener may expect of a broadcast |
| `LineBroadcast` | `ShellProxy.cpp:165-199` | state machine of the listener list and the broadcasting threads |
| `BuildAndLines_proofs` | — | `CompileSession`: types, order and batches; sessions stay apart in the steady environment. `LineBroadcast`: types; it implements `LineFeed` |
| `DelayedCalls` | — | abstract: calls are carried out once, in order |
| `Turnpike` | `Turnpike.cpp`, the message loop of `MainFrm.cpp` | state machine of queue, lock, messages and (nested) activations of `OnProcess` |
| `Turnpike_proofs` | — | no wake-up lost; commands in order; it implements `DelayedCalls` |
| `ShellConnection` | `TelnetProtocol.cpp` without the parser, `Thread.h`, its use by `CompileManager.cpp` | state machine: GUI thread, compile thread, I/O thread, host |
| `ShellConnection_proofs` | — | type invariant; the safety properties when the owner alone restarts |
| `DebugSession` | `DebugManager.cpp`: start and end of sessions | state machine: GUI thread, shell thread, stop threads |
| `DebugSession_proofs` | — | types; views, listener and stop threads agree with the session |
| `BreakPoints` | `DebugManager.cpp`: break points, breaking and continuing | state machine: GUI thread, shell thread, debugger and program |
| `BreakPoints_proofs` | — | types; the two lists agree; the user is shown whether the program runs |
| `SftpTransfer` | `SftpProtocol.cpp`, `CTextFile::Save`, `CFileManager::SaveFile` | state machine: GUI thread, connecting thread, the wire, the host |
| `SftpTransfer_proofs` | — | answers, handles and whole transfers when no answer is late |
| `QueryThread` | `SqlProject`: `QueryThread.cpp`, the view that owns it | state machine: GUI thread, query thread, packets |
| `QueryThread_proofs` | — | types; no request slept over; lists complete; the animation ends |
| `TagCache` | `LexInfo.cpp`, and what `ClassView.cpp` and `SymbolView.cpp` keep of it | state machine: GUI thread, lex thread, symbol thread, posted messages |
| `TagCache_proofs` | — | types; the class view points into the list; the symbol view settles |
| `MCParts` | — | four parts that share no state, as scenes of one instance |
| `MCBuildAndLines` | — | builds in the steady environment, and the line listeners, likewise |
| `MCCallsAndPoints` | — | the event queue of the GUI thread, and the break points, likewise |
| `MC...` | — | instances for TLC |

### CompileSession

One record per project.  A *client* is a thread that calls the manager (the GUI
thread; the solution-rebuild thread is another): its program counter walks
through `Start`/`Stop` (signal, join the shell, join the compile thread, clear)
and through `_StartProcess` (busy test, question to the user, listener, queue under
the lock, flag and event).  The compile thread wakes up, takes the whole queue
with its flags, sends command after command, and then waits until busy goes away
or something is queued.  The shell thread connects, may lose the connection, and
hands the answer of the host to `OnIncomingLine`, which ends the session at the
marker.  A command is a number and the session it belongs to; its text is left
out.  One kind of session, "build", stands for all that queue commands and a
marker.  The resets `OnIncomingLine` makes at a marker are one step; the wait of
up to 800 ms after a COMMANDMODE session is part of the step that sets the event;
the question whether the debugger is busy and `WaitForConnection`'s restart of the
shell are left out.

### LineBroadcast

Threads broadcast lines; each copies the list under the lock and walks its copy from the
end without it, checking after each call that the list still has the size of
the copy.  Listeners come and go at any moment; the compile manager takes itself off when
it is given the termination marker.

### Turnpike

A `Delayed...()` function is three steps (take the lock, add the entry, post and
leave).  `OnProcess` is an activation record on the stack of the GUI thread,
one action per stretch between two points where another thread may interfere:
look at the queue, try the lock, handle one entry, end of loop, empty the queue and leave the
lock, send the debugger commands, return.  Entries are classified by what their handling does to the queue:
nothing, a debugger command, a break (refresh of all views), start and end of a debug
session (which ask for further calls), and one that puts up a box and so runs a
message loop (`OpenView`, when the file fails the encoding check, `Files.cpp:347`).
A message loop of the sending itself is not modelled: `WriteData` pumps messages while it waits for a connection
(`PumpIdleMessages`, `TelnetProtocol.cpp:691`), so that an `OnProcess` might run between two commands of a batch.
What the entries do to windows is left out.  The text box shown by
LAZY_SHOW_MESSAGE is modeless and runs no loop.

### ShellConnection

What `CompileSession` takes for granted of its shell, in detail.  The *owner* is
the GUI thread: it starts and stops the manager (signal everything, stop the
shell, join the compile thread; `Start` then stops the shell again, creates the
I/O thread and the compile thread) and waits for the connection before it queues
commands (`CompileManager.cpp:614`; the result is ignored).  The *writer* is the compile
thread: each `WriteData` checks the socket and the stop flag, waits for the
connection, and writes; when that fails the thread stops the manager and ends.  The
*I/O thread* opens the socket, is woken by the socket or the event, answers the
prompts, and on its way out closes the socket and then resets `m_bConnected`.  The *host*
prompts, accepts, refuses, aborts, or goes away without a sign.  The accesses to
the shared fields are steps of their own wherever another thread may come
between; the credentials dialogue is one prompt and one answer, and the bytes of the
stream are left out, as are `WriteSignal` and `WriteScreenSize`.

Who waits restarts the connection when the I/O thread was not seen running for two
seconds.  `Restarters` says which callers may get into that situation.  With the
owner alone, one I/O thread at a time exists and `Stop` leaves nothing behind;
with both, neither is true: a stop at the very moment of a restart releases the handle
of the new thread, and two restarts create one thread over the other (run
`asserted`).  Time enters at one more point: a writer that saw the connection stand
writes before the two seconds of somebody else are over; they start after the
connection went down.

A refused login sets the error and the stop flag and then `m_bConnected` all the same
(lines 158-185), so until the thread has ended lines are written to a host that has
refused; an orderly close by the host is not noticed because only `FD_READ`
is selected.  Both are in the model, and `LinesAfterLogin` allows them.

### DebugSession

The functions that start and end a session are sequences of steps (`Stop`, `SignalStop`,
`ClearLink`, `ProgramStop`, `Attach`, `RunNormal` are the sequences; every step is an action), and
`todo[t]` is what thread `t` has yet to make of them.  The *GUI thread* starts a debugged or
a plain program, ends it (the menu entry is enabled while `IsBusy`, `Project.cpp:355`), or abandons it for a build
or because the project is closed; it does one thing at a time, since `PumpIdleMessages` dispatches
no commands.  The *shell thread* logs in, hears the prompt, the end of the program and
`^exit`, and may lose the connection at any moment.  A *stop thread* is created by
`ProgramStop`, and after a while cuts the connection or clears the link.  `session` counts
the sessions and `cause` remembers for which one a stop thread was created: both
exist in the model only, to say what the code has no name for.

Left out: break points, breaking and continuing (`BreakPoints` has them), nested commands, the text of all lines but the ends
above, and `WaitForConnection`'s restart (which `ShellConnection` has).  Time is left out: the three seconds of
the stop thread, the time-outs of connection and prompt, and the stop flag that shortens the
three seconds all let the waiting end at any moment.  The steps of `ClearLink` are three:
the views are told, the listener and adaptor go, the flags are reset.

`Maintain` is the option to keep the connection.  `Overlap` says whether the GUI thread and the shell thread may
be in `ProgramStop` at once: the code does not prevent it (`DebugManager.cpp:191` checks, then
starts).  If they are, two stop threads are created, only the second has a handle, and
the first, which nobody joins, may end a later session; with `Overlap = TRUE` TLC finds `EndsOwnSession` violated.
The runs leave it out to see what else could go wrong.

### BreakPoints

The manager keeps a list of break points, the debugger another.  What a function of the
manager does is a sequence of steps (`_PauseDebugger`, the command, `-break-list`,
`_ResumeDebugger`, the change of the list), which the GUI thread makes one by one
while the shell thread hears the debugger; `ops` is what is yet to be done.  The functions hold
`m_csBreakpoint` and only the GUI thread calls them, so one runs at a time; the
shell thread's `_UpdateBreakpoint` takes no lock and is two steps: find the entry, store the number.
To clear the list names all its numbers in one command (`Clearing`); when a session starts,
the open views tell their marks anew, without numbers, one file after the other and the enabled ones of a file first, while the entries of
files nobody shows stay as they were and where they were, which is now in front (`Orders`, `Reordered`).
A command is read by the debugger when the program is halted, in the order of
sending; a break interrupts a running program.  The debugger gives each break point the next number
and tells it in its answer.

A command can name a number that is not that of the place it is meant for: one that was not yet told (0), one of the
session before, the guess of `_AttachDebugger` after an insertion failed, a number stored
in the wrong entry, or the number of a temporary break point (`SetNextStatement`), which
overwrites that of the real one.  `astray` remembers those places (until the session ends), and `PointsAgree` is
about all others: the model exists to say that *this* is the only way the two
lists part.  `ShownAgrees` is about `m_nIgnoreBreaks`: a stop of the manager's own is hidden from the views, and a
hit that comes at the same moment is not lost.  It holds while a break takes less than the
second `_PauseDebugger` waits (`Late = FALSE`).  With `Late = TRUE` TLC finds
it violated: the pause gives up, the stop arrives later, is hidden, and nobody resumes the program.

Also seen here: to continue a program that runs already is possible (`StartApp()` of a script, `ObjectModel.cpp:163`; the menu offers it
only when the program is halted): the command waits in the debugger's input and lets the program run on after its next
stop, before the user has said so; `m_bBreaked` is still set after a continue was sent and before `^running` has
arrived, so a command sent in between is not preceded by a break and waits until the next stop; the same
happens to the insertion when a disabled break point of the same line is replaced in a running
program (`AddBreakpoint` removes it first, which resumes the program, and then finds `m_bBreaked` set).

Left out: conditions, watch points, stepping, `-exec-until`; the 150 ms a command may wait for the prompt, which change
only when it is sent; the answer to `-break-list`, which only refreshes a view; failing
sends (the session ends then, see `DebugSession`); `m_nIgnoreErrors`.

### SftpTransfer

The GUI thread makes one call at a time: `Save` deletes the file first if
`protectReadOnly` is off or `CompatibilityMode` on (`DeleteFirst`), ignoring the result, and then opens, writes chunk by chunk and
closes; `Load` opens, reads to the end and closes.  Every request waits for one answer.  The
connecting thread brings the session up or fails; the session may be lost at any moment, which
nobody notices because nothing resets `m_bConnected`; `Start()` makes it anew.  The host
handles requests in order and may refuse each.  `_ReadData` takes what has arrived, also more than one answer; what
follows the first is dropped.

A file's content is a sequence of chunks and a chunk the number of the edit it
comes from, so `TransfersWhole` tells apart a file written in parts, from two edits, or to another file's handle.
`Late` says whether an answer may come after the time-out.

A call that fails does not always close the handle it has open, also on a session that lives on.  `SSH_FXP_CLOSE` is sent after the end of
the file and after a chunk the host refuses.  It is not sent when a request cannot be written (short write or time-out:
477, 534, 650, 688, with `_WriteData`, 1169-1172; `WriteFails`), when an answer does not come in time (479, 655; `ReadFails`), when
the handle is longer than the buffer (458-461, 621-624; `OpenReply`), and when there is no memory for the data (506; `TakeData`).  The
host then keeps the handle until the session ends.  `HandleReturned` says which calls do give it back, and holds
in the presence of the handles of those that do not: these are in `opened` for the rest of the session.  When the rest of a data packet does not come
(513), the same chunk is asked for again (`ReadCut`).  Assumed: a request that could not be written leaves nothing
on its way, or, with `Late`, leaves later and whole; half a packet is the end of the session (`Lose`).

Also seen here: an empty text is not saved, but its file has been deleted before (the test is in `SaveFile`, the deletion in front of it); after a failed
save the host may have half a file; a *local* file is reported as saved whatever `f.Write` returns
(`Files.cpp:257`); `WaitForConnection` starts a connection that was never tried and fails all the same.

Left out: directory listings, existence check, path resolution, attributes; FTP (WinInet does the
protocol), password dialogue and file names.  The answers of `_SendInit` and `_ResolvePath` are part of connecting.

### QueryThread

The view writes the text, then the word, and then sets an event, three steps (two without a text; `Abort` writes the word only); the
thread clears the event, reads the word, reads the text and then clears the word, four steps, none of them under a lock.  To connect may fail, which ends the
thread.  The result view aborts the query itself when it has shown
`maxErrors` errors (`ResultView.cpp:303`): `Abort` may come at any time while a query runs.  `CloseView` is: disconnect, set the event, destroy the window
(which aborts a query that runs), join.  A query is split into statements, each fails, affects rows, or returns
records; records are posted in packets of `m_nChunkSize`, and the thread looks at the word after each
record.  The result view makes a list of each statement with columns.  A record is
<<query, statement, row>>, so that a record in the wrong list, twice, or missing is seen.
Packets arrive in the order they were posted, while the GUI thread is idle.

Also seen here: an abort is never taken from `m_state` (`IsBusy()` stays true, and no column information is asked for until the next
query); while a query runs `IsBusy()` is false, so the timer's request may overwrite an abort; without
a terminator (`editors.sql.terminator`) a query sends the start packet and no done packet, so
the animation never stops; nor does it when a view is closed in mid-query, because the done packet is discarded with the window
(`ResultView.cpp:97-102`) and the animation is the main frame's.  `AnimationFollows` is about neither: it says that with a terminator set and
as long as the view has its window, the animation runs only while the query does or its done packet is on its way, and that it runs, or
the start packet is on its way, while statements are run, also when one query follows the other.  An order to disconnect written between lines 38 and 42 is lost.

Left out: a text read by the thread while the view writes it (a number is read whole), schema view, column information, `_SplitSQL`'s text, the OLE DB calls (a statement fails or returns).

### TagCache

A parsed file (LEXFILE) is a number and its source; a pointer to one of its tags is the number, so that
what a view shows can be compared with what is in the list.  The *lex thread* parses what was
saved and adds an entry to the GUI queue, for which it needs the lock of `OnProcess`; `MergeFile` joins the
thread of the save before, starts it anew and waits a millisecond for it (`WaitForThread`); an empty text it does not parse, so the symbols of the text before stay.  `MergeIntoTree` is one step: it locks the class view, empties the symbol view, replaces the file
(the old one is kept among `Keep` others before it is freed) and rebuilds the tree, at once if the class
view is visible and else when it is shown.  The *symbol thread* gathers what matches a pattern, looks whether it is stopped
and posts its list, three steps, and the GUI thread may stop it, merge or start another request in between.  Every lookup
first loads the tags if nobody has: test, clear and read are three steps, since only the last holds the tag
lock.  What the GUI thread is in the middle of is `stage.gui`; posted messages are handled in order while it is idle,
and what the user does may come before messages already posted.

The runs have `Racing = FALSE` and `Erase = FALSE`: nobody looks for symbols before the class view, which is in
front when the project is opened, has loaded the tags; the pattern is changed, never emptied.  Both were tried:

* with `Racing = TRUE` TLC finds `TreeCurrent` violated: GUI and symbol thread are both in `_LoadTags`
  (`LexInfo.cpp:343`, 501), and the second `Clear()` frees the files the class view points to;
* with `Erase = TRUE` it finds `SettledList` violated: an empty pattern neither joins the thread nor changes the cookie
  (`SymbolView.cpp:190-193`), so a list posted just before is shown under an empty pattern.

A third weakness is in the model and no property speaks of it: the cookie goes back to 0 with each merge
(`SymbolView.cpp:131`) and the next request has 1 again, so that a list still in the queue is taken for the answer
to it and shown until that arrives.  If a merge freed the old files in the meantime, its pointers dangle (the comments
at `SymbolView.cpp:209-213` and `LexInfo.cpp:148` know that better protection is needed).  `SettledList` holds all the same,
because the right list arrives after it.

Left out: CTAGS files (`TagInfo.cpp`), the lookups of the editor, the CommonLex file, expanding an item of the
tree, another project being activated, and the thread of the dialogue that rebuilds all lex files
(`Project.cpp:1238`).

### MCParts, MCBuildAndLines, MCCallsAndPoints

The checks of parts that share no state are one instance: `scene` (`part` in the other two) says which part moves in a
behaviour, and all others stay in their initial state.  The fairness of `DebugSession` holds in its scene only; that of `Turnpike` is about
actions none of which is enabled in the other part.  There is no
interaction to be seen here; the state space is the sum of those of the parts, not their product.

## Runs

| Run | Configuration | What it shows |
|---|---|---|
| `build` | 1 project, 1 client, 2 sessions, batches of 1 command and its marker | types, order and batches of what is sent; `Stop()` completes; a session on its way gives the busy flag back — under failures and lost connections |
| `shared` | 2 projects | **violation**: stopping one project clears the busy flag of the other |
| `steady` | two parts: | |
| — builds | 1 project, 1 client, 3 sessions of 2 commands, no failures, no close | sessions stay apart; marker and flags belong to the session being run |
| — lines | 3 listeners, 2 threads, 2 lines | the list and copies are sound; `LineFeed` is implemented |
| `views` | 3 listeners, 1 thread, 1 line | **violation**: the views below the manager never get the marker |
| `calls` | two parts: | |
| — queue | 2 projects, 2 threads, up to 2 requests each plus those the handlers make | no lost wake-up, order, exactly once, everything done |
| — points | 3 places, two of them in one open file and one in a closed file, 2 actions of the user, 1 stop, 1 session, no break is late | no place is twice on the list; the lists agree but for astray numbers; the user is shown whether the program runs |
| `reentry` | 1 project, entries that put up a box | **violation**: the assertion at `Turnpike.cpp:267-270` |
| `shell` | 2 I/O threads, 2 lines, the GUI thread restarts | one I/O thread at a time; no line before the login; nothing survives `Stop`; every call returns |
| `asserted` | 3 I/O threads, 2 lines, both restart | **violation**: the assertion at `Thread.h:57` |
| `scenes` | four scenes: | |
| — debug | 2 sessions, 3 stop threads, connection not maintained | views, listener and flags agree; a stop thread ends its own session only, and does so |
| — transfer | 2 files of 2 chunks, 2 edits, 2 calls, 1 restart, no late answers | what was saved or loaded without an error is on the host as shown; a call that ends well has given back its handle; an answer is that to the last request |
| — query | 2 requests, queries of up to 2 statements of 3 records, packets of 2 | no request is slept over; a list shows the records of one statement; the animation of an open view follows its query |
| — symbols | 1 source, 2 saves, 2 changes of the pattern or order, the class view is hidden and shown once, 1 old file kept | the lock of `OnProcess` goes with what the GUI thread does; a class view that may be drawn points into the list; the symbol view ends with what matches the pattern |
| `late` | transfer with late answers | **violation**: an answer is taken for another request's |
| `closing` | the query instance | **violation**: closing a view with a running query hangs |
| `maintain` | the same, maintained | **violation**: the stop thread of one session ends the next |

Bounds: two sessions are enough for a leftover of the first to meet the second, three
of the builds in `steady` for one to be queued while another ends and a third waits;
two projects are the least that share the flag and the lock; two threads the
least that race for it; three listeners give one before, one at and one after the
one that leaves; two I/O threads are the least for one to be left behind by a restart,
three for two restarts after a start; two debug sessions are the least for one to be ended
by the stop thread of another, and three stop threads allow for two of one session and one of the other.
Two files are the least whose handles can be mixed up, two chunks give one with a write after it and a last one, and two calls a second that meets
what the first has left; two requests are the least for one word to overwrite another (`OpenView` and `CloseView` add one each), two
statements for a list to follow another; three records in packets of two make the first full and the last partial, and after an abort the last may be empty or partial.
Two saves and one kept file let a file be freed while a list that points to it is on its way, two changes let one
request overtake another; symbols were also checked with two sources (1.3 million states) and with three
saves and three changes (6.0 million).
Break points were also checked on their own with two sessions (1.4 million states), with a place where none can be set (0.5 million),
and, in two places, with three actions and two stops (12.2 million).  `MaxPosts` bounds re-posting: with the lock held, a message
re-posts itself for ever in the code as well.  Deadlock is checked except in `calls` and
`reentry`, `steady`, `scenes`, `late` and `closing`, where the bounds on what is asked for make a quiet system a proper end.

Fairness.  `CompileSession`: weak fairness of the steps a thread makes on its own
(compile thread, shell thread, a client inside a call) — the operating system
schedules ready threads — and of the host's answer as long as the connection
stands; none for starting a session, for failures or for a close.  `Turnpike`: the
message loop takes messages and a thread inside a `Delayed...()` function leaves
it; no fairness for asking.  `ShellConnection`: threads inside a call and the I/O
thread run, and the connect time-out (`TelnetProtocol.cpp:695`) ends every wait; none for
the host, for starting or for stopping.  `DebugSession`: a thread that has steps to make makes
them, the shell thread ends when told to stop, and the stop thread wakes up
(`DebugManager.cpp:31`); none for the debugger, for the host or for the user.

### What the runs found

* Starting or stopping any project clears `s_bBusy` although the comment at
  `CompileManager.cpp:152-154` promises all projects that some project is compiling.
* The compile manager removes itself at the marker, so `BroadcastLine` stops
  before the listeners in front of it see the marker that line 114 wants them to see.
* `OnProcess` can run inside itself and then breaks its own assertion; the
  entry is handled twice.
* The GUI thread and the compile thread may both restart a connection that was lost
  (`TelnetProtocol.cpp:710`), and the second creates its thread over the handle of the first.
  The busy test keeps the two apart only as long as nobody else clears the flag, as
  the run `shared` shows other projects do.
* With a maintained connection a new debug session is started without joining the stop thread of the
  last one (`DebugManager.cpp:689`), which may then end the new session.
* A call over SFTP that runs into its time-out leaves the answer on its way, and the next call takes it
  for its own (the assertion at `SftpProtocol.cpp:450` and its like): a save may then write through another file's handle.
* Closing an SQL view while its query runs overwrites the order to disconnect by an abort
  (`Container.cpp:156`); `Stop()` then joins a thread that waits for an event.

Also seen while modelling, and not part of a run because no document promises the
contrary or the environment is unusual:

* with two clients (GUI and solution rebuild), both can pass the busy
  test together (584/656), and two simultaneous `Start()`s of one project can leave
  the second join waiting for ever, since `CThreadImpl::Stop` does not set `m_event`;
* the busy flag is set after the lock is released: if the compile thread has by then
  failed to send and ended, the flag stays set until the next `Stop`;
* `m_Flags` is cleared outside the lock and `m_aFlags` survives a failed send, so
  after failures a session may run with flags of another one; a marker left in the
  queue by an aborted session ends the next one.  In the steady environment neither happens;
* two threads in `ProgramStop` create two stop threads (`Overlap`, above);
* when the connection of a debug session is lost, `m_bDebugging` stays set until the
  next start or close, while the command to stop is disabled because nothing is busy;
* a listener removed during a broadcast may still be called once
  (`ShellProxy.cpp:194`), through a pointer that may be dangling.

## Proofs

| Theorem | Says | Argument |
|---|---|---|
| `BuildAndLines_proofs!TypeCorrect` | `Spec => []TypeOK` | one step per action |
| `...!CommandsSentInOrder`, `...!CommandsSentAsBatches` | what reaches the host is in order, and no command without its predecessor directly before it | invariant: what is sent, taken and queued is one increasing sequence of numbers, gaps only where a batch was thrown away |
| `...!SessionsDoNotMix`, `MarkerIsOwn`, `FlagsAreActive` | `SteadySpec => []OneSessionAtATime`, `[]MarkerEndsOwnSession`, `[]FlagsOfActiveSession`, if `Alone` | `SteadyInv`: the shell is connected once and stays; what is on its way is the rest of the *latest* session, with its flags beside it; and busy is set as long as anything is on its way |
| `BuildAndLines_proofs!LineTypeCorrect` | `LineSpec => []LineTypeOK` | one step per action |
| `...!CopiesCorrect` | lists and copies have no duplicates; a copy not stale is the list | one step per action |
| `...!ImplementsFeed` | `LineSpec => FeedSpec` | every step is a step of `LineFeed` or a stutter, from `CopiesInv` |
| `Turnpike_proofs!NestedTypeCorrect`, `TypeCorrect` | types, with and without nested loops | one step per action |
| `Turnpike_proofs!NoWakeUpLost` | `NestedSpec => []NoLostPost` | inductive as it stands with types: the activation that changes still comes to its project, or leaves with its queue empty or a message posted |
| `Turnpike_proofs!QueueProcessed` | `Spec => []WholeQueueProcessed` | from the invariant below |
| `Turnpike_proofs!ImplementsCalls` | `Spec => CallsSpec` | invariant `LockInv /\ QueueInv`: whoever adds owns the lock, so does an activation between its first entry and the emptying of the queue; the queue holds exactly the last numbers asked for |
| `Turnpike_proofs!CommandsSentInOrder` | `Spec => []CommandsInOrder` | `SentInv`: what was sent, and then what the activation has collected to send after the lock, is in order (refreshes apart), and none of it is later than the calls carried out so far |
| `ShellConnection_proofs!TypeCorrect` | `Spec => []TypeOK`, whoever restarts | one step per action |
| `...!OneIoThread`, `NothingAfterStop`, `HandleFreeAtCreation`, `NoLineBeforeLogin` | `Spec => []OneThread`, `[]StopStops`, `HandleFree`, `[]LinesAfterLogin`, if the owner alone restarts | invariant `IInv` below |
| `SftpTransfer_proofs!TypesHold`, `RepliesMatch` | types; the answer taken is that to the last request | `WireInv`: one request is on its way, or its answer, or neither, and only while a call waits |
| `...!HandlesReturned` | `HandleReturned` | `HandleInv`: the handle of the call in progress is among those the host has open, each under a number of its own and none that is still to be used, until its close is handled |
| `...!TransfersAreWhole` | `[]TransfersWhole` | `SaveInv`, `LoadInv`: what the host has is the prefix the call has come to |
| `QueryThread_proofs!TypesCorrect`, `NoRequestSleptOver`, `AnimationFollowsQuery` | types, `[]RequestsNoticed`, `[]AnimationFollows` | `NoticeInv`: where the thread is between event and word says what it still has to see; `AnimationInv`: the last packet is yet to be posted while the query runs; `StartInv`: while it runs, the last packet that starts or stops the animation is one that starts it |
| `...!ListsComplete` | `[]RowsOfOneStatement` | `RowsInv`: the packets on their way, applied one after the other to what the view shows (`Brings`, `After`), lead to where the query thread goes on (`GoesOn`) |
| `DebugSession_proofs!TypeCorrect` | `Spec => []TypeOK`, in either mode | `PlanInv`: what a thread has yet to do is always a *plan* — the rest of functions of the source, one after the other |
| `...!ViewsAreClosed`, `OwnSessionEnded` | `[]ViewsFollow`, `EndsOwnSession`, unless `Maintain` or `Overlap` | `SetupInv`, `StopInv`, `ViewInv` below |
| `...!DebuggerIsHeard` | `[]DebuggingHears`, in either mode | `HearInv`: who debugs without listening is about to forget the session, or will wait in vain for the prompt and then give up |
| `BreakPoints_proofs!PointTypesCorrect` | `PointSpec => []PointTypeOK`, also with late breaks | part of `ListInv` below: that no place is entered twice follows from what the steps before have removed |
| `...!ListsAgree` | `PointSpec => []PointsAgree`, also with late breaks | `ListInv` |
| `...!UserIsShown` | `PointSpec => []ShownAgrees`, unless `Late` | `ShownInv` below |
| `TagCache_proofs!TagTypesCorrect` | types, whoever loads the tags | one step per action; `SavesSource` says that the lex thread is started on a source, `LockWhileProcessing` that a GUI thread that is idle or joins has no lock |
| `...!TreeIsCurrent` | `[]TreeCurrent`, unless `Racing` | `LoadInv`: until the tags are loaded the tree is locked and nobody is asked for symbols, so only the thread that loads can clear |
| `...!ListSettles` | `[]SettledList`, unless `Racing` or `Erase` | `CookieInv`: who carries the cookie of the view has gathered from the list as it is; `ListInv`: what the view will show is still to be asked for, under way, the *last* result in the queue, or shown |

`SftpTransfer_proofs` and `QueryThread_proofs` are about all values of the constants that fulfil `Bounds`: bounds and sizes are
numbers, and (transfer) no answer is late and no text is the value for "no such file".  With late
answers the theorems are false, as the run `late` shows.

`IInv` of `ShellConnection_proofs`: `ThreadInv` (the thread that runs has its handle in
`m_thread`; between join and creation there is none), `SocketInv` (the socket is open and the
connection stands only while it runs), `HostInv` (what waits to be read goes with the state of the
host) and `LoginInv` (whoever believes in the connection, or is about to write, does so after
the host has answered and while no thread is about to open a new socket).  `OneThread` is not
inductive without the first, `LinesAfterLogin` needs all four.

`DebugSession_proofs`: `Plan` says of a sequence of steps what may never come after what (`Never`) and which
steps come in pairs (`Linked`); the functions of the source are plans, what is left of a plan is one, and so are two
plans one after the other if nothing in the second may not follow what is in the first.  The invariants
need nothing else of `todo`, so no proof looks into a sequence.  `SetupInv`: once `Stop()` has joined the stop thread and until
the session is set up, no stop thread, no shell line and no debugger is left that could disturb it.  `StopInv`: at most one stop thread lives, it is
the one in `m_StopThread` and it was created for the present session; one thread at a time is in `ProgramStop()`; and whoever is
about to join waits for the right handle.  `ViewInv`: between closing the views and clearing `m_bDebugging` nobody opens them.
`HearInv` needs `CountInv` beside it: a stop thread that has a session is not created again.  TLC refutes `ViewsFollow` and
`EndsOwnSession` with `Maintain = TRUE` as with `Overlap = TRUE`, so neither hypothesis can go;
`Overlap = FALSE` is not enforced by the code (`IsRunning()`, `Stop()`, `Start()` at `DebugManager.cpp:191` are called without a lock):
the theorems say what holds as long as the user and the debugger do not end the session at the same moment.

`BreakPoints_proofs` looks at one place at a time.  What the debugger has there and what the list has is a *view*, and
each command sent and each step yet to be made changes it (`Effect`).  `AgreeInv` says that for each place there
is a `Path`: from what the debugger has now through the commands it has not read, and then from there and from what the list has
through the steps of the GUI thread, to a view in which both agree, and on the way nothing is inserted or entered that is there already.
A place in `astray` is a view of its own that nothing leaves, so that the path holds for it as well and the proof needs no number but the one
a command names when it is read.  Every action shortens the path at one end or lengthens it at the other: a request adds steps whose path ends where
it began to agree, a step that is made moves from the second path into the first (a command) or into the list, a command that is read
leaves the first.  When nothing is left to do the path is empty, which is `PointsAgree`.  `UniqueInv` beside it says that the debugger
has no place twice; `QuietInv`, that outside a session there is nothing of the debugger; `SingleInv`, that an insertion is about one place.

`ShownInv` adds what the shell thread is about to hear.  `LinesInv`: each line of news has a prompt behind it.  `BlockInv`: every pause among the steps has its
`_ResumeDebugger` three steps later, and who must restart the program is about to.  `NewsInv`: the last word on the way to the manager is right about the program, and
if there is none, `m_bBreaked` is.  `HaltedInv`: the exception is `AttachProcess`, where the program is halted before the manager is told.
`IgnoreInv`: `m_nIgnoreBreaks` is no more than the prompts on their way that do not belong to a stop, but for one if the GUI thread still waits for
its own stop.  `HiddenInv`: a stop that is, or will be, hidden from the user is followed by a continue — the GUI thread waits, is to restart, or has sent it.
The hypothesis `~Late` is used where the GUI thread stops waiting (`Await`): with `Late = TRUE` TLC refutes `ShownAgrees`, so it cannot go.
The code promises a second and no more (`DebugManager.cpp:1324`).

`Alone` in the theorems on build sessions says that there is one project and one thread that asks.  TLC refutes
`OneSessionAtATime` with a second client, and with a second project: two threads pass the busy test together, and
connecting one project clears the flag of the other.

All these invariants were checked by TLC as well, in the instances of the runs; `RowsInv`, which speaks of
sequences TLC cannot enumerate, with its existential quantifiers bounded and one statement a query, and those of `BreakPoints_proofs` with
the end of a path computed instead of guessed, for one place (2 actions, 2 sessions, 442,072 states) and for two of which one is absent (1 action, 2 stops).

`LockInv` is what the lock gives, `QueueInv` what it is for: without the first the
queue could grow under the activation, without the second the entry at the index
could be one that is already done.  These proofs assume only the named ASSUMEs of
their modules (the GUI thread is one of the threads, every project is a listener of the
main window exactly once, "none" is not a thread, the manager is one of the listeners...).

Only model-checked: the liveness properties (`StopCompletes`, `WorkReleasesBusy`, `EveryCallDone`, `CallsReturn`,
`SessionEnds`), which are out of the prover's reach.  Every invariant and every action property of a
passing run, and both refinements, are stated by a theorem above.  The types of `DebugSession` are proved and checked by no run.

## Plan

1. `CompileSession`, `LineBroadcast`, `Turnpike` — done.
2. `ShellConnection`: life cycle of the shell thread — done for telnet; to come: the other
   protocols where they differ, and an abstract shell that it implements and the
   build model assumes.
3. `DebugSession`: start and end of sessions — done; `BreakPoints`: break points, break and
   continue — done; to come: stepping and the nested commands of views.
4. `SftpTransfer`: delete-then-save, time-outs, lost connections — done; FTP with its cancel thread to come.
5. `QueryThread`: the SQL view and its thread — done.  `TagCache`: the lexer cache and the views on it — done; to
   come: CTAGS, the project switch.
6. `SolutionRebuild`: the rebuild thread as a second client of several projects.
7. Small algorithms (`wildcmp`, credentials, diff parser) against reference definitions.
8. Proofs: the steady-state properties of `CompileSession`, `CommandsInOrder`, `RowsOfOneStatement`, `DebugSession`,
   `BreakPoints` — done.

## Not modelled

Windows, layout and drawing; text parsing of compiler and debugger output;
the editors; the IDE host; vendored libraries and generated code.  `PROJECT.json`
gives the reason part by part.
