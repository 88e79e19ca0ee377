---------------------------- MODULE LauncherLife ----------------------------
(***************************************************************************)
(* The life of one TypeDuckLauncher.exe: its two threads and what it takes *)
(* to end it.  The loop thread runs libuv and returns from uv_run when no  *)
(* handle is active any more; the GUI thread owns the tray icon's window   *)
(* and ends with it; the process, and with it the single-instance mutex,   *)
(* is gone when both have ended.  The GUI thread hands commands to the     *)
(* loop thread in uv_async_t handles, the loop thread hands notifications  *)
(* to the GUI thread in a locked queue and a window message.  Requests and *)
(* replies themselves are in LauncherBridge; here a client is its pipe     *)
(* handle and its timer.                                                   *)
(***************************************************************************)
EXTENDS Integers, Sequences, FiniteSets

CONSTANTS
    Clients,     \* the pipes that may be connected at a time
    MaxNotes,    \* bound: notifications before the spontaneous ones stop
    MaxCommands  \* bound: menu commands given to one launcher

ASSUME BoundsAssumption == MaxNotes \in Nat /\ MaxCommands \in Nat

VARIABLES
    up,          \* a launcher runs and holds the single-instance mutex
    loop,        \* uv_run: "running" or "ended"
    listening,   \* serverPipe_ is bound and listens
    startup,     \* startupSettingsApplyTimer_ is pending
    pipe,        \* a PipeClient: "none", "open", "attached" (backend_), "closing"
    armed,       \* the clients whose waitResponseTimer_ runs
    engine,      \* process_ # nullptr
    tasks,       \* uv_async_t handles sent and not yet served
    call,        \* enqueueTrayNotification in the loop thread: its next step
    owed,        \* notifications the running handler has still to enqueue
    notes,       \* trayNotifications_
    gui,         \* where the GUI thread is
    hwnd,        \* hwnd_ # nullptr
    messages,    \* messages posted to the window
    batch,       \* the notifications flushTrayNotifications has taken
    shutdownRequested,
    queued,      \* history: notifications enqueued so far; each is its number
    early,       \* history: those enqueued before hwnd_ was set
    shown,       \* history: the notifications shown
    given,       \* history: menu commands given
    done,        \* history: menu commands carried out
    revived,     \* history: an engine was started after the shutdown
    raced        \* a uv_async_t was initialised beside the running loop

loopVars    == <<loop, listening, startup, pipe, armed, engine>>
noteVars    == <<call, owed, notes, queued>>
guiVars     == <<gui, hwnd, batch, shutdownRequested, early, shown>>
historyVars == <<given, done, revived>>
vars == <<up, loopVars, tasks, noteVars, guiVars, messages, historyVars, raced>>

Commands == {"restart", "redeploy", "terminate"}
TaskKinds == Commands \cup {"shutdown"}
Messages == Commands \cup {"show", "close"}

TypeOK ==
    /\ up \in BOOLEAN /\ loop \in {"running", "ended"}
    /\ listening \in BOOLEAN /\ startup \in BOOLEAN /\ engine \in BOOLEAN
    /\ pipe \in [Clients -> {"none", "open", "attached", "closing"}]
    /\ armed \subseteq Clients
    /\ tasks \in Seq(TaskKinds)
    /\ call \in {"free", "push", "post"} /\ owed \in 0..2
    /\ notes \in Seq(Nat) /\ batch \in Seq(Nat) /\ shown \in Seq(Nat)
    /\ gui \in {"starting", "creating", "loop", "flush", "closing", "ended"}
    /\ hwnd \in BOOLEAN /\ shutdownRequested \in BOOLEAN
    /\ messages \in Seq(Messages)
    /\ queued \in Nat /\ early \in Nat /\ given \in Nat /\ done \in Nat
    /\ revived \in BOOLEAN /\ raced \in BOOLEAN

\* The process runs, and what it does is defined.
Runs == up /\ ~raced

\* What a process starts with, and what is left of one that has ended.
Blank ==
    /\ loop' = "running" /\ engine' = FALSE
    /\ pipe' = [c \in Clients |-> "none"] /\ armed' = {}
    /\ tasks' = <<>>
    /\ call' = "free" /\ owed' = 0 /\ notes' = <<>> /\ queued' = 0
    /\ gui' = "starting" /\ hwnd' = FALSE /\ batch' = <<>>
    /\ shutdownRequested' = FALSE /\ early' = 0 /\ shown' = <<>>
    /\ messages' = <<>>
    /\ given' = 0 /\ done' = 0 /\ revived' = FALSE
    /\ raced' = FALSE

Init ==
    /\ up = FALSE /\ loop = "running" /\ listening = FALSE /\ startup = FALSE
    /\ engine = FALSE /\ pipe = [c \in Clients |-> "none"] /\ armed = {}
    /\ tasks = <<>>
    /\ call = "free" /\ owed = 0 /\ notes = <<>> /\ queued = 0
    /\ gui = "starting" /\ hwnd = FALSE /\ batch = <<>>
    /\ shutdownRequested = FALSE /\ early = 0 /\ shown = <<>>
    /\ messages = <<>>
    /\ given = 0 /\ done = 0 /\ revived = FALSE
    /\ raced = FALSE

-----------------------------------------------------------------------------
(* The process.                                                            *)

\* exec, for the first instance; with the mutex held another one exits at once.
\* The results of uv_pipe_bind and uv_listen are not looked at: a launcher
\* whose pipe cannot be had goes on without one.
Start ==
    /\ ~up /\ up' = TRUE
    /\ Blank
    /\ listening' \in BOOLEAN /\ startup' \in BOOLEAN

\* uv_run returns: no handle is active.
LoopEnds ==
    /\ Runs /\ loop = "running" /\ call = "free"
    /\ ~listening /\ ~startup /\ ~engine /\ tasks = <<>>
    /\ \A c \in Clients : pipe[c] = "none"
    /\ loop' = "ended"
    /\ UNCHANGED <<up, listening, startup, pipe, armed, engine, tasks, noteVars,
                   guiVars, messages, historyVars, raced>>

\* uv_thread_join returns, and WinMain.
ProcessEnds ==
    /\ Runs /\ loop = "ended" /\ gui = "ended"
    /\ up' = FALSE
    /\ Blank
    /\ listening' = FALSE /\ startup' = FALSE

\* The process dies in some other way.
Crash ==
    /\ Runs /\ up' = FALSE
    /\ Blank
    /\ listening' = FALSE /\ startup' = FALSE

-----------------------------------------------------------------------------
(* The loop thread: clients and the engine.                                *)

LoopIsFree == Runs /\ loop = "running" /\ call = "free"

Stopped == shutdownRequested /\ \A i \in 1..Len(tasks) : tasks[i] # "shutdown"

\* startProcess, which may fail, when there is no process; or restartProcess.
StartEngine(restart) ==
    \/ /\ engine /\ ~restart
       /\ UNCHANGED <<engine, revived>>
    \/ /\ ~engine \/ restart
       /\ engine' \in BOOLEAN
       /\ revived' = (revived \/ (Stopped /\ engine'))

LoopHandler ==
    /\ LoopIsFree
    /\ UNCHANGED <<up, loop, noteVars, guiVars, messages, given, raced>>

OnNewClientConnected(c) ==
    /\ listening /\ pipe[c] = "none"
    /\ pipe' = [pipe EXCEPT ![c] = "open"]
    /\ UNCHANGED <<listening, startup, armed, engine, tasks, done, revived>>

\* A request that is forwarded; the error of a failed start stops the timer.
HandleClientMessage(c) ==
    /\ pipe[c] \in {"open", "attached"}
    /\ pipe' = [pipe EXCEPT ![c] = "attached"]
    /\ StartEngine(FALSE)
    /\ armed' = IF engine' THEN armed \cup {c} ELSE armed \ {c}
    /\ UNCHANGED <<listening, startup, tasks, done>>

\* A settings update starts the engine, too, and leaves timer and client alone.
HandleSettingsRequest(c) ==
    /\ pipe[c] \in {"open", "attached"}
    /\ StartEngine(FALSE)
    /\ UNCHANGED <<listening, startup, pipe, armed, tasks, done>>

HandleBackendReply(c) ==
    /\ engine /\ c \in armed
    /\ armed' = armed \ {c}
    /\ UNCHANGED <<listening, startup, pipe, engine, tasks, done, revived>>

\* The engine exits or writes what cannot be read: the attached clients are told,
\* which stops their timers, and the engine is started again.
OnBackendError ==
    /\ engine
    /\ armed' = {}
    /\ StartEngine(TRUE)
    /\ UNCHANGED <<listening, startup, pipe, tasks, done>>

\* onRequestTimeout.  The timer is stopped by the destructor only, so it also
\* fires for a client whose pipe is closing.
OnRequestTimeout(c) ==
    /\ c \in armed
    /\ armed' = armed \ {c}
    /\ StartEngine(TRUE)
    /\ UNCHANGED <<listening, startup, pipe, tasks, done>>

\* onReadError: METHOD_CLOSE to the engine, started when need be, then uv_close.
OnReadError(c) ==
    /\ pipe[c] \in {"open", "attached"}
    /\ pipe' = [pipe EXCEPT ![c] = "closing"]
    /\ \/ pipe[c] = "open" /\ UNCHANGED <<armed, engine, revived>>
       \/ /\ pipe[c] = "attached"
          /\ StartEngine(FALSE)
          /\ armed' = IF engine' THEN armed ELSE armed \ {c}
    /\ UNCHANGED <<listening, startup, tasks, done>>

\* The close callback: removeClient and the destructor.
RemoveClient(c) ==
    /\ pipe[c] = "closing"
    /\ pipe' = [pipe EXCEPT ![c] = "none"]
    /\ armed' = armed \ {c}
    /\ UNCHANGED <<listening, startup, engine, tasks, done, revived>>

\* /apply-settings is started 100 ms after the launcher.
StartupTimer ==
    /\ startup /\ startup' = FALSE
    /\ UNCHANGED <<listening, pipe, armed, engine, tasks, done, revived>>

ClientHandler ==
    LoopHandler /\ \E c \in Clients :
        \/ OnNewClientConnected(c) \/ HandleClientMessage(c) \/ HandleSettingsRequest(c)
        \/ HandleBackendReply(c) \/ OnReadError(c)

TimeoutHandler == LoopHandler /\ \E c \in Clients : OnRequestTimeout(c)
CloseHandler   == LoopHandler /\ \E c \in Clients : RemoveClient(c)
EngineHandler  == LoopHandler /\ OnBackendError
StartupHandler == LoopHandler /\ StartupTimer

-----------------------------------------------------------------------------
(* The loop thread: what the GUI thread asks for, and notifications.        *)

\* restartAllBackends
RestartAllBackends ==
    /\ \/ engine /\ StartEngine(TRUE)
       \/ ~engine /\ UNCHANGED <<engine, revived>>
    /\ UNCHANGED <<listening, pipe, armed, call, owed>>

\* redeployTypeDuckBackend: a notification, the request to the engine, and
\* another notification when that fails.
RedeployTypeDuckBackend ==
    /\ StartEngine(FALSE)
    /\ call' = "push"
    /\ owed' = IF engine' THEN 1 ELSE 2
    /\ UNCHANGED <<listening, pipe, armed>>

\* terminateAllBackends, and onBackendClosed for the attached clients
TerminateAllBackends ==
    /\ engine' = FALSE
    /\ pipe' = [c \in Clients |-> IF engine /\ pipe[c] = "attached" THEN "closing"
                                  ELSE pipe[c]]
    /\ UNCHANGED <<listening, armed, call, owed, revived>>

\* Wrong: shutdown leaves the engine to its end.
ShutdownKeepsTheEngine ==
    /\ listening' = FALSE
    /\ pipe' = [c \in Clients |-> IF pipe[c] = "none" THEN "none" ELSE "closing"]
    /\ UNCHANGED <<engine, armed, call, owed, revived>>

\* shutdown
Shutdown ==
    /\ listening' = FALSE
    /\ engine' = FALSE
    /\ pipe' = [c \in Clients |-> IF pipe[c] = "none" THEN "none" ELSE "closing"]
    /\ UNCHANGED <<armed, call, owed, revived>>

\* The callback of a uv_async_t.
RunTask ==
    /\ LoopIsFree /\ tasks # <<>>
    /\ tasks' = Tail(tasks)
    /\ \/ Head(tasks) = "restart" /\ RestartAllBackends
       \/ Head(tasks) = "redeploy" /\ RedeployTypeDuckBackend
       \/ Head(tasks) = "terminate" /\ TerminateAllBackends
       \/ Head(tasks) = "shutdown" /\ Shutdown
    /\ done' = IF Head(tasks) = "shutdown" THEN done ELSE done + 1
    /\ UNCHANGED <<up, loop, startup, notes, queued, guiVars, messages, given, raced>>

\* A message of the engine with a notification, or the warning of a failed save.
Notify ==
    /\ LoopIsFree /\ engine /\ queued < MaxNotes
    /\ call' = "push" /\ owed' = 1
    /\ UNCHANGED <<up, loopVars, tasks, notes, queued, guiVars, messages, historyVars, raced>>

\* enqueueTrayNotification: under the lock the push ...
PushNote ==
    /\ Runs /\ call = "push"
    /\ queued' = queued + 1
    /\ notes' = Append(notes, queued')
    /\ call' = "post"
    /\ UNCHANGED <<up, loopVars, tasks, owed, guiVars, messages, historyVars, raced>>

\* Wrong: the handler is not left when its notifications are out.
PostNoteAgain ==
    /\ Runs /\ call = "post"
    /\ messages' = IF hwnd THEN Append(messages, "show") ELSE messages
    /\ owed' = owed - 1
    /\ call' = "push"
    /\ UNCHANGED <<up, loopVars, tasks, notes, queued, guiVars, historyVars, raced>>

\* ... and without it the message to the window, if hwnd_ is set by now.
PostNote ==
    /\ Runs /\ call = "post"
    /\ messages' = IF hwnd THEN Append(messages, "show") ELSE messages
    /\ owed' = owed - 1
    /\ call' = IF owed' = 0 THEN "free" ELSE "push"
    /\ UNCHANGED <<up, loopVars, tasks, notes, queued, guiVars, historyVars, raced>>

-----------------------------------------------------------------------------
(* The GUI thread.                                                         *)

HasWindow == gui \in {"creating", "loop", "flush", "closing"}

\* CreateWindowEx makes the window, which FindWindow finds from now on ...
CreateWindow ==
    /\ Runs /\ gui = "starting"
    /\ gui' = "creating"
    /\ UNCHANGED <<hwnd, batch, shutdownRequested, early, shown, messages, tasks, raced>>

\* ... and returns: hwnd_ is set and the message loop entered.
WindowCreated ==
    /\ Runs /\ gui = "creating"
    /\ gui' = "loop" /\ hwnd' = TRUE /\ early' = queued
    /\ UNCHANGED <<batch, shutdownRequested, shown, messages, tasks, raced>>

\* Wrong: all commands share one handle, whose sends libuv merges.
SendAsyncShared(task) ==
    /\ tasks' = IF tasks = <<>> THEN <<task>> ELSE tasks
    /\ raced' \in {FALSE, loop = "running"}

\* A new uv_async_t per command: uv_async_init changes the lists of the loop
\* from this thread, and what that does beside the running loop is undefined.
SendAsync(task) ==
    /\ tasks' = Append(tasks, task)
    /\ raced' \in {FALSE, loop = "running"}

Message(kind) ==
    /\ Runs /\ gui = "loop"
    /\ messages # <<>> /\ Head(messages) = kind
    /\ messages' = Tail(messages)

\* WM_COMMAND
OnCommand ==
    /\ \E kind \in Commands : Message(kind) /\ SendAsync(kind)
    /\ UNCHANGED <<gui, hwnd, batch, shutdownRequested, early, shown>>

\* Wrong: one notification per message.
FlushOneNotification ==
    /\ Message("show")
    /\ notes # <<>>
    /\ batch' = <<Head(notes)>> /\ notes' = Tail(notes)
    /\ gui' = "flush"
    /\ UNCHANGED <<hwnd, shutdownRequested, early, shown, tasks, raced>>

\* Wrong: the queue is copied, not swapped.
FlushCopiesTheQueue ==
    /\ Message("show")
    /\ batch' = notes /\ UNCHANGED notes
    /\ gui' = "flush"
    /\ UNCHANGED <<hwnd, shutdownRequested, early, shown, tasks, raced>>

\* flushTrayNotifications: the swap under the lock ...
FlushTrayNotifications ==
    /\ Message("show")
    /\ batch' = notes /\ notes' = <<>>
    /\ gui' = "flush"
    /\ UNCHANGED <<hwnd, shutdownRequested, early, shown, tasks, raced>>

\* ... and without it one balloon after the other.
ShowTrayNotification ==
    /\ Runs /\ gui = "flush"
    /\ \/ /\ batch # <<>>
          /\ shown' = Append(shown, Head(batch)) /\ batch' = Tail(batch)
          /\ UNCHANGED gui
       \/ batch = <<>> /\ gui' = "loop" /\ UNCHANGED <<shown, batch>>
    /\ UNCHANGED <<hwnd, shutdownRequested, early, messages, tasks, raced>>

\* requestShutdown ...
RequestShutdown ==
    /\ shutdownRequested' = TRUE
    /\ SendAsync("shutdown")
    /\ gui' = "closing"
    /\ UNCHANGED <<hwnd, batch, early, shown>>

\* WM_CLOSE
OnClose == Message("close") /\ RequestShutdown

\* ... then DestroyWindow: WM_DESTROY clears hwnd_, messages still posted are
\* lost, and WM_QUIT ends the message loop.
DestroyWindow ==
    /\ Runs /\ gui = "closing"
    /\ gui' = "ended" /\ hwnd' = FALSE /\ messages' = <<>>
    /\ UNCHANGED <<batch, shutdownRequested, early, shown, tasks, raced>>

GuiStep ==
    /\ \/ /\ CreateWindow \/ WindowCreated \/ OnCommand \/ ShowTrayNotification
             \/ OnClose \/ DestroyWindow
          /\ UNCHANGED notes
       \/ FlushTrayNotifications
    /\ UNCHANGED <<up, loopVars, call, owed, queued, historyVars>>

-----------------------------------------------------------------------------
(* The user and Windows.                                                   *)

\* WM_ENDSESSION, which is sent, not posted.
EndSession ==
    /\ Runs /\ gui = "loop"
    /\ RequestShutdown
    /\ UNCHANGED <<up, loopVars, noteVars, messages, historyVars>>

\* An entry of the tray menu.
Choose(kind) ==
    /\ Runs /\ gui = "loop" /\ given < MaxCommands
    /\ messages' = Append(messages, kind)
    /\ given' = given + 1
    /\ UNCHANGED <<up, loopVars, tasks, noteVars, guiVars, done, revived, raced>>

\* TypeDuckLauncher.exe /quit, or the installer's request to close.
Quit ==
    /\ Runs /\ HasWindow
    /\ \A i \in 1..Len(messages) : messages[i] # "close"
    /\ messages' = Append(messages, "close")
    /\ UNCHANGED <<up, loopVars, tasks, noteVars, guiVars, historyVars, raced>>

-----------------------------------------------------------------------------
LoopStep ==
    \/ ClientHandler \/ TimeoutHandler \/ CloseHandler \/ EngineHandler \/ StartupHandler
    \/ RunTask \/ Notify \/ PushNote \/ PostNote \/ LoopEnds

Next ==
    \/ Start \/ Crash \/ ProcessEnds
    \/ LoopStep \/ GuiStep
    \/ \E kind \in Commands : Choose(kind)
    \/ Quit \/ EndSession

Spec == Init /\ [][Next]_vars

\* The threads go on; the loop comes to every handle that is ready, whatever the
\* clients and the engine do in between.
FairSpec ==
    /\ Spec
    /\ WF_vars(GuiStep)
    /\ WF_vars(PushNote \/ PostNote)
    /\ SF_vars(RunTask)
    /\ SF_vars(StartupHandler)
    /\ SF_vars(CloseHandler)
    /\ WF_vars(LoopEnds)
    /\ WF_vars(ProcessEnds)

-----------------------------------------------------------------------------
(* Properties.                                                             *)

\* Every notification that is shown is shown once, and in the order in which the
\* loop thread enqueued them, whatever it enqueues while the GUI thread shows.
NotesInOrder == shown \o batch \o notes = [i \in 1..queued |-> i]

\* No notification waits for the next one: when the GUI thread has served its
\* messages, what is left in the queue was enqueued before hwnd_ was set.
NothingHeldBack ==
    gui = "loop" /\ call = "free" /\ (\A i \in 1..Len(messages) : messages[i] # "show")
        => \A i \in 1..Len(notes) : notes[i] <= early

PendingCommands(queue) ==
    Cardinality({i \in 1..Len(queue) : queue[i] \in Commands})

\* Each command of the menu is carried out once: none is merged with another one
\* on its way through the window and the loop.
CommandsAreNotMerged ==
    gui # "ended" => given = done + PendingCommands(messages) + PendingCommands(tasks)

\* A launcher that was asked to quit ends, with its engine, its clients and its
\* mutex, unless an engine is started after the shutdown.
QuitEnds == shutdownRequested ~> ~up \/ revived \/ raced

\* "terminate existing launcher process" (PipeServer.cpp, exec): /quit ends the
\* launcher whose window it finds.  Does not hold: a request timer that fires
\* while the pipes are closing starts the engine again, and its handles keep the
\* loop alive.
QuitIsObeyed == (\E i \in 1..Len(messages) : messages[i] = "close") ~> ~up \/ raced
=============================================================================
