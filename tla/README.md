# A verification project for TypeDuck for Windows

TypeDuck is a Cantonese input method for Windows. The text service runs inside
every application the user types into; the engine runs in one process of its
own; a launcher in between passes messages, guards every call with a timer and
keeps the user's preferences. This directory holds TLA+ models of that system,
the instances TLC checks, and proofs checked by TLAPS. `PROJECT.json` lists the
runs, the mutants that show each property can fail, the source lines each
definition stands for, and the hazards of the code.

## 1. The system

    host application                TypeDuckLauncher.exe                server.exe
    +----------------------+        +-----------------------------+     +--------+
    | TSF text service     | named  | PipeServer (one)            |stdin|        |
    |  Moqi::TextService   | pipe   |  PipeClient (one per pipe)  |---->| engine |
    |  Moqi::Client        |<------>|  BackendServer (one)        |<----|  (Go)  |
    |  CandidateWindow     |        |  libuv loop thread          |stdout        |
    +----------------------+        |  tray / GUI thread          |     +--------+
    TypeDuckSettings.exe <--------->+-------------+---------------+
            |  reads                              | reads, writes
            +----------> TypeDuckPreferences.json +

    installer (MoqiTsf.iss) --> TypeDuckSetupHelper.exe --> system directories,
                                the re-registration task, what is left for the reboot

| component | state | operations | how it meets the others |
|---|---|---|---|
| `Moqi::Client` (MoqiClient.cpp) | pipe handle, queue of asynchronous responses, poll timer, degraded interval, `shouldWaitConnection_`, `asyncFlushInProgress_` | connect and init, call, poll, flush, close | blocking `TransactNamedPipe` on the host's UI thread; edit sessions of the TSF |
| `Moqi::TextService` (MoqiTextService.cpp) | composition, candidates, preedit, what the popup was filled with, the suppress flag | key events, focus, profile, composition end, updates of the popup | calls the client, is updated from its answers |
| `CandidateWindow` (MoqiCandidateWindow.cpp) | items, preedit, anchor, DPI, the monitor of its layout, presses, mouse capture | fill, clear, lay out, place, page and candidate clicks | owned by the text service, driven by the mouse |
| `PipeClient` | backend pointer, pending sequence number, request timer | forward, refuse, answer settings requests, time out, close | one per pipe; callbacks of the loop |
| `BackendServer` | process, pipes, frame buffers, warning latch | start, restart, stop, deliver, route replies, push preferences, persist the input mode | child process over stdin/stdout |
| `PipeServer` | clients, backends, tray queue, window | accept, remove, restart all, redeploy, terminate, shut down | GUI thread posts to the loop through `uv_async_t`, the loop to the GUI thread through a locked queue |
| preferences (TypeDuckPreferences.cpp) | one JSON file and its temp file | load with a verdict, merge, save | called by the launcher; read by the settings app and the text service |
| settings app | the dialog's preferences, "unwritable" flag | open, confirm, cancel, `/apply-settings` | reads the file; writes only through the launcher |
| frame codec (ProtoFraming.h) | bytes not yet framed, failure flag | append, next frame | both pipes |
| setup helper and installer | system DLLs, staged copies, operations left for the reboot, registrations, the task | install, re-register, uninstall | run before, after and across reboots |

What is hard about it: a host thread blocked in `TransactNamedPipe` has no
timeout of its own; replies, unsolicited messages, errors and timeouts race for
one pipe; the engine is replaced under the clients by crashes, other clients'
timeouts and the tray; handlers of the text service are re-entered from their
own calls; a popup is filled, placed and clicked by handlers that each renew a
part of its state; the preferences file is read and rewritten by several parties
while it may be locked or torn; the launcher has two threads and many handles,
and may die at any moment; an upgrade meets DLLs in use, and the machine goes
down in the middle of it.

What makes each part correct:

- bridge: every blocked caller is released, by its own answer or an error, a
  request is executed at most once, old answers never surface, a fresh engine
  reads the saved preferences before anything else, closed clients are freed;
- launcher: notifications are shown once, in order and without waiting for
  another; commands are carried out once; a launcher asked to quit ends;
- preferences: the file changes by whole saves only, keeps what it was not asked
  to change, is never written over while its contents are unknown; a mode the
  engine reported is saved or the user knows; one warning per outage;
- text service: the popup shows what the text service holds; flags that keep
  others out are given back on every path (but that of an exception, section 6);
  every call returns; a reset calls nobody; a lost connection is found again;
- candidate window: sized for the monitor it stands on and no wider than it can
  be; a press lasts as long as its gesture;
- setup: what was reported as installed is in place and registered, what waits
  for a restart will be, what was removed stays removed, over any reboots (but
  for what an older install has left to the boot, and for registrations that
  survive an uninstall, section 6).

## 2. The modules

| module | what it is |
|---|---|
| `LauncherBridge` | clients, launcher and engine: connections, requests, timers, replies, restarts |
| `RpcContract` | what a caller may rely on: asked, executed at most once, answered or over |
| `LauncherLife` | the launcher's two threads, from start-up to the end of the process |
| `PreferencesDocuments` | what the file can hold, the verdict of a load, the merge of a save |
| `PreferencesFile` | who reads and writes the file, file operation by file operation |
| `PreferencesStore` | what the file promises: whole changes of the mode or of the settings |
| `TextService` | `Moqi::Client` from within, with the composition and the content of the popup |
| `CandidateWindow` | the popup: place, layout, content, mouse |
| `SetupHelper` | installing, upgrading and removing, over failures and reboots |
| `*Proofs` | theorems about the module of that name |
| `LauncherContractProofs` | one call at a time, and the refinement of `RpcContract`, on top of `LauncherBridgeProofs` |
| `TextCallsProofs` | how calls are nested in the text service, on top of `TextServiceProofs` |
| `MC*` | model values, symmetry and inputs for TLC |

`LauncherBridge` refines `RpcContract`, and `PreferencesFile` refines
`PreferencesStore` (`INSTANCE ... WITH`, the abstract specification as a
property). `LauncherBridge` composes many text services with one launcher and
one engine and takes from the text service only its end of the pipe;
`TextService` opens one of them up; `CandidateWindow` in turn opens up its popup,
of which `TextService` knows the content alone.

### LauncherBridge

One atomic action per handler: all handlers of the launcher run on the libuv
loop thread, one after the other, to their end. `HandleClientMessage` is the
read callback of a pipe with everything it calls (refuse a frame that does not
parse, refuse or drop what comes before init, answer a settings request,
forward), `BackendReply` is `handleBackendReply` for one frame, `Timeout` is
`onRequestTimeout`, `BackendReadError` is `onReadError` with the notification of
all clients and the restart. The client end is `callRpcMethod` cut at its
blocking call: `Call` is everything up to the write, `Accept` and `Reject` what
happens with the messages that are there when `TransactNamedPipe` returns,
`Poll`, `Flush` and `Busy` what can happen between calls. `SettingsAccept` and
`SettingsFinish` are `transactLauncher` of the settings app.

State: `cst`, `ready`, `next`, `doomed` are fields of `Moqi::Client`; `up` and
`down` the two directions of a pipe; `pipe`, `bound`, `pending`, `armed` the
fields of a `PipeClient` (`backend_`, `pendingSeqNum_`, `waitResponseTimer_`) and
the life of its handle; `proc`, `gen`, `stdin`, `stdout` those of the
`BackendServer`; `alive`, `known`, `restored` the engine's own. `executed` is a
history variable.

The engine is not part of the repository. It may serve a request with a reply or
an error, never answer, send unasked messages to clients it has a session with
(sequence number 0), write something that does not parse, or exit, at any time.
A connection of `Foreign` is a peer of another build, which does not keep to
init-first and whose profile is unknown.

### LauncherLife

The same process, seen along its life; a client is reduced to its handle and its
timer. `Start` is `exec` of the first instance, `LoopEnds` the return of
`uv_run` (no active handle), `ProcessEnds` the join of both threads. The loop
thread's handlers are atomic except for `enqueueTrayNotification`, which is two
steps: the push under the lock (`PushNote`) and the message to the window
(`PostNote`). The GUI thread is a sequence of its own: `CreateWindow` and
`WindowCreated` (between them the window exists and `hwnd_` is not set), one
message at a time, `FlushTrayNotifications` (the swap under the lock) and
`ShowTrayNotification` (each balloon, without it). `SendAsync` is
`uv_async_init` with `uv_async_send`: initialising a handle beside the running
loop is a data race, and `raced` stands for whatever it does; the model stops
there. `queued`, `early`, `shown`, `given`, `done` and `revived` are history.

### PreferencesFile

The launcher's two writers, `persistTypeDuckAsciiMode` and
`handleTypeDuckSettingsRequest`, run to their end on the loop thread, but each is
a sequence of file operations with other processes and crashes in between. The
handler is therefore a little program: `at` is its next file operation, `job`
what it was asked to do. `PersistLoad` or `UpdateLoad` reads the current values,
`ReadBase`, `WriteTemp` and `Rename` are `savePreferences`, `PushUpdate` is
`applyTypeDuckPreferences`. Each operation can fail as the code provides: a read
ends in one of five verdicts, a failed write leaves the temp file as it was, gone
or torn, a rename can be refused. `Crash` may come anywhere. The settings window
(`OpenWindow`, `Confirm`, `Cancel`), `/apply-settings` (`ApplySettings`) and the
engine (`StartEngine`, `EngineExit`, `Report`) step in between.

A document is abstracted to what a reader can tell: absent, garbage, an object,
or an object the parser gives up on; its settings, one opaque value; its
`asciiMode`; whether it has keys this build does not model; whether all values
were in range.

The handler of a mode change ends in a `catch (...)`: `Swallow` is an exception
anywhere in it, of which nobody hears, also one in the warning itself, after the
latch was set. `reported`, `told` and `outcome` are history variables: `told` is
what has become of the warning since a mode was last saved (none due, queued,
queued before settings were saved, lost in an exception), `outcome` how the last
handler of a mode change left the user (told, unsaid because the latch was on,
thrown). Both are apart from the latch, `latch`, which only decides whether to
warn. What becomes of a queued notification is in `LauncherLife`.

### TextService

Everything runs on the host's one thread, but calls are nested: ending a
composition calls the engine from the middle of a response, and that call may
read and apply others. `todo` is the stack of what is still to be done, the next
first; an action takes its head and may put items in front (`Do`). A call is
`rpc` (connect if need be), `poll` (what lies in the pipe), `send`
(`TransactNamedPipe`), `flush` and `answer` or `broken`; `connected` is the end
of a handshake, whose `init` and `onActivate` are themselves calls; `flush` and
`pop` are `flushPendingAsyncResponses`; `list`, `commit` and `compose` the parts
of `updateStatus` in the order of the code; `terminate` and `ended` the two
halves of `endComposition`. An edit session may be granted at once, put off
(`deferred`) or refused. `Fail` is what every failure does: degrade, close, reset,
and end the composition where there is a session for it. A response that opens
the keyboard ends in `keyboard`, in an edit session or not: if the compartment
was closed, TSF reports the change before `setKeyboardOpen` returns, and the two
callbacks are calls to the engine.

A response whose page number, page size or count is above `INT_MAX` makes
`asInt` throw. `Throwing` is the moment; nothing between the throw and a `catch`
is carried out. `CaughtInCall` is the `catch` of the nearest `callRpcMethod`
under way (`Trying`), which closes the pipe and resets the text service without
marking it degraded; `CaughtAbove` is that of a key handler or of
`ensureClientForCurrentProfile` (`guarded`), which close the client, or nobody's.
The flags the abandoned calls would have given back stay as they were; `escaped`,
a history variable, names them until the client is released.

`view` is what the text service holds of composition and popup; its updates are
functions, in the order of the code. `inline` and `drawn` are the host's: whether
it takes the preedit inline and whether it lets the text service draw. The
content the popup was last filled with (`cached`, `valid`) is kept apart from
what the window displays (`shown`), since the comparison of the two is what saves
a repaint. Answers and messages are records of the few members the handlers look
at.

Undefined behaviour is a state of its own, in which the model stops:
`pop_front` on a queue that was emptied by what it applied, and an edit session
that runs after its client was freed.

### CandidateWindow

`win` is the popup with the members the text service keeps for it; an action is
a whole handler, composed of the functions the code calls: `ShowCandidates`,
`UpdateCandidates`, `UpdateCandidatesWindow`, `UpdateCandidatesWithoutSession`,
`HideCandidates`. `Respond` applies a response with an edit session (`Answered`:
candidates, composition and cursor in the code's order), `RespondBare` one
without. A handler meets the monitor of the caret and the monitor of the owner
window, which may not be found (`Env`). A layout is a function of the page, the
preedit, the DPI and the work area (`Layout`, widths only), so the state holds
what it was made of. The mouse steps are `OnLButtonDown`, `OnLButtonUp`,
`OnMouseLeave`, `OnMouseWheel` and `LoseCapture`; a hit test is a member of
`Targets`. `excuses` (why the size may lag) and `held` (the gesture that began on
the popup) are history.

### SetupHelper

The helper is a little program, `at` its next file operation and `bit` the DLL it
is about: copy, else rename away and leave the old one for deletion at the boot,
else stage a copy for replacement at the boot. Each operation fails as the code
provides, undoing included; `Boot` may come anywhere and does what Windows was
asked to do, then starts the task, which is `Reregister`. `StartInstall` and
`StartUninstall` are the installer's part. `registered` are the DLLs with entries
in the registry: the helper ignores what `regsvr32 /u` returns, and
`PurgeResiduals` is the installer's purge, which sees the 64-bit view only and
may fail unseen. `want`, `said` and `overtaken` are history: what was last
installed, what the user was told, and in whose place a boot has since put an
older build, from a replacement that an earlier install had left to it.

## 3. The runs

| run | instance | what it shows |
|---|---|---|
| `bridge_two` | 2 text services, 2 requests each, 2 processes | no caller is stranded, preferences first, the contract is implemented |
| `bridge_deep` | 1 text service, 4 requests, 3 processes, 2 queued messages | late answers never surface or stop a timer; all liveness |
| `bridge_peers` | a text service, a settings app and a foreign peer | the two inductive invariants of the proofs, types included: every request is the last one of its caller, and one call of a connection is under way at a time |
| `file_safety` | 2 settings, both modes, 2 attempts, a file of each kind to begin with | the store is implemented; a mode is saved or told, or its silence is one of the two the code leaves; no nagging; what is saved reaches the engine, or defaults at its start; updates are answered |
| `setup_upgrade` | 2 builds | the inductive invariant; installed is in place and a restart completes, but for DLLs a boot has overtaken; removed stays removed |
| `text_service` | 1 list; the preedit in the popup, which the text service draws; 3 answers, 3 unasked messages (a refusal, an exception, the keyboard), 1 session put off | the popup is current; only the code's own ends of a composition are suppressed; calls are nested in one way only, resets are quiet; flags are owned, and released but for an exception |
| `text_live` | no popup; 3 answers, 1 unasked message | calls return; the launcher is found again, but for an exception in the handshake |
| `text_failure` | every kind of host, the answers of `text_service` | a disagreement, section 6 |
| `text_reconnect` | as `text_live` | a defect, section 6 |
| `launcher_life` | 1 client, 2 commands | notifications in order and none held back, commands not merged, a shutdown ends the launcher |
| `launcher_quit` | 1 client, 1 command | a defect, section 6 |
| `candidate_window` | 3 monitors (wide, narrow, dense), 2 pages, a preedit or none | sized for its monitor, sound layout, shows what is held, a gesture is tracked |

Bounds. `MaxSeq` bounds the requests of a connection, `MaxGen` the processes,
`MaxQueue` the optional (unsolicited, tray) messages in a queue; requests,
replies and errors are not bounded by it. Two connections suffice for what one
client can do to another, since a handler touches its own connection, all
attached ones, or none; they are interchangeable, hence the symmetry. Three
processes and four requests let an answer be late by more than one request and
one process. Two values of the settings tell a kept value from an overwritten
one, and one of them is the default. The file is found absent, torn, too deep to
parse, or as an object with settings, keys and values of another build
(`OneOfEach`); every other object the launcher makes of these by its own saves.
Two attempts are a first and a last one, which is all the handler tells apart;
the proofs are for any number, the code's three included, and for any file. Two
builds are an old and a new one. In the text service one message under way and
one session put off are enough for every nesting: a second message meets a flush
in progress whether it was read before or after. The answers are a refusal, an
exception and one that commits, composes, offers candidates and opens the
keyboard, all that calls back at once; an unasked message needs of these only
the keyboard. `text_service` and `text_live` have one kind of host each, since
hosts do not mix: one whose popup holds all there is to hold, and one without a
popup where calls must end; the proofs are for every kind. One client is enough
for the launcher's life: handles of several close independently; `MaxNotes`
stops only spontaneous notifications, those of a redeployment (up to two each)
come on top. Three monitors are two of one DPI with different widths, and one of
another DPI; the pages are one that must be cut on the narrow monitor and one
shorter than the cursor, which every response names, so that the memory of the
one applied last is asked each time.

Deadlock is checked in the runs of `PreferencesFile`, `SetupHelper` and
`CandidateWindow`. `CHECK_DEADLOCK FALSE` stands where the system may stop: in
the bridge a bounded run ends when all clients are gone; the text service and
the launcher's life stop at undefined behaviour.

Fairness. In the bridge it is assumed of the libuv loop, which serves every ready
handle and every expired timer, and of the kernel, which lets
`TransactNamedPipe` return once there is a message or the pipe is broken (weak
fairness of each handler). Nothing is assumed of the engine, the hosts, the
tray and the user. In `PreferencesFile` the handler that runs goes on (weak
fairness of `FileStep`) and the loop comes to each readable pipe even though
other handlers run and crashes happen in between (strong fairness of
`BeginUpdate`); reads and writes may fail for ever. In `LauncherLife` both
threads go on, and the loop comes to each ready handle whatever clients and
engine do (strong, since other handlers may disable it for a while). In
`TextService` a call under way goes on (weak fairness of `Step`), which is all
`HandlerEnds` needs; `Reconnects` also needs a user who types after a pause
longer than the retry delay, and a launcher that is there when looked for
(`LiveSpec`): one who types through every pause, or a launcher that is never
there, is not reconnected.

## 4. The proofs

All are for every value of the constants, under the named assumptions of the
modules, which TLC evaluates for its instances.

`LauncherBridgeProofs`:

- `TypeCorrect`: one lemma per group of variables and step.
- `PreferencesComeFirst`: `PrefsFirst` is inductive with the types; only `Serve`
  takes something off `stdin`, and what it takes first is the push.
- `NobodyIsStranded`: `NoStrandedRequest` is not inductive. A handler answers the
  request it reads, so one must know that this is the one the caller waits for
  (`LastIsCurrent`), that a caller on an unbound connection waits for init, and
  that no reply of the engine can reach, and no stale check can spare, an unbound
  connection (`UnboundIsUnknown`). The four together are `InductiveInv`, and
  `InductiveInvariant` is the theorem.

`LauncherContractProofs`:

- `OneCallUnderWay`: `OneCallAtATime` is inductive with the types. Over all the
  places between a text service and the engine (`up`, `stdin`, the engine,
  `stdout`, `down`) the request of the current call is in at most one, nothing
  that answers it is there before it was executed, it was executed at most once,
  and a reply in `down` is the first message that answers. A step does one of ten
  things to what a connection sees (`StepSeen`), and each of the ten keeps the
  four parts; no action is looked at twice.
- `NoReplyIsLate` and `TimersAwaitTheAnswer` follow. The second needs, besides,
  that a timer whose request has the number 0, which switches the stale check of
  `writeBackendResponse` off, is that of the first request of a connection:
  nothing older can then come (`UnnumberedTimer`).
- `LauncherImplementsContract`: the refinement, connection by connection. Of the
  history `executed` a step counts the one request that was served
  (`CountOfUnique`) and leaves the other connections' counts alone
  (`OthersStay`); returning an answer comes after the execution by
  `OneCallAtATime`. It is the contract's safety; that calls end is liveness.

`PreferencesFileProofs`:

- `TypeCorrect`.
- `SavesAreCurrent`: `SaveInv` is inductive. Since handlers do not overlap, the
  file stands still between the first read of a handler and its rename, so the
  half of the document the handler was not asked to change is still what the
  file holds, and the merge base is the file.
- `FileIsAStore`: the refinement. Only `Rename` changes the file, and by
  `SaveInv` it is the store's `SaveMode` or `SaveSettings`; every other step
  stutters.
- `EngineGetsWhatIsSaved`: from `SaveInv` at the point of the push, and from what
  a load can give (`LoadsAreSavedOrInvented`) at the start of an engine.
- `ModeIsSavedOrTold`: from `ModeInv`, which says what is owed while the handler
  runs (the mode it was called with) and that nothing is owed otherwise. A
  settings update keeps the promise because it saves the mode it finds. A handler
  that gives up ends in a warning, or finds the latch on, and then `Warned` says
  why: the latch is on exactly when a warning of this run of failures was queued,
  or one of an earlier run that a settings update ended, or one that was lost.
  The last two, and an exception, are the exceptions the theorem names.
- `NobodyIsNagged`: from `Warned` as well.

`SetupHelperProofs`: `SetupInvariant`, by one lemma per step of the helper; the
three promises and the types follow. None is inductive: the copy loop must have
put in place, or left to the boot and then remembered in `reboot_required`, each
DLL it has passed (`InstallInv`). A DLL that a boot has put in the place of a
newer one (`overtaken`) is an exception of the first two theorems: the code does
not withdraw what an older install has left to the boot. `RemovalIsFinal` is
about the DLLs and the task, and says nothing of registrations, which can
survive.

`TextServiceProofs`: `PopupIsCurrent` from `Sound` and `Fresh`, which every
function on the view keeps (a lemma each): what is remembered for the comparison
is what the window displays, but for the preedit, which is written at once.
`NothingElseIsSuppressed`, `FlagIsReleased` and `FlagIsOwned` are about the
stack: each step replaces the head by other items, so the rest of the stack
keeps what it promises; the flush flag is set only by the step that puts its
release on the stack or in a session. An exception drops the items up to the
`catch`, and with them releases that were promised: `escaped` remembers which,
and the two theorems about flags name it as their exception.

`TextCallsProofs`: `CallsStayNested`, `ResetsAreQuiet` and `RecursionIsBounded`,
all from `CallsAreNested`, which TLC checks in `text_service`. Neither of the
two properties is inductive: that at most two ends of a composition are under
way follows only from what may stand above an end. `CallsAreNested` says it in
three parts. Above an end there are only items of the calls that `terminate`
makes (`Inner`), or else, between the two, the one `flushed` that gives the flag
back (`EndsApart`). Above that `flushed` nothing takes or gives away the flag
(`FlagHeldOnce`). The end of a reset has only its own first half above it; the
pop of a flush without a session that, and what opening the keyboard calls
(`QuietComesFirst`). An exception cuts the stack down to what lies below a
`catch`, and what is left of a well nested stack is well nested (`CatchNests`).
A step replaces the head of `todo` by items that depend on the head alone
(`Fits`, one lemma per kind of head, `HandlingFits`), and each part is kept by
every replacement that fits; what a host's call, a timer or a postponed session
puts on an empty stack satisfies them by itself. Two ends always have the
`flushed` between them, and there is one of it: a third end has no place.

`LauncherLifeProofs`: `ShownInOrder` from the batch being empty whenever the GUI
thread takes another; `NothingIsHeldBack` from what is owed to each queued
notification: a "show" still in the window's queue, or the loop thread between
its push and its post; `EachCommandCounts` from lemmas on what an append and a
tail make of the number of commands in a queue (a bijection of their places), so
that each step moves one command, or none.

`CandidateWindowProofs`: one lemma per function on the popup, then per handler,
that it keeps `Good`: the layout is of what the popup holds, for the monitor of
its anchor, and content that was applied is still there. The page may be ahead
of the popup within a handler, hence `NearlyGood`. Apart from it, every function
keeps the gesture (`SameGesture`): a press on a candidate is dropped only
without the capture; one on a page button also when the pointer leaves, so of it
only one direction is stated. From `WindowInv` follow `TypeCorrect`,
`AlwaysSizedForItsMonitor`, `AlwaysShowsWhatIsHeld` and
`GestureIsAlwaysTracked`. `LayoutIsAlwaysSound` is about the operators: the
layout of any page is sound (`LayoutFits`), and every layout the popup has is
one of `Layouts`, since a popup that is there has the DPI of a monitor
(`Scaled`). Sums over a page are a recursive function, `Total`, which needs
induction. The induction theorems of the library take an operator, which the
provers cannot instantiate; but that a non-empty set of numbers has a least
member (`LeastOf`, from `WFMin`) needs none, and induction over `0..n` as
membership of a set (`Climb`) follows from it. So the function that `Total`
chooses exists (`SumsExist`), its sums bound their parts and grow by what each
place grows by, and the cap that `TextWidths` takes from a set exists
(`MaxIsThere`).

Every invariant and every action property that a run checks as "pass" is a
theorem. Model-checked only: the liveness properties `ClosedClientsAreFreed`,
`ReleasesCallers`, `UpdatesAreAnswered`, `HandlerEnds`, `Reconnects` and
`QuitEnds`, because fairness and `ENABLED` are outside what TLAPS proves here. The
three runs that expect a violation (`text_failure`, `text_reconnect`,
`launcher_quit`) are counterexamples and have nothing to prove.

## 5. What is not modelled, and why

- Frame codec: `LauncherBridge` takes whole frames, and a violation where the
  code reports one. Reassembly of partial reads is a sequential class whose cases
  are in `Tests/TypeDuckProtocol/ProtocolRecovery_test.cpp`; `moqi.pb.*` is
  generated.
- Text service: the message window, language buttons, preserved keys other than
  as calls, fonts, colours and selection keys; reloads of the display preferences.
  Of exceptions, those of `asInt` are modelled; those that come from anywhere
  (`bad_alloc`, and structured exceptions where a handler has an `__except`) are
  not, nor is `activationInProgress_`, which a throw inside `onActivate` leaves set
  (MoqiClient.cpp:1359-1367).
- Bridge: a second report of the end of the engine's output. A restart closes all
  three pipes in the handler of the first one.
- Candidate window: heights and painting, the dragging of the window itself, the
  throttling of moves, a failing `GetWindowDC`, the methods of
  `ITfCandidateListUIElement` and hosts for which the popup is not drawn,
  `ensureCandidateWindowValid`, reloads of the display preferences.
- Settings app: its controls, the deployment it asks for after an update, the
  single-instance mutex.
- Launcher: `backends.json`, the log file, the drawing of the menu.
- Candidate data (parsing of dictionary rows), COM registration and the module
  entry points, pipe security, the About dialog, the preview program, scripts and
  the probe: straight-line code or calls into Windows, without a protocol of
  their own.
- libIME2 is an empty submodule and the engine an external program; they are
  what the code here does with them.

## 6. Where the code and its words differ

Shown by a run, and quoted in `PROJECT.json` under `findings`:

- `FailureClearsTypingState` (MoqiClient.cpp:2014): a failure found in the queue
  resets the text service, and the answer being handled is applied after that;
  and outside an edit session a failure leaves the composition.
- `LaterReconnectAllowed` (MoqiClient.cpp:2169): the handshake clears
  `shouldWaitConnection_` and sets it again on its normal exits only (2173, 2188).
  An answer to `init` or `onActivate` with a number above `INT_MAX` leaves by an
  exception (1169-1180), which the call that connects catches (2026-2036); every
  later call then returns at 1963, until the client is released.
- `QuitIsObeyed` (PipeServer.cpp:334): a request timer that fires between
  `uv_close` and its callback starts the engine again, whose handles keep a
  launcher alive that has no window and no pipe.

Met while modelling, and not the subject of a run of their own; where a property
has to name one as its exception, it is given:

- An engine that starts while the file cannot be read is given defaults as if they
  were saved (BackendServer.cpp:344; the comment at 125 says that the saved
  preferences are restored): an exception of `UpdatePushesWhatIsSaved`.
- A save by a settings update ends a run of failures without re-arming the
  warning (BackendServer.cpp:260; the comment at 247-249 wants a later, unrelated
  run to warn again), and the `catch (...)` at 336-340 ends the handler of a mode
  change without a word: the two exceptions of `ModeSavedOrTold`.
- An uninstall that reports success can leave the 32-bit DLL registered: the
  results of both `regsvr32 /u` are ignored (SetupHelper.cpp:790), and the
  installer's purge (MoqiTsf.iss:226-241) deletes the class in the 64-bit view
  only and does not look at the result. `Test-TypeDuckInstallerSkeleton.ps1:174`
  says "Uninstall must purge TypeDuck COM/TSF registry residue."
- An exception out of a postponed edit session leaves `asyncFlushInProgress_` set
  (MoqiClient.cpp:1878-1881), and no poll flushes again until the client is
  released: the exception of `FlushFlagIsOwned`.
- A message applied in a flush without a session can open the keyboard
  (MoqiClient.cpp:1155), whose callbacks call the engine from the middle of the
  flush: the exception of `QuietWhereItMustBe`.
- A restart from the tray tells clients that wait nothing (PipeServer.cpp:247;
  `.planning` 04-02-PLAN.md:32 wants every waiter answered); their timers do.
- A timeout restarts the engine that runs now, which may be the healthy successor
  of the one the request went to (PipeClient.cpp:471).
- `/apply-settings` sends back the settings it read before the user confirmed
  others (TypeDuckSettingsWindow.cpp:367).
- A replacement left for the boot by an earlier install is not withdrawn when a
  later one copies in place (SetupHelper.cpp:492). The boot then puts the older
  build back: this is what `overtaken` excuses in `InstalledIsInPlace` and
  `RestartWillComplete`, which do not cover such an upgrade.
- `FrameBuffer` counts a chunk that ends one frame and begins the next against
  the limit of one (ProtoFraming.h:42, and the test's lines 145-151); the client
  clears the buffer after a violation and reads on.
- `pop_front` on an empty deque (MoqiClient.cpp:1855) and an edit session that
  holds a freed client (1878) are reachable: states of `undefined`. In a flush
  without a session the first needs a keyboard that was opened.
- Before `CreateWindowEx`, `/quit` finds no window and does nothing; the start-up
  timer may delay the end of a launcher by 100 ms; a notification enqueued before
  `hwnd_` is set waits for the next one (`early`).
- A page filled without an edit session is anchored to the fallback, but the
  popup keeps its place and its DPI until the next session
  (MoqiTextService.cpp:1170-1221): the excuse "bare".
- When `GetWindowDC` fails, the content counts as applied and is not measured
  again for its own sake; the layout is, since `layoutMonitor_` is left alone
  (MoqiCandidateWindow.cpp:1064, 1080-1086).
- A press on a page button is forgotten in `OnMouseLeave` while its gesture goes
  on, one on a candidate is not.
- When another window takes the mouse capture, the press stays until the next
  release (`held = "lost"`); a click passes an index of the page it was made on,
  whatever page is there when it arrives; the wheel does not ask whether there is
  a page to turn to; `clear` leaves `currentSel_`, which can exceed the count.

## 7. Plan

1. Proofs: the safety steps on which the liveness properties rest (what an action
   under fairness has to change, and that nothing but it can undo it), stated as
   action properties that TLC checks as well.
2. `TextService` as a refinement of the client actions of `LauncherBridge`, so
   that the two share one definition of what a client may do to its pipe.
3. The message window and the language buttons of the text service.
4. `FrameBuffer`: reassembly over partial reads against the sequence of frames
   sent, the limits, the sticky violation.
