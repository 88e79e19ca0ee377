--------------------------- MODULE LauncherBridge ---------------------------
(***************************************************************************)
(* The launcher between the text services and the engine process.          *)
(*                                                                         *)
(* A text service talks to TypeDuckLauncher.exe over a named pipe with a   *)
(* blocking TransactNamedPipe (MoqiClient.cpp).  The launcher keeps one    *)
(* PipeClient per pipe instance and one BackendServer, whose child process *)
(* (server.exe, not in this repository) is fed over stdin and answers over *)
(* stdout.  All launcher handlers run on one libuv loop thread, so each is *)
(* one atomic action here; clients, engine and timers interleave freely.   *)
(***************************************************************************)
EXTENDS Integers, Sequences, FiniteSets

CONSTANTS
    Conns,         \* pipe instances; each gets a PipeClient with a fresh uuid
    SettingsApps,  \* the connections opened by TypeDuckSettings.exe
    Foreign,       \* peers of another build: an unknown profile GUID, calls
                   \* ahead of init, frames that do not parse
    Launcher,      \* the sender of the launcher's own messages to the engine
    MaxSeq,        \* bound: requests carry the numbers 0 .. MaxSeq-1
    MaxGen,        \* bound: uv_spawn succeeds at most MaxGen times
    MaxQueue       \* bound: optional messages are added below this length

ASSUME ConnsAssumption ==
    /\ SettingsApps \subseteq Conns
    /\ Foreign \subseteq Conns \ SettingsApps
    /\ Launcher \notin Conns

ASSUME BoundsAssumption ==
    /\ MaxSeq \in Nat \ {0}
    /\ MaxGen \in Nat
    /\ MaxQueue \in Nat

VARIABLES
    cst,        \* client end: "none", "idle", "waiting" (in TransactNamedPipe), "closed"
    ready,      \* client end: the init handshake on this connection succeeded
    next,       \* client end: nextSeqNum_; the last request carries next-1
    doomed,     \* client end: a failure waits in pendingAsyncResponses_
    up,         \* requests written by the client, not yet read by the launcher
    down,       \* responses written by the launcher, not yet read by the client
    pipe,       \* PipeClient: "none", "open", "closing" (uv_close called), "gone"
    bound,      \* PipeClient: backend_ # nullptr
    pending,    \* PipeClient: pendingSeqNum_
    armed,      \* PipeClient: waitResponseTimer_ is running
    listening,  \* PipeServer: serverPipe_ accepts connections
    proc,       \* BackendServer: process_ is null ("down") or not ("up")
    gen,        \* how many processes were spawned; names the current one
    stdin,      \* messages the current process has not read yet
    stdout,     \* messages of the current process the launcher has not read yet
    alive,      \* engine: the current process has not exited
    known,      \* engine: the clients with a session in the current process
    restored,   \* engine: the current process has read the saved preferences
    executed    \* history: the requests of each connection the engine executed

clientVars   == <<cst, ready, next, doomed>>
timerVars    == <<pending, armed>>
backendVars  == <<proc, gen, stdin, stdout, alive, known, restored>>
historyVars  == <<executed>>
vars == <<clientVars, up, down, pipe, bound, timerVars, listening,
          backendVars, historyVars>>

ClientMethods   == {"init", "call", "settings", "close", "garbled"}
LauncherMethods == {"prefs", "deploy"}

Seqs      == 0 .. MaxSeq
Requests  == [from : Conns, method : ClientMethods, seq : Seqs]
                 \cup [from : {Launcher}, method : LauncherMethods, seq : {0}]
Responses == [kind : {"reply", "async", "error"}, seq : Seqs]
Outputs   == [to : Conns, kind : {"reply", "async", "error", "garbage"}, seq : Seqs]

ClientTypeOK ==
    /\ cst \in [Conns -> {"none", "idle", "waiting", "closed"}]
    /\ ready \in [Conns -> BOOLEAN]
    /\ next \in [Conns -> Seqs]
    /\ doomed \in [Conns -> BOOLEAN]
    /\ up \in [Conns -> Seq(Requests)]
    /\ down \in [Conns -> Seq(Responses)]

PipeTypeOK ==
    /\ pipe \in [Conns -> {"none", "open", "closing", "gone"}]
    /\ bound \in [Conns -> BOOLEAN]
    /\ pending \in [Conns -> Seqs]
    /\ armed \in [Conns -> BOOLEAN]
    /\ listening \in BOOLEAN

BackendTypeOK ==
    /\ proc \in {"down", "up"}
    /\ gen \in 0 .. MaxGen
    /\ stdin \in Seq(Requests)
    /\ stdout \in Seq(Outputs)
    /\ alive \in BOOLEAN
    /\ known \in SUBSET Conns
    /\ restored \in BOOLEAN

HistoryTypeOK == executed \in [Conns -> Seq(Seqs)]

TypeOK == ClientTypeOK /\ PipeTypeOK /\ BackendTypeOK /\ HistoryTypeOK

Init ==
    /\ cst = [k \in Conns |-> "none"]
    /\ ready = [k \in Conns |-> FALSE]
    /\ next = [k \in Conns |-> 0]
    /\ doomed = [k \in Conns |-> FALSE]
    /\ up = [k \in Conns |-> <<>>]
    /\ down = [k \in Conns |-> <<>>]
    /\ pipe = [k \in Conns |-> "none"]
    /\ bound = [k \in Conns |-> FALSE]
    /\ pending = [k \in Conns |-> 0]
    /\ armed = [k \in Conns |-> FALSE]
    /\ listening = TRUE
    /\ proc = "down"
    /\ gen = 0
    /\ stdin = <<>>
    /\ stdout = <<>>
    /\ alive = FALSE
    /\ known = {}
    /\ restored = FALSE
    /\ executed = [k \in Conns |-> <<>>]

Request(k, method, seq) == [from |-> k, method |-> method, seq |-> seq]

\* pushSavedTypeDuckPreferences: the settings update with client_id "settings".
Push == Request(Launcher, "prefs", 0)

\* The connections in PipeServer::clients_ that use the backend.
Attached == {k \in Conns : pipe[k] \in {"open", "closing"} /\ bound[k]}

-----------------------------------------------------------------------------
(* The backend process.                                                    *)

SpawnOutcomes == IF gen < MaxGen THEN BOOLEAN ELSE {FALSE}

\* startProcess followed by the writes of its caller; uv_spawn may fail.
StartProcess(spawned, firstWrites) ==
    /\ proc' = IF spawned THEN "up" ELSE "down"
    /\ gen' = IF spawned THEN gen + 1 ELSE gen
    /\ alive' = spawned
    /\ stdin' = IF spawned THEN firstWrites ELSE <<>>
    /\ stdout' = <<>>
    /\ known' = {}
    /\ restored' = FALSE

\* Wrong: a recovery that forgets to restore the preferences.
RestartUnrestored == \E spawned \in SpawnOutcomes : StartProcess(spawned, <<>>)

\* restartProcess: the old pipes are closed with everything unread in them.
RestartProcess ==
    \E spawned \in SpawnOutcomes : StartProcess(spawned, <<Push>>)

\* terminateProcess(true), without the notification of the clients.
StopProcess == StartProcess(FALSE, <<>>)

\* Write m to the engine, starting the process when there is none; whatever
\* starts it, the saved preferences are the first thing it reads.
Deliver(m, spawned) ==
    \/ /\ proc = "up"
       /\ stdin' = Append(stdin, m)
       /\ UNCHANGED <<proc, gen, stdout, alive, known, restored>>
    \/ /\ proc = "down"
       /\ StartProcess(spawned, IF m = Push THEN <<Push>> ELSE <<Push, m>>)

Delivered(spawned) == proc = "up" \/ spawned

-----------------------------------------------------------------------------
(* Writing to a client.                                                    *)

\* A write reaches the client only while both ends of the pipe are open.
Send(k, m) ==
    IF pipe[k] = "open" /\ cst[k] # "closed" THEN Append(down[k], m) ELSE down[k]

ErrorFor(k, seq) ==
    [kind |-> "error", seq |-> IF seq # 0 THEN seq ELSE pending[k]]

\* Wrong: one timer for all connections.
WriteErrorsOneTimer(ks, seq) ==
    /\ down' = [k \in Conns |->
                   IF k \in ks THEN Send(k, ErrorFor(k, seq)) ELSE down[k]]
    /\ pending' = [k \in Conns |-> 0]
    /\ armed' = [k \in Conns |-> FALSE]

\* writeTypeDuckErrorResponse to every connection of ks.
WriteErrors(ks, seq) ==
    /\ down' = [k \in Conns |->
                   IF k \in ks THEN Send(k, ErrorFor(k, seq)) ELSE down[k]]
    /\ pending' = [k \in Conns |-> IF k \in ks THEN 0 ELSE pending[k]]
    /\ armed' = [k \in Conns |-> IF k \in ks THEN FALSE ELSE armed[k]]

\* writePipe: an answer stops the timer and clears the pending request.
WritePipe(k, m) ==
    /\ down' = [down EXCEPT ![k] = Send(k, m)]
    /\ pending' = [pending EXCEPT ![k] = 0]
    /\ armed' = [armed EXCEPT ![k] = FALSE]

-----------------------------------------------------------------------------
(* The client end: the text service (Moqi::Client) or TypeDuckSettings.exe. *)

TextServices == Conns \ SettingsApps

\* closeRpcConnection: what is unread is lost.
Disconnect(k) ==
    /\ cst' = [cst EXCEPT ![k] = "closed"]
    /\ down' = [down EXCEPT ![k] = <<>>]
    /\ doomed' = [doomed EXCEPT ![k] = FALSE]
    /\ UNCHANGED <<ready, next, up, pipe, bound, timerVars, listening,
                   backendVars, historyVars>>

HasError(msgs) == \E i \in 1 .. Len(msgs) : msgs[i].kind = "error"

\* A text service that reconnects goes on with the numbers of its last
\* connection; the settings app always starts at 1.
Connect(k) ==
    /\ cst[k] = "none" /\ listening
    /\ cst' = [cst EXCEPT ![k] = "idle"]
    /\ pipe' = [pipe EXCEPT ![k] = "open"]
    /\ \E first \in IF k \in SettingsApps THEN {1} ELSE {0, 1} :
           next' = [next EXCEPT ![k] = first]
    /\ UNCHANGED <<ready, doomed, up, down, bound, timerVars, listening,
                   backendVars, historyVars>>

\* The settings app sends init and one more request.
LastSeq(k) == IF k \in SettingsApps THEN 2 ELSE MaxSeq - 1

\* callRpcMethod up to the write of TransactNamedPipe.
Ask(k, method) ==
    /\ cst[k] = "idle" /\ pipe[k] = "open" /\ down[k] = <<>>
    /\ next[k] <= LastSeq(k) /\ next[k] < MaxSeq
    /\ cst' = [cst EXCEPT ![k] = "waiting"]
    /\ up' = [up EXCEPT ![k] = Append(@, Request(k, method, next[k]))]
    /\ next' = [next EXCEPT ![k] = @ + 1]
    /\ UNCHANGED <<ready, doomed, down, pipe, bound, timerVars, listening,
                   backendVars, historyVars>>

\* waitForRpcConnection lets nothing but init go first on a connection, which
\* a foreign peer need not respect.
Call(k) ==
    \/ ~ready[k] /\ Ask(k, "init")
    \/ ~ready[k] /\ k \in Foreign /\ \E m \in {"call", "garbled"} : Ask(k, m)
    \/ ready[k] /\ Ask(k, "call")
    \/ ready[k] /\ k \in SettingsApps /\ Ask(k, "settings")

\* Wrong: any message is taken for the answer.
IsAnswerAny(k, i) == i = 1

\* The answer is the first message with the number of the request.
IsAnswer(k, i) ==
    /\ down[k][i].seq = next[k] - 1
    /\ \A j \in 1 .. i - 1 : down[k][j].seq # next[k] - 1

\* What comes ahead of the answer is applied as an asynchronous response.
Succeeds(k, i) ==
    IsAnswer(k, i) /\ ~doomed[k] /\ ~HasError(SubSeq(down[k], 1, i))

\* The rest of callRpcMethod in a text service.
Accept(k) ==
    /\ cst[k] = "waiting" /\ k \in TextServices
    /\ \E i \in 1 .. Len(down[k]) :
        /\ Succeeds(k, i)
        /\ down' = [down EXCEPT ![k] = SubSeq(@, i + 1, Len(@))]
    /\ cst' = [cst EXCEPT ![k] = "idle"]
    /\ ready' = [ready EXCEPT ![k] = TRUE]
    /\ UNCHANGED <<next, doomed, up, pipe, bound, timerVars, listening,
                   backendVars, historyVars>>

\* No answer in the messages at hand, or a failure among them.
Reject(k) ==
    /\ cst[k] = "waiting" /\ k \in TextServices /\ down[k] # <<>>
    /\ ~\E i \in 1 .. Len(down[k]) : Succeeds(k, i)
    /\ Disconnect(k)

\* transactLauncher in the settings app takes the first message there is; the
\* app goes on after a successful init and is done after the second answer.
SettingsAccept(k) ==
    /\ cst[k] = "waiting" /\ k \in SettingsApps /\ down[k] # <<>>
    /\ ~ready[k] /\ Head(down[k]).kind # "error"
    /\ cst' = [cst EXCEPT ![k] = "idle"]
    /\ ready' = [ready EXCEPT ![k] = TRUE]
    /\ down' = [down EXCEPT ![k] = Tail(@)]
    /\ UNCHANGED <<next, doomed, up, pipe, bound, timerVars, listening,
                   backendVars, historyVars>>

SettingsFinish(k) ==
    /\ cst[k] = "waiting" /\ k \in SettingsApps /\ down[k] # <<>>
    /\ ready[k] \/ Head(down[k]).kind = "error"
    /\ Disconnect(k)

\* pollAsyncResponses, from the 50 ms timer or at the start of a call, queues
\* what has arrived; the queue is applied in an edit session granted later.
Poll(k) ==
    /\ cst[k] = "idle" /\ k \in TextServices /\ down[k] # <<>>
    /\ down' = [down EXCEPT ![k] = <<>>]
    /\ doomed' = [doomed EXCEPT ![k] = @ \/ HasError(down[k])]
    /\ UNCHANGED <<cst, ready, next, up, pipe, bound, timerVars, listening,
                   backendVars, historyVars>>

\* flushPendingAsyncResponses reaches a failure.
Flush(k) == cst[k] = "idle" /\ doomed[k] /\ Disconnect(k)

\* TransactNamedPipe fails when a message arrived since the last poll.
Busy(k) == cst[k] = "idle" /\ down[k] # <<>> /\ Disconnect(k)

\* The launcher has closed its end.
PipeBroken(k) ==
    /\ cst[k] \in {"idle", "waiting"} /\ pipe[k] \in {"closing", "gone"}
    /\ Disconnect(k)

\* The client object or the whole host process goes away.
Hangup(k) == cst[k] \in {"idle", "waiting"} /\ Disconnect(k)

-----------------------------------------------------------------------------
(* The launcher: PipeClient, one per connection.                           *)

\* A frame that does not parse: writeTypeDuckErrorResponse with sequence 0.
RefuseFrame(k) ==
    /\ WriteErrors({k}, 0)
    /\ UNCHANGED <<bound, backendVars>>

\* Wrong: a connection without a backend is told that all is well.
RefuseUnboundKindly(k, m) ==
    /\ down' = [down EXCEPT ![k] = Send(k, [kind |-> "reply", seq |-> m.seq])]
    /\ UNCHANGED <<bound, timerVars, backendVars>>

\* initBackend on a connection without a backend: anything but init is dropped
\* without an answer, and an init for an unknown profile is refused.
RefuseUnbound(k, m) ==
    \/ /\ m.method # "init"
       /\ UNCHANGED <<down, bound, timerVars, backendVars>>
    \/ /\ m.method = "init" /\ k \in Foreign
       /\ WriteErrors({k}, m.seq)
       /\ UNCHANGED <<bound, backendVars>>

\* Wrong: no answer when the preferences did not reach the engine.
AnswerSettingsIfDelivered(k, m) ==
    /\ \E spawned \in SpawnOutcomes :
        /\ Deliver(Push, spawned)
        /\ \/ /\ Delivered(spawned)
              /\ down' = [down EXCEPT ![k] = Send(k, [kind |-> "reply", seq |-> m.seq])]
           \/ ~Delivered(spawned) /\ UNCHANGED down
    /\ UNCHANGED <<bound, timerVars>>

\* handleTypeDuckSettingsRequest answers by itself; an update it accepts is
\* first written to the engine, which is started when need be.  The timer and
\* the pending request are left alone.
AnswerSettings(k, m) ==
    /\ \/ \E kind \in {"reply", "error"} :
           /\ down' = [down EXCEPT ![k] = Send(k, [kind |-> kind, seq |-> m.seq])]
           /\ UNCHANGED backendVars
       \/ \E spawned \in SpawnOutcomes :
           /\ Deliver(Push, spawned)
           /\ LET kind == IF Delivered(spawned) THEN "reply" ELSE "error"
              IN down' = [down EXCEPT ![k] = Send(k, [kind |-> kind, seq |-> m.seq])]
    /\ UNCHANGED <<bound, timerVars>>

\* The request goes to the engine under the client id of the connection, and its
\* timer starts; if there is no engine
\* and none can be started, the error is the answer.
Forward(k, m) ==
    /\ bound' = [bound EXCEPT ![k] = TRUE]
    /\ \E spawned \in SpawnOutcomes :
        /\ Deliver(Request(k, m.method, m.seq), spawned)
        /\ \/ /\ Delivered(spawned)
              /\ pending' = [pending EXCEPT ![k] = m.seq]
              /\ armed' = [armed EXCEPT ![k] = TRUE]
              /\ UNCHANGED down
           \/ /\ ~Delivered(spawned)
              /\ pending' = [pending EXCEPT ![k] = 0]
              /\ armed' = [armed EXCEPT ![k] = FALSE]
              /\ down' = [down EXCEPT ![k] =
                             Send(k, [kind |-> "error", seq |-> m.seq])]

\* The read callback of the pipe, for one frame.
HandleClientMessage(k) ==
    /\ pipe[k] = "open" /\ up[k] # <<>>
    /\ up' = [up EXCEPT ![k] = Tail(@)]
    /\ LET m == Head(up[k])
           accepted == bound[k] \/ (m.method = "init" /\ k \notin Foreign)
       IN \/ m.method = "garbled" /\ RefuseFrame(k)
          \/ m.method # "garbled" /\ ~accepted /\ RefuseUnbound(k, m)
          \/ m.method = "settings" /\ accepted /\ AnswerSettings(k, m)
          \/ m.method \in {"init", "call"} /\ accepted /\ Forward(k, m)
    /\ UNCHANGED <<clientVars, pipe, listening, executed>>

\* The client end is closed: tell the engine, which may have to be started for
\* that, and close the pipe.
ClientReadError(k) ==
    /\ pipe[k] = "open" /\ cst[k] = "closed" /\ up[k] = <<>>
    /\ pipe' = [pipe EXCEPT ![k] = "closing"]
    /\ \/ ~bound[k] /\ UNCHANGED <<down, timerVars, backendVars>>
       \/ /\ bound[k]
          /\ \E spawned \in SpawnOutcomes :
              /\ Deliver(Request(k, "close", 0), spawned)
              /\ \/ Delivered(spawned) /\ UNCHANGED <<down, timerVars>>
                 \/ ~Delivered(spawned) /\ WriteErrors({k}, 0)
    /\ UNCHANGED <<clientVars, up, bound, listening, historyVars>>

\* Wrong: no close callback is registered.
CloseUnnoticed(k) == pipe[k] = "closing" /\ UNCHANGED vars

\* The close callback of uv_close: removeClient and ~PipeClient.
CloseDone(k) ==
    /\ pipe[k] = "closing"
    /\ pipe' = [pipe EXCEPT ![k] = "gone"]
    /\ armed' = [armed EXCEPT ![k] = FALSE]
    /\ UNCHANGED <<clientVars, up, down, bound, pending, listening,
                   backendVars, historyVars>>

\* Wrong: the timeout restarts the engine without a word to the client.
TimeoutSilent(k) ==
    /\ armed[k] /\ pipe[k] \in {"open", "closing"}
    /\ armed' = [armed EXCEPT ![k] = FALSE]
    /\ RestartProcess
    /\ UNCHANGED <<clientVars, up, down, pipe, bound, pending, listening, historyVars>>

\* onRequestTimeout, which can still fire while the pipe is closing.
Timeout(k) ==
    /\ armed[k] /\ pipe[k] \in {"open", "closing"}
    /\ WriteErrors({k}, pending[k])
    /\ IF bound[k] THEN RestartProcess ELSE UNCHANGED backendVars
    /\ UNCHANGED <<clientVars, up, pipe, bound, listening, historyVars>>

-----------------------------------------------------------------------------
(* The launcher: BackendServer and PipeServer.                             *)

\* Wrong: every message of the engine passes.
NothingIsStale(k, seq) == FALSE

\* writeBackendResponse: while a request is pending only its answer passes.
IsStale(k, seq) == pending[k] # 0 /\ seq # pending[k]

\* handleBackendReply for one frame of the engine.
BackendReply ==
    /\ proc = "up" /\ stdout # <<>>
    /\ LET m == Head(stdout)
           k == m.to
           routed == pipe[k] \in {"open", "closing"} /\ ~IsStale(k, m.seq)
       IN \/ /\ m.kind = "garbage"
             /\ WriteErrors(Attached, 0)
             /\ RestartProcess
          \/ /\ m.kind # "garbage"
             /\ stdout' = Tail(stdout)
             /\ \/ routed /\ WritePipe(k, [kind |-> m.kind, seq |-> m.seq])
                \/ ~routed /\ UNCHANGED <<down, timerVars>>
             /\ UNCHANGED <<proc, gen, stdin, alive, known, restored>>
    /\ UNCHANGED <<clientVars, up, pipe, bound, listening, historyVars>>

\* The end of the engine's stdout or stderr; what is unread in the other is lost.
BackendReadError ==
    /\ proc = "up" /\ ~alive
    /\ WriteErrors(Attached, 0)
    /\ RestartProcess
    /\ UNCHANGED <<clientVars, up, pipe, bound, listening, historyVars>>

\* The tray commands.
TrayRestart ==
    /\ listening /\ proc = "up"
    /\ RestartProcess
    /\ UNCHANGED <<clientVars, up, down, pipe, bound, timerVars, listening,
                   historyVars>>

TrayRedeploy ==
    /\ listening /\ Len(stdin) < MaxQueue
    /\ \E spawned \in SpawnOutcomes :
           Deliver(Request(Launcher, "deploy", 0), spawned)
    /\ UNCHANGED <<clientVars, up, down, pipe, bound, timerVars, listening,
                   historyVars>>

CloseAll(ks) ==
    pipe' = [k \in Conns |-> IF k \in ks /\ pipe[k] = "open" THEN "closing"
                             ELSE pipe[k]]

TrayTerminate ==
    /\ listening /\ proc = "up"
    /\ StopProcess
    /\ CloseAll(Attached)
    /\ UNCHANGED <<clientVars, up, down, bound, timerVars, listening,
                   historyVars>>

Shutdown ==
    /\ listening
    /\ listening' = FALSE
    /\ CloseAll(Conns)
    /\ IF proc = "up" THEN StopProcess ELSE UNCHANGED backendVars
    /\ UNCHANGED <<clientVars, up, down, bound, timerVars, historyVars>>

-----------------------------------------------------------------------------
(* The engine process: an external program that may answer, refuse, stay   *)
(* silent, speak unasked to a client it has a session with, or exit.       *)

Output(k, kind, seq) == [to |-> k, kind |-> kind, seq |-> seq]

ServeRequest(m) ==
    /\ executed' = [executed EXCEPT ![m.from] = Append(@, m.seq)]
    /\ \/ /\ \E kind \in {"reply", "error"} :
             /\ stdout' = Append(stdout, Output(m.from, kind, m.seq))
             /\ known' = IF m.method = "init" /\ kind = "reply"
                         THEN known \cup {m.from} ELSE known
       \/ UNCHANGED <<stdout, known>>
    /\ UNCHANGED restored

ServeClose(m) ==
    /\ known' = known \ {m.from}
    /\ UNCHANGED <<stdout, restored, executed>>

ServeLauncher(m) ==
    /\ restored' = (restored \/ m.method = "prefs")
    /\ UNCHANGED <<stdout, known, executed>>

Serve ==
    /\ alive /\ stdin # <<>>
    /\ stdin' = Tail(stdin)
    /\ LET m == Head(stdin)
       IN \/ m.method \in {"init", "call"} /\ ServeRequest(m)
          \/ m.method = "close" /\ ServeClose(m)
          \/ m.method \in LauncherMethods /\ ServeLauncher(m)
    /\ UNCHANGED <<clientVars, up, down, pipe, bound, timerVars, listening,
                   proc, gen, alive>>

\* Unsolicited messages carry sequence number 0.
EmitAsync ==
    /\ alive /\ Len(stdout) < MaxQueue
    /\ \E k \in known : /\ Len(down[k]) < MaxQueue
                        /\ stdout' = Append(stdout, Output(k, "async", 0))
    /\ UNCHANGED <<clientVars, up, down, pipe, bound, timerVars, listening,
                   proc, gen, stdin, alive, known, restored, historyVars>>

EmitGarbage ==
    /\ alive /\ Len(stdout) < MaxQueue
    /\ \E k \in Conns : stdout' = Append(stdout, Output(k, "garbage", 0))
    /\ UNCHANGED <<clientVars, up, down, pipe, bound, timerVars, listening,
                   proc, gen, stdin, alive, known, restored, historyVars>>

Exit ==
    /\ alive
    /\ alive' = FALSE
    /\ UNCHANGED <<clientVars, up, down, pipe, bound, timerVars, listening,
                   proc, gen, stdin, stdout, known, restored, historyVars>>

-----------------------------------------------------------------------------
ClientStep(k) ==
    \/ Connect(k) \/ Call(k)
    \/ Accept(k) \/ Reject(k) \/ SettingsAccept(k) \/ SettingsFinish(k)
    \/ Poll(k) \/ Flush(k) \/ Busy(k) \/ PipeBroken(k) \/ Hangup(k)

LauncherStep(k) ==
    HandleClientMessage(k) \/ ClientReadError(k) \/ CloseDone(k) \/ Timeout(k)

BackendStep == BackendReply \/ BackendReadError

TrayStep == TrayRestart \/ TrayRedeploy \/ TrayTerminate \/ Shutdown

EngineStep == Serve \/ EmitAsync \/ EmitGarbage \/ Exit

Next ==
    \/ \E k \in Conns : ClientStep(k) \/ LauncherStep(k)
    \/ BackendStep \/ TrayStep \/ EngineStep

Spec == Init /\ [][Next]_vars

\* The libuv loop serves every ready handle and every expired timer, and
\* TransactNamedPipe returns once there is a message or the pipe is broken.
\* Nothing is assumed of the engine, of the tray and of the hosts.
Fairness ==
    /\ \A k \in Conns :
        /\ WF_vars(HandleClientMessage(k))
        /\ WF_vars(ClientReadError(k))
        /\ WF_vars(CloseDone(k))
        /\ WF_vars(Timeout(k))
        /\ WF_vars(cst[k] = "waiting" /\ PipeBroken(k))
        /\ WF_vars(\/ Accept(k) \/ Reject(k)
                   \/ SettingsAccept(k) \/ SettingsFinish(k))
    /\ WF_vars(BackendReply)
    /\ WF_vars(BackendReadError)

FairSpec == Spec /\ Fairness

-----------------------------------------------------------------------------
(* What the launcher promises.                                             *)

\* A host thread blocked in TransactNamedPipe, which has no timeout, is never
\* abandoned: its request is on the way to the launcher, or the launcher's
\* timer runs for exactly this request, or an answer is on the way back, or
\* the pipe is being closed.  The handlers of PipeClient.cpp each keep a part
\* of this, e.g. a stale reply must not stop the timer of a later request.
\* (A foreign peer that does not start with init is left without an answer.)
NoStrandedRequest ==
    \A k \in Conns \ Foreign : cst[k] = "waiting" =>
        \/ up[k] # <<>>
        \/ armed[k] /\ pending[k] = next[k] - 1
        \/ down[k] # <<>>
        \/ pipe[k] \in {"closing", "gone"}

\* The parts NoStrandedRequest rests on.  A connection that no accepted init has
\* bound to the backend is unknown to it, so nothing but refusals comes back.
Unmentioned(k) ==
    /\ k \notin known
    /\ \A i \in 1 .. Len(stdin) : stdin[i].from # k
    /\ \A i \in 1 .. Len(stdout) : stdout[i].to = k => stdout[i].kind = "garbage"

OnlyRefused(k) == \A i \in 1 .. Len(down[k]) : down[k][i].kind = "error"

UnboundIsUnknown ==
    \A k \in Conns : ~bound[k] => ~ready[k] /\ Unmentioned(k) /\ OnlyRefused(k)

\* What the launcher has still to read from a blocked caller ends in the request
\* the caller waits for; a connection that is not bound yet asks for init.
LastIsCurrent ==
    \A k \in Conns : (cst[k] = "waiting" /\ up[k] # <<>>) =>
        /\ up[k][Len(up[k])].seq = next[k] - 1
        /\ (~bound[k] /\ k \notin Foreign) => up[k][Len(up[k])].method = "init"

InductiveInv ==
    TypeOK /\ UnboundIsUnknown /\ LastIsCurrent /\ NoStrandedRequest

\* The request a text service waits for, or sent last.
Current(k) == next[k] - 1

\* What the engine has still to execute for k, and what it has executed.
Unserved(k) == {i \in 1 .. Len(stdin) : stdin[i].from = k /\ stdin[i].method \in {"init", "call"}}
Ran(k) == \E i \in 1 .. Len(executed[k]) : executed[k][i] = Current(k)

\* A request is in one place, the pipe or the engine's stdin, and nowhere once
\* the caller goes on.
OneRequest(k) ==
    /\ cst[k] = "none" => next[k] = 0
    /\ cst[k] \in {"none", "idle"} => up[k] = <<>> /\ Unserved(k) = {}
    /\ Len(up[k]) <= 1 /\ (up[k] # <<>> => Unserved(k) = {})
    /\ \A i \in 1 .. Len(up[k]) : up[k][i].seq = Current(k) /\ up[k][i].method # "settings"
    /\ \A i \in Unserved(k) : stdin[i].seq = Current(k)
    /\ \A i, j \in Unserved(k) : i = j

\* It is executed after it was in either, once.
ExecutedOnce(k) ==
    /\ up[k] # <<>> \/ Unserved(k) # {} => ~Ran(k)
    /\ \A i \in 1 .. Len(executed[k]) : executed[k][i] < next[k]
    /\ \A i, j \in 1 .. Len(executed[k]) :
           executed[k][i] = Current(k) /\ executed[k][j] = Current(k) => i = j

\* No refusal: what callRpcMethod could take for an answer.
Answering(m) == m.kind \in {"reply", "async"}

\* Nothing bears the number of a request that was not executed.
Follows(k, seq) == seq < next[k] /\ (seq = Current(k) => Ran(k))

AnswersFollowExecution(k) ==
    /\ \A i \in 1 .. Len(down[k]) : Answering(down[k][i]) => Follows(k, down[k][i].seq)
    /\ \A i \in 1 .. Len(stdout) :
           stdout[i].to = k /\ stdout[i].kind # "garbage" => Follows(k, stdout[i].seq)
    /\ k \in known => Follows(k, 0)

\* Nor does a reply come behind an answer, in the pipe or from the engine, or to a
\* caller that waits for another one, or for none.
Answers(k, m) == Answering(m) /\ m.seq = Current(k)
Timely(k, m) == cst[k] # "idle" /\ (cst[k] = "waiting" => m.seq = Current(k))

RepliesComeFirst(k) ==
    /\ \A i \in 1 .. Len(down[k]) : down[k][i].kind = "reply" =>
           Timely(k, down[k][i]) /\ \A n \in 1 .. i - 1 : ~Answers(k, down[k][n])
    /\ \A i \in 1 .. Len(stdout) : stdout[i].to = k /\ stdout[i].kind = "reply" =>
           /\ Timely(k, stdout[i])
           /\ \A n \in 1 .. Len(stdout) : stdout[n].to = k /\ n < i => ~Answers(k, stdout[n])
           /\ \A n \in 1 .. Len(down[k]) : ~Answers(k, down[k][n])

\* A timer without a number is that of the first request of all, unanswered; the
\* settings app counts from 1.
UnnumberedTimer(k) ==
    armed[k] /\ pending[k] = 0 =>
        /\ k \in TextServices /\ next[k] = 1 /\ cst[k] \in {"waiting", "closed"}
        /\ \A i \in 1 .. Len(down[k]) : ~Answering(down[k][i])

SettingsAreNumbered(k) ==
    /\ cst[k] # "none" => next[k] > 0
    /\ \A i \in 1 .. Len(up[k]) : up[k][i].seq > 0

\* One call at a time, over all the queues between a text service and the engine:
\* wherever the request of a call and its answer are, no other request of the
\* connection and no second answer are under way.  NoLateAnswer, the contract and
\* OnlyTheAnswerStopsTheTimer rest on it.
OneCallAtATime ==
    /\ \A k \in TextServices : /\ OneRequest(k) /\ ExecutedOnce(k)
                               /\ AnswersFollowExecution(k) /\ RepliesComeFirst(k)
    /\ \A k \in SettingsApps : SettingsAreNumbered(k)
    /\ \A k \in Conns : UnnumberedTimer(k)

\* The answer of a request never waits in the pipe of a text service that has
\* moved on: callRpcMethod would take it, or report it, in a later call.
NoLateAnswer ==
    \A k \in TextServices : cst[k] = "idle" =>
        \A i \in 1 .. Len(down[k]) : down[k][i].kind # "reply"

\* "A fresh backend starts in Chinese mode; restore the saved preferences
\* (including asciiMode) before the first client request reaches it"
\* (BackendServer.cpp:125): however the process was started, what it reads
\* first is the saved preferences.
PrefsFirst ==
    proc = "up" => restored \/ (stdin # <<>> /\ Head(stdin).method = "prefs")

\* Of the engine's messages only the answer to the pending request stops a
\* connection's request timer (writeBackendResponse), also while the pending
\* request is the init with sequence number 0, which disables the check.
OnlyTheAnswerStopsTheTimer ==
    [][\A k \in Conns :
        (BackendReply /\ armed[k] /\ ~armed'[k] /\ Head(stdout).kind # "garbage")
            => /\ Head(stdout).to = k
               /\ Head(stdout).seq = pending[k]]_vars

\* The launcher frees the PipeClient of every client that went away.
ClosedClientsAreFreed == \A k \in Conns : cst[k] = "closed" ~> pipe[k] = "gone"

\* The contract seen by the text services: what is executed is counted per
\* connection for the request sent last.
Contract == INSTANCE RpcContract WITH
    Callers <- TextServices,
    phase <- [k \in TextServices |->
                 IF cst[k] = "waiting" THEN "asked"
                 ELSE IF cst[k] = "closed" THEN "over" ELSE "idle"],
    ran <- [k \in TextServices |->
               Cardinality({i \in 1 .. Len(executed[k]) : executed[k][i] = Current(k)})]

\* At most one execution, no answer without one (safety); and, with fairness, every
\* blocked caller gets control back.
ImplementsContract == Contract!ContractSafety
ReleasesCallers == Contract!ContractSpec

=============================================================================
