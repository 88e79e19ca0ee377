----------------------- MODULE LauncherContractProofs -----------------------
(***************************************************************************)
(* The conversation of one connection with the engine, for any number of   *)
(* connections: one call is under way at a time, wherever its request and  *)
(* its answer are, and from this the launcher implements RpcContract.      *)
(***************************************************************************)
EXTENDS LauncherBridgeProofs, FiniteSetTheorems

-----------------------------------------------------------------------------
(* A step, as one connection sees it.                                      *)

\* The engine's stdin holds no more requests of j than before.
TakesLess(j) ==
    \/ stdin' = stdin
    \/ stdin # <<>> /\ stdin' = Tail(stdin)
    \/ \E m \in Requests : /\ m.from # j \/ m.method \notin {"init", "call"}
                           /\ stdin' = Append(stdin, m)
    \/ Unserved(j)' = {}

\* Its stdout holds no more answers to j, but what it says unasked.
HearsLess(j) ==
    \/ stdout' = stdout
    \/ stdout # <<>> /\ stdout' = Tail(stdout)
    \/ stdout' = <<>>
    \/ \E o \in Outputs : /\ stdout' = Append(stdout, o)
                          /\ o.to = j /\ o.kind # "garbage" => o.kind = "async" /\ o.seq = 0 /\ j \in known

\* The launcher writes nothing to j but refusals.
RefusedOnly(j) ==
    \/ down'[j] = down[j]
    \/ \E s \in Seqs : down'[j] = Append(down[j], [kind |-> "error", seq |-> s])

TimerKept(j) == armed'[j] => armed[j] /\ pending'[j] = pending[j]

Around(j) ==
    /\ cst'[j] = cst[j] /\ next'[j] = next[j] /\ executed'[j] = executed[j]
    /\ HearsLess(j) /\ (j \in known' => j \in known)

Elsewhere(j) ==
    /\ Around(j) /\ up'[j] = up[j]
    /\ RefusedOnly(j) /\ TakesLess(j) /\ TimerKept(j)

\* The launcher takes a request of j off the pipe: it refuses it ...
Refused(j) ==
    /\ Around(j) /\ up[j] # <<>> /\ up'[j] = Tail(up[j])
    /\ RefusedOnly(j) /\ TakesLess(j) /\ TimerKept(j)

\* ... or hands it on.
Forwarded(j) ==
    /\ Around(j) /\ up[j] # <<>> /\ up'[j] = Tail(up[j])
    /\ down'[j] = down[j]
    /\ \E m \in Requests : /\ m.from = j /\ m.seq = Head(up[j]).seq
                           /\ stdin' = Append(stdin, m) \/ stdin' = <<Push, m>>
    /\ pending'[j] = Head(up[j]).seq

\* The engine executes the request at the head of its stdin.
Serves(j) ==
    /\ Serve
    /\ Head(stdin).from = j /\ Head(stdin).method \in {"init", "call"}

\* The launcher hands a message of the engine on to j.
Routed(j) ==
    /\ BackendReply
    /\ Head(stdout).to = j /\ Head(stdout).kind # "garbage"
    /\ stdout' = Tail(stdout)
    /\ WritePipe(j, [kind |-> Head(stdout).kind, seq |-> Head(stdout).seq])
    /\ ~IsStale(j, Head(stdout).seq)

-----------------------------------------------------------------------------
(* What starting the engine and writing to it means to a connection.       *)

LEMMA PushIsNotAsked ==
    /\ Push \in Requests /\ Push.method = "prefs"
    /\ Request(Launcher, "deploy", 0).method = "deploy"
BY PushType DEF Push, Request

LEMMA RestartTakesAll ==
    ASSUME NEW j \in Conns, RestartProcess \/ StopProcess
    PROVE  TakesLess(j) /\ HearsLess(j) /\ j \notin known'
<1>2. Unmentioned(j)'
    BY RestartForgets
<1>3. stdout' = <<>>
    BY Zenon DEF RestartProcess, StopProcess, StartProcess
<1> QED
    BY <1>2, <1>3 DEF Unmentioned, TakesLess, HearsLess, Unserved

\* What is not a request of j to be executed.
LEMMA DeliverTakesLess ==
    ASSUME TypeOK, NEW j \in Conns, NEW spawned \in SpawnOutcomes, NEW m \in Requests,
           m.from # j \/ m.method \notin {"init", "call"}, Deliver(m, spawned)
    PROVE  TakesLess(j) /\ HearsLess(j) /\ (j \in known' => j \in known)
<1>1. CASE stdin' = Append(stdin, m) /\ UNCHANGED <<stdout, known>>
    BY <1>1 DEF TakesLess, HearsLess
<1>2. CASE StartProcess(spawned, IF m = Push THEN <<Push>> ELSE <<Push, m>>)
    <2>1. stdout' = <<>> /\ known' = {}
        BY <1>2, Zenon DEF StartProcess
    <2>2. stdin' \in {<<>>, <<Push>>, <<Push, m>>}
        BY <1>2, Zenon DEF StartProcess
    <2>3. Unserved(j)' = {}
        BY <2>2, PushIsNotAsked DEF Unserved
    <2> QED
        BY <2>1, <2>3 DEF TakesLess, HearsLess
<1> QED
    BY <1>1, <1>2 DEF Deliver

LEMMA SendRefuses ==
    ASSUME NEW j \in Conns, NEW s \in Seqs, down'[j] = Send(j, [kind |-> "error", seq |-> s])
    PROVE  RefusedOnly(j)
BY DEF Send, RefusedOnly

LEMMA WriteErrorsRefuse ==
    ASSUME TypeOK, NEW j \in Conns, NEW ks \in SUBSET Conns, NEW seq \in Seqs,
           WriteErrors(ks, seq)
    PROVE  RefusedOnly(j) /\ TimerKept(j)
<1>1. RefusedOnly(j)
    BY WriteErrorsAreErrors, SendRefuses DEF RefusedOnly
<1>2. TimerKept(j)
    BY DEF WriteErrors, TimerKept
<1> QED
    BY <1>1, <1>2

\* The step of another connection, and of a text service that is not changed by it.
LEMMA ClientStepSeen ==
    ASSUME TypeOK, NEW j \in TextServices, NEW k \in Conns, ClientStep(k)
    PROVE  \/ Connect(j) \/ Calls(j) \/ Accept(j) \/ Disconnect(j) \/ Poll(j)
           \/ Elsewhere(j)
<1> j \in Conns
    BY DEF TextServices
<1>1. CASE k # j
    <2>1. /\ cst'[j] = cst[j] /\ next'[j] = next[j] /\ up'[j] = up[j] /\ down'[j] = down[j]
          /\ UNCHANGED <<stdin, stdout, known, executed, pending, armed>>
        BY <1>1
        DEF ClientStep, Connect, Call, Ask, Accept, Reject, SettingsAccept,
            SettingsFinish, Poll, Flush, Busy, PipeBroken, Hangup, Disconnect, TypeOK,
            ClientTypeOK, timerVars, backendVars, historyVars
    <2> QED
        BY <2>1 DEF Elsewhere, Around, RefusedOnly, TakesLess, HearsLess, TimerKept
<1>2. CASE k = j
    <2>1. j \notin SettingsApps
        BY DEF TextServices
    <2>2. Call(j) => Calls(j)
        BY DEF Call, Calls, ClientMethods
    <2> QED
        BY <1>2, <2>1, <2>2
        DEF ClientStep, Reject, SettingsAccept, SettingsFinish, Flush, Busy, PipeBroken, Hangup
<1> QED
    BY <1>1, <1>2

LEMMA HandlingSeen ==
    ASSUME TypeOK, NEW j \in TextServices, OneRequest(j), HandleClientMessage(j)
    PROVE  Refused(j) \/ Forwarded(j)
<1> DEFINE m == Head(up[j])
<1> j \in Conns
    BY DEF TextServices
<1>0. up[j] # <<>> /\ up[j] \in Seq(Requests)
    BY DEF HandleClientMessage, TypeOK, ClientTypeOK
<1>1. m \in Requests /\ m.seq \in Seqs /\ m.method # "settings"
    <2>1. m = up[j][1] /\ 1 \in 1 .. Len(up[j])
        BY <1>0
    <2> QED
        BY <1>0, <2>1, HeadType DEF OneRequest
<1>2. /\ cst'[j] = cst[j] /\ next'[j] = next[j] /\ executed'[j] = executed[j]
      /\ up'[j] = Tail(up[j])
    BY DEF HandleClientMessage, clientVars, TypeOK, ClientTypeOK, TextServices
<1>3. ASSUME NEW seq \in Seqs, WriteErrors({j}, seq), UNCHANGED backendVars
      PROVE  Refused(j)
    BY <1>0, <1>1, <1>2, <1>3, WriteErrorsRefuse
    DEF Refused, Around, TakesLess, HearsLess, backendVars, TextServices
<1>4. CASE RefuseFrame(j)
    BY <1>3, <1>4, BoundsAssumption DEF RefuseFrame, Seqs
<1>5. CASE RefuseUnbound(j, m)
    <2>1. CASE UNCHANGED <<down, bound, timerVars, backendVars>>
        BY <1>0, <1>1, <1>2, <2>1
        DEF Refused, Around, TakesLess, HearsLess, RefusedOnly, TimerKept, backendVars, timerVars
    <2> QED
        BY <1>1, <1>3, <1>5, <2>1 DEF RefuseUnbound
<1>6. CASE m.method \in {"init", "call"} /\ Forward(j, m)
    <2> DEFINE r == Request(j, m.method, m.seq)
    <2>1. PICK spawned \in SpawnOutcomes : /\ Deliver(r, spawned)
              /\ \/ /\ Delivered(spawned) /\ UNCHANGED down
                    /\ pending' = [pending EXCEPT ![j] = m.seq]
                 \/ /\ ~Delivered(spawned)
                    /\ armed' = [armed EXCEPT ![j] = FALSE]
                    /\ down' = [down EXCEPT ![j] = Send(j, [kind |-> "error", seq |-> m.seq])]
        BY <1>6 DEF Forward
    <2>2. r \in Requests /\ r.from = j /\ r.seq = m.seq /\ r # Push
        BY <1>1, <1>6, RequestType, PushIsOurs DEF ClientMethods, TextServices, Request
    <2>3. HearsLess(j) /\ (j \in known' => j \in known)
        BY <2>1, Zenon DEF Deliver, StartProcess, HearsLess
    <2>4. CASE Delivered(spawned)
        <3>1. stdin' = Append(stdin, r) \/ stdin' = <<Push, r>>
            BY <2>1, <2>2, <2>4, Zenon DEF Deliver, StartProcess, Delivered
        <3>2. pending'[j] = m.seq
            BY <2>1, <2>4 DEF TypeOK, PipeTypeOK, TextServices
        <3> QED
            BY <1>0, <1>1, <1>2, <2>1, <2>2, <2>3, <2>4, <3>1, <3>2 DEF Forwarded, Around
    <2>5. CASE ~Delivered(spawned)
        <3>1. stdin' = <<>> /\ stdout' = <<>>
            BY <2>1, <2>5, Zenon DEF Deliver, StartProcess, Delivered
        <3>2. TakesLess(j)
            BY <3>1 DEF TakesLess, Unserved
        <3>3. RefusedOnly(j) /\ TimerKept(j)
            BY <1>1, <2>1, <2>5, SendRefuses DEF TimerKept, TypeOK, ClientTypeOK, PipeTypeOK, TextServices
        <3> QED
            BY <1>0, <1>1, <1>2, <2>3, <3>2, <3>3 DEF Refused, Around
    <2> QED
        BY <2>4, <2>5
<1> QED
    BY <1>1, <1>4, <1>5, <1>6 DEF HandleClientMessage

LEMMA LauncherStepSeen ==
    ASSUME TypeOK, NEW j \in TextServices, OneRequest(j), NEW k \in Conns, LauncherStep(k)
    PROVE  Refused(j) \/ Forwarded(j) \/ Elsewhere(j)
<1> j \in Conns
    BY DEF TextServices
<1>0. 0 \in Seqs
    BY BoundsAssumption DEF Seqs
<1>1. ASSUME UNCHANGED <<cst, next, executed, up, down, pending, armed>>,
             TakesLess(j), HearsLess(j), j \in known' => j \in known
      PROVE  Elsewhere(j)
    BY <1>1 DEF Elsewhere, Around, RefusedOnly, TimerKept
<1>2. ASSUME NEW ks \in SUBSET Conns, NEW seq \in Seqs, WriteErrors(ks, seq),
             UNCHANGED <<cst, next, executed, up>>,
             TakesLess(j), HearsLess(j), j \in known' => j \in known
      PROVE  Elsewhere(j)
    BY <1>2, WriteErrorsRefuse DEF Elsewhere, Around
<1>3. UNCHANGED backendVars => TakesLess(j) /\ HearsLess(j) /\ (j \in known' => j \in known)
    BY DEF backendVars, TakesLess, HearsLess
<1>4. CASE HandleClientMessage(k) /\ k # j
    <2> DEFINE m == Head(up[k])
    <2>1. m \in Requests /\ m.seq \in Seqs
        BY <1>4, HeadType DEF HandleClientMessage
    <2>2. /\ cst'[j] = cst[j] /\ next'[j] = next[j] /\ executed'[j] = executed[j] /\ up'[j] = up[j]
        BY <1>4 DEF HandleClientMessage, clientVars, TypeOK, ClientTypeOK
    <2>3. down'[j] = down[j] /\ armed'[j] = armed[j] /\ pending'[j] = pending[j]
        BY <1>4
        DEF HandleClientMessage, RefuseFrame, RefuseUnbound, AnswerSettings, Forward,
            WriteErrors, timerVars, TypeOK, ClientTypeOK, PipeTypeOK
    <2>4. TakesLess(j) /\ HearsLess(j) /\ (j \in known' => j \in known)
        <3>1. \A method \in {"init", "call"} :
                  Request(k, method, m.seq) \in Requests /\ Request(k, method, m.seq).from # j
            BY <1>4, <2>1, RequestType DEF ClientMethods, Request
        <3>2. Push \in Requests /\ Push.from # j
            BY PushType, PushIsOurs
        <3> QED
            BY <1>3, <1>4, <3>1, <3>2, DeliverTakesLess
            DEF HandleClientMessage, RefuseFrame, RefuseUnbound, AnswerSettings, Forward
    <2> QED
        BY <2>2, <2>3, <2>4 DEF Elsewhere, Around, RefusedOnly, TimerKept
<1>5. CASE ClientReadError(k)
    <2>1. Request(k, "close", 0) \in Requests /\ Request(k, "close", 0).method = "close"
        BY <1>0, RequestType DEF ClientMethods, Request
    <2>2. TakesLess(j) /\ HearsLess(j) /\ (j \in known' => j \in known)
        BY <1>3, <1>5, <2>1, DeliverTakesLess DEF ClientReadError
    <2>3. UNCHANGED <<cst, next, executed, up>>
        BY <1>5 DEF ClientReadError, clientVars, historyVars
    <2>4. UNCHANGED <<down, pending, armed>> \/ WriteErrors({k}, 0)
        BY <1>5 DEF ClientReadError, timerVars
    <2> QED
        BY <1>0, <1>1, <1>2, <2>2, <2>3, <2>4
<1>6. CASE CloseDone(k)
    BY <1>3, <1>6
    DEF CloseDone, clientVars, historyVars, Elsewhere, Around, RefusedOnly, TimerKept,
        TypeOK, PipeTypeOK
<1>7. CASE Timeout(k)
    <2>1. TakesLess(j) /\ HearsLess(j) /\ (j \in known' => j \in known)
        BY <1>3, <1>7, RestartTakesAll DEF Timeout
    <2>2. pending[k] \in Seqs /\ UNCHANGED <<cst, next, executed, up>>
        BY <1>7 DEF Timeout, clientVars, historyVars, TypeOK, PipeTypeOK
    <2> QED
        BY <1>2, <1>7, <2>1, <2>2 DEF Timeout
<1> QED
    BY <1>4, <1>5, <1>6, <1>7, HandlingSeen DEF LauncherStep

LEMMA BackendStepSeen ==
    ASSUME TypeOK, NEW j \in TextServices, BackendStep
    PROVE  Routed(j) \/ Elsewhere(j)
<1> j \in Conns
    BY DEF TextServices
<1>0. UNCHANGED <<cst, next, executed, up>>
    BY DEF BackendStep, BackendReply, BackendReadError, clientVars, historyVars
<1>1. CASE WriteErrors(Attached, 0) /\ RestartProcess
    <2>1. 0 \in Seqs /\ Attached \in SUBSET Conns
        BY BoundsAssumption DEF Seqs, Attached
    <2> QED
        BY <1>0, <1>1, <2>1, RestartTakesAll, WriteErrorsRefuse DEF Elsewhere, Around
<1>2. CASE BackendReply /\ Head(stdout).kind # "garbage"
    <2> DEFINE m == Head(stdout)
               r == [kind |-> m.kind, seq |-> m.seq]
    <2>1. /\ stdout # <<>> /\ stdout' = Tail(stdout) /\ UNCHANGED <<stdin, known>>
          /\ \/ UNCHANGED <<down, timerVars>>
             \/ ~IsStale(m.to, m.seq) /\ WritePipe(m.to, r)
        BY <1>2 DEF BackendReply
    <2>2. TakesLess(j) /\ HearsLess(j)
        BY <2>1 DEF TakesLess, HearsLess
    <2>3. m \in Outputs
        BY <2>1, HeadTailProperties DEF TypeOK, BackendTypeOK
    <2>4. CASE UNCHANGED <<down, timerVars>>
        BY <1>0, <2>1, <2>2, <2>4 DEF Elsewhere, Around, RefusedOnly, TimerKept, timerVars
    <2>5. CASE m.to # j /\ WritePipe(m.to, r)
        <3>1. m.to \in Conns
            BY <2>3 DEF Outputs
        <3>2. down'[j] = down[j] /\ armed'[j] = armed[j] /\ pending'[j] = pending[j]
            BY <2>5, <3>1 DEF WritePipe, TypeOK, ClientTypeOK, PipeTypeOK
        <3> QED
            BY <1>0, <2>1, <2>2, <3>2 DEF Elsewhere, Around, RefusedOnly, TimerKept
    <2> QED
        BY <1>2, <2>1, <2>4, <2>5 DEF Routed
<1> QED
    BY <1>1, <1>2 DEF BackendStep, BackendReply, BackendReadError

LEMMA TrayStepSeen ==
    ASSUME TypeOK, NEW j \in TextServices, TrayStep
    PROVE  Elsewhere(j)
<1> j \in Conns
    BY DEF TextServices
<1>1. UNCHANGED <<cst, next, executed, up, down, pending, armed>>
    BY DEF TrayStep, TrayRestart, TrayRedeploy, TrayTerminate, Shutdown, clientVars,
           timerVars, historyVars
<1>2. TakesLess(j) /\ HearsLess(j) /\ (j \in known' => j \in known)
    <2>1. CASE RestartProcess \/ StopProcess
        BY <2>1, RestartTakesAll
    <2>2. CASE UNCHANGED backendVars
        BY <2>2 DEF backendVars, TakesLess, HearsLess
    <2>3. CASE \E spawned \in SpawnOutcomes : Deliver(Request(Launcher, "deploy", 0), spawned)
        BY <2>3, DeliverTakesLess, PushType, PushIsNotAsked
    <2> QED
        BY <2>1, <2>2, <2>3 DEF TrayStep, TrayRestart, TrayRedeploy, TrayTerminate, Shutdown
<1> QED
    BY <1>1, <1>2 DEF Elsewhere, Around, RefusedOnly, TimerKept

LEMMA EngineStepSeen ==
    ASSUME TypeOK, NEW j \in TextServices, EngineStep
    PROVE  Serves(j) \/ Elsewhere(j)
<1> j \in Conns
    BY DEF TextServices
<1>1. UNCHANGED <<cst, next, up, down, pending, armed>>
    BY DEF EngineStep, Serve, EmitAsync, EmitGarbage, Exit, clientVars, timerVars
<1>2. ASSUME executed'[j] = executed[j], TakesLess(j), HearsLess(j), j \in known' => j \in known
      PROVE  Elsewhere(j)
    BY <1>1, <1>2 DEF Elsewhere, Around, RefusedOnly, TimerKept
<1>3. CASE Serve /\ ~Serves(j)
    <2> DEFINE m == Head(stdin)
    <2>1. m \in Requests /\ TakesLess(j)
        BY <1>3, HeadTailProperties DEF Serve, TypeOK, BackendTypeOK, TakesLess
    <2>2. CASE m.method \in {"init", "call"} /\ ServeRequest(m)
        <3>1. m.from \in Conns /\ m.seq \in Seqs /\ m.from # j
            BY <1>3, <2>1, <2>2 DEF Requests, LauncherMethods, Serves
        <3>2. executed'[j] = executed[j] /\ (j \in known' => j \in known)
            BY <2>2, <3>1 DEF ServeRequest, TypeOK, HistoryTypeOK
        <3>3. \A kind \in {"reply", "error"} :
                  Output(m.from, kind, m.seq) \in Outputs /\ Output(m.from, kind, m.seq).to # j
            BY <3>1 DEF Output, Outputs
        <3>4. HearsLess(j)
            BY <2>2, <3>3 DEF ServeRequest, HearsLess
        <3> QED
            BY <1>2, <2>1, <3>2, <3>4
    <2>3. CASE ServeClose(m) \/ ServeLauncher(m)
        BY <1>2, <2>1, <2>3 DEF ServeClose, ServeLauncher, HearsLess
    <2> QED
        BY <1>3, <2>2, <2>3 DEF Serve
<1>4. CASE EmitAsync
    <2>1. PICK k \in known : stdout' = Append(stdout, Output(k, "async", 0))
        BY <1>4 DEF EmitAsync
    <2>2. Output(k, "async", 0) \in Outputs
        BY BoundsAssumption DEF Output, Outputs, Seqs, TypeOK, BackendTypeOK
    <2>3. HearsLess(j)
        BY <2>1, <2>2 DEF HearsLess, Output
    <2> QED
        BY <1>2, <1>4, <2>3 DEF EmitAsync, TakesLess, historyVars
<1>5. CASE EmitGarbage
    <2>1. PICK k \in Conns : stdout' = Append(stdout, Output(k, "garbage", 0))
        BY <1>5 DEF EmitGarbage
    <2>2. Output(k, "garbage", 0) \in Outputs
        BY BoundsAssumption DEF Output, Outputs, Seqs
    <2>3. HearsLess(j)
        BY <2>1, <2>2 DEF HearsLess, Output
    <2> QED
        BY <1>2, <1>5, <2>3 DEF EmitGarbage, TakesLess, historyVars
<1>6. CASE Exit
    BY <1>2, <1>6 DEF Exit, TakesLess, HearsLess, historyVars
<1> QED
    BY <1>3, <1>4, <1>5, <1>6 DEF EngineStep

\* Every step, as a text service sees it.
LEMMA StepSeen ==
    ASSUME TypeOK, NEW j \in TextServices, OneRequest(j), [Next]_vars
    PROVE  \/ Connect(j) \/ Calls(j) \/ Accept(j) \/ Disconnect(j) \/ Poll(j)
           \/ Refused(j) \/ Forwarded(j) \/ Serves(j) \/ Routed(j) \/ Elsewhere(j)
<1>1. CASE UNCHANGED vars
    BY <1>1
    DEF vars, clientVars, timerVars, backendVars, historyVars, Elsewhere, Around,
        RefusedOnly, TakesLess, HearsLess, TimerKept
<1> QED
    BY <1>1, ClientStepSeen, LauncherStepSeen, BackendStepSeen, TrayStepSeen, EngineStepSeen
    DEF Next

-----------------------------------------------------------------------------
(* One request of a connection is under way at a time.                     *)

LEMMA ConversationTypes ==
    ASSUME TypeOK, NEW j \in TextServices
    PROVE  /\ j \in Conns /\ j \notin SettingsApps
           /\ cst[j] \in {"none", "idle", "waiting", "closed"} /\ next[j] \in Nat
           /\ up[j] \in Seq(Requests) /\ down[j] \in Seq(Responses)
           /\ stdin \in Seq(Requests) /\ stdout \in Seq(Outputs)
           /\ executed[j] \in Seq(Nat)
<1>1. Seqs \subseteq Nat /\ Seqs # {}
    BY BoundsAssumption DEF Seqs
<1>2. executed[j] \in Seq(Seqs) => executed[j] \in Seq(Nat)
    BY <1>1, SeqMonotonic
<1> QED
    BY <1>1, <1>2
    DEF TextServices, TypeOK, ClientTypeOK, BackendTypeOK, HistoryTypeOK

\* Of the requests that are still to be executed no other one is left than before.
LEMMA UnservedLess ==
    ASSUME TypeOK, NEW j \in TextServices, TakesLess(j)
    PROVE  \E shift \in {0, 1} : \A i \in Unserved(j)' :
               i + shift \in Unserved(j) /\ stdin'[i] = stdin[i + shift]
<1> USE ConversationTypes
<1>1. CASE stdin' = stdin
    BY <1>1 DEF Unserved
<1>2. CASE stdin # <<>> /\ stdin' = Tail(stdin)
    <2>1. /\ Len(stdin') = Len(stdin) - 1 /\ Len(stdin) \in Nat
          /\ \A i \in 1 .. Len(stdin') : stdin'[i] = stdin[i + 1] /\ i + 1 \in 1 .. Len(stdin)
        BY <1>2
    <2> QED
        BY <2>1 DEF Unserved
<1>3. ASSUME NEW m \in Requests, m.from # j \/ m.method \notin {"init", "call"},
             stdin' = Append(stdin, m)
      PROVE  \A i \in Unserved(j)' : i \in Unserved(j) /\ stdin'[i] = stdin[i]
    <2>1. /\ Len(stdin') = Len(stdin) + 1 /\ Len(stdin) \in Nat
          /\ stdin'[Len(stdin) + 1] = m
          /\ \A i \in 1 .. Len(stdin) : stdin'[i] = stdin[i]
        BY <1>3
    <2> QED
        BY <1>3, <2>1 DEF Unserved
<1>4. \A i \in Unserved(j) : i + 0 = i
    BY DEF Unserved
<1>5. CASE Unserved(j)' = {}
    BY <1>5
<1> QED
    BY <1>1, <1>2, <1>3, <1>4, <1>5 DEF TakesLess

\* What Accept takes for an answer is one, so the request was executed.
LEMMA AcceptsAnswer ==
    ASSUME TypeOK, NEW j \in TextServices, NEW i \in 1 .. Len(down[j]), Succeeds(j, i)
    PROVE  down[j][i].seq = Current(j) /\ Answering(down[j][i])
<1> USE ConversationTypes
<1>1. down[j][i].seq = Current(j)
    BY DEF Succeeds, IsAnswer, Current
<1>2. down[j][i].kind # "error"
    <2>1. i \in 1 .. Len(SubSeq(down[j], 1, i)) /\ SubSeq(down[j], 1, i)[i] = down[j][i]
        OBVIOUS
    <2> QED
        BY <2>1 DEF Succeeds, HasError
<1>3. down[j][i] \in Responses
    OBVIOUS
<1> QED
    BY <1>1, <1>2, <1>3 DEF Answering, Responses

LEMMA AcceptEndsRequest ==
    ASSUME TypeOK, NEW j \in TextServices, ExecutedOnce(j), AnswersFollowExecution(j), Accept(j)
    PROVE  Ran(j) /\ up[j] = <<>> /\ Unserved(j) = {}
<1>1. PICK i \in 1 .. Len(down[j]) : Succeeds(j, i)
    BY DEF Accept
<1>2. Ran(j)
    BY <1>1, AcceptsAnswer DEF AnswersFollowExecution, Follows
<1> QED
    BY <1>2 DEF ExecutedOnce

\* What the client end does to its own side.
LEMMA ClientEvents ==
    ASSUME TypeOK, NEW j \in TextServices
    PROVE  /\ Connect(j) =>
                  /\ cst[j] = "none" /\ cst'[j] = "idle" /\ next'[j] \in {0, 1}
                  /\ up'[j] = up[j] /\ down'[j] = down[j]
           /\ Calls(j) =>
                  /\ cst[j] = "idle" /\ cst'[j] = "waiting" /\ next'[j] = next[j] + 1
                  /\ \E r \in Requests : /\ r.seq = next[j] /\ r.method # "settings"
                                         /\ up'[j] = Append(up[j], r)
                  /\ down[j] = <<>> /\ down'[j] = <<>>
           /\ Accept(j) =>
                  /\ cst[j] = "waiting" /\ cst'[j] = "idle" /\ next'[j] = next[j]
                  /\ up'[j] = up[j]
                  /\ \E i \in 1 .. Len(down[j]) :
                         Succeeds(j, i) /\ down'[j] = SubSeq(down[j], i + 1, Len(down[j]))
           /\ Disconnect(j) =>
                  /\ cst'[j] = "closed" /\ next'[j] = next[j]
                  /\ up'[j] = up[j] /\ down'[j] = <<>>
           /\ Poll(j) =>
                  /\ cst[j] = "idle" /\ cst'[j] = "idle" /\ next'[j] = next[j]
                  /\ up'[j] = up[j] /\ down'[j] = <<>>
           /\ Connect(j) \/ Calls(j) \/ Accept(j) \/ Disconnect(j) \/ Poll(j) =>
                  UNCHANGED <<stdin, stdout, known, executed, pending, armed>>
<1> USE ConversationTypes
<1>1. ASSUME NEW method \in ClientMethods, Ask(j, method), method # "settings"
      PROVE  /\ cst[j] = "idle" /\ cst'[j] = "waiting" /\ next'[j] = next[j] + 1
             /\ \E r \in Requests : /\ r.seq = next[j] /\ r.method # "settings"
                                    /\ up'[j] = Append(up[j], r)
             /\ down[j] = <<>> /\ down'[j] = <<>>
    <2> DEFINE r == Request(j, method, next[j])
    <2>1. r \in Requests /\ r.seq = next[j] /\ r.method = method
        BY RequestType DEF Request, TypeOK, ClientTypeOK
    <2>2. up'[j] = Append(up[j], r)
        BY <1>1 DEF Ask, TypeOK, ClientTypeOK
    <2> QED
        BY <1>1, <2>1, <2>2 DEF Ask, TypeOK, ClientTypeOK
<1>2. Calls(j) => \E method \in ClientMethods : Ask(j, method) /\ method # "settings"
    BY DEF Calls
<1>3. Calls(j) => UNCHANGED <<stdin, stdout, known, executed, pending, armed>>
    BY DEF Calls, Ask, timerVars, backendVars, historyVars
<1> QED
    BY <1>1, <1>2, <1>3
    DEF Connect, Accept, Disconnect, Poll, TypeOK, ClientTypeOK, timerVars, backendVars,
        historyVars

LEMMA OneElement ==
    ASSUME NEW S, NEW s \in Seq(S), s # <<>>, Len(s) <= 1
    PROVE  Len(s) = 1 /\ Tail(s) = <<>>
<1>1. Len(s) \in Nat /\ Len(s) # 0
    BY EmptySeq
<1>2. Len(s) = 1
    BY <1>1
<1>3. Tail(s) \in Seq(S) /\ Len(Tail(s)) = 0
    BY <1>2, HeadTailProperties
<1> QED
    BY <1>2, <1>3, EmptySeq

LEMMA OneRequestPreserved ==
    ASSUME TypeOK, NEW j \in TextServices, OneRequest(j), ExecutedOnce(j),
           AnswersFollowExecution(j), [Next]_vars
    PROVE  OneRequest(j)'
<1> USE ConversationTypes
<1>1. ASSUME cst'[j] = cst[j] \/ cst'[j] = "closed", next'[j] = next[j], TakesLess(j),
             up'[j] = up[j] \/ up'[j] = <<>>
      PROVE  OneRequest(j)'
    <2>1. PICK shift \in {0, 1} : \A i \in Unserved(j)' :
               i + shift \in Unserved(j) /\ stdin'[i] = stdin[i + shift]
        BY <1>1, UnservedLess
    <2>2. \A i \in Unserved(j)' : i \in Nat
        BY DEF Unserved
    <2>3. /\ \A i \in Unserved(j)' : stdin'[i].seq = Current(j)
          /\ \A i, k \in Unserved(j)' : i = k
          /\ Unserved(j) = {} => Unserved(j)' = {}
        BY <2>1, <2>2 DEF OneRequest
    <2>4. Current(j)' = Current(j)
        BY <1>1 DEF Current
    <2> QED
        BY <1>1, <2>3, <2>4 DEF OneRequest
<1>2. up[j] # <<>> => Len(up[j]) = 1 /\ Tail(up[j]) = <<>>
    BY OneElement DEF OneRequest
<1>3. stdin' = stdin => TakesLess(j) /\ Unserved(j)' = Unserved(j)
    BY DEF TakesLess, Unserved
<1>4. CASE Connect(j)
    BY <1>3, <1>4, ClientEvents DEF OneRequest
<1>5. CASE Calls(j)
    <2>1. PICK r \in Requests : /\ r.seq = next[j] /\ r.method # "settings"
                                /\ up'[j] = Append(up[j], r)
        BY <1>5, ClientEvents
    <2>2. up[j] = <<>> /\ Unserved(j)' = {}
        BY <1>3, <1>5, ClientEvents DEF OneRequest
    <2>3. up'[j] # <<>> /\ Len(up'[j]) = 1 /\ up'[j][1] = r
        BY <2>1, <2>2
    <2>4. cst'[j] = "waiting" /\ next'[j] = next[j] + 1
        BY <1>5, ClientEvents
    <2>5. Current(j)' = next[j]
        BY <2>4 DEF Current
    <2> QED
        BY <2>1, <2>2, <2>3, <2>4, <2>5 DEF OneRequest
<1>6. CASE Accept(j)
    <2>1. up[j] = <<>> /\ Unserved(j)' = {} /\ up'[j] = <<>> /\ cst'[j] = "idle"
        BY <1>3, <1>6, ClientEvents, AcceptEndsRequest
    <2> QED
        BY <2>1 DEF OneRequest
<1>7. CASE Disconnect(j) \/ Poll(j)
    BY <1>1, <1>3, <1>7, ClientEvents
<1>8. CASE Refused(j) \/ Elsewhere(j)
    BY <1>1, <1>2, <1>8 DEF Refused, Elsewhere, Around
<1>9. CASE Forwarded(j)
    <2>1. PICK m \in Requests : /\ m.from = j /\ m.seq = Head(up[j]).seq
                                /\ stdin' = Append(stdin, m) \/ stdin' = <<Push, m>>
        BY <1>9 DEF Forwarded
    <2>2. /\ up[j] # <<>> /\ up'[j] = <<>> /\ cst'[j] = cst[j] /\ next'[j] = next[j]
        BY <1>2, <1>9 DEF Forwarded, Around
    <2>3. Unserved(j) = {} /\ m.seq = Current(j) /\ cst[j] \notin {"none", "idle"}
        BY <1>2, <2>1, <2>2 DEF OneRequest
    <2>4. Unserved(j)' \subseteq {Len(stdin')} /\ stdin'[Len(stdin')] = m
        <3>1. CASE stdin' = Append(stdin, m)
            BY <2>3, <3>1 DEF Unserved
        <3>2. CASE stdin' = <<Push, m>>
            BY <3>2, PushIsNotAsked DEF Unserved
        <3> QED
            BY <2>1, <3>1, <3>2
    <2> QED
        BY <2>2, <2>3, <2>4 DEF OneRequest, Current
<1>10. CASE Serves(j)
    BY <1>1, <1>10 DEF Serves, Serve, TakesLess, clientVars
<1>11. CASE Routed(j)
    BY <1>1, <1>3, <1>11 DEF Routed, BackendReply, RestartProcess, clientVars
<1> QED
    BY <1>4, <1>5, <1>6, <1>7, <1>8, <1>9, <1>10, <1>11, StepSeen

-----------------------------------------------------------------------------
(* It is executed once, and what answers it comes afterwards.              *)

\* Whatever leaves the pipe alone, or takes from it, leaves no new request.
LEMMA NothingNewToServe ==
    ASSUME TypeOK, NEW j \in TextServices, TakesLess(j), Unserved(j) = {}
    PROVE  Unserved(j)' = {}
BY UnservedLess

\* The engine executes the request sent last.
LEMMA ServesCurrent ==
    ASSUME TypeOK, NEW j \in TextServices, OneRequest(j), ExecutedOnce(j), Serves(j)
    PROVE  /\ UNCHANGED <<cst, next, up, down, pending, armed>>
           /\ up[j] = <<>> /\ Unserved(j)' = {} /\ ~Ran(j)
           /\ cst[j] \notin {"none", "idle"}
           /\ executed'[j] = Append(executed[j], Current(j)) /\ Current(j) \in Nat
           /\ \/ stdout' = stdout
              \/ \E o \in Outputs : /\ o.to = j /\ o.seq = Current(j) /\ o.kind # "async"
                                    /\ stdout' = Append(stdout, o)
<1> USE ConversationTypes
<1> DEFINE m == Head(stdin)
<1>1. m \in Requests /\ stdin' = Tail(stdin) /\ stdin # <<>> /\ m = stdin[1]
    BY HeadTailProperties DEF Serves, Serve
<1>2. 1 \in Unserved(j) /\ m.seq = Current(j) /\ m.from = j
    BY <1>1 DEF Serves, Unserved, OneRequest
<1>3. up[j] = <<>> /\ ~Ran(j) /\ cst[j] \notin {"none", "idle"}
    BY <1>2 DEF OneRequest, ExecutedOnce
<1>4. Unserved(j)' = {}
    <2>1. \A i \in Unserved(j)' : i \in Nat \ {0} /\ i + 1 \in Unserved(j)
        <3>1. /\ Len(stdin') = Len(stdin) - 1 /\ Len(stdin) \in Nat
              /\ \A i \in 1 .. Len(stdin') : stdin'[i] = stdin[i + 1]
            BY <1>1
        <3> QED
            BY <3>1 DEF Unserved
    <2> QED
        BY <1>2, <2>1 DEF OneRequest
<1>5. m.seq \in Seqs /\ Seqs \subseteq Nat
    BY <1>1, BoundsAssumption DEF Requests, Seqs
<1>6. ServeRequest(m)
    BY DEF Serves, Serve, LauncherMethods
<1>7. executed'[j] = Append(executed[j], Current(j))
    BY <1>2, <1>6 DEF ServeRequest, TypeOK, HistoryTypeOK
<1>8. ASSUME NEW kind \in {"reply", "error"}
      PROVE  /\ Output(j, kind, m.seq) \in Outputs /\ Output(j, kind, m.seq).to = j
             /\ Output(j, kind, m.seq).seq = m.seq /\ Output(j, kind, m.seq).kind = kind
    BY <1>5 DEF Output, Outputs
<1>9. \/ stdout' = stdout
      \/ \E o \in Outputs : /\ o.to = j /\ o.seq = Current(j) /\ o.kind # "async"
                            /\ stdout' = Append(stdout, o)
    BY <1>2, <1>6, <1>8 DEF ServeRequest
<1> QED
    BY <1>2, <1>3, <1>4, <1>5, <1>7, <1>9 DEF Serves, Serve, clientVars, timerVars

LEMMA ExecutedOncePreserved ==
    ASSUME TypeOK, NEW j \in TextServices, OneRequest(j), ExecutedOnce(j), [Next]_vars
    PROVE  ExecutedOnce(j)'
<1> USE ConversationTypes
<1>1. ASSUME next'[j] = next[j], executed'[j] = executed[j],
             up'[j] # <<>> => up[j] # <<>>,
             Unserved(j)' # {} => up[j] # <<>> \/ Unserved(j) # {}
      PROVE  ExecutedOnce(j)'
    <2>1. Current(j)' = Current(j) /\ (Ran(j)' <=> Ran(j))
        BY <1>1 DEF Current, Ran
    <2> QED
        BY <1>1, <2>1 DEF ExecutedOnce
<1>2. Tail(up[j]) # <<>> => up[j] # <<>>
    BY OneElement DEF OneRequest
<1>3. stdin' = stdin => Unserved(j)' = Unserved(j)
    BY DEF Unserved
<1>4. \A i \in 1 .. Len(executed[j]) : executed[j][i] \in Nat
    OBVIOUS
<1>5. CASE Connect(j)
    <2>1. /\ cst[j] = "none" /\ next'[j] \in {0, 1}
          /\ up'[j] = up[j] /\ stdin' = stdin /\ executed' = executed
        BY <1>5, ClientEvents
    <2>2. next[j] = 0 /\ up'[j] = <<>> /\ Unserved(j)' = {}
        BY <1>3, <2>1 DEF OneRequest
    <2>3. \A i \in 1 .. Len(executed[j]) : FALSE
        BY <1>4, <2>2 DEF ExecutedOnce
    <2> QED
        BY <2>1, <2>2, <2>3 DEF ExecutedOnce
<1>6. CASE Calls(j)
    <2>1. executed' = executed /\ next'[j] = next[j] + 1
        BY <1>6, ClientEvents
    <2>2. Current(j)' = next[j]
        BY <2>1 DEF Current
    <2>3. \A i \in 1 .. Len(executed[j]) :
              executed'[j][i] < next'[j] /\ executed'[j][i] # Current(j)'
        BY <1>4, <2>1, <2>2 DEF ExecutedOnce
    <2> QED
        BY <2>1, <2>3 DEF ExecutedOnce, Ran
<1>7. CASE Accept(j)
    BY <1>1, <1>3, <1>7, ClientEvents
<1>8. CASE Disconnect(j) \/ Poll(j)
    BY <1>1, <1>3, <1>8, ClientEvents
<1>9. CASE Refused(j) \/ Elsewhere(j)
    BY <1>1, <1>2, <1>9, NothingNewToServe DEF Refused, Elsewhere, Around
<1>10. CASE Forwarded(j)
    BY <1>1, <1>10 DEF Forwarded, Around
<1>11. CASE Serves(j)
    <2> DEFINE n == Len(executed[j])
    <2>1. /\ n \in Nat /\ Len(executed'[j]) = n + 1 /\ executed'[j][n + 1] = Current(j)
          /\ \A i \in 1 .. n : executed'[j][i] = executed[j][i]
        BY <1>11, ServesCurrent
    <2>2. \A i \in 1 .. n : executed[j][i] # Current(j)
        BY <1>11, ServesCurrent DEF Ran
    <2>3. Current(j)' = Current(j) /\ Current(j) < next[j] /\ next'[j] = next[j]
        BY <1>11, ServesCurrent DEF Current
    <2>4. up'[j] = <<>> /\ Unserved(j)' = {}
        BY <1>11, ServesCurrent
    <2>5. \A i \in 1 .. n + 1 : i \in 1 .. n \/ i = n + 1
        BY <2>1
    <2> QED
        BY <2>1, <2>2, <2>3, <2>4, <2>5 DEF ExecutedOnce
<1>12. CASE Routed(j)
    BY <1>1, <1>3, <1>12 DEF Routed, BackendReply, RestartProcess, clientVars, historyVars
<1> QED
    BY <1>5, <1>6, <1>7, <1>8, <1>9, <1>10, <1>11, <1>12, StepSeen

\* Of what the engine says to a connection, what is new is unasked, and last.
LEMMA HeardBefore ==
    ASSUME TypeOK, NEW j \in TextServices, HearsLess(j)
    PROVE  \E shift \in {0, 1} : \A i \in 1 .. Len(stdout') :
               stdout'[i].to = j /\ stdout'[i].kind # "garbage" =>
                   \/ i + shift \in 1 .. Len(stdout) /\ stdout'[i] = stdout[i + shift]
                   \/ /\ i = Len(stdout') /\ j \in known
                      /\ stdout'[i].kind = "async" /\ stdout'[i].seq = 0
<1> USE ConversationTypes
<1> DEFINE Less(shift) ==
               \A i \in 1 .. Len(stdout') :
                   stdout'[i].to = j /\ stdout'[i].kind # "garbage" =>
                       \/ i + shift \in 1 .. Len(stdout) /\ stdout'[i] = stdout[i + shift]
                       \/ /\ i = Len(stdout') /\ j \in known
                          /\ stdout'[i].kind = "async" /\ stdout'[i].seq = 0
<1>1. CASE stdout' = stdout
    BY <1>1
<1>2. CASE stdout # <<>> /\ stdout' = Tail(stdout)
    <2>1. /\ Len(stdout') = Len(stdout) - 1 /\ Len(stdout) \in Nat
          /\ \A i \in 1 .. Len(stdout') : stdout'[i] = stdout[i + 1] /\ i + 1 \in 1 .. Len(stdout)
        BY <1>2
    <2> QED
        BY <2>1
<1>3. CASE stdout' = <<>>
    BY <1>3
<1>4. ASSUME NEW o \in Outputs, stdout' = Append(stdout, o),
             o.to = j /\ o.kind # "garbage" => o.kind = "async" /\ o.seq = 0 /\ j \in known
      PROVE  Less(0)
    <2>1. /\ Len(stdout') = Len(stdout) + 1 /\ Len(stdout) \in Nat
          /\ stdout'[Len(stdout) + 1] = o
          /\ \A i \in 1 .. Len(stdout) : stdout'[i] = stdout[i]
        BY <1>4
    <2> QED
        BY <1>4, <2>1
<1> QED
    BY <1>1, <1>2, <1>3, <1>4 DEF HearsLess

\* What the launcher hands on, and what it leaves of the pipe.
LEMMA RoutedEvent ==
    ASSUME TypeOK, NEW j \in TextServices, Routed(j)
    PROVE  /\ UNCHANGED <<cst, next, up, stdin, known, executed>> /\ HearsLess(j)
           /\ 1 \in 1 .. Len(stdout) /\ stdout[1].to = j /\ stdout[1].kind # "garbage"
           /\ stdout' = Tail(stdout) /\ ~armed'[j]
           /\ \/ down'[j] = down[j]
              \/ \E m \in Responses : /\ m.kind = stdout[1].kind /\ m.seq = stdout[1].seq
                                      /\ down'[j] = Append(down[j], m)
<1> USE ConversationTypes
<1> DEFINE m == [kind |-> Head(stdout).kind, seq |-> Head(stdout).seq]
<1>1. /\ stdout # <<>> /\ stdout' = Tail(stdout) /\ Head(stdout) \in Outputs
      /\ Head(stdout) = stdout[1] /\ 1 \in 1 .. Len(stdout)
    BY DEF Routed, BackendReply
<1>2. m \in Responses
    BY <1>1 DEF Routed, Outputs, Responses
<1>3. down'[j] = Send(j, m) /\ ~armed'[j]
    BY DEF Routed, WritePipe, TypeOK, ClientTypeOK, PipeTypeOK
<1>4. UNCHANGED <<cst, next, up, stdin, known, executed>>
    BY DEF Routed, BackendReply, clientVars, historyVars
<1> QED
    BY <1>1, <1>2, <1>3, <1>4 DEF Routed, Send, HearsLess

LEMMA SuffixFrom ==
    ASSUME NEW S, NEW s \in Seq(S), NEW n \in 1 .. Len(s), NEW rest,
           rest = SubSeq(s, n + 1, Len(s))
    PROVE  \A i \in 1 .. Len(rest) : n + i \in 1 .. Len(s) /\ rest[i] = s[n + i]
OBVIOUS

LEMMA AppendedLast ==
    ASSUME NEW S, NEW s \in Seq(S), NEW e \in S, NEW longer, longer = Append(s, e)
    PROVE  /\ Len(s) \in Nat /\ Len(longer) = Len(s) + 1
           /\ \A i \in 1 .. Len(longer) :
                  \/ i \in 1 .. Len(s) /\ longer[i] = s[i]
                  \/ i = Len(longer) /\ longer[i] = e
OBVIOUS

FollowsNow(j, seq) == seq < next'[j] /\ (seq = Current(j)' => Ran(j)')

LEMMA AnswersPreserved ==
    ASSUME TypeOK, NEW j \in TextServices, OneRequest(j), ExecutedOnce(j),
           AnswersFollowExecution(j), [Next]_vars
    PROVE  AnswersFollowExecution(j)'
<1> /\ j \in Conns /\ next[j] \in Nat /\ down[j] \in Seq(Responses)
    /\ stdout \in Seq(Outputs) /\ executed[j] \in Seq(Nat)
    BY ConversationTypes
<1>0. /\ \A i \in 1 .. Len(down[j]) : Answering(down[j][i]) => Follows(j, down[j][i].seq)
      /\ \A i \in 1 .. Len(stdout) :
             stdout[i].to = j /\ stdout[i].kind # "garbage" => Follows(j, stdout[i].seq)
      /\ j \in known => Follows(j, 0)
    BY DEF AnswersFollowExecution, Follows
\* It is enough that what was there still follows, and that what is new does.
<1>1. ASSUME \A seq \in Nat : Follows(j, seq) => FollowsNow(j, seq),
             \A i \in 1 .. Len(down'[j]) : Answering(down'[j][i]) =>
                 FollowsNow(j, down'[j][i].seq) \/ \E n \in 1 .. Len(down[j]) : down'[j][i] = down[j][n],
             \A i \in 1 .. Len(stdout') : stdout'[i].to = j /\ stdout'[i].kind # "garbage" =>
                 FollowsNow(j, stdout'[i].seq) \/ \E n \in 1 .. Len(stdout) : stdout'[i] = stdout[n],
             j \in known' => FollowsNow(j, 0) \/ j \in known
      PROVE  AnswersFollowExecution(j)'
    <2>1. /\ \A i \in 1 .. Len(down[j]) : down[j][i].seq \in Nat
          /\ \A i \in 1 .. Len(stdout) : stdout[i].seq \in Nat
        <3>1. Seqs \subseteq Nat
            BY BoundsAssumption DEF Seqs
        <3>2. /\ \A i \in 1 .. Len(down[j]) : down[j][i] \in Responses
              /\ \A i \in 1 .. Len(stdout) : stdout[i] \in Outputs
            BY ElementOfSeq
        <3> QED
            BY <3>1, <3>2 DEF Responses, Outputs
    <2>2. /\ \A i \in 1 .. Len(down'[j]) : Answering(down'[j][i]) => FollowsNow(j, down'[j][i].seq)
          /\ \A i \in 1 .. Len(stdout') :
                 stdout'[i].to = j /\ stdout'[i].kind # "garbage" => FollowsNow(j, stdout'[i].seq)
          /\ j \in known' => FollowsNow(j, 0)
        <3>1. \A seq \in Nat : Follows(j, seq) => FollowsNow(j, seq)
            BY <1>1
        <3>2. \A i \in 1 .. Len(down'[j]) : Answering(down'[j][i]) => FollowsNow(j, down'[j][i].seq)
            BY <1>0, <1>1, <2>1, <3>1, Zenon
        <3>3. \A i \in 1 .. Len(stdout') :
                  stdout'[i].to = j /\ stdout'[i].kind # "garbage" => FollowsNow(j, stdout'[i].seq)
            <4> SUFFICES ASSUME NEW i \in 1 .. Len(stdout'), stdout'[i].to = j,
                                stdout'[i].kind # "garbage"
                         PROVE  FollowsNow(j, stdout'[i].seq)
                OBVIOUS
            <4>1. FollowsNow(j, stdout'[i].seq) \/ \E n \in 1 .. Len(stdout) : stdout'[i] = stdout[n]
                BY <1>1
            <4>2. ASSUME NEW n \in 1 .. Len(stdout), stdout'[i] = stdout[n]
                  PROVE  FollowsNow(j, stdout'[i].seq)
                BY <1>0, <2>1, <3>1, <4>2
            <4> QED
                BY <4>1, <4>2
        <3> QED
            BY <1>0, <1>1, <3>1, <3>2, <3>3
    <2> QED
        BY <2>2 DEF AnswersFollowExecution, Follows, FollowsNow
<1>2. next'[j] = next[j] /\ executed'[j] = executed[j] =>
          \A seq \in Nat : Follows(j, seq) => FollowsNow(j, seq)
    BY DEF Follows, FollowsNow, Current, Ran
<1>3. ASSUME RefusedOnly(j)
      PROVE  \A i \in 1 .. Len(down'[j]) : Answering(down'[j][i]) =>
                 \E n \in 1 .. Len(down[j]) : down'[j][i] = down[j][n]
    <2>1. ASSUME NEW s \in Seqs, down'[j] = Append(down[j], [kind |-> "error", seq |-> s])
          PROVE  \A i \in 1 .. Len(down'[j]) : Answering(down'[j][i]) =>
                     i \in 1 .. Len(down[j]) /\ down'[j][i] = down[j][i]
        <3>1. /\ Len(down[j]) \in Nat /\ Len(down'[j]) = Len(down[j]) + 1
              /\ down'[j][Len(down[j]) + 1].kind = "error"
              /\ \A i \in 1 .. Len(down[j]) : down'[j][i] = down[j][i]
            BY <2>1 DEF Responses
        <3> QED
            BY <3>1 DEF Answering
    <2> QED
        BY <1>3, <2>1 DEF RefusedOnly
<1>4. ASSUME HearsLess(j)
      PROVE  \A i \in 1 .. Len(stdout') : stdout'[i].to = j /\ stdout'[i].kind # "garbage" =>
                 \/ stdout'[i].seq = 0 /\ j \in known
                 \/ \E n \in 1 .. Len(stdout) : stdout'[i] = stdout[n]
    BY <1>4, HeardBefore
<1>5. ASSUME Around(j), RefusedOnly(j) \/ down'[j] = down[j]
      PROVE  AnswersFollowExecution(j)'
    BY <1>0, <1>1, <1>2, <1>3, <1>4, <1>5 DEF Around
<1>6. CASE Elsewhere(j) \/ Refused(j) \/ Forwarded(j)
    BY <1>5, <1>6 DEF Elsewhere, Refused, Forwarded
<1>7. CASE Connect(j)
    <2>1. next[j] = 0 /\ UNCHANGED <<stdout, known>> /\ down'[j] = down[j]
        BY <1>7, ClientEvents DEF OneRequest
    <2>2. \A seq \in Nat : ~Follows(j, seq)
        BY <2>1 DEF Follows
    <2> QED
        BY <1>1, <2>1, <2>2
<1>8. CASE Calls(j)
    <2>1. UNCHANGED <<stdout, known>> /\ down'[j] = down[j] /\ next'[j] = next[j] + 1
        BY <1>8, ClientEvents
    <2>2. Current(j)' = next[j]
        BY <2>1 DEF Current
    <2>3. \A seq \in Nat : Follows(j, seq) => FollowsNow(j, seq)
        BY <2>1, <2>2 DEF Follows, FollowsNow
    <2> QED
        BY <1>1, <2>1, <2>3
<1>9. CASE Accept(j)
    <2>1. /\ next'[j] = next[j] /\ UNCHANGED <<stdout, known, executed>>
          /\ \E i \in 1 .. Len(down[j]) : down'[j] = SubSeq(down[j], i + 1, Len(down[j]))
        BY <1>9, ClientEvents
    <2>2. PICK n \in 1 .. Len(down[j]) : down'[j] = SubSeq(down[j], n + 1, Len(down[j]))
        BY <2>1
    <2>3. \A i \in 1 .. Len(down'[j]) : n + i \in 1 .. Len(down[j]) /\ down'[j][i] = down[j][n + i]
        BY <2>2, SuffixFrom
    <2> QED
        BY <1>1, <1>2, <2>1, <2>3
<1>10. CASE Disconnect(j) \/ Poll(j)
    <2>1. /\ next'[j] = next[j] /\ UNCHANGED <<stdout, known, executed>> /\ down'[j] = <<>>
        BY <1>10, ClientEvents
    <2> QED
        BY <1>1, <1>2, <2>1
<1>11. CASE Serves(j)
    <2>1. /\ next'[j] = next[j] /\ down'[j] = down[j] /\ Current(j) \in Nat
          /\ executed'[j] = Append(executed[j], Current(j))
        BY <1>11, ServesCurrent
    <2>2. Current(j)' = Current(j) /\ Current(j) < next[j]
        BY <2>1 DEF Current
    <2>3. Ran(j)'
        <3>1. Len(executed'[j]) = Len(executed[j]) + 1 /\ Len(executed[j]) \in Nat
              /\ executed'[j][Len(executed[j]) + 1] = Current(j)
            BY <2>1
        <3> QED
            BY <2>2, <3>1 DEF Ran
    <2>4. \A seq \in Nat : seq < next[j] => FollowsNow(j, seq)
        BY <2>1, <2>3 DEF FollowsNow
    <2>5. \A i \in 1 .. Len(stdout') :
              stdout'[i].seq = Current(j) \/ \E n \in 1 .. Len(stdout) : stdout'[i] = stdout[n]
        <3>1. CASE stdout' = stdout
            BY <3>1
        <3>2. ASSUME NEW o \in Outputs, o.seq = Current(j), stdout' = Append(stdout, o)
              PROVE  \A i \in 1 .. Len(stdout') :
                         stdout'[i].seq = Current(j) \/ \E n \in 1 .. Len(stdout) : stdout'[i] = stdout[n]
            BY <3>2, AppendedLast
        <3> QED
            BY <1>11, <3>1, <3>2, ServesCurrent
    <2>6. FollowsNow(j, 0) /\ FollowsNow(j, Current(j))
        BY <2>1, <2>2, <2>4
    <2> QED
        BY <1>1, <2>1, <2>2, <2>4, <2>5, <2>6 DEF Follows
<1>12. CASE Routed(j)
    <2>1. /\ UNCHANGED <<next, executed, known>> /\ HearsLess(j)
          /\ 1 \in 1 .. Len(stdout) /\ stdout[1].to = j /\ stdout[1].kind # "garbage"
        BY <1>12, RoutedEvent
    <2>2. FollowsNow(j, stdout[1].seq) /\ stdout[1].seq \in Nat
        <3>1. stdout[1].seq \in Nat
            <4>1. stdout[1] \in Outputs
                BY <2>1, ElementOfSeq
            <4> QED
                BY <4>1, BoundsAssumption DEF Outputs, Seqs
        <3> QED
            BY <1>0, <1>2, <2>1, <3>1
    <2>3. \A i \in 1 .. Len(down'[j]) :
              down'[j][i].seq = stdout[1].seq \/ \E n \in 1 .. Len(down[j]) : down'[j][i] = down[j][n]
        <3>1. CASE down'[j] = down[j]
            BY <3>1
        <3>2. ASSUME NEW m \in Responses, m.seq = stdout[1].seq, down'[j] = Append(down[j], m)
              PROVE  \A i \in 1 .. Len(down'[j]) :
                         \/ down'[j][i].seq = stdout[1].seq
                         \/ \E n \in 1 .. Len(down[j]) : down'[j][i] = down[j][n]
            BY <3>2, AppendedLast
        <3> QED
            BY <1>12, <3>1, <3>2, RoutedEvent
    <2> QED
        BY <1>0, <1>1, <1>2, <1>4, <2>1, <2>2, <2>3
<1> QED
    BY <1>6, <1>7, <1>8, <1>9, <1>10, <1>11, <1>12, StepSeen

-----------------------------------------------------------------------------
(* A reply is the first thing to answer, and comes to a caller that waits.  *)

AnswersNow(j, m) == Answering(m) /\ m.seq = Current(j)'
TimelyNow(j, m) == cst'[j] # "idle" /\ (cst'[j] = "waiting" => m.seq = Current(j)')

\* RepliesComeFirst in the next state, one reply at a time.
LEMMA RepliesNow ==
    ASSUME NEW j \in TextServices,
           \A i \in 1 .. Len(down'[j]) : down'[j][i].kind = "reply" =>
               /\ TimelyNow(j, down'[j][i])
               /\ \A n \in 1 .. i - 1 : ~AnswersNow(j, down'[j][n]),
           \A i \in 1 .. Len(stdout') : stdout'[i].to = j /\ stdout'[i].kind = "reply" =>
               /\ TimelyNow(j, stdout'[i])
               /\ \A n \in 1 .. Len(stdout') :
                      stdout'[n].to = j /\ n < i => ~AnswersNow(j, stdout'[n])
               /\ \A n \in 1 .. Len(down'[j]) : ~AnswersNow(j, down'[j][n])
    PROVE  RepliesComeFirst(j)'
BY DEF RepliesComeFirst, TimelyNow, AnswersNow, Timely, Answers

\* What stays in its order stays in front.
LEMMA RepliesStayFirst ==
    ASSUME TypeOK, NEW j \in TextServices, RepliesComeFirst(j), HearsLess(j),
           next'[j] = next[j], cst'[j] = cst[j] \/ cst'[j] = "closed",
           \A i \in 1 .. Len(down'[j]) : Answering(down'[j][i]) =>
               i \in 1 .. Len(down[j]) /\ down'[j][i] = down[j][i]
    PROVE  RepliesComeFirst(j)'
<1> /\ down[j] \in Seq(Responses) /\ stdout \in Seq(Outputs)
    BY ConversationTypes
<1>1. \A m : /\ AnswersNow(j, m) <=> Answers(j, m)
             /\ Timely(j, m) => TimelyNow(j, m)
    BY DEF Answers, AnswersNow, Timely, TimelyNow, Current
<1>2. ASSUME NEW i \in 1 .. Len(down'[j]), down'[j][i].kind = "reply"
      PROVE  /\ TimelyNow(j, down'[j][i])
             /\ \A n \in 1 .. i - 1 : ~AnswersNow(j, down'[j][n])
    <2>1. i \in 1 .. Len(down[j]) /\ down'[j][i] = down[j][i]
        BY <1>2 DEF Answering
    <2>2. Timely(j, down[j][i]) /\ \A n \in 1 .. i - 1 : ~Answers(j, down[j][n])
        BY <1>2, <2>1 DEF RepliesComeFirst
    <2>3. ASSUME NEW n \in 1 .. i - 1, Answers(j, down'[j][n])
          PROVE  FALSE
        <3>1. n \in 1 .. Len(down'[j])
            BY <2>1
        <3> QED
            BY <2>2, <2>3, <3>1 DEF Answers
    <2> QED
        BY <1>1, <2>1, <2>2, <2>3
<1>3. PICK shift \in {0, 1} : \A i \in 1 .. Len(stdout') :
           stdout'[i].to = j /\ stdout'[i].kind # "garbage" =>
               \/ i + shift \in 1 .. Len(stdout) /\ stdout'[i] = stdout[i + shift]
               \/ /\ i = Len(stdout') /\ j \in known
                  /\ stdout'[i].kind = "async" /\ stdout'[i].seq = 0
    BY HeardBefore
<1>4. ASSUME NEW i \in 1 .. Len(stdout'), stdout'[i].to = j, stdout'[i].kind = "reply"
      PROVE  /\ TimelyNow(j, stdout'[i])
             /\ \A n \in 1 .. Len(stdout') :
                    stdout'[n].to = j /\ n < i => ~AnswersNow(j, stdout'[n])
             /\ \A n \in 1 .. Len(down'[j]) : ~AnswersNow(j, down'[j][n])
    <2>1. i + shift \in 1 .. Len(stdout) /\ stdout'[i] = stdout[i + shift]
        BY <1>3, <1>4
    <2>2. /\ Timely(j, stdout[i + shift])
          /\ \A n \in 1 .. Len(stdout) :
                 stdout[n].to = j /\ n < i + shift => ~Answers(j, stdout[n])
          /\ \A n \in 1 .. Len(down[j]) : ~Answers(j, down[j][n])
        BY <1>4, <2>1 DEF RepliesComeFirst
    <2>3. ASSUME NEW n \in 1 .. Len(stdout'), stdout'[n].to = j, n < i, Answers(j, stdout'[n])
          PROVE  FALSE
        <3>1. n + shift \in 1 .. Len(stdout) /\ stdout'[n] = stdout[n + shift] /\ n + shift < i + shift
            BY <1>3, <2>1, <2>3 DEF Answers, Answering
        <3> QED
            BY <2>2, <2>3, <3>1
    <2>4. \A n \in 1 .. Len(down'[j]) : ~Answers(j, down'[j][n])
        BY <2>2 DEF Answers
    <2> QED
        BY <1>1, <2>1, <2>2, <2>3, <2>4
<1> QED
    BY <1>2, <1>4, RepliesNow

LEMMA RepliesPreserved ==
    ASSUME TypeOK, NEW j \in TextServices, OneRequest(j), ExecutedOnce(j),
           AnswersFollowExecution(j), RepliesComeFirst(j), [Next]_vars
    PROVE  RepliesComeFirst(j)'
<1> /\ down[j] \in Seq(Responses) /\ stdout \in Seq(Outputs)
    BY ConversationTypes
<1>0. ASSUME \A i \in 1 .. Len(down'[j]) : down'[j][i].kind # "reply",
             \A i \in 1 .. Len(stdout') : stdout'[i].to = j => stdout'[i].kind # "reply"
      PROVE  RepliesComeFirst(j)'
    BY <1>0, RepliesNow
<1>1. HearsLess(j) \/ stdout' # stdout
    BY DEF HearsLess
<1>2. CASE Elsewhere(j) \/ Refused(j) \/ Forwarded(j)
    <2>1. \A i \in 1 .. Len(down'[j]) : Answering(down'[j][i]) =>
              i \in 1 .. Len(down[j]) /\ down'[j][i] = down[j][i]
        <3>1. ASSUME NEW seq \in Seqs, down'[j] = Append(down[j], [kind |-> "error", seq |-> seq])
              PROVE  \A i \in 1 .. Len(down'[j]) : Answering(down'[j][i]) =>
                         i \in 1 .. Len(down[j]) /\ down'[j][i] = down[j][i]
            BY <3>1, AppendedLast DEF Responses, Answering
        <3>2. RefusedOnly(j) \/ down'[j] = down[j]
            BY <1>2 DEF Elsewhere, Refused, Forwarded
        <3> QED
            BY <3>1, <3>2 DEF RefusedOnly
    <2>2. next'[j] = next[j] /\ cst'[j] = cst[j] /\ HearsLess(j)
        BY <1>2 DEF Elsewhere, Refused, Forwarded, Around
    <2> QED
        BY <2>1, <2>2, RepliesStayFirst
<1>3. CASE Connect(j)
    <2>1. next[j] = 0 /\ stdout' = stdout /\ down'[j] = down[j]
        BY <1>3, ClientEvents DEF OneRequest
    <2>2. /\ \A i \in 1 .. Len(down[j]) : down[j][i] \in Responses
          /\ \A i \in 1 .. Len(stdout) : stdout[i] \in Outputs
        BY ElementOfSeq
    <2>3. \A m \in Responses \cup Outputs : ~Follows(j, m.seq)
        BY <2>1, BoundsAssumption DEF Follows, Responses, Outputs, Seqs
    <2> QED
        BY <1>0, <2>1, <2>2, <2>3 DEF AnswersFollowExecution, Answering
<1>4. CASE Calls(j)
    BY <1>0, <1>4, ClientEvents DEF RepliesComeFirst, Timely
<1>5. CASE Accept(j)
    <2>1. PICK n \in 1 .. Len(down[j]) :
              Succeeds(j, n) /\ down'[j] = SubSeq(down[j], n + 1, Len(down[j]))
        BY <1>5, ClientEvents
    <2>2. Answers(j, down[j][n]) /\ stdout' = stdout
        BY <1>5, <2>1, AcceptsAnswer, ClientEvents DEF Answers
    <2>3. \A i \in 1 .. Len(down'[j]) : n + i \in 1 .. Len(down[j]) /\ down'[j][i] = down[j][n + i]
        BY <2>1, SuffixFrom
    <2>4. \A i \in 1 .. Len(down'[j]) : down'[j][i].kind # "reply"
        <3>1. \A i \in 1 .. Len(down'[j]) : n \in 1 .. (n + i) - 1
            OBVIOUS
        <3> QED
            BY <2>2, <2>3, <3>1 DEF RepliesComeFirst
    <2>5. \A i \in 1 .. Len(stdout) : stdout[i].to = j => stdout[i].kind # "reply"
        BY <2>2 DEF RepliesComeFirst
    <2> QED
        BY <1>0, <2>2, <2>4, <2>5
<1>6. CASE Disconnect(j) \/ Poll(j)
    <2>1. /\ next'[j] = next[j] /\ stdout' = stdout /\ down'[j] = <<>>
          /\ cst'[j] = cst[j] \/ cst'[j] = "closed"
        BY <1>6, ClientEvents
    <2> QED
        BY <1>1, <2>1, RepliesStayFirst
<1>7. CASE Serves(j)
    <2>1. /\ next'[j] = next[j] /\ cst'[j] = cst[j] /\ down'[j] = down[j]
          /\ ~Ran(j) /\ cst[j] # "idle"
        BY <1>7, ServesCurrent
    <2>2. CASE stdout' = stdout
        BY <1>1, <2>1, <2>2, RepliesStayFirst
    <2>3. ASSUME NEW o \in Outputs, o.to = j, o.seq = Current(j), stdout' = Append(stdout, o)
          PROVE  RepliesComeFirst(j)'
        <3>1. /\ \A n \in 1 .. Len(down[j]) : ~Answers(j, down[j][n])
              /\ \A n \in 1 .. Len(stdout) : stdout[n].to = j => ~Answers(j, stdout[n])
            BY <2>1 DEF AnswersFollowExecution, Follows, Answers, Answering
        <3>2. \A m : /\ AnswersNow(j, m) <=> Answers(j, m)
                     /\ TimelyNow(j, m) <=> Timely(j, m)
            BY <2>1 DEF Answers, AnswersNow, Timely, TimelyNow, Current
        <3>3. /\ Len(stdout) \in Nat
              /\ \A i \in 1 .. Len(stdout') :
                     \/ i \in 1 .. Len(stdout) /\ stdout'[i] = stdout[i]
                     \/ i = Len(stdout') /\ stdout'[i] = o
            BY <2>3, AppendedLast
        <3>4. Timely(j, o)
            BY <2>1, <2>3 DEF Timely
        <3>5. ASSUME NEW i \in 1 .. Len(stdout'), stdout'[i].to = j, stdout'[i].kind = "reply"
              PROVE  /\ TimelyNow(j, stdout'[i])
                     /\ \A n \in 1 .. Len(stdout') :
                            stdout'[n].to = j /\ n < i => ~AnswersNow(j, stdout'[n])
            <4>1. TimelyNow(j, stdout'[i])
                BY <3>2, <3>3, <3>4, <3>5 DEF RepliesComeFirst
            <4>2. \A n \in 1 .. Len(stdout') : n < i => n \in 1 .. Len(stdout) /\ stdout'[n] = stdout[n]
                BY <3>3
            <4> QED
                BY <3>1, <3>2, <4>1, <4>2
        <3>6. \A i \in 1 .. Len(down[j]) : down[j][i].kind = "reply" =>
                  /\ TimelyNow(j, down[j][i])
                  /\ \A n \in 1 .. i - 1 : ~AnswersNow(j, down[j][n])
            BY <3>2 DEF RepliesComeFirst
        <3> QED
            BY <2>1, <3>1, <3>2, <3>5, <3>6, RepliesNow
    <2> QED
        BY <1>7, <2>2, <2>3, ServesCurrent
<1>8. CASE Routed(j)
    <2>1. /\ next'[j] = next[j] /\ cst'[j] = cst[j] /\ HearsLess(j)
          /\ 1 \in 1 .. Len(stdout) /\ stdout[1].to = j /\ stdout' = Tail(stdout)
        BY <1>8, RoutedEvent
    <2>2. CASE down'[j] = down[j]
        BY <2>1, <2>2, RepliesStayFirst
    <2>3. ASSUME NEW m \in Responses, m.kind = stdout[1].kind, m.seq = stdout[1].seq,
                 down'[j] = Append(down[j], m)
          PROVE  RepliesComeFirst(j)'
        <3>1. \A x : /\ AnswersNow(j, x) <=> Answers(j, x)
                     /\ TimelyNow(j, x) <=> Timely(j, x)
            BY <2>1 DEF Answers, AnswersNow, Timely, TimelyNow, Current
        <3>2. /\ Len(down[j]) \in Nat
              /\ \A i \in 1 .. Len(down'[j]) :
                     \/ i \in 1 .. Len(down[j]) /\ down'[j][i] = down[j][i]
                     \/ i = Len(down'[j]) /\ down'[j][i] = m
            BY <2>3, AppendedLast
        <3>3. /\ Len(stdout) \in Nat
              /\ \A i \in 1 .. Len(stdout') :
                     i + 1 \in 1 .. Len(stdout) /\ stdout'[i] = stdout[i + 1] /\ 1 < i + 1
            BY <2>1
        <3>4. m.kind = "reply" => Timely(j, m) /\ \A n \in 1 .. Len(down[j]) : ~Answers(j, down[j][n])
            BY <2>1, <2>3 DEF RepliesComeFirst, Timely
        <3>5. ASSUME NEW i \in 1 .. Len(down'[j]), down'[j][i].kind = "reply"
              PROVE  /\ TimelyNow(j, down'[j][i])
                     /\ \A n \in 1 .. i - 1 : ~AnswersNow(j, down'[j][n])
            <4>1. \A n \in 1 .. i - 1 : n \in 1 .. Len(down[j]) /\ down'[j][n] = down[j][n]
                BY <3>2
            <4>2. Timely(j, down'[j][i]) /\ \A n \in 1 .. i - 1 : ~Answers(j, down[j][n])
                BY <3>2, <3>4, <3>5, <4>1 DEF RepliesComeFirst
            <4> QED
                BY <3>1, <4>1, <4>2
        <3>6. ASSUME NEW i \in 1 .. Len(stdout'), stdout'[i].to = j, stdout'[i].kind = "reply"
              PROVE  /\ TimelyNow(j, stdout'[i])
                     /\ \A n \in 1 .. Len(stdout') :
                            stdout'[n].to = j /\ n < i => ~AnswersNow(j, stdout'[n])
                     /\ \A n \in 1 .. Len(down'[j]) : ~AnswersNow(j, down'[j][n])
            <4>1. /\ Timely(j, stdout[i + 1])
                  /\ \A n \in 1 .. Len(stdout) :
                         stdout[n].to = j /\ n < i + 1 => ~Answers(j, stdout[n])
                  /\ \A n \in 1 .. Len(down[j]) : ~Answers(j, down[j][n])
                BY <3>3, <3>6 DEF RepliesComeFirst
            <4>2. ~Answers(j, stdout[1]) /\ ~Answers(j, m)
                BY <2>1, <2>3, <3>3, <4>1 DEF Answers, Answering
            <4>3. \A n \in 1 .. Len(stdout') : n < i => n + 1 < i + 1
                BY <3>3
            <4>4. \A n \in 1 .. Len(stdout') :
                      stdout'[n].to = j /\ n < i => ~Answers(j, stdout'[n])
                BY <3>3, <4>1, <4>3
            <4>5. \A n \in 1 .. Len(down'[j]) : ~Answers(j, down'[j][n])
                BY <3>2, <4>1, <4>2
            <4> QED
                BY <3>1, <3>3, <4>1, <4>4, <4>5
        <3> QED
            BY <3>5, <3>6, RepliesNow
    <2> QED
        BY <1>8, <2>2, <2>3, RoutedEvent
<1> QED
    BY <1>2, <1>3, <1>4, <1>5, <1>6, <1>7, <1>8, StepSeen

-----------------------------------------------------------------------------
(* Timers.                                                                 *)

\* A timer is started for the request taken off the pipe, and for nothing else.
LEMMA TimerSeen ==
    ASSUME TypeOK, NEW j \in Conns, [Next]_vars
    PROVE  \/ TimerKept(j)
           \/ /\ HandleClientMessage(j) /\ up[j] # <<>>
              /\ pending'[j] = Head(up[j]).seq
<1>1. UNCHANGED timerVars => TimerKept(j)
    BY DEF timerVars, TimerKept
<1>2. ASSUME NEW ks, NEW seq, WriteErrors(ks, seq)
      PROVE  TimerKept(j)
    BY <1>2 DEF WriteErrors, TimerKept
<1>3. ASSUME NEW k \in Conns, NEW m, WritePipe(k, m)
      PROVE  TimerKept(j)
    BY <1>3 DEF WritePipe, TypeOK, PipeTypeOK, TimerKept
<1>4. ASSUME NEW k \in Conns, ClientStep(k)
      PROVE  TimerKept(j)
    BY <1>1, <1>4
    DEF ClientStep, Connect, Call, Ask, Accept, Reject, SettingsAccept, SettingsFinish,
        Poll, Flush, Busy, PipeBroken, Hangup, Disconnect
<1>5. ASSUME NEW k \in Conns, HandleClientMessage(k)
      PROVE  TimerKept(j) \/ (k = j /\ up[j] # <<>> /\ pending'[j] = Head(up[j]).seq)
    <2>1. CASE RefuseFrame(k) \/ RefuseUnbound(k, Head(up[k])) \/ AnswerSettings(k, Head(up[k]))
        <3>1. RefuseFrame(k) => TimerKept(j)
            BY <1>2 DEF RefuseFrame
        <3>2. RefuseUnbound(k, Head(up[k])) => TimerKept(j)
            BY <1>1, <1>2 DEF RefuseUnbound, timerVars
        <3>3. AnswerSettings(k, Head(up[k])) => TimerKept(j)
            BY <1>1 DEF AnswerSettings, timerVars
        <3> QED
            BY <2>1, <3>1, <3>2, <3>3
    <2>2. CASE Forward(k, Head(up[k]))
        <3>1. \/ armed' = [armed EXCEPT ![k] = FALSE] /\ pending' = [pending EXCEPT ![k] = 0]
              \/ /\ armed' = [armed EXCEPT ![k] = TRUE]
                 /\ pending' = [pending EXCEPT ![k] = Head(up[k]).seq]
            BY <2>2 DEF Forward
        <3>2. up[k] # <<>>
            BY <1>5 DEF HandleClientMessage
        <3> QED
            <4>1. CASE k = j
                BY <3>1, <3>2, <4>1 DEF TypeOK, PipeTypeOK, TimerKept
            <4>2. CASE k # j
                BY <3>1, <4>2 DEF TypeOK, PipeTypeOK, TimerKept
            <4> QED
                BY <4>1, <4>2
    <2> QED
        BY <1>5, <2>1, <2>2, Zenon DEF HandleClientMessage
<1>6. ASSUME NEW k \in Conns, ClientReadError(k) \/ CloseDone(k) \/ Timeout(k)
      PROVE  TimerKept(j)
    BY <1>1, <1>2, <1>6 DEF ClientReadError, CloseDone, Timeout, TypeOK, PipeTypeOK, TimerKept
<1>7. ASSUME BackendStep
      PROVE  TimerKept(j)
    <2>1. stdout # <<>> => Head(stdout).to \in Conns
        <3>1. stdout # <<>> => Head(stdout) \in Outputs
            BY HeadTailProperties DEF TypeOK, BackendTypeOK
        <3> QED
            BY <3>1 DEF Outputs
    <2> QED
        BY <1>1, <1>2, <1>3, <1>7, <2>1 DEF BackendStep, BackendReply, BackendReadError
<1>8. ASSUME TrayStep \/ EngineStep \/ UNCHANGED vars
      PROVE  TimerKept(j)
    BY <1>1, <1>8
    DEF TrayStep, TrayRestart, TrayRedeploy, TrayTerminate, Shutdown, EngineStep, Serve,
        EmitAsync, EmitGarbage, Exit, vars, timerVars
<1> QED
    BY <1>4, <1>5, <1>6, <1>7, <1>8 DEF Next, LauncherStep

LEMMA UnnumberedPreserved ==
    ASSUME TypeOK, NEW j \in TextServices, OneRequest(j), ExecutedOnce(j),
           AnswersFollowExecution(j), UnnumberedTimer(j), [Next]_vars
    PROVE  UnnumberedTimer(j)'
<1> /\ j \in Conns /\ next[j] \in Nat /\ down[j] \in Seq(Responses)
    /\ up[j] \in Seq(Requests)
    BY ConversationTypes
<1>1. ASSUME TimerKept(j), next'[j] = next[j], cst'[j] = cst[j] \/ cst'[j] = "closed",
             \A i \in 1 .. Len(down'[j]) : Answering(down'[j][i]) =>
                 \E n \in 1 .. Len(down[j]) : down'[j][i] = down[j][n]
      PROVE  UnnumberedTimer(j)'
    BY <1>1 DEF UnnumberedTimer, TimerKept
<1>2. ASSUME RefusedOnly(j)
      PROVE  \A i \in 1 .. Len(down'[j]) : Answering(down'[j][i]) =>
                 \E n \in 1 .. Len(down[j]) : down'[j][i] = down[j][n]
    <2>1. ASSUME NEW seq \in Seqs, down'[j] = Append(down[j], [kind |-> "error", seq |-> seq])
          PROVE  \A i \in 1 .. Len(down'[j]) : Answering(down'[j][i]) =>
                     i \in 1 .. Len(down[j]) /\ down'[j][i] = down[j][i]
        BY <2>1, AppendedLast DEF Responses, Answering
    <2> QED
        BY <1>2, <2>1 DEF RefusedOnly
<1>3. CASE Elsewhere(j) \/ Refused(j)
    BY <1>1, <1>2, <1>3 DEF Elsewhere, Refused, Around
<1>4. CASE Connect(j) \/ Calls(j)
    <2>1. cst[j] \in {"none", "idle"} /\ armed' = armed /\ pending' = pending
        BY <1>4, ClientEvents
    <2> QED
        BY <2>1 DEF UnnumberedTimer
<1>5. CASE Accept(j)
    <2>1. /\ armed' = armed /\ pending' = pending
          /\ \E n \in 1 .. Len(down[j]) : Succeeds(j, n)
        BY <1>5, ClientEvents
    <2>2. \E n \in 1 .. Len(down[j]) : Answering(down[j][n])
        BY <2>1, AcceptsAnswer
    <2> QED
        BY <2>1, <2>2 DEF UnnumberedTimer
<1>6. CASE Disconnect(j) \/ Poll(j)
    <2>1. /\ next'[j] = next[j] /\ down'[j] = <<>> /\ TimerKept(j)
          /\ cst'[j] = cst[j] \/ cst'[j] = "closed"
        BY <1>6, ClientEvents DEF TimerKept
    <2> QED
        BY <1>1, <2>1
<1>7. CASE Serves(j)
    <2>1. /\ next'[j] = next[j] /\ cst'[j] = cst[j] /\ down'[j] = down[j] /\ TimerKept(j)
        BY <1>7, ServesCurrent DEF TimerKept
    <2> QED
        BY <1>1, <2>1
<1>8. CASE Routed(j)
    BY <1>8, RoutedEvent DEF UnnumberedTimer
<1>9. CASE Forwarded(j)
    <2>1. /\ next'[j] = next[j] /\ cst'[j] = cst[j] /\ down'[j] = down[j]
          /\ up[j] # <<>> /\ pending'[j] = Head(up[j]).seq
        BY <1>9 DEF Forwarded, Around
    <2>2. Head(up[j]) = up[j][1] /\ 1 \in 1 .. Len(up[j])
        BY <2>1
    <2>3. pending'[j] = next[j] - 1 /\ cst[j] \in {"waiting", "closed"} /\ ~Ran(j)
        BY <2>1, <2>2, ConversationTypes DEF OneRequest, ExecutedOnce, Current
    <2>4. ASSUME pending'[j] = 0, NEW i \in 1 .. Len(down[j]), Answering(down[j][i])
          PROVE  FALSE
        <3>1. down[j][i].seq \in Nat
            <4>1. down[j][i] \in Responses
                BY ElementOfSeq
            <4> QED
                BY <4>1, BoundsAssumption DEF Responses, Seqs
        <3>2. Follows(j, down[j][i].seq)
            BY <2>4 DEF AnswersFollowExecution
        <3> QED
            BY <2>3, <2>4, <3>1, <3>2 DEF Follows, Current
    <2> QED
        BY <2>1, <2>3, <2>4 DEF UnnumberedTimer
<1> QED
    BY <1>3, <1>4, <1>5, <1>6, <1>7, <1>8, <1>9, StepSeen

\* The settings app never asks with number 0, so its timers are numbered.
LEMMA SettingsPreserved ==
    ASSUME TypeOK, NEW j \in SettingsApps, SettingsAreNumbered(j), UnnumberedTimer(j),
           [Next]_vars
    PROVE  SettingsAreNumbered(j)' /\ UnnumberedTimer(j)'
<1> /\ j \in Conns /\ j \notin TextServices /\ up[j] \in Seq(Requests) /\ next[j] \in Nat
    BY ConnsAssumption, BoundsAssumption DEF TextServices, TypeOK, ClientTypeOK, Seqs
<1>1. \/ next'[j] = 1
      \/ cst[j] # "none" /\ next'[j] = next[j] + 1
      \/ (cst'[j] # "none" => cst[j] # "none") /\ next'[j] = next[j]
    <2>1. ASSUME NEW k \in Conns, Connect(k) \/ Call(k)
          PROVE  \/ next'[j] = 1
                 \/ cst[j] # "none" /\ next'[j] = next[j] + 1
                 \/ cst'[j] = cst[j] /\ next'[j] = next[j]
        BY <2>1 DEF Connect, Call, Ask, TypeOK, ClientTypeOK
    <2>2. ASSUME NEW k \in Conns, ClientStep(k), ~Connect(k), ~Call(k)
          PROVE  (cst'[j] # "none" => cst[j] # "none") /\ next' = next
        BY <2>2
        DEF ClientStep, Accept, Reject, SettingsAccept, SettingsFinish, Poll, Flush, Busy,
            PipeBroken, Hangup, Disconnect, TypeOK, ClientTypeOK
    <2>3. (\A k \in Conns : ~ClientStep(k)) => UNCHANGED <<cst, next>>
        BY DEF Next, vars, clientVars, LauncherStep, HandleClientMessage, ClientReadError,
               CloseDone, Timeout, BackendStep, BackendReply, BackendReadError, TrayStep,
               TrayRestart, TrayRedeploy, TrayTerminate, Shutdown, EngineStep, Serve,
               EmitAsync, EmitGarbage, Exit
    <2> QED
        BY <2>1, <2>2, <2>3
<1>2. \/ up'[j] = up[j]
      \/ up[j] # <<>> /\ up'[j] = Tail(up[j])
      \/ \E r \in Requests : cst[j] # "none" /\ r.seq = next[j] /\ up'[j] = Append(up[j], r)
    <2>1. ASSUME NEW method \in ClientMethods, Ask(j, method)
          PROVE  \E r \in Requests : cst[j] # "none" /\ r.seq = next[j] /\ up'[j] = Append(up[j], r)
        <3>1. /\ Request(j, method, next[j]) \in Requests
              /\ Request(j, method, next[j]).seq = next[j]
            BY RequestType DEF Request, TypeOK, ClientTypeOK
        <3> QED
            BY <2>1, <3>1 DEF Ask, TypeOK, ClientTypeOK
    <2> QED
        BY <2>1, UpChanges DEF Calls, HandleClientMessage
<1>3. SettingsAreNumbered(j)'
    <2>1. cst'[j] # "none" => next'[j] > 0
        BY <1>1 DEF SettingsAreNumbered, TypeOK, ClientTypeOK
    <2>2. \A i \in 1 .. Len(up'[j]) : up'[j][i].seq > 0
        <3>1. CASE up[j] # <<>> /\ up'[j] = Tail(up[j])
            <4>1. \A i \in 1 .. Len(up'[j]) : i + 1 \in 1 .. Len(up[j]) /\ up'[j][i] = up[j][i + 1]
                BY <3>1
            <4> QED
                BY <4>1 DEF SettingsAreNumbered
        <3>2. ASSUME NEW r \in Requests, cst[j] # "none", r.seq = next[j], up'[j] = Append(up[j], r)
              PROVE  \A i \in 1 .. Len(up'[j]) : up'[j][i].seq > 0
            BY <3>2, AppendedLast DEF SettingsAreNumbered
        <3> QED
            BY <1>2, <3>1, <3>2 DEF SettingsAreNumbered
    <2> QED
        BY <2>1, <2>2 DEF SettingsAreNumbered
<1>4. UnnumberedTimer(j)'
    <2>1. ASSUME up[j] # <<>>, pending'[j] = Head(up[j]).seq
          PROVE  pending'[j] # 0
        <3>1. Head(up[j]) = up[j][1] /\ 1 \in 1 .. Len(up[j])
            BY <2>1
        <3> QED
            BY <2>1, <3>1 DEF SettingsAreNumbered
    <2> QED
        BY <2>1, TimerSeen DEF UnnumberedTimer, TimerKept
<1> QED
    BY <1>3, <1>4

LEMMA ConnsAreTwoKinds == Conns = TextServices \cup SettingsApps
BY ConnsAssumption DEF TextServices

LEMMA InitIsOneCall == Init => OneCallAtATime
<1> SUFFICES ASSUME Init PROVE OneCallAtATime
    OBVIOUS
<1> USE DEF Init
<1>1. ASSUME NEW k \in TextServices
      PROVE  OneRequest(k) /\ ExecutedOnce(k) /\ AnswersFollowExecution(k) /\ RepliesComeFirst(k)
    BY DEF OneRequest, ExecutedOnce, AnswersFollowExecution, RepliesComeFirst, Unserved, Ran,
           TextServices
<1>2. ASSUME NEW k \in SettingsApps
      PROVE  SettingsAreNumbered(k)
    BY ConnsAssumption DEF SettingsAreNumbered
<1>3. ASSUME NEW k \in Conns
      PROVE  UnnumberedTimer(k)
    BY DEF UnnumberedTimer
<1> QED
    BY <1>1, <1>2, <1>3 DEF OneCallAtATime

LEMMA OneCallPreserved == TypeOK /\ OneCallAtATime /\ [Next]_vars => OneCallAtATime'
<1> SUFFICES ASSUME TypeOK, OneCallAtATime, [Next]_vars
             PROVE  OneCallAtATime'
    OBVIOUS
<1>1. ASSUME NEW k \in TextServices
      PROVE  /\ OneRequest(k)' /\ ExecutedOnce(k)' /\ AnswersFollowExecution(k)'
             /\ RepliesComeFirst(k)' /\ UnnumberedTimer(k)'
    <2>1. /\ OneRequest(k) /\ ExecutedOnce(k) /\ AnswersFollowExecution(k)
          /\ RepliesComeFirst(k) /\ UnnumberedTimer(k)
        BY ConnsAreTwoKinds DEF OneCallAtATime
    <2>2. OneRequest(k)' /\ ExecutedOnce(k)'
        BY <2>1, OneRequestPreserved, ExecutedOncePreserved
    <2>3. AnswersFollowExecution(k)' /\ RepliesComeFirst(k)'
        BY <2>1, AnswersPreserved, RepliesPreserved
    <2>4. UnnumberedTimer(k)'
        BY <2>1, UnnumberedPreserved
    <2> QED
        BY <2>2, <2>3, <2>4
<1>2. ASSUME NEW k \in SettingsApps
      PROVE  SettingsAreNumbered(k)' /\ UnnumberedTimer(k)'
    BY SettingsPreserved, ConnsAreTwoKinds DEF OneCallAtATime
<1> QED
    BY <1>1, <1>2, ConnsAreTwoKinds DEF OneCallAtATime

\* Whatever the launcher, the engine and the other connections do, a text service
\* has one request under way, executed once, and its reply is the first thing that
\* answers it, which is what callRpcMethod relies on when it compares numbers.
THEOREM OneCallUnderWay == Spec => []OneCallAtATime
<1>1. TypeOK /\ OneCallAtATime /\ [Next]_vars => (TypeOK /\ OneCallAtATime)'
    BY NextType, OneCallPreserved
<1> QED
    BY <1>1, InitType, InitIsOneCall, PTL DEF Spec

\* A reply never waits in the pipe of a text service that has moved on, so that no
\* later call can take it for its own answer or report it.
THEOREM NoReplyIsLate == Spec => []NoLateAnswer
<1>1. OneCallAtATime => NoLateAnswer
    BY DEF OneCallAtATime, RepliesComeFirst, Timely, NoLateAnswer
<1> QED
    BY <1>1, OneCallUnderWay, PTL

\* The launcher's messages to its clients stop a timer only when they refuse; of the
\* engine's messages it is the answer to the pending request, and nothing else, also
\* where the number 0 switches writeBackendResponse's check off.
THEOREM TimersAwaitTheAnswer == Spec => OnlyTheAnswerStopsTheTimer
<1> DEFINE Stop == \A k \in Conns :
               (BackendReply /\ armed[k] /\ ~armed'[k] /\ Head(stdout).kind # "garbage")
                   => /\ Head(stdout).to = k
                      /\ Head(stdout).seq = pending[k]
<1>1. TypeOK /\ OneCallAtATime /\ [Next]_vars => [Stop]_vars
    <2> SUFFICES ASSUME TypeOK, OneCallAtATime, BackendReply, Head(stdout).kind # "garbage",
                        NEW k \in Conns, armed[k], ~armed'[k]
                 PROVE  Head(stdout).to = k /\ Head(stdout).seq = pending[k]
        OBVIOUS
    <2> DEFINE m == Head(stdout)
    <2>1. m \in Outputs /\ 1 \in 1 .. Len(stdout) /\ m = stdout[1]
        BY HeadTailProperties DEF BackendReply, TypeOK, BackendTypeOK
    <2>2. /\ m.to = k /\ ~IsStale(k, m.seq)
        <3>1. WritePipe(m.to, [kind |-> m.kind, seq |-> m.seq]) /\ ~IsStale(m.to, m.seq)
            BY DEF BackendReply, timerVars
        <3> QED
            BY <2>1, <3>1 DEF WritePipe, TypeOK, PipeTypeOK
    <2>3. CASE pending[k] # 0
        BY <2>2, <2>3 DEF IsStale
    <2>4. CASE pending[k] = 0
        <3>1. k \in TextServices /\ next[k] = 1
            BY <2>4 DEF OneCallAtATime, UnnumberedTimer
        <3>2. m.seq < 1
            BY <2>1, <2>2, <3>1 DEF OneCallAtATime, AnswersFollowExecution, Follows
        <3> QED
            BY <2>1, <2>2, <2>4, <3>2, BoundsAssumption DEF Outputs, Seqs
    <2> QED
        BY <2>3, <2>4
<1> QED
    BY <1>1, TypeCorrect, OneCallUnderWay, PTL DEF Spec, OnlyTheAnswerStopsTheTimer

-----------------------------------------------------------------------------
(* The launcher implements RpcContract.                                    *)

Phase(j) ==
    IF cst[j] = "waiting" THEN "asked" ELSE IF cst[j] = "closed" THEN "over" ELSE "idle"
Executions(j) == {i \in 1 .. Len(executed[j]) : executed[j][i] = Current(j)}
Count(j) == Cardinality(Executions(j))

\* What occurs at most once in a sequence is counted 0 or 1 times.
LEMMA CountOfUnique ==
    ASSUME NEW s, NEW c, \A i, k \in 1 .. Len(s) : s[i] = c /\ s[k] = c => i = k
    PROVE  Cardinality({i \in 1 .. Len(s) : s[i] = c}) =
               IF \E i \in 1 .. Len(s) : s[i] = c THEN 1 ELSE 0
<1>1. ASSUME NEW k \in 1 .. Len(s), s[k] = c
      PROVE  {i \in 1 .. Len(s) : s[i] = c} = {k}
    BY <1>1
<1>2. CASE \E i \in 1 .. Len(s) : s[i] = c
    BY <1>1, <1>2, FS_Singleton
<1>3. CASE ~\E i \in 1 .. Len(s) : s[i] = c
    <2>1. {i \in 1 .. Len(s) : s[i] = c} = {}
        BY <1>3
    <2> QED
        BY <1>3, <2>1, FS_EmptySet
<1> QED
    BY <1>2, <1>3

\* What a step means to the contract of one connection.
Stays(j) == Phase(j)' = Phase(j) /\ Count(j)' = Count(j)
Submits(j) == Phase(j) = "idle" /\ Phase(j)' = "asked" /\ Count(j)' = 0
Executes(j) ==
    /\ Phase(j) \in {"asked", "over"} /\ Count(j) = 0
    /\ Phase(j)' = Phase(j) /\ Count(j)' = 1
Returns(j) ==
    /\ Phase(j) = "asked" /\ Count(j) = 1
    /\ Phase(j)' = "idle" /\ Count(j)' = Count(j)
Fails(j) == Phase(j) # "over" /\ Phase(j)' = "over" /\ Count(j)' = Count(j)

LEMMA ContractStepSeen ==
    ASSUME TypeOK, NEW j \in TextServices, OneRequest(j), ExecutedOnce(j), ExecutedOnce(j)',
           AnswersFollowExecution(j), [Next]_vars
    PROVE  Stays(j) \/ Submits(j) \/ Executes(j) \/ Returns(j) \/ Fails(j)
<1> /\ next[j] \in Nat /\ executed[j] \in Seq(Nat)
    /\ cst[j] \in {"none", "idle", "waiting", "closed"}
    BY ConversationTypes
<1>1. /\ Count(j) = IF Ran(j) THEN 1 ELSE 0
      /\ Count(j)' = IF Ran(j)' THEN 1 ELSE 0
    <2>1. /\ \A i, k \in 1 .. Len(executed[j]) :
                 executed[j][i] = Current(j) /\ executed[j][k] = Current(j) => i = k
          /\ \A i, k \in 1 .. Len(executed'[j]) :
                 executed'[j][i] = Current(j)' /\ executed'[j][k] = Current(j)' => i = k
        BY DEF ExecutedOnce
    <2>2. Count(j) = IF Ran(j) THEN 1 ELSE 0
        BY <2>1, CountOfUnique DEF Count, Executions, Ran
    <2>3. Count(j)' = IF Ran(j)' THEN 1 ELSE 0
        BY <2>1, CountOfUnique DEF Count, Executions, Ran
    <2> QED
        BY <2>2, <2>3
<1>2. next'[j] = next[j] /\ executed'[j] = executed[j] => Count(j)' = Count(j)
    BY DEF Count, Executions, Current
<1>3. CASE Connect(j)
    <2>1. /\ cst[j] = "none" /\ cst'[j] = "idle" /\ next'[j] \in {0, 1} /\ executed' = executed
        BY <1>3, ClientEvents
    <2>2. ~Ran(j) /\ ~Ran(j)'
        BY <2>1 DEF OneRequest, ExecutedOnce, Ran
    <2> QED
        BY <1>1, <2>1, <2>2 DEF Stays, Phase
<1>4. CASE Calls(j)
    <2>1. /\ cst[j] = "idle" /\ cst'[j] = "waiting" /\ next'[j] = next[j] + 1 /\ executed' = executed
        BY <1>4, ClientEvents
    <2>2. Current(j)' = next[j]
        BY <2>1 DEF Current
    <2>3. ~Ran(j)'
        BY <2>1, <2>2 DEF ExecutedOnce, Ran
    <2> QED
        BY <1>1, <2>1, <2>3 DEF Submits, Phase
<1>5. CASE Accept(j)
    <2>1. /\ cst[j] = "waiting" /\ cst'[j] = "idle" /\ next'[j] = next[j] /\ executed' = executed
          /\ Ran(j)
        BY <1>5, ClientEvents, AcceptEndsRequest
    <2> QED
        BY <1>1, <1>2, <2>1 DEF Returns, Phase
<1>6. CASE Disconnect(j)
    <2>1. cst'[j] = "closed" /\ next'[j] = next[j] /\ executed' = executed
        BY <1>6, ClientEvents
    <2> QED
        BY <1>2, <2>1 DEF Fails, Stays, Phase
<1>7. ASSUME cst'[j] = cst[j], next'[j] = next[j], executed'[j] = executed[j]
      PROVE  Stays(j)
    BY <1>2, <1>7 DEF Stays, Phase
<1>8. CASE Poll(j) \/ Routed(j)
    BY <1>7, <1>8, ClientEvents, RoutedEvent
<1>9. CASE Refused(j) \/ Forwarded(j) \/ Elsewhere(j)
    BY <1>7, <1>9 DEF Refused, Forwarded, Elsewhere, Around
<1>10. CASE Serves(j)
    <2>1. /\ cst'[j] = cst[j] /\ next'[j] = next[j] /\ ~Ran(j) /\ Current(j) \in Nat
          /\ cst[j] \in {"waiting", "closed"} /\ executed'[j] = Append(executed[j], Current(j))
        BY <1>10, ServesCurrent
    <2>2. Ran(j)'
        <3>1. Current(j)' = Current(j)
            BY <2>1 DEF Current
        <3>2. Len(executed'[j]) \in 1 .. Len(executed'[j]) /\ executed'[j][Len(executed'[j])] = Current(j)
            BY <2>1
        <3> QED
            BY <3>1, <3>2 DEF Ran
    <2> QED
        BY <1>1, <2>1, <2>2 DEF Executes, Phase
<1> QED
    BY <1>3, <1>4, <1>5, <1>6, <1>8, <1>9, <1>10, StepSeen

\* A step changes the client end, or the history, of one connection only.
LEMMA OthersStay ==
    ASSUME TypeOK, [Next]_vars
    PROVE  \/ UNCHANGED <<cst, next, executed>>
           \/ \E k \in Conns : \A j \in Conns \ {k} :
                  cst'[j] = cst[j] /\ next'[j] = next[j] /\ executed'[j] = executed[j]
<1>1. ASSUME NEW k \in Conns, ClientStep(k)
      PROVE  \A j \in Conns \ {k} :
                 cst'[j] = cst[j] /\ next'[j] = next[j] /\ executed'[j] = executed[j]
    BY <1>1
    DEF ClientStep, Connect, Call, Ask, Accept, Reject, SettingsAccept, SettingsFinish,
        Poll, Flush, Busy, PipeBroken, Hangup, Disconnect, TypeOK, ClientTypeOK, historyVars
<1>2. CASE Serve
    <2>1. Head(stdin) \in Requests /\ UNCHANGED <<cst, next>>
        BY <1>2, HeadTailProperties DEF Serve, TypeOK, BackendTypeOK, clientVars
    <2>2. CASE UNCHANGED executed
        BY <2>1, <2>2
    <2>3. CASE Head(stdin).method \in {"init", "call"} /\ ServeRequest(Head(stdin))
        <3>1. Head(stdin).from \in Conns
            BY <2>1, <2>3 DEF Requests, LauncherMethods
        <3> QED
            BY <2>1, <2>3, <3>1 DEF ServeRequest, TypeOK, HistoryTypeOK
    <2> QED
        BY <1>2, <2>2, <2>3 DEF Serve, ServeClose, ServeLauncher
<1>3. CASE (\A k \in Conns : ~ClientStep(k)) /\ ~Serve
    BY <1>3
    DEF Next, vars, clientVars, historyVars, LauncherStep, HandleClientMessage,
        ClientReadError, CloseDone, Timeout, BackendStep, BackendReply, BackendReadError,
        TrayStep, TrayRestart, TrayRedeploy, TrayTerminate, Shutdown, EngineStep,
        EmitAsync, EmitGarbage, Exit
<1> QED
    BY <1>1, <1>2, <1>3

\* Seen from the text services the launcher executes a request at most once, answers
\* it only after that, and gives the caller back with the answer or a closed
\* connection: its steps are steps of RpcContract, or none.
THEOREM LauncherImplementsContract == Spec => ImplementsContract
<1> DEFINE Inv == TypeOK /\ OneCallAtATime
           phase == [k \in TextServices |-> Phase(k)]
           ran == [k \in TextServices |-> Count(k)]
<1>1. Init => Contract!ContractInit
    <2> SUFFICES ASSUME Init PROVE Contract!ContractInit
        OBVIOUS
    <2>1. \A k \in TextServices : cst[k] = "none" /\ 1 .. Len(executed[k]) = {}
        BY DEF Init, TextServices
    <2>2. \A k \in TextServices :
              Cardinality({i \in 1 .. Len(executed[k]) : executed[k][i] = Current(k)}) = 0
        BY <2>1, FS_EmptySet
    <2> QED
        BY <2>1, <2>2 DEF Contract!ContractInit
<1>2. Inv /\ Inv' /\ [Next]_vars => [Contract!ContractNext]_(Contract!contractVars)
    <2> SUFFICES ASSUME Inv, Inv', [Next]_vars
                 PROVE  Contract!ContractNext \/ UNCHANGED <<phase, ran>>
        BY DEF Contract!contractVars, Phase, Count, Executions
    <2>1. ASSUME NEW j \in TextServices
          PROVE  Stays(j) \/ Submits(j) \/ Executes(j) \/ Returns(j) \/ Fails(j)
        BY ContractStepSeen DEF OneCallAtATime
    <2>2. ASSUME NEW j \in TextServices, cst'[j] = cst[j], next'[j] = next[j],
                 executed'[j] = executed[j]
          PROVE  Phase(j)' = Phase(j) /\ Count(j)' = Count(j)
        BY <2>2 DEF Phase, Count, Executions, Current
    <2>3. TextServices \subseteq Conns
        BY DEF TextServices
    <2>4. CASE \A j \in TextServices : Phase(j)' = Phase(j) /\ Count(j)' = Count(j)
        BY <2>4
    <2>5. CASE \E k \in TextServices : \A j \in TextServices \ {k} :
                   Phase(j)' = Phase(j) /\ Count(j)' = Count(j)
        <3>1. PICK k \in TextServices : \A j \in TextServices \ {k} :
                   Phase(j)' = Phase(j) /\ Count(j)' = Count(j)
            BY <2>5
        <3>2. /\ phase[k] = Phase(k) /\ ran[k] = Count(k)
              /\ phase' = [phase EXCEPT ![k] = Phase(k)']
              /\ ran' = [ran EXCEPT ![k] = Count(k)']
            BY <3>1
        <3>3. /\ Phase(k)' = Phase(k) => phase' = phase
              /\ Count(k)' = Count(k) => ran' = ran
            BY <3>1
        <3>4. Submits(k) => Contract!Submit(k)
            BY <3>2 DEF Submits, Contract!Submit, Phase, Count, Executions
        <3>5. Executes(k) => Contract!Execute(k)
            BY <3>2, <3>3 DEF Executes, Contract!Execute, Phase, Count, Executions
        <3>6. Returns(k) => Contract!Return(k)
            BY <3>2, <3>3 DEF Returns, Contract!Return, Phase, Count, Executions
        <3>7. Fails(k) => Contract!Fail(k)
            BY <3>2, <3>3 DEF Fails, Contract!Fail, Phase, Count, Executions
        <3>8. Stays(k) => UNCHANGED <<phase, ran>>
            BY <3>3 DEF Stays
        <3> QED
            BY <2>1, <3>4, <3>5, <3>6, <3>7, <3>8 DEF Contract!ContractNext
    <2> QED
        BY <2>2, <2>3, <2>4, <2>5, OthersStay
<1>3. Spec => []Inv
    BY TypeCorrect, OneCallUnderWay, PTL
<1> QED
    BY <1>1, <1>2, <1>3, PTL DEF Spec, ImplementsContract, Contract!ContractSafety
=============================================================================
