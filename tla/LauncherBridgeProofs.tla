------------------------ MODULE LauncherBridgeProofs ------------------------
(***************************************************************************)
(* Proofs about LauncherBridge, for any number of connections of any kind  *)
(* and any value of the bounds.                                            *)
(***************************************************************************)
EXTENDS LauncherBridge, SequenceTheorems, TLAPS

-----------------------------------------------------------------------------
(* Facts about the helpers.                                                *)

LEMMA RequestType ==
    ASSUME NEW k \in Conns, NEW method \in ClientMethods, NEW seq \in Seqs
    PROVE  Request(k, method, seq) \in Requests
BY DEF Request, Requests

LEMMA PushType ==
    /\ Push \in Requests
    /\ Request(Launcher, "deploy", 0) \in Requests
BY DEF Push, Request, Requests, LauncherMethods

LEMMA SendType ==
    ASSUME ClientTypeOK, NEW k \in Conns, NEW m \in Responses
    PROVE  Send(k, m) \in Seq(Responses)
BY DEF ClientTypeOK, Send

LEMMA ErrorType ==
    ASSUME PipeTypeOK, NEW k \in Conns, NEW seq \in Seqs
    PROVE  ErrorFor(k, seq) \in Responses
BY DEF PipeTypeOK, ErrorFor, Responses

\* Writing to clients keeps the types of what it changes.
LEMMA WriteErrorsType ==
    ASSUME ClientTypeOK, PipeTypeOK, NEW ks \in SUBSET Conns, NEW seq \in Seqs,
           WriteErrors(ks, seq)
    PROVE  /\ down' \in [Conns -> Seq(Responses)]
           /\ pending' \in [Conns -> Seqs]
           /\ armed' \in [Conns -> BOOLEAN]
<1>1. 0 \in Seqs
    BY BoundsAssumption DEF Seqs
<1>2. \A k \in Conns : Send(k, ErrorFor(k, seq)) \in Seq(Responses)
    BY SendType, ErrorType
<1>3. \A k \in Conns : down[k] \in Seq(Responses) /\ pending[k] \in Seqs
                        /\ armed[k] \in BOOLEAN
    BY DEF ClientTypeOK, PipeTypeOK
<1> QED
    BY <1>1, <1>2, <1>3, Zenon DEF WriteErrors

LEMMA WritePipeType ==
    ASSUME ClientTypeOK, PipeTypeOK, NEW k \in Conns, NEW m \in Responses,
           WritePipe(k, m)
    PROVE  /\ down' \in [Conns -> Seq(Responses)]
           /\ pending' \in [Conns -> Seqs]
           /\ armed' \in [Conns -> BOOLEAN]
<1>1. 0 \in Seqs
    BY BoundsAssumption DEF Seqs
<1>2. Send(k, m) \in Seq(Responses)
    BY SendType
<1> QED
    BY <1>1, <1>2 DEF WritePipe, ClientTypeOK, PipeTypeOK

\* Starting, restarting and stopping the process keeps the backend's types.
LEMMA StartType ==
    ASSUME BackendTypeOK, NEW spawned \in SpawnOutcomes,
           NEW ms \in Seq(Requests), StartProcess(spawned, ms)
    PROVE  BackendTypeOK'
<1>1. spawned \in BOOLEAN
    BY Zenon DEF SpawnOutcomes
<1>2. gen' \in 0 .. MaxGen
    <2>1. CASE gen < MaxGen
        BY <2>1, BoundsAssumption DEF StartProcess, BackendTypeOK
    <2>2. CASE ~(gen < MaxGen)
        <3>1. spawned = FALSE
            BY <2>2, Zenon DEF SpawnOutcomes
        <3> QED
            BY <3>1 DEF StartProcess, BackendTypeOK
    <2> QED
        BY <2>1, <2>2
<1>3. <<>> \in Seq(Requests) /\ <<>> \in Seq(Outputs)
    BY EmptySeq
<1>4. alive' \in BOOLEAN /\ restored' \in BOOLEAN /\ known' \in SUBSET Conns
    BY <1>1, Zenon DEF StartProcess
<1>5. stdin' \in Seq(Requests) /\ stdout' \in Seq(Outputs) /\ proc' \in {"down", "up"}
    BY <1>3, Zenon DEF StartProcess
<1> QED
    BY <1>2, <1>4, <1>5, Zenon DEF BackendTypeOK

LEMMA RestartType ==
    ASSUME BackendTypeOK, RestartProcess
    PROVE  BackendTypeOK'
<1>1. <<Push>> \in Seq(Requests)
    BY PushType
<1>2. PICK spawned \in SpawnOutcomes : StartProcess(spawned, <<Push>>)
    BY DEF RestartProcess
<1> QED
    BY <1>1, <1>2, StartType

LEMMA StopType ==
    ASSUME BackendTypeOK, StopProcess
    PROVE  BackendTypeOK'
<1>1. FALSE \in SpawnOutcomes
    BY Zenon DEF SpawnOutcomes
<1>2. <<>> \in Seq(Requests)
    BY EmptySeq
<1> QED
    BY <1>1, <1>2, StartType DEF StopProcess

LEMMA DeliverType ==
    ASSUME BackendTypeOK, NEW spawned \in SpawnOutcomes, NEW m \in Requests,
           Deliver(m, spawned)
    PROVE  BackendTypeOK'
<1>1. CASE proc = "up" /\ stdin' = Append(stdin, m)
           /\ UNCHANGED <<proc, gen, stdout, alive, known, restored>>
    BY <1>1 DEF BackendTypeOK
<1>2. CASE StartProcess(spawned, IF m = Push THEN <<Push>> ELSE <<Push, m>>)
    <2>1. (IF m = Push THEN <<Push>> ELSE <<Push, m>>) \in Seq(Requests)
        BY PushType
    <2> QED
        BY <1>2, <2>1, StartType
<1> QED
    BY <1>1, <1>2 DEF Deliver

-----------------------------------------------------------------------------
(* Type correctness.                                                       *)

LEMMA DisconnectType ==
    ASSUME TypeOK, NEW k \in Conns, Disconnect(k)
    PROVE  TypeOK'
<1>1. <<>> \in Seq(Responses)
    BY EmptySeq
<1>2. ClientTypeOK'
    BY <1>1 DEF TypeOK, ClientTypeOK, Disconnect
<1>3. UNCHANGED <<PipeTypeOK, BackendTypeOK, HistoryTypeOK>>
    BY DEF Disconnect, PipeTypeOK, BackendTypeOK, HistoryTypeOK, timerVars,
           backendVars, historyVars
<1> QED
    BY <1>2, <1>3 DEF TypeOK

LEMMA ClientStepType ==
    ASSUME TypeOK, NEW k \in Conns, ClientStep(k)
    PROVE  TypeOK'
<1> USE DEF TypeOK
<1>1. CASE Connect(k)
    <2>1. 0 \in Seqs /\ 1 \in Seqs
        BY BoundsAssumption DEF Seqs
    <2>2. ClientTypeOK' /\ PipeTypeOK'
        BY <1>1, <2>1 DEF Connect, ClientTypeOK, PipeTypeOK, timerVars
    <2> QED
        BY <1>1, <2>2 DEF Connect, backendVars, historyVars, BackendTypeOK,
                          HistoryTypeOK
<1>2. ASSUME NEW method \in ClientMethods, Ask(k, method)
      PROVE  TypeOK'
    <2>1. next[k] \in Seqs /\ next[k] + 1 \in Seqs
        BY <1>2, BoundsAssumption DEF Ask, ClientTypeOK, Seqs
    <2>2. Append(up[k], Request(k, method, next[k])) \in Seq(Requests)
        BY <2>1, RequestType DEF ClientTypeOK
    <2>3. ClientTypeOK'
        BY <1>2, <2>1, <2>2 DEF Ask, ClientTypeOK
    <2> QED
        BY <1>2, <2>3 DEF Ask, PipeTypeOK, BackendTypeOK, HistoryTypeOK,
                          timerVars, backendVars, historyVars
<1>3. CASE Call(k)
    BY <1>2, <1>3 DEF Call, ClientMethods
<1>4. CASE Accept(k)
    <2>1. PICK i \in 1 .. Len(down[k]) :
              down' = [down EXCEPT ![k] = SubSeq(@, i + 1, Len(@))]
        BY <1>4 DEF Accept
    <2>2. down[k] \in Seq(Responses)
        BY DEF ClientTypeOK
    <2>3. SubSeq(down[k], i + 1, Len(down[k])) \in Seq(Responses)
        BY <2>2, SubSeqProperties, ElementOfSeq, LenProperties
    <2>4. ClientTypeOK'
        BY <1>4, <2>1, <2>3 DEF Accept, ClientTypeOK
    <2> QED
        BY <1>4, <2>4 DEF Accept, PipeTypeOK, BackendTypeOK, HistoryTypeOK,
                          timerVars, backendVars, historyVars
<1>5. CASE SettingsAccept(k)
    <2>1. Tail(down[k]) \in Seq(Responses)
        BY <1>5, HeadTailProperties DEF SettingsAccept, ClientTypeOK
    <2>2. ClientTypeOK'
        BY <1>5, <2>1 DEF SettingsAccept, ClientTypeOK
    <2> QED
        BY <1>5, <2>2 DEF SettingsAccept, PipeTypeOK, BackendTypeOK,
                          HistoryTypeOK, timerVars, backendVars, historyVars
<1>6. CASE Poll(k)
    <2>1. <<>> \in Seq(Responses) /\ (doomed[k] \/ HasError(down[k])) \in BOOLEAN
        BY EmptySeq, Zenon DEF HasError, ClientTypeOK
    <2>2. ClientTypeOK'
        BY <1>6, <2>1 DEF Poll, ClientTypeOK
    <2> QED
        BY <1>6, <2>2 DEF Poll, PipeTypeOK, BackendTypeOK, HistoryTypeOK,
                          timerVars, backendVars, historyVars
<1>7. CASE Disconnect(k)
    BY <1>7, DisconnectType
<1> QED
    BY <1>1, <1>3, <1>4, <1>5, <1>6, <1>7
    DEF ClientStep, Reject, SettingsFinish, Flush, Busy, PipeBroken, Hangup

\* A message of the connection is a request, an answer built from it a response.
LEMMA HeadType ==
    ASSUME TypeOK, NEW k \in Conns, up[k] # <<>>
    PROVE  /\ Head(up[k]) \in Requests
           /\ Tail(up[k]) \in Seq(Requests)
           /\ Head(up[k]).seq \in Seqs
           /\ \A kind \in {"reply", "async", "error"} :
                  [kind |-> kind, seq |-> Head(up[k]).seq] \in Responses
<1>1. up[k] \in Seq(Requests)
    BY DEF TypeOK, ClientTypeOK
<1>2. Head(up[k]) \in Requests /\ Tail(up[k]) \in Seq(Requests)
    BY <1>1, HeadTailProperties
<1>3. Head(up[k]).seq \in Seqs
    BY <1>2, BoundsAssumption DEF Requests, Seqs
<1> QED
    BY <1>2, <1>3 DEF Responses

LEMMA HandleClientMessageType ==
    ASSUME TypeOK, NEW k \in Conns, HandleClientMessage(k)
    PROVE  TypeOK'
<1> DEFINE m == Head(up[k])
<1>1. /\ m \in Requests /\ m.seq \in Seqs /\ Tail(up[k]) \in Seq(Requests)
      /\ \A kind \in {"reply", "error"} : [kind |-> kind, seq |-> m.seq] \in Responses
    BY HeadType DEF HandleClientMessage
<1>2. 0 \in Seqs /\ {k} \in SUBSET Conns /\ Push \in Requests
    BY BoundsAssumption, PushType DEF Seqs
<1>3. up' \in [Conns -> Seq(Requests)]
    BY <1>1 DEF HandleClientMessage, TypeOK, ClientTypeOK
<1>4. /\ down' \in [Conns -> Seq(Responses)]
      /\ pending' \in [Conns -> Seqs]
      /\ armed' \in [Conns -> BOOLEAN]
      /\ bound' \in [Conns -> BOOLEAN]
      /\ BackendTypeOK'
    <2> USE DEF TypeOK
    <2>1. CASE RefuseFrame(k)
        BY <2>1, <1>2, WriteErrorsType
        DEF RefuseFrame, PipeTypeOK, BackendTypeOK, HistoryTypeOK, backendVars
    <2>2. CASE RefuseUnbound(k, m)
        <3>1. CASE UNCHANGED <<down, bound, timerVars, backendVars>>
            BY <3>1 DEF ClientTypeOK, PipeTypeOK, BackendTypeOK, HistoryTypeOK,
                        backendVars, timerVars
        <3>2. CASE WriteErrors({k}, m.seq) /\ UNCHANGED <<bound, backendVars>>
            BY <3>2, <1>1, <1>2, WriteErrorsType
            DEF PipeTypeOK, BackendTypeOK, HistoryTypeOK, backendVars
        <3> QED
            BY <2>2, <3>1, <3>2 DEF RefuseUnbound
    <2>3. CASE AnswerSettings(k, m)
        <3>1. \A kind \in {"reply", "error"} :
                  Send(k, [kind |-> kind, seq |-> m.seq]) \in Seq(Responses)
            BY <1>1, SendType
        <3>2. down' \in [Conns -> Seq(Responses)]
            BY <2>3, <3>1 DEF AnswerSettings, ClientTypeOK
        <3>3. BackendTypeOK'
            <4>1. CASE UNCHANGED backendVars
                BY <4>1 DEF BackendTypeOK, backendVars
            <4>2. CASE \E spawned \in SpawnOutcomes : Deliver(Push, spawned)
                BY <4>2, <1>2, DeliverType
            <4> QED
                BY <2>3, <4>1, <4>2 DEF AnswerSettings
        <3> QED
            BY <2>3, <3>2, <3>3 DEF AnswerSettings, PipeTypeOK, HistoryTypeOK, timerVars
    <2>4. CASE Forward(k, m) /\ m.method \in {"init", "call"}
        <3>1. BackendTypeOK'
            BY <2>4, <1>1, RequestType, DeliverType DEF Forward, ClientMethods
        <3>2. gen' \in 0 .. MaxGen
            BY <3>1 DEF BackendTypeOK
        <3>3. Send(k, [kind |-> "error", seq |-> m.seq]) \in Seq(Responses)
            BY <1>1, SendType
        <3>4. /\ down' \in [Conns -> Seq(Responses)]
              /\ bound' \in [Conns -> BOOLEAN]
            BY <2>4, <3>3 DEF Forward, ClientTypeOK, PipeTypeOK
        <3>5. /\ pending' \in [Conns -> Seqs]
              /\ armed' \in [Conns -> BOOLEAN]
            BY <2>4, <3>2, <1>1, <1>2 DEF Forward, PipeTypeOK, HistoryTypeOK
        <3> QED
            BY <3>1, <3>4, <3>5
    <2> QED
        BY <2>1, <2>2, <2>3, <2>4 DEF HandleClientMessage
<1> QED
    BY <1>3, <1>4 DEF HandleClientMessage, TypeOK, ClientTypeOK, PipeTypeOK,
                      HistoryTypeOK, clientVars

LEMMA LauncherStepType ==
    ASSUME TypeOK, NEW k \in Conns, LauncherStep(k)
    PROVE  TypeOK'
<1> USE DEF TypeOK
<1>1. 0 \in Seqs /\ {k} \in SUBSET Conns
    BY BoundsAssumption DEF Seqs
<1>2. CASE ClientReadError(k)
    <2>1. Request(k, "close", 0) \in Requests
        BY <1>1, RequestType DEF ClientMethods
    <2>2. BackendTypeOK'
        <3>1. CASE UNCHANGED backendVars
            BY <3>1 DEF BackendTypeOK, backendVars
        <3>2. CASE \E spawned \in SpawnOutcomes : Deliver(Request(k, "close", 0), spawned)
            BY <3>2, <2>1, DeliverType
        <3> QED
            BY <1>2, <3>1, <3>2 DEF ClientReadError
    <2>3. /\ down' \in [Conns -> Seq(Responses)]
          /\ pending' \in [Conns -> Seqs]
          /\ armed' \in [Conns -> BOOLEAN]
        <3>1. CASE UNCHANGED <<down, timerVars>>
            BY <3>1 DEF ClientTypeOK, PipeTypeOK, timerVars
        <3>2. CASE WriteErrors({k}, 0)
            BY <3>2, <1>1, WriteErrorsType
        <3> QED
            BY <1>2, <3>1, <3>2 DEF ClientReadError
    <2> QED
        BY <1>2, <2>2, <2>3 DEF ClientReadError, ClientTypeOK, PipeTypeOK,
                                HistoryTypeOK, clientVars, historyVars
<1>3. CASE CloseDone(k)
    BY <1>3 DEF CloseDone, ClientTypeOK, PipeTypeOK, BackendTypeOK, HistoryTypeOK,
                clientVars, backendVars, historyVars
<1>4. CASE Timeout(k)
    <2>1. pending[k] \in Seqs
        BY DEF PipeTypeOK
    <2>2. BackendTypeOK'
        BY <1>4, RestartType DEF Timeout, BackendTypeOK, backendVars
    <2>3. /\ down' \in [Conns -> Seq(Responses)]
          /\ pending' \in [Conns -> Seqs]
          /\ armed' \in [Conns -> BOOLEAN]
        BY <1>4, <1>1, <2>1, WriteErrorsType DEF Timeout
    <2> QED
        BY <1>4, <2>2, <2>3 DEF Timeout, ClientTypeOK, PipeTypeOK, HistoryTypeOK,
                                clientVars, historyVars
<1> QED
    BY <1>2, <1>3, <1>4, HandleClientMessageType DEF LauncherStep

LEMMA BackendStepType ==
    ASSUME TypeOK, BackendStep
    PROVE  TypeOK'
<1> USE DEF TypeOK
<1>1. 0 \in Seqs /\ Attached \in SUBSET Conns
    BY BoundsAssumption DEF Seqs, Attached
<1>2. SUFFICES /\ BackendTypeOK'
               /\ down' \in [Conns -> Seq(Responses)]
               /\ pending' \in [Conns -> Seqs]
               /\ armed' \in [Conns -> BOOLEAN]
    BY DEF BackendStep, BackendReply, BackendReadError, ClientTypeOK, PipeTypeOK,
           HistoryTypeOK, clientVars, historyVars
<1>3. CASE WriteErrors(Attached, 0) /\ RestartProcess
    BY <1>3, <1>1, WriteErrorsType, RestartType
<1>4. CASE BackendReply /\ Head(stdout).kind # "garbage"
    <2> DEFINE m == Head(stdout)
    <2>1. m \in Outputs /\ Tail(stdout) \in Seq(Outputs)
        BY <1>4, HeadTailProperties DEF BackendReply, BackendTypeOK
    <2>2. m.to \in Conns /\ [kind |-> m.kind, seq |-> m.seq] \in Responses
        BY <1>4, <2>1 DEF Outputs, Responses
    <2>3. BackendTypeOK'
        BY <1>4, <2>1 DEF BackendReply, BackendTypeOK
    <2>4. CASE WritePipe(m.to, [kind |-> m.kind, seq |-> m.seq])
        BY <2>2, <2>3, <2>4, WritePipeType
    <2>5. CASE UNCHANGED <<down, timerVars>>
        BY <2>3, <2>5 DEF ClientTypeOK, PipeTypeOK, timerVars
    <2> QED
        BY <1>4, <2>4, <2>5 DEF BackendReply
<1> QED
    BY <1>3, <1>4 DEF BackendStep, BackendReply, BackendReadError

LEMMA TrayStepType ==
    ASSUME TypeOK, TrayStep
    PROVE  TypeOK'
<1> USE DEF TypeOK
<1>1. BackendTypeOK'
    <2>2. CASE TrayRedeploy
        BY <2>2, PushType, DeliverType DEF TrayRedeploy
    <2>3. CASE RestartProcess \/ StopProcess
        BY <2>3, RestartType, StopType
    <2>4. CASE UNCHANGED backendVars
        BY <2>4 DEF BackendTypeOK, backendVars
    <2> QED
        BY <2>2, <2>3, <2>4 DEF TrayStep, TrayRestart, TrayTerminate, Shutdown
<1>2. PipeTypeOK'
    BY DEF TrayStep, TrayRestart, TrayRedeploy, TrayTerminate, Shutdown, CloseAll,
           PipeTypeOK, timerVars
<1> QED
    BY <1>1, <1>2 DEF TrayStep, TrayRestart, TrayRedeploy, TrayTerminate, Shutdown,
                      ClientTypeOK, HistoryTypeOK, clientVars, historyVars

LEMMA EngineStepType ==
    ASSUME TypeOK, EngineStep
    PROVE  TypeOK'
<1> USE DEF TypeOK
<1>1. SUFFICES BackendTypeOK' /\ HistoryTypeOK'
    BY DEF EngineStep, Serve, EmitAsync, EmitGarbage, Exit, ClientTypeOK,
           PipeTypeOK, clientVars, timerVars
<1>2. CASE Serve
    <2> DEFINE m == Head(stdin)
    <2>1. m \in Requests /\ Tail(stdin) \in Seq(Requests)
        BY <1>2, HeadTailProperties DEF Serve, BackendTypeOK
    <2>2. CASE m.method \in {"init", "call"} /\ ServeRequest(m)
        <3>1. m.from \in Conns /\ m.seq \in Seqs
            BY <2>1, <2>2 DEF Requests, ClientMethods, LauncherMethods
        <3>2. HistoryTypeOK'
            BY <1>2, <2>2, <3>1 DEF Serve, ServeRequest, HistoryTypeOK
        <3>3. \A kind \in {"reply", "error"} : Output(m.from, kind, m.seq) \in Outputs
            BY <3>1 DEF Output, Outputs
        <3>4. stdout' \in Seq(Outputs)
            <4>1. stdout \in Seq(Outputs)
                BY DEF BackendTypeOK
            <4>2. \/ stdout' = stdout
                  \/ \E kind \in {"reply", "error"} :
                         stdout' = Append(stdout, Output(m.from, kind, m.seq))
                BY <2>2 DEF ServeRequest
            <4> HIDE DEF m, TypeOK
            <4> QED
                BY <4>1, <4>2, <3>3, AppendProperties
        <3>5. known' \in SUBSET Conns
            BY <2>2, <3>1 DEF ServeRequest, BackendTypeOK
        <3> QED
            BY <1>2, <2>1, <2>2, <3>2, <3>4, <3>5 DEF Serve, ServeRequest, BackendTypeOK
    <2>3. CASE ServeClose(m)
        BY <1>2, <2>1, <2>3 DEF Serve, ServeClose, BackendTypeOK, HistoryTypeOK
    <2>4. CASE ServeLauncher(m)
        BY <1>2, <2>1, <2>4 DEF Serve, ServeLauncher, BackendTypeOK, HistoryTypeOK
    <2> QED
        BY <1>2, <2>2, <2>3, <2>4 DEF Serve
<1>3. CASE EmitAsync
    BY <1>3, BoundsAssumption
    DEF EmitAsync, BackendTypeOK, HistoryTypeOK, historyVars, Output, Outputs, Seqs
<1>4. CASE EmitGarbage
    BY <1>4, BoundsAssumption
    DEF EmitGarbage, BackendTypeOK, HistoryTypeOK, historyVars, Output, Outputs, Seqs
<1>5. CASE Exit
    BY <1>5 DEF Exit, BackendTypeOK, HistoryTypeOK, historyVars
<1> QED
    BY <1>2, <1>3, <1>4, <1>5 DEF EngineStep

LEMMA InitType == Init => TypeOK
<1>1. 0 \in Seqs /\ 0 \in 0 .. MaxGen
    BY BoundsAssumption DEF Seqs
<1>2. /\ <<>> \in Seq(Requests) /\ <<>> \in Seq(Responses)
      /\ <<>> \in Seq(Outputs) /\ <<>> \in Seq(Seqs)
    BY EmptySeq
<1> QED
    BY <1>1, <1>2 DEF Init, TypeOK, ClientTypeOK, PipeTypeOK, BackendTypeOK,
                      HistoryTypeOK

LEMMA NextType ==
    ASSUME TypeOK, [Next]_vars
    PROVE  TypeOK'
<1>1. CASE UNCHANGED vars
    BY <1>1 DEF vars, clientVars, timerVars, backendVars, historyVars, TypeOK,
                ClientTypeOK, PipeTypeOK, BackendTypeOK, HistoryTypeOK
<1> QED
    BY <1>1, ClientStepType, LauncherStepType, BackendStepType, TrayStepType,
       EngineStepType
    DEF Next

\* Every variable keeps its type, whatever the clients, the tray and the engine do.
THEOREM TypeCorrect == Spec => []TypeOK
BY InitType, NextType, PTL DEF Spec

-----------------------------------------------------------------------------
(* The saved preferences are restored before anything else is executed.    *)

LEMMA StartRestores ==
    ASSUME NEW spawned \in SpawnOutcomes, NEW ms, ms \in Seq(Requests),
           StartProcess(spawned, ms), ms # <<>>, Head(ms) = Push
    PROVE  PrefsFirst'
<1>1. Head(ms).method = "prefs"
    BY DEF Push, Request
<1> QED
    BY <1>1, Zenon DEF StartProcess, PrefsFirst

LEMMA RestartRestores ==
    ASSUME RestartProcess
    PROVE  PrefsFirst'
<1>1. PICK spawned \in SpawnOutcomes : StartProcess(spawned, <<Push>>)
    BY DEF RestartProcess
<1>2. <<Push>> \in Seq(Requests) /\ <<Push>> # <<>> /\ Head(<<Push>>) = Push
    BY PushType
<1> QED
    BY <1>1, <1>2, StartRestores

LEMMA DeliverRestores ==
    ASSUME TypeOK, PrefsFirst, NEW m \in Requests, NEW spawned \in SpawnOutcomes,
           Deliver(m, spawned)
    PROVE  PrefsFirst'
<1>1. CASE proc = "up" /\ stdin' = Append(stdin, m) /\ UNCHANGED <<proc, restored>>
    <2>1. stdin \in Seq(Requests)
        BY DEF TypeOK, BackendTypeOK
    <2>2. stdin # <<>> => stdin' # <<>> /\ Head(stdin') = Head(stdin)
        BY <1>1, <2>1
    <2> QED
        BY <1>1, <2>2 DEF PrefsFirst
<1>2. CASE StartProcess(spawned, IF m = Push THEN <<Push>> ELSE <<Push, m>>)
    <2> DEFINE ms == IF m = Push THEN <<Push>> ELSE <<Push, m>>
    <2>1. ms \in Seq(Requests) /\ ms # <<>> /\ Head(ms) = Push
        BY PushType
    <2> QED
        BY <1>2, <2>1, StartRestores
<1> QED
    BY <1>1, <1>2 DEF Deliver

LEMMA NextRestores ==
    ASSUME TypeOK, PrefsFirst, [Next]_vars
    PROVE  PrefsFirst'
<1>1. CASE UNCHANGED backendVars
    BY <1>1 DEF backendVars, PrefsFirst
<1>2. CASE RestartProcess
    BY <1>2, RestartRestores
<1>3. CASE StopProcess
    BY <1>3 DEF StopProcess, StartProcess, PrefsFirst
<1>4. ASSUME NEW m \in Requests, NEW spawned \in SpawnOutcomes, Deliver(m, spawned)
      PROVE  PrefsFirst'
    BY <1>4, DeliverRestores
<1>5. CASE EngineStep
    <2>1. CASE Serve
        <3>1. stdin \in Seq(Requests) /\ stdin # <<>>
            BY <2>1 DEF Serve, TypeOK, BackendTypeOK
        <3>2. Head(stdin).method = "prefs" => restored'
            BY <2>1 DEF Serve, ServeRequest, ServeClose, ServeLauncher, LauncherMethods
        <3>3. restored => restored'
            BY <2>1 DEF Serve, ServeRequest, ServeClose, ServeLauncher
        <3> QED
            BY <2>1, <3>2, <3>3 DEF Serve, PrefsFirst
    <2> QED
        BY <1>5, <2>1 DEF EngineStep, EmitAsync, EmitGarbage, Exit, PrefsFirst
<1>6. ASSUME NEW k \in Conns, ClientStep(k)
      PROVE  UNCHANGED backendVars
    BY <1>6 DEF ClientStep, Connect, Call, Ask, Accept, Reject, SettingsAccept,
                SettingsFinish, Poll, Flush, Busy, PipeBroken, Hangup, Disconnect
<1>7. ASSUME NEW k \in Conns, LauncherStep(k)
      PROVE  PrefsFirst'
    <2>1. CASE HandleClientMessage(k)
        <3>1. Head(up[k]).seq \in Seqs
            BY <2>1, HeadType DEF HandleClientMessage
        <3>2. \A method \in {"init", "call"} :
                  Request(k, method, Head(up[k]).seq) \in Requests
            BY <3>1, RequestType DEF ClientMethods
        <3> QED
            BY <2>1, <3>2, <1>1, <1>4, PushType
            DEF HandleClientMessage, RefuseFrame, RefuseUnbound, AnswerSettings, Forward
    <2>2. CASE ClientReadError(k)
        <3>1. Request(k, "close", 0) \in Requests
            BY BoundsAssumption, RequestType DEF ClientMethods, Seqs
        <3> QED
            BY <2>2, <3>1, <1>1, <1>4 DEF ClientReadError
    <2>3. CASE CloseDone(k)
        BY <2>3, <1>1 DEF CloseDone
    <2>4. CASE Timeout(k)
        BY <2>4, <1>1, <1>2 DEF Timeout
    <2> QED
        BY <1>7, <2>1, <2>2, <2>3, <2>4 DEF LauncherStep
<1>8. CASE BackendStep
    <2>1. CASE BackendReply /\ ~RestartProcess
        BY <2>1 DEF BackendReply, PrefsFirst
    <2> QED
        BY <1>8, <1>2, <2>1 DEF BackendStep, BackendReadError
<1>9. CASE TrayStep
    BY <1>9, <1>1, <1>2, <1>3, <1>4, PushType
    DEF TrayStep, TrayRestart, TrayRedeploy, TrayTerminate, Shutdown
<1> QED
    BY <1>1, <1>5, <1>6, <1>7, <1>8, <1>9 DEF Next, vars

\* However and whenever the engine process is started, the first message it
\* reads is the saved preferences (pushSavedTypeDuckPreferences).
THEOREM PreferencesComeFirst == Spec => []PrefsFirst
<1>1. Init => PrefsFirst
    BY DEF Init, PrefsFirst
<1>2. TypeOK /\ PrefsFirst /\ [Next]_vars => PrefsFirst'
    BY NextRestores
<1> QED
    BY <1>1, <1>2, TypeCorrect, PTL DEF Spec

-----------------------------------------------------------------------------
(* A connection that is not bound to the backend is unknown to it.         *)

LEMMA StartForgets ==
    ASSUME NEW j \in Conns, NEW spawned \in SpawnOutcomes, NEW ms \in Seq(Requests),
           \A i \in 1 .. Len(ms) : ms[i].from # j,
           StartProcess(spawned, ms)
    PROVE  Unmentioned(j)'
<1>1. stdin' = ms \/ stdin' = <<>>
    BY Zenon DEF StartProcess
<1>2. stdout' = <<>> /\ known' = {}
    BY DEF StartProcess
<1> QED
    BY <1>1, <1>2 DEF Unmentioned

LEMMA PushIsOurs ==
    ASSUME NEW j \in Conns
    PROVE  /\ Push.from # j
           /\ Request(Launcher, "deploy", 0).from # j
BY ConnsAssumption DEF Push, Request

LEMMA RestartForgets ==
    ASSUME NEW j \in Conns, RestartProcess \/ StopProcess
    PROVE  Unmentioned(j)'
<1>1. CASE RestartProcess
    <2>1. PICK spawned \in SpawnOutcomes : StartProcess(spawned, <<Push>>)
        BY <1>1 DEF RestartProcess
    <2>2. <<Push>> \in Seq(Requests) /\ \A i \in 1 .. Len(<<Push>>) : <<Push>>[i].from # j
        BY PushType, PushIsOurs
    <2> QED
        BY <2>1, <2>2, StartForgets
<1>2. CASE StopProcess
    BY <1>2 DEF StopProcess, StartProcess, Unmentioned
<1> QED
    BY <1>1, <1>2

LEMMA DeliverForgets ==
    ASSUME TypeOK, NEW j \in Conns, Unmentioned(j), NEW spawned \in SpawnOutcomes,
           NEW m \in Requests, m.from # j, Deliver(m, spawned)
    PROVE  Unmentioned(j)'
<1>1. CASE stdin' = Append(stdin, m) /\ UNCHANGED <<stdout, known>>
    <2>1. stdin \in Seq(Requests)
        BY DEF TypeOK, BackendTypeOK
    <2>2. \A i \in 1 .. Len(stdin') : stdin'[i].from # j
        BY <1>1, <2>1 DEF Unmentioned
    <2> QED
        BY <1>1, <2>2 DEF Unmentioned
<1>2. CASE StartProcess(spawned, IF m = Push THEN <<Push>> ELSE <<Push, m>>)
    <2> DEFINE ms == IF m = Push THEN <<Push>> ELSE <<Push, m>>
    <2>1. ms \in Seq(Requests)
        BY PushType
    <2>2. \A i \in 1 .. Len(ms) : ms[i].from # j
        BY PushIsOurs
    <2> QED
        BY <1>2, <2>1, <2>2, StartForgets
<1> QED
    BY <1>1, <1>2 DEF Deliver

\* Writing an error to any connection leaves the others' messages alone.
LEMMA ErrorsStayRefusals ==
    ASSUME TypeOK, NEW j \in Conns, OnlyRefused(j),
           down'[j] = down[j] \/
           \E seq \in Seqs : down'[j] = Send(j, [kind |-> "error", seq |-> seq])
    PROVE  OnlyRefused(j)'
<1>1. down[j] \in Seq(Responses)
    BY DEF TypeOK, ClientTypeOK
<1>2. CASE down'[j] = down[j]
    BY <1>2 DEF OnlyRefused
<1>3. ASSUME NEW seq \in Seqs, down'[j] = Append(down[j], [kind |-> "error", seq |-> seq])
      PROVE  OnlyRefused(j)'
    BY <1>1, <1>3 DEF OnlyRefused
<1> QED
    BY <1>2, <1>3 DEF Send

LEMMA WriteErrorsAreErrors ==
    ASSUME TypeOK, NEW j \in Conns, NEW ks \in SUBSET Conns, NEW seq \in Seqs,
           WriteErrors(ks, seq)
    PROVE  down'[j] = down[j] \/
           \E s \in Seqs : down'[j] = Send(j, [kind |-> "error", seq |-> s])
<1>1. PICK s \in Seqs : ErrorFor(j, seq) = [kind |-> "error", seq |-> s]
    BY DEF ErrorFor, TypeOK, PipeTypeOK
<1> QED
    BY <1>1 DEF WriteErrors

LEMMA UnboundPreserved ==
    ASSUME TypeOK, UnboundIsUnknown, [Next]_vars
    PROVE  UnboundIsUnknown'
<1> SUFFICES ASSUME NEW j \in Conns, ~bound'[j]
             PROVE  ~ready'[j] /\ Unmentioned(j)' /\ OnlyRefused(j)'
    BY DEF UnboundIsUnknown
<1>0. 0 \in Seqs
    BY BoundsAssumption DEF Seqs
<1>1. CASE UNCHANGED vars
    BY <1>1 DEF vars, clientVars, backendVars, UnboundIsUnknown, Unmentioned, OnlyRefused
<1>2. ASSUME NEW k \in Conns, ClientStep(k)
      PROVE  ~ready'[j] /\ Unmentioned(j)' /\ OnlyRefused(j)'
    <2>1. UNCHANGED <<bound, backendVars>>
        BY <1>2 DEF ClientStep, Connect, Call, Ask, Accept, Reject, SettingsAccept,
                    SettingsFinish, Poll, Flush, Busy, PipeBroken, Hangup, Disconnect
    <2>2. ~ready[j] /\ Unmentioned(j) /\ OnlyRefused(j)
        BY <2>1 DEF UnboundIsUnknown
    <2>3. Unmentioned(j)'
        BY <2>1, <2>2 DEF Unmentioned, backendVars
    <2>4. down[j] \in Seq(Responses)
        BY DEF TypeOK, ClientTypeOK
    <2>5. CASE Accept(k)
        <3>1. PICK i \in 1 .. Len(down[k]) : Succeeds(k, i)
            BY <2>5 DEF Accept
        <3>2. k # j
            <4> SUFFICES ASSUME k = j PROVE FALSE
                OBVIOUS
            <4>1. down[j][i].kind = "error"
                BY <3>1, <2>2 DEF OnlyRefused
            <4>2. Len(SubSeq(down[j], 1, i)) = i /\ SubSeq(down[j], 1, i)[i] = down[j][i]
                BY <2>4, <3>1, SubSeqProperties, ElementOfSeq, LenProperties
            <4> QED
                BY <4>1, <4>2, <3>1, <2>4, LenProperties DEF Succeeds, HasError
        <3> QED
            BY <2>5, <2>2, <2>3, <3>2 DEF Accept, OnlyRefused, TypeOK, ClientTypeOK
    <2>6. CASE SettingsAccept(k)
        <3>1. k # j
            BY <2>6, <2>2, <2>4 DEF SettingsAccept, OnlyRefused
        <3> QED
            BY <2>6, <2>2, <2>3, <3>1 DEF SettingsAccept, OnlyRefused, TypeOK, ClientTypeOK
    <2>7. CASE UNCHANGED ready /\ (down'[j] = down[j] \/ down'[j] = <<>>)
        BY <2>2, <2>3, <2>7 DEF OnlyRefused
    <2> QED
        BY <1>2, <2>5, <2>6, <2>7
        DEF ClientStep, Connect, Call, Ask, Reject, SettingsFinish, Poll, Flush, Busy,
            PipeBroken, Hangup, Disconnect, TypeOK, ClientTypeOK
<1>3. ASSUME NEW k \in Conns, HandleClientMessage(k)
      PROVE  ~ready'[j] /\ Unmentioned(j)' /\ OnlyRefused(j)'
    <2> DEFINE m == Head(up[k])
    <2>1. m \in Requests /\ m.seq \in Seqs
        BY <1>3, HeadType DEF HandleClientMessage
    <2>2. UNCHANGED ready
        BY <1>3 DEF HandleClientMessage, clientVars
    <2>3. ~bound[j]
        BY <1>3 DEF HandleClientMessage, RefuseFrame, RefuseUnbound, AnswerSettings,
                    Forward, TypeOK, PipeTypeOK
    <2>4. ~ready[j] /\ Unmentioned(j) /\ OnlyRefused(j)
        BY <2>3 DEF UnboundIsUnknown
    <2>5. CASE UNCHANGED backendVars /\ down' = down
        BY <2>2, <2>4, <2>5 DEF backendVars, Unmentioned, OnlyRefused
    <2>6. ASSUME NEW seq \in Seqs, UNCHANGED backendVars, WriteErrors({k}, seq)
          PROVE  ~ready'[j] /\ Unmentioned(j)' /\ OnlyRefused(j)'
        <3>1. OnlyRefused(j)'
            BY <2>4, <2>6, ErrorsStayRefusals, WriteErrorsAreErrors
        <3> QED
            BY <2>2, <2>4, <2>6, <3>1 DEF backendVars, Unmentioned
    <2>7. CASE AnswerSettings(k, m) /\ bound[k]
        <3>1. k # j
            BY <2>3, <2>7
        <3>2. down'[j] = down[j]
            BY <2>7, <3>1 DEF AnswerSettings, TypeOK, ClientTypeOK
        <3>3. Unmentioned(j)'
            <4>1. CASE UNCHANGED backendVars
                BY <2>4, <4>1 DEF backendVars, Unmentioned
            <4>2. CASE \E spawned \in SpawnOutcomes : Deliver(Push, spawned)
                BY <2>4, <4>2, PushType, PushIsOurs, DeliverForgets
            <4> QED
                BY <2>7, <4>1, <4>2 DEF AnswerSettings
        <3> QED
            BY <2>2, <2>4, <3>2, <3>3 DEF OnlyRefused
    <2>8. CASE Forward(k, m) /\ m.method \in {"init", "call"}
        <3>1. k # j
            BY <2>8 DEF Forward, TypeOK, PipeTypeOK
        <3>2. down'[j] = down[j]
            BY <2>8, <3>1 DEF Forward, TypeOK, ClientTypeOK
        <3>3. Request(k, m.method, m.seq) \in Requests
              /\ Request(k, m.method, m.seq).from # j
            BY <2>1, <2>8, <3>1, RequestType DEF ClientMethods, Request
        <3>4. Unmentioned(j)'
            BY <2>8, <2>4, <3>3, DeliverForgets DEF Forward
        <3> QED
            BY <2>2, <2>4, <3>2, <3>4 DEF OnlyRefused
    <2>9. CASE RefuseUnbound(k, m)
        BY <1>3, <2>1, <2>5, <2>6, <2>9 DEF RefuseUnbound, HandleClientMessage, timerVars
    <2>10. CASE RefuseFrame(k)
        BY <1>0, <2>6, <2>10 DEF RefuseFrame
    <2> QED
        BY <1>3, <2>1, <2>7, <2>8, <2>9, <2>10
        DEF HandleClientMessage, Requests, ClientMethods
<1>4. ASSUME NEW k \in Conns, ClientReadError(k)
      PROVE  ~ready'[j] /\ Unmentioned(j)' /\ OnlyRefused(j)'
    <2>1. UNCHANGED <<ready, bound>>
        BY <1>4 DEF ClientReadError, clientVars
    <2>2. ~ready[j] /\ Unmentioned(j) /\ OnlyRefused(j)
        BY <2>1 DEF UnboundIsUnknown
    <2>3. OnlyRefused(j)'
        <3>1. CASE WriteErrors({k}, 0)
            BY <1>0, <2>2, <3>1, ErrorsStayRefusals, WriteErrorsAreErrors
        <3> QED
            BY <1>4, <2>2, <3>1 DEF ClientReadError, OnlyRefused
    <2>4. Unmentioned(j)'
        <3>1. CASE UNCHANGED backendVars
            BY <2>2, <3>1 DEF backendVars, Unmentioned
        <3>2. CASE bound[k] /\ \E spawned \in SpawnOutcomes :
                       Deliver(Request(k, "close", 0), spawned)
            <4>1. Request(k, "close", 0) \in Requests /\ Request(k, "close", 0).from # j
                BY <1>0, <2>1, <3>2, RequestType DEF ClientMethods, Request
            <4> QED
                BY <2>2, <3>2, <4>1, DeliverForgets
        <3> QED
            BY <1>4, <3>1, <3>2 DEF ClientReadError
    <2> QED
        BY <2>1, <2>2, <2>3, <2>4
<1>5. ASSUME UNCHANGED <<ready, bound>>,
             RestartProcess \/ StopProcess \/ UNCHANGED backendVars,
             \/ UNCHANGED down
             \/ \E ks \in SUBSET Conns, seq \in Seqs : WriteErrors(ks, seq)
      PROVE  ~ready'[j] /\ Unmentioned(j)' /\ OnlyRefused(j)'
    <2>1. ~ready[j] /\ Unmentioned(j) /\ OnlyRefused(j)
        BY <1>5 DEF UnboundIsUnknown
    <2>2. Unmentioned(j)'
        BY <1>5, <2>1, RestartForgets DEF backendVars, Unmentioned
    <2>3. OnlyRefused(j)'
        BY <1>5, <2>1, ErrorsStayRefusals, WriteErrorsAreErrors
    <2> QED
        BY <1>5, <2>1, <2>2, <2>3
<1>6. ASSUME NEW k \in Conns, CloseDone(k) \/ Timeout(k)
      PROVE  ~ready'[j] /\ Unmentioned(j)' /\ OnlyRefused(j)'
    <2>1. {k} \in SUBSET Conns /\ pending[k] \in Seqs
        BY DEF TypeOK, PipeTypeOK
    <2> QED
        BY <1>5, <1>6, <2>1 DEF CloseDone, Timeout, clientVars
<1>7. CASE BackendStep
    <2>1. UNCHANGED <<ready, bound>>
        BY <1>7 DEF BackendStep, BackendReply, BackendReadError, clientVars
    <2>2. CASE WriteErrors(Attached, 0) /\ RestartProcess
        BY <1>0, <1>5, <2>1, <2>2 DEF Attached
    <2>3. CASE BackendReply /\ Head(stdout).kind # "garbage"
        <3> DEFINE m == Head(stdout)
        <3>1. ~ready[j] /\ Unmentioned(j) /\ OnlyRefused(j)
            BY <2>1 DEF UnboundIsUnknown
        <3>2. stdout \in Seq(Outputs) /\ stdout # <<>>
            BY <2>3 DEF BackendReply, TypeOK, BackendTypeOK
        <3>3. m.to # j
            BY <2>3, <3>1, <3>2 DEF Unmentioned
        <3>4. down'[j] = down[j]
            BY <2>3, <3>3 DEF BackendReply, WritePipe, TypeOK, ClientTypeOK
        <3>5. \A i \in 1 .. Len(Tail(stdout)) : Tail(stdout)[i] = stdout[i + 1]
              /\ Len(Tail(stdout)) = Len(stdout) - 1
            BY <3>2, HeadTailProperties
        <3>6. Unmentioned(j)'
            BY <2>3, <3>1, <3>2, <3>5 DEF BackendReply, Unmentioned
        <3> QED
            BY <2>1, <3>1, <3>4, <3>6 DEF OnlyRefused
    <2> QED
        BY <1>7, <2>2, <2>3 DEF BackendStep, BackendReply, BackendReadError
<1>8. CASE TrayStep
    <2>1. CASE TrayRedeploy
        <3>1. ~ready[j] /\ Unmentioned(j) /\ OnlyRefused(j)
            BY <2>1 DEF TrayRedeploy, UnboundIsUnknown
        <3>2. Unmentioned(j)'
            BY <2>1, <3>1, PushType, PushIsOurs, DeliverForgets DEF TrayRedeploy
        <3> QED
            BY <2>1, <3>1, <3>2 DEF TrayRedeploy, OnlyRefused, clientVars
    <2> QED
        BY <1>5, <1>8, <2>1
        DEF TrayStep, TrayRestart, TrayTerminate, Shutdown, clientVars
<1>9. CASE EngineStep
    <2>1. UNCHANGED <<ready, bound, down>>
        BY <1>9 DEF EngineStep, Serve, EmitAsync, EmitGarbage, Exit, clientVars
    <2>2. ~ready[j] /\ Unmentioned(j) /\ OnlyRefused(j)
        BY <2>1 DEF UnboundIsUnknown
    <2>3. SUFFICES Unmentioned(j)'
        BY <2>1, <2>2 DEF OnlyRefused
    <2>4. stdin \in Seq(Requests) /\ stdout \in Seq(Outputs)
        BY DEF TypeOK, BackendTypeOK
    <2>5. CASE Serve
        <3> DEFINE m == Head(stdin)
        <3>1. stdin # <<>> /\ m.from # j
            BY <2>2, <2>4, <2>5 DEF Serve, Unmentioned
        <3>2. \A i \in 1 .. Len(stdin') : stdin'[i].from # j
            BY <2>2, <2>4, <2>5, <3>1, HeadTailProperties DEF Serve, Unmentioned
        <3>3. j \notin known'
            BY <2>2, <2>5, <3>1 DEF Serve, ServeRequest, ServeClose, ServeLauncher,
                                    Unmentioned
        <3>4. CASE UNCHANGED stdout
            BY <2>2, <3>2, <3>3, <3>4 DEF Unmentioned
        <3>5. ASSUME NEW kind \in {"reply", "error"},
                     stdout' = Append(stdout, Output(m.from, kind, m.seq))
              PROVE  Unmentioned(j)'
            <4>1. Output(m.from, kind, m.seq).to # j
                BY <3>1 DEF Output
            <4>2. \A i \in 1 .. Len(stdout') :
                      stdout'[i].to = j => stdout'[i].kind = "garbage"
                BY <2>2, <2>4, <3>5, <4>1 DEF Unmentioned
            <4> QED
                BY <3>2, <3>3, <4>2 DEF Unmentioned
        <3> QED
            BY <2>5, <3>4, <3>5 DEF Serve, ServeRequest, ServeClose, ServeLauncher
    <2>6. CASE EmitAsync
        <3>1. PICK k \in known : stdout' = Append(stdout, Output(k, "async", 0))
            BY <2>6 DEF EmitAsync
        <3>2. Output(k, "async", 0).to # j
            BY <2>2, <3>1 DEF Output, Unmentioned
        <3>3. \A i \in 1 .. Len(stdout') :
                  stdout'[i].to = j => stdout'[i].kind = "garbage"
            BY <2>2, <2>4, <3>1, <3>2 DEF Unmentioned
        <3> QED
            BY <2>2, <2>6, <3>3 DEF EmitAsync, Unmentioned
    <2>7. CASE EmitGarbage
        <3>1. PICK k \in Conns : stdout' = Append(stdout, Output(k, "garbage", 0))
            BY <2>7 DEF EmitGarbage
        <3>2. Output(k, "garbage", 0).kind = "garbage"
            BY DEF Output
        <3>3. \A i \in 1 .. Len(stdout') :
                  stdout'[i].to = j => stdout'[i].kind = "garbage"
            BY <2>2, <2>4, <3>1, <3>2 DEF Unmentioned
        <3> QED
            BY <2>2, <2>7, <3>3 DEF EmitGarbage, Unmentioned
    <2>8. CASE Exit
        BY <2>2, <2>8 DEF Exit, Unmentioned
    <2> QED
        BY <1>9, <2>5, <2>6, <2>7, <2>8 DEF EngineStep
<1> QED
    BY <1>1, <1>2, <1>3, <1>4, <1>6, <1>7, <1>8, <1>9 DEF Next, LauncherStep

-----------------------------------------------------------------------------
(* The launcher's side of a blocked call.                                  *)

\* A call of the client end, which starts with init unless the peer is foreign.
Calls(k) ==
    \E method \in ClientMethods :
        /\ Ask(k, method)
        /\ ~ready[k] => k \in Foreign \/ method = "init"
        /\ method = "settings" => k \in SettingsApps

\* A connection's requests only change by its own calls and by being read.
LEMMA UpChanges ==
    ASSUME TypeOK, [Next]_vars, NEW j \in Conns
    PROVE  \/ up'[j] = up[j]
           \/ Calls(j)
           \/ HandleClientMessage(j) /\ up'[j] = Tail(up[j])
<1>1. CASE UNCHANGED up
    BY <1>1
<1>2. ASSUME NEW k \in Conns, HandleClientMessage(k)
      PROVE  up'[j] = up[j] \/ (HandleClientMessage(j) /\ up'[j] = Tail(up[j]))
    BY <1>2 DEF HandleClientMessage, TypeOK, ClientTypeOK
<1>3. ASSUME NEW k \in Conns, Call(k)
      PROVE  \/ up'[j] = up[j]
             \/ Calls(j)
    <2>1. CASE k = j
        BY <1>3, <2>1 DEF Calls, Call, ClientMethods
    <2>2. CASE k # j
        BY <1>3, <2>2 DEF Call, Ask, TypeOK, ClientTypeOK
    <2> QED
        BY <2>1, <2>2
<1> QED
    BY <1>1, <1>2, <1>3
    DEF Next, ClientStep, LauncherStep, BackendStep, TrayStep, EngineStep, vars,
        Connect, Accept, Reject, SettingsAccept, SettingsFinish, Poll, Flush, Busy,
        PipeBroken, Hangup, Disconnect, ClientReadError, CloseDone, Timeout,
        BackendReply, BackendReadError, TrayRestart, TrayRedeploy, TrayTerminate,
        Shutdown, Serve, EmitAsync, EmitGarbage, Exit

\* A caller that is blocked after a step was blocked before it, or the step is
\* its call; in between nothing of the client end changes.
LEMMA WaitingSince ==
    ASSUME TypeOK, [Next]_vars, NEW j \in Conns, cst'[j] = "waiting"
    PROVE  \/ Calls(j)
           \/ cst[j] = "waiting" /\ next'[j] = next[j]
<1>1. CASE UNCHANGED <<cst, next>>
    BY <1>1
<1>2. ASSUME NEW k \in Conns, ClientStep(k)
      PROVE  \/ Calls(j)
             \/ cst[j] = "waiting" /\ next'[j] = next[j]
    <2>1. CASE k = j
        BY <1>2, <2>1
        DEF ClientStep, Connect, Call, Accept, Reject, SettingsAccept, SettingsFinish,
            Poll, Flush, Busy, PipeBroken, Hangup, Disconnect, TypeOK, ClientTypeOK,
            Calls, ClientMethods
    <2>2. CASE k # j
        BY <1>2, <2>2
        DEF ClientStep, Connect, Call, Ask, Accept, Reject, SettingsAccept,
            SettingsFinish, Poll, Flush, Busy, PipeBroken, Hangup, Disconnect, TypeOK,
            ClientTypeOK
    <2> QED
        BY <2>1, <2>2
<1> QED
    BY <1>1, <1>2
    DEF Next, LauncherStep, BackendStep, TrayStep, EngineStep, vars, clientVars,
        HandleClientMessage, ClientReadError, CloseDone, Timeout, BackendReply,
        BackendReadError, TrayRestart, TrayRedeploy, TrayTerminate, Shutdown, Serve,
        EmitAsync, EmitGarbage, Exit

\* No step takes a backend away from a connection.
LEMMA BoundStays ==
    ASSUME TypeOK, [Next]_vars, NEW j \in Conns, bound[j]
    PROVE  bound'[j]
<1>1. CASE UNCHANGED bound
    BY <1>1
<1>2. ASSUME NEW k \in Conns, HandleClientMessage(k)
      PROVE  bound'[j]
    BY <1>2 DEF HandleClientMessage, RefuseFrame, RefuseUnbound, AnswerSettings,
                Forward, TypeOK, PipeTypeOK
<1> QED
    BY <1>1, <1>2
    DEF Next, ClientStep, LauncherStep, BackendStep, TrayStep, EngineStep, vars,
        Connect, Call, Ask, Accept, Reject, SettingsAccept, SettingsFinish, Poll, Flush,
        Busy, PipeBroken, Hangup, Disconnect, ClientReadError, CloseDone, Timeout,
        BackendReply, BackendReadError, TrayRestart, TrayRedeploy, TrayTerminate,
        Shutdown, Serve, EmitAsync, EmitGarbage, Exit

LEMMA LastPreserved ==
    ASSUME TypeOK, UnboundIsUnknown, LastIsCurrent, [Next]_vars
    PROVE  LastIsCurrent'
<1> SUFFICES ASSUME NEW j \in Conns, cst'[j] = "waiting", up'[j] # <<>>
             PROVE  /\ up'[j][Len(up'[j])].seq = next'[j] - 1
                    /\ (~bound'[j] /\ j \notin Foreign) =>
                           up'[j][Len(up'[j])].method = "init"
    BY DEF LastIsCurrent
<1>1. up[j] \in Seq(Requests) /\ next[j] \in Seqs
    BY DEF TypeOK, ClientTypeOK
<1>2. CASE Calls(j)
    <2>1. PICK method \in ClientMethods :
              Ask(j, method) /\ (~ready[j] => j \in Foreign \/ method = "init")
        BY <1>2 DEF Calls
    <2>2. Request(j, method, next[j]) \in Requests
        BY <1>1, RequestType
    <2>3. up'[j][Len(up'[j])] = Request(j, method, next[j]) /\ next'[j] = next[j] + 1
        BY <1>1, <2>1, <2>2 DEF Ask, TypeOK, ClientTypeOK
    <2>4. bound'[j] = bound[j]
        BY <2>1 DEF Ask
    <2>5. next'[j] - 1 = next[j]
        BY <1>1, <2>3 DEF Seqs
    <2> QED
        BY <2>1, <2>3, <2>4, <2>5 DEF Request, UnboundIsUnknown
<1>3. CASE cst[j] = "waiting" /\ next'[j] = next[j] /\ up'[j] = up[j]
    BY <1>3, BoundStays DEF LastIsCurrent
<1>4. CASE /\ cst[j] = "waiting" /\ next'[j] = next[j]
           /\ HandleClientMessage(j) /\ up'[j] = Tail(up[j])
    <2>1. up[j] # <<>>
        BY <1>4 DEF HandleClientMessage
    <2>2. up'[j][Len(up'[j])] = up[j][Len(up[j])]
        BY <1>1, <1>4, <2>1, HeadTailProperties
    <2> QED
        BY <1>4, <2>1, <2>2, BoundStays DEF LastIsCurrent
<1> QED
    BY <1>2, <1>3, <1>4, UpChanges, WaitingSince

\* What is written to a blocked caller arrives unless the pipe is being closed.
LEMMA SendArrives ==
    ASSUME TypeOK, NEW j \in Conns, cst[j] = "waiting", NEW r \in Responses,
           pipe[j] \in {"open", "closing"}
    PROVE  Send(j, r) # <<>> \/ pipe[j] = "closing"
<1>1. down[j] \in Seq(Responses)
    BY DEF TypeOK, ClientTypeOK
<1>2. Append(down[j], r) # <<>>
    BY <1>1
<1> QED
    BY <1>2 DEF Send

\* A request of ours that the launcher takes from a blocked caller is answered,
\* or is on its way to the engine with the timer set for it.
LEMMA RequestIsHandled ==
    ASSUME TypeOK, UnboundIsUnknown, LastIsCurrent, NEW j \in Conns \ Foreign,
           cst[j] = "waiting", HandleClientMessage(j), up'[j] = <<>>
    PROVE  \/ armed'[j] /\ pending'[j] = next[j] - 1
           \/ down'[j] # <<>>
<1> DEFINE m == Head(up[j])
<1>1. /\ up[j] \in Seq(Requests) /\ up[j] # <<>> /\ pipe[j] = "open"
      /\ up'[j] = Tail(up[j])
    BY DEF HandleClientMessage, TypeOK, ClientTypeOK
<1>2. m = up[j][Len(up[j])]
    <2>1. Len(up[j]) = 1
        <3>1. Len(Tail(up[j])) = Len(up[j]) - 1
            BY <1>1, HeadTailProperties
        <3>2. Len(Tail(up[j])) = 0
            <4>1. Tail(up[j]) = <<>>
                BY <1>1, Zenon
            <4>2. Len(<<>>) = 0
                BY EmptySeq
            <4> QED
                BY <4>1, <4>2, Zenon
        <3>3. Len(up[j]) \in Nat
            BY <1>1, LenProperties
        <3> QED
            BY <3>1, <3>2, <3>3
    <2> QED
        BY <2>1
<1>3. m.seq = next[j] - 1 /\ (~bound[j] => m.method = "init")
    BY <1>1, <1>2 DEF LastIsCurrent
<1>4. \A r \in Responses : Send(j, r) # <<>>
    BY <1>1, SendArrives
<1>5. \A kind \in {"reply", "async", "error"} : [kind |-> kind, seq |-> m.seq] \in Responses
    BY <1>1, HeadType
<1>6. 0 \in Seqs /\ down \in [Conns -> Seq(Responses)]
    BY BoundsAssumption DEF Seqs, TypeOK, ClientTypeOK
<1>7. CASE RefuseFrame(j)
    BY <1>4, <1>6, <1>7, ErrorType DEF RefuseFrame, WriteErrors, TypeOK
<1>8. CASE AnswerSettings(j, m)
    BY <1>4, <1>5, <1>6, <1>8 DEF AnswerSettings
<1>9. CASE Forward(j, m)
    BY <1>3, <1>4, <1>5, <1>6, <1>9 DEF Forward, TypeOK, PipeTypeOK
<1> QED
    BY <1>3, <1>7, <1>8, <1>9 DEF HandleClientMessage

\* Apart from that, what a blocked caller has to hope for is only replaced by
\* something better: an answer, or the end of the connection.
LEMMA HopeStays ==
    ASSUME TypeOK, [Next]_vars, NEW j \in Conns,
           cst[j] = "waiting", cst'[j] = "waiting", up'[j] = up[j],
           \/ armed[j] /\ pending[j] = next[j] - 1
           \/ down[j] # <<>>
           \/ pipe[j] \in {"closing", "gone"}
    PROVE  \/ armed'[j] /\ pending'[j] = next'[j] - 1
           \/ down'[j] # <<>>
           \/ pipe'[j] \in {"closing", "gone"}
<1> DEFINE Hope == \/ armed[j] /\ pending[j] = next[j] - 1
                   \/ down[j] # <<>>
                   \/ pipe[j] \in {"closing", "gone"}
<1>1. next'[j] = next[j]
    BY WaitingSince DEF Calls, Ask
<1>2. CASE /\ down'[j] = down[j] /\ armed'[j] = armed[j] /\ pending'[j] = pending[j]
           /\ pipe'[j] = pipe[j] \/ pipe'[j] \in {"closing", "gone"}
    BY <1>1, <1>2
<1>3. ASSUME NEW r \in Responses, down'[j] = Send(j, r), pipe'[j] = pipe[j],
             pipe[j] \in {"open", "closing"}
      PROVE  Hope'
    BY <1>3, SendArrives
<1>4. ASSUME NEW ks \in SUBSET Conns, NEW seq \in Seqs, WriteErrors(ks, seq),
             \A k \in ks : pipe[k] \in {"open", "closing"}, UNCHANGED pipe
      PROVE  Hope'
    <2>1. CASE j \in ks
        <3>1. down'[j] = Send(j, ErrorFor(j, seq)) /\ ErrorFor(j, seq) \in Responses
            BY <1>4, <2>1, ErrorType DEF WriteErrors, TypeOK
        <3> QED
            BY <1>3, <1>4, <2>1, <3>1
    <2>2. CASE j \notin ks
        BY <1>2, <1>4, <2>2 DEF WriteErrors
    <2> QED
        BY <2>1, <2>2
<1>5. ASSUME NEW k \in Conns, ClientStep(k)
      PROVE  Hope'
    <2>1. k # j
        BY <1>5
        DEF ClientStep, Connect, Call, Ask, Accept, Reject, SettingsAccept,
            SettingsFinish, Poll, Flush, Busy, PipeBroken, Hangup, Disconnect, TypeOK,
            ClientTypeOK
    <2>2. down'[j] = down[j] /\ pipe'[j] = pipe[j]
        BY <1>5, <2>1
        DEF ClientStep, Connect, Call, Ask, Accept, Reject, SettingsAccept,
            SettingsFinish, Poll, Flush, Busy, PipeBroken, Hangup, Disconnect, TypeOK,
            ClientTypeOK, PipeTypeOK
    <2>3. UNCHANGED timerVars
        BY <1>5
        DEF ClientStep, Connect, Call, Ask, Accept, Reject, SettingsAccept,
            SettingsFinish, Poll, Flush, Busy, PipeBroken, Hangup, Disconnect
    <2> QED
        BY <1>2, <2>2, <2>3 DEF timerVars
<1>6. ASSUME NEW k \in Conns, HandleClientMessage(k)
      PROVE  Hope'
    <2>1. k # j
        BY <1>6, HeadTailProperties DEF HandleClientMessage, TypeOK, ClientTypeOK
    <2>2. down'[j] = down[j] /\ armed'[j] = armed[j] /\ pending'[j] = pending[j]
        BY <1>6, <2>1
        DEF HandleClientMessage, RefuseFrame, RefuseUnbound, AnswerSettings, Forward,
            WriteErrors, timerVars, TypeOK, ClientTypeOK, PipeTypeOK
    <2> QED
        BY <1>2, <1>6, <2>2 DEF HandleClientMessage
<1>7. ASSUME NEW k \in Conns, ClientReadError(k)
      PROVE  Hope'
    <2>1. k # j
        BY <1>7 DEF ClientReadError
    <2>2. down'[j] = down[j] /\ armed'[j] = armed[j] /\ pending'[j] = pending[j]
        BY <1>7, <2>1 DEF ClientReadError, WriteErrors, timerVars
    <2> QED
        BY <1>2, <1>7, <2>1, <2>2 DEF ClientReadError, TypeOK, PipeTypeOK
<1>8. ASSUME NEW k \in Conns, CloseDone(k)
      PROVE  Hope'
    BY <1>1, <1>8 DEF CloseDone, TypeOK, PipeTypeOK
<1>9. ASSUME NEW k \in Conns, Timeout(k)
      PROVE  Hope'
    <2>1. {k} \in SUBSET Conns /\ pending[k] \in Seqs
        BY DEF TypeOK, PipeTypeOK
    <2> QED
        BY <1>4, <1>9, <2>1 DEF Timeout
<1>10. CASE BackendStep
    <2>1. CASE WriteErrors(Attached, 0)
        <3>1. 0 \in Seqs /\ Attached \in SUBSET Conns
            BY BoundsAssumption DEF Seqs, Attached
        <3>2. \A k \in Attached : pipe[k] \in {"open", "closing"}
            BY DEF Attached
        <3> QED
            BY <1>4, <1>10, <2>1, <3>1, <3>2 DEF BackendStep, BackendReply, BackendReadError
    <2>2. CASE BackendReply /\ Head(stdout).kind # "garbage"
        <3> DEFINE m == Head(stdout)
                   r == [kind |-> m.kind, seq |-> m.seq]
        <3>1. m \in Outputs
            BY <2>2, HeadTailProperties DEF BackendReply, TypeOK, BackendTypeOK
        <3>2. r \in Responses
            BY <2>2, <3>1 DEF Outputs, Responses
        <3>3. CASE m.to = j /\ WritePipe(j, r) /\ pipe[j] \in {"open", "closing"}
            BY <1>3, <2>2, <3>2, <3>3 DEF BackendReply, WritePipe, TypeOK, ClientTypeOK
        <3>4. CASE m.to # j /\ WritePipe(m.to, r)
            BY <1>2, <2>2, <3>1, <3>4
            DEF BackendReply, WritePipe, TypeOK, ClientTypeOK, PipeTypeOK
        <3>5. CASE UNCHANGED <<down, timerVars>>
            BY <1>2, <2>2, <3>5 DEF BackendReply, timerVars
        <3> QED
            BY <2>2, <3>3, <3>4, <3>5 DEF BackendReply
    <2> QED
        BY <1>10, <2>1, <2>2 DEF BackendStep, BackendReply, BackendReadError
<1>11. CASE TrayStep
    <2>1. pipe'[j] = pipe[j] \/ pipe'[j] = "closing"
        BY <1>11 DEF TrayStep, TrayRestart, TrayRedeploy, TrayTerminate, Shutdown, CloseAll
    <2> QED
        BY <1>2, <1>11, <2>1
        DEF TrayStep, TrayRestart, TrayRedeploy, TrayTerminate, Shutdown, timerVars
<1>12. CASE EngineStep \/ UNCHANGED vars
    BY <1>2, <1>12 DEF EngineStep, Serve, EmitAsync, EmitGarbage, Exit, timerVars, vars
<1> QED
    BY <1>5, <1>6, <1>7, <1>8, <1>9, <1>10, <1>11, <1>12 DEF Next, LauncherStep

LEMMA StrandedPreserved ==
    ASSUME InductiveInv, [Next]_vars
    PROVE  NoStrandedRequest'
<1> USE DEF InductiveInv
<1> SUFFICES ASSUME NEW j \in Conns \ Foreign, cst'[j] = "waiting"
             PROVE  \/ up'[j] # <<>>
                    \/ armed'[j] /\ pending'[j] = next'[j] - 1
                    \/ down'[j] # <<>>
                    \/ pipe'[j] \in {"closing", "gone"}
    BY DEF NoStrandedRequest
<1>1. CASE Calls(j)
    <2>1. PICK method \in ClientMethods : Ask(j, method)
        BY <1>1 DEF Calls
    <2>2. up[j] \in Seq(Requests) /\ Request(j, method, next[j]) \in Requests
        BY RequestType DEF TypeOK, ClientTypeOK
    <2>3. up'[j] = Append(up[j], Request(j, method, next[j]))
        BY <2>1 DEF Ask, TypeOK, ClientTypeOK
    <2> QED
        BY <2>2, <2>3
<1>2. CASE cst[j] = "waiting" /\ next'[j] = next[j] /\ up'[j] = up[j]
    BY <1>2, HopeStays DEF NoStrandedRequest
<1>3. CASE cst[j] = "waiting" /\ next'[j] = next[j] /\ HandleClientMessage(j)
    BY <1>3, RequestIsHandled
<1> QED
    BY <1>1, <1>2, <1>3, WaitingSince, UpChanges

\* NoStrandedRequest is not inductive by itself: a request is only handed on, timed or
\* refused for a bound connection, and what is refused must have been init; with the
\* two invariants that say so and the types it is.
THEOREM InductiveInvariant == Spec => []InductiveInv
<1>1. Init => InductiveInv
    <2> SUFFICES ASSUME Init PROVE InductiveInv
        OBVIOUS
    <2>1. UnboundIsUnknown /\ LastIsCurrent /\ NoStrandedRequest
        BY DEF Init, UnboundIsUnknown, Unmentioned, OnlyRefused, LastIsCurrent,
               NoStrandedRequest
    <2> QED
        BY <2>1, InitType DEF InductiveInv
<1>2. InductiveInv /\ [Next]_vars => InductiveInv'
    BY NextType, UnboundPreserved, LastPreserved, StrandedPreserved DEF InductiveInv
<1> QED
    BY <1>1, <1>2, PTL DEF Spec

\* No host thread is ever abandoned in TransactNamedPipe: whatever the other
\* clients, the tray and the engine do, a blocked caller's request is on its
\* way, timed, answered, or its pipe is being closed.
THEOREM NobodyIsStranded == Spec => []NoStrandedRequest
BY InductiveInvariant, PTL DEF InductiveInv

=============================================================================
