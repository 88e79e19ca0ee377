------------------------- MODULE LauncherLifeProofs -------------------------
(***************************************************************************)
(* Proofs about LauncherLife, for any number of clients and any bounds.    *)
(***************************************************************************)
EXTENDS LauncherLife, SequenceTheorems, FiniteSetTheorems, TLAPS

-----------------------------------------------------------------------------
(* Types.                                                                  *)

LEMMA EmptyTypes ==
    <<>> \in Seq(Nat) /\ <<>> \in Seq(TaskKinds) /\ <<>> \in Seq(Messages)
  BY EmptySeq

LEMMA NoPipes ==
    [c \in Clients |-> "none"] \in [Clients -> {"none", "open", "attached", "closing"}]
  OBVIOUS

LEMMA InitType == Init => TypeOK
<1> SUFFICES ASSUME Init
             PROVE  TypeOK
  OBVIOUS
<1>1. tasks \in Seq(TaskKinds) /\ messages \in Seq(Messages)
  BY EmptyTypes DEF Init
<1>2. notes \in Seq(Nat) /\ batch \in Seq(Nat) /\ shown \in Seq(Nat)
  BY EmptyTypes DEF Init
<1>3. pipe \in [Clients -> {"none", "open", "attached", "closing"}] /\ armed \subseteq Clients
  BY NoPipes DEF Init
<1>4. /\ up \in BOOLEAN /\ listening \in BOOLEAN /\ startup \in BOOLEAN
      /\ engine \in BOOLEAN /\ hwnd \in BOOLEAN /\ shutdownRequested \in BOOLEAN
      /\ revived \in BOOLEAN /\ raced \in BOOLEAN
  BY Zenon DEF Init
<1>5. /\ loop \in {"running", "ended"} /\ call \in {"free", "push", "post"}
      /\ gui \in {"starting", "creating", "loop", "flush", "closing", "ended"}
  BY Zenon DEF Init
<1>6. owed = 0 /\ queued = 0 /\ early = 0 /\ given = 0 /\ done = 0
  BY Zenon DEF Init
<1>7. owed \in 0..2 /\ queued \in Nat /\ early \in Nat /\ given \in Nat /\ done \in Nat
  BY <1>6
<1> QED
  BY <1>1, <1>2, <1>3, <1>4, <1>5, <1>7, Zenon DEF TypeOK

LEMMA BlankType ==
    ASSUME Blank, up' \in BOOLEAN, listening' \in BOOLEAN, startup' \in BOOLEAN
    PROVE  TypeOK'
<1>1. tasks' \in Seq(TaskKinds) /\ messages' \in Seq(Messages)
  BY EmptyTypes DEF Blank
<1>2. notes' \in Seq(Nat) /\ batch' \in Seq(Nat) /\ shown' \in Seq(Nat)
  BY EmptyTypes DEF Blank
<1>3. pipe' \in [Clients -> {"none", "open", "attached", "closing"}] /\ armed' \subseteq Clients
  BY NoPipes DEF Blank
<1>4. /\ engine' \in BOOLEAN /\ hwnd' \in BOOLEAN /\ shutdownRequested' \in BOOLEAN
      /\ revived' \in BOOLEAN /\ raced' \in BOOLEAN
  BY Zenon DEF Blank
<1>5. /\ loop' \in {"running", "ended"} /\ call' \in {"free", "push", "post"}
      /\ gui' \in {"starting", "creating", "loop", "flush", "closing", "ended"}
  BY Zenon DEF Blank
<1>6. owed' = 0 /\ queued' = 0 /\ early' = 0 /\ given' = 0 /\ done' = 0
  BY Zenon DEF Blank
<1>7. /\ owed' \in 0..2 /\ queued' \in Nat /\ early' \in Nat
      /\ given' \in Nat /\ done' \in Nat
  BY <1>6
<1> QED
  BY <1>1, <1>2, <1>3, <1>4, <1>5, <1>7, Zenon DEF TypeOK

LEMMA EngineType ==
    ASSUME TypeOK, NEW restart \in BOOLEAN, StartEngine(restart)
    PROVE  engine' \in BOOLEAN /\ revived' \in BOOLEAN
<1>1. Stopped \in BOOLEAN
  BY DEF Stopped
<1> QED
  BY <1>1 DEF StartEngine, TypeOK

LEMMA ClientHandlerType == TypeOK /\ ClientHandler => TypeOK'
<1> SUFFICES ASSUME TypeOK, LoopHandler, NEW c \in Clients,
                    \/ OnNewClientConnected(c) \/ HandleClientMessage(c)
                    \/ HandleSettingsRequest(c) \/ HandleBackendReply(c) \/ OnReadError(c)
             PROVE  TypeOK'
  BY DEF ClientHandler
<1>1. /\ pipe' \in [Clients -> {"none", "open", "attached", "closing"}]
      /\ armed' \subseteq Clients
  BY DEF TypeOK, OnNewClientConnected, HandleClientMessage, HandleSettingsRequest,
         HandleBackendReply, OnReadError
<1>2. engine' \in BOOLEAN /\ revived' \in BOOLEAN
  BY EngineType DEF TypeOK, OnNewClientConnected, HandleClientMessage,
         HandleSettingsRequest, HandleBackendReply, OnReadError
<1>3. UNCHANGED <<listening, startup, tasks, done>>
  BY DEF OnNewClientConnected, HandleClientMessage, HandleSettingsRequest,
         HandleBackendReply, OnReadError
<1> QED
  BY <1>1, <1>2, <1>3 DEF TypeOK, LoopHandler, noteVars, guiVars

LEMMA OtherHandlerType ==
    TypeOK /\ (TimeoutHandler \/ CloseHandler \/ EngineHandler \/ StartupHandler) => TypeOK'
<1> SUFFICES ASSUME TypeOK, LoopHandler,
                    \/ \E c \in Clients : OnRequestTimeout(c) \/ RemoveClient(c)
                    \/ OnBackendError \/ StartupTimer
             PROVE  TypeOK'
  BY DEF TimeoutHandler, CloseHandler, EngineHandler, StartupHandler
<1>1. /\ pipe' \in [Clients -> {"none", "open", "attached", "closing"}]
      /\ armed' \subseteq Clients
      /\ startup' \in BOOLEAN
  BY DEF TypeOK, OnRequestTimeout, RemoveClient, OnBackendError, StartupTimer
<1>2. engine' \in BOOLEAN /\ revived' \in BOOLEAN
  BY EngineType DEF TypeOK, OnRequestTimeout, RemoveClient, OnBackendError, StartupTimer
<1>3. UNCHANGED <<listening, tasks, done>>
  BY DEF OnRequestTimeout, RemoveClient, OnBackendError, StartupTimer
<1> QED
  BY <1>1, <1>2, <1>3 DEF TypeOK, LoopHandler, noteVars, guiVars

LEMMA RunTaskType == TypeOK /\ RunTask => TypeOK'
<1> SUFFICES ASSUME TypeOK, RunTask
             PROVE  TypeOK'
  OBVIOUS
<1>1. tasks' \in Seq(TaskKinds)
  BY HeadTailProperties DEF RunTask, TypeOK
<1>2. \/ RestartAllBackends \/ RedeployTypeDuckBackend \/ TerminateAllBackends \/ Shutdown
  BY DEF RunTask
<1>3. engine' \in BOOLEAN /\ revived' \in BOOLEAN
  BY <1>2, EngineType DEF RestartAllBackends, RedeployTypeDuckBackend,
         TerminateAllBackends, Shutdown, TypeOK
<1>4. /\ pipe' \in [Clients -> {"none", "open", "attached", "closing"}]
      /\ armed' \subseteq Clients /\ listening' \in BOOLEAN
      /\ call' \in {"free", "push", "post"} /\ owed' \in 0..2
  <2>0. CASE TerminateAllBackends \/ Shutdown
    <3>1. \A c \in Clients :
            pipe[c] \in {"none", "open", "attached", "closing"}
      BY DEF TypeOK
    <3>2. pipe' \in [Clients -> {"none", "open", "attached", "closing"}]
      BY <2>0, <3>1 DEF TerminateAllBackends, Shutdown
    <3>3. listening' \in BOOLEAN /\ UNCHANGED <<armed, call, owed>>
      BY <2>0, Zenon DEF TerminateAllBackends, Shutdown, TypeOK
    <3> QED
      BY <3>2, <3>3 DEF TypeOK
  <2>1. CASE RestartAllBackends \/ RedeployTypeDuckBackend
    <3>1. UNCHANGED <<pipe, armed, listening>>
      BY <2>1, Zenon DEF RestartAllBackends, RedeployTypeDuckBackend
    <3>2. call' \in {call, "push"} /\ owed' \in {owed, 1, 2}
      BY <2>1, Zenon DEF RestartAllBackends, RedeployTypeDuckBackend
    <3> QED
      BY <3>1, <3>2 DEF TypeOK
  <2> QED
    BY <1>2, <2>0, <2>1
<1>5. done' \in Nat
  BY DEF RunTask, TypeOK
<1>6. UNCHANGED <<up, loop, startup, notes, queued, guiVars, messages, given, raced>>
  BY DEF RunTask
<1> QED
  BY <1>1, <1>3, <1>4, <1>5, <1>6 DEF TypeOK, guiVars

\* The handler that enqueues owes at least the notification it is at.
OwedInv == call # "free" => owed >= 1

LEMMA NoteType ==
    TypeOK /\ OwedInv /\ (Notify \/ PushNote \/ PostNote \/ LoopEnds) => TypeOK'
<1> SUFFICES ASSUME TypeOK, OwedInv, Notify \/ PushNote \/ PostNote \/ LoopEnds
             PROVE  TypeOK'
  OBVIOUS
<1> USE DEF loopVars, noteVars, guiVars, historyVars
<1>1. CASE Notify
  BY <1>1 DEF Notify, TypeOK
<1>2. CASE PushNote
  <2>1. queued' \in Nat /\ notes' \in Seq(Nat)
    BY <1>2, AppendProperties DEF PushNote, TypeOK
  <2> QED
    BY <1>2, <2>1 DEF PushNote, TypeOK
<1>3. CASE PostNote
  <2>1. messages' \in Seq(Messages)
    BY <1>3, AppendProperties DEF PostNote, TypeOK, Messages
  <2>2. owed' \in 0..2 /\ call' \in {"free", "push"}
    BY <1>3 DEF PostNote, OwedInv, TypeOK
  <2> QED
    BY <1>3, <2>1, <2>2 DEF PostNote, TypeOK
<1>4. CASE LoopEnds
  BY <1>4 DEF LoopEnds, TypeOK
<1> QED
  BY <1>1, <1>2, <1>3, <1>4

LEMMA SendType ==
    ASSUME TypeOK, NEW task \in TaskKinds, SendAsync(task)
    PROVE  tasks' \in Seq(TaskKinds) /\ raced' \in BOOLEAN
  BY AppendProperties DEF SendAsync, TypeOK

LEMMA MessageType ==
    ASSUME TypeOK, NEW kind, Message(kind)
    PROVE  messages' \in Seq(Messages)
  BY HeadTailProperties DEF Message, TypeOK

LEMMA GuiType == TypeOK /\ (GuiStep \/ EndSession) => TypeOK'
<1> SUFFICES ASSUME TypeOK, GuiStep \/ EndSession
             PROVE  TypeOK'
  OBVIOUS
<1> USE DEF loopVars, noteVars, guiVars, historyVars
<1>1. UNCHANGED <<up, loopVars, call, owed, queued, historyVars>>
  BY DEF GuiStep, EndSession
<1>2. SUFFICES /\ tasks' \in Seq(TaskKinds) /\ raced' \in BOOLEAN
               /\ messages' \in Seq(Messages)
               /\ notes' \in Seq(Nat) /\ batch' \in Seq(Nat) /\ shown' \in Seq(Nat)
               /\ gui' \in {"starting", "creating", "loop", "flush", "closing", "ended"}
               /\ hwnd' \in BOOLEAN /\ shutdownRequested' \in BOOLEAN /\ early' \in Nat
  BY <1>1 DEF TypeOK
<1>3. CASE CreateWindow /\ UNCHANGED notes
  BY <1>3 DEF CreateWindow, TypeOK
<1>4. CASE WindowCreated /\ UNCHANGED notes
  BY <1>4 DEF WindowCreated, TypeOK
<1>5. CASE OnCommand /\ UNCHANGED notes
  <2>1. PICK kind \in Commands : Message(kind) /\ SendAsync(kind)
    BY <1>5 DEF OnCommand
  <2>2. kind \in TaskKinds
    BY DEF TaskKinds
  <2> QED
    BY <1>5, <2>1, <2>2, SendType, MessageType DEF OnCommand, TypeOK
<1>6. CASE ShowTrayNotification /\ UNCHANGED notes
  <2>1. CASE batch # <<>>
    <3>1. Head(batch) \in Nat /\ Tail(batch) \in Seq(Nat)
      BY <2>1, HeadTailProperties DEF TypeOK
    <3>2. Append(shown, Head(batch)) \in Seq(Nat)
      BY <3>1, AppendProperties DEF TypeOK
    <3> QED
      BY <1>6, <2>1, <3>1, <3>2 DEF ShowTrayNotification, TypeOK
  <2>2. CASE batch = <<>>
    BY <1>6, <2>2 DEF ShowTrayNotification, TypeOK
  <2> QED
    BY <2>1, <2>2
<1>7. CASE RequestShutdown /\ UNCHANGED notes /\ (Message("close") \/ UNCHANGED messages)
  <2>1. "shutdown" \in TaskKinds
    BY DEF TaskKinds
  <2>2. tasks' \in Seq(TaskKinds) /\ raced' \in BOOLEAN
    BY <1>7, <2>1, SendType DEF RequestShutdown
  <2>3. messages' \in Seq(Messages)
    BY <1>7, MessageType DEF TypeOK
  <2> QED
    BY <1>7, <2>2, <2>3 DEF RequestShutdown, TypeOK
<1>8. CASE DestroyWindow /\ UNCHANGED notes
  BY <1>8, EmptyTypes DEF DestroyWindow, TypeOK
<1>9. CASE FlushTrayNotifications
  <2>1. messages' \in Seq(Messages)
    BY <1>9, MessageType DEF FlushTrayNotifications
  <2>2. notes' \in Seq(Nat) /\ batch' \in Seq(Nat)
    BY <1>9, EmptyTypes, Zenon DEF FlushTrayNotifications, TypeOK
  <2>3. gui' = "flush" /\ UNCHANGED <<hwnd, shutdownRequested, early, shown, tasks, raced>>
    BY <1>9 DEF FlushTrayNotifications
  <2> QED
    BY <2>1, <2>2, <2>3 DEF TypeOK
<1> QED
  BY <1>3, <1>4, <1>5, <1>6, <1>7, <1>8, <1>9 DEF GuiStep, OnClose, EndSession

LEMMA UserType ==
    TypeOK /\ ((\E kind \in Commands : Choose(kind)) \/ Quit) => TypeOK'
<1> SUFFICES ASSUME TypeOK, (\E kind \in Commands : Choose(kind)) \/ Quit
             PROVE  TypeOK'
  OBVIOUS
<1> USE DEF loopVars, noteVars, guiVars, historyVars
<1>1. ASSUME NEW kind \in Commands, Choose(kind)
      PROVE  TypeOK'
  <2>1. kind \in Messages
    BY DEF Messages
  <2>2. messages' \in Seq(Messages)
    BY <1>1, <2>1, AppendProperties DEF Choose, TypeOK
  <2>3. given' \in Nat
    BY <1>1 DEF Choose, TypeOK
  <2> QED
    BY <1>1, <2>2, <2>3 DEF Choose, TypeOK
<1>2. CASE Quit
  <2>1. "close" \in Messages
    BY DEF Messages
  <2>2. messages' \in Seq(Messages)
    BY <1>2, <2>1, AppendProperties DEF Quit, TypeOK
  <2> QED
    BY <1>2, <2>2 DEF Quit, TypeOK
<1> QED
  BY <1>1, <1>2

LEMMA StepType == TypeOK /\ OwedInv /\ [Next]_vars => TypeOK'
<1> SUFFICES ASSUME TypeOK, OwedInv, [Next]_vars
             PROVE  TypeOK'
  OBVIOUS
<1>1. CASE Start \/ Crash \/ ProcessEnds
  BY <1>1, BlankType DEF Start, Crash, ProcessEnds
<1>2. CASE LoopStep
  BY <1>2, ClientHandlerType, OtherHandlerType, RunTaskType, NoteType DEF LoopStep
<1>3. CASE GuiStep \/ EndSession
  BY <1>3, GuiType
<1>4. CASE (\E kind \in Commands : Choose(kind)) \/ Quit
  BY <1>4, UserType
<1>5. CASE UNCHANGED vars
  BY <1>5 DEF vars, TypeOK, loopVars, noteVars, guiVars, historyVars
<1> QED
  BY <1>1, <1>2, <1>3, <1>4, <1>5 DEF Next

LEMMA StepOwed == TypeOK /\ OwedInv /\ [Next]_vars => OwedInv'
<1> SUFFICES ASSUME TypeOK, OwedInv, [Next]_vars
             PROVE  OwedInv'
  OBVIOUS
<1> USE DEF OwedInv, loopVars, noteVars, guiVars, historyVars
<1>1. CASE Start \/ Crash \/ ProcessEnds
  BY <1>1 DEF Start, Crash, ProcessEnds, Blank
<1>2. CASE ClientHandler \/ TimeoutHandler \/ CloseHandler \/ EngineHandler \/ StartupHandler
  BY <1>2 DEF ClientHandler, TimeoutHandler, CloseHandler, EngineHandler, StartupHandler,
              LoopHandler
<1>3. CASE RunTask
  <2>1. UNCHANGED <<call, owed>> \/ owed' \in {1, 2}
    BY <1>3, Zenon DEF RunTask, RestartAllBackends, RedeployTypeDuckBackend,
                       TerminateAllBackends, Shutdown
  <2> QED
    BY <2>1
<1>4. CASE Notify \/ PushNote \/ LoopEnds
  BY <1>4 DEF Notify, PushNote, LoopEnds
<1>5. CASE PostNote
  BY <1>5 DEF PostNote, TypeOK
<1>6. CASE GuiStep \/ EndSession \/ (\E kind \in Commands : Choose(kind)) \/ Quit
  BY <1>6 DEF GuiStep, EndSession, Choose, Quit
<1>7. CASE UNCHANGED vars
  BY <1>7 DEF vars
<1> QED
  BY <1>1, <1>2, <1>3, <1>4, <1>5, <1>6, <1>7 DEF Next, LoopStep

\* The variables keep their types, for any clients and bounds.
THEOREM TypeCorrect == Spec => []TypeOK
<1>1. Init => TypeOK /\ OwedInv
  BY InitType DEF Init, OwedInv
<1> QED
  BY <1>1, StepType, StepOwed, PTL DEF Spec

-----------------------------------------------------------------------------
(* Sequences of notifications.                                             *)

CountTo(n) == [i \in 1..n |-> i]

LEMMA CountType ==
    ASSUME NEW n \in Nat
    PROVE  CountTo(n) \in Seq(Nat) /\ Len(CountTo(n)) = n
<1>1. CountTo(n) \in [1..n -> Nat]
  BY DEF CountTo
<1> QED
  BY <1>1 DEF CountTo

LEMMA CountNext ==
    ASSUME NEW n \in Nat
    PROVE  Append(CountTo(n), n + 1) = CountTo(n + 1)
<1>1. /\ CountTo(n) \in Seq(Nat) /\ Len(CountTo(n)) = n
      /\ CountTo(n + 1) \in Seq(Nat) /\ Len(CountTo(n + 1)) = n + 1
  BY CountType
<1>2. /\ Append(CountTo(n), n + 1) \in Seq(Nat)
      /\ Len(Append(CountTo(n), n + 1)) = n + 1
      /\ \A i \in 1..n : Append(CountTo(n), n + 1)[i] = CountTo(n)[i]
      /\ Append(CountTo(n), n + 1)[n + 1] = n + 1
  BY <1>1, AppendProperties
<1>3. \A i \in 1..(n + 1) : Append(CountTo(n), n + 1)[i] = CountTo(n + 1)[i]
  BY <1>2 DEF CountTo
<1> QED
  BY <1>1, <1>2, <1>3, SeqEqual

LEMMA CountNothing == CountTo(0) = <<>>
<1>1. CountTo(0) \in Seq(Nat) /\ Len(CountTo(0)) = 0
  BY CountType
<1> QED
  BY <1>1, EmptySeq

LEMMA ConcatAppend ==
    ASSUME NEW s \in Seq(Nat), NEW t \in Seq(Nat), NEW e \in Nat
    PROVE  s \o Append(t, e) = Append(s \o t, e)
<1>1. Append(t, e) = t \o <<e>>
  BY AppendIsConcat
<1>2. s \o t \in Seq(Nat)
  BY ConcatProperties
<1>3. Append(s \o t, e) = (s \o t) \o <<e>>
  BY <1>2, AppendIsConcat
<1>4. <<e>> \in Seq(Nat)
  OBVIOUS
<1>5. (s \o t) \o <<e>> = s \o (t \o <<e>>)
  BY <1>4, ConcatAssociative
<1> QED
  BY <1>1, <1>3, <1>5

\* Showing the first of a batch leaves the whole as it is.
LEMMA MoveOne ==
    ASSUME NEW s \in Seq(Nat), NEW t \in Seq(Nat), t # <<>>
    PROVE  Append(s, Head(t)) \o Tail(t) = s \o t
<1>1. /\ Head(t) \in Nat /\ Tail(t) \in Seq(Nat) /\ Len(Tail(t)) = Len(t) - 1
      /\ \A i \in 1..Len(Tail(t)) : Tail(t)[i] = t[i + 1]
  BY HeadTailProperties
<1>2. Len(t) \in Nat \ {0} /\ Len(s) \in Nat /\ Head(t) = t[1]
  BY EmptySeq, LenProperties
<1> DEFINE u == Append(s, Head(t))
<1>3. /\ u \in Seq(Nat) /\ Len(u) = Len(s) + 1
      /\ \A i \in 1..Len(s) : u[i] = s[i]
      /\ u[Len(s) + 1] = Head(t)
  BY <1>1, AppendProperties
<1> HIDE DEF u
<1>4. /\ u \o Tail(t) \in Seq(Nat) /\ Len(u \o Tail(t)) = Len(u) + Len(Tail(t))
      /\ \A i \in 1..(Len(u) + Len(Tail(t))) :
            (u \o Tail(t))[i] = IF i <= Len(u) THEN u[i] ELSE Tail(t)[i - Len(u)]
  BY <1>1, <1>3, ConcatProperties
<1>5. /\ s \o t \in Seq(Nat) /\ Len(s \o t) = Len(s) + Len(t)
      /\ \A i \in 1..(Len(s) + Len(t)) :
            (s \o t)[i] = IF i <= Len(s) THEN s[i] ELSE t[i - Len(s)]
  BY ConcatProperties
<1>6. Len(u) + Len(Tail(t)) = Len(s) + Len(t)
  BY <1>1, <1>2, <1>3
<1>7. ASSUME NEW i \in 1..(Len(s) + Len(t))
      PROVE  (u \o Tail(t))[i] = (s \o t)[i]
  <2>1. CASE i <= Len(s)
    BY <2>1, <1>2, <1>3, <1>4, <1>5, <1>6
  <2>2. CASE i = Len(s) + 1
    <3>1. ~(i <= Len(s)) /\ i <= Len(u) /\ i - Len(s) = 1
      BY <2>2, <1>2, <1>3
    <3>2. (u \o Tail(t))[i] = u[i] /\ u[i] = Head(t)
      BY <2>2, <3>1, <1>3, <1>4, <1>6
    <3>3. (s \o t)[i] = t[1]
      BY <3>1, <1>5
    <3> QED
      BY <3>2, <3>3, <1>2
  <2>3. CASE i > Len(s) + 1
    <3>1. i - Len(u) \in 1..Len(Tail(t)) /\ (i - Len(u)) + 1 = i - Len(s)
      BY <2>3, <1>1, <1>2, <1>3
    <3>2. Tail(t)[i - Len(u)] = t[i - Len(s)]
      BY <3>1, <1>1
    <3>3. ~(i <= Len(s)) /\ ~(i <= Len(u))
      BY <2>3, <1>2, <1>3
    <3>4. (u \o Tail(t))[i] = Tail(t)[i - Len(u)]
      BY <3>3, <1>4, <1>6
    <3>5. (s \o t)[i] = t[i - Len(s)]
      BY <3>3, <1>5
    <3> QED
      BY <3>2, <3>4, <3>5
  <2>4. i <= Len(s) \/ i = Len(s) + 1 \/ i > Len(s) + 1
    BY <1>2
  <2> QED
    BY <2>1, <2>2, <2>3, <2>4
<1>8. u \o Tail(t) = s \o t
  BY <1>4, <1>5, <1>6, <1>7, SeqEqual
<1> QED
  BY <1>8 DEF u

-----------------------------------------------------------------------------
(* Notifications are shown in order.                                       *)

OrderInv ==
    /\ NotesInOrder
    /\ gui # "flush" => batch = <<>>

LEMMA InOrderStart ==
    ASSUME shown = <<>>, batch = <<>>, notes = <<>>, queued = 0
    PROVE  NotesInOrder
<1>1. <<>> \o <<>> = <<>>
  BY EmptySeq, ConcatEmptySeq
<1> QED
  BY <1>1, CountNothing DEF NotesInOrder, CountTo

LEMMA InOrderPush ==
    ASSUME TypeOK, NotesInOrder, PushNote
    PROVE  NotesInOrder'
<1>1. /\ queued' = queued + 1 /\ notes' = Append(notes, queued + 1)
      /\ UNCHANGED <<shown, batch>>
  BY DEF PushNote, guiVars
<1>2. shown \o batch \in Seq(Nat) /\ notes \in Seq(Nat) /\ queued + 1 \in Nat
  BY ConcatProperties DEF TypeOK
<1>3. (shown \o batch) \o Append(notes, queued + 1)
        = Append((shown \o batch) \o notes, queued + 1)
  BY <1>2, ConcatAppend
<1>4. (shown \o batch) \o notes = CountTo(queued)
  BY DEF NotesInOrder, CountTo
<1>5. Append(CountTo(queued), queued + 1) = CountTo(queued + 1)
  BY CountNext DEF TypeOK
<1> QED
  BY <1>1, <1>3, <1>4, <1>5 DEF NotesInOrder, CountTo

LEMMA InOrderFlush ==
    ASSUME TypeOK, OrderInv, FlushTrayNotifications, UNCHANGED queued
    PROVE  NotesInOrder'
<1>1. batch = <<>> /\ batch' = notes /\ notes' = <<>> /\ UNCHANGED shown
  BY DEF FlushTrayNotifications, Message, OrderInv
<1>2. shown \o notes \in Seq(Nat) /\ shown \in Seq(Nat)
  BY ConcatProperties DEF TypeOK
<1>3. (shown \o notes) \o <<>> = shown \o notes /\ shown \o <<>> = shown
  BY <1>2, ConcatEmptySeq
<1>4. (shown \o <<>>) \o notes = (shown \o notes) \o <<>>
  BY <1>3
<1>5. (shown \o batch) \o notes = (shown \o notes) \o <<>>
  BY <1>1, <1>4
<1> QED
  BY <1>1, <1>5 DEF NotesInOrder, OrderInv

LEMMA InOrderShow ==
    ASSUME TypeOK, NotesInOrder, ShowTrayNotification, UNCHANGED <<notes, queued>>
    PROVE  NotesInOrder'
<1>1. CASE batch # <<>>
  <2>1. shown' = Append(shown, Head(batch)) /\ batch' = Tail(batch)
    BY <1>1 DEF ShowTrayNotification
  <2>2. Append(shown, Head(batch)) \o Tail(batch) = shown \o batch
    BY <1>1, MoveOne DEF TypeOK
  <2> QED
    BY <2>1, <2>2 DEF NotesInOrder
<1>2. CASE batch = <<>>
  BY <1>2 DEF ShowTrayNotification, NotesInOrder
<1> QED
  BY <1>1, <1>2

LEMMA StepInOrder == TypeOK /\ OrderInv /\ [Next]_vars => OrderInv'
<1> SUFFICES ASSUME TypeOK, OrderInv, [Next]_vars
             PROVE  OrderInv'
  OBVIOUS
<1> USE DEF loopVars, noteVars, guiVars, historyVars
<1>1. CASE Start \/ Crash \/ ProcessEnds
  <2>1. shown' = <<>> /\ batch' = <<>> /\ notes' = <<>> /\ queued' = 0
    BY <1>1 DEF Start, Crash, ProcessEnds, Blank
  <2>2. <<>> \o <<>> = <<>>
    BY EmptySeq, ConcatEmptySeq
  <2> QED
    BY <2>1, <2>2, CountNothing DEF OrderInv, NotesInOrder, CountTo
<1>2. CASE UNCHANGED <<shown, batch, notes, queued>> /\ (gui = "flush" => gui' = "flush")
  BY <1>2 DEF OrderInv, NotesInOrder
<1>3. CASE PushNote
  BY <1>3, InOrderPush DEF OrderInv, PushNote
<1>4. CASE FlushTrayNotifications /\ UNCHANGED queued
  BY <1>4, InOrderFlush DEF OrderInv, FlushTrayNotifications
<1>5. CASE ShowTrayNotification /\ UNCHANGED <<notes, queued>>
  <2>1. gui' # "flush" => batch' = <<>>
    BY <1>5 DEF ShowTrayNotification
  <2> QED
    BY <1>5, <2>1, InOrderShow DEF OrderInv
<1>6. CASE GuiStep
  <2>1. UNCHANGED queued
    BY <1>6 DEF GuiStep
  <2>2. CASE ShowTrayNotification /\ UNCHANGED notes
    BY <2>1, <2>2, <1>5
  <2>3. CASE FlushTrayNotifications
    BY <2>1, <2>3, <1>4
  <2>4. CASE /\ CreateWindow \/ WindowCreated \/ OnCommand \/ OnClose \/ DestroyWindow
             /\ UNCHANGED notes
    <3>1. UNCHANGED <<shown, batch>> /\ gui # "flush"
      BY <2>4 DEF CreateWindow, WindowCreated, OnCommand, OnClose, RequestShutdown,
         DestroyWindow, Message
    <3> QED
      BY <2>1, <2>4, <3>1, <1>2
  <2> QED
    BY <1>6, <2>2, <2>3, <2>4 DEF GuiStep
<1>7. CASE EndSession \/ (\E kind \in Commands : Choose(kind)) \/ Quit \/ UNCHANGED vars
  BY <1>2, <1>7 DEF EndSession, RequestShutdown, Choose, Quit, vars
<1>8. CASE LoopStep
  BY <1>2, <1>3, <1>8 DEF LoopStep, ClientHandler, TimeoutHandler, CloseHandler,
     EngineHandler, StartupHandler, LoopHandler, RunTask, Notify, PostNote, LoopEnds
<1> QED
  BY <1>1, <1>6, <1>7, <1>8 DEF Next

\* A notification is shown once and in its turn, whatever the loop thread enqueues
\* while the GUI thread shows: the batch is taken from the queue in one piece, and
\* only when the last one has been shown.
THEOREM ShownInOrder == Spec => []NotesInOrder
<1>1. Init => TypeOK /\ OwedInv
  BY InitType DEF Init, OwedInv
<1>2. Init => OrderInv
  BY InOrderStart DEF Init, OrderInv
<1>3. OrderInv => NotesInOrder
  BY DEF OrderInv
<1> QED
  BY <1>1, <1>2, <1>3, StepType, StepOwed, StepInOrder, PTL DEF Spec

-----------------------------------------------------------------------------
(* No notification waits for the next one.                                 *)

ShowPosted == \E i \in 1..Len(messages) : messages[i] = "show"
AllEarly == \A i \in 1..Len(notes) : notes[i] <= early

\* With a window, the queue holds what is older than the window, or a message to
\* empty it is under way, or about to be posted.
HeldInv ==
    /\ \A i \in 1..Len(notes) : notes[i] <= queued
    /\ hwnd => gui \notin {"starting", "creating"}
    /\ gui \in {"loop", "flush"} => hwnd
    /\ hwnd => call = "post" \/ ShowPosted \/ AllEarly

LEMMA ShowStaysBehind ==
    ASSUME TypeOK, ShowPosted, NEW kind \in Messages, messages' = Append(messages, kind)
    PROVE  ShowPosted'
<1>1. PICK i \in 1..Len(messages) : messages[i] = "show"
  BY DEF ShowPosted
<1>2. Len(messages') = Len(messages) + 1 /\ messages'[i] = messages[i]
  BY AppendProperties DEF TypeOK
<1>3. i \in 1..Len(messages')
  BY <1>2, LenProperties DEF TypeOK
<1> QED
  BY <1>1, <1>2, <1>3 DEF ShowPosted

LEMMA ShowIsPosted ==
    ASSUME TypeOK, messages' = Append(messages, "show")
    PROVE  ShowPosted'
<1>1. "show" \in Messages /\ Len(messages) \in Nat
  BY LenProperties DEF TypeOK, Messages
<1>2. Len(messages') = Len(messages) + 1 /\ messages'[Len(messages) + 1] = "show"
  BY <1>1, AppendProperties DEF TypeOK
<1> QED
  BY <1>1, <1>2 DEF ShowPosted

LEMMA ShowStaysAhead ==
    ASSUME TypeOK, ShowPosted, NEW kind, Message(kind), kind # "show"
    PROVE  ShowPosted'
<1>1. PICK i \in 1..Len(messages) : messages[i] = "show"
  BY DEF ShowPosted
<1>2. /\ messages # <<>> /\ messages' = Tail(messages) /\ messages[1] # "show"
  BY HeadTailProperties DEF Message, TypeOK
<1>3. /\ Len(messages') = Len(messages) - 1
      /\ \A j \in 1..Len(messages') : messages'[j] = messages[j + 1]
  BY <1>2, HeadTailProperties DEF TypeOK
<1>4. Len(messages) \in Nat
  BY LenProperties DEF TypeOK
<1>5. i # 1
  BY <1>1, <1>2
<1>6. i - 1 \in 1..Len(messages') /\ (i - 1) + 1 = i
  BY <1>1, <1>3, <1>4, <1>5
<1>7. messages'[i - 1] = "show"
  BY <1>1, <1>3, <1>6
<1> QED
  BY <1>6, <1>7 DEF ShowPosted

LEMMA StepHeld == TypeOK /\ HeldInv /\ [Next]_vars => HeldInv'
<1> SUFFICES ASSUME TypeOK, HeldInv, [Next]_vars
             PROVE  HeldInv'
  OBVIOUS
<1> USE DEF loopVars, noteVars, guiVars, historyVars
<1>1. CASE Start \/ Crash \/ ProcessEnds
  <2>1. notes' = <<>> /\ hwnd' = FALSE /\ gui' = "starting"
    BY <1>1 DEF Start, Crash, ProcessEnds, Blank
  <2>2. Len(notes') = 0
    BY <2>1, EmptySeq
  <2> QED
    BY <2>1, <2>2 DEF HeldInv
<1>2. CASE /\ UNCHANGED <<notes, queued, hwnd, gui, early, messages>>
           /\ call = "post" => call' = "post"
  BY <1>2 DEF HeldInv, ShowPosted, AllEarly
<1>3. CASE PushNote
  <2>1. /\ queued' = queued + 1 /\ notes' = Append(notes, queued + 1) /\ call' = "post"
        /\ UNCHANGED <<hwnd, gui>>
    BY <1>3 DEF PushNote
  <2>2. /\ Len(notes') = Len(notes) + 1 /\ notes'[Len(notes) + 1] = queued + 1
        /\ \A i \in 1..Len(notes) : notes'[i] = notes[i] /\ notes[i] \in Nat
        /\ Len(notes) \in Nat /\ queued \in Nat
    BY <2>1, AppendProperties, ElementOfSeq, LenProperties DEF TypeOK
  <2>3. \A i \in 1..Len(notes') : notes'[i] <= queued'
    BY <2>1, <2>2 DEF HeldInv
  <2> QED
    BY <2>1, <2>3 DEF HeldInv
<1>4. CASE PostNote
  <2>1. UNCHANGED <<notes, queued, hwnd, gui, early>>
    BY <1>4 DEF PostNote
  <2>2. hwnd => ShowPosted'
    BY <1>4, ShowIsPosted DEF PostNote
  <2> QED
    BY <2>1, <2>2 DEF HeldInv
<1>5. CASE LoopStep
  BY <1>2, <1>3, <1>4, <1>5 DEF LoopStep, ClientHandler, TimeoutHandler, CloseHandler,
     EngineHandler, StartupHandler, LoopHandler, LoopIsFree, RunTask, Notify, LoopEnds
<1>6. CASE GuiStep
  <2>1. UNCHANGED <<call, queued>>
    BY <1>6 DEF GuiStep
  <2>2. CASE CreateWindow /\ UNCHANGED notes
    BY <2>1, <2>2 DEF CreateWindow, HeldInv, ShowPosted, AllEarly
  <2>3. CASE WindowCreated /\ UNCHANGED notes
    BY <2>1, <2>3 DEF WindowCreated, HeldInv, AllEarly
  <2>4. CASE OnCommand /\ UNCHANGED notes
    <3>1. PICK kind \in Commands : Message(kind)
      BY <2>4 DEF OnCommand
    <3>2. ShowPosted => ShowPosted'
      BY <3>1, ShowStaysAhead DEF Commands
    <3> QED
      BY <2>1, <2>4, <3>2 DEF OnCommand, HeldInv, AllEarly
  <2>5. CASE FlushTrayNotifications
    <3>1. Len(notes') = 0
      BY <2>5, EmptySeq DEF FlushTrayNotifications
    <3>2. \A i \in 1..Len(notes') : notes'[i] <= queued' /\ notes'[i] <= early'
      BY <3>1
    <3>3. gui' = "flush" /\ gui = "loop" /\ UNCHANGED hwnd
      BY <2>5 DEF FlushTrayNotifications, Message
    <3> QED
      BY <3>2, <3>3 DEF HeldInv, AllEarly
  <2>6. CASE ShowTrayNotification /\ UNCHANGED notes
    <3>1. gui = "flush" /\ gui' \in {"flush", "loop"} /\ UNCHANGED <<hwnd, early, messages>>
      BY <2>6 DEF ShowTrayNotification
    <3> QED
      BY <2>1, <2>6, <3>1 DEF HeldInv, ShowPosted, AllEarly
  <2>7. CASE OnClose /\ UNCHANGED notes
    <3>1. ShowPosted => ShowPosted'
      BY <2>7, ShowStaysAhead DEF OnClose
    <3> QED
      BY <2>1, <2>7, <3>1 DEF OnClose, RequestShutdown, HeldInv, AllEarly
  <2>8. CASE DestroyWindow /\ UNCHANGED notes
    BY <2>1, <2>8 DEF DestroyWindow, HeldInv
  <2> QED
    BY <1>6, <2>2, <2>3, <2>4, <2>5, <2>6, <2>7, <2>8 DEF GuiStep
<1>7. CASE EndSession
  BY <1>7 DEF EndSession, RequestShutdown, HeldInv, ShowPosted, AllEarly
<1>8. ASSUME NEW kind \in Messages, messages' = Append(messages, kind),
             UNCHANGED <<noteVars, guiVars>>
      PROVE  HeldInv'
  BY <1>8, ShowStaysBehind DEF HeldInv, AllEarly
<1>9. CASE (\E kind \in Commands : Choose(kind)) \/ Quit
  BY <1>8, <1>9 DEF Choose, Quit, Messages
<1>10. CASE UNCHANGED vars
  BY <1>2, <1>10 DEF vars
<1> QED
  BY <1>1, <1>5, <1>6, <1>7, <1>9, <1>10 DEF Next

LEMMA HeldImplies == TypeOK /\ HeldInv => NothingHeldBack
  BY DEF HeldInv, NothingHeldBack, ShowPosted, AllEarly

\* Once the window is known to the loop thread, every notification is followed by
\* a message that empties the queue: none is left behind by the swap, and none of
\* two that meet in the queue waits for a third.
THEOREM NothingIsHeldBack == Spec => []NothingHeldBack
<1>1. Init => TypeOK /\ OwedInv
  BY InitType DEF Init, OwedInv
<1>2. Init => HeldInv
  BY EmptySeq DEF Init, HeldInv
<1> QED
  BY <1>1, <1>2, HeldImplies, StepType, StepOwed, StepHeld, PTL DEF Spec

-----------------------------------------------------------------------------
(* The commands of the menu.                                               *)

CommandPlaces(queue) == {i \in 1..Len(queue) : queue[i] \in Commands}

LEMMA PlacesAreFinite ==
    ASSUME NEW S, NEW q \in Seq(S)
    PROVE  IsFiniteSet(CommandPlaces(q)) /\ PendingCommands(q) \in Nat
<1>1. Len(q) \in Nat
  BY LenProperties
<1>2. IsFiniteSet(1..Len(q))
  BY <1>1, FS_Interval
<1>3. CommandPlaces(q) \in SUBSET (1..Len(q))
  BY DEF CommandPlaces
<1>4. IsFiniteSet(CommandPlaces(q))
  BY <1>2, <1>3, FS_Subset
<1>5. Cardinality(CommandPlaces(q)) \in Nat
  BY <1>4, FS_CardinalityType
<1> QED
  BY <1>4, <1>5 DEF CommandPlaces, PendingCommands

LEMMA NothingPends == PendingCommands(<<>>) = 0
<1>1. {i \in 1..Len(<<>>) : <<>>[i] \in Commands} = {}
  BY EmptySeq
<1> QED
  BY <1>1, FS_EmptySet DEF PendingCommands

LEMMA OneMorePends ==
    ASSUME NEW S, NEW q \in Seq(S), NEW x \in S
    PROVE  PendingCommands(Append(q, x)) =
               IF x \in Commands THEN PendingCommands(q) + 1 ELSE PendingCommands(q)
<1>1. /\ Len(Append(q, x)) = Len(q) + 1 /\ Append(q, x)[Len(q) + 1] = x
      /\ \A i \in 1..Len(q) : Append(q, x)[i] = q[i]
      /\ Len(q) \in Nat
  BY AppendProperties, LenProperties
<1>2. 1..Len(Append(q, x)) = (1..Len(q)) \cup {Len(q) + 1}
  BY <1>1
<1>3. Len(q) + 1 \notin CommandPlaces(q)
  BY <1>1 DEF CommandPlaces
<1>4. CASE x \in Commands
  <2>1. CommandPlaces(Append(q, x)) = CommandPlaces(q) \cup {Len(q) + 1}
    BY <1>1, <1>2, <1>4 DEF CommandPlaces
  <2>2. Cardinality(CommandPlaces(q) \cup {Len(q) + 1}) = Cardinality(CommandPlaces(q)) + 1
    BY <1>3, PlacesAreFinite, FS_AddElement
  <2> QED
    BY <1>4, <2>1, <2>2 DEF PendingCommands, CommandPlaces
<1>5. CASE x \notin Commands
  <2>1. CommandPlaces(Append(q, x)) = CommandPlaces(q)
    BY <1>1, <1>2, <1>5 DEF CommandPlaces
  <2> QED
    BY <1>5, <2>1 DEF PendingCommands, CommandPlaces
<1> QED
  BY <1>4, <1>5

\* Without its head a queue has its places one further to the front.
LEMMA PlacesMoveUp ==
    ASSUME NEW S, NEW q \in Seq(S), q # <<>>
    PROVE  PendingCommands(Tail(q)) = Cardinality(CommandPlaces(q) \ {1})
<1> DEFINE Before == CommandPlaces(q) \ {1}
           After  == CommandPlaces(Tail(q))
           f      == [i \in Before |-> i - 1]
<1>1. /\ Len(q) \in Nat /\ Len(Tail(q)) = Len(q) - 1
      /\ \A i \in 1..Len(Tail(q)) : Tail(q)[i] = q[i + 1]
  BY HeadTailProperties, LenProperties
<1>2. \A i \in Before : i \in Int /\ i - 1 \in After
  BY <1>1 DEF CommandPlaces
<1>3. \A k \in After : k \in Int /\ k + 1 \in Before
  BY <1>1 DEF CommandPlaces
<1>4. f \in Surjection(Before, After)
  <2>1. f \in [Before -> After]
    BY <1>2
  <2>2. \A k \in After : \E i \in Before : f[i] = k
    <3> TAKE k \in After
    <3>1. k + 1 \in Before /\ k \in Int
      BY <1>3
    <3>2. f[k + 1] = k
      BY <3>1
    <3> QED
      BY <3>1, <3>2
  <2> QED
    BY <2>1, <2>2 DEF Surjection
<1>5. f \in Injection(Before, After)
  <2>1. \A i, k \in Before : f[i] = f[k] => i = k
    BY <1>2
  <2> QED
    BY <1>4, <2>1 DEF Surjection, Injection, IsInjective
<1>6. ExistsBijection(Before, After)
  BY <1>4, <1>5 DEF Bijection, ExistsBijection
<1>7. IsFiniteSet(Before)
  BY PlacesAreFinite, FS_RemoveElement
<1>8. Cardinality(After) = Cardinality(Before)
  BY <1>6, <1>7, FS_Bijection
<1> QED
  BY <1>8 DEF CommandPlaces, PendingCommands

LEMMA OneLessPends ==
    ASSUME NEW S, NEW q \in Seq(S), q # <<>>
    PROVE  PendingCommands(Tail(q)) =
               IF Head(q) \in Commands THEN PendingCommands(q) - 1 ELSE PendingCommands(q)
<1>1. Head(q) = q[1] /\ 1 \in 1..Len(q)
  BY HeadTailProperties, LenProperties, EmptySeq
<1>2. 1 \in CommandPlaces(q) <=> Head(q) \in Commands
  BY <1>1 DEF CommandPlaces
<1>3. Cardinality(CommandPlaces(q) \ {1}) =
        IF 1 \in CommandPlaces(q) THEN Cardinality(CommandPlaces(q)) - 1
        ELSE Cardinality(CommandPlaces(q))
  BY PlacesAreFinite, FS_RemoveElement
<1> QED
  BY <1>2, <1>3, PlacesMoveUp DEF PendingCommands, CommandPlaces

LEMMA CommandKinds ==
    /\ \A kind \in Commands : kind \in Messages /\ kind \in TaskKinds
    /\ "shutdown" \in TaskKinds \ Commands
    /\ "show" \in Messages \ Commands /\ "close" \in Messages \ Commands
    /\ \A kind \in TaskKinds : kind \in Commands <=> kind # "shutdown"
  BY DEF Commands, Messages, TaskKinds

LEMMA StepCounted == TypeOK /\ CommandsAreNotMerged /\ [Next]_vars => CommandsAreNotMerged'
<1> SUFFICES ASSUME TypeOK, CommandsAreNotMerged, [Next]_vars
             PROVE  CommandsAreNotMerged'
  OBVIOUS
<1> USE DEF loopVars, noteVars, guiVars, historyVars
<1>0. /\ given \in Nat /\ done \in Nat
      /\ messages \in Seq(Messages) /\ tasks \in Seq(TaskKinds)
      /\ PendingCommands(messages) \in Nat /\ PendingCommands(tasks) \in Nat
  BY PlacesAreFinite DEF TypeOK
<1>1. CASE Start \/ Crash \/ ProcessEnds
  BY <1>1, NothingPends DEF Start, Crash, ProcessEnds, Blank, CommandsAreNotMerged
<1>2. CASE UNCHANGED <<given, done, messages, tasks>> /\ (gui' # "ended" => gui # "ended")
  BY <1>2 DEF CommandsAreNotMerged
<1>3. CASE ClientHandler \/ TimeoutHandler \/ CloseHandler \/ EngineHandler \/ StartupHandler
  <2>1. UNCHANGED <<given, done, messages, tasks, gui>>
    BY <1>3 DEF ClientHandler, TimeoutHandler, CloseHandler, EngineHandler, StartupHandler,
       LoopHandler, OnNewClientConnected, HandleClientMessage, HandleSettingsRequest,
       HandleBackendReply, OnReadError, OnRequestTimeout, RemoveClient, OnBackendError,
       StartupTimer
  <2> QED
    BY <1>2, <2>1
<1>4. CASE RunTask
  <2>1. /\ tasks # <<>> /\ tasks' = Tail(tasks) /\ UNCHANGED <<given, messages, gui>>
        /\ done' = IF Head(tasks) = "shutdown" THEN done ELSE done + 1
    BY <1>4 DEF RunTask
  <2>2. Head(tasks) \in Commands <=> Head(tasks) # "shutdown"
    BY <1>0, <2>1, HeadTailProperties, CommandKinds
  <2>3. PendingCommands(tasks') =
          IF Head(tasks) \in Commands THEN PendingCommands(tasks) - 1
          ELSE PendingCommands(tasks)
    BY <1>0, <2>1, OneLessPends
  <2> QED
    BY <1>0, <2>1, <2>2, <2>3 DEF CommandsAreNotMerged
<1>5. ASSUME NEW kind \in Messages \ Commands, messages' = Append(messages, kind),
             UNCHANGED <<given, done, tasks, gui>>
      PROVE  CommandsAreNotMerged'
  <2>1. PendingCommands(messages') = PendingCommands(messages)
    BY <1>0, <1>5, OneMorePends
  <2> QED
    BY <1>5, <2>1 DEF CommandsAreNotMerged
<1>6. CASE Notify \/ PushNote \/ PostNote \/ LoopEnds
  BY <1>2, <1>5, <1>6, CommandKinds DEF Notify, PushNote, PostNote, LoopEnds
<1>7. ASSUME NEW kind \in Messages, Message(kind)
      PROVE  /\ gui = "loop"
             /\ PendingCommands(messages') =
                    IF kind \in Commands THEN PendingCommands(messages) - 1
                    ELSE PendingCommands(messages)
  BY <1>0, <1>7, OneLessPends DEF Message
<1>8. ASSUME NEW kind \in TaskKinds, SendAsync(kind)
      PROVE  PendingCommands(tasks') =
                 IF kind \in Commands THEN PendingCommands(tasks) + 1
                 ELSE PendingCommands(tasks)
  BY <1>0, <1>8, OneMorePends DEF SendAsync
<1>9. CASE /\ RequestShutdown /\ UNCHANGED historyVars /\ gui = "loop"
           /\ Message("close") \/ UNCHANGED messages
  <2>1. PendingCommands(tasks') = PendingCommands(tasks)
    BY <1>8, <1>9, CommandKinds DEF RequestShutdown
  <2>2. PendingCommands(messages') = PendingCommands(messages)
    BY <1>7, <1>9, CommandKinds
  <2> QED
    BY <1>9, <2>1, <2>2, Zenon DEF CommandsAreNotMerged
<1>10. CASE GuiStep
  <2>0. UNCHANGED <<given, done>>
    BY <1>10 DEF GuiStep
  <2>1. CASE CreateWindow \/ WindowCreated \/ ShowTrayNotification
    BY <1>2, <2>0, <2>1 DEF CreateWindow, WindowCreated, ShowTrayNotification
  <2>2. CASE OnCommand
    <3>1. PICK kind \in Commands : Message(kind) /\ SendAsync(kind)
      BY <2>2 DEF OnCommand
    <3>2. PendingCommands(messages') = PendingCommands(messages) - 1
      BY <1>7, <3>1, CommandKinds
    <3>3. PendingCommands(tasks') = PendingCommands(tasks) + 1
      BY <1>8, <3>1, CommandKinds
    <3>4. gui = "loop"
      BY <3>1 DEF Message
    <3> QED
      BY <1>0, <2>0, <3>2, <3>3, <3>4 DEF CommandsAreNotMerged
  <2>3. CASE OnClose
    BY <1>9, <1>10, <2>3 DEF OnClose, GuiStep, Message
  <2>4. CASE DestroyWindow
    BY <2>4 DEF DestroyWindow, CommandsAreNotMerged
  <2>5. CASE FlushTrayNotifications
    <3>1. UNCHANGED tasks /\ Message("show")
      BY <2>5 DEF FlushTrayNotifications
    <3>2. gui = "loop" /\ PendingCommands(messages') = PendingCommands(messages)
      BY <1>7, <3>1, CommandKinds
    <3> QED
      BY <2>0, <3>1, <3>2 DEF CommandsAreNotMerged
  <2> QED
    BY <1>10, <2>1, <2>2, <2>3, <2>4, <2>5 DEF GuiStep
<1>11. CASE EndSession
  BY <1>9, <1>11 DEF EndSession
<1>12. CASE \E kind \in Commands : Choose(kind)
  <2>1. PICK kind \in Commands : Choose(kind)
    BY <1>12
  <2>2. /\ gui = "loop" /\ messages' = Append(messages, kind) /\ given' = given + 1
        /\ UNCHANGED <<done, tasks>>
    BY <2>1 DEF Choose
  <2>3. PendingCommands(messages') = PendingCommands(messages) + 1
    BY <1>0, <2>2, OneMorePends, CommandKinds
  <2> QED
    BY <1>0, <2>2, <2>3 DEF CommandsAreNotMerged
<1>13. CASE Quit
  BY <1>5, <1>13, CommandKinds DEF Quit
<1>14. CASE UNCHANGED vars
  BY <1>2, <1>14 DEF vars
<1> QED
  BY <1>1, <1>3, <1>4, <1>6, <1>10, <1>11, <1>12, <1>13, <1>14 DEF Next, LoopStep

\* The commands given are those carried out and those on their way, in the
\* window's messages or in the loop's handles: a command is never merged with
\* another one and never carried out twice, however many meet on the way.
THEOREM EachCommandCounts == Spec => []CommandsAreNotMerged
<1>1. Init => TypeOK /\ OwedInv
  BY InitType DEF Init, OwedInv
<1>2. Init => CommandsAreNotMerged
  BY NothingPends DEF Init, CommandsAreNotMerged
<1> QED
  BY <1>1, <1>2, StepType, StepOwed, StepCounted, PTL DEF Spec

=============================================================================
