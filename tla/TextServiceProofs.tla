------------------------- MODULE TextServiceProofs -------------------------
(***************************************************************************)
(* What holds of TextService for every set of responses, every bound and   *)
(* both kinds of host.  The view is proved about as the functions it is    *)
(* built from; the calls under way, as a sequence whose head each step     *)
(* replaces by other items.                                                *)
(***************************************************************************)
EXTENDS TextService, SequenceTheorems, TLAPS

-----------------------------------------------------------------------------
(* The view.                                                               *)

Hosted == inline \in BOOLEAN /\ drawn \in BOOLEAN

\* No content is remembered for a window that does not exist, and only a host
\* that draws the candidates has one.
Housed(v) ==
    /\ v \in View
    /\ v.window = "none" => ~v.valid
    /\ v.window # "none" => drawn

\* What is remembered for the comparison is what the window displays, but for
\* the preedit, which setCandidatePreedit writes at once.
Sound(v) ==
    /\ Housed(v)
    /\ v.window = "open" /\ v.valid => v.shown = <<v.cached[1], ~inline /\ v.preedit>>

Fresh(v) == v.window = "open" /\ v.showing => v.shown = Current(v)

\* w comes from v without a change of what the end of a composition looks at.
SameEnd(v, w) == w.suppress = v.suppress

LEMMA CurrentType ==
    ASSUME NEW v \in View, Hosted PROVE Current(v) \in Content
  BY DEF Current, View, Content, Hosted

LEMMA EnsureValidKeeps ==
    ASSUME NEW v, Hosted, Housed(v)
    PROVE  /\ Housed(EnsureValid(v)) /\ SameEnd(v, EnsureValid(v))
           /\ EnsureValid(v).window # "dead"
           /\ Sound(v) => Sound(EnsureValid(v))
           /\ Fresh(v) => Fresh(EnsureValid(v))
           /\ Current(EnsureValid(v)) = Current(v)
  BY DEF Hosted, Housed, Sound, Fresh, SameEnd, EnsureValid, Invalidate, View, Content,
         Nothing, Current

LEMMA CreateWindowOpens ==
    ASSUME NEW v, Hosted, Sound(v), drawn
    PROVE  /\ Sound(CreateWindow(v)) /\ SameEnd(v, CreateWindow(v))
           /\ CreateWindow(v).window = "open"
           /\ Current(CreateWindow(v)) = Current(v)
  <1> DEFINE w == EnsureValid(v)
  <1>1. /\ Sound(w) /\ w.window # "dead" /\ SameEnd(v, w) /\ Current(w) = Current(v)
    BY EnsureValidKeeps DEF Sound
  <1>2. CASE w.window = "open"
    BY <1>1, <1>2 DEF CreateWindow
  <1>3. CASE w.window # "open"
    <2>1. w.window = "none" /\ ~w.valid
      BY <1>1, <1>3 DEF Sound, Housed, View
    <2> QED
      BY <1>1, <1>3, <2>1 DEF CreateWindow, Sound, Housed, View, Content, Current, Hosted, SameEnd
  <1> QED
    BY <1>2, <1>3

LEMMA PaintFreshens ==
    ASSUME NEW v, Hosted, Housed(v), v.window # "none"
    PROVE  Sound(Paint(v)) /\ Fresh(Paint(v)) /\ SameEnd(v, Paint(v))
  <1> DEFINE w == Paint(v)
  <1>1. Current(v) \in Content /\ Current(v)[2] = (~inline /\ v.preedit)
    BY CurrentType DEF Housed, Current
  <1>2. /\ w \in View /\ w.window = v.window /\ w.suppress = v.suppress
        /\ w.shown = Current(v) /\ w.cached = Current(v) /\ w.valid
        /\ w.cands = v.cands /\ w.preedit = v.preedit
    BY <1>1 DEF Housed, Paint, View
  <1>3. Current(w) = Current(v)
    BY <1>2 DEF Current
  <1>4. Current(v) = <<Current(v)[1], ~inline /\ v.preedit>>
    BY DEF Current
  <1> QED
    BY <1>2, <1>3, <1>4 DEF Housed, Sound, Fresh, SameEnd

LEMMA UpdateCandidatesFreshens ==
    ASSUME NEW v, Hosted, Sound(v)
    PROVE  Sound(UpdateCandidates(v)) /\ Fresh(UpdateCandidates(v)) /\ SameEnd(v, UpdateCandidates(v))
  <1>1. CASE ~drawn
    BY <1>1 DEF UpdateCandidates, Sound, Housed, Fresh, SameEnd
  <1>2. CASE drawn
    <2> DEFINE w == CreateWindow(v)
    <2>1. Sound(w) /\ w.window = "open" /\ SameEnd(v, w)
      BY <1>2, CreateWindowOpens
    <2>2. CASE w.valid /\ w.cached = Current(w)
      <3>1. w.shown = Current(w)
        BY <2>1, <2>2 DEF Sound, Current
      <3> QED
        BY <1>2, <2>1, <2>2, <3>1 DEF UpdateCandidates, Fresh
    <2>3. CASE ~(w.valid /\ w.cached = Current(w))
      <3>1. Sound(Paint(w)) /\ Fresh(Paint(w)) /\ SameEnd(w, Paint(w))
        BY <2>1, PaintFreshens DEF Sound
      <3> QED
        BY <1>2, <2>1, <2>3, <3>1 DEF UpdateCandidates, SameEnd
    <2> QED
      BY <2>2, <2>3
  <1> QED
    BY <1>1, <1>2 DEF Hosted

LEMMA ShowCandidatesKeeps ==
    ASSUME NEW v, Hosted, Sound(v)
    PROVE  Sound(ShowCandidates(v)) /\ SameEnd(v, ShowCandidates(v))
  <1> DEFINE w == IF drawn THEN CreateWindow(v) ELSE v
  <1>1. Sound(w) /\ SameEnd(v, w)
    BY CreateWindowOpens DEF SameEnd
  <1> QED
    BY <1>1 DEF ShowCandidates, Sound, Housed, View, SameEnd

LEMMA HideCandidatesKeeps ==
    ASSUME NEW v, NEW p \in BOOLEAN, Hosted, Housed(v)
    PROVE  /\ Sound(HideCandidates(v, p)) /\ Fresh(HideCandidates(v, p))
           /\ SameEnd(v, HideCandidates(v, p))
  <1>1. CASE ~drawn
    BY <1>1 DEF HideCandidates, Sound, Housed, Fresh, SameEnd, View
  <1>2. CASE drawn
    <2> DEFINE w == EnsureValid(v)
    <2>1. Housed(w) /\ SameEnd(v, w)
      BY EnsureValidKeeps
    <2> QED
      BY <1>2, <2>1 DEF HideCandidates, Invalidate, Sound, Housed, Fresh, SameEnd, View,
                        Content, Nothing
  <1> QED
    BY <1>1, <1>2 DEF Hosted

LEMMA ResetDegradedKeeps ==
    ASSUME NEW v, Hosted, Housed(v)
    PROVE  Sound(ResetDegraded(v)) /\ Fresh(ResetDegraded(v)) /\ SameEnd(v, ResetDegraded(v))
  <1> DEFINE w == [v EXCEPT !.cands = Empty, !.preedit = FALSE]
  <1>1. Housed(w) /\ SameEnd(v, w)
    BY DEF Housed, View, SameEnd
  <1> DEFINE x == HideCandidates(w, FALSE)
  <1>2. Sound(x) /\ Fresh(x) /\ SameEnd(w, x)
    BY <1>1, HideCandidatesKeeps
  <1>3. ResetDegraded(v) = Invalidate(x)
    BY DEF ResetDegraded
  <1>4. x.showing = FALSE
    BY <1>1 DEF HideCandidates, Housed, View, EnsureValid, Invalidate
  <1> DEFINE y == Invalidate(x)
  <1>5. /\ y \in View /\ y.window = x.window /\ y.showing = FALSE /\ y.valid = FALSE
        /\ y.suppress = x.suppress
    BY <1>2, <1>4 DEF Invalidate, Sound, Housed, View, Content, Nothing
  <1> QED
    BY <1>1, <1>2, <1>3, <1>5 DEF Sound, Housed, Fresh, SameEnd

\* What every part of updateStatus asks of the view and leaves of it.
Good(v) == Sound(v) /\ Fresh(v)

\* Fields the display does not depend on.
LEMMA EndFieldsAreFree ==
    ASSUME NEW v, Hosted, Good(v), NEW c \in BOOLEAN, NEW p \in BOOLEAN
    PROVE  Good([v EXCEPT !.composing = c]) /\ Good([v EXCEPT !.suppress = p])
  BY DEF Good, Sound, Housed, Fresh, Current, View

LEMMA SetPreeditKeeps ==
    ASSUME NEW v, Hosted, Good(v), NEW p \in BOOLEAN
    PROVE  Good(SetPreedit(v, p)) /\ SameEnd(v, SetPreedit(v, p))
  <1> DEFINE w == SetPreedit(v, p)
             text == IF v.window = "none" THEN v.shown ELSE <<v.shown[1], ~inline /\ p>>
  <1>0. text \in Content
    BY DEF Good, Sound, Housed, View, Content, Hosted
  <1>1. /\ w \in View /\ w.window = v.window /\ w.valid = v.valid /\ w.cached = v.cached
        /\ w.preedit = p /\ w.showing = v.showing /\ w.cands = v.cands
        /\ w.suppress = v.suppress
        /\ v.window # "none" => w.shown = <<v.shown[1], ~inline /\ p>>
    BY <1>0 DEF SetPreedit, Good, Sound, Housed, View
  <1>2. Housed(w)
    BY <1>1 DEF Good, Sound, Housed
  <1>3. w.window = "open" /\ w.valid => w.shown = <<w.cached[1], ~inline /\ w.preedit>>
    BY <1>1 DEF Good, Sound
  <1>4. Fresh(w)
    BY <1>1 DEF Good, Fresh, Current
  <1> QED
    BY <1>1, <1>2, <1>3, <1>4 DEF Good, Sound, SameEnd

LEMMA UpdateCandidatesWindowKeeps ==
    ASSUME NEW v, Hosted, Good(v)
    PROVE  Good(UpdateCandidatesWindow(v)) /\ SameEnd(v, UpdateCandidatesWindow(v))
  BY EnsureValidKeeps DEF UpdateCandidatesWindow, Good, Sound, SameEnd

LEMMA UpdateCompositionKeeps ==
    ASSUME NEW v, NEW msg \in Message, Hosted, Good(v)
    PROVE  Good(UpdateComposition(v, msg)) /\ SameEnd(v, UpdateComposition(v, msg))
  <1> DEFINE w == SetPreedit(v, msg.comp)
             c == StartComposition(w)
  <1>1. Good(w) /\ SameEnd(v, w)
    BY SetPreeditKeeps DEF Message
  <1>2. Good(c) /\ SameEnd(w, c)
    <2>1. Good([w EXCEPT !.composing = TRUE])
      BY <1>1, EndFieldsAreFree
    <2> QED
      BY <1>1, <2>1 DEF StartComposition, SameEnd, Good, Sound, Housed, View
  <1>3. CASE msg.comp /\ ~inline
    <2>1. Sound(ShowCandidates(c)) /\ SameEnd(c, ShowCandidates(c))
      BY <1>2, ShowCandidatesKeeps DEF Good
    <2> QED
      BY <1>1, <1>2, <1>3, <2>1, UpdateCandidatesFreshens DEF UpdateComposition, Good, SameEnd
  <1>4. CASE ~(msg.comp /\ ~inline)
    BY <1>1, <1>2, <1>4, UpdateCandidatesWindowKeeps DEF UpdateComposition, SameEnd
  <1> QED
    BY <1>3, <1>4

LEMMA UpdateCandidateListKeeps ==
    ASSUME NEW v, NEW msg \in Message, Hosted, Good(v)
    PROVE  Good(UpdateCandidateList(v, msg)) /\ SameEnd(v, UpdateCandidateList(v, msg))
  <1> DEFINE visible == msg.cands # Empty
             restore == visible /\ ~msg.show
                          /\ (v.recovery \/ v.showing \/ v.composing \/ v.preedit)
             w == [v EXCEPT !.cands = msg.cands]
             c == StartComposition(w)
             x == IF msg.show \/ restore THEN ShowCandidates(c) ELSE w
             y == UpdateCandidates(x)
  <1>1. Sound(w) /\ SameEnd(v, w)
    BY DEF Good, Sound, Housed, View, Message, SameEnd
  <1>2. Sound(c) /\ SameEnd(w, c)
    BY <1>1 DEF StartComposition, Sound, Housed, View, SameEnd
  <1>3. Sound(x) /\ SameEnd(w, x)
    BY <1>1, <1>2, ShowCandidatesKeeps DEF SameEnd
  <1>4. Good(y) /\ SameEnd(x, y)
    BY <1>3, UpdateCandidatesFreshens DEF Good
  <1>5. Good(HideCandidates(y, FALSE)) /\ SameEnd(y, HideCandidates(y, FALSE))
    BY <1>4, HideCandidatesKeeps DEF Good, Sound
  <1>6. UpdateCandidateList(v, msg)
           = IF visible /\ (msg.show \/ restore) THEN y ELSE HideCandidates(y, FALSE)
    BY DEF UpdateCandidateList
  <1>7. SameEnd(v, y) /\ SameEnd(v, HideCandidates(y, FALSE))
    BY <1>1, <1>3, <1>4, <1>5 DEF SameEnd
  <1> HIDE DEF y
  <1> QED
    BY <1>4, <1>5, <1>6, <1>7

LEMMA UpdateCandidateListWithoutSessionKeeps ==
    ASSUME NEW v, NEW msg \in Message, Hosted, Good(v)
    PROVE  /\ Good(UpdateCandidateListWithoutSession(v, msg))
           /\ SameEnd(v, UpdateCandidateListWithoutSession(v, msg))
  <1> DEFINE w == [v EXCEPT !.cands = msg.cands]
  <1>1. Sound(w) /\ SameEnd(v, w) /\ w.window = v.window
    BY DEF Good, Sound, Housed, View, Message, SameEnd
  <1>2. CASE drawn /\ w.window # "none"
    <2>1. Sound(Paint(w)) /\ Fresh(Paint(w)) /\ SameEnd(w, Paint(w))
      BY <1>1, <1>2, PaintFreshens DEF Sound
    <2>2. UpdateCandidateListWithoutSession(v, msg) = Paint(w)
      BY <1>2 DEF UpdateCandidateListWithoutSession, UpdateCandidatesWithoutSession
    <2> QED
      BY <1>1, <2>1, <2>2 DEF Good, SameEnd
  <1>3. CASE ~(drawn /\ w.window # "none")
    BY <1>1, <1>3
       DEF UpdateCandidateListWithoutSession, UpdateCandidatesWithoutSession, Good, Sound,
           Housed, Fresh, SameEnd
  <1> QED
    BY <1>2, <1>3

LEMMA DestroyCandidateWindowKeeps ==
    ASSUME NEW v, Hosted, Good(v)
    PROVE  Good(DestroyCandidateWindow(v)) /\ SameEnd(v, DestroyCandidateWindow(v))
  BY DEF DestroyCandidateWindow, Invalidate, Good, Sound, Housed, Fresh, SameEnd, View,
         Content, Nothing

-----------------------------------------------------------------------------
(* The calls under way.                                                    *)

LEMMA ShortSequences ==
    ASSUME NEW S
    PROVE  /\ <<>> \in Seq(S)
           /\ \A a \in S : <<a>> \in Seq(S)
           /\ \A a, b \in S : <<a, b>> \in Seq(S)
           /\ \A a, b, c \in S : <<a, b, c>> \in Seq(S)
           /\ \A s, t \in Seq(S) : s \o t \in Seq(S)
           /\ \A s \in Seq(S) : s # <<>> => Head(s) \in S /\ Tail(s) \in Seq(S)
           /\ \A s \in Seq(S), a \in S : Append(s, a) \in Seq(S)
  OBVIOUS

LEMMA ItemTypes ==
    /\ \A op \in Simple : Item(op) \in Items
    /\ \A op \in Calling, m \in Methods : Call(op, m) \in Items
    /\ \A s \in BOOLEAN : Flush(s) \in Items /\ Pop(s) \in Items
    /\ \A op \in Updates, msg \in Replies \cup Async : Update(op, msg) \in Items
    /\ \A r \in BOOLEAN : [op |-> "ended", reset |-> r] \in Items
  BY DEF Items, Item, Call, Flush, Pop, Update

\* What the head of todo holds, by its op.
LEMMA HeadTypes ==
    ASSUME TypeOK, todo # <<>>
    PROVE  /\ Head(todo) \in Items
           /\ Head(todo).op \in Calling => Method \in Methods
           /\ Head(todo).op \in {"flush", "pop"} => Head(todo).session \in BOOLEAN
           /\ Head(todo).op \in Updates => Head(todo).msg \in Replies \cup Async
  <1>1. Head(todo) \in Items
    BY ShortSequences DEF TypeOK
  <1> QED
    BY <1>1 DEF Items, Simple, Calling, Updates, Method

\* The head of todo gives way to other calls.
Replaces == todo # <<>> /\ \E items \in Seq(Items) : Do(items)

LEMMA ReplacesType ==
    ASSUME TypeOK, Replaces
    PROVE  todo' \in Seq(Items)
  <1>1. PICK items \in Seq(Items) : Do(items)
    BY DEF Replaces
  <1>2. Tail(todo) \in Seq(Items)
    BY ShortSequences DEF TypeOK, Replaces
  <1>3. todo' = items \o Tail(todo)
    BY <1>1 DEF Do
  <1> QED
    BY <1>2, <1>3, ConcatProperties

LEMMA EndCompositionType ==
    ASSUME NEW r \in BOOLEAN
    PROVE  EndComposition(r) \in Seq(Items)
  <1>1. Item("terminate") \in Items /\ [op |-> "ended", reset |-> r] \in Items
    BY ItemTypes DEF Simple
  <1> QED
    BY <1>1, ShortSequences DEF EndComposition

LEMMA UpdateStatusType ==
    ASSUME NEW msg \in Replies \cup Async, NEW s \in BOOLEAN
    PROVE  UpdateStatus(msg, s) \in Seq(Items)
  <1> DEFINE commit == IF msg.commit THEN <<Update("commit", msg)>> ELSE <<>>
             list == <<Update("list", msg)>>
             compose == <<Update("compose", msg)>>
             bare == IF msg.cands # Empty THEN <<Update("bareList", msg)>> ELSE <<>>
             keyboard == IF msg.open THEN <<Item("keyboard")>> ELSE <<>>
  <1>1. Item("keyboard") \in Items /\ \A p \in Updates : Update(p, msg) \in Items
    BY ItemTypes DEF Simple
  <1>2. /\ commit \in Seq(Items) /\ list \in Seq(Items) /\ keyboard \in Seq(Items)
        /\ compose \in Seq(Items) /\ bare \in Seq(Items)
    BY <1>1 DEF Updates
  <1>3. UpdateStatus(msg, s)
           = (IF ~s THEN bare
              ELSE IF msg.commit /\ msg.comp THEN commit \o compose \o list
              ELSE list \o commit \o compose) \o keyboard
    BY DEF UpdateStatus
  <1> HIDE DEF commit, list, compose, bare, keyboard
  <1>4. /\ commit \o compose \o list \in Seq(Items)
        /\ list \o commit \o compose \in Seq(Items)
    BY <1>2
  <1>5. /\ (commit \o compose \o list) \o keyboard \in Seq(Items)
        /\ (list \o commit \o compose) \o keyboard \in Seq(Items)
        /\ bare \o keyboard \in Seq(Items)
    BY <1>2, <1>4, ShortSequences
  <1> QED
    BY <1>3, <1>5

LEMMA AfterTypes ==
    ASSUME NEW m \in Methods
    PROVE  AfterSuccess(m) \subseteq Seq(Items) /\ AfterFailure(m) \subseteq Seq(Items)
  <1>1. /\ Item("refresh") \in Items /\ Flush(TRUE) \in Items
        /\ Call("rpc", "onKeyDown") \in Items /\ Call("rpc", "onActivate") \in Items
    BY ItemTypes DEF Simple, Calling, Methods, InSession
  <1>2. /\ <<Item("refresh"), Flush(TRUE)>> \in Seq(Items) /\ <<>> \in Seq(Items)
        /\ <<Call("rpc", "onKeyDown")>> \in Seq(Items) /\ <<Call("rpc", "onActivate")>> \in Seq(Items)
    BY <1>1, ShortSequences
  <1> QED
    BY <1>2 DEF AfterSuccess, AfterFailure

LEMMA CloseClientType == CloseClient \in Seq(Items)
  <1>1. Call("rpc", "onDeactivate") \in Items /\ Item("release") \in Items
    BY ItemTypes DEF Simple, Calling, Methods
  <1> QED
    BY <1>1, ShortSequences DEF CloseClient

\* What lies below the head is still under way after the head is replaced.
LEMMA ReplacingKeeps ==
    ASSUME TypeOK, Replaces, NEW i \in 2..Len(todo)
    PROVE  \E j \in 1..Len(todo') : todo'[j] = todo[i]
  <1>0. PICK items \in Seq(Items) : Do(items)
    BY DEF Replaces
  <1>1. todo \in Seq(Items) /\ todo # <<>>
    BY DEF TypeOK, Replaces
  <1>2. /\ Tail(todo) \in Seq(Items) /\ Len(Tail(todo)) = Len(todo) - 1
        /\ Tail(todo)[i - 1] = todo[i]
    BY <1>1
  <1>3. todo' = items \o Tail(todo)
    BY <1>0 DEF Do
  <1> DEFINE j == Len(items) + i - 1
  <1>4. /\ Len(items \o Tail(todo)) = Len(items) + Len(todo) - 1
        /\ j \in Len(items) + 1 .. Len(items) + Len(todo) - 1
        /\ (items \o Tail(todo))[j] = Tail(todo)[j - Len(items)]
    BY <1>1, <1>2
  <1>5. j \in 1..Len(todo') /\ todo'[j] = todo[i]
    BY <1>1, <1>2, <1>3, <1>4
  <1> QED
    BY <1>5

LEMMA MessagesAreMessages == Replies \cup Async \subseteq Message
  BY MessagesAssumption

-----------------------------------------------------------------------------
(* What a step does to the view.                                           *)

LEMMA FailView ==
    ASSUME Hosted, Good(view), NEW s, NEW next, Fail(s, next)
    PROVE  /\ Good(view') /\ UNCHANGED <<inline, drawn>>
           /\ view'.suppress => view.suppress \/ (s /\ view.composing)
  <1> DEFINE ends == s /\ view.composing
             w == ResetDegraded(view)
  <1>1. Good(w) /\ SameEnd(view, w)
    BY ResetDegradedKeeps DEF Good, Sound
  <1>2. w.suppress \in BOOLEAN /\ (w.suppress \/ ends) \in BOOLEAN
    BY <1>1 DEF Good, Sound, Housed, View
  <1>3. view' = [w EXCEPT !.suppress = w.suppress \/ ends] /\ UNCHANGED <<inline, drawn>>
    BY DEF Fail, host
  <1>4. Good([w EXCEPT !.suppress = w.suppress \/ ends])
    BY <1>1, <1>2, EndFieldsAreFree
  <1>5. view'.suppress = (w.suppress \/ ends)
    BY <1>1, <1>3 DEF Good, Sound, Housed, View
  <1> QED
    BY <1>1, <1>3, <1>4, <1>5 DEF SameEnd

LEMMA ApplyUpdateView ==
    ASSUME TypeOK, Good(view), ApplyUpdate
    PROVE  /\ Good(view') /\ UNCHANGED <<inline, drawn>>
           /\ view'.suppress => view.suppress \/ At("commit")
  <1> DEFINE msg == Head(todo).msg
  <1>0. Hosted
    BY DEF TypeOK, Hosted
  <1>1. ASSUME At("list") \/ At("bareList") \/ At("commit") \/ At("compose")
        PROVE  msg \in Message
    BY <1>1, HeadTypes, MessagesAreMessages DEF At, Updates
  <1>2. CASE At("list") /\ view' = UpdateCandidateList(view, msg)
    BY <1>0, <1>1, <1>2, UpdateCandidateListKeeps DEF ApplyUpdate, SameEnd, host
  <1>3. CASE At("bareList") /\ view' = UpdateCandidateListWithoutSession(view, msg)
    BY <1>0, <1>1, <1>3, UpdateCandidateListWithoutSessionKeeps DEF ApplyUpdate, SameEnd, host
  <1>4. CASE At("compose") /\ view' = UpdateComposition(view, msg)
    BY <1>0, <1>1, <1>4, UpdateCompositionKeeps DEF ApplyUpdate, SameEnd, host
  <1>5. CASE /\ At("commit")
             /\ view' = [UpdateCandidatesWindow(StartComposition(view))
                            EXCEPT !.suppress = @ \/ msg.comp]
    <2> DEFINE c == StartComposition(view)
               w == UpdateCandidatesWindow(c)
    <2>1. Good(c)
      BY <1>0, EndFieldsAreFree DEF StartComposition
    <2>2. Good(w)
      BY <1>0, <2>1, UpdateCandidatesWindowKeeps
    <2>3. (w.suppress \/ msg.comp) \in BOOLEAN
      BY <1>1, <1>5, <2>2 DEF Good, Sound, Housed, View, Message
    <2>4. Good([w EXCEPT !.suppress = w.suppress \/ msg.comp])
      BY <1>0, <2>2, <2>3, EndFieldsAreFree
    <2> QED
      BY <1>5, <2>4 DEF ApplyUpdate, host
  <1> QED
    BY <1>2, <1>3, <1>4, <1>5 DEF ApplyUpdate

\* The five ways a call, a poll or a flush fails.
Failing == PollMalformed \/ Broken \/ AnswerFails \/ NoAnswerUnchecked \/ FlushFails

\* An exception, caught by a call under way or by none.
Raising == CaughtInCall \/ CaughtAbove

\* The steps, but for failures, that write the view.
Seeing ==
    \/ ConnectFails \/ CaughtInCall \/ ApplyUpdate \/ Terminate \/ Ended \/ Release \/ Hide
    \/ OnCompositionTerminated \/ WindowDies

LEMMA BlindSteps ==
    ASSUME Next, ~Failing, ~Seeing
    PROVE  UNCHANGED <<view, inline, drawn>>
  BY DEF Next, Step, Event, Failing, Seeing, CallOpen, Connect, Connected, PollQuietly,
         PollAndFlush, PollAndDefer, Flushed, SendClosed, SendAnswered, SendFails,
         AnswerSucceeds, NoAnswerChecked, FlushDone, FlushApplies, PopFront, PopEmpty,
         Refresh, UpdateKeyboard, Guarded, CaughtAbove,
         host, Create, Activated, EndTyping, OnLangProfileActivated,
         OnLangProfileDeactivated, OnDeactivate, OnSetThreadFocus, FilterKeyDown,
         FilterKeyUp, OtherCall,
         SelectCandidate, SelectCandidateLater, RunDeferred, OnAsyncPollTimer,
         OnKeyboardStatusChanged, Arrive, RetryDelayPasses, Begin

LEMMA SeeingSteps ==
    ASSUME TypeOK, Good(view), Seeing
    PROVE  /\ Good(view') /\ UNCHANGED <<inline, drawn>>
           /\ view'.suppress => \/ view.suppress /\ ~At("terminate")
                                \/ ApplyUpdate /\ At("commit")
  <1>0. Hosted
    BY DEF TypeOK, Hosted
  <1>1. CASE ConnectFails
    BY <1>0, <1>1, ResetDegradedKeeps DEF ConnectFails, Good, Sound, SameEnd, At, host
  <1>2. CASE ApplyUpdate
    BY <1>2, ApplyUpdateView DEF ApplyUpdate, At
  <1>3. CASE Terminate
    BY <1>0, <1>3, EndFieldsAreFree DEF Terminate, Good, Sound, Housed, View, host
  <1>4. CASE Ended
    <2>1. Good([view EXCEPT !.composing = FALSE])
      BY <1>0, EndFieldsAreFree
    <2> QED
      BY <1>4, <2>1 DEF Ended, At, Good, Sound, Housed, View, host
  <1>5. CASE Release
    BY <1>0, <1>5, DestroyCandidateWindowKeeps DEF Release, At, SameEnd, host
  <1>6. CASE Hide
    <2>1. Good(HideCandidates(view, FALSE)) /\ SameEnd(view, HideCandidates(view, FALSE))
      BY <1>0, HideCandidatesKeeps DEF Good, Sound
    <2> QED
      BY <1>6, <2>1 DEF Hide, At, SameEnd, host
  <1>7. CASE OnCompositionTerminated
    <2>1. Good(HideCandidates(view, TRUE)) /\ SameEnd(view, HideCandidates(view, TRUE))
      BY <1>0, HideCandidatesKeeps DEF Good, Sound
    <2>2. todo = <<>> /\ UNCHANGED <<inline, drawn>>
      BY <1>7 DEF OnCompositionTerminated, Begin, Idle, host
    <2> QED
      BY <1>7, <2>1, <2>2 DEF OnCompositionTerminated, At, SameEnd
  <1>8. CASE WindowDies
    <2>1. /\ Good([view EXCEPT !.window = "dead"])
          /\ [view EXCEPT !.window = "dead"].suppress = view.suppress
      BY <1>8 DEF WindowDies, Good, Sound, Housed, Fresh, View
    <2> QED
      BY <1>8, <2>1 DEF WindowDies, Idle, At, host
  <1>9. CASE CaughtInCall
    <2>1. Good(ResetDegraded(view)) /\ SameEnd(view, ResetDegraded(view))
      BY <1>0, ResetDegradedKeeps DEF Good, Sound
    <2>2. view' = ResetDegraded(view) /\ UNCHANGED <<inline, drawn>> /\ ~At("terminate")
      BY <1>9 DEF CaughtInCall, Throwing, At, host
    <2> QED
      BY <2>1, <2>2 DEF SameEnd
  <1> QED
    BY <1>1, <1>2, <1>3, <1>4, <1>5, <1>6, <1>7, <1>8, <1>9 DEF Seeing

LEMMA FailingView ==
    ASSUME TypeOK, Good(view), Failing
    PROVE  Good(view') /\ UNCHANGED <<inline, drawn>>
  <1>0. Hosted
    BY DEF TypeOK, Hosted
  <1>1. PICK s, next : Fail(s, next)
    BY DEF Failing, PollMalformed, Broken, AnswerFails, NoAnswerUnchecked, FlushFails
  <1> QED
    BY <1>0, <1>1, FailView

LEMMA ViewStep ==
    ASSUME TypeOK, Good(view), Next
    PROVE  Good(view') /\ UNCHANGED <<inline, drawn>>
  BY BlindSteps, SeeingSteps, FailingView

-----------------------------------------------------------------------------
(* Types.                                                                  *)

\* TypeOK of what is neither the view nor the calls under way.
RestOK ==
    /\ profile \in BOOLEAN /\ client \in BOOLEAN /\ active \in BOOLEAN
    /\ pipe \in BOOLEAN /\ wait \in BOOLEAN /\ degraded \in BOOLEAN /\ timer \in BOOLEAN
    /\ inbox \in Seq(Async) /\ queue \in Seq(Async) /\ flushing \in BOOLEAN
    /\ deferred \in Seq({"flush", "select", "dangling"})
    /\ opened \in BOOLEAN /\ escaped \subseteq {"handshake", "flush"}
    /\ undefined \in {"no", "pop in a session", "pop without a session", "freed client"}

LEMMA TypeParts ==
    /\ TypeOK <=> RestOK /\ view \in View /\ Hosted /\ todo \in Seq(Items)
    /\ TypeOK' <=> RestOK' /\ view' \in View /\ Hosted' /\ todo' \in Seq(Items)
  BY DEF TypeOK, RestOK, Hosted

LEMMA FailTypes ==
    ASSUME TypeOK, todo # <<>>, NEW s, NEW next \in Seq(Items), Fail(s, next)
    PROVE  RestOK' /\ Replaces
  <1>1. RestOK'
    BY ShortSequences DEF TypeOK, RestOK, Fail, CloseRpcConnection, life, host, faults
  <1> DEFINE items == (IF s /\ view.composing THEN EndComposition(TRUE) ELSE <<>>) \o next
  <1>2. EndComposition(TRUE) \in Seq(Items) /\ <<>> \in Seq(Items)
    BY EndCompositionType, ShortSequences
  <1>3. items \in Seq(Items)
    BY <1>2, ShortSequences
  <1>4. Do(items)
    BY DEF Fail
  <1> QED
    BY <1>1, <1>3, <1>4 DEF Replaces

LEMMA FailingTypes ==
    ASSUME TypeOK, Failing
    PROVE  RestOK' /\ Replaces
  <1>0. <<>> \in Seq(Items)
    BY ShortSequences
  <1>1. CASE PollMalformed
    BY <1>0, <1>1, FailTypes DEF PollMalformed, At
  <1>2. CASE Broken
    <2>1. todo # <<>> /\ Method \in Methods
      BY <1>2, HeadTypes DEF Broken, At, Calling
    <2>2. <<Call("noAnswer", Method)>> \in Seq(Items)
      BY <2>1, ItemTypes, ShortSequences DEF Calling
    <2> QED
      BY <1>2, <2>1, <2>2, FailTypes DEF Broken
  <1>3. CASE AnswerFails
    <2>1. todo # <<>> /\ Method \in Methods
      BY <1>3, HeadTypes DEF AnswerFails, At, Calling
    <2>2. PICK next \in AfterFailure(Method) : Fail(Method \in InSession, next)
      BY <1>3 DEF AnswerFails
    <2>3. next \in Seq(Items)
      BY <2>1, AfterTypes
    <2> QED
      BY <2>1, <2>2, <2>3, FailTypes
  <1>4. CASE NoAnswerUnchecked
    BY <1>0, <1>4, FailTypes DEF NoAnswerUnchecked, At
  <1>5. CASE FlushFails
    BY <1>0, <1>5, FailTypes DEF FlushFails, At
  <1> QED
    BY <1>1, <1>2, <1>3, <1>4, <1>5 DEF Failing

\* The steps of a call on its way to the engine and back.
Travelling ==
    \/ CallOpen \/ ConnectFails \/ Connect \/ Connected \/ SendClosed \/ SendAnswered
    \/ SendFails \/ AnswerSucceeds \/ NoAnswerChecked

LEMMA EarlyTypes ==
    ASSUME NEW early \in Early PROVE early \in Seq(Async)
  <1>1. <<>> \in Seq(Async) /\ \A m \in Async : <<m>> \in Seq(Async)
    BY ShortSequences
  <1> QED
    BY <1>1 DEF Early

LEMMA TravellingTypes ==
    ASSUME TypeOK, Travelling
    PROVE  RestOK' /\ Replaces
  <1>1. todo # <<>> /\ Method \in Methods
    BY HeadTypes
       DEF Travelling, CallOpen, ConnectFails, Connect, Connected, SendClosed, SendAnswered,
           SendFails, AnswerSucceeds, NoAnswerChecked, At, Calling
  <1>2. /\ \A op \in Calling : Call(op, Method) \in Items
        /\ Call("rpc", "init") \in Items /\ Item("poll") \in Items /\ Flush(FALSE) \in Items
    BY <1>1, ItemTypes DEF Calling, Methods, Checked, Simple
  <1>3. /\ <<Item("poll"), Call("send", Method)>> \in Seq(Items)
        /\ <<Call("noAnswer", Method)>> \in Seq(Items)
        /\ <<Call("rpc", "init"), Call("connected", Method)>> \in Seq(Items)
        /\ <<Flush(FALSE), Call("answer", Method)>> \in Seq(Items)
        /\ <<Flush(FALSE), Call("broken", Method)>> \in Seq(Items)
    BY <1>2, ShortSequences DEF Calling
  <1>4. CASE CallOpen \/ ConnectFails \/ Connect \/ Connected \/ SendClosed
    <2>1. RestOK'
      BY <1>4
         DEF TypeOK, RestOK, CallOpen, ConnectFails, Connect, Connected, SendClosed, life,
             link, messages, host, faults
    <2>2. PICK items \in Seq(Items) : Do(items)
      BY <1>3, <1>4 DEF CallOpen, ConnectFails, Connect, Connected, SendClosed
    <2> QED
      BY <1>1, <2>1, <2>2 DEF Replaces
  <1>5. CASE SendAnswered \/ SendFails
    <2>1. PICK early \in Early : queue' = queue \o early
      BY <1>5 DEF SendAnswered, SendFails
    <2>2. queue' \in Seq(Async)
      BY <2>1, EarlyTypes, ShortSequences DEF TypeOK
    <2>3. RestOK'
      BY <1>5, <2>2 DEF TypeOK, RestOK, SendAnswered, SendFails, life, link, host, faults
    <2>4. PICK items \in Seq(Items) : Do(items)
      BY <1>3, <1>5 DEF SendAnswered, SendFails
    <2> QED
      BY <1>1, <2>3, <2>4 DEF Replaces
  <1>6. CASE AnswerSucceeds
    <2>1. RestOK'
      BY <1>6 DEF TypeOK, RestOK, AnswerSucceeds, life, link, messages, host, faults
    <2>2. PICK r \in Replies, next \in AfterSuccess(Method) :
             Do(UpdateStatus(r, Method \in InSession) \o next)
      BY <1>6 DEF AnswerSucceeds
    <2>3. UpdateStatus(r, Method \in InSession) \in Seq(Items) /\ next \in Seq(Items)
      <3> DEFINE s == Method \in InSession
      <3>1. s \in BOOLEAN
        OBVIOUS
      <3> HIDE DEF s
      <3>2. UpdateStatus(r, s) \in Seq(Items)
        BY <3>1, UpdateStatusType
      <3> QED
        BY <1>1, <2>2, <3>2, AfterTypes DEF s
    <2>4. UpdateStatus(r, Method \in InSession) \o next \in Seq(Items)
      BY <2>3, ShortSequences
    <2> QED
      BY <1>1, <2>1, <2>2, <2>4 DEF Replaces
  <1>7. CASE NoAnswerChecked
    <2>1. RestOK'
      BY <1>7 DEF TypeOK, RestOK, NoAnswerChecked, life, link, messages, host, faults
    <2>2. PICK next \in AfterFailure(Method) : Do(next)
      BY <1>7 DEF NoAnswerChecked
    <2> QED
      BY <1>1, <2>1, <2>2, AfterTypes DEF Replaces
  <1> QED
    BY <1>4, <1>5, <1>6, <1>7 DEF Travelling

\* The steps of the poll, the queue, the update of the view and the client.
Handling ==
    \/ PollQuietly \/ PollAndFlush \/ PollAndDefer \/ Flushed
    \/ FlushDone \/ FlushApplies \/ PopFront \/ PopEmpty
    \/ ApplyUpdate \/ UpdateKeyboard \/ Terminate \/ Ended \/ Refresh \/ Guarded
    \/ Create \/ Activated \/ Release \/ EndTyping \/ Hide

LEMMA HandlingRest ==
    ASSUME TypeOK, Handling
    PROVE  RestOK'
  <1>1. <<>> \in Seq(Async) /\ queue \o inbox \in Seq(Async)
    BY ShortSequences DEF TypeOK
  <1>2. queue # <<>> => Tail(queue) \in Seq(Async)
    BY ShortSequences DEF TypeOK
  <1>3. CASE PollQuietly \/ PollAndFlush
    BY <1>1, <1>3 DEF TypeOK, RestOK, PollQuietly, PollAndFlush, life, link, host, faults
  <1>8. CASE Flushed \/ FlushDone \/ FlushApplies
    BY <1>8 DEF TypeOK, RestOK, Flushed, FlushDone, FlushApplies, life, link, messages, host,
                faults
  <1>4. CASE PollAndDefer
    <2>1. Append(deferred, "flush") \in Seq({"flush", "select", "dangling"})
      BY ShortSequences DEF TypeOK
    <2> QED
      BY <1>1, <1>4, <2>1 DEF TypeOK, RestOK, PollAndDefer, life, link, host, faults
  <1>5. CASE PopFront \/ PopEmpty
    BY <1>2, <1>5 DEF TypeOK, RestOK, PopFront, PopEmpty, life, link, messages, host, faults
  <1>9. CASE ApplyUpdate \/ UpdateKeyboard
    BY <1>9 DEF TypeOK, RestOK, ApplyUpdate, UpdateKeyboard, life, link, messages, host, faults
  <1>10. CASE Terminate \/ Ended \/ Hide
    BY <1>10 DEF TypeOK, RestOK, Terminate, Ended, Hide, life, link, messages, host, faults
  <1>6. CASE Refresh \/ Guarded \/ Create
    BY <1>6 DEF TypeOK, RestOK, Refresh, Guarded, Create, life, link, messages, host, faults
  <1>11. CASE Activated \/ EndTyping
    BY <1>11 DEF TypeOK, RestOK, Activated, EndTyping, life, link, messages, host, faults
  <1>7. CASE Release
    <2>1. [i \in 1..Len(deferred) |-> "dangling"] \in Seq({"flush", "select", "dangling"})
      <3>1. Len(deferred) \in Nat
        BY LenProperties DEF TypeOK
      <3>2. [i \in 1..Len(deferred) |-> "dangling"]
               \in [1..Len(deferred) -> {"flush", "select", "dangling"}]
        OBVIOUS
      <3> QED
        BY <3>1, <3>2, SeqDef
    <2> QED
      BY <1>1, <1>7, <2>1 DEF TypeOK, RestOK, Release, CloseRpcConnection, host
  <1> QED
    BY <1>3, <1>4, <1>5, <1>6, <1>7, <1>8, <1>9, <1>10, <1>11 DEF Handling

LEMMA HandlingTodo ==
    ASSUME TypeOK, Handling
    PROVE  Replaces \/ (PopEmpty /\ UNCHANGED todo)
  <1>1. todo # <<>>
    BY DEF Handling, PollQuietly, PollAndFlush, PollAndDefer, Flushed, FlushDone,
           FlushApplies, PopFront, PopEmpty, ApplyUpdate, UpdateKeyboard, Terminate, Ended,
           Refresh, Guarded, Create, Activated, Release, EndTyping, Hide, At
  <1>2. /\ \A s \in BOOLEAN : <<Pop(s), Flush(s)>> \in Seq(Items)
        /\ <<Flush(TRUE), Item("flushed")>> \in Seq(Items)
        /\ <<Call("rpc", "onActivate"), Item("activated"), Item("guarded")>> \in Seq(Items)
        /\ <<Call("rpc", "onCompositionTerminated")>> \in Seq(Items)
        /\ KeyboardChanged \in Seq(Items) /\ <<>> \in Seq(Items)
    <2>1. /\ \A s \in BOOLEAN : Pop(s) \in Items /\ Flush(s) \in Items
          /\ Item("flushed") \in Items /\ Item("activated") \in Items
          /\ Item("guarded") \in Items /\ Call("rpc", "onActivate") \in Items
          /\ Call("rpc", "onCompositionTerminated") \in Items
          /\ Call("rpc", "onKeyboardStatusChanged") \in Items
      BY ItemTypes DEF Simple, Calling, Methods
    <2> QED
      BY <2>1, ShortSequences DEF KeyboardChanged
  <1>3. CASE PopEmpty
    BY <1>3 DEF PopEmpty
  <1>4. CASE FlushApplies
    <2> DEFINE s == Head(todo).session
    <2>1. s \in BOOLEAN
      BY <1>4, HeadTypes DEF FlushApplies, At
    <2>2. Head(queue) \in Async
      BY <1>4, ShortSequences DEF FlushApplies, TypeOK
    <2>3. UpdateStatus(Head(queue), s) \in Seq(Items)
      BY <2>1, <2>2, UpdateStatusType
    <2>4. UpdateStatus(Head(queue), s) \o <<Pop(s), Flush(s)>> \in Seq(Items)
      BY <1>2, <2>1, <2>3, ShortSequences
    <2>5. Do(UpdateStatus(Head(queue), s) \o <<Pop(s), Flush(s)>>)
      BY <1>4 DEF FlushApplies
    <2> QED
      BY <1>1, <2>4, <2>5 DEF Replaces
  <1>5. CASE ApplyUpdate \/ EndTyping
    <2>1. Do(<<>>) \/ Do(EndComposition(FALSE))
      BY <1>5 DEF ApplyUpdate, EndTyping
    <2> QED
      BY <1>1, <1>2, <2>1, EndCompositionType DEF Replaces
  <1>6. CASE Handling /\ ~PopEmpty /\ ~FlushApplies /\ ~ApplyUpdate /\ ~EndTyping
    <2>1. PICK items \in Seq(Items) : Do(items)
      BY <1>2, <1>6
         DEF Handling, PollQuietly, PollAndFlush, PollAndDefer, Flushed, FlushDone, PopFront,
             UpdateKeyboard, Terminate, Ended, Refresh, Guarded, Create, Activated, Release,
             Hide
    <2> QED
      BY <1>1, <2>1 DEF Replaces
  <1> QED
    BY <1>3, <1>4, <1>5, <1>6

\* An exception leaves calls that were under way, but for the one that catches it.
LEMMA CaughtTodo ==
    ASSUME TypeOK, NEW k \in 2..Len(todo), NEW m \in Methods,
           todo' = <<Call("noAnswer", m)>> \o SubSeq(todo, k + 1, Len(todo))
    PROVE  /\ todo' \in Seq(Items) /\ Len(todo') = Len(todo) - k + 1
           /\ todo'[1] = Call("noAnswer", m)
           /\ \A i \in 2..Len(todo') : todo'[i] = todo[i + k - 1]
  <1> DEFINE first == Call("noAnswer", m)
             rest == SubSeq(todo, k + 1, Len(todo))
  <1>1. first \in Items /\ todo \in Seq(Items) /\ Len(todo) \in Nat
    <2>1. first \in Items
      BY ItemTypes DEF Calling
    <2>2. todo \in Seq(Items)
      BY DEF TypeOK
    <2> QED
      BY <2>1, <2>2, LenProperties
  <1>2. /\ rest \in Seq(Items) /\ Len(rest) = Len(todo) - k
        /\ \A i \in 1..Len(rest) : rest[i] = todo[i + k]
    BY <1>1, SubSeqProperties
  <1> HIDE DEF first, rest
  <1>3. todo' = <<first>> \o rest /\ <<first>> \in Seq(Items)
    BY <1>1 DEF first, rest
  <1>4. todo' \in Seq(Items) /\ Len(todo') = 1 + Len(rest) /\ todo'[1] = first
    BY <1>1, <1>2, <1>3
  <1>5. ASSUME NEW i \in 2..Len(todo') PROVE todo'[i] = todo[i + k - 1]
    <2>1. i - 1 \in 1..Len(rest) /\ (i - 1) + k = i + k - 1
      BY <1>1, <1>2, <1>4
    <2>2. i \in 1..(Len(<<first>>) + Len(rest)) /\ Len(<<first>>) = 1 /\ i # 1
      BY <1>1, <1>2, <1>4
    <2>3. (<<first>> \o rest)[i] = rest[i - Len(<<first>>)]
      <3>1. ~(i <= Len(<<first>>))
        BY <2>2
      <3>2. \A j \in 1..Len(<<first>>) + Len(rest) :
               (<<first>> \o rest)[j] = IF j <= Len(<<first>>) THEN <<first>>[j]
                                                            ELSE rest[j - Len(<<first>>)]
        BY <1>2, <1>3, ConcatProperties
      <3> QED
        BY <2>2, <3>1, <3>2
    <2> QED
      BY <1>2, <1>3, <2>1, <2>2, <2>3
  <1> QED
    BY <1>1, <1>2, <1>4, <1>5 DEF first

LEMMA PassedType ==
    ASSUME NEW n PROVE Passed(n) \subseteq {"handshake", "flush"}
  BY DEF Passed

\* The call that catches an exception.
Catches(k) ==
    /\ k \in 2..Len(todo) /\ todo[k].op \in Trying
    /\ \A i \in 2..(k - 1) : todo[i].op \notin Trying
    /\ todo' = <<Call("noAnswer", todo[k].method)>> \o SubSeq(todo, k + 1, Len(todo))
    /\ escaped' = escaped \cup Passed(k)

LEMMA CallerType ==
    ASSUME TypeOK, NEW i \in 1..Len(todo), todo[i].op \in Calling
    PROVE  todo[i].method \in Methods /\ todo[i] = Call(todo[i].op, todo[i].method)
  <1>1. todo[i] \in Items
    <2>1. todo \in Seq(Items)
      BY DEF TypeOK
    <2> QED
      BY <2>1, ElementOfSeq
  <1>2. todo[i] \in [op : Calling, method : Methods]
    BY <1>1 DEF Items, Simple, Calling, Updates
  <1> QED
    BY <1>2 DEF Call

LEMMA RaisingTypes ==
    ASSUME TypeOK, Raising
    PROVE  RestOK' /\ todo' \in Seq(Items)
  <1>1. CASE CaughtInCall
    <2>1. PICK k \in 2..Len(todo) : Catches(k)
      BY <1>1 DEF CaughtInCall, Catches
    <2>2. k \in 1..Len(todo)
      BY <2>1
    <2>3. todo[k].method \in Methods
      BY <2>1, <2>2, CallerType DEF Catches, Trying, Calling
    <2>4. todo' \in Seq(Items)
      BY <2>1, <2>3, CaughtTodo DEF Catches
    <2>5. escaped' \subseteq {"handshake", "flush"}
      BY <2>1, PassedType DEF Catches, TypeOK
    <2>6. <<>> \in Seq(Async)
      BY ShortSequences
    <2> QED
      BY <1>1, <2>4, <2>5, <2>6
         DEF CaughtInCall, CloseRpcConnection, TypeOK, RestOK, life, host
  <1>2. CASE CaughtAbove
    <2>1. todo' \in Seq(Items)
      BY <1>2, CloseClientType, ShortSequences DEF CaughtAbove
    <2>2. escaped' \subseteq {"handshake", "flush"}
      BY <1>2, PassedType DEF CaughtAbove, TypeOK
    <2> QED
      BY <1>2, <2>1, <2>2 DEF CaughtAbove, TypeOK, RestOK, life, link, messages, host
  <1> QED
    BY <1>1, <1>2 DEF Raising

LEMMA EventTypes ==
    ASSUME TypeOK, Event
    PROVE  RestOK' /\ todo' \in Seq(Items)
  <1>1. /\ \A m \in Methods : Call("rpc", m) \in Items
        /\ Item("create") \in Items /\ Flush(TRUE) \in Items /\ Item("flushed") \in Items
        /\ Item("poll") \in Items /\ Item("endTyping") \in Items /\ Item("hide") \in Items
        /\ Item("guarded") \in Items
        /\ [op |-> "ended", reset |-> FALSE] \in Items
    BY ItemTypes DEF Simple, Calling
  <1>2. /\ <<>> \in Seq(Items) /\ <<Item("create")>> \in Seq(Items)
        /\ \A m \in Methods : /\ <<Call("rpc", m)>> \in Seq(Items)
                               /\ <<Call("rpc", m), Item("guarded")>> \in Seq(Items)
        /\ <<Flush(TRUE), Item("flushed")>> \in Seq(Items) /\ <<Item("poll")>> \in Seq(Items)
        /\ <<Item("endTyping"), Item("hide")>> \in Seq(Items)
        /\ <<[op |-> "ended", reset |-> FALSE]>> \in Seq(Items)
    BY <1>1, ShortSequences
  <1>3. {"filterKeyUp", "onPreservedKey", "filterKeyDown", "selectCandidate",
         "onKeyboardStatusChanged", "onCompositionTerminated"} \subseteq Methods
    BY DEF Methods, Filters, InSession
  <1>4. ASSUME NEW items \in Seq(Items), Begin(items), profile' \in BOOLEAN
        PROVE  RestOK' /\ todo' \in Seq(Items)
    BY <1>4 DEF TypeOK, RestOK, Begin, link, messages, host, faults
  <1>5. CASE OnLangProfileActivated \/ OnLangProfileDeactivated \/ OnDeactivate
    <2>1. /\ CloseClient \in Seq(Items)
          /\ CloseClient \o <<Item("create")>> \in Seq(Items)
      BY <1>2, CloseClientType, ShortSequences
    <2> QED
      BY <1>4, <1>5, <2>1
         DEF OnLangProfileActivated, OnLangProfileDeactivated, OnDeactivate, TypeOK
  <1>6. CASE \/ OnSetThreadFocus \/ OnAsyncPollTimer \/ SelectCandidate
             \/ FilterKeyUp \/ OtherCall
    BY <1>2, <1>3, <1>4, <1>6
       DEF OnSetThreadFocus, OnAsyncPollTimer, SelectCandidate, FilterKeyUp, OtherCall, TypeOK
  <1>7. CASE FilterKeyDown
    <2>1. (IF client THEN <<>> ELSE <<Item("create")>>)
             \o <<Call("rpc", "filterKeyDown"), Item("guarded")>> \in Seq(Items)
      BY <1>2, <1>3, ShortSequences
    <2> QED
      BY <1>4, <1>7, <2>1 DEF FilterKeyDown, TypeOK
  <1>8. CASE OnKeyboardStatusChanged
    <2> DEFINE call == IF client THEN <<Call("rpc", "onKeyboardStatusChanged")>> ELSE <<>>
               close == IF opened THEN <<Item("endTyping"), Item("hide")>> ELSE <<>>
    <2>1. call \in Seq(Items) /\ close \in Seq(Items)
      BY <1>2, <1>3
    <2>2. todo' = call \o close \o call
      BY <1>8 DEF OnKeyboardStatusChanged
    <2> HIDE DEF call, close
    <2>3. todo' \in Seq(Items)
      BY <2>1, <2>2, ShortSequences
    <2> QED
      BY <1>8, <2>3 DEF OnKeyboardStatusChanged, TypeOK, RestOK, life, link, messages, faults
  <1>9. CASE OnCompositionTerminated
    <2>1. (IF client THEN <<Call("rpc", "onCompositionTerminated")>> ELSE <<>>)
             \o <<[op |-> "ended", reset |-> FALSE]>> \in Seq(Items)
      BY <1>2, <1>3, ShortSequences
    <2> QED
      BY <1>4, <1>9, <2>1 DEF OnCompositionTerminated, TypeOK
  <1>10. CASE SelectCandidateLater
    <2>1. Append(deferred, "select") \in Seq({"flush", "select", "dangling"})
      BY ShortSequences DEF TypeOK
    <2> QED
      BY <1>10, <2>1 DEF SelectCandidateLater, TypeOK, RestOK, life, link, host, faults
  <1>11. CASE RunDeferred
    <2>1. Tail(deferred) \in Seq({"flush", "select", "dangling"})
      BY <1>11, ShortSequences DEF RunDeferred, TypeOK
    <2>2. RestOK'
      BY <1>11, <2>1 DEF RunDeferred, TypeOK, RestOK, life, link, host
    <2> QED
      BY <1>2, <1>3, <1>11, <2>2 DEF RunDeferred, TypeOK
  <1>12. CASE WindowDies \/ RetryDelayPasses
    BY <1>12 DEF WindowDies, RetryDelayPasses, TypeOK, RestOK, life, link, messages,
                    host, faults
  <1>13. CASE Arrive
    <2>1. inbox' \in Seq(Async)
      BY <1>13, EarlyTypes, ShortSequences DEF Arrive, TypeOK
    <2> QED
      BY <1>13, <2>1 DEF Arrive, TypeOK, RestOK, life, link, host, faults
  <1> QED
    BY <1>5, <1>6, <1>7, <1>8, <1>9, <1>10, <1>11, <1>12, <1>13 DEF Event

-----------------------------------------------------------------------------
(* The invariants.                                                         *)

ViewInv == TypeOK /\ Good(view)

LEMMA ViewInit == Init => ViewInv
  <1> SUFFICES ASSUME Init PROVE ViewInv
    OBVIOUS
  <1>1. view \in View /\ Good(view)
    BY DEF Init, NoView, View, Content, Nothing, Good, Sound, Housed, Fresh
  <1>2. RestOK /\ Hosted /\ todo \in Seq(Items)
    <2>1. PICK h \in Hosts : inline = h[1] /\ drawn = h[2]
      BY DEF Init
    <2>2. h \in BOOLEAN \X BOOLEAN
      BY HostsAssumption
    <2> QED
      BY <2>1, <2>2, ShortSequences DEF Init, RestOK, Hosted
  <1> QED
    BY <1>1, <1>2, TypeParts DEF ViewInv

LEMMA Cases ==
    ASSUME Next PROVE Failing \/ Travelling \/ Handling \/ Raising \/ Event
  BY DEF Next, Step, Failing, Travelling, Handling, Raising

\* What follows for the next state is a formula of the next view and of a host
\* that does not change.
LEMMA GoodStays ==
    ASSUME Good(view'), UNCHANGED <<inline, drawn>> PROVE Good(view)' /\ (Hosted => Hosted')
  BY DEF Good, Sound, Housed, Fresh, Current, Hosted

LEMMA ViewInvStep ==
    ASSUME ViewInv, [Next]_vars PROVE ViewInv'
  <1>1. CASE Next
    <2>1. Good(view') /\ UNCHANGED <<inline, drawn>>
      BY <1>1, ViewStep DEF ViewInv
    <2>2. Good(view)' /\ Hosted' /\ view' \in View
      BY <2>1, GoodStays, TypeParts DEF ViewInv, Good, Sound, Housed
    <2>3. RestOK' /\ todo' \in Seq(Items)
      <3>1. CASE Failing
        BY <3>1, FailingTypes, ReplacesType DEF ViewInv
      <3>2. CASE Travelling
        BY <3>2, TravellingTypes, ReplacesType DEF ViewInv
      <3>3. CASE Handling
        <4>1. UNCHANGED todo => todo' \in Seq(Items)
          BY DEF ViewInv, TypeOK
        <4> QED
          BY <3>3, <4>1, HandlingRest, HandlingTodo, ReplacesType DEF ViewInv
      <3>4. CASE Event
        BY <3>4, EventTypes DEF ViewInv
      <3>5. CASE Raising
        BY <3>5, RaisingTypes DEF ViewInv
      <3> QED
        BY <1>1, <3>1, <3>2, <3>3, <3>4, <3>5, Cases
    <2> QED
      BY <2>2, <2>3, TypeParts DEF ViewInv
  <1>2. CASE UNCHANGED vars
    <2>1. TypeOK'
      BY <1>2 DEF vars, life, link, messages, host, faults, ViewInv, TypeOK
    <2>2. view' = view /\ UNCHANGED <<inline, drawn>>
      BY <1>2 DEF vars, host
    <2>3. Good(view') /\ UNCHANGED <<inline, drawn>>
      BY <2>2 DEF ViewInv
    <2> QED
      BY <2>1, <2>3, GoodStays DEF ViewInv
  <1> QED
    BY <1>1, <1>2

\* The state of the text service, and the calls under way, have their types: a
\* queued message is one the engine sent without being asked, and every method
\* called is one the code knows how to answer for.
THEOREM TypeCorrect == Spec => []TypeOK
  <1>1. ViewInv => TypeOK
    BY DEF ViewInv
  <1> QED
    BY <1>1, ViewInit, ViewInvStep, PTL DEF Spec

\* Whatever the engine answers and in whatever order its messages are applied,
\* the popup displays what the text service holds.
THEOREM PopupIsCurrent == Spec => []ShownIsCurrent
  <1>1. ViewInv => ShownIsCurrent
    BY DEF ViewInv, Good, Fresh, ShownIsCurrent
  <1> QED
    BY <1>1, ViewInit, ViewInvStep, PTL DEF Spec

-----------------------------------------------------------------------------
(* The suppressed notification.                                            *)

\* The end of a composition is the first call that follows.
LEMMA EndsFirst ==
    ASSUME TypeOK, todo # <<>>, NEW r \in BOOLEAN, NEW next \in Seq(Items),
           Do(EndComposition(r) \o next)
    PROVE  At("terminate")'
  <1> DEFINE t == Item("terminate")
             e == [op |-> "ended", reset |-> r]
  <1>1. Tail(todo) \in Seq(Items) /\ t \in Items /\ e \in Items
    BY ShortSequences, ItemTypes DEF TypeOK, Simple
  <1>2. todo' = (<<t, e>> \o next) \o Tail(todo)
    BY DEF Do, EndComposition
  <1> HIDE DEF t, e
  <1>3. todo' # <<>> /\ Head(todo') = t
    <2>1. <<t, e>> \o next \in Seq(Items) /\ Len(<<t, e>> \o next) = 2 + Len(next)
          /\ (<<t, e>> \o next)[1] = t /\ Len(next) \in Nat /\ Len(Tail(todo)) \in Nat
      BY <1>1, ShortSequences, ConcatProperties
    <2>2. /\ Len(todo') = 2 + Len(next) + Len(Tail(todo)) /\ todo'[1] = t
          /\ todo' \in Seq(Items)
      BY <1>1, <1>2, <2>1, ConcatProperties
    <2> QED
      BY <2>1, <2>2
  <1> QED
    BY <1>3 DEF t, Item, At

LEMMA FailSuppresses ==
    ASSUME ViewInv, todo # <<>>, NEW s, NEW next \in Seq(Items), Fail(s, next)
    PROVE  view'.suppress => view.suppress \/ At("terminate")'
  <1>0. Hosted
    BY DEF ViewInv, TypeOK, Hosted
  <1>1. CASE s /\ view.composing
    <2>1. Do(EndComposition(TRUE) \o next)
      BY <1>1 DEF Fail
    <2> QED
      BY <2>1, EndsFirst DEF ViewInv
  <1>2. CASE ~(s /\ view.composing)
    BY <1>0, <1>2, FailView DEF ViewInv
  <1> QED
    BY <1>1, <1>2

LEMMA FailingSuppresses ==
    ASSUME ViewInv, Failing
    PROVE  /\ todo # <<>> /\ ~At("terminate")
           /\ view'.suppress => view.suppress \/ At("terminate")'
  <1>1. todo # <<>> /\ ~At("terminate")
    BY DEF Failing, PollMalformed, Broken, AnswerFails, NoAnswerUnchecked, FlushFails, At
  <1>2. <<>> \in Seq(Items)
    BY ShortSequences
  <1>3. CASE Broken
    <2>1. Method \in Methods
      BY <1>1, <1>3, HeadTypes DEF ViewInv, Broken, At, Calling
    <2>2. <<Call("noAnswer", Method)>> \in Seq(Items)
      BY <2>1, ItemTypes, ShortSequences DEF Calling
    <2> QED
      BY <1>1, <1>3, <2>2, FailSuppresses DEF Broken
  <1>4. CASE AnswerFails
    <2>1. Method \in Methods
      BY <1>1, <1>4, HeadTypes DEF ViewInv, AnswerFails, At, Calling
    <2>2. PICK next \in AfterFailure(Method) : Fail(Method \in InSession, next)
      BY <1>4 DEF AnswerFails
    <2>3. next \in Seq(Items)
      BY <2>1, AfterTypes
    <2> QED
      BY <1>1, <2>2, <2>3, FailSuppresses
  <1>5. CASE PollMalformed
    BY <1>1, <1>2, <1>5, FailSuppresses DEF PollMalformed
  <1>6. CASE NoAnswerUnchecked
    BY <1>1, <1>2, <1>6, FailSuppresses DEF NoAnswerUnchecked
  <1>7. CASE FlushFails
    BY <1>1, <1>2, <1>7, FailSuppresses DEF FlushFails
  <1> QED
    BY <1>1, <1>3, <1>4, <1>5, <1>6, <1>7 DEF Failing

LEMMA CommitSuppresses ==
    ASSUME ViewInv, ApplyUpdate, At("commit")
    PROVE  At("terminate")'
  <1>1. Do(EndComposition(FALSE)) /\ todo # <<>>
    BY DEF ApplyUpdate, At
  <1>2. EndComposition(FALSE) \o <<>> = EndComposition(FALSE) /\ <<>> \in Seq(Items)
    BY EndCompositionType, ShortSequences, ConcatEmptySeq
  <1> QED
    BY <1>1, <1>2, EndsFirst DEF ViewInv

LEMMA OnlyTerminateGoesOn ==
    ASSUME At("terminate"), Next, ~Failing, ~Seeing
    PROVE  UNCHANGED todo
  BY DEF At, Next, Step, Event, Failing, Seeing, CallOpen, Connect, Connected, PollQuietly,
         PollAndFlush, PollAndDefer, Flushed, SendClosed, SendAnswered, SendFails,
         AnswerSucceeds, NoAnswerChecked, FlushDone, FlushApplies, PopFront, PopEmpty,
         Refresh, UpdateKeyboard, Guarded, CaughtAbove,
         Throwing, Create, Activated, EndTyping, OnLangProfileActivated,
         OnLangProfileDeactivated, OnDeactivate, OnSetThreadFocus, FilterKeyDown,
         FilterKeyUp, OtherCall,
         SelectCandidate, SelectCandidateLater, RunDeferred, OnAsyncPollTimer,
         OnKeyboardStatusChanged, Arrive, RetryDelayPasses, Begin, Idle

LEMMA SuppressedStep ==
    ASSUME ViewInv, SuppressedOnlyOnce, [Next]_vars
    PROVE  SuppressedOnlyOnce'
  <1>1. CASE UNCHANGED vars
    BY <1>1 DEF vars, SuppressedOnlyOnce, At
  <1>2. CASE Failing
    BY <1>2, FailingSuppresses DEF SuppressedOnlyOnce
  <1>3. CASE Seeing
    BY <1>3, SeeingSteps, CommitSuppresses DEF SuppressedOnlyOnce, ViewInv
  <1>4. CASE Next /\ ~Failing /\ ~Seeing
    <2>1. view' = view
      BY <1>4, BlindSteps
    <2>2. At("terminate") => todo' = todo
      BY <1>4, OnlyTerminateGoesOn
    <2> QED
      BY <2>1, <2>2 DEF SuppressedOnlyOnce, At
  <1> QED
    BY <1>1, <1>2, <1>3, <1>4

\* The end of a composition that is kept from the engine is the one the code is
\* about to make, in every state: a notification is never held back for a later
\* end, which the user or the host would cause.
THEOREM NothingElseIsSuppressed == Spec => []SuppressedOnlyOnce
  <1>1. Init => SuppressedOnlyOnce
    BY DEF Init, NoView, SuppressedOnlyOnce
  <1> QED
    BY <1>1, ViewInit, ViewInvStep, SuppressedStep, PTL DEF Spec

-----------------------------------------------------------------------------
(* What is owed by a call under way.                                       *)

\* The steps that neither take back shouldWaitConnection_ nor give it up.
LEMMA WaitStays ==
    ASSUME Next, ~Connect, ~Connected, ~Release
    PROVE  UNCHANGED wait
  BY DEF Next, Step, Event, Fail, ConnectFails, CallOpen, PollMalformed, PollQuietly,
         PollAndFlush, PollAndDefer, Flushed, SendClosed, SendAnswered, SendFails, Broken,
         AnswerSucceeds, AnswerFails, NoAnswerUnchecked, NoAnswerChecked, FlushDone,
         FlushApplies, FlushFails, PopFront, PopEmpty, ApplyUpdate, Terminate, Ended,
         Refresh, UpdateKeyboard, Guarded, CaughtInCall,
         CaughtAbove, Create, Activated, EndTyping, Hide, OnLangProfileActivated,
         OnLangProfileDeactivated, OnDeactivate, OnSetThreadFocus, FilterKeyDown,
         FilterKeyUp, OtherCall,
         SelectCandidate, SelectCandidateLater, RunDeferred, OnAsyncPollTimer,
         OnKeyboardStatusChanged, OnCompositionTerminated, WindowDies, Arrive,
         RetryDelayPasses, Begin, life, link

LEMMA UnderWay ==
    ASSUME TypeOK, NEW i \in 1..Len(todo)
    PROVE  todo # <<>> /\ Head(todo) = todo[1] /\ (i # 1 => i \in 2..Len(todo))
  <1>1. todo \in Seq(Items)
    BY DEF TypeOK
  <1>2. Len(todo) \in Nat
    BY <1>1, LenProperties
  <1>3. Len(todo) # 0
    BY <1>2
  <1>4. todo # <<>>
    BY <1>3, EmptySeq
  <1> QED
    BY <1>1, <1>2, <1>4

\* A step keeps what is under way below the head, unless it raises an exception;
\* the host begins something only when nothing is under way.
LEMMA StepKeeps ==
    ASSUME TypeOK, Next, ~Raising, NEW i \in 1..Len(todo), i # 1
    PROVE  \E j \in 1..Len(todo') : todo'[j] = todo[i]
  <1>0. todo # <<>>
    BY UnderWay
  <1>1. Event => UNCHANGED todo
    BY <1>0
       DEF Event, OnLangProfileActivated, OnLangProfileDeactivated, OnDeactivate,
           OnSetThreadFocus, FilterKeyDown, FilterKeyUp, OtherCall, SelectCandidate, SelectCandidateLater,
           RunDeferred, OnAsyncPollTimer, OnKeyboardStatusChanged, OnCompositionTerminated,
           WindowDies, Arrive, RetryDelayPasses, Begin, Idle
  <1>2. Replaces \/ UNCHANGED todo
    BY <1>1, Cases, FailingTypes, TravellingTypes, HandlingTodo
  <1>3. CASE UNCHANGED todo
    BY <1>3
  <1>4. CASE Replaces
    <2>1. i \in 2..Len(todo)
      BY UnderWay
    <2> QED
      BY <1>4, <2>1, ReplacingKeeps
  <1> QED
    BY <1>2, <1>3, <1>4

\* An exception keeps what is below the call that catches it.
LEMMA CatchKeeps ==
    ASSUME TypeOK, NEW k, Catches(k), NEW i \in 1..Len(todo), i > k
    PROVE  \E j \in 1..Len(todo') : todo'[j] = todo[i]
  <1>1. k \in 2..Len(todo) /\ k \in 1..Len(todo)
    BY DEF Catches
  <1>2. todo[k].method \in Methods
    BY <1>1, CallerType DEF Catches, Trying, Calling
  <1>3. /\ Len(todo') = Len(todo) - k + 1
        /\ \A j \in 2..Len(todo') : todo'[j] = todo[j + k - 1]
    BY <1>1, <1>2, CaughtTodo DEF Catches
  <1> DEFINE j == i - k + 1
  <1>4. j \in 2..Len(todo') /\ j + k - 1 = i /\ Len(todo') \in Nat
    BY <1>1, <1>3
  <1> QED
    BY <1>3, <1>4

\* Nothing that owes a flag is where an exception is raised.
LEMMA RaisedElsewhere ==
    ASSUME TypeOK, Raising, NEW i \in 1..Len(todo),
           todo[i] = Item("flushed") \/ todo[i].op = "connected"
    PROVE  i \in 2..Len(todo)
  <1>1. todo # <<>> /\ Head(todo) = todo[1] /\ (i # 1 => i \in 2..Len(todo))
    BY UnderWay
  <1>2. Head(todo).op \in {"answer", "flush"}
    BY DEF Raising, CaughtInCall, CaughtAbove, Throwing, At
  <1> QED
    BY <1>1, <1>2 DEF Item

LEMMA EscapedStays ==
    ASSUME Next, ~Raising, ~Release
    PROVE  UNCHANGED escaped
  BY DEF Next, Step, Event, Raising, Fail, CallOpen, ConnectFails, Connect, Connected,
         PollMalformed, PollQuietly, PollAndFlush, PollAndDefer, Flushed, SendClosed,
         SendAnswered, SendFails, Broken, AnswerSucceeds, AnswerFails, NoAnswerUnchecked,
         NoAnswerChecked, FlushDone, FlushApplies, FlushFails, PopFront, PopEmpty,
         ApplyUpdate, UpdateKeyboard, Terminate, Ended, Refresh, Guarded, Create, Activated,
         EndTyping, Hide, OnLangProfileActivated, OnLangProfileDeactivated, OnDeactivate,
         OnSetThreadFocus, FilterKeyDown, FilterKeyUp, OtherCall, SelectCandidate,
         SelectCandidateLater, RunDeferred, OnAsyncPollTimer, OnKeyboardStatusChanged,
         OnCompositionTerminated, WindowDies, Arrive, RetryDelayPasses, Begin, host, faults

LEMMA OnlyConnectedGoesOn ==
    ASSUME At("connected"), Next, ~Connected
    PROVE  UNCHANGED todo
  BY DEF At, Next, Step, Event, CallOpen, ConnectFails, Connect, PollMalformed, PollQuietly,
         PollAndFlush, PollAndDefer, Flushed, SendClosed, SendAnswered, SendFails, Broken,
         AnswerSucceeds, AnswerFails, NoAnswerUnchecked, NoAnswerChecked, FlushDone,
         FlushApplies, FlushFails, PopFront, PopEmpty, ApplyUpdate, Terminate, Ended,
         Refresh, UpdateKeyboard, Guarded, CaughtInCall,
         CaughtAbove, Throwing, Create, Activated, Release, EndTyping, Hide, OnLangProfileActivated,
         OnLangProfileDeactivated, OnDeactivate, OnSetThreadFocus, FilterKeyDown,
         FilterKeyUp, OtherCall,
         SelectCandidate, SelectCandidateLater, RunDeferred, OnAsyncPollTimer,
         OnKeyboardStatusChanged, OnCompositionTerminated, WindowDies, Arrive,
         RetryDelayPasses, Begin, Idle

LEMMA HandshakeStep ==
    ASSUME TypeOK, HandshakeReleasesTheFlag, [Next]_vars
    PROVE  HandshakeReleasesTheFlag'
  <1>1. CASE UNCHANGED vars
    BY <1>1 DEF vars, link, faults, HandshakeReleasesTheFlag
  <1>2. CASE Connected \/ Release
    BY <1>2 DEF Connected, Release, HandshakeReleasesTheFlag
  <1>3. CASE Connect
    <2> DEFINE c == Call("connected", Method)
               r == Call("rpc", "init")
    <2>1. Tail(todo) \in Seq(Items) /\ c \in Items /\ r \in Items
      BY <1>3, HeadTypes, ShortSequences, ItemTypes
         DEF Connect, At, TypeOK, Calling, Methods, Checked
    <2>2. todo' = <<r, c>> \o Tail(todo) /\ c.op = "connected"
      BY <1>3 DEF Connect, Do, Call
    <2> HIDE DEF c, r
    <2>3. 2 \in 1..Len(todo') /\ todo'[2] = c
      BY <2>1, <2>2
    <2> QED
      BY <2>2, <2>3 DEF HandshakeReleasesTheFlag
  <1>4. CASE Next /\ ~Connect /\ ~Connected /\ ~Release /\ ~Raising
    <2>1. wait' = wait /\ escaped' = escaped
      BY <1>4, WaitStays, EscapedStays
    <2>2. ASSUME ~wait, "handshake" \notin escaped
          PROVE  \E j \in 1..Len(todo') : todo'[j].op = "connected"
      <3>1. PICK i \in 1..Len(todo) : todo[i].op = "connected"
        BY <2>2 DEF HandshakeReleasesTheFlag
      <3>2. i = 1 => At("connected")
        BY <3>1, UnderWay DEF At
      <3>3. At("connected") => UNCHANGED todo
        BY <1>4, OnlyConnectedGoesOn
      <3>4. CASE UNCHANGED todo
        BY <3>1, <3>4
      <3>5. CASE i # 1
        BY <1>4, <3>1, <3>5, StepKeeps
      <3> QED
        BY <3>2, <3>3, <3>4, <3>5
    <2> QED
      BY <2>1, <2>2 DEF HandshakeReleasesTheFlag
  <1>5. CASE Raising
    <2>1. wait' = wait /\ escaped \subseteq escaped'
      BY <1>5 DEF Raising, CaughtInCall, CaughtAbove, link
    <2>2. ASSUME NEW i \in 1..Len(todo), todo[i].op = "connected"
          PROVE  \/ "handshake" \in escaped'
                 \/ \E j \in 1..Len(todo') : todo'[j].op = "connected"
      <3>1. i \in 2..Len(todo) /\ todo[i].op \in Trying
        BY <1>5, <2>2, RaisedElsewhere DEF Trying
      <3>2. CASE CaughtInCall
        <4>1. PICK k : Catches(k)
          BY <3>2 DEF CaughtInCall, Catches
        <4>2. i = k \/ i > k
          BY <3>1, <4>1 DEF Catches
        <4>3. i = k => "handshake" \in Passed(k)
          BY <2>2, <3>1 DEF Passed
        <4> QED
          BY <2>2, <4>1, <4>2, <4>3, CatchKeeps DEF Catches
      <3>3. CASE CaughtAbove
        BY <3>1, <3>3 DEF CaughtAbove
      <3> QED
        BY <1>5, <3>2, <3>3 DEF Raising
    <2> QED
      BY <2>1, <2>2 DEF HandshakeReleasesTheFlag
  <1> QED
    BY <1>1, <1>2, <1>3, <1>4, <1>5

\* After a handshake, whatever init and onActivate were answered, the next call may
\* connect again: the flag is down only while the handshake that took it is under
\* way, and after an exception has gone out of one.
THEOREM FlagIsReleased == Spec => []HandshakeReleasesTheFlag
  <1>1. Init => HandshakeReleasesTheFlag
    BY DEF Init, HandshakeReleasesTheFlag
  <1> QED
    BY <1>1, ViewInit, ViewInvStep, HandshakeStep, PTL DEF Spec, ViewInv

-----------------------------------------------------------------------------
(* The flag of a flush.                                                    *)

\* The steps that write asyncFlushInProgress_ or the edit sessions put off.
Flagging ==
    \/ PollAndFlush \/ PollAndDefer \/ Flushed \/ Release
    \/ RunDeferred \/ SelectCandidateLater

LEMMA FlagStays ==
    ASSUME Next, ~Flagging
    PROVE  UNCHANGED <<flushing, deferred>>
  BY DEF Next, Step, Event, Flagging, Fail, CallOpen, ConnectFails, Connect, Connected,
         PollMalformed, PollQuietly, SendClosed, SendAnswered, SendFails, Broken,
         AnswerSucceeds, AnswerFails, NoAnswerUnchecked, NoAnswerChecked, FlushDone,
         FlushApplies, FlushFails, PopFront, PopEmpty, ApplyUpdate, Terminate, Ended,
         Refresh, UpdateKeyboard, Guarded, CaughtInCall,
         CaughtAbove, Create, Activated, EndTyping, Hide, OnLangProfileActivated,
         OnLangProfileDeactivated, OnDeactivate, OnSetThreadFocus, FilterKeyDown,
         FilterKeyUp, OtherCall,
         SelectCandidate, OnAsyncPollTimer, OnKeyboardStatusChanged,
         OnCompositionTerminated, WindowDies, Arrive, RetryDelayPasses, Begin, messages

LEMMA OnlyFlushedGoesOn ==
    ASSUME At("flushed"), Next, ~Flushed
    PROVE  UNCHANGED todo
  BY DEF At, Next, Step, Event, CallOpen, ConnectFails, Connect, Connected, PollMalformed,
         PollQuietly, PollAndFlush, PollAndDefer, SendClosed, SendAnswered, SendFails, Broken,
         AnswerSucceeds, AnswerFails, NoAnswerUnchecked, NoAnswerChecked, FlushDone,
         FlushApplies, FlushFails, PopFront, PopEmpty, ApplyUpdate, Terminate, Ended,
         Refresh, UpdateKeyboard, Guarded, CaughtInCall,
         CaughtAbove, Throwing, Create, Activated, Release, EndTyping, Hide, OnLangProfileActivated,
         OnLangProfileDeactivated, OnDeactivate, OnSetThreadFocus, FilterKeyDown,
         FilterKeyUp, OtherCall,
         SelectCandidate, SelectCandidateLater, RunDeferred, OnAsyncPollTimer,
         OnKeyboardStatusChanged, OnCompositionTerminated, WindowDies, Arrive,
         RetryDelayPasses, Begin, Idle

\* The two ways a flush is owed.
UnderFlush == \E i \in 1..Len(todo) : todo[i] = Item("flushed")
Deferred == \E i \in 1..Len(deferred) : deferred[i] = "flush"

LEMMA UnderFlushStays ==
    ASSUME TypeOK, UnderFlush, Next, ~Flushed, ~Raising
    PROVE  UnderFlush'
  <1>1. PICK i \in 1..Len(todo) : todo[i] = Item("flushed")
    BY DEF UnderFlush
  <1>2. i = 1 => At("flushed")
    BY <1>1, UnderWay DEF At, Item
  <1>3. CASE UNCHANGED todo
    BY <1>1, <1>3 DEF UnderFlush
  <1>4. CASE i # 1
    BY <1>1, <1>4, StepKeeps DEF UnderFlush
  <1> QED
    BY <1>2, <1>3, <1>4, OnlyFlushedGoesOn

\* An exception that goes past a flush under way is remembered.
LEMMA UnderFlushEscapes ==
    ASSUME TypeOK, UnderFlush, Raising
    PROVE  UnderFlush' \/ "flush" \in escaped'
  <1>1. PICK i \in 1..Len(todo) : todo[i] = Item("flushed")
    BY DEF UnderFlush
  <1>2. i \in 2..Len(todo)
    BY <1>1, RaisedElsewhere
  <1>3. ASSUME NEW n, i \in 2..n PROVE "flush" \in Passed(n)
    BY <1>1, <1>3 DEF Passed
  <1>4. CASE CaughtInCall
    <2>1. PICK k : Catches(k)
      BY <1>4 DEF CaughtInCall, Catches
    <2>2. i \in 2..k \/ i > k
      BY <1>2, <2>1 DEF Catches
    <2> QED
      BY <1>1, <1>3, <2>1, <2>2, CatchKeeps DEF Catches, UnderFlush
  <1>5. CASE CaughtAbove
    BY <1>2, <1>3, <1>5 DEF CaughtAbove
  <1> QED
    BY <1>4, <1>5 DEF Raising

LEMMA FlushBegins ==
    ASSUME NEW rest \in Seq(Items), todo' = <<Flush(TRUE), Item("flushed")>> \o rest
    PROVE  UnderFlush'
  <1> DEFINE f == Flush(TRUE)
             g == Item("flushed")
  <1>1. f \in Items /\ g \in Items
    BY ItemTypes DEF Simple
  <1> HIDE DEF f, g
  <1>2. 2 \in 1..Len(todo') /\ todo'[2] = g
    BY <1>1 DEF f, g
  <1> QED
    BY <1>2 DEF UnderFlush, g

LEMMA RunDeferredOwes ==
    ASSUME TypeOK, Deferred, RunDeferred
    PROVE  UnderFlush' \/ Deferred'
  <1>1. PICK i \in 1..Len(deferred) : deferred[i] = "flush"
    BY DEF Deferred
  <1>2. CASE Head(deferred) = "flush"
    <2>1. todo' = <<Flush(TRUE), Item("flushed")>> /\ <<>> \in Seq(Items)
      BY <1>2, ShortSequences DEF RunDeferred
    <2>2. <<Flush(TRUE), Item("flushed")>> \in Seq(Items)
      BY ItemTypes, ShortSequences DEF Simple
    <2>3. todo' = <<Flush(TRUE), Item("flushed")>> \o <<>>
      BY <2>1, <2>2, ConcatEmptySeq
    <2> QED
      BY <2>1, <2>3, FlushBegins
  <1>3. CASE Head(deferred) # "flush"
    <2>1. deferred # <<>> /\ deferred' = Tail(deferred)
      BY DEF RunDeferred
    <2>2. deferred \in Seq({"flush", "select", "dangling"})
      BY DEF TypeOK
    <2>3. Head(deferred) = deferred[1] /\ Len(deferred) \in Nat
      BY <2>1, <2>2, LenProperties
    <2>4. i # 1
      BY <1>1, <1>3, <2>3
    <2>5. i - 1 \in 1..Len(Tail(deferred)) /\ Tail(deferred)[i - 1] = deferred[i]
      BY <2>1, <2>2, <2>3, <2>4
    <2> QED
      BY <1>1, <2>1, <2>5 DEF Deferred
  <1> QED
    BY <1>2, <1>3

LEMMA AppendKeeps ==
    ASSUME TypeOK, NEW what \in {"flush", "select"}, deferred' = Append(deferred, what)
    PROVE  Deferred \/ what = "flush" => Deferred'
  <1>1. deferred \in Seq({"flush", "select", "dangling"}) /\ Len(deferred) \in Nat
    BY LenProperties DEF TypeOK
  <1>2. /\ Len(deferred') = Len(deferred) + 1
        /\ deferred'[Len(deferred) + 1] = what
        /\ \A i \in 1..Len(deferred) : deferred'[i] = deferred[i]
    BY <1>1
  <1> QED
    BY <1>1, <1>2 DEF Deferred

LEMMA FlushFlagStep ==
    ASSUME TypeOK, FlushFlagIsOwned, [Next]_vars
    PROVE  FlushFlagIsOwned'
  <1>0. FlushFlagIsOwned <=> (flushing => UnderFlush \/ Deferred \/ "flush" \in escaped)
    BY DEF FlushFlagIsOwned, UnderFlush, Deferred
  <1>1. FlushFlagIsOwned' <=> (flushing' => UnderFlush' \/ Deferred' \/ "flush" \in escaped')
    BY DEF FlushFlagIsOwned, UnderFlush, Deferred
  <1>2. CASE UNCHANGED vars
    BY <1>2 DEF vars, messages, faults, FlushFlagIsOwned
  <1>3. CASE Flushed \/ Release
    BY <1>1, <1>3 DEF Flushed, Release
  <1>4. CASE PollAndFlush
    <2>1. Tail(todo) \in Seq(Items)
      BY <1>4, ShortSequences DEF PollAndFlush, At, TypeOK
    <2>2. todo' = <<Flush(TRUE), Item("flushed")>> \o Tail(todo)
      BY <1>4 DEF PollAndFlush, Do
    <2> QED
      BY <1>1, <2>1, <2>2, FlushBegins
  <1>5. CASE PollAndDefer
    BY <1>1, <1>5, AppendKeeps DEF PollAndDefer
  <1>6. CASE RunDeferred
    <2>1. todo = <<>> /\ flushing' = flushing /\ escaped' = escaped
      BY <1>6 DEF RunDeferred, Idle
    <2>2. ~UnderFlush
      BY <2>1 DEF UnderFlush
    <2> QED
      BY <1>0, <1>1, <1>6, <2>1, <2>2, RunDeferredOwes
  <1>7. CASE SelectCandidateLater
    <2>1. /\ flushing' = flushing /\ todo' = todo /\ escaped' = escaped
          /\ deferred' = Append(deferred, "select")
      BY <1>7 DEF SelectCandidateLater, faults
    <2> QED
      BY <1>0, <1>1, <2>1, AppendKeeps DEF UnderFlush
  <1>8. CASE Next /\ ~Flagging
    <2>1. flushing' = flushing /\ deferred' = deferred
      BY <1>8, FlagStays
    <2>2. UnderFlush => UnderFlush' \/ "flush" \in escaped'
      BY <1>8, UnderFlushStays, UnderFlushEscapes DEF Flagging
    <2>3. escaped \subseteq escaped'
      BY <1>8, EscapedStays DEF Flagging, Raising, CaughtInCall, CaughtAbove
    <2> QED
      BY <1>0, <1>1, <2>1, <2>2, <2>3 DEF Deferred
  <1> QED
    BY <1>2, <1>3, <1>4, <1>5, <1>6, <1>7, <1>8 DEF Flagging

\* Whatever becomes of an edit session, granted at once, put off or refused, the
\* flag is set only while a flush that clears it is to come, so that the engine's
\* messages do not stay in the queue for good; but for one exception out of an edit
\* session, after which no flush clears it.
THEOREM FlagIsOwned == Spec => []FlushFlagIsOwned
  <1>1. Init => FlushFlagIsOwned
    BY DEF Init, FlushFlagIsOwned
  <1> QED
    BY <1>1, ViewInit, ViewInvStep, FlushFlagStep, PTL DEF Spec, ViewInv

=============================================================================
