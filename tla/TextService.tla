---------------------------- MODULE TextService ----------------------------
(***************************************************************************)
(* The text service of one host application: Moqi::Client, its queue of    *)
(* asynchronous responses, and the composition and candidate window that   *)
(* Moqi::TextService keeps.  Everything runs on the host's one thread, but *)
(* not one call after the other: ending a composition calls the engine     *)
(* from the middle of a response, and that call may read, and apply, other *)
(* responses; opening the keyboard does the same.  A response that cannot  *)
(* be applied raises an exception, which abandons calls under way.  Those  *)
(* are the items of todo, the next first.                                  *)
(***************************************************************************)
EXTENDS Naturals, Sequences, FiniteSets

CONSTANTS
    Lists,       \* candidate lists
    Empty,       \* no candidates
    Replies,     \* the answers of the engine
    Async,       \* its messages that answer nothing
    Hosts,       \* kinds of host: whether it takes the preedit inline, and draws
                 \* no candidates of its own
    MaxQueue,    \* bound: messages of Async in the pipe and in the queue
    MaxDeferred  \* bound: edit sessions TSF has put off

\* A response, as the text service reads it: success, commitString and
\* compositionString not empty, the candidates, showCandidates, openKeyboard; and
\* whether asInt throws at a page number, page size or count above INT_MAX.
Message == [ok : BOOLEAN, commit : BOOLEAN, comp : BOOLEAN,
            cands : Lists \cup {Empty}, show : BOOLEAN, open : BOOLEAN, throws : BOOLEAN]

ASSUME MessagesAssumption == Replies \subseteq Message /\ Async \subseteq Message
ASSUME HostsAssumption == Hosts \subseteq BOOLEAN \X BOOLEAN
ASSUME ListsAssumption == Empty \notin Lists
ASSUME BoundsAssumption == MaxQueue \in Nat /\ MaxDeferred \in Nat

VARIABLES
    profile,    \* currentLangProfile_ is set
    client,     \* client_ exists
    active,     \* isActivated_
    pipe,       \* pipe_ is a handle
    wait,       \* shouldWaitConnection_
    degraded,   \* degradedUntilTick_ is ahead
    timer,      \* the poll timer runs
    inbox,      \* the messages in the pipe, unread
    queue,      \* pendingAsyncResponses_
    flushing,   \* asyncFlushInProgress_
    deferred,   \* the edit sessions put off; dangling: their client is gone
    view,       \* what the text service holds and shows
    inline,     \* effectiveInlinePreedit(), of the host
    drawn,      \* tsfCandidateUiEnabled(), of the host
    opened,     \* the compartment of the keyboard is open
    todo,       \* the calls under way
    escaped,    \* the flags of the client an exception has gone past (history)
    undefined   \* the undefined behaviour met; the model stops there

life == <<profile, client, active>>
link == <<pipe, wait, degraded, timer>>
messages == <<inbox, queue, flushing, deferred>>
host == <<inline, drawn, opened>>
faults == <<escaped, undefined>>
vars == <<life, link, messages, view, host, todo, faults>>

-----------------------------------------------------------------------------
(* The view: functions of what it was, in the order of the code.           *)

Content == (Lists \cup {Empty}) \X BOOLEAN   \* the list, and the preedit above it
Nothing == <<Empty, FALSE>>

View == [composing : BOOLEAN,  \* a TSF composition exists
         suppress  : BOOLEAN,  \* suppressNextCompositionTerminatedNotification_
         showing   : BOOLEAN,  \* showingCandidates_
         recovery  : BOOLEAN,  \* pendingCandidateRecovery_
         preedit   : BOOLEAN,  \* candidatePreedit_ is not empty
         cands     : Lists \cup {Empty},       \* candidates_
         window    : {"none", "open", "dead"}, \* candidateWindow_ and its HWND
         shown     : Content,                  \* what the window displays
         cached    : Content,                  \* the applied* members ...
         valid     : BOOLEAN]                  \* ... and hasAppliedCandidateContent_

NoView == [composing |-> FALSE, suppress |-> FALSE, showing |-> FALSE,
           recovery |-> FALSE, preedit |-> FALSE, cands |-> Empty,
           window |-> "none", shown |-> Nothing, cached |-> Nothing, valid |-> FALSE]

\* What the window should display: candidates_ and preeditForCandidateWindow().
Current(v) == <<v.cands, ~inline /\ v.preedit>>

SetPreedit(v, p) ==
    [v EXCEPT !.preedit = p,
              !.shown = IF v.window = "none" THEN @ ELSE <<@[1], ~inline /\ p>>]

\* The content remembered for the comparison is forgotten.
Invalidate(v) == [v EXCEPT !.cached = Nothing, !.valid = FALSE]

EnsureValid(v) ==
    IF v.window = "dead" THEN Invalidate([v EXCEPT !.window = "none", !.shown = Nothing])
                         ELSE v

CreateWindow(v) ==
    LET w == EnsureValid(v) IN
    IF w.window = "open" THEN w
    ELSE [w EXCEPT !.window = "open", !.shown = <<Empty, Current(w)[2]>>]

ShowCandidates(v) ==
    [(IF drawn THEN CreateWindow(v) ELSE v) EXCEPT !.showing = TRUE, !.recovery = FALSE]

Paint(v) == [v EXCEPT !.shown = Current(v), !.cached = Current(v), !.valid = TRUE]

\* The window is filled again only when its content has changed.
UpdateCandidates(v) ==
    LET w == CreateWindow(v) IN
    IF ~drawn THEN v ELSE IF w.valid /\ w.cached = Current(w) THEN w ELSE Paint(w)

UpdateCandidatesWindow(v) == IF drawn THEN EnsureValid(v) ELSE v

UpdateCandidatesWithoutSession(v) == IF drawn /\ v.window # "none" THEN Paint(v) ELSE v

\* Wrong: hideCandidates clears the window and keeps the content for the comparison.
HideCandidatesKeepsTheCache(v, preserve) ==
    LET w == IF drawn THEN [EnsureValid(v) EXCEPT !.shown = Nothing] ELSE v
    IN  [w EXCEPT !.showing = FALSE, !.recovery = preserve]

HideCandidates(v, preserve) ==
    LET w == IF drawn THEN Invalidate([EnsureValid(v) EXCEPT !.shown = Nothing]) ELSE v
    IN  [w EXCEPT !.showing = FALSE, !.recovery = preserve]

DestroyCandidateWindow(v) ==
    Invalidate([v EXCEPT !.window = "none", !.shown = Nothing, !.showing = FALSE,
                         !.recovery = FALSE, !.preedit = FALSE])

\* resetTypeDuckDegradedState, but for the composition, which needs an edit session.
ResetDegraded(v) ==
    Invalidate(HideCandidates([v EXCEPT !.cands = Empty, !.preedit = FALSE], FALSE))

StartComposition(v) == [v EXCEPT !.composing = TRUE]

\* updateCandidateList: candidates the engine does not ask to show are shown
\* when there is something to recover.
UpdateCandidateList(v, msg) ==
    LET visible == msg.cands # Empty
        restore == visible /\ ~msg.show /\ (v.recovery \/ v.showing \/ v.composing \/ v.preedit)
        w == [v EXCEPT !.cands = msg.cands]
        x == IF msg.show \/ restore THEN ShowCandidates(StartComposition(w)) ELSE w
        y == UpdateCandidates(x)
    IN  IF visible /\ (msg.show \/ restore) THEN y ELSE HideCandidates(y, FALSE)

UpdateCandidateListWithoutSession(v, msg) ==
    UpdateCandidatesWithoutSession([v EXCEPT !.cands = msg.cands])

UpdateComposition(v, msg) ==
    LET w == SetPreedit(v, msg.comp) IN
    IF msg.comp /\ ~inline THEN UpdateCandidates(ShowCandidates(StartComposition(w)))
    ELSE UpdateCandidatesWindow(IF msg.comp THEN StartComposition(w) ELSE w)

EndsComposition(v, msg) == ~msg.comp /\ v.composing /\ ~v.showing

-----------------------------------------------------------------------------
(* The calls under way.                                                    *)

\* Each method stands for those whose answer is treated alike: onKeyDown for
\* onKeyUp, filterKeyDown for a click on another page or candidate (changePage,
\* highlightCandidate), filterKeyUp for the commands, the menu, the compartments,
\* the settings and a preserved key without an edit session, and
\* onKeyboardStatusChanged for onCompartmentChanged of the keyboard's compartment.
InSession == {"onKeyDown", "onPreservedKey", "selectCandidate"}
\* handleRpcResponse is skipped when the call itself fails.
Checked == {"init", "filterKeyDown", "selectCandidate"}
Filters == {"filterKeyDown", "filterKeyUp"}
\* refreshAsyncPollTimer and flushPendingAsyncResponses follow the answer.
Refreshing == {"onKeyDown", "selectCandidate"}
Methods == InSession \cup Checked \cup Filters \cup
    {"onActivate", "onDeactivate", "onKeyboardStatusChanged", "onCompositionTerminated"}

Simple == {"poll", "flushed", "refresh", "terminate", "endTyping", "hide",
           "create", "activated", "release", "guarded", "keyboard"}
Calling == {"rpc", "connected", "send", "answer", "broken", "noAnswer"}
Updates == {"list", "bareList", "commit", "compose"}

Items == [op : Simple] \cup [op : Calling, method : Methods]
    \cup [op : {"flush", "pop"}, session : BOOLEAN]
    \cup [op : Updates, msg : Replies \cup Async]
    \cup [op : {"ended"}, reset : BOOLEAN]

Item(op) == [op |-> op]
Call(op, m) == [op |-> op, method |-> m]
Flush(s) == [op |-> "flush", session |-> s]
Pop(s) == [op |-> "pop", session |-> s]
Update(part, msg) == [op |-> part, msg |-> msg]

\* endComposition calls onCompositionTerminated(false) before it forgets the
\* composition; reset: it is the reset after a failure that ends it.
EndComposition(reset) == <<Item("terminate"), [op |-> "ended", reset |-> reset]>>

\* updateStatus: a response that commits and goes on composing is applied in
\* another order; without an edit session only candidates are applied.  The keyboard
\* comes last, with a session or without.
UpdateStatus(msg, s) ==
    LET commit == IF msg.commit THEN <<Update("commit", msg)>> ELSE <<>>
        list == <<Update("list", msg)>>
        compose == <<Update("compose", msg)>>
        bare == IF msg.cands # Empty THEN <<Update("bareList", msg)>> ELSE <<>>
        parts == IF ~s THEN bare
                 ELSE IF msg.commit /\ msg.comp THEN commit \o compose \o list
                 ELSE list \o commit \o compose
    IN  parts \o (IF msg.open THEN <<Item("keyboard")>> ELSE <<>>)

\* onCompartmentChanged of the keyboard that has been opened.
KeyboardChanged ==
    <<Call("rpc", "onKeyboardStatusChanged"), Call("rpc", "onKeyboardStatusChanged")>>

Idle == todo = <<>> /\ undefined = "no"
At(op) == todo # <<>> /\ Head(todo).op = op
Method == Head(todo).method
Do(items) == todo' = items \o Tail(todo)

Init ==
    /\ profile = FALSE /\ client = FALSE /\ active = FALSE
    /\ pipe = FALSE /\ wait = TRUE /\ degraded = FALSE /\ timer = FALSE
    /\ inbox = <<>> /\ queue = <<>> /\ flushing = FALSE /\ deferred = <<>>
    /\ view = NoView
    /\ \E h \in Hosts : inline = h[1] /\ drawn = h[2]
    /\ opened \in BOOLEAN
    /\ todo = <<>> /\ escaped = {} /\ undefined = "no"

-----------------------------------------------------------------------------
(* The connection.                                                         *)

\* closeRpcConnection; what lies unread in the pipe is lost with it.
CloseRpcConnection ==
    /\ pipe' = FALSE /\ timer' = FALSE
    /\ inbox' = <<>> /\ queue' = <<>>

\* Wrong: The reset suppresses the next notification whether or not it ends a composition.
FailAlwaysSuppresses(s, next) ==
    /\ degraded' = TRUE
    /\ CloseRpcConnection
    /\ view' = [ResetDegraded(view) EXCEPT !.suppress = TRUE]
    /\ Do((IF s /\ view.composing THEN EndComposition(TRUE) ELSE <<>>) \o next)
    /\ UNCHANGED <<life, wait, flushing, deferred, host, faults>>

\* Wrong: The reset ends the composition and the engine is told.
FailNotifies(s, next) ==
    /\ degraded' = TRUE
    /\ CloseRpcConnection
    /\ view' = ResetDegraded(view)
    /\ Do((IF s /\ view.composing THEN EndComposition(TRUE) ELSE <<>>) \o next)
    /\ UNCHANGED <<life, wait, flushing, deferred, host, faults>>

\* A failure: markRpcDegraded, closeRpcConnection, resetTypeDuckDegradedState.
\* The composition ends only in an edit session, and then without telling the
\* engine.
Fail(s, next) ==
    LET ends == s /\ view.composing IN
    /\ degraded' = TRUE
    /\ CloseRpcConnection
    /\ view' = [ResetDegraded(view) EXCEPT !.suppress = @ \/ ends]
    /\ Do((IF ends THEN EndComposition(TRUE) ELSE <<>>) \o next)
    /\ UNCHANGED <<life, wait, flushing, deferred, host, faults>>

\* callRpcMethod on an open pipe, or where no connection is to be awaited.
CallOpen ==
    /\ At("rpc")
    /\ pipe \/ ~wait \/ degraded
    /\ Do(IF pipe THEN <<Item("poll"), Call("send", Method)>> ELSE <<Call("noAnswer", Method)>>)
    /\ UNCHANGED <<life, link, messages, view, host, faults>>

\* waitForRpcConnection.
ConnectFails ==
    /\ At("rpc") /\ ~pipe /\ wait /\ ~degraded
    /\ degraded' = TRUE
    /\ view' = ResetDegraded(view)
    /\ Do(<<Call("noAnswer", Method)>>)
    /\ UNCHANGED <<life, pipe, wait, timer, messages, host, faults>>

Connect ==
    /\ At("rpc") /\ ~pipe /\ wait /\ ~degraded
    /\ pipe' = TRUE /\ wait' = FALSE
    /\ Do(<<Call("rpc", "init"), Call("connected", Method)>>)
    /\ UNCHANGED <<life, degraded, timer, messages, view, host, faults>>

\* Wrong: The early return after a failed init forgets shouldWaitConnection_.
ConnectedForgetsToWait ==
    /\ At("connected")
    /\ wait' = pipe
    /\ Do(IF pipe THEN <<Item("poll"), Call("send", Method)>> ELSE <<Call("noAnswer", Method)>>)
    /\ UNCHANGED <<life, pipe, degraded, timer, messages, view, host, faults>>

\* init and, for a text service that was active, onActivate have returned.  A
\* failure of either has closed the pipe, and done all that initFailed repeats.
Connected ==
    /\ At("connected")
    /\ wait' = TRUE
    /\ Do(IF pipe THEN <<Item("poll"), Call("send", Method)>> ELSE <<Call("noAnswer", Method)>>)
    /\ UNCHANGED <<life, pipe, degraded, timer, messages, view, host, faults>>

\* pollAsyncResponses: a frame that cannot be read.
PollMalformed ==
    /\ At("poll") /\ inbox # <<>>
    /\ Fail(FALSE, <<>>)

\* Wrong: A refused edit session leaves asyncFlushInProgress_ set.
PollQuietlyKeepsTheFlag ==
    /\ At("poll")
    /\ queue' = queue \o inbox
    /\ inbox' = <<>>
    /\ flushing' = (flushing \/ queue' # <<>>)
    /\ Do(<<>>)
    /\ UNCHANGED <<life, link, deferred, view, host, faults>>

\* Nothing to apply, a flush under way, no current context, or a session refused.
PollQuietly ==
    /\ At("poll")
    /\ queue' = queue \o inbox
    /\ inbox' = <<>>
    /\ Do(<<>>)
    /\ UNCHANGED <<life, link, flushing, deferred, view, host, faults>>

\* Wrong: A poll from within a flush starts another one.
PollAndFlushAgain ==
    /\ At("poll") /\ queue \o inbox # <<>>
    /\ queue' = queue \o inbox
    /\ inbox' = <<>>
    /\ flushing' = TRUE
    /\ Do(<<Flush(TRUE), Item("flushed")>>)
    /\ UNCHANGED <<life, link, deferred, view, host, faults>>

\* flushPendingAsyncResponsesWithCurrentContext: TSF grants the session at once ...
PollAndFlush ==
    /\ At("poll") /\ queue \o inbox # <<>> /\ ~flushing
    /\ queue' = queue \o inbox
    /\ inbox' = <<>>
    /\ flushing' = TRUE
    /\ Do(<<Flush(TRUE), Item("flushed")>>)
    /\ UNCHANGED <<life, link, deferred, view, host, faults>>

\* ... or later.
PollAndDefer ==
    /\ At("poll") /\ queue \o inbox # <<>> /\ ~flushing /\ Len(deferred) < MaxDeferred
    /\ queue' = queue \o inbox
    /\ inbox' = <<>>
    /\ flushing' = TRUE
    /\ deferred' = Append(deferred, "flush")
    /\ Do(<<>>)
    /\ UNCHANGED <<life, link, view, host, faults>>

Flushed ==
    /\ At("flushed")
    /\ flushing' = FALSE
    /\ Do(<<>>)
    /\ UNCHANGED <<life, link, inbox, queue, deferred, view, host, faults>>

\* Messages that answer nothing and come before the answer.
Early == {<<>>} \cup IF Len(queue) + Len(inbox) < MaxQueue THEN {<<m>> : m \in Async} ELSE {}

SendClosed ==
    /\ At("send") /\ ~pipe
    /\ Do(<<Call("noAnswer", Method)>>)
    /\ UNCHANGED <<life, link, messages, view, host, faults>>

\* TransactNamedPipe and the frames read up to the answer, whose content matters
\* only later.  An unread message in the pipe makes it fail.
SendAnswered ==
    /\ At("send") /\ pipe /\ inbox = <<>>
    /\ \E early \in Early : queue' = queue \o early
    /\ Do(<<Flush(FALSE), Call("answer", Method)>>)
    /\ UNCHANGED <<life, link, inbox, flushing, deferred, view, host, faults>>

SendFails ==
    /\ At("send") /\ pipe
    /\ \E early \in Early : (inbox = <<>> \/ early = <<>>) /\ queue' = queue \o early
    /\ Do(<<Flush(FALSE), Call("broken", Method)>>)
    /\ UNCHANGED <<life, link, inbox, flushing, deferred, view, host, faults>>

Broken == At("broken") /\ Fail(FALSE, <<Call("noAnswer", Method)>>)

-----------------------------------------------------------------------------
(* Responses.                                                              *)

\* What follows in the caller; a filter says whether the key is eaten.
AfterSuccess(m) ==
    IF m \in Refreshing THEN {<<Item("refresh"), Flush(TRUE)>>}
    ELSE IF m \in Filters THEN {<<>>, <<Call("rpc", "onKeyDown")>>}
    ELSE IF m = "init" /\ active THEN {<<Call("rpc", "onActivate")>>}
    ELSE {<<>>}

\* A printable key is eaten even then.
AfterFailure(m) ==
    {<<>>} \cup IF m = "filterKeyDown" THEN {<<Call("rpc", "onKeyDown")>>} ELSE {}

\* Wrong: Every answer is applied as in an edit session.
AnswerAlwaysInSession ==
    /\ At("answer")
    /\ \E r \in Replies, next \in AfterSuccess(Method)  :
          r.ok /\ ~r.throws /\ Do(UpdateStatus(r, TRUE) \o next)
    /\ UNCHANGED <<life, link, messages, view, host, faults>>

\* handleRpcResponse.
AnswerSucceeds ==
    /\ At("answer")
    /\ \E r \in Replies, next \in AfterSuccess(Method) :
          r.ok /\ ~r.throws /\ Do(UpdateStatus(r, Method \in InSession) \o next)
    /\ UNCHANGED <<life, link, messages, view, host, faults>>

AnswerFails ==
    /\ At("answer") /\ \E r \in Replies : ~r.ok
    /\ \E next \in AfterFailure(Method) : Fail(Method \in InSession, next)

NoAnswerUnchecked ==
    /\ At("noAnswer") /\ Method \notin Checked
    /\ Fail(Method \in InSession, <<>>)

NoAnswerChecked ==
    /\ At("noAnswer") /\ Method \in Checked
    /\ \E next \in AfterFailure(Method) : Do(next)
    /\ UNCHANGED <<life, link, messages, view, host, faults>>

\* flushPendingAsyncResponses applies a copy of the first and then pops it.
FlushDone ==
    /\ At("flush") /\ queue = <<>>
    /\ Do(<<>>)
    /\ UNCHANGED <<life, link, messages, view, host, faults>>

FlushApplies ==
    /\ At("flush") /\ queue # <<>> /\ Head(queue).ok /\ ~Head(queue).throws
    /\ LET s == Head(todo).session IN
       Do(UpdateStatus(Head(queue), s) \o <<Pop(s), Flush(s)>>)
    /\ UNCHANGED <<life, link, messages, view, host, faults>>

FlushFails ==
    /\ At("flush") /\ queue # <<>> /\ ~Head(queue).ok
    /\ Fail(Head(todo).session, <<>>)

\* Wrong: The message that was applied stays first in the queue.
PopFrontKeeps ==
    /\ At("pop") /\ queue # <<>>
    /\ Do(<<>>)
    /\ UNCHANGED <<life, link, messages, view, host, faults>>

PopFront ==
    /\ At("pop") /\ queue # <<>>
    /\ queue' = Tail(queue)
    /\ Do(<<>>)
    /\ UNCHANGED <<life, link, inbox, flushing, deferred, view, host, faults>>

\* pop_front on an empty deque: what was applied has emptied the queue.
PopEmpty ==
    /\ At("pop") /\ queue = <<>>
    /\ undefined' = IF Head(todo).session THEN "pop in a session" ELSE "pop without a session"
    /\ UNCHANGED <<life, link, messages, view, host, todo, escaped>>

\* The parts of updateStatus.
ApplyUpdate ==
    /\ \/ /\ At("list")
          /\ view' = UpdateCandidateList(view, Head(todo).msg)
          /\ Do(<<>>)
       \/ /\ At("bareList")
          /\ view' = UpdateCandidateListWithoutSession(view, Head(todo).msg)
          /\ Do(<<>>)
       \/ /\ At("commit")
          /\ view' = [UpdateCandidatesWindow(StartComposition(view))
                         EXCEPT !.suppress = @ \/ Head(todo).msg.comp]
          /\ Do(EndComposition(FALSE))
       \/ /\ At("compose")
          /\ view' = UpdateComposition(view, Head(todo).msg)
          /\ Do(IF EndsComposition(view, Head(todo).msg) THEN EndComposition(FALSE) ELSE <<>>)
    /\ UNCHANGED <<life, link, messages, host, faults>>

\* updateKeyboardStatus: the engine only ever opens the keyboard, and TSF reports the
\* change before setKeyboardOpen returns.
UpdateKeyboard ==
    /\ At("keyboard")
    /\ opened' = TRUE
    /\ Do(IF ~opened /\ client THEN KeyboardChanged ELSE <<>>)
    /\ UNCHANGED <<life, link, messages, view, inline, drawn, faults>>

\* onCompositionTerminated(false).
Terminate ==
    /\ At("terminate")
    /\ view' = [view EXCEPT !.suppress = FALSE]
    /\ Do(IF client /\ ~view.suppress THEN <<Call("rpc", "onCompositionTerminated")>> ELSE <<>>)
    /\ UNCHANGED <<life, link, messages, host, faults>>

Ended ==
    /\ At("ended")
    /\ view' = [view EXCEPT !.composing = FALSE]
    /\ Do(<<>>)
    /\ UNCHANGED <<life, link, messages, host, faults>>

\* refreshAsyncPollTimer.
Refresh ==
    /\ At("refresh")
    /\ timer' = (view.window = "open")
    /\ Do(<<>>)
    /\ UNCHANGED <<life, pipe, wait, degraded, messages, view, host, faults>>

-----------------------------------------------------------------------------
(* Exceptions.  handleRpcResponse and applyAsyncResponse catch none: one   *)
(* that updateStatus throws goes to the try of a callRpcMethod that is     *)
(* connecting, polling or flushing, or else out of every call, to a        *)
(* handler that is "guarded" or to the host, which survives.               *)

\* The calls whose callRpcMethod has not returned.
Trying == {"connected", "send", "answer", "broken"}

\* updateStatus throws before it has applied a part of the response.
Throwing ==
    \/ At("answer") /\ \E r \in Replies : r.ok /\ r.throws
    \/ At("flush") /\ queue # <<>> /\ Head(queue).ok /\ Head(queue).throws

\* The flags that calls among the first n would have reset on their return.
Passed(n) ==
    {flag \in {"handshake", "flush"} : \E i \in 2..n :
        IF flag = "flush" THEN todo[i] = Item("flushed") ELSE todo[i].op = "connected"}

CloseClient == IF client THEN <<Call("rpc", "onDeactivate"), Item("release")>> ELSE <<>>

\* The catch of callRpcMethod closes the connection and resets the text service; it
\* does not mark the connection degraded.  What lies between is abandoned: the lambda
\* of an edit session does not clear asyncFlushInProgress_, waitForRpcConnection
\* does not set shouldWaitConnection_.
CaughtInCall ==
    /\ Throwing
    /\ \E k \in 2..Len(todo) :
          /\ todo[k].op \in Trying /\ \A i \in 2..(k - 1) : todo[i].op \notin Trying
          /\ todo' = <<Call("noAnswer", todo[k].method)>> \o SubSeq(todo, k + 1, Len(todo))
          /\ escaped' = escaped \cup Passed(k)
    /\ CloseRpcConnection
    /\ view' = ResetDegraded(view)
    /\ UNCHANGED <<life, wait, degraded, flushing, deferred, host, undefined>>

\* The handlers of keys and the two that make a client close it.
CaughtAbove ==
    /\ Throwing
    /\ \A i \in 2..Len(todo) : todo[i].op \notin Trying
    /\ todo' = IF \E i \in 2..Len(todo) : todo[i] = Item("guarded") THEN CloseClient ELSE <<>>
    /\ escaped' = escaped \cup Passed(Len(todo))
    /\ UNCHANGED <<life, link, messages, view, host, undefined>>

Guarded ==
    /\ At("guarded")
    /\ Do(<<>>)
    /\ UNCHANGED <<life, link, messages, view, host, faults>>

-----------------------------------------------------------------------------
(* The client: made for a profile, released with its connection.           *)

Create ==
    /\ At("create")
    /\ client' = TRUE
    /\ Do(<<Call("rpc", "onActivate"), Item("activated"), Item("guarded")>>)
    /\ UNCHANGED <<profile, active, link, messages, view, host, faults>>

Activated ==
    /\ At("activated")
    /\ active' = TRUE
    /\ Do(<<>>)
    /\ UNCHANGED <<profile, client, link, messages, view, host, faults>>

\* The end of closeClient; the next client starts with the same values.  An edit
\* session that is still put off keeps its pointer to this one.
Release ==
    /\ At("release")
    /\ client' = FALSE /\ active' = FALSE
    /\ wait' = TRUE /\ degraded' = FALSE /\ flushing' = FALSE
    /\ CloseRpcConnection
    /\ deferred' = [i \in 1..Len(deferred) |-> "dangling"]
    /\ view' = DestroyCandidateWindow(view)
    /\ Do(<<>>)
    /\ escaped' = {}
    /\ UNCHANGED <<profile, host, undefined>>

-----------------------------------------------------------------------------
(* What the host, TSF and the engine begin while no call is under way.     *)

Begin(items) ==
    /\ Idle
    /\ todo' = items
    /\ UNCHANGED <<client, active, link, messages, host, faults>>

OnLangProfileActivated ==
    /\ Begin(CloseClient \o <<Item("create")>>)
    /\ profile' = TRUE
    /\ UNCHANGED view

\* Also that of another profile, which closes the client just the same.
OnLangProfileDeactivated ==
    /\ Begin(CloseClient)
    /\ profile' \in {FALSE, profile}
    /\ UNCHANGED view

OnDeactivate == client /\ Begin(CloseClient) /\ UNCHANGED <<profile, view>>

\* onActivate, onSetThreadFocus: ensureClientForCurrentProfile.
OnSetThreadFocus == ~client /\ profile /\ Begin(<<Item("create")>>) /\ UNCHANGED <<profile, view>>

FilterKeyDown ==
    /\ client \/ profile
    /\ Begin((IF client THEN <<>> ELSE <<Item("create")>>)
             \o <<Call("rpc", "filterKeyDown"), Item("guarded")>>)
    /\ UNCHANGED <<profile, view>>

FilterKeyUp ==
    /\ client
    /\ Begin(<<Call("rpc", "filterKeyUp"), Item("guarded")>>)
    /\ UNCHANGED <<profile, view>>

\* A click, a preserved key with its session, and what filterKeyUp stands for.
OtherCall ==
    /\ client
    /\ \E m \in {"filterKeyDown", "filterKeyUp", "onPreservedKey"} : Begin(<<Call("rpc", m)>>)
    /\ UNCHANGED <<profile, view>>

\* A click on a candidate: the call is made in an edit session.
SelectCandidate == client /\ Begin(<<Call("rpc", "selectCandidate")>>) /\ UNCHANGED <<profile, view>>

SelectCandidateLater ==
    /\ client /\ Idle /\ Len(deferred) < MaxDeferred
    /\ deferred' = Append(deferred, "select")
    /\ UNCHANGED <<life, link, inbox, queue, flushing, view, host, todo, faults>>

\* TSF grants the first session it has put off.
RunDeferred ==
    /\ Idle /\ deferred # <<>>
    /\ deferred' = Tail(deferred)
    /\ \/ /\ Head(deferred) = "flush"
          /\ todo' = <<Flush(TRUE), Item("flushed")>>
          /\ UNCHANGED undefined
       \/ /\ Head(deferred) = "select"
          /\ todo' = <<Call("rpc", "selectCandidate")>>
          /\ UNCHANGED undefined
       \/ /\ Head(deferred) = "dangling"
          /\ undefined' = "freed client"
          /\ UNCHANGED todo
    /\ UNCHANGED <<life, link, inbox, queue, flushing, view, host, escaped>>

OnAsyncPollTimer == client /\ timer /\ pipe /\ Begin(<<Item("poll")>>) /\ UNCHANGED <<profile, view>>

\* The user or the host opens or closes the keyboard.
OnKeyboardStatusChanged ==
    /\ Idle
    /\ opened' = ~opened
    /\ LET call == IF client THEN <<Call("rpc", "onKeyboardStatusChanged")>> ELSE <<>>
           close == IF opened THEN <<Item("endTyping"), Item("hide")>> ELSE <<>>
       IN  todo' = call \o close \o call
    /\ UNCHANGED <<life, link, messages, view, inline, drawn, faults>>

\* The keyboard is closed; without a current context the composition stays.
EndTyping ==
    /\ At("endTyping")
    /\ \/ Do(<<>>)
       \/ view.composing /\ Do(EndComposition(FALSE))
    /\ UNCHANGED <<life, link, messages, view, host, faults>>

Hide ==
    /\ At("hide")
    /\ view' = IF view.showing THEN HideCandidates(view, FALSE) ELSE view
    /\ Do(<<>>)
    /\ UNCHANGED <<life, link, messages, host, faults>>

\* onCompositionTerminated(true): another window takes the focus, or the like.
OnCompositionTerminated ==
    /\ view.composing
    /\ Begin((IF client THEN <<Call("rpc", "onCompositionTerminated")>> ELSE <<>>)
             \o <<[op |-> "ended", reset |-> FALSE]>>)
    /\ view' = IF view.showing THEN HideCandidates(view, TRUE) ELSE view
    /\ UNCHANGED profile

\* The owner of the candidate window is destroyed, and the window and its timer.
WindowDies ==
    /\ Idle /\ view.window = "open"
    /\ view' = [view EXCEPT !.window = "dead"]
    /\ timer' = FALSE
    /\ UNCHANGED <<life, pipe, wait, degraded, messages, host, todo, faults>>

\* The engine sends a message that answers nothing.
Arrive ==
    /\ undefined = "no" /\ pipe
    /\ \E early \in Early \ {<<>>} : inbox' = inbox \o early
    /\ UNCHANGED <<life, link, queue, flushing, deferred, view, host, todo, faults>>

\* TYPEDUCK_DEGRADED_RETRY_DELAY_MS have passed.
RetryDelayPasses ==
    /\ undefined = "no" /\ degraded
    /\ degraded' = FALSE
    /\ UNCHANGED <<life, pipe, wait, timer, messages, view, host, todo, faults>>

-----------------------------------------------------------------------------
Step ==
    /\ undefined = "no"
    /\ \/ CallOpen \/ ConnectFails \/ Connect \/ Connected
       \/ PollMalformed \/ PollQuietly \/ PollAndFlush \/ PollAndDefer \/ Flushed
       \/ SendClosed \/ SendAnswered \/ SendFails \/ Broken
       \/ AnswerSucceeds \/ AnswerFails \/ NoAnswerUnchecked \/ NoAnswerChecked
       \/ FlushDone \/ FlushApplies \/ FlushFails \/ PopFront \/ PopEmpty
       \/ ApplyUpdate \/ UpdateKeyboard \/ Terminate \/ Ended \/ Refresh
       \/ CaughtInCall \/ CaughtAbove \/ Guarded
       \/ Create \/ Activated \/ Release \/ EndTyping \/ Hide

Event ==
    \/ OnLangProfileActivated \/ OnLangProfileDeactivated \/ OnDeactivate
    \/ OnSetThreadFocus \/ FilterKeyDown \/ FilterKeyUp \/ OtherCall
    \/ SelectCandidate \/ SelectCandidateLater \/ RunDeferred
    \/ OnAsyncPollTimer \/ OnKeyboardStatusChanged \/ OnCompositionTerminated
    \/ WindowDies \/ Arrive \/ RetryDelayPasses

Next == Step \/ Event

Spec == Init /\ [][Next]_vars

-----------------------------------------------------------------------------
TypeOK ==
    /\ profile \in BOOLEAN /\ client \in BOOLEAN /\ active \in BOOLEAN
    /\ pipe \in BOOLEAN /\ wait \in BOOLEAN /\ degraded \in BOOLEAN /\ timer \in BOOLEAN
    /\ inbox \in Seq(Async) /\ queue \in Seq(Async) /\ flushing \in BOOLEAN
    /\ deferred \in Seq({"flush", "select", "dangling"})
    /\ view \in View /\ inline \in BOOLEAN /\ drawn \in BOOLEAN /\ opened \in BOOLEAN
    /\ todo \in Seq(Items) /\ escaped \subseteq {"handshake", "flush"}
    /\ undefined \in {"no", "pop in a session", "pop without a session", "freed client"}

\* While the popup is up it displays the candidates and the preedit the text
\* service holds: the comparison that saves a repaint is never made with content
\* the window has lost (hideCandidates, a window destroyed with its owner, the
\* reset after a failure).
ShownIsCurrent == view.window = "open" /\ view.showing => view.shown = Current(view)

\* asyncFlushInProgress_ is set only while a flush is under way or put off for
\* this client: a refused session or a failure in the flush never leaves it set,
\* which would keep every later message in the queue.  Only an exception out of the
\* lambda of the edit session does, and then until the client is released.
FlushFlagIsOwned ==
    flushing => \/ \E i \in 1..Len(todo) : todo[i] = Item("flushed")
                \/ \E i \in 1..Len(deferred) : deferred[i] = "flush"
                \/ "flush" \in escaped

\* The next end of a composition is kept from the engine only where the code ends
\* it at once: no later termination by the user or the host goes unreported.
SuppressedOnlyOnce == view.suppress => At("terminate")

\* The calls that follow a change of the keyboard.
KeyboardCalls == [op : Calling, method : {"onKeyboardStatusChanged"}]

\* The engine is not called from the middle of a reset.  A flush without an edit
\* session calls it only where a message opens the keyboard; but for that such a
\* flush pops the message it has applied.
QuietWhereItMustBe ==
    /\ \A j \in 1..Len(todo) :
          /\ todo[j] = [op |-> "ended", reset |-> TRUE] =>
                \A i \in 1..(j - 1) : todo[i].op \notin Calling
          /\ todo[j] = Pop(FALSE) =>
                \A i \in 1..(j - 1) : todo[i].op \in Calling =>
                    \E k \in i..(j - 1) : todo[k] \in KeyboardCalls
    /\ undefined = "pop without a session" => opened

\* Ends of a composition that wait for one another: the flag and the suppressed
\* notification keep the recursion of flush, end, call and flush bounded.
EndsAreNotNested == Cardinality({i \in 1..Len(todo) : todo[i].op = "ended"}) <= 2

\* Calls that may be made while a composition ends: by onCompositionTerminated,
\* by the connection, by a poll and by the keyboard; no edit session applies their
\* answers.
Beneath == {"onCompositionTerminated", "init", "onActivate", "onKeyboardStatusChanged"}
Inner == {Item(op) : op \in {"terminate", "keyboard", "poll", "flushed"}}
    \cup {Flush(FALSE), Pop(FALSE)}
    \cup [op : Calling, method : Beneath]
    \cup [op : {"bareList"}, msg : Replies \cup Async]

\* What may be under way in a flush that holds the flag: its responses, too.
InFlush == Inner \cup {Flush(TRUE), Pop(TRUE)}
    \cup [op : Updates, msg : Replies \cup Async] \cup [op : {"ended"}, reset : BOOLEAN]

\* What is applied in an edit session before a composition under way has ended is
\* applied by the flush that holds the flag.
EndsApart ==
    \A j \in 1..Len(todo) : todo[j].op = "ended" =>
        \A i \in 1..(j - 1) :
            \/ todo[i] \in Inner
            \/ \E k \in (i + 1)..(j - 1) : todo[k] = Item("flushed")

\* The flag is held once, and nothing in the flush can take it away: no client is
\* made or released there, and no call of the host begins.
FlagHeldOnce ==
    /\ \A j \in 1..Len(todo) : todo[j] = Item("flushed") =>
          \A i \in 1..(j - 1) : todo[i] \in InFlush \ {Item("flushed")}
    /\ (\E i \in 1..Len(todo) : todo[i] = Item("flushed")) =>
          flushing /\ \A i \in 1..Len(deferred) : deferred[i] # "flush"
    /\ \A i, j \in 1..Len(deferred) :
          deferred[i] = "flush" /\ deferred[j] = "flush" => flushing /\ i = j

\* The end made by a reset comes after nothing but its own terminate, which is
\* silent; the pop without a session after nothing but what it applies and, once the
\* keyboard is open, what opening it calls.
QuietComesFirst ==
    \A j \in 1..Len(todo) :
        /\ todo[j] = [op |-> "ended", reset |-> TRUE] =>
              j = 1 \/ (j = 2 /\ At("terminate") /\ view.suppress)
        /\ todo[j] = Pop(FALSE) =>
              /\ opened \/ queue # <<>>
              /\ \A i \in 1..(j - 1) :
                    \/ todo[i].op \in {"bareList", "keyboard"}
                    \/ opened /\ \E k \in i..(j - 1) : todo[k] \in KeyboardCalls

\* How calls may be under way within one another, whatever the engine answers to
\* each: what bounds the recursion and keeps resets and sessionless flushes quiet.
CallsAreNested ==
    /\ TypeOK /\ EndsApart /\ FlagHeldOnce /\ QuietComesFirst
    /\ undefined = "pop without a session" => opened

\* However init and onActivate answer, the next call may connect again; only an
\* exception out of the handshake leaves shouldWaitConnection_ cleared.
HandshakeReleasesTheFlag ==
    wait \/ (\E i \in 1..Len(todo) : todo[i].op = "connected") \/ "handshake" \in escaped

\* Every call of the host, the timer and TSF returns, however the engine, the pipe
\* and TSF answer.
HandlerEnds == []<>(todo = <<>> \/ undefined # "no")

\* The user pauses now and then for longer than the retry delay, and types after
\* the pause; a launcher that runs is found in the end.
LiveSpec ==
    /\ Spec
    /\ WF_vars(Step)
    /\ SF_vars(Idle /\ RetryDelayPasses)
    /\ SF_vars(~degraded /\ FilterKeyDown)
    /\ SF_vars(Connect)

\* A text service that has lost its connection finds the launcher again, unless an
\* exception has gone out of its handshake.
Reconnects == []<>(client => pipe \/ undefined # "no" \/ "handshake" \in escaped)

\* A failed or malformed response closes the pipe and allows a later reconnect.
LaterReconnectAllowed == Idle /\ client /\ ~pipe => wait

\* After a failure nothing of the typing state is left: no composition, no
\* candidates, no preedit.
FailureClearsTypingState ==
    Idle /\ client /\ degraded /\ ~pipe => ~view.composing /\ ~view.showing /\ ~view.preedit

=============================================================================
