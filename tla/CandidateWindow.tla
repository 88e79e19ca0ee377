-------------------------- MODULE CandidateWindow --------------------------
(***************************************************************************)
(* The candidate popup of a text service: where it is placed, the layout   *)
(* it has there, and the clicks on it.  The text service fills it in edit  *)
(* sessions, which know the caret, and without one, after a click on       *)
(* another page; three members, the anchor, the DPI and the monitor of the *)
(* layout, have to follow the popup from monitor to monitor although each  *)
(* handler renews only some of them, and a press and its release have      *)
(* handlers between them that fill the popup again.                        *)
(***************************************************************************)
EXTENDS Integers, Sequences, FiniteSetsExt

CONSTANTS
    Monitors,  \* the displays
    Primary,   \* the one of a window without a place
    Scale,     \* the DPI of each, in units of 96
    WorkArea,  \* the width of each work area, in pixels
    Pages,     \* the engine's pages: the text widths of their candidates at 96 DPI
    Preedits,  \* the widths of the preedit the popup may be given; 0: none
    SelKey,    \* the width of a selection key at 96 DPI
    Cursors,   \* the cursors the engine names, in the page or past it; 0: none
    Owners,    \* the monitors of the window that owns the popup; None: not found
    None

ASSUME MonitorsAssumption ==
    /\ Primary \in Monitors /\ None \notin Monitors
    /\ Scale \in [Monitors -> Nat \ {0}] /\ WorkArea \in [Monitors -> Nat]
    /\ Owners \subseteq Monitors \cup {None}
ASSUME ContentAssumption ==
    /\ Pages \in Seq(Seq(Nat)) /\ Preedits \subseteq Nat /\ 0 \in Preedits /\ SelKey \in Nat
    /\ Cursors \subseteq Nat /\ None \notin Nat /\ None \notin Nat \X Nat

VARIABLES
    win,   \* the popup, with what the text service holds for it
    held   \* the gesture that began on the popup: "sel", "nav", "drag", "lost" or "none"

vars == <<win, held>>

-----------------------------------------------------------------------------
(* The layout: widths only, the popup has one row.                         *)

PanelPaddingX == 6
BorderWidth == 1
CandidateLabelGap == 6
CandidateCellGap == 4
CandidateCellPadX == 6
CandidateCellMaxTextWidth == 168
CandidateCellMinTextWidth == 24
PageNavWidth == 40
CandidateMinWidth == 64
PreeditTextWidthPadding == 28

PageNos == 0..Len(Pages)   \* 0: no candidates
List(p) == IF p = 0 THEN <<>> ELSE Pages[p]

LesserOf(a, b) == IF a < b THEN a ELSE b
GreaterOf(a, b) == IF a > b THEN a ELSE b

Total(widths) ==
    LET sum[i \in 0..Len(widths)] == IF i = 0 THEN 0 ELSE sum[i - 1] + widths[i]
    IN  sum[Len(widths)]

Cap(widths, c) == [i \in 1..Len(widths) |-> LesserOf(widths[i], c)]

Frame(s) == 2 * (PanelPaddingX + BorderWidth) * s
Fixed(s) == (SelKey + CandidateLabelGap + 2 * CandidateCellPadX) * s
Gaps(s, n) == IF n = 0 THEN 0 ELSE (n - 1) * CandidateCellGap * s
Navigation(s, n) == IF n = 0 THEN 0 ELSE (CandidateCellGap + PageNavWidth) * s

\* Wrong: The room for the page buttons is not subtracted.
AvailableWithoutNavigation(s, n, work) == work - Frame(s) - n * Fixed(s) - Gaps(s, n)

Available(s, n, work) == work - Frame(s) - Navigation(s, n) - n * Fixed(s) - Gaps(s, n)

\* The widest cap for the texts of all cells with which they fit, if there is one.
TextWidths(texts, s, work) ==
    LET room == Available(s, Len(texts), work)
        least == CandidateCellMinTextWidth * s
        most == CandidateCellMaxTextWidth * s
        capped == Cap([i \in 1..Len(texts) |-> texts[i] * s], most)
    IN  IF Total(capped) <= room THEN capped
        ELSE Cap(capped, Max({c \in (least + 1)..most : Total(Cap(capped, c)) <= room} \cup {least}))

Layout(texts, preedit, s, work) ==
    LET n == Len(texts)
        cells == [i \in 1..n |-> Fixed(s) + TextWidths(texts, s, work)[i]]
        row == Total(cells) + Gaps(s, n) + Navigation(s, n)
        room == work - Frame(s)
        wanted == IF preedit = 0 THEN 0 ELSE (preedit + PreeditTextWidthPadding) * s
        strip == IF room > 0 THEN LesserOf(wanted, room) ELSE wanted
        content == GreaterOf(GreaterOf(row, strip), CandidateMinWidth * s)
    IN  [scale |-> s, cells |-> cells, panel |-> content + Frame(s)]

Scales == {Scale[m] : m \in Monitors}

\* Every layout the popup can have.
Layouts == [k \in PageNos \X Preedits \X Scales \X Monitors |->
               Layout(List(k[1]), k[2], k[3], WorkArea[k[4]])]

-----------------------------------------------------------------------------
(* The popup.  What the text service holds for it: list, the page; text, the *)
(* preedit it is to show; showing; applied, what it filled it with; cursor,  *)
(* the one it applied.  What the popup holds: items, preedit, sel, anchor,   *)
(* dpi; laid, what its layout was made of; laidFor, the monitor it was made  *)
(* for; capture, pressedSel, pressedNav, dragging.  And placed, the monitor  *)
(* it was last put on.                                                       *)

\* What may be wrong with the popup since it was last in order (history):
\*   bare    it was filled without an edit session, where it is not put in place
\*   orphan  no owner window was found, and the DPI not looked at
Excuses == {"bare", "orphan"}

Popups ==
    [open : BOOLEAN, shown : BOOLEAN, showing : BOOLEAN, list : PageNos, text : Preedits,
     applied : {None} \cup (PageNos \X Preedits), cursor : Cursors \cup {0}, items : PageNos,
     preedit : Preedits, sel : Nat \ {0}, anchor : Monitors \cup {None}, dpi : Scales \cup {1},
     laid : {None} \cup (PageNos \X Preedits \X (Scales \cup {1}) \X Monitors),
     laidFor : Monitors \cup {None}, placed : Monitors \cup {None}, capture : BOOLEAN,
     pressedSel : Nat, pressedNav : {"none", "prev", "next"}, dragging : BOOLEAN,
     excuses : SUBSET Excuses]

Closed(list) ==
    [open |-> FALSE, shown |-> FALSE, showing |-> FALSE, list |-> list, text |-> 0,
     applied |-> None, cursor |-> 0, items |-> 0, preedit |-> 0, sel |-> 1,
     anchor |-> None, dpi |-> 1, laid |-> None, laidFor |-> None, placed |-> None,
     capture |-> FALSE, pressedSel |-> 0, pressedNav |-> "none", dragging |-> FALSE,
     excuses |-> {}]

Init == win = Closed(0) /\ held = "none"

\* What a handler meets: the monitor of the caret, or of the fallback where that is
\* not known, and the monitor of the owner.
Env == [mon : Monitors, owner : Owners]

OwnerMonitor(env) == IF env.owner = None THEN Primary ELSE env.owner
LayoutMonitor(w, env) == IF w.anchor # None THEN w.anchor ELSE OwnerMonitor(env)

\* What a layout for monitor m is made of.
LayoutOf(w, m) ==
    IF w.items = 0 /\ w.preedit = 0 THEN None ELSE <<w.items, w.preedit, w.dpi, m>>

RecalculateSize(w, env) ==
    [w EXCEPT !.laid = LayoutOf(w, LayoutMonitor(w, env)), !.laidFor = LayoutMonitor(w, env)]

SetPreeditText(w, preedit, env) ==
    IF w.preedit = preedit THEN w ELSE RecalculateSize([w EXCEPT !.preedit = preedit], env)

SetAnchorRect(w, env) == [w EXCEPT !.anchor = env.mon]

\* The DPI is that of the monitor the popup is anchored to.
SyncOwner(w, env) ==
    LET s == Scale[LayoutMonitor(w, env)]
        x == [w EXCEPT !.dpi = s, !.excuses = @ \ {"orphan"}]
    IN  IF env.owner = None THEN [w EXCEPT !.excuses = @ \cup {"orphan"}]
        ELSE IF w.dpi = s THEN x ELSE RecalculateSize(x, env)

\* Wrong: The layout follows a change of the DPI only.
RelayoutNever(w, env) == w

RelayoutForAnchorMonitor(w, env) ==
    IF LayoutMonitor(w, env) = w.laidFor THEN w ELSE RecalculateSize(w, env)

MoveToInputRect(w, env) == [w EXCEPT !.placed = env.mon, !.excuses = @ \ {"bare"}]

\* Wrong: A press is forgotten when the popup is filled again, mouse captured or not.
ClearForgetsThePress(w) == [w EXCEPT !.items = 0, !.laid = None, !.pressedSel = 0]

Clear(w) ==
    [w EXCEPT !.items = 0, !.laid = None, !.pressedSel = IF w.capture THEN @ ELSE 0]

Invalidate(w) == [w EXCEPT !.applied = None, !.cursor = 0]

\* The popup is filled with what the text service holds.  The display preferences,
\* set while it is empty, have it laid out once more.
Fill(w, env) ==
    LET emptied == SetPreeditText(RecalculateSize(Clear(w), env), w.text, env)
        filled == RecalculateSize([emptied EXCEPT !.items = w.list], env)
    IN  [filled EXCEPT !.applied = <<w.list, w.text>>, !.cursor = 0]

CreateCandidateWindow(w, env) ==
    IF w.open THEN w
    ELSE LET made == [w EXCEPT !.open = TRUE, !.dpi = Scale[OwnerMonitor(env)]]
         IN  SetPreeditText(RecalculateSize(made, env), w.text, env)

ShowCandidates(w, env) ==
    [SyncOwner(CreateCandidateWindow(w, env), env) EXCEPT !.showing = TRUE]

UpdateCandidates(w, env) ==
    LET synced == SyncOwner(SetAnchorRect(CreateCandidateWindow(w, env), env), env)
        filled == IF synced.applied = <<w.list, w.text>> THEN synced ELSE Fill(synced, env)
        moved == MoveToInputRect(RelayoutForAnchorMonitor(filled, env), env)
    IN  [moved EXCEPT !.shown = @ \/ w.showing]

UpdateCandidatesWindow(w, env) ==
    IF ~w.open THEN w
    ELSE LET synced == SyncOwner(SetAnchorRect(w, env), env)
         IN  MoveToInputRect(RelayoutForAnchorMonitor(synced, env), env)

\* Wrong: The popup is filled although there is none.
FillUnopened(w, env) ==
    [Fill(SetAnchorRect(Invalidate(w), env), env)
        EXCEPT !.shown = @ \/ w.showing, !.excuses = @ \cup {"bare"}]

\* Anchored to the fallback, but neither its owner nor its place are looked at.
UpdateCandidatesWithoutSession(w, env) ==
    IF ~w.open THEN w
    ELSE [Fill(SetAnchorRect(Invalidate(w), env), env)
             EXCEPT !.shown = @ \/ w.showing, !.excuses = @ \cup {"bare"}]

\* Wrong: What a hidden popup was filled with counts as applied when it is shown again.
HideKeepsTheCache(w, env) ==
    LET hidden == IF w.open THEN Clear([SetPreeditText(w, 0, env) EXCEPT !.shown = FALSE]) ELSE w
    IN  [hidden EXCEPT !.showing = FALSE]

HideCandidates(w, env) ==
    LET hidden == IF w.open THEN Clear([SetPreeditText(w, 0, env) EXCEPT !.shown = FALSE]) ELSE w
    IN  [Invalidate(hidden) EXCEPT !.showing = FALSE]

\* resetTypeDuckDegradedState: an engine failed.
Degraded(w, env) == HideCandidates([w EXCEPT !.list = 0, !.text = 0], env)

\* setCandidateCursor and setCurrentSel.
SetCandidateCursor(w, c) ==
    IF c = 0 \/ ~w.open \/ w.cursor = c THEN w
    ELSE [w EXCEPT !.cursor = c,
                   !.sel = IF c > Len(List(w.items)) THEN 1 ELSE c]

-----------------------------------------------------------------------------
(* A response of the engine.                                               *)

\* list: the page, 0 for an empty one, None for none.  show: showCandidates, and "yes"
\* too where a page comes while a composition is open that the popup knows nothing of:
\* the code does the same then.  commits: text is committed as well.
Replies ==
    {r \in [list : PageNos \cup {None}, show : {"yes", "no", "absent"},
            cursor : Cursors, text : Preedits \cup {None}, commits : BOOLEAN] :
        r.commits => r.text \notin {0, None}}

UpdateCandidateList(w, r, env) ==
    LET given == r.list # None
        visible == given /\ r.list # 0
        restore == visible /\ (w.showing \/ w.text # 0)
        hide == \/ given /\ ~visible
                \/ r.show = "no" /\ ~restore
        shown == IF r.show = "yes" \/ restore THEN ShowCandidates(w, env) ELSE w
        filled == IF given THEN UpdateCandidates([shown EXCEPT !.list = r.list], env) ELSE shown
    IN  SetCandidateCursor(IF hide THEN HideCandidates(filled, env) ELSE filled, r.cursor)

UpdateComposition(w, r, env) ==
    LET x == [w EXCEPT !.text = r.text]
        y == IF w.open /\ w.text # r.text THEN SetPreeditText(x, r.text, env) ELSE x
    IN  IF r.text = None THEN w
        ELSE IF r.text # 0 THEN UpdateCandidates(ShowCandidates(y, env), env)
        ELSE UpdateCandidatesWindow(y, env)

\* updateStatus in an edit session.
Answered(w, r, env) ==
    IF r.commits THEN UpdateCandidateList(UpdateComposition(w, r, env), r, env)
    ELSE UpdateComposition(UpdateCandidateList(w, r, env), r, env)

\* updateStatus without a session.
AnsweredBare(w, page, c, env) ==
    IF page = 0 THEN w
    ELSE SetCandidateCursor(UpdateCandidatesWithoutSession([w EXCEPT !.list = page], env), c)

\* A response to a key, or one that was queued and is flushed in an edit session.  The
\* session of a clicked candidate is such a one too, granted at once or postponed.
Respond ==
    /\ \E r \in Replies, env \in Env : win' = Answered(win, r, env)
    /\ UNCHANGED held

\* What a response without a session makes of the popup.
Bare(w) == {AnsweredBare(w, page, c, env) : page \in PageNos, c \in Cursors, env \in Env}

\* An unsolicited response that no edit session is granted for.
RespondBare ==
    /\ win' \in Bare(win)
    /\ UNCHANGED held

Fail ==
    /\ \E env \in Env : win' = Degraded(win, env)
    /\ UNCHANGED held

\* onLayoutChange: the caret, or the window, has moved.
OnLayoutChange ==
    /\ win.open
    /\ \E env \in Env : win' = UpdateCandidatesWindow(win, env)
    /\ UNCHANGED held

DestroyCandidateWindow ==
    /\ win.open
    /\ win' = Closed(win.list)
    /\ held' = "none"

-----------------------------------------------------------------------------
(* The mouse.                                                              *)

IsPageNavigationEnabled(w, nav) ==
    IF nav = "next" THEN w.list # 0 /\ w.list < Len(Pages) ELSE w.list > 1

\* What may be under the pointer: a page button, a candidate or neither.  Candidates
\* that were not laid out lie on one another.
Targets(w) ==
    LET navs == {nav \in {"prev", "next"} : w.laid # None /\ IsPageNavigationEnabled(w, nav)}
        cells == IF w.laid = None THEN {1} ELSE 1..Len(List(w.items))
    IN  {[nav |-> "none", cell |-> 0]} \cup
        (IF w.items = 0 THEN {} ELSE
            {[nav |-> nav, cell |-> 0] : nav \in navs} \cup {[nav |-> "none", cell |-> i] : i \in cells})

OnLButtonDown ==
    /\ win.shown /\ held \in {"none", "lost"}
    /\ \E t \in Targets(win) :
          /\ win' = [win EXCEPT !.pressedNav = t.nav, !.pressedSel = t.cell, !.capture = TRUE,
                                !.dragging = t.nav = "none" /\ t.cell = 0]
          /\ held' = IF t.nav # "none" THEN "nav" ELSE IF t.cell # 0 THEN "sel" ELSE "drag"

Released(w) == [w EXCEPT !.pressedSel = 0, !.pressedNav = "none"]

\* changeCandidatePage: the call fails before it says anything, the engine fails, or
\* the new page is applied without a session.
PagesChanged(w) == {w} \cup {Degraded(w, env) : env \in Env} \cup Bare(w)

\* A click on a candidate asks for an edit session, and Respond is what comes of it.
OnLButtonUp ==
    /\ win.capture \/ win.shown
    /\ \E t \in Targets(win) :
          LET w == [win EXCEPT !.capture = FALSE] IN
          IF win.dragging THEN win' = [w EXCEPT !.dragging = FALSE]
          ELSE IF win.pressedNav # "none" /\ t.nav = win.pressedNav
          THEN win' \in {Released(x) : x \in PagesChanged([w EXCEPT !.pressedNav = "none"])}
          ELSE win' = Released(w)
    /\ held' = "none"

OnMouseLeave ==
    /\ win.open
    /\ win' = [win EXCEPT !.pressedNav = "none"]
    /\ UNCHANGED held

OnMouseWheel ==
    /\ win.shown
    /\ win' \in PagesChanged(win)
    /\ UNCHANGED held

\* Another window takes the mouse capture; the popup does not hear of it.
LoseCapture ==
    /\ win.capture
    /\ win' = [win EXCEPT !.capture = FALSE]
    /\ held' = "lost"

Next ==
    \/ Respond \/ RespondBare \/ Fail
    \/ OnLayoutChange \/ DestroyCandidateWindow
    \/ OnLButtonDown \/ OnLButtonUp \/ OnMouseLeave \/ OnMouseWheel \/ LoseCapture

Spec == Init /\ [][Next]_vars

-----------------------------------------------------------------------------
(* Properties.                                                             *)

\* Every member has a value it may have, and a popup that was not created, or was
\* destroyed, holds nothing.
TypeOK ==
    /\ win \in Popups
    /\ held \in {"sel", "nav", "drag", "lost", "none"}
    /\ ~win.open =>
           /\ ~win.shown /\ ~win.showing /\ win.applied = None
           /\ win.items = 0 /\ win.preedit = 0 /\ win.laid = None

\* A popup that is shown was laid out for the monitor it stands on, with the DPI and
\* the width of that monitor, whichever of its handlers put it there: unless it was
\* last filled without a session, or its owner could not be found.
SizedForItsMonitor ==
    win.shown /\ win.excuses = {} =>
        /\ win.laidFor = win.placed
        /\ win.dpi = Scale[win.placed]
        /\ win.laid = LayoutOf(win, win.placed)

\* A layout is no wider than the work area it was made for, unless every text is cut
\* to the least there is, and its cells end before the page buttons begin.
LayoutIsSound ==
    win.laid # None =>
        LET l == Layouts[win.laid]
            n == Len(l.cells)
        IN  /\ \/ l.panel <= WorkArea[win.laid[4]]
               \/ \A i \in 1..n : l.cells[i] <= Fixed(l.scale) + CandidateCellMinTextWidth * l.scale
            /\ n > 0 => Total(l.cells) + Gaps(l.scale, n) + PageNavWidth * l.scale + Frame(l.scale)
                            <= l.panel

\* What a shown popup shows is what the text service holds: its page, its preedit and,
\* where the page has it, the candidate the engine's cursor named last.  A popup is
\* filled again only if what was applied to it is not that already.
ShowsWhatIsHeld ==
    win.shown =>
        /\ win.items = win.list
        /\ win.preedit = win.text
        /\ win.cursor \in 1..Len(List(win.items)) => win.sel = win.cursor

\* A press on a candidate is remembered for as long as the gesture lasts, and no
\* longer, whatever fills the popup, or empties it, before the button is released; one
\* on a page button no longer than that, since OnMouseLeave may drop it before.  Unless
\* another window took the capture, of which the popup is not told.
GestureIsTracked ==
    /\ held = "sel" => win.pressedSel # 0
    /\ win.pressedSel # 0 => held \in {"sel", "lost"}
    /\ win.pressedNav # "none" => held \in {"nav", "lost"}
    /\ win.dragging => held \in {"drag", "lost"}

=============================================================================
