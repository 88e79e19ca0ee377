----------------------- MODULE CandidateWindowProofs -----------------------
(***************************************************************************)
(* Theorems about CandidateWindow, for any monitors, pages, preedits and   *)
(* cursors: the types, the monitor the popup is sized for, what it shows,  *)
(* the gesture on it, and the widths of its layout.                        *)
(***************************************************************************)
EXTENDS CandidateWindow, WellFoundedInduction, TLAPS

USE DEF Excuses

-----------------------------------------------------------------------------
(* What the steps of the handlers keep.                                    *)

\* A press on the popup that x is made of is forgotten only without the capture.
SameGesture(x, w) ==
    /\ x.capture = w.capture /\ x.pressedNav = w.pressedNav /\ x.dragging = w.dragging
    /\ \/ x.pressedSel = w.pressedSel
       \/ x.pressedSel = 0 /\ ~w.capture

\* What a step that fills or lays out leaves alone.
SameService(x, w) ==
    /\ x.open = w.open /\ x.showing = w.showing /\ x.list = w.list /\ x.text = w.text

SameContent(x, w) ==
    /\ x.applied = w.applied /\ x.cursor = w.cursor /\ x.sel = w.sel /\ x.items = w.items

SamePlace(x, w) ==
    /\ x.shown = w.shown /\ x.anchor = w.anchor /\ x.placed = w.placed

\* The layout is that of what the popup holds, for the monitor it was made for.
InStep(w) == w.laid = LayoutOf(w, w.laidFor)

LEMMA NoPage == 0 \in PageNos /\ List(0) = <<>>
  BY ContentAssumption DEF PageNos, List

LEMMA PagesAreNumbers == PageNos \subseteq Nat /\ PageNos \X Preedits \subseteq Nat \X Nat
<1>1. PageNos \subseteq Nat
  BY ContentAssumption DEF PageNos
<1>2. Preedits \subseteq Nat
  BY ContentAssumption
<1> QED
  BY <1>1, <1>2

LEMMA ListsAreLists == \A p \in PageNos : Len(List(p)) \in Nat
  BY ContentAssumption DEF PageNos, List

LEMMA MembersAreTyped ==
    ASSUME NEW w \in Popups
    PROVE  /\ w.shown \in BOOLEAN /\ w.showing \in BOOLEAN /\ w.capture \in BOOLEAN
           /\ w.list \in PageNos /\ w.text \in Preedits /\ w.pressedSel \in Nat
           /\ w.preedit \in Preedits /\ w.excuses \subseteq Excuses
  BY DEF Popups

LEMMA ShownMayBeSet ==
    ASSUME NEW w \in Popups, NEW shown \in BOOLEAN
    PROVE  [w EXCEPT !.shown = shown] \in Popups
  BY DEF Popups

LEMMA ShowingMayBeSet ==
    ASSUME NEW w \in Popups, NEW showing \in BOOLEAN
    PROVE  [w EXCEPT !.showing = showing] \in Popups
  BY DEF Popups

LEMMA CaptureMayBeSet ==
    ASSUME NEW w \in Popups, NEW capture \in BOOLEAN
    PROVE  [w EXCEPT !.capture = capture] \in Popups
  BY DEF Popups

LEMMA MonitorsAreThere ==
    ASSUME NEW w \in Popups, NEW env \in Env
    PROVE  /\ LayoutMonitor(w, env) \in Monitors
           /\ Scale[LayoutMonitor(w, env)] \in Scales
           /\ w.anchor # None => LayoutMonitor(w, env) = w.anchor
  BY MonitorsAssumption DEF LayoutMonitor, OwnerMonitor, Env, Popups, Scales

LEMMA LayoutsAreTyped ==
    ASSUME NEW w \in Popups, NEW m \in Monitors
    PROVE  LayoutOf(w, m) \in {None} \cup (PageNos \X Preedits \X (Scales \cup {1}) \X Monitors)
  BY DEF LayoutOf, Popups

LEMMA RecalculateSizeSteps ==
    ASSUME NEW w \in Popups, NEW env \in Env
    PROVE  LET x == RecalculateSize(w, env)
           IN  /\ x \in Popups /\ InStep(x) /\ x.laidFor = LayoutMonitor(w, env)
               /\ SameGesture(x, w) /\ SameService(x, w) /\ SameContent(x, w) /\ SamePlace(x, w)
               /\ x.preedit = w.preedit /\ x.dpi = w.dpi /\ x.excuses = w.excuses
<1> DEFINE x == RecalculateSize(w, env)
<1>1. LayoutMonitor(w, env) \in Monitors
  BY MonitorsAreThere
<1>2. LayoutOf(w, LayoutMonitor(w, env))
          \in {None} \cup (PageNos \X Preedits \X (Scales \cup {1}) \X Monitors)
  BY <1>1, LayoutsAreTyped
<1>3. x \in Popups
  BY <1>1, <1>2 DEF RecalculateSize, Popups
<1>4. InStep(x)
  BY DEF InStep, RecalculateSize, LayoutOf, Popups
<1> QED
  BY <1>3, <1>4 DEF RecalculateSize, SameGesture, SameService, SameContent, SamePlace, Popups

LEMMA SetPreeditTextSteps ==
    ASSUME NEW w \in Popups, NEW env \in Env, NEW e \in Preedits
    PROVE  LET x == SetPreeditText(w, e, env)
           IN  /\ x \in Popups /\ x.preedit = e
               /\ InStep(w) => InStep(x)
               /\ x.laidFor \in {w.laidFor, LayoutMonitor(w, env)}
               /\ SameGesture(x, w) /\ SameService(x, w) /\ SameContent(x, w) /\ SamePlace(x, w)
               /\ x.dpi = w.dpi /\ x.excuses = w.excuses
<1> DEFINE v == [w EXCEPT !.preedit = e]
<1>1. CASE w.preedit = e
  BY <1>1 DEF SetPreeditText, SameGesture, SameService, SameContent, SamePlace
<1>2. CASE w.preedit # e
  <2>1. v \in Popups
    BY DEF Popups
  <2>2. LayoutMonitor(v, env) = LayoutMonitor(w, env)
    BY DEF LayoutMonitor, Popups
  <2>3. SetPreeditText(w, e, env) = RecalculateSize(v, env)
    BY <1>2 DEF SetPreeditText
  <2>4. v.preedit = e /\ SameGesture(v, w) /\ SameService(v, w) /\ SameContent(v, w)
            /\ SamePlace(v, w) /\ v.dpi = w.dpi /\ v.excuses = w.excuses
    BY DEF SameGesture, SameService, SameContent, SamePlace, Popups
  <2> HIDE DEF v
  <2> QED
    BY <2>1, <2>2, <2>3, <2>4, RecalculateSizeSteps
    DEF SameGesture, SameService, SameContent, SamePlace
<1> QED
  BY <1>1, <1>2

LEMMA SetAnchorRectSteps ==
    ASSUME NEW w \in Popups, NEW env \in Env
    PROVE  LET x == SetAnchorRect(w, env)
           IN  /\ x \in Popups /\ x.anchor = env.mon /\ env.mon \in Monitors
               /\ InStep(w) => InStep(x)
               /\ SameGesture(x, w) /\ SameService(x, w) /\ SameContent(x, w)
               /\ x.shown = w.shown /\ x.placed = w.placed /\ x.laidFor = w.laidFor
               /\ x.preedit = w.preedit /\ x.dpi = w.dpi /\ x.excuses = w.excuses
  BY DEF SetAnchorRect, Env, Popups, InStep, LayoutOf, SameGesture, SameService, SameContent

LEMMA SyncOwnerSteps ==
    ASSUME NEW w \in Popups, NEW env \in Env
    PROVE  LET x == SyncOwner(w, env)
           IN  /\ x \in Popups
               /\ InStep(w) => InStep(x)
               /\ x.laidFor \in {w.laidFor, LayoutMonitor(w, env)}
               /\ SameGesture(x, w) /\ SameService(x, w) /\ SameContent(x, w) /\ SamePlace(x, w)
               /\ x.preedit = w.preedit /\ x.dpi \in {w.dpi} \cup Scales
               /\ "bare" \in x.excuses <=> "bare" \in w.excuses
               /\ "orphan" \notin x.excuses => x.dpi = Scale[LayoutMonitor(w, env)]
<1> DEFINE s == Scale[LayoutMonitor(w, env)]
           v == [w EXCEPT !.dpi = s, !.excuses = @ \ {"orphan"}]
<1>1. CASE env.owner = None
  BY <1>1 DEF SyncOwner, Popups, InStep, LayoutOf, SameGesture, SameService, SameContent, SamePlace
<1>2. CASE env.owner # None
  <2>1. s \in Scales
    BY MonitorsAreThere
  <2>2. v \in Popups
    BY <2>1 DEF Popups
  <2>3. LayoutMonitor(v, env) = LayoutMonitor(w, env)
    BY DEF LayoutMonitor, Popups
  <2>4. /\ SameGesture(v, w) /\ SameService(v, w) /\ SameContent(v, w) /\ SamePlace(v, w)
        /\ v.preedit = w.preedit /\ v.dpi = s /\ v.laidFor = w.laidFor
        /\ "bare" \in v.excuses <=> "bare" \in w.excuses
        /\ "orphan" \notin v.excuses
    BY DEF SameGesture, SameService, SameContent, SamePlace, Popups
  <2>5. CASE w.dpi = s
    <3>1. SyncOwner(w, env) = v
      BY <1>2, <2>5 DEF SyncOwner
    <3>2. InStep(w) => InStep(v)
      BY <2>5 DEF InStep, LayoutOf, Popups
    <3> HIDE DEF v
    <3> QED
      BY <2>1, <2>2, <2>4, <3>1, <3>2
  <2>6. CASE w.dpi # s
    <3>1. SyncOwner(w, env) = RecalculateSize(v, env)
      BY <1>2, <2>6 DEF SyncOwner
    <3> HIDE DEF v
    <3> QED
      BY <2>1, <2>2, <2>3, <2>4, <3>1, RecalculateSizeSteps
      DEF SameGesture, SameService, SameContent, SamePlace
  <2> QED
    BY <2>5, <2>6
<1> QED
  BY <1>1, <1>2

LEMMA RelayoutSteps ==
    ASSUME NEW w \in Popups, NEW env \in Env
    PROVE  LET x == RelayoutForAnchorMonitor(w, env)
           IN  /\ x \in Popups /\ x.laidFor = LayoutMonitor(w, env)
               /\ InStep(w) => InStep(x)
               /\ SameGesture(x, w) /\ SameService(x, w) /\ SameContent(x, w) /\ SamePlace(x, w)
               /\ x.preedit = w.preedit /\ x.dpi = w.dpi /\ x.excuses = w.excuses
<1>1. CASE LayoutMonitor(w, env) = w.laidFor
  BY <1>1 DEF RelayoutForAnchorMonitor, SameGesture, SameService, SameContent, SamePlace
<1>2. CASE LayoutMonitor(w, env) # w.laidFor
  BY <1>2, RecalculateSizeSteps DEF RelayoutForAnchorMonitor
<1> QED
  BY <1>1, <1>2

LEMMA MoveToInputRectSteps ==
    ASSUME NEW w \in Popups, NEW env \in Env
    PROVE  LET x == MoveToInputRect(w, env)
           IN  /\ x \in Popups /\ x.placed = env.mon /\ x.laidFor = w.laidFor
               /\ InStep(w) => InStep(x)
               /\ SameGesture(x, w) /\ SameService(x, w) /\ SameContent(x, w)
               /\ x.shown = w.shown /\ x.anchor = w.anchor /\ x.preedit = w.preedit
               /\ x.dpi = w.dpi /\ x.excuses = w.excuses \ {"bare"}
<1> DEFINE x == MoveToInputRect(w, env)
<1>1. x \in Popups
  BY DEF MoveToInputRect, Env, Popups
<1>2. InStep(w) => InStep(x)
  BY DEF MoveToInputRect, Popups, InStep, LayoutOf
<1>3. SameGesture(x, w) /\ SameService(x, w) /\ SameContent(x, w)
  BY DEF MoveToInputRect, Popups, SameGesture, SameService, SameContent
<1> QED
  BY <1>1, <1>2, <1>3 DEF MoveToInputRect, Popups

LEMMA CreateSteps ==
    ASSUME NEW w \in Popups, NEW env \in Env
    PROVE  LET x == CreateCandidateWindow(w, env)
           IN  /\ x \in Popups /\ x.open
               /\ InStep(w) => InStep(x)
               /\ SameGesture(x, w) /\ SameContent(x, w) /\ SamePlace(x, w)
               /\ x.showing = w.showing /\ x.list = w.list /\ x.text = w.text
               /\ w.open => x = w
               /\ ~w.open => x.preedit = w.text /\ x.dpi \in Scales
<1>1. CASE w.open
  BY <1>1 DEF CreateCandidateWindow, SameGesture, SameContent, SamePlace
<1>2. CASE ~w.open
  <2> DEFINE made == [w EXCEPT !.open = TRUE, !.dpi = Scale[OwnerMonitor(env)]]
             v == RecalculateSize(made, env)
  <2>1. Scale[OwnerMonitor(env)] \in Scales
    BY MonitorsAssumption DEF OwnerMonitor, Env, Scales
  <2>2. made \in Popups
    BY <2>1 DEF Popups
  <2>3. /\ SameGesture(made, w) /\ SameContent(made, w) /\ SamePlace(made, w)
        /\ made.dpi = Scale[OwnerMonitor(env)]
        /\ made.open /\ made.showing = w.showing /\ made.list = w.list /\ made.text = w.text
    BY DEF SameGesture, SameContent, SamePlace, Popups
  <2> HIDE DEF made
  <2>4. /\ v \in Popups /\ InStep(v) /\ SameGesture(v, made) /\ SameService(v, made)
        /\ SameContent(v, made) /\ SamePlace(v, made) /\ v.dpi = made.dpi
    BY <2>2, RecalculateSizeSteps
  <2>5. w.text \in Preedits
    BY DEF Popups
  <2>6. CreateCandidateWindow(w, env) = SetPreeditText(v, w.text, env)
    BY <1>2 DEF CreateCandidateWindow, made
  <2> HIDE DEF v
  <2> DEFINE y == SetPreeditText(v, w.text, env)
  <2>7. /\ y \in Popups /\ InStep(y) /\ SameGesture(y, v) /\ SameService(y, v)
        /\ SameContent(y, v) /\ SamePlace(y, v) /\ y.preedit = w.text
        /\ y.dpi = v.dpi
    BY <2>4, <2>5, SetPreeditTextSteps
  <2> HIDE DEF y
  <2> QED
    BY <1>2, <2>1, <2>3, <2>4, <2>6, <2>7
    DEF y, SameGesture, SameService, SameContent, SamePlace
<1> QED
  BY <1>1, <1>2

LEMMA ClearSteps ==
    ASSUME NEW w \in Popups
    PROVE  LET x == Clear(w)
           IN  /\ x \in Popups /\ x.items = 0 /\ x.laid = None
               /\ SameGesture(x, w) /\ SameService(x, w) /\ SamePlace(x, w)
               /\ x.preedit = w.preedit /\ x.laidFor = w.laidFor /\ x.cursor = w.cursor
               /\ x.dpi = w.dpi /\ x.excuses = w.excuses
<1> DEFINE pressed == IF w.capture THEN w.pressedSel ELSE 0
           v == [w EXCEPT !.items = 0]
           u == [v EXCEPT !.laid = None]
<1>1. pressed \in Nat
  BY DEF Popups
<1>2. Clear(w) = [w EXCEPT !.items = 0, !.laid = None, !.pressedSel = pressed]
  BY DEF Clear
<1> HIDE DEF pressed
<1>3. v \in Popups
  BY NoPage DEF Popups
<1> HIDE DEF v
<1>4. u \in Popups
  BY <1>3 DEF Popups
<1> HIDE DEF u
<1>5. [u EXCEPT !.pressedSel = pressed] \in Popups
  BY <1>1, <1>4 DEF Popups
<1>6. Clear(w) \in Popups
  BY <1>2, <1>5 DEF u, v, Popups
<1>7. SameGesture(Clear(w), w)
  BY DEF Clear, Popups, SameGesture
<1> QED
  BY <1>6, <1>7 DEF Clear, Popups, SameService, SamePlace

LEMMA FillSteps ==
    ASSUME NEW w \in Popups, NEW env \in Env
    PROVE  LET x == Fill(w, env)
           IN  /\ x \in Popups /\ InStep(x) /\ x.laidFor = LayoutMonitor(w, env)
               /\ SameGesture(x, w) /\ SameService(x, w) /\ SamePlace(x, w)
               /\ x.items = w.list /\ x.preedit = w.text
               /\ x.applied = <<w.list, w.text>> /\ x.cursor = 0
               /\ x.dpi = w.dpi /\ x.excuses = w.excuses
<1> DEFINE a == Clear(w)
           b == RecalculateSize(a, env)
           c == SetPreeditText(b, w.text, env)
           d == [c EXCEPT !.items = w.list]
           e == RecalculateSize(d, env)
<1>0. Fill(w, env) = [e EXCEPT !.applied = <<w.list, w.text>>, !.cursor = 0]
  BY DEF Fill
<1>1. /\ a \in Popups /\ SameGesture(a, w) /\ SameService(a, w) /\ SamePlace(a, w)
      /\ a.dpi = w.dpi /\ a.excuses = w.excuses
  BY ClearSteps
<1>2. w.text \in Preedits /\ w.list \in PageNos
  BY DEF Popups
<1> HIDE DEF a
<1>3. /\ b \in Popups /\ SameGesture(b, a) /\ SameService(b, a) /\ SamePlace(b, a)
      /\ b.dpi = a.dpi /\ b.excuses = a.excuses
  BY <1>1, RecalculateSizeSteps
<1> HIDE DEF b
<1>4. /\ c \in Popups /\ SameGesture(c, b) /\ SameService(c, b) /\ SamePlace(c, b)
      /\ c.dpi = b.dpi /\ c.excuses = b.excuses /\ c.preedit = w.text
  BY <1>2, <1>3, SetPreeditTextSteps
<1> HIDE DEF c
<1>5. /\ d \in Popups /\ SameGesture(d, c) /\ SameService(d, c) /\ SamePlace(d, c)
      /\ d.dpi = c.dpi /\ d.excuses = c.excuses /\ d.preedit = w.text /\ d.items = w.list
  BY <1>2, <1>4 DEF Popups, SameGesture, SameService, SamePlace
<1> HIDE DEF d
<1>6. /\ e \in Popups /\ InStep(e) /\ e.laidFor = LayoutMonitor(d, env)
      /\ SameGesture(e, d) /\ SameService(e, d) /\ SamePlace(e, d)
      /\ e.dpi = d.dpi /\ e.excuses = d.excuses /\ e.preedit = d.preedit /\ e.items = d.items
  BY <1>5, RecalculateSizeSteps DEF SameContent
<1>7. LayoutMonitor(d, env) = LayoutMonitor(w, env)
  BY <1>1, <1>3, <1>4, <1>5 DEF LayoutMonitor, SamePlace
<1> HIDE DEF e
<1>9. Fill(w, env) \in Popups
  <2>1. <<w.list, w.text>> \in PageNos \X Preedits
    BY <1>2
  <2>2. e \in Popups /\ 0 \in Cursors \cup {0}
    BY <1>6
  <2> DEFINE y == [e EXCEPT !.applied = <<w.list, w.text>>]
  <2>3. Fill(w, env) = [y EXCEPT !.cursor = 0]
    BY <1>0, <2>2 DEF Popups
  <2>4. y \in Popups
    BY <2>1, <2>2 DEF Popups
  <2> HIDE DEF y
  <2> QED
    BY <2>2, <2>3, <2>4 DEF Popups
<1>10. /\ Fill(w, env).laidFor = e.laidFor /\ Fill(w, env).laid = e.laid
       /\ Fill(w, env).items = e.items /\ Fill(w, env).preedit = e.preedit
       /\ Fill(w, env).applied = <<w.list, w.text>> /\ Fill(w, env).cursor = 0
       /\ Fill(w, env).dpi = e.dpi /\ Fill(w, env).excuses = e.excuses
  BY <1>6, <1>0 DEF Popups
<1>11. InStep(Fill(w, env))
  BY <1>6, <1>10 DEF InStep, LayoutOf
<1>12. SameGesture(Fill(w, env), e) /\ SameService(Fill(w, env), e) /\ SamePlace(Fill(w, env), e)
  BY <1>6, <1>0 DEF Popups, SameGesture, SameService, SamePlace
<1> QED
  BY <1>1, <1>3, <1>4, <1>5, <1>6, <1>7, <1>9, <1>10, <1>11, <1>12
  DEF SameGesture, SameService, SamePlace

-----------------------------------------------------------------------------
(* The invariant, and that each handler keeps it.                          *)

\* A popup that is shown was laid out for the monitor of its anchor, and put there.
Sized(w) ==
    /\ InStep(w)
    /\ w.shown => w.anchor # None
    /\ w.shown /\ "bare" \notin w.excuses => w.laidFor = w.anchor /\ w.placed = w.anchor
    /\ w.shown /\ w.excuses = {} => w.dpi = Scale[w.anchor]

\* What was applied is what the popup holds.  The page may be ahead of it for the
\* length of a handler.
Applied(w) ==
    /\ w.applied # None => w.items = w.applied[1] /\ w.preedit = w.text
    /\ w.shown => w.preedit = w.text
    /\ w.cursor \in 1..Len(List(w.items)) => w.sel = w.cursor

Empty(w) ==
    ~w.open => /\ ~w.shown /\ ~w.showing /\ w.applied = None
               /\ w.items = 0 /\ w.preedit = 0 /\ w.laid = None

\* A popup that is there has the DPI of a monitor.
Scaled(w) == w.open => w.dpi \in Scales

NearlyGood(w) == w \in Popups /\ Sized(w) /\ Applied(w) /\ Empty(w) /\ Scaled(w)

Good(w) == NearlyGood(w) /\ (w.shown => w.items = w.list)

LEMMA ShowCandidatesGood ==
    ASSUME NEW w, NEW env \in Env, Good(w)
    PROVE  LET x == ShowCandidates(w, env)
           IN  Good(x) /\ SameGesture(x, w) /\ x.open /\ x.list = w.list /\ x.text = w.text
<1> DEFINE a == CreateCandidateWindow(w, env)
           b == SyncOwner(a, env)
           x == [b EXCEPT !.showing = TRUE]
<1>1. /\ a \in Popups /\ a.open /\ InStep(a)
      /\ SameGesture(a, w) /\ SameContent(a, w) /\ SamePlace(a, w)
      /\ a.list = w.list /\ a.text = w.text
      /\ w.open => a = w
      /\ ~w.open => a.preedit = w.text /\ a.dpi \in Scales
  BY CreateSteps DEF Good, NearlyGood, Sized
<1>2. Sized(a) /\ Applied(a) /\ (a.shown => a.items = a.list)
  BY <1>1 DEF Good, NearlyGood, Sized, Applied, Empty, SameContent, SamePlace
<1> HIDE DEF a
<1>3. /\ b \in Popups /\ InStep(b) /\ b.laidFor \in {a.laidFor, LayoutMonitor(a, env)}
      /\ SameGesture(b, a) /\ SameService(b, a) /\ SameContent(b, a) /\ SamePlace(b, a)
      /\ b.preedit = a.preedit /\ b.dpi \in {a.dpi} \cup Scales
      /\ "bare" \in b.excuses <=> "bare" \in a.excuses
      /\ "orphan" \notin b.excuses => b.dpi = Scale[LayoutMonitor(a, env)]
  BY <1>1, SyncOwnerSteps DEF Sized, InStep
<1>4. a.anchor # None => LayoutMonitor(a, env) = a.anchor
  BY <1>1, MonitorsAreThere
<1> HIDE DEF b
<1>5. Sized(b)
  BY <1>2, <1>3, <1>4 DEF Sized, SamePlace
<1>6. Applied(b) /\ (b.shown => b.items = b.list)
  BY <1>2, <1>3 DEF Applied, SameContent, SamePlace, SameService
<1>7. ShowCandidates(w, env) = x
  BY DEF ShowCandidates, a, b
<1>8. x \in Popups /\ x.open /\ x.list = b.list /\ x.text = b.text /\ SameGesture(x, b)
  <2>1. x \in Popups
    BY <1>3 DEF Popups
  <2>2. b.open
    BY <1>1, <1>3 DEF SameService
  <2>3. SameGesture(x, b)
    BY <1>3 DEF SameGesture, Popups
  <2> QED
    BY <1>3, <2>1, <2>2, <2>3 DEF Popups
<1>9. Sized(x)
  BY <1>3, <1>5 DEF Popups, Sized, InStep, LayoutOf
<1>10. Applied(x) /\ (x.shown => x.items = x.list) /\ Empty(x)
  BY <1>1, <1>3, <1>6 DEF Popups, Applied, Empty, SameService
<1>11. Scaled(x)
  <2>1. a.dpi \in Scales
    BY <1>1 DEF Good, NearlyGood, Scaled
  <2>2. x.dpi = b.dpi
    BY <1>3 DEF Popups
  <2> QED
    BY <1>3, <2>1, <2>2 DEF Scaled
<1> QED
  BY <1>1, <1>3, <1>7, <1>8, <1>9, <1>10, <1>11 DEF Good, NearlyGood, SameGesture, SameService

LEMMA UpdateCandidatesGood ==
    ASSUME NEW w, NEW env \in Env, NearlyGood(w)
    PROVE  LET x == UpdateCandidates(w, env)
           IN  Good(x) /\ SameGesture(x, w) /\ x.open /\ x.list = w.list /\ x.text = w.text
<1> DEFINE a == CreateCandidateWindow(w, env)
           b == SetAnchorRect(a, env)
           c == SyncOwner(b, env)
           d == IF c.applied = <<w.list, w.text>> THEN c ELSE Fill(c, env)
           e == RelayoutForAnchorMonitor(d, env)
           f == MoveToInputRect(e, env)
           x == [f EXCEPT !.shown = @ \/ w.showing]
<1>0. UpdateCandidates(w, env) = x
  BY DEF UpdateCandidates
<1>1. /\ a \in Popups /\ a.open /\ InStep(a)
      /\ SameGesture(a, w) /\ SameContent(a, w) /\ SamePlace(a, w)
      /\ a.list = w.list /\ a.text = w.text
      /\ w.open => a = w
      /\ ~w.open => a.preedit = w.text /\ a.dpi \in Scales
  BY CreateSteps DEF NearlyGood, Sized
<1>2. Applied(a)
  BY <1>1 DEF NearlyGood, Applied, Empty, SameContent, SamePlace
<1> HIDE DEF a
<1>3. /\ b \in Popups /\ b.anchor = env.mon /\ env.mon \in Monitors /\ InStep(b)
      /\ SameGesture(b, a) /\ SameService(b, a) /\ SameContent(b, a)
      /\ b.shown = a.shown /\ b.preedit = a.preedit /\ b.dpi = a.dpi
  BY <1>1, SetAnchorRectSteps
<1> HIDE DEF b
<1>4. LayoutMonitor(b, env) = env.mon
  BY <1>3, MonitorsAreThere, MonitorsAssumption
<1>5. /\ c \in Popups /\ InStep(c)
      /\ SameGesture(c, b) /\ SameService(c, b) /\ SameContent(c, b) /\ SamePlace(c, b)
      /\ c.preedit = b.preedit /\ c.dpi \in {b.dpi} \cup Scales
      /\ "orphan" \notin c.excuses => c.dpi = Scale[env.mon]
  BY <1>3, <1>4, SyncOwnerSteps
<1> HIDE DEF c
<1>6. Applied(c)
  BY <1>1, <1>2, <1>3, <1>5 DEF Applied, SameContent, SameService, SamePlace
<1>7. /\ d \in Popups /\ InStep(d) /\ SameGesture(d, c) /\ SameService(d, c) /\ SamePlace(d, c)
      /\ d.items = d.list /\ d.preedit = d.text
      /\ d.applied = <<d.list, d.text>>
      /\ d.cursor \in 1..Len(List(d.items)) => d.sel = d.cursor
      /\ d.dpi = c.dpi /\ d.excuses = c.excuses
  <2>1. c.list = w.list /\ c.text = w.text
    BY <1>1, <1>3, <1>5 DEF SameService
  <2>2. CASE c.applied = <<w.list, w.text>>
    <3>1. d = c
      BY <2>2
    <3> HIDE DEF d
    <3>2. <<w.list, w.text>> \in PageNos \X Preedits
      BY MembersAreTyped DEF NearlyGood
    <3>3. c.applied # None
      BY <2>2, <3>2, PagesAreNumbers, ContentAssumption
    <3>4. c.applied[1] = w.list
      BY <2>2
    <3>5. c.items = c.list /\ c.preedit = c.text
      BY <1>6, <2>1, <3>3, <3>4 DEF Applied
    <3> QED
      BY <1>5, <1>6, <2>1, <2>2, <3>1, <3>5
      DEF Applied, SameGesture, SameService, SamePlace
  <2>3. CASE c.applied # <<w.list, w.text>>
    <3>1. d = Fill(c, env)
      BY <2>3
    <3> HIDE DEF d
    <3> QED
      BY <1>5, <3>1, FillSteps DEF SameService
  <2> QED
    BY <2>2, <2>3
<1> HIDE DEF d
<1>8. d.anchor = env.mon
  BY <1>3, <1>5, <1>7 DEF SamePlace
<1>9. LayoutMonitor(d, env) = env.mon
  BY <1>3, <1>7, <1>8, MonitorsAreThere, MonitorsAssumption
<1>10. /\ e \in Popups /\ InStep(e) /\ e.laidFor = env.mon
       /\ SameGesture(e, d) /\ SameService(e, d) /\ SameContent(e, d) /\ SamePlace(e, d)
       /\ e.preedit = d.preedit /\ e.dpi = d.dpi /\ e.excuses = d.excuses
  BY <1>7, <1>9, RelayoutSteps
<1> HIDE DEF e
<1>11. /\ f \in Popups /\ f.placed = env.mon /\ f.laidFor = e.laidFor /\ InStep(f)
       /\ SameGesture(f, e) /\ SameService(f, e) /\ SameContent(f, e)
       /\ f.shown = e.shown /\ f.anchor = e.anchor /\ f.preedit = e.preedit /\ f.dpi = e.dpi
       /\ f.excuses = e.excuses \ {"bare"}
  BY <1>3, <1>10, MoveToInputRectSteps
<1> HIDE DEF f
<1>12. x \in Popups
  BY <1>11 DEF Popups, NearlyGood
<1>13. /\ x.laidFor = env.mon /\ x.placed = env.mon /\ x.anchor = env.mon
       /\ x.dpi = c.dpi /\ x.excuses = c.excuses \ {"bare"} /\ InStep(x)
  BY <1>7, <1>8, <1>10, <1>11 DEF SamePlace, Popups, InStep, LayoutOf
<1>14. Sized(x)
  BY <1>3, <1>5, <1>13, MonitorsAssumption DEF Sized
<1>15. /\ x.open /\ x.list = w.list /\ x.text = w.text
       /\ x.items = x.list /\ x.preedit = x.text /\ x.applied = <<x.list, x.text>>
       /\ x.cursor = d.cursor /\ x.sel = d.sel
  <2>1. /\ f.open /\ f.list = w.list /\ f.text = w.text
        /\ f.items = f.list /\ f.preedit = f.text /\ f.applied = <<f.list, f.text>>
        /\ f.cursor = d.cursor /\ f.sel = d.sel
    BY <1>1, <1>3, <1>5, <1>7, <1>10, <1>11 DEF SameService, SameContent
  <2> QED
    BY <1>11, <2>1 DEF Popups
<1>16. Applied(x) /\ Empty(x)
  BY <1>7, <1>10, <1>11, <1>15 DEF Applied, Empty, SameContent, SameService, Popups
<1>17. SameGesture(x, w)
  BY <1>1, <1>3, <1>5, <1>7, <1>10, <1>11 DEF SameGesture, Popups
<1>18. Scaled(x)
  <2>1. a.dpi \in Scales
    BY <1>1 DEF NearlyGood, Scaled
  <2> QED
    BY <1>3, <1>5, <1>13, <2>1 DEF Scaled
<1> QED
  BY <1>0, <1>12, <1>14, <1>15, <1>16, <1>17, <1>18 DEF Good, NearlyGood

\* Good is not about the mouse.
SameButTheMouse(x, w) ==
    /\ SameService(x, w) /\ SameContent(x, w) /\ SamePlace(x, w)
    /\ x.preedit = w.preedit /\ x.dpi = w.dpi /\ x.excuses = w.excuses
    /\ x.laid = w.laid /\ x.laidFor = w.laidFor

LEMMA MouseLeavesGood ==
    ASSUME NEW w, NEW x \in Popups, Good(w), SameButTheMouse(x, w)
    PROVE  Good(x)
<1>1. Sized(x)
  BY DEF Good, NearlyGood, Sized, InStep, LayoutOf, SameButTheMouse, SameContent, SamePlace
<1>2. Applied(x) /\ Empty(x) /\ (x.shown => x.items = x.list)
  BY DEF Good, NearlyGood, Applied, Empty, SameButTheMouse, SameContent, SamePlace, SameService
<1>3. Scaled(x)
  BY DEF Good, NearlyGood, Scaled, SameButTheMouse, SameService
<1> QED
  BY <1>1, <1>2, <1>3 DEF Good, NearlyGood

LEMMA UpdateCandidatesWindowGood ==
    ASSUME NEW w, NEW env \in Env, Good(w)
    PROVE  LET x == UpdateCandidatesWindow(w, env) IN Good(x) /\ SameGesture(x, w)
<1> DEFINE a == SetAnchorRect(w, env)
           b == SyncOwner(a, env)
           c == RelayoutForAnchorMonitor(b, env)
           x == MoveToInputRect(c, env)
<1>1. CASE ~w.open
  BY <1>1 DEF UpdateCandidatesWindow, SameGesture
<1>2. CASE w.open
  <2>1. UpdateCandidatesWindow(w, env) = x
    BY <1>2 DEF UpdateCandidatesWindow
  <2>2. /\ a \in Popups /\ a.anchor = env.mon /\ env.mon \in Monitors /\ InStep(a)
        /\ SameGesture(a, w) /\ SameService(a, w) /\ SameContent(a, w)
        /\ a.shown = w.shown /\ a.preedit = w.preedit /\ a.dpi = w.dpi
    BY SetAnchorRectSteps DEF Good, NearlyGood, Sized
  <2> HIDE DEF a
  <2>3. LayoutMonitor(a, env) = env.mon
    BY <2>2, MonitorsAreThere, MonitorsAssumption
  <2>4. /\ b \in Popups /\ InStep(b)
        /\ SameGesture(b, a) /\ SameService(b, a) /\ SameContent(b, a) /\ SamePlace(b, a)
        /\ b.preedit = a.preedit /\ b.dpi \in {a.dpi} \cup Scales
        /\ "orphan" \notin b.excuses => b.dpi = Scale[env.mon]
    BY <2>2, <2>3, SyncOwnerSteps
  <2> HIDE DEF b
  <2>5. LayoutMonitor(b, env) = env.mon
    BY <2>2, <2>4, MonitorsAreThere, MonitorsAssumption DEF SamePlace
  <2>6. /\ c \in Popups /\ InStep(c) /\ c.laidFor = env.mon
        /\ SameGesture(c, b) /\ SameService(c, b) /\ SameContent(c, b) /\ SamePlace(c, b)
        /\ c.preedit = b.preedit /\ c.dpi = b.dpi /\ c.excuses = b.excuses
    BY <2>4, <2>5, RelayoutSteps
  <2> HIDE DEF c
  <2>7. /\ x \in Popups /\ InStep(x) /\ x.placed = env.mon /\ x.laidFor = c.laidFor
        /\ SameGesture(x, c) /\ SameService(x, c) /\ SameContent(x, c)
        /\ x.shown = c.shown /\ x.anchor = c.anchor /\ x.preedit = c.preedit
        /\ x.dpi = c.dpi /\ x.excuses = c.excuses \ {"bare"}
    BY <2>6, MoveToInputRectSteps
  <2> HIDE DEF x
  <2>8. x.anchor = env.mon /\ x.laidFor = env.mon /\ x.dpi = b.dpi /\ x.excuses = b.excuses \ {"bare"}
    BY <2>2, <2>4, <2>6, <2>7 DEF SamePlace
  <2>9. Sized(x)
    BY <2>2, <2>4, <2>7, <2>8, MonitorsAssumption DEF Sized
  <2>10. /\ x.shown = w.shown /\ x.open /\ x.preedit = w.preedit
         /\ SameGesture(x, w) /\ SameService(x, w) /\ SameContent(x, w)
    BY <1>2, <2>2, <2>4, <2>6, <2>7 DEF SameGesture, SameService, SameContent, SamePlace
  <2>11. Applied(x) /\ Empty(x) /\ (x.shown => x.items = x.list)
    BY <2>10 DEF Good, NearlyGood, Applied, Empty, SameService, SameContent
  <2>12. Scaled(x)
    BY <1>2, <2>2, <2>4, <2>8 DEF Good, NearlyGood, Scaled
  <2> QED
    BY <2>1, <2>7, <2>9, <2>10, <2>11, <2>12 DEF Good, NearlyGood
<1> QED
  BY <1>1, <1>2

LEMMA InvalidateSteps ==
    ASSUME NEW w \in Popups
    PROVE  LET x == Invalidate(w)
           IN  /\ x \in Popups /\ x.applied = None /\ x.cursor = 0
               /\ SameGesture(x, w) /\ SameService(x, w) /\ SamePlace(x, w)
               /\ x.items = w.items /\ x.preedit = w.preedit /\ x.laid = w.laid
               /\ x.laidFor = w.laidFor /\ x.dpi = w.dpi /\ x.excuses = w.excuses
<1>1. Invalidate(w) \in Popups
  BY DEF Invalidate, Popups
<1>2. SameGesture(Invalidate(w), w) /\ SameService(Invalidate(w), w) /\ SamePlace(Invalidate(w), w)
  BY DEF Invalidate, Popups, SameGesture, SameService, SamePlace
<1> QED
  BY <1>1, <1>2 DEF Invalidate, Popups

LEMMA UpdateCandidatesWithoutSessionGood ==
    ASSUME NEW w, NEW env \in Env, NearlyGood(w)
    PROVE  LET x == UpdateCandidatesWithoutSession(w, env) IN Good(x) /\ SameGesture(x, w)
<1> DEFINE a == Invalidate(w)
           b == SetAnchorRect(a, env)
           c == Fill(b, env)
           x == [c EXCEPT !.shown = @ \/ w.showing, !.excuses = @ \cup {"bare"}]
<1>1. CASE ~w.open
  BY <1>1 DEF UpdateCandidatesWithoutSession, SameGesture, NearlyGood, Good, Empty
<1>2. CASE w.open
  <2>1. UpdateCandidatesWithoutSession(w, env) = x
    BY <1>2 DEF UpdateCandidatesWithoutSession
  <2>2. /\ a \in Popups /\ SameGesture(a, w) /\ SameService(a, w) /\ a.dpi = w.dpi
    BY InvalidateSteps DEF NearlyGood
  <2> HIDE DEF a
  <2>3. /\ b \in Popups /\ b.anchor = env.mon /\ env.mon \in Monitors
        /\ SameGesture(b, a) /\ SameService(b, a) /\ b.dpi = a.dpi
    BY <2>2, SetAnchorRectSteps
  <2> HIDE DEF b
  <2>4. /\ c \in Popups /\ InStep(c) /\ SameGesture(c, b) /\ SameService(c, b) /\ SamePlace(c, b)
        /\ c.items = b.list /\ c.preedit = b.text /\ c.cursor = 0
        /\ c.applied = <<b.list, b.text>> /\ c.dpi = b.dpi
    BY <2>3, FillSteps
  <2> HIDE DEF c
  <2>5. c.shown \in BOOLEAN /\ w.showing \in BOOLEAN /\ c.excuses \subseteq Excuses
    BY <2>4, MembersAreTyped DEF NearlyGood
  <2>6. x \in Popups
    <3> DEFINE shown == c.shown \/ w.showing
               excuses == c.excuses \cup {"bare"}
               y == [c EXCEPT !.shown = shown]
    <3>1. x = [y EXCEPT !.excuses = excuses]
      BY <2>4 DEF Popups
    <3>2. shown \in BOOLEAN /\ excuses \subseteq Excuses
      BY <2>5
    <3>3. c \in Popups
      BY <2>4
    <3> HIDE DEF shown, excuses, c
    <3>4. y \in Popups
      BY <3>2, <3>3, ShownMayBeSet
    <3> HIDE DEF y
    <3>5. [y EXCEPT !.excuses = excuses] \in Popups
      BY <3>2, <3>4 DEF Popups
    <3> QED
      BY <3>1, <3>5
  <2>7. /\ x.open = c.open /\ x.list = c.list /\ x.text = c.text /\ x.items = c.items
        /\ x.preedit = c.preedit /\ x.cursor = c.cursor /\ x.anchor = c.anchor
        /\ x.applied = c.applied /\ x.excuses = c.excuses \cup {"bare"}
        /\ x.dpi = c.dpi
    BY <2>4 DEF Popups
  <2>13. InStep(x)
    BY <2>4 DEF Popups, InStep, LayoutOf
  <2>8. SameGesture(x, c)
    BY <2>4 DEF Popups, SameGesture
  <2>9. SameGesture(x, w)
    BY <2>2, <2>3, <2>4, <2>8 DEF SameGesture
  <2>10. Sized(x)
    BY <2>3, <2>4, <2>7, <2>13, MonitorsAssumption DEF Sized, SamePlace
  <2>11. x.open /\ x.items = x.list /\ x.preedit = x.text /\ x.applied = <<b.list, b.text>>
    BY <1>2, <2>2, <2>3, <2>4, <2>7 DEF SameService
  <2>12. Applied(x) /\ Empty(x)
    BY <2>3, <2>4, <2>7, <2>11 DEF Applied, Empty, SameService
  <2>14. Scaled(x)
    BY <1>2, <2>2, <2>3, <2>4, <2>7 DEF NearlyGood, Scaled
  <2> QED
    BY <2>1, <2>6, <2>9, <2>10, <2>11, <2>12, <2>14 DEF Good, NearlyGood
<1> QED
  BY <1>1, <1>2

LEMMA HideCandidatesGood ==
    ASSUME NEW w \in Popups, NEW env \in Env, Empty(w), Scaled(w)
    PROVE  LET x == HideCandidates(w, env) IN Good(x) /\ SameGesture(x, w)
<1> DEFINE a == SetPreeditText(w, 0, env)
           b == [a EXCEPT !.shown = FALSE]
           c == Clear(b)
           hidden == IF w.open THEN c ELSE w
           d == Invalidate(hidden)
           x == [d EXCEPT !.showing = FALSE]
<1>0. HideCandidates(w, env) = x
  BY DEF HideCandidates
<1>1. 0 \in Preedits
  BY ContentAssumption
<1>2. a \in Popups /\ a.preedit = 0 /\ SameGesture(a, w) /\ a.open = w.open /\ a.dpi = w.dpi
  BY <1>1, SetPreeditTextSteps DEF SameService
<1> HIDE DEF a
<1>3. b \in Popups /\ b.preedit = 0 /\ ~b.shown /\ SameGesture(b, a)
          /\ b.open = a.open /\ b.dpi = a.dpi
  <2>0. a \in Popups
    BY <1>2
  <2>1. b \in Popups
    BY <2>0, ShownMayBeSet
  <2>2. SameGesture(b, a)
    BY <2>0 DEF Popups, SameGesture
  <2> QED
    BY <1>2, <2>1, <2>2 DEF Popups
<1> HIDE DEF b
<1>4. /\ c \in Popups /\ c.items = 0 /\ c.laid = None /\ SameGesture(c, b)
      /\ ~c.shown /\ c.preedit = 0 /\ c.open = b.open /\ c.dpi = b.dpi
  BY <1>3, ClearSteps DEF SamePlace, SameService
<1> HIDE DEF c
<1>5. /\ hidden \in Popups /\ SameGesture(hidden, w)
      /\ hidden.items = 0 /\ hidden.laid = None /\ ~hidden.shown /\ hidden.preedit = 0
      /\ hidden.open = w.open /\ hidden.dpi = w.dpi
  <2>1. CASE w.open
    BY <1>2, <1>3, <1>4, <2>1 DEF SameGesture
  <2>2. CASE ~w.open
    BY <2>2 DEF Empty, SameGesture
  <2> QED
    BY <2>1, <2>2
<1> HIDE DEF hidden
<1>6. /\ d \in Popups /\ d.applied = None /\ d.cursor = 0 /\ SameGesture(d, hidden)
      /\ d.items = 0 /\ d.laid = None /\ ~d.shown /\ d.preedit = 0
      /\ d.open = hidden.open /\ d.dpi = hidden.dpi
  BY <1>5, InvalidateSteps DEF SamePlace, SameService
<1> HIDE DEF d
<1>7. x \in Popups
  BY <1>6, ShowingMayBeSet
<1>8. /\ x.applied = None /\ x.cursor = 0 /\ x.items = 0 /\ x.laid = None
      /\ ~x.shown /\ x.preedit = 0 /\ ~x.showing /\ x.open = d.open /\ x.dpi = d.dpi
  BY <1>6 DEF Popups
<1>9. SameGesture(x, d)
  BY <1>6 DEF SameGesture, Popups
<1>10. Sized(x)
  BY <1>8 DEF Sized, InStep, LayoutOf
<1>11. Applied(x) /\ Empty(x)
  BY <1>8 DEF Applied, Empty
<1>12. SameGesture(x, w)
  BY <1>5, <1>6, <1>9 DEF SameGesture
<1>13. Scaled(x)
  BY <1>5, <1>6, <1>8 DEF Scaled
<1> QED
  BY <1>0, <1>7, <1>8, <1>10, <1>11, <1>12, <1>13 DEF Good, NearlyGood

LEMMA DegradedGood ==
    ASSUME NEW w, NEW env \in Env, Good(w)
    PROVE  LET x == Degraded(w, env) IN Good(x) /\ SameGesture(x, w)
<1> DEFINE v == [w EXCEPT !.list = 0, !.text = 0]
<1>1. w \in Popups
  BY DEF Good, NearlyGood
<1>2. v \in Popups
  <2> DEFINE u == [w EXCEPT !.list = 0]
  <2>1. u \in Popups
    BY <1>1, NoPage DEF Popups
  <2> HIDE DEF u
  <2>2. [u EXCEPT !.text = 0] \in Popups
    BY <2>1, ContentAssumption DEF Popups
  <2> QED
    BY <2>2 DEF u
<1>3. Empty(v) /\ Scaled(v)
  BY <1>1 DEF Good, NearlyGood, Empty, Scaled, Popups
<1>4. SameGesture(v, w)
  BY <1>1 DEF SameGesture, Popups
<1>5. Degraded(w, env) = HideCandidates(v, env)
  BY DEF Degraded
<1> HIDE DEF v
<1>6. Good(HideCandidates(v, env)) /\ SameGesture(HideCandidates(v, env), v)
  BY <1>2, <1>3, HideCandidatesGood
<1> QED
  BY <1>4, <1>5, <1>6 DEF SameGesture

LEMMA SetCandidateCursorGood ==
    ASSUME NEW w, NEW c \in Cursors, Good(w)
    PROVE  LET x == SetCandidateCursor(w, c) IN Good(x) /\ SameGesture(x, w)
<1> DEFINE there == c > Len(List(w.items))
           sel == IF there THEN 1 ELSE c
           v == [w EXCEPT !.cursor = c]
           x == [v EXCEPT !.sel = sel]
<1>1. CASE c = 0 \/ ~w.open \/ w.cursor = c
  BY <1>1 DEF SetCandidateCursor, SameGesture
<1>2. CASE ~(c = 0 \/ ~w.open \/ w.cursor = c)
  <2>1. w \in Popups /\ w.items \in PageNos
    BY DEF Good, NearlyGood, Popups
  <2>2. Len(List(w.items)) \in Nat
    BY <2>1, ListsAreLists
  <2>3. c \in Nat \ {0}
    BY <1>2, ContentAssumption
  <2>4. sel \in Nat \ {0}
    BY <2>3
  <2>5. c \in 1..Len(List(w.items)) => sel = c
    BY <2>2, <2>3
  <2>6. SetCandidateCursor(w, c) = x
    BY <1>2, <2>1 DEF SetCandidateCursor, Popups
  <2> HIDE DEF sel
  <2>7. v \in Popups
    BY <2>1 DEF Popups
  <2>8. x \in Popups
    <3> HIDE DEF v
    <3> QED
      BY <2>4, <2>7 DEF Popups
  <2>9. /\ SameService(x, w) /\ SamePlace(x, w) /\ x.preedit = w.preedit /\ x.dpi = w.dpi
        /\ x.excuses = w.excuses /\ x.laid = w.laid /\ x.laidFor = w.laidFor
        /\ x.applied = w.applied /\ x.items = w.items /\ x.cursor = c /\ x.sel = sel
    BY <2>1 DEF Popups, SameService, SamePlace
  <2>10. SameGesture(x, w)
    BY <2>1 DEF Popups, SameGesture
  <2>11. Sized(x)
    BY <2>9 DEF Good, NearlyGood, Sized, InStep, LayoutOf, SamePlace
  <2>12. Applied(x) /\ Empty(x) /\ (x.shown => x.items = x.list)
    BY <2>5, <2>9 DEF Good, NearlyGood, Applied, Empty, SamePlace, SameService
  <2>13. Scaled(x)
    BY <2>9 DEF Good, NearlyGood, Scaled, SameService
  <2> QED
    BY <2>6, <2>8, <2>10, <2>11, <2>12, <2>13 DEF Good, NearlyGood
<1> QED
  BY <1>1, <1>2

LEMMA WithAnotherList ==
    ASSUME NEW w, NEW page \in PageNos, Good(w)
    PROVE  LET x == [w EXCEPT !.list = page]
           IN  NearlyGood(x) /\ SameGesture(x, w)
<1> DEFINE x == [w EXCEPT !.list = page]
<1>1. w \in Popups
  BY DEF Good, NearlyGood
<1>2. x \in Popups
  BY <1>1 DEF Popups
<1>3. SameGesture(x, w)
  BY <1>1 DEF SameGesture, Popups
<1>4. SameContent(x, w) /\ SamePlace(x, w) /\ x.open = w.open /\ x.text = w.text
          /\ x.showing = w.showing /\ x.preedit = w.preedit /\ x.dpi = w.dpi
          /\ x.excuses = w.excuses /\ x.laid = w.laid /\ x.laidFor = w.laidFor
  BY <1>1 DEF SameContent, SamePlace, Popups
<1>5. Sized(x)
  BY <1>4 DEF Good, NearlyGood, Sized, InStep, LayoutOf, SameContent, SamePlace
<1>6. Applied(x) /\ Empty(x) /\ Scaled(x)
  BY <1>4 DEF Good, NearlyGood, Applied, Empty, Scaled, SameContent, SamePlace
<1> QED
  BY <1>2, <1>3, <1>5, <1>6 DEF NearlyGood

LEMMA UpdateCandidateListGood ==
    ASSUME NEW w, NEW r \in Replies, NEW env \in Env, Good(w)
    PROVE  LET x == UpdateCandidateList(w, r, env) IN Good(x) /\ SameGesture(x, w)
<1> DEFINE given == r.list # None
           visible == given /\ r.list # 0
           restore == visible /\ (w.showing \/ w.text # 0)
           hide == \/ given /\ ~visible
                   \/ r.show = "no" /\ ~restore
           shown == IF r.show = "yes" \/ restore THEN ShowCandidates(w, env) ELSE w
           other == [shown EXCEPT !.list = r.list]
           filled == IF given THEN UpdateCandidates(other, env) ELSE shown
           settled == IF hide THEN HideCandidates(filled, env) ELSE filled
<1>1. UpdateCandidateList(w, r, env) = SetCandidateCursor(settled, r.cursor)
  BY DEF UpdateCandidateList
<1>2. (given => r.list \in PageNos) /\ r.cursor \in Cursors
  BY DEF Replies
<1>3. Good(shown) /\ SameGesture(shown, w)
  BY ShowCandidatesGood DEF SameGesture
<1> HIDE DEF restore, hide, shown, visible
<1>4. Good(filled) /\ SameGesture(filled, w)
  <2>1. CASE given
    <3>1. NearlyGood(other) /\ SameGesture(other, shown)
      BY <1>2, <1>3, <2>1, WithAnotherList
    <3> HIDE DEF other
    <3>2. Good(UpdateCandidates(other, env)) /\ SameGesture(UpdateCandidates(other, env), other)
      BY <3>1, UpdateCandidatesGood
    <3> QED
      BY <1>3, <2>1, <3>1, <3>2 DEF SameGesture
  <2>2. CASE ~given
    BY <1>3, <2>2
  <2> QED
    BY <2>1, <2>2
<1> HIDE DEF filled
<1>5. Good(settled) /\ SameGesture(settled, w)
  <2>1. filled \in Popups /\ Empty(filled) /\ Scaled(filled)
    BY <1>4 DEF Good, NearlyGood
  <2>2. Good(HideCandidates(filled, env)) /\ SameGesture(HideCandidates(filled, env), filled)
    BY <2>1, HideCandidatesGood
  <2> QED
    BY <1>4, <2>2 DEF SameGesture
<1> HIDE DEF settled
<1> QED
  BY <1>1, <1>2, <1>5, SetCandidateCursorGood DEF SameGesture

LEMMA UpdateCompositionGood ==
    ASSUME NEW w, NEW r \in Replies, NEW env \in Env, Good(w)
    PROVE  LET x == UpdateComposition(w, r, env) IN Good(x) /\ SameGesture(x, w)
<1> DEFINE v == [w EXCEPT !.text = r.text]
           y == IF w.open /\ w.text # r.text THEN SetPreeditText(v, r.text, env) ELSE v
<1>1. CASE r.text = None
  BY <1>1 DEF UpdateComposition, SameGesture
<1>2. CASE r.text # None
  <2>1. r.text \in Preedits
    BY <1>2 DEF Replies
  <2>2. w \in Popups
    BY DEF Good, NearlyGood
  <2>3. v \in Popups
    BY <2>1, <2>2 DEF Popups
  <2>4. SameGesture(v, w)
    BY <2>2 DEF SameGesture, Popups
  <2>5. /\ SameContent(v, w) /\ SamePlace(v, w) /\ v.open = w.open /\ v.list = w.list
        /\ v.text = r.text /\ v.showing = w.showing /\ v.preedit = w.preedit /\ v.dpi = w.dpi
        /\ v.excuses = w.excuses /\ v.laid = w.laid /\ v.laidFor = w.laidFor
    BY <2>2 DEF SameContent, SamePlace, Popups
  <2>6. Sized(v)
    BY <2>5 DEF Good, NearlyGood, Sized, InStep, LayoutOf, SameContent, SamePlace
  <2>7. Empty(v) /\ Scaled(v)
    BY <2>5 DEF Good, NearlyGood, Empty, Scaled, SameContent, SamePlace
  <2> HIDE DEF v
  <2>8. Good(y) /\ SameGesture(y, w)
    <3>1. CASE w.open /\ w.text # r.text
      <4> DEFINE u == SetPreeditText(v, r.text, env)
      <4>1. /\ u \in Popups /\ u.preedit = r.text /\ InStep(u)
            /\ u.laidFor \in {v.laidFor, LayoutMonitor(v, env)}
            /\ SameGesture(u, v) /\ SameService(u, v) /\ SameContent(u, v) /\ SamePlace(u, v)
            /\ u.dpi = v.dpi /\ u.excuses = v.excuses
        BY <2>1, <2>3, <2>6, SetPreeditTextSteps DEF Sized
      <4>2. v.anchor # None => LayoutMonitor(v, env) = v.anchor
        BY <2>3, MonitorsAreThere
      <4> HIDE DEF u
      <4>3. Sized(u)
        BY <2>6, <4>1, <4>2 DEF Sized, SamePlace
      <4>4. Applied(u) /\ Empty(u) /\ (u.shown => u.items = u.list)
        BY <2>5, <3>1, <4>1
        DEF Good, NearlyGood, Applied, Empty, SameContent, SamePlace, SameService
      <4>5. SameGesture(u, w)
        BY <2>4, <4>1 DEF SameGesture
      <4>6. Scaled(u)
        BY <2>7, <4>1 DEF Scaled, SameService
      <4> QED
        BY <3>1, <4>1, <4>3, <4>4, <4>5, <4>6 DEF Good, NearlyGood, u
    <3>2. CASE ~(w.open /\ w.text # r.text)
      <4>1. y = v
        BY <3>2
      <4>2. Applied(v) /\ (v.shown => v.items = v.list)
        BY <2>5, <3>2 DEF Good, NearlyGood, Applied, Empty, SameContent, SamePlace
      <4> QED
        BY <2>3, <2>4, <2>6, <2>7, <4>1, <4>2 DEF Good, NearlyGood
    <3> QED
      BY <3>1, <3>2
  <2>9. UpdateComposition(w, r, env) =
            IF r.text # 0 THEN UpdateCandidates(ShowCandidates(y, env), env)
            ELSE UpdateCandidatesWindow(y, env)
    BY <1>2 DEF UpdateComposition, v
  <2> HIDE DEF y
  <2>10. CASE r.text # 0
    <3> DEFINE z == ShowCandidates(y, env)
    <3>1. Good(z) /\ SameGesture(z, y)
      BY <2>8, ShowCandidatesGood
    <3> HIDE DEF z
    <3>2. Good(UpdateCandidates(z, env)) /\ SameGesture(UpdateCandidates(z, env), z)
      BY <3>1, UpdateCandidatesGood DEF Good
    <3> QED
      BY <2>8, <2>9, <2>10, <3>1, <3>2 DEF SameGesture, z
  <2>11. CASE r.text = 0
    <3>1. Good(UpdateCandidatesWindow(y, env)) /\ SameGesture(UpdateCandidatesWindow(y, env), y)
      BY <2>8, UpdateCandidatesWindowGood
    <3> QED
      BY <2>8, <2>9, <2>11, <3>1 DEF SameGesture
  <2> QED
    BY <2>10, <2>11
<1> QED
  BY <1>1, <1>2

LEMMA AnsweredGood ==
    ASSUME NEW w, NEW r \in Replies, NEW env \in Env, Good(w)
    PROVE  LET x == Answered(w, r, env) IN Good(x) /\ SameGesture(x, w)
<1> DEFINE a == UpdateComposition(w, r, env)
           b == UpdateCandidateList(w, r, env)
<1>1. Good(a) /\ SameGesture(a, w) /\ Good(b) /\ SameGesture(b, w)
  BY UpdateCompositionGood, UpdateCandidateListGood
<1>2. Answered(w, r, env) =
          IF r.commits THEN UpdateCandidateList(a, r, env) ELSE UpdateComposition(b, r, env)
  BY DEF Answered
<1> HIDE DEF a, b
<1>3. /\ Good(UpdateCandidateList(a, r, env)) /\ SameGesture(UpdateCandidateList(a, r, env), a)
      /\ Good(UpdateComposition(b, r, env)) /\ SameGesture(UpdateComposition(b, r, env), b)
  BY <1>1, UpdateCompositionGood, UpdateCandidateListGood
<1> QED
  BY <1>1, <1>2, <1>3 DEF SameGesture

LEMMA BareGood ==
    ASSUME NEW w, Good(w), NEW x \in Bare(w)
    PROVE  Good(x) /\ SameGesture(x, w)
<1>1. PICK page \in PageNos, c \in Cursors, env \in Env : x = AnsweredBare(w, page, c, env)
  BY DEF Bare
<1>2. CASE page = 0
  BY <1>1, <1>2 DEF AnsweredBare, SameGesture
<1>3. CASE page # 0
  <2> DEFINE v == [w EXCEPT !.list = page]
             y == UpdateCandidatesWithoutSession(v, env)
  <2>1. NearlyGood(v) /\ SameGesture(v, w)
    BY WithAnotherList
  <2>2. x = SetCandidateCursor(y, c)
    BY <1>1, <1>3 DEF AnsweredBare
  <2> HIDE DEF v
  <2>3. Good(y) /\ SameGesture(y, v)
    BY <2>1, UpdateCandidatesWithoutSessionGood
  <2> HIDE DEF y
  <2>4. Good(x) /\ SameGesture(x, y)
    BY <2>2, <2>3, SetCandidateCursorGood
  <2> QED
    BY <2>1, <2>3, <2>4 DEF SameGesture
<1> QED
  BY <1>2, <1>3

LEMMA PagesChangedGood ==
    ASSUME NEW w, Good(w), NEW x \in PagesChanged(w)
    PROVE  Good(x) /\ SameGesture(x, w)
<1>1. CASE x = w
  BY <1>1 DEF SameGesture
<1>2. CASE x \in Bare(w)
  BY <1>2, BareGood
<1>3. CASE \E env \in Env : x = Degraded(w, env)
  BY <1>3, DegradedGood
<1> QED
  BY <1>1, <1>2, <1>3 DEF PagesChanged

-----------------------------------------------------------------------------
(* The layout.                                                             *)

\* A set of numbers has a least member, and what passes from one number to the next
\* holds as far as it is passed: all that is needed of induction, without an operator
\* to instantiate.
LEMMA LeastOf ==
    ASSUME NEW T \in SUBSET Nat, T # {}
    PROVE  \E x \in T : \A y \in T : x <= y
<1>1. IsWellFoundedOn(OpToRel(<, Nat), Nat)
  BY NatLessThanWellFounded
<1>2. PICK x \in T : \A y \in T : ~(<<y, x>> \in OpToRel(<, Nat))
  BY <1>1, WFMin
<1>3. \A y \in T : <<y, x>> \in Nat \X Nat /\ ~(y < x)
  BY <1>2 DEF OpToRel
<1>4. x \in Nat /\ \A y \in T : y \in Nat /\ ~(y < x)
  BY <1>3
<1>5. \A y \in T : x <= y
  BY <1>4
<1> QED
  BY <1>5

LEMMA Climb ==
    ASSUME NEW n \in Nat, NEW G, 0 \in G,
           \A i \in 0..n : i \in G /\ i < n => i + 1 \in G
    PROVE  \A i \in 0..n : i \in G
<1> DEFINE Bad == {i \in 0..n : i \notin G}
<1> SUFFICES ASSUME Bad # {} PROVE FALSE
  OBVIOUS
<1>1. Bad \in SUBSET Nat
  OBVIOUS
<1>2. PICK b \in Bad : \A c \in Bad : b <= c
  BY <1>1, LeastOf
<1>3. b \in 0..n /\ b \notin G /\ b # 0
  OBVIOUS
<1>4. b - 1 \in 0..n /\ ~(b <= b - 1) /\ (b - 1) + 1 = b /\ b - 1 < n
  BY <1>3
<1>5. b - 1 \in G
  BY <1>2, <1>4
<1> QED
  BY <1>3, <1>4, <1>5

LEMMA MaxIsThere ==
    ASSUME NEW n \in Nat, NEW S \in SUBSET (0..n), S # {}
    PROVE  Max(S) \in S
<1> DEFINE T == {n - x : x \in S}
<1>0. \A x \in S : x \in 0..n
  OBVIOUS
<1>1. T \in SUBSET Nat /\ T # {}
  <2>1. \A x \in S : n - x \in Nat
    BY <1>0
  <2>2. \E x \in S : TRUE
    OBVIOUS
  <2> QED
    BY <2>1, <2>2
<1>2. PICK t \in T : \A u \in T : t <= u
  BY <1>1, LeastOf
<1>3. PICK m \in S : t = n - m
  OBVIOUS
<1>4. \A y \in S : m >= y
  <2> TAKE y \in S
  <2>1. n - m <= n - y
    BY <1>2, <1>3
  <2> QED
    BY <1>0, <2>1
<1> QED
  BY <1>4 DEF Max

\* f holds the sums of the first places of w, up to n.
SumTo(w, n, f) == f = [i \in 0..n |-> IF i = 0 THEN 0 ELSE f[i - 1] + w[i]]

\* The function that Total defines by recursion is there, and is what it says.
LEMMA SumsExist ==
    ASSUME NEW w \in Seq(Int)
    PROVE  \E f : SumTo(w, Len(w), f)
<1> DEFINE Reached == {n \in Nat : \E f : f \in [0..n -> Int] /\ SumTo(w, n, f)}
           Last == Len(w)
<1>0. Len(w) \in Nat /\ \A i \in 1..Len(w) : w[i] \in Int
  OBVIOUS
<1>1. 0 \in Reached
  <2> DEFINE f == [i \in 0..0 |-> 0]
  <2>1. f \in [0..0 -> Int] /\ SumTo(w, 0, f)
    BY DEF SumTo
  <2> QED
    BY <2>1
<1>2. ASSUME NEW n \in Reached, n + 1 <= Last
      PROVE  n + 1 \in Reached
  <2>1. PICK f : f \in [0..n -> Int] /\ SumTo(w, n, f)
    OBVIOUS
  <2> DEFINE g == [i \in 0..(n + 1) |-> IF i = n + 1 THEN f[n] + w[n + 1] ELSE f[i]]
  <2>2. \A i \in 0..n : f[i] \in Int
    BY <2>1
  <2>3. w[n + 1] \in Int
    BY <1>0, <1>2
  <2>4. g \in [0..(n + 1) -> Int]
    BY <2>2, <2>3
  <2>5. \A i \in 0..n : f[i] = IF i = 0 THEN 0 ELSE f[i - 1] + w[i]
    BY <2>1 DEF SumTo
  <2>6. \A i \in 0..(n + 1) : g[i] = IF i = 0 THEN 0 ELSE g[i - 1] + w[i]
    <3>1. TAKE i \in 0..(n + 1)
    <3>2. CASE i = n + 1
      <4>1. n \in Nat /\ i # 0 /\ i - 1 = n /\ n # n + 1 /\ n \in 0..(n + 1)
        BY <3>2
      <4>2. g[i] = f[n] + w[n + 1] /\ g[i - 1] = f[n]
        BY <3>2, <4>1
      <4> QED
        BY <3>2, <4>1, <4>2
    <3>3. CASE i # n + 1
      <4>1. i \in 0..n /\ g[i] = f[i] /\ (i # 0 => i - 1 \in 0..(n + 1) /\ i - 1 # n + 1)
        BY <3>3
      <4>2. i # 0 => g[i - 1] = f[i - 1]
        BY <4>1
      <4> QED
        BY <2>5, <4>1, <4>2
    <3> QED
      BY <3>2, <3>3
  <2>7. SumTo(w, n + 1, g)
    BY <2>4, <2>6 DEF SumTo
  <2> QED
    BY <2>4, <2>7
<1>3. Last \in Nat /\ \A i \in Reached : i + 1 <= Last => i + 1 \in Reached
  BY <1>0, <1>2
<1> HIDE DEF Reached, Last
<1>4. \A i \in 0..Last : i \in Reached /\ i < Last => i + 1 \in Reached
  BY <1>3
<1>5. \A i \in 0..Last : i \in Reached
  BY <1>1, <1>3, <1>4, Climb
<1>6. Last \in Reached
  BY <1>3, <1>5
<1> QED
  BY <1>6 DEF Reached, Last

SumsOf(w) == CHOOSE f : SumTo(w, Len(w), f)

LEMMA TotalIsASum ==
    ASSUME NEW w \in Seq(Int)
    PROVE  /\ Total(w) = SumsOf(w)[Len(w)] /\ SumsOf(w)[0] = 0
           /\ \A i \in 0..Len(w) : SumsOf(w)[i] \in Int
           /\ \A i \in 1..Len(w) : SumsOf(w)[i] = SumsOf(w)[i - 1] + w[i]
<1> DEFINE f == SumsOf(w)
           n == Len(w)
<1>0. n \in Nat /\ \A i \in 1..n : w[i] \in Int
  OBVIOUS
<1>1. SumTo(w, Len(w), SumsOf(w))
  BY SumsExist DEF SumsOf
<1>2. Total(w) = SumsOf(w)[Len(w)]
  BY DEF Total, SumsOf, SumTo
<1>3. \A i \in 0..Len(w) : f[i] = IF i = 0 THEN 0 ELSE f[i - 1] + w[i]
  BY <1>1 DEF SumTo
<1> HIDE DEF f, n
<1>4. f[0] = 0 /\ \A i \in 1..n : f[i] = f[i - 1] + w[i]
  BY <1>0, <1>3 DEF n
<1>5. \A i \in 0..n : f[i] \in Int
  <2> DEFINE G == {i \in 0..n : f[i] \in Int}
  <2>1. 0 \in G /\ \A i \in 0..n : i \in G /\ i < n => i + 1 \in G
    <3>1. ASSUME NEW i \in 0..n, f[i] \in Int, i < n PROVE f[i + 1] \in Int
      <4>1. i + 1 \in 1..n /\ (i + 1) - 1 = i
        BY <1>0, <3>1
      <4> QED
        BY <1>0, <1>4, <3>1, <4>1
    <3> QED
      BY <1>0, <1>4, <3>1
  <2> HIDE DEF G
  <2>2. \A i \in 0..n : i \in G
    BY <1>0, <2>1, Climb
  <2> QED
    BY <2>2 DEF G
<1> QED
  BY <1>2, <1>4, <1>5 DEF f, n

\* What a sum bounds, and what is added to every place.
LEMMA SumsOfNaturals ==
    ASSUME NEW w \in Seq(Nat)
    PROVE  Total(w) \in Nat /\ \A j \in 1..Len(w) : w[j] <= Total(w)
<1> DEFINE f == SumsOf(w)
           n == Len(w)
<1>0. n \in Nat /\ (\A i \in 1..n : w[i] \in Nat) /\ w \in Seq(Int)
  OBVIOUS
<1>1. /\ Total(w) = f[n] /\ f[0] = 0 /\ \A i \in 0..n : f[i] \in Int
      /\ \A i \in 1..n : f[i] = f[i - 1] + w[i]
  BY <1>0, TotalIsASum
<1> HIDE DEF f, n
<1> DEFINE G == {i \in 0..n : f[i] \in Nat /\ \A j \in 1..i : w[j] <= f[i]}
<1>2. 0 \in G
  BY <1>0, <1>1
<1>3. ASSUME NEW i \in 0..n, i \in G, i < n
      PROVE  i + 1 \in G
  <2>1. i + 1 \in 1..n /\ i + 1 \in 0..n /\ (i + 1) - 1 = i
    BY <1>0, <1>3
  <2>2. f[i + 1] = f[i] + w[i + 1] /\ w[i + 1] \in Nat /\ f[i] \in Nat
    BY <1>0, <1>1, <1>3, <2>1
  <2>3. \A j \in 1..i : w[j] <= f[i] /\ j \in 1..n
    BY <1>0, <1>3
  <2>4. ASSUME NEW j \in 1..(i + 1) PROVE w[j] <= f[i + 1]
    <3>1. CASE j = i + 1
      BY <2>2, <3>1
    <3>2. CASE j # i + 1
      <4>1. j \in 1..i /\ w[j] \in Nat
        BY <1>0, <2>1, <2>3, <3>2
      <4> QED
        BY <2>2, <2>3, <4>1
    <3> QED
      BY <3>1, <3>2
  <2> QED
    BY <2>1, <2>2, <2>4
<1> HIDE DEF G
<1>4. \A i \in 0..n : i \in G
  BY <1>0, <1>2, <1>3, Climb
<1>5. n \in G
  BY <1>0, <1>4
<1> QED
  BY <1>1, <1>5 DEF G, n

LEMMA OneMore ==
    ASSUME NEW i \in Nat, NEW a \in Nat
    PROVE  (i + 1) * a = i * a + a /\ i * a \in Nat /\ 0 * a = 0
  OBVIOUS

LEMMA SumsOfShifted ==
    ASSUME NEW v \in Seq(Nat), NEW a \in Nat, NEW w \in Seq(Nat), Len(w) = Len(v),
           \A i \in 1..Len(v) : w[i] = a + v[i]
    PROVE  Total(w) = Len(v) * a + Total(v)
<1> DEFINE f == SumsOf(v)
           g == SumsOf(w)
           n == Len(v)
<1>0. n \in Nat /\ (\A i \in 1..n : v[i] \in Nat) /\ v \in Seq(Int) /\ w \in Seq(Int)
  OBVIOUS
<1>1. /\ Total(v) = f[n] /\ f[0] = 0 /\ \A i \in 0..n : f[i] \in Int
      /\ \A i \in 1..n : f[i] = f[i - 1] + v[i]
  BY <1>0, TotalIsASum
<1>2. /\ Total(w) = g[n] /\ g[0] = 0 /\ \A i \in 0..n : g[i] \in Int
      /\ \A i \in 1..n : g[i] = g[i - 1] + w[i]
  BY <1>0, TotalIsASum
<1>3. \A i \in 1..n : w[i] = a + v[i]
  OBVIOUS
<1> HIDE DEF f, g, n
<1> DEFINE G == {i \in 0..n : g[i] = i * a + f[i]}
<1>4. 0 \in G
  BY <1>0, <1>1, <1>2, OneMore
<1>5. ASSUME NEW i \in 0..n, i \in G, i < n
      PROVE  i + 1 \in G
  <2>1. i + 1 \in 1..n /\ i + 1 \in 0..n /\ (i + 1) - 1 = i /\ i \in Nat
    BY <1>0, <1>5
  <2>2. /\ f[i + 1] = f[i] + v[i + 1] /\ f[i] \in Int
        /\ g[i + 1] = g[i] + w[i + 1] /\ w[i + 1] = a + v[i + 1] /\ v[i + 1] \in Nat
    BY <1>0, <1>1, <1>2, <1>3, <2>1
  <2>3. g[i] = i * a + f[i]
    BY <1>5
  <2> DEFINE ia == i * a
             ja == (i + 1) * a
  <2>4. ja = ia + a /\ ia \in Nat
    BY <2>1, OneMore
  <2>5. g[i] = ia + f[i]
    BY <2>3
  <2> HIDE DEF ia, ja
  <2>6. g[i + 1] = ja + f[i + 1]
    BY <2>2, <2>4, <2>5
  <2> QED
    BY <2>1, <2>6 DEF ja
<1> HIDE DEF G
<1>6. \A i \in 0..n : i \in G
  BY <1>0, <1>4, <1>5, Climb
<1>7. n \in G
  BY <1>0, <1>6
<1> QED
  BY <1>1, <1>2, <1>7 DEF G, n

LEMMA CapCuts ==
    ASSUME NEW w \in Seq(Nat), NEW c \in Nat
    PROVE  /\ Cap(w, c) \in Seq(Nat) /\ Len(Cap(w, c)) = Len(w)
           /\ \A i \in 1..Len(w) : Cap(w, c)[i] <= c
<1>1. \A i \in 1..Len(w) : LesserOf(w[i], c) \in Nat /\ LesserOf(w[i], c) <= c
  BY DEF LesserOf
<1> DEFINE n == Len(w)
           u == [i \in 1..n |-> LesserOf(w[i], c)]
<1>2. u \in Seq(Nat) /\ Len(u) = n /\ \A i \in 1..n : u[i] <= c
  <2>1. n \in Nat
    OBVIOUS
  <2>2. u \in [1..n -> Nat]
    BY <1>1
  <2> QED
    BY <1>1, <2>1, <2>2
<1> QED
  BY <1>2 DEF Cap

\* The widths of the texts fit into the room there is, or all are cut to the least.
LEMMA TextsFitOrAreLeast ==
    ASSUME NEW texts \in Seq(Nat), NEW s \in Nat \ {0}, NEW work \in Nat
    PROVE  LET v == TextWidths(texts, s, work)
           IN  /\ v \in Seq(Nat) /\ Len(v) = Len(texts)
               /\ \/ Total(v) <= Available(s, Len(texts), work)
                  \/ \A i \in 1..Len(texts) : v[i] <= CandidateCellMinTextWidth * s
<1> DEFINE room == Available(s, Len(texts), work)
           least == CandidateCellMinTextWidth * s
           most == CandidateCellMaxTextWidth * s
           scaled == [i \in 1..Len(texts) |-> texts[i] * s]
           capped == Cap(scaled, most)
           S == {c \in (least + 1)..most : Total(Cap(capped, c)) <= room}
           m == Max(S \cup {least})
           v == TextWidths(texts, s, work)
<1>1. least \in Nat /\ most \in Nat /\ least <= most
  BY DEF CandidateCellMinTextWidth, CandidateCellMaxTextWidth
<1>2. scaled \in Seq(Nat) /\ Len(scaled) = Len(texts)
  <2> DEFINE n == Len(texts)
             u == [i \in 1..n |-> texts[i] * s]
  <2>1. n \in Nat /\ \A i \in 1..n : texts[i] \in Nat
    OBVIOUS
  <2>2. \A i \in 1..n : texts[i] * s \in Nat
    BY <2>1
  <2>3. u \in [1..n -> Nat]
    BY <2>2
  <2> HIDE DEF n
  <2>4. u \in Seq(Nat) /\ Len(u) = n
    BY <2>1, <2>3
  <2> QED
    BY <2>4 DEF n
<1> HIDE DEF scaled
<1>3. capped \in Seq(Nat) /\ Len(capped) = Len(texts)
  BY <1>1, <1>2, CapCuts
<1>4. v = IF Total(capped) <= room THEN capped ELSE Cap(capped, m)
  BY DEF TextWidths, scaled
<1> HIDE DEF capped, room, least, most
<1>5. S \cup {least} \in SUBSET (0..most) /\ S \cup {least} # {}
  BY <1>1
<1>6. m \in S \cup {least}
  BY <1>1, <1>5, MaxIsThere
<1>7. m \in Nat
  BY <1>1, <1>5, <1>6
<1>8. m \in S => Total(Cap(capped, m)) <= room
  OBVIOUS
<1> HIDE DEF S, m
<1>9. /\ Cap(capped, m) \in Seq(Nat) /\ Len(Cap(capped, m)) = Len(texts)
      /\ \A i \in 1..Len(texts) : Cap(capped, m)[i] <= m
  BY <1>3, <1>7, CapCuts
<1>10. CASE Total(capped) <= room
  BY <1>3, <1>4, <1>10 DEF room
<1>11. CASE ~(Total(capped) <= room)
  <2>1. v = Cap(capped, m)
    BY <1>4, <1>11
  <2> HIDE DEF v
  <2>2. Total(v) <= room \/ \A i \in 1..Len(texts) : v[i] <= least
    <3>1. CASE m \in S
      BY <1>8, <2>1, <3>1
    <3>2. CASE m = least
      BY <1>9, <2>1, <3>2
    <3> QED
      BY <1>6, <3>1, <3>2
  <2> QED
    BY <1>9, <2>1, <2>2 DEF room, least, v
<1> QED
  BY <1>10, <1>11

LEMMA PartsOfTheRow ==
    ASSUME NEW s \in Nat \ {0}, NEW n \in Nat
    PROVE  /\ Frame(s) = 14 * s /\ Fixed(s) \in Nat /\ Fixed(s) >= 18 * s
           /\ Gaps(s, n) \in Nat /\ Navigation(s, n) \in Nat
           /\ n > 0 => Navigation(s, n) = 44 * s
           /\ n * Fixed(s) \in Nat
<1>1. Frame(s) = 14 * s
  BY DEF Frame, PanelPaddingX, BorderWidth
<1>2. Fixed(s) \in Nat /\ Fixed(s) >= 18 * s
  <2>1. SelKey \in Nat /\ Fixed(s) = (SelKey + 18) * s
    BY ContentAssumption DEF Fixed, CandidateLabelGap, CandidateCellPadX
  <2>2. (SelKey + 18) * s = SelKey * s + 18 * s /\ SelKey * s \in Nat
    BY <2>1
  <2> DEFINE x == SelKey * s
  <2>3. Fixed(s) = x + 18 * s /\ x \in Nat
    BY <2>1, <2>2
  <2> HIDE DEF x
  <2> QED
    BY <2>3
<1>3. Gaps(s, n) \in Nat
  <2>1. CASE n = 0
    BY <2>1 DEF Gaps
  <2>2. CASE n # 0
    <3>1. (n - 1) * CandidateCellGap \in Nat
      BY <2>2 DEF CandidateCellGap
    <3>2. ((n - 1) * CandidateCellGap) * s \in Nat
      BY <3>1, OneMore
    <3> QED
      BY <2>2, <3>2 DEF Gaps
  <2> QED
    BY <2>1, <2>2
<1>4. Navigation(s, n) \in Nat /\ (n > 0 => Navigation(s, n) = 44 * s)
  BY DEF Navigation, CandidateCellGap, PageNavWidth
<1>5. n * Fixed(s) \in Nat
  BY <1>2, OneMore
<1> QED
  BY <1>1, <1>2, <1>3, <1>4, <1>5

\* A layout for any texts, preedit and DPI: a popup wider than the work area shows
\* every text cut to the least, and the page buttons are beside the cells.
LEMMA LayoutFits ==
    ASSUME NEW texts \in Seq(Nat), NEW preedit \in Nat, NEW s \in Nat \ {0}, NEW work \in Nat
    PROVE  LET l == Layout(texts, preedit, s, work)
               n == Len(l.cells)
           IN  /\ l.scale = s
               /\ \/ l.panel <= work
                  \/ \A i \in 1..n : l.cells[i] <= Fixed(s) + CandidateCellMinTextWidth * s
               /\ n > 0 => Total(l.cells) + Gaps(s, n) + PageNavWidth * s + Frame(s) <= l.panel
<1> DEFINE n == Len(texts)
           v == TextWidths(texts, s, work)
           cells == [i \in 1..n |-> Fixed(s) + v[i]]
           row == Total(cells) + Gaps(s, n) + Navigation(s, n)
           room == work - Frame(s)
           wanted == IF preedit = 0 THEN 0 ELSE (preedit + PreeditTextWidthPadding) * s
           strip == IF room > 0 THEN LesserOf(wanted, room) ELSE wanted
           content == GreaterOf(GreaterOf(row, strip), CandidateMinWidth * s)
           l == Layout(texts, preedit, s, work)
<1>1. l = [scale |-> s, cells |-> cells, panel |-> content + Frame(s)]
  BY DEF Layout
<1>2. n \in Nat
  OBVIOUS
<1>3. /\ v \in Seq(Nat) /\ Len(v) = n
      /\ \/ Total(v) <= Available(s, n, work)
         \/ \A i \in 1..n : v[i] <= CandidateCellMinTextWidth * s
  BY TextsFitOrAreLeast
<1>4. /\ Frame(s) = 14 * s /\ Fixed(s) \in Nat /\ Fixed(s) >= 18 * s
      /\ Gaps(s, n) \in Nat /\ Navigation(s, n) \in Nat
      /\ n > 0 => Navigation(s, n) = 44 * s
      /\ n * Fixed(s) \in Nat
  BY <1>2, PartsOfTheRow
<1>5. wanted \in Nat
  BY DEF PreeditTextWidthPadding
<1>6. Available(s, n, work) = room - Navigation(s, n) - n * Fixed(s) - Gaps(s, n)
  BY DEF Available
<1> HIDE DEF n, v
<1>7. /\ cells \in Seq(Nat) /\ Len(cells) = n
      /\ \A i \in 1..n : cells[i] = Fixed(s) + v[i] /\ v[i] \in Nat
  <2>1. \A i \in 1..n : v[i] \in Nat
    BY <1>3
  <2>2. cells \in [1..n -> Nat]
    BY <1>4, <2>1
  <2> QED
    BY <1>2, <2>1, <2>2
<1> HIDE DEF cells
<1>8. Total(cells) = n * Fixed(s) + Total(v) /\ Total(v) \in Nat
  BY <1>3, <1>4, <1>7, SumsOfShifted, SumsOfNaturals
<1>9. Total(cells) \in Nat /\ \A i \in 1..n : cells[i] <= Total(cells)
  BY <1>7, SumsOfNaturals
<1> DEFINE total == Total(cells)
           gaps == Gaps(s, n)
           nav == Navigation(s, n)
           fixed == n * Fixed(s)
<1>10. row = total + gaps + nav /\ total \in Nat /\ gaps \in Nat /\ nav \in Nat /\ row \in Nat
  BY <1>4, <1>9
<1>11. room \in Int /\ room + 14 * s = work /\ Frame(s) = 14 * s /\ 14 * s \in Nat
  BY <1>4
<1>12. strip \in Nat /\ (room > 0 => strip <= room)
  BY <1>5, <1>11 DEF LesserOf
<1>13. content \in Nat /\ content >= row /\ content \in {row, strip, 64 * s}
  BY <1>10, <1>12 DEF GreaterOf, CandidateMinWidth
<1>14. Total(v) <= Available(s, n, work) => row <= room
  <2> HAVE Total(v) <= Available(s, n, work)
  <2> DEFINE tv == Total(v)
  <2>1. tv <= room - nav - fixed - gaps /\ total = fixed + tv /\ tv \in Nat /\ fixed \in Nat
    BY <1>4, <1>6, <1>8
  <2> HIDE DEF tv, total, gaps, nav, fixed, row, room
  <2> QED
    BY <1>10, <1>11, <2>1
<1> HIDE DEF row, strip, content, total, room, wanted, nav, gaps
<1>15. \/ content + Frame(s) <= work
       \/ \A i \in 1..n : cells[i] <= Fixed(s) + CandidateCellMinTextWidth * s
  <2> SUFFICES ASSUME NEW i \in 1..n, ~(cells[i] <= Fixed(s) + CandidateCellMinTextWidth * s)
               PROVE  content + Frame(s) <= work
    OBVIOUS
  <2>1. n > 0 /\ cells[i] \in Nat /\ cells[i] = Fixed(s) + v[i] /\ v[i] \in Nat
    BY <1>2, <1>7
  <2>2. cells[i] > 42 * s /\ ~(v[i] <= CandidateCellMinTextWidth * s)
    BY <1>4, <2>1 DEF CandidateCellMinTextWidth
  <2>3. row <= room
    BY <1>3, <1>14, <2>2
  <2>4. total > 42 * s /\ nav = 44 * s
    BY <1>4, <1>9, <1>10, <2>1, <2>2 DEF total, nav
  <2>5. row > 64 * s
    BY <1>10, <2>4
  <2>6. content <= room
    BY <1>10, <1>11, <1>12, <1>13, <2>3, <2>5
  <2> QED
    BY <1>11, <1>13, <2>6
<1>16. n > 0 => Total(cells) + Gaps(s, n) + PageNavWidth * s + Frame(s) <= content + Frame(s)
  <2> HAVE n > 0
  <2>1. nav = 44 * s
    BY <1>4 DEF nav
  <2>2. total + gaps + 40 * s + 14 * s <= content + 14 * s
    BY <1>10, <1>13, <2>1
  <2> QED
    BY <1>11, <2>2 DEF total, gaps, PageNavWidth
<1> HIDE DEF l
<1> QED
  BY <1>1, <1>7, <1>15, <1>16 DEF l

\* Every layout the popup has is one of Layouts: its DPI is that of a monitor.
LEMMA GoodIsSound ==
    ASSUME Good(win)
    PROVE  LayoutIsSound
<1> SUFFICES ASSUME win.laid # None
             PROVE  LET l == Layouts[win.laid]
                        n == Len(l.cells)
                    IN  /\ \/ l.panel <= WorkArea[win.laid[4]]
                           \/ \A i \in 1..n : l.cells[i] <= Fixed(l.scale)
                                                   + CandidateCellMinTextWidth * l.scale
                        /\ n > 0 => Total(l.cells) + Gaps(l.scale, n) + PageNavWidth * l.scale
                                       + Frame(l.scale) <= l.panel
  BY DEF LayoutIsSound
<1>1. win \in Popups /\ win.laid = LayoutOf(win, win.laidFor) /\ win.dpi \in Scales
  BY DEF Good, NearlyGood, Sized, InStep, Empty, Scaled
<1>2. win.laid = <<win.items, win.preedit, win.dpi, win.laidFor>>
  BY <1>1 DEF LayoutOf
<1>3. win.items \in PageNos /\ win.preedit \in Preedits /\ win.laidFor \in Monitors
  <2>1. win.items \in PageNos /\ win.preedit \in Preedits
    BY <1>1 DEF Popups
  <2>2. win.laid \in PageNos \X Preedits \X (Scales \cup {1}) \X Monitors
    BY <1>1 DEF Popups
  <2> QED
    BY <1>2, <2>1, <2>2
<1> DEFINE texts == List(win.items)
           s == win.dpi
           work == WorkArea[win.laidFor]
<1>4. Layouts[win.laid] = Layout(texts, win.preedit, s, work) /\ win.laid[4] = win.laidFor
  <2>1. win.laid \in PageNos \X Preedits \X Scales \X Monitors
    BY <1>1, <1>2, <1>3
  <2>2. /\ win.laid[1] = win.items /\ win.laid[2] = win.preedit
        /\ win.laid[3] = win.dpi /\ win.laid[4] = win.laidFor
    BY <1>2
  <2> QED
    BY <2>1, <2>2 DEF Layouts
<1>5. texts \in Seq(Nat)
  <2>1. CASE win.items = 0
    BY <2>1 DEF List
  <2>2. CASE win.items # 0
    <3>1. win.items \in 1..Len(Pages)
      BY <1>3, <2>2, ContentAssumption DEF PageNos
    <3> QED
      BY <2>2, <3>1, ContentAssumption DEF List
  <2> QED
    BY <2>1, <2>2
<1>6. s \in Nat \ {0} /\ work \in Nat /\ win.preedit \in Nat
  BY <1>1, <1>3, MonitorsAssumption, ContentAssumption DEF Scales
<1> HIDE DEF texts, s, work
<1> DEFINE l == Layout(texts, win.preedit, s, work)
<1>7. /\ l.scale = s
      /\ \/ l.panel <= work
         \/ \A i \in 1..Len(l.cells) : l.cells[i] <= Fixed(s) + CandidateCellMinTextWidth * s
      /\ Len(l.cells) > 0 =>
             Total(l.cells) + Gaps(s, Len(l.cells)) + PageNavWidth * s + Frame(s) <= l.panel
  BY <1>5, <1>6, LayoutFits
<1> HIDE DEF l
<1> QED
  BY <1>4, <1>7 DEF l, work

-----------------------------------------------------------------------------
(* The gesture, and the theorems.                                          *)

\* The gesture the popup remembers is the one that began on it: a press of a candidate
\* or of a page button is held with the capture, and a drag excludes both.
Held(w, h) ==
    /\ h \in {"sel", "nav", "drag", "lost", "none"}
    /\ h \in {"sel", "nav", "drag"} => w.capture
    /\ h = "sel" => w.pressedSel # 0
    /\ w.pressedSel # 0 => h \in {"sel", "lost"}
    /\ w.pressedNav # "none" => h \in {"nav", "lost"}
    /\ w.dragging => h \in {"drag", "lost"} /\ w.pressedSel = 0 /\ w.pressedNav = "none"

WindowInv == Good(win) /\ Held(win, held)

LEMMA GestureIsKept ==
    ASSUME NEW w, NEW x, NEW h, Held(w, h), SameGesture(x, w)
    PROVE  Held(x, h)
  BY DEF Held, SameGesture

LEMMA ClosedIsGood ==
    ASSUME NEW list \in PageNos
    PROVE  Good(Closed(list)) /\ Held(Closed(list), "none")
<1>1. Closed(list) \in Popups
  BY NoPage, ContentAssumption DEF Closed, Popups
<1>2. /\ Sized(Closed(list)) /\ Applied(Closed(list))
      /\ Empty(Closed(list)) /\ Scaled(Closed(list))
  BY DEF Closed, Scaled, Sized, InStep, LayoutOf, Applied, Empty
<1>3. ~Closed(list).shown /\ Held(Closed(list), "none")
  BY DEF Closed, Held
<1> QED
  BY <1>1, <1>2, <1>3 DEF Good, NearlyGood

LEMMA TargetsAreTyped ==
    ASSUME NEW w \in Popups, NEW t \in Targets(w)
    PROVE  /\ t.nav \in {"none", "prev", "next"} /\ t.cell \in Nat
           /\ t.nav # "none" => t.cell = 0
<1>1. w.items \in PageNos
  BY DEF Popups
<1>2. Len(List(w.items)) \in Nat
  BY <1>1, ListsAreLists
<1> QED
  BY <1>2 DEF Targets

LEMMA ButtonDownKeeps ==
    ASSUME WindowInv, OnLButtonDown
    PROVE  WindowInv'
<1>1. win \in Popups
  BY DEF WindowInv, Good, NearlyGood
<1>2. PICK t \in Targets(win) :
          /\ win' = [win EXCEPT !.pressedNav = t.nav, !.pressedSel = t.cell, !.capture = TRUE,
                                !.dragging = t.nav = "none" /\ t.cell = 0]
          /\ held' = IF t.nav # "none" THEN "nav" ELSE IF t.cell # 0 THEN "sel" ELSE "drag"
  BY DEF OnLButtonDown
<1>3. /\ t.nav \in {"none", "prev", "next"} /\ t.cell \in Nat
      /\ t.nav # "none" => t.cell = 0
  BY <1>1, TargetsAreTyped
<1> DEFINE drag == t.nav = "none" /\ t.cell = 0
           a == [win EXCEPT !.pressedNav = t.nav]
           b == [a EXCEPT !.pressedSel = t.cell]
           c == [b EXCEPT !.capture = TRUE]
<1>4. win' = [c EXCEPT !.dragging = drag]
  BY <1>1, <1>2 DEF Popups
<1>5. win' \in Popups
  <2>1. a \in Popups
    BY <1>1, <1>3 DEF Popups
  <2> HIDE DEF a
  <2>2. b \in Popups
    BY <2>1, <1>3 DEF Popups
  <2> HIDE DEF b
  <2>3. c \in Popups
    BY <2>2 DEF Popups
  <2>4. drag \in BOOLEAN
    OBVIOUS
  <2> HIDE DEF c, drag
  <2> QED
    BY <1>4, <2>3, <2>4 DEF Popups
<1>6. SameButTheMouse(win', win)
  BY <1>1, <1>2 DEF SameButTheMouse, SameService, SameContent, SamePlace, Popups
<1>7. Good(win')
  BY <1>5, <1>6, MouseLeavesGood DEF WindowInv
<1>8. /\ win'.pressedNav = t.nav /\ win'.pressedSel = t.cell /\ win'.capture
      /\ win'.dragging <=> drag
  BY <1>1, <1>2 DEF Popups
<1>9. Held(win', held')
  BY <1>2, <1>3, <1>8 DEF Held
<1> QED
  BY <1>7, <1>9 DEF WindowInv

LEMMA ReleasedKeeps ==
    ASSUME NEW w, Good(w), ~w.dragging
    PROVE  Good(Released(w)) /\ Held(Released(w), "none")
<1>1. w \in Popups
  BY DEF Good, NearlyGood
<1>2. Released(w) \in Popups
  <2> DEFINE u == [w EXCEPT !.pressedSel = 0]
  <2>1. u \in Popups
    BY <1>1 DEF Popups
  <2>2. Released(w) = [u EXCEPT !.pressedNav = "none"]
    BY <1>1 DEF Released, Popups
  <2> HIDE DEF u
  <2> QED
    BY <2>1, <2>2 DEF Popups
<1>3. SameButTheMouse(Released(w), w)
  BY <1>1 DEF Released, SameButTheMouse, SameService, SameContent, SamePlace, Popups
<1>4. Held(Released(w), "none")
  BY <1>1 DEF Released, Held, Popups
<1> QED
  BY <1>2, <1>3, <1>4, MouseLeavesGood

LEMMA ButtonUpKeeps ==
    ASSUME WindowInv, OnLButtonUp
    PROVE  WindowInv'
<1> DEFINE w == [win EXCEPT !.capture = FALSE]
           v == [w EXCEPT !.pressedNav = "none"]
<1>1. win \in Popups /\ held' = "none"
  BY DEF WindowInv, Good, NearlyGood, OnLButtonUp
<1>2. w \in Popups /\ w.dragging = win.dragging /\ w.pressedSel = win.pressedSel
          /\ w.pressedNav = win.pressedNav
  <2>1. w \in Popups
    BY <1>1, CaptureMayBeSet
  <2> QED
    BY <1>1, <2>1 DEF Popups
<1>3. SameButTheMouse(w, win)
  BY <1>1 DEF SameButTheMouse, SameService, SameContent, SamePlace, Popups
<1>4. Good(w)
  BY <1>2, <1>3, MouseLeavesGood DEF WindowInv
<1>5. \/ win.dragging /\ win' = [w EXCEPT !.dragging = FALSE]
      \/ ~win.dragging /\ win' \in {Released(x) : x \in PagesChanged(v)}
      \/ ~win.dragging /\ win' = Released(w)
  BY DEF OnLButtonUp
<1> HIDE DEF w
<1>6. CASE win.dragging /\ win' = [w EXCEPT !.dragging = FALSE]
  <2>1. win' \in Popups
    BY <1>2, <1>6 DEF Popups
  <2>2. SameButTheMouse(win', w)
    BY <1>2, <1>6 DEF SameButTheMouse, SameService, SameContent, SamePlace, Popups
  <2>3. Good(win')
    BY <1>4, <2>1, <2>2, MouseLeavesGood
  <2>4. ~win'.dragging /\ win'.pressedSel = w.pressedSel /\ win'.pressedNav = w.pressedNav
    BY <1>2, <1>6 DEF Popups
  <2>5. w.pressedSel = 0 /\ w.pressedNav = "none"
    BY <1>2, <1>6 DEF WindowInv, Held
  <2> QED
    BY <1>1, <2>3, <2>4, <2>5 DEF WindowInv, Held
<1>7. CASE ~win.dragging /\ win' \in {Released(x) : x \in PagesChanged(v)}
  <2>1. v \in Popups /\ v.dragging = w.dragging
    BY <1>2 DEF Popups
  <2>2. SameButTheMouse(v, w)
    BY <1>2 DEF SameButTheMouse, SameService, SameContent, SamePlace, Popups
  <2>3. Good(v)
    BY <1>4, <2>1, <2>2, MouseLeavesGood
  <2>4. PICK x \in PagesChanged(v) : win' = Released(x)
    BY <1>7
  <2> HIDE DEF v
  <2>5. Good(x) /\ SameGesture(x, v)
    BY <2>3, PagesChangedGood
  <2>6. ~x.dragging
    BY <1>2, <1>7, <2>1, <2>5 DEF SameGesture
  <2> QED
    BY <1>1, <2>4, <2>5, <2>6, ReleasedKeeps DEF WindowInv
<1>8. CASE ~win.dragging /\ win' = Released(w)
  BY <1>1, <1>2, <1>4, <1>8, ReleasedKeeps DEF WindowInv
<1> QED
  BY <1>5, <1>6, <1>7, <1>8

LEMMA WindowInvKept ==
    ASSUME WindowInv, [Next]_vars
    PROVE  WindowInv'
<1>0. win \in Popups
  BY DEF WindowInv, Good, NearlyGood
<1>1. CASE Respond
  BY <1>1, AnsweredGood, GestureIsKept DEF WindowInv, Respond
<1>2. CASE RespondBare
  BY <1>2, BareGood, GestureIsKept DEF WindowInv, RespondBare
<1>3. CASE Fail
  BY <1>3, DegradedGood, GestureIsKept DEF WindowInv, Fail
<1>4. CASE OnLayoutChange
  BY <1>4, UpdateCandidatesWindowGood, GestureIsKept DEF WindowInv, OnLayoutChange
<1>5. CASE DestroyCandidateWindow
  BY <1>0, <1>5, MembersAreTyped, ClosedIsGood DEF WindowInv, DestroyCandidateWindow
<1>6. CASE OnLButtonDown
  BY <1>6, ButtonDownKeeps
<1>7. CASE OnLButtonUp
  BY <1>7, ButtonUpKeeps
<1>8. CASE OnMouseLeave
  <2>1. win' = [win EXCEPT !.pressedNav = "none"] /\ held' = held
    BY <1>8 DEF OnMouseLeave
  <2>2. win' \in Popups
    BY <1>0, <2>1 DEF Popups
  <2>3. SameButTheMouse(win', win)
    BY <1>0, <2>1 DEF SameButTheMouse, SameService, SameContent, SamePlace, Popups
  <2>4. Held(win', held')
    BY <1>0, <2>1 DEF WindowInv, Held, Popups
  <2> QED
    BY <2>2, <2>3, <2>4, MouseLeavesGood DEF WindowInv
<1>9. CASE OnMouseWheel
  BY <1>9, PagesChangedGood, GestureIsKept DEF WindowInv, OnMouseWheel
<1>10. CASE LoseCapture
  <2>1. win' = [win EXCEPT !.capture = FALSE] /\ held' = "lost"
    BY <1>10 DEF LoseCapture
  <2>2. win' \in Popups
    BY <1>0, <2>1 DEF Popups
  <2>3. SameButTheMouse(win', win)
    BY <1>0, <2>1 DEF SameButTheMouse, SameService, SameContent, SamePlace, Popups
  <2>4. Held(win', held')
    BY <1>0, <2>1 DEF WindowInv, Held, Popups
  <2> QED
    BY <2>2, <2>3, <2>4, MouseLeavesGood DEF WindowInv
<1>11. CASE UNCHANGED vars
  BY <1>11 DEF WindowInv, vars
<1> QED
  BY <1>1, <1>2, <1>3, <1>4, <1>5, <1>6, <1>7, <1>8, <1>9, <1>10, <1>11 DEF Next

\* Whatever fills, places or empties the popup, and wherever the mouse is meanwhile,
\* what it holds stays in order, and so does what it remembers of the gesture.
THEOREM WindowIsInOrder == Spec => []WindowInv
<1>1. Init => WindowInv
  BY NoPage, ClosedIsGood DEF Init, WindowInv
<1>2. WindowInv /\ [Next]_vars => WindowInv'
  BY WindowInvKept
<1> QED
  BY <1>1, <1>2, PTL DEF Spec

\* The members of the popup and of the text service keep their types; a popup that is
\* not there holds nothing (createCandidateWindow starts from an empty one).
THEOREM TypeCorrect == Spec => []TypeOK
<1>1. WindowInv => TypeOK
  BY DEF WindowInv, Good, NearlyGood, Empty, Held, TypeOK
<1> QED
  BY <1>1, WindowIsInOrder, PTL

\* A shown popup has the layout of the monitor it stands on, for any monitors and DPIs:
\* updateCandidates, showCandidates, updateCandidatesWindow and the rest may follow one
\* another in any order.
THEOREM AlwaysSizedForItsMonitor == Spec => []SizedForItsMonitor
<1>1. WindowInv => SizedForItsMonitor
  BY DEF WindowInv, Good, NearlyGood, Sized, InStep, SizedForItsMonitor
<1> QED
  BY <1>1, WindowIsInOrder, PTL

\* The cache of updateCandidates never hides a change: a shown popup has the page, the
\* preedit and the cursor the text service holds.
THEOREM AlwaysShowsWhatIsHeld == Spec => []ShowsWhatIsHeld
<1>1. WindowInv => ShowsWhatIsHeld
  BY DEF WindowInv, Good, NearlyGood, Applied, ShowsWhatIsHeld
<1> QED
  BY <1>1, WindowIsInOrder, PTL

\* clear, called by whatever fills the popup, drops a press on a candidate only when no
\* gesture holds it, and no press outlasts its gesture.
THEOREM GestureIsAlwaysTracked == Spec => []GestureIsTracked
<1>1. WindowInv => GestureIsTracked
  BY DEF WindowInv, Held, GestureIsTracked
<1> QED
  BY <1>1, WindowIsInOrder, PTL

\* For any pages, preedits and DPIs: a layout is wider than its work area only if every
\* text is cut to the least there is, and no cell lies under the page buttons
\* (recalculateSize chooses the cap before it places the cells).
THEOREM LayoutIsAlwaysSound == Spec => []LayoutIsSound
<1>1. WindowInv => LayoutIsSound
  BY GoodIsSound DEF WindowInv
<1> QED
  BY <1>1, WindowIsInOrder, PTL

=============================================================================
