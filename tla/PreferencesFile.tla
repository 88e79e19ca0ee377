-------------------------- MODULE PreferencesFile --------------------------
(***************************************************************************)
(* Who reads and writes TypeDuckPreferences.json.  Only the launcher       *)
(* writes it, on its loop thread: when the engine reports a new input mode *)
(* (persistTypeDuckAsciiMode) and when TypeDuckSettings.exe sends settings *)
(* (handleTypeDuckSettingsRequest).  A save is a read, the write of a      *)
(* sibling temp file and a rename; between any two of them the launcher    *)
(* may crash, any of them may fail, and the settings window, the           *)
(* "/apply-settings" process started with the launcher and the engine go   *)
(* on.  No other program writes the file while the launcher runs.          *)
(***************************************************************************)
EXTENDS PreferencesDocuments, Integers, Sequences

CONSTANTS
    Found,      \* what earlier versions, editors and crashes may have left in the file
    Attempts,   \* kAsciiModePersistAttempts
    MaxQueue    \* bound: the length of the queue from the engine

ASSUME FoundAssumption == Found \subseteq Documents
ASSUME AttemptsAssumption == Attempts \in Nat \ {0}
ASSUME QueueAssumption == MaxQueue \in Nat \ {0}

VARIABLES
    disk,       \* the preferences file
    tmp,        \* the temp file next to it
    at,         \* the next file operation of the running handler, or "idle"
    job,        \* the running handler's work
    doc,        \* the document a save is about to write
    latch,      \* asciiPersistFailureNotified_
    window,     \* the settings window: its state and the settings it shows
    apply,      \* the /apply-settings process
    running,    \* the engine process runs
    echoes,     \* input modes the engine reported, unread by the launcher
    pushed,     \* the settings update last written to the running engine
    told,       \* history: what became of the warning since a mode was saved
    outcome,    \* history: how the last failed attempt to save a mode ended
    reported    \* history: the mode the launcher was last asked to persist

fileVars    == <<disk, tmp>>
handlerVars == <<at, job, doc>>
clientVars  == <<window, apply>>
engineVars  == <<running, echoes, pushed>>
historyVars == <<told, outcome, reported>>
vars == <<fileVars, handlerVars, latch, clientVars, engineVars, historyVars>>

\* A handler's work: the settings and the mode to save, whom to answer, and the
\* attempts made so far.
Work(kind, settings, m, try) ==
    [kind |-> kind, settings |-> settings, mode |-> m, try |-> try]

NoWork == Work("none", Default, FALSE, 1)

ClientKinds == {"window", "apply"}
Works == [kind : ClientKinds \cup {"none", "persist"}, settings : Settings,
          mode : BOOLEAN, try : 1 .. Attempts]

Client(st, settings) == [st |-> st, settings |-> settings]
Gone == Client("gone", Default)
Clients == [st : {"gone", "open", "blocked", "sent", "served"}, settings : Settings]

Update(settings, m) == [settings |-> settings, mode |-> m]
Updates == [settings : Settings, mode : BOOLEAN]

\* "no": none was due.  "yes": the user was warned and nothing was saved since.
\* "ended": settings were saved since.  "lost": an exception ate the warning.
Warnings == {"no", "yes", "ended", "lost"}

TypeOK ==
    /\ disk \in Documents /\ tmp \in Documents /\ doc \in Documents
    /\ at \in {"idle", "load", "base", "temp", "rename", "push"}
    /\ job \in Works
    /\ latch \in BOOLEAN /\ running \in BOOLEAN
    /\ window \in Clients /\ apply \in Clients
    /\ echoes \in Seq(BOOLEAN) /\ pushed \in SUBSET Updates
    /\ told \in Warnings /\ outcome \in {"none", "told", "unsaid", "thrown"}
    /\ reported \in SUBSET BOOLEAN

Init ==
    /\ disk \in Found /\ tmp \in {Absent, Garbage}
    /\ at = "idle" /\ job = NoWork /\ doc = Absent
    /\ latch = FALSE
    /\ window = Gone /\ apply = Gone
    /\ running = FALSE /\ echoes = <<>> /\ pushed = {}
    /\ told = "no" /\ outcome = "none" /\ reported = {}

-----------------------------------------------------------------------------
(* The end of a handler.                                                   *)

Finish == at' = "idle" /\ job' = NoWork /\ doc' = Absent

\* The answer to a settings update: the window closes on success and stays open
\* on failure; /apply-settings exits.
Answer(ok) ==
    /\ Finish
    /\ window' = IF job.kind # "window" THEN window
                 ELSE IF ok THEN Gone ELSE [window EXCEPT !.st = "open"]
    /\ apply' = IF job.kind = "apply" THEN Gone ELSE apply

\* warnOnce: the user is warned, unless the latch says that has been done.
WarnOnce ==
    /\ latch' = TRUE
    /\ told' = IF latch THEN told ELSE "yes"
    /\ outcome' = IF told' = "yes" THEN "told" ELSE "unsaid"

\* catch (...): the handler ends without a word.  warnOnce sets the latch before
\* it enqueues the notification.
Swallow ==
    /\ outcome' = "thrown"
    /\ \/ UNCHANGED <<latch, told>>
       \/ ~latch /\ latch' = TRUE /\ told' = "lost"

\* Wrong: one attempt too many.
RetryOnceMore ==
    \/ /\ job.try <= Attempts
       /\ at' = "load" /\ job' = [job EXCEPT !.try = @ + 1] /\ doc' = Absent
       /\ UNCHANGED <<latch, told, outcome>>
    \/ /\ job.try > Attempts
       /\ Finish
       /\ WarnOnce

\* The next attempt at once, or the warning when all have failed.
Retry ==
    \/ /\ job.try < Attempts
       /\ at' = "load" /\ job' = [job EXCEPT !.try = @ + 1] /\ doc' = Absent
       /\ UNCHANGED <<latch, told, outcome>>
    \/ /\ job.try = Attempts
       /\ Finish
       /\ WarnOnce \/ Swallow

-----------------------------------------------------------------------------
(* savePreferences, shared by the two handlers.                            *)

\* Wrong: a failed save of the settings goes on to the engine.
SaveFailedUnnoticed ==
    IF job.kind = "persist" THEN Retry /\ UNCHANGED clientVars
    ELSE at' = "push" /\ UNCHANGED <<job, doc, latch, told, outcome, clientVars>>

SaveFailed ==
    \/ job.kind = "persist" /\ Retry /\ UNCHANGED clientVars
    \/ job.kind \in ClientKinds /\ Answer(FALSE) /\ UNCHANGED <<latch, told, outcome>>

\* Read the merge base; stop, having touched nothing, when it is not known.
ReadBase ==
    /\ at = "base"
    /\ \E r \in LoadResults(disk) :
        \/ PreferencesBlockWrites(r) /\ SaveFailed
        \/ /\ ~PreferencesBlockWrites(r)
           /\ doc' = Merged(disk, job.settings, job.mode)
           /\ at' = "temp"
           /\ UNCHANGED <<job, latch, told, outcome, clientVars>>
    /\ UNCHANGED <<fileVars, engineVars, reported>>

\* Wrong: the document is written in place.
WriteInPlace ==
    /\ at = "temp"
    /\ disk' = Garbage /\ tmp' = doc /\ at' = "rename"
    /\ UNCHANGED <<job, doc, latch, clientVars, engineVars, historyVars>>

\* Create the directory, write the temp file; a failed write leaves it as it was,
\* removed, or torn.
WriteTemp ==
    /\ at = "temp"
    /\ \/ /\ tmp' = doc /\ at' = "rename"
          /\ UNCHANGED <<job, doc, latch, told, outcome, clientVars>>
       \/ tmp' \in {tmp, Absent, Garbage} /\ SaveFailed
    /\ UNCHANGED <<disk, engineVars, reported>>

\* Wrong: a mode that was saved does not re-arm the warning.
RenameKeepsTheLatch ==
    /\ at = "rename"
    /\ \/ /\ disk' = tmp /\ tmp' = Absent
          /\ \/ job.kind = "persist" /\ Finish /\ told' = "no"
             \/ /\ job.kind \in ClientKinds
                /\ at' = "push" /\ told' = IF told = "yes" THEN "ended" ELSE told
                /\ UNCHANGED <<job, doc>>
          /\ UNCHANGED <<latch, outcome, clientVars>>
       \/ disk' = disk /\ tmp' \in {tmp, Absent} /\ SaveFailed
    /\ UNCHANGED <<engineVars, reported>>

\* Rename it over the file, which fails while another program has the file open.
Rename ==
    /\ at = "rename"
    /\ \/ /\ disk' = tmp /\ tmp' = Absent
          /\ \/ job.kind = "persist" /\ Finish /\ latch' = FALSE /\ told' = "no"
             \/ /\ job.kind \in ClientKinds
                /\ at' = "push" /\ told' = IF told = "yes" THEN "ended" ELSE told
                /\ UNCHANGED <<job, doc, latch>>
          /\ UNCHANGED <<outcome, clientVars>>
       \/ disk' = disk /\ tmp' \in {tmp, Absent} /\ SaveFailed
    /\ UNCHANGED <<engineVars, reported>>

-----------------------------------------------------------------------------
(* persistTypeDuckAsciiMode, for a reply of the engine that carries a mode.  *)

BeginPersist ==
    /\ at = "idle" /\ echoes # <<>>
    /\ at' = "load" /\ job' = Work("persist", Default, Head(echoes), 1)
    /\ echoes' = Tail(echoes)
    /\ reported' = {Head(echoes)} /\ outcome' = "none"
    /\ UNCHANGED <<fileVars, doc, latch, clientVars, running, pushed, told>>

\* Wrong: finding the disk in agreement re-arms the warning.
AgreesAndRearms(r) ==
    /\ PreferencesAreAuthoritative(r) /\ r.mode = job.mode
    /\ Finish
    /\ latch' = FALSE
    /\ UNCHANGED <<told, outcome>>

\* The disk says so already: nothing to save, and no proof that one could.
Agrees(r) ==
    /\ PreferencesAreAuthoritative(r) /\ r.mode = job.mode
    /\ Finish
    /\ UNCHANGED <<latch, told, outcome>>

PersistLoad ==
    /\ at = "load" /\ job.kind = "persist"
    /\ \E r \in LoadResults(disk) :
        \/ Agrees(r)
        \/ PreferencesBlockWrites(r) /\ Retry
        \/ /\ ~PreferencesBlockWrites(r)
           /\ ~(PreferencesAreAuthoritative(r) /\ r.mode = job.mode)
           /\ at' = "base" /\ job' = [job EXCEPT !.settings = r.settings]
           /\ UNCHANGED <<doc, latch, told, outcome>>
    /\ UNCHANGED <<fileVars, clientVars, engineVars, reported>>

\* Neither loading nor saving throws; what lies around and between them may.
PersistThrows ==
    /\ at = "load" /\ job.kind = "persist"
    /\ Finish
    /\ outcome' = "thrown"
    /\ UNCHANGED <<fileVars, latch, clientVars, engineVars, told, reported>>

-----------------------------------------------------------------------------
(* handleTypeDuckSettingsRequest, for an update.                           *)

BeginUpdate(kind) ==
    /\ at = "idle"
    /\ \/ /\ kind = "window" /\ window.st = "sent"
          /\ window' = [window EXCEPT !.st = "served"]
          /\ job' = Work(kind, window.settings, FALSE, 1)
          /\ UNCHANGED apply
       \/ /\ kind = "apply" /\ apply.st = "sent"
          /\ apply' = [apply EXCEPT !.st = "served"]
          /\ job' = Work(kind, apply.settings, FALSE, 1)
          /\ UNCHANGED window
    /\ at' = "load"
    /\ UNCHANGED <<fileVars, doc, latch, engineVars, historyVars>>

\* Wrong: the update is dropped without an answer.
UpdateLoadSilent ==
    /\ at = "load" /\ job.kind \in ClientKinds
    /\ \E r \in LoadResults(disk) :
        \/ PreferencesBlockWrites(r) /\ at' = "idle" /\ job' = NoWork
        \/ /\ ~PreferencesBlockWrites(r)
           /\ at' = "base" /\ job' = [job EXCEPT !.mode = r.mode]
    /\ UNCHANGED <<fileVars, doc, latch, clientVars, engineVars, historyVars>>

\* An update has every setting but asciiMode, which stays as it is on disk.
UpdateLoad ==
    /\ at = "load" /\ job.kind \in ClientKinds
    /\ \E r \in LoadResults(disk) :
        \/ PreferencesBlockWrites(r) /\ Answer(FALSE)
        \/ /\ ~PreferencesBlockWrites(r)
           /\ at' = "base" /\ job' = [job EXCEPT !.mode = r.mode]
           /\ UNCHANGED <<doc, clientVars>>
    /\ UNCHANGED <<fileVars, latch, engineVars, historyVars>>

\* applyTypeDuckPreferences: the engine is started when need be, and then the
\* update is the first message it reads.
PushUpdate ==
    /\ at = "push"
    /\ \/ /\ running' = TRUE
          /\ echoes' = IF running THEN echoes ELSE <<>>
          /\ pushed' = {Update(job.settings, job.mode)}
          /\ Answer(TRUE)
       \/ ~running /\ UNCHANGED engineVars /\ Answer(FALSE)
    /\ UNCHANGED <<fileVars, latch, historyVars>>

-----------------------------------------------------------------------------
(* TypeDuckSettings.exe.                                                   *)

OpenWindow ==
    /\ window.st = "gone"
    /\ \E r \in LoadResults(disk) :
        window' = Client(IF PreferencesBlockWrites(r) THEN "blocked" ELSE "open",
                         r.settings)
    /\ UNCHANGED <<fileVars, handlerVars, latch, apply, engineVars, historyVars>>

\* Confirm, or the X of the title bar; the user may have changed anything.
Confirm(settings) ==
    /\ window.st = "open"
    /\ window' = Client("sent", settings)
    /\ UNCHANGED <<fileVars, handlerVars, latch, apply, engineVars, historyVars>>

\* Cancel; with a file that could not be read Confirm only closes, too.
Cancel ==
    /\ window.st \in {"open", "blocked"}
    /\ window' = Gone
    /\ UNCHANGED <<fileVars, handlerVars, latch, apply, engineVars, historyVars>>

\* applyInstallSettings
ApplySettings ==
    /\ apply.st = "gone"
    /\ \E r \in LoadResults(disk) :
        /\ ~PreferencesBlockWrites(r)
        /\ apply' = Client("sent", IF r.ok THEN r.settings ELSE Default)
    /\ UNCHANGED <<fileVars, handlerVars, latch, window, engineVars, historyVars>>

-----------------------------------------------------------------------------
(* The engine process and the launcher's life.                             *)

\* startProcess and pushSavedTypeDuckPreferences.
StartEngine ==
    /\ at = "idle" /\ ~running
    /\ running' = TRUE /\ echoes' = <<>>
    /\ \E r \in LoadResults(disk) : pushed' = {Update(r.settings, r.mode)}
    /\ UNCHANGED <<fileVars, handlerVars, latch, clientVars, historyVars>>

EngineExit ==
    /\ running
    /\ running' = FALSE /\ echoes' = <<>> /\ pushed' = {}
    /\ UNCHANGED <<fileVars, handlerVars, latch, clientVars, historyVars>>

\* A Shift press or the mode icon, or the mode of a fresh engine.
Report(m) ==
    /\ running /\ Len(echoes) < MaxQueue
    /\ echoes' = Append(echoes, m)
    /\ UNCHANGED <<fileVars, handlerVars, latch, clientVars, running, pushed,
                   historyVars>>

\* The launcher dies with its handler half done and is started again; a pending
\* update fails, and the engine has lost its pipes.
Crash ==
    /\ Finish
    /\ latch' = FALSE
    /\ window' = IF window.st \in {"sent", "served"} THEN [window EXCEPT !.st = "open"] ELSE window
    /\ apply' = Gone
    /\ running' = FALSE /\ echoes' = <<>> /\ pushed' = {}
    /\ told' = "no" /\ outcome' = "none" /\ reported' = {}
    /\ UNCHANGED fileVars

-----------------------------------------------------------------------------
FileStep ==
    \/ PersistLoad \/ PersistThrows \/ UpdateLoad
    \/ ReadBase \/ WriteTemp \/ Rename \/ PushUpdate

Next ==
    \/ BeginPersist \/ \E kind \in ClientKinds : BeginUpdate(kind)
    \/ FileStep
    \/ OpenWindow \/ (\E s \in Settings : Confirm(s)) \/ Cancel \/ ApplySettings
    \/ StartEngine \/ EngineExit \/ (\E m \in BOOLEAN : Report(m))
    \/ Crash

Spec == Init /\ [][Next]_vars

\* The loop thread finishes what it runs and comes to every readable pipe.
FairSpec ==
    /\ Spec
    /\ WF_vars(FileStep)
    /\ \A kind \in ClientKinds : SF_vars(BeginUpdate(kind))

-----------------------------------------------------------------------------
(* What the code promises about the file.                                  *)

\* Seen from outside every change of the file is one complete save, of the mode
\* or of the settings, which keeps the rest, unknown keys included, and a file
\* whose contents the parser cannot judge stays as it is; whatever fails, and
\* wherever the launcher crashes (savePreferences, TypeDuckPreferences.cpp:558).
Store == INSTANCE PreferencesStore WITH store <- disk
ImplementsStore == Store!StoreSpec

\* In the life of one launcher process something was saved between two warnings:
\* a file that stays unwritable warns once, although every second Shift press
\* finds the disk in agreement (persistTypeDuckAsciiMode, rearmWarning).  A
\* launcher that was started again has forgotten that it warned.
NoNagging == [][(latch' /\ ~latch) => told # "yes"]_vars

\* The mode the engine reported last is on disk; or the user was warned in the
\* run of failures that lost it; or nobody was told, in the two cases the code
\* leaves: the latch is still on from an earlier run of failures whose end was a
\* save of settings, which does not re-arm it, or whose warning was lost; or the
\* handler ended by its catch-all.  A settings update in between does not undo it,
\* since an update saves the mode it finds on disk, not the one its sender had read.
ModeSavedOrTold ==
    at = "idle" => \A m \in reported :
        \/ PreferencesAreAuthoritative(Parsed(disk)) /\ Parsed(disk).mode = m
        \/ outcome = "told"
        \/ outcome = "unsaid" /\ told \in {"ended", "lost"}
        \/ outcome = "thrown"

\* What the two rest on: while a save is under way the file stands still, and
\* the document on its way differs from it in what the handler was asked to save.
SaveInv ==
    /\ at \in {"base", "temp", "rename"} =>
        /\ job.kind \in ClientKinds \cup {"persist"}
        /\ disk.kind # "deep"
        /\ job.kind = "persist" => job.settings = Parsed(disk).settings
        /\ job.kind \in ClientKinds => job.mode = Parsed(disk).mode
    /\ at \in {"temp", "rename"} => doc = Merged(disk, job.settings, job.mode)
    /\ at = "rename" => tmp = doc
    /\ at = "push" =>
        /\ job.kind \in ClientKinds
        /\ disk.settings = job.settings /\ disk.mode = job.mode

\* The engine is given what the file holds, never what could not be saved: but an
\* engine that is started while the file cannot be read, or judged, is given
\* defaults as if they were saved (pushSavedTypeDuckPreferences does not look at
\* the verdict of its load).
UpdatePushesWhatIsSaved ==
    [][(pushed' # pushed /\ pushed' # {})
            => \/ pushed' = {Update(disk.settings, disk.mode)}
               \/ at = "idle" /\ ~running /\ pushed' = {Update(Default, FALSE)}]_vars

\* Every settings update is answered, or its connection breaks, however often reads
\* and writes fail and whatever mode changes the loop thread saves in between: each
\* handler gives the thread back.
UpdatesAreAnswered ==
    /\ window.st = "sent" ~> window.st \in {"gone", "open"}
    /\ apply.st = "sent" ~> apply.st = "gone"

=============================================================================
