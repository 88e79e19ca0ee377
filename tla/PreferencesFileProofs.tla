----------------------- MODULE PreferencesFileProofs -----------------------
(***************************************************************************)
(* Proofs about PreferencesFile, for any number of attempts and any set of *)
(* settings: every change of the file is one complete save that keeps what *)
(* it was not asked to change, a file that stays unwritable warns once,    *)
(* and a reported mode that is not on disk has an explanation: a warning,  *)
(* or one of the two ways in which the code withholds it.                  *)
(***************************************************************************)
EXTENDS PreferencesFile, TLAPS

LEMMA EmptyIsDocument == Absent \in Documents /\ Garbage \in Documents
BY DEF Documents

LEMMA DocumentFields ==
    ASSUME NEW x \in Documents
    PROVE  /\ x = Document(x.kind, x.settings, x.mode, x.unknown, x.ranged)
           /\ x.kind \in {"absent", "garbage", "json", "deep"}
           /\ x.settings \in Settings
           /\ x.mode \in BOOLEAN /\ x.unknown \in BOOLEAN /\ x.ranged \in BOOLEAN
           /\ x.kind = "absent" => x = Absent
           /\ x.kind = "garbage" => x = Garbage
<1>1. CASE x = Absent
  BY <1>1, DefaultAssumption DEF Absent, Empty, Document
<1>2. CASE x = Garbage
  BY <1>2, DefaultAssumption DEF Garbage, Empty, Document
<1>3. CASE x \in Json
  BY <1>3 DEF Json, Document
<1>4. CASE x \in Deep
  BY <1>4 DEF Deep, Document
<1>5. x \in {Absent, Garbage} \cup Json \cup Deep
  BY DEF Documents
<1>6. x = Absent \/ x = Garbage \/ x \in Json \/ x \in Deep
  BY <1>5
<1> QED BY <1>1, <1>2, <1>3, <1>4, <1>6

\* preferencesToJson returns a document, the one the store's two saves describe.
LEMMA MergedIsDocument ==
    ASSUME NEW x \in Documents, NEW s \in Settings, NEW m \in BOOLEAN
    PROVE  Merged(x, s, m) \in Documents
<1> DEFINE u == x.kind = "json" /\ x.unknown
<1>1. u \in BOOLEAN /\ TRUE \in BOOLEAN
  OBVIOUS
<1> HIDE DEF u
<1>2. Document("json", s, m, u, TRUE) \in Json
  BY <1>1 DEF Json, Document
<1>3. Merged(x, s, m) = Document("json", s, m, u, TRUE)
  BY DEF Merged, u
<1> QED BY <1>2, <1>3 DEF Documents

LEMMA MergedFields ==
    ASSUME NEW x, NEW s, NEW m
    PROVE  /\ Merged(x, s, m).kind = "json"
           /\ Merged(x, s, m).settings = s
           /\ Merged(x, s, m).mode = m
BY DEF Merged, Document

LEMMA ParsedFields ==
    ASSUME NEW x \in Documents
    PROVE  /\ Parsed(x).settings \in Settings
           /\ Parsed(x).mode \in BOOLEAN
           /\ x.kind = "deep" => PreferencesBlockWrites(Parsed(x))
           /\ PreferencesAreAuthoritative(Parsed(x)) <=> x.kind \in {"absent", "json"}
BY DocumentFields, DefaultAssumption
   DEF Parsed, Loaded, Invented, PreferencesBlockWrites, PreferencesAreAuthoritative

\* Whoever may write has read what the file holds.
LEMMA WritersHaveRead ==
    ASSUME NEW x \in Documents, NEW r \in LoadResults(x)
    PROVE  /\ r.settings \in Settings /\ r.mode \in BOOLEAN
           /\ ~PreferencesBlockWrites(r) => r = Parsed(x) /\ x.kind # "deep"
           /\ PreferencesAreAuthoritative(r) => r = Parsed(x)
<1>1. CASE r = Parsed(x)
  BY <1>1, ParsedFields
<1>2. CASE r = Invented("IoError")
  BY <1>2, DefaultAssumption
     DEF Invented, Loaded, PreferencesBlockWrites, PreferencesAreAuthoritative
<1> QED BY <1>1, <1>2 DEF LoadResults

-----------------------------------------------------------------------------
(* Type correctness.                                                       *)

LEMMA ConstantsAreTyped ==
    /\ Gone \in Clients /\ NoWork \in Works
    /\ \A k \in ClientKinds \cup {"none", "persist"}, x \in Settings, m \in BOOLEAN :
           Work(k, x, m, 1) \in Works
BY DefaultAssumption, AttemptsAssumption
   DEF Gone, Client, Clients, NoWork, Work, Works

LEMMA FinishTypes ==
    ASSUME Finish
    PROVE  /\ at' = "idle" /\ job' \in Works /\ doc' \in Documents
BY ConstantsAreTyped, EmptyIsDocument DEF Finish

LEMMA AnswerTypes ==
    ASSUME TypeOK, NEW ok \in BOOLEAN, Answer(ok)
    PROVE  /\ at' = "idle" /\ job' \in Works /\ doc' \in Documents
           /\ window' \in Clients /\ apply' \in Clients
<1>1. Finish
  BY DEF Answer
<1>2. window' \in Clients
  <2>1. [window EXCEPT !.st = "open"] \in Clients
    BY DEF TypeOK, Clients
  <2> QED BY <2>1, ConstantsAreTyped DEF Answer, TypeOK
<1>3. apply' \in Clients
  BY ConstantsAreTyped DEF Answer, TypeOK
<1> QED BY <1>1, <1>2, <1>3, FinishTypes

HistoryTypes ==
    told \in Warnings /\ outcome \in {"none", "told", "unsaid", "thrown"}

LEMMA WarnTypes ==
    ASSUME TypeOK, WarnOnce \/ Swallow
    PROVE  latch' \in BOOLEAN /\ HistoryTypes'
<1>1. CASE WarnOnce
  <2>1. told' \in Warnings
    BY <1>1 DEF WarnOnce, Warnings, TypeOK
  <2> QED BY <1>1, <2>1 DEF WarnOnce, HistoryTypes
<1>2. CASE Swallow
  BY <1>2 DEF Swallow, Warnings, HistoryTypes, TypeOK
<1> QED BY <1>1, <1>2

LEMMA RetryTypes ==
    ASSUME TypeOK, Retry
    PROVE  /\ at' \in {"idle", "load"} /\ job' \in Works /\ doc' \in Documents
           /\ latch' \in BOOLEAN /\ HistoryTypes'
<1>1. CASE Finish /\ (WarnOnce \/ Swallow)
  BY <1>1, FinishTypes, WarnTypes
<1>2. CASE /\ job.try < Attempts
           /\ at' = "load" /\ job' = [job EXCEPT !.try = @ + 1] /\ doc' = Absent
           /\ UNCHANGED <<latch, told, outcome>>
  <2>1. job' \in Works
    BY <1>2, AttemptsAssumption DEF TypeOK, Works
  <2> QED BY <1>2, <2>1, EmptyIsDocument DEF TypeOK, HistoryTypes
<1> QED BY <1>1, <1>2 DEF Retry

LEMMA SaveFailedTypes ==
    ASSUME TypeOK, SaveFailed
    PROVE  /\ at' \in {"idle", "load"} /\ job' \in Works /\ doc' \in Documents
           /\ latch' \in BOOLEAN /\ HistoryTypes'
           /\ window' \in Clients /\ apply' \in Clients
<1>1. CASE Retry /\ UNCHANGED clientVars
  BY <1>1, RetryTypes DEF clientVars, TypeOK
<1>2. CASE Answer(FALSE) /\ UNCHANGED <<latch, told, outcome>>
  BY <1>2, AnswerTypes DEF TypeOK, HistoryTypes
<1> QED BY <1>1, <1>2 DEF SaveFailed

LEMMA InitTypes == Init => TypeOK
<1> SUFFICES ASSUME Init PROVE TypeOK
  OBVIOUS
<1>1. disk \in Documents /\ tmp \in Documents /\ doc \in Documents
  BY EmptyIsDocument, FoundAssumption DEF Init
<1>2. job \in Works /\ window \in Clients /\ apply \in Clients
  BY ConstantsAreTyped DEF Init
<1>3. echoes \in Seq(BOOLEAN)
  BY DEF Init
<1> QED BY <1>1, <1>2, <1>3 DEF Init, TypeOK, Warnings

LEMMA FileStepTypes == TypeOK /\ FileStep => TypeOK'
<1> SUFFICES ASSUME TypeOK, FileStep PROVE TypeOK'
  OBVIOUS
<1> USE DEF fileVars, clientVars, engineVars, historyVars
<1>1. CASE PersistLoad
  <2>1. PICK r \in LoadResults(disk) :
          \/ Agrees(r)
          \/ PreferencesBlockWrites(r) /\ Retry
          \/ /\ at' = "base" /\ job' = [job EXCEPT !.settings = r.settings]
             /\ UNCHANGED <<doc, latch, told, outcome>>
    BY <1>1 DEF PersistLoad
  <2>2. UNCHANGED <<fileVars, clientVars, engineVars, reported>>
    BY <1>1 DEF PersistLoad
  <2>3. CASE Agrees(r)
    BY <2>2, <2>3, FinishTypes DEF Agrees, TypeOK
  <2>4. CASE Retry
    BY <2>2, <2>4, RetryTypes DEF TypeOK, HistoryTypes
  <2>5. CASE /\ at' = "base" /\ job' = [job EXCEPT !.settings = r.settings]
             /\ UNCHANGED <<doc, latch, told, outcome>>
    <3>1. r.settings \in Settings
      BY WritersHaveRead DEF TypeOK
    <3>2. job' \in Works
      BY <2>5, <3>1 DEF TypeOK, Works
    <3> QED BY <2>2, <2>5, <3>2 DEF TypeOK
  <2> QED BY <2>1, <2>3, <2>4, <2>5
<1>2. CASE UpdateLoad
  <2>1. PICK r \in LoadResults(disk) :
          \/ Answer(FALSE)
          \/ /\ at' = "base" /\ job' = [job EXCEPT !.mode = r.mode]
             /\ UNCHANGED <<doc, clientVars>>
    BY <1>2 DEF UpdateLoad
  <2>2. UNCHANGED <<fileVars, latch, engineVars, historyVars>>
    BY <1>2 DEF UpdateLoad
  <2>3. CASE Answer(FALSE)
    BY <2>2, <2>3, AnswerTypes DEF TypeOK
  <2>4. CASE /\ at' = "base" /\ job' = [job EXCEPT !.mode = r.mode]
             /\ UNCHANGED <<doc, clientVars>>
    <3>1. r.mode \in BOOLEAN
      BY WritersHaveRead DEF TypeOK
    <3>2. job' \in Works
      BY <2>4, <3>1 DEF TypeOK, Works
    <3> QED BY <2>2, <2>4, <3>2 DEF TypeOK
  <2> QED BY <2>1, <2>3, <2>4
<1>3. CASE ReadBase
  <2>1. UNCHANGED <<fileVars, engineVars, reported>>
    BY <1>3 DEF ReadBase
  <2>2. CASE SaveFailed
    BY <2>1, <2>2, SaveFailedTypes DEF TypeOK, HistoryTypes
  <2>3. CASE /\ doc' = Merged(disk, job.settings, job.mode)
             /\ at' = "temp"
             /\ UNCHANGED <<job, latch, told, outcome, clientVars>>
    <3>1. doc' \in Documents
      BY <2>3, MergedIsDocument DEF TypeOK, Works
    <3> QED BY <2>1, <2>3, <3>1 DEF TypeOK
  <2> QED BY <1>3, <2>2, <2>3 DEF ReadBase
<1>4. CASE WriteTemp
  <2>1. UNCHANGED <<disk, engineVars, reported>>
    BY <1>4 DEF WriteTemp
  <2>2. CASE tmp' \in {tmp, Absent, Garbage} /\ SaveFailed
    BY <2>1, <2>2, SaveFailedTypes, EmptyIsDocument DEF TypeOK, HistoryTypes
  <2>3. CASE /\ tmp' = doc /\ at' = "rename"
             /\ UNCHANGED <<job, doc, latch, told, outcome, clientVars>>
    BY <2>1, <2>3 DEF TypeOK
  <2> QED BY <1>4, <2>2, <2>3 DEF WriteTemp
<1>5. CASE Rename
  <2>1. UNCHANGED <<engineVars, reported>>
    BY <1>5 DEF Rename
  <2>2. CASE disk' = disk /\ tmp' \in {tmp, Absent} /\ SaveFailed
    BY <2>1, <2>2, SaveFailedTypes, EmptyIsDocument DEF TypeOK, HistoryTypes
  <2>3. CASE /\ disk' = tmp /\ tmp' = Absent
             /\ Finish /\ latch' = FALSE /\ told' = "no"
             /\ UNCHANGED <<outcome, clientVars>>
    BY <2>1, <2>3, FinishTypes, EmptyIsDocument DEF TypeOK, Warnings
  <2>4. CASE /\ disk' = tmp /\ tmp' = Absent
             /\ at' = "push" /\ told' = IF told = "yes" THEN "ended" ELSE told
             /\ UNCHANGED <<job, doc, latch, outcome, clientVars>>
    <3>1. told' \in Warnings
      BY <2>4 DEF TypeOK, Warnings
    <3> QED BY <2>1, <2>4, <3>1, EmptyIsDocument DEF TypeOK
  <2> QED BY <1>5, <2>2, <2>3, <2>4 DEF Rename
<1>6. CASE PushUpdate
  <2>1. UNCHANGED <<fileVars, latch, historyVars>>
    BY <1>6 DEF PushUpdate
  <2>2. \E ok \in BOOLEAN : Answer(ok)
    BY <1>6 DEF PushUpdate
  <2>3. Update(job.settings, job.mode) \in Updates
    BY DEF TypeOK, Update, Updates, Works
  <2>4. echoes' \in Seq(BOOLEAN)
    <3>1. echoes' = echoes \/ echoes' = <<>>
      BY <1>6 DEF PushUpdate
    <3>2. echoes \in Seq(BOOLEAN) /\ <<>> \in Seq(BOOLEAN)
      BY DEF TypeOK
    <3> QED BY <3>1, <3>2
  <2>5. running' \in BOOLEAN /\ pushed' \in SUBSET Updates
    BY <1>6, <2>3 DEF PushUpdate, TypeOK
  <2> QED BY <2>1, <2>2, <2>4, <2>5, AnswerTypes DEF TypeOK
<1>7. CASE PersistThrows
  BY <1>7, FinishTypes DEF PersistThrows, TypeOK
<1> QED BY <1>1, <1>2, <1>3, <1>4, <1>5, <1>6, <1>7 DEF FileStep

LEMMA OtherStepTypes ==
    TypeOK /\ [Next]_vars /\ ~FileStep => TypeOK'
<1> SUFFICES ASSUME TypeOK, [Next]_vars, ~FileStep PROVE TypeOK'
  OBVIOUS
<1> USE DEF fileVars, handlerVars, clientVars, engineVars, historyVars
<1>1. CASE BeginPersist
  <2>1. Head(echoes) \in BOOLEAN /\ Tail(echoes) \in Seq(BOOLEAN)
    BY <1>1 DEF BeginPersist, TypeOK
  <2>2. Work("persist", Default, Head(echoes), 1) \in Works
    BY <2>1, ConstantsAreTyped, DefaultAssumption
  <2> QED BY <1>1, <2>1, <2>2 DEF BeginPersist, TypeOK
<1>2. ASSUME NEW kind \in ClientKinds, BeginUpdate(kind)
      PROVE  TypeOK'
  <2>1. window.settings \in Settings /\ apply.settings \in Settings
    BY DEF TypeOK, Clients
  <2>2. /\ Work(kind, window.settings, FALSE, 1) \in Works
        /\ Work(kind, apply.settings, FALSE, 1) \in Works
    BY <2>1, ConstantsAreTyped
  <2>3. /\ [window EXCEPT !.st = "served"] \in Clients
        /\ [apply EXCEPT !.st = "served"] \in Clients
    BY DEF TypeOK, Clients
  <2> QED BY <1>2, <2>2, <2>3 DEF BeginUpdate, TypeOK
<1>3. CASE OpenWindow
  <2>1. PICK r \in LoadResults(disk) :
          window' = Client(IF PreferencesBlockWrites(r) THEN "blocked" ELSE "open", r.settings)
    BY <1>3 DEF OpenWindow
  <2>2. r.settings \in Settings
    BY WritersHaveRead DEF TypeOK
  <2> QED BY <1>3, <2>1, <2>2 DEF OpenWindow, Client, Clients, TypeOK
<1>4. ASSUME NEW s \in Settings, Confirm(s)
      PROVE  TypeOK'
  BY <1>4 DEF Confirm, Client, Clients, TypeOK
<1>5. CASE Cancel
  BY <1>5, ConstantsAreTyped DEF Cancel, TypeOK
<1>6. CASE ApplySettings
  <2>1. PICK r \in LoadResults(disk) :
          apply' = Client("sent", IF r.ok THEN r.settings ELSE Default)
    BY <1>6 DEF ApplySettings
  <2>2. r.settings \in Settings
    BY WritersHaveRead DEF TypeOK
  <2> QED BY <1>6, <2>1, <2>2, DefaultAssumption DEF ApplySettings, Client, Clients, TypeOK
<1>7. CASE StartEngine
  <2>1. PICK r \in LoadResults(disk) : pushed' = {Update(r.settings, r.mode)}
    BY <1>7 DEF StartEngine
  <2>2. r.settings \in Settings /\ r.mode \in BOOLEAN
    BY WritersHaveRead DEF TypeOK
  <2>3. pushed' \in SUBSET Updates
    BY <2>1, <2>2 DEF Update, Updates
  <2>4. echoes' \in Seq(BOOLEAN)
    BY <1>7 DEF StartEngine
  <2> QED BY <1>7, <2>3, <2>4 DEF StartEngine, TypeOK
<1>8. CASE EngineExit
  <2>1. echoes' \in Seq(BOOLEAN)
    BY <1>8 DEF EngineExit
  <2> QED BY <1>8, <2>1 DEF EngineExit, TypeOK
<1>9. ASSUME NEW m \in BOOLEAN, Report(m)
      PROVE  TypeOK'
  BY <1>9 DEF Report, TypeOK
<1>10. CASE Crash
  <2>1. echoes' \in Seq(BOOLEAN)
    BY <1>10 DEF Crash
  <2>2. [window EXCEPT !.st = "open"] \in Clients
    BY DEF TypeOK, Clients
  <2> QED BY <1>10, <2>1, <2>2, FinishTypes, ConstantsAreTyped DEF Crash, TypeOK, Warnings
<1>11. CASE UNCHANGED vars
  BY <1>11 DEF vars, TypeOK
<1> QED BY <1>1, <1>2, <1>3, <1>4, <1>5, <1>6, <1>7, <1>8, <1>9, <1>10, <1>11 DEF Next

\* Every variable keeps its type, whatever crashes and whatever fails.
THEOREM TypeCorrect == Spec => []TypeOK
<1>1. TypeOK /\ [Next]_vars => TypeOK'
  BY FileStepTypes, OtherStepTypes
<1> QED BY <1>1, InitTypes, PTL DEF Spec

-----------------------------------------------------------------------------
(* What a save is about to write.  SaveInv is inductive: a handler runs to *)
(* its end before the next one starts, so the file stands still under it.  *)

LEMMA SaveFailedLeaves == SaveFailed => at' \in {"idle", "load"}
BY DEF SaveFailed, Retry, Answer, Finish

LEMMA FileStepSaves == TypeOK /\ SaveInv /\ FileStep => SaveInv'
<1> SUFFICES ASSUME TypeOK, SaveInv, FileStep PROVE SaveInv'
  OBVIOUS
<1> USE DEF fileVars, clientVars, engineVars, historyVars
<1>1. ASSUME at' \in {"idle", "load"}
      PROVE  SaveInv'
  BY <1>1 DEF SaveInv
<1>2. CASE PersistLoad
  <2>1. PICK r \in LoadResults(disk) :
          \/ at' \in {"idle", "load"}
          \/ /\ ~PreferencesBlockWrites(r)
             /\ at' = "base" /\ job' = [job EXCEPT !.settings = r.settings]
    BY <1>2 DEF PersistLoad, Agrees, Retry, Finish
  <2>2. disk' = disk /\ job.kind = "persist"
    BY <1>2 DEF PersistLoad
  <2>3. CASE /\ ~PreferencesBlockWrites(r)
             /\ at' = "base" /\ job' = [job EXCEPT !.settings = r.settings]
    <3>1. r = Parsed(disk) /\ disk.kind # "deep"
      BY <2>3, WritersHaveRead DEF TypeOK
    <3>2. job'.kind = "persist" /\ job'.settings = r.settings
      BY <2>2, <2>3 DEF TypeOK, Works
    <3> QED BY <2>2, <2>3, <3>1, <3>2 DEF SaveInv, ClientKinds
  <2> QED BY <1>1, <2>1, <2>3
<1>3. CASE UpdateLoad
  <2>1. PICK r \in LoadResults(disk) :
          \/ at' \in {"idle", "load"}
          \/ /\ ~PreferencesBlockWrites(r)
             /\ at' = "base" /\ job' = [job EXCEPT !.mode = r.mode]
    BY <1>3 DEF UpdateLoad, Answer, Finish
  <2>2. disk' = disk /\ job.kind \in ClientKinds
    BY <1>3 DEF UpdateLoad
  <2>3. CASE /\ ~PreferencesBlockWrites(r)
             /\ at' = "base" /\ job' = [job EXCEPT !.mode = r.mode]
    <3>1. r = Parsed(disk) /\ disk.kind # "deep"
      BY <2>3, WritersHaveRead DEF TypeOK
    <3>2. job'.kind \in ClientKinds /\ job'.mode = r.mode
      BY <2>2, <2>3 DEF TypeOK, Works
    <3> QED BY <2>2, <2>3, <3>1, <3>2 DEF SaveInv, ClientKinds
  <2> QED BY <1>1, <2>1, <2>3
<1>4. CASE ReadBase
  <2>1. \/ at' \in {"idle", "load"}
        \/ /\ doc' = Merged(disk, job.settings, job.mode)
           /\ at' = "temp" /\ job' = job
    BY <1>4, SaveFailedLeaves DEF ReadBase
  <2>2. disk' = disk /\ at = "base"
    BY <1>4 DEF ReadBase
  <2> QED BY <1>1, <2>1, <2>2 DEF SaveInv
<1>5. CASE WriteTemp
  <2>1. \/ at' \in {"idle", "load"}
        \/ tmp' = doc /\ at' = "rename" /\ job' = job /\ doc' = doc
    BY <1>5, SaveFailedLeaves DEF WriteTemp
  <2>2. disk' = disk /\ at = "temp"
    BY <1>5 DEF WriteTemp
  <2> QED BY <1>1, <2>1, <2>2 DEF SaveInv
<1>6. CASE Rename
  <2>1. \/ at' \in {"idle", "load"}
        \/ /\ disk' = tmp /\ at' = "push" /\ job.kind \in ClientKinds
           /\ job' = job /\ doc' = doc
    BY <1>6, SaveFailedLeaves DEF Rename, Finish
  <2>2. tmp = Merged(disk, job.settings, job.mode)
    BY <1>6 DEF Rename, SaveInv
  <2> QED BY <1>1, <2>1, <2>2, MergedFields DEF SaveInv
<1>7. CASE PushUpdate
  BY <1>1, <1>7 DEF PushUpdate, Answer, Finish
<1>8. CASE PersistThrows
  BY <1>1, <1>8 DEF PersistThrows, Finish
<1> QED BY <1>2, <1>3, <1>4, <1>5, <1>6, <1>7, <1>8 DEF FileStep

\* Outside FileStep the file stands still, and a step of a handler either starts
\* it or ends it.
LEMMA OtherStepsStandStill ==
    [Next]_vars /\ ~FileStep =>
        /\ disk' = disk
        /\ \/ UNCHANGED <<tmp, at, job, doc>>
           \/ at' \in {"idle", "load"}
BY DEF Next, vars, fileVars, handlerVars, BeginPersist, BeginUpdate, OpenWindow, Confirm,
       Cancel, ApplySettings, StartEngine, EngineExit, Report, Crash, Finish

LEMMA SaveInvStep == TypeOK /\ SaveInv /\ [Next]_vars => SaveInv'
<1>1. SaveInv /\ [Next]_vars /\ ~FileStep => SaveInv'
  BY OtherStepsStandStill DEF SaveInv
<1> QED BY <1>1, FileStepSaves

\* What a save has read is still what the file holds when the rename replaces it.
THEOREM SavesAreCurrent == Spec => []SaveInv
<1>1. Init => SaveInv
  BY DEF Init, SaveInv
<1> QED BY <1>1, SaveInvStep, TypeCorrect, PTL DEF Spec

-----------------------------------------------------------------------------
(* The refinement: the step that renames the temp file is the store's save. *)

LEMMA ReadableIs ==
    ASSUME disk \in Documents, disk.kind # "deep"
    PROVE  Store!Readable = Document("json", Parsed(disk).settings, Parsed(disk).mode,
                                     disk.kind = "json" /\ disk.unknown, TRUE)
<1>1. CASE disk.kind = "json"
  <2>1. /\ Parsed(disk).settings = disk.settings
        /\ Parsed(disk).mode = disk.mode
    BY <1>1 DEF Parsed, Loaded
  <2>2. disk = Document("json", disk.settings, disk.mode, disk.unknown, disk.ranged)
    BY <1>1, DocumentFields
  <2>3. (disk.kind = "json" /\ disk.unknown) = disk.unknown
    BY <1>1, DocumentFields
  <2> DEFINE t == TRUE
  <2> HIDE DEF t
  <2>4. [disk EXCEPT !.ranged = t] =
            Document("json", disk.settings, disk.mode, disk.unknown, t)
    BY <2>2 DEF Document
  <2> QED BY <1>1, <2>1, <2>3, <2>4 DEF Store!Readable, t
<1>2. CASE disk.kind \in {"absent", "garbage"}
  <2>1. Parsed(disk).settings = Default /\ Parsed(disk).mode = FALSE
    BY <1>2 DEF Parsed, Loaded, Invented
  <2>2. (disk.kind = "json" /\ disk.unknown) = FALSE
    BY <1>2
  <2> QED BY <1>2, <2>1, <2>2
          DEF Store!Readable, Store!Empty, Store!Document, Document
<1> QED BY <1>1, <1>2, DocumentFields

\* savePreferences, asked for another mode, or for other settings.
LEMMA MergedIsASave ==
    ASSUME disk \in Documents, disk.kind # "deep", NEW m, NEW x
    PROVE  /\ Merged(disk, Parsed(disk).settings, m) = [Store!Readable EXCEPT !.mode = m]
           /\ Merged(disk, x, Parsed(disk).mode) = [Store!Readable EXCEPT !.settings = x]
<1> DEFINE t == TRUE
           u == disk.kind = "json" /\ disk.unknown
<1>1. /\ Store!Readable = Document("json", Parsed(disk).settings, Parsed(disk).mode, u, t)
      /\ Merged(disk, Parsed(disk).settings, m) = Document("json", Parsed(disk).settings, m, u, t)
      /\ Merged(disk, x, Parsed(disk).mode) = Document("json", x, Parsed(disk).mode, u, t)
  BY ReadableIs DEF Merged
<1> HIDE DEF t, u
<1> QED BY <1>1 DEF Document

LEMMA StepIsAStoreStep ==
    TypeOK /\ SaveInv /\ [Next]_vars => [Store!StoreNext]_disk
<1> SUFFICES ASSUME TypeOK, SaveInv, [Next]_vars, disk' # disk
             PROVE  Store!StoreNext
  OBVIOUS
<1>1. Rename /\ disk' = tmp
  <2>1. FileStep
    BY OtherStepsStandStill
  <2> QED BY <2>1 DEF FileStep, PersistLoad, PersistThrows, UpdateLoad, ReadBase,
                      WriteTemp, Rename, PushUpdate, fileVars
<1>2. /\ disk' = Merged(disk, job.settings, job.mode)
      /\ disk.kind # "deep" /\ disk \in Documents
      /\ job.settings \in Settings /\ job.mode \in BOOLEAN
      /\ job.kind \in ClientKinds \cup {"persist"}
  BY <1>1 DEF Rename, SaveInv, TypeOK, Works
<1>3. CASE job.kind = "persist"
  <2>1. job.settings = Parsed(disk).settings
    BY <1>1, <1>3 DEF Rename, SaveInv
  <2>2. Store!SaveMode(job.mode)
    BY <1>2, <2>1, MergedIsASave DEF Store!SaveMode
  <2> QED BY <1>2, <2>2 DEF Store!StoreNext
<1>4. CASE job.kind \in ClientKinds
  <2>1. job.mode = Parsed(disk).mode
    BY <1>1, <1>4 DEF Rename, SaveInv
  <2>2. Store!SaveSettings(job.settings)
    BY <1>2, <2>1, MergedIsASave DEF Store!SaveSettings
  <2> QED BY <1>2, <2>2 DEF Store!StoreNext
<1> QED BY <1>2, <1>3, <1>4

\* The file changes by whole saves only, each of which changes the mode or the
\* settings and keeps the rest (savePreferences behind its two callers).
THEOREM FileIsAStore == Spec => ImplementsStore
<1>1. Init => Store!StoreInit
  BY FoundAssumption DEF Init, Store!StoreInit, Store!Documents, Documents, Store!Absent, Absent,
         Store!Garbage, Garbage, Store!Json, Json, Store!Deep, Deep,
         Store!Empty, Empty, Store!Document, Document
<1> QED BY <1>1, StepIsAStoreStep, TypeCorrect, SavesAreCurrent, PTL
        DEF Spec, ImplementsStore, Store!StoreSpec

\* What a settings update gives the engine is what the file holds
\* (handleTypeDuckSettingsRequest, applyTypeDuckPreferences); a load gives it that,
\* or defaults (pushSavedTypeDuckPreferences).
LEMMA LoadsAreSavedOrInvented ==
    ASSUME disk \in Documents, NEW r \in LoadResults(disk)
    PROVE  \/ r.settings = disk.settings /\ r.mode = disk.mode
           \/ r.settings = Default /\ r.mode = FALSE
<1>1. CASE r = Parsed(disk) /\ disk.kind = "json"
  BY <1>1 DEF Parsed, Loaded
<1>2. CASE r = Parsed(disk) /\ disk.kind \in {"absent", "garbage", "deep"}
  BY <1>2 DEF Parsed, Loaded, Invented
<1>3. CASE r = Invented("IoError")
  BY <1>3 DEF Loaded, Invented
<1> QED BY <1>1, <1>2, <1>3, DocumentFields DEF LoadResults

THEOREM EngineGetsWhatIsSaved == Spec => UpdatePushesWhatIsSaved
<1> DEFINE Saved == pushed' = {Update(disk.settings, disk.mode)}
           Defaults == at = "idle" /\ ~running /\ pushed' = {Update(Default, FALSE)}
           Pushed == (pushed' # pushed /\ pushed' # {}) => Saved \/ Defaults
<1>1. TypeOK /\ SaveInv /\ [Next]_vars => [Pushed]_vars
  <2> SUFFICES ASSUME TypeOK, SaveInv, [Next]_vars, pushed' # pushed, pushed' # {}
               PROVE  Saved \/ Defaults
    OBVIOUS
  <2>1. PushUpdate \/ StartEngine
    BY DEF Next, FileStep, vars, handlerVars, clientVars, engineVars, BeginPersist,
           BeginUpdate, PersistLoad, PersistThrows, UpdateLoad, ReadBase, WriteTemp, Rename, OpenWindow,
           Confirm, Cancel, ApplySettings, EngineExit, Report, Crash
  <2>2. CASE PushUpdate
    BY <2>2 DEF PushUpdate, SaveInv, engineVars
  <2>3. CASE StartEngine
    <3>1. PICK r \in LoadResults(disk) : pushed' = {Update(r.settings, r.mode)}
      BY <2>3 DEF StartEngine
    <3>2. disk \in Documents /\ at = "idle" /\ ~running
      BY <2>3 DEF TypeOK, StartEngine
    <3> QED BY <3>1, <3>2, LoadsAreSavedOrInvented
  <2> QED BY <2>1, <2>2, <2>3
<1> QED BY <1>1, SavesAreCurrent, TypeCorrect, PTL DEF Spec, UpdatePushesWhatIsSaved

-----------------------------------------------------------------------------
(* One warning per outage.                                                 *)

\* The latch is on from a warning, or the loss of one, to the next save of a mode.
Warned == latch <=> told # "no"

LEMMA WarnedStep == TypeOK /\ Warned /\ [Next]_vars => Warned'
<1> SUFFICES ASSUME TypeOK, Warned, [Next]_vars PROVE Warned'
  OBVIOUS
<1> USE DEF fileVars, handlerVars, clientVars, engineVars, historyVars
<1>0. latch \in BOOLEAN /\ told \in Warnings
  BY DEF TypeOK
<1>1. CASE UNCHANGED <<latch, told>>
  BY <1>1 DEF Warned
<1>2. CASE WarnOnce
  <2>1. CASE latch
    BY <1>2, <2>1 DEF WarnOnce, Warned
  <2>2. CASE ~latch
    BY <1>2, <2>2 DEF WarnOnce, Warned
  <2> QED BY <1>0, <2>1, <2>2
<1>3. CASE Swallow
  BY <1>3 DEF Swallow, Warned
<1>4. CASE latch' = FALSE /\ told' = "no"
  BY <1>4 DEF Warned
<1>5. CASE latch' = latch /\ told' = IF told = "yes" THEN "ended" ELSE told
  BY <1>5 DEF Warned
<1>6. SaveFailed => UNCHANGED <<latch, told>> \/ WarnOnce \/ Swallow
  BY DEF SaveFailed, Retry
<1>7. FileStep => \/ UNCHANGED <<latch, told>> \/ WarnOnce \/ Swallow
                  \/ latch' = FALSE /\ told' = "no"
                  \/ latch' = latch /\ told' = IF told = "yes" THEN "ended" ELSE told
  BY <1>6 DEF FileStep, PersistLoad, PersistThrows, Agrees, Retry, UpdateLoad, ReadBase,
              WriteTemp, Rename, PushUpdate
<1>8. [Next]_vars /\ ~FileStep =>
          UNCHANGED <<latch, told>> \/ (latch' = FALSE /\ told' = "no")
  BY DEF Next, vars, BeginPersist, BeginUpdate, OpenWindow, Confirm, Cancel, ApplySettings,
         StartEngine, EngineExit, Report, Crash
<1> QED BY <1>1, <1>2, <1>3, <1>4, <1>5, <1>7, <1>8

LEMMA LatchIsExplained == Spec => []Warned
<1>1. Init => Warned
  BY DEF Init, Warned
<1> QED BY <1>1, WarnedStep, TypeCorrect, PTL DEF Spec

\* In the life of one launcher process something was saved between two warnings
\* (asciiPersistFailureNotified_).
THEOREM NobodyIsNagged == Spec => NoNagging
<1>1. Warned => ((latch' /\ ~latch) => told # "yes")
  BY DEF Warned
<1>2. Warned /\ [Next]_vars => [(latch' /\ ~latch) => told # "yes"]_vars
  BY <1>1
<1> QED BY <1>2, LatchIsExplained, PTL DEF Spec, NoNagging

-----------------------------------------------------------------------------
(* The reported mode is on disk, or the user knows, or the code has let the *)
(* two cases happen in which nobody is told.                               *)

OnDisk(m) == PreferencesAreAuthoritative(Parsed(disk)) /\ Parsed(disk).mode = m

Explained ==
    \/ outcome = "told"
    \/ outcome = "unsaid" /\ told \in {"ended", "lost"}
    \/ outcome = "thrown"

\* While persistTypeDuckAsciiMode runs it owes the mode it was called with; when
\* it does not run nothing is owed.
ModeInv ==
    /\ at = "idle" => job = NoWork
    /\ job.kind = "persist" => reported = {job.mode}
    /\ job.kind # "persist" => \A m \in reported : OnDisk(m) \/ Explained

LEMMA IdleIsNoPersist == NoWork.kind = "none" /\ "none" \notin ClientKinds
BY DEF NoWork, Work, ClientKinds

LEMMA JsonParses ==
    ASSUME NEW x, x.kind = "json"
    PROVE  Parsed(x).source = "File" /\ Parsed(x).mode = x.mode
BY DEF Parsed, Loaded

LEMMA MergedParses ==
    ASSUME NEW x, NEW s, NEW m
    PROVE  /\ PreferencesAreAuthoritative(Parsed(Merged(x, s, m)))
           /\ Parsed(Merged(x, s, m)).mode = m
BY MergedFields, JsonParses DEF PreferencesAreAuthoritative

LEMMA EndsExplained ==
    ASSUME TypeOK, Warned, WarnOnce \/ Swallow
    PROVE  Explained'
<1>1. CASE WarnOnce /\ told' = "yes"
  BY <1>1 DEF WarnOnce, Explained
<1>2. CASE WarnOnce /\ told' # "yes"
  <2>1. latch
    BY <1>2 DEF WarnOnce
  <2>2. told' = told /\ told \in {"ended", "lost"}
    BY <1>2, <2>1 DEF WarnOnce, Warned, TypeOK, Warnings
  <2> QED BY <1>2, <2>2 DEF WarnOnce, Explained
<1>3. CASE Swallow
  BY <1>3 DEF Swallow, Explained
<1> QED BY <1>1, <1>2, <1>3

LEMMA RetryKeepsMode ==
    ASSUME TypeOK, Warned, ModeInv, job.kind = "persist", Retry,
           reported' = reported
    PROVE  ModeInv'
<1>1. CASE Finish /\ (WarnOnce \/ Swallow)
  <2>1. Explained'
    BY <1>1, EndsExplained
  <2> QED BY <1>1, <2>1, IdleIsNoPersist DEF Finish, ModeInv
<1>2. CASE at' = "load" /\ job' = [job EXCEPT !.try = @ + 1]
  BY <1>2 DEF ModeInv, TypeOK, Works
<1> QED BY <1>1, <1>2 DEF Retry

LEMMA AnswerKeepsMode ==
    ASSUME ModeInv, job.kind # "persist", NEW ok \in BOOLEAN, Answer(ok),
           UNCHANGED <<disk, told, outcome, reported>>
    PROVE  ModeInv'
BY IdleIsNoPersist DEF Answer, Finish, ModeInv, OnDisk, Explained

LEMMA SaveFailedKeepsMode ==
    ASSUME TypeOK, Warned, ModeInv, SaveFailed, UNCHANGED <<disk, reported>>
    PROVE  ModeInv'
<1>1. CASE job.kind = "persist" /\ Retry
  BY <1>1, RetryKeepsMode
<1>2. CASE job.kind \in ClientKinds /\ Answer(FALSE) /\ UNCHANGED <<told, outcome>>
  BY <1>2, AnswerKeepsMode DEF ClientKinds
<1> QED BY <1>1, <1>2 DEF SaveFailed

LEMMA FileStepKeepsMode ==
    TypeOK /\ SaveInv /\ Warned /\ ModeInv /\ FileStep => ModeInv'
<1> SUFFICES ASSUME TypeOK, SaveInv, Warned, ModeInv, FileStep PROVE ModeInv'
  OBVIOUS
<1> USE DEF fileVars, clientVars, engineVars, historyVars
<1>1. ASSUME at' # "idle", job'.kind = job.kind, job'.mode = job.mode,
             UNCHANGED <<disk, told, outcome, reported>>
      PROVE  ModeInv'
  BY <1>1 DEF ModeInv, OnDisk, Explained
<1>2. CASE PersistLoad
  <2>1. PICK r \in LoadResults(disk) :
          \/ Agrees(r)
          \/ Retry
          \/ /\ at' = "base" /\ job' = [job EXCEPT !.settings = r.settings]
             /\ UNCHANGED <<told, outcome>>
    BY <1>2 DEF PersistLoad
  <2>2. job.kind = "persist" /\ disk' = disk /\ reported' = reported
    BY <1>2 DEF PersistLoad
  <2>3. CASE Agrees(r)
    <3>1. r = Parsed(disk)
      BY <2>3, WritersHaveRead DEF Agrees, TypeOK
    <3>2. reported' = {job.mode} /\ at' = "idle" /\ job' = NoWork
      BY <2>2, <2>3 DEF Agrees, Finish, ModeInv
    <3>3. \A m \in reported' : OnDisk(m)'
      BY <2>2, <2>3, <3>1, <3>2 DEF Agrees, OnDisk
    <3> QED BY <3>2, <3>3, IdleIsNoPersist DEF ModeInv
  <2>4. CASE /\ at' = "base" /\ job' = [job EXCEPT !.settings = r.settings]
             /\ UNCHANGED <<told, outcome>>
    BY <1>1, <2>2, <2>4 DEF TypeOK, Works
  <2> QED BY <2>1, <2>2, <2>3, <2>4, RetryKeepsMode
<1>3. CASE UpdateLoad
  <2>1. PICK r \in LoadResults(disk) :
          \/ Answer(FALSE)
          \/ at' = "base" /\ job' = [job EXCEPT !.mode = r.mode]
    BY <1>3 DEF UpdateLoad
  <2>2. job.kind # "persist" /\ UNCHANGED <<disk, told, outcome, reported>>
    BY <1>3 DEF UpdateLoad, ClientKinds
  <2>3. CASE at' = "base" /\ job' = [job EXCEPT !.mode = r.mode]
    <3>1. job'.kind = job.kind
      BY <2>3 DEF TypeOK, Works
    <3> QED BY <2>2, <2>3, <3>1 DEF ModeInv, OnDisk, Explained
  <2> QED BY <2>1, <2>2, <2>3, AnswerKeepsMode
<1>4. CASE ReadBase
  BY <1>1, <1>4, SaveFailedKeepsMode DEF ReadBase
<1>5. CASE WriteTemp
  BY <1>1, <1>5, SaveFailedKeepsMode DEF WriteTemp
<1>6. CASE Rename
  <2>1. CASE disk' = disk /\ SaveFailed
    BY <1>6, <2>1, SaveFailedKeepsMode DEF Rename
  <2>2. CASE disk' = tmp
    <3>1. /\ PreferencesAreAuthoritative(Parsed(disk'))
          /\ Parsed(disk').mode = job.mode
      BY <1>6, <2>2, MergedParses DEF Rename, SaveInv
    <3>2. CASE job.kind = "persist" /\ Finish
      <4>1. reported' = {job.mode}
        BY <1>6, <3>2 DEF Rename, ModeInv
      <4> QED BY <3>1, <3>2, <4>1, IdleIsNoPersist DEF Finish, ModeInv, OnDisk
    <3>3. CASE /\ job.kind \in ClientKinds /\ at' = "push"
               /\ told' = IF told = "yes" THEN "ended" ELSE told
               /\ UNCHANGED <<job, outcome>>
      <4>1. job.mode = Parsed(disk).mode
        BY <1>6, <3>3 DEF Rename, SaveInv
      <4>2. reported' = reported
        BY <1>6 DEF Rename
      <4>3. \A m \in reported : OnDisk(m) => OnDisk(m)'
        BY <3>1, <4>1 DEF OnDisk
      <4>4. Explained => Explained'
        BY <3>3 DEF Explained
      <4> QED BY <3>3, <4>2, <4>3, <4>4 DEF ModeInv, ClientKinds
    <3>4. CASE disk' = disk /\ SaveFailed
      BY <2>1, <3>4
    <3> QED BY <1>6, <3>2, <3>3, <3>4 DEF Rename
  <2> QED BY <1>6, <2>1, <2>2 DEF Rename
<1>7. CASE PushUpdate
  <2>1. job.kind # "persist"
    BY <1>7 DEF PushUpdate, SaveInv, ClientKinds
  <2> QED BY <1>7, <2>1, AnswerKeepsMode DEF PushUpdate
<1>8. CASE PersistThrows
  <2>1. Explained'
    BY <1>8 DEF PersistThrows, Explained
  <2> QED BY <1>8, <2>1, IdleIsNoPersist DEF PersistThrows, Finish, ModeInv
<1> QED BY <1>2, <1>3, <1>4, <1>5, <1>6, <1>7, <1>8 DEF FileStep

LEMMA OtherStepKeepsMode ==
    TypeOK /\ ModeInv /\ [Next]_vars /\ ~FileStep => ModeInv'
<1> SUFFICES ASSUME TypeOK, ModeInv, [Next]_vars, ~FileStep PROVE ModeInv'
  OBVIOUS
<1> USE DEF fileVars, handlerVars, clientVars, engineVars, historyVars
<1>1. CASE BeginPersist
  BY <1>1 DEF BeginPersist, Work, ModeInv
<1>2. ASSUME NEW kind \in ClientKinds, BeginUpdate(kind)
      PROVE  ModeInv'
  <2>1. /\ at' = "load" /\ job'.kind \in ClientKinds
        /\ UNCHANGED <<disk, told, outcome, reported>>
    BY <1>2 DEF BeginUpdate, Work
  <2>2. job.kind # "persist"
    BY <1>2, IdleIsNoPersist DEF BeginUpdate, ModeInv
  <2> QED BY <2>1, <2>2 DEF ModeInv, OnDisk, Explained, ClientKinds
<1>3. CASE Crash
  BY <1>3, IdleIsNoPersist DEF Crash, Finish, ModeInv
<1>4. CASE UNCHANGED <<disk, at, job, told, outcome, reported>>
  BY <1>4 DEF ModeInv, OnDisk, Explained
<1>5. \/ BeginPersist \/ (\E kind \in ClientKinds : BeginUpdate(kind)) \/ Crash
      \/ UNCHANGED <<disk, at, job, told, outcome, reported>>
  BY DEF Next, vars, OpenWindow, Confirm, Cancel, ApplySettings, StartEngine, EngineExit,
         Report
<1> QED BY <1>1, <1>2, <1>3, <1>4, <1>5

\* When no handler runs, the mode the engine reported last is on disk; or the user
\* was warned in the run of failures that lost it; or nobody was told, because a
\* save of settings ended an earlier run of failures, or an exception the handler.
THEOREM ModeIsSavedOrTold == Spec => []ModeSavedOrTold
<1>1. Init => ModeInv
  BY IdleIsNoPersist DEF Init, ModeInv
<1>2. TypeOK /\ SaveInv /\ Warned /\ ModeInv /\ [Next]_vars => ModeInv'
  BY FileStepKeepsMode, OtherStepKeepsMode
<1>3. ModeInv => ModeSavedOrTold
  BY IdleIsNoPersist DEF ModeInv, ModeSavedOrTold, OnDisk, Explained
<1> QED BY <1>1, <1>2, <1>3, TypeCorrect, SavesAreCurrent, LatchIsExplained, PTL DEF Spec
=============================================================================
