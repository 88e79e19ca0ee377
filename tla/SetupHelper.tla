---------------------------- MODULE SetupHelper ----------------------------
(***************************************************************************)
(* TypeDuckSetupHelper.exe and the installer that calls it.  The two       *)
(* bitnesses of the text service DLL are copied from {app} into the system *)
(* directories, where host applications may have the old one loaded.  What *)
(* cannot be replaced now is renamed away or left to the next reboot, and  *)
(* a task started by that reboot registers the DLLs.  Every operation on a *)
(* file, a registration or the task is a step that may fail, and the       *)
(* machine may go down between any two.                                    *)
(***************************************************************************)
CONSTANTS
    Versions,   \* the builds a user may install, in any order
    None        \* no file

ASSUME VersionsAssumption == None \notin Versions

VARIABLES
    app,        \* {app} exists, with the helper in it
    payload,    \* {app}\TypeDuckTextService.dll and {app}\x64\...
    staged,     \* {app}'s *.pending.reboot copy, made by ScheduleReplaceOnReboot
    file,       \* the DLL in SysWOW64 and in System32
    pending,    \* the DLLs Windows is to replace by the staged copy at boot
    registered, \* the DLLs with registry entries written by regsvr32
    task,       \* TypeDuckIME-ReRegisterTSF exists
    at,         \* the next operation of the running helper, or "idle"
    bit,        \* the bitness it is about
    busy,       \* the first copy failed with a sharing violation or access denied
    reboot,     \* reboot_required
    old,        \* what RenameFileForDeleteOnReboot has renamed to *.old.N
    want,       \* history: the build last installed, None after an uninstall
    said,       \* history: what the user was last told
    overtaken   \* history: the DLLs in whose place a boot has put an older build

files       == <<app, payload, staged, file, pending>>
progress    == <<at, bit, busy, reboot, old>>
historyVars == <<want, said, overtaken>>
vars == <<files, registered, task, progress, historyVars>>

Bits  == {"win32", "x64"}
Files == Versions \cup {None}

InstallPoints   == {"copy", "rename", "doom", "undo", "recopy", "stage",
                    "schedule", "task", "register"}
ReregisterPoints == {"reregister"}
UninstallPoints == {"unregister", "delete", "renameOld", "doomOld", "undoOld",
                    "removeApp"}

Words == {"nothing", "working", "installed", "restart", "failed", "removed"}

FilesTypeOK ==
    /\ app \in BOOLEAN
    /\ payload \in [Bits -> Files]
    /\ staged \in [Bits -> Files]
    /\ file \in [Bits -> Files]
    /\ pending \subseteq Bits

FlagsTypeOK == task \in BOOLEAN /\ busy \in BOOLEAN /\ reboot \in BOOLEAN

PointsTypeOK ==
    /\ at \in {"idle"} \cup InstallPoints \cup ReregisterPoints \cup UninstallPoints
    /\ bit \in Bits
    /\ old \in Files

HistoryTypeOK == want \in Files /\ said \in Words /\ overtaken \subseteq Bits

TypeOK ==
    /\ FilesTypeOK /\ registered \subseteq Bits
    /\ FlagsTypeOK /\ PointsTypeOK /\ HistoryTypeOK

Init ==
    /\ app = FALSE
    /\ payload = [b \in Bits |-> None] /\ staged = [b \in Bits |-> None]
    /\ file = [b \in Bits |-> None] /\ pending = {}
    /\ registered = {}
    /\ task = FALSE
    /\ at = "idle" /\ bit = "win32" /\ busy = FALSE /\ reboot = FALSE /\ old = None
    /\ want = None /\ said = "nothing" /\ overtaken = {}

Begin(point) ==
    at' = point /\ bit' = "win32" /\ busy' = FALSE /\ reboot' = FALSE /\ old' = None

Go(point) == at' = point /\ UNCHANGED <<bit, busy, reboot, old>>

\* The helper exits; the installer tells the user, the task tells nobody.
Exit(word) ==
    /\ Begin("idle")
    /\ said' = word
    /\ UNCHANGED <<want, overtaken>>

\* DeleteReregisterTask: its result is never looked at.
TryDeleteTask == task' = FALSE \/ UNCHANGED task

-----------------------------------------------------------------------------
(* Install or upgrade.                                                     *)

\* ssInstall, [InstallDelete], [Files] and the start of RunInstall: the task is
\* deleted, {app}\x64 emptied, the new build extracted.  An upgrade keeps the
\* registrations.  A payload that is missing ends the install.
StartInstall(v, extracted) ==
    /\ at = "idle"
    /\ app' = TRUE
    /\ payload' = [b \in Bits |-> IF b \in extracted THEN v ELSE None]
    /\ staged' = [staged EXCEPT !["x64"] = None]
    /\ want' = v /\ overtaken' = {}
    /\ TryDeleteTask
    /\ Begin(IF extracted = Bits THEN "copy" ELSE "idle")
    /\ said' = IF extracted = Bits THEN "working" ELSE "failed"
    /\ UNCHANGED <<file, pending, registered>>

\* One of the two DLLs is in place, or will be after the reboot.
NextBit(needsReboot) ==
    /\ busy' = FALSE /\ old' = None
    /\ reboot' = needsReboot
    /\ \/ bit = "win32" /\ bit' = "x64" /\ at' = "copy"
       \/ bit = "x64" /\ bit' = "win32" /\ at' = IF needsReboot THEN "task" ELSE "register"

\* CopyFileW onto the destination.  A file in use is left alone; a copy that
\* breaks off may leave no file.
CopyOutcomes == {[ok |-> TRUE,  busy |-> FALSE, left |-> payload[bit]],
                 [ok |-> FALSE, busy |-> TRUE,  left |-> file[bit]],
                 [ok |-> FALSE, busy |-> FALSE, left |-> file[bit]],
                 [ok |-> FALSE, busy |-> FALSE, left |-> None]}

\* Wrong: reboot_required is one variable per DLL, not one for both.
CopyForgetsReboot ==
    /\ at = "copy"
    /\ \E c \in CopyOutcomes :
        /\ file' = [file EXCEPT ![bit] = c.left]
        /\ \/ c.ok /\ NextBit(FALSE)
           \/ ~c.ok /\ at' = "rename" /\ busy' = c.busy /\ UNCHANGED <<bit, reboot, old>>
    /\ UNCHANGED <<app, payload, staged, pending, registered, task, historyVars>>

Copy ==
    /\ at = "copy"
    /\ \E c \in CopyOutcomes :
        /\ file' = [file EXCEPT ![bit] = c.left]
        /\ \/ c.ok /\ NextBit(reboot)
           \/ ~c.ok /\ at' = "rename" /\ busy' = c.busy /\ UNCHANGED <<bit, reboot, old>>
    /\ UNCHANGED <<app, payload, staged, pending, registered, task, historyVars>>

\* Both ways of replacing the file failed: ScheduleReplaceOnReboot when one of
\* the two errors says the file is in use, otherwise the install has failed.
FallBack(errorBusy) ==
    \/ /\ busy \/ errorBusy
       /\ Go("stage")
       /\ UNCHANGED historyVars
    \/ ~(busy \/ errorBusy) /\ Exit("failed")

\* RenameFileForDeleteOnReboot, first the rename to *.old.N ...
Rename ==
    /\ at = "rename"
    /\ \/ file[bit] = None /\ Go("recopy") /\ UNCHANGED <<file, historyVars>>
       \/ /\ file[bit] # None
          /\ \/ /\ file' = [file EXCEPT ![bit] = None]
                /\ old' = file[bit]
                /\ at' = "doom"
                /\ UNCHANGED <<bit, busy, reboot, historyVars>>
             \/ (\E errorBusy \in BOOLEAN : FallBack(errorBusy)) /\ UNCHANGED file
    /\ UNCHANGED <<app, payload, staged, pending, registered, task>>

\* ... then its deletion at the reboot ...
Doom ==
    /\ at = "doom"
    /\ \/ at' = "recopy" /\ reboot' = TRUE /\ UNCHANGED <<bit, busy, old>>
       \/ Go("undo")
    /\ UNCHANGED <<files, registered, task, historyVars>>

\* ... or, when that cannot be had, the rename back, whose failure goes unseen.
Undo ==
    /\ at = "undo"
    /\ \E back \in {old, None} : file' = [file EXCEPT ![bit] = back]
    /\ \E errorBusy \in BOOLEAN : FallBack(errorBusy)
    /\ UNCHANGED <<app, payload, staged, pending, registered, task>>

\* The copy to the name that has become free.
Recopy ==
    /\ at = "recopy"
    /\ \E c \in CopyOutcomes :
        /\ file' = [file EXCEPT ![bit] = c.left]
        /\ \/ c.ok /\ NextBit(reboot) /\ UNCHANGED historyVars
           \/ ~c.ok /\ FallBack(c.busy)
    /\ UNCHANGED <<app, payload, staged, pending, registered, task>>

\* ScheduleReplaceOnReboot: a fresh staged copy in the place of the last one.
Stage ==
    /\ at = "stage"
    /\ \/ /\ staged' = [staged EXCEPT ![bit] = payload[bit]]
          /\ Go("schedule") /\ UNCHANGED historyVars
       \/ staged' = [staged EXCEPT ![bit] = None] /\ Exit("failed")
    /\ UNCHANGED <<app, payload, file, pending, registered, task>>

\* Wrong: a replacement at the boot does not set reboot_required.
ScheduleUnnoticed ==
    /\ at = "schedule"
    /\ \/ /\ pending' = pending \cup {bit}
          /\ NextBit(reboot)
          /\ UNCHANGED <<staged, historyVars>>
       \/ /\ staged' = [staged EXCEPT ![bit] = None]
          /\ Exit("failed")
          /\ UNCHANGED pending
    /\ UNCHANGED <<app, payload, file, registered, task>>

\* Its request to Windows; the staged copy is removed when it is refused.
Schedule ==
    /\ at = "schedule"
    /\ \/ /\ pending' = pending \cup {bit}
          /\ NextBit(TRUE)
          /\ UNCHANGED <<staged, historyVars>>
       \/ /\ staged' = [staged EXCEPT ![bit] = None]
          /\ Exit("failed")
          /\ UNCHANGED pending
    /\ UNCHANGED <<app, payload, file, registered, task>>

\* Wrong: the result of schtasks.exe is not looked at.
ScheduleTaskUnchecked ==
    /\ at = "task"
    /\ task' = TRUE \/ UNCHANGED task
    /\ Exit("restart")
    /\ UNCHANGED <<files, registered>>

\* ScheduleReregisterTask.
ScheduleTask ==
    /\ at = "task"
    /\ \/ task' = TRUE /\ Exit("restart")
       \/ task' = task /\ Exit("failed")
    /\ UNCHANGED <<files, registered>>

\* RunRegsvr: nothing to do, and no failure, for a DLL that is not there.
RunRegsvr(registers) ==
    registered' = IF file[bit] = None THEN registered
                  ELSE IF registers THEN registered \cup {bit} ELSE registered \ {bit}

Register ==
    /\ at = "register"
    /\ \/ /\ RunRegsvr(TRUE)
          /\ \/ /\ bit = "win32"
                /\ bit' = "x64" /\ UNCHANGED <<at, busy, reboot, old, historyVars>>
             \/ bit = "x64" /\ Exit("installed")
       \/ file[bit] # None /\ Exit("failed") /\ UNCHANGED registered
    /\ UNCHANGED <<files, task>>

-----------------------------------------------------------------------------
(* The reboot and the task it starts.                                      *)

\* Windows does what was left to it, which may be a replacement by an earlier
\* install that nobody has withdrawn.  The task, if there is one and the helper
\* is still in {app}, starts RunReregister,
\* which first removes what older operations left behind.
Boot ==
    LET taskRuns == task /\ app IN
    /\ file' = [b \in Bits |-> IF b \in pending /\ staged[b] # None
                                   THEN staged[b] ELSE file[b]]
    /\ pending' = {}
    /\ staged' = [b \in Bits |-> IF b \in pending \/ taskRuns THEN None ELSE staged[b]]
    /\ Begin(IF taskRuns THEN "reregister" ELSE "idle")
    /\ said' = IF said = "working" THEN "nothing" ELSE said
    /\ overtaken' = overtaken \cup {b \in pending : staged[b] \notin {None, want}}
    /\ UNCHANGED <<app, payload, registered, task, want>>

\* RunReregister: both DLLs, then the end of the task, which otherwise is
\* started again by the next boot.
Reregister ==
    /\ at = "reregister"
    /\ \/ /\ RunRegsvr(TRUE)
          /\ \/ /\ bit = "win32"
                /\ bit' = "x64" /\ UNCHANGED <<task, at, busy, reboot, old, historyVars>>
             \/ /\ bit = "x64"
                /\ TryDeleteTask
                /\ Exit(IF said = "restart" THEN "installed" ELSE said)
       \/ file[bit] # None /\ Exit(said) /\ UNCHANGED <<registered, task>>
    /\ UNCHANGED files

-----------------------------------------------------------------------------
(* Uninstall.                                                              *)

\* usUninstall and the start of RunUninstall.
StartUninstall ==
    /\ at = "idle"
    /\ app
    /\ Begin("unregister")
    /\ want' = None /\ said' = "working" /\ overtaken' = {}
    /\ TryDeleteTask
    /\ UNCHANGED <<files, registered>>

\* The results of both calls are ignored.
Unregister ==
    /\ at = "unregister"
    /\ RunRegsvr(FALSE) \/ UNCHANGED registered
    /\ \/ bit = "win32" /\ bit' = "x64" /\ UNCHANGED at
       \/ bit = "x64" /\ bit' = "win32" /\ at' = "delete"
    /\ UNCHANGED <<files, task, busy, reboot, old, historyVars>>

\* A failure ends the helper, not the uninstall: {app} is removed all the same.
NextDeletion(ok) ==
    /\ UNCHANGED <<busy, reboot, old>>
    /\ \/ ok /\ bit = "win32" /\ bit' = "x64" /\ at' = "delete" /\ UNCHANGED historyVars
       \/ ok /\ bit = "x64" /\ at' = "removeApp" /\ UNCHANGED <<bit, historyVars>>
       \/ ~ok /\ at' = "removeApp" /\ said' = "failed" /\ UNCHANGED <<bit, want, overtaken>>

\* DeleteFileWithFallback.
Delete ==
    /\ at = "delete"
    /\ \/ file' = [file EXCEPT ![bit] = None] /\ NextDeletion(TRUE)
       \/ /\ file[bit] # None
          /\ Go("renameOld")
          /\ UNCHANGED <<file, historyVars>>
    /\ UNCHANGED <<app, payload, staged, pending, registered, task>>

RenameOld ==
    /\ at = "renameOld"
    /\ \/ /\ file' = [file EXCEPT ![bit] = None]
          /\ old' = file[bit] /\ at' = "doomOld"
          /\ UNCHANGED <<bit, busy, reboot, historyVars>>
       \/ NextDeletion(FALSE) /\ UNCHANGED file
    /\ UNCHANGED <<app, payload, staged, pending, registered, task>>

DoomOld ==
    /\ at = "doomOld"
    /\ \/ NextDeletion(TRUE)
       \/ Go("undoOld") /\ UNCHANGED historyVars
    /\ UNCHANGED <<files, registered, task>>

UndoOld ==
    /\ at = "undoOld"
    /\ \E back \in {old, None} : file' = [file EXCEPT ![bit] = back]
    /\ NextDeletion(FALSE)
    /\ UNCHANGED <<app, payload, staged, pending, registered, task>>

\* RegPurgeTypeDuckResiduals runs in the 64-bit view of the registry, where the
\* COM class of the 32-bit DLL is not, and its results are not looked at.
PurgeResiduals == registered' \in {registered, registered \ {"x64"}}

\* Wrong: only what the installer put into {app} is removed.
RemoveInstalledFiles ==
    /\ at = "removeApp"
    /\ app' = FALSE
    /\ payload' = [b \in Bits |-> None]
    /\ PurgeResiduals
    /\ Exit(IF said = "working" THEN "removed" ELSE said)
    /\ UNCHANGED <<staged, file, pending, task>>

\* [UninstallDelete] removes {app} with the staged copies in it.
RemoveApp ==
    /\ at = "removeApp"
    /\ app' = FALSE
    /\ payload' = [b \in Bits |-> None]
    /\ staged' = [b \in Bits |-> None]
    /\ PurgeResiduals
    /\ Exit(IF said = "working" THEN "removed" ELSE said)
    /\ UNCHANGED <<file, pending, task>>

-----------------------------------------------------------------------------
InstallStep ==
    \/ Copy \/ Rename \/ Doom \/ Undo \/ Recopy
    \/ Stage \/ Schedule \/ ScheduleTask \/ Register

UninstallStep ==
    \/ Unregister \/ Delete \/ RenameOld \/ DoomOld \/ UndoOld \/ RemoveApp

HelperStep == InstallStep \/ Reregister \/ UninstallStep

Next ==
    \/ \E v \in Versions, extracted \in SUBSET Bits : StartInstall(v, extracted)
    \/ StartUninstall
    \/ HelperStep
    \/ Boot

Spec == Init /\ [][Next]_vars

-----------------------------------------------------------------------------
(* Properties.                                                             *)

InPlace(b) == file[b] = want
OwedAtBoot(b) == b \in pending /\ staged[b] = want

\* After an install that reported success, at once or by the task after the
\* reboot, both DLLs are registered, and each is of the new build, across reboots,
\* unless a boot has since carried out a replacement by an older build, which an
\* earlier install had left and this one did not withdraw (SetupHelper.cpp:492).
\* (RunInstall, RunReregister: kExitSuccess.)
InstalledIsInPlace ==
    said = "installed" =>
        \A b \in Bits : b \in registered /\ (InPlace(b) \/ b \in overtaken)

\* An install that asked for a restart has done, or left to the reboot, the copy
\* of both DLLs, and the task that registers them is there to be started by it; the
\* one thing a boot may do to them is again an older replacement.
\* (RunInstall: kExitRestartRequired.)
RestartWillComplete ==
    said = "restart" =>
        /\ app /\ task
        /\ \A b \in Bits : InPlace(b) \/ OwedAtBoot(b) \/ b \in overtaken

\* After a successful uninstall both DLLs are gone and no boot brings one back: a
\* replacement left for it finds no staged copy, and a task whose deletion failed
\* finds no helper.  Of the registrations this says nothing: that of the 32-bit DLL
\* can outlive the DLL (PurgeResiduals).  (RunUninstall with the installer's part.)
RemovedStaysRemoved ==
    said = "removed" =>
        /\ ~app
        /\ \A b \in Bits : file[b] = None /\ (b \in pending => staged[b] = None)

\* The inductive invariant behind these, by what runs.  What the copy loop has
\* passed is in place, or owed and then remembered in reboot_required; a boot
\* leaves a file where it replaces one.
CopiedSoFar(b) == InPlace(b) \/ (reboot /\ OwedAtBoot(b))

InstallInv ==
    at \in InstallPoints =>
        /\ said = "working" /\ app /\ overtaken = {}
        /\ want \in Versions /\ payload = [b \in Bits |-> want]
        /\ bit = "x64" \/ at \in {"task", "register"} => CopiedSoFar("win32")
        /\ at \in {"task", "register"} => CopiedSoFar("x64")
        /\ at = "schedule" => staged[bit] = want
        /\ at = "register" => ~reboot /\ (bit = "x64" => "win32" \in registered)

ToldInv ==
    /\ said \in {"installed", "restart"} => want \in Versions
    /\ said = "removed" => ~app /\ at = "idle" /\ \A b \in Bits : staged[b] = None
    /\ at \in {"idle", "reregister"} => said # "working"
    /\ \A b \in overtaken : file[b] # None

ReregisterInv ==
    at = "reregister" /\ said = "restart" =>
        /\ \A b \in Bits : InPlace(b) \/ b \in overtaken
        /\ bit = "x64" => "win32" \in registered

UninstallInv ==
    at \in UninstallPoints =>
        /\ said \in {"working", "failed"} /\ overtaken = {}
        /\ at # "removeApp" => said = "working"
        /\ at = "doomOld" => file[bit] = None
        /\ bit = "x64" /\ at \notin {"unregister", "removeApp"} => file["win32"] = None
        /\ at = "removeApp" /\ said = "working" => \A b \in Bits : file[b] = None

SetupInv ==
    /\ TypeOK
    /\ InstallInv /\ ToldInv /\ ReregisterInv /\ UninstallInv
    /\ InstalledIsInPlace /\ RestartWillComplete /\ RemovedStaysRemoved

=============================================================================
