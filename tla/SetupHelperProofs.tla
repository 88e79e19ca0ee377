------------------------- MODULE SetupHelperProofs -------------------------
(***************************************************************************)
(* Proofs about SetupHelper, for any set of builds installed and removed   *)
(* in any order, with a failure or a power cut at every step: what the     *)
(* installer tells the user is true, and what a boot may change of it      *)
(* later is said with it.  One lemma per action says that it keeps         *)
(* SetupInv, part by part.                                                 *)
(***************************************************************************)
EXTENDS SetupHelper, TLAPS

\* A new install: what an earlier one left to the boot stays there.
LEMMA StartInstallKeeps ==
  ASSUME SetupInv, NEW v \in Versions, NEW extracted \in SUBSET Bits,
         StartInstall(v, extracted)
  PROVE  SetupInv'
<1> USE VersionsAssumption
    DEF StartInstall, Begin, TryDeleteTask, files, historyVars,
         Bits, Files, Words, InstallPoints,
         ReregisterPoints, UninstallPoints
<1>1. TypeOK'
  <2>1. FilesTypeOK' /\ registered' \subseteq Bits
    BY DEF SetupInv, TypeOK, FilesTypeOK, FlagsTypeOK, PointsTypeOK, HistoryTypeOK
  <2>2. FlagsTypeOK'
    BY Zenon DEF SetupInv, TypeOK, FlagsTypeOK
  <2>3. PointsTypeOK' /\ HistoryTypeOK'
    BY DEF SetupInv, TypeOK, FilesTypeOK, PointsTypeOK, HistoryTypeOK
  <2> QED BY <2>1, <2>2, <2>3 DEF TypeOK
<1>2. InstallInv'
  BY DEF SetupInv, InstallInv, InPlace, OwedAtBoot, CopiedSoFar
<1>3. ToldInv'
  BY DEF SetupInv, InstallInv, UninstallInv, ToldInv
<1>4. ReregisterInv'
  BY DEF SetupInv, ToldInv, ReregisterInv, RestartWillComplete,
         InPlace, OwedAtBoot
<1>5. UninstallInv'
  BY DEF SetupInv, UninstallInv
<1>6. InstalledIsInPlace'
  BY DEF SetupInv, InstallInv, ReregisterInv, UninstallInv,
         InstalledIsInPlace, ToldInv, InPlace, CopiedSoFar
<1>7. RestartWillComplete'
  BY DEF SetupInv, InstallInv, UninstallInv, RestartWillComplete,
         CopiedSoFar, InPlace, OwedAtBoot, ToldInv
<1>8. RemovedStaysRemoved'
  BY DEF SetupInv, UninstallInv, RemovedStaysRemoved, ToldInv
<1> QED  BY <1>1, <1>2, <1>3, <1>4, <1>5, <1>6, <1>7, <1>8 DEF SetupInv

\* The first copy.
LEMMA CopyKeeps == SetupInv /\ Copy => SetupInv'
<1> SUFFICES ASSUME SetupInv, Copy PROVE SetupInv'
  OBVIOUS
<1> USE VersionsAssumption
    DEF Copy, CopyOutcomes, NextBit, files, historyVars,
         Bits, Files, Words, InstallPoints,
         ReregisterPoints, UninstallPoints
<1>1. TypeOK'
  <2>1. FilesTypeOK' /\ registered' \subseteq Bits
    BY DEF SetupInv, TypeOK, FilesTypeOK, FlagsTypeOK, PointsTypeOK, HistoryTypeOK
  <2>2. \A c \in CopyOutcomes : c.busy = TRUE \/ c.busy = FALSE
    BY DEF CopyOutcomes
  <2>3. FlagsTypeOK'
    BY <2>2, Zenon DEF SetupInv, TypeOK, FlagsTypeOK
  <2>4. PointsTypeOK' /\ HistoryTypeOK'
    BY DEF SetupInv, TypeOK, FilesTypeOK, PointsTypeOK, HistoryTypeOK
  <2> QED BY <2>1, <2>3, <2>4 DEF TypeOK
<1>2. InstallInv'
  BY DEF SetupInv, InstallInv, InPlace, OwedAtBoot, CopiedSoFar, TypeOK, FilesTypeOK, PointsTypeOK
<1>3. ToldInv'
  BY DEF SetupInv, InstallInv, UninstallInv, ToldInv
<1>4. ReregisterInv'
  BY DEF SetupInv, ToldInv, ReregisterInv, RestartWillComplete,
         InPlace, OwedAtBoot
<1>5. UninstallInv'
  BY DEF SetupInv, UninstallInv
<1>6. InstalledIsInPlace'
  BY DEF SetupInv, InstallInv, ReregisterInv, UninstallInv,
         InstalledIsInPlace, ToldInv, InPlace, CopiedSoFar
<1>7. RestartWillComplete'
  BY DEF SetupInv, InstallInv, UninstallInv, RestartWillComplete,
         CopiedSoFar, InPlace, OwedAtBoot, ToldInv
<1>8. RemovedStaysRemoved'
  BY DEF SetupInv, UninstallInv, RemovedStaysRemoved, ToldInv
<1> QED  BY <1>1, <1>2, <1>3, <1>4, <1>5, <1>6, <1>7, <1>8 DEF SetupInv

\* The old file out of the way.
LEMMA RenameKeeps == SetupInv /\ Rename => SetupInv'
<1> SUFFICES ASSUME SetupInv, Rename PROVE SetupInv'
  OBVIOUS
<1> USE VersionsAssumption
    DEF Rename, FallBack, Go, Exit, Begin, files, historyVars,
         Bits, Files, Words, InstallPoints,
         ReregisterPoints, UninstallPoints
<1>1. TypeOK'
  <2>1. FilesTypeOK' /\ registered' \subseteq Bits
    BY DEF SetupInv, TypeOK, FilesTypeOK, FlagsTypeOK, PointsTypeOK, HistoryTypeOK
  <2>2. FlagsTypeOK'
    BY Zenon DEF SetupInv, TypeOK, FlagsTypeOK
  <2>3. file[bit] \in Files
    BY DEF SetupInv, TypeOK, FilesTypeOK, PointsTypeOK
  <2>4. old' \in Files
    BY <2>3 DEF SetupInv, TypeOK, PointsTypeOK
  <2>5. PointsTypeOK' /\ HistoryTypeOK'
    BY <2>4 DEF SetupInv, TypeOK, PointsTypeOK, HistoryTypeOK
  <2> QED BY <2>1, <2>2, <2>5 DEF TypeOK
<1>2. InstallInv'
  BY DEF SetupInv, InstallInv, InPlace, OwedAtBoot, CopiedSoFar, TypeOK, FilesTypeOK, PointsTypeOK
<1>3. ToldInv'
  BY DEF SetupInv, InstallInv, UninstallInv, ToldInv
<1>4. ReregisterInv'
  BY DEF SetupInv, ToldInv, ReregisterInv, RestartWillComplete,
         InPlace, OwedAtBoot
<1>5. UninstallInv'
  BY DEF SetupInv, UninstallInv
<1>6. InstalledIsInPlace'
  BY DEF SetupInv, InstallInv, ReregisterInv, UninstallInv,
         InstalledIsInPlace, ToldInv, InPlace, CopiedSoFar
<1>7. RestartWillComplete'
  BY DEF SetupInv, InstallInv, UninstallInv, RestartWillComplete,
         CopiedSoFar, InPlace, OwedAtBoot, ToldInv
<1>8. RemovedStaysRemoved'
  BY DEF SetupInv, UninstallInv, RemovedStaysRemoved, ToldInv
<1> QED  BY <1>1, <1>2, <1>3, <1>4, <1>5, <1>6, <1>7, <1>8 DEF SetupInv

\* Its deletion left to the reboot.
LEMMA DoomKeeps == SetupInv /\ Doom => SetupInv'
<1> SUFFICES ASSUME SetupInv, Doom PROVE SetupInv'
  OBVIOUS
<1> USE VersionsAssumption
    DEF Doom, Go, files, historyVars,
         Bits, Files, Words, InstallPoints,
         ReregisterPoints, UninstallPoints
<1>1. TypeOK'
  <2>1. FilesTypeOK' /\ registered' \subseteq Bits
    BY DEF SetupInv, TypeOK, FilesTypeOK, FlagsTypeOK, PointsTypeOK, HistoryTypeOK
  <2>2. FlagsTypeOK'
    BY Zenon DEF SetupInv, TypeOK, FlagsTypeOK
  <2>3. PointsTypeOK' /\ HistoryTypeOK'
    BY DEF SetupInv, TypeOK, FilesTypeOK, PointsTypeOK, HistoryTypeOK
  <2> QED BY <2>1, <2>2, <2>3 DEF TypeOK
<1>2. InstallInv'
  BY DEF SetupInv, InstallInv, InPlace, OwedAtBoot, CopiedSoFar
<1>3. ToldInv'
  BY DEF SetupInv, InstallInv, UninstallInv, ToldInv
<1>4. ReregisterInv'
  BY DEF SetupInv, ToldInv, ReregisterInv, RestartWillComplete,
         InPlace, OwedAtBoot
<1>5. UninstallInv'
  BY DEF SetupInv, UninstallInv
<1>6. InstalledIsInPlace'
  BY DEF SetupInv, InstallInv, ReregisterInv, UninstallInv,
         InstalledIsInPlace, ToldInv, InPlace, CopiedSoFar
<1>7. RestartWillComplete'
  BY DEF SetupInv, InstallInv, UninstallInv, RestartWillComplete,
         CopiedSoFar, InPlace, OwedAtBoot, ToldInv
<1>8. RemovedStaysRemoved'
  BY DEF SetupInv, UninstallInv, RemovedStaysRemoved, ToldInv
<1> QED  BY <1>1, <1>2, <1>3, <1>4, <1>5, <1>6, <1>7, <1>8 DEF SetupInv

\* The rename taken back; only the fall-back may go on.
LEMMA UndoKeeps == SetupInv /\ Undo => SetupInv'
<1> SUFFICES ASSUME SetupInv, Undo PROVE SetupInv'
  OBVIOUS
<1> USE VersionsAssumption
    DEF Undo, FallBack, Go, Exit, Begin, files, historyVars,
         Bits, Files, Words, InstallPoints,
         ReregisterPoints, UninstallPoints
<1>1. TypeOK'
  <2>1. FilesTypeOK' /\ registered' \subseteq Bits
    BY DEF SetupInv, TypeOK, FilesTypeOK, FlagsTypeOK, PointsTypeOK, HistoryTypeOK
  <2>2. FlagsTypeOK'
    BY Zenon DEF SetupInv, TypeOK, FlagsTypeOK
  <2>3. PointsTypeOK' /\ HistoryTypeOK'
    BY DEF SetupInv, TypeOK, FilesTypeOK, PointsTypeOK, HistoryTypeOK
  <2> QED BY <2>1, <2>2, <2>3 DEF TypeOK
<1>2. InstallInv'
  BY DEF SetupInv, InstallInv, InPlace, OwedAtBoot, CopiedSoFar
<1>3. ToldInv'
  BY DEF SetupInv, InstallInv, UninstallInv, ToldInv
<1>4. ReregisterInv'
  BY DEF SetupInv, ToldInv, ReregisterInv, RestartWillComplete,
         InPlace, OwedAtBoot
<1>5. UninstallInv'
  BY DEF SetupInv, UninstallInv
<1>6. InstalledIsInPlace'
  BY DEF SetupInv, InstallInv, ReregisterInv, UninstallInv,
         InstalledIsInPlace, ToldInv, InPlace, CopiedSoFar
<1>7. RestartWillComplete'
  BY DEF SetupInv, InstallInv, UninstallInv, RestartWillComplete,
         CopiedSoFar, InPlace, OwedAtBoot, ToldInv
<1>8. RemovedStaysRemoved'
  BY DEF SetupInv, UninstallInv, RemovedStaysRemoved, ToldInv
<1> QED  BY <1>1, <1>2, <1>3, <1>4, <1>5, <1>6, <1>7, <1>8 DEF SetupInv

\* The copy to the free name.
LEMMA RecopyKeeps == SetupInv /\ Recopy => SetupInv'
<1> SUFFICES ASSUME SetupInv, Recopy PROVE SetupInv'
  OBVIOUS
<1> USE VersionsAssumption
    DEF Recopy, CopyOutcomes, NextBit, FallBack, Go, Exit, Begin, files, historyVars,
         Bits, Files, Words, InstallPoints,
         ReregisterPoints, UninstallPoints
<1>1. TypeOK'
  <2>1. FilesTypeOK' /\ registered' \subseteq Bits
    BY DEF SetupInv, TypeOK, FilesTypeOK, FlagsTypeOK, PointsTypeOK, HistoryTypeOK
  <2>2. FlagsTypeOK'
    BY Zenon DEF SetupInv, TypeOK, FlagsTypeOK
  <2>3. PointsTypeOK' /\ HistoryTypeOK'
    BY DEF SetupInv, TypeOK, FilesTypeOK, PointsTypeOK, HistoryTypeOK
  <2> QED BY <2>1, <2>2, <2>3 DEF TypeOK
<1>2. InstallInv'
  BY DEF SetupInv, InstallInv, InPlace, OwedAtBoot, CopiedSoFar, TypeOK, FilesTypeOK, PointsTypeOK
<1>3. ToldInv'
  BY DEF SetupInv, InstallInv, UninstallInv, ToldInv
<1>4. ReregisterInv'
  BY DEF SetupInv, ToldInv, ReregisterInv, RestartWillComplete,
         InPlace, OwedAtBoot
<1>5. UninstallInv'
  BY DEF SetupInv, UninstallInv
<1>6. InstalledIsInPlace'
  BY DEF SetupInv, InstallInv, ReregisterInv, UninstallInv,
         InstalledIsInPlace, ToldInv, InPlace, CopiedSoFar
<1>7. RestartWillComplete'
  BY DEF SetupInv, InstallInv, UninstallInv, RestartWillComplete,
         CopiedSoFar, InPlace, OwedAtBoot, ToldInv
<1>8. RemovedStaysRemoved'
  BY DEF SetupInv, UninstallInv, RemovedStaysRemoved, ToldInv
<1> QED  BY <1>1, <1>2, <1>3, <1>4, <1>5, <1>6, <1>7, <1>8 DEF SetupInv

\* The staged copy replaces whatever was staged before, so nothing older is owed.
LEMMA StageKeeps == SetupInv /\ Stage => SetupInv'
<1> SUFFICES ASSUME SetupInv, Stage PROVE SetupInv'
  OBVIOUS
<1> USE VersionsAssumption
    DEF Stage, Go, Exit, Begin, files, historyVars,
         Bits, Files, Words, InstallPoints,
         ReregisterPoints, UninstallPoints
<1>1. TypeOK'
  <2>1. FilesTypeOK' /\ registered' \subseteq Bits
    BY DEF SetupInv, TypeOK, FilesTypeOK, FlagsTypeOK, PointsTypeOK, HistoryTypeOK
  <2>2. FlagsTypeOK'
    BY Zenon DEF SetupInv, TypeOK, FlagsTypeOK
  <2>3. PointsTypeOK' /\ HistoryTypeOK'
    BY DEF SetupInv, TypeOK, FilesTypeOK, PointsTypeOK, HistoryTypeOK
  <2> QED BY <2>1, <2>2, <2>3 DEF TypeOK
<1>2. InstallInv'
  BY DEF SetupInv, InstallInv, InPlace, OwedAtBoot, CopiedSoFar, TypeOK, FilesTypeOK, PointsTypeOK
<1>3. ToldInv'
  BY DEF SetupInv, InstallInv, UninstallInv, ToldInv
<1>4. ReregisterInv'
  BY DEF SetupInv, ToldInv, ReregisterInv, RestartWillComplete,
         InPlace, OwedAtBoot
<1>5. UninstallInv'
  BY DEF SetupInv, UninstallInv
<1>6. InstalledIsInPlace'
  BY DEF SetupInv, InstallInv, ReregisterInv, UninstallInv,
         InstalledIsInPlace, ToldInv, InPlace, CopiedSoFar
<1>7. RestartWillComplete'
  BY DEF SetupInv, InstallInv, UninstallInv, RestartWillComplete,
         CopiedSoFar, InPlace, OwedAtBoot, ToldInv
<1>8. RemovedStaysRemoved'
  BY DEF SetupInv, UninstallInv, RemovedStaysRemoved, ToldInv
<1> QED  BY <1>1, <1>2, <1>3, <1>4, <1>5, <1>6, <1>7, <1>8 DEF SetupInv

\* From here the build is owed at the boot.
LEMMA ScheduleKeeps == SetupInv /\ Schedule => SetupInv'
<1> SUFFICES ASSUME SetupInv, Schedule PROVE SetupInv'
  OBVIOUS
<1> USE VersionsAssumption
    DEF Schedule, NextBit, Exit, Begin, files, historyVars,
         Bits, Files, Words, InstallPoints,
         ReregisterPoints, UninstallPoints
<1>1. TypeOK'
  <2>1. FilesTypeOK' /\ registered' \subseteq Bits
    BY DEF SetupInv, TypeOK, FilesTypeOK, FlagsTypeOK, PointsTypeOK, HistoryTypeOK
  <2>2. FlagsTypeOK'
    BY Zenon DEF SetupInv, TypeOK, FlagsTypeOK
  <2>3. PointsTypeOK' /\ HistoryTypeOK'
    BY DEF SetupInv, TypeOK, FilesTypeOK, PointsTypeOK, HistoryTypeOK
  <2> QED BY <2>1, <2>2, <2>3 DEF TypeOK
<1>2. InstallInv'
  BY DEF SetupInv, InstallInv, InPlace, OwedAtBoot, CopiedSoFar
<1>3. ToldInv'
  BY DEF SetupInv, InstallInv, UninstallInv, ToldInv
<1>4. ReregisterInv'
  BY DEF SetupInv, ToldInv, ReregisterInv, RestartWillComplete,
         InPlace, OwedAtBoot
<1>5. UninstallInv'
  BY DEF SetupInv, UninstallInv
<1>6. InstalledIsInPlace'
  BY DEF SetupInv, InstallInv, ReregisterInv, UninstallInv,
         InstalledIsInPlace, ToldInv, InPlace, CopiedSoFar
<1>7. RestartWillComplete'
  BY DEF SetupInv, InstallInv, UninstallInv, RestartWillComplete,
         CopiedSoFar, InPlace, OwedAtBoot, ToldInv
<1>8. RemovedStaysRemoved'
  BY DEF SetupInv, UninstallInv, RemovedStaysRemoved, ToldInv
<1> QED  BY <1>1, <1>2, <1>3, <1>4, <1>5, <1>6, <1>7, <1>8 DEF SetupInv

\* The install ends with a restart to come.
LEMMA ScheduleTaskKeeps == SetupInv /\ ScheduleTask => SetupInv'
<1> SUFFICES ASSUME SetupInv, ScheduleTask PROVE SetupInv'
  OBVIOUS
<1> USE VersionsAssumption
    DEF ScheduleTask, Exit, Begin, files, historyVars,
         Bits, Files, Words, InstallPoints,
         ReregisterPoints, UninstallPoints
<1>1. TypeOK'
  <2>1. FilesTypeOK' /\ registered' \subseteq Bits
    BY DEF SetupInv, TypeOK, FilesTypeOK, FlagsTypeOK, PointsTypeOK, HistoryTypeOK
  <2>2. FlagsTypeOK'
    BY Zenon DEF SetupInv, TypeOK, FlagsTypeOK
  <2>3. PointsTypeOK' /\ HistoryTypeOK'
    BY DEF SetupInv, TypeOK, FilesTypeOK, PointsTypeOK, HistoryTypeOK
  <2> QED BY <2>1, <2>2, <2>3 DEF TypeOK
<1>2. InstallInv'
  BY DEF SetupInv, InstallInv, InPlace, OwedAtBoot, CopiedSoFar
<1>3. ToldInv'
  BY DEF SetupInv, InstallInv, UninstallInv, ToldInv
<1>4. ReregisterInv'
  BY DEF SetupInv, ToldInv, ReregisterInv, RestartWillComplete,
         InPlace, OwedAtBoot
<1>5. UninstallInv'
  BY DEF SetupInv, UninstallInv
<1>6. InstalledIsInPlace'
  BY DEF SetupInv, InstallInv, ReregisterInv, UninstallInv,
         InstalledIsInPlace, ToldInv, InPlace, CopiedSoFar
<1>7. RestartWillComplete'
  BY DEF SetupInv, InstallInv, UninstallInv, RestartWillComplete,
         CopiedSoFar, InPlace, OwedAtBoot, ToldInv
<1>8. RemovedStaysRemoved'
  BY DEF SetupInv, UninstallInv, RemovedStaysRemoved, ToldInv
<1> QED  BY <1>1, <1>2, <1>3, <1>4, <1>5, <1>6, <1>7, <1>8 DEF SetupInv

\* The install ends with both DLLs in place and registered.
LEMMA RegisterKeeps == SetupInv /\ Register => SetupInv'
<1> SUFFICES ASSUME SetupInv, Register PROVE SetupInv'
  OBVIOUS
<1> USE VersionsAssumption
    DEF Register, RunRegsvr, Exit, Begin, files, historyVars,
         Bits, Files, Words, InstallPoints,
         ReregisterPoints, UninstallPoints
<1>1. TypeOK'
  <2>1. FilesTypeOK' /\ registered' \subseteq Bits
    BY DEF SetupInv, TypeOK, FilesTypeOK, FlagsTypeOK, PointsTypeOK, HistoryTypeOK
  <2>2. FlagsTypeOK'
    BY Zenon DEF SetupInv, TypeOK, FlagsTypeOK
  <2>3. PointsTypeOK' /\ HistoryTypeOK'
    BY DEF SetupInv, TypeOK, FilesTypeOK, PointsTypeOK, HistoryTypeOK
  <2> QED BY <2>1, <2>2, <2>3 DEF TypeOK
<1>2. InstallInv'
  BY DEF SetupInv, InstallInv, InPlace, OwedAtBoot, CopiedSoFar
<1>3. ToldInv'
  BY DEF SetupInv, InstallInv, UninstallInv, ToldInv
<1>4. ReregisterInv'
  BY DEF SetupInv, ToldInv, ReregisterInv, RestartWillComplete,
         InPlace, OwedAtBoot
<1>5. UninstallInv'
  BY DEF SetupInv, UninstallInv
<1>6. InstalledIsInPlace'
  BY DEF SetupInv, InstallInv, ReregisterInv, UninstallInv,
         InstalledIsInPlace, ToldInv, InPlace, CopiedSoFar
<1>7. RestartWillComplete'
  BY DEF SetupInv, InstallInv, UninstallInv, RestartWillComplete,
         CopiedSoFar, InPlace, OwedAtBoot, ToldInv
<1>8. RemovedStaysRemoved'
  BY DEF SetupInv, UninstallInv, RemovedStaysRemoved, ToldInv
<1> QED  BY <1>1, <1>2, <1>3, <1>4, <1>5, <1>6, <1>7, <1>8 DEF SetupInv

\* What was owed is paid, with the build last installed or, on record, an older one.
LEMMA BootKeeps == SetupInv /\ Boot => SetupInv'
<1> SUFFICES ASSUME SetupInv, Boot PROVE SetupInv'
  OBVIOUS
<1> USE VersionsAssumption
    DEF Boot, Begin, files, historyVars,
         Bits, Files, Words, InstallPoints,
         ReregisterPoints, UninstallPoints
<1>1. TypeOK'
  <2>1. FilesTypeOK' /\ registered' \subseteq Bits
    BY DEF SetupInv, TypeOK, FilesTypeOK, FlagsTypeOK, PointsTypeOK, HistoryTypeOK
  <2>2. FlagsTypeOK'
    BY Zenon DEF SetupInv, TypeOK, FlagsTypeOK
  <2>3. PointsTypeOK' /\ HistoryTypeOK'
    BY DEF SetupInv, TypeOK, FilesTypeOK, PointsTypeOK, HistoryTypeOK
  <2> QED BY <2>1, <2>2, <2>3 DEF TypeOK
<1>2. InstallInv'
  BY DEF SetupInv, InstallInv, InPlace, OwedAtBoot, CopiedSoFar
<1>3. ToldInv'
  <2>1. \A b \in overtaken' : file'[b] # None
    <3>1. pending \subseteq Bits /\ overtaken \subseteq Bits
      BY DEF SetupInv, TypeOK, FilesTypeOK, HistoryTypeOK
    <3>2. \A b \in Bits : b \in pending /\ staged[b] # None => file'[b] = staged[b]
      OBVIOUS
    <3>3. \A b \in Bits : ~(b \in pending /\ staged[b] # None) => file'[b] = file[b]
      OBVIOUS
    <3>4. \A b \in overtaken : file[b] # None
      BY DEF SetupInv, ToldInv
    <3> QED BY <3>1, <3>2, <3>3, <3>4
  <2>2. /\ said' \in {"installed", "restart"} => want' \in Versions
        /\ said' = "removed" => ~app' /\ at' = "idle" /\ \A b \in Bits : staged'[b] = None
        /\ at' \in {"idle", "reregister"} => said' # "working"
    BY DEF SetupInv, ToldInv
  <2> QED BY <2>1, <2>2 DEF ToldInv
<1>4. ReregisterInv'
  BY DEF SetupInv, ToldInv, ReregisterInv, RestartWillComplete,
         InPlace, OwedAtBoot
<1>5. UninstallInv'
  BY DEF SetupInv, UninstallInv
<1>6. InstalledIsInPlace'
  BY DEF SetupInv, InstallInv, ReregisterInv, UninstallInv,
         InstalledIsInPlace, ToldInv, InPlace, CopiedSoFar
<1>7. RestartWillComplete'
  BY DEF SetupInv, InstallInv, UninstallInv, RestartWillComplete,
         CopiedSoFar, InPlace, OwedAtBoot, ToldInv
<1>8. RemovedStaysRemoved'
  BY DEF SetupInv, UninstallInv, RemovedStaysRemoved, ToldInv
<1> QED  BY <1>1, <1>2, <1>3, <1>4, <1>5, <1>6, <1>7, <1>8 DEF SetupInv

\* After the reboot the DLLs are in place; their registration completes.
LEMMA ReregisterKeeps == SetupInv /\ Reregister => SetupInv'
<1> SUFFICES ASSUME SetupInv, Reregister PROVE SetupInv'
  OBVIOUS
<1> USE VersionsAssumption
    DEF Reregister, RunRegsvr, TryDeleteTask, Exit, Begin, files, historyVars,
         Bits, Files, Words, InstallPoints,
         ReregisterPoints, UninstallPoints
<1>1. TypeOK'
  <2>1. FilesTypeOK' /\ registered' \subseteq Bits
    BY DEF SetupInv, TypeOK, FilesTypeOK, FlagsTypeOK, PointsTypeOK, HistoryTypeOK
  <2>2. FlagsTypeOK'
    BY Zenon DEF SetupInv, TypeOK, FlagsTypeOK
  <2>3. PointsTypeOK' /\ HistoryTypeOK'
    BY DEF SetupInv, TypeOK, PointsTypeOK, HistoryTypeOK
  <2> QED BY <2>1, <2>2, <2>3 DEF TypeOK
<1>2. InstallInv'
  BY DEF SetupInv, InstallInv, InPlace, OwedAtBoot, CopiedSoFar
<1>3. ToldInv'
  BY DEF SetupInv, InstallInv, UninstallInv, ToldInv
<1>4. ReregisterInv'
  BY DEF SetupInv, ToldInv, ReregisterInv, RestartWillComplete,
         InPlace, OwedAtBoot
<1>5. UninstallInv'
  BY DEF SetupInv, UninstallInv
<1>6. InstalledIsInPlace'
  BY DEF SetupInv, InstallInv, ReregisterInv, UninstallInv,
         InstalledIsInPlace, ToldInv, InPlace, CopiedSoFar
<1>7. RestartWillComplete'
  BY DEF SetupInv, InstallInv, UninstallInv, RestartWillComplete,
         CopiedSoFar, InPlace, OwedAtBoot, ToldInv
<1>8. RemovedStaysRemoved'
  BY DEF SetupInv, UninstallInv, RemovedStaysRemoved, ToldInv
<1> QED  BY <1>1, <1>2, <1>3, <1>4, <1>5, <1>6, <1>7, <1>8 DEF SetupInv

\* Nothing is promised while an uninstall runs.
LEMMA StartUninstallKeeps == SetupInv /\ StartUninstall => SetupInv'
<1> SUFFICES ASSUME SetupInv, StartUninstall PROVE SetupInv'
  OBVIOUS
<1> USE VersionsAssumption
    DEF StartUninstall, Begin, TryDeleteTask, files, historyVars,
         Bits, Files, Words, InstallPoints,
         ReregisterPoints, UninstallPoints
<1>1. TypeOK'
  <2>1. FilesTypeOK' /\ registered' \subseteq Bits
    BY DEF SetupInv, TypeOK, FilesTypeOK, FlagsTypeOK, PointsTypeOK, HistoryTypeOK
  <2>2. FlagsTypeOK'
    BY Zenon DEF SetupInv, TypeOK, FlagsTypeOK
  <2>3. PointsTypeOK' /\ HistoryTypeOK'
    BY DEF SetupInv, TypeOK, FilesTypeOK, PointsTypeOK, HistoryTypeOK
  <2> QED BY <2>1, <2>2, <2>3 DEF TypeOK
<1>2. InstallInv'
  BY DEF SetupInv, InstallInv, InPlace, OwedAtBoot, CopiedSoFar
<1>3. ToldInv'
  BY DEF SetupInv, InstallInv, UninstallInv, ToldInv
<1>4. ReregisterInv'
  BY DEF SetupInv, ToldInv, ReregisterInv, RestartWillComplete,
         InPlace, OwedAtBoot
<1>5. UninstallInv'
  BY DEF SetupInv, UninstallInv
<1>6. InstalledIsInPlace'
  BY DEF SetupInv, InstallInv, ReregisterInv, UninstallInv,
         InstalledIsInPlace, ToldInv, InPlace, CopiedSoFar
<1>7. RestartWillComplete'
  BY DEF SetupInv, InstallInv, UninstallInv, RestartWillComplete,
         CopiedSoFar, InPlace, OwedAtBoot, ToldInv
<1>8. RemovedStaysRemoved'
  BY DEF SetupInv, UninstallInv, RemovedStaysRemoved, ToldInv
<1> QED  BY <1>1, <1>2, <1>3, <1>4, <1>5, <1>6, <1>7, <1>8 DEF SetupInv

\* The registrations, whose failure is ignored.
LEMMA UnregisterKeeps == SetupInv /\ Unregister => SetupInv'
<1> SUFFICES ASSUME SetupInv, Unregister PROVE SetupInv'
  OBVIOUS
<1> USE VersionsAssumption
    DEF Unregister, RunRegsvr, files, historyVars,
         Bits, Files, Words, InstallPoints,
         ReregisterPoints, UninstallPoints
<1>1. TypeOK'
  <2>1. FilesTypeOK' /\ registered' \subseteq Bits
    BY DEF SetupInv, TypeOK, FilesTypeOK, FlagsTypeOK, PointsTypeOK, HistoryTypeOK
  <2>2. FlagsTypeOK'
    BY Zenon DEF SetupInv, TypeOK, FlagsTypeOK
  <2>3. PointsTypeOK' /\ HistoryTypeOK'
    BY DEF SetupInv, TypeOK, FilesTypeOK, PointsTypeOK, HistoryTypeOK
  <2> QED BY <2>1, <2>2, <2>3 DEF TypeOK
<1>2. InstallInv'
  BY DEF SetupInv, InstallInv, InPlace, OwedAtBoot, CopiedSoFar
<1>3. ToldInv'
  BY DEF SetupInv, InstallInv, UninstallInv, ToldInv
<1>4. ReregisterInv'
  BY DEF SetupInv, ToldInv, ReregisterInv, RestartWillComplete,
         InPlace, OwedAtBoot
<1>5. UninstallInv'
  BY DEF SetupInv, UninstallInv
<1>6. InstalledIsInPlace'
  BY DEF SetupInv, InstallInv, ReregisterInv, UninstallInv,
         InstalledIsInPlace, ToldInv, InPlace, CopiedSoFar
<1>7. RestartWillComplete'
  BY DEF SetupInv, InstallInv, UninstallInv, RestartWillComplete,
         CopiedSoFar, InPlace, OwedAtBoot, ToldInv
<1>8. RemovedStaysRemoved'
  BY DEF SetupInv, UninstallInv, RemovedStaysRemoved, ToldInv
<1> QED  BY <1>1, <1>2, <1>3, <1>4, <1>5, <1>6, <1>7, <1>8 DEF SetupInv

\* The DLLs, one after the other.
LEMMA DeleteKeeps == SetupInv /\ Delete => SetupInv'
<1> SUFFICES ASSUME SetupInv, Delete PROVE SetupInv'
  OBVIOUS
<1> USE VersionsAssumption
    DEF Delete, NextDeletion, Go, files, historyVars,
         Bits, Files, Words, InstallPoints,
         ReregisterPoints, UninstallPoints
<1>1. TypeOK'
  <2>1. FilesTypeOK' /\ registered' \subseteq Bits
    BY DEF SetupInv, TypeOK, FilesTypeOK, FlagsTypeOK, PointsTypeOK, HistoryTypeOK
  <2>2. FlagsTypeOK'
    BY Zenon DEF SetupInv, TypeOK, FlagsTypeOK
  <2>3. PointsTypeOK' /\ HistoryTypeOK'
    BY DEF SetupInv, TypeOK, FilesTypeOK, PointsTypeOK, HistoryTypeOK
  <2> QED BY <2>1, <2>2, <2>3 DEF TypeOK
<1>2. InstallInv'
  BY DEF SetupInv, InstallInv, InPlace, OwedAtBoot, CopiedSoFar
<1>3. ToldInv'
  BY DEF SetupInv, InstallInv, UninstallInv, ToldInv
<1>4. ReregisterInv'
  BY DEF SetupInv, ToldInv, ReregisterInv, RestartWillComplete,
         InPlace, OwedAtBoot
<1>5. UninstallInv'
  BY DEF SetupInv, UninstallInv, TypeOK, FilesTypeOK, PointsTypeOK
<1>6. InstalledIsInPlace'
  BY DEF SetupInv, InstallInv, ReregisterInv, UninstallInv,
         InstalledIsInPlace, ToldInv, InPlace, CopiedSoFar
<1>7. RestartWillComplete'
  BY DEF SetupInv, InstallInv, UninstallInv, RestartWillComplete,
         CopiedSoFar, InPlace, OwedAtBoot, ToldInv
<1>8. RemovedStaysRemoved'
  BY DEF SetupInv, UninstallInv, RemovedStaysRemoved, ToldInv
<1> QED  BY <1>1, <1>2, <1>3, <1>4, <1>5, <1>6, <1>7, <1>8 DEF SetupInv

\* A DLL in use is renamed away.
LEMMA RenameOldKeeps == SetupInv /\ RenameOld => SetupInv'
<1> SUFFICES ASSUME SetupInv, RenameOld PROVE SetupInv'
  OBVIOUS
<1> USE VersionsAssumption
    DEF RenameOld, NextDeletion, files, historyVars,
         Bits, Files, Words, InstallPoints,
         ReregisterPoints, UninstallPoints
<1>1. TypeOK'
  <2>1. FilesTypeOK' /\ registered' \subseteq Bits
    BY DEF SetupInv, TypeOK, FilesTypeOK, FlagsTypeOK, PointsTypeOK, HistoryTypeOK
  <2>2. FlagsTypeOK'
    BY Zenon DEF SetupInv, TypeOK, FlagsTypeOK
  <2>3. file[bit] \in Files
    BY DEF SetupInv, TypeOK, FilesTypeOK, PointsTypeOK
  <2>4. old' \in Files
    BY <2>3 DEF SetupInv, TypeOK, PointsTypeOK
  <2>5. PointsTypeOK' /\ HistoryTypeOK'
    BY <2>4 DEF SetupInv, TypeOK, PointsTypeOK, HistoryTypeOK
  <2> QED BY <2>1, <2>2, <2>5 DEF TypeOK
<1>2. InstallInv'
  BY DEF SetupInv, InstallInv, InPlace, OwedAtBoot, CopiedSoFar
<1>3. ToldInv'
  BY DEF SetupInv, InstallInv, UninstallInv, ToldInv
<1>4. ReregisterInv'
  BY DEF SetupInv, ToldInv, ReregisterInv, RestartWillComplete,
         InPlace, OwedAtBoot
<1>5. UninstallInv'
  BY DEF SetupInv, UninstallInv, TypeOK, FilesTypeOK, PointsTypeOK
<1>6. InstalledIsInPlace'
  BY DEF SetupInv, InstallInv, ReregisterInv, UninstallInv,
         InstalledIsInPlace, ToldInv, InPlace, CopiedSoFar
<1>7. RestartWillComplete'
  BY DEF SetupInv, InstallInv, UninstallInv, RestartWillComplete,
         CopiedSoFar, InPlace, OwedAtBoot, ToldInv
<1>8. RemovedStaysRemoved'
  BY DEF SetupInv, UninstallInv, RemovedStaysRemoved, ToldInv
<1> QED  BY <1>1, <1>2, <1>3, <1>4, <1>5, <1>6, <1>7, <1>8 DEF SetupInv

\* Its deletion left to the reboot.
LEMMA DoomOldKeeps == SetupInv /\ DoomOld => SetupInv'
<1> SUFFICES ASSUME SetupInv, DoomOld PROVE SetupInv'
  OBVIOUS
<1> USE VersionsAssumption
    DEF DoomOld, NextDeletion, Go, files, historyVars,
         Bits, Files, Words, InstallPoints,
         ReregisterPoints, UninstallPoints
<1>1. TypeOK'
  <2>1. FilesTypeOK' /\ registered' \subseteq Bits
    BY DEF SetupInv, TypeOK, FilesTypeOK, FlagsTypeOK, PointsTypeOK, HistoryTypeOK
  <2>2. FlagsTypeOK'
    BY Zenon DEF SetupInv, TypeOK, FlagsTypeOK
  <2>3. PointsTypeOK' /\ HistoryTypeOK'
    BY DEF SetupInv, TypeOK, FilesTypeOK, PointsTypeOK, HistoryTypeOK
  <2> QED BY <2>1, <2>2, <2>3 DEF TypeOK
<1>2. InstallInv'
  BY DEF SetupInv, InstallInv, InPlace, OwedAtBoot, CopiedSoFar
<1>3. ToldInv'
  BY DEF SetupInv, InstallInv, UninstallInv, ToldInv
<1>4. ReregisterInv'
  BY DEF SetupInv, ToldInv, ReregisterInv, RestartWillComplete,
         InPlace, OwedAtBoot
<1>5. UninstallInv'
  BY DEF SetupInv, UninstallInv
<1>6. InstalledIsInPlace'
  BY DEF SetupInv, InstallInv, ReregisterInv, UninstallInv,
         InstalledIsInPlace, ToldInv, InPlace, CopiedSoFar
<1>7. RestartWillComplete'
  BY DEF SetupInv, InstallInv, UninstallInv, RestartWillComplete,
         CopiedSoFar, InPlace, OwedAtBoot, ToldInv
<1>8. RemovedStaysRemoved'
  BY DEF SetupInv, UninstallInv, RemovedStaysRemoved, ToldInv
<1> QED  BY <1>1, <1>2, <1>3, <1>4, <1>5, <1>6, <1>7, <1>8 DEF SetupInv

\* The rename taken back: the uninstall has failed.
LEMMA UndoOldKeeps == SetupInv /\ UndoOld => SetupInv'
<1> SUFFICES ASSUME SetupInv, UndoOld PROVE SetupInv'
  OBVIOUS
<1> USE VersionsAssumption
    DEF UndoOld, NextDeletion, files, historyVars,
         Bits, Files, Words, InstallPoints,
         ReregisterPoints, UninstallPoints
<1>1. TypeOK'
  <2>1. FilesTypeOK' /\ registered' \subseteq Bits
    BY DEF SetupInv, TypeOK, FilesTypeOK, FlagsTypeOK, PointsTypeOK, HistoryTypeOK
  <2>2. FlagsTypeOK'
    BY Zenon DEF SetupInv, TypeOK, FlagsTypeOK
  <2>3. PointsTypeOK' /\ HistoryTypeOK'
    BY DEF SetupInv, TypeOK, FilesTypeOK, PointsTypeOK, HistoryTypeOK
  <2> QED BY <2>1, <2>2, <2>3 DEF TypeOK
<1>2. InstallInv'
  BY DEF SetupInv, InstallInv, InPlace, OwedAtBoot, CopiedSoFar
<1>3. ToldInv'
  BY DEF SetupInv, InstallInv, UninstallInv, ToldInv
<1>4. ReregisterInv'
  BY DEF SetupInv, ToldInv, ReregisterInv, RestartWillComplete,
         InPlace, OwedAtBoot
<1>5. UninstallInv'
  BY DEF SetupInv, UninstallInv
<1>6. InstalledIsInPlace'
  BY DEF SetupInv, InstallInv, ReregisterInv, UninstallInv,
         InstalledIsInPlace, ToldInv, InPlace, CopiedSoFar
<1>7. RestartWillComplete'
  BY DEF SetupInv, InstallInv, UninstallInv, RestartWillComplete,
         CopiedSoFar, InPlace, OwedAtBoot, ToldInv
<1>8. RemovedStaysRemoved'
  BY DEF SetupInv, UninstallInv, RemovedStaysRemoved, ToldInv
<1> QED  BY <1>1, <1>2, <1>3, <1>4, <1>5, <1>6, <1>7, <1>8 DEF SetupInv

\* With {app} goes all that a reboot could bring back.
LEMMA RemoveAppKeeps == SetupInv /\ RemoveApp => SetupInv'
<1> SUFFICES ASSUME SetupInv, RemoveApp PROVE SetupInv'
  OBVIOUS
<1> USE VersionsAssumption
    DEF RemoveApp, PurgeResiduals, Exit, Begin, files, historyVars,
         Bits, Files, Words, InstallPoints,
         ReregisterPoints, UninstallPoints
<1>1. TypeOK'
  <2>1. FilesTypeOK' /\ registered' \subseteq Bits
    BY DEF SetupInv, TypeOK, FilesTypeOK, FlagsTypeOK, PointsTypeOK, HistoryTypeOK
  <2>2. FlagsTypeOK'
    BY Zenon DEF SetupInv, TypeOK, FlagsTypeOK
  <2>3. PointsTypeOK' /\ HistoryTypeOK'
    BY DEF SetupInv, TypeOK, FilesTypeOK, PointsTypeOK, HistoryTypeOK
  <2> QED BY <2>1, <2>2, <2>3 DEF TypeOK
<1>2. InstallInv'
  BY DEF SetupInv, InstallInv, InPlace, OwedAtBoot, CopiedSoFar
<1>3. ToldInv'
  BY DEF SetupInv, InstallInv, UninstallInv, ToldInv
<1>4. ReregisterInv'
  BY DEF SetupInv, ToldInv, ReregisterInv, RestartWillComplete,
         InPlace, OwedAtBoot
<1>5. UninstallInv'
  BY DEF SetupInv, UninstallInv
<1>6. InstalledIsInPlace'
  BY DEF SetupInv, InstallInv, ReregisterInv, UninstallInv,
         InstalledIsInPlace, ToldInv, InPlace, CopiedSoFar
<1>7. RestartWillComplete'
  BY DEF SetupInv, InstallInv, UninstallInv, RestartWillComplete,
         CopiedSoFar, InPlace, OwedAtBoot, ToldInv
<1>8. RemovedStaysRemoved'
  BY DEF SetupInv, UninstallInv, RemovedStaysRemoved, ToldInv
<1> QED  BY <1>1, <1>2, <1>3, <1>4, <1>5, <1>6, <1>7, <1>8 DEF SetupInv

\* The inductive invariant holds of every run of the helper and the installer.
THEOREM SetupInvariant == Spec => []SetupInv
<1>1. Init => SetupInv
  BY VersionsAssumption
     DEF Init, SetupInv, TypeOK, FilesTypeOK, FlagsTypeOK, PointsTypeOK,
         HistoryTypeOK, Bits, Files, Words, InstallPoints, UninstallPoints,
         InstallInv, ToldInv, ReregisterInv, UninstallInv, InstalledIsInPlace,
         RestartWillComplete, RemovedStaysRemoved
<1>2. SetupInv /\ [Next]_vars => SetupInv'
  <2> SUFFICES ASSUME SetupInv, [Next]_vars PROVE SetupInv'
    OBVIOUS
  <2>1. CASE \E v \in Versions, extracted \in SUBSET Bits : StartInstall(v, extracted)
    BY <2>1, StartInstallKeeps
  <2>2. CASE StartUninstall
    BY <2>2, StartUninstallKeeps
  <2>3. CASE InstallStep
    BY <2>3, CopyKeeps, RenameKeeps, DoomKeeps, UndoKeeps, RecopyKeeps,
       StageKeeps, ScheduleKeeps, ScheduleTaskKeeps, RegisterKeeps DEF InstallStep
  <2>4. CASE Reregister
    BY <2>4, ReregisterKeeps
  <2>5. CASE UninstallStep
    BY <2>5, UnregisterKeeps, DeleteKeeps, RenameOldKeeps, DoomOldKeeps,
       UndoOldKeeps, RemoveAppKeeps DEF UninstallStep
  <2>6. CASE Boot
    BY <2>6, BootKeeps
  <2>7. CASE UNCHANGED vars
    BY <2>7 DEF vars, files, progress, historyVars, SetupInv, TypeOK,
         FilesTypeOK, FlagsTypeOK, PointsTypeOK, HistoryTypeOK, InstallInv,
         ToldInv, ReregisterInv, UninstallInv, InstalledIsInPlace,
         RestartWillComplete, RemovedStaysRemoved, InPlace, OwedAtBoot, CopiedSoFar
  <2> QED BY <2>1, <2>2, <2>3, <2>4, <2>5, <2>6, <2>7 DEF Next, HelperStep
<1> QED BY <1>1, <1>2, PTL DEF Spec

\* Type correctness of the setup helper and the installer.
THEOREM TypeCorrect == Spec => []TypeOK
<1>1. SetupInv => TypeOK
  BY DEF SetupInv
<1> QED BY <1>1, SetupInvariant, PTL

\* A reported success is true of both DLLs, and stays true of each until a boot
\* puts a build in its place that an earlier install had left to it.
THEOREM SuccessIsTrue == Spec => []InstalledIsInPlace
<1>1. SetupInv => InstalledIsInPlace
  BY DEF SetupInv
<1> QED BY <1>1, SetupInvariant, PTL

\* A requested restart finds the task, and each DLL in place or left to the boot,
\* unless the boot has put an older build there that an earlier install left to it.
THEOREM RestartCompletes == Spec => []RestartWillComplete
<1>1. SetupInv => RestartWillComplete
  BY DEF SetupInv
<1> QED BY <1>1, SetupInvariant, PTL

\* After a reported removal both DLLs are gone, no boot brings one back, and the
\* task, should it have survived, finds no helper; registrations may survive.
THEOREM RemovalIsFinal == Spec => []RemovedStaysRemoved
<1>1. SetupInv => RemovedStaysRemoved
  BY DEF SetupInv
<1> QED BY <1>1, SetupInvariant, PTL
=============================================================================
