----------------------------- MODULE UpdaterProofs -----------------------------
(***************************************************************************)
(* What module Updater keeps for any number of releases, launches,         *)
(* downloads, failing steps and crashes.                                   *)
(*                                                                         *)
(* DownloadsInv follows a download from the check of the version to the    *)
(* helper it becomes, ProgramsInv what a program was started from.         *)
(* AloneInv says where the complete copy is at each step of a helper that  *)
(* no other helper has met, and that a machine which stopped in the middle *)
(* of a replacement runs nothing that could touch the backup.              *)
(***************************************************************************)
EXTENDS Updater, TLAPS

Releases == Versions \cup {None}
Sound    == Versions \cup {None, Partial}

ProgramStages  == {"none", "cleaning", "running", "ending", "ended"}
DownloadStages == {"none", "checked", "current", "staged", "launched", "failed"}
HelperStages   == Replacing \cup {"none", "waiting", "spawned", "ended"}

FileTypes ==
  /\ latest \in Versions /\ target \in Sound /\ backup \in Sound /\ staged \in [Downloads -> Sound]
ProgramTypes ==
  program \in [Programs -> [stage : ProgramStages, version : Releases,
                            image : {None, "target", "backup"}, cleans : Downloads \cup {0}]]
DownloadTypes ==
  /\ download \in [Downloads -> [stage : DownloadStages, by : Programs \cup {0}, release : Releases]]
  /\ helper \in [Downloads -> HelperStages]
CounterTypes ==
  launches \in 0..MaxLaunches /\ faults \in 0..MaxFaults /\ crashes \in 0..MaxCrashes
Types == FileTypes /\ ProgramTypes /\ DownloadTypes /\ CounterTypes /\ overlapped \in BOOLEAN

(* Between the check of the version and the end of the helper.              *)
Started(d) == download[d].stage \in {"checked", "staged", "launched"}
AtWork(d)  == helper[d] \notin {"none", "ended"}

Newer(d) ==
  LET p == download[d].by IN
    /\ p \in Programs /\ program[p].stage # "none" /\ program[p].version \in Versions
    /\ download[d].release \in Versions /\ download[d].release > program[p].version

DownloadInv(d) ==
  /\ helper[d] # "none" <=> download[d].stage = "launched"
  /\ Started(d) => Newer(d)
  /\ download[d].stage \in {"checked", "staged"} => Alive(download[d].by)
  /\ download[d].stage = "staged" \/ AtWork(d) => staged[d] = download[d].release
  /\ helper[d] # "none" => staged[d] \in {download[d].release, None}
DownloadsInv == \A d \in Downloads : DownloadInv(d)

ProgramInv(p) ==
  /\ program[p].stage # "none" => program[p].version \in Versions
  /\ program[p].stage = "cleaning" => program[p].cleans \in Downloads
  /\ program[p].cleans # 0 => helper[program[p].cleans] # "none"
  /\ program[p].cleans # 0 /\ ~overlapped => program[p].version = download[program[p].cleans].release
ProgramsInv == \A p \in Programs : ProgramInv(p)

(* Where the complete copy is while the helper h is at work alone.          *)
Away == backup \in Versions /\ ~Runs("target")
CopyIs(h) ==
  /\ helper[h] \in {"ready", "unbacked"} => target \in Versions
  /\ helper[h] = "renamed"    => Away /\ target = None
  /\ helper[h] = "copying"    => Away /\ target = Partial
  /\ helper[h] = "restoring"  => Away /\ target \notin Versions
  /\ helper[h] \in {"copied", "replaced"} => target = download[h].release
Dead == (\A p \in Programs : ~Alive(p)) /\ (\A h \in Downloads : ~AtWork(h))
AloneInv ==
  ~overlapped =>
    /\ \A g, h \in Downloads : helper[g] \in Replacing /\ helper[h] \in Replacing => g = h
    /\ \A h \in Downloads : CopyIs(h)
    /\ \/ \E h \in Downloads : helper[h] \in Replacing
       \/ target \in Versions
       \/ crashes > 0 /\ backup \in Versions /\ Dead

IInv == Types /\ DownloadsInv /\ ProgramsInv /\ AloneInv

-----------------------------------------------------------------------------
(* Types. *)

LEMMA Shapes ==
  /\ Downloads \subseteq Nat /\ 0 \notin Downloads /\ 0 \notin Programs /\ Versions \subseteq Nat
  /\ None \notin Versions /\ Partial \notin Versions /\ Corrupt \notin Versions
  /\ Corrupt \notin Sound /\ 1 \in Versions
BY UpdaterAssumption DEF Downloads, Programs, Versions, Sound

LEMMA HelperStep ==
  ASSUME Types, NEW h \in Downloads, NEW stage \in HelperStages, HelperTo(h, stage)
  PROVE  /\ helper' \in [Downloads -> HelperStages] /\ overlapped' \in BOOLEAN
         /\ helper'[h] = stage /\ \A d \in Downloads : d # h => helper'[d] = helper[d]
BY DEF HelperTo, Types, DownloadTypes

LEMMA CountedFaults == ASSUME CounterTypes, Works \/ Fails PROVE faults' \in 0..MaxFaults
<1>1. faults \in 0..MaxFaults /\ MaxFaults \in Nat
  BY UpdaterAssumption DEF CounterTypes
<1>2. faults' = faults \/ (faults < MaxFaults /\ faults' = faults + 1)
  BY DEF Works, Fails
<1> QED BY <1>1, <1>2

LEMMA CountersStep == ASSUME Types, Next PROVE CounterTypes'
<1> USE DEF Types
<1>1. faults' \in 0..MaxFaults
  <2>1. Works \/ Fails
    BY DEF Next, Publish, LaunchByUser, Crash, Program, Thread, ApplyStagedUpdate, LeaveLoop, EndProgram,
           CleanupStagedUpdate, CheckLatest, DownloadAndStage, LaunchUpdateHelper, WaitForProcessExit,
           RemoveOldBackup, RenameTarget, BeginCopy, EndCopy, RestoreTarget, RemoveBackup, SpawnTarget,
           EndHelper, Works
  <2> QED BY <2>1, CountedFaults
<1>2. launches' \in 0..MaxLaunches /\ crashes' \in 0..MaxCrashes
  <2>1. CASE LaunchByUser
    BY <2>1, UpdaterAssumption DEF LaunchByUser, CounterTypes
  <2>2. CASE Crash
    BY <2>2, UpdaterAssumption DEF Crash, CounterTypes
  <2>3. CASE UNCHANGED <<launches, crashes>>
    BY <2>3 DEF CounterTypes
  <2> QED BY <2>1, <2>2, <2>3
          DEF Next, Publish, Program, Thread, ApplyStagedUpdate, LeaveLoop, EndProgram,
              CleanupStagedUpdate, CheckLatest, DownloadAndStage, LaunchUpdateHelper, WaitForProcessExit,
              RemoveOldBackup, RenameTarget, BeginCopy, EndCopy, RestoreTarget, RemoveBackup, SpawnTarget,
              EndHelper
<1> QED BY <1>1, <1>2 DEF CounterTypes

LEMMA MovedShape ==
  ASSUME ProgramTypes, NEW from, NEW to \in {"target", "backup"}
  PROVE  /\ Moved(from, to) \in [Programs -> [stage : ProgramStages, version : Releases,
                                  image : {None, "target", "backup"}, cleans : Downloads \cup {0}]]
         /\ \A p \in Programs :
              /\ Moved(from, to)[p].stage = program[p].stage
              /\ Moved(from, to)[p].version = program[p].version
              /\ Moved(from, to)[p].cleans = program[p].cleans
              /\ Moved(from, to)[p].image = IF program[p].image = from THEN to ELSE program[p].image
BY DEF ProgramTypes, Moved

LEMMA ProgramsStep == ASSUME Types, Next PROVE ProgramTypes'
<1> USE DEF Types
<1>1. CASE LaunchByUser
  <2>1. PICK p \in Programs : program' = [program EXCEPT ![p] = Spawned("running", 0)]
    BY <1>1 DEF LaunchByUser
  <2>2. Spawned("running", 0) \in [stage : ProgramStages, version : Releases,
                                   image : {None, "target", "backup"}, cleans : Downloads \cup {0}]
    BY <1>1 DEF LaunchByUser, Spawned, ProgramStages, Releases
  <2> QED BY <2>1, <2>2 DEF ProgramTypes
<1>2. CASE Crash
  BY <1>2 DEF Crash, ProgramTypes, ProgramStages
<1>3. ASSUME NEW p \in Programs, Program(p) PROVE ProgramTypes'
  BY <1>3 DEF Program, LeaveLoop, EndProgram, CleanupStagedUpdate, ProgramTypes, ProgramStages
<1>4. ASSUME NEW h \in Downloads, RenameTarget(h) \/ RestoreTarget(h) PROVE ProgramTypes'
  <2>1. program' \in {program, Moved("target", "backup"), Moved("backup", "target")}
    BY <1>4 DEF RenameTarget, RestoreTarget, MoveAside
  <2> QED BY <2>1, MovedShape DEF ProgramTypes
<1>5. ASSUME NEW h \in Downloads, SpawnTarget(h) PROVE ProgramTypes'
  <2>1. CASE program' = program
    BY <2>1 DEF ProgramTypes
  <2>2. CASE program' # program
    <3>1. PICK p \in Programs : program' = [program EXCEPT ![p] = Spawned("cleaning", h)] /\ target \in Versions
      BY <1>5, <2>2 DEF SpawnTarget
    <3>2. Spawned("cleaning", h) \in [stage : ProgramStages, version : Releases,
                                      image : {None, "target", "backup"}, cleans : Downloads \cup {0}]
      BY <3>1 DEF Spawned, ProgramStages, Releases
    <3> QED BY <3>1, <3>2 DEF ProgramTypes
  <2> QED BY <2>1, <2>2
<1>6. CASE program' = program
  BY <1>6 DEF ProgramTypes
<1> QED BY <1>1, <1>2, <1>3, <1>4, <1>5, <1>6
        DEF Next, Publish, Thread, ApplyStagedUpdate, CheckLatest, DownloadAndStage, LaunchUpdateHelper,
            WaitForProcessExit, RemoveOldBackup, BeginCopy, EndCopy, RemoveBackup, EndHelper

LEMMA CutShape ==
  ASSUME DownloadTypes, NEW d \in Downloads
  PROVE  /\ Cut(d) \in [stage : DownloadStages, by : Programs \cup {0}, release : Releases]
         /\ Cut(d).by = download[d].by /\ Cut(d).release = download[d].release
         /\ Cut(d).stage = IF download[d].stage \in {"checked", "staged"} THEN "failed" ELSE download[d].stage
BY DEF DownloadTypes, Cut, DownloadStages

LEMMA DownloadsStep == ASSUME Types, Next PROVE DownloadTypes' /\ overlapped' \in BOOLEAN
<1> USE DEF Types
<1>1. CASE Crash
  <2>1. download' \in [Downloads -> [stage : DownloadStages, by : Programs \cup {0}, release : Releases]]
    BY <1>1, CutShape DEF Crash
  <2>2. helper' \in [Downloads -> HelperStages]
    BY <1>1 DEF Crash, DownloadTypes, HelperStages
  <2> QED BY <1>1, <2>1, <2>2 DEF Crash, DownloadTypes
<1>2. ASSUME NEW p \in Programs, EndProgram(p) PROVE DownloadTypes' /\ overlapped' = overlapped
  <2>1. download' \in [Downloads -> [stage : DownloadStages, by : Programs \cup {0}, release : Releases]]
    BY <1>2, CutShape DEF EndProgram, DownloadTypes
  <2> QED BY <1>2, <2>1 DEF EndProgram, DownloadTypes
<1>3. ASSUME NEW d \in Downloads, CheckLatest(d) PROVE DownloadTypes' /\ overlapped' = overlapped
  BY <1>3 DEF CheckLatest, DownloadTypes, DownloadStages, FileTypes, Releases
<1>4. ASSUME NEW d \in Downloads, DownloadAndStage(d) \/ LaunchUpdateHelper(d)
      PROVE  DownloadTypes' /\ overlapped' = overlapped
  BY <1>4 DEF DownloadAndStage, LaunchUpdateHelper, DownloadTypes, DownloadStages, HelperStages
<1>5. ASSUME NEW h \in Downloads, ApplyStagedUpdate(h) PROVE DownloadTypes' /\ overlapped' \in BOOLEAN
  <2>1. download' = download
    BY <1>5 DEF ApplyStagedUpdate, WaitForProcessExit, RemoveOldBackup, RenameTarget, BeginCopy, EndCopy,
                RestoreTarget, RemoveBackup, SpawnTarget, EndHelper
  <2>2. \E stage \in HelperStages : HelperTo(h, stage)
    BY <1>5 DEF ApplyStagedUpdate, WaitForProcessExit, RemoveOldBackup, RenameTarget, BeginCopy, EndCopy,
                RestoreTarget, RemoveBackup, SpawnTarget, EndHelper, HelperStages, Replacing
  <2> QED BY <2>1, <2>2, HelperStep DEF DownloadTypes
<1>6. CASE UNCHANGED <<download, helper, overlapped>>
  BY <1>6 DEF DownloadTypes
<1> QED BY <1>1, <1>2, <1>3, <1>4, <1>5, <1>6
        DEF Next, Publish, LaunchByUser, Program, LeaveLoop, CleanupStagedUpdate, Thread

LEMMA FilesStep == ASSUME Types, Next PROVE FileTypes'
<1> USE DEF Types, files
<1>1. latest' \in Versions
  <2>1. CASE Publish
    BY <2>1, UpdaterAssumption DEF Publish, FileTypes, Versions
  <2>2. CASE latest' = latest
    BY <2>2 DEF FileTypes
  <2> QED BY <2>1, <2>2
          DEF Next, LaunchByUser, Crash, Program, Thread, ApplyStagedUpdate, LeaveLoop, EndProgram,
              CleanupStagedUpdate, CheckLatest, DownloadAndStage, LaunchUpdateHelper, WaitForProcessExit,
              RemoveOldBackup, RenameTarget, BeginCopy, EndCopy, RestoreTarget, RemoveBackup, SpawnTarget,
              EndHelper
<1>2. staged' \in [Downloads -> Sound]
  <2>1. ASSUME NEW d \in Downloads, DownloadAndStage(d) PROVE staged' \in [Downloads -> Sound]
    <3>1. download[d].release \in Sound
      BY DEF DownloadTypes, Releases, Sound
    <3> QED BY <2>1, <3>1 DEF DownloadAndStage, DigestMatches, FileTypes, Sound
  <2>2. ASSUME NEW p \in Programs, CleanupStagedUpdate(p) PROVE staged' \in [Downloads -> Sound]
    BY <2>2 DEF CleanupStagedUpdate, FileTypes, Sound
  <2>3. CASE staged' = staged
    BY <2>3 DEF FileTypes
  <2> QED BY <2>1, <2>2, <2>3
          DEF Next, Publish, LaunchByUser, Crash, Program, Thread, ApplyStagedUpdate, LeaveLoop, EndProgram,
              CheckLatest, LaunchUpdateHelper, WaitForProcessExit, RemoveOldBackup, RenameTarget, BeginCopy,
              EndCopy, RestoreTarget, RemoveBackup, SpawnTarget, EndHelper
<1>3. target' \in Sound /\ backup' \in Sound
  <2>1. ASSUME NEW h \in Downloads, ApplyStagedUpdate(h) PROVE target' \in Sound /\ backup' \in Sound
    BY <2>1 DEF ApplyStagedUpdate, WaitForProcessExit, RemoveOldBackup, RenameTarget, BeginCopy, EndCopy,
                RestoreTarget, RemoveBackup, SpawnTarget, EndHelper, FileTypes, Sound, RemoveFile, MoveAside
  <2>2. CASE UNCHANGED <<target, backup>>
    BY <2>2 DEF FileTypes
  <2> QED BY <2>1, <2>2
          DEF Next, Publish, LaunchByUser, Crash, Program, Thread, LeaveLoop, EndProgram,
              CleanupStagedUpdate, CheckLatest, DownloadAndStage, LaunchUpdateHelper
<1> QED BY <1>1, <1>2, <1>3 DEF FileTypes

LEMMA TypesStep == ASSUME Types, Next PROVE Types'
BY CountersStep, ProgramsStep, DownloadsStep, FilesStep DEF Types

-----------------------------------------------------------------------------
(* From the check of the version to the helper. *)

(* A process that has started keeps what it was started from.               *)
ProgramGrows ==
  \A p \in Programs : program[p].stage # "none" =>
    /\ program'[p].stage # "none" /\ program'[p].version = program[p].version
    /\ program'[p].cleans = program[p].cleans
StagesKept == \A p \in Programs : program[p].stage # "none" => program'[p].stage = program[p].stage

(* A step of a helper, or of the user, changes no process that has started. *)
LEMMA SpawnGrows ==
  ASSUME Types, NEW p \in Programs, FirstUnused(p), NEW stage \in ProgramStages, NEW cleans,
         program' = [program EXCEPT ![p] = Spawned(stage, cleans)]
  PROVE  /\ ProgramGrows /\ StagesKept /\ program[p].stage = "none"
         /\ program'[p] = Spawned(stage, cleans)
         /\ \A q \in Programs : q # p => program'[q] = program[q]
BY DEF Types, ProgramTypes, FirstUnused, Unused, ProgramGrows, StagesKept

LEMMA HelperMoves ==
  ASSUME Types, NEW h \in Downloads, ApplyStagedUpdate(h)
  PROVE  /\ UNCHANGED <<latest, download, staged, crashes>>
         /\ AtWork(h) /\ helper'[h] \in HelperStages \ {"none"}
         /\ \A d \in Downloads : d # h => helper'[d] = helper[d]
         /\ ProgramGrows /\ StagesKept
<1>1. UNCHANGED <<latest, download, staged, crashes>>
  BY DEF ApplyStagedUpdate, WaitForProcessExit, RemoveOldBackup, RenameTarget, BeginCopy, EndCopy,
         RestoreTarget, RemoveBackup, SpawnTarget, EndHelper, files
<1>2. AtWork(h) /\ \E stage \in HelperStages \ {"none"} : HelperTo(h, stage)
  BY DEF ApplyStagedUpdate, WaitForProcessExit, RemoveOldBackup, RenameTarget, BeginCopy, EndCopy,
         RestoreTarget, RemoveBackup, SpawnTarget, EndHelper, HelperStages, Replacing, AtWork
<1>3. helper'[h] \in HelperStages \ {"none"} /\ \A d \in Downloads : d # h => helper'[d] = helper[d]
  BY <1>2, HelperStep
<1>4. ProgramGrows /\ StagesKept
  <2>1. CASE program' = program
    BY <2>1 DEF ProgramGrows, StagesKept
  <2>2. CASE program' \in {Moved("target", "backup"), Moved("backup", "target")}
    BY <2>2, MovedShape DEF ProgramGrows, StagesKept, Types
  <2>3. ASSUME NEW p \in Programs, FirstUnused(p), program' = [program EXCEPT ![p] = Spawned("cleaning", h)]
        PROVE  ProgramGrows /\ StagesKept
    BY <2>3, SpawnGrows DEF ProgramStages
  <2> QED BY <2>1, <2>2, <2>3
          DEF ApplyStagedUpdate, WaitForProcessExit, RemoveOldBackup, RenameTarget, BeginCopy, EndCopy,
              RestoreTarget, RemoveBackup, SpawnTarget, EndHelper, files, MoveAside
<1> QED BY <1>1, <1>2, <1>3, <1>4

LEMMA ProgramsGrow == ASSUME Types, Next PROVE ProgramGrows
<1>1. CASE LaunchByUser
  BY <1>1, SpawnGrows DEF LaunchByUser, ProgramStages
<1>2. CASE Crash
  BY <1>2 DEF Crash, Types, ProgramTypes, ProgramGrows
<1>3. ASSUME NEW p \in Programs, Program(p) PROVE ProgramGrows
  BY <1>3 DEF Program, LeaveLoop, EndProgram, CleanupStagedUpdate, Types, ProgramTypes, ProgramGrows
<1>4. CASE program' = program
  BY <1>4 DEF ProgramGrows
<1> QED BY <1>1, <1>2, <1>3, <1>4, HelperMoves
        DEF Next, Publish, Thread, CheckLatest, DownloadAndStage, LaunchUpdateHelper, files

(* A download another step leaves alone.                                     *)
LEMMA DownloadKept ==
  ASSUME Types, ProgramGrows, NEW d \in Downloads, DownloadInv(d), download'[d] = download[d],
         helper'[d] # "none" <=> helper[d] # "none", helper'[d] \notin {"none", "ended"} => AtWork(d),
         staged'[d] = staged[d],
         download[d].stage \in {"checked", "staged"} =>
           program'[download[d].by].stage \in {"cleaning", "running", "ending"}
  PROVE  DownloadInv(d)'
<1>1. Started(d)' => Newer(d)'
  BY DEF DownloadInv, Started, Newer, ProgramGrows
<1> QED BY <1>1 DEF DownloadInv, Alive, AtWork

(* A download whose thread ended with its process.                           *)
LEMMA DownloadCut ==
  ASSUME Types, ProgramGrows, NEW d \in Downloads, DownloadInv(d), download'[d] = Cut(d),
         helper'[d] # "none" <=> helper[d] # "none", helper'[d] \notin {"none", "ended"} => AtWork(d),
         staged'[d] = staged[d]
  PROVE  DownloadInv(d)'
<1>1. /\ download'[d].by = download[d].by /\ download'[d].release = download[d].release
      /\ download'[d].stage = IF download[d].stage \in {"checked", "staged"} THEN "failed" ELSE download[d].stage
  BY CutShape DEF Types
<1>2. Started(d)' => Newer(d)'
  BY <1>1 DEF DownloadInv, Started, Newer, ProgramGrows
<1> QED BY <1>1, <1>2 DEF DownloadInv, Alive, AtWork

LEMMA AliveKept ==
  ASSUME NEW d \in Downloads, DownloadInv(d), StagesKept, download[d].stage \in {"checked", "staged"}
  PROVE  program'[download[d].by].stage \in {"cleaning", "running", "ending"}
BY DEF DownloadInv, Started, Newer, Alive, StagesKept

LEMMA DownloadsKept ==
  ASSUME Types, DownloadsInv, ProgramsInv, Next
  PROVE  DownloadsInv'
<1> SUFFICES ASSUME NEW d \in Downloads PROVE DownloadInv(d)'
  BY DEF DownloadsInv
<1>0. DownloadInv(d) /\ ProgramGrows /\ Types'
  BY ProgramsGrow, TypesStep DEF DownloadsInv
<1>1. CASE Publish \/ LaunchByUser
  <2>1. UNCHANGED <<download, helper, staged>> /\ StagesKept
    BY <1>1, SpawnGrows DEF Publish, LaunchByUser, files, StagesKept, ProgramStages
  <2> QED BY <1>0, <2>1, DownloadKept, AliveKept DEF AtWork
<1>2. CASE Crash
  <2>1. download'[d] = Cut(d) /\ staged' = staged /\ helper'[d] = IF helper[d] = "none" THEN "none" ELSE "ended"
    BY <1>2 DEF Crash, files
  <2> QED BY <1>0, <2>1, DownloadCut DEF AtWork
<1>3. ASSUME NEW p \in Programs, LeaveLoop(p) PROVE DownloadInv(d)'
  <2>1. UNCHANGED <<download, helper, staged>>
    BY <1>3 DEF LeaveLoop, files
  <2>2. \A q \in Programs : Alive(q) => program'[q].stage \in {"cleaning", "running", "ending"}
    BY <1>3 DEF LeaveLoop, Alive, Types, ProgramTypes
  <2>3. download[d].stage \in {"checked", "staged"} =>
          program'[download[d].by].stage \in {"cleaning", "running", "ending"}
    BY <1>0, <2>2 DEF DownloadInv, Started, Newer
  <2> QED BY <1>0, <2>1, <2>3, DownloadKept DEF AtWork
<1>4. ASSUME NEW p \in Programs, EndProgram(p) PROVE DownloadInv(d)'
  <2>1. UNCHANGED <<helper, staged>> /\ download'[d] = IF download[d].by = p THEN Cut(d) ELSE download[d]
    BY <1>4 DEF EndProgram, files
  <2>2. \A q \in Programs : q # p => program'[q] = program[q]
    BY <1>4 DEF EndProgram, Types, ProgramTypes
  <2>3. download[d].by # p /\ download[d].stage \in {"checked", "staged"} =>
          program'[download[d].by].stage \in {"cleaning", "running", "ending"}
    BY <1>0, <2>2 DEF DownloadInv, Started, Newer, Alive
  <2> QED BY <1>0, <2>1, <2>3, DownloadKept, DownloadCut DEF AtWork
<1>5. ASSUME NEW p \in Programs, CleanupStagedUpdate(p) PROVE DownloadInv(d)'
  <2>1. /\ UNCHANGED <<download, helper>> /\ program[p].stage = "cleaning"
        /\ staged' = [staged EXCEPT ![program[p].cleans] = IF helper[program[p].cleans] = "ended" THEN None ELSE @]
    BY <1>5 DEF CleanupStagedUpdate
  <2>2. \A q \in Programs : Alive(q) => program'[q].stage \in {"cleaning", "running", "ending"}
    BY <1>5 DEF CleanupStagedUpdate, Alive, Types, ProgramTypes
  <2>3. download[d].stage \in {"checked", "staged"} =>
          program'[download[d].by].stage \in {"cleaning", "running", "ending"}
    BY <1>0, <2>2 DEF DownloadInv, Started, Newer
  <2>4. CASE staged'[d] = staged[d]
    BY <1>0, <2>1, <2>3, <2>4, DownloadKept DEF AtWork
  <2>5. CASE staged'[d] # staged[d]
    <3>1. helper[d] = "ended" /\ staged'[d] = None
      BY <2>1, <2>5 DEF Types, FileTypes
    <3>2. Started(d)' => Newer(d)'
      BY <1>0, <2>1 DEF DownloadInv, Started, Newer, ProgramGrows
    <3> QED BY <1>0, <2>1, <3>1, <3>2 DEF DownloadInv, Alive, AtWork
  <2> QED BY <2>4, <2>5
<1>6. ASSUME NEW e \in Downloads, Thread(e), e # d PROVE DownloadInv(d)'
  <2>1. /\ program' = program /\ download'[d] = download[d] /\ helper'[d] = helper[d]
        /\ staged'[d] = staged[d]
    BY <1>6 DEF Thread, CheckLatest, DownloadAndStage, LaunchUpdateHelper, files, Types, DownloadTypes, FileTypes
  <2>2. StagesKept
    BY <2>1 DEF StagesKept
  <2> QED BY <1>0, <2>1, <2>2, DownloadKept, AliveKept DEF AtWork
<1>7. CASE CheckLatest(d)
  <2>1. UNCHANGED <<program, helper, staged>> /\ download[d].stage = "none"
    BY <1>7 DEF CheckLatest, NextDownload, files
  <2>2. PICK p \in Programs : /\ program[p].stage = "running"
                              /\ download'[d].by = p /\ download'[d].release = latest
                              /\ \/ download'[d].stage = IF latest > program[p].version THEN "checked" ELSE "current"
                                 \/ download'[d].stage = "failed"
    BY <1>7 DEF CheckLatest, IsNewer, Types, DownloadTypes
  <2>3. program[p].version \in Versions /\ latest \in Versions
    BY <2>2 DEF ProgramsInv, ProgramInv, Types, FileTypes
  <2>4. Started(d)' => Newer(d)'
    BY <2>1, <2>2, <2>3 DEF Started, Newer
  <2>5. helper'[d] = "none" /\ download'[d].stage \notin {"staged", "launched"}
    BY <1>0, <2>1, <2>2 DEF DownloadInv
  <2> QED BY <2>1, <2>2, <2>4, <2>5 DEF DownloadInv, Alive, AtWork
<1>8. CASE DownloadAndStage(d)
  <2>1. UNCHANGED <<program, helper>> /\ download[d].stage = "checked"
    BY <1>8 DEF DownloadAndStage
  <2>2. /\ download'[d].by = download[d].by /\ download'[d].release = download[d].release
        /\ \/ download'[d].stage = "failed"
           \/ download'[d].stage = "staged" /\ staged'[d] = download[d].release
    BY <1>8 DEF DownloadAndStage, DigestMatches, Types, DownloadTypes, FileTypes
  <2>3. Newer(d)' /\ Alive(download[d].by) /\ helper'[d] = "none"
    BY <1>0, <2>1, <2>2 DEF DownloadInv, Started, Newer
  <2> QED BY <2>1, <2>2, <2>3 DEF DownloadInv, Alive, AtWork
<1>9. CASE LaunchUpdateHelper(d)
  <2>1. UNCHANGED <<program, staged>> /\ download[d].stage = "staged"
    BY <1>9 DEF LaunchUpdateHelper, files
  <2>2. /\ download'[d].by = download[d].by /\ download'[d].release = download[d].release
        /\ \/ download'[d].stage = "failed" /\ helper'[d] = helper[d]
           \/ download'[d].stage = "launched" /\ helper'[d] = "waiting"
    BY <1>9 DEF LaunchUpdateHelper, Types, DownloadTypes
  <2>3. Newer(d)' /\ helper[d] = "none" /\ staged[d] = download[d].release
    BY <1>0, <2>1, <2>2 DEF DownloadInv, Started, Newer
  <2> QED BY <2>1, <2>2, <2>3 DEF DownloadInv, Alive, AtWork
<1>10. ASSUME NEW h \in Downloads, ApplyStagedUpdate(h) PROVE DownloadInv(d)'
  <2>1. /\ UNCHANGED <<download, staged>> /\ StagesKept
        /\ helper'[d] # "none" <=> helper[d] # "none"
        /\ helper'[d] \notin {"none", "ended"} => AtWork(d)
    BY <1>10, HelperMoves DEF AtWork
  <2> QED BY <1>0, <2>1, DownloadKept, AliveKept
<1> QED BY <1>1, <1>2, <1>3, <1>4, <1>5, <1>6, <1>7, <1>8, <1>9, <1>10 DEF Next, Program, Thread

-----------------------------------------------------------------------------
(* What a program was started from. *)

HelpersGrow ==
  /\ \A h \in Downloads : helper[h] # "none" =>
       helper'[h] # "none" /\ download'[h].release = download[h].release
  /\ overlapped => overlapped'

LEMMA HelperGrows == ASSUME Types, DownloadsInv, Next PROVE HelpersGrow
<1>1. overlapped => overlapped'
  BY DEF Next, Publish, LaunchByUser, Crash, Program, Thread, ApplyStagedUpdate, LeaveLoop, EndProgram,
         CleanupStagedUpdate, CheckLatest, DownloadAndStage, LaunchUpdateHelper, WaitForProcessExit,
         RemoveOldBackup, RenameTarget, BeginCopy, EndCopy, RestoreTarget, RemoveBackup, SpawnTarget,
         EndHelper, HelperTo
<1>2. ASSUME NEW h \in Downloads, helper[h] # "none"
      PROVE  helper'[h] # "none" /\ download'[h].release = download[h].release
  <2>1. download[h].stage = "launched"
    BY <1>2 DEF DownloadsInv, DownloadInv
  <2>2. CASE Crash
    BY <1>2, <2>2, CutShape DEF Crash, Types
  <2>3. ASSUME NEW p \in Programs, Program(p)
        PROVE  helper'[h] # "none" /\ download'[h].release = download[h].release
    BY <1>2, <2>3, CutShape DEF Program, LeaveLoop, EndProgram, CleanupStagedUpdate, Types
  <2>4. ASSUME NEW d \in Downloads, Thread(d)
        PROVE  helper'[h] # "none" /\ download'[h].release = download[h].release
    BY <1>2, <2>1, <2>4
       DEF Thread, CheckLatest, NextDownload, DownloadAndStage, LaunchUpdateHelper, Types, DownloadTypes
  <2>5. ASSUME NEW d \in Downloads, ApplyStagedUpdate(d)
        PROVE  helper'[h] # "none" /\ download'[h].release = download[h].release
    BY <1>2, <2>5, HelperMoves
  <2> QED BY <1>2, <2>2, <2>3, <2>4, <2>5 DEF Next, Publish, LaunchByUser
<1> QED BY <1>1, <1>2 DEF HelpersGrow

LEMMA ProgramKept ==
  ASSUME Types, HelpersGrow, NEW q \in Programs, ProgramInv(q),
         program'[q].version = program[q].version, program'[q].cleans = program[q].cleans,
         program'[q].stage # "none" => program[q].stage # "none",
         program'[q].stage = "cleaning" => program[q].stage = "cleaning"
  PROVE  ProgramInv(q)'
<1>1. program[q].cleans \in Downloads \cup {0}
  BY DEF Types, ProgramTypes
<1> QED BY <1>1 DEF ProgramInv, HelpersGrow

LEMMA ProgramsKept ==
  ASSUME Types, DownloadsInv, ProgramsInv, AloneInv, Next
  PROVE  ProgramsInv'
<1> SUFFICES ASSUME NEW q \in Programs PROVE ProgramInv(q)'
  BY DEF ProgramsInv
<1>0. ProgramInv(q) /\ HelpersGrow /\ Types'
  BY HelperGrows, TypesStep DEF ProgramsInv
<1>1. CASE LaunchByUser
  <2>1. PICK p \in Programs : FirstUnused(p) /\ program' = [program EXCEPT ![p] = Spawned("running", 0)]
    BY <1>1 DEF LaunchByUser
  <2>2. program'[p] = Spawned("running", 0) /\ \A r \in Programs : r # p => program'[r] = program[r]
    BY <2>1, SpawnGrows DEF ProgramStages
  <2>3. CASE q = p
    BY <1>1, <2>2, <2>3 DEF ProgramInv, Spawned, LaunchByUser
  <2>4. CASE q # p
    BY <1>0, <2>2, <2>4, ProgramKept
  <2> QED BY <2>3, <2>4
<1>2. CASE Crash
  <2>1. /\ program'[q].version = program[q].version /\ program'[q].cleans = program[q].cleans
        /\ program'[q].stage # "none" => program[q].stage # "none"
        /\ program'[q].stage # "cleaning"
    BY <1>2 DEF Crash, Types, ProgramTypes, Alive
  <2> QED BY <1>0, <2>1, ProgramKept
<1>3. ASSUME NEW p \in Programs, Program(p) PROVE ProgramInv(q)'
  <2>1. /\ program'[q].version = program[q].version /\ program'[q].cleans = program[q].cleans
        /\ program'[q].stage # "none" => program[q].stage # "none"
        /\ program'[q].stage = "cleaning" => program[q].stage = "cleaning"
    BY <1>3 DEF Program, LeaveLoop, EndProgram, CleanupStagedUpdate, Types, ProgramTypes
  <2> QED BY <1>0, <2>1, ProgramKept
<1>4. ASSUME NEW h \in Downloads, RenameTarget(h) \/ RestoreTarget(h) PROVE ProgramInv(q)'
  <2>1. program' \in {program, Moved("target", "backup"), Moved("backup", "target")}
    BY <1>4 DEF RenameTarget, RestoreTarget, MoveAside
  <2>2. /\ program'[q].version = program[q].version /\ program'[q].cleans = program[q].cleans
        /\ program'[q].stage = program[q].stage
    BY <2>1, MovedShape DEF Types
  <2> QED BY <1>0, <2>2, ProgramKept
<1>5. ASSUME NEW h \in Downloads, SpawnTarget(h), program' # program PROVE ProgramInv(q)'
  <2>1. PICK p \in Programs : FirstUnused(p) /\ program' = [program EXCEPT ![p] = Spawned("cleaning", h)]
    BY <1>5 DEF SpawnTarget
  <2>2. program'[p] = Spawned("cleaning", h) /\ \A r \in Programs : r # p => program'[r] = program[r]
    BY <2>1, SpawnGrows DEF ProgramStages
  <2>3. CASE q = p
    <3>1. /\ program'[q].version = target /\ program'[q].cleans = h /\ h # 0
          /\ target \in Versions /\ helper[h] = "replaced"
      BY <1>5, <2>2, <2>3, Shapes DEF Spawned, SpawnTarget
    <3>2. ~overlapped => target = download[h].release
      BY <3>1 DEF AloneInv, CopyIs
    <3>3. helper'[h] # "none" /\ download'[h].release = download[h].release /\ (overlapped => overlapped')
      BY <1>0, <3>1 DEF HelpersGrow
    <3> QED BY <3>1, <3>2, <3>3 DEF ProgramInv
  <2>4. CASE q # p
    BY <1>0, <2>2, <2>4, ProgramKept
  <2> QED BY <2>3, <2>4
<1>6. CASE program' = program
  BY <1>0, <1>6, ProgramKept
<1> QED BY <1>1, <1>2, <1>3, <1>4, <1>5, <1>6
        DEF Next, Publish, Thread, ApplyStagedUpdate, CheckLatest, DownloadAndStage, LaunchUpdateHelper,
            WaitForProcessExit, RemoveOldBackup, BeginCopy, EndCopy, RemoveBackup, EndHelper

-----------------------------------------------------------------------------
(* Where the complete copy is. *)

Lone(h) == \A g \in Downloads : g # h => helper[g] \notin Replacing

(* A helper at work among the replacing ones that met nobody is the only one. *)
LEMMA Loneliness ==
  ASSUME Types, AloneInv, NEW h \in Downloads, NEW stage \in HelperStages, HelperTo(h, stage),
         ~overlapped', stage \in Replacing \/ helper[h] \in Replacing
  PROVE  /\ ~overlapped /\ Lone(h) /\ Lone(h)' /\ helper'[h] = stage
         /\ \A g \in Downloads : g # h => helper'[g] = helper[g]
<1>1. helper'[h] = stage /\ \A g \in Downloads : g # h => helper'[g] = helper[g]
  BY HelperStep
<1>2. ~overlapped /\ \A g, k \in Downloads : g # k => ~(helper'[g] \in Replacing /\ helper'[k] \in Replacing)
  BY DEF HelperTo
<1>3. Lone(h)
  BY <1>1, <1>2 DEF Lone, AloneInv
<1>4. Lone(h)'
  BY <1>1, <1>3 DEF Lone
<1> QED BY <1>1, <1>2, <1>3, <1>4

(* The invariant when h alone is at work, and when none is.                  *)
LEMMA AloneAtWork ==
  ASSUME NEW h \in Downloads, Lone(h)', helper'[h] \in Replacing, CopyIs(h)'
  PROVE  AloneInv'
<1>1. \A g \in Downloads : CopyIs(g)'
  BY DEF Lone, CopyIs, Replacing
<1> QED BY <1>1 DEF AloneInv, Lone

LEMMA AloneAtRest ==
  ASSUME NEW h \in Downloads, Lone(h)', helper'[h] \notin Replacing, target' \in Versions
  PROVE  AloneInv'
<1>1. \A g \in Downloads : helper'[g] \notin Replacing
  BY DEF Lone
<1>2. \A g \in Downloads : CopyIs(g)'
  BY <1>1 DEF CopyIs, Replacing
<1> QED BY <1>1, <1>2 DEF AloneInv

(* No process is left on the target once it is moved aside.                  *)
LEMMA MovedAside ==
  ASSUME ProgramTypes, program' = Moved("target", "backup")
  PROVE  ~Runs("target")'
BY MovedShape DEF Runs

LEMMA HelperKeepsCopy ==
  ASSUME Types, DownloadsInv, AloneInv, NEW h \in Downloads, ApplyStagedUpdate(h), ~overlapped'
  PROVE  AloneInv'
<1> USE DEF HelperStages, files
<1>0. /\ AtWork(h) /\ UNCHANGED <<download, staged, crashes>> /\ download[h].release \in Versions
      /\ AtWork(h) => staged[h] = download[h].release
  BY HelperMoves DEF AtWork, DownloadsInv, DownloadInv, Started, Newer
<1>1. CASE WaitForProcessExit(h)
  <2>1. HelperTo(h, "ready") /\ target' = target /\ helper[h] = "waiting"
    BY <1>1 DEF WaitForProcessExit
  <2>2. ~overlapped /\ Lone(h) /\ Lone(h)' /\ helper'[h] = "ready"
    BY <2>1, Loneliness DEF Replacing
  <2>3. target \in Versions
    BY <1>0, <2>1, <2>2, Shapes DEF AloneInv, Lone, Dead, Replacing
  <2>4. CopyIs(h)'
    BY <2>1, <2>2, <2>3 DEF CopyIs
  <2> QED BY <2>2, <2>4, AloneAtWork DEF Replacing
<1>2. CASE RemoveOldBackup(h)
  <2>1. HelperTo(h, "unbacked") /\ target' = target /\ helper[h] = "ready"
    BY <1>2 DEF RemoveOldBackup
  <2>2. ~overlapped /\ Lone(h)' /\ helper'[h] = "unbacked"
    BY <2>1, Loneliness DEF Replacing
  <2>3. CopyIs(h)'
    BY <2>1, <2>2 DEF AloneInv, CopyIs
  <2> QED BY <2>2, <2>3, AloneAtWork DEF Replacing
<1>3. CASE RenameTarget(h)
  <2>1. \E stage \in {"renamed", "ended"} : HelperTo(h, stage) /\ helper[h] = "unbacked"
    BY <1>3 DEF RenameTarget
  <2>2. ~overlapped /\ Lone(h)' /\ helper[h] = "unbacked"
    BY <2>1, Loneliness DEF Replacing
  <2>3. target \in Versions /\ target # None
    BY <2>2, Shapes DEF AloneInv, CopyIs
  <2>4. \/ HelperTo(h, "ended") /\ target' = target
        \/ HelperTo(h, "renamed") /\ backup' = target /\ target' = None /\ program' = Moved("target", "backup")
    BY <1>3, <2>3 DEF RenameTarget, MoveAside
  <2>5. CASE HelperTo(h, "ended") /\ target' = target
    <3>1. helper'[h] = "ended"
      BY <2>5, HelperStep
    <3> QED BY <2>2, <2>3, <2>5, <3>1, AloneAtRest DEF Replacing
  <2>6. CASE HelperTo(h, "renamed") /\ backup' = target /\ target' = None /\ program' = Moved("target", "backup")
    <3>1. helper'[h] = "renamed"
      BY <2>6, HelperStep DEF Replacing
    <3>2. ~Runs("target")'
      BY <2>6, MovedAside DEF Types
    <3>3. CopyIs(h)'
      BY <2>3, <2>6, <3>1, <3>2 DEF CopyIs, Away
    <3> QED BY <2>2, <3>1, <3>3, AloneAtWork DEF Replacing
  <2> QED BY <2>4, <2>5, <2>6
<1>4. CASE BeginCopy(h)
  <2>1. \E stage \in {"restoring", "copying"} : HelperTo(h, stage) /\ helper[h] = "renamed"
    BY <1>4 DEF BeginCopy
  <2>2. ~overlapped /\ Lone(h) /\ Lone(h)' /\ helper[h] = "renamed"
    BY <2>1, Loneliness DEF Replacing
  <2>3. Away /\ ~InUse("target")
    BY <2>2 DEF AloneInv, CopyIs, Away, InUse, Written, Lone, Replacing
  <2>4. HelperTo(h, "copying") /\ target' = Partial /\ backup' = backup /\ program' = program
    BY <1>4, <2>3 DEF BeginCopy
  <2>5. helper'[h] = "copying"
    BY <2>4, HelperStep DEF Replacing
  <2>6. CopyIs(h)'
    BY <2>3, <2>4, <2>5 DEF CopyIs, Away, Runs, Alive
  <2> QED BY <2>2, <2>5, <2>6, AloneAtWork DEF Replacing
<1>5. CASE EndCopy(h)
  <2>1. \E stage \in {"restoring", "copied"} : HelperTo(h, stage) /\ helper[h] = "copying"
    BY <1>5 DEF EndCopy
  <2>2. ~overlapped /\ Lone(h)' /\ helper[h] = "copying"
    BY <2>1, Loneliness DEF Replacing
  <2>3. /\ backup' = backup /\ program' = program
        /\ \/ target' = staged[h] /\ HelperTo(h, "copied")
           \/ target' \in {None, Partial} /\ HelperTo(h, "restoring")
    BY <1>5 DEF EndCopy
  <2>4. Away'
    BY <2>2, <2>3 DEF AloneInv, CopyIs, Away, Runs, Alive
  <2>5. \/ target' = download'[h].release /\ helper'[h] = "copied"
        \/ target' \notin Versions /\ helper'[h] = "restoring"
    BY <1>0, <2>3, HelperStep, Shapes DEF Replacing
  <2>6. CopyIs(h)'
    BY <2>4, <2>5 DEF CopyIs
  <2> QED BY <2>2, <2>5, <2>6, AloneAtWork DEF Replacing
<1>6. CASE RestoreTarget(h)
  <2>1. HelperTo(h, "ended") /\ helper[h] = "restoring"
    BY <1>6 DEF RestoreTarget
  <2>2. ~overlapped /\ Lone(h) /\ Lone(h)' /\ helper'[h] = "ended"
    BY <2>1, Loneliness DEF Replacing
  <2>3. backup \in Versions /\ backup # None /\ ~InUse("target")
    BY <2>1, <2>2, Shapes DEF AloneInv, CopyIs, Away, InUse, Written, Lone, Replacing
  <2>4. target' = backup
    BY <1>6, <2>3 DEF RestoreTarget
  <2> QED BY <2>2, <2>3, <2>4, AloneAtRest DEF Replacing
<1>7. CASE RemoveBackup(h)
  <2>1. HelperTo(h, "replaced") /\ target' = target /\ helper[h] = "copied"
    BY <1>7 DEF RemoveBackup
  <2>2. ~overlapped /\ Lone(h)' /\ helper'[h] = "replaced"
    BY <2>1, Loneliness DEF Replacing
  <2>3. target = download[h].release
    BY <2>1, <2>2 DEF AloneInv, CopyIs
  <2>4. CopyIs(h)'
    BY <1>0, <2>1, <2>2, <2>3 DEF CopyIs
  <2> QED BY <2>2, <2>4, AloneAtWork DEF Replacing
<1>8. CASE SpawnTarget(h)
  <2>1. /\ target' = target /\ helper[h] = "replaced"
        /\ \E stage \in {"spawned", "ended"} : HelperTo(h, stage)
    BY <1>8 DEF SpawnTarget
  <2>2. ~overlapped /\ Lone(h)' /\ helper'[h] \in {"spawned", "ended"}
    BY <2>1, Loneliness DEF Replacing
  <2>3. target \in Versions
    BY <1>0, <2>1, <2>2 DEF AloneInv, CopyIs
  <2> QED BY <2>1, <2>2, <2>3, AloneAtRest DEF Replacing
<1>9. CASE EndHelper(h)
  <2>1. UNCHANGED <<target, backup, program>> /\ helper[h] = "spawned" /\ HelperTo(h, "ended")
    BY <1>9 DEF EndHelper
  <2>2. ~overlapped /\ helper'[h] = "ended" /\ \A g \in Downloads : g # h => helper'[g] = helper[g]
    BY <2>1, HelperStep DEF HelperTo
  <2>3. /\ \A g, k \in Downloads : helper[g] \in Replacing /\ helper[k] \in Replacing => g = k
        /\ \A g \in Downloads : CopyIs(g)
        /\ (\E g \in Downloads : helper[g] \in Replacing) \/ target \in Versions
    BY <1>0, <2>2 DEF AloneInv, Dead
  <2>4. \A g \in Downloads : helper'[g] \in Replacing <=> helper[g] \in Replacing
    BY <2>1, <2>2 DEF Replacing
  <2>5. Away' = Away
    BY <2>1 DEF Away, Runs, Alive
  <2>6. \A g \in Downloads : CopyIs(g)'
    BY <1>0, <2>1, <2>2, <2>3, <2>5 DEF CopyIs
  <2> QED BY <2>1, <2>3, <2>4, <2>6 DEF AloneInv
<1> QED BY <1>1, <1>2, <1>3, <1>4, <1>5, <1>6, <1>7, <1>8, <1>9 DEF ApplyStagedUpdate

(* Steps that move no file and no helper at work.                            *)
LEMMA CopyStays ==
  ASSUME Types, DownloadsInv, AloneInv, HelpersGrow, UNCHANGED <<target, backup>>, ~overlapped',
         crashes' = crashes, Runs("target")' => Runs("target"),
         \A h \in Downloads : helper'[h] = helper[h] \/ (helper[h] = "none" /\ helper'[h] = "waiting"),
         Dead => Dead'
  PROVE  AloneInv'
<1>1. ~overlapped
  BY DEF HelpersGrow
<1>2. \A h \in Downloads : helper'[h] \in Replacing <=> helper[h] \in Replacing
  BY DEF Replacing
<1>3. \A h \in Downloads : CopyIs(h)'
  <2> SUFFICES ASSUME NEW h \in Downloads PROVE CopyIs(h)'
    OBVIOUS
  <2>1. CASE helper'[h] = "waiting"
    BY <2>1 DEF CopyIs
  <2>2. CASE helper'[h] = helper[h]
    <3>1. CopyIs(h) /\ (helper[h] # "none" => download'[h].release = download[h].release)
      BY <1>1 DEF AloneInv, HelpersGrow
    <3> QED BY <2>2, <3>1 DEF CopyIs, Away
  <2> QED BY <2>1, <2>2
<1> QED BY <1>1, <1>2, <1>3 DEF AloneInv

LEMMA ProgramsShrink ==
  ASSUME Types, NEW p \in Programs, Program(p)
  PROVE  /\ \A q \in Programs : Alive(q)' => Alive(q)
         /\ \A q \in Programs : program'[q].image = program[q].image
         /\ UNCHANGED <<target, backup, helper, crashes>>
BY DEF Program, LeaveLoop, EndProgram, CleanupStagedUpdate, Alive, Types, ProgramTypes, files

LEMMA AloneKept ==
  ASSUME Types, DownloadsInv, AloneInv, Next
  PROVE  AloneInv'
<1> SUFFICES ASSUME ~overlapped' PROVE AloneInv'
  BY DEF AloneInv
<1>0. HelpersGrow /\ ~overlapped
  BY HelperGrows DEF HelpersGrow
<1>1. CASE Publish
  <2>1. UNCHANGED <<target, backup, program, helper, crashes>>
    BY <1>1 DEF Publish, files
  <2> QED BY <1>0, <2>1, CopyStays DEF Dead, Runs, Alive, AtWork
<1>2. CASE LaunchByUser
  <2>1. UNCHANGED <<target, backup, helper, download>> /\ target \in Versions
    BY <1>2 DEF LaunchByUser, files
  <2>2. \A h \in Downloads : CopyIs(h)'
    BY <1>0, <2>1, Shapes DEF AloneInv, CopyIs
  <2> QED BY <1>0, <2>1, <2>2 DEF AloneInv
<1>3. CASE Crash
  <2>1. /\ UNCHANGED <<target, backup>> /\ crashes' = crashes + 1
        /\ \A h \in Downloads : helper'[h] \in {"none", "ended"}
    BY <1>3 DEF Crash, files
  <2>2. \A p \in Programs : ~Alive(p)'
    BY <1>3 DEF Crash, Alive, Types, ProgramTypes
  <2>3. Dead'
    BY <2>1, <2>2 DEF Dead, AtWork
  <2>4. crashes' > 0
    BY <2>1 DEF Types, CounterTypes
  <2>5. target' \in Versions \/ backup' \in Versions
    <3>1. CASE \E h \in Downloads : helper[h] \in Replacing
      <4>1. PICK h \in Downloads : helper[h] \in Replacing /\ CopyIs(h) /\ DownloadInv(h)
        BY <1>0, <3>1 DEF AloneInv, DownloadsInv
      <4>2. download[h].release \in Versions
        BY <4>1 DEF DownloadInv, Started, Newer, Replacing
      <4> QED BY <2>1, <4>1, <4>2 DEF CopyIs, Away, Replacing
    <3> QED BY <1>0, <2>1, <3>1 DEF AloneInv
  <2> QED BY <2>1, <2>3, <2>4, <2>5 DEF AloneInv, CopyIs, Replacing
<1>4. ASSUME NEW p \in Programs, Program(p) PROVE AloneInv'
  <2>1. /\ UNCHANGED <<target, backup, helper, crashes>>
        /\ Runs("target")' => Runs("target")
        /\ Dead => Dead'
    BY <1>4, ProgramsShrink DEF Runs, Dead, AtWork
  <2> QED BY <1>0, <2>1, CopyStays
<1>5. ASSUME NEW d \in Downloads, Thread(d) PROVE AloneInv'
  <2>1. UNCHANGED <<target, backup, program, crashes>>
    BY <1>5 DEF Thread, CheckLatest, DownloadAndStage, LaunchUpdateHelper, files
  <2>2. \A h \in Downloads : helper'[h] = helper[h] \/ (helper[h] = "none" /\ helper'[h] = "waiting")
    BY <1>5 DEF Thread, CheckLatest, DownloadAndStage, LaunchUpdateHelper, Types, DownloadTypes,
                DownloadsInv, DownloadInv
  <2>3. Dead => helper' = helper
    BY <1>5 DEF Thread, CheckLatest, DownloadAndStage, LaunchUpdateHelper, Dead, DownloadsInv, DownloadInv,
                Started, Newer
  <2> QED BY <1>0, <2>1, <2>2, <2>3, CopyStays DEF Dead, Runs, Alive, AtWork
<1> QED BY <1>1, <1>2, <1>3, <1>4, <1>5, HelperKeepsCopy DEF Next

-----------------------------------------------------------------------------
(* The theorems. *)

LEMMA NextKeeps == IInv /\ [Next]_vars => IInv'
<1> SUFFICES ASSUME IInv, [Next]_vars PROVE IInv'
  OBVIOUS
<1>1. CASE Next
  BY <1>1, TypesStep, DownloadsKept, ProgramsKept, AloneKept DEF IInv
<1>2. CASE UNCHANGED vars
  <2> USE <1>2 DEF vars, files, IInv
  <2>1. Types'
    BY DEF Types, FileTypes, ProgramTypes, DownloadTypes, CounterTypes
  <2>2. DownloadsInv' /\ ProgramsInv'
    BY DEF DownloadsInv, DownloadInv, Started, Newer, Alive, AtWork, ProgramsInv, ProgramInv
  <2>3. AloneInv'
    BY DEF AloneInv, CopyIs, Away, Runs, Alive, Dead, AtWork
  <2> QED BY <2>1, <2>2, <2>3
<1> QED BY <1>1, <1>2

LEMMA Inductive == Spec => []IInv
<1>1. Init => IInv
  <2> SUFFICES ASSUME Init PROVE IInv
    OBVIOUS
  <2>1. CounterTypes
    BY UpdaterAssumption DEF Init, CounterTypes
  <2>2. FileTypes
    BY Shapes DEF Init, FileTypes, Sound
  <2>3. ProgramTypes /\ DownloadTypes /\ overlapped \in BOOLEAN
    BY DEF Init, ProgramTypes, DownloadTypes, Unused, ProgramStages, DownloadStages, HelperStages, Releases
  <2>4. DownloadsInv /\ ProgramsInv
    BY DEF Init, DownloadsInv, DownloadInv, Started, AtWork, ProgramsInv, ProgramInv, Unused
  <2>5. AloneInv
    BY Shapes DEF Init, AloneInv, CopyIs, Replacing
  <2> QED BY <2>1, <2>2, <2>3, <2>4, <2>5 DEF IInv, Types
<1> QED BY <1>1, NextKeeps, PTL DEF Spec

(* What runs is a verified release and newer than the one it replaced, for   *)
(* any number of releases, downloads, failing steps and crashes.             *)
THEOREM OnlyVerifiedAndNewerRuns == Spec => []VerifiedAndNewer
<1>1. IInv => VerifiedAndNewer
  <2> SUFFICES ASSUME IInv PROVE VerifiedAndNewer
    OBVIOUS
  <2>1. TypeOK
    <3>1. latest \in Versions /\ {target, backup} \subseteq Contents /\ staged \in [Downloads -> Contents]
      BY DEF IInv, Types, FileTypes, Sound, Contents
    <3>2. \A p \in Programs :
            /\ program[p].stage \in {"none", "cleaning", "running", "ending", "ended"}
            /\ program[p].version \in Versions \cup {None} /\ program[p].cleans \in Downloads \cup {0}
            /\ program[p].image \in {None, "target", "backup"}
      BY DEF IInv, Types, ProgramTypes, ProgramStages, Releases
    <3>3. \A d \in Downloads :
            /\ download[d].stage \in {"none", "checked", "current", "staged", "launched", "failed"}
            /\ download[d].by \in Programs \cup {0} /\ download[d].release \in Versions \cup {None}
            /\ helper[d] \in Replacing \cup {"none", "waiting", "spawned", "ended"}
            /\ (helper[d] # "none") = (download[d].stage = "launched")
      BY DEF IInv, Types, DownloadTypes, DownloadStages, HelperStages, Releases, DownloadsInv, DownloadInv
    <3> QED BY <3>1, <3>2, <3>3 DEF IInv, Types, CounterTypes, TypeOK
  <2>2. OnlyVerifiedRuns
    BY Shapes DEF IInv, Types, FileTypes, DownloadsInv, DownloadInv, OnlyVerifiedRuns
  <2>3. NeverOlder
    <3> SUFFICES ASSUME NEW p \in Programs, program[p].cleans # 0, ~overlapped
                 PROVE  LET h == program[p].cleans IN
                          /\ program[p].version = download[h].release
                          /\ program[p].version > program[download[h].by].version
      BY DEF NeverOlder
    <3>1. PICK h \in Downloads : h = program[p].cleans
      BY DEF IInv, Types, ProgramTypes
    <3>2. helper[h] # "none" /\ program[p].version = download[h].release
      BY <3>1 DEF IInv, ProgramsInv, ProgramInv
    <3>3. download[h].release > program[download[h].by].version
      BY <3>2 DEF IInv, DownloadsInv, DownloadInv, Started, Newer
    <3> QED BY <3>1, <3>2, <3>3
  <2> QED BY <2>1, <2>2, <2>3 DEF VerifiedAndNewer
<1> QED BY <1>1, Inductive, PTL

(* A helper that met no other never leaves the user without a program, for   *)
(* every failing step and every moment the machine stops.                    *)
THEOREM AloneHelperKeepsProgram == Spec => []AloneProgramKept
<1>1. IInv => AloneProgramKept
  <2> SUFFICES ASSUME IInv, ~overlapped PROVE AloneCopyKept /\ AloneTargetKept
    BY DEF AloneProgramKept, AloneCopyKept, AloneTargetKept
  <2>1. AloneCopyKept
    <3>1. CASE \E h \in Downloads : helper[h] \in Replacing
      <4>1. PICK h \in Downloads : helper[h] \in Replacing /\ CopyIs(h) /\ DownloadInv(h)
        BY <3>1 DEF IInv, AloneInv, DownloadsInv
      <4>2. download[h].release \in Versions
        BY <4>1 DEF DownloadInv, Started, Newer, Replacing
      <4> QED BY <4>1, <4>2 DEF CopyIs, Away, Replacing, AloneCopyKept
    <3> QED BY <3>1 DEF IInv, AloneInv, AloneCopyKept
  <2>2. AloneTargetKept
    BY DEF IInv, AloneInv, AloneTargetKept
  <2> QED BY <2>1, <2>2
<1> QED BY <1>1, Inductive, PTL
=============================================================================
