-------------------------------- MODULE Updater --------------------------------
(***************************************************************************)
(* Download, verification and replacement of the program by its update     *)
(* (apps/codex-taskbar/src/updater.rs, main.rs, official_runtime.rs).      *)
(*                                                                         *)
(* A running program downloads a release to a staged file and starts it as *)
(* the helper; the helper waits for the program, moves the target aside,   *)
(* copies itself over it and starts it again; that program removes the     *)
(* staged file.  Nothing keeps two programs or two helpers from running.   *)
(*                                                                         *)
(* Windows: an executable that runs, or a file being written, can be       *)
(* neither removed nor overwritten; a running one can be renamed.          *)
(***************************************************************************)
EXTENDS Integers

CONSTANTS
  None, Partial, Corrupt,   \* no file; a file cut short; a file that is not the release
  MaxVersion,               \* releases
  MaxLaunches, MaxDownloads, MaxFaults, MaxCrashes   \* bounds on what the user, the
                                                     \* network and the machine do

Versions  == 1..MaxVersion
Contents  == Versions \cup {None, Partial, Corrupt}
Downloads == 1..MaxDownloads
Programs  == 1..(MaxLaunches + MaxDownloads)

ASSUME UpdaterAssumption ==
  /\ MaxVersion \in Nat \ {0}
  /\ MaxLaunches \in Nat /\ MaxDownloads \in Nat /\ MaxFaults \in Nat /\ MaxCrashes \in Nat
  /\ {None, Partial, Corrupt} \cap Versions = {}
  /\ None # Partial /\ Partial # Corrupt /\ Corrupt # None

VARIABLES
  latest,            \* the release GitHub names
  target, backup,    \* codex-taskbar.exe and codex-taskbar.exe.old
  staged,            \* the file of each download in updates/
  program,           \* each program process and the file it executes
  download, helper,  \* each download thread and the helper it started
  launches, faults, crashes,   \* bounded counters
  overlapped         \* history: two helpers were past their waiting at one time

files == <<target, backup, staged>>
vars  == <<latest, files, program, download, helper, launches, faults, crashes, overlapped>>

-----------------------------------------------------------------------------
(* Processes and files. *)

Unused == [stage |-> "none", version |-> None, image |-> None, cleans |-> 0]
Alive(p)   == program[p].stage \in {"cleaning", "running", "ending"}
Runs(path) == \E p \in Programs : Alive(p) /\ program[p].image = path
Written    == \E h \in Downloads : helper[h] = "copying"
InUse(path) == Runs(path) \/ (path = "target" /\ Written)

FirstUnused(p) == program[p] = Unused /\ \A q \in Programs : q < p => program[q] # Unused
Spawned(stage, cleans) ==
  [stage |-> stage, version |-> target, image |-> "target", cleans |-> cleans]

(* A rename takes the processes that execute the file along. *)
Moved(from, to) ==
  [p \in Programs |-> IF program[p].image = from THEN [program[p] EXCEPT !.image = to]
                                                 ELSE program[p]]

Works == UNCHANGED faults
Fails == faults < MaxFaults /\ faults' = faults + 1

Replacing == {"ready", "unbacked", "renamed", "copying", "restoring", "copied", "replaced"}
HelperTo(h, stage) ==
  /\ helper' = [helper EXCEPT ![h] = stage]
  /\ overlapped' = (overlapped \/ \E g, k \in Downloads :
                      g # k /\ helper'[g] \in Replacing /\ helper'[k] \in Replacing)

-----------------------------------------------------------------------------
(* The release page, the user and the end of programs. *)

Publish ==
  /\ latest < MaxVersion /\ latest' = latest + 1
  /\ UNCHANGED <<files, program, download, helper, launches, faults, crashes, overlapped>>

LaunchByUser ==
  /\ launches < MaxLaunches /\ launches' = launches + 1
  /\ target \in Versions /\ ~Written
  /\ \E p \in Programs : FirstUnused(p) /\ program' = [program EXCEPT ![p] = Spawned("running", 0)]
  /\ UNCHANGED <<latest, files, download, helper, faults, crashes, overlapped>>

(* run_loop returns: the user asked to exit, or update_shutdown is set. *)
LeaveLoop(p) ==
  /\ program[p].stage = "running" /\ program' = [program EXCEPT ![p].stage = "ending"]
  /\ UNCHANGED <<latest, files, download, helper, launches, faults, crashes, overlapped>>

ShutdownRequested(p) == \E d \in Downloads : download[d].stage = "launched" /\ download[d].by = p

(* The threads of a process end with it. *)
Cut(d) == IF download[d].stage \in {"checked", "staged"} THEN [download[d] EXCEPT !.stage = "failed"]
                                                        ELSE download[d]
EndProgram(p) ==
  /\ program[p].stage = "ending" /\ program' = [program EXCEPT ![p].stage = "ended"]
  /\ download' = [d \in Downloads |-> IF download[d].by = p THEN Cut(d) ELSE download[d]]
  /\ UNCHANGED <<latest, files, helper, launches, faults, crashes, overlapped>>

(* The machine stops; the files stay as they are. *)
Crash ==
  /\ crashes < MaxCrashes /\ crashes' = crashes + 1
  /\ program' = [p \in Programs |-> IF Alive(p) THEN [program[p] EXCEPT !.stage = "ended"]
                                               ELSE program[p]]
  /\ download' = [d \in Downloads |-> Cut(d)]
  /\ helper' = [h \in Downloads |-> IF helper[h] = "none" THEN "none" ELSE "ended"]
  /\ UNCHANGED <<latest, files, launches, faults, overlapped>>

-----------------------------------------------------------------------------
(* "Download and install": check_latest, download_and_stage and              *)
(* launch_update_helper, on a thread of its own; the button can be pressed   *)
(* again while a thread is at work.                                          *)

IsNewer(candidate, current) == candidate > current

NextDownload(d) == download[d].stage = "none" /\ \A e \in Downloads : e < d => download[e].stage # "none"

CheckLatest(d) ==
  /\ NextDownload(d)
  /\ \E p \in Programs :
       /\ program[p].stage = "running"
       /\ \/ Works /\ download' = [download EXCEPT ![d] =
               [stage |-> IF IsNewer(latest, program[p].version) THEN "checked" ELSE "current",
                by |-> p, release |-> latest]]
          \/ Fails /\ download' = [download EXCEPT ![d] = [stage |-> "failed", by |-> p, release |-> latest]]
  /\ UNCHANGED <<latest, files, program, helper, launches, crashes, overlapped>>

(* The bytes come whole or in four ranges; only those with the digest of the *)
(* release are written.                                                      *)
(* Mutant: the digest is not compared. *)
DigestIgnored(bytes, d) == bytes # Partial
DigestMatches(bytes, d) == bytes = download[d].release

DownloadAndStage(d) ==
  /\ download[d].stage = "checked"
  /\ \/ \E bytes \in {download[d].release, Corrupt} :
          /\ Works
          /\ download' = [download EXCEPT ![d].stage = IF DigestMatches(bytes, d) THEN "staged" ELSE "failed"]
          /\ staged' = [staged EXCEPT ![d] = IF DigestMatches(bytes, d) THEN bytes ELSE None]
     \/ \E left \in {None, Partial} :
          Fails /\ download' = [download EXCEPT ![d].stage = "failed"] /\ staged' = [staged EXCEPT ![d] = left]
  /\ UNCHANGED <<latest, target, backup, program, helper, launches, crashes, overlapped>>

(* The shutdown flag is set once the helper runs. *)
LaunchUpdateHelper(d) ==
  /\ download[d].stage = "staged"
  /\ \/ Works /\ download' = [download EXCEPT ![d].stage = "launched"] /\ helper' = [helper EXCEPT ![d] = "waiting"]
     \/ Fails /\ download' = [download EXCEPT ![d].stage = "failed"] /\ UNCHANGED helper
  /\ UNCHANGED <<latest, files, program, launches, crashes, overlapped>>

-----------------------------------------------------------------------------
(* apply_staged_update, step by step. *)

(* The wait ends with the program or after 30 seconds; both go on. *)
WaitForProcessExit(h) ==
  /\ helper[h] = "waiting"
  /\ IF program[download[h].by].stage = "ended" THEN Works ELSE Fails
  /\ HelperTo(h, "ready")
  /\ UNCHANGED <<latest, files, program, download, launches, crashes>>

RemoveFile(path, content) == IF InUse(path) THEN content ELSE None

RemoveOldBackup(h) ==
  /\ helper[h] = "ready" /\ backup' = RemoveFile("backup", backup) /\ HelperTo(h, "unbacked")
  /\ UNCHANGED <<latest, target, staged, program, download, launches, faults, crashes>>

MoveAside ==   backup' = target /\ target' = None /\ program' = Moved("target", "backup")
RemoveAside == backup' = backup /\ target' = None /\ UNCHANGED program

RenameBlocked == Written \/ Runs("backup")
(* Mutant: the target is removed instead of renamed. *)
RenameTargetByRemoval(h) ==
  /\ helper[h] = "unbacked"
  /\ IF target = None THEN HelperTo(h, "renamed") /\ UNCHANGED <<target, backup, program>>
     ELSE RemoveAside /\ HelperTo(h, "renamed")
  /\ UNCHANGED <<latest, staged, download, launches, faults, crashes>>
RenameTarget(h) ==
  /\ helper[h] = "unbacked"
  /\ \/ target = None /\ HelperTo(h, "renamed") /\ UNCHANGED <<target, backup, program>>
     \/ target # None /\ RenameBlocked /\ HelperTo(h, "ended") /\ UNCHANGED <<target, backup, program>>
     \/ target # None /\ ~RenameBlocked /\ MoveAside /\ HelperTo(h, "renamed")
  /\ UNCHANGED <<latest, staged, download, launches, faults, crashes>>

BeginCopy(h) ==
  /\ helper[h] = "renamed"
  /\ \/ InUse("target") /\ HelperTo(h, "restoring") /\ UNCHANGED target
     \/ ~InUse("target") /\ target' = Partial /\ HelperTo(h, "copying")
  /\ UNCHANGED <<latest, backup, staged, program, download, launches, faults, crashes>>

EndCopy(h) ==
  /\ helper[h] = "copying"
  /\ \/ Works /\ target' = staged[h] /\ HelperTo(h, "copied")
     \/ Fails /\ target' \in {None, Partial} /\ HelperTo(h, "restoring")
  /\ UNCHANGED <<latest, backup, staged, program, download, launches, crashes>>

(* The copy failed: the backup goes back, if it can. *)
RestoreTarget(h) ==
  /\ helper[h] = "restoring" /\ HelperTo(h, "ended")
  /\ IF backup # None /\ ~InUse("target")
     THEN target' = backup /\ backup' = None /\ program' = Moved("backup", "target")
     ELSE UNCHANGED <<target, backup, program>>
  /\ UNCHANGED <<latest, staged, download, launches, faults, crashes>>

RemoveBackup(h) ==
  /\ helper[h] = "copied" /\ backup' = RemoveFile("backup", backup) /\ HelperTo(h, "replaced")
  /\ UNCHANGED <<latest, target, staged, program, download, launches, faults, crashes>>

(* Mutant: the new program is not started. *)
SpawnNothing(h) ==
  /\ helper[h] = "replaced" /\ HelperTo(h, "ended")
  /\ UNCHANGED <<latest, files, program, download, launches, faults, crashes>>
SpawnTarget(h) ==
  /\ helper[h] = "replaced"
  /\ IF target \in Versions /\ ~Written
     THEN \/ /\ Works /\ HelperTo(h, "spawned")
             /\ \E p \in Programs :
                  FirstUnused(p) /\ program' = [program EXCEPT ![p] = Spawned("cleaning", h)]
          \/ Fails /\ HelperTo(h, "ended") /\ UNCHANGED program
     ELSE Works /\ HelperTo(h, "ended") /\ UNCHANGED program
  /\ UNCHANGED <<latest, files, download, launches, crashes>>

EndHelper(h) ==
  /\ helper[h] = "spawned" /\ HelperTo(h, "ended")
  /\ UNCHANGED <<latest, files, program, download, launches, faults, crashes>>

(* cleanup_staged_update tries for two seconds; the helper's own executable  *)
(* cannot be removed before the helper has ended.                            *)
CleanupStagedUpdate(p) ==
  /\ program[p].stage = "cleaning" /\ program' = [program EXCEPT ![p].stage = "running"]
  /\ staged' = [staged EXCEPT ![program[p].cleans] = IF helper[program[p].cleans] = "ended" THEN None ELSE @]
  /\ UNCHANGED <<latest, target, backup, download, helper, launches, faults, crashes, overlapped>>

-----------------------------------------------------------------------------
Init ==
  /\ latest = 1 /\ target = 1 /\ backup = None /\ staged = [d \in Downloads |-> None]
  /\ program = [p \in Programs |-> Unused]
  /\ download = [d \in Downloads |-> [stage |-> "none", by |-> 0, release |-> None]]
  /\ helper = [d \in Downloads |-> "none"]
  /\ launches = 0 /\ faults = 0 /\ crashes = 0 /\ overlapped = FALSE

Program(p) == LeaveLoop(p) \/ EndProgram(p) \/ CleanupStagedUpdate(p)
Thread(d)  == CheckLatest(d) \/ DownloadAndStage(d) \/ LaunchUpdateHelper(d)
ApplyStagedUpdate(h) ==
  \/ WaitForProcessExit(h) \/ RemoveOldBackup(h) \/ RenameTarget(h) \/ BeginCopy(h) \/ EndCopy(h)
  \/ RestoreTarget(h) \/ RemoveBackup(h) \/ SpawnTarget(h) \/ EndHelper(h)

Next ==
  \/ Publish \/ LaunchByUser \/ Crash
  \/ \E p \in Programs : Program(p)
  \/ \E d \in Downloads : Thread(d) \/ ApplyStagedUpdate(d)

Spec == Init /\ [][Next]_vars

(* The operating system runs every process that can go on; a program leaves  *)
(* its loop once the flag is set, and ends.                                  *)
FairSpec ==
  /\ Spec
  /\ \A p \in Programs : /\ WF_vars(ShutdownRequested(p) /\ LeaveLoop(p))
                         /\ WF_vars(EndProgram(p)) /\ WF_vars(CleanupStagedUpdate(p))
  /\ \A h \in Downloads : WF_vars(ApplyStagedUpdate(h))

-----------------------------------------------------------------------------
(* Properties. *)

TypeOK ==
  /\ latest \in Versions /\ {target, backup} \subseteq Contents /\ staged \in [Downloads -> Contents]
  /\ \A p \in Programs :
       /\ program[p].stage \in {"none", "cleaning", "running", "ending", "ended"}
       /\ program[p].version \in Versions \cup {None} /\ program[p].cleans \in Downloads \cup {0}
       /\ program[p].image \in {None, "target", "backup"}
  /\ \A d \in Downloads :
       /\ download[d].stage \in {"none", "checked", "current", "staged", "launched", "failed"}
       /\ download[d].by \in Programs \cup {0} /\ download[d].release \in Versions \cup {None}
       /\ helper[d] \in Replacing \cup {"none", "waiting", "spawned", "ended"}
       /\ (helper[d] # "none") = (download[d].stage = "launched")
  /\ launches \in 0..MaxLaunches /\ faults \in 0..MaxFaults /\ crashes \in 0..MaxCrashes
  /\ overlapped \in BOOLEAN

(* No file that a process runs from, or will run from, ever holds bytes      *)
(* without the release's digest, through downloads that go wrong             *)
(* (updater.rs:3-5, :144).                                                   *)
OnlyVerifiedRuns ==
  /\ target # Corrupt /\ backup # Corrupt
  /\ \A h \in Downloads : helper[h] # "none" => staged[h] \in {download[h].release, None}

(* Through every failing step and every crash of a lone helper the target or *)
(* its backup is complete (updater.rs:167-175).                              *)
AloneCopyKept == overlapped \/ target \in Versions \/ backup \in Versions

(* A lone helper that ended, well or not, leaves a program that can be       *)
(* started (updater.rs:171-174).                                             *)
AloneTargetKept ==
  \/ overlapped \/ crashes > 0 \/ target \in Versions
  \/ \E h \in Downloads : helper[h] \in Replacing

(* The updated program never runs an older version than the one before it    *)
(* (updater.rs:119, :395-403).                                               *)
NeverOlder ==
  \A p \in Programs : program[p].cleans # 0 /\ ~overlapped =>
    LET h == program[p].cleans IN
      /\ program[p].version = download[h].release
      /\ program[p].version > program[download[h].by].version

(* An update that got as far as its helper ends with a running program,      *)
(* unless a step failed, the machine stopped, helpers got in each other's    *)
(* way or a program still runs from the backup (updater.rs:176).             *)
UpdateRestarts ==
  \A h \in Downloads :
    helper[h] = "waiting" ~>
      \/ \E p \in Programs : program[p].cleans = h /\ program[p].version = download[h].release
      \/ faults > 0 \/ crashes > 0 \/ overlapped \/ Runs("backup")

(* What runs is a verified release, newer than the one it replaced           *)
(* (updater.rs:119-144, 395-403).                                            *)
VerifiedAndNewer == TypeOK /\ OnlyVerifiedRuns /\ NeverOlder

(* A lone helper never leaves the user without a program: at every moment a  *)
(* complete copy exists, and once it has ended it is the target              *)
(* (updater.rs:160-176).                                                     *)
AloneProgramKept == AloneCopyKept /\ AloneTargetKept
=============================================================================
