------------------------------- MODULE Settings -------------------------------
(***************************************************************************)
(* The settings row, the reload marker, the settings window and the reload *)
(* of the runtime thread (settings/src/lib.rs, codex-taskbar-settings/src/ *)
(* main.rs, official_runtime.rs).  The window is a thread of the same      *)
(* process; a stop or a crash ends the runtime and the window at any point.*)
(*                                                                         *)
(* A configuration keeps the fields whose fate differs: the version, a     *)
(* width and a flag that old versions got wrong, a number with a list of   *)
(* allowed values, and the CLI path, which the page cannot edit.           *)
(***************************************************************************)
EXTENDS Integers

CONSTANTS
  None,          \* no row, no settings.json, no choice
  Corrupt,       \* a settings.json that does not parse
  LegacyFiles,   \* what settings.json may hold: None, Corrupt or a configuration
  Choices,       \* what the page may submit: width, secondary, retention
  MaxWindows, MaxFaults, MaxStarts   \* bounds: threads of settings windows, failing
                                     \* calls and starts of the process

CONFIG_VERSION == 9
DEFAULT_WIDTH_PX == 440
MIN_TASKBAR_WIDTH_PX == 200
MAX_TASKBAR_WIDTH_PX == 620

Config == [version : 1..CONFIG_VERSION, width : Nat, secondary : BOOLEAN,
           retention : Nat, cli : {"unset", "blank", "path"}]

ASSUME SettingsAssumption ==
  /\ LegacyFiles \subseteq Config \cup {None, Corrupt}
  /\ None \notin Config /\ Corrupt \notin Config /\ None # Corrupt
  /\ Choices \subseteq [width : Nat, secondary : BOOLEAN, retention : Nat]
  /\ MaxWindows \in Nat /\ MaxFaults \in Nat /\ MaxStarts \in Nat

Windows == 1..MaxWindows

VARIABLES
  row, legacy, marker,       \* settings_snapshot; settings.json; settings.reload
  running, starts, faults,   \* the process; bounded counters
  active, loop,              \* run_loop: settings, and "consumed" in mid reload
  open, hwnd, window,        \* the two statics; the stage of each window thread
  page, save,                \* Mutex<AppConfig>; apply_layout_settings in progress
  stale,                     \* history: the load after a consumed marker failed
  chosen, acked,             \* history: last choice stored; what was reported as saved
                             \* since then
  spawnFailed, mismatch      \* history: a thread did not start; a read back differed

disk    == <<row, legacy, marker>>
process == <<running, starts>>
runtime == <<active, loop, stale>>
thread  == <<open, hwnd, window, spawnFailed>>
edit    == <<page, save, chosen, acked, mismatch>>
vars == <<disk, process, faults, runtime, thread, edit>>

-----------------------------------------------------------------------------
(* normalize: what old versions stored wrongly is reset, then limits apply. *)

Clamp(n, low, high) == IF n < low THEN low ELSE IF n > high THEN high ELSE n

OldDefaultWidth(c) ==
  \/ c.version < 4 /\ c.width = 320
  \/ c.version < CONFIG_VERSION /\ c.width \in {620, 520}

NormalRetention(days) == IF days \in {30, 90, 365} THEN days ELSE 90

Normal(c, version) ==
  [version   |-> version,
   width     |-> IF OldDefaultWidth(c) THEN DEFAULT_WIDTH_PX
                 ELSE Clamp(c.width, MIN_TASKBAR_WIDTH_PX, MAX_TASKBAR_WIDTH_PX),
   secondary |-> c.version < 9 \/ c.secondary,
   retention |-> NormalRetention(c.retention),
   cli       |-> IF c.cli = "blank" THEN "unset" ELSE c.cli]

(* Mutant: the version of an old file is kept. *)
NormalizeUnversioned(c) == Normal(c, c.version)
Normalize(c)            == Normal(c, CONFIG_VERSION)

Default == [version |-> CONFIG_VERSION, width |-> DEFAULT_WIDTH_PX,
            secondary |-> TRUE, retention |-> 90, cli |-> "unset"]

(* load and load_or_create: what the read returns and the row it leaves.  A  *)
(* database that cannot be opened, read or written fails the call.           *)
Loaded(r, c)  == [row |-> r, config |-> c, error |-> "none"]
LoadFails(e)  == [row |-> row, config |-> None, error |-> e]
Ok(result)    == result.error = "none"

Load ==
  IF row # None          THEN Loaded(row, Normalize(row))
  ELSE IF legacy = None    THEN LoadFails("missing")
  ELSE IF legacy = Corrupt THEN LoadFails("invalid")
  ELSE Loaded(Normalize(legacy), Normalize(legacy))

LoadOrCreate == IF Load.error = "missing" THEN Loaded(Default, Default) ELSE Load

(* save_atomic: one transaction; to_json normalises what it writes.          *)
SaveAtomic(c) == row' = Normalize(c)

RequestReload == marker' = TRUE

Works == UNCHANGED faults
Fails == faults < MaxFaults /\ faults' = faults + 1

Outcomes(result) == {result, LoadFails("database")}
Count(result)    == IF result.error = "database" THEN Fails ELSE Works

-----------------------------------------------------------------------------
(* The process starts (main) and ends; memory is lost, the disk stays. *)

NoWindow == [w \in Windows |-> "none"]
Idle     == [stage |-> "idle", next |-> None]

Start ==
  /\ ~running /\ starts < MaxStarts /\ starts' = starts + 1
  /\ \E result \in Outcomes(LoadOrCreate) :
       /\ Count(result)
       /\ row' = result.row /\ running' = Ok(result) /\ active' = result.config
  /\ loop' = "poll" /\ stale' = FALSE
  /\ UNCHANGED <<legacy, marker, thread, edit>>

Stop ==
  /\ running /\ running' = FALSE
  /\ active' = None /\ loop' = "poll" /\ stale' = FALSE
  /\ open' = FALSE /\ hwnd' = 0 /\ window' = NoWindow /\ spawnFailed' = FALSE
  /\ page' = None /\ save' = Idle
  /\ UNCHANGED <<disk, starts, faults, chosen, acked, mismatch>>

(* The runtime thread: consume_reload_request, then load.  A marker that     *)
(* cannot be removed stays for the next turn of the loop.                    *)
ConsumeReloadRequest ==
  /\ running /\ loop = "poll" /\ marker
  /\ \/ Works /\ marker' = FALSE /\ loop' = "consumed"
     \/ Fails /\ UNCHANGED <<marker, loop>>
  /\ UNCHANGED <<row, legacy, process, active, stale, thread, edit>>

(* Mutant: what was loaded is dropped. *)
ReloadSettingsForgetful ==
  /\ running /\ loop = "consumed" /\ loop' = "poll"
  /\ \E result \in Outcomes(Load) :
       Count(result) /\ row' = result.row
  /\ UNCHANGED <<legacy, marker, process, active, stale, thread, edit>>
ReloadSettings ==
  /\ running /\ loop = "consumed" /\ loop' = "poll"
  /\ \E result \in Outcomes(Load) :
       /\ Count(result)
       /\ row' = result.row
       /\ active' = IF Ok(result) THEN result.config ELSE active
       /\ stale' = ~Ok(result)
  /\ UNCHANGED <<legacy, marker, process, thread, edit>>

(* "Reload settings" in the menu: request_reload, whose failure is ignored. *)
ReloadSettingsRequested ==
  /\ running /\ loop = "poll"
  /\ Works /\ RequestReload
  /\ UNCHANGED <<row, legacy, process, runtime, thread, edit>>

-----------------------------------------------------------------------------
(* The settings window.  A click while it is open only activates the window  *)
(* whose handle is stored; a click that finds it closed starts a thread.     *)

FirstUnused(w) == window[w] = "none" /\ \A v \in Windows : v < w => window[v] # "none"

LaunchSettings ==
  /\ running /\ loop = "poll" /\ ~open /\ open' = TRUE
  /\ \E w \in Windows :
       /\ FirstUnused(w)
       /\ \/ Works /\ window' = [window EXCEPT ![w] = "loading"] /\ UNCHANGED spawnFailed
          \/ Fails /\ spawnFailed' = TRUE /\ UNCHANGED window
  /\ UNCHANGED <<disk, process, runtime, hwnd, edit>>

(* run_window_inner until its message loop; any failure ends the thread. *)
LoadPage(w) ==
  /\ running /\ window[w] = "loading"
  /\ \E result \in Outcomes(LoadOrCreate) :
       /\ Count(result)
       /\ row' = result.row /\ page' = result.config
       /\ window' = [window EXCEPT ![w] = IF Ok(result) THEN "loaded" ELSE "ended"]
  /\ UNCHANGED <<legacy, marker, process, runtime, open, hwnd, spawnFailed, save, chosen, acked,
                 mismatch>>

(* CreateWindowExW with WS_VISIBLE: the window is on the screen, its handle   *)
(* is not stored yet.                                                        *)
CreateWindow(w) ==
  /\ running /\ window[w] = "loaded"
  /\ \/ Works /\ window' = [window EXCEPT ![w] = "visible"]
     \/ Fails /\ window' = [window EXCEPT ![w] = "ended"]
  /\ UNCHANGED <<disk, process, runtime, open, hwnd, spawnFailed, edit>>

(* create_webview pumps messages while it waits, so the user may close the   *)
(* window under it; the handle is stored when the page has been made.        *)
CreateWebview(w) ==
  /\ running /\ window[w] = "visible"
  /\ \/ Works /\ window' = [window EXCEPT ![w] = "shown"] /\ hwnd' = w
     \/ (Works \/ Fails) /\ window' = [window EXCEPT ![w] = "ended"] /\ UNCHANGED hwnd
  /\ UNCHANGED <<disk, process, runtime, open, spawnFailed, edit>>

(* The page asks to close; the message loop ends. *)
CloseSettings(w) ==
  /\ running /\ window[w] = "shown" /\ save = Idle
  /\ window' = [window EXCEPT ![w] = "ended"]
  /\ UNCHANGED <<disk, process, faults, runtime, open, hwnd, spawnFailed, edit>>

(* What the thread stores before it ends, in this order. *)
(* Mutant: the flag is cleared before the handle. *)
SwappedStores == <<"open", "hwnd">>
FinalStores   == <<"hwnd", "open">>

FinalStore(static) ==
  /\ hwnd' = IF static = "hwnd" THEN 0 ELSE hwnd
  /\ open' = (static # "open" /\ open)

ForgetWindow(w) ==
  /\ running /\ window[w] = "ended" /\ FinalStore(FinalStores[1])
  /\ window' = [window EXCEPT ![w] = "released"]
  /\ UNCHANGED <<disk, process, faults, runtime, spawnFailed, edit>>

ReleaseWindow(w) ==
  /\ running /\ window[w] = "released" /\ FinalStore(FinalStores[2])
  /\ window' = [window EXCEPT ![w] = "done"]
  /\ UNCHANGED <<disk, process, faults, runtime, spawnFailed, edit>>

-----------------------------------------------------------------------------
(* apply_layout_settings: store the row, read it back, leave the marker.     *)
(* Every failure answers with an error and leaves what was done.             *)

ValidChoice(c) == c.width \in MIN_TASKBAR_WIDTH_PX..MAX_TASKBAR_WIDTH_PX

Edited(c) == Normalize([page EXCEPT !.width = c.width, !.secondary = c.secondary,
                                    !.retention = c.retention])

SaveChoice(w) ==
  /\ running /\ window[w] = "shown" /\ save.stage = "idle"
  /\ \E c \in Choices :
       /\ ValidChoice(c)
       /\ \/ /\ Works /\ SaveAtomic(Edited(c)) /\ chosen' = c /\ acked' = None
             /\ save' = [stage |-> "stored", next |-> Edited(c)]
          \/ Fails /\ UNCHANGED <<row, chosen, acked, save>>
  /\ UNCHANGED <<legacy, marker, process, runtime, thread, page, mismatch>>

ReadBack(w) ==
  /\ running /\ window[w] = "shown" /\ save.stage = "stored"
  /\ \E result \in Outcomes(Load) :
       /\ Count(result)
       /\ row' = result.row
       /\ mismatch' = (mismatch \/ (Ok(result) /\ result.config # save.next))
       /\ save' = IF Ok(result) /\ result.config = save.next
                  THEN [save EXCEPT !.stage = "checked"] ELSE Idle
  /\ UNCHANGED <<legacy, marker, process, runtime, thread, page, chosen, acked>>

NotifyRuntime(w) ==
  /\ running /\ window[w] = "shown" /\ save.stage = "checked" /\ save' = Idle
  /\ \/ Works /\ RequestReload /\ page' = save.next /\ acked' = save.next
     \/ Fails /\ UNCHANGED <<marker, page, acked>>
  /\ UNCHANGED <<row, legacy, process, runtime, thread, chosen, mismatch>>

-----------------------------------------------------------------------------
Init ==
  /\ row = None /\ legacy \in LegacyFiles /\ marker = FALSE
  /\ running = FALSE /\ starts = 0 /\ faults = 0
  /\ active = None /\ loop = "poll" /\ stale = FALSE
  /\ open = FALSE /\ hwnd = 0 /\ window = NoWindow /\ spawnFailed = FALSE
  /\ page = None /\ save = Idle /\ chosen = None /\ acked = None /\ mismatch = FALSE

Runtime == ConsumeReloadRequest \/ ReloadSettings \/ ReloadSettingsRequested \/ LaunchSettings

Window(w) ==
  \/ LoadPage(w) \/ CreateWindow(w) \/ CreateWebview(w) \/ CloseSettings(w)
  \/ ForgetWindow(w) \/ ReleaseWindow(w)
  \/ SaveChoice(w) \/ ReadBack(w) \/ NotifyRuntime(w)

Next == Start \/ Stop \/ Runtime \/ \E w \in Windows : Window(w)

Spec == Init /\ [][Next]_vars

(* The loop turns four times a second; the thread that saves runs on. *)
FairSpec == Spec /\ WF_vars(ConsumeReloadRequest) /\ WF_vars(ReloadSettings)

-----------------------------------------------------------------------------
(* Properties. *)

NormalConfig ==
  [version : 1..CONFIG_VERSION, width : MIN_TASKBAR_WIDTH_PX..MAX_TASKBAR_WIDTH_PX,
   secondary : BOOLEAN, retention : {30, 90, 365}, cli : {"unset", "path"}]

Stages == {"none", "loading", "loaded", "visible", "shown", "ended", "released", "done"}

TypeOK ==
  /\ row \in NormalConfig \cup {None} /\ legacy \in LegacyFiles /\ marker \in BOOLEAN
  /\ running \in BOOLEAN /\ starts \in 0..MaxStarts /\ faults \in 0..MaxFaults
  /\ active \in NormalConfig \cup {None} /\ loop \in {"poll", "consumed"} /\ stale \in BOOLEAN
  /\ open \in BOOLEAN /\ hwnd \in Windows \cup {0}
  /\ window \in [Windows -> Stages]
  /\ page \in NormalConfig \cup {None} /\ chosen \in Choices \cup {None}
  /\ save \in [stage : {"idle", "stored", "checked"}, next : NormalConfig \cup {None}]
  /\ acked \in NormalConfig \cup {None} /\ spawnFailed \in BOOLEAN /\ mismatch \in BOOLEAN

Carries(c, choice) ==
  /\ c.width = choice.width /\ c.secondary = choice.secondary
  /\ c.retention = NormalRetention(choice.retention)

(* What the user chose stays chosen through migrations, restarts and reloads, *)
(* a width that an old version used as its default included                  *)
(* (settings/src/lib.rs:281-296).                                            *)
ChoiceKept ==
  chosen # None =>
    /\ row # None /\ Carries(row, chosen)
    /\ acked # None => Carries(acked, chosen)

(* Saving from the page never replaces the CLI path it does not show         *)
(* (main.rs:493, docs/test-plan.md:248).                                     *)
CliPathKept ==
  row # None =>
    row.cli = IF legacy \in Config THEN Normalize(legacy).cli ELSE Default.cli

(* The runtime works with the stored settings once no reload is pending, no  *)
(* save is half done and no load has failed (official_runtime.rs:578).       *)
Quiet == running /\ ~marker /\ loop = "poll" /\ save = Idle
AppliedWhenQuiet == Quiet /\ ~stale /\ acked # None => active = row

(* Reading the row back after a save never finds something else than what    *)
(* was saved, so the page reports no mismatch (main.rs:540-542).             *)
ReadBackAgrees == ~mismatch

(* A second click reaches the window whose page runs: its handle is stored,  *)
(* whatever the thread before it still does, and a stored handle is never    *)
(* one of a thread that has let go (main.rs:31-34).  Before its page has     *)
(* been made a window is on the screen without a handle, and a click then    *)
(* does nothing (main.rs:168, 326-328).                                      *)
ActivateReachesWindow ==
  /\ \A w \in Windows : window[w] = "shown" => hwnd = w
  /\ hwnd # 0 => window[hwnd] \in {"shown", "ended"}

(* There is one settings window: of all the threads at most one is between   *)
(* its start and its last store (main.rs:30, "the only settings window").    *)
AtWork(w) == window[w] \notin {"none", "done"}
OneWindow == \A v, w \in Windows : AtWork(v) /\ AtWork(w) => v = w

(* While the settings count as open some thread will release them, unless    *)
(* the thread could not be started (main.rs:30-50).                          *)
OpenMeansThread == open => spawnFailed \/ \E w \in Windows : AtWork(w)

(* A reload that was asked for takes place: the runtime gets the stored      *)
(* settings, unless its load fails or the program ends (lib.rs:382).         *)
RequestIsServed == marker ~> (active = row \/ stale \/ ~running)

(* What the user saved is what is stored, what is read back and what the     *)
(* runtime works with, and the rest of the settings is left alone            *)
(* (settings/src/lib.rs:281-296, main.rs:485-545, official_runtime.rs:578).  *)
SavesAreSound == TypeOK /\ ChoiceKept /\ CliPathKept /\ ReadBackAgrees /\ AppliedWhenQuiet

(* While the settings count as open there is one window, which a click finds *)
(* once its page runs, or a thread on its way to it or from it that will let *)
(* go (main.rs:29-50, 168).                                                  *)
WindowReachable == ActivateReachesWindow /\ OneWindow /\ OpenMeansThread
=============================================================================
