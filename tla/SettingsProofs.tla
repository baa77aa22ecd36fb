----------------------------- MODULE SettingsProofs -----------------------------
(***************************************************************************)
(* What module Settings keeps for every settings.json, every choice the    *)
(* page may submit, and any number of windows, failing calls and starts.   *)
(*                                                                         *)
(* Two invariants: DataInv says how the copies of the settings relate (the *)
(* row, the page's, the one being saved, the acknowledged one, the         *)
(* runtime's), ThreadInv that at most one window thread is at work and     *)
(* that the two statics follow it.                                         *)
(***************************************************************************)
EXTENDS Settings, TLAPS

(* A configuration of the present version: what normalize leaves alone.     *)
Currents == {c \in NormalConfig : c.version = CONFIG_VERSION}

OriginalCli == IF legacy \in Config THEN Normalize(legacy).cli ELSE Default.cli
Original(c) == c \in Currents /\ c.cli = OriginalCli

DiskTypes    == legacy \in LegacyFiles /\ marker \in BOOLEAN
CounterTypes == running \in BOOLEAN /\ starts \in 0..MaxStarts /\ faults \in 0..MaxFaults
LoopTypes    == loop \in {"poll", "consumed"} /\ stale \in BOOLEAN
ThreadTypes  ==
  /\ open \in BOOLEAN /\ hwnd \in Windows \cup {0} /\ spawnFailed \in BOOLEAN
  /\ window \in [Windows -> Stages]
Types == DiskTypes /\ CounterTypes /\ LoopTypes /\ ThreadTypes

(* The copies of the settings.  Every one that exists is of this version    *)
(* and has the CLI path of the first import; a half done save has stored    *)
(* its row, and the acknowledged settings are the stored ones.              *)
CopiesInv ==
  /\ row = None \/ Original(row)
  /\ page = None \/ Original(page)
  /\ active \in Currents \cup {None}
  /\ chosen \in Choices \cup {None}
SaveInv   == save = Idle \/ (save \in [stage : {"stored", "checked"}, next : {row}] /\ row # None)
AckedInv  == acked = None \/ (acked = row /\ row # None)
ChosenInv == chosen # None => row # None /\ Carries(row, chosen)
AppliedInv ==
  running /\ ~marker /\ loop = "poll" /\ ~stale /\ acked # None => active = row
DataInv == CopiesInv /\ SaveInv /\ AckedInv /\ ChosenInv /\ AppliedInv /\ mismatch = FALSE

ThreadInv ==
  /\ OneWindow
  /\ \A w \in Windows : AtWork(w) => open
  /\ OpenMeansThread
  /\ ActivateReachesWindow
  /\ \A w \in Windows : window[w] \in {"loaded", "visible", "shown"} => page # None

IInv == Types /\ DataInv /\ ThreadInv

-----------------------------------------------------------------------------
(* normalize brings any configuration to this version and leaves such a one  *)
(* as it is; what is loaded is the row, if there is one.                     *)

LEMMA Distinct == None \notin Config /\ None \notin Currents /\ Corrupt \notin Config /\ None # Corrupt
BY SettingsAssumption DEF Currents, NormalConfig, Config, CONFIG_VERSION, MIN_TASKBAR_WIDTH_PX,
                          MAX_TASKBAR_WIDTH_PX

LEMMA NormalizeIsCurrent ==
  ASSUME NEW c \in Config
  PROVE  Normalize(c) \in Currents
<1>1. Clamp(c.width, MIN_TASKBAR_WIDTH_PX, MAX_TASKBAR_WIDTH_PX) \in MIN_TASKBAR_WIDTH_PX..MAX_TASKBAR_WIDTH_PX
  BY DEF Config, Clamp, MIN_TASKBAR_WIDTH_PX, MAX_TASKBAR_WIDTH_PX
<1>2. DEFAULT_WIDTH_PX \in MIN_TASKBAR_WIDTH_PX..MAX_TASKBAR_WIDTH_PX
  BY DEF DEFAULT_WIDTH_PX, MIN_TASKBAR_WIDTH_PX, MAX_TASKBAR_WIDTH_PX
<1>3. Normalize(c).width \in MIN_TASKBAR_WIDTH_PX..MAX_TASKBAR_WIDTH_PX
  BY <1>1, <1>2 DEF Normalize, Normal
<1>4. Normalize(c).version = CONFIG_VERSION /\ CONFIG_VERSION \in 1..CONFIG_VERSION
  BY DEF Normalize, Normal, CONFIG_VERSION
<1>5. Normalize(c).secondary \in BOOLEAN
  BY DEF Normalize, Normal, Config
<1>6. Normalize(c).retention \in {30, 90, 365}
  BY DEF Normalize, Normal, NormalRetention
<1>7. Normalize(c).cli \in {"unset", "path"}
  BY DEF Normalize, Normal, Config
<1>8. Normalize(c) = [version |-> Normalize(c).version, width |-> Normalize(c).width,
                      secondary |-> Normalize(c).secondary, retention |-> Normalize(c).retention,
                      cli |-> Normalize(c).cli]
  BY DEF Normalize, Normal
<1> QED BY <1>3, <1>4, <1>5, <1>6, <1>7, <1>8 DEF Currents, NormalConfig

LEMMA CurrentFields ==
  ASSUME NEW c \in Currents
  PROVE  /\ c.version = CONFIG_VERSION /\ c.secondary \in BOOLEAN
         /\ c.width \in MIN_TASKBAR_WIDTH_PX..MAX_TASKBAR_WIDTH_PX
         /\ c.retention \in {30, 90, 365} /\ c.cli \in {"unset", "path"}
         /\ c = [version |-> c.version, width |-> c.width, secondary |-> c.secondary,
                 retention |-> c.retention, cli |-> c.cli]
BY DEF Currents, NormalConfig

LEMMA NormalizeCurrent ==
  ASSUME NEW c \in Currents
  PROVE  Normalize(c) = c
<1>1. ~OldDefaultWidth(c)
  BY CurrentFields DEF OldDefaultWidth, CONFIG_VERSION
<1>2. Clamp(c.width, MIN_TASKBAR_WIDTH_PX, MAX_TASKBAR_WIDTH_PX) = c.width
  BY CurrentFields DEF Clamp, MIN_TASKBAR_WIDTH_PX, MAX_TASKBAR_WIDTH_PX
<1>3. (c.version < 9 \/ c.secondary) = c.secondary
  BY CurrentFields DEF CONFIG_VERSION
<1>4. NormalRetention(c.retention) = c.retention
  BY CurrentFields DEF NormalRetention
<1>5. (IF c.cli = "blank" THEN "unset" ELSE c.cli) = c.cli
  BY CurrentFields
<1>6. Normalize(c) = [version |-> CONFIG_VERSION, width |-> c.width, secondary |-> c.secondary,
                      retention |-> c.retention, cli |-> c.cli]
  BY <1>1, <1>2, <1>3, <1>4, <1>5 DEF Normalize, Normal
<1> QED BY <1>6, CurrentFields

LEMMA DefaultIsCurrent == Default \in Currents
BY DEF Default, Currents, NormalConfig, CONFIG_VERSION, MIN_TASKBAR_WIDTH_PX, MAX_TASKBAR_WIDTH_PX,
       DEFAULT_WIDTH_PX

LEMMA LoadedIsRow ==
  ASSUME DiskTypes, CopiesInv, NEW result \in Outcomes(LoadOrCreate) \cup Outcomes(Load)
  PROVE  /\ row # None => result.row = row
         /\ Ok(result) => Original(result.row) /\ result.config = result.row
         /\ ~Ok(result) => result.row = row /\ result.config = None
<1> USE DEF Loaded, LoadFails, Ok
<1>1. CASE result = LoadFails("database")
  BY <1>1
<1>2. CASE result \in {Load, LoadOrCreate} /\ row # None
  <2>1. row \in Currents /\ Normalize(row) = row /\ Original(row)
    BY <1>2, NormalizeCurrent DEF CopiesInv, Original
  <2>2. Load = Loaded(row, row) /\ LoadOrCreate = Load
    BY <1>2, <2>1 DEF Load, LoadOrCreate
  <2> QED BY <1>2, <2>1, <2>2
<1>3. CASE result \in {Load, LoadOrCreate} /\ row = None /\ legacy = None
  <2>1. Load = LoadFails("missing") /\ LoadOrCreate = Loaded(Default, Default)
    BY <1>3, Distinct DEF Load, LoadOrCreate
  <2>2. Original(Default)
    BY <1>3, Distinct, DefaultIsCurrent DEF Original, OriginalCli
  <2> QED BY <1>3, <2>1, <2>2
<1>4. CASE result \in {Load, LoadOrCreate} /\ row = None /\ legacy = Corrupt
  <2>1. Load = LoadFails("invalid") /\ LoadOrCreate = Load
    BY <1>4, Distinct DEF Load, LoadOrCreate
  <2> QED BY <1>4, <2>1
<1>5. CASE result \in {Load, LoadOrCreate} /\ row = None /\ legacy \in Config
  <2>1. Load = Loaded(Normalize(legacy), Normalize(legacy)) /\ LoadOrCreate = Load
    BY <1>5, Distinct DEF Load, LoadOrCreate
  <2>2. Original(Normalize(legacy))
    BY <1>5, NormalizeIsCurrent DEF Original, OriginalCli
  <2> QED BY <1>5, <2>1, <2>2
<1> QED BY <1>1, <1>2, <1>3, <1>4, <1>5, SettingsAssumption DEF DiskTypes, Outcomes

(* What is saved carries the choice and keeps the rest.                      *)
LEMMA EditedKeepsRest ==
  ASSUME Original(page), NEW c \in Choices, ValidChoice(c)
  PROVE  Original(Edited(c)) /\ Carries(Edited(c), c)
<1> DEFINE e == [page EXCEPT !.width = c.width, !.secondary = c.secondary, !.retention = c.retention]
<1>1. /\ c.width \in Nat /\ c.secondary \in BOOLEAN /\ c.retention \in Nat
      /\ c.width \in MIN_TASKBAR_WIDTH_PX..MAX_TASKBAR_WIDTH_PX
  BY SettingsAssumption DEF ValidChoice
<1>2. page \in Currents
  BY DEF Original
<1>3. /\ e.version = CONFIG_VERSION /\ e.width = c.width /\ e.secondary = c.secondary
      /\ e.retention = c.retention /\ e.cli = page.cli
  <2>1. page \in NormalConfig /\ page.version = CONFIG_VERSION
    BY <1>2 DEF Currents
  <2> QED BY <2>1 DEF NormalConfig
<1>4. e \in Config
  <2>1. page \in Config
    BY <1>2 DEF Currents, NormalConfig, Config, MIN_TASKBAR_WIDTH_PX, MAX_TASKBAR_WIDTH_PX
  <2> QED BY <1>1, <2>1 DEF Config
<1>10. Edited(c) = Normalize(e)
  BY DEF Edited
<1> HIDE DEF e
<1>5. Edited(c) = Normalize(e) /\ Edited(c) \in Currents
  BY <1>4, <1>10, NormalizeIsCurrent
<1>6. Normalize(e).cli = page.cli
  BY <1>2, <1>3, CurrentFields DEF Normalize, Normal
<1>7. Normalize(e).width = c.width
  BY <1>1, <1>3 DEF Normalize, Normal, OldDefaultWidth, Clamp, CONFIG_VERSION, MIN_TASKBAR_WIDTH_PX,
                    MAX_TASKBAR_WIDTH_PX
<1>8. Normalize(e).secondary = c.secondary
  BY <1>1, <1>3 DEF Normalize, Normal, CONFIG_VERSION
<1>9. Normalize(e).retention = NormalRetention(c.retention)
  BY <1>3 DEF Normalize, Normal
<1> QED BY <1>5, <1>6, <1>7, <1>8, <1>9 DEF Original, Carries

-----------------------------------------------------------------------------
(* Types and the file of an old version. *)

LEMMA LegacyKept == Next => legacy' = legacy
BY DEF Next, Start, Stop, Runtime, Window, ConsumeReloadRequest, ReloadSettings, ReloadSettingsRequested,
       LaunchSettings, LoadPage, CreateWindow, CreateWebview, CloseSettings, ForgetWindow, ReleaseWindow, SaveChoice,
       ReadBack, NotifyRuntime, disk, edit

LEMMA OriginalKept ==
  ASSUME legacy' = legacy, NEW c
  PROVE  Original(c)' <=> Original(c)
BY DEF Original, OriginalCli

LEMMA TypesStep ==
  ASSUME Types, Next
  PROVE  Types'
<1> USE SettingsAssumption DEF disk, process, runtime, thread, edit
<1>1. DiskTypes'
  BY LegacyKept
     DEF Types, DiskTypes, Next, Start, Stop, Runtime, Window, ConsumeReloadRequest, ReloadSettings,
         ReloadSettingsRequested, LaunchSettings, LoadPage, CreateWindow, CreateWebview, CloseSettings, ForgetWindow,
         ReleaseWindow, SaveChoice, ReadBack, NotifyRuntime, RequestReload
<1>2. faults' \in 0..MaxFaults
  <2>1. faults' = faults \/ Fails
    BY DEF Next, Start, Stop, Runtime, Window, ConsumeReloadRequest, ReloadSettings,
           ReloadSettingsRequested, LaunchSettings, LoadPage, CreateWindow, CreateWebview, CloseSettings, ForgetWindow,
           ReleaseWindow, SaveChoice, ReadBack, NotifyRuntime, Works, Count
  <2> QED BY <2>1 DEF Types, CounterTypes, Fails
<1>3. starts' \in 0..MaxStarts /\ running' \in BOOLEAN
  <2>1. CASE Start
    BY <2>1 DEF Start, Types, CounterTypes, Ok
  <2>2. CASE Stop
    BY <2>2 DEF Stop, Types, CounterTypes
  <2>3. CASE UNCHANGED process
    BY <2>3 DEF Types, CounterTypes
  <2> QED BY <2>1, <2>2, <2>3
          DEF Next, Runtime, Window, ConsumeReloadRequest, ReloadSettings, ReloadSettingsRequested,
              LaunchSettings, LoadPage, CreateWindow, CreateWebview, CloseSettings, ForgetWindow, ReleaseWindow,
              SaveChoice, ReadBack, NotifyRuntime
<1>4. LoopTypes'
  BY DEF Types, LoopTypes, Next, Start, Stop, Runtime, Window, ConsumeReloadRequest, ReloadSettings,
         ReloadSettingsRequested, LaunchSettings, LoadPage, CreateWindow, CreateWebview, CloseSettings, ForgetWindow,
         ReleaseWindow, SaveChoice, ReadBack, NotifyRuntime, Ok
<1>5. ThreadTypes'
  <2>1. CASE Stop
    BY <2>1 DEF Stop, ThreadTypes, Stages, NoWindow
  <2>2. CASE LaunchSettings
    BY <2>2 DEF LaunchSettings, Types, ThreadTypes, Stages
  <2>3. ASSUME NEW w \in Windows, Window(w) PROVE ThreadTypes'
    BY <2>3 DEF Window, LoadPage, CreateWindow, CreateWebview, CloseSettings, ForgetWindow, ReleaseWindow, SaveChoice,
               ReadBack, NotifyRuntime, Types, ThreadTypes, Stages, FinalStore, FinalStores, Ok
  <2>4. CASE UNCHANGED thread
    BY <2>4 DEF Types, ThreadTypes
  <2> QED BY <2>1, <2>2, <2>3, <2>4
          DEF Next, Start, Runtime, ConsumeReloadRequest, ReloadSettings, ReloadSettingsRequested
<1> QED BY <1>1, <1>2, <1>3, <1>4, <1>5 DEF Types, CounterTypes

-----------------------------------------------------------------------------
(* The copies of the settings. *)

(* A load leaves the row or makes it; the rest of the copies is left alone.  *)
LEMMA LoadKeepsCopies ==
  ASSUME Types, DataInv, legacy' = legacy,
         NEW result \in Outcomes(LoadOrCreate) \cup Outcomes(Load), row' = result.row,
         UNCHANGED <<chosen, acked>>
  PROVE  /\ row # None => row' = row
         /\ row' = None \/ Original(row')
         /\ Ok(result) => row' # None /\ Original(row') /\ result.config = row'
         /\ ~Ok(result) => result.config = None
         /\ AckedInv' /\ ChosenInv'
<1>1. /\ row # None => row' = row
      /\ Ok(result) => Original(row') /\ result.config = row'
      /\ ~Ok(result) => row' = row /\ result.config = None
  BY LoadedIsRow DEF Types, DataInv
<1>2. Original(row') => row' # None
  BY Distinct DEF Original
<1>3. row = None \/ Original(row)
  BY DEF DataInv, CopiesInv
<1>4. AckedInv'
  BY <1>1 DEF DataInv, AckedInv
<1>5. ChosenInv'
  BY <1>1 DEF DataInv, ChosenInv
<1> QED BY <1>1, <1>2, <1>3, <1>4, <1>5

LEMMA CopiesAgain ==
  ASSUME legacy' = legacy, row' = None \/ Original(row'), page' = None \/ Original(page'),
         active' \in Currents \cup {None}, chosen' \in Choices \cup {None}
  PROVE  CopiesInv'
BY DEF CopiesInv, Original, OriginalCli

(* Stored, read back and acknowledged settings are one.                      *)
LEMMA SaveStays ==
  ASSUME SaveInv, save' = save, row # None => row' = row
  PROVE  SaveInv'
BY DEF SaveInv

LEMMA AppliedStays ==
  ASSUME AppliedInv, AckedInv, row # None => row' = row,
         UNCHANGED <<running, loop, stale, acked, active>>, marker => marker'
  PROVE  AppliedInv'
BY DEF AppliedInv, AckedInv

LEMMA StartKeepsData == ASSUME Types, DataInv, Start PROVE DataInv'
<1>1. legacy' = legacy /\ UNCHANGED <<chosen, acked, page, save, mismatch>>
  BY DEF Start, edit
<1>2. PICK result \in Outcomes(LoadOrCreate) :
        row' = result.row /\ running' = Ok(result) /\ active' = result.config
  BY DEF Start
<1>3. /\ row # None => row' = row
      /\ row' = None \/ Original(row')
      /\ Ok(result) => row' # None /\ Original(row') /\ result.config = row'
      /\ ~Ok(result) => result.config = None
      /\ AckedInv' /\ ChosenInv'
  BY <1>1, <1>2, LoadKeepsCopies
<1>4. active' \in Currents \cup {None}
  BY <1>2, <1>3 DEF Original
<1>5. CopiesInv'
  BY <1>1, <1>3, <1>4, CopiesAgain DEF DataInv, CopiesInv
<1>6. SaveInv'
  BY <1>1, <1>3, SaveStays DEF DataInv
<1>7. AppliedInv'
  BY <1>2, <1>3 DEF AppliedInv
<1> QED BY <1>1, <1>3, <1>5, <1>6, <1>7 DEF DataInv

LEMMA StopKeepsData == ASSUME Types, DataInv, Stop PROVE DataInv'
<1>1. /\ legacy' = legacy /\ row' = row /\ UNCHANGED <<chosen, acked, mismatch>>
      /\ page' = None /\ active' = None /\ save' = Idle /\ running' = FALSE
  BY DEF Stop, disk
<1>2. CopiesInv'
  BY <1>1, CopiesAgain DEF DataInv, CopiesInv
<1> QED BY <1>1, <1>2 DEF DataInv, SaveInv, AckedInv, ChosenInv, AppliedInv

LEMMA RuntimeKeepsData == ASSUME Types, DataInv, Runtime PROVE DataInv'
<1> USE DEF disk, process, runtime, thread, edit
<1>1. CASE ReloadSettings
  <2>1. /\ legacy' = legacy /\ UNCHANGED <<chosen, acked, page, save, mismatch>>
        /\ UNCHANGED <<running, marker>> /\ loop' = "poll"
    BY <1>1 DEF ReloadSettings
  <2>2. PICK result \in Outcomes(Load) :
          /\ row' = result.row /\ stale' = ~Ok(result)
          /\ active' = IF Ok(result) THEN result.config ELSE active
    BY <1>1 DEF ReloadSettings
  <2>3. /\ row # None => row' = row
        /\ row' = None \/ Original(row')
        /\ Ok(result) => row' # None /\ Original(row') /\ result.config = row'
        /\ AckedInv' /\ ChosenInv'
    BY <2>1, <2>2, LoadKeepsCopies
  <2>4. active' \in Currents \cup {None}
    BY <2>2, <2>3 DEF Original, DataInv, CopiesInv
  <2>5. CopiesInv'
    BY <2>1, <2>3, <2>4, CopiesAgain DEF DataInv, CopiesInv
  <2>6. SaveInv'
    BY <2>1, <2>3, SaveStays DEF DataInv
  <2>7. AppliedInv'
    BY <2>2, <2>3 DEF AppliedInv
  <2> QED BY <2>1, <2>3, <2>5, <2>6, <2>7 DEF DataInv
<1>2. CASE ConsumeReloadRequest \/ ReloadSettingsRequested \/ LaunchSettings
  <2>1. UNCHANGED <<legacy, row, page, active, chosen, save, acked, mismatch, running, stale>>
    BY <1>2 DEF ConsumeReloadRequest, ReloadSettingsRequested, LaunchSettings
  <2>2. CopiesInv'
    BY <2>1, CopiesAgain DEF DataInv, CopiesInv
  <2>3. AppliedInv'
    BY <1>2, <2>1 DEF ConsumeReloadRequest, ReloadSettingsRequested, LaunchSettings, RequestReload,
                      DataInv, AppliedInv
  <2> QED BY <2>1, <2>2, <2>3 DEF DataInv, SaveInv, AckedInv, ChosenInv
<1> QED BY <1>1, <1>2 DEF Runtime

LEMMA WindowKeepsData ==
  ASSUME Types, DataInv, ThreadInv, NEW w \in Windows, Window(w)
  PROVE  DataInv'
<1> USE DEF disk, process, runtime, thread, edit
<1>1. /\ legacy' = legacy /\ UNCHANGED <<running, loop, stale, active>> /\ (marker => marker')
  BY DEF Window, LoadPage, CreateWindow, CreateWebview, CloseSettings, ForgetWindow, ReleaseWindow, SaveChoice,
         ReadBack, NotifyRuntime, RequestReload
<1>2. CASE LoadPage(w)
  <2>1. UNCHANGED <<chosen, acked, save, mismatch>> /\ marker' = marker
    BY <1>2 DEF LoadPage
  <2>2. PICK result \in Outcomes(LoadOrCreate) : row' = result.row /\ page' = result.config
    BY <1>2 DEF LoadPage
  <2>3. /\ row # None => row' = row
        /\ row' = None \/ Original(row')
        /\ page' = None \/ Original(page')
        /\ AckedInv' /\ ChosenInv'
    BY <1>1, <2>1, <2>2, LoadKeepsCopies
  <2>4. CopiesInv'
    BY <1>1, <2>1, <2>3, CopiesAgain DEF DataInv, CopiesInv
  <2>5. SaveInv' /\ AppliedInv'
    BY <1>1, <2>1, <2>3, SaveStays, AppliedStays DEF DataInv
  <2> QED BY <2>1, <2>3, <2>4, <2>5 DEF DataInv
<1>3. CASE CreateWindow(w) \/ CreateWebview(w) \/ CloseSettings(w) \/ ForgetWindow(w) \/ ReleaseWindow(w)
  <2>1. UNCHANGED <<row, page, chosen, acked, save, mismatch, marker>>
    BY <1>3 DEF CreateWindow, CreateWebview, CloseSettings, ForgetWindow, ReleaseWindow
  <2>2. CopiesInv'
    BY <1>1, <2>1, CopiesAgain DEF DataInv, CopiesInv
  <2>3. AppliedInv'
    BY <1>1, <2>1, AppliedStays DEF DataInv
  <2> QED BY <2>1, <2>2, <2>3 DEF DataInv, SaveInv, AckedInv, ChosenInv
<1>4. CASE SaveChoice(w)
  <2>1. UNCHANGED <<page, mismatch, marker>> /\ page # None /\ Original(page)
    BY <1>4 DEF SaveChoice, ThreadInv, DataInv, CopiesInv
  <2>2. PICK c \in Choices :
          /\ ValidChoice(c)
          /\ \/ /\ SaveAtomic(Edited(c)) /\ chosen' = c /\ acked' = None
                /\ save' = [stage |-> "stored", next |-> Edited(c)]
             \/ UNCHANGED <<row, chosen, acked, save>>
    BY <1>4 DEF SaveChoice
  <2>3. CASE UNCHANGED <<row, chosen, acked, save>>
    <3>1. CopiesInv'
      BY <1>1, <2>1, <2>3, CopiesAgain DEF DataInv, CopiesInv
    <3>2. AppliedInv'
      BY <1>1, <2>1, <2>3, AppliedStays DEF DataInv
    <3> QED BY <2>1, <2>3, <3>1, <3>2 DEF DataInv, SaveInv, AckedInv, ChosenInv
  <2>4. CASE /\ SaveAtomic(Edited(c)) /\ chosen' = c /\ acked' = None
             /\ save' = [stage |-> "stored", next |-> Edited(c)]
    <3>1. Original(Edited(c)) /\ Carries(Edited(c), c)
      BY <2>1, <2>2, EditedKeepsRest
    <3>2. row' = Edited(c) /\ row' # None
      BY <2>4, <3>1, Distinct, NormalizeCurrent DEF SaveAtomic, Original
    <3>3. CopiesInv'
      BY <1>1, <2>1, <2>4, <3>1, <3>2, CopiesAgain DEF DataInv, CopiesInv
    <3>4. SaveInv' /\ AckedInv' /\ AppliedInv'
      BY <2>4, <3>2 DEF SaveInv, AckedInv, AppliedInv
    <3>5. ChosenInv'
      BY <2>4, <3>1, <3>2 DEF ChosenInv
    <3> QED BY <2>1, <3>3, <3>4, <3>5 DEF DataInv
  <2> QED BY <2>2, <2>3, <2>4
<1>5. CASE ReadBack(w)
  <2>1. UNCHANGED <<page, chosen, acked, marker>> /\ save.stage = "stored"
    BY <1>5 DEF ReadBack
  <2>2. PICK result \in Outcomes(Load) :
          /\ row' = result.row
          /\ mismatch' = (mismatch \/ (Ok(result) /\ result.config # save.next))
          /\ save' = IF Ok(result) /\ result.config = save.next
                     THEN [save EXCEPT !.stage = "checked"] ELSE Idle
    BY <1>5 DEF ReadBack
  <2>3. /\ row # None => row' = row
        /\ row' = None \/ Original(row')
        /\ Ok(result) => row' # None /\ Original(row') /\ result.config = row'
        /\ AckedInv' /\ ChosenInv'
    BY <1>1, <2>1, <2>2, LoadKeepsCopies
  <2>4. save \in [stage : {"stored", "checked"}, next : {row}] /\ row # None
    BY <2>1 DEF DataInv, SaveInv, Idle
  <2>5. save' = Idle \/ save' \in [stage : {"stored", "checked"}, next : {row'}]
    BY <2>2, <2>3, <2>4
  <2>6. SaveInv' /\ mismatch' = FALSE
    BY <2>2, <2>3, <2>4, <2>5 DEF SaveInv, DataInv
  <2>7. CopiesInv'
    BY <1>1, <2>1, <2>3, CopiesAgain DEF DataInv, CopiesInv
  <2>8. AppliedInv'
    BY <1>1, <2>1, <2>3, AppliedStays DEF DataInv
  <2> QED BY <2>3, <2>6, <2>7, <2>8 DEF DataInv
<1>6. CASE NotifyRuntime(w)
  <2>1. UNCHANGED <<row, chosen, mismatch>> /\ save.stage = "checked" /\ save' = Idle
    BY <1>6 DEF NotifyRuntime
  <2>2. save.next = row /\ row # None
    BY <2>1 DEF DataInv, SaveInv, Idle
  <2>3. \/ marker' = TRUE /\ page' = row /\ acked' = row
        \/ UNCHANGED <<marker, page, acked>>
    BY <1>6, <2>2 DEF NotifyRuntime, RequestReload
  <2>4. CopiesInv'
    BY <1>1, <2>1, <2>3, CopiesAgain DEF DataInv, CopiesInv
  <2>5. AppliedInv'
    BY <1>1, <2>1, <2>3 DEF DataInv, AppliedInv
  <2> QED BY <2>1, <2>2, <2>3, <2>4, <2>5 DEF DataInv, SaveInv, AckedInv, ChosenInv
<1> QED BY <1>2, <1>3, <1>4, <1>5, <1>6 DEF Window

-----------------------------------------------------------------------------
(* The window threads. *)

LEMMA ThreadStays ==
  ASSUME ThreadInv, UNCHANGED <<thread, page>>
  PROVE  ThreadInv'
BY DEF ThreadInv, OneWindow, OpenMeansThread, ActivateReachesWindow, AtWork, thread

(* A click that finds the settings closed starts the only thread.            *)
LEMMA LaunchKeepsThreads ==
  ASSUME Types, ThreadInv, LaunchSettings
  PROVE  ThreadInv'
<1>1. /\ window \in [Windows -> Stages]
      /\ UNCHANGED <<hwnd, page>> /\ open' = TRUE
  BY DEF LaunchSettings, Types, ThreadTypes, edit
<1>2. (\A v \in Windows : ~AtWork(v)) /\ hwnd = 0
  BY DEF LaunchSettings, ThreadInv, ActivateReachesWindow, AtWork, Types, ThreadTypes
<1>3. CASE spawnFailed' = TRUE /\ window' = window
  BY <1>1, <1>2, <1>3 DEF ThreadInv, OneWindow, OpenMeansThread, ActivateReachesWindow, AtWork
<1>4. ASSUME NEW w \in Windows, window' = [window EXCEPT ![w] = "loading"]
      PROVE  ThreadInv'
  <2>1. /\ window'[w] = "loading"
        /\ \A v \in Windows : v # w => window'[v] = window[v]
    BY <1>1, <1>4
  <2> QED BY <1>1, <1>2, <2>1 DEF ThreadInv, OneWindow, OpenMeansThread, ActivateReachesWindow, AtWork
<1> QED BY <1>3, <1>4 DEF LaunchSettings

(* A step of the thread w changes the stage of w alone.                      *)
LEMMA WindowKeepsThreads ==
  ASSUME Types, DataInv, ThreadInv, NEW w \in Windows, Window(w)
  PROVE  ThreadInv'
<1> USE DEF disk, process, runtime, thread, edit
<1>1. /\ window \in [Windows -> Stages]
      /\ AtWork(w) /\ open /\ spawnFailed' = spawnFailed
      /\ \A v \in Windows : AtWork(v) => v = w
  BY DEF Window, LoadPage, CreateWindow, CreateWebview, CloseSettings, ForgetWindow, ReleaseWindow, SaveChoice,
         ReadBack, NotifyRuntime, Types, ThreadTypes, ThreadInv, OneWindow, OpenMeansThread, ActivateReachesWindow, AtWork
<1>8. ASSUME window[w] \notin {"shown", "ended"} PROVE hwnd = 0
  BY <1>1, <1>8 DEF ThreadInv, ActivateReachesWindow, AtWork, Types, ThreadTypes
<1>2. CASE LoadPage(w)
  <2>1. UNCHANGED <<open, hwnd, chosen, acked>> /\ legacy' = legacy
    BY <1>2 DEF LoadPage
  <2>2. PICK result \in Outcomes(LoadOrCreate) :
          /\ row' = result.row /\ page' = result.config
          /\ window' = [window EXCEPT ![w] = IF Ok(result) THEN "loaded" ELSE "ended"]
    BY <1>2 DEF LoadPage
  <2>3. Ok(result) => page' # None
    BY <2>1, <2>2, LoadKeepsCopies
  <2>4. /\ window'[w] = IF Ok(result) THEN "loaded" ELSE "ended"
        /\ \A v \in Windows : v # w => window'[v] = window[v]
    BY <1>1, <2>2
  <2>5. hwnd = 0
    BY <1>2, <1>8 DEF LoadPage
  <2> QED BY <1>1, <2>1, <2>3, <2>4, <2>5 DEF ThreadInv, OneWindow, OpenMeansThread, ActivateReachesWindow, AtWork
<1>3. CASE CreateWindow(w) \/ CreateWebview(w)
  <2>1. /\ UNCHANGED <<open, page>> /\ page # None /\ hwnd = 0
        /\ \/ window' = [window EXCEPT ![w] = "visible"] /\ hwnd' = 0
           \/ window' = [window EXCEPT ![w] = "shown"] /\ hwnd' = w
           \/ window' = [window EXCEPT ![w] = "ended"] /\ hwnd' = 0
    BY <1>3, <1>8 DEF CreateWindow, CreateWebview, ThreadInv
  <2>2. /\ \/ window'[w] = "visible" /\ hwnd' = 0
           \/ window'[w] = "shown" /\ hwnd' = w
           \/ window'[w] = "ended" /\ hwnd' = 0
        /\ \A v \in Windows : v # w => window'[v] = window[v]
    BY <1>1, <2>1
  <2> QED BY <1>1, <2>1, <2>2 DEF ThreadInv, OneWindow, OpenMeansThread, ActivateReachesWindow, AtWork
<1>4. CASE CloseSettings(w)
  <2>1. UNCHANGED <<open, hwnd, page>> /\ window' = [window EXCEPT ![w] = "ended"] /\ window[w] = "shown"
    BY <1>4 DEF CloseSettings
  <2>2. window'[w] = "ended" /\ \A v \in Windows : v # w => window'[v] = window[v]
    BY <1>1, <2>1
  <2> QED BY <1>1, <2>1, <2>2 DEF ThreadInv, OneWindow, OpenMeansThread, ActivateReachesWindow, AtWork
<1>5. CASE ForgetWindow(w)
  <2>1. open' = open /\ page' = page /\ hwnd' = 0 /\ window' = [window EXCEPT ![w] = "released"]
    BY <1>5 DEF ForgetWindow, FinalStore, FinalStores, Types, ThreadTypes
  <2>2. window'[w] = "released" /\ \A v \in Windows : v # w => window'[v] = window[v]
    BY <1>1, <2>1
  <2> QED BY <1>1, <2>1, <2>2 DEF ThreadInv, OneWindow, OpenMeansThread, ActivateReachesWindow, AtWork
<1>6. CASE ReleaseWindow(w)
  <2>1. /\ open' = FALSE /\ page' = page /\ hwnd' = 0 /\ window' = [window EXCEPT ![w] = "done"]
    BY <1>6, <1>8 DEF ReleaseWindow, FinalStore, FinalStores
  <2>2. window'[w] = "done" /\ \A v \in Windows : v # w => window'[v] = window[v]
    BY <1>1, <2>1
  <2> QED BY <1>1, <2>1, <2>2 DEF ThreadInv, OneWindow, OpenMeansThread, ActivateReachesWindow, AtWork
<1>7. CASE SaveChoice(w) \/ ReadBack(w) \/ NotifyRuntime(w)
  <2>1. UNCHANGED thread
    BY <1>7 DEF SaveChoice, ReadBack, NotifyRuntime
  <2>2. page' = page \/ (page' = save.next /\ save.stage = "checked")
    BY <1>7 DEF SaveChoice, ReadBack, NotifyRuntime
  <2>3. save.stage = "checked" => save.next # None
    BY DEF DataInv, SaveInv, Idle
  <2>4. page # None => page' # None
    BY <2>2, <2>3
  <2> QED BY <2>1, <2>4 DEF ThreadInv, OneWindow, OpenMeansThread, ActivateReachesWindow, AtWork
<1> QED BY <1>2, <1>3, <1>4, <1>5, <1>6, <1>7 DEF Window

LEMMA NextKeeps == IInv /\ [Next]_vars => IInv'
<1> SUFFICES ASSUME IInv, [Next]_vars PROVE IInv'
  OBVIOUS
<1> USE DEF disk, process, runtime, thread, edit
<1>1. Types'
  <2>1. CASE UNCHANGED vars
    BY <2>1 DEF IInv, vars, Types, DiskTypes, CounterTypes, LoopTypes, ThreadTypes
  <2> QED BY <2>1, TypesStep DEF IInv
<1>2. DataInv'
  <2>1. CASE UNCHANGED vars
    BY <2>1 DEF IInv, vars, DataInv, CopiesInv, Original, OriginalCli, SaveInv, AckedInv, ChosenInv,
                AppliedInv
  <2> QED BY <2>1, StartKeepsData, StopKeepsData, RuntimeKeepsData, WindowKeepsData DEF IInv, Next
<1>3. ThreadInv'
  <2>1. CASE UNCHANGED vars
    BY <2>1, ThreadStays DEF IInv, vars
  <2>2. CASE Stop
    BY <2>2 DEF Stop, ThreadInv, OneWindow, OpenMeansThread, ActivateReachesWindow, AtWork, NoWindow
  <2>3. CASE Start \/ ConsumeReloadRequest \/ ReloadSettings \/ ReloadSettingsRequested
    BY <2>3, ThreadStays DEF IInv, Start, ConsumeReloadRequest, ReloadSettings, ReloadSettingsRequested
  <2> QED BY <2>1, <2>2, <2>3, LaunchKeepsThreads, WindowKeepsThreads DEF IInv, Next, Runtime
<1> QED BY <1>1, <1>2, <1>3 DEF IInv

LEMMA Inductive == Spec => []IInv
<1>1. Init => IInv
  <2> SUFFICES ASSUME Init PROVE IInv
    OBVIOUS
  <2>1. Types
    <3>1. starts \in 0..MaxStarts /\ faults \in 0..MaxFaults
      BY SettingsAssumption DEF Init
    <3>2. DiskTypes /\ LoopTypes
      BY DEF Init, DiskTypes, LoopTypes
    <3>3. ThreadTypes
      BY DEF Init, ThreadTypes, Stages, NoWindow
    <3>4. running \in BOOLEAN
      BY DEF Init
    <3> QED BY <3>1, <3>2, <3>3, <3>4 DEF Types, CounterTypes
  <2>2. DataInv
    BY DEF Init, DataInv, CopiesInv, SaveInv, AckedInv, ChosenInv, AppliedInv
  <2>3. ThreadInv
    BY DEF Init, ThreadInv, OneWindow, OpenMeansThread, ActivateReachesWindow, AtWork, NoWindow
  <2> QED BY <2>1, <2>2, <2>3 DEF IInv
<1> QED BY <1>1, NextKeeps, PTL DEF Spec

(* What the user saved is what is stored, read back and worked with, through *)
(* migrations of every old file, restarts, reloads and failing calls.        *)
THEOREM SavesStaySound == Spec => []SavesAreSound
<1>1. IInv => SavesAreSound
  <2> SUFFICES ASSUME IInv PROVE SavesAreSound
    OBVIOUS
  <2>1. \A c : Original(c) => c \in NormalConfig
    BY DEF Original, Currents
  <2>2. save \in [stage : {"idle", "stored", "checked"}, next : NormalConfig \cup {None}]
    BY <2>1 DEF IInv, DataInv, SaveInv, CopiesInv, Idle
  <2>3. TypeOK
    BY <2>1, <2>2 DEF IInv, Types, DiskTypes, CounterTypes, LoopTypes, ThreadTypes, DataInv, CopiesInv,
                      AckedInv, TypeOK, Currents
  <2>4. ChoiceKept
    BY DEF IInv, DataInv, ChosenInv, AckedInv, ChoiceKept
  <2>5. CliPathKept
    BY DEF IInv, DataInv, CopiesInv, CliPathKept, Original, OriginalCli
  <2>6. ReadBackAgrees
    BY DEF IInv, DataInv, ReadBackAgrees
  <2>7. AppliedWhenQuiet
    BY DEF IInv, DataInv, AppliedInv, AppliedWhenQuiet, Quiet
  <2> QED BY <2>3, <2>4, <2>5, <2>6, <2>7 DEF SavesAreSound
<1> QED BY <1>1, Inductive, PTL

(* There is one settings window at a time; once its page has been made a     *)
(* click finds its handle, no stored handle is of a thread that has let go,  *)
(* and while the settings count as open a thread is there that will clear    *)
(* the flag, for any number of windows (main.rs:29-50, 168, 326-328).        *)
THEOREM WindowStaysReachable == Spec => []WindowReachable
<1>1. IInv => WindowReachable
  BY DEF IInv, ThreadInv, WindowReachable
<1> QED BY <1>1, Inductive, PTL
=============================================================================
