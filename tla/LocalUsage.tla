------------------------------ MODULE LocalUsage ------------------------------
(***************************************************************************)
(* Today's local token usage: Codex writes session files and a SQLite      *)
(* database, the runtime thread reads both (official_runtime.rs, run_loop) *)
(* through the session token tailer (session_token_fallback.rs) and the    *)
(* fallback (apply_fallback), feeds the ledger and stores it, across       *)
(* midnight, clears, stops and crashes.                                    *)
(*                                                                         *)
(* A line of a session file carries one token, with or without the model   *)
(* it is for, or is a turn_context that names one.  The fingerprint of an  *)
(* event is its line with the model the read found for it: no two lines    *)
(* have the same time and counts, and hashes do not collide.  The order of *)
(* the lines is the order of the files' modification times; a file lies in *)
(* the folder of the day of its first line, and sorts by the time of it.   *)
(* SQLite's counter of a thread is the sum of its lines.                   *)
(***************************************************************************)
EXTENDS LocalUsageLedger, Sequences, FiniteSetsExt

CONSTANTS
  Sessions,       \* Codex sessions, each a thread and a file
  NoFile,         \* None in the place of a file
  Models,         \* model names
  NoModel,        \* None in the place of a model
  EventModels,    \* the models token lines carry, NoModel for none
  MaxDay,         \* bound: the last day
  MaxLines,       \* bound: lines Codex writes
  MaxStarts,      \* bound: times the program is started
  LegacyBuckets,  \* what an old JSON ledger may hold for its day; {}: there is none
  TailLines,      \* TAIL_READ_BYTES: the lines of a file that a tail read sees
  Retention       \* AppConfig.history_retention_days

ASSUME UsageAssumption ==
  /\ NoFile \notin Sessions /\ NoModel \notin Models
  /\ EventModels \subseteq Models \cup {NoModel}
  /\ MaxDay \in Nat \ {0} /\ MaxLines \in Nat /\ MaxStarts \in Nat
  /\ TailLines \in Nat \ {0} /\ Retention \in Nat \ {0}

Buckets == [total : Nat, detailed : Nat]

ASSUME LegacyAssumption == LegacyBuckets \subseteq Buckets

LegacyDay == 0                  \* a day of the old JSON ledger
Days == 1..MaxDay

VARIABLES
  today, log,                   \* the local date; every line of every session file
  running, starts,              \* the program
  ledger, authoritative,        \* run_loop: ledger, session_today_authoritative
  tailDay, tailFile,            \* SessionTokenTailer: day (0: none), file,
  currentModel, seen,           \* the last read's model, fingerprints
  stored, legacy,               \* the ledger's database; local-usage-ledger.json
  fromDisk,                     \* history: days whose details were loaded, not read since
  forgotten,                    \* history: fingerprints of the tailer a clear has wiped
  misread,                      \* history: those whose model is not the event's
  clearedAt, storedClearedAt    \* history: length of log at the last clear, in each ledger

world   == <<today, log>>
process == <<running, starts>>
tailer  == <<tailDay, tailFile, currentModel, seen, forgotten, misread>>
disk    == <<stored, legacy, storedClearedAt>>
vars == <<world, process, ledger, authoritative, tailer, disk, fromDisk, clearedAt>>

-----------------------------------------------------------------------------
(* The session files. *)

Lines(s)   == {i \in DOMAIN log : log[i].session = s}
Files      == {s \in Sessions : Lines(s) # {}}
Folder(s)  == log[Min(Lines(s))].day
Today      == {s \in Files : Folder(s) = today}
Tokens(S)  == {i \in S : log[i].tokens}
TokensOf(d) == {i \in DOMAIN log : log[i].tokens /\ log[i].day = d}
Contexts(S) == {i \in S : ~log[i].tokens}

Newest(files) ==
  IF files = {} THEN NoFile
  ELSE log[Max({i \in DOMAIN log : log[i].session \in files})].session

(* The newest file of today's folder, or else of all. *)
Discovered == IF Today # {} THEN Newest(Today) ELSE Newest(Files)

TailOf(s) == {i \in Lines(s) : Cardinality({j \in Lines(s) : j >= i}) <= TailLines}

(* latest_model after a read of lines that began with model.                *)
ModelAfter(lines, model) ==
  IF Contexts(lines) = {} THEN model ELSE log[Max(Contexts(lines))].model

(* token_event_model: an event's own model, or the latest at its line.      *)
Resolved(i, lines, model) ==
  IF log[i].model # NoModel THEN log[i].model ELSE ModelAfter({j \in lines : j < i}, model)

ModelOf(i) == Resolved(i, Lines(log[i].session), NoModel)

(* read_token_events, event_fingerprint: the day's events among the lines.  *)
Fingerprints(lines, model) ==
  {<<i, Resolved(i, lines, model)>> : i \in {j \in Tokens(lines) : log[j].day = today}}

(* The scan of several files: today's as they sort, then the newest one if  *)
(* it is older.  The model goes from one file to the next.                  *)
ScanOrder(s) ==
  LET first == Min(Lines(s)) IN IF log[first].day = today THEN first ELSE Len(log) + 1

ModelAfterFiles(files) ==
  LET naming == {s \in files : Contexts(Lines(s)) # {}}
      last   == CHOOSE s \in naming : \A r \in naming : ScanOrder(r) <= ScanOrder(s)
  IN  IF naming = {} THEN NoModel ELSE ModelAfter(Lines(last), NoModel)

Scanned(files) ==
  UNION {Fingerprints(Lines(s), ModelAfterFiles({r \in files : ScanOrder(r) < ScanOrder(s)})) :
           s \in files}

Misread(events) == {e \in events : e[2] # ModelOf(e[1])}

-----------------------------------------------------------------------------
(* Codex and the clock (environment). *)

CodexWrites ==
  /\ Len(log) < MaxLines
  /\ \E s \in Sessions, line \in ({TRUE} \X EventModels) \cup ({FALSE} \X Models) :
       log' = Append(log,
                [session |-> s, day |-> today, tokens |-> line[1], model |-> line[2]])
  /\ UNCHANGED <<today, process, ledger, authoritative, tailer, disk, fromDisk, clearedAt>>

Midnight ==
  /\ today < MaxDay /\ today' = today + 1
  /\ UNCHANGED <<log, process, ledger, authoritative, tailer, disk, fromDisk, clearedAt>>

-----------------------------------------------------------------------------
(* The program starts: load_local_usage_ledger and set_retention_days.  An  *)
(* unreadable database makes an empty ledger; a ledger without days imports *)
(* the old JSON file and saves it at once.                                  *)

NewTailer ==
  /\ tailDay' = 0 /\ tailFile' = NoFile /\ currentModel' = NoModel
  /\ seen' = {} /\ forgotten' = {} /\ misread' = {}

Start ==
  /\ ~running /\ starts < MaxStarts
  /\ running' = TRUE /\ starts' = starts + 1
  /\ authoritative' = FALSE /\ NewTailer
  /\ \E readable, saved \in BOOLEAN :
       LET loaded   == IF readable THEN LoadLedger(stored) ELSE EmptyLedger
           imports  == DOMAIN loaded.days = {} /\ legacy # NoDays
           opened   == IF imports THEN [LoadLedger(legacy) EXCEPT !.dirty = FALSE] ELSE loaded
       IN  /\ ledger' = SetRetentionDays(opened, Retention)
           /\ stored' = IF imports /\ saved THEN opened.days ELSE stored
           /\ clearedAt' = (IF readable THEN storedClearedAt ELSE Len(log))
           /\ fromDisk' = DOMAIN opened.days
  /\ UNCHANGED <<world, legacy, storedClearedAt>>

(* Saving the ledger: flush_local_usage_ledger.  A failure keeps it dirty. *)
Saved   == stored' = ledger'.days /\ storedClearedAt' = clearedAt'
Unsaved == UNCHANGED <<stored, storedClearedAt>>

Flush ==
  /\ running /\ ledger.dirty
  /\ ledger' = [ledger EXCEPT !.dirty = FALSE] /\ UNCHANGED clearedAt
  /\ Saved
  /\ UNCHANGED <<world, process, authoritative, tailer, legacy, fromDisk>>

(* The loop returns and flushes, or fails to, or the process dies. *)
Stop ==
  /\ running /\ running' = FALSE
  /\ \/ ledger.dirty /\ stored' = ledger.days /\ storedClearedAt' = clearedAt
     \/ Unsaved
  /\ ledger' = EmptyLedger /\ NewTailer /\ authoritative' = FALSE
  /\ fromDisk' = {} /\ clearedAt' = Len(log)
  /\ UNCHANGED <<world, starts, legacy>>

(* SettingsAction::ClearHistory: clear and flush. *)
ClearHistory ==
  /\ running
  /\ clearedAt' = Len(log) /\ fromDisk' = {} /\ forgotten' = seen
  /\ \/ ledger' = [ClearLedger(ledger) EXCEPT !.dirty = FALSE] /\ Saved
     \/ ledger' = ClearLedger(ledger) /\ Unsaved
  /\ UNCHANGED <<tailDay, tailFile, currentModel, seen, misread>>
  /\ UNCHANGED <<world, process, authoritative, legacy>>

-----------------------------------------------------------------------------
(* The two polls of the runtime thread. *)

ThreadCounters == [s \in Files |-> Cardinality(Tokens(Lines(s)))]

(* apply_local_today_usage, until session files have taken over.  A poll     *)
(* that cannot read the database changes nothing.                            *)
FallbackPoll ==
  /\ running /\ ~authoritative
  /\ ledger' = Observe(ledger, today, ThreadCounters, Retention)
  /\ UNCHANGED <<world, process, authoritative, tailer, disk, fromDisk, clearedAt>>

(* The first poll of a day: the files of its folder and the newest file are *)
(* scanned; some may be unreadable.  Events found replace the day's bucket, *)
(* none leave it alone.                                                     *)
TokenPollNewDay ==
  /\ running /\ tailDay # today
  /\ \E readable \in SUBSET (Today \cup ({Newest(Files)} \ {NoFile})) :
       LET events == Scanned(readable) IN
       /\ seen' = events /\ misread' = misread \cup Misread(events)
       /\ currentModel' = ModelAfterFiles(readable)
       /\ IF events = {} THEN UNCHANGED <<ledger, authoritative, fromDisk>>
          ELSE /\ ledger' = ReplaceSessionDay(ledger, today, Cardinality(events), Retention)
               /\ authoritative' = TRUE
               /\ fromDisk' = fromDisk \ {today}
  /\ tailDay' = today /\ tailFile' = Newest(Files) /\ forgotten' = {}
  /\ UNCHANGED <<world, process, disk, clearedAt>>

Keep == UNCHANGED <<world, process, authoritative, tailDay, forgotten, disk, fromDisk, clearedAt>>

(* Mutant: the fingerprints are dropped with the old file. *)
TokenPollForgetful ==
  /\ running /\ tailDay = today
  /\ \E file \in {tailFile, Discovered} \ {NoFile} :
       LET same   == file = tailFile
           lines  == IF same THEN TailOf(file) ELSE Lines(file)
           model  == IF same THEN currentModel ELSE NoModel
           events == Fingerprints(lines, model) \ (IF same THEN seen ELSE {}) IN
       /\ tailFile' = file /\ currentModel' = ModelAfter(lines, model)
       /\ seen' = seen \cup events /\ misread' = misread \cup Misread(events)
       /\ ledger' = ObserveSessionEvents(ledger, today, Cardinality(events), Retention)
  /\ Keep

(* Mutant: the day is not compared with the clock. *)
TokenPollStaleDay ==
  /\ running /\ tailDay # 0
  /\ \E file \in {tailFile, Discovered} \ {NoFile} :
       LET lines  == Tokens(Lines(file)) \cap TokensOf(tailDay)
           events == {<<i, ModelOf(i)>> : i \in lines} \ seen IN
       /\ tailFile' = file /\ seen' = seen \cup events
       /\ ledger' = ObserveSessionEvents(ledger, tailDay, Cardinality(events), Retention)
  /\ UNCHANGED <<currentModel, misread>> /\ Keep

(* Every later poll: the file at hand is read at its end, beginning with the *)
(* model the last read ended with; every 3 s a newer file is looked for and  *)
(* read in full.  An unreadable file changes no more than which file is at   *)
(* hand.                                                                     *)
TokenPoll ==
  /\ running /\ tailDay = today
  /\ \E file \in {tailFile, Discovered} \ {NoFile}, readable \in BOOLEAN :
       LET same   == file = tailFile
           lines  == IF ~readable THEN {} ELSE IF same THEN TailOf(file) ELSE Lines(file)
           model  == IF same THEN currentModel ELSE NoModel
           events == Fingerprints(lines, model) \ seen IN
       /\ tailFile' = file /\ currentModel' = ModelAfter(lines, model)
       /\ seen' = seen \cup events /\ misread' = misread \cup Misread(events)
       /\ ledger' = ObserveSessionEvents(ledger, today, Cardinality(events), Retention)
  /\ Keep

-----------------------------------------------------------------------------

LegacyLedgers == {NoDays} \cup [{LegacyDay} -> LegacyBuckets]

Init ==
  /\ today = 1 /\ log = <<>>
  /\ running = FALSE /\ starts = 0
  /\ ledger = EmptyLedger /\ authoritative = FALSE
  /\ tailDay = 0 /\ tailFile = NoFile /\ currentModel = NoModel
  /\ seen = {} /\ forgotten = {} /\ misread = {}
  /\ stored = NoDays /\ legacy \in LegacyLedgers
  /\ fromDisk = {} /\ clearedAt = 0 /\ storedClearedAt = 0

Next == \/ CodexWrites \/ Midnight
        \/ Start \/ Flush \/ Stop \/ ClearHistory
        \/ FallbackPoll \/ TokenPollNewDay \/ TokenPoll

Spec == Init /\ [][Next]_vars

-----------------------------------------------------------------------------

AllDays == Days \cup {LegacyDay}
IsDays(days) == DOMAIN days \subseteq AllDays /\ \A d \in DOMAIN days : days[d] \in Buckets

TypeOK ==
  /\ today \in Days /\ Len(log) <= MaxLines
  /\ running \in BOOLEAN /\ starts \in 0..MaxStarts /\ authoritative \in BOOLEAN
  /\ IsDays(ledger.days) /\ DOMAIN ledger.baselines \subseteq Sessions /\ ledger.dirty \in BOOLEAN
  /\ tailDay \in Days \cup {0} /\ tailFile \in Sessions \cup {NoFile}
  /\ currentModel \in Models \cup {NoModel} /\ forgotten \subseteq seen
  /\ seen \cup misread \subseteq (DOMAIN log) \X (Models \cup {NoModel})
  /\ IsDays(stored) /\ legacy \in LegacyLedgers
  /\ running => Cardinality(DOMAIN ledger.days) <= Retention
  /\ fromDisk \subseteq AllDays /\ clearedAt \in 0..MaxLines /\ storedClearedAt \in 0..MaxLines

(* A token event is counted at most once, in the bucket of the day it was    *)
(* written, and once more for each other model a read has found for it:      *)
(* whatever the files' order, the rescans on a change of file and at         *)
(* midnight, the unreadable files.  It holds for the buckets this run of the *)
(* program has built (session_token_fallback.rs:66-117,                      *)
(* official_runtime.rs:510-532).                                             *)
Countable(d) ==
  {<<i, ModelOf(i)>> : i \in TokensOf(d)} \cup {e \in misread : log[e[1]].day = d}

CountedOnce ==
  \A d \in (DOMAIN ledger.days \cap Days) \ fromDisk :
    ledger.days[d].detailed <= Cardinality(Countable(d))

(* A read finds another model than the file gives the event only in a file   *)
(* longer than a tail read, whose turn_context lies before the tail, or      *)
(* where the file names none before the event: in any other file "the same   *)
(* event is returned once" (session_token_fallback.rs:66, 107-108, 244-246). *)
MisreadsExplained ==
  \A e \in misread :
    Cardinality(Lines(log[e[1]].session)) > TailLines \/ ModelOf(e[1]) = NoModel

(* The fingerprints and the bucket stay in step: an event the tailer will    *)
(* never return again is in the bucket, unless the user has cleared it or    *)
(* the retention, full of later days, has dropped the bucket.  So no event   *)
(* is lost between the tailer and the ledger                                 *)
(* (session_token_fallback.rs:86-92, official_runtime.rs:511-532).           *)
DroppedByRetention(d) ==
  d \notin DOMAIN ledger.days /\ Cardinality({x \in DOMAIN ledger.days : x > d}) >= Retention

SeenIsCounted ==
  (running /\ tailDay # 0 /\ tailDay \notin fromDisk) =>
    \/ Bucket(ledger.days, tailDay).detailed = Cardinality(seen \ forgotten)
    \/ DroppedByRetention(tailDay)

(* The increase of the SQLite counters is counted once over all days and     *)
(* restarts, and never what was used before a clear: "the first frame only   *)
(* rebuilds the baselines" (local_usage_ledger.rs:28, 146-150, 318-336).     *)
(* The tokens only a counter has reported, each with its day.                *)
Undetailed(days) ==
  UNION {{d} \X (1..days[d].total - days[d].detailed) : d \in DOMAIN days \cap Days}
CountersCountedOnce ==
  Cardinality(Undetailed(ledger.days)) <= Cardinality({i \in Tokens(DOMAIN log) : i > clearedAt})

(* While the program runs, the bucket of a past day no longer changes; it    *)
(* only goes with a clear or with the retention                              *)
(* (official_runtime.rs:505-532, local_usage_ledger.rs:457-462).             *)
PastDaysFrozen ==
  [][running /\ running' =>
       \A d \in DOMAIN ledger.days \cap DOMAIN ledger'.days :
         d < today => ledger'.days[d] = ledger.days[d]]_vars

(* No token of the session files is lost, and none is counted twice but      *)
(* where a read takes it for another model's, through rescans, midnights,    *)
(* clears and crashes                                                        *)
(* (session_token_fallback.rs:66-117, official_runtime.rs:505-532).          *)
EventsCountedExactly == TypeOK /\ CountedOnce /\ MisreadsExplained /\ SeenIsCounted
=============================================================================
