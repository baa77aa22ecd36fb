------------------------------- MODULE Activity -------------------------------
(***************************************************************************)
(* The activity lamp: who decides what it shows.                           *)
(*                                                                         *)
(* Two sources report what Codex is doing.  The App Server session sends   *)
(* one aggregated activity with every update (session.rs, emit_state); how *)
(* it is aggregated over the threads is in module ServerState; here it may *)
(* report any phase at any time.  The desktop program writes turns and     *)
(* items to thread_history_*.sqlite, which the runtime polls statement by  *)
(* statement, without a transaction (adapters-codex-sqlite/src/lib.rs).    *)
(* The runtime thread takes updates and polls in turn; a short lease keeps *)
(* the poll from overwriting the App Server (official_runtime.rs).         *)
(*                                                                         *)
(* Time passes in ticks; an age stands for a timestamp and stops growing   *)
(* where no test of the code can tell it from an older one.                *)
(***************************************************************************)
EXTENDS Integers, Sequences

CONSTANTS
  Reported,     \* activities the App Server's events are normalised to
  Lease,        \* APP_SERVER_ACTIVITY_LEASE, in ticks
  Fresh,        \* SqliteFallbackConfig.activity_freshness_ttl
  Hard,         \* SqliteFallbackConfig.activity_hard_ttl
  MaxTurns      \* bound: rows of thread_turns

States == {"Unknown", "Idle", "Thinking", "Executing", "WaitingForUser",
           "Reviewing", "Completed", "Failed"}

ASSUME ActivityAssumption ==
  /\ Reported \subseteq States
  /\ Lease \in Nat \ {0} /\ Fresh \in Nat /\ Hard \in Nat
  /\ Fresh <= Hard          \* 30 seconds and 12 minutes in SqliteFallbackConfig::default
  /\ MaxTurns \in Nat \ {0}

VARIABLES
  turns,               \* thread_turns, in the order of started_at, each with its latest item
  link,                \* "factory" | "outer" | "backoff" | "nested": run_factory waits, its
                       \* run_transport, reconnect_from_factory, its run_transport
  kept,                \* the activity in the state reconnect_from_factory was given
  activity,            \* MonitorState.activity
  lease,               \* ticks the App Server lease still runs
  reading,             \* what apply_fallback reads next, or "none"
  leaseWasLive,        \* is_live() when apply_fallback was called
  record, turn,        \* its locals: ThreadHistoryActivityRecord, the identity
  disturbed,           \* history: the database was written since the poll began
  appServer            \* history: the last concrete activity of the App Server

session == <<link, kept>>
poll    == <<reading, leaseWasLive, record, turn, disturbed>>
lamp    == <<activity, lease, appServer>>
vars    == <<turns, session, lamp, poll>>

NoEvent == "none"
Running == {"Thinking", "Executing"}
IsConcrete(event) == event \notin {NoEvent, "Unknown"}

-----------------------------------------------------------------------------
(* One update of the session reaches the lamp. *)

Connected == link \in {"outer", "nested"}

(* AppServerActivityLease::observe. *)
Observe(event, health) ==
  IF health = "Disconnected" THEN 0
  ELSE IF IsConcrete(event) THEN Lease ELSE lease

(* emit_state and apply_session_update: a concrete activity is applied,      *)
(* others are not.  The channel between the two loses nothing and keeps the  *)
(* order; an update that waits in it is one sent when it is taken.           *)
Publish(event, health) ==
  /\ reading = "none"
  /\ lease' = Observe(event, health)
  /\ activity'  = IF IsConcrete(event) THEN event ELSE activity
  /\ appServer' = IF IsConcrete(event) THEN event ELSE appServer

-----------------------------------------------------------------------------
(* The session. *)

(* aggregated_activity: an event came, an old one expired, the account       *)
(* changed or nothing happened.                                              *)
Aggregated == Reported \cup {NoEvent}

(* Any notification or refresh. *)
Report ==
  /\ Connected
  /\ \E event \in Aggregated : Publish(event, "Healthy")
  /\ UNCHANGED <<turns, session, poll>>

(* The pipe ends: the last state is published once more.  Only the first     *)
(* transport is followed by reconnect_from_factory, which keeps the state;   *)
(* Closed, and the end of a later transport, go back to run_factory.         *)
Disconnect ==
  /\ Connected
  /\ \E event \in Aggregated :
       /\ Publish(event, "Disconnected")
       /\ \/ link = "outer" /\ link' = "backoff" /\ kept' = event
          \/ link' = "factory" /\ UNCHANGED kept
  /\ UNCHANGED <<turns, poll>>

(* The factory fails: reconnect_from_factory publishes its old state again,  *)
(* run_factory an empty one.                                                 *)
ConnectFails ==
  /\ ~Connected
  /\ Publish(kept, "Disconnected")
  /\ UNCHANGED <<turns, session, poll>>

(* run_transport starts from an empty state. *)
Connect ==
  /\ ~Connected
  /\ link' = IF link = "factory" THEN "outer" ELSE "nested"
  /\ kept' = NoEvent
  /\ UNCHANGED <<turns, lamp, poll>>

-----------------------------------------------------------------------------
(* The desktop program and its history. *)

NoItem == [tool |-> FALSE, age |-> -1]
NewTurn == [status |-> "inProgress", started |-> 0, item |-> NoItem]
Wrote == disturbed' = (reading # "none")

StartTurn ==
  /\ Len(turns) < MaxTurns
  /\ turns' = Append(turns, NewTurn)
  /\ Wrote /\ UNCHANGED <<session, lamp, reading, leaseWasLive, record, turn>>

(* tool: the item type is one of those activity_from_safe_item_type knows. *)
WriteItem ==
  /\ \E i \in DOMAIN turns, tool \in BOOLEAN :
       /\ turns[i].status = "inProgress"
       /\ turns' = [turns EXCEPT ![i].item = [tool |-> tool, age |-> 0]]
  /\ Wrote /\ UNCHANGED <<session, lamp, reading, leaseWasLive, record, turn>>

(* Its items stay; what was its start no statement reads any more. *)
EndTurn ==
  /\ \E i \in DOMAIN turns :
       /\ turns[i].status = "inProgress"
       /\ turns' = [turns EXCEPT ![i].status = "completed", ![i].started = 0]
  /\ Wrote /\ UNCHANGED <<session, lamp, reading, leaseWasLive, record, turn>>

-----------------------------------------------------------------------------
(* The runtime: one poll (apply_fallback, read_thread_history_activity).     *)
(* Between two statements the desktop program may write.                     *)

InProgress == {i \in DOMAIN turns : turns[i].status = "inProgress"}

(* Mutant: the newest turn, whatever its status. *)
NewestOfAll == Len(turns)

(* ORDER BY started_at DESC LIMIT 1; 0 for no row. *)
Newest == IF InProgress = {} THEN 0
          ELSE CHOOSE i \in InProgress : \A j \in InProgress : j <= i

NoRecord == [found |-> FALSE, started |-> 0, heartbeat |-> -1, tool |-> FALSE]
PollIdle == reading' = "none" /\ leaseWasLive' = FALSE /\ record' = NoRecord
              /\ turn' = 0 /\ disturbed' = FALSE

BeginPoll ==
  /\ reading = "none" /\ reading' = "turn"
  /\ leaseWasLive' = (lease > 0)
  /\ UNCHANGED <<turns, session, lamp, record, turn, disturbed>>

ReadTurn ==
  /\ reading = "turn"
  /\ IF Newest # 0 /\ turns[Newest].status = "inProgress"
       THEN reading' = "identity"
              /\ record' = [NoRecord EXCEPT !.found = TRUE, !.started = turns[Newest].started]
       ELSE reading' = "done" /\ UNCHANGED record
  /\ UNCHANGED <<turns, session, lamp, leaseWasLive, turn, disturbed>>

ReadIdentity ==
  /\ reading = "identity"
  /\ turn' = Newest
  /\ reading' = IF Newest = 0 THEN "done" ELSE "heartbeat"
  /\ UNCHANGED <<turns, session, lamp, leaseWasLive, record, disturbed>>

ReadHeartbeat ==
  /\ reading = "heartbeat" /\ reading' = "item"
  /\ record' = [record EXCEPT !.heartbeat = turns[turn].item.age]
  /\ UNCHANGED <<turns, session, lamp, leaseWasLive, turn, disturbed>>

ReadItemType ==
  /\ reading = "item" /\ reading' = "done"
  /\ record' = [record EXCEPT !.tool = turns[turn].item.tool]
  /\ UNCHANGED <<turns, session, lamp, leaseWasLive, turn, disturbed>>

(* Mutant: a silent turn stays in progress for ever. *)
FromRecordForEver(r) ==
  LET observed == IF r.heartbeat >= 0 THEN r.heartbeat ELSE r.started
  IN  CASE ~r.found  -> "Unknown"
        [] OTHER     -> IF observed <= Fresh /\ r.tool THEN "Executing" ELSE "Thinking"

(* Mutant: the phase of an item outlives its heartbeat. *)
FromRecordOldItem(r) ==
  CASE ~r.found                    -> "Unknown"
    [] r.found /\ r.started <= Hard -> IF r.tool THEN "Executing" ELSE "Thinking"
    [] OTHER                       -> "Idle"

(* The two leases: the item's phase while its heartbeat is fresh, then       *)
(* Thinking as long as the turn is not too old.                              *)
FromRecord(r) ==
  LET observed == IF r.heartbeat >= 0 THEN r.heartbeat ELSE r.started
  IN  IF ~r.found                THEN "Unknown"
      ELSE IF observed <= Fresh  THEN IF r.tool THEN "Executing" ELSE "Thinking"
      ELSE IF r.started <= Hard  THEN "Thinking"
      ELSE "Idle"

(* Mutant: the lease does not stop the poll. *)
ApplyAlways ==
  /\ reading = "done"
  /\ activity' = FromRecord(record)
  /\ PollIdle
  /\ UNCHANGED <<turns, session, lease, appServer>>

ApplyHistory ==
  /\ reading = "done"
  /\ activity' = IF leaseWasLive THEN activity ELSE FromRecord(record)
  /\ PollIdle
  /\ UNCHANGED <<turns, session, lease, appServer>>

(* Busy, locked, missing or of an unknown schema: no snapshot. *)
PollFails ==
  /\ reading \notin {"none", "done"}
  /\ PollIdle
  /\ UNCHANGED <<turns, session, lamp>>

-----------------------------------------------------------------------------

Older(age, limit) == IF age \in 0..limit THEN age + 1 ELSE age

OlderTurn(t) ==
  [t EXCEPT !.started = IF t.status = "inProgress" THEN Older(@, Hard) ELSE @,
            !.item.age = Older(@, Fresh)]

Tick ==
  /\ turns' = [i \in DOMAIN turns |-> OlderTurn(turns[i])]
  /\ lease' = IF lease > 0 THEN lease - 1 ELSE 0
  /\ record' = IF record.found
                  THEN [record EXCEPT !.started = Older(@, Hard), !.heartbeat = Older(@, Fresh)]
                  ELSE record
  /\ UNCHANGED <<session, activity, appServer, reading, leaseWasLive, turn, disturbed>>

Init ==
  /\ turns = <<>>
  /\ link = "factory" /\ kept = NoEvent
  /\ activity = "Unknown" /\ lease = 0 /\ appServer = "Unknown"
  /\ reading = "none" /\ leaseWasLive = FALSE /\ record = NoRecord /\ turn = 0
  /\ disturbed = FALSE

SessionNext == Report \/ Disconnect \/ ConnectFails \/ Connect
CodexNext   == StartTurn \/ WriteItem \/ EndTurn
ReadNext    == ReadTurn \/ ReadIdentity \/ ReadHeartbeat \/ ReadItemType
RuntimeNext == BeginPoll \/ ReadNext \/ ApplyHistory \/ PollFails

Next == SessionNext \/ CodexNext \/ RuntimeNext \/ Tick

Spec == Init /\ [][Next]_vars

(* The runtime thread runs, time passes, and a history that exists is read   *)
(* again and again.                                                          *)
Fairness == /\ WF_vars(BeginPoll) /\ WF_vars(ApplyHistory) /\ WF_vars(Tick)
            /\ SF_vars(ReadTurn) /\ SF_vars(ReadIdentity)
            /\ SF_vars(ReadHeartbeat) /\ SF_vars(ReadItemType)

FairSpec == Spec /\ Fairness

-----------------------------------------------------------------------------

Turns   == [status : {"inProgress", "completed"}, started : 0..(Hard + 1),
            item : [tool : BOOLEAN, age : -1..(Fresh + 1)]]
Records == [found : BOOLEAN, started : 0..(Hard + 1), heartbeat : -1..(Fresh + 1), tool : BOOLEAN]

(* Every variable has its type; the counters stay within their bounds. *)
TypeOK ==
  /\ turns \in Seq(Turns) /\ Len(turns) <= MaxTurns
  /\ link \in {"factory", "outer", "backoff", "nested"}
  /\ kept \in States \cup {NoEvent}
  /\ activity \in States /\ appServer \in States /\ lease \in 0..Lease
  /\ reading \in {"none", "turn", "identity", "heartbeat", "item", "done"}
  /\ leaseWasLive \in BOOLEAN /\ disturbed \in BOOLEAN
  /\ record \in Records /\ turn \in 0..MaxTurns

(* While the lease runs the lamp shows the App Server's last phase: neither  *)
(* a poll that was under way nor an update without a phase displaces it      *)
(* (official_runtime.rs:80-106, 442-450, 1236-1240).                         *)
LeaseShowsAppServer == lease > 0 => activity = appServer

(* A poll sets the lamp to Executing only for an item written a moment ago,  *)
(* a tool's unless the history was written meanwhile: whatever turns end or  *)
(* items appear between its statements, no old item is taken for a new one   *)
(* (sqlite lib.rs:683-714, 742-793).                                         *)
ExecutingHasEvidence ==
  [][(ApplyHistory /\ ~leaseWasLive /\ activity' = "Executing") =>
       \E i \in DOMAIN turns : /\ turns[i].item.age \in 0..Fresh
                               /\ turns[i].item.tool \/ disturbed]_vars

(* A poll nobody wrote into finds the turn that is in progress, although     *)
(* newer turns have finished ("finished turns may sort before one that still *)
(* runs", sqlite lib.rs:717-721), and shows none when none is.               *)
InProgressSeen ==
  [][(ApplyHistory /\ ~disturbed /\ ~leaseWasLive) =>
       /\ (\E i \in InProgress : \A j \in InProgress : turns[j].started <= Hard) => activity' \in Running
       /\ InProgress = {} => activity' \notin Running]_vars

(* When the desktop program writes no more, even because it crashed and left *)
(* its turns in progress, and no App Server is reachable, the lamp stops     *)
(* running (sqlite lib.rs:37-42, official_runtime.rs:60-62).                 *)
Silent == <>[][~CodexNext]_vars /\ <>[](link = "factory")
LampSettles == Silent => <>[](activity \notin Running)
===============================================================================
