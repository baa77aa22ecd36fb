---------------------------- MODULE TelemetryProofs ----------------------------
(***************************************************************************)
(* What module Telemetry keeps for every number of versions, connections,  *)
(* queued updates and windows.                                             *)
(*                                                                         *)
(* Three arguments, each an inductive invariant:                           *)
(*   LeakInv     a floor is a version behind an account reset: the one the *)
(*               runtime applied last, those of the updates under way and  *)
(*               the one of the refresh under way.  What the worker or its *)
(*               channel still holds is at or above every floor, because   *)
(*               the event channel is in the order of the versions, a      *)
(*               reset empties the worker's data and the answers it waits  *)
(*               for were asked for afterwards.                            *)
(*   DarkInv     without a connection either nothing is shown or the last  *)
(*               update under way takes everything off the screen.         *)
(*   CurrentInv  a switch of accounts is still in the channel, or settled: *)
(*               nothing older than it is shown once the updates under way *)
(*               are applied; an end in the channel brings the dark.       *)
(***************************************************************************)
EXTENDS Telemetry, TLAPS

(* The shapes of the records that travel. *)
States == [account : Data, windows : [Windows -> Data], usage : Data, tokens : Data]
OfficialStates == [account : Data, usage : Data, status : Statuses]
WindowStates == [presence : {"Present", "Absent", "Unknown"}, value : Data, lastKnown : Data]
Monitors == [windows : [Windows -> WindowStates], official : OfficialStates,
             tokens : [current : Data, lastKnown : Data], revision : Nat]
Updates == [windows : [Windows -> Data], revision : Nat, tokens : Data,
            official : OfficialStates, health : Healths, fresh : BOOLEAN,
            reset : Data, late : BOOLEAN]

VersionedKinds == {"account", "limits", "tokens", "noise"}
Notices == [kind : {"account", "tokens", "noise"}, version : Versions]
             \cup [kind : {"limits"}, version : Versions, windows : SUBSET Windows]
             \cup [kind : {"ready", "ended"}]

(* The type invariant with what TypeOK leaves out: the two channels in full. *)
CounterTypes ==
  /\ version \in Versions /\ switchedAt \subseteq Versions /\ conn \in 0..MaxConnections
  /\ attempt \in Nat /\ retry \in Nat /\ failures \in Nat /\ extra \in 0..MaxExtra
  /\ revision \in Nat
SwitchTypes ==
  /\ up \in BOOLEAN /\ ready \in BOOLEAN /\ nested \in BOOLEAN /\ failed \in BOOLEAN
  /\ succeeded \in BOOLEAN /\ cancelled \in BOOLEAN /\ refreshRequested \in BOOLEAN
ChannelTypes == events \in Seq(Notices) /\ answers \in [Endpoints -> Data] /\ updates \in Seq(Updates)
WorkerTypes ==
  /\ pc \in {"factory", "loop", "refresh", "backoff", "stopped"}
  /\ data \in States /\ tracker \in Statuses /\ health \in Healths
  /\ lastData \in {"none", "recent", "old"} /\ todo \in Seq(Endpoints) /\ resetBy \in Data
RuntimeTypes == monitor \in Monitors /\ since \in Data
Types == CounterTypes /\ SwitchTypes /\ ChannelTypes /\ WorkerTypes /\ RuntimeTypes

(* Outside a refresh nothing is left of one. *)
RoundIsOver == pc # "refresh" => todo = <<>> /\ answers = NoAnswers /\ resetBy = NoData

(* A datum is absent or was read at version f or later. *)
From(v, f) == v = NoData \/ v >= f
StateFrom(d, f) ==
  From(d.account, f) /\ (\A w \in Windows : From(d.windows[w], f)) /\ From(d.usage, f) /\ From(d.tokens, f)
UpdateFrom(u, f) ==
  /\ From(u.official.account, f) /\ From(u.official.usage, f) /\ From(u.tokens, f)
  /\ \A w \in Windows : From(u.windows[w], f)
MonitorFrom(m, f) ==
  /\ From(m.official.account, f) /\ From(m.official.usage, f)
  /\ From(m.tokens.current, f) /\ From(m.tokens.lastKnown, f)
  /\ \A w \in Windows : From(m.windows[w].value, f) /\ From(m.windows[w].lastKnown, f)

(* Nothing the worker has or will be told is older than f. *)
EventsFrom(f) == \A i \in DOMAIN events : events[i].kind \in VersionedKinds => events[i].version >= f
Known(f) ==
  /\ f <= version /\ EventsFrom(f) /\ StateFrom(data, f)
  /\ \A k \in Endpoints : From(answers[k], f)

EventsInOrder ==
  \A i, j \in DOMAIN events :
    i < j /\ events[i].kind \in VersionedKinds /\ events[j].kind \in VersionedKinds
      => events[i].version <= events[j].version
EventsArePast == \A i \in DOMAIN events : events[i].kind \in VersionedKinds => events[i].version <= version

Resets(queue) == {queue[i].reset : i \in DOMAIN queue}
Floors == {since, resetBy} \cup Resets(updates)

(* No update of the queue holds what is older than f or than a reset before it. *)
QueueFrom(queue, f) ==
  /\ \A i \in DOMAIN queue : UpdateFrom(queue[i], f)
  /\ \A i, j \in DOMAIN queue : i <= j => UpdateFrom(queue[j], queue[i].reset)

AboveFloors == \A f \in Floors : Known(f)

LeakInv ==
  /\ Types /\ RoundIsOver /\ EventsInOrder /\ EventsArePast
  /\ AboveFloors /\ QueueFrom(updates, since) /\ MonitorFrom(monitor, since)

-----------------------------------------------------------------------------
(* Sequences, notices and snapshots. *)

LEMMA Appended ==
  ASSUME NEW S, NEW q \in Seq(S), NEW x \in S
  PROVE  /\ Append(q, x) \in Seq(S) /\ Len(Append(q, x)) = Len(q) + 1
         /\ DOMAIN Append(q, x) = 1..(Len(q) + 1) /\ Append(q, x)[Len(q) + 1] = x
         /\ DOMAIN q = 1..Len(q) /\ \A i \in DOMAIN q : Append(q, x)[i] = q[i]
OBVIOUS

LEMMA Rest ==
  ASSUME NEW S, NEW q \in Seq(S), q # <<>>
  PROVE  /\ Head(q) \in S /\ Head(q) = q[1] /\ 1 \in DOMAIN q /\ DOMAIN q = 1..Len(q)
         /\ Tail(q) \in Seq(S) /\ Len(Tail(q)) = Len(q) - 1 /\ DOMAIN Tail(q) = 1..(Len(q) - 1)
         /\ \A i \in DOMAIN Tail(q) : Tail(q)[i] = q[i + 1] /\ i + 1 \in DOMAIN q
OBVIOUS

LEMMA Elements ==
  ASSUME NEW S, NEW q \in Seq(S)
  PROVE  Len(q) \in Nat /\ DOMAIN q = 1..Len(q) /\ \A i \in 1..Len(q) : q[i] \in S
OBVIOUS

LEMMA SameLength ==
  ASSUME NEW m \in Nat, NEW n \in Nat, 1..m = 1..n
  PROVE  m = n
<1>1. m > 0 => m \in 1..n
  OBVIOUS
<1>2. n > 0 => n \in 1..m
  OBVIOUS
<1> QED BY <1>1, <1>2

LEMMA NoticeShape ==
  ASSUME NEW e \in Notices
  PROVE  /\ e.kind \in VersionedKinds => e.version \in Versions
         /\ e.kind = "limits" => e.windows \subseteq Windows
BY DEF Notices, VersionedKinds

LEMMA NoticesMade ==
  ASSUME NEW v \in Versions
  PROVE  /\ \A k \in {"account", "tokens", "noise"} : [kind |-> k, version |-> v] \in Notices
         /\ \A ws \in SUBSET Windows : [kind |-> "limits", version |-> v, windows |-> ws] \in Notices
         /\ [kind |-> "ready"] \in Notices /\ [kind |-> "ended"] \in Notices
BY DEF Notices

LEMMA NotifyShape ==
  ASSUME events \in Seq(Notices), NEW e \in Notices, Notify(e)
  PROVE  events' \in Seq(Notices)
BY Appended DEF Notify

LEMMA SnapshotShape ==
  ASSUME NEW d \in States, NEW st \in Statuses, NEW h \in Healths, NEW fr \in BOOLEAN,
         NEW r \in Nat, NEW z \in Data
  PROVE  Snapshot(d, st, h, fr, r, z) \in Updates
BY DEF Snapshot, States, Updates, OfficialStates

LEMMA CachedStatuses ==
  ASSUME NEW st \in Statuses
  PROVE  /\ AllCached(st) \in Statuses /\ NoStatus \in Statuses
         /\ \A k \in Endpoints : AllCached(st)[k] # "live"
         /\ \A k \in Endpoints : MarkLive(st, k) \in Statuses /\ MarkFailed(st, k) \in Statuses
BY DEF Statuses, AllCached, Cached, NoStatus, MarkLive, MarkFailed

LEMMA EmptyShapes ==
  /\ NoData \in Data /\ EmptyData \in States /\ NoAnswers \in [Endpoints -> Data]
  /\ NoStatus \in Statuses /\ EmptyMonitor \in Monitors /\ HealthOnly \in Updates
BY DEF NoData, Data, EmptyData, States, NoAnswers, NoStatus, Statuses, EmptyMonitor, Monitors,
       EmptyOfficial, OfficialStates, EmptyTokens, UnknownWindow, WindowStates, HealthOnly,
       Snapshot, Updates, Healths

LEMMA RefreshOrderShape == RefreshOrder \in Seq(Endpoints)
BY DEF RefreshOrder, Endpoints

LEMMA DataShapes ==
  ASSUME NEW d \in States, NEW v \in Data
  PROVE  /\ \A k \in Endpoints : Replace(d, k, v) \in States
         /\ \A ws \in SUBSET Windows : MergeLimits(d, ws, v) \in States
         /\ [EmptyData EXCEPT !.account = v] \in States /\ [d EXCEPT !.tokens = v] \in States
BY DEF Endpoints, Replace, MergeLimits, States, Data, NoData, EmptyData

LEMMA MonitorShapes ==
  ASSUME NEW m \in Monitors, NEW u \in Updates
  PROVE  ApplySessionUpdate(m, u) \in Monitors
<1> DEFINE reset    == IF u.reset # NoData THEN ResetAccountScopedState(m) ELSE m
           official == [reset EXCEPT !.official = u.official]
           limits   == IF u.official.status["quota"] = "live" THEN ApplyAuthoritative(official, u)
                                                               ELSE official
           tokens   == ApplyTokenUsage(limits, u)
<1>1. reset \in Monitors
  BY EmptyShapes DEF ResetAccountScopedState, Monitors
<1>2. official \in Monitors
  BY <1>1 DEF Monitors, Updates
<1>3. limits \in Monitors
  BY <1>2 DEF ApplyAuthoritative, FromAuthoritative, Monitors, Updates, WindowStates, Data, NoData
<1>4. tokens \in Monitors
  BY <1>3 DEF ApplyTokenUsage, Monitors, Updates
<1> HIDE DEF tokens
<1>5. AuthoritativeUnavailable(tokens) \in Monitors
  <2>1. \A st \in WindowStates : Unavailable(st) \in WindowStates
    BY DEF Unavailable, WindowStates, Data, NoData
  <2>2. \A st \in Statuses : AllCached(st) \in Statuses
    BY CachedStatuses
  <2> QED BY <1>4, <2>1, <2>2, EmptyShapes DEF AuthoritativeUnavailable, Monitors, OfficialStates
<1> QED BY <1>4, <1>5 DEF ApplySessionUpdate, tokens

-----------------------------------------------------------------------------
(* Types: every step keeps the shapes. *)

LEMMA TypesInit == Init => Types
<1> SUFFICES ASSUME Init PROVE Types
  OBVIOUS
<1>1. CounterTypes
  BY SessionAssumption DEF Init, SessionInit, CounterTypes, Versions
<1>2. SwitchTypes
  BY DEF Init, SessionInit, SwitchTypes
<1>3. ChannelTypes /\ RuntimeTypes
  BY EmptyShapes DEF Init, SessionInit, ChannelTypes, RuntimeTypes
<1>4. WorkerTypes
  BY EmptyShapes DEF Init, SessionInit, WorkerTypes, Healths
<1> QED BY <1>1, <1>2, <1>3, <1>4 DEF Types

LEMMA OfflineTypes ==
  ASSUME Types, Connect \/ Offline, UNCHANGED <<monitor, since>>
  PROVE  Types'
<1> USE EmptyShapes DEF Types, server, link, locals, round, retries, flags,
        Connect, Offline, FactoryFails, BackoffFails, CancelledOffline
<1>1. CounterTypes'
  <2>1. Bump(attempt) \in Nat /\ Bump(retry) \in Nat /\ Bump(failures) \in Nat
    BY DEF CounterTypes, Bump
  <2>2. CASE Connect
    BY <2>2, SessionAssumption DEF CounterTypes, FreshLocals
  <2>3. CASE FactoryFails
    BY <2>1, <2>3 DEF CounterTypes
  <2>4. CASE BackoffFails
    BY <2>1, <2>4 DEF CounterTypes, FreshLocals
  <2>5. CASE CancelledOffline
    BY <2>5 DEF CounterTypes, FreshLocals
  <2> QED BY <2>2, <2>3, <2>4, <2>5
<1>2. SwitchTypes'
  BY DEF SwitchTypes
<1>3. WorkerTypes'
  BY DEF WorkerTypes, FreshLocals, Healths
<1>4. ChannelTypes'
  <2>1. Snapshot(data, tracker, "Disconnected", FALSE, revision, NoData) \in Updates
    BY SnapshotShape DEF WorkerTypes, CounterTypes, Healths
  <2>2. CASE FactoryFails
    <3>1. updates \o <<HealthOnly, HealthOnly>> \in Seq(Updates)
      BY DEF ChannelTypes
    <3>2. Append(updates, HealthOnly) \in Seq(Updates)
      BY Appended DEF ChannelTypes
    <3> QED BY <2>2, <3>1, <3>2 DEF ChannelTypes, Publish
  <2>3. CASE BackoffFails
    BY <2>1, <2>3, Appended DEF ChannelTypes, Publish
  <2>4. CASE Connect \/ CancelledOffline
    BY <2>4 DEF ChannelTypes
  <2> QED BY <2>2, <2>3, <2>4
<1>5. RuntimeTypes'
  BY DEF RuntimeTypes
<1> QED BY <1>1, <1>2, <1>3, <1>4, <1>5

LEMMA RefreshTypes ==
  ASSUME Types, Refreshing, UNCHANGED <<monitor, since>>
  PROVE  Types'
<1> USE EmptyShapes DEF Types, server, link, locals, round, retries, flags,
        Refreshing, TakeAnswer, MissAnswer, EndRefresh
<1>1. todo # <<>> => Head(todo) \in Endpoints /\ Tail(todo) \in Seq(Endpoints)
  BY Rest DEF WorkerTypes
<1>2. CounterTypes'
  BY DEF CounterTypes
<1>3. SwitchTypes'
  BY DEF SwitchTypes, RoundOver
<1>4. WorkerTypes'
  <2>1. CASE TakeAnswer
    <3>1. Head(todo) \in Endpoints /\ Tail(todo) \in Seq(Endpoints) /\ answers[Head(todo)] \in Data
      BY <2>1, <1>1 DEF ChannelTypes
    <3>2. data' \in States /\ tracker' \in Statuses
      BY <2>1, <3>1, DataShapes, CachedStatuses DEF WorkerTypes
    <3> QED BY <2>1, <3>1, <3>2 DEF WorkerTypes
  <2>2. CASE MissAnswer
    BY <2>2, <1>1, CachedStatuses DEF WorkerTypes
  <2>3. CASE EndRefresh
    BY <2>3 DEF WorkerTypes, RoundOver, Healths
  <2> QED BY <2>1, <2>2, <2>3
<1>5. ChannelTypes'
  <2>1. answers' \in [Endpoints -> Data]
    BY <1>1 DEF ChannelTypes, RoundOver
  <2>2. EndRefresh => Snapshot(data, tracker, health', succeeded \/ FreshnessFor, revision, resetBy) \in Updates
    BY <1>4, SnapshotShape DEF WorkerTypes, CounterTypes, SwitchTypes, FreshnessFor
  <2>3. updates' \in Seq(Updates)
    BY <2>2, Appended DEF ChannelTypes, Publish
  <2> QED BY <2>1, <2>3 DEF ChannelTypes
<1>6. RuntimeTypes'
  BY DEF RuntimeTypes
<1> QED BY <1>2, <1>3, <1>4, <1>5, <1>6

LEMMA EventTypes ==
  ASSUME Types, HandleEvent, UNCHANGED <<monitor, since>>
  PROVE  Types'
<1> USE EmptyShapes DEF Types, server, link, locals, round, retries, flags, Event, Taken
<1>1. events # <<>> /\ Head(events) \in Notices /\ Tail(events) \in Seq(Notices)
  BY Rest DEF HandleEvent, EventReady, EventAccount, EventLimits, EventTokens, EventNoise,
              EventEnded, ChannelTypes
<1>2. /\ Head(events).kind \in VersionedKinds => Head(events).version \in Data
      /\ Head(events).kind = "limits" => Head(events).windows \in SUBSET Windows
  BY <1>1, NoticeShape DEF Data
<1>3. "quota" \in Endpoints /\ {"Healthy", "Degraded", "Starting", "Disconnected"} \subseteq Healths
  BY DEF Endpoints, Healths
<1>4. /\ FreshnessFor \in BOOLEAN /\ AllCached(tracker) \in Statuses
      /\ MarkLive(tracker, "quota") \in Statuses
  BY <1>3, CachedStatuses DEF FreshnessFor, WorkerTypes
<1>5. CASE EventReady
  <2> USE <1>5 DEF EventReady, BeginRefresh
  <2>1. CounterTypes' /\ WorkerTypes' /\ ChannelTypes'
    BY <1>1, <1>3, RefreshOrderShape DEF CounterTypes, WorkerTypes, ChannelTypes
  <2> QED BY <2>1 DEF SwitchTypes, RuntimeTypes
<1>6. CASE EventAccount
  <2> USE <1>6 DEF EventAccount, Notified
  <2> DEFINE v == Head(events).version
  <2>1. v \in Data
    BY <1>2 DEF VersionedKinds
  <2>2. data' \in States
    BY <2>1, DataShapes
  <2>3. WorkerTypes'
    BY <1>3, <2>1, <2>2, RefreshOrderShape DEF WorkerTypes, BeginRefresh
  <2>4. CounterTypes'
    BY DEF CounterTypes
  <2>5. Snapshot(data', tracker', "Healthy", TRUE, revision', v) \in Updates
    BY <1>3, <2>1, <2>2, <2>4, SnapshotShape DEF CounterTypes
  <2>6. ChannelTypes'
    <3>1. updates' = updates \/ updates' = Append(updates, Snapshot(data', tracker', "Healthy", TRUE, revision', v))
      BY DEF Publish
    <3>2. updates' \in Seq(Updates)
      <4> DEFINE u == Snapshot(data', tracker', "Healthy", TRUE, revision', v)
      <4> HIDE DEF u
      <4>1. updates \in Seq(Updates) /\ u \in Updates
        BY <2>5 DEF ChannelTypes, u
      <4>2. Append(updates, u) \in Seq(Updates)
        BY <4>1, Appended
      <4> QED BY <3>1, <4>1, <4>2 DEF u
    <3>3. answers' = answers \/ answers' = NoAnswers
      BY DEF BeginRefresh
    <3> QED BY <1>1, <3>2, <3>3 DEF ChannelTypes
  <2>7. SwitchTypes' /\ RuntimeTypes'
    BY DEF SwitchTypes, RuntimeTypes, BeginRefresh
  <2> QED BY <2>3, <2>4, <2>6, <2>7
<1>7. CASE EventLimits
  <2> USE <1>7 DEF EventLimits, Notified
  <2>1. data' \in States
    BY <1>2, DataShapes DEF VersionedKinds, WorkerTypes
  <2>2. tracker' \in Statuses
    BY <1>4 DEF NotificationEndpointStatus
  <2>3. WorkerTypes' /\ CounterTypes'
    BY <1>3, <2>1, <2>2 DEF WorkerTypes, CounterTypes
  <2>4. Snapshot(data', tracker', "Healthy", TRUE, revision', NoData) \in Updates
    BY <1>3, <2>3, SnapshotShape DEF CounterTypes, WorkerTypes
  <2>5. ChannelTypes'
    BY <1>1, <2>4, Appended DEF ChannelTypes, Publish
  <2>6. SwitchTypes' /\ RuntimeTypes'
    BY DEF SwitchTypes, RuntimeTypes
  <2> QED BY <2>3, <2>5, <2>6
<1>8. CASE EventTokens
  <2> USE <1>8 DEF EventTokens, Notified
  <2>1. data' \in States
    BY <1>2, DataShapes DEF VersionedKinds, WorkerTypes
  <2>2. WorkerTypes' /\ CounterTypes'
    BY <1>3, <2>1 DEF WorkerTypes, CounterTypes
  <2>3. Snapshot(data', tracker, "Healthy", TRUE, revision', NoData) \in Updates
    BY <1>3, <2>1, <2>2, SnapshotShape DEF CounterTypes, WorkerTypes
  <2>4. ChannelTypes'
    BY <1>1, <2>3, Appended DEF ChannelTypes, Publish
  <2>5. SwitchTypes' /\ RuntimeTypes'
    BY DEF SwitchTypes, RuntimeTypes
  <2> QED BY <2>2, <2>4, <2>5
<1>9. CASE EventNoise
  <2> USE <1>9 DEF EventNoise
  <2>1. Snapshot(data, tracker, "Degraded", FreshnessFor, revision, NoData) \in Updates
    BY <1>3, <1>4, SnapshotShape DEF CounterTypes, WorkerTypes
  <2>2. ChannelTypes'
    BY <1>1, <2>1, Appended DEF ChannelTypes, Publish
  <2>3. WorkerTypes' /\ CounterTypes'
    BY <1>3 DEF WorkerTypes, CounterTypes
  <2>4. SwitchTypes' /\ RuntimeTypes'
    BY DEF SwitchTypes, RuntimeTypes
  <2> QED BY <2>2, <2>3, <2>4
<1>10. CASE EventEnded
  <2> USE <1>10 DEF EventEnded
  <2>1. Snapshot(data, AllCached(tracker), "Disconnected", FreshnessFor, revision, NoData) \in Updates
    BY <1>3, <1>4, SnapshotShape DEF CounterTypes, WorkerTypes
  <2>2. ChannelTypes'
    BY <2>1, Appended DEF ChannelTypes, Publish
  <2>3. WorkerTypes'
    BY <1>3, <1>4 DEF WorkerTypes, FreshLocals
  <2>4. CounterTypes'
    BY DEF CounterTypes, FreshLocals
  <2>5. SwitchTypes' /\ RuntimeTypes'
    BY DEF SwitchTypes, RuntimeTypes
  <2> QED BY <2>2, <2>3, <2>4, <2>5
<1> QED BY <1>5, <1>6, <1>7, <1>8, <1>9, <1>10 DEF HandleEvent

LEMMA LoopTypes ==
  ASSUME Types, LoopCancelled \/ LoopRequested \/ LoopRefreshDue, UNCHANGED <<monitor, since>>
  PROVE  Types'
<1> USE EmptyShapes DEF Types, server, link, locals, round, retries, flags
<1>1. /\ FreshnessFor \in BOOLEAN /\ AllCached(tracker) \in Statuses /\ health \in Healths
      /\ "Stopped" \in Healths /\ "Starting" \in Healths
  BY CachedStatuses DEF FreshnessFor, WorkerTypes, Healths
<1>2. CASE LoopCancelled
  <2> USE <1>2 DEF LoopCancelled
  <2>1. Snapshot(data, AllCached(tracker), "Stopped", FreshnessFor, revision, NoData) \in Updates
    BY <1>1, SnapshotShape DEF CounterTypes, WorkerTypes
  <2>2. ChannelTypes'
    BY <2>1, Appended DEF ChannelTypes, Publish
  <2>3. WorkerTypes' /\ CounterTypes'
    BY <1>1 DEF WorkerTypes, CounterTypes, FreshLocals
  <2>4. SwitchTypes' /\ RuntimeTypes'
    BY DEF SwitchTypes, RuntimeTypes
  <2> QED BY <2>2, <2>3, <2>4
<1>3. CASE LoopRequested
  <2> USE <1>3 DEF LoopRequested, BeginRefresh
  <2>1. WorkerTypes' /\ CounterTypes' /\ ChannelTypes'
    BY RefreshOrderShape DEF WorkerTypes, CounterTypes, ChannelTypes
  <2> QED BY <2>1 DEF SwitchTypes, RuntimeTypes
<1>4. CASE LoopRefreshDue
  <2> USE <1>4 DEF LoopRefreshDue, BeginRefresh, Spend
  <2>1. Snapshot(data, tracker, health, FreshnessFor, revision, NoData) \in Updates
    BY <1>1, SnapshotShape DEF CounterTypes, WorkerTypes
  <2>2. updates' \in Seq(Updates)
    BY <2>1, Appended DEF ChannelTypes, Publish
  <2>3. WorkerTypes' /\ ChannelTypes'
    BY <2>2, RefreshOrderShape DEF WorkerTypes, ChannelTypes
  <2>4. CounterTypes'
    BY SessionAssumption DEF CounterTypes
  <2>5. SwitchTypes' /\ RuntimeTypes'
    BY DEF SwitchTypes, RuntimeTypes
  <2> QED BY <2>3, <2>4, <2>5
<1> QED BY <1>2, <1>3, <1>4

LEMMA HandleTypes ==
  ASSUME Types, Handle, UNCHANGED <<monitor, since>>
  PROVE  Types'
<1> USE DEF Types, Handle, RequestRefresh, Stop, Spend, server, link, locals, round, retries, flags
<1>1. CounterTypes'
  BY SessionAssumption DEF CounterTypes
<1>2. WorkerTypes' /\ ChannelTypes' /\ RuntimeTypes'
  BY DEF WorkerTypes, ChannelTypes, RuntimeTypes
<1>3. SwitchTypes'
  BY DEF SwitchTypes
<1> QED BY <1>1, <1>2, <1>3

LEMMA EnvironmentTypes ==
  ASSUME Types, Environment, UNCHANGED <<monitor, since>>
  PROVE  Types'
<1> USE DEF Types, server, link, locals, round, retries, flags, environment
<1>1. SwitchTypes' /\ RuntimeTypes' /\ updates' \in Seq(Updates)
  BY DEF Environment, ServerSwitches, ServerMoves, ServerTalks, ServerAnswers, HandshakeDone,
         LinkEnds, DataAges, SwitchTypes, RuntimeTypes, ChannelTypes
<1>2. WorkerTypes'
  BY DEF Environment, ServerSwitches, ServerMoves, ServerTalks, ServerAnswers, HandshakeDone,
         LinkEnds, DataAges, WorkerTypes
<1>3. CounterTypes'
  <2>1. CASE ServerSwitches \/ ServerMoves
    BY <2>1, SessionAssumption DEF ServerSwitches, ServerMoves, CounterTypes, Versions
  <2>2. CASE ServerTalks
    BY <2>2, SessionAssumption DEF ServerTalks, CounterTypes, Spend
  <2>3. CASE ServerAnswers \/ HandshakeDone \/ LinkEnds \/ DataAges
    BY <2>3 DEF ServerAnswers, HandshakeDone, LinkEnds, DataAges, CounterTypes
  <2> QED BY <2>1, <2>2, <2>3 DEF Environment
<1>4. answers' \in [Endpoints -> Data]
  <2>1. CASE ServerAnswers
    BY <2>1 DEF ServerAnswers, ChannelTypes, CounterTypes, Data
  <2>2. CASE ~ServerAnswers
    BY <2>2 DEF Environment, ServerSwitches, ServerMoves, ServerTalks, HandshakeDone, LinkEnds,
                DataAges, ChannelTypes
  <2> QED BY <2>1, <2>2
<1>5. events' \in Seq(Notices)
  <2> USE <1>3, NoticesMade DEF ChannelTypes, CounterTypes
  <2>1. CASE ServerSwitches
    <3>1. [kind |-> "account", version |-> version'] \in Notices
      OBVIOUS
    <3> QED BY <2>1, <3>1, NotifyShape DEF ServerSwitches
  <2>2. CASE ServerMoves
    <3>1. \A ws \in SUBSET Offered(version') :
            [kind |-> "limits", version |-> version', windows |-> ws] \in Notices
      BY DEF Offered
    <3>2. CASE UNCHANGED events
      BY <3>2
    <3>3. CASE ~UNCHANGED events
      <4>1. PICK ws \in SUBSET Offered(version') :
              Notify([kind |-> "limits", version |-> version', windows |-> ws])
        BY <2>2, <3>3 DEF ServerMoves
      <4> QED BY <3>1, <4>1, NotifyShape
    <3> QED BY <3>2, <3>3
  <2>3. CASE ServerTalks
    <3>1. PICK k \in {"tokens", "noise"} : Notify([kind |-> k, version |-> version])
      BY <2>3 DEF ServerTalks
    <3>2. [kind |-> k, version |-> version] \in Notices
      OBVIOUS
    <3> QED BY <3>1, <3>2, NotifyShape
  <2>4. CASE ServerAnswers \/ DataAges
    BY <2>4 DEF ServerAnswers, DataAges
  <2>5. CASE HandshakeDone
    BY <2>5, NotifyShape DEF HandshakeDone
  <2>6. CASE LinkEnds
    BY <2>6, Appended DEF LinkEnds
  <2> QED BY <2>1, <2>2, <2>3, <2>4, <2>5, <2>6 DEF Environment
<1> QED BY <1>1, <1>2, <1>3, <1>4, <1>5 DEF ChannelTypes

LEMMA ApplyTypes ==
  ASSUME Types, RuntimeApply
  PROVE  Types'
<1> USE DEF Types, server, link, locals, round, retries, flags, RuntimeApply
<1>1. Head(updates) \in Updates /\ Tail(updates) \in Seq(Updates)
  BY Rest DEF ChannelTypes
<1>2. RuntimeTypes'
  BY <1>1, MonitorShapes DEF RuntimeTypes, Updates
<1>3. updates' \in Seq(Updates)
  <2>1. \A u \in Updates, b \in BOOLEAN : [u EXCEPT !.late = b] \in Updates
    BY DEF Updates
  <2>2. \A i \in 1..Len(Tail(updates)) : Tail(updates)[i] \in Updates
    BY <1>1, Elements
  <2>3. \A u \in Updates : [u EXCEPT !.late = @ \/ ~Healthy(Head(updates))] \in Updates
    BY <2>1 DEF Updates
  <2>4. \A i \in 1..Len(Tail(updates)) :
          [Tail(updates)[i] EXCEPT !.late = @ \/ ~Healthy(Head(updates))] \in Updates
    BY <2>2, <2>3
  <2> QED BY <1>1, <2>4
<1>4. CounterTypes' /\ SwitchTypes' /\ WorkerTypes'
  BY DEF CounterTypes, SwitchTypes, WorkerTypes
<1> QED BY <1>2, <1>3, <1>4 DEF ChannelTypes

LEMMA TypesStep ==
  ASSUME Types, [Next]_vars
  PROVE  Types'
<1>1. CASE UNCHANGED vars
  BY <1>1 DEF vars, sessionVars, server, link, locals, round, retries, flags, Types, CounterTypes,
              SwitchTypes, ChannelTypes, WorkerTypes, RuntimeTypes
<1>2. CASE SessionNext /\ UNCHANGED <<monitor, since>>
  BY <1>2, OfflineTypes, RefreshTypes, EventTypes, LoopTypes, HandleTypes, EnvironmentTypes
  DEF SessionNext, Worker, Loop
<1> QED BY <1>1, <1>2, ApplyTypes DEF Next

-----------------------------------------------------------------------------
(* The round, and the order of the event channel. *)

LEMMA RoundStep ==
  ASSUME Types, RoundIsOver, [Next]_vars
  PROVE  RoundIsOver'
<1> USE DEF RoundIsOver, server, link, locals, round, retries, flags, environment
<1>1. CASE UNCHANGED vars
  BY <1>1 DEF vars, sessionVars
<1>2. CASE RuntimeApply
  BY <1>2 DEF RuntimeApply
<1>3. CASE Connect \/ Offline
  BY <1>3 DEF Connect, Offline, FactoryFails, BackoffFails, CancelledOffline
<1>4. CASE Refreshing
  BY <1>4 DEF Refreshing, TakeAnswer, MissAnswer, EndRefresh, RoundOver
<1>5. CASE Loop
  BY <1>5 DEF Loop, LoopCancelled, LoopRequested, LoopRefreshDue, HandleEvent, EventReady,
      EventAccount, EventLimits, EventTokens, EventNoise, EventEnded, Event, BeginRefresh
<1>6. CASE Handle
  BY <1>6 DEF Handle, RequestRefresh, Stop
<1>7. CASE Environment
  <2>1. CASE ServerAnswers
    BY <2>1 DEF ServerAnswers
  <2> QED BY <1>7, <2>1 DEF Environment, ServerSwitches, ServerMoves, ServerTalks, HandshakeDone,
                            LinkEnds, DataAges
<1> QED BY <1>1, <1>2, <1>3, <1>4, <1>5, <1>6, <1>7 DEF Next, SessionNext, Worker

(* The channel is left alone, loses its first notice or all of them, or gets *)
(* one more, whose version is the server's.                                  *)
ChannelMoves ==
  \/ events' = events
  \/ events # <<>> /\ events' = Tail(events)
  \/ events' = <<>>
  \/ \E e \in Notices : /\ events' = Append(events, e)
                        /\ e.kind \in VersionedKinds => e.version = version'

(* What the environment adds to the channel: one notice at most, of the     *)
(* server's version, and the end of the pipe only when the pipe ends.        *)
LEMMA Announcements ==
  ASSUME Types, Types', Environment
  PROVE  /\ UNCHANGED pc /\ version <= version'
         /\ \/ events' = events
            \/ /\ up
               /\ \E e \in Notices : /\ events' = Append(events, e)
                                     /\ e.kind \in VersionedKinds => e.version = version'
                                     /\ e.kind = "ended" => LinkEnds
<1> USE DEF server, link, environment
<1>1. version \in Versions /\ version' \in Versions
  BY DEF Types, CounterTypes
<1>2. CASE ServerSwitches
  <2>1. [kind |-> "account", version |-> version'] \in Notices
    BY <1>1, NoticesMade
  <2> QED BY <1>1, <1>2, <2>1 DEF ServerSwitches, Notify, Versions
<1>3. CASE ServerMoves
  <2>1. UNCHANGED pc /\ version <= version'
    BY <1>1, <1>3 DEF ServerMoves, Versions
  <2>2. CASE UNCHANGED events
    BY <2>1, <2>2
  <2>3. CASE ~UNCHANGED events
    <3>1. PICK ws \in SUBSET Offered(version') :
            Notify([kind |-> "limits", version |-> version', windows |-> ws])
      BY <1>3, <2>3 DEF ServerMoves
    <3>2. PICK e \in Notices : e = [kind |-> "limits", version |-> version', windows |-> ws]
      BY <1>1, NoticesMade DEF Offered
    <3>3. up /\ events' = Append(events, e) /\ e.version = version' /\ e.kind = "limits"
      BY <2>3, <3>1, <3>2 DEF Notify
    <3> QED BY <2>1, <3>3
  <2> QED BY <2>2, <2>3
<1>4. CASE ServerTalks
  <2>1. PICK k \in {"tokens", "noise"} : Notify([kind |-> k, version |-> version])
    BY <1>4 DEF ServerTalks
  <2>2. PICK e \in Notices : e = [kind |-> k, version |-> version]
    BY <1>1, NoticesMade
  <2>3. /\ up /\ events' = Append(events, e) /\ e.version = version /\ e.kind # "ended"
        /\ UNCHANGED <<pc, version>>
    BY <1>4, <2>1, <2>2 DEF ServerTalks, Notify
  <2> QED BY <1>1, <2>3 DEF Versions
<1>5. CASE HandshakeDone
  <2>1. [kind |-> "ready"] \in Notices /\ [kind |-> "ready"].kind \notin VersionedKinds \cup {"ended"}
    BY <1>1, NoticesMade DEF VersionedKinds
  <2> QED BY <1>1, <1>5, <2>1 DEF HandshakeDone, Notify, Versions
<1>6. CASE LinkEnds
  <2>1. [kind |-> "ended"] \in Notices /\ [kind |-> "ended"].kind \notin VersionedKinds
    BY <1>1, NoticesMade DEF VersionedKinds
  <2> QED BY <1>1, <1>6, <2>1 DEF LinkEnds, Versions
<1>7. CASE ServerAnswers \/ DataAges
  BY <1>1, <1>7 DEF ServerAnswers, DataAges, Versions
<1> QED BY <1>2, <1>3, <1>4, <1>5, <1>6, <1>7 DEF Environment

LEMMA ChannelStep ==
  ASSUME Types, [Next]_vars
  PROVE  ChannelMoves /\ version <= version'
<1> USE DEF server, link, locals, round, retries, flags, environment
<1>1. version \in Versions /\ version' \in Versions
  BY TypesStep DEF Types, CounterTypes
<1>3. CASE Worker \/ Handle \/ RuntimeApply \/ UNCHANGED vars
  <2>1. UNCHANGED version
    BY <1>3 DEF Worker, RuntimeApply, Connect, Offline, FactoryFails, BackoffFails, CancelledOffline,
        Refreshing, TakeAnswer, MissAnswer, EndRefresh, Loop, LoopCancelled, LoopRequested,
        LoopRefreshDue, HandleEvent, EventReady, EventAccount, EventLimits, EventTokens, EventNoise,
        EventEnded, Handle, RequestRefresh, Stop, vars, sessionVars
  <2>2. ChannelMoves
    BY <1>3 DEF Worker, RuntimeApply, Connect, Offline, FactoryFails, BackoffFails, CancelledOffline,
        Refreshing, TakeAnswer, MissAnswer, EndRefresh, Loop, LoopCancelled, LoopRequested,
        LoopRefreshDue, HandleEvent, EventReady, EventAccount, EventLimits, EventTokens, EventNoise,
        EventEnded, Handle, RequestRefresh, Stop, vars, sessionVars, Event, Taken, ChannelMoves,
        RoundOver
  <2> QED BY <1>1, <2>1, <2>2 DEF Versions
<1>4. CASE Environment
  BY <1>4, TypesStep, Announcements DEF ChannelMoves
<1> QED BY <1>3, <1>4 DEF Next, SessionNext

LEMMA OrderStep ==
  ASSUME Types, EventsInOrder, EventsArePast, [Next]_vars
  PROVE  /\ EventsInOrder' /\ EventsArePast'
         /\ \A f \in Data : f <= version /\ EventsFrom(f) => f <= version' /\ EventsFrom(f)'
<1> USE DEF EventsInOrder, EventsArePast, EventsFrom
<1>1. /\ ChannelMoves /\ version <= version' /\ version \in Nat /\ version' \in Nat
      /\ events \in Seq(Notices) /\ events' \in Seq(Notices)
  <2>1. Types' /\ ChannelMoves /\ version <= version'
    BY ChannelStep, TypesStep
  <2>2. \A v \in Versions : v \in Nat
    BY SessionAssumption DEF Versions
  <2> QED BY <2>1, <2>2 DEF Types, CounterTypes, ChannelTypes
<1>2. \A i \in DOMAIN events : events[i].kind \in VersionedKinds => events[i].version \in Nat
  BY <1>1, Elements, NoticeShape DEF Versions
<1>3. \A f \in Data : f \in Nat
  BY DEF Data, Versions, NoData
<1>4. CASE events' = events
  BY <1>1, <1>2, <1>3, <1>4
<1>5. CASE events' = <<>>
  BY <1>1, <1>3, <1>5
<1>6. CASE events # <<>> /\ events' = Tail(events)
  <2>1. \A i \in DOMAIN events' : i \in Nat /\ i + 1 \in DOMAIN events /\ events'[i] = events[i + 1]
    BY <1>1, <1>6, Rest, Elements
  <2>2. EventsInOrder'
    BY <2>1
  <2>3. EventsArePast'
    BY <1>1, <1>2, <2>1
  <2>4. \A f \in Data : f <= version /\ EventsFrom(f) => f <= version' /\ EventsFrom(f)'
    BY <1>1, <1>3, <2>1
  <2> QED BY <2>2, <2>3, <2>4
<1>7. ASSUME NEW e \in Notices, events' = Append(events, e),
             e.kind \in VersionedKinds => e.version = version'
      PROVE  /\ EventsInOrder' /\ EventsArePast'
             /\ \A f \in Data : f <= version /\ EventsFrom(f) => f <= version' /\ EventsFrom(f)'
  <2>1. /\ DOMAIN events = 1..Len(events) /\ DOMAIN events' = 1..(Len(events) + 1)
        /\ Len(events) \in Nat /\ events'[Len(events) + 1] = e
        /\ \A i \in DOMAIN events : events'[i] = events[i]
    BY <1>1, <1>7, Appended, Elements
  <2>2. EventsInOrder'
    <3> SUFFICES ASSUME NEW i \in DOMAIN events', NEW j \in DOMAIN events', i < j,
                        events'[i].kind \in VersionedKinds, events'[j].kind \in VersionedKinds
                 PROVE  events'[i].version <= events'[j].version
      OBVIOUS
    <3>1. i \in DOMAIN events /\ (j \in DOMAIN events \/ j = Len(events) + 1)
      BY <2>1
    <3> QED BY <1>1, <1>2, <1>7, <2>1, <3>1
  <2>3. EventsArePast'
    <3> SUFFICES ASSUME NEW i \in DOMAIN events', events'[i].kind \in VersionedKinds
                 PROVE  events'[i].version <= version'
      OBVIOUS
    <3>1. i \in DOMAIN events \/ i = Len(events) + 1
      BY <2>1
    <3> QED BY <1>1, <1>2, <1>7, <2>1, <3>1
  <2>4. ASSUME NEW f \in Data, f <= version, EventsFrom(f)
        PROVE  f <= version' /\ EventsFrom(f)'
    <3>1. f <= version'
      BY <1>1, <1>3, <2>4
    <3>2. ASSUME NEW i \in DOMAIN events', events'[i].kind \in VersionedKinds
          PROVE  events'[i].version >= f
      <4>1. i \in DOMAIN events \/ i = Len(events) + 1
        BY <2>1
      <4> QED BY <1>1, <1>3, <1>7, <2>1, <2>4, <3>1, <3>2, <4>1
    <3> QED BY <3>1, <3>2
  <2> QED BY <2>2, <2>3, <2>4
<1> QED BY <1>1, <1>4, <1>5, <1>6, <1>7 DEF ChannelMoves

-----------------------------------------------------------------------------
(* What the worker knows never falls below a floor. *)

LEMMA DataNumbers == \A v \in Data : v \in Nat
BY SessionAssumption DEF Data, Versions, NoData

LEMMA FromShapes ==
  ASSUME NEW d \in States, NEW v \in Data, NEW f \in Data, StateFrom(d, f), From(v, f)
  PROVE  /\ \A k \in Endpoints : StateFrom(Replace(d, k, v), f)
         /\ \A ws \in SUBSET Windows : StateFrom(MergeLimits(d, ws, v), f)
         /\ StateFrom([EmptyData EXCEPT !.account = v], f) /\ StateFrom([d EXCEPT !.tokens = v], f)
<1> USE DEF States, StateFrom
<1>1. From(NoData, f)
  BY DEF From
<1>2. \A k \in Endpoints : StateFrom(Replace(d, k, v), f)
  BY <1>1 DEF Endpoints, Replace
<1>3. \A ws \in SUBSET Windows : StateFrom(MergeLimits(d, ws, v), f)
  BY DEF MergeLimits
<1>4. StateFrom([EmptyData EXCEPT !.account = v], f) /\ StateFrom([d EXCEPT !.tokens = v], f)
  BY <1>1 DEF EmptyData
<1> QED BY <1>2, <1>3, <1>4

LEMMA EmptyFrom == \A f \in Data : StateFrom(EmptyData, f) /\ \A k \in Endpoints : From(NoAnswers[k], f)
BY DEF StateFrom, EmptyData, From, NoAnswers

(* What one step makes of the worker's data and of the answers it waits for. *)
LEMMA DataStep ==
  ASSUME Types, RoundIsOver, SessionNext, NEW f \in Data, Known(f)
  PROVE  StateFrom(data, f)' /\ \A k \in Endpoints : From(answers'[k], f)
<1> USE DEF server, link, locals, round, retries, flags, environment, Known
<1>1. StateFrom(data, f) /\ \A k \in Endpoints : From(answers[k], f) /\ From(NoData, f)
  BY DEF From
<1>2. data \in States /\ answers \in [Endpoints -> Data] /\ todo \in Seq(Endpoints)
  BY DEF Types, WorkerTypes, ChannelTypes
<1>3. StateFrom(EmptyData, f) /\ \A k \in Endpoints : From(NoAnswers[k], f)
  BY EmptyFrom
<1>4. CASE Connect \/ Offline
  BY <1>1, <1>3, <1>4 DEF Connect, Offline, FactoryFails, BackoffFails, CancelledOffline, FreshLocals
<1>5. CASE TakeAnswer
  <2>1. Head(todo) \in Endpoints /\ answers[Head(todo)] \in Data
    BY <1>2, <1>5, Rest DEF TakeAnswer
  <2>2. StateFrom(data, f)'
    BY <1>1, <1>2, <1>5, <2>1, FromShapes DEF TakeAnswer
  <2>3. \A k \in Endpoints : answers'[k] = answers[k] \/ answers'[k] = NoData
    BY <1>2, <1>5, <2>1 DEF TakeAnswer
  <2> QED BY <1>1, <2>2, <2>3
<1>6. CASE MissAnswer \/ EndRefresh
  BY <1>1, <1>3, <1>6 DEF MissAnswer, EndRefresh, RoundOver
<1>7. CASE LoopCancelled \/ LoopRequested \/ LoopRefreshDue
  BY <1>1, <1>3, <1>7 DEF LoopCancelled, LoopRequested, LoopRefreshDue, FreshLocals, BeginRefresh
<1>8. CASE HandleEvent
  <2>1. events # <<>> /\ pc = "loop"
    BY <1>8 DEF HandleEvent, EventReady, EventAccount, EventLimits, EventTokens, EventNoise, EventEnded, Event
  <2>2. 1 \in DOMAIN events /\ events[1] = Head(events) /\ Head(events) \in Notices
    BY <2>1, Rest DEF Types, ChannelTypes
  <2>3. Head(events).kind \in VersionedKinds => Head(events).version \in Data /\ From(Head(events).version, f)
    BY <2>2, NoticeShape DEF EventsFrom, From, Data
  <2>4. answers' = answers \/ answers' = NoAnswers
    BY <1>8 DEF HandleEvent, EventReady, EventAccount, EventLimits, EventTokens, EventNoise, EventEnded, BeginRefresh
  <2>5. CASE EventReady \/ EventNoise
    BY <1>1, <1>3, <2>4, <2>5 DEF EventReady, EventNoise
  <2>6. CASE EventEnded
    BY <1>1, <1>3, <2>4, <2>6 DEF EventEnded, FreshLocals
  <2>7. CASE EventAccount
    <3>1. StateFrom(data, f)'
      BY <1>1, <1>2, <2>3, <2>7, FromShapes DEF EventAccount, Event, VersionedKinds
    <3> QED BY <1>1, <1>3, <2>4, <3>1
  <2>8. CASE EventLimits
    <3>1. Head(events).windows \in SUBSET Windows
      BY <2>2, <2>8, NoticeShape DEF EventLimits, Event
    <3>2. StateFrom(data, f)'
      BY <1>1, <1>2, <2>3, <2>8, <3>1, FromShapes DEF EventLimits, Event, VersionedKinds
    <3> QED BY <1>1, <1>3, <2>4, <3>2
  <2>9. CASE EventTokens
    <3>1. StateFrom(data, f)'
      BY <1>1, <1>2, <2>3, <2>9, FromShapes DEF EventTokens, Event, VersionedKinds
    <3> QED BY <1>1, <1>3, <2>4, <3>1
  <2> QED BY <1>8, <2>5, <2>6, <2>7, <2>8, <2>9 DEF HandleEvent
<1>9. CASE Handle
  BY <1>1, <1>9 DEF Handle, RequestRefresh, Stop
<1>10. CASE ServerAnswers
  <2>1. PICK i \in DOMAIN todo : answers' = [answers EXCEPT ![todo[i]] = version]
    BY <1>10 DEF ServerAnswers
  <2>2. From(version, f)
    BY DEF From, Types, CounterTypes
  <2>3. \A k \in Endpoints : answers'[k] = answers[k] \/ answers'[k] = version
    BY <1>2, <2>1
  <2> QED BY <1>1, <1>10, <2>2, <2>3 DEF ServerAnswers
<1>11. CASE Environment /\ ~ServerAnswers
  BY <1>1, <1>11 DEF Environment, ServerSwitches, ServerMoves, ServerTalks, HandshakeDone, LinkEnds, DataAges
<1> QED BY <1>4, <1>5, <1>6, <1>7, <1>8, <1>9, <1>10, <1>11 DEF SessionNext, Worker, Loop, Refreshing

LEMMA KnownStep ==
  ASSUME LeakInv, [Next]_vars, NEW f \in Data, Known(f)
  PROVE  Known(f)'
<1>1. Types /\ RoundIsOver /\ EventsInOrder /\ EventsArePast
  BY DEF LeakInv
<1>2. f <= version' /\ EventsFrom(f)'
  BY <1>1, OrderStep DEF Known
<1>3. StateFrom(data, f)' /\ \A k \in Endpoints : From(answers'[k], f)
  <2>1. CASE SessionNext
    BY <1>1, <2>1, DataStep
  <2>2. CASE RuntimeApply \/ UNCHANGED vars
    <3>1. data' = data /\ answers' = answers
      BY <2>2 DEF RuntimeApply, vars, sessionVars, link, locals
    <3> QED BY <3>1 DEF Known, StateFrom
  <2> QED BY <2>1, <2>2 DEF Next
<1> QED BY <1>2, <1>3 DEF Known

(* An account reset that is taken from the channel is a floor from then on. *)
LEMMA ResetIsFloor ==
  ASSUME LeakInv, EventAccount, UNCHANGED <<monitor, since>>,
         NEW v, v = Head(events).version
  PROVE  v \in Data /\ Known(v)'
<1>1. Types /\ RoundIsOver /\ EventsInOrder /\ EventsArePast /\ Types'
  BY TypesStep DEF LeakInv, Next, SessionNext, Worker, Loop, HandleEvent
<1>2. /\ events # <<>> /\ Head(events).kind = "account" /\ events' = Tail(events)
      /\ pc = "loop" /\ version' = version
  BY DEF EventAccount, Event, Taken, server
<1>3. /\ events \in Seq(Notices) /\ 1 \in DOMAIN events /\ events[1] = Head(events)
      /\ \A i \in DOMAIN events' : i \in Nat /\ i + 1 \in DOMAIN events /\ events'[i] = events[i + 1] /\ 1 < i + 1
  BY <1>1, <1>2, Rest, Elements DEF Types, ChannelTypes
<1>4. v \in Data /\ v \in Versions
  BY <1>2, <1>3, Elements, NoticeShape DEF Data, VersionedKinds
<1>5. v <= version'
  BY <1>1, <1>2, <1>3 DEF EventsArePast, VersionedKinds
<1>6. EventsFrom(v)'
  <2> SUFFICES ASSUME NEW i \in DOMAIN events', events'[i].kind \in VersionedKinds
               PROVE  events'[i].version >= v
    BY DEF EventsFrom
  <2>1. events[1].version <= events[i + 1].version
    BY <1>1, <1>2, <1>3 DEF EventsInOrder, VersionedKinds
  <2>2. v \in Nat /\ events'[i].version \in Nat
    BY <1>1, <1>4, DataNumbers, Elements, NoticeShape DEF Types, ChannelTypes, Data
  <2> QED BY <1>3, <2>1, <2>2
<1>7. StateFrom(data, v)'
  <2>1. data' = [EmptyData EXCEPT !.account = v]
    BY DEF EventAccount
  <2>2. From(v, v) /\ StateFrom(EmptyData, v)
    BY <1>4, DataNumbers, EmptyFrom DEF From
  <2>3. StateFrom([EmptyData EXCEPT !.account = v], v)
    BY <1>4, <2>2, EmptyShapes, FromShapes
  <2> QED BY <2>1, <2>3 DEF StateFrom
<1>8. \A k \in Endpoints : From(answers'[k], v)
  <2>1. answers' = NoAnswers
    BY <1>1, <1>2 DEF EventAccount, BeginRefresh, RoundIsOver
  <2> QED BY <1>4, <2>1, EmptyFrom
<1> QED BY <1>4, <1>5, <1>6, <1>7, <1>8 DEF Known

-----------------------------------------------------------------------------
(* What is published, and what becomes a floor. *)

LEMMA NoDataKnown ==
  ASSUME Types
  PROVE  Known(NoData)
<1>1. \A v \in Data : From(v, NoData)
  BY DataNumbers DEF From, NoData
<1>2. version \in Nat /\ NoData <= version
  BY SessionAssumption DEF Types, CounterTypes, Versions, NoData
<1>3. EventsFrom(NoData)
  <2>1. \A i \in DOMAIN events : events[i] \in Notices
    BY Elements DEF Types, ChannelTypes
  <2>2. \A e \in Notices : e.kind \in VersionedKinds => e.version \in Nat /\ e.version >= NoData
    BY NoticeShape, SessionAssumption DEF Versions, NoData
  <2> QED BY <2>1, <2>2 DEF EventsFrom
<1>4. StateFrom(data, NoData) /\ \A k \in Endpoints : From(answers[k], NoData)
  BY <1>1 DEF Types, WorkerTypes, ChannelTypes, States, StateFrom
<1> QED BY <1>2, <1>3, <1>4 DEF Known

LEMMA SnapshotFrom ==
  ASSUME NEW d, NEW st, NEW h, NEW fr, NEW r, NEW z
  PROVE  /\ Snapshot(d, st, h, fr, r, z).reset = z
         /\ \A f : UpdateFrom(Snapshot(d, st, h, fr, r, z), f) <=> StateFrom(d, f)
BY DEF Snapshot, UpdateFrom, StateFrom

LEMMA QueueAppended ==
  ASSUME NEW q \in Seq(Updates), NEW u \in Updates, NEW f, QueueFrom(q, f),
         UpdateFrom(u, f), UpdateFrom(u, u.reset), \A g \in Resets(q) : UpdateFrom(u, g)
  PROVE  QueueFrom(Append(q, u), f) /\ Resets(Append(q, u)) = Resets(q) \cup {u.reset}
<1> DEFINE r == Append(q, u)
<1>1. /\ DOMAIN q = 1..Len(q) /\ DOMAIN r = 1..(Len(q) + 1) /\ Len(q) \in Nat
      /\ r[Len(q) + 1] = u /\ \A i \in DOMAIN q : r[i] = q[i]
  BY Appended, Elements
<1> HIDE DEF r
<1>2. \A i \in DOMAIN r : i \in DOMAIN q \/ i = Len(q) + 1
  BY <1>1
<1>3. \A i \in DOMAIN r : UpdateFrom(r[i], f)
  BY <1>1, <1>2 DEF QueueFrom
<1>4. ASSUME NEW i \in DOMAIN r, NEW j \in DOMAIN r, i <= j
      PROVE  UpdateFrom(r[j], r[i].reset)
  <2>1. CASE j \in DOMAIN q
    <3>1. i \in DOMAIN q
      BY <1>1, <1>4, <2>1
    <3> QED BY <1>1, <1>4, <2>1, <3>1 DEF QueueFrom
  <2>2. CASE j = Len(q) + 1 /\ i \in DOMAIN q
    BY <1>1, <2>2 DEF Resets
  <2>3. CASE j = Len(q) + 1 /\ i = Len(q) + 1
    BY <1>1, <2>3
  <2> QED BY <1>2, <2>1, <2>2, <2>3
<1>5. Resets(r) = Resets(q) \cup {u.reset}
  BY <1>1, <1>2 DEF Resets
<1> QED BY <1>3, <1>4, <1>5 DEF QueueFrom, r

LEMMA ResetsAreData ==
  ASSUME NEW q \in Seq(Updates)
  PROVE  Resets(q) \subseteq Data
<1>1. \A i \in DOMAIN q : q[i] \in Updates
  BY Elements
<1> QED BY <1>1 DEF Resets, Updates

(* u may join the queue: it is above every floor, its own reset included, *)
(* and that reset is a floor the worker keeps to.                         *)
MayJoin(u) ==
  /\ u \in Updates /\ UpdateFrom(u, u.reset)
  /\ \A f \in Data : Known(f) => UpdateFrom(u, f)

LEMMA JoinStep ==
  ASSUME LeakInv, UNCHANGED since, NEW u, MayJoin(u), updates' = Append(updates, u)
  PROVE  QueueFrom(updates, since)' /\ Resets(updates') = Resets(updates) \cup {u.reset}
<1>1. updates \in Seq(Updates) /\ since \in Data /\ Resets(updates) \subseteq Data
  BY ResetsAreData DEF LeakInv, Types, ChannelTypes, RuntimeTypes
<1>2. \A f \in Resets(updates) \cup {since} : UpdateFrom(u, f)
  BY <1>1 DEF LeakInv, AboveFloors, Floors, MayJoin
<1> QED BY <1>1, <1>2, QueueAppended DEF LeakInv, MayJoin

(* Snapshots of the worker's data, without a reset of their own. *)
LEMMA PlainJoins ==
  ASSUME LeakInv, [Next]_vars, NEW u \in Updates, NEW d \in {data, data'},
         UNCHANGED <<monitor, since>>, u.reset \in {NoData, resetBy},
         \A f : UpdateFrom(u, f) <=> StateFrom(d, f)
  PROVE  MayJoin(u)
<1>1. Types /\ Types' /\ Known(resetBy) /\ Known(NoData) /\ resetBy \in Data /\ NoData \in Data
  BY TypesStep, NoDataKnown, EmptyShapes DEF LeakInv, AboveFloors, Floors, Types, WorkerTypes
<1>2. \A f \in Data : Known(f) => StateFrom(d, f)
  BY KnownStep DEF Known
<1> QED BY <1>1, <1>2 DEF MayJoin

LEMMA PublishStep ==
  ASSUME LeakInv, SessionNext, UNCHANGED <<monitor, since>>
  PROVE  /\ QueueFrom(updates, since)'
         /\ \A f \in Resets(updates') : f \in Floors \/ f = NoData \/ (EventAccount /\ f = Head(events).version)
<1> USE DEF server, link, locals, round, retries, flags, environment
<1>1. /\ Types /\ [Next]_vars /\ Types' /\ updates \in Seq(Updates)
      /\ QueueFrom(updates, since) /\ Resets(updates) \subseteq Floors
  BY TypesStep DEF LeakInv, Next, Floors, Types, ChannelTypes
<1>2. CASE updates' = updates
  BY <1>1, <1>2 DEF Floors
<1>3. ASSUME NEW d \in {data, data'}, NEW st \in Statuses, NEW h \in Healths, NEW fr \in BOOLEAN,
             NEW r \in Nat, NEW z \in {NoData, resetBy}, Publish(Snapshot(d, st, h, fr, r, z))
      PROVE  QueueFrom(updates, since)' /\ Resets(updates') \subseteq Floors \cup {NoData}
  <2>1. d \in States /\ z \in Data
    BY <1>1, EmptyShapes DEF Types, WorkerTypes
  <2>2. PICK u \in Updates : u = Snapshot(d, st, h, fr, r, z)
    BY <2>1, SnapshotShape
  <2>3. MayJoin(u)
    <3>1. u.reset = z /\ \A f : UpdateFrom(u, f) <=> StateFrom(d, f)
      BY <2>2, SnapshotFrom
    <3> QED BY <1>1, <3>1, PlainJoins
  <2>4. updates' = Append(updates, u)
    BY <1>3, <2>2 DEF Publish
  <2> QED BY <1>1, <2>2, <2>3, <2>4, JoinStep, SnapshotFrom DEF Floors
<1>4. ASSUME NEW v, v = Head(events).version, EventAccount,
             NEW st \in Statuses, NEW h \in Healths, NEW fr \in BOOLEAN, NEW r \in Nat,
             Publish(Snapshot(data', st, h, fr, r, v))
      PROVE  QueueFrom(updates, since)' /\ Resets(updates') \subseteq Floors \cup {v}
  <2>1. v \in Data /\ Known(v)'
    BY <1>4, ResetIsFloor
  <2>2. PICK u \in Updates : u = Snapshot(data', st, h, fr, r, v)
    BY <1>1, <2>1, SnapshotShape DEF Types, WorkerTypes
  <2>3. MayJoin(u)
    <3>1. u.reset = v /\ \A f : UpdateFrom(u, f) <=> StateFrom(data', f)
      BY <2>2, SnapshotFrom
    <3>2. \A f \in Data : Known(f) => StateFrom(data', f)
      BY <1>1, KnownStep DEF Known
    <3> QED BY <2>1, <3>1, <3>2 DEF MayJoin, Known
  <2>4. updates' = Append(updates, u)
    BY <1>4, <2>2 DEF Publish
  <2> QED BY <1>1, <2>2, <2>3, <2>4, JoinStep, SnapshotFrom
<1>5. /\ data \in States /\ tracker \in Statuses /\ revision \in Nat /\ revision' \in Nat
      /\ health' \in Healths /\ health \in Healths /\ tracker' \in Statuses
      /\ AllCached(tracker) \in Statuses /\ FreshnessFor \in BOOLEAN
      /\ succeeded \in BOOLEAN /\ (succeeded \/ FreshnessFor) \in BOOLEAN /\ TRUE \in BOOLEAN
      /\ FALSE \in BOOLEAN /\ {"Disconnected", "Healthy", "Stopped", "Degraded"} \subseteq Healths
  BY <1>1, CachedStatuses DEF Types, WorkerTypes, CounterTypes, SwitchTypes, FreshnessFor, Healths
<1>6. CASE FactoryFails
  <2>1. HealthOnly \in Updates /\ HealthOnly.reset = NoData /\ \A f : UpdateFrom(HealthOnly, f)
    BY EmptyShapes DEF HealthOnly, Snapshot, UpdateFrom, EmptyData, From
  <2>2. /\ QueueFrom(Append(updates, HealthOnly), since)
        /\ Resets(Append(updates, HealthOnly)) = Resets(updates) \cup {NoData}
        /\ Append(updates, HealthOnly) \in Seq(Updates)
    BY <1>1, <2>1, QueueAppended, Appended
  <2>3. /\ QueueFrom(Append(Append(updates, HealthOnly), HealthOnly), since)
        /\ Resets(Append(Append(updates, HealthOnly), HealthOnly)) = Resets(updates) \cup {NoData}
    BY <2>1, <2>2, QueueAppended
  <2>4. updates \o <<HealthOnly, HealthOnly>> = Append(Append(updates, HealthOnly), HealthOnly)
    BY <1>1, <2>1
  <2>5. \/ updates' = Append(updates, HealthOnly)
        \/ updates' = Append(Append(updates, HealthOnly), HealthOnly)
    BY <1>6, <2>4 DEF FactoryFails, Publish
  <2>6. UNCHANGED since
    OBVIOUS
  <2> QED BY <1>1, <2>2, <2>3, <2>5, <2>6
<1>7. CASE BackoffFails
  BY <1>3, <1>5, <1>7 DEF BackoffFails
<1>8. CASE EndRefresh
  BY <1>3, <1>5, <1>8 DEF EndRefresh
<1>9. CASE LoopCancelled
  BY <1>3, <1>5, <1>9 DEF LoopCancelled
<1>10. CASE LoopRefreshDue
  BY <1>2, <1>3, <1>5, <1>10 DEF LoopRefreshDue
<1>11. CASE EventAccount
  <2>1. PICK v : v = Head(events).version
    OBVIOUS
  <2>2. updates' = updates \/ Publish(Snapshot(data', tracker', "Healthy", TRUE, revision', v))
    BY <1>11, <2>1 DEF EventAccount
  <2> QED BY <1>1, <1>2, <1>4, <1>5, <1>11, <2>1, <2>2
<1>12. CASE EventLimits
  BY <1>3, <1>5, <1>12 DEF EventLimits
<1>13. CASE EventTokens
  BY <1>3, <1>5, <1>13 DEF EventTokens
<1>14. CASE EventNoise
  BY <1>3, <1>5, <1>14 DEF EventNoise
<1>15. CASE EventEnded
  BY <1>3, <1>5, <1>15 DEF EventEnded
<1>16. CASE \/ Connect \/ CancelledOffline \/ TakeAnswer \/ MissAnswer \/ LoopRequested
           \/ EventReady \/ Handle \/ Environment
  <2>1. updates' = updates
    BY <1>16 DEF Connect, CancelledOffline, TakeAnswer, MissAnswer, LoopRequested, EventReady, Handle,
        RequestRefresh, Stop, Environment, ServerSwitches, ServerMoves, ServerTalks, ServerAnswers,
        HandshakeDone, LinkEnds, DataAges
  <2> QED BY <1>2, <2>1
<1> QED BY <1>6, <1>7, <1>8, <1>9, <1>10, <1>11, <1>12, <1>13, <1>14, <1>15, <1>16
        DEF SessionNext, Worker, Offline, Refreshing, Loop, HandleEvent

-----------------------------------------------------------------------------
(* The runtime takes an update. *)

LEMMA AppliedFrom ==
  ASSUME NEW m \in Monitors, NEW u \in Updates, NEW f \in Data, UpdateFrom(u, f),
         MonitorFrom(m, f) \/ u.reset # NoData
  PROVE  MonitorFrom(ApplySessionUpdate(m, u), f)
<1> DEFINE reset    == IF u.reset # NoData THEN ResetAccountScopedState(m) ELSE m
           official == [reset EXCEPT !.official = u.official]
           limits   == IF u.official.status["quota"] = "live" THEN ApplyAuthoritative(official, u)
                                                               ELSE official
           tokens   == ApplyTokenUsage(limits, u)
<1>1. reset \in Monitors /\ MonitorFrom(reset, f)
  BY EmptyShapes DEF ResetAccountScopedState, Monitors, MonitorFrom, EmptyMonitor, EmptyOfficial,
                     EmptyTokens, UnknownWindow, From
<1>2. official \in Monitors /\ MonitorFrom(official, f)
  BY <1>1 DEF Monitors, Updates, MonitorFrom, UpdateFrom
<1> HIDE DEF official
<1>3. limits \in Monitors /\ MonitorFrom(limits, f)
  <2>1. ASSUME NEW w \in Windows
        PROVE  LET x == FromAuthoritative(u.windows[w], official.windows[w]) IN
               x \in WindowStates /\ From(x.value, f) /\ From(x.lastKnown, f)
    BY <1>2 DEF FromAuthoritative, MonitorFrom, UpdateFrom, From, Monitors, Updates, WindowStates,
                Data, NoData
  <2> QED BY <1>2, <2>1 DEF ApplyAuthoritative, MonitorFrom, Monitors, Updates
<1> HIDE DEF limits
<1>4. tokens \in Monitors /\ MonitorFrom(tokens, f)
  BY <1>3 DEF ApplyTokenUsage, Monitors, Updates, MonitorFrom, UpdateFrom
<1> HIDE DEF tokens
<1>5. MonitorFrom(AuthoritativeUnavailable(tokens), f)
  BY <1>4 DEF AuthoritativeUnavailable, Unavailable, Monitors, OfficialStates, MonitorFrom, From
<1> QED BY <1>4, <1>5 DEF ApplySessionUpdate, official, limits, tokens

LEMMA SameFrom ==
  ASSUME NEW u \in Updates, NEW b
  PROVE  /\ [u EXCEPT !.late = b].reset = u.reset
         /\ \A f : UpdateFrom([u EXCEPT !.late = b], f) <=> UpdateFrom(u, f)
BY DEF Updates, UpdateFrom

LEMMA ApplyStep ==
  ASSUME LeakInv, RuntimeApply
  PROVE  /\ QueueFrom(updates, since)' /\ MonitorFrom(monitor, since)'
         /\ Resets(updates') \cup {since'} \subseteq Floors
<1> DEFINE u == Head(updates)
<1>1. /\ Types /\ updates \in Seq(Updates) /\ updates # <<>> /\ u \in Updates /\ u = updates[1]
      /\ 1 \in DOMAIN updates /\ since \in Data /\ monitor \in Monitors
  BY Rest DEF LeakInv, RuntimeApply, Types, ChannelTypes, RuntimeTypes
<1>2. \A i \in DOMAIN updates' :
        /\ i \in Nat /\ i + 1 \in DOMAIN updates /\ 1 <= i + 1
        /\ updates'[i].reset = updates[i + 1].reset
        /\ \A f : UpdateFrom(updates'[i], f) <=> UpdateFrom(updates[i + 1], f)
  <2>1. /\ Len(Tail(updates)) \in Nat /\ DOMAIN Tail(updates) = 1..Len(Tail(updates))
        /\ \A i \in DOMAIN Tail(updates) : Tail(updates)[i] = updates[i + 1] /\ i + 1 \in DOMAIN updates
    BY <1>1, Rest, Elements
  <2>2. DOMAIN updates' = 1..Len(Tail(updates))
    BY DEF RuntimeApply
  <2> SUFFICES ASSUME NEW i \in DOMAIN updates'
               PROVE  /\ i \in Nat /\ i + 1 \in DOMAIN updates /\ 1 <= i + 1
                      /\ updates'[i].reset = updates[i + 1].reset
                      /\ \A f : UpdateFrom(updates'[i], f) <=> UpdateFrom(updates[i + 1], f)
    OBVIOUS
  <2>3. updates[i + 1] \in Updates
    BY <1>1, <2>1, <2>2, Elements
  <2>4. PICK b : updates'[i] = [updates[i + 1] EXCEPT !.late = b]
    BY <2>1, <2>2 DEF RuntimeApply
  <2>5. /\ updates'[i].reset = updates[i + 1].reset
        /\ \A f : UpdateFrom(updates'[i], f) <=> UpdateFrom(updates[i + 1], f)
    BY <2>3, <2>4, SameFrom
  <2>6. i \in Nat /\ i + 1 \in DOMAIN updates /\ 1 <= i + 1
    BY <2>1, <2>2
  <2> QED BY <2>5, <2>6
<1>3. since' = since \/ (since' = u.reset /\ u.reset # NoData)
  BY DEF RuntimeApply
<1>4. QueueFrom(updates, since)'
  <2>1. \A i \in DOMAIN updates' : UpdateFrom(updates'[i], since')
    BY <1>1, <1>2, <1>3 DEF LeakInv, QueueFrom
  <2>2. \A i, j \in DOMAIN updates' : i <= j => UpdateFrom(updates'[j], updates'[i].reset)
    BY <1>2 DEF LeakInv, QueueFrom
  <2> QED BY <2>1, <2>2 DEF QueueFrom
<1>5. MonitorFrom(monitor, since)'
  <2>1. monitor' = ApplySessionUpdate(monitor, u)
    BY DEF RuntimeApply
  <2>2. u.reset \in Data
    BY <1>1 DEF Updates
  <2>3. UpdateFrom(u, since) /\ UpdateFrom(u, u.reset) /\ MonitorFrom(monitor, since)
    BY <1>1 DEF LeakInv, QueueFrom
  <2>4. CASE since' = since
    <3>1. MonitorFrom(ApplySessionUpdate(monitor, u), since)
      BY <1>1, <2>3, AppliedFrom
    <3> QED BY <2>1, <2>4, <3>1 DEF MonitorFrom
  <2>5. CASE since' = u.reset /\ u.reset # NoData
    <3>1. MonitorFrom(ApplySessionUpdate(monitor, u), u.reset)
      BY <1>1, <2>2, <2>3, <2>5, AppliedFrom
    <3> QED BY <2>1, <2>5, <3>1 DEF MonitorFrom
  <2> QED BY <1>3, <2>4, <2>5
<1>6. Resets(updates') \cup {since'} \subseteq Floors
  BY <1>1, <1>2, <1>3 DEF Resets, Floors
<1> QED BY <1>4, <1>5, <1>6

LEMMA LeakInit == Init => LeakInv
<1> SUFFICES ASSUME Init PROVE LeakInv
  OBVIOUS
<1>1. Types
  BY TypesInit
<1>2. RoundIsOver /\ EventsInOrder /\ EventsArePast
  BY DEF Init, SessionInit, RoundIsOver, EventsInOrder, EventsArePast
<1>3. AboveFloors
  <2>1. Floors = {NoData}
    BY DEF Init, SessionInit, Floors, Resets
  <2> QED BY <1>1, <2>1, NoDataKnown DEF AboveFloors
<1>4. QueueFrom(updates, since) /\ MonitorFrom(monitor, since)
  BY DEF Init, SessionInit, QueueFrom, MonitorFrom, EmptyMonitor, EmptyOfficial, EmptyTokens,
         UnknownWindow, From
<1> QED BY <1>1, <1>2, <1>3, <1>4 DEF LeakInv

LEMMA LeakStep ==
  ASSUME LeakInv, [Next]_vars
  PROVE  LeakInv'
<1> USE DEF server, link, locals, round, retries, flags, environment
<1>1. Types /\ Types' /\ RoundIsOver' /\ EventsInOrder' /\ EventsArePast'
  BY TypesStep, RoundStep, OrderStep DEF LeakInv
<1>2. /\ QueueFrom(updates, since)' /\ MonitorFrom(monitor, since)'
      /\ \A f \in Resets(updates') \cup {since'} :
           f \in Floors \/ f = NoData \/ (EventAccount /\ UNCHANGED <<monitor, since>> /\ f = Head(events).version)
  <2>1. CASE RuntimeApply
    BY <2>1, ApplyStep
  <2>2. CASE SessionNext /\ UNCHANGED <<monitor, since>>
    <3>1. MonitorFrom(monitor, since)' /\ since' \in Floors
      BY <2>2 DEF LeakInv, MonitorFrom, Floors
    <3> QED BY <2>2, <3>1, PublishStep
  <2>3. CASE UNCHANGED vars
    BY <2>3 DEF vars, sessionVars, LeakInv, MonitorFrom, QueueFrom, UpdateFrom, Floors, Resets
  <2> QED BY <2>1, <2>2, <2>3 DEF Next
<1>3. \/ resetBy' \in {resetBy, NoData}
      \/ EventAccount /\ UNCHANGED <<monitor, since>> /\ resetBy' = Head(events).version
  BY DEF Next, SessionNext, Worker, RuntimeApply, Connect, Offline, FactoryFails, BackoffFails,
      CancelledOffline, Refreshing, TakeAnswer, MissAnswer, EndRefresh, RoundOver, Loop,
      LoopCancelled, LoopRequested, LoopRefreshDue, HandleEvent, EventReady, EventAccount,
      EventLimits, EventTokens, EventNoise, EventEnded, BeginRefresh, Handle, RequestRefresh, Stop,
      Environment, ServerSwitches, ServerMoves, ServerTalks, ServerAnswers, HandshakeDone, LinkEnds,
      DataAges, vars, sessionVars
<1>4. ASSUME NEW f \in Floors' PROVE Known(f)'
  <2>1. \/ f \in Floors \/ f = NoData
        \/ EventAccount /\ UNCHANGED <<monitor, since>> /\ f = Head(events).version
    BY <1>2, <1>3, <1>4 DEF Floors
  <2>2. Floors \subseteq Data
    BY <1>1, ResetsAreData DEF Floors, Types, ChannelTypes, WorkerTypes, RuntimeTypes
  <2>3. CASE f \in Floors
    BY <2>2, <2>3, KnownStep DEF LeakInv, AboveFloors
  <2>4. CASE f = NoData
    BY <1>1, <2>4, NoDataKnown, KnownStep, EmptyShapes
  <2>5. CASE EventAccount /\ UNCHANGED <<monitor, since>> /\ f = Head(events).version
    BY <2>5, ResetIsFloor
  <2> QED BY <2>1, <2>3, <2>4, <2>5
<1> QED BY <1>1, <1>2, <1>4 DEF LeakInv, AboveFloors

(* Nothing read before an account reset that was applied is held by the     *)
(* monitor, whatever was queued, for all versions, connections and queues.   *)
THEOREM ResetLeavesNothing == Spec => []NoLeakAcrossReset
<1>1. LeakInv => NoLeakAcrossReset
  BY DEF LeakInv, MonitorFrom, From, NoLeakAcrossReset, HeldData
<1> QED BY <1>1, LeakInit, LeakStep, PTL DEF Spec

-----------------------------------------------------------------------------
(* With no connection the last thing the runtime was or will be told is that *)
(* the source is not healthy.                                                *)
NotConnected == pc \in {"factory", "backoff", "stopped"}
DarkAhead == NotConnected => IF updates = <<>> THEN NothingShown
                                               ELSE ~Healthy(updates[Len(updates)])

(* What is left of the two budgets of failed attempts. *)
RetriesCounted ==
  MaxAttempts # 0 =>
    /\ failures <= 2 * MaxAttempts
    /\ pc = "factory" => attempt <= MaxAttempts /\ failures <= MaxAttempts + attempt - 1
    /\ pc \in {"loop", "refresh"} => retry = 0 /\ failures = 0
    /\ pc = "backoff" => failures <= retry /\ retry < MaxAttempts

DarkInv == Types /\ DarkAhead /\ RetriesCounted

Dark(m) == ShownData(m) = {} /\ \A k \in Endpoints : m.official.status[k] # "live"

LEMMA UnhealthyIsDark ==
  ASSUME NEW m \in Monitors, NEW u \in Updates, ~Healthy(u)
  PROVE  Dark(ApplySessionUpdate(m, u))
<1>1. PICK n : ApplySessionUpdate(m, u) = AuthoritativeUnavailable(n) /\ n \in Monitors
  <2> DEFINE reset    == IF u.reset # NoData THEN ResetAccountScopedState(m) ELSE m
             official == [reset EXCEPT !.official = u.official]
             limits   == IF u.official.status["quota"] = "live" THEN ApplyAuthoritative(official, u)
                                                                 ELSE official
             tokens   == ApplyTokenUsage(limits, u)
  <2>1. official \in Monitors
    BY EmptyShapes DEF ResetAccountScopedState, Monitors, Updates
  <2> HIDE DEF official
  <2>2. limits \in Monitors
    <3>1. \A w \in Windows : FromAuthoritative(u.windows[w], official.windows[w]) \in WindowStates
      BY <2>1 DEF FromAuthoritative, Monitors, Updates, WindowStates, Data, NoData
    <3> QED BY <2>1, <3>1 DEF ApplyAuthoritative, Monitors, Updates
  <2> HIDE DEF limits
  <2>3. tokens \in Monitors
    BY <2>2 DEF ApplyTokenUsage, Monitors, Updates
  <2> HIDE DEF tokens
  <2> QED BY <2>3 DEF ApplySessionUpdate, tokens, limits, official
<1>2. \A w \in Windows : AuthoritativeUnavailable(n).windows[w].presence = "Unknown"
  BY <1>1 DEF AuthoritativeUnavailable, Unavailable, Monitors
<1>3. \A k \in Endpoints : AuthoritativeUnavailable(n).official.status[k] # "live"
  BY <1>1, CachedStatuses DEF AuthoritativeUnavailable, Monitors, OfficialStates
<1> QED BY <1>1, <1>2, <1>3 DEF Dark, ShownData, Visible, Endpoints

LEMMA AppendedLast ==
  ASSUME NEW q \in Seq(Updates), NEW u \in Updates, NEW r, r = Append(q, u)
  PROVE  r # <<>> /\ r[Len(r)] = u
BY Appended, Elements

LEMMA UnhealthySnapshot ==
  ASSUME NEW d \in States, NEW st \in Statuses, NEW h \in {"Disconnected", "Stopped"}, NEW fr \in BOOLEAN,
         NEW r \in Nat, Types, Publish(Snapshot(d, st, h, fr, r, NoData))
  PROVE  updates' # <<>> /\ ~Healthy(updates'[Len(updates')])
<1>1. Snapshot(d, st, h, fr, r, NoData) \in Updates
  BY EmptyShapes, SnapshotShape DEF Healths
<1>2. ~Healthy(Snapshot(d, st, h, fr, r, NoData))
  BY DEF Healthy, Snapshot
<1> QED BY <1>1, <1>2, AppendedLast DEF Publish, Types, ChannelTypes

LEMMA DarkStep ==
  ASSUME Types, DarkAhead, [Next]_vars
  PROVE  DarkAhead'
<1> USE DEF server, link, locals, round, retries, flags, environment
<1>1. /\ data \in States /\ tracker \in Statuses /\ AllCached(tracker) \in Statuses
      /\ revision \in Nat /\ FreshnessFor \in BOOLEAN /\ FALSE \in BOOLEAN
  BY CachedStatuses DEF Types, WorkerTypes, CounterTypes, FreshnessFor
<1>2. CASE RuntimeApply
  <2>1. /\ updates \in Seq(Updates) /\ updates # <<>> /\ Head(updates) = updates[1]
        /\ Head(updates) \in Updates /\ Tail(updates) \in Seq(Updates)
        /\ Len(updates) \in Nat /\ Len(Tail(updates)) = Len(updates) - 1
        /\ \A i \in 1..Len(Tail(updates)) : Tail(updates)[i] = updates[i + 1]
        /\ monitor \in Monitors
    BY <1>2, Rest, Elements DEF RuntimeApply, Types, ChannelTypes, RuntimeTypes
  <2>2. /\ updates' = [i \in 1..Len(Tail(updates)) |->
                        [Tail(updates)[i] EXCEPT !.late = @ \/ ~Healthy(Head(updates))]]
        /\ monitor' = ApplySessionUpdate(monitor, Head(updates)) /\ pc' = pc
    BY <1>2 DEF RuntimeApply
  <2>3. Len(updates') = Len(Tail(updates)) /\ (updates' = <<>> <=> Len(Tail(updates)) = 0)
    <3>1. updates' \in Seq(Updates)
      BY TypesStep DEF Types, ChannelTypes
    <3>2. /\ Len(updates') \in Nat /\ 1..Len(updates') = 1..Len(Tail(updates))
          /\ Len(Tail(updates)) \in Nat
      BY <2>1, <2>2, <3>1, Elements
    <3>3. Len(updates') = Len(Tail(updates))
      BY <3>2, SameLength
    <3>4. updates' = <<>> <=> Len(updates') = 0
      BY <3>1
    <3> QED BY <3>3, <3>4
  <2> SUFFICES ASSUME NotConnected, ~Healthy(updates[Len(updates)])
               PROVE  IF updates' = <<>> THEN NothingShown' ELSE ~Healthy(updates'[Len(updates')])
    BY <2>1, <2>2 DEF DarkAhead, NotConnected
  <2>4. CASE updates' = <<>>
    <3>1. Len(updates) = 1
      <4>1. Len(Tail(updates)) = 0
        BY <2>3, <2>4
      <4>2. Len(updates) - 1 = 0
        BY <2>1, <4>1
      <4>3. Len(updates) \in Nat
        BY <2>1
      <4> QED BY <4>2, <4>3
    <3>2. Dark(monitor')
      BY <2>1, <2>2, <3>1, UnhealthyIsDark
    <3> QED BY <2>4, <3>2 DEF Dark, NothingShown
  <2>5. CASE updates' # <<>>
    <3>1. Len(updates') \in 1..Len(Tail(updates)) /\ Len(updates') + 1 = Len(updates)
      BY <2>1, <2>3, <2>5
    <3>2. /\ Tail(updates)[Len(updates')] = updates[Len(updates)]
          /\ updates[Len(updates)] \in Updates
      BY <2>1, <3>1, Elements
    <3>3. updates'[Len(updates')] = [updates[Len(updates)] EXCEPT !.late = @ \/ ~Healthy(Head(updates))]
      BY <2>2, <3>1, <3>2
    <3> QED BY <2>5, <3>2, <3>3 DEF Healthy, Updates
  <2> QED BY <2>4, <2>5
<1>3. CASE FactoryFails
  <2>1. HealthOnly \in Updates /\ ~Healthy(HealthOnly)
    BY EmptyShapes DEF HealthOnly, Snapshot, Healthy
  <2>2. updates \in Seq(Updates) /\ Append(updates, HealthOnly) \in Seq(Updates)
    BY <2>1, Appended DEF Types, ChannelTypes
  <2>3. updates \o <<HealthOnly, HealthOnly>> = Append(Append(updates, HealthOnly), HealthOnly)
    BY <2>1, <2>2
  <2>4. \/ updates' = Append(updates, HealthOnly)
        \/ updates' = Append(Append(updates, HealthOnly), HealthOnly)
    BY <1>3, <2>3 DEF FactoryFails, Publish
  <2>5. updates' # <<>> /\ ~Healthy(updates'[Len(updates')])
    BY <2>1, <2>2, <2>4, AppendedLast
  <2> QED BY <2>5 DEF DarkAhead
<1>4. CASE BackoffFails
  BY <1>1, <1>4, UnhealthySnapshot DEF BackoffFails, DarkAhead
<1>5. CASE LoopCancelled
  BY <1>1, <1>5, UnhealthySnapshot DEF LoopCancelled, DarkAhead
<1>6. CASE EventEnded
  BY <1>1, <1>6, UnhealthySnapshot DEF EventEnded, DarkAhead
<1>7. CASE UNCHANGED <<updates, monitor>> /\ (NotConnected' => NotConnected)
  BY <1>7 DEF DarkAhead, NothingShown
<1>8. CASE ~NotConnected'
  BY <1>8 DEF DarkAhead
<1>9. CASE UNCHANGED vars
  BY <1>7, <1>9 DEF vars, sessionVars, NotConnected
<1>10. CASE (Connect \/ Refreshing \/ LoopRequested \/ LoopRefreshDue \/ EventReady \/ EventAccount
             \/ EventLimits \/ EventTokens \/ EventNoise)
  BY <1>8, <1>10 DEF Connect, Refreshing, TakeAnswer, MissAnswer, EndRefresh, LoopRequested,
      LoopRefreshDue, EventReady, EventAccount, EventLimits, EventTokens, EventNoise, Event,
      BeginRefresh, NotConnected
<1>11. CASE (CancelledOffline \/ Handle \/ Environment) /\ UNCHANGED <<monitor, since>>
  BY <1>7, <1>11 DEF CancelledOffline, Handle, RequestRefresh, Stop, Environment, ServerSwitches,
      ServerMoves, ServerTalks, ServerAnswers, HandshakeDone, LinkEnds, DataAges, NotConnected
<1> QED BY <1>2, <1>3, <1>4, <1>5, <1>6, <1>9, <1>10, <1>11
        DEF Next, SessionNext, Worker, Offline, Loop, HandleEvent

LEMMA RetriesStep ==
  ASSUME Types, RetriesCounted, [Next]_vars
  PROVE  RetriesCounted'
<1> USE DEF server, link, locals, round, retries, flags, environment
<1> SUFFICES ASSUME MaxAttempts # 0 PROVE RetriesCounted'
  BY DEF RetriesCounted
<1>1. /\ MaxAttempts \in Nat \ {0} /\ attempt \in Nat /\ retry \in Nat /\ failures \in Nat
      /\ pc \in {"factory", "loop", "refresh", "backoff", "stopped"}
  BY SessionAssumption DEF Types, CounterTypes, WorkerTypes
<1>2. CASE UNCHANGED <<pc, attempt, retry, failures>>
  BY <1>2 DEF RetriesCounted
<1>3. CASE Connect
  BY <1>1, <1>3 DEF Connect, RetriesCounted
<1>4. CASE FactoryFails
  <2>1. /\ pc = "factory" /\ attempt <= MaxAttempts /\ failures <= MaxAttempts + attempt - 1
        /\ attempt' = attempt + 1 /\ failures' = failures + 1 /\ retry' = retry
        /\ pc' = IF attempt' > MaxAttempts THEN "stopped" ELSE "factory"
    BY <1>1, <1>4 DEF FactoryFails, RetriesCounted, Bump
  <2> QED BY <1>1, <2>1 DEF RetriesCounted
<1>5. CASE BackoffFails
  <2>1. /\ pc = "backoff" /\ failures <= retry /\ retry < MaxAttempts
        /\ retry' = retry + 1 /\ failures' = failures + 1
        /\ IF retry' >= MaxAttempts THEN pc' = "factory" /\ attempt' = 1 ELSE pc' = pc /\ attempt' = attempt
    BY <1>1, <1>5 DEF BackoffFails, RetriesCounted, Bump
  <2> QED BY <1>1, <2>1 DEF RetriesCounted
<1>6. CASE CancelledOffline \/ LoopCancelled
  BY <1>6 DEF CancelledOffline, LoopCancelled, RetriesCounted
<1>7. CASE EventEnded
  <2>1. /\ retry = 0 /\ failures = 0 /\ retry' = 0 /\ failures' = 0
        /\ (pc' = "factory" /\ attempt' = 1) \/ (pc' = "backoff" /\ attempt' = attempt)
    BY <1>7 DEF EventEnded, Event, RetriesCounted
  <2> QED BY <1>1, <2>1 DEF RetriesCounted
<1>8. CASE (Refreshing \/ LoopRequested \/ LoopRefreshDue \/ EventReady \/ EventAccount
             \/ EventLimits \/ EventTokens \/ EventNoise)
  <2>1. pc \in {"loop", "refresh"} /\ pc' \in {"loop", "refresh"} /\ UNCHANGED <<attempt, retry, failures>>
    BY <1>8 DEF Refreshing, TakeAnswer, MissAnswer, EndRefresh, LoopRequested,
        LoopRefreshDue, EventReady, EventAccount, EventLimits, EventTokens, EventNoise, Event,
        BeginRefresh
  <2> QED BY <1>1, <2>1 DEF RetriesCounted
<1>9. CASE RuntimeApply \/ Handle \/ Environment \/ UNCHANGED vars
  BY <1>2, <1>9 DEF RuntimeApply, Handle, RequestRefresh, Stop, Environment, ServerSwitches,
      ServerMoves, ServerTalks, ServerAnswers, HandshakeDone, LinkEnds, DataAges, vars, sessionVars
<1> QED BY <1>3, <1>4, <1>5, <1>6, <1>7, <1>8, <1>9
        DEF Next, SessionNext, Worker, Offline, Loop, HandleEvent

(* With the pipe down nothing is shown as live once the runtime has caught  *)
(* up, and the nested reconnect loops give up within their budgets.         *)
THEOREM DarknessFollowsEnd == Spec => []DarkAfterEnd
<1>1. Init => DarkInv
  <2> SUFFICES ASSUME Init PROVE DarkInv
    OBVIOUS
  <2>1. DarkAhead
    BY DEF Init, SessionInit, DarkAhead, NothingShown, ShownData, Visible, EmptyMonitor,
           UnknownWindow, EmptyOfficial, NoStatus, Endpoints
  <2>2. RetriesCounted
    BY SessionAssumption DEF Init, SessionInit, RetriesCounted
  <2> QED BY <2>1, <2>2, TypesInit DEF DarkInv
<1>2. DarkInv /\ [Next]_vars => DarkInv'
  BY TypesStep, DarkStep, RetriesStep DEF DarkInv
<1>3. DarkInv => DarkAfterEnd
  <2> SUFFICES ASSUME DarkInv PROVE DarkAfterEnd
    OBVIOUS
  <2>1. TypeOK
    <3>1. \A i \in DOMAIN updates : updates[i] \in Updates
      BY Elements DEF DarkInv, Types, ChannelTypes
    <3>2. \A i \in DOMAIN updates :
            updates[i].windows \in [Windows -> Data] /\ updates[i].official.status \in Statuses
              /\ updates[i].health \in Healths /\ updates[i].revision \in Nat
      BY <3>1 DEF Updates, OfficialStates
    <3>3. /\ monitor.windows \in [Windows -> WindowStates]
          /\ monitor.official.status \in Statuses /\ monitor.revision \in Nat
      BY DEF DarkInv, Types, RuntimeTypes, Monitors, OfficialStates
    <3> QED BY <3>2, <3>3 DEF TypeOK, DarkInv, Types, CounterTypes, SwitchTypes, ChannelTypes,
                               WorkerTypes, RuntimeTypes, WindowStates, States
  <2>2. NothingLiveAfterEnd
    BY DEF DarkInv, DarkAhead, NotConnected, NothingLiveAfterEnd
  <2>3. AttemptsBounded
    BY DEF DarkInv, RetriesCounted, AttemptsBounded
  <2> QED BY <2>1, <2>2, <2>3 DEF DarkAfterEnd
<1> QED BY <1>1, <1>2, <1>3, PTL DEF Spec

-----------------------------------------------------------------------------
(* What is shown as current belongs to the account that is logged in.  A    *)
(* switch of the account is settled when the worker holds nothing older and *)
(* nothing older can reach the screen: the queue has a barrier, an update    *)
(* that clears the screen, and only newer data after it.  Until then the    *)
(* switch is announced in the event channel, or the end of the pipe is.     *)

EndPending == \E i \in DOMAIN events : events[i].kind = "ended"
Pending(s) == \E i \in DOMAIN events : events[i].kind = "account" /\ events[i].version = s

EndIsTold == IF NotConnected THEN events = <<>> /\ ~up ELSE (up <=> ~EndPending)

(* An endpoint that is live has been read. *)
LiveIsRead(status, account, usage) ==
  /\ status["account"] = "live" => account # NoData
  /\ status["usage"] = "live" => usage # NoData
OfficialIsRead(o) == LiveIsRead(o.status, o.account, o.usage)
WorkerIsRead == LiveIsRead(tracker, data.account, data.usage)
AllIsRead ==
  /\ WorkerIsRead /\ OfficialIsRead(monitor.official)
  /\ \A i \in DOMAIN updates : OfficialIsRead(updates[i].official)

ShownFrom(m, s) == \A v \in ShownData(m) : v >= s

Barrier(u, s) == ~Healthy(u) \/ (u.reset # NoData /\ UpdateFrom(u, s))
CleanAfter(s, k) ==
  /\ IF k = 0 THEN ShownFrom(monitor, s) ELSE Barrier(updates[k], s)
  /\ \A j \in DOMAIN updates : j > k => UpdateFrom(updates[j], s)
Clean(s) == \E k \in 0..Len(updates) : CleanAfter(s, k)

Settled(s) == Known(s) /\ (Clean(s) \/ resetBy # NoData)
Safe(s) == NotConnected \/ EndPending \/ Pending(s) \/ Settled(s)

CurrentInv ==
  /\ LeakInv /\ DarkAhead /\ EndIsTold /\ AllIsRead
  /\ \A s \in switchedAt : s <= version /\ Safe(s)

(* The head of the channel goes, or a notice joins it. *)
LEMMA PendingTail ==
  ASSUME Types, events # <<>>, events' = Tail(events)
  PROVE  /\ EndPending => EndPending' \/ Head(events).kind = "ended"
         /\ EndPending' => EndPending
         /\ \A s : Pending(s) => Pending(s)' \/ (Head(events).kind = "account" /\ Head(events).version = s)
<1>1. /\ Head(events) = events[1] /\ Len(events) \in Nat /\ DOMAIN events = 1..Len(events)
      /\ DOMAIN events' = 1..(Len(events) - 1)
      /\ \A i \in DOMAIN events' : events'[i] = events[i + 1] /\ i + 1 \in DOMAIN events
  BY Rest, Elements DEF Types, ChannelTypes
<1>2. ASSUME NEW i \in DOMAIN events, i # 1
      PROVE  i - 1 \in DOMAIN events' /\ events'[i - 1] = events[i]
  <2>1. i \in 1..Len(events) /\ Len(events) \in Nat
    BY <1>1
  <2>2. i - 1 \in 1..(Len(events) - 1) /\ (i - 1) + 1 = i
    BY <1>2, <2>1
  <2>3. i - 1 \in DOMAIN events'
    <3>1. DOMAIN events' = 1..(Len(events) - 1)
      BY <1>1
    <3> QED BY <2>2, <3>1
  <2>4. events'[i - 1] = events[(i - 1) + 1]
    BY <1>1, <2>3
  <2> QED BY <2>2, <2>3, <2>4
<1>3. \A i \in DOMAIN events : events[i] = Head(events) \/ \E j \in DOMAIN events' : events'[j] = events[i]
  BY <1>1, <1>2
<1>4. \A j \in DOMAIN events' : \E i \in DOMAIN events : events'[j] = events[i]
  BY <1>1
<1>5. (EndPending => EndPending' \/ Head(events).kind = "ended") /\ (EndPending' => EndPending)
  BY <1>3, <1>4 DEF EndPending
<1>6. ASSUME NEW s, Pending(s)
      PROVE  Pending(s)' \/ (Head(events).kind = "account" /\ Head(events).version = s)
  BY <1>3, <1>6 DEF Pending
<1> QED BY <1>5, <1>6

LEMMA PendingAppended ==
  ASSUME Types, NEW e \in Notices, events' = Append(events, e)
  PROVE  /\ EndPending' <=> EndPending \/ e.kind = "ended"
         /\ \A s : Pending(s) => Pending(s)'
         /\ e.kind = "account" => \A s : s = e.version => Pending(s)'
<1>1. /\ Len(events) \in Nat /\ DOMAIN events = 1..Len(events)
      /\ DOMAIN events' = 1..(Len(events) + 1) /\ events'[Len(events) + 1] = e
      /\ \A i \in DOMAIN events : events'[i] = events[i] /\ i \in DOMAIN events'
      /\ \A i \in DOMAIN events' : i \in DOMAIN events \/ i = Len(events) + 1
      /\ Len(events) + 1 \in DOMAIN events'
  BY Appended, Elements DEF Types, ChannelTypes
<1> QED BY <1>1 DEF EndPending, Pending

(* The steps that leave the channel alone, and those that take its head. *)
Works ==
  \/ Refreshing \/ LoopRequested \/ LoopRefreshDue \/ Handle \/ Offline
TakesNotice ==
  EventReady \/ EventAccount \/ EventLimits \/ EventTokens \/ EventNoise

LEMMA EndStep ==
  ASSUME Types, EndIsTold, [Next]_vars
  PROVE  EndIsTold'
<1> USE DEF server, link, locals, round, retries, flags, environment
<1>1. CASE UNCHANGED <<events, up>> /\ (NotConnected' <=> NotConnected)
  BY <1>1 DEF EndIsTold, EndPending
<1>2. CASE RuntimeApply \/ UNCHANGED vars
  BY <1>1, <1>2 DEF RuntimeApply, vars, sessionVars, NotConnected
<1>3. CASE Works
  BY <1>1, <1>3 DEF Works, Refreshing, TakeAnswer, MissAnswer, EndRefresh, RoundOver, LoopRequested,
      LoopRefreshDue, BeginRefresh, Handle, RequestRefresh, Stop, Offline,
      FactoryFails, BackoffFails, CancelledOffline, NotConnected
<1>4. CASE Connect
  BY <1>4 DEF Connect, EndIsTold, NotConnected, EndPending
<1>5. CASE LoopCancelled
  BY <1>5 DEF LoopCancelled, EndIsTold, NotConnected
<1>6. CASE EventEnded
  <2>1. events # <<>> /\ Head(events).kind = "ended" /\ pc = "loop" /\ up' = up
        /\ events' = <<>> /\ NotConnected'
    BY <1>6 DEF EventEnded, Event, NotConnected
  <2>2. EndPending
    BY <2>1, Rest DEF EndPending, Types, ChannelTypes
  <2> QED BY <2>1, <2>2 DEF EndIsTold, NotConnected
<1>7. CASE TakesNotice
  <2>1. /\ events # <<>> /\ Head(events).kind # "ended" /\ events' = Tail(events) /\ up' = up
        /\ ~NotConnected /\ ~NotConnected'
    BY <1>7 DEF TakesNotice, EventReady, EventAccount, EventLimits, EventTokens, EventNoise, Event, Taken,
        BeginRefresh, NotConnected
  <2>2. EndPending' <=> EndPending
    BY <2>1, PendingTail
  <2> QED BY <2>1, <2>2 DEF EndIsTold
<1>8. CASE Environment /\ ~LinkEnds
  <2>1. (NotConnected' <=> NotConnected) /\ up' = up
    BY <1>8 DEF Environment, ServerSwitches, ServerMoves, ServerTalks, ServerAnswers, HandshakeDone,
        DataAges, NotConnected
  <2>2. CASE events' = events
    BY <1>1, <2>1, <2>2
  <2>3. CASE up /\ \E e \in Notices : e.kind # "ended" /\ events' = Append(events, e)
    <3>1. EndPending' <=> EndPending
      BY <2>3, PendingAppended
    <3> QED BY <2>1, <2>3, <3>1 DEF EndIsTold
  <2> QED BY <1>8, <2>2, <2>3, Announcements, TypesStep
<1>9. CASE LinkEnds
  <2>1. /\ up /\ ~up' /\ (NotConnected' <=> NotConnected)
        /\ events' = Append(events, [kind |-> "ended"])
    BY <1>9 DEF LinkEnds, NotConnected
  <2>2. [kind |-> "ended"] \in Notices
    BY DEF Notices
  <2>3. EndPending'
    BY <2>1, <2>2, PendingAppended
  <2> QED BY <2>1, <2>3 DEF EndIsTold
<1> QED BY <1>2, <1>3, <1>4, <1>5, <1>6, <1>7, <1>8, <1>9
        DEF Next, SessionNext, Worker, Loop, HandleEvent, Works, TakesNotice

LEMMA CachedReads ==
  ASSUME NEW st \in Statuses, NEW a, NEW b
  PROVE  /\ LiveIsRead(AllCached(st), a, b) /\ LiveIsRead(NoStatus, a, b)
         /\ LiveIsRead(st, a, b) => /\ LiveIsRead(MarkLive(st, "quota"), a, b)
                                    /\ \A k \in Endpoints : LiveIsRead(MarkFailed(st, k), a, b)
<1>1. LiveIsRead(AllCached(st), a, b) /\ LiveIsRead(NoStatus, a, b)
  BY DEF LiveIsRead, AllCached, Cached, NoStatus, Endpoints
<1>2. ASSUME LiveIsRead(st, a, b)
      PROVE  /\ LiveIsRead(MarkLive(st, "quota"), a, b)
             /\ \A k \in Endpoints : LiveIsRead(MarkFailed(st, k), a, b)
  BY <1>2 DEF LiveIsRead, MarkLive, MarkFailed, Cached, Endpoints, Statuses
<1> QED BY <1>1, <1>2

LEMMA WorkerReads ==
  ASSUME Types, WorkerIsRead, SessionNext
  PROVE  WorkerIsRead'
<1> USE DEF server, link, locals, round, retries, flags, environment, WorkerIsRead
<1>1. data \in States /\ tracker \in Statuses /\ todo \in Seq(Endpoints) /\ answers \in [Endpoints -> Data]
  BY DEF Types, WorkerTypes, ChannelTypes
<1>2. \A a, b : LiveIsRead(NoStatus, a, b) /\ LiveIsRead(AllCached(tracker), a, b)
  BY <1>1, CachedReads
<1>3. CASE UNCHANGED <<data, tracker>>
  BY <1>3
<1>4. CASE tracker' = NoStatus \/ tracker' = AllCached(tracker)
  BY <1>2, <1>4
<1>5. CASE TakeAnswer
  <2>1. /\ Head(todo) \in Endpoints /\ answers[Head(todo)] # NoData
        /\ data' = Replace(data, Head(todo), answers[Head(todo)])
        /\ tracker' = MarkLive(tracker, Head(todo))
    BY <1>1, <1>5, Rest DEF TakeAnswer, CompletedResponse
  <2>2. CASE Head(todo) = "account"
    BY <1>1, <2>1, <2>2 DEF Replace, MarkLive, States, LiveIsRead, Statuses, Endpoints
  <2>3. CASE Head(todo) = "quota"
    BY <1>1, <2>1, <2>3 DEF Replace, MarkLive, States, LiveIsRead, Statuses, Endpoints
  <2>4. CASE Head(todo) = "usage"
    BY <1>1, <2>1, <2>4 DEF Replace, MarkLive, States, LiveIsRead, Statuses, Endpoints
  <2> QED BY <2>1, <2>2, <2>3, <2>4 DEF Endpoints
<1>6. CASE MissAnswer
  <2>1. Head(todo) \in Endpoints /\ data' = data /\ tracker' = MarkFailed(tracker, Head(todo))
    BY <1>1, <1>6, Rest DEF MissAnswer
  <2> QED BY <1>1, <2>1, CachedReads
<1>7. CASE EventLimits
  <2>1. /\ data' = MergeLimits(data, Head(events).windows, Head(events).version)
        /\ tracker' = MarkLive(tracker, "quota")
    BY <1>7 DEF EventLimits, Event, NotificationEndpointStatus
  <2>2. data'.account = data.account /\ data'.usage = data.usage
    BY <1>1, <2>1 DEF MergeLimits, States
  <2> QED BY <1>1, <2>1, <2>2, CachedReads
<1>8. CASE EventTokens
  BY <1>1, <1>8 DEF EventTokens, States
<1>9. CASE Connect \/ Offline \/ LoopCancelled \/ EventAccount \/ EventEnded
  BY <1>3, <1>4, <1>9 DEF Connect, Offline, FactoryFails, BackoffFails, CancelledOffline, LoopCancelled,
      EventAccount, EventEnded, FreshLocals
<1>10. CASE EndRefresh \/ LoopRequested \/ LoopRefreshDue \/ EventReady \/ EventNoise \/ Handle \/ Environment
  BY <1>3, <1>10 DEF EndRefresh, LoopRequested, LoopRefreshDue, EventReady, EventNoise, Handle,
      RequestRefresh, Stop, Environment, ServerSwitches, ServerMoves, ServerTalks, ServerAnswers,
      HandshakeDone, LinkEnds, DataAges
<1> QED BY <1>5, <1>6, <1>7, <1>8, <1>9, <1>10
        DEF SessionNext, Worker, Loop, HandleEvent, Refreshing

(* What the worker publishes: the queue is left alone or gets one update     *)
(* more, or two of an empty state; an endpoint that is live in it was read.  *)
LEMMA QueueMoves ==
  ASSUME Types, Types', WorkerIsRead, WorkerIsRead', SessionNext
  PROVE  \/ updates' = updates
         \/ \E u \in Updates : updates' = Append(updates, u) /\ OfficialIsRead(u.official)
         \/ updates' = Append(Append(updates, HealthOnly), HealthOnly)
<1> USE DEF server, link, locals, round, retries, flags, environment
<1>1. ASSUME NEW d \in States, NEW st \in Statuses, NEW h \in Healths, NEW fr \in BOOLEAN,
             NEW r \in Nat, NEW z \in Data, Publish(Snapshot(d, st, h, fr, r, z)),
             LiveIsRead(st, d.account, d.usage)
      PROVE  \E u \in Updates : updates' = Append(updates, u) /\ OfficialIsRead(u.official)
  <2>1. Snapshot(d, st, h, fr, r, z) \in Updates
    BY SnapshotShape
  <2>2. OfficialIsRead(Snapshot(d, st, h, fr, r, z).official)
    BY <1>1 DEF Snapshot, OfficialIsRead
  <2> QED BY <1>1, <2>1, <2>2 DEF Publish
<1>2. /\ data \in States /\ tracker \in Statuses /\ revision \in Nat /\ revision' \in Nat
      /\ data' \in States /\ NoData \in Data /\ resetBy \in Data
      /\ health' \in Healths /\ health \in Healths /\ tracker' \in Statuses
      /\ AllCached(tracker) \in Statuses /\ FreshnessFor \in BOOLEAN
      /\ succeeded \in BOOLEAN /\ (succeeded \/ FreshnessFor) \in BOOLEAN /\ TRUE \in BOOLEAN
      /\ FALSE \in BOOLEAN /\ {"Disconnected", "Healthy", "Stopped", "Degraded"} \subseteq Healths
  BY CachedStatuses, EmptyShapes DEF Types, WorkerTypes, CounterTypes, SwitchTypes, FreshnessFor, Healths
<1>3. /\ LiveIsRead(tracker, data.account, data.usage)
      /\ LiveIsRead(tracker', data'.account, data'.usage)
      /\ LiveIsRead(AllCached(tracker), data.account, data.usage)
  BY <1>2, CachedReads DEF WorkerIsRead
<1>4. CASE BackoffFails
  BY <1>1, <1>2, <1>3, <1>4 DEF BackoffFails
<1>5. CASE EndRefresh
  BY <1>1, <1>2, <1>3, <1>5 DEF EndRefresh
<1>6. CASE LoopCancelled
  BY <1>1, <1>2, <1>3, <1>6 DEF LoopCancelled
<1>7. CASE LoopRefreshDue
  BY <1>1, <1>2, <1>3, <1>7 DEF LoopRefreshDue
<1>8. CASE EventAccount
  <2>1. PICK v : v = Head(events).version
    OBVIOUS
  <2>2. v \in Data
    <3>1. Head(events) \in Notices /\ Head(events).kind = "account"
      BY <1>8, Rest DEF EventAccount, Event, Types, ChannelTypes
    <3> QED BY <2>1, <3>1, NoticeShape DEF VersionedKinds, Data
  <2>3. updates' = updates \/ Publish(Snapshot(data', tracker', "Healthy", TRUE, revision', v))
    BY <1>8, <2>1 DEF EventAccount
  <2> QED BY <1>1, <1>2, <1>3, <2>2, <2>3
<1>9. CASE EventLimits
  BY <1>1, <1>2, <1>3, <1>9 DEF EventLimits
<1>10. CASE EventTokens
  <2>1. Publish(Snapshot(data', tracker, "Healthy", TRUE, revision', NoData)) /\ tracker' = tracker
    BY <1>10 DEF EventTokens
  <2> QED BY <1>1, <1>2, <1>3, <2>1
<1>11. CASE EventNoise
  BY <1>1, <1>2, <1>3, <1>11 DEF EventNoise
<1>12. CASE EventEnded
  BY <1>1, <1>2, <1>3, <1>12 DEF EventEnded
<1>13. CASE FactoryFails
  <2>1. HealthOnly \in Updates /\ OfficialIsRead(HealthOnly.official)
    BY EmptyShapes DEF HealthOnly, Snapshot, OfficialIsRead, LiveIsRead, NoStatus, Endpoints
  <2>2. updates \o <<HealthOnly, HealthOnly>> = Append(Append(updates, HealthOnly), HealthOnly)
    BY <2>1 DEF Types, ChannelTypes
  <2> QED BY <1>13, <2>1, <2>2 DEF FactoryFails, Publish
<1>14. CASE \/ Connect \/ CancelledOffline \/ TakeAnswer \/ MissAnswer \/ LoopRequested
            \/ EventReady \/ Handle \/ Environment
  BY <1>14 DEF Connect, CancelledOffline, TakeAnswer, MissAnswer, LoopRequested, EventReady, Handle,
      RequestRefresh, Stop, Environment, ServerSwitches, ServerMoves, ServerTalks, ServerAnswers,
      HandshakeDone, LinkEnds, DataAges
<1> QED BY <1>4, <1>5, <1>6, <1>7, <1>8, <1>9, <1>10, <1>11, <1>12, <1>13, <1>14
        DEF SessionNext, Worker, Offline, Refreshing, Loop, HandleEvent

(* What applying one update does to the screen. *)
LEMMA AppliedScreen ==
  ASSUME NEW m \in Monitors, NEW u \in Updates, Healthy(u), NEW n, n = ApplySessionUpdate(m, u)
  PROVE  /\ n.official = u.official
         /\ \A w \in Windows : n.windows[w].presence = "Present" =>
              \/ u.reset = NoData /\ n.windows[w] = m.windows[w]
              \/ u.windows[w] # NoData /\ n.windows[w].value = u.windows[w]
<1> DEFINE reset    == IF u.reset # NoData THEN ResetAccountScopedState(m) ELSE m
           official == [reset EXCEPT !.official = u.official]
           limits   == IF u.official.status["quota"] = "live" THEN ApplyAuthoritative(official, u)
                                                               ELSE official
           tokens   == ApplyTokenUsage(limits, u)
<1>1. /\ official \in Monitors /\ official.official = u.official
      /\ \A w \in Windows : official.windows[w].presence = "Present" =>
           u.reset = NoData /\ official.windows[w] = m.windows[w]
  BY EmptyShapes DEF ResetAccountScopedState, Monitors, Updates, EmptyMonitor, UnknownWindow
<1> HIDE DEF official
<1>2. /\ limits \in Monitors /\ limits.official = u.official
      /\ \A w \in Windows : \/ limits.windows[w] = official.windows[w]
                            \/ limits.windows[w] = FromAuthoritative(u.windows[w], official.windows[w])
  <2>1. \A w \in Windows : FromAuthoritative(u.windows[w], official.windows[w]) \in WindowStates
    BY <1>1 DEF FromAuthoritative, Monitors, Updates, WindowStates, Data, NoData
  <2> QED BY <1>1, <2>1 DEF ApplyAuthoritative, Monitors, Updates
<1> HIDE DEF limits
<1>3. n.official = limits.official /\ n.windows = limits.windows
  <2>1. n = tokens
    BY DEF ApplySessionUpdate, limits, official
  <2> QED BY <1>2, <2>1 DEF ApplyTokenUsage, Monitors
<1>4. ASSUME NEW w \in Windows, n.windows[w].presence = "Present"
      PROVE  \/ u.reset = NoData /\ n.windows[w] = m.windows[w]
             \/ u.windows[w] # NoData /\ n.windows[w].value = u.windows[w]
  <2>1. CASE n.windows[w] = official.windows[w]
    BY <1>1, <1>4, <2>1
  <2>2. CASE n.windows[w] = FromAuthoritative(u.windows[w], official.windows[w])
    <3>1. u.windows[w] = NoData => n.windows[w].presence = "Absent"
      BY <2>2 DEF FromAuthoritative
    <3>2. u.windows[w] # NoData => n.windows[w].value = u.windows[w]
      BY <2>2 DEF FromAuthoritative
    <3> QED BY <1>4, <3>1, <3>2
  <2>3. limits.windows[w] = n.windows[w]
    BY <1>3
  <2> QED BY <1>2, <2>1, <2>2, <2>3
<1> QED BY <1>2, <1>3, <1>4

LEMMA AppliedShown ==
  ASSUME NEW m \in Monitors, NEW u \in Updates, NEW s \in Data,
         ~Healthy(u) \/ (/\ OfficialIsRead(u.official) /\ UpdateFrom(u, s)
                         /\ ShownFrom(m, s) \/ u.reset # NoData)
  PROVE  ShownFrom(ApplySessionUpdate(m, u), s)
<1>1. CASE ~Healthy(u)
  BY <1>1, UnhealthyIsDark DEF Dark, ShownFrom
<1>2. CASE Healthy(u)
  <2>1. PICK n : n = ApplySessionUpdate(m, u)
    OBVIOUS
  <2>2. /\ n.official = u.official
        /\ \A w \in Windows : n.windows[w].presence = "Present" =>
              \/ u.reset = NoData /\ n.windows[w] = m.windows[w]
              \/ u.windows[w] # NoData /\ n.windows[w].value = u.windows[w]
    BY <1>2, <2>1, AppliedScreen
  <2>3. \A w \in Windows : Visible(n, w) => n.windows[w].value >= s
    BY <1>2, <2>2 DEF Visible, ShownFrom, ShownData, UpdateFrom, From
  <2>4. n.official.status["account"] = "live" => n.official.account >= s
    BY <1>2, <2>2 DEF OfficialIsRead, LiveIsRead, UpdateFrom, From
  <2>5. n.official.status["usage"] = "live" => n.official.usage >= s
    BY <1>2, <2>2 DEF OfficialIsRead, LiveIsRead, UpdateFrom, From
  <2> QED BY <2>1, <2>3, <2>4, <2>5 DEF ShownFrom, ShownData
<1> QED BY <1>1, <1>2

LEMMA AppliedReads ==
  ASSUME NEW m \in Monitors, NEW u \in Updates, OfficialIsRead(u.official)
  PROVE  OfficialIsRead(ApplySessionUpdate(m, u).official)
<1>1. CASE Healthy(u)
  BY <1>1, AppliedScreen
<1>2. CASE ~Healthy(u)
  BY <1>2, UnhealthyIsDark DEF Dark, OfficialIsRead, LiveIsRead, Endpoints
<1> QED BY <1>1, <1>2

SameButLate(v, u) == \E b : v = [u EXCEPT !.late = b]

(* The queue after the runtime took its head. *)
LEMMA QueueTaken ==
  ASSUME Types, RuntimeApply
  PROVE  /\ updates \in Seq(Updates) /\ Head(updates) \in Updates /\ Head(updates) = updates[1]
         /\ 1 \in DOMAIN updates /\ Len(updates) \in Nat /\ DOMAIN updates = 1..Len(updates)
         /\ Len(updates') = Len(updates) - 1 /\ DOMAIN updates' = 1..(Len(updates) - 1)
         /\ \A i \in DOMAIN updates' :
              /\ i + 1 \in DOMAIN updates
              /\ SameButLate(updates'[i], updates[i + 1])
<1>1. /\ updates \in Seq(Updates) /\ updates # <<>> /\ Head(updates) = updates[1]
      /\ Head(updates) \in Updates /\ 1 \in DOMAIN updates /\ DOMAIN updates = 1..Len(updates)
      /\ Len(updates) \in Nat /\ Len(Tail(updates)) = Len(updates) - 1
      /\ DOMAIN Tail(updates) = 1..(Len(updates) - 1) /\ Len(Tail(updates)) \in Nat
      /\ \A i \in DOMAIN Tail(updates) : Tail(updates)[i] = updates[i + 1] /\ i + 1 \in DOMAIN updates
  BY Rest, Elements DEF RuntimeApply, Types, ChannelTypes
<1>2. updates' = [i \in 1..Len(Tail(updates)) |->
                  [Tail(updates)[i] EXCEPT !.late = @ \/ ~Healthy(Head(updates))]]
  BY DEF RuntimeApply
<1>3. DOMAIN updates' = 1..(Len(updates) - 1)
  BY <1>1, <1>2
<1>4. Len(updates') = Len(updates) - 1
  <2>1. updates' \in Seq(Updates)
    BY ApplyTypes DEF Types, ChannelTypes
  <2>2. Len(updates') \in Nat /\ DOMAIN updates' = 1..Len(updates') /\ Len(updates) - 1 \in Nat
    BY <1>1, <2>1, Elements
  <2> QED BY <1>3, <2>2, SameLength
<1>5. ASSUME NEW i \in DOMAIN updates'
      PROVE  i + 1 \in DOMAIN updates /\ SameButLate(updates'[i], updates[i + 1])
  <2>1. i \in DOMAIN Tail(updates)
    BY <1>1, <1>3
  <2> QED BY <1>1, <1>2, <1>3, <2>1 DEF SameButLate
<1>6. /\ updates \in Seq(Updates) /\ Head(updates) \in Updates /\ Head(updates) = updates[1]
      /\ 1 \in DOMAIN updates /\ Len(updates) \in Nat /\ DOMAIN updates = 1..Len(updates)
  BY <1>1
<1> QED BY <1>3, <1>4, <1>5, <1>6

LEMMA ReadsStep ==
  ASSUME Types, AllIsRead, [Next]_vars
  PROVE  AllIsRead'
<1>1. CASE UNCHANGED vars
  BY <1>1 DEF vars, sessionVars, locals, AllIsRead, WorkerIsRead
<1>2. CASE RuntimeApply
  <2>1. WorkerIsRead'
    BY <1>2 DEF RuntimeApply, locals, AllIsRead, WorkerIsRead
  <2>2. OfficialIsRead(Head(updates).official) /\ Head(updates) \in Updates
    BY <1>2, QueueTaken DEF AllIsRead
  <2>3. OfficialIsRead(monitor'.official)
    BY <1>2, <2>2, AppliedReads DEF RuntimeApply, Types, RuntimeTypes
  <2>4. ASSUME NEW i \in DOMAIN updates'
        PROVE  OfficialIsRead(updates'[i].official)
    <3>1. PICK b : updates'[i] = [updates[i + 1] EXCEPT !.late = b]
      BY <1>2, QueueTaken DEF SameButLate
    <3>2. i + 1 \in DOMAIN updates /\ updates[i + 1] \in Updates
      BY <1>2, QueueTaken, Elements
    <3>3. updates'[i].official = updates[i + 1].official
      BY <3>1, <3>2 DEF Updates
    <3> QED BY <3>2, <3>3 DEF AllIsRead
  <2> QED BY <2>1, <2>3, <2>4 DEF AllIsRead
<1>3. CASE SessionNext /\ UNCHANGED <<monitor, since>>
  <2>1. WorkerIsRead' /\ WorkerIsRead /\ Types'
    BY <1>3, WorkerReads, TypesStep DEF AllIsRead, Next
  <2>2. updates \in Seq(Updates) /\ \A i \in DOMAIN updates : OfficialIsRead(updates[i].official)
    BY DEF AllIsRead, Types, ChannelTypes
  <2>3. ASSUME NEW q \in Seq(Updates), NEW u \in Updates, OfficialIsRead(u.official),
               \A i \in DOMAIN q : OfficialIsRead(q[i].official)
        PROVE  \A i \in DOMAIN Append(q, u) : OfficialIsRead(Append(q, u)[i].official)
    BY <2>3, Appended, Elements
  <2>4. HealthOnly \in Updates /\ OfficialIsRead(HealthOnly.official)
    BY EmptyShapes DEF HealthOnly, Snapshot, OfficialIsRead, LiveIsRead, NoStatus, Endpoints
  <2>5. Append(updates, HealthOnly) \in Seq(Updates)
    BY <2>2, <2>4, Appended
  <2>6. \A i \in DOMAIN updates' : OfficialIsRead(updates'[i].official)
    BY <1>3, <2>1, <2>2, <2>3, <2>4, <2>5, QueueMoves
  <2> QED BY <1>3, <2>1, <2>6 DEF AllIsRead
<1> QED BY <1>1, <1>2, <1>3 DEF Next

-----------------------------------------------------------------------------
(* A clean queue stays clean, and a barrier cleans it. *)

LEMMA CleanAppended ==
  ASSUME Types, UNCHANGED monitor, NEW u \in Updates, updates' = Append(updates, u),
         NEW s, UpdateFrom(u, s), Clean(s)
  PROVE  Clean(s)'
<1>1. PICK k \in 0..Len(updates) : CleanAfter(s, k)
  BY DEF Clean
<1>2. /\ Len(updates) \in Nat /\ DOMAIN updates = 1..Len(updates) /\ Len(updates') = Len(updates) + 1
      /\ DOMAIN updates' = 1..(Len(updates) + 1) /\ updates'[Len(updates) + 1] = u
      /\ \A i \in DOMAIN updates : updates'[i] = updates[i]
  BY Appended, Elements DEF Types, ChannelTypes
<1>3. k \in 0..Len(updates') /\ (k = 0 \/ k \in DOMAIN updates)
  BY <1>2
<1>4. ASSUME NEW j \in DOMAIN updates', j > k
      PROVE  UpdateFrom(updates'[j], s)
  <2>1. j \in DOMAIN updates \/ j = Len(updates) + 1
    BY <1>2
  <2> QED BY <1>1, <1>2, <1>4, <2>1 DEF CleanAfter
<1>5. IF k = 0 THEN ShownFrom(monitor', s) ELSE Barrier(updates'[k], s)
  BY <1>1, <1>2, <1>3 DEF CleanAfter
<1>6. CleanAfter(s, k)'
  BY <1>4, <1>5 DEF CleanAfter
<1> QED BY <1>3, <1>6 DEF Clean

LEMMA CleanBarrier ==
  ASSUME Types, NEW u \in Updates, updates' = Append(updates, u), NEW s, Barrier(u, s)
  PROVE  Clean(s)'
<1>1. /\ Len(updates) \in Nat /\ Len(updates') = Len(updates) + 1
      /\ DOMAIN updates' = 1..(Len(updates) + 1) /\ updates'[Len(updates) + 1] = u
  BY Appended, Elements DEF Types, ChannelTypes
<1>2. PICK k : k = Len(updates) + 1
  OBVIOUS
<1>3. k # 0 /\ k \in 0..Len(updates') /\ \A j \in DOMAIN updates' : ~(j > k)
  BY <1>1, <1>2
<1>4. CleanAfter(s, k)'
  BY <1>1, <1>2, <1>3 DEF CleanAfter
<1> QED BY <1>3, <1>4 DEF Clean

LEMMA CleanTaken ==
  ASSUME Types, AllIsRead, RuntimeApply, NEW s \in Data, Clean(s)
  PROVE  Clean(s)'
<1>1. PICK k \in 0..Len(updates) : CleanAfter(s, k)
  BY DEF Clean
<1>2. /\ Head(updates) \in Updates /\ Head(updates) = updates[1] /\ 1 \in DOMAIN updates
      /\ Len(updates) \in Nat /\ DOMAIN updates = 1..Len(updates)
      /\ Len(updates') = Len(updates) - 1 /\ DOMAIN updates' = 1..(Len(updates) - 1)
      /\ monitor \in Monitors /\ monitor' = ApplySessionUpdate(monitor, Head(updates))
  BY QueueTaken DEF Types, RuntimeTypes, RuntimeApply
<1>3. ASSUME NEW i \in DOMAIN updates'
      PROVE  /\ i + 1 \in DOMAIN updates /\ i \in Nat
             /\ UpdateFrom(updates'[i], s) <=> UpdateFrom(updates[i + 1], s)
             /\ Barrier(updates'[i], s) <=> Barrier(updates[i + 1], s)
  <2>1. PICK b : updates'[i] = [updates[i + 1] EXCEPT !.late = b]
    BY QueueTaken DEF SameButLate
  <2>2. i + 1 \in DOMAIN updates /\ updates[i + 1] \in Updates /\ i \in Nat
    BY <1>2, QueueTaken, Elements
  <2>3. UpdateFrom(updates'[i], s) <=> UpdateFrom(updates[i + 1], s)
    BY <2>1, <2>2, SameFrom
  <2>4. updates'[i].reset = updates[i + 1].reset
    BY <2>1, <2>2, SameFrom
  <2>5. Healthy(updates'[i]) <=> Healthy(updates[i + 1])
    BY <2>1, <2>2 DEF Healthy, Updates
  <2> QED BY <2>2, <2>3, <2>4, <2>5 DEF Barrier
<1>4. OfficialIsRead(Head(updates).official)
  BY <1>2 DEF AllIsRead
<1>5. CASE k \in {0, 1}
  <2>1. \A j \in DOMAIN updates : j > 1 => UpdateFrom(updates[j], s)
    BY <1>1, <1>2, <1>5 DEF CleanAfter
  <2>2. \A i \in DOMAIN updates' : UpdateFrom(updates'[i], s)
    BY <1>2, <1>3, <2>1
  <2>3. ShownFrom(monitor', s)
    <3>1. CASE k = 0
      <4>1. ShownFrom(monitor, s) /\ UpdateFrom(Head(updates), s)
        BY <1>1, <1>2, <3>1 DEF CleanAfter
      <4> QED BY <1>2, <1>4, <4>1, AppliedShown
    <3>2. CASE k = 1
      <4>1. Barrier(Head(updates), s)
        BY <1>1, <1>2, <3>2 DEF CleanAfter
      <4> QED BY <1>2, <1>4, <4>1, AppliedShown DEF Barrier
    <3> QED BY <1>5, <3>1, <3>2
  <2>4. 0 \in 0..Len(updates') /\ CleanAfter(s, 0)'
    BY <1>2, <2>2, <2>3 DEF CleanAfter
  <2> QED BY <2>4 DEF Clean
<1>6. CASE k > 1
  <2>1. PICK i : i = k - 1
    OBVIOUS
  <2>2. i \in DOMAIN updates' /\ i # 0 /\ i + 1 = k /\ i \in 0..Len(updates')
    BY <1>2, <1>6, <2>1
  <2>3. Barrier(updates'[i], s)
    BY <1>1, <1>3, <1>6, <2>2 DEF CleanAfter
  <2>4. ASSUME NEW j \in DOMAIN updates', j > i
        PROVE  UpdateFrom(updates'[j], s)
    <3>1. j + 1 \in DOMAIN updates /\ j + 1 > k
      BY <1>2, <1>3, <2>2, <2>4
    <3> QED BY <1>1, <1>3, <3>1 DEF CleanAfter
  <2>5. CleanAfter(s, i)'
    BY <2>2, <2>3, <2>4 DEF CleanAfter
  <2> QED BY <2>2, <2>5 DEF Clean
<1>7. k \in {0, 1} \/ k > 1
  BY <1>2
<1> QED BY <1>5, <1>6, <1>7

(* A published snapshot of what the worker has may join the queue. *)
LEMMA SnapshotJoins ==
  ASSUME LeakInv, SessionNext, UNCHANGED <<monitor, since>>, NEW d \in {data, data'}, NEW st \in Statuses,
         NEW h \in Healths, NEW fr \in BOOLEAN, NEW r \in Nat, NEW z \in {NoData, resetBy},
         NEW s \in Data, Known(s), Publish(Snapshot(d, st, h, fr, r, z))
  PROVE  \E u \in Updates : updates' = Append(updates, u) /\ u.reset = z /\ UpdateFrom(u, s)
<1>1. d \in States /\ z \in Data
  BY TypesStep, EmptyShapes DEF LeakInv, Next, Types, WorkerTypes
<1>2. PICK u \in Updates : u = Snapshot(d, st, h, fr, r, z)
  BY <1>1, SnapshotShape
<1>3. u.reset = z /\ \A f : UpdateFrom(u, f) <=> StateFrom(d, f)
  BY <1>2, SnapshotFrom
<1>4. MayJoin(u)
  BY <1>3, PlainJoins DEF Next
<1> QED BY <1>2, <1>3, <1>4 DEF MayJoin, Publish

LEMMA SettledStays ==
  ASSUME LeakInv, SessionNext, UNCHANGED <<monitor, since>>, ~NotConnected, ~NotConnected',
         NEW s \in Data, Settled(s)
  PROVE  Settled(s)'
<1> USE DEF server, link, locals, round, retries, flags, environment
<1>1. Types /\ Known(s) /\ Known(s)'
  BY KnownStep DEF LeakInv, Next, Settled
<1>2. /\ data \in States /\ tracker \in Statuses /\ revision \in Nat /\ revision' \in Nat
      /\ health' \in Healths /\ health \in Healths /\ tracker' \in Statuses
      /\ FreshnessFor \in BOOLEAN /\ (succeeded \/ FreshnessFor) \in BOOLEAN /\ TRUE \in BOOLEAN
      /\ {"Healthy", "Degraded"} \subseteq Healths
  <2>1. Types /\ Types'
    BY <1>1, TypesStep DEF Next
  <2> QED BY <2>1 DEF Types, WorkerTypes, CounterTypes, SwitchTypes, FreshnessFor, Healths
<1>3. CASE UNCHANGED <<updates, resetBy>>
  <2>1. Clean(s) => Clean(s)'
    BY <1>3 DEF Clean, CleanAfter
  <2> QED BY <1>1, <1>3, <2>1 DEF Settled
<1>4. ASSUME NEW u \in Updates, updates' = Append(updates, u), UpdateFrom(u, s),
             resetBy # NoData => u.reset # NoData
      PROVE  Settled(s)'
  <2>1. CASE Clean(s)
    BY <1>1, <1>4, <2>1, CleanAppended DEF Settled
  <2>2. CASE resetBy # NoData
    BY <1>1, <1>4, <2>2, CleanBarrier DEF Settled, Barrier
  <2> QED BY <2>1, <2>2 DEF Settled
<1>5. CASE EndRefresh
  BY <1>1, <1>2, <1>4, <1>5, SnapshotJoins DEF EndRefresh
<1>6. pc = "loop" => resetBy = NoData
  BY DEF LeakInv, RoundIsOver
<1>7. CASE LoopRefreshDue /\ UNCHANGED <<resetBy>>
  BY <1>1, <1>2, <1>3, <1>4, <1>6, <1>7, SnapshotJoins DEF LoopRefreshDue
<1>8. CASE (EventLimits \/ EventNoise)
  BY <1>1, <1>2, <1>4, <1>6, <1>8, SnapshotJoins DEF EventLimits, EventNoise, Event
<1>9. CASE EventTokens
  <2>1. Publish(Snapshot(data', tracker, "Healthy", TRUE, revision', NoData)) /\ pc = "loop"
    BY <1>9 DEF EventTokens, Event
  <2> QED BY <1>1, <1>2, <1>4, <1>6, <2>1, SnapshotJoins
<1>10. CASE EventAccount
  <2>1. PICK v : v = Head(events).version
    OBVIOUS
  <2>2. v \in Data /\ Known(v)'
    BY <1>10, <2>1, ResetIsFloor
  <2>3. CASE resetBy' # NoData
    BY <1>1, <2>3 DEF Settled
  <2>4. CASE resetBy' = NoData
    <3>1. Clean(s)
      BY <1>6, <1>10 DEF EventAccount, Event, Settled
    <3>2. updates' = updates \/ Publish(Snapshot(data', tracker', "Healthy", TRUE, revision', v))
      BY <1>10, <2>1 DEF EventAccount
    <3>3. CASE updates' = updates
      <4>1. Clean(s)'
        BY <3>1, <3>3 DEF Clean, CleanAfter
      <4> QED BY <1>1, <4>1 DEF Settled
    <3>4. CASE Publish(Snapshot(data', tracker', "Healthy", TRUE, revision', v))
      <4>1. data' \in States
        BY <1>1, TypesStep DEF Next, Types, WorkerTypes
      <4>2. PICK u \in Updates : u = Snapshot(data', tracker', "Healthy", TRUE, revision', v)
        BY <1>2, <2>2, <4>1, SnapshotShape
      <4>3. UpdateFrom(u, s)
        BY <1>1, <4>2, SnapshotFrom DEF Known
      <4>4. updates' = Append(updates, u)
        BY <3>4, <4>2 DEF Publish
      <4>5. Clean(s)'
        BY <1>1, <3>1, <4>3, <4>4, CleanAppended
      <4> QED BY <1>1, <4>5 DEF Settled
    <3> QED BY <3>2, <3>3, <3>4
  <2> QED BY <2>3, <2>4
<1>11. CASE (LoopRequested \/ EventReady \/ (LoopRefreshDue /\ ~UNCHANGED resetBy))
  <2>1. UNCHANGED updates /\ resetBy = NoData
    BY <1>6, <1>11 DEF LoopRequested, EventReady, LoopRefreshDue, Event, BeginRefresh
  <2>2. Clean(s) => Clean(s)'
    BY <2>1 DEF Clean, CleanAfter
  <2> QED BY <1>1, <2>1, <2>2 DEF Settled
<1>12. CASE TakeAnswer \/ MissAnswer \/ Handle \/ Environment
  BY <1>3, <1>12 DEF TakeAnswer, MissAnswer, Handle, RequestRefresh, Stop, Environment, ServerSwitches,
      ServerMoves, ServerTalks, ServerAnswers, HandshakeDone, LinkEnds, DataAges
<1>13. ~Connect /\ ~Offline /\ ~LoopCancelled /\ ~EventEnded
  BY DEF Connect, Offline, FactoryFails, BackoffFails, CancelledOffline, LoopCancelled, EventEnded, NotConnected
<1> QED BY <1>5, <1>7, <1>8, <1>9, <1>10, <1>11, <1>12, <1>13
        DEF SessionNext, Worker, Refreshing, Loop, HandleEvent

(* The announcement of a switch is taken: from then on it is settled. *)
LEMMA AnnouncementSettles ==
  ASSUME LeakInv, EventAccount, UNCHANGED <<monitor, since>>, NEW v \in Versions, v = Head(events).version
  PROVE  Settled(v)'
<1> USE DEF server, link, locals, round, retries, flags, environment
<1>1. v \in Data /\ Known(v)' /\ v # NoData
  BY ResetIsFloor, SessionAssumption DEF Versions, NoData
<1>2. CASE ready
  <2>1. resetBy' = v
    BY <1>2 DEF EventAccount, BeginRefresh
  <2> QED BY <1>1, <2>1 DEF Settled
<1>3. CASE ~ready
  <2>1. [Next]_vars
    BY DEF Next, SessionNext, Worker, Loop, HandleEvent
  <2>2. Types /\ data' \in States /\ tracker' \in Statuses /\ revision' \in Nat /\ TRUE \in BOOLEAN /\ "Healthy" \in Healths
    BY <2>1, TypesStep DEF LeakInv, Types, WorkerTypes, CounterTypes, Healths
  <2>3. PICK u \in Updates : u = Snapshot(data', tracker', "Healthy", TRUE, revision', v)
    BY <1>1, <2>2, SnapshotShape
  <2>4. u.reset = v /\ UpdateFrom(u, v)
    <3>1. StateFrom(data', v)
      BY <1>1 DEF Known, StateFrom
    <3>2. u.reset = v
      BY <2>3 DEF Snapshot
    <3>3. UpdateFrom(u, v)
      BY <2>3, <3>1 DEF Snapshot, UpdateFrom, StateFrom
    <3> QED BY <3>2, <3>3
  <2>5. updates' = Append(updates, u)
    BY <1>3, <2>3 DEF EventAccount, Publish
  <2>6. Clean(v)'
    BY <1>1, <2>2, <2>4, <2>5, CleanBarrier DEF Barrier
  <2> QED BY <1>1, <2>6 DEF Settled
<1> QED BY <1>2, <1>3

(* A new connection starts from nothing, behind a dark screen. *)
LEMMA ConnectionSettles ==
  ASSUME LeakInv, DarkAhead, EndIsTold, Connect, UNCHANGED <<monitor, since>>,
         NEW s \in Data, s <= version
  PROVE  Settled(s)'
<1> USE DEF server, link, locals, round, retries, flags
<1>1. /\ NotConnected /\ events = <<>> /\ events' = <<>> /\ version' = version
      /\ data' = EmptyData /\ answers' = NoAnswers /\ updates' = updates
  BY DEF Connect, EndIsTold, NotConnected, FreshLocals, LeakInv, RoundIsOver
<1>2. Known(s)'
  BY <1>1, EmptyFrom DEF Known, EventsFrom, StateFrom
<1>3. /\ updates \in Seq(Updates) /\ Len(updates) \in Nat /\ DOMAIN updates = 1..Len(updates)
      /\ (updates = <<>> <=> Len(updates) = 0)
  BY Elements DEF LeakInv, Types, ChannelTypes
<1>4. CASE updates = <<>>
  <2>1. CleanAfter(s, 0)'
    <3>1. ShownData(monitor) = {} /\ monitor' = monitor
      BY <1>1, <1>4 DEF DarkAhead, NothingShown
    <3>2. ShownFrom(monitor', s)
      BY <3>1 DEF ShownFrom
    <3>3. DOMAIN updates' = {}
      BY <1>1, <1>4
    <3> QED BY <3>2, <3>3 DEF CleanAfter
  <2>2. 0 \in 0..Len(updates')
    BY <1>1, <1>3
  <2>3. Clean(s)'
    BY <2>1, <2>2 DEF Clean
  <2> QED BY <1>2, <2>3 DEF Settled
<1>5. CASE updates # <<>>
  <2>1. PICK k : k = Len(updates)
    OBVIOUS
  <2>2. k # 0 /\ k \in 0..Len(updates') /\ \A j \in DOMAIN updates' : ~(j > k)
    BY <1>1, <1>3, <1>5, <2>1
  <2>3. Barrier(updates'[k], s)
    BY <1>1, <1>5, <2>1 DEF DarkAhead, Barrier
  <2>4. CleanAfter(s, k)'
    BY <2>2, <2>3 DEF CleanAfter
  <2>5. Clean(s)'
    BY <2>2, <2>4 DEF Clean
  <2> QED BY <1>2, <2>5 DEF Settled
<1> QED BY <1>4, <1>5

(* How the channel of a connection moves while the connection lasts. *)
LEMMA NoticeTaken ==
  ASSUME Types, Types', SessionNext, ~NotConnected, ~NotConnected'
  PROVE  \/ events' = events
         \/ \E e \in Notices : events' = Append(events, e)
         \/ /\ events # <<>> /\ events' = Tail(events) /\ Head(events).kind # "ended"
            /\ Head(events).kind = "account" => EventAccount
<1> USE DEF server, link, locals, round, retries, flags
<1>1. CASE TakesNotice
  BY <1>1 DEF TakesNotice, EventReady, EventAccount, EventLimits, EventTokens, EventNoise, Event, Taken
<1>2. CASE Works
  BY <1>2 DEF Works, Refreshing, TakeAnswer, MissAnswer, EndRefresh, RoundOver, LoopRequested,
      LoopRefreshDue, BeginRefresh, Handle, RequestRefresh, Stop, Offline, FactoryFails,
      BackoffFails, CancelledOffline
<1>3. CASE Environment
  BY <1>3, Announcements
<1>4. ~Connect /\ ~LoopCancelled /\ ~EventEnded
  BY DEF Connect, LoopCancelled, EventEnded, NotConnected
<1> QED BY <1>1, <1>2, <1>3, <1>4
        DEF SessionNext, Worker, Loop, HandleEvent, Works, TakesNotice

LEMMA SafeStep ==
  ASSUME CurrentInv, [Next]_vars, NEW s \in switchedAt'
  PROVE  s <= version' /\ Safe(s)'
<1> USE DEF server, link, locals, round, retries, flags, environment
<1>1. /\ LeakInv /\ DarkAhead /\ EndIsTold /\ AllIsRead /\ Types /\ Types' /\ EndIsTold'
      /\ version <= version' /\ version \in Nat /\ version' \in Nat
  <2>1. LeakInv /\ DarkAhead /\ EndIsTold /\ AllIsRead /\ Types
    BY DEF CurrentInv, LeakInv
  <2>2. Types' /\ EndIsTold' /\ version <= version'
    BY <2>1, TypesStep, EndStep, ChannelStep
  <2> QED BY <2>1, <2>2, SessionAssumption DEF Types, CounterTypes, Versions
<1>2. CASE ServerSwitches /\ s = version' /\ UNCHANGED <<monitor, since>>
  <2>1. CASE up
    <3>1. PICK e \in Notices : e = [kind |-> "account", version |-> s]
      BY <1>1, <1>2, NoticesMade DEF Types, CounterTypes
    <3>2. events' = Append(events, e) /\ e.kind = "account" /\ e.version = s
      BY <1>2, <2>1, <3>1 DEF ServerSwitches, Notify
    <3>3. Pending(s)'
      BY <1>1, <3>2, PendingAppended
    <3> QED BY <1>1, <1>2, <3>3 DEF Safe
  <2>2. CASE ~up
    <3>1. (NotConnected \/ EndPending) /\ UNCHANGED <<pc, events>>
      BY <1>1, <1>2, <2>2 DEF EndIsTold, ServerSwitches, Notify
    <3>2. NotConnected' \/ EndPending'
      BY <3>1 DEF NotConnected, EndPending
    <3> QED BY <1>1, <1>2, <3>2 DEF Safe
  <2> QED BY <2>1, <2>2
<1>3. s \in switchedAt \/ (ServerSwitches /\ s = version' /\ UNCHANGED <<monitor, since>>)
  BY DEF Next, SessionNext, Worker, RuntimeApply, Connect, Offline, FactoryFails, BackoffFails,
      CancelledOffline, Refreshing, TakeAnswer, MissAnswer, EndRefresh, Loop,
      LoopCancelled, LoopRequested, LoopRefreshDue, HandleEvent, EventReady, EventAccount,
      EventLimits, EventTokens, EventNoise, EventEnded, Handle, RequestRefresh, Stop,
      Environment, ServerSwitches, ServerMoves, ServerTalks, ServerAnswers, HandshakeDone, LinkEnds,
      DataAges, vars, sessionVars
<1>4. CASE s \in switchedAt
  <2>1. /\ s <= version /\ Safe(s) /\ s \in Versions /\ s \in Data /\ s \in Nat
    BY <1>1, <1>4, SessionAssumption DEF CurrentInv, Types, CounterTypes, Data, Versions
  <2>2. s <= version'
    BY <1>1, <2>1
  <2>3. CASE RuntimeApply
    <3>1. UNCHANGED <<pc, events, resetBy>>
      BY <2>3 DEF RuntimeApply
    <3>2. Settled(s) => Settled(s)'
      BY <1>1, <2>1, <2>3, <3>1, CleanTaken, KnownStep DEF Settled, Next
    <3> QED BY <2>1, <2>2, <3>1, <3>2 DEF Safe, NotConnected, EndPending, Pending
  <2>4. CASE UNCHANGED vars
    <3>1. /\ UNCHANGED <<pc, events, resetBy, updates, monitor>>
      BY <2>4 DEF vars, sessionVars
    <3>2. Clean(s) => Clean(s)'
      BY <3>1 DEF Clean, CleanAfter
    <3>3. Settled(s) => Settled(s)'
      BY <1>1, <2>1, <3>1, <3>2, KnownStep DEF Settled
    <3> QED BY <2>1, <2>2, <3>1, <3>3 DEF Safe, NotConnected, EndPending, Pending
  <2>5. CASE SessionNext /\ UNCHANGED <<monitor, since>>
    <3>1. CASE NotConnected'
      BY <2>2, <3>1 DEF Safe
    <3>2. CASE ~NotConnected' /\ NotConnected
      <4>1. Connect
        BY <2>5, <3>2 DEF SessionNext, Worker, Offline, FactoryFails, BackoffFails, CancelledOffline,
            Refreshing, TakeAnswer, MissAnswer, EndRefresh, Loop, LoopCancelled, LoopRequested,
            LoopRefreshDue, HandleEvent, EventReady, EventAccount, EventLimits, EventTokens, EventNoise,
            EventEnded, Event, Handle, RequestRefresh, Stop, Environment, ServerSwitches, ServerMoves,
            ServerTalks, ServerAnswers, HandshakeDone, LinkEnds, DataAges, NotConnected
      <4>2. Settled(s)'
        BY <1>1, <2>1, <2>5, <4>1, ConnectionSettles
      <4> QED BY <2>2, <4>2 DEF Safe
    <3>3. CASE ~NotConnected' /\ ~NotConnected
      <4>1. CASE Settled(s)
        BY <1>1, <2>1, <2>2, <2>5, <3>3, <4>1, SettledStays DEF Safe
      <4>2. CASE EndPending \/ Pending(s)
        <5>1. CASE events' = events
          BY <2>2, <4>2, <5>1 DEF Safe, EndPending, Pending
        <5>2. CASE \E e \in Notices : events' = Append(events, e)
          BY <1>1, <2>2, <4>2, <5>2, PendingAppended DEF Safe
        <5>3. CASE /\ events # <<>> /\ events' = Tail(events) /\ Head(events).kind # "ended"
                   /\ Head(events).kind = "account" => EventAccount
          <6>1. CASE EndPending' \/ Pending(s)'
            BY <2>2, <6>1 DEF Safe
          <6>2. CASE Head(events).kind = "account" /\ Head(events).version = s
            BY <1>1, <2>1, <2>2, <2>5, <5>3, <6>2, AnnouncementSettles DEF Safe
          <6> QED BY <1>1, <4>2, <5>3, <6>1, <6>2, PendingTail
        <5> QED BY <1>1, <2>5, <3>3, <5>1, <5>2, <5>3, NoticeTaken
      <4> QED BY <2>1, <3>3, <4>1, <4>2 DEF Safe
    <3> QED BY <3>1, <3>2, <3>3
  <2> QED BY <2>3, <2>4, <2>5 DEF Next
<1> QED BY <1>2, <1>3, <1>4

(* When the worker and the runtime have caught up with a live server, all   *)
(* that is shown as current belongs to the account that is logged in, for    *)
(* every number of switches, connections and queued updates.                *)
THEOREM ShownBelongsToAccount == Spec => []ShownIsCurrent
<1>1. Init => CurrentInv
  <2> SUFFICES ASSUME Init PROVE CurrentInv
    OBVIOUS
  <2>1. DarkAhead
    BY DEF Init, SessionInit, DarkAhead, NothingShown, ShownData, Visible, EmptyMonitor,
           UnknownWindow, EmptyOfficial, NoStatus, Endpoints
  <2>2. EndIsTold /\ switchedAt = {}
    BY DEF Init, SessionInit, EndIsTold, NotConnected
  <2>3. AllIsRead
    BY DEF Init, SessionInit, AllIsRead, WorkerIsRead, OfficialIsRead, LiveIsRead, EmptyMonitor,
           EmptyOfficial, NoStatus, Endpoints
  <2> QED BY <2>1, <2>2, <2>3, LeakInit DEF CurrentInv
<1>2. CurrentInv /\ [Next]_vars => CurrentInv'
  BY LeakStep, DarkStep, EndStep, ReadsStep, SafeStep DEF CurrentInv, LeakInv
<1>3. CurrentInv => ShownIsCurrent
  <2> SUFFICES ASSUME CurrentInv, CaughtUp, NEW v \in ShownData(monitor)
               PROVE  Account(v) = Account(version)
    BY DEF ShownIsCurrent
  <2>1. ~NotConnected /\ ~EndPending /\ resetBy = NoData /\ updates = <<>>
    BY DEF CurrentInv, CaughtUp, NotConnected, EndIsTold, LeakInv, RoundIsOver
  <2>2. ASSUME NEW s \in switchedAt
        PROVE  s <= v /\ s <= version
    <3>1. ~Pending(s)
      BY DEF CaughtUp, Pending
    <3>2. Clean(s) /\ s <= version
      BY <2>1, <3>1 DEF CurrentInv, Safe, Settled
    <3>3. ShownFrom(monitor, s)
      <4>1. PICK k \in 0..Len(updates) : CleanAfter(s, k)
        BY <3>2 DEF Clean
      <4>2. k = 0
        BY <2>1
      <4> QED BY <4>1, <4>2 DEF CleanAfter
    <3>4. v >= s /\ s \in Nat
      BY <3>3, SessionAssumption DEF ShownFrom, CurrentInv, LeakInv, Types, CounterTypes, Versions
    <3>5. v \in Nat
      <4>1. monitor \in Monitors
        BY DEF CurrentInv, LeakInv, Types, RuntimeTypes
      <4>2. v \in Data
        BY <4>1 DEF ShownData, Visible, Monitors, WindowStates, OfficialStates
      <4> QED BY <4>2, DataNumbers
    <3> QED BY <3>2, <3>4, <3>5
  <2>3. {s \in switchedAt : s <= v} = {s \in switchedAt : s <= version}
    BY <2>2
  <2> QED BY <2>3 DEF Account
<1> QED BY <1>1, <1>2, <1>3, PTL DEF Spec
=============================================================================
