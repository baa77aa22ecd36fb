------------------------------- MODULE Session -------------------------------
(***************************************************************************)
(* The Codex session worker                                                *)
(* (crates/adapters-codex-app-server/src/session.rs): it connects, reads   *)
(* the account, its rate limits and its usage, merges notifications,       *)
(* publishes snapshots and reconnects.                                     *)
(*                                                                         *)
(* The transport is seen through the contract of module ReplyContract: a   *)
(* request is answered by the server at most once, refused, closed or      *)
(* timed out, and the end of the pipe is an event.  What matters of its    *)
(* ordering is kept: notifications queue in the event channel while a      *)
(* refresh blocks the worker, answers reach it directly.                   *)
(*                                                                         *)
(* The account state of the server is one version number.  Some versions   *)
(* are the login of another account.  A datum is the version it was read   *)
(* from; NoData is None.  Activity events are left to another module.      *)
(***************************************************************************)
EXTENDS Monitor, Sequences, FiniteSets

CONSTANTS
  MaxVersion,      \* bound: versions of the server's account state
  MaxConnections,  \* bound: transports the factory may produce
  MaxAttempts,     \* CodexSessionConfig.max_reconnect_attempts (0: no limit)
  MaxQueue,        \* bound: updates the runtime leaves unread
  MaxExtra,        \* bound: user refreshes, due refreshes, token and noise events
  WeeklyOnly       \* accounts (0 is the first) without a five hour window

ASSUME SessionAssumption ==
  /\ MaxVersion \in Nat \ {0} /\ MaxConnections \in Nat \ {0}
  /\ MaxAttempts \in Nat /\ MaxQueue \in Nat \ {0} /\ MaxExtra \in Nat
  /\ WeeklyOnly \subseteq Nat

Versions == 1..MaxVersion
RefreshOrder == <<"account", "quota", "usage">>

VARIABLES
  version, switchedAt,            \* server: its state, the versions that changed the account
  conn, up, ready,                \* transports made so far; is_alive and is_ready of the last
  events,                         \* its event channel
  answers,                        \* answers on the reply channels of the refresh under way
  pc,                             \* "factory" | "loop" | "refresh" | "backoff" | "stopped"
  nested,                         \* run_transport was entered by reconnect_from_factory
  attempt, retry,                 \* run_factory's and reconnect_from_factory's counters
  data, tracker, health, lastData, revision,     \* run_transport's locals
  todo, resetBy, failed, succeeded,              \* refresh's locals
  cancelled, refreshRequested,    \* Cancellation
  updates,                        \* the channel of SessionUpdates to the runtime
  failures,                       \* history: factory calls failed in a row
  extra                           \* bound: uses of MaxExtra

server == <<version, switchedAt>>
link   == <<conn, up, ready, events, answers>>
locals == <<data, tracker, health, lastData, revision>>
round  == <<todo, resetBy, failed, succeeded>>
retries == <<nested, attempt, retry, failures>>
flags  == <<cancelled, refreshRequested>>
sessionVars == <<server, link, pc, retries, locals, round, flags, updates, extra>>

-----------------------------------------------------------------------------
(* The server's account state. *)

Account(v) == Cardinality({s \in switchedAt : s <= v})
Offered(v) == IF Account(v) \in WeeklyOnly THEN Windows \ {"fiveHour"} ELSE Windows

EmptyData == [account |-> NoData, windows |-> [w \in Windows |-> NoData],
              usage |-> NoData, tokens |-> NoData]

NoAnswers == [k \in Endpoints |-> NoData]

(* apply_response: a full read replaces its part of the state. *)
Replace(d, endpoint, v) ==
  CASE endpoint = "account" -> [d EXCEPT !.account = v]
    [] endpoint = "quota"   -> [d EXCEPT !.windows = [w \in Windows |->
                                                       IF w \in Offered(v) THEN v ELSE NoData]]
    [] endpoint = "usage"   -> [d EXCEPT !.usage = v]

(* merge_rate_limits: a window the notification leaves out keeps its value. *)
MergeLimits(d, windows, v) ==
  [d EXCEPT !.windows = [w \in Windows |-> IF w \in windows THEN v ELSE d.windows[w]]]

FreshnessFor == lastData = "recent"

(* OfficialEndpointTracker: each endpoint keeps a status of its own. *)
MarkLive(statuses, endpoint)   == [statuses EXCEPT ![endpoint] = "live"]
MarkFailed(statuses, endpoint) == [statuses EXCEPT ![endpoint] = Cached(@)]

(* apply_notification_endpoint_status: only a limits patch proves an endpoint. *)
NotificationEndpointStatus(statuses, notice) ==
  IF notice.kind = "limits" THEN MarkLive(statuses, "quota") ELSE statuses

(* emit_state_with_reset: one snapshot of everything.  reset is the version *)
(* of the account/updated behind reset_account_scoped_state, or NoData.     *)
Snapshot(d, statuses, h, fresh, r, reset) ==
  [windows |-> d.windows, revision |-> r, tokens |-> d.tokens,
   official |-> [account |-> d.account, usage |-> d.usage, status |-> statuses],
   health |-> h, fresh |-> fresh, reset |-> reset, late |-> FALSE]

Publish(update) == Len(updates) < MaxQueue /\ updates' = Append(updates, update)

(* emit_health_only: the snapshot of an empty state. *)
HealthOnly == Snapshot(EmptyData, NoStatus, "Disconnected", FALSE, 0, NoData)

(* Locals that go out of scope, and answers nobody awaits any more. *)
RoundOver == /\ todo' = <<>> /\ resetBy' = NoData /\ failed' = FALSE /\ succeeded' = FALSE
             /\ answers' = NoAnswers
FreshLocals == /\ data' = EmptyData /\ tracker' = NoStatus /\ health' = "Starting"
               /\ lastData' = "none" /\ revision' = 0

(* Counters saturate where the code can no longer tell values apart. *)
Bump(n) == IF n > 2 * MaxAttempts THEN n ELSE n + 1
Spend == extra < MaxExtra /\ extra' = extra + 1

-----------------------------------------------------------------------------
(* Connecting: run_factory and reconnect_from_factory. *)

(* The factory made a transport: run_transport starts from nothing. *)
Connect ==
  /\ pc \in {"factory", "backoff"} /\ ~cancelled /\ conn < MaxConnections
  /\ conn' = conn + 1 /\ up' = TRUE /\ ready' = FALSE
  /\ FreshLocals
  /\ nested' = (pc = "backoff") /\ retry' = 0 /\ failures' = 0 /\ UNCHANGED attempt
  /\ pc' = "loop"
  /\ UNCHANGED <<server, events, answers, round, flags, updates, extra>>

(* run_factory: the factory failed. *)
FactoryFails ==
  /\ pc = "factory" /\ ~cancelled
  /\ attempt' = Bump(attempt) /\ failures' = Bump(failures)
  /\ IF MaxAttempts # 0 /\ attempt' > MaxAttempts
       THEN pc' = "stopped" /\ Len(updates) < MaxQueue /\ updates' = updates \o <<HealthOnly, HealthOnly>>
       ELSE UNCHANGED pc /\ Publish(HealthOnly)
  /\ UNCHANGED <<server, link, nested, retry, locals, round, flags, extra>>

(* reconnect_from_factory: the last state is published again as stale; when *)
(* it gives up, run_factory takes over with attempt = 1.                    *)
BackoffFails ==
  /\ pc = "backoff" /\ ~cancelled
  /\ Publish(Snapshot(data, tracker, "Disconnected", FALSE, revision, NoData))
  /\ retry' = Bump(retry) /\ failures' = Bump(failures)
  /\ IF MaxAttempts # 0 /\ retry' >= MaxAttempts
       THEN pc' = "factory" /\ attempt' = 1 /\ FreshLocals
       ELSE UNCHANGED <<pc, attempt, locals>>
  /\ UNCHANGED <<server, link, nested, round, flags, extra>>

(* Mutant: run_factory does not look at the flag. *)
CancelledInBackoff ==
  /\ pc = "backoff" /\ cancelled
  /\ pc' = "stopped" /\ FreshLocals
  /\ UNCHANGED <<server, link, retries, round, flags, updates, extra>>

(* cancel.wait and is_cancelled between attempts: nothing is published. *)
CancelledOffline ==
  /\ pc \in {"factory", "backoff"} /\ cancelled
  /\ pc' = "stopped" /\ FreshLocals
  /\ UNCHANGED <<server, link, retries, round, flags, updates, extra>>

-----------------------------------------------------------------------------
(* refresh: three requests go out, their answers are awaited in order and   *)
(* one snapshot is published.  A request refused by a dead transport ends   *)
(* like one that is closed.                                                 *)

(* Mutant: the refresh after account/updated forgets to ask for the reset. *)
BeginRefreshUnmarked(reset) ==
  /\ answers' = NoAnswers
  /\ todo' = RefreshOrder /\ resetBy' = NoData /\ failed' = FALSE /\ succeeded' = FALSE
  /\ pc' = "refresh"

BeginRefresh(reset) ==
  /\ answers' = NoAnswers
  /\ todo' = RefreshOrder /\ resetBy' = reset /\ failed' = FALSE /\ succeeded' = FALSE
  /\ pc' = "refresh"

(* apply_completed_response takes an answer that is valid; everything else,  *)
(* an error, an unusable result or none at all, is a failed endpoint.        *)
CompletedResponse(endpoint) == answers[endpoint] # NoData

TakeAnswer ==
  /\ pc = "refresh" /\ todo # <<>> /\ CompletedResponse(Head(todo))
  /\ data' = Replace(data, Head(todo), answers[Head(todo)])
  /\ tracker' = MarkLive(tracker, Head(todo))
  /\ revision' = revision + 1 /\ lastData' = "recent" /\ succeeded' = TRUE
  /\ todo' = Tail(todo) /\ answers' = [answers EXCEPT ![Head(todo)] = NoData]
  /\ UNCHANGED <<server, conn, up, ready, events, pc, retries, health, resetBy, failed, flags,
                 updates, extra>>

(* An error, an invalid result, a closed channel or recv_timeout giving up. *)
MissAnswer ==
  /\ pc = "refresh" /\ todo # <<>> /\ ~CompletedResponse(Head(todo))
  /\ tracker' = MarkFailed(tracker, Head(todo))
  /\ failed' = TRUE /\ todo' = Tail(todo)
  /\ UNCHANGED <<server, link, pc, retries, data, health, lastData, revision, resetBy,
                 succeeded, flags, updates, extra>>

EndRefresh ==
  /\ pc = "refresh" /\ todo = <<>>
  /\ health' = (IF failed THEN "Degraded" ELSE "Healthy")
  /\ Publish(Snapshot(data, tracker, health', succeeded \/ FreshnessFor, revision, resetBy))
  /\ RoundOver
  /\ pc' = "loop"
  /\ UNCHANGED <<server, conn, up, ready, events, retries, data, tracker, lastData, revision,
                 flags, extra>>

-----------------------------------------------------------------------------
(* run_transport's loop. *)

LoopCancelled ==
  /\ pc = "loop" /\ cancelled
  /\ up' = FALSE /\ ready' = FALSE /\ events' = <<>>
  /\ Publish(Snapshot(data, AllCached(tracker), "Stopped", FreshnessFor, revision, NoData))
  /\ pc' = "stopped" /\ FreshLocals
  /\ UNCHANGED <<server, conn, answers, retries, round, flags, extra>>

(* Mutant: the request is consumed before the transport is ready only. *)
LoopRequestedEarly ==
  /\ pc = "loop" /\ ~ready /\ refreshRequested
  /\ refreshRequested' = FALSE
  /\ BeginRefresh(NoData)
  /\ UNCHANGED <<server, conn, up, ready, events, retries, locals, cancelled, updates, extra>>

LoopRequested ==
  /\ pc = "loop" /\ ready /\ refreshRequested
  /\ refreshRequested' = FALSE
  /\ BeginRefresh(NoData)
  /\ UNCHANGED <<server, conn, up, ready, events, retries, locals, cancelled, updates, extra>>

(* next_refresh has passed and no event is waiting. *)
LoopRefreshDue ==
  /\ pc = "loop" /\ events = <<>> /\ Spend
  /\ \/ /\ ready /\ BeginRefresh(NoData) /\ UNCHANGED updates
     \/ /\ ~ready
        /\ Publish(Snapshot(data, tracker, health, FreshnessFor, revision, NoData))
        /\ UNCHANGED <<pc, answers, round>>
  /\ UNCHANGED <<server, conn, up, ready, events, retries, locals, flags>>

Event(kind) == pc = "loop" /\ events # <<>> /\ Head(events).kind = kind
Taken == events' = Tail(events)

EventReady ==
  /\ Event("ready") /\ Taken
  /\ health' = "Starting"
  /\ BeginRefresh(NoData)
  /\ UNCHANGED <<server, conn, up, ready, retries, data, tracker, lastData, revision, flags, updates, extra>>

(* What every notification does to the locals after it was merged. *)
Notified == revision' = revision + 1 /\ lastData' = "recent" /\ health' = "Healthy"

(* account/updated: reset_account_generation, then the patch is merged. *)
EventAccount ==
  LET v == Head(events).version IN
  /\ Event("account") /\ Taken
  /\ data' = [EmptyData EXCEPT !.account = v]
  /\ tracker' = NoStatus
  /\ Notified
  /\ IF ready
       THEN BeginRefresh(v) /\ UNCHANGED updates
       ELSE /\ Publish(Snapshot(data', tracker', "Healthy", TRUE, revision', v))
            /\ UNCHANGED <<pc, answers, round>>
  /\ UNCHANGED <<server, conn, up, ready, retries, flags, extra>>

(* account/rateLimits/updated marks the quota endpoint live. *)
EventLimits ==
  /\ Event("limits") /\ Taken
  /\ data' = MergeLimits(data, Head(events).windows, Head(events).version)
  /\ tracker' = NotificationEndpointStatus(tracker, Head(events))
  /\ Notified
  /\ Publish(Snapshot(data', tracker', "Healthy", TRUE, revision', NoData))
  /\ UNCHANGED <<server, conn, up, ready, answers, pc, retries, round, flags, extra>>

(* thread/tokenUsage/updated *)
EventTokens ==
  /\ Event("tokens") /\ Taken
  /\ data' = [data EXCEPT !.tokens = Head(events).version]
  /\ Notified
  /\ Publish(Snapshot(data', tracker, "Healthy", TRUE, revision', NoData))
  /\ UNCHANGED <<server, conn, up, ready, answers, pc, retries, tracker, round, flags, extra>>

(* ProtocolError or UnexpectedResponse *)
EventNoise ==
  /\ Event("noise") /\ Taken
  /\ health' = "Degraded"
  /\ Publish(Snapshot(data, tracker, "Degraded", FreshnessFor, revision, NoData))
  /\ UNCHANGED <<server, conn, up, ready, answers, pc, retries, data, tracker, lastData,
                 revision, round, flags, extra>>

(* StartupFailed, Eof or IoError.  Closed and a disconnected channel only    *)
(* follow a close or a drop of the transport, which end this loop.          *)
EventEnded ==
  /\ Event("ended") /\ events' = <<>>
  /\ Publish(Snapshot(data, AllCached(tracker), "Disconnected", FreshnessFor, revision, NoData))
  /\ IF nested
       THEN pc' = "factory" /\ attempt' = 1 /\ FreshLocals
       ELSE /\ pc' = "backoff" /\ tracker' = AllCached(tracker)
            /\ health' = "Disconnected" /\ lastData' = "none"
            /\ UNCHANGED <<attempt, data, revision>>
  /\ UNCHANGED <<server, conn, up, ready, answers, nested, retry, failures, round, flags, extra>>

(* stale_after passes without data. *)
DataAges ==
  /\ lastData = "recent" /\ lastData' = "old"
  /\ UNCHANGED <<server, link, pc, retries, data, tracker, health, revision, round, flags, updates, extra>>

-----------------------------------------------------------------------------
(* CodexSession: the handle the runtime holds. *)

RequestRefresh ==
  /\ ~refreshRequested /\ refreshRequested' = TRUE /\ Spend
  /\ UNCHANGED <<server, link, pc, retries, locals, round, cancelled, updates>>

Stop ==
  /\ ~cancelled /\ cancelled' = TRUE
  /\ UNCHANGED <<server, link, pc, retries, locals, round, refreshRequested, updates, extra>>

-----------------------------------------------------------------------------
(* The server and the pipe (environment). *)

environment == <<pc, retries, locals, round, flags, updates>>

Notify(notice) == events' = IF up THEN Append(events, notice) ELSE events

(* Another account logs in; a running server announces it. *)
ServerSwitches ==
  /\ version < MaxVersion /\ version' = version + 1
  /\ switchedAt' = switchedAt \cup {version'}
  /\ Notify([kind |-> "account", version |-> version'])
  /\ UNCHANGED <<conn, up, ready, answers, extra, environment>>

(* The limits move; the server may say so for some of the windows. *)
ServerMoves ==
  /\ version < MaxVersion /\ version' = version + 1
  /\ \/ UNCHANGED events
     \/ \E windows \in SUBSET Offered(version') \ {{}} :
          Notify([kind |-> "limits", version |-> version', windows |-> windows])
  /\ UNCHANGED <<switchedAt, conn, up, ready, answers, extra, environment>>

ServerTalks ==
  /\ up /\ Spend
  /\ \E kind \in {"tokens", "noise"} : Notify([kind |-> kind, version |-> version])
  /\ UNCHANGED <<server, conn, up, ready, answers, environment>>

(* A valid result for a request still awaited.  An error is a missed answer. *)
ServerAnswers ==
  /\ up
  /\ \E i \in DOMAIN todo : answers[todo[i]] = NoData
                          /\ answers' = [answers EXCEPT ![todo[i]] = version]
  /\ UNCHANGED <<server, conn, up, ready, events, extra, environment>>

HandshakeDone ==
  /\ up /\ ~ready /\ ready' = TRUE
  /\ Notify([kind |-> "ready"])
  /\ UNCHANGED <<server, conn, up, answers, extra, environment>>

LinkEnds ==
  /\ up /\ up' = FALSE /\ ready' = FALSE
  /\ events' = Append(events, [kind |-> "ended"])
  /\ UNCHANGED <<server, conn, answers, extra, environment>>

-----------------------------------------------------------------------------

SessionInit ==
  /\ version = 1 /\ switchedAt = {}
  /\ conn = 0 /\ up = FALSE /\ ready = FALSE /\ events = <<>>
  /\ answers = NoAnswers
  /\ pc = "factory" /\ nested = FALSE /\ attempt = 0 /\ retry = 0
  /\ data = EmptyData /\ tracker = NoStatus /\ health = "Starting"
  /\ lastData = "none" /\ revision = 0
  /\ todo = <<>> /\ resetBy = NoData /\ failed = FALSE /\ succeeded = FALSE
  /\ cancelled = FALSE /\ refreshRequested = FALSE
  /\ updates = <<>> /\ failures = 0 /\ extra = 0

Refreshing == TakeAnswer \/ MissAnswer \/ EndRefresh
Offline    == FactoryFails \/ BackoffFails \/ CancelledOffline
HandleEvent == \/ EventReady \/ EventAccount \/ EventLimits \/ EventTokens
               \/ EventNoise \/ EventEnded
Loop       == LoopCancelled \/ LoopRequested \/ LoopRefreshDue \/ HandleEvent
Worker     == Connect \/ Offline \/ Refreshing \/ Loop
Handle     == RequestRefresh \/ Stop
Environment == \/ ServerSwitches \/ ServerMoves \/ ServerTalks \/ ServerAnswers
               \/ HandshakeDone \/ LinkEnds \/ DataAges

SessionNext == Worker \/ Handle \/ Environment
=============================================================================
