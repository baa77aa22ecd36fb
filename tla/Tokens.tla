-------------------------------- MODULE Tokens --------------------------------
(***************************************************************************)
(* The token figures: three sources report the same turns to one record    *)
(* (TokenUsageState, domain/src/usage.rs), ordered by observation time     *)
(* alone.                                                                  *)
(*                                                                         *)
(* The App Server session stamps its usage when a token notification       *)
(* arrives and sends it again, with the old stamp, in every later update   *)
(* (session.rs).  The runtime takes updates from the channel, polls SQLite *)
(* and the session log (official_runtime.rs, run_loop) and decides which   *)
(* consumption pops up (ConsumptionPopupTracker).  How lines of the log    *)
(* become ledger days is in module LocalUsage; here the log is the         *)
(* sequence of turns, and turn n is the n-th.                              *)
(***************************************************************************)
EXTENDS Integers, Sequences

CONSTANTS
  MaxTurns,     \* bound: turns Codex finishes
  MaxTime,      \* bound: milliseconds that pass
  MaxAccounts,  \* bound: accounts logged in one after another
  MaxQueue      \* bound: updates the runtime leaves unread

ASSUME TokensAssumption ==
  /\ MaxTurns \in Nat /\ MaxTime \in Nat \ {0} /\ MaxAccounts \in Nat \ {0} /\ MaxQueue \in Nat \ {0}

None == -1

VARIABLES
  clock, turns, account, spent,      \* the world: time, turns, login, the login's turns
  link, usage,                       \* session: connected, AppServerState.token_usage
  updates,                           \* the channel of SessionUpdates to the runtime
  tokens,                            \* MonitorState.token_usage
  healthy,                           \* run_loop: authoritative_healthy
  tracker,                           \* run_loop: ConsumptionPopupTracker.latest_token
  bootstrapped, logRead,             \* SessionTokenTailer: first scan done, turns seen
  authoritative,                     \* run_loop: session_today_authoritative
  counted, counter,                  \* ledger: tokens of today, SQLite's last counter
  login, popped                      \* history: the last account reset applied, the totals
                                     \* of that account that have popped up

world   == <<clock, turns, account, spent>>
session == <<link, usage>>
locals  == <<bootstrapped, logRead, authoritative, counted, counter>>
vars == <<world, session, updates, tokens, healthy, tracker, locals, login, popped>>

-----------------------------------------------------------------------------
(* TokenUsageState.  A turn costs one token; None stands for no value. *)

NoTokens == [current |-> None, last |-> None, lastSource |-> "none", today |-> None,
             todaySource |-> "none", source |-> "none", observed |-> 0]

(* Mutant: the order of observation is not looked at. *)
ApplyAnyUsage(t, u) ==
  [t EXCEPT !.current = u.current, !.source = u.source, !.observed = u.observed,
            !.last = IF u.last # None THEN u.last ELSE @,
            !.lastSource = IF u.last # None THEN u.source ELSE @,
            !.today = IF t.todaySource = "sqlite" THEN @ ELSE None,
            !.todaySource = IF t.todaySource = "sqlite" THEN @ ELSE u.source]

(* apply_token_usage: an older observation changes nothing; a missing last   *)
(* turn keeps the old one; a local figure of the day is kept, any other goes *)
(* (no source reports a figure of the day here).                             *)
ApplyTokenUsage(t, u) ==
  IF u.observed < t.observed THEN t
  ELSE [t EXCEPT !.current = u.current, !.source = u.source, !.observed = u.observed,
                 !.last = IF u.last # None THEN u.last ELSE @,
                 !.lastSource = IF u.last # None THEN u.source ELSE @,
                 !.today = IF t.todaySource = "sqlite" THEN @ ELSE None,
                 !.todaySource = IF t.todaySource = "sqlite" THEN @ ELSE u.source]

(* apply_local_today_usage: a fresh figure of the App Server stays (there is *)
(* none here); the local one moves the observation time as well.             *)
ApplyLocalToday(t, count, now) ==
  IF \/ t.today # None /\ t.todaySource = "appServer" /\ t.source \in {"appServer", "sessionLog"}
     \/ t.today = count /\ t.todaySource = "sqlite" THEN t
  ELSE [t EXCEPT !.today = count, !.todaySource = "sqlite",
                 !.observed = IF now > @ THEN now ELSE @]

(* Mutant: the last turn goes, wherever it came from. *)
MarkAllUnavailable(t) == [NoTokens EXCEPT !.observed = t.observed]

(* mark_unavailable: what came from local files stays. *)
MarkUnavailable(t) ==
  LET lastStays  == t.lastSource = "sessionLog"
      todayStays == t.todaySource \in {"sqlite", "sessionLog"}
  IN  [NoTokens EXCEPT !.observed = t.observed,
         !.last = IF lastStays THEN t.last ELSE None,
         !.lastSource = IF lastStays THEN t.lastSource ELSE "none",
         !.today = IF todayStays THEN t.today ELSE None,
         !.todaySource = IF todayStays THEN t.todaySource ELSE "none"]

-----------------------------------------------------------------------------
(* The world and the session. *)

NoUsage == [current |-> None, last |-> None, observed |-> 0, source |-> "none", account |-> 0]

Finish ==
  /\ turns < MaxTurns /\ clock < MaxTime
  /\ turns' = turns + 1 /\ spent' = spent + 1 /\ clock' = clock + 1
  /\ UNCHANGED <<account, session, updates, tokens, healthy, tracker, locals, login, popped>>

Tick ==
  /\ clock < MaxTime /\ clock' = clock + 1
  /\ UNCHANGED <<turns, account, spent, session, updates, tokens, healthy, tracker, locals, login, popped>>

(* emit_state_with_reset; usage_snapshot keeps the stamp of the notification. *)
Publish(report, isHealthy, reset) ==
  /\ Len(updates) < MaxQueue
  /\ updates' = Append(updates, [usage |-> report, healthy |-> isHealthy, reset |-> reset])

Quiet == UNCHANGED <<tokens, healthy, tracker, locals, login, popped>>

(* thread/tokenUsage/updated, with or without the last turn. *)
TokenNotification ==
  /\ link = "up" /\ spent > 0
  /\ \E last \in {turns, None} :
       usage' = [current |-> spent, last |-> last, observed |-> clock,
                 source |-> "appServer", account |-> account]
  /\ Publish(usage', TRUE, 0)
  /\ UNCHANGED <<world, link>> /\ Quiet

(* Every other notification and refresh. *)
OtherUpdate ==
  /\ link = "up"
  /\ Publish(usage, TRUE, 0)
  /\ UNCHANGED <<world, session>> /\ Quiet

(* account/updated: a new generation, announced with the reset. *)
AccountUpdated ==
  /\ link = "up" /\ account < MaxAccounts
  /\ account' = account + 1 /\ spent' = 0 /\ usage' = NoUsage
  /\ Publish(NoUsage, TRUE, account')
  /\ UNCHANGED <<clock, turns, link>> /\ Quiet

(* The pipe ends, or a reconnect fails: the last state is sent once more. *)
Disconnect ==
  /\ link' = "down"
  /\ Publish(usage, FALSE, 0)
  /\ UNCHANGED <<world, usage>> /\ Quiet

Connect ==
  /\ link = "down" /\ link' = "up" /\ usage' = NoUsage
  /\ UNCHANGED <<world, updates>> /\ Quiet

-----------------------------------------------------------------------------
(* The runtime takes one update. *)

(* Mutant: the tracker outlives the account. *)
ResetNothing(reset) == tracker

(* ConsumptionPopupTracker::reset. *)
ResetTracker(reset) == IF reset # 0 THEN NoUsage ELSE tracker

(* observe_token_usage: the new baseline and whether it pops up. *)
ObserveTokenUsage(t, u) ==
  IF u.source # "appServer" THEN <<t, FALSE>>
  ELSE IF t.source = "none" THEN <<u, FALSE>>
  ELSE IF u.observed <= t.observed THEN <<t, FALSE>>
  ELSE <<u, u.current > t.current>>

Apply ==
  LET u        == Head(updates)
      observed == ObserveTokenUsage(ResetTracker(u.reset), u.usage)
      reset    == IF u.reset # 0 THEN NoTokens ELSE tokens
      merged   == IF u.usage = NoUsage THEN reset ELSE ApplyTokenUsage(reset, u.usage)
      before   == IF u.reset # 0 THEN <<>> ELSE popped
  IN
  /\ updates # <<>> /\ updates' = Tail(updates)
  /\ tracker' = observed[1]
  /\ tokens' = IF u.healthy THEN merged ELSE MarkUnavailable(merged)
  /\ healthy' = u.healthy
  /\ login' = IF u.reset # 0 THEN u.reset ELSE login
  /\ popped' = IF observed[2] THEN Append(before, u.usage.current) ELSE before
  /\ UNCHANGED <<world, session, locals>>

-----------------------------------------------------------------------------
(* The runtime polls SQLite: apply_fallback. *)

(* LocalUsageLedger::observe: the first counter is the baseline. *)
NewTokens == IF counter = None THEN 0 ELSE turns - counter
TodayCounts(n) == IF n = 0 THEN None ELSE n

PollSqlite ==
  LET shown == ApplyLocalToday(tokens, TodayCounts(counted + NewTokens), clock)
      today == IF ~authoritative /\ (NewTokens > 0 \/ tokens.todaySource = "none") THEN shown ELSE tokens
      live  == healthy /\ today.current # None
      report == [current |-> turns, last |-> None, observed |-> clock, source |-> "sqlite"]
  IN
  /\ tokens' = IF live THEN today ELSE ApplyTokenUsage(today, report)
  /\ IF authoritative THEN UNCHANGED <<counted, counter>>
                      ELSE counted' = counted + NewTokens /\ counter' = turns
  /\ UNCHANGED <<world, session, updates, healthy, tracker, bootstrapped, logRead,
                 authoritative, login, popped>>

(* The runtime polls the session log; the first scan finds the turns of the  *)
(* day, and makes the log the only source of the day's figure if it found    *)
(* any.                                                                      *)
PollLog ==
  LET events == turns - logRead
      report == [current |-> None, last |-> turns, observed |-> clock, source |-> "sessionLog"]
  IN
  /\ bootstrapped => events > 0
  /\ bootstrapped' = TRUE /\ logRead' = turns
  /\ authoritative' = (authoritative \/ (~bootstrapped /\ events > 0))
  /\ counted' = IF bootstrapped THEN counted + events ELSE IF events > 0 THEN events ELSE counted
  /\ tokens' = IF events = 0 THEN tokens
               ELSE ApplyLocalToday(ApplyTokenUsage(tokens, report), counted', clock)
  /\ UNCHANGED <<world, session, updates, healthy, tracker, counter, login, popped>>

-----------------------------------------------------------------------------

Init ==
  /\ clock = 1 /\ turns \in {0, 1} /\ account = 1 /\ spent = turns
  /\ link = "down" /\ usage = NoUsage /\ updates = <<>>
  /\ tokens = NoTokens /\ healthy = FALSE /\ tracker = NoUsage
  /\ bootstrapped = FALSE /\ logRead = 0 /\ authoritative = FALSE
  /\ counted = 0 /\ counter = None
  /\ login = 1 /\ popped = <<>>

Next == \/ Finish \/ Tick
        \/ TokenNotification \/ OtherUpdate \/ AccountUpdated \/ Disconnect \/ Connect
        \/ Apply \/ PollSqlite \/ PollLog

Spec == Init /\ [][Next]_vars

-----------------------------------------------------------------------------

Sources == {"appServer", "sessionLog", "sqlite", "none"}

TypeOK ==
  /\ clock \in 1..MaxTime /\ turns \in 0..(MaxTurns + 1) /\ spent \in 0..turns
  /\ account \in 1..MaxAccounts /\ link \in {"up", "down"}
  /\ tokens.current \in Nat \cup {None} /\ tokens.last \in 1..turns \cup {None}
  /\ tokens.today \in Nat \cup {None} /\ tokens.observed \in 0..clock
  /\ {tokens.source, tokens.lastSource, tokens.todaySource} \subseteq Sources
  /\ tokens.current # None => tokens.source # "sessionLog"
  /\ logRead \in 0..turns /\ counter \in -1..turns /\ counted \in Nat

(* The baseline of the popup belongs to the account whose reset was applied  *)
(* last: a new account's first total is never compared with the old one's    *)
(* (official_runtime.rs:109-112, 437-440).                                   *)
BaselinePerAccount == tracker # NoUsage => tracker.account = login

(* A total pops up once, however often it is sent again and whatever came    *)
(* between, across reconnects (official_runtime.rs:66-72, 130-137).          *)
TotalsPopUpOnce == \A i \in 1..Len(popped) - 1 : popped[i] < popped[i + 1]

(* The last turn on the card is never replaced by an earlier one, whichever  *)
(* of the sources is late; only the account switch or the loss of its own    *)
(* source takes it away (monitor.rs:108-127).                                *)
LastTurnNewest ==
  [][tokens'.last # None => tokens'.last >= tokens.last]_vars

(* A turn taken from the session log survives disconnects and every report   *)
(* that has no turn; only an account reset or an App Server report that      *)
(* carries a turn of its own takes it away ("the App Server's availability   *)
(* may not clear what the local session captured", usage.rs:61-62, 97-109).  *)
LogTurnStays ==
  [][(tokens.lastSource = "sessionLog" /\ tokens'.last = None /\ tokens' # NoTokens)
       => (updates # <<>> /\ Head(updates).usage.last # None)]_vars

(* A total pops up once and is never measured against another account's      *)
(* (official_runtime.rs:66-72, 109-137, 437-440).                            *)
PopupsAreOfAccount == TypeOK /\ BaselinePerAccount /\ TotalsPopUpOnce
=============================================================================
