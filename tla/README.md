# A verification model of codex-quota-glance

codex-quota-glance is a Windows taskbar program that shows how much of a Codex
account's quota and tokens are used. It talks JSON-RPC to a child process (the
Codex App Server) over pipes, falls back to Codex's local files, and draws the
result. This directory holds TLA+ modules for the program, TLC configurations
that check them on small instances, and TLAPS proofs about eight of its parts:
transport, telemetry, activity lamp, token record, local usage ledger, settings,
updater and the placement of the windows.

`PROJECT.json` lists the components, the runs, which source lines each
definition models (`map`), the hazards at their lines, one plausible bug per
property (`mutants`) and the proved theorems. Paths below are relative to the
repository.

## 1. The system

```
 codex app-server (child process)
     | stdout/stdin, one JSON message per line
 transport.rs      client API, supervisor, reader, writer, timer: 5 threads
     | requests with private reply channels; one event channel
 session.rs        worker thread: connect, refresh, merge, publish, reconnect
     | channel of SessionUpdates                  session files, SQLite (read only)
 official_runtime.rs  one runtime thread  <-------+   settings row, reload marker
     | MonitorCoordinator, LocalUsageLedger       |   updater threads
     | channel of NativeHostCommands, wake message
 platform-windows  window thread: strip on the taskbar, card, token strip, tray
     | channel of NativeHostEvents back to the runtime
 codex-taskbar-settings   a window on a thread of its own, in the same process
```

| Component | State it keeps | Operations | What is hard |
|---|---|---|---|
| App Server transport (`adapters-codex-app-server/src/transport.rs`) | `alive`, `ready`, `handshake_registered`, `closed_event_sent`, the map of pending requests, two channels, the id counter | request, recv, recv_timeout, close, drop; handshake; register and write; match a response; expire; terminate | every thread may end the transport, five places may answer the same request, the handshake and the reader start together |
| Session worker (`session.rs`) | endpoint statuses, health, revision, two retry counters, two flags | connect, refresh (three requests), merge a notification, publish, back off, stop | answers overtake notifications, accounts switch in mid refresh, two nested reconnect loops |
| Account state of the session (`state.rs`, `activity.rs`, `quota.rs`) | account, windows, credits, tokens, daily buckets, activity per thread | full reads, sparse patches, activity events | missing and null fields, duplicates, many threads and one lamp |
| Monitor and coordinator (`application/src/{monitor,coordinator}.rs`, `domain/src`) | windows with current and last-known value, account, usage, tokens, revision, observation times | apply a snapshot, degrade, reset the account, merge three token sources | order guards, what survives a failure or a switch |
| Runtime thread (`apps/codex-taskbar/src/official_runtime.rs`) | the coordinator, the ledger, timers, settings, activity lease, popup tracker | take an update, local polls, settings actions, flush, publish, host events | several input sources merged by hand-written rules |
| Local usage ledger (`application/src/local_usage_ledger.rs`) | baselines per thread, buckets per day and hour, dirty flag | observe, replace a day, clear, save and load, prune | two sources may count the same tokens; crash and restart |
| Session token fallback (`session_token_fallback.rs`) | the file tailed, event fingerprints, the day | poll: full scan or tail | midnight, a new file, a bounded tail |
| SQLite fallback (`adapters-codex-sqlite`) | the databases found, two times to live | choose a reader by schema, read snapshot, read activity in four statements | schema drift, Codex writes between the statements |
| Settings store and application (`settings`, `codex-taskbar-settings`) | a row, an old JSON file, a reload marker, one window flag and handle | load, import, normalise, save, read back, notify, open, close | migrations, three-step saves, a window thread that ends late |
| Updater (`updater.rs`) | a staged file, the target, an `.old` copy | check, download, stage, apply in a helper process, clean up | a crash or a failing step between two renames, two helpers |
| Native host (`platform-windows/src/host*`) | the main window, card, token strip, command and event channels | drain commands, toggle windows, timers, menu, exit | nested message loops inside WebView creation and menus |
| Placement, drawing, labels, prices, search for the CLI, backoff, log retention | none | pure decisions | boundaries, sentinels, stale values on several surfaces |

A session update goes: bytes -> reader thread -> event channel or reply channel
-> session worker -> `SessionUpdate` channel -> `apply_session_update` ->
monitor -> command channel -> window thread. Each arrow is a queue, and many of
the properties are about what the queues, the account switches and the failures
do together.

## 2. The modules

| Module | Models | State and actions |
|---|---|---|
| `Transport` | `transport.rs`, all of its threads | variables are the fields of `Shared`, the channels and a program counter per thread; one action per atomic access: an atomic flag, a locked section, a channel operation. `Server*` actions are the child process. |
| `ReplyContract` | what a caller of `request` may rely on | abstract specification: each request goes idle -> waiting -> one result, and never changes afterwards |
| `Monitor` | `MonitorState`, the coordinator, the quota windows and `apply_session_update` | operators from a monitor and an update to a monitor |
| `Session` | the session worker, its handle and the server it sees | `run_factory`, `run_transport`, `reconnect_from_factory` as values of `pc`, one action per event handler, per answer of a refresh, per backoff outcome |
| `Telemetry` | composition of Session, the update channel, Monitor and the runtime thread | `RuntimeApply` takes one update from the channel; the rest is Session |
| `ServerState` | `AppServerState`: full reads, patches, thread activities | one action per answer and per notification; JSON objects are functions from the keys they have |
| `Activity` | the lamp: App Server updates against the poll of the desktop program's history | `Publish` with the 10 s lease, a poll of four statements as four actions, Codex writing between them, ageing of rows |
| `Tokens` | the token record fed by App Server, session log and SQLite, and the consumption popup | one action per source; observation times, the popup tracker, account resets |
| `LocalUsageLedger`, `LocalUsage` | the ledger with the session token tailer, the two local polls, its database, and Codex writing files | `TokenPollNewDay`, `TokenPoll`, `FallbackPoll`, `Flush`, `ClearHistory`, `Start`, `Stop` (a crash or a return) |
| `UsageBuckets` | one day of the ledger in full: hours, detailed counts, price, a restart | operators over a day's sequence of events |
| `Settings` | settings row, old JSON file, reload marker, settings window, reload by the runtime | saves in three steps (row, read-back, marker), failing steps, restarts, the thread that launches the window, makes it visible, makes its page, stores its handle and ends |
| `Updater` | download, staging, the helper's replacement and restart | programs, helpers and files; each step may fail and the machine may stop |
| `Host` | the window thread and the runtime's commands to it | a stack of handlers that wait in nested message loops; commands, posted messages, timers, card and token strip |
| `Placement`, `TrendCurve`, `Presentation`, `Supervision`, `Schema` | decisions without state: where windows go and what the mouse hits; the chart's curve; figures, labels, prices and items on the screen; which CLI, how long to wait, which logs to remove; which reader a database allows and what its queries return | operators, with the predicate that judges each beside it |
| `MCTransport`, `MCTelemetry`, `MCLocalUsage`, `MCActivity`, `MCTokens`, `MCServerState`, `MCSettings`, `MCUpdater`, `MCHost` | the instances TLC runs | inputs; bounds are in the cfg files |
| `MCDecisions` | every decision on small inputs | a behaviour asks one question (a topic with an input) at a time, the invariants judge the answer |
| `TransportProofs`, `TelemetryProofs`, `AppServerProofs` (of `Activity` and `ServerState`), `TokensProofs`, `LocalUsageProofs`, `SettingsProofs`, `UpdaterProofs`, `HostProofs` (of `Host` and `Placement`) | theorems | section 5 |

`Transport` implements `ReplyContract` (INSTANCE with a refinement mapping,
checked as the property `ImplementsContract`), and `Session` uses the
transport only through that contract plus two facts about order: notifications
queue in the event channel while answers reach the waiting worker directly, and
the end of the pipe is the last event read from a connection (a late `Ready` is
dropped with the event channel).

`official_runtime.rs` is one loop that touches everything. It is cut by the
state an input concerns, not modelled as one module: session updates in
`Telemetry`, the local polls in `LocalUsage`, the lamp in `Activity`, the token
record in `Tokens`, settings in `Settings`, downloads in `Updater`, host
commands and events in `Host`. The cuts share no variable of the code except
those named in the abstractions below.

### What the models abstract

- **Transport.** Payloads are dropped; a request is its id. A reply sent
  directly after its entry was removed under the lock belongs to the same step:
  nobody can see the difference. A deadline may pass at any moment. Lines that
  are not responses touch no state of the transport. The branch at lines
  604-610 (the `initialize` bytes cannot be queued) shares the code path of the
  other start-up failures. The refusal of a line that is too long is in
  `ClientSubmit`; the refusal when the ids are used up (transport.rs:450) is not,
  as they are 64 bits wide. A frame is read in one step, from the queue of
  complete lines.
- **Session.** The server's account state is one version number; some versions
  are the login of another account. A datum is the version it was read from, so
  "old", "of another account" and "missing" are distinct and nothing else is.
  Refused, closed and error answers of a refresh end alike (`MissAnswer`). The
  three sends of a refresh are one step. Windows are kept by kind where the
  code keeps a primary and a secondary slot and sorts them by duration: the
  same within one account (`ServerState` keeps the slots). The server announces
  a switch of account before it answers with the new account's data. Activity
  and the day's and turn's part of the token record are in `Activity` and
  `Tokens`.
- **Monitor and Telemetry.** Freshness and source of a window are functions of
  its presence. The wall clock is monotone; the comparison of observation times
  is the flag `late`, set on queued updates when the monitor stamps itself with
  "now".
- **ServerState.** The two spellings of a key, and the places a field may be
  found in, are one. Method names and item types are kinds. Numbers that do not
  parse are missing keys.
- **Activity.** Time is ticks; ages stop growing where no test can tell them
  apart. The App Server reports any phase of `Reported`; the aggregation over
  threads is in `ServerState`. The history may be busy or unreadable at each
  statement (`PollFails`).
- **Tokens.** A turn is a number, its tokens are not. Observation times are
  the milliseconds of the code.
- **LocalUsageLedger and LocalUsage.** A line of a session file carries one
  token, with or without the model it is for, or is a `turn_context` that names
  one; input and output are one number, "detailed", beside the total that SQLite
  increases enter alone. The fingerprint of an event is its line with the model
  the read found for it, as the code hashes both: no two lines have the same
  time and counts, and hashes do not collide. Hours, cached input and prices are
  in `UsageBuckets`. The order of all lines stands for modification times; a file
  lies in the folder of its first line's day and sorts by the time of that line.
  A tail is a number of lines. The SQLite counter of a thread is
  exact and never falls. A poll is one step: the runtime thread runs it alone,
  and a line written meanwhile is as good as one written after. Unreadable
  files and databases, failing saves and crashes are choices. The clock never
  goes back.
- **Settings.** Five fields stand for all: those that old versions got wrong,
  one with a list of allowed values, and the CLI path the page does not show.
  A database call succeeds or fails as a whole (a transaction). A window closed
  while its page is being made ends with a failure of the page.
- **Updater.** A file is a release, cut short, corrupt or missing. Windows
  refuses to overwrite or remove a running executable and allows its renaming.
  The helper's wait may end by its time limit at any moment, and the code then
  goes on.
- **Host.** What a window shows is the version of its data. Posted messages
  come in order, input and timers when none is posted. A handler that goes on
  after its context was freed is `host = "undefined"`, about which only "the
  run loop still ends" is not claimed. With the thread go its windows. `CreatePopup` fails before
  its window exists or not at all: the errors after it (native.rs:1336, 1350,
  1382: a rectangle cannot be read, the window not be placed), which leave a
  window no handle is stored for, are left out. Bounds on
  waiting handlers (`MaxDepth`) only limit under how many of them further
  messages are dispatched.
- **Decisions.** Doubles and floats are exact ratios; coordinates are far from
  the limits of i32 and sums from those of u64. The chart series with costs
  (`trend_series`, only for the native chart) is left out. Texts are the figures in them
  and the case that chose the wording.

## 3. The runs

Bounds are in the cfg files; each is a CONSTANT or a guard with a comment. A
property of a run is either a statement of its own or a conjunction of named
parts, each with its comment in the module. Times are of a two-core machine.

| Run | States, time | What is asked |
|---|---|---|
| `transport` | 599,078, 3.5 min | The handshake, one request of a client and two response lines through five threads, a dying server, close and drop at any moment. `AnsweredOnce`: five places race, a request is answered at most once. `NoLostRequest`: on a live transport an accepted request has an owner that can still answer; it excuses what a dead one has left (section 4). `OrderlyEnd` = `TypeOK`, `RegisteredBeforeWritten` (the server never sees a request with no entry), `EndReportedOnce`, `FailureImpliesDead`. `ImplementsContract`: refinement of `ReplyContract`. `EndIsReported`, `RequestResolves`: the end of the pipe reaches the event channel and each accepted request gets an outcome. |
| `telemetry_accounts` | 4.5 million, 2.8 min | Three versions of the account state, switching and moving at any moment, on one connection. `NoLeakAcrossReset`: nothing read before an applied reset is left or comes back. `ShownIsCurrent`: once caught up, everything shown as current belongs to the account logged in. `FreshQuotaApplied`: live, healthy quota is never refused on one connection. |
| `telemetry_live` | 345,841, 2.7 min | Two connections and failing factories. `DarkAfterEnd` = `TypeOK`, `NothingLiveAfterEnd` (nothing is shown as live after the end), `AttemptsBounded` (the nested loops give up within twice the limit). `EndReachesScreen`, `StopEnds` from every place. `RefreshServed` = `TakenByRefresh` (only a refresh that begins on a ready transport takes a request, so none is dropped while offline), `TakenWhileReady` (a ready transport takes it). |
| `telemetry_revision` (violated) | | section 4 |
| `server_state` | 94,198, 17 s | Full reads, sparse patches with missing and null fields, duplicates, activity events of two threads. `HeldIsReported` = `ServerTypes`, `AccountIsReported`, `WindowsAreReported` (nothing of an earlier account or window comes back), `GenerationIsolated` (no usage, count, thread or activity outlives the login it was said for: `account/updated` wipes them all before it is merged), `BucketsAreLatest`, `DuplicatesHarmless`. `LampIsUseful` = `WaitingShown`, `OldFailureYields`. `HeldUntilAnswered`: what is held goes away only with a full read that answers for it or with a login, never with a patch. |
| `activity` | 382,615, 1.7 min | Two turns, updates and disconnects while a poll stands between its statements. `LeaseShowsAppServer`: a poll never displaces the App Server's phase while its lease runs. `ExecutingHasEvidence`: Executing only with an item written a moment ago. `InProgressSeen`: an undisturbed poll finds a running turn behind newer finished ones, and shows none when none runs. `LampSettles`: turns left in progress by a crash do not keep the lamp running. |
| `tokens` | 1.9 million, 36 s | Three sources report two turns, with reconnects and a switch of account. `PopupsAreOfAccount` = `TypeOK`, `BaselinePerAccount`, `TotalsPopUpOnce`. `LastTurnNewest`: the last turn is never replaced by an earlier one. `LogTurnStays`: what the session log captured survives disconnects. |
| `usage_counts` | 849,152, 1.8 min | Two session files, three lines (tokens and the two models they are for), a midnight, two starts, clears, crashes, unreadable files. `EventsCountedExactly` = `TypeOK`, `CountedOnce` (a token event enters the ledger in its own day, at most once and once more for each other model a read has found for it, in every bucket this run of the program has built), `MisreadsExplained` (a read finds another model only in a file longer than the tail or where no `turn_context` comes before the event), `SeenIsCounted` (an event the tailer will not return again is in the bucket, unless a clear wiped it or the retention, full of later days, has dropped the bucket). `CountersCountedOnce`: SQLite increases count once over all days and restarts and never bring back what a clear removed. `PastDaysFrozen`: midnight never moves tokens into a past day. |
| `settings_saves` | 30,861, 4 s | Two windows, two starts, two failing calls, every kind of old file. `SavesAreSound` = `TypeOK`, `ChoiceKept`, `CliPathKept`, `ReadBackAgrees`, `AppliedWhenQuiet`. `WindowReachable` = `ActivateReachesWindow` (a window whose page runs is the one whose handle is stored, and no stored handle is of a thread that has let go), `OneWindow` (at most one thread between its start and its last store), `OpenMeansThread`. `RequestIsServed`: a requested reload takes place. |
| `updater_replace` | 648,141, 1.7 min | Two downloads, two launches by the user, three releases, a failing step and a crash. `VerifiedAndNewer` = `TypeOK`, `OnlyVerifiedRuns`, `NeverOlder`. `AloneProgramKept` = `AloneCopyKept` (target or backup is complete at every moment of a lone helper), `AloneTargetKept`. `UpdateRestarts`, where the 30 s time limit of the helper's wait counts as a fault. |
| `host_windows` | 736,545, 3 min | Two publications, two popups, one action of the user and the card's own requests (after the last publication), three nested loops. `NothingForgotten` = `TypeOK`, `NoLostWake`, `HandlesSettle`. `StripIsCurrent` = `StripShowsLatest`, `HoverNeverRepeats`. `StripCloses`: every strip closes, also one whose handle was overwritten. `ExitEnds`: an exit ends both threads. |
| `decisions` | 215,374, 1.2 min | 22 topics. `WindowsInPlace`: strip, chosen taskbar, gauges of another program, popups, settings window, mouse hits, curve. `FiguresAgree`: live figures, credits, popups, today (a count that lost its source is in no native figure; the WebView is not claimed), labels, reset cards, items, run mode. `DaysAddUp`: prices, hours, card and chart, rescans, chart of evidence; that a restart leaves a day as it was is claimed of days with one kind of report only (section 4, Ledger). `SourcesFit`: CLI, waits, schema, explanations, totals, snapshots, logs; the figure of the newest thread and the totals are read of two states of the database, as the code reads them in two statements without a transaction (sqlite lib.rs:642-654). |

*Why the bounds are enough.* The handshake is a request of its own, answered
through the same map as the client's: the two give each race of the transport
its contenders, and a timer scan or a drain more than one entry; two frames allow an answer, a
duplicate, and an answer after the timeout. A third version is needed to see a
value come back across two switches. A second connection is needed for
everything that restarts (revision, tracker, data). A channel of one or two
unread updates is enough for one update to be overtaken by the monitor's own
time stamp. `MaxAttempts = 1` reaches both give-up branches. Three lines in two
files let a file lose and regain the place of the newest one; a tail of two
lines can miss the `turn_context` of a token that it sees, followed by another
model's; a retention of two days keeps both days. The import of an old JSON
ledger (`LegacyBuckets`) is in the module and the proofs, for any old ledger, but
not in this instance, which it would make too large; and token lines that name
their own model, whose fingerprint no read changes, are left to the proofs too. One tick for each time to live separates fresh from stale, since ages only
meet one limit each; two turns are a running and a newer finished one. Two
settings windows and two helpers are the smallest number that can overlap.
`MaxDepth = 3` is a card being created inside a drain with a handler running
above it. The inputs of `MCDecisions` sit on both sides of every comparison in
the code they ask about.

*Deadlock* is checked for `activity` and `decisions`. The other systems really
stop: the server is gone, the session dropped, the program ended, or the bounds
are used up.

*Fairness.*

- `transport`, `telemetry_live`: weak fairness for each thread's own step and
  for the worker's groups of steps and the runtime. The operating system
  schedules the threads, each blocking wait has a timeout (25 ms, the request
  timeout, `cancel.wait`), so none can be blocked for good. Nothing is assumed
  of the server, the pipe, the factory's success or the user.
- `activity`: weak fairness of the poll's begin and end and of time. The four
  statements get strong fairness: a history that is busy now and then is read
  now and then, since each poll starts anew with the first statement and a
  failing one ends it. `LampSettles` only speaks of a time when Codex writes no
  more, so nothing else keeps the database busy.
- `settings_saves`: the runtime loop turns every 250 ms.
- `updater_replace`: processes that can go on do; a program leaves its loop once
  the shutdown flag is set.
- `host_windows`: weak fairness of the window thread as a whole (messages, timers,
  the creation of a WebView, an open menu that is left) and of the run loop.

## 4. What does not hold

`telemetry_revision` violates `FreshQuotaApplied` with two connections: the
session's revision restarts at zero with each connection (session.rs:405) and
the monitor keeps the highest it saw (monitor.rs:69), so live quota is refused
until the counter has caught up, although a refusal is said to mean an older
snapshot (monitor.rs:67). It holds with one connection.

The following was seen while modelling; the models behave so, and the
properties are stated around it. None has a run of its own. `R` is
official_runtime.rs.

*Session and monitor.* A request registered after `terminate` has drained the
map keeps its sender for ever, so `recv` without a timeout, which nothing in the
program uses, would block (transport.rs:660 against :217); `Ready` may follow
`Eof` (transport.rs:640). When only the quota request fails the windows stay
Present and are drawn (R:1021 against quota.rs:92). The health-only update that
ends the reconnects carries an empty account and replaces cached values
(session.rs:780 against monitor.rs:178). A switch of account while disconnected
is never announced, so last-known values stay (session.rs:400 against
monitor.rs:56). One refresh may publish answers of two accounts until the queued
`account/updated` is handled (session.rs:630). A limits notification for one
window marks the quota endpoint live and makes the other window explicitly
absent when nothing was read before (session.rs:135, quota.rs:71); one queued
behind a refresh is merged over newer answers (session.rs:452). The nested
reconnect loops together use up to twice `max_reconnect_attempts`
(session.rs:79, 591). A factory whose child starts but never completes the
handshake counts as a success, so nothing backs off.

*Account state.* `thread_activities` is never pruned, and a thread that never
ends, an unknown phase included, never expires. Merging by slot mixes two
windows when a notification orders them differently than the read did, which
quota.rs says may happen. `merge_token_usage` keeps the old thread's counts
when a partial patch names another thread. Usage answers without a summary are
refused (session.rs:711) although day buckets alone would be projected.
`rateLimitReachedType` is not cleared by null.

*Lamp.* The last activity travels with every later update, terminal ones too,
and each refresh renews the lease (against R:60-62); `reconnect_from_factory`
publishes the old activity again at every failed attempt. After a disconnect
with no readable history the lamp stays as it was. The newest running turn by
start hides an older one that still runs.

*Tokens.* The popup's comment (R:66-73) speaks of falling quota, which the code
does not look at; the first usage after a reconnect, or another thread with a
higher total, pops up (docs/test-plan.md:135). A session log event replaces the
App Server's current thread by nothing. App Server usage stamped before a local
poll is refused until the next notification (monitor.rs:160). Today's local
figure stays missing after an account reset when the log is authoritative, or
when an App Server usage arrived first. A turn the App Server reports again and
then a disconnect clears a turn the log had captured (usage.rs:61-62).

*Ledger.* A token event is counted again when a later read resolves it to another
model, as the fingerprint includes the model (session_token_fallback.rs:244-246,
328-351) and a tail begins with the model the last read ended with (:107-108):
in a file over 512 KB whose tail shows the tokens without their
`turn_context`, or for tokens before the first one, against the comment that the
same event is returned once (:66). `CountedOnce` counts such a reading apart and
`MisreadsExplained` says where alone it can happen. If the first scan after a restart finds nothing, the stored bucket
stays and later polls add the same events to it (R:511 against
local_usage_ledger.rs:338). A first scan without events lets SQLite increases
and session events both enter a day (R:510), whose card figure then differs from
the history total; a restart drops the increases from the total. Events with
only one of input and output lose their reported total on a reload. The old JSON
ledger is imported again after a clear (R:676, storage-model.md:31). A session of
yesterday is no longer tailed once today's folder has a file
(session_token_fallback.rs:98). A database that cannot be read at the start is
replaced by the next save (R:663). After midnight the screen keeps yesterday's
figure until an event arrives.

*Settings.* The window is visible before its page has been made, its handle is
stored only then (main.rs:229-246, 168): a click in between finds handle 0 and
does nothing (:326-328), although it is said to bring the window to the front
(:31-32). A save whose read-back or notification fails answers with an error
although the row was changed. The reload marker is consumed before the settings
are loaded, so a failing load loses it (R:578, official-settings-window-design.md:41).
A corrupt settings.json without a row stops every start. A failing thread spawn
leaves the settings marked open.

*Updater.* The helper goes on after its 30 s wait whether or not the program has
ended (updater.rs:162, 192). Two clicks on download start two helpers that can
remove each other's backup, lose the target or restore the old program over the
new one; the properties named Alone exclude that. A second old program keeps
`.old` busy and blocks the next update's rename. A helper that fails leaves no
program running, and a retry after a crash in mid copy removes the good `.old`.
A version that does not parse counts as newer when it is different.

*Host.* A strip shown between the clearing of the snapshot and the next two
commands has no tokens. A second click while a card's WebView is created opens a
second card and the first handle is overwritten. An exit handled inside a
creation frees the context of the waiting handler, against the SAFETY comment at
RequestExit. A tray click on an open card closes it and the echoed ShowDetails
opens it again. Details that change while a card is created are lost to that
card (native.rs:80-82). A mouse that leaves between snapshot and show opens an
empty strip. RestoreTrayIcon, Relocate, Show and Hide have no sender, and
TaskbarCreated is not handled.

*Placement and figures.* 999,950,000 is shown as 1000M: only the step from K to M
is rounded up. The taskbar's fallback at the clock cannot be reached
(`notification_left_boundary` returns early). Avoiding a gauge looks at the first
gauge and at the bar's right edge only, so a capsule anchored right may move over
the notification area. With an auto-hidden bar at the bottom a popup is placed
below and clamped over the bar. Width and offset that the settings accept may
not fit the bar at the next start. A hidden or dropped item for today or the
cache hit rate is still drawn as its placeholder. The WebView strip shows no
turn of the session log after a disconnect although the native rows do. Today's
App Server counts reach the snapshot without the freshness check.
The cache hit rate is not clamped and is rounded natively but cut in the
WebView. The card's footer speaks of an estimate also when the official cost is
shown.

*SQLite.* Token rows whose counters are all NULL sum to 0, not to unknown. A
supported database that gains `thread_turns` switches to the history reader and
loses its token counts. Databases are looked for once, at the start.

## 5. The proofs

Eight modules hold theorems; each EXTENDS the module (or the two modules) it is
about, so the formulas proved are those the runs check. All theorems are for
every value of the constants that the module's assumption admits:
`TransportAssumption`, `ActivityAssumption`, `SessionAssumption`,
`TokensAssumption`, `UsageAssumption`, `SettingsAssumption`,
`UpdaterAssumption`, `HostAssumption` and `ServerAssumption` say that bounds are
naturals (positive where the code has at least one), that the values standing
for "none" are not data, that an optional part of a message is a set of at most
one value, that the threads and figures in messages are of `Threads` and `Nat`
and, for the lamp, `Fresh <= Hard`. No theorem needs a bound to be
small.

**Transport** (`TransportProofs`).

- `TypeCorrect == Spec => []TypeOK`: inductive as it stands, one step per action
  (`StepTypes`), over lemmas about sequences, program counters and reply
  channels.
- `AnswersAtMostOnce == Spec => []AnsweredOnce` and
  `RequestsNeverLost == Spec => []NoLostRequest`. "At most one message per reply
  channel" is not inductive: the step that sends one must know that nobody else
  has sent before it or will after it. The strengthening `OwnershipInv` says who
  holds the sending half of a channel: the command queue, the supervisor's hand,
  or the pending map (`Owned == Queued \cup pending \cup InHand`); an id owned at
  all has no message yet, no two places own one id and the queue holds an id
  once. Every action falls into few shapes -- it keeps the owners (`Kept`),
  leaves the replies alone (`Calm`), or moves a set of ids from "owned, silent"
  to "not owned, answered" (`Moves(S)`) -- and the lemmas `MovesKeep`,
  `QueueTail`, `QueueAppend`, `Answered`, `Quiet` show that each shape preserves
  the invariant.
- `EndIsOrderly == Spec => []OrderlyEnd` and `ContractKept ==
  Spec => ImplementsContract`, the refinement of `ReplyContract` step by step,
  from `ContractInv`. It adds to `OwnershipInv` what a reply may say (the
  server's answer to that id, a timeout, or the end once it has come:
  `RepliesTold`, `InboxTold`), who has seen the end (`EndSeen`), that no request
  of a live transport was told of an end (`OutcomesTold`), that what was written
  or is about to be written was registered (`HeardBeforeSent`), and a count: the
  reports of the end in the event channel and those a thread still owes are at
  most one (`ReportsCounted`).

**Telemetry** (`TelemetryProofs`): session, channel, monitor and runtime
together, for any number of account versions, connections, attempts, windows
and queued updates.

- `ResetLeavesNothing == Spec => []NoLeakAcrossReset`, from `LeakInv`. A *floor*
  is a version behind an account reset: of the one applied last, of each one in
  the channel, of the refresh under way. What the worker holds, the notices it
  will read and the answers it waits for are at or above every floor, an update
  is at or above every reset before it in the channel (`QueueFrom`), and the
  monitor is above the one applied. The event channel is in the order of the
  versions, which is what makes a reset a floor.
- `DarknessFollowsEnd == Spec => []DarkAfterEnd`, from `DarkInv`: without a
  connection either nothing is shown, or the last update under way reports an
  unhealthy source, which takes everything off the screen
  (`UnhealthyIsDark`). The budgets of the two nested loops need the place of the
  worker (`RetriesCounted`), as the outer counter only helps while the inner one
  is at zero.
- `ShownBelongsToAccount == Spec => []ShownIsCurrent`, from `CurrentInv`. A
  switch of accounts is `Pending` in the event channel, or overtaken by the end
  of the pipe there, or `Settled`: the worker holds nothing older, and the
  channel has a *barrier* -- an unhealthy update or a reset -- with only newer
  data behind it, unless the refresh that will send one is under way.

**Activity** (`AppServerProofs`).

- `TypeCorrect`, `LeaseIsKept` (`LeaseShowsAppServer`), `ExecutingIsEvident`
  (`ExecutingHasEvidence`) and `InProgressIsSeen` (`InProgressSeen`), from one
  inductive invariant `IInv == TypeOK /\ LeaseInv /\ LocalsInv /\ AgeInv /\
  SeenInv`. `LeaseInv` adds that a poll which found the lease over keeps it so,
  because the runtime thread takes no update meanwhile. `LocalsInv` ties what
  the poll holds in its locals to the statement it stands at; without it `turn`
  might name no row. `AgeInv` is the heart: what a poll has read of an item may
  only be older than the item, for every write between its statements; here
  `Fresh <= Hard` (30 seconds against 12 minutes in the code) is used, as an item
  without a heartbeat is judged by the start of its turn. `SeenInv` says what an
  undisturbed poll knows. The newest running turn exists by well-founded
  induction on a set of naturals (`Maximum`).

**ServerState** (`AppServerProofs`): for any set of threads, any answers,
notifications and events, any number of buckets in an answer and any length of
the notice. `ServerAssumption` says only what the readers of the code produce: an
optional value has at most one member, a window's length and a date are numbers
without a sign, a thread id is one.

- `HeldStaysReported == ServerSpec => []HeldIsReported`, from `HeldInv`.
  `WindowsAreReported` speaks of the two windows on the screen and is not
  inductive; `LengthsSaid` says of both slots, shown or not, that the length was
  named since the last full read, or is 0 because none ever was. `AreSlots` and
  the like give every part the shape the merges rely on. That a repeated patch
  changes nothing is a lemma about each merge (`MergeObjectFacts`,
  `MergeWindowFacts`, `MergeNestedFacts`, `AllCountsFacts`,
  `MergeTokenUsageFacts`, `MergeRateLimitsFacts`) for all states it may meet. The
  history of days is read bucket by bucket into a map; `ParsedIsLatest` shows
  that the map is the closed form `Latest` (the last valid bucket of each day),
  which serves as the witness that the recursive function exists, and by the
  smallest place where the two would differ. `InOrderFacts` and
  `DailyUsageFacts` are about sorting and dropping the oldest.
  `HeldGeneration` is about the login: `account/updated` empties account, limits,
  usage, tokens, threads and the last activity before its patch is merged, and
  what is recorded as reported starts anew with it.
- `HeldStaysUntilAnswered` (the action property `HeldUntilAnswered`), from the
  same invariant and the same lemmas: outside a login only a full read that
  answers may take a field, a window, a credit or its sections away; no patch, no
  activity and no failed answer does.
- `LampStaysUseful == ServerSpec => []LampIsUseful`, from `LampInv`: the lamp of
  any set of threads with known states. The urgency of the eight states
  (`Priorities`) makes a waiting thread win against all but a failure, and a
  failure counts only within its notice.

**Tokens** (`TokensProofs`).

- `PopupsSound` (`PopupsAreOfAccount`), `LastTurnStaysNewest` (the action
  property `LastTurnNewest`) and `LogTurnOutlives` (`LogTurnStays`), from
  `TokensInv`. A report of the App Server lies in the session, in the channel
  and in the popup tracker; wherever two of them lie, the one observed later has
  the later turn and, within one account, the larger total (`Ordered`). That
  holds because whoever finishes a turn moves the clock (`Dated`).
  `CardIsNewest` relates the reports to the card, `ChannelAccounts` says that the
  account of a report is the one of the last reset before it, and `PoppedBelow`
  that the tracker is above every total shown.

**Local usage** (`LocalUsageProofs`).

- `EventsCounted` (`EventsCountedExactly`), `CountersCounted`
  (`CountersCountedOnce`) and `PastStaysFrozen` (the action property
  `PastDaysFrozen`), from `UsageInv`. A fingerprint is a line with a model: what a
  read finds is either the line with the model the file gives it or is recorded as
  misread, and a line written later changes neither (a file only grows at its
  end). So the fingerprints of a day are within `Countable`, and a misreading has
  one of the two causes of `MisreadsExplained`. For the events, `FreshDays` says that a
  bucket later than the tailer's day holds no event yet, so a scan that starts
  anew cannot add to a bucket it has already filled. For the counters the tokens
  are compared as sets: `Undetailed` are the tokens only a counter reported, and
  `Accounted` are the lines after the last clear which a baseline has taken in,
  or which the first frame of their session will. An increase from `b` to `c`
  takes in exactly the lines of the session with the ranks `b + 1..c`
  (`RankOnto`: every rank of a finite set is taken, by surjection), and
  `BaselinesPastClear` makes them lines after the clear. `StoredCounted` says
  the same of the database, with the clear that the database knows of, which is
  what a crash falls back to. `PruneFacts` covers the retention.

**Settings** (`SettingsProofs`).

- `SavesStaySound` (`SavesAreSound`) and `WindowStaysReachable`
  (`WindowReachable`), from `IInv == Types /\ DataInv /\ ThreadInv`. `DataInv`
  says of each copy of the configuration (row, page, loaded, chosen,
  acknowledged) that it is a normalised one, and how it relates to the row at
  each step of a save; `ThreadInv` that at most one thread is between its launch
  and its last store, and that it alone owns the flag and the handle. What is
  proved of a visible window without a page is only that its thread is the one at
  work; that a click reaches it is false (section 4).

**Updater** (`UpdaterProofs`).

- `OnlyVerifiedAndNewerRuns` (`VerifiedAndNewer`) and `AloneHelperKeepsProgram`
  (`AloneProgramKept`), from `IInv == Types /\ DownloadsInv /\ ProgramsInv /\
  AloneInv`. `DownloadInv` follows a download from the check of its version to
  the helper it becomes, `ProgramInv` what a program was started from. `CopyIs`
  says at each step of a helper which file is the complete one, and `AloneInv`
  that after a crash in mid replacement nothing runs that could touch the
  backup.

**Host** (`HostProofs`), for any number of windows, publications, popups, inputs
and any depth of nested message loops; the only assumption is
`HostAssumption`.

- `NothingIsForgotten == Spec => []NothingForgotten` and `StripStaysCurrent ==
  Spec => []StripIsCurrent`, from `HostInv == Types /\ CreatedOnce(stack) /\
  UiInv(ui, Creating(stack), expired) /\ RiseInv /\ Woken`. A handler that creates
  a window waits in a message loop in which every other handler may run, so the
  invariant has to hold at each of those loops. `CreatedOnce` and `CreationInv`
  say that a window under creation belongs to the one waiting handler that will
  store its handle, is open, and has no page yet. `AddressInv` says that a
  message is for the owner or for a window whose page is ready; without it the
  page of a window created in the place of a destroyed one could be handed the
  message of the old one. `SettleInv` pairs the handle of a window that is gone
  with the message that will clear it, `PageInv` what a page shows with what its
  window was given, or the `ready` message that will make up for it. For the
  strip `RiseInv` is needed: snapshots on their way come in the order of their
  versions and are newer than the one held and than the last one that expired, so
  that none that is late can take the place of a newer one. `Woken` gives
  the wake message of each command. In the middle of a handler some pages lack
  their data (`UiBut`); `Aged` says that what a handler leaves behind has nothing
  newer in a strip than what it found, which is what keeps `RiseInv` through
  the nested loops.

**Placement**, for all integers (`HostProofs`).

- `StripAlwaysInPlace`: `StripInPlace(bar, config)` for every taskbar, width,
  gap and offset, negative ones of old settings included.
- `GaugeAlwaysDodged`: `DodgesGauge` for all rectangles and every sequence of
  windows. The run asks the same two predicates on small screens, within
  `WindowsInPlace`.

`IInv` of Activity, `TokensInv` (1.9 million states), `UsageInv` (849,152
states), `HeldInv` (94,198 states) and `HostInv` (494,900 states of a smaller
instance) have been checked by TLC as invariants, too.

Two statements changed through the proofs. `SeenIsCounted` used to claim that
the tailer's day always has its bucket; with a retention shorter than the
number of midnights without a poll the retention drops it, so the property now
excepts exactly that (`DroppedByRetention`). The sums in `CountersCountedOnce`
became cardinalities of sets, with the same meaning.

*Only model-checked:*

- Every liveness property, as fairness and ENABLED are beyond the prover:
  `EndIsReported`, `RequestResolves`, `EndReachesScreen`, `StopEnds`,
  `RefreshServed` (with the action property that is part of it), `LampSettles`,
  `RequestIsServed`, `UpdateRestarts`, `StripCloses`, `ExitEnds`.
- `FreshQuotaApplied`, which holds with one connection only (section 4).
- The decisions other than the two of Placement, several of which fold over
  sequences.

## 6. Not modelled, and why

- Drawing (`render.rs` beyond layout, hits and the curve), bitmaps, icons and
  device resources: Win32 and Direct2D calls with no state of the program's own.
- A WebView that cannot be created and the native drawing it falls back to; the
  WebView of the taskbar strip itself, created once in `create_window`.
- JSON decoding (`protocol.rs`, field names and number formats), HTTP, manifest
  parsing, opening of files and the SQL engine: input and output, covered by the
  repository's unit tests as far as they are pure.
- Spawning, probing and killing the child process; the probe's result is an
  input of `Locate`.
- The composition of `Tokens` and `LocalUsage` with `Telemetry` in one state, and
  the run loop as a whole: each pair shares only the token record and the clock,
  and the product is out of TLC's reach.
- Saturation at u64::MAX and i32 limits; the wall clock going back; deletion of
  session files.
- Demo data, previews, probe commands, the rings model the renderer does not use.
- `RefreshScheduler` and several host commands are modelled or listed although
  the running program never calls them.
