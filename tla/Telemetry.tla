------------------------------ MODULE Telemetry ------------------------------
(***************************************************************************)
(* The session worker composed with the runtime thread that applies its    *)
(* updates to the monitor (official_runtime.rs, run_loop): what the        *)
(* taskbar and the detail card show while accounts switch, pipes break,    *)
(* notifications wait behind a refresh and updates wait in the channel.    *)
(***************************************************************************)
EXTENDS Session

VARIABLES
  monitor,     \* MonitorCoordinator.state
  since        \* history: the version of the last account/updated applied

vars == <<sessionVars, monitor, since>>

(* run_loop takes one update.  Applying one that is not healthy moves the    *)
(* monitor's observation time to now, past every update already queued.     *)
RuntimeApply ==
  LET u == Head(updates) IN
  /\ updates # <<>>
  /\ monitor' = ApplySessionUpdate(monitor, u)
  /\ updates' = [i \in 1..Len(Tail(updates)) |->
                  [Tail(updates)[i] EXCEPT !.late = @ \/ ~Healthy(u)]]
  /\ since' = IF u.reset # NoData THEN u.reset ELSE since
  /\ UNCHANGED <<server, link, pc, retries, locals, round, flags, extra>>

Init == SessionInit /\ monitor = EmptyMonitor /\ since = NoData

Next == RuntimeApply \/ (SessionNext /\ UNCHANGED <<monitor, since>>)

Spec == Init /\ [][Next]_vars

Shut(A) == A /\ UNCHANGED <<monitor, since>>

(* The worker and the runtime are scheduled; every wait of the worker ends  *)
(* with a timeout.  Nothing is assumed of the server or the user.           *)
Fairness ==
  /\ WF_vars(RuntimeApply)
  /\ WF_vars(Shut(Refreshing)) /\ WF_vars(Shut(Offline))
  /\ WF_vars(Shut(HandleEvent)) /\ WF_vars(Shut(LoopCancelled)) /\ WF_vars(Shut(LoopRequested))

FairSpec == Spec /\ Fairness

-----------------------------------------------------------------------------

Data == Versions \cup {NoData}
Statuses == [Endpoints -> {"unavailable", "live", "cached"}]
Healths == {"Starting", "Healthy", "Degraded", "Disconnected", "Stopped"}

TypeOK ==
  /\ version \in Versions /\ switchedAt \subseteq Versions
  /\ conn \in 0..MaxConnections /\ up \in BOOLEAN /\ ready \in BOOLEAN
  /\ answers \in [Endpoints -> Data]
  /\ pc \in {"factory", "loop", "refresh", "backoff", "stopped"}
  /\ nested \in BOOLEAN /\ attempt \in Nat /\ retry \in Nat /\ failures \in Nat
  /\ data \in [account : Data, windows : [Windows -> Data], usage : Data, tokens : Data]
  /\ tracker \in Statuses /\ health \in Healths
  /\ lastData \in {"none", "recent", "old"} /\ revision \in Nat
  /\ resetBy \in Data /\ failed \in BOOLEAN /\ succeeded \in BOOLEAN
  /\ cancelled \in BOOLEAN /\ refreshRequested \in BOOLEAN
  /\ \A i \in DOMAIN updates :
       updates[i].windows \in [Windows -> Data] /\ updates[i].official.status \in Statuses
         /\ updates[i].health \in Healths /\ updates[i].revision \in Nat
  /\ monitor.windows \in [Windows -> [presence : {"Present", "Absent", "Unknown"},
                                      value : Data, lastKnown : Data]]
  /\ monitor.official.status \in Statuses /\ monitor.revision \in Nat
  /\ since \in Data /\ extra \in 0..MaxExtra

(* Once the runtime has applied an account reset, nothing read before that   *)
(* switch is left anywhere in the monitor, not even as a diagnostic value,   *)
(* and nothing read before it comes back, whatever was queued in either      *)
(* channel (session.rs:154-162, monitor.rs:58-63).                           *)
NoLeakAcrossReset == \A v \in HeldData(monitor) : v >= since

(* When the worker and the runtime have caught up with a live server, all    *)
(* that is shown as current belongs to the account that is logged in         *)
(* (session.rs:452-480, official_runtime.rs:1013-1035).                      *)
CaughtUp == up /\ pc = "loop" /\ updates = <<>>
              /\ \A i \in DOMAIN events : events[i].kind # "account"
ShownIsCurrent == CaughtUp => \A v \in ShownData(monitor) : Account(v) = Account(version)

(* After the pipe has ended and the runtime has seen it, nothing is shown as *)
(* live: windows are not drawn and no endpoint is Live, through the failed   *)
(* reconnects as well (session.rs:496-514, 580-594, coordinator.rs:74-84).   *)
NothingShown == ShownData(monitor) = {} /\ \A k \in Endpoints : monitor.official.status[k] # "live"
NothingLiveAfterEnd == (pc \in {"factory", "backoff", "stopped"} /\ updates = <<>>) => NothingShown

(* The two reconnect loops together give up after a bounded number of failed *)
(* factory calls in a row (session.rs:351-390, 561-597).                     *)
AttemptsBounded == MaxAttempts # 0 => failures <= 2 * MaxAttempts

(* Live, healthy quota data the runtime takes from the channel reaches the   *)
(* windows: the order guard only refuses what is older than the monitor      *)
(* ("returns false when the snapshot is older", monitor.rs:64-66).           *)
Takes(u) == updates # <<>> /\ u = Head(updates) /\ Len(updates') = Len(updates) - 1
FreshQuotaApplied ==
  [][\A u \in {updates[i] : i \in DOMAIN updates} :
       (Takes(u) /\ Healthy(u) /\ u.official.status["quota"] = "live")
         => \A w \in Windows : monitor'.windows[w].value = u.windows[w]]_vars

-----------------------------------------------------------------------------

(* A pipe that broke is seen: the screen goes dark unless the session has    *)
(* reconnected meanwhile (session.rs:496-514, official_runtime.rs:1031).     *)
EndReachesScreen == (conn > 0 /\ ~up) ~> (NothingShown \/ up)

(* stop ends the worker from every place it can be in (session.rs:250-265,   *)
(* 409-414, 574-576).                                                        *)
StopEnds == cancelled ~> (pc = "stopped")

(* A refresh the user asked for is never dropped: only a refresh that begins *)
(* on a ready transport takes the request, through disconnects, backoffs and *)
(* reconnects that come before it (session.rs:418-432).                      *)
TakenByRefresh == [][refreshRequested /\ ~refreshRequested' => ready /\ pc' = "refresh"]_vars

(* A request of a ready transport is taken, unless the pipe breaks first     *)
(* (session.rs:267-275, 418-432).                                            *)
TakenWhileReady == (refreshRequested /\ ready) ~> (~refreshRequested \/ ~ready)

(* A refresh that was asked for waits for a ready transport and then takes   *)
(* place (session.rs:267-275, 418-432).                                      *)
RefreshServed == TakenByRefresh /\ TakenWhileReady

(* With the pipe down the screen has nothing live and the reconnects are     *)
(* counted, through the nested loops (session.rs:351-390, 496-597).          *)
DarkAfterEnd == TypeOK /\ NothingLiveAfterEnd /\ AttemptsBounded
=============================================================================
