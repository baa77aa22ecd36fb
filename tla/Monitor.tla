------------------------------- MODULE Monitor -------------------------------
(***************************************************************************)
(* The monitor state behind the taskbar and the detail card                *)
(* (crates/application/src/{monitor,coordinator}.rs, the quota windows of  *)
(* crates/domain/src/quota.rs, the endpoint statuses of official.rs) and   *)
(* the order in which the runtime applies one SessionUpdate to it          *)
(* (official_runtime.rs, apply_session_update).                            *)
(*                                                                         *)
(* A datum is the version of the account state it was read from, a         *)
(* positive number; NoData stands for None.  Freshness and source are      *)
(* functions of the presence: nothing in the program calls the session     *)
(* fallback, so Present and Absent are Fresh and from the App Server, and  *)
(* Unknown is Stale and from nowhere.                                      *)
(***************************************************************************)
EXTENDS Integers

CONSTANT Windows      \* {"fiveHour", "weekly"}, or one of them

Endpoints == {"account", "quota", "usage"}
NoData == 0

-----------------------------------------------------------------------------
(* Endpoint statuses (OfficialEndpointStatus). *)

Cached(status) == IF status = "unavailable" THEN "unavailable" ELSE "cached"
AllCached(statuses) == [k \in Endpoints |-> Cached(statuses[k])]
NoStatus == [k \in Endpoints |-> "unavailable"]

-----------------------------------------------------------------------------
(* Quota windows (QuotaWindowState). *)

UnknownWindow == [presence |-> "Unknown", value |-> NoData, lastKnown |-> NoData]

FromAuthoritative(value, previous) ==
  IF value # NoData
    THEN [presence |-> "Present", value |-> value, lastKnown |-> value]
    ELSE [presence |-> "Absent", value |-> NoData, lastKnown |-> previous.lastKnown]

Unavailable(previous) ==
  [presence |-> "Unknown", value |-> NoData,
   lastKnown |-> IF previous.value # NoData THEN previous.value ELSE previous.lastKnown]

-----------------------------------------------------------------------------
(* MonitorState. *)

EmptyOfficial == [account |-> NoData, usage |-> NoData, status |-> NoStatus]
EmptyTokens   == [current |-> NoData, lastKnown |-> NoData]

EmptyMonitor == [windows  |-> [w \in Windows |-> UnknownWindow],
                 official |-> EmptyOfficial, tokens |-> EmptyTokens, revision |-> 0]

(* Mutant: the windows and their last-known values survive a reset. *)
ResetKeepsWindows(m) == [EmptyMonitor EXCEPT !.revision = m.revision, !.windows = m.windows]

(* The revision and the observation time survive a reset. *)
ResetAccountScopedState(m) == [EmptyMonitor EXCEPT !.revision = m.revision]

(* A snapshot with a lower revision is refused; so is one with the same     *)
(* revision that was observed before the monitor's own observation time.    *)
Refused(m, u) == u.revision < m.revision \/ (u.revision = m.revision /\ u.late)

ApplyAuthoritative(m, u) ==
  IF Refused(m, u) THEN m
  ELSE [m EXCEPT !.windows = [w \in Windows |-> FromAuthoritative(u.windows[w], m.windows[w])],
                 !.revision = u.revision]

(* A snapshot without thread usage leaves the tokens alone. *)
ApplyTokenUsage(m, u) ==
  IF u.tokens = NoData THEN m
  ELSE [m EXCEPT !.tokens = [current |-> u.tokens, lastKnown |-> u.tokens]]

(* Mutant: only the endpoint statuses are degraded. *)
UnavailableEndpointsOnly(m) == [m EXCEPT !.official.status = AllCached(m.official.status)]

AuthoritativeUnavailable(m) ==
  [m EXCEPT !.windows = [w \in Windows |-> Unavailable(m.windows[w])],
            !.tokens = [current |-> NoData,
                        lastKnown |-> IF m.tokens.current # NoData THEN m.tokens.current
                                                                   ELSE m.tokens.lastKnown],
            !.official.status = AllCached(m.official.status)]

-----------------------------------------------------------------------------
(* The runtime: apply_session_update. *)

(* Mutant: fresh data is enough, whatever the health of the source. *)
FreshIsHealthy(u) == u.fresh

Healthy(u) == u.health \in {"Healthy", "Degraded"} /\ u.fresh

(* Mutant: the account is reset after its new data was applied. *)
ApplyThenReset(m, u) ==
  LET official == [m EXCEPT !.official = u.official]
      limits   == IF u.official.status["quota"] = "live" THEN ApplyAuthoritative(official, u)
                                                          ELSE official
  IN  IF u.reset # NoData THEN ResetAccountScopedState(limits)
      ELSE IF Healthy(u) THEN limits ELSE AuthoritativeUnavailable(limits)

ApplySessionUpdate(m, u) ==
  LET reset    == IF u.reset # NoData THEN ResetAccountScopedState(m) ELSE m
      official == [reset EXCEPT !.official = u.official]
      limits   == IF u.official.status["quota"] = "live" THEN ApplyAuthoritative(official, u)
                                                          ELSE official
      tokens   == ApplyTokenUsage(limits, u)
  IN  IF Healthy(u) THEN tokens ELSE AuthoritativeUnavailable(tokens)

-----------------------------------------------------------------------------
(* What a reader of the screen sees. *)

(* A window drawn as a live ring (QuotaWindowState::is_taskbar_visible). *)
Visible(m, w) == m.windows[w].presence = "Present"

(* Data presented as current: visible windows and Live endpoints. *)
ShownData(m) ==
  {m.windows[w].value : w \in {x \in Windows : Visible(m, x)}}
    \cup (IF m.official.status["account"] = "live" THEN {m.official.account} ELSE {})
    \cup (IF m.official.status["usage"] = "live" THEN {m.official.usage} ELSE {})

(* Every datum the monitor holds, the diagnostic last-known values included. *)
HeldData(m) ==
  ({m.windows[w].value : w \in Windows} \cup {m.windows[w].lastKnown : w \in Windows}
    \cup {m.official.account, m.official.usage, m.tokens.current, m.tokens.lastKnown})
  \ {NoData}
=============================================================================
