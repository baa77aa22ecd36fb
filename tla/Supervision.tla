---------------------------- MODULE Supervision ----------------------------
(***************************************************************************)
(* How the App Server is found and how long the program waits to try again *)
(* (adapters-codex-app-server/src/locator.rs and supervisor.rs,            *)
(* application/src/scheduler.rs), and which old logs it removes            *)
(* (diagnostics/src/lib.rs).                                               *)
(*                                                                         *)
(* A candidate is [protected, file, named, health, modified, version]: it  *)
(* lies in WindowsApps, is a file, has the CLI's name, and answers the     *)
(* probe with health.  Times are numbers, an optional value is a set.      *)
(***************************************************************************)
EXTENDS Integers, Sequences, FiniteSets, SequencesExt, FiniteSetsExt

\* ProcessCapabilityProbe.probe: `codex app-server --help` succeeds within the time.
Probe(candidate) ==
    IF candidate.protected THEN "ProtectedPackage"
    ELSE CASE candidate.health = "good" -> "ok"
           [] candidate.health = "hangs" -> "TimedOut"
           [] OTHER -> "Failed"

\* local_candidates: the version directories with a CLI, the newest file first.
LocalCandidates(directories) ==
    LET Usable(c) == c.file /\ c.named
        Newer(c, d) == c.modified > d.modified
                       \/ (c.modified = d.modified /\ c.version > d.version)
    IN  SetToSortSeq({c \in directories : Usable(c)}, Newer)

\* What locate has in its list before it leaves WindowsApps out.
Candidates(input) ==
    (IF input.manual # <<>> THEN input.manual ELSE LocalCandidates(input.local))
      \o SelectSeq(input.path, LAMBDA c : c.protected \/ (c.file /\ c.named))

Locate(input) ==
    LET Fails(error) == [error |-> error, found |-> {}]
        listed == SelectSeq(Candidates(input), LAMBDA c : ~c.protected)
        protectedSeen == \E i \in DOMAIN Candidates(input) : Candidates(input)[i].protected
        working == {i \in DOMAIN listed : Probe(listed[i]) = "ok"}
        manual == ToSet(input.manual)
    IN  CASE \E m \in manual : m.protected -> Fails("ProtectedPackage")
          [] \E m \in manual : ~m.file -> Fails("ManualNotFile")
          [] \E m \in manual : ~m.named -> Fails("ManualInvalidFilename")
          [] listed = <<>> -> Fails(IF protectedSeen THEN "ProtectedPackage" ELSE "NotFound")
          [] working # {} -> [error |-> "none", found |-> {listed[Min(working)]}]
          [] OTHER -> Fails("ProbeFailed")

-----------------------------------------------------------------------------

\* ExponentialBackoff.delay_for; once the maximum is reached another step keeps it.
DelayFor(backoff, attempt) ==
    LET Step(delay, n) == Min({delay * Max({backoff.multiplier, 1}), backoff.maximum})
    IN  Min({FoldLeft(Step, backoff.initial, [n \in 1..attempt |-> n]), backoff.maximum})

\* RefreshScheduler.next_delay; the shift stops at 31.
NextDelay(policy, failures, activity) ==
    IF failures = 0
    THEN IF activity \in {"Thinking", "Executing", "Reviewing"} THEN policy.active ELSE policy.idle
    ELSE Min({policy.firstRetry * 2 ^ Min({failures - 1, 31}), policy.maxRetry})

\* prune_old_logs_at: what is removed of entries, read in this order; an entry whose
\* metadata or removal fails ends the run.
PrunedLogs(entries, retentionDays, now) ==
    LET cutoff == Max({now - Max({retentionDays, 1}), 0})
        Old(e) == e.prefixed /\ e.plain /\ e.modified < cutoff
        Ends(e) == e.prefixed /\ (e.broken = "metadata" \/ (e.broken = "remove" /\ Old(e)))
    IN  {i \in DOMAIN entries : Old(entries[i]) /\ \A j \in 1..i : ~Ends(entries[j])}

-----------------------------------------------------------------------------
(* What must hold of every input, checked in module MCDecisions.             *)

(* The CLI that is started passed its probe, is outside WindowsApps, and     *)
(* nothing that comes before it would have passed: the manual path before    *)
(* the newest installed version before PATH.  A manual path that is no CLI   *)
(* is an error instead of another program; without any choice the error says *)
(* why (locator.rs:174-222).                                                 *)
LocatedAsOrdered(input) ==
    LET result == Locate(input)
        Works(c) == ~c.protected /\ c.file /\ c.named /\ c.health = "good"
        manual == ToSet(input.manual)
        locals == {c \in input.local : Works(c)}
        others == {input.path[i] : i \in DOMAIN input.path}
        newest == {c \in locals : \A d \in locals : d.modified <= c.modified}
        broken == \E m \in manual : m.protected \/ ~m.file \/ ~m.named
        anyWorks == {m \in manual : Works(m)} \cup {c \in others : Works(c)}
                      \cup (IF manual = {} THEN locals ELSE {})
    IN  /\ \A c \in result.found :
             /\ Works(c) /\ ~broken
             /\ {m \in manual : Works(m)} # {} => c \in manual
             /\ (manual = {} /\ locals # {}) => c \in newest
        /\ result.found = {} <=> (broken \/ anyWorks = {})
        /\ result.error = "NotFound" => \A c \in others \cup input.local : ~c.protected \/ manual # {}

(* A wait never exceeds its maximum, never falls as failures go on, and is   *)
(* not zero where a wait is configured (supervisor.rs:130-141,               *)
(* scheduler.rs:41-72).                                                      *)
DelaysBounded(backoff, policy, n) ==
    /\ DelayFor(backoff, n) <= backoff.maximum
    /\ DelayFor(backoff, n) <= DelayFor(backoff, n + 1)
    /\ (backoff.initial > 0 /\ backoff.maximum > 0) => DelayFor(backoff, n) > 0
    /\ \A activity \in {"Idle", "Executing"} :
         /\ n > 0 => NextDelay(policy, n, activity) <= policy.maxRetry
         /\ n > 0 => NextDelay(policy, n, activity) <= NextDelay(policy, n + 1, activity)

(* Only the program's own log files go, none that was written within the     *)
(* days kept or the last day; and with nothing in the way no older one is    *)
(* left and fewer go when more days are kept (diagnostics/src/lib.rs:27-56). *)
LogsArePruned(entries, retentionDays, now) ==
    LET removed == PrunedLogs(entries, retentionDays, now)
        Kept(e) == now - e.modified <= Max({retentionDays, 1})
        OwnLog(e) == e.prefixed /\ e.plain
    IN  /\ \A i \in removed : OwnLog(entries[i]) /\ ~Kept(entries[i])
        /\ (\A i \in DOMAIN entries : entries[i].broken = "no") =>
             /\ \A i \in DOMAIN entries \ removed : OwnLog(entries[i]) => Kept(entries[i])
             /\ PrunedLogs(entries, retentionDays + 1, now) \subseteq removed
=============================================================================
