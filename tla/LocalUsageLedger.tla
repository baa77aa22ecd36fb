--------------------------- MODULE LocalUsageLedger ---------------------------
(***************************************************************************)
(* The local usage ledger                                                  *)
(* (crates/application/src/local_usage_ledger.rs): token buckets per day,  *)
(* fed by two sources that measure the same tokens.                        *)
(*                                                                         *)
(* Session events carry input and output counts: they enter a bucket's     *)
(* total and its details.  The thread counters of Codex's SQLite database  *)
(* only give a cumulative total: their increase enters the total alone.    *)
(* Hours, cached input and prices follow the same path: see UsageBuckets.  *)
(***************************************************************************)
EXTENDS Integers, FiniteSets

EmptyDay == [total |-> 0, detailed |-> 0]
NoDays   == [d \in {} |-> EmptyDay]

Bucket(days, d) == IF d \in DOMAIN days THEN days[d] ELSE EmptyDay
PutDay(days, d, bucket) ==
  [x \in DOMAIN days \cup {d} |-> IF x = d THEN bucket ELSE days[x]]

(* prune_days: the oldest days go until retained of them are left. *)
PruneDays(days, retained) ==
  [d \in {x \in DOMAIN days : Cardinality({y \in DOMAIN days : y >= x}) <= retained} |-> days[d]]

(* What a stored bucket reads as: details, where there are any, make the total. *)
Canonical(bucket) ==
  IF bucket.detailed > 0 THEN [bucket EXCEPT !.total = bucket.detailed] ELSE bucket

-----------------------------------------------------------------------------
(* A ledger: the days, the last counter seen of each thread, the dirty flag. *)

NoBaselines == [t \in {} |-> 0]
EmptyLedger == [days |-> NoDays, baselines |-> NoBaselines, dirty |-> FALSE]

Changed(ledger, days, retained) ==
  [ledger EXCEPT !.days = PruneDays(days, retained), !.dirty = TRUE]

(* Mutant: the thread baselines survive. *)
ClearDaysOnly(ledger) == [ledger EXCEPT !.days = NoDays, !.dirty = TRUE]

(* clear *)
ClearLedger(ledger) == [days |-> NoDays, baselines |-> NoBaselines, dirty |-> TRUE]

(* load_sqlite: a repaired bucket makes the ledger dirty. *)
LoadLedger(stored) ==
  LET days == [d \in DOMAIN stored |-> Canonical(stored[d])]
  IN  [EmptyLedger EXCEPT !.days = days, !.dirty = (days # stored)]

SetRetentionDays(ledger, retained) ==
  LET days == PruneDays(ledger.days, retained)
  IN  [ledger EXCEPT !.days = days,
                     !.dirty = @ \/ Cardinality(DOMAIN days) # Cardinality(DOMAIN ledger.days)]

(* observe: only the increase of a known thread counts; a first frame, a    *)
(* new thread or a counter that went down just sets the baseline.  The sum  *)
(* of the increases is the number of tokens above the baselines.            *)
AboveBaselines(ledger, counters) ==
  UNION {{t} \X (ledger.baselines[t] + 1..counters[t]) :
           t \in DOMAIN counters \cap DOMAIN ledger.baselines}

Increase(ledger, counters) == Cardinality(AboveBaselines(ledger, counters))

Observe(ledger, day, counters, retained) ==
  LET delta    == Increase(ledger, counters)
      old      == Bucket(ledger.days, day)
      rebased  == [ledger EXCEPT !.baselines =
                    [t \in DOMAIN counters \cup DOMAIN @ |->
                       IF t \in DOMAIN counters THEN counters[t] ELSE @[t]]]
  IN  IF delta = 0 THEN rebased
      ELSE Changed(rebased, PutDay(ledger.days, day, [old EXCEPT !.total = @ + delta]), retained)

(* observe_session_event for each event of a batch. *)
ObserveSessionEvents(ledger, day, tokens, retained) ==
  LET old == Bucket(ledger.days, day)
  IN  IF tokens = 0 THEN ledger
      ELSE Changed(ledger, PutDay(ledger.days, day, [total |-> old.total + tokens,
                                                     detailed |-> old.detailed + tokens]), retained)

(* replace_session_day: the day becomes what a full scan has found. *)
ReplaceSessionDay(ledger, day, tokens, retained) ==
  LET scan == [total |-> tokens, detailed |-> tokens]
  IN  IF day \in DOMAIN ledger.days /\ ledger.days[day] = scan THEN ledger
      ELSE Changed(ledger, PutDay(ledger.days, day, scan), retained)
=============================================================================
