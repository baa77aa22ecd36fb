----------------------------- MODULE UsageBuckets -----------------------------
(***************************************************************************)
(* One day of the local usage ledger in full                               *)
(* (application/src/local_usage_ledger.rs): the day's counters, the same   *)
(* counters hour by hour, and the estimated price.  LocalUsageLedger keeps *)
(* one figure per day and follows it through polls and restarts; here the  *)
(* figures of a day are followed through its events and one restart.       *)
(*                                                                         *)
(* The counts of an event are those of module Presentation: an optional    *)
(* value is a set with at most one element.  Sums do not reach 2^64.       *)
(***************************************************************************)
EXTENDS Presentation

Hours    == 0..23
Amounts == {"total", "input", "cached", "output", "cost"}
NoCounts == [c \in Amounts |-> 0]
EmptyBucket == [day |-> NoCounts, hours |-> [h \in Hours |-> NoCounts]]

Together(a, b) == [c \in Amounts |-> a[c] + b[c]]
EventCounts(event) ==
  [total |-> ValueOr(DisplayTotal(event.counts), 0), input |-> ValueOr(event.counts.input, 0),
   cached |-> ValueOr(event.counts.cached, 0), output |-> ValueOr(event.counts.output, 0),
   cost |-> ValueOr(event.cost, 0)]

\* add_counts: an event without a price counts its tokens only.
AddCounts(bucket, event) ==
  LET added == EventCounts(event)
  IN  [bucket EXCEPT !.day = Together(@, added), !.hours[Min({event.hour, 23})] = Together(@, added)]

\* observe: an increase of SQLite's counters has a total and no details.
AddIncrease(bucket, increase) ==
  LET added == [NoCounts EXCEPT !.total = increase.delta]
  IN  [bucket EXCEPT !.day = Together(@, added), !.hours[Min({increase.hour, 23})] = Together(@, added)]

\* Mutant: an event of an unknown model is passed over.
ObserveSessionEventPricedOnly(bucket, event) ==
  IF EventCounts(event).total = 0 \/ event.cost = {} THEN bucket ELSE AddCounts(bucket, event)

\* observe_session_event_priced.
ObserveSessionEvent(bucket, event) ==
  IF EventCounts(event).total = 0 THEN bucket ELSE AddCounts(bucket, event)

\* replace_session_day_priced: the bucket of a full scan.
ScannedDay(events) == FoldLeft(AddCounts, EmptyBucket, events)

\* What the polls of one run of the program make of the day.
PolledDay(reports) ==
  LET Poll(bucket, r) == IF r.kind = "event" THEN ObserveSessionEvent(bucket, r) ELSE AddIncrease(bucket, r)
  IN  FoldLeft(Poll, EmptyBucket, reports)

\* save_sqlite: hours without tokens have no row.
StoredHours(bucket) ==
  {h \in Hours : bucket.hours[h].total # 0 \/ bucket.hours[h].input # 0 \/ bucket.hours[h].output # 0}

\* load_sqlite: details make the total, and cached input is part of the input.
CanonicalCounts(c) ==
  [c EXCEPT !.total = IF c.input > 0 \/ c.output > 0 THEN c.input + c.output ELSE @,
            !.cached = Min({@, c.input})]
Reloaded(bucket) ==
  [day |-> CanonicalCounts(bucket.day),
   hours |-> [h \in Hours |-> IF h \in StoredHours(bucket) THEN CanonicalCounts(bucket.hours[h]) ELSE NoCounts]]

\* UsageDay::counts, today_counts: a counter at zero is an unknown one.
DayCounts(bucket) ==
  LET Known(c) == IF bucket.day[c] > 0 THEN {bucket.day[c]} ELSE {}
      counts == [input |-> Known("input"), cached |-> Known("cached"), cacheWrite |-> {},
                 output |-> Known("output"), reasoning |-> {}, total |-> Known("total")]
  IN  IF DisplayTotal(counts) = {} THEN {} ELSE {counts}

-----------------------------------------------------------------------------
(* What must hold of every input, checked in module MCDecisions.             *)

SumOfHours(bucket, c) == FoldLeft(LAMBDA sum, h : sum + bucket.hours[h][c], 0, [i \in 1..24 |-> i - 1])
AddsUp(bucket) == \A c \in Amounts : bucket.day[c] = SumOfHours(bucket, c)

Kinds(reports) == {reports[i].kind : i \in DOMAIN reports}
Complete(event) == event.counts.input # {} <=> event.counts.output # {}
Uniform(reports) ==
  /\ Cardinality(Kinds(reports)) <= 1
  /\ \A i, j \in DOMAIN reports :
       reports[i].kind = "event" => Complete(reports[i])
                                    /\ (reports[i].counts.input = {} <=> reports[j].counts.input = {})

(* The hours on the chart add up to the figure of the day, in tokens and in  *)
(* money; a day of one kind of report reads back as it was stored, so they   *)
(* do after a restart too; a second restart changes nothing any more         *)
(* (local_usage_ledger.rs:118-136, 202-315; docs/storage-model.md:20-32).    *)
HoursMakeDay(reports) ==
  LET day == PolledDay(reports) IN
  /\ AddsUp(day)
  /\ Uniform(reports) => Reloaded(day) = day
  /\ Reloaded(Reloaded(day)) = Reloaded(day)

(* Today's figure on the card is the day's point on the history chart: from  *)
(* the first event of a day of one kind, and for every day after a restart   *)
(* (local_usage_ledger.rs:108-116, 391-393, 416-438, usage.rs:41-53).        *)
CardMatchesChart(reports) ==
  LET day == PolledDay(reports)
      Agree(bucket) == UNION {DisplayTotal(c) : c \in DayCounts(bucket)}
                         = IF bucket.day.total > 0 THEN {bucket.day.total} ELSE {}
  IN  /\ Agree(Reloaded(day))
      /\ Uniform(reports) => Agree(day)

(* A full scan finds what reading event by event has counted, prices         *)
(* included: a rescan after a restart changes nothing                        *)
(* (local_usage_ledger.rs:338-388).                                          *)
ScanMatchesTail(reports) ==
  Kinds(reports) \subseteq {"event"} => ScannedDay(reports) = PolledDay(reports)
=============================================================================
