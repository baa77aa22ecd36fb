---------------------------- MODULE ServerState ----------------------------
(***************************************************************************)
(* What the client remembers of the App Server                             *)
(* (adapters-codex-app-server: state.rs, activity.rs, quota.rs, and the    *)
(* part of session.rs that applies an answer).  Full reads replace a part  *)
(* of the state, notifications patch it, activity events of many threads   *)
(* are aggregated into one lamp.                                           *)
(*                                                                         *)
(* A JSON object is a function from the keys it has.                       *)
(* The two spellings of a key, and the places of a message it may be found *)
(* in, are one.  An optional value is a set with at most one element.      *)
(***************************************************************************)
EXTENDS Integers, Sequences, FiniteSets, FiniteSetsExt

CONSTANTS
  Threads,         \* thread ids
  Null,            \* JSON's null
  AccountReads, AccountPatches,     \* inputs: answers and notifications, see their actions
  LimitReads, LimitPatches,
  UsageReads, TokenPatches, ActivityEvents,
  NoticeTicks,     \* TERMINAL_ACTIVITY_NOTICE_MS
  MaxBuckets,      \* MAX_DAILY_USAGE_BUCKETS
  MaxMessages,     \* bound: messages applied
  MaxNow           \* bound: the clock

VARIABLES
  account,         \* AccountSnapshot: fields, requiresAuth
  limits,          \* RateLimitsSnapshot: primary, secondary, raw, resetCredits
  tokens,          \* TokenUsageUpdate: thread, counts, last
  usage,           \* AccountUsageSnapshot: the response
  threads,         \* thread_activities: state and time of the last event of each thread
  lastActivity,    \* last_activity: its state and thread
  now,             \* the clock, in ticks of the notice window
  messages,        \* bound: messages applied so far
  reported         \* history: what was said of each part since its last full read and
                   \* since the account was last said to have changed

serverVars == <<account, limits, tokens, usage, threads, lastActivity, now, messages, reported>>

Empty == [k \in {} |-> {}]
Put(map, key, value) == [k \in DOMAIN map \cup {key} |-> IF k = key THEN value ELSE map[k]]
Or(option, default) == IF option = {} THEN default ELSE CHOOSE x \in option : TRUE
Said(object) == {k \in DOMAIN object : object[k] # Null}
Lookup(object, key) == {object[k] : k \in {key} \cap Said(object)}

IsOption(S) == \A x, y \in S : x = y
IsObject(o) == o = [k \in DOMAIN o |-> o[k]]

(* What the client can read out of limits: a window's length is a number    *)
(* without a sign, or is not said.                                           *)
AreLimits(o) ==
  /\ IsOption(o.primary) /\ IsOption(o.secondary) /\ IsOption(o.credits)
  /\ \A w \in o.primary \cup o.secondary : Lookup(w, "duration") \subseteq Nat
  /\ \A c \in o.credits : IsObject(c)

ASSUME ServerAssumption ==
  /\ NoticeTicks \in Nat /\ MaxBuckets \in Nat /\ MaxMessages \in Nat /\ MaxNow \in Nat
  /\ \A r \in AccountReads \cup AccountPatches :
       IsOption(r.requiresAuth) /\ r.requiresAuth \subseteq BOOLEAN
  /\ \A r \in LimitReads :
       /\ \A part \in {r.codex, r.named, r.plain} : IsOption(part) /\ \A o \in part : AreLimits(o)
       /\ IsOption(r.resetCredits)
  /\ \A p \in LimitPatches : AreLimits(p)
  /\ \A r \in UsageReads :
       /\ r.buckets \in Seq([date : Nat, tokens : SUBSET Nat])
       /\ \A i \in DOMAIN r.buckets : IsOption(r.buckets[i].tokens)
  /\ \A p \in TokenPatches : \A thread \in {p.outer, p.inner} : IsOption(thread) /\ thread \subseteq Threads
  /\ \A e \in ActivityEvents : IsOption(e.thread) /\ e.thread \subseteq Threads

-----------------------------------------------------------------------------
(* Patches *)

\* Mutant: null deletes the key.
MergeTombstone(old, new) ==
  [k \in (DOMAIN old \ DOMAIN new) \cup Said(new) |-> IF k \in DOMAIN new THEN new[k] ELSE old[k]]

\* merge_object, on objects of scalars: null and missing keys say nothing.
MergeObject(old, new) ==
  [k \in DOMAIN old \cup Said(new) |-> IF k \in Said(new) THEN new[k] ELSE old[k]]

\* The same for a nested object: a first one is taken as it is, its nulls included.
MergeNested(old, new) ==
  IF old # {} /\ new # {} THEN {MergeObject(Or(old, Empty), Or(new, Empty))}
  ELSE IF new # {} THEN new ELSE old

\* merge_rate_limit_window: each number of the patch that is there.
MergeWindow(old, patch) ==
  LET window == Or(old, [used |-> 0, duration |-> 0, resets |-> {}])
      p == Or(patch, Empty)
      resets == Lookup(p, "resets")
  IN  IF patch = {} THEN old
      ELSE {[used |-> Or(Lookup(p, "used"), window.used),
             duration |-> Or(Lookup(p, "duration"), window.duration),
             resets |-> IF resets # {} THEN resets ELSE window.resets]}

\* merge_account.
MergeAccount(old, patch) ==
  [fields |-> MergeObject(old.fields, patch.fields),
   requiresAuth |-> IF patch.requiresAuth # {} THEN patch.requiresAuth ELSE old.requiresAuth]

\* merge_rate_limits: the patch has windows by slot, and credits.
MergeRateLimits(old, patch) ==
  [old EXCEPT !.primary = MergeWindow(@, patch.primary),
              !.secondary = MergeWindow(@, patch.secondary),
              !.credits = MergeNested(@, patch.credits)]

\* merge_token_counts, merge_domain_token_counts, merge_number.
MergeCounts(old, new) == MergeObject(old, new)

\* merge_token_usage: the outer counts, then `usage`, then the totals; an inner
\* thread id replaces the outer one.
MergeTokenUsage(old, patch) ==
  LET current == Or(old, [thread |-> {}, counts |-> Empty, last |-> {}])
      thread == IF patch.inner # {} THEN patch.inner
                ELSE IF patch.outer # {} THEN patch.outer ELSE current.thread
      last == MergeCounts(Or(current.last, Empty), Or(patch.last, Empty))
  IN  {[thread |-> thread,
        counts |-> MergeCounts(MergeCounts(MergeCounts(current.counts, patch.own), patch.usage), patch.total),
        last |-> IF patch.last = {} THEN current.last ELSE {last}]}

-----------------------------------------------------------------------------
(* Full reads *)

\* preferred_rate_limit_object: the limits named codex, else those that say they
\* are, else the plain ones.
PreferredLimits(response) ==
  IF response.codex # {} THEN response.codex
  ELSE IF response.named # {} THEN response.named ELSE response.plain

\* replace_rate_limits: missing and null windows are gone.
ReplaceRateLimits(old, response) ==
  LET object == PreferredLimits(response)
      o == Or(object, [primary |-> {}, secondary |-> {}, credits |-> {}])
  IN  IF object = {} THEN old
      ELSE [primary |-> MergeWindow({}, o.primary), secondary |-> MergeWindow({}, o.secondary),
            credits |-> o.credits, resetCredits |-> response.resetCredits]

\* RateLimitsSnapshot::snapshot: the first slot of that length.
WindowOf(slots, duration) ==
  LET Long(slot) == {w \in slot : w.duration = duration}
  IN  IF Long(slots.primary) # {} THEN Long(slots.primary) ELSE Long(slots.secondary)

FiveHour == WindowOf(limits, 300)
Weekly == WindowOf(limits, 10080)

\* The members of a finite set of numbers, the smallest first.
InOrder(S) ==
  [k \in 1..Cardinality(S) |-> CHOOSE d \in S : Cardinality({e \in S : e <= d}) = k]

(***************************************************************************)
(* parse_daily_usage_buckets.  A date is the number yyyymmdd, so the order *)
(* of dates is that of their strings; a bucket without a number of tokens  *)
(* has none.                                                               *)
(***************************************************************************)
DaysIn(year, month) ==
  LET leap == year % 400 = 0 \/ (year % 4 = 0 /\ year % 100 # 0)
  IN  IF month = 2 THEN IF leap THEN 29 ELSE 28
      ELSE IF month \in {4, 6, 9, 11} THEN 30 ELSE 31

IsValidIsoDate(date) ==
  LET year == date \div 10000
      month == (date \div 100) % 100
      day == date % 100
  IN  year # 0 /\ month \in 1..12 /\ day \in 1..DaysIn(year, month)

InsertBucket(byDate, bucket) ==
  IF IsValidIsoDate(bucket.date) /\ bucket.tokens # {}
  THEN Put(byDate, bucket.date, Or(bucket.tokens, 0)) ELSE byDate

\* What is parsed of all the buckets, one after the other.
Parsed(buckets) ==
  LET parsed[n \in 0..Len(buckets)] ==
        IF n = 0 THEN Empty ELSE InsertBucket(parsed[n - 1], buckets[n])
  IN  parsed[Len(buckets)]

DailyUsage(buckets) ==
  LET byDate == Parsed(buckets)
      dates == InOrder(DOMAIN byDate)
      skip == IF Len(dates) > MaxBuckets THEN Len(dates) - MaxBuckets ELSE 0
  IN  [i \in 1..(Len(dates) - skip) |->
         [date |-> dates[skip + i], tokens |-> byDate[dates[skip + i]]]]

\* parse_thread_usage, parse_thread_usage_group: credits are required of both.
ThreadUsage(object) ==
  {[thread |-> o.thread, credits |-> Or(o.credits, 0),
    groups |-> SelectSeq(o.groups, LAMBDA g : g.credits # {})] :
     o \in {p \in object : p.thread # "" /\ p.credits # {}}}

\* parse_account_usage: nothing without a summary, a bucket or a thread.
AccountUsage ==
  {u \in {[summary |-> r.summary, daily |-> DailyUsage(r.buckets),
           thread |-> ThreadUsage(r.thread)] : r \in usage} :
     u.summary \/ u.daily # <<>> \/ u.thread # {}}

\* parse_credits, parse_reset_credits: what they require, their expiry times in order.
Credits == {c \in limits.credits : Lookup(c, "has") # {}}
ResetCredits ==
  {[available |-> Or(Lookup(c, "available"), 0), expiries |-> InOrder(Or(Lookup(c, "expiries"), {}))] :
     c \in {r \in limits.resetCredits : Lookup(r, "available") # {}}}

\* AppServerState::official_snapshot_with_status, without the endpoints' health.
OfficialSnapshot ==
  [account |-> {a \in {account} : a.fields # Empty \/ a.requiresAuth # {}},
   credits |-> Credits, resetCredits |-> ResetCredits, usage |-> AccountUsage]

-----------------------------------------------------------------------------
(* Activity *)

\* status_to_state: the kinds of status words, {} for one it does not know.
StatusState(status) ==
  LET meaning == [fail |-> "Failed", wait |-> "WaitingForUser", complete |-> "Completed",
                  idle |-> "Idle", running |-> "Executing", progress |-> "Thinking"]
  IN  {meaning[s] : s \in {status} \cap DOMAIN meaning}

\* item_started_state: the kind of item decides before the status.
ItemStarted(event) ==
  IF event.item = "approval" THEN "WaitingForUser"
  ELSE IF event.item = "work" THEN "Executing" ELSE Or(StatusState(event.status), "Thinking")

Methods == {"request", "status", "turn/started", "turn/completed", "item/started",
            "item/completed", "failed"}

(* parse_activity_event_value.  A method is "request" (an approval or user   *)
(* input that is asked for), or one of the life cycle; others say nothing.   *)
Classified(event) ==
  LET orFailed(state) == {IF event.status = "fail" THEN "Failed" ELSE state}
  IN  CASE event.method = "request" -> orFailed("WaitingForUser")
        [] event.method = "status" ->
             {IF event.waitingFlag THEN "WaitingForUser" ELSE Or(StatusState(event.status), "Unknown")}
        [] event.method = "turn/started" -> {"Thinking"}
        [] event.method \in {"turn/completed", "item/completed"} -> orFailed("Completed")
        [] event.method = "item/started" -> {ItemStarted(event)}
        [] event.method = "failed" -> {"Failed"}
        [] event.method \notin Methods -> {}

\* ActivityState::priority, least urgent first; aggregate.
ByPriority == <<"Unknown", "Idle", "Completed", "Thinking", "Reviewing", "Executing",
                "WaitingForUser", "Failed">>
Priority(state) == CHOOSE i \in DOMAIN ByPriority : ByPriority[i] = state
Aggregate(states) == CHOOSE s \in states : \A t \in states : Priority(t) <= Priority(s)

IsTerminal(state) == state \in {"Idle", "Completed", "Failed"}

\* Mutant: an old result stays a candidate.
LampForEver ==
  LET candidates == {threads[t].state : t \in DOMAIN threads}
  IN  IF candidates # {} THEN {Aggregate(candidates)} ELSE {e.state : e \in lastActivity}

\* AppServerState::aggregated_activity.
Lamp ==
  LET counts(t) == ~IsTerminal(threads[t].state) \/ now - threads[t].at <= NoticeTicks
      candidates == {threads[t].state : t \in {u \in DOMAIN threads : counts(u)}}
  IN  IF candidates # {} THEN {Aggregate(candidates)} ELSE {e.state : e \in lastActivity}

-----------------------------------------------------------------------------
(* The actions *)

BlankAccount == [fields |-> Empty, requiresAuth |-> {}]
BlankLimits == [primary |-> {}, secondary |-> {}, credits |-> {}, resetCredits |-> {}]
NothingSaid == [account |-> {}, windows |-> {}, usage |-> {}, tokens |-> {}, senders |-> {}]

ServerInit ==
  /\ account = BlankAccount /\ limits = BlankLimits
  /\ tokens = {} /\ usage = {}
  /\ threads = Empty /\ lastActivity = {}
  /\ now = 0 /\ messages = 0
  /\ reported = NothingSaid

NewMessage == messages < MaxMessages /\ messages' = messages + 1

\* Keys, lengths and counts a read or a patch mentions.
Pairs(object) == {<<k, object[k]>> : k \in Said(object)}
AccountSays(patch) == Pairs(patch.fields)
WindowSays(patch) == UNION {Lookup(w, "duration") : w \in patch.primary \cup patch.secondary}
LastPairs(object) == UNION {Pairs(l) : l \in object.last}
TokenSays(patch) == Pairs(patch.own) \cup Pairs(patch.usage) \cup Pairs(patch.total) \cup LastPairs(patch)
TokenPairs(u) == Pairs(u.counts) \cup LastPairs(u)

(* apply_response "account", replace_account: an answer that names neither   *)
(* an account nor a login state is a failed read.                            *)
ReadAccount(response) ==
  /\ NewMessage
  /\ account' = IF response.valid
                THEN [fields |-> response.fields, requiresAuth |-> response.requiresAuth] ELSE account
  /\ reported' = IF response.valid
                 THEN [reported EXCEPT !.account = AccountSays(response)] ELSE reported
  /\ UNCHANGED <<limits, tokens, usage, threads, lastActivity, now>>

\* reset_account_generation, but for the account itself.
ResetAccountGeneration ==
  limits' = BlankLimits /\ usage' = {} /\ tokens' = {} /\ lastActivity' = {} /\ threads' = Empty

(* handle of "account/updated" (session.rs): the login may be another one, so *)
(* all that is held goes before the patch is merged.                          *)
NewGeneration(patch) == reported' = [NothingSaid EXCEPT !.account = AccountSays(patch)]

\* Mutant: the patch is merged into what the account before it left.
AccountUpdatedMixed(patch) ==
  /\ NewMessage /\ NewGeneration(patch)
  /\ account' = MergeAccount(account, patch)
  /\ UNCHANGED <<limits, tokens, usage, threads, lastActivity, now>>
AccountUpdated(patch) ==
  /\ NewMessage /\ NewGeneration(patch) /\ ResetAccountGeneration
  /\ account' = MergeAccount(BlankAccount, patch)
  /\ UNCHANGED now

(* apply_response "rate_limits". *)
ReadRateLimits(response) ==
  /\ NewMessage
  /\ limits' = ReplaceRateLimits(limits, response)
  /\ reported' = IF PreferredLimits(response) = {} THEN reported
                 ELSE [reported EXCEPT !.windows = UNION {WindowSays(o) : o \in PreferredLimits(response)}]
  /\ UNCHANGED <<account, tokens, usage, threads, lastActivity, now>>

(* apply_notification_at "account/rateLimits/updated". *)
RateLimitsUpdated(patch) ==
  /\ NewMessage
  /\ limits' = MergeRateLimits(limits, patch)
  /\ reported' = [reported EXCEPT !.windows = @ \cup WindowSays(patch)]
  /\ UNCHANGED <<account, tokens, usage, threads, lastActivity, now>>

(* apply_response "usage": an answer without a summary is a failed read. *)
ReadUsage(response) ==
  /\ NewMessage
  /\ usage' = IF response.summary THEN {response} ELSE usage
  /\ reported' = IF response.summary THEN [reported EXCEPT !.usage = {response}] ELSE reported
  /\ UNCHANGED <<account, limits, tokens, threads, lastActivity, now>>

(* apply_notification_at "thread/tokenUsage/updated". *)
TokenUsageUpdated(patch) ==
  /\ NewMessage
  /\ tokens' = MergeTokenUsage(tokens, patch)
  /\ reported' = [reported EXCEPT !.tokens = @ \cup TokenSays(patch)]
  /\ UNCHANGED <<account, limits, usage, threads, lastActivity, now>>

(* apply_notification_at, the activity methods. *)
ActivityNotified(event) ==
  /\ NewMessage
  /\ LET said == Classified(event)
         Record == [state |-> Or(said, "Unknown"), at |-> now]
     IN  /\ lastActivity' = IF said = {} THEN lastActivity
                            ELSE {[state |-> s, thread |-> event.thread] : s \in said}
         /\ threads' = IF said = {} \/ event.thread = {} THEN threads
                       ELSE Put(threads, Or(event.thread, ""), Record)
  /\ reported' = [reported EXCEPT !.senders = @ \cup {event.thread}]
  /\ UNCHANGED <<account, limits, tokens, usage, now>>

(* Time passes. *)
TimePasses ==
  /\ now < MaxNow /\ now' = now + 1
  /\ UNCHANGED <<account, limits, tokens, usage, threads, lastActivity, messages, reported>>

ServerNext ==
  \/ \E r \in AccountReads : ReadAccount(r)
  \/ \E p \in AccountPatches : AccountUpdated(p)
  \/ \E r \in LimitReads : ReadRateLimits(r)
  \/ \E p \in LimitPatches : RateLimitsUpdated(p)
  \/ \E r \in UsageReads : ReadUsage(r)
  \/ \E p \in TokenPatches : TokenUsageUpdated(p)
  \/ \E e \in ActivityEvents : ActivityNotified(e)
  \/ TimePasses

ServerSpec == ServerInit /\ [][ServerNext]_serverVars

-----------------------------------------------------------------------------
(* Properties *)

(* The state keeps the shape the screen reads it in.                         *)
ServerTypes ==
  /\ account.requiresAuth \subseteq BOOLEAN
  /\ \A w \in limits.primary \cup limits.secondary :
       DOMAIN w = {"used", "duration", "resets"} /\ w.duration \in Nat /\ Cardinality(w.resets) <= 1
  /\ Cardinality(limits.primary) <= 1 /\ Cardinality(limits.secondary) <= 1
  /\ \A u \in tokens : u.thread \subseteq Threads
  /\ DOMAIN threads \subseteq Threads
  /\ \A t \in DOMAIN threads : threads[t].at <= now
  /\ Cardinality(OfficialSnapshot.usage) <= 1 /\ Cardinality(OfficialSnapshot.resetCredits) <= 1

(* Nothing of an earlier account is left after a full read or a new login:   *)
(* each field shown was said by the last account/read or account/updated or  *)
(* by a patch after it (state.rs:238-244, session.rs:153-162).               *)
AccountIsReported ==
  \A k \in Said(account.fields) : <<k, account.fields[k]>> \in reported.account

(* A window that is gone does not come back: what is shown as the five hour  *)
(* or the weekly window was named by the last full read or by a patch after  *)
(* it, and not before a new login (state.rs:263-279, session.rs:155).        *)
WindowsAreReported ==
  {w.duration : w \in FiveHour \cup Weekly} \subseteq reported.windows

(* No usage, count, thread or activity outlives the login it was said for:   *)
(* account/updated takes them all (reset_account_generation, session.rs:153, *)
(* its test session.rs:1093-1127).                                           *)
GenerationIsolated ==
  /\ usage \subseteq reported.usage
  /\ \A u \in tokens : TokenPairs(u) \subseteq reported.tokens
  /\ {{t} : t \in DOMAIN threads} \cup {e.thread : e \in lastActivity} \subseteq reported.senders

(* What is held of an account is held until a full read answers for it or a  *)
(* new login is told: no patch and no activity takes a field, a window, a    *)
(* count, a usage or a thread away, as missing and null say nothing          *)
(* (state.rs:1-5, merge_object; session.rs:454-460).                         *)
AccountAnswered == \E r \in AccountReads : r.valid /\ ReadAccount(r)
LimitsAnswered  == \E r \in LimitReads : PreferredLimits(r) # {} /\ ReadRateLimits(r)
LoginTold       == \E p \in AccountPatches : AccountUpdated(p)

AccountHeld == Said(account.fields) \subseteq Said(account'.fields)
LimitsHeld ==
  /\ limits.primary = {} \/ limits'.primary # {}
  /\ limits.secondary = {} \/ limits'.secondary # {}
  /\ \A c \in limits.credits : limits'.credits # {} /\ \A d \in limits'.credits : Said(c) \subseteq Said(d)
RestHeld ==
  /\ \A u \in tokens : tokens' # {} /\ \A v \in tokens' : Said(u.counts) \subseteq Said(v.counts)
  /\ usage = {} \/ usage' # {}
  /\ DOMAIN threads \subseteq DOMAIN threads'

HeldUntilAnswered ==
  [][\/ LoginTold
     \/ /\ AccountHeld \/ AccountAnswered
        /\ LimitsHeld \/ LimitsAnswered
        /\ RestHeld]_serverVars

(* A notification delivered twice is one: applying a patch again changes     *)
(* nothing, in any state and whatever sections it has.                       *)
DuplicatesHarmless ==
  /\ \A p \in AccountPatches : LET once == MergeAccount(account, p) IN MergeAccount(once, p) = once
  /\ \A p \in LimitPatches : LET once == MergeRateLimits(limits, p) IN MergeRateLimits(once, p) = once
  /\ \A p \in TokenPatches : LET once == MergeTokenUsage(tokens, p) IN MergeTokenUsage(once, p) = once

Live(t) == ~IsTerminal(threads[t].state)

(* A thread that waits for the user is not hidden by the others: only a      *)
(* failure, and only for the notice window, is shown instead                 *)
(* (activity.rs, priority; state.rs:190-194).                                *)
WaitingShown ==
  (\E t \in DOMAIN threads : threads[t].state = "WaitingForUser") =>
     \/ Lamp = {"WaitingForUser"}
     \/ Lamp = {"Failed"} /\ \E t \in DOMAIN threads :
                              threads[t].state = "Failed" /\ now - threads[t].at <= NoticeTicks

(* An old failure does not lock the lamp while another thread works, and     *)
(* with no thread at work the last result stays (state.rs:27-30).            *)
OldFailureYields ==
  /\ (/\ \E t \in DOMAIN threads : Live(t)
      /\ \A t \in DOMAIN threads : Live(t) \/ now - threads[t].at > NoticeTicks)
       => Lamp = {Aggregate({threads[t].state : t \in {u \in DOMAIN threads : Live(u)}})}
  /\ (\A t \in DOMAIN threads : ~Live(t) /\ now - threads[t].at > NoticeTicks)
       => Lamp = {e.state : e \in lastActivity}

(* The history of days is in order, has each date once with the last valid   *)
(* figure sent for it, and keeps the newest ones (state.rs:609-614).         *)
BucketsAreLatest ==
  \A r \in usage :
    LET days == DailyUsage(r.buckets)
        valid == {i \in DOMAIN r.buckets : IsValidIsoDate(r.buckets[i].date) /\ r.buckets[i].tokens # {}}
        dates == {r.buckets[i].date : i \in valid}
    IN  /\ Len(days) = Min({MaxBuckets, Cardinality(dates)})
        /\ \A i, j \in DOMAIN days : i < j => days[i].date < days[j].date
        /\ \A d \in dates : (\A i \in DOMAIN days : days[i].date # d)
                            => \A i \in DOMAIN days : d < days[i].date
        /\ \A k \in DOMAIN days : \E i \in valid :
             /\ r.buckets[i].date = days[k].date /\ r.buckets[i].tokens = {days[k].tokens}
             /\ \A j \in valid : r.buckets[j].date = days[k].date => j <= i

(* All that is held was said by the last full read or by a patch after it,   *)
(* of the login told last, however often a patch came (state.rs:238-279,     *)
(* 615-633, session.rs:153-162).                                             *)
HeldIsReported ==
  /\ ServerTypes /\ AccountIsReported /\ WindowsAreReported /\ GenerationIsolated
  /\ BucketsAreLatest /\ DuplicatesHarmless

(* The lamp shows the thread the user has to look at: one that waits comes   *)
(* before the others, a failure only for its notice (state.rs:184-206).      *)
LampIsUseful == WaitingShown /\ OldFailureYields
=============================================================================
