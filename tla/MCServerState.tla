---------------------------- MODULE MCServerState ----------------------------
(* Inputs of ServerState for TLC: two accounts, patches with a missing and a *)
(* null part, both orders of the windows, two threads.                       *)
EXTENDS ServerState, TLC

NoObject == [primary |-> {}, secondary |-> {}, credits |-> {}]
Window(used, duration) == {[used |-> used, duration |-> duration, resets |-> duration]}
Only(k, v) == k :> v

Answer(fields, auth) == [valid |-> TRUE, fields |-> fields, requiresAuth |-> auth]
MCAccountReads ==
  {Answer("email" :> "a" @@ "plan" :> "plus", {TRUE}), Answer("email" :> "b" @@ "plan" :> Null, {}),
   [valid |-> FALSE, fields |-> Empty, requiresAuth |-> {}]}
MCAccountPatches ==
  {[fields |-> f, requiresAuth |-> {}] : f \in {"plan" :> "pro", "plan" :> Null @@ "email" :> "b"}}
    \cup {[fields |-> Empty, requiresAuth |-> {FALSE}]}

Both == [NoObject EXCEPT !.primary = Window(10, 300), !.secondary = Window(20, 10080),
                         !.credits = {"has" :> TRUE @@ "balance" :> 5}]
WeeklyOnly == [NoObject EXCEPT !.primary = Window(30, 10080)]
Limits(codex, named, plain, reset) ==
  [codex |-> codex, named |-> named, plain |-> plain, resetCredits |-> reset]
MCLimitReads ==
  {Limits({Both}, {}, {WeeklyOnly}, {"available" :> 2 @@ "expiries" :> {7, 5}}),
   Limits({}, {WeeklyOnly}, {Both}, {}), Limits({}, {}, {NoObject}, {}), Limits({}, {}, {}, {})}
MCLimitPatches ==
  {NoObject,
   [NoObject EXCEPT !.primary = {"used" :> 40 @@ "duration" :> Null}],
   [NoObject EXCEPT !.secondary = Window(50, 300)],
   [NoObject EXCEPT !.credits = {"balance" :> Null @@ "has" :> TRUE}]}

Usage(summary, buckets, thread) == [summary |-> summary, buckets |-> buckets, thread |-> thread]
Bucket(date, count) == [date |-> date, tokens |-> count]
Group(credits) == [model |-> "m", credits |-> credits]
MCUsageReads ==
  {Usage(TRUE, <<Bucket(20240301, {3}), Bucket(20240229, {1}), Bucket(20230229, {9}),
                 Bucket(20240229, {2}), Bucket(20240301, {}), Bucket(20231231, {4})>>,
         {[thread |-> "t", credits |-> {1}, groups |-> <<Group({1}), Group({})>>]}),
   Usage(TRUE, <<Bucket(20240101, {1}), Bucket(20240101, {8})>>, {}),
   Usage(FALSE, <<Bucket(20240102, {1})>>, {})}

Patch(outer, inner, own, used, total, last) ==
  [outer |-> outer, inner |-> inner, own |-> own, usage |-> used, total |-> total, last |-> last]
MCTokenPatches ==
  {Patch({"t"}, {}, Only("input", 1), Empty, Only("input", 2), {Only("input", 1)}),
   Patch({"t"}, {"u"}, Empty, Only("output", 3), Only("input", Null), {}),
   Patch({}, {}, Only("total", 4), Empty, Empty, {Only("input", Null)})}

Event(method, status, flag, item, thread) ==
  [method |-> method, status |-> status, waitingFlag |-> flag, item |-> item, thread |-> thread]
Kinds ==
  {<<"request", "", FALSE, "">>, <<"status", "running", FALSE, "">>, <<"status", "idle", TRUE, "">>,
   <<"status", "idle", FALSE, "">>, <<"status", "odd", FALSE, "">>, <<"turn/started", "", FALSE, "">>,
   <<"turn/completed", "fail", FALSE, "">>, <<"turn/completed", "complete", FALSE, "">>,
   <<"item/started", "", FALSE, "work">>, <<"item/started", "wait", FALSE, "other">>,
   <<"item/started", "progress", FALSE, "approval">>, <<"failed", "", FALSE, "">>,
   <<"other", "", FALSE, "">>}
MCActivityEvents ==
  {Event(k[1], k[2], k[3], k[4], t) : k \in Kinds, t \in {{}, {"t"}, {"u"}}}
=============================================================================
