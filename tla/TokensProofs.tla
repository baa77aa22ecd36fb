----------------------------- MODULE TokensProofs -----------------------------
(***************************************************************************)
(* The safety properties of the token figures (module Tokens) for every    *)
(* number of turns, logins and milliseconds and every length of the        *)
(* channel.                                                                *)
(*                                                                         *)
(* The argument.  A report of the App Server lies in three kinds of place: *)
(* in the session, which sends it again, in the channel, and in the popup  *)
(* tracker.  Wherever two of them lie, the one observed later carries the  *)
(* later turn and, for one account, the larger total (Ordered), because    *)
(* whoever finishes a turn moves the clock (Dated).  What is on the card   *)
(* came from one of these reports or from a local file that was read at    *)
(* the observation time on the card (CardIsNewest).  The account of a      *)
(* report in the channel is the one of the last reset before it            *)
(* (ChannelAccounts).                                                      *)
(***************************************************************************)
EXTENDS Tokens, TLAPS

Reported == [current : Nat, last : (Nat \ {0}) \cup {None}, observed : Nat,
             source : {"appServer"}, account : Nat]
Usages   == Reported \cup {NoUsage}
Messages == [usage : Usages, healthy : BOOLEAN, reset : Nat]
Cards    == [current : Nat \cup {None}, last : Nat \cup {None}, lastSource : Sources,
             today : Nat \cup {None}, todaySource : Sources, source : Sources, observed : Nat]

Types ==
  /\ usage \in Usages /\ tracker \in Usages /\ updates \in Seq(Messages)
  /\ tokens \in Cards
  /\ healthy \in BOOLEAN /\ bootstrapped \in BOOLEAN /\ authoritative \in BOOLEAN
  /\ login \in Nat \ {0} /\ popped \in Seq(Nat)

(* Every report that can still be applied or compared with. *)
Held == {updates[i].usage : i \in 1..Len(updates)} \cup {usage, tracker}

IsDated(x) ==
  x # NoUsage =>
    /\ x.observed <= clock /\ x.last <= turns /\ x.account <= account
    /\ x.observed = clock => x.last \in {None, turns}
    /\ x.account = account => (x.current <= spent /\ (x.observed = clock => x.current = spent))

Dated == \A x \in Held : IsDated(x)

InOrder(x, y) ==
  (x # NoUsage /\ y # NoUsage /\ x.observed <= y.observed) =>
    /\ y.last # None => x.last <= y.last
    /\ x.account = y.account => x.current <= y.current

Ordered == \A x, y \in Held : InOrder(x, y)

MayReplace(x) ==
  (x # NoUsage /\ x.last # None /\ tokens.observed <= x.observed) => tokens.last <= x.last

CardIsNewest ==
  /\ \A x \in Held : MayReplace(x)
  /\ tokens.lastSource = "sessionLog" => tokens.last # None

(* The account of position i of the channel: that of the last reset up to   *)
(* there, or of the last one that was applied.                              *)
ChannelAccounts ==
  /\ login <= account
  /\ usage # NoUsage => usage.account = account
  /\ account = login \/ \E j \in 1..Len(updates) : updates[j].reset = account
  /\ \A i \in 1..Len(updates) :
       /\ updates[i].reset # 0 =>
            /\ updates[i].usage = NoUsage
            /\ updates[i].reset \in login + 1..account
            /\ \A j \in 1..Len(updates) :
                 (i < j /\ updates[j].reset # 0) => updates[i].reset < updates[j].reset
       /\ updates[i].usage # NoUsage =>
            /\ updates[i].usage.account \in login..account
            /\ \A j \in 1..i : updates[j].reset <= updates[i].usage.account
            /\ \/ updates[i].usage.account = login
               \/ \E j \in 1..i : updates[j].reset = updates[i].usage.account

PoppedBelow ==
  /\ popped # <<>> => tracker # NoUsage
  /\ \A i \in 1..Len(popped) : popped[i] <= tracker.current

TokensInv ==
  /\ TypeOK /\ Types /\ Dated /\ Ordered /\ CardIsNewest
  /\ ChannelAccounts /\ BaselinePerAccount /\ PoppedBelow /\ TotalsPopUpOnce

-----------------------------------------------------------------------------
(* 1. Types. *)

(* A report that is one has its fields. *)
LEMMA ReportFields ==
  ASSUME NEW x \in Usages, x # NoUsage
  PROVE  /\ x \in Reported /\ x.source = "appServer"
         /\ x.current \in Nat /\ x.observed \in Nat /\ x.account \in Nat
         /\ x.last \in (Nat \ {0}) \cup {None} /\ x.last \in Int
BY DEF Usages, Reported, None

LEMMA NoUsageFields ==
  NoUsage \in Usages /\ NoUsage.source = "none" /\ NoUsage.last = None /\ NoUsage.current = None
BY DEF Usages, NoUsage

(* Adding a message to the channel. *)
LEMMA AppendFacts ==
  ASSUME NEW s \in Seq(Messages), NEW e \in Messages
  PROVE  /\ Append(s, e) \in Seq(Messages) /\ Len(Append(s, e)) = Len(s) + 1
         /\ Len(s) \in Nat
         /\ \A i \in 1..Len(s) : Append(s, e)[i] = s[i]
         /\ Append(s, e)[Len(s) + 1] = e
OBVIOUS

(* Taking the first message out of the channel. *)
LEMMA TailFacts ==
  ASSUME NEW s \in Seq(Messages), s # <<>>
  PROVE  /\ Tail(s) \in Seq(Messages) /\ Len(Tail(s)) = Len(s) - 1
         /\ Len(s) \in Nat \ {0}
         /\ \A i \in 1..Len(s) - 1 : Tail(s)[i] = s[i + 1]
         /\ Head(s) = s[1] /\ Head(s) \in Messages
OBVIOUS

LEMMA CardFields ==
  ASSUME NEW t \in Cards
  PROVE  /\ t.current \in Nat \cup {None} /\ t.last \in Nat \cup {None} /\ t.last \in Int
         /\ t.lastSource \in Sources /\ t.today \in Nat \cup {None}
         /\ t.todaySource \in Sources /\ t.source \in Sources /\ t.observed \in Nat
BY DEF Cards, None

(* The three changes of a card, field by field. *)
LEMMA AppliedCard ==
  ASSUME NEW t \in Cards, NEW u, u.current \in Nat \cup {None}, u.last \in Nat \cup {None},
         u.observed \in Nat, u.source \in Sources, u.observed >= t.observed,
         NEW c, c = ApplyTokenUsage(t, u)
  PROVE  /\ c \in Cards
         /\ c.current = u.current /\ c.source = u.source /\ c.observed = u.observed
         /\ c.last = IF u.last # None THEN u.last ELSE t.last
         /\ c.lastSource = IF u.last # None THEN u.source ELSE t.lastSource
<1>1. t.observed \in Nat /\ ~(u.observed < t.observed)
  BY CardFields
<1>2. c = [t EXCEPT !.current = u.current, !.source = u.source, !.observed = u.observed,
                 !.last = IF u.last # None THEN u.last ELSE @,
                 !.lastSource = IF u.last # None THEN u.source ELSE @,
                 !.today = IF t.todaySource = "sqlite" THEN @ ELSE None,
                 !.todaySource = IF t.todaySource = "sqlite" THEN @ ELSE u.source]
  BY <1>1 DEF ApplyTokenUsage
<1> QED BY <1>2 DEF Cards

LEMMA OldReportIgnored ==
  ASSUME NEW t \in Cards, NEW u, u.observed \in Nat, ~(u.observed >= t.observed)
  PROVE  ApplyTokenUsage(t, u) = t
<1>1. u.observed < t.observed
  BY CardFields
<1> QED BY <1>1 DEF ApplyTokenUsage

LEMMA DayCard ==
  ASSUME NEW t \in Cards, NEW n, n \in Nat \cup {None}, NEW now, now \in Nat,
         NEW c, c = ApplyLocalToday(t, n, now)
  PROVE  /\ c \in Cards
         /\ c.current = t.current /\ c.source = t.source
         /\ c.last = t.last /\ c.lastSource = t.lastSource
         /\ c.observed \in {t.observed, now}
<1> t.observed \in Nat
  BY CardFields
<1>1. CASE c = t
  BY <1>1
<1>2. CASE c # t
  <2>1. c = [t EXCEPT !.today = n, !.todaySource = "sqlite",
                     !.observed = IF now > @ THEN now ELSE @]
    BY <1>2 DEF ApplyLocalToday
  <2>2. c.observed = IF now > t.observed THEN now ELSE t.observed
    BY <2>1 DEF Cards
  <2>3. c.observed \in Nat /\ c.observed \in {t.observed, now}
    BY <2>2
  <2>4. /\ c.current = t.current /\ c.source = t.source
        /\ c.last = t.last /\ c.lastSource = t.lastSource
    BY <2>1 DEF Cards
  <2>5. c \in Cards
    <3>1. c = [t EXCEPT !.today = n, !.todaySource = "sqlite", !.observed = c.observed]
      BY <2>1, <2>2 DEF Cards
    <3> QED BY <3>1, <2>3 DEF Cards, Sources
  <2> QED BY <2>3, <2>4, <2>5
<1> QED BY <1>1, <1>2

LEMMA UnavailableCard ==
  ASSUME NEW t \in Cards, NEW c, c = MarkUnavailable(t)
  PROVE  /\ c \in Cards
         /\ c.current = None /\ c.source = "none" /\ c.observed = t.observed
         /\ c.last = IF t.lastSource = "sessionLog" THEN t.last ELSE None
         /\ c.lastSource = IF t.lastSource = "sessionLog" THEN "sessionLog" ELSE "none"
BY DEF MarkUnavailable, NoTokens, Cards, Sources

-----------------------------------------------------------------------------
(* 2. What each step does to the card. *)

CardTyped ==
  /\ tokens.last \in 1..turns \cup {None} /\ tokens.observed \in 0..clock
  /\ tokens.current # None => tokens.source # "sessionLog"

(* The poll of SQLite has no turn: the last turn and its source stay. *)
LEMMA PollSqliteCard ==
  ASSUME TypeOK, Types, PollSqlite
  PROVE  /\ tokens' \in Cards /\ CardTyped'
         /\ tokens'.last = tokens.last /\ tokens'.lastSource = tokens.lastSource
         /\ tokens'.observed >= tokens.observed
<1>1. /\ turns \in Nat /\ clock \in Nat /\ counted \in Nat /\ counter \in -1..turns /\ tokens \in Cards
      /\ tokens.observed \in 0..clock /\ tokens.last \in 1..turns \cup {None}
      /\ tokens.current # None => tokens.source # "sessionLog"
  BY TokensAssumption DEF TypeOK, Types
<1>2. NewTokens \in Nat
  BY <1>1 DEF NewTokens, None
<1>3. TodayCounts(counted + NewTokens) \in Nat \cup {None}
  BY <1>1, <1>2 DEF TodayCounts
<1>3a. PICK n : n = TodayCounts(counted + NewTokens) /\ n \in Nat \cup {None}
  BY <1>3
<1>4. PICK shown : shown = ApplyLocalToday(tokens, n, clock)
  OBVIOUS
<1>5. /\ shown \in Cards /\ shown.current = tokens.current /\ shown.source = tokens.source
      /\ shown.last = tokens.last /\ shown.lastSource = tokens.lastSource
      /\ shown.observed >= tokens.observed /\ shown.observed \in {tokens.observed, clock}
  <2>1. clock \in Nat /\ tokens \in Cards
    BY <1>1
  <2>2. n \in Nat \cup {None}
    BY <1>3a
  <2>3. /\ shown \in Cards /\ shown.current = tokens.current /\ shown.source = tokens.source
        /\ shown.last = tokens.last /\ shown.lastSource = tokens.lastSource
        /\ shown.observed \in {tokens.observed, clock}
    BY <2>1, <2>2, <1>4, DayCard
  <2> QED BY <2>3, <1>1
<1>6. PICK today : today = IF ~authoritative /\ (NewTokens > 0 \/ tokens.todaySource = "none")
                           THEN shown ELSE tokens
  OBVIOUS
<1>7. /\ today \in Cards /\ today.current = tokens.current /\ today.source = tokens.source
      /\ today.last = tokens.last /\ today.lastSource = tokens.lastSource
      /\ today.observed >= tokens.observed /\ today.observed \in {tokens.observed, clock}
  <2>1. today = shown \/ today = tokens
    BY <1>6
  <2>2. tokens.observed >= tokens.observed
    BY <1>1
  <2> QED BY <2>1, <2>2, <1>5, <1>1
<1>8. PICK report : report = [current |-> turns, last |-> None, observed |-> clock, source |-> "sqlite"]
  OBVIOUS
<1>9. PICK c : c = ApplyTokenUsage(today, report)
  OBVIOUS
<1>10. /\ report.current = turns /\ report.last = None /\ report.observed = clock
       /\ report.source = "sqlite" /\ report.source \in Sources /\ report.source # "sessionLog"
  BY <1>8 DEF Sources
<1>11. report.observed >= today.observed /\ report.observed \in Nat
  BY <1>10, <1>7, <1>1
<1>12. /\ c \in Cards /\ c.current = turns /\ c.source = "sqlite" /\ c.observed = clock
       /\ c.last = tokens.last /\ c.lastSource = tokens.lastSource
  <2>1. report.current \in Nat \cup {None} /\ report.last \in Nat \cup {None}
    BY <1>10, <1>1
  <2>2. /\ c \in Cards /\ c.current = report.current /\ c.source = report.source
        /\ c.observed = report.observed
        /\ c.last = IF report.last # None THEN report.last ELSE today.last
        /\ c.lastSource = IF report.last # None THEN report.source ELSE today.lastSource
    BY <2>1, <1>7, <1>9, <1>10, <1>11, AppliedCard
  <2> QED BY <2>2, <1>10, <1>7
<1>13. tokens' = today \/ tokens' = c
  BY <1>3a, <1>4, <1>6, <1>8, <1>9 DEF PollSqlite
<1>14. UNCHANGED <<turns, clock>>
  BY DEF PollSqlite, world
<1>15. CASE tokens' = today
  <2>1. today.observed \in 0..clock
    BY <1>7, <1>1
  <2> QED BY <1>15, <1>7, <1>14, <1>1, <2>1 DEF CardTyped
<1>16. CASE tokens' = c
  <2>1. c.observed \in 0..clock /\ c.observed >= tokens.observed
    BY <1>12, <1>1
  <2> QED BY <1>16, <1>12, <1>14, <1>1, <2>1 DEF CardTyped
<1> QED BY <1>13, <1>15, <1>16

(* A poll of the log that found turns puts the last of them on the card, at *)
(* this moment.                                                             *)
LEMMA PollLogCard ==
  ASSUME TypeOK, Types, PollLog
  PROVE  /\ tokens' \in Cards /\ CardTyped'
         /\ \/ tokens' = tokens
            \/ /\ tokens'.last = turns /\ tokens'.last # None
               /\ tokens'.lastSource = "sessionLog" /\ tokens'.observed = clock
         /\ counted' \in Nat
<1>1. /\ turns \in Nat /\ clock \in Nat /\ counted \in Nat /\ logRead \in 0..turns /\ tokens \in Cards
      /\ tokens.observed \in 0..clock /\ tokens.last \in 1..turns \cup {None}
      /\ tokens.current # None => tokens.source # "sessionLog"
  BY TokensAssumption DEF TypeOK, Types
<1>2. UNCHANGED <<turns, clock>>
  BY DEF PollLog, world
<1>3. counted' \in Nat
  <2>1. turns - logRead \in Nat
    BY <1>1
  <2>2. counted' \in {counted + (turns - logRead), turns - logRead, counted}
    BY DEF PollLog
  <2> QED BY <2>1, <2>2, <1>1
<1>4. CASE turns - logRead = 0
  <2>1. tokens' = tokens
    BY <1>4 DEF PollLog
  <2> QED BY <2>1, <1>1, <1>2, <1>3 DEF CardTyped
<1>5. CASE turns - logRead # 0
  <2>1. turns \in 1..turns /\ turns # None
    BY <1>5, <1>1 DEF None
  <2>2. PICK report : report = [current |-> None, last |-> turns, observed |-> clock, source |-> "sessionLog"]
    OBVIOUS
  <2>3. /\ report.current = None /\ report.last = turns /\ report.observed = clock
        /\ report.source = "sessionLog" /\ report.source \in Sources
    BY <2>2 DEF Sources
  <2>4. PICK c : c = ApplyTokenUsage(tokens, report)
    OBVIOUS
  <2>5. report.observed >= tokens.observed /\ report.observed \in Nat
    BY <2>3, <1>1
  <2>6. /\ c \in Cards /\ c.current = None /\ c.observed = clock
        /\ c.last = turns /\ c.lastSource = "sessionLog"
    <3>1. report.current \in Nat \cup {None} /\ report.last \in Nat \cup {None}
      BY <2>3, <1>1
    <3>2. /\ c \in Cards /\ c.current = report.current /\ c.source = report.source
          /\ c.observed = report.observed
          /\ c.last = IF report.last # None THEN report.last ELSE tokens.last
          /\ c.lastSource = IF report.last # None THEN report.source ELSE tokens.lastSource
      BY <3>1, <2>3, <2>4, <2>5, <1>1, AppliedCard
    <3> QED BY <3>2, <2>3, <2>1
  <2>7. tokens' = ApplyLocalToday(c, counted', clock)
    BY <1>5, <2>2, <2>4 DEF PollLog
  <2>8. /\ tokens' \in Cards /\ tokens'.current = c.current
        /\ tokens'.last = c.last /\ tokens'.lastSource = c.lastSource
        /\ tokens'.observed \in {c.observed, clock}
    <3>1. counted' \in Nat \cup {None}
      BY <1>3
    <3>2. clock \in Nat /\ c \in Cards
      BY <1>1, <2>6
    <3> QED BY <3>1, <3>2, <2>7, DayCard
  <2>9. clock \in 0..clock
    BY <1>1
  <2> QED BY <2>8, <2>6, <2>1, <2>9, <1>2, <1>3 DEF CardTyped
<1> QED BY <1>4, <1>5

(* The message the runtime takes. *)
First == Head(updates)

LEMMA FirstFacts ==
  ASSUME Types, ChannelAccounts, Apply
  PROVE  /\ Len(updates) \in Nat \ {0} /\ First = updates[1] /\ 1 \in 1..Len(updates)
         /\ First \in Messages /\ First.usage \in Usages /\ First.reset \in Nat /\ First.healthy \in BOOLEAN
         /\ First.usage \in Held
         /\ First.reset # 0 => First.usage = NoUsage
<1>1. updates \in Seq(Messages) /\ updates # <<>>
  BY DEF Types, Apply
<1>2. Len(updates) \in Nat \ {0} /\ First = updates[1] /\ First \in Messages
  BY <1>1, TailFacts DEF First
<1>3. 1 \in 1..Len(updates)
  BY <1>2
<1>4. First.usage \in Held
  BY <1>2, <1>3 DEF Held
<1>5. First.reset # 0 => First.usage = NoUsage
  BY <1>2, <1>3 DEF ChannelAccounts
<1> QED BY <1>2, <1>3, <1>4, <1>5 DEF Messages

(* What the application of a message does to the card.  Only a reset empties *)
(* it; a turn on it afterwards was there before or is the message's own, and *)
(* then the message was observed no earlier than the card.                   *)
LEMMA ApplyCard ==
  ASSUME TypeOK, Types, ChannelAccounts, Dated, Apply
  PROVE  /\ tokens' \in Cards /\ CardTyped'
         /\ First.reset # 0 => tokens' = NoTokens
         /\ First.reset = 0 =>
              /\ tokens'.observed >= tokens.observed
              /\ \/ tokens'.last = None
                 \/ tokens'.last = tokens.last
                 \/ /\ First.usage # NoUsage /\ tokens'.last = First.usage.last
                    /\ tokens'.observed = First.usage.observed
              /\ tokens'.lastSource = "sessionLog" =>
                    tokens.lastSource = "sessionLog" /\ tokens'.last = tokens.last
              /\ (tokens.lastSource = "sessionLog" /\ First.usage.last = None) => tokens'.last = tokens.last
<1>0. /\ turns \in Nat /\ clock \in Nat /\ tokens \in Cards
      /\ tokens.observed \in 0..clock /\ tokens.last \in 1..turns \cup {None}
      /\ tokens.current # None => tokens.source # "sessionLog"
  BY TokensAssumption DEF TypeOK, Types
<1>1. UNCHANGED <<turns, clock>>
  BY DEF Apply, world
<1>2. /\ First \in Messages /\ First.usage \in Usages /\ First.reset \in Nat /\ First.healthy \in BOOLEAN
      /\ First.usage \in Held /\ (First.reset # 0 => First.usage = NoUsage)
  BY FirstFacts
<1>3. PICK u : u = First.usage
  OBVIOUS
<1>4. PICK reset : reset = IF First.reset # 0 THEN NoTokens ELSE tokens
  OBVIOUS
<1>5. PICK merged : merged = IF u = NoUsage THEN reset ELSE ApplyTokenUsage(reset, u)
  OBVIOUS
<1>6. PICK dark : dark = MarkUnavailable(merged)
  OBVIOUS
<1>7. tokens' = IF First.healthy THEN merged ELSE dark
  BY <1>3, <1>4, <1>5, <1>6 DEF Apply, First
<1>8. CASE First.reset # 0
  <2>1. merged = NoTokens
    BY <1>8, <1>2, <1>3, <1>4, <1>5
  <2>2. dark = NoTokens
    BY <2>1, <1>6 DEF MarkUnavailable, NoTokens
  <2>3. tokens' = NoTokens
    BY <2>1, <2>2, <1>7
  <2>4. NoTokens \in Cards /\ NoTokens.last = None /\ NoTokens.observed = 0 /\ NoTokens.current = None
    BY DEF NoTokens, Cards, Sources
  <2>5. CardTyped'
    BY <2>3, <2>4, <1>0, <1>1 DEF CardTyped
  <2> QED BY <2>3, <2>4, <2>5, <1>8
<1>9. CASE First.reset = 0
  <2>1. reset = tokens
    BY <1>9, <1>4
  <2>2. /\ merged \in Cards /\ merged.observed \in 0..clock /\ merged.observed >= tokens.observed
        /\ merged.last \in 1..turns \cup {None}
        /\ merged.current # None => merged.source # "sessionLog"
        /\ \/ merged.last = tokens.last
           \/ u # NoUsage /\ merged.last = u.last /\ merged.observed = u.observed
        /\ \/ merged.lastSource = tokens.lastSource /\ merged.last = tokens.last
           \/ merged.lastSource # "sessionLog" /\ u.last # None
    <3>1. CASE u = NoUsage \/ (u # NoUsage /\ ~(u.observed >= tokens.observed))
      <4>1. merged = tokens
        <5>1. CASE u = NoUsage
          BY <5>1, <2>1, <1>5
        <5>2. CASE u # NoUsage /\ ~(u.observed >= tokens.observed)
          <6>1. u.observed \in Nat
            BY <5>2, <1>2, <1>3, ReportFields
          <6> QED BY <5>2, <6>1, <2>1, <1>0, <1>5, OldReportIgnored
        <5> QED BY <3>1, <5>1, <5>2
      <4> QED BY <4>1, <1>0
    <3>2. CASE u # NoUsage /\ u.observed >= tokens.observed
      <4>1. /\ u.source = "appServer" /\ u.current \in Nat /\ u.observed \in Nat
            /\ u.last \in (Nat \ {0}) \cup {None}
        BY <3>2, <1>2, <1>3, ReportFields
      <4>2. u.observed <= clock /\ u.last <= turns
        BY <3>2, <1>2, <1>3 DEF Dated, IsDated
      <4>3. u.last \in 1..turns \cup {None} /\ u.observed \in 0..clock
        BY <4>1, <4>2, <1>0
      <4>4. merged = ApplyTokenUsage(tokens, u)
        BY <3>2, <2>1, <1>5
      <4>5. u.current \in Nat \cup {None} /\ u.last \in Nat \cup {None} /\ u.source \in Sources
        BY <4>1 DEF Sources
      <4>6. /\ merged \in Cards /\ merged.current = u.current /\ merged.source = u.source
            /\ merged.observed = u.observed
            /\ merged.last = IF u.last # None THEN u.last ELSE tokens.last
            /\ merged.lastSource = IF u.last # None THEN u.source ELSE tokens.lastSource
        BY <4>1, <4>4, <4>5, <3>2, <1>0, AppliedCard
      <4>7. merged.source # "sessionLog" /\ u.source # "sessionLog"
        BY <4>6, <4>1
      <4> QED BY <4>6, <4>7, <4>3, <3>2, <1>0
    <3> QED BY <3>1, <3>2
  <2>3. /\ dark \in Cards /\ dark.current = None /\ dark.observed = merged.observed
        /\ dark.last = IF merged.lastSource = "sessionLog" THEN merged.last ELSE None
        /\ dark.lastSource = IF merged.lastSource = "sessionLog" THEN "sessionLog" ELSE "none"
    BY <2>2, <1>6, UnavailableCard
  <2>4. CASE First.healthy
    BY <2>4, <2>2, <1>1, <1>3, <1>7, <1>9 DEF CardTyped
  <2>5. CASE ~First.healthy
    BY <2>5, <2>2, <2>3, <1>1, <1>3, <1>7, <1>9 DEF CardTyped
  <2> QED BY <2>4, <2>5
<1> QED BY <1>8, <1>9

(* What it does to the popups. *)
LEMMA ApplyPopups ==
  ASSUME Types, ChannelAccounts, Apply
  PROVE  /\ First.reset # 0 => (tracker' = NoUsage /\ popped' = <<>>)
         /\ First.reset = 0 =>
              \/ tracker' = tracker /\ popped' = popped
              \/ /\ First.usage # NoUsage /\ tracker' = First.usage
                 /\ \/ tracker = NoUsage /\ popped' = popped
                    \/ /\ tracker # NoUsage /\ First.usage.observed > tracker.observed
                       /\ \/ popped' = popped
                          \/ /\ First.usage.current > tracker.current
                             /\ popped' = Append(popped, First.usage.current)
<1>1. /\ First.usage \in Usages /\ (First.reset # 0 => First.usage = NoUsage)
  BY FirstFacts
<1>2. PICK u : u = First.usage
  OBVIOUS
<1>3. PICK base : base = IF First.reset # 0 THEN NoUsage ELSE tracker
  OBVIOUS
<1>4. PICK o : o = ObserveTokenUsage(base, u)
  OBVIOUS
<1>5. /\ tracker' = o[1]
      /\ popped' = IF o[2] THEN Append(IF First.reset # 0 THEN <<>> ELSE popped, u.current)
                            ELSE IF First.reset # 0 THEN <<>> ELSE popped
  BY <1>2, <1>3, <1>4 DEF Apply, First, ResetTracker
<1>6. CASE First.reset # 0
  <2>1. u = NoUsage /\ base = NoUsage
    BY <1>6, <1>1, <1>2, <1>3
  <2>2. o = <<NoUsage, FALSE>>
    BY <2>1, <1>4, NoUsageFields DEF ObserveTokenUsage
  <2> QED BY <2>2, <1>5, <1>6
<1>7. CASE First.reset = 0
  <2>1. base = tracker
    BY <1>7, <1>3
  <2>2. CASE u = NoUsage
    <3>1. o = <<tracker, FALSE>>
      BY <2>1, <2>2, <1>4, NoUsageFields DEF ObserveTokenUsage
    <3> QED BY <3>1, <1>5, <1>7
  <2>3. CASE u # NoUsage
    <3>1. u.source = "appServer" /\ u.observed \in Nat /\ u.current \in Nat
      BY <2>3, <1>1, <1>2, ReportFields
    <3>2. CASE tracker = NoUsage
      <4>1. o = <<u, FALSE>>
        BY <3>1, <3>2, <2>1, <1>4, NoUsageFields DEF ObserveTokenUsage
      <4> QED BY <4>1, <3>2, <2>3, <1>2, <1>5, <1>7
    <3>3. CASE tracker # NoUsage
      <4>1. tracker.source = "appServer" /\ tracker.observed \in Nat /\ tracker.current \in Nat
        BY <3>3, ReportFields DEF Types
      <4>2. CASE u.observed <= tracker.observed
        <5>1. o = <<tracker, FALSE>>
          BY <4>1, <4>2, <3>1, <2>1, <1>4 DEF ObserveTokenUsage
        <5> QED BY <5>1, <1>5, <1>7
      <4>3. CASE ~(u.observed <= tracker.observed)
        <5>1. o = <<u, u.current > tracker.current>>
          BY <4>1, <4>3, <3>1, <2>1, <1>4 DEF ObserveTokenUsage
        <5>2. u.observed > tracker.observed
          BY <4>3, <4>1, <3>1
        <5>3. tracker' = u /\ popped' = IF u.current > tracker.current THEN Append(popped, u.current) ELSE popped
          BY <5>1, <1>5, <1>7
        <5> QED BY <5>2, <5>3, <3>3, <2>3, <1>2, <1>7
      <4> QED BY <4>2, <4>3
    <3> QED BY <3>2, <3>3
  <2> QED BY <2>2, <2>3
<1> QED BY <1>1, <1>6, <1>7, FirstFacts

-----------------------------------------------------------------------------
(* 3. The reports that are held: where a step puts them. *)

LEMMA HeldTyped ==
  ASSUME Types
  PROVE  Held \subseteq Usages
<1>1. updates \in Seq(Messages) /\ usage \in Usages /\ tracker \in Usages
  BY DEF Types
<1>2. \A i \in 1..Len(updates) : updates[i] \in Messages
  BY <1>1
<1>3. \A i \in 1..Len(updates) : updates[i].usage \in Usages
  BY <1>2 DEF Messages
<1> QED BY <1>1, <1>3 DEF Held

(* The notification's report. *)
IsNews(n) ==
  /\ n \in Reported
  /\ n.current = spent /\ n.last \in {turns, None} /\ n.observed = clock /\ n.account = account

Sends(n) ==
  \E b \in BOOLEAN, r \in Nat :
    updates' = Append(updates, [usage |-> n, healthy |-> b, reset |-> r])

LEMMA SendHeld ==
  ASSUME Types, NEW n \in Usages, Sends(n), usage' \in {usage, n}, tracker' = tracker
  PROVE  Held' \subseteq Held \cup {n} /\ updates' \in Seq(Messages)
<1>1. PICK b \in BOOLEAN, r \in Nat :
        updates' = Append(updates, [usage |-> n, healthy |-> b, reset |-> r])
  BY DEF Sends
<1>2. PICK e : e = [usage |-> n, healthy |-> b, reset |-> r]
  OBVIOUS
<1>3. e \in Messages /\ e.usage = n /\ updates \in Seq(Messages)
  BY <1>2 DEF Messages, Types
<1>4. /\ updates' \in Seq(Messages) /\ Len(updates') = Len(updates) + 1 /\ Len(updates) \in Nat
      /\ \A i \in 1..Len(updates) : updates'[i] = updates[i]
      /\ updates'[Len(updates) + 1] = e
  BY <1>1, <1>2, <1>3, AppendFacts
<1>5. \A i \in 1..Len(updates') : updates'[i].usage \in {updates[j].usage : j \in 1..Len(updates)} \cup {n}
  <2> SUFFICES ASSUME NEW i \in 1..Len(updates')
               PROVE  updates'[i].usage \in {updates[j].usage : j \in 1..Len(updates)} \cup {n}
    OBVIOUS
  <2>1. CASE i \in 1..Len(updates)
    BY <2>1, <1>4
  <2>2. CASE i = Len(updates) + 1
    BY <2>2, <1>4, <1>3
  <2> QED BY <2>1, <2>2, <1>4
<1> QED BY <1>4, <1>5 DEF Held

LEMMA ApplyHeld ==
  ASSUME Types, ChannelAccounts, Apply
  PROVE  /\ Held' \subseteq Held \cup {NoUsage}
         /\ updates' \in Seq(Messages) /\ Len(updates') = Len(updates) - 1
         /\ \A i \in 1..Len(updates') : i + 1 \in 1..Len(updates) /\ updates'[i] = updates[i + 1]
<1>1. updates' = Tail(updates) /\ usage' = usage /\ updates \in Seq(Messages) /\ updates # <<>>
  BY DEF Apply, session, Types
<1>2. /\ updates' \in Seq(Messages) /\ Len(updates') = Len(updates) - 1 /\ Len(updates) \in Nat \ {0}
      /\ \A i \in 1..Len(updates) - 1 : updates'[i] = updates[i + 1]
  BY <1>1, TailFacts
<1>3. \A i \in 1..Len(updates') : i + 1 \in 1..Len(updates) /\ updates'[i] = updates[i + 1]
  BY <1>2
<1>4. \A i \in 1..Len(updates') : updates'[i].usage \in {updates[j].usage : j \in 1..Len(updates)}
  BY <1>3
<1>5. First.usage \in Held
  BY FirstFacts
<1>6. tracker' \in {tracker, NoUsage, First.usage}
  BY ApplyPopups, FirstFacts
<1>7. tracker' \in Held \cup {NoUsage}
  BY <1>5, <1>6 DEF Held
<1> QED BY <1>1, <1>2, <1>3, <1>4, <1>7 DEF Held

(* What the session steps send. *)
LEMMA NotificationSends ==
  ASSUME TypeOK, Types, TokenNotification
  PROVE  IsNews(usage') /\ Sends(usage')
<1>1. /\ spent \in Nat /\ turns \in Nat \ {0} /\ clock \in Nat /\ account \in Nat
  BY TokensAssumption DEF TypeOK, TokenNotification
<1>2. PICK last \in {turns, None} :
        usage' = [current |-> spent, last |-> last, observed |-> clock,
                  source |-> "appServer", account |-> account]
  BY DEF TokenNotification
<1>3. last \in (Nat \ {0}) \cup {None}
  BY <1>1
<1>4. usage' \in Reported
  BY <1>1, <1>2, <1>3 DEF Reported
<1>5. IsNews(usage')
  BY <1>2, <1>4 DEF IsNews
<1>6. Sends(usage')
  BY DEF TokenNotification, Publish, Sends
<1> QED BY <1>5, <1>6

LEMMA SessionHeld ==
  ASSUME TypeOK, Types, OtherUpdate \/ AccountUpdated \/ Disconnect \/ Connect
  PROVE  Held' \subseteq Held \cup {NoUsage} /\ updates' \in Seq(Messages) /\ usage' \in Usages
<1>0. NoUsage \in Usages /\ usage \in Usages /\ usage \in Held
  BY NoUsageFields DEF Types, Held
<1>1. CASE OtherUpdate
  <2>1. Sends(usage)
    BY <1>1 DEF OtherUpdate, Publish, Sends
  <2>2. usage' = usage /\ tracker' = tracker
    BY <1>1 DEF OtherUpdate, session, Quiet
  <2> QED BY <1>0, <2>1, <2>2, SendHeld
<1>2. CASE AccountUpdated
  <2>1. Sends(NoUsage)
    <3>1. account' \in Nat
      BY <1>2, TokensAssumption DEF AccountUpdated, TypeOK
    <3> QED BY <1>2, <3>1 DEF AccountUpdated, Publish, Sends
  <2>2. usage' = NoUsage /\ tracker' = tracker
    BY <1>2 DEF AccountUpdated, Quiet
  <2> QED BY <1>0, <2>1, <2>2, SendHeld
<1>3. CASE Disconnect
  <2>1. Sends(usage)
    BY <1>3 DEF Disconnect, Publish, Sends
  <2>2. usage' = usage /\ tracker' = tracker
    BY <1>3 DEF Disconnect, Quiet
  <2> QED BY <1>0, <2>1, <2>2, SendHeld
<1>4. CASE Connect
  <2>1. usage' = NoUsage /\ tracker' = tracker /\ updates' = updates
    BY <1>4 DEF Connect, Quiet
  <2> QED BY <1>0, <2>1 DEF Held, Types
<1> QED BY <1>1, <1>2, <1>3, <1>4

-----------------------------------------------------------------------------
(* 4. Wherever reports are held, the later one carries the later figures. *)

LEMMA Naturals ==
  ASSUME TypeOK
  PROVE  clock \in Nat /\ turns \in Nat /\ account \in Nat /\ spent \in Nat /\ spent <= turns
BY TokensAssumption DEF TypeOK

LEMMA DatedStays ==
  ASSUME Types, TypeOK, Dated, Ordered, Held' \subseteq Held \cup {NoUsage},
         UNCHANGED <<clock, turns, account, spent>>
  PROVE  Dated' /\ Ordered'
<1>1. \A x \in Held' : IsDated(x)'
  <2> SUFFICES ASSUME NEW x \in Held', x # NoUsage
               PROVE  IsDated(x)'
    BY DEF IsDated
  <2>1. IsDated(x)
    BY DEF Dated
  <2> QED BY <2>1 DEF IsDated
<1>2. \A x, y \in Held' : InOrder(x, y)
  <2> SUFFICES ASSUME NEW x \in Held', NEW y \in Held', x # NoUsage, y # NoUsage
               PROVE  InOrder(x, y)
    BY DEF InOrder
  <2> QED BY DEF Ordered
<1> QED BY <1>1, <1>2 DEF Dated, Ordered, InOrder

(* Time goes on, alone or with a turn. *)
LEMMA DatedAsTimePasses ==
  ASSUME Types, TypeOK, Dated, Ordered, Finish \/ Tick
  PROVE  Dated' /\ Ordered'
<1>1. Held' = Held
  BY DEF Finish, Tick, session, Held
<1>2. /\ clock' = clock + 1 /\ account' = account
      /\ turns' \in {turns, turns + 1} /\ spent' \in {spent, spent + 1}
  BY DEF Finish, Tick
<1>3. \A x \in Held : IsDated(x)'
  <2> SUFFICES ASSUME NEW x \in Held, x # NoUsage
               PROVE  IsDated(x)'
    BY DEF IsDated
  <2>1. IsDated(x)
    BY DEF Dated
  <2>2. x.current \in Nat /\ x.observed \in Nat /\ x.account \in Nat /\ x.last \in Int
    BY HeldTyped, ReportFields
  <2>3. clock \in Nat /\ turns \in Nat /\ account \in Nat /\ spent \in Nat
    BY Naturals
  <2>4. x.observed <= clock' /\ x.observed # clock' /\ x.last <= turns' /\ x.account <= account'
    BY <1>2, <2>1, <2>2, <2>3 DEF IsDated
  <2>5. x.account = account' => x.current <= spent'
    BY <1>2, <2>1, <2>2, <2>3 DEF IsDated
  <2> QED BY <2>4, <2>5 DEF IsDated
<1> QED BY <1>1, <1>3 DEF Dated, Ordered, InOrder

(* A new login: no report of it is held. *)
LEMMA DatedAtLogin ==
  ASSUME Types, TypeOK, Dated, Ordered, AccountUpdated
  PROVE  Dated' /\ Ordered'
<1>1. Held' \subseteq Held \cup {NoUsage}
  BY SessionHeld
<1>2. account' = account + 1 /\ clock' = clock /\ turns' = turns
  BY DEF AccountUpdated
<1>3. \A x \in Held' : IsDated(x)'
  <2> SUFFICES ASSUME NEW x \in Held', x # NoUsage
               PROVE  IsDated(x)'
    BY DEF IsDated
  <2>0. x \in Held
    BY <1>1
  <2>1. IsDated(x)
    BY <2>0 DEF Dated
  <2>2. x.account \in Nat /\ account \in Nat
    BY <2>0, HeldTyped, ReportFields, Naturals
  <2>3. x.account <= account' /\ x.account # account'
    BY <1>2, <2>1, <2>2 DEF IsDated
  <2> QED BY <2>1, <2>3, <1>2 DEF IsDated
<1>4. \A x, y \in Held' : InOrder(x, y)
  <2> SUFFICES ASSUME NEW x \in Held', NEW y \in Held', x # NoUsage, y # NoUsage
               PROVE  InOrder(x, y)
    BY DEF InOrder
  <2> QED BY <1>1 DEF Ordered
<1> QED BY <1>3, <1>4 DEF Dated, Ordered, InOrder

(* News carries the latest figures there are. *)
LEMMA NewsInOrder ==
  ASSUME TypeOK, NEW n, IsNews(n), NEW x \in Usages, IsDated(x)
  PROVE  InOrder(x, n) /\ InOrder(n, x) /\ InOrder(n, n) /\ IsDated(n)
<1>1. /\ n.current = spent /\ n.last \in {turns, None} /\ n.observed = clock /\ n.account = account
      /\ n.last \in Int
  BY Naturals DEF IsNews, None
<1>2. clock \in Nat /\ turns \in Nat /\ account \in Nat /\ spent \in Nat
  BY Naturals
<1>3. IsDated(n)
  BY <1>1, <1>2 DEF IsDated, None
<1>4. InOrder(n, n)
  BY <1>1, <1>2 DEF InOrder, None
<1>5. CASE x = NoUsage
  BY <1>3, <1>4, <1>5 DEF InOrder
<1>6. CASE x # NoUsage
  <2>1. x.current \in Nat /\ x.observed \in Nat /\ x.account \in Nat /\ x.last \in Int
    BY <1>6, ReportFields
  <2>2. InOrder(x, n)
    <3>1. n.last # None => x.last <= n.last
      BY <1>1, <1>6 DEF IsDated
    <3>2. x.account = n.account => x.current <= n.current
      BY <1>1, <1>6 DEF IsDated
    <3> QED BY <3>1, <3>2 DEF InOrder
  <2>3. InOrder(n, x)
    <3>1. SUFFICES ASSUME n.observed <= x.observed
                   PROVE  /\ x.last # None => n.last <= x.last
                          /\ x.account = n.account => n.current <= x.current
      BY DEF InOrder
    <3>2. x.observed = clock
      BY <1>1, <1>2, <1>6, <2>1, <3>1 DEF IsDated
    <3>3. x.last # None => (x.last = turns /\ n.last <= x.last)
      BY <1>1, <1>2, <1>6, <3>2 DEF IsDated, None
    <3>4. x.account = n.account => n.current <= x.current
      BY <1>1, <1>2, <1>6, <3>2 DEF IsDated
    <3> QED BY <3>3, <3>4
  <2> QED BY <2>2, <2>3, <1>3, <1>4
<1> QED BY <1>5, <1>6

LEMMA DatedAtNotification ==
  ASSUME Types, TypeOK, Dated, Ordered, TokenNotification
  PROVE  Dated' /\ Ordered'
<1>1. PICK n : n = usage'
  OBVIOUS
<1>2. IsNews(n) /\ Sends(n)
  BY <1>1, NotificationSends
<1>3. n \in Usages /\ n # NoUsage
  BY <1>2, NoUsageFields DEF IsNews, Usages, Reported
<1>4. Held' \subseteq Held \cup {n}
  <2>1. tracker' = tracker
    BY DEF TokenNotification, Quiet
  <2> QED BY <1>1, <1>2, <1>3, <2>1, SendHeld
<1>5. UNCHANGED <<clock, turns, account, spent>>
  BY DEF TokenNotification, world
<1>6. \A x \in Held \cup {n} : x \in Usages /\ IsDated(x)
  <2>1. \A x \in Held : x \in Usages /\ IsDated(x)
    BY HeldTyped DEF Dated
  <2>2. NoUsage \in Usages /\ IsDated(NoUsage)
    BY NoUsageFields DEF IsDated
  <2>3. IsDated(n)
    BY <1>2, <2>2, NewsInOrder
  <2> QED BY <2>1, <2>3, <1>3
<1>7. \A x, y \in Held \cup {n} : InOrder(x, y)
  <2> SUFFICES ASSUME NEW x \in Held \cup {n}, NEW y \in Held \cup {n}
               PROVE  InOrder(x, y)
    OBVIOUS
  <2>1. CASE x \in Held /\ y \in Held
    BY <2>1 DEF Ordered
  <2>2. CASE x = n
    BY <2>2, <1>2, <1>6, NewsInOrder
  <2>3. CASE y = n
    BY <2>3, <1>2, <1>6, NewsInOrder
  <2> QED BY <2>1, <2>2, <2>3
<1>8. \A x \in Held' : IsDated(x)'
  BY <1>4, <1>5, <1>6 DEF IsDated
<1>9. \A x, y \in Held' : InOrder(x, y)
  BY <1>4, <1>7
<1> QED BY <1>8, <1>9 DEF Dated, Ordered, InOrder

LEMMA DatedNext ==
  ASSUME Types, TypeOK, Dated, Ordered, ChannelAccounts, Next
  PROVE  Dated' /\ Ordered'
<1>1. CASE Finish \/ Tick
  BY <1>1, DatedAsTimePasses
<1>2. CASE TokenNotification
  BY <1>2, DatedAtNotification
<1>3. CASE AccountUpdated
  BY <1>3, DatedAtLogin
<1>4. CASE OtherUpdate \/ Disconnect \/ Connect
  <2>1. UNCHANGED <<clock, turns, account, spent>>
    BY <1>4 DEF OtherUpdate, Disconnect, Connect, world
  <2> QED BY <1>4, <2>1, SessionHeld, DatedStays
<1>5. CASE Apply
  <2>1. UNCHANGED <<clock, turns, account, spent>>
    BY <1>5 DEF Apply, world
  <2> QED BY <1>5, <2>1, ApplyHeld, DatedStays
<1>6. CASE PollSqlite \/ PollLog
  <2>1. UNCHANGED <<clock, turns, account, spent>> /\ UNCHANGED <<updates, usage, tracker>>
    BY <1>6 DEF PollSqlite, PollLog, world, session
  <2>2. Held' = Held
    BY <2>1 DEF Held
  <2> QED BY <2>1, <2>2, DatedStays
<1> QED BY <1>1, <1>2, <1>3, <1>4, <1>5, <1>6 DEF Next

-----------------------------------------------------------------------------
(* 5. The card. *)

NewestKept    == tokens'.last # None => tokens'.last >= tokens.last
LogTurnKept   == (tokens.lastSource = "sessionLog" /\ tokens'.last = None /\ tokens' # NoTokens)
                   => (updates # <<>> /\ Head(updates).usage.last # None)

LEMMA CardSame ==
  ASSUME Types, TypeOK, CardIsNewest, UNCHANGED <<tokens, turns>>, clock <= clock', clock' \in Nat,
         \A x \in Held' : MayReplace(x)
  PROVE  tokens' \in Cards /\ CardTyped' /\ CardIsNewest' /\ NewestKept /\ LogTurnKept
<1>1. tokens \in Cards /\ tokens.last \in 1..turns \cup {None} /\ tokens.last \in Int
  BY CardFields DEF Types, TypeOK
<1>2. CardTyped'
  <2>1. tokens.observed \in 0..clock'
    <3>1. tokens.observed \in 0..clock /\ clock \in Nat
      BY Naturals DEF TypeOK
    <3> QED BY <3>1
  <2> QED BY <2>1 DEF CardTyped, TypeOK
<1>3. NewestKept
  BY <1>1 DEF NewestKept
<1> QED BY <1>1, <1>2, <1>3 DEF CardIsNewest, LogTurnKept, MayReplace

LEMMA SendingMayReplace ==
  ASSUME Types, TypeOK, CardIsNewest, Held' \subseteq Held \cup {NoUsage}
  PROVE  \A x \in Held' : MayReplace(x)
BY DEF CardIsNewest, MayReplace

LEMMA CardNext ==
  ASSUME Types, TypeOK, Dated, Ordered, CardIsNewest, ChannelAccounts, Next
  PROVE  tokens' \in Cards /\ CardTyped' /\ CardIsNewest' /\ NewestKept /\ LogTurnKept
<1>0. /\ clock \in Nat /\ turns \in Nat /\ tokens \in Cards /\ tokens.last \in 1..turns \cup {None}
      /\ tokens.observed \in 0..clock /\ tokens.observed \in Nat /\ tokens.last \in Int
  BY Naturals, CardFields DEF Types, TypeOK
<1>1. CASE Finish \/ Tick
  <2>1. Held' = Held
    BY <1>1 DEF Finish, Tick, session, Held
  <2>2. tokens' = tokens /\ clock' = clock + 1 /\ turns' \in {turns, turns + 1}
    BY <1>1 DEF Finish, Tick
  <2>3. tokens.last \in 1..turns' \cup {None} /\ tokens.observed \in 0..clock'
    BY <2>2, <1>0
  <2>4. CardTyped'
    BY <2>2, <2>3 DEF CardTyped, TypeOK
  <2>5. CardIsNewest'
    BY <2>1, <2>2 DEF CardIsNewest, MayReplace
  <2>6. NewestKept
    BY <2>2, <1>0 DEF NewestKept
  <2> QED BY <2>2, <2>4, <2>5, <2>6, <1>0 DEF CardIsNewest, LogTurnKept
<1>2. CASE TokenNotification
  <2>1. PICK n : n = usage'
    OBVIOUS
  <2>2. IsNews(n) /\ Sends(n)
    BY <2>1, <1>2, NotificationSends
  <2>3. Held' \subseteq Held \cup {n}
    <3>1. tracker' = tracker
      BY <1>2 DEF TokenNotification, Quiet
    <3>2. n \in Usages
      BY <2>2 DEF IsNews, Usages
    <3> QED BY <2>1, <2>2, <3>1, <3>2, SendHeld
  <2>4. MayReplace(n)
    <3>1. n.last \in {turns, None}
      BY <2>2 DEF IsNews
    <3>2. n.last # None => tokens.last <= n.last
      BY <3>1, <1>0 DEF None
    <3> QED BY <3>2 DEF MayReplace
  <2>5. \A x \in Held' : MayReplace(x)
    BY <2>3, <2>4 DEF CardIsNewest
  <2>6. UNCHANGED <<tokens, turns, clock>> /\ clock <= clock
    BY <1>2, <1>0 DEF TokenNotification, world, Quiet
  <2> QED BY <2>5, <2>6, <1>0, CardSame
<1>3. CASE OtherUpdate \/ AccountUpdated \/ Disconnect \/ Connect
  <2>1. UNCHANGED <<tokens, turns, clock>> /\ clock <= clock
    <3>1. UNCHANGED <<tokens, turns, clock>>
      BY <1>3 DEF OtherUpdate, AccountUpdated, Disconnect, Connect, world, Quiet
    <3> QED BY <3>1, <1>0
  <2>2. \A x \in Held' : MayReplace(x)
    BY <1>3, SessionHeld, SendingMayReplace
  <2> QED BY <2>1, <2>2, <1>0, CardSame
<1>4. CASE Apply
  <2>1. /\ tokens' \in Cards /\ CardTyped'
        /\ First.reset # 0 => tokens' = NoTokens
        /\ First.reset = 0 =>
              /\ tokens'.observed >= tokens.observed
              /\ \/ tokens'.last = None
                 \/ tokens'.last = tokens.last
                 \/ /\ First.usage # NoUsage /\ tokens'.last = First.usage.last
                    /\ tokens'.observed = First.usage.observed
              /\ tokens'.lastSource = "sessionLog" =>
                    tokens.lastSource = "sessionLog" /\ tokens'.last = tokens.last
              /\ (tokens.lastSource = "sessionLog" /\ First.usage.last = None) => tokens'.last = tokens.last
    BY <1>4, ApplyCard
  <2>2. Held' \subseteq Held \cup {NoUsage} /\ First.usage \in Held
    BY <1>4, ApplyHeld, FirstFacts
  <2>3. tokens'.observed \in Nat /\ tokens'.last \in Int
    BY <2>1, CardFields
  <2>4. CASE First.reset # 0
    <3>1. tokens' = NoTokens /\ NoTokens.last = None /\ NoTokens.lastSource = "none"
      BY <2>1, <2>4 DEF NoTokens
    <3>2. \A x \in Held' : MayReplace(x)'
      <4> SUFFICES ASSUME NEW x \in Held', x # NoUsage
                   PROVE  tokens'.last <= x.last
        BY DEF MayReplace
      <4>1. x.last \in Nat \cup {None} /\ x.last \in Int
        BY <2>2, HeldTyped, ReportFields
      <4> QED BY <4>1, <3>1 DEF None
    <3> QED BY <3>1, <3>2, <2>1 DEF CardIsNewest, NewestKept, LogTurnKept
  <2>5. CASE First.reset = 0
    <3>1. /\ tokens'.observed >= tokens.observed
          /\ \/ tokens'.last = None
             \/ tokens'.last = tokens.last
             \/ /\ First.usage # NoUsage /\ tokens'.last = First.usage.last
                /\ tokens'.observed = First.usage.observed
      BY <2>1, <2>5
    <3>2. \A x \in Held' : MayReplace(x)'
      <4> SUFFICES ASSUME NEW x \in Held', x # NoUsage, x.last # None, tokens'.observed <= x.observed
                   PROVE  tokens'.last <= x.last
        BY DEF MayReplace
      <4>1. x \in Held /\ x.last \in Nat \cup {None} /\ x.last \in Int /\ x.observed \in Nat
        BY <2>2, HeldTyped, ReportFields
      <4>2. CASE tokens'.last = None
        BY <4>1, <4>2 DEF None
      <4>3. CASE tokens'.last = tokens.last
        <5>1. tokens.observed <= x.observed
          BY <3>1, <4>1, <2>3, <1>0
        <5> QED BY <5>1, <4>1, <4>3 DEF CardIsNewest, MayReplace
      <4>4. CASE First.usage # NoUsage /\ tokens'.last = First.usage.last /\ tokens'.observed = First.usage.observed
        <5>1. InOrder(First.usage, x)
          BY <2>2, <4>1 DEF Ordered
        <5> QED BY <5>1, <4>4 DEF InOrder
      <4> QED BY <3>1, <4>2, <4>3, <4>4
    <3>3. NewestKept
      <4> SUFFICES ASSUME tokens'.last # None
                   PROVE  tokens'.last >= tokens.last
        BY DEF NewestKept
      <4>1. CASE tokens'.last = tokens.last
        BY <4>1, <1>0
      <4>2. CASE First.usage # NoUsage /\ tokens'.last = First.usage.last /\ tokens'.observed = First.usage.observed
        <5>1. MayReplace(First.usage)
          BY <2>2 DEF CardIsNewest
        <5>2. tokens.observed <= First.usage.observed
          BY <3>1, <4>2, <2>3, <1>0
        <5>3. tokens.last <= tokens'.last
          BY <5>1, <5>2, <4>2 DEF MayReplace
        <5> QED BY <5>3, <2>3, <1>0
      <4> QED BY <3>1, <4>1, <4>2
    <3>4. tokens'.lastSource = "sessionLog" => tokens'.last # None
      BY <2>1, <2>5 DEF CardIsNewest
    <3>5. LogTurnKept
      <4>1. updates # <<>>
        BY <1>4 DEF Apply
      <4>2. (tokens.lastSource = "sessionLog" /\ tokens'.last = None) => First.usage.last # None
        BY <2>1, <2>5 DEF CardIsNewest
      <4> QED BY <4>1, <4>2 DEF LogTurnKept, First
    <3> QED BY <2>1, <3>2, <3>3, <3>4, <3>5 DEF CardIsNewest
  <2> QED BY <2>4, <2>5
<1>5. CASE PollSqlite
  <2>1. /\ tokens' \in Cards /\ CardTyped'
        /\ tokens'.last = tokens.last /\ tokens'.lastSource = tokens.lastSource
        /\ tokens'.observed >= tokens.observed
    BY <1>5, PollSqliteCard
  <2>2. Held' = Held
    BY <1>5 DEF PollSqlite, session, Held
  <2>3. tokens'.observed \in Nat
    BY <2>1, CardFields
  <2>4. \A x \in Held' : MayReplace(x)'
    <3> SUFFICES ASSUME NEW x \in Held, x # NoUsage, x.last # None, tokens'.observed <= x.observed
                 PROVE  tokens.last <= x.last
      BY <2>1, <2>2 DEF MayReplace
    <3>1. x.observed \in Nat
      BY HeldTyped, ReportFields
    <3>2. tokens.observed <= x.observed
      BY <3>1, <2>1, <2>3, <1>0
    <3> QED BY <3>2 DEF CardIsNewest, MayReplace
  <2>5. NewestKept
    BY <2>1, <1>0 DEF NewestKept
  <2> QED BY <2>1, <2>4, <2>5 DEF CardIsNewest, LogTurnKept
<1>6. CASE PollLog
  <2>1. /\ tokens' \in Cards /\ CardTyped'
        /\ \/ tokens' = tokens
           \/ /\ tokens'.last = turns /\ tokens'.last # None
              /\ tokens'.lastSource = "sessionLog" /\ tokens'.observed = clock
    BY <1>6, PollLogCard
  <2>2. Held' = Held /\ UNCHANGED <<turns, clock>>
    BY <1>6 DEF PollLog, session, world, Held
  <2>3. CASE tokens' = tokens
    <3>1. CardIsNewest'
      BY <2>2, <2>3 DEF CardIsNewest, MayReplace
    <3>2. NewestKept
      BY <2>3, <1>0 DEF NewestKept
    <3> QED BY <2>1, <2>3, <3>1, <3>2 DEF LogTurnKept, CardIsNewest
  <2>4. CASE /\ tokens'.last = turns /\ tokens'.last # None
             /\ tokens'.lastSource = "sessionLog" /\ tokens'.observed = clock
    <3>1. \A x \in Held' : MayReplace(x)'
      <4> SUFFICES ASSUME NEW x \in Held, x # NoUsage, x.last # None, clock <= x.observed
                   PROVE  turns <= x.last
        BY <2>2, <2>4 DEF MayReplace
      <4>1. IsDated(x) /\ x.observed \in Nat
        BY HeldTyped, ReportFields DEF Dated
      <4>2. x.observed = clock
        BY <4>1, <1>0 DEF IsDated
      <4> QED BY <4>1, <4>2, <1>0 DEF IsDated
    <3>2. NewestKept
      BY <2>4, <1>0 DEF NewestKept, None
    <3> QED BY <2>1, <2>4, <3>1, <3>2 DEF CardIsNewest, LogTurnKept
  <2> QED BY <2>1, <2>3, <2>4
<1> QED BY <1>1, <1>2, <1>3, <1>4, <1>5, <1>6 DEF Next

-----------------------------------------------------------------------------
(* 6. The accounts of the channel and the popups. *)

ResetFits(i) ==
  updates[i].reset # 0 =>
    /\ updates[i].usage = NoUsage
    /\ updates[i].reset \in login + 1..account
    /\ \A j \in 1..Len(updates) :
         (i < j /\ updates[j].reset # 0) => updates[i].reset < updates[j].reset

ReportFits(i) ==
  updates[i].usage # NoUsage =>
    /\ updates[i].usage.account \in login..account
    /\ \A j \in 1..i : updates[j].reset <= updates[i].usage.account
    /\ \/ updates[i].usage.account = login
       \/ \E j \in 1..i : updates[j].reset = updates[i].usage.account

LEMMA ChannelParts ==
  /\ ChannelAccounts <=>
      /\ login <= account
      /\ usage # NoUsage => usage.account = account
      /\ account = login \/ \E j \in 1..Len(updates) : updates[j].reset = account
      /\ \A i \in 1..Len(updates) : ResetFits(i) /\ ReportFits(i)
BY DEF ChannelAccounts, ResetFits, ReportFits

LEMMA Positions ==
  ASSUME Types
  PROVE  /\ Len(updates) \in Nat
         /\ \A i \in 1..Len(updates) :
              updates[i] \in Messages /\ updates[i].reset \in Nat /\ updates[i].usage \in Usages
<1>1. updates \in Seq(Messages)
  BY DEF Types
<1>2. Len(updates) \in Nat /\ \A i \in 1..Len(updates) : updates[i] \in Messages
  BY <1>1
<1> QED BY <1>2 DEF Messages

(* A message joins the channel: news of the login or an empty one, or the    *)
(* reset of the next login.                                                  *)
LEMMA ChannelSent ==
  ASSUME Types, TypeOK, ChannelAccounts, NEW e \in Messages, updates' = Append(updates, e),
         login' = login, usage' # NoUsage => usage'.account = account',
         \/ /\ e.reset = 0 /\ account' = account
            /\ e.usage # NoUsage => e.usage.account = account
         \/ e.reset = account' /\ account' = account + 1 /\ e.usage = NoUsage
  PROVE  ChannelAccounts'
<1> DEFINE n == Len(updates)
<1>1. /\ n \in Nat /\ account \in Nat /\ login \in Nat \ {0} /\ login <= account
      /\ \A i \in 1..n : updates[i].reset \in Nat /\ updates[i].usage \in Usages
  BY Positions, Naturals DEF Types, ChannelAccounts
<1>2. /\ Len(updates') = n + 1 /\ updates'[n + 1] = e
      /\ \A i \in 1..n : updates'[i] = updates[i]
  BY AppendFacts DEF Types
<1>3. account' \in Nat /\ account <= account'
  BY <1>1
<1>3a. \A i \in 1..n + 1 : updates'[i].reset \in Nat
  <2>1. e.reset \in Nat
    BY DEF Messages
  <2> QED BY <2>1, <1>1, <1>2
<1> HIDE DEF n
<1>4. \A i \in 1..n : updates[i].reset <= account
  <2> SUFFICES ASSUME NEW i \in 1..n
               PROVE  updates[i].reset <= account
    OBVIOUS
  <2>1. ResetFits(i)
    BY ChannelParts DEF n
  <2>2. CASE updates[i].reset = 0
    BY <2>2, <1>1
  <2>3. CASE updates[i].reset # 0
    BY <2>1, <2>3, <1>1 DEF ResetFits
  <2> QED BY <2>2, <2>3
<1>5. account' = login' \/ \E j \in 1..n + 1 : updates'[j].reset = account'
  <2>1. CASE e.reset = 0 /\ account' = account
    <3>1. account = login \/ \E j \in 1..n : updates[j].reset = account
      BY DEF ChannelAccounts, n
    <3>2. \A j \in 1..n : j \in 1..n + 1
      BY <1>1
    <3> QED BY <3>1, <3>2, <2>1, <1>2
  <2>2. CASE e.reset = account'
    <3>1. n + 1 \in 1..n + 1
      BY <1>1
    <3> QED BY <3>1, <2>2, <1>2
  <2> QED BY <2>1, <2>2
<1>6. \A i \in 1..n + 1 : ResetFits(i)'
  <2> SUFFICES ASSUME NEW i \in 1..n + 1, updates'[i].reset # 0
               PROVE  /\ updates'[i].usage = NoUsage
                      /\ updates'[i].reset \in login + 1..account'
                      /\ \A j \in 1..n + 1 :
                           (i < j /\ updates'[j].reset # 0) => updates'[i].reset < updates'[j].reset
    BY <1>2 DEF ResetFits, n
  <2>1. CASE i \in 1..n
    <3>1. ResetFits(i) /\ updates'[i] = updates[i] /\ updates[i].reset \in Nat
      BY <2>1, <1>1, <1>2, ChannelParts DEF n
    <3>2. updates[i].usage = NoUsage /\ updates[i].reset \in login + 1..account
      BY <3>1 DEF ResetFits
    <3>3. updates[i].reset \in login + 1..account'
      BY <3>2, <1>1, <1>3
    <3>4. ASSUME NEW j \in 1..n + 1, i < j, updates'[j].reset # 0
          PROVE  updates'[i].reset < updates'[j].reset
      <4>1. CASE j \in 1..n
        <5>1. updates'[j] = updates[j]
          BY <4>1, <1>2
        <5>2. j \in 1..Len(updates) /\ updates[j].reset # 0 /\ updates[i].reset # 0
          BY <4>1, <5>1, <3>1, <3>4 DEF n
        <5>3. updates[i].reset < updates[j].reset
          BY <5>2, <3>1, <3>4 DEF ResetFits
        <5>4. updates'[i].reset = updates[i].reset /\ updates'[j].reset = updates[j].reset
          BY <5>1, <3>1
        <5> QED BY <5>3, <5>4, <1>3a
      <4>2. CASE j = n + 1
        <5>1. e.reset = account + 1
          BY <4>2, <3>4, <1>2
        <5>2. updates[i].reset < account + 1 /\ updates'[j].reset = account + 1 /\ updates'[i] = updates[i]
          BY <5>1, <4>2, <3>1, <3>2, <1>1, <1>2
        <5> QED BY <5>2, <1>3a, <1>1
      <4>3. j \in 1..n \/ j = n + 1
        BY <1>1
      <4> QED BY <4>1, <4>2, <4>3
    <3>5. updates'[i].usage = NoUsage /\ updates'[i].reset \in login + 1..account'
      BY <3>1, <3>2, <3>3
    <3>6. \A j \in 1..n + 1 : (i < j /\ updates'[j].reset # 0) => updates'[i].reset < updates'[j].reset
      BY <3>4
    <3> QED BY <3>5, <3>6, Zenon
  <2>2. CASE i = n + 1
    <3>1. updates'[i] = e /\ e.reset = account' /\ account' = account + 1 /\ e.usage = NoUsage
      BY <2>2, <1>2
    <3>2. account' \in login + 1..account'
      BY <3>1, <1>1
    <3>3. \A j \in 1..n + 1 : ~(i < j)
      BY <2>2, <1>1
    <3> QED BY <3>1, <3>2, <3>3
  <2>3. i \in 1..n \/ i = n + 1
    BY <1>1
  <2> QED BY <2>1, <2>2, <2>3
<1>7. \A i \in 1..n + 1 : ReportFits(i)'
  <2> SUFFICES ASSUME NEW i \in 1..n + 1, updates'[i].usage # NoUsage
               PROVE  /\ updates'[i].usage.account \in login..account'
                      /\ \A j \in 1..i : updates'[j].reset <= updates'[i].usage.account
                      /\ \/ updates'[i].usage.account = login
                         \/ \E j \in 1..i : updates'[j].reset = updates'[i].usage.account
    BY DEF ReportFits
  <2>1. CASE i \in 1..n
    <3>1. ReportFits(i) /\ \A j \in 1..i : updates'[j] = updates[j]
      <4>1. \A j \in 1..i : j \in 1..n
        BY <2>1, <1>1
      <4> QED BY <2>1, <4>1, <1>2, ChannelParts DEF n
    <3>2. updates'[i] = updates[i]
      BY <2>1, <1>2
    <3>3. updates[i].usage.account \in login..account
      BY <3>1, <3>2 DEF ReportFits
    <3>4. updates[i].usage.account \in login..account'
      BY <3>3, <1>1, <1>3
    <3> QED BY <3>1, <3>2, <3>4 DEF ReportFits
  <2>2. CASE i = n + 1
    <3>1. updates'[i] = e /\ e.reset = 0 /\ account' = account /\ e.usage.account = account
      BY <2>2, <1>2
    <3>2. \A j \in 1..i : updates'[j].reset <= account
      <4> SUFFICES ASSUME NEW j \in 1..i
                   PROVE  updates'[j].reset <= account
        OBVIOUS
      <4>1. CASE j \in 1..n
        <5>1. updates'[j] = updates[j] /\ updates[j].reset <= account
          BY <4>1, <1>2, <1>4
        <5> QED BY <5>1
      <4>2. CASE j = n + 1
        <5>1. updates'[j] = e /\ 0 <= account
          BY <4>2, <1>2, <1>1
        <5> QED BY <5>1, <3>1
      <4>3. j \in 1..n \/ j = n + 1
        BY <2>2, <1>1
      <4> QED BY <4>1, <4>2, <4>3
    <3>3. account \in login..account'
      BY <3>1, <1>1
    <3>4. account = login \/ \E j \in 1..i : updates'[j].reset = account
      BY <3>1, <2>2, <1>5
    <3>5. updates'[i].usage.account = account
      BY <3>1
    <3>6. updates'[i].usage.account \in login..account'
      BY <3>3, <3>5
    <3>7. \A j \in 1..i : updates'[j].reset <= updates'[i].usage.account
      BY <3>2, <3>5, Zenon
    <3>8. updates'[i].usage.account = login \/ \E j \in 1..i : updates'[j].reset = updates'[i].usage.account
      BY <3>4, <3>5, Zenon
    <3> QED BY <3>6, <3>7, <3>8, Zenon
  <2>3. i \in 1..n \/ i = n + 1
    BY <1>1
  <2> QED BY <2>1, <2>2, <2>3
<1>8. login' <= account'
  BY <1>1, <1>3
<1> QED BY <1>2, <1>5, <1>6, <1>7, <1>8, ChannelParts DEF ChannelAccounts, ResetFits, ReportFits

(* The first message leaves the channel; a reset in it makes its login the   *)
(* one the rest is measured by.                                              *)
LEMMA ChannelTaken ==
  ASSUME Types, TypeOK, ChannelAccounts, Apply
  PROVE  ChannelAccounts'
<1> DEFINE n == Len(updates)
           r == updates[1].reset
<1>1. /\ n \in Nat \ {0} /\ account \in Nat /\ login \in Nat \ {0} /\ login <= account
      /\ \A i \in 1..n : updates[i].reset \in Nat /\ updates[i].usage \in Usages
  BY Positions, Naturals, FirstFacts DEF Types, ChannelAccounts
<1>2. /\ Len(updates') = n - 1
      /\ \A i \in 1..n - 1 : i + 1 \in 1..n /\ updates'[i] = updates[i + 1]
  BY ApplyHeld
<1>3. First.reset = r /\ r \in Nat /\ 1 \in 1..n
  BY FirstFacts
<1>4. login' = (IF r # 0 THEN r ELSE login) /\ account' = account /\ usage' = usage
  BY <1>3 DEF Apply, First, world, session
<1>5. /\ r # 0 => r \in login + 1..account
      /\ \A j \in 1..n : (1 < j /\ r # 0 /\ updates[j].reset # 0) => r < updates[j].reset
  <2>1. ResetFits(1)
    BY <1>3, ChannelParts
  <2> QED BY <2>1, <1>3 DEF ResetFits
<1> HIDE DEF n, r
<1>6. login' \in Nat \ {0} /\ login' <= account' /\ login <= login'
  BY <1>1, <1>3, <1>4, <1>5
(* Whatever reset a report stands behind is either the one taken or stays. *)
<1>7. ASSUME NEW a \in Nat, NEW i \in 1..n, r <= a, login <= a,
             a = login \/ \E j \in 1..i : updates[j].reset = a
      PROVE  a = login' \/ \E j \in 1..i - 1 : updates'[j].reset = a
  <2>1. CASE a = login
    <3>1. r = 0
      <4> SUFFICES ASSUME r # 0 PROVE FALSE
        OBVIOUS
      <4>1. r \in login + 1..account
        BY <1>5
      <4> QED BY <4>1, <2>1, <1>7, <1>1, <1>3
    <3> QED BY <3>1, <2>1, <1>4
  <2>2. CASE \E j \in 1..i : updates[j].reset = a
    <3>1. PICK j \in 1..i : updates[j].reset = a
      BY <2>2
    <3>2. CASE j = 1
      <4>1. a # 0 /\ r = a
        BY <3>1, <3>2, <1>1, <1>7 DEF r
      <4> QED BY <4>1, <1>4
    <3>3. CASE j # 1
      <4>1. j - 1 \in 1..i - 1 /\ j - 1 \in 1..n - 1 /\ (j - 1) + 1 = j
        BY <3>3, <1>1
      <4>2. updates'[j - 1].reset = a
        BY <4>1, <3>1, <1>2
      <4> QED BY <4>1, <4>2
    <3> QED BY <3>2, <3>3
  <2> QED BY <1>7, <2>1, <2>2
<1>8. account' = login' \/ \E j \in 1..n - 1 : updates'[j].reset = account'
  <2>1. account = login \/ \E j \in 1..n : updates[j].reset = account
    BY DEF ChannelAccounts, n
  <2>2. r <= account
    BY <1>1, <1>3, <1>5
  <2>3. n \in 1..n
    BY <1>1
  <2> QED BY <2>1, <2>2, <2>3, <1>1, <1>4, <1>7
<1>9. \A i \in 1..n - 1 : ResetFits(i)'
  <2> SUFFICES ASSUME NEW i \in 1..n - 1, updates'[i].reset # 0
               PROVE  /\ updates'[i].usage = NoUsage
                      /\ updates'[i].reset \in login' + 1..account
                      /\ \A j \in 1..n - 1 :
                           (i < j /\ updates'[j].reset # 0) => updates'[i].reset < updates'[j].reset
    BY <1>2, <1>4 DEF ResetFits, n
  <2>1. i + 1 \in 1..n /\ updates'[i] = updates[i + 1] /\ 1 < i + 1
    BY <1>1, <1>2
  <2>2. ResetFits(i + 1)
    BY <2>1, ChannelParts DEF n
  <2>3. /\ updates[i + 1].usage = NoUsage /\ updates[i + 1].reset \in login + 1..account
        /\ updates[i + 1].reset # 0
    BY <2>1, <2>2 DEF ResetFits
  <2>4. r # 0 => r < updates[i + 1].reset
    BY <2>1, <2>3, <1>5
  <2>5. updates[i + 1].reset \in login' + 1..account
    BY <2>3, <2>4, <1>1, <1>3, <1>4
  <2>6. ASSUME NEW j \in 1..n - 1, i < j, updates'[j].reset # 0
        PROVE  updates'[i].reset < updates'[j].reset
    <3>1. j + 1 \in 1..n /\ updates'[j] = updates[j + 1] /\ i + 1 < j + 1
      BY <1>1, <1>2, <2>6
    <3>2. j + 1 \in 1..Len(updates) /\ updates[j + 1].reset # 0
      BY <3>1, <2>6 DEF n
    <3>3. updates[i + 1].reset < updates[j + 1].reset
      BY <3>1, <3>2, <2>2, <2>3 DEF ResetFits
    <3>4. updates[i + 1].reset \in Nat /\ updates[j + 1].reset \in Nat
      BY <2>1, <3>1, <1>1
    <3>5. updates'[i].reset = updates[i + 1].reset /\ updates'[j].reset = updates[j + 1].reset
      BY <2>1, <3>1
    <3> QED BY <3>3, <3>4, <3>5
  <2>7. updates'[i].usage = NoUsage /\ updates'[i].reset \in login' + 1..account
    BY <2>1, <2>3, <2>5
  <2>8. \A j \in 1..n - 1 : (i < j /\ updates'[j].reset # 0) => updates'[i].reset < updates'[j].reset
    BY <2>6
  <2> QED BY <2>7, <2>8, Zenon
<1>10. \A i \in 1..n - 1 : ReportFits(i)'
  <2> SUFFICES ASSUME NEW i \in 1..n - 1, updates'[i].usage # NoUsage
               PROVE  /\ updates'[i].usage.account \in login'..account
                      /\ \A j \in 1..i : updates'[j].reset <= updates'[i].usage.account
                      /\ \/ updates'[i].usage.account = login'
                         \/ \E j \in 1..i : updates'[j].reset = updates'[i].usage.account
    BY <1>4 DEF ReportFits
  <2>1. i + 1 \in 1..n /\ updates'[i] = updates[i + 1] /\ (i + 1) - 1 = i
    BY <1>1, <1>2
  <2>2. PICK a : a = updates[i + 1].usage.account
    OBVIOUS
  <2>3. /\ a \in login..account
        /\ \A j \in 1..i + 1 : updates[j].reset <= a
        /\ a = login \/ \E j \in 1..i + 1 : updates[j].reset = a
    <3>1. ReportFits(i + 1)
      BY <2>1, ChannelParts DEF n
    <3> QED BY <3>1, <2>1, <2>2 DEF ReportFits
  <2>4. a \in Nat /\ login <= a /\ a <= account
    BY <2>3, <1>1
  <2>5. r <= a
    <3>1. 1 \in 1..i + 1
      BY <1>1
    <3> QED BY <3>1, <2>3 DEF r
  <2>6. a = login' \/ \E j \in 1..i : updates'[j].reset = a
    BY <2>1, <2>3, <2>4, <2>5, <1>7
  <2>7. a \in login'..account
    BY <2>4, <2>5, <1>1, <1>3, <1>4
  <2>8. \A j \in 1..i : updates'[j].reset <= a
    <3> SUFFICES ASSUME NEW j \in 1..i
                 PROVE  updates'[j].reset <= a
      OBVIOUS
    <3>1. j \in 1..n - 1 /\ j + 1 \in 1..i + 1
      BY <1>1
    <3>2. updates[j + 1].reset <= a /\ updates'[j] = updates[j + 1]
      BY <3>1, <2>3, <1>2
    <3> QED BY <3>2
  <2>9. updates'[i].usage.account = a
    BY <2>1, <2>2
  <2> QED BY <2>6, <2>7, <2>8, <2>9, Zenon
<1>11. usage' # NoUsage => usage'.account = account'
  BY <1>4 DEF ChannelAccounts
<1> QED BY <1>2, <1>4, <1>6, <1>8, <1>9, <1>10, <1>11 DEF ChannelAccounts, ResetFits, ReportFits

LEMMA ChannelNext ==
  ASSUME Types, TypeOK, ChannelAccounts, Next
  PROVE  ChannelAccounts'
<1>0. /\ updates \in Seq(Messages) /\ usage \in Usages /\ NoUsage \in Usages
      /\ account \in Nat /\ (usage # NoUsage => usage.account = account)
  BY NoUsageFields, Naturals DEF Types, ChannelAccounts
<1>1. CASE TokenNotification
  <2>1. IsNews(usage')
    BY <1>1, NotificationSends
  <2>2. PICK e : e = [usage |-> usage', healthy |-> TRUE, reset |-> 0]
    OBVIOUS
  <2>3. /\ updates' = Append(updates, e) /\ login' = login /\ account' = account
    BY <1>1, <2>2 DEF TokenNotification, Publish, Quiet, world
  <2>4. e \in Messages /\ e.reset = 0 /\ e.usage = usage'
    BY <2>1, <2>2 DEF Messages, Usages, IsNews
  <2>5. usage'.account = account
    BY <2>1 DEF IsNews
  <2> QED BY <2>3, <2>4, <2>5, ChannelSent
<1>2. CASE AccountUpdated
  <2>1. account' \in Nat
    BY <1>2, <1>0 DEF AccountUpdated
  <2>2. PICK e : e = [usage |-> NoUsage, healthy |-> TRUE, reset |-> account']
    OBVIOUS
  <2>3. /\ updates' = Append(updates, e) /\ login' = login /\ account' = account + 1
        /\ usage' = NoUsage
    BY <1>2, <2>2 DEF AccountUpdated, Publish, Quiet
  <2>4. e \in Messages /\ e.reset = account' /\ e.usage = NoUsage
    BY <2>1, <2>2, <1>0 DEF Messages
  <2> QED BY <2>3, <2>4, ChannelSent
<1>3. CASE OtherUpdate \/ Disconnect
  <2>1. PICK b \in BOOLEAN : updates' = Append(updates, [usage |-> usage, healthy |-> b, reset |-> 0])
    BY <1>3 DEF OtherUpdate, Disconnect, Publish
  <2>2. PICK e : e = [usage |-> usage, healthy |-> b, reset |-> 0]
    OBVIOUS
  <2>3. login' = login /\ account' = account /\ usage' = usage
    BY <1>3 DEF OtherUpdate, Disconnect, Quiet, world, session
  <2>4. e \in Messages /\ e.reset = 0 /\ e.usage = usage
    BY <2>2, <1>0 DEF Messages
  <2> QED BY <2>1, <2>2, <2>3, <2>4, <1>0, ChannelSent
<1>4. CASE Connect
  <2>1. UNCHANGED <<updates, login, account>> /\ usage' = NoUsage
    BY <1>4 DEF Connect, Quiet, world
  <2> QED BY <2>1 DEF ChannelAccounts
<1>5. CASE Apply
  BY <1>5, ChannelTaken
<1>6. CASE Finish \/ Tick \/ PollSqlite \/ PollLog
  <2>1. UNCHANGED <<updates, login, account, usage>>
    BY <1>6 DEF Finish, Tick, PollSqlite, PollLog, world, session
  <2> QED BY <2>1 DEF ChannelAccounts
<1> QED BY <1>1, <1>2, <1>3, <1>4, <1>5, <1>6 DEF Next

(* Only a message that is applied touches the popups. *)
LEMMA PopupsNext ==
  ASSUME Types, TypeOK, Dated, Ordered, ChannelAccounts, BaselinePerAccount, PoppedBelow,
         TotalsPopUpOnce, Next
  PROVE  /\ BaselinePerAccount' /\ PoppedBelow' /\ TotalsPopUpOnce'
         /\ tracker' \in Usages /\ popped' \in Seq(Nat) /\ login' \in Nat \ {0}
<1>0. tracker \in Usages /\ popped \in Seq(Nat) /\ login \in Nat \ {0} /\ NoUsage \in Usages
  BY NoUsageFields DEF Types
<1>1. CASE ~Apply
  <2>1. UNCHANGED <<tracker, popped, login>>
    BY <1>1 DEF Next, Finish, Tick, TokenNotification, OtherUpdate, AccountUpdated, Disconnect, Connect,
                PollSqlite, PollLog, Quiet
  <2> QED BY <2>1, <1>0 DEF BaselinePerAccount, PoppedBelow, TotalsPopUpOnce
<1>2. CASE Apply
  <2>1. login' = IF First.reset # 0 THEN First.reset ELSE login
    BY <1>2 DEF Apply, First
  <2>2. First.reset \in Nat /\ First.usage \in Usages /\ First.usage \in Held /\ tracker \in Held
    BY <1>2, FirstFacts DEF Held
  <2>3. login' \in Nat \ {0}
    BY <2>1, <2>2, <1>0
  <2>4. CASE First.reset # 0
    <3>1. tracker' = NoUsage /\ popped' = <<>>
      BY <1>2, <2>4, ApplyPopups
    <3>2. popped' \in Seq(Nat) /\ Len(popped') = 0
      BY <3>1
    <3> QED BY <3>1, <3>2, <2>3, <1>0 DEF BaselinePerAccount, PoppedBelow, TotalsPopUpOnce
  <2>5. CASE First.reset = 0
    <3>1. login' = login
      BY <2>1, <2>5
    <3>2. CASE tracker' = tracker /\ popped' = popped
      BY <3>1, <3>2, <1>0 DEF BaselinePerAccount, PoppedBelow, TotalsPopUpOnce
    <3>3. CASE /\ First.usage # NoUsage /\ tracker' = First.usage
               /\ \/ tracker = NoUsage /\ popped' = popped
                  \/ /\ tracker # NoUsage /\ First.usage.observed > tracker.observed
                     /\ \/ popped' = popped
                        \/ /\ First.usage.current > tracker.current
                           /\ popped' = Append(popped, First.usage.current)
      <4>1. /\ First.usage.current \in Nat /\ First.usage.observed \in Nat
            /\ First.usage.account \in Nat
        BY <3>3, <2>2, ReportFields
      <4>2. First.usage.account = login
        <5>1. First = updates[1] /\ 1 \in 1..Len(updates)
          BY <1>2, FirstFacts
        <5>2. ReportFits(1)
          BY <5>1, ChannelParts
        <5>3. \/ First.usage.account = login
              \/ \E j \in 1..1 : updates[j].reset = First.usage.account
          BY <5>1, <5>2, <3>3 DEF ReportFits
        <5>4. First.usage.account \in login..account
          BY <5>1, <5>2, <3>3 DEF ReportFits
        <5>5. First.usage.account # 0
          BY <5>4, <1>0, Naturals
        <5>6. \A j \in 1..1 : updates[j].reset = 0
          BY <5>1, <2>5
        <5> QED BY <5>3, <5>5, <5>6
      <4>3. BaselinePerAccount'
        BY <3>1, <3>3, <4>2 DEF BaselinePerAccount
      <4>4. CASE tracker = NoUsage /\ popped' = popped
        <5>1. popped = <<>>
          BY <4>4 DEF PoppedBelow
        <5>2. popped' = <<>> /\ Len(popped') = 0
          BY <5>1, <4>4
        <5> QED BY <5>2, <4>3, <3>3, <2>2, <2>3 DEF PoppedBelow, TotalsPopUpOnce
      <4>5. CASE tracker # NoUsage /\ First.usage.observed > tracker.observed
        <5>1. tracker.current \in Nat /\ tracker.observed \in Nat /\ tracker.account = login
          BY <4>5, <1>0, ReportFields DEF BaselinePerAccount
        <5>2. tracker.current <= First.usage.current
          <6>1. InOrder(tracker, First.usage)
            BY <2>2 DEF Ordered
          <6>2. tracker.observed <= First.usage.observed
            BY <4>5, <4>1, <5>1
          <6> QED BY <6>1, <6>2, <4>5, <3>3, <4>2, <5>1 DEF InOrder
        <5>3. Len(popped) \in Nat /\ \A i \in 1..Len(popped) : popped[i] \in Nat /\ popped[i] <= tracker.current
          BY <1>0 DEF PoppedBelow
        <5>4. CASE popped' = popped
          <6>1. \A i \in 1..Len(popped) : popped[i] <= First.usage.current
            BY <5>1, <5>2, <5>3, <4>1
          <6> QED BY <6>1, <5>4, <4>3, <3>3, <2>2, <2>3, <1>0 DEF PoppedBelow, TotalsPopUpOnce
        <5>5. CASE First.usage.current > tracker.current /\ popped' = Append(popped, First.usage.current)
          <6>1. /\ popped' \in Seq(Nat) /\ Len(popped') = Len(popped) + 1
                /\ \A i \in 1..Len(popped) : popped'[i] = popped[i]
                /\ popped'[Len(popped) + 1] = First.usage.current
            BY <5>5, <4>1, <1>0
          <6>2. \A i \in 1..Len(popped) : popped'[i] \in Nat /\ popped'[i] < First.usage.current
            BY <6>1, <5>1, <5>3, <5>5, <4>1
          <6>3. \A i \in 1..Len(popped') : popped'[i] <= First.usage.current
            BY <6>1, <6>2, <5>3, <4>1
          <6>4. \A i \in 1..Len(popped') - 1 : popped'[i] < popped'[i + 1]
            <7> SUFFICES ASSUME NEW i \in 1..Len(popped)
                         PROVE  popped'[i] < popped'[i + 1]
              BY <6>1, <5>3
            <7>1. CASE i = Len(popped)
              BY <7>1, <6>1, <6>2
            <7>2. CASE i # Len(popped)
              <8>1. i \in 1..Len(popped) - 1 /\ i + 1 \in 1..Len(popped)
                BY <7>2, <5>3
              <8>2. popped[i] < popped[i + 1]
                BY <8>1 DEF TotalsPopUpOnce
              <8> QED BY <8>1, <8>2, <6>1
            <7> QED BY <7>1, <7>2
          <6>5. PoppedBelow'
            BY <6>3, <3>3 DEF PoppedBelow
          <6> QED BY <6>1, <6>4, <6>5, <4>3, <3>3, <2>2, <2>3 DEF TotalsPopUpOnce
        <5> QED BY <3>3, <4>5, <5>4, <5>5
      <4> QED BY <3>3, <4>4, <4>5
    <3> QED BY <1>2, <2>5, <3>2, <3>3, ApplyPopups
  <2> QED BY <2>4, <2>5
<1> QED BY <1>1, <1>2

-----------------------------------------------------------------------------
(* 7. Types, the initial state, the theorems. *)

LEMMA TypesInit == Init => TokensInv
<1> SUFFICES ASSUME Init PROVE TokensInv
  OBVIOUS
<1>1. Types
  <2>1. NoUsage \in Usages /\ NoTokens \in Cards
    BY NoUsageFields DEF NoTokens, Cards, Sources
  <2>2. updates \in Seq(Messages) /\ popped \in Seq(Nat) /\ login \in Nat \ {0}
    BY DEF Init
  <2>3. usage = NoUsage /\ tracker = NoUsage /\ tokens = NoTokens
    BY DEF Init
  <2>4. healthy \in BOOLEAN /\ bootstrapped \in BOOLEAN /\ authoritative \in BOOLEAN
    BY DEF Init
  <2> QED BY <2>1, <2>2, <2>3, <2>4 DEF Types
<1>2. TypeOK
  <2>1. clock \in 1..MaxTime /\ turns \in 0..(MaxTurns + 1) /\ spent \in 0..turns /\ account \in 1..MaxAccounts
    BY TokensAssumption DEF Init
  <2>2. tokens = NoTokens /\ tokens.observed = 0 /\ 0 \in 0..clock
    BY <2>1 DEF Init, NoTokens
  <2>3. logRead \in 0..turns /\ counter \in -1..turns
    BY <2>1, TokensAssumption DEF Init, None
  <2> QED BY <2>1, <2>2, <2>3 DEF Init, TypeOK, NoTokens, Sources
<1>3. Held = {NoUsage} /\ updates = <<>> /\ Len(updates) = 0
  BY DEF Init, Held
<1>4. Dated /\ Ordered /\ CardIsNewest
  BY <1>3 DEF Init, Dated, IsDated, Ordered, InOrder, CardIsNewest, MayReplace, NoTokens
<1>5. ChannelAccounts
  BY <1>3 DEF Init, ChannelAccounts
<1>6. BaselinePerAccount /\ PoppedBelow /\ TotalsPopUpOnce
  BY DEF Init, BaselinePerAccount, PoppedBelow, TotalsPopUpOnce
<1> QED BY <1>1, <1>2, <1>4, <1>5, <1>6 DEF TokensInv

(* The world and the counters. *)
LEMMA WorldTyped ==
  ASSUME Types, TypeOK, Next
  PROVE  /\ clock' \in 1..MaxTime /\ turns' \in 0..(MaxTurns + 1) /\ spent' \in 0..turns'
         /\ account' \in 1..MaxAccounts /\ link' \in {"up", "down"}
         /\ logRead' \in 0..turns' /\ counter' \in -1..turns' /\ counted' \in Nat
         /\ healthy' \in BOOLEAN /\ bootstrapped' \in BOOLEAN /\ authoritative' \in BOOLEAN
<1>0. /\ clock \in 1..MaxTime /\ turns \in 0..(MaxTurns + 1) /\ spent \in 0..turns
      /\ account \in 1..MaxAccounts /\ logRead \in 0..turns /\ counter \in -1..turns /\ counted \in Nat
      /\ MaxTime \in Nat /\ MaxTurns \in Nat /\ MaxAccounts \in Nat
  BY TokensAssumption DEF TypeOK
<1>1. CASE Finish \/ Tick
  <2>1. UNCHANGED <<account, link, logRead, counter, counted, healthy, bootstrapped, authoritative>>
    BY <1>1 DEF Finish, Tick, session, locals
  <2>2. /\ clock < MaxTime /\ clock' = clock + 1
        /\ \/ turns' = turns /\ spent' = spent
           \/ turns < MaxTurns /\ turns' = turns + 1 /\ spent' = spent + 1
    BY <1>1 DEF Finish, Tick
  <2>3. /\ clock' \in 1..MaxTime /\ turns' \in 0..(MaxTurns + 1) /\ spent' \in 0..turns'
        /\ logRead \in 0..turns' /\ counter \in -1..turns'
    BY <2>2, <1>0
  <2> QED BY <2>1, <2>3, <1>0 DEF TypeOK, Types
<1>2. CASE TokenNotification \/ OtherUpdate \/ Disconnect \/ Connect
  <2>1. UNCHANGED <<clock, turns, account, spent, logRead, counter, counted, healthy, bootstrapped, authoritative>>
    BY <1>2 DEF TokenNotification, OtherUpdate, Disconnect, Connect, world, locals, Quiet
  <2>2. link' \in {"up", "down"}
    BY <1>2 DEF TokenNotification, OtherUpdate, Disconnect, Connect, session, TypeOK
  <2> QED BY <2>1, <2>2 DEF TypeOK, Types
<1>3. CASE AccountUpdated
  <2>1. UNCHANGED <<clock, turns, link, logRead, counter, counted, healthy, bootstrapped, authoritative>>
    BY <1>3 DEF AccountUpdated, locals, Quiet
  <2>2. account < MaxAccounts /\ account' = account + 1 /\ spent' = 0
    BY <1>3 DEF AccountUpdated
  <2>3. account' \in 1..MaxAccounts /\ spent' \in 0..turns
    BY <2>2, <1>0
  <2> QED BY <2>1, <2>3 DEF TypeOK, Types
<1>4. CASE Apply
  <2>1. UNCHANGED <<clock, turns, account, spent, link, logRead, counter, counted, bootstrapped, authoritative>>
    BY <1>4 DEF Apply, world, session, locals
  <2>2. healthy' \in BOOLEAN
    <3>1. Head(updates) \in Messages
      BY <1>4, TailFacts DEF Apply, Types
    <3> QED BY <1>4, <3>1 DEF Apply, Messages
  <2> QED BY <2>1, <2>2 DEF TypeOK, Types
<1>5. CASE PollSqlite
  <2>1. UNCHANGED <<clock, turns, account, spent, link, logRead, healthy, bootstrapped, authoritative>>
    BY <1>5 DEF PollSqlite, world, session
  <2>2. \/ counted' = counted /\ counter' = counter
        \/ counted' = counted + NewTokens /\ counter' = turns
    BY <1>5 DEF PollSqlite
  <2>3. NewTokens \in Nat
    BY <1>0 DEF NewTokens, None
  <2>4. counted' \in Nat /\ counter' \in -1..turns
    BY <2>2, <2>3, <1>0
  <2> QED BY <2>1, <2>4 DEF TypeOK, Types
<1>6. CASE PollLog
  <2>1. UNCHANGED <<clock, turns, account, spent, link, healthy, counter>>
    BY <1>6 DEF PollLog, world, session
  <2>2. counted' \in Nat
    BY <1>6, PollLogCard
  <2>3. bootstrapped' \in BOOLEAN /\ authoritative' \in BOOLEAN
    BY <1>6 DEF PollLog, Types
  <2>4. logRead' \in 0..turns
    <3>1. logRead' = turns
      BY <1>6 DEF PollLog
    <3> QED BY <3>1, <1>0
  <2> QED BY <2>1, <2>2, <2>3, <2>4 DEF TypeOK, Types
<1> QED BY <1>1, <1>2, <1>3, <1>4, <1>5, <1>6 DEF Next

(* Where the reports are. *)
LEMMA ReportsTyped ==
  ASSUME Types, TypeOK, ChannelAccounts, Next
  PROVE  updates' \in Seq(Messages) /\ usage' \in Usages
<1>1. CASE TokenNotification
  <2>1. IsNews(usage') /\ Sends(usage')
    BY <1>1, NotificationSends
  <2>2. usage' \in Usages /\ tracker' = tracker
    BY <1>1, <2>1 DEF IsNews, Usages, TokenNotification, Quiet
  <2> QED BY <2>1, <2>2, SendHeld
<1>2. CASE OtherUpdate \/ AccountUpdated \/ Disconnect \/ Connect
  BY <1>2, SessionHeld
<1>3. CASE Apply
  <2>1. usage' = usage
    BY <1>3 DEF Apply, session
  <2> QED BY <1>3, <2>1, ApplyHeld DEF Types
<1>4. CASE Finish \/ Tick \/ PollSqlite \/ PollLog
  <2>1. UNCHANGED <<updates, usage>>
    BY <1>4 DEF Finish, Tick, PollSqlite, PollLog, session
  <2> QED BY <2>1 DEF Types
<1> QED BY <1>1, <1>2, <1>3, <1>4 DEF Next

LEMMA InvNext ==
  ASSUME TokensInv, Next
  PROVE  TokensInv' /\ NewestKept /\ LogTurnKept
<1>0. /\ TypeOK /\ Types /\ Dated /\ Ordered /\ CardIsNewest
      /\ ChannelAccounts /\ BaselinePerAccount /\ PoppedBelow /\ TotalsPopUpOnce
  BY DEF TokensInv
<1>1. Dated' /\ Ordered'
  BY <1>0, DatedNext
<1>2. tokens' \in Cards /\ CardTyped' /\ CardIsNewest' /\ NewestKept /\ LogTurnKept
  BY <1>0, CardNext
<1>3. ChannelAccounts'
  BY <1>0, ChannelNext
<1>4. /\ BaselinePerAccount' /\ PoppedBelow' /\ TotalsPopUpOnce'
      /\ tracker' \in Usages /\ popped' \in Seq(Nat) /\ login' \in Nat \ {0}
  BY <1>0, PopupsNext
<1>5. /\ clock' \in 1..MaxTime /\ turns' \in 0..(MaxTurns + 1) /\ spent' \in 0..turns'
      /\ account' \in 1..MaxAccounts /\ link' \in {"up", "down"}
      /\ logRead' \in 0..turns' /\ counter' \in -1..turns' /\ counted' \in Nat
      /\ healthy' \in BOOLEAN /\ bootstrapped' \in BOOLEAN /\ authoritative' \in BOOLEAN
  BY <1>0, WorldTyped
<1>6. updates' \in Seq(Messages) /\ usage' \in Usages
  BY <1>0, ReportsTyped
<1>7. Types'
  BY <1>2, <1>4, <1>5, <1>6 DEF Types
<1>8. TypeOK'
  <2>1. /\ tokens'.current \in Nat \cup {None} /\ tokens'.today \in Nat \cup {None}
        /\ {tokens'.source, tokens'.lastSource, tokens'.todaySource} \subseteq Sources
    BY <1>2, CardFields
  <2> QED BY <2>1, <1>2, <1>5 DEF TypeOK, CardTyped
<1> QED BY <1>1, <1>2, <1>3, <1>4, <1>7, <1>8 DEF TokensInv

LEMMA InvStutters ==
  ASSUME TokensInv, UNCHANGED vars
  PROVE  TokensInv' /\ NewestKept /\ LogTurnKept
<1>1. /\ UNCHANGED <<clock, turns, account, spent, link, usage, updates>>
      /\ UNCHANGED <<tokens, healthy, tracker, login, popped>>
      /\ UNCHANGED <<bootstrapped, logRead, authoritative, counted, counter>>
  BY DEF vars, world, session, locals
<1>2. Held' = Held
  BY <1>1 DEF Held
<1>3. Types' /\ TypeOK'
  BY <1>1 DEF TokensInv, Types, TypeOK
<1>4. Dated' /\ Ordered' /\ CardIsNewest'
  BY <1>1, <1>2 DEF TokensInv, Dated, IsDated, Ordered, InOrder, CardIsNewest, MayReplace
<1>5. ChannelAccounts' /\ BaselinePerAccount' /\ PoppedBelow' /\ TotalsPopUpOnce'
  BY <1>1 DEF TokensInv, ChannelAccounts, BaselinePerAccount, PoppedBelow, TotalsPopUpOnce
<1>6. NewestKept /\ LogTurnKept
  <2>1. tokens.last \in Int
    BY CardFields DEF TokensInv, Types
  <2>2. tokens.last >= tokens.last
    BY <2>1
  <2> QED BY <1>1, <2>2 DEF TokensInv, CardIsNewest, NewestKept, LogTurnKept
<1> QED BY <1>3, <1>4, <1>5, <1>6 DEF TokensInv

(* The invariant is inductive. *)
THEOREM Invariant == Spec => []TokensInv
<1>1. TokensInv /\ [Next]_vars => TokensInv'
  BY InvNext, InvStutters
<1> QED BY TypesInit, <1>1, PTL DEF Spec

(* For any number of turns, logins and milliseconds, with a channel of any   *)
(* length and the three sources in any order: a total of tokens pops up once *)
(* and is never measured against another account's                           *)
(* (official_runtime.rs:66-72, 109-137, 437-440).                            *)
THEOREM PopupsSound == Spec => []PopupsAreOfAccount
<1>1. TokensInv => PopupsAreOfAccount
  BY DEF TokensInv, PopupsAreOfAccount
<1> QED BY Invariant, <1>1, PTL

(* No source, however late it reports, replaces the last turn on the card by *)
(* an earlier one (monitor.rs:108-127).                                      *)
THEOREM LastTurnStaysNewest == Spec => LastTurnNewest
<1>1. TokensInv /\ [Next]_vars => [tokens'.last # None => tokens'.last >= tokens.last]_vars
  BY InvNext, InvStutters DEF NewestKept
<1> QED BY Invariant, <1>1, PTL DEF Spec, LastTurnNewest

(* A turn read from the session log is taken away only by an account reset   *)
(* or an App Server report with a turn of its own (usage.rs:97-109).         *)
THEOREM LogTurnOutlives == Spec => LogTurnStays
<1>1. TokensInv /\ [Next]_vars =>
        [(tokens.lastSource = "sessionLog" /\ tokens'.last = None /\ tokens' # NoTokens)
           => (updates # <<>> /\ Head(updates).usage.last # None)]_vars
  BY InvNext, InvStutters DEF LogTurnKept
<1> QED BY Invariant, <1>1, PTL DEF Spec, LogTurnStays
=============================================================================
