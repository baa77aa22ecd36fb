---------------------------- MODULE Presentation ----------------------------
(***************************************************************************)
(* What the monitor's state looks like on the screen                       *)
(* (codex-taskbar/src/lib.rs, application/src/ui_snapshot.rs,              *)
(* platform-windows/src/render_model.rs and host.rs).  Two surfaces show   *)
(* the same state: the native one, from lib.rs, and the WebView, from the  *)
(* TaskbarSnapshot.                                                        *)
(*                                                                         *)
(* An optional value is a set with at most one element.  A label is the    *)
(* figure in it with the case that chose its wording; pixels and colours   *)
(* are left out.                                                           *)
(***************************************************************************)
EXTENDS Integers, Sequences, FiniteSets, SequencesExt, FiniteSetsExt

Value(option) == CHOOSE x \in option : TRUE
ValueOr(option, default) == IF option = {} THEN default ELSE Value(option)

-----------------------------------------------------------------------------
(* Quota windows: [presence, fresh, value, lastKnown], values in percent.    *)

IsTaskbarVisible(window) == window.presence = "Present" /\ window.fresh /\ window.value # {}

\* quota_metric_card: no card for an absent window, a neutral one for an old figure.
QuotaMetricCard(window) ==
  LET shown == IF window.value # {} THEN window.value ELSE window.lastKnown
      live == window.fresh /\ window.value # {}
      remaining == ValueOr(shown, 100)
      tone == IF ~live THEN "Neutral" ELSE IF remaining <= 10 THEN "Critical"
              ELSE IF remaining <= 25 THEN "Warning" ELSE "Positive"
  IN  IF window.presence = "Absent" THEN {}
      ELSE {[remaining |-> shown, cached |-> ~live, tone |-> tone]}

\* quota_summary, quota_inline_summary.
QuotaSummary(window) ==
  IF window.presence = "Absent" THEN [kind |-> "absent", percent |-> {}]
  ELSE IF IsTaskbarVisible(window) THEN [kind |-> "live", percent |-> window.value]
  ELSE IF window.lastKnown # {} THEN [kind |-> "last", percent |-> window.lastKnown]
  ELSE [kind |-> "unknown", percent |-> {}]

\* Mutant: the old figure moves the waves.
HostQuotaLastKnown(state) ==
  [weekly |-> state.weekly.lastKnown, fiveHour |-> state.fiveHour.lastKnown,
   innerRing |-> state.fiveHour.presence = "Present"]

\* taskbar_host_model, quota_rings_model, fluid_quota_model: the two waves, and
\* whether there is a second ring.
HostQuota(state) ==
  LET Known(window) == IF IsTaskbarVisible(window) THEN window.value ELSE {}
  IN  [weekly |-> Known(state.weekly), fiveHour |-> Known(state.fiveHour),
       innerRing |-> IsTaskbarVisible(state.fiveHour)]

Exhausted(window) == IsTaskbarVisible(window) /\ \E p \in window.value : p <= 0

\* should_show_official_credits.
ShouldShowOfficialCredits(state) ==
  /\ \E c \in state.credits : c.has /\ ~c.unlimited /\ c.balance # {}
  /\ CASE state.fiveHour.presence = "Present" -> Exhausted(state.fiveHour)
       [] state.fiveHour.presence = "Absent" -> Exhausted(state.weekly)
       [] OTHER -> FALSE

\* credits_snapshot, visible_in_taskbar.
CreditsVisibleInTaskbar(state) ==
  /\ \E c \in state.credits : c.has /\ ~c.unlimited /\ c.balance # {}
  /\ \/ Exhausted(state.fiveHour)
     \/ state.fiveHour.presence = "Absent" /\ Exhausted(state.weekly)

-----------------------------------------------------------------------------
(* Tokens: counts have the optional input, cached, cacheWrite, output, total. *)

\* display_total: the sum if it is known, for an old total may count the cache twice.
DisplayTotal(counts) ==
  IF counts.input # {} /\ counts.output # {} THEN {Value(counts.input) + Value(counts.output)}
  ELSE counts.total

ReliableCurrent(usage) == IF usage.fresh THEN usage.currentThread ELSE {}
ReliableLastTurn(usage) ==
  IF usage.fresh \/ usage.lastTurnSource = "SessionLogFallback" THEN usage.lastTurn ELSE {}
ReliableToday(usage) ==
  IF \/ usage.todaySource = "AppServer" /\ usage.fresh
     \/ usage.todaySource = "SqliteFallback"
  THEN usage.today ELSE {}

\* token_chart_segments: the cached input is taken out of the input.
TokenChartSegments(counts) ==
  LET input == ValueOr(counts.input, 0)
      cached == Min({ValueOr(counts.cached, 0), input})
      segments == <<input - cached, cached, ValueOr(counts.output, 0)>>
  IN  SelectSeq(segments, LAMBDA value : value > 0)

\* cache_hit_percent of ui_snapshot.rs: rounded down, at most 100.
CacheHitPercent(counts) ==
  IF counts.input = {} \/ counts.cached = {} \/ ValueOr(counts.input, 0) = 0 THEN {}
  ELSE {Min({(Value(counts.cached) * 100) \div Value(counts.input), 100})}

\* cache_hit_percent_label of lib.rs: to the nearest, a missing cached count is zero.
CacheHitLabel(counts) ==
  LET input == ValueOr(counts.input, 0)
      cached == Min({ValueOr(counts.cached, 0), input})
  IN  IF input = 0 THEN {} ELSE {(cached * 200 + input) \div (2 * input)}

\* official_host_details: the parts of the card about today.
TodayCard(state) ==
  LET known == ReliableToday(state.usage)
  IN  [hero |-> UNION {DisplayTotal(c) : c \in known}, rows |-> known,
       chart |-> UNION {ToSet(TokenChartSegments(c)) : c \in known},
       hit |-> UNION {CacheHitLabel(c) : c \in known}]

\* token_popup_rows: the strip drawn by the native window.
TokenPopupRows(state) ==
  LET turn == ReliableLastTurn(state.usage)
  IN  [input |-> UNION {c.input : c \in turn}, cached |-> UNION {c.cached : c \in turn},
       output |-> UNION {c.output : c \in turn}, hit |-> UNION {CacheHitLabel(c) : c \in turn}]

\* ConsumptionPopupSnapshot: the same strip, drawn by the page; only of fresh usage.
ConsumptionPopup(state) ==
  LET turn == IF state.usage.fresh THEN state.usage.lastTurn ELSE {}
  IN  [input |-> UNION {c.input : c \in turn}, cached |-> UNION {c.cached : c \in turn},
       output |-> UNION {c.output : c \in turn}, hit |-> UNION {CacheHitPercent(c) : c \in turn}]

\* official_api_equivalent_cost_micro_usd: every input token has one rate.
InputParts(counts) ==
  LET input == Value(counts.input)
      cached == Min({Value(counts.cached), input})
      write == Min({ValueOr(counts.cacheWrite, 0), input - cached})
  IN  [uncached |-> input - cached - write, cached |-> cached, write |-> write]

(* official_api_pricing: micro-dollars for a million tokens, and the length   *)
(* of input above which input costs twice and output one and a half times.   *)
OfficialApiPricing(model) ==
  LET Price(input, cached, write, output, long) ==
        {[input |-> input, cached |-> cached, write |-> write, output |-> output, longContext |-> long]}
  IN  CASE model = "gpt-5" -> Price(1250000, 125000, {}, 10000000, {})
        [] model = "gpt-5-mini" -> Price(250000, 25000, {}, 2000000, {})
        [] model = "gpt-5-nano" -> Price(50000, 5000, {}, 400000, {})
        [] model \in {"gpt-5.2", "gpt-5.3-codex"} -> Price(1750000, 175000, {}, 14000000, {})
        [] model = "gpt-5.4" -> Price(2500000, 250000, {}, 15000000, {272000})
        [] model = "gpt-5.4-mini" -> Price(750000, 75000, {}, 4500000, {})
        [] model = "gpt-5.5" -> Price(5000000, 500000, {}, 30000000, {272000})
        [] model = "gpt-5.6-sol" -> Price(4000000, 400000, {5000000}, 20000000, {272000})
        [] model = "gpt-5.6-terra" -> Price(2000000, 200000, {2500000}, 12000000, {272000})
        [] model = "gpt-5.6-luna" -> Price(200000, 20000, {250000}, 1200000, {272000})
        [] OTHER -> {}

ApiEquivalentCost(counts, price) ==
  LET parts == InputParts(counts)
      long == \E limit \in price.longContext : Value(counts.input) > limit
      inputCost == (parts.uncached * price.input + parts.cached * price.cached
                    + parts.write * ValueOr(price.write, price.input)) * (IF long THEN 2 ELSE 1)
      outputCost == (Value(counts.output) * price.output * (IF long THEN 3 ELSE 2)) \div 2
  IN  IF counts.input = {} \/ counts.cached = {} \/ counts.output = {} THEN {}
      ELSE {(inputCost + outputCost) \div 1000000}

-----------------------------------------------------------------------------
(* Labels *)

(* format_compact_number: a whole part, tenths and a suffix.                 *)
CompactScaled(value, unit, suffix) ==
  LET tenths == ((value % unit) * 10 + unit \div 2) \div unit
      carry == tenths >= 10
  IN  [major |-> value \div unit + (IF carry THEN 1 ELSE 0),
       tenths |-> IF carry THEN 0 ELSE tenths, suffix |-> suffix]

CompactNumber(value) ==
  CASE value >= 1000000 -> CompactScaled(value, 1000000, "M")
    [] value >= 999500 -> [major |-> 1, tenths |-> 0, suffix |-> "M"]
    [] value >= 1000 -> CompactScaled(value, 1000, "K")
    [] OTHER -> [major |-> value, tenths |-> 0, suffix |-> ""]

\* relative_time_label: minutes, hours or days, rounded up.
RelativeTime(remaining) ==
  LET Up(unit) == (remaining + unit - 1) \div unit
  IN  CASE remaining <= 0 -> [count |-> 0, unit |-> 0]
        [] remaining < 3600 -> [count |-> Up(60), unit |-> 60]
        [] remaining < 86400 -> [count |-> Up(3600), unit |-> 3600]
        [] OTHER -> [count |-> Up(86400), unit |-> 86400]

\* reset_credits_label: one line a card, the expiry times in order.
ResetCards(reset) ==
  LET times == SetToSortSeq(IF reset.expiries = <<>> THEN reset.nearest ELSE ToSet(reset.expiries), <)
  IN  [i \in 1..reset.available |-> IF i \in DOMAIN times THEN {times[i]} ELSE {}]

-----------------------------------------------------------------------------
(* The chart and the cost of the card, from the local ledger's days.         *)

(* apply_local_history_to_details: today's hours up to this one if there is   *)
(* anything in them, else the days; the official cost is kept if there is one *)
(* but the footer speaks of the local estimate.  trend_series, the same      *)
(* points with the cost of each hour for the native chart, is left out.      *)
LocalHistory(ledger, hour, official) ==
  LET today == SubSeq(ledger.hours, 1, Min({hour, 23}) + 1)
      total == FoldLeft(LAMBDA sum, tokens : sum + tokens, 0, ledger.days)
      hourly == \E i \in DOMAIN today : today[i] > 0
  IN  [title |-> IF hourly THEN "today" ELSE IF total > 0 THEN "history" ELSE "none",
       points |-> IF hourly THEN today ELSE IF total > 0 THEN ledger.days ELSE <<>>,
       history |-> IF total > 0 THEN {total} ELSE {},
       cost |-> IF official # {} THEN official ELSE ledger.cost,
       costRow |-> ledger.cost,
       footer |-> IF ledger.cost # {} THEN "equivalent" ELSE "official"]

-----------------------------------------------------------------------------
(* Display items: [kind, visible, order, width, priority] as configured.     *)

\* ordered_visible_items: by order, and by place in the file for equal ones.
OrderedVisibleItems(items) ==
  LET visible == {i \in DOMAIN items : items[i].visible}
      Before(i, j) == items[i].order < items[j].order \/ (items[i].order = items[j].order /\ i < j)
      places == SetToSortSeq(visible, Before)
  IN  [n \in DOMAIN places |-> items[places[n]]]

TotalWidth(items) == FoldLeft(LAMBDA sum, item : sum + item.width, 0, items)

(* fitted_display_items, of the visible items that have something to show:   *)
(* the least wanted one goes, the last of equal ones, until the rest fits or *)
(* is a single one.                                                          *)
FittedDisplayItems(items, budget) ==
  LET Drop(rest, n) ==
        IF Len(rest) <= 1 \/ TotalWidth(rest) <= Max({budget, 1}) THEN rest
        ELSE LET Goes(i, j) == rest[i].priority < rest[j].priority
                               \/ (rest[i].priority = rest[j].priority /\ i >= j)
             IN  RemoveAt(rest, CHOOSE i \in DOMAIN rest : \A j \in DOMAIN rest : Goes(i, j))
  IN  FoldLeft(Drop, items, items)

\* summary_item: what an item needs to have something to show.
HasSummary(kind, state) ==
  LET current == ReliableCurrent(state.usage) IN
  CASE kind \in {"ActivityLight", "QuotaRings"} -> TRUE
    [] kind = "ResetCountdown" -> state.fiveHour.presence = "Present" /\ state.fiveHour.value # {}
    [] kind = "CurrentThreadTokens" -> \E c \in state.usage.currentThread : DisplayTotal(c) # {}
    [] kind = "TodayTokens" -> \E c \in ReliableToday(state.usage) : DisplayTotal(c) # {}
    [] kind = "InputTokens" -> \E c \in current : c.input # {}
    [] kind = "OutputTokens" -> \E c \in current : c.output # {}
    [] kind = "CacheHitRate" -> \E c \in current : c.cached # {} /\ ValueOr(c.input, 0) > 0
    [] OTHER -> state.usage.fresh \/ state.weekly.fresh \/ state.fiveHour.fresh

SelectedItems(items, state, budget) ==
  FittedDisplayItems(SelectSeq(OrderedVisibleItems(items), LAMBDA item : HasSummary(item.kind, state)),
                     budget)

(* build_summary_lines and summary_lines: the figures on the strip.  Without  *)
(* any line the drawing code writes the placeholders of both.                *)
StripLines(items, state, budget) ==
  LET kinds == {item.kind : item \in ToSet(SelectedItems(items, state, budget))}
      Figures(kind, figure) == IF kind \in kinds THEN figure ELSE {}
  IN  [today |-> Figures("TodayTokens", UNION {DisplayTotal(c) : c \in ReliableToday(state.usage)}),
       cache |-> Figures("CacheHitRate", ReliableCurrent(state.usage)),
       credits |-> ShouldShowOfficialCredits(state)]

-----------------------------------------------------------------------------
(* parse_run_mode: unknown arguments and two different modes are errors, -h  *)
(* is --help.                                                                *)
Modes == {"--check-config", "--probe-plan", "--visual-preview", "--visual-preview-idle",
          "--visual-preview-weekly-only", "--visual-preview-weekly-credits",
          "--visual-preview-details-weekly-only", "--visual-preview-details-weekly-credits",
          "--visual-preview-details", "--visual-preview-strip", "--webview-preview",
          "--settings-preview", "--help"}

Named(arg) == IF arg = "-h" THEN "--help" ELSE arg

RunMode(args) ==
  LET Step(mode, arg) ==
        IF Named(arg) \in Modes /\ mode \in {"run", Named(arg)}
          THEN Named(arg) ELSE "error"
  IN  FoldLeft(Step, "run", args)

-----------------------------------------------------------------------------
(* What must hold of every input, checked in module MCDecisions.             *)

(* A figure looks live only if the window is present and fresh, and then it  *)
(* is the same one in the waves, on the card and in the text; an old figure  *)
(* is marked as old wherever it appears (lib.rs:729-752, 1003-1061,          *)
(* 1111-1163, quota.rs of domain).                                           *)
LiveFiguresAgree(state) ==
  LET Agrees(window, wave) ==
        LET live == IF IsTaskbarVisible(window) THEN window.value ELSE {} IN
        /\ wave = live
        /\ live = (IF QuotaSummary(window).kind = "live" THEN QuotaSummary(window).percent ELSE {})
        /\ live = UNION {card.remaining : card \in {c \in QuotaMetricCard(window) : ~c.cached}}
  IN  Agrees(state.weekly, HostQuota(state).weekly) /\ Agrees(state.fiveHour, HostQuota(state).fiveHour)

(* The native strip and the page show the credits in the same states, though *)
(* each decides for itself (lib.rs:668-687, ui_snapshot.rs:194-206).         *)
CreditsAgree(state) == ShouldShowOfficialCredits(state) <=> CreditsVisibleInTaskbar(state)

(* What the page shows of the last turn the native strip shows as well; the  *)
(* two hit rates are percentages at most one apart (lib.rs:417-427, 771-776, *)
(* ui_snapshot.rs:166-187).                                                  *)
PopupsAgree(state) ==
  LET page == ConsumptionPopup(state)
      native == TokenPopupRows(state)
  IN  /\ \A field \in {"input", "cached", "output"} : page[field] \subseteq native[field]
      /\ \A p \in page.hit : p \in 0..100 /\ \E q \in native.hit : q - p \in 0..1

(* Today's counts that lost their source are in no native figure, row or     *)
(* chart of the card and not on the strip, and the chart's parts add up to   *)
(* the counted tokens (lib.rs:308-375, 755-769, 839-861, 956-963).           *)
TodayOnlyIfReliable(items, state, budget) ==
  LET card == TodayCard(state)
      known == ReliableToday(state.usage)
  IN  /\ known = {} => card.hero \cup card.rows \cup card.chart \cup card.hit = {}
      /\ StripLines(items, state, budget).today \subseteq card.hero
      /\ \A c \in known : FoldLeft(LAMBDA sum, value : sum + value, 0, TokenChartSegments(c))
                            = ValueOr(c.input, 0) + ValueOr(c.output, 0)

(* Every input token is billed once, at one of the three rates, for any      *)
(* model with a price and any counts the server sends (lib.rs:555-579).      *)
TokensBilledOnce(counts, price) ==
  LET parts == InputParts(counts)
      rates == {price.input, price.cached, ValueOr(price.write, price.input)}
      input == Value(counts.input)
      factor == IF \E limit \in price.longContext : input > limit THEN 2 ELSE 1
      output == (Value(counts.output) * price.output * (factor + 1)) \div 2
  IN  (counts.input # {} /\ counts.cached # {} /\ counts.output # {}) =>
        /\ parts.uncached + parts.cached + parts.write = input
        /\ \A part \in {parts.uncached, parts.cached, parts.write} : part >= 0
        /\ \A cost \in ApiEquivalentCost(counts, price) :
             /\ (input * Min(rates) * factor + output) \div 1000000 <= cost
             /\ cost <= (input * Max(rates) * factor + output) \div 1000000

(* A compact number is within half a tenth of its unit of the real one, has  *)
(* no thousand of a unit that has a larger one (M has none: 999,950,000 is   *)
(* 1000M), and never falls as the real one grows; a countdown is rounded up, *)
(* by less than its unit (lib.rs:704-722, 1063-1087).                        *)
LabelsHonest(value) ==
  LET Unit(label) == CASE label.suffix = "M" -> 1000000 [] label.suffix = "K" -> 1000 [] OTHER -> 1
      Shown(label) == label.major * Unit(label) + (label.tenths * Unit(label)) \div 10
      label == CompactNumber(value)
      time == RelativeTime(value)
      error == Shown(label) - value
  IN  /\ label.tenths \in 0..9 /\ (label.suffix # "M" => label.major < 1000)
      /\ 20 * Max({error, -error}) <= Unit(label)
      /\ Shown(label) <= Shown(CompactNumber(value + 1))
      /\ value > 0 => time.count * time.unit - value \in 0..(time.unit - 1)

(* One line for each reset card; the dates are in order, none is written     *)
(* twice, and the earliest known ones are there (lib.rs:687-702).            *)
ResetCardsInOrder(reset) ==
  LET cards == ResetCards(reset)
      known == IF reset.expiries = <<>> THEN reset.nearest ELSE ToSet(reset.expiries)
      written == UNION ToSet(cards)
  IN  /\ Len(cards) = reset.available /\ written \subseteq known
      /\ \A i, j \in DOMAIN cards : (i < j /\ cards[j] # {}) =>
           cards[i] # {} /\ Value(cards[i]) < Value(cards[j])
      /\ Cardinality(written) = Min({reset.available, Cardinality(known)})
      /\ \A t \in known \ written, u \in written : u < t

(* The chart is never a line of zeros, today's ends with this hour, and an    *)
(* estimated cost is always explained by the footer                          *)
(* (official_runtime.rs:1090-1160).                                          *)
ChartHasEvidence(ledger, hour, official) ==
  LET card == LocalHistory(ledger, hour, official) IN
  /\ card.points # <<>> => \E i \in DOMAIN card.points : card.points[i] > 0
  /\ card.title = "today" => Len(card.points) = hour + 1
  /\ card.title = "none" <=> card.points = <<>>
  /\ (card.cost # official \/ card.costRow # {}) => card.footer = "equivalent"
  /\ official # {} => card.cost = official

(* The items that stay keep the configured order and fit, or a single one is *)
(* left; no more goes than has to, and never an item that is wanted more     *)
(* than one that stays (lib.rs:872-909, layout.rs:41-47).                    *)
ItemsFitted(items, budget) ==
  LET offered == OrderedVisibleItems(items)
      kept == FittedDisplayItems(offered, budget)
      gone == {n \in DOMAIN offered : offered[n] \notin ToSet(kept)}
      LastGone(n) == \A m \in gone : offered[m].priority < offered[n].priority
                                     \/ (offered[m].priority = offered[n].priority /\ m >= n)
  IN  /\ kept = SelectSeq(offered, LAMBDA item : item \in ToSet(kept))
      /\ Len(kept) <= 1 \/ TotalWidth(kept) <= Max({budget, 1})
      /\ offered # <<>> => kept # <<>>
      /\ \A n \in gone : \A m \in DOMAIN offered \ gone :
           offered[n].priority < offered[m].priority
             \/ (offered[n].priority = offered[m].priority /\ n > m)
      /\ \A n \in gone : LastGone(n) => TotalWidth(kept) + offered[n].width > Max({budget, 1})

(* The mode does not depend on the order of the arguments, and two modes are *)
(* an error (lib.rs:78-104).                                                 *)
ModeIsUnambiguous(args) ==
  LET given == {Named(arg) : arg \in ToSet(args)} IN
  RunMode(args) = IF given = {} THEN "run"
                  ELSE IF Cardinality(given) = 1 /\ given \subseteq Modes
                  THEN CHOOSE mode \in given : TRUE ELSE "error"
=============================================================================
