---------------------------- MODULE MCDecisions ----------------------------
(* Every pure decision of the program on small inputs: a behaviour asks one *)
(* question at a time, and an invariant judges the answer.                  *)
EXTENDS Placement, TrendCurve, Presentation, UsageBuckets, Supervision, Schema

VARIABLES topic, input
vars == <<topic, input>>

Rect(left, top, width, height) ==
    [left |-> left, top |-> top, right |-> left + width, bottom |-> top + height]
Option(values) == {{}} \cup {{v} : v \in values}
UpTo(n, values) == UNION {[1..k -> values] : k \in 0..n}

Init == topic = "none" /\ input = <<>>
Ask(question) == topic = "none" /\ topic' = question
Rest == topic # "none" /\ topic' = "none" /\ input' = <<>>

(* Windows.  A taskbar is 40 wide with its notification area at 10, 30 or 40; *)
(* the settings hold any offset, the negative ones of old files included.    *)
Config(anchor, gap, offset, width, device, preferSecondary) ==
    [anchor |-> anchor, gap |-> gap, offset |-> offset, width |-> width,
     device |-> device, preferSecondary |-> preferSecondary]
Bar(hwnd, class, device, rect, notify) ==
    [hwnd |-> hwnd, class |-> class, device |-> device, rect |-> rect, notify |-> notify]

AskStrip ==
    /\ Ask("strip")
    /\ \E left \in {0, -40}, width \in {0, 20, 40}, at \in Option({10, 30, 40}),
          anchor \in {"Left", "Right"}, gap \in {0, 3}, offset \in {-6, -3, 0, 2, 9, 30}, wide \in {0, 5, 18, 40} :
         input' = [bar |-> [rect |-> Rect(left, 0, width, 6), boundary |-> {left + b : b \in at}],
                   config |-> Config(anchor, gap, offset, wide, {}, FALSE)]

AskTaskbar ==
    /\ Ask("taskbar")
    /\ \E shell \in UpTo(3, {"Primary", "Secondary"} \X {"A", "B"}), device \in Option({"A", "B"}), prefer \in BOOLEAN :
         /\ \A i, j \in DOMAIN shell : (shell[i][1] = "Primary" /\ shell[j][1] = "Primary") => i = j
         /\ input' = [shell |-> [i \in DOMAIN shell |->
                                   Bar(i, shell[i][1], shell[i][2], Rect(50 * i, 0, 40, 6), {50 * i + 30})],
                      config |-> Config("Right", 0, 0, 10, device, prefer)]

Gauges == {Rect(left, 0, width, 6) : left \in {-10, 0, 5, 20, 25, 40, 55}, width \in {0, 10, 30}}
AskGauge ==
    /\ Ask("gauge")
    /\ \E windows \in UpTo(2, Gauges), left \in {-5, 0, 7, 22, 31, 45, 50}, width \in {5, 10, 30} :
         input' = [rect |-> Rect(left, 0, width, 6), windows |-> windows, bar |-> Rect(0, 0, 60, 6)]

\* A taskbar of 6 on each side of a screen of 60 x 40, and one that hides itself.
Screens ==
    {[bar |-> Rect(0, 34, 60, 6), work |-> Rect(0, 0, 60, 34)], [bar |-> Rect(0, 0, 60, 6), work |-> Rect(0, 6, 60, 34)],
     [bar |-> Rect(0, 0, 6, 40), work |-> Rect(6, 0, 54, 40)], [bar |-> Rect(54, 0, 6, 40), work |-> Rect(0, 0, 54, 40)],
     [bar |-> Rect(0, 34, 60, 6), work |-> Rect(0, 0, 60, 40)]}
AskPopup ==
    /\ Ask("popup")
    /\ \E screen \in Screens, along \in {0, 7, 25}, size \in {0, 4, 15}, width \in {0, 1, 8, 33, 60, 90},
          height \in {1, 10, 25, 50, 80}, gap \in {-1, 0, 2}, margin \in {-1, 0, 3, 30} :
         LET b == screen.bar
             widget == IF Width(b) >= Height(b) THEN Rect(b.left + along, b.top, size, 6)
                       ELSE Rect(b.left, b.top + along, 6, size)
         IN  input' = [widget |-> widget, bar |-> b, work |-> screen.work,
                       wanted |-> [width |-> width, height |-> height], gap |-> gap, margin |-> margin]

Monitors == {[primary |-> TRUE, work |-> Rect(0, 0, 40, 30)], [primary |-> FALSE, work |-> Rect(40, -10, 30, 50)],
             [primary |-> FALSE, work |-> Rect(-30, 0, 30, 20)]}
AskSettings ==
    /\ Ask("settings")
    /\ \E monitors \in {s \in UpTo(3, Monitors) : \A i, j \in DOMAIN s : s[i] = s[j] => i = j},
          left \in {-80, -45, -20, 10, 39, 75, 100}, top \in {-60, -5, 25, 60}, size \in {10, 50}, margin \in {0, 4, 30} :
         input' = [window |-> Rect(left, top, size, size), monitors |-> monitors, margin |-> margin]

AskMouse ==
    /\ Ask("mouse")
    /\ \E width \in {420, 500, 577, 2000}, height \in {300, 333, 480, 1400}, dpi \in {4, 5, 6, 8}, points \in {0, 2, 7, 14, 24} :
         input' = [client |-> [width |-> width, height |-> height], dpi |-> dpi, points |-> points]

AskCurve ==
    /\ Ask("curve")
    /\ \E n \in 2..4 : \E ys \in [1..n -> 0..3], ws \in [1..n -> 1..2] :
         input' = [i \in 1..n |-> [x |-> CASE i = 1 -> 0 [] i = 2 -> ws[1] [] i = 3 -> ws[1] + ws[2]
                                           [] OTHER -> ws[1] + ws[2] + ws[3], y |-> ys[i]]]

(* The state of the monitor: every kind of window, of credits and of counts. *)
Window(presence, fresh, value, lastKnown) ==
    [presence |-> presence, fresh |-> fresh, value |-> value, lastKnown |-> lastKnown]
Windows ==
    {Window("Absent", fresh, {}, last) : fresh \in BOOLEAN, last \in {{}, {60}}}
      \cup {Window("Unknown", FALSE, {}, last) : last \in {{}, {60}}}
      \cup {Window("Present", fresh, value, last) : fresh \in BOOLEAN, value \in {{}, {0}, {10}, {26}}, last \in {{}, {60}}}
Credits == {[has |-> has, unlimited |-> unlimited, balance |-> balance] :
              has \in BOOLEAN, unlimited \in BOOLEAN, balance \in {{}, {5}}}
Counts(input_, cached, write, output, total) ==
    [input |-> input_, cached |-> cached, cacheWrite |-> write, output |-> output, total |-> total]
SomeCounts == {Counts({10}, {4}, {}, {3}, {17}), Counts({3}, {7}, {1}, {2}, {5}), Counts({8}, {}, {}, {}, {}),
               Counts({0}, {0}, {}, {1}, {1}), Counts({}, {}, {}, {}, {9}), Counts({7}, {1}, {}, {1}, {})}
Usage(fresh, current, turn, turnSource, today, todaySource) ==
    [fresh |-> fresh, currentThread |-> current, lastTurn |-> turn, lastTurnSource |-> turnSource,
     today |-> today, todaySource |-> todaySource]
NoUsage == Usage(FALSE, {}, {}, "None", {}, "None")

AskQuota ==
    /\ Ask("quota")
    /\ \E weekly \in Windows, fiveHour \in Windows, credits \in Option(Credits) :
         input' = [weekly |-> weekly, fiveHour |-> fiveHour, credits |-> credits, usage |-> NoUsage]

Item(kind, visible, order, width, priority) ==
    [kind |-> kind, visible |-> visible, order |-> order, width |-> width, priority |-> priority]
Configured == {<<Item("TodayTokens", TRUE, 0, 3, 1), Item("CacheHitRate", visible, 1, 3, priority)>> :
                 visible \in BOOLEAN, priority \in {0, 1, 2}}
AskUsage ==
    /\ Ask("usage")
    /\ \E fresh \in BOOLEAN, current \in Option({Counts({10}, {4}, {}, {3}, {17})}), turn \in Option(SomeCounts),
          turnSource \in {"AppServer", "SessionLogFallback", "None"}, today \in Option(SomeCounts),
          todaySource \in {"AppServer", "SqliteFallback", "None"}, items \in Configured, budget \in {3, 6} :
         /\ turnSource = "None" <=> turn = {}
         /\ input' = [items |-> items, budget |-> budget,
                      state |-> [weekly |-> Window("Unknown", FALSE, {}, {}), fiveHour |-> Window("Absent", TRUE, {}, {}),
                                 credits |-> {}, usage |-> Usage(fresh, current, turn, turnSource, today, todaySource)]]

\* Small counts at the real prices, and a price whose long context begins at 5.
Models == {"gpt-5", "gpt-5-mini", "gpt-5-nano", "gpt-5.2", "gpt-5.4", "gpt-5.4-mini", "gpt-5.5",
           "gpt-5.6-sol", "gpt-5.6-terra", "gpt-5.6-luna", "unknown"}
Prices == UNION {OfficialApiPricing(m) : m \in Models}
            \cup {[input |-> 9000000, cached |-> 900000, write |-> w, output |-> 30000000, longContext |-> {5}] :
                    w \in {{}, {11000000}}}
AskCost ==
    /\ Ask("cost")
    /\ \E in \in Option({0, 5, 6, 12}), cached \in Option({0, 3, 6, 15}), write \in Option({0, 4, 12}),
          out \in Option({0, 1, 12}), price \in Prices :
         input' = [counts |-> Counts(in, cached, write, out, {}), price |-> price]

AskLabel ==
    /\ Ask("label")
    /\ \E value \in 0..2100 \cup 3500..3700 \cup 86300..86500 \cup 949900..950100 \cup 998900..1000100
                      \cup {172800, 172801, 1049999, 1050000, 1949999, 1950000, 19999999, 999950000} :
         input' = value

AskReset ==
    /\ Ask("reset")
    /\ \E available \in 0..3, expiries \in UpTo(3, 1..4), nearest \in Option({2}) :
         input' = [available |-> available, expiries |-> expiries, nearest |-> nearest]

AskHistory ==
    /\ Ask("history")
    /\ \E late \in Option({0, 2, 7, 23}), days \in UpTo(3, {0, 5}), cost \in Option({0, 7}),
          official \in Option({4}), hour \in {0, 2, 6, 23} :
         input' = [ledger |-> [hours |-> [h \in 1..24 |-> IF h - 1 \in late THEN 5 ELSE 0], days |-> days, cost |-> cost],
                   hour |-> hour, official |-> official]

\* Codex reports cached tokens as a part of the input; without tokens there is no price.
Reports ==
    {[kind |-> "event", hour |-> h, counts |-> c, cost |-> p] :
       h \in {8, 23}, p \in {{}, {4}}, c \in {Counts({5}, {2}, {}, {3}, {10}), Counts({}, {}, {}, {}, {4}),
                                          Counts({6}, {2}, {}, {}, {9}), Counts({}, {}, {}, {3}, {9})}}
      \cup {[kind |-> "event", hour |-> 8, counts |-> Counts({0}, {0}, {}, {0}, {}), cost |-> {0}]}
      \cup {[kind |-> "increase", hour |-> h, delta |-> 6] : h \in {8, 9}}
AskBucket == Ask("bucket") /\ input' \in UpTo(3, Reports)

AskItems ==
    /\ Ask("items")
    /\ \E n \in 0..3 : \E visible \in [1..n -> BOOLEAN], order \in [1..n -> 0..1], width \in [1..n -> {1, 4}],
          priority \in [1..n -> 0..2], budget \in {0, 3, 5} :
         input' = [items |-> [i \in 1..n |-> Item(i, visible[i], order[i], width[i], priority[i])], budget |-> budget]

AskMode ==
    /\ Ask("mode")
    /\ \E args \in UpTo(3, {"--help", "--check-config", "--visual-preview", "-h", "-x"}) : input' = args

(* The search for the CLI, its waits, and the databases of other versions.   *)
Candidate(protected, file, named, health) ==
    [protected |-> protected, file |-> file, named |-> named, health |-> health, modified |-> 0, version |-> 0]
Healthy == Candidate(FALSE, TRUE, TRUE, "good")
Programs == {Healthy, Candidate(FALSE, TRUE, TRUE, "hangs"), Candidate(FALSE, TRUE, TRUE, "bad"),
             Candidate(FALSE, FALSE, TRUE, "bad"), Candidate(FALSE, TRUE, FALSE, "good")}
Installed(version) == Option({[p EXCEPT !.modified = t, !.version = version] : p \in Programs, t \in 1..2})
AskProgram ==
    /\ Ask("program")
    /\ \E manual \in UpTo(1, Programs \cup {Candidate(TRUE, TRUE, TRUE, "good")}), old \in Installed(1), new \in Installed(2),
          path \in UpTo(2, Programs \cup {Candidate(TRUE, TRUE, TRUE, "good")}) :
         input' = [manual |-> manual, local |-> old \cup new, path |-> path]

AskDelay ==
    /\ Ask("delay")
    /\ \E initial \in {0, 1, 5, 200}, maximum \in {0, 4, 60, 100}, multiplier \in 0..3, n \in 0..6,
          first \in {1, 5}, last \in {3, 60} :
         input' = [backoff |-> [initial |-> initial, maximum |-> maximum, multiplier |-> multiplier],
                   policy |-> [active |-> 2, idle |-> 30, firstRetry |-> first, maxRetry |-> last], n |-> n]

Entries == [prefixed : BOOLEAN, plain : BOOLEAN, modified : {0, 6, 9, 10}, broken : {"no", "metadata", "remove"}]
AskLogs ==
    /\ Ask("logs")
    /\ \E entries \in UpTo(2, Entries), days \in {0, 1, 3, 12} :
         input' = [entries |-> entries, days |-> days, now |-> 10]

HistoryTables == {<<>>, [thread_turns |-> {"status"}],
                  [thread_turns |-> {"status", "started_at", "thread_id", "turn_id"},
                   thread_items |-> {"thread_id", "turn_id", "created_at_ms"}],
                  [items |-> {"id", "turn_id", "state", "timestamp"}], [items |-> {"id", "state"}]}
Or(table, names) == {[t \in {} |-> {}]} \cup {[t \in {table} |-> columns] : columns \in SUBSET names}
AskColumns ==
    /\ Ask("columns")
    /\ \E a \in Or("threads", {"id", "updated_at", "updated_at_ms", "tokens_used"}),
          b \in Or("turns", {"id", "thread_id", "state", "created_at"}),
          c \in Or("token_usage", {"thread_id", "input_tokens", "total_tokens"}),
          h \in HistoryTables, added \in {"updated_at_ms", "status", "tokens_used"} :
         LET Of(t) == IF t \in DOMAIN a THEN a[t] ELSE IF t \in DOMAIN b THEN b[t]
                      ELSE IF t \in DOMAIN c THEN c[t] ELSE h[t]
         IN  input' = [columns |-> [t \in DOMAIN a \cup DOMAIN b \cup DOMAIN c \cup DOMAIN h |-> Of(t)], added |-> added]

ThreadRow(id) == Option({[id |-> id, updated_at_ms |-> at, tokens_used |-> used, archived |-> archived] :
                           at \in {{}, {1}, {2}}, used \in {{}, {-1}, {5}}, archived \in {{}, {0}, {1}}})
\* What Codex makes of a thread between two statements: nothing, a turn more, or archived.
Later(thread) == {thread, {[row EXCEPT !.tokens_used = {9}, !.updated_at_ms = {3}] : row \in thread},
                  {[row EXCEPT !.archived = {1}] : row \in thread}}
AskTotals ==
    /\ Ask("totals")
    /\ \E one \in ThreadRow(1), two \in ThreadRow(2) : \E later \in Later(one) :
         LET Of(rows) == [columns |-> [threads |-> {"id", "updated_at_ms", "tokens_used", "archived"}],
                          rows |-> [threads |-> rows]]
         IN  input' = [before |-> Of(one \cup two), after |-> Of(later \cup two)]

Rows(id, options) == Option({[id |-> id] @@ rest : rest \in options})
AskSnapshot ==
    /\ Ask("snapshot")
    /\ \E t1, t2 \in {{}, {1}, {2}}, turn1 \in Rows(11, [thread_id : 1..2, status : {{"running"}}, updated_at : {{1}, {2}}]),
          turn2 \in Rows(12, [thread_id : 1..2, status : {{}}, updated_at : {{1}, {2}}]),
          item1 \in Rows(21, [turn_id : 11..12, status : {{"failed"}}, updated_at : {{1}, {2}}]),
          item2 \in Rows(22, [turn_id : 11..12, status : {{}}, updated_at : {{2}}]),
          used \in {{}, {<<1, {}>>}, {<<1, {-3}>>}, {<<1, {5}>>, <<2, {-3}>>}} :
         input' = [columns |-> [threads |-> {"id", "updated_at"}, turns |-> {"id", "thread_id", "status", "updated_at"},
                                items |-> {"id", "turn_id", "status", "updated_at"},
                                token_usage |-> {"thread_id", "total_tokens"}],
                   rows |-> [threads |-> {[id |-> 1, updated_at |-> t1], [id |-> 2, updated_at |-> t2]},
                             turns |-> turn1 \cup turn2, items |-> item1 \cup item2,
                             token_usage |-> {[thread_id |-> u[1], total_tokens |-> u[2]] : u \in used}]]

AskWindows == AskStrip \/ AskTaskbar \/ AskGauge \/ AskPopup \/ AskSettings \/ AskMouse \/ AskCurve
AskFigures == AskQuota \/ AskUsage \/ AskCost \/ AskLabel \/ AskReset \/ AskHistory \/ AskBucket \/ AskItems \/ AskMode
AskSources == AskProgram \/ AskDelay \/ AskLogs \/ AskColumns \/ AskTotals \/ AskSnapshot
Next == AskWindows \/ AskFigures \/ AskSources \/ Rest
Spec == Init /\ [][Next]_vars

-----------------------------------------------------------------------------
(* The judgements: each predicate is stated where its decision is modelled.  *)

(* The strip is whole on its taskbar and left of the notification area       *)
(* (geometry.rs:41-91).                                                      *)
StripIsInPlace == topic = "strip" => StripInPlace(input.bar, input.config)

(* A screen the user chose is kept, and a preference is followed             *)
(* (windows.rs:150-172).                                                     *)
TaskbarIsAsChosen == topic = "taskbar" => TaskbarAsChosen(input.shell, input.config)

(* The strip moves off another program's gauge if there is room              *)
(* (native.rs:1876-1909).                                                    *)
GaugeIsDodged == topic = "gauge" => DodgesGauge(input.rect, input.windows, input.bar)

(* A popup lies in the work area, in proportion and beside its widget        *)
(* (native.rs:1447-1505).                                                    *)
PopupIsInPlace ==
    topic = "popup" => PopupInPlace(input.widget, input.bar, input.work, input.wanted, input.gap, input.margin)

(* A click brings a lost settings window back and moves no visible one       *)
(* (codex-taskbar-settings/src/main.rs:325-355).                             *)
SettingsAreFindable == topic = "settings" => SettingsFindable(input.window, input.monitors, input.margin)

(* What is drawn in the card is what the mouse hits (render.rs:1415-1467).   *)
MouseHitsWhatIsDrawn == topic = "mouse" => HitsWhatIsDrawn(input.client, input.dpi, input.points)

(* The chart's line never leaves the range of the points beside it           *)
(* (render.rs:1296-1370).                                                    *)
CurveIsBetween == topic = "curve" => CurveStaysBetween(input, 4)

(* A figure that looks live is fresh and the same everywhere (lib.rs:729-752). *)
LiveFigures == topic = "quota" => LiveFiguresAgree(input)

(* Strip and page show the credits in the same states (lib.rs:657-676).      *)
CreditsShown == topic = "quota" => CreditsAgree(input)

(* Page and native strip agree on the last turn (ui_snapshot.rs:166-187).    *)
PopupsShowTheSame == topic = "usage" => PopupsAgree(input.state)

(* Counts of today without a source are nowhere (lib.rs:957-964).            *)
TodayIsReliable == topic = "usage" => TodayOnlyIfReliable(input.items, input.state, input.budget)

(* Every input token is billed at one rate (lib.rs:555-579).                 *)
BilledOnce == topic = "cost" => TokensBilledOnce(input.counts, input.price)

(* Short numbers and countdowns are close to the real ones                   *)
(* (lib.rs:704-722, 1063-1087).                                              *)
LabelsAreHonest == topic = "label" => LabelsHonest(input)

(* Reset cards show the earliest dates in order (lib.rs:687-702).            *)
ResetsInOrder == topic = "reset" => ResetCardsInOrder(input)

(* The chart shows recorded tokens only (official_runtime.rs:1090-1160).     *)
ChartIsOfEvidence == topic = "history" => ChartHasEvidence(input.ledger, input.hour, input.official)

(* The hours add up to the day (local_usage_ledger.rs:118-136).              *)
HoursAddUp == topic = "bucket" => HoursMakeDay(input)

(* The card's figure of today is the chart's (local_usage_ledger.rs:108-116). *)
CardIsOfChart == topic = "bucket" => CardMatchesChart(input)

(* A rescan counts what was counted (local_usage_ledger.rs:338-388).         *)
RescanChangesNothing == topic = "bucket" => ScanMatchesTail(input)

(* The least wanted items go first and no more than needed (lib.rs:876-909). *)
ItemsFit == topic = "items" => ItemsFitted(input.items, input.budget)

(* The mode does not depend on the order of the arguments (lib.rs:78-104).   *)
ModeIsClear == topic = "mode" => ModeIsUnambiguous(input)

(* The CLI that starts is the first that works (locator.rs:174-222).         *)
ProgramIsFirst == topic = "program" => LocatedAsOrdered(input)

(* Waits grow up to their limit (supervisor.rs:130-141).                     *)
WaitsAreBounded == topic = "delay" => DelaysBounded(input.backoff, input.policy, input.n)

(* A query names columns that exist, after an update too (sqlite lib.rs:110-162). *)
ColumnsFit == topic = "columns" => QueriesFit(input.columns, {input.added})

(* A refused database is told what it lacks (sqlite lib.rs:445-530).         *)
RefusalIsExplained == topic = "columns" => RefusalExplained(input.columns)

(* Threads put away are not counted (sqlite lib.rs:626-682).                 *)
TotalsAreLive == topic = "totals" => TotalsOfLiveThreads(input.before, input.after)

(* A snapshot is of one thread and one turn (sqlite lib.rs:562-624).         *)
SnapshotIsChained == topic = "snapshot" => SnapshotIsOneThread(input)

(* Old logs go, all of them and nothing else (diagnostics lib.rs:27-56).     *)
LogsPruned == topic = "logs" => LogsArePruned(input.entries, input.days, input.now)

(* The four questions: is everything on the screen where it can be seen and  *)
(* hit (geometry.rs, windows.rs, native.rs, render.rs) ...                   *)
WindowsInPlace ==
    /\ StripIsInPlace /\ TaskbarIsAsChosen /\ GaugeIsDodged /\ PopupIsInPlace
    /\ SettingsAreFindable /\ MouseHitsWhatIsDrawn /\ CurveIsBetween

(* ... do the surfaces agree and show nothing that is not known (lib.rs,     *)
(* ui_snapshot.rs) ...                                                       *)
FiguresAgree ==
    /\ LiveFigures /\ CreditsShown /\ PopupsShowTheSame /\ TodayIsReliable
    /\ LabelsAreHonest /\ ResetsInOrder /\ ItemsFit /\ ModeIsClear

(* ... do prices, hours and days add up to the same tokens (lib.rs,          *)
(* local_usage_ledger.rs, official_runtime.rs) ...                           *)
DaysAddUp ==
    BilledOnce /\ HoursAddUp /\ CardIsOfChart /\ RescanChangesNothing /\ ChartIsOfEvidence

(* ... and are programs, waits, databases and logs chosen by what they are   *)
(* (locator.rs, supervisor.rs, sqlite lib.rs, diagnostics lib.rs)?           *)
SourcesFit ==
    /\ ProgramIsFirst /\ WaitsAreBounded /\ ColumnsFit /\ RefusalIsExplained
    /\ TotalsAreLive /\ SnapshotIsChained /\ LogsPruned
=============================================================================
