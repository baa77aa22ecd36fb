----------------------------- MODULE Placement -----------------------------
(***************************************************************************)
(* Where the windows go: the choice of a taskbar and of the strip's        *)
(* rectangle in it, the way around another program's gauges, the popups,   *)
(* and the settings window.  The code is in platform-windows (windows.rs,  *)
(* geometry.rs, host/native.rs) and in the settings application's main.rs. *)
(*                                                                         *)
(* A rectangle has exclusive right and bottom edges, in screen pixels.  An *)
(* optional value is a set with at most one element.  The coordinates of a *)
(* screen are far from the limits of i32, so the code's checked and        *)
(* saturating additions are plain ones; a double is the exact ratio it     *)
(* stands for, so a size can differ from the code's by one pixel.          *)
(***************************************************************************)
EXTENDS Integers, Sequences, SequencesExt

Width(r) == r.right - r.left
Height(r) == r.bottom - r.top
IsValid(r) == Width(r) > 0 /\ Height(r) > 0
NoRect == [left |-> 0, top |-> 0, right |-> 0, bottom |-> 0]

Meets(r, s) == /\ r.left < s.right /\ r.right > s.left
               /\ r.top < s.bottom /\ r.bottom > s.top
Within(r, s) == /\ s.left <= r.left /\ r.right <= s.right
                /\ s.top <= r.top /\ r.bottom <= s.bottom

Placed(r) == [error |-> "none", rect |-> r]
Refused(e) == [error |-> e, rect |-> NoRect]

\* The quotient of Rust's i32, which rounds towards zero.
HalfOf(n) == IF n >= 0 THEN n \div 2 ELSE -((-n) \div 2)
Clamped(x, lo, hi) == IF x < lo THEN lo ELSE IF x > hi THEN hi ELSE x
Smaller(a, b) == IF a <= b THEN a ELSE b
Larger(a, b) == IF a >= b THEN a ELSE b

(***************************************************************************)
(* Explorer's windows.  A shell lists its taskbars in the order they are   *)
(* found, the primary one first.  The left edge of the notification area   *)
(* is the limit of a right-anchored strip.  A missing notification window  *)
(* makes the search return at once (`.ok()?`), so the clock, the fallback  *)
(* the comment describes, is looked up only when there is no need of it.   *)
(***************************************************************************)
NotificationLeftBoundary(bar) == bar.notify

DiscoverTaskbars(shell) ==
    LET Snapshot(bar) == [hwnd |-> bar.hwnd, class |-> bar.class, device |-> bar.device,
                          rect |-> bar.rect, boundary |-> NotificationLeftBoundary(bar)]
        Of(class) == SelectSeq(shell, LAMBDA bar : bar.class = class)
        found == Of("Primary") \o Of("Secondary")
    IN  [i \in DOMAIN found |-> Snapshot(found[i])]

SelectTaskbar(bars, device, preferSecondary) ==
    LET Named(bar) == bar.device \in device
        Of(class) == SelectSeq(bars, LAMBDA bar : bar.class = class)
        ranked == IF device # {} THEN SelectSeq(bars, Named)
                  ELSE IF preferSecondary THEN Of("Secondary") \o Of("Primary") \o bars
                  ELSE Of("Primary") \o Of("Secondary") \o bars
    IN  IF ranked = <<>> THEN {} ELSE {Head(ranked)}

LayoutProbe(bar, config) ==
    LET xs == IF config.anchor = "Left"
              THEN {bar.rect.left + config.gap + config.offset}
              ELSE {b - config.gap - config.offset - config.width : b \in bar.boundary}
        x == CHOOSE v \in xs : TRUE
        pastLimit == \E b \in bar.boundary :
                        config.anchor = "Right" /\ x + config.width > b - config.gap
    IN  IF ~IsValid(bar.rect) \/ config.width <= 0 \/ config.width > Width(bar.rect)
        THEN Refused("InsufficientSpace")
        ELSE IF xs = {} THEN Refused("MissingRightSafetyBoundary")
        ELSE IF x < bar.rect.left \/ x + config.width > bar.rect.right \/ pastLimit
        THEN Refused("InsufficientSpace")
        ELSE Placed([bar.rect EXCEPT !.left = x, !.right = x + config.width])

LayoutWithSafeLeftFallback(bar, config) ==
    LET first == LayoutProbe(bar, config) IN
    IF first.error = "MissingRightSafetyBoundary"
    THEN LayoutProbe(bar, [config EXCEPT !.anchor = "Left"])
    ELSE first

DiscoverProbePlacement(shell, config) ==
    LET chosen == SelectTaskbar(DiscoverTaskbars(shell), config.device, config.preferSecondary)
    IN  IF chosen = {} THEN [error |-> "TaskbarNotFound", rect |-> NoRect, bar |-> {}]
        ELSE LET bar == CHOOSE b \in chosen : TRUE
                 result == LayoutWithSafeLeftFallback(bar, config)
             IN  [error |-> result.error, rect |-> result.rect, bar |-> chosen]

(***************************************************************************)
(* TrafficMonitor's gauges lie on the same taskbar.  Only the horizontal   *)
(* interval counts: the vertical coordinates are those of another DPI.     *)
(***************************************************************************)
ObstacleIn(windows, bar) ==
    LET Usable(w) == IsValid(w) /\ w.right > bar.left /\ w.left < bar.right
        usable == {i \in DOMAIN windows : Usable(windows[i])}
    IN  {windows[i] : i \in {k \in usable : \A j \in usable : k <= j}}

ShiftAwayFromObstacle(rect, obstacle, bar, gap) ==
    LET afterLeft == obstacle.right + gap
        beforeRight == obstacle.left - gap
        toRight == [rect EXCEPT !.left = afterLeft, !.right = afterLeft + Width(rect)]
        toLeft == [rect EXCEPT !.left = beforeRight - Width(rect), !.right = beforeRight]
        canMoveRight == toRight.right <= bar.right
        canMoveLeft == toLeft.left >= bar.left
        onLeftHalf == obstacle.left + obstacle.right <= bar.left + bar.right
    IN  IF ~(rect.left < obstacle.right /\ rect.right > obstacle.left) THEN rect
        ELSE IF canMoveRight /\ (onLeftHalf \/ ~canMoveLeft) THEN toRight
        ELSE IF canMoveLeft THEN toLeft
        ELSE rect

ObstacleGap == 8

AvoidTrafficMonitorOverlap(rect, windows, bar) ==
    LET found == ObstacleIn(windows, bar)
    IN  IF found = {} THEN rect
        ELSE ShiftAwayFromObstacle(rect, CHOOSE w \in found : TRUE, bar, ObstacleGap)

(***************************************************************************)
(* A popup beside the widget, inside the work area less a margin.          *)
(***************************************************************************)
SafeArea(work, margin) ==
    LET mx == Smaller(Larger(margin, 0), (Width(work) - 1) \div 2)
        my == Smaller(Larger(margin, 0), (Height(work) - 1) \div 2)
    IN  [left |-> work.left + mx, top |-> work.top + my,
         right |-> work.right - mx, bottom |-> work.bottom - my]

\* Mutant: the box is scaled by its width alone.
FittedWide(n, wanted, area) ==
    IF wanted.width <= Width(area) THEN n ELSE (n * Width(area)) \div wanted.width

\* Length n of a wanted box, reduced by the factor that fits the box in the area.
Fitted(n, wanted, area) ==
    IF wanted.width <= Width(area) /\ wanted.height <= Height(area) THEN n
    ELSE IF Width(area) * wanted.height <= Height(area) * wanted.width
    THEN (n * Width(area)) \div wanted.width
    ELSE (n * Height(area)) \div wanted.height

FitPopupToWorkArea(widget, bar, work, wanted, gap, margin) ==
    LET safe == SafeArea(work, margin)
        width == Clamped(Fitted(wanted.width, wanted, safe), 1, Width(safe))
        height == Clamped(Fitted(wanted.height, wanted, safe), 1, Height(safe))
        g == Larger(gap, 0)
        horizontal == Width(bar) >= Height(bar)
        beforeWidget == IF horizontal THEN bar.top >= work.bottom ELSE bar.left >= work.right
        x == IF horizontal THEN widget.left + HalfOf(Width(widget) - width)
             ELSE IF beforeWidget THEN widget.left - g - width ELSE widget.right + g
        y == IF ~horizontal THEN widget.top + HalfOf(Height(widget) - height)
             ELSE IF beforeWidget THEN widget.top - g - height ELSE widget.bottom + g
        left == Clamped(x, safe.left, Larger(safe.right - width, safe.left))
        top == Clamped(y, safe.top, Larger(safe.bottom - height, safe.top))
    IN  IF ~IsValid(widget) \/ ~IsValid(bar) \/ ~IsValid(work)
           \/ wanted.width <= 0 \/ wanted.height <= 0
        THEN {}
        ELSE {[left |-> left, top |-> top, right |-> left + width, bottom |-> top + height]}

(***************************************************************************)
(* The settings window: placed once on the preferred monitor, and brought  *)
(* back by a later click when no monitor shows any of it.                  *)
(***************************************************************************)
\* The first secondary monitor, the last one flagged primary, and every work area.
MonitorChoice(monitors) ==
    LET secondary == SelectSeq(monitors, LAMBDA m : ~m.primary)
        primary == SelectSeq(monitors, LAMBDA m : m.primary)
    IN  [secondary |-> IF secondary = <<>> THEN {} ELSE {Head(secondary).work},
         primary |-> IF primary = <<>> THEN {} ELSE {Last(primary).work},
         all |-> {monitors[i].work : i \in DOMAIN monitors}]

FitWindowToWorkArea(work, wanted, margin) ==
    LET aw == Larger(Width(work), 1)
        ah == Larger(Height(work), 1)
        m == Smaller(Smaller(Larger(margin, 0), aw \div 4), ah \div 4)
        width == Clamped(wanted.width, 1, Larger(aw - 2 * m, 1))
        height == Clamped(wanted.height, 1, Larger(ah - 2 * m, 1))
        left == work.left + HalfOf(aw - width)
        top == work.top + HalfOf(ah - height)
    IN  [left |-> left, top |-> top, right |-> left + width, bottom |-> top + height]

PreferredWork(monitors, preferSecondary) ==
    LET choice == MonitorChoice(monitors)
        first == IF preferSecondary THEN choice.secondary ELSE choice.primary
        other == IF preferSecondary THEN choice.primary ELSE choice.secondary
    IN  IF first # {} THEN first ELSE other

\* The window keeps its size: only its corner is taken from the fitted one.
ActivateExistingWindow(window, monitors, margin) ==
    LET lost == \A work \in MonitorChoice(monitors).all : ~Meets(window, work)
        target == PreferredWork(monitors, TRUE)
        Moved(work) ==
            LET fit == FitWindowToWorkArea(work, [width |-> Width(window),
                                                  height |-> Height(window)], margin)
            IN  [left |-> fit.left, top |-> fit.top,
                 right |-> fit.left + Width(window), bottom |-> fit.top + Height(window)]
    IN  IF lost /\ target # {} THEN Moved(CHOOSE work \in target : TRUE) ELSE window

(***************************************************************************)
(* The details card is drawn at 960 x 660 DIP and scaled down to the       *)
(* window, centred; the mouse goes the other way.  dpi counts steps of 24  *)
(* (100 % is 4), a scale is the fraction num / den of a layout unit.       *)
(***************************************************************************)
CardWidth == 960
CardHeight == 660

\* fit_layout_transform: the smaller of the two ratios and of 1 (a window of less
\* than ten pixels, where the code stops at 1 / 100, is left out).
CardScale(client, dpi) ==
    LET byWidth == [num |-> 4 * client.width, den |-> CardWidth * dpi]
        byHeight == [num |-> 4 * client.height, den |-> CardHeight * dpi]
        Least(a, b) == IF a.num * b.den <= b.num * a.den THEN a ELSE b
    IN  Least(Least(byWidth, byHeight), [num |-> 1, den |-> 1])

\* Twice the offset, in pixels times den: what is left of the window on both sides.
CardOffset(length, layout, scale, dpi) ==
    Larger(length * 4 * scale.den - layout * scale.num * dpi, 0)

\* details_layout_point, in one axis: num / den layout units.
LayoutCoordinate(pixel, length, layout, scale, dpi) ==
    [num |-> 8 * pixel * scale.den - CardOffset(length, layout, scale, dpi),
     den |-> 2 * dpi * scale.num]

\* The pixel a layout coordinate is drawn at, rounded.
DrawnPixel(coordinate, length, layout, scale, dpi) ==
    LET twice == 2 * coordinate * scale.num * dpi + CardOffset(length, layout, scale, dpi)
    IN  (twice + 4 * scale.den) \div (8 * scale.den)

ActionBounds(action) ==
    IF action = "Refresh" THEN [left |-> 697, top |-> 17, right |-> 767, bottom |-> 41]
    ELSE [left |-> 774, top |-> 17, right |-> 844, bottom |-> 41]

Between(low, c, high) == low * c.den <= c.num /\ c.num <= high * c.den

\* details_action_hit_test: the first of the two buttons under the mouse.
ActionHit(client, dpi, mouse) ==
    LET scale == CardScale(client, dpi)
        x == LayoutCoordinate(mouse.x, client.width, CardWidth, scale, dpi)
        y == LayoutCoordinate(mouse.y, client.height, CardHeight, scale, dpi)
        Under(action) == LET b == ActionBounds(action)
                         IN  Between(b.left, x, b.right) /\ Between(b.top, y, b.bottom)
    IN  IF client.width = 0 \/ client.height = 0 THEN {}
        ELSE IF Under("Refresh") THEN {"Refresh"}
        ELSE IF Under("OpenSettings") THEN {"OpenSettings"} ELSE {}

\* compact_official_trend_bounds and trend_plot_bounds, for the one card layout.
TrendPlot == [left |-> 296, top |-> 364, right |-> 908, bottom |-> 502]

\* details_trend_hit_test: the nearest of the chart's buckets, counted from 0.
TrendHit(client, dpi, points, mouse) ==
    LET scale == CardScale(client, dpi)
        x == LayoutCoordinate(mouse.x, client.width, CardWidth, scale, dpi)
        y == LayoutCoordinate(mouse.y, client.height, CardHeight, scale, dpi)
        steps == points - 1
        doubled == 2 * (x.num - TrendPlot.left * x.den) * steps
        whole == Width(TrendPlot) * x.den
    IN  IF points < 2 \/ client.width = 0 \/ client.height = 0 THEN {}
        ELSE IF ~Between(TrendPlot.left - 6, x, TrendPlot.right + 6)
                \/ ~Between(TrendPlot.top - 8, y, TrendPlot.bottom + 10)
        THEN {}
        ELSE {Clamped((doubled + whole) \div (2 * whole), 0, steps)}

-----------------------------------------------------------------------------
(* What must hold of every input, checked in module MCDecisions.             *)

(* A strip is placed whole on its taskbar and as wide as configured, and one *)
(* anchored right stays left of the notification area less the gap whatever  *)
(* offset the settings hold; the missing area is not an error                *)
(* (geometry.rs:41-91, windows.rs:130-148).                                  *)
StripInPlace(bar, config) ==
    LET p == LayoutWithSafeLeftFallback(bar, config) IN
    /\ p.error \in {"none", "InsufficientSpace"}
    /\ p.error = "none" =>
         /\ Within(p.rect, bar.rect)
         /\ Width(p.rect) = config.width /\ Height(p.rect) = Height(bar.rect)
         /\ config.anchor = "Right" => \A b \in bar.boundary : p.rect.right <= b - config.gap

(* A screen the user chose is never replaced by another one; without a       *)
(* choice there is a taskbar if Explorer has any, of the preferred kind if   *)
(* it has one (windows.rs:114-128, 150-172).                                 *)
TaskbarAsChosen(shell, config) ==
    LET found == DiscoverProbePlacement(shell, config).bar
        bars == {shell[i] : i \in DOMAIN shell}
        wanted == IF config.preferSecondary THEN "Secondary" ELSE "Primary"
    IN  /\ found = {} <=> \A bar \in bars : config.device # {} /\ bar.device \notin config.device
        /\ \A bar \in found :
             IF config.device # {} THEN bar.device \in config.device
             ELSE (\E other \in bars : other.class = wanted) => bar.class = wanted

(* The strip moves only sideways and never off its taskbar; it is clear of   *)
(* the gauge it was moved for, and stays on it only if neither side has room *)
(* (native.rs:1876-1909).                                                    *)
DodgesGauge(rect, windows, bar) ==
    LET r == AvoidTrafficMonitorOverlap(rect, windows, bar) IN
    /\ Width(r) = Width(rect) /\ r.top = rect.top /\ r.bottom = rect.bottom
    /\ Within(rect, bar) => Within(r, bar)
    /\ \A w \in ObstacleIn(windows, bar) :
         /\ r # rect => r.right + ObstacleGap <= w.left \/ w.right + ObstacleGap <= r.left
         /\ (r.left < w.right /\ r.right > w.left) =>
              /\ w.left - ObstacleGap - Width(rect) < bar.left
              /\ w.right + ObstacleGap + Width(rect) > bar.right

(* A popup lies in the work area less its margin, is never enlarged, keeps   *)
(* its proportions to a pixel and, when reduced, fills the area in one       *)
(* direction; beside a bar outside the work area it keeps its gap to the     *)
(* widget if there is room (native.rs:1447-1505).                            *)
PopupInPlace(widget, bar, work, wanted, gap, margin) ==
    LET safe == SafeArea(work, margin) IN
    \A r \in FitPopupToWorkArea(widget, bar, work, wanted, gap, margin) :
      /\ Within(r, safe) /\ IsValid(r)
      /\ Width(r) <= wanted.width /\ Height(r) <= wanted.height
      /\ Width(r) > 1 /\ Height(r) > 1 =>
           LET skew == Width(r) * wanted.height - Height(r) * wanted.width
           IN  skew < wanted.width /\ -skew < wanted.height
      /\ \/ Width(r) = wanted.width /\ Height(r) = wanted.height
         \/ Width(r) = Width(safe) \/ Height(r) = Height(safe)
      /\ (gap >= 0 /\ Width(bar) >= Height(bar) /\ bar.top >= work.bottom
            /\ widget.top - gap - Height(r) >= safe.top /\ widget.top - gap <= safe.bottom)
           => r.bottom = widget.top - gap

(* A click on Settings brings an open window back onto a monitor if no       *)
(* monitor shows any of it, and leaves it alone otherwise                    *)
(* (codex-taskbar-settings/src/main.rs:325-355).                             *)
SettingsFindable(window, monitors, margin) ==
    LET after == ActivateExistingWindow(window, monitors, margin)
        areas == MonitorChoice(monitors).all
    IN  /\ areas # {} => \E work \in areas : Meets(after, work)
        /\ (\E work \in areas : Meets(window, work)) => after = window

(* What is drawn in the card is what the mouse hits there, at every scale    *)
(* and size: both buttons at their centres, and every bucket of the chart    *)
(* (render.rs:251-257, 1415-1467).                                           *)
HitsWhatIsDrawn(client, dpi, points) ==
    LET scale == CardScale(client, dpi)
        At(x, y) == [x |-> DrawnPixel(x, client.width, CardWidth, scale, dpi),
                     y |-> DrawnPixel(y, client.height, CardHeight, scale, dpi)]
        Centre(b) == At((b.left + b.right) \div 2, (b.top + b.bottom) \div 2)
        Bucket(i) == At(TrendPlot.left + (Width(TrendPlot) * i) \div (points - 1), 400)
    IN  /\ \A action \in {"Refresh", "OpenSettings"} :
             ActionHit(client, dpi, Centre(ActionBounds(action))) = {action}
        /\ points >= 2 => \A i \in 0..(points - 1) : TrendHit(client, dpi, points, Bucket(i)) = {i}
=============================================================================
