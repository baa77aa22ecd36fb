----------------------------- MODULE TrendCurve -----------------------------
(***************************************************************************)
(* The smooth line of the card's trend chart (render.rs): a cubic through  *)
(* the real points whose slopes are limited so that it never leaves the    *)
(* range of the two points beside it.  An anchor is [x, y]; a slope is the *)
(* exact fraction n / d, d > 0, of what the code computes in f32.          *)
(***************************************************************************)
EXTENDS Integers, Sequences

Ratio(n, d) == IF d < 0 THEN [n |-> -n, d |-> -d] ELSE [n |-> n, d |-> d]
Plus(a, b) == Ratio(a.n * b.d + b.n * a.d, a.d * b.d)
AtMost(a, b) == a.n * b.d <= b.n * a.d
Magnitude(a) == Ratio(IF a.n < 0 THEN -a.n ELSE a.n, a.d)
\* The sign of an f32: zero has the sign of a positive number.
Signum(a) == IF a.n < 0 THEN -1 ELSE 1

GapAfter(anchors, i) == anchors[i + 1].x - anchors[i].x
SegmentSlope(anchors, i) == Ratio(anchors[i + 1].y - anchors[i].y, GapAfter(anchors, i))

\* endpoint_tangent.
EndpointTangent(width, adjacent, slope, next) ==
    LET tangent == Ratio((2 * width + adjacent) * slope.n * next.d - width * next.n * slope.d,
                         slope.d * next.d * (width + adjacent))
        limit == Ratio(3 * slope.n, slope.d)
    IN  IF Signum(tangent) # Signum(slope) THEN Ratio(0, 1)
        ELSE IF Signum(slope) # Signum(next) /\ ~AtMost(Magnitude(tangent), Magnitude(limit))
        THEN limit
        ELSE tangent

\* The weighted harmonic mean inside, and zero at a peak, a valley or beside a flat.
InnerTangent(anchors, i) ==
    LET before == SegmentSlope(anchors, i - 1)
        after == SegmentSlope(anchors, i)
        wBefore == 2 * GapAfter(anchors, i) + GapAfter(anchors, i - 1)
        wAfter == GapAfter(anchors, i) + 2 * GapAfter(anchors, i - 1)
    IN  IF before.n = 0 \/ after.n = 0 \/ Signum(before) # Signum(after) THEN Ratio(0, 1)
        ELSE Ratio((wBefore + wAfter) * before.n * after.n,
                   wBefore * before.d * after.n + wAfter * after.d * before.n)

MonotoneTangents(anchors) ==
    LET last == Len(anchors)
        Slope(i) == SegmentSlope(anchors, i)
    IN  IF last = 2 THEN [i \in 1..2 |-> Slope(1)]
        ELSE [i \in 1..last |->
                CASE i = 1 -> EndpointTangent(GapAfter(anchors, 1), GapAfter(anchors, 2), Slope(1), Slope(2))
                  [] i = last -> EndpointTangent(GapAfter(anchors, last - 1), GapAfter(anchors, last - 2),
                                                 Slope(last - 1), Slope(last - 2))
                  [] OTHER -> InnerTangent(anchors, i)]

\* The y of segment i after k of s subdivisions.
CurveY(anchors, i, k, s) ==
    LET m == MonotoneTangents(anchors)
        cube == s * s * s
        h00 == 2 * k * k * k - 3 * k * k * s + cube
        h10 == k * k * k - 2 * k * k * s + k * s * s
        h11 == k * k * k - k * k * s
        ends == Ratio(h00 * anchors[i].y + (cube - h00) * anchors[i + 1].y, cube)
        bends == Plus(Ratio(h10 * GapAfter(anchors, i) * m[i].n, cube * m[i].d),
                      Ratio(h11 * GapAfter(anchors, i) * m[i + 1].n, cube * m[i + 1].d))
    IN  Plus(ends, bends)

(* "The curve passes through every real point, and every interval stays in   *)
(* the range of the values at its ends" (render.rs:1296-1297), for any       *)
(* peaks, flats and spacing.                                                 *)
CurveStaysBetween(anchors, s) ==
    \A i \in 1..(Len(anchors) - 1) :
      LET a == anchors[i].y
          b == anchors[i + 1].y
          low == IF a <= b THEN a ELSE b
          high == IF a <= b THEN b ELSE a
      IN  /\ CurveY(anchors, i, s, s).n = b * CurveY(anchors, i, s, s).d
          /\ \A k \in 1..s : LET y == CurveY(anchors, i, k, s)
                             IN  low * y.d <= y.n /\ y.n <= high * y.d
=============================================================================
