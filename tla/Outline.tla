------------------------------- MODULE Outline -------------------------------
(***************************************************************************)
(* Glyphs of a TrueType font (user/libui/truetype.c): how the points of an *)
(* outline are unpacked, how a contour becomes lines and curves, and how   *)
(* the space inside is painted.                                            *)
(*                                                                         *)
(* A glyph is made point by point, together with the bytes a font stores   *)
(* for it; the format leaves several ways to store a point.  A byte that   *)
(* is a flag is a set of bit names, one that is a number an integer in     *)
(* 0..Base - 1; a word is two of them.  Coordinates are counted in half    *)
(* pixels, and the crossings of a scanline in units of 1 / (2 * Fine)      *)
(* pixels, which Fine makes whole numbers.                                 *)
(***************************************************************************)
EXTENDS Integers, Sequences, FiniteSets
LOCAL INSTANCE FiniteSetsExt
LOCAL INSTANCE SequencesExt

CONSTANTS
    Xs, Ys,      \* coordinates of points
    OnCurve,     \* whether points are on the curve: a set of BOOLEANs
    MaxPoints,   \* points of a glyph
    MaxContours, \* contours of a glyph
    Base,        \* values of a byte
    Packed,      \* whether the font uses the short forms
    Fine         \* a multiple of the height of every edge

VARIABLES
    points,      \* the outline: [x, y, on]
    ends,        \* the last point of each contour
    stored,      \* the flag bytes
    storedX,     \* the bytes of the x coordinates
    storedY
ovars == <<points, ends, stored, storedX, storedY>>

-----------------------------------------------------------------------------
(* What a font stores                                                      *)

Flag(bits) == [bits |-> bits, value |-> 0]
Byte(v) == [bits |-> {"number"}, value |-> v]
Word(v) == LET u == IF v < 0 THEN v + Base * Base ELSE v
           IN  <<Byte(u \div Base), Byte(u % Base)>>

\* The ways to store a step of delta along one axis: flag bits and bytes.
Ways(delta, short, same) ==
    LET Way(allowed, bits, bytes) == IF allowed THEN {[bits |-> bits, bytes |-> bytes]} ELSE {}
    IN  Way(TRUE, {}, Word(delta))
        \cup Way(Packed /\ delta = 0, {same}, <<>>)
        \cup Way(Packed /\ delta \in 0..Base - 1, {short, same}, <<Byte(delta)>>)
        \cup Way(Packed /\ -delta \in 0..Base - 1, {short}, <<Byte(-delta)>>)

\* A flag is stored for itself, or as one more of a run.
OneMore(bits) ==
    LET n == Len(stored)
    IN  IF n >= 2 /\ stored[n - 1].bits = bits \cup {"repeat"} /\ stored[n].bits = {"number"}
        THEN {[stored EXCEPT ![n] = Byte(@.value + 1)]}
        ELSE IF n >= 1 /\ stored[n].bits = bits THEN {Front(stored) \o <<Flag(bits \cup {"repeat"}), Byte(1)>>}
        ELSE {}

AddPoint ==
    /\ Len(points) < MaxPoints
    /\ \E x \in Xs, y \in Ys, on \in OnCurve :
        LET n == Len(points)
            before == IF n = 0 THEN [x |-> 0, y |-> 0] ELSE points[n]
        IN  \E wx \in Ways(x - before.x, "xshort", "xsame"), wy \in Ways(y - before.y, "yshort", "ysame") :
            LET bits == wx.bits \cup wy.bits \cup (IF on THEN {"on"} ELSE {})
            IN  /\ points' = Append(points, [x |-> x, y |-> y, on |-> on])
                /\ storedX' = storedX \o wx.bytes /\ storedY' = storedY \o wy.bytes
                /\ \/ stored' = Append(stored, Flag(bits))
                   \/ Packed /\ stored' \in OneMore(bits)
    /\ UNCHANGED ends

EndContour ==
    /\ Len(ends) < MaxContours
    /\ Len(points) > (IF ends = <<>> THEN 0 ELSE Last(ends))
    /\ ends' = Append(ends, Len(points))
    /\ UNCHANGED <<points, stored, storedX, storedY>>

OutlineInit == points = <<>> /\ ends = <<>> /\ stored = <<>> /\ storedX = <<>> /\ storedY = <<>>
OutlineNext == AddPoint \/ EndContour

-----------------------------------------------------------------------------
(* Unpacking: collect_simple, first half                                   *)

u16_at(data, p) == data[p].value * Base + data[p + 1].value
\* Mutant: a word has no sign.
i16_at_unsigned(data, p) == u16_at(data, p)
i16_at(data, p) ==
    LET u == u16_at(data, p) IN IF 2 * u >= Base * Base THEN u - Base * Base ELSE u

\* The flags of all points and the place behind them.
RECURSIVE unpack_flags(_, _, _, _)
unpack_flags(data, p, flags, count) ==
    IF Len(flags) >= count THEN [flags |-> flags, p |-> p]
    ELSE LET flag == data[p].bits
             left == count - Len(flags) - 1
         IN  IF "repeat" \notin flag THEN unpack_flags(data, p + 1, Append(flags, flag), count)
             ELSE unpack_flags(data, p + 2, flags \o [k \in 1..(1 +
                    (IF data[p + 1].value < left THEN data[p + 1].value ELSE left)) |-> flag], count)

\* One axis: the coordinates, each the one before and a step, and the place
\* behind them.
RECURSIVE unpack_axis(_, _, _, _, _, _)
unpack_axis(data, p, flags, short, same, values) ==
    LET n == Len(values)
        value == IF n = 0 THEN 0 ELSE values[n]
        flag == flags[n + 1]
        Step(delta, size) == unpack_axis(data, p + size, flags, short, same, Append(values, value + delta))
    IN  IF n = Len(flags) THEN [values |-> values, p |-> p]
        ELSE IF short \in flag THEN Step(IF same \in flag THEN data[p].value ELSE -data[p].value, 1)
        ELSE IF same \notin flag THEN Step(i16_at(data, p), 2)
        ELSE Step(0, 0)

Unpacked ==
    LET data == stored \o storedX \o storedY
        Points(flags, xs, ys) == [k \in DOMAIN flags |-> [x |-> xs[k], y |-> ys[k], on |-> "on" \in flags[k]]]
        WithX(flags, x) ==
            Points(flags, x.values, unpack_axis(data, x.p, flags, "yshort", "ysame", <<>>).values)
        WithFlags(f) == WithX(f.flags, unpack_axis(data, f.p, f.flags, "xshort", "xsame", <<>>))
    IN  WithFlags(unpack_flags(data, 1, <<>>, Len(points)))

-----------------------------------------------------------------------------
(* A contour as lines and curves: collect_simple, second half.  Here       *)
(* coordinates are doubled, so that the point between two is a whole one.  *)

Double(a) == <<2 * a.x, 2 * a.y>>
Between(a, b) == <<a.x + b.x, a.y + b.y>>
Line(a, b) == [from |-> a, control |-> a, to |-> b, curved |-> FALSE]
Quadratic(a, c, b) == [from |-> a, control |-> Double(c), to |-> b, curved |-> TRUE]

\* Where the loop starts, and which point it takes first.
Start(pts, first, last) ==
    IF pts[first].on THEN [at |-> Double(pts[first]), index |-> first + 1]
    ELSE IF pts[last].on THEN [at |-> Double(pts[last]), index |-> first]
    ELSE [at |-> Between(pts[first], pts[last]), index |-> first]

\* One point of the loop. `control' is the index of the off-curve point held
\* back, 0 if there is none.
Visit(pts, w, at) ==
    LET point == pts[at]
        Put(piece, cursor, control) ==
            [pieces |-> Append(w.pieces, piece), cursor |-> cursor, control |-> control]
    IN  IF point.on /\ w.control # 0
        THEN Put(Quadratic(w.cursor, pts[w.control], Double(point)), Double(point), 0)
        ELSE IF point.on THEN Put(Line(w.cursor, Double(point)), Double(point), 0)
        ELSE IF w.control # 0
        THEN LET implied == Between(pts[w.control], point)
             IN  Put(Quadratic(w.cursor, pts[w.control], implied), implied, at)
        ELSE [w EXCEPT !.control = at]

\* Mutant: a curve held back at the end of the loop is closed by a line.
CloseLine(pts, w, start) == Append(w.pieces, Line(w.cursor, start))
CloseContour(pts, w, start) ==
    Append(w.pieces, IF w.control # 0 THEN Quadratic(w.cursor, pts[w.control], start)
                     ELSE Line(w.cursor, start))

collect_contour(pts, first, last) ==
    LET start == Start(pts, first, last)
        count == last - first + 1
        order == [step \in 1..count |-> first + (((start.index - first) + step - 1) % count)]
        walked == FoldLeft(LAMBDA w, at : Visit(pts, w, at),
                           [pieces |-> <<>>, cursor |-> start.at, control |-> 0], order)
    IN  CloseContour(pts, walked, start.at)

First(k) == IF k = 1 THEN 1 ELSE ends[k - 1] + 1

-----------------------------------------------------------------------------
(* Painting: tt_render_glyph, for outlines of straight lines, with one     *)
(* scanline to a row                                                       *)

\* edges_push: upwards, with a direction; nothing for a horizontal edge.
edges_push(a, b) ==
    IF a[2] = b[2] THEN {}
    ELSE IF a[2] < b[2] THEN {[low |-> a, high |-> b, direction |-> 1]}
    ELSE {[low |-> b, high |-> a, direction |-> -1]}

\* The edges of all contours, in half pixels, as pairs with where they came from.
Edges ==
    LET Half(a) == <<a[1] \div 2, a[2] \div 2>>
        Pushed(k, pieces) ==
            UNION {{<<k, i, e>> : e \in edges_push(Half(pieces[i].from), Half(pieces[i].to))} :
                     i \in DOMAIN pieces}
    IN  UNION {Pushed(k, collect_contour(Unpacked, First(k), ends[k])) : k \in DOMAIN ends}

\* floor and ceil of half pixels.
Floor(h) == h \div 2
Ceil(h) == (h + 1) \div 2

\* The crossings of the line at height y (half pixels), left to right.
\* Mutant: an edge counts at both of its ends.
Crossed_closed(e, y) == y >= e.low[2] /\ y <= e.high[2]
Crossed(e, y) == y >= e.low[2] /\ y < e.high[2]
CrossingAt(e, y) ==
    Fine * e.low[1] + (Fine \div (e.high[2] - e.low[2])) * (y - e.low[2]) * (e.high[1] - e.low[1])
Crossings(edges, y) ==
    SetToSortSeq({k \in edges : Crossed(k[3], y)},
                 LAMBDA j, k : CrossingAt(j[3], y) < CrossingAt(k[3], y))

\* add_span: the share of each pixel, counted in 2 * Fine parts.
add_span(coverage, from, to) ==
    LET unit == 2 * Fine
        width == Len(coverage)
        x0 == IF from < 0 THEN 0 ELSE from
        x1 == IF to > width * unit THEN width * unit ELSE to
        first == x0 \div unit
        last == (x1 - 1) \div unit
    IN  IF x1 <= x0 THEN coverage
        ELSE IF first = last THEN [coverage EXCEPT ![first + 1] = @ + x1 - x0]
        ELSE [k \in DOMAIN coverage |-> coverage[k] +
                (IF k - 1 = first THEN (first + 1) * unit - x0
                 ELSE IF k - 1 > first /\ k - 1 < last THEN unit
                 ELSE IF k - 1 = last THEN x1 - last * unit ELSE 0)]

\* One row: spans wherever the running total of directions is not zero.
Row(crossings, y, left, width) ==
    LET X(i) == CrossingAt(crossings[i][3], y) - left * 2 * Fine
        Winding(i) == FoldLeft(LAMBDA n, k : n + k[3].direction, 0, SubSeq(crossings, 1, i))
        none == [k \in 1..width |-> 0]
    IN  IF Len(crossings) < 2 THEN none
        ELSE FoldLeft(LAMBDA coverage, i : IF Winding(i) # 0 THEN add_span(coverage, X(i), X(i + 1))
                                           ELSE coverage,
                      none, [i \in 1..Len(crossings) - 1 |-> i])

tt_render_glyph ==
    LET Blank == [left |-> 0, top |-> 0, rows |-> <<>>]
        Bitmap(edges, left, top, width, height) ==
            IF width <= 0 \/ height <= 0 THEN Blank
            ELSE [left |-> left, top |-> top,
                  rows |-> [r \in 1..height |->
                      LET y == 2 * (top - (r - 1)) - 1 IN Row(Crossings(edges, y), y, left, width)]]
        Fitted(edges, xs, ys) ==
            Bitmap(edges, Floor(Min(xs)), Ceil(Max(ys)),
                   Ceil(Max(xs)) - Floor(Min(xs)), Ceil(Max(ys)) - Floor(Min(ys)))
        Painted(edges) ==
            IF edges = {} THEN Blank
            ELSE Fitted(edges, UNION {{k[3].low[1], k[3].high[1]} : k \in edges},
                               UNION {{k[3].low[2], k[3].high[2]} : k \in edges})
    IN  Painted(Edges)

-----------------------------------------------------------------------------
(* Properties                                                              *)

(* The points unpacked from the bytes of a glyph are the points that were  *)
(* stored, whichever of its short forms and runs the font uses             *)
(* (truetype.c:391-427).                                                   *)
PointsExact == Unpacked = points

(* The lines and curves of a contour are one closed loop, each beginning   *)
(* where the last one ended; it passes through every point on the curve,   *)
(* and every point off it bends one piece, in order (truetype.c:439-497).  *)
ContourClosed ==
    \A k \in DOMAIN ends :
        LET pieces == collect_contour(points, First(k), ends[k])
            n == Len(pieces)
            mine == [i \in 1..(ends[k] - First(k) + 1) |-> points[First(k) + i - 1]]
            bends == SelectSeq(pieces, LAMBDA p : p.curved)
            off == SelectSeq(mine, LAMBDA p : ~p.on)
        IN  /\ \A i \in 1..n - 1 : pieces[i].to = pieces[i + 1].from
            /\ pieces[n].to = pieces[1].from
            /\ \A i \in DOMAIN mine : mine[i].on =>
                \E j \in DOMAIN pieces : pieces[j].to = Double(mine[i])
            /\ [i \in DOMAIN bends |-> bends[i].control] = [i \in DOMAIN off |-> Double(off[i])]

\* The sides of the outline as it was made, by where they begin, and those a
\* way out to the right meets from place q + 1/2 of the line at height y.
NextPoint(i) ==
    LET k == Min({j \in DOMAIN ends : i <= ends[j]})
    IN  points[IF i = ends[k] THEN First(k) ELSE i + 1]
Meets(i, y, q) ==
    LET a == points[i]
        b == NextPoint(i)
        Over(from, to) ==
            /\ y >= from.y /\ y < to.y
            /\ Fine * from.x + (Fine \div (to.y - from.y)) * (y - from.y) * (to.x - from.x) > q
    IN  IF a.y < b.y THEN Over(a, b) ELSE Over(b, a)

(* A pixel is covered by as much of its middle line as lies inside the     *)
(* outline by the non-zero winding rule, counted from the right-hand side, *)
(* and nothing inside is left out of the bitmap (truetype.c:659-756).      *)
InsideFilled ==
    LET unit == 2 * Fine
        Turns(up, met) == Cardinality(up) - Cardinality(met \ up)
        TurnsAt(met) == Turns({i \in met : NextPoint(i).y > points[i].y}, met)
        Wanted(px, py) ==       \* of pixel px in the row below height py
            Cardinality({q \in (px * unit)..(px * unit + unit - 1) :
                           TurnsAt({i \in DOMAIN points : Meets(i, 2 * py - 1, q)}) # 0})
        Cell(rows, r, c) ==
            IF r \in DOMAIN rows /\ c \in DOMAIN rows[r] THEN rows[r][c] ELSE 0
        Agrees(glyph) ==
            \A px \in Floor(Min(Xs))..Ceil(Max(Xs)), py \in Floor(Min(Ys))..Ceil(Max(Ys)) :
                Cell(glyph.rows, glyph.top - py + 1, px - glyph.left + 1) = Wanted(px, py)
    IN  (ends # <<>> /\ Last(ends) = Len(points) /\ \A i \in DOMAIN points : points[i].on) =>
        Agrees(tt_render_glyph)
==============================================================================
