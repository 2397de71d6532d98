------------------------------ MODULE Painter -------------------------------
(***************************************************************************)
(* Painting, user/libui/paint.c: filling and stroking rectangles, with or  *)
(* without rounded corners, under a clip and around a hole, and the shadow *)
(* made of such fills.  A painting is the number of times each pixel of    *)
(* the plane was blended; the coverage of a pixel by a corner is none,     *)
(* part or full.  A state is one rectangle, one radius and one clip.       *)
(***************************************************************************)
EXTENDS Integers, FiniteSets

CONSTANTS
    Far,            \* a surface without a clip is -Far..Far squared
    MaxSide,        \* rectangles up to this width and height
    MaxRadius, MaxElevation,
    Clips           \* the parent's clips, and the children in them

VARIABLES width, height, radius, elevation, clip, child

paintvars == <<width, height, radius, elevation, clip, child>>

Rect(x, y, w, h) == [x |-> x, y |-> y, w |-> w, h |-> h]
NoHole == Rect(0, 0, 0, 0)
Within(p, r) == p[1] >= r.x /\ p[1] < r.x + r.w /\ p[2] >= r.y /\ p[2] < r.y + r.h
Larger(a, b) == IF a > b THEN a ELSE b
Smaller(a, b) == IF a < b THEN a ELSE b

\* A bug: the child's own rectangle is its clip.
ui_painter_own(parent, c) == c
\* The clip of a child: its own rectangle inside its parent's clip.
ui_painter_for(parent, c) ==
    LET x == Larger(c.x, parent.x)  y == Larger(c.y, parent.y)
        right == Smaller(c.x + c.w, parent.x + parent.w)
        bottom == Smaller(c.y + c.h, parent.y + parent.h)
    IN Rect(x, y, Larger(right - x, 0), Larger(bottom - y, 0))

\* clip_rect: the corners of what is left of a rectangle, maybe crossed.
clip_rect(c, r) ==
    [x0 |-> Larger(r.x, c.x), y0 |-> Larger(r.y, c.y),
     x1 |-> Smaller(r.x + r.w, c.x + c.w), y1 |-> Smaller(r.y + r.h, c.y + c.h)]

clipped_is_empty(b) == b.x0 >= b.x1 \/ b.y0 >= b.y1

\* plot and blend_pixel: nothing outside the clip.
plot(c, p) == IF Within(p, c) THEN {p} ELSE {}

ui_fill_rect(c, r) ==
    LET b == clip_rect(c, r)
    IN IF clipped_is_empty(b) THEN {} ELSE (b.x0..(b.x1 - 1)) \X (b.y0..(b.y1 - 1))

(***************************************************************************)
(* Corners: distances are counted in halves of a pixel                     *)
(***************************************************************************)
disc_coverage(centre, r, x, y) ==
    LET dx == 2 * x + 1 - 2 * centre  dy == 2 * y + 1 - 2 * centre
        squared == dx * dx + dy * dy
    IN IF 2 * r - 1 > 0 /\ squared <= (2 * r - 1) * (2 * r - 1) THEN "full"
       ELSE IF squared >= (2 * r + 1) * (2 * r + 1) THEN "none" ELSE "part"

\* A bug: only the width limits the radius.
clamp_radius_width(r, wanted) == Smaller(wanted, r.w \div 2)

clamp_radius(r, wanted) ==
    Smaller(Smaller(Larger(wanted, 0), r.w \div 2), r.h \div 2)

\* span_alpha: one run of a row, in one or two parts around the hole.
span_alpha(c, y, from, to, hole) ==
    LET Run(a, b) == IF a >= b THEN {} ELSE ui_fill_rect(c, Rect(a, y, b - a, 1)) IN
    IF hole.h > 0 /\ y >= hole.y /\ y < hole.y + hole.h
    THEN (IF from < hole.x THEN Run(from, Smaller(to, hole.x)) ELSE {})
         \cup (IF to > hole.x + hole.w THEN Run(Larger(from, hole.x + hole.w), to) ELSE {})
    ELSE Run(from, to)

\* A bug: the hole is not looked at, corners are painted into it.
point_anywhere(c, p, hole) == plot(c, p)
point_alpha(c, p, hole) == IF Within(p, hole) THEN {} ELSE plot(c, p)

\* What is painted, as a set of <<call, pixel>>: a pixel painted by two calls is
\* in it twice.
Painted(calls) == {k[2] : k \in calls}
Tag(name, pixels) == {<<name, p>> : p \in pixels}

\* The four corners a pixel of a corner block stands for.
Corners(r, x, y) ==
    {<<"left top", <<r.x + x, r.y + y>>>>, <<"right top", <<r.x + r.w - 1 - x, r.y + y>>>>,
     <<"left bottom", <<r.x + x, r.y + r.h - 1 - y>>>>,
     <<"right bottom", <<r.x + r.w - 1 - x, r.y + r.h - 1 - y>>>>}

fill_rounded_hole(c, r, wanted, hole) ==
    LET rad == clamp_radius(r, wanted)
        Row(y) == Tag("row", span_alpha(c, r.y + y, r.x, r.x + r.w, hole))
        Between(name, y) ==
            Tag(name, span_alpha(c, y, r.x + rad, r.x + r.w - rad, hole))
        corner == {<<x, y>> \in (0..(rad - 1)) \X (0..(rad - 1)) :
                        disc_coverage(rad, rad, x, y) # "none"}
    IN IF r.w <= 0 \/ r.h <= 0 THEN {}
       ELSE UNION {Row(y) : y \in rad..(r.h - rad - 1)}
            \cup UNION {Between("top", r.y + y) \cup Between("bottom", r.y + r.h - 1 - y) :
                            y \in 0..(rad - 1)}
            \cup UNION {UNION {Tag(k[1], point_alpha(c, k[2], hole)) :
                                    k \in Corners(r, q[1], q[2])} : q \in corner}

\* A bug: the edge is a pixel too long.
edge_long(c, r, rad, y) == span_alpha(c, y, r.x + rad, r.x + r.w - rad + 1, NoHole)
\* The straight part of the top or bottom edge of a stroke.
edge_span(c, r, rad, y) == span_alpha(c, y, r.x + rad, r.x + r.w - rad, NoHole)

\* A ring: covered by the disc and not by the one a pixel smaller.
ui_stroke_rounded_alpha(c, r, wanted) ==
    LET rad == clamp_radius(r, wanted)
        Sides(y) == Tag("left side", plot(c, <<r.x, r.y + y>>))
                    \cup Tag("right side", plot(c, <<r.x + r.w - 1, r.y + y>>))
        from == IF rad = 0 THEN 1 ELSE rad
        ring == {<<x, y>> \in (0..(rad - 1)) \X (0..(rad - 1)) :
                    /\ disc_coverage(rad, rad, x, y) # "none"
                    /\ disc_coverage(rad, rad - 1, x, y) # "full"}
    IN IF r.w <= 0 \/ r.h <= 0 THEN {}
       ELSE Tag("top", edge_span(c, r, rad, r.y))
            \cup Tag("bottom", edge_span(c, r, rad, r.y + r.h - 1))
            \cup UNION {Sides(y) : y \in from..(r.h - from - 1)}
            \cup UNION {UNION {Tag(k[1], plot(c, k[2])) : k \in Corners(r, q[1], q[2])} :
                            q \in ring}

\* The layers of a shadow: larger and larger rounded rectangles, moved down.
Layer(r, lift, n) ==
    Rect(r.x - n, r.y - n + (lift + 1) \div 2, r.w + 2 * n, r.h + 2 * n)

ui_drop_shadow(c, r, wanted, lift, hole) ==
    UNION {Tag(n, Painted(fill_rounded_hole(c, Layer(r, lift, n), wanted + n, hole))) : n \in 1..lift}

(***************************************************************************)
(* The rectangles tried                                                    *)
(***************************************************************************)
PaintInit ==
    /\ width = 1 /\ height = 1 /\ radius = 0 /\ elevation = 0
    /\ \E pair \in Clips : clip = pair[1] /\ child = pair[2]

PaintNext ==
    /\ UNCHANGED <<clip, child>>
    /\ \/ width < MaxSide /\ width' = width + 1 /\ UNCHANGED <<height, radius, elevation>>
       \/ height < MaxSide /\ height' = height + 1 /\ UNCHANGED <<width, radius, elevation>>
       \/ radius < MaxRadius /\ radius' = radius + 1 /\ UNCHANGED <<width, height, elevation>>
       \/ elevation < MaxElevation /\ elevation' = elevation + 1
          /\ UNCHANGED <<width, height, radius>>

Shape == Rect(0, 0, width, height)
Bounds == ui_painter_for(clip, child)
Everywhere == Rect(-Far, -Far, 2 * Far + 1, 2 * Far + 1)

(***************************************************************************)
(* Properties                                                              *)
(***************************************************************************)
\* "a child can never draw outside the parent that placed it": whatever the
\* rectangle and the radius, no primitive touches a pixel outside the child or
\* outside the clip of its parent, and inside both it paints what it would paint
\* without a clip.
ClipExact ==
    LET Seen(calls) == {k \in calls : Within(k[2], clip) /\ Within(k[2], child)} IN
    /\ fill_rounded_hole(Bounds, Shape, radius, NoHole)
            = Seen(fill_rounded_hole(Everywhere, Shape, radius, NoHole))
    /\ ui_stroke_rounded_alpha(Bounds, Shape, radius)
            = Seen(ui_stroke_rounded_alpha(Everywhere, Shape, radius))

\* No pixel is blended twice by one fill, nor by one stroke of a rectangle at
\* least two pixels wide and high: a translucent shape has no darker seams where
\* its corners, spans and sides meet, for odd sides and radii too large for it.
BlendedOnce ==
    LET fill == fill_rounded_hole(Everywhere, Shape, radius, NoHole)
        stroke == ui_stroke_rounded_alpha(Everywhere, Shape, radius)
    IN /\ Cardinality(fill) = Cardinality(Painted(fill))
       /\ (width > 1 /\ height > 1) => Cardinality(stroke) = Cardinality(Painted(stroke))

\* The outline of a shape lies on the fill of the same shape: no part of a border
\* is drawn on what is behind the control.
StrokeOnFill ==
    Painted(ui_stroke_rounded_alpha(Everywhere, Shape, radius))
        \subseteq Painted(fill_rounded_hole(Everywhere, Shape, radius, NoHole))

\* Cutting the covered rectangle out of a shadow changes nothing outside of it:
\* each layer paints the same pixels around the hole, and none in it.
HoleOnly ==
    LET cut == ui_drop_shadow(Everywhere, Shape, radius, elevation, Shape)
        whole == ui_drop_shadow(Everywhere, Shape, radius, elevation, NoHole)
    IN cut = {k \in whole : ~Within(k[2], Shape)}
=============================================================================
