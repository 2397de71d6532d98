------------------------------- MODULE Toolkit -------------------------------
(***************************************************************************)
(* libui: the window and its event delivery (user/libui/window.c), the     *)
(* widget tree and the box that lays it out (widget.c), and the controls   *)
(* (controls.c).                                                           *)
(*                                                                         *)
(* A window holds one horizontal box of a label, a button, a checkbox and  *)
(* a text field.  Coordinates are columns only; every widget has the       *)
(* window's height.  What paint() draws is the list of the fields it       *)
(* reads, so a column is current when it holds that list.                  *)
(***************************************************************************)
EXTENDS Integers, Sequences

CONSTANTS
    WindowWidth,   \* columns of the window's buffer
    TextMax,       \* TEXT_MAX
    Letters,       \* printable codepoints
    Points,        \* columns the pointer visits
    Rows,          \* the children box_layout is checked on: sequences of
                   \* [along, expand]
    Spacing, Padding

VARIABLES
    shape,       \* the row box_layout is checked on, grown by AddChild
    rect,        \* widget -> <<x, width>>
    look,        \* widget -> the fields its paint reads, the window's aside
    focused, hovered, grab,
    damaged,     \* damage_x0, damage_x1
    needsLayout, \* needs_layout
    running,
    surface,     \* the buffer: column -> what was painted there
    shown,       \* the columns as the compositor last read them
    clicks,      \* on_click calls
    edited       \* the field as two strings around the caret

uivars == <<shape, rect, look, focused, hovered, grab, damaged, needsLayout,
            running, surface, shown, clicks, edited>>

Widgets == {"label", "button", "check", "field"}
Row == <<"label", "button", "check", "field">>
Nobody == "nobody"
Larger(a, b) == IF a > b THEN a ELSE b
Smaller(a, b) == IF a < b THEN a ELSE b

(***************************************************************************)
(* box_layout: the widths and places of a row of children                  *)
(***************************************************************************)
SumTo(s, n) ==
    LET Add[i \in 0..n] == IF i = 0 THEN 0 ELSE Add[i - 1] + s[i] IN Add[n]

\* A bug: the gaps between the children are not counted.
WantedLoose(row) == SumTo([i \in DOMAIN row |-> row[i].along], Len(row))

Wanted(row) ==
    SumTo([i \in DOMAIN row |-> row[i].along], Len(row))
        + (IF Len(row) > 1 THEN Spacing * (Len(row) - 1) ELSE 0)

Expanders(row, n) == SumTo([i \in DOMAIN row |-> IF row[i].expand THEN 1 ELSE 0], n)

\* The length child i gets: its share of a shortfall is taken away, its share
\* of what is left over is added, the remainder going to the first expanders.
Along(row, available, i) ==
    LET wanted == Wanted(row)
        shortfall == Larger(wanted - available, 0)
        leftover == Larger(available - wanted, 0)
        all == Expanders(row, Len(row))
        give == IF shortfall > 0 /\ wanted > 0
                THEN Smaller((row[i].along * shortfall) \div wanted, row[i].along) ELSE 0
        extra == IF ~row[i].expand THEN 0
                 ELSE (leftover \div all)
                        + (IF Expanders(row, i) <= leftover % all THEN 1 ELSE 0)
    IN row[i].along - give + extra

box_layout(row, width) ==
    LET available == width - 2 * Padding
        length == [i \in DOMAIN row |-> Along(row, available, i)]
    IN [i \in DOMAIN row |->
            <<Padding + SumTo(length, i - 1) + Spacing * (i - 1), length[i]>>]

(***************************************************************************)
(* Damage and painting                                                     *)
(***************************************************************************)
ui_window_damage(d, x, width) ==
    LET a == Larger(x, 0)  b == Smaller(x + width, WindowWidth)
    IN IF a >= b THEN d
       ELSE IF d[1] >= d[2] THEN <<a, b>>
       ELSE <<Smaller(a, d[1]), Larger(b, d[2])>>

ui_widget_invalidate(d, w) ==
    IF w = Nobody THEN d ELSE ui_window_damage(d, rect[w][1], rect[w][2])

ui_widget_at(x) ==
    LET hit == {w \in Widgets : x >= rect[w][1] /\ x < rect[w][1] + rect[w][2]}
    IN IF hit # {} THEN CHOOSE w \in hit : TRUE
       ELSE IF x \in 0..(WindowWidth - 1) THEN "box" ELSE Nobody

\* What each paint function draws: the fields it reads.
label_paint(l) == <<l>>
button_paint(l, isFocused, isHovered) ==
    <<l.text, IF l.pressed THEN "pressed" ELSE IF isHovered THEN "hover" ELSE "plain", isFocused>>
checkbox_paint(l, isHovered) ==
    <<l.checked, IF l.checked THEN "filled" ELSE IF isHovered THEN "strong" ELSE "thin">>
textfield_paint(l, isFocused) ==
    <<l.text, IF isFocused THEN <<"caret", l.caret>> ELSE <<"blurred">> >>

paint(w, l, f, h) ==
    CASE w = "label" -> label_paint(l)
      [] w = "button" -> button_paint(l, f = w, h = w)
      [] w = "check" -> checkbox_paint(l, h = w)
      [] w = "field" -> textfield_paint(l, f = w)

Painted(x, r, l, f, h) ==
    LET over == {w \in Widgets : x >= r[w][1] /\ x < r[w][1] + r[w][2]}
    IN IF over = {} THEN <<"background">>
       ELSE LET w == CHOOSE v \in over : TRUE IN paint(w, l[w], f, h)

\* repaint: lay out if asked, paint inside the damage, and announce it.
repaint ==
    LET widths == [i \in 1..Len(Row) |-> [along |-> IF Row[i] = "button" THEN 2 ELSE 1,
                                   expand |-> Row[i] = "field"]]
        placed == box_layout(widths, WindowWidth)
        r == IF needsLayout THEN [w \in Widgets |-> placed[CHOOSE i \in 1..Len(Row) : Row[i] = w]] ELSE rect
        d == IF needsLayout THEN ui_window_damage(damaged, 0, WindowWidth) ELSE damaged
        inside == {x \in 0..(WindowWidth - 1) : x >= d[1] /\ x < d[2]}
    IN
    /\ running
    /\ needsLayout \/ damaged[1] < damaged[2]
    /\ rect' = r
    /\ needsLayout' = FALSE
    /\ surface' = [x \in DOMAIN surface |->
            IF x \in inside THEN Painted(x, r, look, focused, hovered) ELSE surface[x]]
    /\ shown' = [x \in DOMAIN shown |-> IF x \in inside THEN surface'[x] ELSE shown[x]]
    /\ damaged' = <<0, 0>>
    /\ UNCHANGED <<shape, look, focused, hovered, grab, running, clicks, edited>>

\* A bug: the widget that loses the focus is not repainted.
ui_window_focus_gain(d, w) == IF focused = w THEN d ELSE ui_widget_invalidate(d, w)

(***************************************************************************)
(* Events: deliver_mouse walks up from the target until one consumes       *)
(***************************************************************************)
ui_window_focus(d, w) ==
    IF focused = w THEN d ELSE ui_widget_invalidate(ui_widget_invalidate(d, focused), w)

Inside(w, x) == x >= rect[w][1] /\ x < rect[w][1] + rect[w][2]

\* A bug: the button comes up as soon as the pointer leaves it.
button_on_mouse_inside(d, x, down) ==
    LET was == look["button"].pressed
        now == down /\ Inside("button", x)
    IN
    /\ look' = [look EXCEPT !["button"].pressed = now]
    /\ damaged' = IF was # now THEN ui_widget_invalidate(d, "button") ELSE d
    /\ clicks' = IF was /\ ~down /\ Inside("button", x) THEN (clicks + 1) % 2 ELSE clicks
    /\ UNCHANGED focused

button_on_mouse(d, x, down) ==
    LET was == look["button"].pressed IN
    /\ look' = [look EXCEPT !["button"].pressed = down]
    /\ damaged' = IF was # down THEN ui_widget_invalidate(d, "button") ELSE d
    /\ clicks' = IF was /\ ~down /\ Inside("button", x) THEN (clicks + 1) % 2 ELSE clicks
    /\ UNCHANGED focused

checkbox_on_mouse(d, x, down) ==
    LET toggled == look["check"].pressed /\ ~down /\ Inside("check", x) IN
    /\ look' = [look EXCEPT !["check"].pressed = down,
                            !["check"].checked = IF toggled THEN ~@ ELSE @]
    /\ damaged' = IF toggled THEN ui_widget_invalidate(d, "check") ELSE d
    /\ UNCHANGED <<focused, clicks>>

textfield_on_mouse(d, x, down) ==
    /\ focused' = IF down THEN "field" ELSE focused
    /\ damaged' = IF down THEN ui_widget_invalidate(ui_window_focus(d, "field"), "field") ELSE d
    /\ UNCHANGED <<look, clicks>>

deliver_mouse(x, down) ==
    LET under == ui_widget_at(x)
        target == IF grab # Nobody THEN grab ELSE under
        Mark(d, w) == IF w = "box" THEN ui_window_damage(d, 0, WindowWidth)
                      ELSE ui_widget_invalidate(d, w)
        d == IF under # hovered THEN Mark(Mark(damaged, hovered), under) ELSE damaged
    IN
    /\ running /\ ~needsLayout
    /\ hovered' = under
    /\ grab' = IF target = Nobody THEN grab
               ELSE IF down THEN target ELSE Nobody
    /\ CASE target = "button" -> button_on_mouse(d, x, down)
         [] target = "check" -> checkbox_on_mouse(d, x, down)
         [] target = "field" -> textfield_on_mouse(d, x, down)
         [] OTHER -> damaged' = d /\ UNCHANGED <<look, focused, clicks>>
    /\ UNCHANGED <<shape, rect, needsLayout, running, surface, shown, edited>>

\* A bug: the caret stays before what was typed.
InsertedBehind(f, key) ==
    [text |-> SubSeq(f.text, 1, f.caret) \o <<key>> \o SubSeq(f.text, f.caret + 1, Len(f.text)),
     caret |-> f.caret]
\* A character typed at the caret.
Inserted(f, key) ==
    [text |-> SubSeq(f.text, 1, f.caret) \o <<key>> \o SubSeq(f.text, f.caret + 1, Len(f.text)),
     caret |-> f.caret + 1]

\* textfield_on_key: motion, backspace and insertion at the caret.
textfield_on_key(key) ==
    LET f == look["field"]
        n == Len(f.text)
        rear == SubSeq(f.text, f.caret + 1, n)
        next ==
            CASE key = "left" -> [f EXCEPT !.caret = Larger(f.caret - 1, 0)]
              [] key = "right" -> [f EXCEPT !.caret = Smaller(f.caret + 1, n)]
              [] key = "home" -> [f EXCEPT !.caret = 0]
              [] key = "end" -> [f EXCEPT !.caret = n]
              [] key = "backspace" /\ f.caret > 0 ->
                    [text |-> SubSeq(f.text, 1, f.caret - 1) \o rear, caret |-> f.caret - 1]
              [] key \in Letters /\ n + 1 < TextMax ->
                    Inserted(f, key)
              [] OTHER -> f
        ignored == (key = "backspace" /\ f.caret = 0) \/ (key \in Letters /\ n + 1 >= TextMax)
    IN
    /\ look' = [look EXCEPT !["field"] = next]
    /\ damaged' = IF ignored THEN damaged ELSE ui_widget_invalidate(damaged, "field")

\* The same keys on the pair of strings left and right of the caret.
Edit(e, key) ==
    LET l == e[1]  r == e[2] IN
    CASE key = "left" /\ l # <<>> -> <<SubSeq(l, 1, Len(l) - 1), <<l[Len(l)]>> \o r>>
      [] key = "right" /\ r # <<>> -> <<Append(l, Head(r)), Tail(r)>>
      [] key = "home" -> <<<<>>, l \o r>>
      [] key = "end" -> <<l \o r, <<>>>>
      [] key = "backspace" /\ l # <<>> -> <<SubSeq(l, 1, Len(l) - 1), r>>
      [] key \in Letters /\ Len(l) + Len(r) < TextMax - 1 -> <<Append(l, key), r>>
      [] OTHER -> e

deliver_key(key) ==
    /\ running /\ ~needsLayout
    /\ focused = "field"
    /\ textfield_on_key(key)
    /\ edited' = Edit(edited, key)
    /\ UNCHANGED <<shape, rect, focused, hovered, grab, needsLayout, running, surface, shown, clicks>>

\* The application changes what a control shows.
ui_label_set_text == look' = [look EXCEPT !["label"] = 1 - @]
ui_button_set_text == look' = [look EXCEPT !["button"].text = 1 - @]
ui_checkbox_set_checked == look' = [look EXCEPT !["check"].checked = ~@]
ui_textfield_set_text(text) ==
    /\ look' = [look EXCEPT !["field"] = [text |-> text, caret |-> Len(text)]]
    /\ edited' = <<text, <<>>>>

SetText(w) ==
    /\ running
    /\ \/ w = "label" /\ ui_label_set_text /\ UNCHANGED edited
       \/ w = "button" /\ ui_button_set_text /\ UNCHANGED edited
       \/ w = "check" /\ ui_checkbox_set_checked /\ UNCHANGED edited
       \/ w = "field" /\ \E text \in {<<>>} \cup {<<c>> : c \in Letters} : ui_textfield_set_text(text)
    /\ damaged' = ui_widget_invalidate(damaged, w)
    /\ UNCHANGED <<shape, rect, focused, hovered, grab, needsLayout, running, surface, shown, clicks>>

Focus(w) ==
    /\ running
    /\ focused' = w
    /\ damaged' = ui_window_focus(damaged, w)
    /\ UNCHANGED <<shape, rect, look, hovered, grab, needsLayout, running, surface, shown, clicks,
                   edited>>

\* WSYS_CLOSE_REQUEST, or ui_window_close.
ui_window_close ==
    /\ running /\ running' = FALSE
    /\ UNCHANGED <<shape, rect, look, focused, hovered, grab, damaged, needsLayout, surface, shown,
                   clicks, edited>>

\* One more child in the row the layout is checked on.
AddChild(c) ==
    /\ needsLayout /\ ~running /\ Len(shape) < 3
    /\ shape' = Append(shape, c)
    /\ UNCHANGED <<rect, look, focused, hovered, grab, damaged, needsLayout, running, surface,
                   shown, clicks, edited>>

UiInit ==
    /\ shape = <<>>
    /\ rect = [w \in Widgets |-> <<0, 0>>]
    /\ look = [label |-> 0, button |-> [text |-> 0, pressed |-> FALSE],
               check |-> [checked |-> FALSE, pressed |-> FALSE],
               field |-> [text |-> <<>>, caret |-> 0]]
    /\ focused = Nobody /\ hovered = Nobody /\ grab = Nobody
    /\ damaged = <<0, 0>>
    /\ needsLayout = TRUE /\ running = TRUE
    /\ surface = [x \in 0..(WindowWidth - 1) |-> <<"unpainted">>]
    /\ shown = surface
    /\ clicks = 0
    /\ edited = <<<<>>, <<>>>>

UiNext ==
    \/ repaint
    \/ \E x \in Points, down \in BOOLEAN : deliver_mouse(x, down)
    \/ \E key \in Letters \cup {"left", "right", "home", "end", "backspace"} : deliver_key(key)
    \/ \E w \in Widgets : SetText(w)
    \/ \E w \in {"button", "field"} : Focus(w)
    \/ ui_window_close
    \/ \E c \in Rows : AddChild(c)

(***************************************************************************)
(* Properties                                                              *)
(***************************************************************************)
\* A window with nothing left to repaint shows, in its buffer and at the
\* compositor, what painting every widget afresh would draw: no handler changes
\* a field that paint reads without damaging the columns it is drawn in.
SurfaceCurrent ==
    (~needsLayout /\ damaged[1] >= damaged[2]) =>
        \A x \in DOMAIN surface :
            /\ surface[x] = Painted(x, rect, look, focused, hovered)
            /\ shown[x] = surface[x]

\* A button or checkbox looks pressed exactly while it holds the mouse grab,
\* so a press always meets its release however the pointer wandered between.
PressedIsGrabbed ==
    /\ look["button"].pressed <=> (grab = "button")
    /\ look["check"].pressed <=> (grab = "check")

\* The field's array, length and caret are the two strings around the caret that
\* the same keys give, for keys refused at either end and at TEXT_MAX too.
EditFaithful ==
    LET f == look["field"] IN
    <<SubSeq(f.text, 1, f.caret), SubSeq(f.text, f.caret + 1, Len(f.text))>> = edited

\* Whenever the children fit, box_layout gives nobody less than was asked for,
\* and if one of them expands the row ends exactly at the inner edge.
LayoutFills ==
    shape # <<>> =>
        \A width \in (Wanted(shape) + 2 * Padding)..(Wanted(shape) + 2 * Padding + 5) :
            LET placed == box_layout(shape, width)  n == Len(shape) IN
            /\ \A i \in 1..n : placed[i][2] >= shape[i].along
            /\ \A i \in 2..n : placed[i][1] = placed[i - 1][1] + placed[i - 1][2] + Spacing
            /\ Expanders(shape, n) > 0 => placed[n][1] + placed[n][2] = width - Padding
=============================================================================
