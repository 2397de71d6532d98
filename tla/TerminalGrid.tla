---------------------------- MODULE TerminalGrid ----------------------------
(***************************************************************************)
(* The terminal widget, user/libui/terminal.c: one ring of rows for        *)
(* scrollback and screen together, the escape sequence parser, the rows    *)
(* marked dirty, and painting.                                             *)
(*                                                                         *)
(* A byte is a name.  A cell is its character,                             *)
(* attributes and background; the foreground is set like the background.   *)
(* Tab stops are TabWidth apart (eight in the code).                       *)
(***************************************************************************)
EXTENDS Integers, Sequences

CONSTANTS
    Shapes,          \* the <<columns, rows>> a layout can give
    ScrollbackRows,  \* SCROLLBACK_ROWS
    MaxParameters,   \* MAX_PARAMETERS
    TabWidth,
    Alphabet,        \* the bytes that may arrive
    MaxFed           \* bound on bytes fed

VARIABLES
    columns, rows,
    storage,         \* the ring: index -> row
    top, used, view,
    cursor,          \* <<cursor_x, cursor_y>>
    saved,           \* <<saved_x, saved_y>>
    pen,             \* <<attributes, background>>
    dirty,           \* <<dirty_top, dirty_bottom>>
    state, parameters, private,
    feeding,         \* `was` of the ui_terminal_feed under way, -1 outside
    surface,         \* screen row -> what was painted there
    paper,           \* every row there has been since the last reset
    unmarked,        \* rows erase_in_display changed and did not mark
    fed

gvars == <<columns, rows, storage, top, used, view, cursor, saved, pen, dirty,
           state, parameters, private, feeding, surface, paper, unmarked, fed>>

Blank == -1     \* no attributes, the default background
Smaller(a, b) == IF a < b THEN a ELSE b
Larger(a, b) == IF a > b THEN a ELSE b
StorageRows == Larger(ScrollbackRows, rows)

row_at(index) == (top + index) % StorageRows
screen_row(y) == row_at(used - rows + y)

\* touch_rows: one range of rows, grown to cover what is added.
touch_rows(d, from, to) ==
    LET a == Larger(from, 0)  b == Smaller(to, rows)
    IN IF a >= b THEN d
       ELSE IF d[1] >= d[2] THEN <<a, b>>
       ELSE <<Smaller(a, d[1]), Larger(b, d[2])>>

touch_all(d) == touch_rows(d, 0, rows)

Empty(pn) == <<" ", 0, pn[2]>>
clear_row(pn) == [x \in 0..(columns - 1) |-> Empty(pn)]
erase_cells(row, from, to) == [x \in DOMAIN row |-> IF x >= from /\ x < to THEN Empty(pen) ELSE row[x]]

\* The state scroll_up and the writers share, as a record.
Grid == [storage |-> storage, top |-> top, used |-> used, view |-> view,
         y |-> cursor[2], dirty |-> dirty, paper |-> paper]

\* A bug: a full ring does not move its top on.
scroll_up_stuck(g) ==
    LET u == IF g.used >= StorageRows THEN g.used ELSE g.used + 1
    IN [g EXCEPT !.used = u, !.view = 0,
                 !.storage = [@ EXCEPT ![(g.top + u - 1) % StorageRows] = clear_row(pen)],
                 !.dirty = touch_all(@), !.y = @ - 1,
                 !.paper = Append(@, clear_row(pen))]

\* scroll_up: a row more of the ring, or the oldest one again as the bottom line.
scroll_up(g) ==
    LET full == g.used >= StorageRows
        t == IF full THEN (g.top + 1) % StorageRows ELSE g.top
        u == IF full THEN g.used ELSE g.used + 1
    IN [g EXCEPT !.top = t, !.used = u, !.view = 0,
                 !.storage = [@ EXCEPT ![(t + u - 1) % StorageRows] = clear_row(pen)],
                 !.dirty = touch_all(@),
                 !.y = @ - 1,
                 !.paper = Append(@, clear_row(pen))]

\* The loop at a newline and in put_character: it runs at most once.
ScrollTo(g) == IF g.y >= rows THEN scroll_up(g) ELSE g

Become(g) ==
    /\ storage' = g.storage /\ top' = g.top /\ used' = g.used /\ view' = g.view
    /\ dirty' = g.dirty /\ paper' = g.paper

\* A row of the screen replaced, in the ring and on the paper.
Replace(g, y, row) ==
    [g EXCEPT !.storage = [@ EXCEPT ![(g.top + g.used - rows + y) % StorageRows] = row],
              !.paper = [@ EXCEPT ![Len(g.paper) - rows + y + 1] = row]]

put_character(c) ==
    LET wrap == cursor[1] >= columns
        x == IF wrap THEN 0 ELSE cursor[1]
        g == ScrollTo([Grid EXCEPT !.y = IF wrap THEN @ + 1 ELSE @])
        row == g.storage[(g.top + g.used - rows + g.y) % StorageRows]
    IN /\ Become([Replace(g, g.y, [row EXCEPT ![x] = <<c, pen[1], pen[2]>>])
                    EXCEPT !.dirty = touch_rows(@, g.y, g.y + 1)])
       /\ cursor' = <<x + 1, g.y>>

\* parameter: zero and absent both mean the fallback.
parameter(i, fallback) ==
    IF i <= Len(parameters) /\ parameters[i] > 0 THEN parameters[i] ELSE fallback

\* apply_sgr, on bold and the backgrounds.
Sgr(pn, code) ==
    CASE code = 0 -> <<0, Blank>>
      [] code = 1 -> <<1, pn[2]>>
      [] code = 22 -> <<0, pn[2]>>
      [] code \in 40..47 -> <<pn[1], code - 40>>
      [] code = 49 -> <<pn[1], Blank>>
      [] OTHER -> pn

apply_sgr ==
    LET n == Len(parameters)
        After[i \in 0..n] == IF i = 0 THEN pen ELSE Sgr(After[i - 1], parameters[i])
    IN pen' = IF n = 0 THEN <<0, Blank>> ELSE After[n]

\* The part of row y that erase_in_display erases; the whole row with mode 2.
Erased(mode, y) ==
    CASE mode = 0 -> IF y = cursor[2] THEN <<cursor[1], columns>>
                     ELSE IF y > cursor[2] THEN <<0, columns>> ELSE <<0, 0>>
      [] mode = 1 -> IF y = cursor[2] THEN <<0, cursor[1] + 1>>
                     ELSE IF y < cursor[2] THEN <<0, columns>> ELSE <<0, 0>>
      [] OTHER -> <<0, columns>>

erase_in_display(mode) ==
    LET row == [y \in 0..(rows - 1) |->
                    erase_cells(storage[screen_row(y)], Erased(mode, y)[1], Erased(mode, y)[2])]
        Fill[n \in 0..rows] == IF n = 0 THEN Grid ELSE Replace(Fill[n - 1], n - 1, row[n - 1])
    IN /\ Become(Fill[rows])
       /\ unmarked' = unmarked \cup {y \in 0..(rows - 1) : row[y] # storage[screen_row(y)]}

erase_in_line(mode) ==
    LET y == cursor[2]
        from == IF mode = 0 THEN cursor[1] ELSE 0
        to == IF mode = 1 THEN cursor[1] + 1 ELSE columns
    IN Become([Replace(Grid, y, erase_cells(storage[screen_row(y)], from, to))
                 EXCEPT !.dirty = touch_rows(@, y, y + 1)])

\* A bug: only the lower end is checked.
ClampLow(v, limit) == Larger(0, v)

Clamp(v, limit) == Larger(0, Smaller(v, limit - 1))

\* Where a final byte moves the cursor, before it is clamped to the grid.
Moved(final) ==
    LET x == cursor[1]  y == cursor[2]  n == parameter(1, 1) IN
    CASE final = "A" -> <<x, y - n>>
      [] final = "B" -> <<x, y + n>>
      [] final = "C" -> <<x + n, y>>
      [] final = "D" -> <<x - n, y>>
      [] final = "G" -> <<n - 1, y>>
      [] final = "d" -> <<x, n - 1>>
      [] final = "H" -> <<parameter(2, 1) - 1, n - 1>>
      [] final = "u" -> saved
      [] OTHER -> cursor

grid == <<storage, top, used, view, dirty, paper>>

execute_csi(final) ==
    LET to == Moved(final) IN
    /\ cursor' = <<Clamp(to[1], columns), Clamp(to[2], rows)>>
    /\ saved' = IF final = "s" THEN cursor ELSE saved
    /\ \/ final = "J" /\ erase_in_display(parameter(1, 0)) /\ UNCHANGED pen
       \/ final = "K" /\ erase_in_line(parameter(1, 0)) /\ UNCHANGED <<pen, unmarked>>
       \/ final = "m" /\ apply_sgr /\ UNCHANGED <<grid, unmarked>>
       \/ final \notin {"J", "K", "m"} /\ UNCHANGED <<grid, pen, unmarked>>
    /\ state' = "ground"
    /\ UNCHANGED <<parameters, private>>

Digits == <<"0", "1", "2", "3", "4", "5", "6", "7", "8", "9">>
IsDigit(c) == \E i \in 1..10 : Digits[i] = c
Value(c) == (CHOOSE i \in 1..10 : Digits[i] = c) - 1

\* PARSE_CSI: digits and separators collect parameters, anything else executes.
Csi(c) ==
    LET one == IF parameters = <<>> THEN <<0>> ELSE parameters IN
    \/ /\ c = "?"
       /\ private' = TRUE
       /\ UNCHANGED <<grid, cursor, saved, pen, unmarked, state, parameters>>
    \/ /\ IsDigit(c)
       /\ parameters' = [one EXCEPT ![Len(one)] = @ * 10 + Value(c)]
       /\ UNCHANGED <<grid, cursor, saved, pen, unmarked, state, private>>
    \/ /\ c = ";"
       /\ parameters' = IF Len(one) < MaxParameters THEN Append(one, 0) ELSE one
       /\ UNCHANGED <<grid, cursor, saved, pen, unmarked, state, private>>
    \/ ~IsDigit(c) /\ c \notin {"?", ";"} /\ execute_csi(c)

\* Ground, escape and OSC: where the parser goes, with no effect on the grid.
Switch(c, next) ==
    /\ state' = next
    /\ parameters' = IF next = "csi" THEN <<>> ELSE parameters
    /\ private' = (next # "csi" /\ private)
    /\ UNCHANGED <<grid, cursor, saved, pen, unmarked>>

Ground(c) ==
    \/ c = "esc" /\ Switch(c, "escape")
    \/ /\ c # "esc"
       /\ UNCHANGED <<state, parameters, private, saved, pen, unmarked>>
       /\ \/ /\ c \in {"cr", "bs", "tab", "bel"}
             /\ cursor' = <<CASE c = "cr" -> 0
                              [] c = "bs" -> Larger(cursor[1] - 1, 0)
                              [] c = "tab" -> Smaller(((cursor[1] + TabWidth) \div TabWidth)
                                                            * TabWidth, columns - 1)
                              [] c = "bel" -> cursor[1], cursor[2]>>
             /\ UNCHANGED grid
          \/ /\ c = "nl"
             /\ LET g == ScrollTo([Grid EXCEPT !.y = @ + 1])
                IN Become(g) /\ cursor' = <<cursor[1], g.y>>
          \/ /\ c \notin {"cr", "bs", "tab", "bel", "nl"}
             /\ put_character(c)

feed_byte(c) ==
    /\ feeding # -1 /\ fed < MaxFed
    /\ fed' = fed + 1
    /\ \/ state = "csi" /\ Csi(c)
       \/ state = "escape" /\ Switch(c, IF c = "[" THEN "csi" ELSE IF c = "]" THEN "osc" ELSE "ground")
       \/ state = "osc" /\ Switch(c, IF c = "bel" THEN "ground"
                                     ELSE IF c = "esc" THEN "escape" ELSE "osc")
       \/ state = "ground" /\ Ground(c)
    /\ UNCHANGED <<columns, rows, feeding, surface>>

\* ui_terminal_feed: remember the cursor's row, feed, then mark both rows.
StartFeed ==
    /\ feeding = -1
    /\ feeding' = cursor[2]
    /\ UNCHANGED <<columns, rows, grid, cursor, saved, pen, state, parameters, private, surface,
                   unmarked, fed>>

\* A bug: the row the cursor came from is not marked.
EndFeedHere ==
    /\ feeding # -1
    /\ dirty' = touch_rows(dirty, cursor[2], cursor[2] + 1)
    /\ feeding' = -1
    /\ UNCHANGED <<columns, rows, storage, top, used, view, paper, cursor, saved, pen, state,
                   parameters, private, surface, unmarked, fed>>

EndFeed ==
    /\ feeding # -1
    /\ dirty' = touch_rows(touch_rows(dirty, feeding, feeding + 1), cursor[2], cursor[2] + 1)
    /\ feeding' = -1
    /\ UNCHANGED <<columns, rows, storage, top, used, view, paper, cursor, saved, pen, state,
                   parameters, private, surface, unmarked, fed>>

\* The row shown at y: its cells, with the cursor on the live screen.
Shown(y) == <<storage[row_at(used - rows - view + y)],
              IF view = 0 /\ y = cursor[2] THEN cursor[1] ELSE -1>>

terminal_paint ==
    /\ feeding = -1 /\ dirty[1] < dirty[2]
    /\ surface' = [y \in 0..(rows - 1) |->
                     IF y >= dirty[1] /\ y < dirty[2] THEN Shown(y) ELSE surface[y]]
    /\ unmarked' = {y \in unmarked : y < dirty[1] \/ y >= dirty[2]}
    /\ dirty' = <<0, 0>>
    /\ UNCHANGED <<columns, rows, storage, top, used, view, paper, cursor, saved, pen, state,
                   parameters, private, feeding, fed>>

\* Page up and page down in terminal_on_key; the wheel does the same by three.
Page(direction) ==
    /\ feeding = -1
    /\ view' = Larger(0, Smaller(view + direction * (rows - 1), used - rows))
    /\ dirty' = touch_all(dirty)
    /\ UNCHANGED <<columns, rows, storage, top, used, paper, cursor, saved, pen, state, parameters,
                   private, feeding, surface, unmarked, fed>>

\* Any other key: back to the live screen, then sent to the shell.
Key ==
    /\ feeding = -1 /\ view # 0
    /\ view' = 0
    /\ dirty' = touch_all(dirty)
    /\ UNCHANGED <<columns, rows, storage, top, used, paper, cursor, saved, pen, state, parameters,
                   private, feeding, surface, unmarked, fed>>

\* reshape and reset_grid: a new size starts from an empty grid.
reshape(shape) ==
    LET row == [x \in 0..(shape[1] - 1) |-> <<" ", 0, pen[2]>>] IN
    /\ feeding = -1 /\ <<columns, rows>> # shape
    /\ columns' = shape[1] /\ rows' = shape[2]
    /\ storage' = [i \in 0..(Larger(ScrollbackRows, shape[2]) - 1) |-> row]
    /\ used' = shape[2] /\ top' = 0 /\ view' = 0
    /\ cursor' = <<0, 0>>
    /\ dirty' = <<0, shape[2]>>
    /\ surface' = [y \in 0..(shape[2] - 1) |-> <<"stale">>]
    /\ paper' = [i \in 1..shape[2] |-> row]
    /\ unmarked' = {}
    /\ UNCHANGED <<saved, pen, state, parameters, private, feeding, fed>>

GInit ==
    \E shape \in Shapes :
        LET row == [x \in 0..(shape[1] - 1) |-> <<" ", 0, Blank>>] IN
        /\ columns = shape[1] /\ rows = shape[2]
        /\ storage = [i \in 0..(Larger(ScrollbackRows, shape[2]) - 1) |-> row]
        /\ used = shape[2] /\ top = 0 /\ view = 0
        /\ cursor = <<0, 0>> /\ saved = <<0, 0>> /\ pen = <<0, Blank>>
        /\ dirty = <<0, shape[2]>>
        /\ surface = [y \in 0..(shape[2] - 1) |-> <<"stale">>]
        /\ paper = [i \in 1..shape[2] |-> row]
        /\ unmarked = {} /\ feeding = -1 /\ fed = 0
        /\ state = "ground" /\ parameters = <<>> /\ private = FALSE

GNext ==
    \/ StartFeed \/ EndFeed \/ terminal_paint \/ Key
    \/ \E c \in Alphabet : feed_byte(c)
    \/ \E d \in {-1, 1} : Page(d)
    \/ \E s \in Shapes : reshape(s)

(***************************************************************************)
(* Properties                                                              *)
(***************************************************************************)
\* The ring, wherever its top has come to, holds the last `used` rows of all
\* that were ever on the screen, in order, and scrolling back stays inside it.
RingFaithful ==
    /\ used \in rows..StorageRows
    /\ view \in 0..(used - rows)
    /\ \A i \in 0..(used - 1) : storage[row_at(i)] = paper[Len(paper) - used + i + 1]

\* The cursor stays in the grid, at most one column past the end of a row until
\* the next character wraps, whatever a program asks for and after any resize.
CursorWithin ==
    /\ cursor[1] \in 0..columns
    /\ cursor[2] \in 0..(rows - 1)

\* On the live screen, a row that is not marked dirty shows its cells and the
\* cursor; only rows changed by erase_in_display can be out of date.
RowsCurrent ==
    (feeding = -1 /\ view = 0) =>
        \A y \in (0..(rows - 1)) \ unmarked :
            (y < dirty[1] \/ y >= dirty[2]) => surface[y] = Shown(y)
=============================================================================
