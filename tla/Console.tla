------------------------------- MODULE Console -------------------------------
(***************************************************************************)
(* The framebuffer console (dev/framebuffer.cpp): cursor, wrapping,        *)
(* scrolling, tabs, the escape-sequence recogniser and its colours, and    *)
(* what suspending it for a compositor does.  `paper' is what the same     *)
(* output would look like on a roll without end, and `top' the line of the *)
(* roll that should be on the first row of the screen.                     *)
(***************************************************************************)
EXTENDS Naturals, Sequences

CONSTANTS
    Rows, Columns, TabWidth,
    MaxParams,     \* MAX_SGR_PARAMETERS
    Params,        \* numbers used as digits of a parameter
    MaxWritten     \* characters of a behaviour

VARIABLES
    screen,        \* row -> column -> <<character, foreground, background>>
    column, row,   \* m_cursor_column, m_cursor_row, from 0
    escape,        \* m_escape: "none", "escape", "csi"
    params,        \* m_parameters, the first m_parameter_count
    colour,        \* [fg, bg, bold]: places in the palette
    suspended,     \* m_suspended
    tabbing,       \* inside the loop of a tab
    paper, top, written

cvars == <<screen, column, row, escape, params, colour, suspended, tabbing, paper, top, written>>

Default == 16   \* the colours the console starts with
Normal == [fg |-> Default, bg |-> Default, bold |-> FALSE]
\* A row cleared to a background.
EmptyRow(bg) == [c \in 0..(Columns - 1) |-> <<" ", Default, bg>>]
Plain == {"x", "m", "["}  \* printable, and also meaningful inside a sequence

CInit ==
    /\ screen = [r \in 0..(Rows - 1) |-> EmptyRow(Default)] /\ column = 0 /\ row = 0
    /\ escape = "none" /\ params = <<>> /\ colour = Normal
    /\ suspended = FALSE /\ tabbing = FALSE
    /\ paper = [r \in 0..(Rows + MaxWritten) |-> EmptyRow(Default)] /\ top = 0 /\ written = 0

\* A bug: scrolling leaves the last row as it was.
newline_dirty(s) ==
    IF s.row + 1 < Rows THEN [s EXCEPT !.column = 0, !.row = @ + 1]
    ELSE [s EXCEPT !.column = 0,
                   !.screen = [r \in 0..(Rows - 1) |-> IF r = Rows - 1 THEN @[r] ELSE @[r + 1]],
                   !.scrolled = TRUE]

\* newline and scroll: [screen, column, row] of a record s.
newline(s) ==
    IF s.row + 1 < Rows THEN [s EXCEPT !.column = 0, !.row = @ + 1]
    ELSE [s EXCEPT !.column = 0,
                   !.screen = [r \in 0..(Rows - 1) |->
                                IF r = Rows - 1 THEN EmptyRow(colour.bg) ELSE @[r + 1]],
                   !.scrolled = TRUE]
\* A bug: the line wraps one column late.
advance_late(s) ==
    IF s.column >= Columns THEN newline(s) ELSE [s EXCEPT !.column = @ + 1]

advance_cursor(s) ==
    IF s.column + 1 >= Columns THEN newline(s) ELSE [s EXCEPT !.column = @ + 1]
Glyph(c) == <<c, colour.fg, colour.bg>>
put_glyph(s, c) == [s EXCEPT !.screen[s.row][s.column] = Glyph(c)]

Now == [screen |-> screen, column |-> column, row |-> row, scrolled |-> FALSE]
\* The screen becomes s and the roll p, which a new row joins when s scrolled.
Become(s, p) ==
    /\ screen' = s.screen /\ column' = s.column /\ row' = s.row
    /\ top' = IF s.scrolled THEN top + 1 ELSE top
    /\ paper' = IF s.scrolled THEN [p EXCEPT ![top + Rows] = EmptyRow(colour.bg)] ELSE p

\* A glyph reaches the screen and the paper.
Draw(c) ==
    Become(advance_cursor(put_glyph(Now, c)), [paper EXCEPT ![top + row][column] = Glyph(c)])

\* apply_sgr: the parameters in turn; none means 0.
RECURSIVE Sgr(_, _)
Sgr(c, ps) ==
    IF ps = <<>> THEN c
    ELSE LET p == Head(ps)
             next == CASE p = 0 -> Normal
                       [] p = 1 -> [c EXCEPT !.fg = IF @ < 8 THEN @ + 8 ELSE @, !.bold = TRUE]
                       [] p = 22 -> [c EXCEPT !.bold = FALSE]
                       [] p \in 30..37 -> [c EXCEPT !.fg = p - 30 + (IF c.bold THEN 8 ELSE 0)]
                       [] p = 39 -> [c EXCEPT !.fg = Default]
                       [] p \in 40..47 -> [c EXCEPT !.bg = p - 40]
                       [] p = 49 -> [c EXCEPT !.bg = Default]
                       [] p \in 90..97 -> [c EXCEPT !.fg = p - 90 + 8]
                       [] p \in 100..107 -> [c EXCEPT !.bg = p - 100 + 8]
                       [] OTHER -> c
         IN  Sgr(next, Tail(ps))
apply_sgr == colour' = Sgr(colour, IF params = <<>> THEN <<0>> ELSE params)

\* consume_escape: TRUE as long as the character belongs to a sequence.
\* A number stands for the digits of a parameter.
consume_escape(c) ==
    \/ escape = "none" /\ c = "esc" /\ escape' = "escape" /\ UNCHANGED <<params, colour>>
    \/ escape = "escape" /\ c = "[" /\ escape' = "csi" /\ params' = <<>> /\ UNCHANGED colour
    \/ escape = "escape" /\ c # "[" /\ escape' = "none" /\ UNCHANGED <<params, colour>>
    \/ escape = "csi" /\ c = ";" /\ UNCHANGED <<escape, colour>>
       /\ params' = IF Len(params) < MaxParams THEN Append(params, 0) ELSE params
    \/ escape = "csi" /\ c \in {"m", "[", "x"} /\ escape' = "none" /\ UNCHANGED params
       /\ IF c = "m" THEN apply_sgr ELSE UNCHANGED colour
    \/ escape = "csi" /\ c \in {"esc", "nl", "cr", "bs", "tab"} /\ UNCHANGED <<escape, params, colour>>

\* The digits of one parameter arrive together; digits after those of a
\* parameter that got no slot of its own make a number that means nothing.
Junk == 100000
parameter(n) ==
    /\ escape = "csi" /\ ~suspended /\ ~tabbing /\ written < MaxWritten
    /\ written' = written + 1
    /\ params' = IF params = <<>> THEN <<n>>
                 ELSE [params EXCEPT ![Len(params)] = IF @ = 0 THEN n ELSE Junk]
    /\ UNCHANGED <<screen, column, row, escape, colour, suspended, tabbing, paper, top>>

write_char(c) ==
    /\ ~tabbing /\ written < MaxWritten /\ written' = written + 1
    /\ IF suspended
       THEN UNCHANGED <<screen, column, row, escape, params, colour, suspended, tabbing, paper, top>>
       ELSE \/ /\ escape # "none" \/ c = "esc"
               /\ consume_escape(c)
               /\ UNCHANGED <<screen, column, row, suspended, tabbing, paper, top>>
            \/ /\ escape = "none" /\ c # "esc" /\ c # ";"
               /\ UNCHANGED <<escape, params, colour, suspended>>
               /\ \/ c = "nl" /\ Become(newline(Now), paper) /\ UNCHANGED tabbing
                  \/ c = "cr" /\ column' = 0 /\ UNCHANGED <<screen, row, tabbing, paper, top>>
                  \/ c = "tab" /\ tabbing' = TRUE /\ UNCHANGED <<screen, column, row, paper, top>>
                  \/ c = "bs" /\ UNCHANGED <<row, top, tabbing>>
                     /\ IF column = 0 THEN UNCHANGED <<screen, column, paper>>
                        ELSE /\ column' = column - 1
                             /\ screen' = [screen EXCEPT ![row][column - 1] = Glyph(" ")]
                             /\ paper' = [paper EXCEPT ![top + row][column - 1] = Glyph(" ")]
                  \/ c \in Plain /\ Draw(c) /\ UNCHANGED tabbing

\* One turn of the loop of a tab: a space, which a suspended console drops.
TabSpace ==
    /\ tabbing
    /\ IF suspended THEN UNCHANGED <<screen, column, row, paper, top>> ELSE Draw(" ")
    /\ tabbing' = (column' % TabWidth # 0)
    /\ UNCHANGED <<escape, params, colour, suspended, written>>

suspend == /\ ~suspended /\ suspended' = TRUE
           /\ UNCHANGED <<screen, column, row, escape, params, colour, tabbing, paper, top, written>>
\* resume clears; the roll starts afresh with it.
resume ==
    /\ suspended /\ suspended' = FALSE
    /\ screen' = [r \in 0..(Rows - 1) |-> EmptyRow(colour.bg)] /\ column' = 0 /\ row' = 0
    /\ paper' = [r \in 0..(Rows + MaxWritten) |-> EmptyRow(colour.bg)] /\ top' = 0
    /\ UNCHANGED <<escape, params, colour, tabbing, written>>

CNext ==
    \/ \E c \in Plain \cup {"esc", ";", "nl", "cr", "tab", "bs"} : write_char(c)
    \/ \E n \in Params : parameter(n)
    \/ TabSpace \/ suspend \/ resume

-----------------------------------------------------------------------------

(* However lines wrap, tabs run over the edge, sequences are cut short or  *)
(* the console is suspended in between: the screen shows the last rows of  *)
(* what was written, with the colours it was written in.                   *)
ShowsTail == \A r \in 0..(Rows - 1) : screen[r] = paper[top + r]

(* The cursor stays on the screen and the parameters in their array, also  *)
(* when a sequence has more parameters than there is room for.             *)
WithinBounds ==
    /\ column \in 0..(Columns - 1) /\ row \in 0..(Rows - 1)
    /\ Len(params) <= MaxParams
=============================================================================
