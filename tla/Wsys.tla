-------------------------------- MODULE Wsys --------------------------------
(***************************************************************************)
(* The window server, user/wsys/wsys.c: its clients, windows, stacking     *)
(* order, pointer, and the compositor that repaints one damage rectangle   *)
(* per turn of the poll loop.                                              *)
(*                                                                         *)
(* One turn of the loop is accept, the mouse batch, the key batch, one     *)
(* message of every polled client in slot order, then composite: `stage`   *)
(* is how far the turn has come.  Clients draw into the shared pixels at   *)
(* any time.  Lengths are scaled down: a title bar is one pixel high, a    *)
(* frame has no side border, the shadow and the cursor reach one pixel.    *)
(* The colour of a pixel is the list of layers blended into it.            *)
(***************************************************************************)
EXTENDS Integers, Sequences, FiniteSets

CONSTANTS
    Width, Height,   \* the screen, g_width and g_height
    Pids,            \* programs that may connect
    MaxClients,      \* MAX_CLIENTS
    MaxWindows,      \* MAX_WINDOWS
    Batch,           \* mouse events handled in one turn
    Moves,           \* the displacements a mouse event may report
    MaxIds           \* bound on g_next_window_id

VARIABLES
    clients,     \* slot -> pid, 0 when unused
    windows,     \* slot -> window record, NoWindow when unused
    stack,       \* g_stack: window ids, bottom to top
    nextId,      \* g_next_window_id
    cursor, buttons, dragging, offset,
    dirty,       \* g_dirty_*: <<x0, y0, x1, y1>>
    lastFocus,   \* g_last_focus
    screen,      \* pixel -> colour
    stage, polled, moved,  \* the poll loop
    program,     \* pid -> "new", "hello", "running", "gone", "forgotten"
    toServer,    \* pid -> the unread message, or none
    pixels,      \* window id -> what its buffer holds
    unannounced  \* ids drawn to and not yet damaged

wvars == <<clients, windows, stack, nextId, cursor, buttons, dragging, offset,
           dirty, lastFocus, screen, stage, polled, moved, program, toServer,
           pixels, unannounced>>

scene == <<clients, windows, stack, nextId, lastFocus, screen>>
pointer == <<cursor, buttons, dragging, offset>>
peers == <<program, toServer, pixels, unannounced>>

Slots == 1..MaxClients
NoWindow == [id |-> 0]
Message(type, id) == [type |-> type, id |-> id]
None == Message("none", 0)

Pixels == (0..(Width - 1)) \X (0..(Height - 1))
Clean == <<0, 0, 0, 0>>
Larger(a, b) == IF a > b THEN a ELSE b
Smaller(a, b) == IF a < b THEN a ELSE b

\* damage(): clipped to the screen, then joined with what is dirty already.
damage(d, x0, y0, x1, y1) ==
    LET a == Larger(x0, 0)  b == Larger(y0, 0)
        c == Smaller(x1, Width)  e == Smaller(y1, Height)
    IN IF a >= c \/ b >= e THEN d
       ELSE IF d[1] >= d[3] THEN <<a, b, c, e>>
       ELSE <<Smaller(a, d[1]), Smaller(b, d[2]), Larger(c, d[3]), Larger(e, d[4])>>

damage_all(d) == damage(d, 0, 0, Width, Height)

\* A frame is one content pixel under one title bar pixel.
frame_height == 2
damage_window(d, w) == damage(d, w.x - 1, w.y - 1, w.x + 2, w.y + frame_height + 1)

SlotOf(ws, id) == {s \in DOMAIN ws : id # 0 /\ ws[s].id = id}
Live(ws, id) == SlotOf(ws, id) # {}
window_by_id(ws, id) == ws[CHOOSE s \in SlotOf(ws, id) : TRUE]
focused_window_id(st) == IF st = <<>> THEN 0 ELSE st[Len(st)]
unstack_window(st, id) == SelectSeq(st, LAMBDA i : i # id)
raise_window(st, id) ==
    IF id \in {st[i] : i \in 1..Len(st)} THEN Append(unstack_window(st, id), id) ELSE st

(***************************************************************************)
(* composite                                                               *)
(***************************************************************************)
\* draw_window on one pixel: shadow ring, title bar, or the client's pixels.
draw_window(below, p, w, focused) ==
    IF p = <<w.x, w.y>> THEN <<"title", w.title, focused>>
    ELSE IF p = <<w.x, w.y + 1>> THEN <<"content", w.id, pixels[w.id]>>
    ELSE IF p[1] \in (w.x - 1)..(w.x + 1) /\ p[2] \in (w.y - 1)..(w.y + 2)
         THEN <<"shadow", focused, below>>
    ELSE below

\* The layers of one pixel: draw_desktop, the stack from the bottom, draw_cursor.
Colour(p, ws, st) ==
    LET RECURSIVE Layer(_)
        Layer(i) ==
            IF i = 0 THEN <<"desktop", p[2]>>
            ELSE draw_window(Layer(i - 1), p, window_by_id(ws, st[i]), i = Len(st))
    IN IF p = cursor THEN <<"cursor">> ELSE Layer(Len(st))

\* A bug: only the window that gains the focus is repainted.
reconcile_gaining(d) ==
    LET now == focused_window_id(stack)
    IN IF now = lastFocus \/ ~Live(windows, now) THEN d
       ELSE damage_window(d, window_by_id(windows, now))

reconcile_focus(d) ==
    LET now == focused_window_id(stack)
        old == IF Live(windows, lastFocus) THEN damage_window(d, window_by_id(windows, lastFocus))
               ELSE d
    IN IF now = lastFocus THEN d
       ELSE IF Live(windows, now) THEN damage_window(old, window_by_id(windows, now)) ELSE old

composite ==
    LET d == reconcile_focus(dirty) IN
    /\ stage > 0
    /\ lastFocus' = focused_window_id(stack)
    /\ screen' = [p \in Pixels |->
            IF p[1] >= d[1] /\ p[1] < d[3] /\ p[2] >= d[2] /\ p[2] < d[4]
            THEN Colour(p, windows, stack) ELSE screen[p]]
    /\ dirty' = [d EXCEPT ![1] = 0, ![3] = 0]
    /\ stage' = 0 /\ moved' = 0
    /\ polled' = {s \in Slots : clients[s] # 0}
    /\ UNCHANGED <<clients, windows, stack, nextId, pointer, peers>>

(***************************************************************************)
(* Clients                                                                 *)
(***************************************************************************)
\* accept_connection: a hello with no free slot is read and forgotten.
accept_connection(p) ==
    /\ stage = 0
    /\ program[p] = "hello"
    /\ LET free == {s \in Slots : clients[s] = 0} IN
       IF free = {} THEN program' = [program EXCEPT ![p] = "forgotten"] /\ UNCHANGED clients
       ELSE /\ clients' = [clients EXCEPT ![CHOOSE s \in free : \A t \in free : s <= t] = p]
            /\ program' = [program EXCEPT ![p] = "running"]
    /\ stage' = 1
    /\ UNCHANGED <<windows, stack, nextId, lastFocus, screen, pointer, dirty, polled, moved,
                   toServer, pixels, unannounced>>

\* destroy_window of every id in ids: the state the callers share.
destroy_windows(ids) ==
    LET Damaged[S \in SUBSET ids] ==
            IF S = {} THEN dirty
            ELSE LET id == CHOOSE i \in S : TRUE
                 IN damage_window(Damaged[S \ {id}], window_by_id(windows, id))
    IN /\ dirty' = Damaged[ids]
       /\ windows' = [s \in DOMAIN windows |->
                        IF windows[s].id \in ids THEN NoWindow ELSE windows[s]]
       /\ stack' = SelectSeq(stack, LAMBDA i : i \notin ids)

\* A bug: the windows of a client that is gone stay.
drop_client_only(s) ==
    /\ clients' = [clients EXCEPT ![s] = 0]
    /\ UNCHANGED <<windows, stack, dirty, nextId, pixels>>

drop_client(s) ==
    /\ destroy_windows({windows[w].id : w \in {v \in DOMAIN windows :
                            windows[v] # NoWindow /\ windows[v].client = s}})
    /\ clients' = [clients EXCEPT ![s] = 0]
    /\ UNCHANGED <<nextId, pixels>>

Cascade(id) == <<id % 2, id % 2>>

\* handle_create_window: the id is used up even if the buffer cannot be made;
\* the reply fails when the program has gone.
handle_create_window(s) ==
    LET free == {w \in DOMAIN windows : windows[w] = NoWindow}
        slot == CHOOSE w \in free : \A v \in free : w <= v
        w == [id |-> nextId, client |-> s, x |-> Cascade(nextId)[1], y |-> Cascade(nextId)[2],
              title |-> "untitled"]
    IN IF free = {} \/ Len(stack) >= MaxWindows
       THEN UNCHANGED <<windows, stack, nextId, dirty, pixels>>
       ELSE /\ nextId' = nextId + 1
            /\ pixels' = [pixels EXCEPT ![nextId] = 0]
            /\ \/ UNCHANGED <<windows, stack, dirty>>
               \/ /\ dirty' = damage_window(dirty, w)
                  /\ IF program[clients[s]] = "gone" THEN UNCHANGED <<windows, stack>>
                     ELSE /\ windows' = [windows EXCEPT ![slot] = w]
                          /\ stack' = Append(stack, nextId)

handle_client_message(s, m) ==
    LET mine == Live(windows, m.id) /\ window_by_id(windows, m.id).client = s
        w == window_by_id(windows, m.id)
    IN \/ /\ m.type = "create"
          /\ handle_create_window(s)
       \/ /\ m.type = "destroy" /\ mine
          /\ destroy_windows({m.id})
          /\ UNCHANGED <<nextId, pixels>>
       \/ /\ m.type = "title" /\ mine
          /\ windows' = [windows EXCEPT ![CHOOSE t \in SlotOf(windows, m.id) : TRUE].title = "set"]
          /\ dirty' = damage(dirty, w.x, w.y, w.x + 1, w.y + 1)
          /\ UNCHANGED <<stack, nextId, pixels>>
       \/ /\ m.type = "damage" /\ mine
          /\ dirty' = damage(dirty, w.x, w.y + 1, w.x + 1, w.y + 2)
          /\ UNCHANGED <<windows, stack, nextId, pixels>>
       \/ /\ m.type # "create" /\ ~mine
          /\ UNCHANGED <<windows, stack, nextId, dirty, pixels>>

\* The windows of a program.
Owned(p) == {windows[w].id : w \in {v \in DOMAIN windows :
                windows[v] # NoWindow /\ clients[windows[v].client] = p}}

\* One client's turn in the loop: a message, or end of file and drop_client.
client_turn(s) ==
    LET p == clients[s] IN
    /\ s \in polled /\ stage < 3 + s
    /\ p # 0
    /\ \/ /\ toServer[p] # None
          /\ handle_client_message(s, toServer[p])
          /\ toServer' = [toServer EXCEPT ![p] = None]
          /\ unannounced' = IF toServer[p].type = "damage" /\ toServer[p].id \in Owned(p)
                            THEN unannounced \ {toServer[p].id} ELSE unannounced
          /\ UNCHANGED clients
       \/ /\ toServer[p] = None /\ program[p] = "gone"
          /\ drop_client(s)
          /\ UNCHANGED <<toServer, unannounced>>
    /\ stage' = 3 + s
    /\ UNCHANGED <<lastFocus, screen, pointer, polled, moved, program>>

(***************************************************************************)
(* Input                                                                   *)
(***************************************************************************)
window_at(p) ==
    LET hit == {i \in 1..Len(stack) : LET w == window_by_id(windows, stack[i]) IN
                    p[1] = w.x /\ p[2] \in w.y..(w.y + frame_height - 1)}
    IN IF hit = {} THEN 0 ELSE stack[CHOOSE i \in hit : \A j \in hit : j <= i]

Clamp(v, limit) == Larger(0, Smaller(v, limit - 1))
AroundCursor(d, c) == damage(d, c[1] - 1, c[2] - 1, c[1] + 2, c[2] + 2)

\* A bug: measured from where the pointer was before the event.
GrabFromOld(at, w) == <<cursor[1] - w.x, cursor[2] - w.y>>
\* Where in the window the pointer takes hold of it.
GrabFrom(at, w) == <<at[1] - w.x, at[2] - w.y>>

\* handle_mouse: move, drag, raise, grab the title bar or press its close
\* button.  What is sent to a client changes nothing of the server.
handle_mouse(dx, dy, left) ==
    LET at == <<Clamp(cursor[1] + dx, Width), Clamp(cursor[2] - dy, Height)>>
        d == IF at # cursor THEN AroundCursor(AroundCursor(dirty, cursor), at) ELSE dirty
        held == CHOOSE s \in SlotOf(windows, dragging) : TRUE
        shifted == [windows[held] EXCEPT !.x = at[1] - offset[1], !.y = at[2] - offset[2]]
        id == window_at(at)
        w == window_by_id(windows, id)
        pressed == left /\ ~buttons
    IN
    /\ stage <= 2 /\ moved < Batch
    /\ cursor' = at
    /\ buttons' = left
    /\ \/ /\ dragging # 0
          /\ IF ~Live(windows, dragging) \/ (buttons /\ ~left)
             THEN /\ dragging' = 0 /\ dirty' = d
                  /\ UNCHANGED windows
             ELSE /\ dirty' = damage_window(damage_window(d, windows[held]), shifted)
                  /\ windows' = [windows EXCEPT ![held] = shifted]
                  /\ UNCHANGED dragging
          /\ UNCHANGED <<stack, offset>>
       \/ /\ dragging = 0 /\ pressed /\ id # 0
          /\ stack' = raise_window(stack, id)
          /\ dirty' = IF id # focused_window_id(stack) THEN damage_all(d) ELSE d
          /\ \/ at[2] < w.y + 1 /\ dragging' = id /\ offset' = GrabFrom(at, w)
             \/ UNCHANGED <<dragging, offset>>
          /\ UNCHANGED windows
       \/ /\ dragging = 0 /\ ~(pressed /\ id # 0)
          /\ dirty' = d
          /\ UNCHANGED <<windows, stack, dragging, offset>>
    /\ stage' = 2 /\ moved' = moved + 1
    /\ UNCHANGED <<clients, nextId, lastFocus, screen, polled, peers>>

(***************************************************************************)
(* The programs on the other side                                          *)
(***************************************************************************)
Connect(p) ==
    /\ program[p] = "new"
    /\ program' = [program EXCEPT ![p] = "hello"]
    /\ UNCHANGED <<scene, pointer, dirty, stage, polled, moved, toServer, pixels, unannounced>>

Send(p, m) ==
    /\ program[p] = "running" /\ toServer[p] = None
    /\ toServer' = [toServer EXCEPT ![p] = m]
    /\ UNCHANGED <<scene, pointer, dirty, stage, polled, moved, program, pixels, unannounced>>

Draw(p, id) ==
    /\ program[p] = "running" /\ id \in Owned(p) \ unannounced
    /\ pixels' = [pixels EXCEPT ![id] = 1 - @]
    /\ unannounced' = unannounced \cup {id}
    /\ UNCHANGED <<scene, pointer, dirty, stage, polled, moved, program, toServer>>

Exit(p) ==
    /\ program[p] = "running"
    /\ program' = [program EXCEPT ![p] = "gone"]
    /\ UNCHANGED <<scene, pointer, dirty, stage, polled, moved, toServer, pixels, unannounced>>

Program(p) ==
    \/ Connect(p) \/ Exit(p)
    \/ nextId <= MaxIds /\ Send(p, Message("create", 0))
    \/ \E id \in Owned(p) : Send(p, Message("destroy", id)) \/ Send(p, Message("title", id))
    \/ \E id \in unannounced : Send(p, Message("damage", id))
    \/ \E id \in Owned(p) : Draw(p, id)

(***************************************************************************)
(* The specification: main() up to its loop, then the loop                 *)
(***************************************************************************)
WInit ==
    /\ clients = [s \in Slots |-> 0]
    /\ windows = [s \in 1..MaxWindows |-> NoWindow]
    /\ stack = <<>> /\ nextId = 1 /\ lastFocus = 0
    /\ cursor = <<Width \div 2, Height \div 2>>
    /\ buttons = FALSE /\ dragging = 0 /\ offset = <<0, 0>>
    /\ dirty = Clean
    /\ screen = [p \in Pixels |-> IF p = cursor THEN <<"cursor">> ELSE <<"desktop", p[2]>>]
    /\ stage = 0 /\ polled = {} /\ moved = 0
    /\ program = [p \in Pids |-> "new"]
    /\ toServer = [p \in Pids |-> None]
    /\ pixels = [i \in 1..(MaxIds + 1) |-> 0]
    /\ unannounced = {}

WNext ==
    \/ \E p \in Pids : accept_connection(p) \/ Program(p)
    \/ \E m \in Moves, left \in BOOLEAN : handle_mouse(m[1], m[2], left)
    \/ \E s \in Slots : client_turn(s)
    \/ composite

(***************************************************************************)
(* Properties                                                              *)
(***************************************************************************)
\* Between turns the screen is what repainting all of it would give, except
\* where a client has drawn and not said so yet: the one damage rectangle that
\* the handlers of a turn build up never misses a pixel that changed.
ScreenCurrent ==
    (stage = 0 /\ \A id \in unannounced : ~Live(windows, id)) =>
        \A p \in Pixels : screen[p] = Colour(p, windows, stack)

\* The stack holds the id of every live window once and nothing else, and every
\* window belongs to a slot that is in use: no handler leaves a window that
\* cannot be raised, or one whose client slot another program could take over.
StackExact ==
    LET live == {windows[w].id : w \in {v \in DOMAIN windows : windows[v] # NoWindow}} IN
    /\ {stack[i] : i \in 1..Len(stack)} = live
    /\ Len(stack) = Cardinality(live)
    /\ \A w \in DOMAIN windows : windows[w] # NoWindow => clients[windows[w].client] # 0

\* A drag lasts only while the button is down, and the window keeps its place
\* under the pointer, although its client may destroy it or exit during the drag.
GrabHeld ==
    dragging # 0 =>
        /\ buttons
        /\ Live(windows, dragging) =>
            LET w == window_by_id(windows, dragging)
            IN <<w.x + offset[1], w.y + offset[2]>> = cursor
=============================================================================
