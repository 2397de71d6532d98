------------------------------ MODULE MCSystem -------------------------------
(***************************************************************************)
(* Instances for TLC of the parts of the kernel that are modelled on their *)
(* own (memory, files, signals, terminals, drivers, modules, the console,  *)
(* programs) and of the window system.  A behaviour is one of one part,    *)
(* `which'; the variables of the others are 0.                             *)
(***************************************************************************)
EXTENDS Integers, Sequences

CONSTANTS
    Parts,      \* the parts to check
    MaxCalls,   \* bound on the calls of a behaviour of "space"
    MaxSteps    \* bound on the steps of a behaviour, part by part

VARIABLES which, calls, steps

VARIABLES heap, aligned, job
H == INSTANCE Heap WITH
    PageSize <- 8, HeaderSize <- 1, SizeClasses <- <<2, 4>>, RecordSize <- 3,
    Buckets <- 2, Pages <- 1..3, Tasks <- {"a", "b"}, Sizes <- {1, 3, 9}, MaxBlocks <- 2

VARIABLES mm, space, brk, mmapNext, moduleNext, file
A == INSTANCE AddressSpace WITH
    Levels <- 3, Fanout <- 2, Frames <- 1..9, Procs <- {1, 2}, StackPage <- 3,
    ImagePages <- 0, MmapBase <- 1, ModuleBase <- 6, ModulePages <- 1, FilePages <- 1

VARIABLES pages, size, content, desc, children, listed
F == INSTANCE FileData WITH
    PageSize <- 2, MaxPages <- 2, Descs <- {1, 2}, Data <- {<<1>>, <<1, 2, 1>>},
    Offsets <- {-1, 2}, Names <- {"a", "b", "c"}, Records <- {1, 2}

VARIABLES pend, mask, action, mode, isStopped, call, restartable, frame, contexts
S == INSTANCE Signals WITH
    INT <- 2, KILL <- 9, SEGV <- 11, CHLD <- 17, CONT <- 18, STOP <- 19, TSTP <- 20,
    Raisable <- {2, 18, 20}, Maskable <- {2}, Handled <- {2}, StackRoom <- 2

VARIABLES ready, output, line, tty, feeder, reader, master, signals, accepted, taken, typed
TypedIn == INSTANCE Terminal WITH
    LineSize <- 3, ReadySize <- 2, OutputSize <- 2, Keys <- {"data", "nl", "eof"},
    Lengths <- {2}, Echoing <- FALSE, MaxTyped <- 3
Shown == INSTANCE Terminal WITH
    LineSize <- 3, ReadySize <- 3, OutputSize <- 3, Keys <- {"data", "intr", "erase", "kill"},
    Lengths <- {2}, Echoing <- TRUE, MaxTyped <- 2

VARIABLES ring, irqReader, irqAccepted, irqTaken, held, extended, down, packet,
          packetSize, phase, buttons, inputs, now, updating, ticks, reading
Keyboard == INSTANCE Drivers WITH
    reader <- irqReader, accepted <- irqAccepted, taken <- irqTaken,
    Capacity <- 3, Keys <- {"lshift", "rctrl", "letter"}, MaxInput <- 4, Missed <- {0},
    call <- reading, Radix <- 2, Attempts <- 3, MaxTicks <- 2
Mouse == INSTANCE Drivers WITH
    reader <- irqReader, accepted <- irqAccepted, taken <- irqTaken,
    Capacity <- 3, Keys <- {}, MaxInput <- 9, Missed <- 0..2,
    call <- reading, Radix <- 2, Attempts <- 3, MaxTicks <- 2

VARIABLES state, pc, memory, handlers, masked, nodes, open, source, queues, keyboardOn
M == INSTANCE Modules WITH
    Drivers <- {"kbd", "mouse", "rtc"}, Slots <- 2, Occupied <- {}, MaxOpen <- 1

VARIABLES placements, total, stage, symbol, patched, readonly, mapped
Section(alloc, exec, write, length, align) ==
    [alloc |-> alloc, exec |-> exec, write |-> write, size |-> length, align |-> align]
I == INSTANCE ModuleImage WITH
    PageSize <- 4, MaxSections <- 3, Base <- 8, Half <- 16, Addends <- {-4, 0},
    Symbols <- {<<"missing", 0>>, <<"undef", TRUE>>, <<"undef", FALSE>>, <<"abs", -9>>, <<"section", 1>>},
    Relocations <- {"none", "64", "pc32", "pc64", "32", "32s", "bad"},
    Sections <- {Section(FALSE, FALSE, FALSE, 2, 1), Section(TRUE, TRUE, FALSE, 5, 2),
                 Section(TRUE, FALSE, TRUE, 3, 2), Section(TRUE, FALSE, FALSE, 2, 1)}

VARIABLES screen, column, row, escape, params, colour, suspended, tabbing, paper, top, written
C == INSTANCE Console WITH
    Rows <- 2, Columns <- 3, TabWidth <- 2, MaxParams <- 2, Params <- {1, 31, 41}, MaxWritten <- 5

VARIABLES opened, count, acquired, quiet, client, overlapped
W == INSTANCE Screen WITH suspended <- quiet, Clients <- {1, 2, 3}, Acquirers <- {1}

VARIABLES entries, image, offset, inodes, parsing
U == INSTANCE Ustar WITH
    BlockSize <- 2, Paths <- {<<"a">>, <<"a", "b">>, <<"b">>, <<"a", "b", "a">>},
    Sizes <- {0, 2, 3}, Kinds <- {"file", "dir", "link"}, MaxEntries <- 2

VARIABLES at, passed, program, args, blocks, freedTwice, unread, newSpace, segment, result
Call(argv, envp, null, gap, hole) ==
    [argv |-> argv, envp |-> envp, null |-> null, gap |-> gap, hole |-> hole]
Load(at_, bytes, length, to, write, exec) ==
    [load |-> TRUE, offset |-> at_, filesz |-> bytes, memsz |-> length, vaddr |-> to,
     write |-> write, exec |-> exec]
Note == [Load(0, 4, 4, 60, FALSE, FALSE) EXCEPT !.load = FALSE]
X == INSTANCE Execve WITH
    space <- newSpace, PageSize <- 4, WordSize <- 2, Alignment <- 4, UserEnd <- 18, StackTop <- 72,
    StackSize <- 56, PathMax <- 4, MaxArguments <- 3, MaxBytes <- 7, FileSize <- 12, Headers <- 2,
    HeadersSize <- 3,
    Programs <- {<<Load(0, 7, 7, 5, FALSE, TRUE), Note, Load(7, 3, 6, 13, TRUE, FALSE)>>,
                 <<Load(0, 3, 3, 4, FALSE, TRUE), Load(3, 2, 2, 9, TRUE, FALSE), Load(5, 1, 4, 11, TRUE, FALSE)>>,
                 <<Load(0, 6, 6, 6, FALSE, TRUE), Load(4, 0, 3, 14, TRUE, FALSE)>>,
                 <<Load(2, 4, 2, 6, FALSE, FALSE), Load(10, 4, 4, 12, FALSE, FALSE)>>,
                 <<Load(0, 6, 1, 7, FALSE, TRUE)>>, <<Load(0, 2, 4, 70, TRUE, FALSE)>>, <<Note>>},
    Calls <- {Call(<<>>, <<>>, {"argv", "envp"}, 0, 0)} \cup {Call(argv, envp, {}, gap, hole) :
        argv \in {<<>>, <<<<7>>>>, <<<<7, 8>>, <<>>>>, <<<<7, 8, 9>>>>, <<<<7>>, <<8>>, <<9>>>>},
        envp \in {<<>>, <<<<9>>>>, <<<<>>, <<9, 8>>>>}, gap \in 0..3, hole \in 0..5}

VARIABLES clients, windows, stack, nextId, cursor, pointer, dragging, grabOffset, dirty,
          lastFocus, desktop, turn, polled, moved, peer, toServer, pixels, unannounced
Server == INSTANCE Wsys WITH
    buttons <- pointer, offset <- grabOffset, screen <- desktop, stage <- turn, program <- peer,
    Width <- 3, Height <- 4, Pids <- {1, 2}, MaxClients <- 2, MaxWindows <- 2, Batch <- 1,
    Moves <- {<<0, 0>>, <<-1, 0>>, <<0, 1>>}, MaxIds <- 2

VARIABLES shape, rect, look, focused, hovered, grab, damaged, needsLayout, running,
          surface, shown, clicks, edited
Ui == INSTANCE Toolkit WITH
    WindowWidth <- 11, TextMax <- 3, Letters <- {"x"}, Points <- {-1, 3, 6, 8},
    Rows <- [along : {0, 1, 3}, expand : BOOLEAN], Spacing <- 1, Padding <- 1

VARIABLES columns, rows, storage, topRow, used, view, caret, saved, pen, marked, parse,
          parameters, private, feeding, painted, sheet, unmarked, fed
G == INSTANCE TerminalGrid WITH
    cursor <- caret, dirty <- marked, surface <- painted, top <- topRow, state <- parse,
    paper <- sheet,
    Shapes <- {<<2, 2>>}, ScrollbackRows <- 3, MaxParameters <- 2, TabWidth <- 2,
    Alphabet <- {"x", "nl", "esc", "[", "2", "J"}, MaxFed <- 4
Wide == INSTANCE TerminalGrid WITH
    cursor <- caret, dirty <- marked, surface <- painted, top <- topRow, state <- parse,
    paper <- sheet,
    Shapes <- {<<2, 1>>, <<1, 2>>}, ScrollbackRows <- 2, MaxParameters <- 2, TabWidth <- 2,
    Alphabet <- {"x", "nl", "cr", "esc", "[", "]", "?", ";", "2", "C", "K", "m"}, MaxFed <- 3

VARIABLES width, height, radius, elevation, clip, child
Box(x, y, w, h) == [x |-> x, y |-> y, w |-> w, h |-> h]
B == INSTANCE Painter WITH
    Far <- 20, MaxSide <- 7, MaxRadius <- 4, MaxElevation <- 3,
    Clips <- {<<Box(1, 1, 4, 5), Box(0, 0, 9, 3)>>, <<Box(-3, 0, 5, 9), Box(2, 2, 3, 3)>>,
              <<Box(-2, -2, 12, 4), Box(1, -1, 2, 9)>>}

VARIABLES points, ends, stored, storedX, storedY
Q == INSTANCE Outline WITH
    Xs <- {0, 3}, Ys <- {0}, OnCurve <- {TRUE}, MaxPoints <- 3, MaxContours <- 0, Base <- 4,
    Packed <- TRUE, Fine <- 1
Curve == INSTANCE Outline WITH
    Xs <- {0, 1}, Ys <- {0, 1}, OnCurve <- BOOLEAN, MaxPoints <- 4, MaxContours <- 2, Base <- 4,
    Packed <- FALSE, Fine <- 1
Shape == INSTANCE Outline WITH
    Xs <- {0, 1, 3}, Ys <- {0, 1, 2}, OnCurve <- {TRUE}, MaxPoints <- 4, MaxContours <- 1, Base <- 4,
    Packed <- FALSE, Fine <- 2

hv == <<heap, aligned, job>>
av == <<calls, mm, space, brk, mmapNext, moduleNext, file>>
fv == <<pages, size, content, desc, children, listed>>
sv == <<pend, mask, action, mode, isStopped, call, restartable, frame, contexts>>
tv == <<ready, output, line, tty, feeder, reader, master, signals, accepted, taken, typed>>
dv == <<ring, irqReader, irqAccepted, irqTaken, held, extended, down, packet,
        packetSize, phase, buttons, inputs>>
mv == <<state, pc, memory, handlers, masked, nodes, open, source, queues, keyboardOn>>
rv == <<now, updating, ticks, reading>>
iv == <<placements, total, stage, symbol, patched, readonly, mapped>>
cv == <<screen, column, row, escape, params, colour, suspended, tabbing, paper, top, written>>
wv == <<opened, count, acquired, quiet, client, overlapped>>
uv == <<entries, image, offset, inodes, parsing>>
xv == <<at, passed, program, args, blocks, freedTwice, unread, newSpace, segment, result>>
serverv == <<clients, windows, stack, nextId, cursor, pointer, dragging, grabOffset, dirty,
             lastFocus, desktop, turn, polled, moved, peer, toServer, pixels, unannounced>>
uiv == <<shape, rect, look, focused, hovered, grab, damaged, needsLayout, running,
         surface, shown, clicks, edited>>
gv == <<columns, rows, storage, topRow, used, view, caret, saved, pen, marked, parse,
        parameters, private, feeding, painted, sheet, unmarked, fed>>
bv == <<width, height, radius, elevation, clip, child>>
qv == <<points, ends, stored, storedX, storedY>>
vars == <<which, steps, hv, av, fv, sv, tv, dv, mv, rv, iv, cv, wv, uv, xv,
          serverv, uiv, gv, bv, qv>>

\* A part that is not chosen has no state: its variables are 0.
Init ==
    /\ which \in Parts /\ steps = 0
    /\ IF which = "heap" THEN H!HInit ELSE
         heap = 0 /\ aligned = 0 /\ job = 0
    /\ IF which = "space" THEN A!AInit /\ calls = 0 ELSE
         calls = 0 /\ mm = 0 /\ space = 0 /\ brk = 0 /\ mmapNext = 0
         /\ moduleNext = 0 /\ file = 0
    /\ IF which \in {"file", "directory"} THEN F!DInit ELSE
         pages = 0 /\ size = 0 /\ content = 0 /\ desc = 0 /\ children = 0
         /\ listed = 0
    /\ IF which = "signals" THEN S!SInit ELSE
         pend = 0 /\ mask = 0 /\ action = 0 /\ mode = 0 /\ isStopped = 0
         /\ call = 0 /\ restartable = 0 /\ frame = 0 /\ contexts = 0
    /\ IF which = "input" THEN TypedIn!TInit ELSE IF which = "output" THEN Shown!TInit ELSE
         ready = 0 /\ output = 0 /\ line = 0 /\ tty = 0 /\ feeder = 0 /\ reader = 0
         /\ master = 0 /\ signals = 0 /\ accepted = 0 /\ taken = 0 /\ typed = 0
    /\ IF which \in {"keyboard", "mouse"}
       THEN Mouse!KInit /\ (which = "mouse" \/ (packetSize = 3 /\ phase = 0)) ELSE
         ring = 0 /\ irqReader = 0 /\ irqAccepted = 0 /\ irqTaken = 0 /\ held = 0
         /\ extended = 0 /\ down = 0 /\ packet = 0 /\ packetSize = 0 /\ phase = 0
         /\ buttons = 0 /\ inputs = 0
    /\ IF which = "modules" THEN M!LInit ELSE
         state = 0 /\ pc = 0 /\ memory = 0 /\ handlers = 0 /\ masked = 0
         /\ nodes = 0 /\ open = 0 /\ source = 0 /\ queues = 0 /\ keyboardOn = 0
    /\ IF which = "rtc" THEN Keyboard!RInit ELSE
         now = 0 /\ updating = 0 /\ ticks = 0 /\ reading = 0
    /\ IF which = "image" THEN I!IInit ELSE
         placements = 0 /\ total = 0 /\ stage = 0 /\ symbol = 0 /\ patched = 0
         /\ readonly = 0 /\ mapped = 0
    /\ IF which = "console" THEN C!CInit ELSE
         screen = 0 /\ column = 0 /\ row = 0 /\ escape = 0 /\ params = 0
         /\ colour = 0 /\ suspended = 0 /\ tabbing = 0 /\ paper = 0 /\ top = 0
         /\ written = 0
    /\ IF which = "screen" THEN W!WInit ELSE
         opened = 0 /\ count = 0 /\ acquired = 0 /\ quiet = 0 /\ client = 0
         /\ overlapped = 0
    /\ IF which = "ustar" THEN U!UInit ELSE
         entries = 0 /\ image = 0 /\ offset = 0 /\ inodes = 0 /\ parsing = 0
    /\ IF which = "exec" THEN X!XInit ELSE
         at = 0 /\ passed = 0 /\ program = 0 /\ args = 0 /\ blocks = 0
         /\ freedTwice = 0 /\ unread = 0 /\ newSpace = 0 /\ segment = 0
         /\ result = 0
    /\ IF which = "server" THEN Server!WInit ELSE
         clients = 0 /\ windows = 0 /\ stack = 0 /\ nextId = 0 /\ cursor = 0
         /\ pointer = 0 /\ dragging = 0 /\ grabOffset = 0 /\ dirty = 0
         /\ lastFocus = 0 /\ desktop = 0 /\ turn = 0 /\ polled = 0 /\ moved = 0
         /\ peer = 0 /\ toServer = 0 /\ pixels = 0 /\ unannounced = 0
    /\ IF which = "toolkit" THEN Ui!UiInit ELSE
         shape = 0 /\ rect = 0 /\ look = 0 /\ focused = 0 /\ hovered = 0
         /\ grab = 0 /\ damaged = 0 /\ needsLayout = 0 /\ running = 0
         /\ surface = 0 /\ shown = 0 /\ clicks = 0 /\ edited = 0
    /\ IF which = "parser" THEN Wide!GInit ELSE IF which = "grid" THEN G!GInit ELSE
         columns = 0 /\ rows = 0 /\ storage = 0 /\ topRow = 0 /\ used = 0
         /\ view = 0 /\ caret = 0 /\ saved = 0 /\ pen = 0 /\ marked = 0
         /\ parse = 0 /\ parameters = 0 /\ private = 0 /\ feeding = 0
         /\ painted = 0 /\ sheet = 0 /\ unmarked = 0 /\ fed = 0
    /\ IF which = "painter" THEN B!PaintInit ELSE
         width = 0 /\ height = 0 /\ radius = 0 /\ elevation = 0 /\ clip = 0
         /\ child = 0
    /\ IF which \in {"glyph", "curve", "outline"} THEN Q!OutlineInit ELSE
         points = 0 /\ ends = 0 /\ stored = 0 /\ storedX = 0 /\ storedY = 0

\* The parts that do not move.
Others ==
    /\ UNCHANGED which
    /\ IF which \in DOMAIN MaxSteps THEN TRUE ELSE UNCHANGED steps
    /\ IF which = "heap" THEN TRUE ELSE UNCHANGED hv
    /\ IF which = "space" THEN TRUE ELSE UNCHANGED av
    /\ IF which \in {"file", "directory"} THEN TRUE ELSE UNCHANGED fv
    /\ IF which = "signals" THEN TRUE ELSE UNCHANGED sv
    /\ IF which \in {"input", "output"} THEN TRUE ELSE UNCHANGED tv
    /\ IF which \in {"keyboard", "mouse"} THEN TRUE ELSE UNCHANGED dv
    /\ IF which = "modules" THEN TRUE ELSE UNCHANGED mv
    /\ IF which = "rtc" THEN TRUE ELSE UNCHANGED rv
    /\ IF which = "image" THEN TRUE ELSE UNCHANGED iv
    /\ IF which = "console" THEN TRUE ELSE UNCHANGED cv
    /\ IF which = "screen" THEN TRUE ELSE UNCHANGED wv
    /\ IF which = "ustar" THEN TRUE ELSE UNCHANGED uv
    /\ IF which = "exec" THEN TRUE ELSE UNCHANGED xv
    /\ IF which = "server" THEN TRUE ELSE UNCHANGED serverv
    /\ IF which = "toolkit" THEN TRUE ELSE UNCHANGED uiv
    /\ IF which \in {"grid", "parser"} THEN TRUE ELSE UNCHANGED gv
    /\ IF which = "painter" THEN TRUE ELSE UNCHANGED bv
    /\ IF which \in {"glyph", "curve", "outline"} THEN TRUE ELSE UNCHANGED qv

\* No other part needs a bound on its steps.
StepBounds == [server |-> 11, toolkit |-> 5]
Counted == steps < MaxSteps[which] /\ steps' = steps + 1

Next ==
    \/ which = "heap" /\ H!HNext /\ Others
    \/ which = "space" /\ calls < MaxCalls /\ calls' = calls + 1 /\ A!ANext /\ Others
    \/ which = "file" /\ F!FileNext /\ Others
    \/ which = "directory" /\ F!DirNext /\ Others
    \/ which = "signals" /\ S!SNext /\ Others
    \/ which = "input" /\ TypedIn!InputNext /\ Others
    \/ which = "output" /\ Shown!OutputNext /\ Others
    \/ which = "keyboard" /\ Keyboard!KeyNext /\ Others
    \/ which = "mouse" /\ Mouse!MouseNext /\ Others
    \/ which = "modules" /\ M!LNext /\ Others
    \/ which = "rtc" /\ Keyboard!RNext /\ Others
    \/ which = "image" /\ I!INext /\ Others
    \/ which = "console" /\ C!CNext /\ Others
    \/ which = "screen" /\ W!WNext /\ Others
    \/ which = "ustar" /\ U!UNext /\ Others
    \/ which = "exec" /\ X!XNext /\ Others
    \/ which = "server" /\ Counted /\ Server!WNext /\ Others
    \/ which = "toolkit" /\ Counted /\ Ui!UiNext /\ Others
    \/ which = "grid" /\ G!GNext /\ Others
    \/ which = "parser" /\ Wide!GNext /\ Others
    \/ which = "painter" /\ B!PaintNext /\ Others
    \/ which = "glyph" /\ Q!OutlineNext /\ Others
    \/ which = "curve" /\ Curve!OutlineNext /\ Others
    \/ which = "outline" /\ Shape!OutlineNext /\ Others

Spec == Init /\ [][Next]_vars
-----------------------------------------------------------------------------

(* The blocks of the kernel heap lie apart and tile what was taken for     *)
(* them, and its statistics count what is handed out (kernel/mm/heap.cpp). *)
(* A frame user mode may write has one owner, every address space sees the *)
(* same kernel half, the resident count is exact, and a user page is       *)
(* reachable at every level (kernel/mm/address_space.cpp).                 *)
MemorySound ==
    /\ which = "heap" => H!Partitioned /\ H!StatsExact
    /\ which = "space" => A!OneOwner /\ A!KernelShared /\ A!ResidentExact /\ A!UserReachable

(* A tmpfs file reads back as the byte string its writes and truncations   *)
(* made, holes as zeros; getdents in several calls lists an unchanged      *)
(* directory once (kernel/fs/tmpfs.cpp, vfs.cpp). The tree the ramdisk is  *)
(* unpacked into holds the paths of the archive, each once, and every file *)
(* the bytes of its last entry (kernel/fs/ustar.cpp).                      *)
FilesFaithful ==
    /\ which = "file" => F!FileFaithful
    /\ which = "directory" => F!ListedOnce
    /\ which = "ustar" => U!TreeFaithful /\ U!DataFaithful

(* Signal handlers nest, and sigreturn goes back to what each one          *)
(* interrupted; a call fails with EINTR only in a program that handled a   *)
(* signal (kernel/sys/syscall.cpp, deliver_pending_signal).                *)
SignalsNest == which = "signals" => S!HandlersNest /\ S!EintrExplained

(* Terminals, the keyboard and the mouse hand out what they took, in       *)
(* order; a line being edited has not been handed to a reader; a modifier  *)
(* the keyboard driver holds is held by a key; a time the clock driver     *)
(* returns is one the chip showed (kernel/dev/line_discipline.cpp,         *)
(* pty.cpp, modules/ps2kbd, ps2mouse, rtc).                                *)
InputFaithful ==
    /\ which = "input" => TypedIn!BytesInOrder /\ TypedIn!EditedPrivate
    /\ which = "output" => Shown!BytesInOrder /\ Shown!EditedPrivate
    /\ which = "keyboard" => Keyboard!InputInOrder /\ Keyboard!NoStuckModifier
    /\ which = "mouse" => Mouse!InputInOrder
    /\ which = "rtc" => Keyboard!ReadingTrue

(* Nothing the kernel calls or shows belongs to a module whose memory is   *)
(* gone, a line without a handler is masked, and the mouse driver leaves   *)
(* the keyboard on (kernel/module/kernel_api.cpp, the drivers' init and    *)
(* fini functions).                                                        *)
NothingDangles == which = "modules" => M!NoDangling /\ M!QuietLines /\ M!KeyboardComesBack

(* The sections of a module lie apart, aligned and inside its memory, none *)
(* of its pages holds both code and data it writes, and a relocation       *)
(* stores the value its type defines (kernel/module/loader.cpp). The       *)
(* segments of a program hold what its file says, it finds the arguments   *)
(* passed to execve, and every way out of execve gives back the kernel     *)
(* memory it took (kernel/sys/elf_loader.cpp, syscall.cpp).                *)
ImagesExact ==
    /\ which = "image" => I!LaidOut /\ I!TextAlone /\ I!RelocationsExact
    /\ which = "exec" => X!ArgumentsArrive /\ X!ImageFaithful /\ X!BlocksReturned

(* The console shows the last rows of what was written and its cursor      *)
(* never leaves the screen; it draws again once the program that took the  *)
(* screen is gone (kernel/dev/framebuffer.cpp, fbdev.cpp).                 *)
ConsoleRight ==
    /\ which = "console" => C!ShowsTail /\ C!WithinBounds
    /\ which = "screen" => W!ScreenGivenBack

(* A mouse driver in step with its packets stays in step                   *)
(* (modules/ps2mouse). The console never starts to draw over a program     *)
(* that has the screen (kernel/fs/devfs.cpp).                              *)
DevicesKept ==
    [][/\ which = "mouse" => Mouse!StaysInStep
       /\ which = "screen" => W!ScreenKept]_vars

(* Between turns the screen is what repainting all of it would give, the   *)
(* stack holds every live window once, and a window that is dragged keeps  *)
(* its place under the pointer (user/wsys/wsys.c).  A window with nothing  *)
(* to repaint shows what painting it afresh would draw, a control looks    *)
(* pressed exactly while it has the mouse, a text field is what its keys   *)
(* make of it, children that fit fill their row (user/libui/window.c,      *)
(* controls.c, widget.c).  A terminal's ring holds the last rows that were *)
(* on its screen, its cursor stays inside, and a row that is not marked    *)
(* shows its cells (user/libui/terminal.c).                                *)
DisplaysCurrent ==
    /\ which = "server" => Server!ScreenCurrent /\ Server!StackExact /\ Server!GrabHeld
    /\ which = "toolkit" => /\ Ui!SurfaceCurrent /\ Ui!PressedIsGrabbed
                            /\ Ui!EditFaithful /\ Ui!LayoutFills
    /\ which = "grid" => G!RingFaithful /\ G!CursorWithin /\ G!RowsCurrent
    /\ which = "parser" => Wide!RingFaithful /\ Wide!CursorWithin /\ Wide!RowsCurrent

(* A primitive paints inside a clip what it would without one, blends no   *)
(* pixel twice, strokes on its own fill, and a shadow is cut only where    *)
(* the window is (user/libui/paint.c). The points of a glyph are unpacked  *)
(* as they were stored, a contour is one closed loop through them, and a   *)
(* pixel is covered as far as it lies inside (user/libui/truetype.c).      *)
PixelsExact ==
    /\ which = "painter" => B!ClipExact /\ B!BlendedOnce /\ B!StrokeOnFill /\ B!HoleOnly
    /\ which = "glyph" => Q!PointsExact
    /\ which = "curve" => Curve!ContourClosed
    /\ which = "outline" => Shape!InsideFilled
=============================================================================
