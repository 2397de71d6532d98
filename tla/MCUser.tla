------------------------------- MODULE MCUser --------------------------------
(***************************************************************************)
(* Instances for TLC of the C library, the shell, pid 1 and the terminal   *)
(* emulator, and of poll, which they wait in.  A behaviour is one of one   *)
(* part, `which'; the variables of the others keep their initial values.   *)
(***************************************************************************)
EXTENDS Integers, Sequences

CONSTANTS
    Parts,      \* the parts to check
    MaxSteps    \* bound on the steps of a behaviour, part by part

VARIABLES which, steps

VARIABLES file, fd, stream, ideal, last
I == INSTANCE Stdio WITH
    steps <- steps, Capacity <- 2, Bytes <- {1, 10}, Offsets <- {-1, 0, 1}, MaxSize <- 3

VARIABLES pattern, chunks, flags
Strings(letters, n) == UNION {[1..k -> letters] : k \in 0..n}
X == INSTANCE Regex WITH
    Universe <- {"a", "b", "A", "nl", "*", "-"}, Flags <- {{"extended"}},
    Chunks <- {<<"a">>, <<"b">>, <<"(">>, <<")">>, <<"|">>, <<"*">>, <<"{", "2", "}">>,
               <<"[", "^", "a", "]">>, <<"^">>, <<"$">>, <<"\\", "1">>},
    MaxChunks <- 4, Texts <- Strings({"a", "b"}, 3)
Basic == INSTANCE Regex WITH
    Universe <- {"a", "b", "A", "nl", "*", "-"}, Flags <- {{}, {"icase", "newline"}},
    Chunks <- {<<"a">>, <<"\\", "(">>, <<"\\", ")">>, <<"*">>, <<"\\", "{", "1", ",", "\\", "}">>,
               <<".">>, <<"^">>, <<"$">>, <<"[", "a", "-", "b", "]">>, <<"\\", "<">>,
               <<"[", "[", ":", "space", ":", "]", "]">>, <<"\\", "?">>},
    MaxChunks <- 3, Texts <- Strings({"a", "A", "nl"}, 3)

VARIABLES directive, args
Spelled(flags_, width, precision, modifier, conversion) ==
    [flags |-> flags_, width |-> width, precision |-> precision, modifier |-> modifier,
     conversion |-> conversion]
F == INSTANCE Format WITH
    Width <- 3, Capacity <- 6, Arguments <- {[n |-> n, s |-> <<"x", "y">>] : n \in {-4, 3}},
    Directives <- {Spelled(f, w, p, m, c) :
        f \in {<<>>, <<"-">>, <<"0">>, <<"+", "0">>, <<"#", "0">>, <<"-", "0">>},
        w \in {<<>>, <<"4">>, <<"*">>}, p \in {<<>>, <<".", "1">>, <<".", "*">>},
        m \in {<<>>, <<"h", "h">>, <<"j">>}, c \in {"d", "x", "o", "p", "s", "c"}}

VARIABLES day, gone, second
D == INSTANCE Calendar WITH
    FirstDays <- {0, 11000, 36100, 47450}, Span <- 420, Seconds <- {0, 43200, 86399},
    Formats <- {<<"Y", "m", "d">>, <<"d", "b", "y", "H", "M", "S">>, <<"A", "B", "d", "Y">>,
                <<"a", "B", "j", "y">>}

VARIABLES pc, line, command, inputFd, group, kid, held, foreground, jobs, signals, late, words
S == INSTANCE Shell WITH
    stage <- command, MaxStages <- 2, MaxJobs <- 2, MaxSignals <- 1, MaxWords <- 3,
    Lines <- <<[stages |-> 2, background |-> FALSE], [stages |-> 1, background |-> TRUE]>>,
    Words <- {<<>>, <<"a">>, <<"a", " ", "b">>, <<"#", "a">>, <<"'", " ">>, <<"a", "#">>}

VARIABLES fds, announce, at, timeout, left, seen, todo, revents, signalled, result
P == INSTANCE Poll WITH ready <- fds, Fds <- {1, 2}, MaxTimeout <- 2

VARIABLES mem, brk, owned, environ, taken, capacity, strings, fresh, promised
L == INSTANCE Stdlib WITH
    HeaderSize <- 2, MinGrowth <- 8, BinCount <- 3, MinSplit <- 1, Requests <- {1, 2, 5},
    Limit <- 20, MaxBlocks <- 3,
    Names <- {"A", "B"}, Values <- {"x", "y"}, Slack <- 2, MaxStrings <- 8,
    Inherited <- {<<>>, <<<<"A", "x">>, <<"B", "y">>, <<"A", "y">>>>}

VARIABLES path, glob
Piece(kind, text, chars, negated) ==
    [kind |-> kind, text |-> text, chars |-> chars, negated |-> negated]
N == INSTANCE Paths WITH
    PathLetters <- {"/", ".", "a"}, MaxPath <- 6, Cwd <- <<"/", "h">>, MaxPieces <- 3,
    Subjects <- Strings({"/", ".", "a", "A"}, 3) \cup {<<"[">>, <<"a", "[">>},
    GlobFlags <- {{}, {"pathname", "period"}, {"casefold", "period"}},
    Pieces <- {Piece("star", <<"*">>, {}, FALSE), Piece("any", <<"?">>, {}, TRUE),
               Piece("literal", <<"a">>, {"a"}, FALSE), Piece("literal", <<"/">>, {"/"}, FALSE),
               Piece("literal", <<".">>, {"."}, FALSE), Piece("open", <<"[">>, {"["}, FALSE),
               Piece("literal", <<"\\", "*">>, {"*"}, FALSE),
               Piece("set", <<"[", "!", "A", "]">>, {"A"}, TRUE),
               Piece("set", <<"[", "]", ".", "-", "b", "]">>,
                     {"]", ".", "/", "A", "B", "[", "a", "b"}, FALSE),
               Piece("set", <<"[", "[", ":", "alpha", ":", "]", "]">>, {"A", "B", "a", "b", "c"}, FALSE)}

VARIABLES text, other, delimiters, cells, place, tokens, tree, root
Y == INSTANCE Bytes WITH
    saved <- place, Letters <- {32, 65, 97}, Capitals <- {65}, Delimiters <- {{32}, {32, 97}},
    MaxText <- 6, Word <- 4, Gaps <- <<10, 4, 1>>

VARIABLES streams, table, heap, badFree, pipes, children, waiting, made
O == INSTANCE Streams WITH MaxStreams <- 2, MaxPipes <- 2, MaxFd <- 5, MaxMade <- 3

VARIABLES init, brood, script, shell, forkFailed, emulator, own, ptys, offspring, childOwn, leads,
          terminal, front, hup, job
Z == INSTANCE Startup WITH child <- offspring, MaxPids <- 4, MaxFd <- 6

mv == <<mem, brk, owned>>
iv == <<file, fd, stream, ideal, last>>
xv == <<pattern, chunks, flags>>
fv == <<directive, args>>
dv == <<day, gone, second>>
sv == <<pc, line, command, inputFd, group, kid, held, foreground, jobs, signals, late, words>>
pv == <<fds, announce, at, timeout, left, seen, todo, revents, signalled, result>>
ev == <<environ, taken, capacity, strings, fresh, promised>>
nv == <<path, glob>>
yv == <<text, other, delimiters, cells, place, tokens, tree, root>>
ov == <<streams, table, heap, badFree, pipes, children, waiting, made>>
zv == <<init, brood, script, shell, forkFailed, emulator, own, ptys, offspring, childOwn, leads,
        terminal, front, hup, job>>
vars == <<which, steps, mv, iv, xv, fv, dv, sv, pv, ev, nv, yv, ov, zv>>

Init ==
    /\ which \in Parts /\ steps = 0
    /\ L!MInit /\ I!IoInit
    /\ IF which = "basic" THEN Basic!XInit ELSE X!XInit
    /\ IF which = "format" THEN F!FInit ELSE directive = <<>> /\ args = <<>>
    /\ IF which = "calendar" THEN D!DayInit ELSE day = 0 /\ gone = 0 /\ second = 0
    /\ S!ShInit /\ (which = "shell" \/ pc = "words")
    /\ P!PInit /\ (which = "poll" \/ fds = [f \in {1, 2} |-> "no"])
    /\ L!EInit /\ (which = "environment" \/ environ = <<>>)
    /\ N!PathInit
    /\ Y!BytesInit /\ O!StInit
    /\ Z!StartInit /\ (which = "emulator" \/ \A f \in 0..2 : own[f] = "none")

\* The parts that do not move.
Others ==
    /\ UNCHANGED which
    /\ IF which \in DOMAIN MaxSteps THEN TRUE ELSE UNCHANGED steps
    /\ IF which = "malloc" THEN TRUE ELSE UNCHANGED mv
    /\ IF which = "stdio" THEN TRUE ELSE UNCHANGED iv
    /\ IF which \in {"regex", "basic"} THEN TRUE ELSE UNCHANGED xv
    /\ IF which = "format" THEN TRUE ELSE UNCHANGED fv
    /\ IF which = "calendar" THEN TRUE ELSE UNCHANGED dv
    /\ IF which = "shell" THEN TRUE ELSE UNCHANGED sv
    /\ IF which = "poll" THEN TRUE ELSE UNCHANGED pv
    /\ IF which = "environment" THEN TRUE ELSE UNCHANGED ev
    /\ IF which = "paths" THEN TRUE ELSE UNCHANGED nv
    /\ IF which = "bytes" THEN TRUE ELSE UNCHANGED yv
    /\ IF which = "streams" THEN TRUE ELSE UNCHANGED ov
    /\ IF which \in {"pid1", "emulator"} THEN TRUE ELSE UNCHANGED zv

\* No other part needs a bound on its steps.
StepBounds == [stdio |-> 6]

Next ==
    \/ which = "malloc" /\ L!MNext /\ Others
    \/ which = "stdio" /\ steps < MaxSteps[which] /\ I!IoNext /\ Others
    \/ which = "regex" /\ X!XNext /\ Others
    \/ which = "basic" /\ Basic!XNext /\ Others
    \/ which = "format" /\ F!FNext /\ Others
    \/ which = "calendar" /\ D!NextDay /\ Others
    \/ which = "shell" /\ S!ShNext /\ Others
    \/ which = "poll" /\ P!PNext /\ Others
    \/ which = "environment" /\ L!ENext /\ Others
    \/ which = "paths" /\ N!PathNext /\ Others
    \/ which = "bytes" /\ Y!BytesNext /\ Others
    \/ which = "streams" /\ O!StNext /\ Others
    \/ which = "pid1" /\ Z!InitNext /\ Others
    \/ which = "emulator" /\ Z!PtyNext /\ Others

\* The shell and its children run; pclose and the commands it waits for run;
\* pid 1, the terminal emulator and its child run; the process that polls
\* runs, a device announces what it changed, the timer ticks.
Spec ==
    /\ Init /\ [][Next]_vars
    /\ WF_sv(which = "shell" /\ (S!ShellStep \/ \E p \in 1..4 : S!Child(p)))
    /\ WF_ov(which = "streams" /\ (O!WaitEnds \/ \E c \in DOMAIN children : O!ChildExits(c)))
    /\ WF_zv(which = "pid1" /\ Z!Pid1)
    /\ WF_zv(which = "emulator" /\ Z!Emulator)
    /\ WF_zv(which = "emulator" /\ Z!HungUp)
    /\ WF_pv(which = "poll" /\ P!PProcess)
    /\ WF_pv(which = "poll" /\ P!WakeAll)
    /\ WF_pv(which = "poll" /\ P!Tick)

-----------------------------------------------------------------------------

(* The blocks of malloc lie apart on one chain in address order, and a     *)
(* pointer handed out is a block as large as was asked for; every free     *)
(* block is on the list of its size class, once; no two free blocks are    *)
(* neighbours (user/libc/src/stdlib.c).                                    *)
MallocSound == which = "malloc" => L!ChainSound /\ L!BinsExact /\ L!Coalesced

(* A buffered stream cannot be told from an unbuffered file and reports    *)
(* end of file only at the end; open streams share neither descriptor nor  *)
(* buffer, and nothing in use is freed; popen's table joins each stream    *)
(* with the child of its pipe (user/libc/src/stdio.c).                     *)
StreamsFaithful ==
    /\ which = "stdio" => I!StreamFaithful /\ I!EofTrue
    /\ which = "streams" => O!StreamsApart /\ O!PipesMatched

(* regexec finds the leftmost match and the longest one there, numbers the *)
(* groups as they open, and reports for a group a span it matches          *)
(* (user/libc/src/regex.c). fnmatch agrees with the meaning of its pattern *)
(* (user/libc/src/posix.c).                                                *)
MatchesExact ==
    /\ which = "regex" => X!GroupsNumbered /\ X!LeftmostLongest /\ X!CapturesMatch
    /\ which = "basic" => Basic!GroupsNumbered /\ Basic!LeftmostLongest /\ Basic!CapturesMatch
    /\ which = "paths" => N!GlobAgrees

(* A printf directive takes its own arguments and no others, strtol reads  *)
(* back what it printed, a text cut short is a prefix with its NUL inside  *)
(* the buffer, and the kernel prints the same text (user/libc/src/stdio.c, *)
(* kernel/lib/format.cpp). mktime undoes gmtime, the day after a date is   *)
(* the next date of the calendar, strptime reads back what strftime        *)
(* printed, and the clock driver agrees on every second                    *)
(* (user/libc/src/time.c, modules/rtc/rtc.c).                              *)
PrintedReadsBack ==
    /\ which = "format" => F!ArgumentsInStep /\ F!ReadsBack /\ F!Truncated /\ F!KernelAgrees
    /\ which = "calendar" => D!TimesReturn /\ D!DatesFollow /\ D!DatesReadBack /\ D!ClocksAgree

(* memmove, the comparisons, the bounded copies, strstr, strtok, qsort,    *)
(* bsearch and the search tree do what they are defined to                 *)
(* (user/libc/src/string.c, stdlib.c, posix.c). The environment owns its   *)
(* strings, each of one entry, and getenv answers with the last change     *)
(* that succeeded (stdlib.c). dirname and basename rejoin, and realpath is *)
(* canonical (posix.c, posix_files.c).                                     *)
LibraryExact ==
    /\ which = "bytes" => /\ Y!MoveExact /\ Y!OrdersAgree /\ Y!CopiesBounded /\ Y!FoundFirst
                          /\ Y!TokensExact /\ Y!SortedAndFound /\ Y!TreeKeeps
    /\ which = "environment" => L!EntriesOwned /\ L!LastChangeSeen
    /\ which = "paths" => N!SplitRejoins /\ N!RealpathCanonical

(* At the prompt the terminal belongs to the shell, a program runs in its  *)
(* pipeline's group with its own pipe ends only, and arguments survive     *)
(* being typed and quoted (user/bin/sh.c). The shell of a terminal         *)
(* emulator has the slave, and only it, as its input, output and           *)
(* controlling terminal (user/libc/src/posix_files.c, forkpty).            *)
ShellsWired ==
    /\ which = "shell" => S!PromptOwnsTerminal /\ S!WiredAndGrouped /\ S!TokensReturn
    /\ which = "emulator" => Z!ShellOnPty

(* A process on the poll queue with a descriptor ready has an announcement *)
(* coming (kernel/sys/syscall.cpp, sys_poll).                              *)
NothingMissed == which = "poll" => P!NothingMissed

(* poll returns once a descriptor hangs up, unless a wake came between its *)
(* linking and its blocking, and with a deadline anyway                    *)
(* (kernel/sys/syscall.cpp). pclose returns unless another child inherited *)
(* the pipe (user/libc/src/stdio.c).                                       *)
CallersReturn == P!PollReturns /\ O!PcloseReturns

(* A foreground pipeline ends and the shell is back at its prompt          *)
(* (user/bin/sh.c). Whenever its shell has exited, pid 1 starts another    *)
(* unless fork has failed, and it waits for every child that exits         *)
(* (user/bin/init.c). A terminal emulator ends with its window and with    *)
(* its last process (user/wsys/terminal.c).                                *)
ShellsComeBack == S!PromptReturns /\ Z!ShellComesBack /\ Z!OrphansReaped /\ Z!EmulatorEnds
=============================================================================
