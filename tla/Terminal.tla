------------------------------ MODULE Terminal -------------------------------
(***************************************************************************)
(* A pseudo-terminal: the line discipline (kernel/dev/line_discipline.cpp) *)
(* between the program that types at the master and the one that reads     *)
(* the slave, and the output ring back to the master (kernel/dev/pty.cpp). *)
(* /dev/tty0 and /dev/tty (kernel/dev/tty.cpp) put the same discipline     *)
(* between the keyboard thread and the console.                            *)
(*                                                                         *)
(* Nothing here takes a lock, and a thread may lose the processor anywhere.*)
(* Feeding, committing a line, reading and writing are therefore a step    *)
(* per byte; there is one typist and one reader of each end.               *)
(***************************************************************************)
EXTENDS Naturals, Sequences, FiniteSets

CONSTANTS
    LineSize,    \* LINE_BUFFER_SIZE
    ReadySize,   \* READY_BUFFER_SIZE
    OutputSize,  \* PTY_OUTPUT_CAPACITY
    Keys,        \* what is typed: data bytes and the characters below
    Lengths,     \* lengths given to read
    Echoing,     \* ECHO
    MaxTyped     \* bytes typed and written in a behaviour

VARIABLES
    ready,       \* m_ready, m_ready_head, m_ready_tail
    output,      \* m_output, m_head, m_tail
    line,        \* m_line up to m_line_length
    tty,         \* [canon, isig, echo, post, eof, hup, slaveGone, foreground]
    feeder,      \* what is left of the feed under way: a queue of pushes
    reader,      \* the read of the slave: [at, want, got]
    master,      \* the read of the master: likewise
    signals,     \* raised for the reader since its read began
    accepted,    \* bytes each ring took, in order
    taken,       \* bytes each reader took, in order
    typed        \* bytes typed so far

tvars == <<ready, output, line, tty, feeder, reader, master, signals, accepted,
           taken, typed>>

\* A byte is its kind and a serial number, so that no two typed are alike.
Byte(k, n) == <<k, n>>
NoByte == Byte("none", 0)
Ring(n) == [cells |-> [i \in 0..(n - 1) |-> NoByte], head |-> 0, tail |-> 0]
\* A bug: the head may catch up with the tail.
FullNever(r, n) == FALSE

Full(r, n) == (r.head + 1) % n = r.tail
Empty(r) == r.head = r.tail
Pushed(r, n, c) ==
    IF Full(r, n) THEN r
    ELSE [r EXCEPT !.cells[r.head] = c, !.head = (r.head + 1) % n]
Took(r, n) == [r EXCEPT !.tail = (r.tail + 1) % n]
Idle == [at |-> "out", want |-> 0, got |-> 0]

TInit ==
    /\ ready = Ring(ReadySize) /\ output = Ring(OutputSize) /\ line = <<>>
    /\ tty = [canon |-> TRUE, isig |-> TRUE, echo |-> Echoing, post |-> TRUE, eof |-> FALSE,
              hup |-> FALSE, slaveGone |-> FALSE, foreground |-> "none"]
    /\ feeder = <<>> /\ reader = Idle /\ master = Idle
    /\ signals = {} /\ typed = 0
    /\ accepted = [e \in {"slave", "master"} |-> <<>>]
    /\ taken = [e \in {"slave", "master"} |-> <<>>]

-----------------------------------------------------------------------------

\* A feed is a queue of steps: push to the ready ring, push to the master
\* with or without waking it, raise a signal, wake the readers.
Push(c) == [do |-> "ready", c |-> c]
Wake == [do |-> "wake", c |-> NoByte]
Raise(c) == [do |-> "signal", c |-> c]
commit_line(l) == [i \in DOMAIN l |-> Push(l[i])] \o <<Wake>>

\* The output processing of write_from_slave: a newline brings its return.
Written(c) ==
    (IF c[1] = "nl" /\ tty.post THEN <<[do |-> "push", c |-> Byte("cr", c[2])]>> ELSE <<>>)
        \o <<[do |-> "echo", c |-> c]>>
\* An erased character is backed over and blanked, a control character shown
\* as two.
Echo(c) ==
    IF ~tty.echo THEN <<>>
    ELSE CASE c[1] = "erase" -> Written(c) \o Written(Byte("space", c[2])) \o Written(c)
           [] c[1] \in {"nl", "data"} -> Written(c)
           [] OTHER -> Written(Byte("^", c[2])) \o Written(c)
\* A reader between two reads takes its signals at once.
Signal(sig) ==
    signals' = IF tty.foreground # "own" \/ reader.at = "out" THEN signals
               ELSE signals \cup {sig}

\* feed(c), up to the bytes it will push; c stands for the typed byte itself.
Interrupt(c) ==
    /\ tty.isig /\ c[1] \in {"intr", "susp"}
    /\ line' = <<>>
    /\ feeder' = Echo(c) \o Echo(Byte("nl", 0)) \o <<Raise(c), Wake>>
    /\ UNCHANGED <<tty, signals>>

\* A bug: a byte pushed in raw mode goes into the line being edited as well.
RawFallsThrough(c) ==
    /\ ~(tty.isig /\ c[1] \in {"intr", "susp"}) /\ ~tty.canon
    /\ feeder' = <<Push(c)>> \o Echo(c) \o <<Wake>>
    /\ line' = IF Len(line) + 1 < LineSize THEN Append(line, c) ELSE line
    /\ UNCHANGED <<tty, signals>>

Raw(c) ==
    /\ ~(tty.isig /\ c[1] \in {"intr", "susp"}) /\ ~tty.canon
    /\ feeder' = <<Push(c)>> \o Echo(c) \o <<Wake>>
    /\ UNCHANGED <<line, tty, signals>>

\* What rubbing out n characters echoes.
Rubbed(n) == [i \in 1..(3 * n) |->
    [do |-> "echo", c |-> Byte(IF i % 3 = 2 THEN "space" ELSE "erase", 0)]]

Edited(c) ==
    /\ ~(tty.isig /\ c[1] \in {"intr", "susp"}) /\ tty.canon
    /\ CASE c[1] = "erase" ->
              /\ line' = SubSeq(line, 1, Len(line) - 1)
              /\ feeder' = IF line = <<>> THEN <<>> ELSE Echo(Byte("erase", 0))
              /\ UNCHANGED tty
         [] c[1] = "kill" ->
              /\ line' = <<>>
              /\ feeder' = IF tty.echo THEN Rubbed(Len(line)) ELSE <<>>
              /\ UNCHANGED tty
         [] c[1] = "eof" ->
              /\ tty' = [tty EXCEPT !.eof = @ \/ line = <<>>]
              /\ line' = <<>> /\ feeder' = commit_line(line)
         [] c[1] = "nl" ->
              /\ line' = <<>>
              /\ feeder' = Echo(Byte("nl", 0)) \o commit_line(
                               IF Len(line) < LineSize THEN Append(line, c) ELSE line)
              /\ UNCHANGED tty
         [] OTHER ->
              /\ IF Len(line) + 1 < LineSize
                 THEN line' = Append(line, c) /\ feeder' = Echo(c)
                 ELSE line' = line /\ feeder' = <<>>
              /\ UNCHANGED tty
    /\ UNCHANGED signals

Serial(k) == Byte(k, typed + 1)

feed ==
    /\ feeder = <<>> /\ typed < MaxTyped /\ ~tty.hup
    /\ \E k \in Keys : Interrupt(Serial(k)) \/ Raw(Serial(k)) \/ Edited(Serial(k))
    /\ typed' = typed + 1
    /\ UNCHANGED <<ready, output, reader, master, accepted, taken>>

Woken(r) == IF r.at = "asleep" THEN [r EXCEPT !.at = "woken"] ELSE r
Accept(end, r, n, c) ==
    accepted' = IF Full(r, n) THEN accepted ELSE [accepted EXCEPT ![end] = Append(@, c)]

\* push_ready
push_ready ==
    /\ feeder # <<>> /\ feeder[1].do = "ready"
    /\ ready' = Pushed(ready, ReadySize, feeder[1].c)
    /\ Accept("slave", ready, ReadySize, feeder[1].c)
    /\ feeder' = Tail(feeder)
    /\ UNCHANGED <<output, line, tty, reader, master, signals, taken, typed>>

wake_readers ==
    /\ feeder # <<>> /\ feeder[1].do = "wake"
    /\ reader' = Woken(reader)
    /\ feeder' = Tail(feeder)
    /\ UNCHANGED <<ready, output, line, tty, master, signals, accepted, taken, typed>>

signal_foreground_group ==
    /\ feeder # <<>> /\ feeder[1].do = "signal"
    /\ Signal(feeder[1].c[1])
    /\ feeder' = Tail(feeder)
    /\ UNCHANGED <<ready, output, line, tty, reader, master, accepted, taken, typed>>

\* One push of write_from_slave, called by the typist or the program.
echo ==
    /\ feeder # <<>> /\ feeder[1].do \in {"push", "echo"}
    /\ IF tty.hup THEN UNCHANGED <<output, accepted, master>>
       ELSE /\ output' = Pushed(output, OutputSize, feeder[1].c)
            /\ Accept("master", output, OutputSize, feeder[1].c)
            /\ master' = IF feeder[1].do = "echo" THEN Woken(master) ELSE master
    /\ feeder' = Tail(feeder)
    /\ UNCHANGED <<ready, line, tty, reader, signals, taken, typed>>

-----------------------------------------------------------------------------

\* LineDiscipline::read.  A terminal whose group has gone is nobody's; a
\* background process gets SIGTTIN and EINTR.
read ==
    /\ reader.at = "out" /\ ~tty.slaveGone
    /\ tty' = [tty EXCEPT !.foreground = IF @ = "gone" THEN "none" ELSE @]
    /\ IF tty.foreground = "other" THEN UNCHANGED reader
       ELSE \E n \in Lengths : reader' = [at |-> "test", want |-> n, got |-> 0]
    /\ signals' = {}
    /\ UNCHANGED <<ready, output, line, feeder, master, accepted, taken, typed>>

\* The condition of the wait loop.
read_test ==
    /\ reader.at = "test"
    /\ IF ~Empty(ready) THEN reader' = [reader EXCEPT !.at = "copy"] /\ UNCHANGED tty
       ELSE IF tty.eof THEN reader' = Idle /\ tty' = [tty EXCEPT !.eof = FALSE]
       ELSE IF tty.hup THEN reader' = Idle /\ UNCHANGED tty
       ELSE reader' = [reader EXCEPT !.at = "wait"] /\ UNCHANGED tty
    /\ UNCHANGED <<ready, output, line, feeder, master, signals, accepted, taken, typed>>

read_wait ==
    /\ reader.at = "wait" /\ reader' = [reader EXCEPT !.at = "asleep"]
    /\ UNCHANGED <<ready, output, line, tty, feeder, master, signals, accepted, taken, typed>>

\* Woken: a signal ends the read, anything else tests again.
read_woken ==
    /\ reader.at = "woken"
    /\ reader' = IF signals # {} THEN Idle ELSE [reader EXCEPT !.at = "test"]
    /\ UNCHANGED <<ready, output, line, tty, feeder, master, signals, accepted, taken, typed>>

\* A signal from elsewhere ends the wait of either end with EINTR.
interrupted ==
    /\ \/ reader.at = "asleep" /\ reader' = Idle /\ UNCHANGED master
       \/ master.at = "asleep" /\ master' = Idle /\ UNCHANGED reader
    /\ UNCHANGED <<ready, output, line, tty, feeder, signals, accepted, taken, typed>>

read_copy ==
    /\ reader.at = "copy"
    /\ IF reader.got < reader.want /\ ~Empty(ready)
       THEN /\ taken' = [taken EXCEPT !["slave"] = Append(@, ready.cells[ready.tail])]
            /\ ready' = Took(ready, ReadySize)
            /\ reader' = [reader EXCEPT !.got = @ + 1]
       ELSE reader' = Idle /\ UNCHANGED <<ready, taken>>
    /\ UNCHANGED <<output, line, tty, feeder, master, signals, accepted, typed>>

-----------------------------------------------------------------------------

\* The program on the slave writes a byte.  It competes with the echo for the
\* output ring, so it runs while nothing is being echoed.
write_from_slave ==
    /\ feeder = <<>> /\ typed < MaxTyped /\ ~tty.slaveGone
    /\ typed' = typed + 1
    /\ \E k \in {"data", "nl"} : feeder' = Written(Serial(k))
    /\ UNCHANGED <<ready, output, line, tty, reader, master, signals, accepted, taken>>

read_from_master ==
    /\ ~tty.hup
    /\ CASE master.at = "out" ->
              /\ \E n \in Lengths : master' = [at |-> "test", want |-> n, got |-> 0]
              /\ UNCHANGED <<output, taken>>
         [] master.at = "test" ->
              /\ master' = IF ~Empty(output) THEN [master EXCEPT !.at = "copy"]
                           ELSE IF tty.slaveGone THEN Idle
                           ELSE [master EXCEPT !.at = "wait"]
              /\ UNCHANGED <<output, taken>>
         [] master.at = "wait" ->
              master' = [master EXCEPT !.at = "asleep"] /\ UNCHANGED <<output, taken>>
         [] master.at = "woken" ->
              master' = [master EXCEPT !.at = "test"] /\ UNCHANGED <<output, taken>>
         [] master.at = "copy" ->
              IF master.got < master.want /\ ~Empty(output)
              THEN /\ taken' = [taken EXCEPT !["master"] = Append(@, output.cells[output.tail])]
                   /\ output' = Took(output, OutputSize)
                   /\ master' = [master EXCEPT !.got = @ + 1]
              ELSE master' = Idle /\ UNCHANGED <<output, taken>>
         [] OTHER -> FALSE
    /\ UNCHANGED <<ready, line, tty, feeder, reader, signals, accepted, typed>>

\* TCSETS, with raw mode as programs set it, TIOCSPGRP, and the end of the
\* last process of the foreground group.
ioctl ==
    /\ \/ \E on \in BOOLEAN : tty' = [tty EXCEPT !.canon = on, !.isig = on, !.post = on]
       \/ \E group \in {"own", "other"} : tty' = [tty EXCEPT !.foreground = group]
       \/ tty.foreground = "other" /\ tty' = [tty EXCEPT !.foreground = "gone"]
    /\ UNCHANGED <<ready, output, line, feeder, reader, master, signals, accepted, taken, typed>>

\* note_master_closed and set_hung_up; note_slave_closed.
note_master_closed ==
    /\ ~tty.hup /\ master.at = "out" /\ feeder = <<>>
    /\ tty' = [tty EXCEPT !.hup = TRUE]
    /\ Signal("hup") /\ reader' = Woken(reader)
    /\ UNCHANGED <<ready, output, line, feeder, master, accepted, taken, typed>>
note_slave_closed ==
    /\ ~tty.slaveGone /\ reader.at = "out"
    /\ tty' = [tty EXCEPT !.slaveGone = TRUE]
    /\ master' = Woken(master)
    /\ UNCHANGED <<ready, output, line, feeder, reader, signals, accepted, taken, typed>>

\* The two directions, which share the discipline's state and the hang-ups.
TypeNext ==
    \/ feed \/ push_ready \/ signal_foreground_group \/ wake_readers \/ echo
    \/ note_master_closed \/ note_slave_closed
InputNext ==
    \/ TypeNext \/ ioctl \/ interrupted
    \/ read \/ read_test \/ read_wait \/ read_woken \/ read_copy
OutputNext == TypeNext \/ write_from_slave \/ read_from_master \/ interrupted

-----------------------------------------------------------------------------

Unread(r, n) ==
    [i \in 1..((r.head + n - r.tail) % n) |-> r.cells[(r.tail + i - 1) % n]]

(* Each ring hands out exactly the bytes it took, in order and once: what  *)
(* was read followed by what is still unread is what was accepted, though  *)
(* typist and reader run into each other and a full ring drops bytes.      *)
BytesInOrder ==
    /\ taken["slave"] \o Unread(ready, ReadySize) = accepted["slave"]
    /\ taken["master"] \o Unread(output, OutputSize) = accepted["master"]

(* A line that is erased or interrupted is gone: in canonical mode nothing *)
(* that is still being edited has been handed to a reader.                 *)
EditedPrivate ==
    \A i \in DOMAIN line, j \in DOMAIN accepted["slave"] : accepted["slave"][j] # line[i]
=============================================================================
