------------------------------- MODULE Streams -------------------------------
(***************************************************************************)
(* The streams of the C library as resources (user/libc/src/stdio.c): the  *)
(* table of FILEs, the descriptors and the buffers behind them, and the    *)
(* children popen starts. What a stream reads and writes is module Stdio's *)
(* subject.                                                                *)
(*                                                                         *)
(* The program calls as the C standard allows: it uses a stream only while *)
(* it is open, closes one popen gave it with pclose, and gives setvbuf no  *)
(* buffer of its own. A child of popen(.., "w") reads its standard input   *)
(* to the end and exits; one of popen(.., "r") writes and exits.           *)
(***************************************************************************)
EXTENDS Integers, Sequences, FiniteSets
LOCAL INSTANCE FiniteSetsExt

CONSTANTS
    MaxStreams, \* MAX_STREAMS; the streams are 1..MaxStreams and Stdout
    MaxPipes,   \* MAX_PIPES
    MaxFd,      \* the largest descriptor
    MaxMade     \* files, pipes, buffers and children made in a behaviour

VARIABLES
    streams,    \* stream -> [used, fd, buffer, static, open]
    table,      \* descriptor -> what it refers to
    heap,       \* buffers malloc gave out and has not got back
    badFree,    \* free was called on something else
    pipes,      \* s_pipes: slot -> [stream, child]
    children,   \* child -> [state, table]
    waiting,    \* the child pclose waits for, 0 outside
    made        \* number of the last thing made

stvars == <<streams, table, heap, badFree, pipes, children, waiting, made>>

Stdout == 0
Streams == 0..MaxStreams
Closed == <<"closed", 0>>
NoStream == [used |-> FALSE, fd |-> 0, buffer |-> 0, static |-> FALSE, open |-> FALSE]
Static == -1            \* s_stdout_buffer, or a buffer the program gave to fmemopen

StInit ==
    /\ streams = [s \in Streams |->
        IF s = Stdout THEN [used |-> TRUE, fd |-> 1, buffer |-> Static, static |-> TRUE, open |-> TRUE]
        ELSE NoStream]
    /\ table = [d \in 0..MaxFd |-> IF d < 2 THEN <<"terminal", 0>> ELSE Closed]
    /\ heap = {} /\ badFree = FALSE
    /\ pipes = [i \in 1..MaxPipes |-> [stream |-> -1, child |-> 0]]
    /\ children = <<>> /\ waiting = 0 /\ made = 0

-----------------------------------------------------------------------------
(* What the calls below share                                              *)

Calls == waiting = 0 /\ made < MaxMade
FreeStreams == {s \in Streams : ~streams[s].used}
FreeFds(t) == {d \in DOMAIN t : t[d] = Closed}
Lowest(t) == Min(FreeFds(t))
Freed(buffer) ==
    /\ heap' = heap \ {buffer}
    /\ badFree' = (badFree \/ (buffer # 0 /\ buffer \notin heap))
NothingFreed == UNCHANGED <<heap, badFree>>

\* A stream on descriptor d with a buffer of its own, or none if malloc fails.
\* `flags' is not zero from here on.
Opened(d, buffer) == [used |-> TRUE, fd |-> d, buffer |-> buffer, static |-> FALSE, open |-> TRUE]

-----------------------------------------------------------------------------
(* Opening and closing                                                     *)

\* fopen on the lowest free stream, its buffer the number `buffer'; 0 if
\* malloc had none.
fopen ==
    /\ Calls /\ made' = made + 1
    /\ \/ FreeStreams = {} /\ UNCHANGED <<streams, table, heap>>
       \/ FreeStreams # {} /\ UNCHANGED <<streams, table, heap>>       \* open fails
       \/ /\ FreeStreams # {} /\ FreeFds(table) # {}
          /\ table' = [table EXCEPT ![Lowest(table)] = <<"file", made'>>]
          /\ \E buffer \in {0, made'} :
                /\ streams' = [streams EXCEPT ![Min(FreeStreams)] = Opened(Lowest(table), buffer)]
                /\ heap' = heap \cup ({buffer} \ {0})
    /\ UNCHANGED <<badFree, pipes, children, waiting>>

\* fdopen on a descriptor no stream has yet.
fdopen ==
    /\ Calls /\ made' = made + 1 /\ FreeFds(table) # {}
    /\ table' = [table EXCEPT ![Lowest(table)] = <<"file", made'>>]    \* open, by the program
    /\ \/ FreeStreams = {} /\ UNCHANGED <<streams, heap>>
       \/ /\ FreeStreams # {}
          /\ \E buffer \in {0, made'} :
                /\ streams' = [streams EXCEPT ![Min(FreeStreams)] = Opened(Lowest(table), buffer)]
                /\ heap' = heap \cup ({buffer} \ {0})
    /\ UNCHANGED <<badFree, pipes, children, waiting>>

fmemopen ==
    /\ Calls /\ made' = made + 1 /\ FreeStreams # {}
    /\ streams' = [streams EXCEPT ![Min(FreeStreams)] =
                    [used |-> TRUE, fd |-> -1, buffer |-> Static, static |-> TRUE, open |-> TRUE]]
    /\ UNCHANGED <<table, heap, badFree, pipes, children, waiting>>

\* close(fd) and what becomes of the stream.
\* Mutant: a stream without a descriptor is closed like the others.
Close_all(s) ==
    /\ table' = [d \in DOMAIN table |-> IF d = streams[s].fd THEN Closed ELSE table[d]]
    /\ streams' = [streams EXCEPT ![s] = NoStream]
    /\ Freed(streams[s].buffer)
Close(s) ==
    /\ table' = [d \in DOMAIN table |-> IF d = streams[s].fd THEN Closed ELSE table[d]]
    /\ IF streams[s].fd < 0 THEN streams' = [streams EXCEPT ![s] = NoStream] /\ NothingFreed
       ELSE IF streams[s].static
       THEN streams' = [streams EXCEPT ![s].open = FALSE] /\ NothingFreed
       ELSE streams' = [streams EXCEPT ![s] = NoStream] /\ Freed(streams[s].buffer)

OfPopen(s) == \E i \in DOMAIN pipes : pipes[i].stream = s

fclose ==
    /\ Calls
    /\ \E s \in Streams : streams[s].open /\ ~OfPopen(s) /\ Close(s)
    /\ UNCHANGED <<pipes, children, waiting, made>>

\* freopen: a stream opened afresh, moved onto the old descriptor and then
\* onto the old stream.
Reopened(s, buffer) ==
    LET old == streams[s].fd
    IN  IF old < 0
        THEN \* dup2 fails, and the replacement is closed again
             /\ UNCHANGED <<table, streams, heap, badFree>>
        ELSE /\ table' = [table EXCEPT ![old] = <<"file", made'>>]
             /\ streams' = [streams EXCEPT ![s].buffer = buffer]
             /\ IF streams[s].static THEN UNCHANGED badFree /\ heap' = heap \cup ({buffer} \ {0})
                ELSE /\ heap' = (heap \ {streams[s].buffer}) \cup ({buffer} \ {0})
                     /\ badFree' = (badFree \/ (streams[s].buffer # 0 /\ streams[s].buffer \notin heap))

freopen ==
    /\ Calls /\ made' = made + 1
    /\ \E s \in Streams : streams[s].open /\ ~OfPopen(s) /\
        \/ FreeStreams # {} /\ FreeFds(table) # {} /\ \E buffer \in {0, made'} :
            Reopened(s, buffer)
        \/ UNCHANGED <<table, streams, heap, badFree>>                 \* fopen fails
    /\ UNCHANGED <<pipes, children, waiting>>

-----------------------------------------------------------------------------
(* Pipes to commands                                                       *)

FreeSlots == {i \in DOMAIN pipes : pipes[i].stream = -1}
ReadEnd == <<"read", made + 1>>
WriteEnd == <<"write", made + 1>>

\* What the child of popen has open: the parent's descriptors, with the
\* pipe's end on its standard input or output and both ends closed.
\* Mutant: the child does not close the end it does not use.
Child_keeps(r, w, reading) ==
    LET t == [table EXCEPT ![r] = ReadEnd, ![w] = WriteEnd]
    IN  IF reading THEN [t EXCEPT ![1] = WriteEnd, ![w] = Closed]
        ELSE [t EXCEPT ![0] = ReadEnd, ![r] = Closed]
Child(r, w, reading) ==
    IF reading THEN [table EXCEPT ![1] = WriteEnd] ELSE [table EXCEPT ![0] = ReadEnd]

\* fork fails, or there are too few descriptors, or no stream is free for
\* fdopen: then the child runs and is not in s_pipes.
popen ==
    /\ Calls /\ made' = made + 1
    /\ FreeSlots # {} /\ Cardinality(FreeFds(table)) >= 2
    /\ \E reading \in BOOLEAN, buffer \in {0, made'} :
        LET r == Lowest(table)
            w == Min(FreeFds(table) \ {r})
            child == [state |-> IF reading THEN "writes" ELSE "reads", table |-> Child(r, w, reading)]
            mine == IF reading THEN r ELSE w
        IN  /\ children' = Append(children, child)
            /\ IF FreeStreams = {} THEN UNCHANGED <<table, streams, pipes, heap>>
               ELSE /\ table' = [table EXCEPT ![mine] = IF reading THEN ReadEnd ELSE WriteEnd]
                    /\ streams' = [streams EXCEPT ![Min(FreeStreams)] = Opened(mine, buffer)]
                    /\ heap' = heap \cup ({buffer} \ {0})
                    /\ pipes' = [pipes EXCEPT ![Min(FreeSlots)] =
                                    [stream |-> Min(FreeStreams), child |-> Len(children')]]
    /\ UNCHANGED <<badFree, waiting>>

\* Mutant: the slot is not given back.
Forget_not(slot) == UNCHANGED pipes
Forget(slot) == pipes' = [pipes EXCEPT ![slot] = [stream |-> -1, child |-> 0]]

pclose ==
    /\ waiting = 0
    /\ \E s \in Streams : OfPopen(s) /\ streams[s].open /\
        LET slot == Min({i \in DOMAIN pipes : pipes[i].stream = s})
        IN  Forget(slot) /\ Close(s) /\ waiting' = pipes[slot].child
    /\ UNCHANGED <<children, made>>

\* waitpid returns; a child that was reaped before is no child any more.
WaitEnds ==
    /\ waiting # 0 /\ children[waiting].state \in {"zombie", "gone"}
    /\ children' = [children EXCEPT ![waiting].state = "gone"]
    /\ waiting' = 0
    /\ UNCHANGED <<streams, table, heap, badFree, pipes, made>>

Holds(t, what) == \E d \in DOMAIN t : t[d] = what
Live(c) == children[c].state \in {"reads", "writes"}
\* No one can write to the pipe that child c reads.
AtEnd(c) ==
    LET writeEnd == <<"write", children[c].table[0][2]>>
    IN  ~Holds(table, writeEnd) /\ \A k \in DOMAIN children : Live(k) => ~Holds(children[k].table, writeEnd)

ChildExits(c) ==
    /\ children[c].state = "writes" \/ (children[c].state = "reads" /\ AtEnd(c))
    /\ children' = [children EXCEPT ![c] = [state |-> "zombie", table |-> [d \in DOMAIN table |-> Closed]]]
    /\ UNCHANGED <<streams, table, heap, badFree, pipes, waiting, made>>

StNext ==
    \/ fopen \/ fdopen \/ fmemopen \/ fclose \/ freopen \/ popen \/ pclose \/ WaitEnds
    \/ \E c \in DOMAIN children : ChildExits(c)

-----------------------------------------------------------------------------
(* Properties                                                              *)

Open(s) == streams[s].open

(* What a stream uses is its own: an open stream's descriptor is open and  *)
(* no other open stream has it, its buffer has not been freed and is no    *)
(* other stream's, and free is never called on a buffer that malloc did    *)
(* not give out or has back (fclose, freopen: stdio.c:399-415, 1093-1134). *)
StreamsApart ==
    /\ ~badFree
    /\ \A s \in Streams : Open(s) =>
        /\ streams[s].buffer > 0 => streams[s].buffer \in heap
        /\ streams[s].fd >= 0 => table[streams[s].fd] # Closed
        /\ \A t \in Streams \ {s} : Open(t) =>
            /\ streams[s].buffer > 0 => streams[s].buffer # streams[t].buffer
            /\ streams[s].fd >= 0 => streams[s].fd # streams[t].fd

(* An entry of s_pipes joins an open stream with the child at the other    *)
(* end of its pipe, and no stream has two entries: pclose waits for the    *)
(* child it is asked to (stdio.c:1312-1336).                               *)
PipesMatched ==
    \A i \in DOMAIN pipes : pipes[i].stream # -1 =>
        LET s == pipes[i].stream
            c == pipes[i].child
            mine == table[streams[s].fd]
        IN  /\ Open(s)
            /\ \A j \in DOMAIN pipes \ {i} : pipes[j].stream # s
            /\ children[c].state # "gone"
            /\ children[c].state = "reads" => mine = <<"write", children[c].table[0][2]>>
            /\ children[c].state = "writes" => mine = <<"read", children[c].table[1][2]>>

(* pclose returns, unless another child inherited the write end: the       *)
(* command reads to the end of its input and exits (stdio.c:1279-1292,     *)
(* 1329-1335). popen does not close, in a new child, the pipes of earlier  *)
(* ones.                                                                   *)
Shared(c) ==
    \E k \in DOMAIN children \ {c} :
        Live(k) /\ children[c].state = "reads"
        /\ Holds(children[k].table, <<"write", children[c].table[0][2]>>)
PcloseReturns == (waiting # 0 /\ ~Shared(waiting)) ~> waiting = 0
==============================================================================
