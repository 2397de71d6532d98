-------------------------------- MODULE Pipe ---------------------------------
(***************************************************************************)
(* kernel/fs/pipe.cpp: one PipeBuffer and the processes that open, read,   *)
(* write and close it, as an anonymous pipe or as a named FIFO.  Nothing   *)
(* in PipeBuffer takes a lock; a process can be preempted between any two  *)
(* of its steps.  An increment of a counter is one instruction, and so one *)
(* step.  The bytes are copied one by one, the ring index and the byte in  *)
(* separate steps.                                                         *)
(*                                                                         *)
(* Signals are external: a process that is about to sleep may find one     *)
(* pending, and one that sleeps may be woken by one.  wake_all runs in the *)
(* step that makes the change it announces.                                *)
(***************************************************************************)
EXTENDS Naturals, Sequences, FiniteSets

CONSTANTS
    Procs,
    ReadOnly,     \* the processes that open with O_RDONLY,
    WriteOnly,    \* and with O_WRONLY; the others open with O_RDWR
    Nonblocking,  \* the processes that may open with O_NONBLOCK
    Readers,      \* the processes that read,
    Writers,      \* and those that write, if their description allows it
    Capacity,     \* PIPE_CAPACITY
    Bytes,
    MaxLength     \* bound on the length of one read or write

ASSUME PipeAssumption ==
    /\ IsFiniteSet(Procs) /\ Bytes # {}
    /\ Capacity \in Nat \ {0, 1}
    /\ MaxLength \in Nat \ {0}

\* O_ACCMODE of each process's open.
Access == [p \in Procs |-> CASE p \in ReadOnly -> "r"
                             [] p \in WriteOnly \ ReadOnly -> "w"
                             [] OTHER -> "rw"]

Sides == {"r", "w"}

\* The ends a description of p holds, and the end p waits for in open().
Ends(p) == IF Access[p] = "rw" THEN Sides ELSE {Access[p]}
Peer(p) == IF Access[p] = "r" THEN "w" ELSE "r"

VARIABLES
    buffer, head, tail,  \* m_buffer, m_head, m_tail
    ends,       \* m_readers and m_writers
    pending,    \* m_pending_readers and m_pending_writers
    arrived,    \* the other side's arrivals differ from arrivals_at_entry
    named,      \* a FIFO that can be opened, or a pair create_pair made
    at,         \* where process p is: see Positions
    length,     \* what p's read or write asked for
    done,       \* read_bytes or written
    index,      \* m_head or m_tail as the step before read it
    last        \* the byte handed to a reader last

vars == <<buffer, head, tail, ends, pending, arrived, named, at, length, done,
          index, last>>
ring == <<buffer, head, tail, last>>
call == <<length, done, index>>

\* open:  announced (await_peer has counted us), await (its loop), "owait" (has
\*        decided to wait), "oasleep" (on m_open_queue), "construct"
\* read:  "rtest", "rwait", "rasleep" (on m_read_queue), "rload", "radvance"
\* write: "wtest", "wwait", "wasleep" (on m_write_queue), "wstore", "wadvance"
Opening == {"announced", "await", "owait", "oasleep"}
Positions == {"closed", "construct", "open"} \cup Opening
                \cup {"rtest", "rwait", "rasleep", "rload", "radvance"}
                \cup {"wtest", "wwait", "wasleep", "wstore", "wadvance"}

TypeOK ==
    /\ buffer \in [0..(Capacity - 1) -> Bytes]
    /\ head \in 0..(Capacity - 1) /\ tail \in 0..(Capacity - 1)
    /\ ends \in [Sides -> 0..Cardinality(Procs)]
    /\ pending \in [Sides -> 0..Cardinality(Procs)]
    /\ arrived \in [Procs -> BOOLEAN]
    /\ named \in BOOLEAN
    /\ at \in [Procs -> Positions]
    /\ length \in [Procs -> 0..MaxLength] /\ done \in [Procs -> 0..MaxLength]
    /\ index \in [Procs -> 0..(Capacity - 1)]
    /\ last \in {<<>>} \cup {<<b>> : b \in Bytes}

\* Nobody has the FIFO open yet, or create_pair has returned.
Init ==
    /\ named \in BOOLEAN
    /\ buffer = [i \in 0..(Capacity - 1) |-> CHOOSE b \in Bytes : TRUE]
    /\ head = 0 /\ tail = 0
    /\ ends = [s \in Sides |-> IF named THEN 0 ELSE Cardinality({p \in Procs : Access[p] = s})]
    /\ pending = [s \in Sides |-> 0]
    /\ arrived = [p \in Procs |-> FALSE]
    /\ at = [p \in Procs |-> IF ~named /\ Access[p] \in Sides THEN "open" ELSE "closed"]
    /\ length = [p \in Procs |-> 0] /\ done = [p \in Procs |-> 0]
    /\ index = [p \in Procs |-> 0]
    /\ last = <<>>

After(i) == (i + 1) % Capacity
Used(h, t) == (h + Capacity - t) % Capacity
\* Mutant: the slot that tells full from empty is used
AvailableAll(h, t) == Capacity - Used(h, t)

Available(h, t) == Capacity - 1 - Used(h, t)

Move(p, to) == at' = [at EXCEPT ![p] = to]

\* p goes on to "to", and wake_all moves everybody who sleeps on a queue back
\* to the test the sleep was about.
MoveWaking(p, to, asleep, test) ==
    at' = [q \in Procs |-> IF q = p THEN to
                           ELSE IF at[q] \in asleep THEN test[at[q]] ELSE at[q]]

WakeOpeners == [a \in {"oasleep"} |-> "await"]
WakeReaders == [a \in {"rasleep"} |-> "rtest"]
WakeWriters == [a \in {"wasleep"} |-> "wtest"]
WakeBoth == [a \in {"rasleep", "wasleep"} |-> IF a = "rasleep" THEN "rtest" ELSE "wtest"]

-----------------------------------------------------------------------------
(* open(2) of a FIFO *)

\* Mutant: an end of an anonymous pipe can be opened again
OpenAtOnceAny(p) ==
    /\ at[p] = "closed"
    /\ p \in Nonblocking \/ Access[p] = "rw"
    /\ Move(p, "construct")
    /\ UNCHANGED <<ring, call, ends, pending, arrived>>

\* O_NONBLOCK skips await_peer, and await_peer returns at once for O_RDWR.
OpenAtOnce(p) ==
    /\ at[p] = "closed" /\ named
    /\ p \in Nonblocking \/ Access[p] = "rw"
    /\ Move(p, "construct")
    /\ UNCHANGED <<ring, call, ends, pending, arrived>>

Announce(p) ==
    /\ at[p] = "closed" /\ named
    /\ Access[p] # "rw"
    /\ pending' = [pending EXCEPT ![Access[p]] = @ + 1]
    /\ arrived' = [q \in Procs |-> arrived[q]
                        \/ (at[q] \in {"await", "owait", "oasleep"} /\ Peer(q) = Access[p])]
    /\ MoveWaking(p, "announced", {"oasleep"}, WakeOpeners)
    /\ UNCHANGED <<ring, call, ends>>

Snapshot(p) ==
    /\ at[p] = "announced"
    /\ arrived' = [arrived EXCEPT ![p] = FALSE]
    /\ Move(p, "await")
    /\ UNCHANGED <<ring, call, ends, pending>>

PeerPresent(p) == ends[Peer(p)] + pending[Peer(p)] > 0 \/ arrived[p]

\* The end of await_peer, of a call that goes on and of one that fails.
StopPending(p, to) ==
    /\ pending' = [pending EXCEPT ![Access[p]] = @ - 1]
    /\ arrived' = [arrived EXCEPT ![p] = FALSE]
    /\ Move(p, to)
    /\ UNCHANGED <<ring, call, ends>>

\* Mutant: an interrupted open stays counted as pending
AwaitPeerLeaks(p) ==
    /\ at[p] = "await"
    /\ \/ PeerPresent(p) /\ StopPending(p, "construct")
       \/ /\ ~PeerPresent(p)
          /\ at' = [at EXCEPT ![p] = "closed"]
          /\ UNCHANGED <<ring, call, ends, pending, arrived>>

AwaitPeer(p) ==
    /\ at[p] = "await"
    /\ \/ PeerPresent(p) /\ StopPending(p, "construct")
       \/ ~PeerPresent(p) /\ StopPending(p, "closed")     \* EINTR
       \/ /\ ~PeerPresent(p)
          /\ Move(p, "owait")
          /\ UNCHANGED <<ring, call, ends, pending, arrived>>

\* The description is made, or there is no memory for it.
Construct(p) ==
    /\ at[p] = "construct"
    /\ ends' = [s \in Sides |-> IF s \in Ends(p) THEN ends[s] + 1 ELSE ends[s]]
    /\ MoveWaking(p, "open", {"oasleep"}, WakeOpeners)
    /\ UNCHANGED <<ring, call, pending, arrived>>

ConstructFails(p) ==
    /\ at[p] = "construct"
    /\ Move(p, "closed")
    /\ UNCHANGED <<ring, call, ends, pending, arrived>>

Close(p) ==
    /\ at[p] = "open"
    /\ ends' = [s \in Sides |-> IF s \in Ends(p) /\ ends[s] > 0 THEN ends[s] - 1 ELSE ends[s]]
    /\ MoveWaking(p, "closed", {"rasleep", "wasleep"}, WakeBoth)
    /\ UNCHANGED <<ring, call, pending, arrived>>

-----------------------------------------------------------------------------
(* read(2) and write(2) *)

Begin(p, end, n) ==
    /\ at[p] = "open" /\ end \in Ends(p)
    /\ p \in IF end = "r" THEN Readers ELSE Writers
    /\ length' = [length EXCEPT ![p] = n]
    /\ Move(p, IF end = "r" THEN "rtest" ELSE "wtest")
    /\ UNCHANGED <<ring, done, index, ends, pending, arrived>>

Return(p) ==
    /\ length' = [length EXCEPT ![p] = 0] /\ done' = [done EXCEPT ![p] = 0]
    /\ Move(p, "open")
    /\ UNCHANGED <<ring, index, ends, pending, arrived>>

Goto(p, to) ==
    /\ Move(p, to)
    /\ UNCHANGED <<ring, call, ends, pending, arrived>>

\* One more byte is copied; returns says that it is the last of this call.
Transferred(p, returns) ==
    /\ done' = [done EXCEPT ![p] = IF returns THEN 0 ELSE @ + 1]
    /\ length' = [length EXCEPT ![p] = IF returns THEN 0 ELSE @]
    /\ index' = [index EXCEPT ![p] = 0]

EndOfFile(p) == at[p] = "rtest" /\ head = tail /\ ends["w"] = 0

ReadTest(p) ==
    /\ at[p] = "rtest"
    /\ \/ Used(head, tail) > 0 /\ Goto(p, "rload")
       \/ EndOfFile(p) /\ Return(p)
       \/ Used(head, tail) = 0 /\ ~EndOfFile(p) /\ (Goto(p, "rwait") \/ Return(p))  \* or EINTR

ReadByte(p) ==
    /\ at[p] = "rload"
    /\ last' = <<buffer[tail]>>
    /\ index' = [index EXCEPT ![p] = tail]
    /\ Move(p, "radvance")
    /\ UNCHANGED <<buffer, head, tail, length, done, ends, pending, arrived>>

\* m_tail is read again, or is still in a register.
ReadAdvance(p) ==
    /\ at[p] = "radvance"
    /\ \E t \in {tail, index[p]} :
        /\ tail' = After(t)
        /\ IF done[p] + 1 < length[p] /\ Used(head, After(t)) > 0
           THEN Transferred(p, FALSE) /\ Move(p, "rload")
           ELSE Transferred(p, TRUE) /\ MoveWaking(p, "open", {"wasleep"}, WakeWriters)
    /\ UNCHANGED <<buffer, head, last, ends, pending, arrived>>

BrokenPipe(p) == at[p] = "wtest" /\ ends["r"] + pending["r"] = 0

WriteTest(p) ==
    /\ at[p] = "wtest"
    /\ \/ BrokenPipe(p) /\ Return(p)                      \* SIGPIPE and EPIPE
       \/ ~BrokenPipe(p) /\ Available(head, tail) > 0 /\ Goto(p, "wstore")
       \/ ~BrokenPipe(p) /\ Available(head, tail) = 0
            /\ (Goto(p, "wwait") \/ Return(p))            \* or a short write, or EINTR

WriteByte(p, b) ==
    /\ at[p] = "wstore"
    /\ buffer' = [buffer EXCEPT ![head] = b]
    /\ index' = [index EXCEPT ![p] = head]
    /\ Move(p, "wadvance")
    /\ UNCHANGED <<head, tail, last, length, done, ends, pending, arrived>>

\* m_head is read again, or is still in a register.
WriteAdvance(p) ==
    /\ at[p] = "wadvance"
    /\ \E h \in {head, index[p]} :
        /\ head' = After(h)
        /\ LET all == done[p] + 1 = length[p] IN
            /\ Transferred(p, all)
            /\ IF ~all /\ Available(After(h), tail) > 0 THEN Move(p, "wstore")
               ELSE MoveWaking(p, IF all THEN "open" ELSE "wtest", {"rasleep"}, WakeReaders)
    /\ UNCHANGED <<buffer, tail, last, ends, pending, arrived>>

\* WaitQueue::wait, entered by a process that has made its test.
Sleep(p) ==
    \/ at[p] = "owait" /\ Goto(p, "oasleep")
    \/ at[p] = "rwait" /\ Goto(p, "rasleep")
    \/ at[p] = "wwait" /\ Goto(p, "wasleep")

\* raise_signal unblocks a process asleep on any queue.
SignalWakes(p) ==
    \/ at[p] = "oasleep" /\ Goto(p, "await")
    \/ at[p] = "rasleep" /\ Goto(p, "rtest")
    \/ at[p] = "wasleep" /\ Goto(p, "wtest")

Step(p) ==
    \/ OpenAtOnce(p) \/ Announce(p) \/ Snapshot(p) \/ AwaitPeer(p)
    \/ Construct(p) \/ ConstructFails(p) \/ Close(p)
    \/ \E n \in 1..MaxLength, end \in Sides : Begin(p, end, n)
    \/ ReadTest(p) \/ ReadByte(p) \/ ReadAdvance(p)
    \/ WriteTest(p) \/ (\E b \in Bytes : WriteByte(p, b)) \/ WriteAdvance(p)
    \/ Sleep(p) \/ SignalWakes(p)

Next == (\E p \in Procs : Step(p)) /\ UNCHANGED named

Spec == Init /\ [][Next]_vars

-----------------------------------------------------------------------------
\* pipe.h: "a description is exactly one end".  Whatever opens fail, are
\* interrupted or race with closes, the counters that decide between end of
\* file, SIGPIPE and sleeping are the numbers of processes in each situation.
CountsExact ==
    \A s \in Sides :
        /\ ends[s] = Cardinality({p \in Procs : s \in Ends(p)
                                    /\ at[p] \notin Opening \cup {"closed", "construct"}})
        /\ pending[s] = Cardinality({p \in Procs : Access[p] = s /\ at[p] \in Opening})

\* The bytes between tail and head, in order; a byte that a reader has copied
\* out but not yet stepped over is received.
Queue ==
    LET held == IF \E p \in Procs : at[p] = "radvance" THEN 1 ELSE 0
    IN  [i \in 1..(Used(head, tail) - held) |-> buffer[(tail + held + i - 1) % Capacity]]

Fifo == INSTANCE BoundedFifo WITH queue <- Queue, Room <- Capacity - 1

\* With one reader and one writer, the unlocked ring buffer is a bounded queue:
\* bytes arrive in order, each once, none is overwritten, at every interleaving
\* of the copy loops of read and write.
IsBoundedFifo == Fifo!Spec

\* is_hung_up
HungUp == ends["w"] = 0 /\ Used(head, tail) = 0

\* "No writers and nothing buffered: end of file, for good": what poll reported
\* of an anonymous pipe as POLLHUP is never taken back, with one reader and one
\* writer.  (Of a FIFO it is, when the next writer opens it.)
HangupIsFinal == [][~named /\ HungUp => HungUp']_vars
=============================================================================
