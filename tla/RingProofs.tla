----------------------------- MODULE RingProofs ------------------------------
(***************************************************************************)
(* The ring buffer of a pipe with one reader and one writer: what its      *)
(* readers and writers rely on without a lock, that an anonymous pipe that *)
(* has hung up stays so, and that the ring implements BoundedFifo.         *)
(*                                                                         *)
(* The invariant of PipeProofs is strengthened by what each copy loop has  *)
(* found out about the ring: the other side can only make it truer.        *)
(***************************************************************************)
EXTENDS PipeProofs

\* The assumption of the theorems on the ring: at most one process reads, and
\* at most one writes.  Nothing in the code serialises two of either.
OneReader == \A p, q \in Readers : p = q
OneWriter == \A p, q \in Writers : p = q

Reading(p) == at[p] \in {"rtest", "rwait", "rasleep", "rload", "radvance"}
Writing(p) == at[p] \in {"wtest", "wwait", "wasleep", "wstore", "wadvance"}

\* Only the reader moves m_tail and only the writer m_head: what a copy loop
\* found out about the ring before it was preempted still holds when it goes
\* on, and the index in its register is the index in memory.
ReaderSound(p) ==
    /\ Reading(p) => p \in Readers
    /\ at[p] \in {"rload", "radvance"} => Used(head, tail) > 0
    /\ at[p] = "radvance" => index[p] = tail

WriterSound(p) ==
    /\ Writing(p) => p \in Writers /\ "w" \in Ends(p)
    /\ at[p] \in {"wstore", "wadvance"} => Available(head, tail) > 0
    /\ at[p] = "wadvance" => index[p] = head

\* The ends of an anonymous pipe were made with it; nobody opens one.
Anonymous(p) == ~named => at[p] \notin Opening \cup {"construct"}

RingInv == IInv /\ \A p \in Procs : ReaderSound(p) /\ WriterSound(p) /\ Anonymous(p)
\* The arithmetic of the ring, without the remainders.
LEMMA Wrapped ==
    ASSUME NEW a \in 0..(2 * Capacity - 1)
    PROVE  a % Capacity = IF a < Capacity THEN a ELSE a - Capacity
  BY PipeAssumption

\* The next slot.
LEMMA AfterIs == \A i \in 0..(Capacity - 1) : After(i) = IF i = Capacity - 1 THEN 0 ELSE i + 1
  BY PipeAssumption, Wrapped DEF After

\* The number of bytes in the ring.
LEMMA UsedIs ==
    \A h, t \in 0..(Capacity - 1) : Used(h, t) = IF t <= h THEN h - t ELSE h + Capacity - t
  BY PipeAssumption, Wrapped, SMTT(60) DEF Used

\* A byte more, a byte less, and the slot that is never filled.
LEMMA UsedMoves ==
    ASSUME NEW h \in 0..(Capacity - 1), NEW t \in 0..(Capacity - 1)
    PROVE  /\ Used(h, t) \in 0..(Capacity - 1) /\ Available(h, t) = Capacity - 1 - Used(h, t)
           /\ Used(h, t) = 0 <=> h = t
           /\ Available(h, t) > 0 => Used(After(h), t) = Used(h, t) + 1
           /\ Used(h, t) > 0 => Used(h, After(t)) = Used(h, t) - 1
<1>1. After(h) \in 0..(Capacity - 1) /\ After(t) \in 0..(Capacity - 1)
  BY AfterWithin
<1>2. /\ After(h) = IF h = Capacity - 1 THEN 0 ELSE h + 1
      /\ After(t) = IF t = Capacity - 1 THEN 0 ELSE t + 1
  BY AfterIs
<1>3. /\ Used(h, t) = IF t <= h THEN h - t ELSE h + Capacity - t
      /\ Used(After(h), t) = IF t <= After(h) THEN After(h) - t ELSE After(h) + Capacity - t
      /\ Used(h, After(t)) = IF After(t) <= h THEN h - After(t) ELSE h + Capacity - After(t)
  BY <1>1, UsedIs
<1>4. Available(h, t) = Capacity - 1 - Used(h, t)
  BY DEF Available
<1> QED BY <1>1, <1>2, <1>3, <1>4, PipeAssumption

-----------------------------------------------------------------------------
\* Initially nobody is inside a call, and a pair has nobody in open.
LEMMA RingInit == Init => RingInv
<1>1. Init => \A p \in Procs : ReaderSound(p) /\ WriterSound(p) /\ Anonymous(p)
  BY DEF Init, ReaderSound, WriterSound, Anonymous, Reading, Writing, Opening
<1> QED BY <1>1, InitInv DEF RingInv

\* A process that stays where it is, or is woken to make its test again, while
\* nobody moves an index of the ring.
LEMMA RingRests ==
    ASSUME RingInv, NEW q \in Procs, UNCHANGED <<head, tail, named>>, index'[q] = index[q],
           \/ at'[q] = at[q]
           \/ at[q] = "oasleep" /\ at'[q] = "await"
           \/ at[q] = "rasleep" /\ at'[q] = "rtest"
           \/ at[q] = "wasleep" /\ at'[q] = "wtest"
    PROVE  ReaderSound(q)' /\ WriterSound(q)' /\ Anonymous(q)'
  BY DEF RingInv, ReaderSound, WriterSound, Anonymous, Reading, Writing, Opening

\* One process moves and nobody moves an index of the ring.
LEMMA RingGoes ==
    ASSUME RingInv, IInv', NEW p \in Procs, NEW to, Move(p, to), UNCHANGED <<head, tail, named>>,
           index' = index, ReaderSound(p)', WriterSound(p)', Anonymous(p)'
    PROVE  RingInv'
<1>1. \A q \in Procs \ {p} : at'[q] = at[q]
  BY Zenon DEF Move, RingInv, IInv, TypeOK
<1> QED BY <1>1, RingRests DEF RingInv

\* The steps outside the copy loops.
LEMMA OpenRing ==
    ASSUME RingInv, IInv', NEW p \in Procs, UNCHANGED named,
           \/ OpenAtOnce(p) \/ Announce(p) \/ Snapshot(p) \/ AwaitPeer(p)
           \/ Construct(p) \/ ConstructFails(p) \/ Close(p)
    PROVE  RingInv'
<1>1. UNCHANGED <<head, tail, index>>
  BY Zenon DEF OpenAtOnce, Announce, Snapshot, AwaitPeer, StopPending, Construct, ConstructFails, Close,
         ring, call
<1>2. at \in [Procs -> Positions]
  BY Zenon DEF RingInv, IInv, TypeOK
<1>3. \A q \in Procs \ {p} : \/ at'[q] = at[q]
                             \/ at[q] = "oasleep" /\ at'[q] = "await"
                             \/ at[q] = "rasleep" /\ at'[q] = "rtest"
                             \/ at[q] = "wasleep" /\ at'[q] = "wtest"
  BY <1>2, Zenon DEF OpenAtOnce, Announce, Snapshot, AwaitPeer, StopPending, Construct, ConstructFails,
         Close, Move, MoveWaking, WakeOpeners, WakeBoth
<1>4. /\ named \/ at[p] = "open"
      /\ at'[p] \in Opening \cup {"closed", "construct", "open"}
      /\ at[p] = "open" => at'[p] = "closed"
  BY <1>2, Zenon DEF OpenAtOnce, Announce, Snapshot, AwaitPeer, StopPending, Construct, ConstructFails,
         Close, Move, MoveWaking, RingInv, Anonymous, Opening
<1>5. ReaderSound(p)' /\ WriterSound(p)' /\ Anonymous(p)'
  BY <1>4, Zenon DEF ReaderSound, WriterSound, Anonymous, Reading, Writing, Opening
<1> QED BY <1>1, <1>3, <1>5, RingRests, Zenon DEF RingInv

\* The tests and sleeps of read and write: a copy loop is entered with a byte
\* to read, or a slot to fill.
LEMMA CallRing ==
    ASSUME RingInv, IInv', NEW p \in Procs, UNCHANGED named,
           \/ \E n \in 1..MaxLength, end \in Sides : Begin(p, end, n)
           \/ ReadTest(p) \/ WriteTest(p) \/ Sleep(p) \/ SignalWakes(p)
    PROVE  RingInv'
<1>1. UNCHANGED <<head, tail, index>> /\ \E to \in Positions : Move(p, to)
  BY Zenon DEF Begin, ReadTest, WriteTest, Sleep, SignalWakes, Goto, Return, ring, call, Positions, Opening
<1>2. at \in [Procs -> Positions]
  BY Zenon DEF RingInv, IInv, TypeOK
<1>3. ReaderSound(p)' /\ WriterSound(p)' /\ Anonymous(p)'
  <2>1. CASE \E n \in 1..MaxLength, end \in Sides : Begin(p, end, n)
    BY <1>2, <2>1, ZenonT(60) DEF Begin, Move, Sides, ReaderSound, WriterSound, Anonymous, Reading, Writing, Opening
  <2>2. CASE ReadTest(p)
    BY <1>1, <1>2, <2>2, ZenonT(60) DEF ReadTest, Goto, Return, Move, RingInv, ReaderSound, WriterSound, Anonymous,
       Reading, Writing, Opening
  <2>3. CASE WriteTest(p)
    BY <1>1, <1>2, <2>3, ZenonT(60) DEF WriteTest, Goto, Return, Move, RingInv, ReaderSound, WriterSound, Anonymous,
       Reading, Writing, Opening
  <2>4. CASE Sleep(p)
    BY <1>1, <1>2, <2>4, ZenonT(60) DEF Sleep, Goto, Move, RingInv, ReaderSound, WriterSound, Anonymous,
       Reading, Writing, Opening
  <2>5. CASE SignalWakes(p)
    BY <1>1, <1>2, <2>5, ZenonT(60) DEF SignalWakes, Goto, Move, RingInv, ReaderSound, WriterSound, Anonymous,
       Reading, Writing, Opening
  <2> QED BY <2>1, <2>2, <2>3, <2>4, <2>5
<1> QED BY <1>1, <1>3, RingGoes

\* A byte is copied: the index it was copied at is the one in memory.
LEMMA ByteRing ==
    ASSUME RingInv, IInv', NEW p \in Procs, UNCHANGED named,
           ReadByte(p) \/ \E b \in Bytes : WriteByte(p, b)
    PROVE  RingInv'
<1>1. at \in [Procs -> Positions] /\ index \in [Procs -> 0..(Capacity - 1)]
  BY Zenon DEF RingInv, IInv, TypeOK
<1>2. UNCHANGED <<head, tail>> /\ \A q \in Procs \ {p} : at'[q] = at[q] /\ index'[q] = index[q]
  BY <1>1, Zenon DEF ReadByte, WriteByte, Move
<1>3. ReaderSound(p)' /\ WriterSound(p)' /\ Anonymous(p)'
  <2>1. CASE ReadByte(p)
    BY <1>1, <1>2, <2>1, Zenon DEF ReadByte, Move, RingInv, ReaderSound, WriterSound, Anonymous, Reading,
       Writing, Opening
  <2>2. CASE \E b \in Bytes : WriteByte(p, b)
    BY <1>1, <1>2, <2>2, Zenon DEF WriteByte, Move, RingInv, ReaderSound, WriterSound, Anonymous, Reading,
       Writing, Opening
  <2> QED BY <2>1, <2>2
<1> QED BY <1>2, <1>3, RingRests, Zenon DEF RingInv

\* The reader steps over the byte it has copied: what it does to the ring, and
\* where it leaves everybody.
LEMMA ReadAdvances ==
    ASSUME RingInv, NEW p \in Procs, ReadAdvance(p)
    PROVE  /\ at[p] = "radvance" /\ UNCHANGED <<buffer, head, last, ends>>
           /\ tail' = After(tail) /\ Used(head, tail') = Used(head, tail) - 1
           /\ at'[p] = "open" \/ (at'[p] = "rload" /\ Used(head, tail') > 0)
           /\ \A q \in Procs \ {p} : /\ index'[q] = index[q]
                                     /\ at'[q] = at[q] \/ (at[q] = "wasleep" /\ at'[q] = "wtest")
<1>1. /\ at \in [Procs -> Positions] /\ index \in [Procs -> 0..(Capacity - 1)]
      /\ head \in 0..(Capacity - 1) /\ tail \in 0..(Capacity - 1)
  BY Zenon DEF RingInv, IInv, TypeOK
<1>2. at[p] = "radvance" /\ UNCHANGED <<buffer, head, last, ends>> /\ index[p] = tail
      /\ Used(head, tail) > 0
  BY Zenon DEF ReadAdvance, RingInv, ReaderSound
<1>3. /\ tail' = After(tail)
      /\ index' = [index EXCEPT ![p] = 0]
      /\ \/ Move(p, "rload") /\ Used(head, After(tail)) > 0
         \/ MoveWaking(p, "open", {"wasleep"}, WakeWriters)
  BY <1>2, Zenon DEF ReadAdvance, Transferred
<1>4. Used(head, tail') = Used(head, tail) - 1
  BY <1>1, <1>2, <1>3, UsedMoves, Zenon
<1>5. at'[p] = "open" \/ (at'[p] = "rload" /\ Used(head, tail') > 0)
  BY <1>1, <1>3, Zenon DEF Move, MoveWaking
<1>6. \A q \in Procs \ {p} : /\ index'[q] = index[q]
                             /\ at'[q] = at[q] \/ (at[q] = "wasleep" /\ at'[q] = "wtest")
  BY <1>1, <1>3 DEF Move, MoveWaking, WakeWriters
<1> QED BY <1>2, <1>3, <1>4, <1>5, <1>6, Zenon

\* It is the only reader, and the writer finds more room than it had found.
LEMMA ReadAdvanceRing ==
    ASSUME OneReader, RingInv, IInv', NEW p \in Procs, UNCHANGED named, ReadAdvance(p)
    PROVE  RingInv'
<1> USE ReadAdvances
<1>1. /\ head \in 0..(Capacity - 1) /\ tail \in 0..(Capacity - 1) /\ tail' \in 0..(Capacity - 1)
  BY Zenon DEF RingInv, IInv, TypeOK
<1>2. Available(head, tail') = Available(head, tail) + 1 /\ Available(head, tail) \in Nat
  <2>1. /\ Available(head, tail) = Capacity - 1 - Used(head, tail)
        /\ Available(head, tail') = Capacity - 1 - Used(head, tail')
        /\ Used(head, tail) \in 0..(Capacity - 1)
    BY <1>1, UsedMoves, Zenon
  <2> QED BY <2>1, PipeAssumption, SMTT(60)
<1>3. ReaderSound(p)' /\ WriterSound(p)' /\ Anonymous(p)'
  BY Zenon DEF RingInv, ReaderSound, WriterSound, Anonymous, Reading, Writing, Opening
<1>4. ASSUME NEW q \in Procs \ {p} PROVE ReaderSound(q)' /\ WriterSound(q)' /\ Anonymous(q)'
  <2>1. ~Reading(q) /\ ~Reading(q)'
    BY <1>4, Zenon DEF OneReader, RingInv, ReaderSound, Reading
  <2>2. WriterSound(q) /\ Anonymous(q)
    BY <1>4, Zenon DEF RingInv
  <2>3. WriterSound(q)' /\ Anonymous(q)'
    BY <1>2, <1>4, <2>2, SMTT(60) DEF WriterSound, Anonymous, Writing, Opening
  <2> QED BY <2>1, <2>3, Zenon DEF ReaderSound, Reading
<1> QED BY <1>3, <1>4, Zenon DEF RingInv

\* The writer makes the byte it has stored readable.
LEMMA WriteAdvances ==
    ASSUME RingInv, NEW p \in Procs, WriteAdvance(p)
    PROVE  /\ at[p] = "wadvance" /\ UNCHANGED <<buffer, tail, last, ends>>
           /\ head' = After(head) /\ Used(head', tail) = Used(head, tail) + 1
           /\ Available(head, tail) > 0
           /\ at'[p] \in {"open", "wtest"} \/ (at'[p] = "wstore" /\ Available(head', tail) > 0)
           /\ \A q \in Procs \ {p} : /\ index'[q] = index[q]
                                     /\ at'[q] = at[q] \/ (at[q] = "rasleep" /\ at'[q] = "rtest")
<1>1. /\ at \in [Procs -> Positions] /\ index \in [Procs -> 0..(Capacity - 1)]
      /\ head \in 0..(Capacity - 1) /\ tail \in 0..(Capacity - 1)
  BY Zenon DEF RingInv, IInv, TypeOK
<1>2. at[p] = "wadvance" /\ UNCHANGED <<buffer, tail, last, ends>> /\ index[p] = head
      /\ Available(head, tail) > 0
  BY Zenon DEF WriteAdvance, RingInv, WriterSound
<1>3. /\ head' = After(head)
      /\ index' = [index EXCEPT ![p] = 0]
      /\ \/ Move(p, "wstore") /\ Available(After(head), tail) > 0
         \/ \E to \in {"open", "wtest"} : MoveWaking(p, to, {"rasleep"}, WakeReaders)
  BY <1>2, Zenon DEF WriteAdvance, Transferred
<1>4. Used(head', tail) = Used(head, tail) + 1
  BY <1>1, <1>2, <1>3, UsedMoves, ZenonT(60)
<1>5. at'[p] \in {"open", "wtest"} \/ (at'[p] = "wstore" /\ Available(head', tail) > 0)
  BY <1>1, <1>3, Zenon DEF Move, MoveWaking
<1>6. \A q \in Procs \ {p} : /\ index'[q] = index[q]
                             /\ at'[q] = at[q] \/ (at[q] = "rasleep" /\ at'[q] = "rtest")
  BY <1>1, <1>3, Zenon DEF Move, MoveWaking, WakeReaders
<1> QED BY <1>2, <1>3, <1>4, <1>5, <1>6, Zenon

\* It is the only writer, and the reader finds more bytes than it had found.
LEMMA WriteAdvanceRing ==
    ASSUME OneWriter, RingInv, IInv', NEW p \in Procs, UNCHANGED named, WriteAdvance(p)
    PROVE  RingInv'
<1> USE WriteAdvances
<1>1. Used(head, tail) \in Nat
  <2>1. head \in 0..(Capacity - 1) /\ tail \in 0..(Capacity - 1)
    BY Zenon DEF RingInv, IInv, TypeOK
  <2>2. Used(head, tail) \in 0..(Capacity - 1)
    BY <2>1, UsedMoves, Zenon
  <2> QED BY <2>2, SMTT(60)
<1>2. ReaderSound(p)' /\ WriterSound(p)' /\ Anonymous(p)'
  BY Zenon DEF RingInv, ReaderSound, WriterSound, Anonymous, Reading, Writing, Opening
<1>3. ASSUME NEW q \in Procs \ {p} PROVE ReaderSound(q)' /\ WriterSound(q)' /\ Anonymous(q)'
  <2>1. ~Writing(q) /\ ~Writing(q)'
    BY <1>3, ZenonT(60) DEF OneWriter, RingInv, WriterSound, Writing
  <2>2. ReaderSound(q) /\ Anonymous(q)
    BY <1>3, Zenon DEF RingInv
  <2>3. ReaderSound(q)' /\ Anonymous(q)'
    BY <1>1, <1>3, <2>2, SMTT(60) DEF ReaderSound, Anonymous, Reading, Opening
  <2> QED BY <2>1, <2>3, Zenon DEF WriterSound, Writing
<1> QED BY <1>2, <1>3, Zenon DEF RingInv

\* No step breaks the ring while one process reads and one writes.
LEMMA RingStep == ASSUME OneReader, OneWriter PROVE RingInv /\ [Next]_vars => RingInv'
<1> SUFFICES ASSUME RingInv, [Next]_vars PROVE RingInv'
  OBVIOUS
<1>1. IInv'
  BY StepInv DEF RingInv
<1>2. CASE UNCHANGED vars
  BY <1>1, <1>2, RingRests, Zenon DEF vars, RingInv
<1>3. ASSUME NEW p \in Procs, Step(p), UNCHANGED named PROVE RingInv'
  BY <1>1, <1>3, OpenRing, CallRing, ByteRing, ReadAdvanceRing, WriteAdvanceRing, Zenon DEF Step
<1> QED BY <1>2, <1>3 DEF Next

-----------------------------------------------------------------------------
\* Without a write end nobody writes, and an anonymous pipe gets no new one.
LEMMA NoWriterLeft ==
    ASSUME RingInv, ~named, ends["w"] = 0, NEW p \in Procs
    PROVE  ~Writing(p) /\ at[p] # "construct"
<1>1. Holding("w") \in SUBSET Procs /\ Cardinality(Holding("w")) = 0
  BY CountsAreSizes, Zenon DEF RingInv, IInv, Sides, Holding
<1>2. p \notin Holding("w")
  <2> DEFINE H == Holding("w")
  <2>1. H \in SUBSET Procs /\ Cardinality(H) = 0
    BY <1>1
  <2> HIDE DEF H
  <2>2. p \in H => Cardinality(H) > 0
    BY <2>1, Sizes, Zenon
  <2>3. p \notin H
    BY <2>1, <2>2
  <2> QED BY <2>3 DEF H
<1> QED BY <1>2, Zenon DEF Holding, RingInv, WriterSound, Anonymous, Writing, Opening

\* Nothing is left that could put a byte in or step over one.
LEMMA HungUpStep ==
    ASSUME RingInv, Next, ~named, HungUp PROVE HungUp'
<1> USE DEF HungUp
<1>1. PICK p \in Procs : Step(p) /\ UNCHANGED named
  BY DEF Next
<1>2. ~Writing(p) /\ at[p] # "construct" /\ at[p] # "radvance"
  BY NoWriterLeft, SMTT(60) DEF RingInv, ReaderSound
<1>3. UNCHANGED <<head, tail>>
  BY <1>1, <1>2, ZenonT(60) DEF Step, OpenAtOnce, Announce, Snapshot, AwaitPeer, StopPending, Construct,
     ConstructFails, Close, Begin, ReadTest, ReadByte, ReadAdvance, WriteTest, WriteByte, WriteAdvance,
     Sleep, SignalWakes, Goto, Return, ring, Writing
<1>4. ends'["w"] = 0
  <2>1. CASE Close(p)
    BY <2>1 DEF Close, Sides
  <2>2. CASE ~Close(p)
    BY <1>1, <1>2, <2>2, Zenon DEF Step, OpenAtOnce, Announce, Snapshot, AwaitPeer, StopPending, Construct,
       ConstructFails, Begin, ReadTest, ReadByte, ReadAdvance, WriteTest, WriteByte, WriteAdvance,
       Sleep, SignalWakes, Goto, Return
  <2> QED BY <2>1, <2>2
<1> QED BY <1>3, <1>4, Zenon

(* With one reader and one writer, POLLHUP of an anonymous pipe is final    *)
(* for every capacity and any number of processes that hold an end: once   *)
(* is_hung_up is true, no step makes it false.                             *)
THEOREM HangupStays == ASSUME OneReader, OneWriter PROVE Spec => HangupIsFinal
<1>1. RingInv /\ [Next]_vars => RingInv'
  BY RingStep
<1>2. RingInv /\ [Next]_vars => [~named /\ HungUp => HungUp']_vars
  BY HungUpStep, Zenon DEF HungUp, vars
<1> QED BY RingInit, <1>1, <1>2, PTL DEF Spec, HangupIsFinal

-----------------------------------------------------------------------------
(* The ring buffer implements the bounded queue                             *)

\* A byte has been copied out that m_tail has not stepped over yet; the slot i
\* places after t; and the number of bytes of the queue.
Held == IF \E p \in Procs : at[p] = "radvance" THEN 1 ELSE 0
Slot(t, i) == (t + i) % Capacity
Filled == Used(head, tail) - Held

\* The refinement mapping, in those terms.
LEMMA QueueIs == Queue = [i \in 1..Filled |-> buffer[(tail + Held + i - 1) % Capacity]]
  BY DEF Queue, Held, Filled

\* What Queue is, position by position.
QueueShape ==
    /\ Held \in {0, 1} /\ Filled \in 0..(Capacity - 1) /\ Filled = Used(head, tail) - Held
    /\ Queue \in Seq(Bytes) /\ Len(Queue) = Filled
    /\ \A i \in 1..Filled : Queue[i] = buffer[Slot(tail, Held + i - 1)]

LEMMA QueueParts == RingInv => QueueShape
<1> SUFFICES ASSUME RingInv PROVE QueueShape
  OBVIOUS
<1>1. /\ head \in 0..(Capacity - 1) /\ tail \in 0..(Capacity - 1)
      /\ buffer \in [0..(Capacity - 1) -> Bytes]
  BY Zenon DEF RingInv, IInv, TypeOK
<1>2. Used(head, tail) \in 0..(Capacity - 1)
  BY <1>1, UsedMoves, Zenon
<1>3. Held \in {0, 1} /\ (Held = 1 => Used(head, tail) > 0)
  BY SMTT(60) DEF Held, RingInv, ReaderSound
<1>4. Filled \in 0..(Capacity - 1) /\ Filled = Used(head, tail) - Held
  BY <1>2, <1>3, PipeAssumption DEF Filled
<1>5. \A i \in 1..Filled : /\ (tail + Held + i - 1) % Capacity = Slot(tail, Held + i - 1)
                           /\ Slot(tail, Held + i - 1) \in 0..(Capacity - 1)
  BY <1>1, <1>3, <1>4, PipeAssumption, SMTT(60) DEF Slot
<1>6. Queue \in [1..Filled -> Bytes] /\ \A i \in 1..Filled : Queue[i] = buffer[Slot(tail, Held + i - 1)]
  BY <1>1, <1>5, QueueIs, Zenon
<1>7. Queue \in Seq(Bytes) /\ Len(Queue) = Filled
  BY <1>4, <1>6, SMT
<1> QED BY <1>3, <1>4, <1>6, <1>7, Zenon DEF QueueShape

\* Queues are compared byte by byte.
LEMMA SameSequence ==
    ASSUME NEW S, NEW u \in Seq(S), NEW v \in Seq(S),
           Len(u) = Len(v), \A i \in 1..Len(u) : u[i] = v[i]
    PROVE  u = v
  OBVIOUS

\* Receiving takes the first byte off.
LEMMA TailIs ==
    ASSUME NEW S, NEW u \in Seq(S), Len(u) > 0
    PROVE  /\ u # <<>> /\ Head(u) = u[1]
           /\ Tail(u) \in Seq(S) /\ Len(Tail(u)) = Len(u) - 1
           /\ \A i \in 1..(Len(u) - 1) : Tail(u)[i] = u[i + 1]
  OBVIOUS

\* Sending puts one at the end.
LEMMA AppendIs ==
    ASSUME NEW S, NEW u \in Seq(S), NEW e \in S
    PROVE  /\ Append(u, e) \in Seq(S) /\ Len(Append(u, e)) = Len(u) + 1
           /\ \A i \in 1..Len(u) : Append(u, e)[i] = u[i]
           /\ Append(u, e)[Len(u) + 1] = e
  OBVIOUS

\* The slots from m_tail on: the first free one is m_head, no filled one is,
\* and one step of m_tail moves them all by one.
LEMMA Slots ==
    ASSUME NEW h \in 0..(Capacity - 1), NEW t \in 0..(Capacity - 1)
    PROVE  /\ Slot(t, 0) = t /\ Slot(t, Used(h, t)) = h
           /\ \A k \in 0..(Capacity - 1) : Slot(t, k) \in 0..(Capacity - 1)
           /\ \A k \in 0..(Capacity - 1) : k < Used(h, t) => Slot(t, k) # h
           /\ \A k \in 0..(Capacity - 2) : Slot(After(t), k) = Slot(t, k + 1)
<1>1. \A s, k \in 0..(Capacity - 1) : Slot(s, k) = IF s + k < Capacity THEN s + k ELSE s + k - Capacity
  <2> TAKE s, k \in 0..(Capacity - 1)
  <2>1. PICK a \in 0..(2 * Capacity - 1) : a = s + k
    BY PipeAssumption
  <2>2. Slot(s, k) = a % Capacity
    BY <2>1 DEF Slot
  <2>3. a % Capacity = IF a < Capacity THEN a ELSE a - Capacity
    BY Wrapped, Zenon
  <2> QED BY <2>1, <2>2, <2>3, PipeAssumption
<1>2. Used(h, t) = IF t <= h THEN h - t ELSE h + Capacity - t
  BY UsedIs, Zenon
<1>3. After(t) = IF t = Capacity - 1 THEN 0 ELSE t + 1
  BY AfterIs
<1>4. Slot(t, 0) = t
  BY <1>1, PipeAssumption
<1>5. Slot(t, Used(h, t)) = h
  <2>1. Used(h, t) \in 0..(Capacity - 1)
    BY UsedMoves, Zenon
  <2> QED BY <1>1, <1>2, <2>1, PipeAssumption
<1>6. \A k \in 0..(Capacity - 1) : Slot(t, k) \in 0..(Capacity - 1)
  BY <1>1, PipeAssumption
<1>7. \A k \in 0..(Capacity - 1) : k < Used(h, t) => Slot(t, k) # h
  BY <1>1, <1>2, PipeAssumption
<1>8. \A k \in 0..(Capacity - 2) : Slot(After(t), k) = Slot(t, k + 1)
  <2> TAKE k \in 0..(Capacity - 2)
  <2>1. k \in 0..(Capacity - 1) /\ k + 1 \in 0..(Capacity - 1) /\ After(t) \in 0..(Capacity - 1)
    BY PipeAssumption, AfterWithin
  <2>2. /\ Slot(After(t), k) = IF After(t) + k < Capacity THEN After(t) + k ELSE After(t) + k - Capacity
        /\ Slot(t, k + 1) = IF t + (k + 1) < Capacity THEN t + (k + 1) ELSE t + (k + 1) - Capacity
    BY <1>1, <2>1, Zenon
  <2> QED BY <1>3, <2>1, <2>2, PipeAssumption, SMTT(60)
<1> QED BY <1>4, <1>5, <1>6, <1>7, <1>8, Zenon

\* A step that leaves the ring alone, and nobody between copying a byte and
\* stepping over it, leaves the queue alone.
LEMMA FifoRests ==
    ASSUME UNCHANGED <<buffer, head, tail, last>>, Held' = Held PROVE UNCHANGED <<Queue, last>>
<1>1. Filled' = Filled
  BY DEF Filled
<1>2. Queue' = [i \in 1..Filled' |-> buffer'[(tail' + Held' + i - 1) % Capacity]]
  BY Zenon DEF Queue, Held, Filled
<1> QED BY <1>1, <1>2, QueueIs, Zenon

\* The same after a step.
LEMMA NextQueue == RingInv' => QueueShape'
  BY QueueParts, PTL

\* The byte a reader copies out is the first of the queue.
LEMMA FifoReceives ==
    ASSUME OneReader, RingInv, RingInv', NEW p \in Procs, ReadByte(p) PROVE Fifo!Receive
<1>1. Held = 0 /\ Held' = 1
  <2>1. \A q \in Procs : at[q] # "radvance"
    BY Zenon DEF ReadByte, OneReader, RingInv, ReaderSound, Reading
  <2>2. at'[p] = "radvance"
    BY Zenon DEF ReadByte, Move, RingInv, IInv, TypeOK
  <2> QED BY <2>1, <2>2, Zenon DEF Held
<1>2. UNCHANGED <<buffer, head, tail>> /\ last' = <<buffer[tail]>>
  BY Zenon DEF ReadByte
<1>3. Used(head, tail) > 0 /\ tail \in 0..(Capacity - 1) /\ head \in 0..(Capacity - 1)
  BY Zenon DEF ReadByte, RingInv, ReaderSound, IInv, TypeOK
<1>4. /\ Queue \in Seq(Bytes) /\ Len(Queue) = Filled /\ Filled = Used(head, tail)
      /\ Filled \in 1..(Capacity - 1)
      /\ \A i \in 1..Filled : Queue[i] = buffer[Slot(tail, i - 1)]
  <2>1. /\ Queue \in Seq(Bytes) /\ Len(Queue) = Filled /\ Filled \in 0..(Capacity - 1)
        /\ Filled = Used(head, tail) - Held
        /\ \A i \in 1..Filled : Queue[i] = buffer[Slot(tail, Held + i - 1)]
    BY QueueParts, Zenon DEF QueueShape
  <2>2. Used(head, tail) \in 0..(Capacity - 1)
    BY <1>3, UsedMoves, Zenon
  <2>3. \A i \in 1..Filled : Held + i - 1 = i - 1
    BY <1>1, <2>1, SMTT(60)
  <2> QED BY <1>1, <1>3, <2>1, <2>2, <2>3, PipeAssumption, SMTT(60)
<1>5. /\ Queue' \in Seq(Bytes) /\ Len(Queue') = Filled - 1
      /\ \A i \in 1..(Filled - 1) : Queue'[i] = buffer[Slot(tail, i)]
  BY <1>1, <1>2, <1>4, NextQueue, SMTT(60) DEF QueueShape
<1>6. Queue # <<>> /\ Head(Queue) = buffer[tail]
  <2>1. Queue[1] = buffer[Slot(tail, 0)] /\ Slot(tail, 0) = tail
    BY <1>3, <1>4, Slots, SMTT(60)
  <2> QED BY <1>4, <2>1, TailIs, SMTT(60)
<1>7. Queue' = Tail(Queue)
  <2>1. /\ Tail(Queue) \in Seq(Bytes) /\ Len(Tail(Queue)) = Filled - 1
        /\ \A i \in 1..(Filled - 1) : Tail(Queue)[i] = Queue[i + 1]
    BY <1>4, TailIs, SMTT(60)
  <2>2. \A i \in 1..(Filled - 1) : Queue'[i] = Tail(Queue)[i]
    <3>1. \A i \in 1..(Filled - 1) : i + 1 \in 1..Filled /\ (i + 1) - 1 = i
      BY <1>4
    <3>2. \A i \in 1..(Filled - 1) : Queue[i + 1] = buffer[Slot(tail, i)]
      BY <1>4, <3>1, Zenon
    <3> QED BY <1>5, <2>1, <3>2, Zenon
  <2> QED BY <1>5, <2>1, <2>2, SameSequence, Zenon
<1> QED BY <1>2, <1>6, <1>7 DEF Fifo!Receive

\* Stepping over it changes nothing a user of the pipe can see.
LEMMA FifoSteps ==
    ASSUME OneReader, RingInv, RingInv', NEW p \in Procs, ReadAdvance(p) PROVE UNCHANGED <<Queue, last>>
<1>1. Held = 1 /\ Held' = 0
  <2>1. \A q \in Procs : at'[q] # "radvance"
    BY ReadAdvances, Zenon DEF OneReader, RingInv, ReaderSound, Reading
  <2> QED BY <2>1, ReadAdvances, Zenon DEF Held
<1>2. tail' = After(tail) /\ UNCHANGED <<buffer, head, last>> /\ Used(head, tail') = Used(head, tail) - 1
  BY ReadAdvances, Zenon
<1>3. /\ Queue \in Seq(Bytes) /\ Len(Queue) = Filled /\ Filled = Used(head, tail) - 1
      /\ Filled \in 0..(Capacity - 1)
      /\ \A i \in 1..Filled : Queue[i] = buffer[Slot(tail, i)]
  BY <1>1, QueueParts, SMTT(60) DEF QueueShape
<1>4. /\ Queue' \in Seq(Bytes) /\ Len(Queue') = Filled
      /\ \A i \in 1..Filled : Queue'[i] = buffer[Slot(After(tail), i - 1)]
  <2>1. Filled' = Filled
    BY <1>1, <1>2, <1>3, NextQueue, SMTT(60) DEF QueueShape
  <2>2. \A i \in 1..Filled : 0 + i - 1 = i - 1
    BY <1>3
  <2>3. /\ Queue' \in Seq(Bytes) /\ Len(Queue') = Filled
        /\ \A i \in 1..Filled : Queue'[i] = buffer[Slot(After(tail), 0 + i - 1)]
    BY <1>1, <1>2, <2>1, NextQueue, Zenon DEF QueueShape
  <2> QED BY <2>2, <2>3, Zenon
<1>5. Used(head, tail) \in 0..(Capacity - 1) /\ tail \in 0..(Capacity - 1) /\ head \in 0..(Capacity - 1)
  <2>1. tail \in 0..(Capacity - 1) /\ head \in 0..(Capacity - 1)
    BY Zenon DEF RingInv, IInv, TypeOK
  <2> QED BY <2>1, UsedMoves, Zenon
<1>6. \A i \in 1..Filled : Slot(After(tail), i - 1) = Slot(tail, i)
  <2> TAKE i \in 1..Filled
  <2>0. Filled \in 0..(Capacity - 2)
    BY <1>3, <1>5, PipeAssumption, SMTT(60)
  <2>1. i - 1 \in 0..(Capacity - 2) /\ (i - 1) + 1 = i
    BY <2>0, PipeAssumption
  <2> QED BY <1>5, <2>1, Slots, SMTT(60)
<1>7. Queue' = Queue
  BY <1>3, <1>4, <1>6, SameSequence, Zenon
<1> QED BY <1>2, <1>7

\* A byte stored in the free slot at m_head is not in the queue yet.
LEMMA FifoStores ==
    ASSUME RingInv, RingInv', NEW p \in Procs, NEW b \in Bytes, WriteByte(p, b)
    PROVE  UNCHANGED <<Queue, last>>
<1>1. /\ head \in 0..(Capacity - 1) /\ tail \in 0..(Capacity - 1)
      /\ buffer \in [0..(Capacity - 1) -> Bytes]
      /\ at \in [Procs -> Positions]
  BY Zenon DEF RingInv, IInv, TypeOK
<1>2. UNCHANGED <<head, tail, last>> /\ buffer' = [buffer EXCEPT ![head] = b]
  BY Zenon DEF WriteByte
<1>3. Held' = Held
  BY <1>1, Zenon DEF WriteByte, Move, Held
<1>4. /\ Held \in {0, 1} /\ Filled \in 0..(Capacity - 1) /\ Filled = Used(head, tail) - Held
      /\ Queue \in Seq(Bytes) /\ Len(Queue) = Filled
      /\ \A i \in 1..Filled : Queue[i] = buffer[Slot(tail, Held + i - 1)]
  BY QueueParts, Zenon DEF QueueShape
<1>5. Filled' = Filled
  BY <1>2, <1>3, Zenon DEF Filled
<1>6. /\ Queue' \in Seq(Bytes) /\ Len(Queue') = Filled
      /\ \A i \in 1..Filled : Queue'[i] = buffer'[Slot(tail, Held + i - 1)]
  BY <1>2, <1>3, <1>5, NextQueue, Zenon DEF QueueShape
<1>7. ASSUME NEW i \in 1..Filled PROVE Queue'[i] = Queue[i]
  <2>1. Held + i - 1 \in 0..(Capacity - 1) /\ Held + i - 1 < Used(head, tail)
    <3>1. Used(head, tail) \in 0..(Capacity - 1)
      BY <1>1, UsedMoves, Zenon
    <3> QED BY <1>4, <3>1, PipeAssumption, SMTT(60)
  <2>2. Slot(tail, Held + i - 1) \in 0..(Capacity - 1) /\ Slot(tail, Held + i - 1) # head
    BY <1>1, <2>1, Slots, ZenonT(60)
  <2> QED BY <1>1, <1>2, <1>4, <1>6, <2>2, Zenon
<1> QED BY <1>2, <1>4, <1>6, <1>7, SameSequence, Zenon

\* When m_head moves past it, it is the last of the queue.
LEMMA FifoSends ==
    ASSUME RingInv, RingInv', NEW p \in Procs, WriteAdvance(p)
    PROVE  \E b \in Bytes : Fifo!Send(b)
<1>1. /\ head \in 0..(Capacity - 1) /\ tail \in 0..(Capacity - 1)
      /\ buffer \in [0..(Capacity - 1) -> Bytes]
  BY Zenon DEF RingInv, IInv, TypeOK
<1>2. /\ UNCHANGED <<buffer, tail, last>> /\ Used(head', tail) = Used(head, tail) + 1
      /\ Available(head, tail) > 0
  BY WriteAdvances, Zenon
<1>3. Held' = Held
  BY WriteAdvances, ZenonT(60) DEF Held
<1>4. /\ Held \in {0, 1} /\ Filled \in 0..(Capacity - 1) /\ Filled = Used(head, tail) - Held
      /\ Queue \in Seq(Bytes) /\ Len(Queue) = Filled
      /\ \A i \in 1..Filled : Queue[i] = buffer[Slot(tail, Held + i - 1)]
  BY QueueParts, Zenon DEF QueueShape
<1>5. /\ Used(head, tail) \in 0..(Capacity - 1)
      /\ Available(head, tail) = Capacity - 1 - Used(head, tail)
  BY <1>1, UsedMoves, Zenon
<1>6. Filled' = Filled + 1 /\ Filled < Capacity - 1
  BY <1>2, <1>3, <1>4, <1>5, PipeAssumption, SMTT(60) DEF Filled
<1>7. /\ Queue' \in Seq(Bytes) /\ Len(Queue') = Filled + 1
      /\ \A i \in 1..(Filled + 1) : Queue'[i] = buffer[Slot(tail, Held + i - 1)]
  BY <1>2, <1>3, <1>6, NextQueue, Zenon DEF QueueShape
<1>8. Queue'[Filled + 1] = buffer[head]
  <2>1. Held + (Filled + 1) - 1 = Used(head, tail)
    BY <1>4, <1>5, SMTT(60)
  <2>2. Filled + 1 \in 1..(Filled + 1)
    BY <1>4, SMTT(60)
  <2>3. Slot(tail, Used(head, tail)) = head
    BY <1>1, Slots, Zenon
  <2>4. Queue'[Filled + 1] = buffer[Slot(tail, Held + (Filled + 1) - 1)]
    BY <1>7, <2>2, Zenon
  <2> QED BY <2>1, <2>3, <2>4, Zenon
<1>9. /\ Append(Queue, buffer[head]) \in Seq(Bytes) /\ Len(Append(Queue, buffer[head])) = Filled + 1
      /\ \A i \in 1..Filled : Append(Queue, buffer[head])[i] = Queue[i]
      /\ Append(Queue, buffer[head])[Filled + 1] = buffer[head]
  BY <1>1, <1>4, AppendIs, SMTT(60)
<1>10. \A i \in 1..(Filled + 1) : Queue'[i] = Append(Queue, buffer[head])[i]
  <2>1. \A i \in 1..(Filled + 1) : i \in 1..Filled \/ i = Filled + 1
    BY <1>4, SMTT(60)
  <2> QED BY <1>4, <1>7, <1>8, <1>9, <2>1, Zenon
<1>11. Queue' = Append(Queue, buffer[head])
  BY <1>7, <1>9, <1>10, SameSequence, Zenon
<1> QED BY <1>1, <1>2, <1>4, <1>6, <1>11, Zenon DEF Fifo!Send

\* Every step is a step of the bounded queue or leaves it alone.
LEMMA FifoStep ==
    ASSUME OneReader, RingInv, RingInv', Next PROVE [Fifo!Next]_<<Queue, last>>
<1>1. PICK p \in Procs : Step(p)
  BY Zenon DEF Next
<1>2. CASE ReadByte(p)
  BY <1>2, FifoReceives, Zenon DEF Fifo!Next
<1>3. CASE ReadAdvance(p)
  BY <1>3, FifoSteps, Zenon
<1>4. CASE \E b \in Bytes : WriteByte(p, b)
  BY <1>4, FifoStores, Zenon
<1>5. CASE WriteAdvance(p)
  BY <1>5, FifoSends, Zenon DEF Fifo!Next
<1>6. CASE ~ReadByte(p) /\ ~ReadAdvance(p) /\ ~(\E b \in Bytes : WriteByte(p, b)) /\ ~WriteAdvance(p)
  <2>1. at \in [Procs -> Positions]
    BY Zenon DEF RingInv, IInv, TypeOK
  <2>2. UNCHANGED <<buffer, head, tail, last>>
    BY <1>1, <1>6, ZenonT(60) DEF Step, OpenAtOnce, Announce, Snapshot, AwaitPeer, StopPending, Construct,
       ConstructFails, Close, Begin, ReadTest, WriteTest, Sleep, SignalWakes, Goto, Return, ring
  <2>3. \A q \in Procs : at'[q] = "radvance" <=> at[q] = "radvance"
    BY <1>1, <1>6, <2>1, ZenonT(60) DEF Step, OpenAtOnce, Announce, Snapshot, AwaitPeer, StopPending, Construct,
       ConstructFails, Close, Begin, ReadTest, WriteTest, Sleep, SignalWakes, Goto, Return, Move,
       MoveWaking, WakeOpeners, WakeBoth
  <2> QED BY <2>2, <2>3, FifoRests, Zenon DEF Held
<1> QED BY <1>2, <1>3, <1>4, <1>5, <1>6, Zenon

(* With one reader and one writer the unlocked ring of kernel/fs/pipe.cpp  *)
(* is a bounded queue, for every capacity, every length of read and write  *)
(* and every interleaving of the copy loops: bytes come out in the order   *)
(* they went in, each once, and none is overwritten.                       *)
THEOREM PipeIsFifo == ASSUME OneReader, OneWriter PROVE Spec => IsBoundedFifo
<1>1. RingInv /\ [Next]_vars => RingInv'
  BY RingStep
<1>2. Init => Fifo!Init
  <2> SUFFICES ASSUME Init PROVE Fifo!Init
    BY Zenon
  <2>1. Queue \in Seq(Bytes) /\ Len(Queue) = 0
    <3>1. Held = 0
      BY Zenon DEF Held, Init
    <3>2. Used(head, tail) = 0
      BY UsedMoves, PipeAssumption, SMTT(60) DEF Init
    <3> QED BY <3>1, <3>2, RingInit, QueueParts, SMTT(60) DEF QueueShape
  <2>2. Queue = <<>>
    BY <2>1
  <2> QED BY <2>2, Zenon DEF Init, Fifo!Init
<1>3. RingInv /\ RingInv' /\ [Next]_vars => [Fifo!Next]_<<Queue, last>>
  <2>1. ASSUME UNCHANGED vars PROVE UNCHANGED <<Queue, last>>
    BY <2>1, FifoRests, Zenon DEF vars, Held
  <2> QED BY <2>1, FifoStep, Zenon
<1> QED BY RingInit, <1>1, <1>2, <1>3, PTL DEF Spec, IsBoundedFifo, Fifo!Spec, Fifo!vars
==============================================================================
