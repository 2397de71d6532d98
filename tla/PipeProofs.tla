----------------------------- MODULE PipeProofs ------------------------------
(***************************************************************************)
(* The reader and writer counts of a pipe or FIFO, for every set of        *)
(* processes, every mix of access modes and every capacity.                *)
(*                                                                         *)
(* The counts alone are not inductive: an open that waits must be counted  *)
(* at the one side it asked for (so a read-write open never waits), and    *)
(* the lengths bound the copy loops, so what a call has done so far must   *)
(* be less than what it was asked for.                                     *)
(***************************************************************************)
EXTENDS Pipe, FiniteSetTheorems, TLAPS

\* Who holds an end, and who waits for the other one.
Holding(s) == {p \in Procs : s \in Ends(p) /\ at[p] \notin Opening \cup {"closed", "construct"}}
Waiting(s) == {p \in Procs : Access[p] = s /\ at[p] \in Opening}

\* Inside read or write.
InCall(p) == at[p] \notin Opening \cup {"closed", "construct", "open"}

IInv ==
    /\ TypeOK
    /\ CountsExact
    /\ \A p \in Procs : at[p] \in Opening => Access[p] \in Sides
    /\ \A p \in Procs : IF InCall(p) THEN done[p] < length[p] ELSE done[p] = 0

-----------------------------------------------------------------------------
\* A process opens for reading, for writing or for both.
LEMMA AccessType == Access \in [Procs -> {"r", "w", "rw"}]
BY DEF Access

\* The counted sets are finite, and a process that joins or leaves one
\* changes its size by one.
LEMMA Sizes ==
    ASSUME NEW S \in SUBSET Procs, NEW p \in Procs
    PROVE  /\ Cardinality(S) \in 0..Cardinality(Procs)
           /\ p \notin S => Cardinality(S \cup {p}) = Cardinality(S) + 1
           /\ p \in S => Cardinality(S \ {p}) = Cardinality(S) - 1 /\ Cardinality(S) > 0
<1>1. IsFiniteSet(S) /\ Cardinality(S) <= Cardinality(Procs)
  BY FS_Subset, PipeAssumption
<1>2. Cardinality(S) \in Nat /\ Cardinality(Procs) \in Nat
  BY <1>1, FS_CardinalityType, PipeAssumption
<1>3. p \notin S => Cardinality(S \cup {p}) = Cardinality(S) + 1
  BY <1>1, FS_AddElement
<1>4. p \in S => Cardinality(S \ {p}) = Cardinality(S) - 1
  BY <1>1, FS_RemoveElement
<1>5. p \in S => Cardinality(S) # 0
  BY <1>1, FS_EmptySet
<1> QED BY <1>1, <1>2, <1>3, <1>4, <1>5, SMTT(60)

\* The counts are the sizes of those sets, and their types follow.
LEMMA CountsAreSizes ==
    CountsExact <=> \A s \in Sides : ends[s] = Cardinality(Holding(s))
                                     /\ pending[s] = Cardinality(Waiting(s))
  BY DEF CountsExact, Holding, Waiting

\* Nobody changes sides.
LEMMA SameCounts ==
    ASSUME IInv, UNCHANGED <<ends, pending>>,
           \A s \in Sides : Holding(s)' = Holding(s) /\ Waiting(s)' = Waiting(s)
    PROVE  CountsExact'
<1>1. \A s \in Sides : ends'[s] = Cardinality(Holding(s)') /\ pending'[s] = Cardinality(Waiting(s)')
  BY CountsAreSizes DEF IInv
<1> QED BY <1>1, Zenon DEF CountsExact, Holding, Waiting

\* The ring indices stay within the buffer.
LEMMA AfterWithin == \A i \in 0..(Capacity - 1) : After(i) \in 0..(Capacity - 1)
  BY PipeAssumption DEF After

\* Where a process is counted: at no side, as pending, or as an end.
SameClass(p) ==
    /\ at'[p] \in Opening <=> at[p] \in Opening
    /\ at'[p] \in {"closed", "construct"} <=> at[p] \in {"closed", "construct"}

\* A step that leaves everybody where they are counted.
LEMMA QuietStep ==
    ASSUME IInv, UNCHANGED <<ends, pending>>, \A p \in Procs : SameClass(p)
    PROVE  CountsExact' /\ \A p \in Procs : at'[p] \in Opening => Access[p] \in Sides
<1>1. \A s \in Sides : Holding(s)' = Holding(s) /\ Waiting(s)' = Waiting(s)
  BY DEF SameClass, Holding, Waiting, Ends, Sides
<1> QED BY <1>1, SameCounts DEF IInv, SameClass

\* The initial states: of a pair, everybody with one end is a holder.
LEMMA InitInv == Init => IInv
<1> SUFFICES ASSUME Init PROVE IInv
  OBVIOUS
<1>1. \A s \in Sides : Waiting(s) = {} /\ Holding(s) = IF named THEN {} ELSE {p \in Procs : Access[p] = s}
  BY AccessType, Zenon DEF Init, Waiting, Holding, Opening, Ends, Sides
<1>2. CountsExact
  BY <1>1, CountsAreSizes, FS_EmptySet, Zenon DEF Init
<1>3. \A s \in Sides : ends[s] \in 0..Cardinality(Procs) /\ pending[s] \in 0..Cardinality(Procs)
  <2> TAKE s \in Sides
  <2>1. Holding(s) \in SUBSET Procs /\ Waiting(s) \in SUBSET Procs
    BY DEF Holding, Waiting
  <2>2. Cardinality({}) = 0 /\ Cardinality(Procs) \in Nat
    BY FS_EmptySet, FS_CardinalityType, PipeAssumption
  <2>3. Cardinality({p \in Procs : Access[p] = s}) \in 0..Cardinality(Procs)
    <3>1. {p \in Procs : Access[p] = s} \in SUBSET Procs
      OBVIOUS
    <3>2. IsFiniteSet({p \in Procs : Access[p] = s})
      BY <3>1, FS_Subset, PipeAssumption
    <3>3. Cardinality({p \in Procs : Access[p] = s}) <= Cardinality(Procs)
      BY <3>1, FS_Subset, PipeAssumption
    <3> QED BY <3>2, <3>3, <2>2, FS_CardinalityType
  <2> QED BY <2>2, <2>3 DEF Init
<1>4. TypeOK
  <2>1. (CHOOSE b \in Bytes : TRUE) \in Bytes
    BY PipeAssumption
  <2> QED BY <1>3, <2>1, PipeAssumption DEF Init, TypeOK, Positions, Sides
<1>5. \A p \in Procs : (at[p] \in Opening => Access[p] \in Sides) /\ ~InCall(p)
  BY DEF Init, InCall, Opening
<1> QED BY <1>2, <1>4, <1>5 DEF Init, IInv

-----------------------------------------------------------------------------
(* open and close                                                           *)

\* await_peer counts the caller before it looks at the other side.
LEMMA AnnounceInv == ASSUME IInv, NEW p \in Procs, Announce(p), UNCHANGED named PROVE IInv'
<1> DEFINE side == Access[p]
<1>1. side \in Sides /\ at[p] = "closed"
  BY AccessType, Zenon DEF Announce, Sides
<1>2. at' = [q \in Procs |-> IF q = p THEN "announced" ELSE IF at[q] = "oasleep" THEN "await" ELSE at[q]]
  BY DEF Announce, MoveWaking, WakeOpeners
<1>3. \A s \in Sides : Holding(s)' = Holding(s)
  BY <1>1, <1>2, Zenon DEF Holding, Opening, Ends, Sides
<1>4. \A s \in Sides : Waiting(s)' = IF s = side THEN Waiting(s) \cup {p} ELSE Waiting(s)
  BY <1>1, <1>2 DEF Waiting, Opening
<1>5. p \notin Waiting(side) /\ Waiting(side) \in SUBSET Procs /\ Waiting(side) \cup {p} \in SUBSET Procs
  BY <1>1 DEF Waiting, Opening
<1>6. Cardinality(Waiting(side) \cup {p}) = Cardinality(Waiting(side)) + 1
      /\ Cardinality(Waiting(side) \cup {p}) \in 0..Cardinality(Procs)
  BY <1>5, Sizes, Zenon
<1>7. ends' = ends /\ pending' = [pending EXCEPT ![side] = @ + 1]
  BY DEF Announce
<1>8. \A s \in Sides : ends'[s] = Cardinality(Holding(s)') /\ pending'[s] = Cardinality(Waiting(s)')
  BY <1>1, <1>3, <1>4, <1>6, <1>7, CountsAreSizes, ZenonT(60) DEF IInv, TypeOK
<1>9. CountsExact'
  BY <1>8, Zenon DEF CountsExact, Holding, Waiting
<1>10. pending' \in [Sides -> 0..Cardinality(Procs)]
  <2>1. pending \in [Sides -> 0..Cardinality(Procs)]
    BY Zenon DEF IInv, TypeOK
  <2>2. pending'[side] \in 0..Cardinality(Procs)
    BY <1>1, <1>4, <1>6, <1>8, Zenon
  <2> QED BY <2>1, <2>2, <1>7, Zenon
<1>11. TypeOK'
  BY <1>2, <1>7, <1>10, Zenon DEF IInv, TypeOK, Announce, ring, call, Positions, Opening
<1>12. \A q \in Procs : at'[q] \in Opening => Access[q] \in Sides
  BY <1>1, <1>2 DEF IInv, Opening
<1>13. \A q \in Procs : IF InCall(q)' THEN done'[q] < length'[q] ELSE done'[q] = 0
  BY <1>1, <1>2, Zenon DEF IInv, InCall, Announce, call, Opening
<1> QED BY <1>9, <1>11, <1>12, <1>13 DEF IInv

\* The end of await_peer takes the caller out of the pending count again.
LEMMA StopPendingInv ==
    ASSUME IInv, NEW p \in Procs, NEW to \in {"construct", "closed"},
           at[p] = "await", StopPending(p, to), UNCHANGED named
    PROVE  IInv'
<1> DEFINE side == Access[p]
<1>1. side \in Sides
  BY Zenon DEF IInv, Opening
<1>2. at' = [at EXCEPT ![p] = to] /\ at \in [Procs -> Positions]
  BY Zenon DEF StopPending, Move, IInv, TypeOK
<1>3. \A s \in Sides : Holding(s)' = Holding(s)
  BY <1>2, Zenon DEF Holding, Opening, Ends, Sides
<1>4. \A s \in Sides : Waiting(s)' = IF s = side THEN Waiting(s) \ {p} ELSE Waiting(s)
  BY <1>1, <1>2 DEF Waiting, Opening
<1>5. p \in Waiting(side) /\ Waiting(side) \in SUBSET Procs
  BY Zenon DEF Waiting, Opening
<1>6. Cardinality(Waiting(side) \ {p}) = Cardinality(Waiting(side)) - 1
      /\ Cardinality(Waiting(side)) \in 0..Cardinality(Procs) /\ Cardinality(Waiting(side)) > 0
  BY <1>5, Sizes, Zenon
<1>7. ends' = ends /\ pending' = [pending EXCEPT ![side] = @ - 1]
  BY DEF StopPending
<1>8. \A s \in Sides : ends'[s] = Cardinality(Holding(s)') /\ pending'[s] = Cardinality(Waiting(s)')
  BY <1>1, <1>3, <1>4, <1>6, <1>7, CountsAreSizes, ZenonT(60) DEF IInv, TypeOK
<1>9. CountsExact'
  BY <1>8, Zenon DEF CountsExact, Holding, Waiting
<1>10. pending' \in [Sides -> 0..Cardinality(Procs)]
  <2>1. pending \in [Sides -> 0..Cardinality(Procs)] /\ Cardinality(Procs) \in Nat
    BY PipeAssumption, FS_CardinalityType, Zenon DEF IInv, TypeOK
  <2>2. pending'[side] \in 0..Cardinality(Procs)
    BY <2>1, <1>1, <1>4, <1>6, <1>8, SMTT(60)
  <2> QED BY <2>1, <2>2, <1>7, Zenon
<1>11. TypeOK'
  BY <1>2, <1>7, <1>10, SMTT(60) DEF IInv, TypeOK, StopPending, ring, call, Positions
<1>12. \A q \in Procs : at'[q] \in Opening => Access[q] \in Sides
  BY <1>2 DEF IInv, Opening
<1>13. \A q \in Procs : IF InCall(q)' THEN done'[q] < length'[q] ELSE done'[q] = 0
  BY <1>2, Zenon DEF IInv, InCall, StopPending, call, Opening
<1> QED BY <1>9, <1>11, <1>12, <1>13, Zenon DEF IInv

\* A description is made: its process is an end, or both ends.
LEMMA ConstructInv == ASSUME IInv, NEW p \in Procs, Construct(p), UNCHANGED named PROVE IInv'
<1>1. at[p] = "construct" /\ at \in [Procs -> Positions] /\ ends \in [Sides -> 0..Cardinality(Procs)]
  BY Zenon DEF Construct, IInv, TypeOK
<1>2. at' = [q \in Procs |-> IF q = p THEN "open" ELSE IF at[q] = "oasleep" THEN "await" ELSE at[q]]
  BY Zenon DEF Construct, MoveWaking, WakeOpeners
<1>3. \A s \in Sides : Waiting(s)' = Waiting(s)
  BY <1>1, <1>2, Zenon DEF Waiting, Opening
<1>4. \A s \in Sides : Holding(s)' = IF s \in Ends(p) THEN Holding(s) \cup {p} ELSE Holding(s)
  BY <1>1, <1>2, ZenonT(60) DEF Holding, Opening, Ends
<1>5. \A s \in Sides : /\ Cardinality(Holding(s) \cup {p}) = Cardinality(Holding(s)) + 1
                       /\ Cardinality(Holding(s) \cup {p}) \in 0..Cardinality(Procs)
  <2> TAKE s \in Sides
  <2>1. p \notin Holding(s) /\ Holding(s) \in SUBSET Procs /\ Holding(s) \cup {p} \in SUBSET Procs
    BY <1>1, Zenon DEF Holding
  <2> QED BY <2>1, Sizes, Zenon
<1>6. pending' = pending /\ ends' = [s \in Sides |-> IF s \in Ends(p) THEN ends[s] + 1 ELSE ends[s]]
  BY DEF Construct
<1>7. \A s \in Sides : ends'[s] = Cardinality(Holding(s)') /\ pending'[s] = Cardinality(Waiting(s)')
  BY <1>3, <1>4, <1>5, <1>6, CountsAreSizes, Zenon DEF IInv
<1>8. CountsExact'
  BY <1>7, Zenon DEF CountsExact, Holding, Waiting
<1>9. ends' \in [Sides -> 0..Cardinality(Procs)]
  <2>1. \A s \in Sides : ends'[s] \in 0..Cardinality(Procs)
    BY <1>1, <1>4, <1>5, <1>6, <1>7, Zenon
  <2> QED BY <2>1, <1>6
<1>10. TypeOK'
  BY <1>2, <1>6, <1>9, Zenon DEF IInv, TypeOK, Construct, ring, call, Positions, Opening
<1>11. \A q \in Procs : at'[q] \in Opening => Access[q] \in Sides
  BY <1>2, Zenon DEF IInv, Opening
<1>12. \A q \in Procs : IF InCall(q)' THEN done'[q] < length'[q] ELSE done'[q] = 0
  BY <1>1, <1>2, Zenon DEF IInv, InCall, Construct, call, Opening
<1> QED BY <1>8, <1>10, <1>11, <1>12, Zenon DEF IInv

\* close finds its own end counted, so "> 0" never hides a wrong count.
LEMMA CloseInv == ASSUME IInv, NEW p \in Procs, Close(p), UNCHANGED named PROVE IInv'
<1>1. at[p] = "open" /\ at \in [Procs -> Positions] /\ ends \in [Sides -> 0..Cardinality(Procs)]
  BY Zenon DEF Close, IInv, TypeOK
<1>2. at' = [q \in Procs |-> IF q = p THEN "closed"
                             ELSE IF at[q] = "rasleep" THEN "rtest"
                             ELSE IF at[q] = "wasleep" THEN "wtest" ELSE at[q]]
  BY DEF Close, MoveWaking, WakeBoth
<1>3. \A s \in Sides : Waiting(s)' = Waiting(s)
  BY <1>1, <1>2, Zenon DEF Waiting, Opening
<1>4. \A s \in Sides : Holding(s)' = IF s \in Ends(p) THEN Holding(s) \ {p} ELSE Holding(s)
  BY <1>1, <1>2, ZenonT(60) DEF Holding, Opening, Ends
<1>5. \A s \in Sides : s \in Ends(p) => /\ Cardinality(Holding(s) \ {p}) = Cardinality(Holding(s)) - 1
                                        /\ Cardinality(Holding(s)) > 0
  <2> SUFFICES ASSUME NEW s \in Sides, s \in Ends(p)
               PROVE  /\ Cardinality(Holding(s) \ {p}) = Cardinality(Holding(s)) - 1
                      /\ Cardinality(Holding(s)) > 0
    OBVIOUS
  <2>1. p \in Holding(s) /\ Holding(s) \in SUBSET Procs
    BY <1>1, Zenon DEF Holding, Opening
  <2> QED BY <2>1, Sizes, Zenon
<1>6. pending' = pending
      /\ ends' = [s \in Sides |-> IF s \in Ends(p) /\ ends[s] > 0 THEN ends[s] - 1 ELSE ends[s]]
  BY Zenon DEF Close
<1>7. \A s \in Sides : ends'[s] = Cardinality(Holding(s)') /\ pending'[s] = Cardinality(Waiting(s)')
  BY <1>3, <1>4, <1>5, <1>6, CountsAreSizes, Zenon DEF IInv
<1>8. CountsExact'
  BY <1>7, Zenon DEF CountsExact, Holding, Waiting
<1>9. ends' \in [Sides -> 0..Cardinality(Procs)]
  <2>1. Cardinality(Procs) \in Nat
    BY PipeAssumption, FS_CardinalityType
  <2> QED BY <2>1, <1>1, <1>6
<1>10. TypeOK'
  BY <1>2, <1>6, <1>9, Zenon DEF IInv, TypeOK, Close, ring, call, Positions, Opening
<1>11. \A q \in Procs : at'[q] \in Opening => Access[q] \in Sides
  BY <1>2, Zenon DEF IInv, Opening
<1>12. \A q \in Procs : IF InCall(q)' THEN done'[q] < length'[q] ELSE done'[q] = 0
  BY <1>1, <1>2, Zenon DEF IInv, InCall, Close, call, Opening
<1> QED BY <1>8, <1>10, <1>11, <1>12, Zenon DEF IInv

-----------------------------------------------------------------------------
(* read, write and sleep                                                    *)

\* A call that goes on, or returns, within the file: only the caller and the
\* sleepers it wakes move, and nobody's count changes.
LEMMA GotoInv ==
    ASSUME IInv, NEW p \in Procs, NEW to \in Positions, Goto(p, to), UNCHANGED named,
           \/ at[p] \in {"closed", "construct"} /\ to \in {"closed", "construct"}
           \/ at[p] \in Opening /\ to \in Opening
           \/ InCall(p) /\ to \notin Opening \cup {"closed", "construct", "open"}
    PROVE  IInv'
<1>1. at' = [at EXCEPT ![p] = to] /\ at \in [Procs -> Positions]
  BY Zenon DEF Goto, Move, IInv, TypeOK
<1>2. \A q \in Procs : SameClass(q)
  BY <1>1, Zenon DEF SameClass, Opening, InCall
<1>3. UNCHANGED <<ends, pending, arrived, buffer, head, tail, last, length, done, index>>
  BY Zenon DEF Goto, ring, call
<1>4. CountsExact' /\ \A q \in Procs : at'[q] \in Opening => Access[q] \in Sides
  BY <1>2, <1>3, QuietStep, Zenon
<1>5. TypeOK'
  BY <1>1, <1>3, Zenon DEF IInv, TypeOK
<1>6. \A q \in Procs : IF InCall(q)' THEN done'[q] < length'[q] ELSE done'[q] = 0
  BY <1>1, <1>3, Zenon DEF IInv, InCall, Opening
<1> QED BY <1>4, <1>5, <1>6, Zenon DEF IInv

LEMMA ReturnInv ==
    ASSUME IInv, NEW p \in Procs, InCall(p), Return(p), UNCHANGED named PROVE IInv'
<1>1. at' = [at EXCEPT ![p] = "open"] /\ at \in [Procs -> Positions]
  BY Zenon DEF Return, Move, IInv, TypeOK
<1>2. \A q \in Procs : SameClass(q)
  BY <1>1, Zenon DEF SameClass, Opening, InCall
<1>3. UNCHANGED <<ends, pending, arrived, buffer, head, tail, last, index>>
      /\ length' = [length EXCEPT ![p] = 0] /\ done' = [done EXCEPT ![p] = 0]
  BY DEF Return, ring
<1>4. CountsExact' /\ \A q \in Procs : at'[q] \in Opening => Access[q] \in Sides
  BY <1>2, <1>3, QuietStep, Zenon
<1>5. TypeOK'
  BY <1>1, <1>3, PipeAssumption, SMTT(60) DEF IInv, TypeOK, Positions
<1>6. \A q \in Procs : IF InCall(q)' THEN done'[q] < length'[q] ELSE done'[q] = 0
  BY <1>1, <1>3, Zenon DEF IInv, InCall, Opening, TypeOK
<1> QED BY <1>4, <1>5, <1>6, Zenon DEF IInv

LEMMA BeginInv ==
    ASSUME IInv, NEW p \in Procs, NEW end \in Sides, NEW n \in 1..MaxLength, Begin(p, end, n),
           UNCHANGED named
    PROVE  IInv'
<1> DEFINE to == IF end = "r" THEN "rtest" ELSE "wtest"
<1>1. at' = [at EXCEPT ![p] = to] /\ at \in [Procs -> Positions] /\ at[p] = "open"
  BY Zenon DEF Begin, Move, IInv, TypeOK
<1>2. \A q \in Procs : SameClass(q)
  BY <1>1, Zenon DEF SameClass, Opening
<1>3. UNCHANGED <<ends, pending, arrived, buffer, head, tail, last, done, index>>
      /\ length' = [length EXCEPT ![p] = n]
  BY Zenon DEF Begin, ring
<1>4. CountsExact' /\ \A q \in Procs : at'[q] \in Opening => Access[q] \in Sides
  BY <1>2, <1>3, QuietStep, Zenon
<1>5. TypeOK'
  BY <1>1, <1>3, PipeAssumption, SMTT(60) DEF IInv, TypeOK, Positions
<1>6. \A q \in Procs : IF InCall(q)' THEN done'[q] < length'[q] ELSE done'[q] = 0
  BY <1>1, <1>3, PipeAssumption, SMTT(60) DEF IInv, InCall, Opening, TypeOK
<1> QED BY <1>4, <1>5, <1>6, Zenon DEF IInv

\* The copy loops, the byte and the index in steps of their own.
LEMMA ReadByteInv == ASSUME IInv, NEW p \in Procs, ReadByte(p), UNCHANGED named PROVE IInv'
<1>1. at' = [at EXCEPT ![p] = "radvance"] /\ at \in [Procs -> Positions] /\ at[p] = "rload"
  BY Zenon DEF ReadByte, Move, IInv, TypeOK
<1>2. \A q \in Procs : SameClass(q)
  BY <1>1 DEF SameClass, Opening
<1>3. CountsExact' /\ \A q \in Procs : at'[q] \in Opening => Access[q] \in Sides
  BY <1>2, QuietStep, Zenon DEF ReadByte
<1>4. TypeOK'
  BY <1>1, PipeAssumption, Zenon DEF IInv, TypeOK, Positions, ReadByte
<1>5. \A q \in Procs : IF InCall(q)' THEN done'[q] < length'[q] ELSE done'[q] = 0
  BY <1>1, Zenon DEF IInv, InCall, Opening, ReadByte
<1> QED BY <1>3, <1>4, <1>5, Zenon DEF IInv

LEMMA WriteByteInv ==
    ASSUME IInv, NEW p \in Procs, NEW b \in Bytes, WriteByte(p, b), UNCHANGED named PROVE IInv'
<1>1. at' = [at EXCEPT ![p] = "wadvance"] /\ at \in [Procs -> Positions] /\ at[p] = "wstore"
  BY Zenon DEF WriteByte, Move, IInv, TypeOK
<1>2. \A q \in Procs : SameClass(q)
  BY <1>1 DEF SameClass, Opening
<1>3. CountsExact' /\ \A q \in Procs : at'[q] \in Opening => Access[q] \in Sides
  BY <1>2, QuietStep, Zenon DEF WriteByte
<1>4. TypeOK'
  BY <1>1, PipeAssumption, Zenon DEF IInv, TypeOK, Positions, WriteByte
<1>5. \A q \in Procs : IF InCall(q)' THEN done'[q] < length'[q] ELSE done'[q] = 0
  BY <1>1, Zenon DEF IInv, InCall, Opening, WriteByte
<1> QED BY <1>3, <1>4, <1>5, Zenon DEF IInv

LEMMA ReadAdvanceInv == ASSUME IInv, NEW p \in Procs, ReadAdvance(p), UNCHANGED named PROVE IInv'
<1> PICK t \in {tail, index[p]} :
        /\ tail' = After(t)
        /\ IF done[p] + 1 < length[p] /\ Used(head, After(t)) > 0
           THEN Transferred(p, FALSE) /\ Move(p, "rload")
           ELSE Transferred(p, TRUE) /\ MoveWaking(p, "open", {"wasleep"}, WakeWriters)
  BY Zenon DEF ReadAdvance
<1>1. at \in [Procs -> Positions] /\ at[p] = "radvance"
      /\ UNCHANGED <<buffer, head, last, ends, pending, arrived>>
  BY Zenon DEF ReadAdvance, IInv, TypeOK
<1>2. tail' \in 0..(Capacity - 1)
  BY AfterWithin, Zenon DEF IInv, TypeOK
<1>3. CASE done[p] + 1 < length[p] /\ Transferred(p, FALSE) /\ Move(p, "rload")
  <2>1. at' = [at EXCEPT ![p] = "rload"] /\ done' = [done EXCEPT ![p] = @ + 1]
        /\ length' = length /\ index' = [index EXCEPT ![p] = 0]
    BY <1>3, Zenon DEF Transferred, Move, IInv, TypeOK
  <2>2. \A q \in Procs : SameClass(q)
    BY <1>1, <2>1, Zenon DEF SameClass, Opening
  <2>3. CountsExact' /\ \A q \in Procs : at'[q] \in Opening => Access[q] \in Sides
    BY <1>1, <2>2, QuietStep, Zenon
  <2>4. TypeOK'
    BY <1>1, <1>2, <1>3, <2>1, PipeAssumption, SMTT(60) DEF IInv, TypeOK, Positions
  <2>5. \A q \in Procs : IF InCall(q)' THEN done'[q] < length'[q] ELSE done'[q] = 0
    BY <1>1, <1>3, <2>1, Zenon DEF IInv, InCall, Opening, TypeOK
  <2> QED BY <2>3, <2>4, <2>5, Zenon DEF IInv
<1>4. CASE Transferred(p, TRUE) /\ MoveWaking(p, "open", {"wasleep"}, WakeWriters)
  <2>1. /\ at' = [q \in Procs |-> IF q = p THEN "open" ELSE IF at[q] = "wasleep" THEN "wtest" ELSE at[q]]
        /\ done' = [done EXCEPT ![p] = 0] /\ length' = [length EXCEPT ![p] = 0]
        /\ index' = [index EXCEPT ![p] = 0]
    BY <1>4, Zenon DEF Transferred, MoveWaking, WakeWriters
  <2>2. \A q \in Procs : SameClass(q)
    BY <1>1, <2>1, Zenon DEF SameClass, Opening
  <2>3. CountsExact' /\ \A q \in Procs : at'[q] \in Opening => Access[q] \in Sides
    BY <1>1, <2>2, QuietStep, Zenon
  <2>4. TypeOK'
    BY <1>1, <1>2, <2>1, PipeAssumption, SMTT(60) DEF IInv, TypeOK, Positions
  <2>5. \A q \in Procs : IF InCall(q)' THEN done'[q] < length'[q] ELSE done'[q] = 0
    BY <1>1, <2>1, Zenon DEF IInv, InCall, Opening, TypeOK
  <2> QED BY <2>3, <2>4, <2>5, Zenon DEF IInv
<1> QED BY <1>3, <1>4, Zenon

LEMMA WriteAdvanceInv == ASSUME IInv, NEW p \in Procs, WriteAdvance(p), UNCHANGED named PROVE IInv'
<1> DEFINE all == done[p] + 1 = length[p]
<1> PICK h \in {head, index[p]} :
        /\ head' = After(h)
        /\ Transferred(p, all)
        /\ IF ~all /\ Available(After(h), tail) > 0 THEN Move(p, "wstore")
           ELSE MoveWaking(p, IF all THEN "open" ELSE "wtest", {"rasleep"}, WakeReaders)
  BY Zenon DEF WriteAdvance
<1>1. at \in [Procs -> Positions] /\ at[p] = "wadvance"
      /\ UNCHANGED <<buffer, tail, last, ends, pending, arrived>>
  BY Zenon DEF WriteAdvance, IInv, TypeOK
<1>2. head' \in 0..(Capacity - 1)
  BY AfterWithin, Zenon DEF IInv, TypeOK
<1>3. done[p] < length[p]
  BY <1>1, Zenon DEF IInv, InCall, Opening
<1>4. PICK to \in {"wstore", "wtest", "open"} :
        /\ at' \in [Procs -> Positions] /\ at'[p] = to /\ (to = "open" <=> all)
        /\ \A q \in Procs \ {p} : at'[q] = at[q] \/ (at[q] = "rasleep" /\ at'[q] = "rtest")
  <2>1. CASE ~all /\ Move(p, "wstore")
    BY <1>1, <2>1, Zenon DEF Move, Positions
  <2>2. CASE MoveWaking(p, IF all THEN "open" ELSE "wtest", {"rasleep"}, WakeReaders)
    <3>1. at' = [q \in Procs |-> IF q = p THEN IF all THEN "open" ELSE "wtest"
                                 ELSE IF at[q] = "rasleep" THEN "rtest" ELSE at[q]]
      BY <2>2, Zenon DEF MoveWaking, WakeReaders
    <3> QED BY <1>1, <3>1, Zenon DEF Positions
  <2> QED BY <2>1, <2>2, Zenon
<1>5. \A q \in Procs : SameClass(q)
  BY <1>1, <1>4, Zenon DEF SameClass, Opening
<1>6. CountsExact' /\ \A q \in Procs : at'[q] \in Opening => Access[q] \in Sides
  BY <1>1, <1>5, QuietStep, Zenon
<1>7. /\ done' = [done EXCEPT ![p] = IF all THEN 0 ELSE @ + 1]
      /\ length' = [length EXCEPT ![p] = IF all THEN 0 ELSE @] /\ index' = [index EXCEPT ![p] = 0]
  BY Zenon DEF Transferred
<1>8. TypeOK'
  <2>1. /\ done \in [Procs -> 0..MaxLength] /\ length \in [Procs -> 0..MaxLength]
        /\ index \in [Procs -> 0..(Capacity - 1)]
    BY Zenon DEF IInv, TypeOK
  <2>2. /\ (IF all THEN 0 ELSE done[p] + 1) \in 0..MaxLength
        /\ (IF all THEN 0 ELSE length[p]) \in 0..MaxLength /\ 0 \in 0..(Capacity - 1)
    BY <1>3, <2>1, PipeAssumption, SMTT(60)
  <2> HIDE DEF all
  <2>3. /\ done' \in [Procs -> 0..MaxLength] /\ length' \in [Procs -> 0..MaxLength]
        /\ index' \in [Procs -> 0..(Capacity - 1)]
    BY <1>7, <2>1, <2>2, Zenon
  <2> QED BY <1>1, <1>2, <1>4, <2>3, Zenon DEF IInv, TypeOK
<1>9. \A q \in Procs : IF InCall(q)' THEN done'[q] < length'[q] ELSE done'[q] = 0
  <2>1. IF InCall(p)' THEN done'[p] < length'[p] ELSE done'[p] = 0
    <3>1. /\ done[p] \in Nat /\ length[p] \in Nat
          /\ done'[p] = IF all THEN 0 ELSE done[p] + 1
          /\ length'[p] = IF all THEN 0 ELSE length[p]
      BY <1>7, SMTT(60) DEF IInv, TypeOK
    <3>2. InCall(p)' <=> ~all
      BY <1>4, Zenon DEF InCall, Opening
    <3> QED BY <1>3, <3>1, <3>2, SMTT(60)
  <2>2. ASSUME NEW q \in Procs \ {p} PROVE IF InCall(q)' THEN done'[q] < length'[q] ELSE done'[q] = 0
    <3>1. done'[q] = done[q] /\ length'[q] = length[q] /\ InCall(q)' = InCall(q)
      BY <1>4, <1>7, <2>2, Zenon DEF InCall, Opening, IInv, TypeOK
    <3> QED BY <3>1, Zenon DEF IInv
  <2> QED BY <2>1, <2>2, Zenon
<1> QED BY <1>6, <1>8, <1>9, Zenon DEF IInv

-----------------------------------------------------------------------------
\* Snapshot only forgets the arrivals seen so far.
LEMMA SnapshotInv == ASSUME IInv, NEW p \in Procs, Snapshot(p), UNCHANGED named PROVE IInv'
<1>1. at' = [at EXCEPT ![p] = "await"] /\ at \in [Procs -> Positions] /\ at[p] = "announced"
  BY Zenon DEF Snapshot, Move, IInv, TypeOK
<1>2. UNCHANGED <<ends, pending, buffer, head, tail, last, length, done, index>>
      /\ arrived' = [arrived EXCEPT ![p] = FALSE]
  BY Zenon DEF Snapshot, ring, call
<1>3. \A q \in Procs : SameClass(q)
  BY <1>1, Zenon DEF SameClass, Opening
<1>4. CountsExact' /\ \A q \in Procs : at'[q] \in Opening => Access[q] \in Sides
  BY <1>2, <1>3, QuietStep, Zenon
<1>5. TypeOK'
  BY <1>1, <1>2, Zenon DEF IInv, TypeOK, Positions, Opening
<1>6. \A q \in Procs : IF InCall(q)' THEN done'[q] < length'[q] ELSE done'[q] = 0
  BY <1>1, <1>2, Zenon DEF IInv, InCall, Opening
<1> QED BY <1>4, <1>5, <1>6, Zenon DEF IInv

\* No step of any process breaks the invariant.
LEMMA StepInv == IInv /\ [Next]_vars => IInv'
<1>1. ASSUME IInv, UNCHANGED vars PROVE IInv'
  BY <1>1, Zenon DEF vars, IInv, TypeOK, CountsExact, InCall
<1>2. ASSUME IInv, NEW p \in Procs, Step(p), UNCHANGED named PROVE IInv'
  <2> USE <1>2
  <2>1. CASE OpenAtOnce(p)
    <3>1. Goto(p, "construct") /\ at[p] = "closed"
      BY <2>1, Zenon DEF OpenAtOnce, Goto
    <3> QED BY <3>1, GotoInv, Zenon DEF Positions
  <2>2. CASE Announce(p)
    BY <2>2, AnnounceInv
  <2>3. CASE Snapshot(p)
    BY <2>3, SnapshotInv
  <2>4. CASE AwaitPeer(p)
    <3>1. CASE StopPending(p, "construct")
      BY <2>4, <3>1, StopPendingInv, Zenon DEF AwaitPeer
    <3>2. CASE StopPending(p, "closed")
      BY <2>4, <3>2, StopPendingInv, Zenon DEF AwaitPeer
    <3>3. CASE Move(p, "owait") /\ UNCHANGED <<ring, call, ends, pending, arrived>>
      BY <2>4, <3>3, GotoInv, Zenon DEF AwaitPeer, Goto, Positions, Opening
    <3> QED BY <2>4, <3>1, <3>2, <3>3, Zenon DEF AwaitPeer
  <2>5. CASE Construct(p)
    BY <2>5, ConstructInv
  <2>6. CASE ConstructFails(p)
    BY <2>6, GotoInv, Zenon DEF ConstructFails, Goto, Positions
  <2>7. CASE Close(p)
    BY <2>7, CloseInv, Zenon
  <2>8. ASSUME NEW n \in 1..MaxLength, NEW end \in Sides, Begin(p, end, n) PROVE IInv'
    BY <2>8, BeginInv, Zenon
  <2>9. CASE ReadTest(p)
    <3>1. InCall(p)
      BY <2>9, Zenon DEF ReadTest, InCall, Opening
    <3>2. CASE Goto(p, "rload")
      BY <3>1, <3>2, GotoInv, Zenon DEF Positions, Opening
    <3>3. CASE Goto(p, "rwait")
      BY <3>1, <3>3, GotoInv, Zenon DEF Positions, Opening
    <3>4. CASE Return(p)
      BY <3>1, <3>4, ReturnInv
    <3> QED BY <2>9, <3>2, <3>3, <3>4, Zenon DEF ReadTest
  <2>10. CASE ReadByte(p)
    BY <2>10, ReadByteInv
  <2>11. CASE ReadAdvance(p)
    BY <2>11, ReadAdvanceInv
  <2>12. CASE WriteTest(p)
    <3>1. InCall(p)
      BY <2>12, Zenon DEF WriteTest, InCall, Opening
    <3>2. CASE Goto(p, "wstore")
      BY <3>1, <3>2, GotoInv, Zenon DEF Positions, Opening
    <3>3. CASE Goto(p, "wwait")
      BY <3>1, <3>3, GotoInv, Zenon DEF Positions, Opening
    <3>4. CASE Return(p)
      BY <3>1, <3>4, ReturnInv
    <3> QED BY <2>12, <3>2, <3>3, <3>4, Zenon DEF WriteTest
  <2>13. ASSUME NEW b \in Bytes, WriteByte(p, b) PROVE IInv'
    BY <2>13, WriteByteInv, Zenon
  <2>14. CASE WriteAdvance(p)
    BY <2>14, WriteAdvanceInv, Zenon
  <2>15. CASE Sleep(p)
    BY <2>15, GotoInv, Zenon DEF Sleep, Positions, Opening, InCall
  <2>16. CASE SignalWakes(p)
    BY <2>16, GotoInv, Zenon DEF SignalWakes, Positions, Opening, InCall
  <2> QED BY <2>1, <2>2, <2>3, <2>4, <2>5, <2>6, <2>7, <2>8, <2>9, <2>10, <2>11, <2>12, <2>13,
             <2>14, <2>15, <2>16, Zenon DEF Step
<1> QED BY <1>1, <1>2 DEF Next

(* The counters of kernel/fs/pipe.cpp that decide between end of file,     *)
(* SIGPIPE and sleeping are at every moment the numbers of processes with  *)
(* a read end, a write end and an open in progress, whatever opens fail,   *)
(* are interrupted or race with closes, for any number of processes.       *)
THEOREM PipeCountsExact == Spec => []CountsExact
<1>1. IInv => CountsExact
  BY Zenon DEF IInv
<1> QED BY InitInv, StepInv, <1>1, PTL DEF Spec

(* The indices stay within the ring and no copy loop goes past the length  *)
(* it was asked for, even with several unlocked readers and writers.       *)
THEOREM PipeTypeOK == Spec => []TypeOK
<1>1. IInv => TypeOK
  BY Zenon DEF IInv
<1> QED BY InitInv, StepInv, <1>1, PTL DEF Spec
==============================================================================
