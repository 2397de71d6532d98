------------------------- MODULE PhysicalMemoryProofs ------------------------
(***************************************************************************)
(* The invariants of PhysicalMemory for every memory map, page size, word  *)
(* size and set of callers.                                                *)
(***************************************************************************)
EXTENDS PhysicalMemory, FiniteSetTheorems, TLAPS

\* Nothing below the hint is free.
HintSound == \A i \in Pages : i < hint => i \in used

\* What boot has carved out so far.
Carved ==
    /\ phase = "carve" =>
        \A j \in DOMAIN map : j < next /\ map[j].kind \in InPlace => Region(j) \subseteq used
    /\ phase = "ready" => Reserved \subseteq used
    /\ phase # "ready" => held = [c \in Callers |-> {}] /\ hint = 0 /\ refused = 0

IInv ==
    /\ TypeOK
    /\ CountExact
    /\ HintSound
    /\ Carved
    /\ FramesApart
    /\ OutOfMemoryIsTrue

-----------------------------------------------------------------------------
\* The bitmap is finite.
LEMMA PagesFinite ==
    ASSUME map \in Maps
    PROVE  /\ IsFiniteSet(Pages)
           /\ Cardinality(Pages) = TotalPages(map)
           /\ TotalPages(map) \in Nat
<1>1. TotalPages(map) \in Nat
  BY MemoryAssumption
<1>2. IsFiniteSet(Pages)
       /\ Cardinality(Pages) = IF 0 > TotalPages(map) - 1 THEN 0 ELSE TotalPages(map) - 1 - 0 + 1
  <2>1. 0 \in Int /\ TotalPages(map) - 1 \in Int
    BY <1>1
  <2> QED BY <2>1, FS_Interval DEF Pages
<1> QED BY <1>1, <1>2

\* What the range operations, and the single-page ones, do to the count.
LEMMA CountAfterUse ==
    ASSUME NEW U, NEW S, IsFiniteSet(U), IsFiniteSet(S)
    PROVE  /\ IsFiniteSet(U \cup S)
           /\ Cardinality(U \cup S) = Cardinality(U) + Cardinality(S \ U)
<1>1. /\ Cardinality(U \cup S) = Cardinality(U) + Cardinality(S) - Cardinality(U \cap S)
      /\ IsFiniteSet(U \cup S)
  BY FS_Union
<1>2. Cardinality(S \ U) = Cardinality(S) - Cardinality(S \cap U)
  BY FS_Difference, Zenon
<1>3. U \cap S = S \cap U
  OBVIOUS
<1>4. IsFiniteSet(S \cap U)
  BY FS_Subset
<1>5. /\ Cardinality(U) \in Nat /\ Cardinality(S) \in Nat /\ Cardinality(S \cap U) \in Nat
  BY <1>4, FS_CardinalityType
<1> QED BY <1>1, <1>2, <1>3, <1>5, Zenon

\* Clearing the bits of pages and subtracting those that were set keeps the
\* count exact (mark_free, free_contiguous).
LEMMA CountAfterFree ==
    ASSUME NEW U, NEW S, IsFiniteSet(U)
    PROVE  Cardinality(U \ S) = Cardinality(U) - Cardinality(S \cap U)
<1>1. Cardinality(U \ S) = Cardinality(U) - Cardinality(U \cap S)
  BY FS_Difference, Zenon
<1>2. U \cap S = S \cap U
  OBVIOUS
<1> QED BY <1>1, <1>2

\* The word the hint is in begins no later than the hint.
LEMMA WordBegins ==
    ASSUME NEW h \in Nat
    PROVE  (h \div WordBits) * WordBits <= h
BY MemoryAssumption

\* A subset of the bitmap has a count of the right type.
LEMMA CountInRange ==
    ASSUME map \in Maps, NEW U \in SUBSET Pages
    PROVE  IsFiniteSet(U) /\ Cardinality(U) \in 0..TotalPages(map)
<1>1. IsFiniteSet(U) /\ Cardinality(U) <= Cardinality(Pages)
  BY PagesFinite, FS_Subset
<1>2. Cardinality(U) \in Nat
  BY <1>1, FS_CardinalityType
<1> QED BY <1>1, <1>2, PagesFinite

\* mark_used keeps the count.
LEMMA MarkUsedCounts ==
    ASSUME TypeOK, CountExact, NEW S \in SUBSET Pages, MarkUsed(S)
    PROVE  used' \in SUBSET Pages /\ count' = Cardinality(used') /\ count' \in 0..TotalPages(map)
<1>1. used' \in SUBSET Pages
  BY DEF MarkUsed, TypeOK
<1>2. IsFiniteSet(used) /\ IsFiniteSet(S)
  BY CountInRange DEF TypeOK
<1>3. Cardinality(used \cup S) = Cardinality(used) + Cardinality(S \ used)
  BY <1>2, CountAfterUse
<1>4. count' = Cardinality(used')
  BY <1>3 DEF MarkUsed, CountExact
<1>5. Cardinality(used') \in 0..TotalPages(map)
  BY <1>1, CountInRange DEF TypeOK
<1> QED BY <1>1, <1>4, <1>5

\* mark_free keeps the count.
LEMMA MarkFreeCounts ==
    ASSUME TypeOK, CountExact, NEW S \in SUBSET Pages, MarkFree(S)
    PROVE  used' \in SUBSET Pages /\ count' = Cardinality(used') /\ count' \in 0..TotalPages(map)
<1>1. used' \in SUBSET Pages
  BY DEF MarkFree, TypeOK
<1>2. IsFiniteSet(used)
  BY CountInRange DEF TypeOK
<1>3. Cardinality(used \ S) = Cardinality(used) - Cardinality(S \cap used)
  BY <1>2, CountAfterFree, Zenon
<1>4. count' = Cardinality(used')
  BY <1>3 DEF MarkFree, CountExact
<1>5. Cardinality(used') \in 0..TotalPages(map)
  BY <1>1, CountInRange DEF TypeOK
<1> QED BY <1>1, <1>4, <1>5

\* Ranges are ranges of pages.
LEMMA RangesArePages ==
    /\ \A b, l : PagesIn(b, l) \subseteq Pages
    /\ \A i : Region(i) \subseteq Pages
    /\ Bitmap \subseteq Pages /\ PageZero \subseteq Pages
BY DEF PagesIn, Region, Bitmap, PageZero

\* Operators of the map alone do not change while the map does not.
LEMMA MapFixed ==
    ASSUME map' = map
    PROVE  /\ Pages' = Pages /\ Reserved' = Reserved
           /\ \A i : Region(i)' = Region(i)
BY DEF Pages, Reserved, Region, Bitmap, PageZero, PagesIn, InPlace

-----------------------------------------------------------------------------
\* Before the first region is read everything is used and counted so.
LEMMA InitInv == Init => IInv
<1> SUFFICES ASSUME Init PROVE IInv
  OBVIOUS
<1>1. map \in Maps /\ TotalPages(map) \in Nat /\ Len(map) \in Nat
  BY MemoryAssumption DEF Init
<1>2. TypeOK
  <2>1. next \in 1..(Len(map) + 1) /\ count \in 0..TotalPages(map) /\ hint \in 0..TotalPages(map)
    BY <1>1 DEF Init
  <2>2. refused \in 0..MaxRun
    BY MemoryAssumption DEF Init
  <2>3. used \in SUBSET Pages /\ held \in [Callers -> SUBSET Pages]
    BY DEF Init
  <2>4. phase \in {"free", "carve", "ready"} /\ panicked \in BOOLEAN
    BY Zenon DEF Init
  <2> QED BY <1>1, <2>1, <2>2, <2>3, <2>4, Zenon DEF TypeOK
<1>3. CountExact
  <2>1. Cardinality(Pages) = TotalPages(map)
    BY <1>1, PagesFinite
  <2> QED BY <2>1 DEF Init, CountExact
<1>4. HintSound /\ OutOfMemoryIsTrue
  BY DEF Init, HintSound, OutOfMemoryIsTrue, Pages
<1>5. Carved
  BY DEF Init, Carved
<1>6. FramesApart
  BY DEF Init, FramesApart
<1> QED BY <1>2, <1>3, <1>4, <1>5, <1>6 DEF IInv

\* While physical_initialize runs nobody holds a page, so a step of it keeps
\* all but the bitmap and its count trivially.
LEMMA BootKeeps ==
    ASSUME IInv, phase # "ready", map' = map, used' \in SUBSET Pages,
           count' = Cardinality(used'), count' \in 0..TotalPages(map), hint' = 0,
           UNCHANGED <<held, refused, panicked>>
    PROVE  /\ used' \in (SUBSET Pages)' /\ count' \in (0..TotalPages(map))'
           /\ hint' \in (0..TotalPages(map))'
           /\ CountExact' /\ HintSound' /\ FramesApart' /\ OutOfMemoryIsTrue'
           /\ held' = [c \in Callers |-> {}] /\ refused' = 0
<1>0. held = [c \in Callers |-> {}] /\ refused = 0 /\ hint = 0 /\ ~panicked
  BY DEF IInv, Carved, FramesApart
<1>1. TotalPages(map) \in Nat
  BY PagesFinite DEF IInv, TypeOK
<1>2. used' \in (SUBSET Pages)' /\ count' \in (0..TotalPages(map))' /\ hint' \in (0..TotalPages(map))'
  BY <1>1 DEF Pages
<1>3. CountExact'
  BY DEF CountExact
<1>4. HintSound' /\ OutOfMemoryIsTrue'
  BY <1>0 DEF HintSound, OutOfMemoryIsTrue, Pages
<1>5. FramesApart'
  BY <1>0 DEF FramesApart
<1> QED BY <1>0, <1>2, <1>3, <1>4, <1>5

\* The first loop of physical_initialize, over the usable regions.
LEMMA FreeRegionInv == ASSUME IInv, FreeRegion PROVE IInv'
<1>1. TypeOK /\ CountExact /\ Carved /\ phase = "free" /\ map' = map /\ phase' = phase
  BY DEF IInv, FreeRegion
<1>2. /\ used' \in SUBSET Pages /\ count' = Cardinality(used') /\ count' \in 0..TotalPages(map)
  <2>1. CASE map[next].kind = "Usable"
    <3>1. MarkFree(Region(next)) /\ Region(next) \in SUBSET Pages
      BY <2>1, RangesArePages DEF FreeRegion
    <3> QED BY <1>1, <3>1, MarkFreeCounts
  <2>2. CASE map[next].kind # "Usable"
    BY <1>1, <2>2 DEF FreeRegion, TypeOK, CountExact
  <2> QED BY <2>1, <2>2
<1>3. hint' = 0 /\ UNCHANGED <<held, refused, panicked>>
  BY <1>1 DEF FreeRegion, Carved
<1>4. /\ used' \in (SUBSET Pages)' /\ count' \in (0..TotalPages(map))'
      /\ hint' \in (0..TotalPages(map))'
      /\ CountExact' /\ HintSound' /\ FramesApart' /\ OutOfMemoryIsTrue'
      /\ held' = [c \in Callers |-> {}] /\ refused' = 0
  BY <1>1, <1>2, <1>3, BootKeeps
<1>5. next' \in (1..(Len(map) + 1))'
  <2>1. map \in Seq([base : Nat, length : Nat, kind : Kinds]) /\ next \in DOMAIN map
    BY <1>1, MemoryAssumption, Zenon DEF TypeOK, FreeRegion
  <2>2. Len(map) \in Nat /\ next \in 1..Len(map)
    BY <2>1
  <2> QED BY <2>2, <1>1 DEF FreeRegion
<1>6. TypeOK'
  BY <1>1, <1>3, <1>4, <1>5 DEF TypeOK
<1>7. Carved'
  BY <1>1, <1>3, <1>4 DEF Carved
<1> QED BY <1>4, <1>6, <1>7 DEF IInv

\* The second loop begins with the first region again.
LEMMA FreeDoneInv == ASSUME IInv, FreeDone PROVE IInv'
<1>1. /\ TypeOK /\ CountExact /\ Carved /\ phase = "free" /\ map' = map
      /\ phase' = "carve" /\ next' = 1 /\ used' = used /\ count' = count
  BY DEF IInv, FreeDone
<1>2. /\ used' \in SUBSET Pages /\ count' = Cardinality(used') /\ count' \in 0..TotalPages(map)
  BY <1>1 DEF TypeOK, CountExact
<1>3. hint' = 0 /\ UNCHANGED <<held, refused, panicked>>
  BY <1>1 DEF FreeDone, Carved
<1>4. /\ used' \in (SUBSET Pages)' /\ count' \in (0..TotalPages(map))'
      /\ hint' \in (0..TotalPages(map))'
      /\ CountExact' /\ HintSound' /\ FramesApart' /\ OutOfMemoryIsTrue'
      /\ held' = [c \in Callers |-> {}] /\ refused' = 0
  BY <1>1, <1>2, <1>3, BootKeeps, Zenon
<1>5. Len(map) \in Nat /\ DOMAIN map = 1..Len(map)
  BY <1>1, MemoryAssumption DEF TypeOK
<1>6. TypeOK'
  BY <1>1, <1>3, <1>4, <1>5 DEF TypeOK
<1>7. Carved'
  BY <1>1, <1>3, <1>4, <1>5 DEF Carved
<1> QED BY <1>4, <1>6, <1>7 DEF IInv

\* The second loop, over the kernel and the boot modules.
LEMMA CarveRegionInv == ASSUME IInv, CarveRegion PROVE IInv'
<1>1. TypeOK /\ CountExact /\ Carved /\ phase = "carve" /\ map' = map /\ phase' = phase
  BY DEF IInv, CarveRegion
<1>2. /\ used' \in SUBSET Pages /\ count' = Cardinality(used') /\ count' \in 0..TotalPages(map)
      /\ used \subseteq used'
      /\ map[next].kind \in InPlace => Region(next) \subseteq used'
  <2>1. CASE map[next].kind \in InPlace
    <3>1. MarkUsed(Region(next)) /\ Region(next) \in SUBSET Pages
      BY <2>1, RangesArePages DEF CarveRegion
    <3>2. used \subseteq used' /\ Region(next) \subseteq used'
      BY <3>1 DEF MarkUsed
    <3> QED BY <1>1, <3>1, <3>2, MarkUsedCounts
  <2>2. CASE map[next].kind \notin InPlace
    BY <1>1, <2>2, Zenon DEF CarveRegion, TypeOK, CountExact
  <2> QED BY <2>1, <2>2
<1>3. hint' = 0 /\ UNCHANGED <<held, refused, panicked>>
  BY <1>1 DEF CarveRegion, Carved
<1>4. /\ used' \in (SUBSET Pages)' /\ count' \in (0..TotalPages(map))'
      /\ hint' \in (0..TotalPages(map))'
      /\ CountExact' /\ HintSound' /\ FramesApart' /\ OutOfMemoryIsTrue'
      /\ held' = [c \in Callers |-> {}] /\ refused' = 0
  BY <1>1, <1>2, <1>3, BootKeeps, Zenon
<1>5. Len(map) \in Nat /\ DOMAIN map = 1..Len(map) /\ next \in DOMAIN map /\ next' = next + 1
  BY <1>1, MemoryAssumption DEF TypeOK, CarveRegion
<1>6. TypeOK'
  BY <1>1, <1>3, <1>4, <1>5, SMTT(60) DEF TypeOK
<1>7. Carved'
  <2>1. \A j \in DOMAIN map : j < next' /\ map[j].kind \in InPlace => Region(j) \subseteq used'
    <3> SUFFICES ASSUME NEW j \in DOMAIN map, j < next', map[j].kind \in InPlace
                 PROVE  Region(j) \subseteq used'
      OBVIOUS
    <3>1. CASE j = next
      BY <3>1, <1>2
    <3>2. CASE j < next
      BY <3>2, <1>1, <1>2 DEF Carved
    <3> QED BY <3>1, <3>2, <1>5
  <2>2. \A i : Region(i)' = Region(i)
    BY <1>1, MapFixed
  <2> QED BY <2>1, <2>2, <1>1, <1>3, <1>4, Zenon DEF Carved, InPlace
<1> QED BY <1>4, <1>6, <1>7 DEF IInv

\* The bitmap and page zero are taken out, and the hint is set to zero.
LEMMA CarveRestInv == ASSUME IInv, CarveRest PROVE IInv'
<1>1. /\ TypeOK /\ CountExact /\ Carved /\ phase = "carve" /\ map' = map
      /\ phase' = "ready" /\ next' = next /\ next \notin DOMAIN map
      /\ MarkUsed(Bitmap \cup PageZero)
  BY DEF IInv, CarveRest
<1>2. /\ used' \in SUBSET Pages /\ count' = Cardinality(used') /\ count' \in 0..TotalPages(map)
  <2>1. Bitmap \cup PageZero \in SUBSET Pages
    BY RangesArePages
  <2> QED BY <1>1, <2>1, MarkUsedCounts, Zenon
<1>3. hint' = 0 /\ UNCHANGED <<held, refused, panicked>>
  BY <1>1 DEF CarveRest, Carved
<1>4. /\ used' \in (SUBSET Pages)' /\ count' \in (0..TotalPages(map))'
      /\ hint' \in (0..TotalPages(map))'
      /\ CountExact' /\ HintSound' /\ FramesApart' /\ OutOfMemoryIsTrue'
      /\ held' = [c \in Callers |-> {}] /\ refused' = 0
  BY <1>1, <1>2, <1>3, BootKeeps
<1>5. Len(map) \in Nat /\ DOMAIN map = 1..Len(map) /\ next = Len(map) + 1
  <2>1. Len(map) \in Nat /\ DOMAIN map = 1..Len(map) /\ next \in 1..(Len(map) + 1)
    BY <1>1, MemoryAssumption DEF TypeOK
  <2> QED BY <2>1, <1>1
<1>6. TypeOK'
  BY <1>1, <1>3, <1>4, <1>5, Zenon DEF TypeOK
<1>7. Reserved \subseteq used'
  <2>1. Bitmap \cup PageZero \subseteq used' /\ used \subseteq used'
    BY <1>1 DEF MarkUsed
  <2>2. \A j \in DOMAIN map : j < next
    BY <1>5
  <2>3. \A j \in DOMAIN map : map[j].kind \in InPlace => Region(j) \subseteq used
    BY <2>2, <1>1 DEF Carved
  <2> QED BY <2>1, <2>3 DEF Reserved
<1>8. Carved'
  BY <1>1, <1>7, MapFixed DEF Carved
<1> QED BY <1>4, <1>6, <1>8 DEF IInv

\* A call leaves boot's work alone.
LEMMA CallKeepsCarved ==
    ASSUME IInv, Running, map' = map, phase' = phase, Reserved \subseteq used'
    PROVE  Carved'
<1>1. phase' = "ready" /\ Reserved' = Reserved
  BY MapFixed DEF Running
<1> QED BY <1>1 DEF Carved

\* An ENOMEM of n pages when there is no run of n free pages.
LEMMA RefuseInv ==
    ASSUME IInv, Running, NEW n \in 1..MaxRun, \A i \in Pages : ~IsRun(i, n), Refuse(n)
    PROVE  IInv'
<1>1. /\ map' = map /\ phase' = phase /\ next' = next /\ used' = used /\ count' = count
      /\ hint' = hint /\ held' = held /\ panicked' = panicked /\ refused' = n
  BY DEF Refuse
<1>2. TypeOK'
  <2>1. refused' \in 0..MaxRun
    BY <1>1, MemoryAssumption
  <2>2. Pages' = Pages
    BY <1>1, MapFixed
  <2> QED BY <1>1, <2>1, <2>2, Zenon DEF IInv, TypeOK
<1>3. CountExact' /\ HintSound'
  BY <1>1, MapFixed DEF IInv, CountExact, HintSound
<1>4. Carved'
  <2>1. Reserved \subseteq used'
    BY <1>1 DEF IInv, Carved, Running
  <2> QED BY <1>1, <2>1, CallKeepsCarved
<1>5. FramesApart'
  BY <1>1, MapFixed, Zenon DEF IInv, FramesApart
<1>6. OutOfMemoryIsTrue'
  BY <1>1, MapFixed DEF OutOfMemoryIsTrue, IsRun, Free
<1> QED BY <1>2, <1>3, <1>4, <1>5, <1>6 DEF IInv

\* Giving free pages S to c keeps what concerns the owners.
LEMMA GivenApart ==
    ASSUME IInv, Running, NEW c \in Callers, NEW S \in SUBSET Free,
           used' = used \cup S, Given(c, S)
    PROVE  /\ held' \in [Callers -> SUBSET Pages] /\ FramesApart' /\ Carved'
           /\ OutOfMemoryIsTrue' /\ map' = map /\ phase' = phase /\ next' = next
           /\ refused' = 0 /\ panicked' = panicked
<1>1. /\ map' = map /\ phase' = phase /\ next' = next /\ panicked' = panicked /\ refused' = 0
      /\ held' = [held EXCEPT ![c] = @ \cup S]
  BY DEF Given
<1>2. S \subseteq Pages /\ S \cap used = {}
  BY DEF Free
<1>3. held \in [Callers -> SUBSET Pages] /\ Reserved \subseteq used /\ FramesApart
  BY DEF IInv, TypeOK, Carved, Running
<1>4. held' \in [Callers -> SUBSET Pages]
  BY <1>1, <1>2, <1>3
<1>5. FramesApart'
  <2>1. \A d \in Callers : held'[d] = IF d = c THEN held[c] \cup S ELSE held[d]
    BY <1>1, <1>3
  <2>2. \A d \in Callers : held'[d] \subseteq used' /\ held'[d] \cap Reserved = {}
    BY <2>1, <1>2, <1>3, Zenon DEF FramesApart
  <2>3. ASSUME NEW d \in Callers, NEW e \in Callers \ {d} PROVE held'[d] \cap held'[e] = {}
    BY <2>1, <1>2, <1>3, Zenon DEF FramesApart
  <2>4. ~panicked'
    BY <1>1, <1>3 DEF FramesApart
  <2>5. Reserved' = Reserved
    BY <1>1, MapFixed
  <2> QED BY <2>2, <2>3, <2>4, <2>5 DEF FramesApart
<1>6. Carved'
  BY <1>1, <1>3, CallKeepsCarved
<1>7. OutOfMemoryIsTrue'
  BY <1>1 DEF OutOfMemoryIsTrue
<1> QED BY <1>1, <1>4, <1>5, <1>6, <1>7

\* Nothing is free for the two attempts only if nothing is free, and what the
\* attempts find is the lowest free page.
LEMMA AttemptsComplete ==
    ASSUME IInv
    PROVE  /\ FromHint \cup BelowHint = {} => Free = {}
           /\ Free = FromHint /\ BelowHint = {}
<1>1. hint \in Nat /\ (hint \div WordBits) * WordBits <= hint
  BY PagesFinite, WordBegins DEF IInv, TypeOK
<1>2. \A i \in Free : i \in Nat /\ i >= hint
  <2>1. Free \subseteq Pages /\ Pages \subseteq Nat
    BY PagesFinite DEF Free, Pages, IInv, TypeOK
  <2> QED BY <1>1, <2>1 DEF IInv, HintSound, Free
<1>3. (hint \div WordBits) * WordBits \in Nat
  BY <1>1, MemoryAssumption
<1>4. \A i \in Free : i >= (hint \div WordBits) * WordBits
  BY <1>1, <1>2, <1>3
<1>5. Free = FromHint
  BY <1>4 DEF FromHint
<1>6. BelowHint = {}
  BY <1>1, <1>2 DEF BelowHint
<1> QED BY <1>5, <1>6

\* allocate_page: the page it gives was free, and nothing below it is.
LEMMA AllocatePageInv == ASSUME IInv, NEW c \in Callers, AllocatePage(c) PROVE IInv'
<1>0. Running /\ TypeOK /\ CountExact /\ HintSound /\ TotalPages(map) \in Nat
  BY PagesFinite, Zenon DEF AllocatePage, IInv, TypeOK
<1>1. CASE FromHint \cup BelowHint = {}
  <2>1. Free = {}
    BY <1>1, AttemptsComplete
  <2>2. \A i \in Pages : ~IsRun(i, 1)
    <3>1. \A i \in Pages : i \in Int /\ i \in i..(i + 1 - 1)
      BY <1>0 DEF Pages
    <3> QED BY <2>1, <3>1 DEF IsRun
  <2>3. Refuse(1)
    BY <1>1 DEF AllocatePage
  <2>4. CASE 1 \in 1..MaxRun
    BY <1>0, <2>2, <2>3, <2>4, RefuseInv
  <2>5. 1 \in 1..MaxRun
    BY MemoryAssumption
  <2> QED BY <2>4, <2>5
<1>2. CASE FromHint \cup BelowHint # {}
  <2>1. PICK i \in FromHint : /\ \A j \in FromHint : i <= j
                              /\ used' = used \cup {i}
                              /\ count' = count + 1
                              /\ hint' = i + 1
                              /\ Given(c, {i})
    BY <1>2, AttemptsComplete, Zenon DEF AllocatePage
  <2>2. i \in Free /\ (\A j \in Free : i <= j) /\ {i} \in SUBSET Free
    BY <2>1, AttemptsComplete
  <2>3. i \in Pages /\ i \notin used /\ i \in 0..(TotalPages(map) - 1)
    BY <2>2 DEF Free, Pages
  <2>4. /\ held' \in [Callers -> SUBSET Pages] /\ FramesApart' /\ Carved'
        /\ OutOfMemoryIsTrue' /\ map' = map /\ phase' = phase /\ next' = next
        /\ refused' = 0 /\ panicked' = panicked
    BY <1>0, <2>1, <2>2, GivenApart, Zenon
  <2>5. used' \in SUBSET Pages /\ count' = Cardinality(used') /\ count' \in 0..TotalPages(map)
    <3>1. used' \in SUBSET Pages
      BY <1>0, <2>1, <2>3 DEF TypeOK
    <3>2. IsFiniteSet(used)
      BY <1>0, CountInRange DEF TypeOK
    <3>3. Cardinality(used \cup {i}) = Cardinality(used) + 1
      BY <3>2, <2>3, FS_AddElement, Zenon
    <3>4. Cardinality(used') \in 0..TotalPages(map)
      BY <1>0, <3>1, CountInRange DEF TypeOK
    <3> QED BY <1>0, <2>1, <3>1, <3>3, <3>4, Zenon DEF CountExact
  <2>6. Pages' = Pages /\ hint' \in 0..TotalPages(map) /\ refused' \in 0..MaxRun
    BY <1>0, <2>1, <2>3, <2>4, MapFixed, MemoryAssumption
  <2>7. TypeOK'
    BY <1>0, <2>4, <2>5, <2>6, Zenon DEF TypeOK
  <2>8. CountExact'
    BY <2>5 DEF CountExact
  <2>9. HintSound'
    <3> SUFFICES ASSUME NEW j \in Pages, j < i + 1 PROVE j \in used \cup {i}
      BY <2>1, <2>6 DEF HintSound
    <3>1. CASE j = i
      BY <3>1
    <3>2. CASE j # i
      <4>1. ~(i <= j)
        BY <1>0, <2>3, <3>2 DEF Pages
      <4>2. j \notin Free
        BY <2>2, <4>1
      <4> QED BY <4>2 DEF Free
    <3> QED BY <3>1, <3>2
  <2> QED BY <2>4, <2>7, <2>8, <2>9 DEF IInv
<1> QED BY <1>1, <1>2

\* allocate_contiguous: the run it gives was free; the hint stays.
LEMMA AllocateContiguousInv ==
    ASSUME IInv, NEW c \in Callers, NEW n \in 1..MaxRun, AllocateContiguous(c, n)
    PROVE  IInv'
<1>0. Running /\ TypeOK /\ CountExact /\ HintSound /\ TotalPages(map) \in Nat
  BY PagesFinite, Zenon DEF AllocateContiguous, IInv, TypeOK
<1>1. CASE \A i \in Pages : ~IsRun(i, n)
  <2>1. Refuse(n)
    BY <1>1 DEF AllocateContiguous
  <2> QED BY <1>0, <1>1, <2>1, RefuseInv
<1>2. CASE ~ \A i \in Pages : ~IsRun(i, n)
  <2>1. PICK i \in Pages : /\ IsRun(i, n)
                           /\ MarkUsed(i..(i + n - 1))
                           /\ UNCHANGED hint
                           /\ Given(c, i..(i + n - 1))
    BY <1>2 DEF AllocateContiguous
  <2>2. i..(i + n - 1) \in SUBSET Free /\ i..(i + n - 1) \in SUBSET Pages
    BY <2>1 DEF IsRun, Free
  <2>3. used' = used \cup (i..(i + n - 1))
    BY <2>1 DEF MarkUsed
  <2>4. /\ held' \in [Callers -> SUBSET Pages] /\ FramesApart' /\ Carved'
        /\ OutOfMemoryIsTrue' /\ map' = map /\ phase' = phase /\ next' = next
        /\ refused' = 0 /\ panicked' = panicked
    BY <1>0, <2>1, <2>2, <2>3, GivenApart, Zenon
  <2>5. used' \in SUBSET Pages /\ count' = Cardinality(used') /\ count' \in 0..TotalPages(map)
    BY <1>0, <2>1, <2>2, MarkUsedCounts, Zenon
  <2>6. Pages' = Pages /\ refused' \in 0..MaxRun
    BY <2>4, MapFixed, MemoryAssumption
  <2>7. TypeOK'
    BY <1>0, <2>1, <2>4, <2>5, <2>6, Zenon DEF TypeOK
  <2>8. CountExact' /\ HintSound'
    BY <1>0, <2>1, <2>3, <2>5, <2>6, Zenon DEF CountExact, HintSound
  <2> QED BY <2>4, <2>7, <2>8 DEF IInv
<1> QED BY <1>1, <1>2

\* free_contiguous of pages the caller holds: it does not panic, and lowers
\* the hint to what it frees.
LEMMA FreeContiguousInv ==
    ASSUME IInv, NEW c \in Callers, NEW n \in 1..MaxRun, NEW first \in Pages,
           FreeContiguous(c, first, n)
    PROVE  IInv'
<1> DEFINE S == first..(first + n - 1)
<1>0. /\ Running /\ TypeOK /\ CountExact /\ HintSound /\ FramesApart /\ TotalPages(map) \in Nat
      /\ first \in Nat /\ n \in Nat /\ n > 0
  BY PagesFinite, MemoryAssumption, SMTT(60) DEF FreeContiguous, IInv, TypeOK, Pages
<1>1. S \subseteq held[c]
  BY Zenon DEF FreeContiguous
<1>2. S \subseteq used /\ S \cap Reserved = {} /\ \A d \in Callers \ {c} : S \cap held[d] = {}
  BY <1>0, <1>1, Zenon DEF FramesApart
<1>3. /\ used' = used \ S
      /\ count' = count - n
      /\ hint' = IF first < hint THEN first ELSE hint
      /\ held' = [held EXCEPT ![c] = @ \ S]
      /\ refused' = 0
      /\ map' = map /\ phase' = phase /\ next' = next /\ panicked' = panicked
  BY <1>2, Zenon DEF FreeContiguous
<1>4. Pages' = Pages /\ Reserved' = Reserved
  BY <1>3, MapFixed
<1>5. used' \in SUBSET Pages /\ count' = Cardinality(used') /\ count' \in 0..TotalPages(map)
  <2>1. Cardinality(S) = n
    <3>1. first \in Int /\ first + n - 1 \in Int /\ ~(first > first + n - 1)
      BY <1>0
    <3>2. Cardinality(S) = first + n - 1 - first + 1
      BY <3>1, FS_Interval
    <3> QED BY <1>0, <3>2
  <2>2. S \cap used = S
    BY <1>2, Zenon
  <2>3. IsFiniteSet(used)
    BY <1>0, CountInRange, Zenon DEF TypeOK
  <2>4. Cardinality(used \ S) = Cardinality(used) - n
    <3> HIDE DEF S
    <3>1. Cardinality(used \ S) = Cardinality(used) - Cardinality(S \cap used)
      BY <2>3, CountAfterFree, Zenon
    <3> QED BY <3>1, <2>1, <2>2
  <2>5. used' \in SUBSET Pages
    BY <1>0, <1>3, Zenon DEF TypeOK
  <2>6. Cardinality(used') \in 0..TotalPages(map)
    BY <1>0, <2>5, CountInRange, Zenon DEF TypeOK
  <2> QED BY <1>0, <1>3, <2>4, <2>5, <2>6, Zenon DEF CountExact
<1>6. TypeOK'
  <2>1. hint' \in 0..TotalPages(map)
    BY <1>0, <1>3, SMTT(60) DEF TypeOK
  <2>2. held' \in [Callers -> SUBSET Pages]
    BY <1>0, <1>3, Zenon DEF TypeOK
  <2>3. refused' \in 0..MaxRun
    BY <1>3, MemoryAssumption
  <2> QED BY <1>0, <1>3, <1>4, <1>5, <2>1, <2>2, <2>3, Zenon DEF TypeOK
<1>7. CountExact'
  BY <1>5 DEF CountExact
<1>8. HintSound'
  <2> SUFFICES ASSUME NEW j \in Pages, j < hint' PROVE j \in used \ S
    BY <1>3, <1>4, Zenon DEF HintSound
  <2>1. j \in Nat /\ hint \in Nat
    BY <1>0 DEF Pages, TypeOK
  <2>2. j < hint /\ j < first
    BY <1>0, <1>3, <2>1
  <2>3. j \in used
    BY <1>0, <2>2 DEF HintSound
  <2>4. j \notin S
    BY <1>0, <2>1, <2>2
  <2> QED BY <2>3, <2>4
<1>9. FramesApart'
  <2>1. \A d \in Callers : held'[d] = IF d = c THEN held[c] \ S ELSE held[d]
    BY <1>0, <1>3, Zenon DEF TypeOK
  <2>2. \A d \in Callers : held'[d] \subseteq used' /\ held'[d] \cap Reserved = {}
    BY <1>0, <1>2, <1>3, <2>1, SMTT(60) DEF FramesApart
  <2>3. ASSUME NEW d \in Callers, NEW e \in Callers \ {d} PROVE held'[d] \cap held'[e] = {}
    BY <1>0, <2>1, Zenon DEF FramesApart
  <2>4. ~panicked'
    BY <1>0, <1>3, Zenon DEF FramesApart
  <2> QED BY <1>4, <2>2, <2>3, <2>4, Zenon DEF FramesApart
<1>10. Carved'
  <2>1. Reserved \subseteq used'
    BY <1>2, <1>3, <1>0, Zenon DEF IInv, Carved, Running
  <2> QED BY <1>0, <1>3, <2>1, CallKeepsCarved, Zenon
<1>11. OutOfMemoryIsTrue'
  BY <1>3 DEF OutOfMemoryIsTrue
<1> QED BY <1>6, <1>7, <1>8, <1>9, <1>10, <1>11 DEF IInv

\* Every step keeps the invariant.
LEMMA NextInv == IInv /\ [Next]_vars => IInv'
<1> SUFFICES ASSUME IInv, [Next]_vars PROVE IInv'
  OBVIOUS
<1>1. CASE FreeRegion
  BY <1>1, FreeRegionInv
<1>2. CASE FreeDone
  BY <1>2, FreeDoneInv
<1>3. CASE CarveRegion
  BY <1>3, CarveRegionInv
<1>4. CASE CarveRest
  BY <1>4, CarveRestInv
<1>5. ASSUME NEW c \in Callers, AllocatePage(c) PROVE IInv'
  BY <1>5, AllocatePageInv
<1>6. ASSUME NEW c \in Callers, NEW n \in 1..MaxRun, AllocateContiguous(c, n) PROVE IInv'
  BY <1>6, AllocateContiguousInv
<1>7. ASSUME NEW c \in Callers, NEW n \in 1..MaxRun, NEW first \in Pages,
             FreeContiguous(c, first, n)
      PROVE  IInv'
  BY <1>7, FreeContiguousInv
<1>8. CASE UNCHANGED vars
  <2>1. /\ map' = map /\ phase' = phase /\ next' = next /\ used' = used /\ count' = count
        /\ hint' = hint /\ held' = held /\ refused' = refused /\ panicked' = panicked
    BY <1>8 DEF vars
  <2>2. Pages' = Pages /\ Reserved' = Reserved /\ \A i : Region(i)' = Region(i)
    BY <2>1, MapFixed
  <2>3. TypeOK'
    BY <2>1, <2>2, Zenon DEF IInv, TypeOK
  <2>4. CountExact' /\ HintSound' /\ Carved'
    BY <2>1, <2>2, Zenon DEF IInv, CountExact, HintSound, Carved
  <2>5. FramesApart'
    BY <2>1, <2>2, Zenon DEF IInv, FramesApart
  <2>6. OutOfMemoryIsTrue'
    BY <2>1, <2>2, Zenon DEF IInv, OutOfMemoryIsTrue, IsRun, Free
  <2> QED BY <2>3, <2>4, <2>5, <2>6 DEF IInv
<1> QED BY <1>1, <1>2, <1>3, <1>4, <1>5, <1>6, <1>7, <1>8, Zenon DEF Next

\* The invariant holds from boot on.
LEMMA InvHolds == Spec => []IInv
BY InitInv, NextInv, PTL DEF Spec

\* The bitmap, the count and the hint of physical.cpp keep their types.
THEOREM MemoryTyped == Spec => []TypeOK
<1>1. IInv => TypeOK
  BY DEF IInv
<1> QED BY <1>1, InvHolds, PTL

\* used_pages() and free_pages() agree with the bitmap, for every memory map
\* boot can be given and every sequence of calls.
THEOREM CountCorrect == Spec => []CountExact
<1>1. IInv => CountExact
  BY DEF IInv
<1> QED BY <1>1, InvHolds, PTL

\* No frame is handed out twice, none of the reserved ones is handed out at
\* all, and a caller that frees what it holds does not panic.
THEOREM FramesStayApart == Spec => []FramesApart
<1>1. IInv => FramesApart
  BY DEF IInv
<1> QED BY <1>1, InvHolds, PTL

\* allocate_page and allocate_contiguous refuse only what is not there.
THEOREM RefusalsTrue == Spec => []OutOfMemoryIsTrue
<1>1. IInv => OutOfMemoryIsTrue
  BY DEF IInv
<1> QED BY <1>1, InvHolds, PTL

\* The count and ENOMEM both tell the truth about free memory.
THEOREM ReportsCorrect == Spec => []ReportsTrue
BY CountCorrect, RefusalsTrue, PTL DEF ReportsTrue

\* The search hint never makes allocate_page pass over a free frame.
THEOREM HintIsHarmless == Spec => FirstFit
<1> DEFINE A == \A p \in Pages, c \in Callers :
                  held'[c] = held[c] \cup {p} /\ p \notin held[c] => \A i \in Free : p <= i
<1>1. IInv /\ [Next]_vars => [A]_vars
  <2> SUFFICES ASSUME IInv, Next, NEW p \in Pages, NEW c \in Callers,
                      held'[c] = held[c] \cup {p}, p \notin held[c],
                      NEW f \in Free
               PROVE  p <= f
    BY Zenon DEF vars
  <2>0. held \in [Callers -> SUBSET Pages]
    BY Zenon DEF IInv, TypeOK
  <2>1. CASE FreeRegion \/ FreeDone \/ CarveRegion \/ CarveRest
    BY <2>1, Zenon DEF FreeRegion, FreeDone, CarveRegion, CarveRest
  <2>2. ASSUME NEW d \in Callers, AllocatePage(d) PROVE p <= f
    <3>1. CASE FromHint \cup BelowHint = {}
      BY <2>2, <3>1, Zenon DEF AllocatePage, Refuse
    <3>2. CASE FromHint \cup BelowHint # {}
      <4>1. PICK i \in FromHint : (\A j \in FromHint : i <= j) /\ Given(d, {i})
        BY <2>2, <3>2, AttemptsComplete, Zenon DEF AllocatePage
      <4>2. held'[c] = IF c = d THEN held[c] \cup {i} ELSE held[c]
        BY <2>0, <4>1 DEF Given
      <4>3. p = i
        BY <4>2
      <4> QED BY <4>1, <4>3, AttemptsComplete
    <3> QED BY <3>1, <3>2, Zenon
  <2>3. ASSUME NEW d \in Callers, NEW n \in 1..MaxRun, AllocateContiguous(d, n) PROVE p <= f
    <3>1. CASE \A i \in Pages : ~IsRun(i, n)
      BY <2>3, <3>1 DEF AllocateContiguous, Refuse
    <3>2. CASE ~ \A i \in Pages : ~IsRun(i, n)
      <4>1. PICK i \in Pages : IsRun(i, n) /\ Given(d, i..(i + n - 1))
        BY <2>3, <3>2 DEF AllocateContiguous
      <4>2. held'[c] = IF c = d THEN held[c] \cup (i..(i + n - 1)) ELSE held[c]
        BY <2>0, <4>1 DEF Given
      <4>3. i \in Nat /\ n \in Nat /\ n > 1
        BY <2>3, PagesFinite, MemoryAssumption, SMTT(60) DEF AllocateContiguous, Pages, IInv, TypeOK
      <4>4. i \in i..(i + n - 1) /\ i + 1 \in i..(i + n - 1) /\ i # i + 1
        BY <4>3
      <4>5. i \notin held[c] /\ i + 1 \notin held[c]
        BY <4>1, <4>4, Zenon DEF IsRun, Free, IInv, FramesApart
      <4> QED BY <4>2, <4>4, <4>5
    <3> QED BY <3>1, <3>2
  <2>4. ASSUME NEW d \in Callers, NEW n \in 1..MaxRun, NEW first \in Pages,
               FreeContiguous(d, first, n)
        PROVE  p <= f
    <3>1. held' = held \/ held' = [held EXCEPT ![d] = @ \ (first..(first + n - 1))]
      BY <2>4 DEF FreeContiguous
    <3>2. held'[c] \subseteq held[c]
      BY <2>0, <3>1
    <3> QED BY <3>2
  <2> QED BY <2>1, <2>2, <2>3, <2>4, Zenon DEF Next
<1> QED BY <1>1, InvHolds, PTL DEF Spec, FirstFit
=============================================================================
