--------------------------- MODULE PhysicalMemory ----------------------------
(***************************************************************************)
(* kernel/mm/physical.cpp: the bitmap over all page frames, how boot fills *)
(* it from the firmware's memory map, and the calls that hand out and take *)
(* back frames.  Addresses are bytes.  Each call is one critical section.  *)
(*                                                                         *)
(* The bitmap is the set of the pages whose bit is set.  A scan of it for  *)
(* the first clear bit, or the first run of clear bits, is a minimum.      *)
(* reserve_range has no callers and is left out.                           *)
(***************************************************************************)
EXTENDS Naturals, Sequences, FiniteSets, FiniteSetsExt

CONSTANTS
    PageSize,    \* PAGE_SIZE
    WordBits,    \* BITS_PER_WORD
    WordBytes,   \* sizeof(u64)
    LowMemory,   \* 0x100000, below which the bitmap is not placed
    Maps,        \* memory maps: sequences of [base, length, kind]
    Callers,     \* the heap, the address spaces, tmpfs
    MaxRun       \* bound on the pages asked for in one call

Kinds == {"Usable", "KernelImage", "BootModule", "Reserved"}

\* The byte ranges of a map, and what the loops over memory_regions compute.
RegionsOf(m, kinds) == {m[i] : i \in {j \in DOMAIN m : m[j].kind \in kinds}}
End(r) == r.base + r.length
TotalPages(m) ==
    (Max({0} \cup {End(r) : r \in RegionsOf(m, {"Usable"})}) + PageSize - 1) \div PageSize
BitmapBytes(m) == ((TotalPages(m) + WordBits - 1) \div WordBits) * WordBytes

RangeIsClear(m, base, length) ==
    /\ \A r \in RegionsOf(m, {"KernelImage", "BootModule"}) :
         ~(base < End(r) /\ r.base < base + length)
    /\ base >= LowMemory

\* The places for the bitmap in region i, in the order they are tried.
Candidates(m, i) ==
    {a \in {n * PageSize : n \in 0..TotalPages(m)} :
        /\ m[i].kind = "Usable"
        /\ a >= m[i].base
        /\ a + BitmapBytes(m) <= End(m[i])
        /\ RangeIsClear(m, a, BitmapBytes(m))}

\* physical_initialize panics when there is none.
HasRoom(m) == \E i \in DOMAIN m : Candidates(m, i) # {}
BitmapAt(m) ==
    LET i == Min({j \in DOMAIN m : Candidates(m, j) # {}}) IN Min(Candidates(m, i))

\* What TLAPS is not asked to derive: the sizes are natural numbers.
ASSUME MemoryAssumption ==
    /\ WordBits \in Nat \ {0}
    /\ MaxRun \in Nat \ {0}
    /\ \A m \in Maps : /\ m \in Seq([base : Nat, length : Nat, kind : Kinds])
                       /\ HasRoom(m)
                       /\ TotalPages(m) \in Nat

VARIABLES
    map,      \* the BootInfo
    phase,    \* of physical_initialize: "free" and "carve", then "ready"
    next,     \* the region the loop of this phase is at
    used,     \* s_bitmap
    count,    \* s_used_pages
    hint,     \* s_search_hint
    held,     \* the pages each caller was given and has not given back
    refused,  \* the pages the last call asked for in vain; 0 if it succeeded
    panicked  \* the panic of free_contiguous: "double free"

vars == <<map, phase, next, used, count, hint, held, refused, panicked>>

Pages == 0..(TotalPages(map) - 1)

TypeOK ==
    /\ map \in Maps
    /\ phase \in {"free", "carve", "ready"}
    /\ next \in 1..(Len(map) + 1)
    /\ used \in SUBSET Pages
    /\ count \in 0..TotalPages(map)
    /\ hint \in 0..TotalPages(map)
    /\ held \in [Callers -> SUBSET Pages]
    /\ refused \in 0..MaxRun
    /\ panicked \in BOOLEAN

-----------------------------------------------------------------------------
(* physical_initialize *)

\* apply_to_range: the pages [base, base + length) overlaps.
PagesIn(base, length) ==
    IF length = 0 THEN {}
    ELSE {i \in Pages : /\ i >= base \div PageSize
                        /\ i < (base + length + PageSize - 1) \div PageSize}

Region(i) == PagesIn(map[i].base, map[i].length)
InPlace == {"KernelImage", "BootModule"}
Bitmap == PagesIn(BitmapAt(map), BitmapBytes(map))
PageZero == PagesIn(0, PageSize)

\* Mutant: a page that was used already is counted again
MarkUsedAlways(pages) ==
    /\ used' = used \cup pages
    /\ count' = count + Cardinality(pages)

MarkUsed(pages) ==
    /\ used' = used \cup pages
    /\ count' = count + Cardinality(pages \ used)

MarkFree(pages) ==
    /\ used' = used \ pages
    /\ count' = count - Cardinality(pages \cap used)

Init ==
    /\ map \in Maps
    /\ phase = "free" /\ next = 1
    /\ used = Pages
    /\ count = TotalPages(map)
    /\ hint = 0
    /\ held = [c \in Callers |-> {}]
    /\ refused = 0
    /\ panicked = FALSE

FreeRegion ==
    /\ phase = "free" /\ next \in DOMAIN map
    /\ IF map[next].kind = "Usable" THEN MarkFree(Region(next)) ELSE UNCHANGED <<used, count>>
    /\ next' = next + 1
    /\ UNCHANGED <<map, phase, hint, held, refused, panicked>>

\* Mutant: the second pass over the regions does not start again
FreeDoneNoReset ==
    /\ phase = "free" /\ next \notin DOMAIN map
    /\ phase' = "carve"
    /\ UNCHANGED <<map, next, used, count, hint, held, refused, panicked>>

FreeDone ==
    /\ phase = "free" /\ next \notin DOMAIN map
    /\ phase' = "carve" /\ next' = 1
    /\ UNCHANGED <<map, used, count, hint, held, refused, panicked>>

CarveRegion ==
    /\ phase = "carve" /\ next \in DOMAIN map
    /\ IF map[next].kind \in InPlace THEN MarkUsed(Region(next)) ELSE UNCHANGED <<used, count>>
    /\ next' = next + 1
    /\ UNCHANGED <<map, phase, hint, held, refused, panicked>>

CarveRest ==
    /\ phase = "carve" /\ next \notin DOMAIN map
    /\ MarkUsed(Bitmap \cup PageZero)
    /\ phase' = "ready" /\ hint' = 0
    /\ UNCHANGED <<map, next, held, refused, panicked>>

-----------------------------------------------------------------------------
(* The calls *)

Free == Pages \ used

Running == phase = "ready" /\ ~panicked

\* The first attempt starts with the word the hint is in and the second looks
\* below the hint: the candidates of the first, if there are any.
FromHint == {i \in Free : i >= (hint \div WordBits) * WordBits}
BelowHint == {i \in Free : i < hint}

Given(c, pages) ==
    /\ held' = [held EXCEPT ![c] = @ \cup pages]
    /\ refused' = 0
    /\ UNCHANGED <<map, phase, next, panicked>>

Refuse(n) ==
    /\ refused' = n
    /\ UNCHANGED <<map, phase, next, used, count, hint, held, panicked>>

AllocatePage(c) ==
    /\ Running
    /\ IF FromHint \cup BelowHint = {} THEN Refuse(1)
       ELSE \E i \in IF FromHint # {} THEN FromHint ELSE BelowHint :
             /\ \A j \in IF FromHint # {} THEN FromHint ELSE BelowHint : i <= j
             /\ used' = used \cup {i}
             /\ count' = count + 1
             /\ hint' = i + 1
             /\ Given(c, {i})

\* A run of n clear bits that starts at i.
IsRun(i, n) == i + n <= TotalPages(map) /\ i..(i + n - 1) \subseteq Free

\* Mutant: a run at the very end of memory is not seen
AllocateContiguousShort(c, n) ==
    /\ Running
    /\ n > 1
    /\ IF \A i \in Pages : ~(IsRun(i, n) /\ i + n < TotalPages(map)) THEN Refuse(n)
       ELSE \E i \in Pages :
             /\ IsRun(i, n)
             /\ \A j \in Pages : IsRun(j, n) => i <= j
             /\ MarkUsed(i..(i + n - 1))
             /\ UNCHANGED hint
             /\ Given(c, i..(i + n - 1))

\* One page goes through allocate_page.
AllocateContiguous(c, n) ==
    /\ Running
    /\ n > 1
    /\ IF \A i \in Pages : ~IsRun(i, n) THEN Refuse(n)
       ELSE \E i \in Pages :
             /\ IsRun(i, n)
             /\ \A j \in Pages : IsRun(j, n) => i <= j
             /\ MarkUsed(i..(i + n - 1))
             /\ UNCHANGED hint
             /\ Given(c, i..(i + n - 1))

\* Mutant: the hint stays where it is
FreeStaleHint(c, first, n) ==
    /\ Running
    /\ first..(first + n - 1) \subseteq held[c]
    /\ used' = used \ (first..(first + n - 1))
    /\ count' = count - n
    /\ held' = [held EXCEPT ![c] = @ \ (first..(first + n - 1))]
    /\ refused' = 0
    /\ UNCHANGED <<map, phase, next, hint, panicked>>

\* Callers give back runs of what they hold.  A panic stops the machine, so
\* what it leaves behind is not modelled.
FreeContiguous(c, first, n) ==
    /\ Running
    /\ first..(first + n - 1) \subseteq held[c]
    /\ IF first..(first + n - 1) \subseteq used
       THEN /\ used' = used \ (first..(first + n - 1))
            /\ count' = count - n
            /\ hint' = IF first < hint THEN first ELSE hint
            /\ held' = [held EXCEPT ![c] = @ \ (first..(first + n - 1))]
            /\ refused' = 0
            /\ UNCHANGED <<map, phase, next, panicked>>
       ELSE /\ panicked' = TRUE
            /\ UNCHANGED <<map, phase, next, used, count, hint, held, refused>>

Next ==
    \/ FreeRegion \/ FreeDone \/ CarveRegion \/ CarveRest
    \/ \E c \in Callers :
        \/ AllocatePage(c)
        \/ \E n \in 1..MaxRun :
            \/ AllocateContiguous(c, n)
            \/ \E first \in Pages : FreeContiguous(c, first, n)

Spec == Init /\ [][Next]_vars

-----------------------------------------------------------------------------
\* used_pages() and free_pages() report what the bitmap says, although boot
\* frees and reserves ranges that overlap, and mark_used, mark_free and
\* free_contiguous each keep the count in their own way.
CountExact == count = Cardinality(used)

Reserved == Bitmap \cup PageZero
                \cup UNION {Region(i) : i \in {j \in DOMAIN map : map[j].kind \in InPlace}}

\* No frame has two owners, and no caller is given a frame of the kernel, of a
\* module, of the bitmap or page zero, before or after any frees; so a caller
\* that gives back what it was given never meets the double-free panic.
FramesApart ==
    /\ ~panicked
    /\ \A c \in Callers :
        /\ held[c] \subseteq used
        /\ held[c] \cap Reserved = {}
        /\ \A d \in Callers \ {c} : held[c] \cap held[d] = {}

\* ENOMEM is the truth: when allocate_page or allocate_contiguous has refused,
\* there is no run of that many free frames, wherever the hint stands.
OutOfMemoryIsTrue == refused > 0 => \A i \in Pages : ~IsRun(i, refused)

\* Together: what the allocator says of free memory, by its count or by ENOMEM,
\* is so.
ReportsTrue == CountExact /\ OutOfMemoryIsTrue

\* allocate_page starts at s_search_hint and not at zero, and still returns the
\* lowest free frame every time: nothing below the hint is ever free.
FirstFit ==
    [][\A p \in Pages, c \in Callers :
         held'[c] = held[c] \cup {p} /\ p \notin held[c] => \A i \in Free : p <= i]_vars
=============================================================================
