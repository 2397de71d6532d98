-------------------------------- MODULE Heap ---------------------------------
(***************************************************************************)
(* kernel/mm/heap.cpp: size-class slabs, whole-page allocations and the    *)
(* page-aligned allocations recorded on the side.  Addresses are bytes; an *)
(* allocation is named by the address of its header.  A step is one        *)
(* critical section, so krealloc, kmalloc_aligned and kfree_aligned take   *)
(* several and other tasks run in between.                                 *)
(*                                                                         *)
(* s_allocation_count and s_free_count only ever grow; the model keeps     *)
(* their difference.  kzalloc is kmalloc as far as this state goes.        *)
(***************************************************************************)
EXTENDS Naturals, Sequences, FiniteSets, FiniteSetsExt, TLC

CONSTANTS
    PageSize, HeaderSize,
    SizeClasses,   \* chunk sizes, header included, smallest first
    RecordSize,    \* sizeof(AlignedAllocation)
    Buckets,       \* ALIGNED_BUCKETS
    Pages,         \* the page frames there are: 1..n
    Tasks,
    Sizes,         \* the sizes asked for
    MaxBlocks      \* bound on the allocations alive at once

VARIABLES
    heap,      \* [lists, blocks, frames, inUse, reserved, outstanding]
    aligned,   \* s_aligned_buckets: bucket -> list of records, newest first
    job        \* what each task is in the middle of

hvars == <<heap, aligned, job>>

Null == 0
Large == 0
Idle == [at |-> "idle"]

class_for(size) ==
    LET fits == {i \in DOMAIN SizeClasses : size + HeaderSize <= SizeClasses[i]}
    IN  IF fits = {} THEN Large ELSE Min(fits)

div_round_up(n, d) == (n + d - 1) \div d
bucket_of(page) == page % Buckets

\* The physical allocator's contract: the lowest run of free frames.
Runs(h, n) == {f \in h.frames : f..(f + n - 1) \subseteq h.frames}

\* A bug: the loop that carves a page takes one chunk too many.
CarveOneMore(page, c) ==
    LET n == PageSize \div SizeClasses[c] + 1
    IN  [i \in 1..n |-> page * PageSize + (n - i) * SizeClasses[c]]

\* The chunks of a page, the last one carved at the head of the list.
Carve(page, c) ==
    LET n == PageSize \div SizeClasses[c]
    IN  [i \in 1..n |-> page * PageSize + (n - i) * SizeClasses[c]]

\* A bug: the page carved is not counted as reserved.
refill_uncounted(h, c) ==
    LET page == Min(h.frames)
    IN  [h EXCEPT !.frames = @ \ {page}, !.lists[c] = Carve(page, c) \o @]

refill_class(h, c) ==
    LET page == Min(h.frames)
    IN  [h EXCEPT !.frames = @ \ {page}, !.lists[c] = Carve(page, c) \o @,
                  !.reserved = @ + PageSize]

Enter(h, a, c, size, t) ==
    [h EXCEPT !.blocks = @ @@ (a :> [class |-> c, size |-> size, owner |-> t]),
              !.inUse = @ + size, !.outstanding = @ + 1]

\* What kmalloc leaves behind and returns.
Malloc(h, t, size) ==
    LET c == class_for(size)
        n == div_round_up(size + HeaderSize, PageSize)
        f == Min(Runs(h, n))
        r == IF h.lists[c] = <<>> THEN refill_class(h, c) ELSE h
        a == Head(r.lists[c])
    IN  IF c = Large
        THEN IF Runs(h, n) = {} THEN [h |-> h, p |-> Null]
             ELSE [h |-> [Enter(h, f * PageSize, Large, size, t) EXCEPT
                             !.frames = @ \ (f..(f + n - 1)),
                             !.reserved = @ + n * PageSize],
                   p |-> f * PageSize]
        ELSE IF h.lists[c] = <<>> /\ h.frames = {} THEN [h |-> h, p |-> Null]
             ELSE [h |-> [Enter(r, a, c, size, t) EXCEPT !.lists[c] = Tail(@)], p |-> a]

\* What kfree leaves behind.  The slab page is not given back.
Free(h, a) ==
    LET b == h.blocks[a]
        n == div_round_up(b.size + HeaderSize, PageSize)
        gone == [h EXCEPT !.blocks = [x \in DOMAIN @ \ {a} |-> @[x]],
                          !.inUse = @ - b.size, !.outstanding = @ - 1]
    IN  IF b.class = Large
        THEN [gone EXCEPT !.reserved = @ - n * PageSize,
                          !.frames = @ \cup (a \div PageSize)..(a \div PageSize + n - 1)]
        ELSE [gone EXCEPT !.lists[b.class] = <<a>> \o @]

heap_initialize ==
    /\ heap = [lists |-> [c \in DOMAIN SizeClasses |-> <<>>], blocks |-> <<>>,
               frames |-> Pages, inUse |-> 0, reserved |-> 0, outstanding |-> 0]
    /\ aligned = [b \in 0..(Buckets - 1) |-> <<>>]
    /\ job = [t \in Tasks |-> Idle]

Mine(t) == {a \in DOMAIN heap.blocks : heap.blocks[a].owner = t}
Records == UNION {{aligned[b][i] : i \in DOMAIN aligned[b]} : b \in DOMAIN aligned}
Room == Cardinality(DOMAIN heap.blocks) < MaxBlocks

kmalloc(t) ==
    /\ job[t] = Idle /\ Room
    /\ \E size \in Sizes : heap' = Malloc(heap, t, size).h
    /\ UNCHANGED <<aligned, job>>

kfree(t) ==
    /\ job[t] = Idle
    /\ \E a \in Mine(t) : heap' = Free(heap, a)
    /\ UNCHANGED <<aligned, job>>

\* krealloc to a larger size; the copy and the kfree come in a later step.
krealloc(t) ==
    /\ job[t] = Idle /\ Room
    /\ \E a \in Mine(t), size \in Sizes :
         LET m == Malloc(heap, t, size) IN
         /\ size > heap.blocks[a].size
         /\ heap' = m.h
         /\ job' = [job EXCEPT ![t] = IF m.p = Null THEN Idle ELSE [at |-> "copied", old |-> a]]
    /\ UNCHANGED aligned

krealloc_free(t) ==
    /\ job[t].at = "copied"
    /\ heap' = Free(heap, job[t].old)
    /\ job' = [job EXCEPT ![t] = Idle]
    /\ UNCHANGED aligned

\* kmalloc_aligned: frames first, then a record, then the list.
kmalloc_aligned(t) ==
    /\ job[t] = Idle /\ Room
    /\ \E size \in Sizes :
         LET n == div_round_up(size, PageSize)
             f == Min(Runs(heap, n)) IN
         /\ Runs(heap, n) # {}
         /\ heap' = [heap EXCEPT !.frames = @ \ (f..(f + n - 1))]
         /\ job' = [job EXCEPT ![t] = [at |-> "frames", page |-> f, pages |-> n]]
    /\ UNCHANGED aligned

kmalloc_aligned_record(t) ==
    /\ job[t].at = "frames"
    /\ LET m == Malloc(heap, "aligned", RecordSize) IN
         /\ heap' = m.h
         /\ job' = [job EXCEPT ![t] = IF m.p = Null
                                      THEN [@ EXCEPT !.at = "undo"]
                                      ELSE [at |-> "record", page |-> @.page,
                                            pages |-> @.pages, record |-> m.p]]
    /\ UNCHANGED aligned

kmalloc_aligned_undo(t) ==
    /\ job[t].at = "undo"
    /\ heap' = [heap EXCEPT !.frames = @ \cup job[t].page..(job[t].page + job[t].pages - 1)]
    /\ job' = [job EXCEPT ![t] = Idle]
    /\ UNCHANGED aligned

kmalloc_aligned_link(t) ==
    /\ job[t].at = "record"
    /\ LET r == [page |-> job[t].page, pages |-> job[t].pages,
                 record |-> job[t].record, owner |-> t] IN
         /\ aligned' = [aligned EXCEPT ![bucket_of(r.page)] = <<r>> \o @]
         /\ heap' = [heap EXCEPT !.inUse = @ + r.pages * PageSize,
                                 !.reserved = @ + r.pages * PageSize]
    /\ job' = [job EXCEPT ![t] = Idle]

\* kfree_aligned: off the list, then the frames, then the record.
kfree_aligned(t) ==
    /\ job[t] = Idle
    /\ \E r \in {x \in Records : x.owner = t} :
         /\ aligned' = [aligned EXCEPT ![bucket_of(r.page)] =
                           SelectSeq(@, LAMBDA x : x.page # r.page)]
         /\ heap' = [heap EXCEPT !.inUse = @ - r.pages * PageSize,
                                 !.reserved = @ - r.pages * PageSize]
         /\ job' = [job EXCEPT ![t] = [at |-> "unlinked", page |-> r.page,
                                       pages |-> r.pages, record |-> r.record]]

kfree_aligned_frames(t) ==
    /\ job[t].at = "unlinked"
    /\ heap' = [heap EXCEPT !.frames = @ \cup job[t].page..(job[t].page + job[t].pages - 1)]
    /\ job' = [job EXCEPT ![t] = [at |-> "copied", old |-> @.record]]
    /\ UNCHANGED aligned

HInit == heap_initialize

HNext ==
    \E t \in Tasks :
        \/ kmalloc(t) \/ kfree(t)
        \/ krealloc(t) \/ krealloc_free(t)
        \/ kmalloc_aligned(t) \/ kmalloc_aligned_record(t)
        \/ kmalloc_aligned_undo(t) \/ kmalloc_aligned_link(t)
        \/ kfree_aligned(t) \/ kfree_aligned_frames(t)

-----------------------------------------------------------------------------

\* The byte ranges each owner holds, as [from, length] records.
PageRange(page, n) == [from |-> page * PageSize, length |-> n * PageSize]
LargeLength(size) == div_round_up(size + HeaderSize, PageSize) * PageSize
InFlight == {t \in Tasks : job[t].at \in {"frames", "undo", "record", "unlinked"}}
Holdings ==
    {<<"frame", f, PageRange(f, 1)>> : f \in heap.frames}
    \cup {<<"block", a, [from |-> a, length |->
             IF heap.blocks[a].class = Large THEN LargeLength(heap.blocks[a].size)
             ELSE SizeClasses[heap.blocks[a].class]]>> : a \in DOMAIN heap.blocks}
    \cup UNION {{<<"chunk", <<c, i>>,
                   [from |-> heap.lists[c][i], length |-> SizeClasses[c]]>> :
                 i \in DOMAIN heap.lists[c]} : c \in DOMAIN heap.lists}
    \cup {<<"aligned", r.page, PageRange(r.page, r.pages)>> : r \in Records}
    \cup {<<"job", t, PageRange(job[t].page, job[t].pages)>> : t \in InFlight}

Total(S, Of(_)) == FoldSet(LAMBDA x, n : Of(x) + n, 0, S)

(* Every byte of memory has exactly one owner: a free frame, a live        *)
(* allocation, a free chunk, an aligned allocation, or a task halfway      *)
(* through making or freeing one.  Nothing overlaps and nothing is lost.   *)
Partitioned ==
    /\ \A x, y \in Holdings : x # y =>
         \/ x[3].from + x[3].length <= y[3].from
         \/ y[3].from + y[3].length <= x[3].from
    /\ Total(Holdings, LAMBDA x : x[3].length) = PageSize * Cardinality(Pages)

(* The counters heap_stats reports are the sums over what is really there: *)
(* aligned allocations count from the moment they are on the list.         *)
StatsExact ==
    /\ heap.inUse = Total(DOMAIN heap.blocks, LAMBDA a : heap.blocks[a].size)
                    + PageSize * Total(Records, LAMBDA r : r.pages)
    /\ heap.reserved = PageSize * (Cardinality(Pages \ heap.frames)
                                   - Total(InFlight, LAMBDA t : job[t].pages))
    /\ heap.outstanding = Cardinality(DOMAIN heap.blocks)
=============================================================================
