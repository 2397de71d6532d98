-------------------------------- MODULE Stdlib -------------------------------
(***************************************************************************)
(* malloc, free and realloc of the C library (user/libc/src/stdlib.c): a   *)
(* chain of all blocks in address order, and the free blocks again on      *)
(* size-class lists.  Sizes count units of ALIGNMENT.  sbrk may fail, and  *)
(* may leave a gap below what it returns when something else moved the     *)
(* break in between.                                                       *)
(*                                                                         *)
(* The environment of a program: getenv, setenv, unsetenv and putenv of    *)
(* user/libc/src/stdlib.c.  The array the kernel built on the stack is     *)
(* copied to the heap, strings included, by the first change.  Every       *)
(* allocation may fail: `ok' is how many more succeed in this call.        *)
(***************************************************************************)
EXTENDS Integers, Sequences, FiniteSets

CONSTANTS
    HeaderSize,  \* header_size(), in units
    MinGrowth,   \* MIN_GROWTH
    BinCount,    \* BIN_COUNT
    MinSplit,    \* smallest payload a split leaves (ALIGNMENT)
    Requests,    \* sizes asked for
    Limit,       \* end of the memory sbrk has
    MaxBlocks,   \* bound: blocks handed out at a time
    Names, Values,
    Inherited,      \* environments the kernel may have built: sequences of <<name, value>>
    Slack,          \* room beyond the inherited entries, 8 in the code
    MaxStrings      \* bound on strings ever allocated

VARIABLES
    mem,         \* [blocks: address -> block, tail, bins], the allocator's data
    brk,         \* the program break
    owned,       \* addresses of blocks handed out -> payload promised
    environ,        \* the entries in order: [name, value, string], string 0 on the stack
    taken,          \* s_environment is set
    capacity,       \* s_environment_capacity
    strings,        \* the heap strings that have not been freed
    fresh,          \* the next string to be allocated
    promised        \* name -> what getenv should answer, or "unset"

avars == <<mem, brk, owned>>

\* A block is [size, next, prev, free]; address 0 is the null pointer.
Blocks(m) == DOMAIN m.blocks
Insert(m, a, b) == [m EXCEPT !.blocks = [x \in Blocks(m) \cup {a} |-> IF x = a THEN b ELSE m.blocks[x]]]
Drop(m, a) == [m EXCEPT !.blocks = [x \in Blocks(m) \ {a} |-> m.blocks[x]]]
Adjust(m, a, field, v) == IF a = 0 THEN m ELSE [m EXCEPT !.blocks[a][field] = v]

MInit == mem = [blocks |-> <<>>, tail |-> 0, bins |-> [k \in 1..BinCount |-> <<>>]]
         /\ brk = 1 /\ owned = <<>>

\* Bin k holds payloads from 2^(k-1) to 2^k - 1 units, the last all above.
bin_index(size) ==
    CHOOSE k \in 1..BinCount :
        /\ size >= 2 ^ (k - 1) \/ k = 1
        /\ size < 2 ^ k \/ k = BinCount

bin_insert(m, a) == [m EXCEPT !.bins[bin_index(m.blocks[a].size)] = <<a>> \o @]
bin_remove(m, a) ==
    LET Others(x) == x # a
    IN  [m EXCEPT !.bins[bin_index(m.blocks[a].size)] = SelectSeq(@, Others)]

adjacent(m, a, b) == a + HeaderSize + m.blocks[a].size = b

\* A bug: the block behind keeps pointing back at the one swallowed.
AbsorbOneWay(m, a, after) ==
    LET grown == Adjust(Adjust(m, a, "size", m.blocks[a].size + HeaderSize + m.blocks[after].size),
                        a, "next", m.blocks[after].next)
        tailed == IF m.blocks[after].next = 0 THEN [grown EXCEPT !.tail = a] ELSE grown
    IN  Drop(tailed, after)

\* `a' swallows the block after it, which is off the lists.
Absorb(m, a, after) ==
    LET grown == Adjust(Adjust(m, a, "size", m.blocks[a].size + HeaderSize + m.blocks[after].size),
                        a, "next", m.blocks[after].next)
        linked == Adjust(grown, m.blocks[after].next, "prev", a)
        tailed == IF m.blocks[after].next = 0 THEN [linked EXCEPT !.tail = a] ELSE linked
    IN  Drop(tailed, after)

merge_with_next(m, a) ==
    LET after == m.blocks[a].next IN
    IF after = 0 \/ ~m.blocks[after].free \/ ~adjacent(m, a, after) THEN m
    ELSE Absorb(bin_remove(m, after), a, after)

\* A bug: the rest is put on a list before it is merged, by its old size.
split_early(m, a, wanted) ==
    IF m.blocks[a].size < wanted + HeaderSize + MinSplit THEN m
    ELSE LET b == m.blocks[a]
             rest == a + HeaderSize + wanted
             made == Insert(m, rest, [size |-> b.size - wanted - HeaderSize, next |-> b.next,
                                      prev |-> a, free |-> TRUE])
             linked == IF b.next = 0 THEN [made EXCEPT !.tail = rest]
                       ELSE Adjust(made, b.next, "prev", rest)
             cut == Adjust(Adjust(linked, a, "size", wanted), a, "next", rest)
         IN  merge_with_next(bin_insert(cut, rest), rest)

split(m, a, wanted) ==
    IF m.blocks[a].size < wanted + HeaderSize + MinSplit THEN m
    ELSE LET b == m.blocks[a]
             rest == a + HeaderSize + wanted
             made == Insert(m, rest, [size |-> b.size - wanted - HeaderSize, next |-> b.next,
                                      prev |-> a, free |-> TRUE])
             linked == IF b.next = 0 THEN [made EXCEPT !.tail = rest]
                       ELSE Adjust(made, b.next, "prev", rest)
             cut == Adjust(Adjust(linked, a, "size", wanted), a, "next", rest)
         IN  bin_insert(merge_with_next(cut, rest), rest)

\* take_free_block: first fit in the class of the size, then in the larger
\* ones; 0 if there is none.
take_free_block(m, wanted) ==
    LET Fits(k) == {i \in 1..Len(m.bins[k]) : m.blocks[m.bins[k][i]].size >= wanted}
        useful == {k \in bin_index(wanted)..BinCount : Fits(k) # {}}
    IN  IF useful = {} THEN 0
        ELSE LET k == CHOOSE x \in useful : \A y \in useful : x <= y
             IN  m.bins[k][CHOOSE i \in Fits(k) : \A j \in Fits(k) : i <= j]

\* extend_heap: [m, a, brk], or a = 0 when sbrk refuses.
extend_heap(m, payload, gap) ==
    LET total == IF HeaderSize + payload < MinGrowth THEN MinGrowth ELSE HeaderSize + payload
        a == brk + gap
        made == Insert(m, a, [size |-> total - HeaderSize, next |-> 0, prev |-> m.tail, free |-> TRUE])
        linked == [Adjust(made, m.tail, "next", a) EXCEPT !.tail = a]
        p == m.tail
    IN  IF a + total > Limit THEN [m |-> m, a |-> 0, brk |-> brk]
        ELSE IF p # 0 /\ m.blocks[p].free /\ adjacent(m, p, a)
             THEN [m |-> Absorb(bin_remove(linked, p), p, a), a |-> p, brk |-> a + total]
             ELSE [m |-> linked, a |-> a, brk |-> a + total]

\* malloc as a function of the heap: [m, a, brk]; a = 0 is ENOMEM.
Allocate(m, wanted, gap) ==
    LET found == take_free_block(m, wanted)
        got == IF found # 0 THEN [m |-> bin_remove(m, found), a |-> found, brk |-> brk]
               ELSE extend_heap(m, wanted, gap)
    IN  IF got.a = 0 THEN got
        ELSE [got EXCEPT !.m = Adjust(split(got.m, got.a, wanted), got.a, "free", FALSE)]

\* A bug: a freed block is not merged with the one before it.
ReleaseForward(m, a) == bin_insert(merge_with_next(Adjust(m, a, "free", TRUE), a), a)

Release(m, a) ==
    LET merged == merge_with_next(Adjust(m, a, "free", TRUE), a)
        before == merged.blocks[a].prev
    IN  IF before # 0 /\ merged.blocks[before].free /\ adjacent(merged, before, a)
        THEN bin_insert(Absorb(bin_remove(merged, before), before, a), before)
        ELSE bin_insert(merged, a)

-----------------------------------------------------------------------------

Hand(a, size) == [x \in DOMAIN owned \cup {a} |-> IF x = a THEN size ELSE owned[x]]
Without(a) == [x \in DOMAIN owned \ {a} |-> owned[x]]

malloc(size) == \E gap \in {0, 1} :
    /\ Cardinality(DOMAIN owned) < MaxBlocks
    /\ LET got == Allocate(mem, size, gap)
       IN  /\ mem' = got.m /\ brk' = got.brk
           /\ owned' = IF got.a = 0 THEN owned ELSE Hand(got.a, size)

free == \E a \in DOMAIN owned : mem' = Release(mem, a) /\ owned' = Without(a) /\ UNCHANGED brk

realloc(size) == \E a \in DOMAIN owned, gap \in {0, 1} :
    LET b == mem.blocks[a]
        after == b.next
    IN  IF b.size >= size
        THEN mem' = split(mem, a, size) /\ owned' = Hand(a, size) /\ UNCHANGED brk
        ELSE IF after # 0 /\ mem.blocks[after].free /\ adjacent(mem, a, after)
                /\ b.size + HeaderSize + mem.blocks[after].size >= size
        THEN /\ mem' = split(merge_with_next(mem, a), a, size)
             /\ owned' = Hand(a, size) /\ UNCHANGED brk
        ELSE LET got == Allocate(mem, size, gap)
             IN  /\ brk' = got.brk
                 /\ IF got.a = 0 THEN mem' = got.m /\ UNCHANGED owned
                    ELSE /\ mem' = Release(got.m, a)
                         /\ owned' = [x \in (DOMAIN owned \ {a}) \cup {got.a} |->
                                         IF x = got.a THEN size ELSE owned[x]]

MNext == (\E size \in Requests : malloc(size) \/ realloc(size)) \/ free

-----------------------------------------------------------------------------

Span(a, size) == a..(a + HeaderSize + size - 1)

(* Blocks never overlap, the chain runs through all of them in address     *)
(* order both ways, and every pointer handed out is a block in use at      *)
(* least as large as was asked for.                                        *)
ChainSound ==
    /\ \A a \in Blocks(mem) :
        LET b == mem.blocks[a] IN
        /\ b.next # 0 => /\ b.next \in Blocks(mem) /\ mem.blocks[b.next].prev = a
                         /\ a + HeaderSize + b.size <= b.next
        /\ (b.next = 0) = (mem.tail = a)
        /\ a + HeaderSize + b.size <= brk
    /\ DOMAIN owned = {a \in Blocks(mem) : ~mem.blocks[a].free}
    /\ \A a \in DOMAIN owned : mem.blocks[a].size >= owned[a]

(* Every free block is on the list of its size class, once, and nothing    *)
(* else is.                                                                *)
BinsExact ==
    \A k \in 1..BinCount :
        LET bin == mem.bins[k] IN
        /\ {bin[i] : i \in 1..Len(bin)} =
               {a \in Blocks(mem) : mem.blocks[a].free /\ bin_index(mem.blocks[a].size) = k}
        /\ Cardinality({bin[i] : i \in 1..Len(bin)}) = Len(bin)

(* "Two adjacent free blocks must never both be on the lists, or the heap  *)
(* fragments for good."                                                    *)
Coalesced ==
    \A a \in Blocks(mem) :
        LET n == mem.blocks[a].next IN
        (mem.blocks[a].free /\ n # 0 /\ adjacent(mem, a, n)) => ~mem.blocks[n].free

(***************************************************************************)
(* The environment                                                         *)
(***************************************************************************)
evars == <<environ, taken, capacity, strings, fresh, promised>>

First(env, name) ==
    LET hits == {i \in 1..Len(env) : env[i].name = name}
    IN IF hits = {} THEN 0 ELSE CHOOSE i \in hits : \A j \in hits : i <= j

find_environment_entry(env, name) == First(env, name)

getenv(name) ==
    IF First(environ, name) = 0 THEN "unset" ELSE environ[First(environ, name)].value

Start(inherited) == [i \in 1..Len(inherited) |->
    [name |-> inherited[i][1], value |-> inherited[i][2], string |-> 0]]

EInit ==
    \E inherited \in Inherited :
        /\ environ = Start(inherited)
        /\ taken = FALSE /\ capacity = 0 /\ strings = {} /\ fresh = 1
        /\ promised = [n \in Names |->
                LET i == First(environ, n) IN IF i = 0 THEN "unset" ELSE environ[i].value]

\* What the functions work on, as a record; `left' allocations still succeed.
Heap(ok) == [env |-> environ, taken |-> taken, capacity |-> capacity, strings |-> strings,
             fresh |-> fresh, left |-> ok, failed |-> FALSE]

\* take_over_environment: the array, then a copy of every string; the copies
\* made so far are freed if one of them fails.
take_over_environment(h) ==
    LET count == Len(h.env) IN
    IF h.taken THEN h
    ELSE IF h.left < count + 1 THEN [h EXCEPT !.failed = TRUE, !.left = 0]
    ELSE [h EXCEPT !.env = [i \in 1..count |-> [h.env[i] EXCEPT !.string = h.fresh + i - 1]],
                   !.taken = TRUE, !.capacity = count + Slack,
                   !.strings = @ \cup h.fresh..(h.fresh + count - 1),
                   !.fresh = @ + count, !.left = @ - count - 1]

\* A bug: the string replaced is not freed.
replace_kept(h, at, entry) == [h EXCEPT !.env[at] = entry]
\* setenv on a name that is there: the old string is freed.
replace(h, at, entry) == [h EXCEPT !.env[at] = entry, !.strings = @ \ {h.env[at].string}]

\* setenv after its checks.  The array grows when only its last slot is free.
Set(h0, name, value, overwrite) ==
    LET h == take_over_environment(h0)
        at == find_environment_entry(h.env, name)
        entry == [name |-> name, value |-> value, string |-> h.fresh]
        made == [h EXCEPT !.strings = @ \cup {h.fresh}, !.fresh = @ + 1, !.left = @ - 1]
        full == Len(h.env) + 1 >= h.capacity
    IN IF h.failed \/ (at # 0 /\ ~overwrite) THEN h
       ELSE IF h.left = 0 THEN [h EXCEPT !.failed = TRUE]
       ELSE IF at # 0 THEN replace(made, at, entry)
       ELSE IF full /\ made.left = 0 THEN [made EXCEPT !.strings = @ \ {h.fresh}, !.failed = TRUE]
       ELSE [made EXCEPT !.env = Append(@, entry),
                         !.capacity = IF full THEN 2 * @ ELSE @]

\* A bug: only the first entry of the name goes.
Unset_first(h0, name) ==
    LET h == take_over_environment(h0)
        at == find_environment_entry(h.env, name)
    IN IF h.failed \/ at = 0 THEN h
       ELSE [h EXCEPT !.env = SubSeq(@, 1, at - 1) \o SubSeq(@, at + 1, Len(@)),
                      !.strings = @ \ {h.env[at].string}]

\* unsetenv after its checks: every entry of the name goes, the tail moves down.
Unset(h0, name) ==
    LET h == take_over_environment(h0)
        gone == {i \in 1..Len(h.env) : h.env[i].name = name}
    IN IF h.failed THEN h
       ELSE [h EXCEPT !.env = SelectSeq(@, LAMBDA e : e.name # name),
                      !.strings = @ \ {h.env[i].string : i \in gone}]

Become(h, wanted) ==
    /\ h.fresh <= MaxStrings
    /\ environ' = h.env /\ taken' = h.taken /\ capacity' = h.capacity
    /\ strings' = h.strings /\ fresh' = h.fresh
    /\ promised' = IF h.failed THEN promised ELSE wanted

setenv(name, value, overwrite, ok) ==
    Become(Set(Heap(ok), name, value, overwrite),
           IF overwrite \/ promised[name] = "unset" THEN [promised EXCEPT ![name] = value]
           ELSE promised)

unsetenv(name, ok) == Become(Unset(Heap(ok), name), [promised EXCEPT ![name] = "unset"])

\* putenv: a copy of the name is made for the call and freed after it (without
\* an = it is unsetenv).
putenv(name, value, ok) ==
    /\ ok > 0
    /\ LET h == Set([Heap(ok - 1) EXCEPT !.strings = @ \cup {fresh}, !.fresh = @ + 1],
                    name, value, TRUE)
       IN Become([h EXCEPT !.strings = @ \ {fresh}], [promised EXCEPT ![name] = value])

ENext ==
    \E name \in Names, ok \in 0..(Cardinality(Names) + 3) :
        \/ unsetenv(name, ok)
        \/ \E value \in Values : putenv(name, value, ok)
        \/ \E value \in Values, overwrite \in BOOLEAN : setenv(name, value, overwrite, ok)

\* "from then on every entry is ours": after the first change the strings not
\* yet freed are those of the entries, each of one entry, and before it there are
\* none, whichever allocation of whichever call failed; the terminator has room.
EntriesOwned ==
    /\ strings = {environ[i].string : i \in 1..Len(environ)} \ {0}
    /\ taken => /\ Cardinality(strings) = Len(environ)
                /\ Len(environ) <= capacity
    /\ ~taken => strings = {}

\* getenv answers with the last successful change of the name, although an
\* inherited environment may hold the name twice and calls fail half-way.
LastChangeSeen == \A name \in Names : getenv(name) = promised[name]
=============================================================================
