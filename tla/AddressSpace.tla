----------------------------- MODULE AddressSpace ----------------------------
(***************************************************************************)
(* kernel/mm/address_space.cpp and its callers: page tables kept in page   *)
(* frames, and mmap, munmap, brk, fork, execve and exit working on them,   *)
(* with one tmpfs file whose pages can be mapped shared.                   *)
(*                                                                         *)
(* A virtual address is a page number.  A table is a function from indices *)
(* to entries, an entry a frame and its flags (Present is an entry being   *)
(* there).  A call runs whole: the tables of a process are touched by that *)
(* process alone, and the kernel's under an interrupt lock.  The direct    *)
(* map and the kernel image, built once out of huge and fixed pages, are   *)
(* left out, and so is MAP_FIXED, which no program of the tree asks for.   *)
(***************************************************************************)
EXTENDS Naturals, Sequences, FiniteSets, FiniteSetsExt

CONSTANTS
    Levels, Fanout,   \* 4 and 512 in the code
    Frames,           \* the page frames: 1..n
    Procs,
    StackPage,        \* USER_STACK_TOP - USER_STACK_SIZE
    ImagePages,       \* the PT_LOAD segment of the program execve loads
    MmapBase,         \* the first mmap_next; the break is never raised as far
    ModuleBase, ModulePages,  \* the module window
    FilePages         \* bound on the length of the file

VARIABLES
    mm,      \* [tables, free, resident]: the frames as tables, the free
             \* frames, and m_resident_pages of each root
    space,   \* process -> root frame, or None
    brk,     \* process -> [start, now], in pages
    mmapNext,
    moduleNext,
    file     \* [pages, size] of the tmpfs inode: its frames, and m_size in pages

avars == <<mm, space, brk, mmapNext, moduleNext, file>>

None == 0
Index == 0..(Fanout - 1)
NoEntry == [frame |-> None, flags |-> {}]
ZeroedPage == [i \in Index |-> NoEntry]
UserEnd == (Fanout \div 2) * Fanout ^ (Levels - 1)
UserPages == 0..(UserEnd - 1)
KernelRoot == Min(Frames)

index_of(page, level) == (page \div Fanout ^ (level - 1)) % Fanout
Present(e) == e.frame # None

Good(m) == [m |-> m, ok |-> TRUE]
Bad(m) == [m |-> m, ok |-> FALSE]

\* allocate_zeroed_page; the caller has seen that there is one.  What is in a
\* free frame does not matter, so the model clears it when it is given back.
Taken(m) == Min(m.free)
Take(m) == [m EXCEPT !.free = @ \ {Min(@)}]
Give(m, frames) ==
    [m EXCEPT !.free = @ \cup frames,
              !.tables = [f \in Frames |-> IF f \in frames THEN ZeroedPage ELSE @[f]]]

\* A bug: a table on the way to a user page does not get the User flag.
ensure_table_kernel(m, table, i, user) ==
    LET e == m.tables[table][i]
    IN  IF Present(e) THEN Good(m)
        ELSE IF m.free = {} THEN Bad(m)
        ELSE Good([Take(m) EXCEPT !.tables[table][i] =
                      [frame |-> Taken(m), flags |-> {"Writable"}]])

ensure_table(m, table, i, user) ==
    LET e == m.tables[table][i]
        there == IF Present(e) THEN m
                 ELSE [Take(m) EXCEPT !.tables[table][i] =
                          [frame |-> Taken(m), flags |-> {"Writable"}]]
    IN  IF ~Present(e) /\ m.free = {} THEN Bad(m)
        ELSE Good(IF user THEN [there EXCEPT !.tables[table][i].flags = @ \cup {"User"}]
                  ELSE there)

RECURSIVE Descend(_, _, _, _, _, _)
Descend(m, table, level, page, frame, flags) ==
    LET i == index_of(page, level)
        e == ensure_table(m, table, i, "User" \in flags)
    IN  IF level = 1
        THEN IF Present(m.tables[table][i]) THEN Bad(m)
             ELSE Good([m EXCEPT !.tables[table][i] = [frame |-> frame, flags |-> flags]])
        ELSE IF ~e.ok THEN e
             ELSE Descend(e.m, e.m.tables[table][i].frame, level - 1, page, frame, flags)

\* AddressSpace::map.  Tables made on the way to a failure stay.
map(m, root, page, frame, flags) ==
    LET d == Descend(m, root, Levels, page, frame, flags)
    IN  IF d.ok THEN Good([d.m EXCEPT !.resident[root] = @ + 1]) ELSE d

\* walk_to_leaf_table: the leaf table over the page, or None.
RECURSIVE Walk(_, _, _, _)
Walk(m, table, level, page) ==
    IF level = 1 \/ table = None THEN table
    ELSE Walk(m, m.tables[table][index_of(page, level)].frame, level - 1, page)
walk_to_leaf_table(m, root, page) == Walk(m, root, Levels, page)

Leaf(m, root, page) ==
    LET pt == walk_to_leaf_table(m, root, page)
    IN  IF pt = None THEN NoEntry ELSE m.tables[pt][index_of(page, 1)]
is_mapped(m, root, page) == Present(Leaf(m, root, page))
translate(m, root, page) == Leaf(m, root, page).frame

\* validate_user_range for one page of the user half.
validate_user_page(m, root, page, write) ==
    /\ page \in UserPages
    /\ is_mapped(m, root, page)
    /\ "User" \in Leaf(m, root, page).flags
    /\ write => "Writable" \in Leaf(m, root, page).flags

\* A bug: the page is no longer resident but stays counted.
unmap_uncounted(m, root, page) ==
    IF ~is_mapped(m, root, page) THEN m
    ELSE [m EXCEPT !.tables[walk_to_leaf_table(m, root, page)][index_of(page, 1)] = NoEntry]

\* unmap drops the entry and never frees the frame.
unmap(m, root, page) ==
    IF ~is_mapped(m, root, page) THEN m
    ELSE [m EXCEPT !.tables[walk_to_leaf_table(m, root, page)][index_of(page, 1)] = NoEntry,
                   !.resident[root] = @ - 1]

RECURSIVE unmap_range(_, _, _, _)
unmap_range(m, root, page, n) ==
    IF n = 0 THEN m ELSE unmap_range(unmap(m, root, page), root, page + 1, n - 1)

\* map_anonymous from page first + done on; a failure unmaps from first.
RECURSIVE Anonymous(_, _, _, _, _, _)
Anonymous(m, root, first, done, n, flags) ==
    LET page == first + done
        mapped == map(Take(m), root, page, Taken(m), flags)
    IN  IF done = n THEN Good(m)
        ELSE IF is_mapped(m, root, page) THEN Anonymous(m, root, first, done + 1, n, flags)
        ELSE IF m.free = {} THEN Bad(unmap_range(m, root, first, done))
        ELSE IF ~mapped.ok
             THEN Bad(unmap_range(Give(mapped.m, {Taken(m)}), root, first, done))
        ELSE Anonymous(mapped.m, root, first, done + 1, n, flags)
map_anonymous(m, root, first, n, flags) == Anonymous(m, root, first, 0, n, flags)

\* protect: keeps the frames, replaces every flag; stops at a hole.
RECURSIVE protect(_, _, _, _, _)
protect(m, root, page, n, flags) ==
    IF n = 0 THEN Good(m)
    ELSE IF ~is_mapped(m, root, page) THEN Bad(m)
    ELSE protect([m EXCEPT !.tables[walk_to_leaf_table(m, root, page)]
                                   [index_of(page, 1)].flags = flags],
                 root, page + 1, n - 1, flags)

\* A bug: the frames of shared mappings are freed with the rest.
RECURSIVE BehindForeign(_, _, _)
BehindForeign(m, e, level) ==
    IF ~Present(e) THEN {}
    ELSE IF level = 0 THEN {e.frame}
    ELSE {e.frame} \cup UNION {BehindForeign(m, m.tables[e.frame][i], level - 1) : i \in Index}

\* The frames behind a table entry that destroy_user_mappings frees.
RECURSIVE Behind(_, _, _)
Behind(m, e, level) ==
    IF ~Present(e) THEN {}
    ELSE IF level = 0 THEN IF "Foreign" \in e.flags THEN {} ELSE {e.frame}
    ELSE {e.frame} \cup UNION {Behind(m, m.tables[e.frame][i], level - 1) : i \in Index}

destroy_user_mappings(m, root) ==
    LET lower == 0..(Fanout \div 2 - 1)
    IN  [Give(m, UNION {Behind(m, m.tables[root][i], Levels - 1) : i \in lower}) EXCEPT
            !.tables[root] = [i \in Index |-> IF i \in lower THEN NoEntry ELSE @[i]],
            !.resident[root] = 0]

\* A bug: the kernel half is copied without the last of its entries.
create_user_space_short(m) ==
    [Take(m) EXCEPT
        !.tables[Taken(m)] = [i \in Index |-> IF i < Fanout \div 2 \/ i = Fanout - 1 THEN NoEntry
                                              ELSE m.tables[KernelRoot][i]],
        !.resident[Taken(m)] = 0]

\* create_user_space: the caller has seen a free frame, which becomes the root.
create_user_space(m) ==
    [Take(m) EXCEPT
        !.tables[Taken(m)] = [i \in Index |-> IF i < Fanout \div 2 THEN NoEntry
                                              ELSE m.tables[KernelRoot][i]],
        !.resident[Taken(m)] = 0]

\* clone_user_space from a page on; a failure destroys the copy, root excepted.
RECURSIVE Clone(_, _, _, _)
Clone(m, from, to, page) ==
    LET e == Leaf(m, from, page)
        foreign == "Foreign" \in e.flags
        mapped == IF foreign THEN map(m, to, page, e.frame, e.flags)
                  ELSE map(Take(m), to, page, Taken(m), e.flags)
    IN  IF page = UserEnd THEN Good(m)
        ELSE IF ~Present(e) THEN Clone(m, from, to, page + 1)
        ELSE IF ~foreign /\ m.free = {} THEN Bad(destroy_user_mappings(m, to))
        ELSE IF ~mapped.ok
             THEN Bad(destroy_user_mappings(IF foreign THEN mapped.m
                                            ELSE Give(mapped.m, {Taken(m)}), to))
        ELSE Clone(mapped.m, from, to, page + 1)

\* ensure_pages: grows the list of the inode's pages, or puts it back to m_size.
RECURSIVE ensure_pages(_, _, _)
ensure_pages(m, f, n) ==
    IF Len(f.pages) >= n THEN [m |-> m, f |-> f, ok |-> TRUE]
    ELSE IF m.free = {}
         THEN [m |-> Give(m, {f.pages[i] : i \in (f.size + 1)..Len(f.pages)}),
               f |-> [f EXCEPT !.pages = SubSeq(@, 1, f.size)], ok |-> FALSE]
    ELSE ensure_pages(Take(m), [f EXCEPT !.pages = Append(@, Taken(m))], n)

-----------------------------------------------------------------------------

Data == {"User", "Writable"}
Running(p) == space[p] # None

\* sys_brk, to a new break of n pages above the image.
sys_brk(p) ==
    /\ Running(p)
    /\ \E now \in brk[p].start..MmapBase :
         LET r == IF now > brk[p].now
                  THEN map_anonymous(mm, space[p], brk[p].now, now - brk[p].now, Data)
                  ELSE Good(unmap_range(mm, space[p], now, brk[p].now - now))
         IN  /\ mm' = r.m
             /\ brk' = IF r.ok THEN [brk EXCEPT ![p].now = now] ELSE brk
    /\ UNCHANGED <<space, mmapNext, moduleNext, file>>

\* mmap_next moves on, with a guard page, whether or not the call succeeds.
Target(p, n, at) ==
    /\ at = mmapNext[p] /\ at + n < StackPage
    /\ mmapNext' = [mmapNext EXCEPT ![p] = @ + n + 1]

Flags(write) == IF write THEN Data ELSE {"User"}

sys_mmap_anonymous(p) ==
    /\ Running(p)
    /\ \E n \in 1..2, at \in UserPages, write \in BOOLEAN :
         /\ Target(p, n, at)
         /\ mm' = map_anonymous(mm, space[p], at, n, Flags(write)).m
    /\ UNCHANGED <<space, brk, moduleNext, file>>

\* A private file mapping: filled while writable, through a bounce buffer
\* there may be no memory for, then down to what was asked.
sys_mmap_private(p) ==
    /\ Running(p)
    /\ \E at \in UserPages, write, bounce \in BOOLEAN :
         LET a == map_anonymous(mm, space[p], at, 1, Data) IN
         /\ Target(p, 1, at)
         /\ mm' = IF ~a.ok THEN a.m
                  ELSE IF ~bounce \/ ~validate_user_page(a.m, space[p], at, TRUE)
                       THEN unmap_range(a.m, space[p], at, 1)
                  ELSE IF write THEN a.m
                  ELSE protect(a.m, space[p], at, 1, {"User"}).m
    /\ UNCHANGED <<space, brk, moduleNext, file>>

\* A shared mapping of the file's first n pages, page by page.
RECURSIVE Shared(_, _, _, _, _, _, _)
Shared(m, f, root, at, done, n, flags) ==
    LET grown == IF "Writable" \in flags THEN ensure_pages(m, f, done + 1)
                 ELSE [m |-> m, f |-> f, ok |-> TRUE]
        mapped == map(grown.m, root, at + done, grown.f.pages[done + 1], flags)
    IN  IF done = n THEN [m |-> m, f |-> f]
        ELSE IF ~grown.ok \/ done + 1 > Len(grown.f.pages) \/ ~mapped.ok
             THEN [m |-> unmap_range(IF ~grown.ok \/ done + 1 > Len(grown.f.pages)
                                     THEN grown.m ELSE mapped.m, root, at, done),
                   f |-> grown.f]
        ELSE Shared(mapped.m, grown.f, root, at, done + 1, n, flags)

sys_mmap_shared(p) ==
    /\ Running(p)
    /\ \E n \in 1..FilePages, at \in UserPages, write \in BOOLEAN :
         LET r == Shared(mm, file, space[p], at, 0, n, Flags(write) \cup {"Foreign"}) IN
         /\ Target(p, n, at)
         /\ mm' = r.m
         /\ file' = r.f
    /\ UNCHANGED <<space, brk, moduleNext>>

sys_munmap(p) ==
    /\ Running(p)
    /\ \E at \in UserPages, n \in 1..2 :
         /\ at + n <= UserEnd
         /\ mm' = unmap_range(mm, space[p], at, n)
    /\ UNCHANGED <<space, brk, mmapNext, moduleNext, file>>

\* sys_fork.  A failed copy still leaves the frame of the child's root taken.
sys_fork(p) ==
    /\ Running(p) /\ mm.free # {}
    /\ \E q \in {x \in Procs : ~Running(x)} :
         LET root == Taken(mm)
             r == Clone(create_user_space(mm), space[p], root, 0)
         IN  /\ mm' = r.m
             /\ space' = IF r.ok THEN [space EXCEPT ![q] = root] ELSE space
             /\ brk' = IF r.ok THEN [brk EXCEPT ![q] = [start |-> brk[p].now, now |-> brk[p].now]]
                       ELSE brk
             /\ mmapNext' = IF r.ok THEN [mmapNext EXCEPT ![q] = mmapNext[p]] ELSE mmapNext
    /\ UNCHANGED <<moduleNext, file>>

\* load_executable and setup_user_stack, as far as memory goes.
Load(m, root) ==
    LET image == map_anonymous(m, root, 0, ImagePages, Data)
        text == protect(image.m, root, 0, ImagePages, {"User"})
    IN  IF ~image.ok THEN image ELSE map_anonymous(text.m, root, StackPage, 1, Data)

\* sys_execve: the old space goes only once everything that can fail is done.
sys_execve(p) ==
    /\ Running(p) /\ mm.free # {}
    /\ LET root == Taken(mm)
           r == Load(create_user_space(mm), root)
       IN  /\ mm' = destroy_user_mappings(r.m, IF r.ok THEN space[p] ELSE root)
           /\ space' = IF r.ok THEN [space EXCEPT ![p] = root] ELSE space
           /\ brk' = IF r.ok THEN [brk EXCEPT ![p] = [start |-> ImagePages, now |-> ImagePages]]
                     ELSE brk
    /\ UNCHANGED <<mmapNext, moduleNext, file>>

\* ~Process, when the parent reaps it.
Exit(p) ==
    /\ Running(p)
    /\ mm' = destroy_user_mappings(mm, space[p])
    /\ space' = [space EXCEPT ![p] = None]
    /\ UNCHANGED <<brk, mmapNext, moduleNext, file>>

\* A write or an ftruncate that changes the length of the file, in pages.
SetLength ==
    /\ \E n \in 0..FilePages :
         LET r == ensure_pages(mm, file, n)
             cut == (n + 1)..Len(file.pages)
         IN  IF n > file.size
             THEN /\ mm' = r.m
                  /\ file' = IF r.ok THEN [r.f EXCEPT !.size = n] ELSE r.f
             ELSE /\ n < file.size
                  /\ mm' = Give(mm, {file.pages[i] : i \in cut})
                  /\ file' = [pages |-> SubSeq(file.pages, 1, n), size |-> n]
    /\ UNCHANGED <<space, brk, mmapNext, moduleNext>>

\* allocate_module_memory and free_module_memory, for a module of one page.
allocate_module_memory ==
    /\ moduleNext < ModuleBase + ModulePages
    /\ LET r == map_anonymous(mm, KernelRoot, moduleNext, 1, {"Writable"}) IN
         /\ mm' = r.m
         /\ moduleNext' = IF r.ok THEN moduleNext + 1 ELSE moduleNext
    /\ UNCHANGED <<space, brk, mmapNext, file>>

free_module_memory ==
    /\ \E page \in ModuleBase..(moduleNext - 1) :
         LET frame == translate(mm, KernelRoot, page) IN
         /\ frame # None
         /\ mm' = Give(unmap(mm, KernelRoot, page), {frame})
    /\ UNCHANGED <<space, brk, mmapNext, moduleNext, file>>

\* virtual_memory_initialize: every table of the kernel half exists from the
\* start, one level down.  One process runs, with nothing mapped.
virtual_memory_initialize ==
    LET upper == (Fanout \div 2)..(Fanout - 1)
        table(i) == KernelRoot + 1 + (i - Fanout \div 2)
        first == KernelRoot + 1 + Cardinality(upper)
        boot == [tables |-> [f \in Frames |->
                    IF f = KernelRoot
                    THEN [i \in Index |-> IF i \in upper
                                          THEN [frame |-> table(i), flags |-> {"Writable"}]
                                          ELSE NoEntry]
                    ELSE ZeroedPage],
                 free |-> {f \in Frames : f >= first},
                 resident |-> [f \in Frames |-> 0]]
        p0 == CHOOSE p \in Procs : TRUE
    IN  /\ mm = create_user_space(boot)
        /\ space = [p \in Procs |-> IF p = p0 THEN first ELSE None]

AInit ==
    /\ virtual_memory_initialize
    /\ brk = [p \in Procs |-> [start |-> ImagePages, now |-> ImagePages]]
    /\ mmapNext = [p \in Procs |-> MmapBase]
    /\ moduleNext = ModuleBase
    /\ file = [pages |-> <<>>, size |-> 0]

ANext ==
    \/ \E p \in Procs :
          \/ sys_brk(p) \/ sys_munmap(p)
          \/ sys_mmap_anonymous(p) \/ sys_mmap_private(p) \/ sys_mmap_shared(p)
          \/ sys_fork(p) \/ sys_execve(p) \/ Exit(p)
    \/ SetLength \/ allocate_module_memory \/ free_module_memory

-----------------------------------------------------------------------------

Roots == {KernelRoot} \cup {space[p] : p \in {q \in Procs : Running(q)}}

\* Everything that will free a frame: the entries under a root's own half, as
\* <<table, index>>, and the file's list.
RECURSIVE Entries(_, _, _)
Entries(table, level, idx) ==
    UNION {IF ~Present(mm.tables[table][i]) THEN {}
           ELSE {<<table, i, level>>} \cup
                (IF level = 1 THEN {}
                 ELSE Entries(mm.tables[table][i].frame, level - 1, Index)) : i \in idx}
Lower == 0..(Fanout \div 2 - 1)
Owning ==
    UNION {Entries(r, Levels, IF r = KernelRoot THEN Index ELSE Lower) : r \in Roots}
EntryAt(x) == mm.tables[x[1]][x[2]]
Owners(f) ==
    Cardinality({x \in Owning : EntryAt(x).frame = f /\ "Foreign" \notin EntryAt(x).flags})
    + Cardinality({i \in DOMAIN file.pages : file.pages[i] = f})
    + (IF f \in Roots THEN 1 ELSE 0)

(* No frame has two owners and no owned frame is free: not a table, a      *)
(* private page, a page of the file, after any mixture of failed and       *)
(* successful calls.  A second owner frees it under the first.             *)
OneOwner == \A f \in Frames : Owners(f) <= IF f \in mm.free THEN 0 ELSE 1

(* What the kernel maps late is in every process: the tables under the     *)
(* upper half are shared, so the same page is the same frame everywhere.   *)
KernelShared ==
    \A p \in Procs : Running(p) =>
        \A page \in ModuleBase..(ModuleBase + ModulePages - 1) :
            Leaf(mm, space[p], page) = Leaf(mm, KernelRoot, page)

(* resident_bytes counts exactly the pages mapped in the user half.        *)
ResidentExact ==
    \A p \in Procs : Running(p) =>
        mm.resident[space[p]] = Cardinality({v \in UserPages : is_mapped(mm, space[p], v)})

(* A page the process may use is reachable from ring 3: every entry above  *)
(* a User leaf is User too.                                                *)
UserReachable ==
    \A x \in Owning : x[3] > 1 =>
        \A i \in Index :
            "User" \in mm.tables[EntryAt(x).frame][i].flags => "User" \in EntryAt(x).flags
=============================================================================
