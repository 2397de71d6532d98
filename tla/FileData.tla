------------------------------ MODULE FileData -------------------------------
(***************************************************************************)
(* What is in a file and in a directory: the page list of TmpfsInode       *)
(* (kernel/fs/tmpfs.cpp) and the read, write, seek and getdents of a       *)
(* FileDescription (kernel/fs/vfs.cpp).  One file and one directory, two   *)
(* descriptions open on each.  Next to the pages, `content' is what POSIX  *)
(* says the file holds.                                                    *)
(*                                                                         *)
(* The code has no lock here.  A call runs whole in the model, so this is  *)
(* what the code does for callers that do not overlap in the kernel.       *)
(***************************************************************************)
EXTENDS Integers, Sequences, FiniteSets, FiniteSetsExt

CONSTANTS
    PageSize,
    MaxPages,     \* page frames there are for the file
    Descs,        \* open descriptions
    Data,         \* what is written: sequences of bytes other than 0
    Offsets,      \* offsets given to lseek
    Names,        \* names in the directory
    Records       \* capacities given to getdents, in records

VARIABLES
    pages,     \* m_pages: a sequence of pages, each 0..PageSize-1 -> byte
    size,      \* m_size
    content,   \* what the file holds
    desc,      \* description -> [offset, append, index]
    children,  \* m_children of the directory, oldest first
    listed     \* description -> the names getdents returned since a rewind

fvars == <<pages, size, content, desc, children, listed>>

Zeroed == [w \in 0..(PageSize - 1) |-> 0]
pages_for(bytes) == (bytes + PageSize - 1) \div PageSize
PosixZeroes(n) == [i \in 1..n |-> 0]

\* release_pages_from drops pages at the end, never adds any.
release_pages_from(ps, n) == SubSeq(ps, 1, IF n < Len(ps) THEN n ELSE Len(ps))

\* ensure_pages(bytes): more zeroed pages, or back to what m_size accounts for.
Enough(bytes) == pages_for(bytes) <= MaxPages
ensure_pages(bytes) ==
    IF Enough(bytes)
    THEN pages \o [i \in 1..(pages_for(bytes) - Len(pages)) |-> Zeroed]
    ELSE release_pages_from(pages, pages_for(size))

\* The copy loops of read and write, byte by byte.
ByteAt(ps, i) == ps[i \div PageSize + 1][i % PageSize]
CopyIn(ps, offset, data) ==
    [k \in DOMAIN ps |-> [w \in 0..(PageSize - 1) |->
        LET i == (k - 1) * PageSize + w - offset
        IN  IF 0 <= i /\ i < Len(data) THEN data[i + 1] ELSE ps[k][w]]]
CopyOut(ps, offset, n) == [i \in 1..n |-> ByteAt(ps, offset + i - 1)]

\* What a write at an offset does to a POSIX file: a gap reads as zeroes.
Overwrite(c, offset, data) ==
    [i \in 1..Max({Len(c), offset + Len(data)}) |->
        IF offset < i /\ i <= offset + Len(data) THEN data[i - offset]
        ELSE IF i <= Len(c) THEN c[i] ELSE 0]

\* FileDescription::write and TmpfsInode::write; the offset moves to the end
\* first for O_APPEND, and stays there if the write fails.
write(d) ==
    \E data \in Data :
        LET at == IF desc[d].append THEN size ELSE desc[d].offset
            end == at + Len(data)
        IN  IF Enough(end)
            THEN /\ pages' = CopyIn(ensure_pages(end), at, data)
                 /\ size' = Max({size, end})
                 /\ content' = Overwrite(content, IF desc[d].append THEN Len(content)
                                                  ELSE desc[d].offset, data)
                 /\ desc' = [desc EXCEPT ![d].offset = end]
                 /\ UNCHANGED <<children, listed>>
            ELSE /\ pages' = ensure_pages(end)
                 /\ desc' = [desc EXCEPT ![d].offset = at]
                 /\ UNCHANGED <<size, content, children, listed>>

\* FileDescription::read moves the offset by what TmpfsInode::read returns.
ReadLength(offset, n) == IF offset >= size THEN 0 ELSE Min({n, size - offset})
read(d) ==
    \E n \in 1..(PageSize + 1) :
        /\ desc' = [desc EXCEPT ![d].offset = @ + ReadLength(@, n)]
        /\ UNCHANGED <<pages, size, content, children, listed>>

seek(d) ==
    \E offset \in Offsets, base \in {0, desc[d].offset, size} :
        /\ base + offset \in 0..(PageSize * (MaxPages + 1))
        /\ desc' = [desc EXCEPT ![d].offset = base + offset]
        /\ UNCHANGED <<pages, size, content, children, listed>>

\* F_SETFL changes O_APPEND.
setfl(d) ==
    /\ desc' = [desc EXCEPT ![d].append = ~@]
    /\ UNCHANGED <<pages, size, content, children, listed>>

\* A bug: what is cut off stays in the last page.
KeepTail(ps, n) == ps

ClearTail(ps, n) ==
    IF n % PageSize = 0 THEN ps
    ELSE [ps EXCEPT ![pages_for(n)] =
             [w \in 0..(PageSize - 1) |-> IF w >= n % PageSize THEN 0 ELSE @[w]]]

truncate ==
    /\ \E n \in 0..(PageSize * MaxPages + 1) :
         IF n > size /\ ~Enough(n)
         THEN /\ pages' = ensure_pages(n)
              /\ UNCHANGED <<size, content>>
         ELSE /\ pages' = IF n > size THEN ensure_pages(n)
                          ELSE IF n = size THEN pages
                          ELSE release_pages_from(ClearTail(pages, n), pages_for(n))
              /\ size' = n
              /\ content' = IF n <= Len(content) THEN SubSeq(content, 1, n)
                            ELSE content \o PosixZeroes(n - Len(content))
    /\ UNCHANGED <<desc, children, listed>>

\* A shared writable mapping asks for a page at or past the end.
physical_page ==
    /\ \E k \in 0..(MaxPages - 1) : pages' = ensure_pages((k + 1) * PageSize)
    /\ UNCHANGED <<size, content, desc, children, listed>>

-----------------------------------------------------------------------------

\* A bug: the index moves by the records there was room for, less one.
getdents_again(d) ==
    /\ \E room \in Records :
         LET n == Min({room, Len(children) - desc[d].index}) IN
         /\ n > 0
         /\ listed' = [listed EXCEPT ![d] =
                          @ \o SubSeq(children, desc[d].index + 1, desc[d].index + n)]
         /\ desc' = [desc EXCEPT ![d].index = @ + n - 1]
    /\ UNCHANGED <<pages, size, content, children>>

\* read_directory past "." and ".."; the index is kept in the description.
getdents(d) ==
    /\ \E room \in Records :
         LET n == Min({room, Len(children) - desc[d].index}) IN
         /\ n > 0
         /\ listed' = [listed EXCEPT ![d] =
                          @ \o SubSeq(children, desc[d].index + 1, desc[d].index + n)]
         /\ desc' = [desc EXCEPT ![d].index = @ + n]
    /\ UNCHANGED <<pages, size, content, children>>

rewind(d) ==
    /\ desc' = [desc EXCEPT ![d].offset = 0, ![d].index = 0]
    /\ listed' = [listed EXCEPT ![d] = <<>>]
    /\ UNCHANGED <<pages, size, content, children>>

\* A name that comes back is another file, so it has not been listed yet.
Forget(n) == [d \in Descs |-> SelectSeq(listed[d], LAMBDA x : x # n)]
create ==
    /\ \E n \in Names \ {children[i] : i \in DOMAIN children} :
         children' = Append(children, n) /\ listed' = Forget(n)
    /\ UNCHANGED <<pages, size, content, desc>>

RemoveAt(s, k) == [i \in 1..(Len(s) - 1) |-> s[IF i < k THEN i ELSE i + 1]]
unlink ==
    /\ \E k \in DOMAIN children : children' = RemoveAt(children, k)
    /\ UNCHANGED <<pages, size, content, desc, listed>>

DInit ==
    /\ pages = <<>> /\ size = 0 /\ content = <<>>
    /\ desc = [d \in Descs |-> [offset |-> 0, append |-> FALSE, index |-> 0]]
    /\ children = <<>>
    /\ listed = [d \in Descs |-> <<>>]

FileNext ==
    \/ \E d \in Descs : write(d) \/ read(d) \/ seek(d) \/ setfl(d)
    \/ truncate \/ physical_page
DirNext ==
    \/ \E d \in Descs : getdents(d) \/ rewind(d)
    \/ create \/ unlink

-----------------------------------------------------------------------------

(* The pages hold the file: as long as POSIX says, the same bytes, zeroes  *)
(* in the gaps, and nothing left in the last page or the pages a mapping   *)
(* added for a later, longer file to show.                                 *)
FileFaithful ==
    /\ size = Len(content)
    /\ pages_for(size) <= Len(pages)
    /\ CopyOut(pages, 0, size) = content
    /\ \A i \in size..(Len(pages) * PageSize - 1) : ByteAt(pages, i) = 0

(* One pass over a directory with getdents never returns an entry twice,   *)
(* whatever is created and removed meanwhile.                              *)
ListedOnce ==
    \A d \in Descs : \A i, j \in DOMAIN listed[d] : i # j => listed[d][i] # listed[d][j]
=============================================================================
