------------------------------- MODULE Execve --------------------------------
(***************************************************************************)
(* sys_execve: the arguments copied out of the old program's memory        *)
(* (kernel/sys/syscall.cpp), the executable loaded segment by segment and  *)
(* the first stack built in a new address space (elf_loader.cpp), and the  *)
(* kernel memory each way out of the call has to give back.                *)
(*                                                                         *)
(* Memory is a function from addresses to bytes, and a byte or a word is a *)
(* number, 0 for NUL.  A word lies in its first byte.  Byte k of the file  *)
(* is 50 + k, and its program headers start at Headers.  Any allocation    *)
(* may fail.  What execve does to page tables, descriptors and signals is  *)
(* in AddressSpace, Files and Signals.                                     *)
(***************************************************************************)
EXTENDS Integers, Sequences, SequencesExt, FiniteSets, FiniteSetsExt

CONSTANTS
    PageSize, WordSize, Alignment,
    UserEnd,        \* USER_SPACE_END, in pages
    StackTop,       \* USER_STACK_TOP
    StackSize,      \* USER_STACK_SIZE
    PathMax,        \* PATH_MAX_LENGTH
    MaxArguments,   \* MAX_ARGUMENTS
    MaxBytes,       \* MAX_ARGUMENT_BYTES
    FileSize, Headers, HeadersSize,
    Programs,       \* sequences of program headers
    Calls           \* what the old program passes, see Passed

VARIABLES
    at,         \* how far the call has come
    passed,     \* the call's arguments and the memory they are in
    program,    \* the program headers
    args,       \* argv and envp in kernel memory
    blocks,     \* the kernel memory the call holds
    freedTwice, \* something was given back that was not held
    unread,     \* reading the headers failed
    space,      \* the new address space: page -> [bytes, flags]
    segment,    \* segments loaded so far
    result      \* [phdr, brk, rsp]

xvars == <<at, passed, program, args, blocks, freedTwice, unread, space, segment, result>>

Page(a) == a \div PageSize
AlignDown(a, n) == a - (a % n)
AlignUp(a, n) == AlignDown(a + n - 1, n)

(***************************************************************************)
(* The old program                                                         *)
(***************************************************************************)
\* A call is [argv, envp, null, gap, hole]: two lists of strings, which of
\* them are NULL pointers; the bytes between the pointers and the strings;
\* the page that is not there.  The pointers begin at the second page.
Text(l) == FlattenSeq([i \in DOMAIN l |-> Append(l[i], 0)])
Array(c, which) ==
    IF which \in c.null THEN 0
    ELSE IF which = "argv" THEN PageSize ELSE PageSize + WordSize * (Len(c.argv) + 1)
StringsAt(c) == PageSize + WordSize * (Len(c.argv) + Len(c.envp) + 2) + c.gap
Pointers(c, which) ==
    LET before == IF which = "argv" THEN <<>> ELSE c.argv
    IN  [i \in 1..(Len(c[which]) + 1) |->
            IF i > Len(c[which]) THEN 0
            ELSE StringsAt(c) + Len(Text(before \o SubSeq(c[which], 1, i - 1)))]
Mapped(c, a) == Page(a) # c.hole /\ Page(a) > 0 /\ Page(a) < UserEnd
UserByte(c, a) ==
    LET text == Text(c.argv \o c.envp)
        i == a - StringsAt(c) + 1
    IN  IF Mapped(c, a) /\ i \in DOMAIN text THEN text[i] ELSE -1

\* copy_string_from_user, which looks at each page before it reads there: a
\* result is [ok, text].
copy_string_from_user(c, a) ==
    LET stops == {l \in 0..(PathMax - 2) : ~Mapped(c, a + l) \/ UserByte(c, a + l) = 0}
    IN  IF stops = {} \/ ~Mapped(c, a + Min(stops)) THEN [ok |-> FALSE, text |-> <<>>]
        ELSE [ok |-> TRUE, text |-> [l \in 1..Min(stops) |-> UserByte(c, a + l - 1)]]

(***************************************************************************)
(* copy_string_array_from_user                                             *)
(***************************************************************************)
\* The array is block <<which, 0>>, its strings <<which, 1>>, ...; the other
\* blocks of the call are one each.
The(name) == <<name, 0>>
Blocks(which, n) == {<<which, i>> : i \in 0..n}

\* A bug: the strings copied before the one that failed stay behind.
free_array_only(which, i) == {<<which, 0>>, <<which, i>>}

\* What the copy of string i gives back when it fails, its own buffer included.
free_copied(which, i) == Blocks(which, i)

\* What a copy may come to: `got' is what it holds afterwards.  The read of
\* the pointers ends in EFAULT or E2BIG before anything is allocated.
copy_string_array_from_user(c, which) ==
    LET pointers == Pointers(c, which)
        count == Len(pointers) - 1
        readable == \A i \in 1..Min({count + 1, MaxArguments}) :
                        \A b \in {0, WordSize - 1} : Mapped(c, Array(c, which) + WordSize * (i - 1) + b)
        strings == [i \in 1..count |-> copy_string_from_user(c, pointers[i])]
        Bad == {i \in 1..count : ~strings[i].ok}
        failed(i) == [ok |-> FALSE, strings |-> <<>>,
                      got |-> Blocks(which, i) \ free_copied(which, i)]
    IN  IF Array(c, which) = 0
        THEN {failed(0), [ok |-> TRUE, strings |-> <<>>, got |-> Blocks(which, 0)]}
        ELSE IF ~readable \/ count >= MaxArguments
        THEN {[ok |-> FALSE, strings |-> <<>>, got |-> {}]}
        ELSE \* kmalloc may fail for the array and any string up to the first bad one
             {failed(i) : i \in 0..(IF Bad = {} THEN count ELSE Min(Bad))}
             \cup (IF Bad = {}
                   THEN {[ok |-> TRUE, strings |-> [i \in 1..count |-> strings[i].text],
                          got |-> Blocks(which, count)]}
                   ELSE {})

\* free_string_array goes by the NULL at the end.
free_string_array(which) == Blocks(which, Len(args[which]))

\* kfree of the blocks in `gone', out of those held.
Free(held, gone) ==
    blocks' = held \ gone /\ freedTwice' = (freedTwice \/ ~(gone \subseteq held))

-----------------------------------------------------------------------------
XInit ==
    /\ at = "argv" /\ passed \in Calls /\ program = <<>>
    /\ args = [argv |-> <<>>, envp |-> <<>>]
    /\ blocks = {} /\ freedTwice = FALSE /\ unread = FALSE
    /\ space = <<>> /\ segment = 0
    /\ result = [phdr |-> 0, brk |-> 0, rsp |-> 0]

CopyArgv ==
    /\ at = "argv"
    /\ \E r \in copy_string_array_from_user(passed, "argv") :
          /\ at' = IF r.ok THEN "envp" ELSE "failed"
          /\ args' = [args EXCEPT !.argv = r.strings]
          /\ blocks' = r.got
    /\ UNCHANGED <<passed, program, freedTwice, unread, space, segment, result>>

CopyEnvp ==
    /\ at = "envp"
    /\ \E r \in copy_string_array_from_user(passed, "envp") :
          IF r.ok
          THEN /\ at' = "space"
               /\ args' = [args EXCEPT !.envp = r.strings]
               /\ blocks' = blocks \cup r.got /\ UNCHANGED freedTwice
          ELSE /\ at' = "failed" /\ Free(blocks, free_string_array("argv"))
               /\ UNCHANGED args
    /\ UNCHANGED <<passed, program, unread, space, segment, result>>

Strings == free_string_array("argv") \cup free_string_array("envp")

\* create_user_space, then the checks of the header and the read of the
\* program headers.  The TRY around that read gives nothing back.
CreateSpace ==
    /\ at = "space"
    /\ \/ at' = "failed" /\ Free(blocks, Strings) /\ UNCHANGED <<program, unread>>
       \/ /\ program' \in Programs /\ at' = "load"
          /\ blocks' = blocks \cup {The("space"), The("headers")} /\ UNCHANGED <<freedTwice, unread>>
       \/ \* the header is refused, kmalloc fails, the headers come short
          at' = "failed" /\ Free(blocks, Strings) /\ UNCHANGED <<program, unread>>
       \/ /\ at' = "failed" /\ unread' = TRUE
          /\ Free(blocks \cup {The("headers")}, Strings) /\ UNCHANGED program
    /\ UNCHANGED <<passed, args, space, segment, result>>

(***************************************************************************)
(* load_executable                                                         *)
(***************************************************************************)
Zeroed(flags) == [bytes |-> [b \in 0..(PageSize - 1) |-> 0], flags |-> flags]
PagesOf(start, end) == Page(start)..(Page(end) - 1)
\* map_anonymous passes over what is mapped already.
map_anonymous(s, pages, flags) ==
    [p \in DOMAIN s \cup pages |-> IF p \in DOMAIN s THEN s[p] ELSE Zeroed(flags)]
protect(s, pages, flags) ==
    [p \in DOMAIN s |-> IF p \in pages THEN [s[p] EXCEPT !.flags = flags] ELSE s[p]]
flags_for_segment(g) ==
    {"user"} \cup (IF g.write THEN {"write"} ELSE {}) \cup (IF g.exec THEN {} ELSE {"noexec"})

\* A bug: a chunk is a whole page wherever it starts.
chunk_whole(a, left) == Min({PageSize, left})

\* How much of the rest goes into the page of address a.
chunk(a, left) == Min({PageSize - (a % PageSize), left})

\* copy_into_space: page by page through the direct map.
RECURSIVE copy_into_space(_, _, _)
copy_into_space(s, a, data) ==
    IF data = <<>> THEN [ok |-> TRUE, space |-> s]
    ELSE IF Page(a) \notin DOMAIN s THEN [ok |-> FALSE, space |-> s]
    ELSE LET n == chunk(a, Len(data))
             o == a % PageSize
             bytes == [b \in 0..(PageSize - 1) |->
                          IF b >= o /\ b < o + n THEN data[b - o + 1] ELSE s[Page(a)].bytes[b]]
         IN  copy_into_space([s EXCEPT ![Page(a)].bytes = bytes], a + n,
                             SubSeq(data, n + 1, Len(data)))

FileBytes(offset, length) == [i \in 1..length |-> 50 + offset + i - 1]

\* A failing load_executable, and what execve does then.
LoadFails(held, gone) ==
    /\ at' = "failed" /\ Free(held, gone \cup {The("headers"), The("space")} \cup Strings)
    /\ space' = <<>> /\ UNCHANGED <<segment, result>>

Header == program[segment + 1]
Beyond == Header.vaddr >= UserEnd * PageSize \/ Header.vaddr + Header.memsz > UserEnd * PageSize
Covered == PagesOf(AlignDown(Header.vaddr, PageSize), AlignUp(Header.vaddr + Header.memsz, PageSize))

\* One program header: nothing to load, an address out of bounds, no memory,
\* or its pages, writable until they are filled.
MapSegment ==
    /\ at = "load" /\ segment < Len(program)
    /\ IF ~Header.load \/ Header.memsz = 0
       THEN segment' = segment + 1 /\ UNCHANGED <<at, blocks, freedTwice, space, result>>
       ELSE \/ LoadFails(blocks, {})
            \/ /\ ~Beyond /\ at' = "read"
               /\ space' = map_anonymous(space, Covered, {"user", "write", "noexec"})
               /\ UNCHANGED <<blocks, freedTwice, segment, result>>
    /\ UNCHANGED <<passed, program, args, unread>>

ReadSegment ==
    /\ at = "read"
    /\ \/ /\ Header.filesz = 0 /\ at' = "copy"
          /\ UNCHANGED <<blocks, freedTwice, space, segment, result>>
       \/ Header.filesz > 0 /\ LoadFails(blocks, {})
       \/ /\ Header.filesz > 0
          /\ IF Header.offset + Header.filesz > FileSize
             THEN LoadFails(blocks \cup {The("staging")}, {The("staging")})
             ELSE /\ at' = "copy" /\ blocks' = blocks \cup {The("staging")}
                  /\ UNCHANGED <<freedTwice, space, segment, result>>
    /\ UNCHANGED <<passed, program, args, unread>>

\* The bytes go in, the staging buffer goes, and the pages get their flags.
CopySegment ==
    /\ at = "copy"
    /\ LET copied == copy_into_space(space, Header.vaddr, FileBytes(Header.offset, Header.filesz))
           staging == IF Header.filesz > 0 THEN {The("staging")} ELSE {}
           inside == /\ Headers >= Header.offset
                     /\ Headers + HeadersSize <= Header.offset + Header.filesz
       IN  IF ~copied.ok THEN LoadFails(blocks, staging)
           ELSE /\ Free(blocks, staging)
                /\ space' = protect(copied.space, Covered, flags_for_segment(Header))
                /\ result' = [result EXCEPT
                       !.brk = Max({@, AlignUp(Header.vaddr + Header.memsz, PageSize)}),
                       !.phdr = IF inside THEN Header.vaddr + (Headers - Header.offset) ELSE @]
                /\ segment' = segment + 1 /\ at' = "load"
    /\ UNCHANGED <<passed, program, args, unread>>

Loaded ==
    /\ at = "load" /\ segment = Len(program)
    /\ IF result.brk = 0 THEN LoadFails(blocks, {})
       ELSE at' = "stack" /\ Free(blocks, {The("headers")}) /\ UNCHANGED <<space, segment, result>>
    /\ UNCHANGED <<passed, program, args, unread>>

(***************************************************************************)
(* setup_user_stack                                                        *)
(***************************************************************************)
\* The auxiliary vector, cut to the entries that vary.
AT_PHDR == 3
auxiliary == <<AT_PHDR, result.phdr, 0, 0>>

\* A bug: no room for the NULL that ends argv.
slots_tight(argv, envp) == argv \o envp \o <<0>> \o auxiliary \o <<0>>

\* argc aside, the words of the stack.
slots(argv, envp) == argv \o <<0>> \o envp \o <<0>> \o auxiliary

\* The image: argc and the words from the bottom, the strings at the top.
Image(total, area) ==
    LET all == args.argv \o args.envp
        first == total - area
        address == [i \in DOMAIN all |-> StackTop - total + first + Len(Text(SubSeq(all, 1, i - 1)))]
        n == Len(args.argv)
        words == <<n>> \o slots(SubSeq(address, 1, n), SubSeq(address, n + 1, Len(all)))
        text == Text(all)
    IN  [b \in 1..total |->
            IF b > first /\ b - first <= Len(text) THEN text[b - first]
            ELSE IF (b - 1) % WordSize = 0 /\ (b - 1) \div WordSize + 1 <= Len(words)
            THEN words[(b - 1) \div WordSize + 1] ELSE 0]

SetupStack ==
    /\ at = "stack"
    /\ LET text == Len(Text(args.argv \o args.envp))
           area == AlignUp(text, Alignment)
           count == Len(args.argv) + Len(args.envp) + 2
           total == AlignUp(WordSize * (1 + count + Len(auxiliary)) + area, Alignment)
           pages == PagesOf(StackTop - StackSize, StackTop)
           copied == copy_into_space(map_anonymous(space, pages, {"user", "write", "noexec"}),
                                     StackTop - total, Image(total, area))
       IN  \/ \* no memory for the stack or the image
              /\ at' = "failed" /\ Free(blocks, {The("space")} \cup Strings) /\ space' = <<>>
              /\ UNCHANGED result
           \/ /\ text <= MaxBytes /\ total <= StackSize \div 2
              /\ at' = "running" /\ space' = copied.space
              /\ result' = [result EXCEPT !.rsp = StackTop - total]
              /\ Free(blocks, Strings)
    /\ UNCHANGED <<passed, program, args, unread, segment>>

XNext ==
    \/ CopyArgv \/ CopyEnvp \/ CreateSpace
    \/ MapSegment \/ ReadSegment \/ CopySegment \/ Loaded \/ SetupStack

(***************************************************************************)
(* Properties                                                              *)
(***************************************************************************)
Peek(a) == space[Page(a)].bytes[a % PageSize]
StringAt(a) ==
    LET end == Min({b \in a..(StackTop - 1) : Peek(b) = 0})
    IN  [i \in 1..(end - a) |-> Peek(a + i - 1)]
WordAt(i) == Peek(result.rsp + WordSize * i)

(* A program that has been started finds, going by the ABI, the arguments  *)
(* and the environment that were passed, each list with its NULL, and the  *)
(* auxiliary vector behind them, on a stack aligned as it has to be.       *)
ArgumentsArrive ==
    at = "running" =>
        LET argv == passed.argv
            envp == passed.envp
            after == Len(argv) + 2
        IN  /\ result.rsp % Alignment = 0
            /\ WordAt(0) = Len(argv)
            /\ WordAt(after - 1) = 0 /\ WordAt(after + Len(envp)) = 0
            /\ \A i \in DOMAIN argv : StringAt(WordAt(i)) = argv[i]
            /\ \A i \in DOMAIN envp : StringAt(WordAt(after + i - 1)) = envp[i]
            /\ WordAt(after + Len(envp) + 1) = AT_PHDR

(* Where segments do not overlap, a byte of a loaded one is the file's, or *)
(* zero behind the file's part; the break begins above it; and AT_PHDR     *)
(* points at a copy of the program headers.                                *)
Within(g, a) == g.load /\ a >= g.vaddr /\ a < g.vaddr + Max({g.memsz, g.filesz})
ImageFaithful ==
    at = "running" =>
        /\ \A n \in DOMAIN program : LET g == program[n] IN
              \A a \in g.vaddr..(g.vaddr + g.memsz - 1) :
                 (g.load /\ \A m \in DOMAIN program \ {n} : ~Within(program[m], a)) =>
                     /\ Peek(a) = IF a - g.vaddr < g.filesz THEN 50 + g.offset + a - g.vaddr ELSE 0
                     /\ a < result.brk
        /\ result.phdr # 0 =>
              \A k \in 0..(HeadersSize - 1) : Peek(result.phdr + k) = 50 + Headers + k

(* Every way out of the call gives back the kernel memory it took, once;   *)
(* but for the new space on success, and the buffer of the program headers *)
(* when reading them fails.                                                *)
BlocksReturned ==
    /\ ~freedTwice
    /\ at = "failed" /\ ~unread => blocks = {}
    /\ at = "running" => blocks = {The("space")}
==============================================================================
