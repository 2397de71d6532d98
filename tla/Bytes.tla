-------------------------------- MODULE Bytes --------------------------------
(***************************************************************************)
(* Strings, sorting and searching in the C library (user/libc/src/         *)
(* string.c, stdlib.c, posix.c; kernel/lib/string.cpp has the same loops). *)
(*                                                                         *)
(* A string is a buffer of bytes: the text, its NUL, and whatever lay      *)
(* behind it. Two texts are typed, byte by byte; strtok then takes the     *)
(* first apart, keeping its place in a static variable between calls, and  *)
(* its bytes are also what is sorted, searched and put in a tree.          *)
(***************************************************************************)
EXTENDS Integers, Sequences, FiniteSets, TLC
LOCAL INSTANCE FiniteSetsExt
LOCAL INSTANCE SequencesExt

CONSTANTS
    Letters,    \* the bytes typed
    Capitals,   \* those of them that are capitals; `lower' adds 32
    Delimiters, \* sets of bytes strtok is told to cut at
    MaxText,    \* bytes typed in all
    Word,       \* bytes in an unsigned long
    Gaps        \* the gaps of qsort, GAPS

VARIABLES
    text, other, \* the two texts
    delimiters,  \* of strtok
    cells,       \* the buffer strtok works on; <<>> before its first call
    saved,       \* where strtok goes on; -1 is a null pointer
    tokens,      \* what strtok has returned
    tree,        \* the nodes of a search tree: [key, left, right], 0 is null
    root

bvars == <<text, other, delimiters, cells, saved, tokens, tree, root>>

Junk == 255
Size == 2 * MaxText + 2
Buffer(t) == [i \in 0..Size - 1 |->
    CASE i < Len(t) -> t[i + 1] [] i = Len(t) -> 0 [] OTHER -> Junk]
Prefix(t, n) == SubSeq(t, 1, IF n < Len(t) THEN n ELSE Len(t))

-----------------------------------------------------------------------------
(* Memory                                                                  *)

Store(m, d, bytes) == [i \in DOMAIN m |-> IF i - d \in DOMAIN bytes THEN bytes[i - d] ELSE m[i]]

\* Whole words while there are any, then bytes.
RECURSIVE memcpy(_, _, _, _)
memcpy(m, d, s, n) ==
    LET step == IF n >= Word THEN Word ELSE 1
    IN  IF n = 0 THEN m
        ELSE memcpy(Store(m, d, [k \in 0..step - 1 |-> m[s + k]]), d + step, s + step, n - step)

RECURSIVE Backwards(_, _, _, _)
Backwards(m, d, s, n) ==
    IF n = 0 THEN m ELSE Backwards([m EXCEPT ![d + n - 1] = m[s + n - 1]], d, s, n - 1)

\* Mutant: overlap is not looked at.
memmove_forward(m, d, s, n) == memcpy(m, d, s, n)
memmove(m, d, s, n) ==
    IF d = s \/ n = 0 THEN m
    ELSE IF d < s THEN memcpy(m, d, s, n) ELSE Backwards(m, d, s, n)

-----------------------------------------------------------------------------
(* Strings                                                                 *)

strnlen(s, max) == Min({i \in DOMAIN s : i = max \/ s[i] = 0})
strlen(s) == strnlen(s, Size)
Text(s) == [i \in 1..strlen(s) |-> s[i - 1]]
Rest(s, at) == [i \in 0..Size - 1 - at |-> s[i + at]]

\* The bytes a comparison steps over.
Stepped(a, b, n) == Min({i \in DOMAIN a : i = n \/ a[i] = 0 \/ a[i] # b[i]})

lower(c) == IF c \in Capitals THEN c + 32 ELSE c
Folded(s) == [i \in DOMAIN s |-> lower(s[i])]

strcmp(a, b) == LET i == Stepped(a, b, Size) IN a[i] - b[i]
\* Mutant: the byte after the last one to compare decides.
strncmp_over(a, b, n) == LET i == Stepped(a, b, n) IN a[i] - b[i]
strncmp(a, b, n) ==
    LET i == Stepped(a, b, n) IN IF i = n THEN 0 ELSE a[i] - b[i]
strcasecmp(a, b) == strcmp(Folded(a), Folded(b))
strncasecmp(a, b, n) == strncmp(Folded(a), Folded(b), n)

strncpy(d, s, n) ==
    LET k == strnlen(s, n)
    IN  [i \in DOMAIN d |-> CASE i < k -> s[i] [] i >= k /\ i < n -> 0 [] OTHER -> d[i]]
stpncpy(d, s, n) == [into |-> strncpy(d, s, n), end |-> strnlen(s, n)]
strncat(d, s, n) ==
    LET at == strlen(d)
        k == strnlen(s, n)
    IN  [i \in DOMAIN d |->
            CASE i >= at /\ i < at + k -> s[i - at] [] i = at + k -> 0 [] OTHER -> d[i]]

\* Mutant: no byte is kept for the NUL.
strxfrm_full(d, s, n) ==
    LET copied == IF strlen(s) < n THEN strlen(s) ELSE n
    IN  [i \in DOMAIN d |-> CASE i < copied -> s[i] [] i = copied -> 0 [] OTHER -> d[i]]
strxfrm(d, s, n) ==
    LET copied == IF strlen(s) < n - 1 THEN strlen(s) ELSE n - 1
    IN  IF n = 0 THEN d
        ELSE [i \in DOMAIN d |-> CASE i < copied -> s[i] [] i = copied -> 0 [] OTHER -> d[i]]
strndup(s, limit) ==
    LET n == strnlen(s, limit) IN [i \in DOMAIN s |-> CASE i < n -> s[i] [] i = n -> 0 [] OTHER -> Junk]

\* A place in a string; -1 is a null pointer.
\* The search from one place of the haystack: how far the needle matches.
RECURSIVE Matches(_, _, _)
Matches(h, n, i) == IF h[i] = n[i] /\ n[i] # 0 THEN Matches(h, n, i + 1) ELSE n[i] = 0
RECURSIVE Seek(_, _, _)
Seek(h, n, at) ==
    IF h[at] = 0 THEN -1 ELSE IF Matches(Rest(h, at), n, 0) THEN at ELSE Seek(h, n, at + 1)
\* Mutant: after a failure the search goes on behind the byte that differed.
RECURSIVE SeekFar(_, _, _)
SeekFar(h, n, at) ==
    IF h[at] = 0 THEN -1 ELSE IF Matches(Rest(h, at), n, 0) THEN at
    ELSE LET run == Stepped(Rest(h, at), n, Size)
         IN  IF h[at + run] = 0 THEN -1 ELSE SeekFar(h, n, at + run + 1)
strstr_far(h, n) == IF n[0] = 0 THEN 0 ELSE SeekFar(h, n, 0)
strstr(h, n) == IF n[0] = 0 THEN 0 ELSE Seek(h, n, 0)

strspn(s, set) == Min({i \in DOMAIN s : s[i] = 0 \/ s[i] \notin set})
strcspn(s, set) == Min({i \in DOMAIN s : s[i] = 0 \/ s[i] \in set})

-----------------------------------------------------------------------------
(* Sorting and searching; the keys are bytes                               *)

Swap(a, i, j) == [a EXCEPT ![i] = a[j], ![j] = a[i]]
RECURSIVE Sink(_, _, _)
Sink(a, j, gap) ==
    IF j < gap \/ a[j - gap] <= a[j] THEN a ELSE Sink(Swap(a, j - gap, j), j - gap, gap)
RECURSIVE Pass(_, _, _, _)
Pass(a, count, i, gap) == IF i >= count THEN a ELSE Pass(Sink(a, i, gap), count, i + 1, gap)
\* Mutant: a pass starts one element late.
OneGapLate(a, count, gap) == IF gap >= count THEN a ELSE Pass(a, count, gap + 1, gap)
OneGap(a, count, gap) == IF gap >= count THEN a ELSE Pass(a, count, gap, gap)
qsort(a, count) ==
    IF count < 2 THEN a ELSE FoldLeft(LAMBDA b, gap : OneGap(b, count, gap), a, Gaps)

RECURSIVE Halve(_, _, _, _)
Halve(a, key, low, high) ==
    LET middle == low + (high - low) \div 2
    IN  IF low >= high THEN -1
        ELSE IF key = a[middle] THEN middle
        ELSE IF key < a[middle] THEN Halve(a, key, low, middle) ELSE Halve(a, key, middle + 1, high)
bsearch(a, count, key) == Halve(a, key, 0, count)

\* The way down a tree: the node with the key, or the one its slot is in.
RECURSIVE Descend(_, _, _)
Descend(nodes, at, key) ==
    LET side == IF key < nodes[at].key THEN "left" ELSE "right"
    IN  IF nodes[at].key = key \/ nodes[at][side] = 0 THEN [node |-> at, side |-> side]
        ELSE Descend(nodes, nodes[at][side], key)

\* Mutant: the slot a new node goes to is always the right one.
tsearch_right(key) ==
    LET new == Append(tree, [key |-> key, left |-> 0, right |-> 0])
        slot == Descend(tree, root, key)
    IN  IF root = 0 THEN tree' = new /\ root' = 1
        ELSE /\ tree' = IF tree[slot.node].key = key THEN tree
                        ELSE [new EXCEPT ![slot.node].right = Len(new)]
             /\ UNCHANGED root
tsearch(key) ==
    LET new == Append(tree, [key |-> key, left |-> 0, right |-> 0])
        slot == Descend(tree, root, key)
    IN  IF root = 0 THEN tree' = new /\ root' = 1
        ELSE /\ tree' = IF tree[slot.node].key = key THEN tree
                        ELSE [new EXCEPT ![slot.node][slot.side] = Len(new)]
             /\ UNCHANGED root
tfind(key) ==
    IF root = 0 THEN 0
    ELSE LET slot == Descend(tree, root, key) IN IF tree[slot.node].key = key THEN slot.node ELSE 0

-----------------------------------------------------------------------------
(* The program that uses them                                              *)

BytesInit ==
    /\ text = <<>> /\ other = <<>>
    /\ delimiters = {} /\ cells = <<>> /\ saved = -1 /\ tokens = <<>>
    /\ tree = <<>> /\ root = 0

\* A byte of the first text, which also goes into the tree.
TypeText ==
    /\ cells = <<>> /\ other = <<>> /\ Len(text) < MaxText
    /\ \E c \in Letters : text' = Append(text, c) /\ tsearch(c)
    /\ UNCHANGED <<other, delimiters, cells, saved, tokens>>

TypeOther ==
    /\ cells = <<>> /\ Len(text) + Len(other) < MaxText
    /\ \E c \in Letters : other' = Append(other, c)
    /\ UNCHANGED <<text, delimiters, cells, saved, tokens, tree, root>>

\* strtok from place s of buffer m.
\* Mutant: the next call starts at the delimiter itself, and a token that
\* ends the string leaves the place where it was.
TokenStuck(m, s, set) ==
    LET from == s + strspn(Rest(m, s), set)
        end == from + strcspn(Rest(m, from), set)
    IN  /\ cells' = [m EXCEPT ![end] = 0]
        /\ saved' = IF m[end] # 0 THEN end ELSE -1
        /\ tokens' = IF m[from] = 0 THEN tokens ELSE Append(tokens, from)
Token(m, s, set) ==
    LET from == s + strspn(Rest(m, s), set)
        end == from + strcspn(Rest(m, from), set)
    IN  IF m[from] = 0 THEN cells' = m /\ saved' = -1 /\ UNCHANGED tokens
        ELSE /\ cells' = [m EXCEPT ![end] = 0]
             /\ saved' = IF m[end] # 0 THEN end + 1 ELSE -1
             /\ tokens' = Append(tokens, from)

strtok_first ==
    /\ cells = <<>> /\ other = <<>>
    /\ \E set \in Delimiters : delimiters' = set /\ Token(Buffer(text), 0, set)
    /\ UNCHANGED <<text, other, tree, root>>
strtok_next ==
    /\ cells # <<>> /\ saved # -1
    /\ Token(cells, saved, delimiters)
    /\ UNCHANGED <<text, other, delimiters, tree, root>>

BytesNext == TypeText \/ TypeOther \/ strtok_first \/ strtok_next

-----------------------------------------------------------------------------
(* Properties                                                              *)

(* memmove puts the bytes that were at its source at its destination,      *)
(* whatever the overlap, and touches nothing else; and so does memcpy      *)
(* when it copies downwards, which memmove relies on (string.c:22-37).     *)
MoveExact ==
    LET m == [i \in 0..Size - 1 |-> i]
        Moved(d, s, n) == [i \in DOMAIN m |-> IF i \in d..d + n - 1 THEN s + i - d ELSE i]
    IN  text \o other = <<>> => \A n \in 0..Size : \A d, s \in 0..Size - n : memmove(m, d, s, n) = Moved(d, s, n)

(* strcmp orders the strings as their texts are ordered, byte by byte;     *)
(* strncmp is strcmp of the strings cut short and strcasecmp is strcmp of  *)
(* the strings in small letters; none looks behind the NUL                 *)
(* (string.c:96-115, 220-239).                                             *)
OrdersAgree ==
    LET a == Buffer(text)
        b == Buffer(other)
        Small(t) == [i \in DOMAIN t |-> lower(t[i])]
        Sign(n) == IF n < 0 THEN -1 ELSE IF n > 0 THEN 1 ELSE 0
        Before(t, u) == \E i \in 0..Len(t) : /\ SubSeq(t, 1, i) = Prefix(u, i) /\ Len(u) > i
                                             /\ (i = Len(t) \/ t[i + 1] < u[i + 1])
        Order(t, u) == IF t = u THEN 0 ELSE IF Before(t, u) THEN -1 ELSE 1
    IN  cells = <<>> =>
        /\ Sign(strcmp(a, b)) = Order(text, other) /\ strcmp(b, a) = -strcmp(a, b)
        /\ Sign(strcasecmp(a, b)) = Order(Small(text), Small(other))
        /\ \A n \in 0..MaxText + 1 :
            /\ Sign(strncmp(a, b, n)) = Order(Prefix(text, n), Prefix(other, n))
            /\ Sign(strncasecmp(a, b, n)) = Order(Small(Prefix(text, n)), Small(Prefix(other, n)))

(* The bounded copies give the text cut at the bound and write nothing     *)
(* behind it: strncpy fills the bound exactly, strxfrm keeps a byte of it  *)
(* for the NUL, strncat and strndup add the NUL to it (string.c:125-150,   *)
(* 204-213, 320-330, 347-359).                                             *)
CopiesBounded ==
    LET d == Buffer(text)
        s == Buffer(other)
        Kept(c, n) == \A i \in DOMAIN d : i >= n => c[i] = d[i]
    IN  cells = <<>> => \A n \in 0..MaxText + 1 :
        /\ Kept(strncpy(d, s, n), n) /\ Kept(strxfrm(d, s, n), n)
        /\ Prefix(Text(strncpy(d, s, n) @@ (Size :> 0)), n) = Prefix(other, n)
        /\ n > 0 => Text(strxfrm(d, s, n)) = Prefix(other, n - 1)
        /\ Text(strncat(d, s, n)) = text \o Prefix(other, n)
        /\ Kept(strncat(d, s, n), Len(text \o Prefix(other, n)) + 1)
        /\ Text(strndup(s, n)) = Prefix(other, n)
        /\ stpncpy(d, s, n).end = Len(Prefix(other, n))

(* strstr gives the first place the needle is at, and a null pointer only  *)
(* if there is none (string.c:172-187).                                    *)
FoundFirst ==
    LET places == {i \in 0..Len(text) - Len(other) : SubSeq(text, i + 1, i + Len(other)) = other}
    IN  cells = <<>> => strstr(Buffer(text), Buffer(other)) = IF places = {} THEN -1 ELSE Min(places)

(* strtok returns the runs of bytes between delimiters, in order, each     *)
(* ended by a NUL where it lies; when it has no place left to go on from   *)
(* it has returned all of them (string.c:282-304).                         *)
TokensExact ==
    LET IsRun(i, j) == /\ \A k \in i..j : text[k] \notin delimiters
                       /\ i = 1 \/ text[i - 1] \in delimiters
                       /\ j = Len(text) \/ text[j + 1] \in delimiters
        runs == {<<i, j>> \in (1..Len(text)) \X (1..Len(text)) : i <= j /\ IsRun(i, j)}
        Returned(k) == <<tokens[k] + 1, tokens[k] + strlen(Rest(cells, tokens[k]))>>
    IN  cells # <<>> =>
        /\ \A k \in DOMAIN tokens : Returned(k) \in runs
        /\ \A k \in 1..Len(tokens) - 1 : tokens[k] < tokens[k + 1]
        /\ saved = -1 => Cardinality(runs) = Len(tokens)

(* qsort gives the same elements in order, and bsearch then finds a key    *)
(* exactly if it is there (stdlib.c:669-721).                              *)
SortedAndFound ==
    LET count == Len(text)
        a == [i \in 0..count - 1 |-> text[i + 1]]
        sorted == qsort(a, count)
        Times(f, c) == Cardinality({i \in DOMAIN f : f[i] = c})
    IN  other = <<>> /\ cells = <<>> =>
        /\ \A i \in 1..count - 1 : sorted[i - 1] <= sorted[i]
        /\ \A c \in Letters :
            /\ Times(sorted, c) = Times(a, c)
            /\ LET at == bsearch(sorted, count, c)
               IN  IF Times(a, c) = 0 THEN at = -1 ELSE sorted[at] = c

(* Every key put in a search tree is found again, at the node it was put   *)
(* in, whatever was put in later, and no key has two nodes                 *)
(* (posix.c:426-472).                                                      *)
TreeKeeps ==
    /\ \A n \in DOMAIN tree : tfind(tree[n].key) = n
    /\ \A c \in Letters : tfind(c) # 0 <=> \E i \in DOMAIN text : text[i] = c
==============================================================================
