-------------------------------- MODULE Ustar --------------------------------
(***************************************************************************)
(* The initial ramdisk (fs/ustar.cpp): parse walks the blocks of a tar     *)
(* archive and builds the tree of inodes.  The archive of the model is     *)
(* written entry by entry; a block is a header, a block of data or zero,   *)
(* and a path a sequence of names.                                         *)
(***************************************************************************)
EXTENDS Naturals, Sequences, FiniteSets

CONSTANTS
    BlockSize,
    Paths,       \* paths of entries
    Sizes,       \* sizes in bytes
    Kinds,       \* type flags: "file", "dir", "link"
    MaxEntries

VARIABLES
    entries,     \* what the archive was made from
    image,       \* its blocks
    offset,      \* parse: block it is at
    inodes,      \* sequence of [parent, name, type, data, size]; 1 is the root
    parsing      \* "writing", "parsing", "done"

uvars == <<entries, image, offset, inodes, parsing>>

Header(e) == <<"header", e>>
Zero == <<"zero">>
Data(i, n) == <<"data", i, n>>
align_up(n) == (n + BlockSize - 1) \div BlockSize

UInit ==
    /\ entries = <<>> /\ image = <<>> /\ offset = 1 /\ parsing = "writing"
    /\ inodes = <<[parent |-> 0, name |-> "/", type |-> "dir", data |-> 0, size |-> 0]>>

\* tar: the header, then the contents padded to whole blocks.
add_entry(e) ==
    /\ parsing = "writing" /\ Len(entries) < MaxEntries
    /\ entries' = Append(entries, e)
    /\ image' = image \o <<Header(e)>>
                \o [n \in 1..align_up(e.size) |-> Data(Len(entries) + 1, n)]
    /\ UNCHANGED <<offset, inodes, parsing>>
finish ==
    /\ parsing = "writing" /\ parsing' = "parsing"
    /\ image' = image \o <<Zero, Zero>>
    /\ UNCHANGED <<entries, offset, inodes>>

Child(nodes, dir, name) == {i \in 1..Len(nodes) : nodes[i].parent = dir /\ nodes[i].name = name}

\* A bug: a component that is there is made again.
RECURSIVE ensure_path_anew(_, _, _, _)
ensure_path_anew(nodes, current, path, type) ==
    IF path = <<>> THEN <<nodes, current>>
    ELSE LET made == Append(nodes, [parent |-> current, name |-> Head(path), data |-> 0, size |-> 0,
                                    type |-> IF Len(path) = 1 THEN type ELSE "dir"])
         IN  ensure_path_anew(made, Len(made), Tail(path), type)

\* ensure_path: <<nodes, the inode of the path>>; components that are not
\* there are made, directories all but the last.
RECURSIVE ensure_path(_, _, _, _)
ensure_path(nodes, current, path, type) ==
    IF path = <<>> THEN <<nodes, current>>
    ELSE LET found == Child(nodes, current, Head(path))
             made == Append(nodes, [parent |-> current, name |-> Head(path), data |-> 0, size |-> 0,
                                    type |-> IF Len(path) = 1 THEN type ELSE "dir"])
         IN  IF found # {}
             THEN ensure_path(nodes, CHOOSE i \in found : \A j \in found : i <= j, Tail(path), type)
             ELSE ensure_path(made, Len(made), Tail(path), type)

\* A bug: a file's data is taken to start at its header.
parse_header ==
    /\ parsing = "parsing"
    /\ IF offset > Len(image) \/ image[offset][1] # "header"
       THEN parsing' = "done" /\ UNCHANGED <<offset, inodes>>
       ELSE LET e == image[offset][2]
                made == ensure_path(inodes, 1, e.path, e.kind)
            IN  /\ inodes' = CASE e.kind = "dir" -> made[1]
                               [] e.kind = "file" ->
                                    [made[1] EXCEPT ![made[2]].data = offset,
                                                    ![made[2]].size = e.size]
                               [] OTHER -> inodes
                /\ offset' = offset + 1 + align_up(e.size)
                /\ UNCHANGED parsing
    /\ UNCHANGED <<entries, image>>

\* One turn of the loop of parse.
parse ==
    /\ parsing = "parsing"
    /\ IF offset > Len(image) \/ image[offset][1] # "header"
       THEN parsing' = "done" /\ UNCHANGED <<offset, inodes>>
       ELSE LET e == image[offset][2]
                made == ensure_path(inodes, 1, e.path, e.kind)
            IN  /\ inodes' = CASE e.kind = "dir" -> made[1]
                               [] e.kind = "file" ->
                                    [made[1] EXCEPT ![made[2]].data = offset + 1,
                                                    ![made[2]].size = e.size]
                               [] OTHER -> inodes
                /\ offset' = offset + 1 + align_up(e.size)
                /\ UNCHANGED parsing
    /\ UNCHANGED <<entries, image>>

UNext ==
    \/ \E k \in Kinds, p \in Paths, s \in Sizes :
          add_entry([kind |-> k, path |-> p, size |-> IF k = "file" THEN s ELSE 0])
    \/ finish \/ parse

-----------------------------------------------------------------------------

RECURSIVE PathOf(_)
PathOf(i) == IF i = 1 THEN <<>> ELSE Append(PathOf(inodes[i].parent), inodes[i].name)
Listed == {i \in 1..Len(entries) : entries[i].kind # "link"}
Prefixes(p) == {SubSeq(p, 1, n) : n \in 0..Len(p)}

(* The tree holds exactly the paths of the archive and the directories     *)
(* above them, each once, whether or not the archive lists the directories *)
(* ("GNU tar omits them often enough to matter").                          *)
TreeFaithful ==
    parsing = "done" =>
        /\ {PathOf(i) : i \in 1..Len(inodes)} =
               {<<>>} \cup UNION {Prefixes(entries[i].path) : i \in Listed}
        /\ \A i, j \in 1..Len(inodes) : PathOf(i) = PathOf(j) => i = j

(* A file's data is that of the last entry with its path, also behind      *)
(* entries that are skipped and files that end on a block boundary.        *)
DataFaithful ==
    parsing = "done" =>
    \A i \in Listed :
        (entries[i].kind = "file" /\ \A j \in Listed : j > i => entries[j].path # entries[i].path) =>
            \E n \in 1..Len(inodes) :
                /\ PathOf(n) = entries[i].path /\ inodes[n].size = entries[i].size
                /\ \A b \in 1..align_up(entries[i].size) :
                       image[inodes[n].data + b - 1] = Data(i, b)
=============================================================================
