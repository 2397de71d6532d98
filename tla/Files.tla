-------------------------------- MODULE Files --------------------------------
(***************************************************************************)
(* kernel/fs/vfs.cpp and tmpfs.cpp with the descriptor tables of           *)
(* kernel/sched/process.cpp and the file system calls of                   *)
(* kernel/sys/syscall.cpp: which inodes and open descriptions exist, who   *)
(* counts as holding them, and how the directory tree names them.          *)
(*                                                                         *)
(* A read-only root (the initrd) has one directory, with a tmpfs mounted   *)
(* over it.  A system call is one step: the calls take no lock, and what   *)
(* two of them do to each other half way is not modelled here.  A call     *)
(* that fails without an effect is no step.  Contents, modes and times are *)
(* left out; "file" stands for every kind of named inode but a directory.  *)
(***************************************************************************)
EXTENDS Naturals, FiniteSets, SequencesExt

CONSTANTS
    Procs, InitProc,     \* InitProc is the first process; it never exits
    Fds,                 \* 0 .. MAX_FILE_DESCRIPTORS - 1
    Inodes,              \* the memory inodes are allocated from
    Root, Covered, Tmp,  \* the initrd's root, its directory /tmp, tmpfs's root
    Descriptions,        \* the memory descriptions are allocated from, in order
    Names, TmpName,      \* the names processes use, and that of Covered
    Paths,               \* the relative paths they pass
    Null

ASSUME FilesAssumption ==
    /\ {Root, Covered, Tmp} \subseteq Inodes
    /\ InitProc \in Procs
    /\ Fds \subseteq Nat /\ Descriptions \subseteq Nat
    /\ Null \notin Inodes \cup Descriptions
    /\ \A path \in Paths : path \in Seq(Names \cup {"..", TmpName}) \ {<<>>}

VARIABLES
    inode,   \* each inode: kind, refs, parent, name, kids (m_children)
    open,    \* each FileDescription: its inode and its reference count
    fds,     \* m_descriptors of each process
    cwd,     \* m_working_directory
    proc     \* "none", "live", "zombie", or "stuck": a fork that failed half way

vars == <<inode, open, fds, cwd, proc>>

Freed == [kind |-> "free", refs |-> 0, parent |-> Null, name |-> Null, kids |-> <<>>]
Closed == [inode |-> Null, refs |-> 0]
NoFd == [to |-> Null, cloexec |-> FALSE]
NoFds == [f \in Fds |-> NoFd]

\* What resolution returns besides an inode: an error, or the pointer of a
\* parent that has been destroyed.  No step is modelled once a call has
\* followed such a pointer.
Error == "error"
Wild == "wild"

(* --- reference counts -------------------------------------------------- *)

Ref(ino, i) == [ino EXCEPT ![i].refs = @ + 1]

\* Inode::unref, and the destructor the last one runs: a directory gives back
\* its reference on each child.
RECURSIVE Unref(_, _)
Unref(ino, i) ==
    IF ino[i].refs > 1 THEN [ino EXCEPT ![i].refs = @ - 1]
    ELSE FoldLeft(Unref, [ino EXCEPT ![i] = Freed], ino[i].kids)

\* Mutant: every close lets go of the inode, not only the last.
ReleaseEach(st, d) ==
    IF st.open[d].refs > 1
    THEN [inode |-> Unref(st.inode, st.open[d].inode),
          open |-> [st.open EXCEPT ![d].refs = @ - 1]]
    ELSE [inode |-> Unref(st.inode, st.open[d].inode),
          open |-> [st.open EXCEPT ![d] = Closed]]

\* release_description, on inodes and descriptions together.
Release(st, d) ==
    IF st.open[d].refs > 1 THEN [st EXCEPT !.open[d].refs = @ - 1]
    ELSE [inode |-> Unref(st.inode, st.open[d].inode),
          open |-> [st.open EXCEPT ![d] = Closed]]

Here == [inode |-> inode, open |-> open]

\* close_descriptor for each descriptor of p in F, lowest first.
RECURSIVE ReleaseAll(_, _, _)
ReleaseAll(st, table, F) ==
    IF F = {} THEN st
    ELSE LET f == Min(F) IN ReleaseAll(Release(st, table[f].to), table, F \ {f})

CloseAll(p, F) ==
    LET used == {f \in F : fds[p][f].to # Null}
        after == ReleaseAll(Here, fds[p], used)
    IN  /\ inode' = after.inode
        /\ open' = after.open
        /\ fds' = [fds EXCEPT ![p] = [f \in Fds |-> IF f \in used THEN NoFd ELSE @[f]]]

(* --- directories and paths --------------------------------------------- *)

IsDir(i) == inode[i].kind = "dir"
ReadOnly(i) == i \in {Root, Covered}

Child(dir, n) == {c \in ToSet(inode[dir].kids) : inode[c].name = n}
Lookup(dir, n) ==
    IF Child(dir, n) = {} THEN Error ELSE CHOOSE c \in Child(dir, n) : TRUE

FollowMount(i) == IF i = Covered THEN Tmp ELSE i

\* Mutant: the root of a mount is no place to step down from.
MountPointOfNone(i) == Null

MountPointOf(i) == IF i = Tmp THEN Covered ELSE Null

\* One component of resolve: ".." of an inode without a parent is itself.
Walk(at, c) ==
    IF at \in {Error, Wild} THEN at
    ELSE IF c = ".."
         THEN IF inode[at].parent = Null THEN at
              ELSE IF inode[inode[at].parent].kind = "free" THEN Wild
              ELSE inode[at].parent
    ELSE IF ~IsDir(at) THEN Error
    ELSE FollowMount(Lookup(at, c))

RECURSIVE WalkAll(_, _)
WalkAll(at, path) == IF path = <<>> THEN at ELSE WalkAll(Walk(at, Head(path)), Tail(path))

Resolve(base, path) == WalkAll(FollowMount(base), path)
ResolveParent(base, path) == Resolve(base, Front(path))

\* The paths p can pass: from the working directory, from the root with /tmp/
\* in front, and for the at calls from a directory p has open.
Given(p) == {<<cwd[p], path>> : path \in Paths} \cup {<<Root, <<TmpName>> \o path>> : path \in Paths}
OpenDirs(p) ==
    {i \in {open[fds[p][f].to].inode : f \in {g \in Fds : fds[p][g].to # Null}} : IsDir(i)}
Starts(p) == Given(p) \cup (OpenDirs(p) \X Paths)

\* What resolve and resolve_parent make of them, where they succeed.
Found(S) == {Resolve(s[1], s[2]) : s \in S} \ {Error, Wild}
Places(S) ==
    {place \in {[dir |-> ResolveParent(s[1], s[2]), name |-> Last(s[2])] : s \in S} :
        place.dir \notin {Error, Wild} /\ IsDir(place.dir) /\ ~ReadOnly(place.dir)}

Free == {i \in Inodes : inode[i].kind = "free"}

\* TmpfsInode::create once it has its memory.
Add(dir, i, n, kind) ==
    [inode EXCEPT
        ![i] = [kind |-> kind, refs |-> 1, parent |-> dir, name |-> n, kids |-> <<>>],
        ![dir].kids = Append(@, i)]

\* Mutant: mkdir does not ask whether the path resolves already.
VacantUnasked(S) == {place \in Places(S) : Child(place.dir, place.name) = {}}

\* Where open, mkdir and mkfifo create: the path does not resolve and its
\* directory does.
Vacant(S) == {place \in Places(S) : place.name # ".." /\ Child(place.dir, place.name) = {}}

\* The walk up from the destination that sys_rename makes before it moves a
\* directory: the inodes it visits, and whether it comes to an end.
RECURSIVE Climb(_, _)
Climb(i, seen) ==
    IF i = Null THEN [ends |-> TRUE, seen |-> seen]
    ELSE IF i \in seen \/ inode[i].kind = "free" THEN [ends |-> FALSE, seen |-> seen]
    ELSE Climb(inode[i].parent, seen \cup {i})

\* Mutant: only the destination itself is compared with the source.
MayMoveAnywhere(source, dir) == source # dir

MayMove(source, dir) ==
    IsDir(source) => LET up == Climb(dir, {}) IN up.ends /\ source \notin up.seen

\* absolute_path_of, as a sequence of names from the root, or Error.
RECURSIVE AbsolutePath(_, _)
AbsolutePath(i, seen) ==
    LET at == IF inode[i].parent = Null THEN MountPointOf(i) ELSE i
        dir == IF at = Null THEN Null ELSE inode[at].parent
    IN  IF i = Root THEN <<>>
        ELSE IF dir = Null \/ i \in seen \/ at \notin ToSet(inode[dir].kids) THEN Error
        ELSE LET above == AbsolutePath(dir, seen \cup {i})
             IN  IF above = Error THEN Error ELSE Append(above, inode[at].name)

(* --- system calls ------------------------------------------------------ *)

Init ==
    LET dir(refs, parent, name, kids) ==
            [kind |-> "dir", refs |-> refs, parent |-> parent, name |-> name, kids |-> kids]
    IN  /\ inode = [i \in Inodes |->
                CASE i = Root -> dir(2, Null, Null, <<Covered>>)
                  [] i = Covered -> dir(2, Root, TmpName, <<>>)
                  [] i = Tmp -> dir(1, Null, Null, <<>>)
                  [] OTHER -> Freed]
        /\ open = [d \in Descriptions |-> Closed]
        /\ fds = [p \in Procs |-> NoFds]
        /\ cwd = [p \in Procs |-> IF p = InitProc THEN Root ELSE Null]
        /\ proc = [p \in Procs |-> IF p = InitProc THEN "live" ELSE "none"]

\* sys_mkdir, sys_mkdirat and sys_mkfifo.
Make(p, kind) ==
    /\ \E place \in Vacant(Starts(p)), i \in Free :
          inode' = Add(place.dir, i, place.name, kind)
    /\ UNCHANGED <<open, fds, cwd, proc>>

\* The lowest free descriptor at or above a number, in a table.
Candidates(table, lowest) == {f \in Fds : f >= lowest /\ table[f].to = Null}
LowestFd(table, lowest) == Min(Candidates(table, lowest))

Spare == {d \in Descriptions : open[d] = Closed}

\* sys_open and sys_openat from the inode on: a description, then a descriptor.
\* When either cannot be had the inode keeps what it had, a name included.
Opened(p, ino, i, cloexec) ==
    \/ /\ inode' = ino
       /\ UNCHANGED <<open, fds>>
    \/ /\ Spare # {} /\ Candidates(fds[p], 0) # {}
       /\ inode' = Ref(ino, i)
       /\ open' = [open EXCEPT ![Min(Spare)] = [inode |-> i, refs |-> 1]]
       /\ fds' = [fds EXCEPT ![p][LowestFd(fds[p], 0)] =
                     [to |-> Min(Spare), cloexec |-> cloexec]]

Open(p, cloexec) ==
    /\ \E i \in Found(Starts(p)) : Opened(p, inode, i, cloexec)
    /\ UNCHANGED <<cwd, proc>>

OpenCreate(p, cloexec) ==
    /\ \E place \in Vacant(Starts(p)), i \in Free :
          Opened(p, Add(place.dir, i, place.name, "file"), i, cloexec)
    /\ UNCHANGED <<cwd, proc>>

\* sys_pipe: an inode that never had a name, kept by its two descriptions.
Pipe(p) ==
    LET r == Min(Spare)
        w == Min(Spare \ {r})
        readFd == LowestFd(fds[p], 0)
        writeFd == Min(Candidates(fds[p], 0) \ {readFd})
        end(d) == [to |-> d, cloexec |-> FALSE]
    IN  /\ Cardinality(Spare) > 1 /\ Cardinality(Candidates(fds[p], 0)) > 1
        /\ \E i \in Free :
              /\ inode' = [inode EXCEPT ![i] = [Freed EXCEPT !.kind = "file", !.refs = 2]]
              /\ open' = [open EXCEPT ![r] = [inode |-> i, refs |-> 1],
                                      ![w] = [inode |-> i, refs |-> 1]]
        /\ fds' = [fds EXCEPT ![p][readFd] = end(r), ![p][writeFd] = end(w)]
        /\ UNCHANGED <<cwd, proc>>

\* sys_close.
Close(p, f) ==
    /\ fds[p][f].to # Null
    /\ CloseAll(p, {f})
    /\ UNCHANGED <<cwd, proc>>

\* sys_dup (lowest = 0), and F_DUPFD and F_DUPFD_CLOEXEC of sys_fcntl.
Dup(p, f, lowest, cloexec) ==
    /\ fds[p][f].to # Null
    /\ Candidates(fds[p], lowest) # {}
    /\ fds' = [fds EXCEPT ![p][LowestFd(fds[p], lowest)] =
                  [to |-> fds[p][f].to, cloexec |-> cloexec]]
    /\ open' = [open EXCEPT ![fds[p][f].to].refs = @ + 1]
    /\ UNCHANGED <<inode, cwd, proc>>

\* sys_dup2: what the target named before is closed first.
Dup2(p, f, to) ==
    LET d == fds[p][f].to
        after == IF fds[p][to].to = Null THEN Here ELSE Release(Here, fds[p][to].to)
    IN  /\ d # Null
        /\ f # to
        /\ inode' = after.inode
        /\ open' = [after.open EXCEPT ![d].refs = @ + 1]
        /\ fds' = [fds EXCEPT ![p][to] = [to |-> d, cloexec |-> FALSE]]
        /\ UNCHANGED <<cwd, proc>>

\* F_SETFD of sys_fcntl.
SetCloexec(p, f, cloexec) ==
    /\ fds[p][f].to # Null
    /\ fds' = [fds EXCEPT ![p][f].cloexec = cloexec]
    /\ UNCHANGED <<inode, open, cwd, proc>>

\* mark_unlinked.
Nameless(ino, i) == [ino EXCEPT ![i].parent = Null]

Without(kids, c) == SelectSeq(kids, LAMBDA k : k # c)

\* sys_unlink, sys_rmdir and sys_unlinkat.
Unlink(p) ==
    /\ \E place \in Places(Starts(p)) :
          \E child \in Child(place.dir, place.name) :
             /\ inode[child].kids = <<>>
             /\ inode' = Unref(Nameless([inode EXCEPT ![place.dir].kids = Without(@, child)],
                                        child), child)
    /\ UNCHANGED <<open, fds, cwd, proc>>

\* The checks of fs::rename and of TmpfsInode::rename.
MayRename(source, to, n) ==
    /\ n # ".."
    /\ source \notin Child(to, n)
    /\ MayMove(source, to)
    /\ \A r \in Child(to, n) : IsDir(r) = IsDir(source) /\ inode[r].kids = <<>>

\* Mutant: the moved inode keeps the parent it had.
MovedStaleParent(from, source, to, n) ==
    LET replaced == Child(to, n)
        left == [inode EXCEPT ![to].kids = SelectSeq(@, LAMBDA k : k \notin replaced)]
        out == [left EXCEPT ![from].kids = Without(@, source)]
        moved == [out EXCEPT ![to].kids = Append(@, source), ![source].name = n]
    IN  IF replaced = {} THEN moved
        ELSE LET r == Lookup(to, n) IN Unref(Nameless(moved, r), r)

\* TmpfsInode::rename: the replaced entry leaves, the source moves, and only
\* then does the replaced inode lose its reference.
Moved(from, source, to, n) ==
    LET replaced == Child(to, n)
        left == [inode EXCEPT ![to].kids = SelectSeq(@, LAMBDA k : k \notin replaced)]
        out == [left EXCEPT ![from].kids = Without(@, source)]
        moved == [out EXCEPT ![to].kids = Append(@, source),
                             ![source].name = n, ![source].parent = to]
    IN  IF replaced = {} THEN moved
        ELSE LET r == Lookup(to, n) IN Unref(Nameless(moved, r), r)

\* sys_rename.
Rename(p) ==
    /\ \E from, to \in Places(Given(p)) :
          \E source \in Child(from.dir, from.name) :
             /\ MayRename(source, to.dir, to.name)
             /\ inode' = Moved(from.dir, source, to.dir, to.name)
    /\ UNCHANGED <<open, fds, cwd, proc>>

\* sys_chdir.
Chdir(p) ==
    /\ \E i \in Found(Given(p)) \cup {Root, Tmp} :
          /\ IsDir(i)
          /\ inode' = Unref(Ref(inode, i), cwd[p])
          /\ cwd' = [cwd EXCEPT ![p] = i]
    /\ UNCHANGED <<open, fds, proc>>

\* sys_fork: the child's table is the parent's, and its working directory too.
Fork(p, q) ==
    LET shared(d) == Cardinality({f \in Fds : fds[p][f].to = d})
    IN  /\ proc[q] = "none"
        /\ proc' = [proc EXCEPT ![q] = "live"]
        /\ fds' = [fds EXCEPT ![q] = fds[p]]
        /\ open' = [d \in Descriptions |-> [open[d] EXCEPT !.refs = @ + shared(d)]]
        /\ inode' = Ref(inode, cwd[p])
        /\ cwd' = [cwd EXCEPT ![q] = cwd[p]]

\* The two returns of sys_fork that leave the child in s_processes: no address
\* space (no descriptors yet) and no thread.
ForkFails(p, q) ==
    /\ proc[q] = "none"
    /\ proc' = [proc EXCEPT ![q] = "stuck"]
    /\ inode' = Ref(inode, cwd[p])
    /\ cwd' = [cwd EXCEPT ![q] = cwd[p]]
    /\ \/ UNCHANGED <<fds, open>>
       \/ /\ fds' = [fds EXCEPT ![q] = fds[p]]
          /\ open' = [d \in Descriptions |-> [open[d] EXCEPT !.refs =
                          @ + Cardinality({f \in Fds : fds[p][f].to = d})]]

\* sys_execve, as far as descriptors go.
Exec(p) ==
    /\ CloseAll(p, {f \in Fds : fds[p][f].cloexec})
    /\ UNCHANGED <<cwd, proc>>

\* mark_exited, and the destructor waitpid runs.
Exit(p) ==
    /\ p # InitProc
    /\ proc' = [proc EXCEPT ![p] = "zombie"]
    /\ CloseAll(p, Fds)
    /\ UNCHANGED cwd

Reap(p) ==
    /\ proc[p] = "zombie"
    /\ proc' = [proc EXCEPT ![p] = "none"]
    /\ inode' = Unref(inode, cwd[p])
    /\ cwd' = [cwd EXCEPT ![p] = Null]
    /\ UNCHANGED <<open, fds>>

Call(p) ==
    \/ Make(p, "dir") \/ Make(p, "file")
    \/ \E cloexec \in BOOLEAN : Open(p, cloexec) \/ OpenCreate(p, cloexec)
    \/ Pipe(p)
    \/ \E f \in Fds : Close(p, f)
    \/ \E f, lowest \in Fds, cloexec \in BOOLEAN : Dup(p, f, lowest, cloexec)
    \/ \E f, to \in Fds : Dup2(p, f, to)
    \/ \E f \in Fds, cloexec \in BOOLEAN : SetCloexec(p, f, cloexec)
    \/ Unlink(p) \/ Rename(p) \/ Chdir(p)
    \/ \E q \in Procs : Fork(p, q) \/ ForkFails(p, q)
    \/ Exec(p) \/ Exit(p)

Next ==
    \/ \E p \in Procs : proc[p] = "live" /\ Call(p)
    \/ \E p \in Procs : Reap(p)

Spec == Init /\ [][Next]_vars

(* --- properties -------------------------------------------------------- *)

TypeOK ==
    /\ inode \in [Inodes -> [kind : {"free", "dir", "file"}, refs : Nat,
                             parent : Inodes \cup {Null},
                             name : Names \cup {TmpName, Null}, kids : Seq(Inodes)]]
    /\ open \in [Descriptions -> [inode : Inodes \cup {Null}, refs : Nat]]
    /\ fds \in [Procs -> [Fds -> [to : Descriptions \cup {Null}, cloexec : BOOLEAN]]]
    /\ cwd \in [Procs -> Inodes \cup {Null}]
    /\ proc \in [Procs -> {"none", "live", "zombie", "stuck"}]

Live == {i \in Inodes : inode[i].kind # "free"}
IsOpen == {d \in Descriptions : open[d] # Closed}

Holders(i) ==
    Cardinality({d \in Live : i \in ToSet(inode[d].kids)})
      + Cardinality({d \in IsOpen : open[d].inode = i})
      + Cardinality({p \in Procs : cwd[p] = i})
      + (IF i \in {Root, Covered, Tmp} THEN 1 ELSE 0)

\* Each count is the number of its holders: a description's the descriptors on
\* it in every table, an inode's the directory entries, descriptions, working
\* directories and mounts.  What has a holder has not been destroyed, and what
\* has none has (Inode::unref and release_description run exactly once per
\* holder, through dup, fork, exec, exit, unlink and rename).
RefsExact ==
    /\ \A i \in Inodes : inode[i].refs = Holders(i)
    /\ \A i \in Inodes : (inode[i].refs = 0) = (i \notin Live)
    /\ \A d \in Descriptions :
          /\ open[d].refs = Cardinality({pf \in Procs \X Fds : fds[pf[1]][pf[2]].to = d})
          /\ (open[d].refs = 0) = (d \notin IsOpen)

\* A directory names each child once, no two children alike, and a child's
\* m_parent is the directory that names it: what resolve, "..", getcwd and
\* the walk in fs::rename all rely on.
TreeSound ==
    \A d \in Live : LET kids == inode[d].kids IN
        /\ kids # <<>> => IsDir(d)
        /\ \A m, n \in DOMAIN kids :
              /\ inode[kids[m]].parent = d
              /\ m # n => inode[kids[m]].name # inode[kids[n]].name

RECURSIVE Below(_)
Below(S) ==
    LET more == S \cup UNION {ToSet(inode[i].kids) : i \in S}
                 \cup {FollowMount(i) : i \in S}
    IN  IF more = S THEN S ELSE Below(more)

Held == {open[d].inode : d \in IsOpen} \cup {cwd[p] : p \in {q \in Procs : cwd[q] # Null}}

\* Nothing is lost: every inode in memory can be reached from the root or from
\* something a process holds, so no sequence of renames detaches a subtree
\* (the reason for the walk in fs::rename).
NothingDetached == Live \subseteq Below({Root} \cup Held)

\* Together: the names form one tree, in which everything in memory has a place
\* unless a process alone still holds it.
TreeWhole == TypeOK /\ TreeSound /\ NothingDetached

\* getcwd is right in both directions: the path absolute_path_of builds leads
\* back to the directory, and it builds one whenever the directory can be
\* reached from the root; otherwise it fails.
GetcwdExact ==
    \A p \in {q \in Procs : cwd[q] # Null} :
        LET path == AbsolutePath(cwd[p], {})
        IN  IF path = Error THEN cwd[p] \notin Below({Root})
            ELSE Resolve(Root, path) = cwd[p]
=============================================================================
