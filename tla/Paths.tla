------------------------------- MODULE Paths --------------------------------
(***************************************************************************)
(* Names of files in the C library: basename, dirname and fnmatch of       *)
(* user/libc/src/posix.c, realpath of posix_files.c.  A string is a        *)
(* sequence of characters, grown one at a time; a position past its end    *)
(* reads "nul".                                                            *)
(***************************************************************************)
EXTENDS Integers, Sequences, FiniteSets

CONSTANTS
    PathLetters, MaxPath,       \* paths tried
    Cwd,                        \* the working directory, as a path
    Pieces, MaxPieces,          \* what glob patterns are made of: [kind, text, chars, negated]
    Subjects,                   \* strings they are matched against
    GlobFlags                   \* sets of flags

VARIABLES path, glob            \* glob: the pieces chosen

pathvars == <<path, glob>>

At(s, i) == IF i <= Len(s) THEN s[i] ELSE "nul"
From(s, i) == SubSeq(s, i, Len(s))
Slash == "/"

(***************************************************************************)
(* basename and dirname                                                    *)
(***************************************************************************)
\* The string without its trailing slashes; one character always stays.
Trimmed(s) ==
    LET kept == {n \in 1..Len(s) : n = 1 \/ s[n] # Slash}
    IN SubSeq(s, 1, CHOOSE n \in kept : \A m \in kept : m <= n)

\* strrchr: the last slash, 0 if there is none.
strrchr(s) ==
    LET hits == {i \in 1..Len(s) : s[i] = Slash}
    IN IF hits = {} THEN 0 ELSE CHOOSE i \in hits : \A j \in hits : j <= i

basename(s) ==
    LET t == Trimmed(s) IN
    IF s = <<>> THEN <<".">>
    ELSE IF t = <<Slash>> THEN t
    ELSE From(t, strrchr(t) + 1)

\* A bug: the slashes before the name are cut to the last one only.
dirname_rest(s) ==
    LET t == Trimmed(s)  cut == strrchr(t) IN
    IF s = <<>> \/ cut = 0 THEN <<".">>
    ELSE IF cut = 1 THEN <<Slash>> ELSE SubSeq(t, 1, cut - 1)

dirname(s) ==
    LET t == Trimmed(s)
        slash == strrchr(t)
        cut == {n \in 0..(slash - 1) : \A i \in (n + 1)..(slash - 1) : t[i] = Slash}
    IN IF s = <<>> \/ slash = 0 THEN <<".">>
       ELSE IF slash = 1 THEN <<Slash>>
       ELSE SubSeq(t, 1, CHOOSE n \in cut : \A m \in cut : n <= m)

(***************************************************************************)
(* realpath: the text of the answer, before the file is looked up          *)
(***************************************************************************)
\* A bug: the slash before the component stays.
BackOver(out) == SubSeq(out, 1, strrchr(out))
\* Back over the last component, and its slash.
Back(out) ==
    LET cut == strrchr(out) IN IF cut = 0 THEN <<>> ELSE SubSeq(out, 1, cut - 1)

RECURSIVE Resolve(_, _)
Resolve(s, out) ==
    LET start == {i \in 1..Len(s) : s[i] # Slash}
        a == CHOOSE i \in start : \A j \in start : i <= j
        stop == {j \in a..Len(s) : s[j] = Slash}
        b == IF stop = {} THEN Len(s) + 1 ELSE CHOOSE j \in stop : \A k \in stop : j <= k
        component == SubSeq(s, a, b - 1)
    IN IF start = {} THEN out
       ELSE Resolve(From(s, b),
                    IF component = <<".">> THEN out
                    ELSE IF component = <<".", ".">> THEN Back(out)
                    ELSE out \o <<Slash>> \o component)

realpath(s) ==
    LET base == IF s[1] = Slash \/ Cwd = <<Slash>> THEN <<>> ELSE Cwd
        out == Resolve(s, base)
    IN IF out = <<>> THEN <<Slash>> ELSE out

(***************************************************************************)
(* fnmatch                                                                 *)
(***************************************************************************)
Order == <<"-", ".", "/", "A", "B", "[", "]", "a", "b", "c">>
Code(c) == IF \E i \in 1..Len(Order) : Order[i] = c THEN CHOOSE i \in 1..Len(Order) : Order[i] = c ELSE 0
fold(c, flags) ==
    IF "casefold" \notin flags THEN c ELSE CASE c = "A" -> "a" [] c = "B" -> "b" [] OTHER -> c
Alpha == {"A", "B", "a", "b", "c"}

\* match_set from position i, c the folded character: where the set ends, 0 if it
\* never does, and whether c is one of its members.
RECURSIVE SetItems(_, _, _, _, _, _)
SetItems(p, i, c, flags, first, matched) ==
    LET escaped == "noescape" \notin flags /\ At(p, i) = "\\" /\ At(p, i + 1) # "nul"
        k == IF escaped THEN i + 1 ELSE i
        low == fold(At(p, k), flags)
        range == At(p, k + 1) = "-" /\ At(p, k + 2) \notin {"nul", "]"}
        high == fold(At(p, k + 2), flags)
    IN IF At(p, i) = "nul" THEN [end |-> 0, in |-> FALSE]
       ELSE IF At(p, i) = "]" /\ ~first THEN [end |-> i + 1, in |-> matched]
       ELSE IF At(p, i) = "[" /\ At(p, i + 1) = ":" /\ At(p, i + 3) = ":" /\ At(p, i + 4) = "]"
       THEN SetItems(p, i + 5, c, flags, FALSE, matched \/ (At(p, i + 2) = "alpha" /\ c \in Alpha))
       ELSE IF range
       THEN SetItems(p, k + 3, c, flags, FALSE,
                     matched \/ (Code(c) >= Code(low) /\ Code(c) <= Code(high)))
       ELSE SetItems(p, k + 1, c, flags, FALSE, matched \/ c = low)

match_set(p, i, c, flags) ==
    LET negate == At(p, i) \in {"!", "^"}
        items == SetItems(p, IF negate THEN i + 1 ELSE i, c, flags, TRUE, FALSE)
    IN [items EXCEPT !.in = items.end # 0 /\ (@ # negate)]

\* A bug: a star looks past a slash although a slash has to be matched by one.
star_stops_never(s, j, flags) == j..Len(s)
\* Where the rest of the pattern is tried after a star: up to a slash it may not pass.
star_stops(s, j, flags) ==
    {k \in j..Len(s) : "pathname" \in flags => \A m \in j..(k - 1) : s[m] # Slash}

RECURSIVE match_here(_, _, _, _, _, _)
match_here(p, i, s, j, flags, at_start) ==
    LET c == fold(At(s, j), flags)
        special == /\ At(s, j) # "nul"
                   /\ ~("pathname" \in flags /\ At(s, j) = Slash)
                   /\ ~("period" \in flags /\ At(s, j) = "." /\ at_start)
        literal == fold(At(p, i), flags) = c
        Step == match_here(p, i + 1, s, j + 1, flags, FALSE)
        rest == CHOOSE k \in i..(Len(p) + 1) : At(p, k) # "*" /\ \A m \in i..(k - 1) : p[m] = "*"
        set == match_set(p, i + 1, c, flags)
        stops == star_stops(s, j, flags)
        blocked == \E m \in j..Len(s) : "pathname" \in flags /\ s[m] = Slash
    IN CASE At(p, i) = "nul" -> At(s, j) = "nul"
         [] At(p, i) = "?" -> special /\ Step
         [] At(p, i) = "*" ->
              /\ ~("period" \in flags /\ At(s, j) = "." /\ at_start)
              /\ IF At(p, rest) = "nul" THEN ~blocked
                 ELSE \/ \E k \in stops : match_here(p, rest, s, k, flags, FALSE)
                      \/ ~blocked /\ match_here(p, rest, s, Len(s) + 1, flags, FALSE)
         [] At(p, i) = "[" ->
              /\ special
              /\ IF set.end = 0 THEN c = "[" /\ Step
                 ELSE set.in /\ match_here(p, set.end, s, j + 1, flags, FALSE)
         [] At(p, i) = "\\" /\ "noescape" \notin flags /\ At(p, i + 1) # "nul" ->
              fold(At(p, i + 1), flags) = c /\ match_here(p, i + 2, s, j + 1, flags, FALSE)
         [] OTHER -> literal /\ match_here(p, i + 1, s, j + 1, flags,
                                           "pathname" \in flags /\ p[i] = Slash)

fnmatch(p, s, flags) == match_here(p, 1, s, 1, flags, TRUE)

(***************************************************************************)
(* The strings tried: a path, or a pattern piece by piece                  *)
(***************************************************************************)
PathInit == path = <<>> /\ glob = <<>>

AddLetter(c) == Len(path) < MaxPath /\ glob = <<>> /\ path' = Append(path, c) /\ UNCHANGED glob
AddPiece(piece) ==
    /\ Len(glob) < MaxPieces /\ path = <<>>
    /\ glob # <<>> => glob[Len(glob)].kind # "open"
    /\ glob' = Append(glob, piece)
    /\ UNCHANGED path

PathNext == (\E c \in PathLetters : AddLetter(c)) \/ (\E piece \in Pieces : AddPiece(piece))

Text == LET Join[n \in 0..Len(glob)] == IF n = 0 THEN <<>> ELSE Join[n - 1] \o glob[n].text
        IN Join[Len(glob)]

\* The reference for fnmatch: piece n.. matches s from j.. if each piece takes
\* some of s, a star any stretch that starts at no leading period and every other piece one character of its set.
Leading(s, j, flags) ==
    s[j] = "." /\ (j = 1 \/ ("pathname" \in flags /\ s[j - 1] = Slash))
RECURSIVE Takes(_, _, _, _)
Takes(n, s, j, flags) ==
    LET Barred(k) == \/ "pathname" \in flags /\ s[k] = Slash
                     \/ "period" \in flags /\ Leading(s, k, flags)
        piece == glob[n]
    IN IF n > Len(glob) THEN j = Len(s) + 1
       ELSE IF piece.kind = "star"
       THEN /\ j <= Len(s) => ~("period" \in flags /\ Leading(s, j, flags))
            /\ \E k \in j..(Len(s) + 1) :
                (\A m \in j..(k - 1) : ~Barred(m)) /\ Takes(n + 1, s, k, flags)
       ELSE /\ j <= Len(s)
            /\ (fold(s[j], flags) \in {fold(c, flags) : c \in piece.chars}) # piece.negated
            /\ piece.kind \in {"literal", "open"} \/ ~Barred(j)
            /\ Takes(n + 1, s, j + 1, flags)

(***************************************************************************)
(* Properties                                                              *)
(***************************************************************************)
\* dirname and basename of a path, joined again, name the same file, for paths
\* with any number of slashes anywhere, and dirname leaves no slash at its end.
\* (The dirname of "//a" is the empty string, which joins to the same file.)
SplitRejoins ==
    path # <<>> =>
        LET d == dirname(path)  b == basename(path) IN
        /\ realpath(IF b = <<Slash>> THEN b ELSE d \o <<Slash>> \o b) = realpath(path)
        /\ d \notin {<<>>, <<Slash>>} => d[Len(d)] # Slash

\* realpath gives an absolute path without empty, "." or ".." components, and
\* resolving it again changes nothing, however often ".." climbs past the root.
RealpathCanonical ==
    path # <<>> =>
        LET r == realpath(path) IN
        /\ r[1] = Slash
        /\ r # <<Slash>> => r[Len(r)] # Slash
        /\ \A i \in 1..(Len(r) - 1) : r[i] = Slash => r[i + 1] # Slash
        /\ realpath(r) = r

\* fnmatch agrees with the meaning of a pattern, piece by piece, for every flag:
\* the backtracking over stars misses no match and lets none cross a slash or take
\* a leading period it must not.
GlobAgrees ==
    glob # <<>> =>
        \A flags \in GlobFlags, s \in Subjects : fnmatch(Text, s, flags) <=> Takes(1, s, 1, flags)
=============================================================================
