------------------------------- MODULE Regex -------------------------------
(* POSIX regular expressions: user/libc/src/regex.c.  A recursive-descent    *)
(* parser builds a tree of alternations, branches and pieces; a backtracking *)
(* matcher explores it.  No continuation ever reports success, so the search *)
(* is exhaustive: here a matching operator is the sequence of the complete   *)
(* matches in the order they are reached, and regexec keeps the first of the *)
(* longest.  The captures the code saves and restores around each attempt    *)
(* are values passed down.  A pattern grows by whole chunks; the work budget *)
(* (MATCH_BUDGET) is never used up by patterns this short.                   *)
EXTENDS Integers, Sequences, FiniteSets

CONSTANTS
    Chunks,     \* the sequences of characters a pattern is put together from
    MaxChunks,  \* how many of them
    Flags,      \* the sets of compile flags: "extended", "icase", "newline"
    Universe,   \* every character there is, in a text or in a set
    Texts       \* the strings patterns are run against

VARIABLES pattern, chunks, flags

xvars == <<pattern, chunks, flags>>

\* The place of a character in the collating order, for ranges.
Order(c) == CASE c = "a" -> 1 [] c = "b" -> 2 [] c = "c" -> 3 [] OTHER -> 0

\* isalpha and the other class tests, on the characters the model has.
Class(name) ==
    CASE name = "alpha" -> {"a", "b", "c", "A"} \cap Universe
      [] name = "space" -> {"nl"} \cap Universe
      [] OTHER -> {}

is_word_character(c) == c \in {"a", "b", "c", "A"}

tolower(c) == IF c = "A" THEN "a" ELSE c

Digits == {"0", "1", "2"}
Value(d) == CASE d = "0" -> 0 [] d = "1" -> 1 [] d = "2" -> 2

(***************************************************************************)
(* The parser                                                              *)
(***************************************************************************)
Parser(text, cflags) ==
    [text |-> text, at |-> 1, groups |-> 0, depth |-> 0, error |-> "none", cflags |-> cflags]

peek_at(p, ahead) == IF p.at + ahead <= Len(p.text) THEN p.text[p.at + ahead] ELSE "end"
peek(p) == peek_at(p, 0)
Skip(p, n) == [p EXCEPT !.at = @ + n]
Fail(p, error) == [p EXCEPT !.error = error]
extended(p) == "extended" \in p.cflags

\* Bare in an extended expression, behind a backslash in a basic one.
at_meta(p, c) ==
    IF extended(p) THEN peek(p) = c ELSE peek(p) = "\\" /\ peek_at(p, 1) = c
PastMeta(p) == Skip(p, IF extended(p) THEN 1 ELSE 2)

Atom(type, value) == [type |-> type, value |-> value]
Piece(atom, least, most) == [atom |-> atom, minimum |-> least, maximum |-> most]

\* The end of a [:name:], [.c.] or [=c=], or 0.
Closing(p, kind) ==
    LET ends == {i \in p.at + 2 .. Len(p.text) - 1 :
                    p.text[i] = kind /\ p.text[i + 1] = "]"}
    IN IF ends = {} THEN 0 ELSE CHOOSE i \in ends : \A j \in ends : i <= j

RECURSIVE bracket_items(_, _, _)
bracket_items(p, set, first) ==
    LET kind == peek_at(p, 1)
        scan == Closing(p, kind)
    IN CASE peek(p) = "end" \/ (peek(p) = "]" /\ ~first) -> [parser |-> p, set |-> set]
         [] peek(p) = "[" /\ kind \in {":", ".", "="} ->
             (LET name == SubSeq(p.text, p.at + 2, scan - 1)
                  past == [p EXCEPT !.at = scan + 2]
              IN CASE scan = 0 -> [parser |-> Fail(p, "EBRACK"), set |-> set]
                   [] scan # 0 /\ Len(name) # 1 ->
                        [parser |-> Fail(past, IF kind = ":" THEN "ECTYPE" ELSE "ECOLLATE"),
                         set |-> set]
                   [] scan # 0 /\ Len(name) = 1 /\ kind # ":" ->
                        bracket_items(past, set \union {name[1]}, FALSE)
                   [] scan # 0 /\ Len(name) = 1 /\ kind = ":" ->
                        IF name[1] \in {"alpha", "space"}
                        THEN bracket_items(past, set \union Class(name[1]), FALSE)
                        ELSE [parser |-> Fail(past, "ECTYPE"), set |-> set])
         [] OTHER ->
              IF kind = "-" /\ peek_at(p, 2) \notin {"]", "end"}
              THEN IF Order(peek_at(p, 2)) < Order(peek(p))
                   THEN [parser |-> Fail(p, "ERANGE"), set |-> set]
                   ELSE bracket_items(Skip(p, 3),
                            set \union {peek(p), peek_at(p, 2)} \union
                                {c \in Universe : /\ Order(c) # 0
                                                  /\ Order(peek(p)) <= Order(c)
                                                  /\ Order(c) <= Order(peek_at(p, 2))},
                            FALSE)
              ELSE bracket_items(Skip(p, 1), set \union {peek(p)}, FALSE)

\* Just past the '['.
parse_bracket(p) ==
    LET negate == peek(p) = "^"
        folded(set) == {c \in Universe : \/ c \in set
                                         \/ "icase" \in p.cflags /\ c = "A" /\ "a" \in set
                                         \/ "icase" \in p.cflags /\ c = "a" /\ "A" \in set}
        final(set) == IF negate
                      THEN (Universe \ set) \
                           (IF "newline" \in p.cflags THEN {"nl"} ELSE {})
                      ELSE set
        closed(items) ==
            CASE items.parser.error # "none" -> [parser |-> items.parser, atom |-> Atom("set", {})]
              [] items.parser.error = "none" /\ peek(items.parser) # "]" ->
                   [parser |-> Fail(items.parser, "EBRACK"), atom |-> Atom("set", {})]
              [] OTHER -> [parser |-> Skip(items.parser, 1),
                           atom |-> Atom("set", final(folded(items.set)))]
    IN closed(bracket_items(IF negate THEN Skip(p, 1) ELSE p, {}, TRUE))

shorthand_set(c) ==
    CASE c = "w" -> {d \in Universe : is_word_character(d)}
      [] c = "W" -> {d \in Universe : ~is_word_character(d)}
      [] c = "s" -> Class("space")
      [] c = "S" -> Universe \ Class("space")

\* A backslash and the character behind it.
parse_escape(p) ==
    LET escaped == peek_at(p, 1)
        past    == Skip(p, 2)
        made(atom) == [parser |-> past, atom |-> atom]
    IN CASE escaped = "end" -> [parser |-> Fail(p, "EESCAPE"), atom |-> Atom("any", 0)]
         [] escaped \in {"1", "2"} ->
              [parser |-> IF Value(escaped) > p.groups THEN Fail(past, "ESUBREG") ELSE past,
               atom   |-> Atom("backref", Value(escaped))]
         [] escaped = "b" -> made(Atom("word_boundary", 0))
         [] escaped = "B" -> made(Atom("not_word_boundary", 0))
         [] escaped = "<" -> made(Atom("word_start", 0))
         [] escaped = ">" -> made(Atom("word_end", 0))
         [] escaped \in {"w", "W", "s", "S"} -> made(Atom("set", shorthand_set(escaped)))
         [] escaped = "n" -> made(Atom("literal", "nl"))
         [] OTHER -> made(Atom("literal", escaped))

RECURSIVE digits(_, _)
digits(p, value) ==
    IF peek(p) \in Digits THEN digits(Skip(p, 1), value * 10 + Value(peek(p)))
    ELSE [parser |-> p, value |-> value]

\* {n}, {n,} or {n,m}, past the opening brace.
parse_interval(p) ==
    LET low   == digits(p, 0)
        comma == peek(low.parser) = ","
        past  == Skip(low.parser, 1)
        high  == IF ~comma THEN low
                 ELSE IF peek(past) \in Digits THEN digits(past, 0)
                 ELSE [parser |-> past, value |-> -1]
        bad   == high.value >= 0 /\ high.value < low.value
    IN [parser |-> IF bad THEN Fail(high.parser, "BADBR") ELSE high.parser,
        low |-> low.value, high |-> high.value]

\* A run of repetitions collapses into one.
RECURSIVE parse_repetition(_, _)
parse_repetition(p, piece) ==
    CASE peek(p) = "*" ->
           parse_repetition(Skip(p, 1), [piece EXCEPT !.minimum = 0, !.maximum = -1])
      [] at_meta(p, "+") ->
           parse_repetition(PastMeta(p),
               [piece EXCEPT !.minimum = IF @ # 0 THEN 1 ELSE 0, !.maximum = -1])
      [] at_meta(p, "?") ->
           parse_repetition(PastMeta(p),
               [piece EXCEPT !.minimum = 0, !.maximum = IF @ # -1 THEN 1 ELSE @])
      [] at_meta(p, "{") /\ peek(PastMeta(p)) \in Digits ->
           LET repeated(interval) ==
                 IF interval.parser.error # "none"
                 THEN [parser |-> interval.parser, piece |-> piece]
                 ELSE IF ~at_meta(interval.parser, "}")
                 THEN [parser |-> Fail(interval.parser, "EBRACE"), piece |-> piece]
                 ELSE parse_repetition(PastMeta(interval.parser),
                          [piece EXCEPT !.minimum = interval.low, !.maximum = interval.high])
           IN repeated(parse_interval(PastMeta(p)))
      [] OTHER -> [parser |-> p, piece |-> piece]

RECURSIVE parse_alternation(_), parse_branch(_, _)

\* A bug: a group is numbered where it closes.
GroupLate(opened, inner) == Atom("group", [number |-> inner.parser.groups, body |-> inner.tree])
\* A group is numbered where it opens.
Group(opened, inner) == Atom("group", [number |-> opened.groups, body |-> inner.tree])

parse_atom(p) ==
    CASE at_meta(p, "(") ->
          (LET opened == [PastMeta(p) EXCEPT !.groups = @ + 1, !.depth = @ + 1]
               closing(closed, group) ==
                 CASE closed.error # "none" -> [parser |-> closed, atom |-> group]
                   [] closed.error = "none" /\ ~at_meta(closed, ")") ->
                        [parser |-> Fail(closed, "EPAREN"), atom |-> group]
                   [] OTHER -> [parser |-> PastMeta(closed), atom |-> group]
               around(inner) ==
                 closing([inner.parser EXCEPT !.depth = @ - 1], Group(opened, inner))
           IN around(parse_alternation(opened)))
      [] ~at_meta(p, "(") /\ peek(p) = "[" -> parse_bracket(Skip(p, 1))
      [] ~at_meta(p, "(") /\ peek(p) = "." ->
           [parser |-> Skip(p, 1),
            atom |-> IF "newline" \in p.cflags THEN Atom("set", Universe \ {"nl"})
                     ELSE Atom("any", 0)]
      [] ~at_meta(p, "(") /\ peek(p) = "\\" -> parse_escape(p)
      [] OTHER -> [parser |-> Skip(p, 1), atom |-> Atom("literal", peek(p))]

\* '$' is an anchor everywhere in an extended expression; in a basic one only
\* last in the pattern, in a group or in an alternative.
EndAnchor(p) ==
    peek(p) = "$" /\ (\/ extended(p)
                      \/ peek_at(p, 1) = "end"
                      \/ peek_at(p, 1) = "\\" /\ peek_at(p, 2) \in {")", "|"})

parse_branch(p, branch) ==
    LET first == branch = <<>>
        then(q, piece) == parse_branch(q, Append(branch, piece))
    IN CASE \/ peek(p) = "end"
            \/ at_meta(p, "|")
            \/ at_meta(p, ")") /\ p.depth > 0 -> [parser |-> p, branch |-> branch]
         [] extended(p) /\ first /\ peek(p) \in {"*", "+", "?"} ->
              [parser |-> Fail(p, "BADRPT"), branch |-> branch]
         [] peek(p) = "^" /\ (extended(p) \/ first) ->
              then(Skip(p, 1), Piece(Atom("bol", 0), 1, 1))
         [] EndAnchor(p) -> then(Skip(p, 1), Piece(Atom("eol", 0), 1, 1))
         [] peek(p) = "*" /\ first /\ ~extended(p) ->
              then(Skip(p, 1), Piece(Atom("literal", "*"), 1, 1))
         [] OTHER ->
              LET ended(rest) ==
                    IF rest.parser.error # "none" THEN [parser |-> rest.parser, branch |-> branch]
                    ELSE then(rest.parser, rest.piece)
                  repeated(atom) ==
                    IF atom.parser.error # "none" THEN [parser |-> atom.parser, branch |-> branch]
                    ELSE ended(parse_repetition(atom.parser, Piece(atom.atom, 1, 1)))
              IN repeated(parse_atom(p))

parse_alternation(p) ==
    LET joined(branch, more) == [parser |-> more.parser, tree |-> <<branch>> \o more.tree]
        after(made) ==
          IF made.parser.error # "none" THEN [parser |-> made.parser, tree |-> <<>>]
          ELSE IF ~at_meta(made.parser, "|") THEN [parser |-> made.parser, tree |-> <<made.branch>>]
          ELSE joined(made.branch, parse_alternation(PastMeta(made.parser)))
    IN after(parse_branch(p, <<>>))

regcomp(text, cflags) ==
    LET program(parsed) ==
          [error  |-> IF parsed.parser.error # "none" THEN parsed.parser.error
                      ELSE IF peek(parsed.parser) # "end" THEN "EPAREN" ELSE "none",
           root   |-> parsed.tree,
           groups |-> parsed.parser.groups,
           cflags |-> cflags]
    IN program(parse_alternation(Parser(text, cflags)))

(***************************************************************************)
(* The matcher; m is [text, program], positions count from 0               *)
(***************************************************************************)
CharAt(m, position) == m.text[position + 1]

character_matches(m, atom, c) ==
    CASE atom.type = "literal" ->
           IF "icase" \in m.program.cflags THEN tolower(c) = tolower(atom.value)
           ELSE c = atom.value
      [] atom.type = "any" -> TRUE
      [] atom.type = "set" -> c \in atom.value

at_line_start(m, position) ==
    position = 0 \/ ("newline" \in m.program.cflags /\ CharAt(m, position - 1) = "nl")
at_line_end(m, position) ==
    position = Len(m.text) \/ ("newline" \in m.program.cflags /\ CharAt(m, position) = "nl")
word_at(m, position) == position < Len(m.text) /\ is_word_character(CharAt(m, position))
word_before(m, position) == position > 0 /\ is_word_character(CharAt(m, position - 1))

Assertion(m, type, position) ==
    CASE type = "bol" -> at_line_start(m, position)
      [] type = "eol" -> at_line_end(m, position)
      [] type = "word_boundary" -> word_before(m, position) # word_at(m, position)
      [] type = "not_word_boundary" -> word_before(m, position) = word_at(m, position)
      [] type = "word_start" -> ~word_before(m, position) /\ word_at(m, position)
      [] type = "word_end" -> word_before(m, position) /\ ~word_at(m, position)

Assertions == {"bol", "eol", "word_boundary", "not_word_boundary", "word_start", "word_end"}

\* How many times in a row an atom of one character can be taken.
RECURSIVE run_length(_, _, _, _)
run_length(m, piece, position, taken) ==
    IF /\ piece.maximum < 0 \/ taken < piece.maximum
       /\ position + taken < Len(m.text)
       /\ character_matches(m, piece.atom, CharAt(m, position + taken))
    THEN run_length(m, piece, position, taken + 1)
    ELSE taken

\* How many times in a row the captured text is repeated.
RECURSIVE repeat_length(_, _, _, _, _)
repeat_length(m, piece, span, position, taken) ==
    LET width == span[2] - span[1]
        at    == position + taken * width
        same(a, b) == IF "icase" \in m.program.cflags THEN tolower(a) = tolower(b) ELSE a = b
    IN IF /\ piece.maximum < 0 \/ taken < piece.maximum
          /\ at + width <= Len(m.text)
          /\ \A i \in 0 .. width - 1 : same(CharAt(m, at + i), CharAt(m, span[1] + i))
       THEN repeat_length(m, piece, span, position, taken + 1)
       ELSE taken

RECURSIVE match_branch(_, _, _, _, _, _), match_alternation(_, _, _, _, _, _)
RECURSIVE match_group(_, _, _, _, _, _, _), give_back(_, _, _, _, _, _, _, _)

\* A bug: a repeated group is reported from its first turn to its last.
group_loop_whole(m, loop, after, position, captures) ==
    LET group == loop.branch[loop.index].atom.value.number
        from  == IF loop.taken = 0 THEN loop.start ELSE captures[group][1]
        noted == [captures EXCEPT ![group] = <<from, position>>]
    IN IF position = loop.start
       THEN match_branch(m, loop.branch, loop.index + 1, position, noted, after)
       ELSE match_group(m, loop.branch, loop.index, position, noted, after, loop.taken + 1)

\* A continuation is the stack of the group loops still to be closed.
group_loop_run(m, loop, after, position, captures) ==
    LET group == loop.branch[loop.index].atom.value.number
        empty == position = loop.start
        noted == IF ~empty \/ loop.taken = 0
                 THEN [captures EXCEPT ![group] = <<loop.start, position>>]
                 ELSE captures
    IN IF empty THEN match_branch(m, loop.branch, loop.index + 1, position, noted, after)
       ELSE match_group(m, loop.branch, loop.index, position, noted, after, loop.taken + 1)

run_continuation(m, position, captures, next) ==
    IF next = <<>> THEN <<[end |-> position, captures |-> captures]>>
    ELSE group_loop_run(m, Head(next), Tail(next), position, captures)

match_group(m, branch, index, position, captures, next, taken) ==
    LET piece == branch[index]
        loop  == [branch |-> branch, index |-> index, start |-> position, taken |-> taken]
    IN (IF piece.maximum < 0 \/ taken < piece.maximum
        THEN match_alternation(m, piece.atom.value.body, 1, position, captures, <<loop>> \o next)
        ELSE <<>>)
       \o (IF taken >= piece.minimum
           THEN match_branch(m, branch, index + 1, position, captures, next)
           ELSE <<>>)

\* Greedy: the whole run first, then one less at a time.
give_back(m, branch, index, position, captures, next, count, width) ==
    IF count < branch[index].minimum THEN <<>>
    ELSE match_branch(m, branch, index + 1, position + count * width, captures, next)
         \o give_back(m, branch, index, position, captures, next, count - 1, width)

match_branch(m, branch, index, position, captures, next) ==
    IF index > Len(branch) THEN run_continuation(m, position, captures, next)
    ELSE
    LET piece == branch[index]
        atom  == piece.atom
        rest  == match_branch(m, branch, index + 1, position, captures, next)
    IN CASE atom.type \in Assertions -> IF Assertion(m, atom.type, position) THEN rest ELSE <<>>
         [] atom.type \in {"literal", "any", "set"} ->
              give_back(m, branch, index, position, captures, next,
                        run_length(m, piece, position, 0), 1)
         [] atom.type = "backref" ->
             (LET span == captures[atom.value]
              IN CASE span[1] < 0 -> IF piece.minimum = 0 THEN rest ELSE <<>>
                   [] span[1] >= 0 /\ span[1] = span[2] -> rest
                   [] OTHER ->
                        give_back(m, branch, index, position, captures, next,
                                  repeat_length(m, piece, span, position, 0),
                                  span[2] - span[1]))
         [] atom.type = "group" -> match_group(m, branch, index, position, captures, next, 0)

match_alternation(m, tree, i, position, captures, next) ==
    IF i > Len(tree) THEN <<>>
    ELSE match_branch(m, tree[i], 1, position, captures, next)
         \o match_alternation(m, tree, i + 1, position, captures, next)

\* The first of the longest matches at the first start that has one.
\* A bug: the first match found is kept, not the longest.
Kept_first(found) == found[1]
Kept(found) ==
    found[CHOOSE i \in DOMAIN found :
            /\ \A j \in DOMAIN found : found[j].end <= found[i].end
            /\ \A j \in 1 .. i - 1 : found[j].end < found[i].end]

RECURSIVE regexec_from(_, _)
regexec_from(m, start) ==
    LET none == [g \in 1 .. m.program.groups |-> <<-1, -1>>]
        match(best) == [start |-> start, end |-> best.end, captures |-> best.captures]
        result(found) == IF found = <<>> THEN regexec_from(m, start + 1) ELSE match(Kept(found))
    IN IF start > Len(m.text) THEN [start |-> -1, end |-> -1, captures |-> none]
       ELSE result(match_alternation(m, m.program.root, 1, start, none, <<>>))

regexec(program, text) == regexec_from([text |-> text, program |-> program], 0)

(***************************************************************************)
(* The patterns                                                            *)
(***************************************************************************)
XInit == pattern = <<>> /\ chunks = 0 /\ flags \in Flags

Extend(chunk) ==
    /\ chunks < MaxChunks
    /\ pattern' = pattern \o chunk
    /\ chunks' = chunks + 1
    /\ UNCHANGED flags

XNext == \E chunk \in Chunks : Extend(chunk)

(***************************************************************************)
(* What a pattern means: the ends a match beginning in a set may have      *)
(***************************************************************************)
RECURSIVE Ends(_, _, _), BranchEnds(_, _, _), Repeated(_, _, _, _)

Ends(m, tree, from) == UNION {BranchEnds(m, tree[i], from) : i \in DOMAIN tree}

Once(m, atom, from) ==
    CASE atom.type \in Assertions -> {i \in from : Assertion(m, atom.type, i)}
      [] atom.type = "group" -> Ends(m, atom.value.body, from)
      [] OTHER -> {i + 1 : i \in {j \in from : j < Len(m.text)
                                       /\ character_matches(m, atom, CharAt(m, j))}}

\* At least `least` times, at most `most` times.
Repeated(m, piece, from, times) ==
    (IF times >= piece.minimum THEN from ELSE {})
    \union (IF /\ piece.maximum < 0 \/ times < piece.maximum
               /\ times <= piece.minimum + Len(m.text)
            THEN Repeated(m, piece, Once(m, piece.atom, from), times + 1)
            ELSE {})

BranchEnds(m, branch, from) ==
    IF branch = <<>> THEN from
    ELSE BranchEnds(m, Tail(branch),
             IF Head(branch).atom.type \in Assertions THEN Once(m, Head(branch).atom, from)
             ELSE Repeated(m, Head(branch), from, 0))

RECURSIVE Groups(_), HasBackref(_)
Groups(tree) ==
    UNION {LET atom == tree[i][j].atom
           IN IF atom.type = "group" THEN {atom.value} \union Groups(atom.value.body) ELSE {}
           : <<i, j>> \in {<<i, j>> \in (1 .. Len(tree)) \X (1 .. 8) : j <= Len(tree[i])}}
HasBackref(tree) ==
    \E i \in DOMAIN tree : \E j \in DOMAIN tree[i] :
        LET atom == tree[i][j].atom
        IN \/ atom.type = "backref"
           \/ atom.type = "group" /\ HasBackref(atom.value.body)

\* The match regexec reports starts at the leftmost place where the pattern
\* matches at all and is the longest one there ("POSIX wants the longest match at
\* the leftmost position where any match starts"), and it reports none exactly
\* when there is none: the greedy runs, the giving back, the group loops and the
\* rule for empty iterations lose no match and invent none.
LeftmostLongest ==
    LET right(result, ends, starts) ==
          IF starts = {} THEN result.start = -1
          ELSE /\ result.start \in starts
               /\ \A i \in starts : result.start <= i
               /\ result.end \in ends[result.start]
               /\ \A e \in ends[result.start] : e <= result.end
        compared(result, ends) == right(result, ends, {i \in DOMAIN ends : ends[i] # {}})
        agrees(program) ==
          program.error = "none" /\ ~HasBackref(program.root) =>
          \A text \in Texts :
              compared(regexec(program, text),
                       [i \in 0 .. Len(text) |->
                          Ends([text |-> text, program |-> program], program.root, {i})])
    IN agrees(regcomp(pattern, flags))

\* A subexpression reported as taking part lies inside the whole match and its
\* span is one the subexpression itself can match: what an abandoned alternative
\* or an empty last iteration recorded does not survive in the result.
CapturesMatch ==
    LET within(m, result, group, span) ==
          span # <<-1, -1>> => /\ result.start <= span[1] /\ span[2] <= result.end
                               /\ span[2] \in Ends(m, group.body, {span[1]})
        matched(m, result) ==
          result.start >= 0 =>
          \A group \in Groups(m.program.root) :
              within(m, result, group, result.captures[group.number])
        agrees(program) ==
          program.error = "none" /\ ~HasBackref(program.root) =>
          \A text \in Texts :
              matched([text |-> text, program |-> program], regexec(program, text))
    IN agrees(regcomp(pattern, flags))

\* Every group has a number of its own, in the order of the opening parentheses,
\* and the count regcomp reports (re_nsub) is the number of groups in the tree:
\* the captures regexec indexes by group always exist.
GroupsNumbered ==
    LET numbered(groups, count) == /\ {g.number : g \in groups} = 1 .. count
                                   /\ Cardinality(groups) = count
        agrees(program) == program.error = "none" => numbered(Groups(program.root), program.groups)
    IN agrees(regcomp(pattern, flags))
=============================================================================
