------------------------------- MODULE Format -------------------------------
(* The two printf implementations, libc's (user/libc/src/stdio.c) and the    *)
(* kernel's (kernel/lib/format.cpp), and strtol, which reads back what they  *)
(* print.  A format is a sequence of characters scanned left to right; the   *)
(* arguments are taken one after another, each a record of the integer and   *)
(* the string a va_arg could find there.  Integers are Width bits wide.      *)
(* The floating point conversions are left out.                              *)
EXTENDS Integers, Sequences

CONSTANTS
    Width,        \* bits of an integer
    Directives,   \* the directives a program prints with: [flags, width, precision,
                  \* modifier, conversion], each but the last a sequence of characters
    Arguments,    \* the values it prints
    Capacity      \* the largest buffer given to vsnprintf

VARIABLES directive, args

fmtvars == <<directive, args>>

Digits == <<"0", "1", "2", "3", "4", "5", "6", "7", "8", "9", "a", "b", "c", "d", "e", "f">>
DigitOf(c) == IF \E i \in 1 .. 16 : Digits[i] = c
              THEN (CHOOSE i \in 1 .. 16 : Digits[i] = c) - 1 ELSE 99
Decimal(c) == DigitOf(c) < 10

Unsigned(n) == n % 2^Width

\* Digits from the last to the first; zero is one digit.
RECURSIVE render_unsigned(_, _)
render_unsigned(value, base) ==
    IF value < base THEN <<Digits[value + 1]>>
    ELSE render_unsigned(value \div base, base) \o <<Digits[(value % base) + 1]>>

At(f, p) == IF p <= Len(f) THEN f[p] ELSE "nul"

RECURSIVE number(_, _, _)
number(f, p, value) ==
    IF Decimal(At(f, p)) THEN number(f, p + 1, value * 10 + DigitOf(At(f, p)))
    ELSE [at |-> p, value |-> value]

RECURSIVE flags(_, _, _, _)
flags(f, p, known, seen) ==
    IF At(f, p) \in known THEN flags(f, p + 1, known, seen \union {At(f, p)})
    ELSE [at |-> p, seen |-> seen]

\* A bug: only the modifiers made of l and h are known.
length_modifier_some(f, p) ==
    IF At(f, p) \notin {"l", "h"} THEN p ELSE IF At(f, p + 1) = At(f, p) THEN p + 2 ELSE p + 1

\* The characters of a length modifier, all of which have to be stepped over.
length_modifier(f, p) ==
    CASE At(f, p) \in {"z", "j", "t", "L"} -> p + 1
      [] At(f, p) \in {"l", "h"} -> IF At(f, p + 1) = At(f, p) THEN p + 2 ELSE p + 1
      [] OTHER -> p

Fill(c, n) == [i \in 1 .. (IF n > 0 THEN n ELSE 0) |-> c]

\* A bug: the zeros come before the sign or the prefix.
padded_before(seen, width, prefix, body) ==
    LET padding == width - (Len(prefix) + Len(body))
    IN IF "-" \in seen THEN prefix \o body \o Fill(" ", padding)
       ELSE Fill(IF "0" \in seen THEN "0" ELSE " ", padding) \o prefix \o body

\* Spaces before, or zeros between the sign and the digits, or spaces after.
padded(seen, width, prefix, body) ==
    LET padding == width - (Len(prefix) + Len(body))
        left == "-" \in seen
        zero == "0" \in seen
    IN (IF ~left /\ ~zero THEN Fill(" ", padding) ELSE <<>>)
       \o prefix
       \o (IF ~left /\ zero THEN Fill("0", padding) ELSE <<>>)
       \o body
       \o (IF left THEN Fill(" ", padding) ELSE <<>>)

\* The magnitude is taken in unsigned arithmetic.
Magnitude(n) == IF n < 0 THEN Unsigned((2^Width - 1 - Unsigned(n)) + 1) ELSE Unsigned(n)

Prefix(conversion, n, seen) ==
    CASE conversion = "d" -> IF n < 0 THEN <<"-">> ELSE IF "+" \in seen THEN <<"+">> ELSE <<>>
      [] conversion = "x" -> IF "#" \in seen THEN <<"0", "x">> ELSE <<>>
      [] conversion = "p" -> <<"0", "x">>
      [] OTHER -> <<>>

Body(conversion, arg) ==
    CASE conversion = "d" -> render_unsigned(Magnitude(arg.n), 10)
      [] conversion = "u" -> render_unsigned(Unsigned(arg.n), 10)
      [] conversion \in {"x", "p"} -> render_unsigned(Unsigned(arg.n), 16)
      [] conversion = "o" -> render_unsigned(Unsigned(arg.n), 8)
      [] conversion = "c" -> SubSeq(arg.s, 1, 1)
      [] conversion = "s" -> arg.s

Conversions == {"d", "u", "x", "o", "p", "c", "s"}

\* libc: one character at a time, `a` the arguments left, `out` what was emitted.
RECURSIVE format_into(_, _, _, _)
format_into(f, p, a, out) ==
    LET opts  == flags(f, p + 1, {"-", "0", "+", "#", " "}, {})
        star  == At(f, opts.at) = "*"
        plain == number(f, opts.at, 0)
        given == IF star THEN Head(a).n ELSE plain.value
        seen  == IF star /\ given < 0 THEN opts.seen \union {"-"} ELSE opts.seen
        width == IF given < 0 THEN -given ELSE given
        after == IF star THEN opts.at + 1 ELSE plain.at
        args1 == IF star THEN Tail(a) ELSE a
        dot   == At(f, after) = "."
        dotted == dot /\ At(f, after + 1) = "*"
        prec  == number(f, after + 1, 0)
        precision == IF ~dot THEN -1 ELSE IF dotted THEN Head(args1).n ELSE prec.value
        at    == length_modifier(f, IF ~dot THEN after ELSE IF dotted THEN after + 2 ELSE prec.at)
        args2 == IF dotted THEN Tail(args1) ELSE args1
        c     == At(f, at)
        body  == Body(c, Head(args2))
        cut   == IF precision >= 0 /\ c = "s" /\ precision < Len(body)
                 THEN SubSeq(body, 1, precision) ELSE body
    IN CASE At(f, p) = "nul" -> [out |-> out, left |-> a]
         [] At(f, p) \notin {"%", "nul"} -> format_into(f, p + 1, a, Append(out, At(f, p)))
         [] At(f, p) = "%" /\ At(f, p + 1) = "%" -> format_into(f, p + 2, a, Append(out, "%"))
         [] At(f, p) = "%" /\ At(f, p + 1) # "%" ->
              (CASE c = "nul" -> [out |-> out, left |-> args2]
                 [] c \in Conversions ->
                      format_into(f, at + 1, Tail(args2),
                          out \o padded(seen, width, Prefix(c, Head(args2).n, seen), cut))
                 [] OTHER -> format_into(f, at + 1, args2, out \o <<"%", c>>))

\* A bug: one letter of "ll" or "hh" is stepped over.
kernel_modifier_one(f, p) == IF At(f, p) \in {"z", "l", "h"} THEN p + 1 ELSE p

\* The kernel's: no '*', no precision, fewer modifiers, pointers at full width.
kernel_modifier(f, p) ==
    CASE At(f, p) = "z" -> p + 1
      [] At(f, p) \in {"l", "h"} -> IF At(f, p + 1) = At(f, p) THEN p + 2 ELSE p + 1
      [] OTHER -> p

RECURSIVE vformat(_, _, _, _)
vformat(f, p, a, out) ==
    LET opts  == flags(f, p + 1, {"-", "0", "+", "#"}, {})
        width == number(f, opts.at, 0)
        at    == kernel_modifier(f, width.at)
        c     == At(f, at)
    IN CASE At(f, p) = "nul" -> [out |-> out, left |-> a]
         [] At(f, p) \notin {"%", "nul"} -> vformat(f, p + 1, a, Append(out, At(f, p)))
         [] At(f, p) = "%" /\ At(f, p + 1) = "%" -> vformat(f, p + 2, a, Append(out, "%"))
         [] At(f, p) = "%" /\ At(f, p + 1) # "%" ->
              (CASE c = "nul" -> [out |-> out, left |-> a]
                 [] c = "p" ->
                      vformat(f, at + 1, Tail(a),
                          out \o padded({"0"}, 16, Prefix("p", 0, {}), Body("p", Head(a))))
                 [] c \in Conversions \ {"p"} ->
                      vformat(f, at + 1, Tail(a),
                          out \o padded(opts.seen, width.value,
                                        Prefix(c, Head(a).n, opts.seen), Body(c, Head(a))))
                 [] OTHER -> vformat(f, at + 1, a, out \o <<"%", c>>))

\* A bug: the last byte is not kept for the NUL.
vsnprintf_full(out, size) ==
    [stored |-> {i \in 1 .. Len(out) : i - 1 < size},
     nul    |-> IF Len(out) < size THEN Len(out) ELSE size - 1,
     result |-> Len(out)]

\* emit with a buffer stores a character only while there is room for the NUL.
vsnprintf(out, size) ==
    [stored |-> {i \in 1 .. Len(out) : (i - 1) + 1 < size},
     nul    |-> IF Len(out) < size THEN Len(out) ELSE size - 1,
     result |-> Len(out)]

\* strtol: spaces, a sign, a prefix, digits of the base.
RECURSIVE skip_space(_, _)
skip_space(s, p) == IF At(s, p) = " " THEN skip_space(s, p + 1) ELSE p

RECURSIVE accumulate(_, _, _, _)
accumulate(s, p, base, value) ==
    IF DigitOf(At(s, p)) < base
    THEN accumulate(s, p + 1, base, value * base + DigitOf(At(s, p)))
    ELSE value

strtol(s, base) ==
    LET start    == skip_space(s, 1)
        negative == At(s, start) = "-"
        unsigned == IF At(s, start) \in {"-", "+"} THEN start + 1 ELSE start
        hex      == /\ base \in {0, 16}
                    /\ At(s, unsigned) = "0" /\ At(s, unsigned + 1) = "x"
        actual   == IF hex THEN 16
                    ELSE IF base # 0 THEN base
                    ELSE IF At(s, unsigned) = "0" THEN 8 ELSE 10
        value    == accumulate(s, IF hex THEN unsigned + 2 ELSE unsigned, actual, 0)
    IN IF negative THEN -value ELSE value

(***************************************************************************)
(* One directive, printed between two characters and before a "%d"         *)
(***************************************************************************)
Text(d) == <<"%">> \o d.flags \o d.width \o d.precision \o d.modifier \o <<d.conversion>>
Whole(d) == <<":">> \o Text(d) \o <<"|", "%", "d">>
Stars(d) == (IF d.width = <<"*">> THEN 1 ELSE 0) + (IF d.precision = <<".", "*">> THEN 1 ELSE 0)

FInit == directive \in Directives /\ args = <<>>

AddArgument ==
    /\ Len(args) < Stars(directive) + 2
    /\ \E arg \in Arguments : args' = Append(args, arg)
    /\ UNCHANGED directive

FNext == AddArgument

Complete == Len(args) = Stars(directive) + 2
Printed == format_into(Whole(directive), 1, args, <<>>)
Numeric == directive.conversion \in {"d", "u", "x", "o", "p"}

\* Whatever the flags, the width, the precision and the length modifier, a
\* directive takes its own arguments and no others: the "%d" that follows prints
\* the next one ("the argument is never consumed, and every later conversion reads
\* the wrong one").
ArgumentsInStep ==
    Complete =>
        LET last == render_unsigned(Magnitude(args[Len(args)].n), 10)
            out  == Printed.out
        IN /\ Printed.left = <<>>
           /\ SubSeq(out, Len(out) - Len(last) + 1, Len(out)) = last
           /\ out[1] = ":"

\* An integer printed with any flags, width and modifier is read back by strtol:
\* padding never comes between the sign or the prefix and the digits, zeros do not
\* change the value, and the most negative number has a magnitude.
ReadsBack ==
    Complete /\ Numeric =>
        LET n     == args[Len(args) - 1].n
            out   == SubSeq(Printed.out, 2, Len(Printed.out))
            base  == CASE directive.conversion \in {"d", "u"} -> 10
                       [] directive.conversion = "o" -> 8
                       [] OTHER -> 16
        IN strtol(out, base) = IF directive.conversion = "d" THEN n ELSE Unsigned(n)

\* Where the kernel's formatter knows every part of a directive, the kernel and
\* libc print the same text (pointers aside, which the kernel prints full width).
KernelAgrees ==
    /\ Complete /\ Stars(directive) = 0 /\ directive.precision = <<>>
    /\ directive.modifier \in {<<>>, <<"z">>, <<"l">>, <<"l", "l">>, <<"h">>, <<"h", "h">>}
    /\ directive.conversion # "p"
    /\ \A i \in DOMAIN directive.flags : directive.flags[i] # " "
    => vformat(Whole(directive), 1, args, <<>>) = Printed

\* A vsnprintf that does not fit stores a prefix, puts its NUL right behind it
\* inside the buffer, and returns the length the whole text would have had.
Truncated ==
    Complete =>
        \A size \in 1 .. Capacity :
            LET result == vsnprintf(Printed.out, size)
            IN /\ result.nul < size
               /\ result.stored = 1 .. result.nul
               /\ result.result = Len(Printed.out)
=============================================================================
