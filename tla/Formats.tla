-------------------------------- MODULE Formats --------------------------------
(***************************************************************************)
(* Formatted output and input.                                             *)
(*                                                                         *)
(* snprintf writes to a buffer; printf has its own copy of the same        *)
(* functions (src/lib/stdio/snprintf.c and printf.c).  A format is a       *)
(* sequence of fields: ordinary text, or a conversion with its flags,      *)
(* width, precision (-1: none) and argument.  A double is a number of      *)
(* eighths.                                                                *)
(*                                                                         *)
(* vsscanf is behind sscanf and scanf (src/lib/stdio/scanf.c).  Its format *)
(* is a sequence of fields too: blanks, a character to match, or a         *)
(* conversion with "*" (suppress) and its width (0: none).  The argument   *)
(* list is the sequence of what is stored: the n-th store goes to the n-th *)
(* argument.                                                               *)
(***************************************************************************)
EXTENDS Integers, Sequences, SequencesExt, FiniteSetsExt

CONSTANT LongMax    \* the largest number
LongMin == -LongMax - 1

Field(conv, minus, zero, width, precision, arg) ==
    [conv |-> conv, minus |-> minus, zero |-> zero, width |-> width, precision |-> precision, arg |-> arg]

DigitChars == <<"0", "1", "2", "3", "4", "5", "6", "7", "8", "9", "a", "b", "c", "d", "e", "f">>
Numeral[n \in Nat, base \in {10, 16}] ==
    IF n < base THEN <<DigitChars[n + 1]>> ELSE Append(Numeral[n \div base, base], DigitChars[(n % base) + 1])
Repeat(count, c) == [i \in 1 .. count |-> c]
Missing(all, there) == Max({0, all - there})

\* The pieces of a field in the order they are written: strbuf_write_..._padded,
\* fprint_..._padded.  Digits of a signed number: long_to_buf's loop never starts for LongMin.
SignedDigits(n) == CASE n = LongMin -> <<>> [] n # LongMin /\ n >= 0 -> Numeral[n, 10] [] OTHER -> Numeral[-n, 10]
\* Mutant: the sign is not part of the content when the padding is computed.
IntPieces_Slip(f) ==
    LET none == f.precision = 0 /\ f.arg = 0
        digits == IF none THEN <<>> ELSE SignedDigits(f.arg)
        sign == IF f.arg < 0 THEN <<"-">> ELSE <<>>
        zeros == Repeat(Missing(f.precision, Len(digits)), "0")
        pad == Missing(f.width, Len(zeros) + Len(digits))
    IN  CASE pad > 0 /\ f.minus -> <<sign, zeros, digits, Repeat(pad, " ")>>
          [] pad > 0 /\ ~f.minus /\ f.zero /\ f.precision < 0 -> <<sign, zeros, Repeat(pad, "0"), digits>>
          [] OTHER -> <<Repeat(pad, " "), sign, zeros, digits>>
IntPieces(f) ==
    LET none == f.precision = 0 /\ f.arg = 0
        digits == IF none THEN <<>> ELSE SignedDigits(f.arg)
        sign == IF f.arg < 0 THEN <<"-">> ELSE <<>>
        zeros == Repeat(Missing(f.precision, Len(digits)), "0")
        pad == Missing(f.width, Len(sign) + Len(zeros) + Len(digits))
    IN  CASE pad > 0 /\ f.minus -> <<sign, zeros, digits, Repeat(pad, " ")>>
          [] pad > 0 /\ ~f.minus /\ f.zero /\ f.precision < 0 -> <<sign, zeros, Repeat(pad, "0"), digits>>
          [] OTHER -> <<Repeat(pad, " "), sign, zeros, digits>>
UnsignedPieces(f) ==
    LET digits == IF f.precision = 0 /\ f.arg = 0 THEN <<>> ELSE Numeral[f.arg, 10]
        zeros == Repeat(Missing(f.precision, Len(digits)), "0")
        pad == Missing(f.width, Len(zeros) + Len(digits))
    IN  CASE pad > 0 /\ f.minus -> <<zeros, digits, Repeat(pad, " ")>>
          [] OTHER -> <<Repeat(pad, IF f.zero /\ f.precision < 0 THEN "0" ELSE " "), zeros, digits>>
HexPieces(f, prefix) ==
    LET digits == IF f.precision = 0 /\ f.arg = 0 THEN <<>> ELSE Numeral[f.arg, 16]
        hex == Repeat(Missing(f.precision, Len(digits)), "0") \o digits
        pad == Missing(f.width, Len(prefix) + Len(hex))
    IN  CASE pad > 0 /\ f.minus -> <<prefix, hex, Repeat(pad, " ")>>
          [] pad > 0 /\ ~f.minus /\ f.zero /\ f.precision < 0 -> <<prefix, Repeat(pad, "0"), hex>>
          [] OTHER -> <<Repeat(pad, " "), prefix, hex>>
Beside(f, text) ==
    LET pad == Repeat(Missing(f.width, Len(text)), " ") IN IF f.minus THEN <<text, pad>> ELSE <<pad, text>>
StringPieces(f) == Beside(f, IF f.precision >= 0 /\ f.precision < Len(f.arg) THEN SubSeq(f.arg, 1, f.precision) ELSE f.arg)
\* strbuf_write_double, double_to_str: the fraction is rounded on its own and
\* may carry into the integer.
DoubleText(eighths, dec) ==
    LET size == IF eighths < 0 THEN -eighths ELSE eighths
        rounded == (2 * (size % 8) * 10 ^ dec + 8) \div 16
        carry == rounded >= 10 ^ dec
        fraction == Numeral[IF carry THEN 0 ELSE rounded, 10]
    IN  (IF eighths < 0 THEN <<"-">> ELSE <<>>) \o Numeral[(size \div 8) + (IF carry THEN 1 ELSE 0), 10]
          \o (IF dec = 0 THEN <<>> ELSE <<".">> \o Repeat(Missing(dec, Len(fraction)), "0") \o fraction)

\* vsnprintf_core and vfprintf_core agree on all but the conversions they do
\* not know: printf writes the two last characters of those.
LastOfSpec(f) ==
    CASE f.precision >= 0 -> DigitChars[(f.precision % 10) + 1]
      [] f.precision < 0 /\ f.width > 0 -> DigitChars[(f.width % 10) + 1]
      [] OTHER -> IF f.zero THEN "0" ELSE IF f.minus THEN "-" ELSE "%"
Pieces(f, unknown) ==
    CASE f.conv = "text" -> <<f.arg>>
      [] f.conv = "d" -> IntPieces(f)
      [] f.conv = "u" -> UnsignedPieces(f)
      [] f.conv = "x" -> HexPieces(f, <<>>)
      [] f.conv = "p" -> HexPieces(f, <<"0", "x">>)
      [] f.conv = "s" -> StringPieces(f)
      [] f.conv = "c" -> Beside(f, <<f.arg>>)
      [] f.conv = "f" -> Beside(f, DoubleText(f.arg, IF f.precision >= 0 THEN f.precision ELSE 6))
      [] f.conv = "%" -> <<<<"%">>>>
      [] OTHER -> <<<<unknown, f.conv>>>>

\* printf: every piece is written to the file.
PrintF(format) == FlattenSeq(FlattenSeq([i \in DOMAIN format |-> Pieces(format[i], LastOfSpec(format[i]))]))

\* strbuf_write: pos counts what should have been written.
StrbufWrite(size, sb, data) ==
    [s |-> IF sb.pos >= size THEN sb.s ELSE sb.s \o SubSeq(data, 1, Min({Len(data), size - sb.pos - 1})),
     pos |-> sb.pos + Len(data)]
\* snprintf: what is in the buffer before the zero, and what is returned.
SNPrintF(size, format) ==
    FoldLeft(LAMBDA sb, data : StrbufWrite(size, sb, data), [s |-> <<>>, pos |-> 0],
             FlattenSeq([i \in DOMAIN format |-> Pieces(format[i], "%")]))

----------------------------------------------------------------------------
(* Properties                                                              *)

Bare(text) == SelectSeq(text, LAMBDA c : c # " ")
\* What the numeral in a text says: its digits, without the blanks around it.
RECURSIVE ValueOf(_, _)
ValueOf(digits, base) ==
    IF digits = <<>> THEN 0 ELSE ValueOf(Front(digits), base) * base + (CHOOSE i \in 1 .. 16 : DigitChars[i] = Last(digits)) - 1
Unsign(text) == IF text # <<>> /\ text[1] = "-" THEN Tail(text) ELSE text

\* A number is written as C says: at least as wide as asked, with no more
\* than it needs; a sign iff it is negative; the digits say its value, with
\* zeros in front for the precision; blanks on one side.  (LongMin has no
\* digits, an argument of the wrong type no meaning.)
NumberSound(f, text) ==
    LET bare == Bare(text)
        digits == Unsign(bare)
        base == IF f.conv = "x" THEN 16 ELSE 10
    IN  /\ Len(text) >= f.width /\ (Len(text) > f.width => text = bare)
        /\ (f.arg < 0) = (bare # digits)
        /\ f.arg # LongMin => ValueOf(digits, base) = IF f.arg < 0 THEN -f.arg ELSE f.arg
        /\ Len(digits) >= f.precision
        /\ Len(digits) > Max({1, f.precision}) /\ digits[1] = "0" => f.zero /\ ~f.minus /\ f.precision < 0 /\ Len(text) = f.width
        /\ text = IF f.minus THEN bare \o Repeat(Len(text) - Len(bare), " ") ELSE Repeat(Len(text) - Len(bare), " ") \o bare

\* A double is written as the nearest decimal of that many places.
DoubleSound(f, text) ==
    LET digits == SelectSeq(Unsign(Bare(text)), LAMBDA c : c # ".")
        size == IF f.arg < 0 THEN -f.arg ELSE f.arg
    IN  16 * ValueOf(digits, 10) \in 2 * size * 10 ^ f.precision - 7 .. 2 * size * 10 ^ f.precision + 8

\* Both write the same; the buffer gets what fits of it, and the length of
\* all is returned, so that a caller can tell.
OutputSound(size, format, out) ==
    LET whole == PrintF(format)
    IN  (\A i \in DOMAIN format : format[i].conv = "q" => LastOfSpec(format[i]) = "%") =>
             out.pos = Len(whole) /\ out.s = SubSeq(whole, 1, Max({0, Min({Len(whole), size - 1})}))
FieldSound(f, text) ==
    /\ f.conv \in {"d", "u", "x"} => NumberSound(f, text)
    /\ f.conv = "f" => DoubleSound(f, text)
----------------------------------------------------------------------------
(* Input                                                                   *)

DigitValue(c) == CHOOSE i \in 0 .. 15 : DigitChars[i + 1] = c
DigitsOf(base) == {DigitChars[i] : i \in 1 .. base}

Rest(s, n) == SubSeq(s, n + 1, Len(s))
\* How many of the leading characters are in a set, up to a limit.
Span(s, set, limit) == Max({0} \cup {n \in 1 .. Min({Len(s), limit}) : \A i \in 1 .. n : s[i] \in set})
SkipBlanks(s) == Rest(s, Span(s, {" "}, Len(s)))
Number(digits, base) == FoldLeft(LAMBDA v, c : v * base + DigitValue(c), 0, digits)
StartsWith(s, c) == s # <<>> /\ s[1] = c

\* A conversion's answer: the input that is left, whether it matched, what it
\* stores.  A conversion that fails has used up a sign or a prefix.
Fails(s) == [s |-> s, matched |-> FALSE, value |-> 0]
Digested(s, base, limit, sign) ==
    LET n == Span(s, DigitsOf(base), limit) IN [s |-> Rest(s, n), matched |-> TRUE, value |-> sign * Number(SubSeq(s, 1, n), base)]
SignOf(s) == IF StartsWith(s, "-") THEN -1 ELSE 1
PastSign(s, signs) == IF s # <<>> /\ s[1] \in signs THEN Tail(s) ELSE s
\* %d and %u; the width does not count the sign.
Decimal(s, signs, limit) ==
    LET t == PastSign(s, signs) IN IF t = <<>> \/ t[1] \notin DigitsOf(10) THEN Fails(t) ELSE Digested(t, 10, limit, SignOf(s))
\* %i: the base is found in the number; the width does not count a prefix.
AnyBase(s, limit) ==
    LET t == PastSign(s, {"-", "+"})
        u == Tail(t)
    IN  CASE t = <<>> \/ t[1] \notin DigitsOf(10) -> Fails(t)
          [] t # <<>> /\ t[1] \in DigitsOf(10) \ {"0"} -> Digested(t, 10, limit, SignOf(s))
          [] OTHER -> CASE Len(u) > 1 /\ u[1] = "x" /\ u[2] \in DigitsOf(16) -> Digested(Tail(u), 16, limit, SignOf(s))
                        [] OTHER -> Digested(u, 8, limit, SignOf(s))
Hexadecimal(s, limit) ==
    LET t == IF Len(s) > 1 /\ s[1] = "0" /\ s[2] = "x" THEN Rest(s, 2) ELSE s
    IN  IF t = <<>> \/ t[1] \notin DigitsOf(16) THEN Fails(t) ELSE Digested(t, 16, limit, 1)

Convert(f, s, consumed) ==
    LET limit == IF f.width = 0 THEN Len(s) ELSE f.width
        t == SkipBlanks(s)
        Taken(from, n) == [s |-> Rest(from, n), matched |-> TRUE, value |-> SubSeq(from, 1, n)]
    IN  CASE f.conv = "d" -> Decimal(t, {"-", "+"}, limit)
          [] f.conv = "u" -> Decimal(t, {"+"}, limit)
          [] f.conv = "i" -> AnyBase(t, limit)
          [] f.conv = "x" -> Hexadecimal(t, limit)
          [] f.conv = "s" -> Taken(t, Span(t, ToSet(t) \ {" "}, limit))
          [] f.conv = "c" -> Taken(s, Min({Len(s), Max({1, f.width})}))
          [] f.conv = "n" -> [s |-> s, matched |-> TRUE, value |-> consumed]

\* One field: run is the state of the loop.  The input must not be used up
\* before a conversion but %n; one that does not match is skipped and the
\* format goes on, so that what follows goes to the argument before its own.
Scan(run, f, length) ==
    LET got == Convert(f, run.s, length - Len(run.s))
        before == IF f.conv = "c" THEN run.s ELSE SkipBlanks(run.s)
    IN  CASE run.done -> run
          [] ~run.done /\ f.conv = "blanks" -> [run EXCEPT !.s = SkipBlanks(@)]
          [] ~run.done /\ f.conv = "match" ->
                IF StartsWith(run.s, f.char) THEN [run EXCEPT !.s = Tail(@)] ELSE [run EXCEPT !.done = TRUE]
          [] OTHER ->
                IF before = <<>> /\ f.conv # "n" THEN [run EXCEPT !.s = before, !.done = TRUE]
                ELSE IF ~got.matched THEN [run EXCEPT !.s = got.s, !.missed = TRUE]
                ELSE IF f.suppress THEN [run EXCEPT !.s = got.s]
                ELSE [run EXCEPT !.s = got.s, !.stored = Append(@, <<f.conv, got.value>>), !.count = IF f.conv = "n" THEN @ ELSE @ + 1]
\* vsscanf
SScanF(s, format) ==
    LET start == [s |-> s, stored |-> <<>>, count |-> 0, done |-> FALSE, missed |-> FALSE]
    IN  IF s = <<>> THEN [start EXCEPT !.count = -1, !.done = TRUE]
        ELSE FoldLeft(LAMBDA run, f : Scan(run, f, Len(s)), start, format)

----------------------------------------------------------------------------
(* Properties                                                              *)

\* A value goes to the argument of its own conversion as long as every
\* conversion matched, and is the part of the input that its place has in the
\* format: what was stored before the first one that did not match is not
\* touched by what follows.  The count says how many values there are.
InputSound(s, format, run) ==
    LET wanted == SelectSeq(format, LAMBDA f : f.conv \notin {"blanks", "match"} /\ ~f.suppress)
        Up(k) == SScanF(s, SubSeq(format, 1, k))
        sure == Max({0} \cup {k \in DOMAIN format : ~Up(k).missed})
    IN  /\ Len(run.stored) <= Len(wanted)
        /\ \A i \in DOMAIN run.stored : run.missed \/ run.stored[i][1] = wanted[i].conv
        /\ IsPrefix(Up(sure).stored, run.stored)
        /\ (run.count = -1) = (s = <<>>)
        /\ s # <<>> => run.count = Len(SelectSeq(run.stored, LAMBDA v : v[1] # "n"))
        /\ IsSuffix(run.s, s)
=============================================================================
