---------------------------- MODULE FloatLiteral ----------------------------
(***************************************************************************)
(* parse_float_literal of lex.c: the binary exponent and the mantissa of a *)
(* decimal literal, with two words of WordBits each for every number.  The *)
(* widths are constants: 32, 52 and 18 digits in the code.                 *)
(***************************************************************************)
EXTENDS Lexer

WordSize == 2 ^ WordBits
Double == WordSize * WordSize
Fraction == 2 ^ MantissaBits

\* u64_mul10, u64_add_digit; u64_div10 takes the two words one by one.
MulTen(m) == (m * 10) % Double
AddDigit(m, d) == (m + d) % Double
DivTen_Slip(m) ==   \* Mutant: the rests of the two words are not added up.
    LET hi == m \div WordSize
        lo == m % WordSize
        over == (hi % 10) * (WordSize \div 10)
        q == (over + (lo \div 10)) % WordSize
    IN  [quotient |-> (hi \div 10) * WordSize + q, rest |-> (6 * (hi % 10) + (lo % 10)) % 10]
DivTen(m) ==
    LET hi == m \div WordSize
        lo == m % WordSize
        over == (hi % 10) * (WordSize \div 10)
        q == (over + (lo \div 10) + (6 * (hi % 10) + (lo % 10)) \div 10) % WordSize
    IN  [quotient |-> ((hi \div 10) + (IF q < over THEN 1 ELSE 0)) * WordSize + q, rest |-> (6 * (hi % 10) + (lo % 10)) % 10]

\* The exponent that stands at a place, 0 when there is none.
ExponentAt(text, at) ==
    LET signed == CharAt(text, at + 1) \in {"+", "-"}
        from == IF signed THEN at + 2 ELSE at + 1
        size == NumeralValue(SubSeq(text, from, Beyond(text, from, IsDigit) - 1), 10)
    IN  IF CharAt(text, at) # "e" THEN 0 ELSE IF CharAt(text, at + 1) = "-" THEN -size ELSE size
Mantissa(digits, counted) == FoldLeft(LAMBDA m, d : AddDigit(MulTen(m), DigitValue(d)), 0, SubSeq(digits, 1, counted))
DigitsOf(body, exponent) ==
    LET digits == SelectSeq(body, IsDigit)
        counted == IF Len(digits) > MaxDigits THEN MaxDigits ELSE Len(digits)
        whole == Beyond(body, 1, IsDigit) - 1
    IN  [value |-> Mantissa(digits, counted), exponent |-> exponent, ten |-> exponent - (counted - whole)]
\* The digits that count, and the power of ten they stand before: zeros at
\* the very front do not count, those after the point do.
LiteralDigits(text) ==
    LET first == Beyond(text, 1, LAMBDA c : c = "0")
        last == Beyond(text, first, LAMBDA c : IsDigit(c) \/ c = ".")
    IN  DigitsOf(SubSeq(text, first, last - 1), ExponentAt(text, last))

\* A positive power multiplies, as far as there is room.
Multiplied(m, times) ==
    LET M[k \in 0 .. times] ==
            IF k = 0 THEN m ELSE IF M[k - 1] \div WordSize > (WordSize - 1) \div 10 THEN M[k - 1] ELSE MulTen(M[k - 1])
    IN  M[times]
\* A negative one divides: the quotient q and the rest r of the division by d.
Divided(m, times) ==
    LET Step(s, i) == LET by == DivTen(s.q) IN [q |-> by.quotient, r |-> AddDigit(s.r, by.rest * s.d), d |-> MulTen(s.d)]
    IN  FoldLeft(Step, [q |-> m, r |-> 0, d |-> 1], [i \in 1 .. times |-> i])

TopBit(q) == IF q = 0 THEN 0 ELSE CHOOSE b \in 0 .. 2 * WordBits - 1 : 2 ^ b <= q /\ q < 2 ^ (b + 1)
\* A pure fraction: how often r is doubled before it reaches d, and what it
\* has left then.  The search ends after 2048, and the doubled r may have run
\* out of the two words.
Leading(part) ==
    LET twice(k) == (part.r * 2 ^ k) % Double
        found == {k \in 1 .. 2 * WordBits : twice(k) >= part.d}
        first == CHOOSE k \in found : \A j \in found : k <= j
    IN  IF found = {} THEN [top |-> -2049, r |-> part.r] ELSE [top |-> -first, r |-> twice(first) - part.d]
\* So many binary digits of r / d; "extra" when a rest was left on the way.
BinaryDigits(r, d, many) ==
    LET Step(s, i) ==
            LET twice == (2 * s.r) % Double
                rest == IF twice >= d THEN twice - d ELSE twice
            IN  [r |-> rest, bits |-> 2 * s.bits + (IF twice >= d THEN 1 ELSE 0), extra |-> s.extra \/ rest > 0]
    IN  FoldLeft(Step, [r |-> r, bits |-> 0, extra |-> FALSE], [i \in 1 .. many |-> i])

Exponent(top) == ((1023 + top) % 2048) - 1023   \* eleven bits
Times(ten) == IF ten > 0 THEN ten ELSE 0
FloatBits(exp, mantissa) == [zero |-> FALSE, exp |-> Exponent(exp), mantissa |-> mantissa % Fraction]
Rounded(top, mantissa, up) ==
    IF up THEN FloatBits(IF mantissa + 1 = Fraction THEN top + 1 ELSE top, mantissa + 1) ELSE FloatBits(top, mantissa)
WithDigits(top, whole, r, below) ==
    Rounded(top, whole + (below.bits \div 2), r > 0 /\ (below.extra \/ below.bits % 2 = 1))
\* "room": the binary digits of the mantissa that the whole part leaves.
Encoded(top, room, whole, r, d) ==
    IF room <= 0 THEN FloatBits(top, 0) ELSE WithDigits(top, whole, r, BinaryDigits(r, d, room + 1))
OfNumber(part, top) ==
    Encoded(top, MantissaBits - top, ((part.q - 2 ^ top) * 2 ^ (MantissaBits - top)) % Fraction, part.r, part.d)
OfFraction(part, lead) == Encoded(lead.top, MantissaBits, 0, lead.r, part.d)
FloatOf(part) == IF part.q = 0 /\ part.r > 0 THEN OfFraction(part, Leading(part)) ELSE OfNumber(part, TopBit(part.q))
ParseFloat(text) ==
    LET read == LiteralDigits(text)
    IN  IF read.value = 0 THEN [zero |-> TRUE, exp |-> 0, mantissa |-> 0]
        ELSE FloatOf(Divided(Multiplied(read.value, Times(read.ten)), Times(-read.ten)))

----------------------------------------------------------------------------

\* A literal that is smaller than 2 ^ MantissaBits, whose digits all count
\* and of which at most MaxDigits stand behind the point, is never read as
\* less than it is, and as at most one unit of the last place more; a whole
\* number is exact.  With more digits it is within two units
\* (parse_float_literal).
FloatRead(text, bits) ==
    LET end == Beyond(text, 1, LAMBDA c : IsDigit(c) \/ c = ".")
        body == SubSeq(text, 1, end - 1)
        point == Beyond(body, 1, IsDigit)
        number == NumeralValue(SelectSeq(body, IsDigit), 10)
        behind == (IF point > Len(body) THEN 0 ELSE Len(body) - point) - LiteralDigits(text).exponent
        over == number * 10 ^ Times(-behind)   \* the literal is over / under
        under == 10 ^ Times(behind)
        significant == Len(SelectSeq(SubSeq(text, Beyond(text, 1, LAMBDA c : c = "0"), end - 1), IsDigit))
        place(n) == (Fraction + bits.mantissa + n) * under
        exact == over * 2 ^ (MantissaBits - bits.exp)
    IN  behind <= MaxDigits /\ over < under * Fraction =>
        CASE significant <= MaxDigits ->
                /\ bits.zero <=> number = 0
                /\ ~bits.zero => /\ exact <= place(0) /\ place(-1) <= exact
                                 /\ over % under = 0 => exact = place(0)
          [] significant > MaxDigits /\ over >= under -> ~bits.zero /\ place(-2) <= exact /\ exact <= place(2)
          [] OTHER -> TRUE
=============================================================================
