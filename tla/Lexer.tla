------------------------------- MODULE Lexer -------------------------------
(***************************************************************************)
(* The lexer of toyc (src/app/compiler/lex.c): the next token of a text of *)
(* characters, the characters of a string, and the bits of a floating-     *)
(* point literal.  A text is a sequence of characters; "quote" and         *)
(* "backslash" stand for those two.                                        *)
(***************************************************************************)
EXTENDS Integers, Sequences, SequencesExt

CONSTANTS
    Keywords,      \* the words of the keyword table
    CharCode,      \* character -> its code
    WordBits,      \* the width of the words a mantissa is kept in: 32
    MantissaBits,  \* 52
    MaxDigits      \* the digits of a literal that count: 18

ASSUME LexerAssumption ==
    /\ Keywords \subseteq Seq(DOMAIN CharCode)
    /\ {WordBits, MantissaBits, MaxDigits} \subseteq Nat \ {0}
    /\ 2 ^ WordBits % 10 = 6   \* u64_div10 is written for such a word
    /\ WordBits <= MantissaBits /\ MantissaBits < 2 * WordBits

HexDigits == <<"0", "1", "2", "3", "4", "5", "6", "7", "8", "9", "a", "b", "c", "d", "e", "f">>
DigitValue(c) == (CHOOSE i \in DOMAIN HexDigits : HexDigits[i] = c) - 1
IsHex(c) == \E i \in DOMAIN HexDigits : HexDigits[i] = c
IsDigit(c) == \E i \in 1 .. 10 : HexDigits[i] = c
IsOctal(c) == \E i \in 1 .. 8 : HexDigits[i] = c
IsLetter(c) == c \in {"a", "b", "c", "d", "e", "f", "i", "l", "n", "o", "t", "u", "x", "_"}
IsAlnum(c) == IsDigit(c) \/ IsLetter(c)
IsNumberSuffix(c) == c \in {"u", "l", "f"}
IsBlank(c) == c \in {" ", "\t", "\n"}

EndOfText == "end"
CharAt(text, i) == IF i \in DOMAIN text THEN text[i] ELSE EndOfText
\* The first place from "at" on whose character is not in a class.
Beyond(text, at, Class(_)) == CHOOSE j \in at .. Len(text) + 1 : ~Class(CharAt(text, j)) /\ \A k \in at .. j - 1 : Class(text[k])
NumeralValue(digits, base) == FoldLeft(LAMBDA v, c : v * base + DigitValue(c), 0, digits)

Token(kind, end, val) ==
    [from |-> 0, at |-> 0, kind |-> kind, end |-> end, val |-> val, unsigned |-> FALSE, float |-> 0]

----------------------------------------------------------------------------
(* Tokens                                                                  *)

\* read_number; "at" is the place of a digit, or of a point before a digit.
\* A point counts only before a digit, and an octal number ends before an 8.
FractionEnd(text, at) ==
    IF CharAt(text, at) = "." /\ IsDigit(CharAt(text, at + 1)) THEN Beyond(text, at + 1, IsDigit) ELSE at
ExponentEnd(text, at) ==
    IF CharAt(text, at) = "e" /\ (IsDigit(CharAt(text, at + 1)) \/ CharAt(text, at + 1) \in {"+", "-"})
    THEN Beyond(text, IF CharAt(text, at + 1) \in {"+", "-"} THEN at + 2 ELSE at + 1, IsDigit)
    ELSE at
BaseAt(text, at) ==
    IF text[at] # "0" THEN 10 ELSE IF CharAt(text, at + 1) = "x" THEN 16 ELSE IF IsDigit(CharAt(text, at + 1)) THEN 8 ELSE 10
NumeralFrom(base, at) == CASE base = 16 -> at + 2 [] base = 8 -> at + 1 [] OTHER -> at
WholeEnd(text, base, at, from) ==
    CASE base = 16 -> Beyond(text, from, IsHex) [] base = 8 -> Beyond(text, from, IsOctal)
      [] text[at] = "." -> Beyond(text, at + 1, IsDigit) [] OTHER -> Beyond(text, at, IsDigit)
Suffixed(token, suffix, isFloat) ==
    [token EXCEPT !.unsigned = "u" \in suffix, !.float = IF ~isFloat THEN 0 ELSE IF "f" \in suffix THEN 4 ELSE 8]
NumeralOf(text, at, base, from, whole) ==
    LET tail == IF base = 10 THEN ExponentEnd(text, FractionEnd(text, whole)) ELSE whole
        end == Beyond(text, tail, IsNumberSuffix)
    IN  Suffixed(Token("number", end, NumeralValue(SelectSeq(SubSeq(text, from, whole - 1), IsHex), base)),
                 ToSet(SubSeq(text, tail, end - 1)), text[at] = "." \/ tail # whole)
NumeralIn(text, at, base, from) == NumeralOf(text, at, base, from, WholeEnd(text, base, at, from))
ReadNumeral(text, at) == LET base == BaseAt(text, at) IN NumeralIn(text, at, base, NumeralFrom(base, at))

IsKeyword(word) == word \in Keywords
ReadIdent(text, at) ==
    LET end == Beyond(text, at, IsAlnum) IN Token(IF IsKeyword(SubSeq(text, at, end - 1)) THEN "keyword" ELSE "ident", end, 0)

\* A backslash takes the next character with it.
ReadString(text, at) ==
    LET Step[i \in at + 1 .. Len(text) + 2] ==
            CASE CharAt(text, i) = "quote" -> Token("string", i + 1, 0)
              [] CharAt(text, i) \in {"\n", EndOfText} -> Token("error", i, 0)
              [] OTHER -> IF text[i] = "backslash" /\ i < Len(text) THEN Step[i + 2] ELSE Step[i + 1]
    IN  Step[at + 1]

\* The characters before an end, at most so many.
AtMost(text, at, most, end) == SubSeq(text, at, (IF end - at > most THEN at + most ELSE end) - 1)
Escaped(c) == CASE c = "n" -> "\n" [] c = "t" -> "\t" [] OTHER -> c
ReadChar(text, at) ==
    LET c == CharAt(text, at + 1)
        hex == AtMost(text, at + 3, 2, Beyond(text, at + 3, IsHex))
        octal == AtMost(text, at + 2, 3, Beyond(text, at + 2, IsOctal))
        read == CASE c = "backslash" /\ CharAt(text, at + 2) = "x" -> [end |-> at + 3 + Len(hex), val |-> NumeralValue(hex, 16)]
                  [] c = "backslash" /\ IsOctal(CharAt(text, at + 2)) -> [end |-> at + 2 + Len(octal), val |-> NumeralValue(octal, 8)]
                  [] c = "backslash" -> [end |-> at + 3, val |-> CharCode[Escaped(CharAt(text, at + 2))]]
                  [] OTHER -> [end |-> at + 2, val |-> CharCode[c]]
    IN  IF CharAt(text, read.end) = "'" THEN Token("number", read.end + 1, read.val) ELSE Token("error", read.end, 0)

\* The operators that begin with a character, the longest first.
OperatorsOf(c) ==
    CASE c \in {"^", "*", "/", "%", "=", "!"} -> <<<<c, "=">>, <<c>>>>
      [] c \in {"+", "&", "|"} -> <<<<c, c>>, <<c, "=">>, <<c>>>>
      [] c = "-" -> <<<<c, c>>, <<c, "=">>, <<c, ">">>, <<c>>>>
      [] c \in {"<", ">"} -> <<<<c, c, "=">>, <<c, c>>, <<c, "=">>, <<c>>>>
      [] c \in {";", "{", "}", "(", ")", "[", "]", ",", "?", "~", ":"} -> <<<<c>>>>
      [] OTHER -> <<>>
ReadOperator(text, at) ==
    LET ops == SelectSeq(OperatorsOf(text[at]), LAMBDA o : IsPrefix(o, SubSeq(text, at, Len(text))))
    IN  IF ops = <<>> THEN Token("error", at + 1, 0) ELSE Token("operator", at + Len(Head(ops)), 0)
ReadDots(text, at) ==
    CASE CharAt(text, at + 1) # "." -> Token("operator", at + 1, 0)
      [] CharAt(text, at + 2) = "." -> Token("operator", at + 3, 0)
      [] OTHER -> Token("error", at + 2, 0)

\* skip_comment.
ToLineEnd(text, at) == Beyond(text, at, LAMBDA c : c \notin {"\n", EndOfText})
BlockEnd_Slip(text, at) ==   \* Mutant: the star that opens may close.
    LET ends == {j \in at - 1 .. Len(text) - 1 : text[j] = "*" /\ text[j + 1] = "/"}
    IN  IF ends = {} THEN Len(text) + 1 ELSE 2 + CHOOSE j \in ends : \A k \in ends : j <= k
BlockEnd(text, at) ==
    LET ends == {j \in at .. Len(text) - 1 : text[j] = "*" /\ text[j + 1] = "/"}
    IN  IF ends = {} THEN Len(text) + 1 ELSE 2 + CHOOSE j \in ends : \A k \in ends : j <= k

\* Blanks, comments, and the lines that begin with "#".
Column(text, at) == at - (CHOOSE j \in 0 .. at - 1 : (j = 0 \/ text[j] = "\n") /\ \A k \in j + 1 .. at - 1 : text[k] # "\n")
SkipBlanks(text, from) ==
    LET Skip[at \in 1 .. Len(text) + 1] ==
            CASE CharAt(text, at) = "/" /\ CharAt(text, at + 1) = "/" -> Skip[ToLineEnd(text, at)]
              [] CharAt(text, at) = "/" /\ CharAt(text, at + 1) = "*" -> Skip[BlockEnd(text, at + 2)]
              [] CharAt(text, at) = "#" /\ Column(text, at) <= 2 -> Skip[ToLineEnd(text, at)]
              [] IsBlank(CharAt(text, at)) -> Skip[at + 1]
              [] OTHER -> at
    IN  Skip[from]

ReadToken(text, at, c) ==
    CASE c = EndOfText -> Token("end", at, 0)
      [] IsDigit(c) \/ (c = "." /\ IsDigit(CharAt(text, at + 1))) -> ReadNumeral(text, at)
      [] IsLetter(c) -> ReadIdent(text, at)
      [] c = "quote" -> ReadString(text, at)
      [] c = "'" -> ReadChar(text, at)
      [] c = "." -> ReadDots(text, at)
      [] OTHER -> ReadOperator(text, at)
TokenAt(text, from, at) == [ReadToken(text, at, CharAt(text, at)) EXCEPT !.from = from, !.at = at]
LexerNext(text, from) == TokenAt(text, from, SkipBlanks(text, from))

\* The tokens the parser takes; an error ends it.
TokensOf(text) ==
    LET From[i \in 1 .. Len(text) + 1] ==
            LET t == LexerNext(text, i) IN IF t.kind \in {"end", "error"} THEN <<t>> ELSE <<t>> \o From[t.end]
    IN  From[1]

\* decode_string_literal, and parse_one_init in the same words: what stands
\* between the quotes.
DecodeString(inner) ==
    LET Code(i, n) == NumeralValue(SubSeq(inner, i, i + n - 1), 8)
        From[i \in 1 .. Len(inner) + 1] ==
            LET e == CharAt(inner, i + 1)
                n == Len(AtMost(inner, i + 1, 3, Beyond(inner, i + 1, IsOctal)))
            IN  CASE i > Len(inner) -> <<>>
                  [] inner[i] # "backslash" \/ i = Len(inner) -> <<CharCode[inner[i]]>> \o From[i + 1]
                  [] inner[i] = "backslash" /\ i < Len(inner) /\ IsOctal(e) /\ e # "0" -> <<Code(i + 1, n)>> \o From[i + 1 + n]
                  [] OTHER -> <<IF e = "0" THEN 0 ELSE CharCode[Escaped(e)]>> \o From[i + 2]
    IN  From[1]
=============================================================================
