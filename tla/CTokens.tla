------------------------------ MODULE CTokens ------------------------------
(* What the tokens of a C text are, by C's own grammar, and that the lexer *)
(* of toyc finds them.                                                     *)
EXTENDS Lexer, FiniteSets, TLC

Slice(text, from, to) == SubSeq(text, from, to - 1)
EachChar(s, Class(_)) == \A i \in DOMAIN s : Class(s[i])

\* text[from .. to - 1] is a row of pieces.
IsRow(from, to, Piece(_, _)) ==
    LET Reach[j \in from .. to] == j = from \/ \E i \in from .. j - 1 : Reach[i] /\ Piece(i, j) IN Reach[to]

AtLineEnd(text, j) == CharAt(text, j) \in {"\n", EndOfText}
AtLineStart(text, i) == i = 1 \/ text[i - 1] = "\n"
BlankPiece(text, i, j) ==
    LET s == Slice(text, i, j) IN
    \/ Len(s) = 1 /\ IsBlank(s[1])
    \/ (IsPrefix(<<"/", "/">>, s) \/ (s[1] = "#" /\ AtLineStart(text, i))) /\ EachChar(s, LAMBDA c : c # "\n") /\ AtLineEnd(text, j)
    \/ Len(s) >= 4 /\ IsPrefix(<<"/", "*">>, s) /\ {k \in 3 .. Len(s) - 1 : Slice(s, k, k + 2) = <<"*", "/">>} = {Len(s) - 1}

\* Numbers: what C takes for one, and those that are constants.
IsPoint(c) == c = "."
NumberEnd(text, at) ==
    CHOOSE j \in at + 1 .. Len(text) + 1 :
        LET More(k) == IsAlnum(CharAt(text, k)) \/ IsPoint(CharAt(text, k)) \/ (CharAt(text, k) \in {"+", "-"} /\ text[k - 1] = "e")
        IN  ~More(j) /\ \A k \in at + 1 .. j - 1 : More(k)
Joined(S, T) == {s \o t : s \in S, t \in T}
IntSuffixes == LET u == {<<>>, <<"u">>} l == {<<>>, <<"l">>, <<"l", "l">>} IN Joined(u, l) \cup Joined(l, u)
Cuts(s) == {<<Slice(s, 1, k), Slice(s, k, Len(s) + 1)>> : k \in 1 .. Len(s) + 1}
IsDigits(s) == s # <<>> /\ EachChar(s, IsDigit)
IsIntBody(s) ==
    \/ IsDigits(s) /\ (s[1] # "0" \/ EachChar(s, IsOctal))
    \/ Len(s) > 2 /\ IsPrefix(<<"0", "x">>, s) /\ EachChar(Slice(s, 3, Len(s) + 1), IsHex)
IsExponent(s) == s # <<>> /\ s[1] = "e" /\ LET d == IF CharAt(s, 2) \in {"+", "-"} THEN 3 ELSE 2 IN IsDigits(Slice(s, d, Len(s) + 1))
IsDecimal(s) == \E i \in DOMAIN s : s[i] = "." /\ EachChar(Slice(s, 1, i), IsDigit) /\ IsDigits(Slice(s, i + 1, Len(s) + 1))
\* Not those that begin with a zero and a digit, which the lexer cuts in two.
IsFloatBody(s) ==
    /\ IsDecimal(s) \/ \E p \in Cuts(s) : (IsDecimal(p[1]) \/ IsDigits(p[1])) /\ IsExponent(p[2])
    /\ ~(s[1] = "0" /\ IsDigit(CharAt(s, 2)))
WorthOf(s) ==
    LET base == IF IsPrefix(<<"0", "x">>, s) THEN 16 ELSE IF s[1] = "0" THEN 8 ELSE 10
        Sum[i \in 0 .. Len(s)] == IF i = 0 THEN 0 ELSE Sum[i - 1] + (IF IsHex(s[i]) THEN DigitValue(s[i]) * base ^ (Len(s) - i) ELSE 0)
    IN  Sum[Len(s)]
NumberRead(s, t) ==
    \A p \in Cuts(s) :
        /\ IsIntBody(p[1]) /\ p[2] \in IntSuffixes
             => t.kind = "number" /\ t.float = 0 /\ t.val = WorthOf(p[1]) /\ (t.unsigned <=> "u" \in ToSet(p[2])) /\ t.end = t.at + Len(s)
        /\ IsFloatBody(p[1]) /\ p[2] \in {<<>>, <<"f">>, <<"l">>}
             => t.kind = "number" /\ t.float = (IF p[2] = <<"f">> THEN 4 ELSE 8) /\ t.end = t.at + Len(s)

\* One character of a constant or a string, as it is written.
Letter(text, i, j, around) ==
    LET s == Slice(text, i, j) IN
    \/ Len(s) = 1 /\ s[1] \notin {around, "backslash", "\n"}
    \/ /\ Len(s) > 1 /\ s[1] = "backslash"
       /\ CASE IsOctal(s[2]) -> Len(s) <= 4 /\ EachChar(Tail(s), IsOctal) /\ (Len(s) = 4 \/ ~IsOctal(CharAt(text, j)))
            [] s[2] = "x" -> Len(s) > 2 /\ EachChar(Slice(s, 3, Len(s) + 1), IsHex) /\ ~IsHex(CharAt(text, j))
            [] OTHER -> Len(s) = 2
LetterCode(s) ==
    CASE Len(s) = 1 -> CharCode[s[1]]
      [] IsOctal(s[2]) -> WorthOf(<<"0">> \o Tail(s))
      [] s[2] = "x" -> WorthOf(<<"0">> \o Tail(s))
      [] OTHER -> CharCode[Escaped(s[2])]

\* What decode_string_literal leaves to itself: \x, and a zero that begins
\* a longer octal number.
ZeroFirst(s) == Len(s) > 2 /\ s[1] = "backslash" /\ s[2] \in {"0", "x"}
StringDecoded(inner) ==
    LET IsLetter2(i, j) == Letter(inner, i, j, "quote")
        starts == {i \in DOMAIN inner : IsRow(1, i, IsLetter2)}
        next(i) == CHOOSE j \in i + 1 .. Len(inner) + 1 : IsLetter2(i, j)
        order == SetToSortSeq(starts, <)
        code == [n \in DOMAIN order |-> LetterCode(Slice(inner, order[n], next(order[n])))]
    IN  (\A i \in starts : ~ZeroFirst(Slice(inner, i, next(i)))) => DecodeString(inner) = code

\* The character of a constant is read for codes that are not negative.
QuotedRead(text, t) ==
    LET q == text[t.at] IN
    \A j \in t.at + 1 .. Len(text) :
        text[j] = q /\ IsRow(t.at + 1, j, LAMBDA i, k : Letter(text, i, k, q)) =>
            IF q = "quote"
            THEN t.kind = "string" /\ t.end = j + 1 /\ StringDecoded(Slice(text, t.at + 1, j))
            ELSE LET s == Slice(text, t.at + 1, j) IN
                 Letter(text, t.at + 1, j, q) /\ LetterCode(s) < 128 => t.kind = "number" /\ t.end = j + 1 /\ t.val = LetterCode(s)

Signs == {<<c>> : c \in {"+", "-", "*", "/", "%", "=", "!", "<", ">", "&", "|", "^", "~", ".", ",", ";", ":", "?", "(", ")", "[", "]", "{", "}"}}
    \cup {<<c, "=">> : c \in {"+", "-", "*", "/", "%", "=", "!", "<", ">", "&", "|", "^"}}
    \cup {<<c, c>> : c \in {"+", "-", "&", "|", "<", ">"}}
    \cup {<<"-", ">">>, <<"<", "<", "=">>, <<">", ">", "=">>, <<".", ".", ".">>}
SignRead(text, t) ==
    LET here == {s \in Signs : IsPrefix(s, Slice(text, t.at, Len(text) + 1))}
        longest == CHOOSE s \in here : \A r \in here : Len(r) <= Len(s)
    IN  here # {} /\ t.kind # "error" => t.kind = "operator" /\ t.end = t.at + Len(longest)

TokenRead(text, t) ==
    LET c == CharAt(text, t.at) IN
    CASE c = EndOfText -> t.kind = "end"
      [] IsDigit(c) \/ (c = "." /\ IsDigit(CharAt(text, t.at + 1))) -> NumberRead(Slice(text, t.at, NumberEnd(text, t.at)), t)
      [] IsLetter(c) -> /\ t.end = Beyond(text, t.at, IsAlnum)
                        /\ t.kind = IF Slice(text, t.at, t.end) \in Keywords THEN "keyword" ELSE "ident"
      [] c \in {"quote", "'"} -> QuotedRead(text, t)
      [] c \in {"#", "backslash"} -> t.kind = "error"
      [] OTHER -> SignRead(text, t)

\* Between two tokens only blanks and comments are passed over, all of them;
\* each token is the longest that C's grammar finds there, and it has the
\* value C gives it (lexer_next, read_number, read_string).
TextRead(text, tokens) ==
    \A n \in DOMAIN tokens :
        LET t == tokens[n] IN
        /\ t.from = IF n = 1 THEN 1 ELSE tokens[n - 1].end
        /\ \/ IsRow(t.from, t.at, LAMBDA i, j : BlankPiece(text, i, j)) /\ ~\E j \in t.at + 1 .. Len(text) + 1 : BlankPiece(text, t.at, j)
           \/ t.kind = "end"   \* a comment without an end
        /\ TokenRead(text, t)
=============================================================================
