----------------------------- MODULE MCCompiler -----------------------------
(* The compiler's inputs: families of small programs; every short text     *)
(* over some alphabets for the lexer, floating-point literals, and files   *)
(* of a few declarations.                                                  *)
EXTENDS Compiler, CTokens, FloatLiteral, CDeclarations, TLC

MCLiteralValue == ("0" :> 0) @@ ("1" :> 1) @@ ("2" :> 2) @@ ("3" :> 3) @@ ("5" :> 5) @@ ("9" :> 9)

X == Var("x")
Y == Var("y")
N(t) == Const(t)
Add(l, r) == Binop("+", l, r)
Less(l, r) == Binop("<", l, r)
IntVar(x, e) == Decl("int", x, <<e>>)
Do(l, r) == ExprStmt(Assign(l, r))
Ret(e) == Return(<<e>>)
Program(body) == [main |-> Function("int", <<>>, body)]
Minus(t) == Unary("-", N(t))

----------------------------------------------------------------------------
(* Expressions of three operands: every pair of operators, grouped either  *)
(* way, with values that tell the results apart.                           *)

IntOps == {"+", "-", "*", "/", "%", "<<", ">>", "&", "|", "^", "<", ">=", "==", "!=", "&&", "||", ","}
Trees(ops, a, b, c) ==
    {Binop(o, Binop(p, a, b), c) : o, p \in ops} \cup {Binop(o, a, Binop(p, b, c)) : o, p \in ops}
Calculation(t, e, f, tree) == [main |-> Function(t, <<>>, <<Decl(t, "x", <<e>>), Decl(t, "y", <<f>>), Ret(tree)>>)]
IntCalculations ==
    {Calculation("int", v[1], v[2], e) : v \in {<<Minus("9"), N("2")>>, <<N("5"), Minus("3")>>, <<N("0"), N("1")>>}, e \in Trees(IntOps, X, Y, N("3"))}
\* Without the operators whose results are ints.
UnsignedOps == {"+", "-", "*", "/", "%", "&", "|", "^", "<", ">=", "=="}
UnsignedCalculations ==
    {Calculation("unsigned", v[1], v[2], e) : v \in {<<Minus("9"), N("2")>>, <<N("5"), Minus("3")>>},
        e \in {Binop(o, Binop(p, X, Y), X) : o \in UnsignedOps, p \in UnsignedOps \ {"<", ">=", "=="}}}
LongCalculations ==
    {Calculation("long", v[1], v[2], e) : v \in {<<Minus("9"), N("2")>>, <<N("5"), Minus("3")>>}, e \in Trees(IntOps \ {"&&", "||", ",", "<<", ">>"}, X, Y, X)}
\* Unary operators, assignments and conditional expressions in their midst.
Pieces == {Unary("-", X), Unary("~", X), Unary("!", X), Postfix("++", X), Unary("--", X), Assign(X, N("2")), Assign(X, Binop("*", X, N("2"))),
           Ternary(X, Y, N("1"))}
Mixed ==
    {Calculation("int", N("3"), Minus("5"), Binop(o, p, Y)) : o \in IntOps, p \in Pieces}
    \cup {Calculation("int", N("3"), N("1"), Binop(o, Y, p)) : o \in IntOps, p \in Pieces}
    \cup {Calculation("int", N("3"), N("0"), Unary(o, p)) : o \in {"-", "~", "!"}, p \in Pieces}
    \cup {Calculation("int", N("3"), N("0"), Ternary(p, q, r)) : p, q, r \in Pieces}
    \cup {Calculation("int", N("3"), N("0"), Assign(Y, Assign(X, p))) : p \in Pieces}

----------------------------------------------------------------------------
(* Loops and branches                                                      *)

Step == Do(Y, Add(Y, X))
Shadow == Block(<<IntVar("x", N("5")), Step>>)
If1(c, s) == If(c, s, <<>>)
Simple == {Do(X, Add(X, N("1"))), Step, If1(Binop("==", X, N("2")), Plain("break")), If1(Binop("==", X, N("1")), Plain("continue")), Ret(Y),
           Shadow}
Loops(bodies) ==
    {While(Less(X, N("3")), b) : b \in bodies}
    \cup {For(<<IntVar("i", N("0"))>>, <<Less(Var("i"), N("3"))>>, <<Postfix("++", Var("i"))>>, b) : b \in bodies}
    \cup {For(<<>>, <<>>, <<>>, b) : b \in bodies}
Repeats(bodies) == {DoWhile(b, Less(X, N("3"))) : b \in bodies}
Bodies1 == {Block(<<Do(X, Add(X, N("1"))), s>>) : s \in Simple}
Bodies2 == {Block(<<s, t>>) : s, t \in Simple}
Nested == {Block(<<l, s>>) : l \in Loops(Bodies1), s \in Simple}
             \cup {If(Less(X, N("2")), Block(<<Do(X, Add(X, N("2"))), s>>), <<t>>) : s \in Simple, t \in Simple}
             \cup {Block(<<Do(X, Add(X, N("1"))), Switch(X, <<Case("1", "1"), s, Case("2", "3"), t, Plain("break"), Plain("default"), u, Ret(X)>>)>>) :
                      s \in Simple \ {Shadow}, t \in Simple \cup {While(Less(X, N("3")), b) : b \in Bodies1}, u \in {Plain("break"), Plain("continue")}}
RECURSIVE Continues(_)
Continues(s) ==
    CASE s.k = "continue" -> TRUE
      [] s.k = "if" -> Continues(s.t) \/ \E i \in DOMAIN s.els : Continues(s.els[i])
      [] s.k \in {"block", "switch"} -> \E i \in DOMAIN s.ss : Continues(s.ss[i])
      [] OTHER -> FALSE
Looping ==
    {Program(<<IntVar("x", N("0")), IntVar("y", N("0")), l, Ret(Add(Binop("*", X, N("3")), Y))>>) :
        l \in Loops(Bodies2 \cup Nested) \cup Repeats({b \in Bodies2 \cup Nested : ~Continues(b)})}

\* Statements that stand alone, where some of them are not allowed.
Alone == {Program(<<IntVar("x", N("1")), IntVar("y", N("2")), s, Ret(X)>>) :
            s \in Simple \cup {Plain("break"), Plain("continue"), Plain("default"), Case("1", "1"), Plain("empty")}
                  \cup {If(X, If(Y, s, <<t>>), e) : s, t \in {Step, Plain("break"), Plain("empty")}, e \in {<<>>, <<Ret(N("3"))>>}}
                  \cup {If(X, Block(<<If1(Y, Step)>>), <<Ret(N("3"))>>), Switch(X, <<Plain("continue")>>), Switch(X, <<Plain("default"), Plain("break")>>)}}

Branches == {<<Case("1", "1")>>, <<Case("2", "3")>>, <<Plain("default")>>, <<Case("0", "0"), Case("5", "5")>>}
Ways == {<<Step, Plain("break")>>, <<Step>>, <<Plain("break")>>, <<Ret(N("9"))>>}
Orders == {<<a, b, c>> \in Branches \X Branches \X Branches : Cardinality({a, b, c}) = 3}
Switches ==
    {Program(<<IntVar("x", N(v)), IntVar("y", N("1")), Switch(Add(X, N("0")), o[1] \o v1 \o o[2] \o v2 \o o[3] \o <<Do(Y, N("5")), Plain("break")>>), Ret(Y)>>) :
        v \in {"0", "1", "2", "5", "9"}, o \in Orders, v1, v2 \in Ways}
Jumps ==
    {Program(<<IntVar("x", N("0")), IntVar("y", N("0")), Label("a"), Do(X, Add(X, N("1"))), If1(Less(X, N(v)), Goto(t)), Step, Label("b"), s, Label("c"), Ret(Add(X, Y))>>) :
        v \in {"1", "3"}, t \in {"a", "b", "c"}, s \in Simple}

----------------------------------------------------------------------------
(* Calls, with more arguments than registers                               *)

Params(t, n) == [i \in 1 .. n |-> [t |-> t, x |-> <<"a", "b", "c", "d">>[i]]]
\* The arguments with different weights, so that their order matters.
Weighted(n) ==
    FoldLeft(LAMBDA e, i : Add(e, Binop("*", Var(<<"a", "b", "c", "d">>[i]), N(<<"5", "3", "2", "1">>[4 - n + i]))),
             N("0"), [i \in 1 .. n |-> i])
Sum(t, n) == Function(t, Params(t, n), <<Ret(Weighted(n))>>)
Args == {N("1"), Call("f", <<N("1"), N("0"), N("1")>>), Call("g", <<N("2")>>), Call("f", <<X, N("1"), N("0")>>)}
Calls ==
    {[f |-> Sum("int", 3), g |-> Function("int", Params("int", 1), <<If1(Less(Var("a"), N("1")), Ret(N("0"))), Ret(Add(Var("a"), Call("g", <<Binop("-", Var("a"), N("1"))>>)))>>),
      h |-> Sum(t, 4),
      main |-> Function(t, <<>>, <<Decl("int", "x", <<N("2")>>), Ret(Call("h", <<p, X, q, r>>))>>)] : t \in {"int", "long"}, p, q, r \in Args}

MCPrograms == IntCalculations \cup UnsignedCalculations \cup LongCalculations \cup Mixed \cup Looping \cup Alone \cup Switches \cup Jumps \cup Calls
----------------------------------------------------------------------------
(* Texts, literals and declarations                                        *)

VARIABLE frontCall   \* the text that was read, and the result

frontVars == <<frontCall, declVars>>

MCWords == {<<"i", "f">>}
MCCharCode == [c \in ToSet(HexDigits) \cup {"i", "n", "t", "x", "'", " ", "\n", "\t", "/", "*", "#", "quote", "backslash", EndOfText} |->
    CASE c = "i" -> 105 [] IsDigit(c) -> 48 + DigitValue(c) [] IsHex(c) /\ ~IsDigit(c) -> 87 + DigitValue(c) [] c = "n" -> 110 [] c = "t" -> 116 [] c = "x" -> 120
      [] c = "'" -> 39 [] c = " " -> 32 [] c = "\n" -> 10 [] c = "\t" -> 9 [] c = "/" -> 47 [] c = "*" -> 42 [] c = "#" -> 35
      [] c = "quote" -> 34 [] c = "backslash" -> 92 [] c = EndOfText -> -1]

Texts(alphabet, n) == UNION {[1 .. k -> alphabet] : k \in 0 .. n}
LineComments == {text \in Texts({"/", "*", "a", "\n", "#"}, 5) : \A i \in DOMAIN text : text[i] = "#" => AtLineStart(text, i)}
MCTexts == Texts({"0", "8", "x", "e", ".", "+", "f"}, 4) \cup Texts({"<", "=", "-", "+", ">", "!"}, 4) \cup Texts({"7", "u", "l", "&", "|", " "}, 3)
    \cup LineComments \cup Texts({"quote", "backslash", "n", "0", "7"}, 5) \cup Texts({"'", "backslash", "x", "7"}, 6) \cup Texts({"i", "f", "0", "_", " "}, 4)

Pointed(s) == {SubSeq(s, 1, k) \o <<".">> \o SubSeq(s, k + 1, Len(s)) : k \in 0 .. Len(s) - 1}
Literal(alphabet, n) == UNION {Pointed(s) : s \in Texts(alphabet, n)}
Exponents == {<<"e", "1">>, <<"e", "+", "2">>, <<"e", "-", "1">>, <<"e", "-", "3">>}
MCLiterals == Literal({"0", "1", "2", "5", "9"}, 4) \cup Literal({"1", "9"}, 6)
    \cup {s \o e : s \in (Texts({"1", "7", "8"}, 3) \ {<<>>}) \cup Literal({"0", "3", "7"}, 3), e \in Exponents}

----------------------------------------------------------------------------
(* Declarations                                                            *)

Words(ws) == [words |-> ws, body |-> <<>>]
Body(ws, lines) == [words |-> ws, body |-> lines]
OneName(x) == [x |-> x, stars |-> 0, dims |-> <<>>, init |-> NoInit]
Pointer(x) == [OneName(x) EXCEPT !.stars = 1]
Array(x, dims) == [OneName(x) EXCEPT !.dims = dims]
MemberLine(ws, names) == [words |-> ws, names |-> names]
Ints(vs) == [i \in DOMAIN vs |-> IntItem(vs[i])]
Set(d, init) == [d EXCEPT !.init = init]

MCBodyLines == {MemberLine(<<"char">>, <<OneName("a")>>), MemberLine(<<"short">>, <<OneName("b"), OneName("c")>>), MemberLine(<<"long", "int">>, <<OneName("d")>>), MemberLine(<<"int">>, <<Array("e", <<3>>)>>),
              MemberLine(<<"struct", "S">>, <<OneName("f")>>), MemberLine(<<"struct", "S">>, <<Pointer("g")>>), MemberLine(<<"T">>, <<OneName("h")>>), MemberLine(<<"unsigned", "char">>, <<Array("i", <<5>>)>>),
              MemberLine(<<"int">>, <<OneName("j"), Pointer("k")>>)}
MCMemberLists == UNION {[1 .. n -> MCBodyLines] : n \in 1 .. 2}
PairBody == <<MemberLine(<<"int">>, <<OneName("a"), OneName("b")>>)>>
Globals(ws, names) == [k |-> "global", type |-> Words(ws), names |-> names]
Typedef(type, d) == [k |-> "typedef", type |-> type, x |-> d.x, stars |-> d.stars, dims |-> d.dims]
Item(x, e, value) == [x |-> x, e |-> e, value |-> value]

\* One declaration that gives names, one that uses them.
Naming == {[k |-> "struct", type |-> Body(<<"struct", "S">>, PairBody)], [k |-> "struct", type |-> Body(<<"struct", "S">>, <<MemberLine(<<"char">>, <<Array("a", <<8>>)>>)>>)],
           Typedef(Words(<<"struct", "S">>), OneName("T")), Typedef(Words(<<"unsigned", "long">>), OneName("T")), Typedef(Words(<<"struct", "S">>), Pointer("P")),
           Typedef(Body(<<"struct">>, PairBody), OneName("T")), Typedef(Words(<<"T">>), OneName("P"))}
Aggregates == {[k |-> "struct", type |-> Body(<<w, "U">>, b)] : w \in {"struct", "union"}, b \in MCMemberLists}
Enumerations == {[k |-> "enum", type |-> Words(<<"enum">>),
                  items |-> <<Item("A", <<>>, 0), Item("B", <<"-", <<"*", <<2>>, <<3>>>>, <<"name", "A">>>>, 6), Item("C", <<>>, 7), Item("D", <<"~", <<"/", <<"-", <<7>>>>, <<2>>>>>>, 2), Item("E", <<"<<", <<1>>, <<"name", "D">>>>, 4), Item("F", <<>>, 5)>>]}
Scalars == {<<"char">>, <<"short">>, <<"int">>, <<"long">>, <<"unsigned">>, <<"T">>}
Variables ==
    {Globals(ws, <<d>>) : ws \in Scalars, d \in
        {OneName("v"), Pointer("v"), Array("v", <<3>>), Set(OneName("v"), IntItem(5)), Set(Array("v", <<2>>), Braces(Ints(<<1, -2>>))), Set(Array("v", <<1>>), Braces(Ints(<<7>>))), Set(Array("v", <<0>>), Braces(Ints(<<3, 4, 515>>))),
         Set(Array("v", <<0>>), [Braces(Ints(<<3, 4>>)) EXCEPT !.comma = TRUE]), Set(Array("v", <<4>>), Braces(Ints(<<1>>))),
         Set(Array("v", <<2, 2>>), Braces(<<Braces(Ints(<<1, 2>>)), Braces(Ints(<<-3, 4>>))>>)), Set(Array("v", <<0, 2>>), Braces(<<Braces(Ints(<<1, 2>>)), Braces(Ints(<<-3, 4>>))>>))}}
    \cup {Globals(<<"char">>, <<Set([Pointer("v") EXCEPT !.dims = dims], Braces(<<StrItem(1), IntItem(0), StrItem(2)>>))>>) : dims \in {<<0>>, <<3>>}}
    \cup {Globals(ws, <<Set(Array("v", dims), Braces(<<Braces(Ints(<<1, 2>>)), Braces(Ints(<<3, -4>>))>>))>>) : ws \in {<<"struct", "S">>, <<"T">>}, dims \in {<<0>>, <<2>>}}
    \cup {Globals(<<"struct", "S">>, <<Set(OneName("v"), Braces(Ints(<<1, -2>>)))>>), Globals(<<"int">>, <<OneName("v"), Pointer("w"), Set(Array("y", <<2>>), Braces(Ints(<<5, 6>>)))>>)}
Spelled == {Typedef(Words(ws), OneName("Q")) : ws \in
    UNION {[1 .. n -> {"unsigned", "signed", "char", "short", "int", "long", "double", "float"}] : n \in 1 .. 3}}
\* What stands behind a variable shows whether it kept to its place.
Probes == {Globals(<<"char">>, <<Set(Array("w", <<2>>), Braces(Ints(<<8, 9>>)))>>), Globals(<<"short">>, <<OneName("w")>>)}
Sentences == Naming \cup Aggregates \cup Enumerations \cup Variables \cup Spelled \cup Probes

\* A file: names that are not given two meanings, then one declaration that
\* uses them; a variable with another one behind it.
OnceNamed(d) ==
    \A n \in DOMAIN declared :
        /\ d.k = "struct" => declared[n].k # "struct"
        /\ d.k = "typedef" /\ declared[n].k = "typedef" => d.x # declared[n].x \/ d = declared[n]
OnlyNames == \A n \in DOMAIN declared : declared[n] \in Naming
MayFollow ==
    CASE declared = <<>> -> Sentences \ Probes
      [] declared # <<>> /\ OnlyNames -> (IF Len(declared) < 2 THEN {d \in Naming : OnceNamed(d)} ELSE {}) \cup Aggregates \cup Variables
      [] Last(declared).k = "global" /\ Last(declared) \notin Probes -> Probes
      [] OTHER -> {}

----------------------------------------------------------------------------

FrontStart == frontCall = <<"none">> /\ DeclStart
ReadText == \E text \in MCTexts : frontCall' = <<"text", text, TokensOf(text)>>
ReadLiteral == \E text \in MCLiterals : frontCall' = <<"literal", text, ParseFloat(text)>>
FrontNext ==
    \/ frontCall = <<"none">> /\ declared = <<>> /\ (ReadText \/ ReadLiteral) /\ UNCHANGED declVars
    \/ frontCall = <<"none">> /\ (\E d \in MayFollow : DeclareOne(d)) /\ UNCHANGED frontCall

\* Tokens are the longest that C's grammar finds and have their values,
\* floating-point literals are read to the last place, and declarations give
\* the sizes, the layout and the data of C (see TextRead, FloatRead and
\* DeclarationsSound; lex.c, parse.c, cgen.c).
FrontCallSound ==
    CASE frontCall[1] = "none" -> DeclarationsSound
      [] frontCall[1] = "text" -> TextRead(frontCall[2], frontCall[3])
      [] frontCall[1] = "literal" -> FloatRead(frontCall[2], frontCall[3])
=============================================================================
