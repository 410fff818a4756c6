------------------------------- MODULE CParser -------------------------------
(***************************************************************************)
(* The recursive-descent parser of toyc (src/app/compiler/parse.c) for the *)
(* bodies of functions: expressions, statements and declarations of        *)
(* integers.  A token is the text of it; a tree is a record, as AstNode.   *)
(* Each operator takes the tokens that are left and returns the node n it  *)
(* built, the tokens r after it and whether no error was reported (ok).    *)
(* After an error the compiler writes nothing, so what the recovery of     *)
(* error_recover makes of the rest does not matter here.                   *)
(***************************************************************************)
EXTENDS Sequences, Naturals, SequencesExt

CONSTANTS
    Literals,   \* the tokens that are numbers
    Idents,     \* the tokens that are names
    Types       \* the type names a declaration may begin with

Const(t) == [k |-> "const", t |-> t]
Var(x) == [k |-> "var", x |-> x]
Unary(o, e) == [k |-> "unary", o |-> o, e |-> e]
Postfix(o, e) == [k |-> "postfix", o |-> o, e |-> e]
Binop(o, l, r) == [k |-> "binop", o |-> o, l |-> l, r |-> r]
Assign(l, r) == [k |-> "assign", l |-> l, r |-> r]
Ternary(c, a, b) == [k |-> "ternary", c |-> c, a |-> a, b |-> b]
Call(f, args) == [k |-> "call", f |-> f, args |-> args]
Null == [k |-> "null"]

Peek(ts) == IF ts = <<>> THEN "eof" ELSE Head(ts)
Parsed(n, r, ok) == [n |-> n, r |-> r, ok |-> ok]
Expect(p, t) == IF Peek(p.r) = t THEN [p EXCEPT !.r = Tail(@)] ELSE [p EXCEPT !.ok = FALSE]

----------------------------------------------------------------------------
(* Expressions                                                             *)

\* The binary operators from the loosest to the tightest: parse_or ..
\* parse_mul, each of which calls the next for its operands.
Levels == <<{"||"}, {"&&"}, {"|"}, {"^"}, {"&"}, {"==", "!="}, {"<", ">", "<=", ">="},
            {"<<", ">>"}, {"+", "-"}, {"*", "/", "%"}>>
UnaryOps == {"++", "--", "&", "*", "+", "-", "~", "!"}
CompoundOps ==
    [o \in {"+=", "-=", "*=", "/=", "%=", "<<=", ">>=", "&=", "|=", "^="} |->
        CASE o = "+=" -> "+" [] o = "-=" -> "-" [] o = "*=" -> "*" [] o = "/=" -> "/" [] o = "%=" -> "%"
          [] o = "<<=" -> "<<" [] o = ">>=" -> ">>" [] o = "&=" -> "&" [] o = "|=" -> "|" [] OTHER -> "^"]

\* Parse(level, ts) stands for the functions of the grammar: 1 is parse_comma,
\* 2 parse_assign, 3 parse_ternary, 4 to 13 are parse_or .. parse_mul and 14
\* is parse_unary.
RECURSIVE Parse(_, _)
ParseComma(ts) == Parse(1, ts)
ParseAssign(ts) == Parse(2, ts)
OperatorsAt(level) == Levels[level - 3]

ParsePrimary(ts) ==
    IF Peek(ts) \in Literals THEN Parsed(Const(Head(ts)), Tail(ts), TRUE)
    ELSE IF Peek(ts) \in Idents THEN Parsed(Var(Head(ts)), Tail(ts), TRUE)
    ELSE IF Peek(ts) = "(" THEN Expect(ParseComma(Tail(ts)), ")")
    ELSE Parsed(Null, ts, FALSE)

\* The arguments of a call, each of them an assignment expression.
RECURSIVE ParseArgs(_, _)
ParseArgs(ts, args) ==
    IF Peek(ts) \in {")", "eof"} THEN Parsed(args, ts, TRUE)
    ELSE LET a == ParseAssign(ts)
         IN  IF ~a.ok \/ Peek(a.r) # "," THEN Parsed(Append(args, a.n), a.r, a.ok)
             ELSE ParseArgs(Tail(a.r), Append(args, a.n))

RECURSIVE ParsePostfixLoop(_)
ParsePostfixLoop(p) ==
    CASE Peek(p.r) = "(" /\ p.n.k = "var" ->
           LET args == Expect(ParseArgs(Tail(p.r), <<>>), ")")
           IN  ParsePostfixLoop(Parsed(Call(p.n.x, args.n), args.r, p.ok /\ args.ok))
      [] Peek(p.r) \in {"++", "--"} -> ParsePostfixLoop(Parsed(Postfix(Head(p.r), p.n), Tail(p.r), p.ok))
      [] OTHER -> p

ParseUnary(ts) ==
    IF Peek(ts) \in UnaryOps
    THEN LET e == Parse(14, Tail(ts)) IN Parsed(Unary(Head(ts), e.n), e.r, e.ok)
    ELSE ParsePostfixLoop(ParsePrimary(ts))

\* The left operand p has been read; so are the operators of a level that
\* follow it, each with its right operand.
RECURSIVE ParseLeftLoop(_, _)
\* Mutant: the operand on the right takes the operators of its own level.
ParseLeftLoop_Slip(level, p) ==
    IF Peek(p.r) \notin OperatorsAt(level) THEN p
    ELSE LET right == Parse(level, Tail(p.r))
         IN  Parsed(Binop(Head(p.r), p.n, right.n), right.r, p.ok /\ right.ok)
ParseLeftLoop(level, p) ==
    IF Peek(p.r) \notin OperatorsAt(level) THEN p
    ELSE LET right == Parse(level + 1, Tail(p.r))
         IN  ParseLeftLoop(level, Parsed(Binop(Head(p.r), p.n, right.n), right.r, p.ok /\ right.ok))

ParseTernary(ts) ==
    LET cond == Parse(4, ts)
        then == Expect(ParseAssign(Tail(cond.r)), ":")
        else == Parse(3, then.r)
    IN  IF Peek(cond.r) # "?" THEN cond
        ELSE Parsed(Ternary(cond.n, then.n, else.n), else.r, cond.ok /\ then.ok /\ else.ok)

\* a op= b becomes a = a op b, with a copy of a.
ParseAssignment(ts) ==
    LET left == Parse(3, ts)
        op == Peek(left.r)
        right == ParseAssign(Tail(left.r))
        value == IF op = "=" THEN right.n ELSE Binop(CompoundOps[op], left.n, right.n)
    IN  IF op = "=" \/ op \in DOMAIN CompoundOps
        THEN Parsed(Assign(left.n, value), right.r, left.ok /\ right.ok)
        ELSE left

RECURSIVE ParseCommaLoop(_)
ParseCommaLoop(p) ==
    IF Peek(p.r) # "," THEN p
    ELSE LET right == ParseAssign(Tail(p.r))
         IN  ParseCommaLoop(Parsed(Binop(",", p.n, right.n), right.r, p.ok /\ right.ok))

Parse(level, ts) ==
    CASE level = 1 -> ParseCommaLoop(ParseAssign(ts))
      [] level = 2 -> ParseAssignment(ts)
      [] level = 3 -> ParseTernary(ts)
      [] level \in 4 .. 13 -> ParseLeftLoop(level, Parse(level + 1, ts))
      [] level = 14 -> ParseUnary(ts)

----------------------------------------------------------------------------
(* Statements.  What is optional in a statement is a sequence of at most   *)
(* one node.  inLoop and inSwitch are loop_depth > 0 and switch_depth > 0. *)

Return(es) == [k |-> "return", es |-> es]
If(c, t, els) == [k |-> "if", c |-> c, t |-> t, els |-> els]
While(c, b) == [k |-> "while", c |-> c, b |-> b]
DoWhile(b, c) == [k |-> "do", b |-> b, c |-> c]
For(init, conds, steps, b) == [k |-> "for", init |-> init, conds |-> conds, steps |-> steps, b |-> b]
Switch(c, ss) == [k |-> "switch", c |-> c, ss |-> ss]
Case(lo, hi) == [k |-> "case", lo |-> lo, hi |-> hi]
Block(ss) == [k |-> "block", ss |-> ss]
ExprStmt(e) == [k |-> "expr", e |-> e]
Decl(t, x, es) == [k |-> "decl", t |-> t, x |-> x, es |-> es]
Label(x) == [k |-> "label", x |-> x]
Goto(x) == [k |-> "goto", x |-> x]
Plain(k) == [k |-> k]    \* default, break, continue, empty

Optional(ts, until, p) == IF Peek(ts) = until THEN Parsed(<<>>, ts, TRUE) ELSE [p EXCEPT !.n = <<@>>]
\* A keyword, an expression in parentheses.
Condition(ts) ==
    IF Peek(Tail(ts)) # "(" THEN Parsed(Null, Tail(ts), FALSE) ELSE Expect(ParseAssign(Tail(Tail(ts))), ")")

RECURSIVE ParseDeclarators(_, _)
Initializer(ts) == IF Peek(ts) = "=" THEN [ParseAssign(Tail(ts)) EXCEPT !.n = <<@>>] ELSE Parsed(<<>>, ts, TRUE)
AddDeclarator(t, p, d) ==
    Parsed(Append(p.n, Decl(t, Peek(p.r), d.n)), d.r, p.ok /\ d.ok /\ Peek(p.r) \in Idents)
MoreDeclarators(t, p) ==
    IF p.ok /\ Peek(p.r) = "," THEN ParseDeclarators(t, [p EXCEPT !.r = Tail(@)]) ELSE Expect(p, ";")
\* The declarators after a type name up to the semicolon.
ParseDeclarators(t, p) == MoreDeclarators(t, AddDeclarator(t, p, Initializer(Tail(p.r))))

RECURSIVE ParseStatement(_, _, _), ParseItems(_, _, _)

ParseIf(ts, inLoop, inSwitch) ==
    LET c == Condition(ts)
        t == ParseStatement(c.r, inLoop, inSwitch)
        e == ParseStatement(Tail(t.r), inLoop, inSwitch)
    IN  IF ~c.ok \/ Peek(t.r) # "else" THEN Parsed(If(c.n, t.n, <<>>), t.r, c.ok /\ t.ok)
        ELSE Parsed(If(c.n, t.n, <<e.n>>), e.r, t.ok /\ e.ok)

ParseWhile(ts, inSwitch) ==
    LET c == Condition(ts)
        b == ParseStatement(c.r, TRUE, inSwitch)
    IN  Parsed(While(c.n, b.n), b.r, c.ok /\ b.ok)

ParseDo(ts, inSwitch) ==
    LET b == Expect(ParseStatement(Tail(ts), TRUE, inSwitch), "while")
        c == Expect(Condition(<<"while">> \o b.r), ";")
    IN  Parsed(DoWhile(b.n, c.n), c.r, b.ok /\ c.ok)

\* The initialisation is a declaration of one variable or an expression.
ForDeclaration(t, x, ts) ==
    IF Peek(ts) = "=" THEN [ParseComma(Tail(ts)) EXCEPT !.n = Decl(t, x, <<@>>)] ELSE Parsed(Decl(t, x, <<>>), ts, TRUE)
ForInit(p) ==
    [Expect(IF Peek(p.r) \in Types THEN Optional(p.r, ";", ForDeclaration(Head(p.r), p.r[2], Tail(Tail(p.r))))
            ELSE Optional(p.r, ";", [ParseComma(p.r) EXCEPT !.n = ExprStmt(@)]), ";") EXCEPT !.ok = @ /\ p.ok]
ForOf(init, cond, step, b) == Parsed(For(init.n, cond.n, step.n, b.n), b.r, init.ok /\ cond.ok /\ step.ok /\ b.ok)
ParseFor(ts, inSwitch) ==
    LET init == ForInit(Expect(Parsed(Null, Tail(ts), TRUE), "("))
        cond == Expect(Optional(init.r, ";", ParseAssign(init.r)), ";")
        step == Expect(Optional(cond.r, ")", ParseComma(cond.r)), ")")
    IN  ForOf(init, cond, step, ParseStatement(step.r, TRUE, inSwitch))

\* A body that is not a block is not part of the switch.
SwitchOf(c, b) == Parsed(Switch(c.n, b.n), b.r, c.ok /\ b.ok)
ParseSwitch(ts, inLoop) ==
    LET c == Condition(ts)
    IN  SwitchOf(c, IF Peek(c.r) = "{" THEN Expect(ParseItems(Tail(c.r), inLoop, TRUE), "}") ELSE Parsed(<<>>, c.r, TRUE))

\* Only a literal has a value here; any other expression counts as 0.
CaseValue(n) == IF n.k = "const" THEN n.t ELSE "0"
ParseCase(ts, inSwitch) ==
    LET lo == ParseAssign(Tail(ts))
        hi == IF Peek(lo.r) = "..." THEN ParseAssign(Tail(lo.r)) ELSE lo
        end == Expect(hi, ":")
    IN  Parsed(Case(CaseValue(lo.n), CaseValue(hi.n)), end.r, inSwitch /\ lo.ok /\ end.ok)

ParseStatement(ts, inLoop, inSwitch) ==
    LET t == Peek(ts)
        simple == Expect(Parsed(Plain(t), Tail(ts), TRUE), IF t = "default" THEN ":" ELSE ";")
    IN  CASE t = "return" -> LET e == Expect(Optional(Tail(ts), ";", ParseComma(Tail(ts))), ";") IN [e EXCEPT !.n = Return(@)]
          [] t = "if" -> ParseIf(ts, inLoop, inSwitch)
          [] t = "while" -> ParseWhile(ts, inSwitch)
          [] t = "for" -> ParseFor(ts, inSwitch)
          [] t = "do" -> ParseDo(ts, inSwitch)
          [] t = "switch" -> ParseSwitch(ts, inLoop)
          [] t = "case" -> ParseCase(ts, inSwitch)
          [] t = "default" -> [simple EXCEPT !.ok = @ /\ inSwitch]
          [] t = "break" -> [simple EXCEPT !.ok = @ /\ (inLoop \/ inSwitch)]
          [] t = "continue" -> [simple EXCEPT !.ok = @ /\ inLoop]
          [] t = "goto" -> Expect(Parsed(Goto(Peek(Tail(ts))), Tail(Tail(ts)), Peek(Tail(ts)) \in Idents), ";")
          [] t = "{" -> LET b == Expect(ParseItems(Tail(ts), inLoop, inSwitch), "}") IN [b EXCEPT !.n = Block(@)]
          [] t = ";" -> Parsed(Plain("empty"), Tail(ts), TRUE)
          [] OTHER -> LET e == Expect(ParseComma(ts), ";") IN [e EXCEPT !.n = ExprStmt(@)]

\* parse_compound_statement after its brace: labels, declarations and
\* statements up to the closing brace.
ParseItem(ts, inLoop, inSwitch) ==
    IF Peek(ts) \in Idents /\ Peek(Tail(ts)) = ":" THEN Parsed(<<Label(Head(ts))>>, Tail(Tail(ts)), TRUE)
    ELSE IF Peek(ts) \in Types THEN ParseDeclarators(Head(ts), Parsed(<<>>, Tail(ts), TRUE))
    ELSE [ParseStatement(ts, inLoop, inSwitch) EXCEPT !.n = <<@>>]
ItemsAfter(one, inLoop, inSwitch) ==
    LET rest == ParseItems(one.r, inLoop, inSwitch)
    IN  IF ~one.ok THEN one ELSE Parsed(one.n \o rest.n, rest.r, rest.ok)
ParseItems(ts, inLoop, inSwitch) ==
    IF Peek(ts) \in {"}", "eof"} THEN Parsed(<<>>, ts, TRUE)
    ELSE ItemsAfter(ParseItem(ts, inLoop, inSwitch), inLoop, inSwitch)

\* The body of a function, from its opening brace.
ParseBody(ts) == Expect(ParseItems(Tail(ts), FALSE, FALSE), "}")
=============================================================================
