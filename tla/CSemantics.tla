----------------------------- MODULE CSemantics -----------------------------
(***************************************************************************)
(* What a C program of the kind CodeGen translates means: an evaluation of *)
(* its trees by the rules of the language, with variables that hold        *)
(* numbers.  It knows nothing of labels, slots and registers.              *)
(***************************************************************************)
EXTENDS CodeGen

CONSTANT MaxCalls    \* bound: loop iterations and calls of one execution

\* An execution so far: whether it is defined, the variables in scope with
\* the innermost last, and what is left of the bound.
Undef(s) == [s EXCEPT !.ok = FALSE]
Need(s, b) == IF b THEN s ELSE Undef(s)
Spend(s) == Need([s EXCEPT !.left = @ - 1], s.left > 0)

Minimum(t) == IF t = "unsigned" THEN 0 ELSE -(Bits(Size(t)) \div 2)
Maximum(t) == IF t = "unsigned" THEN IntRange - 1 ELSE (Bits(Size(t)) \div 2) - 1
Convert(v, t) == Read(v, Size(t), t = "unsigned")
Common(t, u) == IF "long" \in {t, u} THEN "long" ELSE IF "unsigned" \in {t, u} THEN "unsigned" ELSE "int"

\* A value of a type; what an unsigned type cannot hold wraps, for the
\* others it is undefined.
Result(s, v, t) == [s |-> Need(s, t = "unsigned" \/ v \in Minimum(t) .. Maximum(t)), v |-> Convert(v, t), t |-> t]

Arithmetic(s, op, l, r) ==
    LET t == IF op \in {"<<", ">>"} THEN l.t ELSE Common(l.t, r.t)
        a == Convert(l.v, t)
        b == IF op \in {"<<", ">>"} THEN r.v ELSE Convert(r.v, t)
        width == IF Size(t) = 8 THEN LongBits ELSE IntBits
    IN  CASE op \in Comparisons -> Result(s, Compute(op, a, b), "int")
          [] op \in {"&", "|", "^"} -> Result(s, Convert(Bitwise(op, Low(a, 8), Low(b, 8)), t), t)
          [] op \in {"/", "%"} /\ b = 0 -> Result(Undef(s), 0, t)
          [] op \in {"<<", ">>"} /\ (b \notin 0 .. width - 1 \/ (op = "<<" /\ a < 0)) -> Result(Undef(s), 0, t)
          [] OTHER -> Result(s, Compute(op, a, b), t)

RECURSIVE Eval(_, _, _), EvalAll(_, _, _), Exec(_, _, _), ExecFrom(_, _, _, _), Loop(_, _, _)

Find(s, x) == SelectLastInSeq(s.env, LAMBDA v : v.x = x)
SetVar(s, x, v) ==
    LET i == Find(s, x) IN
    IF i = 0 THEN Undef(s) ELSE [s EXCEPT !.env[i].v = Convert(v, s.env[i].t), !.env[i].set = TRUE]
TypeOf(s, x) == IF Find(s, x) = 0 THEN "int" ELSE s.env[Find(s, x)].t

EvalAll(funs, s, es) ==
    FoldLeft(LAMBDA a, e : LET v == Eval(funs, a.s, e) IN [s |-> v.s, vs |-> Append(a.vs, v.v)], [s |-> s, vs |-> <<>>], es)

EvalCall(funs, s, e) ==
    LET f == funs[e.f]
        args == EvalAll(funs, s, e.args)
        env == [i \in DOMAIN f.params |-> [x |-> f.params[i].x, t |-> f.params[i].t, v |-> Convert(args.vs[i], f.params[i].t), set |-> TRUE]]
        done == ExecFrom(funs, [Spend(args.s) EXCEPT !.env = env], f.body, 1)
    IN  IF ~args.s.ok THEN Result(args.s, 0, f.ret)
        ELSE Result([s EXCEPT !.ok = done.s.ok /\ done.how = "return", !.env = args.s.env, !.left = done.s.left], Convert(done.v, f.ret), f.ret)

\* ++ and -- are assignments of a sum.
EvalStep(funs, s, e) ==
    LET old == Eval(funs, s, e.e)
        new == Arithmetic(old.s, IF e.o = "++" THEN "+" ELSE "-", old, [v |-> 1, t |-> "int"])
        stored == SetVar(new.s, e.e.x, new.v)
    IN  Result(stored, IF e.k = "postfix" THEN old.v ELSE new.v, old.t)

Eval(funs, s, e) ==
    IF ~s.ok THEN Result(s, 0, "int") ELSE
    CASE e.k = "const" -> Result(s, LiteralValue[e.t], "int")
      [] e.k = "var" -> LET i == Find(s, e.x) IN
                          IF i = 0 THEN Result(Undef(s), 0, "int") ELSE Result(Need(s, s.env[i].set), s.env[i].v, s.env[i].t)
      [] e.k = "assign" -> LET v == Eval(funs, s, e.r)
                               t == TypeOf(s, e.l.x)
                           IN  Result(SetVar(v.s, e.l.x, v.v), Convert(v.v, t), t)
      [] e.k = "postfix" \/ (e.k = "unary" /\ e.o \in {"++", "--"}) -> EvalStep(funs, s, e)
      [] e.k = "unary" -> LET v == Eval(funs, s, e.e) IN
                            CASE e.o = "-" -> Result(v.s, -v.v, v.t)
                              [] e.o = "~" -> Result(v.s, Convert(-v.v - 1, v.t), v.t)
                              [] e.o = "!" -> Result(v.s, Truth(v.v = 0), "int")
                              [] OTHER -> v
      [] e.k = "binop" /\ e.o = "," -> Eval(funs, Eval(funs, s, e.l).s, e.r)
      [] e.k = "binop" /\ e.o \in {"&&", "||"} ->
           LET l == Eval(funs, s, e.l)
               r == Eval(funs, l.s, e.r)
           IN  IF (l.v # 0) = (e.o = "||") THEN Result(l.s, Truth(l.v # 0), "int") ELSE Result(r.s, Truth(r.v # 0), "int")
      [] e.k = "binop" -> LET l == Eval(funs, s, e.l)
                              r == Eval(funs, l.s, e.r)
                          IN  Arithmetic(r.s, e.o, l, r)
      [] e.k = "ternary" -> LET c == Eval(funs, s, e.c) IN Eval(funs, c.s, IF c.v # 0 THEN e.a ELSE e.b)
      [] e.k = "call" -> EvalCall(funs, s, e)

\* How a statement ends: "next", "break", "continue", "return" with a value
\* or "goto" with a label.
Ends(s, how) == [s |-> s, how |-> how, v |-> 0, x |-> ""]
Drop(s, outer) == [s EXCEPT !.env = SubSeq(@, 1, Len(outer.env))]
Declare(s, x, t) == [s EXCEPT !.env = Append(@, [x |-> x, t |-> t, v |-> 0, set |-> FALSE])]

\* The statements of a block from one of them on; a goto that leads to a
\* label of the same block goes on there.
ExecFrom(funs, s, ss, i) ==
    IF i > Len(ss) \/ ~s.ok THEN Ends(s, "next")
    ELSE LET one == Exec(funs, s, ss[i])
             target == SelectInSeq(ss, LAMBDA u : u.k = "label" /\ u.x = one.x)
         IN  IF one.how = "next" THEN ExecFrom(funs, one.s, ss, i + 1)
             ELSE IF one.how = "goto" /\ target # 0 THEN ExecFrom(funs, Spend(one.s), ss, target)
             ELSE one

\* A loop whose condition, body and steps are given; first says that the
\* condition is not evaluated before the first iteration.
Loop(funs, s, l) ==
    LET c == IF l.first \/ l.conds = <<>> THEN [s |-> s, v |-> 1] ELSE Eval(funs, s, l.conds[1])
        b == Exec(funs, Spend(c.s), l.b)
        next == EvalAll(funs, b.s, l.steps).s
    IN  IF ~c.s.ok \/ c.v = 0 THEN Ends(c.s, "next")
        ELSE IF ~b.s.ok \/ b.how \in {"return", "goto"} THEN b
        ELSE IF b.how = "break" THEN Ends(b.s, "next")
        ELSE Loop(funs, next, [l EXCEPT !.first = FALSE])

ExecSwitch(funs, s, st) ==
    LET c == Eval(funs, s, st.c)
        at(i) == st.ss[i].k = "case" /\ c.v \in LiteralValue[st.ss[i].lo] .. LiteralValue[st.ss[i].hi]
        from == IF \E i \in DOMAIN st.ss : at(i) THEN CHOOSE i \in DOMAIN st.ss : at(i) /\ \A j \in 1 .. i - 1 : ~at(j)
                ELSE SelectInSeq(st.ss, LAMBDA u : u.k = "default")
        done == ExecFrom(funs, c.s, st.ss, from)
    IN  IF from = 0 THEN Ends(c.s, "next")
        ELSE [done EXCEPT !.s = Drop(@, s), !.how = IF @ = "break" THEN "next" ELSE @]

Exec(funs, s, st) ==
    CASE st.k = "return" -> LET v == Eval(funs, s, st.es[1]) IN [Ends(v.s, "return") EXCEPT !.v = v.v]
      [] st.k = "if" -> LET c == Eval(funs, s, st.c) IN
                          IF c.v # 0 THEN Exec(funs, c.s, st.t) ELSE ExecFrom(funs, c.s, st.els, 1)
      [] st.k = "while" -> Loop(funs, s, [conds |-> <<st.c>>, b |-> st.b, steps |-> <<>>, first |-> FALSE])
      [] st.k = "do" -> Loop(funs, s, [conds |-> <<st.c>>, b |-> st.b, steps |-> <<>>, first |-> TRUE])
      [] st.k = "for" -> LET done == Loop(funs, ExecFrom(funs, s, st.init, 1).s, [conds |-> st.conds, b |-> st.b, steps |-> st.steps, first |-> FALSE])
                         IN  [done EXCEPT !.s = Drop(@, s)]
      [] st.k = "switch" -> ExecSwitch(funs, s, st)
      [] st.k = "block" -> LET done == ExecFrom(funs, s, st.ss, 1) IN [done EXCEPT !.s = Drop(@, s)]
      [] st.k = "expr" -> Ends(Eval(funs, s, st.e).s, "next")
      [] st.k = "decl" -> LET d == Declare(s, st.x, st.t) IN
                            Ends(IF st.es = <<>> THEN d ELSE LET v == Eval(funs, d, st.es[1]) IN SetVar(v.s, st.x, v.v), "next")
      [] st.k \in {"break", "continue"} -> Ends(s, st.k)
      [] st.k = "goto" -> [Ends(s, "goto") EXCEPT !.x = st.x]
      [] OTHER -> Ends(s, "next")

\* What main returns; ok says that the program has a meaning within the
\* bound.
Meaning(funs) ==
    LET v == EvalCall(funs, [ok |-> TRUE, env |-> <<>>, left |-> MaxCalls], Call("main", <<>>))
    IN  [ok |-> v.s.ok, v |-> v.v]
=============================================================================
