------------------------------- MODULE CodeGen -------------------------------
(***************************************************************************)
(* The code generator of toyc (src/app/compiler/cgen.c, cgen_expr.c) for   *)
(* functions whose variables are int, unsigned or long, and the processor  *)
(* its code runs on.  One instruction is one unit of code instead of       *)
(* several bytes; a jump holds the distance to its target, filled in later *)
(* when the target is ahead.  A test and the jump on it are one unit.      *)
(*                                                                         *)
(* An int has IntBits bits and a long LongBits; a register holds a value   *)
(* of LongBits bits as a natural number, and an instruction on an int      *)
(* clears the upper part of its result.                                    *)
(***************************************************************************)
EXTENDS CParser, Integers

CONSTANTS
    IntBits, LongBits,
    LiteralValue,   \* what the literals stand for
    NumRegs,        \* 6: the registers that carry arguments
    MaxSteps        \* bound: instructions of one execution

ASSUME CodeGenAssumption ==
    /\ IntBits \in Nat \ {0} /\ LongBits \in Nat /\ LongBits > IntBits
    /\ NumRegs \in Nat \ {0} /\ MaxSteps \in Nat
    /\ LiteralValue \in [Literals -> 0 .. 2 ^ (IntBits - 1) - 1]

Size(t) == IF t = "long" THEN 8 ELSE 4

----------------------------------------------------------------------------
(* The state of the generator: the code; label ids with their offsets and  *)
(* the jumps that wait for them; the locals of the function and the scopes *)
(* that are open; where break and continue lead (-1: nowhere).             *)

Function(ret, params, body) == [ret |-> ret, params |-> params, body |-> body]
FreshLabels(g) == [g EXCEPT !.labels = <<>>, !.fixups = <<>>, !.gotos = <<>>]
FreshScopes(g) == [g EXCEPT !.depth = 0, !.chain = <<>>, !.lastScope = 0]
InitialState(funs) ==
    [code |-> <<>>, labels |-> <<>>, fixups |-> <<>>, gotos |-> <<>>, nextLabel |-> 0,
     locals |-> <<>>, depth |-> 0, chain |-> <<>>, lastScope |-> 0, break |-> -1, continue |-> -1,
     ret |-> "int", entry |-> <<>>, funs |-> funs]

Emit(g, instr) == [g EXCEPT !.code = Append(@, instr)]
EmitAll(g, instrs) == [g EXCEPT !.code = @ \o instrs]
Here(g) == Len(g.code)

\* A jump that was emitted at the given place leads to the offset.
Distance(at, offset) == offset - (at + 1)
Patch(g, at, offset) == [g EXCEPT !.code[at + 1][2] = Distance(at, offset)]

SetLabel(g, id) == [g EXCEPT !.labels = Append(@, <<id, Here(g)>>)]
LabelOffset(g, id) == SelectInSeq(g.labels, LAMBDA l : l[1] = id)
\* Jump to a label: known when it lies behind, noted for later otherwise.
EmitJump(g, instr, id) ==
    LET at == LabelOffset(g, id)
    IN  IF at # 0 THEN Emit(g, [instr EXCEPT ![2] = Distance(Here(g), g.labels[at][2])])
        ELSE [Emit(g, instr) EXCEPT !.fixups = Append(@, <<Here(g), id>>)]
Jmp == <<"jmp", 0>>
JumpIfZero(size) == <<"jz", 0, size>>
JumpIfNot(size) == <<"jnz", 0, size>>

\* Mutant: a waiting jump is filled in with the distance from its own place.
ApplyFixups_Slip(g) ==
    FoldLeft(LAMBDA h, f : LET at == LabelOffset(h, f[2]) IN
                 IF at = 0 THEN h ELSE [h EXCEPT !.code[f[1] + 1][2] = h.labels[at][2] - f[1]],
             g, g.fixups)
ApplyFixups(g) ==
    FoldLeft(LAMBDA h, f : LET at == LabelOffset(h, f[2]) IN IF at = 0 THEN h ELSE Patch(h, f[1], h.labels[at][2]),
             g, g.fixups)

\* The label of a goto or a label statement, made when its name first occurs.
GotoLabel(g, x) ==
    LET i == SelectInSeq(g.gotos, LAMBDA p : p[1] = x)
    IN  IF i # 0 THEN <<g, g.gotos[i][2]>>
        ELSE <<[g EXCEPT !.gotos = Append(@, <<x, g.nextLabel>>), !.nextLabel = @ + 1], g.nextLabel>>

----------------------------------------------------------------------------
(* Locals                                                                  *)

OpenScope(g) ==
    [g EXCEPT !.depth = @ + 1, !.chain = Append(@, g.lastScope + 1), !.lastScope = @ + 1]
CloseScope(g) == [g EXCEPT !.depth = @ - 1, !.chain = Front(@)]

\* Every declaration of the function gets a slot, in the order of the text.
RECURSIVE CollectLocals(_, _)
CollectLocals(g, s) ==
    LET all(h, ss) == FoldLeft(LAMBDA a, b : CollectLocals(a, b), h, ss) IN
    CASE s.k = "block" -> CloseScope(all(OpenScope(g), s.ss))
      [] s.k = "decl" ->
           [g EXCEPT !.locals = Append(@, [x |-> s.x, t |-> s.t, depth |-> g.depth,
                                           scope |-> IF g.chain = <<>> THEN 0 ELSE Last(g.chain)])]
      [] s.k = "if" -> all(g, <<s.t>> \o s.els)
      [] s.k \in {"while", "do"} -> CollectLocals(g, s.b)
      [] s.k = "for" -> CollectLocals(all(g, s.init), s.b)
      [] s.k = "switch" -> all(g, s.ss)
      [] OTHER -> g

\* Mutant: the first declaration of the name instead of the last.
SearchLocal_Slip(g, x) == SelectInSeq(g.locals, LAMBDA v : v.x = x /\ v.depth <= g.depth)
\* SEARCH_LOCAL: the last declaration of the name that is not deeper than
\* the use and not in a scope opened after the innermost one; failing that
\* the last that is not deeper.  0 when there is none.
SearchLocal(g, x) ==
    LET named(v) == v.x = x /\ v.depth <= g.depth
        near == SelectLastInSeq(g.locals, LAMBDA v : named(v) /\ (v.scope = 0 \/ (g.chain # <<>> /\ v.scope <= Last(g.chain))))
    IN  IF near # 0 THEN near ELSE SelectLastInSeq(g.locals, named)

----------------------------------------------------------------------------
(* Expressions.  The value is left in rax; size and uns are the type_size  *)
(* and is_unsigned the node has afterwards.                                *)

Value(g, size, uns) == [g |-> g, size |-> size, uns |-> uns]
\* Gen makes the code of a node; of a statement it gives the state alone.
RECURSIVE Gen(_, _)
GenExpr(g, e) == Gen(g, e)
GenStmt(g, s) == Gen(g, s).g
Comparisons == {"<", ">", "<=", ">=", "==", "!="}
SignExtend == <<"movsxd">>

GenBinop(g, e) ==
    LET l == GenExpr(g, e.l)
        r == GenExpr(Emit(l.g, <<"push">>), e.r)
        uns == l.uns \/ r.uns
        size == IF 8 \in {l.size, r.size} THEN 8 ELSE 4
        code == EmitAll(r.g, <<<<"pop rcx">>, <<"op", e.o, size, uns>>>>)
    IN  Value(code, IF e.o \in Comparisons THEN 4 ELSE size, uns)

GenShortCircuit(g, e) ==
    LET instr == IF e.o = "||" THEN JumpIfNot(4) ELSE JumpIfZero(4)
        l == GenExpr(g, e.l)
        r == GenExpr(Emit(l.g, instr), e.r)
        j1 == Here(l.g)
        j2 == Here(r.g)
        first == EmitAll(Emit(r.g, instr), <<<<"imm", IF e.o = "||" THEN 0 ELSE 1>>, Jmp>>)
        other == Emit(Patch(Patch(first, j1, Here(first)), j2, Here(first)), <<"imm", IF e.o = "||" THEN 1 ELSE 0>>)
    IN  Value(Patch(other, j2 + 2, Here(other)), 4, FALSE)

GenTernary(g, e) ==
    LET c == GenExpr(g, e.c)
        a == GenExpr(Emit(c.g, JumpIfZero(4)), e.a)
        jumped == EmitAll(a.g, <<<<"push">>, Jmp>>)
        b == GenExpr(Patch(jumped, Here(c.g), Here(jumped)), e.b)
        end == Emit(b.g, <<"push">>)
    IN  Value(Emit(Patch(end, Here(jumped) - 1, Here(end)), <<"pop">>),
              IF 8 \in {a.size, b.size} THEN 8 ELSE 4, FALSE)

\* ++ and --, before or after, on a local: four bytes of it, since a name
\* has the size of an int until it is evaluated.
GenStep(g, e) ==
    LET i == SearchLocal(g, e.e.x)
        step == <<<<"load rcx", 4>>, <<"step", e.o, 4>>, <<"store rcx", 4>>>>
        old == e.k = "postfix"
    IN  Value(EmitAll(g, <<<<"lea", i>>, <<"push">>, <<"pop rcx">>>>
                         \o (IF old THEN <<<<"load rcx", 4>>, <<"push">>>> ELSE <<>>)
                         \o step \o (IF old THEN <<<<"pop">>>> ELSE <<>>)), 4, FALSE)

\* - is always on the whole register; the size of the node stays that of
\* int, whatever the operand.
GenUnary(g, e) ==
    LET v == GenExpr(g, e.e)
    IN  Value(CASE e.o = "-" -> Emit(v.g, <<"neg", 8>>)
                [] e.o = "~" -> Emit(v.g, <<"not", v.size>>)
                [] e.o = "!" -> Emit(v.g, <<"setz", v.size>>)
                [] OTHER -> v.g, 4, FALSE)

\* Into a local: an int that goes into a long is sign-extended.
StoreLocal(v, i) ==
    LET size == Size(v.g.locals[i].t)
    IN  EmitAll(v.g, (IF size = 8 /\ v.size < 8 /\ ~v.uns THEN <<SignExtend>> ELSE <<>>) \o <<<<"store", i, size>>>>)
GenAssign(g, e) == LET v == GenExpr(g, e.r) IN Value(StoreLocal(v, SearchLocal(v.g, e.l.x)), 4, FALSE)

\* Evaluates the arguments in the order given and leaves them on the stack.
GenArgs(g, args) == FoldLeft(LAMBDA h, a : Emit(GenExpr(h, a).g, <<"push">>), g, args)
\* The arguments beyond the registers are pushed first, the last of them
\* first of all, so that the callee finds them in order; the others are
\* popped into the registers.  The result is known to be a whole register:
\* what an int function returns is sign-extended.
GenCall(g, e) ==
    LET n == Len(e.args)
        inRegs == IF n < NumRegs THEN n ELSE NumRegs
        pushed == GenArgs(GenArgs(g, Reverse(SubSeq(e.args, NumRegs + 1, n))), SubSeq(e.args, 1, inRegs))
        pops == [k \in 1 .. 2 * inRegs |-> IF k % 2 = 1 THEN <<"pop">> ELSE <<"set reg", inRegs + 1 - (k \div 2)>>]
        extend == IF g.funs[e.f].ret = "int" THEN <<SignExtend>> ELSE <<>>
        drop == IF n > inRegs THEN <<<<"drop", n - inRegs>>>> ELSE <<>>
    IN  Value(EmitAll(pushed, pops \o <<<<"call", e.f>>>> \o drop \o extend), 8, FALSE)

Expressions == {"const", "var", "binop", "ternary", "postfix", "unary", "assign", "call"}
ExprCode(g, e) ==
    CASE e.k = "const" -> Value(Emit(g, <<"imm", LiteralValue[e.t]>>), 4, FALSE)
      [] e.k = "var" -> LET i == SearchLocal(g, e.x)
                            t == g.locals[i].t
                        IN  Value(Emit(g, <<"load", i, Size(t)>>), Size(t), t = "unsigned")
      [] e.k = "binop" /\ e.o = "," -> LET r == GenExpr(GenExpr(g, e.l).g, e.r) IN [r EXCEPT !.size = 4, !.uns = FALSE]
      [] e.k = "binop" /\ e.o \in {"&&", "||"} -> GenShortCircuit(g, e)
      [] e.k = "binop" -> GenBinop(g, e)
      [] e.k = "ternary" -> GenTernary(g, e)
      [] e.k = "postfix" \/ (e.k = "unary" /\ e.o \in {"++", "--"}) -> GenStep(g, e)
      [] e.k = "unary" -> GenUnary(g, e)
      [] e.k = "assign" -> GenAssign(g, e)
      [] e.k = "call" -> GenCall(g, e)

----------------------------------------------------------------------------
(* Statements                                                              *)

NewLabels(g, n) == [g EXCEPT !.nextLabel = @ + n]
Leave(g) == Emit(g, <<"leave">>)

GenStmts(g, ss) == FoldLeft(LAMBDA h, s : GenStmt(h, s), g, ss)

GenReturn(g, s) ==
    IF s.es = <<>> THEN Leave(g)
    ELSE LET v == GenExpr(g, s.es[1])
         IN  Leave(IF g.ret = "long" /\ v.size < 8 /\ ~v.uns THEN Emit(v.g, SignExtend) ELSE v.g)

GenIf(g, s) ==
    LET c == GenExpr(g, s.c)
        else == c.g.nextLabel
        then == GenStmt(EmitJump(NewLabels(c.g, 2), JumpIfZero(c.size), else), s.t)
    IN  IF s.els = <<>> THEN SetLabel(then, else)
        ELSE SetLabel(GenStmts(SetLabel(EmitJump(then, Jmp, else + 1), else), s.els), else + 1)

\* The body of a loop, with its own targets of break and continue.
GenLoopBody(g, brk, cont, s) ==
    [GenStmt([g EXCEPT !.break = brk, !.continue = cont], s) EXCEPT !.break = g.break, !.continue = g.continue]

GenWhile(g, s) ==
    LET start == g.nextLabel
        c == GenExpr(SetLabel(NewLabels(g, 2), start), s.c)
        body == GenLoopBody(EmitJump(c.g, JumpIfZero(c.size), start + 1), start + 1, start, s.b)
    IN  SetLabel(EmitJump(body, Jmp, start), start + 1)

\* continue leads to the start of the body.
GenDo(g, s) ==
    LET start == g.nextLabel
        body == GenLoopBody(SetLabel(NewLabels(g, 2), start), start + 1, start, s.b)
        c == GenExpr(body, s.c)
    IN  SetLabel(EmitJump(c.g, JumpIfNot(c.size), start), start + 1)

\* Mutant: continue skips the step of the loop.
GenFor_Slip(g, s) ==
    LET start == g.nextLabel
        init == FoldLeft(LAMBDA h, i : IF i.k = "decl" THEN GenStmt(h, i) ELSE GenExpr(h, i.e).g, NewLabels(g, 3), s.init)
        c == GenExpr(SetLabel(init, start), s.conds[1])
        test == IF s.conds = <<>> THEN SetLabel(init, start) ELSE EmitJump(c.g, JumpIfZero(c.size), start + 1)
        body == SetLabel(GenLoopBody(test, start + 1, start, s.b), start + 2)
        step == FoldLeft(LAMBDA h, e : GenExpr(h, e).g, body, s.steps)
    IN  SetLabel(EmitJump(step, Jmp, start), start + 1)
GenFor(g, s) ==
    LET start == g.nextLabel
        init == FoldLeft(LAMBDA h, i : IF i.k = "decl" THEN GenStmt(h, i) ELSE GenExpr(h, i.e).g, NewLabels(g, 3), s.init)
        c == GenExpr(SetLabel(init, start), s.conds[1])
        test == IF s.conds = <<>> THEN SetLabel(init, start) ELSE EmitJump(c.g, JumpIfZero(c.size), start + 1)
        body == SetLabel(GenLoopBody(test, start + 1, start + 2, s.b), start + 2)
        step == FoldLeft(LAMBDA h, e : GenExpr(h, e).g, body, s.steps)
    IN  SetLabel(EmitJump(step, Jmp, start), start + 1)

\* The value of the condition waits on the stack while the code jumps over
\* the branches to the table of comparisons behind them.  The labels of the
\* branches are those of the case and default statements in the body itself.
GenSwitch(g, s) ==
    LET branches == {i \in DOMAIN s.ss : s.ss[i].k \in {"case", "default"}}
        label(i) == g.nextLabel + Cardinality({j \in branches : j < i})
        cases == SelectSeq([i \in DOMAIN s.ss |-> i], LAMBDA i : s.ss[i].k = "case")
        defaults == SelectSeq([i \in DOMAIN s.ss |-> i], LAMBDA i : s.ss[i].k = "default")
        c == GenExpr(NewLabels(g, Cardinality(branches)), s.c)
        table == c.g.nextLabel
        end == table + 1
        open == [EmitJump(Emit(NewLabels(c.g, 2), <<"push">>), Jmp, table) EXCEPT !.break = end]
        body == FoldLeft(LAMBDA h, i : IF i \in branches THEN SetLabel(h, label(i)) ELSE GenStmt(h, s.ss[i]),
                         open, [i \in DOMAIN s.ss |-> i])
        compare(h, i) ==
            LET lo == LiteralValue[s.ss[i].lo]
                hi == LiteralValue[s.ss[i].hi]
                skip == h.nextLabel
                past == EmitJump(EmitJump(NewLabels(h, 1), <<"jl", 0, lo>>, skip), <<"jg", 0, hi>>, skip)
            IN  IF lo = hi THEN EmitJump(h, <<"je", 0, lo>>, label(i))
                ELSE SetLabel(EmitJump(past, Jmp, label(i)), skip)
        compared == FoldLeft(compare, Emit(SetLabel(body, table), <<"pop">>), cases)
        missed == IF defaults = <<>> THEN compared ELSE EmitJump(compared, Jmp, label(Last(defaults)))
    IN  [SetLabel(missed, end) EXCEPT !.break = g.break]

StmtCode(g, s) ==
    CASE s.k = "return" -> GenReturn(g, s)
      [] s.k = "if" -> GenIf(g, s)
      [] s.k = "while" -> GenWhile(g, s)
      [] s.k = "do" -> GenDo(g, s)
      [] s.k = "for" -> GenFor(g, s)
      [] s.k = "switch" -> GenSwitch(g, s)
      [] s.k = "block" -> CloseScope(GenStmts(OpenScope(g), s.ss))
      [] s.k = "expr" -> GenExpr(g, s.e).g
      [] s.k = "decl" /\ s.es # <<>> -> LET v == GenExpr(g, s.es[1]) IN StoreLocal(v, SearchLocal(v.g, s.x))
      [] s.k = "break" /\ g.break >= 0 -> EmitJump(g, Jmp, g.break)
      [] s.k = "continue" /\ g.continue >= 0 -> EmitJump(g, Jmp, g.continue)
      [] s.k = "goto" -> LET l == GotoLabel(g, s.x) IN EmitJump(l[1], Jmp, l[2])
      [] s.k = "label" -> LET l == GotoLabel(g, s.x) IN SetLabel(l[1], l[2])
      [] OTHER -> g
\* (nextLabel is a number: the test makes TLC compute g before it descends.)
Gen(g, n) ==
    IF g.nextLabel >= 0 /\ n.k \in Expressions THEN ExprCode(g, n) ELSE Value(StmtCode(g, n), 0, FALSE)

----------------------------------------------------------------------------
(* Functions                                                               *)

\* The parameters are declarations in front of the body.
WithParams(f) == Block([i \in DOMAIN f.params |-> Decl(f.params[i].t, f.params[i].x, <<>>)] \o f.body)

\* A parameter goes from its register, or from the stack above the return
\* address, into its slot.
SaveParams(g, params) ==
    FoldLeft(LAMBDA h, i : LET v == SelectInSeq(g.locals, LAMBDA w : w.x = params[i].x)
                               size == Size(params[i].t)
                           IN  IF i <= NumRegs THEN Emit(h, <<"store reg", v, size, i>>)
                               ELSE EmitAll(h, <<<<"load arg", i - NumRegs, size>>, <<"store", v, size>>>>),
             g, [i \in DOMAIN params |-> i])

\* A return is added unless the last thing emitted is one.
Ended(g) == IF Last(g.code) = <<"leave">> THEN g ELSE Leave(g)
EnterFunction(g, f, body) ==
    LET fresh == FreshScopes(CollectLocals(FreshScopes([FreshLabels(g) EXCEPT !.locals = <<>>, !.ret = f.ret]), body))
    IN  SaveParams(Emit(fresh, <<"enter", Len(fresh.locals)>>), f.params)
\* (Here too a test makes TLC compute g first.)
GenFunction(g, name) ==
    LET f == g.funs[name]
        body == WithParams(f)
        done == GenStmt(EnterFunction(g, f, body), body)
    IN  IF name \notin DOMAIN g.funs THEN g
        ELSE [ApplyFixups(Ended(done)) EXCEPT !.entry = Append(@, <<name, Here(g)>>)]

\* The code of all functions and where each begins.
ProgramOf(g) == [code |-> g.code, entry |-> [x \in {p[1] : p \in ToSet(g.entry)} |-> g.entry[SelectInSeq(g.entry, LAMBDA p : p[1] = x)][2]]]
Generate(funs, names) == ProgramOf(FoldLeft(GenFunction, InitialState(funs), names))

----------------------------------------------------------------------------
(* The processor.  The stack grows by one for a push; the frame of a       *)
(* function lies above the saved base: its i-th local at base + i, the     *)
(* return address at base - 1, the arguments on the stack at base - 2,     *)
(* base - 3 and on.                                                        *)

IntRange == 2 ^ IntBits
LongRange == 2 ^ LongBits
Bits(size) == IF size = 8 THEN LongRange ELSE IntRange
Low(v, size) == v % Bits(size)
Signed(v, size) == LET w == Low(v, size) IN IF w >= Bits(size) \div 2 THEN w - Bits(size) ELSE w
Read(v, size, uns) == IF uns THEN Low(v, size) ELSE Signed(v, size)

\* Division rounds to zero.
Quotient(a, b) ==
    LET abs(v) == IF v < 0 THEN -v ELSE v IN
    IF (a < 0) = (b < 0) THEN abs(a) \div abs(b) ELSE -(abs(a) \div abs(b))
Bit(v, i) == (v \div 2 ^ i) % 2
Bitwise(op, a, b) ==
    FoldLeft(LAMBDA s, i : LET x == Bit(a, i - 1)
                               y == Bit(b, i - 1)
                               on == CASE op = "&" -> x = 1 /\ y = 1 [] op = "|" -> x = 1 \/ y = 1 [] OTHER -> x # y
                           IN  IF on THEN s + 2 ^ (i - 1) ELSE s,
             0, [i \in 1 .. LongBits |-> i])
Truth(b) == IF b THEN 1 ELSE 0

\* The result of an operation on two numbers, before it is cut to size.
Compute(op, a, b) ==
    CASE op = "+" -> a + b
      [] op = "-" -> a - b
      [] op = "*" -> a * b
      [] op = "/" -> Quotient(a, b)
      [] op = "%" -> a - b * Quotient(a, b)
      [] op = "<<" -> a * 2 ^ b
      [] op = ">>" -> a \div 2 ^ b
      [] op = "<" -> Truth(a < b)
      [] op = ">" -> Truth(a > b)
      [] op = "<=" -> Truth(a <= b)
      [] op = ">=" -> Truth(a >= b)
      [] op = "==" -> Truth(a = b)
      [] op = "!=" -> Truth(a # b)

\* The registers rcx and rax hold the operands.  A shift count is taken
\* modulo the width.
Operate(op, size, uns, rcx, rax) ==
    LET count == rax % (IF size = 8 THEN LongBits ELSE IntBits) IN
    CASE op \in {"&", "|", "^"} -> Low(Bitwise(op, rcx, rax), size)
      [] op \in {"<<", ">>"} -> Low(Compute(op, Read(rcx, size, uns), count), size)
      [] OTHER -> Low(Compute(op, Read(rcx, size, uns), Read(rax, size, uns)), size)

Faults(m, i) == i[1] = "op" /\ i[2] \in {"/", "%"} /\ Low(m.rax, i[3]) = 0

\* One instruction.  Locals and arguments are addressed from the base.
Execute(prog, m) ==
    LET i == prog.code[m.pc + 1]
        n == [m EXCEPT !.pc = @ + 1]
        jump == [m EXCEPT !.pc = @ + 1 + i[2]]
        push(v) == [n EXCEPT !.st = Append(@, v)]
        top == Last(m.st)
        slot == m.base + i[2]
    IN  CASE i[1] = "imm" -> [n EXCEPT !.rax = i[2]]
          [] i[1] = "push" -> push(m.rax)
          [] i[1] = "pop" -> [n EXCEPT !.rax = top, !.st = Front(@)]
          [] i[1] = "pop rcx" -> [n EXCEPT !.rcx = top, !.st = Front(@)]
          [] i[1] = "drop" -> [n EXCEPT !.st = SubSeq(@, 1, Len(@) - i[2])]
          [] i[1] = "load" -> [n EXCEPT !.rax = Low(m.st[slot], i[3])]
          [] i[1] = "store" -> [n EXCEPT !.st[slot] = Low(m.rax, i[3])]
          [] i[1] = "lea" -> [n EXCEPT !.rax = slot]
          [] i[1] = "load rcx" -> [n EXCEPT !.rax = Low(m.st[m.rcx], i[2])]
          [] i[1] = "store rcx" -> [n EXCEPT !.st[m.rcx] = @ - Low(@, i[2]) + Low(m.rax, i[2])]
          [] i[1] = "step" -> [n EXCEPT !.rax = Low(IF i[2] = "++" THEN @ + 1 ELSE @ - 1, i[3])]
          [] i[1] = "op" -> [n EXCEPT !.rax = Operate(i[2], i[3], i[4], m.rcx, m.rax)]
          [] i[1] = "neg" -> [n EXCEPT !.rax = Low(-@, i[2])]
          [] i[1] = "not" -> [n EXCEPT !.rax = Low(-@ - 1, i[2])]
          [] i[1] = "setz" -> [n EXCEPT !.rax = Truth(Low(@, i[2]) = 0)]
          [] i[1] = "movsxd" -> [n EXCEPT !.rax = Signed(@, 4) % LongRange]
          [] i[1] = "jmp" -> jump
          [] i[1] = "jz" -> IF Low(m.rax, i[3]) = 0 THEN jump ELSE n
          [] i[1] = "jnz" -> IF Low(m.rax, i[3]) # 0 THEN jump ELSE n
          [] i[1] = "je" -> IF Signed(m.rax, 4) = i[3] THEN jump ELSE n
          [] i[1] = "jl" -> IF Signed(m.rax, 4) < i[3] THEN jump ELSE n
          [] i[1] = "jg" -> IF Signed(m.rax, 4) > i[3] THEN jump ELSE n
          [] i[1] = "set reg" -> [n EXCEPT !.regs[i[2]] = m.rax]
          [] i[1] = "store reg" -> [n EXCEPT !.st[slot] = Low(m.regs[i[4]], i[3])]
          [] i[1] = "load arg" -> [n EXCEPT !.rax = Low(m.st[m.base - 1 - i[2]], i[3])]
          [] i[1] = "call" -> [m EXCEPT !.st = Append(@, m.pc + 1), !.pc = prog.entry[i[2]]]
          [] i[1] = "enter" -> [n EXCEPT !.st = Append(@, m.base) \o [k \in 1 .. i[2] |-> 0], !.base = Len(m.st) + 1]
          [] i[1] = "leave" -> [m EXCEPT !.st = SubSeq(@, 1, m.base - 2), !.base = m.st[m.base], !.pc = m.st[m.base - 1]]

\* The machine runs from the entry of main, whose caller is at Exit, until
\* it returns there, faults, leaves the code or the steps are used up.
Exit == -1
Start(prog) == [pc |-> prog.entry["main"], rax |-> 0, rcx |-> 0, base |-> 0, st |-> <<Exit>>, regs |-> [r \in 1 .. NumRegs |-> 0]]
Stopped(prog, m) == m.pc \notin 0 .. Len(prog.code) - 1 \/ Faults(m, prog.code[m.pc + 1])
RECURSIVE RunFrom(_, _, _)
RunFrom(prog, m, steps) ==
    IF steps = 0 \/ Stopped(prog, m) THEN m
    ELSE IF steps = 1 THEN Execute(prog, m)
    ELSE RunFrom(prog, RunFrom(prog, m, steps \div 2), steps - steps \div 2)
\* What main returned, or a string when it did not.
OutcomeOf(m) == IF m.pc # Exit THEN [ok |-> FALSE] ELSE [ok |-> m.st = <<>>, v |-> m.rax]
Outcome(prog) == OutcomeOf(RunFrom(prog, Start(prog), MaxSteps))
=============================================================================
