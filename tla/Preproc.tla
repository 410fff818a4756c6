------------------------------ MODULE Preproc ------------------------------
(***************************************************************************)
(* The C preprocessor, app/compiler/preproc.c: lines are read one after    *)
(* the other, directives keep a stack of conditionals and two tables of    *)
(* macros, other lines are expanded and written.  #elif is not known.      *)
(*                                                                         *)
(* A line is a directive with its argument, or text; text, expressions     *)
(* and macro bodies are sequences of tokens.                               *)
(***************************************************************************)
EXTENDS Integers, SequencesExt, FiniteSetsExt

CONSTANTS
    MaxCond,      \* entries of pp_cond_emit
    MaxDepth,     \* the depth at which includes (32) and macros (64) stop
    ObjectNames,  \* identifiers
    Numbers       \* numeric tokens: token -> value

VARIABLES
    program,      \* file -> its lines: [kind, name, toks, indent]
    pp,           \* where the preprocessor is, pp_had_error
    source,       \* the files being read, innermost last: [file, next]
    emit,         \* pp_cond_emit[0 .. pp_cond_depth - 1]
    skip,         \* pp_cond_skip
    macros,       \* macros[]: [name, body]
    funcs,        \* func_macros[]: [name, body], their parameters x, y
    output,       \* the tokens written
    trace         \* the lines read so far, over all files

ppVars == <<program, pp, source, emit, skip, macros, funcs, output, trace>>

PreprocStart(files) ==
    /\ program = files
    /\ pp = [at |-> "read", error |-> FALSE]
    /\ source = <<[file |-> "main", next |-> 1]>>
    /\ emit = <<>> /\ skip = 0
    /\ macros = <<>> /\ funcs = <<>>
    /\ output = <<>> /\ trace = <<>>

----------------------------------------------------------------------------
(* Macro tables.  A second definition is added behind the first and never  *)
(* found; #undef takes the first out, and knows object macros only.        *)

Named(table, n) == {i \in DOMAIN table : table[i].name = n}
IsDefined(table, n) == Named(table, n) # {}
BodyOf(table, n) == table[Min(Named(table, n))].body

\* The last entry takes the place of the first one of that name.
Forget(table, n) ==
    IF ~IsDefined(table, n) THEN table
    ELSE Front([table EXCEPT ![Min(Named(table, n))] = Last(table)])

----------------------------------------------------------------------------
(* #if: precedence climbing, if_parse_primary and if_parse_expr.           *)

Prec(t) ==
    CASE t = "||" -> 1 [] t = "&&" -> 2 [] t \in {"==", "!="} -> 6
      [] t \in {"<", ">", "<=", ">="} -> 7 [] t \in {"+", "-"} -> 9
      [] t \in {"*", "/", "%"} -> 10 [] OTHER -> -1

Logic(b) == IF b THEN 1 ELSE 0
\* Division truncates towards zero, by zero it gives 0.
Quot(a, b) ==
    IF b = 0 THEN 0
    ELSE LET abs(x) == IF x < 0 THEN -x ELSE x
             q == abs(a) \div abs(b)
         IN  IF (a < 0) = (b < 0) THEN q ELSE -q
Apply(a, op, b) ==
    CASE op = "+" -> a + b [] op = "-" -> a - b [] op = "*" -> a * b
      [] op = "/" -> Quot(a, b) [] op = "%" -> IF b = 0 THEN 0 ELSE a - b * Quot(a, b)
      [] op = "<" -> Logic(a < b) [] op = ">" -> Logic(a > b)
      [] op = "<=" -> Logic(a <= b) [] op = ">=" -> Logic(a >= b)
      [] op = "==" -> Logic(a = b) [] op = "!=" -> Logic(a # b)
      [] op = "&&" -> Logic(a # 0 /\ b # 0) [] op = "||" -> Logic(a # 0 \/ b # 0)

Partial(val, pos) == [val |-> val, pos |-> pos]
Tok(ts, p) == IF p <= Len(ts) THEN ts[p] ELSE "end"

RECURSIVE Primary(_, _), Climb(_, _, _), Rest(_, _, _, _)

\* if_next_tok's value of an identifier: its macro's, read as an expression.
NumberOf(t) ==
    IF t \in DOMAIN Numbers THEN Numbers[t]
    ELSE IF ~IsDefined(macros, t) \/ BodyOf(macros, t) = <<>> THEN 0
    ELSE Climb(BodyOf(macros, t), 1, 1).val

Primary(ts, p) ==
    LET t == Tok(ts, p) IN
    CASE t = "defined" -> Partial(Logic(IsDefined(macros, Tok(ts, p + 1))), p + 2)
      [] t \in DOMAIN Numbers \cup ObjectNames -> Partial(NumberOf(t), p + 1)
      [] t = "(" -> LET inner == Climb(ts, p + 1, 1)
                    IN  Partial(inner.val, inner.pos + Logic(Tok(ts, inner.pos) = ")"))
      [] t = "+" -> Primary(ts, p + 1)
      [] t = "-" -> LET r == Primary(ts, p + 1) IN Partial(-r.val, r.pos)
      [] t = "!" -> LET r == Primary(ts, p + 1) IN Partial(Logic(r.val = 0), r.pos)
      [] OTHER -> Partial(0, p)

\* The right operand of an operator takes what binds more tightly.
\* Mutant: and what binds equally.
Climb_Slip(ts, p, least) == LET left == Primary(ts, p) IN Rest(ts, left.val, left.pos, least - 1)
Climb(ts, p, least) == LET left == Primary(ts, p) IN Rest(ts, left.val, left.pos, least)
Rest(ts, left, p, least) ==
    IF Prec(Tok(ts, p)) < least THEN Partial(left, p)
    ELSE LET right == Climb(ts, p + 1, Prec(Tok(ts, p)) + 1)
         IN  Rest(ts, Apply(left, Tok(ts, p), right.val), right.pos, least)

IfEval(ts) == ts # <<>> /\ Climb(ts, 1, 1).val # 0

----------------------------------------------------------------------------
(* Expansion of text: pp_buf_impl.  depth counts nested expansions, busy   *)
(* is expand_stack, the function macros being expanded.                    *)

\* Where the call that opens at p ends: the place of its ")" or 0.
Closing(ts, p) ==
    LET opens(k) == Cardinality({i \in p .. k : ts[i] = "("})
        closes(k) == Cardinality({i \in p .. k : ts[i] = ")"})
        ends == {k \in p .. Len(ts) : opens(k) = closes(k)}
    IN  IF ends = {} THEN 0 ELSE Min(ends)

\* The arguments of the call that opens at p and ends at end: commas within
\* inner parentheses do not count.
Arguments(ts, p, end) ==
    LET inner(k) == Cardinality({i \in p .. k : ts[i] = "("}) - Cardinality({i \in p .. k : ts[i] = ")"})
        cuts == SetToSortSeq({p, end} \cup {k \in p .. end : ts[k] = "," /\ inner(k) = 1}, <)
    IN  [i \in 1 .. Len(cuts) - 1 |-> SubSeq(ts, cuts[i] + 1, cuts[i + 1] - 1)]

\* Parameters are x and y; missing arguments leave their name, surplus ones
\* are dropped.  (#, ## and __VA_ARGS__ are left out.)
Parameters == <<"x", "y">>
Substitute(body, args) ==
    FlattenSeq([i \in DOMAIN body |->
        IF \E k \in DOMAIN args : k <= 2 /\ body[i] = Parameters[k]
        THEN args[CHOOSE k \in DOMAIN args : k <= 2 /\ body[i] = Parameters[k]] ELSE <<body[i]>>])

RECURSIVE Expand(_, _, _)
\* Arguments are expanded first, but with the macro already busy; one that
\* comes to nothing is put in as it was.
Expanded(arg, depth, busy) ==
    LET e == Expand(arg, depth + 1, busy) IN IF e = <<>> THEN arg ELSE e

\* The result of a call is expanded once more; if it begins with the name of
\* a macro, that takes the arguments behind the call.
UseMacro(ts, end, depth, busy) ==
    LET within == busy \cup {ts[1]}
        args == [i \in DOMAIN Arguments(ts, 2, end) |-> Expanded(Arguments(ts, 2, end)[i], depth, within)]
        text == Substitute(BodyOf(funcs, ts[1]), args)
        again == IF depth < MaxDepth THEN Expand(text, depth + 1, within) ELSE text
        from == SubSeq(ts, end + 1, Len(ts))
        follow == /\ depth < MaxDepth /\ IsDefined(funcs, Tok(again, 1))
                  /\ Tok(again, 1) \notin busy /\ Tok(from, 1) = "(" /\ Closing(from, 1) # 0
    IN  IF follow
        THEN Expand(again \o SubSeq(from, 1, Closing(from, 1)), depth + 1, busy)
                 \o Expand(SubSeq(from, Closing(from, 1) + 1, Len(from)), depth, busy)
        ELSE again \o Expand(from, depth, busy)

Expand(ts, depth, busy) ==
    IF ts = <<>> THEN <<>>
    ELSE LET t == Head(ts) IN
         IF IsDefined(macros, t)
         THEN (IF depth < MaxDepth THEN Expand(BodyOf(macros, t), depth + 1, busy) ELSE BodyOf(macros, t))
                  \o Expand(Tail(ts), depth, busy)
         ELSE IF IsDefined(funcs, t) /\ Tok(ts, 2) = "(" /\ t \notin busy
         THEN IF Closing(ts, 2) = 0 THEN Expand(Tail(ts), depth, busy) ELSE UseMacro(ts, Closing(ts, 2), depth, busy)
         ELSE <<t>> \o Expand(Tail(ts), depth, busy)

----------------------------------------------------------------------------
(* Lines                                                                   *)

Frame == Last(source)
Reading == pp.at = "read" /\ source # <<>> /\ Frame.next <= Len(program[Frame.file])
Line == program[Frame.file][Frame.next]
Advance == source' = [source EXCEPT ![Len(source)].next = @ + 1]
Noted == trace' = Append(trace, Line)

\* What is in front of the # matters only where lines are skipped: there an
\* indented directive is text.
Seen(kind) ==
    /\ Reading /\ Noted
    /\ Line.kind = kind /\ ~(skip > 0 /\ Line.indent)

\* #ifdef, #ifndef and #if: of the last nothing is evaluated inside a group
\* that is skipped.
Holds ==
    CASE Line.kind = "ifdef" -> IsDefined(macros, Line.name)
      [] Line.kind = "ifndef" -> ~IsDefined(macros, Line.name)
      [] Line.kind = "if" -> skip = 0 /\ IfEval(Line.toks)
Open ==
    /\ \E kind \in {"ifdef", "ifndef", "if"} : Seen(kind)
    /\ IF Len(emit) = MaxCond
       THEN pp' = [at |-> "exit", error |-> TRUE] /\ UNCHANGED <<emit, skip>>
       ELSE emit' = Append(emit, Holds) /\ skip' = skip + Logic(~Holds) /\ UNCHANGED pp
    /\ Advance
    /\ UNCHANGED <<program, macros, funcs, output>>

Else ==
    /\ Seen("else")
    /\ IF emit = <<>> THEN UNCHANGED <<emit, skip>>
       ELSE /\ skip' = IF Last(emit) THEN skip + 1 ELSE IF skip > 0 THEN skip - 1 ELSE skip
            /\ emit' = [emit EXCEPT ![Len(emit)] = ~@]
    /\ Advance
    /\ UNCHANGED <<program, pp, macros, funcs, output>>

\* Mutant: skip is left as it is.
Endif_Slip ==
    /\ Seen("endif")
    /\ IF emit = <<>> THEN UNCHANGED <<emit, skip>>
       ELSE emit' = Front(emit) /\ UNCHANGED skip
    /\ Advance
    /\ UNCHANGED <<program, pp, macros, funcs, output>>
Endif ==
    /\ Seen("endif")
    /\ IF emit = <<>> THEN UNCHANGED <<emit, skip>>
       ELSE /\ skip' = IF ~Last(emit) /\ skip > 0 THEN skip - 1 ELSE skip
            /\ emit' = Front(emit)
    /\ Advance
    /\ UNCHANGED <<program, pp, macros, funcs, output>>

Skipped ==
    /\ Reading /\ Noted
    /\ skip > 0 /\ (Line.indent \/ Line.kind \notin {"ifdef", "ifndef", "if", "else", "endif"})
    /\ Advance
    /\ UNCHANGED <<program, pp, emit, skip, macros, funcs, output>>

\* #define of an object or a function macro, #undef, #error.
Directive ==
    /\ skip = 0 /\ \E kind \in {"define", "definef", "undef", "error"} : Seen(kind)
    /\ LET entry == [name |-> Line.name, body |-> Line.toks]
       IN  /\ macros' = CASE Line.kind = "define" -> Append(macros, entry)
                          [] Line.kind = "undef" -> Forget(macros, Line.name)
                          [] OTHER -> macros
           /\ funcs' = IF Line.kind = "definef" THEN Append(funcs, entry) ELSE funcs
    /\ pp' = [pp EXCEPT !.error = @ \/ Line.kind = "error"]
    /\ Advance
    /\ UNCHANGED <<program, emit, skip, output>>

TextLine ==
    /\ skip = 0 /\ Seen("text")
    /\ output' = output \o Expand(Line.toks, Len(source) - 1, {})
    /\ Advance
    /\ UNCHANGED <<program, pp, emit, skip, macros, funcs>>

\* A file that is not found is reported and passed over.
Include ==
    /\ skip = 0 /\ Seen("include")
    /\ source' = LET after == [source EXCEPT ![Len(source)].next = @ + 1]
                 IN  IF Line.name \in DOMAIN program /\ Len(source) <= MaxDepth
                     THEN Append(after, [file |-> Line.name, next |-> 1]) ELSE after
    /\ UNCHANGED <<program, pp, emit, skip, macros, funcs, output>>

\* The end of a file: conditionals it left open stay open.
EndOfFile ==
    /\ pp.at = "read" /\ source # <<>> /\ Frame.next > Len(program[Frame.file])
    /\ source' = Front(source)
    /\ pp' = IF Len(source) = 1 THEN [pp EXCEPT !.at = "exit"] ELSE pp
    /\ UNCHANGED <<program, emit, skip, macros, funcs, output, trace>>

PreprocNext == Open \/ Else \/ Endif \/ Skipped \/ Directive \/ TextLine \/ Include \/ EndOfFile

----------------------------------------------------------------------------
(* Properties                                                              *)

(* What the C standard says of the lines read so far.                      *)

\* The conditionals open after the first n lines of the trace.
Balance(from, to) ==
    Cardinality({i \in from .. to : trace[i].kind \in {"ifdef", "ifndef", "if"}})
        - Cardinality({i \in from .. to : trace[i].kind = "endif"})
OpenAt(n) ==
    {q \in 1 .. n : trace[q].kind \in {"ifdef", "ifndef", "if"} /\ \A k \in q .. n : Balance(q, k) > 0}
\* How often the branch of conditional q has been changed by line n.
Elses(q, n) == Cardinality({i \in q .. n : trace[i].kind = "else" /\ Balance(q, i) = 1})

\* The value of an expression: its loosest operator, the rightmost of those,
\* is applied last.
IsOperand(t) == t = ")" \/ t \in DOMAIN Numbers \cup ObjectNames
RECURSIVE IfMeaning(_, _)
IfMeaning(ts, defs) ==
    LET level(i) == Cardinality({j \in 1 .. i : ts[j] = "("}) - Cardinality({j \in 1 .. i : ts[j] = ")"})
        binary == {i \in 2 .. Len(ts) : level(i) = 0 /\ Prec(ts[i]) > 0 /\ IsOperand(ts[i - 1])}
        loosest == {i \in binary : \A j \in binary : Prec(ts[i]) <= Prec(ts[j])}
        cut == Max(loosest)
    IN  CASE binary # {} -> Apply(IfMeaning(SubSeq(ts, 1, cut - 1), defs), ts[cut], IfMeaning(SubSeq(ts, cut + 1, Len(ts)), defs))
          [] binary = {} /\ ts[1] = "(" -> IfMeaning(SubSeq(ts, 2, Len(ts) - 1), defs)
          [] binary = {} /\ ts[1] = "-" -> -IfMeaning(Tail(ts), defs)
          [] binary = {} /\ ts[1] = "!" -> Logic(IfMeaning(Tail(ts), defs) = 0)
          [] binary = {} /\ ts[1] = "defined" -> Logic(ts[2] \in DOMAIN defs)
          [] OTHER -> IF ts[1] \in DOMAIN Numbers THEN Numbers[ts[1]]
                      ELSE IF ts[1] \in DOMAIN defs /\ defs[ts[1]] # <<>> THEN IfMeaning(defs[ts[1]], defs) ELSE 0

\* The object macros defined by the first n lines, and whether line n + 1
\* belongs to a branch that is taken.
RECURSIVE Definitions(_), Chosen(_)
Definitions(n) ==
    IF n = 0 THEN <<>>
    ELSE LET before == Definitions(n - 1)
             line == trace[n]
         IN  IF ~Chosen(n - 1) \/ line.kind \notin {"define", "undef"} THEN before
             ELSE IF line.kind = "define" THEN (line.name :> line.toks) @@ before
             ELSE [m \in DOMAIN before \ {line.name} |-> before[m]]
Chosen(n) ==
    \A q \in OpenAt(n) :
        LET defs == Definitions(q - 1)
            holds == CASE trace[q].kind = "ifdef" -> trace[q].name \in DOMAIN defs
                       [] trace[q].kind = "ifndef" -> trace[q].name \notin DOMAIN defs
                       [] trace[q].kind = "if" -> Chosen(q - 1) /\ IfMeaning(trace[q].toks, defs) # 0
        IN  holds = (Elses(q, n) % 2 = 0)

\* What the code asks of a program: an #endif has its #if, a macro is not
\* defined twice without #undef, directives are not indented where they are
\* skipped.
Disciplined ==
    /\ \A n \in DOMAIN trace :
           /\ ~trace[n].indent
           /\ trace[n].kind \in {"else", "endif"} => OpenAt(n - 1) # {}
           /\ trace[n].kind = "define" => trace[n].name \notin DOMAIN Definitions(n - 1)

\* skip counts the groups not taken, and lines are dropped exactly where the
\* standard says, however groups, files and definitions are interleaved.
LinesSelected ==
    /\ pp.at = "read" /\ (\A n \in DOMAIN trace : ~trace[n].indent) =>
           skip = Cardinality({i \in DOMAIN emit : ~emit[i]})
    /\ pp.at = "read" /\ Disciplined => (skip = 0 <=> Chosen(Len(trace)))

\* The names that some names lead to through the bodies of macros.
BodiesOf(n) == UNION {ToSet(macros[i].body) : i \in Named(macros, n)}
                 \cup UNION {ToSet(funcs[i].body) : i \in Named(funcs, n)}
RECURSIVE Below(_, _)
Below(names, k) == IF k = 0 THEN names ELSE Below(names \cup UNION {BodiesOf(n) : n \in names}, k - 1)
LeadsTo(names) == Below(names, Len(macros) + Len(funcs))

\* No macro leads back to itself, neither through bodies nor through the
\* arguments of a call (f(f(x)) is not expanded: f is busy when its argument
\* is); and none is defined after the text that uses it.
SimpleText(ts) ==
    \A p \in 1 .. Len(ts) - 1 :
        IsDefined(funcs, ts[p]) /\ ts[p + 1] = "(" =>
            ts[p] \notin LeadsTo(ToSet(SubSeq(ts, p + 2, Closing(ts, p + 1) - 1)))
Ordinary ==
    /\ \A n \in {t.name : t \in ToSet(macros) \cup ToSet(funcs)} : n \notin LeadsTo(BodiesOf(n))
    /\ \A i, j \in DOMAIN trace :
           trace[i].kind = "text" => /\ SimpleText(trace[i].toks)
                                     /\ i < j => trace[j].kind \notin {"define", "definef"}
    /\ \A i \in DOMAIN funcs : SimpleText(funcs[i].body)

\* No call of a macro is left in the output of a plain program.
ExpansionComplete ==
    Ordinary =>
        \A i \in DOMAIN output :
            /\ ~IsDefined(macros, output[i])
            /\ ~(IsDefined(funcs, output[i]) /\ Tok(output, i + 1) = "(")

\* Both, after every line.
PreprocSound == LinesSelected /\ ExpansionComplete
=============================================================================
