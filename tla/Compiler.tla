------------------------------ MODULE Compiler ------------------------------
(***************************************************************************)
(* toyc from the tokens of a translation unit to the code of its functions *)
(* (main of src/app/compiler/toyc.c), followed by an execution of the code *)
(* it wrote: a correct compiler gives every program that C defines the     *)
(* value C defines.                                                        *)
(***************************************************************************)
EXTENDS CSemantics

CONSTANT Programs    \* what the compiler is given: functions by name

VARIABLE unit
\* at: "text", "parsed", "failed", "code", "ran"; source: the program as its
\* author meant it; names: the functions in the order of the text; parsed:
\* what the parser made of it; code, result: of the later phases.
compilerVars == <<unit>>

NoCode == [code |-> <<>>, entry |-> <<>>]
CompilerStart(source) ==
    unit = [at |-> "text", source |-> source, parsed |-> <<>>, code |-> NoCode, result |-> [ok |-> FALSE]]
CompilerInit == \E p \in Programs : CompilerStart(p)

----------------------------------------------------------------------------
(* How an author writes a tree: with the parentheses that the grammar of C *)
(* requires.                                                               *)

Precedence ==
    [o \in UNION {Levels[i] : i \in DOMAIN Levels} |->
        CASE o = "||" -> 4 [] o = "&&" -> 5 [] o = "|" -> 6 [] o = "^" -> 7 [] o = "&" -> 8
          [] o \in {"==", "!="} -> 9 [] o \in {"<", ">", "<=", ">="} -> 10 [] o \in {"<<", ">>"} -> 11
          [] o \in {"+", "-"} -> 12 [] OTHER -> 13]
Binding(e) ==
    CASE e.k = "binop" -> IF e.o = "," THEN 1 ELSE Precedence[e.o]
      [] e.k = "assign" -> 2
      [] e.k = "ternary" -> 3
      [] e.k = "unary" -> 14
      [] OTHER -> 15
\* x = x + e is written x += e.
Compound(e) == e.r.k = "binop" /\ e.r.l = e.l /\ e.r.o \in Range(CompoundOps)
CompoundOf(o) == CHOOSE c \in DOMAIN CompoundOps : CompoundOps[c] = o

RECURSIVE Written(_), WrittenIn(_, _), WrittenList(_)
WrittenIn(e, b) == IF Binding(e) < b THEN <<"(">> \o Written(e) \o <<")">> ELSE Written(e)
WrittenList(es) ==
    IF es = <<>> THEN <<>>
    ELSE WrittenIn(Head(es), 2) \o (IF Len(es) = 1 THEN <<>> ELSE <<",">> \o WrittenList(Tail(es)))
Written(e) ==
    CASE e.k = "const" -> <<e.t>>
      [] e.k = "var" -> <<e.x>>
      [] e.k = "unary" -> <<e.o>> \o WrittenIn(e.e, 14)
      [] e.k = "postfix" -> WrittenIn(e.e, 15) \o <<e.o>>
      [] e.k = "binop" -> WrittenIn(e.l, Binding(e)) \o <<e.o>> \o WrittenIn(e.r, Binding(e) + 1)
      [] e.k = "assign" /\ Compound(e) -> WrittenIn(e.l, 14) \o <<CompoundOf(e.r.o)>> \o WrittenIn(e.r.r, 2)
      [] e.k = "assign" -> WrittenIn(e.l, 14) \o <<"=">> \o WrittenIn(e.r, 2)
      [] e.k = "ternary" -> WrittenIn(e.c, 4) \o <<"?">> \o WrittenIn(e.a, 2) \o <<":">> \o WrittenIn(e.b, 3)
      [] e.k = "call" -> <<e.f, "(">> \o WrittenList(e.args) \o <<")">>

RECURSIVE Lines(_)
Lines(ss) == FoldLeft(LAMBDA ts, s : ts \o
    (LET condition(e) == <<"(">> \o WrittenIn(e, 2) \o <<")">>
         maybe(es) == IF es = <<>> THEN <<>> ELSE Written(es[1])
         first(i) == IF i = <<>> THEN <<";">> ELSE Lines(i)
     IN  CASE s.k = "return" -> <<"return">> \o maybe(s.es) \o <<";">>
           [] s.k = "if" -> <<"if">> \o condition(s.c) \o Lines(<<s.t>>)
                              \o (IF s.els = <<>> THEN <<>> ELSE <<"else">> \o Lines(s.els))
           [] s.k = "while" -> <<"while">> \o condition(s.c) \o Lines(<<s.b>>)
           [] s.k = "do" -> <<"do">> \o Lines(<<s.b>>) \o <<"while">> \o condition(s.c) \o <<";">>
           [] s.k = "for" -> <<"for", "(">> \o first(s.init) \o maybe(s.conds) \o <<";">> \o maybe(s.steps) \o <<")">>
                               \o Lines(<<s.b>>)
           [] s.k = "switch" -> <<"switch">> \o condition(s.c) \o <<"{">> \o Lines(s.ss) \o <<"}">>
           [] s.k = "case" -> <<"case", s.lo>> \o (IF s.lo = s.hi THEN <<>> ELSE <<"...", s.hi>>) \o <<":">>
           [] s.k = "block" -> <<"{">> \o Lines(s.ss) \o <<"}">>
           [] s.k = "expr" -> Written(s.e) \o <<";">>
           [] s.k = "decl" -> <<s.t, s.x>> \o (IF s.es = <<>> THEN <<>> ELSE <<"=">> \o WrittenIn(s.es[1], 2)) \o <<";">>
           [] s.k = "label" -> <<s.x, ":">>
           [] s.k = "goto" -> <<"goto", s.x, ";">>
           [] s.k = "empty" -> <<";">>
           [] s.k = "default" -> <<"default", ":">>
           [] OTHER -> <<s.k, ";">>), <<>>, ss)
Text(f) == <<"{">> \o Lines(f.body) \o <<"}">>

----------------------------------------------------------------------------
(* main of toyc                                                            *)

WithParsed(u, body) ==
    [u EXCEPT !.at = IF \A x \in DOMAIN body : body[x].ok THEN "parsed" ELSE "failed",
              !.parsed = [x \in DOMAIN body |-> [u.source[x] EXCEPT !.body = body[x].n]]]
ParseUnit ==
    /\ unit.at = "text"
    /\ unit' = WithParsed(unit, [x \in DOMAIN unit.source |-> ParseBody(Text(unit.source[x]))])

\* The functions are translated in the order of the text; here main is last.
TextOrder(funs) == SetToSeq(DOMAIN funs \ {"main"}) \o <<"main">>
Translate ==
    /\ unit.at = "parsed"
    /\ unit' = [unit EXCEPT !.at = "code", !.code = Generate(unit.parsed, TextOrder(unit.parsed))]

Run ==
    /\ unit.at = "code"
    /\ unit' = [unit EXCEPT !.at = "ran", !.result = Outcome(unit.code)]

CompilerNext == ParseUnit \/ Translate \/ Run

----------------------------------------------------------------------------
(* Properties                                                              *)

RECURSIVE Legal(_, _, _)
\* break stands in a loop or a switch, continue in a loop, case and default
\* in a switch.
Legal(s, inLoop, inSwitch) ==
    CASE s.k = "break" -> inLoop \/ inSwitch
      [] s.k = "continue" -> inLoop
      [] s.k \in {"case", "default"} -> inSwitch
      [] s.k \in {"while", "do", "for"} -> Legal(s.b, TRUE, inSwitch)
      [] s.k = "if" -> \A t \in {s.t} \cup Range(s.els) : Legal(t, inLoop, inSwitch)
      [] s.k = "block" -> \A i \in DOMAIN s.ss : Legal(s.ss[i], inLoop, inSwitch)
      [] s.k = "switch" -> \A i \in DOMAIN s.ss : Legal(s.ss[i], inLoop, TRUE)
      [] OTHER -> TRUE

\* The parser gives the tree that the author wrote down, whatever operators
\* meet and however statements nest, and it reports the statements that
\* stand where C does not allow them.
ParserSound ==
    /\ unit.at \notin {"text", "failed"} => unit.parsed = unit.source
    /\ unit.at # "text" =>
          ((unit.at # "failed") <=> \A x \in DOMAIN unit.source : Legal(Block(unit.source[x].body), FALSE, FALSE))

\* What a program returned is what C says, and the stack is as it was.
ReturnedRight(u) ==
    LET main == u.source["main"].ret
        meant == Meaning(u.source)
    IN  meant.ok => u.result.ok /\ Read(u.result.v, Size(main), main = "unsigned") = meant.v
\* Running the code of a program that C gives a meaning returns the value C
\* says, and leaves the stack as it was.
CodeSound == [][unit'.at = "ran" => ReturnedRight(unit')]_compilerVars
=============================================================================
