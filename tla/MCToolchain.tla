---------------------------- MODULE MCToolchain ----------------------------
(* The programs of the tool chain, one of them at a time: they meet only   *)
(* through the files they read and write.                                  *)
EXTENDS MCCompiler, Preproc, Assembler, Archiver, Linker, Tmake

VARIABLE chainTool

toolchainVars == <<chainTool, compilerVars, ppVars, asmVars, archiveVars, linkVars, buildVars, frontVars>>

----------------------------------------------------------------------------
(* tmake on a library of one file, a program of one file and one of two,   *)
(* whose directory has a file that nothing uses.                           *)

OneUnit(d, n) == Unit(d, <<n>>)
OneProgram == OneUnit("app", "x")
MultiProgram == OneUnit("sub", "m")
Part == OneUnit("sub", "s")
MCUnits == {OneUnit("lib", "l"), OneProgram, MultiProgram, Part, OneUnit("sub", "u")}
MCHeaders == {OneUnit("inc", "h")}
MCIncluded == [u \in MCUnits |-> IF u \in {OneProgram, Part} THEN MCHeaders ELSE {}]
MCListText ==
    ("sub" :> <<"#", "x", "\n", " ", "m", ":", " ", "s", " ", "\n">>) @@ ("app" :> <<"x", ":", "\n">>)
MCStandalone == {Part}
MCCoreTools == {MultiProgram.name}

MCBuildNext ==
    \/ \E f \in MCHeaders \cup {Part} : EditFile(f)
    \/ builds = 0 /\ \E serial, gcc \in BOOLEAN : FullBuild(serial, gcc)
    \/ \E u \in {OneProgram, MultiProgram} : SingleBuild(u, FALSE, TRUE)
    \/ BuildGoesOn

----------------------------------------------------------------------------
(* Programs for the preprocessor                                           *)

L(kind, name, toks) == [kind |-> kind, name |-> name, toks |-> toks, indent |-> FALSE]
Def(n, body) == L("define", n, body)
DefF(n, body) == L("definef", n, body)
IfLine(toks) == L("if", "", toks)
Ifdef(n) == L("ifdef", n, <<>>)
Write(toks) == L("text", "", toks)
ElseLine == L("else", "", <<>>)
EndifLine == L("endif", "", <<>>)
Within(line) == [line EXCEPT !.indent = TRUE]
Main(lines) == [main |-> lines]

\* Every order of five directives about one name.
Directives ==
    {Ifdef("A"), L("ifndef", "A", <<>>), ElseLine, EndifLine, Def("A", <<>>), L("undef", "A", <<>>)}
Shuffles == {Main(<<a, b, c, d, e>>) : a, b, c, d, e \in Directives}

\* Every expression of three operands and two operators, with and without
\* parentheses and signs.
BinaryOps == {"||", "&&", "==", "<", ">=", "+", "-", "*", "/", "%"}
Operands == {"0", "2", "7", "A"}
Flat == {<<x, o, y, p, z>> : x, y, z \in Operands, o, p \in BinaryOps}
NestedConditions == {<<x, o, "(", y, p, "-", z, ")">> : x, y, z \in {"2", "7"}, o, p \in BinaryOps}
            \cup {<<"!", "(", x, o, y, ")", p, z>> : x, y, z \in {"0", "7"}, o, p \in BinaryOps}
            \cup {<<"!", "defined", n, o, x, p, y>> : n \in {"A", "B"}, x, y \in {"0", "2"}, o, p \in BinaryOps}
Conditions == {Main(<<Def("A", <<"2", "-", "7">>), IfLine(e)>>) : e \in Flat \cup NestedConditions}

\* Macros that lead to each other, but never back, and their uses.
MacroBodies == {<<"x">>, <<"(", "x", "+", "B", ")">>, <<"g", "(", "x", ")">>, <<"g", "(", "x", ",", "x", ")">>, <<"B", "g", "(", "B", ")">>}
Uses == {<<"f", "(", "A", ")">>, <<"f", "(", "f", "(", "2", ")", ")">>, <<"f", "(", "g", "(", "A", ")", "+", "2", ")", "A">>,
         <<"f", "A", "(", ")">>, <<"g", "(", "f", "(", "2", ",", "7", ")", ",", "A", ")">>, <<"h", "(", "2", ")", "(", "g", "(", "7", ",", "A", ")", ")">>, <<"g", "(", "f", "(", "2", ")", ")">>}
Expansions ==
    {Main(<<Def("A", a), Def("B", b), DefF("f", f), DefF("g", g), DefF("h", <<"f">>), Write(u)>>) :
        a \in {<<"2">>, <<"B", "+", "B">>}, b \in {<<"7">>, <<>>}, f \in MacroBodies,
        g \in {<<"x">>, <<"y", "*", "x", "A">>}, u \in Uses}

\* A header that is guarded, included twice and inside a conditional; one
\* that leaves a conditional open; nesting to the limit; indentation.
Headers ==
    {[main |-> <<Def("C", <<"2">>), Ifdef(n), L("include", "h", <<>>), ElseLine, L("include", "none", <<>>), EndifLine,
                 L("include", "h", <<>>), Write(<<"B">>)>>,
      h |-> <<L("ifndef", "G", <<>>), Def("G", <<>>), Def("B", <<"C">>), EndifLine>>] : n \in {"C", "G"}}
    \cup {[main |-> <<L("include", "h", <<>>), Write(<<"A">>), L("endif", "", <<>>), Write(<<"A">>)>>, h |-> <<Ifdef(n), Def("A", <<"7">>)>>] : n \in {"A", "B"}}
    \cup {[main |-> <<L("include", "main", <<>>), L("error", "", <<>>)>>],
          Main(<<Ifdef("A"), Ifdef("A"), Ifdef("A"), Ifdef("A"), Ifdef("A"), ElseLine>>),
          Main(<<Ifdef("A"), Write(<<"A">>), Within(EndifLine), Write(<<"2">>), EndifLine>>),
          Main(<<Def("A", <<"7">>), Ifdef("A"), Write(<<"A">>), Within(ElseLine), Write(<<"2">>), Within(EndifLine)>>)}

MCNumbers == ("0" :> 0) @@ ("2" :> 2) @@ ("7" :> 7)
PreprocPrograms == Shuffles \cup Conditions \cup Expansions \cup Headers

----------------------------------------------------------------------------
(* Programs for the assembler                                              *)

\* One instruction each: every form with registers that need care.
Regs == {0, 3, 4, 5, 8, 12, 13}
Distances == {0, 8, -128, 200}
Addresses == {Mem(b) : b \in Regs} \cup {MemAt(d, b) : d \in Distances, b \in Regs} \cup {Indexed(d, b, i, s) : d \in {0, 200}, b \in Regs, i \in {0, 5, 12}, s \in {1, 4, 8}}
OneInstr ==
    {Instr(m, <<Reg(r, s), Reg(q, s)>>) : m \in {"mov", "xor", "test"}, r, q \in Regs, s \in {1, 4, 8}}
    \cup {Instr(m, <<i, Reg(r, s)>>) : m \in {"mov", "and", "sub"}, i \in {Imm(7), Imm(200), Hex(<<6, 14>>), Hex(<<1, 10, 2>>)}, r \in Regs, s \in {1, 4, 8}}
    \cup {Instr(m, <<a, Reg(r, s)>>) : m \in {"mov", "lea"}, a \in Addresses, r \in {0, 12}, s \in {4, 8}}
    \cup {Instr("mov", <<Reg(r, 8), a>>) : a \in Addresses, r \in {0, 12}}
    \cup {Instr(m, <<Reg(r, 8)>>) : m \in {"push", "pop"}, r \in Regs} \cup {Instr("call", <<Indirect(r)>>) : r \in Regs}
    \cup {Instr(m, <<>>) : m \in {"ret", "syscall", "hlt", "nop"}}

\* Jumps over a distance and labels that are used again.
Filler(n) == [i \in 1 .. n |-> Instr("mov", <<Imm(1), Reg(0, 8)>>)]
Jump(to) == <<Instr("jne", <<to>>)>>
Hops ==
    {Jump(Ahead(1)) \o Filler(n) \o <<Number(1)>> : n \in {0, 1, 18, 19}}
    \cup {<<Number(2)>> \o Filler(n) \o Jump(Back(2)) : n \in {0, 17, 18, 19}}
    \cup {a \o b \o c \o d : a, b, c, d \in {Jump(Ahead(1)), Jump(Back(1)), <<Number(1)>>, <<Instr("ret", <<>>)>>}}
    \cup {Jump(Ahead(1)) \o Jump(Ahead(1)) \o Jump(Ahead(1)) \o <<Number(1)>>}

\* Labels, directives and calls in any order; a label stands there once.
Symbolic == {Pseudo("globl", "f"), Pseudo("extern", "g"), Pseudo("type", "f"), NameLabel("f"), NameLabel("g"), Instr("call", <<Name("f")>>), Instr("call", <<Name("g")>>)}
OnceEach(s) == \A i, j \in DOMAIN s : i # j /\ s[i] = s[j] => s[i].k # "label"
MCSources ==
    {<<i>> : i \in OneInstr} \cup Hops
    \cup {s \in {<<a, b, c, d, Instr("ret", <<>>)>> : a, b, c, d \in Symbolic} : OnceEach(s)} \cup {<<Pseudo("text", ""), Pseudo("hidden", "f"), NameLabel("f")>>}

----------------------------------------------------------------------------
(* Objects for the archiver and the linker                                 *)

MCBodies == {[size |-> 7, exports |-> <<"f">>], [size |-> 4, exports |-> <<"g", "f">>]}

Sym(name, bind, sect, value) == [name |-> name, bind |-> bind, sect |-> sect, value |-> value]
Undefined(n) == Sym(n, "global", "undef", 0)
Rel(sect, offset, sym, type, addend) ==
    [sect |-> sect, offset |-> offset, sym |-> sym, type |-> type, addend |-> addend]
O(text, data, bss, syms, relocs) ==
    [text |-> text, data |-> data, bss |-> bss, syms |-> syms, relocs |-> relocs]
MCObjects == [
    main |-> O(17, 9, 3, <<Sym("here", "local", "data", 2), Sym("_start", "global", "text", 4), Undefined("f")>>,
               <<Rel("text", 5, 3, "PLT32", -4), Rel("data", 1, 1, "64", 3), Rel("text", 0, 1, "none", 0)>>),
    f |-> O(40, 0, 8, <<Sym("f", "global", "text", 8), Undefined("g"), Sym("here", "local", "bss", 1)>>,
            <<Rel("text", 12, 2, "PC32", -4), Rel("text", 20, 3, "32", 0)>>),
    weak |-> O(16, 33, 0, <<Sym("f", "weak", "data", 4), Sym("g", "weak", "text", 2)>>, <<>>),
    g |-> O(1, 1, 1, <<Sym("g", "global", "data", 0), Undefined("f"), Undefined("_G")>>,
            <<Rel("data", 0, 2, "PC32", 1), Rel("text", 0, 3, "32", 2)>>),
    idle |-> O(8, 0, 0, <<Sym("h", "global", "abs", 5), Undefined("h")>>, <<Rel("text", 2, 1, "32", -7)>>),
    odd |-> O(8, 0, 0, <<Sym("g", "global", "text", 1)>>, <<Rel("text", 0, 1, "GOT", 0)>>)]

SequencesUpTo(S, n) == UNION {[1 .. k -> S] : k \in 0 .. n}
Libraries == {<<>>, <<"f">>, <<"g", "f">>, <<"weak", "idle", "g">>, <<"odd", "f">>}

----------------------------------------------------------------------------

PreprocRest == PreprocStart(Main(<<>>))
CompilerRest == CompilerStart(<<>>)
AsmRest == AsmStart(<<>>)
ArchiveRest == ArchiveStart(<<>>)
LinkRest == LinkStart(<<>>, <<>>)
BuildRest == BuildStart
FrontRest == FrontStart

Init ==
    \/ chainTool = "front" /\ PreprocRest /\ CompilerRest /\ AsmRest /\ ArchiveRest /\ LinkRest /\ BuildRest /\ FrontStart
    \/ chainTool = "tmake" /\ PreprocRest /\ CompilerRest /\ AsmRest /\ ArchiveRest /\ LinkRest /\ FrontRest /\ BuildStart
    \/ chainTool = "preproc" /\ CompilerRest /\ AsmRest /\ ArchiveRest /\ LinkRest /\ BuildRest /\ FrontRest
         /\ \E p \in PreprocPrograms : PreprocStart(p)
    \/ chainTool = "toyc" /\ PreprocRest /\ AsmRest /\ ArchiveRest /\ LinkRest /\ BuildRest /\ FrontRest /\ CompilerInit
    \/ chainTool = "toyas" /\ PreprocRest /\ CompilerRest /\ ArchiveRest /\ LinkRest /\ BuildRest /\ FrontRest /\ AsmInit
    \/ chainTool = "toyar" /\ PreprocRest /\ CompilerRest /\ AsmRest /\ LinkRest /\ BuildRest /\ FrontRest
         /\ ArchiveStart([f \in Files |-> CHOOSE b \in MCBodies : b.size = 7])
    \/ chainTool = "toyld" /\ PreprocRest /\ CompilerRest /\ AsmRest /\ ArchiveRest /\ BuildRest /\ FrontRest
         /\ \E os \in SequencesUpTo(DOMAIN MCObjects, 2), as \in SequencesUpTo(Libraries, 2) : LinkStart(os, as)

Next ==
    /\ UNCHANGED chainTool
    /\ \/ chainTool = "preproc" /\ PreprocNext /\ UNCHANGED <<compilerVars, asmVars, archiveVars, linkVars, buildVars, frontVars>>
       \/ chainTool = "toyc" /\ CompilerNext /\ UNCHANGED <<ppVars, asmVars, archiveVars, linkVars, buildVars, frontVars>>
       \/ chainTool = "toyas" /\ AsmNext /\ UNCHANGED <<ppVars, compilerVars, archiveVars, linkVars, buildVars, frontVars>>
       \/ chainTool = "toyar" /\ ArchiveNext /\ UNCHANGED <<ppVars, compilerVars, asmVars, linkVars, buildVars, frontVars>>
       \/ chainTool = "toyld" /\ LinkNext /\ UNCHANGED <<ppVars, compilerVars, asmVars, archiveVars, buildVars, frontVars>>
       \/ chainTool = "tmake" /\ MCBuildNext /\ UNCHANGED <<ppVars, compilerVars, asmVars, archiveVars, linkVars, frontVars>>
       \/ chainTool = "front" /\ FrontNext /\ UNCHANGED <<ppVars, compilerVars, asmVars, archiveVars, linkVars, buildVars>>

Spec == Init /\ [][Next]_toolchainVars

\* LinkingSound: an archive keeps its members and its symbol table finds them;
\* a link resolves every reference to the definition that is found first, and
\* leaves no section over another (toyar.c, toyld.c); tmake links each target of
\* a tmakelist once, of the files that are written there (tmake.c).
LinkingSound == ArchiveSound /\ LinkSound /\ (chainTool = "tmake" => TargetsSound)

\* FrontEndSound: tokens are the longest that C's grammar finds and have
\* their values, floating-point literals are read to the last place, and
\* declarations give the sizes, the layout and the data of C (lex.c, parse.c,
\* cgen.c).
FrontEndSound == chainTool = "front" => FrontCallSound
=============================================================================
