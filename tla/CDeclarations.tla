--------------------------- MODULE CDeclarations ---------------------------
(* What C says of the sizes, the layout and the initial values that        *)
(* declarations give, and where toyc agrees.                               *)
EXTENDS Declarations, FiniteSets

----------------------------------------------------------------------------
(* C's types, by the declarations up to some place                         *)

CType(size, align, members) == [size |-> size, align |-> align, members |-> members]
Incomplete == CType(0, 1, <<>>)
CWords(names, ws) ==
    LET W == ToSet(ws) IN
    CASE NextWord(ws) \in {"struct", "union"} -> IF ws[2] \in DOMAIN names.tags THEN names.tags[ws[2]] ELSE Incomplete
      [] NextWord(ws) \in DOMAIN names.types -> names.types[ws[1]]
      [] "char" \in W -> CType(1, 1, <<>>)
      [] "short" \in W -> CType(2, 2, <<>>)
      [] "long" \in W \/ "double" \in W -> CType(8, 8, <<>>)
      [] OTHER -> CType(4, 4, <<>>)
CDeclared(type, d) ==
    LET one == IF d.stars > 0 THEN CType(8, 8, <<>>) ELSE type IN [one EXCEPT !.size = @ * BoundsProduct(d.dims)]
CMembers(names, body) ==
    FlattenSeq([i \in DOMAIN body |-> [j \in DOMAIN body[i].names |->
        [x |-> body[i].names[j].x, type |-> CDeclared(CWords(names, body[i].words), body[i].names[j])]]])
Greatest(S) == CHOOSE a \in S : \A b \in S : b <= a
CLayout(all, isUnion, align) ==
    LET End[i \in 0 .. Len(all)] == IF i = 0 \/ isUnion THEN 0 ELSE RoundUp(End[i - 1], all[i].type.align) + all[i].type.size
        longest == IF isUnion THEN Greatest({all[i].type.size : i \in DOMAIN all}) ELSE End[Len(all)]
    IN  CType(RoundUp(longest, align), align,
              [i \in DOMAIN all |-> [x |-> all[i].x, offset |-> IF isUnion THEN 0 ELSE End[i] - all[i].type.size, size |-> all[i].type.size]])
CStructure(all, isUnion) == CLayout(all, isUnion, Greatest({1} \cup {all[i].type.align : i \in DOMAIN all}))
CBody(names, body, isUnion) == CStructure(CMembers(names, body), isUnion)
CSpecified(names, t) == IF t.body = <<>> THEN CWords(names, t.words) ELSE CBody(names, t.body, t.words[1] = "union")
\* The names after a declaration; a name keeps its first meaning.
Learn(names, d) ==
    LET type == CSpecified(names, d.type)
        tagged == IF d.type.body # <<>> /\ Len(d.type.words) > 1 THEN [names EXCEPT !.tags = @ @@ (d.type.words[2] :> type)] ELSE names
    IN  CASE d.k = "typedef" -> [tagged EXCEPT !.types = @ @@ (d.x :> CDeclared(type, d))]
          [] d.k \in {"struct", "global"} -> tagged
          [] OTHER -> names
NoNames == [tags |-> <<>>, types |-> <<>>]
Names(n) == FoldLeft(Learn, NoNames, SubSeq(declared, 1, n))

----------------------------------------------------------------------------
(* Structures                                                              *)

\* One declarator of each line, or plain ones of one type; one bound; and a
\* structure within that is aligned as its size suggests.
PlainBody(names, body) ==
    \A i \in DOMAIN body :
        LET type == CWords(names, body[i].words) IN
        /\ type.size > 0 /\ AlignFor(type.size) = type.align
        /\ \A j \in DOMAIN body[i].names : Len(body[i].names[j].dims) <= 1
        /\ Len(body[i].names) > 1 => \A j \in DOMAIN body[i].names : body[i].names[j].stars = 0 /\ body[i].names[j].dims = <<>>

\* The members of every structure lie behind each other within it, whatever
\* was declared; a plain body is laid out as C lays it out
\* (parse_struct_body, parse_struct_type).
LaidOutAs(e, c) ==
    e.size = c.size /\ [i \in DOMAIN e.members |-> [x |-> e.members[i].x, offset |-> e.members[i].offset, size |-> e.members[i].size]] = c.members
LayoutRight(d, before) ==
    d.k # "enum" /\ d.type.body # <<>> /\ Len(d.type.words) > 1 /\ PlainBody(before, d.type.body) =>
        LaidOutAs(tags[EntryOf(tags, d.type.words[2])], CSpecified(before, d.type))
LayoutSound ==
    declOk =>
    /\ \A e \in ToSet(tags), i, j \in 1 .. 8 :
        i < j /\ {i, j} \subseteq DOMAIN e.members /\ e.members[j].offset > 0 => e.members[i].offset + e.members[i].size <= e.members[j].offset
    /\ \A n \in DOMAIN declared : LayoutRight(declared[n], Names(n - 1))

\* A typedef name has the size of its type, when that was complete; an
\* enumerator has the value that C counts (parse_program,
\* parse_type_specifier, eval_const_expr).
PlainType(names, t) == IF t.body = <<>> THEN CWords(names, t.words).size > 0 ELSE PlainBody(names, t.body)
NamesSound ==
    declOk =>
    /\ \A n \in DOMAIN declared :
        LET d == declared[n] IN
        d.k = "typedef" /\ PlainType(Names(n - 1), d.type) /\ (\A m \in 1 .. n - 1 : declared[m].k = "typedef" => declared[m].x # d.x)
          => typedefs[EntryOf(typedefs, d.x)].size = Names(n).types[d.x].size
    /\ LET items == FlattenSeq([n \in DOMAIN declared |-> IF declared[n].k = "enum" THEN declared[n].items ELSE <<>>])
       IN  [i \in DOMAIN enums |-> enums[i].value] = [i \in DOMAIN items |-> items[i].value]

----------------------------------------------------------------------------
(* Data                                                                    *)

\* The bytes C gives a variable; "type" is that of an element.
RECURSIVE CBytes(_, _, _)
CBytes(type, dims, init) ==
    CASE init.k = "str" -> AddressOf(init.v)
      [] init.k = "int" -> LittleEndian(init.v, type.size)
      [] init.k = "braces" /\ dims # <<>> -> FlattenSeq([i \in DOMAIN init.items |-> CBytes(type, Tail(dims), init.items[i])])
      [] OTHER ->
            LET m == type.members
                Byte(b) == LET i == CHOOSE k \in DOMAIN m : m[k].offset <= b /\ b < m[k].offset + m[k].size
                           IN  LittleEndian(init.items[i].v, m[i].size)[b - m[i].offset + 1]
            IN  [b \in 1 .. type.size |-> Byte(b - 1)]

\* Initialisers that toyc means to put into the data: every element has its
\* value; in structures only integers of four bytes.  A negative one of eight
\* bytes needs more than one element and no typedef.
RECURSIVE Full(_, _, _)
Full(type, dims, init) ==
    IF dims # <<>> THEN /\ init.k = "braces" /\ init.items # <<>> /\ (dims[1] = 0 \/ dims[1] = Len(init.items))
                        /\ \A i \in DOMAIN init.items : Full(type, Tail(dims), init.items[i])
    ELSE IF type.members = <<>> THEN init.k = "str" => type.size = 8
    ELSE init.k = "braces" /\ Len(init.items) = Len(type.members) /\ \A i \in DOMAIN type.members : type.members[i].size = 4 /\ init.items[i].k = "int"
Negative(init) == \E item \in ToSet(Flattened(init)) : item.k = "int" /\ item.v < 0
PlainInit(words, type, d) ==
    /\ d.init.k = "braces" /\ Len(d.dims) <= 2
    /\ d.dims = <<>> => type.members # <<>>
    /\ Full(type, d.dims, d.init)
    /\ Negative(d.init) => type.size < 8 \/ (Len(d.init.items) > 1 /\ "long" \in ToSet(words))

\* The variables of a file, with the types C gives them.
VariableOf(d, words, type, complete) ==
    LET own == IF d.stars > 0 THEN CType(8, 8, <<>>) ELSE type
    IN  [d |-> d, type |-> own, plain |-> complete /\ (d.init.k = "none" \/ PlainInit(words, own, d))]
VariablesOf(g, type, complete) == [i \in DOMAIN g.names |-> VariableOf(g.names[i], g.type.words, type, complete)]
VariablesBy(g, names) == VariablesOf(g, CSpecified(names, g.type), PlainType(names, g.type))
GlobalsOf == FlattenSeq([n \in DOMAIN declared |->
    IF declared[n].k = "global" THEN VariablesBy(declared[n], Names(n - 1)) ELSE <<>>])

\* A symbol has room for the bytes C gives it, aligned, and in .data it holds
\* them.
VariableSound(g, sym, s, bytes) ==
    LET size == IF g.d.init.k = "none" THEN g.type.size * BoundsProduct(g.d.dims) ELSE Len(bytes)
    IN  /\ sym.offset % g.type.align = 0 /\ sym.size >= size
        /\ sym.offset + sym.size <= IF sym.inData THEN s.dataSize ELSE s.bssSize
        /\ sym.inData => SubSeq(s.bytes, sym.offset + 1, sym.offset + size) = bytes
SectionsSound(all, s) ==
    (\A i \in DOMAIN all : all[i].plain) => \A i \in DOMAIN s.symbols :
        /\ VariableSound(all[i], s.symbols[i], s, CBytes(all[i].type, all[i].d.dims, all[i].d.init))
        /\ \A j \in 1 .. i - 1 : s.symbols[j].inData = s.symbols[i].inData =>
                s.symbols[j].offset + s.symbols[j].size <= s.symbols[i].offset
\* When all initialisers are such, no two variables share a byte, each has at
\* least the bytes that C gives it, aligned, and those in .data hold what C
\* puts there (cgen_program, cgen_emit_data_init, parse_init_list).
DataSound == declOk => SectionsSound(GlobalsOf, Sections)
DeclarationsSound == LayoutSound /\ NamesSound /\ DataSound
=============================================================================
