---------------------------- MODULE Declarations ----------------------------
(***************************************************************************)
(* The declarations of a C file in toyc: type specifiers, structures,      *)
(* typedefs, enumerations and initialised global variables (parse.c), and  *)
(* the sections the variables are put into (cgen.c).  A declaration is a   *)
(* record; the words of its type are strings.                              *)
(***************************************************************************)
EXTENDS Integers, Sequences, SequencesExt, TLC

CONSTANT MaxDeclarations   \* in one file

VARIABLES
    declared,      \* the declarations parsed so far
    typedefs,      \* typedef_table
    tags,          \* tag_table: found from its front
    enums,         \* enum_vals
    lastMembers,   \* last_struct_members: of the structure met last
    globals,       \* the variables, with what cgen_program needs of them
    declOk         \* no error was reported

declVars == <<declared, typedefs, tags, enums, lastMembers, globals, declOk>>

EntryOf(table, x) == SelectInSeq(table, LAMBDA e : e.x = x)
NextWord(ws) == IF ws = <<>> THEN "" ELSE Head(ws)
RoundUp(n, a) == ((n + a - 1) \div a) * a
AlignFor(size) == IF size >= 8 THEN 8 ELSE IF size >= 4 THEN 4 ELSE IF size >= 2 THEN 2 ELSE 1

----------------------------------------------------------------------------
(* Type specifiers                                                         *)

\* parse_type_specifier without a body: "rest" are the words it leaves.
PassInt(ws) == IF NextWord(ws) = "int" THEN Tail(ws) ELSE ws
PassLong(ws) == PassInt(IF NextWord(ws) = "long" THEN Tail(ws) ELSE ws)
Spec0(size, unsigned, rest) == [size |-> size, unsigned |-> unsigned, rest |-> rest, tag |-> "", members |-> lastMembers, defines |-> <<>>]
SignedOrNot(unsigned, ws) ==
    CASE NextWord(ws) = "char" -> Spec0(1, unsigned, Tail(ws))
      [] NextWord(ws) = "short" -> Spec0(2, unsigned, PassInt(Tail(ws)))
      [] NextWord(ws) = "long" -> Spec0(8, unsigned, PassLong(Tail(ws)))
      [] OTHER -> Spec0(4, unsigned, PassInt(ws))
OneWordSize == [int |-> 4, char |-> 1, short |-> 2, float |-> 4, double |-> 8, void |-> 0]
AliasSpecifier(entry, rest) ==
    [Spec0(entry.size, entry.unsigned, rest) EXCEPT !.tag = IF entry.members # <<>> THEN entry.x ELSE ""]
\* A tag that is not known has the size of an int.
TagSpecifier(place, rest) ==
    IF place = 0 THEN Spec0(4, FALSE, rest)
    ELSE [Spec0(tags[place].size, FALSE, rest) EXCEPT !.tag = tags[place].x, !.members = tags[place].members]
WordSpecifier(w, ws) ==
    CASE w \in DOMAIN OneWordSize -> Spec0(OneWordSize[w], FALSE, Tail(ws))
      [] w = "long" -> Spec0(8, FALSE, PassLong(Tail(ws)))
      [] w \in {"unsigned", "signed"} -> SignedOrNot(w = "unsigned", Tail(ws))
      [] w = "enum" -> Spec0(4, FALSE, Tail(Tail(ws)))
      [] w \in {"struct", "union"} -> TagSpecifier(EntryOf(tags, NextWord(Tail(ws))), Tail(Tail(ws)))
      [] OTHER -> Spec0(-1, FALSE, ws)
TypeSpecifier(ws) ==
    LET alias == EntryOf(typedefs, NextWord(ws))
    IN  IF alias # 0 THEN AliasSpecifier(typedefs[alias], Tail(ws)) ELSE WordSpecifier(NextWord(ws), ws)

\* parse_struct_body.  A declarator after a comma takes the size of the whole
\* one before it; stars of its own do not change that, and only the first
\* bound of an array counts.
Bound(dims) == IF dims # <<>> /\ dims[1] > 0 THEN dims[1] ELSE 1
PutMember(s, isUnion, x, size, alignSize, elem) ==
    LET offset == RoundUp(IF isUnion THEN 0 ELSE s.offset, AlignFor(alignSize))
    IN  [s EXCEPT !.members = Append(@, [x |-> x, offset |-> offset, size |-> size, elem |-> elem]),
                  !.align = IF AlignFor(alignSize) > @ THEN AlignFor(alignSize) ELSE @,
                  !.largest = IF size > @ THEN size ELSE @, !.offset = offset + size, !.size = size]
FirstMember_Slip(s, isUnion, base, d) ==   \* Mutant: an array is aligned by its whole size.
    LET unit == IF d.stars > 0 THEN 8 ELSE base
        size == unit * Bound(d.dims)
    IN  PutMember(s, isUnion, d.x, size, size, unit)
FirstMember(s, isUnion, base, d) ==
    LET unit == IF d.stars > 0 THEN 8 ELSE base
        size == unit * Bound(d.dims)
        elem == CASE d.dims # <<>> -> unit [] d.dims = <<>> /\ d.stars = 1 -> base [] d.stars > 1 -> 8 [] OTHER -> 0
    IN  PutMember(s, isUnion, d.x, size, IF d.dims # <<>> THEN unit ELSE size, elem)
MoreMember(s, isUnion, base, d) ==
    LET size == s.size * Bound(d.dims)
        elem == CASE d.dims # <<>> -> s.size [] d.dims = <<>> /\ d.stars = 1 -> base [] d.stars > 1 -> 8 [] OTHER -> 0
    IN  PutMember(s, isUnion, d.x, size, IF d.dims # <<>> THEN base ELSE size, elem)
MemberLines(s, isUnion, base, names) ==
    FoldLeft(LAMBDA t, d : MoreMember(t, isUnion, base, d), FirstMember(s, isUnion, base, Head(names)), Tail(names))
LaidOut(s, isUnion) ==
    LET size == RoundUp(IF isUnion THEN s.largest ELSE s.offset, s.align)
    IN  [members |-> s.members, size |-> IF size > 0 THEN size ELSE 1]
BodyLayout(body, isUnion) ==
    LaidOut(FoldLeft(LAMBDA s, m : MemberLines(s, isUnion, TypeSpecifier(m.words).size, m.names),
                     [members |-> <<>>, offset |-> 0, align |-> 1, largest |-> 0, size |-> 0], body), isUnion)

\* parse_struct_type: a body is entered into the table under its tag or
\* under one made for it.
Defined(tag, layout, wrong) ==
    [size |-> layout.size, unsigned |-> FALSE, rest |-> wrong, tag |-> tag, members |-> layout.members,
     defines |-> <<[x |-> tag, size |-> layout.size, members |-> layout.members]>>]
WrongLine(t) == t.size < 0 \/ t.rest # <<>>
Specified(t) ==
    IF t.body = <<>> THEN TypeSpecifier(t.words)
    ELSE Defined(IF Len(t.words) > 1 THEN t.words[2] ELSE "@" \o ToString(Len(tags)),
                 BodyLayout(t.body, t.words[1] = "union"),
                 SelectSeq(t.body, LAMBDA m : WrongLine(TypeSpecifier(m.words))))

----------------------------------------------------------------------------
(* Declarations                                                            *)

\* add_struct_tag, for each structure that a type defines.
AddStructTag(t) == tags \o t.defines

Accept(d, t) ==
    /\ Len(declared) < MaxDeclarations /\ declOk
    /\ declared' = Append(declared, d)
    /\ declOk' = (t.rest = <<>> /\ t.size >= 0)
    /\ lastMembers' = t.members

\* struct tag { ... };
EnterStruct(d, t) == Accept(d, t) /\ tags' = AddStructTag(t)
DeclareStruct(d) ==
    /\ d.k = "struct"
    /\ EnterStruct(d, Specified(d.type))
    /\ UNCHANGED <<typedefs, enums, globals>>

\* What is known of the structure met last is entered with the name, whatever
\* the type is; a name that is there already is brought up to date.
EnterTypedef(d, t, known) ==
    LET entry == [x |-> d.x, size |-> IF d.stars > 0 THEN 8 ELSE t.size, unsigned |-> d.stars = 0 /\ t.unsigned, members |-> t.members]
    IN  typedefs' = CASE known = 0 -> Append(typedefs, entry)
                      [] known # 0 /\ t.members # <<>> /\ t.size > 0 ->
                            [typedefs EXCEPT ![known].size = entry.size, ![known].members = entry.members]
                      [] OTHER -> typedefs
EnterTypedefTag(d, t, table, known) ==
    LET tag == EntryOf(table, d.x)
        struct == [x |-> d.x, size |-> t.size, members |-> t.members]
    IN  tags' = CASE known = 0 /\ tag = 0 /\ t.members # <<>> -> Append(table, struct)
                  [] known # 0 /\ tag # 0 /\ t.members # <<>> /\ t.size > 0 -> [table EXCEPT ![tag] = struct]
                  [] OTHER -> table
\* The branch of parse_program for typedef.
EnterName(d, t, known) == Accept(d, t) /\ EnterTypedef(d, t, known) /\ EnterTypedefTag(d, t, AddStructTag(t), known)
DeclareTypedef(d) ==
    /\ d.k = "typedef"
    /\ EnterName(d, Specified(d.type), EntryOf(typedefs, d.x))
    /\ UNCHANGED <<enums, globals>>

\* eval_const_expr: an enumerator in it is known by its value.
RECURSIVE ConstValue(_, _)
ConstValue(known, e) ==
    LET V(i) == ConstValue(known, e[i]) IN
    CASE Len(e) = 1 -> e[1]
      [] e[1] = "name" -> LET i == EntryOf(known, e[2]) IN IF i = 0 THEN 0 ELSE known[i].value
      [] Len(e) = 2 /\ e[1] = "-" -> -V(2)
      [] Len(e) = 2 /\ e[1] = "~" -> -V(2) - 1
      [] Len(e) = 2 /\ e[1] = "!" -> IF V(2) = 0 THEN 1 ELSE 0
      [] Len(e) = 2 /\ e[1] = "plus" -> V(2)
      [] e[1] = "+" -> V(2) + V(3)
      [] Len(e) = 3 /\ e[1] = "-" -> V(2) - V(3)
      [] e[1] = "*" -> V(2) * V(3)
      [] e[1] = "/" -> IF V(2) >= 0 THEN V(2) \div V(3) ELSE -((-V(2)) \div V(3))
      [] e[1] = "%" -> IF V(2) >= 0 THEN V(2) % V(3) ELSE -((-V(2)) % V(3))
      [] e[1] = "<<" -> V(2) * 2 ^ V(3)
      [] e[1] = ">>" -> V(2) \div 2 ^ V(3)
      [] OTHER -> 0

RegisterEnumVal(s, item) ==
    LET value == IF item.e = <<>> THEN s.next ELSE ConstValue(s.known, item.e)
    IN  [known |-> Append(s.known, [x |-> item.x, value |-> value]), next |-> value + 1]
\* The enumerators of an enum, each one more than the one before it unless
\* it has a value of its own.
DeclareEnum(d) ==
    /\ d.k = "enum"
    /\ Accept(d, Spec0(4, FALSE, <<>>))
    /\ enums' = FoldLeft(RegisterEnumVal, [known |-> enums, next |-> 0], d.items).known
    /\ UNCHANGED <<typedefs, tags, globals>>

----------------------------------------------------------------------------
(* Global variables                                                        *)

\* An initialiser is an integer, a string or a list of them in braces, with
\* or without a comma at its end.
IntItem(v) == [k |-> "int", v |-> v]
StrItem(id) == [k |-> "str", v |-> id]
Braces(items) == [k |-> "braces", items |-> items, comma |-> FALSE]
NoInit == [k |-> "none"]

\* parse_init_list: the values in it, in a row.
RECURSIVE Flattened(_)
Flattened(init) == IF init.k # "braces" THEN <<init>> ELSE FlattenSeq([i \in DOMAIN init.items |-> Flattened(init.items[i])])

\* The declaration of one global variable in parse_program: its size, and
\* what cgen_emit_data_init reads of it.  A bound of 0 is an empty one.
BoundsProduct(dims) == FoldLeft(LAMBDA n, b : IF b > 0 THEN n * b ELSE n, 1, dims)
GlobalVar(t, d) ==
    LET base == IF t.size > 0 THEN t.size ELSE 4
        unit == IF d.stars > 0 THEN 8 ELSE base
        len == BoundsProduct(d.dims)
        first == SelectInSeq(d.dims, LAMBDA b : b > 0)
        row == CASE Len(d.dims) <= 1 -> unit [] Len(d.dims) > 1 /\ first > 0 -> unit * (len \div d.dims[first]) [] OTHER -> unit * len
        element == IF len > 1 THEN row ELSE CASE d.stars = 0 -> 0 [] d.stars = 1 -> base [] OTHER -> 8
        isBraces == d.init.k = "braces"
        commas == IF isBraces THEN Len(d.init.items) + (IF d.init.comma THEN 1 ELSE 0) ELSE 0
        open == isBraces /\ \E i \in DOMAIN d.dims : d.dims[i] = 0
        items == IF isBraces THEN Flattened(d.init) ELSE <<>>
        elems == IF isBraces THEN Len(d.init.items) ELSE 0
        declaredSize == unit * (IF open THEN len * commas ELSE len)
        size == CASE items = <<>> \/ unit * Len(items) = declaredSize -> declaredSize
                  [] items # <<>> /\ Len(d.dims) > 1 -> unit * Len(items)
                  [] OTHER -> unit * elems
        struct == EntryOf(tags, t.tag)
    IN  [x |-> d.x, size |-> size, elem |-> IF open THEN unit ELSE element,
         inner |-> IF d.stars = 1 /\ d.dims # <<>> THEN base ELSE unit, isArray |-> d.dims # <<>>, elemIsPointer |-> d.stars > 0 /\ d.dims # <<>>,
         inStruct |-> t.tag # "" /\ struct # 0, items |-> items,
         perElem |-> IF elems > 0 /\ Len(items) >= elems THEN Len(items) \div elems ELSE Len(items),
         init |-> d.init]

EnterGlobals(d, t) ==
    /\ Accept(d, t)
    /\ tags' = AddStructTag(t)
    /\ globals' = globals \o [i \in DOMAIN d.names |-> GlobalVar(t, d.names[i])]
DeclareGlobals(d) ==
    /\ d.k = "global"
    /\ EnterGlobals(d, Specified(d.type))
    /\ UNCHANGED <<typedefs, enums>>

----------------------------------------------------------------------------
(* The sections of the variables                                           *)

Zeros(n) == [i \in 1 .. n |-> 0]
\* The bytes of a value, the lowest first; a string gives an address.
LittleEndian(v, width) == [i \in 1 .. width |-> IF i <= 3 THEN (v \div 256 ^ (i - 1)) % 256 ELSE IF v < 0 THEN 255 ELSE 0]
AddressOf(id) == [i \in 1 .. 8 |-> -id]

\* cgen_emit_data_init: the width of a value does not come from the member
\* it is for; each element is filled up to its size.
ItemWidth(g) ==
    LET e == IF g.isArray /\ ~g.elemIsPointer /\ g.inner < g.elem THEN g.inner ELSE g.elem
    IN  CASE e = 1 -> 1 [] e = 2 -> 2 [] e >= 8 /\ ~g.inStruct -> 8 [] OTHER -> 4
EmitItem(s, g, item) ==
    LET bytes == IF item.k = "str" THEN AddressOf(item.v) ELSE LittleEndian(item.v, ItemWidth(g))
        filled == s.filled + Len(bytes)
        fill == IF filled < g.elem THEN g.elem - filled ELSE 0
        ends == s.nth + 1 >= g.perElem
    IN  [bytes |-> s.bytes \o bytes \o (IF ends THEN Zeros(fill) ELSE <<>>), filled |-> IF ends THEN 0 ELSE filled, nth |-> IF ends THEN 0 ELSE s.nth + 1]
EmitInit(g) ==
    LET s == FoldLeft(LAMBDA r, item : EmitItem(r, g, item), [bytes |-> <<>>, filled |-> 0, nth |-> 0], g.items)
    IN  s.bytes \o (IF s.filled > 0 /\ s.filled < g.elem THEN Zeros(g.elem - s.filled) ELSE <<>>)

\* The first phase of cgen_program: with an initialiser a variable goes into
\* .data, without one into .bss.
PutVariable_Slip(s, g) ==   \* Mutant: the gap before a variable is not filled.
    LET inData == g.init.k # "none"
        offset == RoundUp(IF inData THEN s.dataSize ELSE s.bssSize, 8)
        size == IF g.size > 0 THEN g.size ELSE 4
    IN  [s EXCEPT !.symbols = Append(@, [x |-> g.x, inData |-> inData, offset |-> offset, size |-> size]),
                  !.bytes = IF inData THEN @ \o EmitInit(g) ELSE @,
                  !.dataSize = IF inData THEN offset + size ELSE @, !.bssSize = IF inData THEN @ ELSE offset + size]
PutVariable(s, g) ==
    LET inData == g.init.k # "none"
        offset == RoundUp(IF inData THEN s.dataSize ELSE s.bssSize, 8)
        size == IF g.size > 0 THEN g.size ELSE 4
        gap == IF offset > Len(s.bytes) THEN Zeros(offset - Len(s.bytes)) ELSE <<>>
    IN  [s EXCEPT !.symbols = Append(@, [x |-> g.x, inData |-> inData, offset |-> offset, size |-> size]),
                  !.bytes = IF inData THEN @ \o gap \o EmitInit(g) ELSE @,
                  !.dataSize = IF inData THEN offset + size ELSE @, !.bssSize = IF inData THEN @ ELSE offset + size]
Sections ==
    LET s == FoldLeft(PutVariable, [symbols |-> <<>>, bytes |-> <<>>, dataSize |-> 0, bssSize |-> 0], globals)
    IN  [s EXCEPT !.bytes = IF Len(@) < s.dataSize THEN @ \o Zeros(s.dataSize - Len(@)) ELSE SubSeq(@, 1, s.dataSize)]

DeclStart == declared = <<>> /\ typedefs = <<>> /\ tags = <<>> /\ enums = <<>> /\ lastMembers = <<>> /\ globals = <<>> /\ declOk = TRUE
DeclareOne(d) == DeclareStruct(d) \/ DeclareTypedef(d) \/ DeclareEnum(d) \/ DeclareGlobals(d)
=============================================================================
