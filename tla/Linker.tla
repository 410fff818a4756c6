------------------------------- MODULE Linker -------------------------------
(***************************************************************************)
(* app/compiler/toyld.c, the static linker: take objects and the archive   *)
(* members they need, lay their sections out, resolve symbols, apply the   *)
(* relocations, write one loadable segment.                                *)
(*                                                                         *)
(* An object is its three section sizes, its symbols and its relocations;  *)
(* addresses wrap at the constant Word, which stands for 2^32.             *)
(***************************************************************************)
EXTENDS Integers, SequencesExt, FiniteSetsExt

CONSTANTS
    Objects,     \* object -> [text, data, bss, syms, relocs]
    Base,        \* BASE_ADDR
    Word,        \* modulus of a four-byte field
    MaxInputs,   \* MAX_INPUTS
    Entry        \* entry_sym_name

\* A symbol: [name, bind, sect, value], sect one of "text", "data", "bss",
\* "abs", "other", "undef"; a relocation: [sect, offset, sym, type, addend].

VARIABLES
    cmd,         \* the command line: objects, archives (sequences of members)
    link,        \* where the linker is; inputs relocated; the entry address
    inputs,      \* inputs[]
    loaded,      \* archive members taken: <<archive, member>>
    symbols,     \* syms[]
    patched      \* fields written by relocations: <<section, offset>> -> value

linkVars == <<cmd, link, inputs, loaded, symbols, patched>>

LinkStart(objects, archives) ==
    /\ cmd = [objects |-> objects, archives |-> archives]
    /\ link = [at |-> "read", done |-> 0, entry |-> 0]
    /\ inputs = <<>>
    /\ loaded = {}
    /\ symbols = <<>>
    /\ patched = <<>>

At_L(where) == link.at = where
GoTo_L(where) == link' = [link EXCEPT !.at = where]
Syms(o) == Objects[o].syms
Global(s) == s.bind # "local"

----------------------------------------------------------------------------
(* The symbol table                                                        *)

\* find_or_add_sym: the place of a name, a new one at the end.
Position(table, n) ==
    IF \E i \in DOMAIN table : table[i].name = n
    THEN CHOOSE i \in DOMAIN table : table[i].name = n
    ELSE Len(table) + 1
FindOrAdd(table, n) ==
    IF Position(table, n) <= Len(table) THEN table
    ELSE Append(table, [name |-> n, value |-> 0, defined |-> FALSE])

\* register_input_undefs, and the second pass of resolve_symbols.
RegisterUndefs(table, o) ==
    FoldLeft(LAMBDA t, s : IF Global(s) /\ s.sect = "undef" THEN FindOrAdd(t, s.name) ELSE t,
             table, Syms(o))

IsUndef(n) == \E i \in DOMAIN symbols : symbols[i].name = n /\ ~symbols[i].defined

----------------------------------------------------------------------------
(* Inputs                                                                  *)

ReadInputs ==
    /\ At_L("read")
    /\ IF Len(cmd.objects) > MaxInputs \/ (cmd.objects = <<>> /\ cmd.archives = <<>>)
       THEN GoTo_L("error") /\ UNCHANGED <<inputs, symbols>>
       ELSE /\ inputs' = cmd.objects
            /\ symbols' = FoldLeft(RegisterUndefs, <<>>, cmd.objects)
            /\ GoTo_L("load")
    /\ UNCHANGED <<cmd, loaded, patched>>

\* The archive's symbol table says which names a member defines.
Members == {<<a, m>> \in (DOMAIN cmd.archives) \X (1 .. 9) : m \in DOMAIN cmd.archives[a]}
ObjectOf(mem) == cmd.archives[mem[1]][mem[2]]
Exports(o) == {s.name : s \in {s \in ToSet(Syms(o)) : Global(s) /\ s.sect # "undef"}}
NeededNow == {mem \in Members \ loaded : \E n \in Exports(ObjectOf(mem)) : IsUndef(n)}

\* The first archive, and in it the first member, that defines a name still
\* undefined; after each the search starts over.
Before(p, q) == p[1] < q[1] \/ (p[1] = q[1] /\ p[2] <= q[2])
LoadMember ==
    /\ At_L("load") /\ NeededNow # {}
    /\ LET mem == CHOOSE p \in NeededNow : \A q \in NeededNow : Before(p, q)
       IN  IF Len(inputs) = MaxInputs
           THEN GoTo_L("error") /\ UNCHANGED <<inputs, loaded, symbols>>
           ELSE /\ inputs' = Append(inputs, ObjectOf(mem))
                /\ loaded' = loaded \cup {mem}
                /\ symbols' = RegisterUndefs(symbols, ObjectOf(mem))
                /\ UNCHANGED link
    /\ UNCHANGED <<cmd, patched>>

----------------------------------------------------------------------------
(* Layout: merge_sections                                                  *)

AlignUp(n, a) == ((n + a - 1) \div a) * a
Alignment(sect) == IF sect = "text" THEN 16 ELSE 32
\* Mutant: sections follow each other at their own sizes.
Offset_Slip(sect, i) ==
    FoldLeft(LAMBDA off, o : IF off = 0 THEN Objects[o][sect] ELSE AlignUp(off, Alignment(sect)), 0, SubSeq(inputs, 1, i - 1))
\* Where input i's part of a section begins; i = Len(inputs) + 1: its size.
Offset(sect, i) ==
    FoldLeft(LAMBDA off, o : AlignUp(off + Objects[o][sect], Alignment(sect)), 0, SubSeq(inputs, 1, i - 1))
SizeOf(sect) == Offset(sect, Len(inputs) + 1)
SectionStart(sect) ==
    CASE sect = "text" -> Base
      [] sect = "data" -> Base + SizeOf("text")
      [] sect = "bss" -> Base + SizeOf("text") + SizeOf("data")

Merge ==
    /\ At_L("load") /\ NeededNow = {}
    /\ GoTo_L("resolve")
    /\ UNCHANGED <<cmd, inputs, loaded, symbols, patched>>

----------------------------------------------------------------------------
(* Symbols                                                                 *)

\* sym_final_addr
FinalAddr(i, s) ==
    CASE s.sect = "undef" -> 0
      [] s.sect \in {"abs", "other"} -> s.value
      [] s.sect \in {"text", "data", "bss"} -> SectionStart(s.sect) + Offset(s.sect, i) + s.value

\* First pass: the first definition of a name counts, weak or not.
\* Mutant: the last one does.
Define_Slip(table, i, s) ==
    [FindOrAdd(table, s.name) EXCEPT ![Position(table, s.name)] =
        [name |-> s.name, value |-> FinalAddr(i, s), defined |-> TRUE]]
Define(table, i, s) ==
    LET t == FindOrAdd(table, s.name) IN LET p == Position(t, s.name)
    IN  IF t[p].defined THEN t
        ELSE [t EXCEPT ![p] = [name |-> s.name, value |-> FinalAddr(i, s), defined |-> TRUE]]
DefineAll(table, i) ==
    FoldLeft(LAMBDA t, s : IF Global(s) /\ s.sect # "undef" THEN Define(t, i, s) ELSE t,
             table, Syms(inputs[i]))

\* Names that begin with _G (_GLOBAL_OFFSET_TABLE_) may stay undefined.
Special(n) == n = "_G"
Resolve ==
    /\ At_L("resolve")
    /\ LET defined == FoldLeft(DefineAll, symbols, [i \in DOMAIN inputs |-> i])
           table == FoldLeft(RegisterUndefs, defined, inputs)
           missing == {i \in DOMAIN table : ~table[i].defined /\ ~Special(table[i].name)}
           entries == {table[i].value : i \in {i \in DOMAIN table : table[i].name = Entry}}
       IN  /\ symbols' = table
           /\ IF missing # {} \/ entries \subseteq {0} THEN GoTo_L("error")
              ELSE link' = [link EXCEPT !.at = "relocate", !.entry = CHOOSE e \in entries : TRUE]
    /\ UNCHANGED <<cmd, inputs, loaded, patched>>

----------------------------------------------------------------------------
(* Relocations                                                             *)

\* find_sym_value
SymValue(i, k) ==
    LET s == Syms(inputs[i])[k]
    IN  IF Global(s) THEN symbols[Position(symbols, s.name)].value ELSE FinalAddr(i, s)

Place(i, r) == SectionStart(r.sect) + Offset(r.sect, i) + r.offset
\* Mutant: PC-relative fields are relative to the start of the section.
Field_Slip(i, r) ==
    IF r.type \in {"PC32", "PLT32"} THEN (SymValue(i, r.sym) + r.addend - SectionStart(r.sect)) % Word
    ELSE (SymValue(i, r.sym) + r.addend) % Word
Field(i, r) ==
    CASE r.type \in {"64", "32"} -> (SymValue(i, r.sym) + r.addend) % Word
      [] r.type \in {"PC32", "PLT32"} -> (SymValue(i, r.sym) + r.addend - Place(i, r)) % Word

Supported == {"none", "64", "32", "PC32", "PLT32"}

\* apply_relocations, one input.
Relocate ==
    /\ At_L("relocate") /\ link.done < Len(inputs)
    /\ LET i == link.done + 1
           rs == SelectSeq(Objects[inputs[i]].relocs, LAMBDA r : r.type # "none")
       IN  IF \E r \in ToSet(rs) : r.type \notin Supported
           THEN GoTo_L("error") /\ UNCHANGED patched
           ELSE /\ patched' = FoldLeft(LAMBDA p, r : (<<r.sect, Offset(r.sect, i) + r.offset>> :> Field(i, r)) @@ p, patched, rs)
                /\ link' = [link EXCEPT !.done = i]
    /\ UNCHANGED <<cmd, inputs, loaded, symbols>>

\* write_output; the file may not open or be written in full.
WriteOutput ==
    /\ At_L("relocate") /\ link.done = Len(inputs)
    /\ GoTo_L("written") \/ GoTo_L("error")
    /\ UNCHANGED <<cmd, inputs, loaded, symbols, patched>>

LinkNext == ReadInputs \/ LoadMember \/ Merge \/ Resolve \/ Relocate \/ WriteOutput

----------------------------------------------------------------------------
(* Properties                                                              *)

References(os) == UNION {{s.name : s \in {s \in ToSet(Syms(o)) : Global(s) /\ s.sect = "undef"}} : o \in os}

\* The members linked are those that are reached from the objects by names
\* used but not defined where they are used, each once: a set that does not
\* depend on the order of the search.
Reached[k \in Nat] ==
    IF k = 0 THEN {}
    ELSE Reached[k - 1] \cup
         {mem \in Members :
             Exports(ObjectOf(mem)) \cap
                 References(ToSet(cmd.objects) \cup {ObjectOf(p) : p \in Reached[k - 1]}) # {}}
MembersAreReached ==
    /\ loaded \subseteq Reached[Cardinality(Members)]
    /\ At_L("written") => loaded = Reached[Cardinality(Members)]
    /\ link.at \notin {"read", "error"} =>
           Len(inputs) = Len(cmd.objects) + Cardinality(loaded)

\* No byte of the segment belongs to two inputs or two sections.
Extent(sect, i) ==
    LET from == SectionStart(sect) + Offset(sect, i)
    IN  from .. from + Objects[inputs[i]][sect] - 1
Parts == {"text", "data", "bss"} \X (DOMAIN inputs)
LayoutDisjoint ==
    At_L("resolve") =>
        /\ \A p, q \in Parts : p # q => Extent(p[1], p[2]) \cap Extent(q[1], q[2]) = {}
        /\ \A p \in Parts : Extent(p[1], p[2]) \subseteq Base .. SectionStart("bss") + SizeOf("bss") - 1

\* In the written file a field leads to the definition its symbol has in the
\* object itself, if it is local, and otherwise to that of the first input.
DefinedAt(i, s) ==
    IF ~Global(s) THEN FinalAddr(i, s)
    ELSE LET defs == {<<j, k>> \in (DOMAIN inputs) \X (1 .. 9) :
                         /\ k \in DOMAIN Syms(inputs[j])
                         /\ Syms(inputs[j])[k].name = s.name
                         /\ Global(Syms(inputs[j])[k]) /\ Syms(inputs[j])[k].sect # "undef"}
             first == CHOOSE p \in defs : \A q \in defs : Before(p, q)
         IN  IF defs = {} THEN 0 ELSE FinalAddr(first[1], Syms(inputs[first[1]])[first[2]])
FieldsLead ==
    At_L("written") =>
        \A i \in DOMAIN inputs : \A r \in ToSet(Objects[inputs[i]].relocs) :
            r.type # "none" =>
                LET field == patched[<<r.sect, Offset(r.sect, i) + r.offset>>]
                    goal == DefinedAt(i, Syms(inputs[i])[r.sym]) + r.addend
                IN  (IF r.type \in {"PC32", "PLT32"} THEN field + Place(i, r) ELSE field) % Word = goal % Word

\* All three, at every stage of a link.
LinkSound == MembersAreReached /\ LayoutDisjoint /\ FieldsLead
=============================================================================
