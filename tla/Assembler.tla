------------------------------ MODULE Assembler ------------------------------
(***************************************************************************)
(* The assembler toyas (src/app/compiler/toyas.c) and the order in which   *)
(* elf_write.c puts its symbols into the object file.  A line of the       *)
(* source is a directive, a label or an instruction with its operands; the *)
(* code it becomes is modelled byte by byte, for that is what can be wrong *)
(* with it.                                                                *)
(***************************************************************************)
EXTENDS Sequences, Integers, FiniteSets, SequencesExt

CONSTANTS
    Sources,        \* the programs to assemble: sequences of lines
    MaxFixups       \* 32: jumps ahead to one numeric label

VARIABLES
    asm,            \* the globals of toyas
    starts          \* where the code of each line began (for the properties)
asmVars == <<asm, starts>>

\* Operands as they are written.  n is the number of a register, size its
\* bytes; a memory operand is d(b,i,scale) with i = -1 for no index, and
\* plain says that no d is written.
Reg(n, size) == [k |-> "reg", n |-> n, size |-> size]
Imm(v) == [k |-> "imm", v |-> v]
Hex(digits) == [k |-> "hex", digits |-> digits]
Mem(b) == [k |-> "mem", b |-> b, i |-> -1, scale |-> 1, d |-> 0, plain |-> TRUE]
MemAt(d, b) == [Mem(b) EXCEPT !.d = d, !.plain = FALSE]
Indexed(d, b, i, scale) == [MemAt(d, b) EXCEPT !.i = i, !.scale = scale]
Indirect(n) == [k |-> "ind", n |-> n]
Name(x) == [k |-> "name", x |-> x]
Ahead(n) == [k |-> "near", n |-> n]
Back(n) == [k |-> "near", n |-> -n]
Instr(m, ops) == [k |-> "instr", m |-> m, ops |-> ops]
NameLabel(x) == [k |-> "label", x |-> x]
Number(n) == [k |-> "number", n |-> n]
Pseudo(d, x) == [k |-> d, x |-> x]    \* globl, extern, type, text, hidden

AsmStart(source) ==
    /\ asm = [at |-> "read", source |-> source, next |-> 1, code |-> <<>>, syms |-> <<>>, rels |-> <<>>,
              offsets |-> <<>>, fixups |-> <<>>, last |-> 0, global |-> FALSE, func |-> FALSE, errors |-> 0]
    /\ starts = <<>>
AsmInit == \E s \in Sources : AsmStart(s)

----------------------------------------------------------------------------
(* Operands                                                                *)

\* find_reg does not know r8d, r9d, r8b and r9b.
KnownReg(r) == r.size = 8 \/ r.n \notin {8, 9}

\* The digits 0-9 at the front, then a-f, and nothing behind.
HexValue(digits) ==
    LET decimal == {n \in 0 .. Len(digits) : \A i \in 1 .. n : digits[i] < 10}
        d == CHOOSE n \in decimal : \A m \in decimal : m <= n
        letters == {n \in d .. Len(digits) : \A i \in d + 1 .. n : digits[i] >= 10}
        l == CHOOSE n \in letters : \A m \in letters : m <= n
    IN  FoldLeft(LAMBDA v, x : v * 16 + x, 0, SubSeq(digits, 1, l))

\* What parse_operand makes of an operand; "none" when it refuses it.
ParseOperand(o) ==
    LET parsed(kind) == [kind |-> kind, reg |-> 0, size |-> 8, imm |-> 0, i |-> -1, scale |-> 1, x |-> ""]
    IN  CASE o.k = "reg" -> IF KnownReg(o) THEN [parsed("reg") EXCEPT !.reg = o.n, !.size = o.size] ELSE parsed("none")
          [] o.k = "imm" -> [parsed("imm") EXCEPT !.imm = o.v]
          [] o.k = "hex" -> [parsed("imm") EXCEPT !.imm = HexValue(o.digits)]
          [] o.k = "mem" -> [parsed(IF o.i >= 0 THEN "sib" ELSE IF o.plain THEN "mem" ELSE "disp")
                               EXCEPT !.reg = o.b, !.i = o.i, !.scale = o.scale, !.imm = o.d]
          [] o.k = "ind" -> [parsed("ind") EXCEPT !.reg = o.n]
          [] o.k = "name" -> [parsed("imm") EXCEPT !.x = o.x]
          [] o.k = "near" -> parsed("imm")

\* An operand that is refused hides the ones after it.
AsmOperands(line) ==
    LET ops == [j \in DOMAIN line.ops |-> ParseOperand(line.ops[j])]
        refused == {j \in DOMAIN ops : ops[j].kind = "none"}
    IN  IF 1 \in refused THEN <<>> ELSE IF 2 \in refused THEN SubSeq(ops, 1, 1) ELSE ops

----------------------------------------------------------------------------
(* Instructions                                                            *)

\* instr_enc with the names of find_instr_def: mnemonic, format, opcode,
\* extension.
InstrTable == {
    <<"mov", "RR", <<137>>, 0>>, <<"mov", "IR", <<199>>, 0>>, <<"mov", "IR8", <<176>>, 0>>, <<"mov", "MR", <<139>>, 0>>,
    <<"mov", "RM", <<137>>, 0>>, <<"lea", "LEA_MR", <<141>>, 0>>, <<"lea", "LEA_MI", <<141>>, 0>>, <<"call", "CALL_DIR", <<232>>, 0>>,
    <<"call", "CALL_IND", <<255>>, 2>>, <<"syscall", "NONE", <<15, 5>>, 0>>, <<"xor", "RR", <<49>>, 0>>, <<"and", "IR", <<131>>, 4>>,
    <<"sub", "IR", <<131>>, 5>>, <<"test", "RR", <<133>>, 0>>, <<"jnz", "JCC8", <<117>>, 0>>, <<"jne", "JCC8", <<117>>, 0>>,
    <<"je", "JCC8", <<116>>, 0>>, <<"jmp", "JCC8", <<235>>, 0>>, <<"pop", "POP", <<88>>, 0>>, <<"push", "PUSH", <<80>>, 0>>,
    <<"hlt", "NONE", <<244>>, 0>>, <<"ret", "NONE", <<195>>, 0>>, <<"nop", "NONE", <<144>>, 0>>}

\* The format that tas_assemble guesses from mnemonic and operands.
Format(m, ops) ==
    LET is(j, kinds) == Len(ops) >= j /\ ops[j].kind \in kinds
        labelled == Len(ops) >= 1 /\ ops[1].x # ""
    IN  CASE m = "call" -> IF is(1, {"ind", "reg"}) THEN "CALL_IND" ELSE IF labelled THEN "CALL_DIR" ELSE "NONE"
          [] m = "lea" -> IF is(1, {"sib"}) THEN "LEA_MI" ELSE "LEA_MR"
          [] m \in {"jnz", "jne", "je", "jmp"} -> "JCC8"
          [] m \in {"ret", "hlt", "nop", "syscall"} \/ ops = <<>> -> "NONE"
          [] m = "pop" -> "POP"
          [] m = "push" -> "PUSH"
          [] is(1, {"imm"}) /\ is(2, {"reg"}) -> IF ops[2].size = 1 THEN "IR8" ELSE "IR"
          [] is(1, {"reg"}) /\ is(2, {"reg"}) -> "RR"
          [] is(1, {"mem", "disp"}) /\ is(2, {"reg"}) -> "MR"
          [] is(1, {"reg"}) /\ is(2, {"mem", "disp"}) -> "RM"
          [] is(1, {"sib"}) /\ is(2, {"reg"}) -> "LEA_MI"
          [] OTHER -> "NONE"

Byte(v) == v % 256
E4(v) == <<Byte(v), Byte(v \div 256), Byte(v \div 65536), Byte(v \div 16777216)>>
Short(v) == v \in -128 .. 127
High(n) == IF n >= 8 THEN 1 ELSE 0
Rex(w, r, x, b) ==
    LET rex == 64 + 8 * w + 4 * High(r) + 2 * High(x) + High(b) IN IF rex = 64 THEN <<>> ELSE <<rex>>
ModRM(mod, reg, rm) == <<64 * mod + 8 * (reg % 8) + (rm % 8)>>
SibByte(scale, i, b) ==
    LET bits == CASE scale = 8 -> 3 [] scale = 4 -> 2 [] scale = 2 -> 1 [] OTHER -> 0
    IN  <<64 * bits + 8 * (i % 8) + (b % 8)>>
RspSib == SibByte(1, 4, 4)

\* A displacement of the length that it takes, after its ModRM byte.
WithDisp(reg, rm, sib, d) == IF Short(d) THEN ModRM(1, reg, rm) \o sib \o <<Byte(d)>> ELSE ModRM(2, reg, rm) \o sib \o E4(d)

\* Mutant: the base rbp is not told apart.
Load_Slip(o, reg) ==
    CASE o.reg = 4 -> IF o.kind = "mem" THEN ModRM(0, reg, 4) \o RspSib ELSE WithDisp(reg, 4, RspSib, o.imm)
      [] o.reg # 4 /\ o.kind = "disp" /\ o.imm # 0 -> WithDisp(reg, o.reg, <<>>, o.imm)
      [] OTHER -> ModRM(0, reg, o.reg)
\* The memory operand of a load.
Load(o, reg) ==
    CASE o.reg = 4 -> IF o.kind = "mem" THEN ModRM(0, reg, 4) \o RspSib ELSE WithDisp(reg, 4, RspSib, o.imm)
      [] o.kind = "disp" /\ o.reg # 4 -> IF o.imm = 0 THEN ModRM(0, reg, o.reg) ELSE WithDisp(reg, o.reg, <<>>, o.imm)
      [] o.reg = 5 -> ModRM(1, reg, 5) \o <<0>>
      [] OTHER -> ModRM(0, reg, o.reg)
\* A store knows no displacement.
Store(o, reg) == IF o.reg = 4 THEN ModRM(0, reg, 4) \o RspSib ELSE ModRM(0, reg, o.reg)
Address(o, reg) ==
    CASE o.reg = 4 -> WithDisp(reg, 4, RspSib, o.imm)
      [] o.imm = 0 /\ o.reg # 5 /\ o.reg # 4 -> ModRM(0, reg, o.reg)
      [] OTHER -> WithDisp(reg, o.reg, <<>>, o.imm)

\* encode_instr but for calls by name and jumps.  A second operand that is
\* missing counts as rax.
Encode(def, ops) ==
    LET fmt == def[2]
        op == def[3]
        ext == def[4]
        r0 == IF ops = <<>> THEN 0 ELSE ops[1].reg
        r1 == IF Len(ops) < 2 THEN 0 ELSE ops[2].reg
        wide == IF \E j \in DOMAIN ops : ops[j].size = 8 THEN 1 ELSE 0
        a == ops[1]
    IN  CASE fmt = "NONE" -> op
          [] fmt = "RR" -> Rex(wide, r0, 0, r1) \o op \o ModRM(3, r0, r1)
          [] fmt = "IR" -> Rex(1, ext, 0, r1) \o op \o ModRM(3, ext, r1) \o (IF op = <<131>> THEN <<Byte(a.imm)>> ELSE E4(a.imm))
          [] fmt = "IR8" -> <<Byte(op[1] + r1), Byte(a.imm)>>
          [] fmt = "MR" -> Rex(1, r1, 0, a.reg) \o op \o Load(a, r1)
          [] fmt = "RM" -> Rex(1, r0, 0, r1) \o op \o Store(ops[2], r0)
          [] fmt = "LEA_MR" -> Rex(1, r1, 0, a.reg) \o op \o Address(a, r1)
          [] fmt = "LEA_MI" -> Rex(1, r1, a.i, a.reg) \o op \o WithDisp(r1, 4, SibByte(a.scale, a.i, a.reg), a.imm)
          [] fmt = "CALL_IND" -> Rex(0, 0, 0, r0) \o op \o ModRM(3, ext, r0)
          [] fmt \in {"POP", "PUSH"} -> (IF r0 >= 8 THEN <<65>> ELSE <<>>) \o <<op[1] + (r0 % 8)>>

Symbol(x, offset, global, func, sect) ==
    [name |-> x, offset |-> offset, size |-> 0, global |-> global, func |-> func, sect |-> sect]
FindSym(syms, x) == SelectInSeq(syms, LAMBDA s : s.name = x)

\* A call by name: to the first symbol of that name, an undefined one if
\* there is none; the distance is left to the linker.
EncodeCall(a, x) ==
    LET known == FindSym(a.syms, x)
        syms == IF known # 0 THEN a.syms ELSE Append(a.syms, Symbol(x, 0, TRUE, TRUE, "undef"))
        i == IF known # 0 THEN known ELSE Len(syms)
    IN  [a EXCEPT !.syms = syms, !.code = @ \o <<232, 0, 0, 0, 0>>,
                  !.rels = Append(@, [offset |-> Len(a.code) + 1, sym |-> i, type |-> "PLT32", addend |-> -4])]

\* The offset of a numeric label, -1 if it has none yet: the last definition.
LocalOffset(a, n) ==
    LET i == SelectLastInSeq(a.offsets, LAMBDA o : o[1] = n) IN IF i = 0 THEN -1 ELSE a.offsets[i][2]
\* A jump to a numeric label, ahead (positive) or back.  The opcode is
\* written before the label is found wanting.
EncodeJump(a, op, n) ==
    LET here == Len(a.code) + 1
        target == LocalOffset(a, -n)
    IN  IF n > 0 THEN [a EXCEPT !.code = @ \o op \o <<0>>, !.fixups = Append(@, <<n, here>>)]
        ELSE IF n = 0 \/ target < 0 THEN [a EXCEPT !.code = @ \o op, !.errors = @ + 1]
        ELSE [a EXCEPT !.code = @ \o op \o <<Byte(target - (here + 1))>>]
LocalRef(line) ==
    IF line.ops # <<>> /\ line.ops[1].k = "near" THEN line.ops[1].n ELSE 0

----------------------------------------------------------------------------
(* tas_assemble, line by line                                              *)

ReadingLine(kinds) ==
    /\ asm.at = "read" /\ asm.next <= Len(asm.source) /\ asm.source[asm.next].k \in kinds
    /\ starts' = Append(starts, Len(asm.code))
AsmLine == asm.source[asm.next]
Onward(a) == [a EXCEPT !.next = @ + 1]

\* .globl and .type mark the next label, whatever name they give.
ReadDirective ==
    /\ ReadingLine({"globl", "extern", "type", "text", "hidden"})
    /\ asm' = Onward(CASE AsmLine.k = "globl" -> [asm EXCEPT !.global = TRUE]
                       [] AsmLine.k = "type" -> [asm EXCEPT !.func = TRUE]
                       [] AsmLine.k = "extern" -> [asm EXCEPT !.syms = Append(@, Symbol(AsmLine.x, 0, TRUE, TRUE, "undef"))]
                       [] OTHER -> asm)

\* The label before this one ends here.
EndLast(a) == IF a.last = 0 THEN a ELSE [a EXCEPT !.syms[a.last].size = Len(a.code) - a.syms[a.last].offset]

ReadLabel ==
    /\ ReadingLine({"label"})
    /\ LET ended == EndLast(asm)
       IN  asm' = Onward([ended EXCEPT !.syms = Append(@, Symbol(AsmLine.x, Len(asm.code), asm.global, asm.func, "text")),
                                       !.last = Len(ended.syms) + 1, !.global = FALSE, !.func = FALSE])

ReadNumber ==
    /\ ReadingLine({"number"})
    /\ asm' = Onward([asm EXCEPT !.offsets = Append(@, <<AsmLine.n, Len(asm.code)>>)])

\* An instruction that is not in the table is reported and left out; one
\* jump too many to a label ahead ends the program.
ReadInstr ==
    /\ ReadingLine({"instr"})
    /\ LET ops == AsmOperands(AsmLine)
           fmt == Format(AsmLine.m, ops)
           defs == {d \in InstrTable : d[1] = AsmLine.m /\ d[2] = fmt}
           def == CHOOSE d \in defs : TRUE
           ref == LocalRef(AsmLine)
           waiting == Len(SelectSeq(asm.fixups, LAMBDA f : f[1] = ref))
       IN  asm' = CASE defs = {} -> Onward([asm EXCEPT !.errors = @ + 1])
                    [] fmt = "JCC8" /\ ref > 0 /\ waiting = MaxFixups -> [asm EXCEPT !.at = "exited"]
                    [] fmt = "JCC8" -> Onward(EncodeJump(asm, def[3], ref))
                    [] fmt = "CALL_DIR" -> Onward(EncodeCall(asm, ops[1].x))
                    [] fmt \in {"LEA_MR", "LEA_MI"} /\ Len(ops) < 2 -> Onward([asm EXCEPT !.errors = @ + 1])
                    [] OTHER -> Onward([asm EXCEPT !.code = @ \o Encode(def, ops)])

\* Mutant: the distance is counted from the byte itself.
FillJumps_Slip(a) ==
    FoldLeft(LAMBDA b, f : LET target == LocalOffset(a, f[1]) IN
                 IF target < 0 THEN b ELSE [b EXCEPT !.code[f[2] + 1] = Byte(target - f[2])], a, a.fixups)
\* A jump to a label that never came keeps the distance 0.
FillJumps(a) ==
    FoldLeft(LAMBDA b, f : LET target == LocalOffset(a, f[1]) IN
                 IF target < 0 THEN b ELSE [b EXCEPT !.code[f[2] + 1] = Byte(target - (f[2] + 1))], a, a.fixups)

FinishText ==
    /\ asm.at = "read" /\ asm.next > Len(asm.source)
    /\ asm' = [EndLast(FillJumps(asm)) EXCEPT !.at = "write"]
    /\ UNCHANGED starts

\* Mutant: the relocations keep the numbers the assembler gave them.
Remapped_Slip(rels, order) == rels
Remapped(rels, order) == [i \in DOMAIN rels |-> [rels[i] EXCEPT !.sym = SelectInSeq(order, LAMBDA j : j = rels[i].sym)]]
\* elf_write_object: local symbols come first.
WriteObject ==
    /\ asm.at = "write"
    /\ LET is == [i \in DOMAIN asm.syms |-> i]
           order == SelectSeq(is, LAMBDA i : ~asm.syms[i].global) \o SelectSeq(is, LAMBDA i : asm.syms[i].global)
       IN  asm' = [asm EXCEPT !.at = "written", !.syms = [i \in DOMAIN order |-> asm.syms[order[i]]],
                              !.rels = Remapped(@, order)]
    /\ UNCHANGED starts

AsmNext == ReadDirective \/ ReadLabel \/ ReadNumber \/ ReadInstr \/ FinishText \/ WriteObject

----------------------------------------------------------------------------
(* What the processor makes of the code: a decoder for the instructions    *)
(* above and their neighbours.                                             *)

Signed8(b) == IF b >= 128 THEN b - 256 ELSE b
Signed32(s) == s[1] + 256 * s[2] + 65536 * s[3] + 16777216 * Signed8(s[4])
BitOf(v, i) == (v \div 2 ^ i) % 2

Decoded(m, size, ops, len) == [m |-> m, size |-> size, ops |-> ops, len |-> len]
\* The register or memory operand that a ModRM byte at p begins.
DecodeRM(c, p, rexX, rexB) ==
    LET mod == c[p] \div 64
        rm == c[p] % 8
        sib == c[p + 1]
        q == IF rm = 4 THEN p + 2 ELSE p + 1
        base == 8 * rexB + (IF rm = 4 THEN sib % 8 ELSE rm)
        index == 8 * rexX + ((sib \div 8) % 8)
        noBase == mod = 0 /\ base % 8 = 5
        d == CASE mod = 1 -> Signed8(c[q]) [] mod = 2 \/ noBase -> Signed32(SubSeq(c, q, q + 3)) [] OTHER -> 0
        end == CASE mod = 1 -> q + 1 [] mod = 2 \/ noBase -> q + 4 [] OTHER -> q
    IN  IF mod = 3 THEN [o |-> <<"reg", 8 * rexB + rm>>, next |-> p + 1]
        ELSE [o |-> <<"mem", IF noBase THEN -1 ELSE base, IF rm # 4 \/ index = 4 THEN <<>> ELSE <<index, 2 ^ (sib \div 64)>>, d>>,
              next |-> end]

\* The instruction at the place p (counted from 1).
Decode(c, p) ==
    LET rexed == c[p] \div 16 = 4
        rex == IF rexed THEN c[p] ELSE 64
        q == IF rexed THEN p + 1 ELSE p
        op == c[q]
        reg == <<"reg", 8 * BitOf(rex, 2) + ((c[q + 1] \div 8) % 8)>>
        ext == (c[q + 1] \div 8) % 8
        rm == DecodeRM(c, q + 1, BitOf(rex, 1), BitOf(rex, 0))
        low == 8 * BitOf(rex, 0) + (op % 8)
        size == IF BitOf(rex, 3) = 1 THEN 8 ELSE 4
        none == Decoded("other", 0, <<>>, 0)
    IN  CASE op \in {137, 49, 133} ->
               Decoded(CASE op = 137 -> "mov" [] op = 49 -> "xor" [] OTHER -> "test", size, <<reg, rm.o>>, rm.next - p)
          [] op = 139 -> Decoded("mov", size, <<rm.o, reg>>, rm.next - p)
          [] op = 141 -> Decoded("lea", size, <<rm.o, reg>>, rm.next - p)
          [] op = 199 -> Decoded("mov", size, <<<<"imm", Signed32(SubSeq(c, rm.next, rm.next + 3))>>, rm.o>>, rm.next + 4 - p)
          [] op = 131 -> Decoded(CASE ext = 4 -> "and" [] ext = 5 -> "sub" [] OTHER -> "other", size,
                                 <<<<"imm", Signed8(c[rm.next])>>, rm.o>>, rm.next + 1 - p)
          [] op \in 176 .. 183 ->
               Decoded("mov", 1, <<<<"imm", c[q + 1]>>, IF low \in 4 .. 7 /\ ~rexed THEN <<"high", low - 4>> ELSE <<"reg", low>>>>, q + 2 - p)
          [] op = 232 -> Decoded("call", 8, <<<<"near", q + 4 + Signed32(SubSeq(c, q + 1, q + 4))>>>>, q + 5 - p)
          [] op = 255 /\ ext = 2 -> Decoded("call", 8, <<rm.o>>, rm.next - p)
          [] op \in {117, 116, 235} ->
               Decoded(CASE op = 117 -> "jnz" [] op = 116 -> "je" [] OTHER -> "jmp", 8, <<<<"near", q + 1 + Signed8(c[q + 1])>>>>, q + 2 - p)
          [] op \in 88 .. 95 -> Decoded("pop", 8, <<<<"reg", low>>>>, q + 1 - p)
          [] op \in 80 .. 87 -> Decoded("push", 8, <<<<"reg", low>>>>, q + 1 - p)
          [] op = 15 -> Decoded("syscall", 8, <<>>, q + 2 - p)
          [] op \in {244, 195, 144} -> Decoded(CASE op = 244 -> "hlt" [] op = 195 -> "ret" [] OTHER -> "nop", 8, <<>>, q + 1 - p)
          [] OTHER -> none

----------------------------------------------------------------------------
(* What the source means                                                   *)

HexMeans(digits) == FoldLeft(LAMBDA v, x : v * 16 + x, 0, digits)
MeansOperand(o) ==
    CASE o.k = "reg" -> <<"reg", o.n>>
      [] o.k = "imm" -> <<"imm", o.v>>
      [] o.k = "hex" -> <<"imm", HexMeans(o.digits)>>
      [] o.k = "mem" -> <<"mem", o.b, IF o.i = -1 THEN <<>> ELSE <<o.i, o.scale>>, o.d>>
      [] o.k = "ind" -> <<"reg", o.n>>
\* The size of an instruction is that of its registers.
MeansSize(line) ==
    LET regs == {j \in DOMAIN line.ops : line.ops[j].k = "reg"}
    IN  IF regs = {} THEN 8 ELSE line.ops[CHOOSE j \in regs : TRUE].size
Mnemonic(m) == IF m = "jne" THEN "jnz" ELSE m

\* The definition of a numeric label that a jump on line l means.
MeansLine(src, l) ==
    LET n == src[l].ops[1].n
        defs == {j \in DOMAIN src : src[j].k = "number" /\ src[j].n = (IF n > 0 THEN n ELSE -n) /\ (j > l) = (n > 0)}
    IN  IF defs = {} THEN 0 ELSE CHOOSE j \in defs : \A i \in defs : IF n > 0 THEN j <= i ELSE j >= i

\* What toyas gets right.  The bases r12 and r13 and, in a store or with a
\* displacement of 0 written out, rbp need bytes it does not write; a store
\* loses its displacement; immediates of and and sub have eight bits; only
\* moves from register to register know 32 bits; bytes are only moved, from an
\* immediate to al, cl, dl or bl; a hexadecimal digit below ten behind a letter is lost.
Handled(line) ==
    LET ops == line.ops
        m == line.m
        size == MeansSize(line)
        mems == {ops[j] : j \in {j \in DOMAIN ops : ops[j].k = "mem"}}
        store == Len(ops) = 2 /\ ops[2].k = "mem"
        moves == Len(ops) = 2 /\ \A j \in DOMAIN ops : ops[j].k = "reg"
    IN  /\ \A j \in DOMAIN ops : ops[j].k = "reg" => KnownReg(ops[j])
        /\ \A j \in DOMAIN ops : ops[j].k = "hex" => HexValue(ops[j].digits) = HexMeans(ops[j].digits)
        /\ \A o \in mems : IF o.i >= 0 THEN m = "lea"
                           ELSE /\ o.b # 12
                                /\ o.b = 13 => ~store /\ o.d # 0
                                /\ o.b = 5 /\ m = "mov" => ~store /\ (o.plain \/ o.d # 0)
        /\ store => ops[2].d = 0
        /\ m \in {"and", "sub"} => Short(ParseOperand(ops[1]).imm)
        /\ size = 4 => moves
        /\ size = 1 => m = "mov" /\ ops[1].k \in {"imm", "hex"} /\ ops[2].n < 4

LineEnd(l) == IF l = Len(starts) THEN Len(asm.code) ELSE starts[l + 1]
\* The instruction that was written for a line; nops follow the code.
Emitted(l) == Decode(asm.code \o [i \in 1 .. 16 |-> 144], starts[l] + 1)
Right(l) ==
    LET line == asm.source[l]
        d == Emitted(l)
    IN  LineEnd(l) > starts[l] /\ d.m = Mnemonic(line.m) /\ d.size = MeansSize(line)
          /\ d.ops = [j \in DOMAIN line.ops |-> MeansOperand(line.ops[j])] /\ d.len = LineEnd(l) - starts[l]

LinesOf(k) == {l \in DOMAIN starts : asm.source[l].k = k}
AsmJumps == {l \in LinesOf("instr") : asm.source[l].m \in {"jnz", "jne", "je", "jmp"}}
NamedCalls == {l \in LinesOf("instr") : asm.source[l].m = "call" /\ asm.source[l].ops[1].k = "name"}

\* A numeric label that a jump ahead means must be the last of its number (or
\* stand at the same place).
JumpHandled(l) ==
    LET n == asm.source[l].ops[1].n
        j == MeansLine(asm.source, l)
    IN  /\ j # 0
        /\ n > 0 => \A i \in LinesOf("number") : i > j /\ asm.source[i].n = n => starts[i] = starts[j]
        /\ Short(starts[j] - LineEnd(l))
JumpRight(l) ==
    /\ LineEnd(l) - starts[l] = 2
    /\ Emitted(l).m = Mnemonic(asm.source[l].m)
    /\ MeansLine(asm.source, l) # 0
    /\ Emitted(l).ops[1][2] = starts[MeansLine(asm.source, l)]

\* A call refers to a symbol of its name.  A label of the file that was named
\* by a call or by .extern before it stood there has two symbols, and the
\* undefined one, to which every call then refers, finds it only if it is
\* global.
CallRight(l) ==
    \E r \in ToSet(asm.rels) :
        /\ r.offset = starts[l] + 1 /\ Emitted(l).m = "call" /\ r.addend = -4
        /\ LET s == asm.syms[r.sym]
               x == asm.source[l].ops[1].x
               labels == {j \in LinesOf("label") : asm.source[j].x = x}
               named == {i \in LinesOf("extern") : asm.source[i].x = x} \cup {i \in NamedCalls : asm.source[i].ops[1].x = x}
           IN  /\ s.name = x
               /\ IF s.sect = "text" THEN \E j \in labels : s.offset = starts[j]
                  ELSE s.global /\ \A j \in labels : \E i \in named : i < j

\* Each .globl stands before the label it names, and no other in between.
OrderlyGlobals ==
    \A i \in LinesOf("globl") :
        \E j \in LinesOf("label") : j > i /\ asm.source[j].x = asm.source[i].x /\ \A h \in LinesOf("label") : h \notin i .. j - 1
SymbolsRight ==
    /\ \A i, j \in DOMAIN asm.syms : i < j /\ asm.syms[i].global => asm.syms[j].global
    /\ \A j \in LinesOf("label") :
           \E s \in ToSet(asm.syms) :
               /\ s.name = asm.source[j].x /\ s.sect = "text" /\ s.offset = starts[j]
               /\ s.offset + s.size \in {Len(asm.code)} \cup {starts[h] : h \in LinesOf("label")}
               /\ \A h \in LinesOf("label") : starts[h] > starts[j] => s.offset + s.size <= starts[h]
               /\ OrderlyGlobals => (s.global <=> \E i \in LinesOf("globl") : asm.source[i].x = s.name)

\* The object holds for each instruction of the source the instruction that
\* it means, for a jump one to the place it means, for a call a relocation on
\* its callee, and the symbols of its labels: exactly for the lines that
\* toyas handles, the others come out wrong or not at all.
AssemblerSound ==
    asm.at = "written" =>
        /\ \A l \in LinesOf("instr") \ (AsmJumps \cup NamedCalls) : Right(l) <=> Handled(asm.source[l])
        /\ \A l \in AsmJumps : JumpRight(l) <=> JumpHandled(l)
        /\ \A l \in NamedCalls : CallRight(l)
        /\ SymbolsRight
=============================================================================
