----------------------------- MODULE InsnDecode -----------------------------
(***************************************************************************)
(* The processor's side of InsnForm: the 64-bit opcode map of the          *)
(* instructions qas knows (Intel SDM Vol 2, the opcode tables and 2.2.1),  *)
(* from the bytes to the operation they stand for, and what an encoding    *)
(* must satisfy.                                                           *)
(***************************************************************************)
EXTENDS InsnForm

OperandSize(c) == IF c.w THEN 64 ELSE IF c.p66 THEN 16 ELSE 32

Bit(b) == IF b THEN 1 ELSE 0

\* A byte register numbered 4 to 7 is a high byte unless there is a REX prefix.
RegAt(c, n, low, ext) ==
  IF n = 8 /\ ~c.rex /\ low \in 4 .. 7 THEN HighByte(low) ELSE Register(low + 8 * Bit(ext), n)

G(c, n)     == RegAt(c, n, c.reg, c.r)
OpReg(c, n) == RegAt(c, n, c.opcode % 8, c.b)
E(c, n)     == LET rm == CHOOSE rm \in c.rm : TRUE IN
               IF rm.mode = "reg" THEN RegAt(c, n, rm.low, c.b)
               ELSE Memory([rm.addr EXCEPT !.ext = Bit(c.b)], n)
Acc(n)      == Register(0, n)

\* An immediate field of that many bytes in an operation on n bits.
Imm(bytes, n) == [kind |-> "imm", bytes |-> bytes, size |-> n, fixup |-> {"ABS32S", "ABS64"}]
Rel(bytes)    == [Imm(bytes, 64) EXCEPT !.fixup = {"PC32"}]
Full(n)       == Imm(n \div 8, n)
Iz(n)         == Imm(IF n \in {8, 16} THEN n \div 8 ELSE 4, n)
ImplicitOne   == [kind |-> "one"]
AnyMemory(m)  == [m EXCEPT !.size = 0]

Op(names, operands) == [names |-> names, ops |-> operands]

ArithNames == <<"add", "or", "adc", "sbb", "and", "sub", "xor", "cmp">>
ShiftNames == <<"rol", "ror", "rcl", "rcr", "shl", "shr", "sal", "sar">>
Group3     == <<"test", "test", "not", "neg", "mul", "imul", "div", "idiv">>
Group5     == <<"inc", "dec", "call", "callf", "jmp", "jmpf", "push", "undefined">>
ConditionNames ==
  << {"jo"}, {"jno"}, {"jb", "jc", "jnae"}, {"jae", "jnb", "jnc"}, {"je", "jz"},
     {"jne", "jnz"}, {"jbe", "jna"}, {"ja", "jnbe"}, {"js"}, {"jns"}, {"jp", "jpe"},
     {"jnp", "jpo"}, {"jl", "jnge"}, {"jge", "jnl"}, {"jle", "jng"}, {"jg", "jnle"} >>

Decode(c) ==
  LET op == c.opcode
      n  == OperandSize(c)
      b  == IF op % 2 = 0 THEN 8 ELSE n    \* the low bit of most opcodes
      arith(g) == {ArithNames[g + 1]}
  IN CASE op < \h40 /\ op % 8 \in {0, 1} -> Op(arith(op \div 8), << E(c, b), G(c, b) >>)
       [] op < \h40 /\ op % 8 \in {2, 3} -> Op(arith(op \div 8), << G(c, b), E(c, b) >>)
       [] op < \h40 /\ op % 8 \in {4, 5} -> Op(arith(op \div 8), << Acc(b), Iz(b) >>)
       [] op \in \h50 .. \h57   -> Op({"push"}, << OpReg(c, 64) >>)
       [] op \in \h58 .. \h5F   -> Op({"pop"}, << OpReg(c, 64) >>)
       [] op = \h68             -> Op({"push"}, << Imm(4, 64) >>)
       [] op = \h6A             -> Op({"push"}, << Imm(1, 64) >>)
       [] op \in \h70 .. \h7F   -> Op(ConditionNames[(op % 16) + 1], << Rel(1) >>)
       [] op \in {\h80, \h81}   -> Op(arith(c.reg), << E(c, b), Iz(b) >>)
       [] op = \h83             -> Op(arith(c.reg), << E(c, n), Imm(1, n) >>)
       [] op \in {\h84, \h85}   -> Op({"test"}, << E(c, b), G(c, b) >>)
       [] op \in {\h88, \h89}   -> Op({"mov"}, << E(c, b), G(c, b) >>)
       [] op \in {\h8A, \h8B}   -> Op({"mov"}, << G(c, b), E(c, b) >>)
       [] op = \h8D             -> Op({"lea"}, << G(c, n), AnyMemory(E(c, n)) >>)
       [] op = \h8F             -> Op({"pop"}, << E(c, 64) >>)
       [] op = \h90             -> Op({"nop"}, << >>)
       [] op = \h99             -> Op({IF n = 64 THEN "cqo" ELSE "cdq"}, << >>)
       [] op \in {\hA8, \hA9}   -> Op({"test"}, << Acc(b), Iz(b) >>)
       [] op \in \hB0 .. \hB7   -> Op({"mov"}, << OpReg(c, 8), Full(8) >>)
       [] op \in \hB8 .. \hBF   -> Op({"mov"}, << OpReg(c, n), Full(n) >>)
       [] op \in {\hC0, \hC1}   -> Op({ShiftNames[c.reg + 1]}, << E(c, b), Full(8) >>)
       [] op = \hC3             -> Op({"ret"}, << >>)
       [] op \in {\hC6, \hC7}   -> Op({"mov"}, << E(c, b), Iz(b) >>)
       [] op = \hC9             -> Op({"leave"}, << >>)
       [] op = \hCC             -> Op({"int3"}, << >>)
       [] op = \hCD             -> Op({"int"}, << Full(8) >>)
       [] op \in {\hD0, \hD1}   -> Op({ShiftNames[c.reg + 1]}, << E(c, b), ImplicitOne >>)
       [] op \in {\hD2, \hD3}   -> Op({ShiftNames[c.reg + 1]}, << E(c, b), Register(1, 8) >>)
       [] op = \hE8             -> Op({"call"}, << Rel(4) >>)
       [] op = \hE9             -> Op({"jmp"}, << Rel(4) >>)
       [] op = \hEB             -> Op({"jmp"}, << Rel(1) >>)
       [] op = \hF4             -> Op({"hlt"}, << >>)
       [] op \in {\hF6, \hF7}   -> Op({Group3[c.reg + 1]},
                                      IF c.reg < 2 THEN << E(c, b), Iz(b) >> ELSE << E(c, b) >>)
       [] op \in {\hFE, \hFF}   -> Op({Group5[c.reg + 1]},
                                      << E(c, IF c.reg < 2 THEN b ELSE 64) >>)
       [] op = \h105            -> Op({"syscall"}, << >>)
       [] op = \h10B            -> Op({"ud2"}, << >>)
       [] op = \h1A2            -> Op({"cpuid"}, << >>)
       [] op \in \h180 .. \h18F -> Op(ConditionNames[(op % 16) + 1], << Rel(4) >>)

-----------------------------------------------------------------------------
(* What was written against what the processor reads. *)

Extended(v, n) == IF v < Half[n] THEN v ELSE v - 2 * Half[n]

\* The field stands for what was written, as far as the operation can tell.
SameImm(c, o, d) ==
  IF o.symbol THEN c.fixup \in d.fixup
  ELSE c.fixup = "none" /\ (o.value - Extended(c.value, 8 * d.bytes)) % (2 * Half[d.size]) = 0

\* A memory operand written without a size takes the operation's.
Same(c, o, d) ==
  CASE d.kind = "reg" -> o = d
    [] d.kind = "mem" -> o.kind = "mem" /\ o.addr = d.addr /\ (0 \in {o.size, d.size} \/ o.size = d.size)
    [] d.kind = "one" -> o = Literal(1)
    [] d.kind = "imm" -> o.kind = "imm" /\ SameImm(c, o, d)

\* Bytes of immediate the processor takes.
WidthRead(d) ==
  LET imms == {k \in DOMAIN d.ops : d.ops[k].kind = "imm"}
  IN IF imms = {} THEN 0 ELSE d.ops[CHOOSE k \in imms : TRUE].bytes

ReadsAs(c, mn, os) ==
  LET d == Decode(c)
  IN /\ mn \in d.names
     /\ Len(d.ops) = Len(os) /\ \A k \in DOMAIN os : Same(c, os[k], d.ops[k])
     /\ WidthRead(d) = c.width

-----------------------------------------------------------------------------

Encoded == phase = "encoded"

\* encoder.c: "a 32-bit immediate that is sign-extended to 64 bits must fit
\* a signed 32-bit field", and so for every field the processor extends.
SignedFieldsFit ==
  Encoded => \A k \in DOMAIN ops : LET d == Decode(code).ops[k] IN
     d.kind = "imm" /\ 8 * d.bytes < d.size /\ ops[k].kind = "imm" /\ ~ops[k].symbol
       => Signed(ops[k], 8 * d.bytes)

\* Whatever row was chosen, prefixed and filled: where the rule above was
\* kept, the processor reads the instruction that was written, with its
\* operand size, its registers (high bytes and those a REX prefix turns them
\* into apart), its immediate and not a byte more or less than was emitted.
DecodesAsWritten == Encoded /\ SignedFieldsFit => ReadsAs(code, mnem, ops)

\* The length of an instruction but for its SIB and displacement, which no
\* row changes.
Length(c) == Bit(c.p66) + Bit(c.rex) + (IF c.opcode >= \h100 THEN 2 ELSE 1)
             + Bit(c.modrm) + c.width

\* The rows that would encode these operands, had they been chosen.
Usable == {f \in Range(Forms(mnem)) :
             ~Conflict(ops) /\ Matches(f, ops) /\ RexOK(f, ops) /\ ImmOK(f, ops)}

\* encoder README: the first row that matches is taken, and the rows are
\* ordered "shortest/most specific first": so none would have been shorter,
\* and where the row taken is refused no other would have done.
FirstIsBest ==
  /\ Encoded => \A f \in Usable : Length(code) <= Length(WithImm(f, ops, Fields(f, ops)))
  /\ phase = "rejected" => Usable = {}

\* The layout InsnLayout takes an instruction to have.
Shape == INSTANCE InsnLayout WITH Sym <- {"symbol"}

Part(mode, width) == [mode |-> mode, width |-> width, sym |-> "symbol", add |-> 0]

Address == IF code.modrm THEN LET rm == CHOOSE rm \in code.rm : TRUE
                              IN IF rm.mode = "mem" THEN {rm.addr} ELSE {}
           ELSE {}

LayoutOf(c) ==
  [head |-> Length(c) - c.width + IF \E a \in Address : a.sib THEN 1 ELSE 0,
   disp |-> IF Address = {} THEN Part("none", 0)
            ELSE LET a == CHOOSE a \in Address : TRUE IN Part(a.mode, a.width),
   imm  |-> CASE c.width = 0            -> Part("none", 0)
              [] c.width # 0 /\ c.fixup = "none" -> Part("value", c.width)
              [] c.fixup = "PC32"       -> Part("rel", c.width)
              [] c.fixup \in {"ABS32S", "ABS64"} -> Part("abs", c.width)]

\* Every instruction the table can produce is one of those the driver is
\* checked against, within the 15 bytes of qas_encoded; a symbol in it stands
\* in a field its fixup fills.
LayoutsCovered ==
  Encoded => LayoutOf(code) \in Shape!Insn /\ Shape!Encodable(LayoutOf(code))
=============================================================================
