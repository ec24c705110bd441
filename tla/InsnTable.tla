----------------------------- MODULE InsnTable ------------------------------
(***************************************************************************)
(* The form table (encoder/internal/insn_table.c): for each mnemonic its   *)
(* rows, in the order the selection tries them.                            *)
(*                                                                         *)
(* An opcode of \h100 and more stands behind a \h0F byte.  wide says where *)
(* 66 and REX.W come from: the operand size, the row itself, or nowhere.   *)
(***************************************************************************)
EXTENDS Integers, Sequences

Row(pattern, enc, opcode, ext, wide, imm) ==
  [pattern |-> pattern, enc |-> enc, opcode |-> opcode, ext |-> ext, wide |-> wide, imm |-> imm]

Bare(pattern, enc, opcode, imm)  == Row(pattern, enc, opcode, 0, "fixed", imm)
Sized(pattern, enc, opcode, imm) == Row(pattern, enc, opcode, 0, "size", imm)

\* Two rows that differ in the low bit of the opcode: bytes, then other sizes.
ByteAndSized(second, enc, opcode, ext, imms) ==
  << Row(<<"RM8">> \o second[1], enc, opcode, ext, "fixed", imms[1]),
     Row(<<"RMV">> \o second[2], enc, opcode + 1, ext, "size", imms[2]) >>

NoImms == <<"none", "none">>

MovForms ==
  ByteAndSized(<< <<"R8">>, <<"RV">> >>, "MR", \h88, 0, NoImms) \o
  << Bare(<<"R8", "RM8">>, "RM", \h8A, "none"),
     Sized(<<"RV", "RMV">>, "RM", \h8B, "none"),
     Row(<<"RM64", "Imm32">>, "MI", \hC7, 0, "rexw", "Iv"),
     Bare(<<"R8", "Imm8">>, "OI", \hB0, "Ib"),
     Sized(<<"RV", "Imm64">>, "OI", \hB8, "Iov") >> \o
  ByteAndSized(<< <<"Imm8">>, <<"ImmV">> >>, "MI", \hC6, 0, <<"Ib", "Iv">>)

ArithGroup == [add |-> 0, or |-> 1, adc |-> 2, sbb |-> 3, and |-> 4, sub |-> 5, xor |-> 6, cmp |-> 7]

ArithShort(g) == Row(<<"RMV", "Imm8S">>, "MI", \h83, g, "size", "Ib")
ArithAccumulator(g) == << Bare(<<"AL", "Imm8">>, "I", 8 * g + 4, "Ib"),
                          Sized(<<"rAX", "ImmV">>, "I", 8 * g + 5, "Iv") >>
ArithLong(g) == ByteAndSized(<< <<"Imm8">>, <<"ImmV">> >>, "MI", \h80, g, <<"Ib", "Iv">>)
ArithRegs(g) ==
  ByteAndSized(<< <<"R8">>, <<"RV">> >>, "MR", 8 * g, 0, NoImms) \o
  << Bare(<<"R8", "RM8">>, "RM", 8 * g + 2, "none"),
     Sized(<<"RV", "RMV">>, "RM", 8 * g + 3, "none") >>

\* Fault: the sign-extended byte form comes last.
ArithLongFirst(g) ==
  ArithRegs(g) \o ArithAccumulator(g) \o ArithLong(g) \o <<ArithShort(g)>>

ArithForms(g) ==
  ArithRegs(g) \o <<ArithShort(g)>> \o ArithAccumulator(g) \o ArithLong(g)

TestForms ==
  ByteAndSized(<< <<"R8">>, <<"RV">> >>, "MR", \h84, 0, NoImms) \o
  << Bare(<<"AL", "Imm8">>, "I", \hA8, "Ib"), Sized(<<"rAX", "ImmV">>, "I", \hA9, "Iv") >> \o
  ByteAndSized(<< <<"Imm8">>, <<"ImmV">> >>, "MI", \hF6, 0, <<"Ib", "Iv">>)

UnaryGroup  == [not |-> 2, neg |-> 3, mul |-> 4, imul |-> 5, div |-> 6, idiv |-> 7]
IncDecGroup == [inc |-> 0, dec |-> 1]
ShiftGroup  == [shl |-> 4, shr |-> 5, sar |-> 7]

OneOperand(opcode, n) == ByteAndSized(<< <<>>, <<>> >>, "M", opcode, n, NoImms)

ShiftForms(n) ==
  ByteAndSized(<< <<"One">>, <<"One">> >>, "M1", \hD0, n, NoImms) \o
  ByteAndSized(<< <<"CL">>, <<"CL">> >>, "MC", \hD2, n, NoImms) \o
  ByteAndSized(<< <<"Imm8">>, <<"Imm8">> >>, "MI", \hC0, n, <<"Ib", "Ib">>)

StackForms ==
  [push |-> << Bare(<<"R64">>, "O", \h50, "none"), Bare(<<"Imm8">>, "I", \h6A, "Ib"),
               Bare(<<"Imm32">>, "I", \h68, "Id"), Row(<<"RM64">>, "M", \hFF, 6, "fixed", "none") >>,
   pop  |-> << Bare(<<"R64">>, "O", \h58, "none"), Bare(<<"RM64">>, "M", \h8F, "none") >>]

Short(opcode) == Bare(<<"Rel8">>, "D", opcode, "Rel8")
Near(opcode)  == Bare(<<"Rel32">>, "D", opcode, "Rel32")

BranchForms ==
  [call |-> << Near(\hE8), Row(<<"RM64">>, "M", \hFF, 2, "fixed", "none") >>,
   jmp  |-> << Short(\hEB), Near(\hE9), Row(<<"RM64">>, "M", \hFF, 4, "fixed", "none") >>]

Condition ==
  [jo |-> 0, jno |-> 1, jb |-> 2, jc |-> 2, jnae |-> 2, jae |-> 3, jnb |-> 3, jnc |-> 3,
   je |-> 4, jz |-> 4, jne |-> 5, jnz |-> 5, jbe |-> 6, jna |-> 6, ja |-> 7, jnbe |-> 7,
   js |-> 8, jns |-> 9, jp |-> 10, jpe |-> 10, jnp |-> 11, jpo |-> 11, jl |-> 12,
   jnge |-> 12, jge |-> 13, jnl |-> 13, jle |-> 14, jng |-> 14, jg |-> 15, jnle |-> 15]

JccForms(cc) == << Short(\h70 + cc), Near(\h180 + cc) >>

PlainOpcode ==
  [ret |-> \hC3, leave |-> \hC9, nop |-> \h90, hlt |-> \hF4, int3 |-> \hCC, cdq |-> \h99,
   syscall |-> \h105, cpuid |-> \h1A2, ud2 |-> \h10B]

Forms(mn) ==
  CASE mn = "mov"  -> MovForms
    [] mn = "lea"  -> << Sized(<<"RV", "M">>, "RM", \h8D, "none") >>
    [] mn = "test" -> TestForms
    [] mn = "cqo"  -> << Row(<<>>, "ZO", \h99, 0, "rexw", "none") >>
    [] mn = "int"  -> << Bare(<<"Imm8">>, "I", \hCD, "Ib") >>
    [] mn \in DOMAIN ArithGroup  -> ArithForms(ArithGroup[mn])
    [] mn \in DOMAIN UnaryGroup  -> OneOperand(\hF6, UnaryGroup[mn])
    [] mn \in DOMAIN IncDecGroup -> OneOperand(\hFE, IncDecGroup[mn])
    [] mn \in DOMAIN ShiftGroup  -> ShiftForms(ShiftGroup[mn])
    [] mn \in DOMAIN StackForms  -> StackForms[mn]
    [] mn \in DOMAIN BranchForms -> BranchForms[mn]
    [] mn \in DOMAIN Condition   -> JccForms(Condition[mn])
    [] mn \in DOMAIN PlainOpcode -> << Bare(<<>>, "ZO", PlainOpcode[mn], "none") >>
    [] OTHER -> << >>   \* an unknown mnemonic
=============================================================================
