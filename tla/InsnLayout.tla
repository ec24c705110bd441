----------------------------- MODULE InsnLayout -----------------------------
(***************************************************************************)
(* What qas_encode (encoder.c) hands to the driver: how long an            *)
(* instruction is, and where in it the fields that depend on a symbol lie. *)
(*                                                                         *)
(* The bytes are emitted in one fixed order: prefixes, opcode, ModR/M and  *)
(* SIB (together the head), then the displacement, then the immediate.     *)
(* Which opcode was chosen is left out; every combination of field widths  *)
(* and symbolic operands the form table can select is a member of Insn.    *)
(***************************************************************************)
EXTENDS Integers, Sequences

CONSTANT Sym          \* symbol names

MaxInsnLen == 15      \* QAS_INSN_MAX_LEN, the architectural limit

(***************************************************************************)
(* A displacement or immediate field.  mode "value" is a constant, "rip" a *)
(* RIP-relative displacement, "rel" a branch target, "abs" the absolute    *)
(* address of sym; add is the constant the source adds to the symbol.      *)
(***************************************************************************)
Field(modes, widths) == [mode : modes, width : widths, sym : Sym, add : Int]

DispField == Field({"none"}, {0}) \cup Field({"value"}, {1, 4})
             \cup Field({"rip", "abs"}, {4})

ImmField  == Field({"none"}, {0}) \cup Field({"value"}, {1, 2, 4, 8})
             \cup Field({"rel"}, {4}) \cup Field({"abs"}, {2, 4, 8})

InsnLen(i) == i.head + i.disp.width + i.imm.width

Insn == {i \in [head : 1 .. 7, disp : DispField, imm : ImmField] :
            InsnLen(i) <= MaxInsnLen}

IsSymbolic(f) == f.mode \in {"rip", "rel", "abs"}

(***************************************************************************)
(* A symbol has no 16-bit relocation here, so a symbolic immediate must be *)
(* 4 or 8 bytes wide; otherwise qas_encode reports QAS_ERR_ENCODE.         *)
(***************************************************************************)
Encodable(i) == i.imm.mode = "abs" => i.imm.width \in {4, 8}

(***************************************************************************)
(* The fixups, at most one per field, in emission order.  A displacement's *)
(* PC-relative addend counts back over its own 4 bytes and over the        *)
(* immediate that follows it, because RIP is the next instruction.         *)
(***************************************************************************)
DispFixup(i) ==
  [offset |-> i.head,
   kind   |-> IF i.disp.mode = "rip" THEN "PC32" ELSE "ABS32S",
   sym    |-> i.disp.sym,
   addend |-> IF i.disp.mode = "rip" THEN i.disp.add - (4 + i.imm.width)
                                     ELSE i.disp.add]

\* Fault: the immediate's offset forgets the displacement before it.
ImmFixupAtHead(i) ==
  [offset |-> i.head,
   kind   |-> IF i.imm.mode = "rel" THEN "PC32"
              ELSE IF i.imm.width = 8 THEN "ABS64" ELSE "ABS32S",
   sym    |-> i.imm.sym,
   addend |-> IF i.imm.mode = "rel" THEN i.imm.add - i.imm.width
                                    ELSE i.imm.add]

ImmFixup(i) ==
  [offset |-> i.head + i.disp.width,
   kind   |-> IF i.imm.mode = "rel" THEN "PC32"
              ELSE IF i.imm.width = 8 THEN "ABS64" ELSE "ABS32S",
   sym    |-> i.imm.sym,
   addend |-> IF i.imm.mode = "rel" THEN i.imm.add - i.imm.width
                                    ELSE i.imm.add]

Fixups(i) ==
  (IF IsSymbolic(i.disp) THEN <<DispFixup(i)>> ELSE <<>>) \o
  (IF IsSymbolic(i.imm)  THEN <<ImmFixup(i)>>  ELSE <<>>)

FixKind == {"PC32", "ABS32S", "ABS32", "ABS64"}

\* Bytes of the field a fixup of this kind fills.
FieldWidth(kind) == IF kind = "ABS64" THEN 8 ELSE 4
=============================================================================
