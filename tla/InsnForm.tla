------------------------------ MODULE InsnForm ------------------------------
(***************************************************************************)
(* One instruction through the encoder: the operands the parser collected, *)
(* the row of the form table they select (encoder/internal/insn_table.c),  *)
(* and the fields the engine fills from that row (encoder/encoder.c,       *)
(* qas_encode).                                                            *)
(*                                                                         *)
(* A memory operand's ModR/M, SIB and displacement are MemOperand's        *)
(* subject: here it is a size hint, the REX bit it needs, and the widths   *)
(* and symbol of its fields.  Integers are scaled down: an n-bit field     *)
(* holds 2 * Half[n] values, and a 64-bit one every literal there is.      *)
(***************************************************************************)
EXTENDS InsnTable, FiniteSetsExt, Functions

CONSTANTS
  Mnemonics,    \* bound: the mnemonics of this instance
  RegOps,       \* registers written
  Addresses,    \* memory operands written, without their size
  Hints,        \* their sizes, 0 for none
  Values,       \* literals written
  Half,         \* half the values of an 8-, 16-, 32- and 64-bit field
  MaxOperands   \* bound on the operands of an instruction

Sizes == {8, 16, 32, 64}

ASSUME InsnFormAssumption ==
  /\ Half \in [Sizes -> Nat] /\ 1 < Half[8]
  /\ Half[8] < Half[16] /\ Half[16] < Half[32] /\ Half[32] < Half[64]
  /\ Values \subseteq -Half[64] .. Half[64] - 1
  /\ MaxOperands \in 0 .. 4

\* qas_reg: high is set for ah, ch, dh and bh; rip has size 0.
Register(n, size) == [kind |-> "reg", num |-> n, size |-> size, high |-> FALSE]
HighByte(n)       == [Register(n, 8) EXCEPT !.high = TRUE]
UniformByte(r)    == r.size = 8 /\ ~r.high /\ r.num \in 4 .. 7

Memory(a, size)   == [kind |-> "mem", addr |-> a, size |-> size]
Literal(v)        == [kind |-> "imm", symbol |-> FALSE, value |-> v]
SymbolImm         == [kind |-> "imm", symbol |-> TRUE, value |-> 0]

Operand == RegOps \cup {Memory(a, s) : a \in Addresses, s \in Hints}
           \cup {Literal(v) : v \in Values} \cup {SymbolImm}

VARIABLES
  phase,   \* "operands", "selected", "fields", "encoded" or "rejected"
  mnem, ops,
  form,    \* the row selected
  code     \* qas_encoded, field by field

vars == <<phase, mnem, ops, form, code>>

-----------------------------------------------------------------------------
(* Selecting a row. *)

SizesAsked(os) ==
  {os[k].size : k \in {j \in DOMAIN os : os[j].kind # "imm"}} \ {0, 8}

\* compute_op_size: 0 where no operand implies a size.
Conflict(os) == Cardinality(SizesAsked(os)) > 1
OpSize(os)   == IF SizesAsked(os) = {} THEN 0 ELSE Min(SizesAsked(os))

IsReg(o, size)   == o.kind = "reg" /\ o.size = size
IsMem(o, hints)  == o.kind = "mem" /\ o.size \in hints
IsIn(o, lo, end) == o.kind = "imm" /\ ~o.symbol /\ lo <= o.value /\ o.value < end

Signed(o, n)  == IsIn(o, -Half[n], Half[n])
EitherWay(o)  == IsIn(o, -Half[8], 2 * Half[8])   \* fits_byte

\* Fault: a branch to a symbol may be short.
Rel8AnyTarget(o) == Signed(o, 8) \/ o = SymbolImm

Rel8(o) == Signed(o, 8)

MatchSpec(spec, o, size) ==
  CASE spec = "R8"    -> IsReg(o, 8)
    [] spec = "RV"    -> size >= 16 /\ IsReg(o, size)
    [] spec = "RM8"   -> IsReg(o, 8) \/ IsMem(o, IF size = 8 THEN {0, 8} ELSE {8})
    [] spec = "RMV"   -> size >= 16 /\ (IsReg(o, size) \/ IsMem(o, {0, size}))
    [] spec = "R64"   -> IsReg(o, 64)
    [] spec = "RM64"  -> IsReg(o, 64) \/ IsMem(o, {0, 64})
    [] spec = "M"     -> o.kind = "mem"
    [] spec = "Imm8"  -> EitherWay(o)
    [] spec = "Imm8S" -> Signed(o, 8)
    [] spec = "Imm32" -> Signed(o, 32) \/ o = SymbolImm
    [] spec = "Rel8"  -> Rel8(o)
    [] spec \in {"ImmV", "Imm64", "Rel32"} -> o.kind = "imm"
    [] spec = "AL"    -> o = Register(0, 8)
    [] spec = "rAX"   -> size >= 16 /\ o = Register(0, size)
    [] spec = "CL"    -> o = Register(1, 8)
    [] spec = "One"   -> IsIn(o, 1, 2)

Matches(f, os) ==
  /\ Len(f.pattern) = Len(os)
  /\ \A k \in DOMAIN os : MatchSpec(f.pattern[k], os[k], OpSize(os))

Candidates(mn, os) ==
  IF Conflict(os) THEN {} ELSE {k \in DOMAIN Forms(mn) : Matches(Forms(mn)[k], os)}

-----------------------------------------------------------------------------
(* Filling the fields of a row. *)

HasModRM(f) == f.enc \in {"MR", "RM", "MI", "M", "M1", "MC"}
RmOp(f, os)  == IF f.enc = "RM" THEN os[2] ELSE os[1]
InRegField(f, os) ==   \* the operand in ModR/M's reg field, if one is
  CASE f.enc = "MR" -> {os[2]} [] f.enc = "RM" -> {os[1]} [] OTHER -> {}
InOpcode(f)  == f.enc \in {"O", "OI"}

Low3(r) == r.num % 8
Ext(r)  == r.num \div 8

\* The register operands whose numbers the instruction holds.
Placed(f, os) ==
  {o \in InRegField(f, os) \cup (IF HasModRM(f) \/ InOpcode(f) THEN {RmOp(f, os)} ELSE {}) :
     o.kind = "reg"}

RexW(f, size) == f.wide = "rexw" \/ (f.wide = "size" /\ size = 64)

RexR(f, os) == \E o \in InRegField(f, os) : Ext(o) = 1

\* REX.B, and REX.X for an index.
RexB(f, os) ==
  /\ HasModRM(f) \/ InOpcode(f)
  /\ LET o == RmOp(f, os) IN IF o.kind = "reg" THEN Ext(o) = 1 ELSE o.addr.ext = 1

RexNeeded(f, os) ==
  \/ RexW(f, OpSize(os)) \/ RexR(f, os) \/ RexB(f, os)
  \/ \E o \in Placed(f, os) : UniformByte(o)

\* Fault: the test looks at the operand in reg only.
RexForbiddenInReg(f, os) == \E o \in InRegField(f, os) : o.high

RexForbidden(f, os) == \E o \in Placed(f, os) : o.high

RexOK(f, os) == ~(RexNeeded(f, os) /\ RexForbidden(f, os))

Fields(f, os) ==
  [p66    |-> f.wide = "size" /\ OpSize(os) = 16,
   rex    |-> RexNeeded(f, os),
   w      |-> RexW(f, OpSize(os)),
   r      |-> RexR(f, os),
   b      |-> RexB(f, os),
   opcode |-> f.opcode + IF InOpcode(f) THEN Low3(os[1]) ELSE 0,
   modrm  |-> HasModRM(f),
   reg    |-> IF ~HasModRM(f) THEN 0
              ELSE IF InRegField(f, os) = {} THEN f.ext ELSE Low3(CHOOSE o \in InRegField(f, os) : TRUE),
   rm     |-> IF ~HasModRM(f) THEN {}
              ELSE LET o == RmOp(f, os) IN
                   {IF o.kind = "reg" THEN [mode |-> "reg", low |-> Low3(o)]
                                      ELSE [mode |-> "mem", addr |-> o.addr]},
   width  |-> 0, value |-> 0, fixup |-> "none"]

\* Bytes of the immediate.
ImmWidth(imm, size) ==
  CASE imm = "none"            -> 0
    [] imm \in {"Ib", "Rel8"}  -> 1
    [] imm \in {"Id", "Rel32"} -> 4
    [] imm = "Iv"  -> IF size = 16 THEN 2 ELSE 4
    [] imm = "Iov" -> CASE size = 16 -> 2 [] size = 32 -> 4 [] OTHER -> 8

ImmOp(os) == CHOOSE o \in Range(os) : o.kind = "imm"

IsRel(f) == f.imm \in {"Rel8", "Rel32"}

ImmOK(f, os) ==
  LET o     == ImmOp(os)
      width == ImmWidth(f.imm, OpSize(os))
  IN CASE f.imm = "none" -> TRUE
       [] f.imm # "none" /\ o.symbol  -> IsRel(f) \/ width \in {4, 8}
       [] f.imm # "none" /\ ~o.symbol ->
            IF f.imm = "Iv" /\ OpSize(os) = 64 THEN Signed(o, 32)
            ELSE width = 8 \/ IsIn(o, -Half[8 * width], 2 * Half[8 * width])

LowBytes(v, width) == v % (2 * Half[8 * width])

WithImm(f, os, c) ==
  LET o     == ImmOp(os)
      width == ImmWidth(f.imm, OpSize(os))
  IN IF f.imm = "none" THEN c
     ELSE IF o.symbol
     THEN [c EXCEPT !.width = width,
                    !.fixup = IF IsRel(f) THEN "PC32" ELSE IF width = 8 THEN "ABS64" ELSE "ABS32S"]
     ELSE [c EXCEPT !.width = width, !.value = LowBytes(o.value, width)]

-----------------------------------------------------------------------------

Init ==
  /\ phase = "operands" /\ mnem \in Mnemonics /\ ops = <<>>
  /\ form = <<>> /\ code = <<>>

AddOperand(o) ==
  /\ phase = "operands" /\ Len(ops) < MaxOperands
  /\ ops' = Append(ops, o)
  /\ UNCHANGED <<phase, mnem, form, code>>

Select ==
  /\ phase = "operands"
  /\ IF Candidates(mnem, ops) = {}
     THEN phase' = "rejected" /\ UNCHANGED form
     ELSE phase' = "selected" /\ form' = Forms(mnem)[Min(Candidates(mnem, ops))]
  /\ UNCHANGED <<mnem, ops, code>>

EmitFields ==
  /\ phase = "selected"
  /\ IF RexOK(form, ops)
     THEN phase' = "fields" /\ code' = Fields(form, ops)
     ELSE phase' = "rejected" /\ UNCHANGED code
  /\ UNCHANGED <<mnem, ops, form>>

EmitImmediate ==
  /\ phase = "fields"
  /\ IF ImmOK(form, ops)
     THEN phase' = "encoded" /\ code' = WithImm(form, ops, code)
     ELSE phase' = "rejected" /\ UNCHANGED code
  /\ UNCHANGED <<mnem, ops, form>>

Next == (\E o \in Operand : AddOperand(o)) \/ Select \/ EmitFields \/ EmitImmediate

Spec == Init /\ [][Next]_vars
=============================================================================
