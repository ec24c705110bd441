----------------------------- MODULE MemOperand -----------------------------
(***************************************************************************)
(* A memory operand, from the terms between the brackets to its machine    *)
(* code: the parser collects base, index, scale and displacement term by   *)
(* term (parser/parser.c, mem_set_index to parse_memory), the encoder      *)
(* turns them into ModR/M, SIB and displacement (encoder/encoder.c,        *)
(* encode_rm_memory), and the processor reads those back.                  *)
(*                                                                         *)
(* Registers are their numbers 0 to 15 and Rip; the sizes of registers are *)
(* left out.  Displacement widths are scaled down: a byte holds -Int8 to   *)
(* Int8 - 1, four bytes -Int32 to Int32 - 1.  Sums of literals stay within *)
(* 64 bits here.                                                           *)
(***************************************************************************)
EXTENDS MemRules, Sequences

CONSTANTS
  Regs,       \* the registers a term may name
  Scales,     \* the scales written
  Literals,   \* the integers written
  Symbols,    \* whether a term may be a symbol
  Tails,      \* bytes of immediate behind the displacement
  Int8, Int32,
  MaxTerms    \* bound on the terms of one operand

ASSUME MemAssumption ==
  /\ Regs \subseteq 0 .. Rip /\ Scales \subseteq Nat /\ Literals \subseteq Nat
  /\ Symbols \in BOOLEAN /\ Tails \subseteq Nat /\ MaxTerms \in Nat
  /\ Int8 \in Nat \ {0} /\ Int32 \in Nat /\ Int8 < Int32

VARIABLES
  phase,     \* "terms", "parsed", "encoded" or "rejected"
  mem,       \* qas_mem
  code,      \* rm_encoding, once encoded
  written,   \* history: what the terms say
  terms      \* terms read so far

vars == <<phase, mem, code, written, terms>>

-----------------------------------------------------------------------------
(* Parsing. *)

Reject == phase' = "rejected" /\ UNCHANGED <<mem, code, terms>>

\* What a term adds to what is written.
Wrote(r, s) == written' = [written EXCEPT !.times[r] = @ + s, !.scales = @ \cup {s}]

Reading == phase = "terms" /\ terms < MaxTerms

Take(m) == mem' = m /\ terms' = terms + 1 /\ UNCHANGED <<phase, code>>

PlainTerm(r) ==
  /\ Reading /\ Wrote(r, 1)
  /\ IF PlainOK(mem, r) THEN Take(WithPlain(mem, r)) ELSE Reject

\* reg * scale or scale * reg; the scale is cut to a byte before it is judged.
ScaledTerm(r, s) ==
  /\ Reading /\ Wrote(r, s)
  /\ IF IndexOK(mem, r, Byte(s)) THEN Take(WithIndex(mem, r, Byte(s))) ELSE Reject

LiteralTerm(sign, v) ==
  /\ Reading
  /\ written' = [written EXCEPT !.disp = @ + sign * v]
  /\ Take([mem EXCEPT !.disp = @ + sign * v])

SymbolTerm ==
  /\ Reading /\ Symbols
  /\ written' = [written EXCEPT !.symbol = TRUE]
  /\ IF mem.symbol THEN Reject ELSE Take([mem EXCEPT !.symbol = TRUE])

\* A subtracted register, a missing operand, an unclosed or empty bracket.
BadTerm == phase = "terms" /\ Reject /\ UNCHANGED written

Close ==
  /\ phase = "terms" /\ terms > 0
  /\ phase' = "parsed"
  /\ UNCHANGED <<mem, code, written, terms>>

-----------------------------------------------------------------------------
(* Encoding. *)

Fits(d, half) == -half <= d /\ d < half

Field(d, half) == d % (2 * half)

ScaleBits(s) == CASE s = 2 -> 1 [] s = 4 -> 2 [] s = 8 -> 3 [] OTHER -> 0

\* 0, 1 and 2 select no, one and four bytes of displacement.
Mod(m) ==
  IF m.symbol THEN 2
  ELSE IF m.base = None THEN 0
  ELSE IF m.disp = 0 /\ Low3(m.base) # 5 THEN 0
  ELSE IF Fits(m.disp, Int8) THEN 1
  ELSE 2

Encodable(m) ==
  m.symbol \/ (m.base = None) \/ Fits(m.disp, Int32)

DispLen(m) ==
  IF m.base = Rip \/ m.base = None \/ Mod(m) = 2 THEN 4 ELSE Mod(m)

NoSib == [scale |-> 0, index |-> 8, base |-> 8]

\* Fault: rsp and r12 are put into ModR/M, where their number selects a SIB.
IndexNeedsSib(m) == m.index # None

NeedSib(m) == m.index # None \/ (m.base # None /\ Low3(m.base) = 4)

Sib(m) ==
  [scale |-> ScaleBits(m.scale),
   index |-> IF m.index = None THEN 4 ELSE Low3(m.index),
   base  |-> IF m.base = None THEN 5 ELSE Low3(m.base)]

\* Fault: the processor is taken to count from the field, not behind it.
AddendAtField(m, tail) == m.disp - 4

\* The relocation formula counts from the field (S + A - P), the processor
\* from the next instruction.
PcAddend(m, tail) == m.disp - (4 + tail)

Fixup(m, tail) ==
  IF ~m.symbol THEN <<>>
  ELSE IF m.base = Rip THEN <<"PC32", PcAddend(m, tail)>>
  ELSE <<"ABS32S", m.disp>>

Ext1(r) == IF r = None THEN 0 ELSE Ext(r)

Encoding(m, tail) ==
  LET form(mod, rm, sib, x, b) ==
        [mod |-> mod, rm |-> rm, sib |-> sib, rexX |-> x, rexB |-> b, len |-> DispLen(m),
         disp |-> IF m.symbol THEN 0
                  ELSE Field(m.disp, IF DispLen(m) = 1 THEN Int8 ELSE Int32),
         fixup |-> Fixup(m, tail), tail |-> tail]
  IN CASE m.base = Rip -> form(0, 5, NoSib, 0, 0)
       [] m.base = None /\ m.index = None ->
            form(0, 4, [scale |-> 0, index |-> 4, base |-> 5], 0, 0)
       [] m.base # Rip /\ NeedSib(m) ->
            form(Mod(m), 4, Sib(m), Ext1(m.index), Ext1(m.base))
       [] OTHER -> form(Mod(m), Low3(m.base), NoSib, 0, Ext(m.base))

Encode(tail) ==
  /\ phase = "parsed"
  /\ IF Encodable(mem)
     THEN phase' = "encoded" /\ code' = Encoding(mem, tail)
     ELSE phase' = "rejected" /\ UNCHANGED code
  /\ UNCHANGED <<mem, written, terms>>

-----------------------------------------------------------------------------

NoTimes == [r \in 0 .. Rip |-> 0]

Init ==
  /\ phase = "terms" /\ terms = 0
  /\ mem = EmptyMem
  /\ code = <<>>
  /\ written = [times |-> NoTimes, scales |-> {}, symbol |-> FALSE, disp |-> 0]

Next ==
  \/ \E r \in Regs : PlainTerm(r) \/ \E s \in Scales : ScaledTerm(r, s)
  \/ \E v \in Literals, sign \in {1, -1} : LiteralTerm(sign, v)
  \/ SymbolTerm \/ BadTerm \/ Close
  \/ \E tail \in Tails : Encode(tail)

Spec == Init /\ [][Next]_vars
=============================================================================
