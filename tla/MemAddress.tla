----------------------------- MODULE MemAddress -----------------------------
(***************************************************************************)
(* The processor's side of MemOperand: how it reads ModR/M, SIB and        *)
(* displacement (Intel SDM Vol 2, 2.1.5 and 2.2.1), and what a linker      *)
(* stores in a field with a fixup.  An address is a sum: a number of times *)
(* each register, the symbol or not, and a displacement.                   *)
(***************************************************************************)
EXTENDS MemOperand

Signed(v, half) == IF v < half THEN v ELSE v - 2 * half

NoBase(c)  == c.sib.base = 5 /\ c.mod = 0
ReadBase(c) == IF c.rm # 4 THEN c.rm + 8 * c.rexB
               ELSE IF NoBase(c) THEN None ELSE c.sib.base + 8 * c.rexB
ReadIndex(c) == LET i == c.sib.index + 8 * c.rexX
                IN IF c.rm # 4 \/ i = 4 THEN None ELSE i

RipRelative(c) == c.mod = 0 /\ c.rm = 5

\* The bytes of displacement the processor takes from the instruction.
ReadLen(c) == CASE c.mod = 1 -> 1
                [] c.mod = 2 -> 4
                [] c.mod = 0 -> IF RipRelative(c) \/ (c.rm = 4 /\ NoBase(c)) THEN 4 ELSE 0

\* The displacement, counted from the symbol where there is a fixup.
ReadDisp(c) ==
  CASE ReadLen(c) = 0                    -> 0
    [] c.fixup # <<>> /\ RipRelative(c)  -> c.fixup[2] + 4 + c.tail
    [] c.fixup # <<>> /\ ~RipRelative(c) -> c.fixup[2]
    [] OTHER -> Signed(c.disp, IF ReadLen(c) = 1 THEN Int8 ELSE Int32)

Once(r) == IF r = None THEN NoTimes ELSE [NoTimes EXCEPT ![r] = 1]

Address(c) ==
  [times  |-> IF RipRelative(c) THEN IF c.fixup = <<>> THEN Once(Rip) ELSE NoTimes
              ELSE LET b == Once(ReadBase(c)) IN
                   IF ReadIndex(c) = None THEN b
                   ELSE [b EXCEPT ![ReadIndex(c)] = @ + 2 ^ c.sib.scale],
   symbol |-> c.fixup # <<>>,
   disp   |-> ReadDisp(c)]

\* [rip + symbol] is the symbol's own address.
Meaning ==
  [times  |-> IF written.symbol /\ written.times[Rip] = 1
              THEN [written.times EXCEPT ![Rip] = 0] ELSE written.times,
   symbol |-> written.symbol,
   disp   |-> written.disp]

-----------------------------------------------------------------------------

Encoded == phase = "encoded"

\* parser README: the scale is one of 1, 2, 4 and 8, and rip may only be a
\* lone base.
SibRulesEnforced ==
  Encoded => /\ written.scales \subseteq {1, 2, 4, 8}
             /\ mem.base = Rip => mem.index = None

\* encoder.c: without a base, mod is 0, where a SIB base of 5 means none.
NoBaseEncoded == Encoded /\ mem.base = None => NoBase(code)

\* The displacement fits the widest field there is.
DispFits == mem.symbol \/ Fits(mem.disp, Int32)

\* Where the two rules above were kept and the displacement fits, the
\* processor computes the address that was written: the same multiple of
\* each register, the same displacement and the same symbol, with every
\* register that has a special place in ModR/M and SIB, and with the fixup's
\* addend whatever immediate follows.
AddressKept ==
  Encoded /\ SibRulesEnforced /\ NoBaseEncoded /\ DispFits =>
    /\ Address(code) = Meaning
    /\ ReadLen(code) = code.len
=============================================================================
