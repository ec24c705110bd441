-------------------------- MODULE MemAddressProofs --------------------------
(***************************************************************************)
(* That memory operands mean what was written, for any terms, registers,   *)
(* literals and any two displacement widths.                               *)
(*                                                                         *)
(*   1. a displacement that fits its field is read back from it            *)
(*   2. what the processor reads in each of the four forms of an operand   *)
(*   3. that the parser's record says what the terms said                  *)
(***************************************************************************)
EXTENDS MemAddress, NatLemmas

Gpr == 0 .. Rip - 1

\* The records the parser can make; the second part is what its checks buy.
MemOK(m) ==
  /\ m \in [base : Gpr \cup {Rip, None}, index : Gpr \cup {None}, scale : {0, 1, 2, 4, 8},
            symbol : BOOLEAN, disp : Int]
  /\ m.index # None => m.index # 4 /\ m.scale # 0

\* How often m counts register r.
Counts(m, r) == (IF r = m.base THEN 1 ELSE 0) + (IF r = m.index THEN m.scale ELSE 0)

-----------------------------------------------------------------------------
(* Fields. *)

\* put_le and sign extension undo each other for a value that fits.
LEMMA SignedField ==
  ASSUME NEW half \in Nat \ {0}, NEW d \in Int, Fits(d, half)
  PROVE  Signed(Field(d, half), half) = d
<1> DEFINE w == 2 * half
<1>1. w \in Nat \ {0} /\ -half <= d /\ d < half
  BY DEF Fits
<1>2. CASE d >= 0
  <2>1. d \in 0 .. w - 1 /\ d \in Nat
    BY <1>1, <1>2
  <2> HIDE DEF w
  <2>2. d % w = d
    BY <1>1, <2>1, ModSmall
  <2> QED BY <1>1, <2>2 DEF Signed, Field, w
<1>3. CASE d < 0
  <2> DEFINE r == d + w
  <2>1. r \in 0 .. w - 1 /\ w * (-1) + r = d /\ r >= half /\ r - 2 * half = d
    BY <1>1, <1>3
  <2> HIDE DEF w, r
  <2>2. (w * (-1) + r) % w = r
    BY <1>1, <2>1, ModOf
  <2>3. Field(d, half) = r
    BY <2>1, <2>2 DEF Field, w
  <2> QED BY <2>1, <2>3 DEF Signed
<1> QED BY <1>1, <1>2, <1>3

\* A register is its low three bits and its extension bit.
LEMMA RegisterParts ==
  ASSUME NEW r \in Gpr
  PROVE  /\ Low3(r) \in 0 .. 7 /\ Ext(r) \in {0, 1} /\ Low3(r) + 8 * Ext(r) = r
         /\ Ext(r) = 0 /\ Low3(r) = 4 <=> r = 4
BY DEF Gpr, Rip, Low3, Ext

LEMMA ScaleFactor ==
  ASSUME NEW s \in {1, 2, 4, 8} PROVE ScaleBits(s) \in 0 .. 3 /\ 2 ^ ScaleBits(s) = s
<1>1. /\ s = 1 => ScaleBits(s) = 0
      /\ s = 2 => ScaleBits(s) = 1
      /\ s = 4 => ScaleBits(s) = 2
      /\ s = 8 => ScaleBits(s) = 3
  BY DEF ScaleBits
<1>2. 2 ^ 0 = 1 /\ 2 ^ 1 = 2 /\ 2 ^ 2 = 4 /\ 2 ^ 3 = 8
  OBVIOUS
<1>3. ScaleBits(s) \in 0 .. 3
  BY <1>1
<1>4. 2 ^ ScaleBits(s) = s
  BY <1>1, <1>2, Zenon
<1> QED BY <1>3, <1>4
-----------------------------------------------------------------------------
(* The four forms of an operand. *)

\* What all forms have in common.
LEMMA CommonParts ==
  ASSUME NEW m, MemOK(m), NEW tail \in Nat
  PROVE  LET c == Encoding(m, tail)
         IN /\ c.len = DispLen(m) /\ c.tail = tail /\ c.fixup = Fixup(m, tail)
            /\ c.disp = IF m.symbol THEN 0 ELSE Field(m.disp, IF DispLen(m) = 1 THEN Int8 ELSE Int32)
<1> DEFINE c == Encoding(m, tail)
<1>1. CASE m.base = Rip
  BY <1>1 DEF Encoding, Rip, None
<1>2. CASE m.base = None /\ m.index = None
  BY <1>2 DEF Encoding, Rip, None
<1>3. CASE m.base # Rip /\ ~ (m.base = None /\ m.index = None) /\ NeedSib(m)
  BY <1>3 DEF Encoding
<1>4. CASE m.base # Rip /\ ~ (m.base = None /\ m.index = None) /\ ~ NeedSib(m)
  BY <1>4 DEF Encoding
<1> QED BY <1>1, <1>2, <1>3, <1>4 DEF Rip, None

\* [rip + displacement] and [rip + symbol].
LEMMA RipForm ==
  ASSUME NEW m, MemOK(m), NEW tail \in Nat, m.base = Rip
  PROVE  LET c == Encoding(m, tail) IN c.mod = 0 /\ c.rm = 5
BY DEF Encoding, Rip, None

\* An address without registers.
LEMMA BareForm ==
  ASSUME NEW m, MemOK(m), NEW tail \in Nat, m.base = None, m.index = None
  PROVE  LET c == Encoding(m, tail)
         IN /\ c.mod = 0 /\ c.rm = 4 /\ c.sib.base = 5 /\ c.sib.index = 4
            /\ c.rexX = 0 /\ c.rexB = 0
<1> DEFINE c == Encoding(m, tail)
<1>1. ~ NeedSib(m) /\ m.base # Rip
  BY DEF NeedSib, Rip, None
<1>2. c.mod = 0 /\ c.rm = 4 /\ c.rexX = 0 /\ c.rexB = 0
  BY <1>1 DEF Encoding
<1>3. c.sib = [scale |-> 0, index |-> 4, base |-> 5]
  BY <1>1 DEF Encoding
<1> QED BY <1>2, <1>3

\* A SIB byte: there is an index, or the base's number would select one.
LEMMA SibForm ==
  ASSUME NEW m, MemOK(m), NEW tail \in Nat,
         m.base # Rip, m.base # None \/ m.index # None, NeedSib(m)
  PROVE  LET c == Encoding(m, tail)
         IN /\ c.mod = Mod(m) /\ c.rm = 4 /\ c.sib = Sib(m)
            /\ c.rexX = Ext1(m.index) /\ c.rexB = Ext1(m.base)
BY DEF Encoding

\* A base alone.
LEMMA BaseForm ==
  ASSUME NEW m, MemOK(m), NEW tail \in Nat,
         m.base # Rip, m.base # None \/ m.index # None, ~ NeedSib(m)
  PROVE  /\ m.base \in Gpr /\ m.index = None /\ Low3(m.base) # 4
         /\ LET c == Encoding(m, tail)
            IN c.mod = Mod(m) /\ c.rm = Low3(m.base) /\ c.rexX = 0 /\ c.rexB = Ext(m.base)
BY DEF Encoding, NeedSib, MemOK

\* The registers the processor reads from a SIB byte.
LEMMA SibRegisters ==
  ASSUME NEW m, MemOK(m), NEW c, m.base # Rip,
         c.mod = Mod(m), c.rm = 4, c.sib = Sib(m),
         c.rexX = Ext1(m.index), c.rexB = Ext1(m.base),
         m.base = None => NoBase(c)
  PROVE  /\ ReadBase(c) = m.base /\ ReadIndex(c) = m.index
         /\ m.base # None => ~ NoBase(c)
         /\ m.index # None => 2 ^ c.sib.scale = m.scale
<1>1. m.base \in Gpr \cup {None} /\ m.index \in Gpr \cup {None}
  BY DEF MemOK
<1>2. c.sib.base = IF m.base = None THEN 5 ELSE Low3(m.base)
  BY DEF Sib
<1>3. c.sib.index = IF m.index = None THEN 4 ELSE Low3(m.index)
  BY DEF Sib
<1>4. m.base # None => ~ NoBase(c)
  BY <1>2 DEF NoBase, Mod
<1>5. ReadBase(c) = m.base
  <2>1. CASE m.base = None
    BY <2>1 DEF ReadBase
  <2>2. CASE m.base # None
    <3>1. m.base \in Gpr /\ c.sib.base = Low3(m.base) /\ c.rexB = Ext(m.base)
      BY <1>1, <1>2, <2>2 DEF Ext1
    <3> QED BY <1>4, <2>2, <3>1, RegisterParts DEF ReadBase
  <2> QED BY <2>1, <2>2
<1>6. ReadIndex(c) = m.index
  <2>1. CASE m.index = None
    BY <1>3, <2>1 DEF ReadIndex, Ext1
  <2>2. CASE m.index # None
    <3>1. m.index \in Gpr /\ m.index # 4 /\ c.sib.index = Low3(m.index) /\ c.rexX = Ext(m.index)
      BY <1>1, <1>3, <2>2 DEF Ext1, MemOK
    <3> QED BY <3>1, RegisterParts DEF ReadIndex
  <2> QED BY <2>1, <2>2
<1>7. m.index # None => 2 ^ c.sib.scale = m.scale
  <2> SUFFICES ASSUME m.index # None PROVE 2 ^ c.sib.scale = m.scale
    OBVIOUS
  <2>1. m.scale \in {1, 2, 4, 8} /\ c.sib.scale = ScaleBits(m.scale)
    BY DEF MemOK, Sib
  <2>2. 2 ^ ScaleBits(m.scale) = m.scale
    BY <2>1, ScaleFactor
  <2> QED BY <2>1, <2>2
<1> QED BY <1>4, <1>5, <1>6, <1>7

\* The displacement the processor reads, when it reads as much as was written.
LEMMA DispRead ==
  ASSUME NEW m, MemOK(m), NEW tail \in Nat, NEW c, c = Encoding(m, tail),
         ReadLen(c) = c.len, RipRelative(c) <=> m.base = Rip,
         m.symbol \/ Fits(m.disp, Int32)
  PROVE  ReadDisp(c) = m.disp
<1>1. /\ c.len = DispLen(m) /\ c.tail = tail /\ c.fixup = Fixup(m, tail)
      /\ c.disp = IF m.symbol THEN 0 ELSE Field(m.disp, IF DispLen(m) = 1 THEN Int8 ELSE Int32)
  BY CommonParts
<1>2. m.disp \in Int /\ m.symbol \in BOOLEAN
  BY DEF MemOK
<1>3. CASE m.symbol
  <2>1. DispLen(m) = 4
    BY <1>3 DEF DispLen, Mod
  <2>2. CASE m.base = Rip
    <3>1. c.fixup # <<>> /\ c.fixup[2] = m.disp - (4 + tail)
      <4>1. Fixup(m, tail) = <<"PC32", PcAddend(m, tail)>>
        BY <1>2, <1>3, <2>2 DEF Fixup
      <4>2. c.fixup = <<"PC32", PcAddend(m, tail)>>
        BY <1>1, <4>1
      <4> QED BY <4>2 DEF PcAddend
    <3>2. ReadDisp(c) = c.fixup[2] + 4 + c.tail
      BY <1>1, <2>1, <2>2, <3>1 DEF ReadDisp
    <3> QED BY <1>1, <1>2, <3>1, <3>2
  <2>3. CASE m.base # Rip
    <3>1. c.fixup # <<>> /\ c.fixup[2] = m.disp
      <4>1. Fixup(m, tail) = <<"ABS32S", m.disp>>
        BY <1>2, <1>3, <2>3 DEF Fixup
      <4> QED BY <1>1, <4>1
    <3> QED BY <1>1, <2>1, <2>3, <3>1 DEF ReadDisp
  <2> QED BY <2>2, <2>3
<1>4. CASE ~ m.symbol
  <2>1. c.fixup = <<>>
    BY <1>1, <1>4, Zenon DEF Fixup
  <2>2. CASE DispLen(m) = 0
    <3>1. m.disp = 0
      BY <1>4, <2>2 DEF DispLen, Mod
    <3> QED BY <1>1, <2>1, <2>2, <3>1 DEF ReadDisp
  <2>3. CASE DispLen(m) = 1
    <3>1. Fits(m.disp, Int8)
      BY <1>4, <2>3 DEF DispLen, Mod
    <3>2. Signed(Field(m.disp, Int8), Int8) = m.disp
      BY <1>2, <3>1, MemAssumption, SignedField
    <3> QED BY <1>1, <1>4, <2>1, <2>3, <3>2 DEF ReadDisp
  <2>4. CASE DispLen(m) = 4
    <3>1. Int32 \in Nat \ {0}
      BY MemAssumption
    <3>2. Signed(Field(m.disp, Int32), Int32) = m.disp
      BY <1>2, <1>4, <3>1, SignedField
    <3> QED BY <1>1, <1>4, <2>1, <2>4, <3>2 DEF ReadDisp
  <2>5. DispLen(m) \in {0, 1, 4}
    BY DEF DispLen, Mod
  <2> QED BY <2>2, <2>3, <2>4, <2>5
<1> QED BY <1>2, <1>3, <1>4
-----------------------------------------------------------------------------
(* The address an operand makes the processor compute. *)

\* The address of the parser's record.
AddressOfMem(m) ==
  [times  |-> [r \in 0 .. Rip |-> IF m.symbol /\ m.base = Rip /\ r = Rip THEN 0 ELSE Counts(m, r)],
   symbol |-> m.symbol,
   disp   |-> m.disp]

\* What encode_rm_memory makes of a record is read back as that record's
\* address, all of its displacement and no more.
LEMMA EncodingMeans ==
  ASSUME NEW m, MemOK(m), NEW tail \in Nat,
         m.symbol \/ Fits(m.disp, Int32),
         m.base = Rip => m.index = None,
         m.base = None => NoBase(Encoding(m, tail))
  PROVE  /\ Address(Encoding(m, tail)) = AddressOfMem(m)
         /\ ReadLen(Encoding(m, tail)) = Encoding(m, tail).len
<1> DEFINE c == Encoding(m, tail)
<1>1. /\ c.len = DispLen(m) /\ c.tail = tail /\ c.fixup = Fixup(m, tail)
  BY CommonParts
<1>2. /\ m.base \in Gpr \cup {Rip, None} /\ m.index \in Gpr \cup {None}
      /\ m.scale \in {0, 1, 2, 4, 8} /\ m.symbol \in BOOLEAN /\ m.disp \in Int
  BY DEF MemOK
<1>3. c.fixup # <<>> <=> m.symbol
  <2>1. m.symbol => Fixup(m, tail) # <<>>
    BY <1>2 DEF Fixup
  <2>2. ~ m.symbol => Fixup(m, tail) = <<>>
    BY <1>2 DEF Fixup
  <2> QED BY <1>1, <1>2, <2>1, <2>2
<1> HIDE DEF c
\* What remains is which registers are read, and how much displacement.
<1>4. ASSUME RipRelative(c) <=> m.base = Rip, ReadLen(c) = c.len,
             m.base # Rip => /\ ReadBase(c) = m.base /\ ReadIndex(c) = m.index
                             /\ m.index # None => 2 ^ c.sib.scale = m.scale
      PROVE  Address(c) = AddressOfMem(m) /\ ReadLen(c) = c.len
  <2>1. ReadDisp(c) = m.disp
    BY <1>4, DispRead DEF c
  <2>2. Address(c).times = AddressOfMem(m).times
    <3>1. CASE m.base = Rip
      <4>1. Address(c).times = IF m.symbol THEN NoTimes ELSE [NoTimes EXCEPT ![Rip] = 1]
        BY <1>2, <1>3, <1>4, <3>1 DEF Address, Once, Rip, None
      <4>2. m.index = None
        BY <3>1
      <4> QED BY <1>2, <3>1, <4>1, <4>2 DEF AddressOfMem, Counts, NoTimes, Rip, None
    <3>2. CASE m.base # Rip
      <4>1. Address(c).times = IF m.index = None THEN Once(m.base)
                               ELSE [Once(m.base) EXCEPT ![m.index] = @ + m.scale]
        BY <1>4, <3>2 DEF Address
      <4>2. /\ Once(m.base) \in [0 .. Rip -> Int]
            /\ \A r \in 0 .. Rip : Once(m.base)[r] = IF r = m.base THEN 1 ELSE 0
        BY <1>2 DEF Once, NoTimes, Gpr, Rip, None
      <4>3. m.index # None => m.index \in 0 .. Rip
        BY <1>2 DEF Gpr, Rip
      <4>4. \A r \in 0 .. Rip : r # None
        BY DEF Rip, None
      <4>5. /\ Address(c).times = [r \in 0 .. Rip |-> Address(c).times[r]]
            /\ \A r \in 0 .. Rip : Address(c).times[r] = Counts(m, r)
        <5> DEFINE b == Once(m.base)
        <5>1. b \in [0 .. Rip -> Int] /\ \A r \in 0 .. Rip : b[r] = IF r = m.base THEN 1 ELSE 0
          BY <4>2
        <5>2. Address(c).times = IF m.index = None THEN b ELSE [b EXCEPT ![m.index] = @ + m.scale]
          BY <4>1
        <5> HIDE DEF b
        <5>3. CASE m.index = None
          BY <4>4, <5>1, <5>2, <5>3 DEF Counts
        <5>4. CASE m.index # None
          <6>1. /\ Address(c).times = [b EXCEPT ![m.index] = b[m.index] + m.scale]
                /\ m.index \in 0 .. Rip
            BY <4>3, <5>2, <5>4
          <6>2. \A r \in 0 .. Rip :
                  Address(c).times[r] = IF r = m.index THEN b[r] + m.scale ELSE b[r]
            BY <5>1, <6>1
          <6>3. Address(c).times = [r \in 0 .. Rip |-> Address(c).times[r]]
            BY <5>1, <6>1
          <6>4. \A r \in 0 .. Rip : Address(c).times[r] = Counts(m, r)
            BY <1>2, <5>1, <6>2 DEF Counts
          <6> QED BY <6>3, <6>4
        <5> QED BY <5>3, <5>4
      <4> QED BY <3>2, <4>5 DEF AddressOfMem
    <3> QED BY <3>1, <3>2
  <2>3. Address(c).symbol = m.symbol
    BY <1>2, <1>3 DEF Address
  <2> QED BY <1>4, <2>1, <2>2, <2>3 DEF Address, AddressOfMem
<1>5. CASE m.base = Rip
  <2>1. c.mod = 0 /\ c.rm = 5
    BY <1>5, RipForm DEF c
  <2>2. RipRelative(c) /\ ReadLen(c) = 4 /\ DispLen(m) = 4
    BY <1>5, <2>1 DEF RipRelative, ReadLen, DispLen
  <2> QED BY <1>1, <1>4, <1>5, <2>2 DEF c
<1>6. CASE m.base = None /\ m.index = None
  <2>1. /\ c.mod = 0 /\ c.rm = 4 /\ c.sib.base = 5 /\ c.sib.index = 4 /\ c.rexX = 0 /\ c.rexB = 0
    BY <1>6, BareForm DEF c
  <2>2. NoBase(c) /\ ~ RipRelative(c) /\ ReadLen(c) = 4 /\ DispLen(m) = 4
    BY <1>6, <2>1 DEF NoBase, RipRelative, ReadLen, DispLen
  <2>3. ReadBase(c) = None /\ ReadIndex(c) = None
    BY <2>1, <2>2 DEF ReadBase, ReadIndex
  <2>4. m.base # Rip
    BY <1>6 DEF Rip, None
  <2> QED BY <1>1, <1>4, <1>6, <2>2, <2>3, <2>4 DEF c
<1>7. CASE m.base # Rip /\ ~ (m.base = None /\ m.index = None) /\ NeedSib(m)
  <2>1. /\ c.mod = Mod(m) /\ c.rm = 4 /\ c.sib = Sib(m)
        /\ c.rexX = Ext1(m.index) /\ c.rexB = Ext1(m.base)
    BY <1>7, SibForm DEF c
  <2>2. m.base = None => NoBase(c)
    BY DEF c
  <2>3. /\ ReadBase(c) = m.base /\ ReadIndex(c) = m.index
        /\ m.base # None => ~ NoBase(c)
        /\ m.index # None => 2 ^ c.sib.scale = m.scale
    BY <1>7, <2>1, <2>2, SibRegisters
  <2>4. ~ RipRelative(c) /\ ReadLen(c) = DispLen(m)
    BY <1>2, <1>7, <2>1, <2>2, <2>3 DEF RipRelative, ReadLen, DispLen, Mod, NoBase
  <2> QED BY <1>1, <1>4, <1>7, <2>3, <2>4 DEF c
<1>8. CASE m.base # Rip /\ ~ (m.base = None /\ m.index = None) /\ ~ NeedSib(m)
  <2>1. /\ m.base \in Gpr /\ m.index = None /\ Low3(m.base) # 4
        /\ c.mod = Mod(m) /\ c.rm = Low3(m.base) /\ c.rexX = 0 /\ c.rexB = Ext(m.base)
    BY <1>8, BaseForm DEF c
  <2>2. ReadBase(c) = m.base /\ ReadIndex(c) = None
    BY <2>1, RegisterParts DEF ReadBase, ReadIndex
  <2>3. m.base # None
    BY <2>1 DEF Gpr, Rip, None
  <2>4. ~ RipRelative(c) /\ ReadLen(c) = DispLen(m)
    BY <1>2, <1>8, <2>1, <2>3 DEF RipRelative, ReadLen, DispLen, Mod
  <2> QED BY <1>1, <1>4, <1>8, <2>1, <2>2, <2>4 DEF c
<1> QED BY <1>5, <1>6, <1>7, <1>8 DEF c
-----------------------------------------------------------------------------
(* What the terms said. *)

\* While terms are read, and until the operand is encoded, the record says
\* what was written; a scale that is none of 1, 2, 4 and 8 may be lost in the
\* cast to a byte.
Recorded ==
  /\ written.disp = mem.disp /\ written.symbol = mem.symbol
  /\ written.scales \subseteq {1, 2, 4, 8} =>
       \A r \in 0 .. Rip : written.times[r] = Counts(mem, r)

OperandInv ==
  /\ MemOK(mem)
  /\ written \in [times : [0 .. Rip -> Int], scales : SUBSET Nat, symbol : BOOLEAN, disp : Int]
  /\ phase # "rejected" => Recorded
  /\ phase = "encoded" => \E tail \in Tails : code = Encoding(mem, tail)

LEMMA OperandStarts == Init => OperandInv
<1> SUFFICES ASSUME Init PROVE OperandInv
  OBVIOUS
<1>1. MemOK(mem)
  BY DEF Init, EmptyMem, MemOK
<1>2. /\ written.times = NoTimes /\ written.scales = {} /\ written.symbol = FALSE /\ written.disp = 0
      /\ written \in [times : [0 .. Rip -> Int], scales : SUBSET Nat, symbol : BOOLEAN, disp : Int]
  BY DEF Init, NoTimes
<1>3. /\ mem.base = None /\ mem.index = None /\ mem.disp = 0 /\ mem.symbol = FALSE
  BY DEF Init, EmptyMem
<1>4. \A r \in 0 .. Rip : NoTimes[r] = 0 /\ r # None
  BY DEF NoTimes, Rip, None
<1>5. \A r \in 0 .. Rip : Counts(mem, r) = 0
  BY <1>3, <1>4 DEF Counts
<1>6. Recorded
  BY <1>2, <1>3, <1>4, <1>5 DEF Recorded
<1> QED BY <1>1, <1>2, <1>6 DEF OperandInv, Init

\* A term that is rejected.
LEMMA RejectKeeps ==
  ASSUME OperandInv, Reject,
         written' \in [times : [0 .. Rip -> Int], scales : SUBSET Nat, symbol : BOOLEAN, disp : Int]
  PROVE  OperandInv'
BY DEF OperandInv, Reject

\* Writing a register.
LEMMA WroteWhat ==
  ASSUME OperandInv, NEW r \in 0 .. Rip, NEW s \in Nat, Wrote(r, s)
  PROVE  /\ written' \in [times : [0 .. Rip -> Int], scales : SUBSET Nat, symbol : BOOLEAN, disp : Int]
         /\ written'.disp = written.disp /\ written'.symbol = written.symbol
         /\ written'.scales = written.scales \cup {s}
         /\ \A i \in 0 .. Rip :
              written'.times[i] = IF i = r THEN written.times[r] + s ELSE written.times[i]
<1> DEFINE t == written.times
           u == [t EXCEPT ![r] = t[r] + s]
<1>1. t \in [0 .. Rip -> Int] /\ written.scales \in SUBSET Nat
  BY DEF OperandInv
<1>2. written' = [written EXCEPT !.times = u, !.scales = written.scales \cup {s}]
  BY DEF Wrote
<1>3. u \in [0 .. Rip -> Int] /\ \A i \in 0 .. Rip : u[i] = IF i = r THEN t[r] + s ELSE t[i]
  <2> HIDE DEF t
  <2>1. t[r] + s \in Int
    BY <1>1
  <2> QED BY <1>1, <2>1
<1> HIDE DEF t, u
<1>4. written'.times = u /\ written'.scales = written.scales \cup {s}
      /\ written'.disp = written.disp /\ written'.symbol = written.symbol
      /\ written' \in [times : [0 .. Rip -> Int], scales : SUBSET Nat, symbol : BOOLEAN, disp : Int]
  BY <1>1, <1>2, <1>3 DEF OperandInv
<1> QED BY <1>3, <1>4 DEF t

\* A register becomes the base.
LEMMA BaseKeeps ==
  ASSUME OperandInv, NEW r \in 0 .. Rip, Wrote(r, 1), phase = "terms", phase' = phase,
         mem.base = None, mem' = [mem EXCEPT !.base = r], code' = code
  PROVE  OperandInv'
<1>1. /\ written' \in [times : [0 .. Rip -> Int], scales : SUBSET Nat, symbol : BOOLEAN, disp : Int]
      /\ written'.disp = written.disp /\ written'.symbol = written.symbol
      /\ written'.scales = written.scales \cup {1}
      /\ \A i \in 0 .. Rip :
           written'.times[i] = IF i = r THEN written.times[r] + 1 ELSE written.times[i]
  BY WroteWhat
<1>2. /\ mem'.base = r /\ mem'.index = mem.index /\ mem'.scale = mem.scale
      /\ mem'.disp = mem.disp /\ mem'.symbol = mem.symbol
  BY DEF OperandInv, MemOK
<1>3. MemOK(mem')
  BY DEF OperandInv, MemOK, Gpr, Rip
<1>4. Recorded
  BY DEF OperandInv
<1>5. \A i \in 0 .. Rip : i # None
  BY DEF Rip, None
<1>6. Recorded'
  <2> SUFFICES ASSUME written'.scales \subseteq {1, 2, 4, 8}, NEW i \in 0 .. Rip
               PROVE  written'.times[i] = Counts(mem', i)
    BY <1>1, <1>2, <1>4 DEF Recorded
  <2>1. written.times[i] = Counts(mem, i) /\ written.times[r] = Counts(mem, r)
    BY <1>1, <1>4 DEF Recorded
  <2>2. mem.scale \in Nat
    BY DEF OperandInv, MemOK
  <2> QED BY <1>1, <1>2, <1>5, <2>1, <2>2 DEF Counts
<1> QED BY <1>1, <1>3, <1>6 DEF OperandInv

\* A register becomes the index.
LEMMA IndexKeeps ==
  ASSUME OperandInv, NEW r \in 0 .. Rip, NEW s \in Nat, Wrote(r, s),
         phase = "terms", phase' = phase,
         IndexOK(mem, r, Byte(s)), mem' = WithIndex(mem, r, Byte(s)), code' = code
  PROVE  OperandInv'
<1>1. /\ written' \in [times : [0 .. Rip -> Int], scales : SUBSET Nat, symbol : BOOLEAN, disp : Int]
      /\ written'.disp = written.disp /\ written'.symbol = written.symbol
      /\ written'.scales = written.scales \cup {s}
      /\ \A i \in 0 .. Rip :
           written'.times[i] = IF i = r THEN written.times[r] + s ELSE written.times[i]
  BY WroteWhat
<1>2. /\ r \in Gpr /\ r # 4 /\ Byte(s) \in {1, 2, 4, 8} /\ mem.index = None
  <2>1. r \in Gpr /\ ~ (Low3(r) = 4 /\ Ext(r) = 0) /\ Byte(s) \in {1, 2, 4, 8} /\ mem.index = None
    BY DEF IndexOK, IsGpr, Gpr, Rip
  <2> QED BY <2>1, RegisterParts
<1>3. /\ mem'.base = mem.base /\ mem'.index = r /\ mem'.scale = Byte(s)
      /\ mem'.disp = mem.disp /\ mem'.symbol = mem.symbol
  BY DEF OperandInv, MemOK, WithIndex
<1>4. MemOK(mem')
  <2>1. mem' = [mem EXCEPT !.index = r, !.scale = Byte(s)]
    BY DEF WithIndex
  <2> DEFINE b == Byte(s)
  <2>2. r \in Gpr /\ b \in {1, 2, 4, 8} /\ r # 4 /\ b # 0
    BY <1>2
  <2>3. mem' = [mem EXCEPT !.index = r, !.scale = b]
    BY <2>1
  <2> HIDE DEF b
  <2> QED BY <2>2, <2>3 DEF OperandInv, MemOK
<1>5. Recorded
  BY DEF OperandInv
<1>6. \A i \in 0 .. Rip : i # None
  BY DEF Rip, None
<1>7. Recorded'
  <2> SUFFICES ASSUME written'.scales \subseteq {1, 2, 4, 8}, NEW i \in 0 .. Rip
               PROVE  written'.times[i] = Counts(mem', i)
    BY <1>1, <1>3, <1>5 DEF Recorded
  <2>1. written.times[i] = Counts(mem, i) /\ written.times[r] = Counts(mem, r)
    BY <1>1, <1>5 DEF Recorded
  <2>2. s \in {1, 2, 4, 8} /\ Byte(s) = s
    <3>1. s \in {1, 2, 4, 8}
      BY <1>1
    <3> QED BY <3>1 DEF Byte
  <2> QED BY <1>1, <1>2, <1>3, <1>6, <2>1, <2>2 DEF Counts
<1> QED BY <1>1, <1>4, <1>7 DEF OperandInv

LEMMA PlainTermKeeps ==
  ASSUME OperandInv, NEW r \in Regs, PlainTerm(r) PROVE OperandInv'
<1>1. r \in 0 .. Rip /\ phase = "terms" /\ Wrote(r, 1)
  BY MemAssumption DEF PlainTerm, Reading
<1>2. CASE ~ PlainOK(mem, r)
  BY <1>1, <1>2, WroteWhat, RejectKeeps DEF PlainTerm
<1>3. CASE PlainOK(mem, r) /\ mem.base = None
  BY <1>1, <1>3, BaseKeeps DEF PlainTerm, Take, WithPlain
<1>4. CASE PlainOK(mem, r) /\ mem.base # None
  <2>1. Byte(1) = 1
    BY DEF Byte
  <2>2. IndexOK(mem, r, Byte(1)) /\ mem' = WithIndex(mem, r, Byte(1)) /\ code' = code /\ phase' = phase
    BY <1>4, <2>1 DEF PlainTerm, Take, WithPlain, PlainOK
  <2> QED BY <1>1, <2>2, IndexKeeps
<1> QED BY <1>2, <1>3, <1>4

LEMMA ScaledTermKeeps ==
  ASSUME OperandInv, NEW r \in Regs, NEW s \in Scales, ScaledTerm(r, s) PROVE OperandInv'
<1>1. r \in 0 .. Rip /\ s \in Nat /\ phase = "terms" /\ Wrote(r, s)
  BY MemAssumption DEF ScaledTerm, Reading
<1>2. CASE ~ IndexOK(mem, r, Byte(s))
  BY <1>1, <1>2, WroteWhat, RejectKeeps DEF ScaledTerm
<1>3. CASE IndexOK(mem, r, Byte(s))
  BY <1>1, <1>3, IndexKeeps DEF ScaledTerm, Take
<1> QED BY <1>2, <1>3

LEMMA LiteralTermKeeps ==
  ASSUME OperandInv, NEW v \in Literals, NEW sign \in {1, -1}, LiteralTerm(sign, v)
  PROVE  OperandInv'
<1>1. v \in Nat /\ phase = "terms" /\ phase' = phase /\ code' = code
      /\ mem' = [mem EXCEPT !.disp = mem.disp + sign * v]
      /\ written' = [written EXCEPT !.disp = written.disp + sign * v]
  BY MemAssumption DEF LiteralTerm, Reading, Take
<1>2. sign * v \in Int
  BY <1>1
<1> DEFINE x == sign * v
<1> HIDE DEF x
<1>3. MemOK(mem') /\ mem'.disp = mem.disp + x /\ mem'.symbol = mem.symbol
      /\ mem'.base = mem.base /\ mem'.index = mem.index /\ mem'.scale = mem.scale
  BY <1>1, <1>2 DEF OperandInv, MemOK, x
<1>4. /\ written' \in [times : [0 .. Rip -> Int], scales : SUBSET Nat, symbol : BOOLEAN, disp : Int]
      /\ written'.disp = written.disp + x /\ written'.symbol = written.symbol
      /\ written'.scales = written.scales /\ written'.times = written.times
  BY <1>1, <1>2 DEF OperandInv, x
<1>5. Recorded'
  BY <1>1, <1>3, <1>4 DEF OperandInv, Recorded, Counts
<1> QED BY <1>1, <1>3, <1>4, <1>5 DEF OperandInv

LEMMA SymbolTermKeeps ==
  ASSUME OperandInv, SymbolTerm PROVE OperandInv'
<1>1. phase = "terms" /\ written' = [written EXCEPT !.symbol = TRUE]
  BY DEF SymbolTerm, Reading
<1>2. /\ written' \in [times : [0 .. Rip -> Int], scales : SUBSET Nat, symbol : BOOLEAN, disp : Int]
      /\ written'.disp = written.disp /\ written'.symbol = TRUE
      /\ written'.scales = written.scales /\ written'.times = written.times
  BY <1>1 DEF OperandInv
<1>3. CASE mem.symbol
  BY <1>2, <1>3, RejectKeeps DEF SymbolTerm
<1>4. CASE ~ mem.symbol
  <2>1. phase' = phase /\ code' = code /\ mem' = [mem EXCEPT !.symbol = TRUE]
    BY <1>4 DEF SymbolTerm, Take
  <2>2. MemOK(mem') /\ mem'.disp = mem.disp /\ mem'.symbol = TRUE
        /\ mem'.base = mem.base /\ mem'.index = mem.index /\ mem'.scale = mem.scale
    BY <2>1 DEF OperandInv, MemOK
  <2>3. \A r : Counts(mem', r) = Counts(mem, r)
    BY <2>2 DEF Counts
  <2>4. Recorded /\ written.symbol = mem.symbol /\ written.disp = mem.disp
    BY <1>1 DEF OperandInv, Recorded
  <2>5. Recorded'
    BY <1>2, <2>2, <2>3, <2>4 DEF Recorded
  <2> QED BY <1>1, <1>2, <2>1, <2>2, <2>5 DEF OperandInv
<1> QED BY <1>3, <1>4

LEMMA EncodeKeeps ==
  ASSUME OperandInv, NEW tail \in Tails, Encode(tail) PROVE OperandInv'
<1>1. phase = "parsed" /\ UNCHANGED <<mem, written>>
  BY DEF Encode
<1>2. Recorded'
  BY <1>1 DEF OperandInv, Recorded
<1>3. (phase' = "encoded" /\ code' = Encoding(mem, tail)) \/ phase' = "rejected"
  BY DEF Encode
<1> QED BY <1>1, <1>2, <1>3 DEF OperandInv

LEMMA OperandKept == OperandInv /\ [Next]_vars => OperandInv'
<1> SUFFICES ASSUME OperandInv, [Next]_vars PROVE OperandInv'
  OBVIOUS
<1>1. ASSUME NEW r \in Regs, PlainTerm(r) PROVE OperandInv'
  BY <1>1, PlainTermKeeps
<1>2. ASSUME NEW r \in Regs, NEW s \in Scales, ScaledTerm(r, s) PROVE OperandInv'
  BY <1>2, ScaledTermKeeps
<1>3. ASSUME NEW v \in Literals, NEW sign \in {1, -1}, LiteralTerm(sign, v) PROVE OperandInv'
  BY <1>3, LiteralTermKeeps
<1>4. CASE SymbolTerm
  BY <1>4, SymbolTermKeeps
<1>5. CASE BadTerm
  <2>1. written' \in [times : [0 .. Rip -> Int], scales : SUBSET Nat, symbol : BOOLEAN, disp : Int]
    BY <1>5 DEF BadTerm, OperandInv
  <2> QED BY <1>5, <2>1, RejectKeeps DEF BadTerm
<1>6. CASE Close
  BY <1>6 DEF Close, OperandInv, Recorded
<1>7. ASSUME NEW tail \in Tails, Encode(tail) PROVE OperandInv'
  BY <1>7, EncodeKeeps
<1>8. CASE UNCHANGED vars
  BY <1>8 DEF vars, OperandInv, Recorded
<1> QED BY <1>1, <1>2, <1>3, <1>4, <1>5, <1>6, <1>7, <1>8 DEF Next

LEMMA OperandInvAlways == Spec => []OperandInv
BY OperandStarts, OperandKept, PTL DEF Spec

-----------------------------------------------------------------------------

\* AddressKept: for any terms, in any order, the processor computes the address
\* that was written.
THEOREM AddressKeptAlways == Spec => []AddressKept
<1>1. OperandInv => AddressKept
  <2> SUFFICES ASSUME OperandInv, Encoded, SibRulesEnforced, NoBaseEncoded, DispFits
               PROVE  Address(code) = Meaning /\ ReadLen(code) = code.len
    BY DEF AddressKept
  <2>1. PICK tail \in Tails : code = Encoding(mem, tail)
    BY DEF OperandInv, Encoded
  <2>2. /\ tail \in Nat /\ MemOK(mem) /\ Recorded
        /\ written.scales \subseteq {1, 2, 4, 8}
        /\ mem.base = Rip => mem.index = None
        /\ mem.base = None => NoBase(Encoding(mem, tail))
        /\ mem.symbol \/ Fits(mem.disp, Int32)
    BY <2>1, MemAssumption DEF OperandInv, Encoded, SibRulesEnforced, NoBaseEncoded, DispFits
  <2>3. Address(code) = AddressOfMem(mem) /\ ReadLen(code) = code.len
    BY <2>1, <2>2, EncodingMeans
  <2>4. AddressOfMem(mem) = Meaning
    <3> DEFINE W == written.times
    <3>1. /\ W \in [0 .. Rip -> Int] /\ written.symbol = mem.symbol /\ written.disp = mem.disp
          /\ \A r \in 0 .. Rip : W[r] = Counts(mem, r)
      BY <2>2 DEF OperandInv, Recorded
    <3>2. W[Rip] = 1 <=> mem.base = Rip
      <4>1. mem.index # Rip
        BY <2>2 DEF MemOK, Gpr, Rip, None
      <4>2. Rip \in 0 .. Rip
        BY DEF Rip
      <4>3. Counts(mem, Rip) = IF mem.base = Rip THEN 1 ELSE 0
        BY <4>1 DEF Counts
      <4> QED BY <3>1, <4>2, <4>3
    <3>3. AddressOfMem(mem).times = Meaning.times
      BY <3>1, <3>2 DEF AddressOfMem, Meaning
    <3> QED BY <3>1, <3>3 DEF AddressOfMem, Meaning
  <2> QED BY <2>3, <2>4
<1> QED BY <1>1, OperandInvAlways, PTL
=============================================================================
