------------------------------- MODULE AsmUnit -------------------------------
(***************************************************************************)
(* The assembly unit (asm/internal/unit.c, section.c, symtab.c, fixups.c): *)
(* everything one run of the assembler accumulates about its output.       *)
(*                                                                         *)
(* Sections and symbols are named by their names instead of their indices: *)
(* both tables find a name before they add it, so a name has one index.    *)
(* A section is its kind, size and alignment; its bytes are left out but   *)
(* for the fields the fixups describe.                                     *)
(***************************************************************************)
EXTENDS InsnLayout, FiniteSets

CONSTANTS
  SecName,    \* section names; ".text" is one of them
  U64,        \* 2^64, scaled down: sizes in a NOBITS section wrap at U64
  MemLimit    \* the longest byte buffer the allocator can ever provide

ASSUME SecNameAssumption == ".text" \in SecName
ASSUME WordAssumption    == /\ U64 \in Nat /\ MemLimit \in Nat
                            /\ MemLimit < U64

VARIABLES
  sects,      \* section names in first-seen order (qas_asm_section_set)
  sec,        \* SecName -> [kind, size, align]; kind "none" = not seen
  cur,        \* the current output section
  syms,       \* symbol names in interning order (qas_asm_symtab)
  sym,        \* Sym -> symbol record; where "none" = not interned
  fixes       \* pending fixups in section coordinates (qas_asm_fix_list)

unitVars == <<sects, sec, cur, syms, sym, fixes>>

SecKind  == {"PROGBITS", "NOBITS"}
Section  == [kind : SecKind \cup {"none"}, size : Nat, align : Nat \ {0}]
Symbol   == [where : {"none", "UNDEF", "SECTION", "ABS"}, section : SecName,
             value : Nat, global : BOOLEAN, referenced : BOOLEAN]
Fix      == [sec : SecName, offset : Nat, kind : FixKind, sym : Sym,
             addend : Int]

UnitTypeOK ==
  /\ sects \in Seq(SecName)
  /\ sec \in [SecName -> Section]
  /\ cur \in SecName
  /\ syms \in Seq(Sym)
  /\ sym \in [Sym -> Symbol]
  /\ fixes \in Seq(Fix)

-----------------------------------------------------------------------------
(* Sections. *)

SecSeen(n)    == sec[n].kind # "none"
NewSection(k) == [kind |-> k, size |-> 0, align |-> 1]

\* The offset the next emitted byte of the current section would take.
Here       == sec[cur].size
InNobits   == sec[cur].kind = "NOBITS"

\* Fault: the section is added again without looking for it first.
SelectFresh(n, k) ==
  /\ cur' = n
  /\ sects' = Append(sects, n)
  /\ sec'   = [sec EXCEPT ![n] = NewSection(k)]

\* Switch to n, adding it with kind k the first time it is named; an
\* existing section keeps its attributes.
SelectSection(n, k) ==
  /\ cur' = n
  /\ IF SecSeen(n) THEN UNCHANGED <<sects, sec>>
     ELSE /\ sects' = Append(sects, n)
          /\ sec'   = [sec EXCEPT ![n] = NewSection(k)]

(***************************************************************************)
(* Emission.  A NOBITS section only counts, modulo 2^64; a PROGBITS one    *)
(* appends to a buffer that may not grow past what can be allocated, and   *)
(* whose length computation is checked for wrap-around (buf.c).            *)
(***************************************************************************)
CanGrow(n) == InNobits \/ Here + n <= MemLimit

GrowFailure(n) == IF Here + n >= U64 THEN "OVERFLOW" ELSE "OUT_OF_MEMORY"

Grown(n) == IF InNobits THEN (Here + n) % U64 ELSE Here + n

EmitBytes(n) == sec' = [sec EXCEPT ![cur].size = Grown(n)]

\* Bytes of padding up to the next multiple of a.
Padding(a) == IF a <= 1 \/ Here % a = 0 THEN 0 ELSE a - (Here % a)

\* Fault: the padding is emitted but sh_addralign is not raised.
PadOnly(a) == sec' = [sec EXCEPT ![cur].size = Grown(Padding(a))]

\* Fault: the last alignment replaces a larger earlier one.
AlignReplaces(a) ==
  sec' = [sec EXCEPT ![cur].size = Grown(Padding(a)), ![cur].align = a]

AlignTo(a) ==
  sec' = [sec EXCEPT ![cur].size  = Grown(Padding(a)),
                     ![cur].align = IF a > @ THEN a ELSE @]

-----------------------------------------------------------------------------
(* Symbols. *)

NoSymbol == [where |-> "none", section |-> ".text", value |-> 0,
             global |-> FALSE, referenced |-> FALSE]

Interned(s) == sym[s].where # "none"
Defined(s)  == sym[s].where \in {"SECTION", "ABS"}

\* The record of s after qas_asm_symtab_intern, and the order it leaves.
Intern(s)      == IF Interned(s) THEN sym[s] ELSE [sym[s] EXCEPT !.where = "UNDEF"]
InternOrder(s) == IF Interned(s) THEN syms ELSE Append(syms, s)

\* Intern s and store the changed record r in one step.
Store(s, r) ==
  /\ syms' = InternOrder(s)
  /\ sym'  = [sym EXCEPT ![s] = r]

-----------------------------------------------------------------------------
(* Fixups of the instruction encoded at Here, in section coordinates. *)

FixOf(f) == [sec |-> cur, offset |-> Here + f.offset, kind |-> f.kind,
             sym |-> f.sym, addend |-> f.addend]

\* Fault: the base offset is read after the bytes were emitted.
InsnFixesLate(i) ==
  [k \in 1 .. Len(Fixups(i)) |->
     [FixOf(Fixups(i)[k]) EXCEPT !.offset = @ + InsnLen(i)]]

InsnFixes(i) == [k \in 1 .. Len(Fixups(i)) |-> FixOf(Fixups(i)[k])]

UnitInit ==
  /\ sects = <<".text">>
  /\ sec   = [n \in SecName |-> NewSection(IF n = ".text" THEN "PROGBITS"
                                                          ELSE "none")]
  /\ cur   = ".text"
  /\ syms  = <<>>
  /\ sym   = [s \in Sym |-> NoSymbol]
  /\ fixes = <<>>
=============================================================================
