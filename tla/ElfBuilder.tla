----------------------------- MODULE ElfBuilder -----------------------------
(***************************************************************************)
(* The growing side of the ELF writer (elf/elf.c): sections, symbols and   *)
(* relocations are added in any order and referred to by handles, which    *)
(* count from 0.  A call with a handle that was not handed out is refused  *)
(* and changes nothing, so only accepted calls are steps.  Section flags,  *)
(* symbol types, values and sizes, and relocation types and addends are    *)
(* copied through unchanged and left out.                                  *)
(***************************************************************************)
EXTENDS Naturals, Sequences

CONSTANTS
  Name,            \* the names of sections and symbols
  NoName,          \* the empty name, a member of Name
  SectionChoices,  \* the sections, symbols and amounts a caller may ask for
  SymbolChoices,
  Amounts,
  Sites,           \* offsets of relocations
  MaxSize,         \* bounds on what a caller adds; MaxSize is below 2^64
  MaxSections,
  MaxSymbols,
  MaxRelas

SecKind == {"PROGBITS", "NOBITS"}
Bind    == {"LOCAL", "GLOBAL", "WEAK"}
SymRef  == {"UNDEF", "SECTION", "ABS"}

ASSUME BuilderAssumption ==
  /\ NoName \in Name
  /\ SectionChoices \subseteq [name : Name, kind : SecKind, align : Nat]
  /\ SymbolChoices \subseteq [name : Name, bind : Bind, ref : SymRef, section : Nat]
  /\ Amounts \subseteq Nat /\ Sites \subseteq Nat
  /\ MaxSize \in Nat /\ MaxSections \in Nat
  /\ MaxSymbols \in Nat /\ MaxRelas \in Nat

VARIABLES
  sections,   \* the output sections, each with its relocations
  symbols     \* the symbols, in the order added

builderVars == <<sections, symbols>>

Rela    == [offset : Nat, symbol : Nat]
Section == [name : Name, kind : SecKind, align : Nat \ {0}, size : Nat, relas : Seq(Rela)]
Symbol  == [name : Name, bind : Bind, ref : SymRef, section : Nat]

BuilderTypeOK ==
  /\ sections \in Seq(Section)
  /\ symbols \in Seq(Symbol)

SectionHandles == 0 .. Len(sections) - 1
SymbolHandles  == 0 .. Len(symbols) - 1

\* Fault: sh_addralign 0 is kept, though alignment arithmetic divides by it.
AsAsked(align) == align

\* Alignments 0 and 1 both mean none.
Effective(align) == IF align = 0 THEN 1 ELSE align

AddSection(c) ==
  /\ Len(sections) < MaxSections
  /\ sections' = Append(sections, [name |-> c.name, kind |-> c.kind, size |-> 0,
                                   align |-> Effective(c.align), relas |-> <<>>])
  /\ UNCHANGED symbols

\* qas_elf_builder_append serves PROGBITS sections, reserve_bss NOBITS ones.
Grow(h, n) ==
  /\ sections[h + 1].size + n <= MaxSize
  /\ sections' = [sections EXCEPT ![h + 1].size = @ + n]
  /\ UNCHANGED symbols

AddSymbol(c) ==
  /\ Len(symbols) < MaxSymbols
  /\ c.ref = "SECTION" => c.section \in SectionHandles
  /\ symbols' = Append(symbols, c)
  /\ UNCHANGED sections

AddRela(h, o, y) ==
  /\ Len(sections[h + 1].relas) < MaxRelas
  /\ sections' = [sections EXCEPT ![h + 1].relas = Append(@, [offset |-> o, symbol |-> y])]
  /\ UNCHANGED symbols

BuilderInit == sections = <<>> /\ symbols = <<>>

BuilderStep ==
  \/ \E c \in SectionChoices : AddSection(c)
  \/ \E h \in SectionHandles, n \in Amounts : Grow(h, n)
  \/ \E c \in SymbolChoices : AddSymbol(c)
  \/ \E h \in SectionHandles, o \in Sites, y \in SymbolHandles : AddRela(h, o, y)
=============================================================================
