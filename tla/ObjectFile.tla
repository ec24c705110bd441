----------------------------- MODULE ObjectFile -----------------------------
(***************************************************************************)
(* What the ELF writer promises its callers (elf/elf.h): sections, symbols *)
(* and relocations may be added in any order, and finish yields, in one    *)
(* step, an object in which a linker finds exactly what was added, or      *)
(* fails and yields none.  How the object is laid out is nobody's concern. *)
(***************************************************************************)
EXTENDS ElfBuilder, SequencesExt

VARIABLE file     \* {what a linker finds in the finished object}, or {}

\* A name as a string table holds it: a sequence of text pieces.
Text(n) == IF n = NoName THEN <<>> ELSE <<n>>

SymbolSeen(h) ==
  LET y == symbols[h + 1]
  IN [name    |-> Text(y.name), bind |-> y.bind, ref |-> y.ref,
      section |-> IF y.ref = "SECTION" THEN y.section ELSE 0]

SectionSeen(h) ==
  LET s == sections[h + 1]
  IN [name  |-> Text(s.name), kind |-> s.kind, align |-> s.align, size |-> s.size,
      whole |-> TRUE,      \* its bytes are all there
      relas |-> [k \in 1 .. Len(s.relas) |->
                   [offset |-> s.relas[k].offset,
                    symbol |-> SymbolSeen(s.relas[k].symbol)]]]

\* Sections keep their order; the symbols are a bag, because finish may
\* reorder them.
Contents ==
  [sections |-> [k \in 1 .. Len(sections) |-> SectionSeen(k - 1)],
   symbols  |-> ToBag([k \in 1 .. Len(symbols) |-> SymbolSeen(k - 1)])]

Init == BuilderInit /\ file = {}

Change == BuilderStep /\ file' = {}
Finish == file' \in {{Contents}, {}} /\ UNCHANGED builderVars

Next == Change \/ Finish

Spec == Init /\ [][Next]_<<builderVars, file>>
=============================================================================
