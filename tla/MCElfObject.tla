---------------------------- MODULE MCElfObject -----------------------------
(***************************************************************************)
(* Instances of ElfObject small enough for TLC.                            *)
(***************************************************************************)
EXTENDS ElfObject

CONSTANTS nameX, nameY, noName

MCName    == {nameX, nameY, noName}
MCNameLen == [n \in MCName |-> CASE n = nameX -> 1 [] n = nameY -> 4 [] n = noName -> 0]

Sec(n, k, a)    == [name |-> n, kind |-> k, align |-> a]
SymAt(n, b, h)  == [name |-> n, bind |-> b, ref |-> "SECTION", section |-> h]
SymOf(n, b, r)  == [name |-> n, bind |-> b, ref |-> r, section |-> 0]

\* Sections without alignment, aligned beyond the 64 bytes of the header, and
\* without file bytes; one has the empty name.
MCSections == {Sec(nameX, "PROGBITS", 0), Sec(nameY, "PROGBITS", 128), Sec(noName, "NOBITS", 32)}

\* Symbols of every binding and anchor, named alike, unnamed and apart.
MCSymbols  == {SymAt(nameX, "GLOBAL", 1), SymOf(nameX, "WEAK", "UNDEF"),
               SymOf(noName, "LOCAL", "ABS")}
=============================================================================
