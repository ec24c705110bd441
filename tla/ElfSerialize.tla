---------------------------- MODULE ElfSerialize ----------------------------
(***************************************************************************)
(* qas_elf_serialize (elf/internal/serialize.c): the builder's contents    *)
(* become an ELF64 relocatable image.                                      *)
(*                                                                         *)
(*   building  the caller is still adding                                  *)
(*   layout    the tables are made (steps 1 to 6 of the code) and the      *)
(*             contents are being placed (step 7), one header per step     *)
(*   finished  finish has returned, with an image or without               *)
(*                                                                         *)
(* The headers of a file are, in order: the caller's sections, .symtab,    *)
(* .strtab, a .rela section for each section with relocations, .shstrtab.  *)
(* shdrs[k] is header k; header 0, all zero, is left out.  A chunk says    *)
(* which header's contents the file holds from an offset on.               *)
(***************************************************************************)
EXTENDS ElfBuilder, SequencesExt

CONSTANTS
  NameLen,       \* length of each name
  Half,          \* 2^16, scaled down: the width of e_shnum and st_shndx
  ShnAbs,        \* SHN_ABS, scaled down
  AllocMayFail   \* whether memory may run out while serializing

ASSUME SerializeAssumption ==
  /\ NameLen \in [Name -> Nat] /\ NameLen[NoName] = 0
  /\ Half \in Nat \ {0} /\ ShnAbs \in 1 .. Half - 1
  /\ AllocMayFail \in BOOLEAN

VARIABLES
  phase,
  shdrs,      \* the headers filled in so far
  chunks,     \* the contents placed so far
  end,        \* file offset of the next content byte (base + content.len)
  image       \* {object}, or {} while *out_image is NULL

vars == <<builderVars, phase, shdrs, chunks, end, image>>

EhdrSize == 64
SymSize  == 24
RelaSize == 24

-----------------------------------------------------------------------------
(* Step 1: header indices. *)

SectionCount == Len(sections)

\* Fault: the null header is forgotten.
IndexFromZero(h) == h

SectionIndex(h) == 1 + h
SymtabIndex  == 1 + SectionCount
StrtabIndex  == 2 + SectionCount

\* The handles in H, all below n, in the order they were given out.
InOrder(H, n) ==
  LET below[i \in 0 .. n] ==
        IF i = 0 THEN <<>>
        ELSE IF i - 1 \in H THEN Append(below[i - 1], i - 1) ELSE below[i - 1]
  IN below[n]

HaveRelas    == {h \in SectionHandles : sections[h + 1].relas # <<>>}
RelaOwners   == InOrder(HaveRelas, SectionCount)
ShstrtabIndex == 3 + SectionCount + Len(RelaOwners)
HeaderCount  == ShstrtabIndex + 1

\* The section the relocations under header k apply to.
RelaOwner(k) == RelaOwners[k - StrtabIndex]

(* Step 2: locals first, each part in the order added. *)

Locals    == {h \in SymbolHandles : symbols[h + 1].bind = "LOCAL"}
NonLocals == SymbolHandles \ Locals

\* Fault: the symbols keep the order they were added in.
OrderAdded == InOrder(SymbolHandles, Len(symbols))

\* SymbolOrder[p] is the handle of symbol-table entry p.
SymbolOrder == InOrder(Locals, Len(symbols)) \o InOrder(NonLocals, Len(symbols))

FirstGlobal == 1 + Len(InOrder(Locals, Len(symbols)))

\* Fault: relocations keep the builder's numbering of the symbols.
IndexAdded(h) == 1 + h

FinalIndex(h) == CHOOSE p \in DOMAIN SymbolOrder : SymbolOrder[p] = h

(***************************************************************************)
(* Steps 3 and 6: string tables.  A table is its strings in order, each    *)
(* with the bytes it takes; the empty string at 0 comes before them all.   *)
(***************************************************************************)
Text(n) == IF n = NoName THEN <<>> ELSE <<n>>

Offset(table, k) ==
  LET after[j \in 0 .. Len(table)] ==
        IF j = 0 THEN 1 ELSE after[j - 1] + table[j].bytes
  IN after[k - 1]

TableSize(table) == Offset(table, Len(table) + 1)

\* An unnamed symbol takes no bytes and its st_name is 0.
Strtab ==
  [p \in 1 .. Len(symbols) |->
     LET n == symbols[SymbolOrder[p] + 1].name
     IN [text |-> Text(n), bytes |-> IF n = NoName THEN 0 ELSE NameLen[n] + 1]]

StName(p) == IF Strtab[p].bytes = 0 THEN 0 ELSE Offset(Strtab, p)

\* The name of section h, behind prefix.
NameEntry(prefix, plen, h) ==
  [text |-> prefix \o Text(sections[h + 1].name),
   bytes |-> plen + NameLen[sections[h + 1].name] + 1]

\* Header k's name is entry k.
Shstrtab ==
  [k \in 1 .. SectionCount |-> NameEntry(<<>>, 0, k - 1)]
  \o <<[text |-> <<".symtab">>, bytes |-> 8], [text |-> <<".strtab">>, bytes |-> 8]>>
  \o [k \in 1 .. Len(RelaOwners) |-> NameEntry(<<".rela">>, 5, RelaOwners[k])]
  \o <<[text |-> <<".shstrtab">>, bytes |-> 10]>>

(* Steps 4 and 5: symbol and relocation entries. *)

Shndx(y) == CASE y.ref = "UNDEF"   -> 0
              [] y.ref = "ABS"     -> ShnAbs
              [] y.ref = "SECTION" -> SectionIndex(y.section) % Half

SymtabEntries ==
  [p \in 1 .. Len(symbols) |->
     LET y == symbols[SymbolOrder[p] + 1]
     IN [name |-> StName(p), bind |-> y.bind, shndx |-> Shndx(y)]]

RelaEntries(h) ==
  [k \in 1 .. Len(sections[h + 1].relas) |->
     [offset |-> sections[h + 1].relas[k].offset,
      sym    |-> FinalIndex(sections[h + 1].relas[k].symbol)]]

-----------------------------------------------------------------------------
(* Step 7: headers and contents. *)

Header(k) ==
  LET rec(type, size, align, link, info) ==
        [name |-> Offset(Shstrtab, k), type |-> type, size |-> size,
         align |-> align, link |-> link, info |-> info, offset |-> 0]
  IN CASE k <= SectionCount ->
            rec(sections[k].kind, sections[k].size, sections[k].align, 0, 0)
       [] k = SymtabIndex ->
            rec("SYMTAB", SymSize * (1 + Len(symbols)), 8, StrtabIndex, FirstGlobal)
       [] k = StrtabIndex -> rec("STRTAB", TableSize(Strtab), 1, 0, 0)
       [] k \in StrtabIndex + 1 .. ShstrtabIndex - 1 ->
            rec("RELA", RelaSize * Len(sections[RelaOwner(k) + 1].relas), 8,
                SymtabIndex, SectionIndex(RelaOwner(k)))
       [] k = ShstrtabIndex -> rec("STRTAB", TableSize(Shstrtab), 1, 0, 0)

\* Fault: alignment is measured in the contents, not in the file.
AlignContents(at, align) ==
  at + ((align - ((at - EhdrSize) % align)) % align)

\* The first multiple of align from file offset at on (align_content).
AlignContent(at, align) == at + ((align - (at % align)) % align)

\* Place the contents of the next header.  A NOBITS section has none, and
\* its offset is where the next byte would go.
Place ==
  /\ phase = "layout" /\ Len(shdrs) + 1 < HeaderCount
  /\ LET k      == Len(shdrs) + 1
         hdr    == Header(k)
         nobits == hdr.type = "NOBITS"
         start  == IF nobits THEN end ELSE AlignContent(end, hdr.align)
     IN /\ shdrs'  = Append(shdrs, [hdr EXCEPT !.offset = start])
        /\ chunks' = IF nobits THEN chunks
                     ELSE Append(chunks, [at |-> start, len |-> hdr.size, of |-> k])
        /\ end'    = IF nobits THEN end ELSE start + hdr.size
  /\ UNCHANGED <<builderVars, phase, image>>

\* The file: ELF header, contents hs describes and cs places, header table.
Object(hs, cs, at) ==
  [shoff    |-> AlignContent(at, 8),
   shnum    |-> HeaderCount % Half,
   shstrndx |-> ShstrtabIndex % Half,
   shdrs    |-> hs,
   chunks   |-> cs,
   strings  |-> [k \in {StrtabIndex, ShstrtabIndex} |->
                   IF k = StrtabIndex THEN Strtab ELSE Shstrtab],
   symtab   |-> SymtabEntries,
   relas    |-> [k \in StrtabIndex + 1 .. ShstrtabIndex - 1 |-> RelaEntries(RelaOwner(k))]]

\* Steps 8 to 10: the header table follows the contents.
Assemble ==
  /\ phase = "layout" /\ Len(shdrs) + 1 = HeaderCount
  /\ phase' = "finished"
  /\ image' = {Object(shdrs, chunks, end)}
  /\ shdrs' = <<>> /\ chunks' = <<>> /\ end' = EhdrSize
  /\ UNCHANGED builderVars

\* The first failing buffer operation ends it without an image.
SerializeFails ==
  /\ AllocMayFail /\ phase = "layout"
  /\ phase' = "finished" /\ shdrs' = <<>> /\ chunks' = <<>> /\ end' = EhdrSize
  /\ UNCHANGED <<builderVars, image>>

-----------------------------------------------------------------------------
(* The caller. *)

Fresh == shdrs' = <<>> /\ chunks' = <<>> /\ end' = EhdrSize /\ image' = {}

\* The builder is left intact by finish: the caller may go on adding to it.
Build ==
  /\ phase \in {"building", "finished"}
  /\ BuilderStep
  /\ phase' = "building" /\ Fresh

Finish ==
  /\ phase \in {"building", "finished"}
  /\ phase' = "layout" /\ Fresh
  /\ UNCHANGED builderVars

Init ==
  /\ BuilderInit
  /\ phase = "building" /\ shdrs = <<>> /\ chunks = <<>> /\ end = EhdrSize
  /\ image = {}

Next == Build \/ Finish \/ Place \/ Assemble \/ SerializeFails

Spec == Init /\ [][Next]_vars
=============================================================================
