------------------------------ MODULE ElfObject ------------------------------
(***************************************************************************)
(* Reading a finished image the way a linker does (System V gABI): from    *)
(* the ELF header to the section headers, from a header to its contents,   *)
(* from sh_link to a string table.  What is found must be what the caller  *)
(* added; that makes ElfSerialize an implementation of ObjectFile.         *)
(***************************************************************************)
EXTENDS ElfSerialize

\* The headers e_shnum announces.
Headers(o) == 1 .. o.shnum - 1

\* Where header k points, the file holds the contents meant for it.
HoldsOwn(o, k) ==
  \E j \in DOMAIN o.chunks : /\ o.chunks[j].at = o.shdrs[k].offset
                             /\ o.chunks[j].len = o.shdrs[k].size
                             /\ o.chunks[j].of = k

NoString == <<"no string there">>

\* The string at offset at of the string table under header k.
StringAt(o, k, at) ==
  IF k \notin DOMAIN o.strings \/ ~HoldsOwn(o, k) THEN NoString
  ELSE IF at = 0 THEN <<>>
  ELSE LET hits == {j \in DOMAIN o.strings[k] :
                      o.strings[k][j].bytes > 0 /\ Offset(o.strings[k], j) = at}
       IN IF hits = {} THEN NoString ELSE o.strings[k][CHOOSE j \in hits : TRUE].text

SectionName(o, k) == StringAt(o, o.shstrndx, o.shdrs[k].name)

SymtabHeaders(o) == {k \in Headers(o) : o.shdrs[k].type = "SYMTAB" /\ HoldsOwn(o, k)}

\* The handle of the section under header k: its place among the caller's.
HandleAt(o, k) == Cardinality({j \in 1 .. k - 1 : o.shdrs[j].type \in SecKind})

SymbolRead(o, y, p) ==
  LET e   == o.symtab[p]
      ref == IF e.shndx = 0 THEN "UNDEF" ELSE IF e.shndx = ShnAbs THEN "ABS" ELSE "SECTION"
  IN [name    |-> StringAt(o, o.shdrs[y].link, e.name), bind |-> e.bind, ref |-> ref,
      section |-> IF ref = "SECTION" /\ e.shndx \in Headers(o) THEN HandleAt(o, e.shndx) ELSE 0]

RelasRead(o, k) ==
  LET tables == {r \in Headers(o) : /\ o.shdrs[r].type = "RELA" /\ o.shdrs[r].info = k
                                    /\ o.shdrs[r].link \in SymtabHeaders(o)
                                    /\ SectionName(o, r) = <<".rela">> \o SectionName(o, k)
                                    /\ HoldsOwn(o, r)}
  IN IF tables = {} THEN <<>>
     ELSE LET r == CHOOSE r \in tables : TRUE
          IN [j \in 1 .. o.shdrs[r].size \div RelaSize |->
                [offset |-> o.relas[r][j].offset,
                 symbol |-> SymbolRead(o, o.shdrs[r].link, o.relas[r][j].sym)]]

SectionRead(o, k) ==
  LET s == o.shdrs[k]
  IN [name |-> SectionName(o, k), kind |-> s.type, align |-> s.align, size |-> s.size,
      whole |-> s.type = "NOBITS" \/ HoldsOwn(o, k), relas |-> RelasRead(o, k)]

Read(o) ==
  LET callers == {k \in Headers(o) : o.shdrs[k].type \in SecKind}
      HeaderOf(h) == CHOOSE k \in callers : HandleAt(o, k) = h
  IN [sections |-> [j \in 1 .. Cardinality(callers) |-> SectionRead(o, HeaderOf(j - 1))],
      symbols  |-> IF SymtabHeaders(o) = {} THEN ToBag(<<>>)
                   ELSE LET y == CHOOSE y \in SymtabHeaders(o) : TRUE
                        IN ToBag([p \in 1 .. (o.shdrs[y].size \div SymSize) - 1 |->
                                    SymbolRead(o, y, p)])]

-----------------------------------------------------------------------------

\* Steps of the serializer are internal until the image is handed over.
Abstract == INSTANCE ObjectFile WITH file <- {Read(o) : o \in image}

\* Whatever was added in whatever order, and however often finish is called,
\* a linker finds in the image each section, symbol and relocation under the
\* name, section and symbol the caller gave it (elf.h: handles stay valid,
\* finish resolves the cross-references), and each section's bytes or zeros
\* where its header points.
ImplementsObjectFile == Abstract!Spec

TypeOK ==
  /\ BuilderTypeOK
  /\ phase \in {"building", "layout", "finished"}
  /\ shdrs \in Seq([name : Nat, type : SecKind \cup {"SYMTAB", "STRTAB", "RELA"},
                    size : Nat, align : Nat \ {0}, link : Nat, info : Nat, offset : Nat])
  /\ chunks \in Seq([at : Nat, len : Nat, of : Nat])
  /\ end \in Nat

\* gABI: every local symbol precedes the first global one, and .symtab's
\* sh_info is that boundary (write order of step 2, sh_info of step 7).
LocalsFirst ==
  \A o \in image : \A k \in DOMAIN o.shdrs : o.shdrs[k].type = "SYMTAB" =>
     \A p \in DOMAIN o.symtab : p < o.shdrs[k].info <=> o.symtab[p].bind = "LOCAL"

\* Contents stand one after the other between the ELF header and the section
\* headers, each at a multiple of its sh_addralign, the headers at one of 8.
ContentsPlaced ==
  \A o \in image :
     /\ o.shoff % 8 = 0
     /\ \A j \in DOMAIN o.chunks :
          LET c == o.chunks[j]
          IN /\ EhdrSize <= c.at /\ c.at + c.len <= o.shoff
             /\ c.at % o.shdrs[c.of].align = 0
             /\ \A i \in 1 .. j - 1 : o.chunks[i].at + o.chunks[i].len <= c.at

\* No two sections share a byte of the file or touch its headers, what must be
\* aligned is, and .symtab is cut where its sh_info says (serialize.c:36, 145).
FileLayout == ContentsPlaced /\ LocalsFirst
=============================================================================
