----------------------------- MODULE AsmMeaning -----------------------------
(***************************************************************************)
(* What qas_assemble promises about its result: an object exactly for the  *)
(* valid programs, with the sections, symbols and, once linked, the field  *)
(* values the program means (AsmReference).                                *)
(***************************************************************************)
EXTENDS AsmDriver

CONSTANT Bases      \* addresses a linker may choose

ASSUME BasesAssumption == Bases \subseteq Nat

Ref == INSTANCE AsmReference

Object == CHOOSE o \in image : TRUE

\* The object exists exactly if the program is valid: one bad statement
\* anywhere suppresses it, and nothing valid is refused (asm.h: "non-NULL
\* exactly when assembly succeeded").
ObjectIffValid ==
  phase = "done" /\ status = "OK" => (image # {} <=> Ref!Valid(prog))

\* A label names the place where it was written and a .set name its last
\* value, whatever was interned, referenced or made global before or after.
SymbolsCorrect ==
  image # {} =>
    LET entries == Object.symbols
    IN /\ {entries[k] : k \in DOMAIN entries}
            = {Ref!EntryOf(prog, s) : s \in Ref!Exported(prog)}
       /\ Len(entries) = Cardinality(Ref!Exported(prog))

\* The object holds just the needed sections, each with the kind and size
\* the statements add up to, and aligned to every alignment asked for in it.
SectionsCorrect ==
  image # {} =>
    LET end == Ref!Layout(prog)[Len(prog)]
        got == Object.sections
    IN /\ {got[k].name : k \in DOMAIN got} = Ref!Needed(prog)
       /\ Len(got) = Cardinality(Ref!Needed(prog))
       /\ \A k \in DOMAIN got :
            /\ got[k].attrs.kind = end.kind[got[k].name]
            /\ got[k].attrs.size = end.size[got[k].name]
            /\ \A m \in Ref!AlignsIn(prog, got[k].name) : got[k].attrs.align % m = 0

-----------------------------------------------------------------------------
(* Linking: base places the sections, ext gives the symbols that another   *)
(* object may define, undefined or global, their addresses.                *)

EntryAddress(e, base, ext) ==
  IF e.bind = "GLOBAL" THEN ext[e.name]
  ELSE IF e.ref = "ABS" THEN e.value
  ELSE base[e.section] + e.value

EntryNamed(n) ==
  CHOOSE e \in {Object.symbols[k] : k \in DOMAIN Object.symbols} : e.name = n

\* The psABI computation of a relocation record.
RelocValue(r, base, ext) ==
  LET S == EntryAddress(EntryNamed(r.sym), base, ext)
  IN IF r.type = "R_X86_64_PC32" THEN S + r.addend - (base[r.sec] + r.offset)
     ELSE S + r.addend

RelocWidth(r) == IF r.type = "R_X86_64_64" THEN 8 ELSE 4

\* What the CPU must find in field f.
FieldValue(f, base, ext) ==
  LET S == EntryAddress(Ref!EntryOf(prog, f.sym), base, ext)
  IN IF f.pc THEN S + f.add - (base[f.sec] + f.after) ELSE S + f.add

\* Wherever the linker puts the sections and whatever it binds the global
\* symbols to, every symbolic field of the linked program, patched by the
\* driver or relocated by the linker, but never both, holds the value the
\* source asks for; and nothing else is patched or relocated.
LinkCorrect ==
  image # {} =>
    LET relas  == {Object.relas[k] : k \in DOMAIN Object.relas}
        fields == Ref!Fields(prog)
        RelasAt(f)   == {r \in relas : r.sec = f.sec /\ r.offset = f.offset}
        PatchesAt(f) == {q \in patches : q.sec = f.sec /\ q.offset = f.offset}
    IN /\ Len(Object.relas) + Cardinality(patches) = Cardinality(fields)
       /\ \A f \in fields :
            /\ Cardinality(RelasAt(f)) + Cardinality(PatchesAt(f)) = 1
            /\ \A r \in RelasAt(f) : RelocWidth(r) = f.width
            /\ \A base \in [SecName -> Bases], ext \in [Sym -> Bases] :
                 /\ \A r \in RelasAt(f) :
                      RelocValue(r, base, ext) = FieldValue(f, base, ext)
                 /\ \A q \in PatchesAt(f) : q.value = FieldValue(f, base, ext)
=============================================================================
