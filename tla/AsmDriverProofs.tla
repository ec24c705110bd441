--------------------------- MODULE AsmDriverProofs ---------------------------
(***************************************************************************)
(* Proofs about AsmDriver, for every symbol set, section set, program      *)
(* alphabet and bound its assumptions allow.                               *)
(*                                                                         *)
(*   1. typing: TypeOK, with the fact it leans on, that the argument loop  *)
(*      in progress has an argument left (LoopHasArg)                      *)
(*   2. safety: the fixups are recorded where pass 3a may patch them,      *)
(*      labels stay put, and the driver never trips its internal checks    *)
(*   3. the reference (AsmReference): how layout, symbols and fields grow  *)
(*      by a statement                                                     *)
(*   4. the agreement: driver and reference agree on what was read so far, *)
(*      and every step of the driver keeps it                              *)
(*   5. there is an object exactly for the valid programs                  *)
(*   6. the section and symbol tables list no name twice                   *)
(*   7. pass 3a patches or relocates every fixup once                      *)
(*   8. so the object's symbols and sections are those the source calls for *)
(*   9. and every symbolic field, once linked, holds the value it asks for *)
(*                                                                         *)
(* Every step has one of three effects on the sections (SectionEffect) and *)
(* one of two on the symbols (SymbolEffect).  StepEffects shows it action  *)
(* by action; the theorems of part 2 argue from the effects alone.         *)
(***************************************************************************)
EXTENDS AsmMeaning, NatLemmas, FunctionTheorems, SequenceTheorems, TLAPS

\* The loop over a directive's arguments is left with its last argument.
LoopHasArg == work = NoWork \/ (work \in ArgStmt /\ work.args # <<>>)

\* The typing of everything but the history variable, which Take extends.
StateTypeOK ==
  /\ UnitTypeOK
  /\ phase \in {"layout", "resolve", "build", "done"}
  /\ work \in ArgStmt \cup {NoWork}
  /\ errs \in Nat
  /\ next \in Nat \ {0}
  /\ patches \subseteq Patch
  /\ relocs \in Seq(Reloc)
  /\ status \in {"OK", "OUT_OF_MEMORY", "OVERFLOW", "INVALID_ARGUMENT"}
  /\ LoopHasArg

-----------------------------------------------------------------------------
(* What the helpers of AsmUnit and InsnLayout return. *)

\* Values the scaled-down word type can hold are naturals (size_t, uint64_t).
LEMMA WordsAreNat ==
  /\ Zeros \subseteq Nat
  /\ Aligns \subseteq Nat \ {0}
  /\ AbsValues \subseteq Nat
  /\ U64 \in Nat \ {0}
BY StmtAssumption, WordAssumption

\* The fixups qas_encode returns have the fields of a qas_fixup.
InsnFixup == [offset : Nat, kind : FixKind, sym : Sym, addend : Int]

\* qas_encode returns at most one well-formed fixup per field.
LEMMA FixupsType ==
  ASSUME NEW i \in Insns, Encodable(i)
  PROVE  Fixups(i) \in Seq(InsnFixup)
<1>1. i \in Insn
  BY StmtAssumption
<1>2. /\ i.head \in Nat
      /\ i.disp \in DispField
      /\ i.imm \in ImmField
  BY <1>1 DEF Insn
<1>3. /\ i.disp.width \in Nat /\ i.disp.sym \in Sym /\ i.disp.add \in Int
      /\ i.imm.width \in Nat /\ i.imm.sym \in Sym /\ i.imm.add \in Int
  BY <1>2 DEF DispField, ImmField, Field
<1>4. DispFixup(i) \in InsnFixup
  BY <1>2, <1>3 DEF DispFixup, InsnFixup, FixKind
<1>5. ImmFixup(i) \in InsnFixup
  BY <1>2, <1>3 DEF ImmFixup, InsnFixup, FixKind
<1> DEFINE d == IF IsSymbolic(i.disp) THEN <<DispFixup(i)>> ELSE <<>>
           m == IF IsSymbolic(i.imm)  THEN <<ImmFixup(i)>>  ELSE <<>>
<1>6. d \in Seq(InsnFixup) /\ m \in Seq(InsnFixup)
  BY <1>4, <1>5
<1>7. d \o m \in Seq(InsnFixup)
  BY <1>6, ConcatProperties
<1> QED BY <1>7 DEF Fixups

\* emit_instruction records them in section coordinates.
LEMMA InsnFixesType ==
  ASSUME UnitTypeOK, NEW i \in Insns, Encodable(i)
  PROVE  InsnFixes(i) \in Seq(Fix)
<1>1. Fixups(i) \in Seq(InsnFixup)
  BY FixupsType
<1>2. Len(Fixups(i)) \in Nat
  BY <1>1, LenProperties
<1>3. ASSUME NEW k \in 1 .. Len(Fixups(i))
      PROVE  FixOf(Fixups(i)[k]) \in Fix
  <2>1. Fixups(i)[k] \in InsnFixup
    BY <1>1, ElementOfSeq
  <2>2. Here \in Nat /\ cur \in SecName
    BY DEF UnitTypeOK, Section, Here
  <2> QED BY <2>1, <2>2 DEF FixOf, InsnFixup, Fix
<1> QED BY <1>2, <1>3 DEF InsnFixes

\* Emitting n bytes keeps the section table well formed.
LEMMA EmitBytesType ==
  ASSUME UnitTypeOK, NEW n \in Nat, EmitBytes(n)
  PROVE  sec' \in [SecName -> Section]
<1>1. Grown(n) \in Nat
  BY WordsAreNat DEF UnitTypeOK, Section, Grown, Here
<1> QED BY <1>1 DEF UnitTypeOK, Section, EmitBytes

\* qas_asm_unit_align asks for a natural number of bytes.
LEMMA PaddingType ==
  ASSUME UnitTypeOK, NEW a \in Nat \ {0}
  PROVE  Padding(a) \in Nat
<1>1. Here \in Nat
  BY DEF UnitTypeOK, Section, Here
<1>2. Here % a \in 0 .. a - 1
  BY <1>1
<1> QED BY <1>1, <1>2 DEF Padding

\* Selecting a section keeps the section table well formed.
LEMMA SelectSectionType ==
  ASSUME UnitTypeOK, NEW n \in SecName, NEW k \in SecKind, SelectSection(n, k)
  PROVE  /\ cur' \in SecName
         /\ sects' \in Seq(SecName)
         /\ sec' \in [SecName -> Section]
<1>1. NewSection(k) \in Section
  BY DEF NewSection, Section
<1>2. CASE SecSeen(n)
  BY <1>2 DEF SelectSection, UnitTypeOK
<1>3. CASE ~SecSeen(n)
  <2>1. sects' = Append(sects, n) /\ sec' = [sec EXCEPT ![n] = NewSection(k)]
    BY <1>3 DEF SelectSection
  <2> QED BY <1>1, <2>1, AppendProperties DEF SelectSection, UnitTypeOK
<1> QED BY <1>2, <1>3

\* Storing a symbol record interns its name at most once.
LEMMA StoreType ==
  ASSUME UnitTypeOK, NEW s \in Sym, NEW r \in Symbol, Store(s, r)
  PROVE  syms' \in Seq(Sym) /\ sym' \in [Sym -> Symbol]
BY DEF Store, InternOrder, UnitTypeOK

\* Interning a name yields a well-formed symbol record.
LEMMA InternType ==
  ASSUME UnitTypeOK, NEW s \in Sym
  PROVE  Intern(s) \in Symbol
<1>1. sym[s] \in Symbol
  BY DEF UnitTypeOK
<1> QED BY <1>1 DEF Intern, Symbol

\* What a buffer that cannot grow answers.
GrownStatus == {"OVERFLOW", "OUT_OF_MEMORY"}

\* A buffer that cannot grow fails with one of two statuses.
LEMMA GrowFailureType == \A n : GrowFailure(n) \in GrownStatus
BY DEF GrowFailure, GrownStatus

-----------------------------------------------------------------------------
(* The outcomes shared by the actions keep the typing. *)

\* The statuses that end a run early.
Fatal == {"OUT_OF_MEMORY", "OVERFLOW", "INVALID_ARGUMENT"}

\* The error exit (done:) leaves a well-formed final state.
LEMMA AbortType ==
  ASSUME StateTypeOK, NEW st \in Fatal, Abort(st)
  PROVE  StateTypeOK'
BY DEF StateTypeOK, UnitTypeOK, LoopHasArg, Fatal, Abort, unitVars, resolveVars

\* Taking a statement means that no argument loop is running.
LEMMA TakeType ==
  ASSUME prog \in Seq(StmtRecord), NEW st \in StmtRecord, Take(st)
  PROVE  prog' \in Seq(StmtRecord) /\ work = NoWork
BY AppendProperties DEF Take

\* An argument loop ends exactly when its last argument is consumed.
LEMMA AdvanceType ==
  ASSUME LoopHasArg, work # NoWork, Advance
  PROVE  work' \in ArgStmt \cup {NoWork} /\ LoopHasArg'
<1>1. work \in ArgStmt /\ work.args # <<>>
  BY DEF LoopHasArg
<1>2. work.args \in Seq(Arg)
  BY <1>1 DEF ArgStmt
<1>3. CASE Len(work.args) = 1
  BY <1>3 DEF Advance, LoopHasArg
<1>4. CASE Len(work.args) # 1
  <2>1. work' = [work EXCEPT !.args = Tail(@)]
    BY <1>4 DEF Advance
  <2>2. Tail(work.args) \in Seq(Arg) /\ Tail(work.args) # <<>>
    <3>1. Len(work.args) \in Nat \ {0}
      BY <1>1, <1>2, EmptySeq
    <3>2. Tail(work.args) \in Seq(Arg) /\ Len(Tail(work.args)) = Len(work.args) - 1
      BY <1>1, <1>2, HeadTailProperties
    <3>3. Len(Tail(work.args)) # 0
      BY <1>4, <3>1, <3>2
    <3> QED BY <3>2, <3>3, EmptySeq
  <2>3. work' \in ArgStmt
    BY <1>1, <2>1, <2>2 DEF ArgStmt
  <2>4. work'.args = Tail(work.args)
    BY <1>1, <2>1 DEF ArgStmt
  <2> QED BY <2>2, <2>3, <2>4 DEF LoopHasArg
<1> QED BY <1>3, <1>4

\* A running loop always has an argument in hand.
LEMMA NextArgType ==
  ASSUME LoopHasArg, work # NoWork
  PROVE  NextArg \in Arg /\ work.width \in Nat /\ work \in ArgStmt
<1>1. work \in ArgStmt /\ work.args # <<>>
  BY DEF LoopHasArg
<1>2. work.args \in Seq(Arg) /\ work.width \in Nat
  BY <1>1 DEF ArgStmt
<1> QED BY <1>1, <1>2, HeadTailProperties DEF NextArg

\* Growing the current section, with its fixups, or failing to.
LEMMA EmitType ==
  ASSUME StateTypeOK, NEW n \in Nat, NEW f \in Seq(Fix), Emit(n, f)
  PROVE  StateTypeOK'
<1>1. CASE CanGrow(n)
  <2>1. /\ EmitBytes(n) /\ fixes' = fixes \o f
        /\ UNCHANGED <<sects, cur, syms, sym, errs, work>> /\ Continue
    BY <1>1 DEF Emit
  <2>2. sec' \in [SecName -> Section]
    BY <2>1, EmitBytesType DEF StateTypeOK
  <2>3. fixes' \in Seq(Fix)
    BY <2>1, ConcatProperties DEF StateTypeOK, UnitTypeOK
  <2> QED BY <2>1, <2>2, <2>3
          DEF StateTypeOK, UnitTypeOK, LoopHasArg, Continue, resolveVars
<1>2. CASE ~CanGrow(n)
  BY <1>2, GrowFailureType, AbortType DEF Emit, GrownStatus, Fatal
<1> QED BY <1>1, <1>2

\* Emitting a datum and its fixup keeps the state well formed.
LEMMA EmitArgType ==
  ASSUME StateTypeOK, work # NoWork, NEW n \in Nat, NEW f \in Seq(Fix),
         EmitArg(n, f)
  PROVE  StateTypeOK'
<1>1. CASE CanGrow(n)
  <2>1. /\ EmitBytes(n) /\ fixes' = fixes \o f /\ Advance
        /\ UNCHANGED <<sects, cur, syms, sym, errs>> /\ Continue
    BY <1>1 DEF EmitArg
  <2>2. sec' \in [SecName -> Section]
    BY <2>1, EmitBytesType DEF StateTypeOK
  <2>3. fixes' \in Seq(Fix)
    BY <2>1, ConcatProperties DEF StateTypeOK, UnitTypeOK
  <2>4. work' \in ArgStmt \cup {NoWork} /\ LoopHasArg'
    BY <2>1, AdvanceType DEF StateTypeOK
  <2> QED BY <2>1, <2>2, <2>3, <2>4
          DEF StateTypeOK, UnitTypeOK, Continue, resolveVars
<1>2. CASE ~CanGrow(n)
  BY <1>2, GrowFailureType, AbortType DEF EmitArg, GrownStatus, Fatal
<1> QED BY <1>1, <1>2

\* Reporting a bad argument keeps the state well formed.
LEMMA RejectArgType ==
  ASSUME StateTypeOK, work # NoWork, RejectArg
  PROVE  StateTypeOK'
<1>1. work' \in ArgStmt \cup {NoWork} /\ LoopHasArg'
  BY AdvanceType DEF RejectArg, StateTypeOK
<1> QED BY <1>1
        DEF RejectArg, Report, StateTypeOK, UnitTypeOK, unitVars, Continue, resolveVars

\* The error count stays a natural number even when a report is lost.
LEMMA ReportUncheckedType ==
  ASSUME errs \in Nat, ReportUnchecked
  PROVE  errs' \in Nat
BY DEF ReportUnchecked, Report

-----------------------------------------------------------------------------
(* Every action keeps the typing. *)

\* The inductive form of TypeOK.
Typed == StateTypeOK /\ prog \in Seq(StmtRecord)

\* Every statement of pass 2 preserves the types.
LEMMA StatementTyped ==
  ASSUME Typed, Statement
  PROVE  Typed'
<1> USE DEF Typed
<1>1. ASSUME NEW s \in Sym, Label(s)
      PROVE  Typed'
  <2>1. [op |-> "label", sym |-> s] \in StmtRecord
    BY DEF StmtRecord
  <2>2. prog' \in Seq(StmtRecord)
    BY <1>1, <2>1, TakeType DEF Label
  <2> DEFINE r == IF Defined(s) THEN sym[s]
                  ELSE [sym[s] EXCEPT !.where = "SECTION", !.section = cur,
                                      !.value = Here]
  <2>3. r \in Symbol
    BY ZenonT(60) DEF StateTypeOK, UnitTypeOK, Symbol, Section, Here
  <2>4. syms' \in Seq(Sym) /\ sym' \in [Sym -> Symbol]
    BY <1>1, <2>3, StoreType DEF Label, StateTypeOK
  <2> QED BY <1>1, <2>2, <2>4
          DEF Label, Report, StateTypeOK, UnitTypeOK, LoopHasArg, Continue, resolveVars
<1>2. ASSUME NEW n \in SecName, NEW b \in BOOLEAN, Shortcut(n, b)
      PROVE  Typed'
  <2>1. ShortcutKind(n) \in SecKind
    BY DEF ShortcutKind, SecKind
  <2>2. [op |-> "section", name |-> n, kind |-> ShortcutKind(n), clean |-> ~b]
          \in StmtRecord
    BY <2>1 DEF StmtRecord
  <2>3. prog' \in Seq(StmtRecord)
    BY <1>2, <2>2, TakeType DEF Shortcut
  <2>4. cur' \in SecName /\ sects' \in Seq(SecName) /\ sec' \in [SecName -> Section]
    BY <1>2, <2>1, SelectSectionType DEF Shortcut, StateTypeOK
  <2> QED BY <1>2, <2>3, <2>4
          DEF Shortcut, Report, StateTypeOK, UnitTypeOK, LoopHasArg, Continue, resolveVars
<1>3. ASSUME NEW n \in SecName, NEW b \in BOOLEAN, NamedSection(n, b)
      PROVE  Typed'
  <2>1. [op |-> "section", name |-> n, kind |-> "PROGBITS", clean |-> ~b]
          \in StmtRecord
    BY DEF StmtRecord, SecKind
  <2>2. prog' \in Seq(StmtRecord)
    BY <1>3, <2>1, TakeType DEF NamedSection
  <2>3. cur' \in SecName /\ sects' \in Seq(SecName) /\ sec' \in [SecName -> Section]
    BY <1>3, SelectSectionType DEF NamedSection, StateTypeOK, SecKind
  <2>4. errs' \in Nat
    BY <1>3, ReportUncheckedType DEF NamedSection, StateTypeOK
  <2> QED BY <1>3, <2>2, <2>3, <2>4
          DEF NamedSection, StateTypeOK, UnitTypeOK, LoopHasArg, Continue, resolveVars
<1>4. ASSUME NEW s \in Sym, NEW v \in AbsValues, Set(s, v)
      PROVE  Typed'
  <2>1. [op |-> "set", sym |-> s, value |-> v] \in StmtRecord
    BY DEF StmtRecord
  <2>2. prog' \in Seq(StmtRecord)
    BY <1>4, <2>1, TakeType DEF Set
  <2> DEFINE r == IF sym[s].where = "SECTION" THEN sym[s]
                  ELSE [sym[s] EXCEPT !.where = "ABS", !.value = v]
  <2>3. r \in Symbol
    BY WordsAreNat DEF StateTypeOK, UnitTypeOK, Symbol
  <2>4. syms' \in Seq(Sym) /\ sym' \in [Sym -> Symbol]
    BY <1>4, <2>3, StoreType DEF Set, StateTypeOK
  <2> QED BY <1>4, <2>2, <2>4
          DEF Set, Report, StateTypeOK, UnitTypeOK, LoopHasArg, Continue, resolveVars
<1>5. ASSUME NEW i \in Insns, Instruction(i)
      PROVE  Typed'
  <2>1. [op |-> "insn", insn |-> i] \in StmtRecord
    BY DEF StmtRecord
  <2>2. prog' \in Seq(StmtRecord)
    BY <1>5, <2>1, TakeType DEF Instruction
  <2>3. CASE InNobits \/ ~Encodable(i)
    <3>1. (Report \/ ReportUnchecked) /\ UNCHANGED <<unitVars, work>> /\ Continue
      BY <1>5, <2>3 DEF Instruction
    <3>2. errs' \in Nat
      BY <3>1, ReportUncheckedType DEF ReportUnchecked, StateTypeOK
    <3> QED BY <2>2, <3>1, <3>2
            DEF StateTypeOK, UnitTypeOK, unitVars, LoopHasArg, Continue, resolveVars
  <2>4. CASE ~InNobits /\ Encodable(i)
    <3>1. Emit(InsnLen(i), InsnFixes(i))
      BY <1>5, <2>4 DEF Instruction
    <3>2. InsnLen(i) \in Nat
      <4>1. i.head \in Nat /\ i.disp \in DispField /\ i.imm \in ImmField
        BY StmtAssumption DEF Insn
      <4>2. i.disp.width \in Nat /\ i.imm.width \in Nat
        BY <4>1 DEF DispField, ImmField, Field
      <4> QED BY <4>1, <4>2 DEF InsnLen
    <3>3. InsnFixes(i) \in Seq(Fix)
      BY <2>4, InsnFixesType DEF StateTypeOK
    <3> QED BY <2>2, <3>1, <3>2, <3>3, EmitType
  <2> QED BY <2>3, <2>4
<1>6. ASSUME NEW n \in Zeros, Zero(n)
      PROVE  Typed'
  <2>1. [op |-> "zero", count |-> n] \in StmtRecord
    BY DEF StmtRecord
  <2>2. prog' \in Seq(StmtRecord)
    BY <1>6, <2>1, TakeType DEF Zero
  <2> QED BY <1>6, <2>2, WordsAreNat, EmitType, EmptySeq DEF Zero
<1>7. ASSUME NEW a \in Aligns, Align(a)
      PROVE  Typed'
  <2>1. [op |-> "align", to |-> a] \in StmtRecord
    BY DEF StmtRecord
  <2>2. prog' \in Seq(StmtRecord)
    BY <1>7, <2>1, TakeType DEF Align
  <2>3. a \in Nat \ {0}
    BY WordsAreNat
  <2>4. Padding(a) \in Nat
    BY <2>3, PaddingType DEF StateTypeOK
  <2>5. CASE CanGrow(Padding(a))
    <3>1. AlignTo(a) /\ UNCHANGED <<sects, cur, syms, sym, fixes, errs, work>> /\ Continue
      BY <1>7, <2>5 DEF Align
    <3>2. Grown(Padding(a)) \in Nat
      BY <2>4, WordsAreNat DEF StateTypeOK, UnitTypeOK, Section, Grown, Here
    <3>3. sec' \in [SecName -> Section]
      BY <2>3, <3>1, <3>2, ZenonT(60) DEF AlignTo, StateTypeOK, UnitTypeOK, Section
    <3> QED BY <2>2, <3>1, <3>3
            DEF StateTypeOK, UnitTypeOK, LoopHasArg, Continue, resolveVars
  <2>6. CASE ~CanGrow(Padding(a))
    BY <1>7, <2>2, <2>6, GrowFailureType, AbortType DEF Align, GrownStatus, Fatal
  <2> QED BY <2>5, <2>6
<1>8. ASSUME NEW d \in ArgStmts, ArgDirective(d)
      PROVE  Typed'
  <2>1. [op |-> "args", stmt |-> d] \in StmtRecord
    BY DEF StmtRecord
  <2>2. prog' \in Seq(StmtRecord)
    BY <1>8, <2>1, TakeType DEF ArgDirective
  <2>3. d \in ArgStmt
    BY StmtAssumption
  <2>4. /\ errs' \in Nat
        /\ UNCHANGED work \/ (work' = d /\ d.args # <<>>)
        /\ UNCHANGED unitVars /\ Continue
    BY <1>8 DEF ArgDirective, ReportUnchecked, Report, StateTypeOK
  <2> QED BY <2>2, <2>3, <2>4
          DEF StateTypeOK, UnitTypeOK, unitVars, LoopHasArg, Continue, resolveVars
<1>9. ASSUME BadStatement \/ BadInstruction
      PROVE  Typed'
  <2>1. /\ [op |-> "bad"] \in StmtRecord
        /\ [op |-> "badinsn"] \in StmtRecord
    BY DEF StmtRecord
  <2>2. prog' \in Seq(StmtRecord)
    BY <1>9, <2>1, TakeType DEF BadStatement, BadInstruction
  <2>3. /\ errs' \in Nat
        /\ UNCHANGED <<unitVars, work>> /\ Continue
    BY <1>9 DEF BadStatement, BadInstruction, ReportUnchecked, Report, StateTypeOK
  <2> QED BY <2>2, <2>3
          DEF StateTypeOK, UnitTypeOK, unitVars, LoopHasArg, Continue, resolveVars
<1> QED BY StmtAssumption, <1>1, <1>2, <1>3, <1>4, <1>5, <1>6, <1>7, <1>8, <1>9
        DEF Statement

\* Every step of an argument loop preserves the types.
LEMMA ArgTyped ==
  ASSUME Typed, IntsArg \/ StringsArg \/ GloblArg
  PROVE  Typed'
<1> USE DEF Typed
<1>1. prog' = prog
  BY DEF IntsArg, StringsArg, GloblArg
<1>2. LoopHasArg /\ work # NoWork
  BY DEF IntsArg, StringsArg, GloblArg, StateTypeOK, NoWork
<1>3. NextArg \in Arg /\ work.width \in Nat /\ work \in ArgStmt
  BY <1>2, NextArgType
<1>4. CASE IntsArg
  <2> DEFINE f == [offset |-> 0, sym |-> NextArg.sym, addend |-> 0,
                   kind   |-> IF work.width = 8 THEN "ABS64" ELSE "ABS32"]
  <2>1. f \in InsnFixup
    BY <1>3 DEF InsnFixup, FixKind, Arg
  <2>2. FixOf(f) \in Fix
    BY <2>1 DEF FixOf, InsnFixup, Fix, StateTypeOK, UnitTypeOK, Section, Here
  <2>3. <<FixOf(f)>> \in Seq(Fix) /\ <<>> \in Seq(Fix)
    BY <2>2
  <2>4. \/ EmitArg(work.width, <<>>)
        \/ EmitArg(work.width, <<FixOf(f)>>)
        \/ RejectArg
    BY <1>4 DEF IntsArg
  <2> QED BY <1>1, <1>2, <1>3, <2>3, <2>4, EmitArgType, RejectArgType
<1>5. CASE StringsArg
  <2> DEFINE n == NextArg.len + work.width
  <2>1. n \in Nat /\ <<>> \in Seq(Fix)
    BY <1>3 DEF Arg
  <2>2. CASE EmitArg(n, <<>>) \/ RejectArg
    BY <1>1, <1>2, <2>1, <2>2, EmitArgType, RejectArgType
  <2>3. CASE /\ CanGrow(n) /\ ReportUnchecked /\ EmitBytes(n) /\ Advance
             /\ UNCHANGED <<sects, cur, syms, sym, fixes>> /\ Continue
    <3>1. sec' \in [SecName -> Section]
      BY <2>1, <2>3, EmitBytesType DEF StateTypeOK
    <3>2. work' \in ArgStmt \cup {NoWork} /\ LoopHasArg'
      BY <1>2, <2>3, AdvanceType
    <3>3. errs' \in Nat
      BY <2>3, ReportUncheckedType DEF StateTypeOK
    <3> QED BY <1>1, <2>3, <3>1, <3>2, <3>3
            DEF StateTypeOK, UnitTypeOK, Continue, resolveVars
  <2>4. CASE Abort(GrowFailure(n))
    BY <1>1, <2>4, GrowFailureType, AbortType DEF GrownStatus, Fatal
  <2> QED BY <1>5, <2>2, <2>3, <2>4 DEF StringsArg
<1>6. CASE GloblArg
  <2>1. CASE NextArg.kind = "sym"
    <3>1. NextArg.sym \in Sym
      BY <1>3 DEF Arg
    <3>2. [Intern(NextArg.sym) EXCEPT !.global = TRUE] \in Symbol
      BY <3>1, InternType DEF StateTypeOK, Symbol
    <3>3. syms' \in Seq(Sym) /\ sym' \in [Sym -> Symbol]
      BY <1>6, <2>1, <3>1, <3>2, StoreType DEF GloblArg, StateTypeOK
    <3>4. work' \in ArgStmt \cup {NoWork} /\ LoopHasArg'
      BY <1>2, <1>6, <2>1, AdvanceType DEF GloblArg
    <3> QED BY <1>1, <1>6, <2>1, <3>3, <3>4
            DEF GloblArg, StateTypeOK, UnitTypeOK, Continue, resolveVars
  <2>2. CASE NextArg.kind # "sym"
    BY <1>1, <1>2, <1>6, <2>2, RejectArgType DEF GloblArg
  <2> QED BY <2>1, <2>2
<1> QED BY <1>4, <1>5, <1>6

\* Every step of pass 3 and every failure preserves the types.
LEMMA PassThreeTyped ==
  ASSUME Typed,
         EndOfSource \/ PatchLocal \/ OutOfRange \/ Relocate \/ EndResolve
           \/ BuildObject \/ AllocFails \/ UNCHANGED vars
  PROVE  Typed'
<1> USE DEF Typed
<1>1. CASE EndOfSource
  BY <1>1 DEF EndOfSource, StateTypeOK, UnitTypeOK, unitVars, LoopHasArg, resolveVars
<1>2. ASSUME Resolving
      PROVE  fixes[next] \in Fix
  BY <1>2, ElementOfSeq DEF Resolving, StateTypeOK, UnitTypeOK
<1>3. CASE PatchLocal
  <2>1. fixes[next] \in Fix
    BY <1>2, <1>3 DEF PatchLocal
  <2>2. Distance(fixes[next]) \in Int
    BY <2>1, SMTT(60) DEF Distance, Fix, StateTypeOK, UnitTypeOK, Symbol
  <2>3. CASE Patchable(fixes[next])
    <3>1. [sec |-> fixes[next].sec, offset |-> fixes[next].offset,
           value |-> Distance(fixes[next])] \in Patch
      BY <2>1, <2>2 DEF Fix, Patch
    <3> QED BY <1>3, <2>3, <3>1
            DEF PatchLocal, StateTypeOK, UnitTypeOK, unitVars, LoopHasArg
  <2>4. CASE ~Patchable(fixes[next])
    BY <1>3, <2>4, AbortType DEF PatchLocal, Fatal
  <2> QED BY <2>3, <2>4
<1>4. CASE OutOfRange
  BY <1>4 DEF OutOfRange, Report, StateTypeOK, UnitTypeOK, unitVars, LoopHasArg
<1>5. CASE Relocate
  <2>1. fixes[next] \in Fix
    BY <1>2, <1>5 DEF Relocate
  <2>2. RelocOf(fixes[next]) \in Reloc
    BY <2>1 DEF RelocOf, RelocTypeOf, Reloc, RelType, Fix, FixKind
  <2>3. relocs' \in Seq(Reloc)
    BY <1>5, <2>2, AppendProperties DEF Relocate, StateTypeOK
  <2>4. fixes[next].sym \in Sym
    BY <2>1 DEF Fix
  <2>5. [Intern(fixes[next].sym) EXCEPT !.referenced = TRUE] \in Symbol
    BY <2>4, InternType DEF StateTypeOK, Symbol
  <2>6. syms' \in Seq(Sym) /\ sym' \in [Sym -> Symbol]
    BY <1>5, <2>4, <2>5, StoreType DEF Relocate, StateTypeOK
  <2> QED BY <1>5, <2>3, <2>6 DEF Relocate, StateTypeOK, UnitTypeOK, LoopHasArg
<1>6. CASE EndResolve
  BY <1>6 DEF EndResolve, StateTypeOK, UnitTypeOK, unitVars, LoopHasArg, resolveVars
<1>7. CASE BuildObject
  BY <1>7 DEF BuildObject, StateTypeOK, UnitTypeOK, unitVars, LoopHasArg, resolveVars
<1>8. CASE AllocFails
  BY <1>8, AbortType DEF AllocFails, Fatal
<1>9. CASE UNCHANGED vars
  BY <1>9 DEF vars, StateTypeOK, UnitTypeOK, unitVars, LoopHasArg
<1> QED BY <1>1, <1>3, <1>4, <1>5, <1>6, <1>7, <1>8, <1>9

\* The state qas_asm_unit_init leaves is well typed.
LEMMA InitTyped == Init => Typed
<1> SUFFICES ASSUME Init PROVE Typed
  OBVIOUS
<1>1. UnitTypeOK
  BY SecNameAssumption
     DEF Init, UnitInit, UnitTypeOK, NewSection, Section, SecKind, NoSymbol, Symbol
<1> QED BY <1>1 DEF Init, Typed, StateTypeOK, LoopHasArg

\* The types are inductive.
LEMMA NextTyped == Typed /\ [Next]_vars => Typed'
BY StatementTyped, ArgTyped, PassThreeTyped DEF Next, Progress, Returned

\* The inductive form of type correctness: the state qas_assemble keeps is
\* well formed, and so is the source processed so far.
THEOREM AlwaysTyped == Spec => []Typed
BY InitTyped, NextTyped, PTL DEF Spec

\* Every variable keeps the type its C declaration gives it: sizes, offsets
\* and values stay natural numbers, table entries well formed, and the
\* status one of those qas_status_t can hold here.
THEOREM TypeCorrect == Spec => []TypeOK
<1>1. Typed => TypeOK
  BY DEF Typed, StateTypeOK, TypeOK
<1> QED BY <1>1, AlwaysTyped, PTL

-----------------------------------------------------------------------------
(* 2. Safety. *)

\* The first byte after a field.
EndOf(fx) == fx.offset + FieldWidth(fx.kind)

\* The fixups f lie in order within the next n bytes of the current section,
\* which holds bytes if there are any.
FieldsWithin(f, n) ==
  /\ f # <<>> => ~InNobits
  /\ \A k \in 1 .. Len(f) : /\ f[k].sec = cur
                            /\ Here <= f[k].offset
                            /\ EndOf(f[k]) <= Here + n
  /\ \A j, k \in 1 .. Len(f) : j < k => EndOf(f[j]) <= f[k].offset

\* The current section takes n more bytes, with fixups f among them.
Grew(n, f) ==
  /\ cur' = cur
  /\ fixes' = fixes \o f
  /\ FieldsWithin(f, n)
  /\ \A m \in SecName : m # cur => sec'[m] = sec[m]
  /\ sec'[cur].kind = sec[cur].kind
  /\ sec'[cur].align >= sec[cur].align
  /\ ~InNobits => sec'[cur].size = Here + n

\* What a step may do to the sections and fixups.
SectionEffect ==
  \/ UNCHANGED <<sec, cur, fixes>>
  \/ /\ fixes' = fixes /\ work' = work /\ work = NoWork
     /\ \E n \in SecName, k \in SecKind : SelectSection(n, k)
  \/ \E n \in Nat, f \in Seq(Fix) : Grew(n, f)

\* The record r that symbol s is given: a label is never lost or moved, and
\* a new one names the place where the next byte goes.
Rerecorded(s, r) ==
  /\ r.where # "none"
  /\ sym[s].referenced => r.referenced
  /\ sym[s].where = "SECTION" => /\ r.where = "SECTION"
                                 /\ r.section = sym[s].section
                                 /\ r.value = sym[s].value
  /\ r.where = "SECTION" /\ sym[s].where # "SECTION"
       => r.section = cur /\ r.value = Here

\* What a step may do to the symbols and relocations.
SymbolEffect ==
  \/ UNCHANGED <<syms, sym, relocs>>
  \/ /\ UNCHANGED <<sec, cur>>
     /\ \E s \in Sym, r \in Symbol :
          /\ Store(s, r) /\ Rerecorded(s, r)
          /\ relocs' = relocs \/ r.referenced

\* A directive that emits was let in because the section holds bytes, and
\* nothing changes the section while its arguments are emitted.
LoopInBytes == work # NoWork /\ work.dir # "globl" => ~InNobits

-----------------------------------------------------------------------------
(* Where the fixups of an instruction and of a datum lie. *)

\* The concatenation of two one-element sequences.
LEMMA TwoOf ==
  ASSUME NEW d, NEW m
  PROVE  /\ Len(<<d>> \o <<m>>) = 2
         /\ (<<d>> \o <<m>>)[1] = d /\ (<<d>> \o <<m>>)[2] = m
<1>1. <<d>> \in Seq({d, m}) /\ <<m>> \in Seq({d, m})
  OBVIOUS
<1> QED BY <1>1, ConcatProperties

\* The fixups qas_encode returns lie inside the instruction and apart.
LEMMA FixupsWithinInsn ==
  ASSUME NEW i \in Insns, Encodable(i)
  PROVE  LET F == Fixups(i)
         IN /\ InsnLen(i) \in Nat
            /\ \A k \in 1 .. Len(F) : /\ F[k].offset >= 0
                                      /\ EndOf(F[k]) <= InsnLen(i)
            /\ \A j, k \in 1 .. Len(F) : j < k => EndOf(F[j]) <= F[k].offset
<1>1. i.head \in 1 .. 7 /\ i.disp \in DispField /\ i.imm \in ImmField
  BY StmtAssumption DEF Insn
<1>2. /\ i.disp.width \in Nat /\ i.imm.width \in Nat
      /\ IsSymbolic(i.disp) => i.disp.width = 4
      /\ IsSymbolic(i.imm) => i.imm.width \in {4, 8}
      /\ i.imm.mode = "rel" => i.imm.width = 4
  BY <1>1 DEF DispField, ImmField, Field, IsSymbolic, Encodable
<1>3. InsnLen(i) \in Nat /\ InsnLen(i) = i.head + i.disp.width + i.imm.width
  BY <1>1, <1>2 DEF InsnLen
<1> DEFINE d == DispFixup(i)
           m == ImmFixup(i)
<1>4. d.offset = i.head /\ EndOf(d) = i.head + 4
  BY DEF DispFixup, EndOf, FieldWidth
<1>5. m.offset = i.head + i.disp.width
  BY DEF ImmFixup
<1>6. IsSymbolic(i.imm) => EndOf(m) = i.head + i.disp.width + i.imm.width
  <2>1. m.kind = IF i.imm.mode = "rel" THEN "PC32"
                 ELSE IF i.imm.width = 8 THEN "ABS64" ELSE "ABS32S"
    BY DEF ImmFixup
  <2> QED BY <1>2, <1>5, <2>1 DEF EndOf, FieldWidth
<1>7. CASE IsSymbolic(i.disp) /\ IsSymbolic(i.imm)
  <2>1. Fixups(i) = <<d>> \o <<m>>
    BY <1>7 DEF Fixups
  <2> HIDE DEF d, m
  <2>2. /\ Len(Fixups(i)) = 2
        /\ Fixups(i)[1] = d /\ Fixups(i)[2] = m
    BY <2>1, TwoOf
  <2>3. \A k \in 1 .. Len(Fixups(i)) : k = 1 \/ k = 2
    BY <2>2
  <2> QED BY <1>1, <1>2, <1>3, <1>4, <1>5, <1>6, <1>7, <2>2, <2>3
<1>8. CASE IsSymbolic(i.disp) /\ ~IsSymbolic(i.imm)
  <2>1. Fixups(i) = <<d>>
    BY <1>8 DEF Fixups
  <2> HIDE DEF d, m
  <2> QED BY <1>1, <1>2, <1>3, <1>4, <1>8, <2>1
<1>9. CASE ~IsSymbolic(i.disp) /\ IsSymbolic(i.imm)
  <2>1. Fixups(i) = <<m>>
    BY <1>9 DEF Fixups
  <2> HIDE DEF d, m
  <2> QED BY <1>1, <1>2, <1>3, <1>5, <1>6, <1>9, <2>1
<1>10. CASE ~IsSymbolic(i.disp) /\ ~IsSymbolic(i.imm)
  <2>1. Fixups(i) = <<>>
    BY <1>10 DEF Fixups
  <2> QED BY <1>3, <2>1
<1> QED BY <1>7, <1>8, <1>9, <1>10

\* emit_instruction places them inside the bytes it emits.
LEMMA InsnFieldsWithin ==
  ASSUME Typed, NEW i \in Insns, Encodable(i), ~InNobits
  PROVE  FieldsWithin(InsnFixes(i), InsnLen(i))
<1> DEFINE F == Fixups(i)
<1>1. F \in Seq(InsnFixup) /\ Len(F) \in Nat
  BY FixupsType, LenProperties
<1>2. Here \in Nat
  BY DEF Typed, StateTypeOK, UnitTypeOK, Section, Here
<1>3. Len(InsnFixes(i)) = Len(F)
  BY <1>1 DEF InsnFixes
<1>4. ASSUME NEW k \in 1 .. Len(F)
      PROVE  /\ InsnFixes(i)[k].sec = cur
             /\ InsnFixes(i)[k].offset = Here + F[k].offset
             /\ EndOf(InsnFixes(i)[k]) = Here + EndOf(F[k])
             /\ F[k].offset \in Nat /\ EndOf(F[k]) \in Nat
  <2>1. F[k] \in InsnFixup
    BY <1>1, ElementOfSeq
  <2>2. InsnFixes(i)[k] = FixOf(F[k])
    BY DEF InsnFixes
  <2> QED BY <1>2, <2>1, <2>2 DEF FixOf, EndOf, FieldWidth, InsnFixup
<1>5. /\ InsnLen(i) \in Nat
      /\ \A k \in 1 .. Len(F) : F[k].offset >= 0 /\ EndOf(F[k]) <= InsnLen(i)
      /\ \A j, k \in 1 .. Len(F) : j < k => EndOf(F[j]) <= F[k].offset
  BY FixupsWithinInsn
<1> HIDE DEF F
<1> DEFINE G == InsnFixes(i)
<1>6. ASSUME NEW k \in 1 .. Len(G)
      PROVE  G[k].sec = cur /\ Here <= G[k].offset /\ EndOf(G[k]) <= Here + InsnLen(i)
  BY <1>2, <1>3, <1>4, <1>5
<1>7. ASSUME NEW j \in 1 .. Len(G), NEW k \in 1 .. Len(G), j < k
      PROVE  EndOf(G[j]) <= G[k].offset
  <2>1. j \in 1 .. Len(F) /\ k \in 1 .. Len(F)
    BY <1>3
  <2>2. EndOf(F[j]) <= F[k].offset
    BY <1>5, <1>7, <2>1
  <2> QED BY <1>2, <1>4, <2>1, <2>2
<1> HIDE DEF G
<1>8. FieldsWithin(G, InsnLen(i))
  BY <1>6, <1>7 DEF FieldsWithin
<1> QED BY <1>8 DEF G

\* data_ints places the fixup of a symbol inside the datum it emits.
LEMMA DatumWithin ==
  ASSUME Typed, NEW s \in Sym, NEW w \in {4, 8}, ~InNobits
  PROVE  LET fx == FixOf([offset |-> 0, sym |-> s, addend |-> 0,
                          kind   |-> IF w = 8 THEN "ABS64" ELSE "ABS32"])
         IN <<fx>> \in Seq(Fix) /\ FieldsWithin(<<fx>>, w)
<1> DEFINE fx == FixOf([offset |-> 0, sym |-> s, addend |-> 0,
                        kind   |-> IF w = 8 THEN "ABS64" ELSE "ABS32"])
<1>1. Here \in Nat /\ cur \in SecName
  BY DEF Typed, StateTypeOK, UnitTypeOK, Section, Here
<1>2. /\ fx.sec = cur /\ fx.offset = Here
      /\ EndOf(fx) = Here + w
      /\ fx \in Fix
  BY <1>1 DEF FixOf, EndOf, FieldWidth, Fix, FixKind
<1>3. Len(<<fx>>) = 1 /\ <<fx>>[1] = fx /\ <<fx>> \in Seq(Fix)
  BY <1>2
<1> HIDE DEF fx
<1>4. FieldsWithin(<<fx>>, w)
  BY <1>1, <1>2, <1>3 DEF FieldsWithin
<1> QED BY <1>3, <1>4 DEF fx

\* Bytes without symbols (.zero, strings) have no fixup to misplace.
LEMMA NoFields == \A n : FieldsWithin(<<>>, n)
BY DEF FieldsWithin

-----------------------------------------------------------------------------
(* The effects of each action. *)

\* Emitting bytes together with their fixups is a permitted growth.
LEMMA EmitEffect ==
  ASSUME Typed, NEW n \in Nat, NEW f \in Seq(Fix), FieldsWithin(f, n),
         EmitBytes(n), fixes' = fixes \o f, cur' = cur
  PROVE  SectionEffect
<1>1. sec' = [sec EXCEPT ![cur].size = Grown(n)]
  BY DEF EmitBytes
<1>2. sec \in [SecName -> Section] /\ cur \in SecName
  BY DEF Typed, StateTypeOK, UnitTypeOK
<1>3. /\ \A m \in SecName : m # cur => sec'[m] = sec[m]
      /\ sec'[cur].kind = sec[cur].kind
      /\ sec'[cur].align >= sec[cur].align
      /\ sec'[cur].size = Grown(n)
  BY <1>1, <1>2 DEF Section
<1>4. ~InNobits => sec'[cur].size = Here + n
  BY <1>3 DEF Grown
<1>5. Grew(n, f)
  BY <1>3, <1>4 DEF Grew
<1> QED BY <1>5 DEF SectionEffect

\* A step that leaves sections and fixups alone is permitted.
LEMMA NoSectionEffect ==
  ASSUME UNCHANGED unitVars \/ UNCHANGED <<sects, sec, cur, fixes>>
  PROVE  SectionEffect
BY DEF SectionEffect, unitVars

\* A step that leaves symbols and relocations alone is permitted.
LEMMA NoSymbolEffect ==
  ASSUME UNCHANGED unitVars \/ UNCHANGED <<syms, sym>>, UNCHANGED relocs
  PROVE  SymbolEffect
BY DEF SymbolEffect, unitVars

\* A failing step changes neither sections nor symbols.
LEMMA AbortEffects ==
  ASSUME NEW st, Abort(st)
  PROVE  SectionEffect /\ SymbolEffect
BY NoSectionEffect, NoSymbolEffect DEF Abort, resolveVars

\* Growing the current section, or failing to, is permitted.
LEMMA EmitEffects ==
  ASSUME Typed, NEW n \in Nat, NEW f \in Seq(Fix), FieldsWithin(f, n),
         Emit(n, f) \/ EmitArg(n, f)
  PROVE  SectionEffect /\ SymbolEffect
<1>1. CASE ~CanGrow(n)
  BY <1>1, AbortEffects DEF Emit, EmitArg
<1>2. CASE CanGrow(n)
  <2>1. /\ EmitBytes(n) /\ fixes' = fixes \o f
        /\ UNCHANGED <<sects, cur, syms, sym>> /\ Continue
    BY <1>2 DEF Emit, EmitArg
  <2>2. SectionEffect
    BY <2>1, EmitEffect
  <2>3. SymbolEffect
    BY <2>1, NoSymbolEffect DEF Continue, resolveVars
  <2> QED BY <2>2, <2>3
<1> QED BY <1>1, <1>2

\* Every statement of pass 2 changes sections and symbols as permitted.
LEMMA StatementEffects ==
  ASSUME Typed, Statement
  PROVE  SectionEffect /\ SymbolEffect
<1>1. UnitTypeOK
  BY DEF Typed, StateTypeOK
<1>2. ASSUME NEW s \in Sym, Label(s)
      PROVE  SectionEffect /\ SymbolEffect
  <2> DEFINE r == IF Defined(s) THEN sym[s]
                  ELSE [sym[s] EXCEPT !.where = "SECTION", !.section = cur,
                                      !.value = Here]
  <2>1. sym[s] \in Symbol
    BY <1>1 DEF UnitTypeOK
  <2>2. r \in Symbol
    BY <1>1, <2>1 DEF UnitTypeOK, Symbol, Section, Here
  <2>3. Rerecorded(s, r)
    BY <2>1 DEF Rerecorded, Defined, Symbol
  <2>4. /\ UNCHANGED <<sects, sec, cur, fixes, relocs>>
        /\ Store(s, r)
    BY <1>2 DEF Label, Continue, resolveVars
  <2> QED BY <2>2, <2>3, <2>4 DEF SectionEffect, SymbolEffect
<1>3. ASSUME NEW n \in SecName, NEW b, Shortcut(n, b)
      PROVE  SectionEffect /\ SymbolEffect
  <2>1. /\ SelectSection(n, ShortcutKind(n)) /\ ShortcutKind(n) \in SecKind
        /\ UNCHANGED <<syms, sym, fixes, work, relocs>> /\ work = NoWork
    BY <1>3 DEF Shortcut, ShortcutKind, SecKind, Take, Continue, resolveVars
  <2> QED BY <2>1, NoSymbolEffect DEF SectionEffect
<1>4. ASSUME NEW n \in SecName, NEW b, NamedSection(n, b)
      PROVE  SectionEffect /\ SymbolEffect
  <2>1. /\ SelectSection(n, "PROGBITS") /\ "PROGBITS" \in SecKind
        /\ UNCHANGED <<syms, sym, fixes, work, relocs>> /\ work = NoWork
    BY <1>4 DEF NamedSection, SecKind, Take, Continue, resolveVars
  <2> QED BY <2>1, NoSymbolEffect DEF SectionEffect
<1>5. ASSUME NEW s \in Sym, NEW v \in AbsValues, Set(s, v)
      PROVE  SectionEffect /\ SymbolEffect
  <2> DEFINE r == IF sym[s].where = "SECTION" THEN sym[s]
                  ELSE [sym[s] EXCEPT !.where = "ABS", !.value = v]
  <2>1. sym[s] \in Symbol
    BY <1>1 DEF UnitTypeOK
  <2>2. r \in Symbol
    BY <2>1, WordsAreNat DEF Symbol
  <2>3. Rerecorded(s, r)
    BY <2>1 DEF Rerecorded, Symbol
  <2>4. /\ UNCHANGED <<sects, sec, cur, fixes, relocs>>
        /\ Store(s, r)
    BY <1>5 DEF Set, Continue, resolveVars
  <2> QED BY <2>2, <2>3, <2>4 DEF SectionEffect, SymbolEffect
<1>6. ASSUME NEW i \in Insns, Instruction(i)
      PROVE  SectionEffect /\ SymbolEffect
  <2>1. CASE InNobits \/ ~Encodable(i)
    <3>1. UNCHANGED unitVars /\ UNCHANGED relocs
      BY <1>6, <2>1 DEF Instruction, Continue, resolveVars
    <3> QED BY <3>1, NoSectionEffect, NoSymbolEffect
  <2>2. CASE ~InNobits /\ Encodable(i)
    <3>1. InsnLen(i) \in Nat
      BY <2>2, FixupsWithinInsn
    <3>2. InsnFixes(i) \in Seq(Fix) /\ FieldsWithin(InsnFixes(i), InsnLen(i))
      BY <1>1, <2>2, InsnFixesType, InsnFieldsWithin
    <3> QED BY <1>6, <2>2, <3>1, <3>2, EmitEffects DEF Instruction
  <2> QED BY <2>1, <2>2
<1>7. ASSUME NEW n \in Zeros, Zero(n)
      PROVE  SectionEffect /\ SymbolEffect
  BY <1>7, WordsAreNat, NoFields, EmitEffects, EmptySeq DEF Zero
<1>8. ASSUME NEW a \in Aligns, Align(a)
      PROVE  SectionEffect /\ SymbolEffect
  <2>1. CASE ~CanGrow(Padding(a))
    BY <1>8, <2>1, AbortEffects DEF Align
  <2>2. CASE CanGrow(Padding(a))
    <3>1. /\ AlignTo(a) /\ UNCHANGED <<cur, syms, sym, fixes, relocs>>
      BY <1>8, <2>2 DEF Align, Continue, resolveVars
    <3>2. Padding(a) \in Nat
      BY <1>1, WordsAreNat, PaddingType
    <3>3. sec \in [SecName -> Section] /\ cur \in SecName /\ a \in Nat
      BY <1>1, WordsAreNat DEF UnitTypeOK
    <3>4. /\ \A m \in SecName : m # cur => sec'[m] = sec[m]
          /\ sec'[cur].kind = sec[cur].kind
          /\ sec'[cur].align >= sec[cur].align
          /\ sec'[cur].size = Grown(Padding(a))
      BY <3>1, <3>3 DEF AlignTo, Section
    <3>5. ~InNobits => sec'[cur].size = Here + Padding(a)
      BY <3>4 DEF Grown
    <3>6. fixes' = fixes \o <<>> /\ <<>> \in Seq(Fix)
      BY <1>1, <3>1, ConcatEmptySeq DEF UnitTypeOK
    <3>7. Grew(Padding(a), <<>>)
      BY <3>1, <3>4, <3>5, <3>6, NoFields DEF Grew
    <3>8. SectionEffect
      BY <3>2, <3>6, <3>7 DEF SectionEffect
    <3> QED BY <3>1, <3>8, NoSymbolEffect
  <2> QED BY <2>1, <2>2
<1>9. ASSUME NEW d \in ArgStmts, ArgDirective(d)
      PROVE  SectionEffect /\ SymbolEffect
  BY <1>9, NoSectionEffect, NoSymbolEffect DEF ArgDirective, Continue, resolveVars
<1>10. ASSUME BadStatement \/ BadInstruction
      PROVE  SectionEffect /\ SymbolEffect
  BY <1>10, NoSectionEffect, NoSymbolEffect
     DEF BadStatement, BadInstruction, Continue, resolveVars
<1> QED BY <1>2, <1>3, <1>4, <1>5, <1>6, <1>7, <1>8, <1>9, <1>10 DEF Statement

\* So does every step of an argument loop.
LEMMA ArgEffects ==
  ASSUME Typed, LoopInBytes, IntsArg \/ StringsArg \/ GloblArg
  PROVE  SectionEffect /\ SymbolEffect
<1>1. LoopHasArg /\ work # NoWork
  BY DEF IntsArg, StringsArg, GloblArg, Typed, StateTypeOK, NoWork
<1>2. NextArg \in Arg /\ work.width \in Nat /\ work \in ArgStmt
  BY <1>1, NextArgType
<1>3. ASSUME RejectArg
      PROVE  SectionEffect /\ SymbolEffect
  BY <1>3, NoSectionEffect, NoSymbolEffect DEF RejectArg, Continue, resolveVars
<1>4. ASSUME NEW n \in Nat, EmitArg(n, <<>>)
      PROVE  SectionEffect /\ SymbolEffect
  BY <1>4, NoFields, EmitEffects, EmptySeq
<1>5. CASE IntsArg
  <2> DEFINE fx == FixOf([offset |-> 0, sym |-> NextArg.sym, addend |-> 0,
                          kind   |-> IF work.width = 8 THEN "ABS64" ELSE "ABS32"])
  <2>1. CASE EmitArg(work.width, <<>>) \/ RejectArg
    BY <1>2, <1>3, <1>4, <2>1
  <2>2. CASE work.width \in {4, 8} /\ EmitArg(work.width, <<fx>>)
    <3>1. NextArg.sym \in Sym /\ ~InNobits
      BY <1>1, <1>2, <1>5 DEF Arg, LoopInBytes, IntsArg
    <3>2. <<fx>> \in Seq(Fix) /\ FieldsWithin(<<fx>>, work.width)
      BY <2>2, <3>1, DatumWithin
    <3> QED BY <1>2, <2>2, <3>2, EmitEffects
  <2> QED BY <1>5, <2>1, <2>2 DEF IntsArg
<1>6. CASE StringsArg
  <2> DEFINE n == NextArg.len + work.width
  <2>1. n \in Nat
    BY <1>2 DEF Arg
  <2>2. CASE EmitArg(n, <<>>) \/ RejectArg \/ Abort(GrowFailure(n))
    BY <1>3, <1>4, <2>1, <2>2, AbortEffects
  <2>3. CASE EmitBytes(n) /\ UNCHANGED <<sects, cur, syms, sym, fixes>> /\ Continue
    <3>1. fixes' = fixes \o <<>> /\ <<>> \in Seq(Fix)
      BY <2>3, ConcatEmptySeq DEF Typed, StateTypeOK, UnitTypeOK
    <3>2. SectionEffect
      BY <2>1, <2>3, <3>1, NoFields, EmitEffect
    <3> QED BY <2>3, <3>2, NoSymbolEffect DEF Continue, resolveVars
  <2> QED BY <1>6, <2>2, <2>3 DEF StringsArg
<1>7. CASE GloblArg
  <2>1. CASE RejectArg
    BY <1>3, <2>1
  <2>2. CASE NextArg.kind = "sym"
    <3> DEFINE s == NextArg.sym
               r == [Intern(s) EXCEPT !.global = TRUE]
    <3>1. s \in Sym
      BY <1>2 DEF Arg
    <3>2. sym[s] \in Symbol
      BY <3>1 DEF Typed, StateTypeOK, UnitTypeOK
    <3>3. r \in Symbol /\ Rerecorded(s, r)
      BY <3>2 DEF Rerecorded, Intern, Interned, Symbol
    <3>4. Store(s, r) /\ UNCHANGED <<sects, sec, cur, fixes, relocs>>
      BY <1>7, <2>2 DEF GloblArg, Continue, resolveVars
    <3> QED BY <3>1, <3>3, <3>4 DEF SectionEffect, SymbolEffect
  <2> QED BY <1>7, <2>1, <2>2 DEF GloblArg
<1> QED BY <1>5, <1>6, <1>7

\* So does every step of pass 3.
LEMMA PassThreeEffects ==
  ASSUME Typed,
         EndOfSource \/ PatchLocal \/ OutOfRange \/ Relocate \/ EndResolve
           \/ BuildObject \/ AllocFails \/ UNCHANGED vars
  PROVE  SectionEffect /\ SymbolEffect
<1>1. CASE EndOfSource \/ OutOfRange \/ EndResolve \/ BuildObject \/ UNCHANGED vars
  <2>1. UNCHANGED unitVars /\ UNCHANGED relocs
    BY <1>1 DEF EndOfSource, OutOfRange, EndResolve, BuildObject, vars, resolveVars
  <2> QED BY <2>1, NoSectionEffect, NoSymbolEffect
<1>2. CASE PatchLocal
  <2>1. (UNCHANGED unitVars /\ UNCHANGED relocs) \/ Abort("INVALID_ARGUMENT")
    BY <1>2 DEF PatchLocal
  <2> QED BY <2>1, NoSectionEffect, NoSymbolEffect, AbortEffects
<1>3. CASE Relocate
  <2> DEFINE s == fixes[next].sym
             r == [Intern(s) EXCEPT !.referenced = TRUE]
  <2>1. fixes[next] \in Fix
    BY <1>3, ElementOfSeq DEF Relocate, Resolving, Typed, StateTypeOK, UnitTypeOK
  <2>2. s \in Sym
    BY <2>1 DEF Fix
  <2>3. sym[s] \in Symbol
    BY <2>2 DEF Typed, StateTypeOK, UnitTypeOK
  <2>4. r \in Symbol /\ Rerecorded(s, r) /\ r.referenced
    BY <2>3 DEF Rerecorded, Intern, Interned, Symbol
  <2>5. Store(s, r) /\ UNCHANGED <<sects, sec, cur, fixes>>
    BY <1>3 DEF Relocate
  <2> HIDE DEF s, r
  <2> QED BY <2>2, <2>4, <2>5 DEF SectionEffect, SymbolEffect
<1>4. CASE AllocFails
  BY <1>4, AbortEffects DEF AllocFails
<1> QED BY <1>1, <1>2, <1>3, <1>4

\* So every step of qas_assemble does.
LEMMA StepEffects == Typed /\ LoopInBytes /\ [Next]_vars => SectionEffect /\ SymbolEffect
BY StatementEffects, ArgEffects, PassThreeEffects DEF Next, Progress, Returned

-----------------------------------------------------------------------------
(* The inductive invariant.  FixupsInBounds alone is not inductive: an     *)
(* argument is emitted without another look at the section, so the loop    *)
(* must still be in the section its directive was let into.                *)

\* What a step changes of the argument loop.
LoopEffect ==
  \/ UNCHANGED <<work, sec, cur>>
  \/ work' = NoWork
  \/ work' = [work EXCEPT !.args = Tail(@)] /\ work # NoWork
  \/ /\ work' \in ArgStmt /\ (work'.dir # "globl" => ~InNobits)
     /\ UNCHANGED <<sec, cur>>

\* Every step starts, advances or ends an argument loop as its handler does.
LEMMA StepLoop == Typed /\ [Next]_vars => LoopEffect
<1> SUFFICES ASSUME Typed, [Next]_vars PROVE LoopEffect
  OBVIOUS
<1>1. CASE Statement
  <2>1. CASE \E d \in ArgStmts : ArgDirective(d)
    BY <2>1, StmtAssumption DEF ArgDirective, LoopEffect, unitVars
  <2>2. CASE ~\E d \in ArgStmts : ArgDirective(d)
    <3>1. work' = NoWork
      BY <1>1, <2>2
         DEF Statement, Label, Shortcut, NamedSection, Set, Instruction, Zero,
             Align, BadStatement, BadInstruction, Emit, Abort, Take
    <3> QED BY <3>1 DEF LoopEffect
  <2> QED BY <2>1, <2>2
<1>2. CASE IntsArg \/ StringsArg \/ GloblArg
  <2>1. work # NoWork
    BY <1>2 DEF IntsArg, StringsArg, GloblArg, NoWork
  <2>2. Advance \/ work' = NoWork
    BY <1>2 DEF IntsArg, StringsArg, GloblArg, EmitArg, RejectArg, Abort
  <2> QED BY <2>1, <2>2 DEF Advance, LoopEffect
<1>3. CASE ~Statement /\ ~(IntsArg \/ StringsArg \/ GloblArg)
  <2>1. UNCHANGED <<work, sec, cur>> \/ work' = NoWork
    BY <1>3
       DEF Next, Progress, EndOfSource, PatchLocal, OutOfRange, Relocate, EndResolve,
           BuildObject, AllocFails, Returned, Abort, vars, unitVars
  <2> QED BY <2>1 DEF LoopEffect
<1> QED BY <1>1, <1>2, <1>3

\* The fixups lie where they may be patched, apart from each other.
PlacedInv ==
  /\ Typed
  /\ SecSeen(cur)
  /\ LoopInBytes
  /\ FixupsInBounds
  /\ FixupsDisjoint

\* The first state has one section, .text, and no fixup.
LEMMA InitPlaced == Init => PlacedInv
<1> SUFFICES ASSUME Init PROVE PlacedInv
  OBVIOUS
<1>1. Typed
  BY InitTyped
<1>2. SecSeen(cur)
  BY SecNameAssumption DEF Init, UnitInit, SecSeen, NewSection
<1> QED BY <1>1, <1>2
        DEF PlacedInv, Init, UnitInit, LoopInBytes, FixupsInBounds, FixupsDisjoint

\* The current section always exists.
LEMMA CurrentStaysSeen ==
  ASSUME Typed, SecSeen(cur), SectionEffect
  PROVE  SecSeen(cur)'
<1>1. sec \in [SecName -> Section] /\ cur \in SecName
  BY DEF Typed, StateTypeOK, UnitTypeOK
<1>2. CASE UNCHANGED <<sec, cur, fixes>>
  BY <1>2 DEF SecSeen
<1>3. CASE \E n \in SecName, k \in SecKind : SelectSection(n, k)
  <2>1. PICK n \in SecName, k \in SecKind : SelectSection(n, k)
    BY <1>3
  <2>2. CASE SecSeen(n)
    BY <2>1, <2>2 DEF SelectSection, SecSeen
  <2>3. CASE ~SecSeen(n)
    <3>1. cur' = n /\ sec' = [sec EXCEPT ![n] = NewSection(k)]
      BY <2>1, <2>3 DEF SelectSection
    <3>2. sec'[n].kind = k
      BY <1>1, <3>1 DEF NewSection
    <3> QED BY <3>1, <3>2 DEF SecSeen, SecKind
  <2> QED BY <2>2, <2>3
<1>4. CASE \E n \in Nat, f \in Seq(Fix) : Grew(n, f)
  BY <1>4 DEF Grew, SecSeen
<1> QED BY <1>2, <1>3, <1>4 DEF SectionEffect

\* A seen section never loses its kind, its alignment or its bytes.
LEMMA SectionsGrow ==
  ASSUME Typed, SecSeen(cur), SectionEffect, NEW m \in SecName, SecSeen(m)
  PROVE  /\ sec'[m].kind = sec[m].kind
         /\ sec'[m].align >= sec[m].align
         /\ sec[m].kind = "PROGBITS" => sec'[m].size >= sec[m].size
<1>1. /\ sec \in [SecName -> Section] /\ cur \in SecName
      /\ sec[m].size \in Nat /\ sec[m].align \in Nat
  BY DEF Typed, StateTypeOK, UnitTypeOK, Section
<1>2. CASE UNCHANGED <<sec, cur, fixes>>
  BY <1>1, <1>2
<1>3. CASE \E n \in SecName, k \in SecKind : SelectSection(n, k)
  <2>1. PICK n \in SecName, k \in SecKind : SelectSection(n, k)
    BY <1>3
  <2>2. sec'[m] = sec[m]
    BY <1>1, <2>1 DEF SelectSection
  <2> QED BY <1>1, <2>2
<1>4. CASE \E n \in Nat, f \in Seq(Fix) : Grew(n, f)
  BY <1>1, <1>4 DEF Grew, InNobits, Here
<1> QED BY <1>2, <1>3, <1>4 DEF SectionEffect

\* A data directive's loop never runs in a NOBITS section, because no
\* section is selected and no kind changes while it runs.
LEMMA LoopStaysInBytes ==
  ASSUME Typed, LoopInBytes, SectionEffect, LoopEffect
  PROVE  LoopInBytes'
<1>1. CASE work' = NoWork
  BY <1>1 DEF LoopInBytes
<1>2. CASE UNCHANGED <<work, sec, cur>>
  BY <1>2 DEF LoopInBytes, InNobits
<1>3. CASE work' = [work EXCEPT !.args = Tail(@)] /\ work # NoWork
  <2>1. work'.dir = work.dir
    BY <1>3 DEF Typed, StateTypeOK, ArgStmt
  <2>2. InNobits' = InNobits
    BY <1>3 DEF SectionEffect, Grew, InNobits
  <2> QED BY <1>3, <2>1, <2>2 DEF LoopInBytes
<1>4. CASE (work'.dir # "globl" => ~InNobits) /\ UNCHANGED <<sec, cur>>
  BY <1>4 DEF LoopInBytes, InNobits
<1> QED BY <1>1, <1>2, <1>3, <1>4 DEF LoopEffect

\* Permitted growth keeps every fixup in bounds and apart from the others.
LEMMA FixupsStayPlaced ==
  ASSUME PlacedInv, SectionEffect, Typed'
  PROVE  FixupsInBounds' /\ FixupsDisjoint'
<1>1. /\ Typed /\ SecSeen(cur) /\ FixupsInBounds /\ FixupsDisjoint
      /\ fixes \in Seq(Fix) /\ cur \in SecName /\ Len(fixes) \in Nat
      /\ sec \in [SecName -> Section]
  BY LenProperties DEF PlacedInv, Typed, StateTypeOK, UnitTypeOK
<1>2. ASSUME NEW k \in 1 .. Len(fixes)
      PROVE  /\ fixes[k] \in Fix
             /\ sec'[fixes[k].sec].kind = "PROGBITS"
             /\ EndOf(fixes[k]) <= sec[fixes[k].sec].size
             /\ EndOf(fixes[k]) <= sec'[fixes[k].sec].size
  <2>1. fixes[k] \in Fix
    BY <1>1, ElementOfSeq
  <2>2. sec[fixes[k].sec].kind = "PROGBITS" /\ EndOf(fixes[k]) <= sec[fixes[k].sec].size
    BY <1>1 DEF FixupsInBounds, EndOf
  <2>3. /\ sec'[fixes[k].sec].kind = "PROGBITS"
        /\ sec'[fixes[k].sec].size >= sec[fixes[k].sec].size
    BY <1>1, <2>1, <2>2, SectionsGrow DEF SecSeen, Fix
  <2>4. EndOf(fixes[k]) \in Nat
    BY <2>1 DEF EndOf, FieldWidth, Fix
  <2>5. sec[fixes[k].sec].size \in Nat /\ sec'[fixes[k].sec].size \in Nat
    BY <1>1, <2>1 DEF Fix, Section, Typed, StateTypeOK, UnitTypeOK
  <2> QED BY <2>1, <2>2, <2>3, <2>4, <2>5
<1>3. CASE fixes' = fixes
  <2>1. FixupsInBounds'
    BY <1>2, <1>3 DEF FixupsInBounds, EndOf
  <2>2. FixupsDisjoint'
    BY <1>1, <1>3 DEF FixupsDisjoint, FieldBytes
  <2> QED BY <2>1, <2>2
<1>4. ASSUME NEW n \in Nat, NEW f \in Seq(Fix), Grew(n, f)
      PROVE  FixupsInBounds' /\ FixupsDisjoint'
  <2> DEFINE old == Len(fixes)
  <2>1. /\ Len(f) \in Nat /\ Here \in Nat
        /\ fixes' \in Seq(Fix) /\ Len(fixes') = old + Len(f)
        /\ \A k \in 1 .. old : fixes'[k] = fixes[k]
        /\ \A k \in 1 .. old + Len(f) : k > old => fixes'[k] = f[k - old]
    BY <1>1, <1>4, ConcatProperties, LenProperties DEF Grew, Section, Here
  <2>2. ASSUME NEW k \in 1 .. Len(fixes'), k > old
        PROVE  /\ fixes'[k] = f[k - old] /\ k - old \in 1 .. Len(f)
               /\ fixes'[k] \in Fix /\ fixes'[k].sec = cur
               /\ Here <= fixes'[k].offset
               /\ EndOf(fixes'[k]) <= Here + n
               /\ ~InNobits
    <3>1. fixes'[k] = f[k - old] /\ k - old \in 1 .. Len(f)
      BY <1>1, <2>1, <2>2
    <3>2. f # <<>>
      BY <3>1, <2>1, EmptySeq
    <3> QED BY <1>4, <2>1, <3>1, <3>2, ElementOfSeq DEF Grew, FieldsWithin
  <2>3. FixupsInBounds'
    <3> SUFFICES ASSUME NEW k \in 1 .. Len(fixes')
                 PROVE  /\ sec'[fixes'[k].sec].kind = "PROGBITS"
                        /\ EndOf(fixes'[k]) <= sec'[fixes'[k].sec].size
      BY DEF FixupsInBounds, EndOf
    <3>1. CASE k <= old
      BY <1>2, <2>1, <3>1
    <3>2. CASE k > old
      <4>1. sec[cur].kind = "PROGBITS"
        BY <1>1, <2>2, <3>2 DEF SecSeen, InNobits, Section, SecKind
      <4>2. sec'[cur].kind = "PROGBITS" /\ sec'[cur].size = Here + n
        BY <1>4, <2>2, <3>2, <4>1 DEF Grew
      <4> QED BY <2>2, <3>2, <4>2
    <3> QED BY <1>1, <2>1, <3>1, <3>2
  <2>4. ASSUME NEW j \in 1 .. Len(fixes'), NEW k \in 1 .. Len(fixes'), j < k,
               fixes'[j].sec = fixes'[k].sec
        PROVE  FieldBytes(fixes'[j]) \cap FieldBytes(fixes'[k]) = {}
    <3>1. CASE k <= old
      <4>1. j \in 1 .. old /\ k \in 1 .. old /\ j # k
        BY <1>1, <2>1, <2>4, <3>1
      <4>2. fixes'[j] = fixes[j] /\ fixes'[k] = fixes[k]
        BY <2>1, <4>1
      <4> QED BY <1>1, <2>4, <4>1, <4>2 DEF FixupsDisjoint
    <3>2. CASE k > old
      <4>1. fixes'[j] \in Fix /\ fixes'[k] \in Fix
        BY <2>1, ElementOfSeq
      <4>2. EndOf(fixes'[j]) <= fixes'[k].offset
        <5>1. CASE j <= old
          <6>1. j \in 1 .. old /\ fixes'[j] = fixes[j]
            BY <1>1, <2>1, <5>1
          <6>2. EndOf(fixes[j]) <= Here
            BY <1>2, <2>2, <2>4, <3>2, <6>1 DEF Here
          <6>3. EndOf(fixes[j]) \in Nat /\ fixes'[k].offset \in Nat
            BY <1>2, <4>1, <6>1, SMTT(60) DEF EndOf, FieldWidth, Fix
          <6>4. Here <= fixes'[k].offset
            BY <2>2, <3>2
          <6> QED BY <2>1, <6>1, <6>2, <6>3, <6>4
        <5>2. CASE j > old
          <6>1. /\ fixes'[j] = f[j - old] /\ j - old \in 1 .. Len(f)
                /\ fixes'[k] = f[k - old] /\ k - old \in 1 .. Len(f)
            BY <2>2, <3>2, <5>2
          <6>2. j - old < k - old
            BY <1>1, <2>1, <2>4
          <6> QED BY <1>4, <6>1, <6>2 DEF Grew, FieldsWithin
        <5> QED BY <1>1, <2>1, <5>1, <5>2
      <4> QED BY <4>1, <4>2, SMTT(60) DEF FieldBytes, EndOf, FieldWidth, Fix
    <3> QED BY <1>1, <2>1, <3>1, <3>2
  <2>5. FixupsDisjoint'
    <3> SUFFICES ASSUME NEW j \in 1 .. Len(fixes'), NEW k \in 1 .. Len(fixes'),
                        j # k, fixes'[j].sec = fixes'[k].sec
                 PROVE  FieldBytes(fixes'[j]) \cap FieldBytes(fixes'[k]) = {}
      BY DEF FixupsDisjoint, FieldBytes
    <3>1. j < k \/ k < j
      BY <2>1
    <3> QED BY <2>4, <3>1
  <2> QED BY <2>3, <2>5
<1> QED BY <1>3, <1>4 DEF SectionEffect

\* The placement invariant is inductive.
LEMMA NextPlaced == PlacedInv /\ [Next]_vars => PlacedInv'
<1> SUFFICES ASSUME PlacedInv, [Next]_vars PROVE PlacedInv'
  OBVIOUS
<1>1. Typed /\ SecSeen(cur) /\ LoopInBytes
  BY DEF PlacedInv
<1>2. Typed'
  BY <1>1, NextTyped
<1>3. SectionEffect /\ LoopEffect
  BY <1>1, StepEffects, StepLoop
<1> QED BY <1>1, <1>2, <1>3, CurrentStaysSeen, LoopStaysInBytes, FixupsStayPlaced
        DEF PlacedInv

\* The placement invariant: the current section exists, data loops run in
\* PROGBITS sections, and every fixup is in bounds and apart from the others.
THEOREM AlwaysPlaced == Spec => []PlacedInv
BY InitPlaced, NextPlaced, PTL DEF Spec

\* Every field pass 3a may patch lies in bytes that were emitted, and
\* patching or relocating one field can never touch another, for every
\* program (emit_instruction, data_ints, resolve_fixups).
THEOREM FixupsInBoundsAlways == Spec => []FixupsInBounds
<1>1. PlacedInv => FixupsInBounds
  BY DEF PlacedInv
<1> QED BY <1>1, AlwaysPlaced, PTL

\* The fields of two fixups never overlap.
THEOREM FixupsDisjointAlways == Spec => []FixupsDisjoint
<1>1. PlacedInv => FixupsDisjoint
  BY DEF PlacedInv
<1> QED BY <1>1, AlwaysPlaced, PTL

\* However sections are interleaved and named again, one keeps its kind, its
\* strictest alignment and its bytes (qas_asm_section_set, qas_asm_unit_align).
THEOREM SectionsOnlyGrowAlways == Spec => SectionsOnlyGrow
<1>1. PlacedInv /\ [Next]_vars =>
        [\A n \in SecName : SecSeen(n) =>
            /\ sec'[n].kind = sec[n].kind
            /\ sec'[n].align >= sec[n].align
            /\ sec[n].kind = "PROGBITS" => sec'[n].size >= sec[n].size]_vars
  BY StepEffects, SectionsGrow DEF PlacedInv
<1> QED BY <1>1, AlwaysPlaced, PTL DEF Spec, SectionsOnlyGrow

-----------------------------------------------------------------------------
(* Symbols. *)

\* Storing a record changes that symbol and no other.
LEMMA StoredRecord ==
  ASSUME Typed, NEW s \in Sym, NEW r, Store(s, r), NEW t \in Sym
  PROVE  sym'[t] = IF t = s THEN r ELSE sym[t]
BY DEF Typed, StateTypeOK, UnitTypeOK, Store

\* A label, once defined, is never moved, redefined or turned into a
\* constant by any later statement or pass (qas_asm_unit_define_label,
\* do_set, do_globl, resolve_fixups).
THEOREM FirstLabelWinsAlways == Spec => FirstLabelWins
<1> DEFINE Wins == \A s \in Sym : sym[s].where = "SECTION" =>
                      /\ sym'[s].where = "SECTION"
                      /\ sym'[s].section = sym[s].section
                      /\ sym'[s].value = sym[s].value
<1>1. ASSUME Typed, SymbolEffect
      PROVE  Wins
  <2>1. CASE UNCHANGED <<syms, sym, relocs>>
    BY <2>1
  <2>2. ASSUME NEW s \in Sym, NEW r, Store(s, r), Rerecorded(s, r)
        PROVE  Wins
    <3>1. \A t \in Sym : sym'[t] = IF t = s THEN r ELSE sym[t]
      BY <1>1, <2>2, StoredRecord
    <3> QED BY <2>2, <3>1 DEF Rerecorded
  <2> QED BY <1>1, <2>1, <2>2 DEF SymbolEffect
<1>2. PlacedInv /\ [Next]_vars => [Wins]_vars
  BY <1>1, StepEffects DEF PlacedInv
<1> QED BY <1>2, AlwaysPlaced, PTL DEF Spec, FirstLabelWins

\* Labels stay inside their section; symbols are listed in the order pass 3b
\* walks; and a relocation record has a symbol that pass 3b will emit.
SymsListed  == \A s \in Sym : Interned(s) => \E k \in 1 .. Len(syms) : syms[k] = s
\* A relocation is never without a symbol.
RelocsNamed == relocs # <<>> => \E s \in Sym : Interned(s) /\ sym[s].referenced

\* What the ELF builder relies on.
SymbolInv == SymsListed /\ RelocsNamed

\* Every interned symbol stays listed, every relocation's symbol referenced.
LEMMA SymbolsStay ==
  ASSUME PlacedInv, SymbolInv, SymbolEffect
  PROVE  SymbolInv'
<1>1. Typed /\ syms \in Seq(Sym) /\ sym \in [Sym -> Symbol] /\ Len(syms) \in Nat
  BY LenProperties DEF PlacedInv, Typed, StateTypeOK, UnitTypeOK
<1>2. CASE UNCHANGED <<syms, sym, relocs>>
  BY <1>2 DEF SymbolInv, SymsListed, RelocsNamed, Interned
<1>3. ASSUME NEW s \in Sym, NEW r \in Symbol, Store(s, r), Rerecorded(s, r),
             relocs' = relocs \/ r.referenced
      PROVE  SymbolInv'
  <2>1. \A t \in Sym : sym'[t] = IF t = s THEN r ELSE sym[t]
    BY <1>1, <1>3, StoredRecord
  <2>2. /\ \A k \in 1 .. Len(syms) : k \in 1 .. Len(syms') /\ syms'[k] = syms[k]
        /\ \E k \in 1 .. Len(syms') : syms'[k] = s
    <3>1. CASE Interned(s)
      <4>1. syms' = syms
        BY <1>3, <3>1 DEF Store, InternOrder
      <4> QED BY <3>1, <4>1 DEF SymbolInv, SymsListed
    <3>2. CASE ~Interned(s)
      <4>1. syms' = Append(syms, s)
        BY <1>3, <3>2 DEF Store, InternOrder
      <4>2. /\ Len(syms') = Len(syms) + 1
            /\ \A k \in 1 .. Len(syms) : syms'[k] = syms[k]
            /\ syms'[Len(syms) + 1] = s
        BY <1>1, <4>1, AppendProperties
      <4> QED BY <1>1, <4>2
    <3> QED BY <3>1, <3>2
  <2>3. SymsListed'
    <3> SUFFICES ASSUME NEW t \in Sym, Interned(t)'
                 PROVE  \E k \in 1 .. Len(syms') : syms'[k] = t
      BY DEF SymsListed, Interned
    <3>1. CASE t = s
      BY <2>2, <3>1
    <3>2. CASE t # s
      <4>1. Interned(t)
        BY <2>1, <3>2 DEF Interned
      <4> QED BY <2>2, <4>1 DEF SymbolInv, SymsListed
    <3> QED BY <3>1, <3>2
  <2>4. RelocsNamed'
    <3>1. CASE r.referenced
      BY <1>3, <2>1, <3>1 DEF RelocsNamed, Interned, Rerecorded
    <3>2. CASE ~r.referenced /\ relocs' = relocs
      <4> SUFFICES ASSUME relocs # <<>>
                   PROVE  \E t \in Sym : Interned(t)' /\ sym'[t].referenced
        BY <3>2 DEF RelocsNamed, Interned
      <4>1. PICK t \in Sym : Interned(t) /\ sym[t].referenced
        BY DEF SymbolInv, RelocsNamed
      <4>2. t # s
        BY <1>3, <3>2, <4>1 DEF Rerecorded
      <4> QED BY <2>1, <4>1, <4>2 DEF Interned
    <3> QED BY <1>3, <3>1, <3>2
  <2> QED BY <2>3, <2>4 DEF SymbolInv
<1> QED BY <1>2, <1>3 DEF SymbolEffect

\* A label's section exists and never shrinks below it.
LEMMA LabelsStay ==
  ASSUME PlacedInv, Typed', LabelsAnchored, SectionEffect, SymbolEffect
  PROVE  LabelsAnchored'
<1>1. Typed /\ SecSeen(cur) /\ cur \in SecName
  BY DEF PlacedInv, Typed, StateTypeOK, UnitTypeOK
<1> SUFFICES ASSUME NEW s \in Sym, sym'[s].where = "SECTION"
             PROVE  /\ sec'[sym'[s].section].kind # "none"
                    /\ sec'[sym'[s].section].kind = "PROGBITS"
                         => sym'[s].value <= sec'[sym'[s].section].size
  BY DEF LabelsAnchored, SecSeen
<1>2. CASE UNCHANGED <<syms, sym, relocs>>
  <2> DEFINE n == sym[s].section
  <2>1. /\ n \in SecName /\ sym[s].value \in Nat
        /\ sec[n].size \in Nat /\ sec'[n].size \in Nat
    BY <1>1, <1>2 DEF Typed, StateTypeOK, UnitTypeOK, Symbol, Section
  <2>2. /\ SecSeen(n)
        /\ sec[n].kind = "PROGBITS" => sym[s].value <= sec[n].size
    BY <1>2 DEF LabelsAnchored
  <2>3. /\ sec'[n].kind = sec[n].kind
        /\ sec[n].kind = "PROGBITS" => sec'[n].size >= sec[n].size
    BY <1>1, <2>1, <2>2, SectionsGrow
  <2> QED BY <1>2, <2>1, <2>2, <2>3 DEF SecSeen
<1>3. ASSUME UNCHANGED <<sec, cur>>,
             NEW t \in Sym, NEW r \in Symbol, Store(t, r), Rerecorded(t, r)
      PROVE  /\ sec'[sym'[s].section].kind # "none"
             /\ sec'[sym'[s].section].kind = "PROGBITS"
                  => sym'[s].value <= sec'[sym'[s].section].size
  <2>1. sym'[s] = IF s = t THEN r ELSE sym[s]
    BY <1>1, <1>3, StoredRecord
  <2>2. CASE s = t /\ sym[s].where # "SECTION"
    <3>1. sym'[s].section = cur /\ sym'[s].value = sec[cur].size
      BY <1>3, <2>1, <2>2 DEF Rerecorded, Here
    <3>2. sec[cur].size \in Nat
      BY <1>1 DEF Typed, StateTypeOK, UnitTypeOK, Section
    <3> QED BY <1>1, <1>3, <3>1, <3>2 DEF SecSeen
  <2>3. CASE sym[s].where = "SECTION"
    <3>1. sym'[s].section = sym[s].section /\ sym'[s].value = sym[s].value
      BY <1>3, <2>1, <2>3 DEF Rerecorded
    <3> QED BY <1>3, <2>3, <3>1 DEF LabelsAnchored, SecSeen
  <2> QED BY <2>1, <2>2, <2>3
<1> QED BY <1>2, <1>3 DEF SymbolEffect

\* Every label lies in a section that exists and within its bytes, however
\* the sections are interleaved after it (define_label, do_section).
THEOREM LabelsAnchoredAlways == Spec => []LabelsAnchored
<1>1. Init => LabelsAnchored
  BY DEF Init, UnitInit, NoSymbol, LabelsAnchored
<1>2. PlacedInv /\ PlacedInv' /\ LabelsAnchored /\ [Next]_vars => LabelsAnchored'
  BY StepEffects, LabelsStay DEF PlacedInv
<1> QED BY <1>1, <1>2, AlwaysPlaced, PTL DEF Spec

-----------------------------------------------------------------------------
(* The driver's internal checks never fail. *)

\* A patch site is inside the section's buffer.
LEMMA SitesPatchable ==
  ASSUME PlacedInv, PatchLocal
  PROVE  Patchable(fixes[next])
<1>1. /\ Resolving /\ fixes[next].kind = "PC32"
      /\ fixes \in Seq(Fix) /\ next \in Nat \ {0} /\ Len(fixes) \in Nat
  BY LenProperties
     DEF PatchLocal, ResolvesLocally, PlacedInv, Typed, StateTypeOK, UnitTypeOK
<1>2. next \in 1 .. Len(fixes)
  BY <1>1 DEF Resolving
<1> QED BY <1>1, <1>2 DEF PlacedInv, FixupsInBounds, FieldWidth, Patchable

\* Every handle build_object passes on was handed out by the builder.
LEMMA HandlesAccepted ==
  ASSUME PlacedInv, SymbolInv
  PROVE  BuilderAccepts
<1>1. relocs \in Seq(Reloc)
  BY DEF PlacedInv, Typed, StateTypeOK
<1>2. ASSUME NEW k \in 1 .. Len(relocs)
      PROVE  /\ Included(relocs[k].sec)
             /\ \E s \in Sym : Interned(s) /\ Emitted(s)
  <2>1. relocs # <<>>
    BY <1>1, <1>2, EmptySeq
  <2>2. \E s \in Sym : Interned(s) /\ sym[s].referenced
    BY <2>1 DEF SymbolInv, RelocsNamed
  <2> QED BY <1>2, <2>2 DEF Included, Emitted
<1>3. ASSUME NEW s \in Sym, Interned(s), Emitted(s), sym[s].where = "SECTION"
      PROVE  Included(sym[s].section)
  <2>1. PICK k \in 1 .. Len(syms) : syms[k] = s
    BY <1>3 DEF SymbolInv, SymsListed
  <2> QED BY <1>3, <2>1 DEF Included
<1> QED BY <1>2, <1>3 DEF BuilderAccepts

\* The status an action can leave behind.
LEMMA NextStatus ==
  ASSUME PlacedInv, SymbolInv, NoInternalRejection, [Next]_vars
  PROVE  NoInternalRejection'
<1> USE DEF NoInternalRejection
<1>1. ASSUME NEW st \in GrownStatus, Abort(st)
      PROVE  NoInternalRejection'
  BY <1>1 DEF Abort, GrownStatus
<1>2. ASSUME NEW n, NEW f, Emit(n, f) \/ EmitArg(n, f)
      PROVE  NoInternalRejection'
  BY <1>1, <1>2, GrowFailureType DEF Emit, EmitArg, Continue
<1>3. CASE Statement
  <2>1. CASE \E i \in Insns : Instruction(i)
    BY <1>2, <2>1 DEF Instruction, Continue
  <2>2. CASE \E n \in Zeros : Zero(n)
    BY <1>2, <2>2 DEF Zero
  <2>3. CASE \E a \in Aligns : Align(a)
    BY <1>1, <2>3, GrowFailureType DEF Align, Continue
  <2>4. CASE \/ \E s \in Sym : Label(s)
             \/ \E n \in SecName, b \in {FALSE, Mistakes} : Shortcut(n, b)
             \/ \E n \in SecName, b \in {FALSE, Mistakes} : NamedSection(n, b)
             \/ \E s \in Sym, v \in AbsValues : Set(s, v)
             \/ \E d \in ArgStmts : ArgDirective(d)
             \/ BadStatement \/ BadInstruction
    BY <2>4 DEF Label, Shortcut, NamedSection, Set, ArgDirective, BadStatement,
                BadInstruction, Continue
  <2> QED BY <1>3, <2>1, <2>2, <2>3, <2>4 DEF Statement
<1>4. CASE IntsArg
  BY <1>2, <1>4 DEF IntsArg, RejectArg, Continue
<1>5. CASE StringsArg
  <2> DEFINE n == NextArg.len + work.width
  <2>1. CASE EmitArg(n, <<>>) \/ RejectArg \/ Abort(GrowFailure(n))
    BY <1>1, <1>2, <2>1, GrowFailureType DEF RejectArg, Continue
  <2>2. CASE Continue
    BY <2>2 DEF Continue
  <2> QED BY <1>5, <2>1, <2>2 DEF StringsArg
<1>6. CASE GloblArg
  BY <1>6 DEF GloblArg, RejectArg, Continue
<1>7. CASE PatchLocal
  BY <1>7, SitesPatchable DEF PatchLocal
<1>8. CASE BuildObject
  BY <1>8, HandlesAccepted DEF BuildObject
<1>9. CASE AllocFails
  BY <1>9 DEF AllocFails, Abort
<1>10. CASE EndOfSource \/ OutOfRange \/ Relocate \/ EndResolve \/ UNCHANGED vars
  BY <1>10 DEF EndOfSource, OutOfRange, Relocate, EndResolve, vars
<1> QED BY <1>3, <1>4, <1>5, <1>6, <1>7, <1>8, <1>9, <1>10 DEF Next, Progress, Returned

\* No program whatever makes the driver fail with QAS_ERR_INVALID_ARGUMENT:
\* no patch lies outside its buffer (asm.c calls that a bug) and the object
\* builder is never given a handle it did not hand out.
THEOREM NoInternalRejectionAlways == Spec => []NoInternalRejection
<1>1. Init => SymbolInv /\ NoInternalRejection
  BY DEF Init, UnitInit, NoSymbol, Interned, SymbolInv, SymsListed, RelocsNamed,
         NoInternalRejection
<1>2. PlacedInv /\ SymbolInv /\ [Next]_vars => SymbolInv'
  BY StepEffects, SymbolsStay DEF PlacedInv
<1>3. PlacedInv /\ SymbolInv /\ NoInternalRejection /\ [Next]_vars
        => NoInternalRejection'
  BY NextStatus
<1> QED BY <1>1, <1>2, <1>3, AlwaysPlaced, PTL DEF Spec

-----------------------------------------------------------------------------
(* No object after a failure. *)

\* While the passes run nothing has failed for good and nothing is built;
\* arguments are processed in pass 2 only, and pass 3b starts without errors.
RunningInv ==
  /\ phase # "done" => status = "OK" /\ image = {}
  /\ work # NoWork => phase = "layout"
  /\ phase = "build" => errs = 0
  /\ NoObjectAfterFailure

\* The error exit leaves the driver returned, without an object.
LEMMA AbortRunning ==
  ASSUME NEW st \in Fatal, Abort(st)
  PROVE  RunningInv'
BY DEF Abort, Fatal, RunningInv, NoObjectAfterFailure

\* A step that stays in pass 2 leaves no object and no failure.
LEMMA LayoutRunning ==
  ASSUME RunningInv, phase = "layout", Continue
  PROVE  RunningInv'
BY DEF RunningInv, NoObjectAfterFailure, Continue

\* So does one that emits bytes, unless it fails.
LEMMA EmitRunning ==
  ASSUME RunningInv, phase = "layout", NEW n, NEW f, Emit(n, f) \/ EmitArg(n, f)
  PROVE  RunningInv'
<1>1. CASE CanGrow(n)
  BY <1>1, LayoutRunning DEF Emit, EmitArg
<1>2. CASE ~CanGrow(n)
  BY <1>2, AbortRunning, GrowFailureType DEF Emit, EmitArg, GrownStatus, Fatal
<1> QED BY <1>1, <1>2

\* Every statement keeps the relation of phase, status and object.
LEMMA StatementRunning ==
  ASSUME RunningInv, Statement
  PROVE  RunningInv'
<1>1. phase = "layout"
  BY DEF Statement, Label, Shortcut, NamedSection, Set, Instruction, Zero,
         Align, ArgDirective, BadStatement, BadInstruction, Take
<1>2. CASE \E i \in Insns : Instruction(i)
  BY <1>1, <1>2, EmitRunning, LayoutRunning DEF Instruction
<1>3. CASE \E n \in Zeros : Zero(n)
  BY <1>1, <1>3, EmitRunning DEF Zero
<1>4. CASE \E a \in Aligns : Align(a)
  BY <1>1, <1>4, LayoutRunning, AbortRunning, GrowFailureType
     DEF Align, GrownStatus, Fatal
<1>5. CASE \/ \E s \in Sym : Label(s)
           \/ \E n \in SecName, b \in {FALSE, Mistakes} : Shortcut(n, b)
           \/ \E n \in SecName, b \in {FALSE, Mistakes} : NamedSection(n, b)
           \/ \E s \in Sym, v \in AbsValues : Set(s, v)
           \/ \E d \in ArgStmts : ArgDirective(d)
           \/ BadStatement \/ BadInstruction
  BY <1>1, <1>5, LayoutRunning
     DEF Label, Shortcut, NamedSection, Set, ArgDirective, BadStatement, BadInstruction
<1> QED BY <1>2, <1>3, <1>4, <1>5 DEF Statement

\* So does every step of an argument loop.
LEMMA ArgRunning ==
  ASSUME RunningInv, IntsArg \/ StringsArg \/ GloblArg
  PROVE  RunningInv'
<1>1. phase = "layout"
  BY DEF IntsArg, StringsArg, GloblArg, RunningInv, NoWork
<1>2. CASE IntsArg
  BY <1>1, <1>2, EmitRunning, LayoutRunning DEF IntsArg, RejectArg
<1>3. CASE StringsArg
  BY <1>1, <1>3, EmitRunning, LayoutRunning, AbortRunning, GrowFailureType
     DEF StringsArg, RejectArg, GrownStatus, Fatal
<1>4. CASE GloblArg
  BY <1>1, <1>4, LayoutRunning DEF GloblArg, RejectArg
<1> QED BY <1>2, <1>3, <1>4

\* So does every step of pass 3.
LEMMA PassThreeRunning ==
  ASSUME RunningInv, errs \in Nat,
         EndOfSource \/ PatchLocal \/ OutOfRange \/ Relocate \/ EndResolve
           \/ BuildObject \/ AllocFails \/ UNCHANGED vars
  PROVE  RunningInv'
<1> USE DEF RunningInv, NoObjectAfterFailure
<1>1. CASE EndOfSource
  BY <1>1 DEF EndOfSource
<1>2. CASE PatchLocal
  <2>1. CASE Abort("INVALID_ARGUMENT")
    BY <2>1, AbortRunning DEF Fatal
  <2>2. CASE UNCHANGED <<unitVars, phase, work, errs, relocs, status, image>>
    BY <1>2, <2>2 DEF PatchLocal, Resolving
  <2> QED BY <1>2, <2>1, <2>2 DEF PatchLocal
<1>3. CASE OutOfRange \/ Relocate
  BY <1>3 DEF OutOfRange, Relocate, Resolving
<1>4. CASE EndResolve
  BY <1>4 DEF EndResolve
<1>5. CASE BuildObject
  BY <1>5 DEF BuildObject
<1>6. CASE AllocFails
  BY <1>6, AbortRunning DEF AllocFails, Fatal
<1>7. CASE UNCHANGED vars
  BY <1>7 DEF vars
<1> QED BY <1>1, <1>2, <1>3, <1>4, <1>5, <1>6, <1>7

\* Whatever fails, and in whichever pass, *out_image stays NULL (asm.h: it
\* is set only when assembly succeeded).
THEOREM NoObjectAfterFailureAlways == Spec => []NoObjectAfterFailure
<1>1. Init => RunningInv
  BY DEF Init, RunningInv, NoObjectAfterFailure
<1>2. Typed /\ RunningInv /\ [Next]_vars => RunningInv'
  <2>1. Typed => errs \in Nat
    BY DEF Typed, StateTypeOK
  <2> QED BY <2>1, StatementRunning, ArgRunning, PassThreeRunning DEF Next, Progress, Returned
<1>3. RunningInv => NoObjectAfterFailure
  BY DEF RunningInv
<1> QED BY <1>1, <1>2, <1>3, AlwaysTyped, PTL DEF Spec

-----------------------------------------------------------------------------
(* 3. The reference. *)

\* What a statement of each kind consists of.
LEMMA StmtShape ==
  ASSUME NEW st \in StmtRecord
  PROVE  /\ st.op = "label" => st.sym \in Sym
         /\ st.op = "set" => st.sym \in Sym /\ st.value \in Nat
         /\ st.op = "section" => st.name \in SecName /\ st.kind \in SecKind
         /\ st.op = "insn" => st.insn \in Insns
         /\ st.op = "zero" => st.count \in Nat
         /\ st.op = "align" => st.to \in Nat \ {0} /\ st.to \in Aligns
         /\ st.op = "args" => /\ st.stmt \in ArgStmt
                              /\ Ref!Args(st) \in Seq(Arg) /\ st.stmt.width \in Nat
                              /\ st.stmt.dir \in {"ints", "strings", "globl"}
<1>1. CASE st.op = "args"
  <2>1. st.stmt \in ArgStmts
    BY <1>1 DEF StmtRecord
  <2>2. st.stmt \in ArgStmt
    BY <2>1, StmtAssumption
  <2> QED BY <1>1, <2>2 DEF ArgStmt, Ref!Args
<1>2. CASE st.op # "args"
  BY <1>2, WordsAreNat DEF StmtRecord
<1> QED BY <1>1, <1>2

\* The length of an instruction is a number, however it is encoded.
LEMMA InsnLenType ==
  ASSUME NEW i \in Insns
  PROVE  /\ InsnLen(i) \in Nat /\ Ref!InsnLen(i) = InsnLen(i)
         /\ i.head \in Nat /\ i.disp.width \in Nat /\ i.imm.width \in Nat
         /\ InsnLen(i) = i.head + i.disp.width + i.imm.width
<1>1. i.head \in Nat /\ i.disp \in DispField /\ i.imm \in ImmField
  BY StmtAssumption DEF Insn
<1>2. i.disp.width \in Nat /\ i.imm.width \in Nat
  BY <1>1 DEF DispField, ImmField, Field
<1> QED BY <1>1, <1>2 DEF InsnLen, Ref!InsnLen

\* An argument takes a number of bytes.
LEMMA ArgBytesType ==
  ASSUME NEW st \in StmtRecord, st.op = "args", NEW j \in 1 .. Len(Ref!Args(st))
  PROVE  Ref!ArgBytes(st, j) \in Nat
<1>1. Ref!Args(st) \in Seq(Arg) /\ st.stmt.width \in Nat
  BY StmtShape
<1>2. Ref!Args(st)[j].len \in Nat
  <2>1. Ref!Args(st)[j] \in Arg
    BY <1>1, ElementOfSeq
  <2> QED BY <2>1 DEF Arg
<1>3. /\ st.stmt.dir = "ints" => Ref!ArgBytes(st, j) = st.stmt.width
      /\ st.stmt.dir = "strings" => Ref!ArgBytes(st, j) = Ref!Args(st)[j].len + st.stmt.width
      /\ st.stmt.dir \notin {"ints", "strings"} => Ref!ArgBytes(st, j) = 0
  <2>1. /\ Ref!IsDir(st, "ints") <=> st.stmt.dir = "ints"
        /\ Ref!IsDir(st, "strings") <=> st.stmt.dir = "strings"
    BY DEF Ref!IsDir
  <2>2. ~ (Ref!IsDir(st, "ints") /\ Ref!IsDir(st, "strings"))
    BY <2>1
  <2> QED BY <2>1, <2>2 DEF Ref!ArgBytes
<1> QED BY <1>1, <1>2, <1>3

\* The offset of an argument is the bytes of those before it.
LEMMA ArgOffsetIs ==
  ASSUME NEW st \in StmtRecord, st.op = "args"
  PROVE  /\ Ref!ArgOffset(st, 1) = 0
         /\ \A j \in 1 .. Len(Ref!Args(st)) :
              Ref!ArgOffset(st, j + 1) = Ref!ArgOffset(st, j) + Ref!ArgBytes(st, j)
         /\ \A j \in 1 .. Len(Ref!Args(st)) + 1 : Ref!ArgOffset(st, j) \in Nat
<1> DEFINE n == Len(Ref!Args(st))
           b(j) == Ref!ArgBytes(st, j)
           F == [i \in 1 .. n |-> [x \in Nat |-> x + b(i)]]
           Fits(f) == f = [i \in 0 .. n |-> IF i = 0 THEN 0 ELSE f[i - 1] + b(i)]
           w == CHOOSE f : Fits(f)
<1>1. n \in Nat /\ \A j \in 1 .. n : b(j) \in Nat
  BY StmtShape, ArgBytesType
<1>2. \A j : Ref!ArgOffset(st, j) = w[j - 1]
  BY DEF Ref!ArgOffset
<1> HIDE DEF n, b
<1>3. F \in [1 .. n -> [Nat -> Nat]] /\ \A i \in 1 .. n, x \in Nat : F[i][x] = x + b(i)
  BY <1>1
<1> HIDE DEF F
<1>4. PICK g : StepsTo(g, n, Nat, 0, F)
  BY <1>1, <1>3, StepsExist
<1>5. Fits(g)
  <2>1. g \in [0 .. n -> Nat] /\ g[0] = 0 /\ \A i \in 1 .. n : g[i] = F[i][g[i - 1]]
    BY <1>4 DEF StepsTo
  <2>2. ASSUME NEW i \in 1 .. n PROVE g[i] = g[i - 1] + b(i)
    <3>1. i - 1 \in 0 .. n /\ g[i - 1] \in Nat
      BY <1>1, <2>1
    <3> QED BY <1>3, <2>1, <3>1
  <2> QED BY <2>1, <2>2
<1>6. Fits(w)
  BY <1>5
<1> HIDE DEF w
<1>7. /\ w = [i \in 0 .. n |-> w[i]] /\ w[0] = 0
      /\ \A i \in 1 .. n : w[i] = w[i - 1] + b(i)
  BY <1>1, <1>6
<1>8. \A i \in 1 .. n : w[i - 1] \in Nat => w[i] = F[i][w[i - 1]]
  BY <1>3, <1>7
<1>9. StepsTo(w, n, Nat, 0, F)
  BY <1>1, <1>3, <1>7, <1>8, StepsUnique
<1>10. w \in [0 .. n -> Nat]
  BY <1>9 DEF StepsTo
<1>11. Ref!ArgOffset(st, 1) = 0
  <2>1. Ref!ArgOffset(st, 1) = w[1 - 1] /\ 1 - 1 = 0
    BY <1>2
  <2> QED BY <1>7, <2>1
<1>12. \A j \in 1 .. n : (j + 1) - 1 = j
  BY <1>1
<1>13. \A j \in 1 .. n : Ref!ArgOffset(st, j + 1) = Ref!ArgOffset(st, j) + b(j)
  BY <1>2, <1>7, <1>12
<1>14. \A j \in 1 .. n + 1 : Ref!ArgOffset(st, j) \in Nat
  BY <1>1, <1>2, <1>10
<1> QED BY <1>11, <1>13, <1>14 DEF n, b

\* A statement never takes bytes back.
LEMMA SizeAfterType ==
  ASSUME NEW st \in StmtRecord, NEW n \in Nat
  PROVE  Ref!SizeAfter(st, n) \in Nat /\ Ref!SizeAfter(st, n) >= n
<1>1. CASE st.op = "insn"
  <2>1. Ref!SizeAfter(st, n) = n + Ref!InsnLen(st.insn)
    BY <1>1 DEF Ref!SizeAfter
  <2> QED BY <1>1, <2>1, StmtShape, InsnLenType
<1>2. CASE st.op = "zero"
  BY <1>2, StmtShape DEF Ref!SizeAfter
<1>3. CASE st.op = "align"
  <2>1. Ref!SizeAfter(st, n) = Ref!RoundUp(n, st.to)
    BY <1>3 DEF Ref!SizeAfter
  <2>2. st.to \in Nat \ {0}
    BY <1>3, StmtShape
  <2>3. n % st.to \in 0 .. st.to - 1
    BY <2>2, ModRange
  <2> QED BY <2>1, <2>2, <2>3 DEF Ref!RoundUp
<1>4. CASE st.op = "args"
  <2>1. Ref!SizeAfter(st, n) = n + Ref!ArgOffset(st, Len(Ref!Args(st)) + 1)
    BY <1>4 DEF Ref!SizeAfter
  <2>2. Len(Ref!Args(st)) + 1 \in 1 .. Len(Ref!Args(st)) + 1
    BY <1>4, StmtShape
  <2> QED BY <1>4, <2>1, <2>2, ArgOffsetIs
<1>5. CASE st.op \notin {"insn", "zero", "align", "args"}
  BY <1>5 DEF Ref!SizeAfter
<1> QED BY <1>1, <1>2, <1>3, <1>4, <1>5

\* The location counters, and what a statement does to them.
Counters == [cur : SecName, size : [SecName -> Nat],
             kind : [SecName -> SecKind \cup {"none"}]]

After(u, st) ==
  IF st.op = "section"
  THEN [u EXCEPT !.cur = st.name,
                 !.kind[st.name] = IF @ = "none" THEN st.kind ELSE @]
  ELSE [u EXCEPT !.size[u.cur] = Ref!SizeAfter(st, @)]

\* Location counters stay location counters.
LEMMA AfterType ==
  ASSUME NEW u \in Counters, NEW st \in StmtRecord
  PROVE  /\ After(u, st) \in Counters
         /\ \A n \in SecName : After(u, st).size[n] >= u.size[n]
<1>1. u.cur \in SecName /\ u.size \in [SecName -> Nat]
      /\ u.kind \in [SecName -> SecKind \cup {"none"}]
  BY DEF Counters
<1>2. CASE st.op = "section"
  <2>1. st.name \in SecName /\ st.kind \in SecKind
    BY <1>2, StmtShape
  <2> DEFINE k == IF u.kind[st.name] = "none" THEN st.kind ELSE u.kind[st.name]
             v == [u EXCEPT !.cur = st.name, !.kind = [u.kind EXCEPT ![st.name] = k]]
  <2>2. After(u, st) = v
    BY <1>2 DEF After
  <2>3. [u.kind EXCEPT ![st.name] = k] \in [SecName -> SecKind \cup {"none"}]
    BY <1>1, <2>1
  <2>4. v \in Counters /\ v.size = u.size
    BY <1>1, <2>1, <2>3 DEF Counters
  <2> QED BY <1>1, <2>2, <2>4
<1>3. CASE st.op # "section"
  <2>1. Ref!SizeAfter(st, u.size[u.cur]) \in Nat
        /\ Ref!SizeAfter(st, u.size[u.cur]) >= u.size[u.cur]
    BY <1>1, SizeAfterType
  <2> QED BY <1>1, <1>3, <2>1 DEF After, Counters
<1> QED BY <1>2, <1>3

\* The recursive definition of Layout defines what it says.
LEMMA LayoutIs ==
  ASSUME NEW p \in Seq(StmtRecord)
  PROVE  /\ Ref!Layout(p)[0] = Ref!Start
         /\ \A k \in 1 .. Len(p) : Ref!Layout(p)[k] = After(Ref!Layout(p)[k - 1], p[k])
         /\ \A k \in 0 .. Len(p) : Ref!Layout(p)[k] \in Counters
<1> DEFINE n == Len(p)
           Step(i, x) == After(x, p[i])
           F == [i \in 1 .. n |-> [x \in Counters |-> Step(i, x)]]
           Fits(f) == f = [k \in 0 .. n |-> IF k = 0 THEN Ref!Start ELSE Step(k, f[k - 1])]
           w == CHOOSE f : Fits(f)
<1>1. n \in Nat /\ \A i \in 1 .. n : p[i] \in StmtRecord
  OBVIOUS
<1>2. Ref!Layout(p) = w
  BY DEF Ref!Layout, After
<1>3. Ref!Start \in Counters
  BY SecNameAssumption DEF Ref!Start, Counters, SecKind
<1>4. \A i \in 1 .. n, x \in Counters : Step(i, x) \in Counters
  BY <1>1, AfterType
<1> HIDE DEF n, Step
<1>5. /\ F \in [1 .. n -> [Counters -> Counters]]
      /\ \A i \in 1 .. n, x \in Counters : F[i][x] = Step(i, x)
  BY <1>4
<1> HIDE DEF F
<1>6. PICK g : StepsTo(g, n, Counters, Ref!Start, F)
  BY <1>1, <1>3, <1>5, StepsExist
<1>7. Fits(g)
  <2>1. /\ g \in [0 .. n -> Counters] /\ g[0] = Ref!Start
        /\ \A i \in 1 .. n : g[i] = F[i][g[i - 1]]
    BY <1>6 DEF StepsTo
  <2>2. ASSUME NEW i \in 1 .. n PROVE g[i] = Step(i, g[i - 1])
    <3>1. i - 1 \in 0 .. n /\ g[i - 1] \in Counters
      BY <1>1, <2>1
    <3> QED BY <1>5, <2>1, <3>1
  <2> QED BY <2>1, <2>2
<1>8. Fits(w)
  BY <1>7
<1> HIDE DEF w
<1>9. /\ w = [k \in 0 .. n |-> w[k]] /\ w[0] = Ref!Start
      /\ \A i \in 1 .. n : w[i] = Step(i, w[i - 1])
  <2>1. w = [k \in 0 .. n |-> IF k = 0 THEN Ref!Start ELSE Step(k, w[k - 1])]
    BY <1>8
  <2>2. w = [k \in 0 .. n |-> w[k]]
    BY <2>1
  <2>3. \A k \in 0 .. n : w[k] = IF k = 0 THEN Ref!Start ELSE Step(k, w[k - 1])
    BY <2>1
  <2> QED BY <1>1, <2>2, <2>3
<1>10. \A i \in 1 .. n : w[i - 1] \in Counters => w[i] = F[i][w[i - 1]]
  BY <1>5, <1>9
<1>11. StepsTo(w, n, Counters, Ref!Start, F)
  BY <1>1, <1>3, <1>5, <1>9, <1>10, StepsUnique
<1>12. w \in [0 .. n -> Counters]
  BY <1>11 DEF StepsTo
<1> QED BY <1>2, <1>9, <1>12 DEF n, Step

\* What was laid out stays where it is, whatever follows.
LEMMA LayoutAppend ==
  ASSUME NEW p \in Seq(StmtRecord), NEW st \in StmtRecord
  PROVE  /\ \A k \in 0 .. Len(p) : Ref!Layout(Append(p, st))[k] = Ref!Layout(p)[k]
         /\ Ref!Layout(Append(p, st))[Len(p) + 1] = After(Ref!Layout(p)[Len(p)], st)
<1> DEFINE q == Append(p, st)
           n == Len(p)
           S == {k \in Nat : k <= n => Ref!Layout(q)[k] = Ref!Layout(p)[k]}
<1>1. /\ q \in Seq(StmtRecord) /\ n \in Nat /\ Len(q) = n + 1
      /\ \A k \in 1 .. n : q[k] = p[k]
      /\ q[n + 1] = st
  OBVIOUS
<1> HIDE DEF q, n
<1>2. /\ Ref!Layout(q)[0] = Ref!Start
      /\ \A k \in 1 .. n + 1 : Ref!Layout(q)[k] = After(Ref!Layout(q)[k - 1], q[k])
  BY <1>1, LayoutIs
<1>3. /\ Ref!Layout(p)[0] = Ref!Start
      /\ \A k \in 1 .. n : Ref!Layout(p)[k] = After(Ref!Layout(p)[k - 1], p[k])
  BY LayoutIs DEF n
<1>4. 0 \in S
  BY <1>2, <1>3
<1>5. ASSUME NEW k \in Nat, k \in S PROVE k + 1 \in S
  <2> SUFFICES ASSUME k + 1 <= n PROVE Ref!Layout(q)[k + 1] = Ref!Layout(p)[k + 1]
    OBVIOUS
  <2>1. k + 1 \in 1 .. n /\ k + 1 \in 1 .. n + 1 /\ (k + 1) - 1 = k /\ k <= n
    BY <1>1
  <2>2. Ref!Layout(q)[k + 1] = After(Ref!Layout(q)[k], q[k + 1])
    BY <1>2, <2>1
  <2>3. Ref!Layout(p)[k + 1] = After(Ref!Layout(p)[k], p[k + 1])
    BY <1>3, <2>1
  <2> QED BY <1>1, <1>5, <2>1, <2>2, <2>3
<1>6. Nat \subseteq S
  <2> HIDE DEF S
  <2> QED BY <1>4, <1>5, NatSetInduction
<1>7. \A k \in 0 .. n : Ref!Layout(q)[k] = Ref!Layout(p)[k]
  BY <1>1, <1>6
<1>8. Ref!Layout(q)[n + 1] = After(Ref!Layout(p)[n], st)
  <2>1. n + 1 \in 1 .. n + 1 /\ (n + 1) - 1 = n /\ n \in 0 .. n
    BY <1>1
  <2> QED BY <1>1, <1>2, <1>7, <2>1
<1> QED BY <1>7, <1>8 DEF q, n

(***************************************************************************)
(* A prefix of the source may end within a data directive or .globl: j of  *)
(* the last statement's arguments were read.                               *)
(***************************************************************************)
Labels(st, s) == st.op = "label" /\ st.sym = s
Sets(st, s)   == st.op = "set" /\ st.sym = s

Whole(st)       == Len(Ref!Args(st))
Full(p)         == Whole(p[Len(p)])
LastTo(p, k, j) == IF k = Len(p) THEN j ELSE Whole(p[k])

ArgsOK(u, st, j) ==
  /\ Ref!Args(st) # <<>>
  /\ Ref!IsDir(st, "globl") \/ Ref!HoldsBytes(u)
  /\ \A i \in 1 .. j : Ref!ArgOK(st, Ref!Args(st)[i])

StmtOKTo(p, k, j) ==
  IF p[k].op = "args" THEN ArgsOK(Ref!Layout(p)[k - 1], p[k], j) ELSE Ref!StmtOK(p, k)

DatumField(u, st, i) ==
  Ref!SymField(u, Ref!ArgOffset(st, i), st.stmt.width, FALSE, Ref!Args(st)[i].sym, 0, 0)

StmtFieldsTo(u, st, j) ==
  IF st.op = "insn" THEN Ref!InsnFields(u, st.insn)
  ELSE IF Ref!IsDir(st, "ints")
  THEN {DatumField(u, st, i) : i \in {i \in 1 .. j : Ref!Args(st)[i].kind = "sym"}}
  ELSE {}

GlobalIn(st, j, s) ==
  /\ Ref!IsDir(st, "globl")
  /\ \E i \in 1 .. j : Ref!Args(st)[i].kind = "sym" /\ Ref!Args(st)[i].sym = s

OKTo(p, j) == \A k \in 1 .. Len(p) : StmtOKTo(p, k, LastTo(p, k, j))
FieldsTo(p, j) ==
  UNION {StmtFieldsTo(Ref!Layout(p)[k - 1], p[k], LastTo(p, k, j)) : k \in 1 .. Len(p)}
GlobalsTo(p, j) ==
  {s \in Sym : \E k \in 1 .. Len(p) : GlobalIn(p[k], LastTo(p, k, j), s)}

\* Validity of a statement, kind by kind.
LEMMA StmtOKIs ==
  ASSUME NEW p \in Seq(StmtRecord), NEW k \in 1 .. Len(p)
  PROVE  /\ p[k].op = "label" => (Ref!StmtOK(p, k) <=>
              \A i \in 1 .. k - 1 : ~Labels(p[i], p[k].sym) /\ ~Sets(p[i], p[k].sym))
         /\ p[k].op = "set" => (Ref!StmtOK(p, k) <=>
              \A i \in 1 .. k - 1 : ~Labels(p[i], p[k].sym))
         /\ p[k].op = "section" => (Ref!StmtOK(p, k) <=> p[k].clean = TRUE)
         /\ p[k].op = "insn" => (Ref!StmtOK(p, k) <=>
              Ref!HoldsBytes(Ref!Layout(p)[k - 1]) /\ Encodable(p[k].insn))
         /\ p[k].op = "args" =>
              (Ref!StmtOK(p, k) <=> ArgsOK(Ref!Layout(p)[k - 1], p[k], Whole(p[k])))
         /\ p[k].op \in {"zero", "align"} => Ref!StmtOK(p, k)
         /\ p[k].op \in {"bad", "badinsn"} => ~Ref!StmtOK(p, k)
<1> DEFINE st == p[k]
           earlier == 1 .. k - 1
<1>1. st \in StmtRecord /\ DOMAIN p = 1 .. Len(p) /\ earlier \subseteq DOMAIN p
  BY ElementOfSeq
<1>2. st.op = "label" => (Ref!StmtOK(p, k) <=>
        (Ref!LabelsOf(p, st.sym) \cup Ref!SetsOf(p, st.sym)) \cap earlier = {})
  BY DEF Ref!StmtOK
<1>3. st.op = "set" => (Ref!StmtOK(p, k) <=> Ref!LabelsOf(p, st.sym) \cap earlier = {})
  BY DEF Ref!StmtOK
<1>4. st.op = "section" => (Ref!StmtOK(p, k) <=> st.clean)
  BY DEF Ref!StmtOK
<1>5. st.op = "insn" => (Ref!StmtOK(p, k) <=>
        Ref!HoldsBytes(Ref!Layout(p)[k - 1]) /\ Ref!Encodable(st.insn))
  BY DEF Ref!StmtOK
<1>6. st.op = "args" => (Ref!StmtOK(p, k) <=>
        /\ Ref!Args(st) # <<>>
        /\ Ref!IsDir(st, "globl") \/ Ref!HoldsBytes(Ref!Layout(p)[k - 1])
        /\ \A i \in DOMAIN Ref!Args(st) : Ref!ArgOK(st, Ref!Args(st)[i]))
  BY DEF Ref!StmtOK
<1>7. /\ st.op \in {"zero", "align"} => Ref!StmtOK(p, k)
      /\ st.op \in {"bad", "badinsn"} => ~Ref!StmtOK(p, k)
  BY DEF Ref!StmtOK
<1>8. st.op = "section" => st.clean \in BOOLEAN
  BY <1>1 DEF StmtRecord
<1>9. st.op = "args" => DOMAIN Ref!Args(st) = 1 .. Whole(st)
  <2>1. st.op = "args" => Ref!Args(st) \in Seq(Arg)
    BY <1>1, StmtShape
  <2> QED BY <2>1 DEF Whole
<1>10. /\ \A s : Ref!LabelsOf(p, s) \cap earlier = {}
                    <=> \A i \in earlier : ~Labels(p[i], s)
       /\ \A s : Ref!SetsOf(p, s) \cap earlier = {}
                    <=> \A i \in earlier : ~Sets(p[i], s)
  BY <1>1 DEF Ref!LabelsOf, Ref!SetsOf, Labels, Sets
<1>11. \A i : Ref!Encodable(i) <=> Encodable(i)
  BY DEF Ref!Encodable, Encodable
<1> QED BY <1>2, <1>3, <1>4, <1>5, <1>6, <1>7, <1>8, <1>9, <1>10, <1>11 DEF ArgsOK

\* Read to its end, the prefix means what the reference says.
LEMMA ReadToTheEnd ==
  ASSUME NEW p \in Seq(StmtRecord)
  PROVE  /\ OKTo(p, Full(p)) <=> \A k \in DOMAIN p : Ref!StmtOK(p, k)
         /\ FieldsTo(p, Full(p)) = Ref!Fields(p)
         /\ GlobalsTo(p, Full(p)) = Ref!Globals(p)
<1>1. DOMAIN p = 1 .. Len(p) /\ \A k \in 1 .. Len(p) : LastTo(p, k, Full(p)) = Whole(p[k])
  BY DEF LastTo, Full
<1>2. \A k \in 1 .. Len(p) : p[k] \in StmtRecord
  BY ElementOfSeq
<1>3. ASSUME NEW k \in 1 .. Len(p), p[k].op = "args"
      PROVE  DOMAIN Ref!Args(p[k]) = 1 .. Whole(p[k])
  <2>1. Ref!Args(p[k]) \in Seq(Arg)
    BY <1>2, <1>3, StmtShape
  <2> QED BY <2>1 DEF Whole
<1>4. \A k \in 1 .. Len(p) : StmtOKTo(p, k, Whole(p[k])) <=> Ref!StmtOK(p, k)
  BY StmtOKIs DEF StmtOKTo
<1>5. ASSUME NEW k \in 1 .. Len(p)
      PROVE  StmtFieldsTo(Ref!Layout(p)[k - 1], p[k], Whole(p[k]))
               = LET u == Ref!Layout(p)[k - 1]
                 IN CASE p[k].op = "insn"        -> Ref!InsnFields(u, p[k].insn)
                      [] Ref!IsDir(p[k], "ints") -> Ref!DatumFields(u, p[k])
                      [] OTHER -> {}
  <2>1. CASE p[k].op = "insn"
    <3>1. ~Ref!IsDir(p[k], "ints")
      BY <2>1 DEF Ref!IsDir
    <3> QED BY <2>1, <3>1 DEF StmtFieldsTo
  <2>2. CASE Ref!IsDir(p[k], "ints")
    <3>1. p[k].op = "args" /\ p[k].op # "insn"
      BY <2>2 DEF Ref!IsDir
    <3>2. StmtFieldsTo(Ref!Layout(p)[k - 1], p[k], Whole(p[k]))
            = Ref!DatumFields(Ref!Layout(p)[k - 1], p[k])
      BY <1>3, <2>2, <3>1 DEF StmtFieldsTo, Ref!DatumFields, DatumField
    <3> QED BY <2>2, <3>1, <3>2
  <2>3. CASE p[k].op # "insn" /\ ~Ref!IsDir(p[k], "ints")
    BY <2>3 DEF StmtFieldsTo
  <2> QED BY <2>1, <2>2, <2>3
<1>6. FieldsTo(p, Full(p)) = Ref!Fields(p)
  BY <1>1, <1>5 DEF FieldsTo, Ref!Fields
<1>7. ASSUME NEW k \in 1 .. Len(p), NEW s \in Sym
      PROVE  GlobalIn(p[k], Whole(p[k]), s)
               <=> /\ Ref!IsDir(p[k], "globl")
                   /\ \E j \in DOMAIN Ref!Args(p[k]) : Ref!Args(p[k])[j].kind = "sym"
                                                    /\ Ref!Args(p[k])[j].sym = s
  BY <1>3 DEF GlobalIn, Ref!IsDir
<1>8. GlobalsTo(p, Full(p)) = Ref!Globals(p)
  <2>1. GlobalsTo(p, Full(p)) = {s \in Sym : \E k \in DOMAIN p : GlobalIn(p[k], Whole(p[k]), s)}
    BY <1>1 DEF GlobalsTo
  <2> QED BY <1>1, <1>7, <2>1, Zenon DEF Ref!Globals
<1> QED BY <1>1, <1>4, <1>6, <1>8 DEF OKTo

\* What holds of a prefix does not depend on what follows it.
LEMMA PrefixOK ==
  ASSUME NEW p \in Seq(StmtRecord), NEW st \in StmtRecord, NEW k \in 1 .. Len(p), NEW j
  PROVE  StmtOKTo(Append(p, st), k, j) <=> StmtOKTo(p, k, j)
<1> DEFINE q == Append(p, st)
<1>1. /\ q \in Seq(StmtRecord) /\ Len(q) = Len(p) + 1
      /\ \A i \in 1 .. k : q[i] = p[i]
      /\ Ref!Layout(q)[k - 1] = Ref!Layout(p)[k - 1]
      /\ k \in 1 .. Len(q)
  BY LayoutAppend
<1>2. p[k] \in StmtRecord
  BY ElementOfSeq
<1> HIDE DEF q
<1>3. q[k] = p[k] /\ \A i \in 1 .. k - 1 : q[i] = p[i]
  BY <1>1
<1>4. CASE p[k].op = "args"
  <2>1. /\ StmtOKTo(q, k, j) <=> ArgsOK(Ref!Layout(p)[k - 1], p[k], j)
        /\ StmtOKTo(p, k, j) <=> ArgsOK(Ref!Layout(p)[k - 1], p[k], j)
    BY <1>1, <1>3, <1>4, Zenon DEF StmtOKTo
  <2> QED BY <2>1 DEF q
<1>5. CASE p[k].op # "args"
  <2>1. p[k].op \in {"label", "set", "section", "insn", "zero", "align", "bad", "badinsn"}
    BY <1>2, <1>5 DEF StmtRecord
  <2>2. CASE p[k].op = "label"
    <3>1. /\ Ref!StmtOK(q, k) <=> \A i \in 1 .. k - 1 : ~Labels(q[i], q[k].sym) /\ ~Sets(q[i], q[k].sym)
          /\ Ref!StmtOK(p, k) <=> \A i \in 1 .. k - 1 : ~Labels(p[i], p[k].sym) /\ ~Sets(p[i], p[k].sym)
      BY ZenonT(60), <1>1, <1>3, <2>2, StmtOKIs
    <3> QED BY <1>3, <1>5, <3>1 DEF StmtOKTo, q
  <2>3. CASE p[k].op = "set"
    <3>1. /\ Ref!StmtOK(q, k) <=> \A i \in 1 .. k - 1 : ~Labels(q[i], q[k].sym)
          /\ Ref!StmtOK(p, k) <=> \A i \in 1 .. k - 1 : ~Labels(p[i], p[k].sym)
      BY ZenonT(60), <1>1, <1>3, <2>3, StmtOKIs
    <3> QED BY <1>3, <1>5, <3>1 DEF StmtOKTo, q
  <2>4. CASE p[k].op \in {"section", "insn", "zero", "align", "bad", "badinsn"}
    <3>1. /\ p[k].op = "section" => (Ref!StmtOK(q, k) <=> q[k].clean = TRUE)
          /\ p[k].op = "insn" => (Ref!StmtOK(q, k) <=>
               Ref!HoldsBytes(Ref!Layout(q)[k - 1]) /\ Encodable(q[k].insn))
          /\ p[k].op \in {"zero", "align"} => Ref!StmtOK(q, k)
          /\ p[k].op \in {"bad", "badinsn"} => ~Ref!StmtOK(q, k)
      BY ZenonT(60), <1>1, <1>3, <2>4, StmtOKIs
    <3>2. /\ p[k].op = "section" => (Ref!StmtOK(p, k) <=> p[k].clean = TRUE)
          /\ p[k].op = "insn" => (Ref!StmtOK(p, k) <=>
               Ref!HoldsBytes(Ref!Layout(p)[k - 1]) /\ Encodable(p[k].insn))
          /\ p[k].op \in {"zero", "align"} => Ref!StmtOK(p, k)
          /\ p[k].op \in {"bad", "badinsn"} => ~Ref!StmtOK(p, k)
      BY <2>4, StmtOKIs
    <3>3. Ref!StmtOK(q, k) <=> Ref!StmtOK(p, k)
      BY <1>1, <1>3, <2>4, <3>1, <3>2
    <3> QED BY <1>3, <1>5, <3>3 DEF StmtOKTo, q
  <2> QED BY <2>1, <2>2, <2>3, <2>4
<1> QED BY <1>4, <1>5

\* A statement, read as far as its first j arguments, adds its own part.
LEMMA ReadStatement ==
  ASSUME NEW p \in Seq(StmtRecord), NEW st \in StmtRecord, NEW j
  PROVE  LET q == Append(p, st)
             n == Len(p)
         IN /\ OKTo(q, j) <=> OKTo(p, Full(p)) /\ StmtOKTo(q, n + 1, j)
            /\ FieldsTo(q, j) = FieldsTo(p, Full(p)) \cup StmtFieldsTo(Ref!Layout(p)[n], st, j)
            /\ \A s \in Sym : s \in GlobalsTo(q, j)
                                <=> s \in GlobalsTo(p, Full(p)) \/ GlobalIn(st, j, s)
<1> DEFINE q == Append(p, st)
           n == Len(p)
<1>1. /\ n \in Nat /\ Len(q) = n + 1 /\ q[n + 1] = st
      /\ \A k \in 1 .. n : q[k] = p[k]
      /\ \A k \in 1 .. n + 1 : Ref!Layout(q)[k - 1] = Ref!Layout(p)[k - 1]
      /\ \A k \in 1 .. n : LastTo(q, k, j) = Whole(p[k]) /\ LastTo(p, k, Full(p)) = Whole(p[k])
      /\ LastTo(q, n + 1, j) = j
      /\ (n + 1) - 1 = n
  <2>1. n \in Nat /\ Len(q) = n + 1 /\ q[n + 1] = st /\ \A k \in 1 .. n : q[k] = p[k]
    OBVIOUS
  <2>2. \A k \in 1 .. n + 1 : k - 1 \in 0 .. n
    BY <2>1
  <2> QED BY <2>1, <2>2, LayoutAppend DEF LastTo, Full
<1>2. \A k \in 1 .. n + 1 : k \in 1 .. n \/ k = n + 1
  BY <1>1
<1>3. \A k \in 1 .. n : \A i : StmtOKTo(q, k, i) <=> StmtOKTo(p, k, i)
  BY PrefixOK
<1> HIDE DEF q, n
<1>4. \A k \in 1 .. n : k \in 1 .. n + 1
  BY <1>1
<1>5. n + 1 \in 1 .. n + 1
  BY <1>1
<1>6. OKTo(q, j) <=> OKTo(p, Full(p)) /\ StmtOKTo(q, n + 1, j)
  <2>1. OKTo(q, j) <=> \A k \in 1 .. n + 1 : StmtOKTo(q, k, LastTo(q, k, j))
    BY <1>1 DEF OKTo
  <2>2. OKTo(p, Full(p)) <=> \A k \in 1 .. n : StmtOKTo(p, k, LastTo(p, k, Full(p)))
    BY DEF OKTo, n
  <2> QED BY <1>1, <1>2, <1>3, <1>4, <1>5, <2>1, <2>2
<1>7. FieldsTo(q, j) = FieldsTo(p, Full(p)) \cup StmtFieldsTo(Ref!Layout(p)[n], st, j)
  <2> DEFINE new(k) == StmtFieldsTo(Ref!Layout(q)[k - 1], q[k], LastTo(q, k, j))
             old(k) == StmtFieldsTo(Ref!Layout(p)[k - 1], p[k], LastTo(p, k, Full(p)))
  <2>1. FieldsTo(q, j) = UNION {new(k) : k \in 1 .. n + 1}
    BY <1>1 DEF FieldsTo
  <2>2. FieldsTo(p, Full(p)) = UNION {old(k) : k \in 1 .. n}
    BY DEF FieldsTo, n
  <2>3. \A k \in 1 .. n : new(k) = old(k)
    BY <1>1, <1>4
  <2>4. new(n + 1) = StmtFieldsTo(Ref!Layout(p)[n], st, j)
    BY <1>1, <1>5
  <2> HIDE DEF new, old
  <2> QED BY <1>2, <1>4, <1>5, <2>1, <2>2, <2>3, <2>4
<1>8. ASSUME NEW s \in Sym
      PROVE  s \in GlobalsTo(q, j) <=> s \in GlobalsTo(p, Full(p)) \/ GlobalIn(st, j, s)
  <2>1. s \in GlobalsTo(q, j) <=> \E k \in 1 .. n + 1 : GlobalIn(q[k], LastTo(q, k, j), s)
    BY <1>1 DEF GlobalsTo
  <2>2. s \in GlobalsTo(p, Full(p))
          <=> \E k \in 1 .. n : GlobalIn(p[k], LastTo(p, k, Full(p)), s)
    BY DEF GlobalsTo, n
  <2> QED BY <1>1, <1>2, <1>4, <1>5, <2>1, <2>2
<1> QED BY <1>6, <1>7, <1>8 DEF q, n

\* So does one more argument of the statement in hand.
LEMMA ReadArgument ==
  ASSUME NEW p \in Seq(StmtRecord), NEW n, n = Len(p), n # 0, p[n].op = "args",
         NEW j \in 0 .. Full(p) - 1
  PROVE  LET st == p[n]
             u  == Ref!Layout(p)[n - 1]
             a  == Ref!Args(st)[j + 1]
         IN /\ OKTo(p, j + 1) <=> OKTo(p, j) /\ Ref!ArgOK(st, a)
            /\ FieldsTo(p, j + 1) = FieldsTo(p, j) \cup
                 (IF Ref!IsDir(st, "ints") /\ a.kind = "sym" THEN {DatumField(u, st, j + 1)}
                                                             ELSE {})
            /\ \A s \in Sym : s \in GlobalsTo(p, j + 1)
                 <=> \/ s \in GlobalsTo(p, j)
                     \/ Ref!IsDir(st, "globl") /\ a.kind = "sym" /\ a.sym = s
<1> DEFINE st == p[n]
           u  == Ref!Layout(p)[n - 1]
           a  == Ref!Args(st)[j + 1]
<1>1. n \in Nat \ {0} /\ n \in 1 .. Len(p) /\ st \in StmtRecord
  <2>1. n \in Nat \ {0} /\ n \in 1 .. Len(p)
    BY LenProperties
  <2> QED BY <2>1, ElementOfSeq
<1>2. Full(p) = Whole(st) /\ Whole(st) \in Nat
  BY <1>1, StmtShape DEF Full, Whole
<1>3. /\ \A i \in 1 .. j + 1 : i \in 1 .. j \/ i = j + 1
      /\ \A i \in 1 .. j : i \in 1 .. j + 1
      /\ j + 1 \in 1 .. j + 1
  BY <1>2
<1>4. /\ \A k \in 1 .. Len(p) : \A i : k # n => LastTo(p, k, i) = Whole(p[k])
      /\ \A i : LastTo(p, n, i) = i
  BY DEF LastTo
<1>5. st.op = "args"
  OBVIOUS
<1> HIDE DEF st, a
<1>6. StmtOKTo(p, n, j + 1) <=> StmtOKTo(p, n, j) /\ Ref!ArgOK(st, a)
  BY <1>3, <1>5 DEF StmtOKTo, ArgsOK, st, a
<1>7. OKTo(p, j + 1) <=> OKTo(p, j) /\ Ref!ArgOK(st, a)
  BY <1>1, <1>4, <1>6 DEF OKTo
<1>8. StmtFieldsTo(u, st, j + 1) = StmtFieldsTo(u, st, j) \cup
        (IF Ref!IsDir(st, "ints") /\ a.kind = "sym" THEN {DatumField(u, st, j + 1)} ELSE {})
  BY <1>3, <1>5 DEF StmtFieldsTo, a
<1>9. FieldsTo(p, j + 1) = FieldsTo(p, j) \cup
        (IF Ref!IsDir(st, "ints") /\ a.kind = "sym" THEN {DatumField(u, st, j + 1)} ELSE {})
  <2> DEFINE part(k, i) == StmtFieldsTo(Ref!Layout(p)[k - 1], p[k], LastTo(p, k, i))
  <2>1. \A i : FieldsTo(p, i) = UNION {part(k, i) : k \in 1 .. Len(p)}
    BY DEF FieldsTo
  <2>2. \A k \in 1 .. Len(p) : k # n => part(k, j + 1) = part(k, j)
    BY <1>4
  <2>3. part(n, j + 1) = StmtFieldsTo(u, st, j + 1) /\ part(n, j) = StmtFieldsTo(u, st, j)
    BY <1>4 DEF st
  <2> HIDE DEF part
  <2> QED BY <1>1, <1>8, <2>1, <2>2, <2>3
<1>10. \A s : GlobalIn(st, j + 1, s)
         <=> \/ GlobalIn(st, j, s)
             \/ Ref!IsDir(st, "globl") /\ a.kind = "sym" /\ a.sym = s
  BY <1>3 DEF GlobalIn, a
<1>11. \A s \in Sym : s \in GlobalsTo(p, j + 1)
         <=> \/ s \in GlobalsTo(p, j)
             \/ Ref!IsDir(st, "globl") /\ a.kind = "sym" /\ a.sym = s
  BY <1>1, <1>4, <1>10 DEF GlobalsTo, st
<1> QED BY <1>7, <1>9, <1>11 DEF st, a

-----------------------------------------------------------------------------
(* Symbols and alignments of the reference. *)

\* What a symbol means, by the statements that name it.
LEMMA MeaningIs ==
  ASSUME NEW p \in Seq(StmtRecord), NEW s
  PROVE  /\ Ref!Meaning(p, s).ref = "SECTION" <=> \E k \in 1 .. Len(p) : Labels(p[k], s)
         /\ Ref!Meaning(p, s).ref = "UNDEF"
              <=> \A k \in 1 .. Len(p) : ~Labels(p[k], s) /\ ~Sets(p[k], s)
         /\ Ref!Meaning(p, s).ref \in {"SECTION", "ABS", "UNDEF"}
         /\ Ref!Meaning(p, s) = [ref |-> Ref!Meaning(p, s).ref,
                                 section |-> Ref!Meaning(p, s).section,
                                 value |-> Ref!Meaning(p, s).value]
<1>1. DOMAIN p = 1 .. Len(p)
  OBVIOUS
<1>2. Ref!LabelsOf(p, s) = {k \in 1 .. Len(p) : Labels(p[k], s)}
  BY <1>1 DEF Ref!LabelsOf, Labels
<1>3. Ref!SetsOf(p, s) = {k \in 1 .. Len(p) : Sets(p[k], s)}
  BY <1>1 DEF Ref!SetsOf, Sets
<1> QED BY <1>2, <1>3 DEF Ref!Meaning

\* A statement changes the meaning of the symbol it names and of no other,
\* and of that one only if it may.
LEMMA MeaningAppend ==
  ASSUME NEW p \in Seq(StmtRecord), NEW st \in StmtRecord, NEW s
  PROVE  LET q == Append(p, st)
             u == Ref!Layout(p)[Len(p)]
         IN /\ ~Labels(st, s) /\ ~Sets(st, s) => Ref!Meaning(q, s) = Ref!Meaning(p, s)
            /\ Labels(st, s) /\ (\A k \in 1 .. Len(p) : ~Labels(p[k], s))
                 => Ref!Meaning(q, s) = [ref |-> "SECTION", section |-> u.cur,
                                         value |-> u.size[u.cur]]
            /\ Sets(st, s) /\ (\A k \in 1 .. Len(p) : ~Labels(p[k], s))
                 => Ref!Meaning(q, s) = [ref |-> "ABS", section |-> ".text",
                                         value |-> st.value]
<1> DEFINE q == Append(p, st)
           n == Len(p)
           L(r) == Ref!LabelsOf(r, s)
           S(r) == Ref!SetsOf(r, s)
           first(A) == CHOOSE x \in A : \A y \in A : x <= y
           last(A)  == CHOOSE x \in A : \A y \in A : x >= y
<1>1. /\ n \in Nat /\ DOMAIN q = 1 .. n + 1 /\ DOMAIN p = 1 .. n /\ q[n + 1] = st
      /\ \A k \in 1 .. n : q[k] = p[k]
      /\ \A k \in 1 .. n + 1 : k \in 1 .. n \/ k = n + 1
      /\ \A k \in 1 .. n : k \in 1 .. n + 1
      /\ n + 1 \in 1 .. n + 1
  OBVIOUS
<1>2. /\ L(p) = {k \in 1 .. n : Labels(p[k], s)}
      /\ S(p) = {k \in 1 .. n : Sets(p[k], s)}
      /\ L(q) = {k \in 1 .. n + 1 : Labels(q[k], s)}
      /\ S(q) = {k \in 1 .. n + 1 : Sets(q[k], s)}
  BY <1>1 DEF Ref!LabelsOf, Ref!SetsOf, Labels, Sets
<1>3. \A k \in 0 .. n : Ref!Layout(q)[k] = Ref!Layout(p)[k]
  BY LayoutAppend
<1>4. /\ Ref!Meaning(p, s) =
           IF L(p) # {}
           THEN [ref |-> "SECTION", section |-> Ref!Layout(p)[first(L(p)) - 1].cur,
                 value |-> Ref!Layout(p)[first(L(p)) - 1].size[Ref!Layout(p)[first(L(p)) - 1].cur]]
           ELSE IF S(p) # {}
           THEN [ref |-> "ABS", section |-> ".text", value |-> p[last(S(p))].value]
           ELSE [ref |-> "UNDEF", section |-> ".text", value |-> 0]
      /\ Ref!Meaning(q, s) =
           IF L(q) # {}
           THEN [ref |-> "SECTION", section |-> Ref!Layout(q)[first(L(q)) - 1].cur,
                 value |-> Ref!Layout(q)[first(L(q)) - 1].size[Ref!Layout(q)[first(L(q)) - 1].cur]]
           ELSE IF S(q) # {}
           THEN [ref |-> "ABS", section |-> ".text", value |-> q[last(S(q))].value]
           ELSE [ref |-> "UNDEF", section |-> ".text", value |-> 0]
  BY DEF Ref!Meaning, Ref!Min, Ref!Max
<1> HIDE DEF q, n, L, S
<1>5. L(p) # {} => first(L(p)) \in 1 .. n
  <2> SUFFICES ASSUME L(p) # {} PROVE first(L(p)) \in 1 .. n
    OBVIOUS
  <2>1. L(p) \in SUBSET Nat
    BY <1>1, <1>2
  <2>2. \E x \in L(p) : \A y \in L(p) : x <= y
    BY <2>1, LeastNat
  <2>3. first(L(p)) \in L(p)
    BY <2>2
  <2> QED BY <1>2, <2>3
<1>6. S(p) # {} => last(S(p)) \in 1 .. n
  <2> SUFFICES ASSUME S(p) # {} PROVE last(S(p)) \in 1 .. n
    OBVIOUS
  <2>1. S(p) \in SUBSET (0 .. n)
    BY <1>1, <1>2
  <2>2. \E x \in S(p) : \A y \in S(p) : x >= y
    BY <1>1, <2>1, GreatestNat
  <2>3. last(S(p)) \in S(p)
    BY <2>2
  <2> QED BY <1>2, <2>3
<1>7. ASSUME ~Labels(st, s), ~Sets(st, s) PROVE Ref!Meaning(q, s) = Ref!Meaning(p, s)
  <2>1. L(q) = L(p) /\ S(q) = S(p)
    BY <1>1, <1>2, <1>7
  <2> HIDE DEF first, last
  <2>2. L(p) # {} => Ref!Layout(q)[first(L(p)) - 1] = Ref!Layout(p)[first(L(p)) - 1]
    BY <1>1, <1>3, <1>5
  <2>3. S(p) # {} => q[last(S(p))] = p[last(S(p))]
    BY <1>1, <1>6
  <2> QED BY <1>4, <2>1, <2>2, <2>3
<1>8. ASSUME \A k \in 1 .. n : ~Labels(p[k], s)
      PROVE  /\ Labels(st, s) => Ref!Meaning(q, s) =
                  [ref |-> "SECTION", section |-> Ref!Layout(p)[n].cur,
                   value |-> Ref!Layout(p)[n].size[Ref!Layout(p)[n].cur]]
             /\ Sets(st, s) => Ref!Meaning(q, s) =
                  [ref |-> "ABS", section |-> ".text", value |-> st.value]
  <2>1. Labels(st, s) => L(q) = {n + 1}
    BY <1>1, <1>2, <1>8
  <2>2. first({n + 1}) = n + 1 /\ (n + 1) - 1 = n /\ n \in 0 .. n
    BY <1>1
  <2>3. Sets(st, s) => L(q) = {} /\ n + 1 \in S(q) /\ S(q) \subseteq 1 .. n + 1
    <3>1. Sets(st, s) => ~Labels(st, s)
      BY DEF Sets, Labels
    <3> QED BY <1>1, <1>2, <1>8, <3>1
  <2>4. Sets(st, s) => last(S(q)) = n + 1
    <3> SUFFICES ASSUME Sets(st, s) PROVE last(S(q)) = n + 1
      OBVIOUS
    <3>1. \A y \in S(q) : n + 1 >= y
      BY <1>1, <2>3
    <3>2. \E x \in S(q) : \A y \in S(q) : x >= y
      BY <2>3, <3>1
    <3>3. last(S(q)) \in S(q) /\ \A y \in S(q) : last(S(q)) >= y
      BY <3>2
    <3> HIDE DEF last
    <3>4. last(S(q)) \in 1 .. n + 1 /\ last(S(q)) >= n + 1
      BY <2>3, <3>3
    <3> QED BY <1>1, <3>4
  <2> HIDE DEF first, last
  <2>5. Ref!Layout(q)[n] = Ref!Layout(p)[n]
    BY <1>3, <2>2
  <2> QED BY <1>1, <1>4, <2>1, <2>2, <2>3, <2>4, <2>5
<1> QED BY <1>7, <1>8 DEF q, n

\* A statement adds an alignment request to the section it stands in.
LEMMA AlignsAppend ==
  ASSUME NEW p \in Seq(StmtRecord), NEW st \in StmtRecord, NEW m, NEW x
  PROVE  x \in Ref!AlignsIn(Append(p, st), m)
           <=> \/ x \in Ref!AlignsIn(p, m)
               \/ st.op = "align" /\ x = st.to /\ m = Ref!Layout(p)[Len(p)].cur
<1> DEFINE q == Append(p, st)
           n == Len(p)
<1>1. /\ n \in Nat /\ DOMAIN q = 1 .. n + 1 /\ DOMAIN p = 1 .. n /\ q[n + 1] = st
      /\ \A k \in 1 .. n : q[k] = p[k]
      /\ \A k \in 1 .. n + 1 : k \in 1 .. n \/ k = n + 1
      /\ \A k \in 1 .. n : k \in 1 .. n + 1 /\ k \in 0 .. n
      /\ n + 1 \in 1 .. n + 1
  OBVIOUS
<1>2. \A k \in 0 .. n : Ref!Layout(q)[k] = Ref!Layout(p)[k]
  BY LayoutAppend
<1>3. st.op = "align" => Ref!Layout(q)[n + 1].cur = Ref!Layout(p)[n].cur
  <2>1. Ref!Layout(q)[n + 1] = After(Ref!Layout(p)[n], st)
    BY LayoutAppend
  <2>2. Ref!Layout(p)[n] \in Counters
    BY <1>1, LayoutIs
  <2> QED BY <2>1, <2>2 DEF After, Counters
<1> HIDE DEF q, n
<1>4. /\ x \in Ref!AlignsIn(q, m)
           <=> \E k \in 1 .. n + 1 : q[k].op = "align" /\ Ref!Layout(q)[k].cur = m /\ x = q[k].to
      /\ x \in Ref!AlignsIn(p, m)
           <=> \E k \in 1 .. n : p[k].op = "align" /\ Ref!Layout(p)[k].cur = m /\ x = p[k].to
  BY <1>1 DEF Ref!AlignsIn
<1> QED BY <1>1, <1>2, <1>3, <1>4 DEF q, n

-----------------------------------------------------------------------------
(* 4. The agreement. *)

\* Arguments of the last statement that were processed.
Read == IF work = NoWork THEN Full(prog) ELSE Full(prog) - Len(work.args)
End  == Ref!Layout(prog)[Len(prog)]

\* The size of a NOBITS section is counted modulo 2^64: it is exact while
\* the sections fit, that of the others always.
Fits     == \A n \in SecName : End.size[n] < U64
Exact(n) == Fits \/ sec[n].kind # "NOBITS"

InRangeSoFar == \A k \in 1 .. next - 1 :
                   ResolvesLocally(fixes[k]) => InRange(Distance(fixes[k]))

ReadOK == OKTo(prog, Read)
Good   == ReadOK /\ InRangeSoFar

\* Bytes of section n when j arguments of the last statement were read.
SizeTo(p, j, n) ==
  LET k == Len(p)
  IN IF p # <<>> /\ p[k].op = "args" /\ n = Ref!Layout(p)[k].cur
     THEN Ref!Layout(p)[k - 1].size[n] + Ref!ArgOffset(p[k], j + 1)
     ELSE Ref!Layout(p)[k].size[n]

SectionsAgree ==
  /\ cur = End.cur
  /\ \A n \in SecName : /\ sec[n].kind = End.kind[n]
                        /\ Exact(n) => sec[n].size = SizeTo(prog, Read, n)

AlignsAgree ==
  \A n \in SecName : /\ sec[n].align \in {1} \cup Aligns
                     /\ \A m \in Ref!AlignsIn(prog, n) : m <= sec[n].align

RefOf(r)   == IF r.where \in {"SECTION", "ABS"} THEN r.where ELSE "UNDEF"
ValueOf(r) == IF r.where \in {"SECTION", "ABS"} THEN r.value ELSE 0

SymbolsAgree ==
  \A s \in Sym : LET m == Ref!Meaning(prog, s)
                 IN /\ m.ref = RefOf(sym[s])
                    /\ m.section = sym[s].section
                    /\ (m.ref = "SECTION" => Exact(m.section)) => m.value = ValueOf(sym[s])

GlobalsAgree == \A s \in Sym : sym[s].global = TRUE <=> s \in GlobalsTo(prog, Read)

\* Field f of the source is the one fixup fx fills.
Describes(fx, f) ==
  /\ f.sec = fx.sec /\ f.offset = fx.offset /\ f.sym = fx.sym
  /\ f.width = FieldWidth(fx.kind)
  /\ f.pc <=> fx.kind = "PC32"
  /\ f.add \in Int /\ f.after \in Int
  /\ fx.addend = IF fx.kind = "PC32" THEN f.add - (f.after - f.offset) ELSE f.add

Matches(s, F) ==
  \E fl \in [1 .. Len(s) -> F] : /\ \A f \in F : \E k \in 1 .. Len(s) : fl[k] = f
                                 /\ \A k \in 1 .. Len(s) : Describes(s[k], fl[k])

FieldsAgree == Matches(fixes, FieldsTo(prog, Read))

Agree == SectionsAgree /\ AlignsAgree /\ SymbolsAgree /\ GlobalsAgree /\ FieldsAgree

\* The loop has the rest of the last statement's arguments in hand.
LoopInv ==
  work # NoWork =>
    /\ phase = "layout" /\ prog # <<>>
    /\ LET st == prog[Len(prog)]
       IN /\ st.op = "args" /\ st.stmt.dir = work.dir /\ st.stmt.width = work.width
          /\ Len(work.args) <= Whole(st)
          /\ \A i \in 1 .. Len(work.args) :
               work.args[i] = Ref!Args(st)[Whole(st) - Len(work.args) + i]

UnseenInv == \A n \in SecName : ~SecSeen(n) => sec[n] = NewSection("none")

Base == PlacedInv /\ RunningInv /\ LoopInv /\ UnseenInv /\ (phase = "layout" => next = 1)

\* Before the first statement all is empty, here and there.
LEMMA InitBase == Init => Base
<1> SUFFICES ASSUME Init PROVE Base
  OBVIOUS
<1>1. PlacedInv
  BY InitPlaced
<1>2. RunningInv
  BY DEF Init, RunningInv, NoObjectAfterFailure
<1>3. UnseenInv
  BY DEF Init, UnitInit, UnseenInv, SecSeen, NewSection
<1> QED BY <1>1, <1>2, <1>3 DEF Init, Base, LoopInv

\* A section that was never named stays as it was.
LEMMA UnseenStays ==
  ASSUME PlacedInv, UnseenInv, SectionEffect
  PROVE  UnseenInv'
<1>1. Typed /\ SecSeen(cur) /\ sec \in [SecName -> Section] /\ cur \in SecName
  BY DEF PlacedInv, Typed, StateTypeOK, UnitTypeOK
<1> SUFFICES ASSUME NEW m \in SecName, sec'[m].kind = "none"
             PROVE  sec'[m] = NewSection("none")
  BY DEF UnseenInv, SecSeen, NewSection
<1>2. CASE UNCHANGED <<sec, cur, fixes>>
  BY <1>2 DEF UnseenInv, SecSeen
<1>3. CASE \E n \in SecName, k \in SecKind : SelectSection(n, k)
  <2>1. PICK n \in SecName, k \in SecKind : SelectSection(n, k)
    BY <1>3
  <2>2. CASE sec' = sec
    BY <2>2 DEF UnseenInv, SecSeen
  <2>3. CASE sec' = [sec EXCEPT ![n] = NewSection(k)]
    <3>1. m # n
      BY <1>1, <2>3 DEF NewSection, SecKind
    <3> QED BY <1>1, <2>3, <3>1 DEF UnseenInv, SecSeen
  <2> QED BY <2>1, <2>2, <2>3 DEF SelectSection
<1>4. CASE \E n \in Nat, f \in Seq(Fix) : Grew(n, f)
  BY <1>1, <1>4 DEF Grew, UnseenInv, SecSeen
<1> QED BY <1>2, <1>3, <1>4 DEF SectionEffect

\* The history is extended by statements and by nothing else.
LEMMA LoopStays ==
  ASSUME Typed, RunningInv, LoopInv, [Next]_vars, Typed'
  PROVE  LoopInv'
<1>1. CASE work' = NoWork
  BY <1>1 DEF LoopInv
<1>2. CASE Statement /\ work' # NoWork
  <2>1. PICK d \in ArgStmts : ArgDirective(d)
    BY <1>2 DEF Statement, Label, Shortcut, NamedSection, Set, Instruction, Zero, Align,
                BadStatement, BadInstruction, Emit, Abort, Take
  <2>2. /\ prog' = Append(prog, [op |-> "args", stmt |-> d]) /\ work' = d
        /\ phase' = "layout" /\ prog \in Seq(StmtRecord) /\ d \in ArgStmt
    BY <1>2, <2>1, StmtAssumption DEF ArgDirective, Take, Continue, Typed
  <2>3. prog' # <<>> /\ prog'[Len(prog')] = [op |-> "args", stmt |-> d]
    BY <2>2, AppendProperties
  <2>4. Len(d.args) \in Nat
    BY <2>2 DEF ArgStmt
  <2>5. Whole([op |-> "args", stmt |-> d]) = Len(d.args)
        /\ Ref!Args([op |-> "args", stmt |-> d]) = d.args
    BY DEF Whole, Ref!Args
  <2>6. \A i \in 1 .. Len(d.args) : Len(d.args) - Len(d.args) + i = i
    BY <2>4
  <2> QED BY <2>2, <2>3, <2>4, <2>5, <2>6 DEF LoopInv
<1>3. CASE (IntsArg \/ StringsArg \/ GloblArg) /\ work' # NoWork
  <2> DEFINE st == prog[Len(prog)]
             w  == Whole(st)
  <2>1. work # NoWork /\ Advance /\ phase' = phase /\ prog' = prog
    BY <1>3 DEF IntsArg, StringsArg, GloblArg, EmitArg, RejectArg, Abort, Continue, NoWork
  <2>2. work \in ArgStmt /\ work.args \in Seq(Arg) /\ Len(work.args) \in Nat \ {0}
    BY <2>1, EmptySeq DEF Typed, StateTypeOK, LoopHasArg, ArgStmt
  <2>3. work' = [work EXCEPT !.args = Tail(work.args)]
    BY <1>3, <2>1 DEF Advance
  <2>4. /\ work'.dir = work.dir /\ work'.width = work.width /\ work'.args = Tail(work.args)
    BY <2>2, <2>3 DEF ArgStmt
  <2>5. /\ Len(work'.args) = Len(work.args) - 1
        /\ \A i \in 1 .. Len(work.args) - 1 : work'.args[i] = work.args[i + 1]
    BY <2>2, <2>4, HeadTailProperties
  <2>6. /\ phase = "layout" /\ prog # <<>> /\ st.op = "args" /\ st.stmt.dir = work.dir
        /\ st.stmt.width = work.width /\ Len(work.args) <= w
        /\ \A i \in 1 .. Len(work.args) : work.args[i] = Ref!Args(st)[w - Len(work.args) + i]
    BY <2>1 DEF LoopInv
  <2>7. w \in Nat
    <3>1. st \in StmtRecord
      BY <2>6, EmptySeq, ElementOfSeq, LenProperties DEF Typed
    <3> QED BY <2>6, <3>1, StmtShape DEF Whole
  <2> HIDE DEF w
  <2>8. ASSUME NEW i \in 1 .. Len(work'.args)
        PROVE  work'.args[i] = Ref!Args(st)[w - Len(work'.args) + i]
    <3>1. i \in 1 .. Len(work.args) - 1 /\ i + 1 \in 1 .. Len(work.args)
      BY <2>2, <2>5
    <3>2. w - Len(work.args) + (i + 1) = w - Len(work'.args) + i
      BY <2>2, <2>5, <2>7
    <3>3. work.args[i + 1] = Ref!Args(st)[w - Len(work.args) + (i + 1)]
      BY <2>6, <3>1
    <3> QED BY <2>5, <3>1, <3>2, <3>3
  <2>9. Len(work'.args) <= w
    BY <2>2, <2>5, <2>6, <2>7
  <2> QED BY <2>1, <2>4, <2>6, <2>8, <2>9 DEF LoopInv, w
<1>4. CASE ~Statement /\ ~(IntsArg \/ StringsArg \/ GloblArg) /\ work' # NoWork
  <2>1. UNCHANGED <<work, phase, prog>>
    BY <1>4 DEF Next, Progress, EndOfSource, PatchLocal, OutOfRange, Relocate, EndResolve,
                BuildObject, AllocFails, Returned, Abort, vars, unitVars, LoopInv,
                Resolving
  <2> QED BY <2>1 DEF LoopInv
<1> QED BY <1>1, <1>2, <1>3, <1>4

\* Every step keeps the frame in which driver and reference are compared.
LEMMA NextBase == Base /\ [Next]_vars => Base'
<1> SUFFICES ASSUME Base, [Next]_vars PROVE Base'
  OBVIOUS
<1>1. PlacedInv /\ RunningInv /\ LoopInv /\ UnseenInv /\ Typed /\ LoopInBytes /\ errs \in Nat
  BY DEF Base, PlacedInv, Typed, StateTypeOK
<1>2. PlacedInv' /\ Typed'
  BY <1>1, NextPlaced DEF PlacedInv
<1>3. RunningInv'
  BY <1>1, StatementRunning, ArgRunning, PassThreeRunning DEF Next, Progress, Returned
<1>4. LoopInv'
  BY <1>1, <1>2, LoopStays
<1>5. UnseenInv'
  BY <1>1, StepEffects, UnseenStays
<1>6. phase' = "layout" => next' = 1
  <2>1. CASE Statement
    BY <2>1 DEF Base, Statement, Label, Shortcut, NamedSection, Set, Instruction, Zero,
        Align, ArgDirective, BadStatement, BadInstruction, Emit, Abort, Take, Continue,
        resolveVars
  <2>2. CASE IntsArg \/ StringsArg \/ GloblArg
    BY <2>2 DEF Base, IntsArg, StringsArg, GloblArg, EmitArg, RejectArg, Abort, Continue,
        resolveVars
  <2>3. CASE ~Statement /\ ~(IntsArg \/ StringsArg \/ GloblArg)
    BY <2>3 DEF Base, Next, Progress, EndOfSource, PatchLocal, OutOfRange, Relocate,
        EndResolve, BuildObject, AllocFails, Returned, Abort, vars, resolveVars, Resolving
  <2> QED BY <2>1, <2>2, <2>3
<1> QED BY <1>2, <1>3, <1>4, <1>5, <1>6 DEF Base

-----------------------------------------------------------------------------
(* The steps of the driver keep the agreement. *)

\* What a step does to validity, error count and agreement.
Steps ==
  /\ ReadOK' => ReadOK
  /\ Good' => Good
  /\ errs' = 0 => errs = 0
  /\ ReadOK' /\ Agree => Agree'
  /\ Good /\ Agree => \/ Good' /\ errs' = errs
                      \/ ~Good' /\ (errs' # 0 \/ AllocMayFail)

\* The state a statement is read in, and what reading it leads to.
LEMMA Taken ==
  ASSUME Base, NEW st \in StmtRecord, Take(st)
  PROVE  /\ phase = "layout" /\ work = NoWork /\ next = 1 /\ Typed
         /\ prog \in Seq(StmtRecord) /\ prog' \in Seq(StmtRecord)
         /\ prog' = Append(prog, st)
         /\ Len(prog') = Len(prog) + 1 /\ Len(prog) \in Nat
         /\ prog' # <<>> /\ prog'[Len(prog')] = st /\ prog'[Len(prog) + 1] = st
         /\ Read = Full(prog) /\ Full(prog') = Whole(st)
         /\ End \in Counters /\ End' = After(End, st)
         /\ Ref!Layout(prog')[Len(prog')] = End'
         /\ Ref!Layout(prog')[Len(prog') - 1] = End
<1>1. /\ phase = "layout" /\ work = NoWork /\ prog' = Append(prog, st) /\ Typed
      /\ prog \in Seq(StmtRecord) /\ next = 1
  BY DEF Base, PlacedInv, Typed, Take
<1>2. /\ prog' \in Seq(StmtRecord) /\ Len(prog') = Len(prog) + 1 /\ Len(prog) \in Nat
      /\ prog' # <<>> /\ prog'[Len(prog')] = st
  BY <1>1, AppendProperties, LenProperties
<1>3. /\ Ref!Layout(prog')[Len(prog) + 1] = After(Ref!Layout(prog)[Len(prog)], st)
      /\ Ref!Layout(prog')[Len(prog)] = Ref!Layout(prog)[Len(prog)]
  BY <1>1, <1>2, LayoutAppend
<1>4. Ref!Layout(prog)[Len(prog)] \in Counters
  BY <1>1, <1>2, LayoutIs
<1>5. Len(prog') - 1 = Len(prog)
  BY <1>2
<1> QED BY <1>1, <1>2, <1>3, <1>4, <1>5 DEF Read, Full, End

\* It is enough to look at the part of the new statement.
Keeps ==
  Agree =>
    \/ StmtOKTo(prog', Len(prog'), Read') /\ Agree' /\ errs' = errs
    \/ ~StmtOKTo(prog', Len(prog'), Read') /\ (errs' = errs + 1 \/ AllocMayFail)

\* To keep the agreement over a statement it is enough to keep each part.
LEMMA StatementSteps ==
  ASSUME Base, NEW st \in StmtRecord, Take(st), Continue, errs' \in {errs, errs + 1}, Keeps
  PROVE  Steps
<1>1. /\ phase = "layout" /\ next = 1 /\ prog \in Seq(StmtRecord) /\ prog' = Append(prog, st)
      /\ Len(prog') = Len(prog) + 1 /\ Read = Full(prog) /\ End \in Counters
      /\ End' = After(End, st) /\ Typed
  BY Taken
<1>2. next' = 1 /\ errs \in Nat
  BY <1>1 DEF Continue, resolveVars, Typed, StateTypeOK
<1>3. InRangeSoFar /\ InRangeSoFar'
  BY <1>1, <1>2 DEF InRangeSoFar
<1>4. (ReadOK <=> OKTo(prog, Full(prog))) /\ (Good <=> ReadOK)
  BY <1>1, <1>3 DEF Good, ReadOK
<1>5. /\ ReadOK' <=> ReadOK /\ StmtOKTo(prog', Len(prog'), Read')
      /\ Good' <=> ReadOK'
  <2>1. \A j : OKTo(prog', j) <=> OKTo(prog, Full(prog)) /\ StmtOKTo(prog', Len(prog'), j)
    BY <1>1, ReadStatement
  <2> QED BY <1>3, <1>4, <2>1 DEF Good, ReadOK
<1>6. errs' = 0 => errs = 0
  BY <1>2
<1>7. errs' = errs + 1 => errs' # 0
  BY <1>2
<1> QED BY <1>4, <1>5, <1>6, <1>7 DEF Steps, Keeps

-----------------------------------------------------------------------------
(* The parts of the agreement, one by one. *)

\* What was exact before: sizes only grow, and no section leaves NOBITS.
LEMMA ExactTaken ==
  ASSUME Base, NEW st \in StmtRecord, Take(st),
         \A n \in SecName : sec[n].kind = "NOBITS" => sec'[n].kind = "NOBITS"
  PROVE  (Fits' => Fits) /\ \A n \in SecName : Exact(n)' => Exact(n)
<1>1. End \in Counters /\ End' = After(End, st)
  BY Taken
<1>2. End' \in Counters /\ \A n \in SecName : End'.size[n] >= End.size[n]
  BY <1>1, AfterType
<1>3. \A n \in SecName : End'.size[n] \in Nat /\ End.size[n] \in Nat
  BY <1>1, <1>2 DEF Counters
<1>4. Fits' => Fits
  BY <1>2, <1>3, WordsAreNat DEF Fits
<1> QED BY <1>4 DEF Exact

\* A statement without labels leaves the meaning of every symbol alone.
LEMMA SymbolsSame ==
  ASSUME Base, NEW st \in StmtRecord, Take(st), SymbolsAgree, st.op \notin {"label", "set"},
         \A n \in SecName : sec[n].kind = "NOBITS" => sec'[n].kind = "NOBITS",
         \A s \in Sym : /\ sym'[s].section = sym[s].section
                        /\ RefOf(sym'[s]) = RefOf(sym[s])
                        /\ ValueOf(sym'[s]) = ValueOf(sym[s])
  PROVE  SymbolsAgree'
<1>1. prog \in Seq(StmtRecord) /\ prog' = Append(prog, st) /\ sym \in [Sym -> Symbol]
  BY Taken DEF Typed, StateTypeOK, UnitTypeOK
<1>2. \A s : ~Labels(st, s) /\ ~Sets(st, s)
  BY DEF Labels, Sets
<1>3. \A s : Ref!Meaning(prog', s) = Ref!Meaning(prog, s)
  BY <1>1, <1>2, MeaningAppend
<1>4. \A s \in Sym : Exact(sym[s].section)' => Exact(sym[s].section)
  <2>1. \A s \in Sym : sym[s].section \in SecName
    BY <1>1 DEF Symbol
  <2>2. (Fits' => Fits) /\ \A n \in SecName : Exact(n)' => Exact(n)
    BY ExactTaken
  <2> QED BY <2>1, <2>2 DEF Exact
<1> QED BY <1>3, <1>4 DEF SymbolsAgree, Exact

\* A statement other than .globl makes no symbol global.
LEMMA GlobalsSame ==
  ASSUME Base, NEW st \in StmtRecord, Take(st), GlobalsAgree,
         \A s \in Sym : ~GlobalIn(st, Read', s) /\ sym'[s].global = sym[s].global
  PROVE  GlobalsAgree'
<1>1. prog \in Seq(StmtRecord) /\ prog' = Append(prog, st) /\ Read = Full(prog)
  BY Taken
<1>2. \A j, s : s \in Sym => (s \in GlobalsTo(prog', j)
                               <=> s \in GlobalsTo(prog, Full(prog)) \/ GlobalIn(st, j, s))
  BY <1>1, ReadStatement
<1> QED BY <1>1, <1>2 DEF GlobalsAgree

\* The size of a section is exact once the last statement was read whole.
LEMMA SizeWhole ==
  ASSUME NEW p \in Seq(StmtRecord), NEW n \in SecName
  PROVE  SizeTo(p, Full(p), n) = Ref!Layout(p)[Len(p)].size[n]
<1> DEFINE k == Len(p)
           st == p[k]
           u == Ref!Layout(p)[k - 1]
           v == Ref!Layout(p)[k]
<1>1. CASE p # <<>> /\ st.op = "args" /\ n = v.cur
  <2>1. k \in 1 .. Len(p) /\ k - 1 \in 0 .. Len(p) /\ st \in StmtRecord
    BY <1>1, EmptySeq, LenProperties, ElementOfSeq
  <2>2. v = After(u, st) /\ u \in Counters
    BY <2>1, LayoutIs
  <2> HIDE DEF k, st, u, v
  <2>3. v.cur = u.cur /\ v.size = [u.size EXCEPT ![u.cur] = Ref!SizeAfter(st, u.size[u.cur])]
    BY <1>1, <2>2 DEF After, Counters
  <2>4. v.size[n] = Ref!SizeAfter(st, u.size[n])
    BY <1>1, <2>2, <2>3 DEF Counters
  <2>5. Ref!SizeAfter(st, u.size[n]) = u.size[n] + Ref!ArgOffset(st, Whole(st) + 1)
    BY <1>1 DEF Ref!SizeAfter, Whole
  <2>6. SizeTo(p, Full(p), n) = u.size[n] + Ref!ArgOffset(st, Whole(st) + 1)
    BY <1>1 DEF SizeTo, Full, k, st, u, v
  <2> QED BY <2>4, <2>5, <2>6 DEF v, k
<1>2. CASE ~(p # <<>> /\ st.op = "args" /\ n = v.cur)
  BY <1>2 DEF SizeTo
<1> QED BY <1>1, <1>2

\* Before the first argument of a directive nothing was added.
LEMMA SizeStart ==
  ASSUME NEW p \in Seq(StmtRecord), NEW st \in StmtRecord, st.op = "args", NEW n \in SecName
  PROVE  SizeTo(Append(p, st), 0, n) = Ref!Layout(p)[Len(p)].size[n]
<1> DEFINE q == Append(p, st)
           k == Len(p)
           u == Ref!Layout(p)[k]
           v == Ref!Layout(q)[k + 1]
<1>1. k \in Nat /\ q # <<>> /\ Len(q) = k + 1 /\ q[k + 1] = st /\ (k + 1) - 1 = k
  BY LenProperties, AppendProperties
<1>2. Ref!Layout(q)[k] = u /\ v = After(u, st) /\ u \in Counters
  BY <1>1, LayoutAppend, LayoutIs
<1>3. v.cur = u.cur /\ (n # u.cur => v.size[n] = u.size[n]) /\ u.size[n] \in Nat
  BY <1>2 DEF After, Counters
<1>4. Ref!ArgOffset(st, 0 + 1) = 0
  BY ArgOffsetIs
<1> HIDE DEF q, k, u
<1>5. SizeTo(q, 0, n) = IF n = v.cur THEN u.size[n] + Ref!ArgOffset(st, 0 + 1) ELSE v.size[n]
  BY <1>1, <1>2 DEF SizeTo
<1> QED BY <1>3, <1>4, <1>5 DEF q, k, u

\* An argument adds its bytes to the current section.
LEMMA SizeNext ==
  ASSUME NEW p \in Seq(StmtRecord), p # <<>>, p[Len(p)].op = "args",
         NEW j \in 0 .. Full(p) - 1, NEW n \in SecName
  PROVE  /\ SizeTo(p, j, n) \in Nat
         /\ SizeTo(p, j + 1, n) = IF n = Ref!Layout(p)[Len(p)].cur
                                  THEN SizeTo(p, j, n) + Ref!ArgBytes(p[Len(p)], j + 1)
                                  ELSE SizeTo(p, j, n)
<1> DEFINE k == Len(p)
           st == p[k]
           u == Ref!Layout(p)[k - 1]
           v == Ref!Layout(p)[k]
<1>1. k \in 1 .. Len(p) /\ k - 1 \in 0 .. Len(p) /\ k \in 0 .. Len(p) /\ st \in StmtRecord
  BY EmptySeq, LenProperties, ElementOfSeq
<1>2. u \in Counters /\ v \in Counters
  BY <1>1, LayoutIs
<1>3. Whole(st) \in Nat /\ Whole(st) = Len(Ref!Args(st)) /\ Full(p) = Whole(st)
  BY <1>1, StmtShape DEF Full, Whole
<1>4. j + 1 \in 1 .. Whole(st) /\ j + 1 \in 1 .. Whole(st) + 1 /\ (j + 1) + 1 = (j + 2)
  BY <1>3
<1>5. /\ Ref!ArgOffset(st, j + 1) \in Nat
      /\ Ref!ArgOffset(st, (j + 1) + 1) = Ref!ArgOffset(st, j + 1) + Ref!ArgBytes(st, j + 1)
      /\ Ref!ArgBytes(st, j + 1) \in Nat
  BY <1>1, <1>3, <1>4, ArgOffsetIs, ArgBytesType
<1>6. u.size[n] \in Nat /\ v.size[n] \in Nat
  BY <1>2 DEF Counters
<1>7. \A i : SizeTo(p, i, n) = IF n = v.cur THEN u.size[n] + Ref!ArgOffset(st, i + 1)
                               ELSE v.size[n]
  BY DEF SizeTo
<1> HIDE DEF u, v, st, k
<1> QED BY SMTT(60), <1>5, <1>6, <1>7 DEF v, st, k

\* What the driver's sections must be after a statement that was read whole.
LEMMA SectionsTaken ==
  ASSUME Base, NEW st \in StmtRecord, Take(st)
  PROVE  /\ SectionsAgree => \A n \in SecName : /\ sec[n].kind = End.kind[n]
                                                /\ Exact(n) => sec[n].size = End.size[n]
         /\ SectionsAgree /\ UNCHANGED <<sec, cur>> /\ work' = NoWork /\ End' = End
              => SectionsAgree'
         /\ /\ work' = NoWork
            /\ cur' = End'.cur
            /\ \A n \in SecName : /\ sec'[n].kind = End'.kind[n]
                                  /\ Exact(n)' => sec'[n].size = End'.size[n]
            => SectionsAgree'
<1>1. /\ prog \in Seq(StmtRecord) /\ prog' \in Seq(StmtRecord) /\ Read = Full(prog)
      /\ Ref!Layout(prog')[Len(prog')] = End'
  BY Taken
<1>2. \A n \in SecName : SizeTo(prog, Read, n) = End.size[n]
  BY <1>1, SizeWhole DEF End
<1>3. \A n \in SecName : SizeTo(prog', Full(prog'), n) = End'.size[n]
  BY <1>1, SizeWhole
<1>4. work' = NoWork => Read' = Full(prog')
  BY DEF Read, Full
<1>5. SectionsAgree => \A n \in SecName : /\ sec[n].kind = End.kind[n]
                                          /\ Exact(n) => sec[n].size = End.size[n]
  BY <1>2 DEF SectionsAgree
<1>6. SectionsAgree /\ UNCHANGED <<sec, cur>> /\ work' = NoWork /\ End' = End
        => SectionsAgree'
  <2> SUFFICES ASSUME SectionsAgree, UNCHANGED <<sec, cur>>, work' = NoWork, End' = End
               PROVE  SectionsAgree'
    OBVIOUS
  <2>1. \A n \in SecName : Exact(n)' <=> Exact(n)
    BY DEF Exact, Fits
  <2> QED BY <1>3, <1>4, <1>5, <2>1 DEF SectionsAgree
<1>7. ASSUME work' = NoWork, cur' = End'.cur,
             \A n \in SecName : /\ sec'[n].kind = End'.kind[n]
                                /\ Exact(n)' => sec'[n].size = End'.size[n]
      PROVE  SectionsAgree'
  BY <1>3, <1>4, <1>7 DEF SectionsAgree
<1> QED BY <1>5, <1>6, <1>7

\* A statement that aligns nothing and leaves the alignments alone.
LEMMA AlignsSame ==
  ASSUME Base, NEW st \in StmtRecord, Take(st), AlignsAgree, st.op # "align",
         \A n \in SecName : sec'[n].align = sec[n].align
  PROVE  AlignsAgree'
<1>1. prog \in Seq(StmtRecord) /\ prog' = Append(prog, st)
  BY Taken
<1>2. \A n, m : m \in Ref!AlignsIn(prog', n) <=> m \in Ref!AlignsIn(prog, n)
  BY <1>1, AlignsAppend
<1> QED BY <1>2 DEF AlignsAgree

\* Fixups of more fields, recorded after the others, are the fixups of all.
LEMMA MatchesMore ==
  ASSUME NEW F, NEW N, NEW s \in Seq(Fix), NEW t \in Seq(Fix), Matches(s, F), Matches(t, N)
  PROVE  Matches(s \o t, F \cup N)
<1>1. PICK f \in [1 .. Len(s) -> F] : /\ \A x \in F : \E k \in 1 .. Len(s) : f[k] = x
                                      /\ \A k \in 1 .. Len(s) : Describes(s[k], f[k])
  BY DEF Matches
<1>2. PICK g \in [1 .. Len(t) -> N] : /\ \A x \in N : \E k \in 1 .. Len(t) : g[k] = x
                                      /\ \A k \in 1 .. Len(t) : Describes(t[k], g[k])
  BY DEF Matches
<1> DEFINE m == Len(s)
           n == Len(t)
           w == s \o t
           h == [k \in 1 .. m + n |-> IF k <= m THEN f[k] ELSE g[k - m]]
<1>3. /\ m \in Nat /\ n \in Nat /\ Len(w) = m + n
      /\ \A k \in 1 .. m : w[k] = s[k] /\ k \in 1 .. m + n
      /\ \A k \in 1 .. m + n : k > m => w[k] = t[k - m] /\ k - m \in 1 .. n
      /\ \A k \in 1 .. n : m + k \in 1 .. m + n /\ (m + k) - m = k /\ ~(m + k <= m)
      /\ \A k \in 1 .. m + n : k <= m => k \in 1 .. m
  BY ConcatProperties, LenProperties
<1> HIDE DEF w
<1>4. h \in [1 .. Len(w) -> F \cup N]
  BY <1>1, <1>2, <1>3
<1>5. \A k \in 1 .. Len(w) : h[k] = IF k <= m THEN f[k] ELSE g[k - m]
  BY <1>3
<1> HIDE DEF h, m, n
<1>6. ASSUME NEW x \in F \cup N PROVE \E k \in 1 .. Len(w) : h[k] = x
  <2>1. CASE x \in F
    <3>1. PICK k \in 1 .. m : f[k] = x
      BY <1>1, <2>1 DEF m
    <3>2. k \in 1 .. Len(w) /\ k <= m
      BY <1>3
    <3> QED BY <1>5, <3>1, <3>2
  <2>2. CASE x \in N
    <3>1. PICK k \in 1 .. n : g[k] = x
      BY <1>2, <2>2 DEF n
    <3>2. m + k \in 1 .. Len(w) /\ (m + k) - m = k /\ ~(m + k <= m)
      BY <1>3
    <3> QED BY <1>5, <3>1, <3>2
  <2> QED BY <2>1, <2>2
<1>7. ASSUME NEW k \in 1 .. Len(w) PROVE Describes(w[k], h[k])
  <2>1. CASE k <= m
    <3>1. k \in 1 .. m /\ w[k] = s[k] /\ h[k] = f[k]
      BY <1>3, <1>5, <2>1
    <3> QED BY <1>1, <3>1 DEF m
  <2>2. CASE ~(k <= m)
    <3>1. k - m \in 1 .. n /\ w[k] = t[k - m] /\ h[k] = g[k - m]
      BY <1>3, <1>5, <2>2
    <3> QED BY <1>2, <3>1 DEF n
  <2> QED BY <2>1, <2>2
<1>8. Matches(w, F \cup N)
  BY <1>4, <1>6, <1>7, Zenon DEF Matches
<1> QED BY <1>8 DEF w

\* The fixups recorded for a statement are those of its fields.
LEMMA FieldsTaken ==
  ASSUME Base, NEW st \in StmtRecord, Take(st), FieldsAgree, NEW f \in Seq(Fix),
         fixes' = fixes \o f, Matches(f, StmtFieldsTo(End, st, Read'))
  PROVE  FieldsAgree'
<1>1. /\ prog \in Seq(StmtRecord) /\ prog' = Append(prog, st) /\ Read = Full(prog)
      /\ fixes \in Seq(Fix)
  BY Taken DEF Typed, StateTypeOK, UnitTypeOK
<1>2. \A j : FieldsTo(prog', j) = FieldsTo(prog, Full(prog)) \cup StmtFieldsTo(End, st, j)
  BY <1>1, ReadStatement DEF End
<1>3. Matches(fixes \o f, FieldsTo(prog, Read) \cup StmtFieldsTo(End, st, Read'))
  BY <1>1, MatchesMore DEF FieldsAgree
<1>4. FieldsTo(prog', Read') = FieldsTo(prog, Read) \cup StmtFieldsTo(End, st, Read')
  BY <1>1, <1>2
<1> QED BY <1>3, <1>4 DEF FieldsAgree

\* A statement without symbolic fields has no fixups.
LEMMA FieldsSame ==
  ASSUME Base, NEW st \in StmtRecord, Take(st), FieldsAgree, fixes' = fixes,
         StmtFieldsTo(End, st, Read') = {}
  PROVE  FieldsAgree'
<1>1. fixes' = fixes \o <<>> /\ <<>> \in Seq(Fix)
  BY ConcatEmptySeq, Taken DEF Typed, StateTypeOK, UnitTypeOK
<1>2. Matches(<<>>, {})
  <2>1. 1 .. Len(<<>>) = {}
    OBVIOUS
  <2>2. [k \in 1 .. Len(<<>>) |-> {}] \in [1 .. Len(<<>>) -> {}]
    BY <2>1
  <2> QED BY <2>1, <2>2 DEF Matches
<1> QED BY <1>1, <1>2, FieldsTaken

-----------------------------------------------------------------------------
(* The statements. *)

\* Whether the statement just read is valid, kind by kind.
LEMMA NewOK ==
  ASSUME Base, NEW st \in StmtRecord, Take(st), NEW j
  PROVE  /\ st.op = "label" => (StmtOKTo(prog', Len(prog'), j) <=>
              \A i \in 1 .. Len(prog) : ~Labels(prog[i], st.sym) /\ ~Sets(prog[i], st.sym))
         /\ st.op = "set" => (StmtOKTo(prog', Len(prog'), j) <=>
              \A i \in 1 .. Len(prog) : ~Labels(prog[i], st.sym))
         /\ st.op = "section" => (StmtOKTo(prog', Len(prog'), j) <=> st.clean = TRUE)
         /\ st.op = "insn" => (StmtOKTo(prog', Len(prog'), j) <=>
              Ref!HoldsBytes(End) /\ Encodable(st.insn))
         /\ st.op = "args" => (StmtOKTo(prog', Len(prog'), j) <=> ArgsOK(End, st, j))
         /\ st.op \in {"zero", "align"} => StmtOKTo(prog', Len(prog'), j)
         /\ st.op \in {"bad", "badinsn"} => ~StmtOKTo(prog', Len(prog'), j)
<1> DEFINE k == Len(prog')
<1>1. /\ prog' \in Seq(StmtRecord) /\ k \in 1 .. Len(prog') /\ prog'[k] = st
      /\ Ref!Layout(prog')[k - 1] = End /\ k - 1 = Len(prog)
      /\ \A i \in 1 .. k - 1 : prog'[i] = prog[i]
  <2>1. /\ prog' \in Seq(StmtRecord) /\ Len(prog') = Len(prog) + 1 /\ Len(prog) \in Nat
        /\ prog'[Len(prog')] = st /\ Ref!Layout(prog')[Len(prog') - 1] = End
        /\ prog' = Append(prog, st) /\ prog \in Seq(StmtRecord)
    BY Taken
  <2>2. \A i \in 1 .. Len(prog) : prog'[i] = prog[i]
    BY <2>1, AppendProperties
  <2> QED BY <2>1, <2>2
<1>2. /\ st.op = "label" => (Ref!StmtOK(prog', k) <=>
           \A i \in 1 .. k - 1 : ~Labels(prog'[i], st.sym) /\ ~Sets(prog'[i], st.sym))
      /\ st.op = "set" => (Ref!StmtOK(prog', k) <=>
           \A i \in 1 .. k - 1 : ~Labels(prog'[i], st.sym))
      /\ st.op = "section" => (Ref!StmtOK(prog', k) <=> st.clean = TRUE)
      /\ st.op = "insn" => (Ref!StmtOK(prog', k) <=>
           Ref!HoldsBytes(Ref!Layout(prog')[k - 1]) /\ Encodable(st.insn))
      /\ st.op \in {"zero", "align"} => Ref!StmtOK(prog', k)
      /\ st.op \in {"bad", "badinsn"} => ~Ref!StmtOK(prog', k)
  BY <1>1, StmtOKIs
<1>3. StmtOKTo(prog', k, j)
        <=> IF st.op = "args" THEN ArgsOK(End, st, j) ELSE Ref!StmtOK(prog', k)
  BY <1>1 DEF StmtOKTo
<1> HIDE DEF k
<1>4. /\ (\A i \in 1 .. k - 1 : ~Labels(prog'[i], st.sym))
           <=> \A i \in 1 .. Len(prog) : ~Labels(prog[i], st.sym)
      /\ (\A i \in 1 .. k - 1 : ~Sets(prog'[i], st.sym))
           <=> \A i \in 1 .. Len(prog) : ~Sets(prog[i], st.sym)
  BY <1>1
<1> QED BY <1>1, <1>2, <1>3, <1>4 DEF k

\* Most statements have neither symbolic fields nor .globl arguments.
LEMMA NoParts ==
  ASSUME NEW st, NEW u, NEW j
  PROVE  /\ st.op \notin {"insn", "args"} => StmtFieldsTo(u, st, j) = {}
         /\ st.op # "args" => \A s : ~GlobalIn(st, j, s)
BY DEF StmtFieldsTo, GlobalIn, Ref!IsDir

\* Labels, constants and malformed statements take no space.
LEMMA SameEnd ==
  ASSUME Base, NEW st \in StmtRecord, Take(st), st.op \in {"label", "set", "bad", "badinsn"}
  PROVE  End' = End
<1>1. End' = After(End, st) /\ End \in Counters
  BY Taken
<1>2. \A n : Ref!SizeAfter(st, n) = n
  BY DEF Ref!SizeAfter
<1> QED BY <1>1, <1>2 DEF After, Counters

\* Driver and reference agree on whether bytes may be emitted.
LEMMA BytesAgree ==
  ASSUME Base, work = NoWork, SectionsAgree
  PROVE  /\ Ref!HoldsBytes(End) <=> ~InNobits
         /\ Exact(cur) => Here = End.size[End.cur]
         /\ cur = End.cur /\ (~InNobits => Exact(cur))
<1>1. sec[cur].kind \in SecKind \cup {"none"} /\ SecSeen(cur) /\ cur \in SecName
  BY DEF Base, PlacedInv, Typed, StateTypeOK, UnitTypeOK, Section
<1>2. prog \in Seq(StmtRecord)
  BY DEF Base, PlacedInv, Typed
<1>3. /\ sec[cur].kind = End.kind[cur] /\ cur = End.cur
      /\ Exact(cur) => sec[cur].size = End.size[cur]
  BY <1>1, <1>2, SizeWhole DEF SectionsAgree, Read, End
<1> QED BY <1>1, <1>3 DEF Ref!HoldsBytes, InNobits, Here, SecSeen, SecKind, Exact

\* A label is recorded where it stands, the first time.
LEMMA LabelSteps ==
  ASSUME Base, NEW s \in Sym, Label(s)
  PROVE  Steps
<1> DEFINE st == [op |-> "label", sym |-> s]
           r == IF Defined(s) THEN sym[s]
                ELSE [sym[s] EXCEPT !.where = "SECTION", !.section = cur, !.value = Here]
           ok == StmtOKTo(prog', Len(prog'), Read')
<1>1. st \in StmtRecord /\ Take(st) /\ Continue /\ st.op = "label" /\ st.sym = s
  BY DEF Label, StmtRecord
<1>2. /\ UNCHANGED <<sects, sec, cur, fixes, work>> /\ Store(s, r)
      /\ IF Defined(s) THEN Report ELSE UNCHANGED errs
  BY DEF Label
<1>3. /\ sym \in [Sym -> Symbol] /\ errs \in Nat /\ work = NoWork /\ Typed
      /\ prog \in Seq(StmtRecord) /\ prog' = Append(prog, st)
  BY <1>1, Taken DEF Typed, StateTypeOK, UnitTypeOK
<1>4. \A t \in Sym : sym'[t] = IF t = s THEN r ELSE sym[t]
  BY <1>2, <1>3 DEF Store
<1> HIDE DEF st, ok
<1>5. ASSUME Agree
      PROVE  ok <=> ~Defined(s)
  <2>1. ok <=> \A i \in 1 .. Len(prog) : ~Labels(prog[i], s) /\ ~Sets(prog[i], s)
    BY <1>1, NewOK DEF ok
  <2>2. Ref!Meaning(prog, s).ref = "UNDEF"
          <=> \A i \in 1 .. Len(prog) : ~Labels(prog[i], s) /\ ~Sets(prog[i], s)
    BY <1>3, MeaningIs
  <2>3. Ref!Meaning(prog, s).ref = RefOf(sym[s])
    BY <1>5 DEF Agree, SymbolsAgree
  <2> QED BY <2>1, <2>2, <2>3 DEF RefOf, Defined
<1>6. ASSUME Agree, ~Defined(s)
      PROVE  Agree'
  <2>1. r = [where |-> "SECTION", section |-> cur, value |-> Here,
             global |-> sym[s].global, referenced |-> sym[s].referenced]
    BY <1>3, <1>6 DEF Symbol
  <2> HIDE DEF r
  <2>2. End' = End
    BY <1>1, SameEnd
  <2>3. SectionsAgree'
    BY <1>1, <1>2, <1>3, <1>6, <2>2, SectionsTaken DEF Agree
  <2>4. AlignsAgree'
    BY <1>1, <1>2, <1>6, AlignsSame DEF Agree
  <2>5. FieldsAgree'
    <3>1. StmtFieldsTo(End, st, Read') = {}
      BY <1>1, NoParts
    <3> QED BY <1>1, <1>2, <1>6, <3>1, FieldsSame DEF Agree
  <2>6. GlobalsAgree'
    <3>1. \A t \in Sym : ~GlobalIn(st, Read', t) /\ sym'[t].global = sym[t].global
      BY <1>1, <1>4, <2>1, NoParts
    <3> QED BY <1>1, <1>6, <3>1, GlobalsSame DEF Agree
  <2>7. SymbolsAgree'
    <3> DEFINE exact(n) == Fits' \/ sec'[n].kind # "NOBITS"
    <3>1. \A n : exact(n) <=> Exact(n)
      BY <1>2, <2>2 DEF Exact, Fits
    <3> SUFFICES ASSUME NEW t \in Sym
                 PROVE  LET m == Ref!Meaning(prog', t)
                        IN /\ m.ref = RefOf(sym'[t]) /\ m.section = sym'[t].section
                           /\ (m.ref = "SECTION" => exact(m.section)) => m.value = ValueOf(sym'[t])
      BY DEF SymbolsAgree, Exact
    <3> HIDE DEF exact
    <3>2. CASE t = s
      <4>1. Labels(st, s)
        BY <1>1 DEF Labels
      <4>2. \A k \in 1 .. Len(prog) : ~Labels(prog[k], s)
        BY <1>1, <1>5, <1>6, NewOK DEF ok
      <4>3. Ref!Meaning(prog', s) = [ref |-> "SECTION", section |-> End.cur,
                                     value |-> End.size[End.cur]]
        BY <1>1, <1>3, <4>1, <4>2, MeaningAppend DEF End
      <4>4. (Exact(cur) => Here = End.size[End.cur]) /\ cur = End.cur
        BY <1>3, <1>6, BytesAgree DEF Agree
      <4> QED BY <1>4, <2>1, <3>2, <3>1, <4>3, <4>4 DEF RefOf, ValueOf
    <3>3. CASE t # s
      <4>1. ~Labels(st, t) /\ ~Sets(st, t)
        BY <1>1, <3>3 DEF Labels, Sets
      <4>2. Ref!Meaning(prog', t) = Ref!Meaning(prog, t)
        BY <1>1, <1>3, <4>1, MeaningAppend
      <4> QED BY <1>4, <1>6, <3>3, <3>1, <4>2 DEF Agree, SymbolsAgree
    <3> QED BY <3>2, <3>3
  <2> QED BY <2>3, <2>4, <2>5, <2>6, <2>7 DEF Agree
<1>7. errs' \in {errs, errs + 1}
  BY <1>2 DEF Report
<1>8. Keeps
  BY <1>2, <1>5, <1>6 DEF Keeps, ok, Report
<1> QED BY <1>1, <1>7, <1>8, StatementSteps

\* A .set name has its last value, unless it is a label.
LEMMA SetSteps ==
  ASSUME Base, NEW s \in Sym, NEW v \in AbsValues, Set(s, v)
  PROVE  Steps
<1> DEFINE st == [op |-> "set", sym |-> s, value |-> v]
           r == IF sym[s].where = "SECTION" THEN sym[s]
                ELSE [sym[s] EXCEPT !.where = "ABS", !.value = v]
           ok == StmtOKTo(prog', Len(prog'), Read')
<1>1. st \in StmtRecord /\ Take(st) /\ Continue /\ st.op = "set" /\ st.sym = s /\ st.value = v
  BY DEF Set, StmtRecord
<1>2. /\ UNCHANGED <<sects, sec, cur, fixes, work>> /\ Store(s, r)
      /\ IF sym[s].where = "SECTION" THEN Report ELSE UNCHANGED errs
  BY DEF Set
<1>3. /\ sym \in [Sym -> Symbol] /\ errs \in Nat /\ work = NoWork /\ Typed
      /\ prog \in Seq(StmtRecord) /\ prog' = Append(prog, st)
  BY <1>1, Taken DEF Typed, StateTypeOK, UnitTypeOK
<1>4. \A t \in Sym : sym'[t] = IF t = s THEN r ELSE sym[t]
  BY <1>2, <1>3 DEF Store
<1> HIDE DEF st, ok
<1>5. ASSUME Agree
      PROVE  /\ ok <=> sym[s].where # "SECTION"
             /\ Ref!Meaning(prog, s).ref # "SECTION"
                  <=> \A i \in 1 .. Len(prog) : ~Labels(prog[i], s)
             /\ Ref!Meaning(prog, s).ref = RefOf(sym[s])
             /\ Ref!Meaning(prog, s).section = sym[s].section
  <2>1. ok <=> \A i \in 1 .. Len(prog) : ~Labels(prog[i], s)
    BY <1>1, NewOK DEF ok
  <2>2. Ref!Meaning(prog, s).ref = "SECTION" <=> \E i \in 1 .. Len(prog) : Labels(prog[i], s)
    BY <1>3, MeaningIs
  <2>3. Ref!Meaning(prog, s).ref = RefOf(sym[s]) /\ Ref!Meaning(prog, s).section = sym[s].section
    BY <1>5 DEF Agree, SymbolsAgree
  <2> QED BY <2>1, <2>2, <2>3 DEF RefOf
<1>6. ASSUME Agree, sym[s].where # "SECTION"
      PROVE  Agree'
  <2>1. r = [where |-> "ABS", section |-> sym[s].section, value |-> v,
             global |-> sym[s].global, referenced |-> sym[s].referenced]
    BY <1>3, <1>6 DEF Symbol
  <2> HIDE DEF r
  <2>2. End' = End
    BY <1>1, SameEnd
  <2>3. SectionsAgree'
    BY <1>1, <1>2, <1>3, <1>6, <2>2, SectionsTaken DEF Agree
  <2>4. AlignsAgree'
    BY <1>1, <1>2, <1>6, AlignsSame DEF Agree
  <2>5. FieldsAgree'
    <3>1. StmtFieldsTo(End, st, Read') = {}
      BY <1>1, NoParts
    <3> QED BY <1>1, <1>2, <1>6, <3>1, FieldsSame DEF Agree
  <2>6. GlobalsAgree'
    <3>1. \A t \in Sym : ~GlobalIn(st, Read', t) /\ sym'[t].global = sym[t].global
      BY <1>1, <1>4, <2>1, NoParts
    <3> QED BY <1>1, <1>6, <3>1, GlobalsSame DEF Agree
  <2>7. SymbolsAgree'
    <3> DEFINE exact(n) == Fits' \/ sec'[n].kind # "NOBITS"
    <3>1. \A n : exact(n) <=> Exact(n)
      BY <1>2, <2>2 DEF Exact, Fits
    <3> SUFFICES ASSUME NEW t \in Sym
                 PROVE  LET m == Ref!Meaning(prog', t)
                        IN /\ m.ref = RefOf(sym'[t]) /\ m.section = sym'[t].section
                           /\ (m.ref = "SECTION" => exact(m.section)) => m.value = ValueOf(sym'[t])
      BY DEF SymbolsAgree, Exact
    <3> HIDE DEF exact
    <3>2. CASE t = s
      <4>1. Sets(st, s)
        BY <1>1 DEF Sets
      <4>2. \A k \in 1 .. Len(prog) : ~Labels(prog[k], s)
        BY <1>1, <1>5, <1>6, NewOK DEF ok
      <4>3. Ref!Meaning(prog', s) = [ref |-> "ABS", section |-> ".text", value |-> v]
        BY <1>1, <1>3, <4>1, <4>2, MeaningAppend
      <4>4. sym[s].section = ".text"
        <5>1. Ref!Meaning(prog, s).ref # "SECTION"
          BY <1>5, <1>6 DEF RefOf
        <5>2. Ref!Meaning(prog, s).section = ".text"
          BY <5>1 DEF Ref!Meaning
        <5> QED BY <1>5, <1>6, <5>2
      <4> QED BY <1>4, <2>1, <3>2, <4>3, <4>4 DEF RefOf, ValueOf
    <3>3. CASE t # s
      <4>1. ~Labels(st, t) /\ ~Sets(st, t)
        BY <1>1, <3>3 DEF Labels, Sets
      <4>2. Ref!Meaning(prog', t) = Ref!Meaning(prog, t)
        BY <1>1, <1>3, <4>1, MeaningAppend
      <4> QED BY <1>4, <1>6, <3>3, <3>1, <4>2 DEF Agree, SymbolsAgree
    <3> QED BY <3>2, <3>3
  <2> QED BY <2>3, <2>4, <2>5, <2>6, <2>7 DEF Agree
<1>7. errs' \in {errs, errs + 1}
  BY <1>2 DEF Report
<1>8. Keeps
  BY <1>2, <1>5, <1>6 DEF Keeps, ok, Report
<1> QED BY <1>1, <1>7, <1>8, StatementSteps

\* What a statement without symbols, fields or alignment leaves alone.
LEMMA RestAgrees ==
  ASSUME Base, NEW st \in StmtRecord, Take(st), Agree, UNCHANGED <<sym, fixes>>,
         st.op \notin {"label", "set", "insn", "align", "args"},
         \A n \in SecName : /\ sec'[n].align = sec[n].align
                            /\ sec[n].kind = "NOBITS" => sec'[n].kind = "NOBITS"
  PROVE  AlignsAgree' /\ SymbolsAgree' /\ GlobalsAgree' /\ FieldsAgree'
<1>1. AlignsAgree'
  BY AlignsSame DEF Agree
<1>2. SymbolsAgree'
  BY SymbolsSame DEF Agree
<1>3. GlobalsAgree'
  <2>1. \A s \in Sym : ~GlobalIn(st, Read', s) /\ sym'[s].global = sym[s].global
    BY NoParts
  <2> QED BY <2>1, GlobalsSame DEF Agree
<1>4. FieldsAgree'
  <2>1. StmtFieldsTo(End, st, Read') = {}
    BY NoParts
  <2> QED BY <2>1, FieldsSame DEF Agree
<1> QED BY <1>1, <1>2, <1>3, <1>4

\* A section is selected, and added if it was never named; mistakes in the
\* directive do not change that.
LEMMA SelectSteps ==
  ASSUME Base, NEW n \in SecName, NEW k \in SecKind, NEW clean \in BOOLEAN,
         Take([op |-> "section", name |-> n, kind |-> k, clean |-> clean]),
         SelectSection(n, k), UNCHANGED <<syms, sym, fixes, work>>, Continue,
         clean => errs' = errs, ~clean => ReportUnchecked
  PROVE  Steps
<1> DEFINE st == [op |-> "section", name |-> n, kind |-> k, clean |-> clean]
           ok == StmtOKTo(prog', Len(prog'), Read')
<1>1. /\ st \in StmtRecord /\ Take(st) /\ st.op = "section" /\ st.name = n /\ st.kind = k
      /\ st.clean = clean
  BY DEF StmtRecord
<1> HIDE DEF st
<1>2. /\ Typed /\ work = NoWork /\ work' = NoWork /\ End \in Counters /\ End' = After(End, st)
      /\ sec \in [SecName -> Section]
  BY <1>1, Taken DEF Typed, StateTypeOK, UnitTypeOK
<1> HIDE DEF ok
<1>3. ok <=> clean = TRUE
  BY <1>1, NewOK DEF ok
<1>4. /\ End'.cur = n /\ End'.size = End.size
      /\ \A m \in SecName : End'.kind[m] = IF m = n /\ End.kind[n] = "none" THEN k ELSE End.kind[m]
  BY <1>1, <1>2 DEF After, Counters
<1>5. ASSUME Agree, NEW m \in SecName
      PROVE  /\ sec'[m].kind = End'.kind[m] /\ sec'[m].size = sec[m].size
             /\ sec'[m].align = sec[m].align
             /\ sec[m].kind = "NOBITS" => sec'[m].kind = "NOBITS"
  <2>1. sec[m].kind = End.kind[m] /\ sec[n].kind = End.kind[n]
    BY <1>5 DEF Agree, SectionsAgree
  <2>2. CASE SecSeen(n) \/ m # n
    <3>1. sec'[m] = sec[m]
      BY <1>2, <2>2 DEF SelectSection
    <3> QED BY <1>4, <2>1, <2>2, <3>1 DEF SecSeen
  <2>3. CASE ~SecSeen(n) /\ m = n
    <3>1. sec'[m] = NewSection(k) /\ sec[m] = NewSection("none")
      BY <1>2, <2>3 DEF SelectSection, Base, UnseenInv
    <3>2. End'.kind[m] = k
      BY <1>4, <2>1, <2>3 DEF SecSeen
    <3> QED BY <3>1, <3>2 DEF NewSection
  <2> QED BY <2>2, <2>3
<1>6. ASSUME Agree PROVE Agree'
  <2>1. SectionsAgree'
    <3>1. \A m \in SecName : Exact(m)' => Exact(m)
      BY <1>1, <1>5, <1>6, ExactTaken
    <3>2. \A m \in SecName : Exact(m) => sec[m].size = End.size[m]
      BY <1>1, <1>6, SectionsTaken DEF Agree
    <3>3. \A m \in SecName : /\ sec'[m].kind = End'.kind[m]
                             /\ Exact(m)' => sec'[m].size = End'.size[m]
      BY <1>4, <1>5, <1>6, <3>1, <3>2
    <3> QED BY <1>1, <1>2, <1>4, <3>3, SectionsTaken DEF SelectSection
  <2>2. AlignsAgree' /\ SymbolsAgree' /\ GlobalsAgree' /\ FieldsAgree'
    BY <1>1, <1>5, <1>6, RestAgrees
  <2> QED BY <2>1, <2>2 DEF Agree
<1>7. errs' \in {errs, errs + 1}
  BY DEF ReportUnchecked, Report
<1>8. Keeps
  BY <1>3, <1>6 DEF Keeps, ok, ReportUnchecked, Report
<1> QED BY <1>1, <1>7, <1>8, StatementSteps

\* .text, .data, .rodata and .bss.
LEMMA ShortcutSteps ==
  ASSUME Base, NEW n \in SecName, NEW b \in BOOLEAN, Shortcut(n, b)
  PROVE  Steps
<1>1. ShortcutKind(n) \in SecKind /\ (~b) \in BOOLEAN
  BY DEF ShortcutKind, SecKind
<1>2. /\ Take([op |-> "section", name |-> n, kind |-> ShortcutKind(n), clean |-> ~b])
      /\ SelectSection(n, ShortcutKind(n)) /\ UNCHANGED <<syms, sym, fixes, work>> /\ Continue
  BY DEF Shortcut, ReportUnchecked
<1>3. (~b => errs' = errs) /\ (~(~b) => ReportUnchecked)
  BY DEF Shortcut, ReportUnchecked
<1> QED BY <1>1, <1>2, <1>3, SelectSteps

\* .section with a quoted name.
LEMMA NamedSectionSteps ==
  ASSUME Base, NEW n \in SecName, NEW b \in BOOLEAN, NamedSection(n, b)
  PROVE  Steps
<1>1. "PROGBITS" \in SecKind /\ (~b) \in BOOLEAN
  BY DEF SecKind
<1>2. /\ Take([op |-> "section", name |-> n, kind |-> "PROGBITS", clean |-> ~b])
      /\ SelectSection(n, "PROGBITS") /\ UNCHANGED <<syms, sym, fixes, work>> /\ Continue
  BY DEF NamedSection
<1>3. (~b => errs' = errs) /\ (~(~b) => ReportUnchecked)
  BY DEF NamedSection
<1> QED BY <1>1, <1>2, <1>3, SelectSteps

\* A malformed statement is an error and nothing else.
LEMMA BadSteps ==
  ASSUME Base, NEW op \in {"bad", "badinsn"}, Take([op |-> op]), Continue, ReportUnchecked
  PROVE  Steps
<1> DEFINE st == [op |-> op]
<1>1. st \in StmtRecord /\ Take(st) /\ st.op \in {"bad", "badinsn"}
  BY DEF StmtRecord
<1> HIDE DEF st
<1>2. ~StmtOKTo(prog', Len(prog'), Read')
  BY <1>1, NewOK
<1>3. errs' \in {errs, errs + 1}
  BY DEF ReportUnchecked, Report
<1>4. Keeps
  BY <1>2 DEF Keeps, ReportUnchecked, Report
<1> QED BY <1>1, <1>3, <1>4, StatementSteps

\* One field, one fixup; none, none.
LEMMA MatchesOne ==
  ASSUME NEW fx \in Fix, NEW f, Describes(fx, f)
  PROVE  Matches(<<fx>>, {f})
<1> DEFINE g == [k \in 1 .. 1 |-> f]
<1>1. Len(<<fx>>) = 1 /\ <<fx>>[1] = fx /\ g \in [1 .. 1 -> {f}] /\ g[1] = f
      /\ \A k \in 1 .. 1 : k = 1
  OBVIOUS
<1>2. 1 \in 1 .. 1
  OBVIOUS
<1> HIDE DEF g
<1>3. (\A x \in {f} : \E k \in 1 .. 1 : g[k] = x) /\ \A k \in 1 .. 1 : Describes(<<fx>>[k], g[k])
  BY <1>1, <1>2
<1> QED BY <1>1, <1>3 DEF Matches

\* No fixups, no fields.
LEMMA MatchesNone == Matches(<<>>, {})
<1>1. 1 .. Len(<<>>) = {}
  OBVIOUS
<1>2. [k \in 1 .. Len(<<>>) |-> {}] \in [1 .. Len(<<>>) -> {}]
  BY <1>1
<1> QED BY <1>1, <1>2 DEF Matches

\* The fixups of an instruction fill the fields its operands ask for: same
\* place, width and symbol, and the addend of a distance counts from the
\* end of the instruction.
LEMMA InsnMatches ==
  ASSUME Typed, NEW i \in Insns, Encodable(i), NEW u \in Counters, u.cur = cur,
         u.size[cur] = Here
  PROVE  Matches(InsnFixes(i), Ref!InsnFields(u, i))
<1> DEFINE A == IF IsSymbolic(i.disp) THEN <<FixOf(DispFixup(i))>> ELSE <<>>
           B == IF IsSymbolic(i.imm) THEN <<FixOf(ImmFixup(i))>> ELSE <<>>
           FA == IF IsSymbolic(i.disp)
                 THEN {Ref!SymField(u, i.head, 4, i.disp.mode = "rip", i.disp.sym, i.disp.add,
                                    InsnLen(i))}
                 ELSE {}
           FB == IF IsSymbolic(i.imm)
                 THEN {Ref!SymField(u, InsnLen(i) - i.imm.width, i.imm.width, i.imm.mode = "rel",
                                    i.imm.sym, i.imm.add, InsnLen(i))}
                 ELSE {}
<1>1. /\ i.head \in Nat /\ i.disp \in DispField /\ i.imm \in ImmField
      /\ InsnLen(i) = i.head + i.disp.width + i.imm.width
      /\ i.disp.width \in Nat /\ i.imm.width \in Nat
      /\ i.disp.sym \in Sym /\ i.imm.sym \in Sym /\ i.disp.add \in Int /\ i.imm.add \in Int
  BY InsnLenType, StmtAssumption DEF Insn, DispField, ImmField, Field
<1>2. Here \in Nat /\ cur \in SecName
  BY DEF Typed, StateTypeOK, UnitTypeOK, Here, Section
<1>3. Ref!InsnFields(u, i) = FA \cup FB
  BY InsnLenType DEF Ref!InsnFields, Ref!IsSymbolic, IsSymbolic
<1>4. InsnFixes(i) = A \o B
  BY DEF InsnFixes, Fixups
<1>5. A \in Seq(Fix) /\ Matches(A, FA)
  <2>1. CASE IsSymbolic(i.disp)
    <3> DEFINE fx == FixOf(DispFixup(i))
               f  == Ref!SymField(u, i.head, 4, i.disp.mode = "rip", i.disp.sym, i.disp.add,
                                  InsnLen(i))
    <3>1. i.disp.width = 4
      BY <1>1, <2>1 DEF IsSymbolic, DispField, Field
    <3>2. /\ fx.sec = cur /\ fx.offset = Here + i.head /\ fx.sym = i.disp.sym
          /\ fx.kind = IF i.disp.mode = "rip" THEN "PC32" ELSE "ABS32S"
          /\ fx.addend = IF i.disp.mode = "rip" THEN i.disp.add - (4 + i.imm.width) ELSE i.disp.add
          /\ fx = [sec |-> fx.sec, offset |-> fx.offset, kind |-> fx.kind, sym |-> fx.sym,
                   addend |-> fx.addend]
      BY DEF FixOf, DispFixup
    <3>3. /\ f.sec = cur /\ f.offset = Here + i.head /\ f.width = 4 /\ f.sym = i.disp.sym
          /\ f.pc <=> i.disp.mode = "rip"
          /\ f.add = i.disp.add /\ f.after = Here + InsnLen(i)
      BY DEF Ref!SymField
    <3> HIDE DEF fx, f
    <3>4. fx \in Fix
      BY <1>1, <1>2, <3>2 DEF Fix, FixKind
    <3>5. Describes(fx, f)
      BY <1>1, <1>2, <3>1, <3>2, <3>3 DEF Describes, FieldWidth
    <3>6. A = <<fx>> /\ FA = {f}
      BY <2>1 DEF fx, f
    <3> QED BY <3>4, <3>5, <3>6, MatchesOne
  <2>2. CASE ~IsSymbolic(i.disp)
    BY <2>2, MatchesNone
  <2> QED BY <2>1, <2>2
<1>6. B \in Seq(Fix) /\ Matches(B, FB)
  <2>1. CASE IsSymbolic(i.imm)
    <3> DEFINE fx == FixOf(ImmFixup(i))
               f  == Ref!SymField(u, InsnLen(i) - i.imm.width, i.imm.width, i.imm.mode = "rel",
                                  i.imm.sym, i.imm.add, InsnLen(i))
    <3>1. i.imm.width \in {4, 8} /\ (i.imm.mode = "rel" => i.imm.width = 4)
      BY <1>1, <2>1 DEF IsSymbolic, ImmField, Field, Encodable
    <3>2. /\ fx.sec = cur /\ fx.offset = Here + (i.head + i.disp.width) /\ fx.sym = i.imm.sym
          /\ fx.kind = IF i.imm.mode = "rel" THEN "PC32"
                       ELSE IF i.imm.width = 8 THEN "ABS64" ELSE "ABS32S"
          /\ fx.addend = IF i.imm.mode = "rel" THEN i.imm.add - i.imm.width ELSE i.imm.add
          /\ fx = [sec |-> fx.sec, offset |-> fx.offset, kind |-> fx.kind, sym |-> fx.sym,
                   addend |-> fx.addend]
      BY DEF FixOf, ImmFixup
    <3>3. /\ f.sec = cur /\ f.offset = Here + (InsnLen(i) - i.imm.width)
          /\ f.width = i.imm.width /\ f.sym = i.imm.sym
          /\ f.pc <=> i.imm.mode = "rel"
          /\ f.add = i.imm.add /\ f.after = Here + InsnLen(i)
      BY DEF Ref!SymField
    <3> HIDE DEF fx, f
    <3>4. fx \in Fix
      BY <1>1, <1>2, <3>2 DEF Fix, FixKind
    <3>5. Describes(fx, f)
      BY <1>1, <1>2, <3>1, <3>2, <3>3 DEF Describes, FieldWidth
    <3>6. B = <<fx>> /\ FB = {f}
      BY <2>1 DEF fx, f
    <3> QED BY <3>4, <3>5, <3>6, MatchesOne
  <2>2. CASE ~IsSymbolic(i.imm)
    BY <2>2, MatchesNone
  <2> QED BY <2>1, <2>2
<1> HIDE DEF A, B, FA, FB
<1>7. Matches(A \o B, FA \cup FB)
  BY <1>5, <1>6, MatchesMore
<1> QED BY <1>3, <1>4, <1>7

\* A statement that adds n bytes adds them to the section driver and
\* reference both take for the current one; nothing wraps while all fits.
LEMMA SectionsGrown ==
  ASSUME Base, NEW st \in StmtRecord, Take(st), Agree, st.op # "section",
         work' = NoWork, cur' = cur, NEW n \in Nat,
         \A m \in SecName : /\ sec'[m].kind = sec[m].kind
                            /\ sec'[m].size = IF m = cur THEN Grown(n) ELSE sec[m].size,
         Ref!SizeAfter(st, Here) = Here + n
  PROVE  SectionsAgree'
<1>1. /\ Typed /\ work = NoWork /\ End \in Counters /\ End' = After(End, st)
      /\ sec \in [SecName -> Section] /\ cur \in SecName /\ Here \in Nat
  BY Taken DEF Typed, StateTypeOK, UnitTypeOK, Here, Section
<1>2. (Exact(cur) => Here = End.size[cur]) /\ cur = End.cur
  BY <1>1, BytesAgree DEF Agree
<1>3. \A m \in SecName : sec[m].kind = End.kind[m] /\ (Exact(m) => sec[m].size = End.size[m])
  BY SectionsTaken DEF Agree
<1>4. /\ End'.cur = cur /\ End'.kind = End.kind
      /\ \A m \in SecName : End'.size[m] = IF m = cur THEN Ref!SizeAfter(st, End.size[cur])
                                            ELSE End.size[m]
  BY <1>1, <1>2 DEF After, Counters
<1>5. \A m \in SecName : Exact(m)' => Exact(m)
  BY ExactTaken
<1>6. ASSUME Exact(cur)' PROVE Grown(n) = End'.size[cur]
  <2>1. End'.size[cur] = Here + n
    BY <1>1, <1>2, <1>4, <1>5, <1>6
  <2>2. CASE ~InNobits
    BY <2>1, <2>2 DEF Grown
  <2>3. CASE InNobits
    <3>1. Fits'
      BY <1>1, <1>6, <2>3 DEF Exact, InNobits
    <3>2. Here + n < U64
      BY <1>1, <2>1, <3>1 DEF Fits
    <3>3. U64 \in Nat \ {0} /\ Here + n \in 0 .. U64 - 1
      BY <1>1, <3>2, WordsAreNat
    <3> QED BY <2>1, <2>3, <3>3, ModSmall DEF Grown
  <2> QED BY <2>2, <2>3
<1>7. cur' = End'.cur
      /\ \A m \in SecName : sec'[m].kind = End'.kind[m] /\ (Exact(m)' => sec'[m].size = End'.size[m])
  BY <1>3, <1>4, <1>5, <1>6
<1> QED BY <1>7, SectionsTaken

\* An instruction is placed, and its fixups recorded, where the reference
\* says; in a NOBITS section and unencodable it is an error.
LEMMA InstructionSteps ==
  ASSUME Base, NEW i \in Insns, Instruction(i), status' = "OK"
  PROVE  Steps
<1> DEFINE st == [op |-> "insn", insn |-> i]
           ok == StmtOKTo(prog', Len(prog'), Read')
<1>1. st \in StmtRecord /\ Take(st) /\ st.op = "insn" /\ st.insn = i
  BY DEF StmtRecord, Instruction
<1> HIDE DEF st
<1>2. Typed /\ work = NoWork /\ End \in Counters /\ UnitTypeOK
  BY <1>1, Taken DEF Typed, StateTypeOK
<1> HIDE DEF ok
<1>3. Agree => (ok <=> ~InNobits /\ Encodable(i))
  BY <1>1, <1>2, NewOK, BytesAgree DEF ok, Agree
<1>4. CASE InNobits \/ ~Encodable(i)
  <2>1. Continue /\ ReportUnchecked
    BY <1>4 DEF Instruction, ReportUnchecked
  <2>2. errs' \in {errs, errs + 1}
    BY <2>1 DEF ReportUnchecked, Report
  <2>3. Keeps
    BY <1>3, <1>4, <2>1 DEF Keeps, ok, ReportUnchecked, Report
  <2> QED BY <1>1, <2>1, <2>2, <2>3, StatementSteps
<1>5. CASE ~InNobits /\ Encodable(i)
  <2>1. Emit(InsnLen(i), InsnFixes(i))
    BY <1>5 DEF Instruction
  <2>2. /\ EmitBytes(InsnLen(i)) /\ fixes' = fixes \o InsnFixes(i)
        /\ UNCHANGED <<sects, cur, syms, sym, errs, work>> /\ Continue
    BY <2>1, GrowFailureType DEF Emit, Abort, GrownStatus
  <2>3. ASSUME Agree PROVE Agree'
    <3>1. Ref!SizeAfter(st, Here) = Here + InsnLen(i) /\ InsnLen(i) \in Nat
      BY <1>1, InsnLenType DEF Ref!SizeAfter
    <3>2. \A m \in SecName : /\ sec'[m].kind = sec[m].kind /\ sec'[m].align = sec[m].align
                             /\ sec'[m].size = IF m = cur THEN Grown(InsnLen(i)) ELSE sec[m].size
      BY <1>2, <2>2 DEF EmitBytes, UnitTypeOK, Section
    <3>3. SectionsAgree'
      BY <1>1, <1>2, <2>2, <2>3, <3>1, <3>2, SectionsGrown
    <3>4. AlignsAgree'
      BY <1>1, <2>3, <3>2, AlignsSame DEF Agree
    <3>5. SymbolsAgree'
      BY <1>1, <2>2, <2>3, <3>2, SymbolsSame DEF Agree
    <3>6. GlobalsAgree'
      <4>1. \A s \in Sym : ~GlobalIn(st, Read', s) /\ sym'[s].global = sym[s].global
        BY <1>1, <2>2, NoParts
      <4> QED BY <1>1, <2>3, <4>1, GlobalsSame DEF Agree
    <3>7. FieldsAgree'
      <4>1. InsnFixes(i) \in Seq(Fix)
        BY <1>2, <1>5, InsnFixesType
      <4>2. End.cur = cur /\ End.size[cur] = Here
        BY <1>2, <1>5, <2>3, BytesAgree DEF Agree
      <4>3. Matches(InsnFixes(i), Ref!InsnFields(End, i))
        BY <1>2, <1>5, <4>2, InsnMatches
      <4>4. StmtFieldsTo(End, st, Read') = Ref!InsnFields(End, i)
        BY <1>1 DEF StmtFieldsTo
      <4> QED BY <1>1, <2>2, <2>3, <4>1, <4>3, <4>4, FieldsTaken DEF Agree
    <3> QED BY <3>3, <3>4, <3>5, <3>6, <3>7 DEF Agree
  <2>4. Keeps
    BY <1>3, <1>5, <2>2, <2>3 DEF Keeps, ok
  <2> QED BY <1>1, <2>2, <2>4, StatementSteps
<1> QED BY <1>4, <1>5

\* .zero adds its count.
LEMMA ZeroSteps ==
  ASSUME Base, NEW n \in Zeros, Zero(n), status' = "OK"
  PROVE  Steps
<1> DEFINE st == [op |-> "zero", count |-> n]
<1>1. st \in StmtRecord /\ Take(st) /\ st.op = "zero" /\ st.count = n /\ n \in Nat
  BY WordsAreNat DEF StmtRecord, Zero
<1> HIDE DEF st
<1>2. Typed /\ work = NoWork /\ UnitTypeOK
  BY <1>1, Taken DEF Typed, StateTypeOK
<1>3. /\ EmitBytes(n) /\ fixes' = fixes \o <<>>
      /\ UNCHANGED <<sects, cur, syms, sym, errs, work>> /\ Continue
  BY GrowFailureType DEF Zero, Emit, Abort, GrownStatus
<1>4. fixes' = fixes
  BY <1>2, <1>3, ConcatEmptySeq DEF UnitTypeOK
<1>5. \A m \in SecName : /\ sec'[m].kind = sec[m].kind /\ sec'[m].align = sec[m].align
                         /\ sec'[m].size = IF m = cur THEN Grown(n) ELSE sec[m].size
  BY <1>2, <1>3 DEF EmitBytes, UnitTypeOK, Section
<1>6. ASSUME Agree PROVE Agree'
  <2>1. Ref!SizeAfter(st, Here) = Here + n
    BY <1>1 DEF Ref!SizeAfter
  <2>2. SectionsAgree'
    BY <1>1, <1>2, <1>3, <1>5, <1>6, <2>1, SectionsGrown
  <2> QED BY <1>1, <1>3, <1>4, <1>5, <1>6, <2>2, RestAgrees DEF Agree
<1>7. StmtOKTo(prog', Len(prog'), Read')
  BY <1>1, NewOK
<1>8. Keeps
  BY <1>3, <1>6, <1>7 DEF Keeps
<1> QED BY <1>1, <1>3, <1>8, StatementSteps

\* The padding is what is missing to the next multiple.
LEMMA PaddingIs ==
  ASSUME NEW a \in Nat \ {0}, Here \in Nat
  PROVE  Ref!RoundUp(Here, a) = Here + Padding(a) /\ Padding(a) \in Nat
<1>1. Here % a \in 0 .. a - 1
  BY ModRange
<1>2. a <= 1 => Here % a = 0
  BY <1>1
<1> QED BY <1>1, <1>2 DEF Ref!RoundUp, Padding

\* .align pads to the next multiple and remembers the largest alignment.
LEMMA AlignSteps ==
  ASSUME Base, NEW a \in Aligns, Align(a), status' = "OK"
  PROVE  Steps
<1> DEFINE st == [op |-> "align", to |-> a]
<1>1. st \in StmtRecord /\ Take(st) /\ st.op = "align" /\ st.to = a /\ a \in Nat \ {0}
  BY WordsAreNat DEF StmtRecord, Align
<1> HIDE DEF st
<1>2. /\ Typed /\ work = NoWork /\ UnitTypeOK /\ Here \in Nat
      /\ prog \in Seq(StmtRecord) /\ prog' = Append(prog, st)
  BY <1>1, Taken DEF Typed, StateTypeOK, UnitTypeOK, Here, Section
<1>3. /\ AlignTo(a) /\ UNCHANGED <<sects, cur, syms, sym, fixes, errs, work>> /\ Continue
  BY GrowFailureType DEF Align, Abort, GrownStatus
<1> DEFINE al == IF a > sec[cur].align THEN a ELSE sec[cur].align
<1>4. \A m \in SecName : /\ sec'[m].kind = sec[m].kind
                         /\ sec'[m].align = IF m = cur THEN al ELSE sec[m].align
                         /\ sec'[m].size = IF m = cur THEN Grown(Padding(a)) ELSE sec[m].size
  BY <1>2, <1>3 DEF AlignTo, UnitTypeOK, Section
<1>5. ASSUME Agree PROVE Agree'
  <2>1. Ref!SizeAfter(st, Here) = Here + Padding(a) /\ Padding(a) \in Nat
    BY <1>1, <1>2, PaddingIs DEF Ref!SizeAfter
  <2>2. SectionsAgree'
    BY <1>1, <1>2, <1>3, <1>4, <1>5, <2>1, SectionsGrown
  <2>3. AlignsAgree'
    <3>1. Ref!Layout(prog)[Len(prog)].cur = cur
      BY <1>5 DEF Agree, SectionsAgree, End
    <3>2. \A m, x : x \in Ref!AlignsIn(prog', m)
                      <=> x \in Ref!AlignsIn(prog, m) \/ (x = a /\ m = cur)
      BY <1>1, <1>2, <3>1, AlignsAppend
    <3>3. \A m \in SecName : /\ sec[m].align \in {1} \cup Aligns
                             /\ \A x \in Ref!AlignsIn(prog, m) : x <= sec[m].align
      BY <1>5 DEF Agree, AlignsAgree
    <3>4. \A m, x : x \in Ref!AlignsIn(prog, m) => x \in Nat
      <4>1. ASSUME NEW k \in DOMAIN prog, prog[k].op = "align" PROVE prog[k].to \in Nat
        <5>1. prog[k] \in StmtRecord
          BY <1>2
        <5> QED BY <4>1, <5>1, StmtShape
      <4> QED BY <4>1 DEF Ref!AlignsIn
    <3>5. \A m \in SecName : sec[m].align \in Nat
      BY <1>2 DEF UnitTypeOK, Section
    <3> HIDE DEF al
    <3>6. ASSUME NEW m \in SecName, NEW x \in Ref!AlignsIn(prog', m) PROVE x <= sec'[m].align
      <4>1. x \in Nat /\ sec[m].align \in Nat
        BY <1>1, <3>2, <3>4, <3>5
      <4>2. m = cur => al >= a /\ al >= sec[m].align /\ al \in Nat
        BY <1>1, <4>1 DEF al
      <4>3. CASE x \in Ref!AlignsIn(prog, m)
        <5>1. x <= sec[m].align
          BY <3>3, <4>3
        <5> QED BY <1>4, <4>1, <4>2, <5>1
      <4>4. CASE x = a /\ m = cur
        BY <1>1, <1>4, <4>2, <4>4
      <4> QED BY <3>2, <4>3, <4>4
    <3>7. \A m \in SecName : sec'[m].align \in {1} \cup Aligns
      BY <1>4, <3>3 DEF al
    <3> QED BY <3>6, <3>7 DEF AlignsAgree
  <2>4. SymbolsAgree'
    BY <1>1, <1>3, <1>4, <1>5, SymbolsSame DEF Agree
  <2>5. GlobalsAgree'
    <3>1. \A s \in Sym : ~GlobalIn(st, Read', s) /\ sym'[s].global = sym[s].global
      BY <1>1, <1>3, NoParts
    <3> QED BY <1>1, <1>5, <3>1, GlobalsSame DEF Agree
  <2>6. FieldsAgree'
    <3>1. StmtFieldsTo(End, st, Read') = {}
      BY <1>1, NoParts
    <3> QED BY <1>1, <1>3, <1>5, <3>1, FieldsSame DEF Agree
  <2> QED BY <2>2, <2>3, <2>4, <2>5, <2>6 DEF Agree
<1>6. StmtOKTo(prog', Len(prog'), Read')
  BY <1>1, NewOK
<1>7. Keeps
  BY <1>3, <1>5, <1>6 DEF Keeps
<1> QED BY <1>1, <1>3, <1>7, StatementSteps

\* A directive that loops over arguments is an error without any, and in a
\* NOBITS section if it emits; else its loop starts at the first argument.
LEMMA DirectiveSteps ==
  ASSUME Base, NEW d \in ArgStmts, ArgDirective(d)
  PROVE  Steps
<1> DEFINE st == [op |-> "args", stmt |-> d]
           ok == StmtOKTo(prog', Len(prog'), Read')
           misplaced == d.dir # "globl" /\ InNobits
<1>1. /\ st \in StmtRecord /\ Take(st) /\ st.op = "args" /\ st.stmt = d /\ Ref!Args(st) = d.args
      /\ Continue /\ UNCHANGED unitVars
  BY DEF StmtRecord, ArgDirective, Ref!Args
<1> HIDE DEF st
<1>2. /\ Typed /\ work = NoWork /\ d \in ArgStmt /\ Len(d.args) \in Nat
      /\ prog \in Seq(StmtRecord) /\ prog' = Append(prog, st) /\ Full(prog') = Whole(st)
      /\ prog' \in Seq(StmtRecord) /\ End \in Counters /\ End' = After(End, st)
      /\ Ref!Layout(prog')[Len(prog')] = End'
  BY <1>1, Taken, StmtAssumption DEF ArgStmt
<1>3. UNCHANGED <<sects, sec, cur, syms, sym, fixes>>
  BY <1>1 DEF unitVars
<1>4. Agree => (ok <=> ArgsOK(End, st, Read'))
  BY <1>1, NewOK
<1> HIDE DEF ok
<1>5. Agree => (Ref!HoldsBytes(End) <=> ~InNobits)
  BY <1>2, BytesAgree DEF Agree
<1>6. Ref!IsDir(st, "globl") <=> d.dir = "globl"
  BY <1>1 DEF Ref!IsDir
<1>7. CASE misplaced \/ d.args = <<>>
  <2>1. ReportUnchecked
    BY <1>7 DEF ArgDirective, ReportUnchecked
  <2>2. Agree => ~ok
    BY <1>1, <1>4, <1>5, <1>6, <1>7 DEF ArgsOK
  <2>3. errs' \in {errs, errs + 1}
    BY <2>1 DEF ReportUnchecked, Report
  <2>4. Keeps
    BY <2>1, <2>2 DEF Keeps, ok, ReportUnchecked, Report
  <2> QED BY <1>1, <2>3, <2>4, StatementSteps
<1>8. CASE ~misplaced /\ d.args # <<>>
  <2>1. work' = d /\ errs' = errs
    BY <1>8 DEF ArgDirective
  <2>2. Read' = 0
    <3>1. d # NoWork
      BY <1>2 DEF ArgStmt, NoWork
    <3>2. Read' = Full(prog') - Len(d.args)
      BY <2>1, <3>1 DEF Read
    <3> QED BY <1>1, <1>2, <3>2 DEF Whole
  <2>3. \A i : i \notin 1 .. 0
    OBVIOUS
  <2>4. Agree => ok
    BY <1>1, <1>4, <1>5, <1>6, <1>8, <2>2, <2>3 DEF ArgsOK
  <2>5. ASSUME Agree PROVE Agree'
    <3>1. SectionsAgree'
      <4>1. \A m \in SecName : SizeTo(prog', 0, m) = End.size[m]
        BY <1>1, <1>2, SizeStart DEF End
      <4>2. /\ cur = End.cur
            /\ \A m \in SecName : /\ sec[m].kind = End.kind[m]
                                  /\ Exact(m) => sec[m].size = End.size[m]
        BY <1>1, <2>5, SectionsTaken DEF Agree, SectionsAgree
      <4>3. End'.cur = End.cur /\ End'.kind = End.kind
        BY <1>1, <1>2 DEF After, Counters
      <4>4. \A m \in SecName : Exact(m)' => Exact(m)
        BY <1>1, <1>3, ExactTaken
      <4> QED BY <1>3, <2>2, <4>1, <4>2, <4>3, <4>4 DEF SectionsAgree
    <3>2. AlignsAgree'
      BY <1>1, <1>3, <2>5, AlignsSame DEF Agree
    <3>3. SymbolsAgree'
      BY <1>1, <1>3, <2>5, SymbolsSame DEF Agree
    <3>4. GlobalsAgree'
      <4>1. \A s \in Sym : ~GlobalIn(st, Read', s) /\ sym'[s].global = sym[s].global
        BY <1>3, <2>2, <2>3 DEF GlobalIn
      <4> QED BY <1>1, <2>5, <4>1, GlobalsSame DEF Agree
    <3>5. FieldsAgree'
      <4>1. StmtFieldsTo(End, st, Read') = {}
        BY <1>1, <2>2, <2>3 DEF StmtFieldsTo
      <4> QED BY <1>1, <1>3, <2>5, <4>1, FieldsSame DEF Agree
    <3> QED BY <3>1, <3>2, <3>3, <3>4, <3>5 DEF Agree
  <2>6. Keeps
    BY <2>1, <2>4, <2>5 DEF Keeps, ok
  <2> QED BY <1>1, <2>1, <2>6, StatementSteps
<1> QED BY <1>7, <1>8

-----------------------------------------------------------------------------
(* The argument loops. *)

\* The argument in hand, and that the next one is then in hand or the
\* statement is read to its end.
LEMMA Reading ==
  ASSUME Base, work # NoWork, prog' = prog
  PROVE  LET st == prog[Len(prog)]
         IN /\ phase = "layout" /\ Typed
            /\ work.dir = "globl" \/ ~InNobits
            /\ prog \in Seq(StmtRecord) /\ prog # <<>> /\ st \in StmtRecord
            /\ Len(prog) # 0 /\ st.op = "args"
            /\ st.stmt.dir = work.dir /\ st.stmt.width = work.width
            /\ Read \in 0 .. Full(prog) - 1
            /\ NextArg = Ref!Args(st)[Read + 1] /\ NextArg \in Arg /\ Whole(st) = Full(prog)
            /\ Advance => Read' = Read + 1
            /\ Ref!Layout(prog)[Len(prog) - 1] \in Counters
            /\ End = After(Ref!Layout(prog)[Len(prog) - 1], st)
<1> DEFINE st == prog[Len(prog)]
           n  == Len(work.args)
<1>1. /\ Typed /\ LoopInBytes /\ LoopInv
  BY DEF Base, PlacedInv
<1>2. /\ phase = "layout" /\ prog # <<>> /\ prog \in Seq(StmtRecord)
      /\ st.op = "args" /\ st.stmt.dir = work.dir /\ st.stmt.width = work.width
      /\ n <= Whole(st)
      /\ \A i \in 1 .. n : work.args[i] = Ref!Args(st)[Whole(st) - n + i]
  BY <1>1 DEF LoopInv, Typed
<1>3. Len(prog) \in 1 .. Len(prog) /\ Len(prog) # 0 /\ st \in StmtRecord
  BY <1>2, EmptySeq, LenProperties, ElementOfSeq
<1>4. Whole(st) \in Nat /\ Full(prog) = Whole(st)
  BY <1>2, <1>3, StmtShape DEF Whole, Full
<1>5. work \in ArgStmt /\ work.args \in Seq(Arg) /\ n \in Nat \ {0} /\ work.args # <<>>
  BY <1>1, EmptySeq DEF Typed, StateTypeOK, LoopHasArg, ArgStmt
<1>6. NextArg = work.args[1] /\ NextArg \in Arg
  BY <1>5, HeadTailProperties DEF NextArg
<1> HIDE DEF st
<1>7. Read = Whole(st) - n /\ Read \in 0 .. Full(prog) - 1
  BY <1>2, <1>4, <1>5 DEF Read
<1>8. work.args[1] = Ref!Args(st)[Whole(st) - n + 1]
  BY <1>2, <1>5
<1>9. ASSUME Advance PROVE Read' = Read + 1
  <2>1. CASE n = 1
    <3>1. work' = NoWork
      BY <1>9, <2>1 DEF Advance
    <3>2. Read' = Full(prog)
      BY <3>1 DEF Read
    <3> QED BY <1>4, <1>7, <2>1, <3>2
  <2>2. CASE n # 1
    <3>1. work' = [work EXCEPT !.args = Tail(work.args)]
      BY <1>9, <2>2 DEF Advance
    <3>2. work'.args = Tail(work.args) /\ work'.dir = work.dir
      BY <1>5, <3>1 DEF ArgStmt
    <3>3. Len(work'.args) = n - 1
      BY <1>5, <3>2, HeadTailProperties
    <3>4. work' # NoWork
      BY <1>5, <3>2 DEF ArgStmt, NoWork
    <3>5. Read' = Full(prog) - Len(work'.args)
      BY <3>4 DEF Read
    <3> QED BY <1>4, <1>5, <1>7, <3>3, <3>5
  <2> QED BY <2>1, <2>2
<1>10. /\ Ref!Layout(prog)[Len(prog) - 1] \in Counters
       /\ End = After(Ref!Layout(prog)[Len(prog) - 1], st)
  <2>1. Len(prog) - 1 \in 0 .. Len(prog)
    BY <1>3
  <2> QED BY <1>2, <1>3, <2>1, LayoutIs DEF End, st
<1>11. work.dir = "globl" \/ ~InNobits
  BY <1>1 DEF LoopInBytes
<1> QED BY <1>1, <1>2, <1>3, <1>4, <1>6, <1>7, <1>8, <1>9, <1>10, <1>11 DEF st

\* It is enough to look at the part of the argument.
ArgKeeps ==
  Agree => \/ Ref!ArgOK(prog[Len(prog)], NextArg) /\ Agree' /\ errs' = errs
           \/ ~Ref!ArgOK(prog[Len(prog)], NextArg) /\ (errs' = errs + 1 \/ AllocMayFail)

\* The same for an argument of a directive.
LEMMA ArgumentSteps ==
  ASSUME Base, work # NoWork, prog' = prog, Advance, Continue,
         errs' \in {errs, errs + 1}, ArgKeeps
  PROVE  Steps
<1> DEFINE st == prog[Len(prog)]
<1>1. /\ phase = "layout" /\ prog \in Seq(StmtRecord) /\ Len(prog) # 0 /\ st.op = "args"
      /\ Read \in 0 .. Full(prog) - 1 /\ Read' = Read + 1
      /\ NextArg = Ref!Args(st)[Read + 1]
  BY Reading
<1>2. next = 1 /\ next' = 1 /\ errs \in Nat
  BY <1>1 DEF Base, PlacedInv, Typed, StateTypeOK, Continue, resolveVars
<1>3. InRangeSoFar /\ InRangeSoFar'
  BY <1>2 DEF InRangeSoFar
<1>4. OKTo(prog, Read + 1) <=> OKTo(prog, Read) /\ Ref!ArgOK(st, NextArg)
  BY <1>1, ReadArgument
<1>5. /\ ReadOK' <=> ReadOK /\ Ref!ArgOK(st, NextArg)
      /\ Good <=> ReadOK
      /\ Good' <=> ReadOK'
  BY <1>1, <1>3, <1>4 DEF Good, ReadOK
<1>6. Fits' <=> Fits
  BY DEF Fits, End
<1>7. errs' = 0 => errs = 0
  BY <1>2
<1>8. errs' = errs + 1 => errs' # 0
  BY <1>2
<1> QED BY <1>5, <1>6, <1>7, <1>8 DEF Steps, ArgKeeps

\* The sections after an argument was emitted.
LEMMA SectionsNext ==
  ASSUME Base, work # NoWork, prog' = prog, Advance, SectionsAgree, cur' = cur,
         \A m \in SecName :
           /\ sec'[m].kind = sec[m].kind
           /\ sec'[m].size = IF m = cur
                             THEN sec[m].size + Ref!ArgBytes(prog[Len(prog)], Read + 1)
                             ELSE sec[m].size
  PROVE  SectionsAgree'
<1>1. /\ prog \in Seq(StmtRecord) /\ prog # <<>> /\ prog[Len(prog)].op = "args"
      /\ Read \in 0 .. Full(prog) - 1 /\ Read' = Read + 1
  BY Reading
<1>2. cur = End.cur /\ End' = End
      /\ \A m \in SecName : /\ sec[m].kind = End.kind[m]
                            /\ Exact(m) => sec[m].size = SizeTo(prog, Read, m)
  BY DEF SectionsAgree, End
<1>3. \A m \in SecName : Exact(m)' => Exact(m)
  BY <1>2 DEF Exact, Fits
<1>4. \A m \in SecName : SizeTo(prog, Read + 1, m) =
        IF m = End.cur THEN SizeTo(prog, Read, m) + Ref!ArgBytes(prog[Len(prog)], Read + 1)
        ELSE SizeTo(prog, Read, m)
  BY <1>1, SizeNext DEF End
<1>5. \A m \in SecName : Exact(m)' => sec'[m].size = SizeTo(prog, Read + 1, m)
  BY <1>2, <1>4, <1>3
<1>6. cur' = End'.cur /\ \A m \in SecName : sec'[m].kind = End'.kind[m]
  BY <1>2
<1>7. \A m \in SecName : SizeTo(prog', Read', m) = SizeTo(prog, Read + 1, m)
  BY <1>1
<1> QED BY <1>5, <1>6, <1>7 DEF SectionsAgree

\* The fields and global symbols read so far, with the argument in hand.
LEMMA PartsNext ==
  ASSUME Base, work # NoWork, prog' = prog, Advance
  PROVE  /\ FieldsTo(prog', Read') = FieldsTo(prog, Read) \cup
              (IF work.dir = "ints" /\ NextArg.kind = "sym"
               THEN {DatumField(Ref!Layout(prog)[Len(prog) - 1], prog[Len(prog)], Read + 1)}
               ELSE {})
         /\ \A s \in Sym : s \in GlobalsTo(prog', Read')
              <=> \/ s \in GlobalsTo(prog, Read)
                  \/ work.dir = "globl" /\ NextArg.kind = "sym" /\ NextArg.sym = s
<1> DEFINE st == prog[Len(prog)]
           u == Ref!Layout(prog)[Len(prog) - 1]
<1>1. /\ prog \in Seq(StmtRecord) /\ Len(prog) # 0 /\ st.op = "args"
      /\ st.stmt.dir = work.dir /\ Read \in 0 .. Full(prog) - 1 /\ Read' = Read + 1
      /\ NextArg = Ref!Args(st)[Read + 1]
  BY Reading
<1>2. /\ FieldsTo(prog, Read + 1) = FieldsTo(prog, Read) \cup
           (IF Ref!IsDir(st, "ints") /\ NextArg.kind = "sym" THEN {DatumField(u, st, Read + 1)} ELSE {})
      /\ \A s \in Sym : s \in GlobalsTo(prog, Read + 1)
           <=> \/ s \in GlobalsTo(prog, Read)
               \/ Ref!IsDir(st, "globl") /\ NextArg.kind = "sym" /\ NextArg.sym = s
  BY <1>1, ReadArgument
<1>3. /\ Ref!IsDir(st, "ints") <=> work.dir = "ints"
      /\ Ref!IsDir(st, "globl") <=> work.dir = "globl"
  BY <1>1 DEF Ref!IsDir
<1> QED BY <1>1, <1>2, <1>3

\* What an argument that is no symbol, or makes none global, leaves alone.
LEMMA OthersNext ==
  ASSUME Base, work # NoWork, prog' = prog, Advance, Agree
  PROVE  /\ (\A m \in SecName : sec'[m].align = sec[m].align) => AlignsAgree'
         /\ /\ \A m \in SecName : sec'[m].kind = sec[m].kind
            /\ \A s \in Sym : /\ sym'[s].section = sym[s].section
                              /\ RefOf(sym'[s]) = RefOf(sym[s])
                              /\ ValueOf(sym'[s]) = ValueOf(sym[s])
            => SymbolsAgree'
         /\ work.dir # "globl" \/ NextArg.kind # "sym"
            => (sym' = sym => GlobalsAgree')
         /\ work.dir # "ints" \/ NextArg.kind # "sym"
            => (fixes' = fixes => FieldsAgree')
<1>1. (\A m \in SecName : sec'[m].align = sec[m].align) => AlignsAgree'
  BY DEF Agree, AlignsAgree
<1>2. ASSUME \A m \in SecName : sec'[m].kind = sec[m].kind,
             \A s \in Sym : /\ sym'[s].section = sym[s].section
                            /\ RefOf(sym'[s]) = RefOf(sym[s])
                            /\ ValueOf(sym'[s]) = ValueOf(sym[s])
      PROVE  SymbolsAgree'
  <2>1. Typed
    BY DEF Base, PlacedInv
  <2>2. \A s \in Sym : sym[s].section \in SecName
    BY <2>1 DEF Typed, StateTypeOK, UnitTypeOK, Symbol
  <2>3. \A m \in SecName : (Fits' \/ sec'[m].kind # "NOBITS") <=> Exact(m)
    BY <1>2 DEF Exact, Fits, End
  <2> QED BY <1>2, <2>2, <2>3 DEF Agree, SymbolsAgree, Exact
<1>3. ASSUME work.dir # "globl" \/ NextArg.kind # "sym", sym' = sym PROVE GlobalsAgree'
  <2>1. \A s \in Sym : s \in GlobalsTo(prog', Read') <=> s \in GlobalsTo(prog, Read)
    BY <1>3, PartsNext
  <2> QED BY <1>3, <2>1 DEF Agree, GlobalsAgree
<1>4. ASSUME work.dir # "ints" \/ NextArg.kind # "sym", fixes' = fixes PROVE FieldsAgree'
  <2>1. FieldsTo(prog', Read') = FieldsTo(prog, Read)
    BY <1>4, PartsNext
  <2> QED BY <1>4, <2>1 DEF Agree, FieldsAgree
<1> QED BY <1>1, <1>2, <1>3, <1>4

\* Validity and size of an argument, by directive.
LEMMA ArgOKIs ==
  ASSUME NEW st, st.op = "args", NEW a, NEW j
  PROVE  /\ st.stmt.dir = "ints" =>
              /\ Ref!ArgOK(st, a) <=> \/ a.kind = "int"
                                      \/ a.kind = "wide" /\ st.stmt.width = 8
                                      \/ a.kind = "sym" /\ st.stmt.width \in {4, 8}
              /\ Ref!ArgBytes(st, j) = st.stmt.width
         /\ st.stmt.dir = "strings" =>
              /\ Ref!ArgOK(st, a) <=> a.kind = "string"
              /\ Ref!ArgBytes(st, j) = Ref!Args(st)[j].len + st.stmt.width
         /\ st.stmt.dir = "globl" =>
              /\ Ref!ArgOK(st, a) <=> a.kind = "sym"
              /\ Ref!ArgBytes(st, j) = 0
<1>1. \A dir : Ref!IsDir(st, dir) <=> st.stmt.dir = dir
  BY DEF Ref!IsDir
<1>2. CASE st.stmt.dir = "ints"
  <2>1. Ref!IsDir(st, "ints") /\ ~Ref!IsDir(st, "strings") /\ ~Ref!IsDir(st, "globl")
    BY <1>1, <1>2
  <2> QED BY <1>2, <2>1 DEF Ref!ArgOK, Ref!ArgBytes
<1>3. CASE st.stmt.dir = "strings"
  <2>1. ~Ref!IsDir(st, "ints") /\ Ref!IsDir(st, "strings") /\ ~Ref!IsDir(st, "globl")
    BY <1>1, <1>3
  <2> QED BY <1>3, <2>1 DEF Ref!ArgOK, Ref!ArgBytes
<1>4. CASE st.stmt.dir = "globl"
  <2>1. ~Ref!IsDir(st, "ints") /\ ~Ref!IsDir(st, "strings") /\ Ref!IsDir(st, "globl")
    BY <1>1, <1>4
  <2> QED BY <1>4, <2>1 DEF Ref!ArgOK, Ref!ArgBytes
<1> QED BY <1>2, <1>3, <1>4

\* A rejected argument is an error, and a wrong one.
LEMMA RejectSteps ==
  ASSUME Base, work # NoWork, prog' = prog, RejectArg,
         ~Ref!ArgOK(prog[Len(prog)], NextArg)
  PROVE  Steps
<1>1. Advance /\ Continue /\ errs' = errs + 1
  BY DEF RejectArg, Report
<1>2. ArgKeeps
  BY <1>1 DEF ArgKeeps
<1> QED BY <1>1, <1>2, ArgumentSteps

\* An emitted argument adds its bytes and the fixup of its field.
LEMMA EmitArgSteps ==
  ASSUME Base, work # NoWork, prog' = prog, work.dir # "globl",
         NEW n \in Nat, n = Ref!ArgBytes(prog[Len(prog)], Read + 1),
         NEW f \in Seq(Fix), EmitArg(n, f), status' = "OK",
         Ref!ArgOK(prog[Len(prog)], NextArg),
         Agree => Matches(f, IF work.dir = "ints" /\ NextArg.kind = "sym"
                             THEN {DatumField(Ref!Layout(prog)[Len(prog) - 1],
                                              prog[Len(prog)], Read + 1)}
                             ELSE {})
  PROVE  Steps
<1> DEFINE st == prog[Len(prog)]
           u == Ref!Layout(prog)[Len(prog) - 1]
           N == IF work.dir = "ints" /\ NextArg.kind = "sym" THEN {DatumField(u, st, Read + 1)}
                ELSE {}
<1>1. /\ EmitBytes(n) /\ fixes' = fixes \o f /\ Advance /\ Continue
      /\ UNCHANGED <<sects, cur, syms, sym, errs>>
  BY GrowFailureType DEF EmitArg, Abort, GrownStatus
<1>2. /\ Typed /\ ~InNobits /\ prog \in Seq(StmtRecord) /\ Len(prog) # 0 /\ st.op = "args"
      /\ st.stmt.dir = work.dir /\ Read \in 0 .. Full(prog) - 1 /\ Read' = Read + 1
      /\ NextArg = Ref!Args(st)[Read + 1]
  BY <1>1, Reading
<1>3. UnitTypeOK /\ sec \in [SecName -> Section] /\ fixes \in Seq(Fix)
  BY <1>2 DEF Typed, StateTypeOK, UnitTypeOK
<1>4. \A m \in SecName : /\ sec'[m].kind = sec[m].kind /\ sec'[m].align = sec[m].align
                         /\ sec'[m].size = IF m = cur THEN sec[m].size + n ELSE sec[m].size
  BY <1>1, <1>2, <1>3 DEF EmitBytes, Grown, Here, Section
<1>5. ASSUME Agree PROVE Agree'
  <2>1. SectionsAgree'
    BY <1>1, <1>4, <1>5, SectionsNext DEF Agree
  <2>2. AlignsAgree' /\ SymbolsAgree' /\ GlobalsAgree'
    BY <1>1, <1>4, <1>5, OthersNext
  <2>3. FieldsAgree'
    <3>1. FieldsTo(prog', Read') = FieldsTo(prog, Read) \cup N
      BY <1>1, PartsNext
    <3>2. Matches(f, N)
      BY <1>5
    <3> HIDE DEF N
    <3>3. Matches(fixes, FieldsTo(prog, Read))
      BY <1>5 DEF Agree, FieldsAgree
    <3>4. Matches(fixes \o f, FieldsTo(prog, Read) \cup N)
      BY <1>3, <3>2, <3>3, MatchesMore
    <3> QED BY <1>1, <3>1, <3>4 DEF FieldsAgree
  <2> QED BY <2>1, <2>2, <2>3 DEF Agree
<1>6. ArgKeeps
  BY <1>1, <1>5 DEF ArgKeeps
<1> QED BY <1>1, <1>6, ArgumentSteps

\* An integer or a symbol of a data directive.
LEMMA IntsSteps ==
  ASSUME Base, IntsArg, status' = "OK"
  PROVE  Steps
<1> DEFINE st == prog[Len(prog)]
           u == Ref!Layout(prog)[Len(prog) - 1]
           w == work.width
           a == NextArg
<1>1. work.dir = "ints" /\ work # NoWork /\ prog' = prog
  BY DEF IntsArg, NoWork
<1>2. /\ Typed /\ ~InNobits /\ prog \in Seq(StmtRecord) /\ st.op = "args" /\ st \in StmtRecord
      /\ st.stmt.dir = "ints" /\ st.stmt.width = w
      /\ a = Ref!Args(st)[Read + 1] /\ a \in Arg /\ prog # <<>> /\ Read \in 0 .. Full(prog) - 1
      /\ End = After(u, st) /\ u \in Counters
  BY <1>1, Reading
<1> HIDE DEF st, u
<1>3. w \in Nat /\ w = Ref!ArgBytes(st, Read + 1)
  BY <1>2, StmtShape, ArgOKIs
<1>4. Ref!ArgOK(st, a) <=> \/ a.kind = "int"
                           \/ a.kind = "wide" /\ w = 8
                           \/ a.kind = "sym" /\ w \in {4, 8}
  BY <1>2, ArgOKIs
<1> HIDE DEF w, a
<1>5. CASE IntFits(a, w)
  <2>1. EmitArg(w, <<>>)
    BY <1>5 DEF IntsArg, IntFits, a, w
  <2>2. Ref!ArgOK(st, a) /\ a.kind # "sym"
    BY <1>4, <1>5 DEF IntFits
  <2>3. <<>> \in Seq(Fix)
    OBVIOUS
  <2>4. Matches(<<>>, IF work.dir = "ints" /\ NextArg.kind = "sym"
                      THEN {DatumField(u, st, Read + 1)} ELSE {})
    BY <2>2, MatchesNone DEF a
  <2> QED BY <1>1, <1>3, <2>1, <2>2, <2>3, <2>4, EmitArgSteps DEF a, st, u
<1>6. CASE a.kind = "sym" /\ w \in {4, 8}
  <2> DEFINE fx == FixOf([offset |-> 0, sym |-> a.sym, addend |-> 0,
                          kind   |-> IF w = 8 THEN "ABS64" ELSE "ABS32"])
             f  == DatumField(u, st, Read + 1)
  <2>1. EmitArg(w, <<fx>>)
    BY <1>6 DEF IntsArg, IntFits, a, w
  <2>2. Ref!ArgOK(st, a)
    BY <1>4, <1>6
  <2>3. <<fx>> \in Seq(Fix) /\ fx \in Fix
    <3>1. Here \in Nat /\ cur \in SecName /\ a.sym \in Sym
      BY <1>2 DEF Typed, StateTypeOK, UnitTypeOK, Here, Section, Arg
    <3>2. fx \in Fix
      BY <3>1 DEF FixOf, Fix, FixKind
    <3> HIDE DEF fx
    <3> QED BY <3>2
  <2>4. ASSUME Agree PROVE Describes(fx, f)
    <3>1. u.cur = cur /\ u.size[cur] \in Nat
      BY <1>2, <2>4 DEF Agree, SectionsAgree, After, Counters
    <3>2. Here = u.size[cur] + Ref!ArgOffset(st, Read + 1)
      <4>1. sec[cur].size = SizeTo(prog, Read, cur) /\ cur = End.cur
        BY <1>2, <2>4, <3>1 DEF Agree, SectionsAgree, Counters, Exact, InNobits
      <4> QED BY <1>2, <4>1 DEF SizeTo, Here, End, st, u
    <3>3. Here \in Nat
      BY <1>2 DEF Typed, StateTypeOK, UnitTypeOK, Here, Section
    <3>4. /\ fx.sec = cur /\ fx.offset = Here /\ fx.sym = a.sym /\ fx.addend = 0
          /\ fx.kind = IF w = 8 THEN "ABS64" ELSE "ABS32"
      BY <3>3 DEF FixOf
    <3>5. /\ f.sec = cur /\ f.offset = Here /\ f.sym = a.sym /\ f.width = w /\ f.pc = FALSE
          /\ f.add = 0 /\ f.after = u.size[cur]
      BY <1>2, <3>1, <3>2 DEF DatumField, Ref!SymField
    <3> HIDE DEF fx, f
    <3> QED BY <1>6, <3>1, <3>4, <3>5 DEF Describes, FieldWidth
  <2> HIDE DEF fx, f
  <2>5. Agree => Matches(<<fx>>, {f})
    BY <2>3, <2>4, MatchesOne
  <2>6. Agree => Matches(<<fx>>, IF work.dir = "ints" /\ NextArg.kind = "sym"
                                 THEN {DatumField(u, st, Read + 1)} ELSE {})
    BY <1>1, <1>6, <2>5 DEF a, f
  <2> QED BY <1>1, <1>3, <2>1, <2>2, <2>3, <2>6, EmitArgSteps DEF a, st, u
<1>7. CASE ~IntFits(a, w) /\ ~(a.kind = "sym" /\ w \in {4, 8})
  <2>1. RejectArg
    BY <1>7 DEF IntsArg, a, w
  <2>2. ~Ref!ArgOK(st, a)
    BY <1>4, <1>7 DEF IntFits
  <2> QED BY <1>1, <2>1, <2>2, RejectSteps DEF a, st
<1> QED BY <1>5, <1>6, <1>7

\* A string is emitted even if it has a malformed escape, which is an error.
LEMMA StringsSteps ==
  ASSUME Base, StringsArg, status' = "OK"
  PROVE  Steps
<1> DEFINE st == prog[Len(prog)]
           u == Ref!Layout(prog)[Len(prog) - 1]
           n == NextArg.len + work.width
<1>1. work.dir = "strings" /\ work # NoWork /\ prog' = prog
  BY DEF StringsArg, NoWork
<1>2. /\ st.op = "args" /\ st \in StmtRecord /\ st.stmt.dir = "strings"
      /\ st.stmt.width = work.width /\ NextArg = Ref!Args(st)[Read + 1] /\ NextArg \in Arg
  BY <1>1, Reading
<1> HIDE DEF st, u
<1>3. n \in Nat /\ n = Ref!ArgBytes(st, Read + 1)
  BY <1>2, StmtShape, ArgOKIs DEF Arg
<1>4. Ref!ArgOK(st, NextArg) <=> NextArg.kind = "string"
  BY <1>2, ArgOKIs
<1>5. CASE NextArg.kind = "string"
  <2>1. EmitArg(n, <<>>)
    BY <1>5 DEF StringsArg
  <2>2. <<>> \in Seq(Fix)
    OBVIOUS
  <2>3. Matches(<<>>, IF work.dir = "ints" /\ NextArg.kind = "sym"
                      THEN {DatumField(u, st, Read + 1)} ELSE {})
    BY <1>1, MatchesNone
  <2> HIDE DEF n
  <2> QED BY <1>1, <1>3, <1>4, <1>5, <2>1, <2>2, <2>3, EmitArgSteps DEF st, u
<1>6. CASE NextArg.kind = "escape"
  <2>1. ReportUnchecked /\ Advance /\ Continue
    BY <1>6, GrowFailureType DEF StringsArg, Abort, GrownStatus
  <2>2. errs' \in {errs, errs + 1}
    BY <2>1 DEF ReportUnchecked, Report
  <2>3. ArgKeeps
    BY <1>4, <1>6, <2>1 DEF ArgKeeps, ReportUnchecked, Report, st
  <2> QED BY <1>1, <2>1, <2>2, <2>3, ArgumentSteps
<1>7. CASE NextArg.kind \notin {"string", "escape"}
  <2>1. RejectArg
    BY <1>7 DEF StringsArg
  <2> QED BY <1>1, <1>4, <1>7, <2>1, RejectSteps DEF st
<1> QED BY <1>5, <1>6, <1>7

\* A .globl argument makes its symbol global, whatever else is known of it.
LEMMA GloblSteps ==
  ASSUME Base, GloblArg, status' = "OK"
  PROVE  Steps
<1> DEFINE st == prog[Len(prog)]
           s  == NextArg.sym
           r  == [Intern(s) EXCEPT !.global = TRUE]
<1>1. work.dir = "globl" /\ work # NoWork /\ prog' = prog
  BY DEF GloblArg, NoWork
<1>2. /\ Typed /\ st.op = "args" /\ st \in StmtRecord /\ st.stmt.dir = "globl"
      /\ NextArg = Ref!Args(st)[Read + 1] /\ NextArg \in Arg
  BY <1>1, Reading
<1> HIDE DEF st
<1>3. Ref!ArgOK(st, NextArg) <=> NextArg.kind = "sym"
  BY <1>2, ArgOKIs
<1>4. CASE NextArg.kind = "sym"
  <2>1. /\ Store(s, r) /\ Advance /\ Continue
        /\ UNCHANGED <<sects, sec, cur, fixes, errs>>
    BY <1>4 DEF GloblArg
  <2>2. s \in Sym /\ sym \in [Sym -> Symbol] /\ sym[s] \in Symbol /\ Intern(s) \in Symbol
    BY <1>2, InternType DEF Typed, StateTypeOK, UnitTypeOK, Arg
  <2>3. /\ Intern(s).section = sym[s].section /\ Intern(s).value = sym[s].value
        /\ Intern(s).where = IF sym[s].where = "none" THEN "UNDEF" ELSE sym[s].where
    BY <2>2 DEF Intern, Interned, Symbol
  <2>4. /\ r.section = sym[s].section /\ r.value = sym[s].value /\ r.global = TRUE
        /\ r.where = IF sym[s].where = "none" THEN "UNDEF" ELSE sym[s].where
    BY <2>2, <2>3 DEF Symbol
  <2>5. \A t \in Sym : sym'[t] = IF t = s THEN r ELSE sym[t]
    BY <2>1, <2>2 DEF Store
  <2> HIDE DEF r, s
  <2>6. ASSUME Agree PROVE Agree'
    <3>1. SectionsAgree'
      <4>1. Ref!ArgBytes(st, Read + 1) = 0
        BY <1>2, ArgOKIs
      <4>2. \A m \in SecName : sec[m].size \in Nat
        BY <1>2 DEF Typed, StateTypeOK, UnitTypeOK, Section
      <4>3. \A m \in SecName : sec[m].size = sec[m].size + Ref!ArgBytes(st, Read + 1)
        BY <4>1, <4>2
      <4> QED BY <1>1, <2>1, <2>6, <4>3, SectionsNext DEF Agree, st
    <3>2. AlignsAgree'
      BY <1>1, <2>1, <2>6, OthersNext
    <3>3. SymbolsAgree'
      <4>1. \A t \in Sym : /\ sym'[t].section = sym[t].section
                           /\ RefOf(sym'[t]) = RefOf(sym[t])
                           /\ ValueOf(sym'[t]) = ValueOf(sym[t])
        BY <2>4, <2>5 DEF RefOf, ValueOf
      <4> QED BY <1>1, <2>1, <2>6, <4>1, OthersNext
    <3>4. GlobalsAgree'
      <4>1. \A t \in Sym : t \in GlobalsTo(prog', Read') <=> t \in GlobalsTo(prog, Read) \/ s = t
        BY <1>1, <1>4, <2>1, PartsNext DEF s
      <4> QED BY <2>4, <2>5, <2>6, <4>1 DEF Agree, GlobalsAgree
    <3>5. FieldsAgree'
      BY <1>1, <2>1, <2>6, OthersNext
    <3> QED BY <3>1, <3>2, <3>3, <3>4, <3>5 DEF Agree
  <2>7. ArgKeeps
    BY <1>3, <1>4, <2>1, <2>6 DEF ArgKeeps, st
  <2> QED BY <1>1, <2>1, <2>7, ArgumentSteps
<1>5. CASE NextArg.kind # "sym"
  <2>1. RejectArg
    BY <1>5 DEF GloblArg
  <2> QED BY <1>1, <1>3, <1>5, <2>1, RejectSteps DEF st
<1> QED BY <1>4, <1>5

-----------------------------------------------------------------------------
(* Pass 3. *)

\* Records that mean the same and bind the same.
SameRecords == \A s \in Sym : /\ sym'[s].section = sym[s].section
                              /\ RefOf(sym'[s]) = RefOf(sym[s])
                              /\ ValueOf(sym'[s]) = ValueOf(sym[s])
                              /\ sym'[s].global = sym[s].global

\* Passes 3a and 3b touch neither the output nor the source, and of a symbol
\* only that it is known and referenced.
LEMMA PassThreeKeeps ==
  ASSUME Typed,
         EndOfSource \/ PatchLocal \/ OutOfRange \/ Relocate \/ EndResolve
           \/ BuildObject \/ UNCHANGED vars,
         status' = "OK"
  PROVE  UNCHANGED <<sects, sec, cur, fixes, prog, work>> /\ SameRecords
<1>1. UNCHANGED sym => SameRecords
  BY DEF SameRecords
<1>2. CASE PatchLocal
  <2>1. UNCHANGED <<unitVars, prog, work>>
    BY <1>2 DEF PatchLocal, Abort
  <2> QED BY <1>1, <2>1 DEF unitVars
<1>3. CASE Relocate
  <2> DEFINE s == fixes[next].sym
             r == [Intern(s) EXCEPT !.referenced = TRUE]
  <2>1. Store(s, r) /\ UNCHANGED <<sects, sec, cur, fixes, prog, work>>
        /\ next \in 1 .. Len(fixes) /\ fixes \in Seq(Fix)
    BY <1>3 DEF Relocate, Resolving, Typed, StateTypeOK, UnitTypeOK
  <2>2. s \in Sym
    <3>1. fixes[next] \in Fix
      BY <2>1, ElementOfSeq
    <3> QED BY <3>1 DEF Fix
  <2>3. sym \in [Sym -> Symbol] /\ sym[s] \in Symbol /\ Intern(s) \in Symbol
    BY <2>2, InternType DEF Typed, StateTypeOK, UnitTypeOK
  <2> HIDE DEF s
  <2>4. /\ Intern(s).section = sym[s].section /\ Intern(s).value = sym[s].value
        /\ Intern(s).global = sym[s].global
        /\ Intern(s).where = IF sym[s].where = "none" THEN "UNDEF" ELSE sym[s].where
    BY <2>3 DEF Intern, Interned, Symbol
  <2>5. /\ r.section = sym[s].section /\ r.value = sym[s].value /\ r.global = sym[s].global
        /\ r.where = IF sym[s].where = "none" THEN "UNDEF" ELSE sym[s].where
    BY <2>3, <2>4 DEF Symbol
  <2>6. \A t \in Sym : sym'[t] = IF t = s THEN r ELSE sym[t]
    BY <2>1, <2>3 DEF Store
  <2> HIDE DEF r
  <2> QED BY <2>1, <2>5, <2>6 DEF SameRecords, RefOf, ValueOf
<1>4. CASE EndOfSource \/ OutOfRange \/ EndResolve \/ BuildObject \/ UNCHANGED vars
  <2>1. UNCHANGED <<unitVars, prog, work>>
    BY <1>4 DEF EndOfSource, OutOfRange, EndResolve, BuildObject, vars
  <2> QED BY <1>1, <2>1 DEF unitVars
<1> QED BY <1>2, <1>3, <1>4

\* Whether a fixup is resolved here, and to what, depends on no more.
LEMMA SameDistances ==
  ASSUME Typed, UNCHANGED fixes, SameRecords, NEW k \in 1 .. Len(fixes)
  PROVE  /\ ResolvesLocally(fixes[k])' <=> ResolvesLocally(fixes[k])
         /\ ResolvesLocally(fixes[k]) => Distance(fixes[k])' = Distance(fixes[k])
<1>1. fixes[k] \in Fix /\ fixes' = fixes
  BY ElementOfSeq DEF Typed, StateTypeOK, UnitTypeOK
<1>2. fixes[k].sym \in Sym
  BY <1>1 DEF Fix
<1> DEFINE s == fixes[k].sym
<1>3. /\ sym'[s].section = sym[s].section /\ RefOf(sym'[s]) = RefOf(sym[s])
      /\ ValueOf(sym'[s]) = ValueOf(sym[s]) /\ sym'[s].global = sym[s].global
  BY <1>2 DEF SameRecords
<1>4. /\ sym'[s].where = "SECTION" <=> sym[s].where = "SECTION"
      /\ sym[s].where = "SECTION" => sym'[s].value = sym[s].value
  BY <1>3 DEF RefOf, ValueOf
<1> QED BY <1>1, <1>3, <1>4 DEF ResolvesLocally, Distance

\* Agreement survives a step that changes nothing it speaks of.
LEMMA SameAgree ==
  ASSUME Agree, UNCHANGED <<sec, cur, fixes, prog, work>>, SameRecords
  PROVE  Agree'
<1>1. Read' = Read /\ End' = End
  BY DEF Read, End
<1>2. \A n : (Fits' \/ sec'[n].kind # "NOBITS") <=> Exact(n)
  BY <1>1 DEF Exact, Fits
<1>3. SectionsAgree' /\ AlignsAgree'
  BY <1>1, <1>2 DEF Agree, SectionsAgree, AlignsAgree, Exact
<1>4. SymbolsAgree' /\ GlobalsAgree'
  <2>1. GlobalsAgree'
    BY <1>1 DEF Agree, GlobalsAgree, SameRecords
  <2>2. \A s \in Sym :
          LET m == Ref!Meaning(prog, s)
          IN /\ m.ref = RefOf(sym'[s]) /\ m.section = sym'[s].section
             /\ (m.ref = "SECTION" => Exact(m.section)) => m.value = ValueOf(sym'[s])
    BY DEF Agree, SymbolsAgree, SameRecords
  <2> QED BY <1>2, <2>1, <2>2 DEF SymbolsAgree, Exact
<1>5. FieldsAgree'
  BY <1>1 DEF Agree, FieldsAgree
<1> QED BY <1>3, <1>4, <1>5 DEF Agree

\* Resolving a fixup is an error exactly if its distance is out of range.
LEMMA PassThreeSteps ==
  ASSUME Base,
         EndOfSource \/ PatchLocal \/ OutOfRange \/ Relocate \/ EndResolve
           \/ BuildObject \/ UNCHANGED vars,
         status' = "OK"
  PROVE  Steps
<1>1. Typed /\ errs \in Nat /\ next \in Nat \ {0} /\ Len(fixes) \in Nat
  BY DEF Base, PlacedInv, Typed, StateTypeOK, UnitTypeOK
<1>2. UNCHANGED <<sec, cur, fixes, prog, work>> /\ SameRecords
  BY <1>1, PassThreeKeeps
<1>3. Agree => Agree'
  BY <1>2, SameAgree
<1>4. (Fits' <=> Fits) /\ (ReadOK' <=> ReadOK)
  BY <1>2 DEF Fits, End, Read, ReadOK
<1> DEFINE Same(k) == /\ ResolvesLocally(fixes[k])' <=> ResolvesLocally(fixes[k])
                      /\ ResolvesLocally(fixes[k]) => Distance(fixes[k])' = Distance(fixes[k])
<1>5. CASE UNCHANGED next
  <2>1. UNCHANGED <<sym, errs>>
    BY <1>1, <1>5 DEF EndOfSource, PatchLocal, Abort, OutOfRange, Relocate, EndResolve,
        BuildObject, vars, unitVars, resolveVars
  <2>2. \A k : Same(k)
    BY <1>2, <2>1 DEF ResolvesLocally, Distance
  <2>3. InRangeSoFar' <=> InRangeSoFar
    BY <1>5, <2>2 DEF InRangeSoFar, InRange
  <2> QED BY <1>3, <1>4, <2>1, <2>3 DEF Steps, Good
<1>6. CASE ~UNCHANGED next
  <2>1. /\ next' = next + 1 /\ next <= Len(fixes)
        /\ \/ /\ UNCHANGED errs
              /\ ResolvesLocally(fixes[next]) => InRange(Distance(fixes[next]))
           \/ /\ errs' = errs + 1
              /\ ResolvesLocally(fixes[next]) /\ ~InRange(Distance(fixes[next]))
    BY <1>6 DEF EndOfSource, PatchLocal, Abort, OutOfRange, Relocate, EndResolve,
        BuildObject, vars, resolveVars, Resolving, Report
  <2>2. \A k \in 1 .. Len(fixes) : Same(k)
    BY <1>1, <1>2, SameDistances
  <2> HIDE DEF Same
  <2>3. /\ \A k \in 1 .. next' - 1 : k \in 1 .. Len(fixes) /\ (k \in 1 .. next - 1 \/ k = next)
        /\ \A k \in 1 .. next - 1 : k \in 1 .. next' - 1
        /\ next \in 1 .. next' - 1
    BY <1>1, <2>1
  <2> DEFINE in(k) == ResolvesLocally(fixes[k]) => InRange(Distance(fixes[k]))
  <2>4. InRangeSoFar' <=> \A k \in 1 .. next' - 1 : in(k)
    <3>1. \A k \in 1 .. next' - 1 : Same(k)
      BY <2>2, <2>3
    <3> QED BY <3>1 DEF Same, InRangeSoFar, InRange
  <2>5. InRangeSoFar <=> \A k \in 1 .. next - 1 : in(k)
    BY DEF InRangeSoFar
  <2>6. in(next) => UNCHANGED errs
    BY <2>1
  <2>7. ~in(next) => errs' = errs + 1
    BY <2>1
  <2> HIDE DEF in
  <2>8. InRangeSoFar' <=> InRangeSoFar /\ in(next)
    BY <2>3, <2>4, <2>5
  <2> QED BY <1>1, <1>3, <1>4, <2>6, <2>7, <2>8 DEF Steps, Good
<1> QED BY <1>5, <1>6

\* Every step that does not fail keeps the agreement, and is an error
\* exactly if what it read is.
LEMMA NextSteps ==
  ASSUME Base, [Next]_vars, status' = "OK"
  PROVE  Steps
<1>1. CASE Statement
  <2>1. CASE \E s \in Sym : Label(s)
    BY <2>1, LabelSteps
  <2>2. CASE \E n \in SecName, b \in {FALSE, Mistakes} : Shortcut(n, b)
    <3>1. PICK n \in SecName, b \in {FALSE, Mistakes} : Shortcut(n, b)
      BY <2>2
    <3>2. b \in BOOLEAN
      BY StmtAssumption
    <3> QED BY <3>1, <3>2, ShortcutSteps
  <2>3. CASE \E n \in SecName, b \in {FALSE, Mistakes} : NamedSection(n, b)
    <3>1. PICK n \in SecName, b \in {FALSE, Mistakes} : NamedSection(n, b)
      BY <2>3
    <3>2. b \in BOOLEAN
      BY StmtAssumption
    <3> QED BY <3>1, <3>2, NamedSectionSteps
  <2>4. CASE \E s \in Sym, v \in AbsValues : Set(s, v)
    BY <2>4, SetSteps
  <2>5. CASE \E i \in Insns : Instruction(i)
    BY <2>5, InstructionSteps
  <2>6. CASE \E n \in Zeros : Zero(n)
    BY <2>6, ZeroSteps
  <2>7. CASE \E a \in Aligns : Align(a)
    BY <2>7, AlignSteps
  <2>8. CASE \E d \in ArgStmts : ArgDirective(d)
    BY <2>8, DirectiveSteps
  <2>9. CASE BadStatement
    BY <2>9, BadSteps DEF BadStatement, ReportUnchecked
  <2>10. CASE BadInstruction
    BY <2>10, BadSteps DEF BadInstruction, ReportUnchecked
  <2> QED BY <1>1, <2>1, <2>2, <2>3, <2>4, <2>5, <2>6, <2>7, <2>8, <2>9, <2>10 DEF Statement
<1>2. CASE IntsArg \/ StringsArg \/ GloblArg
  BY <1>2, IntsSteps, StringsSteps, GloblSteps
<1>3. CASE EndOfSource \/ PatchLocal \/ OutOfRange \/ Relocate \/ EndResolve
             \/ BuildObject \/ UNCHANGED vars
  BY <1>3, PassThreeSteps
<1>4. ~AllocFails
  BY DEF AllocFails, Abort
<1> QED BY <1>1, <1>2, <1>3, <1>4 DEF Next, Progress, Returned

\* A failed run is over.
LEMMA OKBefore == Base /\ [Next]_vars /\ status' = "OK" => status = "OK"
<1> SUFFICES ASSUME Base, [Next]_vars, status' = "OK", phase = "done" PROVE status = "OK"
  BY DEF Base, RunningInv
<1>1. work = NoWork
  BY DEF Base, RunningInv
<1>2. ~Statement /\ ~IntsArg /\ ~StringsArg /\ ~GloblArg
  BY <1>1 DEF Statement, Label, Shortcut, NamedSection, Set, Instruction, Zero, Align,
     ArgDirective, BadStatement, BadInstruction, Take, IntsArg, StringsArg, GloblArg, NoWork
<1> QED BY <1>2 DEF Next, Progress, EndOfSource, PatchLocal, OutOfRange, Relocate, EndResolve,
     BuildObject, AllocFails, Returned, Resolving, vars

\* Driver and reference agree on what was read as long as it is valid, and
\* the error count tells whether it is.
AgreeInv ==
  status = "OK" =>
    /\ ReadOK => Agree
    /\ Good => errs = 0
    /\ ~AllocMayFail /\ errs = 0 => Good

\* Every step keeps it.
LEMMA NextAgree == Base /\ AgreeInv /\ [Next]_vars => AgreeInv'
<1> SUFFICES ASSUME Base, AgreeInv, [Next]_vars, status' = "OK"
             PROVE  /\ ReadOK' => Agree'
                    /\ Good' => errs' = 0
                    /\ ~AllocMayFail /\ errs' = 0 => Good'
  BY DEF AgreeInv
<1>1. Steps /\ status = "OK"
  BY NextSteps, OKBefore
<1>2. (ReadOK => Agree) /\ (Good => errs = 0) /\ (~AllocMayFail /\ errs = 0 => Good)
  BY <1>1 DEF Steps, AgreeInv
<1>3. Good => ReadOK
  BY DEF Good
<1> QED BY <1>1, <1>2, <1>3 DEF Steps

\* The empty program agrees with the empty unit.
LEMMA InitAgree == Init => AgreeInv
<1> SUFFICES ASSUME Init PROVE AgreeInv
  OBVIOUS
<1>1. prog = <<>> /\ Len(prog) = 0 /\ DOMAIN prog = {} /\ 1 .. Len(prog) = {} /\ <<>> \in Seq(StmtRecord)
  BY DEF Init
<1>2. End = Ref!Start
  BY <1>1, LayoutIs DEF End
<1>3. SectionsAgree
  <2>1. \A n \in SecName : SizeTo(prog, Read, n) = End.size[n]
    BY <1>1 DEF SizeTo, End
  <2>2. /\ cur = ".text"
        /\ \A n \in SecName : sec[n].size = 0 /\ sec[n].kind = IF n = ".text" THEN "PROGBITS" ELSE "none"
    BY DEF Init, UnitInit, NewSection
  <2>3. /\ Ref!Start.cur = ".text"
        /\ \A n \in SecName : /\ Ref!Start.size[n] = 0
                              /\ Ref!Start.kind[n] = IF n = ".text" THEN "PROGBITS" ELSE "none"
    BY DEF Ref!Start
  <2> QED BY <1>2, <2>1, <2>2, <2>3 DEF SectionsAgree
<1>4. AlignsAgree
  <2>1. \A n : Ref!AlignsIn(prog, n) = {}
    BY <1>1 DEF Ref!AlignsIn
  <2>2. \A n \in SecName : sec[n].align = 1
    BY DEF Init, UnitInit, NewSection
  <2> QED BY <2>1, <2>2 DEF AlignsAgree
<1>5. SymbolsAgree
  <2>1. \A s : Ref!LabelsOf(prog, s) = {} /\ Ref!SetsOf(prog, s) = {}
    BY <1>1 DEF Ref!LabelsOf, Ref!SetsOf
  <2>2. \A s : Ref!Meaning(prog, s) = [ref |-> "UNDEF", section |-> ".text", value |-> 0]
    BY <2>1 DEF Ref!Meaning
  <2>3. \A s \in Sym : sym[s].section = ".text" /\ RefOf(sym[s]) = "UNDEF" /\ ValueOf(sym[s]) = 0
    BY DEF Init, UnitInit, NoSymbol, RefOf, ValueOf
  <2>4. \A s : /\ Ref!Meaning(prog, s).ref = "UNDEF" /\ Ref!Meaning(prog, s).section = ".text"
              /\ Ref!Meaning(prog, s).value = 0
    BY <2>2
  <2> QED BY <2>3, <2>4 DEF SymbolsAgree
<1>6. GlobalsAgree
  <2>1. \A s \in Sym : sym[s].global = FALSE
    BY DEF Init, UnitInit, NoSymbol
  <2>2. \A j : GlobalsTo(prog, j) = {}
    BY <1>1 DEF GlobalsTo
  <2> QED BY <2>1, <2>2 DEF GlobalsAgree
<1>7. FieldsAgree
  <2>1. \A j : FieldsTo(prog, j) = {}
    BY <1>1 DEF FieldsTo
  <2>2. fixes = <<>>
    BY DEF Init, UnitInit
  <2> QED BY <2>1, <2>2, MatchesNone DEF FieldsAgree
<1>8. Good
  <2>1. \A j : OKTo(prog, j)
    BY <1>1 DEF OKTo
  <2>2. InRangeSoFar
    BY DEF Init, InRangeSoFar
  <2> QED BY <2>1, <2>2 DEF Good, ReadOK
<1> QED BY <1>3, <1>4, <1>5, <1>6, <1>7, <1>8 DEF AgreeInv, Agree, Init

\* As long as the source is valid the driver's sections, symbols, global
\* flags and fixups are those the source means, after every statement and
\* every argument; without memory failures no error is missed, and none is
\* reported without one (qas_assemble, passes 2 and 3a).
THEOREM AlwaysAgrees == Spec => [](Base /\ AgreeInv)
<1>1. Init => Base /\ AgreeInv
  BY InitBase, InitAgree
<1>2. Base /\ AgreeInv /\ [Next]_vars => (Base /\ AgreeInv)'
  BY NextBase, NextAgree
<1> QED BY <1>1, <1>2, PTL DEF Spec

-----------------------------------------------------------------------------
(* 5. When there is an object. *)

\* Pass 3b runs, and qas_assemble returns, only when every fixup was
\* resolved, and the object stands for the state it was built in.
EndInv ==
  /\ next <= Len(fixes) + 1
  /\ status = "OK" /\ phase \in {"build", "done"} => next > Len(fixes)
  /\ status = "OK" /\ phase = "done" => (image # {} <=> errs = 0)
  /\ image # {} => phase = "done" /\ image = {ObjectImage}

\* At first there is no object.
LEMMA InitEnd == Init => EndInv
BY DEF Init, UnitInit, EndInv

\* Every step keeps it.
LEMMA NextEnd == Base /\ EndInv /\ [Next]_vars => EndInv'
<1> SUFFICES ASSUME Base, EndInv, [Next]_vars PROVE EndInv'
  OBVIOUS
<1>1. Typed /\ Typed' /\ RunningInv /\ RunningInv'
  BY NextBase DEF Base, PlacedInv
<1>2. /\ next \in Nat \ {0} /\ Len(fixes) \in Nat /\ Len(fixes') \in Nat /\ errs \in Nat
      /\ next' \in Nat \ {0}
  BY <1>1, LenProperties DEF Typed, StateTypeOK, UnitTypeOK
<1>3. CASE Statement \/ IntsArg \/ StringsArg \/ GloblArg
  <2>1. phase = "layout" /\ next = 1
    <3>1. Statement => phase = "layout"
      BY DEF Statement, Label, Shortcut, NamedSection, Set, Instruction, Zero, Align,
         ArgDirective, BadStatement, BadInstruction, Take
    <3>2. IntsArg \/ StringsArg \/ GloblArg => work # NoWork
      BY DEF IntsArg, StringsArg, GloblArg, NoWork
    <3> QED BY <1>1, <1>3, <3>1, <3>2 DEF Base, RunningInv
  <2>2. next' = next /\ (phase' = "layout" \/ status' # "OK")
    <3>1. \A st \in GrownStatus : Abort(st) => next' = next /\ status' # "OK"
      BY DEF Abort, GrownStatus, resolveVars
    <3>2. Continue => next' = next /\ phase' = "layout"
      BY <2>1 DEF Continue, resolveVars
    <3>3. \A n : GrowFailure(n) \in GrownStatus
      BY GrowFailureType
    <3> QED BY <1>3, <3>1, <3>2, <3>3 DEF Statement, Label, Shortcut, NamedSection, Set,
          Instruction, Zero, Align, ArgDirective, BadStatement, BadInstruction, Emit,
          IntsArg, StringsArg, GloblArg, EmitArg, RejectArg
  <2>3. image' = {}
    BY <1>1, <2>2 DEF RunningInv, NoObjectAfterFailure
  <2> QED BY <1>2, <2>1, <2>2, <2>3 DEF EndInv
<1>4. CASE PatchLocal \/ AllocFails
  <2>1. CASE status' = "OK"
    <3>1. /\ Resolving /\ next' = next + 1 /\ UNCHANGED <<unitVars, phase, image>>
      BY <1>4, <2>1 DEF PatchLocal, AllocFails, Abort
    <3> QED BY <1>1, <1>2, <3>1 DEF EndInv, RunningInv, Resolving, unitVars
  <2>2. CASE status' # "OK"
    <3>1. image' = {}
      BY <1>1, <2>2 DEF RunningInv, NoObjectAfterFailure
    <3>2. UNCHANGED fixes /\ next' \in {next, next + 1} /\ (next' = next + 1 => next <= Len(fixes))
      BY <1>2, <1>4 DEF PatchLocal, AllocFails, Abort, unitVars, resolveVars, Resolving
    <3> QED BY <1>2, <2>2, <3>1, <3>2 DEF EndInv
  <2> QED BY <2>1, <2>2
<1>5. CASE OutOfRange \/ Relocate
  <2>1. Resolving /\ next' = next + 1 /\ UNCHANGED <<fixes, phase, status, image>>
    BY <1>5 DEF OutOfRange, Relocate, unitVars
  <2> QED BY <1>1, <1>2, <2>1 DEF EndInv, RunningInv, Resolving
<1>6. CASE EndOfSource
  <2>1. phase' = "resolve" /\ UNCHANGED <<fixes, next, image>> /\ phase = "layout"
    BY <1>6 DEF EndOfSource, unitVars, resolveVars
  <2> QED BY <1>1, <2>1 DEF EndInv, RunningInv
<1>7. CASE EndResolve
  <2>1. /\ phase' = IF errs = 0 THEN "build" ELSE "done"
        /\ UNCHANGED <<fixes, next, image, errs>> /\ phase = "resolve" /\ next > Len(fixes)
    BY <1>7 DEF EndResolve, unitVars, resolveVars
  <2> QED BY <1>1, <2>1 DEF EndInv, RunningInv
<1>8. CASE BuildObject
  <2>1. /\ phase = "build" /\ phase' = "done" /\ UNCHANGED <<unitVars, next, relocs, errs>>
        /\ \/ image' = {ObjectImage} /\ UNCHANGED status
           \/ status' # "OK"
    BY <1>8 DEF BuildObject, resolveVars
  <2>2. ObjectImage' = ObjectImage
    BY ZenonT(60), <2>1 DEF unitVars, ObjectImage, IncludedSections, EmittedSymbols, Included, Emitted,
       SymbolEntry, Defined, Handle
  <2>3. status' # "OK" => image' = {}
    BY <1>1 DEF RunningInv, NoObjectAfterFailure
  <2>4. status = "OK" /\ errs = 0
    BY <1>1, <2>1 DEF RunningInv
  <2> QED BY <1>1, <2>1, <2>2, <2>3, <2>4 DEF EndInv, unitVars
<1>9. CASE UNCHANGED vars
  <2>1. ObjectImage' = ObjectImage /\ UNCHANGED <<fixes, next, status, phase, image, errs>>
    BY <1>9 DEF vars, unitVars, ObjectImage, IncludedSections, EmittedSymbols, Included, Emitted,
       SymbolEntry, Defined, Handle
  <2> QED BY <2>1 DEF EndInv
<1> QED BY <1>3, <1>4, <1>5, <1>6, <1>7, <1>8, <1>9 DEF Next, Progress, Returned

\* Every end of the run is such an end.
LEMMA AlwaysEnds == Spec => [](Base /\ AgreeInv /\ EndInv)
BY AlwaysAgrees, InitEnd, NextEnd, PTL DEF Spec

\* The field a fixup fills is resolved here exactly if no linker can change
\* it, and to the distance the reference computes.
LEMMA LinkAgrees ==
  ASSUME Base, Agree, work = NoWork, NEW k \in 1 .. Len(fixes), NEW f,
         Describes(fixes[k], f)
  PROVE  /\ f.sym \in Sym
         /\ Ref!LinkInvariant(prog, f) <=> ResolvesLocally(fixes[k])
         /\ ResolvesLocally(fixes[k])
              => /\ Ref!FixedDistance(prog, f) = Distance(fixes[k])
                 /\ Distance(fixes[k]) \in Int
<1> DEFINE fx == fixes[k]
           s  == fx.sym
           m  == Ref!Meaning(prog, s)
<1>1. /\ prog \in Seq(StmtRecord) /\ fx \in Fix /\ sym \in [Sym -> Symbol]
      /\ sec[fx.sec].kind = "PROGBITS"
  BY ElementOfSeq DEF Base, PlacedInv, Typed, StateTypeOK, UnitTypeOK, FixupsInBounds
<1>2. fx.sec \in SecName /\ s \in Sym /\ fx.addend \in Int /\ fx.offset \in Nat
  BY <1>1 DEF Fix
<1>3. sym[s].value \in Nat /\ sym[s].global \in BOOLEAN
  BY <1>1, <1>2 DEF Symbol
<1>4. /\ f.sec = fx.sec /\ f.offset = fx.offset /\ f.sym = s /\ (f.pc <=> fx.kind = "PC32")
      /\ f.add \in Int /\ f.after \in Int
      /\ fx.kind = "PC32" => fx.addend = f.add - (f.after - f.offset)
  BY DEF Describes
<1>5. s \in Ref!Globals(prog) <=> sym[s].global = TRUE
  <2>1. GlobalsTo(prog, Read) = Ref!Globals(prog)
    BY <1>1, ReadToTheEnd DEF Read
  <2> QED BY <1>2, <2>1 DEF Agree, GlobalsAgree
<1>6. /\ m.ref = RefOf(sym[s]) /\ m.section = sym[s].section
      /\ m.ref = "SECTION" /\ m.section = fx.sec => m.value = sym[s].value
  <2>1. Exact(fx.sec)
    BY <1>1 DEF Exact
  <2>2. m.ref = RefOf(sym[s]) /\ m.section = sym[s].section
        /\ ((m.ref = "SECTION" => Exact(m.section)) => m.value = ValueOf(sym[s]))
    BY <1>2 DEF Agree, SymbolsAgree
  <2> QED BY <2>1, <2>2 DEF RefOf, ValueOf
<1> HIDE DEF fx, m
<1>7. Ref!LinkInvariant(prog, f) <=> ResolvesLocally(fixes[k])
  <2>1. Ref!LinkInvariant(prog, f) <=> /\ f.pc /\ s \notin Ref!Globals(prog)
                                       /\ m.ref = "SECTION" /\ m.section = fx.sec
    BY <1>4 DEF Ref!LinkInvariant, m
  <2>2. ResolvesLocally(fixes[k]) <=> /\ fx.kind = "PC32" /\ sym[s].where = "SECTION"
                                      /\ sym[s].section = fx.sec /\ ~sym[s].global
    BY DEF ResolvesLocally, fx
  <2> QED BY <1>3, <1>4, <1>5, <1>6, <2>1, <2>2 DEF RefOf
<1>8. ASSUME ResolvesLocally(fixes[k])
      PROVE  Ref!FixedDistance(prog, f) = Distance(fixes[k]) /\ Distance(fixes[k]) \in Int
  <2>1. fx.kind = "PC32" /\ sym[s].where = "SECTION" /\ sym[s].section = fx.sec
    BY <1>8 DEF ResolvesLocally, fx
  <2>2. m.value = sym[s].value
    BY <1>6, <2>1 DEF RefOf
  <2>3. Ref!FixedDistance(prog, f) = sym[s].value + f.add - f.after
    BY <1>4, <2>2 DEF Ref!FixedDistance, m
  <2>4. Distance(fixes[k]) = sym[s].value + (f.add - (f.after - fx.offset)) - fx.offset
    BY <1>4, <2>1 DEF Distance, fx
  <2> QED BY <1>2, <1>3, <1>4, <2>3, <2>4
<1> QED BY <1>2, <1>4, <1>7, <1>8

\* At the end, valid statements and distances in range are validity.
LEMMA ValidAtEnd ==
  ASSUME Base, EndInv, status = "OK", phase = "done", ReadOK => Agree
  PROVE  Ref!Valid(prog) <=> Good
<1>1. /\ work = NoWork /\ Read = Full(prog) /\ prog \in Seq(StmtRecord)
      /\ next \in Nat /\ Len(fixes) \in Nat /\ next = Len(fixes) + 1 /\ RelMax \in Nat
  BY LenProperties, StmtAssumption
     DEF Base, RunningInv, Read, PlacedInv, Typed, StateTypeOK, UnitTypeOK, EndInv
<1>2. /\ ReadOK <=> \A k \in DOMAIN prog : Ref!StmtOK(prog, k)
      /\ FieldsTo(prog, Read) = Ref!Fields(prog)
  BY <1>1, ReadToTheEnd DEF ReadOK
<1> SUFFICES ASSUME ReadOK
             PROVE  InRangeSoFar
                      <=> \A f \in Ref!Fields(prog) : Ref!LinkInvariant(prog, f)
                            => Ref!FixedDistance(prog, f) \in -RelMax - 1 .. RelMax
  BY <1>2 DEF Good, Ref!Valid
<1>3. PICK fl \in [1 .. Len(fixes) -> Ref!Fields(prog)] :
        /\ \A f \in Ref!Fields(prog) : \E k \in 1 .. Len(fixes) : fl[k] = f
        /\ \A k \in 1 .. Len(fixes) : Describes(fixes[k], fl[k])
  BY <1>2 DEF Agree, FieldsAgree, Matches
<1>4. \A k \in 1 .. Len(fixes) :
        /\ Ref!LinkInvariant(prog, fl[k]) <=> ResolvesLocally(fixes[k])
        /\ ResolvesLocally(fixes[k]) => /\ Ref!FixedDistance(prog, fl[k]) = Distance(fixes[k])
                                        /\ Distance(fixes[k]) \in Int
  BY <1>1, <1>3, LinkAgrees
<1>5. \A v \in Int : InRange(v) <=> v \in -RelMax - 1 .. RelMax
  BY <1>1 DEF InRange
<1>6. InRangeSoFar <=> \A k \in 1 .. Len(fixes) :
                          ResolvesLocally(fixes[k]) => InRange(Distance(fixes[k]))
  BY <1>1 DEF InRangeSoFar
<1> QED BY <1>3, <1>4, <1>5, <1>6

\* A valid program gets its object whenever qas_assemble returns QAS_OK;
\* while no allocation fails, no other program does.  An error whose
\* diagnostic is lost for lack of memory goes unnoticed (LostDiagnostic).
LEMMA ObjectAtEnd ==
  ASSUME Base, AgreeInv, EndInv, phase = "done", status = "OK"
  PROVE  /\ Ref!Valid(prog) => image # {}
         /\ ~AllocMayFail => ObjectIffValid
<1>1. Ref!Valid(prog) <=> Good
  BY ValidAtEnd DEF AgreeInv
<1>2. image # {} <=> errs = 0
  BY DEF EndInv
<1> QED BY <1>1, <1>2 DEF AgreeInv, ObjectIffValid

\* No valid program is refused: whenever qas_assemble returns QAS_OK for one
\* there is an object, whatever the memory (asm.c, passes 3a and 3b).
THEOREM ValidGetsObject ==
  Spec => [](phase = "done" /\ status = "OK" /\ Ref!Valid(prog) => image # {})
<1>1. Base /\ AgreeInv /\ EndInv
        => (phase = "done" /\ status = "OK" /\ Ref!Valid(prog) => image # {})
  BY ObjectAtEnd
<1> QED BY <1>1, AlwaysEnds, PTL

\* As long as memory lasts there is an object exactly for the valid programs
\* (asm.h: "non-NULL exactly when assembly succeeded").
THEOREM ObjectIffValidAlways ==
  ASSUME ~AllocMayFail
  PROVE  Spec => []ObjectIffValid
<1>1. Base /\ AgreeInv /\ EndInv => ObjectIffValid
  BY ObjectAtEnd DEF ObjectIffValid
<1> QED BY <1>1, AlwaysEnds, PTL

-----------------------------------------------------------------------------
(* 6. Lists without repetition: the tables, and what pass 3b takes of them. *)

\* s lists the members of S, each once.
OnceOf(s, S) ==
  /\ \A x \in S : \E k \in 1 .. Len(s) : s[k] = x
  /\ \A k \in 1 .. Len(s) : s[k] \in S
  /\ \A j, k \in 1 .. Len(s) : s[j] = s[k] => j = k

\* The empty list.
LEMMA OnceEmpty == OnceOf(<<>>, {})
<1>1. 1 .. Len(<<>>) = {}
  OBVIOUS
<1> QED BY <1>1 DEF OnceOf

\* A new member is appended.
LEMMA OnceAppend ==
  ASSUME NEW X, NEW s \in Seq(X), NEW S, OnceOf(s, S), NEW x \in X, x \notin S
  PROVE  OnceOf(Append(s, x), S \cup {x})
<1> DEFINE n == Len(s)
           t == Append(s, x)
<1>1. /\ n \in Nat /\ Len(t) = n + 1 /\ t[n + 1] = x
      /\ \A k \in 1 .. n : t[k] = s[k] /\ k \in 1 .. n + 1
      /\ n + 1 \in 1 .. n + 1
      /\ \A k \in 1 .. n + 1 : k \in 1 .. n \/ k = n + 1
  BY LenProperties, AppendProperties
<1>2. /\ \A y \in S : \E k \in 1 .. n : s[k] = y
      /\ \A k \in 1 .. n : s[k] \in S
      /\ \A j, k \in 1 .. n : s[j] = s[k] => j = k
  BY DEF OnceOf
<1> HIDE DEF n, t
<1>3. \A y \in S \cup {x} : \E k \in 1 .. n + 1 : t[k] = y
  BY <1>1, <1>2
<1>4. \A k \in 1 .. n + 1 : t[k] \in S \cup {x}
  BY <1>1, <1>2
<1>5. \A j, k \in 1 .. n + 1 : t[j] = t[k] => j = k
  BY <1>1, <1>2
<1> QED BY <1>1, <1>3, <1>4, <1>5 DEF OnceOf, t

\* The length of such a list is the number of its members.
LEMMA OnceCounts ==
  ASSUME NEW X, NEW s \in Seq(X), NEW S, OnceOf(s, S)
  PROVE  Len(s) = Cardinality(S) /\ S = {s[k] : k \in DOMAIN s}
<1> DEFINE n == Len(s)
           f == [k \in 1 .. n |-> s[k]]
<1>1. n \in Nat /\ DOMAIN s = 1 .. n
  BY LenProperties
<1>2. /\ \A y \in S : \E k \in 1 .. n : s[k] = y
      /\ \A k \in 1 .. n : s[k] \in S
      /\ \A j, k \in 1 .. n : s[j] = s[k] => j = k
  BY DEF OnceOf
<1>3. f \in Bijection(1 .. n, S)
  <2>1. f \in [1 .. n -> S] /\ \A k \in 1 .. n : f[k] = s[k]
    BY <1>2
  <2> HIDE DEF f, n
  <2> QED BY <1>2, <2>1 DEF Bijection, Injection, Surjection, IsInjective
<1>4. ExistsBijection(1 .. n, S)
  BY <1>3 DEF ExistsBijection
<1>5. IsFiniteSet(1 .. n) /\ Cardinality(1 .. n) = n
  BY SMTT(60), <1>1, FS_Interval
<1>6. Cardinality(S) = n
  BY <1>4, <1>5, FS_Bijection
<1> QED BY <1>1, <1>2, <1>6

\* Among keeps of a list without repetition the members in S.
LEMMA AmongIs ==
  ASSUME NEW X, NEW s \in Seq(X), NEW T, OnceOf(s, T), NEW S
  PROVE  Among(s, S) \in Seq(X) /\ OnceOf(Among(s, S), T \cap S)
<1> DEFINE n == Len(s)
           Next1(i, x) == IF s[i] \in S THEN Append(x, s[i]) ELSE x
           F == [i \in 1 .. n |-> [x \in Seq(X) |-> Next1(i, x)]]
           Fits1(f) == f = [k \in 0 .. n |-> IF k = 0 THEN <<>> ELSE Next1(k, f[k - 1])]
           w == CHOOSE f : Fits1(f)
<1>1. n \in Nat /\ <<>> \in Seq(X) /\ \A i \in 1 .. n : s[i] \in X
  BY LenProperties, ElementOfSeq
<1>2. Among(s, S) = w[n]
  BY DEF Among
<1>3. \A i \in 1 .. n, x \in Seq(X) : Next1(i, x) \in Seq(X)
  BY <1>1, AppendProperties
<1>4. \A i, x : Next1(i, x) = IF s[i] \in S THEN Append(x, s[i]) ELSE x
  OBVIOUS
<1> HIDE DEF n, Next1
<1>5. /\ F \in [1 .. n -> [Seq(X) -> Seq(X)]]
      /\ \A i \in 1 .. n, x \in Seq(X) : F[i][x] = Next1(i, x)
  BY <1>3
<1> HIDE DEF F
<1>6. PICK g : StepsTo(g, n, Seq(X), <<>>, F)
  BY <1>1, <1>5, StepsExist
<1>7. Fits1(g)
  <2>1. g \in [0 .. n -> Seq(X)] /\ g[0] = <<>> /\ \A i \in 1 .. n : g[i] = F[i][g[i - 1]]
    BY <1>6 DEF StepsTo
  <2>2. ASSUME NEW i \in 1 .. n PROVE g[i] = Next1(i, g[i - 1])
    <3>1. i - 1 \in 0 .. n /\ g[i - 1] \in Seq(X)
      BY <1>1, <2>1
    <3> QED BY <1>5, <2>1, <3>1
  <2> QED BY <2>1, <2>2
<1>8. Fits1(w)
  BY <1>7
<1> HIDE DEF w
<1>9. /\ w = [k \in 0 .. n |-> w[k]] /\ w[0] = <<>>
      /\ \A i \in 1 .. n : w[i] = Next1(i, w[i - 1])
  <2>1. w = [k \in 0 .. n |-> IF k = 0 THEN <<>> ELSE Next1(k, w[k - 1])]
    BY <1>8
  <2>2. w = [k \in 0 .. n |-> w[k]]
    BY <2>1
  <2>3. \A k \in 0 .. n : w[k] = IF k = 0 THEN <<>> ELSE Next1(k, w[k - 1])
    BY <2>1
  <2> QED BY <1>1, <2>1, <2>2, <2>3
<1>10. \A i \in 1 .. n : w[i - 1] \in Seq(X) => w[i] = F[i][w[i - 1]]
  BY <1>5, <1>9
<1>11. w \in [0 .. n -> Seq(X)]
  <2>1. StepsTo(w, n, Seq(X), <<>>, F)
    BY <1>1, <1>5, <1>9, <1>10, StepsUnique
  <2> QED BY <2>1 DEF StepsTo
<1> DEFINE Seen(k) == {s[i] : i \in 1 .. k} \cap S
           P == {k \in Nat : k <= n => OnceOf(w[k], Seen(k))}
<1>12. 0 \in P
  <2>1. Seen(0) = {}
    OBVIOUS
  <2> QED BY <1>9, <2>1, OnceEmpty
<1>13. ASSUME NEW k \in Nat, k \in P PROVE k + 1 \in P
  <2> SUFFICES ASSUME k + 1 <= n PROVE OnceOf(w[k + 1], Seen(k + 1))
    OBVIOUS
  <2>1. /\ k + 1 \in 1 .. n /\ (k + 1) - 1 = k /\ k \in 0 .. n /\ k <= n
        /\ \A i \in 1 .. k + 1 : i \in 1 .. k \/ i = k + 1
        /\ \A i \in 1 .. k : i \in 1 .. k + 1 /\ i # k + 1 /\ i \in 1 .. n
        /\ k + 1 \in 1 .. k + 1
    BY <1>1
  <2>2. OnceOf(w[k], Seen(k)) /\ w[k] \in Seq(X) /\ w[k + 1] = Next1(k + 1, w[k])
    BY <1>9, <1>11, <1>13, <2>1
  <2>3. {s[i] : i \in 1 .. k + 1} = {s[i] : i \in 1 .. k} \cup {s[k + 1]}
    BY <2>1
  <2>4. s[k + 1] \notin {s[i] : i \in 1 .. k}
    BY <2>1 DEF OnceOf, n
  <2>5. CASE s[k + 1] \in S
    <3>1. w[k + 1] = Append(w[k], s[k + 1]) /\ Seen(k + 1) = Seen(k) \cup {s[k + 1]}
      BY <1>4, <2>2, <2>3, <2>5
    <3>2. s[k + 1] \notin Seen(k) /\ s[k + 1] \in X
      BY <1>1, <2>1, <2>4
    <3>3. OnceOf(Append(w[k], s[k + 1]), Seen(k) \cup {s[k + 1]})
      <4> DEFINE u == w[k]
                 S1 == Seen(k)
                 y == s[k + 1]
      <4>1. u \in Seq(X) /\ OnceOf(u, S1) /\ y \in X /\ y \notin S1
        BY <2>2, <3>2
      <4> HIDE DEF u, S1, y
      <4>2. OnceOf(Append(u, y), S1 \cup {y})
        BY <4>1, OnceAppend
      <4> QED BY <4>2 DEF u, S1, y
    <3> QED BY <3>1, <3>3
  <2>6. CASE s[k + 1] \notin S
    <3>1. w[k + 1] = w[k] /\ Seen(k + 1) = Seen(k)
      BY <1>4, <2>2, <2>3, <2>6
    <3> QED BY <2>2, <3>1
  <2> QED BY <2>5, <2>6
<1>14. n \in P
  <2> HIDE DEF P
  <2> QED BY <1>1, <1>12, <1>13, NatSetInduction
<1>15. Seen(n) = T \cap S
  <2>1. /\ \A x \in T : \E i \in 1 .. n : s[i] = x
        /\ \A i \in 1 .. n : s[i] \in T
    BY DEF OnceOf, n
  <2> QED BY <2>1
<1>16. OnceOf(w[n], Seen(n)) /\ w[n] \in Seq(X)
  BY <1>1, <1>11, <1>14
<1> QED BY <1>2, <1>15, <1>16

\* A section is listed once it was named, a symbol once it is known; and
\* only known symbols are global or referenced.
ListsInv ==
  /\ OnceOf(sects, {n \in SecName : SecSeen(n)})
  /\ OnceOf(syms, {s \in Sym : Interned(s)})
  /\ \A s \in Sym : Emitted(s) => Interned(s)

\* At first only .text is listed.
LEMMA InitLists == Init => ListsInv
<1> SUFFICES ASSUME Init PROVE ListsInv
  OBVIOUS
<1>1. /\ sects = <<".text">> /\ syms = <<>>
      /\ \A n \in SecName : SecSeen(n) <=> n = ".text"
      /\ \A s \in Sym : ~Interned(s) /\ ~Emitted(s)
  BY DEF Init, UnitInit, SecSeen, NewSection, NoSymbol, Interned, Emitted
<1>2. {n \in SecName : SecSeen(n)} = {".text"} /\ {s \in Sym : Interned(s)} = {}
  BY <1>1, SecNameAssumption
<1>3. OnceOf(<<".text">>, {".text"})
  <2>1. Len(<<".text">>) = 1 /\ <<".text">>[1] = ".text" /\ 1 .. 1 = {1}
    OBVIOUS
  <2> QED BY <2>1 DEF OnceOf
<1> QED BY <1>1, <1>2, <1>3, OnceEmpty DEF ListsInv

\* Only selecting a section adds one, and none ever changes whether it exists.
LEMMA StepSections ==
  ASSUME PlacedInv, [Next]_vars
  PROVE  \/ UNCHANGED sects /\ \A n \in SecName : sec'[n].kind = sec[n].kind
         \/ \E n \in SecName, k \in SecKind : SelectSection(n, k)
<1>1. Typed /\ LoopInBytes /\ sec \in [SecName -> Section] /\ cur \in SecName
  BY DEF PlacedInv, Typed, StateTypeOK, UnitTypeOK
<1>2. \/ UNCHANGED sects
      \/ \E n \in SecName, k \in SecKind : SelectSection(n, k)
  <2>1. CASE \E n \in SecName, b \in {FALSE, Mistakes} : Shortcut(n, b)
    BY <2>1 DEF Shortcut, ShortcutKind, SecKind
  <2>2. CASE \E n \in SecName, b \in {FALSE, Mistakes} : NamedSection(n, b)
    BY <2>2 DEF NamedSection, SecKind
  <2>3. CASE Statement /\ ~(\E n \in SecName, b \in {FALSE, Mistakes} : Shortcut(n, b))
                       /\ ~(\E n \in SecName, b \in {FALSE, Mistakes} : NamedSection(n, b))
    BY <2>3 DEF Statement, Label, Set, Instruction, Zero, Align, ArgDirective, BadStatement,
       BadInstruction, Emit, Abort, unitVars
  <2>4. CASE IntsArg \/ StringsArg \/ GloblArg
    BY <2>4 DEF IntsArg, StringsArg, GloblArg, EmitArg, RejectArg, Abort, unitVars
  <2>5. CASE ~Statement /\ ~(IntsArg \/ StringsArg \/ GloblArg)
    BY <2>5 DEF Next, Progress, EndOfSource, PatchLocal, OutOfRange, Relocate, EndResolve,
       BuildObject, AllocFails, Returned, Abort, vars, unitVars
  <2> QED BY <2>1, <2>2, <2>3, <2>4, <2>5
<1>3. \/ \A n \in SecName : sec'[n].kind = sec[n].kind
      \/ \E n \in SecName, k \in SecKind : SelectSection(n, k)
  <2>1. CASE \E n \in Nat, f \in Seq(Fix) : Grew(n, f)
    BY <2>1 DEF Grew
  <2> QED BY <1>1, <2>1, StepEffects DEF SectionEffect
<1> QED BY <1>2, <1>3

\* Every step keeps the lists.
LEMMA NextLists == Base /\ ListsInv /\ [Next]_vars => ListsInv'
<1> SUFFICES ASSUME Base, ListsInv, [Next]_vars PROVE ListsInv'
  OBVIOUS
<1>1. /\ PlacedInv /\ Typed /\ LoopInBytes /\ sec \in [SecName -> Section]
      /\ sects \in Seq(SecName) /\ syms \in Seq(Sym) /\ sym \in [Sym -> Symbol]
  BY DEF Base, PlacedInv, Typed, StateTypeOK, UnitTypeOK
<1> DEFINE Seen == {n \in SecName : SecSeen(n)}
           Known == {s \in Sym : Interned(s)}
<1>2. OnceOf(sects', Seen')
  <2>1. OnceOf(sects, Seen)
    BY DEF ListsInv
  <2>2. CASE UNCHANGED sects /\ \A n \in SecName : sec'[n].kind = sec[n].kind
    <3>1. Seen' = Seen
      BY <2>2 DEF SecSeen
    <3> QED BY <2>1, <2>2, <3>1
  <2>3. ASSUME NEW n \in SecName, NEW k \in SecKind, SelectSection(n, k)
        PROVE  OnceOf(sects', Seen')
    <3>1. CASE SecSeen(n)
      <4>1. Seen' = Seen /\ sects' = sects
        BY <2>3, <3>1 DEF SelectSection, SecSeen
      <4> QED BY <2>1, <4>1
    <3>2. CASE ~SecSeen(n)
      <4>1. sects' = Append(sects, n) /\ sec' = [sec EXCEPT ![n] = NewSection(k)]
        BY <2>3, <3>2 DEF SelectSection
      <4>2. \A m \in SecName : sec'[m].kind = IF m = n THEN k ELSE sec[m].kind
        BY <1>1, <4>1 DEF NewSection
      <4>3. k # "none"
        BY DEF SecKind
      <4>4. Seen' = Seen \cup {n}
        BY <4>2, <4>3 DEF SecSeen
      <4>5. n \notin Seen
        BY <3>2
      <4> HIDE DEF Seen
      <4> QED BY <1>1, <2>1, <4>1, <4>4, <4>5, OnceAppend
    <3> QED BY <3>1, <3>2
  <2> QED BY <1>1, <2>2, <2>3, StepSections
<1>3. OnceOf(syms', Known') /\ \A s \in Sym : Emitted(s)' => Interned(s)'
  <2>1. OnceOf(syms, Known) /\ \A s \in Sym : Emitted(s) => Interned(s)
    BY DEF ListsInv
  <2>2. CASE UNCHANGED <<syms, sym>>
    <3>1. Known' = Known /\ \A s : (Emitted(s)' <=> Emitted(s)) /\ (Interned(s)' <=> Interned(s))
      BY <2>2 DEF Interned, Emitted
    <3> QED BY <2>1, <2>2, <3>1
  <2>3. ASSUME NEW s \in Sym, NEW r \in Symbol, Store(s, r), Rerecorded(s, r)
        PROVE  OnceOf(syms', Known') /\ \A t \in Sym : Emitted(t)' => Interned(t)'
    <3>1. \A t \in Sym : sym'[t] = IF t = s THEN r ELSE sym[t]
      BY <1>1, <2>3, StoredRecord
    <3>2. r.where # "none"
      BY <2>3 DEF Rerecorded
    <3>3. \A t \in Sym : Emitted(t)' => Interned(t)'
      BY <2>1, <3>1, <3>2 DEF Emitted, Interned
    <3>4. Known' = Known \cup {s}
      BY <3>1, <3>2 DEF Interned
    <3>5. CASE Interned(s)
      <4>1. syms' = syms /\ Known' = Known
        BY <2>3, <3>4, <3>5 DEF Store, InternOrder
      <4> QED BY <2>1, <3>3, <4>1
    <3>6. CASE ~Interned(s)
      <4>1. syms' = Append(syms, s) /\ s \notin Known
        BY <2>3, <3>6 DEF Store, InternOrder
      <4> HIDE DEF Known
      <4> QED BY <1>1, <2>1, <3>3, <3>4, <4>1, OnceAppend
    <3> QED BY <3>5, <3>6
  <2> QED BY <1>1, <2>2, <2>3, StepEffects DEF SymbolEffect
<1> QED BY <1>2, <1>3 DEF ListsInv

-----------------------------------------------------------------------------
(* 7. What pass 3a leaves behind. *)

\* What the driver writes for a fixup it resolves.
PatchOf(fx) == [sec |-> fx.sec, offset |-> fx.offset, value |-> Distance(fx)]

\* Of the fixups met so far those the driver resolves were patched and the
\* others relocated, their symbols referenced, and no symbol but those.
ResolvedInv ==
  /\ \A s \in Sym : sym[s].referenced = TRUE
       <=> \E k \in 1 .. next - 1 : ~ResolvesLocally(fixes[k]) /\ fixes[k].sym = s
  /\ \A k \in 1 .. next - 1 : ~ResolvesLocally(fixes[k])
       => \E j \in 1 .. Len(relocs) : relocs[j] = RelocOf(fixes[k])
  /\ \A j \in 1 .. Len(relocs) : \E k \in 1 .. next - 1 :
       ~ResolvesLocally(fixes[k]) /\ relocs[j] = RelocOf(fixes[k])
  /\ \A k \in 1 .. next - 1 : ResolvesLocally(fixes[k]) /\ InRange(Distance(fixes[k]))
       => PatchOf(fixes[k]) \in patches
  /\ \A q \in patches : \E k \in 1 .. next - 1 :
       ResolvesLocally(fixes[k]) /\ q = PatchOf(fixes[k])
  /\ IsFiniteSet(patches)
  /\ errs = 0 => Len(relocs) + Cardinality(patches) = next - 1

\* Nothing is resolved before pass 3a.
LEMMA NothingResolved ==
  ASSUME next = 1, relocs = <<>>, patches = {}, \A s \in Sym : sym[s].referenced = FALSE
  PROVE  ResolvedInv
<1>1. 1 .. next - 1 = {} /\ Len(relocs) = 0 /\ 1 .. Len(relocs) = {}
  OBVIOUS
<1>2. IsFiniteSet(patches) /\ Cardinality(patches) = 0
  BY FS_EmptySet
<1> QED BY <1>1, <1>2 DEF ResolvedInv

\* Statements and arguments reference no symbol in the sense of pass 3a.
LEMMA LayoutReferences ==
  ASSUME Typed, Statement \/ IntsArg \/ StringsArg \/ GloblArg
  PROVE  \A t \in Sym : sym'[t].referenced = sym[t].referenced
<1>1. sym \in [Sym -> Symbol] /\ UnitTypeOK
  BY DEF Typed, StateTypeOK, UnitTypeOK
<1>2. CASE \E s \in Sym : Label(s)
  <2>1. PICK s \in Sym : Label(s)
    BY <1>2
  <2> DEFINE r == IF Defined(s) THEN sym[s]
                  ELSE [sym[s] EXCEPT !.where = "SECTION", !.section = cur, !.value = Here]
  <2>2. sym' = [sym EXCEPT ![s] = r]
    BY <2>1 DEF Label, Store
  <2>3. r.referenced = sym[s].referenced
    BY <1>1 DEF Symbol
  <2> HIDE DEF r
  <2> QED BY <1>1, <2>2, <2>3
<1>3. CASE \E s \in Sym, v \in AbsValues : Set(s, v)
  <2>1. PICK s \in Sym, v \in AbsValues : Set(s, v)
    BY <1>3
  <2> DEFINE r == IF sym[s].where = "SECTION" THEN sym[s]
                  ELSE [sym[s] EXCEPT !.where = "ABS", !.value = v]
  <2>2. sym' = [sym EXCEPT ![s] = r]
    BY <2>1 DEF Set, Store
  <2>3. r.referenced = sym[s].referenced
    BY <1>1 DEF Symbol
  <2> HIDE DEF r
  <2> QED BY <1>1, <2>2, <2>3
<1>4. CASE GloblArg
  <2>1. CASE UNCHANGED sym
    BY <2>1
  <2>2. CASE ~UNCHANGED sym
    <3> DEFINE s == NextArg.sym
               r == [Intern(s) EXCEPT !.global = TRUE]
    <3>1. sym' = [sym EXCEPT ![s] = r]
      BY <1>4, <2>2 DEF GloblArg, RejectArg, unitVars, Store
    <3>2. s \in Sym => r.referenced = sym[s].referenced
      <4> SUFFICES ASSUME s \in Sym PROVE r.referenced = sym[s].referenced
        OBVIOUS
      <4> HIDE DEF s
      <4>1. Intern(s) \in Symbol /\ sym[s] \in Symbol
        BY <1>1, InternType
      <4>2. Intern(s).referenced = sym[s].referenced
        BY <4>1 DEF Intern, Symbol
      <4> QED BY <4>1, <4>2 DEF Symbol
    <3> HIDE DEF r, s
    <3> QED BY <1>1, <3>1, <3>2
  <2> QED BY <2>1, <2>2
<1>5. CASE /\ ~(\E s \in Sym : Label(s)) /\ ~(\E s \in Sym, v \in AbsValues : Set(s, v))
           /\ ~GloblArg
  <2>1. CASE Statement
    <3>1. UNCHANGED sym
      BY <1>5, <2>1 DEF Statement, Shortcut, NamedSection, Instruction, Zero, Align, ArgDirective,
         BadStatement, BadInstruction, Emit, Abort, unitVars
    <3> QED BY <3>1
  <2>2. CASE IntsArg \/ StringsArg
    <3>1. UNCHANGED sym
      BY <2>2 DEF IntsArg, StringsArg, EmitArg, RejectArg, Abort, unitVars
    <3> QED BY <3>1
  <2> QED BY <1>5, <2>1, <2>2
<1> QED BY <1>2, <1>3, <1>4, <1>5

\* No two fixups fill the same place.
LEMMA PlacesDiffer ==
  ASSUME PlacedInv, NEW j \in 1 .. Len(fixes), NEW k \in 1 .. Len(fixes),
         fixes[j].sec = fixes[k].sec, fixes[j].offset = fixes[k].offset
  PROVE  j = k
<1>1. \A i \in 1 .. Len(fixes) : fixes[i] \in Fix
  BY ElementOfSeq DEF PlacedInv, Typed, StateTypeOK, UnitTypeOK
<1>2. \A i \in 1 .. Len(fixes) : fixes[i].offset \in Nat /\ FieldWidth(fixes[i].kind) \in {4, 8}
  BY <1>1 DEF Fix, FieldWidth
<1>3. fixes[j].offset \in FieldBytes(fixes[j]) /\ fixes[k].offset \in FieldBytes(fixes[k])
  BY <1>2 DEF FieldBytes
<1>4. FieldBytes(fixes[j]) \cap FieldBytes(fixes[k]) # {}
  BY <1>3
<1> QED BY <1>4 DEF PlacedInv, FixupsDisjoint

\* At first nothing was resolved.
LEMMA InitResolved == Init => ResolvedInv
<1> SUFFICES ASSUME Init PROVE ResolvedInv
  OBVIOUS
<1>1. \A s \in Sym : sym[s].referenced = FALSE
  BY DEF Init, UnitInit, NoSymbol
<1> QED BY <1>1, NothingResolved DEF Init

\* A step that changes nothing of it.
LEMMA SameResolved ==
  ASSUME ResolvedInv, UNCHANGED <<unitVars, resolveVars, errs>>
  PROVE  ResolvedInv'
<1>1. UNCHANGED <<sym, fixes, next, relocs, patches, errs>>
  BY DEF unitVars, resolveVars
<1> QED BY <1>1 DEF ResolvedInv, ResolvesLocally, Distance, PatchOf, InRange, RelocOf

\* Every step of pass 3a adds what it resolved, every other step nothing.
LEMMA NextResolved == Base /\ EndInv /\ ResolvedInv /\ [Next]_vars => ResolvedInv'
<1> SUFFICES ASSUME Base, EndInv, ResolvedInv, [Next]_vars PROVE ResolvedInv'
  OBVIOUS
<1> DEFINE N == Len(fixes)
<1>1. /\ Typed /\ PlacedInv /\ RunningInv /\ next \in Nat \ {0} /\ N \in Nat /\ next <= N + 1
      /\ Len(relocs) \in Nat /\ relocs \in Seq(Reloc) /\ errs \in Nat
      /\ \A k \in 1 .. N : fixes[k] \in Fix
  BY LenProperties, ElementOfSeq DEF Base, PlacedInv, Typed, StateTypeOK, UnitTypeOK, EndInv
<1>2. CASE Statement \/ IntsArg \/ StringsArg \/ GloblArg
  <2>1. phase = "layout" /\ next = 1
    <3>1. Statement => phase = "layout"
      BY DEF Statement, Label, Shortcut, NamedSection, Set, Instruction, Zero, Align,
         ArgDirective, BadStatement, BadInstruction, Take
    <3>2. IntsArg \/ StringsArg \/ GloblArg => work # NoWork
      BY DEF IntsArg, StringsArg, GloblArg, NoWork
    <3> QED BY <1>1, <1>2, <3>1, <3>2 DEF Base, RunningInv
  <2>2. UNCHANGED <<next, relocs, patches>>
    BY <1>2 DEF Statement, Label, Shortcut, NamedSection, Set,
          Instruction, Zero, Align, ArgDirective, BadStatement, BadInstruction, Emit,
          IntsArg, StringsArg, GloblArg, EmitArg, RejectArg, Continue, Abort, resolveVars
  <2>3. 1 .. next - 1 = {}
    BY <2>1
  <2>4. Len(relocs) = 0
    <3>1. \A j \in 1 .. Len(relocs) : FALSE
      BY <2>3 DEF ResolvedInv
    <3> QED BY <1>1, <3>1
  <2>5. relocs = <<>>
    BY <1>1, <2>4, EmptySeq
  <2>6. patches = {} /\ \A s \in Sym : sym[s].referenced # TRUE
    BY <2>3 DEF ResolvedInv
  <2>7. \A s \in Sym : sym[s].referenced = FALSE
    <3>1. \A s \in Sym : sym[s].referenced \in BOOLEAN
      BY <1>1 DEF Typed, StateTypeOK, UnitTypeOK, Symbol
    <3> QED BY <2>6, <3>1
  <2>8. /\ next' = 1 /\ relocs' = <<>> /\ patches' = {}
        /\ \A s \in Sym : sym'[s].referenced = FALSE
    BY <1>1, <1>2, <2>1, <2>2, <2>5, <2>6, <2>7, LayoutReferences
  <2> DEFINE R == ResolvedInv
  <2> QED BY <2>8, NothingResolved, 1 .. 1 - 1 = {}, FS_EmptySet DEF ResolvedInv
<1>3. CASE UNCHANGED <<unitVars, resolveVars, errs>>
  BY <1>3, SameResolved
<1>4. CASE /\ ~(Statement \/ IntsArg \/ StringsArg \/ GloblArg)
           /\ ~UNCHANGED <<unitVars, resolveVars, errs>>
  <2>1. /\ Resolving /\ next' = next + 1 /\ UNCHANGED <<fixes, status>>
        /\ PatchLocal \/ OutOfRange \/ Relocate
    <3>1. ~EndOfSource /\ ~EndResolve /\ ~BuildObject /\ ~AllocFails
      BY <1>4 DEF EndOfSource, EndResolve, BuildObject, AllocFails, Abort
    <3>2. ~UNCHANGED vars
      BY <1>4 DEF vars, resolveVars
    <3>3. PatchLocal \/ OutOfRange \/ Relocate
      BY <1>4, <3>1, <3>2 DEF Next, Progress, Returned
    <3>4. PatchLocal => Resolving /\ next' = next + 1 /\ UNCHANGED <<fixes, status>>
      BY <1>4 DEF PatchLocal, Abort, unitVars
    <3>5. OutOfRange => Resolving /\ next' = next + 1 /\ UNCHANGED <<fixes, status>>
      BY DEF OutOfRange, unitVars
    <3>6. Relocate => Resolving /\ next' = next + 1 /\ UNCHANGED <<fixes, status>>
      BY DEF Relocate
    <3> QED BY <3>3, <3>4, <3>5, <3>6
  <2>2. status' = "OK"
    BY <1>1, <2>1 DEF RunningInv, Resolving
  <2>3. next \in 1 .. N /\ fixes[next] \in Fix /\ fixes' = fixes
    BY <1>1, <2>1 DEF Resolving
  <2>4. SameRecords
    BY <1>1, <2>1, <2>2, PassThreeKeeps
  <2> DEFINE local(k) == ResolvesLocally(fixes[k])
             near(k)  == InRange(Distance(fixes[k]))
             patch(k) == PatchOf(fixes[k])
             reloc(k) == RelocOf(fixes[k])
             name(k)  == fixes[k].sym
  <2>5. \A k \in 1 .. N : /\ ResolvesLocally(fixes[k])' <=> local(k)
                          /\ local(k) => Distance(fixes[k])' = Distance(fixes[k])
    BY <1>1, <2>3, <2>4, SameDistances
  <2>6. \A k \in 1 .. N : /\ ResolvesLocally(fixes[k])' <=> local(k)
                          /\ local(k) => /\ InRange(Distance(fixes[k]))' <=> near(k)
                                         /\ PatchOf(fixes[k])' = patch(k)
    BY <2>3, <2>5 DEF InRange, PatchOf
  <2>7. \A k \in 1 .. N : RelocOf(fixes'[k]) = reloc(k) /\ fixes'[k].sym = name(k)
    BY <2>3
  <2>8. /\ \A k \in 1 .. next' - 1 : k \in 1 .. N /\ (k \in 1 .. next - 1 \/ k = next)
        /\ \A k \in 1 .. next - 1 : k \in 1 .. next' - 1 /\ k \in 1 .. N /\ k # next
        /\ next \in 1 .. next' - 1 /\ next' - 1 = (next - 1) + 1
    BY <1>1, <2>1, <2>3
  <2>9. /\ \A s \in Sym : sym[s].referenced = TRUE <=> \E k \in 1 .. next - 1 : ~local(k) /\ name(k) = s
        /\ \A k \in 1 .. next - 1 : ~local(k) => \E j \in 1 .. Len(relocs) : relocs[j] = reloc(k)
        /\ \A j \in 1 .. Len(relocs) : \E k \in 1 .. next - 1 : ~local(k) /\ relocs[j] = reloc(k)
        /\ \A k \in 1 .. next - 1 : local(k) /\ near(k) => patch(k) \in patches
        /\ \A q \in patches : \E k \in 1 .. next - 1 : local(k) /\ q = patch(k)
        /\ IsFiniteSet(patches)
        /\ errs = 0 => Len(relocs) + Cardinality(patches) = next - 1
    BY DEF ResolvedInv
  <2>10. ASSUME /\ \A s \in Sym : sym'[s].referenced = TRUE
                     <=> \E k \in 1 .. next' - 1 : ~local(k) /\ name(k) = s
                /\ \A k \in 1 .. next' - 1 : ~local(k)
                     => \E j \in 1 .. Len(relocs') : relocs'[j] = reloc(k)
                /\ \A j \in 1 .. Len(relocs') : \E k \in 1 .. next' - 1 :
                     ~local(k) /\ relocs'[j] = reloc(k)
                /\ \A k \in 1 .. next' - 1 : local(k) /\ near(k) => patch(k) \in patches'
                /\ \A q \in patches' : \E k \in 1 .. next' - 1 : local(k) /\ q = patch(k)
                /\ IsFiniteSet(patches')
                /\ errs' = 0 => Len(relocs') + Cardinality(patches') = next' - 1
         PROVE  ResolvedInv'
    <3> HIDE DEF local, near, patch, reloc, name
    <3>1. \A k \in 1 .. next' - 1 : /\ ResolvesLocally(fixes[k])' <=> local(k)
                                    /\ fixes'[k].sym = name(k)
                                    /\ RelocOf(fixes'[k]) = reloc(k)
      BY <2>6, <2>7, <2>8
    <3>2. \A s \in Sym : sym'[s].referenced = TRUE
            <=> \E k \in 1 .. next' - 1 : ~(ResolvesLocally(fixes[k])') /\ fixes'[k].sym = s
      BY ZenonT(60), <2>10, <3>1
    <3>3. \A k \in 1 .. next' - 1 : ~(ResolvesLocally(fixes[k])')
            => \E j \in 1 .. Len(relocs') : relocs'[j] = RelocOf(fixes'[k])
      BY <2>10, <3>1
    <3>4. \A j \in 1 .. Len(relocs') : \E k \in 1 .. next' - 1 :
            ~(ResolvesLocally(fixes[k])') /\ relocs'[j] = RelocOf(fixes'[k])
      BY <2>6, <2>7, <2>8, <2>10
    <3>5. \A k \in 1 .. next' - 1 :
            ResolvesLocally(fixes[k])' /\ InRange(Distance(fixes[k]))' => PatchOf(fixes[k])' \in patches'
      BY <2>6, <2>8, <2>10
    <3>6. \A q \in patches' : \E k \in 1 .. next' - 1 :
            ResolvesLocally(fixes[k])' /\ q = PatchOf(fixes[k])'
      BY <2>6, <2>8, <2>10
    <3> QED BY <2>10, <3>2, <3>3, <3>4, <3>5, <3>6 DEF ResolvedInv
  <2>11. CASE OutOfRange
    <3>1. /\ UNCHANGED <<sym, relocs, patches>> /\ errs' # 0 /\ local(next) /\ ~near(next)
      BY <1>1, <2>11 DEF OutOfRange, Report, unitVars
    <3> HIDE DEF local, near, patch, reloc, name, N
    <3>2. \A s \in Sym : sym'[s].referenced = TRUE
            <=> \E k \in 1 .. next' - 1 : ~local(k) /\ name(k) = s
      BY <2>8, <2>9, <3>1
    <3>3. /\ \A k \in 1 .. next' - 1 : ~local(k)
               => \E j \in 1 .. Len(relocs') : relocs'[j] = reloc(k)
          /\ \A j \in 1 .. Len(relocs') : \E k \in 1 .. next' - 1 :
               ~local(k) /\ relocs'[j] = reloc(k)
      BY <2>8, <2>9, <3>1
    <3>4. /\ \A k \in 1 .. next' - 1 : local(k) /\ near(k) => patch(k) \in patches'
          /\ \A q \in patches' : \E k \in 1 .. next' - 1 : local(k) /\ q = patch(k)
          /\ IsFiniteSet(patches')
      BY <2>8, <2>9, <3>1
    <3> QED BY <2>10, <3>1, <3>2, <3>3, <3>4
  <2>12. CASE PatchLocal
    <3>1. /\ UNCHANGED <<sym, relocs, errs>> /\ local(next) /\ near(next)
          /\ patches' = patches \cup {patch(next)}
      BY <2>1, <2>2, <2>12 DEF PatchLocal, Abort, unitVars, PatchOf
    <3>2. patch(next) \notin patches
      <4> SUFFICES ASSUME NEW k \in 1 .. next - 1, patch(next) = patch(k) PROVE FALSE
        BY <2>9
      <4>1. k \in 1 .. N /\ k # next
        BY <2>8
      <4>2. fixes[k].sec = fixes[next].sec /\ fixes[k].offset = fixes[next].offset
        <5>1. /\ patch(k).sec = fixes[k].sec /\ patch(k).offset = fixes[k].offset
              /\ patch(next).sec = fixes[next].sec /\ patch(next).offset = fixes[next].offset
          BY DEF PatchOf
        <5> QED BY <5>1
      <4> QED BY <1>1, <2>3, <4>1, <4>2, PlacesDiffer
    <3>3. /\ IsFiniteSet(patches') /\ Cardinality(patches') = Cardinality(patches) + 1
          /\ Cardinality(patches) \in Nat
      BY <2>9, <3>1, <3>2, FS_AddElement, FS_CardinalityType
    <3>4. errs' = 0 => Len(relocs') + Cardinality(patches') = next' - 1
      <4>1. relocs' = relocs /\ errs' = errs
        BY <3>1
      <4>2. errs = 0 => Len(relocs) + Cardinality(patches) = next - 1
        BY <2>9
      <4> DEFINE c == Cardinality(patches)
                 c1 == Cardinality(patches')
                 l == Len(relocs)
      <4>3. c \in Nat /\ c1 = c + 1 /\ l \in Nat /\ next \in Nat /\ next' = next + 1
        BY <1>1, <2>1, <3>3
      <4>4. (errs' = 0 => l + c = next - 1) /\ Len(relocs') = l
        BY <4>1, <4>2
      <4> HIDE DEF c, c1, l
      <4>5. errs' = 0 => l + c1 = next' - 1
        BY <4>3, <4>4
      <4> QED BY <4>4, <4>5 DEF c1
    <3> HIDE DEF local, near, patch, reloc, name, N
    <3>5. \A s \in Sym : sym'[s].referenced = TRUE
            <=> \E k \in 1 .. next' - 1 : ~local(k) /\ name(k) = s
      BY <2>8, <2>9, <3>1
    <3>6. /\ \A k \in 1 .. next' - 1 : ~local(k)
               => \E j \in 1 .. Len(relocs') : relocs'[j] = reloc(k)
          /\ \A j \in 1 .. Len(relocs') : \E k \in 1 .. next' - 1 :
               ~local(k) /\ relocs'[j] = reloc(k)
      BY <2>8, <2>9, <3>1
    <3>7. /\ \A k \in 1 .. next' - 1 : local(k) /\ near(k) => patch(k) \in patches'
          /\ \A q \in patches' : \E k \in 1 .. next' - 1 : local(k) /\ q = patch(k)
      BY <2>8, <2>9, <3>1
    <3> QED BY <2>10, <3>3, <3>4, <3>5, <3>6, <3>7
  <2>13. CASE Relocate
    <3> DEFINE s == fixes[next].sym
               r == [Intern(s) EXCEPT !.referenced = TRUE]
               n == Len(relocs)
    <3>1. /\ UNCHANGED <<patches, errs>> /\ ~local(next)
          /\ relocs' = Append(relocs, reloc(next))
          /\ sym' = [sym EXCEPT ![s] = r]
      BY <2>13 DEF Relocate, Store
    <3>2. s \in Sym /\ Intern(s) \in Symbol /\ sym \in [Sym -> Symbol]
      <4>1. s \in Sym
        BY <2>3 DEF Fix
      <4> HIDE DEF s
      <4> QED BY <1>1, <4>1, InternType DEF Typed, StateTypeOK, UnitTypeOK
    <3>3. r.referenced = TRUE
      <4> HIDE DEF s
      <4> QED BY <3>2 DEF Symbol
    <3>4. \A t \in Sym : sym'[t].referenced = IF t = name(next) THEN TRUE ELSE sym[t].referenced
      <4> HIDE DEF r
      <4> QED BY <3>1, <3>2, <3>3
    <3>5. reloc(next) \in Reloc
      BY <2>3 DEF RelocOf, Reloc, RelocTypeOf, RelType, Fix, FixKind
    <3>6. /\ n \in Nat /\ Len(relocs') = n + 1 /\ relocs'[n + 1] = reloc(next)
          /\ \A j \in 1 .. n : relocs'[j] = relocs[j] /\ j \in 1 .. n + 1
          /\ n + 1 \in 1 .. n + 1
          /\ \A j \in 1 .. n + 1 : j \in 1 .. n \/ j = n + 1
      <4> HIDE DEF reloc
      <4> QED BY <1>1, <3>1, <3>5, AppendProperties
    <3>7. errs' = 0 => Len(relocs') + Cardinality(patches') = next' - 1
      <4>1. patches' = patches /\ errs' = errs /\ Cardinality(patches) \in Nat
        BY <2>9, <3>1, FS_CardinalityType
      <4> HIDE DEF n
      <4>2. Len(relocs') = Len(relocs) + 1
        BY <3>6 DEF n
      <4>3. errs = 0 => Len(relocs) + Cardinality(patches) = next - 1
        BY <2>9
      <4> DEFINE c == Cardinality(patches)
                 l == Len(relocs)
                 l1 == Len(relocs')
      <4>4. c \in Nat /\ l1 = l + 1 /\ l \in Nat /\ next \in Nat /\ next' = next + 1
        BY <1>1, <2>1, <4>1, <4>2
      <4>5. (errs' = 0 => l + c = next - 1) /\ Cardinality(patches') = c
        BY <4>1, <4>3
      <4> HIDE DEF c, l, l1
      <4>6. errs' = 0 => l1 + c = next' - 1
        BY <4>4, <4>5
      <4> QED BY <4>5, <4>6 DEF l1
    <3> HIDE DEF local, near, patch, reloc, name, N, s, r
    <3>8. \A t \in Sym : sym'[t].referenced = TRUE
            <=> \E k \in 1 .. next' - 1 : ~local(k) /\ name(k) = t
      <4> SUFFICES ASSUME NEW t \in Sym
                   PROVE  sym'[t].referenced = TRUE
                            <=> \E k \in 1 .. next' - 1 : ~local(k) /\ name(k) = t
        OBVIOUS
      <4>1. CASE t = name(next)
        BY <2>8, <3>1, <3>4, <4>1
      <4>2. CASE t # name(next)
        BY <2>8, <2>9, <3>4, <4>2
      <4> QED BY <4>1, <4>2
    <3>9. \A k \in 1 .. next' - 1 : ~local(k)
               => \E j \in 1 .. Len(relocs') : relocs'[j] = reloc(k)
      <4> SUFFICES ASSUME NEW k \in 1 .. next' - 1, ~local(k)
                   PROVE  \E j \in 1 .. n + 1 : relocs'[j] = reloc(k)
        BY <3>6
      <4>1. CASE k = next
        BY <3>6, <4>1
      <4>2. CASE k \in 1 .. next - 1
        <5>1. PICK j \in 1 .. n : relocs[j] = reloc(k)
          BY <2>9, <4>2
        <5> QED BY <3>6, <5>1
      <4> QED BY <2>8, <4>1, <4>2
    <3>10. \A j \in 1 .. Len(relocs') : \E k \in 1 .. next' - 1 :
               ~local(k) /\ relocs'[j] = reloc(k)
      <4> SUFFICES ASSUME NEW j \in 1 .. n + 1
                   PROVE  \E k \in 1 .. next' - 1 : ~local(k) /\ relocs'[j] = reloc(k)
        BY <3>6
      <4>1. CASE j = n + 1
        BY <2>8, <3>1, <3>6, <4>1
      <4>2. CASE j \in 1 .. n
        <5>1. PICK k \in 1 .. next - 1 : ~local(k) /\ relocs[j] = reloc(k)
          BY <2>9, <4>2
        <5> QED BY <2>8, <3>6, <4>2, <5>1
      <4> QED BY <3>6, <4>1, <4>2
    <3>11. /\ \A k \in 1 .. next' - 1 : local(k) /\ near(k) => patch(k) \in patches'
           /\ \A q \in patches' : \E k \in 1 .. next' - 1 : local(k) /\ q = patch(k)
           /\ IsFiniteSet(patches')
      BY <2>8, <2>9, <3>1
    <3> QED BY <2>10, <3>7, <3>8, <3>9, <3>10, <3>11
  <2> QED BY <2>1, <2>11, <2>12, <2>13
<1> QED BY <1>2, <1>3, <1>4

\* The lists and what was resolved, at every moment of every run.
LEMMA AlwaysListed == Spec => [](Base /\ AgreeInv /\ EndInv /\ ListsInv /\ ResolvedInv)
BY AlwaysEnds, InitLists, NextLists, InitResolved, NextResolved, PTL DEF Spec

-----------------------------------------------------------------------------
(* 8. What the object holds. *)

\* All that is known of a state of the driver.
AllInv == Base /\ AgreeInv /\ EndInv /\ ListsInv /\ ResolvedInv /\ LabelsAnchored

\* An object was built from sections that fit; if diagnostics can be lost,
\* from a valid program.
Built == image # {} /\ Fits /\ (AllocMayFail => Ref!Valid(prog))

\* Then the program was read to its end, is valid and was agreed on.
LEMMA WhenBuilt ==
  ASSUME AllInv, Built
  PROVE  /\ Object = ObjectImage /\ errs = 0 /\ work = NoWork
         /\ Read = Full(prog) /\ Agree /\ InRangeSoFar
         /\ next = Len(fixes) + 1 /\ Len(fixes) \in Nat /\ prog \in Seq(StmtRecord)
         /\ FieldsTo(prog, Read) = Ref!Fields(prog)
         /\ GlobalsTo(prog, Read) = Ref!Globals(prog)
<1>1. image = {ObjectImage} /\ phase = "done" /\ status = "OK" /\ errs = 0 /\ work = NoWork
  BY DEF AllInv, Built, EndInv, Base, RunningInv, NoObjectAfterFailure
<1>2. next > Len(fixes) /\ next <= Len(fixes) + 1
  BY <1>1 DEF AllInv, EndInv
<1>3. next \in Nat /\ Len(fixes) \in Nat /\ prog \in Seq(StmtRecord)
  BY LenProperties DEF AllInv, Base, PlacedInv, Typed, StateTypeOK, UnitTypeOK
<1>4. next = Len(fixes) + 1
  BY <1>2, <1>3
<1>5. ReadOK => Agree
  BY <1>1 DEF AllInv, AgreeInv
<1>6. Ref!Valid(prog) <=> Good
  BY <1>1, <1>5, ValidAtEnd DEF AllInv
<1>7. Good
  BY <1>1, <1>6 DEF AllInv, AgreeInv, Built
<1>8. Agree /\ InRangeSoFar
  BY <1>5, <1>7 DEF Good
<1>9. Read = Full(prog)
  BY <1>1 DEF Read
<1>10. FieldsTo(prog, Read) = Ref!Fields(prog) /\ GlobalsTo(prog, Read) = Ref!Globals(prog)
  BY <1>3, <1>9, ReadToTheEnd
<1>11. Object = ObjectImage
  BY <1>1 DEF Object
<1> QED BY <1>1, <1>3, <1>4, <1>8, <1>9, <1>10, <1>11

\* The fixups are the symbolic fields, one each.
LEMMA FieldsBuilt ==
  ASSUME AllInv, Built
  PROVE  \E fl \in [1 .. Len(fixes) -> Ref!Fields(prog)] :
           /\ \A f \in Ref!Fields(prog) : \E k \in 1 .. Len(fixes) : fl[k] = f
           /\ \A k \in 1 .. Len(fixes) :
                /\ Describes(fixes[k], fl[k]) /\ fl[k].sym \in Sym
                /\ Ref!LinkInvariant(prog, fl[k]) <=> ResolvesLocally(fixes[k])
<1>1. Agree /\ FieldsTo(prog, Read) = Ref!Fields(prog) /\ work = NoWork /\ Base
  BY WhenBuilt DEF AllInv
<1>2. PICK fl \in [1 .. Len(fixes) -> Ref!Fields(prog)] :
        /\ \A f \in Ref!Fields(prog) : \E k \in 1 .. Len(fixes) : fl[k] = f
        /\ \A k \in 1 .. Len(fixes) : Describes(fixes[k], fl[k])
  BY <1>1 DEF Agree, FieldsAgree, Matches
<1>3. \A k \in 1 .. Len(fixes) :
        fl[k].sym \in Sym /\ (Ref!LinkInvariant(prog, fl[k]) <=> ResolvesLocally(fixes[k]))
  BY <1>1, <1>2, LinkAgrees
<1> QED BY <1>2, <1>3

\* The symbols pass 3b emits are those the linker must know, as they are.
LEMMA ExportedBuilt ==
  ASSUME AllInv, Built
  PROVE  /\ {s \in Sym : Emitted(s)} = Ref!Exported(prog)
         /\ \A s \in Sym : /\ SymbolEntry(s) = Ref!EntryOf(prog, s)
                           /\ Ref!Meaning(prog, s).ref = "SECTION" <=> sym[s].where = "SECTION"
                           /\ Ref!Meaning(prog, s).section = sym[s].section
<1>1. /\ Agree /\ next - 1 = Len(fixes) /\ GlobalsTo(prog, Read) = Ref!Globals(prog)
      /\ sym \in [Sym -> Symbol] /\ ResolvedInv /\ Fits
  BY WhenBuilt DEF AllInv, Built, Base, PlacedInv, Typed, StateTypeOK, UnitTypeOK
<1>2. \A s \in Sym : /\ sym[s].global \in BOOLEAN /\ sym[s].referenced \in BOOLEAN
                     /\ sym[s].global = TRUE <=> s \in Ref!Globals(prog)
  BY <1>1 DEF Symbol, Agree, GlobalsAgree
<1>3. PICK fl \in [1 .. Len(fixes) -> Ref!Fields(prog)] :
        /\ \A f \in Ref!Fields(prog) : \E k \in 1 .. Len(fixes) : fl[k] = f
        /\ \A k \in 1 .. Len(fixes) :
             /\ Describes(fixes[k], fl[k]) /\ fl[k].sym \in Sym
             /\ Ref!LinkInvariant(prog, fl[k]) <=> ResolvesLocally(fixes[k])
  BY FieldsBuilt
<1>4. \A s \in Sym : sym[s].referenced = TRUE
                       <=> \E f \in Ref!Fields(prog) : ~Ref!LinkInvariant(prog, f) /\ f.sym = s
  <2>1. \A s \in Sym : sym[s].referenced = TRUE
                         <=> \E k \in 1 .. Len(fixes) : ~ResolvesLocally(fixes[k]) /\ fixes[k].sym = s
    BY <1>1 DEF ResolvedInv
  <2>2. \A k \in 1 .. Len(fixes) : fl[k] \in Ref!Fields(prog) /\ fl[k].sym = fixes[k].sym
    BY <1>3 DEF Describes
  <2>3. ASSUME NEW s \in Sym, NEW k \in 1 .. Len(fixes), ~ResolvesLocally(fixes[k]), fixes[k].sym = s
        PROVE  \E f \in Ref!Fields(prog) : ~Ref!LinkInvariant(prog, f) /\ f.sym = s
    <3>1. fl[k] \in Ref!Fields(prog) /\ ~Ref!LinkInvariant(prog, fl[k]) /\ fl[k].sym = s
      BY <1>3, <2>2, <2>3
    <3> QED BY <3>1
  <2>4. ASSUME NEW s \in Sym, NEW f \in Ref!Fields(prog), ~Ref!LinkInvariant(prog, f), f.sym = s
        PROVE  \E k \in 1 .. Len(fixes) : ~ResolvesLocally(fixes[k]) /\ fixes[k].sym = s
    <3>1. PICK k \in 1 .. Len(fixes) : fl[k] = f
      BY <1>3
    <3>2. ~ResolvesLocally(fixes[k]) /\ fixes[k].sym = s
      BY <1>3, <2>2, <2>4, <3>1
    <3> QED BY <3>2
  <2> QED BY <2>1, <2>3, <2>4
<1>5. Ref!Exported(prog) \subseteq Sym
  <2>1. \A f \in Ref!Fields(prog) : f.sym \in Sym
    BY <1>3
  <2>2. Ref!Globals(prog) \subseteq Sym
    BY <1>1 DEF GlobalsTo
  <2> QED BY <2>1, <2>2 DEF Ref!Exported
<1>6. \A s \in Sym : s \in Ref!Exported(prog) <=> Emitted(s)
  <2>1. \A s : s \in Ref!Exported(prog)
                 <=> \/ s \in Ref!Globals(prog)
                     \/ \E f \in Ref!Fields(prog) : ~Ref!LinkInvariant(prog, f) /\ f.sym = s
    BY DEF Ref!Exported
  <2>2. \A s \in Sym : Emitted(s) <=> sym[s].global = TRUE \/ sym[s].referenced = TRUE
    BY <1>2 DEF Emitted
  <2> QED BY <1>2, <1>4, <2>1, <2>2
<1>7. \A s \in Sym : LET m == Ref!Meaning(prog, s)
                     IN m.ref = RefOf(sym[s]) /\ m.section = sym[s].section /\ m.value = ValueOf(sym[s])
  BY <1>1 DEF Agree, SymbolsAgree, Exact
<1>8. ASSUME NEW s \in Sym PROVE SymbolEntry(s) = Ref!EntryOf(prog, s)
  <2>1. /\ RefOf(sym[s]) = IF Defined(s) THEN sym[s].where ELSE "UNDEF"
        /\ ValueOf(sym[s]) = IF Defined(s) THEN sym[s].value ELSE 0
    BY DEF RefOf, ValueOf, Defined
  <2>2. sym[s].global \/ ~Defined(s) <=> s \in Ref!Globals(prog) \/ RefOf(sym[s]) = "UNDEF"
    BY <1>2 DEF RefOf, Defined
  <2> QED BY <1>7, <2>1, <2>2 DEF SymbolEntry, Ref!EntryOf
<1>9. \A s \in Sym : RefOf(sym[s]) = "SECTION" <=> sym[s].where = "SECTION"
  BY DEF RefOf
<1> QED BY <1>5, <1>6, <1>7, <1>8, <1>9

\* The emitted symbols, in the order of their interning.
LEMMA EmittedList ==
  ASSUME AllInv, Built
  PROVE  /\ EmittedSymbols \in Seq(Sym)
         /\ Len(EmittedSymbols) = Cardinality(Ref!Exported(prog))
         /\ Ref!Exported(prog) = {EmittedSymbols[k] : k \in 1 .. Len(EmittedSymbols)}
<1> DEFINE T == {s \in Sym : Interned(s)}
           S == {s \in Sym : Emitted(s)}
<1>1. syms \in Seq(Sym) /\ OnceOf(syms, T) /\ T \cap S = S
  BY DEF AllInv, Base, PlacedInv, Typed, StateTypeOK, UnitTypeOK, ListsInv
<1>2. EmittedSymbols = Among(syms, S)
  BY DEF EmittedSymbols
<1>3. S = Ref!Exported(prog)
  BY ExportedBuilt
<1> HIDE DEF T, S
<1>4. Among(syms, S) \in Seq(Sym) /\ OnceOf(Among(syms, S), T \cap S)
  BY <1>1, AmongIs
<1>5. EmittedSymbols \in Seq(Sym) /\ OnceOf(EmittedSymbols, S)
  BY <1>1, <1>2, <1>4
<1>6. /\ Len(EmittedSymbols) = Cardinality(S)
      /\ S = {EmittedSymbols[k] : k \in DOMAIN EmittedSymbols}
  BY <1>5, OnceCounts
<1> QED BY <1>3, <1>5, <1>6, LenProperties

\* The symbol table of the object is the one the source calls for.
LEMMA SymbolsBuilt == AllInv /\ Built => SymbolsCorrect
<1> SUFFICES ASSUME AllInv, Built PROVE SymbolsCorrect
  OBVIOUS
<1> DEFINE E == EmittedSymbols
           n == Len(E)
           X == Ref!Exported(prog)
<1>1. E \in Seq(Sym) /\ n = Cardinality(X) /\ X = {E[k] : k \in 1 .. n}
  BY EmittedList
<1>2. n \in Nat /\ \A k \in 1 .. n : E[k] \in Sym
  BY <1>1, LenProperties, ElementOfSeq
<1>3. Object.symbols = [k \in 1 .. n |-> SymbolEntry(E[k])]
  BY WhenBuilt DEF ObjectImage
<1>4. \A s \in Sym : SymbolEntry(s) = Ref!EntryOf(prog, s)
  BY ExportedBuilt
<1> HIDE DEF E, n, X
<1>5. Object.symbols = [k \in 1 .. n |-> Ref!EntryOf(prog, E[k])]
  BY <1>2, <1>3, <1>4
<1>6. DOMAIN Object.symbols = 1 .. n /\ Len(Object.symbols) = n
  BY <1>2, <1>5
<1>7. \A k \in 1 .. n : Object.symbols[k] = Ref!EntryOf(prog, E[k])
  BY <1>5
<1>8. {Object.symbols[k] : k \in DOMAIN Object.symbols} = {Ref!EntryOf(prog, s) : s \in X}
  <2>1. \A e : e \in {Object.symbols[k] : k \in DOMAIN Object.symbols}
                <=> \E k \in 1 .. n : e = Ref!EntryOf(prog, E[k])
    BY <1>6, <1>7
  <2>2. \A e : e \in {Ref!EntryOf(prog, s) : s \in X}
                <=> \E k \in 1 .. n : e = Ref!EntryOf(prog, E[k])
    BY <1>1
  <2> QED BY <2>1, <2>2
<1> QED BY <1>1, <1>6, <1>8 DEF SymbolsCorrect, X

\* Aligned for the strictest request is aligned for all of them.
LEMMA AlignsBuilt ==
  ASSUME AllInv, Built, NEW n \in SecName, NEW m \in Ref!AlignsIn(prog, n)
  PROVE  sec[n].align % m = 0
<1>1. sec[n].align \in {1} \cup Aligns /\ m <= sec[n].align
  BY WhenBuilt DEF Agree, AlignsAgree
<1>2. m \in Aligns
  <2>1. PICK k \in DOMAIN prog : prog[k].op = "align" /\ m = prog[k].to
    BY DEF Ref!AlignsIn
  <2>2. prog[k] \in StmtRecord
    BY <2>1, WhenBuilt
  <2> QED BY <2>1, <2>2 DEF StmtRecord
<1>3. m \in Nat \ {0}
  BY <1>2, WordsAreNat
<1>4. CASE sec[n].align = 1
  <2>1. m = 1
    BY <1>1, <1>3, <1>4
  <2> QED BY <1>4, <2>1
<1>5. CASE sec[n].align \in Aligns
  BY <1>1, <1>2, <1>5, StmtAssumption
<1> QED BY <1>1, <1>4, <1>5

\* A section is built exactly if the source needs it.
LEMMA NeededBuilt ==
  ASSUME AllInv, Built
  PROVE  {n \in SecName : SecSeen(n)} \cap {n \in SecName : Included(n)} = Ref!Needed(prog)
<1>1. /\ Base /\ ResolvedInv /\ ListsInv /\ next - 1 = Len(fixes)
      /\ \A k \in 1 .. Len(fixes) : fixes[k] \in Fix
      /\ sec \in [SecName -> Section]
      /\ \A s \in Sym : sym[s].section \in SecName
  BY WhenBuilt, ElementOfSeq DEF AllInv, Base, PlacedInv, Typed, StateTypeOK, UnitTypeOK, Symbol
<1>2. \A n \in SecName : sec[n].size \in Nat /\ sec[n].size = End.size[n]
  <2>1. ASSUME NEW n \in SecName PROVE sec[n].size = End.size[n]
    <3>1. sec[n].size = SizeTo(prog, Read, n)
      BY WhenBuilt DEF Built, Agree, SectionsAgree, Exact
    <3> QED BY <3>1, WhenBuilt, SizeWhole DEF End
  <2> QED BY <1>1, <2>1 DEF Section
<1>3. \A s \in Sym : /\ s \in Ref!Exported(prog) <=> Emitted(s)
                     /\ Ref!Meaning(prog, s).ref = "SECTION" <=> sym[s].where = "SECTION"
                     /\ Ref!Meaning(prog, s).section = sym[s].section
  BY ExportedBuilt
<1>4. Ref!Exported(prog) \subseteq Sym
  BY ExportedBuilt
<1> SUFFICES ASSUME NEW n \in SecName
             PROVE  SecSeen(n) /\ Included(n) <=> n \in Ref!Needed(prog)
  BY DEF Ref!Needed
<1> DEFINE Placed == \E s \in Sym : Emitted(s) /\ sym[s].where = "SECTION" /\ sym[s].section = n
<1>5. n \in Ref!Needed(prog) <=> sec[n].size > 0 \/ Placed
  <2>1. n \in Ref!Needed(prog)
          <=> \/ End.size[n] > 0
              \/ \E s \in Ref!Exported(prog) : /\ Ref!Meaning(prog, s).ref = "SECTION"
                                               /\ Ref!Meaning(prog, s).section = n
    BY DEF Ref!Needed, End
  <2> QED BY <1>2, <1>3, <1>4, <2>1
<1>6. Included(n) <=> sec[n].size > 0 \/ Placed \/ \E j \in 1 .. Len(relocs) : relocs[j].sec = n
  <2>1. OnceOf(syms, {s \in Sym : Interned(s)}) /\ \A s \in Sym : Emitted(s) => Interned(s)
    BY <1>1 DEF ListsInv
  <2>2. /\ \A s \in Sym : Interned(s) => \E k \in 1 .. Len(syms) : syms[k] = s
        /\ \A k \in 1 .. Len(syms) : syms[k] \in Sym
    BY <2>1 DEF OnceOf
  <2> QED BY <2>1, <2>2 DEF Included
<1>7. (\E j \in 1 .. Len(relocs) : relocs[j].sec = n) => sec[n].size > 0
  <2> SUFFICES ASSUME NEW j \in 1 .. Len(relocs), relocs[j].sec = n PROVE sec[n].size > 0
    OBVIOUS
  <2>1. PICK k \in 1 .. Len(fixes) : relocs[j] = RelocOf(fixes[k])
    BY <1>1 DEF ResolvedInv
  <2>2. fixes[k].sec = n /\ fixes[k].offset \in Nat
    BY <1>1, <2>1 DEF RelocOf, Fix
  <2>3. fixes[k].offset + FieldWidth(fixes[k].kind) <= sec[n].size
    BY <1>1, <2>2 DEF Base, PlacedInv, FixupsInBounds
  <2>4. FieldWidth(fixes[k].kind) \in {4, 8}
    BY DEF FieldWidth
  <2> QED BY <1>2, <2>2, <2>3, <2>4
<1>8. sec[n].size > 0 => SecSeen(n)
  <2> SUFFICES ASSUME ~SecSeen(n) PROVE sec[n].size = 0
    BY <1>2
  <2> QED BY <1>1 DEF Base, UnseenInv, NewSection
<1>9. LabelsAnchored => (Placed => SecSeen(n))
  BY DEF LabelsAnchored
<1> QED BY <1>5, <1>6, <1>7, <1>8, <1>9 DEF AllInv

\* The section table of the object is the one the source calls for.
LEMMA SectionsBuilt == AllInv /\ Built => SectionsCorrect
<1> SUFFICES ASSUME AllInv, Built PROVE SectionsCorrect
  OBVIOUS
<1> DEFINE I == IncludedSections
           n == Len(I)
           X == Ref!Needed(prog)
           T == {m \in SecName : SecSeen(m)}
           S == {m \in SecName : Included(m)}
           got == Object.sections
<1>1. sects \in Seq(SecName) /\ OnceOf(sects, T) /\ T \cap S = X /\ I = Among(sects, S)
  BY NeededBuilt DEF AllInv, Base, PlacedInv, Typed, StateTypeOK, UnitTypeOK, ListsInv,
     IncludedSections
<1>2. got = [k \in 1 .. n |-> [name |-> I[k], attrs |-> sec[I[k]]]]
  BY WhenBuilt DEF ObjectImage
<1>3. \A m \in SecName : sec[m].kind = End.kind[m] /\ sec[m].size = End.size[m]
  <2> SUFFICES ASSUME NEW m \in SecName
               PROVE  sec[m].kind = End.kind[m] /\ sec[m].size = End.size[m]
    OBVIOUS
  <2>1. sec[m].kind = End.kind[m] /\ sec[m].size = SizeTo(prog, Read, m)
    BY WhenBuilt DEF Built, Agree, SectionsAgree, Exact
  <2> QED BY <2>1, WhenBuilt, SizeWhole DEF End
<1>4. \A m \in SecName : \A a \in Ref!AlignsIn(prog, m) : sec[m].align % a = 0
  BY AlignsBuilt
<1> HIDE DEF I, n, X, T, S, got
<1>5. I \in Seq(SecName) /\ OnceOf(I, X)
  BY <1>1, AmongIs
<1>6. n = Cardinality(X) /\ X = {I[k] : k \in 1 .. n} /\ n \in Nat /\ \A k \in 1 .. n : I[k] \in SecName
  BY <1>5, OnceCounts, LenProperties, ElementOfSeq DEF n
<1>7. /\ DOMAIN got = 1 .. n /\ Len(got) = n
      /\ \A k \in 1 .. n : got[k].name = I[k] /\ got[k].attrs = sec[I[k]]
  BY <1>2, <1>6
<1>8. {got[k].name : k \in DOMAIN got} = X
  <2>1. \A e : e \in {got[k].name : k \in DOMAIN got} <=> \E k \in 1 .. n : e = I[k]
    BY <1>7
  <2> QED BY <1>6, <2>1
<1>9. \A k \in 1 .. n :
        /\ got[k].attrs.kind = End.kind[got[k].name]
        /\ got[k].attrs.size = End.size[got[k].name]
        /\ \A a \in Ref!AlignsIn(prog, got[k].name) : got[k].attrs.align % a = 0
  BY <1>3, <1>4, <1>6, <1>7
<1> QED BY <1>6, <1>7, <1>8, <1>9 DEF SectionsCorrect, End, X, got

-----------------------------------------------------------------------------
(* 9. Linking. *)

\* What the object's entry for symbol s amounts to.
LEMMA EntryBuilt ==
  ASSUME AllInv, Built, NEW s \in Sym
  PROVE  LET e == Ref!EntryOf(prog, s)
         IN /\ e.name = s
            /\ e.value \in Nat /\ e.section \in SecName
            /\ sym[s].where = "SECTION" /\ ~sym[s].global
                 => /\ e.bind = "LOCAL" /\ e.ref = "SECTION"
                    /\ e.section = sym[s].section /\ e.value = sym[s].value
<1>1. Ref!EntryOf(prog, s) = SymbolEntry(s)
  BY ExportedBuilt
<1>2. sym[s].value \in Nat /\ sym[s].section \in SecName /\ sym[s].global \in BOOLEAN
  BY DEF AllInv, Base, PlacedInv, Typed, StateTypeOK, UnitTypeOK, Symbol
<1>3. /\ SymbolEntry(s).name = s
      /\ SymbolEntry(s).bind = IF sym[s].global \/ ~Defined(s) THEN "GLOBAL" ELSE "LOCAL"
      /\ SymbolEntry(s).ref = IF Defined(s) THEN sym[s].where ELSE "UNDEF"
      /\ SymbolEntry(s).section = sym[s].section
      /\ SymbolEntry(s).value = IF Defined(s) THEN sym[s].value ELSE 0
  BY DEF SymbolEntry
<1> QED BY <1>1, <1>2, <1>3 DEF Defined

\* Addresses are numbers.
LEMMA AddressBuilt ==
  ASSUME AllInv, Built, NEW s \in Sym,
         NEW base \in [SecName -> Bases], NEW ext \in [Sym -> Bases]
  PROVE  EntryAddress(Ref!EntryOf(prog, s), base, ext) \in Int
<1> DEFINE e == Ref!EntryOf(prog, s)
<1>1. e.name = s /\ e.value \in Nat /\ e.section \in SecName
  BY EntryBuilt
<1>2. base[e.section] \in Nat /\ ext[e.name] \in Nat
  BY <1>1, BasesAssumption
<1> HIDE DEF e
<1> QED BY <1>1, <1>2 DEF EntryAddress, e

\* The relocations of the object are those of the fixups left to the linker.
LEMMA RelasBuilt ==
  ASSUME AllInv, Built
  PROVE  LET relas == {Object.relas[k] : k \in DOMAIN Object.relas}
         IN /\ Len(Object.relas) = Len(relocs)
            /\ \A r : r \in relas <=> \E k \in 1 .. Len(fixes) :
                        ~ResolvesLocally(fixes[k]) /\ r = RelocOf(fixes[k])
            /\ \A k \in 1 .. Len(fixes) : ~ResolvesLocally(fixes[k])
                 => fixes[k].sym \in Ref!Exported(prog)
<1> DEFINE n == Len(relocs)
<1>1. /\ ResolvedInv /\ next - 1 = Len(fixes) /\ relocs \in Seq(Reloc) /\ n \in Nat
      /\ \A k \in 1 .. Len(fixes) : fixes[k] \in Fix
  BY WhenBuilt, LenProperties, ElementOfSeq
     DEF AllInv, Base, PlacedInv, Typed, StateTypeOK, UnitTypeOK
<1>2. Object.relas = [k \in 1 .. n |-> [relocs[k] EXCEPT !.sym = Handle(relocs[k].sym)]]
  BY WhenBuilt DEF ObjectImage
<1>3. ASSUME NEW k \in 1 .. Len(fixes), ~ResolvesLocally(fixes[k])
      PROVE  Emitted(fixes[k].sym) /\ fixes[k].sym \in Sym
  <2>1. fixes[k].sym \in Sym
    BY <1>1 DEF Fix
  <2>2. sym[fixes[k].sym].referenced = TRUE
    BY <1>1, <1>3, <2>1 DEF ResolvedInv
  <2> QED BY <2>1, <2>2 DEF Emitted
<1>4. ASSUME NEW j \in 1 .. n
      PROVE  [relocs[j] EXCEPT !.sym = Handle(relocs[j].sym)] = relocs[j]
  <2>1. relocs[j] \in Reloc
    BY <1>1, ElementOfSeq
  <2>2. PICK k \in 1 .. Len(fixes) : ~ResolvesLocally(fixes[k]) /\ relocs[j] = RelocOf(fixes[k])
    BY <1>1 DEF ResolvedInv
  <2>3. relocs[j].sym = fixes[k].sym
    BY <2>2 DEF RelocOf
  <2>4. Handle(relocs[j].sym) = relocs[j].sym
    BY <1>3, <2>2, <2>3 DEF Handle
  <2> QED BY <2>1, <2>4 DEF Reloc
<1> HIDE DEF n
<1>5. Object.relas = [k \in 1 .. n |-> relocs[k]]
  BY <1>2, <1>4
<1>6. DOMAIN Object.relas = 1 .. n /\ Len(Object.relas) = n /\ \A k \in 1 .. n : Object.relas[k] = relocs[k]
  BY <1>1, <1>5
<1>7. \A r : r \in {Object.relas[k] : k \in DOMAIN Object.relas} <=> \E j \in 1 .. n : r = relocs[j]
  BY <1>6
<1>8. \A r : (\E j \in 1 .. n : r = relocs[j])
               <=> \E k \in 1 .. Len(fixes) : ~ResolvesLocally(fixes[k]) /\ r = RelocOf(fixes[k])
  <2>1. /\ \A k \in 1 .. Len(fixes) : ~ResolvesLocally(fixes[k])
             => \E j \in 1 .. n : relocs[j] = RelocOf(fixes[k])
        /\ \A j \in 1 .. n : \E k \in 1 .. Len(fixes) :
             ~ResolvesLocally(fixes[k]) /\ relocs[j] = RelocOf(fixes[k])
    BY <1>1 DEF ResolvedInv, n
  <2> QED BY <2>1
<1>9. \A k \in 1 .. Len(fixes) : ~ResolvesLocally(fixes[k]) => fixes[k].sym \in Ref!Exported(prog)
  BY <1>3, ExportedBuilt
<1> QED BY <1>6, <1>7, <1>8, <1>9 DEF n

\* A relocation that does for fixup fx what the field f it fills asks for.
LEMMA RelocationValue ==
  ASSUME AllInv, Built, NEW k \in 1 .. Len(fixes), ~ResolvesLocally(fixes[k]),
         NEW f, Describes(fixes[k], f), f.sym \in Sym,
         NEW base \in [SecName -> Bases], NEW ext \in [Sym -> Bases]
  PROVE  RelocValue(RelocOf(fixes[k]), base, ext) = FieldValue(f, base, ext)
<1> DEFINE fx == fixes[k]
           r  == RelocOf(fx)
           s  == fx.sym
           A  == EntryAddress(Ref!EntryOf(prog, s), base, ext)
           entries == {Object.symbols[i] : i \in DOMAIN Object.symbols}
<1>1. fx \in Fix
  BY ElementOfSeq DEF AllInv, Base, PlacedInv, Typed, StateTypeOK, UnitTypeOK
<1>2. fx.sec \in SecName /\ fx.offset \in Nat /\ fx.addend \in Int /\ fx.kind \in FixKind
  BY <1>1 DEF Fix
<1>3. /\ r.sec = fx.sec /\ r.offset = fx.offset /\ r.sym = s /\ r.addend = fx.addend
      /\ r.type = "R_X86_64_PC32" <=> fx.kind = "PC32"
  BY <1>2 DEF RelocOf, RelocTypeOf, FixKind
<1>4. /\ f.sec = fx.sec /\ f.sym = s /\ (f.pc <=> fx.kind = "PC32") /\ f.offset = fx.offset
      /\ f.add \in Int /\ f.after \in Int
      /\ fx.addend = IF fx.kind = "PC32" THEN f.add - (f.after - f.offset) ELSE f.add
  BY DEF Describes
<1>5. A \in Int /\ base[fx.sec] \in Nat
  BY <1>2, <1>4, AddressBuilt, BasesAssumption
<1>6. EntryNamed(s) = Ref!EntryOf(prog, s)
  <2>1. entries = {Ref!EntryOf(prog, t) : t \in Ref!Exported(prog)}
    BY SymbolsBuilt DEF SymbolsCorrect, Built
  <2>2. s \in Ref!Exported(prog)
    BY RelasBuilt
  <2>3. Ref!Exported(prog) \subseteq Sym
    BY ExportedBuilt
  <2>4. \A t \in Sym : Ref!EntryOf(prog, t).name = t
    BY EntryBuilt
  <2>5. Ref!EntryOf(prog, s) \in entries /\ Ref!EntryOf(prog, s).name = s
    BY <2>1, <2>2, <2>3, <2>4
  <2>6. \A e \in entries : e.name = s => e = Ref!EntryOf(prog, s)
    BY <2>1, <2>3, <2>4
  <2>7. EntryNamed(s) = CHOOSE e \in entries : e.name = s
    BY DEF EntryNamed
  <2> HIDE DEF entries
  <2> QED BY <2>5, <2>6, <2>7
<1>7. RelocValue(r, base, ext) = IF r.type = "R_X86_64_PC32" THEN A + r.addend - (base[r.sec] + r.offset)
                                 ELSE A + r.addend
  BY <1>3, <1>6 DEF RelocValue
<1>8. FieldValue(f, base, ext) = IF f.pc THEN A + f.add - (base[f.sec] + f.after) ELSE A + f.add
  BY <1>4 DEF FieldValue
<1> HIDE DEF fx, r, s, A
<1>9. RelocValue(r, base, ext) = FieldValue(f, base, ext)
  <2>1. CASE fx.kind = "PC32"
    <3>1. RelocValue(r, base, ext) = A + fx.addend - (base[fx.sec] + fx.offset)
      BY <1>3, <1>7, <2>1
    <3>2. FieldValue(f, base, ext) = A + f.add - (base[fx.sec] + f.after)
      BY <1>4, <1>8, <2>1
    <3> QED BY SMTT(60), <1>2, <1>4, <1>5, <2>1, <3>1, <3>2
  <2>2. CASE fx.kind # "PC32"
    BY <1>3, <1>4, <1>7, <1>8, <2>2
  <2> QED BY <2>1, <2>2
<1> QED BY <1>9 DEF r, fx

\* So does the distance the driver patches in.
LEMMA PatchValue ==
  ASSUME AllInv, Built, NEW k \in 1 .. Len(fixes), ResolvesLocally(fixes[k]),
         NEW f, Describes(fixes[k], f), f.sym \in Sym,
         NEW base \in [SecName -> Bases], NEW ext \in [Sym -> Bases]
  PROVE  Distance(fixes[k]) = FieldValue(f, base, ext)
<1> DEFINE fx == fixes[k]
           s  == fx.sym
           e  == Ref!EntryOf(prog, s)
<1>1. fx \in Fix
  BY ElementOfSeq DEF AllInv, Base, PlacedInv, Typed, StateTypeOK, UnitTypeOK
<1>2. fx.sec \in SecName /\ fx.offset \in Nat /\ fx.addend \in Int
  BY <1>1 DEF Fix
<1>3. /\ f.sec = fx.sec /\ f.sym = s /\ (f.pc <=> fx.kind = "PC32") /\ f.offset = fx.offset
      /\ f.add \in Int /\ f.after \in Int
      /\ fx.addend = IF fx.kind = "PC32" THEN f.add - (f.after - f.offset) ELSE f.add
  BY DEF Describes
<1>4. fx.kind = "PC32" /\ sym[s].where = "SECTION" /\ sym[s].section = fx.sec /\ ~sym[s].global
  BY DEF ResolvesLocally
<1>5. /\ e.bind = "LOCAL" /\ e.ref = "SECTION" /\ e.section = fx.sec
      /\ e.value = sym[s].value /\ sym[s].value \in Nat
  BY <1>3, <1>4, EntryBuilt
<1>6. base[fx.sec] \in Nat
  BY <1>2, BasesAssumption
<1>7. EntryAddress(e, base, ext) = base[fx.sec] + sym[s].value
  BY <1>5 DEF EntryAddress
<1>8. FieldValue(f, base, ext) = base[fx.sec] + sym[s].value + f.add - (base[fx.sec] + f.after)
  BY <1>3, <1>4, <1>7 DEF FieldValue
<1>9. Distance(fx) = sym[s].value + (f.add - (f.after - fx.offset)) - fx.offset
  BY <1>3, <1>4 DEF Distance
<1> HIDE DEF fx, s, e
<1>10. Distance(fx) = FieldValue(f, base, ext)
  <2> DEFINE b == base[fx.sec]
             v == sym[s].value
             o == fx.offset
             d == Distance(fx)
             w == FieldValue(f, base, ext)
  <2>1. b \in Int /\ v \in Int /\ o \in Int /\ f.add \in Int /\ f.after \in Int
    BY <1>2, <1>3, <1>5, <1>6
  <2>2. d = v + (f.add - (f.after - o)) - o /\ w = b + v + f.add - (b + f.after)
    BY <1>8, <1>9
  <2> HIDE DEF b, v, o, d, w
  <2>3. d = w
    BY SMTT(60), <2>1, <2>2
  <2> QED BY <2>3 DEF d, w
<1> QED BY <1>10 DEF fx

\* Every symbolic field is filled once and as the source asks.
LEMMA LinkBuilt == AllInv /\ Built => LinkCorrect
<1> SUFFICES ASSUME AllInv, Built PROVE LinkCorrect
  OBVIOUS
<1> DEFINE relas  == {Object.relas[k] : k \in DOMAIN Object.relas}
           fields == Ref!Fields(prog)
           RelasAt(f)   == {r \in relas : r.sec = f.sec /\ r.offset = f.offset}
           PatchesAt(f) == {q \in patches : q.sec = f.sec /\ q.offset = f.offset}
           N == Len(fixes)
<1>1. PICK fl \in [1 .. N -> fields] :
        /\ \A f \in fields : \E k \in 1 .. N : fl[k] = f
        /\ \A k \in 1 .. N :
             /\ Describes(fixes[k], fl[k]) /\ fl[k].sym \in Sym
             /\ Ref!LinkInvariant(prog, fl[k]) <=> ResolvesLocally(fixes[k])
  BY FieldsBuilt
<1>2. /\ ResolvedInv /\ PlacedInv /\ errs = 0 /\ N \in Nat /\ next - 1 = N /\ InRangeSoFar
      /\ \A k \in 1 .. N : fixes[k] \in Fix
  BY WhenBuilt, ElementOfSeq DEF AllInv, Base, PlacedInv, Typed, StateTypeOK, UnitTypeOK
<1>3. \A j, k \in 1 .. N : fixes[j].sec = fixes[k].sec /\ fixes[j].offset = fixes[k].offset => j = k
  BY <1>2, PlacesDiffer
<1>4. \A k \in 1 .. N : /\ fl[k].sec = fixes[k].sec /\ fl[k].offset = fixes[k].offset
                        /\ fl[k].width = FieldWidth(fixes[k].kind)
  BY <1>1 DEF Describes
<1>5. Len(Object.relas) + Cardinality(patches) = Cardinality(fields)
  <2>1. fl \in Bijection(1 .. N, fields)
    <3>1. \A j, k \in 1 .. N : fl[j] = fl[k] => j = k
      BY <1>3, <1>4
    <3> HIDE DEF fields, N
    <3> QED BY <1>1, <3>1 DEF Bijection, Injection, Surjection, IsInjective
  <2>2. ExistsBijection(1 .. N, fields)
    BY <2>1 DEF ExistsBijection
  <2>3. IsFiniteSet(1 .. N) /\ Cardinality(1 .. N) = N
    <3>1. N \in Nat
      BY <1>2
    <3> HIDE DEF N
    <3> QED BY <3>1, FS_Interval
  <2>4. Cardinality(fields) = N
    BY <2>2, <2>3, FS_Bijection
  <2>5. Len(relocs) + Cardinality(patches) = N
    BY <1>2 DEF ResolvedInv
  <2> QED BY <2>4, <2>5, RelasBuilt
<1>6. \A r : r \in relas <=> \E k \in 1 .. N : ~ResolvesLocally(fixes[k]) /\ r = RelocOf(fixes[k])
  BY RelasBuilt
<1>7. \A q : q \in patches <=> \E k \in 1 .. N : ResolvesLocally(fixes[k]) /\ q = PatchOf(fixes[k])
  <2>1. \A k \in 1 .. N : ResolvesLocally(fixes[k]) => InRange(Distance(fixes[k]))
    BY <1>2 DEF InRangeSoFar
  <2>2. /\ \A k \in 1 .. N : ResolvesLocally(fixes[k]) /\ InRange(Distance(fixes[k]))
             => PatchOf(fixes[k]) \in patches
        /\ \A q \in patches : \E k \in 1 .. N : ResolvesLocally(fixes[k]) /\ q = PatchOf(fixes[k])
    BY <1>2 DEF ResolvedInv
  <2> QED BY <2>1, <2>2
<1>8. ASSUME NEW k \in 1 .. N, ~ResolvesLocally(fixes[k])
      PROVE  RelasAt(fl[k]) = {RelocOf(fixes[k])} /\ PatchesAt(fl[k]) = {}
  <2>1. \A j \in 1 .. N : RelocOf(fixes[j]).sec = fixes[j].sec /\ RelocOf(fixes[j]).offset = fixes[j].offset
    BY DEF RelocOf
  <2>2. \A j \in 1 .. N : PatchOf(fixes[j]).sec = fixes[j].sec /\ PatchOf(fixes[j]).offset = fixes[j].offset
    BY DEF PatchOf
  <2> HIDE DEF relas, N
  <2>3. ASSUME NEW r \in relas, r.sec = fl[k].sec, r.offset = fl[k].offset
        PROVE  r = RelocOf(fixes[k])
    <3>1. PICK j \in 1 .. N : r = RelocOf(fixes[j])
      BY <1>6
    <3>2. fixes[j].sec = fixes[k].sec /\ fixes[j].offset = fixes[k].offset
      BY <1>4, <2>1, <2>3, <3>1
    <3>3. j = k
      BY <1>3, <3>2
    <3> QED BY <3>1, <3>3
  <2>4. /\ RelocOf(fixes[k]) \in relas /\ RelocOf(fixes[k]).sec = fl[k].sec
        /\ RelocOf(fixes[k]).offset = fl[k].offset
    BY <1>4, <1>6, <1>8, <2>1
  <2>5. ASSUME NEW q \in patches, q.sec = fl[k].sec, q.offset = fl[k].offset
        PROVE  FALSE
    <3>1. PICK j \in 1 .. N : ResolvesLocally(fixes[j]) /\ q = PatchOf(fixes[j])
      BY <1>7
    <3>2. fixes[j].sec = fixes[k].sec /\ fixes[j].offset = fixes[k].offset
      BY <1>4, <2>2, <2>5, <3>1
    <3>3. j = k
      BY <1>3, <3>2
    <3> QED BY <1>8, <3>1, <3>3
  <2> QED BY <2>3, <2>4, <2>5
<1>9. ASSUME NEW k \in 1 .. N, ResolvesLocally(fixes[k])
      PROVE  RelasAt(fl[k]) = {} /\ PatchesAt(fl[k]) = {PatchOf(fixes[k])}
  <2>1. \A j \in 1 .. N : RelocOf(fixes[j]).sec = fixes[j].sec /\ RelocOf(fixes[j]).offset = fixes[j].offset
    BY DEF RelocOf
  <2>2. \A j \in 1 .. N : PatchOf(fixes[j]).sec = fixes[j].sec /\ PatchOf(fixes[j]).offset = fixes[j].offset
    BY DEF PatchOf
  <2> HIDE DEF relas, N
  <2>3. ASSUME NEW r \in relas, r.sec = fl[k].sec, r.offset = fl[k].offset
        PROVE  FALSE
    <3>1. PICK j \in 1 .. N : ~ResolvesLocally(fixes[j]) /\ r = RelocOf(fixes[j])
      BY <1>6
    <3>2. fixes[j].sec = fixes[k].sec /\ fixes[j].offset = fixes[k].offset
      BY <1>4, <2>1, <2>3, <3>1
    <3>3. j = k
      BY <1>3, <3>2
    <3> QED BY <1>9, <3>1, <3>3
  <2>4. /\ PatchOf(fixes[k]) \in patches /\ PatchOf(fixes[k]).sec = fl[k].sec
        /\ PatchOf(fixes[k]).offset = fl[k].offset
    BY <1>4, <1>7, <1>9, <2>2
  <2>5. ASSUME NEW q \in patches, q.sec = fl[k].sec, q.offset = fl[k].offset
        PROVE  q = PatchOf(fixes[k])
    <3>1. PICK j \in 1 .. N : q = PatchOf(fixes[j])
      BY <1>7
    <3>2. fixes[j].sec = fixes[k].sec /\ fixes[j].offset = fixes[k].offset
      BY <1>4, <2>2, <2>5, <3>1
    <3>3. j = k
      BY <1>3, <3>2
    <3> QED BY <3>1, <3>3
  <2> QED BY <2>3, <2>4, <2>5
<1> DEFINE Right(f) ==
             /\ Cardinality(RelasAt(f)) + Cardinality(PatchesAt(f)) = 1
             /\ \A r \in RelasAt(f) : RelocWidth(r) = f.width
             /\ \A base \in [SecName -> Bases], ext \in [Sym -> Bases] :
                  /\ \A r \in RelasAt(f) : RelocValue(r, base, ext) = FieldValue(f, base, ext)
                  /\ \A q \in PatchesAt(f) : q.value = FieldValue(f, base, ext)
<1>10. \A x : Cardinality({x}) = 1
  BY FS_Singleton
<1>11. Cardinality({}) = 0
  BY FS_EmptySet
<1>12. ASSUME NEW k \in 1 .. N PROVE Right(fl[k])
  <2> HIDE DEF RelasAt, PatchesAt
  <2>1. CASE ~ResolvesLocally(fixes[k])
    <3>1. RelasAt(fl[k]) = {RelocOf(fixes[k])} /\ PatchesAt(fl[k]) = {}
      BY <1>8, <2>1
    <3>2. Cardinality(RelasAt(fl[k])) + Cardinality(PatchesAt(fl[k])) = 1
      <4>1. Cardinality(RelasAt(fl[k])) = 1
        BY <1>10, <3>1
      <4>2. Cardinality(PatchesAt(fl[k])) = 0
        BY <1>11, <3>1
      <4> QED BY <4>1, <4>2
    <3>3. RelocWidth(RelocOf(fixes[k])) = fl[k].width
      <4>1. RelocOf(fixes[k]).type = "R_X86_64_64" <=> fixes[k].kind = "ABS64"
        BY <1>2 DEF RelocOf, RelocTypeOf, Fix, FixKind
      <4> QED BY <1>4, <4>1 DEF RelocWidth, FieldWidth
    <3>4. ASSUME NEW base \in [SecName -> Bases], NEW ext \in [Sym -> Bases]
          PROVE  RelocValue(RelocOf(fixes[k]), base, ext) = FieldValue(fl[k], base, ext)
      BY <1>1, <2>1, RelocationValue
    <3> QED BY <3>1, <3>2, <3>3, <3>4
  <2>2. CASE ResolvesLocally(fixes[k])
    <3>1. RelasAt(fl[k]) = {} /\ PatchesAt(fl[k]) = {PatchOf(fixes[k])}
      BY <1>9, <2>2
    <3>2. Cardinality(RelasAt(fl[k])) + Cardinality(PatchesAt(fl[k])) = 1
      <4>1. Cardinality(PatchesAt(fl[k])) = 1
        BY <1>10, <3>1
      <4>2. Cardinality(RelasAt(fl[k])) = 0
        BY <1>11, <3>1
      <4> QED BY <4>1, <4>2
    <3>3. ASSUME NEW base \in [SecName -> Bases], NEW ext \in [Sym -> Bases]
          PROVE  PatchOf(fixes[k]).value = FieldValue(fl[k], base, ext)
      <4>1. Distance(fixes[k]) = FieldValue(fl[k], base, ext)
        BY <1>1, <2>2, PatchValue
      <4> QED BY <4>1 DEF PatchOf
    <3> QED BY <3>1, <3>2, <3>3
  <2> QED BY <2>1, <2>2
<1>13. \A f \in fields : Right(f)
  <2> HIDE DEF Right, fields, N
  <2> QED BY <1>1, <1>12
<1> QED BY <1>5, <1>13 DEF LinkCorrect

-----------------------------------------------------------------------------

\* All that was proved of the driver, at every moment of every run.
LEMMA AllAlways == Spec => []AllInv
<1>1. Base /\ AgreeInv /\ EndInv /\ ListsInv /\ ResolvedInv /\ LabelsAnchored => AllInv
  BY DEF AllInv
<1> QED BY <1>1, AlwaysEnds, LabelsAnchoredAlways, InitLists, NextLists, InitResolved,
           NextResolved, PTL DEF Spec

\* Whatever is interned, referenced or made global, in whatever order, the
\* object's symbols are those a linker needs, each as the source means it:
\* for every program whose sections fit in 2^64 bytes and that is valid, if
\* memory may run out, else for every one that gets an object (build_object,
\* qas_asm_symtab).
THEOREM SymbolsCorrectAlways == Spec => [](Built => SymbolsCorrect)
<1>1. AllInv => (Built => SymbolsCorrect)
  BY SymbolsBuilt
<1> QED BY <1>1, AllAlways, PTL

\* Under the same conditions its sections are the needed ones, with the kind
\* and size the statements add up to and aligned to every request
\* (build_object, qas_asm_unit_align).
THEOREM SectionsCorrectAlways == Spec => [](Built => SectionsCorrect)
<1>1. AllInv => (Built => SectionsCorrect)
  BY SectionsBuilt
<1> QED BY <1>1, AllAlways, PTL

\* And wherever a linker places the sections, every symbolic field ends up
\* with the value the source asks for, filled once, by the driver or by a
\* relocation, and nothing else is touched (resolve_fixups, build_object).
THEOREM LinkCorrectAlways == Spec => [](Built => LinkCorrect)
<1>1. AllInv => (Built => LinkCorrect)
  BY LinkBuilt
<1> QED BY <1>1, AllAlways, PTL
=============================================================================
