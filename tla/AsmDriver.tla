----------------------------- MODULE AsmDriver ------------------------------
(***************************************************************************)
(* qas_assemble (asm/asm.c, asm/internal/directive.c): the passes over the *)
(* parsed statements.                                                      *)
(*                                                                         *)
(*   layout   pass 2, one action per kind of statement; the argument loops *)
(*            of the data directives and .globl take one step per argument *)
(*   resolve  pass 3a, one step per fixup                                  *)
(*   build    pass 3b, the object is built if no error was counted         *)
(*   done     qas_assemble has returned                                    *)
(*                                                                         *)
(* The source program is not fixed in advance: any statement may come next *)
(* until MaxStmts have, and prog remembers them.                           *)
(***************************************************************************)
EXTENDS AsmUnit

CONSTANTS
  Insns,        \* the instructions a source may contain
  ArgStmts,     \* its directives that loop over arguments
  Zeros,        \* the counts of its .zero directives
  Aligns,       \* the alignments of its .align and .p2align directives
  AbsValues,    \* the values of its .set directives
  RelMax,       \* INT32_MAX, scaled down
  MaxStmts,     \* bound on the length of the source
  Mistakes,     \* whether it may hold malformed statements
  AllocMayFail  \* whether memory may run out at any allocation

(***************************************************************************)
(* One argument of a looping directive.  "wide" is an integer that         *)
(* overflows every field narrower than 8 bytes; "escape" is a string with  *)
(* a malformed escape.  len is the decoded length of a string.             *)
(***************************************************************************)
ArgKind == {"int", "wide", "sym", "string", "escape"}
Arg     == [kind : ArgKind, sym : Sym, len : Nat]

\* width is the field width of "ints", and of "strings" the terminator's.
ArgStmt == [dir : {"ints"}, width : {1, 2, 4, 8}, args : Seq(Arg)]
           \cup [dir : {"strings"}, width : {0, 1}, args : Seq(Arg)]
           \cup [dir : {"globl"}, width : {0}, args : Seq(Arg)]

ASSUME StmtAssumption ==
  /\ Insns \subseteq Insn
  /\ ArgStmts \subseteq ArgStmt
  /\ Zeros \subseteq 0 .. U64 - 1
  /\ Aligns \subseteq 1 .. U64 - 1
  /\ \A x, y \in Aligns : x <= y => y % x = 0     \* powers of two
  /\ AbsValues \subseteq 0 .. U64 - 1
  /\ RelMax \in Nat
  /\ MaxStmts \in Nat
  /\ Mistakes \in BOOLEAN
  /\ AllocMayFail \in BOOLEAN

VARIABLES
  phase,      \* the pass that is running
  work,       \* the directive whose remaining arguments are being processed
  errs,       \* error diagnostics counted by the sink
  next,       \* index of the next fixup to resolve
  patches,    \* fields patched with their final value
  relocs,     \* relocation records (reloc_rec)
  status,     \* what qas_assemble returns
  image,      \* {object}, or {} while *out_image is NULL
  prog        \* history: the statements processed so far

vars == <<unitVars, phase, work, errs, next, patches, relocs, status, image,
          prog>>

NoWork  == [dir |-> "none", width |-> 0, args |-> <<>>]

RelType == {"R_X86_64_PC32", "R_X86_64_32S", "R_X86_64_32", "R_X86_64_64"}
Patch   == [sec : SecName, offset : Nat, value : Int]
Reloc   == [sec : SecName, offset : Nat, sym : Sym, type : RelType,
            addend : Int]

-----------------------------------------------------------------------------
(* Outcomes of a step. *)

resolveVars == <<next, patches, relocs>>

\* A diagnostic was emitted and its status checked.
Report == errs' = errs + 1

\* A diagnostic was emitted with its status cast to void: when memory is
\* short it is lost and the error is not counted.
ReportUnchecked == Report \/ (AllocMayFail /\ errs' = errs)

Continue == UNCHANGED <<phase, status, image, resolveVars>>

\* A fatal status: everything is disposed of and no object is produced.
Abort(st) ==
  /\ phase'  = "done"
  /\ status' = st
  /\ image'  = {}
  /\ work'   = NoWork
  /\ UNCHANGED <<unitVars, errs, resolveVars>>

\* The next statement of the source is st.
Take(st) ==
  /\ phase = "layout" /\ work = NoWork /\ Len(prog) < MaxStmts
  /\ prog' = Append(prog, st)

-----------------------------------------------------------------------------
(* Pass 2: labels, sections, symbols. *)

Label(s) ==
  /\ Take([op |-> "label", sym |-> s])
  /\ Store(s, IF Defined(s) THEN sym[s]
              ELSE [sym[s] EXCEPT !.where = "SECTION", !.section = cur,
                                  !.value = Here])
  /\ IF Defined(s) THEN Report ELSE UNCHANGED errs
  /\ UNCHANGED <<sects, sec, cur, fixes, work>> /\ Continue

(***************************************************************************)
(* .text, .data, .rodata and .bss, and .section "name".  Arguments after a *)
(* shortcut are an error but the section is selected all the same; so it   *)
(* is after a malformed escape in a quoted name.                           *)
(***************************************************************************)
ShortcutKind(n) == IF n = ".bss" THEN "NOBITS" ELSE "PROGBITS"

Shortcut(n, extraArgs) ==
  /\ n \in {".text", ".data", ".rodata", ".bss"}
  /\ Take([op |-> "section", name |-> n, kind |-> ShortcutKind(n),
           clean |-> ~extraArgs])
  /\ SelectSection(n, ShortcutKind(n))
  /\ IF extraArgs THEN Report ELSE UNCHANGED errs
  /\ UNCHANGED <<syms, sym, fixes, work>> /\ Continue

NamedSection(n, badEscape) ==
  /\ Take([op |-> "section", name |-> n, kind |-> "PROGBITS",
           clean |-> ~badEscape])
  /\ SelectSection(n, "PROGBITS")
  /\ IF badEscape THEN ReportUnchecked ELSE UNCHANGED errs
  /\ UNCHANGED <<syms, sym, fixes, work>> /\ Continue

\* Fault: .set does not look whether the symbol is already a label.
SetAnyway(s, v) ==
  /\ Take([op |-> "set", sym |-> s, value |-> v])
  /\ Store(s, [sym[s] EXCEPT !.where = "ABS", !.value = v])
  /\ UNCHANGED <<sects, sec, cur, fixes, work, errs>> /\ Continue

Set(s, v) ==
  /\ Take([op |-> "set", sym |-> s, value |-> v])
  /\ Store(s, IF sym[s].where = "SECTION" THEN sym[s]
              ELSE [sym[s] EXCEPT !.where = "ABS", !.value = v])
  /\ IF sym[s].where = "SECTION" THEN Report ELSE UNCHANGED errs
  /\ UNCHANGED <<sects, sec, cur, fixes, work>> /\ Continue

\* A statement that is an error wherever it stands: an unknown directive,
\* arguments of the wrong number or kind, or a syntax error that pass 1
\* already counted.
BadStatement ==
  /\ Take([op |-> "bad"])
  /\ Report /\ UNCHANGED <<unitVars, work>> /\ Continue

-----------------------------------------------------------------------------
(* Pass 2: instructions, space and alignment. *)

\* Grow the current section by n bytes and record new fixups, or fail.
Emit(n, newFixes) ==
  IF CanGrow(n)
  THEN /\ EmitBytes(n)
       /\ fixes' = fixes \o newFixes
       /\ UNCHANGED <<sects, cur, syms, sym, errs, work>> /\ Continue
  ELSE Abort(GrowFailure(n))

Instruction(i) ==
  /\ Take([op |-> "insn", insn |-> i])
  /\ \/ /\ InNobits
        /\ Report /\ UNCHANGED <<unitVars, work>> /\ Continue
     \/ /\ ~InNobits /\ ~Encodable(i)
        /\ ReportUnchecked /\ UNCHANGED <<unitVars, work>> /\ Continue
     \/ /\ ~InNobits /\ Encodable(i)
        /\ Emit(InsnLen(i), InsnFixes(i))

\* No form matches, or an operand is out of range.
BadInstruction ==
  /\ Take([op |-> "badinsn"])
  /\ IF InNobits THEN Report ELSE ReportUnchecked
  /\ UNCHANGED <<unitVars, work>> /\ Continue

Zero(n) ==
  /\ Take([op |-> "zero", count |-> n])
  /\ Emit(n, <<>>)

Align(a) ==
  /\ Take([op |-> "align", to |-> a])
  /\ IF CanGrow(Padding(a))
     THEN /\ AlignTo(a)
          /\ UNCHANGED <<sects, cur, syms, sym, fixes, errs, work>>
          /\ Continue
     ELSE Abort(GrowFailure(Padding(a)))

-----------------------------------------------------------------------------
(* Pass 2: directives that loop over their arguments. *)

ArgDirective(d) ==
  /\ Take([op |-> "args", stmt |-> d])
  /\ LET misplaced == d.dir # "globl" /\ InNobits
     IN \/ misplaced /\ ReportUnchecked /\ UNCHANGED work
        \/ ~misplaced /\ d.args = <<>> /\ Report /\ UNCHANGED work
        \/ ~misplaced /\ d.args # <<>> /\ work' = d /\ UNCHANGED errs
  /\ UNCHANGED unitVars /\ Continue

NextArg == Head(work.args)

\* Leave the argument in hand: go on with the next one, or end the loop.
Advance == work' = IF Len(work.args) = 1 THEN NoWork
                   ELSE [work EXCEPT !.args = Tail(@)]

\* The argument emits n bytes, is the place of newFixes, and reports nothing.
EmitArg(n, newFixes) ==
  IF CanGrow(n)
  THEN /\ EmitBytes(n) /\ fixes' = fixes \o newFixes /\ Advance
       /\ UNCHANGED <<sects, cur, syms, sym, errs>> /\ Continue
  ELSE Abort(GrowFailure(n))

RejectArg == Report /\ Advance /\ UNCHANGED unitVars /\ Continue

IntFits(a, w) == a.kind = "int" \/ (a.kind = "wide" /\ w = 8)

IntsArg ==
  /\ work.dir = "ints"
  /\ \/ /\ IntFits(NextArg, work.width)
        /\ EmitArg(work.width, <<>>)
     \/ /\ NextArg.kind = "sym" /\ work.width \in {4, 8}
        /\ EmitArg(work.width,
                   <<FixOf([offset |-> 0, sym |-> NextArg.sym, addend |-> 0,
                            kind   |-> IF work.width = 8 THEN "ABS64"
                                                         ELSE "ABS32"])>>)
     \/ /\ ~IntFits(NextArg, work.width)
        /\ ~(NextArg.kind = "sym" /\ work.width \in {4, 8})
        /\ RejectArg
  /\ UNCHANGED prog

\* A string with a malformed escape is emitted too; only its diagnostic
\* tells it from a sound one.
StringsArg ==
  /\ work.dir = "strings"
  /\ \/ /\ NextArg.kind = "string"
        /\ EmitArg(NextArg.len + work.width, <<>>)
     \/ /\ NextArg.kind = "escape"
        /\ IF CanGrow(NextArg.len + work.width)
           THEN /\ ReportUnchecked /\ EmitBytes(NextArg.len + work.width)
                /\ Advance
                /\ UNCHANGED <<sects, cur, syms, sym, fixes>> /\ Continue
           ELSE Abort(GrowFailure(NextArg.len + work.width))
     \/ /\ NextArg.kind \notin {"string", "escape"}
        /\ RejectArg
  /\ UNCHANGED prog

GloblArg ==
  /\ work.dir = "globl"
  /\ \/ /\ NextArg.kind = "sym"
        /\ Store(NextArg.sym, [Intern(NextArg.sym) EXCEPT !.global = TRUE])
        /\ Advance
        /\ UNCHANGED <<sects, sec, cur, fixes, errs>> /\ Continue
     \/ /\ NextArg.kind # "sym"
        /\ RejectArg
  /\ UNCHANGED prog

-----------------------------------------------------------------------------
(* Pass 3a: resolve the fixups in the order they were recorded. *)

EndOfSource ==
  /\ phase = "layout" /\ work = NoWork
  /\ phase' = "resolve"
  /\ UNCHANGED <<unitVars, work, errs, resolveVars, status, image, prog>>

\* Fault: a global symbol is resolved as if nothing could interpose it.
ResolvesGlobals(fx) ==
  /\ fx.kind = "PC32"
  /\ sym[fx.sym].where = "SECTION"
  /\ sym[fx.sym].section = fx.sec

\* A PC-relative reference to a local label of its own section has a
\* distance no linker can change.
ResolvesLocally(fx) ==
  /\ fx.kind = "PC32"
  /\ sym[fx.sym].where = "SECTION"
  /\ sym[fx.sym].section = fx.sec
  /\ ~sym[fx.sym].global

Distance(fx) == sym[fx.sym].value + fx.addend - fx.offset
InRange(v)   == -RelMax - 1 <= v /\ v <= RelMax

\* qas_buf_patch_u32le accepts only a field inside the buffer.
Patchable(fx) == fx.offset + 4 <= sec[fx.sec].size

Resolving == phase = "resolve" /\ next <= Len(fixes)

PatchLocal ==
  /\ Resolving /\ ResolvesLocally(fixes[next]) /\ InRange(Distance(fixes[next]))
  /\ IF Patchable(fixes[next])
     THEN /\ patches' = patches \cup
                          {[sec    |-> fixes[next].sec,
                            offset |-> fixes[next].offset,
                            value  |-> Distance(fixes[next])]}
          /\ next' = next + 1
          /\ UNCHANGED <<unitVars, phase, work, errs, relocs, status, image>>
     ELSE Abort("INVALID_ARGUMENT")
  /\ UNCHANGED prog

\* Fault: a fixup out of range is met again and again.
OutOfRangeStays ==
  /\ Resolving /\ ResolvesLocally(fixes[next]) /\ ~InRange(Distance(fixes[next]))
  /\ UNCHANGED vars

OutOfRange ==
  /\ Resolving /\ ResolvesLocally(fixes[next]) /\ ~InRange(Distance(fixes[next]))
  /\ Report
  /\ next' = next + 1
  /\ UNCHANGED <<unitVars, phase, work, patches, relocs, status, image, prog>>

\* Fault: a kind is missing from the switch, which then falls through.
RelocTypeMissing(kind) ==
  CASE kind = "PC32"   -> "R_X86_64_PC32"
    [] kind = "ABS32S" -> "R_X86_64_32S"
    [] kind = "ABS64"  -> "R_X86_64_64"
    [] OTHER           -> "R_X86_64_NONE"

RelocTypeOf(kind) ==
  CASE kind = "PC32"   -> "R_X86_64_PC32"
    [] kind = "ABS32S" -> "R_X86_64_32S"
    [] kind = "ABS32"  -> "R_X86_64_32"
    [] kind = "ABS64"  -> "R_X86_64_64"

RelocOf(fx) == [sec |-> fx.sec, offset |-> fx.offset, sym |-> fx.sym,
                type |-> RelocTypeOf(fx.kind), addend |-> fx.addend]

Relocate ==
  /\ Resolving /\ ~ResolvesLocally(fixes[next])
  /\ Store(fixes[next].sym, [Intern(fixes[next].sym) EXCEPT !.referenced = TRUE])
  /\ relocs' = Append(relocs, RelocOf(fixes[next]))
  /\ next' = next + 1
  /\ UNCHANGED <<sects, sec, cur, fixes, phase, work, errs, patches, status,
                 image, prog>>

\* Fault: pass 3b runs without asking the sink for errors.
BuildsAnyway ==
  /\ phase = "resolve" /\ next > Len(fixes)
  /\ phase' = "build"
  /\ UNCHANGED <<unitVars, work, errs, resolveVars, status, image, prog>>

\* Every fixup is resolved: stop if an error was counted, else build.
EndResolve ==
  /\ phase = "resolve" /\ next > Len(fixes)
  /\ phase' = IF errs = 0 THEN "build" ELSE "done"
  /\ UNCHANGED <<unitVars, work, errs, resolveVars, status, image, prog>>

-----------------------------------------------------------------------------
(* Pass 3b: build the object. *)

Emitted(s) == sym[s].global \/ sym[s].referenced

\* Fault: only sections with content are included.
IncludedIfFilled(n) == sec[n].size > 0

\* A section is included if it holds bytes or space, defines an emitted
\* symbol, or is the target of a relocation.
Included(n) ==
  \/ sec[n].size > 0
  \/ \E k \in 1 .. Len(syms) : /\ Emitted(syms[k])
                               /\ sym[syms[k]].where = "SECTION"
                               /\ sym[syms[k]].section = n
  \/ \E k \in 1 .. Len(relocs) : relocs[k].sec = n

\* Fault: an undefined symbol keeps local binding.
SymbolEntryLocal(s) ==
  [name    |-> s,
   bind    |-> IF sym[s].global THEN "GLOBAL" ELSE "LOCAL",
   ref     |-> IF Defined(s) THEN sym[s].where ELSE "UNDEF",
   section |-> sym[s].section,
   value   |-> IF Defined(s) THEN sym[s].value ELSE 0]

SymbolEntry(s) ==
  [name    |-> s,
   bind    |-> IF sym[s].global \/ ~Defined(s) THEN "GLOBAL" ELSE "LOCAL",
   ref     |-> IF Defined(s) THEN sym[s].where ELSE "UNDEF",
   section |-> sym[s].section,
   value   |-> IF Defined(s) THEN sym[s].value ELSE 0]

\* The names of s that are in S, in their order (the loops of build_object).
Among(s, S) ==
  LET kept[k \in 0 .. Len(s)] ==
        IF k = 0 THEN <<>>
        ELSE IF s[k] \in S THEN Append(kept[k - 1], s[k]) ELSE kept[k - 1]
  IN kept[Len(s)]

IncludedSections == Among(sects, {n \in SecName : Included(n)})
EmittedSymbols   == Among(syms, {s \in Sym : Emitted(s)})

\* A symbol that was not emitted still has handle 0, the first symbol's.
Handle(s) == IF Emitted(s) THEN s ELSE Head(EmittedSymbols)

ObjectImage ==
  [sections |-> [k \in 1 .. Len(IncludedSections) |->
                   [name |-> IncludedSections[k], attrs |-> sec[IncludedSections[k]]]],
   symbols  |-> [k \in 1 .. Len(EmittedSymbols) |-> SymbolEntry(EmittedSymbols[k])],
   relas    |-> [k \in 1 .. Len(relocs) |->
                   [relocs[k] EXCEPT !.sym = Handle(relocs[k].sym)]]]

\* The ELF builder rejects a section handle it did not hand out, and any
\* symbol handle while it has no symbol at all.
BuilderAccepts ==
  /\ \A k \in 1 .. Len(relocs) :
        Included(relocs[k].sec) /\ \E s \in Sym : Interned(s) /\ Emitted(s)
  /\ \A s \in Sym : Interned(s) /\ Emitted(s) /\ sym[s].where = "SECTION"
                      => Included(sym[s].section)

BuildObject ==
  /\ phase = "build"
  /\ phase' = "done"
  /\ IF BuilderAccepts
     THEN image' = {ObjectImage} /\ UNCHANGED status
     ELSE status' = "INVALID_ARGUMENT" /\ UNCHANGED image
  /\ UNCHANGED <<unitVars, work, errs, resolveVars, prog>>

-----------------------------------------------------------------------------

\* Some allocation of the step in hand fails.
AllocFails ==
  /\ AllocMayFail /\ phase # "done"
  /\ Abort("OUT_OF_MEMORY") /\ UNCHANGED prog

Returned == phase = "done" /\ UNCHANGED vars

Init ==
  /\ UnitInit
  /\ phase = "layout" /\ work = NoWork /\ errs = 0
  /\ next = 1 /\ patches = {} /\ relocs = <<>>
  /\ status = "OK" /\ image = {} /\ prog = <<>>

Statement ==
  \/ \E s \in Sym : Label(s)
  \/ \E n \in SecName, b \in {FALSE, Mistakes} : Shortcut(n, b)
  \/ \E n \in SecName, b \in {FALSE, Mistakes} : NamedSection(n, b)
  \/ \E s \in Sym, v \in AbsValues : Set(s, v)
  \/ \E i \in Insns : Instruction(i)
  \/ \E n \in Zeros : Zero(n)
  \/ \E a \in Aligns : Align(a)
  \/ \E d \in ArgStmts : ArgDirective(d)
  \/ Mistakes /\ (BadStatement \/ BadInstruction)

Progress ==
  \/ Statement
  \/ IntsArg \/ StringsArg \/ GloblArg
  \/ EndOfSource
  \/ PatchLocal \/ OutOfRange \/ Relocate \/ EndResolve
  \/ BuildObject

Next == Progress \/ AllocFails \/ Returned

\* The assembler is one thread that never waits: it keeps making progress,
\* and need not run out of memory.
Spec == Init /\ [][Next]_vars /\ WF_vars(Progress)

-----------------------------------------------------------------------------
(* Invariants. *)

StmtRecord ==
  [op : {"label"}, sym : Sym]
  \cup [op : {"section"}, name : SecName, kind : SecKind, clean : BOOLEAN]
  \cup [op : {"set"}, sym : Sym, value : AbsValues]
  \cup [op : {"insn"}, insn : Insns]
  \cup [op : {"zero"}, count : Zeros]
  \cup [op : {"align"}, to : Aligns]
  \cup [op : {"args"}, stmt : ArgStmts]
  \cup [op : {"bad", "badinsn"}]

TypeOK ==
  /\ UnitTypeOK
  /\ phase \in {"layout", "resolve", "build", "done"}
  /\ work \in ArgStmt \cup {NoWork}
  /\ errs \in Nat
  /\ next \in Nat \ {0}
  /\ patches \subseteq Patch
  /\ relocs \in Seq(Reloc)
  /\ status \in {"OK", "OUT_OF_MEMORY", "OVERFLOW", "INVALID_ARGUMENT"}
  /\ prog \in Seq(StmtRecord)

\* The bytes fixup fx will fill.
FieldBytes(fx) == fx.offset .. fx.offset + FieldWidth(fx.kind) - 1

\* Every pending fixup lies wholly inside bytes already emitted into a
\* PROGBITS section, though its symbol may be defined much later and other
\* sections may have been selected since (emit_instruction and data_ints
\* record it around the emission).  qas_buf_patch_u32le relies on it.
FixupsInBounds ==
  \A k \in 1 .. Len(fixes) :
     /\ sec[fixes[k].sec].kind = "PROGBITS"
     /\ fixes[k].offset + FieldWidth(fixes[k].kind) <= sec[fixes[k].sec].size

\* No two fixups share a byte: patching one field, or relocating it, can
\* never disturb another, whatever order pass 3a meets them in.
FixupsDisjoint ==
  \A j, k \in 1 .. Len(fixes) :
     j # k /\ fixes[j].sec = fixes[k].sec
       => FieldBytes(fixes[j]) \cap FieldBytes(fixes[k]) = {}

\* The driver never trips its own internal checks: no patch site outside
\* the buffer (asm.c: "would mean the site was never emitted: a bug"), and
\* the ELF builder never meets a handle it did not hand out.
NoInternalRejection == status # "INVALID_ARGUMENT"

\* A label stays within the bytes of the section that defines it, and that
\* section exists; so a linker can always place it.  (The size of a NOBITS
\* section may wrap below its labels: see SymbolsCorrect.)
LabelsAnchored ==
  \A s \in Sym : sym[s].where = "SECTION" =>
     /\ SecSeen(sym[s].section)
     /\ sec[sym[s].section].kind = "PROGBITS"
          => sym[s].value <= sec[sym[s].section].size

\* A fatal status or a counted error means there is no object.
NoObjectAfterFailure == status # "OK" \/ errs > 0 => image = {}

(* Action properties. *)

\* The first label wins: once s is a label no later statement moves it or
\* turns it into a .set constant (define_label, do_set).
FirstLabelWins ==
  [][\A s \in Sym : sym[s].where = "SECTION" =>
        /\ sym'[s].where = "SECTION"
        /\ sym'[s].section = sym[s].section
        /\ sym'[s].value = sym[s].value]_vars

\* Offsets already handed out stay valid: a section keeps the kind it was
\* first given, however it is named again, its alignment is never lowered
\* and the bytes it holds are never taken back.
SectionsOnlyGrow ==
  [][\A n \in SecName : SecSeen(n) =>
        /\ sec'[n].kind = sec[n].kind
        /\ sec'[n].align >= sec[n].align
        /\ sec[n].kind = "PROGBITS" => sec'[n].size >= sec[n].size]_vars

(* Liveness. *)

\* qas_assemble returns, whatever the source and whichever call fails: an
\* error is reported and passed over, never retried.
Terminates == <>(phase = "done")
=============================================================================
