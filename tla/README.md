# qas in TLA+

Specifications of `qas`, the Quicks assembler: one thread that turns an
Intel-syntax source into an ELF64 relocatable object. They are written from the
C code under `src/`; each definition's lines are in `PROJECT.json` ("map").

Nothing here runs concurrently. What is hard about this program is order:
symbols are used before they are defined, made global after they were used,
sections are left and come back to, relocations are recorded against handles
that are renumbered later, and an error anywhere must suppress an object that
later statements go on filling. On top of that come limits (32-bit distances,
64-bit sizes, 16-bit section indices, one-byte displacements) and allocations
that may fail between any two steps.

## 1. The system

| Part (src/src/...) | State it keeps | Operations | Talks to | What makes it correct |
| --- | --- | --- | --- | --- |
| `asm/asm.c` driver | the pass, fixup cursor, relocation records | `qas_assemble`: lay out and encode, resolve fixups, build | parser, directive handlers, encoder, unit, ELF builder, diagnostics | an object exactly for valid sources; the linked fields hold what the source says |
| `asm/internal/directive.c` | none | one handler per directive family, argument loops | unit, string decoder, symbol table | errors are counted, the rest of the line and file is still processed |
| `asm/internal/unit.c`, `section.c`, `fixups.c` | current section, sections, pending fixups | select, emit, align, define label, add fixup | buffer, symbol table | offsets once handed out stay valid; fixups lie in emitted bytes and never overlap |
| `asm/internal/symtab.c` | records, hash buckets | intern, at | driver, unit, handlers | one stable index per name; probing ends |
| `asm/internal/strdec.c` | none | decode a quoted string | diagnostics | length and bytes of the decoded string |
| `encoder/encoder.c` | none | encode one instruction into bytes and fixups | form table, registers, diagnostics | the processor reads back the operands that were written |
| `encoder/internal/insn_table.c` | constant table | select the form | registers | the first matching form is a right and a shortest one |
| `reg/reg.c` | constant table | look up | parser, encoder | - |
| `elf/elf.c` builder | sections with relocations, symbols | add section, append, reserve, add symbol, add rela, finish | driver, serializer | handles stay valid whatever is added in between |
| `elf/internal/serialize.c` | tables and contents in the making | one function of ten steps | buffer | a linker finds what was added; locals first; aligned, disjoint contents |
| `buf/buf.c` | bytes, length, capacity | reserve, append, patch, take | everyone | checked growth; patches inside the bytes; one owner |
| `arena/arena.c` | blocks | allocate, duplicate, dispose | parser | aligned, disjoint allocations; a failure changes nothing |
| `parser/parser.c` | two tokens, error flag | parse statements, recover at end of line | lexer, registers, arena, diagnostics | each line is parsed or reported; memory operands follow the SIB rules |
| `lexer/lexer.c`, `token/` | position in the source | next token | diagnostics | always advances; literal values and overflow |
| `source/source.c` | bytes, line starts | offset to line and column | lexer, diagnostics | a line index consistent with the bytes |
| `diag/diag.c` | records, error count | emit, render | everyone | no error is forgotten |
| `app/main.c` | options | read, assemble, write | driver, source, diagnostics | exit code and file agree with the result |

The parser hands the driver a list of statements. The driver walks it once:
directives and labels change the unit, an instruction becomes bytes plus fixups
relative to its start, which the unit turns into section coordinates. Every
symbol, defined or not, is interned. When the list ends the fixups are
resolved, by patching or as relocation records, and, if no error was counted,
sections, symbols and relocations are handed to the ELF builder, whose `finish`
serializes them.

`PROJECT.json` lists each component with its status and the hazards, each at
its line with the properties that would catch it.

## 2. The modules

| Module | Models | Notes |
| --- | --- | --- |
| `InsnLayout` | the layout and fixups `qas_encode` returns | pure operators; an instruction is a head and the widths and modes of its two fields |
| `AsmUnit` | `unit.c`, `section.c`, `symtab.c` records, `fixups.c`, the limits of `buf.c` | state and operators the driver's actions use |
| `AsmDriver` | `asm.c`, `directive.c` | one action per kind of statement, per argument of the looping directives, per fixup, for building, and for failing |
| `AsmReference` | nothing in the code | what a source means, read off its statements: places, symbols, fields, validity |
| `AsmMeaning` | nothing in the code | the driver's result compared with `AsmReference`, and linked at every choice of addresses |
| `AsmDriverProofs` | - | the theorems about types, safety, the agreement with `AsmReference`, and what the object means |
| `MCAsmDriver` | - | statements for TLC |
| `NameTable` | nothing in the code | what interning promises |
| `Symtab` | the hash of `symtab.c` | a step per probe; implements `NameTable` |
| `SymtabProofs` | - | the theorems about the hash table |
| `NatLemmas` | - | least numbers, induction over a set, walking round a ring, remainders, the n-th of a set of numbers; cited by the modules of theorems |
| `InsnTable` | the rows of `insn_table.c` | a sequence of rows per mnemonic, the macros as operators |
| `InsnForm` | `qas_insn_select`, `qas_encode`, the registers of `reg.c` | a step per operand, selection, fields, immediate |
| `InsnDecode` | nothing in the code | the processor's opcode map: from fields to the operation they stand for |
| `MCInsnDecode` | - | operands and mnemonics for TLC |
| `MemRules` | `mem_set_index`, `mem_set_plain_reg` | shared by `MemOperand` and the parser |
| `MemOperand` | memory operands in `parser.c` and `encoder.c` | a step per term, then encoding |
| `MemAddress` | nothing in the code | how the processor reads ModR/M, SIB and displacement |
| `MemAddressProofs` | - | the theorem about addresses |
| `ElfBuilder` | `elf.c` | an action per accepted call |
| `ObjectFile` | nothing in the code | the writer's promise: `finish` yields, at once, an object in which everything added is found, or fails |
| `ElfSerialize` | `serialize.c` | a step per section header placed; failing possible until the image is handed over |
| `ElfObject` | nothing in the code | how a linker reads an image; implements `ObjectFile` |
| `ElfProofs` | - | the theorems about builder and serializer |
| `MCElfObject` | - | sections and symbols for TLC |
| `SourceText` | the lookups of `source.c`, the marks of `diag.c` | pure functions of a text, a sequence of byte classes |
| `TokenStream` | nothing in the code | what the scanner promises: ordered, disjoint tokens on their lines, then end of file |
| `Lexer` | `lexer.c` | an action per kind of token |
| `StringDecode` | `strdec.c` | pure; how many bytes and reports come of a token |
| `LexerMeaning` | nothing in the code | what is a lexeme, a literal's value, an escape, said of a span |
| `Cli` | `app/main.c` | an action per kind of option, per token dumped, per step of writing |
| `CliMeaning` | nothing in the code | the arguments read as a whole; exit code and file |
| `CliProofs` | - | the theorems about scanner, line index, string decoder and command line |
| `MCCli` | - | argument lists and texts for TLC |
| `SyntaxTokens` | the tokens and nodes of `token.h` and `ast.h` | representatives of each class the parser tells apart |
| `Syntax` | nothing in the code | the grammar, as predicates on whole lines, and a reader that takes a line at a time |
| `Parser` | `parser.c` | a step per token consumed or error reported; the call stack is the position `at` |
| `ParserMeaning` | nothing in the code | the parser implements the reader; errors per line |
| `ParserProofs` | - | the theorems about the parser |
| `MCParser` | - | sources for TLC |
| `Heap` | nothing under `src/`: malloc, realloc, free | chunks at any free aligned address, and the bytes at every address |
| `Arena` | `arena.c` | operators over the arena's blocks |
| `Buffer` | `buf.c` | operators over one buffer on the same heap |
| `Storage` | their use side by side, and `parse_directive_args`' copy | calls in any order |
| `StorageProofs` | - | the theorems about arena and buffer |

**Composition.** `AsmDriver` extends `AsmUnit` extends `InsnLayout`.
`AsmUnit` treats interning as one step that finds or appends a name; that this
is what the hash table does is `Symtab`'s `ImplementsNameTable`. `AsmDriver`
ends in a call sequence to the ELF builder that it models as one object and an
acceptance test (`BuilderAccepts`); that the builder makes an ELF file a linker
reads back as that object is `ElfObject`'s `ImplementsObjectFile`. The fixups
of `InsnLayout` are given by widths: that the encoder produces no other layouts
is `InsnDecode`'s `LayoutsCovered`, and that the displacement field they
describe is encoded right is `MemAddress`. `InsnForm` and `MemOperand` share one
C function and meet at a memory operand's REX bit, SIB byte and field widths.
`Cli` extends `Lexer`, so that `--dump-tokens` is checked from the arguments to
the exit code; of `qas_assemble` it knows the three ways to return that
`AsmDriver` shows. `Parser` sees tokens where `Lexer` makes them: that these are
in order and end in a repeated end of file is `ImplementsTokenStream`, that each
is a whole lexeme `TokensCorrect`. Its statements are what `AsmDriver`
takes one by one. `AsmUnit`'s buffer may fail or grow; that growth keeps
contents and ownership is `Storage`.

**Correspondence of state.** In `AsmUnit` sections and symbols are known by name,
where the code uses indices into tables that find before they add; `sects` and
`syms` keep the order, which decides the order of the object's tables. A
section is its kind, size and alignment; flags and bytes are left out, the
patched fields excepted (`patches`). In `AsmDriver`, `work` is the directive
whose argument loop is running, `errs` the sink's error count, `image` is empty
while `*out_image` is NULL. `prog` is a history variable: the source is not
fixed in advance, any statement may come next, and `prog` is what the reference
reads. In `ElfSerialize` the image keeps headers, chunks (which header's bytes
lie where) and decoded table entries in place of bytes. In `MemOperand`,
`written` is the history of the terms. In `InsnForm` an instruction is its
prefix flags, opcode, ModR/M fields and immediate, in place of bytes.
A text is a sequence of byte classes in `Lexer` and of token classes in
`Parser`; `tok` and `cur` are `out` and `p->cur`, the lookahead being
the token behind it. In `Parser`, `from`, `parts`, `op` and `num` are the local
variables of the functions on the stack; a node carries the tokens it spans in
place of byte offsets. `log` and `handed` in `Storage` are histories: what was
written, and what its owners stored in it. In `Cli`, `argv` is kept as history
until the last argument is read.

**Errors and failures.** A diagnostic whose status is checked is `Report`; one
whose status is cast to void may be lost when memory is short
(`ReportUnchecked`). With `AllocMayFail`, any step may end in
`QAS_ERR_OUT_OF_MEMORY`. Definitions whose comment starts with "Fault:" are
mutated forms of the definition after them; no specification uses them, and
`PROJECT.json` ("mutants") says which property notices each.

## 3. The runs

| Run | Question | Instance | Result |
| --- | --- | --- | --- |
| `asm_refs` | do well-formed sources link to what they mean, whatever the order of labels, `.globl`, `.set`, sections and references? | four statements, two symbols, two sections, four instructions, five directives | 778,290 states, holds |
| `asm_mistakes` | does every mistake suppress the object and nothing else, and does the driver return? | three statements with every kind of mistake | holds |
| `asm_alloc` | can an object come out after memory ran out, or after a count too large? | three statements, sizes modulo 40, 12 bytes of buffer | holds |
| `symtab` | does the hash table behave as a map, and does every probe end? | four names, all hashes into three digests that collide and wrap at 2, 4 and 8 buckets | 210,165 states, holds |
| `mem_address` | does the processor compute the address that was written? | four terms over rax, rsp, rbp, r12, r13, rip | 66,262 states, holds |
| `insn_decode` | does the processor read the instruction that was written, is its encoding a shortest one, and is its layout one the driver is checked with? | all mnemonics, up to two operands: registers of every size, special number and byte kind, memory with every hint, literals on both sides of every width, a symbol | 295,077 states, holds |
| `elf_object` | placement and alignment, symbol order, string tables, relocation indices, finishing twice, failing | two sections of three sorts, three symbols, a relocation in each section | 200,733 states, holds |
| `cli` | do exit code, output file, tokens, positions, marks and strings agree with the arguments and the text? | argument lists up to four over six arguments, paths of four characters, texts of up to four bytes over three alphabets, escapes of six | 120,875 states, holds |
| `parser` | are the statements and the errors of a source those of its lines by the documented rules, and does the parser return? | every line up to two tokens, or three behind a name or directive; seven good lines and every line one token away; all addresses of three terms; anything up to three tokens between brackets; a good line behind each | 193,019 states, holds |
| `storage` | do the arena and a buffer keep what was stored in them, in live memory, with one owner? | four calls, an address space of 64 bytes | 717,520 states, holds |
| `lost_diagnostic`, `mem_nobase` | what a comment says, against the code | smallest that show it | violated, see 5 |

**Bounds.** `MaxStmts`: the longest pattern the driver distinguishes is
define, use, `.globl` or `.set`, and a section switch in between, four
statements over one or two symbols and two sections; an alignment that raises
and one that must not lower take two. `RelMax` (INT32_MAX) is small enough that
one `.zero` puts a label out of range. `U64` and `MemLimit` are above all sizes
except in `asm_alloc`. `FirstBuckets` is 2 in place of 64: four names
then force two doublings, and the load formula is the code's. `Int8` and
`Int32` are 2 and 4: literals 1, 3 and 4 and their sums fall in a byte, in four
bytes, and beyond. `MaxTerms` = 4 is one more than base, index and
displacement, or all of those and a symbol. In `elf_object` alignments are none,
within the 64 bytes of the ELF header (a section without file bytes), and beyond
them. `Half` (2^16) is above
all indices. In `insn_decode` fields of 8, 16, 32 and 64 bits are scaled to 2,
3, 4 and 5; no row has more than two operands, and the table is complete. Registers in `mem_address` are one
without a special meaning and all those with one.

In `cli`, `UMax` = 90 puts literals of two digits on both sides of the limit in
every base but two; four bytes hold a number with prefix and two digits, a
string with an escape, or two lines with a comment and a carriage return; the
longer strings let a run of octal digits pass its third. In `parser`,
`MaxOperands` = 2 in place of 4 puts the limit inside the good lines; `Word` =
2^16 keeps the byte a scale is cut to apart from the whole, and the literal 258 is 2
in that byte. The lines a token away
from a good one reach every error and every place to resume from. In `storage`
`WordMax` = 63 lets one request fill or exceed the address space; `Header` = 12
leaves a block's data off the alignment of malloc, so that padding occurs; the
smallest block (8) and the first capacity (4) are exceeded by the second or third
call; four calls are enough to fill a block, open another, fail, and dispose,
or to grow a buffer twice, take it and go on.

**Properties made of parts.** `ContentsKept` (what was handed out, what the buffer
holds), `FileLayout` (placement, symbol order), `TokensCorrect` (extent, value),
`PositionsAgree` (line and column, marks) and `ExitTellsResult` (file, dump) are
conjunctions of named invariants; a mutant breaks each part. An invariant is
checked in the instance that can break it: fixups, labels and internal checks
in `asm_refs`, validity and termination in `asm_mistakes`, failures in
`asm_alloc`.

**Deadlock** is checked everywhere except for `MemAddress`, `InsnDecode` and
`Storage`: an operand or instruction is done when it is encoded or rejected,
and the calls of `Storage` are bounded. The driver's `Returned` keeps it from
stopping when it is done.

**Fairness.** The driver is `WF_vars(Progress)`: one thread that never waits, so as
long as it can make progress it does; running out of memory is never owed. In
`Symtab` only the steps inside a call are weakly fair; nobody has to call. The
parser (`WF_vars(Next)`) and the command line (`WF_vars(Work)`) are the same
one thread. The properties `Terminates`, `CallsReturn` and `Exits` need no more.

## 4. The proofs

TLAPS proves, for every value of the constants that the modules' named
assumptions allow (sets of statements, symbols and sections, word sizes,
capacities, hash functions, numbers of calls):

| Module | Theorem | States |
| --- | --- | --- |
| `AsmDriverProofs` | `TypeCorrect` | every state of the driver is well typed |
| | `FixupsInBoundsAlways`, `FixupsDisjointAlways` | fixups lie in emitted bytes and share none |
| | `SectionsOnlyGrowAlways` | kind, alignment and bytes of a section are never taken back |
| | `FirstLabelWinsAlways`, `LabelsAnchoredAlways` | labels never move and lie in their section |
| | `NoInternalRejectionAlways` | the driver trips none of its internal checks |
| | `NoObjectAfterFailureAlways` | a failure or a counted error leaves no object |
| | `AlwaysAgrees` | driver and reference agree after every statement and argument, and the error count tells validity |
| | `ValidGetsObject`, `ObjectIffValidAlways` | a valid program gets its object, and while memory lasts no other does |
| | `SymbolsCorrectAlways`, `SectionsCorrectAlways` | the object's symbols and sections are those the source calls for |
| | `LinkCorrectAlways` | every symbolic field of the linked program holds what the source asks for |
| `SymtabProofs` | `FindableAlways` | a name is found again at its own record, through every rehash |
| | `HeadroomAlways`, `ProbesMeetEmptyAlways` | the load stays below the limit, and every probe has an empty slot ahead |
| | `TableImplementsNameTable` | the hash table refines the abstract name table |
| `MemAddressProofs` | `AddressKeptAlways` | the processor computes the address that was written |
| `StorageProofs` | `StorageTypes` | arena, buffer and heap are well formed |
| | `ContentsAlways` | what was handed out keeps its contents, the buffer holds what was written |
| | `OwnedAlways` | every chunk has one owner |
| | `FailuresAlways` | a failed call changes nothing |
| `ElfProofs` | `ElfTypes` | builder and half-laid-out image are well typed |
| | `LayoutCorrect` | contents aligned, disjoint, between header and headers; locals first |
| | `ReadsBackAlways` | builder and serializer refine `ObjectFile`: every file reads back as what was added |
| `CliProofs` | `TokensAreCorrect` | kind, extent and value of every token are what the text says |
| | `PositionsDoAgree` | the line index finds the scanner's own places, and underlines stay in their line |
| | `ScannerIsTokenStream` | the scanner refines `TokenStream` |
| | `StringsDecodeWhole` | the decoder ends where the scanner did, one byte per byte or escape |
| | `ExitCodeTells` | the exit code tells of the object or the text |
| | `ArgumentsAloneDecide` | the argument loop ends as the whole list calls for |
| | `OutputLiesBesideInput` | the derived path lies in the input's directory and ends in `.o` |
| `ParserProofs` | `ParserTypes` | every state of the parser is well typed |
| | `ParserReadsLines` | the parser refines the reader of lines in `Syntax`: the statements of a source are those its lines mean, where a line keeps the documented rules or breaks one the parser enforces |
| | `ParserReportsLines` | one error for a line that cannot be read (apart from the two rules of section 5), none on any other, and one for each token the scanner refuses |

**The driver.** `AsmDriverProofs` proves type correctness action by action; the
inductive invariant is `Typed`, type correctness together with a running
argument loop always having an argument left, for otherwise `NextArg` could not
be typed. For safety it first sums up every step by its effect: what it may
do to sections and fixups (`SectionEffect`), to symbols (`SymbolEffect`) and to
the loop (`LoopEffect`), one lemma per group of actions. The invariants then
need one case per effect instead of one per action:

- `PlacedInv` strengthens the two fixup invariants with "the current section has
  been seen" and "a data directive's loop runs in a PROGBITS section". Without
  the second a fixup could be recorded in a section that merely counts bytes.
  New fixups start at the old end of the section, so they are disjoint from all
  old ones, and `InsnFieldsWithin` keeps the two of one instruction apart.
- `SymbolInv` says that interned symbols are listed and that a relocation's
  symbol is marked referenced, which `HandlesAccepted` needs: no handle is
  passed to a builder without symbols, and each section an emitted symbol or a
  relocation names is included.
- `RunningInv` says that before the end the status is still OK and there is no
  image, and that the object is built only when no error was counted.

**The driver against its source.** `AsmReference` counts over a whole program;
the driver has read a part of it, perhaps half the arguments of its last
statement. `AsmDriverProofs` therefore first restates the reference up to
argument j of the last statement (`OKTo`, `FieldsTo`, `GlobalsTo`, `SizeTo`), shows
that at the last argument this is the reference itself (`ReadToTheEnd`,
`SizeWhole`), and how each part grows by one statement (`LayoutAppend`,
`MeaningAppend`, `AlignsAppend`) or one argument. The invariant `Agree` is then
one part per table of the driver:

- `SectionsAgree`: current section, kinds and sizes are the location counters;
- `AlignsAgree`: no request in a section exceeds its alignment, and that is 1 or
  some request, powers of two, so each divides it;
- `SymbolsAgree`, `GlobalsAgree`: the records mean what the labels, `.set`s and
  `.globl`s read so far mean;
- `FieldsAgree`: there is a pairing of the fixups with the symbolic fields that
  reaches every field and in which each fixup `Describes` its field.

`AgreeInv` holds `Agree` as long as everything read is valid (after an error the
driver may go on from a different state, but then there is no object), and ties
the error count to validity: a valid source has counted none, and if no
diagnostic can be lost, none counted means valid. One lemma per kind of
statement and argument shows the step keeps each part and reports exactly what
`StmtOK` or `ArgOK` rejects; in pass 3a a step reports exactly a distance out of
range (`PassThreeSteps`).

A NOBITS section counts modulo 2^64, the reference does not. `Exact` says which
sizes and values are compared: those of sections holding bytes, always, and those
of NOBITS sections while all sections fit (`Fits`). Local resolution needs only
the first, as a fixup lies in a section of bytes, so `ObjectIffValidAlways` needs
no such hypothesis.

Its parts 5 to 9 add what the passes after the last statement do: `EndInv` (pass
3b only follows a finished pass 3a, and the object is that of its state),
`ListsInv` (the tables list each seen section and interned symbol once, so that
`Among` yields each wanted name once) and `ResolvedInv` (of the fixups met, the
local ones were patched with their distance and the others relocated, their
symbols and no others referenced, one record each). Fixups at one place are the
same (`PlacesDiffer`, from `FixupsDisjoint`), so the pairing is one to one, each
field is filled once, and the rest is the arithmetic of `RelocationValue` and
`PatchValue`. The last three theorems hold where `Built` does: the sections fit,
and, if memory may run out at any time, the program is valid. Without the
second a diagnostic may be lost and an invalid program gets an object
(`lost_diagnostic`), about which the reference says nothing.

**The hash table.** `Findable` is not inductive: it speaks of tables at rest.
`TableInv` says of any bucket array, the one in use and the one being filled,
that every slot on the way from a name's hash to its record is taken by another
name, and that records and slots match one to one; and of a running probe that
the slots already passed do not hold the name. `HeadroomKept` bounds the number
of records, the load formula then leaves a slot free, and `StepsExist` (walking
round a ring of slots reaches each) turns this into `ProbesMeetEmpty`, on which
the end of every probe rests; that the loop ends is then TLC's `CallsReturn`.

**Addresses.** `OperandInv` follows the operand term by term: base, index and
displacement so far add up to the terms read so far. What remains is
arithmetic: a displacement cut to one or four bytes and sign-extended is itself
when it fits, and the fields of ModR/M and SIB come apart again (`DivMod`,
`ModUnique` in `NatLemmas`).

**Storage.** `StoreInv` says that the chunks of the heap are disjoint, that each
object lies inside one chunk of its owner, that objects of one block lie below its
`used` mark and are disjoint, and that the bytes at an object's place are those
stored. Every write goes to a fresh chunk, above the mark, or inside the
buffer, so it misses all the rest; `LittleEndian`, which the code computes by
shifting, is proved to spell the number its reference definition says.

**The object file.** The builder may change while nothing is laid out, and the
serializer reads it while it does not change. `LayoutInv` says of headers and
contents placed so far that header k describes section, table or relocations k
(`Described`), that every content lies at the offset and size its header gives
(`Held`), and that contents are in order and below `end` (`Apart`); of every
image that it is the file (`FileOf`) of something so laid out. `FileLayout`
follows by unfolding. For the refinement each finished file is read back:
`InOrderLists` says that the loops list exactly the handles of a kind, in order;
`SymbolOrderIs` that symbol order is a permutation with the locals first, so that
`FinalIndex` is its inverse; `OffsetOrder` that distinct strings of a table have
distinct offsets, so that a name is read where it was written; and
`BagReordered` that reordering keeps the bag of symbols. `HandlesKnown` keeps
relocations and symbols inside the tables. The hypothesis `HeadersFit` says
that the sections number fewer than `ShnAbs` and the headers fewer than `Half`, the
limits of the 16-bit fields. The code checks neither (section 5); every
instance TLC checks satisfies it.

**Scanner and command line.** The properties speak of a text as a whole; the
code works byte by byte. `CliProofs` first shows of each loop what it computes:
`LocIs` and `StartsOf` tie the line index to the counters, `UpperBoundIs` is the
binary search, `StringEndIs` says that the scan ends at the first quote behind an
even run of backslashes (`EndsAt`), and `AccumulateIs` that the clamped tally is
exact until it overflows; `Horner` and `BehindIs` bring the value read from the
left and the value the definition sums from the right together. `Only` then says
that one kind of lexeme stands at a place, and ends at one offset; each case of
the scanner is shown to take that one (`Scan`), and the invariant `LexInv` (the
counters are those of the offset, the token in hand is the lexeme at its span,
each diagnostic marks a byte of a line) follows case by case.

- `DecodeIs` turns the decoder's recursion into jumps from the opening quote to
  the closing one; each jump is over a plain byte or a whole escape (`JumpTakes`),
  so what is decoded from an offset on is counted by the escapes from there on.
- `TextInv` says that the text is well formed exactly if what is left of it is,
  as long as nothing was reported, and is not once something was, lost or not
  (`Clean`). `ResultInv` adds what each phase of the command knows.
- `ArgInv` says that the arguments left are the rest of the list, that the next one
  is not the value of an `-o`, and that none so far ends the loop; `Judgement`
  compares the next one with the whole list.

**Parser.** `Syntax` speaks of a line as a whole, cut at its commas and, between
brackets, at its signs; the parser sees one token and the next. The invariant
`Followed` closes the gap: at each place `at`, while memory lasts, it says what
the tokens of the line up to `cur` amount to. `ReadSoFar` says that each part in
`parts` is one of the line's and stands for its tokens; `PartOK` says the same of
the part in hand, place by place, and, where it has been read, whether it is a
part at all; `InBrackets` says of the address in hand that it is the one of the
terms read so far (`Sofar`), and of the term in hand which of its tokens have been
seen. Where the parser gives a line up, the invariant says that the line cannot be
read at all, so that it never skips a good one.

Two rules of `Syntax` the parser does not enforce (section 5). `Followed` speaks of
what the parser takes: the definitions that start with `Lax` are those of `Syntax`
without the two rules. `AddressRuled`, `OperandRuled` and `LineRuled` lead back: of a
line that does not depart (`Departs`) both say the same. A line that departs is
left to `TakeUnruled`.

- `PlainStep`, `ScaledStep`, `SymbolStep` and `DispTermStep` show that the parser,
  which judges registers as they come, takes a term in exactly when the terms with
  it are still an address (`LaxAddressOK`, which counts them in any order), and that
  its fields are then those of `LaxAddressOf`; `AddressPrefix` that a term that does not
  fit spoils the address whatever follows.
- `WholeLast`, `WholeHead` and `BadTermSpoils` show that the first tokens of a term
  tell its kind, although where it ends is seen only at the next sign.
- `BadPartSpoils`, `ExtraPartSpoils` and `LineIsRead` lead from the parts to the line.

`FollowedNext` has one lemma per action. With it every step but eight is invisible
to the reader, and those eight are its steps (`ParserReads`): `Finish` takes a label
or a line, `Resume` passes over a line (`ReaderSteps`).

The errors rest on `ErrorInv`: of every line behind, what was reported of it is
fair (`Fair`); of the line in hand, nothing was reported except integers out of
range, or the line has been given up with at most one report besides (`Faulty`).
A step within a line is quiet, gives it up with one report, or goes on behind an
integer out of range (`StepKinds`). That a line passed over could not have been
read, and one taken in could, comes from `Followed`.

**Induction.** Library theorems with an operator parameter cannot be
instantiated by the installed provers. Induction over numbers is therefore stated
once for sets (`NatSetInduction`: a set of numbers that holds 0 and is closed
under successor holds them all) and used with `{n \in Nat : P(n)}`. Recursive
functions of the model are unfolded by a lemma each; where the recursion is not
over numbers in their order, by `RankedRecursion`, which asks for a rank that
every look-up lowers.

**What proving changed.** Definitions that were right only by TLC's way of
evaluating them were made exact: `CASE` with overlapping guards (`Fixup`,
`Bracket`, `Kind`, `Decode`) and a `CHOOSE` without a unique answer (`RunEnd`).
The serializer's passes over sections and symbols became a recursive function
(`InOrder`), the loop of the code, since the prover knows nothing of
`SelectSeq`; so did the loops of `build_object` (`Among`) and the offset of an
argument (`ArgOffset`), the line index (`LineStarts`) and the value of a literal
(`Value`). That alignments are powers of two (directive.c:206) and
addresses naturals became assumptions, and the entry of a name in the object's
symbol table an operator of its own. The reader of `ElfObject` now also checks
that a relocation section is read whole. The
assumption about calls now says that arguments are a list of options and paths.

Model-checked only: the properties of `InsnDecode`, and all liveness
(`Terminates`, `CallsReturn`, `Exits`, the parser's return), as fairness and
ENABLED are out of the prover's reach.

## 5. What the violated runs show

- `lost_diagnostic`: a diagnostic cast to void is lost when memory is short and
  an object is returned for an invalid source (`ObjectIffValid`).
- `mem_nobase`: an index without a base, plus a symbol, is encoded with `rbp` as
  the base (`NoBaseEncoded`).

Hypotheses of the passing runs name what else the code lets through. They are
facts about the code, not assumptions of the checks:

- `DecodesAsWritten` holds where `SignedFieldsFit` does: a byte that `push`
  sign-extends, and a 32-bit branch displacement, also accept values beyond
  their signed range, so that `push 200` pushes -56 (insn_table.c:235,
  encoder.c:401).
- `AddressKept` holds where `SibRulesEnforced` and `NoBaseEncoded` do and the
  displacement fits 32 bits. Without a base the encoder does not check the displacement
  (encoder.c:123), though it says it does (encoder.c:81).
- `ImplementsSyntax` and `ErrorsPerLine` judge a line by the documented rules:
  `rip` only as a lone base, a scale of 1, 2, 4 or 8 (parser/README.md:19-21,
  parser.c:165). The parser enforces neither to the end. It lets a scaled index
  follow `rip` (parser.c:201), as only plain registers are tested against it; and
  it judges a scale after cutting it to a byte (parser.c:201, 243), so that
  `rax*258` is taken as `rax*2`. The hypothesis is that a line does not depart from
  these two (`Departs`). What a line that does is taken as is left open
  (`TakeUnruled`), and whether it is reported (`ErrorsPerLine`). The run has lines of
  both kinds; without either part of the hypothesis it fails.
- `LabelsAnchored` and `SectionsOnlyGrow` speak of bytes in PROGBITS sections
  only: sizes in a NOBITS section wrap at 2^64, and labels with them
  (unit.c:107).
- `ErrorsPerLine` counts an integer that is out of range apart: the scanner
  reports it, and the parser reports it again where it is an immediate, an
  argument or a trailing scale, but not as a displacement or a leading scale.
  For those `qas_parser_had_error` stays FALSE, although parser.h:73 offers it as
  the equal of the sink's error count; the driver uses the count.

Seen while modelling, without a property of their own:

- `add [rax], al` has no encoding although `add byte [rax], al` has one
  (insn_table.c:222); `mov [rax], 5` without a size is taken for a 64-bit store
  (the `OPS_RM64` row of `mov`); a register of any size is taken for the 64-bit
  one in a memory operand.
- Section indices are cut to 16 bits (serialize.c:193); a NOBITS section's
  `sh_offset` is not aligned (serialize.c:268, against the comment at line 40;
  linkers ignore it); `.zero` with a count near 2^64 makes `qas_assemble` return
  `QAS_ERR_OVERFLOW`, which `asm.h` does not list.
- Without `-o`, an input that ends in `.o` is overwritten by its object
  (main.c:128).
- The grammar at parser.c:18 leaves out the sign that may stand before the first
  term. An empty pair of brackets is reported at the token behind it. Because of
  the lookahead, a scanner's error may come before a parser's error about an
  earlier token.

## 6. Not modelled

Bytes and texts: section contents, names character by character, diagnostic
wording, flags, the values of decoded string bytes, and register sizes in memory
operands. The lookup of registers and the case-insensitive comparison of
keywords, loops over constant tables without state. Null arguments, which no
caller in `src/` passes. The size of the statement list and of the diagnostics'
array, which double without a test for overflow (parser.c:547, diag.c:27): their
growth is a failure at any time. Offsets beyond 32-bit lines and columns. The
reading of a file beyond success and failure. Where inside `finish` memory ran out:
its failing is one step that drops the image. Sums that wrap at 2^64 in a NOBITS
section, as `U64` is above all sums where symbols are checked (section 5). Stale record pointers
(symtab.h:87) cannot arise in a model that addresses records by index, as every
caller does after its last intern. Tests, examples and build files are not part
of the program.

## 7. Plan

In this order, the most important first; what is done is marked.

1. (done) `InsnLayout`, `AsmUnit`, `AsmDriver`, `AsmReference`, `AsmMeaning`; type
   correctness and the safety invariants proved.
2. (done) `ElfBuilder`, `ElfSerialize`, `ElfObject` against `ObjectFile`.
3. (done) `Symtab` against `NameTable`; `MemOperand` against the processor's rules.
4. (done) `InsnTable`, `InsnForm` against the processor's opcode map in
   `InsnDecode`; composes with `InsnLayout` and `MemOperand`.
5. (done) `Lexer` against `TokenStream` and `LexerMeaning`; `Parser` against
   `Syntax`, with recovery at the end of the line.
6. (done) `SourceText`: the line index, position lookup and marks. `Buffer` and
   `Arena` on one `Heap`: growth, limits, disjointness, ownership.
7. (done) `Cli`: options, default output path, exit codes, a failing write.
8. (done) Theorems: the driver's safety, `Symtab`, `MemAddress`, `Storage`,
   `ElfBuilder` and `ElfSerialize`, with the refinements of `NameTable` and
   `ObjectFile`.
9. (done) Theorems: the driver against `AsmReference`: sections, symbols and
   fields agree with the source read so far, validity, the object, the linked
   fields.
10. (done) Theorems: the scanner against `TokenStream` and `LexerMeaning`, and `Cli`.
11. (done) Theorems: `Parser` against `Syntax`.
