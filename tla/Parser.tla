------------------------------- MODULE Parser -------------------------------
(***************************************************************************)
(* The recursive-descent parser (parser/parser.c) over one source, a step  *)
(* per token consumed or error reported.  The call stack is a position:    *)
(* `at' names the function and the place in it where the parser stands.    *)
(***************************************************************************)
EXTENDS SyntaxTokens

CONSTANTS
  Sources,       \* the token sequences parsed
  MaxOperands,   \* QAS_MAX_OPERANDS
  AllocMayFail   \* whether memory may run out

ASSUME ParserAssumption ==
  /\ MaxOperands \in Nat \ {0} /\ AllocMayFail \in BOOLEAN
  /\ \A s \in Sources : s \in Seq(Tokens)

VARIABLES
  toks,      \* the tokens of the source, without the end of file
  cur,       \* index of the token to consume next; the lookahead is cur + 1
  at,        \* where the parser stands
  from,      \* index of the first token of the statement being parsed
  parts,     \* its arguments or operands so far
  op,        \* the argument or operand being parsed
  num,       \* a scaled register, and the sign and place of an integer
  hadError,  \* qas_parser.had_error
  fatal,     \* qas_parser.fatal is set
  diags,     \* diagnostics recorded: who reported which token
  stmts,     \* the statements produced
  result     \* "running", or the status returned: "ok" or "oom"

vars == <<toks, cur, at, from, parts, op, num, hadError, fatal, diags, stmts, result>>

Tok(i) == TokenAt(toks, i)
Cur    == Tok(cur)
Next1  == Tok(cur + 1)
AtEnd  == Cur \in LineEnd

-----------------------------------------------------------------------------
(* Tokens, diagnostics and positions. *)

\* Fault: the failure to record a diagnostic is not looked at.
EmitUnchecked(who, i) ==
  \/ diags' = Append(diags, [by |-> who, tok |-> i]) /\ UNCHANGED fatal
  \/ AllocMayFail /\ UNCHANGED <<diags, fatal>>

\* A diagnostic is recorded, or lost for lack of memory.
Emit(who, i) ==
  \/ diags' = Append(diags, [by |-> who, tok |-> i]) /\ UNCHANGED fatal
  \/ AllocMayFail /\ fatal' = TRUE /\ UNCHANGED diags

\* qas_lexer_next on token i reports what it cannot read.
Load(i) ==
  IF Tok(i) \in LexErrors THEN Emit("lexer", i) ELSE UNCHANGED <<diags, fatal>>

\* advance: the lookahead becomes current and the next token is loaded; the end
\* of the source is never passed.
Consume == cur' = (IF Cur = "eof" THEN cur ELSE cur + 1) /\ Load(cur + 2)

Advance(to) == at' = to /\ Consume /\ UNCHANGED <<toks, from, hadError, stmts, result>>

Goto(to) ==
  at' = to /\ UNCHANGED <<toks, cur, from, hadError, fatal, diags, stmts, result>>

\* error_here.
Complain(to) ==
  /\ hadError' = TRUE /\ Emit("parser", cur) /\ at' = to
  /\ UNCHANGED <<toks, cur, from, parts, op, num, stmts, result>>

\* The error is handed up to parse_statement.
Error == Complain("failed")

Standing(places) == result = "running" /\ at \in places
Keep == UNCHANGED <<parts, op, num>>

NoNode == Node("", "", 0, EmptyMem, FALSE, 0, 0)
NoNum  == [then |-> "", minus |-> FALSE, reg |-> None, scale |-> 0]

-----------------------------------------------------------------------------
(* qas_parser_parse and parse_statement. *)

Blank == Standing({"line"}) /\ Cur = "nl" /\ Advance("line") /\ Keep

\* A failure ends the parse after a statement and between two.
ReturnFatal ==
  /\ fatal
  /\ \/ Standing({"done", "failed"})
     \/ Standing({"line"}) /\ Cur # "nl"
  /\ result' = "oom"
  /\ UNCHANGED <<toks, cur, at, from, parts, op, num, hadError, fatal, diags, stmts>>

ReturnOk ==
  /\ Standing({"line"}) /\ ~fatal /\ Cur = "eof"
  /\ result' = "ok"
  /\ UNCHANGED <<toks, cur, at, from, parts, op, num, hadError, fatal, diags, stmts>>

Beginning == Standing({"line"}) /\ ~AtEnd /\ ~fatal

IsLabel == Cur \in Idents /\ Next1 = ":"

\* parse_statement consumes the label name, the directive or the mnemonic.
Begin ==
  /\ Beginning /\ Cur \in Idents \cup {"dir"}
  /\ at' = CASE IsLabel -> "colon" [] Cur = "dir" -> "args" [] OTHER -> "operands"
  /\ from' = cur /\ parts' = <<>> /\ op' = NoNode /\ num' = NoNum
  /\ Consume /\ UNCHANGED <<toks, hadError, stmts, result>>

BadStart ==
  /\ Beginning /\ Cur \notin Idents \cup {"dir"}
  /\ at' = "failed" /\ from' = cur
  /\ hadError' = TRUE /\ Emit("parser", cur)
  /\ UNCHANGED <<toks, cur, stmts, result>> /\ Keep

\* A label ends behind its colon, not with its line.
Colon == Standing({"colon"}) /\ Advance("done") /\ Keep

EndOfLine == Standing({"args", "operands", "end"}) /\ AtEnd /\ Goto("done") /\ Keep

TrailingToken == Standing({"end"}) /\ ~AtEnd /\ Error

Kind == IF Tok(from) = "dir" THEN "directive" ELSE IF Tok(from + 1) = ":" THEN "label"
        ELSE "instruction"

\* The newline belongs to the statement; stmt_list_push may find no memory.
Finish ==
  /\ Standing({"done"}) /\ ~fatal
  /\ IF Cur = "nl" THEN Consume ELSE UNCHANGED <<cur, diags, fatal>>
  /\ \/ /\ stmts' = Append(stmts, Statement(Kind, Tok(from), parts, from, cur' - 1))
        /\ at' = "line" /\ UNCHANGED result
     \/ AllocMayFail /\ result' = "oom" /\ UNCHANGED <<stmts, at>>
  /\ UNCHANGED <<toks, from, hadError>> /\ Keep

-----------------------------------------------------------------------------
(* recover_to_eol. *)

GiveUp == Standing({"failed"}) /\ ~fatal /\ Goto("skip") /\ Keep

\* Fault: the end of the source does not end the line.
SkippedToNewline == Cur = "nl" \/ fatal

Skipped == AtEnd \/ fatal

SkipToken == Standing({"skip"}) /\ ~Skipped /\ Advance("skip") /\ Keep

Resume ==
  /\ Standing({"skip"}) /\ Skipped
  /\ IF Cur = "nl" THEN Advance("line") ELSE Goto("line")
  /\ Keep

-----------------------------------------------------------------------------
(* parse_signed_int, for an argument or operand, or for a scale. *)

\* Fault: a negated value is not brought back into its word.
SignedUnwrapped(minus, v) == IF minus THEN -v ELSE v

Signed(minus, v) == (IF minus THEN -v ELSE v) % Word

\* The sign, if there is one, and where to go on behind the integer.
SignedInt(then) ==
  /\ num' = [num EXCEPT !.then = then, !.minus = (Cur = "-")]
  /\ IF Cur \in Signs THEN Advance("int") ELSE Goto("int")

Overflow == Standing({"int"}) /\ Cur = "big" /\ Complain("clamped")

TakeInt ==
  /\ \/ Standing({"int"}) /\ Cur \in Literals \ {"big"}
     \/ Standing({"clamped"})
  /\ LET v == Signed(num.minus, Value[Cur])
     IN IF num.then = "index" THEN num' = [num EXCEPT !.scale = v] /\ UNCHANGED op
                              ELSE op' = [op EXCEPT !.value = v] /\ UNCHANGED num
  /\ Advance(num.then) /\ UNCHANGED parts

NoInt == Standing({"int"}) /\ Cur \notin Literals /\ Error

-----------------------------------------------------------------------------
(* parse_directive_args and parse_operand_list. *)

Arg == Standing({"args", "arg"}) /\ ~(at = "args" /\ AtEnd)

Full == Len(parts) >= MaxOperands

Operand == Standing({"operands", "operand"}) /\ ~(at = "operands" /\ AtEnd) /\ ~Full

TooMany == Standing({"operand"}) /\ Full /\ Error

New(kind, name, mem, sized) == op' = Node(kind, name, 0, mem, sized, cur, 0)

PlainArg ==
  /\ Arg /\ Cur \in Idents \cup {"str"}
  /\ New(IF Cur = "str" THEN "str" ELSE "symbol", Cur, EmptyMem, FALSE)
  /\ Advance("taken") /\ UNCHANGED <<parts, num>>

IntPart ==
  /\ Cur \in Literals \cup Signs
  /\ \/ Arg /\ New("int", "", EmptyMem, FALSE)
     \/ Operand /\ New("imm", "", EmptyMem, FALSE)
  /\ SignedInt("taken") /\ UNCHANGED parts

BadArg == Arg /\ Cur \notin Idents \cup {"str"} \cup Literals \cup Signs /\ Error

Register ==
  /\ Operand /\ Cur \in Registers
  /\ New("reg", Cur, EmptyMem, FALSE)
  /\ Advance("taken") /\ UNCHANGED <<parts, num>>

SymbolOperand ==
  /\ Operand /\ Cur \in Idents \ (Registers \cup {"size"})
  /\ New("imm", Cur, EmptyMem, FALSE)
  /\ Advance("symbol") /\ UNCHANGED <<parts, num>>

Addend == Standing({"symbol"}) /\ Cur \in Signs /\ SignedInt("taken") /\ UNCHANGED <<parts, op>>

SizePrefix ==
  /\ Operand /\ Cur = "size"
  /\ New("mem", "", EmptyMem, TRUE)
  /\ Advance("sized") /\ UNCHANGED <<parts, num>>

Ptr == Standing({"sized"}) /\ Cur = "ptr" /\ Advance("bracket") /\ Keep

OpenBracket ==
  /\ Cur = "["
  /\ \/ Operand /\ New("mem", "", EmptyMem, FALSE)
     \/ Standing({"sized", "bracket"}) /\ UNCHANGED op
  /\ Advance("mem") /\ num' = NoNum /\ UNCHANGED parts

NoBracket ==
  /\ \/ Standing({"sized"}) /\ Cur \notin {"ptr", "["}
     \/ Standing({"bracket"}) /\ Cur # "["
  /\ Error

BadOperand == Operand /\ Cur \notin Idents \cup Literals \cup Signs \cup {"["} /\ Error

\* An argument or operand ends, in an operand's span with the last token consumed.
Taken == Standing({"taken"}) \/ (Standing({"symbol"}) /\ Cur \notin Signs)

PartDone == parts' = Append(parts, [op EXCEPT !.to = cur - 1]) /\ UNCHANGED <<op, num>>

Comma ==
  /\ Taken /\ Cur = "," /\ PartDone
  /\ Advance(IF Kind = "directive" THEN "arg" ELSE "operand")

LastPart == Taken /\ Cur # "," /\ PartDone /\ Goto("end")

\* The buffer of the arguments or the array they are copied to finds no memory;
\* which of them grows when is left open.
NoRoom ==
  /\ Taken /\ Kind = "directive" /\ AllocMayFail
  /\ fatal' = TRUE /\ at' = "failed"
  /\ UNCHANGED <<toks, cur, from, hadError, diags, stmts, result>> /\ Keep

-----------------------------------------------------------------------------
(* parse_memory and parse_mem_term. *)

MemSign ==
  /\ Standing({"mem", "memNext"}) /\ Cur \in Signs /\ ~fatal
  /\ num' = [NoNum EXCEPT !.minus = (Cur = "-")]
  /\ Advance("term") /\ UNCHANGED <<parts, op>>

Term ==
  \/ Standing({"term"})
  \/ Standing({"mem"}) /\ Cur \notin Signs \cup LineEnd \cup {"]"} /\ ~fatal

\* Fault: a scaled register may be subtracted.
ScaleFirstSigned == Cur \in Literals /\ Next1 = "*"

ScaleFirst == Cur \in Literals /\ Next1 = "*" /\ ~num.minus

SetMem(m) == op' = [op EXCEPT !.mem = m] /\ UNCHANGED <<parts, num>>

TermRegister ==
  /\ Term /\ Cur \in Registers /\ ~num.minus
  /\ num' = [num EXCEPT !.reg = Number[Cur]]
  /\ Advance("reg") /\ UNCHANGED <<parts, op>>

Star == Standing({"reg"}) /\ Cur = "*" /\ Advance("scale") /\ Keep

Scale == Standing({"scale"}) /\ SignedInt("index") /\ UNCHANGED <<parts, op>>

PlainRegister ==
  /\ Standing({"reg"}) /\ Cur # "*" /\ PlainOK(op.mem, num.reg)
  /\ SetMem(WithPlain(op.mem, num.reg)) /\ Goto("memNext")

TermSymbol ==
  /\ Term /\ Cur \in Idents \ Registers /\ ~num.minus /\ ~op.mem.symbol
  /\ SetMem([op.mem EXCEPT !.symbol = TRUE]) /\ Advance("memNext")

TermScale ==
  /\ Term /\ ScaleFirst
  /\ num' = [num EXCEPT !.scale = Value[Cur]]
  /\ Advance("star") /\ UNCHANGED <<parts, op>>

StarReg == Standing({"star"}) /\ Advance("indexReg") /\ Keep

IndexReg ==
  /\ Standing({"indexReg"}) /\ Cur \in Registers
  /\ num' = [num EXCEPT !.reg = Number[Cur]]
  /\ Advance("index") /\ UNCHANGED <<parts, op>>

SetIndex ==
  /\ Standing({"index"}) /\ IndexOK(op.mem, num.reg, Byte(num.scale))
  /\ SetMem(WithIndex(op.mem, num.reg, Byte(num.scale))) /\ Goto("memNext")

TermDisp ==
  /\ Term /\ Cur \in Literals /\ Next1 # "*"
  /\ SetMem([op.mem EXCEPT !.disp = (@ + Signed(num.minus, Value[Cur])) % Word])
  /\ Advance("memNext")

BadTerm ==
  /\ \/ Term /\ Cur \in Registers /\ num.minus
     \/ Term /\ Cur \in Idents \ Registers /\ (num.minus \/ op.mem.symbol)
     \/ Term /\ Cur \in Literals /\ Next1 = "*" /\ num.minus
     \/ Term /\ Cur \notin Idents \cup Literals
     \/ Standing({"reg"}) /\ Cur # "*" /\ ~PlainOK(op.mem, num.reg)
     \/ Standing({"indexReg"}) /\ Cur \notin Registers
     \/ Standing({"index"}) /\ ~IndexOK(op.mem, num.reg, Byte(num.scale))
  /\ Error

CloseBracket == Standing({"memNext"}) /\ Cur = "]" /\ Advance("taken") /\ Keep

\* The closing bracket is consumed before it is seen that there was no term.
CloseEmpty == Standing({"mem"}) /\ Cur = "]" /\ Advance("empty") /\ Keep

Empty == Standing({"empty"}) /\ Error

Unclosed ==
  /\ Cur # "]"
  /\ \/ Standing({"mem"}) /\ (AtEnd \/ fatal)
     \/ Standing({"memNext"}) /\ (Cur \notin Signs \/ fatal)
  /\ Error

-----------------------------------------------------------------------------

\* qas_parser_init loads two tokens.
Init ==
  /\ toks \in Sources
  /\ cur = 1 /\ at = "line" /\ from = 1 /\ parts = <<>> /\ op = NoNode /\ num = NoNum
  /\ hadError = FALSE /\ stmts = <<>> /\ result = "running"
  /\ LET bad   == {i \in 1 .. 2 : Tok(i) \in LexErrors}
         entry(i) == [by |-> "lexer", tok |-> i]
     IN \/ /\ fatal = FALSE
           /\ diags = CASE bad = {} -> <<>> [] bad = {1} -> <<entry(1)>>
                        [] bad = {2} -> <<entry(2)>> [] OTHER -> <<entry(1), entry(2)>>
        \/ /\ AllocMayFail /\ bad # {} /\ fatal = TRUE
           /\ diags \in {<<>>} \cup (IF bad = {1, 2} THEN {<<entry(1)>>, <<entry(2)>>} ELSE {})

Statements == Blank \/ Begin \/ BadStart \/ Colon \/ EndOfLine \/ TrailingToken \/ Finish
Recovery   == GiveUp \/ SkipToken \/ Resume
Numbers    == Overflow \/ TakeInt \/ NoInt
PartsNext  == \/ TooMany \/ PlainArg \/ IntPart \/ BadArg \/ Register \/ SymbolOperand
              \/ Addend \/ SizePrefix \/ Ptr \/ OpenBracket \/ NoBracket \/ BadOperand
              \/ Comma \/ LastPart \/ NoRoom
Memory     == \/ MemSign \/ TermRegister \/ Star \/ Scale \/ PlainRegister \/ TermSymbol
              \/ TermScale \/ StarReg \/ IndexReg \/ SetIndex \/ TermDisp \/ BadTerm
              \/ CloseBracket \/ CloseEmpty \/ Empty \/ Unclosed

Parse  == Statements \/ Recovery \/ Numbers \/ PartsNext \/ Memory
Return == ReturnFatal \/ ReturnOk

\* The parse has returned.
Returned == result # "running" /\ UNCHANGED vars

Next == Parse \/ Return \/ Returned

Spec == Init /\ [][Next]_vars /\ WF_vars(Next)
=============================================================================
