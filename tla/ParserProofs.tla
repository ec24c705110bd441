---------------------------- MODULE ParserProofs ----------------------------
(***************************************************************************)
(* Proofs about the parser, for every source, of any length, every limit   *)
(* on operands, and memory that may run out at any step.                   *)
(*                                                                         *)
(*   1. typing: ParserTypes, with what each place says of the part in hand *)
(*      (Typed)                                                            *)
(*   2. what Cut gives: the n-th part lies between two places              *)
(*   3. lines and parts: a line of which every part has been read is good  *)
(*      and means those parts, one bad part spoils it                      *)
(*   4. addresses: the parser takes a term in exactly when the terms, with *)
(*      it, are still an address, and then as that address says            *)
(*   5. terms: where one starts and ends among the tokens, and what the    *)
(*      first tokens of one tell of it                                     *)
(*   6. between brackets: InBrackets says of each place what has been read *)
(*      of the address; one lemma per step                                 *)
(*   7. within a part: PartOK says the same of arguments and operands      *)
(*   8. Followed: what each place says of the line, one lemma per action   *)
(*      (...Follows), so that Followed is inductive                        *)
(*   9. every step is one of the reader's in Syntax, or none it sees       *)
(*  10. errors: ErrorInv says of every line read what was reported of it,  *)
(*      and of the line being read what was reported so far; a step within *)
(*      a line is quiet, gives the line up with one report, or goes on     *)
(*      behind an integer out of range (StepKinds)                         *)
(***************************************************************************)
EXTENDS ParserMeaning, NatLemmas, SequenceTheorems

\* What token stands at a place: one of the tokens, or the end of the source.
LEMMA TokIs ==
  ASSUME toks \in Seq(Tokens)
  PROVE  /\ Len(toks) \in Nat
         /\ \A i \in Nat \ {0} : /\ i <= Len(toks) => Tok(i) = toks[i] /\ Tok(i) \in Tokens
                                 /\ i > Len(toks) => Tok(i) = "eof"
                                 /\ Tok(i) \in Tokens \cup {"eof"}
         /\ \A i \in Nat \ {0} : Tok(i) = "eof" <=> i > Len(toks)
<1>1. "eof" \notin Tokens
  BY DEF Tokens, Idents, Registers, Literals, Signs
<1>2. Len(toks) \in Nat /\ DOMAIN toks = 1 .. Len(toks)
  OBVIOUS
<1>3. ASSUME NEW i \in Nat \ {0}, i <= Len(toks) PROVE Tok(i) = toks[i] /\ toks[i] \in Tokens
  <2>1. i \in 1 .. Len(toks)
    BY <1>2, <1>3
  <2> QED BY <1>2, <2>1 DEF Tok, TokenAt
<1>4. ASSUME NEW i \in Nat \ {0}, i > Len(toks) PROVE Tok(i) = "eof"
  BY <1>2, <1>4 DEF Tok, TokenAt
<1>5. \A i \in Nat \ {0} : i <= Len(toks) \/ i > Len(toks)
  BY <1>2
<1> QED BY <1>1, <1>2, <1>3, <1>4, <1>5

-----------------------------------------------------------------------------
(* 1. Typing. *)

Kinds == {"int", "str", "symbol", "reg", "imm", "mem"}

Mems == [base : 0 .. None, index : 0 .. 15 \cup {None}, scale : {0, 1, 2, 4, 8},
         symbol : BOOLEAN, disp : 0 .. Word - 1]

Nodes == [kind : Kinds, name : Idents \cup {"", "str"}, value : 0 .. Word - 1, mem : Mems,
          sized : BOOLEAN, from : Nat, to : Nat]

Nums == [then : {"", "taken", "index"}, minus : BOOLEAN, reg : 0 .. None, scale : 0 .. Word - 1]

\* Places outside a statement, between two parts of it, at the start of one, and
\* behind its first token.
Outside == {"line", "failed", "skip", "colon"}
Between == {"args", "arg", "operands", "operand", "end", "done"}
Inside  == {"taken", "symbol", "sized", "bracket", "mem", "memNext", "term", "reg", "scale",
            "star", "indexReg", "index", "empty"}
Numeral == {"int", "clamped"}

StmtNodes == [kind : {"label", "directive", "instruction"}, name : Tokens \cup {"eof"},
               parts : Seq(Nodes), from : Nat, to : Int]

Marks == [by : {"lexer", "parser"}, tok : Nat]

\* Every part of the statement took a token, besides the one the statement starts with.
Room(n) == Len(parts) + n <= cur - from

\* What does not depend on the place.
Shaped ==
  /\ toks \in Seq(Tokens) /\ cur \in 1 .. Len(toks) + 1 /\ from \in 1 .. cur
  /\ parts \in Seq(Nodes) /\ num \in Nums
  /\ hadError \in BOOLEAN /\ fatal \in BOOLEAN /\ result \in {"running", "ok", "oom"}
  /\ diags \in Seq(Marks)
  /\ stmts \in Seq(StmtNodes) /\ \A k \in DOMAIN stmts : Len(stmts[k].parts) <= Len(toks)

Fitted ==
  /\ at \in Outside \cup Between \cup Inside \cup Numeral
  /\ at \in Between \cup Numeral \cup {"colon"} => Room(1)
  /\ at \in Inside => op \in Nodes /\ Room(2)
  /\ at \in Numeral => op \in Nodes /\ num.then \in {"taken", "index"}
  /\ at \in Numeral /\ num.then = "index" => Room(2)
  /\ at = "clamped" => Cur = "big"

Typed == Shaped /\ Fitted

\* The counters are numbers.
LEMMA ShapeIs ==
  ASSUME Shaped
  PROVE  /\ Len(toks) \in Nat /\ cur \in Nat \ {0} /\ from \in Nat \ {0} /\ from <= cur
         /\ cur <= Len(toks) + 1 /\ Len(parts) \in Nat
         /\ Cur \in Tokens \cup {"eof"} /\ (Cur = "eof" <=> cur > Len(toks))
<1>1. toks \in Seq(Tokens) /\ cur \in 1 .. Len(toks) + 1 /\ from \in 1 .. cur /\ parts \in Seq(Nodes)
  BY DEF Shaped
<1>2. Len(toks) \in Nat /\ Len(parts) \in Nat
  BY <1>1
<1>3. cur \in Nat \ {0} /\ from \in Nat \ {0} /\ from <= cur /\ cur <= Len(toks) + 1
  BY <1>1, <1>2
<1> QED BY <1>1, <1>2, <1>3, TokIs DEF Cur

\* A diagnostic is recorded or lost.
LEMMA EmitIs ==
  ASSUME Shaped, NEW who \in {"lexer", "parser"}, NEW i \in Nat, Emit(who, i)
  PROVE  fatal' \in BOOLEAN /\ diags' \in Seq(Marks)
<1>1. diags \in Seq(Marks) /\ fatal \in BOOLEAN /\ [by |-> who, tok |-> i] \in Marks
  BY DEF Shaped, Marks
<1> QED BY <1>1, AppendProperties DEF Emit

\* A token is consumed, unless the source ends.
LEMMA ConsumeIs ==
  ASSUME Shaped, Consume
  PROVE  /\ fatal' \in BOOLEAN /\ diags' \in Seq(Marks)
         /\ Cur # "eof" => cur' = cur + 1
         /\ Cur = "eof" => cur' = cur
         /\ cur' \in 1 .. Len(toks) + 1 /\ cur' >= cur
<1>1. cur + 2 \in Nat
  BY ShapeIs
<1>2. fatal' \in BOOLEAN /\ diags' \in Seq(Marks)
  BY <1>1, EmitIs DEF Consume, Load, Shaped
<1>3. cur' = (IF Cur = "eof" THEN cur ELSE cur + 1)
  BY DEF Consume
<1> QED BY <1>2, <1>3, ShapeIs

Moved(to) == Advance(to) \/ Goto(to) \/ Complain(to)

\* A step that stays in its statement keeps the shape.
LEMMA MoveIs ==
  ASSUME Shaped, NEW to, Moved(to), parts' \in Seq(Nodes), num' \in Nums
  PROVE  /\ Shaped' /\ at' = to /\ from' = from /\ cur' \in Nat /\ cur' >= cur /\ toks' = toks
         /\ Advance(to) /\ Cur # "eof" => cur' = cur + 1
<1>0. cur \in Nat /\ from \in Nat /\ from <= cur /\ Len(toks) \in Nat /\ cur <= Len(toks) + 1
  BY ShapeIs
<1>1. Advance(to) /\ Cur # "eof" => cur' = cur + 1
  BY ConsumeIs DEF Advance
<1>2. CASE Advance(to)
  BY <1>0, <1>2, ConsumeIs DEF Advance, Shaped
<1>3. CASE Goto(to)
  <2>1. /\ cur' = cur /\ at' = to /\ from' = from /\ toks' = toks /\ stmts' = stmts
        /\ hadError' = hadError /\ fatal' = fatal /\ diags' = diags /\ result' = result
    BY <1>3 DEF Goto
  <2>2. Shaped'
    BY <2>1 DEF Shaped
  <2> QED BY <1>0, <1>1, <2>1, <2>2
<1>4. CASE Complain(to)
  <2>1. fatal' \in BOOLEAN /\ diags' \in Seq(Marks)
    BY <1>4, EmitIs, ShapeIs DEF Complain
  <2>2. /\ cur' = cur /\ at' = to /\ from' = from /\ toks' = toks /\ stmts' = stmts
        /\ hadError' = TRUE /\ result' = result
    BY <1>4 DEF Complain
  <2>3. Shaped'
    BY <2>1, <2>2 DEF Shaped
  <2> QED BY <1>0, <1>1, <2>2, <2>3
<1>5. Moved(to)
  OBVIOUS
<1> QED BY <1>2, <1>3, <1>4, <1>5 DEF Moved

\* Room stays, and grows with a token consumed.
LEMMA RoomIs ==
  ASSUME Shaped, cur' \in Nat, from' = from
  PROVE  /\ cur' >= cur /\ parts' = parts => (Room(1) => Room(1)') /\ (Room(2) => Room(2)')
         /\ cur' = cur + 1 /\ parts' = parts => (Room(1) => Room(2)')
         /\ cur' >= cur /\ Len(parts') = Len(parts) + 1 => (Room(2) => Room(1)')
<1>1. cur \in Nat /\ from \in Nat /\ Len(parts) \in Nat /\ cur' \in Nat /\ from' = from
  BY ShapeIs
<1> QED BY <1>1 DEF Room

\* Errors and what is outside a statement fit anywhere.
LEMMA OutsideFits ==
  ASSUME Shaped, NEW to \in {"line", "failed", "skip"}, Moved(to), Keep
  PROVE  Typed'
<1>1. parts \in Seq(Nodes) /\ num \in Nums
  BY DEF Shaped
<1>2. Shaped' /\ at' = to
  BY <1>1, MoveIs DEF Keep
<1> QED BY <1>2 DEF Typed, Fitted, Outside, Between, Inside, Numeral

\* A statement goes on behind the token consumed.
LEMMA InsideFits ==
  ASSUME Shaped, NEW to \in Inside, parts' = parts, num' \in Nums, op' \in Nodes,
         \/ Advance(to) /\ Cur # "eof" /\ Room(1)
         \/ (Advance(to) \/ Goto(to)) /\ Room(2)
  PROVE  Typed'
<1>1. parts \in Seq(Nodes) /\ Moved(to)
  BY DEF Shaped, Moved
<1>2. /\ Shaped' /\ at' = to /\ from' = from /\ cur' \in Nat /\ cur' >= cur
      /\ Advance(to) /\ Cur # "eof" => cur' = cur + 1
  BY <1>1, MoveIs
<1>3. Room(2)'
  BY <1>2, RoomIs
<1> QED BY <1>2, <1>3 DEF Typed, Fitted, Outside, Between, Inside, Numeral

\* Where an integer is read, the state is well typed.
LEMMA NumeralFits ==
  ASSUME Shaped, parts' = parts, op' \in Nodes, NEW then \in {"taken", "index"}, SignedInt(then),
         Room(1), then = "index" => Room(2)
  PROVE  Typed'
<1>1. parts \in Seq(Nodes) /\ Moved("int")
  BY DEF Shaped, Moved, SignedInt
<1>2. num' = [num EXCEPT !.then = then, !.minus = (Cur = "-")]
  BY DEF SignedInt
<1>3. num' \in Nums /\ num'.then = then
  BY <1>2 DEF Shaped, Nums
<1>4. /\ Shaped' /\ at' = "int" /\ from' = from /\ cur' \in Nat /\ cur' >= cur
  BY <1>1, <1>3, MoveIs
<1>5. Room(1)' /\ (then = "index" => Room(2)')
  BY <1>4, RoomIs
<1> QED BY <1>3, <1>4, <1>5 DEF Typed, Fitted, Outside, Between, Inside, Numeral

\* What the tokens are worth.
LEMMA ValuesAre ==
  /\ \A l \in Literals : Value[l] \in 0 .. Word - 1
  /\ \A r \in Registers : Number[r] \in 0 .. None
  /\ \A l \in Literals, minus \in BOOLEAN : Signed(minus, Value[l]) \in 0 .. Word - 1
  /\ NoNum \in Nums /\ EmptyMem \in Mems /\ 0 \in 0 .. Word - 1 /\ Word \in Nat /\ Word > 258
<1>1. Word \in Nat /\ Word > 258
  BY WordAssumption
<1>2. Value["1"] = 1 /\ Value["3"] = 3 /\ Value["258"] = 258 /\ Value["big"] = Word - 1 /\ Literals = {"1", "3", "258", "big"}
  BY DEF Value, Literals
<1>3. \A l \in Literals : Value[l] \in 0 .. Word - 1
  BY <1>1, <1>2
<1>4. \A r \in Registers : Number[r] \in 0 .. None
  BY DEF Number, Registers, None, Rip
<1>5. \A v \in Int : v % Word \in 0 .. Word - 1
  BY <1>1, DivMod
<1>6. ASSUME NEW l \in Literals, NEW minus \in BOOLEAN PROVE Signed(minus, Value[l]) \in 0 .. Word - 1
  <2>1. Value[l] \in Int /\ -Value[l] \in Int
    BY <1>1, <1>3
  <2> QED BY <1>5, <2>1 DEF Signed
<1>7. 0 \in 0 .. Word - 1
  BY <1>1
<1>8. NoNum \in Nums /\ EmptyMem \in Mems
  BY <1>7 DEF NoNum, Nums, EmptyMem, Mems, None, Rip
<1> QED BY <1>1, <1>3, <1>4, <1>6, <1>7, <1>8

\* The named tokens are tokens, so none is the end of the source.
LEMMA TokensAre ==
  /\ Idents \subseteq Tokens /\ Literals \subseteq Tokens /\ Signs \subseteq Tokens
  /\ Registers \subseteq Idents
  /\ {"str", "dir", ",", "[", "]", "*", ":", "nl", "err", "size", "ptr", "big"} \subseteq Tokens
  /\ "eof" \notin Tokens
BY DEF Tokens, Idents, Registers, Literals, Signs

\* Where the parser may stand inside an operand.
LEMMA InsideIs ==
  ASSUME Typed, at \in Inside
  PROVE  Shaped /\ op \in Nodes /\ Room(1) /\ Room(2) /\ num \in Nums
<1>1. Shaped /\ op \in Nodes /\ Room(2)
  BY DEF Typed, Fitted
<1>2. Len(parts) \in Nat /\ cur \in Nat /\ from \in Nat
  BY <1>1, ShapeIs
<1>3. Room(1)
  BY <1>1, <1>2 DEF Room
<1> QED BY <1>1, <1>3 DEF Shaped

\* Where it may stand when a part starts.
LEMMA StartIs ==
  ASSUME Typed, at \in {"args", "arg", "operands", "operand"}
  PROVE  Shaped /\ Room(1) /\ num \in Nums /\ cur \in Nat
BY ShapeIs DEF Typed, Fitted, Between, Shaped

\* A new node is one.
LEMMA NewIs ==
  ASSUME NEW kind \in Kinds, NEW name \in Idents \cup {"", "str"}, NEW sized \in BOOLEAN,
         NEW i \in Nat
  PROVE  Node(kind, name, 0, EmptyMem, sized, i, 0) \in Nodes
BY ValuesAre DEF Node, Nodes

\* The parser starts well typed.
LEMMA TypedInit ==
  ASSUME Init PROVE Typed
<1>1. toks \in Seq(Tokens) /\ cur = 1 /\ from = 1 /\ parts = <<>> /\ num = NoNum /\ at = "line"
      /\ hadError = FALSE /\ stmts = <<>> /\ result = "running"
  BY ParserAssumption DEF Init
<1>2. fatal \in BOOLEAN
  BY DEF Init
<1>3. diags \in Seq(Marks)
  <2> DEFINE bad == {i \in 1 .. 2 : Tok(i) \in LexErrors}
             entry(i) == [by |-> "lexer", tok |-> i]
  <2>1. entry(1) \in Marks /\ entry(2) \in Marks
    BY DEF Marks
  <2>2. \/ diags = CASE bad = {} -> <<>> [] bad = {1} -> <<entry(1)>>
                      [] bad = {2} -> <<entry(2)>> [] OTHER -> <<entry(1), entry(2)>>
        \/ diags \in {<<>>} \cup (IF bad = {1, 2} THEN {<<entry(1)>>, <<entry(2)>>} ELSE {})
    BY DEF Init
  <2> HIDE DEF bad, entry
  <2>3. diags \in {<<>>, <<entry(1)>>, <<entry(2)>>, <<entry(1), entry(2)>>}
    BY <2>2
  <2>4. \A x, y \in Marks : <<>> \in Seq(Marks) /\ <<x>> \in Seq(Marks) /\ <<x, y>> \in Seq(Marks)
    OBVIOUS
  <2> QED BY <2>1, <2>3, <2>4
<1>4. Len(toks) \in Nat /\ 1 \in 1 .. Len(toks) + 1 /\ 1 \in 1 .. 1
  BY <1>1
<1>5. Shaped
  <2>1. parts \in Seq(Nodes) /\ stmts \in Seq(StmtNodes) /\ DOMAIN stmts = {}
    BY <1>1
  <2> QED BY <1>1, <1>2, <1>3, <1>4, <2>1, ValuesAre DEF Shaped
<1> QED BY <1>1, <1>5 DEF Typed, Fitted, Outside, Between, Inside, Numeral

\* A step from between the parts to another such place.
LEMMA BetweenFits ==
  ASSUME Shaped, Room(1), NEW to \in Between, Moved(to), parts' = parts, num' = num
  PROVE  Typed'
<1>1. parts' \in Seq(Nodes) /\ num' \in Nums
  BY DEF Shaped
<1>2. Shaped' /\ at' = to /\ from' = from /\ cur' \in Nat /\ cur' >= cur
  BY <1>1, MoveIs
<1>3. Room(1)'
  BY <1>2, RoomIs
<1> QED BY <1>2, <1>3 DEF Typed, Fitted, Outside, Between, Inside, Numeral

\* A statement that begins is well typed: the parser has consumed one of its tokens.
LEMMA TypedBegin ==
  ASSUME Typed, Begin PROVE Typed'
<1>1. Shaped /\ Cur \in Idents \cup {"dir"} /\ Consume
  BY DEF Typed, Begin
<1>2. /\ toks' = toks /\ from' = cur /\ parts' = <<>> /\ op' = NoNode /\ num' = NoNum
      /\ hadError' = hadError /\ stmts' = stmts /\ result' = result
      /\ at' \in {"colon", "args", "operands"}
  BY DEF Begin
<1>3. Cur # "eof"
  BY <1>1, TokensAre
<1>4. fatal' \in BOOLEAN /\ diags' \in Seq(Marks) /\ cur' = cur + 1 /\ cur' \in 1 .. Len(toks) + 1
  BY <1>1, <1>3, ConsumeIs
<1>5. cur \in Nat \ {0} /\ from' \in 1 .. cur'
  BY <1>1, <1>2, <1>4, ShapeIs
<1>6. Shaped'
  <2>1. <<>> \in Seq(Nodes) /\ NoNum \in Nums
    BY ValuesAre
  <2> QED BY <1>1, <1>2, <1>4, <1>5, <2>1 DEF Shaped
<1>7. Room(1)'
  BY <1>2, <1>4, <1>5 DEF Room
<1> QED BY <1>2, <1>6, <1>7 DEF Typed, Fitted, Outside, Between, Inside, Numeral

\* So is a line that starts no statement.
LEMMA TypedBadStart ==
  ASSUME Typed, BadStart PROVE Typed'
<1>1. Shaped /\ Emit("parser", cur)
  BY DEF Typed, BadStart
<1>2. cur \in Nat /\ cur \in 1 .. cur
  BY <1>1, ShapeIs
<1>3. fatal' \in BOOLEAN /\ diags' \in Seq(Marks)
  BY <1>1, <1>2, EmitIs
<1>4. /\ toks' = toks /\ from' = cur /\ cur' = cur /\ hadError' = TRUE /\ stmts' = stmts
      /\ result' = result /\ at' = "failed" /\ parts' = parts /\ num' = num
  BY DEF BadStart, Keep
<1>5. Shaped'
  BY <1>1, <1>2, <1>3, <1>4 DEF Shaped
<1> QED BY <1>4, <1>5 DEF Typed, Fitted, Outside, Between, Inside, Numeral

\* A statement that is complete is well typed, and so is the list it is added to.
LEMMA TypedFinish ==
  ASSUME Typed, Finish PROVE Typed'
<1>1. Shaped /\ at = "done" /\ Room(1)
  BY DEF Typed, Finish, Standing, Fitted, Between
<1>2. /\ cur \in Nat \ {0} /\ from \in Nat \ {0} /\ from <= cur /\ Len(toks) \in Nat
      /\ cur <= Len(toks) + 1 /\ Len(parts) \in Nat
  BY <1>1, ShapeIs
<1>3. /\ toks' = toks /\ from' = from /\ hadError' = hadError /\ parts' = parts /\ op' = op /\ num' = num
  BY DEF Finish, Keep
<1>4. /\ fatal' \in BOOLEAN /\ diags' \in Seq(Marks) /\ cur' \in 1 .. Len(toks) + 1 /\ cur' >= cur
      /\ cur' \in Nat
  <2>1. CASE Cur = "nl"
    BY <1>1, <1>2, <2>1, ConsumeIs DEF Finish
  <2>2. CASE Cur # "nl"
    <3>1. cur' = cur /\ diags' = diags /\ fatal' = fatal
      BY <2>2 DEF Finish
    <3> QED BY <1>1, <1>2, <3>1 DEF Shaped
  <2> QED BY <2>1, <2>2
<1>5. from' \in 1 .. cur'
  BY <1>2, <1>3, <1>4
<1>6. CASE result' = "oom" /\ stmts' = stmts /\ at' = at
  <2>1. Shaped'
    BY <1>1, <1>3, <1>4, <1>5, <1>6 DEF Shaped
  <2>2. Room(1)'
    BY <1>1, <1>3, <1>4, RoomIs
  <2> QED BY <1>1, <1>6, <2>1, <2>2 DEF Typed, Fitted, Outside, Between, Inside, Numeral
<1>7. CASE /\ stmts' = Append(stmts, Statement(Kind, Tok(from), parts, from, cur' - 1))
           /\ at' = "line" /\ result' = result
  <2> DEFINE new == Statement(Kind, Tok(from), parts, from, cur' - 1)
  <2>1. Kind \in {"label", "directive", "instruction"} /\ Tok(from) \in Tokens \cup {"eof"}
        /\ cur' - 1 \in Int /\ parts \in Seq(Nodes) /\ from \in Nat
    BY <1>1, <1>2, <1>4, TokIs DEF Kind, Shaped
  <2>2. new \in StmtNodes /\ new.parts = parts
    BY <2>1 DEF Statement, StmtNodes
  <2>3. Len(new.parts) <= Len(toks)
    BY <1>1, <1>2, <2>2 DEF Room
  <2> HIDE DEF new
  <2>4. stmts \in Seq(StmtNodes) /\ \A k \in DOMAIN stmts : Len(stmts[k].parts) <= Len(toks)
    BY <1>1 DEF Shaped
  <2>5. stmts' \in Seq(StmtNodes) /\ \A k \in DOMAIN stmts' : Len(stmts'[k].parts) <= Len(toks)
    <3>0. stmts' = Append(stmts, new)
      BY <1>7 DEF new
    <3>1. /\ stmts' \in Seq(StmtNodes) /\ DOMAIN stmts' = 1 .. Len(stmts) + 1 /\ Len(stmts) \in Nat
          /\ \A k \in 1 .. Len(stmts) : stmts'[k] = stmts[k] /\ k \in DOMAIN stmts
          /\ stmts'[Len(stmts) + 1] = new
      BY <2>2, <2>4, <3>0
    <3>2. \A k \in 1 .. Len(stmts) + 1 : k \in 1 .. Len(stmts) \/ k = Len(stmts) + 1
      BY <3>1
    <3> QED BY <2>3, <2>4, <3>1, <3>2
  <2>6. Shaped'
    BY <1>1, <1>3, <1>4, <1>5, <1>7, <2>5 DEF Shaped
  <2> QED BY <1>7, <2>6 DEF Typed, Fitted, Outside, Between, Inside, Numeral
<1> QED BY <1>6, <1>7 DEF Finish

\* The steps between statements keep the types.
LEMMA TypedStatements ==
  ASSUME Typed, Statements PROVE Typed'
<1>0. Shaped
  BY DEF Typed
<1>1. CASE Blank
  BY <1>0, <1>1, OutsideFits DEF Blank, Moved
<1>2. CASE Colon
  <2>1. Room(1) /\ Moved("done") /\ parts' = parts /\ num' = num
    BY <1>2 DEF Colon, Typed, Fitted, Standing, Moved, Keep
  <2> QED BY <1>0, <2>1, BetweenFits DEF Between
<1>3. CASE EndOfLine
  <2>1. Room(1) /\ Moved("done") /\ parts' = parts /\ num' = num
    BY <1>3 DEF EndOfLine, Typed, Fitted, Standing, Moved, Keep, Between
  <2> QED BY <1>0, <2>1, BetweenFits DEF Between
<1>4. CASE TrailingToken
  BY <1>0, <1>4, OutsideFits DEF TrailingToken, Moved, Error, Complain, Keep
<1> QED BY <1>1, <1>2, <1>3, <1>4, TypedBegin, TypedBadStart, TypedFinish DEF Statements

\* So do those that skip the rest of a line.
LEMMA TypedRecovery ==
  ASSUME Typed, Recovery PROVE Typed'
<1>0. Shaped
  BY DEF Typed
<1>1. CASE GiveUp
  BY <1>0, <1>1, OutsideFits DEF GiveUp, Moved
<1>2. CASE SkipToken
  BY <1>0, <1>2, OutsideFits DEF SkipToken, Moved
<1>3. CASE Resume
  BY <1>0, <1>3, OutsideFits DEF Resume, Moved
<1> QED BY <1>1, <1>2, <1>3 DEF Recovery

\* An error keeps the types wherever it is found.
LEMMA TypedError ==
  ASSUME Typed, Error PROVE Typed'
BY OutsideFits DEF Typed, Error, Complain, Moved, Keep

\* So do those that read an integer.
LEMMA TypedNumbers ==
  ASSUME Typed, Numbers PROVE Typed'
<1>0. Shaped /\ cur \in Nat /\ Cur \in Tokens \cup {"eof"}
  BY ShapeIs DEF Typed
<1>1. CASE Overflow
  <2>1. /\ at = "int" /\ Cur = "big" /\ Complain("clamped")
        /\ op \in Nodes /\ num.then \in {"taken", "index"} /\ Room(1) /\ (num.then = "index" => Room(2))
    BY <1>1 DEF Overflow, Standing, Typed, Fitted, Numeral
  <2>2. /\ cur' = cur /\ toks' = toks /\ parts' = parts /\ op' = op /\ num' = num /\ from' = from
        /\ at' = "clamped" /\ parts \in Seq(Nodes) /\ num \in Nums
    BY <1>0, <2>1 DEF Complain, Shaped
  <2>3. Shaped'
    BY <1>0, <2>1, <2>2, MoveIs DEF Moved
  <2>4. Room(1)' /\ (num.then = "index" => Room(2)')
    BY <2>1, <2>2 DEF Room
  <2>5. Cur' = "big"
    BY <2>1, <2>2 DEF Cur, Tok, TokenAt
  <2> QED BY <2>1, <2>2, <2>3, <2>4, <2>5 DEF Typed, Fitted, Outside, Between, Inside, Numeral
<1>2. CASE TakeInt
  <2>1. /\ at \in Numeral /\ Cur \in Literals
        /\ op \in Nodes /\ num \in Nums /\ num.then \in {"taken", "index"} /\ Room(1)
    BY <1>0, <1>2 DEF TakeInt, Standing, Typed, Fitted, Numeral, Literals, Shaped
  <2>2. Signed(num.minus, Value[Cur]) \in 0 .. Word - 1
    BY <2>1, ValuesAre DEF Nums
  <2>3. op' \in Nodes /\ num' \in Nums /\ parts' = parts /\ Advance(num.then)
    BY <1>2, <2>1, <2>2 DEF TakeInt, Nodes, Nums
  <2>4. Cur # "eof" /\ num.then \in Inside
    BY <2>1, TokensAre DEF Inside
  <2> QED BY <1>0, <2>1, <2>3, <2>4, InsideFits
<1>3. CASE NoInt
  BY <1>3, TypedError DEF NoInt
<1> QED BY <1>1, <1>2, <1>3 DEF Numbers

\* The node of a part that starts here.
LEMMA TypedStart ==
  ASSUME Typed, at \in {"args", "arg", "operands", "operand"}, Cur # "eof",
         NEW kind \in Kinds, NEW name \in Idents \cup {"", "str"}, NEW sized \in BOOLEAN,
         New(kind, name, EmptyMem, sized), NEW to \in Inside, Advance(to), parts' = parts, num' \in Nums
  PROVE  Typed'
<1>1. Shaped /\ Room(1) /\ cur \in Nat
  BY StartIs
<1>2. op' \in Nodes
  BY <1>1, NewIs DEF New
<1> QED BY <1>1, <1>2, InsideFits

\* A part is finished.
LEMMA TypedPart ==
  ASSUME Typed, Taken, PartDone, NEW to \in Between, Moved(to)
  PROVE  Typed'
<1>1. Shaped /\ op \in Nodes /\ Room(2) /\ num \in Nums
  BY InsideIs DEF Taken, Standing, Inside
<1>2. cur \in Nat \ {0} /\ cur - 1 \in Nat
  BY <1>1, ShapeIs
<1>3. [op EXCEPT !.to = cur - 1] \in Nodes
  BY <1>1, <1>2 DEF Nodes
<1>4. parts \in Seq(Nodes) /\ parts' = Append(parts, [op EXCEPT !.to = cur - 1]) /\ num' = num
  BY <1>1 DEF Shaped, PartDone
<1>5. parts' \in Seq(Nodes) /\ Len(parts') = Len(parts) + 1
  BY <1>3, <1>4, AppendProperties
<1>6. Shaped' /\ at' = to /\ from' = from /\ cur' \in Nat /\ cur' >= cur
  BY <1>1, <1>4, <1>5, MoveIs
<1>7. Room(1)'
  BY <1>1, <1>5, <1>6, RoomIs
<1> QED BY <1>6, <1>7 DEF Typed, Fitted, Outside, Between, Inside, Numeral

\* So do those that read arguments and operands.
LEMMA TypedParts ==
  ASSUME Typed, PartsNext PROVE Typed'
<1>0. Shaped /\ cur \in Nat /\ Cur \in Tokens \cup {"eof"}
  BY ShapeIs DEF Typed
<1>1. CASE TooMany \/ BadArg \/ NoBracket \/ BadOperand
  BY <1>1, TypedError DEF TooMany, BadArg, NoBracket, BadOperand
<1>2. CASE PlainArg
  <2>1. at \in {"args", "arg", "operands", "operand"} /\ Cur \in Idents \cup {"str"} /\ parts' = parts
    BY <1>2 DEF PlainArg, Arg, Standing
  <2>2. num' \in Nums /\ Advance("taken") /\ Cur # "eof" /\ "taken" \in Inside
    BY <1>0, <1>2, <2>1, TokensAre DEF PlainArg, Shaped, Inside
  <2>3. New(IF Cur = "str" THEN "str" ELSE "symbol", Cur, EmptyMem, FALSE)
    BY <1>2 DEF PlainArg
  <2>4. (IF Cur = "str" THEN "str" ELSE "symbol") \in Kinds
    BY DEF Kinds
  <2> QED BY <2>1, <2>2, <2>3, <2>4, TypedStart
<1>3. CASE IntPart
  <2>1. at \in {"args", "arg", "operands", "operand"} /\ parts' = parts /\ SignedInt("taken")
    BY <1>3 DEF IntPart, Arg, Operand, Standing
  <2>2. PICK kind \in Kinds : New(kind, "", EmptyMem, FALSE)
    BY <1>3 DEF IntPart, Kinds
  <2>3. op' \in Nodes
    BY <1>0, <2>2, NewIs DEF New
  <2>4. Room(1)
    BY <2>1, StartIs
  <2> QED BY <1>0, <2>1, <2>3, <2>4, NumeralFits
<1>4. CASE Register
  <2>1. at \in {"args", "arg", "operands", "operand"} /\ Cur \in Idents /\ parts' = parts
    BY <1>4, TokensAre DEF Register, Operand, Standing
  <2>2. num' \in Nums /\ Advance("taken") /\ Cur # "eof" /\ "taken" \in Inside
    BY <1>0, <1>4, <2>1, TokensAre DEF Register, Shaped, Inside
  <2>3. New("reg", Cur, EmptyMem, FALSE) /\ "reg" \in Kinds
    BY <1>4 DEF Register, Kinds
  <2> QED BY <2>1, <2>2, <2>3, TypedStart
<1>5. CASE SymbolOperand
  <2>1. at \in {"args", "arg", "operands", "operand"} /\ Cur \in Idents /\ parts' = parts
    BY <1>5, TokensAre DEF SymbolOperand, Operand, Standing
  <2>2. num' \in Nums /\ Advance("symbol") /\ Cur # "eof" /\ "symbol" \in Inside
    BY <1>0, <1>5, <2>1, TokensAre DEF SymbolOperand, Shaped, Inside
  <2>3. New("imm", Cur, EmptyMem, FALSE) /\ "imm" \in Kinds
    BY <1>5 DEF SymbolOperand, Kinds
  <2> QED BY <2>1, <2>2, <2>3, TypedStart
<1>6. CASE Addend
  <2>1. op \in Nodes /\ Room(1) /\ parts' = parts /\ op' = op /\ SignedInt("taken")
    BY <1>6, InsideIs DEF Addend, Standing, Inside
  <2> QED BY <1>0, <2>1, NumeralFits
<1>7. CASE SizePrefix
  <2>1. at \in {"args", "arg", "operands", "operand"} /\ Cur = "size" /\ parts' = parts
    BY <1>7, TokensAre DEF SizePrefix, Operand, Standing
  <2>2. num' \in Nums /\ Advance("sized") /\ Cur # "eof" /\ "sized" \in Inside
    BY <1>0, <1>7, <2>1, TokensAre DEF SizePrefix, Shaped, Inside
  <2>3. New("mem", "", EmptyMem, TRUE) /\ "mem" \in Kinds
    BY <1>7 DEF SizePrefix, Kinds
  <2> QED BY <2>1, <2>2, <2>3, TypedStart
<1>8. CASE Ptr
  <2>1. at \in Inside /\ Cur # "eof" /\ Advance("bracket") /\ parts' = parts /\ op' = op /\ num' = num
    BY <1>8 DEF Ptr, Standing, Inside, Keep
  <2>2. op' \in Nodes /\ num' \in Nums /\ Room(1) /\ "bracket" \in Inside
    BY <2>1, InsideIs DEF Inside
  <2> QED BY <1>0, <2>1, <2>2, InsideFits
<1>9. CASE OpenBracket
  <2>1. Cur # "eof" /\ Advance("mem") /\ num' \in Nums /\ parts' = parts /\ "mem" \in Inside
    BY <1>9, ValuesAre DEF OpenBracket, Inside
  <2>2. CASE Operand /\ New("mem", "", EmptyMem, FALSE)
    <3>1. at \in {"args", "arg", "operands", "operand"} /\ "mem" \in Kinds
      BY <2>2 DEF Operand, Standing, Kinds
    <3> QED BY <2>1, <2>2, <3>1, TypedStart
  <2>3. CASE Standing({"sized", "bracket"}) /\ UNCHANGED op
    <3>1. op' \in Nodes /\ Room(1)
      BY <2>3, InsideIs DEF Standing, Inside
    <3> QED BY <1>0, <2>1, <3>1, InsideFits
  <2> QED BY <1>9, <2>2, <2>3 DEF OpenBracket
<1>10. CASE Comma
  <2> DEFINE to == IF Kind = "directive" THEN "arg" ELSE "operand"
  <2>1. Taken /\ PartDone /\ Moved(to)
    BY <1>10 DEF Comma, Moved
  <2>2. to \in Between
    BY DEF Between
  <2> QED BY <2>1, <2>2, TypedPart
<1>11. CASE LastPart
  <2>1. Taken /\ PartDone /\ Moved("end")
    BY <1>11 DEF LastPart, Moved
  <2> QED BY <2>1, TypedPart DEF Between
<1>12. CASE NoRoom
  <2>1. /\ fatal' = TRUE /\ at' = "failed" /\ toks' = toks /\ cur' = cur /\ from' = from
        /\ hadError' = hadError /\ diags' = diags /\ stmts' = stmts /\ result' = result
        /\ parts' = parts /\ op' = op /\ num' = num
    BY <1>12 DEF NoRoom, Keep
  <2>2. Shaped'
    BY <1>0, <2>1 DEF Shaped
  <2> QED BY <2>1, <2>2 DEF Typed, Fitted, Outside, Between, Inside, Numeral
<1> QED BY <1>1, <1>2, <1>3, <1>4, <1>5, <1>6, <1>7, <1>8, <1>9, <1>10, <1>11, <1>12 DEF PartsNext

\* A step inside the brackets.
LEMMA TypedInside ==
  ASSUME Typed, at \in Inside, NEW to \in Inside, Advance(to) \/ Goto(to), parts' = parts,
         num' \in Nums, op' \in Nodes
  PROVE  Typed'
BY InsideIs, InsideFits

\* What the terms do to the address.
LEMMA MemsAre ==
  ASSUME NEW m \in Mems, NEW r \in 0 .. None, NEW s
  PROVE  /\ PlainOK(m, r) => WithPlain(m, r) \in Mems
         /\ IndexOK(m, r, s) => WithIndex(m, r, s) \in Mems
         /\ [m EXCEPT !.symbol = TRUE] \in Mems
<1>1. r \in Int /\ r >= 0 /\ r <= None
  BY DEF None
<1>2. ASSUME NEW k, IndexOK(m, r, k) PROVE WithIndex(m, r, k) \in Mems
  <2>1. r \in 0 .. 15
    BY <1>1, <1>2 DEF IndexOK, IsGpr, Rip
  <2>2. k \in {0, 1, 2, 4, 8}
    BY <1>2 DEF IndexOK
  <2>3. WithIndex(m, r, k) = [[m EXCEPT !.index = r] EXCEPT !.scale = k]
    BY DEF WithIndex
  <2> QED BY <2>1, <2>2, <2>3 DEF Mems
<1>3. IndexOK(m, r, 1) => WithIndex(m, r, 1) \in Mems
  BY <1>2
<1>4. PlainOK(m, r) => WithPlain(m, r) \in Mems
  BY <1>1, <1>3 DEF PlainOK, WithPlain, Mems, Rip, None
<1>5. [m EXCEPT !.symbol = TRUE] \in Mems
  BY DEF Mems
<1> QED BY <1>2, <1>4, <1>5

\* So do those between brackets.
LEMMA TypedMemory ==
  ASSUME Typed, Memory PROVE Typed'
<1>0. Shaped /\ cur \in Nat /\ Cur \in Tokens \cup {"eof"} /\ num \in Nums
  BY ShapeIs DEF Typed, Shaped
<1>1. CASE BadTerm \/ Empty \/ Unclosed
  BY <1>1, TypedError DEF BadTerm, Empty, Unclosed
<1>2. CASE Star \/ StarReg \/ CloseBracket \/ CloseEmpty
  <2>1. \E to \in Inside : at \in Inside /\ Advance(to) /\ parts' = parts /\ op' = op /\ num' = num
    BY <1>2 DEF Star, StarReg, CloseBracket, CloseEmpty, Standing, Inside, Keep
  <2> QED BY <1>0, <2>1, InsideIs, TypedInside
<1>3. CASE MemSign
  <2>1. /\ at \in Inside /\ Advance("term") /\ parts' = parts /\ op' = op
        /\ num' = [NoNum EXCEPT !.minus = (Cur = "-")] /\ "term" \in Inside
    BY <1>3 DEF MemSign, Standing, Inside
  <2>2. num' \in Nums
    BY <2>1, ValuesAre DEF Nums
  <2> QED BY <2>1, <2>2, InsideIs, TypedInside
<1>4. ASSUME Term PROVE at \in Inside
  BY <1>4 DEF Term, Standing, Inside
<1>5. CASE TermRegister \/ IndexReg
  <2>1. at \in Inside
    BY <1>4, <1>5 DEF TermRegister, IndexReg, Standing, Inside
  <2>2. /\ Cur \in Registers /\ num' = [num EXCEPT !.reg = Number[Cur]] /\ parts' = parts /\ op' = op
        /\ \E to \in Inside : Advance(to)
    BY <1>5 DEF TermRegister, IndexReg, Inside
  <2>3. num' \in Nums
    BY <1>0, <2>2, ValuesAre DEF Nums
  <2> QED BY <2>1, <2>2, <2>3, InsideIs, TypedInside
<1>6. CASE Scale
  <2>1. at \in Inside /\ parts' = parts /\ op' = op /\ SignedInt("index")
    BY <1>6 DEF Scale, Standing, Inside
  <2> QED BY <1>0, <2>1, InsideIs, NumeralFits
<1>7. CASE PlainRegister
  <2>1. /\ at \in Inside /\ Goto("memNext") /\ parts' = parts /\ num' = num /\ PlainOK(op.mem, num.reg)
        /\ op' = [op EXCEPT !.mem = WithPlain(op.mem, num.reg)] /\ "memNext" \in Inside
    BY <1>7 DEF PlainRegister, SetMem, Standing, Inside
  <2>2. op \in Nodes /\ op.mem \in Mems /\ num.reg \in 0 .. None
    BY <1>0, <2>1, InsideIs DEF Nodes, Nums
  <2>3. op' \in Nodes
    BY <2>1, <2>2, MemsAre DEF Nodes
  <2> QED BY <1>0, <2>1, <2>3, TypedInside
<1>8. CASE SetIndex
  <2> DEFINE s == Byte(num.scale)
  <2>1. /\ at \in Inside /\ Goto("memNext") /\ parts' = parts /\ num' = num /\ IndexOK(op.mem, num.reg, s)
        /\ op' = [op EXCEPT !.mem = WithIndex(op.mem, num.reg, s)] /\ "memNext" \in Inside
    BY <1>8 DEF SetIndex, SetMem, Standing, Inside
  <2>2. op \in Nodes /\ op.mem \in Mems /\ num.reg \in 0 .. None
    BY <1>0, <2>1, InsideIs DEF Nodes, Nums
  <2> HIDE DEF s
  <2>3. op' \in Nodes
    BY <2>1, <2>2, MemsAre DEF Nodes
  <2> QED BY <1>0, <2>1, <2>3, TypedInside
<1>9. CASE TermSymbol
  <2>1. /\ at \in Inside /\ Advance("memNext") /\ parts' = parts /\ num' = num
        /\ op' = [op EXCEPT !.mem = [op.mem EXCEPT !.symbol = TRUE]] /\ "memNext" \in Inside
    BY <1>4, <1>9 DEF TermSymbol, SetMem, Inside
  <2>2. op \in Nodes /\ op.mem \in Mems /\ num.reg \in 0 .. None
    BY <1>0, <2>1, InsideIs DEF Nodes, Nums
  <2>3. op' \in Nodes
    BY <2>1, <2>2, MemsAre DEF Nodes
  <2> QED BY <1>0, <2>1, <2>3, TypedInside
<1>10. CASE TermScale
  <2>1. /\ at \in Inside /\ Advance("star") /\ parts' = parts /\ op' = op /\ Cur \in Literals
        /\ num' = [num EXCEPT !.scale = Value[Cur]] /\ "star" \in Inside
    BY <1>4, <1>10 DEF TermScale, ScaleFirst, Inside
  <2>2. num' \in Nums
    BY <1>0, <2>1, ValuesAre DEF Nums
  <2> QED BY <2>1, <2>2, InsideIs, TypedInside
<1>11. CASE TermDisp
  <2> DEFINE d == (op.mem.disp + Signed(num.minus, Value[Cur])) % Word
  <2>1. /\ at \in Inside /\ Advance("memNext") /\ parts' = parts /\ num' = num /\ Cur \in Literals
        /\ op' = [op EXCEPT !.mem = [op.mem EXCEPT !.disp = d]] /\ "memNext" \in Inside
    BY <1>4, <1>11 DEF TermDisp, SetMem, Inside
  <2>2. op \in Nodes /\ op.mem \in Mems /\ num.minus \in BOOLEAN /\ op.mem.disp \in 0 .. Word - 1
    BY <1>0, <2>1, InsideIs DEF Nodes, Nums, Mems
  <2>3. Signed(num.minus, Value[Cur]) \in 0 .. Word - 1
    BY <2>1, <2>2, ValuesAre
  <2>4. d \in 0 .. Word - 1
    <3>1. Word \in Nat \ {0}
      BY ValuesAre
    <3>2. \A a, b \in 0 .. Word - 1 : (a + b) % Word \in 0 .. Word - 1
      BY <3>1, DivMod
    <3> QED BY <2>2, <2>3, <3>2
  <2> HIDE DEF d
  <2>5. [op.mem EXCEPT !.disp = d] \in Mems
    BY <2>2, <2>4 DEF Mems
  <2>6. op' \in Nodes
    BY <2>1, <2>2, <2>5 DEF Nodes
  <2> QED BY <1>0, <2>1, <2>6, TypedInside
<1> QED BY <1>1, <1>2, <1>3, <1>5, <1>6, <1>7, <1>8, <1>9, <1>10, <1>11 DEF Memory

\* Every step keeps the types.
LEMMA TypedNext ==
  ASSUME Typed, [Next]_vars PROVE Typed'
<1>1. CASE Return \/ Returned \/ UNCHANGED vars
  <2>1. /\ UNCHANGED <<toks, cur, at, from, parts, op, num, hadError, fatal, diags, stmts>>
        /\ result' \in {"running", "ok", "oom"}
    BY <1>1 DEF Return, ReturnOk, ReturnFatal, Returned, vars, Typed, Shaped
  <2>2. Cur' = Cur
    BY <2>1 DEF Cur, Tok, TokenAt
  <2> QED BY <2>1, <2>2 DEF Typed, Shaped, Fitted, Room
<1>2. CASE Parse
  BY <1>2, TypedStatements, TypedRecovery, TypedNumbers, TypedParts, TypedMemory DEF Parse
<1> QED BY <1>1, <1>2 DEF Next

\* The types, with what a place says of the operand in hand.
LEMMA TypedAlways == Spec => []Typed
<1> QED BY TypedInit, TypedNext, PTL DEF Spec

\* The state of the parser is well typed: registers and scales in an operand are
\* those the encoder has, and a statement has no more parts than its source tokens.
THEOREM ParserTypes == Spec => []TypeOK
<1>1. Typed => TypeOK
  BY DEF Typed, Shaped, TypeOK, Nodes, Kinds, Mems, Nums
<1> QED BY <1>1, TypedAlways, PTL

-----------------------------------------------------------------------------
(* 2. Places where a sequence is cut. *)

\* The count of a set, as the reader's module names it.
LEMMA ReaderCount == \A S : Reader!Cardinality(S) = Cardinality(S)
BY DEF Reader!Cardinality, Cardinality

\* The n-th place, as the reader's module names it.
LEMMA ReaderNth == \A S, n : Reader!Nth(S, n) = NthMember(S, n)
BY ReaderCount DEF Reader!Nth, NthMember

\* The n-th place is the one with n - 1 places below it.
LEMMA NthIs ==
  ASSUME NEW S \in SUBSET Nat, IsFiniteSet(S), NEW a \in S, NEW n,
         Cardinality(Lower(S, a)) = n - 1
  PROVE  Reader!Nth(S, n) = a
BY ReaderNth, NthMemberIs

\* The first place stays first when a later one is added; a second one is second.
LEMMA NthGrows ==
  ASSUME NEW S \in SUBSET Nat, IsFiniteSet(S), NEW x \in Nat, \A k \in S : k < x
  PROVE  /\ S = {} => Reader!Nth(S \cup {x}, 1) = x
         /\ S # {} => Reader!Nth(S, 1) \in S /\ Reader!Nth(S \cup {x}, 1) = Reader!Nth(S, 1)
         /\ Cardinality(S) = 1 => Reader!Nth(S \cup {x}, 2) = x
         /\ IsFiniteSet(S \cup {x}) /\ Cardinality(S \cup {x}) = Cardinality(S) + 1
         /\ Cardinality(S) \in Nat /\ (Cardinality(S) = 0 <=> S = {})
         /\ Cardinality(S) = 1 => S = {Reader!Nth(S, 1)}
BY ReaderNth, NthMemberGrows

\* The second of two places is one of them.
LEMMA SecondPlace ==
  ASSUME NEW S \in SUBSET Nat, IsFiniteSet(S), Cardinality(S) = 2
  PROVE  Reader!Nth(S, 2) \in S
BY ReaderNth, SecondMember

\* The n-th part of a sequence that is cut reaches from the place before it to the next.
LEMMA CutIs ==
  ASSUME NEW s, NEW S \in SUBSET Nat, IsFiniteSet(S), NEW n \in Nat \ {0}, NEW a \in Nat, Opens(S, a, n),
         NEW b \in Nat, Closes(S, a, n, b, Len(s)), Len(s) \in Nat
  PROVE  /\ n \in 1 .. Cardinality(S) + 1 /\ DOMAIN Reader!Cut(s, S) = 1 .. Cardinality(S) + 1
         /\ Cardinality(S) \in Nat
         /\ Reader!Cut(s, S)[n] = [from |-> a, to |-> b - 1]
         /\ Later(S, a, n) # {} => Opens(S, b, n + 1) /\ n # Cardinality(S) + 1
         /\ Later(S, a, n) = {} => n = Cardinality(S) + 1
<1> DEFINE c == Cardinality(S)
<1>1. /\ n \in 1 .. c + 1 /\ c \in Nat
      /\ a = IF n = 1 THEN 1 ELSE NthMember(S, n - 1)
      /\ b - 1 = IF n > c THEN Len(s) ELSE NthMember(S, n) - 1
      /\ Later(S, a, n) # {} => Opens(S, b, n + 1) /\ n # c + 1
      /\ Later(S, a, n) = {} => n = c + 1
  BY PieceBetween
<1> HIDE DEF c
<1>2. DOMAIN Reader!Cut(s, S) = 1 .. c + 1
      /\ Reader!Cut(s, S)[n] = [from |-> IF n = 1 THEN 1 ELSE NthMember(S, n - 1),
                                to   |-> IF n > c THEN Len(s) ELSE NthMember(S, n) - 1]
  BY <1>1, ReaderCount, ReaderNth DEF Reader!Cut, c
<1> QED BY <1>1, <1>2 DEF c

-----------------------------------------------------------------------------
(* 3. The lines and parts of a sequence of tokens. *)

\* The line from token i on ends before token LineStop(src, i).
LineStop(src, i) ==
  CHOOSE e \in i .. Len(src) + 1 :
    TokenAt(src, e) \in LineEnd /\ \A k \in i .. e - 1 : TokenAt(src, k) \notin LineEnd

\* The token that parts are separated by, under a name.
CommaToken == ","

LineText(src, i) == SubSeq(src, i + 1, LineStop(src, i) - 1)

Commas(s) == {k \in DOMAIN s : s[k] = CommaToken}

PartsOf(src, i) ==
  LET cuts == Reader!Cut(LineText(src, i), Commas(LineText(src, i)))
  IN IF LineText(src, i) = <<>> THEN <<>>
     ELSE [n \in DOMAIN cuts |-> [from |-> i + cuts[n].from + (IF n = 1 THEN 0 ELSE 1),
                                  to   |-> i + cuts[n].to]]

\* A comma is a token of its own kind.
LEMMA CommaIs ==
  /\ CommaToken \in Tokens /\ CommaToken \notin LineEnd /\ CommaToken # "eof"
  /\ CommaToken \notin Idents \cup Literals \cup Signs \cup {"str", "dir", "[", "]", "*", ":", "size", "ptr"}
BY Zenon DEF CommaToken, Tokens, LineEnd, Idents, Registers, Literals, Signs

\* The reader's module has the tokens, registers and nodes of the parser's.
LEMMA ReaderNames ==
  /\ Reader!LineEnd = LineEnd /\ Reader!Idents = Idents /\ Reader!Registers = Registers
  /\ Reader!Literals = Literals /\ Reader!Signs = Signs /\ Reader!Value = Value
  /\ Reader!Number = Number /\ Reader!Rip = Rip /\ Reader!None = None
  /\ Reader!EmptyMem = EmptyMem
  /\ \A s : Reader!Byte(s) = Byte(s)
  /\ \A i : Reader!Tok(i) = TokenAt(toks, i) /\ Tok(i) = TokenAt(toks, i)
<1>1. Reader!LineEnd = LineEnd /\ Reader!Idents = Idents /\ Reader!Registers = Registers
      /\ Reader!Literals = Literals /\ Reader!Signs = Signs
  BY DEF Reader!LineEnd, LineEnd, Reader!Idents, Idents, Reader!Registers, Registers,
         Reader!Literals, Literals, Reader!Signs, Signs
<1>2. Reader!Rip = Rip /\ Reader!None = None /\ Reader!EmptyMem = EmptyMem
  BY DEF Reader!Rip, Rip, Reader!None, None, Reader!EmptyMem, EmptyMem
<1>3. Reader!Value = Value
  BY <1>1 DEF Reader!Value, Value
<1>4. Reader!Number = Number
  BY <1>1, <1>2 DEF Reader!Number, Number
<1>5. \A i : Reader!Tok(i) = TokenAt(toks, i) /\ Tok(i) = TokenAt(toks, i)
  BY DEF Reader!Tok, Tok, TokenAt, Reader!TokenAt
<1>6. \A s : Reader!Byte(s) = Byte(s)
  BY DEF Reader!Byte, Byte
<1> QED BY <1>1, <1>2, <1>3, <1>4, <1>5, <1>6

\* The reader of lines builds the nodes the parser builds.
LEMMA ReaderNodes ==
  /\ \A kind, name, value, mem, sized, f, t :
       Reader!Node(kind, name, value, mem, sized, f, t) = Node(kind, name, value, mem, sized, f, t)
  /\ \A kind, name, ps, f, t :
       Reader!Statement(kind, name, ps, f, t) = Statement(kind, name, ps, f, t)
BY DEF Reader!Node, Node, Reader!Statement, Statement

\* Its lines end, and fall into parts, as they are described here.
LEMMA ReaderLines ==
  ASSUME NEW i
  PROVE  Reader!EndOf(i) = LineStop(toks, i) /\ Reader!Parts(i) = PartsOf(toks, i)
<1>1. Reader!EndOf(i) = LineStop(toks, i)
  BY ReaderNames DEF Reader!EndOf, LineStop
<1>2. Reader!Parts(i) = PartsOf(toks, i)
  BY <1>1 DEF Reader!Parts, PartsOf, LineText, Commas, CommaToken
<1> QED BY <1>1, <1>2

\* A line ends at the first newline or with the source.
LEMMA LineStopIs ==
  ASSUME NEW src \in Seq(Tokens), NEW i \in 1 .. Len(src) + 1
  PROVE  /\ LineStop(src, i) \in i .. Len(src) + 1 /\ TokenAt(src, LineStop(src, i)) \in LineEnd
         /\ \A k \in i .. LineStop(src, i) - 1 : TokenAt(src, k) \notin LineEnd
         /\ \A e \in i .. Len(src) + 1 :
              TokenAt(src, e) \in LineEnd /\ (\A k \in i .. e - 1 : TokenAt(src, k) \notin LineEnd)
                => LineStop(src, i) = e
<1> DEFINE m == Len(src) + 1
           S == {e \in i .. m : TokenAt(src, e) \in LineEnd}
<1>1. Len(src) \in Nat /\ i \in Nat /\ i <= m /\ m \in Nat /\ m \notin DOMAIN src
  OBVIOUS
<1>2. m \in S
  BY <1>1 DEF TokenAt, LineEnd
<1> HIDE DEF m, S
<1>3. \E e \in i .. m : /\ e \in S /\ \A k \in i .. e - 1 : k \notin S
                        /\ \A d \in i .. m : d \in S /\ (\A k \in i .. d - 1 : k \notin S) => d = e
  BY ONLY <1>1, <1>2, FirstAt
<1>4. \A e \in i .. m : i .. e - 1 \subseteq i .. m
  BY <1>1
<1> QED BY <1>3, <1>4 DEF LineStop, m, S

Seps == LineEnd \cup {CommaToken}

\* A part that starts at token b ends before token e.
PartEnds(src, b, e) ==
  /\ e \in b .. Len(src) + 1 /\ TokenAt(src, e) \in Seps
  /\ \A k \in b .. e - 1 : TokenAt(src, k) \notin Seps

PartStop(src, b) == CHOOSE e : PartEnds(src, b, e)
PartText(src, b) == SubSeq(src, b, PartStop(src, b) - 1)

\* Part n of the line from token i starts at token b.
PartAt(src, i, n, b) ==
  /\ n \in Nat \ {0} /\ b \in i + 1 .. Len(src) + 1
  /\ Opens(Commas(LineText(src, i)), IF n = 1 THEN b - i ELSE b - i - 1, n)
  /\ \A k \in i .. b - 1 : TokenAt(src, k) \notin LineEnd

\* A part ends somewhere, and only there.
LEMMA PartStopIs ==
  ASSUME NEW src \in Seq(Tokens), NEW b \in 1 .. Len(src) + 1
  PROVE  /\ PartEnds(src, b, PartStop(src, b))
         /\ \A e : PartEnds(src, b, e) => PartStop(src, b) = e
<1> DEFINE m == Len(src) + 1
           S == {e \in b .. m : TokenAt(src, e) \in Seps}
<1>1. Len(src) \in Nat /\ b \in Nat /\ b <= m /\ m \in Nat /\ m \notin DOMAIN src
  OBVIOUS
<1>2. m \in S
  BY <1>1 DEF TokenAt, LineEnd, Seps
<1> HIDE DEF m, S
<1>3. \E e \in b .. m : /\ e \in S /\ \A k \in b .. e - 1 : k \notin S
                        /\ \A d \in b .. m : d \in S /\ (\A k \in b .. d - 1 : k \notin S) => d = e
  BY ONLY <1>1, <1>2, FirstAt
<1>4. \A e \in b .. m : b .. e - 1 \subseteq b .. m
  BY <1>1
<1>5. \E e : PartEnds(src, b, e) /\ \A d : PartEnds(src, b, d) => d = e
  BY <1>3, <1>4 DEF PartEnds, m, S
<1> QED BY <1>5 DEF PartStop

\* The tokens between the first of a line and its end.
LEMMA LineTextIs ==
  ASSUME NEW src \in Seq(Tokens), NEW i \in 1 .. Len(src), TokenAt(src, i) \notin LineEnd
  PROVE  LET stop == LineStop(src, i)
             s    == LineText(src, i)
         IN /\ stop \in i + 1 .. Len(src) + 1
            /\ s \in Seq(Tokens) /\ Len(s) = stop - 1 - i /\ Len(s) \in Nat
            /\ \A j \in 1 .. Len(s) : s[j] = TokenAt(src, i + j) /\ TokenAt(src, i + j) \notin LineEnd
            /\ \A j \in Nat : j \in Commas(s) <=> j > 0 /\ i + j < stop /\ TokenAt(src, i + j) = CommaToken
            /\ Commas(s) \in SUBSET Nat /\ IsFiniteSet(Commas(s))
<1> DEFINE stop == LineStop(src, i)
           s    == LineText(src, i)
<1>1. Len(src) \in Nat /\ i \in Nat /\ i >= 1 /\ i <= Len(src) /\ i \in 1 .. Len(src) + 1
  OBVIOUS
<1>2. /\ stop \in i .. Len(src) + 1 /\ TokenAt(src, stop) \in LineEnd
      /\ \A k \in i .. stop - 1 : TokenAt(src, k) \notin LineEnd
  BY <1>1, LineStopIs
<1>3. s = SubSeq(src, i + 1, stop - 1)
  BY DEF LineText
<1> HIDE DEF stop, s
<1>4. stop \in Nat /\ stop > i /\ stop <= Len(src) + 1 /\ stop # i
  BY <1>1, <1>2
<1>5. /\ s \in Seq(Tokens) /\ Len(s) = (stop - 1) - (i + 1) + 1
      /\ \A j \in 1 .. (stop - 1) - (i + 1) + 1 : s[j] = src[(i + 1) + j - 1] /\ (i + 1) + j - 1 \in 1 .. Len(src)
  <2>1. i + 1 \in 1 .. Len(src) + 1 /\ stop - 1 \in (i + 1) - 1 .. Len(src)
    BY <1>1, <1>4
  <2> QED BY <1>3, <2>1, PieceIs
<1>6. (stop - 1) - (i + 1) + 1 = stop - 1 - i /\ stop - 1 - i \in Nat
  BY <1>1, <1>4
<1>7. Len(s) = stop - 1 - i /\ Len(s) \in Nat
  BY <1>5, <1>6
<1>8. ASSUME NEW j \in 1 .. Len(s)
      PROVE  s[j] = TokenAt(src, i + j) /\ TokenAt(src, i + j) \notin LineEnd
  <2>1. (i + 1) + j - 1 = i + j /\ i + j \in i .. stop - 1
    BY <1>1, <1>4, <1>7
  <2>2. s[j] = src[i + j] /\ i + j \in DOMAIN src
    BY <1>5, <1>6, <1>7, <2>1
  <2> QED BY <1>2, <2>1, <2>2 DEF TokenAt
<1>9. DOMAIN s = 1 .. Len(s)
  BY <1>5
<1>10. ASSUME NEW j \in Nat PROVE j \in Commas(s) <=> j > 0 /\ i + j < stop /\ TokenAt(src, i + j) = CommaToken
  <2>1. j \in 1 .. Len(s) <=> j > 0 /\ i + j < stop
    BY <1>1, <1>4, <1>7
  <2> QED BY <1>8, <1>9, <2>1 DEF Commas
<1>11. Commas(s) \in SUBSET Nat /\ IsFiniteSet(Commas(s))
  <2>1. Commas(s) \subseteq 1 .. Len(s) /\ 1 .. Len(s) \subseteq Nat
    <3>1. Commas(s) \subseteq DOMAIN s
      BY DEF Commas
    <3>2. 1 .. Len(s) \subseteq Nat
      BY <1>7
    <3> QED BY <1>9, <3>1, <3>2
  <2>2. IsFiniteSet(1 .. Len(s))
    BY <1>7, FS_Interval
  <2> QED BY <2>1, <2>2, FS_Subset
<1>12. stop \in i + 1 .. Len(src) + 1
  BY <1>1, <1>4
<1> QED BY <1>5, <1>7, <1>8, <1>10, <1>11, <1>12 DEF stop, s

\* The first part starts behind the first token.
LEMMA FirstPart ==
  ASSUME NEW src \in Seq(Tokens), NEW i \in 1 .. Len(src), TokenAt(src, i) \notin LineEnd
  PROVE  PartAt(src, i, 1, i + 1)
<1>1. Len(src) \in Nat /\ i \in Nat /\ (i + 1) - i = 1 /\ i + 1 \in i + 1 .. Len(src) + 1
      /\ (i + 1) - 1 = i
  OBVIOUS
<1>2. \A k \in i .. i : TokenAt(src, k) \notin LineEnd
  OBVIOUS
<1> QED BY <1>1, <1>2 DEF PartAt, Opens

\* A part that ends before token e is one of the line's, and either the last or
\* the one before the part behind the comma.
LEMMA PartIs ==
  ASSUME NEW src \in Seq(Tokens), NEW i \in 1 .. Len(src), TokenAt(src, i) \notin LineEnd,
         NEW n, NEW b, PartAt(src, i, n, b), NEW e, PartEnds(src, b, e), LineText(src, i) # <<>>
  PROVE  LET ps == PartsOf(src, i)
         IN /\ Len(ps) \in Nat /\ DOMAIN ps = 1 .. Len(ps) /\ n \in 1 .. Len(ps)
            /\ ps[n].from = b /\ ps[n].to = e - 1
            /\ TokenAt(src, e) = CommaToken => PartAt(src, i, n + 1, e + 1) /\ n # Len(ps)
            /\ TokenAt(src, e) \in LineEnd => n = Len(ps) /\ LineStop(src, i) = e
<1> DEFINE stop == LineStop(src, i)
           s    == LineText(src, i)
           S    == Commas(s)
           a    == IF n = 1 THEN b - i ELSE b - i - 1
           cuts == Reader!Cut(s, S)
           c    == Cardinality(S)
           ps   == PartsOf(src, i)
<1>1. /\ Len(src) \in Nat /\ i \in Nat /\ i >= 1 /\ i <= Len(src) /\ n \in Nat /\ n # 0
      /\ b \in Nat /\ e \in Nat /\ b >= i + 1 /\ b <= Len(src) + 1 /\ e >= b /\ e <= Len(src) + 1
  <2>1. Len(src) \in Nat /\ i \in Nat /\ i >= 1 /\ i <= Len(src)
    OBVIOUS
  <2>2. n \in Nat \ {0} /\ b \in i + 1 .. Len(src) + 1 /\ e \in b .. Len(src) + 1
    BY DEF PartAt, PartEnds
  <2> QED BY <2>1, <2>2
<1>2. /\ stop \in i + 1 .. Len(src) + 1
      /\ s \in Seq(Tokens) /\ Len(s) = stop - 1 - i /\ Len(s) \in Nat
      /\ \A j \in Nat : j \in S <=> j > 0 /\ i + j < stop /\ TokenAt(src, i + j) = CommaToken
      /\ S \in SUBSET Nat /\ IsFiniteSet(S)
  BY LineTextIs
<1>3. /\ TokenAt(src, stop) \in LineEnd
      /\ \A k \in i .. Len(src) + 1 :
           TokenAt(src, k) \in LineEnd /\ (\A l \in i .. k - 1 : TokenAt(src, l) \notin LineEnd) => stop = k
  <2>1. i \in 1 .. Len(src) + 1
    BY <1>1
  <2> QED BY <2>1, LineStopIs
<1>4. Opens(S, a, n) /\ \A k \in i .. b - 1 : TokenAt(src, k) \notin LineEnd
  BY DEF PartAt
<1>5. TokenAt(src, e) \in Seps /\ \A k \in b .. e - 1 : TokenAt(src, k) \notin Seps
  BY DEF PartEnds
<1>6. PartsOf(src, i) = [m \in DOMAIN cuts |-> [from |-> i + cuts[m].from + (IF m = 1 THEN 0 ELSE 1),
                                                 to   |-> i + cuts[m].to]]
  BY DEF PartsOf
<1> HIDE DEF stop, s, S, a, cuts, c
<1>7. a \in Nat /\ (n = 1 => a = 1 /\ b = i + 1) /\ i + a + (IF n = 1 THEN 0 ELSE 1) = b
      /\ (n # 1 => a = b - i - 1)
  <2>1. CASE n = 1
    <3>1. a = b - i /\ a = 1
      BY <1>4, <2>1 DEF a, Opens
    <3> QED BY <1>1, <2>1, <3>1
  <2>2. CASE n # 1
    <3>1. a = b - i - 1
      BY <2>2 DEF a
    <3> QED BY <1>1, <2>2, <3>1
  <2> QED BY <2>1, <2>2
<1>8. \A k \in i .. e - 1 : TokenAt(src, k) \notin LineEnd
  <2>1. \A k \in i .. e - 1 : k \in i .. b - 1 \/ k \in b .. e - 1
    BY <1>1
  <2> QED BY <1>4, <1>5, <2>1 DEF Seps
<1>9. ASSUME NEW j \in Later(S, a, n)
      PROVE  j \in Nat /\ i + j >= e /\ i + j < stop
  <2>1. j \in S /\ (n = 1 \/ j > a) /\ j \in Nat
    BY <1>2 DEF Later
  <2>2. j > 0 /\ i + j < stop /\ TokenAt(src, i + j) = CommaToken
    BY <1>2, <2>1
  <2>3. i + j >= b
    BY <1>1, <1>7, <2>1, <2>2
  <2>4. i + j \notin b .. e - 1
    BY <1>5, <2>2 DEF Seps
  <2> QED BY <1>1, <2>1, <2>2, <2>3, <2>4
<1>10. stop \in Nat
  BY <1>1, <1>2
<1>11. TokenAt(src, e) \in LineEnd => stop = e
  BY <1>1, <1>3, <1>8
<1>12. TokenAt(src, e) = CommaToken => e < stop /\ e - i \in Later(S, a, n)
  <2> SUFFICES ASSUME TokenAt(src, e) = CommaToken PROVE e < stop /\ e - i \in Later(S, a, n)
    OBVIOUS
  <2>1. TokenAt(src, e) \notin LineEnd
    BY CommaIs
  <2>2. \A k \in i .. e : TokenAt(src, k) \notin LineEnd
    <3>1. \A k \in i .. e : k \in i .. e - 1 \/ k = e
      BY <1>1
    <3> QED BY <1>8, <2>1, <3>1
  <2>3. stop \notin i .. e
    BY <1>3, <2>2
  <2>4. e < stop
    BY <1>1, <1>2, <1>10, <2>3
  <2>5. e - i \in Nat /\ e - i > 0 /\ i + (e - i) = e
    BY <1>1
  <2>6. e - i \in S
    BY <1>2, <2>4, <2>5
  <2>7. n = 1 \/ e - i > a
    BY <1>1, <1>7
  <2> QED BY <2>4, <2>6, <2>7 DEF Later
<1>13. TokenAt(src, e) \in LineEnd \/ TokenAt(src, e) = CommaToken
  BY <1>5 DEF Seps
<1>14. e - i \in Nat
  BY <1>1
<1>15. Closes(S, a, n, e - i, Len(s))
  <2>1. CASE TokenAt(src, e) = CommaToken
    <3>1. \A j \in Later(S, a, n) : e - i <= j
      BY <1>1, <1>9
    <3> QED BY <1>12, <2>1, <3>1 DEF Closes
  <2>2. CASE TokenAt(src, e) \in LineEnd
    <3>1. stop = e
      BY <1>11, <2>2
    <3>2. Later(S, a, n) = {}
      BY <1>1, <1>9, <3>1
    <3>3. e - i = Len(s) + 1
      BY <1>1, <1>2, <3>1
    <3> QED BY <3>2, <3>3 DEF Closes
  <2> QED BY <1>13, <2>1, <2>2
<1>16. /\ n \in 1 .. c + 1 /\ DOMAIN cuts = 1 .. c + 1 /\ c \in Nat
       /\ cuts[n] = [from |-> a, to |-> (e - i) - 1]
       /\ Later(S, a, n) # {} => Opens(S, e - i, n + 1) /\ n # c + 1
       /\ Later(S, a, n) = {} => n = c + 1
  <2>1. n \in Nat \ {0}
    BY <1>1
  <2>2. S \in SUBSET Nat /\ IsFiniteSet(S) /\ Len(s) \in Nat
    BY <1>2
  <2>3. a \in Nat
    BY <1>7
  <2>4. /\ n \in 1 .. Cardinality(S) + 1 /\ DOMAIN Reader!Cut(s, S) = 1 .. Cardinality(S) + 1
        /\ Cardinality(S) \in Nat
        /\ Reader!Cut(s, S)[n] = [from |-> a, to |-> (e - i) - 1]
        /\ Later(S, a, n) # {} => Opens(S, e - i, n + 1) /\ n # Cardinality(S) + 1
        /\ Later(S, a, n) = {} => n = Cardinality(S) + 1
    BY ONLY <1>4, <1>14, <1>15, <2>1, <2>2, <2>3, CutIs
  <2> QED BY <2>4 DEF cuts, c
<1>17. DOMAIN ps = 1 .. c + 1 /\ Len(ps) = c + 1
  <2>1. DOMAIN ps = 1 .. c + 1
    BY <1>6, <1>16
  <2>2. ps \in Seq({ps[m] : m \in DOMAIN ps})
    <3>1. ps = [m \in 1 .. c + 1 |-> ps[m]]
      BY <1>6, <1>16
    <3> HIDE DEF ps
    <3>2. \A m \in 1 .. c + 1 : ps[m] \in {ps[l] : l \in DOMAIN ps}
      BY <2>1
    <3>3. c + 1 \in Nat
      BY <1>16
    <3>4. ps \in [1 .. c + 1 -> {ps[l] : l \in DOMAIN ps}]
      BY <3>1, <3>2
    <3> QED BY <3>3, <3>4, SeqDef
  <2> HIDE DEF ps
  <2>3. DOMAIN ps = 1 .. Len(ps) /\ Len(ps) \in Nat
    BY <2>2, LenProperties
  <2> QED BY <1>16, <2>1, <2>3
<1>18. ps[n].from = b /\ ps[n].to = e - 1
  <2>1. ps[n] = [from |-> i + cuts[n].from + (IF n = 1 THEN 0 ELSE 1), to |-> i + cuts[n].to]
    BY <1>6, <1>16
  <2>2. cuts[n].from = a /\ cuts[n].to = (e - i) - 1
    BY <1>16
  <2>3. i + ((e - i) - 1) = e - 1
    BY <1>1
  <2> QED BY <1>7, <2>1, <2>2, <2>3
<1>19. ASSUME TokenAt(src, e) = CommaToken PROVE PartAt(src, i, n + 1, e + 1) /\ n # c + 1
  <2>1. Opens(S, e - i, n + 1) /\ n # c + 1
    BY <1>12, <1>16, <1>19
  <2>2. n + 1 \in Nat \ {0} /\ n + 1 # 1 /\ (e + 1) - i - 1 = e - i /\ e + 1 \in i + 1 .. Len(src) + 1
    <3>1. e <= Len(src)
      BY <1>1, <1>2, <1>12, <1>19
    <3> QED BY <1>1, <3>1
  <2>3. \A k \in i .. (e + 1) - 1 : TokenAt(src, k) \notin LineEnd
    <3>1. \A k \in i .. (e + 1) - 1 : k \in i .. e - 1 \/ k = e
      BY <1>1
    <3> QED BY <1>8, <1>19, <3>1, CommaIs
  <2>4. Opens(S, IF n + 1 = 1 THEN (e + 1) - i ELSE (e + 1) - i - 1, n + 1)
    BY <2>1, <2>2
  <2> QED BY <2>1, <2>2, <2>3, <2>4 DEF PartAt, S, s
<1>20. ASSUME TokenAt(src, e) \in LineEnd PROVE n = c + 1 /\ stop = e
  <2>1. Later(S, a, n) = {}
    BY <1>1, <1>9, <1>11, <1>20
  <2> QED BY <1>11, <1>16, <1>20, <2>1
<1> QED BY <1>16, <1>17, <1>18, <1>19, <1>20 DEF stop

-----------------------------------------------------------------------------
(* What the parser takes: Syntax by the rules the code enforces, which let rip *)
(* stand before a scaled register and cut a scale to a byte.                   *)

LaxScaleOf(t) == Byte(Reader!ScaleOf(t))

Plains(ts)  == {k \in DOMAIN ts : Reader!IsPlain(ts[k])}
Scaleds(ts) == {k \in DOMAIN ts : Reader!IsScaled(ts[k])}
Symbols(ts) == {k \in DOMAIN ts : Reader!IsSymbol(ts[k])}

IsTerm(t) == Reader!IsPlain(t) \/ Reader!IsScaled(t) \/ Reader!IsSymbol(t) \/ Reader!IsDisp(t)

\* What is asked of scaled and of plain registers.
ScaledsOK(ts) ==
  \A k \in Scaleds(ts) : Reader!CanIndex(Reader!RegOf(ts[k])) /\ LaxScaleOf(ts[k]) \in {1, 2, 4, 8}

PlainsOK(ts) ==
  \A k \in Plains(ts) :
    /\ k # Reader!Nth(Plains(ts), 1) => Reader!CanIndex(Reader!RegOf(ts[k]))
    /\ Reader!RegOf(ts[k]) = Rip => Plains(ts) = {k} /\ \A j \in Scaleds(ts) : j > k

LaxAddressOK(ts) ==
  /\ \A k \in DOMAIN ts : IsTerm(ts[k])
  /\ Cardinality(Symbols(ts)) <= 1
  /\ Cardinality(Plains(ts)) + Cardinality(Scaleds(ts)) <= 2 /\ Cardinality(Scaleds(ts)) <= 1
  /\ ScaledsOK(ts) /\ PlainsOK(ts)

\* The fields of an address.
BaseOf(ts)  == IF Plains(ts) = {} THEN None ELSE Reader!RegOf(ts[Reader!Nth(Plains(ts), 1)])

IndexOf(ts) == IF Scaleds(ts) # {} THEN Reader!RegOf(ts[Reader!Only(Scaleds(ts))])
               ELSE IF Cardinality(Plains(ts)) = 2 THEN Reader!RegOf(ts[Reader!Nth(Plains(ts), 2)])
               ELSE None

FactorOf(ts) == IF Scaleds(ts) # {} THEN LaxScaleOf(ts[Reader!Only(Scaleds(ts))])
                ELSE IF Cardinality(Plains(ts)) = 2 THEN 1 ELSE 0

HasSymbol(ts) == \E k \in DOMAIN ts : Reader!IsSymbol(ts[k])

\* What a term adds to the displacement, and the sum of the terms.
Adds(t) == IF ~ Reader!IsDisp(t) THEN 0
           ELSE IF t.minus THEN -Value[t.body[1]] ELSE Value[t.body[1]]

SumOf(ts) ==
  LET sum[k \in 0 .. Len(ts)] == IF k = 0 THEN 0 ELSE sum[k - 1] + Adds(ts[k])
  IN sum[Len(ts)]

Address(base, index, scale, symbol, disp) ==
  [base |-> base, index |-> index, scale |-> scale, symbol |-> symbol, disp |-> disp]

LaxAddressOf(ts) ==
  Address(BaseOf(ts), IndexOf(ts), FactorOf(ts), HasSymbol(ts), SumOf(ts) % Word)

LaxIsMemory(s) == Reader!Bracketed(s) /\ LaxAddressOK(Reader!Terms(Reader!Inner(s)))

LaxIsOperand(s) ==
  \/ Reader!IsInt(s) \/ LaxIsMemory(s)
  \/ Len(s) = 1 /\ s[1] \in Reader!Registers
  \/ /\ Reader!IsName(s, Reader!Idents \ (Reader!Registers \cup {"size"}))
     /\ Len(s) > 1 => s[2] \in Reader!Signs /\ Reader!IsInt(Tail(s))

LaxOperandOf(s, f, t) ==
  CASE LaxIsMemory(s) ->
         Reader!Node("mem", "", 0, LaxAddressOf(Reader!Terms(Reader!Inner(s))), s[1] = "size", f, t)
    [] Reader!IsInt(s) -> Reader!Node("imm", "", Reader!IntOf(s), Reader!EmptyMem, FALSE, f, t)
    [] s[1] \in Reader!Registers -> Reader!Node("reg", s[1], 0, Reader!EmptyMem, FALSE, f, t)
    [] OTHER -> Reader!Node("imm", s[1], IF Len(s) = 1 THEN 0 ELSE Reader!IntOf(Tail(s)),
                            Reader!EmptyMem, FALSE, f, t)

LaxGoodLine(i) ==
  LET ps == Reader!Parts(i)
  IN \/ /\ Reader!Tok(i) = "dir"
        /\ \A n \in DOMAIN ps : Reader!IsArgument(Reader!Text(ps[n]))
     \/ /\ Reader!Tok(i) \in Reader!Idents /\ Len(ps) <= MaxOperands
        /\ \A n \in DOMAIN ps : LaxIsOperand(Reader!Text(ps[n]))

LaxLineOf(i) ==
  LET ps    == Reader!Parts(i)
      isDir == Reader!Tok(i) = "dir"
      node(p) == IF isDir THEN Reader!ArgumentOf(Reader!Text(p), p.from, p.to)
                 ELSE LaxOperandOf(Reader!Text(p), p.from, p.to)
  IN Reader!Statement(IF isDir THEN "directive" ELSE "instruction", Reader!Tok(i),
               [n \in DOMAIN ps |-> node(ps[n])], i, Reader!After(Reader!EndOf(i)) - 1)

LaxBad(i) == LET b == Body(i) IN ~(Tok(b) \in LineEnd \/ LaxGoodLine(b))

LEMMA OnlyIn == \A S : S # {} => Reader!Only(S) \in S
BY DEF Reader!Only

\* A line good by the rules is taken as what it means; the parser takes another
\* only where it departs from the two rules it does not enforce.
LEMMA AddressRuled ==
  ASSUME NEW ts
  PROVE  /\ Reader!AddressOK(ts) => LaxAddressOK(ts) /\ LaxAddressOf(ts) = Reader!AddressOf(ts)
         /\ LaxAddressOK(ts) => Reader!AddressOK(ts) \/ Reader!Unruled(ts)
<1>1. Reader!Scales = {1, 2, 4, 8} /\ \A x \in {1, 2, 4, 8} : Byte(x) = x
  BY DEF Reader!Scales, Byte
<1>2. Reader!AddressOK(ts) <=>
        /\ \A k \in DOMAIN ts : IsTerm(ts[k])
        /\ Cardinality(Symbols(ts)) <= 1
        /\ Cardinality(Plains(ts)) + Cardinality(Scaleds(ts)) <= 2 /\ Cardinality(Scaleds(ts)) <= 1
        /\ \A k \in Scaleds(ts) : Reader!CanIndex(Reader!RegOf(ts[k])) /\ Reader!ScaleOf(ts[k]) \in Reader!Scales
        /\ \A k \in Plains(ts) :
             /\ k # Reader!Nth(Plains(ts), 1) => Reader!CanIndex(Reader!RegOf(ts[k]))
             /\ Reader!RegOf(ts[k]) = Rip => Plains(ts) = {k} /\ Scaleds(ts) = {}
  BY Zenon, ReaderCount, ReaderNames DEF Reader!AddressOK, IsTerm, Symbols, Plains, Scaleds
<1>3. ASSUME Reader!AddressOK(ts) PROVE LaxAddressOK(ts)
  BY <1>1, <1>2, <1>3 DEF LaxAddressOK, ScaledsOK, PlainsOK, LaxScaleOf
<1>4. ASSUME Reader!AddressOK(ts) PROVE LaxAddressOf(ts) = Reader!AddressOf(ts)
  <2> DEFINE f == Reader!Only(Scaleds(ts))
  <2>1. Reader!AddressOf(ts) =
          Address(BaseOf(ts), IndexOf(ts),
                  IF Scaleds(ts) # {} THEN Reader!ScaleOf(ts[f])
                  ELSE IF Cardinality(Plains(ts)) = 2 THEN 1 ELSE 0, HasSymbol(ts), SumOf(ts) % Word)
    BY Zenon, ReaderCount, ReaderNames
       DEF Reader!AddressOf, Address, BaseOf, IndexOf, HasSymbol, SumOf, Adds, Plains, Scaleds
  <2>2. Scaleds(ts) # {} => LaxScaleOf(ts[f]) = Reader!ScaleOf(ts[f])
    BY <1>1, <1>2, <1>4, OnlyIn DEF LaxScaleOf
  <2> QED BY <2>1, <2>2 DEF LaxAddressOf, FactorOf
<1>5. ASSUME LaxAddressOK(ts), ~ Reader!Unruled(ts) PROVE Reader!AddressOK(ts)
  <2>1. \A k \in Scaleds(ts) : Reader!ScaleOf(ts[k]) \in Reader!Scales
    BY <1>1, <1>5, ReaderNames DEF LaxAddressOK, ScaledsOK, LaxScaleOf, Scaleds, Reader!Unruled
  <2>2. \A k \in Plains(ts), j \in Scaleds(ts) : Reader!RegOf(ts[k]) = Rip => ~ (k < j)
    BY <1>5, ReaderNames DEF Scaleds, Plains, Reader!Unruled
  <2> QED BY <1>2, <1>5, <2>1, <2>2 DEF LaxAddressOK, ScaledsOK, PlainsOK
<1> QED BY <1>3, <1>4, <1>5

LEMMA OperandRuled ==
  ASSUME NEW s
  PROVE  /\ Reader!IsOperand(s) =>
              LaxIsOperand(s) /\ \A f, t : LaxOperandOf(s, f, t) = Reader!OperandOf(s, f, t)
         /\ LaxIsOperand(s) =>
              Reader!IsOperand(s) \/ (Reader!Bracketed(s) /\ Reader!Unruled(Reader!Terms(Reader!Inner(s))))
<1> DEFINE ts == Reader!Terms(Reader!Inner(s))
           Odd == Reader!Bracketed(s) /\ Reader!Unruled(ts)
<1>1. /\ Reader!IsMemory(s) => LaxIsMemory(s) /\ LaxAddressOf(ts) = Reader!AddressOf(ts)
      /\ LaxIsMemory(s) => Reader!IsMemory(s) \/ Odd
  BY AddressRuled DEF Reader!IsMemory, LaxIsMemory
<1> HIDE DEF ts
<1>2. ASSUME LaxIsMemory(s) <=> Reader!IsMemory(s), NEW f, NEW t
      PROVE  LaxOperandOf(s, f, t) = Reader!OperandOf(s, f, t)
  <2>1. CASE Reader!IsMemory(s)
    BY <1>1, <1>2, <2>1 DEF LaxOperandOf, Reader!OperandOf, ts
  <2>2. CASE ~ Reader!IsMemory(s)
    <3>1. CASE Reader!IsInt(s)
      BY <1>2, <2>2, <3>1 DEF LaxOperandOf, Reader!OperandOf
    <3>2. CASE ~ Reader!IsInt(s) /\ s[1] \in Reader!Registers
      BY <1>2, <2>2, <3>2 DEF LaxOperandOf, Reader!OperandOf
    <3>3. CASE ~ Reader!IsInt(s) /\ ~ (s[1] \in Reader!Registers)
      BY <1>2, <2>2, <3>3 DEF LaxOperandOf, Reader!OperandOf
    <3> QED BY <3>1, <3>2, <3>3
  <2> QED BY <2>1, <2>2
<1>3. Reader!IsOperand(s) /\ LaxIsMemory(s) => Reader!IsMemory(s)
  <2>1. Reader!Bracketed(s) => ~ (Len(s) \in 1 .. 2) /\ s[1] \in {"[", "size"}
    BY DEF Reader!Bracketed, Reader!Bracket
  <2>2. "[" \notin Reader!Idents
    BY DEF Reader!Idents, Reader!Registers
  <2>3. Reader!IsInt(s) \/ Len(s) = 1 => Len(s) \in 1 .. 2
    BY DEF Reader!IsInt
  <2> QED BY <2>1, <2>2, <2>3, Zenon DEF Reader!IsOperand, Reader!IsName, LaxIsMemory
<1> QED BY <1>1, <1>2, <1>3, Zenon DEF LaxIsOperand, Reader!IsOperand, ts

LEMMA LineRuled ==
  ASSUME NEW i
  PROVE  /\ Reader!GoodLine(i) => LaxGoodLine(i) /\ LaxLineOf(i) = Reader!LineOf(i)
         /\ LaxGoodLine(i) => Reader!GoodLine(i) \/ Reader!Departs(i)
         /\ Reader!Departs(i) =>
              LaxLineOf(i) = Reader!Statement("instruction", Reader!Tok(i), LaxLineOf(i).parts, i,
                                              Reader!After(Reader!EndOf(i)) - 1)
<1>1. "dir" \notin Reader!Idents
  BY DEF Reader!Idents, Reader!Registers
<1>2. Reader!GoodLine(i) => LaxGoodLine(i) /\ LaxLineOf(i) = Reader!LineOf(i)
  BY <1>1, OperandRuled, Zenon DEF LaxGoodLine, Reader!GoodLine, LaxLineOf, Reader!LineOf
<1>3. LaxGoodLine(i) => Reader!GoodLine(i) \/ Reader!Departs(i)
  BY <1>1, OperandRuled, Zenon DEF LaxGoodLine, Reader!GoodLine, Reader!Departs
<1>4. ASSUME Reader!Departs(i)
      PROVE  LaxLineOf(i) = Reader!Statement("instruction", Reader!Tok(i), LaxLineOf(i).parts, i,
                                             Reader!After(Reader!EndOf(i)) - 1)
  BY <1>4 DEF Reader!Departs, LaxLineOf, Reader!Statement
<1> QED BY <1>2, <1>3, <1>4

\* What a part of a line with that first token may be, and the node it stands for.
Valid(head, s) == IF head = "dir" THEN Reader!IsArgument(s) ELSE LaxIsOperand(s)

NodeOf(head, s, f, t) ==
  IF head = "dir" THEN Reader!ArgumentOf(s, f, t) ELSE LaxOperandOf(s, f, t)

\* The n-th part of the line from token i is one and has been read as p.
PartRead(src, i, n, p) ==
  \E b, e : /\ PartAt(src, i, n, b) /\ PartEnds(src, b, e)
            /\ Valid(TokenAt(src, i), SubSeq(src, b, e - 1))
            /\ p = NodeOf(TokenAt(src, i), SubSeq(src, b, e - 1), b, e - 1)

\* The reader's words for a line, with the parts named here.
LEMMA GoodLineIs ==
  ASSUME NEW i
  PROVE  LET ps == PartsOf(toks, i)
             h  == TokenAt(toks, i)
         IN /\ LaxGoodLine(i) <=>
                 \/ h = "dir" /\ \A n \in DOMAIN ps : Reader!IsArgument(SubSeq(toks, ps[n].from, ps[n].to))
                 \/ /\ h \in Idents /\ Len(ps) <= MaxOperands
                    /\ \A n \in DOMAIN ps : LaxIsOperand(SubSeq(toks, ps[n].from, ps[n].to))
            /\ LaxLineOf(i) =
                 Statement(IF h = "dir" THEN "directive" ELSE "instruction", h,
                           [n \in DOMAIN ps |-> NodeOf(h, SubSeq(toks, ps[n].from, ps[n].to), ps[n].from, ps[n].to)],
                           i, Reader!After(LineStop(toks, i)) - 1)
            /\ Reader!IsLabel(i) <=> h \in Idents /\ TokenAt(toks, i + 1) = ":"
<1>1. Reader!Parts(i) = PartsOf(toks, i) /\ Reader!EndOf(i) = LineStop(toks, i)
  BY ReaderLines
<1>2. Reader!Tok(i) = TokenAt(toks, i) /\ Reader!Idents = Idents
  BY ReaderNames
<1>3. Reader!IsLabel(i) <=> TokenAt(toks, i) \in Idents /\ TokenAt(toks, i + 1) = ":"
  BY ReaderNames DEF Reader!IsLabel
<1> QED BY Zenon, <1>1, <1>2, <1>3, ReaderNodes DEF LaxGoodLine, LaxLineOf, Reader!Text, NodeOf

\* A part that cannot be read spoils its line.
LEMMA BadPartSpoils ==
  ASSUME toks \in Seq(Tokens), NEW i \in 1 .. Len(toks), TokenAt(toks, i) \notin LineEnd,
         LineText(toks, i) # <<>>, NEW n, NEW b, NEW e, PartAt(toks, i, n, b), PartEnds(toks, b, e),
         ~ Valid(TokenAt(toks, i), SubSeq(toks, b, e - 1))
  PROVE  ~ LaxGoodLine(i)
<1> DEFINE ps == PartsOf(toks, i)
<1> HIDE DEF ps
<1>1. DOMAIN ps = 1 .. Len(ps) /\ n \in 1 .. Len(ps) /\ ps[n].from = b /\ ps[n].to = e - 1
  BY PartIs DEF ps
<1>2. n \in DOMAIN ps
  BY <1>1
<1>3. "dir" \notin Idents
  BY DEF Idents, Registers
<1> HIDE DEF ps
<1> QED BY <1>1, <1>2, <1>3, GoodLineIs DEF Valid, ps

\* So does a part too many, in an instruction.
LEMMA ExtraPartSpoils ==
  ASSUME toks \in Seq(Tokens), NEW i \in 1 .. Len(toks), TokenAt(toks, i) \notin LineEnd,
         LineText(toks, i) # <<>>, NEW n \in Nat, NEW b, PartAt(toks, i, n, b), n > MaxOperands,
         TokenAt(toks, i) # "dir"
  PROVE  ~ LaxGoodLine(i)
<1> DEFINE ps == PartsOf(toks, i)
<1>1. b \in 1 .. Len(toks) + 1
  <2>1. b \in i + 1 .. Len(toks) + 1 /\ i \in Nat /\ Len(toks) \in Nat
    BY DEF PartAt
  <2> QED BY <2>1
<1>2. PartEnds(toks, b, PartStop(toks, b))
  BY <1>1, PartStopIs
<1>3. n \in 1 .. Len(ps) /\ Len(ps) \in Nat
  BY <1>2, PartIs
<1> HIDE DEF ps
<1>4. ~ (Len(ps) <= MaxOperands)
  BY <1>3, ParserAssumption
<1> QED BY <1>4, GoodLineIs DEF ps

\* A line all of whose parts have been read.
LEMMA LineIsRead ==
  ASSUME toks \in Seq(Tokens), NEW i \in 1 .. Len(toks), TokenAt(toks, i) \in Idents \cup {"dir"},
         TokenAt(toks, i) \notin LineEnd, NEW X, NEW rd \in Seq(X), NEW e, TokenAt(toks, e) \in LineEnd,
         \/ rd = <<>> /\ LineText(toks, i) = <<>>
         \/ /\ LineText(toks, i) # <<>> /\ rd # <<>>
            /\ \A n \in 1 .. Len(rd) : PartRead(toks, i, n, rd[n])
            /\ \E b : PartAt(toks, i, Len(rd), b) /\ PartEnds(toks, b, e),
         TokenAt(toks, i) # "dir" => Len(rd) <= MaxOperands
  PROVE  LaxGoodLine(i) /\ LaxLineOf(i).parts = rd
<1> DEFINE ps == PartsOf(toks, i)
           h  == TokenAt(toks, i)
           of(n) == NodeOf(h, SubSeq(toks, ps[n].from, ps[n].to), ps[n].from, ps[n].to)
<1>1. Len(rd) \in Nat /\ DOMAIN rd = 1 .. Len(rd) /\ rd = [n \in 1 .. Len(rd) |-> rd[n]]
  BY LenProperties
<1>2. /\ DOMAIN ps = 1 .. Len(rd) /\ Len(ps) = Len(rd)
      /\ \A n \in 1 .. Len(rd) : Valid(h, SubSeq(toks, ps[n].from, ps[n].to)) /\ rd[n] = of(n)
  <2>1. CASE rd = <<>> /\ LineText(toks, i) = <<>>
    <3>1. ps = <<>>
      BY <2>1 DEF PartsOf
    <3>2. Len(rd) = 0 /\ 1 .. Len(rd) = {}
      BY <2>1
    <3> HIDE DEF ps
    <3> QED BY <3>1, <3>2
  <2>2. CASE /\ LineText(toks, i) # <<>> /\ rd # <<>>
             /\ \A n \in 1 .. Len(rd) : PartRead(toks, i, n, rd[n])
             /\ \E b : PartAt(toks, i, Len(rd), b) /\ PartEnds(toks, b, e)
    <3>1. PICK b : PartAt(toks, i, Len(rd), b) /\ PartEnds(toks, b, e)
      BY <2>2
    <3>2. DOMAIN ps = 1 .. Len(ps) /\ Len(rd) = Len(ps)
      BY <2>2, <3>1, PartIs
    <3>3. ASSUME NEW n \in 1 .. Len(rd)
          PROVE  Valid(h, SubSeq(toks, ps[n].from, ps[n].to)) /\ rd[n] = of(n)
      <4>1. PICK c, d : /\ PartAt(toks, i, n, c) /\ PartEnds(toks, c, d)
                        /\ Valid(h, SubSeq(toks, c, d - 1))
                        /\ rd[n] = NodeOf(h, SubSeq(toks, c, d - 1), c, d - 1)
        BY <2>2 DEF PartRead
      <4>3. ps[n].from = c /\ ps[n].to = d - 1
        BY <2>2, <4>1, PartIs
      <4> HIDE DEF ps, h
      <4> QED BY <4>1, <4>3
    <3> QED BY <3>2, <3>3
  <2> QED BY <2>1, <2>2
<1>3. "dir" \notin Idents
  BY DEF Idents, Registers
<1>4. LaxGoodLine(i)
  <2>1. h = "dir" \/ h \in Idents
    OBVIOUS
  <2>2. h # "dir" => Len(ps) <= MaxOperands
    BY <1>2
  <2> HIDE DEF h, ps
  <2>3. \A n \in DOMAIN ps : Valid(h, SubSeq(toks, ps[n].from, ps[n].to))
    BY <1>2
  <2> QED BY <2>1, <2>2, <2>3, <1>3, GoodLineIs DEF Valid, h, ps
<1>5. LaxLineOf(i).parts = [n \in DOMAIN ps |-> of(n)]
  BY GoodLineIs DEF Statement
<1>6. [n \in DOMAIN ps |-> of(n)] = [n \in 1 .. Len(rd) |-> rd[n]]
  <2> HIDE DEF of, ps, h
  <2> QED BY <1>2
<1> QED BY <1>1, <1>4, <1>5, <1>6

-----------------------------------------------------------------------------
(* 4. Memory operands, a term at a time. *)

TermRecords == [minus : BOOLEAN, body : Seq(Tokens)]

\* A term adds an integer to the displacement.
LEMMA AddsIs ==
  ASSUME NEW t PROVE Adds(t) \in Int
<1>1. Word \in Nat /\ \A l \in Literals : Value[l] \in 0 .. Word - 1
  BY ValuesAre
<1>2. ASSUME Reader!IsDisp(t) PROVE Value[t.body[1]] \in Int
  <2>1. t.body[1] \in Literals
    BY <1>2, ReaderNames DEF Reader!IsDisp
  <2> HIDE DEF Reader!IsDisp
  <2> QED BY <1>1, <2>1
<1>3. \A x \in Int : -x \in Int
  OBVIOUS
<1> QED BY <1>2, <1>3 DEF Adds

\* The sum of the terms so far, term by term.
LEMMA SumSteps ==
  ASSUME NEW ts \in Seq(TermRecords)
  PROVE  \E w \in [0 .. Len(ts) -> Int] :
           /\ w[0] = 0 /\ \A i \in 1 .. Len(ts) : w[i] = w[i - 1] + Adds(ts[i])
           /\ SumOf(ts) = w[Len(ts)]
<1> DEFINE n == Len(ts)
           F == [i \in 1 .. n |-> [x \in Int |-> x + Adds(ts[i])]]
           Fits(f) == f = [k \in 0 .. n |-> IF k = 0 THEN 0 ELSE f[k - 1] + Adds(ts[k])]
           w == CHOOSE f : Fits(f)
<1>1. n \in Nat /\ 0 \in Int
  OBVIOUS
<1>2. SumOf(ts) = w[n]
  BY DEF SumOf
<1> HIDE DEF n
<1>3. F \in [1 .. n -> [Int -> Int]] /\ \A i \in 1 .. n, x \in Int : F[i][x] = x + Adds(ts[i])
  BY AddsIs
<1> HIDE DEF F
<1>4. PICK g : StepsTo(g, n, Int, 0, F)
  BY <1>1, <1>3, StepsExist
<1>5. Fits(g)
  <2>1. g \in [0 .. n -> Int] /\ g[0] = 0 /\ \A i \in 1 .. n : g[i] = F[i][g[i - 1]]
    BY <1>4 DEF StepsTo
  <2>2. ASSUME NEW i \in 1 .. n PROVE g[i] = g[i - 1] + Adds(ts[i])
    <3>1. i - 1 \in 0 .. n /\ g[i - 1] \in Int
      BY <1>1, <2>1
    <3> QED BY <1>3, <2>1, <3>1
  <2> QED BY <2>1, <2>2
<1>6. Fits(w)
  BY <1>5
<1> HIDE DEF w
<1>7. /\ w = [i \in 0 .. n |-> w[i]] /\ w[0] = 0
      /\ \A i \in 1 .. n : w[i] = w[i - 1] + Adds(ts[i])
  <2>1. w = [k \in 0 .. n |-> IF k = 0 THEN 0 ELSE w[k - 1] + Adds(ts[k])]
    BY <1>6
  <2>2. w = [k \in 0 .. n |-> w[k]]
    BY <2>1
  <2>3. \A k \in 0 .. n : w[k] = IF k = 0 THEN 0 ELSE w[k - 1] + Adds(ts[k])
    BY <2>1
  <2> QED BY <1>1, <2>2, <2>3
<1>8. \A i \in 1 .. n : w[i - 1] \in Int => w[i] = F[i][w[i - 1]]
  BY <1>3, <1>7
<1>9. StepsTo(w, n, Int, 0, F)
  BY <1>1, <1>3, <1>7, <1>8, StepsUnique
<1>10. w \in [0 .. n -> Int]
  BY <1>9 DEF StepsTo
<1> QED BY <1>2, <1>7, <1>10 DEF n

\* The displacement of the terms, with one more.
LEMMA SumGrows ==
  ASSUME NEW ts \in Seq(TermRecords), NEW t \in TermRecords
  PROVE  SumOf(ts) \in Int /\ SumOf(Append(ts, t)) = SumOf(ts) + Adds(t)
<1> DEFINE n == Len(ts)
           us == Append(ts, t)
<1>1. /\ us \in Seq(TermRecords) /\ Len(us) = n + 1 /\ n \in Nat
      /\ \A k \in 1 .. n : us[k] = ts[k]
      /\ us[n + 1] = t
  BY AppendIs
<1> HIDE DEF n, us
<1>2. PICK w \in [0 .. n -> Int] :
           /\ w[0] = 0 /\ \A i \in 1 .. n : w[i] = w[i - 1] + Adds(ts[i])
           /\ SumOf(ts) = w[n]
  BY SumSteps DEF n
<1>3. PICK v \in [0 .. n + 1 -> Int] :
           /\ v[0] = 0 /\ \A i \in 1 .. n + 1 : v[i] = v[i - 1] + Adds(us[i])
           /\ SumOf(us) = v[n + 1]
  BY <1>1, SumSteps
<1> DEFINE S == {k \in Nat : k <= n => v[k] = w[k]}
<1>4. 0 \in S
  BY <1>2, <1>3
<1>5. ASSUME NEW k \in Nat, k \in S PROVE k + 1 \in S
  <2> SUFFICES ASSUME k + 1 <= n PROVE v[k + 1] = w[k + 1]
    OBVIOUS
  <2>1. k + 1 \in 1 .. n /\ k + 1 \in 1 .. n + 1 /\ (k + 1) - 1 = k /\ k <= n
    BY <1>1
  <2>2. v[k] = w[k]
    BY <1>5, <2>1
  <2>3. v[k + 1] = v[k] + Adds(us[k + 1]) /\ w[k + 1] = w[k] + Adds(ts[k + 1]) /\ us[k + 1] = ts[k + 1]
    BY <1>1, <1>2, <1>3, <2>1
  <2> QED BY <2>2, <2>3
<1>6. v[n] = w[n]
  <2> HIDE DEF S
  <2>1. n \in S
    BY <1>1, <1>4, <1>5, NatSetInduction
  <2> QED BY <1>1, <2>1 DEF S
<1>7. v[n + 1] = v[n] + Adds(us[n + 1])
  BY <1>1, <1>3
<1>8. w[n] \in Int
  BY <1>1, <1>2
<1> QED BY <1>1, <1>2, <1>3, <1>6, <1>7, <1>8 DEF us

\* The kinds of term exclude each other, and the numbers of registers are registers.
LEMMA TermKinds ==
  ASSUME NEW t \in TermRecords
  PROVE  /\ Reader!IsPlain(t) => ~ Reader!IsScaled(t) /\ ~ Reader!IsSymbol(t) /\ ~ Reader!IsDisp(t)
         /\ Reader!IsScaled(t) => ~ Reader!IsSymbol(t) /\ ~ Reader!IsDisp(t)
         /\ Reader!IsSymbol(t) => ~ Reader!IsDisp(t)
         /\ Reader!IsPlain(t) \/ Reader!IsScaled(t) => Reader!RegOf(t) \in 0 .. Rip
         /\ Reader!IsPlain(t) => Reader!RegOf(t) = Number[t.body[1]]
<1>1. Len(t.body) \in Nat
  BY DEF TermRecords
<1>2. \A r \in Registers : Number[r] \in 0 .. Rip
  BY DEF Number, Registers, Rip
<1>3. /\ Reader!IsPlain(t) => Len(t.body) = 1 /\ t.body[1] \in Registers /\ ~ Reader!ScaleHead(t)
      /\ Reader!IsSymbol(t) => Len(t.body) = 1 /\ t.body[1] \in Idents \ Registers
      /\ Reader!IsDisp(t) => Len(t.body) = 1 /\ t.body[1] \in Literals
      /\ Reader!ScaleLast(t) => Len(t.body) > 2 /\ t.body[1] \in Registers
      /\ Reader!ScaleHead(t) => Len(t.body) = 3 /\ t.body[3] \in Registers /\ t.body[1] \in Literals
  BY <1>1, ReaderNames
     DEF Reader!IsPlain, Reader!IsSymbol, Reader!IsDisp, Reader!ScaleLast, Reader!ScaleHead
<1>4. Literals \cap Idents = {} /\ Registers \subseteq Idents
  BY DEF Literals, Idents, Registers
<1>5. Reader!IsScaled(t) <=> Reader!ScaleLast(t) \/ Reader!ScaleHead(t)
  BY DEF Reader!IsScaled
<1>6. Reader!RegOf(t) = Number[IF Reader!ScaleHead(t) THEN t.body[3] ELSE t.body[1]]
  BY ReaderNames DEF Reader!RegOf
<1>7. Reader!IsPlain(t) => Reader!RegOf(t) = Number[t.body[1]]
  BY <1>3, <1>6
<1>8. Reader!IsPlain(t) => Reader!RegOf(t) \in 0 .. Rip
  BY <1>2, <1>3, <1>7
<1>9. Reader!IsScaled(t) => Reader!RegOf(t) \in 0 .. Rip
  <2>1. CASE Reader!ScaleHead(t)
    BY <1>2, <1>3, <1>6, <2>1
  <2>2. CASE ~ Reader!ScaleHead(t)
    <3>1. Reader!IsScaled(t) => Reader!ScaleLast(t)
      BY <1>5, <2>2
    <3>2. Reader!RegOf(t) = Number[t.body[1]]
      BY <1>6, <2>2
    <3> QED BY <1>2, <1>3, <3>1, <3>2
  <2> QED BY <2>1, <2>2
<1>10. /\ Reader!IsPlain(t) => ~ Reader!IsScaled(t) /\ ~ Reader!IsSymbol(t) /\ ~ Reader!IsDisp(t)
       /\ Reader!IsScaled(t) => ~ Reader!IsSymbol(t) /\ ~ Reader!IsDisp(t)
       /\ Reader!IsSymbol(t) => ~ Reader!IsDisp(t)
  <2>1. Reader!IsScaled(t) => Len(t.body) > 2
    BY <1>3, <1>5
  <2>2. Reader!IsScaled(t) => Len(t.body) # 1
    <3>1. \A n \in Nat : n > 2 => n # 1
      OBVIOUS
    <3> QED BY <1>1, <2>1, <3>1
  <2> QED BY <1>3, <1>4, <2>2
<1> QED BY <1>7, <1>8, <1>9, <1>10

\* Where the terms of a kind stand.
LEMMA KindsOf ==
  ASSUME NEW X, NEW ts \in Seq(X)
  PROVE  /\ Plains(ts) \in SUBSET Nat /\ IsFiniteSet(Plains(ts)) /\ \A k \in Plains(ts) : k < Len(ts) + 1
         /\ Scaleds(ts) \in SUBSET Nat /\ IsFiniteSet(Scaleds(ts)) /\ \A k \in Scaleds(ts) : k < Len(ts) + 1
         /\ Symbols(ts) \in SUBSET Nat /\ IsFiniteSet(Symbols(ts)) /\ \A k \in Symbols(ts) : k < Len(ts) + 1
<1>1. ASSUME NEW S \in SUBSET DOMAIN ts
      PROVE  S \in SUBSET Nat /\ IsFiniteSet(S) /\ \A k \in S : k < Len(ts) + 1
  <2>1. DOMAIN ts = 1 .. Len(ts) /\ Len(ts) \in Nat
    OBVIOUS
  <2>2. IsFiniteSet(1 .. Len(ts))
    BY <2>1, FS_Interval
  <2> QED BY <2>1, <2>2, FS_Subset
<1>2. Plains(ts) \subseteq DOMAIN ts /\ Scaleds(ts) \subseteq DOMAIN ts /\ Symbols(ts) \subseteq DOMAIN ts
  BY DEF Plains, Scaleds, Symbols
<1> QED BY <1>1, <1>2

\* What a term more adds.
LEMMA KindsGrow ==
  ASSUME NEW ts \in Seq(TermRecords), NEW t \in TermRecords
  PROVE  LET us == Append(ts, t)
             n  == Len(ts) + 1
         IN /\ Plains(us) = IF Reader!IsPlain(t) THEN Plains(ts) \cup {n} ELSE Plains(ts)
            /\ Scaleds(us) = IF Reader!IsScaled(t) THEN Scaleds(ts) \cup {n} ELSE Scaleds(ts)
            /\ Symbols(us) = IF Reader!IsSymbol(t) THEN Symbols(ts) \cup {n} ELSE Symbols(ts)
<1> DEFINE us == Append(ts, t)
           n  == Len(ts) + 1
<1>1. /\ DOMAIN us = 1 .. n /\ DOMAIN ts = 1 .. Len(ts) /\ Len(ts) \in Nat
      /\ \A k \in 1 .. Len(ts) : us[k] = ts[k]
      /\ us[n] = t
  BY AppendIs
<1>2. \A k : k \in 1 .. n <=> k \in 1 .. Len(ts) \/ k = n
  BY <1>1
<1> HIDE DEF us, n
<1>3. Plains(us) = IF Reader!IsPlain(t) THEN Plains(ts) \cup {n} ELSE Plains(ts)
  <2>1. \A k : k \in Plains(us) <=> k \in Plains(ts) \/ (k = n /\ Reader!IsPlain(t))
    BY <1>1, <1>2 DEF Plains
  <2> QED BY <2>1
<1>4. Scaleds(us) = IF Reader!IsScaled(t) THEN Scaleds(ts) \cup {n} ELSE Scaleds(ts)
  <2>1. \A k : k \in Scaleds(us) <=> k \in Scaleds(ts) \/ (k = n /\ Reader!IsScaled(t))
    BY <1>1, <1>2 DEF Scaleds
  <2> QED BY <2>1
<1>5. Symbols(us) = IF Reader!IsSymbol(t) THEN Symbols(ts) \cup {n} ELSE Symbols(ts)
  <2>1. \A k : k \in Symbols(us) <=> k \in Symbols(ts) \/ (k = n /\ Reader!IsSymbol(t))
    BY <1>1, <1>2 DEF Symbols
  <2> QED BY <2>1
<1> QED BY <1>3, <1>4, <1>5 DEF us, n

\* The fields of a good address tell how many registers it has.
LEMMA AddressHas ==
  ASSUME NEW ts \in Seq(TermRecords), LaxAddressOK(ts)
  PROVE  LET p == Cardinality(Plains(ts))
             q == Cardinality(Scaleds(ts))
             y == Cardinality(Symbols(ts))
         IN /\ p \in Nat /\ q \in Nat /\ y \in Nat /\ p + q <= 2 /\ q <= 1 /\ y <= 1
            /\ (BaseOf(ts) = None <=> p = 0) /\ (IndexOf(ts) = None <=> q = 0 /\ p # 2)
            /\ (HasSymbol(ts) <=> y # 0) /\ HasSymbol(ts) \in BOOLEAN
            /\ (p = 0 <=> Plains(ts) = {}) /\ (q = 0 <=> Scaleds(ts) = {})
            /\ BaseOf(ts) \in 0 .. None
<1> DEFINE P == Plains(ts)
           Q == Scaleds(ts)
           Y == Symbols(ts)
           n == Len(ts) + 1
<1>1. /\ P \in SUBSET Nat /\ IsFiniteSet(P) /\ \A k \in P : k < n
      /\ Q \in SUBSET Nat /\ IsFiniteSet(Q) /\ \A k \in Q : k < n
      /\ Y \in SUBSET Nat /\ IsFiniteSet(Y) /\ \A k \in Y : k < n
      /\ n \in Nat
  <2>1. Len(ts) \in Nat
    OBVIOUS
  <2> QED BY <2>1, KindsOf
<1>2. /\ \A k \in P : ts[k] \in TermRecords /\ Reader!IsPlain(ts[k])
      /\ \A k \in Q : ts[k] \in TermRecords /\ Reader!IsScaled(ts[k])
  BY DEF Plains, Scaleds
<1>3. HasSymbol(ts) <=> Y # {}
  BY DEF HasSymbol, Symbols
<1>4. Cardinality(Y) <= 1 /\ Cardinality(P) + Cardinality(Q) <= 2 /\ Cardinality(Q) <= 1
  BY DEF LaxAddressOK
<1> HIDE DEF P, Q, Y, n
<1>5. /\ Cardinality(P) \in Nat /\ (Cardinality(P) = 0 <=> P = {}) /\ (P # {} => Reader!Nth(P, 1) \in P)
      /\ Cardinality(Q) \in Nat /\ (Cardinality(Q) = 0 <=> Q = {}) /\ (Q # {} => Reader!Only(Q) \in Q)
      /\ Cardinality(Y) \in Nat /\ (Cardinality(Y) = 0 <=> Y = {})
  BY <1>1, NthGrows, OnlyIn
<1>6. \A k \in P \cup Q : Reader!RegOf(ts[k]) \in 0 .. Rip
  BY <1>2, TermKinds
<1>7. None \notin 0 .. Rip /\ 0 .. Rip \subseteq 0 .. None /\ None \in 0 .. None
  BY DEF None, Rip
<1>8. (BaseOf(ts) = None <=> P = {}) /\ BaseOf(ts) \in 0 .. None
  <2>1. BaseOf(ts) = IF P = {} THEN None ELSE Reader!RegOf(ts[Reader!Nth(P, 1)])
    BY DEF BaseOf, P
  <2> QED BY <1>5, <1>6, <1>7, <2>1
<1>9. IndexOf(ts) = None <=> (Q = {} /\ Cardinality(P) # 2)
  <2>1. IndexOf(ts) = IF Q # {} THEN Reader!RegOf(ts[Reader!Only(Q)])
                      ELSE IF Cardinality(P) = 2 THEN Reader!RegOf(ts[Reader!Nth(P, 2)]) ELSE None
    BY DEF IndexOf, P, Q
  <2>2. Cardinality(P) = 2 => Reader!Nth(P, 2) \in P
    BY <1>1, SecondPlace
  <2> QED BY <1>5, <1>6, <1>7, <2>1, <2>2
<1>10. HasSymbol(ts) \in BOOLEAN
  BY DEF HasSymbol
<1> QED BY <1>3, <1>4, <1>5, <1>8, <1>9, <1>10 DEF P, Q, Y

\* The address of terms that are good, field by field.
LEMMA FieldsAre ==
  ASSUME NEW b, NEW i, NEW s, NEW y, NEW d, NEW m, m = Address(b, i, s, y, d)
  PROVE  m.base = b /\ m.index = i /\ m.scale = s /\ m.symbol = y /\ m.disp = d
BY DEF Address

\* A displacement more.
LEMMA DispStep ==
  ASSUME NEW ts \in Seq(TermRecords), NEW t \in TermRecords
  PROVE  /\ Reader!IsDisp(t) => SumOf(Append(ts, t)) % Word
                                  = ((SumOf(ts) % Word) + Signed(t.minus, Value[t.body[1]])) % Word
         /\ ~ Reader!IsDisp(t) => SumOf(Append(ts, t)) = SumOf(ts)
<1>1. SumOf(ts) \in Int /\ SumOf(Append(ts, t)) = SumOf(ts) + Adds(t) /\ Adds(t) \in Int
  BY SumGrows, AddsIs
<1>2. Word \in Nat \ {0}
  BY ValuesAre
<1>3. ASSUME Reader!IsDisp(t)
      PROVE  Signed(t.minus, Value[t.body[1]]) = Adds(t) % Word
  BY <1>3 DEF Signed, Adds
<1>4. ((SumOf(ts) % Word) + (Adds(t) % Word)) % Word = (SumOf(ts) + Adds(t)) % Word
  BY <1>1, <1>2, ModSum
<1>5. ~ Reader!IsDisp(t) => Adds(t) = 0
  BY DEF Adds
<1>6. \A x \in Int : x + 0 = x
  OBVIOUS
<1> QED BY <1>1, <1>3, <1>4, <1>5, <1>6

\* The registers that may be an index, by name and by number.
LEMMA CanIndexIs ==
  ASSUME NEW r \in 0 .. Rip
  PROVE  Reader!CanIndex(r) <=> IsGpr(r) /\ ~ (Low3(r) = 4 /\ Ext(r) = 0)
<1>1. Number["rsp"] = 4
  BY DEF Number, Registers
<1>2. Reader!CanIndex(r) <=> r # 4 /\ r # Rip
  BY <1>1, ReaderNames DEF Reader!CanIndex
<1>3. r \in 0 .. 16
  BY DEF Rip
<1>4. \A x \in 0 .. 16 : (x < 16 /\ ~ (x % 8 = 4 /\ x \div 8 = 0)) <=> x # 4 /\ x # 16
  OBVIOUS
<1> QED BY <1>2, <1>3, <1>4 DEF Rip, IsGpr, Low3, Ext

\* A plain register is taken in exactly when the parser takes it, as the parser does.
LEMMA PlainStep ==
  ASSUME NEW ts \in Seq(TermRecords), NEW t \in TermRecords, LaxAddressOK(ts), Reader!IsPlain(t)
  PROVE  /\ LaxAddressOK(Append(ts, t)) <=> PlainOK(LaxAddressOf(ts), Reader!RegOf(t))
         /\ PlainOK(LaxAddressOf(ts), Reader!RegOf(t)) =>
              LaxAddressOf(Append(ts, t)) = WithPlain(LaxAddressOf(ts), Reader!RegOf(t))
<1> DEFINE us == Append(ts, t)
           n  == Len(ts) + 1
           r  == Reader!RegOf(t)
           m  == LaxAddressOf(ts)
           P  == Plains(ts)
           Q  == Scaleds(ts)
           p  == Cardinality(P)
           q  == Cardinality(Q)
           f  == Reader!Nth(P, 1)
<1>1. /\ DOMAIN us = 1 .. n /\ DOMAIN ts = 1 .. Len(ts) /\ Len(ts) \in Nat /\ n \in Nat
      /\ \A k \in 1 .. Len(ts) : us[k] = ts[k]
      /\ us[n] = t
  BY AppendIs
<1>2. Plains(us) = P \cup {n} /\ Scaleds(us) = Q /\ Symbols(us) = Symbols(ts)
  BY KindsGrow, TermKinds
<1>3. /\ p \in Nat /\ q \in Nat /\ p + q <= 2 /\ q <= 1 /\ Cardinality(Symbols(ts)) <= 1
      /\ (BaseOf(ts) = None <=> p = 0) /\ (IndexOf(ts) = None <=> q = 0 /\ p # 2)
      /\ (p = 0 <=> P = {}) /\ (q = 0 <=> Q = {})
  BY AddressHas
<1>4. /\ P \in SUBSET Nat /\ IsFiniteSet(P) /\ \A k \in P : k < n
      /\ Q \in SUBSET Nat /\ \A k \in Q : k < n
  BY KindsOf
<1>5. /\ P = {} => Reader!Nth(P \cup {n}, 1) = n
      /\ P # {} => f \in P /\ Reader!Nth(P \cup {n}, 1) = f
      /\ p = 1 => Reader!Nth(P \cup {n}, 2) = n /\ P = {f}
      /\ Cardinality(P \cup {n}) = p + 1
  BY <1>1, <1>4, NthGrows
<1>6. m = Address(BaseOf(ts), IndexOf(ts), FactorOf(ts), HasSymbol(ts), SumOf(ts) % Word)
  BY DEF LaxAddressOf
<1>7. m.base = BaseOf(ts) /\ m.index = IndexOf(ts)
  BY <1>6, FieldsAre
<1>8. r \in 0 .. Rip /\ ~ Reader!IsDisp(t) /\ ~ Reader!IsSymbol(t) /\ ~ Reader!IsScaled(t)
  BY TermKinds
<1>9. \A k : k \in P => k \in 1 .. Len(ts) /\ us[k] = ts[k] /\ k # n
  <2>1. P \subseteq DOMAIN ts
    BY DEF Plains
  <2>2. \A k \in 1 .. Len(ts) : k # n
    BY <1>1
  <2> QED BY <1>1, <2>1, <2>2
<1>10. \A k : k \in Q => k \in 1 .. Len(ts) /\ us[k] = ts[k]
  <2>1. Q \subseteq DOMAIN ts
    BY DEF Scaleds
  <2> QED BY <1>1, <2>1
<1>11. /\ \A k \in DOMAIN ts : IsTerm(ts[k])
       /\ ScaledsOK(ts) /\ PlainsOK(ts)
  BY DEF LaxAddressOK
<1>12. \A k \in DOMAIN us : IsTerm(us[k])
  <2>1. \A k \in 1 .. n : k \in 1 .. Len(ts) \/ k = n
    BY <1>1
  <2>2. IsTerm(t)
    BY DEF IsTerm
  <2> QED BY <1>1, <1>11, <2>1, <2>2
<1>13. ScaledsOK(us)
  BY <1>2, <1>10, <1>11 DEF ScaledsOK
<1>14. LaxAddressOK(us) <=> p + 1 + q <= 2 /\ PlainsOK(us)
  BY <1>2, <1>3, <1>5, <1>12, <1>13 DEF LaxAddressOK
<1>15. f \in P => BaseOf(ts) = Reader!RegOf(ts[f])
  BY DEF BaseOf
<1>19. Q = {} \/ Reader!Only(Q) \in Q
  BY OnlyIn
<1>20. LaxAddressOf(us) = Address(BaseOf(us), IndexOf(us), FactorOf(us), HasSymbol(ts), SumOf(ts) % Word)
  <2>1. HasSymbol(us) = HasSymbol(ts)
    <3>1. (HasSymbol(us) <=> Symbols(us) # {}) /\ (HasSymbol(ts) <=> Symbols(ts) # {})
      BY DEF HasSymbol, Symbols
    <3>2. HasSymbol(us) \in BOOLEAN /\ HasSymbol(ts) \in BOOLEAN
      BY DEF HasSymbol
    <3> QED BY <1>2, <3>1, <3>2
  <2>2. SumOf(us) = SumOf(ts)
    BY <1>8, DispStep
  <2> QED BY <2>1, <2>2 DEF LaxAddressOf
<1> HIDE DEF us, n, r, m, P, Q, p, q, f
<1>17. Reader!CanIndex(r) => r # Rip
  BY ReaderNames DEF Reader!CanIndex
<1>18. CASE p = 0
  <2>1. P = {} /\ BaseOf(ts) = None /\ (IndexOf(ts) = None <=> Q = {})
    BY <1>3, <1>18
  <2>2. Plains(us) = {n} /\ Reader!Nth(Plains(us), 1) = n
    BY <1>2, <1>5, <2>1
  <2>3. PlainsOK(us) <=> (r = Rip => \A j \in Q : j > n)
    BY <1>1, <1>2, <2>2 DEF PlainsOK, r
  <2>4. (\A j \in Q : j > n) <=> Q = {}
    BY <1>1, <1>4
  <2>5. p + 1 + q <= 2
    BY <1>3, <1>18
  <2>6. PlainOK(m, r) <=> (r = Rip => Q = {})
    BY <1>7, <2>1 DEF PlainOK
  <2>7. LaxAddressOK(us) <=> PlainOK(m, r)
    BY <1>14, <2>3, <2>4, <2>5, <2>6
  <2>8. BaseOf(us) = r
    BY <1>1, <2>2 DEF BaseOf, r
  <2>9. IndexOf(us) = IndexOf(ts) /\ FactorOf(us) = FactorOf(ts)
    <3>1. Cardinality(Plains(us)) # 2 /\ Cardinality(Plains(ts)) # 2
      BY <1>2, <1>5, <1>18 DEF P, p
    <3>2. us[Reader!Only(Q)] = ts[Reader!Only(Q)] \/ Q = {}
      BY <1>10, <1>19
    <3> QED BY <1>2, <3>1, <3>2 DEF IndexOf, FactorOf, Q
  <2>10. WithPlain(m, r) = [m EXCEPT !.base = r]
    BY <1>7, <2>1 DEF WithPlain
  <2>11. [m EXCEPT !.base = r] = Address(r, IndexOf(ts), FactorOf(ts), HasSymbol(ts), SumOf(ts) % Word)
    BY <1>6 DEF Address
  <2>12. LaxAddressOf(us) = WithPlain(m, r)
    BY <1>20, <2>8, <2>9, <2>10, <2>11
  <2> QED BY <2>7, <2>12 DEF us, m, r
<1>21. CASE p = 1
  <2>1. P = {f} /\ BaseOf(ts) # None /\ (IndexOf(ts) = None <=> q = 0) /\ f \in P
    BY <1>3, <1>5, <1>21
  <2>2. Plains(us) = {f, n} /\ Reader!Nth(Plains(us), 1) = f /\ f # n /\ us[f] = ts[f]
    BY <1>2, <1>5, <1>9, <2>1
  <2>3. BaseOf(ts) = Reader!RegOf(us[f])
    BY <1>15, <2>1, <2>2
  <2>4. PlainsOK(us) <=> BaseOf(ts) # Rip /\ Reader!CanIndex(r)
    <3>0. f \in Plains(us) /\ f \notin {n} /\ n \in Plains(us) /\ n \notin {f}
      BY Zenon, <2>2
    <3>1. Plains(us) # {n} /\ Plains(us) # {f} /\ n # Reader!Nth(Plains(us), 1)
      BY Zenon, <2>2, <3>0
    <3>2. PlainsOK(us) <=> (BaseOf(ts) # Rip /\ Reader!CanIndex(r) /\ r # Rip)
      BY <1>1, <2>2, <2>3, <3>1 DEF PlainsOK, r
    <3> QED BY <1>17, <3>2
  <2>5. p + 1 + q <= 2 <=> q = 0
    BY <1>3, <1>21
  <2>6. IndexOK(m, r, 1) <=> Reader!CanIndex(r) /\ q = 0
    BY <1>7, <1>8, <2>1, CanIndexIs DEF IndexOK, r
  <2>7. PlainOK(m, r) <=> BaseOf(ts) # Rip /\ IndexOK(m, r, 1) /\ r # Rip
    BY <1>7, <2>1 DEF PlainOK
  <2>8. LaxAddressOK(us) <=> PlainOK(m, r)
    BY <1>14, <1>17, <2>4, <2>5, <2>6, <2>7
  <2>9. ASSUME PlainOK(m, r) PROVE LaxAddressOf(us) = WithPlain(m, r)
    <3>1. q = 0 /\ Q = {}
      BY <1>3, <2>6, <2>7, <2>9
    <3>2. BaseOf(us) = BaseOf(ts)
      BY <2>2, <2>3 DEF BaseOf
    <3>3. Cardinality(Plains(us)) = 2 /\ Reader!Nth(Plains(us), 2) = n
      BY <1>2, <1>5, <1>21
    <3>4. IndexOf(us) = r /\ FactorOf(us) = 1
      BY <1>1, <1>2, <3>1, <3>3 DEF IndexOf, FactorOf, r
    <3>5. WithPlain(m, r) = [m EXCEPT !.index = r, !.scale = 1]
      BY <1>7, <2>1 DEF WithPlain, WithIndex
    <3>6. [m EXCEPT !.index = r, !.scale = 1] = Address(BaseOf(ts), r, 1, HasSymbol(ts), SumOf(ts) % Word)
      <4> DEFINE w == [m EXCEPT !.index = r]
      <4>1. w = Address(BaseOf(ts), r, FactorOf(ts), HasSymbol(ts), SumOf(ts) % Word)
        BY <1>6 DEF Address
      <4> HIDE DEF w
      <4>2. [w EXCEPT !.scale = 1] = Address(BaseOf(ts), r, 1, HasSymbol(ts), SumOf(ts) % Word)
        BY <4>1 DEF Address
      <4> QED BY <4>2 DEF w
    <3> QED BY <1>20, <3>2, <3>4, <3>5, <3>6
  <2> QED BY <2>8, <2>9 DEF us, m, r
<1>22. CASE p = 2
  <2>1. BaseOf(ts) # None /\ IndexOf(ts) # None
    BY <1>3, <1>22
  <2>2. ~ PlainOK(m, r)
    BY <1>7, <2>1 DEF PlainOK, IndexOK
  <2>3. ~ (p + 1 + q <= 2)
    BY <1>3, <1>22
  <2> QED BY <1>14, <2>2, <2>3 DEF us, m, r
<1>23. p = 0 \/ p = 1 \/ p = 2
  BY <1>3
<1> QED BY <1>18, <1>21, <1>22, <1>23

\* A scaled register is taken in exactly when the parser takes it.
LEMMA ScaledStep ==
  ASSUME NEW ts \in Seq(TermRecords), NEW t \in TermRecords, LaxAddressOK(ts), Reader!IsScaled(t)
  PROVE  LET m == LaxAddressOf(ts)
             r == Reader!RegOf(t)
             s == LaxScaleOf(t)
         IN /\ LaxAddressOK(Append(ts, t)) <=> IndexOK(m, r, s)
            /\ IndexOK(m, r, s) => LaxAddressOf(Append(ts, t)) = WithIndex(m, r, s)
<1> DEFINE us == Append(ts, t)
           n  == Len(ts) + 1
           r  == Reader!RegOf(t)
           s  == LaxScaleOf(t)
           m  == LaxAddressOf(ts)
           P  == Plains(ts)
           Q  == Scaleds(ts)
           p  == Cardinality(P)
           q  == Cardinality(Q)
<1>1. /\ DOMAIN us = 1 .. n /\ DOMAIN ts = 1 .. Len(ts) /\ Len(ts) \in Nat /\ n \in Nat
      /\ \A k \in 1 .. Len(ts) : us[k] = ts[k]
      /\ us[n] = t
  BY AppendIs
<1>2. Plains(us) = P /\ Scaleds(us) = Q \cup {n} /\ Symbols(us) = Symbols(ts)
  BY KindsGrow, TermKinds
<1>3. /\ p \in Nat /\ q \in Nat /\ p + q <= 2 /\ q <= 1 /\ Cardinality(Symbols(ts)) <= 1
      /\ (IndexOf(ts) = None <=> q = 0 /\ p # 2) /\ (q = 0 <=> Q = {})
  BY AddressHas
<1>4. /\ P \in SUBSET Nat /\ \A k \in P : k < n
      /\ Q \in SUBSET Nat /\ IsFiniteSet(Q) /\ \A k \in Q : k < n
      /\ IsFiniteSet(P)
  BY KindsOf
<1>5. Cardinality(Q \cup {n}) = q + 1
  BY <1>1, <1>4, NthGrows
<1>6. m = Address(BaseOf(ts), IndexOf(ts), FactorOf(ts), HasSymbol(ts), SumOf(ts) % Word)
  BY DEF LaxAddressOf
<1>7. m.index = IndexOf(ts)
  BY <1>6, FieldsAre
<1>8. r \in 0 .. Rip /\ ~ Reader!IsDisp(t) /\ ~ Reader!IsSymbol(t) /\ ~ Reader!IsPlain(t)
  BY TermKinds
<1>9. \A k : k \in P \cup Q => k \in 1 .. Len(ts) /\ us[k] = ts[k] /\ k # n
  <2>1. P \subseteq DOMAIN ts /\ Q \subseteq DOMAIN ts
    BY DEF Plains, Scaleds
  <2>2. \A k \in 1 .. Len(ts) : k # n
    BY <1>1
  <2> QED BY <1>1, <2>1, <2>2
<1>10. (\A k \in DOMAIN ts : IsTerm(ts[k])) /\ ScaledsOK(ts) /\ PlainsOK(ts)
  BY DEF LaxAddressOK
<1>11. \A k \in DOMAIN us : IsTerm(us[k])
  <2>1. \A k \in 1 .. n : k \in 1 .. Len(ts) \/ k = n
    BY <1>1
  <2>2. IsTerm(t)
    BY DEF IsTerm
  <2> QED BY <1>1, <1>10, <2>1, <2>2
<1>12. LaxAddressOf(us) = Address(BaseOf(us), IndexOf(us), FactorOf(us), HasSymbol(ts), SumOf(ts) % Word)
  <2>1. HasSymbol(us) = HasSymbol(ts)
    <3>1. (HasSymbol(us) <=> Symbols(us) # {}) /\ (HasSymbol(ts) <=> Symbols(ts) # {})
      BY DEF HasSymbol, Symbols
    <3>2. HasSymbol(us) \in BOOLEAN /\ HasSymbol(ts) \in BOOLEAN
      BY DEF HasSymbol
    <3> QED BY <1>2, <3>1, <3>2
  <2>2. SumOf(us) = SumOf(ts)
    BY <1>8, DispStep
  <2> QED BY <2>1, <2>2 DEF LaxAddressOf
<1>13. P # {} => Reader!Nth(P, 1) \in P
  BY <1>1, <1>4, NthGrows
<1> HIDE DEF us, n, m, P, Q, p, q
<1>14. BaseOf(us) = BaseOf(ts)
  BY <1>2, <1>9, <1>13 DEF BaseOf, P
<1>16. ScaledsOK(us) <=> Reader!CanIndex(r) /\ s \in {1, 2, 4, 8}
  <2>1. \A k \in Q : Reader!CanIndex(Reader!RegOf(us[k])) /\ LaxScaleOf(us[k]) \in {1, 2, 4, 8}
    BY <1>9, <1>10 DEF ScaledsOK, Q
  <2> QED BY <1>1, <1>2, <2>1 DEF ScaledsOK
<1>17. PlainsOK(us)
  <2>1. \A k \in P : /\ k # Reader!Nth(P, 1) => Reader!CanIndex(Reader!RegOf(us[k]))
                     /\ Reader!RegOf(us[k]) = Rip => P = {k} /\ \A j \in Q : j > k
    BY <1>9, <1>10 DEF PlainsOK, P, Q
  <2>2. \A k \in P : n > k
    BY <1>1, <1>4
  <2> QED BY <1>2, <2>1, <2>2 DEF PlainsOK
<1>18. LaxAddressOK(us) <=> p + (q + 1) <= 2 /\ q + 1 <= 1 /\ Reader!CanIndex(r) /\ s \in {1, 2, 4, 8}
  BY <1>2, <1>3, <1>5, <1>11, <1>16, <1>17 DEF LaxAddressOK, P, p
<1>19. p + (q + 1) <= 2 /\ q + 1 <= 1 <=> q = 0 /\ p # 2
  BY <1>3
<1>20. IndexOK(m, r, s) <=> Reader!CanIndex(r) /\ s \in {1, 2, 4, 8} /\ q = 0 /\ p # 2
  BY <1>3, <1>7, <1>8, CanIndexIs DEF IndexOK
<1>21. LaxAddressOK(us) <=> IndexOK(m, r, s)
  BY <1>18, <1>19, <1>20
<1>22. ASSUME IndexOK(m, r, s) PROVE LaxAddressOf(us) = WithIndex(m, r, s)
  <2>1. Q = {}
    BY <1>3, <1>20, <1>22
  <2>2. Scaleds(us) = {n} /\ Reader!Only(Scaleds(us)) = n
    BY <1>2, <2>1, OnlyIn
  <2>3. IndexOf(us) = r /\ FactorOf(us) = s
    BY <1>1, <2>2 DEF IndexOf, FactorOf
  <2> DEFINE w == [m EXCEPT !.index = r]
  <2>4. w = Address(BaseOf(ts), r, FactorOf(ts), HasSymbol(ts), SumOf(ts) % Word)
    BY <1>6 DEF Address
  <2> HIDE DEF w
  <2>5. [w EXCEPT !.scale = s] = Address(BaseOf(ts), r, s, HasSymbol(ts), SumOf(ts) % Word)
    BY <2>4 DEF Address
  <2>6. WithIndex(m, r, s) = [w EXCEPT !.scale = s]
    BY DEF WithIndex, w
  <2> QED BY <1>12, <1>14, <2>3, <2>5, <2>6
<1> QED BY <1>21, <1>22 DEF us, m

\* Where no plain or scaled register is added, the registers stay what they were.
LEMMA RegistersStay ==
  ASSUME NEW ts \in Seq(TermRecords), NEW t \in TermRecords, LaxAddressOK(ts),
         ~ Reader!IsPlain(t), ~ Reader!IsScaled(t)
  PROVE  LET us == Append(ts, t)
         IN /\ BaseOf(us) = BaseOf(ts) /\ IndexOf(us) = IndexOf(ts) /\ FactorOf(us) = FactorOf(ts)
            /\ LaxAddressOK(us) <=> IsTerm(t) /\ Cardinality(Symbols(us)) <= 1
<1> DEFINE us == Append(ts, t)
           n  == Len(ts) + 1
           P  == Plains(ts)
           Q  == Scaleds(ts)
<1>1. /\ DOMAIN us = 1 .. n /\ DOMAIN ts = 1 .. Len(ts) /\ Len(ts) \in Nat /\ n \in Nat
      /\ \A k \in 1 .. Len(ts) : us[k] = ts[k]
      /\ us[n] = t
  BY AppendIs
<1>2. Plains(us) = P /\ Scaleds(us) = Q
  BY KindsGrow
<1>3. \A k : k \in P \cup Q => k \in 1 .. Len(ts) /\ us[k] = ts[k]
  <2>1. P \subseteq DOMAIN ts /\ Q \subseteq DOMAIN ts
    BY DEF Plains, Scaleds
  <2> QED BY <1>1, <2>1
<1>4. /\ P \in SUBSET Nat /\ IsFiniteSet(P) /\ \A k \in P : k < n
      /\ Q \in SUBSET Nat /\ IsFiniteSet(Q) /\ \A k \in Q : k < n
  BY KindsOf
<1>5. (P # {} => Reader!Nth(P, 1) \in P) /\ (Q # {} => Reader!Only(Q) \in Q)
  BY <1>1, <1>4, NthGrows, OnlyIn
<1>6. Cardinality(P) = 2 => Reader!Nth(P, 2) \in P
  BY <1>4, SecondPlace
<1>7. /\ \A k \in DOMAIN ts : IsTerm(ts[k])
      /\ Cardinality(P) + Cardinality(Q) <= 2 /\ Cardinality(Q) <= 1
      /\ ScaledsOK(ts) /\ PlainsOK(ts)
  BY DEF LaxAddressOK
<1>8. (\A k \in DOMAIN us : IsTerm(us[k])) <=> IsTerm(t)
  <2>1. \A k \in 1 .. n : k \in 1 .. Len(ts) \/ k = n
    BY <1>1
  <2>2. n \in 1 .. n
    BY <1>1
  <2> QED BY <1>1, <1>7, <2>1, <2>2
<1> HIDE DEF us, n, P, Q
<1>9. ScaledsOK(us) /\ PlainsOK(us)
  <2>1. ScaledsOK(us)
    BY <1>2, <1>3, <1>7 DEF ScaledsOK, Q
  <2>2. PlainsOK(us)
    BY <1>2, <1>3, <1>7 DEF PlainsOK, P, Q
  <2> QED BY <2>1, <2>2
<1>10. LaxAddressOK(us) <=> IsTerm(t) /\ Cardinality(Symbols(us)) <= 1
  BY <1>2, <1>7, <1>8, <1>9 DEF LaxAddressOK
<1>11. BaseOf(us) = BaseOf(ts)
  BY <1>2, <1>3, <1>5 DEF BaseOf, P
<1>12. IndexOf(us) = IndexOf(ts) /\ FactorOf(us) = FactorOf(ts)
  <2>1. Q # {} => us[Reader!Only(Q)] = ts[Reader!Only(Q)]
    BY <1>3, <1>5
  <2>2. Cardinality(P) = 2 => us[Reader!Nth(P, 2)] = ts[Reader!Nth(P, 2)]
    BY <1>3, <1>6
  <2> QED BY <1>2, <2>1, <2>2 DEF IndexOf, FactorOf, P, Q
<1> QED BY <1>10, <1>11, <1>12 DEF us

\* A symbol is taken in once.
LEMMA SymbolStep ==
  ASSUME NEW ts \in Seq(TermRecords), NEW t \in TermRecords, LaxAddressOK(ts), Reader!IsSymbol(t)
  PROVE  LET m == LaxAddressOf(ts)
         IN /\ LaxAddressOK(Append(ts, t)) <=> ~ m.symbol
            /\ LaxAddressOf(Append(ts, t)) = [m EXCEPT !.symbol = TRUE]
<1> DEFINE us == Append(ts, t)
           n  == Len(ts) + 1
           m  == LaxAddressOf(ts)
           Y  == Symbols(ts)
<1>1. ~ Reader!IsPlain(t) /\ ~ Reader!IsScaled(t) /\ ~ Reader!IsDisp(t) /\ IsTerm(t)
  BY TermKinds DEF IsTerm
<1>2. /\ BaseOf(us) = BaseOf(ts) /\ IndexOf(us) = IndexOf(ts) /\ FactorOf(us) = FactorOf(ts)
      /\ LaxAddressOK(us) <=> IsTerm(t) /\ Cardinality(Symbols(us)) <= 1
  BY <1>1, RegistersStay
<1>3. Symbols(us) = Y \cup {n}
  BY KindsGrow
<1>4. Y \in SUBSET Nat /\ IsFiniteSet(Y) /\ \A k \in Y : k < n
  BY KindsOf
<1>5. n \in Nat
  OBVIOUS
<1>6. Cardinality(Y \cup {n}) = Cardinality(Y) + 1 /\ Cardinality(Y) \in Nat
  BY <1>4, <1>5, NthGrows
<1>7. (HasSymbol(ts) <=> Cardinality(Y) # 0) /\ HasSymbol(ts) \in BOOLEAN
  BY AddressHas
<1>8. m = Address(BaseOf(ts), IndexOf(ts), FactorOf(ts), HasSymbol(ts), SumOf(ts) % Word)
  BY DEF LaxAddressOf
<1>9. m.symbol = HasSymbol(ts)
  BY <1>8, FieldsAre
<1>10. HasSymbol(us) = TRUE
  <2>1. HasSymbol(us) <=> Symbols(us) # {}
    BY DEF HasSymbol, Symbols
  <2>2. HasSymbol(us) \in BOOLEAN
    BY DEF HasSymbol
  <2> QED BY <1>3, <2>1, <2>2
<1>11. SumOf(us) = SumOf(ts)
  BY <1>1, DispStep
<1>12. LaxAddressOf(us) = Address(BaseOf(us), IndexOf(us), FactorOf(us), HasSymbol(us), SumOf(us) % Word)
  BY DEF LaxAddressOf
<1> HIDE DEF us, n, m, Y
<1>13. Cardinality(Y) + 1 <= 1 <=> Cardinality(Y) = 0
  BY <1>6
<1> DEFINE yes == TRUE
<1>14. [m EXCEPT !.symbol = TRUE] = Address(BaseOf(ts), IndexOf(ts), FactorOf(ts), TRUE, SumOf(ts) % Word)
  <2> HIDE DEF yes
  <2>1. [m EXCEPT !.symbol = yes] = Address(BaseOf(ts), IndexOf(ts), FactorOf(ts), yes, SumOf(ts) % Word)
    BY <1>8 DEF Address
  <2> QED BY <2>1 DEF yes
<1> HIDE DEF yes
<1>15. LaxAddressOf(us) = [m EXCEPT !.symbol = TRUE]
  BY <1>2, <1>10, <1>11, <1>12, <1>14
<1>16. LaxAddressOK(us) <=> ~ m.symbol
  BY <1>1, <1>2, <1>3, <1>6, <1>7, <1>9, <1>13
<1> QED BY <1>15, <1>16 DEF us, m

\* A displacement is always taken in.
LEMMA DispTermStep ==
  ASSUME NEW ts \in Seq(TermRecords), NEW t \in TermRecords, LaxAddressOK(ts), Reader!IsDisp(t)
  PROVE  LET m == LaxAddressOf(ts)
         IN /\ LaxAddressOK(Append(ts, t))
            /\ LaxAddressOf(Append(ts, t)) =
                 [m EXCEPT !.disp = (m.disp + Signed(t.minus, Value[t.body[1]])) % Word]
<1> DEFINE us == Append(ts, t)
           m  == LaxAddressOf(ts)
           d  == (m.disp + Signed(t.minus, Value[t.body[1]])) % Word
<1>1. ~ Reader!IsPlain(t) /\ ~ Reader!IsScaled(t) /\ ~ Reader!IsSymbol(t) /\ IsTerm(t)
  BY TermKinds DEF IsTerm
<1>2. /\ BaseOf(us) = BaseOf(ts) /\ IndexOf(us) = IndexOf(ts) /\ FactorOf(us) = FactorOf(ts)
      /\ LaxAddressOK(us) <=> IsTerm(t) /\ Cardinality(Symbols(us)) <= 1
  BY <1>1, RegistersStay
<1>3. Symbols(us) = Symbols(ts)
  BY <1>1, KindsGrow
<1>4. Cardinality(Symbols(ts)) <= 1
  BY DEF LaxAddressOK
<1>5. m = Address(BaseOf(ts), IndexOf(ts), FactorOf(ts), HasSymbol(ts), SumOf(ts) % Word)
  BY DEF LaxAddressOf
<1>6. m.disp = SumOf(ts) % Word
  BY <1>5, FieldsAre
<1>7. SumOf(us) % Word = d
  BY <1>6, DispStep
<1>8. HasSymbol(us) = HasSymbol(ts)
  <2>1. (HasSymbol(us) <=> Symbols(us) # {}) /\ (HasSymbol(ts) <=> Symbols(ts) # {})
    BY DEF HasSymbol, Symbols
  <2>2. HasSymbol(us) \in BOOLEAN /\ HasSymbol(ts) \in BOOLEAN
    BY DEF HasSymbol
  <2> QED BY <1>3, <2>1, <2>2
<1>9. LaxAddressOf(us) = Address(BaseOf(us), IndexOf(us), FactorOf(us), HasSymbol(us), SumOf(us) % Word)
  BY DEF LaxAddressOf
<1> HIDE DEF us, m, d
<1>10. [m EXCEPT !.disp = d] = Address(BaseOf(ts), IndexOf(ts), FactorOf(ts), HasSymbol(ts), d)
  BY <1>5 DEF Address
<1>11. LaxAddressOf(us) = [m EXCEPT !.disp = d]
  BY <1>2, <1>7, <1>8, <1>9, <1>10
<1>12. LaxAddressOK(us)
  BY <1>1, <1>2, <1>3, <1>4
<1> QED BY <1>11, <1>12 DEF us, m, d

\* No terms make the empty address.
LEMMA NoTerms ==
  LaxAddressOK(<<>>) /\ LaxAddressOf(<<>>) = EmptyMem
<1> DEFINE e == <<>>
<1>1. DOMAIN e = {} /\ Len(e) = 0 /\ e \in Seq(TermRecords)
  OBVIOUS
<1> HIDE DEF e
<1>2. Plains(e) = {} /\ Scaleds(e) = {} /\ Symbols(e) = {}
  BY <1>1 DEF Plains, Scaleds, Symbols
<1>3. Cardinality({}) = 0
  BY FS_EmptySet
<1>4. ScaledsOK(e) /\ PlainsOK(e)
  BY <1>2 DEF ScaledsOK, PlainsOK
<1>5. 0 <= 1 /\ 0 + 0 <= 2
  OBVIOUS
<1>6. LaxAddressOK(e)
  BY <1>1, <1>2, <1>3, <1>4, <1>5 DEF LaxAddressOK
<1>7. BaseOf(e) = None
  BY <1>2 DEF BaseOf
<1>8. IndexOf(e) = None /\ FactorOf(e) = 0
  BY <1>2, <1>3 DEF IndexOf, FactorOf
<1>9. HasSymbol(e) = FALSE
  BY <1>1 DEF HasSymbol
<1>10. SumOf(e) = 0
  BY <1>1, SumSteps
<1>11. 0 % Word = 0
  <2>1. Word \in Nat \ {0} /\ 0 \in 0 .. Word - 1
    BY ValuesAre
  <2> QED BY <2>1, ModSmall
<1>12. LaxAddressOf(e) = Address(None, None, 0, FALSE, 0)
  BY <1>7, <1>8, <1>9, <1>10, <1>11 DEF LaxAddressOf
<1> QED BY <1>6, <1>12 DEF Address, EmptyMem, e

\* The first terms of a good address make one.
LEMMA AddressPrefix ==
  ASSUME NEW X, NEW us \in Seq(X), NEW ts \in Seq(TermRecords), Len(ts) <= Len(us),
         \A k \in 1 .. Len(ts) : ts[k] = us[k], LaxAddressOK(us)
  PROVE  LaxAddressOK(ts)
<1> DEFINE n == Len(ts)
<1>1. /\ DOMAIN ts = 1 .. n /\ DOMAIN us = 1 .. Len(us) /\ n \in Nat /\ Len(us) \in Nat
      /\ 1 .. n \subseteq DOMAIN us
  BY LenProperties
<1>2. /\ Plains(ts) = {k \in Plains(us) : k <= n} /\ Scaleds(ts) = {k \in Scaleds(us) : k <= n}
      /\ Symbols(ts) = {k \in Symbols(us) : k <= n}
  <2>1. \A k : k \in 1 .. n <=> k \in DOMAIN us /\ k <= n
    BY <1>1
  <2>2. Plains(ts) = {k \in Plains(us) : k <= n}
    BY <1>1, <2>1 DEF Plains
  <2>3. Scaleds(ts) = {k \in Scaleds(us) : k <= n}
    BY <1>1, <2>1 DEF Scaleds
  <2>4. Symbols(ts) = {k \in Symbols(us) : k <= n}
    BY <1>1, <2>1 DEF Symbols
  <2> QED BY <2>2, <2>3, <2>4
<1>3. /\ Plains(us) \in SUBSET Nat /\ IsFiniteSet(Plains(us)) /\ IsFiniteSet(Scaleds(us)) /\ IsFiniteSet(Symbols(us))
      /\ Plains(ts) \subseteq Plains(us) /\ Scaleds(ts) \subseteq Scaleds(us) /\ Symbols(ts) \subseteq Symbols(us)
      /\ Plains(ts) \in SUBSET Nat /\ IsFiniteSet(Plains(ts))
  BY <1>2, KindsOf
<1>4. /\ Cardinality(Plains(ts)) <= Cardinality(Plains(us)) /\ Cardinality(Scaleds(ts)) <= Cardinality(Scaleds(us))
      /\ Cardinality(Symbols(ts)) <= Cardinality(Symbols(us))
      /\ IsFiniteSet(Scaleds(ts)) /\ IsFiniteSet(Symbols(ts))
  BY <1>3, FS_Subset
<1>5. /\ Cardinality(Plains(ts)) \in Nat /\ Cardinality(Scaleds(ts)) \in Nat /\ Cardinality(Symbols(ts)) \in Nat
      /\ Cardinality(Plains(us)) \in Nat /\ Cardinality(Scaleds(us)) \in Nat /\ Cardinality(Symbols(us)) \in Nat
  BY <1>3, <1>4, FS_CardinalityType
<1>6. /\ \A k \in DOMAIN us : IsTerm(us[k])
      /\ Cardinality(Symbols(us)) <= 1
      /\ Cardinality(Plains(us)) + Cardinality(Scaleds(us)) <= 2 /\ Cardinality(Scaleds(us)) <= 1
      /\ ScaledsOK(us) /\ PlainsOK(us)
  BY DEF LaxAddressOK
<1>7. /\ Cardinality(Symbols(ts)) <= 1
      /\ Cardinality(Plains(ts)) + Cardinality(Scaleds(ts)) <= 2 /\ Cardinality(Scaleds(ts)) <= 1
  BY <1>4, <1>5, <1>6
<1>8. \A k \in Plains(ts) \cup Scaleds(ts) : ts[k] = us[k] /\ k \in 1 .. n
  BY <1>1 DEF Plains, Scaleds
<1>9. ScaledsOK(ts)
  BY <1>3, <1>6, <1>8 DEF ScaledsOK
<1>10. ASSUME NEW k \in Plains(ts) PROVE Reader!Nth(Plains(ts), 1) = Reader!Nth(Plains(us), 1)
  <2>1. PICK m \in Plains(us) : \A j \in Plains(us) : m <= j
    BY <1>3, LeastNat
  <2>2. m <= k /\ k <= n /\ k \in Nat /\ m \in Nat
    BY <1>2, <1>3, <2>1
  <2>3. m \in Plains(ts) /\ \A j \in Plains(ts) : m <= j
    BY <1>1, <1>2, <2>1, <2>2
  <2>4. \A S \in SUBSET Nat : m \in S /\ (\A j \in S : m <= j) => Lower(S, m) = {}
    <3>1. \A j \in Nat : m <= j => ~ (j < m)
      BY <2>2
    <3> QED BY <3>1 DEF Lower
  <2>5. Cardinality(Lower(Plains(ts), m)) = 1 - 1 /\ Cardinality(Lower(Plains(us), m)) = 1 - 1
    <3>1. Lower(Plains(ts), m) = {} /\ Lower(Plains(us), m) = {}
      BY <1>3, <2>1, <2>3, <2>4
    <3> QED BY <3>1, FS_EmptySet
  <2> QED BY <1>3, <2>1, <2>3, <2>5, NthIs
<1>11. PlainsOK(ts)
  BY <1>3, <1>6, <1>8, <1>10 DEF PlainsOK
<1>12. \A k \in DOMAIN ts : IsTerm(ts[k])
  BY <1>1, <1>6
<1> QED BY <1>7, <1>9, <1>11, <1>12 DEF LaxAddressOK

-----------------------------------------------------------------------------
(* 5. Terms as tokens. *)

\* The places where terms start, and the term between two places.
Starts(u)      == {k \in 2 .. Len(u) : u[k] \in Signs /\ u[k - 1] # "*"}
Piece(u, a, c) == Reader!TermOf(SubSeq(u, a, c))

\* A term that starts at a ends with c.
TermEnds(u, a, c) ==
  /\ c \in a - 1 .. Len(u) /\ (c = Len(u) \/ (c + 1 \in Starts(u) /\ c >= a))
  /\ \A k \in Starts(u) : k > a => k > c

\* The terms before a are the first ones and make a good address.
Sofar(u, ts, a) ==
  /\ ts \in Seq(TermRecords) /\ a \in 1 .. Len(u) + 1
  /\ Opens(Starts(u), a, Len(ts) + 1)
  /\ \A k \in 1 .. Len(ts) : ts[k] = Reader!Terms(u)[k]
  /\ LaxAddressOK(ts)

\* The places where the terms between brackets start.
LEMMA StartsAre ==
  ASSUME NEW u \in Seq(Tokens)
  PROVE  /\ Reader!TermStarts(u) = Starts(u) /\ Starts(u) \in SUBSET Nat /\ IsFiniteSet(Starts(u))
         /\ \A k \in Starts(u) : k >= 2 /\ k <= Len(u)
         /\ Len(u) \in Nat
<1>1. Reader!TermStarts(u) = Starts(u)
  BY ReaderNames DEF Reader!TermStarts, Starts
<1>2. Len(u) \in Nat
  OBVIOUS
<1>3. Starts(u) \subseteq 2 .. Len(u)
  BY DEF Starts
<1>4. IsFiniteSet(2 .. Len(u))
  BY <1>2, FS_Interval
<1>5. \A k \in 2 .. Len(u) : k \in Nat /\ k >= 2 /\ k <= Len(u)
  BY <1>2
<1> QED BY <1>1, <1>2, <1>3, <1>4, <1>5, FS_Subset

\* A piece of the tokens between brackets, read as a term, without its sign.
LEMMA PieceOf ==
  ASSUME NEW u \in Seq(Tokens), NEW a \in 1 .. Len(u) + 1, NEW c \in a - 1 .. Len(u)
  PROVE  /\ Piece(u, a, c) \in TermRecords
         /\ ~ (c >= a /\ u[a] \in Signs) => ~ Piece(u, a, c).minus /\ Piece(u, a, c).body = SubSeq(u, a, c)
         /\ c >= a /\ u[a] \in Signs => /\ Piece(u, a, c).minus <=> u[a] = "-"
                                        /\ Piece(u, a, c).body = SubSeq(u, a + 1, c)
<1> DEFINE w == SubSeq(u, a, c)
           signed == w # <<>> /\ w[1] \in Signs
<1>1. /\ w \in Seq(Tokens) /\ Len(w) = c - a + 1 /\ DOMAIN w = 1 .. c - a + 1
      /\ \A k \in 1 .. c - a + 1 : w[k] = u[a + k - 1] /\ a + k - 1 \in 1 .. Len(u)
  BY PieceIs
<1>2. a \in Nat /\ c \in Int /\ Len(u) \in Nat /\ c >= a - 1 /\ a >= 1 /\ a <= Len(u) + 1 /\ c <= Len(u)
  <2>1. Len(u) \in Nat
    OBVIOUS
  <2> QED BY <2>1
<1>3. Piece(u, a, c) = [minus |-> signed /\ w[1] = "-", body |-> IF signed THEN Tail(w) ELSE w]
  BY ReaderNames DEF Piece, Reader!TermOf
<1> HIDE DEF w
<1>4. c >= a => w # <<>> /\ w[1] = u[a]
  <2> SUFFICES ASSUME c >= a PROVE w # <<>> /\ w[1] = u[a]
    OBVIOUS
  <2>1. 1 \in 1 .. c - a + 1 /\ a + 1 - 1 = a
    BY <1>2
  <2>2. w[1] = u[a]
    BY <1>1, <2>1
  <2>3. Len(w) # 0
    BY <1>1, <1>2
  <2> QED BY <2>2, <2>3
<1>5. ~ (c >= a) => w = <<>>
  <2> SUFFICES ASSUME ~ (c >= a) PROVE w = <<>>
    OBVIOUS
  <2>1. Len(w) = 0
    BY <1>1, <1>2
  <2> QED BY <1>1, <2>1
<1>6. signed <=> c >= a /\ u[a] \in Signs
  BY <1>4, <1>5
<1>7. ASSUME c >= a PROVE Tail(w) = SubSeq(u, a + 1, c) /\ Tail(w) \in Seq(Tokens)
  <2> DEFINE v == SubSeq(u, a + 1, c)
  <2>1. a + 1 \in 1 .. Len(u) + 1 /\ c \in (a + 1) - 1 .. Len(u)
    BY <1>2, <1>7
  <2>2. /\ v \in Seq(Tokens) /\ Len(v) = c - (a + 1) + 1
        /\ \A k \in 1 .. c - (a + 1) + 1 : v[k] = u[(a + 1) + k - 1]
    BY <2>1, PieceIs
  <2>3. Tail(w) \in Seq(Tokens) /\ Len(Tail(w)) = Len(w) - 1 /\ \A k \in 1 .. Len(Tail(w)) : Tail(w)[k] = w[k + 1]
    BY <1>1, <1>4, <1>7, HeadTailProperties
  <2> HIDE DEF v
  <2>4. Len(Tail(w)) = c - a /\ Len(v) = c - a
    BY <1>1, <1>2, <2>2, <2>3
  <2>5. ASSUME NEW k \in 1 .. c - a PROVE Tail(w)[k] = v[k]
    <3>1. k + 1 \in 1 .. c - a + 1 /\ a + (k + 1) - 1 = (a + 1) + k - 1 /\ k \in 1 .. c - (a + 1) + 1
      BY <1>2
    <3>2. Tail(w)[k] = w[k + 1]
      BY <2>3, <2>4
    <3>3. w[k + 1] = u[a + (k + 1) - 1] /\ v[k] = u[(a + 1) + k - 1]
      BY <1>1, <2>2, <3>1
    <3> QED BY <3>1, <3>2, <3>3
  <2>6. Tail(w) = v
    BY <2>2, <2>3, <2>4, <2>5, SeqEqual
  <2> QED BY <2>3, <2>6 DEF v
<1>8. signed \in BOOLEAN
  OBVIOUS
<1>9. Piece(u, a, c).minus = (signed /\ w[1] = "-")
  BY <1>3
<1>10. Piece(u, a, c).body = IF signed THEN Tail(w) ELSE w
  BY <1>3
<1> HIDE DEF signed
<1>11. Piece(u, a, c) \in TermRecords
  <2>1. (signed /\ w[1] = "-") \in BOOLEAN
    OBVIOUS
  <2>2. (IF signed THEN Tail(w) ELSE w) \in Seq(Tokens)
    BY <1>1, <1>6, <1>7
  <2> QED BY <1>3, <2>1, <2>2 DEF TermRecords
<1>12. ASSUME ~ (c >= a /\ u[a] \in Signs)
       PROVE  ~ Piece(u, a, c).minus /\ Piece(u, a, c).body = SubSeq(u, a, c)
  <2>1. ~ signed
    BY <1>6, <1>12
  <2> QED BY <1>9, <1>10, <2>1 DEF w
<1>13. ASSUME c >= a, u[a] \in Signs
       PROVE  (Piece(u, a, c).minus <=> u[a] = "-") /\ Piece(u, a, c).body = SubSeq(u, a + 1, c)
  <2>1. signed
    BY <1>6, <1>13
  <2> QED BY <1>4, <1>7, <1>9, <1>10, <1>13, <2>1
<1> QED BY <1>11, <1>12, <1>13

\* Between brackets there is at least one term, or nothing.
LEMMA TermsAre ==
  ASSUME NEW u \in Seq(Tokens)
  PROVE  /\ Len(Reader!Terms(u)) \in Nat /\ DOMAIN Reader!Terms(u) = 1 .. Len(Reader!Terms(u))
         /\ Len(Reader!Terms(u)) = Cardinality(Starts(u)) + 1
         /\ \E X : Reader!Terms(u) \in Seq(X)
<1> DEFINE N == Cardinality(Starts(u)) + 1
           w == Reader!Terms(u)
<1>1. Cardinality(Starts(u)) \in Nat /\ N \in Nat
  BY StartsAre, FS_CardinalityType
<1>2. DOMAIN Reader!Cut(u, Starts(u)) = 1 .. N
  BY ReaderCount DEF Reader!Cut
<1> HIDE DEF N
<1>3. DOMAIN w = 1 .. N /\ w = [n \in 1 .. N |-> w[n]]
  BY <1>2, StartsAre DEF Reader!Terms
<1> HIDE DEF w
<1>4. w \in Seq({w[n] : n \in 1 .. N})
  <2> DEFINE R == {w[n] : n \in 1 .. N}
  <2>1. w \in [1 .. N -> R]
    BY <1>3
  <2> HIDE DEF R
  <2>2. Seq(R) = UNION {[1 .. n -> R] : n \in Nat}
    BY SeqDef
  <2>3. w \in Seq(R)
    BY <2>1, <2>2, <1>1
  <2> QED BY <2>3 DEF R
<1>5. Len(w) = N
  BY <1>1, <1>3, <1>4, LenProperties
<1> QED BY <1>1, <1>3, <1>4, <1>5 DEF w, N

\* The term from a to c, which is term n.
LEMMA TermIs ==
  ASSUME NEW u \in Seq(Tokens), NEW n \in Nat \ {0}, NEW a \in 1 .. Len(u) + 1, Opens(Starts(u), a, n),
         NEW c, TermEnds(u, a, c)
  PROVE  /\ n \in 1 .. Len(Reader!Terms(u)) /\ Reader!Terms(u)[n] = Piece(u, a, c)
         /\ c = Len(u) => n = Len(Reader!Terms(u))
         /\ c # Len(u) => Opens(Starts(u), c + 1, n + 1) /\ n # Len(Reader!Terms(u)) /\ c + 1 \in 1 .. Len(u) + 1
<1> DEFINE S == Starts(u)
           b == c + 1
<1>1. /\ Len(u) \in Nat /\ a \in Nat /\ a >= 1 /\ a <= Len(u) + 1 /\ c \in Int /\ c >= a - 1 /\ c <= Len(u)
      /\ S \in SUBSET Nat /\ IsFiniteSet(S) /\ \A k \in S : k >= 2 /\ k <= Len(u) /\ k \in Nat
  <2>1. Len(u) \in Nat
    OBVIOUS
  <2>2. c \in a - 1 .. Len(u)
    BY DEF TermEnds
  <2> QED BY <2>1, <2>2, StartsAre
<1>2. n = 1 => a = 1
  BY DEF Opens
<1>3. /\ c = Len(u) \/ (c + 1 \in S /\ c >= a)
      /\ \A k \in S : k > a => k > c
  BY DEF TermEnds
<1> HIDE DEF S
<1>4. \A j \in S : j \in Later(S, a, n) <=> j > a
  BY <1>1, <1>2 DEF Later
<1>5. b \in Nat
  BY <1>1
<1>6. ASSUME c = Len(u) PROVE b = Len(u) + 1 /\ Later(S, a, n) = {}
  <2>1. \A j \in S : ~ (j > a)
    BY <1>1, <1>3, <1>6
  <2>2. Later(S, a, n) \subseteq S
    BY DEF Later
  <2> QED BY <1>4, <2>1, <2>2, <1>6
<1>7. ASSUME c # Len(u) PROVE b \in Later(S, a, n) /\ \A j \in Later(S, a, n) : b <= j
  <2>1. b \in S /\ b > a
    BY <1>1, <1>3, <1>7
  <2>2. \A j \in S : j > a => b <= j
    BY <1>1, <1>3
  <2>3. Later(S, a, n) \subseteq S
    BY DEF Later
  <2> QED BY <1>4, <2>1, <2>2, <2>3
<1>8. Closes(S, a, n, b, Len(u))
  BY <1>6, <1>7 DEF Closes
<1> HIDE DEF b
<1>9. Opens(S, a, n)
  BY DEF S
<1>10. /\ n \in 1 .. Cardinality(S) + 1 /\ DOMAIN Reader!Cut(u, S) = 1 .. Cardinality(S) + 1
       /\ Reader!Cut(u, S)[n] = [from |-> a, to |-> b - 1]
       /\ Later(S, a, n) # {} => Opens(S, b, n + 1) /\ n # Cardinality(S) + 1
       /\ Later(S, a, n) = {} => n = Cardinality(S) + 1
  <2>1. n \in Nat \ {0} /\ S \in SUBSET Nat /\ IsFiniteSet(S) /\ Len(u) \in Nat /\ a \in Nat
    BY <1>1
  <2>2. /\ n \in 1 .. Cardinality(S) + 1 /\ DOMAIN Reader!Cut(u, S) = 1 .. Cardinality(S) + 1
        /\ Cardinality(S) \in Nat
        /\ Reader!Cut(u, S)[n] = [from |-> a, to |-> b - 1]
        /\ Later(S, a, n) # {} => Opens(S, b, n + 1) /\ n # Cardinality(S) + 1
        /\ Later(S, a, n) = {} => n = Cardinality(S) + 1
    BY ONLY <2>1, <1>5, <1>8, <1>9, CutIs
  <2> QED BY <2>2
<1>11. Len(Reader!Terms(u)) = Cardinality(S) + 1
  BY TermsAre DEF S
<1>12. b - 1 = c
  BY <1>1 DEF b
<1>13. Reader!Terms(u)[n] = Piece(u, a, c)
  <2>1. Reader!Cut(u, S)[n].from = a /\ Reader!Cut(u, S)[n].to = c
    BY <1>10, <1>12
  <2>2. Reader!Terms(u)[n] = Reader!TermOf(SubSeq(u, Reader!Cut(u, S)[n].from, Reader!Cut(u, S)[n].to))
    BY <1>10, StartsAre DEF Reader!Terms, S
  <2> QED BY <2>1, <2>2 DEF Piece
<1>14. c # Len(u) => b \in 1 .. Len(u) + 1
  BY <1>1 DEF b
<1> QED BY <1>6, <1>7, <1>10, <1>11, <1>13, <1>14 DEF b, S

\* A term ends somewhere.
LEMMA TermEndsSomewhere ==
  ASSUME NEW u \in Seq(Tokens), NEW a \in 1 .. Len(u) + 1
  PROVE  \E c : TermEnds(u, a, c)
<1> DEFINE S == Starts(u)
           L == {k \in S : k > a}
<1>1. /\ Len(u) \in Nat /\ a \in Nat /\ a >= 1 /\ a <= Len(u) + 1
      /\ S \in SUBSET Nat /\ \A k \in S : k >= 2 /\ k <= Len(u) /\ k \in Nat
  <2>1. Len(u) \in Nat
    OBVIOUS
  <2> QED BY <2>1, StartsAre
<1> HIDE DEF S
<1>2. CASE L = {}
  <2>1. Len(u) \in a - 1 .. Len(u)
    BY <1>1
  <2> QED BY <1>2, <2>1 DEF TermEnds, S
<1>3. CASE L # {}
  <2>1. L \in SUBSET Nat
    BY <1>1
  <2>2. PICK m \in L : \A j \in L : m <= j
    BY <1>3, <2>1, LeastNat
  <2>3. /\ m - 1 \in a - 1 .. Len(u) /\ (m - 1) + 1 = m /\ m \in S /\ m - 1 >= a
        /\ \A k \in S : k > a => k > m - 1
    BY <1>1, <2>2
  <2> QED BY <2>3 DEF TermEnds, S
<1> QED BY <1>2, <1>3

\* The terms read so far and the next one are the first terms of the whole.
LEMMA TermAppended ==
  ASSUME NEW u \in Seq(Tokens), NEW ts, NEW a, Sofar(u, ts, a), NEW c, TermEnds(u, a, c)
  PROVE  LET us == Append(ts, Piece(u, a, c))
         IN /\ Piece(u, a, c) \in TermRecords /\ ts \in Seq(TermRecords) /\ us \in Seq(TermRecords)
            /\ Len(us) <= Len(Reader!Terms(u))
            /\ \A k \in 1 .. Len(us) : us[k] = Reader!Terms(u)[k]
            /\ c = Len(u) => us = Reader!Terms(u)
            /\ c # Len(u) /\ LaxAddressOK(us) => Sofar(u, us, c + 1)
<1> DEFINE t  == Piece(u, a, c)
           us == Append(ts, t)
           w  == Reader!Terms(u)
           n  == Len(ts) + 1
<1>1. /\ ts \in Seq(TermRecords) /\ a \in 1 .. Len(u) + 1
      /\ Opens(Starts(u), a, n) /\ LaxAddressOK(ts)
      /\ \A k \in 1 .. Len(ts) : ts[k] = w[k]
  BY DEF Sofar
<1>2. c \in a - 1 .. Len(u)
  BY DEF TermEnds
<1>3. t \in TermRecords
  BY <1>1, <1>2, PieceOf
<1> HIDE DEF t
<1>4. /\ us \in Seq(TermRecords) /\ Len(us) = n /\ Len(ts) \in Nat /\ n \in Nat \ {0}
      /\ \A k \in 1 .. Len(ts) : us[k] = ts[k]
      /\ us[n] = t /\ DOMAIN us = 1 .. n
  BY <1>1, <1>3, AppendIs
<1> HIDE DEF n, us, w
<1>5. /\ n \in 1 .. Len(w) /\ w[n] = t /\ (c = Len(u) => n = Len(w))
      /\ c # Len(u) => Opens(Starts(u), c + 1, n + 1) /\ c + 1 \in 1 .. Len(u) + 1
  BY <1>1, <1>4, TermIs DEF t, w
<1>6. Len(w) \in Nat /\ DOMAIN w = 1 .. Len(w)
  BY TermsAre DEF w
<1>7. Len(us) <= Len(w)
  <2>1. \A m \in Nat : \A j \in 1 .. m : j <= m
    OBVIOUS
  <2>2. n <= Len(w)
    BY ONLY <1>5, <1>6, <2>1
  <2>3. Len(us) = n
    BY ONLY <1>4
  <2> QED BY ONLY <2>2, <2>3
<1>8. ASSUME NEW k \in 1 .. Len(us) PROVE us[k] = w[k]
  <2>1. k \in 1 .. Len(ts) \/ k = n
    BY <1>4 DEF n
  <2> QED BY <1>1, <1>4, <1>5, <2>1
<1>9. ASSUME c = Len(u) PROVE us = w
  <2>1. Len(us) = Len(w)
    BY <1>4, <1>5, <1>9
  <2>2. PICK X : w \in Seq(X)
    BY TermsAre DEF w
  <2> QED BY <1>4, <1>8, <2>1, <2>2, SeqEqual
<1>10. ASSUME c # Len(u), LaxAddressOK(us) PROVE Sofar(u, us, c + 1)
  BY <1>4, <1>5, <1>8, <1>10 DEF Sofar, w
<1> QED BY <1>1, <1>3, <1>4, <1>7, <1>8, <1>9, <1>10 DEF t, us, w

\* A term that does not fit spoils the address.
LEMMA TermSpoils ==
  ASSUME NEW u \in Seq(Tokens), NEW ts, NEW a, Sofar(u, ts, a),
         \A c \in a - 1 .. Len(u) : TermEnds(u, a, c) => ~ LaxAddressOK(Append(ts, Piece(u, a, c)))
  PROVE  ~ LaxAddressOK(Reader!Terms(u))
<1>1. a \in 1 .. Len(u) + 1
  BY DEF Sofar
<1>2. PICK c : TermEnds(u, a, c)
  BY <1>1, TermEndsSomewhere
<1>3. c \in a - 1 .. Len(u)
  BY <1>2 DEF TermEnds
<1> DEFINE us == Append(ts, Piece(u, a, c))
<1>4. /\ us \in Seq(TermRecords) /\ Len(us) <= Len(Reader!Terms(u))
      /\ \A k \in 1 .. Len(us) : us[k] = Reader!Terms(u)[k]
  BY <1>2, TermAppended
<1>5. ~ LaxAddressOK(us)
  BY <1>2, <1>3
<1>6. PICK X : Reader!Terms(u) \in Seq(X)
  BY TermsAre
<1> HIDE DEF us
<1> QED BY <1>4, <1>5, <1>6, AddressPrefix

\* What is no term spoils it.
LEMMA NotATerm ==
  ASSUME NEW ts \in Seq(TermRecords), NEW t \in TermRecords, ~ IsTerm(t)
  PROVE  ~ LaxAddressOK(Append(ts, t))
<1> DEFINE us == Append(ts, t)
<1>1. Len(ts) \in Nat /\ DOMAIN us = 1 .. Len(ts) + 1
  BY AppendIs
<1>2. us[Len(ts) + 1] = t
  BY AppendIs
<1>3. Len(ts) + 1 \in DOMAIN us
  BY <1>1
<1> HIDE DEF us
<1>4. ~ LaxAddressOK(us)
  BY <1>2, <1>3 DEF LaxAddressOK
<1> QED BY <1>4 DEF us

\* Tokens that are no term wherever they end spoil the address.
LEMMA NoTermSpoils ==
  ASSUME NEW u \in Seq(Tokens), NEW ts, NEW a, Sofar(u, ts, a),
         \A c \in a - 1 .. Len(u) : TermEnds(u, a, c) => ~ IsTerm(Piece(u, a, c))
  PROVE  ~ LaxAddressOK(Reader!Terms(u))
<1>1. ASSUME NEW c \in a - 1 .. Len(u), TermEnds(u, a, c)
      PROVE  ~ LaxAddressOK(Append(ts, Piece(u, a, c)))
  <2>1. Piece(u, a, c) \in TermRecords /\ ts \in Seq(TermRecords)
    BY <1>1, TermAppended
  <2>2. ~ IsTerm(Piece(u, a, c))
    BY <1>1
  <2> QED BY <2>1, <2>2, NotATerm
<1> QED BY <1>1, TermSpoils

\* The terms before a make the address m.
Before(u, a, m) == \E ts : Sofar(u, ts, a) /\ m = LaxAddressOf(ts)

\* The term from a has been read to j, and nothing but a sign can follow it.
Whole(u, a, j) ==
  /\ j \in a + 1 .. Len(u) + 1 /\ IsTerm(Piece(u, a, j - 1)) /\ u[j - 1] # "*"
  /\ \A k \in a + 1 .. j - 1 : k \notin Starts(u)
  /\ j <= Len(u) /\ u[j] \notin Signs => \A c \in j .. Len(u) : ~ IsTerm(Piece(u, a, c))

\* Behind a term the address is complete, or another term follows, or it is none.
AfterTerm(u, j, m) ==
  IF j = Len(u) + 1 THEN LaxAddressOK(Reader!Terms(u)) /\ m = LaxAddressOf(Reader!Terms(u))
  ELSE IF u[j] \in Signs THEN Before(u, j, m)
  ELSE ~ LaxAddressOK(Reader!Terms(u))

\* Where the tokens read are a whole term, the term ends there or is none.
LEMMA WholeEnds ==
  ASSUME NEW u \in Seq(Tokens), NEW a \in 1 .. Len(u) + 1, NEW j, Whole(u, a, j), NEW c, TermEnds(u, a, c)
  PROVE  /\ c \in a - 1 .. Len(u)
         /\ c # j - 1 => ~ IsTerm(Piece(u, a, c))
         /\ j = Len(u) + 1 => c = j - 1
         /\ j # Len(u) + 1 /\ u[j] \in Signs => c = j - 1 /\ c # Len(u) /\ c + 1 = j
         /\ j # Len(u) + 1 /\ u[j] \notin Signs => c # j - 1
<1> DEFINE S == Starts(u)
<1>1. /\ Len(u) \in Nat /\ a \in Nat /\ a >= 1 /\ a <= Len(u) + 1
      /\ c \in Int /\ c >= a - 1 /\ c <= Len(u) /\ j \in Nat /\ j >= a + 1 /\ j <= Len(u) + 1
  <2>1. Len(u) \in Nat
    OBVIOUS
  <2>2. c \in a - 1 .. Len(u) /\ j \in a + 1 .. Len(u) + 1
    BY DEF TermEnds, Whole
  <2> QED BY <2>1, <2>2
<1>2. /\ c = Len(u) \/ (c + 1 \in S /\ c >= a)
      /\ \A k \in S : k > a => k > c
  BY DEF TermEnds
<1>3. /\ \A k \in a + 1 .. j - 1 : k \notin S
      /\ j <= Len(u) /\ u[j] \notin Signs => \A d \in j .. Len(u) : ~ IsTerm(Piece(u, a, d))
  BY DEF Whole
<1>4. \A k \in 2 .. Len(u) : k \in S <=> u[k] \in Signs /\ u[k - 1] # "*"
  BY DEF Starts
<1>5. \A k \in S : u[k] \in Signs /\ k <= Len(u)
  BY DEF Starts
<1>6. j <= Len(u) /\ u[j] \in Signs => j \in S
  <2>1. j <= Len(u) => j \in 2 .. Len(u)
    BY <1>1
  <2>2. u[j - 1] # "*"
    BY DEF Whole
  <2> QED BY <1>4, <2>1, <2>2
<1> HIDE DEF S
<1>7. c >= j - 1
  <2>1. CASE c = Len(u)
    BY <1>1, <2>1
  <2>2. CASE c + 1 \in S /\ c >= a
    <3>1. ~ (c + 1 \in a + 1 .. j - 1)
      BY <1>3, <2>2
    <3> QED BY <1>1, <2>2, <3>1
  <2> QED BY <1>2, <2>1, <2>2
<1>8. c # j - 1 => c >= j /\ j <= Len(u) /\ c \in j .. Len(u)
  BY <1>1, <1>7
<1>9. c # j - 1 => u[j] \notin Signs
  <2> SUFFICES ASSUME c # j - 1, u[j] \in Signs PROVE FALSE
    OBVIOUS
  <2>1. j \in S
    BY <1>6, <1>8
  <2>2. j > c
    BY <1>1, <1>2, <2>1
  <2> QED BY <1>1, <1>8, <2>2
<1>10. c # j - 1 => ~ IsTerm(Piece(u, a, c))
  BY <1>3, <1>8, <1>9
<1>11. c = j - 1 /\ j # Len(u) + 1 => u[j] \in Signs /\ c # Len(u) /\ c + 1 = j
  <2> SUFFICES ASSUME c = j - 1, j # Len(u) + 1 PROVE u[j] \in Signs /\ c # Len(u) /\ c + 1 = j
    OBVIOUS
  <2>1. c # Len(u) /\ c + 1 = j
    BY <1>1
  <2>2. j \in S
    BY <1>2, <2>1
  <2> QED BY <1>5, <2>1, <2>2
<1>12. j = Len(u) + 1 => c = j - 1
  BY <1>1, <1>8
<1>13. c \in a - 1 .. Len(u)
  BY DEF TermEnds
<1> QED BY <1>9, <1>10, <1>11, <1>12, <1>13

\* The address read so far is the one of the terms read so far.
LEMMA TermDone ==
  ASSUME NEW u \in Seq(Tokens), NEW ts, NEW a, Sofar(u, ts, a), NEW j, Whole(u, a, j), NEW m,
         LaxAddressOK(Append(ts, Piece(u, a, j - 1))),
         m = LaxAddressOf(Append(ts, Piece(u, a, j - 1)))
  PROVE  AfterTerm(u, j, m)
<1>1. a \in 1 .. Len(u) + 1
  BY DEF Sofar
<1>2. PICK c : TermEnds(u, a, c)
  BY <1>1, TermEndsSomewhere
<1> DEFINE us == Append(ts, Piece(u, a, c))
<1>3. CASE j = Len(u) + 1
  <2>1. c = j - 1
    BY <1>1, <1>2, <1>3, WholeEnds
  <2>2. Len(u) \in Nat
    OBVIOUS
  <2>3. c = Len(u)
    BY <1>3, <2>1, <2>2
  <2>4. us = Reader!Terms(u)
    BY <1>2, <2>3, TermAppended
  <2>5. LaxAddressOK(us) /\ m = LaxAddressOf(us)
    BY <2>1
  <2> HIDE DEF us
  <2>6. LaxAddressOK(Reader!Terms(u)) /\ m = LaxAddressOf(Reader!Terms(u))
    BY <2>4, <2>5
  <2> QED BY <1>3, <2>6 DEF AfterTerm
<1>4. CASE j # Len(u) + 1 /\ u[j] \in Signs
  <2>1. c = j - 1 /\ c # Len(u) /\ c + 1 = j
    BY <1>1, <1>2, <1>4, WholeEnds
  <2>2. LaxAddressOK(us) /\ m = LaxAddressOf(us)
    BY <2>1
  <2>3. Sofar(u, us, c + 1)
    BY <1>2, <2>1, <2>2, TermAppended
  <2> HIDE DEF us
  <2>4. Sofar(u, us, j)
    BY <2>1, <2>3
  <2>5. Before(u, j, m)
    BY <2>2, <2>4 DEF Before
  <2> QED BY <1>4, <2>5 DEF AfterTerm
<1>5. CASE j # Len(u) + 1 /\ u[j] \notin Signs
  <2>1. \A d \in a - 1 .. Len(u) : TermEnds(u, a, d) => ~ IsTerm(Piece(u, a, d))
    BY <1>1, <1>5, WholeEnds
  <2>2. ~ LaxAddressOK(Reader!Terms(u))
    BY <2>1, NoTermSpoils
  <2> QED BY <1>5, <2>2 DEF AfterTerm
<1> QED BY <1>3, <1>4, <1>5

\* The parser refuses a term only where the address is none.
LEMMA TermRefused ==
  ASSUME NEW u \in Seq(Tokens), NEW ts, NEW a, Sofar(u, ts, a), NEW j, Whole(u, a, j),
         ~ LaxAddressOK(Append(ts, Piece(u, a, j - 1)))
  PROVE  ~ LaxAddressOK(Reader!Terms(u))
<1>1. a \in 1 .. Len(u) + 1
  BY DEF Sofar
<1>2. ASSUME NEW c \in a - 1 .. Len(u), TermEnds(u, a, c)
      PROVE  ~ LaxAddressOK(Append(ts, Piece(u, a, c)))
  <2>1. CASE c = j - 1
    BY <2>1
  <2>2. CASE c # j - 1
    <3>1. ~ IsTerm(Piece(u, a, c))
      BY <1>1, <1>2, <2>2, WholeEnds
    <3>2. Piece(u, a, c) \in TermRecords /\ ts \in Seq(TermRecords)
      BY <1>2, TermAppended
    <3> QED BY <3>1, <3>2, NotATerm
  <2> QED BY <2>1, <2>2
<1> QED BY <1>2, TermSpoils

\* Where the term that starts at a goes on behind its sign.
Unsigned(u, a) == IF u[a] \in Signs THEN a + 1 ELSE a

\* Tokens of different kinds are different.
LEMMA TokenKinds ==
  /\ Registers \cap Literals = {} /\ Idents \cap Literals = {} /\ Idents \cap Signs = {} /\ Literals \cap Signs = {}
  /\ "*" \notin Idents \cup Literals \cup Signs /\ "]" \notin Idents \cup Literals \cup Signs
  /\ "[" \notin Idents \cup Literals \cup Signs
  /\ Registers \subseteq Idents
BY DEF Registers, Idents, Literals, Signs

\* The tokens of a term behind its sign.
LEMMA PieceBody ==
  ASSUME NEW u \in Seq(Tokens), NEW a \in 1 .. Len(u), NEW c \in a .. Len(u)
  PROVE  LET b == Unsigned(u, a)
             t == Piece(u, a, c)
         IN /\ t \in TermRecords /\ t.body \in Seq(Tokens) /\ (t.minus <=> u[a] = "-")
            /\ Len(t.body) = c - b + 1 /\ b \in {a, a + 1} /\ (b = a + 1 => u[a] \in Signs)
            /\ \A k \in 1 .. c - b + 1 : t.body[k] = u[b + k - 1]
<1> DEFINE b == Unsigned(u, a)
           t == Piece(u, a, c)
<1>1. Len(u) \in Nat /\ a \in Nat /\ c \in Nat /\ a >= 1 /\ a <= c /\ c <= Len(u)
  <2>1. Len(u) \in Nat
    OBVIOUS
  <2> QED BY <2>1
<1>2. a \in 1 .. Len(u) + 1 /\ c \in a - 1 .. Len(u)
  BY <1>1
<1>3. /\ t \in TermRecords
      /\ ~ (c >= a /\ u[a] \in Signs) => ~ t.minus /\ t.body = SubSeq(u, a, c)
      /\ c >= a /\ u[a] \in Signs => (t.minus <=> u[a] = "-") /\ t.body = SubSeq(u, a + 1, c)
  BY <1>2, PieceOf
<1> HIDE DEF t
<1>4. CASE u[a] \in Signs
  <2>1. b = a + 1 /\ b \in 1 .. Len(u) + 1 /\ c \in b - 1 .. Len(u)
    BY <1>1, <1>4 DEF Unsigned
  <2>2. t.body = SubSeq(u, b, c) /\ (t.minus <=> u[a] = "-")
    BY <1>1, <1>3, <1>4, <2>1
  <2> HIDE DEF b
  <2>3. /\ SubSeq(u, b, c) \in Seq(Tokens) /\ Len(SubSeq(u, b, c)) = c - b + 1
        /\ \A k \in 1 .. c - b + 1 : SubSeq(u, b, c)[k] = u[b + k - 1]
    BY <2>1, PieceIs
  <2> QED BY <1>3, <1>4, <2>1, <2>2, <2>3 DEF b, t
<1>5. CASE u[a] \notin Signs
  <2>1. b = a /\ b \in 1 .. Len(u) + 1 /\ c \in b - 1 .. Len(u)
    BY <1>1, <1>5 DEF Unsigned
  <2>2. t.body = SubSeq(u, b, c) /\ ~ t.minus /\ u[a] # "-"
    <3>1. u[a] # "-"
      BY <1>5 DEF Signs
    <3> QED BY <1>1, <1>3, <1>5, <2>1, <3>1
  <2> HIDE DEF b
  <2>3. /\ SubSeq(u, b, c) \in Seq(Tokens) /\ Len(SubSeq(u, b, c)) = c - b + 1
        /\ \A k \in 1 .. c - b + 1 : SubSeq(u, b, c)[k] = u[b + k - 1]
    BY <2>1, PieceIs
  <2>4. b # a + 1
    BY <1>1, <2>1
  <2> QED BY <1>3, <2>1, <2>2, <2>3, <2>4 DEF b, t
<1> QED BY <1>4, <1>5

\* What a term looks like behind its sign.
LEMMA TermShape ==
  ASSUME NEW t \in TermRecords
  PROVE  LET n == Len(t.body)
         IN /\ IsTerm(t) => n >= 1 /\ t.body[1] \in Idents \cup Literals
            /\ IsTerm(t) /\ n > 1 => ~ t.minus /\ t.body[2] = "*" /\ (Reader!ScaleLast(t) \/ Reader!ScaleHead(t))
            /\ IsTerm(t) /\ t.minus => n = 1 /\ t.body[1] \in Literals
            /\ n = 1 => /\ Reader!IsPlain(t) <=> ~ t.minus /\ t.body[1] \in Registers
                        /\ Reader!IsSymbol(t) <=> ~ t.minus /\ t.body[1] \in Idents \ Registers
                        /\ Reader!IsDisp(t) <=> t.body[1] \in Literals
            /\ Reader!ScaleLast(t) <=> /\ ~ t.minus /\ n > 2 /\ t.body[1] \in Registers /\ t.body[2] = "*"
                                       /\ Reader!IsInt(SubSeq(t.body, 3, n))
            /\ Reader!ScaleHead(t) <=> ~ t.minus /\ n = 3 /\ t.body[1] \in Literals /\ t.body[2] = "*" /\ t.body[3] \in Registers
            /\ n \in Nat
<1> DEFINE n == Len(t.body)
<1>1. n \in Nat /\ t.minus \in BOOLEAN
  <2>1. t.body \in Seq(Tokens)
    BY DEF TermRecords
  <2> QED BY <2>1 DEF TermRecords
<1>2. /\ Reader!IsPlain(t) <=> ~ t.minus /\ n = 1 /\ t.body[1] \in Registers
      /\ Reader!IsSymbol(t) <=> ~ t.minus /\ n = 1 /\ t.body[1] \in Idents \ Registers
      /\ Reader!IsDisp(t) <=> n = 1 /\ t.body[1] \in Literals
      /\ Reader!ScaleLast(t) <=> /\ ~ t.minus /\ n > 2 /\ t.body[1] \in Registers /\ t.body[2] = "*"
                                 /\ Reader!IsInt(SubSeq(t.body, 3, n))
      /\ Reader!ScaleHead(t) <=> ~ t.minus /\ n = 3 /\ t.body[1] \in Literals /\ t.body[2] = "*" /\ t.body[3] \in Registers
      /\ Reader!IsScaled(t) <=> Reader!ScaleLast(t) \/ Reader!ScaleHead(t)
  BY ReaderNames DEF Reader!IsPlain, Reader!IsSymbol, Reader!IsDisp, Reader!ScaleLast, Reader!ScaleHead, Reader!IsScaled
<1> HIDE DEF n
<1>3. IsTerm(t) <=> Reader!IsPlain(t) \/ Reader!IsScaled(t) \/ Reader!IsSymbol(t) \/ Reader!IsDisp(t)
  BY DEF IsTerm
<1>4. \A m \in Nat : (m = 1 => m >= 1 /\ ~ (m > 1)) /\ (m > 2 => m >= 1 /\ m # 1) /\ (m = 3 => m >= 1 /\ m # 1)
  OBVIOUS
<1>5. Registers \subseteq Idents
  BY TokenKinds
<1>6. IsTerm(t) => n >= 1 /\ t.body[1] \in Idents \cup Literals
  BY <1>1, <1>2, <1>3, <1>4, <1>5, Zenon
<1>7. IsTerm(t) /\ n > 1 => ~ t.minus /\ t.body[2] = "*" /\ (Reader!ScaleLast(t) \/ Reader!ScaleHead(t))
  BY <1>1, <1>2, <1>3, <1>4, Zenon
<1>8. IsTerm(t) /\ t.minus => n = 1 /\ t.body[1] \in Literals
  BY <1>1, <1>2, <1>3, <1>4, Zenon
<1> QED BY <1>1, <1>2, <1>6, <1>7, <1>8 DEF n

\* A term of one token.
LEMMA WholeOne ==
  ASSUME NEW u \in Seq(Tokens), NEW a \in 1 .. Len(u), NEW b, b = Unsigned(u, a), b <= Len(u),
         u[b] \in Idents \cup Literals, u[a] = "-" => u[b] \in Literals,
         u[b] \in Registers \cup Literals /\ b + 1 <= Len(u) => u[b + 1] # "*"
  PROVE  /\ Whole(u, a, b + 1) /\ b \in a .. Len(u) /\ Piece(u, a, b) \in TermRecords
         /\ Reader!IsPlain(Piece(u, a, b)) <=> u[b] \in Registers
         /\ Reader!IsSymbol(Piece(u, a, b)) <=> u[b] \in Idents \ Registers
         /\ Reader!IsDisp(Piece(u, a, b)) <=> u[b] \in Literals
         /\ Piece(u, a, b).body[1] = u[b] /\ (Piece(u, a, b).minus <=> u[a] = "-")
<1> DEFINE t == Piece(u, a, b)
<1>1. Len(u) \in Nat /\ a \in Nat /\ a >= 1 /\ a <= Len(u)
  <2>1. Len(u) \in Nat
    OBVIOUS
  <2> QED BY <2>1
<1>2. b \in {a, a + 1} /\ (b = a + 1 => u[a] \in Signs) /\ b \in Nat /\ b >= a /\ b \in a .. Len(u)
  BY <1>1 DEF Unsigned
<1>3. /\ t \in TermRecords /\ (t.minus <=> u[a] = "-") /\ Len(t.body) = b - b + 1
      /\ \A k \in 1 .. b - b + 1 : t.body[k] = u[b + k - 1]
  <2>1. b \in a .. Len(u)
    BY <1>2
  <2>2. /\ t \in TermRecords /\ (t.minus <=> u[a] = "-") /\ Len(t.body) = b - Unsigned(u, a) + 1
        /\ \A k \in 1 .. b - Unsigned(u, a) + 1 : t.body[k] = u[Unsigned(u, a) + k - 1]
    BY <2>1, PieceBody
  <2> QED BY <2>2
<1> HIDE DEF t
<1>4. Len(t.body) = 1 /\ t.body[1] = u[b]
  <2>0. b \in Nat
    BY <1>2
  <2>1. b - b + 1 = 1 /\ 1 \in 1 .. b - b + 1 /\ b + 1 - 1 = b
    BY ONLY <2>0
  <2>2. t.body[1] = u[b + 1 - 1]
    BY <1>3, <2>1
  <2> QED BY <1>3, <2>1, <2>2
<1>5. /\ Reader!IsPlain(t) <=> ~ t.minus /\ t.body[1] \in Registers
      /\ Reader!IsSymbol(t) <=> ~ t.minus /\ t.body[1] \in Idents \ Registers
      /\ Reader!IsDisp(t) <=> t.body[1] \in Literals
  BY <1>3, <1>4, TermShape
<1>6. /\ Reader!IsPlain(t) <=> u[b] \in Registers
      /\ Reader!IsSymbol(t) <=> u[b] \in Idents \ Registers
      /\ Reader!IsDisp(t) <=> u[b] \in Literals
  BY <1>3, <1>4, <1>5, TokenKinds
<1>7. IsTerm(t)
  BY <1>6 DEF IsTerm
<1>8. u[b] # "*" /\ u[b] \notin Signs
  BY TokenKinds
<1>9. \A k \in a + 1 .. b : k \notin Starts(u)
  <2>1. \A k \in a + 1 .. b : k = b
    BY <1>1, <1>2
  <2>2. b \notin Starts(u)
    BY <1>8 DEF Starts
  <2> QED BY <2>1, <2>2
<1>10. ASSUME NEW c \in b + 1 .. Len(u), u[b + 1] \notin Signs PROVE ~ IsTerm(Piece(u, a, c))
  <2> DEFINE w == Piece(u, a, c)
  <2>1. c \in a .. Len(u) /\ c - b + 1 \in Nat /\ c - b + 1 > 1 /\ b + 1 <= Len(u)
    BY <1>1, <1>2, <1>10
  <2>2. /\ w \in TermRecords /\ Len(w.body) = c - b + 1
        /\ \A k \in 1 .. c - b + 1 : w.body[k] = u[b + k - 1]
    BY <2>1, PieceBody
  <2> HIDE DEF w
  <2>3. w.body[1] = u[b] /\ w.body[2] = u[b + 1]
    <3>1. 1 \in 1 .. c - b + 1 /\ 2 \in 1 .. c - b + 1 /\ b + 1 - 1 = b /\ b + 2 - 1 = b + 1
      BY <1>2, <2>1
    <3>2. w.body[1] = u[b + 1 - 1] /\ w.body[2] = u[b + 2 - 1]
      BY <2>2, <3>1
    <3> QED BY <3>1, <3>2
  <2>4. IsTerm(w) => w.body[2] = "*" /\ (Reader!ScaleLast(w) \/ Reader!ScaleHead(w))
    BY <2>1, <2>2, TermShape
  <2>5. Reader!ScaleLast(w) \/ Reader!ScaleHead(w) => w.body[1] \in Registers \cup Literals
    BY <2>2, TermShape
  <2>6. ~ IsTerm(w)
    BY <2>1, <2>3, <2>4, <2>5
  <2> QED BY <2>6 DEF w
<1>11. b + 1 \in a + 1 .. Len(u) + 1 /\ (b + 1) - 1 = b
  BY <1>1, <1>2
<1>12. Whole(u, a, b + 1)
  BY <1>7, <1>8, <1>9, <1>10, <1>11 DEF Whole, t
<1> QED BY <1>2, <1>3, <1>4, <1>6, <1>12 DEF t

\* An integer with or without sign starts at p, its digits at q.
SignedAt(s, p, q, minus) ==
  \/ q = p /\ ~ minus /\ (p <= Len(s) => s[p] \notin Signs)
  \/ q = p + 1 /\ p <= Len(s) /\ s[p] \in Signs /\ (minus <=> s[p] = "-")

\* An integer with its sign, as it stands between two places.
LEMMA SignedIs ==
  ASSUME NEW s \in Seq(Tokens), NEW p \in Nat \ {0}, NEW q, NEW minus \in BOOLEAN, SignedAt(s, p, q, minus),
         NEW c \in p - 1 .. Len(s)
  PROVE  /\ Reader!IsInt(SubSeq(s, p, c)) <=> c = q /\ s[q] \in Literals
         /\ Reader!IsInt(SubSeq(s, p, c)) => Reader!IntOf(SubSeq(s, p, c)) = Signed(minus, Value[s[q]])
<1> DEFINE v == SubSeq(s, p, c)
<1>1. Len(s) \in Nat /\ p \in Nat /\ p >= 1 /\ c \in Int /\ c >= p - 1 /\ c <= Len(s)
  <2>1. Len(s) \in Nat
    OBVIOUS
  <2> QED BY <2>1
<1>2. p \in 1 .. Len(s) + 1
  BY <1>1
<1>3. /\ v \in Seq(Tokens) /\ Len(v) = c - p + 1
      /\ \A k \in 1 .. c - p + 1 : v[k] = s[p + k - 1]
  BY <1>2, PieceIs
<1> HIDE DEF v
<1>4. Reader!IsInt(v) <=> (Len(v) = 1 \/ Len(v) = 2) /\ v[Len(v)] \in Literals /\ (Len(v) = 2 => v[1] \in Signs)
  <2>1. Len(v) \in 1 .. 2 <=> Len(v) = 1 \/ Len(v) = 2
    BY <1>1, <1>3
  <2> QED BY <2>1, ReaderNames DEF Reader!IsInt
<1>5. /\ Len(v) = 1 => c = p /\ v[1] = s[p]
      /\ Len(v) = 2 => c = p + 1 /\ v[1] = s[p] /\ v[2] = s[p + 1] /\ p <= Len(s)
  <2>1. ASSUME Len(v) = 1 PROVE c = p /\ v[1] = s[p]
    <3>0. c = p
      <4>1. Len(v) = c - p + 1
        BY ONLY <1>3
      <4>2. \A n : n = c - p + 1 /\ n = 1 => c = p
        BY ONLY <1>1
      <4> QED BY ONLY <2>1, <4>1, <4>2, Zenon
    <3>1. c = p /\ 1 \in 1 .. c - p + 1 /\ p + 1 - 1 = p
      BY ONLY <3>0, <1>1
    <3> QED BY <1>3, <3>1
  <2>2. ASSUME Len(v) = 2 PROVE c = p + 1 /\ v[1] = s[p] /\ v[2] = s[p + 1] /\ p <= Len(s)
    <3>0. c = p + 1
      <4>1. Len(v) = c - p + 1
        BY ONLY <1>3
      <4>2. \A n : n = c - p + 1 /\ n = 2 => c = p + 1
        BY ONLY <1>1
      <4> QED BY ONLY <2>2, <4>1, <4>2, Zenon
    <3>1. c = p + 1 /\ 1 \in 1 .. c - p + 1 /\ p + 1 - 1 = p /\ 2 \in 1 .. c - p + 1 /\ p + 2 - 1 = p + 1
      BY ONLY <3>0, <1>1
    <3>2. v[1] = s[p + 1 - 1] /\ v[2] = s[p + 2 - 1]
      BY <1>3, <3>1
    <3>3. p <= Len(s)
      BY <1>1, <3>1
    <3> QED BY <3>1, <3>2, <3>3
  <2> QED BY <2>1, <2>2
<1>6. c = p => Len(v) = 1
  BY <1>1, <1>3
<1>7. c = p + 1 => Len(v) = 2
  BY <1>1, <1>3
<1>8. Signs \cap Literals = {} /\ "-" \in Signs
  BY DEF Signs, Literals
<1>9. CASE q = p /\ ~ minus /\ (p <= Len(s) => s[p] \notin Signs)
  <2>1. Reader!IsInt(v) => Len(v) = 1 /\ c = q /\ s[q] \in Literals /\ v[1] = s[q]
    <3>1. Len(v) = 2 => v[1] \notin Signs
      BY <1>5, <1>9
    <3>2. Reader!IsInt(v) => Len(v) = 1
      BY <1>4, <3>1
    <3> QED BY <1>4, <1>5, <1>9, <3>2
  <2>2. c = q /\ s[q] \in Literals => Reader!IsInt(v)
    <3> SUFFICES ASSUME c = q, s[q] \in Literals PROVE Reader!IsInt(v)
      OBVIOUS
    <3>1. Len(v) = 1 /\ Len(v) # 2
      BY <1>6, <1>9
    <3> QED BY <1>4, <1>5, <1>9, <3>1
  <2>3. ASSUME Reader!IsInt(v) PROVE Reader!IntOf(v) = Signed(minus, Value[s[q]])
    <3>1. v[1] # "-" /\ Len(v) = 1 /\ v[1] = s[q] /\ s[q] \in Literals
      BY <1>8, <2>1, <2>3
    <3>2. Reader!IntOf(v) = Value[s[q]]
      BY <3>1, ReaderNames DEF Reader!IntOf
    <3>3. Value[s[q]] \in 0 .. Word - 1 /\ Word \in Nat
      BY <3>1, ValuesAre
    <3>5. \A w \in Nat : \A x \in 0 .. w - 1 : x % w = x
      OBVIOUS
    <3>4. Value[s[q]] % Word = Value[s[q]]
      BY ONLY <3>3, <3>5
    <3> DEFINE x == Value[s[q]]
    <3>6. x % Word = x /\ Reader!IntOf(v) = x /\ ~ minus
      BY <1>9, <3>2, <3>4
    <3> HIDE DEF x
    <3>7. Signed(minus, x) = x
      BY ONLY <3>6 DEF Signed
    <3> QED BY ONLY <3>6, <3>7, Zenon DEF x
  <2> QED BY <2>1, <2>2, <2>3 DEF v
<1>10. CASE q = p + 1 /\ p <= Len(s) /\ s[p] \in Signs /\ (minus <=> s[p] = "-")
  <2>1. Reader!IsInt(v) => Len(v) = 2 /\ c = q /\ s[q] \in Literals /\ v[2] = s[q] /\ v[1] = s[p]
    <3>1. Len(v) = 1 => v[1] \notin Literals
      BY <1>5, <1>8, <1>10
    <3>2. Reader!IsInt(v) => Len(v) = 2
      BY <1>4, <3>1
    <3> QED BY <1>4, <1>5, <1>10, <3>2
  <2>2. c = q /\ s[q] \in Literals => Reader!IsInt(v)
    <3> SUFFICES ASSUME c = q, s[q] \in Literals PROVE Reader!IsInt(v)
      OBVIOUS
    <3>1. Len(v) = 2
      BY <1>7, <1>10
    <3> QED BY <1>4, <1>5, <1>10, <3>1
  <2>3. ASSUME Reader!IsInt(v) PROVE Reader!IntOf(v) = Signed(minus, Value[s[q]])
    <3>1. (v[1] = "-" <=> minus) /\ Len(v) = 2 /\ v[2] = s[q] /\ s[q] \in Literals
      BY <1>10, <2>1, <2>3
    <3>2. Reader!IntOf(v) = IF minus THEN -Value[s[q]] % Word ELSE Value[s[q]]
      BY <3>1, ReaderNames DEF Reader!IntOf
    <3>3. Value[s[q]] \in 0 .. Word - 1 /\ Word \in Nat
      BY <3>1, ValuesAre
    <3>5. \A w \in Nat : \A x \in 0 .. w - 1 : x % w = x
      OBVIOUS
    <3>4. Value[s[q]] % Word = Value[s[q]]
      BY ONLY <3>3, <3>5
    <3> DEFINE x == Value[s[q]]
    <3>6. x % Word = x
      BY <3>4
    <3>8. Reader!IntOf(v) = IF minus THEN -x % Word ELSE x
      BY ONLY <3>2
    <3> HIDE DEF x
    <3>7. Signed(minus, x) = IF minus THEN -x % Word ELSE x
      BY ONLY <3>6 DEF Signed
    <3>9. Reader!IntOf(v) = Signed(minus, x)
      BY ONLY <3>7, <3>8, Zenon
    <3> QED BY <3>9 DEF x
  <2> QED BY <2>1, <2>2, <2>3 DEF v
<1> QED BY <1>9, <1>10 DEF SignedAt

\* A scale within its term.
LEMMA PieceTail ==
  ASSUME NEW u \in Seq(Tokens), NEW a \in 1 .. Len(u), NEW b, b = Unsigned(u, a),
         NEW c \in a .. Len(u), c >= b + 2
  PROVE  LET w == Piece(u, a, c)
         IN SubSeq(w.body, 3, Len(w.body)) = SubSeq(u, b + 2, c)
<1> DEFINE w == Piece(u, a, c)
           p == b + 2
           x == SubSeq(w.body, 3, Len(w.body))
           y == SubSeq(u, p, c)
           n == Len(w.body)
<1>0. Len(u) \in Nat /\ a \in Nat /\ a >= 1 /\ a <= Len(u)
  <2>1. Len(u) \in Nat
    OBVIOUS
  <2> QED BY <2>1
<1>1. b \in {a, a + 1} /\ b \in Nat /\ b >= a /\ b >= 1 /\ c \in Nat /\ c >= b + 2 /\ c <= Len(u)
  BY <1>0 DEF Unsigned
<1>2. /\ Len(w.body) = c - Unsigned(u, a) + 1 /\ w.body \in Seq(Tokens)
      /\ \A k \in 1 .. c - Unsigned(u, a) + 1 : w.body[k] = u[Unsigned(u, a) + k - 1]
  BY PieceBody
<1> HIDE DEF w
<1>3. n = c - b + 1 /\ w.body \in Seq(Tokens) /\ \A k \in 1 .. c - b + 1 : w.body[k] = u[b + k - 1]
  BY <1>2
<1>4. /\ x \in Seq(Tokens) /\ Len(x) = n - 3 + 1 /\ \A k \in 1 .. n - 3 + 1 : x[k] = w.body[3 + k - 1]
  <2>1. 3 \in 1 .. n + 1 /\ n \in 3 - 1 .. n
    <3> HIDE DEF n
    <3>1. n = c - b + 1
      BY <1>3
    <3> QED BY ONLY <1>1, <3>1
  <2> DEFINE body == w.body
  <2>2. body \in Seq(Tokens) /\ n = Len(body)
    BY <1>3
  <2> HIDE DEF body, n
  <2>3. LET y1 == SubSeq(body, 3, n)
        IN /\ y1 \in Seq(Tokens) /\ Len(y1) = n - 3 + 1
           /\ \A k \in 1 .. n - 3 + 1 : y1[k] = body[3 + k - 1]
    BY <2>1, <2>2, PieceIs
  <2> QED BY <2>3 DEF body, n
<1>5. /\ y \in Seq(Tokens) /\ Len(y) = c - p + 1 /\ \A k \in 1 .. c - p + 1 : y[k] = u[p + k - 1]
  <2>1. p \in 1 .. Len(u) + 1 /\ c \in p - 1 .. Len(u)
    BY <1>0, <1>1
  <2> HIDE DEF p
  <2> QED BY <2>1, PieceIs
<1> HIDE DEF n, x, y
<1>6. p = b + 2
  OBVIOUS
<1> HIDE DEF p
<1>7. n - 3 + 1 = c - p + 1
  BY ONLY <1>1, <1>3, <1>6
<1>8. Len(x) = Len(y)
  BY <1>4, <1>5, <1>7
<1>9. ASSUME NEW k \in 1 .. Len(y) PROVE x[k] = y[k]
  <2>1. k \in 1 .. c - p + 1
    BY ONLY <1>5, <1>9
  <2>2. /\ k \in 1 .. n - 3 + 1 /\ 3 + k - 1 \in 1 .. c - b + 1 /\ b + (3 + k - 1) - 1 = p + k - 1
    BY ONLY <1>1, <1>3, <1>6, <1>7, <2>1
  <2>3. x[k] = w.body[3 + k - 1] /\ y[k] = u[p + k - 1]
    BY <1>4, <1>5, <2>1, <2>2
  <2>4. w.body[3 + k - 1] = u[b + (3 + k - 1) - 1]
    BY <1>3, <2>2
  <2> QED BY <2>2, <2>3, <2>4
<1>10. x = y
  BY <1>4, <1>5, <1>8, <1>9, SeqEqual
<1> QED BY <1>10, <1>6 DEF x, y, n, w

\* A register, a star and an integer.
LEMMA WholeLast ==
  ASSUME NEW u \in Seq(Tokens), NEW a \in 1 .. Len(u), NEW b, b = Unsigned(u, a), b + 1 <= Len(u),
         u[a] # "-", u[b] \in Registers, u[b + 1] = "*",
         NEW q \in 1 .. Len(u), NEW minus \in BOOLEAN, SignedAt(u, b + 2, q, minus), u[q] \in Literals
  PROVE  /\ Whole(u, a, q + 1) /\ q \in a .. Len(u) /\ Reader!IsScaled(Piece(u, a, q))
         /\ Number[u[b]] = Reader!RegOf(Piece(u, a, q))
         /\ Byte(Signed(minus, Value[u[q]])) = LaxScaleOf(Piece(u, a, q))
<1> DEFINE t == Piece(u, a, q)
           p == b + 2
<1>1. Len(u) \in Nat /\ a \in Nat /\ a >= 1 /\ a <= Len(u) /\ q \in Nat /\ q <= Len(u)
  <2>1. Len(u) \in Nat
    OBVIOUS
  <2> QED BY <2>1
<1>2. b \in {a, a + 1} /\ (b = a + 1 => u[a] \in Signs) /\ b \in Nat /\ b >= a /\ b >= 1
  BY <1>1 DEF Unsigned
<1>3. (q = p \/ (q = p + 1 /\ u[p] \in Signs)) /\ p \in Nat \ {0}
  BY <1>1, <1>2 DEF SignedAt
<1>4. q \in a .. Len(u) /\ q >= p /\ q \in p - 1 .. Len(u)
  BY <1>1, <1>2, <1>3
<1>5. ASSUME NEW c \in p .. Len(u)
      PROVE  LET w == Piece(u, a, c)
             IN /\ w \in TermRecords /\ ~ w.minus /\ Len(w.body) = c - b + 1 /\ Len(w.body) > 2
                /\ w.body[1] = u[b] /\ w.body[2] = "*"
                /\ SubSeq(w.body, 3, Len(w.body)) = SubSeq(u, p, c)
  <2> DEFINE w == Piece(u, a, c)
  <2>1. c \in a .. Len(u) /\ c \in Nat /\ c >= b + 2
    BY <1>1, <1>2, <1>5
  <2>2. /\ w \in TermRecords /\ (w.minus <=> u[a] = "-") /\ Len(w.body) = c - b + 1
        /\ w.body \in Seq(Tokens)
        /\ \A k \in 1 .. c - b + 1 : w.body[k] = u[b + k - 1]
    BY <2>1, PieceBody
  <2> HIDE DEF w
  <2>3. w.body[1] = u[b] /\ w.body[2] = u[b + 1]
    <3>1. 1 \in 1 .. c - b + 1 /\ 2 \in 1 .. c - b + 1 /\ b + 1 - 1 = b /\ b + 2 - 1 = b + 1
      BY <1>2, <2>1
    <3>2. w.body[1] = u[b + 1 - 1] /\ w.body[2] = u[b + 2 - 1]
      BY <2>2, <3>1
    <3> QED BY <3>1, <3>2
  <2>4. Len(w.body) > 2
    BY <1>2, <2>1, <2>2
  <2>7. SubSeq(w.body, 3, Len(w.body)) = SubSeq(u, p, c)
    BY <2>1, PieceTail DEF w
  <2> QED BY <2>2, <2>3, <2>4, <2>7 DEF w
<1>6. ASSUME NEW c \in p .. Len(u)
      PROVE  /\ Reader!IsInt(SubSeq(u, p, c)) <=> c = q /\ u[q] \in Literals
             /\ Reader!IsInt(SubSeq(u, p, c)) => Reader!IntOf(SubSeq(u, p, c)) = Signed(minus, Value[u[q]])
  <2>1. c \in p - 1 .. Len(u)
    BY <1>1, <1>2, <1>6
  <2> QED BY <1>3, <2>1, SignedIs
<1>7. q \in p .. Len(u)
  BY <1>4
<1>8. /\ t \in TermRecords /\ Reader!ScaleLast(t) /\ ~ Reader!ScaleHead(t) /\ t.body[1] = u[b]
      /\ SubSeq(t.body, 3, Len(t.body)) = SubSeq(u, p, q) /\ Len(t.body) = q - b + 1
  <2>1. /\ t \in TermRecords /\ ~ t.minus /\ Len(t.body) = q - b + 1 /\ Len(t.body) > 2
        /\ t.body[1] = u[b] /\ t.body[2] = "*"
        /\ SubSeq(t.body, 3, Len(t.body)) = SubSeq(u, p, q)
    BY <1>5, <1>7
  <2>2. Reader!IsInt(SubSeq(u, p, q))
    BY <1>6, <1>7
  <2> HIDE DEF t
  <2>3. Reader!ScaleLast(t)
    BY <2>1, <2>2, TermShape
  <2>4. ~ Reader!ScaleHead(t)
    BY <2>1, TermShape, TokenKinds
  <2> QED BY <2>1, <2>3, <2>4
<1>9. Reader!IsScaled(t) /\ IsTerm(t)
  BY <1>8 DEF Reader!IsScaled, IsTerm
<1>10. Number[u[b]] = Reader!RegOf(t)
  BY <1>8, ReaderNames DEF Reader!RegOf
<1>11. Byte(Signed(minus, Value[u[q]])) = LaxScaleOf(t)
  <2>1. LaxScaleOf(t) = Byte(Reader!IntOf(SubSeq(u, p, q)))
    BY <1>8, ReaderNames DEF LaxScaleOf, Reader!ScaleOf
  <2>2. Reader!IntOf(SubSeq(u, p, q)) = Signed(minus, Value[u[q]])
    BY <1>6, <1>7
  <2> QED BY <2>1, <2>2
<1> HIDE DEF t
<1>12. \A k \in a + 1 .. q : k \notin Starts(u)
  <2>1. \A k \in a + 1 .. q : k = b \/ k = b + 1 \/ k = p \/ k = q
    BY <1>1, <1>2, <1>3
  <2>2. u[b] \notin Signs /\ u[b + 1] \notin Signs /\ u[q] \notin Signs
    BY TokenKinds
  <2>3. u[p - 1] = "*"
    <3>1. p - 1 = b + 1
      BY <1>2
    <3> QED BY <3>1
  <2>4. \A k \in Starts(u) : u[k] \in Signs /\ u[k - 1] # "*"
    BY DEF Starts
  <2> HIDE DEF p
  <2> QED BY <2>1, <2>2, <2>3, <2>4
<1>13. ASSUME NEW c \in q + 1 .. Len(u) PROVE ~ IsTerm(Piece(u, a, c))
  <2> DEFINE w == Piece(u, a, c)
  <2>1. c \in p .. Len(u) /\ c # q
    BY <1>1, <1>2, <1>4, <1>13
  <2>2. /\ w \in TermRecords /\ ~ w.minus /\ Len(w.body) = c - b + 1 /\ Len(w.body) > 2
        /\ w.body[1] = u[b] /\ w.body[2] = "*"
        /\ SubSeq(w.body, 3, Len(w.body)) = SubSeq(u, p, c)
    BY <1>5, <2>1
  <2>3. ~ Reader!IsInt(SubSeq(u, p, c))
    BY <1>6, <2>1
  <2> HIDE DEF w
  <2>4. Len(w.body) > 1
    BY <1>2, <2>1, <2>2
  <2>5. IsTerm(w) => Reader!ScaleLast(w) \/ Reader!ScaleHead(w)
    BY <2>2, <2>4, TermShape
  <2>6. ~ Reader!ScaleLast(w)
    BY <2>2, <2>3, TermShape
  <2>7. ~ Reader!ScaleHead(w)
    BY <2>2, TermShape, TokenKinds
  <2> QED BY <2>5, <2>6, <2>7 DEF w
<1>14. q + 1 \in a + 1 .. Len(u) + 1 /\ (q + 1) - 1 = q
  BY <1>4, <1>1
<1>15. u[q] # "*"
  BY TokenKinds
<1>16. Whole(u, a, q + 1)
  BY <1>9, <1>12, <1>13, <1>14, <1>15 DEF Whole, t
<1> QED BY <1>4, <1>9, <1>10, <1>11, <1>16 DEF t

\* The first tokens of a term, behind its sign.
LEMMA PieceTokens ==
  ASSUME NEW u \in Seq(Tokens), NEW a \in 1 .. Len(u), NEW b, b = Unsigned(u, a), NEW c \in a .. Len(u)
  PROVE  LET w == Piece(u, a, c)
         IN /\ w \in TermRecords /\ w.body \in Seq(Tokens) /\ (w.minus <=> u[a] = "-") /\ Len(w.body) = c - b + 1
            /\ b \in Nat /\ c \in Nat /\ b >= a /\ b <= a + 1 /\ (b # a => u[a] \in Signs)
            /\ c >= b => w.body[1] = u[b]
            /\ c >= b + 1 => w.body[2] = u[b + 1]
            /\ c >= b + 2 => w.body[3] = u[b + 2]
<1> DEFINE w == Piece(u, a, c)
<1>1. Len(u) \in Nat /\ a \in Nat /\ c \in Nat
  <2>1. Len(u) \in Nat
    OBVIOUS
  <2> QED BY <2>1
<1>2. b \in Nat /\ b >= a /\ b <= a + 1 /\ (b # a => u[a] \in Signs)
  BY <1>1 DEF Unsigned
<1>3. /\ w \in TermRecords /\ w.body \in Seq(Tokens) /\ (w.minus <=> u[a] = "-")
      /\ Len(w.body) = c - Unsigned(u, a) + 1
      /\ \A k \in 1 .. c - Unsigned(u, a) + 1 : w.body[k] = u[Unsigned(u, a) + k - 1]
  BY PieceBody
<1> HIDE DEF w
<1>4. Len(w.body) = c - b + 1 /\ \A k \in 1 .. c - b + 1 : w.body[k] = u[b + k - 1]
  BY <1>3
<1>5. /\ c >= b => 1 \in 1 .. c - b + 1 /\ b + 1 - 1 = b
      /\ c >= b + 1 => 2 \in 1 .. c - b + 1 /\ b + 2 - 1 = b + 1
      /\ c >= b + 2 => 3 \in 1 .. c - b + 1 /\ b + 3 - 1 = b + 2
  BY <1>1, <1>2
<1>6. c >= b => w.body[1] = u[b]
  <2> SUFFICES ASSUME c >= b PROVE w.body[1] = u[b]
    OBVIOUS
  <2>1. w.body[1] = u[b + 1 - 1]
    BY <1>4, <1>5
  <2> QED BY <1>5, <2>1
<1>7. c >= b + 1 => w.body[2] = u[b + 1]
  <2> SUFFICES ASSUME c >= b + 1 PROVE w.body[2] = u[b + 1]
    OBVIOUS
  <2>1. w.body[2] = u[b + 2 - 1]
    BY <1>4, <1>5
  <2> QED BY <1>5, <2>1
<1>8. c >= b + 2 => w.body[3] = u[b + 2]
  <2> SUFFICES ASSUME c >= b + 2 PROVE w.body[3] = u[b + 2]
    OBVIOUS
  <2>1. w.body[3] = u[b + 3 - 1]
    BY <1>4, <1>5
  <2> QED BY <1>5, <2>1
<1> QED BY <1>1, <1>2, <1>3, <1>4, <1>6, <1>7, <1>8 DEF w

\* An integer, a star and a register.
LEMMA WholeHead ==
  ASSUME NEW u \in Seq(Tokens), NEW a \in 1 .. Len(u), NEW b, b = Unsigned(u, a), b + 2 <= Len(u),
         u[a] # "-", u[b] \in Literals, u[b + 1] = "*", u[b + 2] \in Registers
  PROVE  /\ Whole(u, a, b + 3) /\ b + 2 \in a .. Len(u) /\ Reader!IsScaled(Piece(u, a, b + 2))
         /\ Number[u[b + 2]] = Reader!RegOf(Piece(u, a, b + 2))
         /\ Byte(Value[u[b]]) = LaxScaleOf(Piece(u, a, b + 2))
<1> DEFINE q == b + 2
           t == Piece(u, a, q)
<1>1. Len(u) \in Nat /\ a \in Nat /\ a >= 1 /\ a <= Len(u)
  <2>1. Len(u) \in Nat
    OBVIOUS
  <2> QED BY <2>1
<1>2. b \in {a, a + 1} /\ b \in Nat /\ b >= a
  BY <1>1 DEF Unsigned
<1>3. q \in a .. Len(u) /\ q \in Nat
  BY <1>1, <1>2
<1>4. /\ t \in TermRecords /\ (t.minus <=> u[a] = "-") /\ Len(t.body) = q - b + 1
      /\ t.body[1] = u[b] /\ t.body[2] = u[b + 1] /\ t.body[3] = u[q]
  <2>1. q >= b /\ q >= b + 1 /\ q >= b + 2 /\ q = b + 2
    BY <1>2
  <2> HIDE DEF q
  <2>2. /\ t \in TermRecords /\ (t.minus <=> u[a] = "-") /\ Len(t.body) = q - b + 1
        /\ q >= b => t.body[1] = u[b]
        /\ q >= b + 1 => t.body[2] = u[b + 1]
        /\ q >= b + 2 => t.body[3] = u[b + 2]
    BY ONLY <1>3, u \in Seq(Tokens), a \in 1 .. Len(u), b = Unsigned(u, a), PieceTokens
  <2> QED BY <2>1, <2>2
<1>5. q - b + 1 = 3
  BY <1>2
<1> HIDE DEF t
<1>6. Reader!ScaleHead(t)
  BY <1>4, <1>5, TermShape
<1>7. Reader!IsScaled(t) /\ IsTerm(t)
  BY <1>6 DEF Reader!IsScaled, IsTerm
<1>8. Number[u[q]] = Reader!RegOf(t)
  BY <1>4, <1>6, ReaderNames DEF Reader!RegOf
<1>9. Byte(Value[u[b]]) = LaxScaleOf(t)
  BY <1>4, <1>6, ReaderNames DEF LaxScaleOf, Reader!ScaleOf
<1>10. u[q] # "*" /\ u[q] \notin Signs /\ u[b + 1] \notin Signs /\ u[b] \notin Signs
  BY TokenKinds
<1>11. \A k \in a + 1 .. q : k \notin Starts(u)
  <2>1. \A k \in a + 1 .. q : k = b \/ k = b + 1 \/ k = q
    BY <1>1, <1>2
  <2>4. \A k \in Starts(u) : u[k] \in Signs
    BY DEF Starts
  <2> HIDE DEF q
  <2> QED BY <1>10, <2>1, <2>4
<1>12. ASSUME NEW c \in q + 1 .. Len(u) PROVE ~ IsTerm(Piece(u, a, c))
  <2> DEFINE w == Piece(u, a, c)
  <2>1. c \in a .. Len(u) /\ c >= b /\ c \in Nat /\ c - b + 1 > 3 /\ c - b + 1 \in Nat
    BY <1>1, <1>2, <1>12
  <2>2. w \in TermRecords /\ Len(w.body) = c - b + 1 /\ w.body[1] = u[b]
    BY <2>1, PieceTokens
  <2> HIDE DEF w
  <2>3. \A m \in Nat : m > 3 => m > 1 /\ m # 3
    OBVIOUS
  <2>4. Len(w.body) > 1 /\ Len(w.body) # 3
    BY <2>1, <2>2, <2>3
  <2>5. IsTerm(w) => Reader!ScaleLast(w) \/ Reader!ScaleHead(w)
    BY <2>2, <2>4, TermShape
  <2>6. ~ Reader!ScaleLast(w)
    BY <2>2, TermShape, TokenKinds
  <2>7. ~ Reader!ScaleHead(w)
    BY <2>2, <2>4, TermShape
  <2> QED BY <2>5, <2>6, <2>7 DEF w
<1>13. q + 1 \in a + 1 .. Len(u) + 1 /\ (q + 1) - 1 = q /\ b + 3 = q + 1
  BY <1>1, <1>2
<1>14. Whole(u, a, q + 1)
  BY <1>7, <1>10, <1>11, <1>12, <1>13 DEF Whole, t
<1> QED BY <1>3, <1>7, <1>8, <1>9, <1>13, <1>14 DEF t

\* Tokens behind a sign that begin no term.
NoTermAt(u, a, b) ==
  \/ b <= Len(u) => u[b] \notin Idents \cup Literals
  \/ u[a] = "-" /\ b <= Len(u) /\ u[b] \notin Literals
  \/ u[a] = "-" /\ b + 1 <= Len(u) /\ u[b] \in Literals /\ u[b + 1] = "*"
  \/ /\ b + 1 <= Len(u) /\ u[b] \in Literals /\ u[b + 1] = "*"
     /\ b + 2 <= Len(u) => u[b + 2] \notin Registers
  \/ /\ b + 1 <= Len(u) /\ u[b] \in Registers /\ u[b + 1] = "*"
     /\ \E q \in 1 .. Len(u) + 1, minus \in BOOLEAN :
          SignedAt(u, b + 2, q, minus) /\ (q <= Len(u) => u[q] \notin Literals)

\* A term that can be none, seen at its start, spoils the address.
LEMMA BadTermSpoils ==
  ASSUME NEW u \in Seq(Tokens), NEW ts, NEW a \in 1 .. Len(u), Sofar(u, ts, a), NEW b, b = Unsigned(u, a),
         NoTermAt(u, a, b)
  PROVE  ~ LaxAddressOK(Reader!Terms(u))
<1>1. Len(u) \in Nat /\ a \in Nat /\ a >= 1 /\ a <= Len(u)
  <2>1. Len(u) \in Nat
    OBVIOUS
  <2> QED BY <2>1
<1>2. b \in {a, a + 1} /\ b \in Nat /\ b >= a /\ b >= 1
  BY <1>1 DEF Unsigned
<1>3. ASSUME NEW c \in a - 1 .. Len(u), TermEnds(u, a, c), IsTerm(Piece(u, a, c)) PROVE FALSE
  <2> DEFINE w == Piece(u, a, c)
             n == Len(w.body)
  <2>0. c \in Int /\ c <= Len(u) /\ c >= a - 1
    BY <1>1
  <2>1. /\ c \in Int /\ c <= Len(u) /\ (c = Len(u) \/ (c + 1 \in Starts(u) /\ c >= a))
        /\ \A k \in Starts(u) : k > a => k > c
    BY <1>3, <2>0 DEF TermEnds
  <2>2. c \in a .. Len(u) /\ c \in Nat
    BY <1>1, <2>1
  <2>3. /\ w \in TermRecords /\ w.body \in Seq(Tokens) /\ (w.minus <=> u[a] = "-") /\ n = c - b + 1
        /\ c >= b => w.body[1] = u[b]
        /\ c >= b + 1 => w.body[2] = u[b + 1]
        /\ c >= b + 2 => w.body[3] = u[b + 2]
    BY <2>2, PieceTokens
  <2> HIDE DEF w
  <2>4. /\ n >= 1 /\ w.body[1] \in Idents \cup Literals
        /\ n > 1 => ~ w.minus /\ w.body[2] = "*" /\ (Reader!ScaleLast(w) \/ Reader!ScaleHead(w))
        /\ w.minus => n = 1 /\ w.body[1] \in Literals
        /\ Reader!ScaleLast(w) => n > 2 /\ w.body[1] \in Registers /\ Reader!IsInt(SubSeq(w.body, 3, n))
        /\ Reader!ScaleHead(w) => n = 3 /\ w.body[1] \in Literals /\ w.body[3] \in Registers
    BY <1>3, <2>3, TermShape DEF w
  <2>5. c >= b /\ w.body[1] = u[b] /\ b <= Len(u)
    <3>1. c >= b
      BY <1>2, <2>2, <2>3, <2>4
    <3>2. b <= Len(u)
      BY <1>1, <1>2, <2>2, <3>1
    <3> QED BY <2>3, <3>1, <3>2
  <2> HIDE DEF n
  <2>6. u[b] \notin Signs /\ u[b] \in Idents \cup Literals
    BY <2>4, <2>5, TokenKinds
  <2>7. \A k \in Starts(u) : u[k] \in Signs /\ u[k - 1] # "*"
    BY DEF Starts
  \* The term goes on behind a star.
  <2>8. b + 1 <= Len(u) /\ u[b + 1] = "*" => c >= b + 1 /\ n > 1 /\ n # 1
    <3> SUFFICES ASSUME b + 1 <= Len(u), u[b + 1] = "*" PROVE c >= b + 1 /\ n > 1 /\ n # 1
      OBVIOUS
    <3>1. b + 1 \notin Starts(u)
      BY <2>7, TokenKinds
    <3>2. c = Len(u) \/ c + 1 # b + 1
      BY <2>1, <3>1
    <3>3. c >= b + 1
      BY <1>1, <1>2, <2>2, <2>5, <3>2
    <3> QED BY <1>2, <2>2, <2>3, <3>3
  <2>9. b + 2 <= Len(u) /\ u[b + 1] = "*" => c >= b + 2 /\ w.body[3] = u[b + 2]
    <3> SUFFICES ASSUME b + 2 <= Len(u), u[b + 1] = "*" PROVE c >= b + 2 /\ w.body[3] = u[b + 2]
      OBVIOUS
    <3>1. c >= b + 1
      BY <1>1, <1>2, <2>8
    <3>2. (b + 2) - 1 = b + 1
      BY <1>2
    <3>3. b + 2 \notin Starts(u)
      BY <2>7, <3>2
    <3>4. c = Len(u) \/ c + 1 # b + 2
      BY <2>1, <3>3
    <3>5. c >= b + 2
      BY <1>1, <1>2, <2>2, <3>1, <3>4
    <3> QED BY <2>3, <3>5
  <2>10. ASSUME b <= Len(u) => u[b] \notin Idents \cup Literals PROVE FALSE
    BY <2>5, <2>6, <2>10
  <2>11. ASSUME u[a] = "-", b <= Len(u), u[b] \notin Literals PROVE FALSE
    BY <2>3, <2>4, <2>5, <2>11
  <2>12. ASSUME u[a] = "-", b + 1 <= Len(u), u[b + 1] = "*" PROVE FALSE
    BY <2>3, <2>4, <2>8, <2>12
  <2>13. ASSUME b + 1 <= Len(u), u[b] \in Literals, u[b + 1] = "*", b + 2 <= Len(u) => u[b + 2] \notin Registers
         PROVE FALSE
    <3>1. Reader!ScaleHead(w)
      BY <2>4, <2>5, <2>8, <2>13, TokenKinds
    <3>2. n = 3 /\ w.body[3] \in Registers
      BY <2>4, <3>1
    <3>3. b + 2 <= Len(u)
      BY <1>1, <1>2, <2>2, <2>3, <3>2
    <3> QED BY <2>9, <2>13, <3>2, <3>3
  <2>14. ASSUME b + 1 <= Len(u), u[b] \in Registers, u[b + 1] = "*",
                NEW q \in 1 .. Len(u) + 1, NEW minus \in BOOLEAN, SignedAt(u, b + 2, q, minus),
                q <= Len(u) => u[q] \notin Literals
         PROVE FALSE
    <3>1. n > 2 /\ Reader!IsInt(SubSeq(w.body, 3, n))
      BY <2>4, <2>5, <2>8, <2>14, TokenKinds
    <3>0. n = c - b + 1 /\ n > 2
      BY <2>3, <3>1
    <3>2. c >= b + 2 /\ b + 2 \in Nat \ {0} /\ c \in (b + 2) - 1 .. Len(u) /\ b + 2 <= Len(u)
      BY ONLY <1>1, <1>2, <2>2, <3>0
    <3>3. SubSeq(w.body, 3, n) = SubSeq(u, b + 2, c)
      BY <2>2, <3>2, PieceTail DEF w, n
    <3>4. Reader!IsInt(SubSeq(u, b + 2, c)) <=> c = q /\ u[q] \in Literals
      BY <2>14, <3>2, SignedIs
    <3>5. c = q /\ u[q] \in Literals
      BY <3>1, <3>3, <3>4
    <3>6. q <= Len(u)
      BY <1>1, <2>2, <3>5
    <3> QED BY <2>14, <3>5, <3>6
  <2> QED BY <2>10, <2>11, <2>12, <2>13, <2>14 DEF NoTermAt
<1>4. \A c \in a - 1 .. Len(u) : TermEnds(u, a, c) => ~ IsTerm(Piece(u, a, c))
  BY <1>3
<1> QED BY <1>4, NoTermSpoils

-----------------------------------------------------------------------------
(* 6. The steps between brackets. *)

\* The places within a term, and all those between brackets.
TermPlaces == {"term", "reg", "scale", "star", "indexReg", "index"}
MemPlaces  == {"mem", "memNext"} \cup TermPlaces

\* A register, a star and an integer of the term.
RegisterAt(u, b, r) == b <= Len(u) /\ u[b] \in Registers /\ r = Number[u[b]]
StarAt(u, b)        == b <= Len(u) /\ u[b] = "*"
ScaleAt(u, b, v)    == b <= Len(u) /\ u[b] \in Literals /\ v = Value[u[b]]

TermPlace(place, u, a, j, n) ==
  LET b == Unsigned(u, a)
  IN /\ place = "term"     => u[a] \in Signs /\ j = b /\ (n.minus <=> u[a] = "-")
     /\ place # "term"     => u[a] # "-"
     /\ place = "reg"      => j = b + 1 /\ RegisterAt(u, b, n.reg)
     /\ place = "scale"    => j = b + 2 /\ RegisterAt(u, b, n.reg) /\ StarAt(u, b + 1)
     /\ place \in Numeral  => SignedAt(u, b + 2, j, n.minus) /\ RegisterAt(u, b, n.reg) /\ StarAt(u, b + 1)
     /\ place = "star"     => j = b + 1 /\ ScaleAt(u, b, n.scale) /\ StarAt(u, b + 1)
     /\ place = "indexReg" => j = b + 2 /\ ScaleAt(u, b, n.scale) /\ StarAt(u, b + 1)
     /\ place = "index"    => /\ Whole(u, a, j) /\ Reader!IsScaled(Piece(u, a, j - 1))
                              /\ n.reg = Reader!RegOf(Piece(u, a, j - 1))
                              /\ Byte(n.scale) = LaxScaleOf(Piece(u, a, j - 1))

\* Token j between brackets, when u is all there is between them.
InBrackets(place, u, j, m, n) ==
  /\ j \in 1 .. Len(u) + 1
  /\ place = "mem"     => j = 1 /\ ~ n.minus /\ m = EmptyMem
  /\ place = "memNext" => j > 1 /\ AfterTerm(u, j, m)
  /\ place \in TermPlaces \cup Numeral =>
       \E a \in 1 .. Len(u) : Before(u, a, m) /\ TermPlace(place, u, a, j, n)

\* The token, and the bracket behind the last.
TokenIn(u, j) == IF j <= Len(u) THEN u[j] ELSE "]"

GoodAddress(u) == LaxAddressOK(Reader!Terms(u))

\* Behind the opening bracket nothing has been read.
LEMMA NothingSofar ==
  ASSUME NEW u \in Seq(Tokens)
  PROVE  Before(u, 1, EmptyMem) /\ Sofar(u, <<>>, 1)
<1>1. Len(u) \in Nat /\ <<>> \in Seq(TermRecords) /\ Len(<<>>) = 0
  OBVIOUS
<1>2. 1 \in 1 .. Len(u) + 1 /\ Len(<<>>) + 1 = 1
  BY <1>1
<1>3. Opens(Starts(u), 1, Len(<<>>) + 1)
  BY <1>2 DEF Opens
<1>4. \A k \in 1 .. Len(<<>>) : <<>>[k] = Reader!Terms(u)[k]
  BY <1>1
<1>5. Sofar(u, <<>>, 1)
  BY <1>1, <1>2, <1>3, <1>4, NoTerms DEF Sofar
<1> QED BY <1>5, NoTerms DEF Before

\* Behind a term the parser looks for the next sign.
LEMMA BackToNext ==
  ASSUME NEW u \in Seq(Tokens), NEW j \in 2 .. Len(u) + 1, NEW m, AfterTerm(u, j, m), NEW n
  PROVE  InBrackets("memNext", u, j, m, n)
<1>1. j \in 1 .. Len(u) + 1 /\ j > 1
  <2>1. Len(u) \in Nat
    OBVIOUS
  <2> QED BY <2>1
<1>2. "memNext" \notin TermPlaces \cup Numeral
  BY DEF TermPlaces, Numeral
<1> QED BY <1>1, <1>2 DEF InBrackets

\* Inside a term it knows the terms before, and what it has read of this one.
LEMMA InTerm ==
  ASSUME NEW place \in TermPlaces \cup Numeral, NEW u, NEW j \in 1 .. Len(u) + 1, NEW m, NEW n,
         NEW a \in 1 .. Len(u), Before(u, a, m), TermPlace(place, u, a, j, n)
  PROVE  InBrackets(place, u, j, m, n)
<1>1. place # "mem" /\ place # "memNext"
  BY DEF TermPlaces, Numeral
<1> QED BY <1>1 DEF InBrackets

\* A sign starts a term.
LEMMA SignStep ==
  ASSUME NEW u \in Seq(Tokens), NEW place \in {"mem", "memNext"}, NEW j, NEW m, NEW n, NEW w,
         InBrackets(place, u, j, m, n), TokenIn(u, j) \in Signs, w.minus <=> TokenIn(u, j) = "-"
  PROVE  InBrackets("term", u, j + 1, m, w)
<1>1. Len(u) \in Nat /\ j \in Nat /\ j >= 1 /\ j <= Len(u) + 1
  <2>1. Len(u) \in Nat
    OBVIOUS
  <2> QED BY <2>1 DEF InBrackets
<1>2. j <= Len(u) /\ TokenIn(u, j) = u[j]
  BY <1>1, TokenKinds DEF TokenIn
<1>3. Before(u, j, m)
  <2>1. CASE place = "mem"
    <3>1. j = 1 /\ m = EmptyMem
      BY <2>1 DEF InBrackets
    <3> QED BY <3>1, NothingSofar
  <2>2. CASE place = "memNext"
    <3>1. AfterTerm(u, j, m)
      BY <2>2 DEF InBrackets
    <3>2. j # Len(u) + 1
      BY <1>1, <1>2
    <3> QED BY <1>2, <3>1, <3>2 DEF AfterTerm
  <2> QED BY <2>1, <2>2
<1>4. j \in 1 .. Len(u) /\ j + 1 \in 1 .. Len(u) + 1
  BY <1>1, <1>2
<1>5. TermPlace("term", u, j, j + 1, w)
  <2>1. Unsigned(u, j) = j + 1
    BY <1>2 DEF Unsigned
  <2>2. "term" \notin Numeral
    BY DEF Numeral
  <2> QED BY <1>2, <2>1, <2>2 DEF TermPlace
<1>6. "term" \in TermPlaces
  BY DEF TermPlaces
<1> QED BY <1>3, <1>4, <1>5, <1>6, InTerm

\* Where a term goes on behind its sign.
LEMMA TermStarts ==
  ASSUME NEW u \in Seq(Tokens), NEW place, NEW j, NEW m, NEW n, InBrackets(place, u, j, m, n),
         \/ place = "term"
         \/ place = "mem" /\ TokenIn(u, j) \notin Signs \cup {"]"}
  PROVE  \E a \in 1 .. Len(u) : /\ Before(u, a, m) /\ j = Unsigned(u, a) /\ (n.minus <=> u[a] = "-")
<1>1. Len(u) \in Nat /\ j \in Nat /\ j >= 1 /\ j <= Len(u) + 1
  <2>1. Len(u) \in Nat
    OBVIOUS
  <2> QED BY <2>1 DEF InBrackets
<1>2. CASE place = "term"
  <2>1. place \in TermPlaces \cup Numeral
    BY <1>2 DEF TermPlaces
  <2>2. PICK a \in 1 .. Len(u) : Before(u, a, m) /\ TermPlace(place, u, a, j, n)
    BY <2>1 DEF InBrackets
  <2>3. j = Unsigned(u, a) /\ (n.minus <=> u[a] = "-")
    BY <1>2, <2>2 DEF TermPlace
  <2> QED BY <2>2, <2>3
<1>3. CASE place = "mem" /\ TokenIn(u, j) \notin Signs \cup {"]"}
  <2>1. j = 1 /\ m = EmptyMem /\ ~ n.minus
    BY <1>3 DEF InBrackets
  <2>2. 1 <= Len(u) /\ u[1] \notin Signs
    BY <1>1, <1>3, <2>1 DEF TokenIn
  <2>3. 1 \in 1 .. Len(u) /\ Unsigned(u, 1) = 1 /\ u[1] # "-"
    BY <1>1, <2>2 DEF Unsigned, Signs
  <2> QED BY <2>1, <2>3, NothingSofar
<1> QED BY <1>2, <1>3

\* The parser stands at the first token of a term behind its sign.
AtTerm(place, u, j) == place = "term" \/ (place = "mem" /\ TokenIn(u, j) \notin Signs \cup {"]"})

\* The steps of parse_mem_term at that token.
LEMMA StartRegister ==
  ASSUME NEW u \in Seq(Tokens), NEW place, NEW j, NEW m, NEW n, InBrackets(place, u, j, m, n), AtTerm(place, u, j),
         TokenIn(u, j) \in Registers, ~ n.minus, NEW w, w.reg = Number[TokenIn(u, j)]
  PROVE  InBrackets("reg", u, j + 1, m, w)
<1>1. PICK a \in 1 .. Len(u) : Before(u, a, m) /\ j = Unsigned(u, a) /\ (n.minus <=> u[a] = "-")
  BY TermStarts DEF AtTerm
<1>2. Len(u) \in Nat /\ j \in Nat /\ j >= 1 /\ j <= Len(u) + 1
  <2>1. Len(u) \in Nat
    OBVIOUS
  <2> QED BY <2>1 DEF InBrackets
<1>3. j <= Len(u) /\ TokenIn(u, j) = u[j]
  BY <1>2, TokenKinds DEF TokenIn
<1>4. RegisterAt(u, j, w.reg)
  BY <1>3 DEF RegisterAt
<1>5. "reg" \in TermPlaces /\ "reg" \notin Numeral
  BY DEF TermPlaces, Numeral
<1>6. TermPlace("reg", u, a, j + 1, w)
  BY <1>1, <1>4, <1>5 DEF TermPlace
<1>7. j + 1 \in 1 .. Len(u) + 1
  BY <1>2, <1>3
<1> QED BY <1>1, <1>5, <1>6, <1>7, InTerm

\* A term that starts with an integer and a star is a scale,
LEMMA StartScale ==
  ASSUME NEW u \in Seq(Tokens), NEW place, NEW j, NEW m, NEW n, InBrackets(place, u, j, m, n), AtTerm(place, u, j),
         TokenIn(u, j) \in Literals, j + 1 <= Len(u), u[j + 1] = "*", ~ n.minus,
         NEW w, w.scale = Value[TokenIn(u, j)]
  PROVE  InBrackets("star", u, j + 1, m, w)
<1>1. PICK a \in 1 .. Len(u) : Before(u, a, m) /\ j = Unsigned(u, a) /\ (n.minus <=> u[a] = "-")
  BY TermStarts DEF AtTerm
<1>2. Len(u) \in Nat /\ j \in Nat /\ j >= 1 /\ j <= Len(u) + 1
  <2>1. Len(u) \in Nat
    OBVIOUS
  <2> QED BY <2>1 DEF InBrackets
<1>3. j <= Len(u) /\ TokenIn(u, j) = u[j]
  BY <1>2, TokenKinds DEF TokenIn
<1>4. ScaleAt(u, j, w.scale) /\ StarAt(u, j + 1)
  BY <1>3 DEF ScaleAt, StarAt
<1>5. "star" \in TermPlaces /\ "star" \notin Numeral
  BY DEF TermPlaces, Numeral
<1>6. TermPlace("star", u, a, j + 1, w)
  BY <1>1, <1>4, <1>5 DEF TermPlace
<1>7. j + 1 \in 1 .. Len(u) + 1
  BY <1>2, <1>3
<1> QED BY <1>1, <1>5, <1>6, <1>7, InTerm

\* one that is a name is a symbol, if there is none yet,
LEMMA StartSymbol ==
  ASSUME NEW u \in Seq(Tokens), NEW place, NEW j, NEW m, NEW n, InBrackets(place, u, j, m, n), AtTerm(place, u, j),
         TokenIn(u, j) \in Idents \ Registers, ~ n.minus
  PROVE  /\ ~ m.symbol => InBrackets("memNext", u, j + 1, [m EXCEPT !.symbol = TRUE], n)
         /\ m.symbol => ~ GoodAddress(u)
<1>1. PICK a \in 1 .. Len(u) : Before(u, a, m) /\ j = Unsigned(u, a) /\ (n.minus <=> u[a] = "-")
  BY TermStarts DEF AtTerm
<1>2. Len(u) \in Nat /\ j \in Nat /\ j >= 1 /\ j <= Len(u) + 1
  <2>1. Len(u) \in Nat
    OBVIOUS
  <2> QED BY <2>1 DEF InBrackets
<1>3. j <= Len(u) /\ TokenIn(u, j) = u[j]
  BY <1>2, TokenKinds DEF TokenIn
<1>4. PICK ts : Sofar(u, ts, a) /\ m = LaxAddressOf(ts)
  BY <1>1 DEF Before
<1> DEFINE t == Piece(u, a, j)
<1>5. /\ Whole(u, a, j + 1) /\ t \in TermRecords /\ Reader!IsSymbol(t)
  <2>1. u[j] \notin Registers \cup Literals /\ u[j] \in Idents
    BY <1>3, TokenKinds
  <2> QED BY <1>1, <1>3, <2>1, WholeOne
<1>6. (j + 1) - 1 = j
  BY <1>2
<1>7. ts \in Seq(TermRecords) /\ LaxAddressOK(ts)
  BY <1>4 DEF Sofar
<1> HIDE DEF t
<1>8. /\ LaxAddressOK(Append(ts, t)) <=> ~ m.symbol
      /\ LaxAddressOf(Append(ts, t)) = [m EXCEPT !.symbol = TRUE]
  BY <1>4, <1>5, <1>7, SymbolStep
<1>9. ASSUME ~ m.symbol PROVE InBrackets("memNext", u, j + 1, [m EXCEPT !.symbol = TRUE], n)
  <2> DEFINE mm == [m EXCEPT !.symbol = TRUE]
  <2>1. LaxAddressOK(Append(ts, Piece(u, a, (j + 1) - 1))) /\ mm = LaxAddressOf(Append(ts, Piece(u, a, (j + 1) - 1)))
    BY <1>6, <1>8, <1>9 DEF t
  <2> HIDE DEF mm
  <2>2. AfterTerm(u, j + 1, mm)
    BY <1>4, <1>5, <2>1, TermDone
  <2>3. j + 1 \in 2 .. Len(u) + 1
    BY <1>2, <1>3
  <2>4. InBrackets("memNext", u, j + 1, mm, n)
    BY <2>2, <2>3, BackToNext
  <2> QED BY <2>4 DEF mm
<1>10. ASSUME m.symbol PROVE ~ GoodAddress(u)
  <2>1. ~ LaxAddressOK(Append(ts, Piece(u, a, (j + 1) - 1)))
    BY <1>6, <1>8, <1>10 DEF t
  <2> QED BY <1>4, <1>5, <2>1, TermRefused DEF GoodAddress
<1> QED BY <1>9, <1>10

\* one that is an integer alone is added to the displacement,
LEMMA StartDisp ==
  ASSUME NEW u \in Seq(Tokens), NEW place, NEW j, NEW m, NEW n, InBrackets(place, u, j, m, n), AtTerm(place, u, j),
         TokenIn(u, j) \in Literals, j + 1 <= Len(u) => u[j + 1] # "*", n.minus \in BOOLEAN
  PROVE  InBrackets("memNext", u, j + 1,
                    [m EXCEPT !.disp = (@ + Signed(n.minus, Value[TokenIn(u, j)])) % Word], n)
<1>1. PICK a \in 1 .. Len(u) : Before(u, a, m) /\ j = Unsigned(u, a) /\ (n.minus <=> u[a] = "-")
  BY TermStarts DEF AtTerm
<1>2. Len(u) \in Nat /\ j \in Nat /\ j >= 1 /\ j <= Len(u) + 1
  <2>1. Len(u) \in Nat
    OBVIOUS
  <2> QED BY <2>1 DEF InBrackets
<1>3. j <= Len(u) /\ TokenIn(u, j) = u[j]
  BY <1>2, TokenKinds DEF TokenIn
<1>4. PICK ts : Sofar(u, ts, a) /\ m = LaxAddressOf(ts)
  BY <1>1 DEF Before
<1> DEFINE t == Piece(u, a, j)
<1>5. /\ Whole(u, a, j + 1) /\ t \in TermRecords /\ Reader!IsDisp(t)
      /\ t.body[1] = u[j] /\ (t.minus <=> u[a] = "-")
  BY <1>1, <1>3, WholeOne
<1>6. (j + 1) - 1 = j
  BY <1>2
<1>7. ts \in Seq(TermRecords) /\ LaxAddressOK(ts)
  BY <1>4 DEF Sofar
<1> HIDE DEF t
<1>8. t.minus \in BOOLEAN
  BY <1>5 DEF TermRecords
<1>9. t.minus = n.minus
  BY <1>1, <1>5, <1>8
<1>10. /\ LaxAddressOK(Append(ts, t))
       /\ LaxAddressOf(Append(ts, t)) = [m EXCEPT !.disp = (m.disp + Signed(t.minus, Value[t.body[1]])) % Word]
  BY <1>4, <1>5, <1>7, DispTermStep
<1> DEFINE mm == [m EXCEPT !.disp = (m.disp + Signed(n.minus, Value[TokenIn(u, j)])) % Word]
<1>11. mm = LaxAddressOf(Append(ts, t))
  BY <1>3, <1>5, <1>9, <1>10
<1>12. mm = [m EXCEPT !.disp = (@ + Signed(n.minus, Value[TokenIn(u, j)])) % Word]
  OBVIOUS
<1> HIDE DEF mm
<1>13. LaxAddressOK(Append(ts, Piece(u, a, (j + 1) - 1))) /\ mm = LaxAddressOf(Append(ts, Piece(u, a, (j + 1) - 1)))
  BY <1>6, <1>10, <1>11 DEF t
<1>14. AfterTerm(u, j + 1, mm)
  BY <1>4, <1>5, <1>13, TermDone
<1>15. j + 1 \in 2 .. Len(u) + 1
  BY <1>2, <1>3
<1>16. InBrackets("memNext", u, j + 1, mm, n)
  BY <1>14, <1>15, BackToNext
<1> QED BY <1>12, <1>16

\* and one that starts in another way is none.
LEMMA StartBad ==
  ASSUME NEW u \in Seq(Tokens), NEW place, NEW j, NEW m, NEW n, InBrackets(place, u, j, m, n), AtTerm(place, u, j),
         \/ TokenIn(u, j) \in Idents /\ n.minus
         \/ TokenIn(u, j) \in Literals /\ j + 1 <= Len(u) /\ u[j + 1] = "*" /\ n.minus
         \/ TokenIn(u, j) \notin Idents \cup Literals
  PROVE  ~ GoodAddress(u)
<1>1. PICK a \in 1 .. Len(u) : Before(u, a, m) /\ j = Unsigned(u, a) /\ (n.minus <=> u[a] = "-")
  BY TermStarts DEF AtTerm
<1>2. Len(u) \in Nat /\ j \in Nat /\ j >= 1 /\ j <= Len(u) + 1
  <2>1. Len(u) \in Nat
    OBVIOUS
  <2> QED BY <2>1 DEF InBrackets
<1>3. TokenIn(u, j) \in Idents \cup Literals => j <= Len(u)
  BY <1>2, TokenKinds DEF TokenIn
<1>4. j <= Len(u) => TokenIn(u, j) = u[j]
  BY DEF TokenIn
<1>5. PICK ts : Sofar(u, ts, a) /\ m = LaxAddressOf(ts)
  BY <1>1 DEF Before
<1>6. NoTermAt(u, a, j)
  <2>1. CASE TokenIn(u, j) \in Idents /\ n.minus
    BY <1>1, <1>3, <1>4, <2>1, TokenKinds DEF NoTermAt
  <2>2. CASE TokenIn(u, j) \in Literals /\ j + 1 <= Len(u) /\ u[j + 1] = "*" /\ n.minus
    BY <1>1, <1>3, <1>4, <2>2 DEF NoTermAt
  <2>3. CASE TokenIn(u, j) \notin Idents \cup Literals
    BY <1>4, <2>3 DEF NoTermAt
  <2> QED BY <2>1, <2>2, <2>3
<1> QED BY <1>1, <1>5, <1>6, BadTermSpoils DEF GoodAddress

\* The term and the terms before it, at a place within the term.
LEMMA TermOpen ==
  ASSUME NEW place \in TermPlaces \cup Numeral, NEW u \in Seq(Tokens), NEW j, NEW m, NEW n,
         InBrackets(place, u, j, m, n)
  PROVE  /\ Len(u) \in Nat /\ j \in Nat /\ j >= 1 /\ j <= Len(u) + 1
         /\ \E a \in 1 .. Len(u) : /\ Before(u, a, m) /\ TermPlace(place, u, a, j, n)
                                   /\ Unsigned(u, a) \in Nat /\ Unsigned(u, a) >= 1
<1>1. Len(u) \in Nat
  OBVIOUS
<1>2. PICK a \in 1 .. Len(u) : Before(u, a, m) /\ TermPlace(place, u, a, j, n)
  BY DEF InBrackets
<1>3. Unsigned(u, a) \in Nat /\ Unsigned(u, a) >= 1
  BY <1>1 DEF Unsigned
<1>4. j \in 1 .. Len(u) + 1
  BY DEF InBrackets
<1>5. j \in Nat /\ j >= 1 /\ j <= Len(u) + 1
  BY <1>1, <1>4
<1> QED BY <1>1, <1>2, <1>3, <1>5

\* Behind a register of a term.
LEMMA StarStep ==
  ASSUME NEW u \in Seq(Tokens), NEW j, NEW m, NEW n, InBrackets("reg", u, j, m, n), TokenIn(u, j) = "*"
  PROVE  InBrackets("scale", u, j + 1, m, n)
<1>1. {"reg", "scale"} \subseteq TermPlaces /\ "reg" \notin Numeral /\ "scale" \notin Numeral
  BY DEF TermPlaces, Numeral
<1>2. /\ Len(u) \in Nat /\ j \in Nat /\ j >= 1 /\ j <= Len(u) + 1
      /\ \E a \in 1 .. Len(u) : /\ Before(u, a, m) /\ TermPlace("reg", u, a, j, n)
                                /\ Unsigned(u, a) \in Nat /\ Unsigned(u, a) >= 1
  BY <1>1, TermOpen
<1>3. PICK a \in 1 .. Len(u) : /\ Before(u, a, m) /\ TermPlace("reg", u, a, j, n)
                               /\ Unsigned(u, a) \in Nat /\ Unsigned(u, a) >= 1
  BY <1>2
<1> DEFINE b == Unsigned(u, a)
<1>4. u[a] # "-" /\ j = b + 1 /\ RegisterAt(u, b, n.reg)
  BY <1>3 DEF TermPlace
<1>5. j <= Len(u) /\ u[j] = "*"
  BY <1>2 DEF TokenIn
<1>6. j + 1 = b + 2 /\ j + 1 \in 1 .. Len(u) + 1
  BY <1>2, <1>3, <1>4, <1>5
<1>7. StarAt(u, b + 1)
  BY <1>4, <1>5 DEF StarAt
<1>8. TermPlace("scale", u, a, j + 1, n)
  BY <1>1, <1>4, <1>6, <1>7 DEF TermPlace
<1> QED BY <1>1, <1>3, <1>6, <1>8, InTerm

\* A register without a star is the base or the index, or spoils the address.
LEMMA PlainDone ==
  ASSUME NEW u \in Seq(Tokens), NEW j, NEW m, NEW n, InBrackets("reg", u, j, m, n), TokenIn(u, j) # "*"
  PROVE  /\ PlainOK(m, n.reg) => InBrackets("memNext", u, j, WithPlain(m, n.reg), n)
         /\ ~ PlainOK(m, n.reg) => ~ GoodAddress(u)
<1>1. "reg" \in TermPlaces /\ "reg" \notin Numeral
  BY DEF TermPlaces, Numeral
<1>2. /\ Len(u) \in Nat /\ j \in Nat /\ j >= 1 /\ j <= Len(u) + 1
      /\ \E a \in 1 .. Len(u) : /\ Before(u, a, m) /\ TermPlace("reg", u, a, j, n)
                                /\ Unsigned(u, a) \in Nat /\ Unsigned(u, a) >= 1
  BY <1>1, TermOpen
<1>3. PICK a \in 1 .. Len(u) : /\ Before(u, a, m) /\ TermPlace("reg", u, a, j, n)
                               /\ Unsigned(u, a) \in Nat /\ Unsigned(u, a) >= 1
  BY <1>2
<1>4. PICK b \in Nat \ {0} : b = Unsigned(u, a)
  BY <1>3
<1>5. u[a] # "-" /\ j = b + 1 /\ b <= Len(u) /\ u[b] \in Registers /\ n.reg = Number[u[b]]
  BY <1>1, <1>3, <1>4 DEF TermPlace, RegisterAt
<1>6. PICK ts : Sofar(u, ts, a) /\ m = LaxAddressOf(ts)
  BY <1>3 DEF Before
<1>7. b + 1 <= Len(u) => u[b + 1] # "*"
  BY <1>5 DEF TokenIn
<1> DEFINE t == Piece(u, a, b)
<1>8. /\ Whole(u, a, b + 1) /\ t \in TermRecords /\ Reader!IsPlain(t) /\ t.body[1] = u[b]
  BY <1>4, <1>5, <1>7, TokenKinds, WholeOne
<1>9. j - 1 = b /\ (b + 1) - 1 = b /\ j \in 2 .. Len(u) + 1
  BY <1>2, <1>4, <1>5
<1>10. ts \in Seq(TermRecords) /\ LaxAddressOK(ts)
  BY <1>6 DEF Sofar
<1> HIDE DEF t
<1>11. n.reg = Reader!RegOf(t)
  BY <1>5, <1>8, TermKinds
<1>12. /\ LaxAddressOK(Append(ts, t)) <=> PlainOK(m, n.reg)
       /\ PlainOK(m, n.reg) => LaxAddressOf(Append(ts, t)) = WithPlain(m, n.reg)
  BY <1>6, <1>8, <1>10, <1>11, PlainStep
<1>13. Whole(u, a, j) /\ t = Piece(u, a, j - 1)
  BY <1>5, <1>8, <1>9 DEF t
<1>14. ASSUME PlainOK(m, n.reg) PROVE InBrackets("memNext", u, j, WithPlain(m, n.reg), n)
  <2> DEFINE mm == WithPlain(m, n.reg)
  <2>1. mm = LaxAddressOf(Append(ts, Piece(u, a, j - 1))) /\ LaxAddressOK(Append(ts, Piece(u, a, j - 1)))
    BY <1>12, <1>13, <1>14
  <2> HIDE DEF mm
  <2>2. AfterTerm(u, j, mm)
    BY <1>6, <1>13, <2>1, TermDone
  <2>3. InBrackets("memNext", u, j, mm, n)
    BY <1>9, <2>2, BackToNext
  <2> QED BY <2>3 DEF mm
<1>15. ASSUME ~ PlainOK(m, n.reg) PROVE ~ GoodAddress(u)
  <2>1. ~ LaxAddressOK(Append(ts, Piece(u, a, j - 1)))
    BY <1>12, <1>13, <1>15
  <2> QED BY <1>6, <1>13, <2>1, TermRefused DEF GoodAddress
<1> QED BY <1>14, <1>15

\* The scale behind a star.
LEMMA ScaleStep ==
  ASSUME NEW u \in Seq(Tokens), NEW j, NEW m, NEW n, InBrackets("scale", u, j, m, n),
         NEW w, w.reg = n.reg, w.minus <=> TokenIn(u, j) = "-"
  PROVE  /\ TokenIn(u, j) \in Signs => InBrackets("int", u, j + 1, m, w)
         /\ TokenIn(u, j) \notin Signs => InBrackets("int", u, j, m, w)
<1>1. "scale" \in TermPlaces /\ "scale" \notin Numeral /\ "int" \in Numeral /\ "int" \notin TermPlaces
  BY DEF TermPlaces, Numeral
<1>2. /\ Len(u) \in Nat /\ j \in Nat /\ j >= 1 /\ j <= Len(u) + 1
      /\ \E a \in 1 .. Len(u) : /\ Before(u, a, m) /\ TermPlace("scale", u, a, j, n)
                                /\ Unsigned(u, a) \in Nat /\ Unsigned(u, a) >= 1
  BY <1>1, TermOpen
<1>3. PICK a \in 1 .. Len(u) : /\ Before(u, a, m) /\ TermPlace("scale", u, a, j, n)
                               /\ Unsigned(u, a) \in Nat /\ Unsigned(u, a) >= 1
  BY <1>2
<1> DEFINE b == Unsigned(u, a)
<1>4. u[a] # "-" /\ j = b + 2 /\ RegisterAt(u, b, w.reg) /\ StarAt(u, b + 1)
  BY <1>3 DEF TermPlace
<1>5. ASSUME NEW i \in 1 .. Len(u) + 1, SignedAt(u, b + 2, i, w.minus) PROVE InBrackets("int", u, i, m, w)
  <2>1. TermPlace("int", u, a, i, w)
    BY <1>1, <1>4, <1>5 DEF TermPlace, TermPlaces
  <2> QED BY <1>1, <1>3, <2>1, InTerm
<1>6. ASSUME TokenIn(u, j) \in Signs PROVE InBrackets("int", u, j + 1, m, w)
  <2>1. j <= Len(u) /\ u[j] = TokenIn(u, j)
    BY <1>2, <1>6, TokenKinds DEF TokenIn
  <2>2. SignedAt(u, b + 2, j + 1, w.minus)
    BY <1>4, <1>6, <2>1 DEF SignedAt
  <2>3. j + 1 \in 1 .. Len(u) + 1
    BY <1>2, <2>1
  <2> QED BY <1>5, <2>2, <2>3
<1>7. ASSUME TokenIn(u, j) \notin Signs PROVE InBrackets("int", u, j, m, w)
  <2>1. j <= Len(u) => u[j] \notin Signs
    BY <1>7 DEF TokenIn
  <2>2. ~ w.minus
    BY <1>7 DEF Signs
  <2>3. SignedAt(u, b + 2, j, w.minus)
    BY <1>4, <2>1, <2>2 DEF SignedAt
  <2>4. j \in 1 .. Len(u) + 1
    BY <1>2
  <2> QED BY <1>5, <2>3, <2>4
<1> QED BY <1>6, <1>7

\* The digits of the scale.
LEMMA DigitsStep ==
  ASSUME NEW u \in Seq(Tokens), NEW place \in Numeral, NEW j, NEW m, NEW n, InBrackets(place, u, j, m, n),
         n.minus \in BOOLEAN
  PROVE  /\ TokenIn(u, j) \notin Literals => ~ GoodAddress(u)
         /\ TokenIn(u, j) \in Literals =>
              \A w : w.reg = n.reg /\ w.scale = Signed(n.minus, Value[TokenIn(u, j)])
                       => InBrackets("index", u, j + 1, m, w)
<1>1. "index" \in TermPlaces /\ "index" \notin Numeral /\ place \in TermPlaces \cup Numeral /\ place # "term"
  BY DEF TermPlaces, Numeral
<1>2. /\ Len(u) \in Nat /\ j \in Nat /\ j >= 1 /\ j <= Len(u) + 1
      /\ \E a \in 1 .. Len(u) : /\ Before(u, a, m) /\ TermPlace(place, u, a, j, n)
                                /\ Unsigned(u, a) \in Nat /\ Unsigned(u, a) >= 1
  BY <1>1, TermOpen
<1>3. PICK a \in 1 .. Len(u) : /\ Before(u, a, m) /\ TermPlace(place, u, a, j, n)
                               /\ Unsigned(u, a) \in Nat /\ Unsigned(u, a) >= 1
  BY <1>2
<1>4. PICK b \in Nat \ {0} : b = Unsigned(u, a)
  BY <1>3
<1>5. /\ u[a] # "-" /\ u[b] \in Registers /\ n.reg = Number[u[b]]
      /\ b + 1 <= Len(u) /\ u[b + 1] = "*" /\ SignedAt(u, b + 2, j, n.minus)
  BY <1>1, <1>3, <1>4 DEF TermPlace, RegisterAt, StarAt
<1>6. PICK ts : Sofar(u, ts, a) /\ m = LaxAddressOf(ts)
  BY <1>3 DEF Before
<1>7. j \in 1 .. Len(u) + 1
  BY <1>2
<1>8. ASSUME TokenIn(u, j) \notin Literals PROVE ~ GoodAddress(u)
  <2>1. j <= Len(u) => u[j] \notin Literals
    BY <1>8 DEF TokenIn
  <2>2. NoTermAt(u, a, b)
    BY <1>5, <1>7, <2>1 DEF NoTermAt
  <2> QED BY <1>4, <1>6, <2>2, BadTermSpoils DEF GoodAddress
<1>9. ASSUME TokenIn(u, j) \in Literals, NEW w, w.reg = n.reg, w.scale = Signed(n.minus, Value[TokenIn(u, j)])
      PROVE  InBrackets("index", u, j + 1, m, w)
  <2>1. j <= Len(u) /\ u[j] = TokenIn(u, j) /\ j \in 1 .. Len(u) /\ (j + 1) - 1 = j
    BY <1>2, <1>9, TokenKinds DEF TokenIn
  <2>2. /\ Whole(u, a, j + 1) /\ Reader!IsScaled(Piece(u, a, j))
        /\ Number[u[b]] = Reader!RegOf(Piece(u, a, j))
        /\ Byte(Signed(n.minus, Value[u[j]])) = LaxScaleOf(Piece(u, a, j))
    BY <1>4, <1>5, <1>9, <2>1, WholeLast
  <2>3. TermPlace("index", u, a, j + 1, w)
    BY <1>1, <1>5, <1>9, <2>1, <2>2 DEF TermPlace
  <2>4. j + 1 \in 1 .. Len(u) + 1
    BY <1>2, <2>1
  <2> QED BY <1>1, <1>3, <2>3, <2>4, InTerm
<1> QED BY <1>8, <1>9

\* The clamped integer stays where it is.
LEMMA ClampStep ==
  ASSUME NEW u \in Seq(Tokens), NEW j, NEW m, NEW n, InBrackets("int", u, j, m, n)
  PROVE  InBrackets("clamped", u, j, m, n)
<1>1. {"int", "clamped"} \subseteq Numeral /\ "int" \notin TermPlaces /\ "clamped" \notin TermPlaces
  BY DEF TermPlaces, Numeral
<1>2. PICK a \in 1 .. Len(u) : Before(u, a, m) /\ TermPlace("int", u, a, j, n)
  BY <1>1 DEF InBrackets
<1>3. TermPlace("clamped", u, a, j, n)
  BY <1>1, <1>2 DEF TermPlace, TermPlaces
<1>4. j \in 1 .. Len(u) + 1
  BY DEF InBrackets
<1> QED BY <1>1, <1>2, <1>3, <1>4, InTerm

\* The star behind a scale, and the register behind the star.
LEMMA StarRegStep ==
  ASSUME NEW u \in Seq(Tokens), NEW j, NEW m, NEW n, InBrackets("star", u, j, m, n)
  PROVE  /\ InBrackets("indexReg", u, j + 1, m, n) /\ TokenIn(u, j) = "*"
<1>1. {"star", "indexReg"} \subseteq TermPlaces /\ "star" \notin Numeral /\ "indexReg" \notin Numeral
  BY DEF TermPlaces, Numeral
<1>2. /\ Len(u) \in Nat /\ j \in Nat /\ j >= 1 /\ j <= Len(u) + 1
      /\ \E a \in 1 .. Len(u) : /\ Before(u, a, m) /\ TermPlace("star", u, a, j, n)
                                /\ Unsigned(u, a) \in Nat /\ Unsigned(u, a) >= 1
  BY <1>1, TermOpen
<1>3. PICK a \in 1 .. Len(u) : /\ Before(u, a, m) /\ TermPlace("star", u, a, j, n)
                               /\ Unsigned(u, a) \in Nat /\ Unsigned(u, a) >= 1
  BY <1>2
<1> DEFINE b == Unsigned(u, a)
<1>4. u[a] # "-" /\ j = b + 1 /\ ScaleAt(u, b, n.scale) /\ StarAt(u, b + 1)
  BY <1>3 DEF TermPlace
<1>5. j <= Len(u) /\ u[j] = "*"
  BY <1>4 DEF StarAt
<1>6. j + 1 = b + 2 /\ j + 1 \in 1 .. Len(u) + 1
  BY <1>2, <1>3, <1>4, <1>5
<1>7. TermPlace("indexReg", u, a, j + 1, n)
  BY <1>1, <1>4, <1>6 DEF TermPlace
<1>8. InBrackets("indexReg", u, j + 1, m, n)
  BY <1>1, <1>3, <1>6, <1>7, InTerm
<1>9. TokenIn(u, j) = "*"
  BY <1>5 DEF TokenIn
<1> QED BY <1>8, <1>9

\* Behind the star of a scale only a register follows.
LEMMA IndexRegStep ==
  ASSUME NEW u \in Seq(Tokens), NEW j, NEW m, NEW n, InBrackets("indexReg", u, j, m, n)
  PROVE  /\ TokenIn(u, j) \notin Registers => ~ GoodAddress(u)
         /\ TokenIn(u, j) \in Registers =>
              \A w : w.reg = Number[TokenIn(u, j)] /\ w.scale = n.scale => InBrackets("index", u, j + 1, m, w)
<1>1. {"index", "indexReg"} \subseteq TermPlaces /\ "index" \notin Numeral /\ "indexReg" \notin Numeral
  BY DEF TermPlaces, Numeral
<1>2. /\ Len(u) \in Nat /\ j \in Nat /\ j >= 1 /\ j <= Len(u) + 1
      /\ \E a \in 1 .. Len(u) : /\ Before(u, a, m) /\ TermPlace("indexReg", u, a, j, n)
                                /\ Unsigned(u, a) \in Nat /\ Unsigned(u, a) >= 1
  BY <1>1, TermOpen
<1>3. PICK a \in 1 .. Len(u) : /\ Before(u, a, m) /\ TermPlace("indexReg", u, a, j, n)
                               /\ Unsigned(u, a) \in Nat /\ Unsigned(u, a) >= 1
  BY <1>2
<1>4. PICK b \in Nat \ {0} : b = Unsigned(u, a)
  BY <1>3
<1>5. /\ u[a] # "-" /\ j = b + 2 /\ u[b] \in Literals /\ n.scale = Value[u[b]]
      /\ b + 1 <= Len(u) /\ u[b + 1] = "*"
  BY <1>1, <1>3, <1>4 DEF TermPlace, ScaleAt, StarAt
<1>6. PICK ts : Sofar(u, ts, a) /\ m = LaxAddressOf(ts)
  BY <1>3 DEF Before
<1>7. ASSUME TokenIn(u, j) \notin Registers PROVE ~ GoodAddress(u)
  <2>1. b + 2 <= Len(u) => u[b + 2] \notin Registers
    BY <1>5, <1>7 DEF TokenIn
  <2>2. NoTermAt(u, a, b)
    BY <1>5, <2>1 DEF NoTermAt
  <2> QED BY <1>4, <1>6, <2>2, BadTermSpoils DEF GoodAddress
<1>8. ASSUME TokenIn(u, j) \in Registers, NEW w, w.reg = Number[TokenIn(u, j)], w.scale = n.scale
      PROVE  InBrackets("index", u, j + 1, m, w)
  <2>1. b + 2 <= Len(u) /\ u[b + 2] = TokenIn(u, j)
    BY <1>2, <1>5, <1>8, TokenKinds DEF TokenIn
  <2>2. /\ Whole(u, a, b + 3) /\ Reader!IsScaled(Piece(u, a, b + 2))
        /\ Number[u[b + 2]] = Reader!RegOf(Piece(u, a, b + 2))
        /\ Byte(Value[u[b]]) = LaxScaleOf(Piece(u, a, b + 2))
    BY <1>4, <1>5, <1>8, <2>1, WholeHead
  <2>3. b + 3 = j + 1 /\ b + 2 = (j + 1) - 1 /\ j + 1 \in 1 .. Len(u) + 1
    BY <1>2, <1>5, <2>1
  <2>4. /\ Whole(u, a, j + 1) /\ Reader!IsScaled(Piece(u, a, (j + 1) - 1))
        /\ w.reg = Reader!RegOf(Piece(u, a, (j + 1) - 1))
        /\ Byte(w.scale) = LaxScaleOf(Piece(u, a, (j + 1) - 1))
    BY <1>5, <1>8, <2>1, <2>2, <2>3
  <2>5. TermPlace("index", u, a, j + 1, w)
    BY <1>1, <1>5, <2>4 DEF TermPlace
  <2> QED BY <1>1, <1>3, <2>3, <2>5, InTerm
<1> QED BY <1>7, <1>8

\* mem_set_index.
LEMMA IndexDone ==
  ASSUME NEW u \in Seq(Tokens), NEW j, NEW m, NEW n, InBrackets("index", u, j, m, n)
  PROVE  /\ IndexOK(m, n.reg, Byte(n.scale)) => InBrackets("memNext", u, j, WithIndex(m, n.reg, Byte(n.scale)), n)
         /\ ~ IndexOK(m, n.reg, Byte(n.scale)) => ~ GoodAddress(u)
<1>1. "index" \in TermPlaces /\ "index" \notin Numeral
  BY DEF TermPlaces, Numeral
<1>2. /\ Len(u) \in Nat /\ j \in Nat /\ j >= 1 /\ j <= Len(u) + 1
      /\ \E a \in 1 .. Len(u) : /\ Before(u, a, m) /\ TermPlace("index", u, a, j, n)
                                /\ Unsigned(u, a) \in Nat /\ Unsigned(u, a) >= 1
  BY <1>1, TermOpen
<1>3. PICK a \in 1 .. Len(u) : Before(u, a, m) /\ TermPlace("index", u, a, j, n)
  BY <1>2
<1> DEFINE t == Piece(u, a, j - 1)
<1>4. Whole(u, a, j) /\ Reader!IsScaled(t) /\ n.reg = Reader!RegOf(t) /\ Byte(n.scale) = LaxScaleOf(t)
  BY <1>1, <1>3 DEF TermPlace
<1>5. j \in a + 1 .. Len(u) + 1
  BY <1>4 DEF Whole
<1>6. j \in 2 .. Len(u) + 1 /\ j - 1 \in a - 1 .. Len(u) /\ a \in 1 .. Len(u) + 1
  BY <1>2, <1>5
<1>7. t \in TermRecords
  BY <1>6, PieceOf
<1>8. PICK ts : Sofar(u, ts, a) /\ m = LaxAddressOf(ts)
  BY <1>3 DEF Before
<1>9. ts \in Seq(TermRecords) /\ LaxAddressOK(ts)
  BY <1>8 DEF Sofar
<1> HIDE DEF t
<1>10. /\ LaxAddressOK(Append(ts, t)) <=> IndexOK(m, n.reg, Byte(n.scale))
       /\ IndexOK(m, n.reg, Byte(n.scale)) => LaxAddressOf(Append(ts, t)) = WithIndex(m, n.reg, Byte(n.scale))
  BY <1>4, <1>7, <1>8, <1>9, ScaledStep
<1>11. ASSUME IndexOK(m, n.reg, Byte(n.scale))
       PROVE  InBrackets("memNext", u, j, WithIndex(m, n.reg, Byte(n.scale)), n)
  <2> DEFINE mm == WithIndex(m, n.reg, Byte(n.scale))
  <2>1. mm = LaxAddressOf(Append(ts, Piece(u, a, j - 1))) /\ LaxAddressOK(Append(ts, Piece(u, a, j - 1)))
    BY <1>10, <1>11 DEF t
  <2> HIDE DEF mm
  <2>2. AfterTerm(u, j, mm)
    BY <1>4, <1>8, <2>1, TermDone
  <2>3. InBrackets("memNext", u, j, mm, n)
    BY <1>6, <2>2, BackToNext
  <2> QED BY <2>3 DEF mm
<1>12. ASSUME ~ IndexOK(m, n.reg, Byte(n.scale)) PROVE ~ GoodAddress(u)
  <2>1. ~ LaxAddressOK(Append(ts, Piece(u, a, j - 1)))
    BY <1>10, <1>12 DEF t
  <2> QED BY <1>4, <1>8, <2>1, TermRefused DEF GoodAddress
<1> QED BY <1>11, <1>12

\* Behind a term there is the end, a sign or an error.
LEMMA NextStep ==
  ASSUME NEW u \in Seq(Tokens), NEW j, NEW m, NEW n, InBrackets("memNext", u, j, m, n)
  PROVE  /\ j = Len(u) + 1 => GoodAddress(u) /\ m = LaxAddressOf(Reader!Terms(u)) /\ Len(u) > 0
         /\ j # Len(u) + 1 /\ TokenIn(u, j) \notin Signs => ~ GoodAddress(u)
<1>1. Len(u) \in Nat /\ j \in Nat /\ j > 1 /\ j <= Len(u) + 1
  <2>1. Len(u) \in Nat
    OBVIOUS
  <2> QED BY <2>1 DEF InBrackets
<1>2. AfterTerm(u, j, m)
  BY DEF InBrackets
<1>3. ASSUME j = Len(u) + 1 PROVE GoodAddress(u) /\ m = LaxAddressOf(Reader!Terms(u)) /\ Len(u) > 0
  <2>1. Len(u) > 0
    BY <1>1, <1>3
  <2> QED BY <1>2, <1>3, <2>1 DEF AfterTerm, GoodAddress
<1>4. ASSUME j # Len(u) + 1, TokenIn(u, j) \notin Signs PROVE ~ GoodAddress(u)
  <2>1. u[j] \notin Signs
    BY <1>1, <1>4 DEF TokenIn
  <2> QED BY <1>2, <1>4, <2>1 DEF AfterTerm, GoodAddress
<1> QED BY <1>3, <1>4

\* An address does not start with a closing bracket.
LEMMA EmptyStep ==
  ASSUME NEW u \in Seq(Tokens), NEW m, NEW n, NEW j, InBrackets("mem", u, j, m, n), TokenIn(u, j) = "]"
  PROVE  Len(u) > 0 => ~ GoodAddress(u)
<1>1. Len(u) \in Nat /\ j = 1
  <2>1. Len(u) \in Nat
    OBVIOUS
  <2> QED BY <2>1 DEF InBrackets
<1> SUFFICES ASSUME Len(u) > 0 PROVE ~ GoodAddress(u)
  OBVIOUS
<1>2. 1 \in 1 .. Len(u) /\ u[1] = "]"
  BY <1>1 DEF TokenIn
<1>3. Unsigned(u, 1) = 1
  BY <1>2, TokenKinds DEF Unsigned
<1>4. NoTermAt(u, 1, 1)
  BY <1>2, TokenKinds DEF NoTermAt
<1> QED BY <1>2, <1>3, <1>4, NothingSofar, BadTermSpoils DEF GoodAddress

-----------------------------------------------------------------------------
(* 7. The steps within a part. *)

\* The places within a part.
PartPlaces == {"taken", "symbol", "sized", "bracket", "empty"} \cup MemPlaces \cup Numeral

\* An operand of which the value is still to come.
OpenNode(kind, name, mem, sized, o) == o = Node(kind, name, 0, mem, sized, o.from, 0)

MemNode(s, o) == OpenNode("mem", "", o.mem, s[1] = "size", o)

\* Between the brackets of an operand of which s is the text.
MemoryPlace(place, s, k, o, n) ==
  /\ Reader!Bracket(s) <= Len(s) /\ s[Reader!Bracket(s)] = "[" /\ k > Reader!Bracket(s)
  /\ MemNode(s, o)
  /\ s[Len(s)] = "]" => InBrackets(place, Reader!Inner(s), k - Reader!Bracket(s), o.mem, n)

NameFirst(s, o) ==
  /\ Reader!IsName(s, Idents \ (Registers \cup {"size"})) /\ OpenNode("imm", s[1], EmptyMem, FALSE, o)

IntFirst(head, s, k, o, n) ==
  /\ Len(s) > 0 /\ s[1] \in Literals \cup Signs /\ SignedAt(s, 1, k, n.minus)
  /\ OpenNode(IF head = "dir" THEN "int" ELSE "imm", "", EmptyMem, FALSE, o)

\* The integer is an argument or operand, or what is added to a name.
NumberPlace(head, s, k, o, n) ==
  \/ IntFirst(head, s, k, o, n)
  \/ head # "dir" /\ NameFirst(s, o) /\ k = 3 /\ SignedAt(s, 2, k, n.minus)

\* The part has been read to token k, and is one if it ends there.
TakenOK(head, s, k, o) ==
  IF k = Len(s) + 1
  THEN Valid(head, s) /\ [o EXCEPT !.to = o.from + k - 2] = NodeOf(head, s, o.from, o.from + k - 2)
  ELSE ~ Valid(head, s)

\* What the parser knows at token k of the part of which s is the text.
PartOK(place, head, s, k, o, n) ==
  /\ k \in 1 .. Len(s) + 1
  /\ place \in {"symbol", "sized", "bracket"} \cup MemPlaces => head # "dir"
  /\ place \in Numeral /\ n.then = "index" => head # "dir"
  /\ place = "clamped" => k <= Len(s) /\ s[k] = "big"
  /\ place = "star"    => k <= Len(s) /\ s[k] = "*"
  /\ place = "taken"   => TakenOK(head, s, k, o)
  /\ place = "empty"   => ~ Valid(head, s)
  /\ place = "symbol"  => NameFirst(s, o) /\ k = 2
  /\ place \in {"sized", "bracket"} => Len(s) > 0 /\ s[1] = "size" /\ OpenNode("mem", "", EmptyMem, TRUE, o)
  /\ place = "sized"   => k = 2
  /\ place = "bracket" => k = 3 /\ s[2] = "ptr"
  /\ place \in Numeral /\ n.then = "taken" => NumberPlace(head, s, k, o, n)
  /\ place \in MemPlaces \/ (place \in Numeral /\ n.then = "index") => MemoryPlace(place, s, k, o, n)

\* How many tokens an operand has before its bracket.
LEMMA BracketIs ==
  ASSUME NEW s \in Seq(Tokens)
  PROVE  /\ Reader!Bracket(s) \in 1 .. 3
         /\ (Reader!Bracket(s) = 1 <=> ~ (Len(s) > 0 /\ s[1] = "size"))
         /\ (Reader!Bracket(s) = 3 <=> Len(s) > 1 /\ s[1] = "size" /\ s[2] = "ptr")
<1>1. Len(s) \in Nat
  OBVIOUS
<1> QED BY <1>1 DEF Reader!Bracket

\* What there is between the brackets.
LEMMA InnerIs ==
  ASSUME NEW s \in Seq(Tokens), NEW b, b = Reader!Bracket(s), b <= Len(s), s[b] = "[", s[Len(s)] = "]"
  PROVE  LET u == Reader!Inner(s)
         IN /\ u \in Seq(Tokens) /\ Len(u) = Len(s) - 1 - b /\ Len(u) \in Nat /\ b \in Nat \ {0} /\ Len(s) \in Nat
            /\ \A j \in 1 .. Len(u) + 1 : TokenIn(u, j) = s[b + j]
            /\ \A j \in 1 .. Len(u) : u[j] = s[b + j]
<1> DEFINE u == Reader!Inner(s)
<1>1. b \in 1 .. 3 /\ Len(s) \in Nat
  BY BracketIs
<1>2. b # Len(s)
  OBVIOUS
<1>3. b + 1 \in 1 .. Len(s) + 1 /\ Len(s) - 1 \in (b + 1) - 1 .. Len(s) /\ b \in Nat \ {0} /\ b < Len(s)
  BY <1>1, <1>2
<1>4. u = SubSeq(s, b + 1, Len(s) - 1)
  BY DEF Reader!Inner
<1>5. /\ u \in Seq(Tokens) /\ Len(u) = (Len(s) - 1) - (b + 1) + 1
      /\ \A k \in 1 .. (Len(s) - 1) - (b + 1) + 1 : u[k] = s[(b + 1) + k - 1]
  <2> DEFINE p == b + 1
             q == Len(s) - 1
  <2>1. p \in 1 .. Len(s) + 1 /\ q \in p - 1 .. Len(s)
    BY <1>3
  <2> HIDE DEF p, q
  <2>2. LET v == SubSeq(s, p, q)
        IN v \in Seq(Tokens) /\ Len(v) = q - p + 1 /\ \A k \in 1 .. q - p + 1 : v[k] = s[p + k - 1]
    BY <2>1, PieceIs
  <2> QED BY <1>4, <2>2 DEF p, q
<1> HIDE DEF u
<1>6. Len(u) = Len(s) - 1 - b /\ Len(u) \in Nat
  <2> DEFINE n == Len(u)
             l == Len(s)
  <2>1. n = (l - 1) - (b + 1) + 1 /\ l \in Nat /\ b \in Nat /\ b < l
    BY <1>1, <1>3, <1>5
  <2> HIDE DEF n, l
  <2>2. n = l - 1 - b /\ n \in Nat
    BY ONLY <2>1
  <2> QED BY <2>2 DEF n, l
<1>7. ASSUME NEW j \in 1 .. Len(u) PROVE u[j] = s[b + j]
  <2>1. j \in 1 .. (Len(s) - 1) - (b + 1) + 1 /\ (b + 1) + j - 1 = b + j
    BY <1>1, <1>3, <1>5, <1>6
  <2> QED BY <1>5, <2>1
<1>8. ASSUME NEW j \in 1 .. Len(u) + 1 PROVE TokenIn(u, j) = s[b + j]
  <2>1. CASE j <= Len(u)
    <3>1. j \in 1 .. Len(u)
      BY <1>6, <2>1
    <3> QED BY <1>7, <2>1, <3>1 DEF TokenIn
  <2>2. CASE ~ (j <= Len(u))
    <3> DEFINE n == Len(u)
               l == Len(s)
    <3>1. n = l - 1 - b /\ l \in Nat /\ b \in Nat /\ n \in Nat /\ j \in 1 .. n + 1 /\ ~ (j <= n)
      BY <1>1, <1>3, <1>6, <2>2
    <3> HIDE DEF n, l
    <3>2. b + j = l
      BY ONLY <3>1
    <3>3. b + j = Len(s)
      BY <3>2 DEF l
    <3> QED BY <2>2, <3>3 DEF TokenIn
  <2> QED BY <2>1, <2>2
<1> QED BY <1>1, <1>3, <1>5, <1>6, <1>7, <1>8 DEF u

\* An operand that opens with a bracket is a memory operand or none.
LEMMA MemoryIs ==
  ASSUME NEW s \in Seq(Tokens), NEW b, b = Reader!Bracket(s), b <= Len(s), s[b] = "["
  PROVE  /\ LaxIsOperand(s) <=> LaxIsMemory(s)
         /\ s[Len(s)] # "]" => ~ LaxIsMemory(s)
         /\ s[Len(s)] = "]" =>
              (LaxIsMemory(s) <=> Len(Reader!Inner(s)) > 0 /\ GoodAddress(Reader!Inner(s)))
<1>1. b \in 1 .. 3 /\ Len(s) \in Nat /\ Len(s) # 0
  <2>1. b \in 1 .. 3 /\ Len(s) \in Nat
    BY BracketIs
  <2> QED BY <2>1
<1>2. s[1] = "[" \/ s[1] = "size"
  BY <1>1, BracketIs
<1>3. s[1] \notin Registers \cup Literals \cup Signs \cup (Idents \ (Registers \cup {"size"}))
  BY <1>2 DEF Registers, Literals, Signs, Idents
<1>4. ~ Reader!IsInt(s)
  <2> SUFFICES ASSUME Reader!IsInt(s) PROVE FALSE
    OBVIOUS
  <2>1. Len(s) \in 1 .. 2 /\ s[Len(s)] \in Literals /\ (Len(s) = 2 => s[1] \in Signs)
    BY ReaderNames DEF Reader!IsInt
  <2>2. Len(s) = 1
    BY <1>1, <1>3, <2>1
  <2> QED BY <1>3, <2>1, <2>2
<1>5. LaxIsOperand(s) <=> LaxIsMemory(s)
  BY <1>3, <1>4, ReaderNames DEF LaxIsOperand, Reader!IsName
<1>6. s[Len(s)] # "]" => ~ LaxIsMemory(s)
  BY DEF LaxIsMemory, Reader!Bracketed
<1>7. ASSUME s[Len(s)] = "]"
      PROVE  LaxIsMemory(s) <=> Len(Reader!Inner(s)) > 0 /\ GoodAddress(Reader!Inner(s))
  <2>1. Len(Reader!Inner(s)) = Len(s) - 1 - b
    BY <1>7, InnerIs
  <2>2. Len(s) > b + 1 <=> Len(Reader!Inner(s)) > 0
    BY <1>1, <2>1
  <2> QED BY <1>7, <2>2 DEF LaxIsMemory, Reader!Bracketed, GoodAddress
<1> QED BY <1>5, <1>6, <1>7

\* An operand with one field set.
LEMMA OpenFields ==
  ASSUME NEW kind, NEW name, NEW m, NEW sized, NEW o, OpenNode(kind, name, m, sized, o)
  PROVE  o \in [kind : {kind}, name : {name}, value : {0}, mem : {m}, sized : {sized}, from : {o.from}, to : {0}]
BY DEF OpenNode, Node

\* A node under construction, once its end is known,
LEMMA OpenTo ==
  ASSUME NEW kind, NEW name, NEW m, NEW sized, NEW o, OpenNode(kind, name, m, sized, o), NEW x
  PROVE  [o EXCEPT !.to = x] = Node(kind, name, 0, m, sized, o.from, x)
<1>1. o \in [kind : {kind}, name : {name}, value : {0}, mem : {m}, sized : {sized}, from : {o.from}, to : {0}]
  BY OpenFields
<1> QED BY ONLY <1>1 DEF Node

\* or with another address.
LEMMA OpenMem ==
  ASSUME NEW kind, NEW name, NEW m, NEW sized, NEW o, OpenNode(kind, name, m, sized, o), NEW x
  PROVE  /\ OpenNode(kind, name, x, sized, [o EXCEPT !.mem = x])
         /\ [o EXCEPT !.mem = x].from = o.from /\ [o EXCEPT !.mem = x].mem = x
<1>1. o \in [kind : {kind}, name : {name}, value : {0}, mem : {m}, sized : {sized}, from : {o.from}, to : {0}]
  BY OpenFields
<1> DEFINE w == [o EXCEPT !.mem = x]
<1>2. w \in [kind : {kind}, name : {name}, value : {0}, mem : {x}, sized : {sized}, from : {o.from}, to : {0}]
  BY ONLY <1>1
<1>3. w.from = o.from /\ w.mem = x
  BY ONLY <1>1
<1> HIDE DEF w
<1>4. w = Node(kind, name, 0, x, sized, w.from, 0)
  BY ONLY <1>2, <1>3 DEF Node
<1> QED BY <1>3, <1>4, Zenon DEF w, OpenNode

\* The token the parser sees when it has read a part up to k.
CurIs(s, k, c) == IF k <= Len(s) THEN c = s[k] ELSE c \in Seps

\* What separates parts is no part of one.
LEMMA SepsAre ==
  /\ Seps \cap (Idents \cup Literals \cup Signs) = {}
  /\ "str" \notin Seps /\ "[" \notin Seps /\ "]" \notin Seps /\ "*" \notin Seps /\ "dir" \notin Seps /\ ":" \notin Seps
BY CommaIs DEF Seps, LineEnd, Idents, Registers, Literals, Signs

\* A part that starts with a token of its own is none of the other kinds.
LEMMA PartShape ==
  ASSUME NEW s \in Seq(Tokens)
  PROVE  /\ Len(s) \in Nat /\ Reader!Bracket(s) \in 1 .. 3
         /\ Reader!IsInt(s) => /\ Len(s) > 0 /\ (Len(s) = 1 => s[1] \in Literals) /\ (Len(s) > 1 => s[1] \in Signs)
                               /\ Len(s) < 3
         /\ LaxIsMemory(s) => Len(s) > 2 /\ s[1] \in {"size", "["} /\ s[Reader!Bracket(s)] = "["
         /\ LaxIsOperand(s) <=>     \/ Reader!IsInt(s) \/ LaxIsMemory(s)
                                    \/ Len(s) = 1 /\ s[1] \in Registers
                                    \/ /\ Len(s) > 0 /\ s[1] \in Idents \ (Registers \cup {"size"})
                                       /\ Len(s) > 1 => s[2] \in Signs /\ Reader!IsInt(Tail(s))
         /\ Reader!IsArgument(s) <=> Reader!IsInt(s) \/ (Len(s) = 1 /\ s[1] \in Idents \cup {"str"})
<1>1. Len(s) \in Nat /\ Reader!Bracket(s) \in 1 .. 3
  BY BracketIs
<1>2. ASSUME Reader!IsInt(s)
      PROVE  Len(s) > 0 /\ (Len(s) = 1 => s[1] \in Literals) /\ (Len(s) > 1 => s[1] \in Signs) /\ Len(s) < 3
  <2>1. Len(s) \in 1 .. 2 /\ s[Len(s)] \in Literals /\ (Len(s) = 2 => s[1] \in Signs)
    BY <1>2, ReaderNames DEF Reader!IsInt
  <2> QED BY <2>1
<1>3. ASSUME LaxIsMemory(s) PROVE Len(s) > 2 /\ s[1] \in {"size", "["} /\ s[Reader!Bracket(s)] = "["
  <2>1. Len(s) > Reader!Bracket(s) + 1 /\ s[Reader!Bracket(s)] = "["
    BY <1>3 DEF LaxIsMemory, Reader!Bracketed
  <2>2. Len(s) > 2
    BY <1>1, <2>1
  <2>3. s[1] = "size" \/ Reader!Bracket(s) = 1
    BY BracketIs
  <2> QED BY <2>1, <2>2, <2>3
<1>4. Reader!IsArgument(s) <=> Reader!IsInt(s) \/ (Len(s) = 1 /\ s[1] \in Idents \cup {"str"})
  BY ReaderNames DEF Reader!IsArgument
<1>5. LaxIsOperand(s) <=>     \/ Reader!IsInt(s) \/ LaxIsMemory(s)
                              \/ Len(s) = 1 /\ s[1] \in Registers
                              \/ /\ Len(s) > 0 /\ s[1] \in Idents \ (Registers \cup {"size"})
                                 /\ Len(s) > 1 => s[2] \in Signs /\ Reader!IsInt(Tail(s))
  BY ReaderNames DEF LaxIsOperand, Reader!IsName
<1> QED BY <1>1, <1>2, <1>3, <1>4, <1>5

\* The first token of a part.
LEMMA FirstToken ==
  ASSUME NEW s \in Seq(Tokens), NEW c, CurIs(s, 1, c)
  PROVE  /\ c \notin Seps => /\ Len(s) > 0 /\ 1 <= Len(s) /\ s[1] = c
                            /\ 1 \in 1 .. Len(s) + 1 /\ 2 \in 1 .. Len(s) + 1
                            /\ (Len(s) = 1 \/ Len(s) > 1)
         /\ Len(s) > 0 => s[1] = c /\ (Len(s) = 1 \/ Len(s) > 1)
         /\ 2 = Len(s) + 1 <=> Len(s) = 1
<1>1. Len(s) \in Nat
  OBVIOUS
<1>4. \A l \in Nat : /\ 1 <= l <=> l > 0
                     /\ 1 <= l => 1 \in 1 .. l + 1 /\ 2 \in 1 .. l + 1
                     /\ l > 0 => l = 1 \/ l > 1
                     /\ 2 = l + 1 <=> l = 1
  OBVIOUS
<1>2. 1 <= Len(s) => s[1] = c
  BY DEF CurIs
<1>3. c \notin Seps => 1 <= Len(s)
  BY DEF CurIs
<1> QED BY <1>1, <1>2, <1>3, <1>4

\* What the token of a part tells of what it is not.
LEMMA KindsApart ==
  /\ Registers \cap (Literals \cup Signs \cup {"size", "[", "str", "dir"}) = {}
  /\ Idents \cap (Literals \cup Signs \cup {"[", "str", "dir"}) = {}
  /\ Literals \cap (Signs \cup {"[", "str", "dir", "size", "ptr"}) = {}
  /\ Signs \cap {"[", "str", "dir", "size", "ptr"} = {} /\ "size" \in Idents /\ Registers \subseteq Idents
BY DEF Registers, Idents, Literals, Signs

\* An argument that is a name or a string is complete.
LEMMA PlainArgStep ==
  ASSUME NEW s \in Seq(Tokens), NEW c \in Idents \cup {"str"}, CurIs(s, 1, c), NEW n, NEW f \in Nat, NEW o,
         o = Node(IF c = "str" THEN "str" ELSE "symbol", c, 0, EmptyMem, FALSE, f, 0)
  PROVE  PartOK("taken", "dir", s, 2, o, n)
<1>1. c \notin Seps /\ c \notin Literals \cup Signs
  BY SepsAre, KindsApart
<1>2. Len(s) > 0 /\ s[1] = c /\ 2 \in 1 .. Len(s) + 1 /\ Len(s) \in Nat
  BY <1>1, FirstToken
<1>3. ~ Reader!IsInt(s)
  <2>1. Len(s) = 1 \/ Len(s) > 1
    BY <1>1, FirstToken
  <2> QED BY <1>1, <1>2, <2>1, PartShape
<1>4. TakenOK("dir", s, 2, o)
  <2>1. CASE 2 = Len(s) + 1
    <3>1. Len(s) = 1
      BY <2>1, FirstToken
    <3>2. Valid("dir", s)
      BY <1>2, <3>1, PartShape DEF Valid
    <3>3. NodeOf("dir", s, f, f) = Node(IF c = "str" THEN "str" ELSE "symbol", c, 0, EmptyMem, FALSE, f, f)
      BY <1>2, <1>3, ReaderNodes, ReaderNames DEF NodeOf, Reader!ArgumentOf
    <3>4. o.from = f
      BY DEF Node
    <3>6. f + 2 - 2 = f
      OBVIOUS
    <3>5. [o EXCEPT !.to = f] = Node(IF c = "str" THEN "str" ELSE "symbol", c, 0, EmptyMem, FALSE, f, f)
      <4> DEFINE kd == IF c = "str" THEN "str" ELSE "symbol"
                 sz == FALSE
      <4>1. o \in [kind : {kd}, name : {c}, value : {0}, mem : {EmptyMem}, sized : {sz}, from : {f}, to : {0}]
        BY DEF Node
      <4> HIDE DEF kd, sz
      <4>2. [o EXCEPT !.to = f] = Node(kd, c, 0, EmptyMem, sz, f, f)
        BY ONLY <4>1 DEF Node
      <4> QED BY ONLY <4>2, Zenon DEF kd, sz
    <3> QED BY <2>1, <3>2, <3>3, <3>4, <3>5, <3>6 DEF TakenOK
  <2>2. CASE 2 # Len(s) + 1
    <3>1. Len(s) # 1
      BY <2>2, FirstToken
    <3>2. ~ Valid("dir", s)
      BY <1>3, <3>1, PartShape DEF Valid
    <3> QED BY <2>2, <3>2 DEF TakenOK
  <2> QED BY <2>1, <2>2
<1> QED BY <1>2, <1>4 DEF PartOK, MemPlaces, TermPlaces, Numeral

\* An integer starts with its sign, or with itself.
LEMMA IntPartStep ==
  ASSUME NEW s \in Seq(Tokens), NEW c \in Literals \cup Signs, CurIs(s, 1, c), NEW f, NEW o, NEW head,
         o = Node(IF head = "dir" THEN "int" ELSE "imm", "", 0, EmptyMem, FALSE, f, 0),
         NEW n, n.then = "taken", n.minus <=> c = "-"
  PROVE  PartOK("int", head, s, IF c \in Signs THEN 2 ELSE 1, o, n)
<1>1. c \notin Seps /\ (c = "-" => c \in Signs)
  BY SepsAre DEF Signs
<1>2. Len(s) > 0 /\ s[1] = c /\ 2 \in 1 .. Len(s) + 1 /\ 1 \in 1 .. Len(s) + 1 /\ Len(s) \in Nat /\ 1 <= Len(s)
  BY ONLY <1>1, FirstToken, s \in Seq(Tokens), CurIs(s, 1, c)
<1> DEFINE k == IF c \in Signs THEN 2 ELSE 1
<1>3. SignedAt(s, 1, k, n.minus)
  <2>1. CASE c \in Signs
    <3>1. k = 1 + 1
      BY ONLY <2>1
    <3> QED BY <1>2, <2>1, <3>1 DEF SignedAt
  <2>2. CASE c \notin Signs
    BY <1>1, <1>2, <2>2 DEF SignedAt
  <2> QED BY <2>1, <2>2
<1>4. OpenNode(IF head = "dir" THEN "int" ELSE "imm", "", EmptyMem, FALSE, o)
  BY DEF OpenNode, Node
<1>5. k \in 1 .. Len(s) + 1
  BY <1>2
<1> HIDE DEF k
<1>6. NumberPlace(head, s, k, o, n)
  BY <1>2, <1>3, <1>4 DEF NumberPlace, IntFirst
<1>7. PartOK("int", head, s, k, o, n)
  BY <1>5, <1>6 DEF PartOK, MemPlaces, TermPlaces, Numeral
<1> QED BY <1>7 DEF k

\* A token that starts no argument, or no operand, spoils it.
LEMMA BadPart ==
  ASSUME NEW s \in Seq(Tokens), NEW c, CurIs(s, 1, c)
  PROVE  /\ c \notin Idents \cup {"str"} \cup Literals \cup Signs => ~ Valid("dir", s)
         /\ c \notin Idents \cup Literals \cup Signs \cup {"["} => ~ LaxIsOperand(s)
<1>1. Len(s) > 0 => s[1] = c
  BY FirstToken
<1>2. Reader!IsInt(s) => c \in Literals \cup Signs
  <2>1. Len(s) > 0 => Len(s) = 1 \/ Len(s) > 1
    BY FirstToken
  <2> QED BY <1>1, <2>1, PartShape
<1>3. LaxIsMemory(s) => c \in Idents \cup {"["}
  <2>1. Len(s) > 2 => Len(s) > 0
    OBVIOUS
  <2> QED BY <1>1, <2>1, PartShape, KindsApart
<1>4. Len(s) = 1 => Len(s) > 0
  OBVIOUS
<1> QED BY <1>1, <1>2, <1>3, <1>4, PartShape, KindsApart DEF Valid

\* An operand that is a register is complete.
LEMMA RegisterStep ==
  ASSUME NEW s \in Seq(Tokens), NEW c \in Registers, CurIs(s, 1, c), NEW n, NEW f \in Nat, NEW o,
         o = Node("reg", c, 0, EmptyMem, FALSE, f, 0), NEW head, head # "dir"
  PROVE  PartOK("taken", head, s, 2, o, n)
<1>1. c \notin Seps /\ c \notin Literals \cup Signs /\ c \in Registers /\ c # "size" /\ c # "["
  BY SepsAre, KindsApart
<1>2. Len(s) > 0 /\ s[1] = c /\ 2 \in 1 .. Len(s) + 1 /\ Len(s) \in Nat
  BY <1>1, FirstToken
<1>3. ~ Reader!IsInt(s)
  <2>1. Len(s) = 1 \/ Len(s) > 1
    BY <1>1, FirstToken
  <2> QED BY <1>1, <1>2, <2>1, PartShape
<1>4. ~ LaxIsMemory(s)
  BY <1>1, <1>2, PartShape
<1>5. TakenOK(head, s, 2, o)
  <2>1. CASE 2 = Len(s) + 1
    <3>1. Len(s) = 1
      BY <2>1, FirstToken
    <3>2. Valid(head, s)
      BY <1>2, <3>1, PartShape DEF Valid
    <3>3. NodeOf(head, s, f, f) = Node("reg", c, 0, EmptyMem, FALSE, f, f)
      BY <1>2, <1>3, <1>4, ReaderNodes, ReaderNames DEF NodeOf, LaxOperandOf
    <3>4. o.from = f
      BY DEF Node
    <3>6. f + 2 - 2 = f
      OBVIOUS
    <3>5. [o EXCEPT !.to = f] = Node("reg", c, 0, EmptyMem, FALSE, f, f)
      <4> DEFINE kd == "reg"
                 sz == FALSE
      <4>1. o \in [kind : {kd}, name : {c}, value : {0}, mem : {EmptyMem}, sized : {sz}, from : {f}, to : {0}]
        BY DEF Node
      <4> HIDE DEF kd, sz
      <4>2. [o EXCEPT !.to = f] = Node(kd, c, 0, EmptyMem, sz, f, f)
        BY ONLY <4>1 DEF Node
      <4> QED BY ONLY <4>2, Zenon DEF kd, sz
    <3> QED BY <2>1, <3>2, <3>3, <3>4, <3>5, <3>6 DEF TakenOK
  <2>2. CASE 2 # Len(s) + 1
    <3>1. Len(s) # 1
      BY <2>2, FirstToken
    <3>2. ~ Valid(head, s)
      BY <1>2, <1>3, <1>4, <3>1, PartShape DEF Valid
    <3> QED BY <2>2, <3>2 DEF TakenOK
  <2> QED BY <2>1, <2>2
<1> QED BY <1>2, <1>5 DEF PartOK, MemPlaces, TermPlaces, Numeral

\* An operand that starts with a name may have an addend.
LEMMA SymbolStart ==
  ASSUME NEW s \in Seq(Tokens), NEW c \in Idents \ (Registers \cup {"size"}), CurIs(s, 1, c), NEW n, NEW f, NEW o,
         o = Node("imm", c, 0, EmptyMem, FALSE, f, 0), NEW head, head # "dir"
  PROVE  PartOK("symbol", head, s, 2, o, n)
<1>1. c \notin Seps
  BY SepsAre
<1>2. Len(s) > 0 /\ s[1] = c /\ 2 \in 1 .. Len(s) + 1
  BY <1>1, FirstToken
<1>3. OpenNode("imm", s[1], EmptyMem, FALSE, o)
  BY <1>2 DEF OpenNode, Node
<1>4. NameFirst(s, o)
  BY <1>2, <1>3 DEF NameFirst, Reader!IsName
<1> QED BY <1>2, <1>4 DEF PartOK, MemPlaces, TermPlaces, Numeral

\* Behind a size an address follows.
LEMMA SizeStep ==
  ASSUME NEW s \in Seq(Tokens), CurIs(s, 1, "size"), NEW n, NEW f, NEW o,
         o = Node("mem", "", 0, EmptyMem, TRUE, f, 0), NEW head, head # "dir"
  PROVE  PartOK("sized", head, s, 2, o, n)
<1>1. "size" \notin Seps
  BY SepsAre, KindsApart
<1>2. Len(s) > 0 /\ s[1] = "size" /\ 2 \in 1 .. Len(s) + 1
  BY <1>1, FirstToken
<1>3. OpenNode("mem", "", EmptyMem, TRUE, o)
  BY DEF OpenNode, Node
<1> QED BY <1>2, <1>3 DEF PartOK, MemPlaces, TermPlaces, Numeral

\* An operand with its value, that ends with f.
Valued(o, v, f) == [[o EXCEPT !.value = v] EXCEPT !.to = f]

\* An operand that is a name.
LEMMA SymbolEnd ==
  ASSUME NEW s \in Seq(Tokens), NEW head, NEW k, NEW o, NEW n, PartOK("symbol", head, s, k, o, n),
         NEW c, CurIs(s, k, c), c \notin Signs, o.from \in Nat
  PROVE  TakenOK(head, s, k, o)
<1>1. head # "dir" /\ NameFirst(s, o) /\ k = 2
  BY DEF PartOK
<1>2. Len(s) > 0 /\ s[1] \in Idents \ (Registers \cup {"size"}) /\ OpenNode("imm", s[1], EmptyMem, FALSE, o)
  BY <1>1, ReaderNames DEF NameFirst, Reader!IsName
<1>3. s[1] \notin Literals \cup Signs \cup {"[", "size"} \cup Registers
  BY <1>2, KindsApart
<1>4. Len(s) \in Nat /\ (Len(s) = 1 \/ Len(s) > 1) /\ (2 = Len(s) + 1 <=> Len(s) = 1) /\ (Len(s) > 1 <=> 2 <= Len(s))
  <2>1. Len(s) \in Nat
    OBVIOUS
  <2>2. \A l \in Nat : l > 0 => (l = 1 \/ l > 1) /\ (2 = l + 1 <=> l = 1) /\ (l > 1 <=> 2 <= l)
    OBVIOUS
  <2> QED BY <1>2, <2>1, <2>2
<1>5. ~ Reader!IsInt(s) /\ ~ LaxIsMemory(s)
  BY <1>3, <1>4, PartShape
<1>6. CASE Len(s) = 1
  <2>5. ~ (Len(s) > 1)
    BY <1>6
  <2>1. Valid(head, s)
    BY <1>1, <1>2, <1>6, <2>5, PartShape DEF Valid
  <2>2. NodeOf(head, s, o.from, o.from) = Node("imm", s[1], 0, EmptyMem, FALSE, o.from, o.from)
    BY <1>1, <1>3, <1>5, <1>6, ReaderNodes, ReaderNames DEF NodeOf, LaxOperandOf
  <2>3. [o EXCEPT !.to = o.from] = Node("imm", s[1], 0, EmptyMem, FALSE, o.from, o.from)
    <3> DEFINE sz == FALSE
               nm == s[1]
    <3>1. OpenNode("imm", nm, EmptyMem, sz, o)
      BY <1>2
    <3> HIDE DEF sz, nm
    <3>2. [o EXCEPT !.to = o.from] = Node("imm", nm, 0, EmptyMem, sz, o.from, o.from)
      BY ONLY <3>1, OpenTo
    <3> QED BY ONLY <3>2, Zenon DEF sz, nm
  <2>4. o.from + k - 2 = o.from /\ k = Len(s) + 1
    BY <1>1, <1>6
  <2> QED BY <2>1, <2>2, <2>3, <2>4 DEF TakenOK
<1>7. CASE Len(s) > 1
  <2>1. s[2] = c
    BY <1>1, <1>4, <1>7 DEF CurIs
  <2>2. ~ Valid(head, s)
    BY <1>1, <1>3, <1>5, <1>7, <2>1, PartShape DEF Valid
  <2>3. k # Len(s) + 1
    BY <1>1, <1>4, <1>7
  <2> QED BY <2>2, <2>3 DEF TakenOK
<1> QED BY <1>4, <1>6, <1>7

\* What is added to a name starts with a sign.
LEMMA AddendStep ==
  ASSUME NEW s \in Seq(Tokens), NEW head, NEW k, NEW o, NEW n, PartOK("symbol", head, s, k, o, n),
         NEW c \in Signs, CurIs(s, k, c), NEW w, w.then = "taken", w.minus <=> c = "-"
  PROVE  PartOK("int", head, s, 3, o, w)
<1>1. head # "dir" /\ NameFirst(s, o) /\ k = 2
  BY DEF PartOK
<1>2. c \notin Seps
  BY SepsAre
<1>3. 2 <= Len(s) /\ s[2] = c
  BY <1>1, <1>2 DEF CurIs
<1>4. 3 \in 1 .. Len(s) + 1 /\ 3 = 2 + 1
  BY <1>3
<1>5. SignedAt(s, 2, 3, w.minus)
  BY <1>3, <1>4 DEF SignedAt
<1>6. NumberPlace(head, s, 3, o, w)
  BY <1>1, <1>5 DEF NumberPlace
<1> QED BY <1>1, <1>4, <1>6 DEF PartOK, MemPlaces, TermPlaces, Numeral

\* A part that is an integer: its digits are its last token.
LEMMA WholeInt ==
  ASSUME NEW s \in Seq(Tokens), NEW k, NEW minus \in BOOLEAN, SignedAt(s, 1, k, minus), Len(s) > 0
  PROVE  /\ Reader!IsInt(s) <=> Len(s) = k /\ s[k] \in Literals
         /\ Reader!IsInt(s) => Reader!IntOf(s) = Signed(minus, Value[s[k]])
<1>1. Len(s) \in 1 - 1 .. Len(s) /\ 1 \in Nat \ {0}
  OBVIOUS
<1>2. SubSeq(s, 1, Len(s)) = s
  OBVIOUS
<1>3. /\ Reader!IsInt(SubSeq(s, 1, Len(s))) <=> Len(s) = k /\ s[k] \in Literals
      /\ Reader!IsInt(SubSeq(s, 1, Len(s))) => Reader!IntOf(SubSeq(s, 1, Len(s))) = Signed(minus, Value[s[k]])
  BY ONLY <1>1, SignedIs, s \in Seq(Tokens), minus \in BOOLEAN, SignedAt(s, 1, k, minus)
<1> QED BY <1>2, <1>3

\* The same of what is added to a name.
LEMMA TailInt ==
  ASSUME NEW s \in Seq(Tokens), NEW k, NEW minus \in BOOLEAN, SignedAt(s, 2, k, minus), Len(s) > 0
  PROVE  /\ Reader!IsInt(Tail(s)) <=> Len(s) = k /\ s[k] \in Literals
         /\ Reader!IsInt(Tail(s)) => Reader!IntOf(Tail(s)) = Signed(minus, Value[s[k]])
<1>1. Len(s) \in 2 - 1 .. Len(s) /\ 2 \in Nat \ {0}
  OBVIOUS
<1>2. SubSeq(s, 2, Len(s)) = Tail(s)
  OBVIOUS
<1>3. /\ Reader!IsInt(SubSeq(s, 2, Len(s))) <=> Len(s) = k /\ s[k] \in Literals
      /\ Reader!IsInt(SubSeq(s, 2, Len(s))) => Reader!IntOf(SubSeq(s, 2, Len(s))) = Signed(minus, Value[s[k]])
  BY ONLY <1>1, SignedIs, s \in Seq(Tokens), minus \in BOOLEAN, SignedAt(s, 2, k, minus)
<1> QED BY <1>2, <1>3

\* A name to which an integer is added is an operand, or none.
LEMMA NamePartIs ==
  ASSUME NEW s \in Seq(Tokens), NEW head, head # "dir", NEW k, NEW minus \in BOOLEAN, SignedAt(s, 2, k, minus), k = 3,
         NEW o, NEW f, NameFirst(s, o)
  PROVE  /\ Valid(head, s) <=> Len(s) = k /\ s[k] \in Literals
         /\ Valid(head, s) => Valued(o, Signed(minus, Value[s[k]]), f) = NodeOf(head, s, o.from, f)
         /\ Len(s) > 0
<1>1. Len(s) > 0 /\ s[1] \in Idents \ (Registers \cup {"size"}) /\ OpenNode("imm", s[1], EmptyMem, FALSE, o)
  BY ReaderNames DEF NameFirst, Reader!IsName
<1>2. s[1] \notin Literals \cup Signs \cup {"[", "size"} \cup Registers
  BY <1>1, KindsApart
<1>3. Len(s) > 1 /\ s[2] \in Signs /\ Len(s) \in Nat /\ Len(s) # 1
  <2>1. 2 <= Len(s) /\ s[2] \in Signs
    BY DEF SignedAt
  <2> QED BY <2>1
<1>4. ~ Reader!IsInt(s) /\ ~ LaxIsMemory(s)
  BY <1>2, <1>3, PartShape
<1>5. /\ Reader!IsInt(Tail(s)) <=> Len(s) = k /\ s[k] \in Literals
      /\ Reader!IsInt(Tail(s)) => Reader!IntOf(Tail(s)) = Signed(minus, Value[s[k]])
  BY <1>1, TailInt
<1>6. Valid(head, s) <=> Reader!IsInt(Tail(s))
  BY <1>1, <1>3, <1>4, PartShape DEF Valid
<1>7. ASSUME Reader!IsInt(Tail(s))
      PROVE  Valued(o, Signed(minus, Value[s[k]]), f) = NodeOf(head, s, o.from, f)
  <2> DEFINE sz == FALSE
             nm == s[1]
             v  == Signed(minus, Value[s[k]])
  <2>1. OpenNode("imm", nm, EmptyMem, sz, o)
    BY <1>1
  <2>2. NodeOf(head, s, o.from, f) = Node("imm", nm, v, EmptyMem, sz, o.from, f)
    BY <1>2, <1>3, <1>4, <1>5, <1>7, ReaderNodes, ReaderNames DEF NodeOf, LaxOperandOf
  <2> DEFINE w == [o EXCEPT !.value = v]
  <2> HIDE DEF sz, nm, v
  <2>3. o \in [kind : {"imm"}, name : {nm}, value : {0}, mem : {EmptyMem}, sized : {sz}, from : {o.from}, to : {0}]
    BY ONLY <2>1, OpenFields
  <2>4. w \in [kind : {"imm"}, name : {nm}, value : {v}, mem : {EmptyMem}, sized : {sz}, from : {o.from}, to : {0}]
    BY ONLY <2>3
  <2> HIDE DEF w
  <2>5. [w EXCEPT !.to = f] = Node("imm", nm, v, EmptyMem, sz, o.from, f)
    BY ONLY <2>4 DEF Node
  <2>6. [w EXCEPT !.to = f] = NodeOf(head, s, o.from, f)
    BY ONLY <2>2, <2>5, Zenon
  <2> QED BY ONLY <2>6, Zenon DEF v, w, Valued
<1> QED BY <1>1, <1>5, <1>6, <1>7

\* The digits of an argument, of an operand, or of what is added to a name.
LEMMA TakeStep ==
  ASSUME NEW s \in Seq(Tokens), NEW head, NEW place \in Numeral, NEW k, NEW o, NEW n, PartOK(place, head, s, k, o, n),
         n.then = "taken", n.minus \in BOOLEAN, NEW c, CurIs(s, k, c), o \in Nodes
  PROVE  /\ c \in Literals => PartOK("taken", head, s, k + 1, [o EXCEPT !.value = Signed(n.minus, Value[c])], n)
         /\ c \notin Literals => ~ Valid(head, s)
<1>1. NumberPlace(head, s, k, o, n) /\ k \in 1 .. Len(s) + 1
  BY DEF PartOK
<1>2. c \in Literals => k <= Len(s) /\ s[k] = c
  BY SepsAre DEF CurIs
<1>3. k <= Len(s) => s[k] = c
  BY DEF CurIs
<1>4. /\ Valid(head, s) <=> Len(s) = k /\ s[k] \in Literals
      /\ Valid(head, s) => \A f : Valued(o, Signed(n.minus, Value[s[k]]), f) = NodeOf(head, s, o.from, f)
  <2>1. CASE IntFirst(head, s, k, o, n)
    <3>6. /\ Len(s) > 0 /\ s[1] \in Literals \cup Signs /\ SignedAt(s, 1, k, n.minus)
          /\ OpenNode(IF head = "dir" THEN "int" ELSE "imm", "", EmptyMem, FALSE, o)
      BY <2>1 DEF IntFirst
    <3>1. /\ Reader!IsInt(s) <=> Len(s) = k /\ s[k] \in Literals
          /\ Reader!IsInt(s) => Reader!IntOf(s) = Signed(n.minus, Value[s[k]])
      BY <3>6, WholeInt
    <3>2. s[1] \notin Idents \cup {"str", "[", "size"} \cup Registers
      BY <3>6, KindsApart
    <3>3. ~ LaxIsMemory(s)
      BY <3>2, <3>6, PartShape
    <3>4. Valid(head, s) <=> Reader!IsInt(s)
      BY <3>2, <3>3, <3>6, PartShape DEF Valid
    <3>5. ASSUME Reader!IsInt(s), NEW f
          PROVE  Valued(o, Signed(n.minus, Value[s[k]]), f) = NodeOf(head, s, o.from, f)
      <4> DEFINE sz == FALSE
                 kd == IF head = "dir" THEN "int" ELSE "imm"
                 nm == ""
                 v  == Signed(n.minus, Value[s[k]])
      <4>1. OpenNode(kd, nm, EmptyMem, sz, o)
        BY <3>6
      <4>7. Reader!IntOf(s) = v
        BY <3>1, <3>5
      <4>8. head # "dir" => kd = "imm"
        OBVIOUS
      <4>9. sz = FALSE /\ nm = ""
        OBVIOUS
      <4> HIDE DEF v, kd
      <4>2. NodeOf(head, s, o.from, f) = Node(kd, nm, v, EmptyMem, sz, o.from, f)
        <5>1. CASE head = "dir"
          BY <3>5, <4>7, <5>1, ReaderNodes, ReaderNames DEF NodeOf, Reader!ArgumentOf, kd
        <5>2. CASE head # "dir"
          <6>1. LaxOperandOf(s, o.from, f) = Node("imm", "", Reader!IntOf(s), EmptyMem, FALSE, o.from, f)
            BY <3>2, <3>3, <3>5, ReaderNodes, ReaderNames DEF LaxOperandOf
          <6> QED BY <4>7, <4>8, <5>2, <6>1 DEF NodeOf
        <5> QED BY <5>1, <5>2
      <4> DEFINE w == [o EXCEPT !.value = v]
      <4> HIDE DEF sz, nm
      <4>3. o \in [kind : {kd}, name : {nm}, value : {0}, mem : {EmptyMem}, sized : {sz}, from : {o.from}, to : {0}]
        BY ONLY <4>1, OpenFields
      <4>4. w \in [kind : {kd}, name : {nm}, value : {v}, mem : {EmptyMem}, sized : {sz}, from : {o.from}, to : {0}]
        BY ONLY <4>3
      <4> HIDE DEF w
      <4>5. [w EXCEPT !.to = f] = Node(kd, nm, v, EmptyMem, sz, o.from, f)
        BY ONLY <4>4 DEF Node
      <4>6. [w EXCEPT !.to = f] = NodeOf(head, s, o.from, f)
        BY ONLY <4>2, <4>5, Zenon
      <4> QED BY ONLY <4>6, Zenon DEF v, w, Valued
    <3> QED BY <3>1, <3>4, <3>5, Zenon
  <2>2. CASE head # "dir" /\ NameFirst(s, o) /\ k = 3 /\ SignedAt(s, 2, k, n.minus)
    <3>1. Valid(head, s) <=> Len(s) = k /\ s[k] \in Literals
      BY ONLY <2>2, NamePartIs, s \in Seq(Tokens), n.minus \in BOOLEAN
    <3>2. ASSUME Valid(head, s), NEW f
          PROVE  Valued(o, Signed(n.minus, Value[s[k]]), f) = NodeOf(head, s, o.from, f)
      BY ONLY <2>2, <3>2, NamePartIs, s \in Seq(Tokens), n.minus \in BOOLEAN
    <3> QED BY <3>1, <3>2, Zenon
  <2> QED BY <1>1, <2>1, <2>2 DEF NumberPlace
<1>5. ASSUME c \in Literals
      PROVE  PartOK("taken", head, s, k + 1, [o EXCEPT !.value = Signed(n.minus, Value[c])], n)
  <2> DEFINE w == [o EXCEPT !.value = Signed(n.minus, Value[c])]
  <2>1. k \in Nat /\ k + 1 \in 1 .. Len(s) + 1 /\ (k + 1 = Len(s) + 1 <=> Len(s) = k)
    BY <1>1, <1>2, <1>5
  <2>2. w.from = o.from /\ o.from + (k + 1) - 2 = o.from + (k + 1) - 2
    BY DEF Nodes
  <2>3. Valid(head, s) => [w EXCEPT !.to = o.from + (k + 1) - 2] = NodeOf(head, s, o.from, o.from + (k + 1) - 2)
    BY <1>2, <1>4, <1>5 DEF Valued
  <2>4. Valid(head, s) <=> k + 1 = Len(s) + 1
    BY <1>2, <1>4, <1>5, <2>1
  <2> HIDE DEF w
  <2>5. TakenOK(head, s, k + 1, w)
    BY <2>2, <2>3, <2>4 DEF TakenOK
  <2>6. PartOK("taken", head, s, k + 1, w, n)
    BY <2>1, <2>5 DEF PartOK, MemPlaces, TermPlaces, Numeral
  <2> QED BY <2>6 DEF w
<1>6. ASSUME c \notin Literals PROVE ~ Valid(head, s)
  <2>1. Len(s) = k => k <= Len(s)
    BY <1>1
  <2> QED BY <1>3, <1>4, <1>6, <2>1
<1> QED BY <1>5, <1>6

\* Token j between brackets is the current one, d the one behind it, and u all
\* there is between them.
Stands(place, u, j, m, n, c, d) ==
  /\ u \in Seq(Tokens) /\ j \in 1 .. Len(u) + 1 /\ InBrackets(place, u, j, m, n)
  /\ TokenIn(u, j) = c /\ (j + 1 <= Len(u) => u[j + 1] = d) /\ (d = "*" => j + 1 <= Len(u))

\* What there is between brackets is seen only when they are closed.
LEMMA MemOpen ==
  ASSUME NEW s \in Seq(Tokens), NEW place, NEW k \in 1 .. Len(s) + 1, NEW o, NEW n, MemoryPlace(place, s, k, o, n),
         NEW c, CurIs(s, k, c), NEW d, k <= Len(s) => CurIs(s, k + 1, d)
  PROVE  LET b == Reader!Bracket(s)
             u == Reader!Inner(s)
         IN /\ b \in 1 .. 3 /\ b <= Len(s) /\ Len(s) \in Nat /\ k - b \in Nat
            /\ s[Len(s)] # "]" => ~ LaxIsOperand(s)
            /\ s[Len(s)] = "]" =>
                 /\ k <= Len(s) /\ Stands(place, u, k - b, o.mem, n, c, d)
                 /\ LaxIsOperand(s) <=> Len(u) > 0 /\ GoodAddress(u)
                 /\ LaxIsOperand(s) <=> LaxIsMemory(s)
                 /\ k - b = Len(u) + 1 <=> k = Len(s)
<1> DEFINE b == Reader!Bracket(s)
           u == Reader!Inner(s)
           j == k - b
<1>1. b \in 1 .. 3 /\ b <= Len(s) /\ s[b] = "[" /\ k > b /\ Len(s) \in Nat
  BY BracketIs DEF MemoryPlace
<1>2. s[Len(s)] = "]" => InBrackets(place, u, j, o.mem, n)
  BY DEF MemoryPlace
<1>3. /\ LaxIsOperand(s) <=> LaxIsMemory(s)
      /\ s[Len(s)] # "]" => ~ LaxIsMemory(s)
      /\ s[Len(s)] = "]" => (LaxIsMemory(s) <=> Len(u) > 0 /\ GoodAddress(u))
  BY <1>1, MemoryIs
<1>4. ASSUME s[Len(s)] = "]"
      PROVE  /\ u \in Seq(Tokens) /\ Len(u) = Len(s) - 1 - b /\ Len(u) \in Nat
             /\ \A i \in 1 .. Len(u) + 1 : TokenIn(u, i) = s[b + i]
             /\ \A i \in 1 .. Len(u) : u[i] = s[b + i]
  BY <1>1, <1>4, InnerIs
<1> HIDE DEF b, u
<1>5. k - b \in Nat
  BY <1>1
<1>6. ASSUME s[Len(s)] = "]"
      PROVE  /\ k <= Len(s) /\ Stands(place, u, j, o.mem, n, c, d)
             /\ j = Len(u) + 1 <=> k = Len(s)
  <2>1. j \in 1 .. Len(u) + 1
    BY <1>2, <1>6 DEF InBrackets
  <2>2. b + j = k /\ k <= Len(s) /\ (j = Len(u) + 1 <=> k = Len(s)) /\ (j + 1 <= Len(u) <=> k + 1 < Len(s))
        /\ b + (j + 1) = k + 1
    <3> DEFINE l == Len(s)
               m == Len(u)
    <3>1. m = l - 1 - b /\ l \in Nat /\ b \in Nat /\ k \in Nat /\ k - b \in 1 .. m + 1 /\ j = k - b
      BY <1>1, <1>4, <1>6, <2>1
    <3> HIDE DEF l, m, j
    <3>2. b + j = k /\ k <= l /\ (j = m + 1 <=> k = l) /\ (j + 1 <= m <=> k + 1 < l) /\ b + (j + 1) = k + 1
      BY ONLY <3>1
    <3> QED BY <3>2 DEF l, m, j
  <2> HIDE DEF j
  <2>3. TokenIn(u, j) = c
    <3>1. TokenIn(u, j) = s[b + j]
      BY <1>4, <1>6, <2>1
    <3>2. s[k] = c
      BY <2>2 DEF CurIs
    <3> QED BY <2>2, <3>1, <3>2
  <2>4. ASSUME j + 1 <= Len(u) PROVE u[j + 1] = d
    <3>1. j + 1 \in 1 .. Len(u)
      BY <1>4, <1>6, <2>1, <2>4
    <3>2. u[j + 1] = s[k + 1]
      BY <1>4, <1>6, <2>2, <3>1
    <3>3. k + 1 <= Len(s)
      BY <1>1, <2>2, <2>4
    <3>4. s[k + 1] = d
      BY <2>2, <3>3 DEF CurIs
    <3> QED BY <3>2, <3>4
  <2>5. ASSUME d = "*" PROVE j + 1 <= Len(u)
    <3>1. k + 1 <= Len(s)
      BY <2>2, <2>5, SepsAre DEF CurIs
    <3>2. s[k + 1] = "*"
      BY <2>2, <2>5, <3>1 DEF CurIs
    <3>3. k + 1 # Len(s)
      BY <1>6, <3>2
    <3>4. k + 1 < Len(s)
      BY <1>1, <3>1, <3>3
    <3> QED BY <2>2, <3>4
  <2> QED BY <1>2, <1>4, <1>6, <2>1, <2>2, <2>3, <2>4, <2>5 DEF Stands, j
<1> QED BY <1>1, <1>3, <1>5, <1>6 DEF b, u

\* The address of a node under construction is well formed where its parts are.
LEMMA MemWith ==
  ASSUME NEW s, NEW o, MemNode(s, o), NEW m
  PROVE  MemNode(s, [o EXCEPT !.mem = m])
<1> DEFINE sz == s[1] = "size"
           kd == "mem"
           nm == ""
<1>1. OpenNode(kd, nm, o.mem, sz, o)
  BY DEF MemNode
<1> HIDE DEF sz, kd, nm
<1>2. OpenNode(kd, nm, m, sz, [o EXCEPT !.mem = m])
  BY ONLY <1>1, OpenMem, Zenon
<1>3. [o EXCEPT !.mem = m].mem = m
  <2>1. o \in [kind : {kd}, name : {nm}, value : {0}, mem : {o.mem}, sized : {sz}, from : {o.from}, to : {0}]
    BY ONLY <1>1, OpenFields
  <2> QED BY ONLY <2>1
<1>4. OpenNode(kd, nm, [o EXCEPT !.mem = m].mem, sz, [o EXCEPT !.mem = m])
  BY ONLY <1>2, <1>3, Zenon
<1> QED BY <1>4, Zenon DEF sz, kd, nm, MemNode

\* A step between brackets.
LEMMA MemFits ==
  ASSUME NEW s \in Seq(Tokens), NEW head, head # "dir", NEW place, NEW k \in Nat, NEW o, NEW n,
         MemoryPlace(place, s, k, o, n),
         NEW to \in MemPlaces \cup Numeral, NEW i \in {0, 1}, NEW p, NEW w, to \in Numeral => w.then = "index",
         k + i \in 1 .. Len(s) + 1, p = o \/ \E m : p = [o EXCEPT !.mem = m],
         to = "clamped" => k + i <= Len(s) /\ s[k + i] = "big",
         to = "star" => k + i <= Len(s) /\ s[k + i] = "*",
         s[Len(s)] = "]" => InBrackets(to, Reader!Inner(s), k - Reader!Bracket(s) + i, p.mem, w)
  PROVE  PartOK(to, head, s, k + i, p, w)
<1> DEFINE b == Reader!Bracket(s)
<1>1. b \in 1 .. 3 /\ b <= Len(s) /\ s[b] = "[" /\ k > b /\ MemNode(s, o)
  BY BracketIs DEF MemoryPlace
<1>2. MemNode(s, p)
  <2>1. CASE p = o
    BY <1>1, <2>1
  <2>2. CASE \E m : p = [o EXCEPT !.mem = m]
    <3>1. PICK m : p = [o EXCEPT !.mem = m]
      BY <2>2
    <3>2. MemNode(s, [o EXCEPT !.mem = m])
      BY <1>1, MemWith
    <3> QED BY ONLY <3>1, <3>2, Zenon
  <2> QED BY <2>1, <2>2
<1>3. k - b + i = (k + i) - b /\ k + i > b
  <2>1. b \in 1 .. 3 /\ k > b
    BY <1>1
  <2> HIDE DEF b
  <2> QED BY ONLY <2>1, k \in Nat, i \in {0, 1}
<1> HIDE DEF b
<1>4. MemoryPlace(to, s, k + i, p, w)
  BY <1>1, <1>2, <1>3 DEF MemoryPlace, b
<1> QED BY <1>4 DEF PartOK, MemPlaces, TermPlaces, Numeral

\* The brackets open.
LEMMA BracketStep ==
  ASSUME NEW s \in Seq(Tokens), NEW head, head # "dir", NEW k \in 1 .. 3, NEW o,
         k = Reader!Bracket(s), k <= Len(s), s[k] = "[", MemNode(s, o), o.mem = EmptyMem
  PROVE  PartOK("mem", head, s, k + 1, o, NoNum)
<1>1. NoNum.minus = FALSE
  BY DEF NoNum
<1>2. Len(s) \in Nat
  OBVIOUS
<1>3. (k + 1) - k = 1 /\ k + 1 > k /\ k + 1 \in 1 .. Len(s) + 1
  <2>1. \A l \in Nat : k <= l => (k + 1) - k = 1 /\ k + 1 > k /\ k + 1 \in 1 .. l + 1
    BY ONLY k \in 1 .. 3
  <2> QED BY <1>2, <2>1
<1>4. ASSUME s[Len(s)] = "]" PROVE InBrackets("mem", Reader!Inner(s), 1, EmptyMem, NoNum)
  <2>1. Len(Reader!Inner(s)) \in Nat
    BY <1>4, InnerIs
  <2>2. 1 \in 1 .. Len(Reader!Inner(s)) + 1
    BY ONLY <2>1
  <2> QED BY <1>1, <2>2 DEF InBrackets, TermPlaces, Numeral
<1>5. MemoryPlace("mem", s, k + 1, o, NoNum)
  BY <1>3, <1>4 DEF MemoryPlace
<1> QED BY <1>3, <1>5 DEF PartOK, MemPlaces, TermPlaces, Numeral

\* What is known of a part between brackets.
LEMMA MemPart ==
  ASSUME NEW s, NEW head, NEW place \in MemPlaces \cup Numeral, NEW k, NEW o, NEW n, PartOK(place, head, s, k, o, n),
         place \in Numeral => n.then = "index"
  PROVE  head # "dir" /\ MemoryPlace(place, s, k, o, n) /\ k \in 1 .. Len(s) + 1
<1>1. place \in MemPlaces \/ place \in Numeral
  OBVIOUS
<1> QED BY <1>1 DEF PartOK

\* The bracket that ends an operand, or spoils it.
LEMMA CloseStep ==
  ASSUME NEW s \in Seq(Tokens), NEW head, NEW k, NEW o, NEW n, PartOK("memNext", head, s, k, o, n),
         CurIs(s, k, "]"), NEW d, k <= Len(s) => CurIs(s, k + 1, d)
  PROVE  PartOK("taken", head, s, k + 1, o, n)
<1>1. head # "dir" /\ MemoryPlace("memNext", s, k, o, n) /\ k \in 1 .. Len(s) + 1
  <2>1. "memNext" \in MemPlaces \cup Numeral /\ "memNext" \notin Numeral
    BY DEF MemPlaces, Numeral
  <2> QED BY <2>1, MemPart
<1> DEFINE b == Reader!Bracket(s)
           u == Reader!Inner(s)
<1>2. /\ s[Len(s)] # "]" => ~ LaxIsOperand(s)
      /\ s[Len(s)] = "]" =>
           /\ k <= Len(s) /\ Stands("memNext", u, k - b, o.mem, n, "]", d)
           /\ LaxIsOperand(s) <=> Len(u) > 0 /\ GoodAddress(u)
           /\ LaxIsOperand(s) <=> LaxIsMemory(s)
           /\ k - b = Len(u) + 1 <=> k = Len(s)
  BY <1>1, MemOpen
<1> HIDE DEF b, u
<1>3. k <= Len(s) /\ s[k] = "]"
  BY SepsAre DEF CurIs
<1>4. k + 1 \in 1 .. Len(s) + 1 /\ (k + 1 = Len(s) + 1 <=> k = Len(s))
  BY <1>1, <1>3
<1>5. CASE s[Len(s)] # "]"
  <2>1. k # Len(s)
    BY <1>3, <1>5
  <2> QED BY <1>1, <1>2, <1>4, <1>5, <2>1 DEF TakenOK, Valid, PartOK, MemPlaces, TermPlaces, Numeral
<1>6. CASE s[Len(s)] = "]"
  <2>1. u \in Seq(Tokens) /\ InBrackets("memNext", u, k - b, o.mem, n) /\ TokenIn(u, k - b) = "]"
    BY <1>2, <1>6 DEF Stands
  <2>2. /\ k - b = Len(u) + 1 => GoodAddress(u) /\ o.mem = LaxAddressOf(Reader!Terms(u)) /\ Len(u) > 0
        /\ k - b # Len(u) + 1 /\ TokenIn(u, k - b) \notin Signs => ~ GoodAddress(u)
    BY <2>1, NextStep
  <2>3. CASE k = Len(s)
    <3>1. GoodAddress(u) /\ o.mem = LaxAddressOf(Reader!Terms(u)) /\ Len(u) > 0
      BY <1>2, <1>6, <2>2, <2>3
    <3>2. LaxIsOperand(s) /\ LaxIsMemory(s)
      BY <1>2, <1>6, <3>1
    <3>3. MemNode(s, o)
      BY <1>1 DEF MemoryPlace
    <3>4. \A t : [o EXCEPT !.to = t] = NodeOf(head, s, o.from, t)
      <4>1. o.mem = LaxAddressOf(Reader!Terms(Reader!Inner(s)))
        BY <3>1 DEF u
      <4> SUFFICES ASSUME NEW t PROVE [o EXCEPT !.to = t] = NodeOf(head, s, o.from, t)
        OBVIOUS
      <4>7. Len(s) > 2 /\ s[1] \in {"size", "["}
        BY <3>2, PartShape
      <4>8. s[1] \notin Registers \cup Literals \cup Signs
        BY <4>7, KindsApart DEF Registers, Literals, Signs
      <4>3. ~ Reader!IsInt(s)
        <5>1. Len(s) > 1
          BY <4>7
        <5> QED BY <4>8, <5>1, PartShape
      <4> DEFINE sz == s[1] = "size"
                 kd == "mem"
                 nm == ""
                 m  == o.mem
      <4>4. OpenNode(kd, nm, m, sz, o)
        BY <3>3 DEF MemNode
      <4>5. NodeOf(head, s, o.from, t) = Node(kd, nm, 0, m, sz, o.from, t)
        <5>1. LaxOperandOf(s, o.from, t) = Reader!Node("mem", "", 0, LaxAddressOf(Reader!Terms(Reader!Inner(s))), s[1] = "size", o.from, t)
          BY <3>2, <4>8, <4>3, ReaderNames DEF LaxOperandOf
        <5>2. LaxOperandOf(s, o.from, t) = Reader!Node("mem", "", 0, o.mem, s[1] = "size", o.from, t)
          BY ONLY <5>1, <4>1, Zenon
        <5>3. LaxOperandOf(s, o.from, t) = Node("mem", "", 0, o.mem, s[1] = "size", o.from, t)
          BY ONLY <5>2, ReaderNodes, Zenon DEF Reader!Node, Node
        <5> QED BY <1>1, <5>3, Zenon DEF NodeOf
      <4> HIDE DEF sz, kd, nm, m
      <4>6. [o EXCEPT !.to = t] = Node(kd, nm, 0, m, sz, o.from, t)
        <5>1. o \in [kind : {kd}, name : {nm}, value : {0}, mem : {m}, sized : {sz}, from : {o.from}, to : {0}]
          BY ONLY <4>4, OpenFields
        <5> QED BY ONLY <5>1 DEF Node
      <4> QED BY ONLY <4>5, <4>6, Zenon
    <3>5. TakenOK(head, s, k + 1, o)
      BY <1>1, <1>4, <2>3, <3>2, <3>4 DEF TakenOK, Valid
    <3> QED BY <1>4, <3>5 DEF PartOK, MemPlaces, TermPlaces, Numeral
  <2>4. CASE k # Len(s)
    <3>1. ~ GoodAddress(u)
      BY <1>2, <1>6, <2>1, <2>2, <2>4, TokenKinds, KindsApart DEF Signs
    <3>2. TakenOK(head, s, k + 1, o)
      BY <1>1, <1>2, <1>4, <1>6, <2>4, <3>1 DEF TakenOK, Valid
    <3> QED BY <1>4, <3>2 DEF PartOK, MemPlaces, TermPlaces, Numeral
  <2> QED BY <2>3, <2>4
<1> QED BY <1>5, <1>6

\* A bracket that closes nothing.
LEMMA CloseEmptyStep ==
  ASSUME NEW s \in Seq(Tokens), NEW head, NEW k, NEW o, NEW n, PartOK("mem", head, s, k, o, n),
         CurIs(s, k, "]"), NEW d, k <= Len(s) => CurIs(s, k + 1, d)
  PROVE  PartOK("empty", head, s, k + 1, o, n)
<1>1. head # "dir" /\ MemoryPlace("mem", s, k, o, n) /\ k \in 1 .. Len(s) + 1
  <2>1. "mem" \in MemPlaces \cup Numeral /\ "mem" \notin Numeral
    BY DEF MemPlaces, Numeral
  <2> QED BY <2>1, MemPart
<1> DEFINE b == Reader!Bracket(s)
           u == Reader!Inner(s)
<1>2. /\ s[Len(s)] # "]" => ~ LaxIsOperand(s)
      /\ s[Len(s)] = "]" =>
           /\ k <= Len(s) /\ Stands("mem", u, k - b, o.mem, n, "]", d)
           /\ LaxIsOperand(s) <=> Len(u) > 0 /\ GoodAddress(u)
  BY <1>1, MemOpen
<1> HIDE DEF b, u
<1>3. k <= Len(s)
  BY SepsAre DEF CurIs
<1>4. k + 1 \in 1 .. Len(s) + 1
  BY <1>1, <1>3
<1>5. ~ LaxIsOperand(s)
  <2>1. ASSUME s[Len(s)] = "]" PROVE Len(u) > 0 => ~ GoodAddress(u)
    <3>1. u \in Seq(Tokens) /\ InBrackets("mem", u, k - b, o.mem, n) /\ TokenIn(u, k - b) = "]"
      BY <1>2, <2>1 DEF Stands
    <3> QED BY <3>1, EmptyStep
  <2> QED BY <1>2, <2>1
<1> QED BY <1>1, <1>4, <1>5 DEF PartOK, Valid, MemPlaces, TermPlaces, Numeral

-----------------------------------------------------------------------------
(* 8. What the parser knows of the line it is in. *)

\* The statement being parsed starts with from, and its line has not ended.
Started ==
  /\ from \in 1 .. Len(toks) /\ from <= cur /\ TokenAt(toks, from) \notin LineEnd
  /\ \A k \in from .. cur - 1 : TokenAt(toks, k) \notin LineEnd

First == TokenAt(toks, from)

\* It is not a label, and its parts so far have been read.
ReadSoFar ==
  /\ First \in Idents \cup {"dir"} /\ ~ Reader!IsLabel(from) /\ cur > from
  /\ \A n \in 1 .. Len(parts) : PartRead(toks, from, n, parts[n])
  /\ First # "dir" => Len(parts) <= MaxOperands

\* A part of the line starts at token b.
PartOpens(b) ==
  /\ ReadSoFar /\ LineText(toks, from) # <<>> /\ PartAt(toks, from, Len(parts) + 1, b)

\* The line is as good as the parser takes it to be.
LineJudged ==
  /\ ~ Reader!IsLabel(from) /\ First \in Idents \cup {"dir"} /\ AtEnd
  /\ LaxGoodLine(from) /\ LaxLineOf(from).parts = parts

InPart ==
  /\ PartOpens(op.from) /\ (First # "dir" => Len(parts) < MaxOperands)
  /\ op.from <= cur /\ \A k \in op.from .. cur - 1 : TokenAt(toks, k) \notin Seps
  /\ PartOK(at, First, PartText(toks, op.from), cur - op.from + 1, op, num)

PlaceOK ==
  /\ at = "colon" => Reader!IsLabel(from) /\ cur = from + 1 /\ parts = <<>>
  /\ at \in {"failed", "skip"} => ~ Reader!IsLabel(from) /\ ~ LaxGoodLine(from)
  /\ at \in {"args", "arg"} => First = "dir"
  /\ at \in {"operands", "operand"} => First # "dir"
  /\ at \in {"args", "operands"} => ReadSoFar /\ cur = from + 1 /\ parts = <<>>
  /\ at \in {"arg", "operand"} => PartOpens(cur)
  /\ at \in PartPlaces => InPart
  /\ at = "end" =>
       /\ ~ Reader!IsLabel(from) /\ First \in Idents \cup {"dir"}
       /\ IF AtEnd THEN LineJudged ELSE ~ LaxGoodLine(from)
  /\ at = "done" => (Reader!IsLabel(from) /\ cur = from + 2 /\ parts = <<>>) \/ LineJudged

Followed == ~ fatal /\ result = "running" /\ at # "line" => Started /\ PlaceOK

\* Tokens of the part that starts at b.
LEMMA TextIs ==
  ASSUME NEW src \in Seq(Tokens), NEW b \in 1 .. Len(src) + 1
  PROVE  LET s == PartText(src, b)
             e == PartStop(src, b)
         IN /\ s \in Seq(Tokens) /\ Len(s) = e - b /\ e \in b .. Len(src) + 1 /\ PartEnds(src, b, e)
            /\ \A c \in b .. e : CurIs(s, c - b + 1, TokenAt(src, c))
            /\ \A c \in b .. e - 1 : c - b + 1 <= Len(s) /\ TokenAt(src, c) \notin Seps
<1> DEFINE s == PartText(src, b)
           e == PartStop(src, b)
<1>1. PartEnds(src, b, e)
  BY PartStopIs
<1>2. e \in b .. Len(src) + 1 /\ TokenAt(src, e) \in Seps /\ \A k \in b .. e - 1 : TokenAt(src, k) \notin Seps
  BY <1>1 DEF PartEnds
<1>3. s = SubSeq(src, b, e - 1)
  BY DEF PartText
<1> HIDE DEF s, e
<1>4. e - 1 \in b - 1 .. Len(src) /\ Len(src) \in Nat /\ e \in Nat /\ b \in Nat
  BY <1>2
<1>5. /\ s \in Seq(Tokens) /\ Len(s) = (e - 1) - b + 1
      /\ \A k \in 1 .. (e - 1) - b + 1 : s[k] = src[b + k - 1] /\ b + k - 1 \in 1 .. Len(src)
  BY <1>3, <1>4, PieceIs
<1>6. Len(s) = e - b
  <2> DEFINE l == Len(s)
  <2>1. l = (e - 1) - b + 1
    BY <1>5
  <2> HIDE DEF l
  <2>2. l = e - b
    BY ONLY <1>4, <2>1
  <2> QED BY <2>2 DEF l
<1>7. ASSUME NEW c \in b .. e - 1
      PROVE  c - b + 1 <= Len(s) /\ s[c - b + 1] = TokenAt(src, c)
  <2>1. c - b + 1 \in 1 .. (e - 1) - b + 1 /\ b + (c - b + 1) - 1 = c /\ c - b + 1 <= e - b
    BY ONLY <1>4, c \in b .. e - 1
  <2>2. s[c - b + 1] = src[c] /\ c \in 1 .. Len(src)
    BY <1>5, <2>1
  <2>3. DOMAIN src = 1 .. Len(src)
    OBVIOUS
  <2> QED BY <1>6, <2>1, <2>2, <2>3 DEF TokenAt
<1>8. ~ (e - b + 1 <= Len(s))
  BY <1>4, <1>6
<1>9. ASSUME NEW c \in b .. e PROVE CurIs(s, c - b + 1, TokenAt(src, c))
  <2>1. c = e \/ c \in b .. e - 1
    BY <1>4
  <2> QED BY <1>2, <1>7, <1>8, <2>1 DEF CurIs
<1> QED BY <1>1, <1>2, <1>5, <1>6, <1>7, <1>9 DEF s, e

\* What is known inside a part.
LEMMA PartKnown ==
  ASSUME Typed, Started, InPart
  PROVE  LET s == PartText(toks, op.from)
             k == cur - op.from + 1
         IN /\ toks \in Seq(Tokens) /\ s \in Seq(Tokens) /\ k \in 1 .. Len(s) + 1 /\ op.from \in 1 .. Len(toks) + 1
            /\ Len(s) \in Nat /\ k \in Nat /\ cur \in Nat
            /\ PartOK(at, First, s, k, op, num)
            /\ CurIs(s, k, Cur) /\ (k <= Len(s) => CurIs(s, k + 1, Next1))
            /\ PartEnds(toks, op.from, op.from + Len(s)) /\ PartStop(toks, op.from) = op.from + Len(s)
            /\ k <= Len(s) => Cur \notin Seps
            /\ k > Len(s) => k = Len(s) + 1 /\ PartEnds(toks, op.from, cur)
            /\ from \in 1 .. Len(toks) /\ TokenAt(toks, from) \notin LineEnd
            /\ Cur = TokenAt(toks, cur)
<1> DEFINE s == PartText(toks, op.from)
           k == cur - op.from + 1
           b == op.from
           e == PartStop(toks, op.from)
<1>1. toks \in Seq(Tokens) /\ cur \in 1 .. Len(toks) + 1 /\ Len(toks) \in Nat
  BY ShapeIs DEF Typed, Shaped
<1>2. b \in from + 1 .. Len(toks) + 1 /\ from \in 1 .. Len(toks) /\ TokenAt(toks, from) \notin LineEnd
  BY DEF InPart, PartOpens, PartAt, Started
<1>3. b \in 1 .. Len(toks) + 1 /\ b \in Nat /\ cur \in Nat
  BY <1>1, <1>2
<1>4. b <= cur /\ \A i \in b .. cur - 1 : TokenAt(toks, i) \notin Seps
  BY DEF InPart
<1>5. PartOK(at, First, s, k, op, num)
  BY DEF InPart
<1>6. /\ s \in Seq(Tokens) /\ Len(s) = e - b /\ e \in b .. Len(toks) + 1 /\ PartEnds(toks, b, e)
      /\ \A c \in b .. e : CurIs(s, c - b + 1, TokenAt(toks, c))
      /\ \A c \in b .. e - 1 : c - b + 1 <= Len(s) /\ TokenAt(toks, c) \notin Seps
  BY <1>1, <1>3, TextIs
<1>7. TokenAt(toks, e) \in Seps /\ Len(s) \in Nat
  BY <1>6 DEF PartEnds
<1>8. Cur = TokenAt(toks, cur) /\ Next1 = TokenAt(toks, cur + 1)
  BY DEF Cur, Next1, Tok
<1> HIDE DEF s, b, e
<1>9. e \in Nat /\ cur <= e
  <2>1. e \in b .. Len(toks) + 1 /\ e \notin b .. cur - 1
    BY <1>4, <1>6, <1>7
  <2> QED BY <1>1, <1>3, <2>1
<1>10. k = cur - b + 1
  BY DEF b
<1> HIDE DEF k
<1>11. /\ k \in Nat /\ k >= 1 /\ cur \in b .. e /\ (k <= Len(s) <=> cur \in b .. e - 1) /\ (k > Len(s) => cur = e /\ k = Len(s) + 1)
       /\ (cur \in b .. e - 1 => cur + 1 \in b .. e) /\ (cur + 1) - b + 1 = k + 1 /\ k <= Len(s) + 1
       /\ e = b + Len(s)
  <2> DEFINE l == Len(s)
  <2>1. l = e - b /\ l \in Nat
    BY <1>6, <1>7
  <2> HIDE DEF l
  <2>2. /\ k \in Nat /\ k >= 1 /\ cur \in b .. e /\ (k <= l <=> cur \in b .. e - 1) /\ (k > l => cur = e /\ k = l + 1)
        /\ (cur \in b .. e - 1 => cur + 1 \in b .. e) /\ (cur + 1) - b + 1 = k + 1 /\ k <= l + 1
        /\ e = b + l
    BY ONLY <1>3, <1>4, <1>9, <1>10, <2>1
  <2> QED BY <2>2 DEF l
<1>12. CurIs(s, k, Cur)
  BY <1>6, <1>8, <1>10, <1>11
<1>13. k <= Len(s) => CurIs(s, k + 1, Next1)
  <2>1. ASSUME k <= Len(s) PROVE CurIs(s, (cur + 1) - b + 1, TokenAt(toks, cur + 1))
    BY <1>6, <1>11, <2>1
  <2> QED BY <1>8, <1>11, <2>1
<1>14. k <= Len(s) => Cur \notin Seps
  BY <1>6, <1>8, <1>11
<1>15. k > Len(s) => PartEnds(toks, b, cur)
  BY <1>6, <1>11
<1>16. k \in 1 .. Len(s) + 1
  BY <1>7, <1>11
<1> QED BY <1>1, <1>2, <1>3, <1>5, <1>6, <1>7, <1>8, <1>11, <1>12, <1>13, <1>14, <1>15, <1>16 DEF s, k, b, e

\* What a line means does not change with the step.
LEMMA ReaderSame ==
  ASSUME toks' = toks, from' = from
  PROVE  /\ (Reader!IsLabel(from))' <=> Reader!IsLabel(from)
         /\ (LaxGoodLine(from))' <=> LaxGoodLine(from)
         /\ (LaxLineOf(from))' = LaxLineOf(from)
         /\ First' = First
<1>1. (Reader!IsLabel(from))' <=> Reader!IsLabel(from)
  BY DEF Reader!IsLabel, Reader!Tok
<1>2. (LaxGoodLine(from))' <=> LaxGoodLine(from)
  BY DEF LaxGoodLine, Reader!Parts, Reader!EndOf, Reader!Tok, Reader!Text
<1>3. (LaxLineOf(from))' = LaxLineOf(from)
  BY DEF LaxLineOf, Reader!Parts, Reader!EndOf, Reader!Tok, Reader!Text, Reader!After
<1>4. First' = First
  BY DEF First
<1> QED BY <1>1, <1>2, <1>3, <1>4

\* The tokens of the line up to the current one, and the one consumed.
LEMMA StartedStep ==
  ASSUME Typed, Started, toks' = toks, from' = from, cur' = cur \/ (cur' = cur + 1 /\ Cur \notin LineEnd)
  PROVE  Started'
<1>1. cur \in Nat /\ from \in Nat /\ Len(toks) \in Nat
  BY ShapeIs DEF Typed
<1>2. Cur = TokenAt(toks, cur)
  BY DEF Cur, Tok
<1>3. CASE cur' = cur
  BY <1>3 DEF Started
<1>4. CASE cur' = cur + 1 /\ Cur \notin LineEnd
  <2>1. from \in 1 .. Len(toks) /\ from <= cur + 1 /\ TokenAt(toks, from) \notin LineEnd
    BY <1>1 DEF Started
  <2>2. ASSUME NEW k \in from .. (cur + 1) - 1 PROVE TokenAt(toks, k) \notin LineEnd
    <3>1. k = cur \/ k \in from .. cur - 1
      BY <1>1
    <3> QED BY <1>2, <1>4, <3>1 DEF Started
  <2> QED BY <1>4, <2>1, <2>2 DEF Started
<1> QED BY <1>3, <1>4

\* The parser gives a line up that cannot be read.
LEMMA LineFails ==
  ASSUME Started, ~ Reader!IsLabel(from), ~ LaxGoodLine(from), toks' = toks, from' = from, cur' = cur,
         at' \in {"failed", "skip"}
  PROVE  (Started /\ PlaceOK)'
<1>1. Started'
  BY DEF Started
<1>2. /\ at' # "colon" /\ at' \notin {"args", "arg"} /\ at' \notin {"operands", "operand"}
      /\ at' \notin {"args", "operands"} /\ at' \notin {"arg", "operand"}
      /\ at' # "end" /\ at' # "done"
  OBVIOUS
<1>3. at' \notin PartPlaces
  BY DEF PartPlaces, MemPlaces, TermPlaces, Numeral
<1>4. PlaceOK'
  BY <1>2, <1>3, ReaderSame, Zenon DEF PlaceOK
<1> QED BY <1>1, <1>4

\* A part that cannot be read spoils the line.
LEMMA PartSpoils ==
  ASSUME Typed, Started, InPart, ~ Valid(First, PartText(toks, op.from))
  PROVE  ~ Reader!IsLabel(from) /\ ~ LaxGoodLine(from)
<1> DEFINE b == op.from
           e == PartStop(toks, op.from)
<1>1. /\ toks \in Seq(Tokens) /\ from \in 1 .. Len(toks) /\ TokenAt(toks, from) \notin LineEnd
      /\ PartEnds(toks, b, e)
  BY PartKnown
<1>2. ~ Reader!IsLabel(from) /\ LineText(toks, from) # <<>> /\ PartAt(toks, from, Len(parts) + 1, b)
  BY DEF InPart, PartOpens, ReadSoFar
<1>3. ~ Valid(TokenAt(toks, from), SubSeq(toks, b, e - 1))
  BY DEF First, PartText
<1> HIDE DEF b, e
<1>4. ~ LaxGoodLine(from)
  BY <1>1, <1>2, <1>3, BadPartSpoils
<1> QED BY <1>2, <1>4

\* The parser reports a part that cannot be read, and the line cannot be read.
LEMMA PartFails ==
  ASSUME Typed, Started, InPart, ~ Valid(First, PartText(toks, op.from)), Error
  PROVE  (Started /\ PlaceOK)'
<1>1. toks' = toks /\ from' = from /\ cur' = cur /\ at' = "failed"
  BY DEF Error, Complain
<1>2. ~ Reader!IsLabel(from) /\ ~ LaxGoodLine(from)
  BY PartSpoils
<1> QED BY <1>1, <1>2, LineFails

\* A step within a part.
LEMMA PartGoesOn ==
  ASSUME Typed, Started, InPart, toks' = toks, from' = from, parts' = parts, op'.from = op.from,
         NEW to \in PartPlaces, at' = to, cur' = cur \/ (cur' = cur + 1 /\ Cur \notin Seps),
         PartOK(to, First, PartText(toks, op.from), cur' - op.from + 1, op', num')
  PROVE  (Started /\ PlaceOK)'
<1>1. Started'
  BY StartedStep DEF Seps
<1>2. /\ at' # "colon" /\ at' \notin {"args", "arg"} /\ at' \notin {"operands", "operand"}
      /\ at' \notin {"args", "operands"} /\ at' \notin {"arg", "operand"}
      /\ at' # "end" /\ at' # "done" /\ at' \notin {"failed", "skip"}
  BY DEF PartPlaces, MemPlaces, TermPlaces, Numeral
<1>3. cur \in Nat /\ from \in Nat /\ op.from \in Nat /\ from <= cur /\ Cur = TokenAt(toks, cur)
  <2>1. cur \in Nat /\ from \in Nat /\ from <= cur
    BY ShapeIs DEF Typed
  <2>2. op.from \in from + 1 .. Len(toks) + 1
    BY DEF InPart, PartOpens, PartAt
  <2>3. Len(toks) \in Nat
    BY ShapeIs DEF Typed
  <2> QED BY <2>1, <2>2, <2>3 DEF Cur, Tok
<1>4. PartOpens(op.from)'
  <2>1. cur' > from'
    BY <1>3 DEF InPart, PartOpens, ReadSoFar
  <2>2. PartOpens(op.from)
    BY DEF InPart
  <2>3. ReadSoFar'
    BY <2>1, <2>2, ReaderSame DEF PartOpens, ReadSoFar, First
  <2> QED BY <2>2, <2>3 DEF PartOpens
<1>5. op.from <= cur' /\ \A k \in op.from .. cur' - 1 : TokenAt(toks, k) \notin Seps
  <2>1. op.from <= cur /\ \A k \in op.from .. cur - 1 : TokenAt(toks, k) \notin Seps
    BY DEF InPart
  <2>2. CASE cur' = cur
    BY <2>1, <2>2
  <2>3. CASE cur' = cur + 1 /\ Cur \notin Seps
    <3>1. ASSUME NEW k \in op.from .. cur' - 1 PROVE k = cur \/ k \in op.from .. cur - 1
      BY <1>3, <2>3
    <3> QED BY <1>3, <2>1, <2>3, <3>1
  <2> QED BY <2>2, <2>3
<1>6. First' # "dir" => Len(parts') < MaxOperands
  BY DEF InPart, First
<1>7. PartOK(at, First, PartText(toks, op.from), cur - op.from + 1, op, num)'
  BY DEF First
<1>8. InPart'
  BY <1>4, <1>5, <1>6, <1>7 DEF InPart
<1>9. PlaceOK'
  BY <1>2, <1>8, Zenon DEF PlaceOK
<1> QED BY <1>1, <1>9

\* A token is consumed that ends neither line nor part.
LEMMA AdvanceIs ==
  ASSUME NEW to, Advance(to), Cur \notin Seps
  PROVE  at' = to /\ toks' = toks /\ from' = from /\ cur' = cur + 1 /\ stmts' = stmts /\ result' = result
<1>1. Cur # "eof"
  BY DEF Seps, LineEnd
<1> QED BY <1>1 DEF Advance, Consume

\* The parser goes on without consuming a token.
LEMMA GotoIs ==
  ASSUME NEW to, Goto(to)
  PROVE  at' = to /\ toks' = toks /\ from' = from /\ cur' = cur /\ stmts' = stmts /\ result' = result
BY DEF Goto

\* The parser stands between brackets.
Bracketed == at \in MemPlaces \cup Numeral /\ (at \in Numeral => num.then = "index")

\* What is known there.
LEMMA MemKnown ==
  ASSUME Typed, Started, InPart, Bracketed
  PROVE  LET s == PartText(toks, op.from)
             k == cur - op.from + 1
         IN /\ First # "dir" /\ MemoryPlace(at, s, k, op, num) /\ k \in 1 .. Len(s) + 1 /\ s \in Seq(Tokens)
            /\ k \in Nat /\ Len(s) \in Nat /\ cur \in Nat /\ op.from \in Nat /\ op \in Nodes
            /\ s[Len(s)] # "]" => ~ LaxIsOperand(s)
            /\ s[Len(s)] = "]" =>
                 /\ Stands(at, Reader!Inner(s), k - Reader!Bracket(s), op.mem, num, Cur, Next1)
                 /\ LaxIsOperand(s) <=> Len(Reader!Inner(s)) > 0 /\ GoodAddress(Reader!Inner(s))
            /\ k <= Len(s) => s[k] = Cur
            /\ Cur \notin Seps => k <= Len(s) /\ CurIs(s, k + 1, Next1)
<1> DEFINE s == PartText(toks, op.from)
           k == cur - op.from + 1
<1>1. /\ s \in Seq(Tokens) /\ k \in 1 .. Len(s) + 1 /\ op.from \in 1 .. Len(toks) + 1 /\ Len(s) \in Nat /\ k \in Nat
      /\ cur \in Nat /\ PartOK(at, First, s, k, op, num) /\ CurIs(s, k, Cur) /\ (k <= Len(s) => CurIs(s, k + 1, Next1))
  BY PartKnown
<1>2. op \in Nodes
  BY DEF Typed, Fitted, Bracketed, MemPlaces, TermPlaces, Inside, Numeral
<1>3. op.from \in Nat
  BY <1>2 DEF Nodes
<1> HIDE DEF s, k
<1>4. First # "dir" /\ MemoryPlace(at, s, k, op, num)
  BY <1>1, MemPart DEF Bracketed
<1>5. /\ s[Len(s)] # "]" => ~ LaxIsOperand(s)
      /\ s[Len(s)] = "]" =>
           /\ Stands(at, Reader!Inner(s), k - Reader!Bracket(s), op.mem, num, Cur, Next1)
           /\ LaxIsOperand(s) <=> Len(Reader!Inner(s)) > 0 /\ GoodAddress(Reader!Inner(s))
  BY ONLY <1>1, <1>4, MemOpen
<1>6. (k <= Len(s) => s[k] = Cur) /\ (Cur \notin Seps => k <= Len(s))
  BY <1>1 DEF CurIs
<1> QED BY <1>1, <1>2, <1>3, <1>4, <1>5, <1>6 DEF s, k

\* A step between brackets, that consumes a token or none.
LEMMA MemGoesOn ==
  ASSUME Typed, Started, InPart, Bracketed, toks' = toks, from' = from, parts' = parts,
         op' = op \/ \E m : op' = [op EXCEPT !.mem = m],
         Bracketed', NEW i \in {0, 1}, cur' = cur + i, i = 1 => Cur \notin Seps,
         at' = "clamped" => i = 0 /\ Cur = "big", at' = "star" => i = 1 /\ Next1 = "*",
         \A u, j : Stands(at, u, j, op.mem, num, Cur, Next1) => InBrackets(at', u, j + i, op'.mem, num')
  PROVE  (Started /\ PlaceOK)'
<1> DEFINE s == PartText(toks, op.from)
           k == cur - op.from + 1
<1>1. /\ First # "dir" /\ MemoryPlace(at, s, k, op, num) /\ k \in 1 .. Len(s) + 1 /\ s \in Seq(Tokens)
      /\ k \in Nat /\ Len(s) \in Nat /\ cur \in Nat /\ op.from \in Nat /\ op \in Nodes
      /\ s[Len(s)] = "]" => Stands(at, Reader!Inner(s), k - Reader!Bracket(s), op.mem, num, Cur, Next1)
      /\ k <= Len(s) => s[k] = Cur
      /\ Cur \notin Seps => k <= Len(s) /\ CurIs(s, k + 1, Next1)
  BY MemKnown
<1>2. k + i = cur' - op.from + 1 /\ cur' \in Nat
  BY <1>1
<1> HIDE DEF s, k
<1>3. op'.from = op.from
  <2>1. \A m : [op EXCEPT !.mem = m].from = op.from
    BY <1>1 DEF Nodes
  <2> QED BY <2>1
<1>4. at' \in MemPlaces \cup Numeral /\ (at' \in Numeral => num'.then = "index") /\ at' \in PartPlaces
  BY DEF Bracketed, PartPlaces
<1>5. k + i \in 1 .. Len(s) + 1
  <2> DEFINE l == Len(s)
  <2>1. k \in Nat /\ l \in Nat /\ k \in 1 .. l + 1 /\ (i = 1 => k <= l)
    BY <1>1
  <2> HIDE DEF l
  <2>2. k + i \in 1 .. l + 1
    BY ONLY <2>1, i \in {0, 1}
  <2> QED BY <2>2 DEF l
<1>6. at' = "clamped" => k + i <= Len(s) /\ s[k + i] = "big"
  <2>1. "big" \notin Seps
    BY SepsAre DEF Literals
  <2>2. k + 0 = k
    BY <1>1
  <2> QED BY <1>1, <2>1, <2>2
<1>7. at' = "star" => k + i <= Len(s) /\ s[k + i] = "*"
  <2>1. "*" \notin Seps
    BY SepsAre
  <2> QED BY <1>1, <2>1 DEF CurIs
<1>8. s[Len(s)] = "]" => InBrackets(at', Reader!Inner(s), k - Reader!Bracket(s) + i, op'.mem, num')
  BY <1>1
<1>9. PartOK(at', First, s, k + i, op', num')
  BY ONLY <1>1, <1>4, <1>5, <1>6, <1>7, <1>8, i \in {0, 1}, op' = op \/ \E m : op' = [op EXCEPT !.mem = m], MemFits
<1>10. cur' = cur \/ (cur' = cur + 1 /\ Cur \notin Seps)
  BY <1>1
<1> QED BY <1>2, <1>3, <1>4, <1>9, <1>10, PartGoesOn DEF s

\* An error between brackets, where the address is none.
LEMMA MemFails ==
  ASSUME Typed, Started, InPart, Bracketed, Error,
         \A u, j : Stands(at, u, j, op.mem, num, Cur, Next1) => ~ (Len(u) > 0 /\ GoodAddress(u))
  PROVE  (Started /\ PlaceOK)'
<1> DEFINE s == PartText(toks, op.from)
           k == cur - op.from + 1
<1>1. /\ First # "dir"
      /\ s[Len(s)] # "]" => ~ LaxIsOperand(s)
      /\ s[Len(s)] = "]" =>
           /\ Stands(at, Reader!Inner(s), k - Reader!Bracket(s), op.mem, num, Cur, Next1)
           /\ LaxIsOperand(s) <=> Len(Reader!Inner(s)) > 0 /\ GoodAddress(Reader!Inner(s))
  BY MemKnown
<1>2. ~ Valid(First, s)
  BY <1>1 DEF Valid
<1> QED BY <1>2, PartFails

\* The places between brackets.
LEMMA MemPlacesAre ==
  /\ MemPlaces = {"mem", "memNext", "term", "reg", "scale", "star", "indexReg", "index"}
  /\ MemPlaces \cap Numeral = {} /\ MemPlaces \subseteq PartPlaces /\ Numeral \subseteq PartPlaces
  /\ {"taken", "symbol", "sized", "bracket", "empty"} \subseteq PartPlaces
  /\ {"taken", "symbol", "sized", "bracket", "empty"} \cap (MemPlaces \cup Numeral) = {}
BY DEF MemPlaces, TermPlaces, Numeral, PartPlaces

\* Where the parser stands within a part, and in it.
LEMMA Placed ==
  ASSUME PlaceOK, at \in PartPlaces PROVE InPart
BY Zenon DEF PlaceOK

\* A token is consumed between brackets.
LEMMA MemAdvances ==
  ASSUME Typed, Started, PlaceOK, at \in MemPlaces, NEW to \in MemPlaces, Advance(to), Cur \notin Seps,
         parts' = parts, op' = op \/ \E m : op' = [op EXCEPT !.mem = m], to = "star" => Next1 = "*",
         \A u, j : Stands(at, u, j, op.mem, num, Cur, Next1) => InBrackets(to, u, j + 1, op'.mem, num')
  PROVE  (Started /\ PlaceOK)'
<1>1. at' = to /\ toks' = toks /\ from' = from /\ cur' = cur + 1
  BY AdvanceIs
<1>2. Bracketed /\ Bracketed' /\ InPart /\ at' # "clamped"
  BY <1>1, MemPlacesAre, Placed DEF Bracketed, Numeral
<1>3. 1 \in {0, 1}
  OBVIOUS
<1>4. \A u, j : Stands(at, u, j, op.mem, num, Cur, Next1) => InBrackets(at', u, j + 1, op'.mem, num')
  BY <1>1
<1>5. at' = "star" => 1 = 1 /\ Next1 = "*"
  BY <1>1
<1> QED BY <1>1, <1>2, <1>3, <1>4, <1>5, MemGoesOn

\* Or none.
LEMMA MemStays ==
  ASSUME Typed, Started, PlaceOK, at \in MemPlaces, NEW to \in MemPlaces \ {"star"}, Goto(to),
         parts' = parts, op' = op \/ \E m : op' = [op EXCEPT !.mem = m],
         \A u, j : Stands(at, u, j, op.mem, num, Cur, Next1) => InBrackets(to, u, j, op'.mem, num')
  PROVE  (Started /\ PlaceOK)'
<1>1. at' = to /\ toks' = toks /\ from' = from /\ cur' = cur
  BY GotoIs
<1>2. Bracketed /\ Bracketed' /\ InPart /\ at' # "clamped" /\ at' # "star"
  BY <1>1, MemPlacesAre, Placed DEF Bracketed, Numeral
<1>3. 0 \in {0, 1} /\ cur' = cur + 0
  <2>1. cur \in Nat
    BY ShapeIs DEF Typed
  <2> QED BY <1>1, <2>1
<1>4. \A u, j : Stands(at, u, j, op.mem, num, Cur, Next1) => InBrackets(at', u, j + 0, op'.mem, num')
  <2> SUFFICES ASSUME NEW u, NEW j, Stands(at, u, j, op.mem, num, Cur, Next1)
               PROVE  InBrackets(at', u, j + 0, op'.mem, num')
    OBVIOUS
  <2>1. j + 0 = j
    BY DEF Stands
  <2> QED BY <1>1, <2>1
<1> QED BY <1>1, <1>2, <1>3, <1>4, MemGoesOn

\* An error there.
LEMMA MemStops ==
  ASSUME Typed, Started, PlaceOK, at \in MemPlaces, Error,
         \A u, j : Stands(at, u, j, op.mem, num, Cur, Next1) => ~ (Len(u) > 0 /\ GoodAddress(u))
  PROVE  (Started /\ PlaceOK)'
<1>1. Bracketed /\ InPart
  BY MemPlacesAre, Placed DEF Bracketed
<1> QED BY <1>1, MemFails

\* The sign of a term.
LEMMA SignFollows ==
  ASSUME Typed, Started, PlaceOK, MemSign PROVE (Started /\ PlaceOK)'
<1>1. at \in {"mem", "memNext"} /\ Cur \in Signs /\ Advance("term") /\ parts' = parts /\ op' = op
  BY DEF MemSign, Standing
<1>2. num'.minus <=> Cur = "-"
  BY DEF MemSign, NoNum
<1>3. at \in MemPlaces /\ "term" \in MemPlaces /\ Cur \notin Seps
  BY <1>1, MemPlacesAre, SepsAre
<1>4. ASSUME NEW u, NEW j, Stands(at, u, j, op.mem, num, Cur, Next1)
      PROVE  InBrackets("term", u, j + 1, op'.mem, num')
  <2>1. u \in Seq(Tokens) /\ InBrackets(at, u, j, op.mem, num) /\ TokenIn(u, j) = Cur
    BY <1>4 DEF Stands
  <2> QED BY <1>1, <1>2, <2>1, SignStep
<1> QED BY <1>1, <1>3, <1>4, MemAdvances

\* The first token of a term.
LEMMA AtTermIs ==
  ASSUME Typed, Started, PlaceOK, ~ fatal, Term
  PROVE  /\ at \in MemPlaces /\ at \in {"mem", "term"} /\ num.minus \in BOOLEAN
         /\ \A u, j : Stands(at, u, j, op.mem, num, Cur, Next1) =>
              /\ u \in Seq(Tokens) /\ InBrackets(at, u, j, op.mem, num) /\ TokenIn(u, j) = Cur /\ AtTerm(at, u, j)
              /\ (j + 1 <= Len(u) => u[j + 1] = Next1) /\ (Next1 = "*" => j + 1 <= Len(u) /\ u[j + 1] = "*")
<1>1. at \in {"mem", "term"} /\ (at = "mem" => Cur \notin Signs \cup {"]"})
  BY DEF Term, Standing
<1>2. num.minus \in BOOLEAN
  BY DEF Typed, Shaped, Nums
<1>3. at \in MemPlaces
  BY <1>1, MemPlacesAre
<1> QED BY <1>1, <1>2, <1>3 DEF Stands, AtTerm

\* A register that starts a term.
LEMMA TermRegisterFollows ==
  ASSUME Typed, Started, PlaceOK, ~ fatal, TermRegister PROVE (Started /\ PlaceOK)'
<1>1. Term /\ Cur \in Registers /\ ~ num.minus /\ Advance("reg") /\ parts' = parts /\ op' = op
  BY DEF TermRegister
<1>2. num'.reg = Number[Cur]
  BY DEF TermRegister, Typed, Shaped, Nums
<1>3. at \in MemPlaces /\ "reg" \in MemPlaces /\ Cur \notin Seps
  BY <1>1, AtTermIs, MemPlacesAre, SepsAre, KindsApart
<1>4. ASSUME NEW u, NEW j, Stands(at, u, j, op.mem, num, Cur, Next1)
      PROVE  InBrackets("reg", u, j + 1, op'.mem, num')
  <2>1. u \in Seq(Tokens) /\ InBrackets(at, u, j, op.mem, num) /\ TokenIn(u, j) = Cur /\ AtTerm(at, u, j)
    BY <1>1, <1>4, AtTermIs
  <2> QED BY <1>1, <1>2, <2>1, StartRegister
<1> QED BY <1>1, <1>3, <1>4, MemAdvances

\* The star behind a register.
LEMMA StarFollows ==
  ASSUME Typed, Started, PlaceOK, Star PROVE (Started /\ PlaceOK)'
<1>1. at = "reg" /\ Cur = "*" /\ Advance("scale") /\ parts' = parts /\ op' = op /\ num' = num
  BY DEF Star, Standing, Keep
<1>3. at \in MemPlaces /\ "scale" \in MemPlaces /\ Cur \notin Seps
  BY <1>1, MemPlacesAre, SepsAre
<1>4. ASSUME NEW u, NEW j, Stands(at, u, j, op.mem, num, Cur, Next1)
      PROVE  InBrackets("scale", u, j + 1, op'.mem, num')
  <2>1. u \in Seq(Tokens) /\ InBrackets("reg", u, j, op.mem, num) /\ TokenIn(u, j) = "*"
    BY <1>1, <1>4 DEF Stands
  <2> QED BY <1>1, <2>1, StarStep
<1> QED BY <1>1, <1>3, <1>4, MemAdvances

\* A register that stands alone.
LEMMA PlainRegisterFollows ==
  ASSUME Typed, Started, PlaceOK, PlainRegister PROVE (Started /\ PlaceOK)'
<1>1. at = "reg" /\ Cur # "*" /\ PlainOK(op.mem, num.reg) /\ Goto("memNext") /\ parts' = parts /\ num' = num
      /\ op' = [op EXCEPT !.mem = WithPlain(op.mem, num.reg)]
  BY DEF PlainRegister, Standing, SetMem
<1>2. op'.mem = WithPlain(op.mem, num.reg)
  <2>1. op \in Nodes
    BY <1>1 DEF Typed, Fitted, Inside
  <2> QED BY <1>1, <2>1 DEF Nodes
<1>3. at \in MemPlaces /\ "memNext" \in MemPlaces \ {"star"}
  BY <1>1, MemPlacesAre
<1>4. ASSUME NEW u, NEW j, Stands(at, u, j, op.mem, num, Cur, Next1)
      PROVE  InBrackets("memNext", u, j, op'.mem, num')
  <2>1. u \in Seq(Tokens) /\ InBrackets("reg", u, j, op.mem, num) /\ TokenIn(u, j) # "*"
    BY <1>1, <1>4 DEF Stands
  <2> QED BY <1>1, <1>2, <2>1, PlainDone
<1> QED BY <1>1, <1>3, <1>4, MemStays

\* A symbol between brackets.
LEMMA TermSymbolFollows ==
  ASSUME Typed, Started, PlaceOK, ~ fatal, TermSymbol PROVE (Started /\ PlaceOK)'
<1>1. Term /\ Cur \in Idents \ Registers /\ ~ num.minus /\ ~ op.mem.symbol /\ Advance("memNext") /\ parts' = parts
      /\ num' = num /\ op' = [op EXCEPT !.mem = [op.mem EXCEPT !.symbol = TRUE]]
  BY DEF TermSymbol, SetMem
<1>2. at \in MemPlaces /\ "memNext" \in MemPlaces /\ Cur \notin Seps /\ op \in Nodes
  <2>1. at \in MemPlaces /\ "memNext" \in MemPlaces /\ Cur \notin Seps
    BY <1>1, AtTermIs, MemPlacesAre, SepsAre, KindsApart
  <2> QED BY <2>1, MemPlacesAre DEF Typed, Fitted, Inside
<1>3. op'.mem = [op.mem EXCEPT !.symbol = TRUE]
  BY <1>1, <1>2 DEF Nodes
<1>4. ASSUME NEW u, NEW j, Stands(at, u, j, op.mem, num, Cur, Next1)
      PROVE  InBrackets("memNext", u, j + 1, op'.mem, num')
  <2>1. u \in Seq(Tokens) /\ InBrackets(at, u, j, op.mem, num) /\ TokenIn(u, j) = Cur /\ AtTerm(at, u, j)
    BY <1>1, <1>4, AtTermIs
  <2>2. InBrackets("memNext", u, j + 1, [op.mem EXCEPT !.symbol = TRUE], num)
    BY <1>1, <2>1, StartSymbol
  <2> QED BY <1>1, <1>3, <2>2, Zenon
<1> QED BY <1>1, <1>2, <1>4, MemAdvances

\* A scale before its register.
LEMMA TermScaleFollows ==
  ASSUME Typed, Started, PlaceOK, ~ fatal, TermScale PROVE (Started /\ PlaceOK)'
<1>1. Term /\ Cur \in Literals /\ Next1 = "*" /\ ~ num.minus /\ Advance("star") /\ parts' = parts /\ op' = op
  BY DEF TermScale, ScaleFirst
<1>2. num'.scale = Value[Cur]
  BY DEF TermScale, Typed, Shaped, Nums
<1>3. at \in MemPlaces /\ "star" \in MemPlaces /\ Cur \notin Seps
  BY <1>1, AtTermIs, MemPlacesAre, SepsAre
<1>4. ASSUME NEW u, NEW j, Stands(at, u, j, op.mem, num, Cur, Next1)
      PROVE  InBrackets("star", u, j + 1, op'.mem, num')
  <2>1. u \in Seq(Tokens) /\ InBrackets(at, u, j, op.mem, num) /\ TokenIn(u, j) = Cur /\ AtTerm(at, u, j)
        /\ j + 1 <= Len(u) /\ u[j + 1] = "*"
    BY <1>1, <1>4, AtTermIs
  <2> QED BY <1>1, <1>2, <2>1, StartScale
<1> QED BY <1>1, <1>3, <1>4, MemAdvances

\* The star behind a scale.
LEMMA StarRegFollows ==
  ASSUME Typed, Started, PlaceOK, StarReg PROVE (Started /\ PlaceOK)'
<1>1. at = "star" /\ Advance("indexReg") /\ parts' = parts /\ op' = op /\ num' = num
  BY DEF StarReg, Standing, Keep
<1>2. at \in MemPlaces /\ "indexReg" \in MemPlaces /\ InPart
  BY <1>1, MemPlacesAre, Placed
<1>3. Cur \notin Seps
  <2> DEFINE s == PartText(toks, op.from)
             k == cur - op.from + 1
  <2>1. PartOK("star", First, s, k, op, num) /\ CurIs(s, k, Cur)
    BY <1>1, <1>2, PartKnown
  <2> HIDE DEF s, k
  <2>2. k <= Len(s) /\ s[k] = "*"
    BY <2>1 DEF PartOK
  <2> QED BY <2>1, <2>2, SepsAre DEF CurIs
<1>4. ASSUME NEW u, NEW j, Stands(at, u, j, op.mem, num, Cur, Next1)
      PROVE  InBrackets("indexReg", u, j + 1, op'.mem, num')
  <2>1. u \in Seq(Tokens) /\ InBrackets("star", u, j, op.mem, num)
    BY <1>1, <1>4 DEF Stands
  <2> QED BY <1>1, <2>1, StarRegStep
<1> QED BY <1>1, <1>2, <1>3, <1>4, MemAdvances

\* The register behind it.
LEMMA IndexRegFollows ==
  ASSUME Typed, Started, PlaceOK, IndexReg PROVE (Started /\ PlaceOK)'
<1>1. at = "indexReg" /\ Cur \in Registers /\ Advance("index") /\ parts' = parts /\ op' = op
  BY DEF IndexReg, Standing
<1>2. num'.reg = Number[Cur] /\ num'.scale = num.scale
  BY DEF IndexReg, Typed, Shaped, Nums
<1>3. at \in MemPlaces /\ "index" \in MemPlaces /\ Cur \notin Seps
  BY <1>1, MemPlacesAre, SepsAre, KindsApart
<1>4. ASSUME NEW u, NEW j, Stands(at, u, j, op.mem, num, Cur, Next1)
      PROVE  InBrackets("index", u, j + 1, op'.mem, num')
  <2>1. u \in Seq(Tokens) /\ InBrackets("indexReg", u, j, op.mem, num) /\ TokenIn(u, j) = Cur
    BY <1>1, <1>4 DEF Stands
  <2> QED BY <1>1, <1>2, <2>1, IndexRegStep
<1> QED BY <1>1, <1>3, <1>4, MemAdvances

\* A scaled register becomes the index.
LEMMA SetIndexFollows ==
  ASSUME Typed, Started, PlaceOK, SetIndex PROVE (Started /\ PlaceOK)'
<1>1. at = "index" /\ IndexOK(op.mem, num.reg, Byte(num.scale)) /\ Goto("memNext") /\ parts' = parts /\ num' = num
      /\ op' = [op EXCEPT !.mem = WithIndex(op.mem, num.reg, Byte(num.scale))]
  BY DEF SetIndex, Standing, SetMem
<1>2. op'.mem = WithIndex(op.mem, num.reg, Byte(num.scale))
  <2>1. op \in Nodes
    BY <1>1 DEF Typed, Fitted, Inside
  <2> QED BY <1>1, <2>1 DEF Nodes
<1>3. at \in MemPlaces /\ "memNext" \in MemPlaces \ {"star"}
  BY <1>1, MemPlacesAre
<1>4. ASSUME NEW u, NEW j, Stands(at, u, j, op.mem, num, Cur, Next1)
      PROVE  InBrackets("memNext", u, j, op'.mem, num')
  <2>1. u \in Seq(Tokens) /\ InBrackets("index", u, j, op.mem, num)
    BY <1>1, <1>4 DEF Stands
  <2> QED BY <1>1, <1>2, <2>1, IndexDone
<1> QED BY <1>1, <1>3, <1>4, MemStays

\* An integer is added to the displacement.
LEMMA TermDispFollows ==
  ASSUME Typed, Started, PlaceOK, ~ fatal, TermDisp PROVE (Started /\ PlaceOK)'
<1> DEFINE m == [op.mem EXCEPT !.disp = (@ + Signed(num.minus, Value[Cur])) % Word]
<1>1. Term /\ Cur \in Literals /\ Next1 # "*" /\ Advance("memNext") /\ parts' = parts
      /\ num' = num /\ op' = [op EXCEPT !.mem = m]
  BY DEF TermDisp, SetMem
<1>2. at \in MemPlaces /\ "memNext" \in MemPlaces /\ Cur \notin Seps /\ op \in Nodes /\ num.minus \in BOOLEAN
  <2>1. at \in MemPlaces /\ "memNext" \in MemPlaces /\ Cur \notin Seps /\ num.minus \in BOOLEAN
    BY <1>1, AtTermIs, MemPlacesAre, SepsAre, KindsApart
  <2> QED BY <2>1, MemPlacesAre DEF Typed, Fitted, Inside
<1>4. ASSUME NEW u, NEW j, Stands(at, u, j, op.mem, num, Cur, Next1)
      PROVE  InBrackets("memNext", u, j + 1, m, num')
  <2>1. u \in Seq(Tokens) /\ InBrackets(at, u, j, op.mem, num) /\ TokenIn(u, j) = Cur /\ AtTerm(at, u, j)
        /\ (j + 1 <= Len(u) => u[j + 1] # "*")
    BY <1>1, <1>4, AtTermIs
  <2>2. TokenIn(u, j) \in Literals
    BY <1>1, <2>1
  <2>3. InBrackets("memNext", u, j + 1, [op.mem EXCEPT !.disp = (@ + Signed(num.minus, Value[TokenIn(u, j)])) % Word], num)
    BY ONLY <1>2, <2>1, <2>2, StartDisp
  <2> QED BY ONLY <1>1, <2>1, <2>3, Zenon
<1> HIDE DEF m
<1>5. op'.mem = m /\ \E x : op' = [op EXCEPT !.mem = x]
  BY <1>1, <1>2 DEF Nodes
<1>6. \A u, j : Stands(at, u, j, op.mem, num, Cur, Next1) => InBrackets("memNext", u, j + 1, op'.mem, num')
  BY ONLY <1>4, <1>5, Zenon
<1>7. Advance("memNext") /\ parts' = parts
  BY <1>1
<1> QED BY ONLY Typed, Started, PlaceOK, <1>2, <1>5, <1>6, <1>7, MemPlacesAre, MemAdvances

\* A token that begins no term, and a register that does not fit.
LEMMA BadTermFollows ==
  ASSUME Typed, Started, PlaceOK, ~ fatal, BadTerm PROVE (Started /\ PlaceOK)'
<1>1. Error
  BY DEF BadTerm
<1>2. CASE Term /\ (\/ Cur \in Idents /\ num.minus
                    \/ Cur \in Literals /\ Next1 = "*" /\ num.minus
                    \/ Cur \notin Idents \cup Literals)
  <2>1. at \in MemPlaces
    BY <1>2, AtTermIs
  <2>2. ASSUME NEW u, NEW j, Stands(at, u, j, op.mem, num, Cur, Next1)
        PROVE  ~ GoodAddress(u)
    <3>1. /\ u \in Seq(Tokens) /\ InBrackets(at, u, j, op.mem, num) /\ TokenIn(u, j) = Cur /\ AtTerm(at, u, j)
          /\ (Next1 = "*" => j + 1 <= Len(u) /\ u[j + 1] = "*")
      BY <1>2, <2>2, AtTermIs
    <3> QED BY <1>2, <3>1, StartBad
  <2> QED BY <1>1, <2>1, <2>2, MemStops
<1>3. CASE Term /\ Cur \in Idents \ Registers /\ ~ num.minus /\ op.mem.symbol
  <2>1. at \in MemPlaces
    BY <1>3, AtTermIs
  <2>2. ASSUME NEW u, NEW j, Stands(at, u, j, op.mem, num, Cur, Next1)
        PROVE  ~ GoodAddress(u)
    <3>1. u \in Seq(Tokens) /\ InBrackets(at, u, j, op.mem, num) /\ TokenIn(u, j) = Cur /\ AtTerm(at, u, j)
      BY <1>3, <2>2, AtTermIs
    <3> QED BY <1>3, <3>1, StartSymbol
  <2> QED BY <1>1, <2>1, <2>2, MemStops
<1>4. CASE at = "reg" /\ Cur # "*" /\ ~ PlainOK(op.mem, num.reg)
  <2>1. at \in MemPlaces
    BY <1>4, MemPlacesAre
  <2>2. ASSUME NEW u, NEW j, Stands(at, u, j, op.mem, num, Cur, Next1)
        PROVE  ~ GoodAddress(u)
    <3>1. u \in Seq(Tokens) /\ InBrackets("reg", u, j, op.mem, num) /\ TokenIn(u, j) # "*"
      BY <1>4, <2>2 DEF Stands
    <3> QED BY <1>4, <3>1, PlainDone
  <2> QED BY <1>1, <2>1, <2>2, MemStops
<1>5. CASE at = "indexReg" /\ Cur \notin Registers
  <2>1. at \in MemPlaces
    BY <1>5, MemPlacesAre
  <2>2. ASSUME NEW u, NEW j, Stands(at, u, j, op.mem, num, Cur, Next1)
        PROVE  ~ GoodAddress(u)
    <3>1. u \in Seq(Tokens) /\ InBrackets("indexReg", u, j, op.mem, num) /\ TokenIn(u, j) \notin Registers
      BY <1>5, <2>2 DEF Stands
    <3> QED BY <3>1, IndexRegStep
  <2> QED BY <1>1, <2>1, <2>2, MemStops
<1>6. CASE at = "index" /\ ~ IndexOK(op.mem, num.reg, Byte(num.scale))
  <2>1. at \in MemPlaces
    BY <1>6, MemPlacesAre
  <2>2. ASSUME NEW u, NEW j, Stands(at, u, j, op.mem, num, Cur, Next1)
        PROVE  ~ GoodAddress(u)
    <3>1. u \in Seq(Tokens) /\ InBrackets("index", u, j, op.mem, num)
      BY <1>6, <2>2 DEF Stands
    <3> QED BY <1>6, <3>1, IndexDone
  <2> QED BY <1>1, <2>1, <2>2, MemStops
<1>7. Registers \subseteq Idents
  BY KindsApart
<1> QED BY <1>2, <1>3, <1>4, <1>5, <1>6, <1>7 DEF BadTerm, Standing

\* A line that ends between brackets, and a token behind a term that is no sign.
LEMMA UnclosedFollows ==
  ASSUME Typed, Started, PlaceOK, ~ fatal, Unclosed PROVE (Started /\ PlaceOK)'
<1>1. Error /\ Cur # "]"
  BY DEF Unclosed
<1>2. CASE at = "mem" /\ AtEnd
  <2>1. at \in MemPlaces
    BY <1>2, MemPlacesAre
  <2>2. ASSUME NEW u, NEW j, Stands(at, u, j, op.mem, num, Cur, Next1)
        PROVE  ~ GoodAddress(u)
    <3>1. u \in Seq(Tokens) /\ InBrackets(at, u, j, op.mem, num) /\ TokenIn(u, j) = Cur
      BY <1>2, <2>2 DEF Stands
    <3>2. Cur \notin Signs \cup {"]"} /\ Cur \notin Idents \cup Literals
      BY <1>1, <1>2, SepsAre DEF AtEnd, Seps
    <3>3. AtTerm(at, u, j)
      BY <1>2, <3>1, <3>2 DEF AtTerm
    <3> QED BY <3>1, <3>2, <3>3, StartBad
  <2> QED BY <1>1, <2>1, <2>2, MemStops
<1>3. CASE at = "memNext" /\ Cur \notin Signs
  <2>1. at \in MemPlaces
    BY <1>3, MemPlacesAre
  <2>2. ASSUME NEW u, NEW j, Stands(at, u, j, op.mem, num, Cur, Next1)
        PROVE  ~ GoodAddress(u)
    <3>1. u \in Seq(Tokens) /\ InBrackets("memNext", u, j, op.mem, num) /\ TokenIn(u, j) = Cur
      BY <1>3, <2>2 DEF Stands
    <3>2. j # Len(u) + 1
      <4>1. Len(u) \in Nat
        BY <3>1
      <4>2. j = Len(u) + 1 => ~ (j <= Len(u))
        BY <4>1
      <4> QED BY <1>1, <3>1, <4>2 DEF TokenIn
    <3> QED BY <1>3, <3>1, <3>2, NextStep
  <2> QED BY <1>1, <2>1, <2>2, MemStops
<1> QED BY <1>2, <1>3 DEF Unclosed, Standing

\* The bracket that closes.
LEMMA CloseBracketFollows ==
  ASSUME Typed, Started, PlaceOK, CloseBracket PROVE (Started /\ PlaceOK)'
<1> DEFINE s == PartText(toks, op.from)
           k == cur - op.from + 1
<1>1. at = "memNext" /\ Cur = "]" /\ Advance("taken") /\ parts' = parts /\ op' = op /\ num' = num
  BY DEF CloseBracket, Standing, Keep
<1>2. InPart /\ Cur \notin Seps /\ "taken" \in PartPlaces
  BY <1>1, MemPlacesAre, Placed, SepsAre
<1>3. toks' = toks /\ from' = from /\ cur' = cur + 1 /\ at' = "taken"
  BY <1>1, <1>2, AdvanceIs
<1>4. /\ s \in Seq(Tokens) /\ PartOK("memNext", First, s, k, op, num) /\ CurIs(s, k, "]")
      /\ k <= Len(s) => CurIs(s, k + 1, Next1)
  BY <1>1, <1>2, PartKnown
<1>5. k + 1 = cur' - op.from + 1
  <2>1. cur \in Nat /\ op.from \in Nat
    BY <1>2, PartKnown
  <2> QED BY <1>3, <2>1
<1> HIDE DEF k, s
<1>6. PartOK("taken", First, s, k + 1, op, num)
  BY ONLY <1>4, CloseStep
<1> QED BY <1>1, <1>2, <1>3, <1>5, <1>6, PartGoesOn DEF s

\* Brackets with nothing between them are closed,
LEMMA CloseEmptyFollows ==
  ASSUME Typed, Started, PlaceOK, CloseEmpty PROVE (Started /\ PlaceOK)'
<1> DEFINE s == PartText(toks, op.from)
           k == cur - op.from + 1
<1>1. at = "mem" /\ Cur = "]" /\ Advance("empty") /\ parts' = parts /\ op' = op /\ num' = num
  BY DEF CloseEmpty, Standing, Keep
<1>2. InPart /\ Cur \notin Seps /\ "empty" \in PartPlaces
  BY <1>1, MemPlacesAre, Placed, SepsAre
<1>3. toks' = toks /\ from' = from /\ cur' = cur + 1 /\ at' = "empty"
  BY <1>1, <1>2, AdvanceIs
<1>4. /\ s \in Seq(Tokens) /\ PartOK("mem", First, s, k, op, num) /\ CurIs(s, k, "]")
      /\ k <= Len(s) => CurIs(s, k + 1, Next1)
  BY <1>1, <1>2, PartKnown
<1>5. k + 1 = cur' - op.from + 1
  <2>1. cur \in Nat /\ op.from \in Nat
    BY <1>2, PartKnown
  <2> QED BY <1>3, <2>1
<1> HIDE DEF k, s
<1>6. PartOK("empty", First, s, k + 1, op, num)
  BY ONLY <1>4, CloseEmptyStep
<1> QED BY <1>1, <1>2, <1>3, <1>5, <1>6, PartGoesOn DEF s

\* and are no operand.
LEMMA EmptyFollows ==
  ASSUME Typed, Started, PlaceOK, Empty PROVE (Started /\ PlaceOK)'
<1>1. at = "empty" /\ Error
  BY DEF Empty, Standing
<1>2. InPart
  BY <1>1, MemPlacesAre, Placed
<1>3. ~ Valid(First, PartText(toks, op.from))
  BY <1>1, <1>2 DEF InPart, PartOK
<1> QED BY <1>1, <1>2, <1>3, PartFails

\* The scale behind a star, with its sign.
LEMMA ScaleFollows ==
  ASSUME Typed, Started, PlaceOK, Scale PROVE (Started /\ PlaceOK)'
<1>1. at = "scale" /\ SignedInt("index") /\ parts' = parts /\ op' = op
  BY DEF Scale, Standing
<1>2. num'.then = "index" /\ (num'.minus <=> Cur = "-") /\ num'.reg = num.reg
  BY <1>1 DEF SignedInt, Typed, Shaped, Nums
<1>3. at \in MemPlaces \cup Numeral /\ at \notin Numeral /\ "int" \in Numeral /\ InPart /\ Bracketed
  BY <1>1, MemPlacesAre, Placed DEF Numeral, Bracketed
<1>4. ASSUME NEW u, NEW j, Stands(at, u, j, op.mem, num, Cur, Next1)
      PROVE  /\ Cur \in Signs => InBrackets("int", u, j + 1, op'.mem, num')
             /\ Cur \notin Signs => InBrackets("int", u, j + 0, op'.mem, num')
  <2>1. u \in Seq(Tokens) /\ InBrackets("scale", u, j, op.mem, num) /\ TokenIn(u, j) = Cur /\ j + 0 = j
    BY <1>1, <1>4 DEF Stands
  <2> QED BY <1>1, <1>2, <2>1, ScaleStep
<1>5. CASE Cur \in Signs
  <2>1. Advance("int") /\ Cur \notin Seps
    BY <1>1, <1>5, SepsAre DEF SignedInt
  <2>2. at' = "int" /\ toks' = toks /\ from' = from /\ cur' = cur + 1
    BY <2>1, AdvanceIs
  <2>3. Bracketed' /\ at' # "clamped" /\ at' # "star" /\ 1 \in {0, 1}
    BY <1>2, <1>3, <2>2 DEF Bracketed
  <2> QED BY <1>1, <1>3, <1>4, <1>5, <2>1, <2>2, <2>3, MemGoesOn
<1>6. CASE Cur \notin Signs
  <2>1. Goto("int")
    BY <1>1, <1>6 DEF SignedInt
  <2>2. at' = "int" /\ toks' = toks /\ from' = from /\ cur' = cur + 0
    <3>1. cur \in Nat
      BY ShapeIs DEF Typed
    <3> QED BY <2>1, <3>1, GotoIs
  <2>3. Bracketed' /\ at' # "clamped" /\ at' # "star" /\ 0 \in {0, 1} /\ 0 # 1
    BY <1>2, <1>3, <2>2 DEF Bracketed
  <2> QED BY <1>1, <1>3, <1>4, <1>6, <2>2, <2>3, MemGoesOn
<1> QED BY <1>5, <1>6

\* What is known where an integer stands.
LEMMA NumberKnown ==
  ASSUME Typed, Started, PlaceOK, at \in Numeral
  PROVE  LET s == PartText(toks, op.from)
             k == cur - op.from + 1
         IN /\ InPart /\ op \in Nodes /\ num.minus \in BOOLEAN /\ (num.then = "taken" \/ num.then = "index")
            /\ (num.then = "index" => Bracketed)
            /\ s \in Seq(Tokens) /\ PartOK(at, First, s, k, op, num) /\ CurIs(s, k, Cur)
            /\ (\A c : c = cur + 1 => c - op.from + 1 = k + 1) /\ k \in Nat /\ cur \in Nat
<1>1. InPart /\ op \in Nodes /\ (num.then = "taken" \/ num.then = "index")
  BY MemPlacesAre, Placed DEF Typed, Fitted
<1>2. num.minus \in BOOLEAN /\ (num.then = "index" => Bracketed)
  BY DEF Typed, Shaped, Nums, Bracketed
<1>3. cur \in Nat /\ op.from \in Nat /\ cur - op.from + 1 \in Nat
  BY <1>1, PartKnown
<1>4. \A c : c = cur + 1 => c - op.from + 1 = (cur - op.from + 1) + 1
  BY ONLY <1>3
<1> QED BY <1>1, <1>2, <1>3, <1>4, PartKnown

\* An integer out of range keeps its place.
LEMMA OverflowFollows ==
  ASSUME Typed, Started, PlaceOK, Overflow PROVE (Started /\ PlaceOK)'
<1> DEFINE s == PartText(toks, op.from)
           k == cur - op.from + 1
<1>1. /\ at = "int" /\ Cur = "big" /\ toks' = toks /\ from' = from /\ cur' = cur /\ at' = "clamped"
      /\ parts' = parts /\ op' = op /\ num' = num
  BY DEF Overflow, Standing, Complain
<1>2. at \in Numeral /\ "clamped" \in Numeral /\ "int" \in Numeral /\ "clamped" \in PartPlaces
  BY <1>1, MemPlacesAre DEF Numeral
<1>3. CASE num.then = "index"
  <2>1. InPart /\ Bracketed /\ cur' = cur + 0
    <3>1. cur \in Nat
      BY <1>2, NumberKnown
    <3> QED BY <1>1, <1>2, <1>3, <3>1, NumberKnown
  <2>2. Bracketed' /\ at' # "star" /\ 0 \in {0, 1} /\ 0 # 1
    BY <1>1, <1>2, <1>3 DEF Bracketed
  <2>3. ASSUME NEW u, NEW j, Stands(at, u, j, op.mem, num, Cur, Next1)
        PROVE  InBrackets(at', u, j + 0, op'.mem, num')
    <3>1. u \in Seq(Tokens) /\ InBrackets("int", u, j, op.mem, num) /\ j + 0 = j
      BY <1>1, <2>3 DEF Stands
    <3> QED BY <1>1, <3>1, ClampStep
  <2> QED BY <1>1, <2>1, <2>2, <2>3, MemGoesOn
<1>4. CASE num.then = "taken"
  <2>1. InPart /\ PartOK("int", First, s, k, op, num) /\ CurIs(s, k, "big")
    BY <1>1, <1>2, NumberKnown
  <2> HIDE DEF s, k
  <2>2. "big" \notin Seps
    BY SepsAre DEF Literals
  <2>3. k <= Len(s) /\ s[k] = "big"
    BY <2>1, <2>2 DEF CurIs
  <2>4. k \in 1 .. Len(s) + 1 /\ NumberPlace(First, s, k, op, num)
    BY <1>2, <1>4, <2>1 DEF PartOK
  <2>5. "clamped" \notin MemPlaces \cup {"taken", "symbol", "sized", "bracket", "empty", "star"}
    BY MemPlacesAre
  <2>6. PartOK("clamped", First, s, k, op, num)
    BY <1>4, <2>3, <2>4, <2>5 DEF PartOK
  <2> QED BY <1>1, <1>2, <2>1, <2>6, PartGoesOn DEF s, k
<1> QED BY <1>2, <1>3, <1>4, NumberKnown

\* An integer is taken, for a part or a scale.
LEMMA TakeIntFollows ==
  ASSUME Typed, Started, PlaceOK, TakeInt PROVE (Started /\ PlaceOK)'
<1> DEFINE s == PartText(toks, op.from)
           k == cur - op.from + 1
           v == Signed(num.minus, Value[Cur])
<1>1. at \in Numeral /\ Cur \in Literals /\ Advance(num.then) /\ parts' = parts
  BY DEF TakeInt, Standing, Numeral, Literals, Typed, Fitted
<1>2. Cur \notin Seps /\ at' = num.then /\ toks' = toks /\ from' = from /\ cur' = cur + 1
  <2>1. Cur \notin Seps
    BY <1>1, SepsAre
  <2> QED BY <1>1, <2>1, AdvanceIs
<1>3. CASE num.then = "index"
  <2>1. num' = [num EXCEPT !.scale = v] /\ op' = op
    BY <1>3 DEF TakeInt
  <2>2. num'.reg = num.reg /\ num'.scale = v
    BY <2>1 DEF Typed, Shaped, Nums
  <2>3. InPart /\ Bracketed /\ num.minus \in BOOLEAN
    BY <1>1, <1>3, NumberKnown
  <2>4. Bracketed' /\ at' # "star" /\ at' # "clamped" /\ 1 \in {0, 1}
    <3>1. at' \in MemPlaces \cup Numeral /\ at' \notin Numeral
      BY <1>2, <1>3, MemPlacesAre DEF Numeral
    <3> QED BY <1>2, <1>3, <3>1 DEF Bracketed
  <2>5. ASSUME NEW u, NEW j, Stands(at, u, j, op.mem, num, Cur, Next1)
        PROVE  InBrackets(at', u, j + 1, op'.mem, num')
    <3>1. u \in Seq(Tokens) /\ InBrackets(at, u, j, op.mem, num) /\ TokenIn(u, j) = Cur
      BY <2>5 DEF Stands
    <3>2. InBrackets("index", u, j + 1, op.mem, num')
      BY <1>1, <2>2, <2>3, <3>1, DigitsStep
    <3> QED BY <1>2, <1>3, <2>1, <3>2
  <2> QED BY <1>1, <1>2, <2>1, <2>3, <2>4, <2>5, MemGoesOn
<1>4. CASE num.then = "taken"
  <2>1. op' = [op EXCEPT !.value = v] /\ num' = num
    BY <1>4 DEF TakeInt
  <2>2. op'.from = op.from
    <3>1. op \in Nodes
      BY <1>1, NumberKnown
    <3> QED BY <2>1, <3>1 DEF Nodes
  <2>3. InPart /\ "taken" \in PartPlaces /\ at' = "taken"
    BY <1>1, <1>2, <1>4, MemPlacesAre, NumberKnown
  <2>4. cur' - op.from + 1 = k + 1
    <3>1. \A c : c = cur + 1 => c - op.from + 1 = k + 1
      BY <1>1, NumberKnown
    <3> QED BY <1>2, <3>1
  <2>5. s \in Seq(Tokens) /\ PartOK(at, First, s, k, op, num) /\ CurIs(s, k, Cur) /\ num.minus \in BOOLEAN /\ op \in Nodes
    BY <1>1, NumberKnown
  <2> HIDE DEF s, k
  <2>6. PartOK("taken", First, s, k + 1, op', num')
    <3>1. PartOK("taken", First, s, k + 1, [op EXCEPT !.value = Signed(num.minus, Value[Cur])], num)
      BY ONLY <1>1, <1>4, <2>5, TakeStep
    <3> QED BY ONLY <2>1, <3>1, Zenon DEF v
  <2> QED BY <1>1, <1>2, <2>2, <2>3, <2>4, <2>6, PartGoesOn DEF s
<1> QED BY <1>1, <1>3, <1>4, NumberKnown

\* A sign, or the star of a scale, without an integer.
LEMMA NoIntFollows ==
  ASSUME Typed, Started, PlaceOK, NoInt PROVE (Started /\ PlaceOK)'
<1> DEFINE s == PartText(toks, op.from)
           k == cur - op.from + 1
<1>1. at \in Numeral /\ Cur \notin Literals /\ Error
  BY DEF NoInt, Standing, Numeral
<1>2. CASE num.then = "index"
  <2>1. InPart /\ Bracketed /\ num.minus \in BOOLEAN
    BY <1>1, <1>2, NumberKnown
  <2>2. ASSUME NEW u, NEW j, Stands(at, u, j, op.mem, num, Cur, Next1)
        PROVE  ~ GoodAddress(u)
    <3>1. u \in Seq(Tokens) /\ InBrackets(at, u, j, op.mem, num) /\ TokenIn(u, j) = Cur
      BY <2>2 DEF Stands
    <3> QED BY <1>1, <2>1, <3>1, DigitsStep
  <2> QED BY <1>1, <2>1, <2>2, MemFails
<1>3. CASE num.then = "taken"
  <2>1. s \in Seq(Tokens) /\ PartOK(at, First, s, k, op, num) /\ CurIs(s, k, Cur) /\ num.minus \in BOOLEAN /\ op \in Nodes /\ InPart
    BY <1>1, NumberKnown
  <2> HIDE DEF s, k
  <2>2. ~ Valid(First, s)
    BY ONLY <1>1, <1>3, <2>1, TakeStep
  <2> QED BY <1>1, <2>1, <2>2, PartFails DEF s
<1> QED BY <1>1, <1>2, <1>3, NumberKnown

\* The parser stands where an argument or operand starts.
Opening == at \in {"args", "arg", "operands", "operand"} /\ ~ (at \in {"args", "operands"} /\ AtEnd)

\* What is known there.
LEMMA PartStarts ==
  ASSUME Typed, Started, PlaceOK, Opening
  PROVE  LET s == PartText(toks, cur)
         IN /\ PartOpens(cur) /\ s \in Seq(Tokens) /\ CurIs(s, 1, Cur)
            /\ cur \in Nat /\ toks \in Seq(Tokens) /\ cur \in 1 .. Len(toks) + 1
            /\ at \in {"args", "arg"} => First = "dir"
            /\ at \in {"operands", "operand"} => First # "dir"
            /\ PartEnds(toks, cur, PartStop(toks, cur))
<1> DEFINE s == PartText(toks, cur)
<1>1. toks \in Seq(Tokens) /\ cur \in 1 .. Len(toks) + 1 /\ cur \in Nat /\ from \in Nat /\ Len(toks) \in Nat
  BY ShapeIs DEF Typed, Shaped
<1>2. /\ at \in {"args", "arg"} => First = "dir"
      /\ at \in {"operands", "operand"} => First # "dir"
      /\ at \in {"args", "operands"} => ReadSoFar /\ cur = from + 1 /\ parts = <<>>
      /\ at \in {"arg", "operand"} => PartOpens(cur)
  BY Zenon DEF PlaceOK
<1>3. from \in 1 .. Len(toks) /\ TokenAt(toks, from) \notin LineEnd
  BY DEF Started
<1>4. ASSUME at \in {"args", "operands"} PROVE PartOpens(cur)
  <2>1. ReadSoFar /\ cur = from + 1 /\ parts = <<>> /\ TokenAt(toks, cur) \notin LineEnd
    BY <1>2, <1>4 DEF Opening, AtEnd, Cur, Tok
  <2>2. PartAt(toks, from, 1, from + 1)
    BY <1>1, <1>3, FirstPart
  <2>3. Len(parts) + 1 = 1
    BY <2>1
  <2>4. LineText(toks, from) # <<>>
    <3> DEFINE stop == LineStop(toks, from)
               l    == Len(LineText(toks, from))
    <3>1. stop \in from + 1 .. Len(toks) + 1 /\ l = stop - 1 - from /\ l \in Nat
      BY <1>1, <1>3, LineTextIs
    <3>2. TokenAt(toks, stop) \in LineEnd
      <4>1. from \in 1 .. Len(toks) + 1
        BY <1>1, <1>3
      <4> QED BY <1>1, <4>1, LineStopIs
    <3>3. stop # cur
      BY <2>1, <3>2
    <3> HIDE DEF stop, l
    <3>4. l # 0
      BY ONLY <1>1, <2>1, <3>1, <3>3
    <3> QED BY <3>4 DEF l
  <2>5. PartAt(toks, from, Len(parts) + 1, cur)
    BY ONLY <2>1, <2>2, <2>3
  <2> QED BY <2>1, <2>4, <2>5 DEF PartOpens
<1>5. PartOpens(cur)
  BY <1>2, <1>4 DEF Opening
<1>6. s \in Seq(Tokens) /\ PartEnds(toks, cur, PartStop(toks, cur)) /\ CurIs(s, 1, Cur)
  <2>1. /\ s \in Seq(Tokens) /\ PartStop(toks, cur) \in cur .. Len(toks) + 1 /\ PartEnds(toks, cur, PartStop(toks, cur))
        /\ \A c \in cur .. PartStop(toks, cur) : CurIs(s, c - cur + 1, TokenAt(toks, c))
    BY <1>1, TextIs
  <2> HIDE DEF s
  <2>2. cur \in cur .. PartStop(toks, cur)
    BY <1>1, <2>1
  <2>3. CurIs(s, cur - cur + 1, TokenAt(toks, cur))
    BY <2>1, <2>2
  <2>4. cur - cur + 1 = 1
    BY <1>1
  <2>5. Cur = TokenAt(toks, cur)
    BY DEF Cur, Tok
  <2> QED BY <2>1, <2>3, <2>4, <2>5
<1> QED BY <1>1, <1>2, <1>5, <1>6

\* The first token of a part is taken, or looked at.
LEMMA PartGoesIn ==
  ASSUME Typed, Started, PlaceOK, Opening, First = "dir" \/ ~ Full,
         toks' = toks, from' = from, parts' = parts, op'.from = cur,
         NEW to \in PartPlaces, at' = to, NEW k,
         (k = 1 /\ cur' = cur) \/ (k = 2 /\ cur' = cur + 1 /\ Cur \notin Seps),
         PartOK(to, First, PartText(toks, cur), k, op', num')
  PROVE  (Started /\ PlaceOK)'
<1>1. /\ PartOpens(cur) /\ cur \in Nat /\ toks \in Seq(Tokens) /\ cur \in 1 .. Len(toks) + 1
  BY PartStarts
<1>2. Started'
  BY StartedStep DEF Seps
<1>3. /\ at' # "colon" /\ at' \notin {"args", "arg"} /\ at' \notin {"operands", "operand"}
      /\ at' \notin {"args", "operands"} /\ at' \notin {"arg", "operand"}
      /\ at' # "end" /\ at' # "done" /\ at' \notin {"failed", "skip"}
  BY DEF PartPlaces, MemPlaces, TermPlaces, Numeral
<1>4. PartOpens(op.from)'
  <2>1. from \in Nat /\ cur > from
    BY <1>1, ShapeIs DEF PartOpens, ReadSoFar, Typed
  <2>2. cur' > from'
    BY <1>1, <2>1
  <2>3. ReadSoFar'
    BY <1>1, <2>2, ReaderSame DEF PartOpens, ReadSoFar, First
  <2> QED BY <1>1, <2>3 DEF PartOpens
<1>5. op'.from <= cur' /\ \A i \in op'.from .. cur' - 1 : TokenAt(toks, i) \notin Seps
  <2>1. Cur = TokenAt(toks, cur)
    BY DEF Cur, Tok
  <2>2. CASE cur' = cur
    BY <1>1, <2>2
  <2>3. CASE cur' = cur + 1 /\ Cur \notin Seps
    <3>1. ASSUME NEW i \in cur .. (cur + 1) - 1 PROVE i = cur
      BY <1>1
    <3> QED BY <1>1, <2>1, <2>3, <3>1
  <2> QED BY <2>2, <2>3
<1>6. First' # "dir" => Len(parts') < MaxOperands
  <2>1. Len(parts) \in Nat /\ MaxOperands \in Nat
    BY ShapeIs, ParserAssumption DEF Typed
  <2> QED BY <2>1 DEF First, Full
<1>7. k = cur' - op'.from + 1
  BY <1>1
<1>8. PartOK(at, First, PartText(toks, op.from), cur - op.from + 1, op, num)'
  BY <1>7 DEF First
<1>9. InPart'
  BY <1>4, <1>5, <1>6, <1>8 DEF InPart
<1>10. PlaceOK'
  BY <1>3, <1>9, Zenon DEF PlaceOK
<1> QED BY <1>2, <1>10

\* A part that cannot be read from its first token on.
LEMMA PartStops ==
  ASSUME Typed, Started, PlaceOK, Opening, ~ Valid(First, PartText(toks, cur)), Error
  PROVE  (Started /\ PlaceOK)'
<1> DEFINE e == PartStop(toks, cur)
<1>1. /\ PartOpens(cur) /\ toks \in Seq(Tokens) /\ PartEnds(toks, cur, e)
  BY PartStarts
<1>2. from \in 1 .. Len(toks) /\ TokenAt(toks, from) \notin LineEnd
  BY DEF Started
<1>3. ~ Reader!IsLabel(from) /\ LineText(toks, from) # <<>> /\ PartAt(toks, from, Len(parts) + 1, cur)
  BY <1>1 DEF PartOpens, ReadSoFar
<1>4. ~ Valid(TokenAt(toks, from), SubSeq(toks, cur, e - 1))
  BY DEF First, PartText
<1> HIDE DEF e
<1>5. ~ LaxGoodLine(from)
  BY <1>1, <1>2, <1>3, <1>4, BadPartSpoils
<1>6. toks' = toks /\ from' = from /\ cur' = cur /\ at' = "failed"
  BY DEF Error, Complain
<1> QED BY <1>3, <1>5, <1>6, LineFails

\* An operand beyond the last the instruction may have.
LEMMA TooManyFollows ==
  ASSUME Typed, Started, PlaceOK, TooMany PROVE (Started /\ PlaceOK)'
<1>1. at = "operand" /\ Full /\ Error
  BY DEF TooMany, Standing
<1>2. Opening
  BY <1>1 DEF Opening
<1>3. /\ PartOpens(cur) /\ toks \in Seq(Tokens) /\ First # "dir"
  BY <1>1, <1>2, PartStarts
<1>4. from \in 1 .. Len(toks) /\ TokenAt(toks, from) \notin LineEnd
  BY DEF Started
<1>5. ~ Reader!IsLabel(from) /\ LineText(toks, from) # <<>> /\ PartAt(toks, from, Len(parts) + 1, cur)
  BY <1>3 DEF PartOpens, ReadSoFar
<1>6. Len(parts) + 1 > MaxOperands /\ Len(parts) + 1 \in Nat
  <2> DEFINE l == Len(parts)
  <2>1. l \in Nat /\ MaxOperands \in Nat /\ l >= MaxOperands
    BY <1>1, ShapeIs, ParserAssumption DEF Typed, Full
  <2> HIDE DEF l
  <2>2. l + 1 > MaxOperands /\ l + 1 \in Nat
    BY ONLY <2>1
  <2> QED BY <2>2 DEF l
<1>7. ~ LaxGoodLine(from)
  BY <1>3, <1>4, <1>5, <1>6, ExtraPartSpoils DEF First
<1>8. toks' = toks /\ from' = from /\ cur' = cur /\ at' = "failed"
  BY <1>1 DEF Error, Complain
<1> QED BY <1>5, <1>7, <1>8, LineFails

\* Where an argument or an operand starts.
LEMMA OpeningIs ==
  /\ Arg => Opening /\ at \in {"args", "arg"}
  /\ Operand => Opening /\ at \in {"operands", "operand"} /\ ~ Full
BY DEF Arg, Operand, Opening, Standing

\* A name or a string is an argument.
LEMMA PlainArgFollows ==
  ASSUME Typed, Started, PlaceOK, PlainArg PROVE (Started /\ PlaceOK)'
<1>1. /\ Cur \in Idents \cup {"str"} /\ Advance("taken") /\ parts' = parts /\ num' = num /\ Opening /\ at \in {"args", "arg"}
      /\ op' = Node(IF Cur = "str" THEN "str" ELSE "symbol", Cur, 0, EmptyMem, FALSE, cur, 0)
  BY OpeningIs DEF PlainArg, New
<1>2. First = "dir" /\ PartText(toks, cur) \in Seq(Tokens) /\ CurIs(PartText(toks, cur), 1, Cur) /\ cur \in Nat
  BY <1>1, PartStarts
<1>3. Cur \notin Seps /\ "taken" \in PartPlaces
  BY <1>1, SepsAre, MemPlacesAre
<1>4. toks' = toks /\ from' = from /\ cur' = cur + 1 /\ at' = "taken"
  BY <1>1, <1>3, AdvanceIs
<1>5. PartOK("taken", "dir", PartText(toks, cur), 2, op', num')
  BY <1>1, <1>2, PlainArgStep
<1>6. op'.from = cur
  BY <1>1 DEF Node
<1> QED BY <1>1, <1>2, <1>3, <1>4, <1>5, <1>6, PartGoesIn

\* A register is an operand.
LEMMA RegisterFollows ==
  ASSUME Typed, Started, PlaceOK, Register PROVE (Started /\ PlaceOK)'
<1>1. /\ Cur \in Registers /\ Advance("taken") /\ parts' = parts /\ num' = num
      /\ Opening /\ at \in {"operands", "operand"} /\ ~ Full
      /\ op' = Node("reg", Cur, 0, EmptyMem, FALSE, cur, 0)
  BY OpeningIs DEF Register, New
<1>2. First # "dir" /\ PartText(toks, cur) \in Seq(Tokens) /\ CurIs(PartText(toks, cur), 1, Cur) /\ cur \in Nat
  BY <1>1, PartStarts
<1>3. Cur \notin Seps /\ "taken" \in PartPlaces
  BY <1>1, SepsAre, MemPlacesAre, KindsApart
<1>4. toks' = toks /\ from' = from /\ cur' = cur + 1 /\ at' = "taken"
  BY <1>1, <1>3, AdvanceIs
<1>5. PartOK("taken", First, PartText(toks, cur), 2, op', num')
  BY <1>1, <1>2, RegisterStep
<1>6. op'.from = cur
  BY <1>1 DEF Node
<1> QED BY <1>1, <1>3, <1>4, <1>5, <1>6, PartGoesIn

\* A name starts an operand.
LEMMA SymbolOperandFollows ==
  ASSUME Typed, Started, PlaceOK, SymbolOperand PROVE (Started /\ PlaceOK)'
<1>1. /\ Cur \in Idents \ (Registers \cup {"size"}) /\ Advance("symbol") /\ parts' = parts /\ num' = num
      /\ Opening /\ at \in {"operands", "operand"} /\ ~ Full
      /\ op' = Node("imm", Cur, 0, EmptyMem, FALSE, cur, 0)
  BY OpeningIs DEF SymbolOperand, New
<1>2. First # "dir" /\ PartText(toks, cur) \in Seq(Tokens) /\ CurIs(PartText(toks, cur), 1, Cur) /\ cur \in Nat
  BY <1>1, PartStarts
<1>3. Cur \notin Seps /\ "symbol" \in PartPlaces
  BY <1>1, SepsAre, MemPlacesAre
<1>4. toks' = toks /\ from' = from /\ cur' = cur + 1 /\ at' = "symbol"
  BY <1>1, <1>3, AdvanceIs
<1>5. PartOK("symbol", First, PartText(toks, cur), 2, op', num')
  BY <1>1, <1>2, SymbolStart
<1>6. op'.from = cur
  BY <1>1 DEF Node
<1> QED BY <1>1, <1>3, <1>4, <1>5, <1>6, PartGoesIn

\* A size starts an operand.
LEMMA SizePrefixFollows ==
  ASSUME Typed, Started, PlaceOK, SizePrefix PROVE (Started /\ PlaceOK)'
<1>1. /\ Cur = "size" /\ Advance("sized") /\ parts' = parts /\ num' = num
      /\ Opening /\ at \in {"operands", "operand"} /\ ~ Full
      /\ op' = Node("mem", "", 0, EmptyMem, TRUE, cur, 0)
  BY OpeningIs DEF SizePrefix, New
<1>2. First # "dir" /\ PartText(toks, cur) \in Seq(Tokens) /\ CurIs(PartText(toks, cur), 1, "size") /\ cur \in Nat
  BY <1>1, PartStarts
<1>3. Cur \notin Seps /\ "sized" \in PartPlaces
  BY <1>1, SepsAre, MemPlacesAre, KindsApart
<1>4. toks' = toks /\ from' = from /\ cur' = cur + 1 /\ at' = "sized"
  BY <1>1, <1>3, AdvanceIs
<1>5. PartOK("sized", First, PartText(toks, cur), 2, op', num')
  BY <1>1, <1>2, SizeStep
<1>6. op'.from = cur
  BY <1>1 DEF Node
<1> QED BY <1>1, <1>3, <1>4, <1>5, <1>6, PartGoesIn

\* An integer starts an argument or an operand.
LEMMA IntPartFollows ==
  ASSUME Typed, Started, PlaceOK, IntPart PROVE (Started /\ PlaceOK)'
<1> DEFINE s == PartText(toks, cur)
           k == IF Cur \in Signs THEN 2 ELSE 1
<1>1. /\ Cur \in Literals \cup Signs /\ SignedInt("taken") /\ parts' = parts /\ Opening
      /\ (at \in {"args", "arg"}) \/ (at \in {"operands", "operand"} /\ ~ Full)
  BY OpeningIs DEF IntPart
<1>2. s \in Seq(Tokens) /\ CurIs(s, 1, Cur) /\ (First = "dir" \/ ~ Full)
      /\ (at \in {"args", "arg"} => First = "dir") /\ (at \in {"operands", "operand"} => First # "dir")
  BY <1>1, PartStarts
<1>3. op' = Node(IF First = "dir" THEN "int" ELSE "imm", "", 0, EmptyMem, FALSE, cur, 0)
  <2>1. \/ at \in {"args", "arg"} /\ op' = Node("int", "", 0, EmptyMem, FALSE, cur, 0)
        \/ at \in {"operands", "operand"} /\ op' = Node("imm", "", 0, EmptyMem, FALSE, cur, 0)
    BY OpeningIs DEF IntPart, New
  <2>2. \/ First = "dir" /\ op' = Node("int", "", 0, EmptyMem, FALSE, cur, 0)
        \/ First # "dir" /\ op' = Node("imm", "", 0, EmptyMem, FALSE, cur, 0)
    BY ONLY <1>2, <2>1, Zenon
  <2> DEFINE kd == IF First = "dir" THEN "int" ELSE "imm"
  <2>3. (First = "dir" => kd = "int") /\ (First # "dir" => kd = "imm")
    OBVIOUS
  <2> HIDE DEF kd
  <2>4. op' = Node(kd, "", 0, EmptyMem, FALSE, cur, 0)
    BY ONLY <2>2, <2>3, Zenon
  <2> QED BY ONLY <2>4, Zenon DEF kd
<1>4. num'.then = "taken" /\ (num'.minus <=> Cur = "-")
  BY <1>1 DEF SignedInt, Typed, Shaped, Nums
<1>5. "int" \in PartPlaces
  BY MemPlacesAre DEF Numeral
<1>6. toks' = toks /\ from' = from /\ at' = "int" /\ ((k = 1 /\ cur' = cur) \/ (k = 2 /\ cur' = cur + 1 /\ Cur \notin Seps))
  <2>1. CASE Cur \in Signs
    <3>1. Cur \notin Seps /\ Advance("int")
      BY <1>1, <2>1, SepsAre DEF SignedInt
    <3>2. toks' = toks /\ from' = from /\ at' = "int" /\ cur' = cur + 1
      BY <3>1, AdvanceIs
    <3> QED BY <2>1, <3>1, <3>2
  <2>2. CASE Cur \notin Signs
    <3>1. Goto("int")
      BY <1>1, <2>2 DEF SignedInt
    <3> QED BY <2>2, <3>1, GotoIs
  <2> QED BY <2>1, <2>2
<1>7. op'.from = cur
  BY <1>3 DEF Node
<1> HIDE DEF s
<1>8. PartOK("int", First, s, k, op', num')
  BY ONLY <1>1, <1>2, <1>3, <1>4, IntPartStep
<1> HIDE DEF k
<1> QED BY <1>1, <1>2, <1>5, <1>6, <1>7, <1>8, PartGoesIn DEF s

\* A token that starts no argument.
LEMMA BadArgFollows ==
  ASSUME Typed, Started, PlaceOK, BadArg PROVE (Started /\ PlaceOK)'
<1>1. Cur \notin Idents \cup {"str"} \cup Literals \cup Signs /\ Error /\ Opening /\ at \in {"args", "arg"}
  BY OpeningIs DEF BadArg
<1>2. First = "dir" /\ PartText(toks, cur) \in Seq(Tokens) /\ CurIs(PartText(toks, cur), 1, Cur)
  BY <1>1, PartStarts
<1>3. ~ Valid(First, PartText(toks, cur))
  BY <1>1, <1>2, BadPart
<1> QED BY <1>1, <1>3, PartStops

\* A token that starts no operand.
LEMMA BadOperandFollows ==
  ASSUME Typed, Started, PlaceOK, BadOperand PROVE (Started /\ PlaceOK)'
<1>1. Cur \notin Idents \cup Literals \cup Signs \cup {"["} /\ Error /\ Opening /\ at \in {"operands", "operand"}
  BY OpeningIs DEF BadOperand
<1>2. First # "dir" /\ PartText(toks, cur) \in Seq(Tokens) /\ CurIs(PartText(toks, cur), 1, Cur)
  BY <1>1, PartStarts
<1>3. ~ Valid(First, PartText(toks, cur))
  BY <1>1, <1>2, BadPart DEF Valid
<1> QED BY <1>1, <1>3, PartStops

\* What is added to a name.
LEMMA AddendFollows ==
  ASSUME Typed, Started, PlaceOK, Addend PROVE (Started /\ PlaceOK)'
<1> DEFINE s == PartText(toks, op.from)
           k == cur - op.from + 1
<1>1. at = "symbol" /\ Cur \in Signs /\ SignedInt("taken") /\ parts' = parts /\ op' = op
  BY DEF Addend, Standing
<1>2. InPart /\ "int" \in PartPlaces /\ Cur \notin Seps
  BY <1>1, MemPlacesAre, Placed, SepsAre DEF Numeral
<1>3. toks' = toks /\ from' = from /\ at' = "int" /\ cur' = cur + 1
  <2>1. Advance("int")
    BY <1>1 DEF SignedInt
  <2> QED BY <1>2, <2>1, AdvanceIs
<1>4. num'.then = "taken" /\ (num'.minus <=> Cur = "-")
  BY <1>1 DEF SignedInt, Typed, Shaped, Nums
<1>5. s \in Seq(Tokens) /\ PartOK("symbol", First, s, k, op, num) /\ CurIs(s, k, Cur) /\ cur \in Nat /\ op.from \in Nat
  BY <1>1, <1>2, PartKnown
<1>6. cur' - op.from + 1 = 3
  <2>1. cur - op.from + 1 = 2
    BY <1>5 DEF PartOK
  <2> QED BY <1>3, <1>5, <2>1
<1> HIDE DEF s, k
<1>7. PartOK("int", First, s, 3, op, num')
  BY ONLY <1>1, <1>4, <1>5, AddendStep
<1> QED BY <1>1, <1>2, <1>3, <1>6, <1>7, PartGoesOn DEF s

\* What is known behind a size keyword.
LEMMA SizedKnown ==
  ASSUME Typed, Started, PlaceOK, at \in {"sized", "bracket"}
  PROVE  LET s == PartText(toks, op.from)
             k == cur - op.from + 1
         IN /\ InPart /\ s \in Seq(Tokens) /\ CurIs(s, k, Cur) /\ First # "dir" /\ cur \in Nat /\ op.from \in Nat
            /\ Len(s) \in Nat /\ Len(s) > 0 /\ s[1] = "size" /\ OpenNode("mem", "", EmptyMem, TRUE, op)
            /\ at = "sized"   => k = 2
            /\ at = "bracket" => k = 3 /\ s[2] = "ptr"
            /\ k <= Len(s) + 1
<1>1. InPart
  BY MemPlacesAre, Placed
<1>2. PartOK(at, First, PartText(toks, op.from), cur - op.from + 1, op, num)
  BY <1>1, PartKnown
<1>3. /\ First # "dir" /\ Len(PartText(toks, op.from)) > 0 /\ PartText(toks, op.from)[1] = "size"
      /\ OpenNode("mem", "", EmptyMem, TRUE, op)
      /\ at = "sized"   => cur - op.from + 1 = 2
      /\ at = "bracket" => cur - op.from + 1 = 3 /\ PartText(toks, op.from)[2] = "ptr"
  BY <1>2, Zenon DEF PartOK
<1> DEFINE s == PartText(toks, op.from)
           k == cur - op.from + 1
<1>4. /\ s \in Seq(Tokens) /\ CurIs(s, k, Cur) /\ cur \in Nat /\ Len(s) \in Nat /\ k \in 1 .. Len(s) + 1
      /\ op.from \in 1 .. Len(toks) + 1
  BY <1>1, PartKnown
<1>5. op.from \in Nat
  BY <1>4
<1>6. k <= Len(s) + 1
  BY <1>4
<1> QED BY ONLY <1>1, <1>3, <1>4, <1>5, <1>6, Zenon

\* The `ptr' behind a size.
LEMMA PtrFollows ==
  ASSUME Typed, Started, PlaceOK, Ptr PROVE (Started /\ PlaceOK)'
<1> DEFINE s == PartText(toks, op.from)
           k == cur - op.from + 1
           tr == TRUE
<1>1. at = "sized" /\ Cur = "ptr" /\ Advance("bracket") /\ parts' = parts /\ op' = op /\ num' = num
  BY DEF Ptr, Standing, Keep
<1>2. "bracket" \in PartPlaces /\ Cur \notin Seps
  BY <1>1, MemPlacesAre, SepsAre DEF Idents
<1>3. toks' = toks /\ from' = from /\ at' = "bracket" /\ cur' = cur + 1
  BY <1>1, <1>2, AdvanceIs
<1>4. /\ InPart /\ s \in Seq(Tokens) /\ CurIs(s, k, Cur) /\ First # "dir" /\ cur \in Nat /\ op.from \in Nat
      /\ Len(s) \in Nat /\ Len(s) > 0 /\ s[1] = "size" /\ OpenNode("mem", "", EmptyMem, tr, op) /\ k = 2
  BY <1>1, SizedKnown
<1>5. cur' - op.from + 1 = 3
  <2>1. cur - op.from + 1 = 2 /\ cur \in Nat /\ op.from \in Nat
    BY <1>4
  <2> QED BY <1>3, <2>1
<1> HIDE DEF s, k, tr
<1>6. 2 <= Len(s) /\ s[2] = "ptr"
  BY <1>1, <1>2, <1>4 DEF CurIs
<1>7. 3 \in 1 .. Len(s) + 1
  <2> DEFINE l == Len(s)
  <2>1. l \in Nat /\ 2 <= l
    BY <1>4, <1>6
  <2> HIDE DEF l
  <2>2. 3 \in 1 .. l + 1
    BY ONLY <2>1
  <2> QED BY <2>2 DEF l
<1>8. "bracket" \notin MemPlaces \cup Numeral
  BY MemPlacesAre
<1>9. PartOK("bracket", First, s, 3, op, num)
  BY <1>4, <1>6, <1>7, <1>8 DEF PartOK, tr
<1> QED BY <1>1, <1>2, <1>3, <1>4, <1>5, <1>9, PartGoesOn DEF s

\* A size without its bracket.
LEMMA NoBracketFollows ==
  ASSUME Typed, Started, PlaceOK, NoBracket PROVE (Started /\ PlaceOK)'
<1> DEFINE s == PartText(toks, op.from)
           k == cur - op.from + 1
<1>1. Error /\ at \in {"sized", "bracket"} /\ (at = "sized" => Cur \notin {"ptr", "["}) /\ (at = "bracket" => Cur # "[")
  BY DEF NoBracket, Standing
<1>2. /\ InPart /\ s \in Seq(Tokens) /\ CurIs(s, k, Cur) /\ First # "dir"
      /\ Len(s) \in Nat /\ Len(s) > 0 /\ s[1] = "size"
      /\ at = "sized"   => k = 2
      /\ at = "bracket" => k = 3 /\ s[2] = "ptr"
      /\ k <= Len(s) + 1
  BY <1>1, SizedKnown
<1> HIDE DEF s, k
<1>3. s[1] \notin Literals \cup Signs \cup Registers
  BY <1>2, KindsApart
<1>4. ~ Reader!IsInt(s)
  <2>1. Len(s) = 1 \/ Len(s) > 1
    BY <1>2
  <2> QED BY <1>2, <1>3, <2>1, PartShape
<1>5. ~ LaxIsMemory(s)
  <2> SUFFICES ASSUME Len(s) > 2, s[Reader!Bracket(s)] = "[" PROVE FALSE
    BY <1>2, PartShape
  <2>1. Len(s) > 1 /\ 2 <= Len(s) /\ 3 <= Len(s)
    BY <1>2
  <2>2. /\ Reader!Bracket(s) \in 1 .. 3
        /\ Reader!Bracket(s) # 1 /\ (Reader!Bracket(s) = 3 <=> s[2] = "ptr")
    BY <1>2, <2>1, BracketIs
  <2> QED BY <1>1, <1>2, <2>1, <2>2 DEF CurIs
<1>6. ~ LaxIsOperand(s)
  BY <1>2, <1>3, <1>4, <1>5, PartShape
<1>7. ~ Valid(First, s)
  BY <1>2, <1>6 DEF Valid
<1> QED BY <1>1, <1>2, <1>7, PartFails DEF s

\* The operand whose brackets open, with and without a size.
LEMMA PlainMemNode ==
  ASSUME NEW s, s[1] # "size", NEW f, NEW o, o = Node("mem", "", 0, EmptyMem, FALSE, f, 0)
  PROVE  MemNode(s, o) /\ o.mem = EmptyMem
<1> DEFINE kd == "mem"
           nm == ""
           sz == FALSE
           tz == s[1] = "size"
           em == EmptyMem
<1>1. sz = tz
  OBVIOUS
<1>2. o = Node(kd, nm, 0, em, sz, f, 0)
  OBVIOUS
<1> HIDE DEF kd, nm, sz, tz, em
<1>3. o.from = f /\ o.mem = em
  BY ONLY <1>2 DEF Node
<1>4. OpenNode(kd, nm, o.mem, tz, o)
  BY ONLY <1>1, <1>2, <1>3 DEF OpenNode
<1> QED BY ONLY <1>3, <1>4, Zenon DEF MemNode, kd, nm, tz, em

\* The node of an operand with a size is an address under construction.
LEMMA SizedMemNode ==
  ASSUME NEW s, s[1] = "size", NEW o, OpenNode("mem", "", EmptyMem, TRUE, o)
  PROVE  MemNode(s, o) /\ o.mem = EmptyMem
<1> DEFINE kd == "mem"
           nm == ""
           sz == TRUE
           tz == s[1] = "size"
           em == EmptyMem
<1>1. sz = tz
  OBVIOUS
<1>2. OpenNode(kd, nm, em, sz, o)
  OBVIOUS
<1> HIDE DEF kd, nm, sz, tz, em
<1>3. o.mem = em
  BY ONLY <1>2 DEF OpenNode, Node
<1>4. OpenNode(kd, nm, o.mem, tz, o)
  BY ONLY <1>1, <1>2, <1>3
<1> QED BY ONLY <1>3, <1>4, Zenon DEF MemNode, kd, nm, tz, em

\* The opening bracket of an address.
LEMMA OpenBracketFollows ==
  ASSUME Typed, Started, PlaceOK, OpenBracket PROVE (Started /\ PlaceOK)'
<1>1. Cur = "[" /\ Advance("mem") /\ num' = NoNum /\ parts' = parts
  BY DEF OpenBracket
<1>2. Cur \notin Seps /\ "mem" \in PartPlaces
  BY <1>1, SepsAre, MemPlacesAre
<1>3. toks' = toks /\ from' = from /\ at' = "mem" /\ cur' = cur + 1
  BY <1>1, <1>2, AdvanceIs
<1>4. CASE Operand /\ op' = Node("mem", "", 0, EmptyMem, FALSE, cur, 0)
  <2> DEFINE s == PartText(toks, cur)
  <2>1. Opening /\ at \in {"operands", "operand"} /\ ~ Full
    BY <1>4, OpeningIs
  <2>2. First # "dir" /\ s \in Seq(Tokens) /\ CurIs(s, 1, "[")
    BY <1>1, <2>1, PartStarts
  <2>3. op'.from = cur
    BY <1>4 DEF Node
  <2> HIDE DEF s
  <2>4. Len(s) > 0 /\ 1 <= Len(s) /\ s[1] = "["
    BY <1>1, <1>2, <2>2, FirstToken
  <2>5. s[1] # "size"
    BY <2>4
  <2>6. MemNode(s, op') /\ op'.mem = EmptyMem
    BY <1>4, <2>5, PlainMemNode
  <2>7. 1 = Reader!Bracket(s) /\ 1 \in 1 .. 3
    BY <2>2, <2>5, BracketIs
  <2>8. PartOK("mem", First, s, 1 + 1, op', NoNum)
    BY ONLY <2>2, <2>4, <2>6, <2>7, BracketStep
  <2>9. PartOK("mem", First, s, 2, op', num')
    <3>1. \A n : n = 2 => PartOK("mem", First, s, n, op', NoNum)
      BY ONLY <2>8
    <3> QED BY <1>1, <3>1
  <2> QED BY <1>1, <1>2, <1>3, <2>1, <2>3, <2>9, PartGoesIn DEF s
<1>5. CASE Standing({"sized", "bracket"}) /\ op' = op
  <2> DEFINE s == PartText(toks, op.from)
             k == cur - op.from + 1
             tr == TRUE
  <2>1. at \in {"sized", "bracket"}
    BY <1>5 DEF Standing
  <2>2. /\ InPart /\ s \in Seq(Tokens) /\ CurIs(s, k, Cur) /\ First # "dir" /\ cur \in Nat /\ op.from \in Nat
        /\ Len(s) \in Nat /\ Len(s) > 0 /\ s[1] = "size" /\ OpenNode("mem", "", EmptyMem, tr, op)
        /\ at = "sized"   => k = 2
        /\ at = "bracket" => k = 3 /\ s[2] = "ptr"
    BY <2>1, SizedKnown
  <2>3. cur' - op.from + 1 = k + 1
    <3>1. cur \in Nat /\ op.from \in Nat
      BY <2>2
    <3> QED BY <1>3, <3>1
  <2> HIDE DEF s, k
  <2>4. MemNode(s, op) /\ op.mem = EmptyMem
    BY <2>2, SizedMemNode
  <2>5. k <= Len(s) /\ s[k] = "[" /\ k \in {2, 3}
    BY <1>1, <1>2, <2>1, <2>2 DEF CurIs
  <2>6. k = Reader!Bracket(s)
    <3>1. Len(s) > 1 /\ Reader!Bracket(s) \in 1 .. 3
      <4> DEFINE l == Len(s)
      <4>1. l \in Nat /\ k <= l /\ k \in {2, 3}
        BY <2>2, <2>5
      <4> HIDE DEF l
      <4>2. l > 1
        BY ONLY <4>1
      <4>3. s \in Seq(Tokens)
        BY <2>2
      <4> QED BY ONLY <4>2, <4>3, BracketIs DEF l
    <3>2. Reader!Bracket(s) # 1 /\ (Reader!Bracket(s) = 3 <=> s[2] = "ptr")
      BY ONLY <2>2, <3>1, BracketIs
    <3>3. CASE at = "sized"
      <4>1. k = 2 /\ s[2] = "["
        BY <2>2, <2>5, <3>3
      <4>2. Reader!Bracket(s) # 3
        BY ONLY <3>2, <4>1
      <4> QED BY ONLY <3>1, <3>2, <4>1, <4>2
    <3>4. CASE at = "bracket"
      BY <2>2, <3>1, <3>2, <3>4
    <3> QED BY <2>1, <3>3, <3>4
  <2>7. PartOK("mem", First, s, k + 1, op, NoNum)
    <3>1. k \in 1 .. 3
      BY <2>5
    <3>2. s \in Seq(Tokens) /\ First # "dir"
      BY <2>2
    <3> QED BY ONLY <2>4, <2>5, <2>6, <3>1, <3>2, BracketStep
  <2> QED BY <1>1, <1>2, <1>3, <1>5, <2>2, <2>3, <2>7, PartGoesOn DEF s
<1> QED BY <1>4, <1>5 DEF OpenBracket, New

\* What is known where a part ends.
LEMMA TakenKnown ==
  ASSUME Typed, Started, PlaceOK, Taken
  PROVE  LET s == PartText(toks, op.from)
             k == cur - op.from + 1
         IN /\ InPart /\ op \in Nodes /\ TakenOK(First, s, k, op)
            /\ Cur \in Seps <=> k = Len(s) + 1
            /\ Cur \in Seps => PartEnds(toks, op.from, cur) /\ PartStop(toks, op.from) = cur
            /\ op.from + k - 2 = cur - 1
<1> DEFINE s == PartText(toks, op.from)
           k == cur - op.from + 1
<1>1. at \in {"taken", "symbol"} /\ (at = "symbol" => Cur \notin Signs)
  BY DEF Taken, Standing
<1>2. InPart
  BY <1>1, MemPlacesAre, Placed
<1>3. op \in Nodes
  BY <1>1 DEF Typed, Fitted, Inside
<1>4. op.from \in Nat
  BY <1>3 DEF Nodes
<1>5. /\ s \in Seq(Tokens) /\ k \in 1 .. Len(s) + 1 /\ Len(s) \in Nat /\ k \in Nat /\ cur \in Nat
      /\ PartOK(at, First, s, k, op, num) /\ CurIs(s, k, Cur)
      /\ k <= Len(s) => Cur \notin Seps
      /\ PartStop(toks, op.from) = op.from + Len(s)
      /\ k > Len(s) => k = Len(s) + 1 /\ PartEnds(toks, op.from, cur)
  BY <1>2, PartKnown
<1>6. op.from + k - 2 = cur - 1 /\ \A l \in Nat : k = l + 1 => op.from + l = cur
  <2>1. k = cur - op.from + 1
    OBVIOUS
  <2> HIDE DEF k
  <2> QED BY ONLY <1>4, <1>5, <2>1
<1> HIDE DEF s, k
<1>7. TakenOK(First, s, k, op)
  <2>1. CASE at = "taken"
    BY <1>5, <2>1 DEF PartOK
  <2>2. CASE at = "symbol"
    BY <1>1, <1>4, <1>5, <2>2, SymbolEnd
  <2> QED BY <1>1, <2>1, <2>2
<1>8. Cur \in Seps <=> k = Len(s) + 1
  <2> DEFINE l == Len(s)
  <2>1. k \in Nat /\ l \in Nat /\ (k <= l => Cur \notin Seps) /\ (k > l => k = l + 1) /\ (k = l + 1 => Cur \in Seps)
    <3>1. k = l + 1 => ~ (k <= l)
      BY <1>5
    <3> QED BY <1>5, <3>1 DEF CurIs
  <2> HIDE DEF l
  <2>2. Cur \in Seps <=> k = l + 1
    BY ONLY <2>1
  <2> QED BY <2>2 DEF l
<1>9. Cur \in Seps => PartEnds(toks, op.from, cur) /\ PartStop(toks, op.from) = cur
  <2> SUFFICES ASSUME Cur \in Seps PROVE PartEnds(toks, op.from, cur) /\ PartStop(toks, op.from) = cur
    OBVIOUS
  <2>1. k = Len(s) + 1
    BY <1>8
  <2>2. k > Len(s)
    BY <1>5, <2>1
  <2> QED BY <1>5, <1>6, <2>1, <2>2
<1> QED BY <1>2, <1>3, <1>6, <1>7, <1>8, <1>9 DEF s, k

\* The part that has been read joins the ones before.
LEMMA PartJoins ==
  ASSUME Typed, Started, PlaceOK, Taken, PartDone, Cur \in Seps
  PROVE  /\ InPart /\ Len(parts') = Len(parts) + 1 /\ parts' # <<>> /\ Len(parts) \in Nat
         /\ \A n \in 1 .. Len(parts') : PartRead(toks, from, n, parts'[n])
         /\ First # "dir" => Len(parts') <= MaxOperands
         /\ PartAt(toks, from, Len(parts'), op.from) /\ PartEnds(toks, op.from, cur)
         /\ LineText(toks, from) # <<>> /\ First \in Idents \cup {"dir"} /\ ~ Reader!IsLabel(from) /\ cur > from
<1> DEFINE s == PartText(toks, op.from)
           k == cur - op.from + 1
           p == [op EXCEPT !.to = cur - 1]
           l == Len(parts)
<1>1. /\ InPart /\ op \in Nodes /\ TakenOK(First, s, k, op) /\ k = Len(s) + 1
      /\ PartEnds(toks, op.from, cur) /\ PartStop(toks, op.from) = cur /\ op.from + k - 2 = cur - 1
  BY TakenKnown
<1>2. s = SubSeq(toks, op.from, cur - 1)
  BY <1>1 DEF PartText
<1>3. Valid(First, SubSeq(toks, op.from, cur - 1)) /\ p = NodeOf(First, SubSeq(toks, op.from, cur - 1), op.from, cur - 1)
  <2>1. Valid(First, s) /\ [op EXCEPT !.to = op.from + k - 2] = NodeOf(First, s, op.from, op.from + k - 2)
    BY <1>1 DEF TakenOK
  <2> HIDE DEF s, k
  <2>2. Valid(First, s) /\ p = NodeOf(First, s, op.from, cur - 1)
    BY ONLY <1>1, <2>1
  <2> QED BY ONLY <1>2, <2>2
<1>4. /\ ReadSoFar /\ LineText(toks, from) # <<>> /\ PartAt(toks, from, l + 1, op.from)
      /\ First # "dir" => l < MaxOperands
  BY <1>1 DEF InPart, PartOpens
<1>5. PartRead(toks, from, l + 1, p)
  BY <1>1, <1>3, <1>4 DEF PartRead, First
<1>6. parts \in Seq(Nodes) /\ p \in Seq(Nodes) \cup {p} /\ parts' = Append(parts, p) /\ l \in Nat /\ MaxOperands \in Nat
  BY ShapeIs, ParserAssumption DEF Typed, Shaped, PartDone
<1> HIDE DEF p, s, k
<1>7. Len(parts') = l + 1 /\ parts'[l + 1] = p /\ \A n \in 1 .. l : parts'[n] = parts[n]
  <2>1. parts \in Seq(Nodes \cup {p}) /\ p \in Nodes \cup {p}
    BY <1>6
  <2> QED BY ONLY <1>6, <2>1, AppendIs
<1>8. \A n \in 1 .. Len(parts') : PartRead(toks, from, n, parts'[n])
  <2> SUFFICES ASSUME NEW n \in 1 .. l + 1 PROVE PartRead(toks, from, n, parts'[n])
    BY <1>7
  <2>1. n = l + 1 \/ n \in 1 .. l
    BY <1>6
  <2>2. \A i \in 1 .. l : PartRead(toks, from, i, parts[i])
    BY <1>4 DEF ReadSoFar
  <2> HIDE DEF l
  <2> QED BY ONLY <1>5, <1>7, <2>1, <2>2, Zenon
<1>9. Len(parts') = Len(parts) + 1 /\ parts' # <<>> /\ Len(parts) \in Nat
  <2>1. Len(parts') # 0
    BY <1>6, <1>7
  <2>2. parts' # <<>>
    BY <2>1
  <2> QED BY <1>6, <1>7, <2>2
<1>10. First # "dir" => Len(parts') <= MaxOperands
  BY <1>4, <1>6, <1>7
<1>11. PartAt(toks, from, Len(parts'), op.from)
  BY <1>4, <1>7
<1>12. First \in Idents \cup {"dir"} /\ ~ Reader!IsLabel(from) /\ cur > from
  BY <1>4 DEF ReadSoFar
<1> QED BY <1>1, <1>4, <1>8, <1>9, <1>10, <1>11, <1>12

\* A comma, and the next part.
LEMMA CommaFollows ==
  ASSUME Typed, Started, PlaceOK, Comma PROVE (Started /\ PlaceOK)'
<1>1. /\ Taken /\ Cur = "," /\ PartDone /\ toks' = toks /\ from' = from
      /\ at' = (IF Kind = "directive" THEN "arg" ELSE "operand") /\ Consume
  BY DEF Comma, Advance
<1>0. toks' = toks /\ from' = from
  BY <1>1, Zenon
<1>2. Cur \in Seps /\ Cur \notin LineEnd /\ Cur # "eof" /\ TokenAt(toks, cur) = CommaToken
  BY <1>1, CommaIs DEF CommaToken, Seps, Cur, Tok
<1>3. cur' = cur + 1
  BY <1>1, <1>2 DEF Consume
<1>4. Started'
  BY <1>1, <1>2, <1>3, StartedStep
<1>5. at' = (IF First = "dir" THEN "arg" ELSE "operand")
  BY <1>1 DEF Kind, First, Tok
<1>6. /\ InPart /\ Len(parts') = Len(parts) + 1 /\ parts' # <<>> /\ Len(parts) \in Nat
      /\ \A n \in 1 .. Len(parts') : PartRead(toks, from, n, parts'[n])
      /\ First # "dir" => Len(parts') <= MaxOperands
      /\ PartAt(toks, from, Len(parts'), op.from) /\ PartEnds(toks, op.from, cur)
      /\ LineText(toks, from) # <<>> /\ First \in Idents \cup {"dir"} /\ ~ Reader!IsLabel(from) /\ cur > from
  BY <1>1, <1>2, PartJoins
<1>7. PartAt(toks, from, Len(parts') + 1, cur + 1)
  <2>1. toks \in Seq(Tokens) /\ from \in 1 .. Len(toks) /\ TokenAt(toks, from) \notin LineEnd
    BY DEF Typed, Shaped, Started
  <2> QED BY ONLY <1>2, <1>6, <2>1, PartIs
<1>8. ReadSoFar'
  <2>1. cur' > from'
    <3>1. cur \in Nat /\ from \in Nat
      BY ShapeIs DEF Typed
    <3> QED BY ONLY <1>0, <1>3, <1>6, <3>1
  <2> QED BY <1>0, <1>6, <2>1, ReaderSame DEF ReadSoFar, First
<1>9. PartOpens(cur)'
  BY <1>0, <1>3, <1>6, <1>7, <1>8 DEF PartOpens
<1>10. /\ at' # "colon" /\ at' \notin {"args", "operands"} /\ at' # "end" /\ at' # "done" /\ at' \notin {"failed", "skip"}
       /\ at' \notin PartPlaces /\ (at' \in {"args", "arg"} => First' = "dir") /\ (at' \in {"operands", "operand"} => First' # "dir")
  <2>1. First' = First
    BY <1>1, ReaderSame
  <2> QED BY <1>5, <2>1 DEF PartPlaces, MemPlaces, TermPlaces, Numeral
<1>11. PlaceOK'
  BY <1>9, <1>10, Zenon DEF PlaceOK
<1> QED BY <1>4, <1>11

\* The last part of a line, or one behind which there is no comma.
LEMMA LastPartFollows ==
  ASSUME Typed, Typed', Started, PlaceOK, LastPart PROVE (Started /\ PlaceOK)'
<1>1. Taken /\ Cur # "," /\ PartDone /\ toks' = toks /\ from' = from /\ cur' = cur /\ at' = "end"
  BY DEF LastPart, Goto
<1>2. Started'
  BY <1>1, StartedStep
<1>3. toks \in Seq(Tokens) /\ from \in 1 .. Len(toks) /\ TokenAt(toks, from) \notin LineEnd
  BY DEF Typed, Shaped, Started
<1>4. InPart /\ ReadSoFar
  BY <1>1, TakenKnown DEF InPart, PartOpens
<1>5. (Cur \in LineEnd)' <=> Cur \in LineEnd
  BY <1>1 DEF Cur, Tok
<1>6. ASSUME Cur \in LineEnd
      PROVE  LineJudged'
  <2>1. Cur \in Seps
    BY <1>6 DEF Seps
  <2>2. /\ parts' # <<>> /\ LineText(toks, from) # <<>> /\ First \in Idents \cup {"dir"}
        /\ \A n \in 1 .. Len(parts') : PartRead(toks, from, n, parts'[n])
        /\ First # "dir" => Len(parts') <= MaxOperands
        /\ PartAt(toks, from, Len(parts'), op.from) /\ PartEnds(toks, op.from, cur) /\ ~ Reader!IsLabel(from)
    BY <1>1, <2>1, PartJoins
  <2>3. parts' \in Seq(Nodes)
    BY DEF Typed, Shaped
  <2>4. TokenAt(toks, cur) \in LineEnd /\ TokenAt(toks, from) \in Idents \cup {"dir"}
        /\ (TokenAt(toks, from) # "dir" => Len(parts') <= MaxOperands)
    BY <1>6, <2>2 DEF Cur, Tok, First
  <2>5. LaxGoodLine(from) /\ LaxLineOf(from).parts = parts'
    BY ONLY <1>3, <2>2, <2>3, <2>4, LineIsRead
  <2> QED BY <1>1, <1>5, <1>6, <2>2, <2>5, ReaderSame DEF LineJudged, AtEnd, First
<1>7. ASSUME Cur \notin LineEnd
      PROVE  ~ LaxGoodLine(from)
  <2>1. Cur \notin Seps
    BY <1>1, <1>7 DEF Seps, CommaToken
  <2>2. ~ Valid(First, PartText(toks, op.from))
    BY <1>1, <2>1, TakenKnown DEF TakenOK
  <2> QED BY <1>4, <2>2, PartSpoils
<1>8. ~ Reader!IsLabel(from) /\ First \in Idents \cup {"dir"}
  BY <1>4 DEF ReadSoFar
<1>9. /\ (~ Reader!IsLabel(from) /\ First \in Idents \cup {"dir"})'
      /\ (IF AtEnd THEN LineJudged ELSE ~ LaxGoodLine(from))'
  BY <1>1, <1>5, <1>6, <1>7, <1>8, ReaderSame DEF AtEnd
<1>10. /\ at' # "colon" /\ at' \notin {"args", "operands"} /\ at' # "done" /\ at' \notin {"failed", "skip"}
       /\ at' \notin PartPlaces /\ at' \notin {"args", "arg"} /\ at' \notin {"operands", "operand"} /\ at' \notin {"arg", "operand"}
  BY <1>1 DEF PartPlaces, MemPlaces, TermPlaces, Numeral
<1>11. PlaceOK'
  BY <1>9, <1>10, Zenon DEF PlaceOK
<1> QED BY <1>2, <1>11

\* The line ends.
LEMMA EndOfLineFollows ==
  ASSUME Typed, Started, PlaceOK, EndOfLine PROVE (Started /\ PlaceOK)'
<1>1. /\ at \in {"args", "operands", "end"} /\ Cur \in LineEnd /\ at' = "done" /\ toks' = toks /\ from' = from
      /\ cur' = cur /\ parts' = parts
  BY DEF EndOfLine, Standing, AtEnd, Goto, Keep
<1>2. Started'
  BY <1>1, StartedStep
<1>3. ASSUME at = "end" PROVE LineJudged
  BY <1>1, <1>3, Zenon DEF PlaceOK, AtEnd
<1>4. ASSUME at \in {"args", "operands"}
      PROVE  LineJudged
  <2>1. ReadSoFar /\ cur = from + 1 /\ parts = <<>>
    BY <1>4, Zenon DEF PlaceOK
  <2>2. /\ toks \in Seq(Tokens) /\ from \in 1 .. Len(toks) /\ TokenAt(toks, from) \notin LineEnd
        /\ cur \in 1 .. Len(toks) + 1 /\ cur \in Nat /\ from \in Nat /\ Len(toks) \in Nat
    BY ShapeIs DEF Typed, Shaped, Started
  <2>3. TokenAt(toks, cur) \in LineEnd /\ \A k \in from .. cur - 1 : TokenAt(toks, k) \notin LineEnd
    BY <1>1 DEF Cur, Tok, Started
  <2>4. LineStop(toks, from) = cur
    <3>1. from \in 1 .. Len(toks) + 1 /\ cur \in from .. Len(toks) + 1
      BY <2>1, <2>2
    <3> QED BY <2>2, <2>3, <3>1, LineStopIs
  <2>5. LineText(toks, from) = <<>>
    <3>1. LineText(toks, from) \in Seq(Tokens) /\ Len(LineText(toks, from)) = LineStop(toks, from) - 1 - from
      BY <2>2, LineTextIs
    <3> DEFINE t == LineText(toks, from)
    <3> HIDE DEF t
    <3>2. t \in Seq(Tokens) /\ Len(t) = (from + 1) - 1 - from
      BY <2>1, <2>4, <3>1 DEF t
    <3>3. Len(t) = 0
      BY <2>2, <3>2
    <3>4. t = <<>>
      BY <3>2, <3>3
    <3> QED BY <3>4 DEF t
  <2>6. First \in Idents \cup {"dir"} /\ ~ Reader!IsLabel(from)
    BY <2>1 DEF ReadSoFar
  <2>7. parts \in Seq(Nodes) /\ (TokenAt(toks, from) # "dir" => Len(parts) <= MaxOperands)
    BY <2>1, ParserAssumption DEF Typed, Shaped
  <2>8. TokenAt(toks, from) \in Idents \cup {"dir"}
    BY <2>6 DEF First
  <2>9. LaxGoodLine(from) /\ LaxLineOf(from).parts = parts
    BY ONLY <2>1, <2>2, <2>3, <2>5, <2>7, <2>8, LineIsRead
  <2> QED BY <1>1, <2>6, <2>9 DEF LineJudged, AtEnd
<1>5. LineJudged
  BY <1>1, <1>3, <1>4
<1>6. LineJudged'
  BY <1>1, <1>5, ReaderSame DEF LineJudged, AtEnd, First, Cur, Tok
<1>7. /\ at' # "colon" /\ at' \notin {"args", "operands"} /\ at' # "end" /\ at' \notin {"failed", "skip"}
      /\ at' \notin PartPlaces /\ at' \notin {"args", "arg"} /\ at' \notin {"operands", "operand"} /\ at' \notin {"arg", "operand"}
  BY <1>1 DEF PartPlaces, MemPlaces, TermPlaces, Numeral
<1>8. PlaceOK'
  BY <1>6, <1>7, Zenon DEF PlaceOK
<1> QED BY <1>2, <1>8

\* A token behind the last part.
LEMMA TrailingTokenFollows ==
  ASSUME Typed, Started, PlaceOK, TrailingToken PROVE (Started /\ PlaceOK)'
<1>1. at = "end" /\ ~ AtEnd /\ toks' = toks /\ from' = from /\ cur' = cur /\ at' = "failed"
  BY DEF TrailingToken, Standing, Error, Complain
<1>2. ~ Reader!IsLabel(from) /\ ~ LaxGoodLine(from)
  BY <1>1, Zenon DEF PlaceOK
<1> QED BY <1>1, <1>2, LineFails

\* A statement begins.
LEMMA BeginFollows ==
  ASSUME Typed, Begin PROVE (Started /\ PlaceOK)'
<1>1. /\ Cur \in Idents \cup {"dir"} /\ from' = cur /\ parts' = <<>> /\ Consume /\ toks' = toks
      /\ at' = CASE IsLabel -> "colon" [] Cur = "dir" -> "args" [] OTHER -> "operands"
  BY DEF Begin
<1>2. Cur # "eof" /\ Cur \notin LineEnd
  BY <1>1 DEF Idents, Registers, LineEnd
<1>3. cur' = cur + 1
  BY <1>1, <1>2 DEF Consume
<1>4. toks \in Seq(Tokens) /\ cur \in 1 .. Len(toks) /\ cur \in Nat /\ Cur = TokenAt(toks, cur) /\ Next1 = TokenAt(toks, cur + 1)
  <2>1. toks \in Seq(Tokens) /\ cur \in 1 .. Len(toks) + 1 /\ Len(toks) \in Nat /\ ~ (cur > Len(toks))
    BY <1>2, ShapeIs DEF Typed, Shaped
  <2> QED BY <2>1 DEF Cur, Next1, Tok
<1>5. Started'
  <2>1. \A k \in cur .. (cur + 1) - 1 : k = cur
    BY <1>4
  <2>2. \A k \in cur .. (cur + 1) - 1 : TokenAt(toks, k) \notin LineEnd
    BY <1>2, <1>4, <2>1
  <2>3. cur <= cur + 1
    BY <1>4
  <2> QED BY <1>1, <1>2, <1>3, <1>4, <2>2, <2>3 DEF Started
<1>6. First' = Cur
  BY <1>1, <1>4 DEF First
<1>7. (Reader!IsLabel(from))' <=> IsLabel
  <2>1. (Reader!IsLabel(from))' <=> Reader!IsLabel(cur)
    BY <1>1 DEF Reader!IsLabel, Reader!Tok
  <2>2. Reader!IsLabel(cur) <=> TokenAt(toks, cur) \in Idents /\ TokenAt(toks, cur + 1) = ":"
    BY GoodLineIs
  <2> QED BY <1>4, <2>1, <2>2 DEF IsLabel
<1>8. /\ at' \in {"colon", "args", "operands"} /\ (at' = "colon" <=> IsLabel) /\ (at' = "args" => Cur = "dir")
      /\ (at' = "operands" => Cur # "dir")
  <2>1. IsLabel => Cur # "dir"
    BY KindsApart DEF IsLabel
  <2> QED BY <1>1, <2>1
<1>9. ~ IsLabel => ReadSoFar'
  <2>1. cur + 1 > cur
    BY <1>4
  <2>2. Len(parts') = 0 /\ MaxOperands \in Nat
    BY <1>1, ParserAssumption
  <2> QED BY <1>1, <1>3, <1>6, <1>7, <2>1, <2>2 DEF ReadSoFar
<1>10. cur' = from' + 1
  BY <1>1, <1>3
<1>11. /\ at' \notin {"arg", "operand"} /\ at' # "end" /\ at' # "done" /\ at' \notin {"failed", "skip"} /\ at' \notin PartPlaces
  BY <1>8 DEF PartPlaces, MemPlaces, TermPlaces, Numeral
<1>12. /\ at' = "colon" => (Reader!IsLabel(from))' /\ cur' = from' + 1 /\ parts' = <<>>
       /\ at' \in {"args", "arg"} => First' = "dir"
       /\ at' \in {"operands", "operand"} => First' # "dir"
       /\ at' \in {"args", "operands"} => ReadSoFar' /\ cur' = from' + 1 /\ parts' = <<>>
  BY <1>1, <1>6, <1>7, <1>8, <1>9, <1>10
<1>13. PlaceOK'
  BY <1>11, <1>12, Zenon DEF PlaceOK
<1> QED BY <1>5, <1>13

\* A line that starts with no name.
LEMMA BadStartFollows ==
  ASSUME Typed, BadStart PROVE (Started /\ PlaceOK)'
<1>1. /\ Cur \notin Idents \cup {"dir"} /\ ~ AtEnd /\ from' = cur /\ cur' = cur /\ toks' = toks /\ at' = "failed"
  BY DEF BadStart, Beginning
<1>2. toks \in Seq(Tokens) /\ cur \in 1 .. Len(toks) /\ cur \in Nat /\ Cur = TokenAt(toks, cur) /\ Cur \notin LineEnd
  <2>1. toks \in Seq(Tokens) /\ cur \in 1 .. Len(toks) + 1 /\ Len(toks) \in Nat /\ Cur # "eof"
    BY <1>1, ShapeIs DEF Typed, Shaped, AtEnd, LineEnd
  <2>2. ~ (cur > Len(toks))
    BY <2>1, ShapeIs DEF Typed
  <2> QED BY <1>1, <2>1, <2>2 DEF Cur, Tok, AtEnd
<1>3. Started'
  <2>1. \A k \in cur .. cur - 1 : FALSE
    BY <1>2
  <2> QED BY <1>1, <1>2, <2>1 DEF Started
<1>4. ~ (Reader!IsLabel(from))' /\ ~ (LaxGoodLine(from))'
  <2>1. ~ Reader!IsLabel(cur) /\ ~ LaxGoodLine(cur)
    BY <1>1, <1>2, GoodLineIs
  <2>2. /\ (Reader!IsLabel(from))' <=> Reader!IsLabel(cur)
        /\ (LaxGoodLine(from))' <=> LaxGoodLine(cur)
    BY <1>1 DEF Reader!IsLabel, Reader!Tok, LaxGoodLine, Reader!Parts, Reader!EndOf, Reader!Text
  <2> QED BY <2>1, <2>2
<1>5. /\ at' # "colon" /\ at' \notin {"args", "operands"} /\ at' # "end" /\ at' # "done"
      /\ at' \notin PartPlaces /\ at' \notin {"args", "arg"} /\ at' \notin {"operands", "operand"} /\ at' \notin {"arg", "operand"}
  BY <1>1 DEF PartPlaces, MemPlaces, TermPlaces, Numeral
<1>6. PlaceOK'
  BY <1>4, <1>5, Zenon DEF PlaceOK
<1> QED BY <1>3, <1>6

\* The colon of a label.
LEMMA ColonFollows ==
  ASSUME Typed, Started, PlaceOK, Colon PROVE (Started /\ PlaceOK)'
<1>1. at = "colon" /\ at' = "done" /\ toks' = toks /\ from' = from /\ parts' = parts /\ Consume
  BY DEF Colon, Standing, Advance, Keep
<1>2. Reader!IsLabel(from) /\ cur = from + 1 /\ parts = <<>>
  BY <1>1, Zenon DEF PlaceOK
<1>3. Cur = ":"
  <2>1. TokenAt(toks, from + 1) = ":"
    BY <1>2, GoodLineIs
  <2> QED BY <1>2, <2>1 DEF Cur, Tok
<1>4. cur' = cur + 1 /\ Cur \notin LineEnd
  BY <1>1, <1>3 DEF Consume, LineEnd
<1>5. Started'
  BY <1>1, <1>4, StartedStep
<1>6. (Reader!IsLabel(from))' /\ cur' = from' + 2 /\ parts' = <<>>
  <2>1. from \in Nat
    BY ShapeIs DEF Typed
  <2> QED BY <1>1, <1>2, <1>4, <2>1, ReaderSame
<1>7. /\ at' # "colon" /\ at' \notin {"args", "operands"} /\ at' # "end" /\ at' \notin {"failed", "skip"}
      /\ at' \notin PartPlaces /\ at' \notin {"args", "arg"} /\ at' \notin {"operands", "operand"} /\ at' \notin {"arg", "operand"}
  BY <1>1 DEF PartPlaces, MemPlaces, TermPlaces, Numeral
<1>8. PlaceOK'
  BY <1>6, <1>7, Zenon DEF PlaceOK
<1> QED BY <1>5, <1>8

\* The rest of a line that cannot be read.
LEMMA RecoveryFollows ==
  ASSUME Typed, Started, PlaceOK, GiveUp \/ SkipToken PROVE (Started /\ PlaceOK)'
<1>1. at \in {"failed", "skip"} /\ at' = "skip" /\ toks' = toks /\ from' = from
  BY DEF GiveUp, SkipToken, Standing, Goto, Advance
<1>2. ~ Reader!IsLabel(from) /\ ~ LaxGoodLine(from)
  BY <1>1, Zenon DEF PlaceOK
<1>3. CASE GiveUp
  <2>1. cur' = cur
    BY <1>3 DEF GiveUp, Goto
  <2> QED BY <1>1, <1>2, <2>1, LineFails
<1>4. CASE SkipToken
  <2>1. Cur \notin LineEnd /\ Consume
    BY <1>4 DEF SkipToken, Skipped, AtEnd, Advance
  <2>2. cur' = cur + 1
    BY <2>1 DEF Consume, LineEnd
  <2>3. Started'
    BY <1>1, <2>1, <2>2, StartedStep
  <2>4. ~ (Reader!IsLabel(from))' /\ ~ (LaxGoodLine(from))'
    BY <1>1, <1>2, ReaderSame
  <2>5. /\ at' # "colon" /\ at' \notin {"args", "operands"} /\ at' # "end" /\ at' # "done"
        /\ at' \notin PartPlaces /\ at' \notin {"args", "arg"} /\ at' \notin {"operands", "operand"} /\ at' \notin {"arg", "operand"}
    BY <1>1 DEF PartPlaces, MemPlaces, TermPlaces, Numeral
  <2>6. PlaceOK'
    BY <2>4, <2>5, Zenon DEF PlaceOK
  <2> QED BY <2>3, <2>6
<1> QED BY <1>3, <1>4

\* A failure is never forgotten, and what runs has not returned.
LEMMA FatalStays ==
  ASSUME Typed, Next PROVE (fatal => fatal') /\ (result' = "running" => result = "running")
<1>1. fatal \in BOOLEAN
  BY DEF Typed, Shaped
<1>2. \A who, i : Emit(who, i) => (fatal => fatal')
  BY DEF Emit
<1>3. Consume => (fatal => fatal')
  BY <1>2 DEF Consume, Load
<1>4. \A to : (Advance(to) \/ Goto(to) \/ Complain(to)) => (fatal => fatal') /\ result' = result
  BY <1>2, <1>3 DEF Advance, Goto, Complain
<1>5. \A then : SignedInt(then) => (fatal => fatal') /\ result' = result
  BY <1>4, Zenon DEF SignedInt
<1>6. CASE Statements
  <2>1. CASE Begin
    BY <1>3, <2>1, Zenon DEF Begin
  <2>2. CASE BadStart
    BY <1>2, <2>2, Zenon DEF BadStart
  <2>3. CASE Finish
    <3>1. fatal => fatal'
      BY <1>3, <2>3, Zenon DEF Finish
    <3>2. result = "running"
      BY <2>3 DEF Finish, Standing
    <3> QED BY <3>1, <3>2
  <2> QED BY <1>4, <1>6, <2>1, <2>2, <2>3, Zenon DEF Statements, Blank, Colon, EndOfLine, TrailingToken, Error
<1>7. CASE Recovery
  BY <1>4, <1>7, Zenon DEF Recovery, GiveUp, SkipToken, Resume
<1>8. CASE Numbers
  BY <1>4, <1>8, Zenon DEF Numbers, Overflow, TakeInt, NoInt, Error
<1>9. CASE PartsNext
  BY <1>4, <1>5, <1>9, Zenon DEF PartsNext, TooMany, PlainArg, IntPart, BadArg, Register, SymbolOperand, Addend,
     SizePrefix, Ptr, OpenBracket, NoBracket, BadOperand, Comma, LastPart, NoRoom, Error
<1>10. CASE Memory
  BY <1>4, <1>5, <1>10, Zenon DEF Memory, MemSign, TermRegister, Star, Scale, PlainRegister, TermSymbol, TermScale,
     StarReg, IndexReg, SetIndex, TermDisp, BadTerm, CloseBracket, CloseEmpty, Empty, Unclosed, Error
<1>11. CASE Return
  <2>1. (fatal' <=> fatal) /\ result = "running"
    BY <1>11 DEF Return, ReturnFatal, ReturnOk, Standing
  <2> QED BY <2>1
<1>12. CASE Returned
  BY <1>12 DEF Returned, vars
<1> QED BY <1>6, <1>7, <1>8, <1>9, <1>10, <1>11, <1>12 DEF Next, Parse

\* Between two lines a statement begins, or the parser returns.
LEMMA NotBetween ==
  ASSUME at = "line"
  PROVE  /\ ~ (Colon \/ EndOfLine \/ TrailingToken \/ Finish) /\ ~ Recovery /\ ~ Numbers /\ ~ PartsNext /\ ~ Memory
<1>1. \A S : Standing(S) => "line" \in S
  BY DEF Standing
<1>2. ~ Arg /\ ~ Operand /\ ~ Taken /\ ~ Term
  BY <1>1 DEF Arg, Operand, Taken, Term
<1>3. ~ (Colon \/ EndOfLine \/ TrailingToken \/ Finish)
  BY <1>1 DEF Colon, EndOfLine, TrailingToken, Finish
<1>4. ~ Recovery
  BY <1>1 DEF Recovery, GiveUp, SkipToken, Resume
<1>5. ~ Numbers
  BY <1>1 DEF Numbers, Overflow, TakeInt, NoInt
<1>6. ~ PartsNext
  <2>1. ~ (TooMany \/ Addend \/ Ptr \/ NoBracket) /\ ~ Standing({"sized", "bracket"})
    BY <1>1 DEF TooMany, Addend, Ptr, NoBracket
  <2> QED BY <1>2, <2>1 DEF PartsNext, PlainArg, IntPart, BadArg, Register, SymbolOperand, SizePrefix,
             OpenBracket, BadOperand, Comma, LastPart, NoRoom
<1>7. ~ Memory
  <2>1. ~ (MemSign \/ Star \/ Scale \/ PlainRegister \/ StarReg \/ IndexReg \/ SetIndex \/ CloseBracket)
        /\ ~ (CloseEmpty \/ Empty \/ Unclosed)
    BY <1>1 DEF MemSign, Star, Scale, PlainRegister, StarReg, IndexReg, SetIndex, CloseBracket, CloseEmpty, Empty, Unclosed
  <2>2. ~ (TermRegister \/ TermSymbol \/ TermScale \/ TermDisp \/ BadTerm)
    BY <1>1, <1>2 DEF TermRegister, TermSymbol, TermScale, TermDisp, BadTerm
  <2> QED BY <2>1, <2>2 DEF Memory
<1> QED BY <1>3, <1>4, <1>5, <1>6, <1>7

\* The places where the steps start and end.
LEMMA StepPlaces ==
  /\ Blank \/ Finish \/ Resume => at' = "line" \/ result' = "oom"
  /\ Return => result' # "running"
  /\ NoRoom => fatal'
  /\ Next /\ at = "line" => Blank \/ Begin \/ BadStart \/ Return \/ Returned
<1>1. Blank \/ Finish \/ Resume => at' = "line" \/ result' = "oom"
  BY DEF Blank, Finish, Resume, Advance, Goto
<1>2. (Return => result' # "running") /\ (NoRoom => fatal')
  BY DEF Return, ReturnFatal, ReturnOk, NoRoom
<1>3. at = "line" => /\ ~ (Colon \/ EndOfLine \/ TrailingToken \/ Finish)
                     /\ ~ Recovery /\ ~ Numbers /\ ~ PartsNext /\ ~ Memory
  BY NotBetween
<1> QED BY <1>1, <1>2, <1>3 DEF Next, Parse, Statements

\* What the parser knows of the line it is in, it knows behind every step.
LEMMA FollowedNext ==
  ASSUME Typed, Typed', Followed, [Next]_vars
  PROVE  Followed'
<1> SUFFICES ASSUME ~ fatal', result' = "running", at' # "line" PROVE (Started /\ PlaceOK)'
  BY DEF Followed
<1>1. CASE UNCHANGED vars
  <2>1. /\ toks' = toks /\ cur' = cur /\ at' = at /\ from' = from /\ parts' = parts /\ op' = op /\ num' = num
        /\ fatal' = fatal /\ result' = result
    BY <1>1 DEF vars
  <2>2. Started /\ PlaceOK
    BY <2>1 DEF Followed
  <2>3. Started'
    BY <2>1, <2>2 DEF Started
  <2>4. /\ (Reader!IsLabel(from))' <=> Reader!IsLabel(from)
        /\ (LaxGoodLine(from))' <=> LaxGoodLine(from)
        /\ (LaxLineOf(from))' = LaxLineOf(from)
        /\ First' = First /\ AtEnd' = AtEnd
    BY <2>1, ReaderSame DEF AtEnd, Cur, Tok
  <2>5. (ReadSoFar' <=> ReadSoFar) /\ (LineJudged' <=> LineJudged)
    BY <2>1, <2>4 DEF ReadSoFar, LineJudged, First
  <2>6. (PartOpens(cur)' <=> PartOpens(cur)) /\ (InPart' <=> InPart)
    BY <2>1, <2>4, <2>5 DEF PartOpens, InPart, First
  <2>7. PlaceOK'
    BY <2>1, <2>2, <2>4, <2>5, <2>6 DEF PlaceOK
  <2> QED BY <2>3, <2>7
<1>2. CASE Next
  <2>1. ~ fatal /\ result = "running"
    BY <1>2, FatalStays
  <2>2. CASE Begin
    BY <2>2, BeginFollows
  <2>3. CASE BadStart
    BY <2>3, BadStartFollows
  <2>4. CASE at # "line"
    <3>1. Started /\ PlaceOK
      BY <2>1, <2>4 DEF Followed
    <3> HIDE DEF Followed
    <3>2. CASE Colon \/ EndOfLine \/ TrailingToken
      BY <3>1, <3>2, ColonFollows, EndOfLineFollows, TrailingTokenFollows
    <3>3. CASE GiveUp \/ SkipToken
      BY <3>1, <3>3, RecoveryFollows
    <3>4. CASE Numbers
      BY <3>1, <3>4, OverflowFollows, TakeIntFollows, NoIntFollows DEF Numbers
    <3>5. CASE PartsNext
      BY <3>1, <3>5, TooManyFollows, PlainArgFollows, IntPartFollows, BadArgFollows, RegisterFollows,
         SymbolOperandFollows, AddendFollows, SizePrefixFollows, PtrFollows, OpenBracketFollows, NoBracketFollows,
         BadOperandFollows, CommaFollows, LastPartFollows, StepPlaces DEF PartsNext
    <3>6. CASE Memory
      BY <2>1, <3>1, <3>6, SignFollows, TermRegisterFollows, StarFollows, ScaleFollows, PlainRegisterFollows,
         TermSymbolFollows, TermScaleFollows, StarRegFollows, IndexRegFollows, SetIndexFollows, TermDispFollows,
         BadTermFollows, CloseBracketFollows, CloseEmptyFollows, EmptyFollows, UnclosedFollows DEF Memory
    <3>7. CASE Blank \/ Finish \/ Resume \/ Return
      BY <3>7, StepPlaces
    <3>8. CASE Returned
      BY <2>1, <3>8 DEF Returned
    <3> QED BY <1>2, <2>2, <2>3, <3>2, <3>3, <3>4, <3>5, <3>6, <3>7, <3>8 DEF Next, Parse, Statements, Recovery
  <2>5. CASE at = "line"
    <3>1. Blank \/ Begin \/ BadStart \/ Return \/ Returned
      BY <1>2, <2>5, StepPlaces
    <3>2. CASE Blank \/ Return
      BY <3>2, StepPlaces
    <3>3. CASE Returned
      BY <2>1, <3>3 DEF Returned
    <3> QED BY <2>2, <2>3, <3>1, <3>2, <3>3
  <2> QED BY <2>4, <2>5
<1> QED BY <1>1, <1>2

-----------------------------------------------------------------------------
(* 9. The parser reads lines. *)

\* What a step leaves alone.
LEMMA StepKeeps ==
  ASSUME Typed, Next
  PROVE  /\ toks' = toks /\ (stmts' = stmts \/ Finish) /\ (result = "running" \/ UNCHANGED vars)
         /\ \/ Blank \/ Begin \/ BadStart \/ Finish \/ Resume \/ Return \/ UNCHANGED vars
            \/ at # "line" /\ at' # "line" /\ from' = from /\ result' = result
<1> DEFINE Kept      == toks' = toks /\ stmts' = stmts /\ result = "running"
           Goes      == Kept /\ at' # "line" /\ from' = from /\ result' = result
<1>1. \A S : Standing(S) => result = "running"
  BY DEF Standing
<1>2. \A to : (Advance(to) \/ Goto(to) \/ Complain(to)) =>
        toks' = toks /\ stmts' = stmts /\ from' = from /\ result' = result /\ at' = to
  BY DEF Advance, Goto, Complain
<1>3. \A then : SignedInt(then) => toks' = toks /\ stmts' = stmts /\ from' = from /\ result' = result /\ at' = "int"
  BY <1>2 DEF SignedInt
<1>4. (Arg \/ Operand \/ Taken \/ Term) => result = "running"
  BY <1>1 DEF Arg, Operand, Taken, Term
<1>0. /\ "taken" # "line" /\ "symbol" # "line" /\ "sized" # "line" /\ "failed" # "line" /\ "int" # "line"
      /\ "bracket" # "line" /\ "mem" # "line" /\ "end" # "line"
  OBVIOUS
<1>5. CASE Statements
  <2>1. CASE Blank
    BY <1>1, <1>2, <2>1 DEF Blank
  <2>2. CASE Begin \/ BadStart \/ Finish
    BY <1>1, <2>2 DEF Begin, BadStart, Beginning, Finish
  <2>3. CASE Colon \/ EndOfLine \/ TrailingToken
    <3>1. Goes
      BY <1>1, <1>2, <2>3 DEF Colon, EndOfLine, TrailingToken, Error
    <3>2. at # "line"
      BY <2>3, NotBetween
    <3> QED BY <3>1, <3>2
  <2> QED BY <1>5, <2>1, <2>2, <2>3 DEF Statements
<1>6. CASE Recovery
  <2>1. CASE Resume
    BY <1>1, <1>2, <2>1 DEF Resume
  <2>2. CASE GiveUp \/ SkipToken
    <3>1. Goes
      BY <1>1, <1>2, <2>2 DEF GiveUp, SkipToken
    <3> QED BY <1>6, <3>1, NotBetween
  <2> QED BY <1>6, <2>1, <2>2 DEF Recovery
<1>7. CASE Numbers
  <2>1. CASE Overflow \/ NoInt
    <3>1. Goes
      BY <1>1, <1>2, <2>1 DEF Overflow, NoInt, Error
    <3> QED BY <1>7, <3>1, NotBetween
  <2>2. CASE TakeInt
    <3>1. Kept /\ from' = from /\ result' = result /\ at' = num.then
      BY <1>1, <1>2, <2>2 DEF TakeInt
    <3>2. num.then \in {"taken", "index"}
      BY <2>2 DEF TakeInt, Standing, Typed, Fitted, Numeral
    <3> QED BY <1>7, <3>1, <3>2, NotBetween
  <2> QED BY <1>7, <2>1, <2>2 DEF Numbers
<1>8. CASE PartsNext
  <2>1. ASSUME PlainArg \/ Register \/ SymbolOperand \/ SizePrefix PROVE Goes
    BY <1>0, <1>2, <1>4, <2>1, Zenon DEF PlainArg, Register, SymbolOperand, SizePrefix
  <2>2. ASSUME TooMany \/ BadArg \/ BadOperand \/ NoBracket PROVE Goes
    BY <1>0, <1>1, <1>2, <1>4, <2>2, Zenon DEF TooMany, BadArg, BadOperand, NoBracket, Error
  <2>3. ASSUME IntPart \/ Addend PROVE Goes
    BY <1>0, <1>1, <1>3, <1>4, <2>3, Zenon DEF IntPart, Addend
  <2>4. ASSUME Ptr \/ OpenBracket PROVE Goes
    BY <1>0, <1>1, <1>2, <1>4, <2>4, Zenon DEF Ptr, OpenBracket
  <2>5. ASSUME LastPart \/ NoRoom PROVE Goes
    <3>1. LastPart => Goes
      BY <1>0, <1>2, <1>4, Zenon DEF LastPart
    <3>2. NoRoom => Goes
      BY <1>4 DEF NoRoom
    <3> QED BY <2>5, <3>1, <3>2
  <2>6. ASSUME Comma PROVE Goes
    <3> DEFINE to == IF Kind = "directive" THEN "arg" ELSE "operand"
    <3>1. Taken /\ Advance(to)
      BY <2>6, Zenon DEF Comma
    <3>2. to # "line"
      OBVIOUS
    <3> HIDE DEF to
    <3> QED BY ONLY <1>2, <1>4, <3>1, <3>2, Zenon
  <2> HIDE DEF Goes
  <2>7. Goes
    BY <1>8, <2>1, <2>2, <2>3, <2>4, <2>5, <2>6, Zenon DEF PartsNext
  <2>8. at # "line"
    BY <1>8, NotBetween
  <2> QED BY <2>7, <2>8, Zenon DEF Goes
<1>9. CASE Memory
  <2>1. CASE MemSign \/ TermRegister \/ Star \/ PlainRegister \/ TermSymbol \/ TermScale \/ StarReg \/ IndexReg
    BY <1>1, <1>2, <1>4, <1>9, <2>1, NotBetween DEF MemSign, TermRegister, Star, PlainRegister, TermSymbol, TermScale,
       StarReg, IndexReg
  <2>2. CASE Scale
    BY <1>1, <1>3, <1>9, <2>2, NotBetween DEF Scale
  <2>3. CASE SetIndex \/ TermDisp \/ BadTerm \/ CloseBracket \/ CloseEmpty \/ Empty \/ Unclosed
    BY <1>1, <1>2, <1>4, <1>9, <2>3, NotBetween DEF SetIndex, TermDisp, BadTerm, CloseBracket, CloseEmpty, Empty,
       Unclosed, Error
  <2> QED BY <1>9, <2>1, <2>2, <2>3 DEF Memory
<1>10. CASE Return
  BY <1>1, <1>10 DEF Return, ReturnFatal, ReturnOk
<1>11. CASE Returned
  <2>1. UNCHANGED vars
    BY <1>11 DEF Returned
  <2>2. toks' = toks /\ stmts' = stmts
    BY <2>1 DEF vars
  <2> QED BY <2>1, <2>2
<1> QED BY <1>5, <1>6, <1>7, <1>8, <1>9, <1>10, <1>11 DEF Next, Parse

\* What the reader of lines sees of the parser.
Done == IF fatal \/ result = "oom" THEN 0 ELSE IF at = "line" THEN cur ELSE from
Res  == IF fatal THEN "oom" ELSE result

Moves(to) == (Done' = to /\ Res' = Res) \/ (Done' = 0 /\ Res' = "oom")

ReadsOn == Res = "running" /\ TokenAt(toks, Done) # "eof" /\ toks' = toks

\* The steps of the reader in those words.
LEMMA ReaderSteps ==
  ASSUME Typed
  PROVE
  /\ ReadsOn /\ TokenAt(toks, Done) = "nl" /\ Moves(Done + 1) /\ stmts' = stmts => Reader!SynNext
  /\ ReadsOn /\ Reader!IsLabel(Done) /\ stmts' = Append(stmts, Reader!LabelOf(Done)) /\ Moves(Reader!After(Done + 2))
       => Reader!SynNext
  /\ ReadsOn /\ ~ Reader!IsLabel(Done) /\ LaxGoodLine(Done) /\ stmts' = Append(stmts, LaxLineOf(Done))
     /\ Moves(Reader!After(Reader!EndOf(Done))) => Reader!SynNext \/ Reader!TakeUnruled
  /\ ReadsOn /\ TokenAt(toks, Done) # "nl" /\ ~ Reader!IsLabel(Done) /\ ~ LaxGoodLine(Done) /\ stmts' = stmts
     /\ Moves(Reader!After(Reader!EndOf(Done))) => Reader!SynNext
  /\ Res = "running" /\ Done' = 0 /\ Res' = "oom" /\ toks' = toks /\ stmts' = stmts => Reader!SynNext
  /\ Res = "running" /\ TokenAt(toks, Done) = "eof" /\ Res' = "ok" /\ toks' = toks /\ Done' = Done /\ stmts' = stmts
       => Reader!SynNext
  /\ toks' = toks /\ Done' = Done /\ stmts' = stmts /\ Res' = Res => UNCHANGED Reader!synVars
<1>0. \A i : Reader!Tok(i) = TokenAt(toks, i)
  BY ReaderNames
<1>1. ReadsOn => Reader!Reading(Done)
  BY <1>0 DEF Reader!Reading, ReadsOn, Res
<1>2. \A to : Moves(to) => Reader!Move(to)
  BY DEF Reader!Move, Moves, Done, Res
<1>3. ASSUME ReadsOn, ~ Reader!IsLabel(Done), LaxGoodLine(Done), stmts' = Append(stmts, LaxLineOf(Done)),
             Moves(Reader!After(Reader!EndOf(Done)))
      PROVE  Reader!TakeLine \/ Reader!TakeUnruled
  <2>1. CASE Reader!GoodLine(Done)
    BY <1>1, <1>2, <1>3, <2>1, LineRuled DEF Reader!TakeLine, Done
  <2>2. CASE ~ Reader!GoodLine(Done)
    <3>1. Len(stmts') = Len(stmts) + 1 /\ stmts'[Len(stmts')] = LaxLineOf(Done)
      BY <1>3 DEF Typed, Shaped
    <3>2. Reader!Departs(Done) /\ stmts' = Append(stmts, Reader!Statement("instruction", Reader!Tok(Done),
            stmts'[Len(stmts')].parts, Done, Reader!After(Reader!EndOf(Done)) - 1))
      BY <1>3, <2>2, <3>1, LineRuled, Zenon
    <3> QED BY <1>1, <1>2, <1>3, <2>2, <3>1, <3>2 DEF Reader!TakeUnruled, Done
  <2> QED BY <2>1, <2>2
<1>4. ReadsOn /\ TokenAt(toks, Done) # "nl" /\ ~ Reader!IsLabel(Done) /\ ~ LaxGoodLine(Done) /\ stmts' = stmts
      /\ Moves(Reader!After(Reader!EndOf(Done))) => Reader!SkipLine
  BY <1>0, <1>1, <1>2, LineRuled DEF Reader!SkipLine, Done
<1> QED BY <1>0, <1>1, <1>2, <1>3, <1>4
        DEF Reader!SkipNewline, Reader!TakeLabel, Reader!OutOfMemory, Reader!EndOfTokens, Reader!SynNext,
            Reader!synVars, Done, Res

\* The line the parser is in ends at the current token, where that ends a line.
LEMMA LineEndsHere ==
  ASSUME Typed, Started, AtEnd
  PROVE  Reader!EndOf(from) = cur /\ LineStop(toks, from) = cur
<1>1. toks \in Seq(Tokens) /\ Len(toks) \in Nat /\ cur \in Nat /\ cur <= Len(toks) + 1
  BY ShapeIs DEF Typed, Shaped
<1>2. /\ from \in 1 .. Len(toks) /\ from <= cur /\ TokenAt(toks, cur) \in LineEnd
      /\ \A k \in from .. cur - 1 : TokenAt(toks, k) \notin LineEnd
  BY DEF Started, AtEnd, Cur, Tok
<1>3. from \in 1 .. Len(toks) + 1 /\ cur \in from .. Len(toks) + 1
  BY <1>1, <1>2
<1>4. LineStop(toks, from) = cur
  BY <1>1, <1>2, <1>3, LineStopIs
<1> QED BY <1>4, ReaderLines

\* The token behind the end of a line.
LEMMA BehindLine == ASSUME NEW e PROVE Reader!After(e) = IF TokenAt(toks, e) = "nl" THEN e + 1 ELSE e
BY ReaderNames, Zenon DEF Reader!After

\* The statement a line ends with is the one it means, up to where the next begins.
LEMMA FinishReads ==
  ASSUME Typed, Started, PlaceOK, Finish, result' # "oom"
  PROVE  /\ at' = "line" /\ result' = result
         /\ \/ /\ Reader!IsLabel(from) /\ stmts' = Append(stmts, Reader!LabelOf(from))
               /\ cur' = Reader!After(from + 2)
            \/ /\ ~ Reader!IsLabel(from) /\ LaxGoodLine(from)
               /\ stmts' = Append(stmts, LaxLineOf(from)) /\ cur' = Reader!After(Reader!EndOf(from))
<1>1. /\ at = "done" /\ at' = "line" /\ result' = result
      /\ stmts' = Append(stmts, Statement(Kind, Tok(from), parts, from, cur' - 1))
  BY DEF Finish, Standing
<1>2. cur' = Reader!After(cur)
  <2>1. Reader!After(cur) = IF Cur = "nl" THEN cur + 1 ELSE cur
    BY BehindLine DEF Cur, Tok
  <2>2. cur' = IF Cur = "nl" THEN cur + 1 ELSE cur
    BY DEF Finish, Consume
  <2> QED BY <2>1, <2>2
<1>3. Tok(from) = First /\ Tok(from + 1) = TokenAt(toks, from + 1)
  BY DEF First, Tok
<1>4. Reader!IsLabel(from) <=> First \in Idents /\ TokenAt(toks, from + 1) = ":"
  BY GoodLineIs DEF First
<1>5. "dir" \notin Idents
  BY DEF Idents, Registers
<1>6. CASE Reader!IsLabel(from) /\ cur = from + 2 /\ parts = <<>>
  <2>1. Kind = "label"
    BY <1>3, <1>4, <1>5, <1>6 DEF Kind
  <2>2. Reader!LabelOf(from) = Statement("label", First, <<>>, from, Reader!After(from + 2) - 1)
    BY ReaderNames, ReaderNodes DEF Reader!LabelOf, First
  <2> QED BY <1>1, <1>2, <1>3, <1>6, <2>1, <2>2
<1>7. CASE LineJudged
  <2> DEFINE kind == IF First = "dir" THEN "directive" ELSE "instruction"
             ps   == PartsOf(toks, from)
             nodes == [n \in DOMAIN ps |-> NodeOf(First, SubSeq(toks, ps[n].from, ps[n].to), ps[n].from, ps[n].to)]
  <2>1. ~ Reader!IsLabel(from) /\ LaxGoodLine(from) /\ AtEnd /\ First \in Idents \cup {"dir"}
        /\ LaxLineOf(from).parts = parts
    BY <1>7 DEF LineJudged
  <2>2. Kind = kind
    BY <1>3, <1>4, <2>1 DEF Kind
  <2>3. LineStop(toks, from) = cur /\ Reader!EndOf(from) = cur
    BY <2>1, LineEndsHere
  <2>4. LaxLineOf(from) = Statement(kind, First, nodes, from, Reader!After(LineStop(toks, from)) - 1)
    BY GoodLineIs DEF First
  <2> HIDE DEF kind, nodes
  <2>5. nodes = parts
    BY <2>1, <2>4 DEF Statement
  <2>6. LaxLineOf(from) = Statement(kind, First, parts, from, cur' - 1)
    BY <1>2, <2>3, <2>4, <2>5
  <2> QED BY <1>1, <1>2, <1>3, <2>1, <2>2, <2>3, <2>6
<1> QED BY <1>1, <1>6, <1>7 DEF PlaceOK

\* Every step of the parser is a step of the reader, or none the reader sees.
LEMMA ParserReads ==
  ASSUME Typed, Followed, [Next]_vars
  PROVE  [Reader!SynNext \/ Reader!TakeUnruled]_(Reader!synVars)
<1> DEFINE Stutters == toks' = toks /\ Done' = Done /\ stmts' = stmts /\ Res' = Res
           Reads    == Reader!SynNext \/ Reader!TakeUnruled \/ UNCHANGED Reader!synVars
<1>0. /\ fatal \in BOOLEAN /\ result \in {"running", "ok", "oom"}
      /\ "running" # "oom" /\ "running" # "ok" /\ "ok" # "oom"
  BY DEF Typed, Shaped
<1>1. Stutters => Reads
  BY ReaderSteps
<1>2. UNCHANGED vars => Stutters
  BY DEF vars, Done, Res
<1>3. CASE UNCHANGED vars
  BY <1>1, <1>2, <1>3
<1>4. CASE Next /\ (fatal \/ result # "running")
  <2>1. toks' = toks /\ (stmts' = stmts \/ Finish) /\ (result = "running" \/ UNCHANGED vars) /\ (fatal => fatal')
    BY <1>4, StepKeeps, FatalStays
  <2>2. CASE UNCHANGED vars
    BY <1>1, <1>2, <2>2
  <2>3. CASE fatal
    <3>1. stmts' = stmts
      BY <2>1, <2>3 DEF Finish
    <3>2. Done' = 0 /\ Done = 0 /\ Res' = "oom" /\ Res = "oom"
      BY <2>1, <2>3 DEF Done, Res
    <3> QED BY <1>1, <2>1, <3>1, <3>2
  <2> QED BY <1>4, <2>1, <2>2, <2>3
<1>5. CASE Next /\ ~ fatal /\ result = "running"
  <2>1. /\ toks' = toks /\ (stmts' = stmts \/ Finish)
        /\ \/ Blank \/ Begin \/ BadStart \/ Finish \/ Resume \/ Return \/ UNCHANGED vars
           \/ at # "line" /\ at' # "line" /\ from' = from /\ result' = result
    BY <1>5, StepKeeps
  <2>2. Res = "running" /\ Done = IF at = "line" THEN cur ELSE from
    BY <1>0, <1>5 DEF Done, Res
  <2>3. at # "line" => Started /\ PlaceOK
    BY <1>5 DEF Followed
  <2>4. fatal' \/ result' = "oom" => Done' = 0 /\ Res' = "oom"
    BY DEF Done, Res
  <2>5. ~ fatal' /\ result' = "running" => Done' = (IF at' = "line" THEN cur' ELSE from') /\ Res' = Res
    BY <1>0, <2>2 DEF Done, Res
  <2>6. ASSUME fatal' \/ result' = "oom", stmts' = stmts PROVE Reads
    BY <2>1, <2>2, <2>4, <2>6, ReaderSteps
  <2>7. CASE Finish
    <3>1. at = "done" /\ Done = from /\ "done" # "line"
      BY <2>2, <2>7 DEF Finish, Standing
    <3>2. Started /\ PlaceOK
      BY <2>3, <3>1
    <3>3. TokenAt(toks, Done) \notin LineEnd
      BY <3>1, <3>2 DEF Started
    <3>4. ReadsOn
      BY <2>1, <2>2, <3>3 DEF ReadsOn, LineEnd
    <3>5. CASE result' = "oom"
      <4>1. stmts' = stmts
        BY <1>5, <2>7, <3>5 DEF Finish
      <4> QED BY <2>6, <3>5, <4>1
    <3>6. CASE result' # "oom"
      <4>1. /\ at' = "line" /\ result' = result
            /\ \/ /\ Reader!IsLabel(from) /\ stmts' = Append(stmts, Reader!LabelOf(from))
                  /\ cur' = Reader!After(from + 2)
               \/ /\ ~ Reader!IsLabel(from) /\ LaxGoodLine(from)
                  /\ stmts' = Append(stmts, LaxLineOf(from)) /\ cur' = Reader!After(Reader!EndOf(from))
        BY <2>7, <3>2, <3>6, FinishReads
      <4>2. Moves(cur')
        <5>1. fatal' \in BOOLEAN
          BY <2>7, <1>5, TypedNext DEF Typed, Shaped
        <5> QED BY <1>5, <2>4, <2>5, <4>1, <5>1 DEF Moves
      <4>3. CASE Reader!IsLabel(from) /\ stmts' = Append(stmts, Reader!LabelOf(from)) /\ cur' = Reader!After(from + 2)
        BY <3>1, <3>4, <4>2, <4>3, ReaderSteps
      <4>4. CASE /\ ~ Reader!IsLabel(from) /\ LaxGoodLine(from)
                 /\ stmts' = Append(stmts, LaxLineOf(from)) /\ cur' = Reader!After(Reader!EndOf(from))
        BY <3>1, <3>4, <4>2, <4>4, ReaderSteps
      <4> QED BY <4>1, <4>3, <4>4
    <3> QED BY <3>5, <3>6
  <2>8. CASE ~ Finish /\ (fatal' \/ result' = "oom")
    BY <2>1, <2>6, <2>8
  <2>9. ASSUME stmts' = stmts, ~ fatal', result' # "oom" PROVE Reads
    <3>1. CASE Blank
      <4>1. at = "line" /\ at' = "line" /\ Cur = "nl" /\ cur' = cur + 1 /\ result' = result
        BY <3>1 DEF Blank, Standing, Advance, Consume
      <4>2. Done = cur /\ Moves(Done + 1)
        BY <1>5, <2>2, <2>5, <2>9, <4>1 DEF Moves
      <4>3. TokenAt(toks, Done) = "nl"
        BY <4>1, <4>2 DEF Cur, Tok
      <4>4. ReadsOn
        BY <2>1, <2>2, <4>3 DEF ReadsOn
      <4> QED BY <2>9, <4>2, <4>3, <4>4, ReaderSteps
    <3>2. CASE Begin \/ BadStart
      <4>1. at = "line" /\ at' # "line" /\ from' = cur /\ result' = result
        BY <3>2 DEF Begin, BadStart, Beginning, Standing
      <4> QED BY <1>1, <1>5, <2>1, <2>2, <2>5, <2>9, <4>1
    <3>3. CASE Resume
      <4>1. at = "skip" /\ AtEnd /\ at' = "line" /\ result' = result /\ "skip" # "line"
        BY <1>5, <3>3 DEF Resume, Standing, Skipped, Advance, Goto
      <4>2. cur' = Reader!After(cur)
        <5>1. Reader!After(cur) = IF Cur = "nl" THEN cur + 1 ELSE cur
          BY BehindLine DEF Cur, Tok
        <5>2. cur' = IF Cur = "nl" THEN cur + 1 ELSE cur
          BY <3>3 DEF Resume, Advance, Goto, Consume
        <5> QED BY <5>1, <5>2
      <4>3. Started /\ ~ Reader!IsLabel(from) /\ ~ LaxGoodLine(from)
        BY <2>3, <4>1 DEF PlaceOK
      <4>4. Done = from /\ Moves(Reader!After(Reader!EndOf(Done)))
        BY <1>5, <2>2, <2>5, <2>9, <4>1, <4>2, <4>3, LineEndsHere DEF Moves
      <4>5. TokenAt(toks, Done) \notin LineEnd
        BY <4>3, <4>4 DEF Started
      <4>6. ReadsOn /\ TokenAt(toks, Done) # "nl"
        BY <2>1, <2>2, <4>5 DEF ReadsOn, LineEnd
      <4> QED BY <2>9, <4>3, <4>4, <4>6, ReaderSteps
    <3>4. CASE Return
      <4>1. at = "line" /\ at' = at /\ cur' = cur /\ result' = "ok" /\ Cur = "eof"
        BY <1>5, <3>4 DEF Return, ReturnFatal, ReturnOk, Standing
      <4>2. Done = cur /\ Done' = cur /\ Res' = "ok"
        BY <2>2, <2>9, <4>1 DEF Done, Res
      <4>3. TokenAt(toks, Done) = "eof"
        BY <4>1, <4>2 DEF Cur, Tok
      <4> QED BY <2>1, <2>2, <2>9, <4>2, <4>3, ReaderSteps
    <3>5. CASE UNCHANGED vars
      BY <1>1, <1>2, <3>5
    <3>6. CASE at # "line" /\ at' # "line" /\ from' = from /\ result' = result
      BY <1>1, <1>5, <2>1, <2>2, <2>5, <2>9, <3>6
    <3>7. CASE Finish
      BY <2>7, <3>7
    <3> QED BY <2>1, <3>1, <3>2, <3>3, <3>4, <3>5, <3>6, <3>7
  <2> QED BY <2>1, <2>7, <2>8, <2>9
<1> QED BY <1>3, <1>4, <1>5

\* A parse begins with the first line, or memory ran out on its tokens.
LEMMA ParserBegins == ASSUME Init PROVE Reader!SynInit
<1>1. cur = 1 /\ at = "line" /\ stmts = <<>> /\ result = "running" /\ (fatal = FALSE \/ fatal = TRUE)
  BY DEF Init
<1> QED BY <1>1 DEF Reader!SynInit

\* What the parser knows of its line holds in every state.
LEMMA FollowedAlways == Spec => []Followed
<1>1. Init => Followed
  BY DEF Init, Followed
<1>2. Typed /\ Typed' /\ Followed /\ [Next]_vars => Followed'
  BY FollowedNext
<1> QED BY <1>1, <1>2, TypedAlways, PTL DEF Spec

\* Step by step the parser produces the statements the lines mean, each with its
\* parts, their values and their spans, and passes over a line it cannot read and
\* nothing else: the line after a mistake is read as if there had been none, and a
\* failure leaves what was parsed so far.  Of every source, however long, of which
\* what a line departing from the two rules not enforced is taken as is left open.
THEOREM ParserReadsLines == Spec => ImplementsSyntax
<1>1. Init => Reader!SynInit
  BY ParserBegins
<1>2. Typed /\ Followed /\ [Next]_vars => [Reader!SynNext \/ Reader!TakeUnruled]_(Reader!synVars)
  BY ParserReads
<1> QED BY <1>1, <1>2, TypedAlways, FollowedAlways, PTL DEF Spec, ImplementsSyntax

-----------------------------------------------------------------------------
(* 10. Errors. *)

\* The line that starts with token i, and the integers out of range in it.
LineOn(i) == i .. Reader!EndOf(i)
Bigs(i)   == {k \in LineOn(i) : Tok(k) = "big"}

\* What the diagnostics d say of a line, in the words of ErrorsPerLine.
Said(d, who, S) == {k \in DOMAIN d : d[k].by = who /\ d[k].tok \in S}
Clean(d, i)  == Said(d, "parser", LineOn(i) \ Bigs(i)) = {}
Faulty(d, i) ==
  /\ Cardinality(Said(d, "parser", LineOn(i) \ Bigs(i))) <= 1
  /\ Bigs(i) = {} => Cardinality(Said(d, "parser", LineOn(i) \ Bigs(i))) = 1
  /\ Said(d, "parser", LineOn(i)) # {}
Fair(d, i) == IF LaxBad(i) THEN Faulty(d, i) ELSE Clean(d, i)

\* Where the statement starts, or the next one would.
Here == IF at = "line" THEN cur ELSE from

\* No line ends between tokens i and p.
Reaches(i, p) == i <= p /\ \A k \in i .. p - 1 : TokenAt(toks, k) \notin LineEnd

GivenUp == {"failed", "skip"}

LineSoFar(d, i) ==
  CASE at = "line" -> (Cur = "eof" /\ Fair(d, i)) \/ (Body(i) = Body(cur) /\ Clean(d, i))
    [] at \in GivenUp -> Body(i) = Body(from) /\ Faulty(d, i)
    [] OTHER -> Body(i) = Body(from) /\ Clean(d, i)

LinesFair ==
  \A i \in LineStarts :
    /\ Reader!EndOf(i) < Here => Fair(diags, i)
    /\ Reaches(i, Here) => LineSoFar(diags, i)

LexFair ==
  \A i \in 1 .. Len(toks) :
    Cardinality(Said(diags, "lexer", {i})) = IF i <= cur + 1 /\ toks[i] \in LexErrors THEN 1 ELSE 0

ReportsOK ==
  /\ Said(diags, "parser", Nat \ (1 .. cur)) = {}
  /\ hadError <=> Said(diags, "parser", Nat) # {}
  /\ result = "ok" => at = "line" /\ Cur = "eof"

ErrorInv == /\ result = "ok" => ~ fatal
            /\ ~ fatal /\ result # "oom" => ReportsOK /\ LexFair /\ LinesFair

\* The body of a line, label by label.
LEMMA BodyIs ==
  ASSUME toks \in Seq(Tokens)
  PROVE  \A k \in 1 .. Len(toks) + 2 : Body(k) = IF Reader!IsLabel(k) THEN Body(k + 2) ELSE k
<1> DEFINE n == Len(toks) + 2
           I == 1 .. n
           Val(f, k) == IF Reader!IsLabel(k) THEN f[k + 2] ELSE k
           Fits(f) == f = [k \in I |-> Val(f, k)]
           w == CHOOSE f : Fits(f)
           rank == [k \in I |-> n - k]
           F == [k \in I |-> [f \in [I -> I] |-> Val(f, k)]]
<1>1. \A k : Body(k) = w[k]
  BY Zenon DEF Body
<1> HIDE DEF w
<1>2. n \in Nat /\ I # {} /\ \A k \in I : k \in Nat /\ k >= 1 /\ k <= n
  <2>1. Len(toks) \in Nat
    OBVIOUS
  <2>2. n \in Nat /\ n >= 1
    BY <2>1
  <2> HIDE DEF n
  <2>3. 1 \in I
    BY <2>2
  <2>4. \A k \in I : k \in Nat /\ k >= 1 /\ k <= n
    BY <2>2
  <2>5. I # {}
    BY <2>3
  <2> QED BY <2>2, <2>4, <2>5
<1>3. ASSUME NEW k \in I, Reader!IsLabel(k) PROVE k + 2 \in I
  <2>1. TokenAt(toks, k + 1) = ":"
    BY <1>3, ReaderNames, Zenon DEF Reader!IsLabel
  <2>2. k + 1 \in DOMAIN toks
    <3>1. ":" # "eof"
      OBVIOUS
    <3> QED BY <2>1, <3>1 DEF TokenAt
  <2>3. Len(toks) \in Nat /\ DOMAIN toks = 1 .. Len(toks)
    OBVIOUS
  <2> QED BY <1>2, <2>2, <2>3
<1>4. rank \in [I -> 0 .. n] /\ \A k \in I : rank[k] = n - k
  BY <1>2
<1> HIDE DEF I, n, rank
<1>5. \A k \in I, f \in [I -> I] : Val(f, k) \in I
  BY <1>3
<1>6. ASSUME NEW k \in I, NEW f \in [I -> I], NEW h \in [I -> I],
             \A j \in I : rank[j] < rank[k] => f[j] = h[j]
      PROVE  Val(f, k) = Val(h, k)
  <2>1. ASSUME Reader!IsLabel(k) PROVE f[k + 2] = h[k + 2]
    <3>1. k + 2 \in I
      BY <1>3, <2>1
    <3>2. rank[k + 2] < rank[k]
      BY <1>2, <1>4, <3>1
    <3> QED BY <1>6, <3>1, <3>2
  <2> QED BY <2>1
<1> HIDE DEF Val
<1>7. F \in [I -> [[I -> I] -> I]] /\ \A k \in I, f \in [I -> I] : F[k][f] = Val(f, k)
  BY <1>5
<1> HIDE DEF F
<1>8. PICK g : Solves(g, F, I, I)
  <2>1. ASSUME NEW k \in I, NEW f \in [I -> I], NEW h \in [I -> I],
               \A j \in I : rank[j] < rank[k] => f[j] = h[j]
        PROVE  F[k][f] = F[k][h]
    <3>1. Val(f, k) = Val(h, k)
      BY <1>6, <2>1
    <3> QED BY <1>7, <3>1
  <2>2. LooksBelow(F, I, I, rank)
    BY <1>7, <2>1 DEF LooksBelow
  <2> QED BY <1>2, <1>4, <2>2, RankedRecursion
<1>9. Fits(w)
  <2>1. Fits(g)
    BY <1>7, <1>8 DEF Solves
  <2> QED BY <2>1 DEF w
<1>10. \A k \in I : w[k] = Val(w, k)
  BY <1>9
<1> QED BY <1>1, <1>10 DEF Val, I, n

\* A token that starts no label starts the body.
LEMMA BodyHere ==
  ASSUME toks \in Seq(Tokens), NEW p \in 1 .. Len(toks) + 1
  PROVE  /\ ~ Reader!IsLabel(p) => Body(p) = p
         /\ TokenAt(toks, p) \in LineEnd => Body(p) = p
         /\ Reader!IsLabel(p) => Body(p) = Body(p + 2)
<1>1. Len(toks) \in Nat
  OBVIOUS
<1>2. p \in 1 .. Len(toks) + 2
  BY <1>1
<1>3. Body(p) = IF Reader!IsLabel(p) THEN Body(p + 2) ELSE p
  BY <1>2, BodyIs
<1>4. TokenAt(toks, p) \in LineEnd => ~ Reader!IsLabel(p)
  BY ReaderNames DEF Reader!IsLabel, LineEnd, Idents, Registers
<1> QED BY <1>3, <1>4

\* A diagnostic more.
LEMMA SaidMore ==
  ASSUME NEW d \in Seq(Marks), NEW w \in {"lexer", "parser"}, NEW t \in Nat,
         NEW who, NEW S
  PROVE  LET e == Append(d, [by |-> w, tok |-> t])
         IN /\ IsFiniteSet(Said(d, who, S)) /\ Len(d) + 1 \notin Said(d, who, S)
            /\ who = w /\ t \in S => Said(e, who, S) = Said(d, who, S) \cup {Len(d) + 1}
            /\ ~ (who = w /\ t \in S) => Said(e, who, S) = Said(d, who, S)
<1> DEFINE n == Len(d)
           m == [by |-> w, tok |-> t]
           e == Append(d, m)
<1>1. m \in Marks
  BY DEF Marks
<1>2. n \in Nat /\ DOMAIN d = 1 .. n
  OBVIOUS
<1>3. /\ DOMAIN e = 1 .. n + 1 /\ e[n + 1] = m /\ \A k \in 1 .. n : e[k] = d[k]
  BY <1>1, AppendProperties
<1>4. m.by = w /\ m.tok = t
  OBVIOUS
<1> HIDE DEF n, m, e
<1>5. DOMAIN e = DOMAIN d \cup {n + 1} /\ n + 1 \notin DOMAIN d
  BY <1>2, <1>3
<1>6. Said(d, who, S) \subseteq 1 .. n /\ n + 1 \notin Said(d, who, S)
  BY <1>2, <1>5 DEF Said
<1>7. IsFiniteSet(Said(d, who, S))
  <2>1. IsFiniteSet(1 .. n)
    BY <1>2, FS_Interval
  <2> QED BY <1>6, <2>1, FS_Subset
<1>8. Said(e, who, S) = Said(d, who, S) \cup {k \in {n + 1} : e[k].by = who /\ e[k].tok \in S}
  BY <1>2, <1>3, <1>5 DEF Said
<1>9. Said(e, who, S) = Said(d, who, S) \cup {k \in {n + 1} : w = who /\ t \in S}
  BY <1>3, <1>4, <1>8
<1> QED BY <1>6, <1>7, <1>9 DEF n, m, e

\* By whom it is.
LexMark(t)   == [by |-> "lexer", tok |-> t]
ParseMark(t) == [by |-> "parser", tok |-> t]

\* What is said of a line by the scanner and by the parser, with a report more of either.
LEMMA SaidBy ==
  ASSUME NEW d \in Seq(Marks), NEW t \in Nat, NEW S
  PROVE  /\ IsFiniteSet(Said(d, "lexer", S)) /\ IsFiniteSet(Said(d, "parser", S))
         /\ Len(d) + 1 \notin Said(d, "lexer", S) /\ Len(d) + 1 \notin Said(d, "parser", S)
         /\ Said(Append(d, LexMark(t)), "parser", S) = Said(d, "parser", S)
         /\ Said(Append(d, ParseMark(t)), "lexer", S) = Said(d, "lexer", S)
         /\ t \in S => /\ Said(Append(d, LexMark(t)), "lexer", S) = Said(d, "lexer", S) \cup {Len(d) + 1}
                       /\ Said(Append(d, ParseMark(t)), "parser", S) = Said(d, "parser", S) \cup {Len(d) + 1}
         /\ t \notin S => /\ Said(Append(d, LexMark(t)), "lexer", S) = Said(d, "lexer", S)
                          /\ Said(Append(d, ParseMark(t)), "parser", S) = Said(d, "parser", S)
<1> DEFINE lexer  == "lexer"
           parser == "parser"
           L == [by |-> lexer, tok |-> t]
           P == [by |-> parser, tok |-> t]
<1>1. lexer \in {"lexer", "parser"} /\ parser \in {"lexer", "parser"} /\ parser # lexer
  OBVIOUS
<1>2. /\ IsFiniteSet(Said(d, lexer, S)) /\ IsFiniteSet(Said(d, parser, S))
      /\ Len(d) + 1 \notin Said(d, lexer, S) /\ Len(d) + 1 \notin Said(d, parser, S)
      /\ Said(Append(d, L), parser, S) = Said(d, parser, S) /\ Said(Append(d, P), lexer, S) = Said(d, lexer, S)
      /\ t \in S => /\ Said(Append(d, L), lexer, S) = Said(d, lexer, S) \cup {Len(d) + 1}
                    /\ Said(Append(d, P), parser, S) = Said(d, parser, S) \cup {Len(d) + 1}
      /\ t \notin S => /\ Said(Append(d, L), lexer, S) = Said(d, lexer, S)
                       /\ Said(Append(d, P), parser, S) = Said(d, parser, S)
  <2> HIDE DEF lexer, parser
  <2> QED BY <1>1, SaidMore
<1> QED BY <1>2 DEF LexMark, ParseMark

\* The parser reports nothing in the step.
Quiet == (\A S : Said(diags', "parser", S) = Said(diags, "parser", S)) /\ hadError' = hadError

\* It reports the current token.
Says == diags' = Append(diags, ParseMark(cur)) /\ hadError' = TRUE /\ cur' = cur

\* The scanner's reports are none of the parser's.
LEMMA LoadQuiet ==
  ASSUME Typed, Consume, ~ fatal', hadError' = hadError
  PROVE  Quiet
<1>1. diags \in Seq(Marks) /\ cur \in Nat
  BY ShapeIs DEF Typed, Shaped
<1>2. CASE diags' = diags
  BY <1>2 DEF Quiet
<1>3. CASE diags' = Append(diags, LexMark(cur + 2))
  <2>1. cur + 2 \in Nat
    BY <1>1
  <2>2. \A S : Said(Append(diags, LexMark(cur + 2)), "parser", S) = Said(diags, "parser", S)
    BY ONLY <1>1, <2>1, SaidBy
  <2> QED BY <1>3, <2>2 DEF Quiet
<1> QED BY <1>2, <1>3 DEF Consume, Load, Emit, LexMark

\* Within its diagnostics a line does not change with the step.
LEMMA LinesStay ==
  ASSUME toks' = toks
  PROVE  /\ LineStarts' = LineStarts
         /\ \A i : /\ (Reader!EndOf(i))' = Reader!EndOf(i) /\ Body(i)' = Body(i)
                   /\ (Reader!IsLabel(i))' <=> Reader!IsLabel(i)
                   /\ LineOn(i)' = LineOn(i) /\ Bigs(i)' = Bigs(i) /\ (LaxBad(i)' <=> LaxBad(i))
<1>1. LineStarts' = LineStarts
  BY DEF LineStarts
<1>2. \A i : (Reader!EndOf(i))' = Reader!EndOf(i)
  BY DEF Reader!EndOf, Reader!Tok
<1>3. \A i : (Reader!IsLabel(i))' <=> Reader!IsLabel(i)
  BY DEF Reader!IsLabel, Reader!Tok
<1>4. \A i : Body(i)' = Body(i)
  BY DEF Body, Reader!IsLabel, Reader!Tok
<1>5. \A i : LineOn(i)' = LineOn(i)
  BY <1>2 DEF LineOn
<1>6. \A i : Bigs(i)' = Bigs(i)
  BY <1>5 DEF Bigs, Tok
<1>7. \A i : (LaxGoodLine(i))' <=> LaxGoodLine(i)
  BY DEF LaxGoodLine, Reader!Parts, Reader!EndOf, Reader!Tok, Reader!Text
<1>8. \A i : LaxBad(i)' <=> LaxBad(i)
  <2> TAKE i
  <2> DEFINE b == Body(i)
  <2>1. b' = b
    BY <1>4
  <2>2. (LaxGoodLine(b))' <=> LaxGoodLine(b)
    <3> HIDE DEF b
    <3> QED BY <2>1 DEF LaxGoodLine, Reader!Parts, Reader!EndOf, Reader!Tok, Reader!Text
  <2>3. Tok(b)' = Tok(b)
    BY <2>1 DEF Tok
  <2> QED BY <2>2, <2>3 DEF LaxBad
<1> QED BY <1>1, <1>2, <1>3, <1>4, <1>5, <1>6, <1>8

\* What is said of a line with the diagnostics of the next state.
LEMMA SaidNext ==
  ASSUME toks' = toks, NEW i
  PROVE  /\ Clean(diags, i)' <=> Clean(diags', i)
         /\ Faulty(diags, i)' <=> Faulty(diags', i)
         /\ Fair(diags, i)' <=> Fair(diags', i)
<1>1. LineOn(i)' = LineOn(i) /\ Bigs(i)' = Bigs(i) /\ (LaxBad(i)' <=> LaxBad(i))
  BY LinesStay
<1>2. Clean(diags, i)' <=> Clean(diags', i)
  BY <1>1 DEF Clean, Said
<1>3. Faulty(diags, i)' <=> Faulty(diags', i)
  BY <1>1 DEF Faulty, Said
<1> QED BY <1>1, <1>2, <1>3 DEF Fair

\* Where a line lies to a token.
LEMMA LinePlace ==
  ASSUME toks \in Seq(Tokens), NEW i \in LineStarts, NEW p \in 1 .. Len(toks) + 1
  PROVE  /\ i \in 1 .. Len(toks) + 1 /\ Reader!EndOf(i) \in i .. Len(toks) + 1
         /\ Reader!EndOf(i) < p \/ Reaches(i, p) \/ p < i
         /\ Reaches(i, p) => p \in LineOn(i)
         /\ i # 1 => TokenAt(toks, i - 1) = "nl"
<1> DEFINE n == Len(toks)
           e == Reader!EndOf(i)
<1>1. n \in Nat /\ DOMAIN toks = 1 .. n
  OBVIOUS
<1>2. i = 1 \/ \E k \in DOMAIN toks : i = k + 1 /\ toks[k] = "nl"
  BY DEF LineStarts
<1> HIDE DEF n
<1>3. i \in 1 .. n + 1
  BY <1>1, <1>2
<1>4. i # 1 => TokenAt(toks, i - 1) = "nl"
  <2>1. \A k \in DOMAIN toks : (k + 1) - 1 = k
    BY <1>1
  <2> QED BY <1>2, <2>1 DEF TokenAt
<1>5. /\ e \in i .. n + 1 /\ TokenAt(toks, e) \in LineEnd
      /\ \A k \in i .. e - 1 : TokenAt(toks, k) \notin LineEnd
  <2>1. e = LineStop(toks, i)
    BY ReaderLines
  <2>2. i \in 1 .. Len(toks) + 1
    BY <1>3 DEF n
  <2> HIDE DEF e
  <2> QED BY <2>1, <2>2, LineStopIs DEF n
<1>6. p \in 1 .. n + 1
  BY DEF n
<1> HIDE DEF e
<1>7. e < p \/ Reaches(i, p) \/ p < i
  <2>1. ASSUME ~ (e < p), ~ (p < i), NEW k \in i .. p - 1 PROVE TokenAt(toks, k) \notin LineEnd
    <3>1. k \in i .. e - 1
      BY <1>1, <1>3, <1>5, <1>6, <2>1
    <3> QED BY <1>5, <3>1
  <2>2. ~ (p < i) => i <= p
    BY <1>1, <1>3, <1>6
  <2> QED BY <2>1, <2>2 DEF Reaches
<1>8. Reaches(i, p) => p \in LineOn(i)
  <2>1. ASSUME Reaches(i, p) PROVE p \in i .. e
    <3>1. i <= p /\ e \notin i .. p - 1
      BY <1>5, <2>1 DEF Reaches
    <3> QED BY <1>1, <1>3, <1>5, <1>6, <3>1
  <2> QED BY <2>1 DEF LineOn, e
<1> QED BY <1>3, <1>4, <1>5, <1>7, <1>8 DEF n, e

\* What is said of a line does not change in a quiet step,
LEMMA QuietKeeps ==
  ASSUME Quiet, NEW i
  PROVE  /\ Clean(diags', i) <=> Clean(diags, i)
         /\ Faulty(diags', i) <=> Faulty(diags, i)
         /\ Fair(diags', i) <=> Fair(diags, i)
<1>1. Clean(diags', i) <=> Clean(diags, i)
  BY DEF Clean, Quiet
<1>2. Faulty(diags', i) <=> Faulty(diags, i)
  BY DEF Faulty, Quiet
<1> QED BY <1>1, <1>2 DEF Fair

\* What the parser reports of the current token is a report more of that token.
LEMMA SaysIs ==
  ASSUME Typed, Says, NEW S
  PROVE  LET n == Len(diags) + 1
         IN /\ cur \in S => Said(diags', "parser", S) = Said(diags, "parser", S) \cup {n}
            /\ cur \notin S => Said(diags', "parser", S) = Said(diags, "parser", S)
<1>1. diags \in Seq(Marks) /\ cur \in Nat
  BY ShapeIs DEF Typed, Shaped
<1>2. diags' = Append(diags, ParseMark(cur))
  BY DEF Says
<1> QED BY <1>1, <1>2, SaidBy

\* nor where the parser reports a token of another line.
LEMMA SaysElsewhere ==
  ASSUME Typed, Says, NEW i, cur \notin LineOn(i)
  PROVE  /\ Clean(diags', i) <=> Clean(diags, i)
         /\ Faulty(diags', i) <=> Faulty(diags, i)
         /\ Fair(diags', i) <=> Fair(diags, i)
<1>1. /\ Said(diags', "parser", LineOn(i)) = Said(diags, "parser", LineOn(i))
      /\ Said(diags', "parser", LineOn(i) \ Bigs(i)) = Said(diags, "parser", LineOn(i) \ Bigs(i))
  BY SaysIs
<1>2. Clean(diags', i) <=> Clean(diags, i)
  BY <1>1 DEF Clean
<1>3. Faulty(diags', i) <=> Faulty(diags, i)
  BY <1>1 DEF Faulty
<1> QED BY <1>2, <1>3 DEF Fair

\* A line on which the parser has reported nothing but integers out of range.
LEMMA SaysOnLine ==
  ASSUME Typed, Says, NEW i, cur \in LineOn(i), Clean(diags, i)
  PROVE  /\ Cur = "big" => Clean(diags', i)
         /\ Faulty(diags', i)
<1> DEFINE n == Len(diags) + 1
           rest == LineOn(i) \ Bigs(i)
<1>1. Said(diags', "parser", LineOn(i)) # {}
  <2>1. Said(diags', "parser", LineOn(i)) = Said(diags, "parser", LineOn(i)) \cup {n}
    BY SaysIs
  <2> QED BY <2>1
<1>2. Said(diags, "parser", rest) = {}
  BY DEF Clean
<1>3. Cardinality({}) = 0 /\ Cardinality({n}) = 1
  BY FS_EmptySet, FS_Singleton
<1>4. cur \in Bigs(i) <=> Cur = "big"
  BY DEF Bigs, Cur
<1>5. CASE cur \in Bigs(i)
  <2>1. cur \notin rest
    BY <1>5
  <2>2. Said(diags', "parser", rest) = {}
    BY <1>2, <2>1, SaysIs
  <2>3. Bigs(i) # {}
    BY <1>5
  <2>4. Cardinality(Said(diags', "parser", rest)) <= 1
    <3>1. Cardinality(Said(diags', "parser", rest)) = 0
      BY <1>3, <2>2, Zenon
    <3>2. 0 <= 1
      OBVIOUS
    <3> QED BY <3>1, <3>2
  <2>5. Clean(diags', i)
    BY <2>2 DEF Clean
  <2> QED BY <1>1, <2>3, <2>4, <2>5 DEF Faulty
<1>6. CASE cur \notin Bigs(i)
  <2>1. cur \in rest
    BY <1>6
  <2>2. Said(diags', "parser", rest) = {n}
    BY <1>2, <2>1, SaysIs
  <2>3. Cardinality(Said(diags', "parser", rest)) = 1
    BY <1>3, <2>2
  <2> QED BY <1>1, <1>4, <1>6, <2>3 DEF Faulty
<1> QED BY <1>5, <1>6

\* A token may be loaded, and nothing else is reported.
Loaded == (Consume \/ (diags' = diags /\ cur' = cur)) /\ hadError' = hadError

\* The steps within a statement: a quiet one, one that gives the line up, and one
\* that goes on behind an integer out of range.
Within  == at # "line" /\ from' = from
Passes  == Within /\ Loaded /\ at' # "line" /\ (at' \in GivenUp <=> at \in GivenUp)
Refuses == Within /\ Says /\ at \notin GivenUp /\ at' = "failed"
Clamps  == Within /\ Says /\ Cur = "big" /\ at \notin GivenUp /\ at' = "clamped"

\* A line that was given up is skipped.
LEMMA NotGivenUp ==
  ASSUME at \in GivenUp
  PROVE  /\ ~ (Blank \/ Begin \/ BadStart \/ Colon \/ EndOfLine \/ TrailingToken \/ Finish)
         /\ ~ Numbers /\ ~ PartsNext /\ ~ Memory
<1>1. \A S : Standing(S) => at \in S
  BY DEF Standing
<1>0. at = "failed" \/ at = "skip"
  BY DEF GivenUp
<1>2. ~ Arg /\ ~ Operand /\ ~ Taken /\ ~ Term
  BY <1>0, <1>1 DEF Arg, Operand, Taken, Term
<1>3. ~ (Blank \/ Begin \/ BadStart \/ Colon \/ EndOfLine \/ TrailingToken \/ Finish)
  BY <1>0, <1>1 DEF Blank, Begin, BadStart, Beginning, Colon, EndOfLine, TrailingToken, Finish
<1>4. ~ Numbers
  BY <1>0, <1>1 DEF Numbers, Overflow, TakeInt, NoInt
<1>5. ~ PartsNext
  <2>1. ~ (TooMany \/ Addend \/ Ptr \/ NoBracket) /\ ~ Standing({"sized", "bracket"})
    BY <1>0, <1>1 DEF TooMany, Addend, Ptr, NoBracket
  <2> QED BY <1>2, <2>1 DEF PartsNext, PlainArg, IntPart, BadArg, Register, SymbolOperand, SizePrefix,
             OpenBracket, BadOperand, Comma, LastPart, NoRoom
<1>6. ~ Memory
  <2>1. ~ (MemSign \/ Star \/ Scale \/ PlainRegister \/ StarReg \/ IndexReg \/ SetIndex \/ CloseBracket)
        /\ ~ (CloseEmpty \/ Empty \/ Unclosed)
    BY <1>0, <1>1 DEF MemSign, Star, Scale, PlainRegister, StarReg, IndexReg, SetIndex, CloseBracket, CloseEmpty, Empty,
       Unclosed
  <2>2. ~ (TermRegister \/ TermSymbol \/ TermScale \/ TermDisp \/ BadTerm)
    BY <1>0, <1>1, <1>2 DEF TermRegister, TermSymbol, TermScale, TermDisp, BadTerm
  <2> QED BY <2>1, <2>2 DEF Memory
<1> QED BY <1>3, <1>4, <1>5, <1>6

\* Every step is one of those, or one between two statements.
LEMMA StepKinds ==
  ASSUME Typed, Next, ~ fatal', result' # "oom"
  PROVE  \/ Blank \/ Begin \/ BadStart \/ Finish \/ Resume \/ ReturnOk \/ UNCHANGED vars
         \/ Passes \/ Refuses \/ Clamps
<1> DEFINE Outer == {"line"} \cup GivenUp
           Kind3 == Passes \/ Refuses \/ Clamps
           Inner == at \notin Outer
           Went(to) == from' = from /\ Loaded /\ at' = to
           Stuck    == from' = from /\ Says /\ at' = "failed"
           Clamped  == from' = from /\ Says /\ at' = "clamped" /\ Cur = "big"
<1>0. /\ "taken" \notin Outer /\ "symbol" \notin Outer /\ "sized" \notin Outer /\ "int" \notin Outer
      /\ "bracket" \notin Outer /\ "mem" \notin Outer /\ "end" \notin Outer /\ "arg" \notin Outer /\ "operand" \notin Outer
      /\ "done" \notin Outer /\ "index" \notin Outer
  BY DEF GivenUp
<1>00. /\ "memNext" \notin Outer /\ "term" \notin Outer /\ "reg" \notin Outer /\ "scale" \notin Outer /\ "star" \notin Outer
       /\ "indexReg" \notin Outer /\ "empty" \notin Outer
  BY DEF GivenUp
<1>1. \A to : (Advance(to) \/ Goto(to)) => Went(to)
  BY DEF Advance, Goto, Loaded
<1>2. \A to : Complain(to) => from' = from /\ Says /\ at' = to
  BY DEF Complain, Emit, Says, ParseMark
<1>3. Error => Stuck
  BY <1>2 DEF Error
<1>4. \A then : SignedInt(then) => Went("int")
  BY <1>1 DEF SignedInt
<1>5. ASSUME Inner, NEW to, to \notin Outer, Went(to) PROVE Kind3
  BY <1>5 DEF Passes, Within
<1>6. Inner /\ Stuck => Kind3
  BY DEF Refuses, Within
<1>7. Inner /\ Clamped => Kind3
  BY DEF Clamps, Within
<1> HIDE DEF Went, Stuck, Clamped, Outer
<1>8. CASE Colon \/ EndOfLine \/ TrailingToken
  <2>1. Inner
    BY <1>8, NotBetween, NotGivenUp DEF Outer
  <2>2. CASE Colon
    BY <1>0, <1>1, <1>5, <2>1, <2>2 DEF Colon
  <2>3. CASE EndOfLine
    BY <1>0, <1>1, <1>5, <2>1, <2>3 DEF EndOfLine
  <2>4. CASE TrailingToken
    BY <1>3, <1>6, <2>1, <2>4 DEF TrailingToken
  <2> QED BY <1>8, <2>2, <2>3, <2>4
<1>9. CASE GiveUp \/ SkipToken
  <2>1. at \in GivenUp /\ at # "line" /\ Went("skip")
    BY <1>1, <1>9 DEF GiveUp, SkipToken, Standing, GivenUp
  <2>2. "skip" \in GivenUp /\ "skip" # "line"
    BY DEF GivenUp
  <2>3. from' = from /\ Loaded /\ at' = "skip"
    BY <2>1 DEF Went
  <2> QED BY <2>1, <2>2, <2>3 DEF Passes, Within
<1>10. CASE Numbers
  <2>1. Inner
    BY <1>10, NotBetween, NotGivenUp DEF Outer
  <2>2. CASE Overflow
    BY <1>2, <1>7, <2>1, <2>2 DEF Overflow, Clamped
  <2>3. CASE NoInt
    BY <1>3, <1>6, <2>1, <2>3 DEF NoInt
  <2>4. CASE TakeInt
    <3>1. num.then \in {"taken", "index"} /\ Went(num.then)
      BY <1>1, <2>4 DEF TakeInt, Standing, Typed, Fitted, Numeral
    <3> QED BY <1>0, <1>5, <2>1, <3>1
  <2> QED BY <1>10, <2>2, <2>3, <2>4 DEF Numbers
<1>11. CASE PartsNext
  <2>0. Inner
    BY <1>11, NotBetween, NotGivenUp DEF Outer
  <2>1. ASSUME PlainArg \/ Register PROVE Went("taken")
    BY <1>1, <2>1, Zenon DEF PlainArg, Register
  <2>2. ASSUME SymbolOperand \/ SizePrefix PROVE Went("symbol") \/ Went("sized")
    BY <1>1, <2>2, Zenon DEF SymbolOperand, SizePrefix
  <2>3. ASSUME TooMany \/ BadArg \/ BadOperand \/ NoBracket PROVE Stuck
    BY <1>3, <2>3, Zenon DEF TooMany, BadArg, BadOperand, NoBracket
  <2>4. ASSUME IntPart \/ Addend PROVE Went("int")
    BY <1>4, <2>4, Zenon DEF IntPart, Addend
  <2>5. ASSUME Ptr \/ OpenBracket PROVE Went("bracket") \/ Went("mem")
    BY <1>1, <2>5, Zenon DEF Ptr, OpenBracket
  <2>6. ASSUME LastPart PROVE Went("end")
    BY <1>1, <2>6, Zenon DEF LastPart
  <2>7. ASSUME Comma PROVE Went("arg") \/ Went("operand")
    <3> DEFINE to == IF Kind = "directive" THEN "arg" ELSE "operand"
    <3>1. Advance(to)
      BY <2>7, Zenon DEF Comma
    <3>2. to = "arg" \/ to = "operand"
      OBVIOUS
    <3> HIDE DEF to
    <3> QED BY ONLY <1>1, <3>1, <3>2, Zenon
  <2>8. ~ NoRoom
    BY DEF NoRoom
  <2> DEFINE Gone == \/ Went("taken") \/ Went("symbol") \/ Went("sized") \/ Went("int") \/ Went("bracket") \/ Went("mem")
                     \/ Went("end") \/ Went("arg") \/ Went("operand") \/ Stuck
  <2>9. Gone
    BY <1>11, <2>1, <2>2, <2>3, <2>4, <2>5, <2>6, <2>7, <2>8, Zenon DEF PartsNext
  <2>10. ASSUME Gone PROVE Kind3
    BY <1>0, <1>5, <1>6, <2>0, <2>10, Zenon
  <2> QED BY <2>9, <2>10
<1>12. CASE Memory
  <2>0. Inner
    BY <1>12, NotBetween, NotGivenUp DEF Outer
  <2>1. ASSUME MemSign \/ TermRegister \/ Star PROVE Went("term") \/ Went("reg") \/ Went("scale")
    BY <1>1, <2>1, Zenon DEF MemSign, TermRegister, Star
  <2>2. ASSUME Scale PROVE Went("int")
    BY <1>4, <2>2, Zenon DEF Scale
  <2>3. ASSUME PlainRegister \/ TermSymbol \/ SetIndex \/ TermDisp PROVE Went("memNext")
    BY <1>1, <2>3, Zenon DEF PlainRegister, TermSymbol, SetIndex, TermDisp
  <2>4. ASSUME TermScale \/ StarReg \/ IndexReg PROVE Went("star") \/ Went("indexReg") \/ Went("index")
    BY <1>1, <2>4, Zenon DEF TermScale, StarReg, IndexReg
  <2>5. ASSUME CloseBracket \/ CloseEmpty PROVE Went("taken") \/ Went("empty")
    BY <1>1, <2>5, Zenon DEF CloseBracket, CloseEmpty
  <2>6. ASSUME BadTerm \/ Empty \/ Unclosed PROVE Stuck
    BY <1>3, <2>6, Zenon DEF BadTerm, Empty, Unclosed
  <2> DEFINE Gone == \/ Went("term") \/ Went("reg") \/ Went("scale") \/ Went("int") \/ Went("memNext") \/ Went("star")
                     \/ Went("indexReg") \/ Went("index") \/ Went("taken") \/ Went("empty") \/ Stuck
  <2>7. Gone
    BY <1>12, <2>1, <2>2, <2>3, <2>4, <2>5, <2>6, Zenon DEF Memory
  <2>8. ASSUME Gone PROVE Kind3
    BY <1>0, <1>00, <1>5, <1>6, <2>0, <2>8, Zenon
  <2> QED BY <2>7, <2>8
<1>13. CASE Return
  BY <1>13 DEF Return, ReturnFatal
<1>14. CASE Returned
  BY <1>14 DEF Returned
<1> QED BY <1>8, <1>9, <1>10, <1>11, <1>12, <1>13, <1>14 DEF Next, Parse, Statements, Recovery

\* What is known of the lines in the next state, in the words of this one.
SoFarNext(i) ==
  /\ at' = "line" => (Tok(cur') = "eof" /\ Fair(diags', i)) \/ (Body(i) = Body(cur') /\ Clean(diags', i))
  /\ at' \in GivenUp => Body(i) = Body(from') /\ Faulty(diags', i)
  /\ at' \notin GivenUp \cup {"line"} => Body(i) = Body(from') /\ Clean(diags', i)

\* The lines in the next state, told in the words of this one.
LEMMA LinesNext ==
  ASSUME toks' = toks, NEW p, p = Here',
         \A i \in LineStarts : /\ Reader!EndOf(i) < p => Fair(diags', i)
                               /\ Reaches(i, p) => SoFarNext(i)
  PROVE  LinesFair'
<1>1. LineStarts' = LineStarts /\ \A i : (Reader!EndOf(i))' = Reader!EndOf(i) /\ Body(i)' = Body(i)
  BY LinesStay
<1>2. \A i : /\ Clean(diags, i)' <=> Clean(diags', i)
             /\ Faulty(diags, i)' <=> Faulty(diags', i)
             /\ Fair(diags, i)' <=> Fair(diags', i)
  BY SaidNext
<1>3. Body(cur)' = Body(cur') /\ Body(from)' = Body(from')
  BY DEF Body, Reader!IsLabel, Reader!Tok
<1>4. Cur' = Tok(cur')
  BY DEF Cur, Tok
<1>5. \A i : Reaches(i, Here)' <=> Reaches(i, p)
  BY DEF Reaches
<1>6. ASSUME NEW i \in LineStarts, Reaches(i, p) PROVE LineSoFar(diags, i)'
  <2>1. SoFarNext(i)
    BY <1>6
  <2>2. CASE at' = "line"
    <3>1. at' \notin GivenUp
      BY <2>2 DEF GivenUp
    <3> QED BY <1>1, <1>2, <1>3, <1>4, <2>1, <2>2, <3>1 DEF SoFarNext, LineSoFar
  <2>3. CASE at' \in GivenUp
    <3>1. at' # "line"
      BY <2>3 DEF GivenUp
    <3> QED BY <1>1, <1>2, <1>3, <2>1, <2>3, <3>1 DEF SoFarNext, LineSoFar
  <2>4. CASE at' \notin GivenUp \cup {"line"}
    BY <1>1, <1>2, <1>3, <2>1, <2>4 DEF SoFarNext, LineSoFar
  <2> QED BY <2>2, <2>3, <2>4
<1>7. ASSUME NEW i \in LineStarts, (Reader!EndOf(i))' < Here' PROVE Fair(diags, i)'
  BY <1>1, <1>2, <1>7
<1> QED BY <1>1, <1>5, <1>6, <1>7 DEF LinesFair

\* A line that reaches the statement reaches the current token.
LEMMA ReachesOn ==
  ASSUME Typed, NEW p \in 1 .. cur, \A k \in p .. cur - 1 : TokenAt(toks, k) \notin LineEnd,
         NEW i \in LineStarts
  PROVE  /\ Reaches(i, p) => cur \in LineOn(i) /\ Reaches(i, cur)
         /\ Reader!EndOf(i) < p => cur \notin LineOn(i)
         /\ p < i => cur + 1 <= i
         /\ Reader!EndOf(i) < p \/ Reaches(i, p) \/ p < i
         /\ i <= Reader!EndOf(i) /\ i \in Nat /\ Reader!EndOf(i) \in Nat
<1>1. toks \in Seq(Tokens) /\ cur \in Nat /\ cur \in 1 .. Len(toks) + 1 /\ Len(toks) \in Nat
  BY ShapeIs DEF Typed, Shaped
<1>2. p \in 1 .. Len(toks) + 1 /\ p \in Nat /\ p <= cur
  BY <1>1
<1>3. /\ i \in 1 .. Len(toks) + 1 /\ Reader!EndOf(i) \in i .. Len(toks) + 1
      /\ Reader!EndOf(i) < p \/ Reaches(i, p) \/ p < i
      /\ Reaches(i, cur) => cur \in LineOn(i)
      /\ i # 1 => TokenAt(toks, i - 1) = "nl"
  BY <1>1, <1>2, LinePlace
<1>4. ASSUME Reaches(i, p) PROVE Reaches(i, cur)
  <2>1. i <= cur
    BY <1>1, <1>2, <1>3, <1>4 DEF Reaches
  <2>2. ASSUME NEW k \in i .. cur - 1 PROVE TokenAt(toks, k) \notin LineEnd
    <3>1. k \in i .. p - 1 \/ k \in p .. cur - 1
      BY <1>1, <1>2, <1>3
    <3> QED BY <1>4, <3>1 DEF Reaches
  <2> QED BY <2>1, <2>2 DEF Reaches
<1> DEFINE e == Reader!EndOf(i)
<1>5. e \in Nat /\ i \in Nat /\ i <= e
  BY <1>1, <1>3
<1>6. e < p => cur \notin LineOn(i)
  <2> HIDE DEF e
  <2>1. LineOn(i) = i .. e
    BY DEF LineOn, e
  <2> QED BY <1>1, <1>2, <1>5, <2>1
<1>7. ASSUME p < i PROVE cur + 1 <= i
  <2>1. TokenAt(toks, i - 1) \in LineEnd
    BY <1>2, <1>3, <1>7 DEF LineEnd
  <2>2. i - 1 \notin p .. cur - 1
    BY <2>1
  <2> QED BY <1>1, <1>2, <1>5, <1>7, <2>2
<1> QED BY <1>3, <1>4, <1>5, <1>6, <1>7

\* A step within a statement.
LEMMA WithinFair ==
  ASSUME Typed, Started, LinesFair, toks' = toks, (Passes /\ Quiet) \/ Refuses \/ Clamps
  PROVE  LinesFair'
<1>0. "line" \notin GivenUp /\ "failed" \in GivenUp /\ "clamped" \notin GivenUp /\ "failed" # "line" /\ "clamped" # "line"
  BY DEF GivenUp
<1>1. at # "line" /\ at' # "line" /\ from' = from
  BY <1>0 DEF Passes, Refuses, Clamps, Within
<1>2. Here = from /\ Here' = from
  BY <1>1 DEF Here
<1>3. from \in 1 .. cur /\ \A k \in from .. cur - 1 : TokenAt(toks, k) \notin LineEnd
  BY DEF Started, Typed, Shaped
<1>4. Quiet \/ Says
  BY DEF Refuses, Clamps
<1>5. ASSUME NEW i \in LineStarts, Reader!EndOf(i) < from PROVE Fair(diags', i)
  <2>1. Fair(diags, i)
    BY <1>2, <1>5 DEF LinesFair
  <2>2. cur \notin LineOn(i)
    BY <1>3, <1>5, ReachesOn
  <2>3. CASE Quiet
    BY <2>1, <2>3, QuietKeeps
  <2>4. CASE Says
    BY <2>1, <2>2, <2>4, SaysElsewhere
  <2> QED BY <1>4, <2>3, <2>4
<1>6. ASSUME NEW i \in LineStarts, Reaches(i, from) PROVE SoFarNext(i)
  <2>1. LineSoFar(diags, i)
    BY <1>2, <1>6 DEF LinesFair
  <2>2. Body(i) = Body(from) /\ (at \in GivenUp => Faulty(diags, i)) /\ (at \notin GivenUp => Clean(diags, i))
    BY <1>1, <2>1 DEF LineSoFar
  <2>3. cur \in LineOn(i)
    BY <1>3, <1>6, ReachesOn
  <2>4. (at' \in GivenUp => Faulty(diags', i)) /\ (at' \notin GivenUp => Clean(diags', i))
    <3>1. CASE Passes /\ Quiet
      BY <2>2, <3>1, QuietKeeps DEF Passes
    <3>2. CASE Refuses
      BY <1>0, <2>2, <2>3, <3>2, SaysOnLine DEF Refuses
    <3>3. CASE Clamps
      BY <1>0, <2>2, <2>3, <3>3, SaysOnLine DEF Clamps
    <3> QED BY <3>1, <3>2, <3>3
  <2> QED BY <1>1, <2>2, <2>4 DEF SoFarNext
<1> QED BY <1>2, <1>5, <1>6, LinesNext

\* A statement begins, or a line that starts with no name is given up.
LEMMA BeginFair ==
  ASSUME Typed, LinesFair, toks' = toks, (Begin /\ Quiet) \/ (BadStart /\ Says)
  PROVE  LinesFair'
<1>1. at = "line" /\ ~ AtEnd /\ from' = cur
  BY DEF Begin, BadStart, Beginning, Standing
<1>2. at' # "line" /\ (Begin => at' \notin GivenUp) /\ (BadStart => at' \in GivenUp)
  BY DEF Begin, BadStart, GivenUp
<1>3. Here = cur /\ Here' = cur
  BY <1>1, <1>2 DEF Here
<1>4. cur \in 1 .. cur /\ \A k \in cur .. cur - 1 : TokenAt(toks, k) \notin LineEnd
  <2>1. cur \in Nat \ {0}
    BY ShapeIs DEF Typed
  <2>2. cur \in 1 .. cur /\ cur .. cur - 1 = {}
    BY <2>1
  <2> QED BY <2>2
<1>5. ASSUME NEW i \in LineStarts, Reader!EndOf(i) < cur PROVE Fair(diags', i)
  <2>1. Fair(diags, i)
    BY <1>3, <1>5 DEF LinesFair
  <2>2. cur \notin LineOn(i)
    BY <1>4, <1>5, ReachesOn
  <2>3. CASE Quiet
    BY <2>1, <2>3, QuietKeeps
  <2>4. CASE Says
    BY <2>1, <2>2, <2>4, SaysElsewhere
  <2> QED BY <2>3, <2>4
<1>6. ASSUME NEW i \in LineStarts, Reaches(i, cur) PROVE SoFarNext(i)
  <2>1. LineSoFar(diags, i)
    BY <1>3, <1>6 DEF LinesFair
  <2>2. Body(i) = Body(cur) /\ Clean(diags, i)
    BY <1>1, <2>1 DEF LineSoFar, AtEnd, LineEnd, GivenUp
  <2>3. cur \in LineOn(i)
    BY <1>4, <1>6, ReachesOn
  <2>4. Body(i) = Body(from')
    BY <1>1, <2>2
  <2>5. CASE Begin /\ Quiet
    <3>1. Clean(diags', i)
      BY <2>2, <2>5, QuietKeeps
    <3> QED BY <1>2, <2>4, <2>5, <3>1 DEF SoFarNext
  <2>6. CASE BadStart /\ Says
    <3>1. Faulty(diags', i)
      BY <2>2, <2>3, <2>6, SaysOnLine
    <3> QED BY <1>2, <2>4, <2>6, <3>1 DEF SoFarNext
  <2> QED BY <2>5, <2>6
<1> QED BY <1>3, <1>5, <1>6, LinesNext

\* Behind the current token nothing is reported yet.
LEMMA NothingBehind ==
  ASSUME Typed, Said(diags, "parser", Nat \ (1 .. cur)) = {}, NEW i \in LineStarts, cur < i
  PROVE  Clean(diags, i)
<1>1. toks \in Seq(Tokens) /\ cur \in Nat /\ cur \in 1 .. Len(toks) + 1 /\ Len(toks) \in Nat
  BY ShapeIs DEF Typed, Shaped
<1>2. i \in 1 .. Len(toks) + 1 /\ Reader!EndOf(i) \in i .. Len(toks) + 1
  BY <1>1, LinePlace
<1> DEFINE e == Reader!EndOf(i)
<1>3. e \in Nat /\ i \in Nat
  BY <1>1, <1>2
<1>4. LineOn(i) \subseteq Nat \ (1 .. cur)
  <2> HIDE DEF e
  <2>1. LineOn(i) = i .. e
    BY DEF LineOn, e
  <2> QED BY <1>1, <1>3, <2>1
<1>5. Said(diags, "parser", LineOn(i) \ Bigs(i)) \subseteq Said(diags, "parser", Nat \ (1 .. cur))
  BY <1>4 DEF Said
<1> QED BY <1>5 DEF Clean

\* The next line starts, where the one that ends has the errors it should have.
LEMMA LineCloses ==
  ASSUME Typed, toks' = toks, Quiet, Said(diags, "parser", Nat \ (1 .. cur)) = {},
         NEW p \in 1 .. cur, \A k \in p .. cur - 1 : TokenAt(toks, k) \notin LineEnd, AtEnd,
         \A i \in LineStarts : Reader!EndOf(i) < p \/ Reaches(i, p) => Fair(diags, i),
         at' = "line", cur' = IF Cur = "nl" THEN cur + 1 ELSE cur
  PROVE  LinesFair'
<1>1. cur \in Nat /\ TokenAt(toks, cur) = Cur /\ Cur \in LineEnd
  BY ShapeIs DEF Typed, Cur, Tok, AtEnd
<1>2. Here' = cur'
  BY DEF Here
<1>3. \A i \in LineStarts : /\ Reader!EndOf(i) < p \/ Reaches(i, p) => Fair(diags', i)
                            /\ p < i => cur + 1 <= i
                            /\ Reader!EndOf(i) < p \/ Reaches(i, p) \/ p < i
                            /\ i <= Reader!EndOf(i) /\ i \in Nat /\ Reader!EndOf(i) \in Nat
  BY QuietKeeps, ReachesOn
<1>4. ASSUME NEW i \in LineStarts, Reader!EndOf(i) < cur' PROVE Fair(diags', i)
  <2> DEFINE e == Reader!EndOf(i)
  <2>1. i <= e /\ i \in Nat /\ e \in Nat /\ e < cur'
    BY <1>3, <1>4
  <2> HIDE DEF e
  <2>2. ~ (cur + 1 <= i)
    BY <1>1, <2>1
  <2> QED BY <1>3, <2>2
<1>5. ASSUME NEW i \in LineStarts, Reaches(i, cur') PROVE SoFarNext(i)
  <2>1. at' \notin GivenUp
    BY DEF GivenUp
  <2>2. i \in Nat /\ i <= cur' /\ \A k \in i .. cur' - 1 : TokenAt(toks, k) \notin LineEnd
    BY <1>3, <1>5 DEF Reaches
  <2>3. CASE Cur = "nl"
    <3>1. cur' = cur + 1 /\ cur \notin i .. cur' - 1
      BY <1>1, <2>2, <2>3
    <3>2. i = cur' /\ cur < i
      BY <1>1, <2>2, <3>1
    <3>3. Clean(diags', i)
      BY <3>2, NothingBehind, QuietKeeps
    <3> QED BY <2>1, <3>2, <3>3 DEF SoFarNext
  <2>4. CASE Cur # "nl"
    <3>1. cur' = cur /\ Tok(cur') = "eof"
      BY <1>1, <2>4 DEF LineEnd, Tok
    <3>2. Fair(diags', i)
      BY <1>1, <1>3, <2>2, <3>1
    <3> QED BY <2>1, <3>1, <3>2 DEF SoFarNext
  <2> QED BY <2>3, <2>4
<1> QED BY <1>2, <1>4, <1>5, LinesNext

\* An empty line.
LEMMA BlankFair ==
  ASSUME Typed, LinesFair, toks' = toks, Blank, Quiet, Said(diags, "parser", Nat \ (1 .. cur)) = {}
  PROVE  LinesFair'
<1>1. at = "line" /\ at' = "line" /\ Cur = "nl" /\ cur' = cur + 1 /\ AtEnd
  BY DEF Blank, Standing, Advance, Consume, AtEnd, LineEnd
<1>2. cur \in 1 .. cur /\ \A k \in cur .. cur - 1 : TokenAt(toks, k) \notin LineEnd
  <2>1. cur \in Nat \ {0}
    BY ShapeIs DEF Typed
  <2>2. cur \in 1 .. cur /\ cur .. cur - 1 = {}
    BY <2>1
  <2> QED BY <2>2
<1>3. Here = cur
  BY <1>1 DEF Here
<1>4. ASSUME NEW i \in LineStarts, Reader!EndOf(i) < cur \/ Reaches(i, cur) PROVE Fair(diags, i)
  <2>1. CASE Reader!EndOf(i) < cur
    BY <1>3, <2>1 DEF LinesFair
  <2>2. CASE Reaches(i, cur)
    <3>1. LineSoFar(diags, i)
      BY <1>3, <2>2 DEF LinesFair
    <3>2. Body(i) = Body(cur) /\ Clean(diags, i)
      BY <1>1, <3>1 DEF LineSoFar, GivenUp
    <3>3. Body(cur) = cur
      <4>1. toks \in Seq(Tokens) /\ cur \in 1 .. Len(toks) + 1
        BY DEF Typed, Shaped
      <4>2. TokenAt(toks, cur) \in LineEnd
        BY <1>1 DEF AtEnd, Cur, Tok
      <4> QED BY <4>1, <4>2, BodyHere
    <3>4. ~ LaxBad(i)
      BY <1>1, <3>2, <3>3 DEF LaxBad, AtEnd, Cur
    <3> QED BY <3>2, <3>4 DEF Fair
  <2> QED BY <1>4, <2>1, <2>2
<1> QED BY <1>1, <1>2, <1>4, LineCloses

\* The rest of a line that was given up.
LEMMA ResumeFair ==
  ASSUME Typed, Started, PlaceOK, ~ fatal, LinesFair, toks' = toks, Resume, Quiet,
         Said(diags, "parser", Nat \ (1 .. cur)) = {}
  PROVE  LinesFair'
<1>1. at = "skip" /\ AtEnd /\ at' = "line" /\ at \in GivenUp /\ at # "line"
  BY DEF Resume, Standing, Skipped, Advance, Goto, GivenUp
<1>2. cur' = IF Cur = "nl" THEN cur + 1 ELSE cur
  BY DEF Resume, Advance, Goto, Consume
<1>3. from \in 1 .. cur /\ \A k \in from .. cur - 1 : TokenAt(toks, k) \notin LineEnd
  BY DEF Started, Typed, Shaped
<1>4. ~ Reader!IsLabel(from) /\ ~ LaxGoodLine(from)
  BY <1>1 DEF PlaceOK
<1>5. Body(from) = from /\ Tok(from) \notin LineEnd
  <2>1. toks \in Seq(Tokens) /\ from \in 1 .. Len(toks) /\ Len(toks) \in Nat
    BY ShapeIs DEF Typed, Shaped, Started
  <2>2. from \in 1 .. Len(toks) + 1
    BY <2>1
  <2> QED BY <1>4, <2>1, <2>2, BodyHere DEF Started, Tok
<1>6. Here = from
  BY <1>1 DEF Here
<1>7. ASSUME NEW i \in LineStarts, Reader!EndOf(i) < from \/ Reaches(i, from) PROVE Fair(diags, i)
  <2>1. CASE Reader!EndOf(i) < from
    BY <1>6, <2>1 DEF LinesFair
  <2>2. CASE Reaches(i, from)
    <3>1. LineSoFar(diags, i)
      BY <1>6, <2>2 DEF LinesFair
    <3>2. Body(i) = Body(from) /\ Faulty(diags, i)
      BY <1>1, <3>1 DEF LineSoFar
    <3>3. LaxBad(i)
      BY <1>4, <1>5, <3>2 DEF LaxBad
    <3> QED BY <3>2, <3>3 DEF Fair
  <2> QED BY <1>7, <2>1, <2>2
<1> QED BY <1>1, <1>2, <1>3, <1>7, LineCloses

\* A statement ends.
LEMMA FinishFair ==
  ASSUME Typed, Started, PlaceOK, LinesFair, toks' = toks, Finish, result' # "oom", Quiet,
         Said(diags, "parser", Nat \ (1 .. cur)) = {}
  PROVE  LinesFair'
<1>1. at = "done" /\ at' = "line" /\ at \notin GivenUp /\ at # "line"
  BY FinishReads DEF Finish, Standing, GivenUp
<1>2. cur' = IF Cur = "nl" THEN cur + 1 ELSE cur
  BY DEF Finish, Consume
<1>3. from \in 1 .. cur /\ \A k \in from .. cur - 1 : TokenAt(toks, k) \notin LineEnd
  BY DEF Started, Typed, Shaped
<1>4. /\ toks \in Seq(Tokens) /\ from \in 1 .. Len(toks) + 1 /\ cur \in 1 .. Len(toks) + 1 /\ from \in Nat
  <2>1. toks \in Seq(Tokens) /\ from \in 1 .. Len(toks) /\ Len(toks) \in Nat /\ cur \in 1 .. Len(toks) + 1
    BY ShapeIs DEF Typed, Shaped, Started
  <2> QED BY <2>1
<1>5. Here = from
  BY <1>1 DEF Here
<1>6. ASSUME NEW i \in LineStarts
      PROVE  /\ Reader!EndOf(i) < from => Fair(diags, i)
             /\ Reaches(i, from) => Body(i) = Body(from) /\ Clean(diags, i)
  <2>1. Reader!EndOf(i) < from => Fair(diags, i)
    BY <1>5 DEF LinesFair
  <2>2. Reaches(i, from) => LineSoFar(diags, i)
    BY <1>5 DEF LinesFair
  <2> QED BY <1>1, <2>1, <2>2 DEF LineSoFar
<1>7. ASSUME AtEnd, Tok(Body(from)) \in LineEnd \/ LaxGoodLine(Body(from)) PROVE LinesFair'
  <2>1. ASSUME NEW i \in LineStarts, Reader!EndOf(i) < from \/ Reaches(i, from) PROVE Fair(diags, i)
    BY <1>6, <1>7, <2>1 DEF Fair, LaxBad
  <2> QED BY <1>1, <1>2, <1>3, <1>7, <2>1, LineCloses
<1>8. CASE LineJudged
  <2>1. ~ Reader!IsLabel(from) /\ LaxGoodLine(from) /\ AtEnd
    BY <1>8 DEF LineJudged
  <2>2. Body(from) = from
    BY <1>4, <2>1, BodyHere
  <2> QED BY <1>7, <2>1, <2>2
<1>9. CASE Reader!IsLabel(from) /\ cur = from + 2
  <2>1. Body(from) = Body(cur)
    BY <1>4, <1>9, BodyHere
  <2>2. CASE AtEnd
    <3>1. Tok(cur) \in LineEnd
      BY <2>2 DEF AtEnd, Cur
    <3>2. Body(cur) = cur
      BY <1>4, <3>1, BodyHere DEF Tok
    <3> QED BY <1>7, <2>1, <2>2, <3>1, <3>2
  <2>3. CASE ~ AtEnd
    <3>1. cur' = cur /\ Here' = cur
      BY <1>1, <1>2, <2>3 DEF AtEnd, LineEnd, Here
    <3>2. cur \in Nat
      BY ShapeIs DEF Typed
    <3>3. ASSUME NEW i \in LineStarts
          PROVE  /\ Reader!EndOf(i) < from \/ Reaches(i, from) \/ from < i
                 /\ from < i => cur + 1 <= i
                 /\ Reaches(i, from) => cur \in LineOn(i) /\ Reaches(i, cur)
                 /\ i <= Reader!EndOf(i) /\ i \in Nat /\ Reader!EndOf(i) \in Nat
      BY <1>3, ReachesOn
    <3>4. ASSUME NEW i \in LineStarts, Reader!EndOf(i) < cur PROVE Fair(diags', i)
      <4> DEFINE e == Reader!EndOf(i)
      <4>1. e < cur /\ i <= e /\ i \in Nat /\ e \in Nat
        BY <3>3, <3>4
      <4>2. Reaches(i, from) => cur <= e
        <5>1. Reaches(i, from) => cur \in i .. e
          BY <3>3 DEF LineOn
        <5> HIDE DEF e
        <5> QED BY <4>1, <5>1
      <4>3. ~ (cur + 1 <= i) /\ ~ (cur <= e)
        <5> HIDE DEF e
        <5> QED BY <3>2, <4>1
      <4>4. e < from
        BY <3>3, <4>2, <4>3
      <4> QED BY <1>6, <4>4, QuietKeeps
    <3>5. ASSUME NEW i \in LineStarts, Reaches(i, cur) PROVE SoFarNext(i)
      <4>1. i <= cur
        BY <3>5 DEF Reaches
      <4>2. ~ (cur + 1 <= i)
        BY <3>2, <3>3, <4>1
      <4>3. ~ (Reader!EndOf(i) < from)
        <5> DEFINE e == Reader!EndOf(i)
        <5>1. cur \in i .. e /\ e \in Nat
          <6>1. cur \in LineOn(i)
            BY <1>4, <3>5, LinePlace
          <6> QED BY <3>3, <6>1 DEF LineOn
        <5>2. cur \in i .. e /\ from <= cur
          BY <1>3, <5>1
        <5>3. i \in Nat
          BY <3>3
        <5> SUFFICES ASSUME e < from PROVE FALSE
          OBVIOUS
        <5> HIDE DEF e
        <5> QED BY <1>4, <3>2, <5>1, <5>2, <5>3
      <4>4. Body(i) = Body(cur') /\ Clean(diags', i)
        BY <1>6, <2>1, <3>1, <3>3, <4>2, <4>3, QuietKeeps
      <4> QED BY <1>1, <4>4 DEF SoFarNext, GivenUp
    <3> QED BY <3>1, <3>4, <3>5, LinesNext
  <2> QED BY <2>2, <2>3
<1> QED BY <1>1, <1>8, <1>9 DEF PlaceOK

\* The scanner reports a token once, when it is loaded.
LEMMA LexLoads ==
  ASSUME Typed, LexFair, toks' = toks, ~ fatal', Consume
  PROVE  LexFair'
<1>1. /\ diags \in Seq(Marks) /\ cur \in Nat /\ cur + 2 \in Nat /\ toks \in Seq(Tokens) /\ DOMAIN toks = 1 .. Len(toks)
      /\ Len(toks) \in Nat
  BY ShapeIs DEF Typed, Shaped
<1>2. (Cur = "eof" <=> cur > Len(toks)) /\ cur' = IF Cur = "eof" THEN cur ELSE cur + 1
  BY ShapeIs DEF Typed, Consume
<1> DEFINE Now(i)  == IF i <= cur + 1 /\ toks[i] \in LexErrors THEN 1 ELSE 0
           Next2(i) == IF i <= cur' + 1 /\ toks[i] \in LexErrors THEN 1 ELSE 0
<1>3. \A i \in 1 .. Len(toks) : Cardinality(Said(diags, "lexer", {i})) = Now(i)
  BY DEF LexFair
<1>4. \A i \in 1 .. Len(toks) : i # cur + 2 => Next2(i) = Now(i)
  <2>1. ASSUME NEW i \in 1 .. Len(toks), i # cur + 2 PROVE i <= cur + 1 <=> i <= cur' + 1
    BY <1>1, <1>2, <2>1
  <2> QED BY <2>1
<1>5. ASSUME NEW i \in 1 .. Len(toks) PROVE Cardinality(Said(diags', "lexer", {i})) = Next2(i)
  <2>1. i \in Nat /\ TokenAt(toks, i) = toks[i]
    BY <1>1 DEF TokenAt
  <2>2. CASE Tok(cur + 2) \in LexErrors
    <3>1. diags' = Append(diags, LexMark(cur + 2))
      BY <2>2 DEF Consume, Load, Emit, LexMark
    <3>2. CASE i = cur + 2
      <4>1. Cur # "eof" /\ i <= cur' + 1 /\ ~ (i <= cur + 1)
        BY <1>1, <1>2, <3>2
      <4>2. toks[i] \in LexErrors
        BY <2>1, <2>2, <3>2 DEF Tok
      <4>3. Now(i) = 0 /\ Next2(i) = 1
        BY <4>1, <4>2
      <4>4. Cardinality(Said(diags, "lexer", {i})) = 0
        BY <1>3, <4>3
      <4>5. /\ IsFiniteSet(Said(diags, "lexer", {i}))
            /\ Said(Append(diags, LexMark(cur + 2)), "lexer", {i}) = Said(diags, "lexer", {i}) \cup {Len(diags) + 1}
        BY <1>1, <3>2, SaidBy
      <4>6. Said(diags, "lexer", {i}) = {}
        BY <4>4, <4>5, FS_EmptySet
      <4>7. Said(diags', "lexer", {i}) = {} \cup {Len(diags) + 1}
        BY <3>1, <4>5, <4>6
      <4>8. Said(diags', "lexer", {i}) = {Len(diags) + 1}
        BY <4>7
      <4>9. Cardinality(Said(diags', "lexer", {i})) = 1
        BY <4>8, FS_Singleton
      <4> QED BY <4>3, <4>9
    <3>3. CASE i # cur + 2
      <4>1. Said(diags', "lexer", {i}) = Said(diags, "lexer", {i})
        BY <1>1, <3>1, <3>3, SaidBy
      <4> QED BY <1>3, <1>4, <3>3, <4>1
    <3> QED BY <3>2, <3>3
  <2>3. CASE Tok(cur + 2) \notin LexErrors
    <3>1. diags' = diags
      BY <2>3 DEF Consume, Load
    <3>2. i = cur + 2 => Next2(i) = 0 /\ Now(i) = 0
      BY <2>1, <2>3 DEF Tok
    <3>3. Next2(i) = Now(i)
      BY <1>4, <3>2
    <3> HIDE DEF Now, Next2
    <3>4. Cardinality(Said(diags, "lexer", {i})) = Now(i)
      BY <1>3
    <3> QED BY <3>1, <3>3, <3>4
  <2> QED BY <2>2, <2>3
<1> QED BY <1>5 DEF LexFair

\* What a step without an error of the parser leaves to be known,
LEMMA LoadedIs ==
  ASSUME Typed, Typed', toks' = toks, ~ fatal', Loaded, Said(diags, "parser", Nat \ (1 .. cur)) = {}, LexFair,
         hadError <=> Said(diags, "parser", Nat) # {}
  PROVE  /\ Quiet /\ Said(diags, "parser", Nat \ (1 .. cur))' = {} /\ LexFair'
         /\ (hadError <=> Said(diags, "parser", Nat) # {})'
<1>1. Quiet
  <2>1. CASE Consume
    BY <2>1, LoadQuiet DEF Loaded
  <2>2. CASE diags' = diags
    BY <2>2 DEF Loaded, Quiet
  <2> QED BY <2>1, <2>2 DEF Loaded
<1>2. LexFair'
  <2>1. CASE Consume
    BY <2>1, LexLoads
  <2>2. CASE diags' = diags /\ cur' = cur
    BY <2>2 DEF LexFair, Said
  <2> QED BY <2>1, <2>2 DEF Loaded
<1>3. Said(diags', "parser", Nat \ (1 .. cur')) = {}
  <2>1. cur \in Nat /\ cur' \in Nat /\ cur' >= cur
    <3>1. CASE Consume
      BY <3>1, ConsumeIs, ShapeIs DEF Typed
    <3>2. CASE cur' = cur
      BY <3>2, ShapeIs DEF Typed
    <3> QED BY <3>1, <3>2 DEF Loaded
  <2>2. Nat \ (1 .. cur') \subseteq Nat \ (1 .. cur)
    BY <2>1
  <2>3. Said(diags, "parser", Nat \ (1 .. cur')) \subseteq Said(diags, "parser", Nat \ (1 .. cur))
    BY <2>2 DEF Said
  <2> QED BY <1>1, <2>3 DEF Quiet
<1>4. hadError' <=> Said(diags', "parser", Nat) # {}
  BY <1>1 DEF Quiet
<1> QED BY <1>1, <1>2, <1>3, <1>4 DEF Said

\* and one with an error.
LEMMA SaysLeaves ==
  ASSUME Typed, toks' = toks, Says, Said(diags, "parser", Nat \ (1 .. cur)) = {}, LexFair
  PROVE  /\ Said(diags, "parser", Nat \ (1 .. cur))' = {} /\ LexFair'
         /\ (hadError <=> Said(diags, "parser", Nat) # {})'
<1>1. cur \in 1 .. cur /\ cur \in Nat /\ cur' = cur /\ hadError' = TRUE /\ diags \in Seq(Marks)
  BY ShapeIs DEF Typed, Shaped, Says
<1>2. Said(diags', "parser", Nat \ (1 .. cur)) = {}
  <2>1. cur \notin Nat \ (1 .. cur)
    BY <1>1
  <2> QED BY <2>1, SaysIs
<1>3. Said(diags', "parser", Nat) # {}
  <2>1. Said(diags', "parser", Nat) = Said(diags, "parser", Nat) \cup {Len(diags) + 1}
    BY <1>1, SaysIs
  <2> QED BY <2>1
<1>4. \A S : Said(diags', "lexer", S) = Said(diags, "lexer", S)
  <2>1. diags' = Append(diags, ParseMark(cur))
    BY DEF Says
  <2> QED BY <1>1, <2>1, SaidBy
<1>5. LexFair'
  <2>1. \A i \in 1 .. Len(toks) : Cardinality(Said(diags', "lexer", {i})) = Cardinality(Said(diags, "lexer", {i}))
    BY <1>4
  <2> QED BY <1>1, <2>1 DEF LexFair, Said
<1> QED BY <1>1, <1>2, <1>3, <1>5 DEF Said

\* The parser returns where the source ends.
LEMMA ReturnsAtEnd ==
  ASSUME Typed, Next, result' = "ok"
  PROVE  ReturnOk \/ UNCHANGED vars
<1>1. \/ Blank \/ Begin \/ BadStart \/ Finish \/ Resume \/ Return \/ UNCHANGED vars
      \/ at # "line" /\ at' # "line" /\ from' = from /\ result' = result
  BY StepKeeps
<1>2. result = "running" \/ UNCHANGED vars
  BY StepKeeps
<1>3. ASSUME Blank \/ Begin \/ BadStart \/ Finish \/ Resume, result = "running" PROVE FALSE
  <2>1. Blank \/ Resume => result' = result
    BY DEF Blank, Resume, Advance, Goto
  <2>2. Begin \/ BadStart => result' = result
    BY DEF Begin, BadStart
  <2>3. Finish => result' = result \/ result' = "oom"
    BY DEF Finish
  <2> QED BY <1>3, <2>1, <2>2, <2>3
<1>4. Return => ReturnOk
  BY DEF Return, ReturnFatal
<1> QED BY <1>1, <1>2, <1>3, <1>4

\* Where nothing of the lines changes.
LEMMA LinesKept ==
  ASSUME LinesFair, toks' = toks, diags' = diags, cur' = cur, at' = at, from' = from
  PROVE  LinesFair'
<1>1. Here' = Here
  BY DEF Here
<1>2. ASSUME NEW i \in LineStarts, Reaches(i, Here) PROVE SoFarNext(i)
  <2>1. LineSoFar(diags, i)
    BY <1>2 DEF LinesFair
  <2> QED BY <2>1 DEF LineSoFar, SoFarNext, GivenUp, Cur
<1>3. \A i \in LineStarts : Reader!EndOf(i) < Here => Fair(diags', i)
  BY DEF LinesFair
<1> QED BY <1>1, <1>2, <1>3, LinesNext

\* The lines behind a step.
LEMMA LinesStep ==
  ASSUME Typed, Typed', Followed, Next, ~ fatal, ~ fatal', result' # "oom", ReportsOK, LexFair, LinesFair
  PROVE  /\ LinesFair' /\ LexFair' /\ Said(diags, "parser", Nat \ (1 .. cur))' = {}
         /\ (hadError <=> Said(diags, "parser", Nat) # {})'
<1>1. toks' = toks /\ (result = "running" \/ UNCHANGED vars)
  BY StepKeeps
<1>2. /\ Said(diags, "parser", Nat \ (1 .. cur)) = {}
      /\ hadError <=> Said(diags, "parser", Nat) # {}
  BY DEF ReportsOK
<1> DEFINE Rest == /\ LexFair' /\ Said(diags, "parser", Nat \ (1 .. cur))' = {}
                   /\ (hadError <=> Said(diags, "parser", Nat) # {})'
<1>3. Loaded => Quiet /\ Rest
  BY <1>1, <1>2, LoadedIs
<1>4. Says => Rest
  BY <1>1, <1>2, SaysLeaves
<1>5. result = "running" /\ at # "line" => Started /\ PlaceOK
  BY DEF Followed
<1> HIDE DEF Rest
<1>6. CASE Blank
  <2>1. Loaded
    BY <1>6 DEF Blank, Advance, Loaded
  <2> QED BY <1>1, <1>2, <1>3, <1>6, <2>1, BlankFair DEF Rest
<1>7. CASE Begin
  <2>1. Loaded
    BY <1>7 DEF Begin, Loaded
  <2> QED BY <1>1, <1>3, <1>7, <2>1, BeginFair DEF Rest
<1>8. CASE BadStart
  <2>1. Says
    BY <1>8 DEF BadStart, Emit, Says, ParseMark
  <2> QED BY <1>1, <1>4, <1>8, <2>1, BeginFair DEF Rest
<1>9. CASE Finish
  <2>1. Loaded
    BY <1>9 DEF Finish, Loaded
  <2>2. Started /\ PlaceOK
    BY <1>5, <1>9 DEF Finish, Standing
  <2> QED BY <1>1, <1>2, <1>3, <1>9, <2>1, <2>2, FinishFair DEF Rest
<1>10. CASE Resume
  <2>1. Loaded
    BY <1>10 DEF Resume, Advance, Goto, Loaded
  <2>2. Started /\ PlaceOK
    BY <1>5, <1>10 DEF Resume, Standing
  <2> QED BY <1>1, <1>2, <1>3, <1>10, <2>1, <2>2, ResumeFair DEF Rest
<1>11. CASE ReturnOk \/ UNCHANGED vars
  <2>1. diags' = diags /\ cur' = cur /\ at' = at /\ from' = from /\ hadError' = hadError
    BY <1>11 DEF ReturnOk, vars
  <2>2. Loaded
    BY <2>1 DEF Loaded
  <2> QED BY <1>1, <1>3, <2>1, <2>2, LinesKept DEF Rest
<1>12. CASE (Passes \/ Refuses \/ Clamps) /\ result = "running"
  <2>1. Started
    BY <1>5, <1>12 DEF Passes, Refuses, Clamps, Within
  <2>2. CASE Passes
    BY <1>1, <1>3, <2>1, <2>2, WithinFair DEF Rest, Passes
  <2>3. CASE Refuses
    BY <1>1, <1>4, <2>1, <2>3, WithinFair DEF Rest, Refuses
  <2>4. CASE Clamps
    BY <1>1, <1>4, <2>1, <2>4, WithinFair DEF Rest, Clamps
  <2> QED BY <1>12, <2>2, <2>3, <2>4
<1> QED BY <1>1, <1>6, <1>7, <1>8, <1>9, <1>10, <1>11, <1>12, StepKinds

\* What is known of the errors is known behind every step.
LEMMA ErrorNext ==
  ASSUME Typed, Typed', Followed, ErrorInv, [Next]_vars
  PROVE  ErrorInv'
<1>0. CASE UNCHANGED vars
  <2>1. /\ toks' = toks /\ diags' = diags /\ cur' = cur /\ at' = at /\ from' = from /\ hadError' = hadError
        /\ fatal' = fatal /\ result' = result
    BY <1>0 DEF vars
  <2>2. ReportsOK' <=> ReportsOK
    BY <2>1 DEF ReportsOK, Said, Cur, Tok
  <2>3. LexFair' <=> LexFair
    BY <2>1 DEF LexFair, Said
  <2>4. LinesFair => LinesFair'
    BY <2>1, LinesKept
  <2> QED BY <2>1, <2>2, <2>3, <2>4 DEF ErrorInv
<1>1. CASE Next
  <2>1. (fatal => fatal') /\ toks' = toks /\ (result = "running" \/ UNCHANGED vars)
    BY <1>1, FatalStays, StepKeeps
  <2>2. result' = "ok" => ~ fatal' /\ at' = "line" /\ Cur' = "eof"
    <3>1. CASE ReturnOk
      BY <2>1, <3>1 DEF ReturnOk, Standing, Cur, Tok
    <3>2. ASSUME UNCHANGED vars, result' = "ok", fatal' PROVE FALSE
      <4>1. fatal' = fatal /\ result' = result
        BY <3>2 DEF vars
      <4> QED BY <3>2, <4>1 DEF ErrorInv
    <3>3. ASSUME UNCHANGED vars, result' = "ok", ~ fatal' PROVE at' = "line" /\ Cur' = "eof"
      <4>1. fatal' = fatal /\ result' = result /\ at' = at /\ cur' = cur /\ toks' = toks
        BY <3>3 DEF vars
      <4>2. ReportsOK
        BY <3>3, <4>1 DEF ErrorInv
      <4>3. at = "line" /\ Cur = "eof"
        BY <3>3, <4>1, <4>2 DEF ReportsOK
      <4> QED BY <4>1, <4>3 DEF Cur, Tok
    <3> QED BY <1>1, <3>1, <3>2, <3>3, ReturnsAtEnd
  <2>3. ASSUME ~ fatal', result' # "oom" PROVE ReportsOK' /\ LexFair' /\ LinesFair'
    <3>1. ~ fatal
      BY <2>1, <2>3
    <3>2. result # "oom"
      <4>1. UNCHANGED vars => result' = result
        BY DEF vars
      <4> QED BY <2>1, <2>3, <4>1
    <3>3. ReportsOK /\ LexFair /\ LinesFair
      BY <3>1, <3>2 DEF ErrorInv
    <3>4. /\ LinesFair' /\ LexFair' /\ Said(diags, "parser", Nat \ (1 .. cur))' = {}
          /\ (hadError <=> Said(diags, "parser", Nat) # {})'
      BY <1>1, <2>3, <3>1, <3>3, LinesStep
    <3> QED BY <2>2, <3>4 DEF ReportsOK
  <2> QED BY <2>2, <2>3 DEF ErrorInv
<1> QED BY <1>0, <1>1

\* A single report, and two.
LEMMA FewReports ==
  ASSUME NEW t \in Nat, NEW u \in Nat, NEW S
  PROVE  /\ Said(<<>>, "parser", S) = {} /\ Said(<<>>, "lexer", S) = {}
         /\ Said(<<LexMark(t)>>, "parser", S) = {}
         /\ Said(<<LexMark(t)>>, "lexer", S) = IF t \in S THEN {1} ELSE {}
         /\ Said(<<LexMark(t), LexMark(u)>>, "parser", S) = {}
         /\ Said(<<LexMark(t), LexMark(u)>>, "lexer", S)
              = (IF t \in S THEN {1} ELSE {}) \cup (IF u \in S THEN {2} ELSE {})
<1> DEFINE none == <<>>
           a == LexMark(t)
           b == LexMark(u)
           one == <<a>>
           two == <<a, b>>
<1>1. a \in Marks /\ b \in Marks
  BY DEF LexMark, Marks
<1> HIDE DEF a, b
<1>2. one = Append(none, a) /\ two = Append(one, b)
  OBVIOUS
<1>3. none \in Seq(Marks) /\ Len(none) = 0 /\ one \in Seq(Marks) /\ Len(one) = 1
  BY <1>1
<1>4. \A w : Said(none, w, S) = {}
  BY DEF Said
<1> HIDE DEF none, one, two
<1>40. \A d \in Seq(Marks), k \in Nat :
         /\ Said(Append(d, LexMark(k)), "parser", S) = Said(d, "parser", S)
         /\ k \in S => Said(Append(d, LexMark(k)), "lexer", S) = Said(d, "lexer", S) \cup {Len(d) + 1}
         /\ k \notin S => Said(Append(d, LexMark(k)), "lexer", S) = Said(d, "lexer", S)
  BY SaidBy
<1>41. /\ Said(Append(none, a), "parser", S) = Said(none, "parser", S)
       /\ t \in S => Said(Append(none, a), "lexer", S) = Said(none, "lexer", S) \cup {Len(none) + 1}
       /\ t \notin S => Said(Append(none, a), "lexer", S) = Said(none, "lexer", S)
  BY <1>3, <1>40, Zenon DEF a
<1>5. Said(Append(none, a), "parser", S) = {}
  BY <1>4, <1>41, Zenon
<1>6. /\ t \in S => Said(Append(none, a), "lexer", S) = {} \cup {0 + 1}
      /\ t \notin S => Said(Append(none, a), "lexer", S) = {}
  BY <1>3, <1>4, <1>41, Zenon
<1>7. Said(Append(one, b), "parser", S) = Said(one, "parser", S)
  BY <1>3, <1>40, Zenon DEF b
<1>71. /\ u \in S => Said(Append(one, b), "lexer", S) = Said(one, "lexer", S) \cup {Len(one) + 1}
       /\ u \notin S => Said(Append(one, b), "lexer", S) = Said(one, "lexer", S)
  BY <1>3, <1>40, Zenon DEF b
<1>8. /\ u \in S => Said(Append(one, b), "lexer", S) = Said(one, "lexer", S) \cup {1 + 1}
      /\ u \notin S => Said(Append(one, b), "lexer", S) = Said(one, "lexer", S)
  BY <1>3, <1>71, Zenon
<1>9. 0 + 1 = 1 /\ 1 + 1 = 2
  OBVIOUS
<1>10. Said(one, "parser", S) = {} /\ Said(two, "parser", S) = {}
  BY <1>2, <1>5, <1>7, Zenon
<1>11. Said(one, "lexer", S) = IF t \in S THEN {1} ELSE {}
  BY <1>2, <1>6, <1>9
<1>12. Said(two, "lexer", S) = (IF t \in S THEN {1} ELSE {}) \cup (IF u \in S THEN {2} ELSE {})
  BY <1>2, <1>8, <1>9, <1>11
<1> QED BY <1>4, <1>10, <1>11, <1>12 DEF none, one, two, a, b

\* What the scanner reports of the first two tokens.
LEMMA FirstReports ==
  ASSUME Init, ~ fatal
  PROVE  /\ \A S : Said(diags, "parser", S) = {}
         /\ \A i \in 1 .. Len(toks) :
              Cardinality(Said(diags, "lexer", {i})) = IF i <= 2 /\ toks[i] \in LexErrors THEN 1 ELSE 0
<1> DEFINE bad == {i \in 1 .. 2 : Tok(i) \in LexErrors}
           d0 == <<>>
           d1 == <<LexMark(1)>>
           d2 == <<LexMark(2)>>
           d3 == <<LexMark(1), LexMark(2)>>
<1>1. diags = CASE bad = {} -> d0 [] bad = {1} -> d1 [] bad = {2} -> d2 [] OTHER -> d3
  BY Zenon DEF Init, LexMark
<1>2. toks \in Seq(Tokens) /\ Len(toks) \in Nat /\ DOMAIN toks = 1 .. Len(toks)
  BY ParserAssumption DEF Init
<1>3. /\ 1 \in bad <=> Tok(1) \in LexErrors
      /\ 2 \in bad <=> Tok(2) \in LexErrors
      /\ bad \subseteq {1, 2}
  <2>1. 1 .. 2 = {1, 2}
    OBVIOUS
  <2> QED BY <2>1
<1>4. 1 \in Nat /\ 2 \in Nat
  OBVIOUS
<1>5. ASSUME NEW S
      PROVE  /\ Said(d0, "parser", S) = {} /\ Said(d1, "parser", S) = {}
             /\ Said(d2, "parser", S) = {} /\ Said(d3, "parser", S) = {}
             /\ Said(d0, "lexer", S) = {}
             /\ Said(d1, "lexer", S) = IF 1 \in S THEN {1} ELSE {}
             /\ Said(d2, "lexer", S) = IF 2 \in S THEN {1} ELSE {}
             /\ Said(d3, "lexer", S) = (IF 1 \in S THEN {1} ELSE {}) \cup (IF 2 \in S THEN {2} ELSE {})
  <2>1. /\ Said(d0, "parser", S) = {} /\ Said(d1, "parser", S) = {} /\ Said(d3, "parser", S) = {}
        /\ Said(d0, "lexer", S) = {}
        /\ Said(d1, "lexer", S) = IF 1 \in S THEN {1} ELSE {}
        /\ Said(d3, "lexer", S) = (IF 1 \in S THEN {1} ELSE {}) \cup (IF 2 \in S THEN {2} ELSE {})
    BY ONLY <1>4, FewReports
  <2>2. Said(d2, "parser", S) = {} /\ Said(d2, "lexer", S) = IF 2 \in S THEN {1} ELSE {}
    BY ONLY <1>4, FewReports
  <2> QED BY <2>1, <2>2
<1> HIDE DEF bad, d0, d1, d2, d3
<1>6. \/ bad = {} /\ diags = d0
      \/ bad = {1} /\ diags = d1
      \/ bad = {2} /\ diags = d2
      \/ bad = {1, 2} /\ diags = d3
  <2>1. {1} # {} /\ {2} # {} /\ {1} # {2} /\ {1, 2} # {} /\ {1, 2} # {1} /\ {1, 2} # {2}
    OBVIOUS
  <2>2. bad = {} \/ bad = {1} \/ bad = {2} \/ bad = {1, 2}
    BY <1>3
  <2> QED BY <1>1, <2>1, <2>2
<1>7. \A S : Said(diags, "parser", S) = {}
  BY <1>5, <1>6
<1>8. ASSUME NEW i \in 1 .. Len(toks)
      PROVE  Cardinality(Said(diags, "lexer", {i})) = IF i <= 2 /\ toks[i] \in LexErrors THEN 1 ELSE 0
  <2> DEFINE s == Said(diags, "lexer", {i})
  <2>1. i \in Nat /\ i >= 1 /\ TokenAt(toks, i) = toks[i]
    BY <1>2 DEF TokenAt
  <2>2. i = 1 \/ i = 2 \/ ~ (i <= 2)
    BY <2>1
  <2>3. i <= 2 /\ toks[i] \in LexErrors <=> i \in bad
    BY <1>3, <2>1, <2>2 DEF Tok
  <2>4. s = IF i \in bad THEN (IF diags = d3 /\ i = 2 THEN {2} ELSE {1}) ELSE {}
    <3>0. (1 \in {i} <=> i = 1) /\ (2 \in {i} <=> i = 2) /\ 1 # 2
      OBVIOUS
    <3>1. CASE bad = {} /\ diags = d0
      BY <1>5, <3>1
    <3>2. CASE bad = {1} /\ diags = d1
      <4>1. s = IF i = 1 THEN {1} ELSE {}
        BY <1>5, <3>0, <3>2
      <4> QED BY <3>0, <3>2, <4>1
    <3>3. CASE bad = {2} /\ diags = d2
      <4>1. s = IF i = 2 THEN {1} ELSE {}
        BY <1>5, <3>0, <3>3
      <4>2. diags # d3
        <5>1. Said(d2, "lexer", {1, 2}) = {1} /\ Said(d3, "lexer", {1, 2}) = {1, 2}
          BY <1>5
        <5> QED BY <3>3, <5>1
      <4> QED BY <3>0, <3>3, <4>1, <4>2
    <3>4. CASE bad = {1, 2} /\ diags = d3
      <4>1. s = (IF i = 1 THEN {1} ELSE {}) \cup (IF i = 2 THEN {2} ELSE {})
        BY <1>5, <3>0, <3>4
      <4> QED BY <3>0, <3>4, <4>1
    <3> QED BY <1>6, <3>1, <3>2, <3>3, <3>4
  <2>5. Cardinality({}) = 0 /\ Cardinality({1}) = 1 /\ Cardinality({2}) = 1
    BY FS_EmptySet, FS_Singleton
  <2> HIDE DEF s
  <2>6. Cardinality(s) = IF i \in bad THEN 1 ELSE 0
    BY <2>4, <2>5
  <2> QED BY <2>3, <2>6 DEF s
<1> QED BY <1>7, <1>8

\* Nothing is wrong yet with the first line.
LEMMA ErrorInit ==
  ASSUME Init PROVE ErrorInv
<1>1. Typed /\ cur = 1 /\ at = "line" /\ result = "running" /\ hadError = FALSE
  BY TypedInit DEF Init
<1>2. ASSUME ~ fatal PROVE ReportsOK /\ LexFair /\ LinesFair
  <2>1. /\ \A S : Said(diags, "parser", S) = {}
        /\ \A i \in 1 .. Len(toks) :
             Cardinality(Said(diags, "lexer", {i})) = IF i <= 2 /\ toks[i] \in LexErrors THEN 1 ELSE 0
    BY <1>2, FirstReports
  <2>2. ReportsOK
    BY <1>1, <2>1 DEF ReportsOK
  <2>3. LexFair
    <3>1. cur + 1 = 2
      BY <1>1
    <3> QED BY <2>1, <3>1 DEF LexFair
  <2>4. Here = 1 /\ toks \in Seq(Tokens) /\ Len(toks) \in Nat /\ 1 \in 1 .. Len(toks) + 1
    BY <1>1, ShapeIs DEF Here, Typed, Shaped
  <2>5. ASSUME NEW i \in LineStarts
        PROVE  ~ (Reader!EndOf(i) < Here) /\ (Reaches(i, Here) => LineSoFar(diags, i))
    <3>1. i \in 1 .. Len(toks) + 1 /\ Reader!EndOf(i) \in i .. Len(toks) + 1
      BY <2>4, LinePlace
    <3> DEFINE e == Reader!EndOf(i)
    <3>2. i \in Nat /\ i >= 1 /\ e \in Nat /\ e >= 1
      BY <2>4, <3>1
    <3> HIDE DEF e
    <3>3. ~ (e < 1) /\ (i <= 1 => i = 1)
      BY <3>2
    <3>4. Reaches(i, Here) => i = cur
      BY <1>1, <2>4, <3>3 DEF Reaches
    <3>5. Clean(diags, i)
      BY <2>1 DEF Clean
    <3> QED BY <1>1, <2>4, <3>3, <3>4, <3>5 DEF LineSoFar, GivenUp, e
  <2> QED BY <2>2, <2>3, <2>5 DEF LinesFair
<1> QED BY <1>1, <1>2 DEF ErrorInv

\* A source parsed to its end has one error for every line that cannot be read.
LEMMA ErrorsAre ==
  ASSUME Typed, ErrorInv
  PROVE  ErrorsPerLine
<1> SUFFICES ASSUME result = "ok" PROVE
      /\ \A i \in DOMAIN toks :
           Cardinality(Reports("lexer", {i})) = IF toks[i] \in LexErrors THEN 1 ELSE 0
      /\ \A i \in LineStarts :
           LET e    == Reader!EndOf(i)
               big  == {k \in i .. e : Tok(k) = "big"}
               errs == Cardinality(Reports("parser", (i .. e) \ big))
           IN IF BadLine(i)
              THEN /\ errs <= 1
                   /\ ~Reader!Departs(Body(i)) =>
                        (big = {} => errs = 1) /\ Reports("parser", i .. e) # {}
              ELSE errs = 0
      /\ hadError = (Reports("parser", 1 .. Len(toks) + 1) # {})
  BY DEF ErrorsPerLine
<1>1. ReportsOK /\ LexFair /\ LinesFair
  BY DEF ErrorInv
<1>2. at = "line" /\ Cur = "eof" /\ Here = cur
  BY <1>1 DEF ReportsOK, Here
<1>3. toks \in Seq(Tokens) /\ Len(toks) \in Nat /\ DOMAIN toks = 1 .. Len(toks) /\ cur \in 1 .. Len(toks) + 1
  BY ShapeIs DEF Typed, Shaped
<1>4. cur = Len(toks) + 1 /\ cur \in Nat
  BY <1>2, <1>3, ShapeIs DEF Typed
<1>5. \A who, S : Reports(who, S) = Said(diags, who, S)
  BY DEF Reports, Said
<1>6. ASSUME NEW i \in DOMAIN toks
      PROVE  Cardinality(Reports("lexer", {i})) = IF toks[i] \in LexErrors THEN 1 ELSE 0
  <2>1. i \in 1 .. Len(toks) /\ i <= cur + 1
    BY <1>3, <1>4
  <2> QED BY <1>1, <1>5, <2>1 DEF LexFair
<1>7. ASSUME NEW i \in LineStarts PROVE Fair(diags, i)
  <2>1. /\ i \in 1 .. Len(toks) + 1
        /\ Reader!EndOf(i) < cur \/ Reaches(i, cur) \/ cur < i
    BY <1>3, LinePlace
  <2>2. ~ (cur < i)
    BY <1>3, <1>4, <2>1
  <2>3. CASE Reader!EndOf(i) < cur
    BY <1>1, <1>2, <2>3 DEF LinesFair
  <2>4. CASE Reaches(i, cur)
    <3>1. LineSoFar(diags, i)
      BY <1>1, <1>2, <2>4 DEF LinesFair
    <3>2. Fair(diags, i) \/ (Body(i) = Body(cur) /\ Clean(diags, i))
      BY <1>2, <3>1 DEF LineSoFar, GivenUp
    <3>3. TokenAt(toks, cur) \in LineEnd /\ Tok(cur) \in LineEnd
      BY <1>2 DEF Cur, Tok, LineEnd
    <3>4. Body(cur) = cur
      BY <1>3, <3>3, BodyHere
    <3> QED BY <3>2, <3>3, <3>4 DEF Fair, LaxBad
  <2> QED BY <2>1, <2>2, <2>3, <2>4
<1>8. ASSUME NEW i \in LineStarts
      PROVE  LET e    == Reader!EndOf(i)
                 big  == {k \in i .. e : Tok(k) = "big"}
                 errs == Cardinality(Reports("parser", (i .. e) \ big))
             IN IF BadLine(i)
                THEN /\ errs <= 1
                     /\ ~Reader!Departs(Body(i)) =>
                          (big = {} => errs = 1) /\ Reports("parser", i .. e) # {}
                ELSE errs = 0
  <2>1. Clean(diags, i) => Cardinality(Said(diags, "parser", LineOn(i) \ Bigs(i))) = 0
    <3>1. Cardinality({}) = 0
      BY FS_EmptySet
    <3> QED BY <3>1, Zenon DEF Clean
  <2>2. Fair(diags, i)
    BY <1>7
  <2>3. (LaxBad(i) => BadLine(i)) /\ (BadLine(i) => LaxBad(i) \/ Reader!Departs(Body(i)))
    BY LineRuled, Zenon DEF LaxBad, BadLine
  <2>4. IF LaxBad(i) THEN Faulty(diags, i) ELSE Cardinality(Said(diags, "parser", LineOn(i) \ Bigs(i))) = 0
    BY <2>1, <2>2 DEF Fair
  <2> QED BY <1>5, <2>3, <2>4 DEF Faulty, Bigs, LineOn
<1>9. hadError = (Reports("parser", 1 .. Len(toks) + 1) # {})
  <2>1. hadError \in BOOLEAN /\ (hadError <=> Said(diags, "parser", Nat) # {})
    BY <1>1 DEF Typed, Shaped, ReportsOK
  <2>2. Said(diags, "parser", Nat) = Said(diags, "parser", Nat \ (1 .. cur)) \cup Said(diags, "parser", 1 .. cur)
    BY DEF Said
  <2>3. Said(diags, "parser", Nat \ (1 .. cur)) = {} /\ 1 .. cur = 1 .. Len(toks) + 1
    BY <1>1, <1>4 DEF ReportsOK
  <2>4. hadError <=> Reports("parser", 1 .. Len(toks) + 1) # {}
    BY <1>5, <2>1, <2>2, <2>3
  <2> QED BY <2>1, <2>4
<1> QED BY <1>6, <1>8, <1>9

\* The errors known between two statements hold in every state.
LEMMA ErrorsAlways == Spec => []ErrorInv
<1>1. Init => ErrorInv
  BY ErrorInit
<1>2. Typed /\ Typed' /\ Followed /\ ErrorInv /\ [Next]_vars => ErrorInv'
  BY ErrorNext
<1> QED BY <1>1, <1>2, TypedAlways, FollowedAlways, PTL DEF Spec

\* A source parsed to its end has one error of the scanner for every token that
\* has one, no error of the parser on a line that can be read, except about an
\* integer that is out of range, and on every other line at least one, of which
\* at most one is not about such an integer; without one it is exactly one.  That
\* there is one is said of lines that do not depart from the two rules not enforced.
THEOREM ParserReportsLines == Spec => []ErrorsPerLine
<1>1. Typed /\ ErrorInv => ErrorsPerLine
  BY ErrorsAre
<1> QED BY <1>1, TypedAlways, ErrorsAlways, PTL
=============================================================================
