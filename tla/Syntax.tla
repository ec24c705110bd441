------------------------------- MODULE Syntax -------------------------------
(***************************************************************************)
(* The source language line by line: what each line means, said of its     *)
(* tokens as a whole (the grammar at the head of parser/parser.c), and a   *)
(* reader that takes labels and lines one after the other.                 *)
(***************************************************************************)
EXTENDS SyntaxTokens, FiniteSets

CONSTANT MaxOperands   \* QAS_MAX_OPERANDS

VARIABLES
  toks,     \* the tokens of the source, without the end of file
  done,     \* index of the first token not read yet, 0 once memory ran out
  stmts,    \* the statements read
  result    \* "running", "ok" or "oom"

synVars == <<toks, done, stmts, result>>

Tok(i) == TokenAt(toks, i)

-----------------------------------------------------------------------------
(* Integers, arguments and operands, as sequences of tokens. *)

IsInt(s)  == Len(s) \in 1 .. 2 /\ s[Len(s)] \in Literals /\ (Len(s) = 2 => s[1] \in Signs)
IntOf(s)  == IF s[1] = "-" THEN -Value[s[2]] % Word ELSE Value[s[Len(s)]]

\* The n-th place of S; its only one.
Nth(S, n)  == CHOOSE k \in S : Cardinality({j \in S : j < k}) = n - 1
Only(S)    == CHOOSE k \in S : TRUE

\* The parts of a sequence of tokens between the places where it is cut.
Cut(s, at) ==
  LET from(n) == IF n = 1 THEN 1 ELSE Nth(at, n - 1)
      to(n)   == IF n > Cardinality(at) THEN Len(s) ELSE Nth(at, n) - 1
  IN [n \in 1 .. Cardinality(at) + 1 |-> [from |-> from(n), to |-> to(n)]]

\* The terms between brackets: a sign starts a term, but not the sign of a scale.
TermStarts(s) == {k \in 2 .. Len(s) : s[k] \in Signs /\ s[k - 1] # "*"}

TermOf(s) ==
  LET signed == s # <<>> /\ s[1] \in Signs
  IN [minus |-> signed /\ s[1] = "-", body |-> IF signed THEN Tail(s) ELSE s]

Terms(s) ==
  LET cuts == Cut(s, TermStarts(s))
  IN [n \in DOMAIN cuts |-> TermOf(SubSeq(s, cuts[n].from, cuts[n].to))]

IsPlain(t)   == ~t.minus /\ Len(t.body) = 1 /\ t.body[1] \in Registers
IsSymbol(t)  == ~t.minus /\ Len(t.body) = 1 /\ t.body[1] \in Idents \ Registers
IsDisp(t)    == Len(t.body) = 1 /\ t.body[1] \in Literals
ScaleLast(t) == ~t.minus /\ Len(t.body) > 2 /\ t.body[1] \in Registers /\ t.body[2] = "*"
                /\ IsInt(SubSeq(t.body, 3, Len(t.body)))
ScaleHead(t) == ~t.minus /\ Len(t.body) = 3 /\ t.body[1] \in Literals /\ t.body[2] = "*"
                /\ t.body[3] \in Registers
IsScaled(t)  == ScaleLast(t) \/ ScaleHead(t)
RegOf(t)     == Number[IF ScaleHead(t) THEN t.body[3] ELSE t.body[1]]
ScaleOf(t)   == IF ScaleHead(t) THEN Value[t.body[1]] ELSE IntOf(SubSeq(t.body, 3, Len(t.body)))

CanIndex(r) == r \notin {Number["rsp"], Rip}

Scales == {1, 2, 4, 8}

\* At most a base and an index, written in any order; of two plain registers the
\* second is the index.  rip is legal only as a lone base (parser/README.md:19-21).
AddressOK(ts) ==
  LET plain  == {k \in DOMAIN ts : IsPlain(ts[k])}
      scaled == {k \in DOMAIN ts : IsScaled(ts[k])}
  IN /\ \A k \in DOMAIN ts : IsPlain(ts[k]) \/ IsScaled(ts[k]) \/ IsSymbol(ts[k]) \/ IsDisp(ts[k])
     /\ Cardinality({k \in DOMAIN ts : IsSymbol(ts[k])}) <= 1
     /\ Cardinality(plain) + Cardinality(scaled) <= 2 /\ Cardinality(scaled) <= 1
     /\ \A k \in scaled : CanIndex(RegOf(ts[k])) /\ ScaleOf(ts[k]) \in Scales
     /\ \A k \in plain :
          /\ k # Nth(plain, 1) => CanIndex(RegOf(ts[k]))
          /\ RegOf(ts[k]) = Rip => plain = {k} /\ scaled = {}

AddressOf(ts) ==
  LET plain  == {k \in DOMAIN ts : IsPlain(ts[k])}
      scaled == {k \in DOMAIN ts : IsScaled(ts[k])}
      factor == Only(scaled)
      sum[k \in 0 .. Len(ts)] ==
        IF k = 0 THEN 0
        ELSE sum[k - 1] + (IF ~IsDisp(ts[k]) THEN 0
                           ELSE IF ts[k].minus THEN -Value[ts[k].body[1]]
                                ELSE Value[ts[k].body[1]])
  IN [base   |-> IF plain = {} THEN None ELSE RegOf(ts[Nth(plain, 1)]),
      index  |-> IF scaled # {} THEN RegOf(ts[factor])
                 ELSE IF Cardinality(plain) = 2 THEN RegOf(ts[Nth(plain, 2)]) ELSE None,
      scale  |-> IF scaled # {} THEN ScaleOf(ts[factor])
                 ELSE IF Cardinality(plain) = 2 THEN 1 ELSE 0,
      symbol |-> \E k \in DOMAIN ts : IsSymbol(ts[k]),
      disp   |-> sum[Len(ts)] % Word]

\* The token behind the size prefix of an operand.
Bracket(s) == IF Len(s) > 1 /\ s[1] = "size" /\ s[2] = "ptr" THEN 3
              ELSE IF Len(s) > 0 /\ s[1] = "size" THEN 2
              ELSE 1

Inner(s) == SubSeq(s, Bracket(s) + 1, Len(s) - 1)

Bracketed(s) == Len(s) > Bracket(s) + 1 /\ s[Bracket(s)] = "[" /\ s[Len(s)] = "]"

IsMemory(s) == Bracketed(s) /\ AddressOK(Terms(Inner(s)))

IsName(s, names) == Len(s) > 0 /\ s[1] \in names

IsOperand(s) ==
  \/ IsInt(s) \/ IsMemory(s)
  \/ Len(s) = 1 /\ s[1] \in Registers
  \/ /\ IsName(s, Idents \ (Registers \cup {"size"}))
     /\ Len(s) > 1 => s[2] \in Signs /\ IsInt(Tail(s))

OperandOf(s, from, to) ==
  CASE IsMemory(s) -> Node("mem", "", 0, AddressOf(Terms(Inner(s))), s[1] = "size", from, to)
    [] IsInt(s)    -> Node("imm", "", IntOf(s), EmptyMem, FALSE, from, to)
    [] s[1] \in Registers -> Node("reg", s[1], 0, EmptyMem, FALSE, from, to)
    [] OTHER -> Node("imm", s[1], IF Len(s) = 1 THEN 0 ELSE IntOf(Tail(s)), EmptyMem, FALSE, from, to)

IsArgument(s) == IsInt(s) \/ (Len(s) = 1 /\ s[1] \in Idents \cup {"str"})

ArgumentOf(s, from, to) ==
  IF IsInt(s) THEN Node("int", "", IntOf(s), EmptyMem, FALSE, from, to)
  ELSE Node(IF s[1] = "str" THEN "str" ELSE "symbol", s[1], 0, EmptyMem, FALSE, from, to)

-----------------------------------------------------------------------------
(* Lines. *)

\* The line from token i on ends before token EndOf(i).
EndOf(i) == CHOOSE e \in i .. Len(toks) + 1 :
              Tok(e) \in LineEnd /\ \A k \in i .. e - 1 : Tok(k) \notin LineEnd

After(e) == IF Tok(e) = "nl" THEN e + 1 ELSE e

IsLabel(i) == Tok(i) \in Idents /\ Tok(i + 1) = ":"

LabelOf(i) == Statement("label", Tok(i), <<>>, i, After(i + 2) - 1)

\* The parts of the line between commas: no part at all behind a bare name.
Parts(i) ==
  LET s      == SubSeq(toks, i + 1, EndOf(i) - 1)
      commas == {k \in DOMAIN s : s[k] = ","}
      cuts   == Cut(s, commas)
  IN IF s = <<>> THEN <<>>
     ELSE [n \in DOMAIN cuts |-> [from |-> i + cuts[n].from + (IF n = 1 THEN 0 ELSE 1),
                                  to   |-> i + cuts[n].to]]

Text(part) == SubSeq(toks, part.from, part.to)

GoodLine(i) ==
  LET parts == Parts(i)
  IN \/ Tok(i) = "dir" /\ \A n \in DOMAIN parts : IsArgument(Text(parts[n]))
     \/ /\ Tok(i) \in Idents /\ Len(parts) <= MaxOperands
        /\ \A n \in DOMAIN parts : IsOperand(Text(parts[n]))

LineOf(i) ==
  LET parts == Parts(i)
      isDir == Tok(i) = "dir"
      node(p) == IF isDir THEN ArgumentOf(Text(p), p.from, p.to) ELSE OperandOf(Text(p), p.from, p.to)
  IN Statement(IF isDir THEN "directive" ELSE "instruction", Tok(i),
               [n \in DOMAIN parts |-> node(parts[n])], i, After(EndOf(i)) - 1)

-----------------------------------------------------------------------------
(* The reader.  Memory may run out in any step; what was read stays. *)

Move(to) ==
  \/ done' = to /\ UNCHANGED result
  \/ done' = 0 /\ result' = "oom"

Reading(i) == result = "running" /\ Tok(i) # "eof" /\ UNCHANGED toks

SkipNewline == Reading(done) /\ Tok(done) = "nl" /\ Move(done + 1) /\ UNCHANGED stmts

TakeLabel ==
  /\ Reading(done) /\ IsLabel(done)
  /\ stmts' = Append(stmts, LabelOf(done)) /\ Move(After(done + 2))

TakeLine ==
  /\ Reading(done) /\ ~IsLabel(done) /\ GoodLine(done)
  /\ stmts' = Append(stmts, LineOf(done)) /\ Move(After(EndOf(done)))

SkipLine ==
  /\ Reading(done) /\ Tok(done) # "nl" /\ ~IsLabel(done) /\ ~GoodLine(done)
  /\ Move(After(EndOf(done))) /\ UNCHANGED stmts

OutOfMemory ==
  /\ result = "running" /\ done' = 0 /\ result' = "oom" /\ UNCHANGED <<toks, stmts>>

EndOfTokens ==
  result = "running" /\ Tok(done) = "eof" /\ result' = "ok" /\ UNCHANGED <<toks, done, stmts>>

SynInit ==
  /\ stmts = <<>>
  /\ \/ done = 1 /\ result = "running"
     \/ done = 0 /\ result = "oom"

SynNext ==
  SkipNewline \/ TakeLabel \/ TakeLine \/ SkipLine \/ OutOfMemory \/ EndOfTokens

-----------------------------------------------------------------------------
(* The two rules above that the parser states and does not enforce. *)

\* rip before a scaled index: the test of parser.c:165 is made of plain registers
\* only.  A scale that is one of the four only when cut to a byte (parser.c:201,
\* 243).
Unruled(ts) ==
  \/ \E k, j \in DOMAIN ts :
       k < j /\ IsPlain(ts[k]) /\ RegOf(ts[k]) = Rip /\ IsScaled(ts[j])
  \/ \E k \in DOMAIN ts :
       IsScaled(ts[k]) /\ ScaleOf(ts[k]) \notin Scales /\ Byte(ScaleOf(ts[k])) \in Scales

\* The line from token i on has such an address.
Departs(i) ==
  LET parts == Parts(i)
  IN Tok(i) # "dir" /\ \E n \in DOMAIN parts :
       Bracketed(Text(parts[n])) /\ Unruled(Terms(Inner(Text(parts[n]))))

\* It is taken all the same, as one instruction; of what parts is left open.
TakeUnruled ==
  /\ Reading(done) /\ ~IsLabel(done) /\ ~GoodLine(done) /\ Departs(done)
  /\ Len(stmts') = Len(stmts) + 1
  /\ stmts' = Append(stmts, Statement("instruction", Tok(done), stmts'[Len(stmts')].parts,
                                      done, After(EndOf(done)) - 1))
  /\ Move(After(EndOf(done)))
=============================================================================
