--------------------------- MODULE ParserMeaning ---------------------------
(***************************************************************************)
(* What the parser promises: the statements and the errors of a source,    *)
(* judged by the grammar of whole lines.                                   *)
(***************************************************************************)
EXTENDS Parser, FiniteSets

TypeOK ==
  /\ cur \in 1 .. Len(toks) + 1 /\ from \in 1 .. cur
  /\ parts \in Seq([kind : {"int", "str", "symbol", "reg", "imm", "mem"},
                    name : Idents \cup {"", "str"}, value : 0 .. Word - 1,
                    mem : [base : 0 .. None, index : 0 .. 15 \cup {None}, scale : {0, 1, 2, 4, 8},
                           symbol : BOOLEAN, disp : 0 .. Word - 1],
                    sized : BOOLEAN, from : Nat, to : Nat])
  /\ hadError \in BOOLEAN /\ fatal \in BOOLEAN /\ result \in {"running", "ok", "oom"}
  /\ num.reg \in 0 .. None /\ num.scale \in 0 .. Word - 1
  /\ \A k \in DOMAIN stmts : Len(stmts[k].parts) <= Len(toks)

\* Between statements the parser has read up to the current token, inside one
\* up to where the statement began.
Reader == INSTANCE Syntax
            WITH done   <- IF fatal \/ result = "oom" THEN 0 ELSE IF at = "line" THEN cur ELSE from,
                 result <- IF fatal THEN "oom" ELSE result

\* Step by step the parser produces the statements the lines mean, each with
\* its parts, their values and their spans, and passes over a line it cannot
\* read and nothing else: the line after a mistake is read as if there had
\* been none, and a failure leaves what was parsed so far (parser.c:92,
\* parser.h:74).  The lines are judged by the documented rules; the hypothesis
\* is that a line keeps the two of them the parser does not enforce, and what a
\* line that departs from those is taken as is left open (TakeUnruled).
ImplementsSyntax ==
  Reader!SynInit /\ [][Reader!SynNext \/ Reader!TakeUnruled]_(Reader!synVars)

-----------------------------------------------------------------------------
(* Errors. *)

\* Where the statement behind the labels of a line begins.
Body(i) == LET body[k \in 1 .. Len(toks) + 2] == IF Reader!IsLabel(k) THEN body[k + 2] ELSE k
           IN body[i]

LineStarts == {1} \cup {k + 1 : k \in {j \in DOMAIN toks : toks[j] = "nl"}}

BadLine(i) == LET b == Body(i) IN ~(Tok(b) \in LineEnd \/ Reader!GoodLine(b))

Reports(who, S) == {k \in DOMAIN diags : diags[k].by = who /\ diags[k].tok \in S}

\* A source parsed to its end has one error of the scanner for every token that
\* has one, no error of the parser on a line that can be read, except about an
\* integer that is out of range, and on every other line at least one, of which
\* at most one is not about such an integer (parser.c:83, parser.h:72).  That a
\* line against the rules has an error at all is said under the hypothesis of
\* ImplementsSyntax: it does not depart from the two rules not enforced.
ErrorsPerLine ==
  result = "ok" =>
    /\ \A i \in DOMAIN toks :
         Cardinality(Reports("lexer", {i})) = IF toks[i] \in LexErrors THEN 1 ELSE 0
    /\ \A i \in LineStarts :
         LET e    == Reader!EndOf(i)
             big  == {k \in i .. e : Tok(k) = "big"}
             errs == Cardinality(Reports("parser", (i .. e) \ big))
         IN IF BadLine(i)
            THEN /\ errs <= 1
                 /\ ~Reader!Departs(Body(i)) =>
                      (big = {} => errs = 1) /\ Reports("parser", i .. e) # {}
            ELSE errs = 0
    /\ hadError = (Reports("parser", 1 .. Len(toks) + 1) # {})

\* The parser always returns (parser.c:94, 593).
Terminates == <>(result # "running")
=============================================================================
