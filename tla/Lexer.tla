------------------------------- MODULE Lexer -------------------------------
(***************************************************************************)
(* The scanner (lexer/lexer.c): one action per kind of token that a call   *)
(* of qas_lexer_next produces, each with the blanks and the comment it     *)
(* skips first.                                                            *)
(*                                                                         *)
(* Bytes are classes: the digits "0", "1" and "9", the letters "x", "b"    *)
(* and "o" that mark a base ("b" is also the hexadecimal digit 11), "g"    *)
(* for every other letter and the underscore, the newline "nl", "cr" and   *)
(* "sp", the characters named by themselves, and "?" for a byte no token   *)
(* starts with.                                                            *)
(***************************************************************************)
EXTENDS SourceText

CONSTANTS
  UMax,          \* UINT64_MAX, scaled down
  AllocMayFail   \* whether a diagnostic may find no memory

Digits      == {"0", "1", "9"}
Letters     == {"x", "b", "o", "g"}
IdentCont   == Letters \cup Digits
Punctuation == {",", "[", "]", "+", "-", "*", ":"}
Blanks      == {"sp", "cr"}
Bytes       == IdentCont \cup Punctuation \cup Blanks
               \cup {"nl", "quote", "backslash", ".", "semicolon", "?"}

ASSUME LexerAssumption ==
  UMax \in Nat /\ UMax > 15 /\ AllocMayFail \in BOOLEAN

VARIABLES
  text,      \* the source being scanned
  pos,       \* offset of the next byte
  place,     \* the counters: line and column of pos
  tok,       \* the token produced last
  hadError,  \* qas_lexer.had_error
  diags,     \* spans of the diagnostics recorded
  status     \* "ok", or "oom" once a diagnostic was lost

lexVars == <<text, pos, place, tok, hadError, diags, status>>

At(o) == ByteAt(text, o)

\* The first offset from o on whose byte is not in S, and is in S.
Past(o, S)  == CHOOSE q \in o .. Len(text) : At(q) \notin S /\ \A j \in o .. q - 1 : At(j) \in S
Until(o, S) == Past(o, Bytes \ S)

\* Fault: the column is not reset at a newline.
StepNoReset(at, byte) ==
  [line |-> at.line + IF byte = "nl" THEN 1 ELSE 0, column |-> at.column + 1]

\* Fault: a carriage return counts as a line as well.
StepAtReturn(at, byte) ==
  IF byte \in {"nl", "cr"} THEN [line |-> at.line + 1, column |-> 1]
                           ELSE [line |-> at.line, column |-> at.column + 1]

\* lexer_advance over one byte, and over all bytes from pos to an offset.
Step(at, byte) ==
  IF byte = "nl" THEN [line |-> at.line + 1, column |-> 1]
                 ELSE [line |-> at.line, column |-> at.column + 1]

PlaceAt(q) ==
  LET at[o \in pos .. q] == IF o = pos THEN place ELSE Step(at[o - 1], text[o]) IN at[q]

\* Fault: a comment swallows the newline that ends it.
StartPastNewline ==
  LET q == Past(pos, Blanks)
  IN IF At(q) # "semicolon" THEN q
     ELSE IF At(Until(q, {"nl"})) = "nl" THEN Past(Until(q, {"nl"}) + 1, Blanks) ELSE Len(text)

\* Where the next token starts: a comment runs to the end of its line, where a
\* newline or the end follows.
Start ==
  LET q == Past(pos, Blanks) IN IF At(q) = "semicolon" THEN Until(q, {"nl"}) ELSE q

\* token_set, with the counters moved to the token's end.
Produce(kind, end) ==
  /\ tok' = [kind |-> kind, off |-> Start, len |-> end - Start, value |-> 0, overflow |-> FALSE,
             line |-> PlaceAt(Start).line, column |-> PlaceAt(Start).column]
  /\ pos' = end /\ place' = PlaceAt(end)
  /\ UNCHANGED text

Silent == UNCHANGED <<hadError, diags, status>>

\* qas_diag_emitv on the token's span.
Report(end) ==
  /\ hadError' = TRUE
  /\ \/ diags' = Append(diags, [off |-> Start, len |-> end - Start]) /\ UNCHANGED status
     \/ AllocMayFail /\ status' = "oom" /\ UNCHANGED diags

\* lexer_error.
Reject(end) == Produce("error", end) /\ Report(end)

-----------------------------------------------------------------------------

LexEof == At(Start) = "end" /\ Produce("eof", Start) /\ Silent

LexNewline == At(Start) = "nl" /\ Produce("newline", Start + 1) /\ Silent

LexPunctuation ==
  At(Start) \in Punctuation /\ Produce("punctuation", Start + 1) /\ Silent

LexIdentifier ==
  At(Start) \in Letters /\ Produce("identifier", Past(Start, IdentCont)) /\ Silent

LexDirective ==
  /\ At(Start) = "." /\ At(Start + 1) \in Letters
  /\ Produce("directive", Past(Start + 1, IdentCont)) /\ Silent

LexUnexpected ==
  /\ At(Start) \in {"?", "backslash", "."}
  /\ At(Start) = "." => At(Start + 1) \notin Letters
  /\ Reject(Start + 1)

Unclosed(q) == [end |-> q, closed |-> FALSE]

\* Fault: the byte after a backslash is not skipped.
StringEndNoEscape(o) ==
  LET q == Until(o + 1, {"quote", "nl"})
  IN [end |-> IF At(q) = "quote" THEN q + 1 ELSE q, closed |-> At(q) = "quote"]

\* lexer_lex_string: the offset behind a string's end and whether a quote ends it.
StringEnd(o) ==
  LET scan[q \in 0 .. Len(text) + 1] ==
        CASE At(q) \in {"end", "nl"} -> Unclosed(q)
          [] At(q) = "quote"         -> [end |-> q + 1, closed |-> TRUE]
          [] At(q) = "backslash"     -> IF At(q + 1) \in {"end", "nl"}
                                        THEN Unclosed(q + 1) ELSE scan[q + 2]
          [] OTHER                   -> scan[q + 1]
  IN scan[o + 1]

LexString ==
  /\ At(Start) = "quote"
  /\ LET s == StringEnd(Start)
     IN IF s.closed THEN Produce("string", s.end) /\ Silent ELSE Reject(s.end)

-----------------------------------------------------------------------------
(* Numbers. *)

Weight == [c \in IdentCont |->
             CASE c = "0" -> 0 [] c = "1" -> 1 [] c = "9" -> 9 [] c = "b" -> 11
               [] c = "g" -> 16 [] c = "o" -> 24 [] c = "x" -> 33]

DigitsOf(base) == {c \in IdentCont : Weight[c] < base}

Base(o) ==
  IF At(o) # "0" THEN 10
  ELSE CASE At(o + 1) = "x" -> 16 [] At(o + 1) = "b" -> 2 [] At(o + 1) = "o" -> 8 [] OTHER -> 10

DigitStart(o) == IF Base(o) = 10 THEN o ELSE o + 2

\* Fault: the new digit is left out of the overflow test.
AccumulateLoose(acc, digit, base) ==
  IF acc.value > UMax \div base
  THEN [acc EXCEPT !.overflow = TRUE] ELSE [acc EXCEPT !.value = @ * base + digit]

\* One digit more, unless the value would pass UMax.
Accumulate(acc, digit, base) ==
  IF acc.value > (UMax - digit) \div base
  THEN [acc EXCEPT !.overflow = TRUE] ELSE [acc EXCEPT !.value = @ * base + digit]

Literal(from, end, base) ==
  LET acc[o \in from .. end] ==
        IF o = from THEN [value |-> 0, overflow |-> FALSE]
                    ELSE Accumulate(acc[o - 1], Weight[text[o]], base)
  IN acc[end]

LexNumber ==
  /\ At(Start) \in Digits
  /\ LET base == Base(Start)
         from == DigitStart(Start)
         end  == Past(from, DigitsOf(base))
         lit  == Literal(from, end, base)
     IN IF end = from \/ At(end) \in IdentCont
        THEN Reject(Past(end, IdentCont))
        ELSE /\ pos' = end /\ place' = PlaceAt(end) /\ UNCHANGED text
             /\ tok' = [kind |-> "integer", off |-> Start, len |-> end - Start,
                        value |-> IF lit.overflow THEN UMax ELSE lit.value,
                        overflow |-> lit.overflow,
                        line |-> PlaceAt(Start).line, column |-> PlaceAt(Start).column]
             /\ IF lit.overflow THEN Report(end) ELSE Silent

-----------------------------------------------------------------------------

NoToken == [kind |-> "none", off |-> 0, len |-> 0, value |-> 0, overflow |-> FALSE,
            line |-> 1, column |-> 1]

\* qas_lexer_init on a text.
LexInit(t) ==
  /\ text = t /\ pos = 0 /\ place = [line |-> 1, column |-> 1] /\ tok = NoToken
  /\ hadError = FALSE /\ diags = <<>> /\ status = "ok"

LexNext ==
  \/ LexEof \/ LexNewline \/ LexPunctuation \/ LexIdentifier \/ LexDirective
  \/ LexUnexpected \/ LexString \/ LexNumber
=============================================================================
