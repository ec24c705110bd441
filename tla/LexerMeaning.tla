---------------------------- MODULE LexerMeaning ----------------------------
(***************************************************************************)
(* What a token is, said of its span in the source and not of the scanner. *)
(***************************************************************************)
EXTENDS Lexer, StringDecode

Span(from, end) == {text[o + 1] : o \in from .. end - 1}

\* How many backslashes stand directly before offset o, not counting before from.
BackslashesBefore(from, o) ==
  o - (CHOOSE q \in from .. o :
         /\ \A j \in q .. o - 1 : At(j) = "backslash"
         /\ q = from \/ At(q - 1) # "backslash")

Escaped(from, o) == BackslashesBefore(from, o) % 2 = 1

IsWord(from, end) ==
  from < end /\ At(from) \in Letters /\ Span(from, end) \subseteq IdentCont
  /\ At(end) \notin IdentCont

PrefixBase(from) ==
  CASE At(from + 1) = "x" -> 16 [] At(from + 1) = "b" -> 2 [] At(from + 1) = "o" -> 8 [] OTHER -> 0

\* Where a literal's digits start, and its base, for every way to read it.
Readings(from) ==
  {<<from, 10>>} \cup IF At(from) = "0" /\ PrefixBase(from) # 0
                      THEN {<<from + 2, PrefixBase(from)>>} ELSE {}

IsNumber(from, end, r) ==
  r[1] < end /\ Span(r[1], end) \subseteq {c \in IdentCont : Weight[c] < r[2]}
  /\ At(end) \notin IdentCont

\* The number the digits spell: from the right, each counts the base times as
\* much as the one behind it.
Value(end, r) ==
  LET behind[o \in r[1] .. end] ==
        IF o = end THEN [sum |-> 0, unit |-> 1]
        ELSE LET b == behind[o + 1]
             IN [sum |-> b.sum + Weight[text[o + 1]] * b.unit, unit |-> r[2] * b.unit]
  IN behind[r[1]].sum

IsString(from, end) ==
  /\ end >= from + 2 /\ At(from) = "quote" /\ At(end - 1) = "quote"
  /\ "nl" \notin Span(from, end)
  /\ ~Escaped(from + 1, end - 1)
  /\ \A o \in from + 1 .. end - 2 : At(o) = "quote" => Escaped(from + 1, o)

IsLexeme(kind, from, end) ==
  CASE kind = "identifier"  -> IsWord(from, end)
    [] kind = "directive"   -> At(from) = "." /\ IsWord(from + 1, end)
    [] kind = "integer"     -> \E r \in Readings(from) : IsNumber(from, end, r)
    [] kind = "string"      -> IsString(from, end)
    [] kind = "newline"     -> end = from + 1 /\ At(from) = "nl"
    [] kind = "punctuation" -> end = from + 1 /\ At(from) \in Punctuation
    [] kind = "eof"         -> end = from /\ from = Len(text)

LexemeKinds == {"identifier", "directive", "integer", "string", "newline", "punctuation", "eof"}

TokEnd == tok.off + tok.len

\* Nothing but blanks and one comment between two tokens, the comment whole.
IsGap(from, end) ==
  \E q \in from .. end :
    /\ Span(from, q) \subseteq Blanks
    /\ q < end => /\ At(q) = "semicolon" /\ "nl" \notin Span(q, end) /\ At(end) \in {"nl", "end"}

\* A literal fits when some reading of it does.
LiteralFits(from, end) == \E r \in Readings(from) : IsNumber(from, end, r) /\ Value(end, r) <= UMax

\* From offset o on the text is tokens, blanks and comments, and its literals fit.
WellFormedFrom(o) ==
  LET from[p \in 0 .. Len(text)] ==
        \E s \in p .. Len(text) :
          /\ IsGap(p, s) /\ At(s) \notin Blanks \cup {"semicolon"}
          /\ \/ At(s) = "end"
             \/ \E kind \in LexemeKinds \ {"eof"}, e \in s + 1 .. Len(text) :
                  IsLexeme(kind, s, e) /\ (kind = "integer" => LiteralFits(s, e)) /\ from[e]
  IN from[o]

WellFormed == WellFormedFrom(0)

-----------------------------------------------------------------------------
(* Properties of every token. *)

\* A token's span is a lexeme of the token's kind, and an error token starts
\* where no lexeme does and takes the rest of its number or line with it
\* (lexer.c:203, 239).
Lexemes ==
  /\ tok.kind \in LexemeKinds => IsLexeme(tok.kind, tok.off, TokEnd)
  /\ tok.kind = "error" =>
       /\ \A kind \in LexemeKinds, e \in tok.off .. Len(text) : ~IsLexeme(kind, tok.off, e)
       /\ At(tok.off) \in Digits => At(TokEnd) \notin IdentCont
       /\ At(tok.off) = "quote" => At(TokEnd) \in {"nl", "end"}

\* The counters kept byte by byte and the line index built beforehand give a
\* token the same line and column (lexer.c:71, source.c:184).
LocationsAgree ==
  tok.kind # "none" => [line |-> tok.line, column |-> tok.column] = Location(text, tok.off)

\* A literal has the value its digits spell, or is flagged and clamped when
\* that does not fit (lexer.c:190).
LiteralsExact ==
  tok.kind = "integer" =>
    \E r \in Readings(tok.off) :
      /\ IsNumber(tok.off, TokEnd, r)
      /\ tok.overflow = (Value(TokEnd, r) > UMax)
      /\ tok.value = IF tok.overflow THEN UMax ELSE Value(TokEnd, r)

\* A token is what its span says it is, in kind, extent and value, with the
\* longest match taken and an error only where nothing matches (lexer.c:293).
TokensCorrect == Lexemes /\ LiteralsExact

\* The marks under a diagnostic stand below its span, as far as the span is
\* visible on its line (diag.c:162, source.c:216).
MarksUnderSpan ==
  \A k \in DOMAIN diags :
    LET d    == diags[k]
        line == LineText(text, Location(text, d.off).line)
    IN Marks(text, d.off, d.len) = (d.off .. d.off + d.len - 1) \cap (line.from .. line.end - 1)

\* A place in the text is the same place to the scanner, to the line index and
\* to the reader of a diagnostic.
PositionsAgree == LocationsAgree /\ MarksUnderSpan

\* The escapes of a string token and the bytes they take beyond the backslash.
Escapes(from, end) == {i \in from .. end - 1 : At(i) = "backslash" /\ ~Escaped(from, i)}

Taken(i, end) ==
  {j \in i + 1 .. end - 1 :
     \/ j = i + 1
     \/ At(i + 1) = "x" /\ Span(i + 2, j + 1) \subseteq HexDigits
     \/ j <= i + 3 /\ Span(i + 1, j + 1) \subseteq OctalDigits}

Empty(i, end) == At(i + 1) = "x" /\ Taken(i, end) = {i + 1}

\* What the scanner accepts as a string the decoder reads without passing the
\* closing quote, one byte per plain byte or escape (strdec.c:47).
StringsDecode ==
  tok.kind = "string" =>
    LET from == tok.off + 1
        end  == TokEnd - 1
        got  == Decode(text, tok.off, tok.len)
        escs == Escapes(from, end)
    IN /\ got.inside
       /\ got.bytes = (end - from) - Cardinality(UNION {Taken(i, end) : i \in escs})
                      - Cardinality({i \in escs : Empty(i, end)})
=============================================================================
