----------------------------- MODULE SourceText -----------------------------
(***************************************************************************)
(* A source buffer: its line index and the lookups in it (source/source.c) *)
(* and the line of marks printed under a diagnostic (diag/diag.c).         *)
(*                                                                         *)
(* A text is a sequence of byte classes, "nl" being the newline and "cr"   *)
(* the carriage return.  Offsets count from 0 as in the code: the byte at  *)
(* offset o is t[o + 1].                                                   *)
(***************************************************************************)
EXTENDS Integers, SequencesExt

ByteAt(t, o) == IF o < Len(t) THEN t[o + 1] ELSE "end"

\* build_line_starts: offset 0, and every offset behind a newline.
LineStarts(t) ==
  LET starts[o \in 0 .. Len(t)] ==
        IF o = 0 THEN <<0>>
        ELSE LET before == starts[o - 1]
             IN IF t[o] = "nl" THEN Append(before, o) ELSE before
  IN starts[Len(t)]

\* Fault: the lower bound, which takes a line's first byte for the line before.
LowerBound(starts, offset) ==
  LET n == Len(starts)
      find[i \in (0 .. n) \X (0 .. n)] ==   \* i is <<lo, hi>>
        IF i[1] >= i[2] THEN i[1]
        ELSE LET mid == i[1] + (i[2] - i[1]) \div 2
             IN IF starts[mid + 1] < offset THEN find[<<mid + 1, i[2]>>] ELSE find[<<i[1], mid>>]
  IN IF find[<<0, n>>] = 0 THEN 1 ELSE find[<<0, n>>]

\* The number of line starts at or before offset, by binary search.
UpperBound(starts, offset) ==
  LET n == Len(starts)
      find[i \in (0 .. n) \X (0 .. n)] ==   \* i is <<lo, hi>>
        IF i[1] >= i[2] THEN i[1]
        ELSE LET mid == i[1] + (i[2] - i[1]) \div 2
             IN IF starts[mid + 1] <= offset THEN find[<<mid + 1, i[2]>>] ELSE find[<<i[1], mid>>]
  IN find[<<0, n>>]

\* qas_source_location: line and column, from 1; beyond the end is the end.
Location(t, offset) ==
  LET o    == IF offset > Len(t) THEN Len(t) ELSE offset
      line == UpperBound(LineStarts(t), o)
  IN [line |-> line, column |-> o - LineStarts(t)[line] + 1]

\* qas_source_line_text: the line's bytes without its trailing "nl" and "cr",
\* as the offset of the first and the offset behind the last.
LineText(t, line) ==
  LET starts == LineStarts(t)
      from   == starts[line]
      behind == IF line < Len(starts) THEN starts[line + 1] ELSE Len(t)
      cut[e \in from .. behind] ==
        IF e > from /\ t[e] \in {"nl", "cr"} THEN cut[e - 1] ELSE e
  IN [from |-> from, end |-> cut[behind]]

\* Fault: the underline is not clipped to the line.
MarksUnclipped(t, offset, length) ==
  offset .. offset + length - 1

\* print_caret for a span: the offsets that stand above a '^' or a '~'.  The
\* indentation stops at the end of the line, the underline never passes it.
Marks(t, offset, length) ==
  LET at        == Location(t, offset)
      line      == LineText(t, at.line)
      width     == line.end - line.from
      caret     == IF at.column - 1 < width THEN at.column - 1 ELSE width
      remaining == IF length > 1 THEN length - 1 ELSE 0
      available == IF at.column < width THEN width - at.column ELSE 0
      under     == IF remaining > available THEN available ELSE remaining
  IN line.from + caret .. line.from + caret + under
=============================================================================
