---------------------------- MODULE TokenStream ----------------------------
(***************************************************************************)
(* What the scanner promises the parser: tokens in the order of the        *)
(* source, none overlapping another, each on the line counted by the       *)
(* newline tokens before it, ending in an end-of-file token that is then   *)
(* repeated.                                                               *)
(***************************************************************************)
EXTENDS Integers

VARIABLE tok    \* the token produced last: kind, off, len and line

Kinds == {"identifier", "directive", "integer", "string", "error", "newline",
          "punctuation", "eof"}

Token == [kind : Kinds \cup {"none"}, off : Nat, len : Nat, line : Nat]

NoToken == [kind |-> "none", off |-> 0, len |-> 0, line |-> 1]

Init == tok = NoToken

Produce ==
  /\ tok.kind # "eof"
  /\ tok' \in Token
  /\ tok'.kind \in Kinds
  /\ tok'.off >= tok.off + tok.len
  /\ tok'.line = tok.line + IF tok.kind = "newline" THEN 1 ELSE 0
  /\ IF tok'.kind = "eof" THEN tok'.len = 0 ELSE tok'.len > 0

Next == Produce

Spec == Init /\ [][Next]_tok
=============================================================================
