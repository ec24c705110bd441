---------------------------- MODULE SyntaxTokens ----------------------------
(***************************************************************************)
(* The tokens the parser tells apart (token/token.h) and the nodes it      *)
(* builds (ast/ast.h).                                                     *)
(*                                                                         *)
(* A token is a string: "name" is an identifier without a meaning of its   *)
(* own, "size" an operand size keyword, "big" an integer the scanner       *)
(* clamped, "err" an error token, "nl" a newline.                          *)
(***************************************************************************)
EXTENDS MemRules, Sequences

CONSTANT Word   \* 2^64, scaled down

ASSUME WordAssumption == Word \in Nat /\ Word > 258

Registers == {"rax", "rsp", "rip"}
Number    == [r \in Registers |-> CASE r = "rax" -> 0 [] r = "rsp" -> 4 [] r = "rip" -> Rip]
Idents    == Registers \cup {"name", "size", "ptr"}
Literals  == {"1", "3", "258", "big"}
Value     == [l \in Literals |-> CASE l = "1" -> 1 [] l = "3" -> 3 [] l = "258" -> 258
                                   [] l = "big" -> Word - 1]
Signs     == {"+", "-"}
LexErrors == {"err", "big"}
Tokens    == Idents \cup Literals \cup Signs
             \cup {"str", "dir", ",", "[", "]", "*", ":", "nl", "err"}

TokenAt(source, i) == IF i \in DOMAIN source THEN source[i] ELSE "eof"
LineEnd   == {"nl", "eof"}

\* An operand or argument, with the tokens it spans.
Node(kind, name, value, mem, sized, from, to) ==
  [kind |-> kind, name |-> name, value |-> value, mem |-> mem, sized |-> sized,
   from |-> from, to |-> to]

Statement(kind, name, parts, from, to) ==
  [kind |-> kind, name |-> name, parts |-> parts, from |-> from, to |-> to]
=============================================================================
