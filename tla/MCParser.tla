------------------------------ MODULE MCParser ------------------------------
(***************************************************************************)
(* Sources for TLC: short lines of every kind and lines near a good one,   *)
(* each before a line that is good whatever came before it.                *)
(***************************************************************************)
EXTENDS ParserMeaning

UpTo(n, S) == UNION {[1 .. k -> S] : k \in 0 .. n}

Without(s, k)    == SubSeq(s, 1, k - 1) \o SubSeq(s, k + 1, Len(s))
Inserted(s, k, t) == SubSeq(s, 1, k) \o <<t>> \o SubSeq(s, k + 1, Len(s))

\* The line with one token left out, put in or replaced.
Near(s) ==
  {s} \cup {Without(s, k) : k \in DOMAIN s}
      \cup {Inserted(s, k, t) : k \in 0 .. Len(s), t \in Tokens}
      \cup {[s EXCEPT ![k] = t] : k \in DOMAIN s, t \in Tokens}

GoodLines ==
  {<<"size", "size", "[", "big", "]", ",", "rip">>,
   <<"name", ":", "rax", ":", "dir", "str">>,
   <<"dir", "str", ",", "-", "3", ",", "name">>,
   <<"name", "-", "1", ",", "rax", ",", "ptr">>,
   <<"name", "size", "ptr", "[", "rax", "+", "name", "]">>,
   <<"name", "[", "rsp", "+", "rax", "*", "1", "-", "3", "]">>,
   <<"name", "name", "+", "3", ",", "[", "1", "*", "rax", "]">>}

MemTerms == {<<"rax">>, <<"rsp">>, <<"rip">>, <<"rax", "*", "1">>, <<"3">>, <<"size">>}

Addresses ==
  {<<"name", "[">> \o a \o <<"+">> \o b \o <<sign>> \o c \o <<"]">> :
     a \in MemTerms, b \in MemTerms, c \in MemTerms, sign \in Signs}

\* Anything between brackets.
Bracketed ==
  {<<"name", "[">> \o t \o <<"]">> : t \in UpTo(3, Tokens \ {"nl", "str", "dir", ":", "ptr", "err"})}

Starts == {"name", "dir", "rax"}

Short == UpTo(2, Tokens) \cup {<<s>> \o t : s \in Starts, t \in [1 .. 2 -> Tokens]}

MCSources ==
  {line \o <<"nl", "name", "1">> :
     line \in Short \cup Addresses \cup Bracketed \cup UNION {Near(s) : s \in GoodLines}}
  \cup UpTo(2, Tokens) \cup Addresses
=============================================================================
