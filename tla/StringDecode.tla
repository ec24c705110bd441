---------------------------- MODULE StringDecode ----------------------------
(***************************************************************************)
(* Decoding a string token (asm/internal/strdec.c): how many bytes it      *)
(* stands for, how many escapes are reported, and whether the decoder      *)
(* stays between the quotes.  The bytes' values are left out.              *)
(***************************************************************************)
EXTENDS SourceText

HexDigits   == {"0", "1", "9", "b"}
OctalDigits == {"0", "1"}
Plain       == {"b", "quote", "backslash"}   \* escapes of one byte, with n, t, r, ...

\* Fault: the run of digits has no limit.
RunUnlimited(t, i, end, limit, S) ==
  CHOOSE q \in i .. end :
    /\ \A j \in i .. q - 1 : ByteAt(t, j) \in S
    /\ q = end \/ ByteAt(t, q) \notin S

\* The first offset from i on, at most limit further and at most end, not in S.
RunEnd(t, i, end, limit, S) ==
  CHOOSE q \in i .. end :
    /\ q <= i + limit /\ \A j \in i .. q - 1 : ByteAt(t, j) \in S
    /\ q = end \/ q = i + limit \/ ByteAt(t, q) \notin S

Got(rest, bytes, reported, inside) ==
  [bytes |-> rest.bytes + bytes, reported |-> rest.reported + reported,
   inside |-> rest.inside /\ inside]

\* qas_asm_decode_string on the span of a token, quotes included.
Decode(t, off, len) ==
  LET end == off + len - 1
      dec[i \in off .. end + 1] ==
        IF i >= end THEN [bytes |-> 0, reported |-> 0, inside |-> TRUE]
        ELSE IF ByteAt(t, i) # "backslash" THEN Got(dec[i + 1], 1, 0, TRUE)
        ELSE LET c   == ByteAt(t, i + 1)
                 in  == i + 1 < end
                 hex == RunEnd(t, i + 2, end, len, HexDigits)
             IN IF ~in THEN Got(dec[end], 1, 0, FALSE)
                ELSE CASE c = "x" /\ hex = i + 2 -> Got(dec[hex], 0, 1, in)
                       [] c = "x" /\ hex > i + 2 -> Got(dec[hex], 1, 0, in)
                       [] c \in OctalDigits -> Got(dec[RunEnd(t, i + 1, end, 3, OctalDigits)], 1, 0, in)
                       [] c \in Plain -> Got(dec[i + 2], 1, 0, in)
                       [] OTHER -> Got(dec[i + 2], 1, 1, in)
  IN dec[off + 1]
=============================================================================
