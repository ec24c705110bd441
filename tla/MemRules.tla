------------------------------ MODULE MemRules ------------------------------
(***************************************************************************)
(* The rules by which the parser puts a memory operand together            *)
(* (parser/parser.c, mem_set_index and mem_set_plain_reg).  Registers are  *)
(* their numbers 0 to 15 and Rip; their sizes are left out.                *)
(***************************************************************************)
EXTENDS Integers

Rip  == 16
None == 17

Low3(r) == r % 8
Ext(r)  == r \div 8
IsGpr(r) == r < Rip

\* The cast to uint8_t every scale goes through.
Byte(s) == s % 256

EmptyMem == [base |-> None, index |-> None, scale |-> 0, symbol |-> FALSE, disp |-> 0]

\* mem_set_index succeeds.
IndexOK(m, r, s) ==
  /\ IsGpr(r)
  /\ ~(Low3(r) = 4 /\ Ext(r) = 0)
  /\ s \in {1, 2, 4, 8}
  /\ m.index = None

WithIndex(m, r, s) == [m EXCEPT !.index = r, !.scale = s]

\* mem_set_plain_reg succeeds: a base if that is free, else an index.
PlainOK(m, r) ==
  \/ r = Rip /\ m.base = None /\ m.index = None
  \/ r # Rip /\ m.base = None
  \/ r # Rip /\ m.base \notin {None, Rip} /\ IndexOK(m, r, 1)

WithPlain(m, r) == IF m.base = None THEN [m EXCEPT !.base = r] ELSE WithIndex(m, r, 1)
=============================================================================
