------------------------------ MODULE NameTable ------------------------------
(***************************************************************************)
(* What the symbol table promises the driver (asm/internal/symtab.h): a    *)
(* name maps to one index for the table's life, the indices of the names   *)
(* are 0, 1, 2, ... in the order they were first interned, and a call may  *)
(* fail, which changes nothing.                                            *)
(***************************************************************************)
EXTENDS Naturals, Sequences

CONSTANTS Name, OutOfMemory

VARIABLES
  names,    \* the interned names; names[i + 1] has index i
  answer    \* the name last interned and the index or failure returned

Indices == 0 .. Len(names) - 1

Init == names = <<>> /\ answer = <<>>

Known(n) == \E i \in Indices : names[i + 1] = n /\ answer' = <<n, i>>

Intern(n) ==
  \/ Known(n) /\ UNCHANGED names
  \/ /\ \A i \in Indices : names[i + 1] # n
     /\ names' = Append(names, n) /\ answer' = <<n, Len(names)>>
  \/ answer' = <<n, OutOfMemory>> /\ UNCHANGED names

Next == \E n \in Name : Intern(n)

Spec == Init /\ [][Next]_<<names, answer>>
=============================================================================
