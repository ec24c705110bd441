---------------------------- MODULE MCInsnDecode ----------------------------
(***************************************************************************)
(* An instance of InsnDecode small enough for TLC: fields of 2, 3, 4 and 5 *)
(* bits in place of 8, 16, 32 and 64.                                      *)
(***************************************************************************)
EXTENDS InsnDecode, TLC

MCHalf == (8 :> 2) @@ (16 :> 4) @@ (32 :> 8) @@ (64 :> 16)

\* The accumulator, the count register, the numbers that are byte registers
\* of two kinds, one that needs a REX bit, and rip.
MCRegOps == {Register(n, s) : n \in {0, 1, 4, 12}, s \in {8, 16, 32, 64}}
            \cup {HighByte(4), Register(0, 0)}

\* A plain base, and a base or index that needs a REX bit, with a symbol.
MCAddresses == {[ext |-> 0, sib |-> FALSE, mode |-> "none", width |-> 0],
                [ext |-> 1, sib |-> TRUE,  mode |-> "abs", width |-> 4]}

\* Both sides of the edges of every field.
MCValues == {-16, -9, -8, -5, -4, -3, -2, -1, 0, 1, 2, 3, 4, 7, 8, 15}

\* Every mnemonic of the table, and an unknown one.
MCMnemonics ==
  {"mov", "lea", "test", "cqo", "int", "frob"}
  \cup DOMAIN ArithGroup \cup DOMAIN UnaryGroup \cup DOMAIN IncDecGroup \cup DOMAIN ShiftGroup
  \cup DOMAIN StackForms \cup DOMAIN BranchForms \cup DOMAIN Condition \cup DOMAIN PlainOpcode
=============================================================================
