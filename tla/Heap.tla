-------------------------------- MODULE Heap --------------------------------
(***************************************************************************)
(* The C library's heap as the arena and the byte buffers use it: chunks   *)
(* at any aligned place that is free, and the bytes at every address.      *)
(* Addresses and sizes are words; address 0 is NULL.                       *)
(***************************************************************************)
EXTENDS Integers, Sequences, FiniteSets

CONSTANTS
  WordMax,       \* SIZE_MAX and UINTPTR_MAX, scaled down
  MallocAlign    \* alignment of every chunk

ASSUME HeapAssumption ==
  WordMax \in Nat \ {0} /\ MallocAlign \in 1 .. WordMax

VARIABLES
  chunks,   \* the chunks allocated and not freed
  bytes     \* the byte at every address

heapVars == <<chunks, bytes>>

Null    == 0
Wrap(n) == n % (WordMax + 1)

Ends(c) == c.at + c.len

Apart(c, d) == Ends(c) <= d.at \/ Ends(d) <= c.at

Chunk(at, len) == [at |-> at, len |-> len]

\* The places where len bytes are free; one past a chunk is still an address.
Places(len, others) ==
  {p \in 1 .. WordMax : p % MallocAlign = 0 /\ p + len <= WordMax
                        /\ \A c \in others : Apart(Chunk(p, len), c)}

\* memory with a sequence of bytes stored at an address.
Stored(memory, at, s) ==
  [a \in DOMAIN memory |-> IF a \in at .. at + Len(s) - 1 THEN s[a - at + 1] ELSE memory[a]]

Load(memory, at, len) == [i \in 1 .. len |-> memory[at + i - 1]]

HeapInit == chunks = {} /\ bytes = [a \in 0 .. WordMax |-> 0]
=============================================================================
