------------------------------- MODULE Symtab -------------------------------
(***************************************************************************)
(* The symbol table (asm/internal/symtab.c): records that only grow, and   *)
(* an open-addressing hash over them.  A call of qas_asm_symtab_intern     *)
(* takes a step to make headroom, a step per probe and a step to publish.  *)
(*                                                                         *)
(* Slots count from 0.  A bucket holds 1 + the index of a record, or 0.    *)
(* What a record says of its symbol is AsmUnit's concern; here it is its   *)
(* name.                                                                   *)
(***************************************************************************)
EXTENDS Naturals, Sequences, FiniteSets, FiniteSetsExt

CONSTANTS
  Name,
  OutOfMemory,
  Digests,         \* the values of fnv1a
  FirstBuckets,    \* buckets of the first array, 64 in the code (masks stand for %)
  AllocMayFail

ASSUME SymtabAssumption ==
  /\ Digests \subseteq Nat
  /\ FirstBuckets \in Nat \ {0, 1}
  /\ OutOfMemory \notin Name
  /\ AllocMayFail \in BOOLEAN

VARIABLES
  fnv1a,      \* the hash function: any, chosen once
  syms,       \* the names of the records
  buckets,    \* [0 .. bucket_count - 1 -> Nat], <<>> before the first call
  call,       \* [name, slot] of the call in progress, or Idle
  answer      \* the name last interned and the index or failure returned

vars == <<fnv1a, syms, buckets, call, answer>>

Idle == [name |-> OutOfMemory, slot |-> 0]

Array(n)       == [s \in 0 .. n - 1 |-> 0]
BucketCount(b) == Cardinality(DOMAIN b)

HomeSlot(n, b) == fnv1a[n] % BucketCount(b)

After(slot, b) == (slot + 1) % BucketCount(b)

\* Record rec goes into the first empty slot from its home on.
BucketInsert(b, rec) ==
  LET at(d) == (HomeSlot(syms[rec], b) + d) % BucketCount(b)
      d     == Min({e \in DOMAIN b : b[at(e)] = 0})
  IN [b EXCEPT ![at(d)] = rec]

\* Fault: a crowded array is replaced by one no larger.
SameSize(b) == BucketCount(b)

Doubled(b) == 2 * BucketCount(b)

\* Fault: the old slots are copied instead of computed anew.
CopySlots(n) == [s \in 0 .. n - 1 |-> IF s \in DOMAIN buckets THEN buckets[s] ELSE 0]

Rehash(n) ==
  LET filled[i \in 0 .. Len(syms)] ==
        IF i = 0 THEN Array(n) ELSE BucketInsert(filled[i - 1], i)
  IN filled[Len(syms)]

\* Fault: the array may fill up before it grows.
CrowdedWhenFull == Len(syms) >= BucketCount(buckets)

Crowded == (Len(syms) + 1) * 8 >= BucketCount(buckets) * 7

\* Headroom for the call on name n, and the slot its probe starts at.
Begin(n) ==
  /\ call = Idle
  /\ buckets' = IF BucketCount(buckets) = 0 THEN Rehash(FirstBuckets)
                ELSE IF Crowded THEN Rehash(Doubled(buckets)) ELSE buckets
  /\ call' = [name |-> n, slot |-> HomeSlot(n, buckets')]
  /\ UNCHANGED <<fnv1a, syms, answer>>

BeginFails(n) ==
  /\ AllocMayFail /\ call = Idle
  /\ BucketCount(buckets) = 0 \/ Crowded
  /\ answer' = <<n, OutOfMemory>>
  /\ UNCHANGED <<fnv1a, syms, buckets, call>>

Probing == call # Idle /\ buckets[call.slot] # 0

\* Fault: two names with one digest are taken for the same.
SameDigest(rec, n) == fnv1a[syms[rec]] = fnv1a[n]

NameEq(rec, n) == syms[rec] = n

Found ==
  /\ Probing /\ NameEq(buckets[call.slot], call.name)
  /\ answer' = <<call.name, buckets[call.slot] - 1>>
  /\ call' = Idle
  /\ UNCHANGED <<fnv1a, syms, buckets>>

Probe ==
  /\ Probing /\ ~NameEq(buckets[call.slot], call.name)
  /\ call' = [call EXCEPT !.slot = After(@, buckets)]
  /\ UNCHANGED <<fnv1a, syms, buckets, answer>>

\* The record is appended and put into the empty slot the probe ended at.
Publish ==
  /\ call # Idle /\ buckets[call.slot] = 0
  /\ syms' = Append(syms, call.name)
  /\ buckets' = [buckets EXCEPT ![call.slot] = Len(syms) + 1]
  /\ answer' = <<call.name, Len(syms)>>
  /\ call' = Idle
  /\ UNCHANGED fnv1a

PublishFails ==
  /\ AllocMayFail /\ call # Idle /\ buckets[call.slot] = 0
  /\ answer' = <<call.name, OutOfMemory>>
  /\ call' = Idle
  /\ UNCHANGED <<fnv1a, syms, buckets>>

Init ==
  /\ fnv1a \in [Name -> Digests]
  /\ syms = <<>> /\ buckets = <<>> /\ call = Idle /\ answer = <<>>

InCall == Found \/ Probe \/ Publish

Next == InCall \/ PublishFails \/ \E n \in Name : Begin(n) \/ BeginFails(n)

\* A call, once begun, runs on: it is straight-line code of one thread.
Spec == Init /\ [][Next]_vars /\ WF_vars(InCall)

-----------------------------------------------------------------------------

\* Every record can be found: it is in a slot, and no slot from its home to
\* there is empty, through every doubling and wherever the probe wraps.
Findable ==
  \A rec \in 1 .. Len(syms) : \E d \in DOMAIN buckets :
    LET at(e) == (HomeSlot(syms[rec], buckets) + e) % BucketCount(buckets)
    IN buckets[at(d)] = rec /\ \A e \in 0 .. d - 1 : buckets[at(e)] # 0

\* symtab.c: the load factor stays below 7/8.
HeadroomKept == buckets # <<>> => 8 * Len(syms) < 7 * BucketCount(buckets)

\* The probe of every call ends: at its name or at an empty slot.
CallsReturn == call # Idle ~> call = Idle

Abstract == INSTANCE NameTable WITH names <- syms

\* symtab.h: two spans intern to the same record iff their bytes are equal,
\* and an index is stable for the table's life.  Growing and probing, and
\* failing in either, are invisible.
ImplementsNameTable == Abstract!Spec
=============================================================================
