---------------------------- MODULE SymtabProofs ----------------------------
(***************************************************************************)
(* Proofs about Symtab, for every set of names, every hash function, every *)
(* size of the first bucket array and any number of doublings.             *)
(*                                                                         *)
(*   1. one bucket array: where a probe goes, that there is an empty slot, *)
(*      what inserting a record and filling a new array leave behind       *)
(*   2. the table: TableInv, from which Findable, HeadroomKept and the     *)
(*      empty slot every probe ends at                                     *)
(*   3. that every step is a step of NameTable or hidden from it           *)
(***************************************************************************)
EXTENDS Symtab, NatLemmas, SequenceTheorems

\* The slot at distance d of the home of a name with digest x, in an array
\* of c buckets.
At(x, c, d) == ((x % c) + d) % c

\* A probe through b for a name with digest x gets to record r.
Reaches(b, c, x, r) ==
  \E d \in 0 .. c - 1 :
    /\ b[At(x, c, d)] = r
    /\ \A e \in 0 .. d - 1 : b[At(x, c, e)] # 0

\* The array b of c buckets holds the first k records of q, each once and
\* where a probe for its name gets to it.
Filled(h, b, c, q, k) ==
  /\ b \in [0 .. c - 1 -> 0 .. k]
  /\ \A s, t \in 0 .. c - 1 : b[s] = b[t] /\ b[s] # 0 => s = t
  /\ \A r \in 1 .. k : Reaches(b, c, h[q[r]], r)

-----------------------------------------------------------------------------
(* One bucket array. *)

\* The size of an array is read off its domain.
LEMMA CountOf ==
  ASSUME NEW c \in Nat \ {0}, NEW b, DOMAIN b = 0 .. c - 1
  PROVE  BucketCount(b) = c
BY FS_Interval DEF BucketCount

\* A probe stays inside the array and goes on by After.
LEMMA ProbeSlots ==
  ASSUME NEW c \in Nat \ {0}, NEW x \in Nat, NEW d \in Nat
  PROVE  /\ At(x, c, d) \in 0 .. c - 1
         /\ At(x, c, 0) = x % c
         /\ At(x, c, d + 1) = (At(x, c, d) + 1) % c
         /\ At(x, c, d + c) = At(x, c, d)
<1> DEFINE home == x % c
<1>1. home \in 0 .. c - 1
  BY ModRange
<1> HIDE DEF home
<1>2. home + d \in Nat /\ (home + d) + c = home + (d + c) /\ (home + d) + 1 = home + (d + 1)
  BY <1>1
<1>3. (home + d) % c \in 0 .. c - 1
  BY <1>2, ModRange
<1>4. (home + 0) % c = home
  BY <1>1, ModSmall
<1>5. (home + (d + 1)) % c = (((home + d) % c) + 1) % c
  BY <1>2, ModNext
<1>6. (home + (d + c)) % c = (home + d) % c
  BY <1>2, ModOver
<1> QED BY <1>3, <1>4, <1>5, <1>6 DEF At, home

LEMMA ProbeWithin ==
  ASSUME NEW c \in Nat \ {0}, NEW x \in Nat
  PROVE  \A e \in Nat : At(x, c, e) \in 0 .. c - 1
BY ProbeSlots

\* A probe that goes on long enough comes to every slot.
LEMMA ProbeCovers ==
  ASSUME NEW c \in Nat \ {0}, NEW x \in Nat, NEW s \in 0 .. c - 1
  PROVE  \E d \in 0 .. c - 1 : At(x, c, d) = s
<1> DEFINE home == x % c
<1>1. home \in 0 .. c - 1
  BY ModRange
<1> HIDE DEF home
<1>2. CASE home <= s
  <2>1. s - home \in 0 .. c - 1 /\ home + (s - home) = s
    BY <1>1, <1>2
  <2>2. (home + (s - home)) % c = s
    BY <2>1, ModSmall
  <2> QED BY <2>1, <2>2 DEF At, home
<1>3. CASE s < home
  <2>1. s - home + c \in 0 .. c - 1 /\ home + (s - home + c) = s + c
    BY <1>1, <1>3
  <2>2. s \in Nat /\ (s + c) % c = s % c /\ s % c = s
    <3>1. s \in Nat
      OBVIOUS
    <3> QED BY <3>1, ModOver, ModSmall
  <2> QED BY <2>1, <2>2 DEF At, home
<1> QED BY <1>1, <1>2, <1>3

\* Records that are fewer than the buckets leave one empty: each is in one
\* slot only.
LEMMA EmptySlot ==
  ASSUME NEW c \in Nat \ {0}, NEW k \in Nat, k < c,
         NEW b \in [0 .. c - 1 -> 0 .. k],
         \A s, t \in 0 .. c - 1 : b[s] = b[t] /\ b[s] # 0 => s = t
  PROVE  \E s \in 0 .. c - 1 : b[s] = 0
<1> SUFFICES ASSUME \A s \in 0 .. c - 1 : b[s] # 0 PROVE FALSE
  OBVIOUS
<1>1. b \in [0 .. c - 1 -> 1 .. k]
  OBVIOUS
<1>2. /\ IsFiniteSet(0 .. c - 1) /\ Cardinality(0 .. c - 1) = c
      /\ IsFiniteSet(1 .. k) /\ Cardinality(1 .. k) = k
  BY FS_Interval
<1> DEFINE S == 0 .. c - 1
           T == 1 .. k
<1> HIDE DEF S, T
<1>3. b \in [S -> T] /\ Cardinality(T) < Cardinality(S) /\ IsFiniteSet(S) /\ IsFiniteSet(T)
  BY <1>1, <1>2 DEF S, T
<1>4. \E s, t \in S : s # t /\ b[s] = b[t]
  BY <1>3, FS_PigeonHole
<1> QED BY <1>4 DEF S

\* A record put into the first empty slot of its probe is found there, and
\* those found before are still found.
LEMMA InsertKeeps ==
  ASSUME NEW c \in Nat \ {0}, NEW k \in Nat, NEW q, NEW h, NEW b, Filled(h, b, c, q, k),
         \A r \in 1 .. k + 1 : h[q[r]] \in Nat,
         NEW d \in Nat, b[At(h[q[k + 1]], c, d)] = 0,
         \A e \in 0 .. d - 1 : b[At(h[q[k + 1]], c, e)] # 0
  PROVE  Filled(h, [b EXCEPT ![At(h[q[k + 1]], c, d)] = k + 1], c, q, k + 1)
<1> DEFINE x  == h[q[k + 1]]
           at == At(x, c, d)
           new == [b EXCEPT ![at] = k + 1]
<1>1. /\ b \in [0 .. c - 1 -> 0 .. k]
      /\ \A s, t \in 0 .. c - 1 : b[s] = b[t] /\ b[s] # 0 => s = t
      /\ \A r \in 1 .. k : Reaches(b, c, h[q[r]], r)
  BY DEF Filled
<1>3. x \in Nat
  OBVIOUS
<1>4. b[at] = 0 /\ \A e \in 0 .. d - 1 : b[At(x, c, e)] # 0
  OBVIOUS
<1> HIDE DEF x
<1>2. \A e \in Nat : At(x, c, e) \in 0 .. c - 1
  BY <1>3, ProbeWithin
<1>5. at \in 0 .. c - 1
  BY <1>2
<1>6. /\ new \in [0 .. c - 1 -> 0 .. k + 1] /\ new[at] = k + 1
      /\ \A s \in 0 .. c - 1 : (s # at => new[s] = b[s]) /\ (b[s] # 0 => new[s] = b[s] /\ new[s] # 0)
  BY <1>1, <1>4, <1>5
<1>7. d < c
  <2> SUFFICES ASSUME d >= c PROVE FALSE
    OBVIOUS
  <2> DEFINE y == d - c
  <2>1. y \in 0 .. d - 1 /\ y \in Nat /\ y + c = d
    OBVIOUS
  <2> HIDE DEF y
  <2>2. At(x, c, y + c) = At(x, c, y)
    BY <1>3, <2>1, ProbeSlots
  <2> QED BY <1>4, <2>1, <2>2
<1> HIDE DEF new
<1>8. ASSUME NEW r \in 1 .. k PROVE Reaches(new, c, h[q[r]], r)
  <2> DEFINE y == h[q[r]]
  <2>1. y \in Nat
    OBVIOUS
  <2>2. Reaches(b, c, y, r)
    BY <1>1
  <2> HIDE DEF y
  <2>3. PICK i \in 0 .. c - 1 : b[At(y, c, i)] = r /\ \A e \in 0 .. i - 1 : b[At(y, c, e)] # 0
    BY <2>2 DEF Reaches
  <2>4. \A e \in Nat : At(y, c, e) \in 0 .. c - 1
    BY <2>1, ProbeWithin
  <2>5. \A e \in 0 .. i : At(y, c, e) \in 0 .. c - 1 /\ b[At(y, c, e)] # 0
    BY <2>3, <2>4
  <2>6. \A e \in 0 .. i : new[At(y, c, e)] = b[At(y, c, e)] /\ new[At(y, c, e)] # 0
    BY <1>6, <2>5
  <2>7. Reaches(new, c, y, r)
    BY <2>3, <2>6 DEF Reaches
  <2> QED BY <2>7 DEF y
<1>9. Reaches(new, c, x, k + 1)
  <2>1. \A e \in 0 .. d - 1 : At(x, c, e) \in 0 .. c - 1
    BY <1>2
  <2>2. \A e \in 0 .. d - 1 : new[At(x, c, e)] # 0
    BY <1>4, <1>6, <2>1
  <2>3. d \in 0 .. c - 1
    BY <1>7
  <2> QED BY <1>6, <2>2, <2>3 DEF Reaches
<1>10. \A r \in 1 .. k + 1 : Reaches(new, c, h[q[r]], r)
  BY <1>8, <1>9 DEF x
<1>11. \A s, t \in 0 .. c - 1 : new[s] = new[t] /\ new[s] # 0 => s = t
  <2>1. \A s \in 0 .. c - 1 : new[s] # 0 => (b[s] = new[s] /\ new[s] \in 1 .. k) \/ s = at
    BY <1>1, <1>6
  <2>2. \A s \in 0 .. c - 1 : new[s] = k + 1 => s = at
    BY <1>1, <1>6
  <2> HIDE DEF at
  <2> QED BY <1>1, <1>6, <2>1, <2>2
<1>12. Filled(h, new, c, q, k + 1)
  BY <1>6, <1>10, <1>11 DEF Filled
<1> QED BY <1>12 DEF new, x

\* bucket_insert puts the next record in, when there is room.
LEMMA BucketInsertFills ==
  ASSUME NEW c \in Nat \ {0}, NEW k \in Nat, k < c, k + 1 <= Len(syms),
         fnv1a \in [Name -> Nat], syms \in Seq(Name),
         NEW b, Filled(fnv1a, b, c, syms, k)
  PROVE  Filled(fnv1a, BucketInsert(b, k + 1), c, syms, k + 1)
<1> DEFINE x == fnv1a[syms[k + 1]]
           E == {e \in 0 .. c - 1 : b[At(x, c, e)] = 0}
<1>1. \A r \in 1 .. k + 1 : fnv1a[syms[r]] \in Nat
  BY LenProperties
<1>2. /\ b \in [0 .. c - 1 -> 0 .. k]
      /\ \A s, t \in 0 .. c - 1 : b[s] = b[t] /\ b[s] # 0 => s = t
  BY DEF Filled
<1>3. BucketCount(b) = c
  BY <1>2, CountOf
<1>4. x \in Nat
  BY <1>1
<1>5. PICK s \in 0 .. c - 1 : b[s] = 0
  BY <1>2, EmptySlot
<1> HIDE DEF x
<1>6. \E e \in 0 .. c - 1 : At(x, c, e) = s
  BY <1>4, ProbeCovers
<1>7. E \in SUBSET Nat /\ E # {}
  BY <1>5, <1>6
<1>8. PICK d \in E : \A e \in E : d <= e
  <2> HIDE DEF E
  <2> QED BY <1>7, LeastNat
<1>9. Min(E) = d
  BY <1>7, <1>8 DEF Min
<1>10. d \in Nat /\ b[At(x, c, d)] = 0 /\ \A e \in 0 .. d - 1 : b[At(x, c, e)] # 0
  BY <1>8
<1>11. BucketInsert(b, k + 1) = [b EXCEPT ![At(x, c, d)] = k + 1]
  BY <1>2, <1>3, <1>9 DEF BucketInsert, HomeSlot, At, x
<1> DEFINE h == fnv1a
           q == syms
<1>12. /\ Filled(h, b, c, q, k)
       /\ \A r \in 1 .. k + 1 : h[q[r]] \in Nat
       /\ b[At(h[q[k + 1]], c, d)] = 0 /\ \A e \in 0 .. d - 1 : b[At(h[q[k + 1]], c, e)] # 0
  BY <1>1, <1>10 DEF x
<1> HIDE DEF h, q
<1>13. Filled(h, [b EXCEPT ![At(h[q[k + 1]], c, d)] = k + 1], c, q, k + 1)
  BY <1>10, <1>12, InsertKeeps
<1> QED BY <1>11, <1>13 DEF h, q, x

\* An array keeps its shape whatever is inserted.
LEMMA BucketInsertShape ==
  ASSUME NEW c \in Nat \ {0}, NEW b \in [0 .. c - 1 -> Nat], NEW rec \in Nat
  PROVE  BucketInsert(b, rec) \in [0 .. c - 1 -> Nat]
BY DEF BucketInsert

\* The array rehash makes, when it has more buckets than there are records,
\* holds all of them.
LEMMA RehashFills ==
  ASSUME NEW c \in Nat \ {0}, Len(syms) < c,
         fnv1a \in [Name -> Nat], syms \in Seq(Name)
  PROVE  Filled(fnv1a, Rehash(c), c, syms, Len(syms))
<1> DEFINE L == Len(syms)
           X == [0 .. c - 1 -> Nat]
           F == [i \in 1 .. L |-> [b \in X |-> BucketInsert(b, i)]]
           filled[i \in 0 .. L] == IF i = 0 THEN Array(c) ELSE BucketInsert(filled[i - 1], i)
           S == {i \in Nat : i <= L => Filled(fnv1a, filled[i], c, syms, i)}
<1>1. L \in Nat
  BY LenProperties
<1>2. Array(c) \in X
  BY DEF Array
<1>3. \A i \in Nat : \A b \in X : BucketInsert(b, i) \in X
  BY BucketInsertShape
<1>4. filled = [i \in 0 .. L |-> IF i = 0 THEN Array(c) ELSE BucketInsert(filled[i - 1], i)]
  <2> DEFINE Fits(g) == g = [i \in 0 .. L |-> IF i = 0 THEN Array(c) ELSE BucketInsert(g[i - 1], i)]
  <2>1. F \in [1 .. L -> [X -> X]]
    <3> HIDE DEF X
    <3> QED BY <1>1, <1>3
  <2>2. \E g \in [0 .. L -> X] : g[0] = Array(c) /\ \A i \in 1 .. L : g[i] = F[i][g[i - 1]]
    <3> DEFINE base == Array(c)
    <3>1. base \in X
      BY <1>2
    <3> HIDE DEF F, X, L, base
    <3>2. \E g : StepsTo(g, L, X, base, F)
      BY <1>1, <2>1, <3>1, StepsExist
    <3> QED BY <3>2 DEF base, StepsTo
  <2>3. PICK g \in [0 .. L -> X] : g[0] = Array(c) /\ \A i \in 1 .. L : g[i] = F[i][g[i - 1]]
    BY <2>2
  <2>4. \A i \in 1 .. L : g[i] = BucketInsert(g[i - 1], i)
    <3> SUFFICES ASSUME NEW i \in 1 .. L PROVE g[i] = BucketInsert(g[i - 1], i)
      OBVIOUS
    <3> HIDE DEF X, L
    <3>1. g[i - 1] \in X /\ g[i] = F[i][g[i - 1]]
      <4> HIDE DEF F
      <4> QED BY <1>1, <2>3
    <3> QED BY <3>1
  <2>5. Fits(g)
    BY <1>1, <2>3, <2>4
  <2>6. filled = CHOOSE f : Fits(f)
    OBVIOUS
  <2> HIDE DEF filled
  <2>7. Fits(filled)
    BY <2>5, <2>6
  <2> QED BY <2>7
<1> HIDE DEF filled
<1>5. 0 \in S
  <2>1. filled[0] = Array(c)
    BY <1>1, <1>4
  <2>2. Filled(fnv1a, Array(c), c, syms, 0)
    BY DEF Array, Filled
  <2> QED BY <2>1, <2>2
<1>6. ASSUME NEW i \in Nat, i \in S PROVE i + 1 \in S
  <2> SUFFICES ASSUME i + 1 <= L PROVE Filled(fnv1a, filled[i + 1], c, syms, i + 1)
    OBVIOUS
  <2>1. filled[i + 1] = BucketInsert(filled[i], i + 1)
    BY <1>1, <1>4
  <2>2. Filled(fnv1a, filled[i], c, syms, i) /\ i < c
    BY <1>1, <1>6
  <2> QED BY <1>1, <2>1, <2>2, BucketInsertFills
<1>7. Nat \subseteq S
  <2> HIDE DEF S
  <2> QED BY <1>5, <1>6, NatSetInduction
<1>8. Filled(fnv1a, filled[L], c, syms, L)
  BY <1>1, <1>7
<1> QED BY <1>8 DEF Rehash, filled
-----------------------------------------------------------------------------
(* The table. *)

\* A call is on its way: there is headroom for its name, and the d slots it
\* has passed hold the records of other names.
InProgress(c) ==
  /\ call \in [name : Name, slot : 0 .. c - 1]
  /\ 8 * (Len(syms) + 1) < 7 * c
  /\ \E d \in 0 .. c - 1 :
       /\ call.slot = At(fnv1a[call.name], c, d)
       /\ \A e \in 0 .. d - 1 :
            /\ buckets[At(fnv1a[call.name], c, e)] # 0
            /\ syms[buckets[At(fnv1a[call.name], c, e)]] # call.name

\* c buckets hold all records, with headroom.
Holding(c) ==
  /\ c \in Nat \ {0, 1}
  /\ Filled(fnv1a, buckets, c, syms, Len(syms))
  /\ 8 * Len(syms) < 7 * c
  /\ call = Idle \/ InProgress(c)

Unused == buckets = <<>> /\ syms = <<>> /\ call = Idle

NamesOnce == \A i, j \in 1 .. Len(syms) : syms[i] = syms[j] => i = j

TableInv ==
  /\ fnv1a \in [Name -> Nat] /\ syms \in Seq(Name)
  /\ NamesOnce
  /\ Unused \/ \E c : Holding(c)

LEMMA TableStarts == Init => TableInv
<1> SUFFICES ASSUME Init PROVE TableInv
  OBVIOUS
<1>1. fnv1a \in [Name -> Nat] /\ syms = <<>> /\ Unused
  BY SymtabAssumption DEF Init, Unused
<1>2. syms \in Seq(Name) /\ NamesOnce
  BY <1>1, EmptySeq DEF NamesOnce
<1> QED BY <1>1, <1>2 DEF TableInv

\* The size of the array and of what it holds.
LEMMA HoldingArray ==
  ASSUME NEW c, Holding(c)
  PROVE  /\ c \in Nat \ {0, 1} /\ BucketCount(buckets) = c
         /\ DOMAIN buckets = 0 .. c - 1 /\ buckets \in [0 .. c - 1 -> 0 .. Len(syms)]
         /\ buckets # <<>>
<1>1. c \in Nat \ {0, 1} /\ buckets \in [0 .. c - 1 -> 0 .. Len(syms)]
  BY DEF Holding, Filled
<1>2. BucketCount(buckets) = c
  BY <1>1, CountOf
<1>3. buckets # <<>>
  <2>1. 0 \in DOMAIN buckets
    BY <1>1
  <2> QED BY <2>1
<1> QED BY <1>1, <1>2, <1>3

LEMMA UnusedArray ==
  ASSUME Unused PROVE BucketCount(buckets) = 0
<1>1. DOMAIN buckets = {}
  BY DEF Unused
<1> QED BY <1>1, FS_EmptySet DEF BucketCount

LEMMA HeldByAll ==
  ASSUME TableInv
  PROVE  Len(syms) \in Nat /\ \A r \in 1 .. Len(syms) : syms[r] \in Name /\ fnv1a[syms[r]] \in Nat
BY LenProperties DEF TableInv

\* Beginning a call: the array is made, doubled or left, and the probe is at
\* the home slot.
LEMMA BeginKeeps ==
  ASSUME TableInv, NEW n \in Name, Begin(n) PROVE TableInv'
<1> DEFINE L == Len(syms)
<1>1. L \in Nat /\ fnv1a \in [Name -> Nat] /\ syms \in Seq(Name)
  BY HeldByAll DEF TableInv
<1>2. fnv1a' = fnv1a /\ syms' = syms /\ call = Idle /\ call' = [name |-> n, slot |-> HomeSlot(n, buckets')]
  BY DEF Begin
<1>3. \E c \in Nat \ {0, 1} : Filled(fnv1a, buckets', c, syms, L) /\ 8 * (L + 1) < 7 * c
  <2>1. CASE Unused
    <3>1. L = 0 /\ buckets' = Rehash(FirstBuckets)
      BY <2>1, UnusedArray DEF Begin, Unused
    <3>2. FirstBuckets \in Nat \ {0} /\ L < FirstBuckets /\ 8 * (L + 1) < 7 * FirstBuckets
      BY <3>1, SymtabAssumption
    <3>3. Filled(fnv1a, Rehash(FirstBuckets), FirstBuckets, syms, L)
      BY <1>1, <3>2, RehashFills
    <3> QED BY <3>1, <3>2, <3>3
  <2>2. CASE \E c : Holding(c)
    <3>1. PICK c : Holding(c)
      BY <2>2
    <3>2. c \in Nat \ {0, 1} /\ BucketCount(buckets) = c /\ 8 * L < 7 * c
      BY <3>1, HoldingArray DEF Holding
    <3>3. CASE Crowded
      <4>1. buckets' = Rehash(2 * c)
        BY <3>2, <3>3 DEF Begin, Doubled
      <4>2. 2 * c \in Nat \ {0, 1} /\ L < 2 * c /\ 8 * (L + 1) < 7 * (2 * c)
        BY <1>1, <3>2
      <4>3. Filled(fnv1a, Rehash(2 * c), 2 * c, syms, L)
        BY <1>1, <4>2, RehashFills
      <4> QED BY <4>1, <4>2, <4>3
    <3>4. CASE ~ Crowded
      <4>1. buckets' = buckets /\ 8 * (L + 1) < 7 * c
        BY <1>1, <3>2, <3>4 DEF Begin, Crowded
      <4> QED BY <3>1, <3>2, <4>1 DEF Holding
    <3> QED BY <3>3, <3>4
  <2> QED BY <2>1, <2>2 DEF TableInv
<1>4. PICK c \in Nat \ {0, 1} : Filled(fnv1a, buckets', c, syms, L) /\ 8 * (L + 1) < 7 * c
  BY <1>3
<1> DEFINE x == fnv1a[n]
<1>5. x \in Nat
  BY <1>1
<1>6. BucketCount(buckets') = c
  BY <1>4, CountOf DEF Filled
<1>7. call' = [name |-> n, slot |-> x % c]
  BY <1>2, <1>6 DEF HomeSlot
<1>8. At(x, c, 0) = x % c /\ x % c \in 0 .. c - 1
  <2> HIDE DEF x
  <2> QED BY <1>5, ProbeSlots, ZenonT(60)
<1>9. InProgress(c)'
  BY <1>2, <1>4, <1>7, <1>8 DEF InProgress
<1>10. Holding(c)'
  BY <1>1, <1>2, <1>4, <1>9 DEF Holding
<1> QED BY <1>2, <1>10 DEF TableInv, NamesOnce

\* A probe passes the record of another name, and does not get round the
\* whole array: there is an empty slot.
LEMMA ProbeKeeps ==
  ASSUME TableInv, Probe PROVE TableInv'
<1> DEFINE n == call.name
           x == fnv1a[n]
<1>1. /\ call # Idle /\ buckets[call.slot] # 0 /\ syms[buckets[call.slot]] # n
      /\ call' = [call EXCEPT !.slot = After(call.slot, buckets)]
      /\ UNCHANGED <<fnv1a, syms, buckets>>
  BY DEF Probe, Probing, NameEq
<1>2. PICK c : Holding(c)
  BY <1>1 DEF TableInv, Unused
<1>3. c \in Nat \ {0, 1} /\ BucketCount(buckets) = c
  BY <1>2, HoldingArray
<1>4. Filled(fnv1a, buckets, c, syms, Len(syms)) /\ 8 * Len(syms) < 7 * c /\ InProgress(c)
  BY <1>1, <1>2 DEF Holding
<1>5. PICK d \in 0 .. c - 1 :
        /\ call.slot = At(x, c, d)
        /\ \A e \in 0 .. d - 1 : buckets[At(x, c, e)] # 0 /\ syms[buckets[At(x, c, e)]] # n
  BY <1>4 DEF InProgress
<1>6. call \in [name : Name, slot : 0 .. c - 1] /\ 8 * (Len(syms) + 1) < 7 * c
  BY <1>4 DEF InProgress
<1>7. x \in Nat /\ Len(syms) \in Nat
  BY <1>6, HeldByAll DEF TableInv
<1> HIDE DEF x, n
<1>8. \A e \in 0 .. d : buckets[At(x, c, e)] # 0 /\ syms[buckets[At(x, c, e)]] # n
  BY <1>1, <1>5
<1>9. d + 1 \in 0 .. c - 1
  <2> SUFFICES ASSUME d = c - 1 PROVE FALSE
    BY <1>3
  <2>1. /\ buckets \in [0 .. c - 1 -> 0 .. Len(syms)]
        /\ \A s, t \in 0 .. c - 1 : buckets[s] = buckets[t] /\ buckets[s] # 0 => s = t
    BY <1>4 DEF Filled
  <2>2. Len(syms) < c
    BY <1>3, <1>4, <1>7
  <2>3. PICK s \in 0 .. c - 1 : buckets[s] = 0
    BY <1>3, <1>7, <2>1, <2>2, EmptySlot, SMTT(60)
  <2>4. PICK e \in 0 .. c - 1 : At(x, c, e) = s
    BY <1>3, <1>7, ProbeCovers
  <2> QED BY <1>8, <2>3, <2>4
<1>10. At(x, c, d + 1) = (At(x, c, d) + 1) % c /\ At(x, c, d + 1) \in 0 .. c - 1
  <2>1. c \in Nat \ {0} /\ d \in Nat /\ d + 1 \in Nat
    BY <1>3
  <2>2. At(x, c, d + 1) = (At(x, c, d) + 1) % c
    BY <1>7, <2>1, ProbeSlots
  <2>3. \A e \in Nat : At(x, c, e) \in 0 .. c - 1
    BY <1>7, <2>1, ProbeWithin
  <2> QED BY <2>1, <2>2, <2>3
<1>11. call' = [call EXCEPT !.slot = At(x, c, d + 1)]
  BY <1>1, <1>3, <1>5, <1>10 DEF After
<1>12. call' \in [name : Name, slot : 0 .. c - 1] /\ call'.name = n /\ call'.slot = At(x, c, d + 1)
  BY <1>6, <1>10, <1>11 DEF n
<1>13. InProgress(c)'
  BY <1>1, <1>6, <1>8, <1>9, <1>12 DEF InProgress, x
<1>14. Holding(c)'
  BY <1>1, <1>3, <1>4, <1>13 DEF Holding
<1> QED BY <1>1, <1>14 DEF TableInv, NamesOnce

\* The probe of a call that publishes has passed every record that could be
\* its name's, so the name is new.
LEMMA PublishIsNew ==
  ASSUME TableInv, call # Idle, buckets[call.slot] = 0
  PROVE  \A r \in 1 .. Len(syms) : syms[r] # call.name
<1> DEFINE n == call.name
           x == fnv1a[n]
<1>1. PICK c : Holding(c)
  BY DEF TableInv, Unused
<1>2. c \in Nat \ {0, 1} /\ Filled(fnv1a, buckets, c, syms, Len(syms)) /\ InProgress(c)
  BY <1>1 DEF Holding
<1>3. PICK d \in 0 .. c - 1 :
        /\ call.slot = At(x, c, d)
        /\ \A e \in 0 .. d - 1 : buckets[At(x, c, e)] # 0 /\ syms[buckets[At(x, c, e)]] # n
  BY <1>2 DEF InProgress
<1> SUFFICES ASSUME NEW r \in 1 .. Len(syms), syms[r] = n PROVE FALSE
  OBVIOUS
<1>4. Reaches(buckets, c, x, r)
  BY <1>2 DEF Filled
<1> HIDE DEF n, x
<1>5. PICK i \in 0 .. c - 1 :
        buckets[At(x, c, i)] = r /\ \A e \in 0 .. i - 1 : buckets[At(x, c, e)] # 0
  BY <1>4 DEF Reaches
<1>6. CASE i < d
  BY <1>3, <1>5, <1>6
<1>7. CASE i = d
  BY <1>3, <1>5, <1>7
<1>8. CASE d < i
  <2>1. d \in 0 .. i - 1
    BY <1>8
  <2> QED BY <1>3, <1>5, <2>1
<1> QED BY <1>6, <1>7, <1>8

\* Publishing a new name.
LEMMA PublishKeeps ==
  ASSUME TableInv, Publish PROVE TableInv'
<1> DEFINE n == call.name
           L == Len(syms)
           q == syms'
           h == fnv1a
<1>1. /\ call # Idle /\ buckets[call.slot] = 0 /\ syms' = Append(syms, n)
      /\ buckets' = [buckets EXCEPT ![call.slot] = L + 1]
      /\ call' = Idle /\ fnv1a' = fnv1a
  BY DEF Publish
<1>2. PICK c : Holding(c)
  BY <1>1 DEF TableInv, Unused
<1>3. c \in Nat \ {0, 1} /\ Filled(fnv1a, buckets, c, syms, L) /\ InProgress(c)
  BY <1>1, <1>2 DEF Holding
<1>4. n \in Name /\ 8 * (L + 1) < 7 * c /\ L \in Nat /\ syms \in Seq(Name) /\ h \in [Name -> Nat]
  BY <1>3, HeldByAll DEF InProgress, TableInv
<1>5. q \in Seq(Name) /\ Len(q) = L + 1 /\ q[L + 1] = n /\ \A r \in 1 .. L : q[r] = syms[r]
  BY <1>1, <1>4, AppendProperties
<1>6. \A r \in 1 .. L + 1 : q[r] \in Name /\ h[q[r]] \in Nat
  BY <1>4, <1>5, LenProperties
<1>7. Filled(h, buckets, c, q, L)
  BY <1>3, <1>5 DEF Filled
<1>8. PICK d \in 0 .. c - 1 :
        /\ call.slot = At(h[n], c, d)
        /\ \A e \in 0 .. d - 1 : buckets[At(h[n], c, e)] # 0
  BY <1>3 DEF InProgress
<1>9. /\ call.slot = At(h[q[L + 1]], c, d) /\ buckets[At(h[q[L + 1]], c, d)] = 0
      /\ \A e \in 0 .. d - 1 : buckets[At(h[q[L + 1]], c, e)] # 0
  BY <1>1, <1>5, <1>8
<1>10. Filled(fnv1a', buckets', c, syms', Len(syms'))
  <2> DEFINE b == buckets
  <2>1. Filled(h, b, c, q, L) /\ (\A r \in 1 .. L + 1 : h[q[r]] \in Nat)
        /\ b[At(h[q[L + 1]], c, d)] = 0 /\ (\A e \in 0 .. d - 1 : b[At(h[q[L + 1]], c, e)] # 0)
    BY <1>6, <1>7, <1>9
  <2>3. c \in Nat \ {0} /\ L \in Nat /\ d \in Nat
    BY <1>3, <1>4
  <2> HIDE DEF b, q, h, L
  <2>2. Filled(h, [b EXCEPT ![At(h[q[L + 1]], c, d)] = L + 1], c, q, L + 1)
    BY <2>1, <2>3, InsertKeeps
  <2> QED BY <1>1, <1>5, <1>9, <2>2 DEF b, q, h
<1>11. NamesOnce'
  <2>1. \A r \in 1 .. L : syms[r] # n
    BY <1>1, PublishIsNew
  <2>2. \A i, j \in 1 .. L : syms[i] = syms[j] => i = j
    BY DEF TableInv, NamesOnce
  <2> HIDE DEF L, n, q
  <2>3. ASSUME NEW i \in 1 .. L + 1, NEW j \in 1 .. L + 1, q[i] = q[j] PROVE i = j
    <3>1. L \in Nat /\ \A r \in 1 .. L : q[r] = syms[r] /\ q[r] # q[L + 1]
      BY <1>4, <1>5, <2>1
    <3>2. CASE i <= L /\ j <= L
      <4>1. i \in 1 .. L /\ j \in 1 .. L
        BY <3>1, <3>2
      <4> QED BY <2>2, <2>3, <3>1, <4>1
    <3>3. CASE i = L + 1 \/ j = L + 1
      BY <2>3, <3>1, <3>3
    <3> QED BY <3>1, <3>2, <3>3
  <2>4. \A i, j \in 1 .. Len(q) : q[i] = q[j] => i = j
    BY <1>5, <2>3
  <2> QED BY <2>4 DEF NamesOnce, q
<1>12. Holding(c)'
  BY <1>1, <1>3, <1>4, <1>5, <1>10 DEF Holding
<1> QED BY <1>1, <1>4, <1>5, <1>11, <1>12 DEF TableInv

\* Steps that leave records and buckets alone and end the call.
LEMMA EndingKeeps ==
  ASSUME TableInv, call' = Idle, UNCHANGED <<fnv1a, syms, buckets>> PROVE TableInv'
<1>1. CASE Unused
  BY <1>1 DEF TableInv, Unused, NamesOnce
<1>2. ASSUME NEW c, Holding(c) PROVE TableInv'
  <2>1. Holding(c)'
    BY <1>2 DEF Holding
  <2> QED BY <2>1 DEF TableInv, NamesOnce
<1> QED BY <1>1, <1>2 DEF TableInv

LEMMA StandingKeeps ==
  ASSUME TableInv, UNCHANGED <<fnv1a, syms, buckets, call>> PROVE TableInv'
BY DEF TableInv, Unused, NamesOnce, Holding, InProgress

LEMMA TableKept == TableInv /\ [Next]_vars => TableInv'
<1> SUFFICES ASSUME TableInv, [Next]_vars PROVE TableInv'
  OBVIOUS
<1>1. ASSUME NEW n \in Name, Begin(n) PROVE TableInv'
  BY <1>1, BeginKeeps
<1>2. ASSUME NEW n \in Name, BeginFails(n) PROVE TableInv'
  BY <1>2, StandingKeeps DEF BeginFails
<1>3. CASE Found
  BY <1>3, EndingKeeps DEF Found
<1>4. CASE Probe
  BY <1>4, ProbeKeeps
<1>5. CASE Publish
  BY <1>5, PublishKeeps
<1>6. CASE PublishFails
  BY <1>6, EndingKeeps DEF PublishFails
<1>7. CASE UNCHANGED vars
  BY <1>7, StandingKeeps DEF vars
<1> QED BY <1>1, <1>2, <1>3, <1>4, <1>5, <1>6, <1>7 DEF Next, InCall

LEMMA TableInvAlways == Spec => []TableInv
BY TableStarts, TableKept, PTL DEF Spec
-----------------------------------------------------------------------------
(* What follows from TableInv. *)

\* Findable: the probe for a record's name gets to the record, through every
\* doubling of the array.
THEOREM FindableAlways == Spec => []Findable
<1>1. TableInv => Findable
  <2> SUFFICES ASSUME TableInv, NEW r \in 1 .. Len(syms)
               PROVE  \E d \in DOMAIN buckets :
                        /\ buckets[(HomeSlot(syms[r], buckets) + d) % BucketCount(buckets)] = r
                        /\ \A e \in 0 .. d - 1 :
                             buckets[(HomeSlot(syms[r], buckets) + e) % BucketCount(buckets)] # 0
    BY DEF Findable
  <2>1. PICK c : Holding(c)
    BY HeldByAll DEF TableInv, Unused
  <2>2. DOMAIN buckets = 0 .. c - 1 /\ BucketCount(buckets) = c
    BY <2>1, HoldingArray
  <2>3. Reaches(buckets, c, fnv1a[syms[r]], r)
    BY <2>1 DEF Holding, Filled
  <2> QED BY <2>2, <2>3 DEF Reaches, At, HomeSlot
<1> QED BY <1>1, TableInvAlways, PTL

\* HeadroomKept: at least an eighth of the buckets stays empty.
THEOREM HeadroomAlways == Spec => []HeadroomKept
<1>1. TableInv => HeadroomKept
  <2> SUFFICES ASSUME TableInv, buckets # <<>> PROVE 8 * Len(syms) < 7 * BucketCount(buckets)
    BY DEF HeadroomKept
  <2>1. PICK c : Holding(c)
    BY DEF TableInv, Unused
  <2> QED BY <2>1, HoldingArray DEF Holding
<1> QED BY <1>1, TableInvAlways, PTL

\* Every probe meets an empty slot before it has gone round: what the loop of
\* qas_asm_symtab_intern, which has no other end, relies on.
ProbesMeetEmpty ==
  call # Idle =>
    \E d \in DOMAIN buckets : buckets[(call.slot + d) % BucketCount(buckets)] = 0

THEOREM ProbesMeetEmptyAlways == Spec => []ProbesMeetEmpty
<1>1. TableInv => ProbesMeetEmpty
  <2> SUFFICES ASSUME TableInv, call # Idle
               PROVE  \E d \in DOMAIN buckets : buckets[(call.slot + d) % BucketCount(buckets)] = 0
    BY DEF ProbesMeetEmpty
  <2>1. PICK c : Holding(c)
    BY DEF TableInv, Unused
  <2>2. /\ c \in Nat \ {0} /\ DOMAIN buckets = 0 .. c - 1 /\ BucketCount(buckets) = c
        /\ call.slot \in 0 .. c - 1 /\ Len(syms) \in Nat /\ Len(syms) < c
    <3>1. c \in Nat \ {0, 1} /\ DOMAIN buckets = 0 .. c - 1 /\ BucketCount(buckets) = c
      BY <2>1, HoldingArray
    <3>2. call.slot \in 0 .. c - 1
      BY <2>1 DEF Holding, InProgress
    <3>3. Len(syms) \in Nat /\ 8 * Len(syms) < 7 * c
      BY <2>1, HeldByAll DEF Holding
    <3> QED BY <3>1, <3>2, <3>3
  <2>3. PICK s \in 0 .. c - 1 : buckets[s] = 0
    BY <2>1, <2>2, EmptySlot DEF Holding, Filled
  <2> DEFINE x == call.slot
  <2>4. x \in Nat /\ x % c = x
    BY <2>2, ModSmall
  <2> HIDE DEF x
  <2>5. PICK d \in 0 .. c - 1 : At(x, c, d) = s
    BY <2>2, <2>4, ProbeCovers, ZenonT(60)
  <2> QED BY <2>2, <2>3, <2>4, <2>5 DEF At, x
<1> QED BY <1>1, TableInvAlways, PTL

-----------------------------------------------------------------------------
(* The table as a map. *)

\* Finding a record is interning a name that is known.
LEMMA FoundIsIntern ==
  ASSUME TableInv, Found PROVE Abstract!Next
<1>1. /\ call # Idle /\ buckets[call.slot] # 0 /\ syms[buckets[call.slot]] = call.name
      /\ answer' = <<call.name, buckets[call.slot] - 1>> /\ syms' = syms
  BY DEF Found, Probing, NameEq
<1>2. PICK c : Holding(c)
  BY <1>1 DEF TableInv, Unused
<1>3. /\ call.name \in Name /\ call.slot \in 0 .. c - 1
      /\ buckets \in [0 .. c - 1 -> 0 .. Len(syms)] /\ Len(syms) \in Nat
  BY <1>1, <1>2, HoldingArray, HeldByAll DEF Holding, InProgress
<1> DEFINE i == buckets[call.slot] - 1
<1>4. i \in 0 .. Len(syms) - 1 /\ i + 1 = buckets[call.slot]
  BY <1>1, <1>3
<1>5. Abstract!Known(call.name)
  BY <1>1, <1>4 DEF Abstract!Known, Abstract!Indices
<1> QED BY <1>1, <1>3, <1>5 DEF Abstract!Next, Abstract!Intern

\* Publishing is interning a new name.
LEMMA PublishIsIntern ==
  ASSUME TableInv, Publish PROVE Abstract!Next
<1>1. /\ call # Idle /\ buckets[call.slot] = 0
      /\ syms' = Append(syms, call.name) /\ answer' = <<call.name, Len(syms)>>
  BY DEF Publish
<1>2. call.name \in Name
  BY <1>1 DEF TableInv, Unused, Holding, InProgress
<1>3. \A i \in 0 .. Len(syms) - 1 : syms[i + 1] # call.name
  <2>1. Len(syms) \in Nat /\ \A r \in 1 .. Len(syms) : syms[r] # call.name
    BY <1>1, HeldByAll, PublishIsNew
  <2>2. \A i \in 0 .. Len(syms) - 1 : i + 1 \in 1 .. Len(syms)
    BY <2>1
  <2> QED BY <2>1, <2>2
<1> QED BY <1>1, <1>2, <1>3 DEF Abstract!Next, Abstract!Intern, Abstract!Indices

\* A call that fails leaves the names as they are.
LEMMA FailingIsIntern ==
  ASSUME TableInv, PublishFails \/ \E n \in Name : BeginFails(n) PROVE Abstract!Next
<1>1. CASE PublishFails
  <2>1. call # Idle /\ answer' = <<call.name, OutOfMemory>> /\ UNCHANGED syms
    BY <1>1 DEF PublishFails
  <2>2. call.name \in Name
    BY <2>1 DEF TableInv, Unused, Holding, InProgress
  <2> QED BY <2>1, <2>2 DEF Abstract!Next, Abstract!Intern
<1>2. CASE \E n \in Name : BeginFails(n)
  BY <1>2 DEF BeginFails, Abstract!Next, Abstract!Intern
<1> QED BY <1>1, <1>2

\* ImplementsNameTable: names map to indices once and for all.  Making
\* headroom and probing are invisible.
THEOREM TableImplementsNameTable == Spec => ImplementsNameTable
<1>1. Init => Abstract!Init
  BY DEF Init, Abstract!Init
<1>2. TableInv /\ [Next]_vars => [Abstract!Next]_<<syms, answer>>
  <2> SUFFICES ASSUME TableInv, [Next]_vars PROVE [Abstract!Next]_<<syms, answer>>
    OBVIOUS
  <2>1. CASE Found
    BY <2>1, FoundIsIntern
  <2>2. CASE Publish
    BY <2>2, PublishIsIntern
  <2>3. CASE PublishFails \/ \E n \in Name : BeginFails(n)
    BY <2>3, FailingIsIntern
  <2>4. CASE Probe \/ \E n \in Name : Begin(n)
    BY <2>4 DEF Probe, Begin
  <2>5. CASE UNCHANGED vars
    BY <2>5 DEF vars
  <2> QED BY <2>1, <2>2, <2>3, <2>4, <2>5 DEF Next, InCall
<1> QED BY <1>1, <1>2, TableInvAlways, PTL DEF Spec, ImplementsNameTable, Abstract!Spec
=============================================================================
