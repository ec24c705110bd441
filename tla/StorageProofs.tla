--------------------------- MODULE StorageProofs ----------------------------
(***************************************************************************)
(* Proofs about Storage, for every word size, alignment, header, block     *)
(* size, byte and choice of requests: what the arena hands out and what    *)
(* the buffer holds stay as they were stored, every chunk of the heap has  *)
(* one owner, and a call that fails leaves everything as it was.           *)
(*                                                                         *)
(*   1. memory: what a store leaves alone                                  *)
(*   2. the arithmetic: aligning, doubling a capacity, spelling a value    *)
(*   3. StoreInv, and that every call of the arena and the buffer keeps it *)
(*   4. the theorems                                                       *)
(***************************************************************************)
EXTENDS Storage, NatLemmas, FunctionTheorems

Words == 0 .. WordMax
Byte  == 0 .. Base - 1

\* memory holds s at an address.
HoldsAt(memory, at, s) == \A i \in 1 .. Len(s) : memory[at + i - 1] = s[i]

-----------------------------------------------------------------------------
(* Memory. *)

\* A store keeps memory what it is.
LEMMA StoredType ==
  ASSUME NEW m \in [Words -> Byte], NEW at \in Nat, NEW s \in Seq(Byte)
  PROVE  Stored(m, at, s) \in [Words -> Byte]
<1> SUFFICES ASSUME NEW a \in Words PROVE Stored(m, at, s)[a] \in Byte
  BY DEF Stored
<1> QED BY DEF Stored

\* What is stored can be read back.
LEMMA StoredHolds ==
  ASSUME NEW m \in [Words -> Byte], NEW at \in Nat, NEW s \in Seq(Byte),
         at + Len(s) - 1 <= WordMax
  PROVE  HoldsAt(Stored(m, at, s), at, s)
BY HeapAssumption DEF Stored, HoldsAt, Words

\* What lies apart from a store is as it was.
LEMMA StoredApart ==
  ASSUME NEW m \in [Words -> Byte], NEW at \in Nat, NEW s \in Seq(Byte),
         NEW x \in Nat, NEW t \in Seq(Byte), HoldsAt(m, x, t),
         x + Len(t) - 1 <= WordMax,
         x + Len(t) <= at \/ at + Len(s) <= x
  PROVE  HoldsAt(Stored(m, at, s), x, t)
<1> SUFFICES ASSUME NEW i \in 1 .. Len(t) PROVE Stored(m, at, s)[x + i - 1] = t[i]
  BY DEF HoldsAt
<1>1. x + i - 1 \in Words /\ x + i - 1 \notin at .. at + Len(s) - 1
  BY HeapAssumption DEF Words
<1>2. m[x + i - 1] = t[i]
  BY DEF HoldsAt
<1> QED BY <1>1, <1>2 DEF Stored

\* Reading back a sequence that is there.
LEMMA LoadIs ==
  ASSUME NEW m, NEW at \in Nat, NEW s \in Seq(Byte)
  PROVE  (Load(m, at, Len(s)) = s) <=> HoldsAt(m, at, s)
<1> DEFINE r == Load(m, at, Len(s))
<1>1. r = [i \in 1 .. Len(s) |-> m[at + i - 1]]
  BY DEF Load
<1>2. s = [i \in 1 .. Len(s) |-> s[i]]
  OBVIOUS
<1>3. r = s <=> \A i \in 1 .. Len(s) : m[at + i - 1] = s[i]
  BY <1>1, <1>2
<1> QED BY <1>3 DEF HoldsAt

\* What is read is a sequence of bytes, and it is there.
LEMMA LoadHolds ==
  ASSUME NEW m \in [Words -> Byte], NEW at \in Nat, NEW n \in Nat, at + n - 1 <= WordMax
  PROVE  /\ Load(m, at, n) \in Seq(Byte) /\ Len(Load(m, at, n)) = n
         /\ HoldsAt(m, at, Load(m, at, n))
<1>1. Load(m, at, n) \in [1 .. n -> Byte]
  BY HeapAssumption DEF Load, Words
<1> QED BY <1>1 DEF Load, HoldsAt

-----------------------------------------------------------------------------
(* Arithmetic. *)

\* An address rounded up is a multiple of the alignment, less than one
\* alignment further on.
LEMMA AlignUpMeans ==
  ASSUME NEW v \in Nat, NEW a \in Nat \ {0}, AlignUp(v, a) # Null
  PROVE  /\ AlignUp(v, a) \in v .. v + a - 1
         /\ AlignUp(v, a) % a = 0
<1> DEFINE x == v + a - 1
<1>0. x \in Int /\ x = v + a - 1
  OBVIOUS
<1> HIDE DEF x
<1> DEFINE q == x \div a
           r == x % a
<1>1. r \in 0 .. a - 1 /\ q \in Int /\ x = a * q + r
  BY <1>0, DivMod
<1>2. AlignUp(v, a) = q * a
  BY <1>0 DEF AlignUp, Null
<1> HIDE DEF q, r
<1>3. q * a \in v .. v + a - 1
  BY <1>0, <1>1
<1>4. (a * q + 0) % a = 0
  BY <1>1, ModOf
<1>5. (q * a) % a = 0
  <2>1. a * q + 0 = q * a
    BY <1>1
  <2> QED BY <1>4, <2>1
<1> QED BY <1>2, <1>3, <1>5

\* Rounding up works whenever the address plus the alignment is a word.
LEMMA AlignUpWorks ==
  ASSUME NEW v \in Nat \ {0}, NEW a \in Nat \ {0}, v + a - 1 <= WordMax
  PROVE  AlignUp(v, a) # Null
<1> DEFINE x == v + a - 1
<1>0. x \in Int /\ x = v + a - 1
  OBVIOUS
<1> HIDE DEF x
<1> DEFINE q == x \div a
           r == x % a
<1>1. r \in 0 .. a - 1 /\ q \in Int /\ x = a * q + r
  BY <1>0, DivMod
<1>2. AlignUp(v, a) = q * a
  BY <1>0, HeapAssumption DEF AlignUp
<1> HIDE DEF q, r
<1>3. q * a >= v
  BY <1>0, <1>1
<1> QED BY <1>2, <1>3 DEF Null

Block == [data : Nat, capacity : Nat, used : Nat]

\* What is carved out of a block lies in its unused part.
LEMMA CarveMeans ==
  ASSUME NEW b \in Block, b.used <= b.capacity, NEW size \in Nat, NEW align \in Nat \ {0},
         Carve(b, size, align) # Null
  PROVE  LET at == Carve(b, size, align)
         IN /\ at \in Nat /\ at % align = 0
            /\ b.data + b.used <= at /\ at + size <= b.data + b.capacity
<1> DEFINE at == AlignUp(b.data + b.used, align)
<1>1. at # Null /\ Carve(b, size, align) = at
  BY DEF Carve
<1>2. b.data + b.used \in Nat
  BY DEF Block
<1>3. at \in b.data + b.used .. b.data + b.used + align - 1 /\ at % align = 0
  BY <1>1, <1>2, AlignUpMeans
<1>4. ~ (size > b.capacity - b.used - (at - b.data - b.used))
  BY <1>1 DEF Carve, Null
<1> HIDE DEF at
<1>5. at + size <= b.data + b.capacity
  BY <1>3, <1>4 DEF Block
<1> QED BY <1>1, <1>3, <1>5 DEF Block

\* A block made for a request has room for it, wherever it lies.
LEMMA CarveWorks ==
  ASSUME NEW b \in Block, b.used = 0, NEW size \in Nat, NEW align \in Nat \ {0},
         b.data > 0, b.data + b.capacity <= WordMax, size + (align - 1) <= b.capacity
  PROVE  Carve(b, size, align) # Null
<1> DEFINE at == AlignUp(b.data + b.used, align)
<1>1. b.data + b.used = b.data /\ b.data \in Nat \ {0} /\ b.data + align - 1 <= WordMax
  BY HeapAssumption DEF Block
<1>2. at # Null
  BY <1>1, AlignUpWorks
<1>3. at \in b.data .. b.data + align - 1
  BY <1>1, <1>2, AlignUpMeans
<1>4. ~ (at - b.data - b.used > b.capacity - b.used)
  BY <1>3 DEF Block
<1>5. ~ (size > b.capacity - b.used - (at - b.data - b.used))
  BY <1>3 DEF Block
<1> QED BY <1>2, <1>4, <1>5 DEF Carve

\* Doubling a word goes up or wraps.
LEMMA DoubleWraps ==
  ASSUME NEW c \in 1 .. WordMax
  PROVE  Wrap(2 * c) \in Words /\ Wrap(2 * c) # c /\ Wrap(2 * c) <= 2 * c
<1>1. WordMax + 1 \in Nat \ {0} /\ 2 * c \in Nat
  BY HeapAssumption
<1>2. CASE 2 * c <= WordMax
  <2>1. 2 * c \in 0 .. (WordMax + 1) - 1
    BY <1>1, <1>2, HeapAssumption
  <2> DEFINE d == 2 * c
             w == WordMax + 1
  <2> HIDE DEF d, w
  <2>2. d % w = d
    BY <1>1, <2>1, ModSmall DEF d, w
  <2> QED BY <1>1, <1>2, <2>2 DEF d, w, Wrap, Words
<1>3. CASE 2 * c > WordMax
  <2> DEFINE w == WordMax + 1
             a == 2 * c - w
  <2>1. a \in 0 .. w - 1 /\ a < c /\ a + w = 2 * c /\ w \in Nat \ {0} /\ a \in Nat
    BY <1>1, <1>3, HeapAssumption
  <2> HIDE DEF a, w
  <2>2. (a + w) % w = a % w /\ a % w = a
    BY <2>1, ModOver, ModSmall
  <2>3. Wrap(2 * c) = (a + w) % w
    BY <2>1 DEF Wrap, w
  <2>4. w - 1 = WordMax
    BY HeapAssumption DEF w
  <2> QED BY <2>1, <2>2, <2>3, <2>4 DEF Words
<1> QED BY <1>1, <1>2, <1>3, HeapAssumption

\* One round of the doubling loop.
GrowthStep(f, c, need) ==
  IF c >= need THEN c ELSE IF Wrap(2 * c) < c THEN need ELSE f[Wrap(2 * c)]

\* The loop ends whatever it starts from: it is a function of the capacity.
LEMMA GrowthExists ==
  ASSUME NEW need \in Words
  PROVE  \E f \in [Words -> Words] : \A c \in Words : f[c] = GrowthStep(f, c, need)
<1> DEFINE Down(f, m) == \A c \in WordMax - m + 1 .. WordMax : f[c] = GrowthStep(f, c, need)
           S == {m \in Nat : m <= WordMax => \E f \in [Words -> Words] : Down(f, m)}
<1>1. 0 \in S
  <2>1. [c \in Words |-> 0] \in [Words -> Words]
    BY HeapAssumption DEF Words
  <2>2. \A f : Down(f, 0)
    BY HeapAssumption
  <2> HIDE DEF Down
  <2> QED BY <2>1, <2>2
<1>2. ASSUME NEW m \in Nat, m \in S PROVE m + 1 \in S
  <2> SUFFICES ASSUME m + 1 <= WordMax
               PROVE  \E f \in [Words -> Words] : Down(f, m + 1)
    OBVIOUS
  <2>0. \E f \in [Words -> Words] : Down(f, m)
    <3> HIDE DEF Down
    <3> QED BY <1>2, HeapAssumption
  <2>1. PICK f \in [Words -> Words] : Down(f, m)
    BY <2>0
  <2> DEFINE x == WordMax - m
             g == [f EXCEPT ![x] = GrowthStep(f, x, need)]
  <2>2. x \in 1 .. WordMax
    BY HeapAssumption
  <2>3. GrowthStep(f, x, need) \in Words
    BY <2>2, DoubleWraps DEF GrowthStep, Words
  <2>4. g \in [Words -> Words]
    BY <2>3
  <2>5. ASSUME NEW c \in WordMax - m .. WordMax PROVE g[c] = GrowthStep(g, c, need)
    <3>1. c \in 1 .. WordMax /\ c \in Words
      BY <2>2 DEF Words
    <3>2. Wrap(2 * c) \in Words /\ Wrap(2 * c) # c
      BY <3>1, DoubleWraps
    <3>3. GrowthStep(g, c, need) = GrowthStep(f, c, need)
      <4>1. CASE Wrap(2 * c) < c
        BY <4>1 DEF GrowthStep
      <4>2. CASE Wrap(2 * c) > c
        <5>1. Wrap(2 * c) # x
          BY <4>2, <3>2, <2>2 DEF Words
        <5> QED BY <5>1, <3>2, <4>2 DEF GrowthStep
      <4> QED BY <3>1, <3>2, <4>1, <4>2 DEF Words
    <3>4. CASE c = x
      BY <3>1, <3>3, <3>4
    <3>5. CASE c # x
      <4>1. c \in WordMax - m + 1 .. WordMax /\ g[c] = f[c]
        BY <2>2, <3>1, <3>5
      <4> QED BY <2>1, <3>3, <4>1
    <3> QED BY <3>4, <3>5
  <2>6. WordMax - (m + 1) + 1 = WordMax - m
    BY HeapAssumption
  <2> HIDE DEF g, x
  <2> QED BY <2>4, <2>5, <2>6
<1>3. WordMax \in S
  BY <1>1, <1>2, NatSetInduction, HeapAssumption
<1>4. PICK f \in [Words -> Words] : \A c \in 1 .. WordMax : f[c] = GrowthStep(f, c, need)
  BY <1>3, HeapAssumption
<1> DEFINE g == [f EXCEPT ![0] = 0]
<1>5. g \in [Words -> Words]
  BY HeapAssumption DEF Words
<1>6. ASSUME NEW c \in Words PROVE g[c] = GrowthStep(g, c, need)
  <2>1. CASE c = 0
    <3>1. Wrap(2 * 0) = 0
      <4>1. 0 \in 0 .. (WordMax + 1) - 1 /\ WordMax + 1 \in Nat \ {0}
        BY HeapAssumption
      <4> DEFINE w == WordMax + 1
      <4> HIDE DEF w
      <4>2. 0 % w = 0
        BY <4>1, ModSmall DEF w
      <4> QED BY <4>2 DEF w, Wrap
    <3>2. g[0] = 0
      BY HeapAssumption DEF Words
    <3> HIDE DEF g
    <3> QED BY <2>1, <3>1, <3>2, HeapAssumption DEF GrowthStep, Words
  <2>2. CASE c # 0
    <3>1. c \in 1 .. WordMax
      BY <2>2 DEF Words
    <3>2. Wrap(2 * c) \in Words
      BY <3>1, DoubleWraps
    <3>3. GrowthStep(g, c, need) = GrowthStep(f, c, need)
      BY <3>1, <3>2 DEF GrowthStep
    <3> QED BY <1>4, <3>1, <3>3
  <2> QED BY <2>1, <2>2
<1> HIDE DEF g
<1> QED BY <1>5, <1>6

\* A capacity that was doubled is enough.
LEMMA GrowthEnough ==
  ASSUME NEW need \in Words, NEW f,
         \A c \in Words : f[c] = GrowthStep(f, c, need)
  PROVE  \A c \in 1 .. WordMax : f[c] \in c .. WordMax /\ f[c] >= need
<1> DEFINE S == {m \in Nat : m < WordMax => f[WordMax - m] \in WordMax - m .. WordMax /\ f[WordMax - m] >= need}
           T == {m \in Nat : \A k \in 0 .. m : k \in S}
<1>1. ASSUME NEW c \in 1 .. WordMax, \A d \in c + 1 .. WordMax : f[d] \in d .. WordMax /\ f[d] >= need
      PROVE  f[c] \in c .. WordMax /\ f[c] >= need
  <2>1. Wrap(2 * c) \in Words /\ Wrap(2 * c) # c
    BY DoubleWraps
  <2>2. f[c] = GrowthStep(f, c, need)
    BY DEF Words
  <2>3. CASE Wrap(2 * c) < c
    BY <2>2, <2>3 DEF GrowthStep, Words
  <2>4. CASE Wrap(2 * c) > c
    <3> DEFINE d == Wrap(2 * c)
    <3>1. d \in c + 1 .. WordMax
      BY <2>1, <2>4 DEF Words
    <3>2. f[d] \in d .. WordMax /\ f[d] >= need
      BY <1>1, <3>1 DEF Words
    <3> QED BY <2>1, <2>2, <2>4, <3>2 DEF GrowthStep, Words
  <2> QED BY <2>1, <2>3, <2>4 DEF Words
<1>2. 0 \in T
  BY <1>1, HeapAssumption
<1>3. ASSUME NEW m \in Nat, m \in T PROVE m + 1 \in T
  <2> SUFFICES ASSUME m + 1 < WordMax PROVE m + 1 \in S
    BY <1>3
  <2> DEFINE c == WordMax - (m + 1)
  <2>1. c \in 1 .. WordMax
    BY HeapAssumption
  <2>2. ASSUME NEW d \in c + 1 .. WordMax PROVE f[d] \in d .. WordMax /\ f[d] >= need
    <3>1. WordMax - d \in 0 .. m /\ WordMax - d < WordMax /\ WordMax - (WordMax - d) = d
      BY <2>1, HeapAssumption
    <3>2. WordMax - d \in S
      BY <1>3, <3>1
    <3> QED BY <3>1, <3>2
  <2>3. f[c] \in c .. WordMax /\ f[c] >= need
    BY <1>1, <2>1, <2>2
  <2> QED BY <2>3
<1>4. Nat \subseteq T
  <2> HIDE DEF T
  <2> QED BY <1>2, <1>3, NatSetInduction
<1> SUFFICES ASSUME NEW c \in 1 .. WordMax PROVE f[c] \in c .. WordMax /\ f[c] >= need
  OBVIOUS
<1>5. WordMax - c \in Nat /\ WordMax - c < WordMax /\ WordMax - (WordMax - c) = c
  BY HeapAssumption
<1>6. WordMax - c \in S
  BY <1>4, <1>5
<1> QED BY <1>5, <1>6

\* The new capacity is a word, and enough.
LEMMA NewCapMeans ==
  ASSUME NEW n, Needed(n) \in Words, buf.cap \in Words
  PROVE  NewCap(n) \in 1 .. WordMax /\ NewCap(n) >= Needed(n)
<1> DEFINE need == Needed(n)
           Fits(f) == f = [c \in 0 .. WordMax |->
                             IF c >= need THEN c
                             ELSE IF Wrap(2 * c) < c THEN need ELSE f[Wrap(2 * c)]]
           cap == CHOOSE f : Fits(f)
           start == IF buf.cap = 0 THEN FirstCap ELSE buf.cap
<1>1. PICK f \in [Words -> Words] : \A c \in Words : f[c] = GrowthStep(f, c, need)
  BY GrowthExists
<1>2. Fits(f)
  BY <1>1 DEF GrowthStep, Words
<1>3. Fits(cap)
  BY <1>2
<1>4. NewCap(n) = cap[start]
  BY DEF NewCap
<1>5. start \in 1 .. WordMax
  BY BufferAssumption DEF Words
<1> HIDE DEF cap
<1>6. DOMAIN cap = Words /\ \A c \in Words : cap[c] = GrowthStep(cap, c, need)
  BY <1>3 DEF GrowthStep, Words
<1> HIDE DEF need
<1>9. cap[start] \in start .. WordMax /\ cap[start] >= need
  BY <1>5, <1>6, GrowthEnough DEF need
<1> QED BY <1>4, <1>5, <1>9 DEF need
-----------------------------------------------------------------------------
(* Bytes that spell a value. *)

IsWeight(w, n) ==
  w \in [0 .. n -> Nat \ {0}] /\ w[0] = 1 /\ \A i \in 1 .. n : w[i] = Base * w[i - 1]

IsRest(r, value, n) ==
  r \in [0 .. n -> Nat] /\ r[0] = value /\ \A i \in 1 .. n : r[i] = r[i - 1] \div Base

IsSum(z, s, w, n) ==
  z \in [0 .. n -> Nat] /\ z[0] = 0 /\ \A i \in 1 .. n : z[i] = z[i - 1] + s[i] * w[i - 1]

\* The recursive definitions of Weight, of the value's rest and of the sum
\* define what they say.
LEMMA WeightIs ==
  ASSUME NEW n \in Nat
  PROVE  IsWeight(Weight(n), n)
<1> DEFINE X == Nat \ {0}
           F == [i \in 1 .. n |-> [x \in X |-> Base * x]]
           Fits(f) == f = [i \in 0 .. n |-> IF i = 0 THEN 1 ELSE Base * f[i - 1]]
           w == CHOOSE f : Fits(f)
<1>1. F \in [1 .. n -> [X -> X]] /\ 1 \in X
  BY BufferAssumption
<1>2. \A i \in 1 .. n, x \in X : F[i][x] = Base * x
  OBVIOUS
<1>3. PICK g : StepsTo(g, n, X, 1, F)
  <2> HIDE DEF F, X
  <2> QED BY <1>1, StepsExist
<1> HIDE DEF F
<1>4. g \in [0 .. n -> X] /\ g[0] = 1 /\ \A i \in 1 .. n : g[i] = Base * g[i - 1]
  BY <1>2, <1>3, SMTT(60) DEF StepsTo
<1>5. Fits(g)
  BY <1>4
<1>6. Fits(w)
  BY <1>5
<1>7. Weight(n) = w
  BY DEF Weight
<1> HIDE DEF w
<1>8. /\ w = [i \in 0 .. n |-> w[i]] /\ w[0] = 1
      /\ \A i \in 1 .. n : w[i - 1] \in X => w[i] = F[i][w[i - 1]]
  BY <1>2, <1>6
<1>9. StepsTo(w, n, X, 1, F)
  <2> HIDE DEF X
  <2> QED BY <1>1, <1>8, StepsUnique
<1> QED BY <1>2, <1>7, <1>9 DEF StepsTo, IsWeight

LEMMA LittleEndianIs ==
  ASSUME NEW n \in Nat, NEW value \in Nat
  PROVE  \E r : IsRest(r, value, n) /\ LittleEndian(value, n) = [i \in 1 .. n |-> r[i - 1] % Base]
<1> DEFINE F == [i \in 1 .. n |-> [x \in Nat |-> x \div Base]]
           Fits(f) == f = [i \in 0 .. n |-> IF i = 0 THEN value ELSE f[i - 1] \div Base]
           r == CHOOSE f : Fits(f)
<1>0. \A x \in Nat : x \div Base \in Nat
  BY BufferAssumption
<1>1. F \in [1 .. n -> [Nat -> Nat]]
  BY <1>0
<1>2. \A i \in 1 .. n, x \in Nat : F[i][x] = x \div Base
  OBVIOUS
<1>3. PICK g : StepsTo(g, n, Nat, value, F)
  <2> HIDE DEF F
  <2> QED BY <1>1, StepsExist
<1> HIDE DEF F
<1>4. g \in [0 .. n -> Nat] /\ g[0] = value /\ \A i \in 1 .. n : g[i] = g[i - 1] \div Base
  BY <1>2, <1>3 DEF StepsTo
<1>5. Fits(g)
  BY <1>4
<1>6. Fits(r)
  BY <1>5
<1>7. LittleEndian(value, n) = [i \in 1 .. n |-> r[i - 1] % Base]
  BY DEF LittleEndian
<1> HIDE DEF r
<1>8. /\ r = [i \in 0 .. n |-> r[i]] /\ r[0] = value
      /\ \A i \in 1 .. n : r[i - 1] \in Nat => r[i] = F[i][r[i - 1]]
  BY <1>2, <1>6
<1>9. StepsTo(r, n, Nat, value, F)
  BY <1>1, <1>8, StepsUnique
<1>10. r \in [0 .. n -> Nat] /\ r[0] = value
  BY <1>9 DEF StepsTo
<1>11. ASSUME NEW i \in 1 .. n PROVE r[i] = r[i - 1] \div Base
  <2>1. r[i] = F[i][r[i - 1]] /\ r[i - 1] \in Nat
    BY <1>9, <1>10 DEF StepsTo
  <2> QED BY <1>2, <2>1
<1> QED BY <1>7, <1>10, <1>11 DEF IsRest

LEMMA SpellsIs ==
  ASSUME NEW n \in Nat, NEW s \in [1 .. n -> Byte]
  PROVE  \E z : /\ IsSum(z, s, Weight(n), n)
                /\ \A value : Spells(s, n, value) <=> z[n] = value % Weight(n)[n]
<1> DEFINE w == Weight(n)
<1>0. w \in [0 .. n -> Nat \ {0}]
  BY WeightIs DEF IsWeight
<1> HIDE DEF w
<1> DEFINE F == [i \in 1 .. n |-> [x \in Nat |-> x + s[i] * w[i - 1]]]
           Fits(f) == f = [i \in 0 .. n |-> IF i = 0 THEN 0 ELSE f[i - 1] + s[i] * w[i - 1]]
           z == CHOOSE f : Fits(f)
<1>1. F \in [1 .. n -> [Nat -> Nat]]
  <2>1. \A i \in 1 .. n : s[i] * w[i - 1] \in Nat
    <3> SUFFICES ASSUME NEW i \in 1 .. n PROVE s[i] * w[i - 1] \in Nat
      OBVIOUS
    <3>1. s[i] \in Nat /\ w[i - 1] \in Nat
      BY <1>0, BufferAssumption DEF Byte
    <3> QED BY <3>1
  <2> QED BY <2>1
<1>2. \A i \in 1 .. n, x \in Nat : F[i][x] = x + s[i] * w[i - 1]
  OBVIOUS
<1>3. PICK g : StepsTo(g, n, Nat, 0, F)
  <2> HIDE DEF F
  <2> QED BY <1>1, StepsExist
<1> HIDE DEF F
<1>4. g \in [0 .. n -> Nat] /\ g[0] = 0 /\ \A i \in 1 .. n : g[i] = g[i - 1] + s[i] * w[i - 1]
  <2>1. g \in [0 .. n -> Nat] /\ g[0] = 0 /\ \A i \in 1 .. n : g[i] = F[i][g[i - 1]]
    BY <1>3 DEF StepsTo
  <2>2. ASSUME NEW i \in 1 .. n PROVE g[i] = g[i - 1] + s[i] * w[i - 1]
    <3>1. g[i] = F[i][g[i - 1]] /\ g[i - 1] \in Nat
      BY <2>1
    <3> QED BY <1>2, <3>1
  <2> QED BY <2>1, <2>2
<1>5. Fits(g)
  BY <1>4
<1>6. Fits(z)
  BY <1>5
<1>7. \A value : Spells(s, n, value) <=> z[n] = value % w[n]
  BY DEF Spells, w
<1> HIDE DEF z
<1>8. /\ z = [i \in 0 .. n |-> z[i]] /\ z[0] = 0
      /\ \A i \in 1 .. n : z[i - 1] \in Nat => z[i] = F[i][z[i - 1]]
  BY <1>2, <1>6
<1>9. StepsTo(z, n, Nat, 0, F)
  BY <1>1, <1>8, StepsUnique
<1>10. z \in [0 .. n -> Nat] /\ z[0] = 0
  BY <1>9 DEF StepsTo
<1>11. ASSUME NEW i \in 1 .. n PROVE z[i] = z[i - 1] + s[i] * w[i - 1]
  <2>1. z[i] = F[i][z[i - 1]] /\ z[i - 1] \in Nat
    BY <1>9, <1>10 DEF StepsTo
  <2> QED BY <1>2, <2>1
<1> QED BY <1>7, <1>10, <1>11 DEF IsSum, w

\* One more byte of value d on top of a sum below the weight.
LEMMA SumBelow ==
  ASSUME NEW w \in Nat \ {0}, NEW z \in 0 .. w - 1, NEW d \in Byte
  PROVE  z + d * w \in 0 .. Base * w - 1
<1>1. d \in Nat /\ Base \in Nat /\ d + 1 <= Base
  BY BufferAssumption DEF Byte
<1>2. (d + 1) * w <= Base * w
  BY <1>1
<1>3. (d + 1) * w = d * w + w
  BY <1>1
<1> QED BY <1>1, <1>2, <1>3

\* What the lowest i bytes of a number add up to is below their weight.
LEMMA SumsBelow ==
  ASSUME NEW n \in Nat, NEW s \in [1 .. n -> Byte], NEW w, IsWeight(w, n),
         NEW z, IsSum(z, s, w, n)
  PROVE  \A i \in 0 .. n : z[i] \in 0 .. w[i] - 1
<1> DEFINE S == {m \in Nat : m <= n => z[m] \in 0 .. w[m] - 1}
<1>1. 0 \in S
  BY DEF IsWeight, IsSum
<1>2. ASSUME NEW m \in Nat, m \in S PROVE m + 1 \in S
  <2> SUFFICES ASSUME m + 1 <= n PROVE z[m + 1] \in 0 .. w[m + 1] - 1
    OBVIOUS
  <2>1. m + 1 \in 1 .. n /\ (m + 1) - 1 = m /\ z[m] \in 0 .. w[m] - 1 /\ w[m] \in Nat \ {0}
    BY <1>2 DEF IsWeight
  <2>2. z[m] + s[m + 1] * w[m] \in 0 .. Base * w[m] - 1
    BY <2>1, SumBelow
  <2>3. z[m + 1] = z[m] + s[m + 1] * w[m] /\ w[m + 1] = Base * w[m]
    BY <2>1 DEF IsSum, IsWeight
  <2> QED BY <2>2, <2>3
<1>3. Nat \subseteq S
  <2> HIDE DEF S
  <2> QED BY <1>1, <1>2, NatSetInduction
<1> QED BY <1>3

\* One step of taking the lowest byte off: w * r + z stays the same number.
LEMMA ByteOff ==
  ASSUME NEW w \in Nat \ {0}, NEW r \in Nat, NEW z \in Nat
  PROVE  w * r + z = (Base * w) * (r \div Base) + (z + (r % Base) * w)
<1>1. Base \in Nat \ {0} /\ r \in Int
  BY BufferAssumption
<1> DEFINE q == r \div Base
           d == r % Base
<1>2. d \in 0 .. Base - 1 /\ q \in Int /\ r = Base * q + d
  BY <1>1, DivMod
<1> HIDE DEF q, d
<1>3. w * r = w * (Base * q) + w * d
  BY <1>1, <1>2
<1>4. w * (Base * q) = (Base * w) * q
  BY <1>1, <1>2
<1>5. w * d = d * w
  BY <1>2
<1>6. w * (Base * q) \in Int /\ w * d \in Int
  BY <1>1, <1>2
<1>7. w * r + z = (Base * w) * q + (z + d * w)
  <2> DEFINE A == (Base * w) * q
             B == d * w
             C == w * r
  <2>1. A \in Int /\ B \in Int /\ C = A + B
    BY <1>3, <1>4, <1>5, <1>6
  <2> HIDE DEF A, B, C
  <2>2. C + z = A + (z + B)
    BY <2>1
  <2> QED BY <2>2 DEF A, B, C
<1> QED BY <1>7 DEF q, d

\* The bytes that shifting leaves spell the value.
LEMMA LittleEndianSpells ==
  ASSUME NEW n \in Nat, NEW value \in Nat
  PROVE  /\ LittleEndian(value, n) \in [1 .. n -> Byte]
         /\ Spells(LittleEndian(value, n), n, value)
<1> DEFINE s == LittleEndian(value, n)
           w == Weight(n)
<1>1. PICK r : IsRest(r, value, n) /\ s = [i \in 1 .. n |-> r[i - 1] % Base]
  BY LittleEndianIs
<1>2. s \in [1 .. n -> Byte]
  <2>1. \A i \in 1 .. n : r[i - 1] % Base \in Byte
    <3> SUFFICES ASSUME NEW i \in 1 .. n PROVE r[i - 1] % Base \in Byte
      OBVIOUS
    <3>1. r[i - 1] \in Nat /\ Base \in Nat \ {0}
      BY <1>1, BufferAssumption DEF IsRest
    <3> QED BY <3>1, ModRange DEF Byte
  <2> QED BY <1>1, <2>1
<1>3. IsWeight(w, n)
  BY WeightIs
<1> HIDE DEF w, s
<1>4. PICK z : IsSum(z, s, w, n) /\ (Spells(s, n, value) <=> z[n] = value % w[n])
  BY <1>2, SpellsIs DEF w
<1>5. \A i \in 0 .. n : z[i] \in 0 .. w[i] - 1
  BY <1>2, <1>3, <1>4, SumsBelow
<1> DEFINE S == {m \in Nat : m <= n => value = w[m] * r[m] + z[m]}
<1>6. 0 \in S
  BY <1>1, <1>3, <1>4 DEF IsRest, IsWeight, IsSum
<1>7. ASSUME NEW m \in Nat, m \in S PROVE m + 1 \in S
  <2> SUFFICES ASSUME m + 1 <= n PROVE value = w[m + 1] * r[m + 1] + z[m + 1]
    OBVIOUS
  <2>1. m + 1 \in 1 .. n /\ (m + 1) - 1 = m /\ value = w[m] * r[m] + z[m]
    BY <1>7
  <2>2. w[m] \in Nat \ {0} /\ r[m] \in Nat /\ z[m] \in Nat
    BY <2>1, <1>1, <1>3, <1>4 DEF IsRest, IsWeight, IsSum
  <2>3. /\ w[m + 1] = Base * w[m] /\ r[m + 1] = r[m] \div Base
        /\ z[m + 1] = z[m] + (r[m] % Base) * w[m]
    BY <2>1, <1>1, <1>3, <1>4 DEF IsRest, IsWeight, IsSum
  <2>4. w[m] * r[m] + z[m] = (Base * w[m]) * (r[m] \div Base) + (z[m] + (r[m] % Base) * w[m])
    BY <2>2, ByteOff
  <2> QED BY <2>1, <2>3, <2>4
<1>8. n \in S
  <2> HIDE DEF S
  <2> QED BY <1>6, <1>7, NatSetInduction
<1>9. w[n] \in Nat \ {0} /\ r[n] \in Int /\ z[n] \in 0 .. w[n] - 1
  BY <1>1, <1>3, <1>5 DEF IsRest, IsWeight
<1>10. (w[n] * r[n] + z[n]) % w[n] = z[n]
  BY <1>9, ModOf
<1> QED BY <1>2, <1>4, <1>8, <1>10 DEF s

\* No other bytes do.
LEMMA SpelledOnce ==
  ASSUME NEW n \in Nat, NEW value, NEW s \in [1 .. n -> Byte], NEW t \in [1 .. n -> Byte],
         Spells(s, n, value), Spells(t, n, value)
  PROVE  s = t
<1> DEFINE w == Weight(n)
<1>1. IsWeight(w, n)
  BY WeightIs
<1>2. PICK y : IsSum(y, s, w, n) /\ (Spells(s, n, value) <=> y[n] = value % w[n])
  BY SpellsIs
<1>3. PICK z : IsSum(z, t, w, n) /\ (Spells(t, n, value) <=> z[n] = value % w[n])
  BY SpellsIs
<1> HIDE DEF w
<1>4. \A i \in 0 .. n : y[i] \in 0 .. w[i] - 1 /\ z[i] \in 0 .. w[i] - 1
  BY <1>1, <1>2, <1>3, SumsBelow
<1> DEFINE S == {m \in Nat : m <= n => y[n - m] = z[n - m]}
<1>5. 0 \in S
  BY <1>2, <1>3
<1>6. ASSUME NEW i \in 1 .. n, y[i] = z[i] PROVE s[i] = t[i] /\ y[i - 1] = z[i - 1]
  <2>0. i - 1 \in 0 .. n /\ s[i] \in Byte /\ t[i] \in Byte
    OBVIOUS
  <2>1. /\ w[i - 1] \in Nat \ {0} /\ s[i] \in Int /\ t[i] \in Int
        /\ y[i - 1] \in 0 .. w[i - 1] - 1 /\ z[i - 1] \in 0 .. w[i - 1] - 1
    BY <1>1, <1>4, <2>0, BufferAssumption DEF IsWeight, Byte
  <2>2. y[i - 1] + s[i] * w[i - 1] = z[i - 1] + t[i] * w[i - 1]
    BY <1>2, <1>3, <1>6 DEF IsSum
  <2>3. w[i - 1] * s[i] + y[i - 1] = w[i - 1] * t[i] + z[i - 1]
    BY <2>1, <2>2
  <2> DEFINE c == w[i - 1]
             q == s[i]
             p == t[i]
             a == y[i - 1]
             b == z[i - 1]
  <2>4. /\ c \in Nat \ {0} /\ q \in Int /\ p \in Int /\ a \in 0 .. c - 1 /\ b \in 0 .. c - 1
        /\ c * q + a = c * p + b
    BY <2>1, <2>3
  <2> HIDE DEF c, q, p, a, b
  <2>5. q = p /\ a = b
    BY <2>4, ModUnique
  <2> QED BY <2>5 DEF q, p, a, b
<1>7. ASSUME NEW m \in Nat, m \in S PROVE m + 1 \in S
  <2> SUFFICES ASSUME m + 1 <= n PROVE y[n - (m + 1)] = z[n - (m + 1)]
    OBVIOUS
  <2>1. n - m \in 1 .. n /\ n - (m + 1) = (n - m) - 1 /\ y[n - m] = z[n - m]
    BY <1>7
  <2> QED BY <1>6, <2>1
<1>8. Nat \subseteq S
  <2> HIDE DEF S
  <2> QED BY <1>5, <1>7, NatSetInduction
<1>9. \A i \in 1 .. n : s[i] = t[i]
  <2> SUFFICES ASSUME NEW i \in 1 .. n PROVE s[i] = t[i]
    OBVIOUS
  <2>1. n - i \in Nat /\ n - i <= n /\ n - (n - i) = i
    OBVIOUS
  <2>2. n - i \in S
    BY <1>8, <2>1
  <2> QED BY <1>6, <2>1, <2>2
<1> QED BY <1>9

\* What is written for a value is what spells it (buf.c:108).
LEMMA SpelledIs ==
  ASSUME NEW n \in Nat, NEW value \in Nat
  PROVE  /\ Spelled(value, n) = LittleEndian(value, n)
         /\ LittleEndian(value, n) \in Seq(Byte) /\ Len(LittleEndian(value, n)) = n
<1>1. /\ LittleEndian(value, n) \in [1 .. n -> Byte]
      /\ Spells(LittleEndian(value, n), n, value)
  BY LittleEndianSpells
<1>2. Spelled(value, n) \in [1 .. n -> Byte] /\ Spells(Spelled(value, n), n, value)
  BY <1>1 DEF Spelled, Byte
<1>3. Spelled(value, n) = LittleEndian(value, n)
  BY <1>1, <1>2, SpelledOnce
<1> QED BY <1>1, <1>3
-----------------------------------------------------------------------------
(* The inductive invariant. *)

Kept == [owner : {"arena", "caller"}, at : Words, align : Nat \ {0}, bytes : Seq(Byte),
         room : Words]

LEMMA KeptRecord ==
  ASSUME NEW o \in {"arena", "caller"}, NEW at \in Words, NEW align \in Nat \ {0},
         NEW s \in Seq(Byte), NEW room \in Words
  PROVE  [owner |-> o, at |-> at, align |-> align, bytes |-> s, room |-> room] \in Kept
BY DEF Kept

Types ==
  /\ bytes \in [Words -> Byte]
  /\ arena \in [blocks : Seq(Block), default : Nat \ {0}, total : Words]
  /\ handed \in SUBSET Kept /\ IsFiniteSet(handed) /\ failed \in BOOLEAN
  /\ buf \in [data : Words, len : Words, cap : Words] /\ log \in Seq(Byte)

\* The chunks lie apart, where addresses are.
Heaped ==
  /\ chunks \in SUBSET [at : 1 .. WordMax, len : 1 .. WordMax]
  /\ \A c \in chunks : Ends(c) <= WordMax
  /\ \A c, d \in chunks : c # d => Apart(c, d)

\* Every block is a chunk of its own, used up to its capacity at most.
BlocksOwned ==
  /\ \A k \in DOMAIN arena.blocks :
       /\ arena.blocks[k].data > Header
       /\ arena.blocks[k].used <= arena.blocks[k].capacity
  /\ \A k, l \in DOMAIN arena.blocks :
       BlockChunk(arena.blocks[k]) = BlockChunk(arena.blocks[l]) => k = l

\* The buffer has a chunk as soon as it has a capacity.
BufOwned ==
  /\ buf.data = Null <=> buf.cap = 0
  /\ buf.len <= buf.cap

\* A chunk belongs to a block, to the buffer or to one caller, to nobody else.
Owned ==
  /\ chunks = ArenaChunks \cup BufChunks(buf) \cup CallerChunks
  /\ ArenaChunks \cap BufChunks(buf) = {}
  /\ (ArenaChunks \cup BufChunks(buf)) \cap CallerChunks = {}
  /\ \A g, h \in handed : /\ g.owner = "caller" /\ h.owner = "caller"
                          /\ g.at = h.at /\ g.room = h.room
                          => g = h

\* What the arena handed out lies in the used part of a block, what a caller
\* took in the chunk it took.
Placed(h) ==
  \/ /\ h.owner = "arena"
     /\ \E k \in DOMAIN arena.blocks :
          /\ arena.blocks[k].data <= h.at
          /\ h.at + Len(h.bytes) <= arena.blocks[k].data + arena.blocks[k].used
  \/ h.owner = "caller" /\ Len(h.bytes) <= h.room

Contents ==
  /\ \A h \in handed : Placed(h) /\ HoldsAt(bytes, h.at, h.bytes) /\ h.at % h.align = 0
  /\ Len(log) = buf.len /\ HoldsAt(bytes, buf.data, log)

StoreInv == Types /\ Heaped /\ BlocksOwned /\ BufOwned /\ Owned /\ Contents
\* The chunks that are no buffer's hold what was handed out.
LEMMA HandedInChunk ==
  ASSUME StoreInv, NEW h \in handed
  PROVE  \E c \in ArenaChunks \cup CallerChunks :
           /\ c \in chunks /\ c.at <= h.at /\ h.at + Len(h.bytes) <= c.at + c.len
           /\ h.at + Len(h.bytes) <= WordMax
<1>1. h \in Kept /\ Placed(h)
  BY DEF StoreInv, Types, Contents
<1>2. \A c \in chunks : c.at + c.len <= WordMax
  BY DEF StoreInv, Heaped, Ends
<1>3. CASE h.owner = "arena"
  <2>1. PICK k \in DOMAIN arena.blocks :
               /\ arena.blocks[k].data <= h.at
               /\ h.at + Len(h.bytes) <= arena.blocks[k].data + arena.blocks[k].used
    BY <1>1, <1>3 DEF Placed
  <2> DEFINE b == arena.blocks[k]
             c == BlockChunk(b)
  <2>2. b \in Block /\ b.data > Header /\ b.used <= b.capacity
    BY DEF StoreInv, Types, BlocksOwned
  <2>3. c \in ArenaChunks /\ c \in chunks
    BY DEF ArenaChunks, Blocks, StoreInv, Owned
  <2>4. c.at = b.data - Header /\ c.len = Header + b.capacity
    BY DEF BlockChunk, Chunk
  <2>5. c.at <= h.at /\ h.at + Len(h.bytes) <= c.at + c.len
    <3>1. h.at \in Nat /\ Len(h.bytes) \in Nat /\ Header \in Nat
      BY <1>1, ArenaAssumption DEF Kept, Words
    <3> HIDE DEF c
    <3> QED BY <2>1, <2>2, <2>4, <3>1, SMTT(60) DEF Block
  <2>6. h.at + Len(h.bytes) <= WordMax
    <3>1. c.at \in Nat /\ c.len \in Nat /\ h.at \in Nat /\ Len(h.bytes) \in Nat
      BY <1>1, <2>3 DEF StoreInv, Heaped, Kept, Words
    <3> HIDE DEF c
    <3> QED BY <1>2, <2>3, <2>5, <3>1, HeapAssumption
  <2> QED BY <2>3, <2>5, <2>6
<1>4. CASE h.owner = "caller"
  <2> DEFINE c == Chunk(h.at, h.room)
  <2>1. c \in CallerChunks /\ c \in chunks
    BY <1>4 DEF CallerChunks, StoreInv, Owned
  <2>2. c.at = h.at /\ c.len = h.room
    BY DEF Chunk
  <2>3. h.at \in Nat /\ Len(h.bytes) \in Nat /\ h.room \in Nat /\ Len(h.bytes) <= h.room
    BY <1>1, <1>4 DEF Kept, Words, Placed
  <2> HIDE DEF c
  <2> QED BY <1>2, <2>1, <2>2, <2>3, HeapAssumption
<1> QED BY <1>1, <1>3, <1>4 DEF Kept

\* What the buffer has written lies in memory.
LEMMA BufInMemory ==
  ASSUME StoreInv
  PROVE  /\ buf.data \in Nat /\ buf.data + buf.cap <= WordMax /\ Len(log) = buf.len
         /\ buf.len \in Nat /\ buf.cap \in Nat
<1>1. buf \in [data : Words, len : Words, cap : Words] /\ Len(log) = buf.len
  BY DEF StoreInv, Types, Contents
<1>2. CASE buf.data = Null
  BY <1>1, <1>2, HeapAssumption DEF StoreInv, BufOwned, Words, Null
<1>3. CASE buf.data # Null
  <2> DEFINE c == Chunk(buf.data, buf.cap)
  <2>1. c \in chunks
    BY <1>3 DEF StoreInv, Owned, BufChunks
  <2>2. c.at + c.len <= WordMax /\ c.at = buf.data /\ c.len = buf.cap
    BY <2>1 DEF StoreInv, Heaped, Ends, Chunk
  <2> QED BY <1>1, <2>2 DEF Words
<1> QED BY <1>2, <1>3

\* A store apart from the chunks of blocks and callers leaves alone what was
\* handed out.
LEMMA HandedUntouched ==
  ASSUME StoreInv, NEW at \in Nat, NEW s \in Seq(Byte),
         \A c \in ArenaChunks \cup CallerChunks : c.at + c.len <= at \/ at + Len(s) <= c.at
  PROVE  \A h \in handed : HoldsAt(Stored(bytes, at, s), h.at, h.bytes)
<1> SUFFICES ASSUME NEW h \in handed PROVE HoldsAt(Stored(bytes, at, s), h.at, h.bytes)
  OBVIOUS
<1>1. PICK c \in ArenaChunks \cup CallerChunks :
             /\ c \in chunks /\ c.at <= h.at /\ h.at + Len(h.bytes) <= c.at + c.len
             /\ h.at + Len(h.bytes) <= WordMax
  BY HandedInChunk
<1> DEFINE x == h.at
           t == h.bytes
<1>2. /\ x \in Nat /\ t \in Seq(Byte) /\ Len(t) \in Nat /\ HoldsAt(bytes, x, t)
      /\ bytes \in [Words -> Byte] /\ c.at \in Nat /\ c.len \in Nat
  BY <1>1 DEF StoreInv, Types, Kept, Contents, Heaped, Words
<1>3. c.at <= x /\ x + Len(t) <= c.at + c.len /\ x + Len(t) - 1 <= WordMax
  BY <1>1, <1>2, HeapAssumption
<1>4. x + Len(t) <= at \/ at + Len(s) <= x
  <2>1. Len(s) \in Nat
    OBVIOUS
  <2> HIDE DEF x, t
  <2> QED BY <1>1, <1>2, <1>3, <2>1
<1> HIDE DEF x, t
<1>5. HoldsAt(Stored(bytes, at, s), x, t)
  BY <1>2, <1>3, <1>4, StoredApart
<1> QED BY <1>5 DEF x, t

\* The buffer's chunk lies apart from those of blocks and callers.
LEMMA BufApart ==
  ASSUME StoreInv, buf.data # Null, NEW c \in ArenaChunks \cup CallerChunks
  PROVE  c.at + c.len <= buf.data \/ buf.data + buf.cap <= c.at
<1> DEFINE d == Chunk(buf.data, buf.cap)
<1>1. d \in BufChunks(buf)
  BY DEF BufChunks
<1>2. c # d /\ c \in chunks /\ d \in chunks
  BY <1>1 DEF StoreInv, Owned
<1>3. Apart(c, d) /\ d.at = buf.data /\ d.len = buf.cap
  BY <1>2 DEF StoreInv, Heaped, Chunk
<1> QED BY <1>3 DEF Apart, Ends
-----------------------------------------------------------------------------
(* The buffer's calls. *)

\* A store into the buffer's chunk.
LEMMA BufStoreKeeps ==
  ASSUME StoreInv, NEW at \in Nat, NEW s \in Seq(Byte),
         buf.data <= at, at + Len(s) <= buf.data + buf.cap,
         bytes' = Stored(bytes, at, s), UNCHANGED <<chunks, arena, handed>>, failed' = FALSE,
         buf' \in [data : Words, len : Words, cap : Words],
         buf'.data = buf.data, buf'.cap = buf.cap, buf'.len <= buf.cap,
         log' \in Seq(Byte), Len(log') = buf'.len, HoldsAt(bytes', buf.data, log')
  PROVE  StoreInv'
<1>0. Len(s) \in Nat /\ bytes \in [Words -> Byte] /\ buf \in [data : Words, len : Words, cap : Words]
  BY DEF StoreInv, Types
<1>1. Types'
  BY <1>0, StoredType DEF StoreInv, Types
<1>2. Heaped'
  BY DEF StoreInv, Heaped
<1>3. BlocksOwned'
  BY DEF StoreInv, BlocksOwned
<1>4. BufOwned'
  BY DEF StoreInv, BufOwned
<1>5. BufChunks(buf)' = BufChunks(buf) /\ ArenaChunks' = ArenaChunks /\ CallerChunks' = CallerChunks
  BY DEF BufChunks, ArenaChunks, Blocks, CallerChunks
<1>6. Owned'
  BY <1>5 DEF StoreInv, Owned
<1>7. \A c \in ArenaChunks \cup CallerChunks : c.at + c.len <= at \/ at + Len(s) <= c.at
  <2> SUFFICES ASSUME NEW c \in ArenaChunks \cup CallerChunks
               PROVE  c.at + c.len <= at \/ at + Len(s) <= c.at
    OBVIOUS
  <2>0. c.at \in Nat /\ c.len \in Nat
    BY DEF StoreInv, Owned, Heaped
  <2>1. CASE buf.data # Null
    <3>1. c.at + c.len <= buf.data \/ buf.data + buf.cap <= c.at
      BY <2>1, BufApart
    <3> QED BY <1>0, <2>0, <3>1 DEF Words
  <2>2. CASE buf.data = Null
    <3>1. buf.cap = 0
      BY <2>2 DEF StoreInv, BufOwned
    <3> QED BY <1>0, <2>0, <2>2, <3>1 DEF Null
  <2> QED BY <2>1, <2>2
<1>8. \A h \in handed : HoldsAt(bytes', h.at, h.bytes)
  BY <1>7, HandedUntouched
<1>9. Contents'
  BY <1>8 DEF StoreInv, Contents, Placed
<1> QED BY <1>1, <1>2, <1>3, <1>4, <1>6, <1>9 DEF StoreInv

\* Memory that holds s, and t behind it, holds both in a row.
LEMMA HoldsBoth ==
  ASSUME NEW m, NEW at \in Nat, NEW s \in Seq(Byte), NEW t \in Seq(Byte),
         HoldsAt(m, at, s), HoldsAt(m, at + Len(s), t)
  PROVE  HoldsAt(m, at, s \o t)
<1> SUFFICES ASSUME NEW i \in 1 .. Len(s \o t) PROVE m[at + i - 1] = (s \o t)[i]
  BY DEF HoldsAt
<1>1. Len(s \o t) = Len(s) + Len(t) /\ Len(s) \in Nat /\ Len(t) \in Nat
  OBVIOUS
<1>2. CASE i <= Len(s)
  BY <1>1, <1>2 DEF HoldsAt
<1>3. CASE i > Len(s)
  <2>1. i - Len(s) \in 1 .. Len(t) /\ at + Len(s) + (i - Len(s)) - 1 = at + i - 1
    BY <1>1, <1>3
  <2>2. m[at + Len(s) + (i - Len(s)) - 1] = t[i - Len(s)]
    BY <2>1 DEF HoldsAt
  <2> QED BY <1>1, <1>3, <2>1, <2>2
<1> QED BY <1>1, <1>2, <1>3

\* Bytes that fit are written behind the others (buf.c:63).
LEMMA ExtendInPlace ==
  ASSUME StoreInv, NEW n \in Words, NEW s \in Seq(Byte), Len(s) <= n, HasRoom(n),
         bytes' = Stored(bytes, buf.data + buf.len, s),
         buf' = [buf EXCEPT !.len = @ + Len(s)],
         log' = log \o s, Done, UNCHANGED chunks
  PROVE  StoreInv'
<1> DEFINE at == buf.data + buf.len
<1>1. /\ buf \in [data : Words, len : Words, cap : Words] /\ bytes \in [Words -> Byte]
      /\ log \in Seq(Byte) /\ HoldsAt(bytes, buf.data, log) /\ Len(s) \in Nat
  BY DEF StoreInv, Types, Contents
<1>2. /\ buf.data \in Nat /\ buf.data + buf.cap <= WordMax /\ Len(log) = buf.len
      /\ buf.len \in Nat /\ buf.cap \in Nat
  BY BufInMemory
<1>3. buf.len + Len(s) <= buf.cap
  BY <1>1, <1>2 DEF HasRoom, Words
<1>4. at \in Nat /\ buf.data <= at /\ at + Len(s) <= buf.data + buf.cap /\ at + Len(s) <= WordMax
  BY <1>1, <1>2, <1>3, HeapAssumption
<1>5. buf' \in [data : Words, len : Words, cap : Words] /\ buf'.data = buf.data
      /\ buf'.cap = buf.cap /\ buf'.len = buf.len + Len(s)
  <2> DEFINE g == buf.len + Len(s)
  <2>1. buf.cap \in Words
    BY <1>1
  <2>2. g \in Words
    BY <1>1, <1>2, <1>3, <2>1, HeapAssumption DEF Words
  <2>3. buf' = [buf EXCEPT !.len = g]
    OBVIOUS
  <2> HIDE DEF g
  <2>4. buf'.len = g /\ buf' \in [data : Words, len : Words, cap : Words]
    BY <1>1, <2>2, <2>3
  <2>5. buf'.data = buf.data /\ buf'.cap = buf.cap
    BY <1>1, <2>3
  <2> QED BY <2>4, <2>5 DEF g
<1>6. HoldsAt(bytes', at, s)
  <2>1. bytes' = Stored(bytes, at, s) /\ at \in Nat /\ at + Len(s) - 1 <= WordMax
    BY <1>1, <1>4, HeapAssumption
  <2> HIDE DEF at
  <2> QED BY <1>1, <2>1, StoredHolds
<1>7. HoldsAt(bytes', buf.data, log)
  <2>1. buf.data + Len(log) - 1 <= WordMax /\ buf.data + Len(log) <= at
    BY <1>2, <1>4, HeapAssumption, SMTT(60)
  <2> HIDE DEF at
  <2>2. HoldsAt(Stored(bytes, at, s), buf.data, log)
    BY <1>1, <1>2, <1>4, <2>1, StoredApart
  <2> QED BY <2>2 DEF at
<1>8. HoldsAt(bytes', buf.data, log \o s)
  BY <1>1, <1>2, <1>6, <1>7, HoldsBoth
<1>9. log' \in Seq(Byte) /\ Len(log') = buf'.len
  <2>1. log' = log \o s /\ buf'.len = Len(log) + Len(s)
    BY <1>2, <1>5
  <2> QED BY <1>1, <2>1
<1>10. UNCHANGED <<chunks, arena, handed>> /\ failed' = FALSE
  BY DEF Done
<1> HIDE DEF at
<1>11. bytes' = Stored(bytes, at, s) /\ buf'.len <= buf.cap
  BY <1>3, <1>5 DEF at
<1> QED BY <1>4, <1>5, <1>8, <1>9, <1>10, <1>11, BufStoreKeeps

\* A patch is written over the bytes at its offset (buf.c:156).
LEMMA BufPatchKeeps ==
  ASSUME StoreInv, NEW offset \in Words, NEW n \in 1 .. WordMax, NEW value \in Nat,
         PatchOK(offset, n), BufPatch(offset, value, n)
  PROVE  StoreInv'
<1> DEFINE s  == LittleEndian(value, n)
           at == buf.data + offset
<1>1. s \in Seq(Byte) /\ Len(s) = n /\ Spelled(value, n) = s
  BY SpelledIs
<1>2. /\ buf \in [data : Words, len : Words, cap : Words] /\ bytes \in [Words -> Byte]
      /\ log \in Seq(Byte) /\ HoldsAt(bytes, buf.data, log)
  BY DEF StoreInv, Types, Contents
<1>3. /\ buf.data \in Nat /\ buf.data + buf.cap <= WordMax /\ Len(log) = buf.len
      /\ buf.len \in Nat /\ buf.cap \in Nat /\ buf.len <= buf.cap
  BY BufInMemory DEF StoreInv, BufOwned
<1> HIDE DEF s
<1>4. offset + n <= buf.len
  <2>1. CASE offset + n <= WordMax
    <3> DEFINE d == offset + n
               w == WordMax + 1
    <3>1. d \in 0 .. w - 1 /\ w \in Nat \ {0}
      BY <2>1, HeapAssumption DEF Words
    <3> HIDE DEF d, w
    <3>2. d % w = d
      BY <3>1, ModSmall
    <3> QED BY <3>2 DEF d, w, PatchOK, Wrap
  <2>2. CASE offset + n > WordMax
    <3> DEFINE w == WordMax + 1
               a == offset + n - w
    <3>1. a \in 0 .. w - 1 /\ a < offset /\ a + w = offset + n /\ w \in Nat \ {0} /\ a \in Nat
      BY <2>2, HeapAssumption DEF Words
    <3> HIDE DEF a, w
    <3>2. (a + w) % w = a
      BY <3>1, ModOver, ModSmall
    <3>3. Wrap(offset + n) = a
      BY <3>1, <3>2 DEF Wrap, w
    <3>4. a >= offset
      BY <3>3 DEF PatchOK
    <3>5. offset \in Nat
      BY DEF Words
    <3> QED BY <3>1, <3>4, <3>5
  <2> QED BY <2>1, <2>2, HeapAssumption DEF Words
<1>5. at \in Nat /\ buf.data <= at /\ at + Len(s) <= buf.data + buf.cap /\ at + Len(s) - 1 <= WordMax
  <2>1. PICK D \in Nat, C \in Nat, L \in Nat : D = buf.data /\ C = buf.cap /\ L = buf.len
    BY <1>3
  <2>2. D + C <= WordMax /\ L <= C /\ offset + n <= L /\ offset \in Nat /\ n \in Nat \ {0}
    BY <1>3, <1>4, <2>1 DEF Words
  <2>3. D + offset \in Nat /\ D <= D + offset /\ D + offset + n <= D + C
        /\ D + offset + n - 1 <= WordMax
    BY <2>2, HeapAssumption
  <2> QED BY <1>1, <2>1, <2>3
<1>6. /\ bytes' = Stored(bytes, at, s) /\ UNCHANGED <<chunks, arena, handed>> /\ failed' = FALSE
      /\ buf' = buf
      /\ log' = [i \in DOMAIN log |-> IF i \in offset + 1 .. offset + n THEN s[i - offset] ELSE log[i]]
  BY <1>1 DEF BufPatch, Done, s
<1>7. log' \in Seq(Byte) /\ Len(log') = buf.len
  <2>1. \A i \in offset + 1 .. offset + n : s[i - offset] \in Byte
    BY <1>1 DEF Words
  <2>2. \A i \in 1 .. Len(log) : log[i] \in Byte
    BY <1>2
  <2>3. log' \in [1 .. Len(log) -> Byte]
    BY <1>2, <1>6, <2>1, <2>2
  <2> QED BY <1>3, <2>3
<1>8. HoldsAt(bytes', buf.data, log')
  <2> SUFFICES ASSUME NEW i \in 1 .. Len(log') PROVE bytes'[buf.data + i - 1] = log'[i]
    BY DEF HoldsAt
  <2>1. i \in 1 .. Len(log) /\ buf.data + i - 1 \in Words
    BY <1>3, <1>7, HeapAssumption, SMTT(60) DEF Words
  <2>2. CASE i \in offset + 1 .. offset + n
    <3>1. buf.data + i - 1 \in at .. at + Len(s) - 1 /\ (buf.data + i - 1) - at + 1 = i - offset
      BY <1>1, <1>3, <2>1, <2>2, SMTT(60) DEF Words
    <3>2. bytes'[buf.data + i - 1] = s[i - offset]
      BY <1>2, <1>6, <2>1, <3>1 DEF Stored
    <3> QED BY <1>6, <2>1, <2>2, <3>2
  <2>3. CASE i \notin offset + 1 .. offset + n
    <3>1. buf.data + i - 1 \notin at .. at + Len(s) - 1
      BY <1>1, <1>3, <2>1, <2>3 DEF Words
    <3>2. bytes'[buf.data + i - 1] = bytes[buf.data + i - 1]
      BY <1>2, <1>6, <2>1, <3>1 DEF Stored
    <3> QED BY <1>2, <1>6, <2>1, <2>3, <3>2 DEF HoldsAt
  <2> QED BY <2>2, <2>3
<1> HIDE DEF at
<1> QED BY <1>1, <1>2, <1>3, <1>5, <1>6, <1>7, <1>8, BufStoreKeeps
\* Bytes that do not fit are written to a new place, the others copied there
\* (buf.c:53).
LEMMA ExtendMoved ==
  ASSUME StoreInv, NEW n \in Words, NEW s \in Seq(Byte), Len(s) <= n, ~HasRoom(n),
         ~TooMany(n), NEW p \in NewPlaces(n),
         chunks' = (chunks \ BufChunks(buf)) \cup {Chunk(p, NewCap(n))},
         bytes' = Stored(Stored(bytes, p, Load(bytes, buf.data, buf.len)), p + buf.len, s),
         buf' = [data |-> p, len |-> buf.len + Len(s), cap |-> NewCap(n)],
         log' = log \o s, Done
  PROVE  StoreInv'
<1>1. /\ buf \in [data : Words, len : Words, cap : Words] /\ bytes \in [Words -> Byte]
      /\ log \in Seq(Byte) /\ HoldsAt(bytes, buf.data, log) /\ Len(s) \in Nat
  BY DEF StoreInv, Types, Contents
<1>2. /\ buf.data \in Nat /\ buf.data + buf.cap <= WordMax /\ Len(log) = buf.len
      /\ buf.len \in Nat /\ buf.cap \in Nat /\ buf.len <= buf.cap
  BY BufInMemory DEF StoreInv, BufOwned
<1>3. Needed(n) = buf.len + n /\ Needed(n) \in Words
  <2>1. CASE buf.len + n <= WordMax
    <3> DEFINE d == buf.len + n
               w == WordMax + 1
    <3>1. d \in 0 .. w - 1 /\ w \in Nat \ {0}
      BY <1>2, <2>1, HeapAssumption DEF Words
    <3> HIDE DEF d, w
    <3>2. d % w = d
      BY <3>1, ModSmall
    <3>3. Needed(n) = buf.len + n
      BY <3>2 DEF d, w, Needed, Wrap
    <3> QED BY <1>2, <2>1, <3>3 DEF Words
  <2>2. CASE buf.len + n > WordMax
    <3> DEFINE w == WordMax + 1
               a == buf.len + n - w
    <3>0. buf.len \in Words
      BY <1>1
    <3>1. a \in 0 .. w - 1 /\ a < buf.len /\ a + w = buf.len + n /\ w \in Nat \ {0} /\ a \in Nat
      BY <3>0, <2>2, HeapAssumption DEF Words
    <3> HIDE DEF a, w
    <3>2. (a + w) % w = a
      BY <3>1, ModOver, ModSmall
    <3>3. Needed(n) = a
      BY <3>1, <3>2 DEF Needed, Wrap, w
    <3> QED BY <3>1, <3>3 DEF TooMany
  <2> QED BY <1>2, <2>1, <2>2, HeapAssumption DEF Words
<1> DEFINE cap == NewCap(n)
           d   == Chunk(p, cap)
           old == Load(bytes, buf.data, buf.len)
           mid == Stored(bytes, p, old)
           at  == p + buf.len
           others == chunks \ BufChunks(buf)
<1>4. cap \in 1 .. WordMax /\ cap >= buf.len + n
  <2>1. buf.cap \in Words
    BY <1>1
  <2> QED BY <1>3, <2>1, NewCapMeans
<1>5. /\ p \in 1 .. WordMax /\ p + cap <= WordMax /\ d.at = p /\ d.len = cap
      /\ \A c \in others : Apart(d, c)
  <2>1. p \in Places(cap, others) \/ p \in Places(cap, chunks)
    BY DEF NewPlaces
  <2>2. others \subseteq chunks
    OBVIOUS
  <2> HIDE DEF others, cap
  <2> HIDE DEF d
  <2>3. \A S : p \in Places(cap, S)
                => p \in 1 .. WordMax /\ p + cap <= WordMax /\ \A c \in S : Apart(Chunk(p, cap), c)
    BY Zenon DEF Places
  <2>4. p \in 1 .. WordMax /\ p + cap <= WordMax /\ \A c \in others : Apart(Chunk(p, cap), c)
    BY <2>1, <2>2, <2>3
  <2> QED BY <2>4 DEF d, Chunk
<1>6. others = ArenaChunks \cup CallerChunks /\ others \subseteq chunks
  BY DEF StoreInv, Owned
<1>7. \A c \in others : c.at + c.len <= p \/ p + cap <= c.at
  BY <1>5 DEF Apart, Ends
<1>8. old = log
  BY <1>1, <1>2, LoadIs
<1>9. chunks' = others \cup {d} /\ BufChunks(buf)' = {d}
  BY <1>5, HeapAssumption DEF BufChunks, Null
<1> HIDE DEF cap, d, old, mid, others
<1>10. ArenaChunks' = ArenaChunks /\ CallerChunks' = CallerChunks
  BY DEF Done, ArenaChunks, Blocks, CallerChunks
<1>11. d \notin others
  <2> SUFFICES ASSUME d \in others PROVE FALSE
    OBVIOUS
  <2>1. d.at + d.len <= p \/ p + cap <= d.at
    BY <1>7
  <2> QED BY <1>4, <1>5, <2>1
<1>12. /\ at \in Nat /\ at + Len(s) <= p + cap /\ p + Len(log) = at /\ p + cap <= WordMax
       /\ p \in Nat /\ cap \in Nat /\ Len(log) \in Nat /\ Len(s) \in Nat
  BY <1>1, <1>2, <1>4, <1>5, HeapAssumption, SMTT(60) DEF Words
<1> HIDE DEF at
<1>13. mid \in [Words -> Byte] /\ bytes' = Stored(mid, at, s) /\ bytes' \in [Words -> Byte]
  <2>1. mid \in [Words -> Byte] /\ p \in Nat
    BY <1>1, <1>5, <1>8, StoredType, HeapAssumption DEF mid
  <2>2. bytes' = Stored(mid, at, s)
    BY DEF mid, old, at
  <2>3. Stored(mid, at, s) \in [Words -> Byte]
    BY <1>12, <2>1, StoredType
  <2> QED BY <2>1, <2>2, <2>3
<1>14. HoldsAt(bytes', p, log)
  <2>1. p \in Nat /\ p + Len(log) - 1 <= WordMax
    BY <1>12, HeapAssumption
  <2>2. HoldsAt(mid, p, log)
    BY <1>1, <1>8, <2>1, StoredHolds DEF mid
  <2>3. p + Len(log) <= at
    BY <1>12
  <2> QED BY <1>1, <1>12, <1>13, <2>1, <2>2, <2>3, StoredApart
<1>15. HoldsAt(bytes', at, s)
  <2>1. at + Len(s) - 1 <= WordMax
    BY <1>12, HeapAssumption
  <2>2. HoldsAt(Stored(mid, at, s), at, s)
    BY <1>12, <1>13, <2>1, StoredHolds
  <2> QED BY <1>13, <2>2
<1>16. HoldsAt(bytes', p, log \o s)
  <2>1. HoldsAt(bytes', p + Len(log), s)
    BY <1>12, <1>15
  <2> QED BY <1>1, <1>12, <1>14, <2>1, HoldsBoth
<1>17. \A h \in handed : HoldsAt(bytes', h.at, h.bytes)
  <2> SUFFICES ASSUME NEW h \in handed PROVE HoldsAt(bytes', h.at, h.bytes)
    OBVIOUS
  <2>1. PICK c \in ArenaChunks \cup CallerChunks :
               /\ c \in chunks /\ c.at <= h.at /\ h.at + Len(h.bytes) <= c.at + c.len
               /\ h.at + Len(h.bytes) <= WordMax
    BY HandedInChunk
  <2> DEFINE x == h.at
             t == h.bytes
  <2>2. /\ x \in Nat /\ t \in Seq(Byte) /\ Len(t) \in Nat /\ HoldsAt(bytes, x, t)
        /\ c.at \in Nat /\ c.len \in Nat
    <3>1. h \in Kept /\ HoldsAt(bytes, x, t)
      BY DEF StoreInv, Types, Contents
    <3>2. c \in [at : 1 .. WordMax, len : 1 .. WordMax]
      BY <2>1 DEF StoreInv, Heaped
    <3> QED BY <3>1, <3>2 DEF Kept, Words
  <2>3. c.at <= x /\ x + Len(t) <= c.at + c.len /\ x + Len(t) - 1 <= WordMax
    BY <2>1, <2>2, HeapAssumption
  <2>4. c.at + c.len <= p \/ p + cap <= c.at
    BY <1>6, <1>7
  <2> HIDE DEF x, t
  <2>5. x + Len(t) <= p \/ p + cap <= x
    BY <1>4, <1>5, <2>2, <2>3, <2>4
  <2>6. /\ x + Len(t) <= p \/ p + Len(log) <= x
        /\ x + Len(t) <= at \/ at + Len(s) <= x
    BY <1>12, <2>2, <2>5
  <2>7. HoldsAt(mid, x, t)
    BY <1>1, <1>5, <1>8, <2>2, <2>3, <2>6, StoredApart, HeapAssumption, SMTT(60) DEF mid
  <2>8. HoldsAt(bytes', x, t)
    BY <1>12, <1>13, <2>2, <2>3, <2>6, <2>7, StoredApart
  <2> QED BY <2>8 DEF x, t
<1>18. buf' \in [data : Words, len : Words, cap : Words] /\ buf'.data = p /\ buf'.cap = cap
       /\ buf'.len = buf.len + Len(s) /\ buf'.len <= cap
  <2> DEFINE g == buf.len + Len(s)
  <2>1. g \in Words /\ p \in Words /\ cap \in Words /\ g <= cap
    BY <1>1, <1>2, <1>4, <1>5, HeapAssumption DEF Words
  <2>2. buf' = [data |-> p, len |-> g, cap |-> cap]
    BY DEF cap
  <2> HIDE DEF g
  <2>3. buf' \in [data : Words, len : Words, cap : Words] /\ buf'.data = p /\ buf'.cap = cap
        /\ buf'.len = g
    BY <2>1, <2>2
  <2> QED BY <2>1, <2>3 DEF g
<1>19. log' \in Seq(Byte) /\ Len(log') = buf'.len
  <2>1. log' = log \o s /\ buf'.len = Len(log) + Len(s)
    BY <1>2, <1>18
  <2> QED BY <1>1, <2>1
<1>20. Types'
  BY <1>13, <1>18, <1>19 DEF StoreInv, Types, Done
<1>21. Heaped'
  <2>1. d \in [at : 1 .. WordMax, len : 1 .. WordMax] /\ Ends(d) <= WordMax
    BY <1>4, <1>5 DEF d, Chunk, Ends
  <2>2. \A c \in others : Apart(c, d)
    BY <1>5 DEF Apart
  <2> QED BY <1>5, <1>6, <1>9, <2>1, <2>2 DEF StoreInv, Heaped
<1>22. BlocksOwned'
  BY DEF StoreInv, BlocksOwned, Done
<1>23. BufOwned'
  BY <1>4, <1>5, <1>18, HeapAssumption DEF BufOwned, Null
<1>24. Owned'
  <2>1. ArenaChunks \cap CallerChunks = {}
    BY DEF StoreInv, Owned
  <2> QED BY <1>6, <1>9, <1>10, <1>11, <2>1 DEF StoreInv, Owned, Done
<1>25. Contents'
  BY <1>16, <1>17, <1>18, <1>19 DEF StoreInv, Contents, Placed, Done
<1> QED BY <1>20, <1>21, <1>22, <1>23, <1>24, <1>25 DEF StoreInv
\* A call that fails changes nothing.
Harmless == failed' => UNCHANGED <<chunks, bytes, arena, buf, handed>>

\* Changing nothing but the verdict keeps the invariant.
LEMMA NothingKeeps ==
  ASSUME StoreInv, UNCHANGED <<chunks, bytes, arena, handed, buf, log>>, failed' \in BOOLEAN
  PROVE  StoreInv'
<1>1. /\ ArenaChunks' = ArenaChunks /\ CallerChunks' = CallerChunks
      /\ BufChunks(buf)' = BufChunks(buf)
  BY DEF ArenaChunks, Blocks, CallerChunks, BufChunks
<1>2. Types' /\ Heaped' /\ BlocksOwned' /\ BufOwned' /\ Contents'
  BY DEF StoreInv, Types, Heaped, BlocksOwned, BufOwned, Contents, Placed
<1>3. Owned'
  BY <1>1 DEF StoreInv, Owned
<1> QED BY <1>2, <1>3 DEF StoreInv

LEMMA ExtendKeeps ==
  ASSUME StoreInv, NEW n \in Words, NEW s \in Seq(Byte), Len(s) <= n, Extend(n, s, s)
  PROVE  StoreInv' /\ Harmless
<1>1. CASE /\ HasRoom(n)
           /\ bytes' = Stored(bytes, buf.data + buf.len, s)
           /\ buf' = [buf EXCEPT !.len = @ + Len(s)]
           /\ log' = log \o s /\ Done /\ UNCHANGED chunks
  <2>1. StoreInv'
    BY <1>1, ExtendInPlace
  <2> QED BY <1>1, <2>1 DEF Done, Harmless
<1>2. CASE /\ ~HasRoom(n) /\ ~TooMany(n)
           /\ \E p \in NewPlaces(n) :
                /\ chunks' = (chunks \ BufChunks(buf)) \cup {Chunk(p, NewCap(n))}
                /\ bytes' = Stored(Stored(bytes, p, Load(bytes, buf.data, buf.len)), p + buf.len, s)
                /\ buf' = [data |-> p, len |-> buf.len + Len(s), cap |-> NewCap(n)]
           /\ log' = log \o s /\ Done
  <2>1. PICK p \in NewPlaces(n) :
          /\ chunks' = (chunks \ BufChunks(buf)) \cup {Chunk(p, NewCap(n))}
          /\ bytes' = Stored(Stored(bytes, p, Load(bytes, buf.data, buf.len)), p + buf.len, s)
          /\ buf' = [data |-> p, len |-> buf.len + Len(s), cap |-> NewCap(n)]
    BY <1>2
  <2>2. StoreInv'
    BY <1>2, <2>1, ExtendMoved
  <2> QED BY <1>2, <2>2 DEF Done, Harmless
<1>3. CASE BufFail
  BY <1>3, NothingKeeps DEF BufFail, Harmless
<1> QED BY <1>1, <1>2, <1>3 DEF Extend

\* The buffer's chunk goes to the caller, with what was written to it.
LEMMA BufTakeKeeps ==
  ASSUME StoreInv, BufTake
  PROVE  StoreInv' /\ Harmless
<1>1. /\ buf \in [data : Words, len : Words, cap : Words] /\ bytes \in [Words -> Byte]
      /\ log \in Seq(Byte) /\ HoldsAt(bytes, buf.data, log) /\ Len(log) = buf.len
      /\ buf.len <= buf.cap /\ (buf.data = Null <=> buf.cap = 0)
  BY DEF StoreInv, Types, Contents, BufOwned
<1>2. buf' = [data |-> 0, len |-> 0, cap |-> 0] /\ log' = <<>> /\ BufChunks(buf)' = {}
  BY DEF BufTake, EmptyBuf, BufChunks, Null
<1>3. failed' = FALSE /\ UNCHANGED <<chunks, bytes, arena>> /\ ArenaChunks' = ArenaChunks
  BY DEF BufTake, ArenaChunks, Blocks
<1>4. /\ buf' \in [data : Words, len : Words, cap : Words] /\ log' \in Seq(Byte)
      /\ BufOwned' /\ Len(log') = buf'.len /\ HoldsAt(bytes', buf'.data, log')
  BY <1>2, HeapAssumption DEF Words, BufOwned, HoldsAt, Null
<1>5. Heaped' /\ BlocksOwned'
  BY <1>3 DEF StoreInv, Heaped, BlocksOwned
<1>6. Types' /\ Owned' /\ Contents'
  <2>1. CASE buf.data = Null
    <3>1. handed' = handed /\ BufChunks(buf) = {} /\ CallerChunks' = CallerChunks
      BY <2>1 DEF BufTake, BufChunks, CallerChunks
    <3>2. Types'
      BY <1>3, <1>4, <3>1 DEF StoreInv, Types
    <3>3. Owned'
      BY <1>2, <1>3, <3>1 DEF StoreInv, Owned
    <3>4. Contents'
      BY <1>3, <1>4, <3>1 DEF StoreInv, Contents, Placed
    <3> QED BY <3>2, <3>3, <3>4
  <2>2. CASE buf.data # Null
    <3>0. PICK r : r = [owner |-> "caller", at |-> buf.data, align |-> 1, bytes |-> log,
                        room |-> buf.cap]
      OBVIOUS
    <3> DEFINE d == Chunk(buf.data, buf.cap)
    <3>1. handed' = handed \cup {r} /\ BufChunks(buf) = {d}
      BY <2>2, <3>0 DEF BufTake, BufChunks
    <3>2. /\ r \in Kept /\ r.owner = "caller" /\ r.at = buf.data /\ r.room = buf.cap
          /\ r.bytes = log /\ r.align = 1
      <4>1. buf.data \in Words /\ buf.cap \in Words /\ log \in Seq(Byte) /\ 1 \in Nat \ {0}
        BY <1>1
      <4>2. /\ r.owner = "caller" /\ r.at = buf.data /\ r.room = buf.cap
            /\ r.bytes = log /\ r.align = 1
        BY <3>0
      <4>3. r \in Kept
        <5>1. buf.data \in Words /\ buf.cap \in Words /\ "caller" \in {"arena", "caller"}
          BY <4>1
        <5> QED BY <3>0, <4>1, <5>1, KeptRecord
      <4> QED BY <4>2, <4>3
    <3>3. CallerChunks' = CallerChunks \cup {d}
      BY <3>1, <3>2 DEF CallerChunks
    <3>4. Types'
      <4>1. IsFiniteSet(handed')
        BY <3>1, FS_AddElement DEF StoreInv, Types
      <4> QED BY <1>3, <1>4, <3>1, <3>2, <4>1 DEF StoreInv, Types
    <3>5. \A g \in handed : g.owner = "caller" => ~ (g.at = r.at /\ g.room = r.room)
      <4> SUFFICES ASSUME NEW g \in handed, g.owner = "caller", g.at = r.at, g.room = r.room
                   PROVE  FALSE
        OBVIOUS
      <4>1. d \in CallerChunks
        BY <3>2 DEF CallerChunks
      <4> QED BY <3>1, <4>1 DEF StoreInv, Owned
    <3>6. Owned'
      <4>1. /\ chunks' = ArenaChunks' \cup BufChunks(buf)' \cup CallerChunks'
            /\ ArenaChunks' \cap BufChunks(buf)' = {}
            /\ (ArenaChunks' \cup BufChunks(buf)') \cap CallerChunks' = {}
        BY <1>2, <1>3, <3>1, <3>3 DEF StoreInv, Owned
      <4>2. \A g, h \in handed' : /\ g.owner = "caller" /\ h.owner = "caller"
                                  /\ g.at = h.at /\ g.room = h.room
                                  => g = h
        BY <3>1, <3>5 DEF StoreInv, Owned
      <4> QED BY <4>1, <4>2 DEF Owned
    <3>7. Contents'
      <4>1. Placed(r)' /\ HoldsAt(bytes', r.at, r.bytes) /\ r.at % r.align = 0
        <5>1. r.at % 1 = 0
          BY <1>1, <3>2 DEF Words
        <5> QED BY <1>1, <1>3, <3>2, <5>1 DEF Placed
      <4>2. \A h \in handed : Placed(h)' /\ HoldsAt(bytes', h.at, h.bytes) /\ h.at % h.align = 0
        BY <1>3 DEF StoreInv, Contents, Placed
      <4> QED BY <1>3, <1>4, <3>1, <4>1, <4>2 DEF Contents
    <3> QED BY <3>4, <3>6, <3>7
  <2> QED BY <2>1, <2>2
<1> QED BY <1>3, <1>4, <1>5, <1>6 DEF StoreInv, Harmless
\* The buffer's chunk is freed.
LEMMA BufDisposeKeeps ==
  ASSUME StoreInv, BufDispose
  PROVE  StoreInv' /\ Harmless
<1>1. buf' = [data |-> 0, len |-> 0, cap |-> 0] /\ log' = <<>> /\ BufChunks(buf)' = {}
  BY DEF BufDispose, EmptyBuf, BufChunks, Null
<1>2. /\ failed' = FALSE /\ UNCHANGED <<bytes, arena, handed>> /\ chunks' = chunks \ BufChunks(buf)
      /\ ArenaChunks' = ArenaChunks /\ CallerChunks' = CallerChunks
  BY DEF BufDispose, Done, ArenaChunks, Blocks, CallerChunks
<1>3. /\ buf' \in [data : Words, len : Words, cap : Words] /\ log' \in Seq(Byte)
      /\ BufOwned' /\ Len(log') = buf'.len /\ HoldsAt(bytes', buf'.data, log')
  BY <1>1, HeapAssumption DEF Words, BufOwned, HoldsAt, Null
<1>4. Types'
  BY <1>2, <1>3 DEF StoreInv, Types
<1>5. Heaped'
  BY <1>2 DEF StoreInv, Heaped
<1>6. BlocksOwned'
  BY <1>2 DEF StoreInv, BlocksOwned
<1>7. Owned'
  BY <1>1, <1>2 DEF StoreInv, Owned
<1>8. Contents'
  BY <1>2, <1>3 DEF StoreInv, Contents, Placed
<1> QED BY <1>2, <1>3, <1>4, <1>5, <1>6, <1>7, <1>8 DEF StoreInv, Harmless

\* A caller frees the chunk it took.
LEMMA CallerFreeKeeps ==
  ASSUME StoreInv, CallerFree
  PROVE  StoreInv' /\ Harmless
<1>1. PICK h \in handed :
        /\ h.owner = "caller"
        /\ chunks' = chunks \ {Chunk(h.at, h.room)} /\ handed' = handed \ {h}
        /\ failed' = FALSE /\ UNCHANGED <<bytes, arena, buf, log>>
  BY DEF CallerFree
<1> DEFINE d == Chunk(h.at, h.room)
<1>2. /\ ArenaChunks' = ArenaChunks /\ BufChunks(buf)' = BufChunks(buf)
  BY <1>1 DEF ArenaChunks, Blocks, BufChunks
<1>3. CallerChunks' = CallerChunks \ {d}
  <2>1. \A g \in handed : g.owner = "caller" /\ Chunk(g.at, g.room) = d => g = h
    <3> SUFFICES ASSUME NEW g \in handed, g.owner = "caller", Chunk(g.at, g.room) = d
                 PROVE  g = h
      OBVIOUS
    <3>1. g.at = h.at /\ g.room = h.room
      BY DEF Chunk
    <3> QED BY <1>1, <3>1 DEF StoreInv, Owned
  <2> HIDE DEF d
  <2>2. \A c : c \in CallerChunks' <=> \E g \in handed \ {h} : g.owner = "caller" /\ c = Chunk(g.at, g.room)
    BY <1>1 DEF CallerChunks
  <2>3. \A c : c \in CallerChunks <=> \E g \in handed : g.owner = "caller" /\ c = Chunk(g.at, g.room)
    BY DEF CallerChunks
  <2> QED BY <2>1, <2>2, <2>3 DEF d
<1>4. d \in CallerChunks
  BY <1>1 DEF CallerChunks
<1>5. Types'
  <2>1. IsFiniteSet(handed')
    BY <1>1, FS_RemoveElement DEF StoreInv, Types
  <2> QED BY <1>1, <2>1 DEF StoreInv, Types
<1>6. Heaped'
  BY <1>1 DEF StoreInv, Heaped
<1>7. BlocksOwned' /\ BufOwned'
  BY <1>1 DEF StoreInv, BlocksOwned, BufOwned
<1>8. Owned'
  <2>1. /\ chunks' = ArenaChunks' \cup BufChunks(buf)' \cup CallerChunks'
        /\ ArenaChunks' \cap BufChunks(buf)' = {}
        /\ (ArenaChunks' \cup BufChunks(buf)') \cap CallerChunks' = {}
    BY <1>1, <1>2, <1>3, <1>4 DEF StoreInv, Owned
  <2> QED BY <1>1, <2>1 DEF StoreInv, Owned
<1>9. Contents'
  BY <1>1 DEF StoreInv, Contents, Placed
<1> QED BY <1>1, <1>5, <1>6, <1>7, <1>8, <1>9 DEF StoreInv, Harmless

-----------------------------------------------------------------------------
(* The arena's calls. *)

\* All blocks are freed, and what was handed out of them is gone.
LEMMA DisposeKeeps ==
  ASSUME StoreInv, ArenaDispose, UNCHANGED bufVars
  PROVE  StoreInv' /\ Harmless
<1>1. /\ chunks' = chunks \ ArenaChunks /\ arena' = [blocks |-> <<>>, default |-> arena.default, total |-> 0]
      /\ handed' = {h \in handed : h.owner # "arena"}
      /\ failed' = FALSE /\ UNCHANGED <<bytes, buf, log>>
  BY DEF ArenaDispose, ArenaChunks, EmptyArena, bufVars
<1>2. ArenaChunks' = {} /\ BufChunks(buf)' = BufChunks(buf)
  BY <1>1 DEF ArenaChunks, Blocks, BufChunks
<1>3. CallerChunks' = CallerChunks
  <2>1. {g \in handed' : g.owner = "caller"} = {g \in handed : g.owner = "caller"}
    BY <1>1
  <2> QED BY <2>1 DEF CallerChunks
<1>4. Types'
  <2>1. handed' \in SUBSET handed
    BY <1>1
  <2>2. IsFiniteSet(handed')
    BY <2>1, FS_Subset DEF StoreInv, Types
  <2>3. arena' \in [blocks : Seq(Block), default : Nat \ {0}, total : Words]
    <3>1. arena.default \in Nat \ {0} /\ 0 \in Words /\ <<>> \in Seq(Block)
      BY HeapAssumption DEF StoreInv, Types, Words
    <3> QED BY <1>1, <3>1
  <2> QED BY <1>1, <2>1, <2>2, <2>3 DEF StoreInv, Types
<1>5. Heaped'
  BY <1>1 DEF StoreInv, Heaped
<1>6. BlocksOwned' /\ BufOwned'
  BY <1>1 DEF StoreInv, BlocksOwned, BufOwned
<1>7. Owned'
  <2>1. /\ chunks' = ArenaChunks' \cup BufChunks(buf)' \cup CallerChunks'
        /\ ArenaChunks' \cap BufChunks(buf)' = {}
        /\ (ArenaChunks' \cup BufChunks(buf)') \cap CallerChunks' = {}
    BY <1>1, <1>2, <1>3 DEF StoreInv, Owned
  <2> QED BY <1>1, <2>1 DEF StoreInv, Owned
<1>8. Contents'
  BY <1>1 DEF StoreInv, Contents, Placed
<1> QED BY <1>1, <1>4, <1>5, <1>6, <1>7, <1>8 DEF StoreInv, Harmless
\* A store apart from the buffer's chunk leaves alone what it holds.
LEMMA BufUntouched ==
  ASSUME StoreInv, NEW at \in Nat, NEW s \in Seq(Byte),
         buf.data # Null => buf.data + buf.cap <= at \/ at + Len(s) <= buf.data
  PROVE  HoldsAt(Stored(bytes, at, s), buf.data, log)
<1>1. /\ bytes \in [Words -> Byte] /\ log \in Seq(Byte) /\ HoldsAt(bytes, buf.data, log)
      /\ buf.len <= buf.cap /\ (buf.data = Null <=> buf.cap = 0)
  BY DEF StoreInv, Types, Contents, BufOwned
<1>2. /\ buf.data \in Nat /\ buf.data + buf.cap <= WordMax /\ Len(log) = buf.len
      /\ buf.len \in Nat /\ buf.cap \in Nat
  BY BufInMemory
<1>3. buf.data + Len(log) <= at \/ at + Len(s) <= buf.data
  <2>1. Len(s) \in Nat
    OBVIOUS
  <2>2. CASE buf.data = Null
    BY <1>1, <1>2, <2>1, <2>2 DEF Null
  <2>3. CASE buf.data # Null
    BY <1>1, <1>2, <2>1, <2>3
  <2> QED BY <2>2, <2>3
<1>4. buf.data + Len(log) - 1 <= WordMax
  BY <1>1, <1>2, HeapAssumption
<1> QED BY <1>1, <1>2, <1>3, <1>4, StoredApart

\* What the arena hands out is no caller's chunk.
LEMMA HandedCallers ==
  ASSUME NEW r, r.owner = "arena", handed' = handed \cup {r}
  PROVE  CallerChunks' = CallerChunks
<1>1. {g \in handed' : g.owner = "caller"} = {g \in handed : g.owner = "caller"}
  OBVIOUS
<1> QED BY <1>1 DEF CallerChunks

\* The head block is used a little further (arena.c:104).
LEMMA FromHeadKeeps ==
  ASSUME StoreInv, NEW size \in Words, NEW align \in Words, NEW s \in Seq(Byte),
         Len(s) = size, FromHead(size, align, s), UNCHANGED bufVars
  PROVE  StoreInv' /\ Harmless
<1> DEFINE blocks == arena.blocks
<1>0. /\ blocks \in Seq(Block) /\ arena \in [blocks : Seq(Block), default : Nat \ {0}, total : Words]
      /\ bytes \in [Words -> Byte] /\ handed \in SUBSET Kept /\ blocks # <<>>
      /\ align \in Nat \ {0}
  BY DEF StoreInv, Types, FromHead, HeadFits, IsPowerOfTwo, Words
<1> HIDE DEF blocks
<1>1. PICK b : b = blocks[1]
  OBVIOUS
<1>2. 1 \in DOMAIN blocks /\ b \in Block /\ b.data > Header /\ b.used <= b.capacity
  BY <1>0, <1>1 DEF StoreInv, BlocksOwned, blocks
<1>3. PICK at : at = Carve(b, size, align)
  OBVIOUS
<1>4. at # Null
  BY <1>1, <1>3 DEF FromHead, HeadFits, blocks
<1>28. at % align = 0
  BY <1>0, <1>2, <1>3, <1>4, CarveMeans DEF Words
<1>29. PICK D \in Nat, C \in Nat, U \in Nat : D = b.data /\ C = b.capacity /\ U = b.used
  BY <1>2 DEF Block
<1>5. at \in Nat /\ D + U <= at /\ at + size <= D + C
  BY <1>0, <1>2, <1>3, <1>4, <1>29, CarveMeans DEF Words
<1> DEFINE u   == at + size - D
           new == [b EXCEPT !.used = u]
           nb  == [blocks EXCEPT ![1] = new]
           d   == BlockChunk(b)
           r   == [owner |-> "arena", at |-> at, align |-> align, bytes |-> s, room |-> Len(s)]
<1>6. /\ d \in chunks /\ d \in ArenaChunks /\ d.at = D - Header
      /\ d.len = Header + C /\ D + C <= WordMax
  <2>1. d \in chunks /\ d \in ArenaChunks
    BY <1>1, <1>2 DEF StoreInv, Owned, ArenaChunks, Blocks, blocks
  <2>2. d.at = D - Header /\ d.len = Header + C
    BY <1>29 DEF BlockChunk, Chunk
  <2> HIDE DEF d
  <2>3. d.at + d.len <= WordMax
    BY <2>1 DEF StoreInv, Heaped, Ends
  <2>4. (D - Header) + (Header + C) <= WordMax
    BY <2>2, <2>3
  <2> QED BY <2>1, <2>2, <2>4, ArenaAssumption
<1>7. size \in Nat /\ Header \in Nat /\ Len(s) = size /\ WordMax \in Nat
  BY HeapAssumption, ArenaAssumption DEF Words
<1> HIDE DEF d
<1>8. u \in Nat /\ U <= u /\ u <= C /\ at + size <= WordMax /\ at \in Words
  <2>1. D + C <= WordMax
    BY <1>6
  <2> QED BY <1>5, <1>7, <2>1 DEF Words
<1>9. D + u = at + size
  BY <1>5, <1>7
<1> HIDE DEF u
<1>10. new \in Block /\ new.data = D /\ new.capacity = C /\ new.used = u
  BY <1>2, <1>8, <1>29 DEF Block
<1> HIDE DEF new
<1>11. /\ nb \in Seq(Block) /\ DOMAIN nb = DOMAIN blocks /\ nb[1] = new
       /\ \A k \in DOMAIN blocks : k # 1 => nb[k] = blocks[k]
  BY <1>0, <1>2, <1>10
<1> HIDE DEF nb
<1>12. \A k \in DOMAIN blocks :
         /\ nb[k].data = blocks[k].data /\ nb[k].capacity = blocks[k].capacity
         /\ blocks[k] \in Block /\ blocks[k].used <= nb[k].used
         /\ blocks[k].data > Header /\ nb[k].used <= nb[k].capacity
  <2> SUFFICES ASSUME NEW k \in DOMAIN blocks
               PROVE /\ nb[k].data = blocks[k].data /\ nb[k].capacity = blocks[k].capacity
                     /\ blocks[k] \in Block /\ blocks[k].used <= nb[k].used
                     /\ blocks[k].data > Header /\ nb[k].used <= nb[k].capacity
    OBVIOUS
  <2>1. CASE k = 1
    BY <1>1, <1>2, <1>8, <1>10, <1>11, <1>29, <2>1
  <2>2. CASE k # 1
    <3>1. /\ blocks[k] \in Block /\ blocks[k].data > Header
          /\ blocks[k].used <= blocks[k].capacity
      BY <1>0 DEF StoreInv, BlocksOwned, blocks
    <3> QED BY <1>11, <2>2, <3>1 DEF Block
  <2> QED BY <2>1, <2>2
<1>13. /\ arena' = [arena EXCEPT !.blocks = nb] /\ bytes' = Stored(bytes, at, s)
       /\ handed' = handed \cup {r} /\ failed' = FALSE /\ UNCHANGED <<chunks, buf, log>>
  BY <1>1, <1>3, <1>29 DEF FromHead, Handed, Bumped, bufVars, new, nb, u, blocks
<1>14. arena'.blocks = nb /\ arena' \in [blocks : Seq(Block), default : Nat \ {0}, total : Words]
  BY <1>0, <1>11, <1>13
<1>15. /\ r \in Kept /\ r.owner = "arena" /\ r.at = at /\ r.align = align /\ r.bytes = s
  <2>1. "arena" \in {"arena", "caller"} /\ Len(s) \in Words
    BY <1>7
  <2>2. r \in Kept
    BY <1>0, <1>8, <2>1, KeptRecord
  <2> QED BY <2>2
<1> HIDE DEF r
<1>16. ArenaChunks' = ArenaChunks
  <2>1. \A k \in DOMAIN blocks : BlockChunk(nb[k]) = BlockChunk(blocks[k])
    BY <1>12 DEF BlockChunk, Chunk
  <2>2. \A c : c \in ArenaChunks' <=> \E k \in DOMAIN nb : c = BlockChunk(nb[k])
    BY <1>14 DEF ArenaChunks, Blocks, BlockChunk, Chunk
  <2>3. \A c : c \in ArenaChunks <=> \E k \in DOMAIN blocks : c = BlockChunk(blocks[k])
    BY DEF ArenaChunks, Blocks, blocks
  <2> QED BY <1>11, <2>1, <2>2, <2>3
<1>17. CallerChunks' = CallerChunks /\ BufChunks(buf)' = BufChunks(buf)
  BY <1>13, <1>15, HandedCallers DEF BufChunks
<1>18. Types'
  <2>1. IsFiniteSet(handed')
    BY <1>13, FS_AddElement DEF StoreInv, Types
  <2>2. bytes' \in [Words -> Byte]
    BY <1>0, <1>5, <1>13, StoredType
  <2> QED BY <1>0, <1>13, <1>14, <1>15, <2>1, <2>2 DEF StoreInv, Types
<1>19. Heaped'
  BY <1>13 DEF StoreInv, Heaped
<1>20. BlocksOwned'
  <2>1. \A k \in DOMAIN nb : nb[k].data > Header /\ nb[k].used <= nb[k].capacity
    BY <1>11, <1>12
  <2>2. \A k, l \in DOMAIN nb : BlockChunk(nb[k]) = BlockChunk(nb[l]) => k = l
    <3>1. \A k, l \in DOMAIN blocks : BlockChunk(blocks[k]) = BlockChunk(blocks[l]) => k = l
      BY DEF StoreInv, BlocksOwned, blocks
    <3>2. \A k \in DOMAIN blocks : BlockChunk(nb[k]) = BlockChunk(blocks[k])
      BY <1>12 DEF BlockChunk, Chunk
    <3> QED BY <1>11, <3>1, <3>2
  <2> QED BY <1>14, <2>1, <2>2 DEF BlocksOwned, BlockChunk, Chunk
<1>21. BufOwned'
  BY <1>13 DEF StoreInv, BufOwned
<1>22. Owned'
  <2>1. /\ chunks' = ArenaChunks' \cup BufChunks(buf)' \cup CallerChunks'
        /\ ArenaChunks' \cap BufChunks(buf)' = {}
        /\ (ArenaChunks' \cup BufChunks(buf)') \cap CallerChunks' = {}
    BY <1>13, <1>16, <1>17 DEF StoreInv, Owned
  <2>2. \A g, h \in handed' : /\ g.owner = "caller" /\ h.owner = "caller"
                              /\ g.at = h.at /\ g.room = h.room
                              => g = h
    BY <1>13, <1>15 DEF StoreInv, Owned
  <2> QED BY <2>1, <2>2 DEF Owned
<1>23. \A c \in chunks : c # d => c.at + c.len <= d.at \/ d.at + d.len <= c.at
  BY <1>6 DEF StoreInv, Heaped, Apart, Ends
<1>24. HoldsAt(bytes', buf.data, log)
  <2>1. buf.data # Null => buf.data + buf.cap <= at \/ at + Len(s) <= buf.data
    <3> SUFFICES ASSUME buf.data # Null
                 PROVE  buf.data + buf.cap <= at \/ at + Len(s) <= buf.data
      OBVIOUS
    <3>1. d.at + d.len <= buf.data \/ buf.data + buf.cap <= d.at
      BY <1>6, BufApart
    <3>2. PICK e \in Nat, f \in Nat : e = buf.data /\ f = buf.cap
      BY BufInMemory
    <3>3. D + C <= e \/ e + f <= D - Header
      <4>1. (D - Header) + (Header + C) <= e \/ e + f <= D - Header
        BY <1>6, <3>1, <3>2
      <4> QED BY <1>7, <4>1
    <3>4. e + f <= at \/ at + Len(s) <= e
      BY <1>5, <1>7, <3>3
    <3> QED BY <3>2, <3>4
  <2> QED BY <1>5, <1>13, <2>1, BufUntouched
<1>25. ASSUME NEW h \in handed PROVE Placed(h)' /\ HoldsAt(bytes', h.at, h.bytes)
  <2>1. h \in Kept /\ Placed(h) /\ HoldsAt(bytes, h.at, h.bytes)
    BY DEF StoreInv, Types, Contents
  <2>2. PICK x, t : x = h.at /\ t = h.bytes
    OBVIOUS
  <2>3. x \in Nat /\ t \in Seq(Byte) /\ Len(t) \in Nat /\ h.room \in Nat
    BY <2>1, <2>2 DEF Kept, Words
  <2>4. x + Len(t) - 1 <= WordMax
    <3>1. x + Len(t) <= WordMax
      BY <2>2, HandedInChunk
    <3> QED BY <2>3, <3>1, HeapAssumption
  <2>5. Placed(h)' /\ (x + Len(t) <= at \/ at + size <= x)
    <3>1. CASE h.owner = "arena"
      <4>1. PICK k \in DOMAIN blocks :
              blocks[k].data <= x /\ x + Len(t) <= blocks[k].data + blocks[k].used
        BY <2>1, <2>2, <3>1 DEF Placed, blocks
      <4>7. PICK E \in Nat, F \in Nat, G \in Nat :
              E = blocks[k].data /\ F = blocks[k].capacity /\ G = blocks[k].used
        BY <1>12 DEF Block
      <4>8. E <= x /\ x + Len(t) <= E + G
        BY <4>1, <4>7
      <4>9. nb[k].used \in Nat /\ G <= nb[k].used /\ nb[k].data = E
        <5>1. nb[k] \in Block
          BY <1>11
        <5>2. blocks[k].used <= nb[k].used /\ nb[k].data = blocks[k].data
          BY <1>12
        <5> QED BY <4>7, <5>1, <5>2 DEF Block
      <4>2. nb[k].data <= x /\ x + Len(t) <= nb[k].data + nb[k].used
        <5>1. x + Len(t) <= E + nb[k].used
          BY <2>3, <4>8, <4>9
        <5> QED BY <4>8, <4>9, <5>1
      <4>3. Placed(h)'
        BY <1>11, <1>14, <2>2, <3>1, <4>2 DEF Placed
      <4>4. CASE k = 1
        <5>1. E = D /\ G = U
          BY <1>1, <1>29, <4>4, <4>7
        <5>2. x + Len(t) <= at
          BY <1>5, <2>3, <4>8, <5>1
        <5> QED BY <4>3, <5>2
      <4>5. CASE k # 1
        <5> DEFINE c == BlockChunk(blocks[k])
        <5>1. c \in chunks /\ c # d
          <6>1. c \in ArenaChunks
            BY DEF ArenaChunks, Blocks, blocks
          <6>2. c # d
            BY <1>1, <1>2, <4>5 DEF StoreInv, BlocksOwned, d, blocks
          <6> QED BY <6>1, <6>2 DEF StoreInv, Owned
        <5>2. c.at = E - Header /\ c.len = Header + F
          BY <4>7 DEF BlockChunk, Chunk
        <5> HIDE DEF c
        <5>3. c.at + c.len <= d.at \/ d.at + d.len <= c.at
          BY <1>23, <5>1
        <5>4. G <= F
          BY <4>7 DEF StoreInv, BlocksOwned, blocks
        <5>6. E + F <= D - Header \/ D + C <= E - Header
          <6>1. (E - Header) + (Header + F) <= D - Header \/ (D - Header) + (Header + C) <= E - Header
            BY <1>6, <5>2, <5>3
          <6> QED BY <1>7, <6>1
        <5>5. x + Len(t) <= at \/ at + size <= x
          BY <1>5, <1>7, <2>3, <4>8, <5>4, <5>6
        <5> QED BY <4>3, <5>5
      <4> QED BY <4>3, <4>4, <4>5
    <3>2. CASE h.owner = "caller"
      <4> DEFINE c == Chunk(h.at, h.room)
      <4>1. c \in CallerChunks
        BY <3>2 DEF CallerChunks
      <4>2. c \in chunks /\ c # d /\ c.at = x /\ c.len = h.room
        BY <1>6, <2>2, <4>1 DEF StoreInv, Owned, Chunk
      <4> HIDE DEF c
      <4>3. c.at + c.len <= d.at \/ d.at + d.len <= c.at
        BY <1>23, <4>2
      <4>4. Len(t) <= h.room
        BY <2>1, <2>2, <3>2 DEF Placed
      <4>7. PICK R \in Nat : R = h.room
        BY <2>3
      <4>8. x + R <= D - Header \/ D + C <= x
        <5>1. x + R <= D - Header \/ (D - Header) + (Header + C) <= x
          BY <1>6, <4>2, <4>3, <4>7
        <5> QED BY <1>7, <5>1
      <4>9. Len(t) <= R
        BY <4>4, <4>7
      <4>5. x + Len(t) <= at \/ at + size <= x
        BY <1>5, <1>7, <2>3, <4>8, <4>9
      <4>6. Placed(h)'
        BY <2>2, <3>2, <4>4 DEF Placed
      <4> QED BY <4>5, <4>6
    <3> QED BY <2>1, <3>1, <3>2 DEF Kept
  <2>6. HoldsAt(Stored(bytes, at, s), x, t)
    BY <1>0, <1>5, <2>1, <2>2, <2>3, <2>4, <2>5, StoredApart
  <2> QED BY <1>13, <2>2, <2>5, <2>6
<1>26. Placed(r)' /\ HoldsAt(bytes', r.at, r.bytes)
  <2>1. HoldsAt(bytes', at, s)
    <3>1. at + Len(s) - 1 <= WordMax
      BY <1>5, <1>7, <1>8, HeapAssumption
    <3> QED BY <1>0, <1>5, <1>13, <3>1, StoredHolds
  <2>2. nb[1].data <= at /\ at + Len(s) <= nb[1].data + nb[1].used
    BY <1>5, <1>7, <1>9, <1>10, <1>11
  <2>3. Placed(r)'
    BY <1>2, <1>11, <1>14, <1>15, <2>2 DEF Placed
  <2> QED BY <1>15, <2>1, <2>3
<1>27. Contents'
  <2>1. \A h \in handed' : Placed(h)' /\ HoldsAt(bytes', h.at, h.bytes) /\ h.at % h.align = 0
    BY <1>13, <1>15, <1>25, <1>26, <1>28 DEF StoreInv, Contents
  <2>2. Len(log') = buf'.len /\ HoldsAt(bytes', buf'.data, log')
    BY <1>13, <1>24 DEF StoreInv, Contents
  <2> QED BY <2>1, <2>2 DEF Contents
<1> QED BY <1>13, <1>18, <1>19, <1>20, <1>21, <1>22, <1>27 DEF StoreInv, Harmless
\* A request is made of a block of its own, into which it fits: the second
\* carve never fails (arena.c:152).
LEMMA FromNewBlockKeeps ==
  ASSUME StoreInv, NEW size \in Words, NEW align \in Words, NEW s \in Seq(Byte),
         Len(s) = size, FromNewBlock(size, align, s), UNCHANGED bufVars
  PROVE  StoreInv' /\ Harmless
<1> DEFINE blocks == arena.blocks
<1>0. /\ blocks \in Seq(Block) /\ arena \in [blocks : Seq(Block), default : Nat \ {0}, total : Words]
      /\ bytes \in [Words -> Byte] /\ handed \in SUBSET Kept
  BY DEF StoreInv, Types
<1>1. align \in Nat \ {0} /\ size \in Nat
  BY DEF FromNewBlock, Refused, IsPowerOfTwo, Words
<1> HIDE DEF blocks
<1>2. PICK K : K = BlockSize(size, align)
  OBVIOUS
<1>3. K \in Nat \ {0} /\ size + (align - 1) <= K /\ Header + K <= WordMax
  <2>1. ~ (K > WordMax - Header)
    BY <1>2 DEF FromNewBlock, Refused
  <2>2. K \in Nat \ {0} /\ size + (align - 1) <= K
    <3>1. arena.default \in Nat \ {0}
      BY <1>0
    <3> QED BY <1>1, <1>2, <3>1 DEF BlockSize, Worst
  <2> QED BY <2>1, <2>2, HeapAssumption, ArenaAssumption
<1>4. PICK p \in Places(Header + K, chunks) :
        LET b  == [data |-> p + Header, capacity |-> BlockSize(size, align), used |-> 0]
            at == Carve(b, size, align)
            with(c) == [arena EXCEPT !.blocks = <<c>> \o @, !.total = Wrap(@ + b.capacity)]
        IN /\ chunks' = chunks \cup {BlockChunk(b)}
           /\ IF at = Null
              THEN arena' = with(b) /\ failed' = TRUE /\ UNCHANGED <<bytes, handed>>
              ELSE arena' = with(Bumped(b, at, size)) /\ Handed(bytes, at, align, s)
  BY <1>2 DEF FromNewBlock
<1>5. PICK b : b = [data |-> p + Header, capacity |-> K, used |-> 0]
  OBVIOUS
<1>6. PICK at : at = Carve(b, size, align)
  OBVIOUS
<1>7. p \in 1 .. WordMax /\ p + (Header + K) <= WordMax
  BY Zenon DEF Places
<1>8. \A c \in chunks : Apart(Chunk(p, Header + K), c)
  BY Zenon DEF Places
<1>9. /\ b \in Block /\ b.used = 0 /\ b.data > 0 /\ b.data > Header
      /\ b.data = p + Header /\ b.capacity = K /\ b.data + b.capacity <= WordMax
  <2>1. p + Header \in Nat /\ p + Header > Header /\ K \in Nat /\ (p + Header) + K <= WordMax
    BY <1>3, <1>7, HeapAssumption, ArenaAssumption
  <2> QED BY <1>5, <2>1, ArenaAssumption DEF Block
<1>10. at # Null
  BY <1>1, <1>3, <1>6, <1>9, CarveWorks
<1>11. at \in Nat /\ p + Header <= at /\ at + size <= p + Header + K
  <2>1. b.used <= b.capacity
    BY <1>3, <1>9
  <2>2. /\ at \in Nat
        /\ b.data + b.used <= at /\ at + size <= b.data + b.capacity
    BY <1>1, <1>6, <1>9, <1>10, <2>1, CarveMeans
  <2> QED BY <1>7, <1>9, <2>2, ArenaAssumption
<1>12. at % align = 0
  <2>1. b.used <= b.capacity
    BY <1>3, <1>9
  <2> QED BY <1>1, <1>6, <1>9, <1>10, <2>1, CarveMeans
<1> DEFINE d  == Chunk(p, Header + K)
           u  == at + size - (p + Header)
           new == [b EXCEPT !.used = u]
           nb  == <<new>> \o blocks
           r   == [owner |-> "arena", at |-> at, align |-> align, bytes |-> s, room |-> Len(s)]
<1>13. u \in Nat /\ u <= K /\ at + size <= WordMax /\ at \in Words /\ p + Header + u = at + size
  BY <1>1, <1>3, <1>7, <1>11, HeapAssumption, ArenaAssumption DEF Words
<1> HIDE DEF u
<1>14. /\ new \in Block /\ new.data = p + Header /\ new.capacity = K /\ new.used = u
  BY <1>9, <1>13 DEF Block
<1>15. BlockChunk(new) = d /\ BlockChunk(b) = d
  <2>1. (p + Header) - Header = p
    BY <1>7, ArenaAssumption
  <2> QED BY <1>9, <1>14, <2>1 DEF BlockChunk
<1>16. /\ chunks' = chunks \cup {d} /\ bytes' = Stored(bytes, at, s)
       /\ arena' = [arena EXCEPT !.blocks = nb, !.total = Wrap(arena.total + K)]
       /\ handed' = handed \cup {r} /\ failed' = FALSE /\ UNCHANGED <<buf, log>>
  <2>1. Bumped(b, at, size) = new
    BY <1>9 DEF Bumped, u
  <2> HIDE DEF new
  <2> QED BY <1>2, <1>4, <1>5, <1>6, <1>9, <1>10, <1>15, <2>1 DEF Handed, bufVars, blocks
<1> HIDE DEF new
<1>17. /\ nb \in Seq(Block) /\ Len(nb) = Len(blocks) + 1 /\ nb[1] = new
       /\ \A k \in DOMAIN blocks : k + 1 \in DOMAIN nb /\ nb[k + 1] = blocks[k]
       /\ \A k \in DOMAIN nb : k # 1 => k - 1 \in DOMAIN blocks /\ nb[k] = blocks[k - 1]
  BY <1>0, <1>14
<1> HIDE DEF nb
<1>18. arena'.blocks = nb /\ arena' \in [blocks : Seq(Block), default : Nat \ {0}, total : Words]
  <2> DEFINE tot == Wrap(arena.total + K)
  <2>1. tot \in Words
    <3>1. arena.total + K \in Nat /\ WordMax + 1 \in Nat \ {0}
      BY <1>0, <1>3, HeapAssumption DEF Words
    <3> DEFINE a == arena.total + K
               w == WordMax + 1
    <3> HIDE DEF a, w
    <3>2. a % w \in 0 .. w - 1
      BY <3>1, ModRange DEF a, w
    <3>3. w - 1 = WordMax
      BY HeapAssumption DEF w
    <3> QED BY <3>2, <3>3 DEF Wrap, Words, a, w
  <2>2. arena' = [arena EXCEPT !.blocks = nb, !.total = tot]
    BY <1>16
  <2> HIDE DEF tot
  <2> QED BY <1>0, <1>17, <2>1, <2>2
<1>19. /\ r \in Kept /\ r.owner = "arena" /\ r.at = at /\ r.align = align /\ r.bytes = s
  <2>1. "arena" \in {"arena", "caller"} /\ Len(s) \in Words
    OBVIOUS
  <2>2. r \in Kept
    BY <1>1, <1>13, <2>1, KeptRecord
  <2> QED BY <2>2
<1> HIDE DEF r
<1>20. /\ d.at = p /\ d.len = Header + K /\ d \in [at : 1 .. WordMax, len : 1 .. WordMax]
       /\ Ends(d) <= WordMax
  BY <1>3, <1>7, ArenaAssumption DEF Chunk, Ends
<1>21. \A c \in chunks : c.at \in Nat /\ c.len \in Nat
                         /\ (c.at + c.len <= p \/ p + (Header + K) <= c.at)
  BY <1>8, <1>20 DEF StoreInv, Heaped, Apart, Ends
<1> HIDE DEF d
<1>22. d \notin chunks
  <2> SUFFICES ASSUME d \in chunks PROVE FALSE
    OBVIOUS
  <2>1. p + (Header + K) <= p
    BY <1>3, <1>20, <1>21
  <2> QED BY <1>3, <1>7, <2>1, ArenaAssumption
<1>23. ArenaChunks' = ArenaChunks \cup {d}
  <2>1. \A c : c \in ArenaChunks' <=> \E k \in DOMAIN nb : c = BlockChunk(nb[k])
    BY <1>18 DEF ArenaChunks, Blocks, BlockChunk, Chunk
  <2>2. \A c : c \in ArenaChunks <=> \E k \in DOMAIN blocks : c = BlockChunk(blocks[k])
    BY DEF ArenaChunks, Blocks, blocks
  <2>3. 1 \in DOMAIN nb /\ BlockChunk(nb[1]) = d
    BY <1>15, <1>17
  <2>4. ASSUME NEW c \in ArenaChunks' PROVE c \in ArenaChunks \cup {d}
    <3>1. PICK k \in DOMAIN nb : c = BlockChunk(nb[k])
      BY <2>1
    <3>2. CASE k = 1
      BY <2>3, <3>1, <3>2
    <3>3. CASE k # 1
      <4>1. k - 1 \in DOMAIN blocks /\ nb[k] = blocks[k - 1]
        BY <1>17, <3>3
      <4> QED BY <2>2, <3>1, <4>1
    <3> QED BY <3>2, <3>3
  <2>5. ASSUME NEW c \in ArenaChunks PROVE c \in ArenaChunks'
    <3>1. PICK k \in DOMAIN blocks : c = BlockChunk(blocks[k])
      BY <2>2
    <3>2. k + 1 \in DOMAIN nb /\ nb[k + 1] = blocks[k]
      BY <1>17
    <3> QED BY <2>1, <3>1, <3>2
  <2>6. d \in ArenaChunks'
    BY <2>1, <2>3
  <2> QED BY <2>4, <2>5, <2>6
<1>24. CallerChunks' = CallerChunks /\ BufChunks(buf)' = BufChunks(buf)
  BY <1>16, <1>19, HandedCallers DEF BufChunks
<1>25. Types'
  <2>1. IsFiniteSet(handed')
    BY <1>16, FS_AddElement DEF StoreInv, Types
  <2>2. bytes' \in [Words -> Byte]
    BY <1>0, <1>11, <1>16, StoredType
  <2> QED BY <1>0, <1>16, <1>18, <1>19, <2>1, <2>2 DEF StoreInv, Types
<1>26. Heaped'
  <2>1. \A c \in chunks : Apart(c, d) /\ Apart(d, c)
    BY <1>20, <1>21 DEF Apart, Ends
  <2> QED BY <1>16, <1>20, <2>1 DEF StoreInv, Heaped
<1>27. BlocksOwned'
  <2>1. \A k \in DOMAIN blocks : /\ blocks[k].data > Header /\ blocks[k].used <= blocks[k].capacity
                                 /\ BlockChunk(blocks[k]) # d
    BY <1>22 DEF StoreInv, BlocksOwned, Owned, ArenaChunks, Blocks, blocks
  <2>2. \A k \in DOMAIN nb : nb[k].data > Header /\ nb[k].used <= nb[k].capacity
    <3> SUFFICES ASSUME NEW k \in DOMAIN nb
                 PROVE  nb[k].data > Header /\ nb[k].used <= nb[k].capacity
      OBVIOUS
    <3>1. CASE k = 1
      <4>1. p + Header > Header
        BY <1>7, ArenaAssumption
      <4> QED BY <1>13, <1>14, <1>17, <3>1, <4>1
    <3>2. CASE k # 1
      BY <1>17, <2>1, <3>2
    <3> QED BY <3>1, <3>2
  <2>3. ASSUME NEW k \in DOMAIN nb, NEW l \in DOMAIN nb, BlockChunk(nb[k]) = BlockChunk(nb[l])
        PROVE  k = l
    <3>1. \A i, j \in DOMAIN blocks : BlockChunk(blocks[i]) = BlockChunk(blocks[j]) => i = j
      BY DEF StoreInv, BlocksOwned, blocks
    <3>2. CASE k = 1 \/ l = 1
      BY <1>15, <1>17, <2>1, <2>3, <3>2
    <3>3. CASE k # 1 /\ l # 1
      <4>1. k - 1 \in DOMAIN blocks /\ l - 1 \in DOMAIN blocks
        BY <1>17, <3>3
      <4>2. k - 1 = l - 1
        BY <1>17, <2>3, <3>1, <3>3, <4>1
      <4>3. k \in Int /\ l \in Int
        BY <1>17
      <4> QED BY <4>2, <4>3
    <3> QED BY <3>2, <3>3
  <2> QED BY <1>18, <2>2, <2>3 DEF BlocksOwned, BlockChunk, Chunk
<1>28. BufOwned'
  BY <1>16 DEF StoreInv, BufOwned
<1>29. Owned'
  <2>1. /\ chunks' = ArenaChunks' \cup BufChunks(buf)' \cup CallerChunks'
        /\ ArenaChunks' \cap BufChunks(buf)' = {}
        /\ (ArenaChunks' \cup BufChunks(buf)') \cap CallerChunks' = {}
    BY <1>16, <1>22, <1>23, <1>24 DEF StoreInv, Owned
  <2>2. \A g, h \in handed' : /\ g.owner = "caller" /\ h.owner = "caller"
                              /\ g.at = h.at /\ g.room = h.room
                              => g = h
    BY <1>16, <1>19 DEF StoreInv, Owned
  <2> QED BY <2>1, <2>2 DEF Owned
<1>30. \A c \in chunks : c.at + c.len <= at \/ at + Len(s) <= c.at
  <2> SUFFICES ASSUME NEW c \in chunks PROVE c.at + c.len <= at \/ at + Len(s) <= c.at
    OBVIOUS
  <2>1. PICK x \in Nat, y \in Nat : x = c.at /\ y = c.len /\ (x + y <= p \/ p + (Header + K) <= x)
    BY <1>21
  <2>2. x + y <= at \/ at + size <= x
    BY <1>1, <1>3, <1>7, <1>11, <2>1, ArenaAssumption, SMTT(60)
  <2> QED BY <2>1, <2>2
<1>31. HoldsAt(bytes', buf.data, log)
  <2>1. buf.data # Null => buf.data + buf.cap <= at \/ at + Len(s) <= buf.data
    <3> SUFFICES ASSUME buf.data # Null
                 PROVE  buf.data + buf.cap <= at \/ at + Len(s) <= buf.data
      OBVIOUS
    <3>1. Chunk(buf.data, buf.cap) \in chunks
      BY DEF StoreInv, Owned, BufChunks
    <3> QED BY <1>30, <3>1 DEF Chunk
  <2> QED BY <1>11, <1>16, <2>1, BufUntouched
<1>32. ASSUME NEW h \in handed PROVE Placed(h)' /\ HoldsAt(bytes', h.at, h.bytes)
  <2>1. h \in Kept /\ Placed(h)
    BY DEF StoreInv, Types, Contents
  <2>2. HoldsAt(bytes', h.at, h.bytes)
    <3>1. \A c \in ArenaChunks \cup CallerChunks : c.at + c.len <= at \/ at + Len(s) <= c.at
      BY <1>30 DEF StoreInv, Owned
    <3> QED BY <1>11, <1>16, <3>1, HandedUntouched
  <2>3. CASE h.owner = "arena"
    <3>1. PICK k \in DOMAIN blocks :
            blocks[k].data <= h.at /\ h.at + Len(h.bytes) <= blocks[k].data + blocks[k].used
      BY <2>1, <2>3 DEF Placed, blocks
    <3>2. k + 1 \in DOMAIN nb /\ nb[k + 1] = blocks[k]
      BY <1>17
    <3>3. \E j \in DOMAIN nb : nb[j].data <= h.at /\ h.at + Len(h.bytes) <= nb[j].data + nb[j].used
      BY <3>1, <3>2
    <3> QED BY <1>18, <2>2, <2>3, <3>3 DEF Placed
  <2>4. CASE h.owner = "caller"
    BY <2>1, <2>2, <2>4 DEF Placed
  <2> QED BY <2>1, <2>3, <2>4 DEF Kept
<1>33. Placed(r)' /\ HoldsAt(bytes', r.at, r.bytes)
  <2>1. HoldsAt(bytes', at, s)
    <3>1. at + Len(s) - 1 <= WordMax
      BY <1>1, <1>11, <1>13, HeapAssumption
    <3> QED BY <1>0, <1>11, <1>16, <3>1, StoredHolds
  <2>2. nb[1].data <= at /\ at + Len(s) <= nb[1].data + nb[1].used /\ 1 \in DOMAIN nb
    BY <1>11, <1>13, <1>14, <1>17
  <2>3. Placed(r)'
    BY <1>18, <1>19, <2>2 DEF Placed
  <2> QED BY <1>19, <2>1, <2>3
<1>34. Contents'
  <2>1. \A h \in handed' : Placed(h)' /\ HoldsAt(bytes', h.at, h.bytes) /\ h.at % h.align = 0
    BY <1>12, <1>16, <1>19, <1>32, <1>33 DEF StoreInv, Contents
  <2>2. Len(log') = buf'.len /\ HoldsAt(bytes', buf'.data, log')
    BY <1>16, <1>31 DEF StoreInv, Contents
  <2> QED BY <2>1, <2>2 DEF Contents
<1> QED BY <1>16, <1>25, <1>26, <1>27, <1>28, <1>29, <1>34 DEF StoreInv, Harmless
\* Every request of the arena.
LEMMA AllocKeeps ==
  ASSUME StoreInv, NEW size \in Words, NEW align \in Words, NEW s \in Seq(Byte),
         Len(s) = size, Alloc(size, align, s), UNCHANGED bufVars
  PROVE  StoreInv' /\ Harmless
<1>1. CASE FromHead(size, align, s)
  BY <1>1, FromHeadKeeps
<1>2. CASE FromNewBlock(size, align, s)
  BY <1>2, FromNewBlockKeeps
<1>3. CASE Fail
  BY <1>3, NothingKeeps DEF Fail, bufVars, Harmless
<1> QED BY <1>1, <1>2, <1>3 DEF Alloc

\* The size of an array does not wrap.
LEMMA ArraySize ==
  ASSUME NEW count \in Nat, NEW elem \in Nat \ {0}, ~TooLong(count, elem)
  PROVE  count * elem \in Words /\ Wrap(count * elem) = count * elem
<1>1. count <= WordMax \div elem
  BY HeapAssumption DEF TooLong
<1>0. WordMax \in Int
  BY HeapAssumption
<1> DEFINE q == WordMax \div elem
           m == WordMax % elem
<1>2. m \in 0 .. elem - 1 /\ q \in Int /\ WordMax = elem * q + m
  BY <1>0, DivMod
<1> HIDE DEF q, m
<1>3. count <= q
  BY <1>1 DEF q
<1> DEFINE a == count * elem
<1>4. a <= q * elem /\ a \in Nat
  BY <1>2, <1>3
<1>5. q * elem = elem * q
  BY <1>2
<1>6. a <= WordMax
  BY <1>2, <1>4, <1>5
<1> HIDE DEF a
<1> DEFINE w == WordMax + 1
<1>7. w \in Nat \ {0} /\ a \in 0 .. w - 1
  BY <1>4, <1>6, HeapAssumption
<1> HIDE DEF w
<1>8. a % w = a
  BY <1>7, ModSmall
<1> QED BY <1>4, <1>6, <1>8 DEF Wrap, Words, w, a

LEMMA AllocArrayKeeps ==
  ASSUME StoreInv, NEW count \in Nat, NEW elem \in Nat \ {0}, NEW align \in Words,
         NEW s \in Seq(Byte), Len(s) = count * elem,
         AllocArray(count, elem, align, s), UNCHANGED bufVars
  PROVE  StoreInv' /\ Harmless
<1>1. CASE TooLong(count, elem)
  <2>1. Fail
    BY <1>1 DEF AllocArray
  <2> QED BY <2>1, NothingKeeps DEF Fail, bufVars, Harmless
<1>2. CASE ~TooLong(count, elem)
  <2> DEFINE size == count * elem
  <2>1. size \in Words /\ Wrap(size) = size
    BY <1>2, ArraySize
  <2>2. Alloc(size, align, s)
    BY <1>2, <2>1 DEF AllocArray
  <2> HIDE DEF size
  <2>3. Len(s) = size
    BY DEF size
  <2> QED BY <2>1, <2>2, <2>3, AllocKeeps
<1> QED BY <1>1, <1>2
-----------------------------------------------------------------------------
(* Every call. *)

LEMMA MarkIs ==
  ASSUME calls \in Nat, NEW n \in Nat
  PROVE  Mark(n) \in Seq(Byte) /\ Len(Mark(n)) = n
<1> DEFINE c == Base - 1
<1>1. c \in Nat \ {0}
  BY BufferAssumption
<1> HIDE DEF c
<1>2. calls % c \in 0 .. c - 1
  BY <1>1, ModRange
<1> DEFINE m == calls % c
<1>3. 1 + m \in Byte
  <2> HIDE DEF m
  <2> QED BY <1>1, <1>2 DEF m, c, Byte
<1> HIDE DEF m
<1>4. Mark(n) = [i \in 1 .. n |-> 1 + m]
  BY DEF Mark, m, c
<1> QED BY <1>3, <1>4

LEMMA ArenaCallKeeps ==
  ASSUME StoreInv, calls \in Nat, ArenaCall
  PROVE  StoreInv' /\ Harmless
<1>1. CASE \E size \in Sizes, align \in Aligns : Request(size, align)
  <2>1. PICK size \in Sizes, align \in Aligns : Request(size, align)
    BY <1>1
  <2>2. size \in Words /\ align \in Words /\ size \in Nat
    BY StorageAssumption DEF Words
  <2>3. Mark(size) \in Seq(Byte) /\ Len(Mark(size)) = size
    BY <2>2, MarkIs
  <2> QED BY <2>1, <2>2, <2>3, AllocKeeps DEF Request
<1>2. CASE \E count \in Counts : Array(count, ArgSize)
  <2>1. PICK count \in Counts : Array(count, ArgSize)
    BY <1>2
  <2>2. count \in Nat /\ ArgSize \in Nat \ {0} /\ ArgSize \in Words /\ count * ArgSize \in Nat
    BY StorageAssumption DEF Words
  <2>3. Mark(count * ArgSize) \in Seq(Byte) /\ Len(Mark(count * ArgSize)) = count * ArgSize
    BY <2>2, MarkIs
  <2>4. AllocArray(count, ArgSize, ArgSize, Mark(count * ArgSize)) /\ UNCHANGED bufVars
    BY <2>1 DEF Array
  <2> QED BY <2>2, <2>3, <2>4, AllocArrayKeeps
<1>3. CASE CopyArgs
  <2> DEFINE n == buf.len
             count == buf.len \div ArgSize
             s == Load(bytes, buf.data, buf.len)
  <2>1. n \in Nat /\ ArgSize \in Nat \ {0} /\ ArgSize \in Words /\ n % ArgSize = 0
    BY <1>3, BufInMemory, StorageAssumption DEF CopyArgs, Words
  <2>2. s \in Seq(Byte) /\ Len(s) = n
    <3>1. bytes \in [Words -> Byte] /\ buf.len <= buf.cap
      BY DEF StoreInv, Types, BufOwned
    <3>2. buf.data \in Nat /\ buf.len \in Nat /\ buf.data + buf.len - 1 <= WordMax
      BY <3>1, BufInMemory, HeapAssumption
    <3> QED BY <3>1, <3>2, LoadHolds
  <2>3. AllocArray(count, ArgSize, ArgSize, s) /\ UNCHANGED bufVars
    BY <1>3 DEF CopyArgs
  <2> HIDE DEF s
  <2>4. count \in Nat /\ count * ArgSize = n
    <3> HIDE DEF n
    <3> DEFINE q == n \div ArgSize
               m == n % ArgSize
    <3>1. n \in Int
      BY <2>1
    <3>2. m \in 0 .. ArgSize - 1 /\ q \in Int /\ n = ArgSize * q + m
      BY <2>1, <3>1, DivMod
    <3>3. m = 0 /\ count = q
      BY <2>1 DEF n
    <3> HIDE DEF m, q, count
    <3>4. q >= 0
      <4> SUFFICES ASSUME q <= -1 PROVE FALSE
        BY <3>2
      <4>1. ArgSize * q <= -1
        BY <2>1, <3>2
      <4> QED BY <2>1, <3>2, <3>3, <4>1
    <3>5. q * ArgSize = ArgSize * q
      BY <2>1, <3>2
    <3> QED BY <2>1, <3>2, <3>3, <3>4, <3>5
  <2> HIDE DEF n, count
  <2> QED BY <2>1, <2>2, <2>3, <2>4, AllocArrayKeeps
<1>4. CASE \E n \in Counts : n < MinBlock /\ Duplicate(n)
  <2>1. PICK n \in Counts : n < MinBlock /\ Duplicate(n)
    BY <1>4
  <2> DEFINE s == Mark(n) \o <<0>>
             size == n + 1
  <2>2. n \in Nat /\ size \in Words /\ 1 \in Words /\ size <= WordMax
    BY <2>1, StorageAssumption, ArenaAssumption, HeapAssumption DEF Words
  <2>3. Mark(n) \in Seq(Byte) /\ Len(Mark(n)) = n
    BY <2>2, MarkIs
  <2>4. s \in Seq(Byte) /\ Len(s) = size
    <3>1. 0 \in Byte
      BY BufferAssumption DEF Byte
    <3> QED BY <2>2, <2>3, <3>1
  <2> HIDE DEF s, size
  <2>5. Wrap(size) = size
    <3> DEFINE w == WordMax + 1
    <3>1. w \in Nat \ {0} /\ size \in 0 .. w - 1
      BY <2>2, HeapAssumption DEF Words
    <3> HIDE DEF w
    <3>2. size % w = size
      BY <3>1, ModSmall
    <3> QED BY <3>2 DEF Wrap, w
  <2>6. Alloc(size, 1, s) /\ UNCHANGED bufVars
    BY <2>1, <2>3, <2>5 DEF Duplicate, StrDup, s, size
  <2> QED BY <2>2, <2>4, <2>6, AllocKeeps
<1>5. CASE ArenaDispose /\ UNCHANGED bufVars
  BY <1>5, DisposeKeeps
<1> QED BY <1>1, <1>2, <1>3, <1>4, <1>5 DEF ArenaCall

LEMMA BufferCallKeeps ==
  ASSUME StoreInv, calls \in Nat, BufferCall
  PROVE  StoreInv' /\ Harmless
<1>1. ASSUME NEW n \in Counts, BufReserve(n) PROVE StoreInv' /\ Harmless
  <2>1. n \in Words /\ <<>> \in Seq(Byte) /\ Len(<<>>) <= n
    BY StorageAssumption DEF Words
  <2> QED BY <1>1, <2>1, ExtendKeeps DEF BufReserve
<1>2. ASSUME NEW n \in Counts, BufZeros(n) PROVE StoreInv' /\ Harmless
  <2>1. n \in Words /\ n \in Nat
    BY StorageAssumption DEF Words
  <2>2. Zeros(n) \in Seq(Byte) /\ Len(Zeros(n)) = n
    BY <2>1, BufferAssumption DEF Zeros, Byte
  <2> QED BY <1>2, <2>1, <2>2, ExtendKeeps DEF BufZeros
<1>3. CASE BufAppend(Mark(ArgSize))
  <2>1. ArgSize \in Words /\ ArgSize \in Nat
    BY StorageAssumption DEF Words
  <2>2. Mark(ArgSize) \in Seq(Byte) /\ Len(Mark(ArgSize)) = ArgSize
    BY <2>1, MarkIs
  <2> QED BY <1>3, <2>1, <2>2, ExtendKeeps DEF BufAppend
<1>4. CASE BufInteger(Number, Field)
  <2>1. Field \in Words /\ Field \in Nat /\ Number \in Nat
    BY StorageAssumption DEF Words
  <2> DEFINE s == LittleEndian(Number, Field)
  <2>2. s \in Seq(Byte) /\ Len(s) = Field /\ Spelled(Number, Field) = s
    BY <2>1, SpelledIs
  <2>3. Extend(Field, s, s)
    BY <1>4, <2>2 DEF BufInteger
  <2> HIDE DEF s
  <2> QED BY <2>1, <2>2, <2>3, ExtendKeeps
<1>5. ASSUME NEW offset \in Offsets, BufPatch(offset, Number, Field) PROVE StoreInv' /\ Harmless
  <2>1. offset \in Words /\ Field \in 1 .. WordMax /\ Number \in Nat
    BY StorageAssumption DEF Words
  <2>2. CASE PatchOK(offset, Field)
    <3>1. StoreInv'
      BY <1>5, <2>1, <2>2, BufPatchKeeps
    <3>2. failed' = FALSE
      BY <1>5, <2>2 DEF BufPatch, Done
    <3> QED BY <3>1, <3>2 DEF Harmless
  <2>3. CASE ~PatchOK(offset, Field)
    <3>1. BufFail
      BY <1>5, <2>3 DEF BufPatch
    <3> QED BY <3>1, NothingKeeps DEF BufFail, Harmless
  <2> QED BY <2>2, <2>3
<1>6. CASE BufTake \/ BufDispose
  BY <1>6, BufTakeKeeps, BufDisposeKeeps
<1> QED BY <1>1, <1>2, <1>3, <1>4, <1>5, <1>6 DEF BufferCall

-----------------------------------------------------------------------------
(* The theorems. *)

Inv == StoreInv /\ calls \in 0 .. MaxCalls

LEMMA InitInv == Init => Inv
<1> SUFFICES ASSUME Init PROVE Inv
  OBVIOUS
<1>1. PICK size \in BlockSizes : arena = InitSized(size)
  BY DEF Init
<1>2. /\ chunks = {} /\ bytes = [a \in 0 .. WordMax |-> 0] /\ buf = [data |-> 0, len |-> 0, cap |-> 0]
      /\ log = <<>> /\ handed = {} /\ failed = FALSE /\ calls = 0
  BY DEF Init, HeapInit, EmptyBuf, Null
<1>3. arena \in [blocks : Seq(Block), default : Nat \ {0}, total : Words] /\ arena.blocks = <<>>
  <2> DEFINE n == IF size < MinBlock THEN MinBlock ELSE size
  <2>1. n \in Nat \ {0} /\ 0 \in Words /\ <<>> \in Seq(Block)
    BY StorageAssumption, ArenaAssumption, HeapAssumption DEF Words
  <2>2. arena = [blocks |-> <<>>, default |-> n, total |-> 0]
    BY <1>1 DEF InitSized, EmptyArena
  <2> HIDE DEF n
  <2> QED BY <2>1, <2>2
<1>4. Types
  <2>1. bytes \in [Words -> Byte] /\ 0 \in Words
    BY <1>2, BufferAssumption, HeapAssumption DEF Words, Byte
  <2>2. buf \in [data : Words, len : Words, cap : Words] /\ log \in Seq(Byte)
    BY <1>2, <2>1
  <2>3. handed \in SUBSET Kept /\ IsFiniteSet(handed) /\ failed \in BOOLEAN
    BY <1>2, FS_EmptySet
  <2> QED BY <1>3, <2>1, <2>2, <2>3 DEF Types
<1>5. ArenaChunks = {} /\ CallerChunks = {} /\ BufChunks(buf) = {}
  BY <1>2, <1>3 DEF ArenaChunks, Blocks, CallerChunks, BufChunks, Null
<1>6. Heaped /\ BlocksOwned /\ BufOwned /\ Contents
  BY <1>2, <1>3 DEF Heaped, BlocksOwned, BufOwned, Contents, HoldsAt, Null
<1>7. Owned
  BY <1>2, <1>5 DEF Owned
<1>8. calls \in 0 .. MaxCalls
  BY <1>2, StorageAssumption
<1> QED BY <1>4, <1>6, <1>7, <1>8 DEF Inv, StoreInv

LEMMA NextInv == Inv /\ [Next]_vars => Inv' /\ (Harmless \/ UNCHANGED vars)
<1> SUFFICES ASSUME Inv, [Next]_vars PROVE Inv' /\ (Harmless \/ UNCHANGED vars)
  OBVIOUS
<1>1. CASE Next
  <2>1. calls \in Nat /\ calls' \in 0 .. MaxCalls
    BY <1>1, StorageAssumption DEF Inv, Next
  <2>2. StoreInv' /\ Harmless
    BY <1>1, <2>1, ArenaCallKeeps, BufferCallKeeps, CallerFreeKeeps DEF Inv, Next
  <2> QED BY <2>1, <2>2 DEF Inv
<1>2. CASE UNCHANGED vars
  <2>1. StoreInv'
    BY <1>2, NothingKeeps DEF Inv, StoreInv, Types, vars
  <2> QED BY <1>2, <2>1 DEF Inv, vars
<1> QED BY <1>1, <1>2

THEOREM StoreAlways == Spec => []Inv
<1>1. Inv /\ [Next]_vars => Inv'
  BY NextInv
<1> QED BY InitInv, <1>1, PTL DEF Spec
\* Memory, blocks and buffer stay what they are: a block is never used
\* beyond its capacity, the buffer never longer than its own, and no chunk
\* passes the last address (arena.c:97, buf.c:38).
THEOREM StorageTypes == Spec => []StorageOK
<1>1. Inv => StorageOK
  <2> SUFFICES ASSUME Inv PROVE StorageOK
    OBVIOUS
  <2>1. \A c \in chunks : c.at > 0 /\ c.len > 0 /\ Ends(c) <= WordMax
    BY DEF Inv, StoreInv, Heaped
  <2>2. \A b \in Blocks : b.used \in 0 .. b.capacity
    <3> SUFFICES ASSUME NEW k \in DOMAIN arena.blocks
                 PROVE  arena.blocks[k].used \in 0 .. arena.blocks[k].capacity
      BY DEF Blocks
    <3>1. arena.blocks[k] \in Block
      BY DEF Inv, StoreInv, Types
    <3>2. arena.blocks[k].used <= arena.blocks[k].capacity
      BY DEF Inv, StoreInv, BlocksOwned
    <3> QED BY <3>1, <3>2 DEF Block
  <2>3. buf.len \in 0 .. buf.cap /\ buf.cap \in 0 .. WordMax
    BY DEF Inv, StoreInv, Types, BufOwned, Words
  <2> QED BY <2>1, <2>2, <2>3 DEF StorageOK, Inv, StoreInv, Types, Words, Byte
<1> QED BY <1>1, StoreAlways, PTL

\* What was handed out, and what was written to the buffer, is found again
\* as it was stored, whatever is allocated, grown, patched or freed in any
\* order (arena.c:104, buf.c:57, 156, 176).
THEOREM ContentsAlways == Spec => []ContentsKept
<1>1. Inv => ContentsKept
  <2> SUFFICES ASSUME Inv PROVE ContentsKept
    OBVIOUS
  <2>0. StoreInv
    BY DEF Inv
  <2>1. ASSUME NEW h \in handed
        PROVE  /\ \E c \in chunks : c.at <= h.at /\ h.at + Len(h.bytes) <= Ends(c)
               /\ Load(bytes, h.at, Len(h.bytes)) = h.bytes
               /\ h.at % h.align = 0
    <3>1. \E c \in chunks : c.at <= h.at /\ h.at + Len(h.bytes) <= Ends(c)
      BY <2>0, HandedInChunk DEF Ends
    <3>2. h \in Kept /\ HoldsAt(bytes, h.at, h.bytes) /\ h.at % h.align = 0
      BY <2>0 DEF StoreInv, Types, Contents
    <3>3. h.at \in Nat /\ h.bytes \in Seq(Byte)
      BY <3>2 DEF Kept, Words
    <3>4. Load(bytes, h.at, Len(h.bytes)) = h.bytes
      BY <3>2, <3>3, LoadIs
    <3> QED BY <3>1, <3>2, <3>4
  <2>2. Load(bytes, buf.data, buf.len) = log
    <3>1. Len(log) = buf.len /\ HoldsAt(bytes, buf.data, log) /\ log \in Seq(Byte) /\ buf.data \in Nat
      BY <2>0 DEF StoreInv, Types, Contents, Words
    <3> QED BY <3>1, LoadIs
  <2> QED BY <2>1, <2>2 DEF ContentsKept, HandedIntact, BufferHoldsLog
<1> QED BY <1>1, StoreAlways, PTL

\* As many chunks as owners of one.
LEMMA OwnersCounted ==
  ASSUME StoreInv
  PROVE  Cardinality(chunks) = Len(arena.blocks) + Cardinality(BufChunks(buf))
                               + Cardinality({h \in handed : h.owner = "caller"})
<1> DEFINE n == Len(arena.blocks)
           callers == {h \in handed : h.owner = "caller"}
           f == [k \in 1 .. n |-> BlockChunk(arena.blocks[k])]
           g == [h \in callers |-> Chunk(h.at, h.room)]
<1>1. n \in Nat /\ DOMAIN arena.blocks = 1 .. n
  BY DEF StoreInv, Types
<1>2. IsFiniteSet(ArenaChunks) /\ Cardinality(ArenaChunks) = n
  <2>1. f \in Bijection(1 .. n, ArenaChunks)
    <3>1. \A k \in 1 .. n : f[k] \in ArenaChunks
      BY <1>1 DEF ArenaChunks, Blocks
    <3>2. \A k, l \in 1 .. n : f[k] = f[l] => k = l
      BY <1>1 DEF StoreInv, BlocksOwned
    <3>3. \A c \in ArenaChunks : \E k \in 1 .. n : f[k] = c
      BY <1>1 DEF ArenaChunks, Blocks
    <3>4. f \in [1 .. n -> ArenaChunks]
      BY <3>1
    <3> HIDE DEF f, n
    <3> QED BY <3>2, <3>3, <3>4, Fun_IsBij
  <2>2. IsFiniteSet(1 .. n) /\ Cardinality(1 .. n) = n
    BY <1>1, FS_Interval
  <2>3. ExistsBijection(1 .. n, ArenaChunks)
    BY <2>1 DEF ExistsBijection
  <2> QED BY <2>2, <2>3, FS_Bijection
<1>3. IsFiniteSet(CallerChunks) /\ Cardinality(CallerChunks) = Cardinality(callers)
      /\ IsFiniteSet(callers)
  <2>1. g \in Bijection(callers, CallerChunks)
    <3>1. g \in [callers -> CallerChunks]
      BY DEF CallerChunks
    <3>2. ASSUME NEW x \in callers, NEW y \in callers, g[x] = g[y] PROVE x = y
      <4>1. x.at = y.at /\ x.room = y.room
        BY <3>2 DEF Chunk
      <4> QED BY <4>1 DEF StoreInv, Owned
    <3>3. \A c \in CallerChunks : \E x \in callers : g[x] = c
      BY DEF CallerChunks
    <3> HIDE DEF g, callers
    <3> QED BY <3>1, <3>2, <3>3, Fun_IsBij
  <2>2. IsFiniteSet(callers)
    <3>1. callers \in SUBSET handed /\ IsFiniteSet(handed)
      BY DEF StoreInv, Types
    <3> HIDE DEF callers
    <3> QED BY <3>1, FS_Subset
  <2>3. ExistsBijection(callers, CallerChunks)
    BY <2>1 DEF ExistsBijection
  <2> QED BY <2>2, <2>3, FS_Bijection
<1>4. IsFiniteSet(BufChunks(buf))
  BY FS_EmptySet, FS_Singleton DEF BufChunks
<1>5. /\ chunks = (ArenaChunks \cup BufChunks(buf)) \cup CallerChunks
      /\ ArenaChunks \cap BufChunks(buf) = {}
      /\ (ArenaChunks \cup BufChunks(buf)) \cap CallerChunks = {}
  BY DEF StoreInv, Owned
<1> DEFINE A == ArenaChunks
           B == BufChunks(buf)
           C == CallerChunks
<1> HIDE DEF A, B, C, callers, n
<1>6. /\ IsFiniteSet(A) /\ IsFiniteSet(B) /\ IsFiniteSet(C) /\ A \cap B = {} /\ (A \cup B) \cap C = {}
      /\ Cardinality({}) = 0
  BY <1>2, <1>3, <1>4, <1>5, FS_EmptySet DEF A, B, C
<1>7. /\ IsFiniteSet(A \cup B)
      /\ Cardinality(A \cup B) = Cardinality(A) + Cardinality(B) - Cardinality(A \cap B)
  BY <1>6, FS_Union
<1>8. Cardinality((A \cup B) \cup C)
        = Cardinality(A \cup B) + Cardinality(C) - Cardinality((A \cup B) \cap C)
  BY <1>6, <1>7, FS_Union
<1>9. Cardinality(A) \in Nat /\ Cardinality(B) \in Nat /\ Cardinality(C) \in Nat
  BY <1>6, FS_CardinalityType
<1>10. Cardinality((A \cup B) \cup C) = Cardinality(A) + Cardinality(B) + Cardinality(C)
  <2>1. Cardinality(A \cap B) = 0 /\ Cardinality((A \cup B) \cap C) = 0
    BY <1>6
  <2> QED BY <1>7, <1>8, <1>9, <2>1
<1>11. chunks = (A \cup B) \cup C
  BY <1>5 DEF A, B, C
<1>12. Cardinality(A) = n /\ Cardinality(C) = Cardinality(callers)
  BY <1>2, <1>3 DEF A, C
<1>13. Cardinality(chunks) = n + Cardinality(B) + Cardinality(callers)
  BY <1>10, <1>11, <1>12
<1> QED BY <1>13 DEF n, B, callers

\* Every chunk has one owner and every owner its chunks: nothing leaks,
\* nothing is freed twice, nothing that was freed is in use (arena.c:60,
\* buf.c:176).
THEOREM OwnedAlways == Spec => []OwnedOnce
<1>1. Inv => OwnedOnce
  BY OwnersCounted DEF Inv, StoreInv, OwnedOnce, Owned, Heaped
<1> QED BY <1>1, StoreAlways, PTL

\* A call that fails leaves everything as it was; in particular a new block
\* always has room for the request it was made for (arena.c:152, buf.h:52).
THEOREM FailuresAlways == Spec => FailuresChangeNothing
<1>1. Inv /\ [Next]_vars => [failed' => UNCHANGED <<chunks, bytes, arena, buf, handed>>]_vars
  BY NextInv DEF Harmless
<1> QED BY <1>1, StoreAlways, PTL DEF Spec, FailuresChangeNothing
=============================================================================
