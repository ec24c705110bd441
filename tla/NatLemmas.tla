------------------------------ MODULE NatLemmas ------------------------------
(***************************************************************************)
(* Facts about natural numbers that the proofs of several components need: *)
(* least elements, induction, functions defined step by step, remainders,  *)
(* the members of a finite set in order; and of sequences.                 *)
(* Induction is over a set and not over a predicate, so that the provers   *)
(* can apply it.                                                           *)
(***************************************************************************)
EXTENDS Integers, Sequences, SequenceTheorems, WellFoundedInduction, FiniteSetTheorems, TLAPS

\* Every non-empty set of naturals has a least element.
LEMMA LeastNat ==
  ASSUME NEW S \in SUBSET Nat, S # {}
  PROVE  \E m \in S : \A k \in S : m <= k
<1> DEFINE R == {ss \in Nat \X Nat : ss[1] < ss[2]}
<1>1. IsWellFoundedOn(R, Nat)
  BY NatLessThanWellFounded DEF OpToRel
<1> HIDE DEF R
<1>2. PICK m \in S : \A k \in S : ~ (<<k, m>> \in R)
  BY <1>1, WFMin
<1>3. ASSUME NEW k \in S PROVE m <= k
  <2>1. m \in Nat /\ k \in Nat /\ <<k, m>> \notin R
    BY <1>2
  <2>2. <<k, m>> \in R <=> k < m
    BY <2>1 DEF R
  <2> QED BY <2>1, <2>2
<1> QED BY <1>3

\* Every non-empty set of naturals below a bound has a greatest element.
LEMMA GreatestNat ==
  ASSUME NEW n \in Nat, NEW S \in SUBSET (0 .. n), S # {}
  PROVE  \E m \in S : \A k \in S : m >= k
<1> DEFINE T == {x \in Nat : x <= n /\ n - x \in S}
<1>1. PICK y : y \in S
  OBVIOUS
<1>2. n - y \in Nat /\ n - (n - y) = y /\ n - y \in T
  BY <1>1
<1>3. PICK x \in T : \A k \in T : x <= k
  BY <1>2, LeastNat
<1>4. ASSUME NEW k \in S PROVE n - x >= k
  <2>1. n - k \in Nat /\ n - (n - k) = k /\ n - k \in T
    OBVIOUS
  <2> QED BY <1>3, <2>1
<1> QED BY <1>3, <1>4

\* A set with 0 and the successors of its elements holds every natural.
LEMMA NatSetInduction ==
  ASSUME NEW S, 0 \in S, \A n \in Nat : n \in S => n + 1 \in S
  PROVE  Nat \subseteq S
<1> SUFFICES ASSUME Nat \ S # {} PROVE FALSE
  OBVIOUS
<1>1. PICK m \in Nat \ S : \A k \in Nat \ S : m <= k
  BY LeastNat
<1>2. m # 0 /\ m - 1 \in Nat /\ m - 1 \in S
  BY <1>1
<1> QED BY <1>1, <1>2

\* g takes the step F[i] from its value at i - 1 to that at i.
StepsTo(g, n, X, base, F) ==
  g \in [0 .. n -> X] /\ g[0] = base /\ \A i \in 1 .. n : g[i] = F[i][g[i - 1]]

\* A function given by its first value and by steps exists: what a recursive
\* definition over 0 .. n needs to be more than a name.
LEMMA StepsExist ==
  ASSUME NEW n \in Nat, NEW X, NEW base \in X, NEW F \in [1 .. n -> [X -> X]]
  PROVE  \E g : StepsTo(g, n, X, base, F)
<1> DEFINE Def(g, m) == g[0] = base /\ \A i \in 1 .. m : g[i] = F[i][g[i - 1]]
           S == {m \in Nat : m <= n => \E g \in [0 .. m -> X] : Def(g, m)}
<1>1. 0 \in S
  <2> DEFINE g == [i \in 0 .. 0 |-> base]
  <2>1. g \in [0 .. 0 -> X] /\ Def(g, 0)
    OBVIOUS
  <2> QED BY <2>1
<1>2. ASSUME NEW m \in Nat, m \in S PROVE m + 1 \in S
  <2> SUFFICES ASSUME m + 1 <= n PROVE \E g \in [0 .. m + 1 -> X] : Def(g, m + 1)
    OBVIOUS
  <2>1. PICK g \in [0 .. m -> X] : Def(g, m)
    BY <1>2
  <2> DEFINE h == [i \in 0 .. m + 1 |-> IF i <= m THEN g[i] ELSE F[m + 1][g[m]]]
  <2>2. F[m + 1] \in [X -> X] /\ g[m] \in X
    OBVIOUS
  <2>3. h \in [0 .. m + 1 -> X]
    BY <2>2
  <2>4. Def(h, m + 1)
    BY <2>1
  <2> QED BY <2>3, <2>4
<1>3. n \in S
  BY <1>1, <1>2, NatSetInduction
<1> QED BY <1>3 DEF StepsTo

\* There is only one: a recursive definition is that function.
LEMMA StepsUnique ==
  ASSUME NEW n \in Nat, NEW X, NEW base \in X, NEW F \in [1 .. n -> [X -> X]],
         NEW w, w = [i \in 0 .. n |-> w[i]], w[0] = base,
         \A i \in 1 .. n : w[i - 1] \in X => w[i] = F[i][w[i - 1]]
  PROVE  StepsTo(w, n, X, base, F)
<1> DEFINE S == {m \in Nat : m <= n => w[m] \in X}
<1>1. 0 \in S
  OBVIOUS
<1>2. ASSUME NEW m \in Nat, m \in S PROVE m + 1 \in S
  <2> SUFFICES ASSUME m + 1 <= n PROVE w[m + 1] \in X
    OBVIOUS
  <2>1. m + 1 \in 1 .. n /\ (m + 1) - 1 = m /\ w[m] \in X
    BY <1>2
  <2>2. w[m + 1] = F[m + 1][w[m]] /\ F[m + 1] \in [X -> X]
    BY <2>1
  <2> QED BY <2>1, <2>2
<1>3. Nat \subseteq S
  <2> HIDE DEF S
  <2> QED BY <1>1, <1>2, NatSetInduction
<1>4. \A i \in 0 .. n : w[i] \in X
  BY <1>3
<1>5. w \in [0 .. n -> X]
  BY <1>4
<1>6. ASSUME NEW i \in 1 .. n PROVE w[i] = F[i][w[i - 1]]
  <2>1. w[i - 1] \in X
    BY <1>4
  <2> QED BY <2>1
<1> QED BY <1>5, <1>6 DEF StepsTo

\* The step F[i] takes a function g to its value at i, and looks only at values
\* of lower rank.
LooksBelow(F, I, X, rank) ==
  /\ F \in [I -> [[I -> X] -> X]]
  /\ \A i \in I : \A g, h \in [I -> X] :
       (\A j \in I : rank[j] < rank[i] => g[j] = h[j]) => F[i][g] = F[i][h]

Solves(g, F, I, X) == g \in [I -> X] /\ \A i \in I : g[i] = F[i][g]

\* A function each of whose values depends on values of lower rank exists: what
\* a recursive definition over any finite range needs.
LEMMA RankedRecursion ==
  ASSUME NEW I, NEW X, X # {}, NEW n \in Nat, NEW rank \in [I -> 0 .. n],
         NEW F, LooksBelow(F, I, X, rank)
  PROVE  \E g : Solves(g, F, I, X)
<1>0. PICK x0 : x0 \in X
  OBVIOUS
<1>5. /\ F \in [I -> [[I -> X] -> X]]
      /\ \A i \in I : \A g, h \in [I -> X] :
           (\A j \in I : rank[j] < rank[i] => g[j] = h[j]) => F[i][g] = F[i][h]
  BY DEF LooksBelow
<1> DEFINE Right(g, k) == \A i \in I : rank[i] < k => g[i] = F[i][g]
           S == {k \in Nat : \E g \in [I -> X] : Right(g, k)}
<1>1. 0 \in S
  <2> DEFINE g == [i \in I |-> x0]
  <2>1. g \in [I -> X] /\ Right(g, 0)
    BY <1>0
  <2> QED BY <2>1
<1>2. ASSUME NEW k \in Nat, k \in S PROVE k + 1 \in S
  <2>1. PICK g \in [I -> X] : Right(g, k)
    BY <1>2
  <2> DEFINE h == [i \in I |-> F[i][g]]
  <2>2. \A i \in I : F[i] \in [[I -> X] -> X] /\ F[i][g] \in X
    BY <1>5
  <2>3. h \in [I -> X] /\ \A i \in I : h[i] = F[i][g]
    BY <2>2
  <2> HIDE DEF h
  <2>4. ASSUME NEW i \in I, rank[i] < k + 1 PROVE h[i] = F[i][h]
    <3>1. \A j \in I : rank[j] < rank[i] => g[j] = h[j]
      BY <2>1, <2>3, <2>4
    <3>2. F[i][g] = F[i][h]
      BY <1>5, <2>3, <3>1
    <3> QED BY <2>3, <3>2
  <2> QED BY <2>3, <2>4
<1>3. n + 1 \in S
  <2> HIDE DEF S
  <2> QED BY <1>1, <1>2, NatSetInduction
<1>4. PICK g \in [I -> X] : Right(g, n + 1)
  BY <1>3
<1>6. \A i \in I : rank[i] < n + 1
  OBVIOUS
<1> QED BY <1>4, <1>6 DEF Solves

\* A remainder is below its divisor.
LEMMA ModRange ==
  ASSUME NEW a \in Nat, NEW c \in Nat \ {0}
  PROVE  a % c \in 0 .. c - 1
OBVIOUS

\* A number below the divisor is its own remainder.
LEMMA ModSmall ==
  ASSUME NEW c \in Nat \ {0}, NEW a \in 0 .. c - 1
  PROVE  a % c = a
OBVIOUS

-----------------------------------------------------------------------------
(* Remainders by a variable divisor: array indices that wrap around. *)

\* Quotient and remainder are unique.
LEMMA ModUnique ==
  ASSUME NEW c \in Nat \ {0}, NEW q \in Int, NEW r \in 0 .. c - 1, NEW p \in Int,
         NEW s \in 0 .. c - 1, c * q + r = c * p + s
  PROVE  q = p /\ r = s
<1>1. c * (q - p) = s - r
  OBVIOUS
<1>2. ~ (q - p >= 1)
  <2> SUFFICES ASSUME q - p >= 1 PROVE FALSE
    OBVIOUS
  <2>1. c * (q - p) >= c
    OBVIOUS
  <2> QED BY <1>1, <2>1
<1>3. ~ (p - q >= 1)
  <2> SUFFICES ASSUME p - q >= 1 PROVE FALSE
    OBVIOUS
  <2>1. c * (p - q) >= c
    OBVIOUS
  <2>2. c * (p - q) = r - s
    BY <1>1
  <2> QED BY <2>1, <2>2
<1> QED BY <1>1, <1>2, <1>3

\* Quotient and remainder make up the number.
LEMMA DivMod ==
  ASSUME NEW a \in Int, NEW c \in Nat \ {0}
  PROVE  a % c \in 0 .. c - 1 /\ a \div c \in Int /\ a = c * (a \div c) + (a % c)
OBVIOUS

\* The remainder of a sum whose first part is a multiple.
LEMMA ModOf ==
  ASSUME NEW c \in Nat \ {0}, NEW q \in Int, NEW r \in 0 .. c - 1
  PROVE  (c * q + r) % c = r
<1> DEFINE a == c * q + r
<1>1. a \in Int
  OBVIOUS
<1> HIDE DEF a
<1>2. a % c \in 0 .. c - 1 /\ a \div c \in Int /\ a = c * (a \div c) + (a % c)
  BY <1>1, DivMod
<1>3. a = c * q + r
  BY DEF a
<1>4. a % c = r
  BY <1>2, <1>3, ModUnique
<1> QED BY <1>4 DEF a

\* Once round the array is the same place.
LEMMA ModOver ==
  ASSUME NEW a \in Nat, NEW c \in Nat \ {0}
  PROVE  (a + c) % c = a % c
<1> DEFINE q == a \div c
           r == a % c
<1>1. r \in 0 .. c - 1 /\ q \in Int /\ a = c * q + r
  BY DivMod
<1> HIDE DEF q, r
<1>2. a + c = c * (q + 1) + r
  BY <1>1
<1>3. (c * (q + 1) + r) % c = r
  BY <1>1, ModOf
<1> QED BY <1>2, <1>3 DEF r

\* Wrapping at every step is wrapping at the end.
LEMMA ModNext ==
  ASSUME NEW a \in Nat, NEW c \in Nat \ {0}
  PROVE  ((a % c) + 1) % c = (a + 1) % c
<1> DEFINE q == a \div c
           r == a % c
           s == (r + 1) % c
           p == (r + 1) \div c
<1>1. r \in 0 .. c - 1 /\ q \in Int /\ a = c * q + r
  BY DivMod
<1>2. s \in 0 .. c - 1 /\ p \in Int /\ r + 1 = c * p + s
  BY <1>1, DivMod
<1> HIDE DEF q, r, s, p
<1>3. a + 1 = c * (q + p) + s
  BY <1>1, <1>2
<1>4. (c * (q + p) + s) % c = s
  BY <1>1, <1>2, ModOf
<1> QED BY <1>3, <1>4 DEF s, r

\* A remainder is taken term by term or at the end.
LEMMA ModSum ==
  ASSUME NEW a \in Int, NEW b \in Int, NEW c \in Nat \ {0}
  PROVE  ((a % c) + (b % c)) % c = (a + b) % c
<1> DEFINE r == (a % c) + (b % c)
<1>1. a % c \in 0 .. c - 1 /\ a \div c \in Int /\ a = c * (a \div c) + (a % c)
  BY DivMod
<1>2. b % c \in 0 .. c - 1 /\ b \div c \in Int /\ b = c * (b \div c) + (b % c)
  BY DivMod
<1>3. r \in Int
  BY <1>1, <1>2
<1>4. r % c \in 0 .. c - 1 /\ r \div c \in Int /\ r = c * (r \div c) + (r % c)
  BY <1>3, DivMod
<1>5. a + b = c * ((a \div c) + (b \div c) + (r \div c)) + (r % c)
  <2> DEFINE x == a \div c
             y == b \div c
             z == r \div c
             p == a % c
             q == b % c
             u == r % c
  <2>1. x \in Int /\ y \in Int /\ z \in Int /\ p \in Int /\ q \in Int /\ u \in Int
        /\ a = c * x + p /\ b = c * y + q /\ p + q = c * z + u
    BY <1>1, <1>2, <1>4
  <2> HIDE DEF x, y, z, p, q, u, r
  <2>2. c * (x + y + z) = c * x + c * y + c * z
    BY <2>1
  <2>3. a + b = c * (x + y + z) + u
    BY <2>1, <2>2
  <2> QED BY <2>3 DEF x, y, z, u
<1>6. (a \div c) + (b \div c) + (r \div c) \in Int
  BY <1>1, <1>2, <1>4
<1> HIDE DEF r
<1>7. (c * ((a \div c) + (b \div c) + (r \div c)) + (r % c)) % c = r % c
  BY <1>4, <1>6, ModOf
<1> QED BY <1>5, <1>7 DEF r

-----------------------------------------------------------------------------
(* Members of a finite set of numbers, in order. *)

Lower(S, a) == {j \in S : j < a}

\* Fewer places lie below an earlier one.
LEMMA BelowGrows ==
  ASSUME NEW S \in SUBSET Nat, IsFiniteSet(S), NEW a \in S, NEW b \in S, a < b
  PROVE  Cardinality(Lower(S, a)) < Cardinality(Lower(S, b))
<1>1. /\ Lower(S, a) \subseteq Lower(S, b) /\ Lower(S, b) \subseteq S
      /\ a \in Lower(S, b) /\ a \notin Lower(S, a)
  <2>1. a \in Nat /\ b \in Nat
    OBVIOUS
  <2>2. \A j \in Nat : j < a => j < b
    BY <2>1
  <2>3. \A j : j \in Lower(S, a) => j \in Lower(S, b)
    BY <2>2 DEF Lower
  <2>4. \A j : j \in Lower(S, b) => j \in S
    BY DEF Lower
  <2>5. a \in Lower(S, b) /\ a \notin Lower(S, a)
    BY <2>1 DEF Lower
  <2> QED BY <2>3, <2>4, <2>5
<1>2. IsFiniteSet(Lower(S, b))
  BY <1>1, FS_Subset
<1>3. /\ IsFiniteSet(Lower(S, a)) /\ Cardinality(Lower(S, a)) <= Cardinality(Lower(S, b))
      /\ Cardinality(Lower(S, b)) = Cardinality(Lower(S, a)) => Lower(S, b) = Lower(S, a)
  BY <1>1, <1>2, FS_Subset
<1>4. Cardinality(Lower(S, a)) \in Nat /\ Cardinality(Lower(S, b)) \in Nat
  BY <1>2, <1>3, FS_CardinalityType
<1>5. Cardinality(Lower(S, b)) # Cardinality(Lower(S, a))
  BY <1>1, <1>3
<1> QED BY <1>3, <1>4, <1>5

\* The n-th member.
NthMember(S, n) == CHOOSE k \in S : Cardinality({j \in S : j < k}) = n - 1

\* The n-th place is the one with n - 1 places below it.
LEMMA NthMemberIs ==
  ASSUME NEW S \in SUBSET Nat, IsFiniteSet(S), NEW a \in S, NEW n,
         Cardinality(Lower(S, a)) = n - 1
  PROVE  NthMember(S, n) = a
<1> DEFINE b == NthMember(S, n)
<1>1. \A k : {j \in S : j < k} = Lower(S, k)
  BY DEF Lower
<1>2. b \in S /\ Cardinality(Lower(S, b)) = n - 1
  BY <1>1 DEF NthMember
<1> HIDE DEF b
<1>3. ASSUME NEW x \in S, NEW y \in S, x < y, Cardinality(Lower(S, x)) = Cardinality(Lower(S, y))
      PROVE  FALSE
  <2>1. Cardinality(Lower(S, x)) < Cardinality(Lower(S, y))
    BY <1>3, BelowGrows
  <2>2. Lower(S, x) \subseteq S /\ Lower(S, y) \subseteq S
    BY DEF Lower
  <2>3. Cardinality(Lower(S, x)) \in Nat
    BY <2>2, FS_Subset, FS_CardinalityType
  <2> QED BY <1>3, <2>1, <2>3
<1>4. a \in Nat /\ b \in Nat
  BY <1>2
<1>5. ~ (a < b) /\ ~ (b < a)
  BY <1>2, <1>3
<1>6. a = b
  BY <1>4, <1>5
<1> QED BY <1>6 DEF b

\* The first place stays first when a later one is added; a second one is second.
LEMMA NthMemberGrows ==
  ASSUME NEW S \in SUBSET Nat, IsFiniteSet(S), NEW x \in Nat, \A k \in S : k < x
  PROVE  /\ S = {} => NthMember(S \cup {x}, 1) = x
         /\ S # {} => NthMember(S, 1) \in S /\ NthMember(S \cup {x}, 1) = NthMember(S, 1)
         /\ Cardinality(S) = 1 => NthMember(S \cup {x}, 2) = x
         /\ IsFiniteSet(S \cup {x}) /\ Cardinality(S \cup {x}) = Cardinality(S) + 1
         /\ Cardinality(S) \in Nat /\ (Cardinality(S) = 0 <=> S = {})
         /\ Cardinality(S) = 1 => S = {NthMember(S, 1)}
<1> DEFINE T == S \cup {x}
<1>1. T \in SUBSET Nat /\ x \notin S /\ x \in T
  OBVIOUS
<1>2. IsFiniteSet(T) /\ Cardinality(T) = Cardinality(S) + 1
  BY <1>1, FS_AddElement
<1>3. Cardinality(S) \in Nat /\ (Cardinality(S) = 0 <=> S = {})
  BY FS_CardinalityType, FS_EmptySet
<1>4. Lower(T, x) = S
  <2>1. ~ (x < x)
    OBVIOUS
  <2> QED BY <2>1 DEF Lower
<1> HIDE DEF T
<1>5. Cardinality({}) = 0
  BY FS_EmptySet
<1>6. ASSUME S = {} PROVE NthMember(T, 1) = x
  <2>1. Cardinality(Lower(T, x)) = 1 - 1
    BY <1>4, <1>5, <1>6
  <2> QED BY <1>1, <1>2, <2>1, NthMemberIs
<1>7. ASSUME S # {} PROVE NthMember(S, 1) \in S /\ NthMember(T, 1) = NthMember(S, 1)
  <2>1. PICK m \in S : \A k \in S : m <= k
    BY <1>7, LeastNat
  <2>2. m \in Nat /\ m < x /\ m \in T
    BY <2>1 DEF T
  <2>3. \A k \in S : ~ (k < m)
    BY <2>1, <2>2
  <2>4. \A k \in T : ~ (k < m)
    BY <2>2, <2>3 DEF T
  <2>5. Lower(S, m) = {} /\ Lower(T, m) = {}
    BY <2>3, <2>4 DEF Lower
  <2>6. Cardinality(Lower(S, m)) = 1 - 1 /\ Cardinality(Lower(T, m)) = 1 - 1
    BY <1>5, <2>5
  <2>7. NthMember(S, 1) = m
    BY <2>1, <2>6, NthMemberIs
  <2>8. NthMember(T, 1) = m
    BY <1>1, <1>2, <2>2, <2>6, NthMemberIs
  <2> QED BY <2>1, <2>7, <2>8
<1>8. ASSUME Cardinality(S) = 1 PROVE NthMember(T, 2) = x
  <2>1. Cardinality(Lower(T, x)) = 2 - 1
    BY <1>4, <1>8
  <2> QED BY <1>1, <1>2, <2>1, NthMemberIs
<1>9. ASSUME Cardinality(S) = 1 PROVE S = {NthMember(S, 1)}
  <2>1. PICK y : S = {y}
    BY <1>9, FS_Singleton
  <2>2. NthMember(S, 1) \in S
    BY <1>7, <2>1
  <2> QED BY <2>1, <2>2
<1> QED BY <1>2, <1>3, <1>6, <1>7, <1>8, <1>9 DEF T

\* The second of two places is one of them.
LEMMA SecondMember ==
  ASSUME NEW S \in SUBSET Nat, IsFiniteSet(S), Cardinality(S) = 2
  PROVE  NthMember(S, 2) \in S
<1>1. S # {}
  BY FS_EmptySet
<1>2. PICK m \in S : \A k \in S : m <= k
  BY <1>1, LeastNat
<1>3. IsFiniteSet(S \ {m}) /\ Cardinality(S \ {m}) = 1
  <2>1. Cardinality(S \ {m}) = Cardinality(S) - 1 /\ IsFiniteSet(S \ {m})
    BY <1>2, FS_RemoveElement
  <2> QED BY <2>1
<1>4. PICK x : S \ {m} = {x}
  BY <1>3, FS_Singleton
<1>5. x \in S /\ x # m /\ S = {m} \cup {x}
  BY <1>2, <1>4
<1>6. m \in Nat /\ x \in Nat /\ m <= x
  BY <1>2, <1>5
<1>7. m < x
  BY <1>5, <1>6
<1>8. IsFiniteSet({m}) /\ Cardinality({m}) = 1
  BY FS_Singleton
<1>9. {m} \in SUBSET Nat /\ \A k \in {m} : k < x
  BY <1>6, <1>7
<1>10. NthMember({m} \cup {x}, 2) = x
  BY <1>6, <1>8, <1>9, NthMemberGrows
<1> QED BY <1>5, <1>10

\* Piece n of a sequence cut at S starts at a.
Opens(S, a, n) == IF n = 1 THEN a = 1 ELSE a \in S /\ Cardinality(Lower(S, a)) = n - 2

\* The places at which a piece that starts at a may end.
Later(S, a, n) == {j \in S : n = 1 \/ j > a}

\* It ends before b, at the next place or with the sequence.
Closes(S, a, n, b, len) ==
  \/ b \in Later(S, a, n) /\ \A j \in Later(S, a, n) : b <= j
  \/ b = len + 1 /\ Later(S, a, n) = {}

\* A piece has as many places before it as pieces, and the last one has them all.
LEMMA PieceBetween ==
  ASSUME NEW len \in Nat, NEW S \in SUBSET Nat, IsFiniteSet(S), NEW n \in Nat \ {0}, NEW a \in Nat, Opens(S, a, n),
         NEW b \in Nat, Closes(S, a, n, b, len)
  PROVE  /\ n \in 1 .. Cardinality(S) + 1 /\ Cardinality(S) \in Nat
         /\ a = IF n = 1 THEN 1 ELSE NthMember(S, n - 1)
         /\ b - 1 = IF n > Cardinality(S) THEN len ELSE NthMember(S, n) - 1
         /\ Later(S, a, n) # {} => Opens(S, b, n + 1) /\ n # Cardinality(S) + 1
         /\ Later(S, a, n) = {} => n = Cardinality(S) + 1
<1> DEFINE c == Cardinality(S)
<1>1. c \in Nat
  BY FS_CardinalityType
<1>2. n = 1 \/ (n > 1 /\ a \in S /\ Cardinality(Lower(S, a)) = n - 2)
  BY DEF Opens
<1>3. ASSUME n > 1
      PROVE  /\ IsFiniteSet(Lower(S, a) \cup {a}) /\ Cardinality(Lower(S, a) \cup {a}) = n - 1
             /\ NthMember(S, n - 1) = a
  <2>1. Lower(S, a) \subseteq S /\ a \notin Lower(S, a)
    BY DEF Lower
  <2>2. IsFiniteSet(Lower(S, a))
    BY <2>1, FS_Subset
  <2>3. IsFiniteSet(Lower(S, a) \cup {a}) /\ Cardinality(Lower(S, a) \cup {a}) = Cardinality(Lower(S, a)) + 1
    BY <2>1, <2>2, FS_AddElement
  <2>4. Cardinality(Lower(S, a)) = (n - 1) - 1
    BY <1>2, <1>3
  <2>5. NthMember(S, n - 1) = a
    BY <1>2, <1>3, <2>4, NthMemberIs
  <2> QED BY <1>2, <1>3, <2>3, <2>5
<1>6. (IF n = 1 THEN 1 ELSE NthMember(S, n - 1)) = a
  <2>1. CASE n = 1
    BY <2>1 DEF Opens
  <2>2. CASE n > 1
    <3>1. n # 1
      BY <2>2
    <3> QED BY <1>3, <2>2, <3>1
  <2> QED BY <2>1, <2>2
<1>4. CASE Later(S, a, n) = {}
  <2>1. c = n - 1
    <3>1. CASE n = 1
      <4>1. S = {}
        BY <1>4, <3>1 DEF Later
      <4> QED BY <3>1, <4>1, FS_EmptySet
    <3>2. CASE n > 1
      <4>1. S = Lower(S, a) \cup {a}
        <5>1. \A j \in S : ~ (j > a)
          BY <1>4 DEF Later
        <5>2. \A j \in Nat : j > a \/ j < a \/ j = a
          OBVIOUS
        <5>3. a \in S /\ S \subseteq Nat
          BY <1>2, <3>2
        <5>4. \A j : j \in S => j \in Lower(S, a) \/ j = a
          BY <5>1, <5>2, <5>3 DEF Lower
        <5>5. \A j : j \in Lower(S, a) => j \in S
          BY DEF Lower
        <5> QED BY <5>3, <5>4, <5>5
      <4> QED BY <1>3, <3>2, <4>1
    <3> QED BY <3>1, <3>2
  <2>2. b = len + 1
    BY <1>4 DEF Closes
  <2> HIDE DEF c
  <2>3. n \in 1 .. c + 1 /\ n > c /\ n = c + 1
    BY <1>1, <2>1
  <2> QED BY <1>1, <1>4, <1>6, <2>2, <2>3 DEF c
<1>5. CASE Later(S, a, n) # {}
  <2>1. b \in Later(S, a, n) /\ \A j \in Later(S, a, n) : b <= j
    BY <1>5 DEF Closes
  <2>2. b \in S /\ (n = 1 \/ b > a)
    BY <2>1 DEF Later
  <2>3. Cardinality(Lower(S, b)) = n - 1 /\ IsFiniteSet(Lower(S, b))
    <3>1. CASE n = 1
      <4>1. Later(S, a, n) = S
        BY <3>1 DEF Later
      <4>2. \A j \in S : ~ (j < b)
        BY <2>1, <2>2, <4>1
      <4>3. Lower(S, b) = {}
        BY <4>2 DEF Lower
      <4> QED BY <3>1, <4>3, FS_EmptySet
    <3>2. CASE n > 1
      <4>1. \A j \in S : j < b => ~ (j > a)
        BY <2>1, <2>2, <3>2 DEF Later
      <4>2. a < b
        BY <2>2, <3>2
      <4>3. \A j \in Nat : j < a => j < b
        BY <4>2
      <4>4. \A j \in Nat : j > a \/ j < a \/ j = a
        OBVIOUS
      <4>5. Lower(S, b) = Lower(S, a) \cup {a}
        <5>1. a \in S /\ S \subseteq Nat
          BY <1>2, <3>2
        <5>2. \A j : j \in Lower(S, b) => j \in Lower(S, a) \/ j = a
          BY <4>1, <4>4, <5>1 DEF Lower
        <5>3. \A j : j \in Lower(S, a) => j \in Lower(S, b)
          BY <4>3, <5>1 DEF Lower
        <5>4. a \in Lower(S, b)
          BY <4>2, <5>1 DEF Lower
        <5> QED BY <5>2, <5>3, <5>4
      <4> QED BY <1>3, <3>2, <4>5
    <3> QED BY <3>1, <3>2
  <2>4. NthMember(S, n) = b
    BY <2>2, <2>3, NthMemberIs
  <2>5. n <= c
    <3>1. Lower(S, b) \subseteq S /\ b \notin Lower(S, b)
      BY DEF Lower
    <3>2. IsFiniteSet(Lower(S, b) \cup {b}) /\ Cardinality(Lower(S, b) \cup {b}) = n
      <4>1. Cardinality(Lower(S, b) \cup {b}) = Cardinality(Lower(S, b)) + 1 /\ IsFiniteSet(Lower(S, b) \cup {b})
        BY <2>3, <3>1, FS_AddElement
      <4> QED BY <2>3, <4>1
    <3>3. Lower(S, b) \cup {b} \subseteq S
      BY <2>2, <3>1
    <3> QED BY <3>2, <3>3, FS_Subset
  <2> HIDE DEF c
  <2>6. n \in 1 .. c + 1 /\ ~ (n > c) /\ n # c + 1
    BY <1>1, <2>5
  <2>7. Opens(S, b, n + 1)
    <3>1. n + 1 # 1 /\ (n + 1) - 2 = n - 1
      OBVIOUS
    <3> QED BY <2>2, <2>3, <3>1 DEF Opens
  <2> QED BY <1>1, <1>5, <1>6, <2>4, <2>6, <2>7 DEF c
<1> QED BY <1>4, <1>5

\* The first member of a set in a range.
LEMMA FirstAt ==
  ASSUME NEW i \in Nat, NEW m \in Nat, i <= m, NEW S, m \in S
  PROVE  \E e \in i .. m : /\ e \in S /\ \A k \in i .. e - 1 : k \notin S
                           /\ \A d \in i .. m : d \in S /\ (\A k \in i .. d - 1 : k \notin S) => d = e
<1> DEFINE T == S \cap (i .. m)
<1>1. PICK e \in T : \A k \in T : e <= k
  <2>1. T \in SUBSET Nat /\ m \in T
    OBVIOUS
  <2> HIDE DEF T
  <2> QED BY <2>1, LeastNat
<1>2. e \in i .. m /\ e \in S /\ e \in Nat
  BY <1>1
<1>3. ASSUME NEW k \in i .. e - 1 PROVE k \notin S
  <2>1. k \in i .. m /\ ~ (e <= k)
    BY <1>2
  <2> QED BY <1>1, <2>1
<1>4. ASSUME NEW d \in i .. m, d \in S, \A k \in i .. d - 1 : k \notin S PROVE d = e
  <2>1. d \in Nat /\ e <= d
    BY <1>1, <1>4
  <2>2. ~ (e < d)
    <3>1. e < d => e \in i .. d - 1
      BY <1>2, <2>1
    <3> QED BY <1>2, <1>4, <3>1
  <2> QED BY <1>2, <2>1, <2>2
<1> QED BY <1>2, <1>3, <1>4

\* A sequence with one element more.
LEMMA AppendIs ==
  ASSUME NEW X, NEW ts \in Seq(X), NEW t \in X
  PROVE  /\ Append(ts, t) \in Seq(X) /\ Len(Append(ts, t)) = Len(ts) + 1 /\ Len(ts) \in Nat
         /\ DOMAIN Append(ts, t) = 1 .. Len(ts) + 1 /\ DOMAIN ts = 1 .. Len(ts)
         /\ \A k \in 1 .. Len(ts) : Append(ts, t)[k] = ts[k]
         /\ Append(ts, t)[Len(ts) + 1] = t
BY AppendProperties, LenProperties

\* The tokens of a piece.
LEMMA PieceIs ==
  ASSUME NEW X, NEW s \in Seq(X), NEW p \in 1 .. Len(s) + 1, NEW q \in p - 1 .. Len(s)
  PROVE  /\ SubSeq(s, p, q) \in Seq(X) /\ Len(SubSeq(s, p, q)) = q - p + 1
         /\ DOMAIN SubSeq(s, p, q) = 1 .. q - p + 1
         /\ \A k \in 1 .. q - p + 1 : SubSeq(s, p, q)[k] = s[p + k - 1] /\ p + k - 1 \in 1 .. Len(s)
<1>1. Len(s) \in Nat /\ p \in Nat /\ q \in Nat /\ p >= 1 /\ q <= Len(s) /\ p <= q + 1
  OBVIOUS
<1>2. CASE p <= q
  BY <1>1, <1>2, SubSeqProperties
<1>3. CASE p = q + 1
  <2>1. q - p + 1 = 0
    BY <1>1, <1>3
  <2>2. SubSeq(s, p, q) = <<>>
    BY <1>1, <1>3, SubSeqProperties
  <2> QED BY <2>1, <2>2
<1> QED BY <1>1, <1>2, <1>3
=============================================================================
