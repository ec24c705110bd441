------------------------------ MODULE ElfProofs ------------------------------
(***************************************************************************)
(* Proofs about the ELF writer, for any sections, symbols and relocations  *)
(* added in any order: what the image holds, where it is, and that a       *)
(* linker reads back what the caller added.                                *)
(***************************************************************************)
EXTENDS ElfObject, NatLemmas, FunctionTheorems

-----------------------------------------------------------------------------
(* The handles of a set in order. *)

Collects(w, H, n) ==
  /\ w \in [0 .. n -> Seq(Nat)] /\ w[0] = <<>>
  /\ \A i \in 1 .. n : w[i] = IF i - 1 \in H THEN Append(w[i - 1], i - 1) ELSE w[i - 1]

\* The recursive definition of InOrder defines what it says.
LEMMA InOrderIs ==
  ASSUME NEW H, NEW n \in Nat
  PROVE  \E w : Collects(w, H, n) /\ InOrder(H, n) = w[n]
<1> DEFINE X == Seq(Nat)
           Step(i, x) == IF i - 1 \in H THEN Append(x, i - 1) ELSE x
           F == [i \in 1 .. n |-> [x \in X |-> Step(i, x)]]
           Fits(f) == f = [i \in 0 .. n |-> IF i = 0 THEN <<>> ELSE Step(i, f[i - 1])]
           w == CHOOSE f : Fits(f)
<1>1. F \in [1 .. n -> [X -> X]] /\ <<>> \in X
  <2>1. ASSUME NEW i \in 1 .. n, NEW x \in X PROVE Step(i, x) \in X
    <3>1. i - 1 \in Nat
      OBVIOUS
    <3> QED BY <3>1
  <2> HIDE DEF Step
  <2> QED BY <2>1
<1>2. \A i \in 1 .. n, x \in X : F[i][x] = Step(i, x)
  OBVIOUS
<1>3. PICK g : StepsTo(g, n, X, <<>>, F)
  <2> HIDE DEF F, X
  <2> QED BY <1>1, StepsExist
<1> HIDE DEF F
<1>4. g \in [0 .. n -> X] /\ g[0] = <<>> /\ \A i \in 1 .. n : g[i] = Step(i, g[i - 1])
  <2> HIDE DEF X, Step
  <2>1. g \in [0 .. n -> X] /\ g[0] = <<>> /\ \A i \in 1 .. n : g[i] = F[i][g[i - 1]]
    BY <1>3 DEF StepsTo
  <2>2. ASSUME NEW i \in 1 .. n PROVE g[i] = Step(i, g[i - 1])
    <3>1. g[i] = F[i][g[i - 1]] /\ g[i - 1] \in X
      BY <2>1
    <3> QED BY <1>2, <3>1
  <2> QED BY <2>1, <2>2
<1>7. InOrder(H, n) = w[n]
  BY DEF InOrder
<1> HIDE DEF Step, X
<1>5. Fits(g)
  BY <1>4
<1>6. Fits(w)
  BY <1>5
<1> HIDE DEF w
<1>8. /\ w = [i \in 0 .. n |-> w[i]] /\ w[0] = <<>>
      /\ \A i \in 1 .. n : w[i] = Step(i, w[i - 1])
  BY <1>6
<1>9. \A i \in 1 .. n : w[i - 1] \in X => w[i] = F[i][w[i - 1]]
  BY <1>2, <1>8
<1>10. StepsTo(w, n, X, <<>>, F)
  BY <1>1, <1>8, <1>9, StepsUnique
<1>11. w \in [0 .. n -> X]
  BY <1>10 DEF StepsTo
<1> QED BY <1>7, <1>8, <1>11 DEF Collects, Step, X

Injective(s) == \A i, j \in DOMAIN s : s[i] = s[j] => i = j

\* InOrder lists each member of the set once.
LEMMA InOrderLists ==
  ASSUME NEW n \in Nat, NEW H \in SUBSET (0 .. n - 1)
  PROVE  /\ InOrder(H, n) \in Seq(H) /\ Len(InOrder(H, n)) <= n
         /\ Injective(InOrder(H, n))
         /\ \A h \in H : \E i \in DOMAIN InOrder(H, n) : InOrder(H, n)[i] = h
<1>1. PICK w : Collects(w, H, n) /\ InOrder(H, n) = w[n]
  BY InOrderIs
<1> DEFINE Below(m) == {h \in H : h < m}
           Good(s, m) == /\ s \in Seq(Below(m)) /\ Len(s) <= m /\ Injective(s)
                         /\ \A h \in Below(m) : \E i \in DOMAIN s : s[i] = h
           S == {m \in Nat : m <= n => Good(w[m], m)}
<1>0. \A h \in H : h \in Nat /\ h < n
  OBVIOUS
<1>2. 0 \in S
  <2>1. Below(0) = {}
    <3>1. \A h \in H : ~ (h < 0)
      BY <1>0
    <3> QED BY <3>1
  <2>2. w[0] = <<>>
    BY <1>1 DEF Collects
  <2>3. Good(<<>>, 0)
    BY <2>1 DEF Injective
  <2> QED BY <2>2, <2>3
<1>3. ASSUME NEW m \in Nat, m \in S PROVE m + 1 \in S
  <2> SUFFICES ASSUME m + 1 <= n PROVE Good(w[m + 1], m + 1)
    OBVIOUS
  <2>1. Good(w[m], m)
    BY <1>3
  <2>2. w[m + 1] = IF m \in H THEN Append(w[m], m) ELSE w[m]
    <3>1. m + 1 \in 1 .. n /\ (m + 1) - 1 = m
      OBVIOUS
    <3> QED BY <1>1, <3>1 DEF Collects
  <2>3. PICK s : s = w[m]
    OBVIOUS
  <2>4. /\ s \in Seq(Below(m)) /\ Injective(s) /\ Len(s) \in Nat /\ Len(s) <= m
        /\ \A h \in Below(m) : \E i \in DOMAIN s : s[i] = h
    BY <2>1, <2>3
  <2>5. CASE m \in H
    <3>1. Below(m + 1) = Below(m) \cup {m} /\ m \notin Below(m)
      <4>1. \A h \in H : h < m + 1 <=> h < m \/ h = m
        BY <1>0
      <4>2. ~ (m < m)
        OBVIOUS
      <4> QED BY <2>5, <4>1, <4>2
    <3> DEFINE B == Below(m)
               t == Append(s, m)
    <3>2. s \in Seq(B) /\ \A h \in B : \E i \in DOMAIN s : s[i] = h
      BY <2>4
    <3> HIDE DEF Below, B
    <3>3. Len(s) \in Nat /\ DOMAIN s = 1 .. Len(s) /\ \A i \in 1 .. Len(s) : s[i] \in B
      BY <3>2
    <3>4. /\ t \in Seq(B \cup {m}) /\ Len(t) = Len(s) + 1 /\ DOMAIN t = 1 .. Len(s) + 1
          /\ t[Len(s) + 1] = m /\ \A i \in 1 .. Len(s) : t[i] = s[i]
      BY <3>2
    <3> HIDE DEF t
    <3>5. m \notin B
      BY <3>1 DEF B
    <3>6. Injective(t)
      BY <2>4, <3>3, <3>4, <3>5 DEF Injective
    <3>7. \A h \in B \cup {m} : \E i \in DOMAIN t : t[i] = h
      BY <3>2, <3>3, <3>4
    <3>8. Len(t) <= m + 1
      BY <2>4, <3>3, <3>4
    <3> QED BY <2>2, <2>3, <2>5, <3>1, <3>4, <3>6, <3>7, <3>8 DEF B, t
  <2>6. CASE m \notin H
    <3>1. Below(m + 1) = Below(m)
      <4>1. \A h \in H : h < m + 1 <=> h < m
        BY <1>0, <2>6
      <4> QED BY <4>1
    <3>2. Len(s) <= m + 1
      BY <2>4
    <3> HIDE DEF Below
    <3> QED BY <2>2, <2>3, <2>4, <2>6, <3>1, <3>2
  <2> QED BY <2>5, <2>6
<1>4. n \in S
  <2> HIDE DEF S
  <2> QED BY <1>2, <1>3, NatSetInduction
<1>5. Below(n) = H
  BY <1>0
<1> QED BY <1>1, <1>4, <1>5

-----------------------------------------------------------------------------
(* String tables. *)

Sized(table, n) ==
  Len(table) = n /\ DOMAIN table = 1 .. n /\ \A j \in 1 .. n : table[j].bytes \in Nat

Sums(w, table, n) ==
  /\ w \in [0 .. n -> Nat] /\ w[0] = 1
  /\ \A i \in 1 .. n : w[i] = w[i - 1] + table[i].bytes

\* The recursive definition of Offset defines what it says.
LEMMA OffsetIs ==
  ASSUME NEW n \in Nat, NEW table, Sized(table, n)
  PROVE  \E w : Sums(w, table, n) /\ \A k : Offset(table, k) = w[k - 1]
<1> DEFINE Step(i, x) == x + table[i].bytes
           F == [i \in 1 .. n |-> [x \in Nat |-> Step(i, x)]]
           Fits(f) == f = [i \in 0 .. n |-> IF i = 0 THEN 1 ELSE Step(i, f[i - 1])]
           w == CHOOSE f : Fits(f)
<1>0. \A i \in 1 .. n, x \in Nat : Step(i, x) \in Nat
  BY DEF Sized
<1>1. \A k : Offset(table, k) = w[k - 1]
  BY DEF Offset, Sized
<1> HIDE DEF Step
<1>2. F \in [1 .. n -> [Nat -> Nat]] /\ 1 \in Nat
  BY <1>0
<1>3. \A i \in 1 .. n, x \in Nat : F[i][x] = Step(i, x)
  OBVIOUS
<1> HIDE DEF F
<1>4. PICK g : StepsTo(g, n, Nat, 1, F)
  BY <1>2, StepsExist
<1>5. g \in [0 .. n -> Nat] /\ g[0] = 1 /\ \A i \in 1 .. n : g[i] = Step(i, g[i - 1])
  <2>1. g \in [0 .. n -> Nat] /\ g[0] = 1 /\ \A i \in 1 .. n : g[i] = F[i][g[i - 1]]
    BY <1>4 DEF StepsTo
  <2>2. ASSUME NEW i \in 1 .. n PROVE g[i] = Step(i, g[i - 1])
    <3>1. g[i] = F[i][g[i - 1]] /\ g[i - 1] \in Nat
      BY <2>1
    <3> QED BY <1>3, <3>1
  <2> QED BY <2>1, <2>2
<1>6. Fits(g)
  BY <1>5
<1>7. Fits(w)
  BY <1>6
<1> HIDE DEF w
<1>8. /\ w = [i \in 0 .. n |-> w[i]] /\ w[0] = 1
      /\ \A i \in 1 .. n : w[i] = Step(i, w[i - 1])
  BY <1>7
<1>9. \A i \in 1 .. n : w[i - 1] \in Nat => w[i] = F[i][w[i - 1]]
  BY <1>3, <1>8
<1>10. StepsTo(w, n, Nat, 1, F)
  BY <1>2, <1>8, <1>9, StepsUnique
<1>11. w \in [0 .. n -> Nat]
  BY <1>10 DEF StepsTo
<1> QED BY <1>1, <1>8, <1>11 DEF Sums, Step

\* Strings follow one another, behind the empty one.
LEMMA OffsetOrder ==
  ASSUME NEW n \in Nat, NEW table, Sized(table, n)
  PROVE  /\ \A k \in 1 .. n + 1 : Offset(table, k) \in Nat \ {0}
         /\ \A k \in 1 .. n + 1 : \A j \in 1 .. k - 1 :
              Offset(table, j) + table[j].bytes <= Offset(table, k)
<1>1. PICK w : Sums(w, table, n) /\ \A k : Offset(table, k) = w[k - 1]
  BY OffsetIs
<1>2. \A i \in 1 .. n : w[i] = w[i - 1] + table[i].bytes /\ w[i - 1] \in Nat /\ table[i].bytes \in Nat
  BY <1>1 DEF Sums, Sized
<1> DEFINE S == {m \in Nat : m <= n => /\ w[m] \in Nat \ {0}
                                       /\ \A j \in 1 .. m : w[j - 1] + table[j].bytes <= w[m]}
<1>3. 0 \in S
  BY <1>1 DEF Sums
<1>4. ASSUME NEW m \in Nat, m \in S PROVE m + 1 \in S
  <2> SUFFICES ASSUME m + 1 <= n
               PROVE  /\ w[m + 1] \in Nat \ {0}
                      /\ \A j \in 1 .. m + 1 : w[j - 1] + table[j].bytes <= w[m + 1]
    OBVIOUS
  <2>1. /\ w[m] \in Nat \ {0} /\ table[m + 1].bytes \in Nat
        /\ w[m + 1] = w[m] + table[m + 1].bytes
    <3>1. m + 1 \in 1 .. n /\ (m + 1) - 1 = m
      OBVIOUS
    <3> QED BY <1>2, <1>4, <3>1
  <2>2. ASSUME NEW j \in 1 .. m + 1 PROVE w[j - 1] + table[j].bytes <= w[m + 1]
    <3>1. CASE j = m + 1
      BY <2>1, <3>1
    <3>2. CASE j \in 1 .. m
      <4>1. w[j - 1] + table[j].bytes <= w[m] /\ w[j - 1] \in Nat /\ table[j].bytes \in Nat
        BY <1>2, <1>4, <3>2
      <4> QED BY <2>1, <4>1
    <3> QED BY <3>1, <3>2
  <2> QED BY <2>1, <2>2
<1>5. Nat \subseteq S
  <2> HIDE DEF S
  <2> QED BY <1>3, <1>4, NatSetInduction
<1>6. ASSUME NEW k \in 1 .. n + 1 PROVE Offset(table, k) \in Nat \ {0}
  BY <1>1, <1>5
<1>7. ASSUME NEW k \in 1 .. n + 1, NEW j \in 1 .. k - 1
      PROVE  Offset(table, j) + table[j].bytes <= Offset(table, k)
  <2>1. k - 1 \in S /\ k - 1 <= n /\ j \in 1 .. k - 1
    BY <1>5
  <2> QED BY <1>1, <2>1
<1> QED BY <1>6, <1>7

-----------------------------------------------------------------------------
(* What the serializer computes before it places anything. *)

\* How the sections and symbols are counted and what they hold.
LEMMA Counted ==
  ASSUME BuilderTypeOK
  PROVE  /\ SectionCount \in Nat /\ SectionHandles = 0 .. SectionCount - 1
         /\ \A h \in SectionHandles : /\ h \in Nat /\ h + 1 \in 1 .. SectionCount
                                      /\ sections[h + 1] \in Section
         /\ \A k \in 1 .. SectionCount : k - 1 \in SectionHandles /\ sections[k] \in Section
         /\ Len(symbols) \in Nat /\ SymbolHandles = 0 .. Len(symbols) - 1
         /\ \A h \in SymbolHandles : /\ h \in Nat /\ h + 1 \in 1 .. Len(symbols)
                                     /\ symbols[h + 1] \in Symbol
BY DEF BuilderTypeOK, SectionCount, SectionHandles, SymbolHandles

\* One .rela section for each section with relocations, and for no other.
LEMMA RelaOwnersAre ==
  ASSUME BuilderTypeOK
  PROVE  /\ RelaOwners \in Seq(SectionHandles) /\ Len(RelaOwners) \in Nat
         /\ Len(RelaOwners) <= SectionCount
         /\ Injective(RelaOwners)
         /\ \A i \in 1 .. Len(RelaOwners) : RelaOwners[i] \in HaveRelas
         /\ \A h \in HaveRelas : \E i \in 1 .. Len(RelaOwners) : RelaOwners[i] = h
<1> DEFINE n == SectionCount
           H == HaveRelas
           s == RelaOwners
<1>1. n \in Nat /\ H \in SUBSET (0 .. n - 1) /\ H \in SUBSET SectionHandles
  BY Counted DEF HaveRelas
<1>2. s = InOrder(H, n)
  BY DEF RelaOwners
<1> HIDE DEF n, H, s
<1>3. /\ s \in Seq(H) /\ Injective(s) /\ \A h \in H : \E i \in DOMAIN s : s[i] = h
      /\ Len(s) <= n
  BY <1>1, <1>2, InOrderLists
<1>4. DOMAIN s = 1 .. Len(s) /\ Len(s) \in Nat /\ \A i \in 1 .. Len(s) : s[i] \in H
  BY <1>3
<1>5. s \in Seq(SectionHandles)
  <2>1. \A i \in 1 .. Len(s) : s[i] \in SectionHandles
    BY <1>1, <1>4
  <2> QED BY <1>3, <1>4, <2>1
<1> QED BY <1>3, <1>4, <1>5 DEF s, H, n

\* Every symbol has one entry, and the first ones are the local symbols.
LEMMA SymbolOrderIs ==
  ASSUME BuilderTypeOK
  PROVE  /\ SymbolOrder \in Seq(SymbolHandles) /\ Len(SymbolOrder) = Len(symbols)
         /\ Injective(SymbolOrder)
         /\ \A h \in SymbolHandles : \E p \in 1 .. Len(symbols) : SymbolOrder[p] = h
         /\ FirstGlobal \in Nat
         /\ \A p \in 1 .. Len(symbols) : p < FirstGlobal <=> SymbolOrder[p] \in Locals
<1> DEFINE n == Len(symbols)
           H == SymbolHandles
           L == Locals
           N == NonLocals
           s == InOrder(L, n)
           t == InOrder(N, n)
           u == s \o t
<1>1. /\ n \in Nat /\ H = 0 .. n - 1 /\ L \in SUBSET H /\ N = H \ L
      /\ L \in SUBSET (0 .. n - 1) /\ N \in SUBSET (0 .. n - 1)
  BY Counted DEF Locals, NonLocals
<1>2. SymbolOrder = u /\ FirstGlobal = 1 + Len(s)
  BY DEF SymbolOrder, FirstGlobal
<1> HIDE DEF n, H, L, N
<1>3. s \in Seq(L) /\ Injective(s) /\ \A h \in L : \E i \in DOMAIN s : s[i] = h
  BY <1>1, InOrderLists
<1>4. t \in Seq(N) /\ Injective(t) /\ \A h \in N : \E i \in DOMAIN t : t[i] = h
  BY <1>1, InOrderLists, ZenonT(60)
<1> HIDE DEF s, t
<1> DEFINE a == Len(s)
           b == Len(t)
<1>5. /\ a \in Nat /\ b \in Nat /\ DOMAIN s = 1 .. a /\ DOMAIN t = 1 .. b
      /\ \A i \in 1 .. a : s[i] \in L
      /\ \A i \in 1 .. b : t[i] \in N
  BY <1>3, <1>4
<1>6. s \in Seq(H) /\ t \in Seq(H)
  <2>1. \A i \in 1 .. a : s[i] \in H
    BY <1>1, <1>5
  <2>2. \A i \in 1 .. b : t[i] \in H
    BY <1>1, <1>5
  <2>3. s \in Seq(H)
    BY <1>3, <1>5, <2>1
  <2>4. t \in Seq(H)
    BY <1>4, <1>5, <2>2
  <2> QED BY <2>3, <2>4
<1>7. /\ u \in Seq(H) /\ Len(u) = a + b /\ DOMAIN u = 1 .. a + b
      /\ \A i \in 1 .. a : u[i] = s[i]
      /\ \A i \in a + 1 .. a + b : u[i] = t[i - a] /\ i - a \in 1 .. b
  BY <1>6
<1> HIDE DEF u, a, b
<1>8. ASSUME NEW i \in 1 .. a + b PROVE u[i] \in L <=> i <= a
  <2>1. CASE i \in 1 .. a
    BY <1>5, <1>7, <2>1
  <2>2. CASE i \in a + 1 .. a + b
    <3>1. u[i] \in N
      BY <1>5, <1>7, <2>2
    <3>2. ~ (i <= a)
      BY <1>5, <2>2
    <3> QED BY <1>1, <3>1, <3>2
  <2> QED BY <1>5, <2>1, <2>2
<1>9. Injective(u)
  <2> SUFFICES ASSUME NEW i \in 1 .. a + b, NEW j \in 1 .. a + b, u[i] = u[j]
               PROVE  i = j
    BY <1>7 DEF Injective
  <2>1. i <= a <=> j <= a
    BY <1>8
  <2>2. CASE i <= a
    <3>1. s[i] = s[j] /\ i \in 1 .. a /\ j \in 1 .. a
      BY <1>5, <1>7, <2>1, <2>2
    <3> QED BY <1>3, <1>5, <3>1 DEF Injective
  <2>3. CASE ~ (i <= a)
    <3>1. i \in a + 1 .. a + b /\ j \in a + 1 .. a + b
      BY <1>5, <2>1, <2>3
    <3>2. t[i - a] = t[j - a] /\ i - a \in 1 .. b /\ j - a \in 1 .. b
      BY <1>7, <3>1
    <3>3. i - a = j - a
      BY <1>4, <1>5, <3>2 DEF Injective
    <3> QED BY <1>5, <3>3
  <2> QED BY <2>2, <2>3
<1>10. ASSUME NEW h \in H PROVE \E p \in 1 .. a + b : u[p] = h
  <2>1. CASE h \in L
    <3>1. PICK i \in 1 .. a : s[i] = h
      BY <1>3, <1>5, <2>1
    <3>2. i \in 1 .. a + b
      BY <1>5
    <3> QED BY <1>7, <3>1, <3>2
  <2>2. CASE h \notin L
    <3>1. PICK i \in 1 .. b : t[i] = h
      BY <1>1, <1>4, <1>5, <2>2
    <3>2. i + a \in a + 1 .. a + b /\ (i + a) - a = i /\ i + a \in 1 .. a + b
      BY <1>5
    <3> QED BY <1>7, <3>1, <3>2
  <2> QED BY <2>1, <2>2
<1>11. a + b = n
  <2> DEFINE m == a + b
  <2>1. m \in Nat
    BY <1>5
  <2>2. u \in Bijection(1 .. m, H)
    <3>1. u \in [1 .. m -> H]
      BY <1>7
    <3>2. \A i, j \in 1 .. m : u[i] = u[j] => i = j
      BY <1>7, <1>9 DEF Injective
    <3> HIDE DEF m
    <3> QED BY <1>10, <3>1, <3>2, Fun_IsBij DEF m
  <2>3. /\ IsFiniteSet(1 .. m) /\ Cardinality(1 .. m) = m
    BY <2>1, FS_Interval
  <2>4. Cardinality(H) = n
    <3>1. CASE n = 0
      BY <1>1, <3>1, FS_EmptySet
    <3>2. CASE n # 0
      <4>1. 0 \in Int /\ n - 1 \in Int /\ n - 1 - 0 + 1 = n /\ 0 <= n - 1
        BY <1>1, <3>2
      <4> QED BY <1>1, <4>1, FS_Interval
    <3> QED BY <3>1, <3>2
  <2>5. Cardinality(H) = Cardinality(1 .. m)
    <3>1. ExistsBijection(1 .. m, H)
      BY <2>2 DEF ExistsBijection
    <3> HIDE DEF m
    <3> QED BY <2>3, <3>1, FS_Bijection
  <2> QED BY <2>3, <2>4, <2>5
<1>12. \A p \in 1 .. n : p < FirstGlobal <=> u[p] \in L
  <2>1. FirstGlobal = a + 1
    BY <1>2, <1>5 DEF a
  <2> QED BY <1>5, <1>8, <1>11, <2>1
<1>13. FirstGlobal \in Nat
  BY <1>2, <1>5 DEF a
<1> QED BY <1>2, <1>7, <1>9, <1>10, <1>11, <1>12, <1>13 DEF n, H, L
\* A sequence behind another.
LEMMA Joined ==
  ASSUME NEW E, NEW s \in Seq(E), NEW t \in Seq(E)
  PROVE  /\ s \o t \in Seq(E) /\ Len(s \o t) = Len(s) + Len(t)
         /\ \A k \in 1 .. Len(s) : (s \o t)[k] = s[k]
         /\ \A k \in 1 .. Len(t) : (s \o t)[Len(s) + k] = t[k]
OBVIOUS

\* The name table has one entry for each header.
LEMMA ShstrtabIs ==
  ASSUME BuilderTypeOK
  PROVE  /\ ShstrtabIndex \in Nat /\ ShstrtabIndex = SectionCount + 3 + Len(RelaOwners)
         /\ Sized(Shstrtab, ShstrtabIndex)
         /\ \A k \in 1 .. SectionCount : Shstrtab[k] = NameEntry(<<>>, 0, k - 1)
         /\ \A k \in StrtabIndex + 1 .. ShstrtabIndex - 1 :
              Shstrtab[k] = NameEntry(<<".rela">>, 5, RelaOwner(k))
         /\ \A k \in 1 .. ShstrtabIndex : Shstrtab[k].bytes > 0
<1> DEFINE n == SectionCount
           r == Len(RelaOwners)
           Own(k) == NameEntry(<<>>, 0, k - 1)
           Rel(k) == NameEntry(<<".rela">>, 5, RelaOwners[k])
           e1 == [text |-> <<".symtab">>, bytes |-> 8]
           e2 == [text |-> <<".strtab">>, bytes |-> 8]
           e3 == [text |-> <<".shstrtab">>, bytes |-> 10]
           a == [k \in 1 .. n |-> Own(k)]
           b == <<e1, e2>>
           c == [k \in 1 .. r |-> Rel(k)]
           d == <<e3>>
<1>1. n \in Nat /\ r \in Nat
  BY Counted, RelaOwnersAre
<1>2. \A k \in 1 .. n : Own(k).bytes \in Nat \ {0}
  <2> SUFFICES ASSUME NEW k \in 1 .. n PROVE Own(k).bytes \in Nat \ {0}
    OBVIOUS
  <2>1. sections[(k - 1) + 1].name \in Name
    BY Counted DEF Section
  <2>2. NameLen[sections[(k - 1) + 1].name] \in Nat
    BY <2>1, SerializeAssumption
  <2> QED BY <2>2 DEF NameEntry
<1>3. \A k \in 1 .. r : Rel(k).bytes \in Nat \ {0}
  <2> SUFFICES ASSUME NEW k \in 1 .. r PROVE Rel(k).bytes \in Nat \ {0}
    OBVIOUS
  <2>1. RelaOwners[k] \in SectionHandles
    BY RelaOwnersAre
  <2>2. sections[RelaOwners[k] + 1].name \in Name
    BY <2>1, Counted DEF Section
  <2>3. NameLen[sections[RelaOwners[k] + 1].name] \in Nat
    BY <2>2, SerializeAssumption
  <2> QED BY <2>3 DEF NameEntry
<1>4. e1.bytes = 8 /\ e2.bytes = 8 /\ e3.bytes = 10
  OBVIOUS
<1>5. Shstrtab = a \o b \o c \o d
  BY DEF Shstrtab
<1>6. /\ ShstrtabIndex = 3 + n + r /\ StrtabIndex = 2 + n
      /\ \A k : RelaOwner(k) = RelaOwners[k - StrtabIndex]
  BY DEF ShstrtabIndex, StrtabIndex, RelaOwner
<1> DEFINE E == {Own(k) : k \in 1 .. n} \cup {Rel(k) : k \in 1 .. r} \cup {e1, e2, e3}
<1>7. a \in Seq(E) /\ Len(a) = n /\ \A k \in 1 .. n : a[k] = Own(k)
  <2> HIDE DEF Own, Rel, e1, e2, e3, n
  <2>1. \A k \in 1 .. n : Own(k) \in E
    OBVIOUS
  <2> HIDE DEF E
  <2> QED BY <1>1, <2>1
<1>8. c \in Seq(E) /\ Len(c) = r /\ \A k \in 1 .. r : c[k] = Rel(k)
  BY <1>1
<1>9. b \in Seq(E) /\ Len(b) = 2 /\ b[1] = e1 /\ b[2] = e2
  OBVIOUS
<1>10. d \in Seq(E) /\ Len(d) = 1 /\ d[1] = e3
  OBVIOUS
<1> HIDE DEF a, b, c, d, E, e1, e2, e3, n, r
<1> DEFINE t == Shstrtab
<1>11. PICK x \in Seq(E) : /\ x = a \o b /\ Len(x) = n + 2 /\ \A k \in 1 .. n : x[k] = a[k]
                           /\ \A k \in 1 .. 2 : x[n + k] = b[k]
  <2>1. /\ a \o b \in Seq(E) /\ Len(a \o b) = Len(a) + Len(b)
        /\ \A k \in 1 .. Len(a) : (a \o b)[k] = a[k]
        /\ \A k \in 1 .. Len(b) : (a \o b)[Len(a) + k] = b[k]
    <3>1. a \in Seq(E) /\ b \in Seq(E)
      BY <1>7, <1>9
    <3> QED BY <3>1, Joined
  <2> QED BY <1>7, <1>9, <2>1
<1>12. PICK y \in Seq(E) : /\ y = x \o c /\ Len(y) = n + 2 + r /\ \A k \in 1 .. n + 2 : y[k] = x[k]
                           /\ \A k \in 1 .. r : y[n + 2 + k] = c[k]
  <2>1. /\ x \o c \in Seq(E) /\ Len(x \o c) = Len(x) + Len(c)
        /\ \A k \in 1 .. Len(x) : (x \o c)[k] = x[k]
        /\ \A k \in 1 .. Len(c) : (x \o c)[Len(x) + k] = c[k]
    <3>1. x \in Seq(E) /\ c \in Seq(E)
      BY <1>8, <1>11
    <3> QED BY <3>1, Joined
  <2>2. Len(x \o c) = n + 2 + r /\ \A k \in 1 .. n + 2 : (x \o c)[k] = x[k]
    BY <1>11, <1>8, <2>1
  <2>3. \A k \in 1 .. r : (x \o c)[n + 2 + k] = c[k]
    BY <1>11, <1>8, <2>1
  <2> QED BY <2>1, <2>2, <2>3
<1>13. /\ t = y \o d /\ Len(t) = n + 2 + r + 1 /\ \A k \in 1 .. n + 2 + r : t[k] = y[k]
       /\ \A k \in 1 .. 1 : t[n + 2 + r + k] = d[k]
  <2>1. /\ y \o d \in Seq(E) /\ Len(y \o d) = Len(y) + Len(d)
        /\ \A k \in 1 .. Len(y) : (y \o d)[k] = y[k]
        /\ \A k \in 1 .. Len(d) : (y \o d)[Len(y) + k] = d[k]
    <3>1. y \in Seq(E) /\ d \in Seq(E)
      BY <1>10, <1>12
    <3> QED BY <3>1, Joined
  <2>2. t = y \o d
    BY <1>5, <1>11, <1>12
  <2> HIDE DEF t
  <2> QED BY <1>10, <1>12, <2>1, <2>2
<1> HIDE DEF t, Own, Rel
<1>14. \A k \in 1 .. n : t[k] = Own(k)
  <2> SUFFICES ASSUME NEW k \in 1 .. n PROVE t[k] = Own(k)
    OBVIOUS
  <2>1. k \in 1 .. n + 2 + r /\ k \in 1 .. n + 2
    BY <1>1
  <2> QED BY <1>7, <1>11, <1>12, <1>13, <2>1
<1>15. t[n + 1] = e1 /\ t[n + 2] = e2 /\ t[n + 3 + r] = e3
  <2>1. n + 1 \in 1 .. n + 2 + r /\ n + 1 \in 1 .. n + 2 /\ n + 2 \in 1 .. n + 2 + r /\ n + 2 \in 1 .. n + 2
    BY <1>1
  <2>2. 1 \in 1 .. 2 /\ 2 \in 1 .. 2 /\ 1 \in 1 .. 1 /\ n + 3 + r = n + 2 + r + 1
    BY <1>1
  <2>3. x[n + 1] = e1 /\ x[n + 2] = e2 /\ t[n + 3 + r] = e3
    BY <1>9, <1>10, <1>11, <1>13, <2>2
  <2> QED BY <1>12, <1>13, <2>1, <2>3
<1>16. \A k \in n + 3 .. n + 2 + r : t[k] = Rel(k - (n + 2)) /\ k - (n + 2) \in 1 .. r
  <2> SUFFICES ASSUME NEW k \in n + 3 .. n + 2 + r
               PROVE  t[k] = Rel(k - (n + 2)) /\ k - (n + 2) \in 1 .. r
    OBVIOUS
  <2>1. k \in 1 .. n + 2 + r /\ k - (n + 2) \in 1 .. r /\ n + 2 + (k - (n + 2)) = k
    BY <1>1
  <2> QED BY <1>8, <1>12, <1>13, <2>1, ZenonT(60)
<1>17. \A k \in 1 .. n + 3 + r : t[k].bytes \in Nat \ {0}
  <2> SUFFICES ASSUME NEW k \in 1 .. n + 3 + r PROVE t[k].bytes \in Nat \ {0}
    OBVIOUS
  <2>1. CASE k \in 1 .. n
    BY <1>2, <1>14, <2>1
  <2>2. CASE k \in n + 3 .. n + 2 + r
    BY <1>3, <1>16, <2>2
  <2>3. CASE k = n + 1 \/ k = n + 2 \/ k = n + 3 + r
    BY <1>4, <1>15, <2>3
  <2> QED BY <1>1, <2>1, <2>2, <2>3
<1>18. /\ ShstrtabIndex = n + 3 + r /\ ShstrtabIndex \in Nat
       /\ StrtabIndex + 1 = n + 3 /\ ShstrtabIndex - 1 = n + 2 + r
  BY <1>1, <1>6
<1>19. Sized(t, n + 3 + r)
  BY <1>1, <1>13, <1>17 DEF Sized
<1>20. ASSUME NEW k \in n + 3 .. n + 2 + r PROVE t[k] = NameEntry(<<".rela">>, 5, RelaOwner(k))
  <2>1. RelaOwner(k) = RelaOwners[k - (n + 2)]
    BY <1>1, <1>6
  <2> QED BY <1>16, <2>1 DEF Rel
<1>21. \A k \in 1 .. n + 3 + r : t[k].bytes > 0
  BY <1>17
<1> QED BY <1>14, <1>18, <1>19, <1>20, <1>21 DEF t, n, r, Own

\* The string table has one entry for each symbol; those without a name take
\* no bytes.
LEMMA StrtabIs ==
  ASSUME BuilderTypeOK
  PROVE  /\ Sized(Strtab, Len(symbols))
         /\ \A p \in 1 .. Len(symbols) :
              /\ SymbolOrder[p] \in SymbolHandles
              /\ Strtab[p].text = Text(symbols[SymbolOrder[p] + 1].name)
              /\ Strtab[p].bytes = 0 <=> symbols[SymbolOrder[p] + 1].name = NoName
<1> DEFINE n == Len(symbols)
<1>1. n \in Nat
  BY Counted
<1>2. ASSUME NEW p \in 1 .. n
      PROVE  /\ SymbolOrder[p] \in SymbolHandles
             /\ Strtab[p].text = Text(symbols[SymbolOrder[p] + 1].name)
             /\ Strtab[p].bytes \in Nat
             /\ Strtab[p].bytes = 0 <=> symbols[SymbolOrder[p] + 1].name = NoName
  <2>1. SymbolOrder[p] \in SymbolHandles
    BY SymbolOrderIs
  <2> DEFINE x == symbols[SymbolOrder[p] + 1].name
  <2>2. x \in Name
    BY <2>1, Counted DEF Symbol
  <2>3. NameLen[x] \in Nat
    BY <2>2, SerializeAssumption
  <2>4. Strtab[p] = [text |-> Text(x), bytes |-> IF x = NoName THEN 0 ELSE NameLen[x] + 1]
    BY DEF Strtab
  <2> HIDE DEF x
  <2>5. Strtab[p].bytes \in Nat /\ (Strtab[p].bytes = 0 <=> x = NoName)
    BY <2>3, <2>4
  <2>6. Strtab[p].text = Text(x)
    BY <2>4
  <2> QED BY <2>1, <2>5, <2>6 DEF x
<1>3. Len(Strtab) = n /\ DOMAIN Strtab = 1 .. n
  BY <1>1 DEF Strtab
<1> QED BY <1>2, <1>3 DEF Sized

HeaderKind == SecKind \cup {"SYMTAB", "STRTAB", "RELA"}

HeaderRecord ==
  [name : Nat, type : HeaderKind, size : Nat, align : Nat \ {0}, link : Nat, info : Nat, offset : Nat]

Filled(k, type, size, align, link, info) ==
  [name |-> Offset(Shstrtab, k), type |-> type, size |-> size,
   align |-> align, link |-> link, info |-> info, offset |-> 0]

\* The five kinds of headers.
LEMMA HeaderIs ==
  ASSUME BuilderTypeOK
  PROVE  /\ \A k \in 1 .. SectionCount :
              Header(k) = Filled(k, sections[k].kind, sections[k].size, sections[k].align, 0, 0)
         /\ Header(SymtabIndex) = Filled(SymtabIndex, "SYMTAB", SymSize * (1 + Len(symbols)), 8,
                                         StrtabIndex, FirstGlobal)
         /\ Header(StrtabIndex) = Filled(StrtabIndex, "STRTAB", TableSize(Strtab), 1, 0, 0)
         /\ \A k \in StrtabIndex + 1 .. ShstrtabIndex - 1 :
              Header(k) = Filled(k, "RELA", RelaSize * Len(sections[RelaOwner(k) + 1].relas), 8,
                                 SymtabIndex, SectionIndex(RelaOwner(k)))
         /\ Header(ShstrtabIndex) = Filled(ShstrtabIndex, "STRTAB", TableSize(Shstrtab), 1, 0, 0)
<1> DEFINE n == SectionCount
           z == ShstrtabIndex
<1>1. n \in Nat /\ z \in Nat /\ z >= n + 3 /\ SymtabIndex = n + 1 /\ StrtabIndex = n + 2
  BY Counted, ShstrtabIs, RelaOwnersAre DEF SymtabIndex, StrtabIndex
<1>2. ASSUME NEW k \in 1 .. n
      PROVE  k <= n /\ k # n + 1 /\ k # n + 2 /\ k \notin n + 2 + 1 .. z - 1 /\ k # z
  BY <1>1
<1>3. LET k == n + 1 IN ~ (k <= n) /\ k # n + 2 /\ k \notin n + 2 + 1 .. z - 1 /\ k # z
  BY <1>1
<1>4. LET k == n + 2 IN ~ (k <= n) /\ k # n + 1 /\ k \notin n + 2 + 1 .. z - 1 /\ k # z
  BY <1>1
<1>5. ASSUME NEW k \in n + 2 + 1 .. z - 1 PROVE ~ (k <= n) /\ k # n + 1 /\ k # n + 2 /\ k # z
  BY <1>1
<1>6. ~ (z <= n) /\ z # n + 1 /\ z # n + 2 /\ z \notin n + 2 + 1 .. z - 1
  BY <1>1
<1> HIDE DEF n, z
<1>7. \A k \in 1 .. n :
        Header(k) = Filled(k, sections[k].kind, sections[k].size, sections[k].align, 0, 0)
  BY <1>1, <1>2, Zenon DEF Header, Filled, n, z
<1>8. Header(n + 1) = Filled(n + 1, "SYMTAB", SymSize * (1 + Len(symbols)), 8, StrtabIndex, FirstGlobal)
  BY <1>1, <1>3, Zenon DEF Header, Filled, n, z
<1>9. Header(n + 2) = Filled(n + 2, "STRTAB", TableSize(Strtab), 1, 0, 0)
  BY <1>1, <1>4, Zenon DEF Header, Filled, n, z
<1>10. \A k \in n + 2 + 1 .. z - 1 :
         Header(k) = Filled(k, "RELA", RelaSize * Len(sections[RelaOwner(k) + 1].relas), 8,
                            SymtabIndex, SectionIndex(RelaOwner(k)))
  BY <1>1, <1>5, Zenon DEF Header, Filled, n, z
<1>11. Header(z) = Filled(z, "STRTAB", TableSize(Shstrtab), 1, 0, 0)
  BY <1>1, <1>6, Zenon DEF Header, Filled, n, z
<1> QED BY <1>1, <1>7, <1>8, <1>9, <1>10, <1>11 DEF n, z

\* The section a .rela section is for.
LEMMA RelaOwnerIs ==
  ASSUME BuilderTypeOK, NEW k \in StrtabIndex + 1 .. ShstrtabIndex - 1
  PROVE  /\ RelaOwner(k) \in SectionHandles /\ RelaOwner(k) \in HaveRelas
         /\ k - StrtabIndex \in 1 .. Len(RelaOwners)
<1>1. SectionCount \in Nat /\ Len(RelaOwners) \in Nat /\ StrtabIndex = SectionCount + 2
      /\ ShstrtabIndex = SectionCount + 3 + Len(RelaOwners)
  BY Counted, RelaOwnersAre, ShstrtabIs DEF StrtabIndex
<1>2. k - StrtabIndex \in 1 .. Len(RelaOwners)
  BY <1>1
<1> QED BY <1>2, RelaOwnersAre DEF RelaOwner, HaveRelas

\* Every header is made of numbers, and none asks for alignment 0.
LEMMA HeaderTypes ==
  ASSUME BuilderTypeOK, NEW k \in 1 .. ShstrtabIndex
  PROVE  Header(k) \in HeaderRecord
<1> DEFINE n == SectionCount
           m == Len(symbols)
<1>1. /\ n \in Nat /\ m \in Nat /\ ShstrtabIndex \in Nat /\ SymtabIndex = n + 1 /\ StrtabIndex = n + 2
      /\ ShstrtabIndex >= n + 3
  BY Counted, ShstrtabIs, RelaOwnersAre DEF SymtabIndex, StrtabIndex
<1>2. Offset(Shstrtab, k) \in Nat
  <2>1. k \in 1 .. ShstrtabIndex + 1
    BY <1>1
  <2> QED BY <1>1, <2>1, ShstrtabIs, OffsetOrder
<1>3. TableSize(Shstrtab) \in Nat
  <2>1. ShstrtabIndex + 1 \in 1 .. ShstrtabIndex + 1 /\ Len(Shstrtab) = ShstrtabIndex
    BY <1>1, ShstrtabIs DEF Sized
  <2> QED BY <1>1, <2>1, ShstrtabIs, OffsetOrder DEF TableSize
<1>4. TableSize(Strtab) \in Nat
  <2>1. m + 1 \in 1 .. m + 1 /\ Len(Strtab) = m
    BY <1>1, StrtabIs DEF Sized
  <2> QED BY <1>1, <2>1, StrtabIs, OffsetOrder DEF TableSize
<1>5. ASSUME NEW type \in HeaderKind, NEW size \in Nat, NEW align \in Nat \ {0},
             NEW link \in Nat, NEW info \in Nat
      PROVE  Filled(k, type, size, align, link, info) \in HeaderRecord
  BY <1>2, <1>5 DEF Filled, HeaderRecord
<1>6. CASE k \in 1 .. n
  <2>1. /\ sections[k].kind \in HeaderKind /\ sections[k].size \in Nat
        /\ sections[k].align \in Nat \ {0}
    BY <1>6, Counted DEF Section, HeaderKind
  <2>2. Header(k) = Filled(k, sections[k].kind, sections[k].size, sections[k].align, 0, 0)
    BY <1>6, HeaderIs
  <2> QED BY <1>5, <2>1, <2>2
<1>7. CASE k = n + 1
  <2>1. Header(k) = Filled(k, "SYMTAB", SymSize * (1 + m), 8, StrtabIndex, FirstGlobal)
    BY <1>1, <1>7, HeaderIs
  <2>2. "SYMTAB" \in HeaderKind /\ SymSize * (1 + m) \in Nat /\ FirstGlobal \in Nat
        /\ StrtabIndex \in Nat
    BY <1>1, SymbolOrderIs DEF HeaderKind, SymSize
  <2> QED BY <1>5, <2>1, <2>2
<1>8. CASE k = n + 2
  <2>1. Header(k) = Filled(k, "STRTAB", TableSize(Strtab), 1, 0, 0)
    BY <1>1, <1>8, HeaderIs
  <2>2. "STRTAB" \in HeaderKind
    BY DEF HeaderKind
  <2> QED BY <1>4, <1>5, <2>1, <2>2
<1>9. CASE k \in StrtabIndex + 1 .. ShstrtabIndex - 1
  <2>1. Header(k) = Filled(k, "RELA", RelaSize * Len(sections[RelaOwner(k) + 1].relas), 8,
                           SymtabIndex, SectionIndex(RelaOwner(k)))
    BY <1>9, HeaderIs
  <2>2. RelaOwner(k) \in Nat /\ sections[RelaOwner(k) + 1] \in Section
    BY <1>9, RelaOwnerIs, Counted
  <2>3. Len(sections[RelaOwner(k) + 1].relas) \in Nat
    BY <2>2 DEF Section
  <2>4. /\ "RELA" \in HeaderKind /\ RelaSize * Len(sections[RelaOwner(k) + 1].relas) \in Nat
        /\ SymtabIndex \in Nat /\ SectionIndex(RelaOwner(k)) \in Nat
    BY <1>1, <2>2, <2>3 DEF HeaderKind, RelaSize, SectionIndex
  <2> QED BY <1>5, <2>1, <2>4
<1>10. CASE k = ShstrtabIndex
  <2>1. Header(k) = Filled(k, "STRTAB", TableSize(Shstrtab), 1, 0, 0)
    BY <1>10, HeaderIs
  <2>2. "STRTAB" \in HeaderKind
    BY DEF HeaderKind
  <2> QED BY <1>3, <1>5, <2>1, <2>2
<1> QED BY <1>1, <1>6, <1>7, <1>8, <1>9, <1>10

\* align_content yields a multiple of the alignment, no smaller.
LEMMA AlignContentWorks ==
  ASSUME NEW at \in Nat, NEW align \in Nat \ {0}
  PROVE  /\ AlignContent(at, align) \in Nat /\ at <= AlignContent(at, align)
         /\ AlignContent(at, align) % align = 0
<1> DEFINE r == at % align
           q == at \div align
           p == (align - r) % align
<1>1. r \in 0 .. align - 1 /\ q \in Int /\ at = align * q + r
  BY DivMod
<1>2. AlignContent(at, align) = at + p
  BY DEF AlignContent
<1>3. CASE r = 0
  <2>1. p = 0
    <3>1. (align * 1 + 0) % align = 0
      <4>1. 1 \in Int /\ 0 \in 0 .. align - 1
        OBVIOUS
      <4> QED BY <4>1, ModOf
    <3>2. align * 1 + 0 = align - r
      BY <1>3
    <3> HIDE DEF r
    <3> QED BY <3>1, <3>2
  <2>2. at % align = 0
    BY <1>3
  <2> HIDE DEF p, r
  <2> QED BY <1>2, <2>1, <2>2
<1>4. CASE r # 0
  <2>1. align - r \in 0 .. align - 1
    BY <1>1, <1>4
  <2> HIDE DEF r, q
  <2>2. p = align - r
    BY <2>1, ModSmall
  <2> HIDE DEF p
  <2>3. at + p = align * (q + 1) + 0 /\ q + 1 \in Int /\ 0 \in 0 .. align - 1
    BY <1>1, <2>2
  <2>4. (align * (q + 1) + 0) % align = 0
    BY <2>3, ModOf
  <2>5. p \in Nat
    BY <2>1, <2>2
  <2> QED BY <1>2, <2>3, <2>4, <2>5
<1> QED BY <1>3, <1>4

-----------------------------------------------------------------------------
(* Layout. *)

ChunkRecord == [at : Nat, len : Nat, of : Nat]

\* Each header describes what it is meant to, but for where that is.
Described(hs) ==
  \A k \in DOMAIN hs : /\ k \in 1 .. ShstrtabIndex
                       /\ hs[k] = [Header(k) EXCEPT !.offset = hs[k].offset]

\* The file holds what a header describes where the header says.
Held(hs, cs) ==
  \A k \in DOMAIN hs : hs[k].type # "NOBITS" =>
     \E j \in DOMAIN cs : cs[j] = [at |-> hs[k].offset, len |-> hs[k].size, of |-> k]

\* Contents stand one after the other, aligned, from the ELF header to bound.
Apart(hs, cs, bound) ==
  \A j \in DOMAIN cs : /\ cs[j].of \in DOMAIN hs
                       /\ EhdrSize <= cs[j].at /\ cs[j].at + cs[j].len <= bound
                       /\ cs[j].at % hs[cs[j].of].align = 0
                       /\ \A i \in 1 .. j - 1 : cs[i].at + cs[i].len <= cs[j].at

LaidOut(hs, cs, bound) ==
  /\ hs \in Seq(HeaderRecord) /\ cs \in Seq(ChunkRecord)
  /\ bound \in Nat /\ EhdrSize <= bound
  /\ Described(hs) /\ Held(hs, cs) /\ Apart(hs, cs, bound)

\* o is the file of the contents laid out up to at.
FileOf(o, at) ==
  /\ o = Object(o.shdrs, o.chunks, at)
  /\ LaidOut(o.shdrs, o.chunks, at)
  /\ Len(o.shdrs) + 1 = HeaderCount

\* The inductive invariant: the part of the file made so far describes what
\* the builder holds now, and so does an image.
LayoutInv ==
  /\ BuilderTypeOK
  /\ phase \in {"building", "layout", "finished"}
  /\ LaidOut(shdrs, chunks, end)
  /\ \A o \in image : \E at \in Nat : FileOf(o, at)

LEMMA NothingLaidOut == LaidOut(<<>>, <<>>, EhdrSize)
BY DEF LaidOut, Described, Held, Apart, EhdrSize

\* Placing the contents of one more header.
LEMMA PlaceLaysOut ==
  ASSUME BuilderTypeOK, NEW hs, NEW cs, NEW at, LaidOut(hs, cs, at),
         Len(hs) + 1 < HeaderCount,
         NEW k, k = Len(hs) + 1,
         NEW start, start = IF Header(k).type = "NOBITS" THEN at
                            ELSE AlignContent(at, Header(k).align),
         NEW hdr, hdr = [Header(k) EXCEPT !.offset = start],
         NEW ds, ds = IF Header(k).type = "NOBITS" THEN cs
                      ELSE Append(cs, [at |-> start, len |-> Header(k).size, of |-> k]),
         NEW to, to = IF Header(k).type = "NOBITS" THEN at ELSE start + Header(k).size
  PROVE  LaidOut(Append(hs, hdr), ds, to)
<1>1. /\ hs \in Seq(HeaderRecord) /\ cs \in Seq(ChunkRecord) /\ at \in Nat /\ EhdrSize <= at
      /\ Described(hs) /\ Held(hs, cs) /\ Apart(hs, cs, at)
  BY DEF LaidOut
<1> DEFINE n == Len(hs)
           m == Len(cs)
           gs == Append(hs, hdr)
<1>2. n \in Nat /\ m \in Nat /\ DOMAIN hs = 1 .. n /\ DOMAIN cs = 1 .. m
  BY <1>1
<1>3. k \in 1 .. ShstrtabIndex
  <2>1. ShstrtabIndex \in Nat
    BY ShstrtabIs
  <2> QED BY <1>2, <2>1 DEF HeaderCount
<1>4. PICK h \in HeaderRecord : h = Header(k)
  BY <1>3, HeaderTypes
<1>5. start \in Nat /\ at <= start /\ (h.type # "NOBITS" => start % h.align = 0)
  <2>1. CASE h.type = "NOBITS"
    BY <1>1, <1>4, <2>1
  <2>2. CASE h.type # "NOBITS"
    <3>1. h.align \in Nat \ {0} /\ start = AlignContent(at, h.align)
      BY <1>4, <2>2 DEF HeaderRecord
    <3> QED BY <1>1, <3>1, AlignContentWorks
  <2> QED BY <2>1, <2>2
<1>6. /\ hdr \in HeaderRecord /\ hdr.offset = start /\ hdr.type = h.type /\ hdr.size = h.size
      /\ hdr.align = h.align /\ hdr = [h EXCEPT !.offset = hdr.offset]
      /\ hdr.size \in Nat
  BY <1>4, <1>5 DEF HeaderRecord
<1>7. /\ gs \in Seq(HeaderRecord) /\ DOMAIN gs = 1 .. k /\ gs[k] = hdr
      /\ \A i \in 1 .. n : gs[i] = hs[i]
  BY <1>1, <1>2, <1>6
<1>8. PICK S \in Nat : S = hdr.size
  BY <1>6
<1>9. to \in Nat /\ at <= to /\ EhdrSize <= to
      /\ (h.type = "NOBITS" => to = at) /\ (h.type # "NOBITS" => to = start + S)
  <2>1. EhdrSize \in Nat
    BY DEF EhdrSize
  <2>2. to = IF h.type = "NOBITS" THEN at ELSE start + S
    BY <1>4, <1>6, <1>8
  <2> QED BY <1>1, <1>5, <1>8, <2>1, <2>2
<1> HIDE DEF gs
<1>10. Described(gs)
  <2> SUFFICES ASSUME NEW i \in 1 .. k
               PROVE  i \in 1 .. ShstrtabIndex /\ gs[i] = [Header(i) EXCEPT !.offset = gs[i].offset]
    BY <1>7 DEF Described
  <2>1. CASE i = k
    BY <1>3, <1>4, <1>6, <1>7, <2>1
  <2>2. CASE i \in 1 .. n
    BY <1>1, <1>2, <1>7, <2>2 DEF Described
  <2> QED BY <1>2, <2>1, <2>2
<1>11. CASE h.type = "NOBITS"
  <2>1. ds = cs /\ to = at
    BY <1>4, <1>9, <1>11
  <2>2. Held(gs, ds)
    <3> SUFFICES ASSUME NEW i \in 1 .. k, gs[i].type # "NOBITS"
                 PROVE  \E j \in DOMAIN cs :
                          cs[j] = [at |-> gs[i].offset, len |-> gs[i].size, of |-> i]
      BY <1>7, <2>1 DEF Held
    <3>1. i \in 1 .. n
      <4>1. i # k
        BY <1>6, <1>7, <1>11
      <4> QED BY <1>2, <4>1
    <3> QED BY <1>1, <1>2, <1>7, <3>1 DEF Held
  <2>3. Apart(gs, ds, to)
    <3>1. ASSUME NEW j \in 1 .. m PROVE cs[j].of \in 1 .. k /\ gs[cs[j].of] = hs[cs[j].of]
      <4>1. cs[j].of \in 1 .. n
        BY <1>1, <1>2 DEF Apart
      <4> QED BY <1>2, <1>7, <4>1
    <3>2. \A j \in 1 .. m : /\ EhdrSize <= cs[j].at /\ cs[j].at + cs[j].len <= at
                            /\ cs[j].at % hs[cs[j].of].align = 0
                            /\ \A i \in 1 .. j - 1 : cs[i].at + cs[i].len <= cs[j].at
      BY <1>1, <1>2 DEF Apart
    <3>3. \A j \in 1 .. m : cs[j].at % gs[cs[j].of].align = 0
      BY <3>1, <3>2
    <3> QED BY <1>2, <1>7, <2>1, <3>1, <3>2, <3>3, ZenonT(60) DEF Apart
  <2> QED BY <1>1, <1>7, <1>9, <1>10, <2>1, <2>2, <2>3 DEF LaidOut, gs
<1>12. CASE h.type # "NOBITS"
  <2> DEFINE c == [at |-> start, len |-> S, of |-> k]
  <2>1. ds = Append(cs, c)
    BY <1>4, <1>6, <1>8, <1>12
  <2>2. c \in ChunkRecord /\ c.at = start /\ c.len = S /\ c.of = k
    BY <1>2, <1>5, <1>8 DEF ChunkRecord
  <2> HIDE DEF c
  <2>3. /\ ds \in Seq(ChunkRecord) /\ DOMAIN ds = 1 .. m + 1 /\ ds[m + 1] = c
        /\ \A j \in 1 .. m : ds[j] = cs[j]
    BY <1>1, <1>2, <2>1, <2>2
  <2>4. Held(gs, ds)
    <3> SUFFICES ASSUME NEW i \in 1 .. k, gs[i].type # "NOBITS"
                 PROVE  \E j \in 1 .. m + 1 :
                          ds[j] = [at |-> gs[i].offset, len |-> gs[i].size, of |-> i]
      BY <1>7, <2>3 DEF Held
    <3>1. CASE i = k
      <4>1. m + 1 \in 1 .. m + 1
        BY <1>2
      <4> QED BY <1>6, <1>7, <1>8, <2>3, <3>1, <4>1, ZenonT(60) DEF c
    <3>2. CASE i \in 1 .. n
      <4>1. PICK j \in 1 .. m : cs[j] = [at |-> hs[i].offset, len |-> hs[i].size, of |-> i]
        BY <1>1, <1>2, <1>7, <3>2 DEF Held
      <4>2. j \in 1 .. m + 1
        BY <1>2
      <4> QED BY <1>7, <2>3, <3>2, <4>1, <4>2
    <3> QED BY <1>2, <3>1, <3>2
  <2>5. Apart(gs, ds, to)
    <3>1. ASSUME NEW j \in 1 .. m
          PROVE  /\ ds[j].of \in 1 .. k /\ gs[ds[j].of] = hs[ds[j].of]
                 /\ EhdrSize <= ds[j].at /\ ds[j].at + ds[j].len <= at
                 /\ ds[j].at % hs[ds[j].of].align = 0
                 /\ \A i \in 1 .. j - 1 : ds[i].at + ds[i].len <= ds[j].at
                 /\ ds[j].at \in Nat /\ ds[j].len \in Nat
      <4>1. cs[j].of \in 1 .. n
        BY <1>1, <1>2 DEF Apart
      <4>2. gs[cs[j].of] = hs[cs[j].of] /\ cs[j].of \in 1 .. k
        BY <1>2, <1>7, <4>1
      <4>3. \A i \in 1 .. j - 1 : ds[i] = cs[i]
        BY <1>2, <2>3
      <4>4. cs[j] \in ChunkRecord
        BY <1>1, <1>2
      <4> QED BY <1>1, <1>2, <2>3, <4>2, <4>3, <4>4, SMTT(60) DEF Apart, ChunkRecord
    <3>2. ASSUME NEW j \in 1 .. m PROVE ds[j].at + ds[j].len <= to
      <4>1. PICK A \in Nat, L \in Nat : A = ds[j].at /\ L = ds[j].len /\ A + L <= at
        BY <3>1
      <4>2. A + L <= to
        BY <1>1, <1>9, <4>1, SMTT(60)
      <4> QED BY <4>1, <4>2
    <3>3. /\ c.of \in 1 .. k /\ gs[c.of] = hdr /\ c.at % hdr.align = 0
          /\ EhdrSize <= c.at /\ c.at + c.len <= to
      <4>1. EhdrSize \in Nat
        BY DEF EhdrSize
      <4>2. EhdrSize <= start /\ start + S <= to
        BY <1>1, <1>5, <1>8, <1>9, <1>12, <4>1
      <4>3. k \in 1 .. k
        BY <1>2
      <4> QED BY <1>5, <1>6, <1>7, <1>12, <2>2, <4>2, <4>3
    <3>4. \A i \in 1 .. m : ds[i].at + ds[i].len <= c.at
      <4> SUFFICES ASSUME NEW i \in 1 .. m PROVE ds[i].at + ds[i].len <= start
        BY <2>2
      <4>1. PICK A \in Nat, L \in Nat : A = ds[i].at /\ L = ds[i].len /\ A + L <= at
        BY <3>1
      <4>2. A + L <= start
        BY <1>1, <1>5, <4>1
      <4> QED BY <4>1, <4>2
    <3> SUFFICES ASSUME NEW j \in 1 .. m + 1
                 PROVE  /\ ds[j].of \in DOMAIN gs
                        /\ EhdrSize <= ds[j].at /\ ds[j].at + ds[j].len <= to
                        /\ ds[j].at % gs[ds[j].of].align = 0
                        /\ \A i \in 1 .. j - 1 : ds[i].at + ds[i].len <= ds[j].at
      BY <2>3 DEF Apart
    <3>5. CASE j \in 1 .. m
      BY <1>7, <3>1, <3>2, <3>5
    <3>6. CASE j = m + 1
      <4>1. \A i \in 1 .. j - 1 : i \in 1 .. m
        BY <1>2, <3>6
      <4> QED BY <1>7, <2>3, <3>3, <3>4, <3>6, <4>1
    <3> QED BY <1>2, <3>5, <3>6
  <2> QED BY <1>7, <1>9, <1>10, <2>3, <2>4, <2>5 DEF LaidOut, gs
<1> QED BY <1>11, <1>12

-----------------------------------------------------------------------------
(* The steps. *)

LEMMA BuilderStays ==
  ASSUME BuilderTypeOK, BuilderStep
  PROVE  BuilderTypeOK'
<1>1. sections \in Seq(Section) /\ symbols \in Seq(Symbol)
  BY DEF BuilderTypeOK
<1>2. ASSUME NEW c \in SectionChoices, AddSection(c) PROVE BuilderTypeOK'
  <2>1. c \in [name : Name, kind : SecKind, align : Nat]
    BY BuilderAssumption
  <2> DEFINE s == [name |-> c.name, kind |-> c.kind, size |-> 0,
                   align |-> Effective(c.align), relas |-> <<>>]
  <2>2. s \in Section
    <3>1. Effective(c.align) \in Nat \ {0}
      BY <2>1 DEF Effective
    <3> QED BY <2>1, <3>1 DEF Section
  <2>3. sections' = Append(sections, s) /\ symbols' = symbols
    BY <1>2 DEF AddSection
  <2> HIDE DEF s
  <2> QED BY <1>1, <2>2, <2>3 DEF BuilderTypeOK
<1>3. ASSUME NEW h \in SectionHandles, NEW n \in Amounts, Grow(h, n) PROVE BuilderTypeOK'
  <2>1. h + 1 \in 1 .. Len(sections) /\ sections[h + 1] \in Section /\ n \in Nat
    BY <1>1, BuilderAssumption DEF SectionHandles
  <2> DEFINE s == [sections[h + 1] EXCEPT !.size = sections[h + 1].size + n]
  <2>2. s \in Section
    <3>1. sections[h + 1].size + n \in Nat
      BY <2>1 DEF Section
    <3> QED BY <2>1, <3>1 DEF Section
  <2>3. sections' = [sections EXCEPT ![h + 1] = s] /\ symbols' = symbols
    BY <1>3 DEF Grow
  <2> HIDE DEF s
  <2>4. sections' \in Seq(Section)
    BY <1>1, <2>1, <2>2, <2>3
  <2> QED BY <1>1, <2>3, <2>4 DEF BuilderTypeOK
<1>4. ASSUME NEW c \in SymbolChoices, AddSymbol(c) PROVE BuilderTypeOK'
  <2>1. c \in Symbol
    BY BuilderAssumption DEF Symbol
  <2> QED BY <1>1, <1>4, <2>1 DEF AddSymbol, BuilderTypeOK
<1>5. ASSUME NEW h \in SectionHandles, NEW o \in Sites, NEW y \in SymbolHandles, AddRela(h, o, y)
      PROVE  BuilderTypeOK'
  <2>1. /\ h + 1 \in 1 .. Len(sections) /\ sections[h + 1] \in Section /\ o \in Nat /\ y \in Nat
    BY <1>1, BuilderAssumption DEF SectionHandles, SymbolHandles
  <2> DEFINE r == Append(sections[h + 1].relas, [offset |-> o, symbol |-> y])
             s == [sections[h + 1] EXCEPT !.relas = r]
  <2>2. r \in Seq(Rela)
    <3>1. sections[h + 1].relas \in Seq(Rela) /\ [offset |-> o, symbol |-> y] \in Rela
      BY <2>1 DEF Section, Rela
    <3> QED BY <3>1
  <2>3. sections' = [sections EXCEPT ![h + 1] = s] /\ symbols' = symbols
    BY <1>5 DEF AddRela
  <2> HIDE DEF r
  <2>4. s \in Section
    BY <2>1, <2>2 DEF Section
  <2> HIDE DEF s
  <2>5. sections' \in Seq(Section)
    BY <1>1, <2>1, <2>3, <2>4
  <2> QED BY <1>1, <2>3, <2>5 DEF BuilderTypeOK
<1> QED BY <1>2, <1>3, <1>4, <1>5 DEF BuilderStep

\* While the builder is left alone, what the serializer computes from it
\* stays the same.
LEMMA SameBuilder ==
  ASSUME UNCHANGED builderVars
  PROVE  /\ HeaderCount' = HeaderCount /\ ShstrtabIndex' = ShstrtabIndex
         /\ \A k : Header(k)' = Header(k)
         /\ \A hs, cs, at : Object(hs, cs, at)' = Object(hs, cs, at)
<1>1. sections' = sections /\ symbols' = symbols
  BY DEF builderVars
<1>2. SectionCount' = SectionCount /\ SymtabIndex' = SymtabIndex /\ StrtabIndex' = StrtabIndex
  BY <1>1 DEF SectionCount, SymtabIndex, StrtabIndex
<1>3. HaveRelas' = HaveRelas
  BY <1>1 DEF HaveRelas, SectionHandles
<1>4. RelaOwners' = RelaOwners
  BY <1>2, <1>3 DEF RelaOwners, InOrder
<1>5. ShstrtabIndex' = ShstrtabIndex /\ HeaderCount' = HeaderCount
      /\ \A k : RelaOwner(k)' = RelaOwner(k)
  BY <1>2, <1>4 DEF ShstrtabIndex, HeaderCount, RelaOwner
<1>6. Locals' = Locals /\ NonLocals' = NonLocals
  BY <1>1 DEF Locals, NonLocals, SymbolHandles
<1>7. SymbolOrder' = SymbolOrder /\ FirstGlobal' = FirstGlobal
  BY <1>1, <1>6 DEF SymbolOrder, FirstGlobal, InOrder
<1>8. Strtab' = Strtab
  BY <1>1, <1>7 DEF Strtab, Text
<1>9. Shstrtab' = Shstrtab
  BY <1>1, <1>2, <1>4 DEF Shstrtab, NameEntry, Text
<1>10. ASSUME NEW k PROVE Header(k)' = Header(k)
  BY <1>1, <1>2, <1>5, <1>7, <1>8, <1>9
     DEF Header, Offset, TableSize, SymSize, RelaSize, SectionIndex
<1>11. SymtabEntries' = SymtabEntries
  BY <1>1, <1>7, <1>8 DEF SymtabEntries, StName, Shndx, SectionIndex, Offset
<1>12. ASSUME NEW h PROVE RelaEntries(h)' = RelaEntries(h)
  BY <1>1, <1>7 DEF RelaEntries, FinalIndex
<1>13. ASSUME NEW hs, NEW cs, NEW at PROVE Object(hs, cs, at)' = Object(hs, cs, at)
  BY <1>2, <1>5, <1>8, <1>9, <1>11, <1>12 DEF Object, AlignContent
<1> QED BY <1>5, <1>10, <1>13

LEMMA SameLayout ==
  ASSUME UNCHANGED builderVars, NEW hs, NEW cs, NEW at
  PROVE  LaidOut(hs, cs, at)' <=> LaidOut(hs, cs, at)
<1>1. Described(hs)' <=> Described(hs)
  BY SameBuilder, Zenon DEF Described
<1> QED BY <1>1 DEF LaidOut, Held, Apart, EhdrSize

LEMMA SameFile ==
  ASSUME UNCHANGED builderVars, NEW o, NEW at
  PROVE  FileOf(o, at)' <=> FileOf(o, at)
<1>1. LaidOut(o.shdrs, o.chunks, at)' <=> LaidOut(o.shdrs, o.chunks, at)
  BY SameLayout
<1>2. Object(o.shdrs, o.chunks, at)' = Object(o.shdrs, o.chunks, at) /\ HeaderCount' = HeaderCount
  BY SameBuilder
<1> QED BY <1>1, <1>2, Zenon DEF FileOf

LEMMA SameTypes ==
  ASSUME BuilderTypeOK, UNCHANGED builderVars
  PROVE  BuilderTypeOK'
BY DEF BuilderTypeOK, builderVars

\* What Object is made of.
LEMMA ObjectFields ==
  ASSUME NEW hs, NEW cs, NEW at, NEW o, o = Object(hs, cs, at)
  PROVE  /\ o.shdrs = hs /\ o.chunks = cs /\ o.shoff = AlignContent(at, 8)
         /\ o.shnum = HeaderCount % Half /\ o.shstrndx = ShstrtabIndex % Half
         /\ o.symtab = SymtabEntries
         /\ DOMAIN o.strings = {StrtabIndex, ShstrtabIndex} /\ o.strings[StrtabIndex] = Strtab
         /\ ShstrtabIndex # StrtabIndex => o.strings[ShstrtabIndex] = Shstrtab
         /\ \A k \in StrtabIndex + 1 .. ShstrtabIndex - 1 : o.relas[k] = RelaEntries(RelaOwner(k))
<1> DEFINE st == [k \in {StrtabIndex, ShstrtabIndex} |->
                    IF k = StrtabIndex THEN Strtab ELSE Shstrtab]
           re == [k \in StrtabIndex + 1 .. ShstrtabIndex - 1 |-> RelaEntries(RelaOwner(k))]
<1>1. o =
        [shoff |-> AlignContent(at, 8), shnum |-> HeaderCount % Half,
         shstrndx |-> ShstrtabIndex % Half, shdrs |-> hs, chunks |-> cs,
         strings |-> st, symtab |-> SymtabEntries, relas |-> re]
  BY DEF Object
<1> HIDE DEF st, re
<1>2. /\ o.shdrs = hs /\ o.chunks = cs /\ o.shoff = AlignContent(at, 8)
      /\ o.shnum = HeaderCount % Half /\ o.shstrndx = ShstrtabIndex % Half
      /\ o.symtab = SymtabEntries /\ o.strings = st /\ o.relas = re
  BY <1>1
<1> QED BY <1>2 DEF st, re

LEMMA InitLayout == Init => LayoutInv
<1> SUFFICES ASSUME Init PROVE LayoutInv
  OBVIOUS
<1>1. sections = <<>> /\ symbols = <<>> /\ phase = "building" /\ image = {}
      /\ shdrs = <<>> /\ chunks = <<>> /\ end = EhdrSize
  BY DEF Init, BuilderInit
<1> QED BY <1>1, NothingLaidOut DEF LayoutInv, BuilderTypeOK

\* The memory the serializer used is gone: nothing is laid out.
LEMMA NothingLaidOutNext == UNCHANGED builderVars \/ BuilderStep => LaidOut(<<>>, <<>>, EhdrSize)'
BY DEF LaidOut, Described, Held, Apart, EhdrSize

LEMMA NextLayout == LayoutInv /\ [Next]_vars => LayoutInv'
<1> SUFFICES ASSUME LayoutInv, [Next]_vars PROVE LayoutInv'
  OBVIOUS
<1>1. ASSUME Build PROVE LayoutInv'
  <2>1. /\ BuilderStep /\ phase' = "building" /\ shdrs' = <<>> /\ chunks' = <<>>
        /\ end' = EhdrSize /\ image' = {}
    BY <1>1 DEF Build, Fresh
  <2>2. BuilderTypeOK'
    BY <2>1, BuilderStays DEF LayoutInv
  <2>3. LaidOut(<<>>, <<>>, EhdrSize)'
    BY <2>1, NothingLaidOutNext
  <2>4. LaidOut(shdrs, chunks, end)'
    BY <2>1, <2>3 DEF EhdrSize, LaidOut, Described, Held, Apart
  <2> QED BY <2>1, <2>2, <2>4 DEF LayoutInv
<1>2. ASSUME UNCHANGED builderVars, shdrs' = <<>>, chunks' = <<>>, end' = EhdrSize,
             phase' \in {"layout", "finished"}, image' \in SUBSET image
      PROVE  LayoutInv'
  <2>1. BuilderTypeOK'
    BY <1>2, SameTypes DEF LayoutInv
  <2>2. LaidOut(shdrs, chunks, end)'
    BY <1>2 DEF EhdrSize, LaidOut, Described, Held, Apart
  <2>3. ASSUME NEW o \in image' PROVE \E at \in Nat : FileOf(o, at)'
    <3>1. PICK at \in Nat : FileOf(o, at)
      BY <1>2, <2>3 DEF LayoutInv
    <3>2. FileOf(o, at)'
      BY <1>2, <3>1, SameFile
    <3> QED BY <3>2
  <2> QED BY <1>2, <2>1, <2>2, <2>3 DEF LayoutInv
<1>3. ASSUME Finish PROVE LayoutInv'
  BY <1>2, <1>3 DEF Finish, Fresh
<1>4. ASSUME Place PROVE LayoutInv'
  <2> DEFINE k0 == Len(shdrs) + 1
             nobits == Header(k0).type = "NOBITS"
             start0 == IF nobits THEN end ELSE AlignContent(end, Header(k0).align)
             hdr0 == [Header(k0) EXCEPT !.offset = start0]
  <2>1. /\ UNCHANGED builderVars /\ phase' = phase /\ image' = image
        /\ Len(shdrs) + 1 < HeaderCount
        /\ shdrs' = Append(shdrs, hdr0)
        /\ chunks' = IF nobits THEN chunks
                     ELSE Append(chunks, [at |-> start0, len |-> hdr0.size, of |-> k0])
        /\ end' = IF nobits THEN end ELSE start0 + hdr0.size
    <3>1. hdr0.type = Header(k0).type /\ hdr0.align = Header(k0).align
      OBVIOUS
    <3> QED BY <1>4 DEF Place
  <2>2. Header(k0).size = hdr0.size
    OBVIOUS
  <2>3. PICK hs, cs, at, k, start, hdr :
          /\ hs = shdrs /\ cs = chunks /\ at = end /\ k = k0 /\ start = start0 /\ hdr = hdr0
    OBVIOUS
  <2>4. PICK ds, to : /\ ds = IF Header(k).type = "NOBITS" THEN cs
                              ELSE Append(cs, [at |-> start, len |-> Header(k).size, of |-> k])
                      /\ to = IF Header(k).type = "NOBITS" THEN at ELSE start + Header(k).size
    OBVIOUS
  <2> HIDE DEF k0, start0, hdr0, nobits
  <2>5. /\ LaidOut(hs, cs, at) /\ Len(hs) + 1 < HeaderCount /\ BuilderTypeOK
        /\ k = Len(hs) + 1
        /\ start = IF Header(k).type = "NOBITS" THEN at ELSE AlignContent(at, Header(k).align)
        /\ hdr = [Header(k) EXCEPT !.offset = start]
    BY <2>1, <2>3, Zenon DEF LayoutInv, k0, start0, hdr0, nobits
  <2>6. LaidOut(Append(hs, hdr), ds, to)
    BY <2>4, <2>5, PlaceLaysOut
  <2>7. PICK gs : gs = Append(hs, hdr)
    OBVIOUS
  <2>8. shdrs' = gs /\ chunks' = ds /\ end' = to
    BY <2>1, <2>2, <2>3, <2>4, <2>7, Zenon DEF nobits
  <2>9. LaidOut(gs, ds, to)'
    BY <2>1, <2>6, <2>7, SameLayout
  <2>10. LaidOut(shdrs, chunks, end)'
    BY <2>8, <2>9 DEF LaidOut, Described, Held, Apart
  <2>11. BuilderTypeOK'
    BY <2>1, SameTypes DEF LayoutInv
  <2>12. ASSUME NEW o \in image' PROVE \E e \in Nat : FileOf(o, e)'
    <3>1. PICK e \in Nat : FileOf(o, e)
      BY <2>1, <2>12 DEF LayoutInv
    <3>2. FileOf(o, e)'
      BY <2>1, <3>1, SameFile
    <3> QED BY <3>2
  <2> QED BY <2>1, <2>10, <2>11, <2>12 DEF LayoutInv
<1>5. ASSUME Assemble PROVE LayoutInv'
  <2>1. /\ UNCHANGED builderVars /\ phase' = "finished" /\ image' = {Object(shdrs, chunks, end)}
        /\ shdrs' = <<>> /\ chunks' = <<>> /\ end' = EhdrSize /\ Len(shdrs) + 1 = HeaderCount
    BY <1>5 DEF Assemble
  <2>2. PICK hs, cs, at : hs = shdrs /\ cs = chunks /\ at = end
    OBVIOUS
  <2>3. PICK o : o = Object(hs, cs, at)
    OBVIOUS
  <2>4. LaidOut(hs, cs, at) /\ at \in Nat /\ Len(hs) + 1 = HeaderCount
    BY <2>1, <2>2 DEF LayoutInv, LaidOut
  <2>5. o.shdrs = hs /\ o.chunks = cs
    BY <2>3, ObjectFields
  <2>6. FileOf(o, at)
    BY <2>3, <2>4, <2>5 DEF FileOf
  <2>7. FileOf(o, at)'
    BY <2>1, <2>6, SameFile
  <2>8. image' = {o}
    BY <2>1, <2>2, <2>3
  <2>9. LaidOut(shdrs, chunks, end)'
    BY <2>1 DEF EhdrSize, LaidOut, Described, Held, Apart
  <2>10. BuilderTypeOK'
    BY <2>1, SameTypes DEF LayoutInv
  <2> QED BY <2>1, <2>4, <2>7, <2>8, <2>9, <2>10 DEF LayoutInv
<1>6. ASSUME SerializeFails PROVE LayoutInv'
  BY <1>2, <1>6 DEF SerializeFails
<1>7. CASE UNCHANGED vars
  <2>1. UNCHANGED builderVars /\ shdrs' = shdrs /\ chunks' = chunks /\ end' = end
        /\ phase' = phase /\ image' = image
    BY <1>7 DEF vars, builderVars
  <2>2. BuilderTypeOK'
    BY <2>1, SameTypes DEF LayoutInv
  <2>3. PICK hs, cs, at : hs = shdrs /\ cs = chunks /\ at = end
    OBVIOUS
  <2>4. LaidOut(hs, cs, at)'
    BY <2>1, <2>3, SameLayout DEF LayoutInv
  <2>5. LaidOut(shdrs, chunks, end)'
    BY <2>1, <2>3, <2>4 DEF LaidOut, Described, Held, Apart
  <2>6. ASSUME NEW o \in image' PROVE \E e \in Nat : FileOf(o, e)'
    <3>1. PICK e \in Nat : FileOf(o, e)
      BY <2>1, <2>6 DEF LayoutInv
    <3>2. FileOf(o, e)'
      BY <2>1, <3>1, SameFile
    <3> QED BY <3>2
  <2> QED BY <2>1, <2>2, <2>5, <2>6 DEF LayoutInv
<1> QED BY <1>1, <1>3, <1>4, <1>5, <1>6, <1>7 DEF Next
THEOREM LayoutAlways == Spec => []LayoutInv
<1>1. Init => LayoutInv
  BY InitLayout
<1>2. LayoutInv /\ [Next]_vars => LayoutInv'
  BY NextLayout
<1> QED BY <1>1, <1>2, PTL DEF Spec

\* Headers and contents are numbers in range; no section asks for alignment 0,
\* by which align_content would divide.
THEOREM ElfTypes == Spec => []TypeOK
<1>1. LayoutInv => TypeOK
  BY DEF LayoutInv, TypeOK, LaidOut, HeaderRecord, HeaderKind, ChunkRecord
<1> QED BY <1>1, LayoutAlways, PTL

\* A header of type SYMTAB is the symbol table's.
LEMMA SymtabHeader ==
  ASSUME BuilderTypeOK, NEW k \in 1 .. ShstrtabIndex
  PROVE  /\ Header(k).type \in SecKind <=> k <= SectionCount
         /\ Header(k).type = "SYMTAB" <=> k = SymtabIndex
         /\ Header(k).type = "RELA" <=> k \in StrtabIndex + 1 .. ShstrtabIndex - 1
         /\ Header(SymtabIndex).info = FirstGlobal
<1> DEFINE n == SectionCount
<1>1. /\ n \in Nat /\ ShstrtabIndex \in Nat /\ SymtabIndex = n + 1 /\ StrtabIndex = n + 2
      /\ ShstrtabIndex >= n + 3
  BY Counted, ShstrtabIs, RelaOwnersAre DEF SymtabIndex, StrtabIndex
<1>2. \A type, size, align, link, info :
        /\ Filled(k, type, size, align, link, info).type = type
        /\ Filled(SymtabIndex, type, size, align, link, info).info = info
  BY DEF Filled
<1>3. Header(SymtabIndex).info = FirstGlobal
  BY <1>2, HeaderIs
<1>4. CASE k \in 1 .. n
  <2>1. sections[k].kind \in SecKind
    BY <1>4, Counted DEF Section
  <2>2. Header(k).type \in SecKind
    BY <1>2, <1>4, <2>1, HeaderIs
  <2> QED BY <1>1, <1>3, <1>4, <2>2 DEF SecKind
<1>5. CASE k = n + 1
  <2>1. Header(k).type = "SYMTAB"
    BY <1>1, <1>2, <1>5, HeaderIs
  <2> QED BY <1>1, <1>3, <1>5, <2>1 DEF SecKind
<1>6. CASE k = n + 2 \/ k = ShstrtabIndex
  <2>1. Header(k).type = "STRTAB"
    BY <1>1, <1>2, <1>6, HeaderIs
  <2> QED BY <1>1, <1>3, <1>6, <2>1 DEF SecKind
<1>7. CASE k \in StrtabIndex + 1 .. ShstrtabIndex - 1
  <2>1. Header(k).type = "RELA"
    BY <1>1, <1>2, <1>7, HeaderIs
  <2> QED BY <1>1, <1>3, <1>7, <2>1 DEF SecKind
<1> QED BY <1>1, <1>4, <1>5, <1>6, <1>7

\* A header of an image is as it was filled in.
LEMMA FileHeader ==
  ASSUME BuilderTypeOK, NEW o, NEW at, FileOf(o, at), NEW k \in DOMAIN o.shdrs
  PROVE  /\ k \in 1 .. ShstrtabIndex /\ o.shdrs[k] \in HeaderRecord
         /\ o.shdrs[k].type = Header(k).type /\ o.shdrs[k].info = Header(k).info
         /\ o.shdrs[k].name = Header(k).name /\ o.shdrs[k].size = Header(k).size
         /\ o.shdrs[k].align = Header(k).align /\ o.shdrs[k].link = Header(k).link
<1>1. o.shdrs \in Seq(HeaderRecord) /\ Described(o.shdrs)
  BY DEF FileOf, LaidOut
<1> DEFINE x == o.shdrs[k].offset
<1>2. k \in 1 .. ShstrtabIndex /\ o.shdrs[k] = [Header(k) EXCEPT !.offset = x]
  BY <1>1 DEF Described
<1>3. PICK h \in HeaderRecord : h = Header(k)
  BY <1>2, HeaderTypes
<1>4. o.shdrs[k] \in HeaderRecord
  BY <1>1
<1> HIDE DEF x
<1>5. o.shdrs[k] = [h EXCEPT !.offset = x]
  BY <1>2, <1>3
<1> QED BY <1>2, <1>3, <1>4, <1>5 DEF HeaderRecord

\* No two sections share a byte of the file or touch its headers, what must be
\* aligned is, and .symtab is cut where its sh_info says, however many
\* sections, symbols and relocations there are (serialize.c:36, 145).
THEOREM LayoutCorrect == Spec => []FileLayout
<1>1. ASSUME LayoutInv PROVE ContentsPlaced
  <2> SUFFICES ASSUME NEW o \in image
               PROVE  /\ o.shoff % 8 = 0
                      /\ \A j \in DOMAIN o.chunks :
                           LET c == o.chunks[j]
                           IN /\ EhdrSize <= c.at /\ c.at + c.len <= o.shoff
                              /\ c.at % o.shdrs[c.of].align = 0
                              /\ \A i \in 1 .. j - 1 : o.chunks[i].at + o.chunks[i].len <= c.at
    BY DEF ContentsPlaced
  <2>1. PICK at \in Nat : FileOf(o, at)
    BY <1>1 DEF LayoutInv
  <2>2. PICK hs, cs : hs = o.shdrs /\ cs = o.chunks
    OBVIOUS
  <2>3. o.shoff = AlignContent(at, 8)
    BY <2>1, ObjectFields DEF FileOf
  <2>4. o.shoff \in Nat /\ at <= o.shoff /\ o.shoff % 8 = 0
    <3>1. 8 \in Nat \ {0}
      OBVIOUS
    <3> QED BY <2>3, <3>1, AlignContentWorks
  <2>5. cs \in Seq(ChunkRecord) /\ Apart(hs, cs, at)
    BY <2>1, <2>2 DEF FileOf, LaidOut
  <2>6. ASSUME NEW j \in DOMAIN cs PROVE cs[j].at + cs[j].len <= o.shoff
    <3>1. cs[j] \in ChunkRecord
      BY <2>5
    <3>2. PICK A \in Nat, L \in Nat : A = cs[j].at /\ L = cs[j].len /\ A + L <= at
      BY <2>5, <3>1 DEF Apart, ChunkRecord
    <3>3. A + L <= o.shoff
      BY <2>4, <3>2
    <3> QED BY <3>2, <3>3
  <2> QED BY <2>2, <2>4, <2>5, <2>6 DEF Apart
<1>2. ASSUME LayoutInv PROVE LocalsFirst
  <2> SUFFICES ASSUME NEW o \in image, NEW k \in DOMAIN o.shdrs, o.shdrs[k].type = "SYMTAB",
                      NEW p \in DOMAIN o.symtab
               PROVE  p < o.shdrs[k].info <=> o.symtab[p].bind = "LOCAL"
    BY DEF LocalsFirst
  <2>1. BuilderTypeOK
    BY <1>2 DEF LayoutInv
  <2>2. PICK at \in Nat : FileOf(o, at)
    BY <1>2 DEF LayoutInv
  <2>3. o.symtab = SymtabEntries
    BY <2>2, ObjectFields DEF FileOf
  <2>4. k \in 1 .. ShstrtabIndex /\ Header(k).type = "SYMTAB" /\ o.shdrs[k].info = Header(k).info
    BY <2>1, <2>2, FileHeader
  <2>5. o.shdrs[k].info = FirstGlobal
    BY <2>1, <2>4, SymtabHeader
  <2>6. p \in 1 .. Len(symbols) /\ o.symtab[p].bind = symbols[SymbolOrder[p] + 1].bind
    BY <2>3 DEF SymtabEntries
  <2>7. SymbolOrder[p] \in SymbolHandles
    BY <2>1, <2>6, SymbolOrderIs
  <2>8. SymbolOrder[p] \in Locals <=> symbols[SymbolOrder[p] + 1].bind = "LOCAL"
    BY <2>7 DEF Locals
  <2> QED BY <2>1, <2>5, <2>6, <2>8, SymbolOrderIs
<1>3. LayoutInv => FileLayout
  BY <1>1, <1>2 DEF FileLayout
<1> QED BY <1>3, LayoutAlways, PTL

-----------------------------------------------------------------------------
(* Reading the image back. *)

\* The headers a caller can bring about fit e_shnum, and no section takes the
\* index that means SHN_ABS: the code does not check either.
HeadersFit == MaxSections < ShnAbs /\ 2 * MaxSections + 4 < Half

\* Relocations and symbols refer to symbols and sections that exist: calls
\* with other handles are refused.
HandlesKnown ==
  /\ Len(sections) <= MaxSections
  /\ \A h \in SectionHandles : \A j \in DOMAIN sections[h + 1].relas :
       sections[h + 1].relas[j].symbol \in SymbolHandles
  /\ \A y \in SymbolHandles :
       symbols[y + 1].ref = "SECTION" => symbols[y + 1].section \in SectionHandles

\* A string is found where its table has it.
LEMMA StringFound ==
  ASSUME NEW o, NEW t, t \in DOMAIN o.strings, HoldsOwn(o, t),
         NEW table, o.strings[t] = table, NEW n \in Nat, Sized(table, n),
         NEW k \in 1 .. n, table[k].bytes > 0
  PROVE  StringAt(o, t, Offset(table, k)) = table[k].text
<1> DEFINE at == Offset(table, k)
           hits == {j \in DOMAIN o.strings[t] :
                      o.strings[t][j].bytes > 0 /\ Offset(o.strings[t], j) = at}
<1>1. DOMAIN table = 1 .. n
  BY DEF Sized
<1>2. at \in Nat \ {0}
  BY OffsetOrder
<1>3. hits = {k}
  <2>1. ASSUME NEW j \in 1 .. n, table[j].bytes > 0, Offset(table, j) = at PROVE j = k
    <3>1. table[j].bytes \in Nat /\ table[k].bytes \in Nat
      BY DEF Sized
    <3>2. CASE j < k
      <4>1. j \in 1 .. k - 1 /\ k \in 1 .. n + 1
        BY <3>2
      <4>2. at + table[j].bytes <= at
        BY <2>1, <4>1, OffsetOrder
      <4> QED BY <1>2, <2>1, <3>1, <4>2
    <3>3. CASE k < j
      <4>1. k \in 1 .. j - 1 /\ j \in 1 .. n + 1
        BY <3>3
      <4>2. at + table[k].bytes <= at
        BY <2>1, <4>1, OffsetOrder
      <4> QED BY <1>2, <3>1, <4>2
    <3> QED BY <3>2, <3>3
  <2>2. k \in hits
    BY <1>1
  <2> QED BY <1>1, <2>1, <2>2
<1>4. StringAt(o, t, at) = o.strings[t][CHOOSE j \in hits : TRUE].text
  <2> HIDE DEF at
  <2>1. hits # {}
    BY <1>3
  <2> QED BY <1>2, <2>1 DEF StringAt
<1> QED BY <1>3, <1>4

\* What the reader knows of a file before it reads a name.
LEMMA FileFacts ==
  ASSUME HeadersFit, HandlesKnown, BuilderTypeOK, NEW o, NEW at \in Nat, FileOf(o, at)
  PROVE  /\ SectionCount \in Nat /\ SectionCount < ShnAbs /\ SectionCount < Half
         /\ ShstrtabIndex \in Nat /\ ShstrtabIndex >= SectionCount + 3
         /\ SymtabIndex = SectionCount + 1 /\ StrtabIndex = SectionCount + 2
         /\ DOMAIN o.shdrs = 1 .. ShstrtabIndex
         /\ o.shnum = ShstrtabIndex + 1 /\ Headers(o) = 1 .. ShstrtabIndex
         /\ o.shstrndx = ShstrtabIndex
         /\ \A k \in 1 .. ShstrtabIndex : Header(k).type # "NOBITS" => HoldsOwn(o, k)
<1> DEFINE n == SectionCount
           z == ShstrtabIndex
<1>1. /\ n \in Nat /\ Len(RelaOwners) \in Nat /\ Len(RelaOwners) <= n
      /\ z \in Nat /\ z = n + 3 + Len(RelaOwners) /\ SymtabIndex = n + 1 /\ StrtabIndex = n + 2
  BY Counted, ShstrtabIs, RelaOwnersAre DEF SymtabIndex, StrtabIndex
<1>2. n <= MaxSections
  BY DEF HandlesKnown, SectionCount
<1>3. MaxSections \in Nat /\ Half \in Nat \ {0} /\ ShnAbs \in Nat /\ MaxSections < ShnAbs
      /\ 2 * MaxSections + 4 < Half /\ ShnAbs < Half
  BY BuilderAssumption, SerializeAssumption DEF HeadersFit
<1> DEFINE w == Half
<1>4. z + 1 \in 0 .. w - 1 /\ z \in 0 .. w - 1 /\ n < ShnAbs /\ n < w
  BY <1>1, <1>2, <1>3
<1>5. HeaderCount = z + 1
  BY DEF HeaderCount
<1>6. /\ o.shnum = HeaderCount % Half /\ o.shstrndx = ShstrtabIndex % Half
  BY ObjectFields DEF FileOf
<1>7. /\ o.shdrs \in Seq(HeaderRecord) /\ Len(o.shdrs) + 1 = HeaderCount /\ Held(o.shdrs, o.chunks)
  BY DEF FileOf, LaidOut
<1>8. DOMAIN o.shdrs = 1 .. z
  BY <1>1, <1>5, <1>7
<1> HIDE DEF n, z, w
<1>9. (z + 1) % w = z + 1 /\ z % w = z
  <2>1. w \in Nat \ {0}
    BY <1>3 DEF w
  <2> QED BY <1>4, <2>1, ModSmall
<1>10. o.shnum = z + 1 /\ o.shstrndx = z
  BY <1>5, <1>6, <1>9 DEF z, w
<1>11. Headers(o) = 1 .. z
  BY <1>1, <1>10 DEF Headers
<1>12. ASSUME NEW k \in 1 .. z, Header(k).type # "NOBITS" PROVE HoldsOwn(o, k)
  <2>1. o.shdrs[k].type # "NOBITS"
    BY <1>8, <1>12, FileHeader
  <2>2. PICK j \in DOMAIN o.chunks :
          o.chunks[j] = [at |-> o.shdrs[k].offset, len |-> o.shdrs[k].size, of |-> k]
    BY <1>7, <1>8, <2>1 DEF Held
  <2> QED BY <2>2 DEF HoldsOwn
<1> QED BY <1>1, <1>4, <1>8, <1>10, <1>11, <1>12 DEF n, z, w

\* Each header is found under the name it was given.
LEMMA NameRead ==
  ASSUME HeadersFit, HandlesKnown, BuilderTypeOK, NEW o, NEW at \in Nat, FileOf(o, at),
         NEW k \in 1 .. ShstrtabIndex
  PROVE  SectionName(o, k) = Shstrtab[k].text
<1> DEFINE z == ShstrtabIndex
<1>1. /\ z \in Nat /\ z # StrtabIndex /\ z \in 1 .. z /\ DOMAIN o.shdrs = 1 .. z
      /\ o.shstrndx = z
  BY FileFacts
<1>2. HoldsOwn(o, z)
  <2>1. Header(z).type = "STRTAB"
    BY HeaderIs DEF Filled
  <2> QED BY <1>1, <2>1, FileFacts
<1>3. z \in DOMAIN o.strings /\ o.strings[z] = Shstrtab
  BY <1>1, ObjectFields DEF FileOf
<1>4. o.shdrs[k].name = Offset(Shstrtab, k)
  <2>1. o.shdrs[k].name = Header(k).name
    BY <1>1, FileHeader
  <2>2. Header(k).name = Offset(Shstrtab, k)
    <3>1. \A type, size, align, link, info :
            Filled(k, type, size, align, link, info).name = Offset(Shstrtab, k)
      BY DEF Filled
    <3>2. k \in 1 .. SectionCount \/ k = SymtabIndex \/ k = StrtabIndex
          \/ k \in StrtabIndex + 1 .. z - 1 \/ k = z
      BY FileFacts
    <3> QED BY <3>1, <3>2, HeaderIs
  <2> QED BY <2>1, <2>2
<1>5. Sized(Shstrtab, z) /\ Shstrtab[k].bytes > 0
  BY ShstrtabIs
<1>6. StringAt(o, z, Offset(Shstrtab, k)) = Shstrtab[k].text
  <2> HIDE DEF z
  <2>1. k \in 1 .. z
    BY DEF z
  <2> QED BY <1>1, <1>2, <1>3, <1>5, <2>1, StringFound
<1> QED BY <1>1, <1>4, <1>6 DEF SectionName

\* The section under header k is the caller's k-th.
LEMMA HandleRead ==
  ASSUME HeadersFit, HandlesKnown, BuilderTypeOK, NEW o, NEW at \in Nat, FileOf(o, at),
         NEW k \in 1 .. SectionCount
  PROVE  HandleAt(o, k) = k - 1
<1>1. SectionCount \in Nat /\ ShstrtabIndex \in Nat /\ ShstrtabIndex >= SectionCount + 3
      /\ DOMAIN o.shdrs = 1 .. ShstrtabIndex
  BY FileFacts
<1>2. ASSUME NEW j \in 1 .. k - 1 PROVE o.shdrs[j].type \in SecKind
  <2>1. j \in 1 .. ShstrtabIndex /\ j <= SectionCount
    BY <1>1
  <2>2. o.shdrs[j].type = Header(j).type
    BY <1>1, <2>1, FileHeader
  <2> QED BY <2>1, <2>2, SymtabHeader
<1>3. {j \in 1 .. k - 1 : o.shdrs[j].type \in SecKind} = 1 .. k - 1
  BY <1>2
<1>4. Cardinality(1 .. k - 1) = k - 1
  <2>1. k - 1 \in Nat
    BY <1>1
  <2>2. CASE k - 1 = 0
    <3>1. 1 .. k - 1 = {}
      BY <2>2
    <3> QED BY <2>2, <3>1, FS_EmptySet
  <2>3. CASE k - 1 # 0
    <3>1. 1 \in Int /\ k - 1 \in Int /\ 1 <= k - 1 /\ k - 1 - 1 + 1 = k - 1
      BY <2>1, <2>3
    <3> QED BY <3>1, FS_Interval
  <2> QED BY <2>2, <2>3
<1> QED BY <1>3, <1>4 DEF HandleAt

\* The only symbol table is the one under SymtabIndex.
LEMMA SymtabRead ==
  ASSUME HeadersFit, HandlesKnown, BuilderTypeOK, NEW o, NEW at \in Nat, FileOf(o, at)
  PROVE  SymtabHeaders(o) = {SymtabIndex}
<1>1. /\ Headers(o) = 1 .. ShstrtabIndex /\ DOMAIN o.shdrs = 1 .. ShstrtabIndex
      /\ SymtabIndex \in 1 .. ShstrtabIndex
  BY FileFacts
<1>2. \A k \in 1 .. ShstrtabIndex : o.shdrs[k].type = "SYMTAB" <=> k = SymtabIndex
  <2> SUFFICES ASSUME NEW k \in 1 .. ShstrtabIndex
               PROVE  o.shdrs[k].type = "SYMTAB" <=> k = SymtabIndex
    OBVIOUS
  <2>1. o.shdrs[k].type = Header(k).type
    BY <1>1, FileHeader
  <2> QED BY <2>1, SymtabHeader
<1>3. HoldsOwn(o, SymtabIndex)
  <2>1. Header(SymtabIndex).type = "SYMTAB"
    BY <1>1, SymtabHeader
  <2> QED BY <1>1, <2>1, FileFacts
<1> QED BY <1>1, <1>2, <1>3 DEF SymtabHeaders

\* Entry p of the symbol table reads as the symbol it was made of.
LEMMA SymbolReads ==
  ASSUME HeadersFit, HandlesKnown, BuilderTypeOK, NEW o, NEW at \in Nat, FileOf(o, at),
         NEW p \in 1 .. Len(symbols)
  PROVE  SymbolRead(o, SymtabIndex, p) = Abstract!SymbolSeen(SymbolOrder[p])
<1> DEFINE h == SymbolOrder[p]
           y == symbols[h + 1]
           e == o.symtab[p]
           n == SectionCount
           t == StrtabIndex
<1>1. /\ n \in Nat /\ n < ShnAbs /\ n < Half /\ t = n + 2 /\ SymtabIndex = n + 1
      /\ ShstrtabIndex \in Nat /\ ShstrtabIndex >= n + 3
      /\ DOMAIN o.shdrs = 1 .. ShstrtabIndex /\ Headers(o) = 1 .. ShstrtabIndex
  BY FileFacts
<1>2. h \in SymbolHandles /\ y \in Symbol
  <2>1. h \in SymbolHandles
    BY StrtabIs
  <2> QED BY <2>1, Counted
<1>3. e = [name |-> StName(p), bind |-> y.bind, shndx |-> Shndx(y)]
  <2>1. o.symtab = SymtabEntries
    BY ObjectFields DEF FileOf
  <2> QED BY <2>1 DEF SymtabEntries
<1>4. o.shdrs[SymtabIndex].link = t
  <2>1. SymtabIndex \in 1 .. ShstrtabIndex
    BY <1>1
  <2>2. o.shdrs[SymtabIndex].link = Header(SymtabIndex).link
    BY <1>1, <2>1, FileHeader
  <2>3. Header(SymtabIndex).link = t
    BY HeaderIs DEF Filled
  <2> QED BY <2>2, <2>3
<1>5. HoldsOwn(o, t)
  <2>1. Header(t).type = "STRTAB" /\ t \in 1 .. ShstrtabIndex
    BY <1>1, HeaderIs DEF Filled
  <2> QED BY <2>1, FileFacts
<1>6. t \in DOMAIN o.strings /\ o.strings[t] = Strtab
  BY ObjectFields DEF FileOf
<1>7. StringAt(o, t, e.name) = Text(y.name)
  <2>1. e.name = StName(p)
    BY <1>3
  <2>2. Sized(Strtab, Len(symbols)) /\ Len(symbols) \in Nat
    BY StrtabIs, Counted
  <2>3. Strtab[p].text = Text(y.name) /\ (Strtab[p].bytes = 0 <=> y.name = NoName)
    BY StrtabIs
  <2>4. CASE Strtab[p].bytes = 0
    <3>1. e.name = 0 /\ y.name = NoName
      BY <2>1, <2>3, <2>4 DEF StName
    <3>2. StringAt(o, t, 0) = <<>>
      BY <1>5, <1>6 DEF StringAt
    <3> QED BY <3>1, <3>2 DEF Text
  <2>5. CASE Strtab[p].bytes # 0
    <3>1. e.name = Offset(Strtab, p)
      BY <2>1, <2>5 DEF StName
    <3>2. Strtab[p].bytes > 0
      BY <2>2, <2>5 DEF Sized
    <3>3. StringAt(o, t, Offset(Strtab, p)) = Strtab[p].text
      BY <1>5, <1>6, <2>2, <3>2, StringFound
    <3> QED BY <2>3, <3>1, <3>3
  <2> QED BY <2>4, <2>5
<1>8. /\ y.ref = "UNDEF" => e.shndx = 0
      /\ y.ref = "ABS" => e.shndx = ShnAbs
      /\ y.ref = "SECTION" => e.shndx = SectionIndex(y.section) % Half
  BY <1>3 DEF Shndx
<1>9. ShnAbs \in Nat \ {0} /\ Half \in Nat \ {0}
  BY SerializeAssumption
<1>10. y.ref = "SECTION" => /\ e.shndx = y.section + 1 /\ e.shndx \in 1 .. n
                            /\ HandleAt(o, e.shndx) = y.section
  <2> SUFFICES ASSUME y.ref = "SECTION"
               PROVE  /\ e.shndx = y.section + 1 /\ e.shndx \in 1 .. n
                      /\ HandleAt(o, e.shndx) = y.section
    OBVIOUS
  <2>1. y.section \in 0 .. n - 1
    BY <1>2, Counted DEF HandlesKnown
  <2> DEFINE x == SectionIndex(y.section)
             w == Half
  <2>2. x = y.section + 1 /\ x \in 0 .. w - 1 /\ x \in 1 .. n
    <3>1. PICK q \in 0 .. n - 1 : q = y.section
      BY <2>1
    <3>2. 1 + q = q + 1 /\ 1 + q \in 0 .. w - 1 /\ 1 + q \in 1 .. n
      BY <1>1, <1>9
    <3> QED BY <3>1, <3>2 DEF SectionIndex
  <2>3. e.shndx = x % w
    BY <1>8
  <2> HIDE DEF x, w
  <2>4. w \in Nat \ {0}
    BY <1>9 DEF w
  <2>5. e.shndx = x
    BY <2>2, <2>3, <2>4, ModSmall
  <2>6. HandleAt(o, x) = x - 1
    BY <2>2, HandleRead
  <2>7. x - 1 = y.section
    BY <2>1, <2>2
  <2> QED BY <2>2, <2>5, <2>6, <2>7
<1> DEFINE ref == IF e.shndx = 0 THEN "UNDEF" ELSE IF e.shndx = ShnAbs THEN "ABS" ELSE "SECTION"
<1>11. ref = y.ref
  <2>1. CASE y.ref = "UNDEF"
    BY <1>8, <2>1
  <2>2. CASE y.ref = "ABS"
    BY <1>8, <1>9, <2>2
  <2>3. CASE y.ref = "SECTION"
    <3>1. e.shndx # 0 /\ e.shndx # ShnAbs
      BY <1>1, <1>9, <1>10, <2>3
    <3> QED BY <2>3, <3>1
  <2> QED BY <1>2, <2>1, <2>2, <2>3 DEF Symbol, SymRef
<1>12. SymbolRead(o, SymtabIndex, p) =
         [name |-> StringAt(o, t, e.name), bind |-> y.bind, ref |-> ref,
          section |-> IF ref = "SECTION" /\ e.shndx \in Headers(o)
                      THEN HandleAt(o, e.shndx) ELSE 0]
  BY <1>3, <1>4 DEF SymbolRead
<1>13. (IF ref = "SECTION" /\ e.shndx \in Headers(o) THEN HandleAt(o, e.shndx) ELSE 0)
         = (IF y.ref = "SECTION" THEN y.section ELSE 0)
  <2>1. y.ref = "SECTION" => e.shndx \in Headers(o)
    BY <1>1, <1>10, SMTT(60)
  <2> HIDE DEF ref, e
  <2> QED BY <1>10, <1>11, <2>1
<1>14. Abstract!SymbolSeen(h) =
         [name |-> Text(y.name), bind |-> y.bind, ref |-> y.ref,
          section |-> IF y.ref = "SECTION" THEN y.section ELSE 0]
  BY DEF Abstract!SymbolSeen, Abstract!Text, Text
<1> HIDE DEF ref, e
<1> QED BY <1>7, <1>11, <1>12, <1>13, <1>14

\* A relocation's symbol is at the index the relocation is given.
LEMMA FinalIndexIs ==
  ASSUME BuilderTypeOK, NEW h \in SymbolHandles
  PROVE  FinalIndex(h) \in 1 .. Len(symbols) /\ SymbolOrder[FinalIndex(h)] = h
<1>1. DOMAIN SymbolOrder = 1 .. Len(symbols)
  BY SymbolOrderIs
<1>2. \E p \in 1 .. Len(symbols) : SymbolOrder[p] = h
  BY SymbolOrderIs
<1> QED BY <1>1, <1>2 DEF FinalIndex

\* The .rela section of a section, if it has one.
RelaTables(o, k) ==
  {r \in Headers(o) : /\ o.shdrs[r].type = "RELA" /\ o.shdrs[r].info = k
                      /\ o.shdrs[r].link \in SymtabHeaders(o)
                      /\ SectionName(o, r) = <<".rela">> \o SectionName(o, k)
                      /\ HoldsOwn(o, r)}

\* A section's relocations are under one header, if it has any.
LEMMA RelaTablesAre ==
  ASSUME HeadersFit, HandlesKnown, BuilderTypeOK, NEW o, NEW at \in Nat, FileOf(o, at),
         NEW k \in 1 .. SectionCount
  PROVE  /\ k - 1 \notin HaveRelas => RelaTables(o, k) = {}
         /\ k - 1 \in HaveRelas => \E r \in StrtabIndex + 1 .. ShstrtabIndex - 1 :
                                      RelaTables(o, k) = {r} /\ RelaOwner(r) = k - 1
<1> DEFINE n == SectionCount
           z == ShstrtabIndex
           t == StrtabIndex
<1>1. /\ n \in Nat /\ z \in Nat /\ z >= n + 3 /\ t = n + 2 /\ SymtabIndex = n + 1
      /\ DOMAIN o.shdrs = 1 .. z /\ Headers(o) = 1 .. z
  BY FileFacts
<1>2. ASSUME NEW r \in 1 .. z, o.shdrs[r].type = "RELA"
      PROVE  /\ r \in t + 1 .. z - 1 /\ RelaOwner(r) \in SectionHandles /\ RelaOwner(r) \in HaveRelas
             /\ r - t \in 1 .. Len(RelaOwners) /\ RelaOwner(r) = RelaOwners[r - t]
             /\ o.shdrs[r].info = RelaOwner(r) + 1 /\ RelaOwner(r) \in Nat
  <2>1. Header(r).type = "RELA" /\ o.shdrs[r].info = Header(r).info
    BY <1>1, <1>2, FileHeader
  <2>2. r \in t + 1 .. z - 1
    BY <2>1, SymtabHeader
  <2>3. Header(r).info = SectionIndex(RelaOwner(r))
    BY <2>2, HeaderIs DEF Filled
  <2>4. /\ RelaOwner(r) \in SectionHandles /\ RelaOwner(r) \in HaveRelas
        /\ r - t \in 1 .. Len(RelaOwners)
    BY <2>2, RelaOwnerIs
  <2>5. RelaOwner(r) \in Nat
    BY <2>4, Counted
  <2>6. SectionIndex(RelaOwner(r)) = RelaOwner(r) + 1
    BY <2>5 DEF SectionIndex
  <2> QED BY <2>1, <2>2, <2>3, <2>4, <2>5, <2>6 DEF RelaOwner
<1>3. ASSUME NEW r \in RelaTables(o, k) PROVE RelaOwner(r) = k - 1 /\ r \in 1 .. z
  <2>1. r \in 1 .. z /\ o.shdrs[r].type = "RELA" /\ o.shdrs[r].info = k
    BY <1>1 DEF RelaTables
  <2>2. k = RelaOwner(r) + 1 /\ RelaOwner(r) \in Nat
    BY <1>2, <2>1
  <2> QED BY <2>1, <2>2
<1>4. ASSUME k - 1 \notin HaveRelas PROVE RelaTables(o, k) = {}
  <2> SUFFICES ASSUME NEW r \in RelaTables(o, k) PROVE FALSE
    OBVIOUS
  <2>1. RelaOwner(r) = k - 1 /\ r \in 1 .. z /\ o.shdrs[r].type = "RELA"
    BY <1>3 DEF RelaTables
  <2>2. RelaOwner(r) \in HaveRelas
    BY <1>2, <2>1
  <2> QED BY <1>4, <2>1, <2>2
<1>5. ASSUME k - 1 \in HaveRelas
      PROVE  \E r \in t + 1 .. z - 1 : RelaTables(o, k) = {r} /\ RelaOwner(r) = k - 1
  <2>1. PICK i \in 1 .. Len(RelaOwners) : RelaOwners[i] = k - 1
    BY <1>5, RelaOwnersAre
  <2> DEFINE r == t + i
  <2>2. /\ r \in t + 1 .. z - 1 /\ r - t = i /\ r \in 1 .. z
    <3>1. z = n + 3 + Len(RelaOwners) /\ Len(RelaOwners) \in Nat
      BY ShstrtabIs, RelaOwnersAre
    <3> QED BY <1>1, <3>1
  <2> HIDE DEF r
  <2>3. RelaOwner(r) = k - 1
    BY <2>1, <2>2 DEF RelaOwner
  <2>4. Header(r) = Filled(r, "RELA", RelaSize * Len(sections[RelaOwner(r) + 1].relas), 8,
                           SymtabIndex, SectionIndex(RelaOwner(r)))
    BY <2>2, HeaderIs
  <2>5. Header(r).type = "RELA" /\ Header(r).link = SymtabIndex
    BY <2>4 DEF Filled
  <2>6. o.shdrs[r].type = "RELA" /\ o.shdrs[r].link = SymtabIndex
    BY <1>1, <2>2, <2>5, FileHeader
  <2>7. o.shdrs[r].info = k
    <3>1. o.shdrs[r].info = RelaOwner(r) + 1
      BY <1>2, <2>2, <2>6
    <3> QED BY <2>3, <3>1
  <2>8. o.shdrs[r].link \in SymtabHeaders(o)
    BY <2>6, SymtabRead
  <2>9. HoldsOwn(o, r)
    BY <2>2, <2>5, FileFacts
  <2>10. SectionName(o, r) = <<".rela">> \o SectionName(o, k)
    <3>1. k \in 1 .. z
      BY <1>1
    <3>2. SectionName(o, r) = Shstrtab[r].text /\ SectionName(o, k) = Shstrtab[k].text
      BY <2>2, <3>1, NameRead
    <3>3. Shstrtab[r] = NameEntry(<<".rela">>, 5, k - 1) /\ Shstrtab[k] = NameEntry(<<>>, 0, k - 1)
      BY <2>2, <2>3, ShstrtabIs
    <3> DEFINE x == Text(sections[(k - 1) + 1].name)
    <3>4. Shstrtab[r].text = <<".rela">> \o x /\ Shstrtab[k].text = <<>> \o x
      BY <3>3 DEF NameEntry
    <3>5. <<>> \o x = x
      <4>1. PICK y : x = <<>> \/ x = <<y>>
        BY DEF Text
      <4> HIDE DEF x
      <4>2. x \in Seq({y})
        <5>1. <<>> \in Seq({y}) /\ <<y>> \in Seq({y})
          OBVIOUS
        <5> QED BY <4>1, <5>1
      <4> QED BY <4>2
    <3> QED BY <3>2, <3>4, <3>5
  <2>11. r \in RelaTables(o, k)
    BY <1>1, <2>2, <2>6, <2>7, <2>8, <2>9, <2>10 DEF RelaTables
  <2>12. ASSUME NEW q \in RelaTables(o, k) PROVE q = r
    <3>1. RelaOwner(q) = k - 1 /\ q \in 1 .. z /\ o.shdrs[q].type = "RELA"
      BY <1>3 DEF RelaTables
    <3>2. q - t \in 1 .. Len(RelaOwners) /\ RelaOwners[q - t] = k - 1
      BY <1>2, <3>1
    <3>3. DOMAIN RelaOwners = 1 .. Len(RelaOwners) /\ Injective(RelaOwners)
      BY RelaOwnersAre
    <3>4. q - t = r - t
      BY <2>1, <2>2, <3>2, <3>3 DEF Injective
    <3> QED BY <1>1, <2>2, <3>1, <3>4
  <2>13. RelaTables(o, k) = {r}
    BY <2>11, <2>12
  <2> QED BY <2>2, <2>3, <2>13
<1> QED BY <1>4, <1>5

\* A section's relocations read as they were added, each with its symbol.
LEMMA RelasReadBack ==
  ASSUME HeadersFit, HandlesKnown, BuilderTypeOK, NEW o, NEW at \in Nat, FileOf(o, at),
         NEW k \in 1 .. SectionCount
  PROVE  RelasRead(o, k) = [j \in 1 .. Len(sections[k].relas) |->
                              [offset |-> sections[k].relas[j].offset,
                               symbol |-> Abstract!SymbolSeen(sections[k].relas[j].symbol)]]
<1> DEFINE rs == sections[k].relas
           L == Len(rs)
           Seen(j) == [offset |-> rs[j].offset, symbol |-> Abstract!SymbolSeen(rs[j].symbol)]
<1>1. /\ k - 1 \in SectionHandles /\ (k - 1) + 1 = k /\ rs \in Seq(Rela)
  BY Counted DEF Section
<1>2. L \in Nat /\ DOMAIN rs = 1 .. L
  BY <1>1
<1>3. k - 1 \in HaveRelas <=> rs # <<>>
  BY <1>1 DEF HaveRelas
<1>4. RelasRead(o, k) = IF RelaTables(o, k) = {} THEN <<>>
                        ELSE LET r == CHOOSE r \in RelaTables(o, k) : TRUE
                             IN [j \in 1 .. o.shdrs[r].size \div RelaSize |->
                                   [offset |-> o.relas[r][j].offset,
                                    symbol |-> SymbolRead(o, o.shdrs[r].link, o.relas[r][j].sym)]]
  BY DEF RelasRead, RelaTables
<1>5. CASE rs = <<>>
  <2>1. RelasRead(o, k) = <<>>
    BY <1>3, <1>4, <1>5, RelaTablesAre
  <2>2. L = 0
    BY <1>5
  <2>3. <<>> = [j \in 1 .. L |-> Seen(j)]
    <3> HIDE DEF Seen, L
    <3>1. 1 .. L = {}
      BY <2>2
    <3> QED BY <2>2
  <2> QED BY <2>1, <2>3
<1>6. CASE rs # <<>>
  <2>1. PICK r \in StrtabIndex + 1 .. ShstrtabIndex - 1 :
          RelaTables(o, k) = {r} /\ RelaOwner(r) = k - 1
    BY <1>3, <1>6, RelaTablesAre
  <2>2. RelasRead(o, k) = [j \in 1 .. o.shdrs[r].size \div RelaSize |->
                             [offset |-> o.relas[r][j].offset,
                              symbol |-> SymbolRead(o, o.shdrs[r].link, o.relas[r][j].sym)]]
    <3>1. (CHOOSE q \in {r} : TRUE) = r
      OBVIOUS
    <3> QED BY <1>4, <2>1, <3>1
  <2>3. o.shdrs[r].size = RelaSize * L /\ o.shdrs[r].link = SymtabIndex
    <3>1. r \in DOMAIN o.shdrs
      BY FileFacts
    <3>2. Header(r) = Filled(r, "RELA", RelaSize * L, 8, SymtabIndex, SectionIndex(k - 1))
      BY <1>1, <2>1, HeaderIs
    <3>3. Header(r).size = RelaSize * L /\ Header(r).link = SymtabIndex
      BY <3>2 DEF Filled
    <3> QED BY <3>1, <3>3, FileHeader
  <2>4. o.shdrs[r].size \div RelaSize = L
    <3>1. \A q \in Nat : (24 * q) \div 24 = q
      OBVIOUS
    <3> HIDE DEF L
    <3> QED BY <1>2, <2>3, <3>1 DEF RelaSize
  <2>5. o.relas[r] = RelaEntries(k - 1)
    BY <2>1, ObjectFields DEF FileOf
  <2>6. ASSUME NEW j \in 1 .. L
        PROVE  [offset |-> o.relas[r][j].offset,
                symbol |-> SymbolRead(o, o.shdrs[r].link, o.relas[r][j].sym)] = Seen(j)
    <3>1. o.relas[r][j] = [offset |-> rs[j].offset, sym |-> FinalIndex(rs[j].symbol)]
      BY <1>1, <2>5 DEF RelaEntries
    <3>2. rs[j].symbol \in SymbolHandles
      BY <1>1, <1>2 DEF HandlesKnown
    <3>3. FinalIndex(rs[j].symbol) \in 1 .. Len(symbols)
          /\ SymbolOrder[FinalIndex(rs[j].symbol)] = rs[j].symbol
      BY <3>2, FinalIndexIs
    <3>4. SymbolRead(o, SymtabIndex, FinalIndex(rs[j].symbol)) = Abstract!SymbolSeen(rs[j].symbol)
      BY <3>3, SymbolReads
    <3> QED BY <2>3, <3>1, <3>4
  <2> QED BY <2>2, <2>4, <2>6
<1> QED BY <1>5, <1>6

\* What a linker finds under header k is the caller's k-th section.
LEMMA SectionReads ==
  ASSUME HeadersFit, HandlesKnown, BuilderTypeOK, NEW o, NEW at \in Nat, FileOf(o, at),
         NEW k \in 1 .. SectionCount
  PROVE  SectionRead(o, k) = Abstract!SectionSeen(k - 1)
<1> DEFINE s == sections[k]
           rs == [j \in 1 .. Len(s.relas) |->
                    [offset |-> s.relas[j].offset,
                     symbol |-> Abstract!SymbolSeen(s.relas[j].symbol)]]
           x == o.shdrs[k]
<1>1. k \in 1 .. ShstrtabIndex /\ k \in DOMAIN o.shdrs
  BY FileFacts
<1>2. Header(k).type = s.kind /\ Header(k).size = s.size /\ Header(k).align = s.align
  BY HeaderIs DEF Filled
<1>3. x.type = s.kind /\ x.size = s.size /\ x.align = s.align
  BY <1>1, <1>2, FileHeader
<1>4. (x.type = "NOBITS" \/ HoldsOwn(o, k)) = TRUE
  BY <1>1, <1>2, <1>3, FileFacts
<1>5. SectionName(o, k) = Text(s.name)
  <2>1. (k - 1) + 1 = k
    BY FileFacts
  <2>2. SectionName(o, k) = <<>> \o Text(s.name)
    <3>1. SectionName(o, k) = Shstrtab[k].text
      BY <1>1, NameRead
    <3>2. Shstrtab[k] = NameEntry(<<>>, 0, k - 1)
      BY ShstrtabIs
    <3>3. NameEntry(<<>>, 0, k - 1).text = <<>> \o Text(sections[(k - 1) + 1].name)
      BY DEF NameEntry
    <3> QED BY <2>1, <3>1, <3>2, <3>3
  <2>3. PICK y, t : t = Text(s.name) /\ (t = <<>> \/ t = <<y>>)
    BY DEF Text
  <2>4. <<>> \o t = t
    <3>1. <<>> \in Seq({y}) /\ <<y>> \in Seq({y})
      OBVIOUS
    <3>2. t \in Seq({y})
      BY <2>3, <3>1
    <3> QED BY <3>2
  <2> QED BY <2>2, <2>3, <2>4
<1>6. RelasRead(o, k) = rs
  BY RelasReadBack
<1>7. SectionRead(o, k) =
        [name |-> SectionName(o, k), kind |-> x.type, align |-> x.align, size |-> x.size,
         whole |-> x.type = "NOBITS" \/ HoldsOwn(o, k), relas |-> RelasRead(o, k)]
  BY DEF SectionRead
<1>8. Abstract!SectionSeen(k - 1) =
        [name |-> Text(s.name), kind |-> s.kind, align |-> s.align, size |-> s.size,
         whole |-> TRUE, relas |-> rs]
  <2>1. (k - 1) + 1 = k
    BY FileFacts
  <2> QED BY <2>1 DEF Abstract!SectionSeen, Abstract!Text, Text
<1> HIDE DEF rs, s, x
<1>9. SectionRead(o, k) = [name |-> Text(s.name), kind |-> s.kind, align |-> s.align,
                           size |-> s.size, whole |-> TRUE, relas |-> rs]
  BY <1>3, <1>4, <1>5, <1>6, <1>7, Zenon
<1> QED BY <1>8, <1>9

\* The callers' headers, found by their type, in order.
LEMMA SectionsRead ==
  ASSUME HeadersFit, HandlesKnown, BuilderTypeOK, NEW o, NEW at \in Nat, FileOf(o, at)
  PROVE  Read(o).sections = Abstract!Contents.sections
<1> DEFINE n == SectionCount
           callers == {k \in Headers(o) : o.shdrs[k].type \in SecKind}
           HeaderOf(h) == CHOOSE k \in callers : HandleAt(o, k) = h
<1>1. /\ n \in Nat /\ ShstrtabIndex \in Nat /\ ShstrtabIndex >= n + 3
      /\ Headers(o) = 1 .. ShstrtabIndex /\ DOMAIN o.shdrs = 1 .. ShstrtabIndex
  BY FileFacts
<1>2. callers = 1 .. n
  <2>1. ASSUME NEW k \in 1 .. ShstrtabIndex PROVE o.shdrs[k].type \in SecKind <=> k <= n
    <3>1. o.shdrs[k].type = Header(k).type
      BY <1>1, FileHeader
    <3> QED BY <3>1, SymtabHeader
  <2>2. \A k \in 1 .. n : k \in 1 .. ShstrtabIndex /\ k <= n
    BY <1>1
  <2>3. \A k \in 1 .. ShstrtabIndex : k <= n => k \in 1 .. n
    BY <1>1
  <2> QED BY <1>1, <2>1, <2>2, <2>3
<1> HIDE DEF callers
<1>3. Cardinality(callers) = n
  <2>1. CASE n = 0
    <3>1. 1 .. n = {}
      BY <2>1
    <3> QED BY <1>2, <2>1, <3>1, FS_EmptySet
  <2>2. CASE n # 0
    <3>1. 1 \in Int /\ n \in Int /\ 1 <= n /\ n - 1 + 1 = n
      BY <1>1, <2>2
    <3> HIDE DEF n
    <3> QED BY <1>2, <3>1, FS_Interval
  <2> QED BY <2>1, <2>2
<1>4. ASSUME NEW j \in 1 .. n PROVE HeaderOf(j - 1) = j
  <2>1. \A k \in callers : HandleAt(o, k) = k - 1 /\ k \in Int
    BY <1>1, <1>2, HandleRead
  <2>2. \A k \in callers : HandleAt(o, k) = j - 1 <=> k = j
    BY <2>1
  <2>3. j \in callers
    BY <1>2
  <2> QED BY <2>2, <2>3
<1>5. Read(o).sections = [j \in 1 .. Cardinality(callers) |-> SectionRead(o, HeaderOf(j - 1))]
  BY DEF Read, callers
<1>6. ASSUME NEW j \in 1 .. n PROVE SectionRead(o, HeaderOf(j - 1)) = Abstract!SectionSeen(j - 1)
  BY <1>4, SectionReads
<1>7. Abstract!Contents.sections = [j \in 1 .. n |-> Abstract!SectionSeen(j - 1)]
  BY DEF Abstract!Contents, SectionCount
<1> HIDE DEF HeaderOf, n
<1> QED BY <1>3, <1>5, <1>6, <1>7

Reorders(pi, s, t, n) ==
  /\ pi \in [1 .. n -> 1 .. n] /\ DOMAIN s = 1 .. n /\ DOMAIN t = 1 .. n
  /\ \A i, j \in 1 .. n : pi[i] = pi[j] => i = j
  /\ \A k \in 1 .. n : \E i \in 1 .. n : pi[i] = k
  /\ \A i \in 1 .. n : s[i] = t[pi[i]]

\* Reordering the elements of a sequence leaves its bag alone.
LEMMA BagReordered ==
  ASSUME NEW n \in Nat, NEW pi, NEW s, NEW t, Reorders(pi, s, t, n)
  PROVE  ToBag(s) = Abstract!ToBag(t)
<1>0. /\ pi \in [1 .. n -> 1 .. n] /\ DOMAIN s = 1 .. n /\ DOMAIN t = 1 .. n
      /\ \A i, j \in 1 .. n : pi[i] = pi[j] => i = j
      /\ \A k \in 1 .. n : \E i \in 1 .. n : pi[i] = k
      /\ \A i \in 1 .. n : s[i] = t[pi[i]]
  BY DEF Reorders
<1> USE <1>0
<1> DEFINE Places(u, x) == {i \in 1 .. n : u[i] = x}
<1>1. Range(s) = Range(t)
  BY SMTT(60) DEF Range
<1>2. ASSUME NEW x PROVE Cardinality(Places(s, x)) = Cardinality(Places(t, x))
  <2> DEFINE A == Places(s, x)
             B == Places(t, x)
             g == [i \in A |-> pi[i]]
  <2>1. g \in [A -> B]
    OBVIOUS
  <2>2. \A i, j \in A : g[i] = g[j] => i = j
    OBVIOUS
  <2>3. \A k \in B : \E i \in A : g[i] = k
    OBVIOUS
  <2>4. IsFiniteSet(A)
    <3>1. IsFiniteSet(1 .. n) /\ A \in SUBSET (1 .. n)
      BY FS_Interval
    <3> HIDE DEF A
    <3> QED BY <3>1, FS_Subset
  <2> HIDE DEF A, B, g
  <2>5. g \in Bijection(A, B)
    BY <2>1, <2>2, <2>3, Fun_IsBij
  <2>6. ExistsBijection(A, B)
    BY <2>5 DEF ExistsBijection
  <2>7. Cardinality(A) = Cardinality(B)
    BY <2>4, <2>6, FS_Bijection
  <2> QED BY <2>7 DEF A, B
<1>3. ToBag(s) = [x \in Range(s) |-> Cardinality(Places(s, x))]
  BY DEF ToBag
<1>4. Abstract!ToBag(t) = [x \in Range(t) |-> Cardinality(Places(t, x))]
  <2>1. ASSUME NEW S PROVE Abstract!Cardinality(S) = Cardinality(S)
    BY DEF Abstract!Cardinality, Cardinality, Abstract!IsFiniteSet, IsFiniteSet
  <2> QED BY <2>1 DEF Abstract!ToBag, Abstract!Range, Range
<1> HIDE DEF Places
<1> QED BY <1>1, <1>2, <1>3, <1>4

\* The symbols, as a bag, are the caller's.
LEMMA SymbolsRead ==
  ASSUME HeadersFit, HandlesKnown, BuilderTypeOK, NEW o, NEW at \in Nat, FileOf(o, at)
  PROVE  Read(o).symbols = Abstract!Contents.symbols
<1> DEFINE n == Len(symbols)
           y == SymtabIndex
           Size == o.shdrs[y].size
           s == [p \in 1 .. n |-> SymbolRead(o, y, p)]
           t == [k \in 1 .. n |-> Abstract!SymbolSeen(k - 1)]
           pi == [p \in 1 .. n |-> SymbolOrder[p] + 1]
<1>1. n \in Nat
  BY Counted
<1>2. Size = 24 * (1 + n)
  <2>1. y \in DOMAIN o.shdrs
    BY FileFacts
  <2>2. Header(y).size = SymSize * (1 + n)
    BY HeaderIs DEF Filled
  <2> QED BY <2>1, <2>2, FileHeader DEF SymSize
<1>3. (Size \div SymSize) - 1 = n
  <2>1. \A q \in Nat : (24 * (1 + q)) \div 24 = 1 + q /\ (1 + q) - 1 = q
    OBVIOUS
  <2> HIDE DEF n, Size
  <2> QED BY <1>1, <1>2, <2>1 DEF SymSize
<1>4. Read(o).symbols = ToBag(s)
  <2>1. SymtabHeaders(o) = {y} /\ (CHOOSE q \in {y} : TRUE) = y
    BY SymtabRead
  <2>2. Read(o).symbols = IF SymtabHeaders(o) = {} THEN ToBag(<<>>)
                          ELSE LET q == CHOOSE q \in SymtabHeaders(o) : TRUE
                               IN ToBag([p \in 1 .. (o.shdrs[q].size \div SymSize) - 1 |->
                                           SymbolRead(o, q, p)])
    BY DEF Read
  <2>3. Read(o).symbols = ToBag([p \in 1 .. (o.shdrs[y].size \div SymSize) - 1 |-> SymbolRead(o, y, p)])
    BY <2>1, <2>2
  <2> QED BY <1>3, <2>3
<1>5. Abstract!Contents.symbols = Abstract!ToBag(t)
  BY DEF Abstract!Contents
<1>6. \A p \in 1 .. n : /\ SymbolOrder[p] \in Nat /\ SymbolOrder[p] + 1 \in 1 .. n
                        /\ (SymbolOrder[p] + 1) - 1 = SymbolOrder[p]
  <2> SUFFICES ASSUME NEW p \in 1 .. n
               PROVE  /\ SymbolOrder[p] \in Nat /\ SymbolOrder[p] + 1 \in 1 .. n
                      /\ (SymbolOrder[p] + 1) - 1 = SymbolOrder[p]
    OBVIOUS
  <2>1. SymbolOrder[p] \in SymbolHandles
    BY SymbolOrderIs
  <2> QED BY <2>1, Counted
<1>7. pi \in [1 .. n -> 1 .. n]
  BY <1>6
<1>8. \A i, j \in 1 .. n : pi[i] = pi[j] => i = j
  <2> SUFFICES ASSUME NEW i \in 1 .. n, NEW j \in 1 .. n, pi[i] = pi[j] PROVE i = j
    OBVIOUS
  <2>1. SymbolOrder[i] = SymbolOrder[j]
    BY <1>6
  <2>2. DOMAIN SymbolOrder = 1 .. n /\ Injective(SymbolOrder)
    BY SymbolOrderIs
  <2> QED BY <2>1, <2>2 DEF Injective
<1>9. \A k \in 1 .. n : \E i \in 1 .. n : pi[i] = k
  <2> SUFFICES ASSUME NEW k \in 1 .. n PROVE \E i \in 1 .. n : pi[i] = k
    OBVIOUS
  <2>1. k - 1 \in SymbolHandles
    BY Counted
  <2>2. PICK i \in 1 .. n : SymbolOrder[i] = k - 1
    BY <2>1, SymbolOrderIs
  <2>3. pi[i] = k
    BY <2>2
  <2> QED BY <2>3
<1>10. \A i \in 1 .. n : s[i] = t[pi[i]]
  <2> SUFFICES ASSUME NEW i \in 1 .. n PROVE s[i] = t[pi[i]]
    OBVIOUS
  <2>1. s[i] = Abstract!SymbolSeen(SymbolOrder[i])
    BY SymbolReads
  <2>2. t[pi[i]] = Abstract!SymbolSeen(SymbolOrder[i])
    BY <1>6
  <2> QED BY <2>1, <2>2
<1>11. DOMAIN s = 1 .. n /\ DOMAIN t = 1 .. n
  OBVIOUS
<1> HIDE DEF s, t, pi, n
<1>12. ToBag(s) = Abstract!ToBag(t)
  <2>1. Reorders(pi, s, t, n)
    BY <1>7, <1>8, <1>9, <1>10, <1>11 DEF Reorders
  <2> QED BY <1>1, <2>1, BagReordered
<1> QED BY <1>4, <1>5, <1>12

\* A linker finds in the image exactly what the caller added.
LEMMA ReadsBack ==
  ASSUME HeadersFit, HandlesKnown, BuilderTypeOK, NEW o, NEW at \in Nat, FileOf(o, at)
  PROVE  Read(o) = Abstract!Contents
<1>1. Read(o).sections = Abstract!Contents.sections /\ Read(o).symbols = Abstract!Contents.symbols
  BY SectionsRead, SymbolsRead
<1>2. \E a, b : Read(o) = [sections |-> a, symbols |-> b]
  BY DEF Read
<1>3. \E a, b : Abstract!Contents = [sections |-> a, symbols |-> b]
  BY DEF Abstract!Contents
<1> QED BY <1>1, <1>2, <1>3
LEMMA InitHandles == Init => HandlesKnown
BY BuilderAssumption DEF Init, BuilderInit, HandlesKnown, SectionHandles, SymbolHandles

LEMMA NextHandles == BuilderTypeOK /\ HandlesKnown /\ [Next]_vars => HandlesKnown'
<1> SUFFICES ASSUME BuilderTypeOK, HandlesKnown, [Next]_vars PROVE HandlesKnown'
  OBVIOUS
<1>1. /\ sections \in Seq(Section) /\ symbols \in Seq(Symbol)
      /\ Len(sections) \in Nat /\ Len(symbols) \in Nat /\ Len(sections) <= MaxSections
      /\ DOMAIN sections = 1 .. Len(sections) /\ DOMAIN symbols = 1 .. Len(symbols)
      /\ MaxSections \in Nat
  BY BuilderAssumption DEF BuilderTypeOK, HandlesKnown
<1>2. /\ \A k \in 1 .. Len(sections) : \A j \in DOMAIN sections[k].relas :
           sections[k].relas[j].symbol \in 0 .. Len(symbols) - 1
      /\ \A k \in 1 .. Len(symbols) :
           symbols[k].ref = "SECTION" => symbols[k].section \in 0 .. Len(sections) - 1
  <2>1. ASSUME NEW k \in 1 .. Len(sections), NEW j \in DOMAIN sections[k].relas
        PROVE  sections[k].relas[j].symbol \in 0 .. Len(symbols) - 1
    <3>1. k - 1 \in SectionHandles /\ (k - 1) + 1 = k
      BY <1>1 DEF SectionHandles
    <3> QED BY <3>1 DEF HandlesKnown, SymbolHandles
  <2>2. ASSUME NEW k \in 1 .. Len(symbols), symbols[k].ref = "SECTION"
        PROVE  symbols[k].section \in 0 .. Len(sections) - 1
    <3>1. k - 1 \in SymbolHandles /\ (k - 1) + 1 = k
      BY <1>1 DEF SymbolHandles
    <3> QED BY <2>2, <3>1 DEF HandlesKnown, SectionHandles
  <2> QED BY <2>1, <2>2
<1>3. ASSUME /\ Len(sections') \in Nat /\ Len(sections') <= MaxSections /\ Len(symbols') \in Nat
             /\ \A k \in 1 .. Len(sections') : \A j \in DOMAIN sections'[k].relas :
                  sections'[k].relas[j].symbol \in 0 .. Len(symbols') - 1
             /\ \A k \in 1 .. Len(symbols') :
                  symbols'[k].ref = "SECTION" => symbols'[k].section \in 0 .. Len(sections') - 1
      PROVE  HandlesKnown'
  <2>1. \A h \in SectionHandles' : h + 1 \in 1 .. Len(sections')
    BY <1>3 DEF SectionHandles
  <2>2. \A h \in SymbolHandles' : h + 1 \in 1 .. Len(symbols')
    BY <1>3 DEF SymbolHandles
  <2> QED BY <1>3, <2>1, <2>2 DEF HandlesKnown, SectionHandles, SymbolHandles
<1>4. ASSUME UNCHANGED builderVars PROVE HandlesKnown'
  BY <1>4 DEF builderVars, HandlesKnown, SectionHandles, SymbolHandles
<1>5. ASSUME NEW c \in SectionChoices, AddSection(c) PROVE HandlesKnown'
  <2> DEFINE s == [name |-> c.name, kind |-> c.kind, size |-> 0,
                   align |-> Effective(c.align), relas |-> <<>>]
             L == Len(sections)
  <2>1. sections' = Append(sections, s) /\ symbols' = symbols /\ L < MaxSections /\ s.relas = <<>>
    BY <1>5 DEF AddSection
  <2> HIDE DEF s
  <2>2. /\ Len(sections') = L + 1 /\ sections'[L + 1] = s
        /\ \A k \in 1 .. L : sections'[k] = sections[k]
    BY <1>1, <2>1
  <2> HIDE DEF L
  <2>3. L \in Nat
    BY <1>1 DEF L
  <2>4. ASSUME NEW k \in 1 .. L + 1, NEW j \in DOMAIN sections'[k].relas
        PROVE  sections'[k].relas[j].symbol \in 0 .. Len(symbols') - 1
    <3>1. k # L + 1
      BY <2>1, <2>2, <2>4
    <3>2. k \in 1 .. L
      BY <2>3, <3>1
    <3> QED BY <1>2, <2>1, <2>2, <2>4, <3>2 DEF L
  <2>5. ASSUME NEW k \in 1 .. Len(symbols'), symbols'[k].ref = "SECTION"
        PROVE  symbols'[k].section \in 0 .. Len(sections') - 1
    <3>1. symbols[k].section \in 0 .. L - 1
      BY <1>2, <2>1, <2>5 DEF L
    <3> QED BY <2>2, <2>3, <2>1, <3>1
  <2>6. Len(sections') \in Nat /\ Len(sections') <= MaxSections /\ Len(symbols') \in Nat
    BY <1>1, <2>1, <2>2, <2>3
  <2> QED BY <1>3, <2>2, <2>4, <2>5, <2>6
<1>6. ASSUME NEW h \in SectionHandles, NEW n \in Amounts, Grow(h, n) PROVE HandlesKnown'
  <2>1. h + 1 \in 1 .. Len(sections)
    BY <1>1 DEF SectionHandles
  <2> DEFINE s == [sections[h + 1] EXCEPT !.size = sections[h + 1].size + n]
  <2>2. sections' = [sections EXCEPT ![h + 1] = s] /\ symbols' = symbols
    BY <1>6 DEF Grow
  <2>3. s.relas = sections[h + 1].relas
    BY <1>1, <2>1 DEF Section
  <2> HIDE DEF s
  <2>4. /\ Len(sections') = Len(sections)
        /\ \A k \in 1 .. Len(sections) : sections'[k].relas = sections[k].relas
    BY <1>1, <2>1, <2>2, <2>3
  <2> QED BY <1>1, <1>2, <1>3, <2>2, <2>4
<1>7. ASSUME NEW c \in SymbolChoices, AddSymbol(c) PROVE HandlesKnown'
  <2> DEFINE L == Len(symbols)
  <2>1. /\ symbols' = Append(symbols, c) /\ sections' = sections
        /\ c.ref = "SECTION" => c.section \in 0 .. Len(sections) - 1
    BY <1>7 DEF AddSymbol, SectionHandles
  <2>2. /\ Len(symbols') = L + 1 /\ symbols'[L + 1] = c
        /\ \A k \in 1 .. L : symbols'[k] = symbols[k]
    BY <1>1, <2>1
  <2> HIDE DEF L
  <2>3. L \in Nat
    BY <1>1 DEF L
  <2>4. ASSUME NEW k \in 1 .. Len(sections'), NEW j \in DOMAIN sections'[k].relas
        PROVE  sections'[k].relas[j].symbol \in 0 .. Len(symbols') - 1
    <3>1. sections[k].relas[j].symbol \in 0 .. L - 1
      BY <1>2, <2>1, <2>4 DEF L
    <3>2. 0 .. L - 1 \subseteq 0 .. Len(symbols') - 1
      BY <2>2, <2>3
    <3> QED BY <2>1, <3>1, <3>2
  <2>5. ASSUME NEW k \in 1 .. Len(symbols'), symbols'[k].ref = "SECTION"
        PROVE  symbols'[k].section \in 0 .. Len(sections') - 1
    <3>1. CASE k = L + 1
      BY <2>1, <2>2, <2>5, <3>1
    <3>2. CASE k \in 1 .. L
      BY <1>2, <2>1, <2>2, <2>5, <3>2 DEF L
    <3> QED BY <2>2, <2>3, <3>1, <3>2
  <2>6. Len(sections') \in Nat /\ Len(sections') <= MaxSections /\ Len(symbols') \in Nat
    BY <1>1, <2>1, <2>2, <2>3
  <2> QED BY <1>3, <2>2, <2>4, <2>5, <2>6
<1>8. ASSUME NEW h \in SectionHandles, NEW o \in Sites, NEW y \in SymbolHandles, AddRela(h, o, y)
      PROVE  HandlesKnown'
  <2> DEFINE rs == sections[h + 1].relas
             r == [offset |-> o, symbol |-> y]
             qs == Append(rs, r)
             s == [sections[h + 1] EXCEPT !.relas = qs]
             R == Len(rs)
  <2>1. /\ h + 1 \in 1 .. Len(sections) /\ y \in 0 .. Len(symbols) - 1
        /\ sections[h + 1] \in Section /\ rs \in Seq(Rela) /\ r.symbol = y
    <3>1. h + 1 \in 1 .. Len(sections)
      BY <1>1 DEF SectionHandles
    <3>2. y \in 0 .. Len(symbols) - 1
      BY DEF SymbolHandles
    <3>3. sections[h + 1] \in Section
      BY <1>1, <3>1
    <3>4. rs \in Seq(Rela)
      BY <3>3 DEF Section
    <3> QED BY <3>1, <3>2, <3>3, <3>4
  <2>2. sections' = [sections EXCEPT ![h + 1] = s] /\ symbols' = symbols
    BY <1>8 DEF AddRela
  <2> HIDE DEF r
  <2>3. /\ DOMAIN qs = 1 .. R + 1 /\ R \in Nat /\ DOMAIN rs = 1 .. R
        /\ qs[R + 1] = r /\ \A i \in 1 .. R : qs[i] = rs[i]
    BY <2>1
  <2> HIDE DEF qs, rs, R
  <2>4. s.relas = qs
    BY <2>1 DEF Section
  <2> HIDE DEF s
  <2>5. /\ Len(sections') = Len(sections) /\ sections'[h + 1] = s
        /\ \A k \in 1 .. Len(sections) : k # h + 1 => sections'[k] = sections[k]
    BY <1>1, <2>1, <2>2
  <2>6. ASSUME NEW k \in 1 .. Len(sections), NEW j \in DOMAIN sections'[k].relas
        PROVE  sections'[k].relas[j].symbol \in 0 .. Len(symbols) - 1
    <3>1. CASE k # h + 1
      BY <1>2, <2>5, <2>6, <3>1
    <3>2. CASE k = h + 1
      <4>1. sections'[k].relas = qs /\ j \in 1 .. R + 1
        BY <2>3, <2>4, <2>5, <2>6, <3>2
      <4>2. CASE j = R + 1
        BY <2>1, <2>3, <4>1, <4>2
      <4>3. CASE j \in 1 .. R
        <5>1. rs[j].symbol \in 0 .. Len(symbols) - 1
          BY <1>2, <2>1, <2>3, <4>3 DEF rs
        <5> QED BY <2>3, <4>1, <4>3, <5>1
      <4> QED BY <2>3, <4>1, <4>2, <4>3
    <3> QED BY <3>1, <3>2
  <2> QED BY <1>1, <1>2, <1>3, <2>2, <2>5, <2>6
<1>9. ASSUME BuilderStep PROVE HandlesKnown'
  BY <1>5, <1>6, <1>7, <1>8, <1>9 DEF BuilderStep
<1>10. ASSUME UNCHANGED vars PROVE HandlesKnown'
  BY <1>4, <1>10 DEF vars, builderVars
<1> QED BY <1>4, <1>9, <1>10 DEF Next, Build, Finish, Place, Assemble, SerializeFails
\* Whatever is added in whatever order, however often finish is called and
\* wherever it fails, a linker finds in the image each section, symbol and
\* relocation under the name, section and symbol the caller gave it: the
\* serializer implements ObjectFile, as long as the headers fit (elf.h:162).
THEOREM ReadsBackAlways == HeadersFit => (Spec => ImplementsObjectFile)
<1> SUFFICES ASSUME HeadersFit PROVE Spec => Abstract!Spec
  BY DEF ImplementsObjectFile
<1> DEFINE Inv == LayoutInv /\ HandlesKnown
           file == {Read(o) : o \in image}
<1>1. Init => Inv
  BY InitLayout, InitHandles
<1>2. Inv /\ [Next]_vars => Inv'
  <2>1. LayoutInv => BuilderTypeOK
    BY DEF LayoutInv
  <2> QED BY <2>1, NextLayout, NextHandles
<1>3. Init => Abstract!Init
  BY DEF Init, BuilderInit, Abstract!Init, Abstract!BuilderInit
<1>4. Inv /\ [Next]_vars => [Abstract!Next]_<<Abstract!builderVars, file>>
  <2> SUFFICES ASSUME Inv, [Next]_vars PROVE [Abstract!Next]_<<Abstract!builderVars, file>>
    OBVIOUS
  <2>1. ASSUME Build PROVE Abstract!Change
    <3>1. BuilderStep /\ image' = {}
      BY <2>1 DEF Build, Fresh
    <3>2. Abstract!BuilderStep
      BY <3>1 DEF BuilderStep, AddSection, Grow, AddSymbol, AddRela, Effective, SectionHandles,
         SymbolHandles, Abstract!BuilderStep, Abstract!AddSection, Abstract!Grow,
         Abstract!AddSymbol, Abstract!AddRela, Abstract!Effective, Abstract!SectionHandles,
         Abstract!SymbolHandles
    <3> QED BY <3>1, <3>2 DEF Abstract!Change
  <2>2. ASSUME Finish PROVE Abstract!Finish
    BY <2>2 DEF Finish, Fresh, Abstract!Finish, builderVars, Abstract!builderVars
  <2>3. ASSUME Place PROVE UNCHANGED <<Abstract!builderVars, file>>
    BY <2>3 DEF Place, builderVars, Abstract!builderVars
  <2>4. ASSUME Assemble PROVE Abstract!Finish
    <3>1. UNCHANGED builderVars /\ image' = {Object(shdrs, chunks, end)}
      BY <2>4 DEF Assemble
    <3>2. PICK o : o = Object(shdrs, chunks, end)
      OBVIOUS
    <3>3. LayoutInv' /\ HandlesKnown
      BY <1>2
    <3>4. \E at \in Nat : FileOf(o, at)
      <4>1. PICK at \in Nat : FileOf(o, at)'
        BY <3>1, <3>2, <3>3 DEF LayoutInv
      <4>2. FileOf(o, at)
        BY <3>1, <4>1, SameFile
      <4> QED BY <4>2
    <3>5. Read(o) = Abstract!Contents
      BY <3>3, <3>4, ReadsBack DEF LayoutInv
    <3>6. file' = {Read(o)}
      BY <3>1, <3>2
    <3> QED BY <3>1, <3>5, <3>6 DEF Abstract!Finish, builderVars, Abstract!builderVars
  <2>5. ASSUME SerializeFails PROVE UNCHANGED <<Abstract!builderVars, file>>
    BY <2>5 DEF SerializeFails, builderVars, Abstract!builderVars
  <2>6. ASSUME UNCHANGED vars PROVE UNCHANGED <<Abstract!builderVars, file>>
    BY <2>6 DEF vars, builderVars, Abstract!builderVars
  <2> QED BY <2>1, <2>2, <2>3, <2>4, <2>5, <2>6 DEF Next, Abstract!Next
<1>5. Spec => []Inv
  BY <1>1, <1>2, PTL DEF Spec
<1> QED BY <1>3, <1>4, <1>5, PTL DEF Spec, Abstract!Spec
=============================================================================
