------------------------------ MODULE CliProofs ------------------------------
(***************************************************************************)
(* Proofs about the scanner and the command line, for every text, every    *)
(* list of arguments and every outcome of the file system.                 *)
(*                                                                         *)
(*   1. the line index: what LineStarts, the binary search, the text of a  *)
(*      line and the caret under it give, for every offset                 *)
(*   2. lexemes: what the byte scans, the accumulator and the search for   *)
(*      the closing quote give, so that at every place at most one kind of *)
(*      lexeme ends at one offset                                          *)
(*   3. the scanner: each of its cases is one Scan, LexInv is inductive,   *)
(*      and every call is one token of the stream                          *)
(*   4. the decoder of strings: one byte for each byte or escape written   *)
(*   5. the exit code: ResultInv ties what was recorded to the text        *)
(*   6. the arguments: ArgInv ties the argument loop to the whole list     *)
(*   7. the derived path of the output                                     *)
(*                                                                         *)
(* The recursive functions are unfolded with RankedRecursion of NatLemmas. *)
(***************************************************************************)
EXTENDS CliMeaning, NatLemmas, SequenceTheorems

\* What byte stands at an offset: one of the classes, or the end.
LEMMA AtIs ==
  ASSUME text \in Seq(Bytes)
  PROVE  /\ Len(text) \in Nat
         /\ \A o \in Nat : (At(o) = "end") = (o >= Len(text))
         /\ \A o \in Nat : o < Len(text) => At(o) = text[o + 1] /\ At(o) \in Bytes
<1>1. "end" \notin Bytes
  BY DEF Bytes, IdentCont, Letters, Digits, Punctuation, Blanks
<1>2. ASSUME NEW o \in Nat, o < Len(text) PROVE text[o + 1] \in Bytes
  <2>1. o + 1 \in 1 .. Len(text)
    BY <1>2
  <2> QED BY <2>1
<1> QED BY <1>1, <1>2 DEF At, ByteAt

\* The end of a run of bytes exists, ends it, and is the only one.
LEMMA PastIs ==
  ASSUME text \in Seq(Bytes), NEW o \in 0 .. Len(text), NEW S, "end" \notin S
  PROVE  /\ Past(o, S) \in o .. Len(text) /\ At(Past(o, S)) \notin S
         /\ \A j \in o .. Past(o, S) - 1 : At(j) \in S
         /\ \A q \in o .. Len(text) :
              At(q) \notin S /\ (\A j \in o .. q - 1 : At(j) \in S) => q = Past(o, S)
<1> DEFINE End(q) == At(q) \notin S /\ \A j \in o .. q - 1 : At(j) \in S
           T == {q \in Nat : q >= o /\ At(q) \notin S}
<1>1. Len(text) \in Nat /\ At(Len(text)) = "end"
  BY AtIs
<1>2. Len(text) \in T
  BY <1>1
<1>3. PICK q \in T : \A k \in T : q <= k
  <2>1. T \in SUBSET Nat /\ T # {}
    BY <1>2
  <2> HIDE DEF T
  <2> QED BY <2>1, LeastNat
<1>4. q \in o .. Len(text) /\ End(q)
  BY <1>1, <1>2, <1>3
<1>5. Past(o, S) \in o .. Len(text) /\ End(Past(o, S))
  BY <1>4 DEF Past
<1>6. ASSUME NEW p \in o .. Len(text), End(p), NEW r \in o .. Len(text), End(r) PROVE p = r
  <2>1. ~ p < r
    BY <1>1, <1>6
  <2>2. ~ r < p
    BY <1>1, <1>6
  <2> QED BY <1>1, <2>1, <2>2
<1> QED BY <1>5, <1>6

-----------------------------------------------------------------------------
(* Lines and columns. *)

Place == [line : Nat \ {0}, column : Nat \ {0}]

\* Line and column of an offset, byte by byte from the start of the text.
Loc(t, q) ==
  LET loc[o \in 0 .. Len(t)] ==
        IF o = 0 THEN [line |-> 1, column |-> 1] ELSE Step(loc[o - 1], t[o])
  IN loc[q]

\* A step of the counters gives a place.
LEMMA StepType ==
  ASSUME NEW p \in Place, NEW b
  PROVE  Step(p, b) \in Place
BY DEF Step, Place

\* The place of an offset, byte by byte: the recursive definition unfolds.
LEMMA LocIs ==
  ASSUME NEW t \in Seq(Bytes)
  PROVE  /\ Loc(t, 0) = [line |-> 1, column |-> 1]
         /\ \A o \in 1 .. Len(t) : Loc(t, o) = Step(Loc(t, o - 1), t[o])
         /\ \A o \in 0 .. Len(t) : Loc(t, o) \in Place
<1> DEFINE n == Len(t)
           base == [line |-> 1, column |-> 1]
           F == [i \in 1 .. n |-> [x \in Place |-> Step(x, t[i])]]
           Fits(f) == f = [o \in 0 .. n |-> IF o = 0 THEN base ELSE Step(f[o - 1], t[o])]
           w == CHOOSE f : Fits(f)
<1>1. n \in Nat /\ base \in Place
  BY DEF Place
<1>2. \A q : Loc(t, q) = w[q]
  BY DEF Loc
<1> HIDE DEF n, base
<1>3. F \in [1 .. n -> [Place -> Place]] /\ \A i \in 1 .. n, x \in Place : F[i][x] = Step(x, t[i])
  BY StepType
<1> HIDE DEF F
<1>4. PICK g : StepsTo(g, n, Place, base, F)
  BY <1>1, <1>3, StepsExist
<1>5. Fits(g)
  <2>1. g \in [0 .. n -> Place] /\ g[0] = base /\ \A i \in 1 .. n : g[i] = F[i][g[i - 1]]
    BY <1>4 DEF StepsTo
  <2>2. ASSUME NEW i \in 1 .. n PROVE g[i] = Step(g[i - 1], t[i])
    <3>1. i - 1 \in 0 .. n /\ g[i - 1] \in Place
      BY <1>1, <2>1
    <3> QED BY <1>3, <2>1, <3>1
  <2> QED BY <2>1, <2>2
<1>6. Fits(w)
  BY <1>5
<1> HIDE DEF w
<1>7. /\ w = [i \in 0 .. n |-> w[i]] /\ w[0] = base
      /\ \A i \in 1 .. n : w[i] = Step(w[i - 1], t[i])
  <2>1. w = [o \in 0 .. n |-> IF o = 0 THEN base ELSE Step(w[o - 1], t[o])]
    BY <1>6
  <2>2. w = [k \in 0 .. n |-> w[k]]
    BY <2>1
  <2>3. \A k \in 0 .. n : w[k] = IF k = 0 THEN base ELSE Step(w[k - 1], t[k])
    BY <2>1
  <2> QED BY <1>1, <2>2, <2>3
<1>8. \A i \in 1 .. n : w[i - 1] \in Place => w[i] = F[i][w[i - 1]]
  BY <1>3, <1>7
<1>9. StepsTo(w, n, Place, base, F)
  BY <1>1, <1>3, <1>7, <1>8, StepsUnique
<1>10. w \in [0 .. n -> Place]
  BY <1>9 DEF StepsTo
<1> QED BY <1>2, <1>7, <1>10 DEF n, base

\* The counters moved from one offset to a later one are those of the later one.
LEMMA PlaceAtIs ==
  ASSUME text \in Seq(Bytes), pos \in 0 .. Len(text), place = Loc(text, pos),
         NEW q \in pos .. Len(text)
  PROVE  PlaceAt(q) = Loc(text, q)
<1> DEFINE Fits(f) == f = [o \in pos .. q |-> IF o = pos THEN place ELSE Step(f[o - 1], text[o])]
           w == CHOOSE f : Fits(f)
           g == [o \in pos .. q |-> Loc(text, o)]
           S == {m \in Nat : pos + m <= q => w[pos + m] = Loc(text, pos + m)}
<1>1. PlaceAt(q) = w[q]
  BY DEF PlaceAt
<1>2. Len(text) \in Nat /\ pos \in Nat /\ q \in Nat /\ pos <= q
  OBVIOUS
<1>3. \A o \in pos + 1 .. q : Loc(text, o) = Step(Loc(text, o - 1), text[o])
  BY <1>2, LocIs
<1>4. Fits(g)
  <2>1. \A o \in pos .. q : g[o] = IF o = pos THEN place ELSE Step(g[o - 1], text[o])
    BY <1>2, <1>3
  <2> QED BY <2>1
<1>5. Fits(w)
  BY <1>4
<1> HIDE DEF w
<1>6. \A o \in pos .. q : w[o] = IF o = pos THEN place ELSE Step(w[o - 1], text[o])
  BY <1>5
<1>7. 0 \in S
  BY <1>2, <1>6
<1>8. ASSUME NEW m \in Nat, m \in S PROVE m + 1 \in S
  <2> SUFFICES ASSUME pos + (m + 1) <= q PROVE w[pos + (m + 1)] = Loc(text, pos + (m + 1))
    OBVIOUS
  <2>1. w[pos + m] = Loc(text, pos + m)
    BY <1>2, <1>8
  <2>2. pos + (m + 1) \in pos + 1 .. q /\ (pos + (m + 1)) - 1 = pos + m
    BY <1>2
  <2>3. w[pos + (m + 1)] = Step(w[pos + m], text[pos + (m + 1)])
    BY <1>2, <1>6, <2>2
  <2> QED BY <1>3, <2>1, <2>2, <2>3
<1>9. q - pos \in S
  <2> HIDE DEF S
  <2> QED BY <1>2, <1>7, <1>8, NatSetInduction
<1> QED BY <1>1, <1>2, <1>9

\* L lists the line starts of the first m bytes of t: offset 0 and the offsets
\* behind a newline, in order, and the start of the line of each offset is where
\* the counters say.
StartsOf(L, t, m) ==
  /\ L \in Seq(0 .. m) /\ Len(L) = Loc(t, m).line /\ L[1] = 0
  /\ \A j, k \in 1 .. Len(L) : j < k => L[j] < L[k]
  /\ \A k \in 2 .. Len(L) : L[k] \in 1 .. m /\ t[L[k]] = "nl"
  /\ \A j \in 1 .. m : t[j] = "nl" => \E k \in 2 .. Len(L) : L[k] = j
  /\ \A o \in 0 .. m :
       /\ Loc(t, o).line \in 1 .. Len(L)
       /\ L[Loc(t, o).line] = o - Loc(t, o).column + 1
       /\ L[Loc(t, o).line] <= o
       /\ \A k \in Loc(t, o).line + 1 .. Len(L) : L[k] > o

\* One byte more.
LEMMA StartsStep ==
  ASSUME NEW t \in Seq(Bytes), NEW m \in 0 .. Len(t) - 1, NEW L, StartsOf(L, t, m)
  PROVE  StartsOf(IF t[m + 1] = "nl" THEN Append(L, m + 1) ELSE L, t, m + 1)
<1> DEFINE N == Append(L, m + 1)
<1>1. /\ m \in Nat /\ Len(t) \in Nat /\ m + 1 \in 1 .. Len(t) /\ (m + 1) - 1 = m
      /\ L \in Seq(0 .. m) /\ Len(L) \in Nat
  BY DEF StartsOf
<1>2. /\ \A o \in 0 .. m + 1 : Loc(t, o) \in Place
      /\ Loc(t, m + 1) = Step(Loc(t, m), t[m + 1])
  BY <1>1, LocIs
<1>3. /\ Len(L) = Loc(t, m).line /\ L[1] = 0
      /\ \A j, k \in 1 .. Len(L) : j < k => L[j] < L[k]
      /\ \A k \in 1 .. Len(L) : L[k] \in 0 .. m
      /\ \A k \in 2 .. Len(L) : L[k] \in 1 .. m /\ t[L[k]] = "nl"
      /\ \A j \in 1 .. m : t[j] = "nl" => \E k \in 2 .. Len(L) : L[k] = j
      /\ \A o \in 0 .. m :
           /\ Loc(t, o).line \in 1 .. Len(L)
           /\ L[Loc(t, o).line] = o - Loc(t, o).column + 1
           /\ L[Loc(t, o).line] <= o
           /\ \A k \in Loc(t, o).line + 1 .. Len(L) : L[k] > o
  BY <1>1 DEF StartsOf
<1>4. /\ Loc(t, m).line \in Nat \ {0} /\ Loc(t, m).column \in Nat \ {0}
      /\ \A o \in 0 .. m + 1 : Loc(t, o).line \in Nat \ {0} /\ Loc(t, o).column \in Nat \ {0}
  BY <1>1, <1>2 DEF Place
<1>5. CASE t[m + 1] = "nl"
  <2>1. Loc(t, m + 1).line = Len(L) + 1 /\ Loc(t, m + 1).column = 1
    BY <1>2, <1>3, <1>5 DEF Step
  <2>2. /\ N \in Seq(0 .. m + 1) /\ Len(N) = Len(L) + 1 /\ N[Len(L) + 1] = m + 1
        /\ \A k \in 1 .. Len(L) : N[k] = L[k]
    <3>1. L \in Seq(0 .. m + 1)
      BY <1>1, <1>3
    <3> QED BY <1>1, <3>1
  <2> HIDE DEF N
  <2>3. Len(N) = Loc(t, m + 1).line /\ N[1] = 0
    BY <1>3, <1>4, <2>1, <2>2
  <2>4. \A j, k \in 1 .. Len(N) : j < k => N[j] < N[k]
    <3> TAKE j, k \in 1 .. Len(N)
    <3> HAVE j < k
    <3> DEFINE l == Len(L)
    <3>0. l \in Nat /\ Len(N) = l + 1 /\ j \in 1 .. l + 1 /\ k \in 1 .. l + 1
      BY <1>1, <2>2
    <3> HIDE DEF l
    <3>4. j \in 1 .. l
      BY <3>0
    <3>1. j \in 1 .. Len(L) /\ N[j] = L[j] /\ L[j] \in 0 .. m
      BY <1>3, <2>2, <3>4 DEF l
    <3>5. k # l + 1 => k \in 1 .. l
      BY <3>0
    <3>2. CASE k = Len(L) + 1
      BY <1>1, <2>2, <3>1, <3>2
    <3>3. CASE k # Len(L) + 1
      <4>1. k \in 1 .. Len(L) /\ N[k] = L[k]
        BY <2>2, <3>3, <3>5 DEF l
      <4> QED BY <1>3, <3>1, <4>1
    <3> QED BY <3>2, <3>3
  <2>5. \A k \in 2 .. Len(N) : N[k] \in 1 .. m + 1 /\ t[N[k]] = "nl"
    <3> TAKE k \in 2 .. Len(N)
    <3>1. CASE k = Len(L) + 1
      BY <1>1, <1>5, <2>2, <3>1
    <3>2. CASE k # Len(L) + 1
      <4>1. k \in 2 .. Len(L) /\ N[k] = L[k]
        BY <1>1, <2>2, <3>2
      <4> QED BY <1>1, <1>3, <4>1
    <3> QED BY <3>1, <3>2
  <2>6. \A j \in 1 .. m + 1 : t[j] = "nl" => \E k \in 2 .. Len(N) : N[k] = j
    <3> TAKE j \in 1 .. m + 1
    <3> HAVE t[j] = "nl"
    <3>1. CASE j = m + 1
      <4>1. Len(L) + 1 \in 2 .. Len(N)
        <5>1. Len(L) \in Nat /\ Len(L) # 0 /\ Len(N) = Len(L) + 1
          BY <1>1, <1>3, <1>4, <2>2
        <5>2. \A n \in Nat : n # 0 => n + 1 \in 2 .. n + 1
          OBVIOUS
        <5> QED BY <5>1, <5>2
      <4> QED BY <2>2, <3>1, <4>1
    <3>2. CASE j # m + 1
      <4>1. PICK k \in 2 .. Len(L) : L[k] = j
        BY <1>1, <1>3, <3>2
      <4> QED BY <1>1, <2>2, <4>1
    <3> QED BY <3>1, <3>2
  <2>7. ASSUME NEW o \in 0 .. m + 1
        PROVE  /\ Loc(t, o).line \in 1 .. Len(N)
               /\ N[Loc(t, o).line] = o - Loc(t, o).column + 1
               /\ N[Loc(t, o).line] <= o
               /\ \A k \in Loc(t, o).line + 1 .. Len(N) : N[k] > o
    <3>1. CASE o = m + 1
      BY <1>1, <1>4, <2>1, <2>2, <3>1
    <3>2. CASE o # m + 1
      <4>1. o \in 0 .. m
        BY <1>1, <3>2
      <4>2. /\ Loc(t, o).line \in 1 .. Len(L)
            /\ L[Loc(t, o).line] = o - Loc(t, o).column + 1
            /\ L[Loc(t, o).line] <= o
            /\ \A k \in Loc(t, o).line + 1 .. Len(L) : L[k] > o
        BY <1>3, <4>1
      <4>3. N[Loc(t, o).line] = L[Loc(t, o).line]
        BY <2>2, <4>2
      <4>4. ASSUME NEW k \in Loc(t, o).line + 1 .. Len(N) PROVE N[k] > o
        <5>1. CASE k = Len(L) + 1
          BY <1>1, <2>2, <4>1, <5>1
        <5>2. CASE k # Len(L) + 1
          <6>1. k \in Loc(t, o).line + 1 .. Len(L) /\ k \in 1 .. Len(L)
            <7>1. Len(L) \in Nat /\ Len(N) = Len(L) + 1 /\ Loc(t, o).line \in Nat
              BY <1>1, <2>2, <4>2
            <7>2. \A n, l \in Nat : \A x \in l + 1 .. n + 1 :
                    x # n + 1 => x \in l + 1 .. n /\ x \in 1 .. n
              OBVIOUS
            <7> QED BY <5>2, <7>1, <7>2
          <6> QED BY <2>2, <4>2, <6>1
        <5> QED BY <5>1, <5>2
      <4>5. Loc(t, o).line \in 1 .. Len(N)
        BY <1>1, <2>2, <4>2
      <4> QED BY <4>2, <4>3, <4>4, <4>5
    <3> QED BY <3>1, <3>2
  <2>8. StartsOf(N, t, m + 1)
    BY <2>2, <2>3, <2>4, <2>5, <2>6, <2>7 DEF StartsOf
  <2> QED BY <1>5, <2>8 DEF N
<1>6. CASE t[m + 1] # "nl"
  <2>1. Loc(t, m + 1).line = Len(L) /\ Loc(t, m + 1).column = Loc(t, m).column + 1
    BY <1>2, <1>3, <1>6 DEF Step
  <2>2. L \in Seq(0 .. m + 1)
    BY <1>1, <1>3
  <2>3. \A k \in 2 .. Len(L) : L[k] \in 1 .. m + 1 /\ t[L[k]] = "nl"
    BY <1>1, <1>3
  <2>4. \A j \in 1 .. m + 1 : t[j] = "nl" => \E k \in 2 .. Len(L) : L[k] = j
    <3> TAKE j \in 1 .. m + 1
    <3> HAVE t[j] = "nl"
    <3>1. j \in 1 .. m
      BY <1>1, <1>6
    <3> QED BY <1>3, <3>1
  <2>5. ASSUME NEW o \in 0 .. m + 1
        PROVE  /\ Loc(t, o).line \in 1 .. Len(L)
               /\ L[Loc(t, o).line] = o - Loc(t, o).column + 1
               /\ L[Loc(t, o).line] <= o
               /\ \A k \in Loc(t, o).line + 1 .. Len(L) : L[k] > o
    <3>1. CASE o = m + 1
      <4>1. m \in 0 .. m
        BY <1>1
      <4>2. L[Loc(t, m).line] = m - Loc(t, m).column + 1 /\ Loc(t, m).line = Len(L)
        BY <1>3, <4>1
      <4>3. Loc(t, o).line = Len(L) /\ Loc(t, o).column = Loc(t, m).column + 1
        BY <2>1, <3>1
      <4>4. L[Loc(t, o).line] = o - Loc(t, o).column + 1 /\ L[Loc(t, o).line] <= o
        <5> DEFINE c == Loc(t, m).column
        <5>1. c \in Nat \ {0} /\ L[Loc(t, o).line] = m - c + 1 /\ Loc(t, o).column = c + 1
          BY <1>4, <4>2, <4>3
        <5> HIDE DEF c
        <5> QED BY <1>1, <3>1, <5>1
      <4>5. Loc(t, o).line \in 1 .. Len(L)
        BY <1>3, <1>4, <4>1, <4>3
      <4>6. \A k \in Loc(t, o).line + 1 .. Len(L) : FALSE
        BY <1>1, <4>3
      <4> QED BY <4>4, <4>5, <4>6
    <3>2. CASE o # m + 1
      BY <1>1, <1>3, <3>2
    <3> QED BY <3>1, <3>2
  <2>6. StartsOf(L, t, m + 1)
    BY <1>3, <2>1, <2>2, <2>3, <2>4, <2>5 DEF StartsOf
  <2> QED BY <1>6, <2>6
<1> QED BY <1>5, <1>6

\* build_line_starts: the line index holds exactly the starts of the lines.
LEMMA LineStartsAre ==
  ASSUME NEW t \in Seq(Bytes)
  PROVE  StartsOf(LineStarts(t), t, Len(t))
<1> DEFINE n == Len(t)
           X == Seq(Nat)
           Add(i, x) == IF t[i] = "nl" THEN Append(x, i) ELSE x
           F == [i \in 1 .. n |-> [x \in X |-> Add(i, x)]]
           Fits(f) == f = [o \in 0 .. n |-> IF o = 0 THEN <<0>> ELSE Add(o, f[o - 1])]
           w == CHOOSE f : Fits(f)
           S == {m \in Nat : m <= n => StartsOf(w[m], t, m)}
<1>1. n \in Nat /\ <<0>> \in X
  OBVIOUS
<1>2. LineStarts(t) = w[n]
  BY DEF LineStarts
<1>3. F \in [1 .. n -> [X -> X]] /\ \A i \in 1 .. n, x \in X : F[i][x] = Add(i, x)
  <2>1. \A i \in 1 .. n, x \in X : Add(i, x) \in X
    BY <1>1
  <2> HIDE DEF X, Add
  <2> QED BY <2>1
<1> HIDE DEF F, n, X, Add
<1>4. PICK g : StepsTo(g, n, X, <<0>>, F)
  BY <1>1, <1>3, StepsExist
<1>5. Fits(g)
  <2>1. g \in [0 .. n -> X] /\ g[0] = <<0>> /\ \A i \in 1 .. n : g[i] = F[i][g[i - 1]]
    BY <1>4 DEF StepsTo
  <2>2. ASSUME NEW i \in 1 .. n PROVE g[i] = Add(i, g[i - 1])
    <3>1. i - 1 \in 0 .. n /\ g[i - 1] \in X
      BY <1>1, <2>1
    <3> QED BY <1>3, <2>1, <3>1
  <2>3. g = [o \in 0 .. n |-> g[o]] /\ \A o \in 0 .. n : o # 0 => o \in 1 .. n
    BY <1>1, <2>1
  <2>4. \A o \in 0 .. n : g[o] = IF o = 0 THEN <<0>> ELSE Add(o, g[o - 1])
    BY <2>1, <2>2, <2>3
  <2> QED BY <2>3, <2>4
<1>6. Fits(w)
  BY <1>5
<1> HIDE DEF w
<1>7. w[0] = <<0>> /\ \A i \in 1 .. n : w[i] = Add(i, w[i - 1])
  <2>1. \A k \in 0 .. n : w[k] = IF k = 0 THEN <<0>> ELSE Add(k, w[k - 1])
    BY <1>6
  <2> QED BY <1>1, <2>1
<1>8. 0 \in S
  <2>1. Loc(t, 0) = [line |-> 1, column |-> 1]
    BY LocIs
  <2>2. <<0>> \in Seq(0 .. 0) /\ Len(<<0>>) = 1 /\ <<0>>[1] = 0
    OBVIOUS
  <2>3. StartsOf(<<0>>, t, 0)
    BY <2>1, <2>2 DEF StartsOf
  <2> QED BY <1>7, <2>3
<1>9. ASSUME NEW m \in Nat, m \in S PROVE m + 1 \in S
  <2> SUFFICES ASSUME m + 1 <= n PROVE StartsOf(w[m + 1], t, m + 1)
    OBVIOUS
  <2>1. m \in 0 .. Len(t) - 1 /\ StartsOf(w[m], t, m) /\ m + 1 \in 1 .. n /\ (m + 1) - 1 = m
    BY <1>1, <1>9 DEF n
  <2>2. StartsOf(IF t[m + 1] = "nl" THEN Append(w[m], m + 1) ELSE w[m], t, m + 1)
    BY <2>1, StartsStep
  <2> QED BY <1>7, <2>1, <2>2 DEF Add
<1>10. n \in S
  <2> HIDE DEF S
  <2> QED BY <1>1, <1>8, <1>9, NatSetInduction
<1> QED BY <1>1, <1>2, <1>10 DEF n

\* The binary search of the line index finds how many starts do not lie behind
\* the offset.
LEMMA UpperBoundIs ==
  ASSUME NEW s \in Seq(Nat), NEW off \in Nat, NEW u \in 0 .. Len(s),
         \A k \in 1 .. u : s[k] <= off, \A k \in u + 1 .. Len(s) : s[k] > off
  PROVE  UpperBound(s, off) = u
<1> DEFINE n == Len(s)
           X == 0 .. n
           I == X \X X
           mid(i) == i[1] + (i[2] - i[1]) \div 2
           Val(f, i) == IF i[1] >= i[2] THEN i[1]
                        ELSE IF s[mid(i) + 1] <= off THEN f[<<mid(i) + 1, i[2]>>]
                             ELSE f[<<i[1], mid(i)>>]
           Fits(f) == f = [i \in I |-> Val(f, i)]
           w == CHOOSE f : Fits(f)
           rank == [i \in I |-> IF i[1] >= i[2] THEN 0 ELSE i[2] - i[1]]
           F == [i \in I |-> [f \in [I -> X] |-> Val(f, i)]]
<1>1. n \in Nat /\ 0 \in 0 .. n
  OBVIOUS
<1>2. UpperBound(s, off) = w[<<0, n>>]
  BY DEF UpperBound
<1>3. ASSUME NEW i \in I
      PROVE  /\ i[1] \in 0 .. n /\ i[2] \in 0 .. n
             /\ i[1] < i[2] => /\ mid(i) \in i[1] .. i[2] - 1
                               /\ <<mid(i) + 1, i[2]>> \in I /\ <<i[1], mid(i)>> \in I
                               /\ rank[<<mid(i) + 1, i[2]>>] < rank[i]
                               /\ rank[<<i[1], mid(i)>>] < rank[i]
  <2>1. i[1] \in 0 .. n /\ i[2] \in 0 .. n
    OBVIOUS
  <2>2. ASSUME i[1] < i[2] PROVE mid(i) \in i[1] .. i[2] - 1
    <3> DEFINE a == i[1]
               b == i[2]
    <3>1. a \in Nat /\ b \in Nat /\ a < b
      BY <1>1, <2>1, <2>2
    <3> HIDE DEF a, b
    <3>2. (b - a) \div 2 \in 0 .. b - a - 1
      BY <3>1
    <3>3. a + (b - a) \div 2 \in a .. b - 1
      BY <3>1, <3>2
    <3> QED BY <3>3 DEF a, b
  <2> HIDE DEF mid
  <2>3. ASSUME i[1] < i[2] PROVE <<mid(i) + 1, i[2]>> \in I /\ <<i[1], mid(i)>> \in I
    BY <1>1, <2>1, <2>2, <2>3
  <2> QED BY <1>1, <2>1, <2>2, <2>3
<1>4. rank \in [I -> X]
  BY <1>1, <1>3
<1>17. \A i \in I : i[1] \in X /\ i[2] \in X /\ rank[i] \in X
  BY <1>3, <1>4
<1>18. \A i \in X : i \in Nat /\ i <= n
  BY <1>1
<1> HIDE DEF I, n, mid, rank, X
<1>5. \A i \in I, f \in [I -> X] : Val(f, i) \in X
  BY <1>3, <1>17, <1>18
<1>6. ASSUME NEW i \in I, NEW f \in [I -> X], NEW h \in [I -> X],
             \A j \in I : rank[j] < rank[i] => f[j] = h[j]
      PROVE  Val(f, i) = Val(h, i)
  BY <1>3, <1>6, <1>17, <1>18
<1> HIDE DEF Val
<1>7. F \in [I -> [[I -> X] -> X]] /\ \A i \in I, f \in [I -> X] : F[i][f] = Val(f, i)
  BY <1>5
<1> HIDE DEF F
<1>8. PICK g : Solves(g, F, I, X)
  <2>1. \A i \in I : \A f, h \in [I -> X] :
          (\A j \in I : rank[j] < rank[i] => f[j] = h[j]) => F[i][f] = F[i][h]
    <3> TAKE i \in I
    <3> TAKE f, h \in [I -> X]
    <3> HAVE \A j \in I : rank[j] < rank[i] => f[j] = h[j]
    <3>1. Val(f, i) = Val(h, i)
      BY <1>6
    <3> QED BY <1>7, <3>1
  <2>2. X # {} /\ rank \in [I -> 0 .. n]
    BY <1>1, <1>4 DEF X
  <2>3. LooksBelow(F, I, X, rank)
    BY <1>7, <2>1 DEF LooksBelow
  <2> QED BY <1>1, <2>2, <2>3, RankedRecursion
<1>9. Fits(g)
  BY <1>7, <1>8 DEF Solves
<1>10. Fits(w)
  BY <1>9
<1> HIDE DEF w
<1>11. \A i \in I : w[i] = Val(w, i)
  BY <1>10
<1> DEFINE S == {m \in Nat : \A i \in I : rank[i] <= m /\ i[1] <= u /\ u <= i[2] => w[i] = u}
<1>12. ASSUME NEW m \in Nat, NEW i \in I, rank[i] <= m, i[1] <= u, u <= i[2], m = 0 \/ m - 1 \in S
       PROVE  w[i] = u
  <2>1. i[1] \in Nat /\ i[2] \in Nat /\ i[2] <= n /\ u \in Nat /\ u <= n /\ n = Len(s)
    BY <1>1, <1>17, <1>18 DEF n
  <2>4. w[i] = Val(w, i)
    BY <1>11
  <2>2. CASE i[1] = i[2]
    <3>1. w[i] = i[1]
      BY <2>1, <2>2, <2>4 DEF Val
    <3> QED BY <1>12, <2>1, <2>2, <3>1
  <2>3. CASE i[1] < i[2]
    <3>1. /\ mid(i) \in i[1] .. i[2] - 1
          /\ <<mid(i) + 1, i[2]>> \in I /\ <<i[1], mid(i)>> \in I
          /\ rank[<<mid(i) + 1, i[2]>>] < rank[i] /\ rank[<<i[1], mid(i)>>] < rank[i]
          /\ mid(i) \in Nat /\ <<mid(i) + 1, i[2]>>[1] = mid(i) + 1 /\ <<i[1], mid(i)>>[2] = mid(i)
          /\ <<mid(i) + 1, i[2]>>[2] = i[2] /\ <<i[1], mid(i)>>[1] = i[1]
      BY <1>3, <2>1, <2>3
    <3>2. rank[i] \in Nat /\ rank[<<mid(i) + 1, i[2]>>] \in Nat /\ rank[<<i[1], mid(i)>>] \in Nat
      BY <1>17, <1>18, <3>1
    <3>3. m - 1 \in S /\ m - 1 \in Nat
      BY <1>12, <3>1, <3>2
    <3>6. mid(i) + 1 \in 1 .. Len(s) /\ s[mid(i) + 1] \in Nat
      BY <2>1, <3>1
    <3>7. \A j \in I : rank[j] < rank[i] /\ rank[j] \in Nat /\ j[1] <= u /\ u <= j[2] => w[j] = u
      <4>1. \A j \in I : rank[j] <= m - 1 /\ j[1] <= u /\ u <= j[2] => w[j] = u
        BY <3>3
      <4>2. \A k \in Nat : k < rank[i] => k <= m - 1
        BY <1>12, <3>2
      <4> QED BY <4>1, <4>2
    <3>4. CASE s[mid(i) + 1] <= off
      <4>1. mid(i) + 1 <= u
        <5> SUFFICES ASSUME mid(i) + 1 > u PROVE FALSE
          BY <2>1, <3>1
        <5> DEFINE k == mid(i) + 1
        <5>1. k \in Nat /\ k > u /\ k <= Len(s) /\ s[k] <= off /\ s[k] \in Nat
          BY <2>1, <3>1, <3>4, <3>6
        <5> HIDE DEF k
        <5>2. k \in u + 1 .. Len(s)
          BY <2>1, <5>1
        <5> QED BY <5>1, <5>2
      <4>2. w[<<mid(i) + 1, i[2]>>] = u
        BY <1>12, <2>1, <3>1, <3>2, <3>7, <4>1
      <4> QED BY <2>1, <2>3, <2>4, <3>4, <4>2 DEF Val
    <3>5. CASE ~ s[mid(i) + 1] <= off
      <4>1. u <= mid(i)
        BY <2>1, <3>1, <3>5, <3>6
      <4>2. w[<<i[1], mid(i)>>] = u
        BY <1>12, <2>1, <3>1, <3>2, <3>7, <4>1
      <4> QED BY <2>1, <2>3, <2>4, <3>5, <4>2 DEF Val
    <3> QED BY <3>4, <3>5
  <2> QED BY <1>12, <2>1, <2>2, <2>3
<1>13. 0 \in S
  BY <1>12
<1>14. ASSUME NEW m \in Nat, m \in S PROVE m + 1 \in S
  <2>1. (m + 1) - 1 = m /\ m + 1 \in Nat
    OBVIOUS
  <2> QED BY <1>12, <1>14, <2>1
<1>15. n \in S
  <2> HIDE DEF S
  <2> QED BY <1>1, <1>13, <1>14, NatSetInduction
<1>16. <<0, n>> \in I /\ rank[<<0, n>>] <= n /\ u \in 0 .. n
  <2>1. <<0, n>> \in I
    BY <1>1 DEF I, X
  <2> QED BY <1>17, <1>18, <2>1 DEF n
<1> QED BY <1>2, <1>15, <1>16

\* qas_source_location finds the place the scanner's counters have.
LEMMA LocationIs ==
  ASSUME NEW t \in Seq(Bytes), NEW o \in 0 .. Len(t)
  PROVE  Location(t, o) = Loc(t, o)
<1> DEFINE L == LineStarts(t)
           u == Loc(t, o).line
<1>1. StartsOf(L, t, Len(t))
  BY LineStartsAre
<1> HIDE DEF L
<1>2. Len(t) \in Nat /\ L \in Seq(Nat) /\ Len(L) \in Nat /\ Loc(t, o) \in Place
  BY <1>1, LocIs DEF StartsOf
<1>3. /\ u \in 1 .. Len(L) /\ L[u] = o - Loc(t, o).column + 1 /\ L[u] <= o
      /\ \A k \in u + 1 .. Len(L) : L[k] > o
      /\ \A j, k \in 1 .. Len(L) : j < k => L[j] < L[k]
  BY <1>1 DEF StartsOf
<1> HIDE DEF u
<1>4. \A k \in 1 .. u : L[k] <= o
  <2> TAKE k \in 1 .. u
  <2>1. k \in 1 .. Len(L) /\ L[k] \in Nat /\ L[u] \in Nat /\ (k = u \/ k < u)
    BY <1>2, <1>3
  <2> QED BY <1>3, <2>1
<1>5. UpperBound(L, o) = u
  <2>1. u \in 0 .. Len(L) /\ o \in Nat
    BY <1>2, <1>3
  <2> QED BY <1>2, <1>3, <1>4, <2>1, UpperBoundIs
<1>6. Location(t, o) = [line |-> UpperBound(L, o), column |-> o - L[UpperBound(L, o)] + 1]
  <2>1. ~ o > Len(t)
    BY <1>2
  <2> QED BY <2>1 DEF Location, L
<1>7. o - L[u] + 1 = Loc(t, o).column
  BY <1>2, <1>3 DEF Place
<1> QED BY <1>2, <1>5, <1>6, <1>7 DEF Place, u

Breaks == {"nl", "cr"}

\* qas_source_line_text cuts the line breaks off and nothing else.
LEMMA LineTextIs ==
  ASSUME NEW t \in Seq(Bytes), NEW line \in 1 .. Len(LineStarts(t)),
         NEW behind, behind = IF line < Len(LineStarts(t)) THEN LineStarts(t)[line + 1] ELSE Len(t)
  PROVE  LET from == LineStarts(t)[line]
             end  == LineText(t, line).end
         IN /\ LineText(t, line).from = from /\ behind \in Nat /\ from \in 0 .. behind
            /\ end \in from .. behind
            /\ \A e \in end + 1 .. behind : t[e] \in Breaks
            /\ end = from \/ t[end] \notin Breaks
<1> DEFINE L == LineStarts(t)
           a == L[line]
           I == a .. behind
           n == behind - a
           Val(f, e) == IF e > a /\ t[e] \in Breaks THEN f[e - 1] ELSE e
           Fits(f) == f = [e \in I |-> Val(f, e)]
           w == CHOOSE f : Fits(f)
           rank == [e \in I |-> e - a]
           F == [e \in I |-> [f \in [I -> I] |-> Val(f, e)]]
<1>1. StartsOf(L, t, Len(t))
  BY LineStartsAre
<1>2. LineText(t, line) = [from |-> a, end |-> w[behind]]
  BY DEF LineText, Breaks
<1> HIDE DEF L, w
<1>3. a \in Nat /\ behind \in Nat /\ a <= behind /\ n \in Nat
  <2>1. L \in Seq(0 .. Len(t)) /\ Len(L) \in Nat /\ Len(t) \in Nat
    BY <1>1 DEF StartsOf
  <2>2. L[line] \in 0 .. Len(t)
    BY <2>1 DEF L
  <2>3. CASE line < Len(L)
    <3>1. line + 1 \in 1 .. Len(L) /\ line \in 1 .. Len(L)
      BY <2>1, <2>3
    <3>2. L[line + 1] \in 0 .. Len(t) /\ L[line] < L[line + 1]
      BY <1>1, <2>1, <3>1 DEF StartsOf
    <3>3. behind = L[line + 1]
      BY <2>3 DEF L
    <3> QED BY <2>2, <3>2, <3>3
  <2>4. CASE ~ line < Len(L)
    <3>1. behind = Len(t)
      BY <2>4 DEF L
    <3> QED BY <2>1, <2>2, <3>1
  <2> QED BY <2>3, <2>4
<1> HIDE DEF a
<1>4. \A e \in I : e \in Nat /\ a <= e /\ e <= behind /\ (e > a => e - 1 \in I)
  BY <1>3
<1>5. rank \in [I -> 0 .. n] /\ \A e \in I : rank[e] = e - a
  BY <1>3
<1>6. I # {} /\ behind \in I
  BY <1>3
<1> HIDE DEF I, n, rank
<1>7. \A e \in I, f \in [I -> I] : Val(f, e) \in I
  BY <1>4
<1>8. ASSUME NEW e \in I, NEW f \in [I -> I], NEW h \in [I -> I],
             \A j \in I : rank[j] < rank[e] => f[j] = h[j]
      PROVE  Val(f, e) = Val(h, e)
  <2>1. e > a => rank[e - 1] < rank[e]
    BY <1>3, <1>4, <1>5
  <2> QED BY <1>4, <1>8, <2>1
<1> HIDE DEF Val
<1>9. F \in [I -> [[I -> I] -> I]] /\ \A e \in I, f \in [I -> I] : F[e][f] = Val(f, e)
  BY <1>7
<1> HIDE DEF F
<1>10. PICK g : Solves(g, F, I, I)
  <2>1. ASSUME NEW e \in I, NEW f \in [I -> I], NEW h \in [I -> I],
               \A j \in I : rank[j] < rank[e] => f[j] = h[j]
        PROVE  F[e][f] = F[e][h]
    <3>1. Val(f, e) = Val(h, e)
      BY <1>8, <2>1
    <3> QED BY <1>9, <3>1
  <2>2. LooksBelow(F, I, I, rank)
    BY <1>9, <2>1 DEF LooksBelow
  <2> QED BY <1>3, <1>5, <1>6, <2>2, RankedRecursion
<1>11. Fits(w)
  <2>1. Fits(g)
    BY <1>9, <1>10 DEF Solves
  <2> QED BY <2>1 DEF w
<1>12. \A e \in I : w[e] = Val(w, e)
  BY <1>11
<1> DEFINE Cut(e) == /\ w[e] \in a .. e /\ \A j \in w[e] + 1 .. e : t[j] \in Breaks
                     /\ w[e] = a \/ t[w[e]] \notin Breaks
           S == {m \in Nat : a + m <= behind => Cut(a + m)}
<1>13. 0 \in S
  <2>1. a \in I /\ a + 0 = a
    BY <1>3 DEF I
  <2>2. w[a] = Val(w, a)
    BY <1>12, <2>1
  <2>3. w[a] = a
    BY <1>3, <2>2 DEF Val
  <2> QED BY <1>3, <2>1, <2>3
<1>14. ASSUME NEW m \in Nat, m \in S PROVE m + 1 \in S
  <2> DEFINE e == a + (m + 1)
  <2> SUFFICES ASSUME e <= behind PROVE Cut(e)
    OBVIOUS
  <2>1. e \in I /\ e - 1 = a + m /\ e > a /\ Cut(e - 1) /\ e \in Nat
    BY <1>3, <1>14 DEF I
  <2>2. w[e] = Val(w, e)
    BY <1>12, <2>1
  <2> HIDE DEF e
  <2>3. CASE t[e] \in Breaks
    <3>1. w[e] = w[e - 1]
      BY <2>1, <2>2, <2>3 DEF Val
    <3>2. w[e - 1] \in a .. e - 1 /\ \A j \in w[e - 1] + 1 .. e - 1 : t[j] \in Breaks
      BY <2>1
    <3>3. ASSUME NEW j \in w[e] + 1 .. e PROVE t[j] \in Breaks
      <4>1. j = e \/ j \in w[e - 1] + 1 .. e - 1
        BY <1>3, <2>1, <3>1, <3>2
      <4> QED BY <2>3, <3>2, <4>1
    <3> QED BY <1>3, <2>1, <3>1, <3>2, <3>3
  <2>4. CASE t[e] \notin Breaks
    <3>1. w[e] = e
      BY <2>1, <2>2, <2>4 DEF Val
    <3> QED BY <1>3, <2>1, <2>4, <3>1
  <2> QED BY <2>3, <2>4
<1>15. n \in S
  <2> HIDE DEF S
  <2> QED BY <1>3, <1>13, <1>14, NatSetInduction
<1>16. Cut(behind)
  <2>1. a + n = behind /\ a + n <= behind
    BY <1>3 DEF n
  <2> HIDE DEF n
  <2>2. Cut(a + n)
    BY <1>15, <2>1
  <2> QED BY <2>1, <2>2
<1> QED BY <1>2, <1>3, <1>16 DEF a, L

\* The line under a diagnostic marks its span as far as the line shows it.
LEMMA MarksAre ==
  ASSUME NEW t \in Seq(Bytes), NEW off \in 0 .. Len(t) - 1, NEW len \in Nat \ {0},
         t[off + 1] \notin Breaks
  PROVE  LET line == LineText(t, Location(t, off).line)
         IN Marks(t, off, len) = (off .. off + len - 1) \cap (line.from .. line.end - 1)
<1> DEFINE L == LineStarts(t)
           u == Loc(t, off).line
           c == Loc(t, off).column
           behind == IF u < Len(L) THEN L[u + 1] ELSE Len(t)
           from == L[u]
           end == LineText(t, u).end
           width == end - from
           caret == IF c - 1 < width THEN c - 1 ELSE width
           remaining == IF len > 1 THEN len - 1 ELSE 0
           available == IF c < width THEN width - c ELSE 0
           under == IF remaining > available THEN available ELSE remaining
<1>1. off \in 0 .. Len(t) /\ Len(t) \in Nat /\ off \in Nat /\ off < Len(t)
  OBVIOUS
<1>2. Location(t, off) = Loc(t, off) /\ Loc(t, off) \in Place
  BY <1>1, LocationIs, LocIs
<1>3. StartsOf(L, t, Len(t))
  BY LineStartsAre
<1>4. u \in 1 .. Len(L) /\ from = off - c + 1 /\ from <= off /\ \A k \in u + 1 .. Len(L) : L[k] > off
  BY <1>1, <1>3 DEF StartsOf
<1>5. /\ LineText(t, u).from = from /\ behind \in Nat /\ from \in 0 .. behind
      /\ end \in from .. behind
      /\ \A e \in end + 1 .. behind : t[e] \in Breaks
  <2>1. u \in 1 .. Len(LineStarts(t))
    BY <1>4
  <2> HIDE DEF u
  <2> QED BY <2>1, LineTextIs
<1>6. c \in Nat \ {0} /\ u \in Nat \ {0} /\ Len(L) \in Nat
  BY <1>2, <1>3 DEF Place, StartsOf
<1>7. off < behind
  <2>1. CASE u < Len(L)
    <3>1. u + 1 \in u + 1 .. Len(L)
      BY <1>6, <2>1
    <3> QED BY <1>4, <2>1, <3>1
  <2>2. CASE ~ u < Len(L)
    BY <1>1, <2>2
  <2> QED BY <2>1, <2>2
<1>8. Marks(t, off, len) = from + caret .. from + caret + under
  <2>1. Marks(t, off, len) =
          LET line == LineText(t, u)
              wid  == line.end - line.from
              car  == IF c - 1 < wid THEN c - 1 ELSE wid
              av   == IF c < wid THEN wid - c ELSE 0
              un   == IF remaining > av THEN av ELSE remaining
          IN line.from + car .. line.from + car + un
    BY <1>2 DEF Marks
  <2> QED BY <1>5, <2>1
<1> HIDE DEF L, u, c, behind, from, end
<1>9. off < end
  <2> SUFFICES ASSUME ~ off < end PROVE FALSE
    OBVIOUS
  <2>1. off + 1 \in end + 1 .. behind
    BY <1>1, <1>5, <1>7
  <2> QED BY <1>5, <2>1
<1>10. /\ end \in Nat /\ from \in Nat /\ caret = off - from /\ from + caret = off
       /\ remaining = len - 1 /\ available = end - off - 1
  BY <1>1, <1>4, <1>5, <1>6, <1>9
<1>11. Marks(t, off, len) = off .. off + under
  BY <1>8, <1>10
<1>12. under = IF len - 1 > end - off - 1 THEN end - off - 1 ELSE len - 1
  BY <1>10
<1>13. off .. off + under = (off .. off + len - 1) \cap (from .. end - 1)
  <2> HIDE DEF under
  <2>1. under \in Nat /\ off + under <= off + len - 1 /\ off + under <= end - 1
    BY <1>1, <1>9, <1>10, <1>12
  <2>2. off + under = off + len - 1 \/ off + under = end - 1
    BY <1>1, <1>9, <1>10, <1>12
  <2>3. from <= off
    BY <1>4
  <2>4. ASSUME NEW x \in Int
        PROVE  x \in off .. off + under <=> x \in off .. off + len - 1 /\ x \in from .. end - 1
    BY <1>1, <1>10, <2>1, <2>2, <2>3
  <2> QED BY <2>4
<1> QED BY <1>2, <1>5, <1>11, <1>13 DEF u, end, from, L

\* A property of all bytes of a span.
LEMMA SpanIs ==
  ASSUME text \in Seq(Bytes), NEW a \in Nat, NEW b \in 0 .. Len(text), NEW S
  PROVE  /\ Span(a, b) \subseteq S <=> \A j \in a .. b - 1 : At(j) \in S
         /\ \A x : x \notin Span(a, b) <=> \A j \in a .. b - 1 : At(j) # x
<1>1. \A o \in Nat : o < Len(text) => At(o) = text[o + 1]
  BY AtIs
<1>2. Len(text) \in Nat
  BY AtIs
<1>3. \A j \in a .. b - 1 : At(j) = text[j + 1]
  BY <1>1, <1>2
<1> QED BY <1>3 DEF Span

\* A line does not end where no newline stands.
LEMMA LineSame ==
  ASSUME text \in Seq(Bytes), NEW o \in 0 .. Len(text), NEW q \in o .. Len(text),
         \A j \in o .. q - 1 : At(j) # "nl"
  PROVE  Loc(text, q).line = Loc(text, o).line
<1> DEFINE S == {m \in Nat : o + m <= q => Loc(text, o + m).line = Loc(text, o).line}
<1>1. Len(text) \in Nat /\ o \in Nat /\ q \in Nat /\ o <= q /\ q <= Len(text)
  BY AtIs
<1>2. 0 \in S
  BY <1>1
<1>3. ASSUME NEW m \in Nat, m \in S PROVE m + 1 \in S
  <2> DEFINE p == o + (m + 1)
  <2> SUFFICES ASSUME p <= q PROVE Loc(text, p).line = Loc(text, o).line
    OBVIOUS
  <2>1. p \in 1 .. Len(text) /\ p - 1 = o + m /\ p - 1 \in o .. q - 1 /\ p - 1 \in Nat
    BY <1>1
  <2>2. Loc(text, p - 1).line = Loc(text, o).line
    BY <1>1, <1>3, <2>1
  <2> HIDE DEF p
  <2>3. text[p] # "nl"
    <3>1. At(p - 1) = text[p - 1 + 1] /\ p - 1 + 1 = p
      BY <1>1, <2>1, AtIs
    <3> QED BY <2>1, <3>1
  <2>4. Loc(text, p) = Step(Loc(text, p - 1), text[p])
    BY <2>1, LocIs
  <2> QED BY <2>2, <2>3, <2>4 DEF Step
<1>4. q - o \in S
  <2> HIDE DEF S
  <2> QED BY <1>1, <1>2, <1>3, NatSetInduction
<1> QED BY <1>1, <1>4

\* Behind a newline the next line starts.
LEMMA LineNext ==
  ASSUME text \in Seq(Bytes), NEW o \in 0 .. Len(text) - 1, At(o) = "nl"
  PROVE  Loc(text, o + 1).line = Loc(text, o).line + 1
<1>1. o \in Nat /\ o < Len(text) /\ o + 1 \in 1 .. Len(text) /\ (o + 1) - 1 = o
  BY AtIs
<1>2. text[o + 1] = "nl"
  BY <1>1, AtIs
<1>3. Loc(text, o + 1) = Step(Loc(text, o), text[o + 1])
  BY <1>1, LocIs
<1> QED BY <1>2, <1>3 DEF Step

-----------------------------------------------------------------------------
(* Where a token starts. *)

Room == text \in Seq(Bytes) /\ pos \in 0 .. Len(text)

\* Only blanks and a whole comment are skipped, and nowhere else does a token start.
LEMMA StartIs ==
  ASSUME Room
  PROVE  /\ Start \in pos .. Len(text) /\ At(Start) \notin Blanks \cup {"semicolon"}
         /\ \A j \in pos .. Start - 1 : At(j) # "nl"
         /\ IsGap(pos, Start)
         /\ \A e \in pos .. Len(text) :
              IsGap(pos, e) /\ At(e) \notin Blanks \cup {"semicolon"} => e = Start
<1> DEFINE q == Past(pos, Blanks)
           u == Until(q, {"nl"})
<1>1. Len(text) \in Nat /\ text \in Seq(Bytes) /\ pos \in 0 .. Len(text) /\ pos \in Nat
  BY AtIs DEF Room
<1>2. "end" \notin Blanks /\ "nl" \notin Blanks /\ "semicolon" \notin Blanks
  BY DEF Blanks
<1>3. /\ q \in pos .. Len(text) /\ At(q) \notin Blanks
      /\ \A j \in pos .. q - 1 : At(j) \in Blanks
      /\ \A p \in pos .. Len(text) :
           At(p) \notin Blanks /\ (\A j \in pos .. p - 1 : At(j) \in Blanks) => p = q
  BY <1>1, <1>2, PastIs
<1> HIDE DEF q
<1>4. q \in Nat /\ q \in 0 .. Len(text) /\ pos <= q /\ q <= Len(text)
  BY <1>1, <1>3
<1>5. /\ u \in q .. Len(text) /\ At(u) \in {"nl", "end"}
      /\ \A j \in q .. u - 1 : At(j) # "nl"
      /\ \A p \in q .. Len(text) :
           At(p) \in {"nl", "end"} /\ (\A j \in q .. p - 1 : At(j) \notin {"nl", "end"}) => p = u
  <2> DEFINE S == Bytes \ {"nl"}
  <2>1. "end" \notin S
    BY DEF Bytes, IdentCont, Letters, Digits, Punctuation, Blanks
  <2>2. \A o \in Nat : At(o) \in S <=> At(o) \notin {"nl", "end"}
    <3> TAKE o \in Nat
    <3>1. At(o) \in Bytes \/ At(o) = "end"
      BY <1>1, AtIs
    <3> QED BY <2>1, <3>1
  <2> HIDE DEF S
  <2>3. u = Past(q, S)
    BY DEF Until, S
  <2>4. /\ u \in q .. Len(text) /\ At(u) \notin S
        /\ \A j \in q .. u - 1 : At(j) \in S
        /\ \A p \in q .. Len(text) : At(p) \notin S /\ (\A j \in q .. p - 1 : At(j) \in S) => p = u
    BY <1>1, <1>4, <2>1, <2>3, PastIs
  <2> HIDE DEF u
  <2>5. u \in Nat /\ At(u) \in {"nl", "end"} /\ \A j \in q .. u - 1 : At(j) # "nl"
    BY <1>4, <2>2, <2>4
  <2>6. ASSUME NEW p \in q .. Len(text), At(p) \in {"nl", "end"},
               \A j \in q .. p - 1 : At(j) \notin {"nl", "end"}
        PROVE  p = u
    <3>1. p \in Nat /\ \A j \in q .. p - 1 : j \in Nat
      BY <1>4
    <3>2. At(p) \notin S /\ \A j \in q .. p - 1 : At(j) \in S
      BY <2>2, <2>6, <3>1
    <3> QED BY <2>4, <3>2
  <2> QED BY <2>4, <2>5, <2>6
<1>6. Start = IF At(q) = "semicolon" THEN u ELSE q
  BY DEF Start, q
<1> HIDE DEF u
<1>12. u \in Nat /\ q <= u /\ u <= Len(text)
  BY <1>1, <1>4, <1>5
<1>7. Start \in pos .. Len(text) /\ Start \in Nat /\ q <= Start
  BY <1>1, <1>4, <1>6, <1>12
<1>8. At(Start) \notin Blanks \cup {"semicolon"}
  BY <1>3, <1>5, <1>6 DEF Blanks
<1>9. \A j \in pos .. Start - 1 : At(j) # "nl"
  <2> TAKE j \in pos .. Start - 1
  <2>1. j \in pos .. q - 1 \/ j \in q .. Start - 1
    BY <1>1, <1>4, <1>7
  <2>2. j \in q .. Start - 1 => Start = u
    BY <1>4, <1>6, <1>7
  <2> QED BY <1>2, <1>3, <1>5, <2>1, <2>2
<1>10. IsGap(pos, Start)
  <2>1. q \in pos .. Start
    BY <1>1, <1>4, <1>7
  <2>2. Span(pos, q) \subseteq Blanks
    BY <1>1, <1>3, <1>4, SpanIs
  <2>3. q < Start => Start = u /\ At(q) = "semicolon"
    BY <1>4, <1>6, <1>7
  <2>4. q < Start => "nl" \notin Span(q, Start)
    <3>1. Start \in 0 .. Len(text)
      BY <1>1, <1>7
    <3> QED BY <1>1, <1>4, <1>5, <2>3, <3>1, SpanIs
  <2> QED BY <1>5, <2>1, <2>2, <2>3, <2>4 DEF IsGap
<1>11. ASSUME NEW e \in pos .. Len(text), IsGap(pos, e), At(e) \notin Blanks \cup {"semicolon"}
       PROVE  e = Start
  <2>1. PICK p \in pos .. e :
          /\ Span(pos, p) \subseteq Blanks
          /\ p < e => /\ At(p) = "semicolon" /\ "nl" \notin Span(p, e) /\ At(e) \in {"nl", "end"}
    BY <1>11 DEF IsGap
  <2>2. p \in pos .. Len(text) /\ p \in 0 .. Len(text) /\ p \in Nat /\ e \in Nat /\ e \in 0 .. Len(text)
        /\ p <= e
    <3>1. e \in Nat /\ pos <= e /\ e <= Len(text)
      BY <1>1
    <3>2. p \in Nat /\ pos <= p /\ p <= e
      BY <1>1, <2>1, <3>1
    <3> QED BY <1>1, <3>1, <3>2
  <2>3. \A j \in pos .. p - 1 : At(j) \in Blanks
    BY <1>1, <2>1, <2>2, SpanIs
  <2>4. At(p) \notin Blanks
    BY <1>2, <1>11, <2>1, <2>2 DEF Blanks
  <2>5. p = q
    BY <1>3, <2>2, <2>3, <2>4
  <2>6. CASE p = e
    BY <1>6, <1>11, <2>5, <2>6
  <2>7. CASE p < e
    <3>1. \A j \in p .. e - 1 : At(j) # "nl"
      BY <1>1, <2>1, <2>2, <2>7, SpanIs
    <3>2. \A j \in p .. e - 1 : At(j) # "end"
      <4> TAKE j \in p .. e - 1
      <4>1. j \in Nat /\ j < Len(text)
        BY <1>1, <2>2
      <4> QED BY <1>1, <4>1, AtIs
    <3>3. e = u
      <4>1. e \in q .. Len(text)
        BY <1>1, <2>2, <2>5
      <4> QED BY <1>5, <2>1, <2>5, <2>7, <3>1, <3>2, <4>1
    <3> QED BY <1>6, <2>1, <2>5, <2>7, <3>3
  <2> QED BY <2>2, <2>6, <2>7
<1> QED BY <1>7, <1>8, <1>9, <1>10, <1>11

-----------------------------------------------------------------------------
(* Lexemes. *)

\* A word runs to the end of its letters and digits.
LEMMA WordIs ==
  ASSUME text \in Seq(Bytes), NEW s \in 0 .. Len(text), At(s) \in Letters
  PROVE  LET e == Past(s, IdentCont)
         IN /\ e \in s + 1 .. Len(text) /\ IsWord(s, e)
            /\ \A j \in s .. e - 1 : At(j) \in IdentCont
            /\ \A q \in s .. Len(text) : IsWord(s, q) => q = e
<1> DEFINE e == Past(s, IdentCont)
<1>1. "end" \notin IdentCont /\ At(s) \in IdentCont
  BY DEF IdentCont, Letters, Digits
<1>2. Len(text) \in Nat /\ s \in Nat
  BY AtIs
<1>3. /\ e \in s .. Len(text) /\ At(e) \notin IdentCont
      /\ \A j \in s .. e - 1 : At(j) \in IdentCont
      /\ \A q \in s .. Len(text) :
           At(q) \notin IdentCont /\ (\A j \in s .. q - 1 : At(j) \in IdentCont) => q = e
  BY <1>1, PastIs
<1> HIDE DEF e
<1>4. e \in s + 1 .. Len(text)
  BY <1>1, <1>2, <1>3
<1>5. IsWord(s, e)
  <2>1. e \in 0 .. Len(text) /\ s < e
    BY <1>2, <1>4
  <2>2. Span(s, e) \subseteq IdentCont
    BY <1>2, <1>3, <2>1, SpanIs
  <2> QED BY <1>3, <2>1, <2>2 DEF IsWord
<1>6. ASSUME NEW q \in s .. Len(text), IsWord(s, q) PROVE q = e
  <2>1. q \in 0 .. Len(text)
    BY <1>2
  <2>2. \A j \in s .. q - 1 : At(j) \in IdentCont
    BY <1>2, <1>6, <2>1, SpanIs DEF IsWord
  <2> QED BY <1>3, <1>6, <2>2 DEF IsWord
<1> QED BY <1>3, <1>4, <1>5, <1>6 DEF e

-----------------------------------------------------------------------------
(* Numbers. *)

Bases == {2, 8, 10, 16}

\* The digits of each base and what they weigh.
LEMMA WeightIs ==
  /\ Weight \in [IdentCont -> Nat]
  /\ DigitsOf(10) = {"0", "1", "9"} /\ DigitsOf(16) = {"0", "1", "9", "b"}
  /\ DigitsOf(8) = {"0", "1"} /\ DigitsOf(2) = {"0", "1"}
<1>1. /\ Weight["0"] = 0 /\ Weight["1"] = 1 /\ Weight["9"] = 9 /\ Weight["b"] = 11
      /\ Weight["g"] = 16 /\ Weight["o"] = 24 /\ Weight["x"] = 33
      /\ IdentCont = {"0", "1", "9", "b", "g", "o", "x"}
      /\ Weight = [c \in IdentCont |-> Weight[c]]
  BY DEF Weight, IdentCont, Letters, Digits
<1>2. Weight \in [IdentCont -> Nat]
  BY <1>1
<1>3. \A b : DigitsOf(b) = {c \in {"0", "1", "9", "b", "g", "o", "x"} : Weight[c] < b}
  BY <1>1 DEF DigitsOf
<1>4. DigitsOf(10) = {"0", "1", "9"}
  BY <1>1, <1>3
<1>5. DigitsOf(16) = {"0", "1", "9", "b"}
  BY <1>1, <1>3
<1>6. DigitsOf(8) = {"0", "1"}
  BY <1>1, <1>3
<1>7. DigitsOf(2) = {"0", "1"}
  BY <1>1, <1>3
<1> QED BY <1>2, <1>4, <1>5, <1>6, <1>7

\* The base of a literal is what its prefix says.
LEMMA BaseIs ==
  ASSUME text \in Seq(Bytes), NEW s \in 0 .. Len(text) - 1
  PROVE  /\ Base(s) \in Bases
         /\ At(s) = "0" => PrefixBase(s) \in {0, 2, 8, 16}
         /\ Base(s) = 10 <=> ~ (At(s) = "0" /\ PrefixBase(s) # 0)
         /\ Base(s) # 10 => /\ At(s) = "0" /\ Base(s) = PrefixBase(s)
                            /\ At(s + 1) \in {"x", "b", "o"} /\ s + 2 <= Len(text)
         /\ DigitStart(s) = IF Base(s) = 10 THEN s ELSE s + 2
<1>1. Len(text) \in Nat /\ s \in Nat
  BY AtIs
<1>2. At(s + 1) \in {"x", "b", "o"} => s + 2 <= Len(text)
  BY <1>1, AtIs
<1> QED BY <1>1, <1>2 DEF Base, PrefixBase, DigitStart, Bases

\* The digits of a literal end where its run ends, and there is no other way to
\* read it.
LEMMA NumberIs ==
  ASSUME text \in Seq(Bytes), NEW s \in 0 .. Len(text) - 1, At(s) \in Digits
  PROVE  LET base == Base(s)
             from == DigitStart(s)
             end  == Past(from, DigitsOf(base))
             good == end # from /\ At(end) \notin IdentCont
         IN /\ from \in s .. Len(text) /\ end \in from .. Len(text) /\ end > s
            /\ \A j \in s .. end - 1 : At(j) \in IdentCont
            /\ \A j \in from .. end - 1 : At(j) \in DigitsOf(base)
            /\ good => <<from, base>> \in Readings(s) /\ IsNumber(s, end, <<from, base>>)
            /\ \A r \in Readings(s), q \in s .. Len(text) :
                 IsNumber(s, q, r) => good /\ q = end /\ r = <<from, base>>
<1> DEFINE base == Base(s)
           from == DigitStart(s)
           end == Past(from, DigitsOf(base))
           good == end # from /\ At(end) \notin IdentCont
<1>1. Len(text) \in Nat /\ s \in Nat /\ s < Len(text)
  BY AtIs
<1>2. /\ base \in Bases
      /\ At(s) = "0" => PrefixBase(s) \in {0, 2, 8, 16}
      /\ base = 10 <=> ~ (At(s) = "0" /\ PrefixBase(s) # 0)
      /\ base # 10 => /\ At(s) = "0" /\ base = PrefixBase(s)
                      /\ At(s + 1) \in {"x", "b", "o"} /\ s + 2 <= Len(text)
      /\ from = IF base = 10 THEN s ELSE s + 2
  BY BaseIs
<1>3. /\ DigitsOf(10) = {"0", "1", "9"}
      /\ DigitsOf(base) \subseteq IdentCont /\ "end" \notin DigitsOf(base)
      /\ {"x", "b", "o"} \subseteq IdentCont /\ Digits \subseteq IdentCont
  <2>1. base = 2 \/ base = 8 \/ base = 10 \/ base = 16
    BY <1>2 DEF Bases
  <2>2. DigitsOf(base) \in {{"0", "1"}, {"0", "1", "9"}, {"0", "1", "9", "b"}}
    BY <2>1, WeightIs
  <2> QED BY <2>2, WeightIs DEF IdentCont, Letters, Digits
<1> HIDE DEF base
<1>4. from \in s .. Len(text) /\ from \in Nat /\ from \in 0 .. Len(text)
  BY <1>1, <1>2
<1> HIDE DEF from
<1>5. /\ end \in from .. Len(text) /\ At(end) \notin DigitsOf(base)
      /\ \A j \in from .. end - 1 : At(j) \in DigitsOf(base)
      /\ \A q \in from .. Len(text) :
           At(q) \notin DigitsOf(base) /\ (\A j \in from .. q - 1 : At(j) \in DigitsOf(base))
           => q = end
  BY <1>3, <1>4, PastIs
<1> HIDE DEF end
<1>6. end \in Nat /\ from <= end /\ end <= Len(text)
  BY <1>4, <1>5
<1>7. end > s
  <2>1. CASE base = 10
    <3>1. At(s) \in DigitsOf(base) /\ from = s
      BY <1>2, <1>3, <2>1 DEF Digits
    <3> QED BY <1>1, <1>5, <1>6, <3>1
  <2>2. CASE base # 10
    BY <1>1, <1>2, <1>6, <2>2
  <2> QED BY <2>1, <2>2
<1>8. ASSUME NEW j \in s .. end - 1 PROVE At(j) \in IdentCont
  <2>1. CASE j >= from
    BY <1>1, <1>3, <1>5, <1>6, <2>1
  <2>2. CASE j < from
    <3>1. j = s \/ (j = s + 1 /\ base # 10)
      BY <1>1, <1>2, <1>4, <1>6, <2>2
    <3> QED BY <1>2, <1>3, <3>1
  <2> QED BY <1>1, <1>4, <1>6, <2>1, <2>2
<1>9. ASSUME NEW a \in Nat, NEW b \in Bases, NEW q \in 0 .. Len(text)
      PROVE  IsNumber(s, q, <<a, b>>) <=>
               /\ a < q /\ At(q) \notin IdentCont
               /\ \A j \in a .. q - 1 : At(j) \in DigitsOf(b)
  <2>1. Span(a, q) \subseteq DigitsOf(b) <=> \A j \in a .. q - 1 : At(j) \in DigitsOf(b)
    BY SpanIs
  <2>2. <<a, b>>[1] = a /\ <<a, b>>[2] = b
    OBVIOUS
  <2>3. DigitsOf(b) = {c \in IdentCont : Weight[c] < <<a, b>>[2]}
    BY <2>2 DEF DigitsOf
  <2> QED BY <2>1, <2>2, <2>3 DEF IsNumber
<1>10. /\ \A r \in Readings(s) :
            \/ r = <<s, 10>>
            \/ r = <<s + 2, PrefixBase(s)>> /\ At(s) = "0" /\ PrefixBase(s) # 0
       /\ <<from, base>> \in Readings(s)
  <2> DEFINE ten == <<s, 10>>
             two == <<s + 2, PrefixBase(s)>>
             prefixed == At(s) = "0" /\ PrefixBase(s) # 0
  <2>1. Readings(s) = {ten} \cup (IF prefixed THEN {two} ELSE {})
    BY DEF Readings
  <2>2. base = 10 => <<from, base>> = ten
    BY <1>2
  <2>3. base # 10 => <<from, base>> = two /\ prefixed
    BY <1>2
  <2> HIDE DEF ten, two, prefixed
  <2>4. \A r \in Readings(s) : r = ten \/ (r = two /\ prefixed)
    <3>1. CASE prefixed
      <4>1. Readings(s) = {ten} \cup {two}
        BY <2>1, <3>1
      <4> QED BY <3>1, <4>1
    <3>2. CASE ~ prefixed
      <4>1. Readings(s) = {ten} \cup {}
        BY <2>1, <3>2
      <4> QED BY <4>1
    <3> QED BY <3>1, <3>2
  <2>5. <<from, base>> \in Readings(s)
    BY <2>1, <2>2, <2>3
  <2> QED BY <2>4, <2>5 DEF ten, two, prefixed
<1>11. good => IsNumber(s, end, <<from, base>>)
  <2>1. end \in 0 .. Len(text)
    BY <1>6
  <2> QED BY <1>2, <1>4, <1>5, <1>6, <1>9, <2>1
<1>12. ASSUME NEW r \in Readings(s), NEW q \in s .. Len(text), IsNumber(s, q, r)
       PROVE  good /\ q = end /\ r = <<from, base>>
  <2>1. q \in 0 .. Len(text) /\ q \in Nat /\ s <= q /\ q <= Len(text)
    BY <1>1
  <2>2. r = <<from, base>>
    <3> SUFFICES ASSUME r # <<from, base>> PROVE FALSE
      OBVIOUS
    <3>1. r = <<s, 10>> /\ base # 10
      BY <1>2, <1>10
    <3>2. s < q /\ At(q) \notin IdentCont /\ \A j \in s .. q - 1 : At(j) \in DigitsOf(10)
      BY <1>1, <1>9, <1>12, <2>1, <3>1 DEF Bases
    <3>3. At(s + 1) \in {"x", "b", "o"}
      BY <1>2, <3>1
    <3>4. q # s + 1
      BY <1>3, <3>2, <3>3
    <3>5. s + 1 \in s .. q - 1
      BY <1>1, <2>1, <3>2, <3>4
    <3>6. At(s + 1) \in {"0", "1", "9"}
      BY <1>3, <3>2, <3>5
    <3> QED BY <3>3, <3>6
  <2>3. from < q /\ At(q) \notin IdentCont /\ \A j \in from .. q - 1 : At(j) \in DigitsOf(base)
    BY <1>2, <1>4, <1>9, <1>12, <2>1, <2>2
  <2>4. q \in from .. Len(text) /\ At(q) \notin DigitsOf(base)
    BY <1>3, <1>4, <2>1, <2>3
  <2>5. q = end
    BY <1>5, <2>3, <2>4
  <2> QED BY <1>4, <2>1, <2>2, <2>3, <2>5
<1> QED BY <1>4, <1>5, <1>7, <1>8, <1>10, <1>11, <1>12 DEF base, from, end

-----------------------------------------------------------------------------
(* Values of literals. *)

Spelt(from, end, base) ==
  /\ text \in Seq(Bytes) /\ base \in Bases /\ from \in 0 .. end /\ end \in 0 .. Len(text)
  /\ \A j \in from .. end - 1 : At(j) \in DigitsOf(base)

\* A number below the base stands at each offset.
LEMMA DigitIs ==
  ASSUME NEW from, NEW end, NEW base, Spelt(from, end, base)
  PROVE  /\ from \in Nat /\ end \in Nat /\ from <= end /\ base \in Nat /\ base > 1
         /\ \A o \in from + 1 .. end : Weight[text[o]] \in 0 .. base - 1
<1>1. from \in Nat /\ end \in Nat /\ from <= end /\ end <= Len(text) /\ Len(text) \in Nat
      /\ base \in Bases
  BY AtIs DEF Spelt
<1>2. ASSUME NEW o \in from + 1 .. end PROVE Weight[text[o]] \in 0 .. base - 1
  <2>1. o - 1 \in from .. end - 1 /\ o - 1 \in Nat /\ o - 1 < Len(text) /\ o - 1 + 1 = o
    BY <1>1
  <2>2. At(o - 1) \in DigitsOf(base) /\ At(o - 1) = text[o]
    BY <2>1, AtIs DEF Spelt
  <2>3. Weight[text[o]] \in Nat /\ Weight[text[o]] < base
    BY <2>2, WeightIs DEF DigitsOf
  <2> QED BY <1>1, <2>3 DEF Bases
<1> QED BY <1>1, <1>2 DEF Bases

\* The test for overflow is exact.
LEMMA OverflowTest ==
  ASSUME NEW v \in Nat, NEW base \in Bases, NEW d \in 0 .. base - 1
  PROVE  v > (UMax - d) \div base <=> v * base + d > UMax
<1>1. UMax \in Nat /\ UMax > 15
  BY LexerAssumption
<1>2. CASE base = 2
  BY <1>1, <1>2
<1>3. CASE base = 8
  BY <1>1, <1>3
<1>4. CASE base = 10
  BY <1>1, <1>4
<1>5. CASE base = 16
  BY <1>1, <1>5
<1> QED BY <1>2, <1>3, <1>4, <1>5 DEF Bases

\* h gives the number the digits before each offset spell, read from the left.
Horner(h, from, end, base) ==
  /\ h \in [from .. end -> Nat] /\ h[from] = 0
  /\ \A o \in from + 1 .. end : h[o] = h[o - 1] * base + Weight[text[o]]

\* Digits read from the left spell a number.
LEMMA HornerExists ==
  ASSUME NEW from, NEW end, NEW base, Spelt(from, end, base)
  PROVE  \E h : Horner(h, from, end, base)
<1> DEFINE I == from .. end
           n == end - from
           Val(f, o) == IF o = from THEN 0 ELSE f[o - 1] * base + Weight[text[o]]
           rank == [o \in I |-> o - from]
           F == [o \in I |-> [f \in [I -> Nat] |-> Val(f, o)]]
<1>1. /\ from \in Nat /\ end \in Nat /\ from <= end /\ base \in Nat
      /\ \A o \in from + 1 .. end : Weight[text[o]] \in Nat
  <2>1. /\ from \in Nat /\ end \in Nat /\ from <= end /\ base \in Nat
        /\ \A o \in from + 1 .. end : Weight[text[o]] \in 0 .. base - 1
    BY DigitIs
  <2> QED BY <2>1
<1>2. /\ \A o \in I : o # from => o \in from + 1 .. end /\ o - 1 \in I /\ rank[o - 1] < rank[o]
      /\ rank \in [I -> 0 .. n] /\ n \in Nat /\ I # {} /\ from \in I
      /\ \A o \in from + 1 .. end : o \in I /\ o # from
  <2>1. /\ \A o \in I : o - from \in 0 .. n /\ o - 1 - from < o - from
        /\ \A o \in I : o # from => o \in from + 1 .. end /\ o - 1 \in I
        /\ n \in Nat /\ from \in I
        /\ \A o \in from + 1 .. end : o \in I /\ o # from
    BY <1>1
  <2> HIDE DEF I, n
  <2>2. rank \in [I -> 0 .. n] /\ \A o \in I : rank[o] = o - from
    BY <2>1
  <2> HIDE DEF rank
  <2>3. \A o \in I : o # from => rank[o - 1] < rank[o]
    BY <2>1, <2>2
  <2> QED BY <2>1, <2>2, <2>3
<1> HIDE DEF I, n, rank
<1>3. ASSUME NEW o \in I, NEW f \in [I -> Nat] PROVE Val(f, o) \in Nat
  <2>1. CASE o = from
    BY <2>1
  <2>2. CASE o # from
    <3>1. f[o - 1] \in Nat /\ Weight[text[o]] \in Nat
      BY <1>1, <1>2, <2>2
    <3> QED BY <1>1, <2>2, <3>1
  <2> QED BY <2>1, <2>2
<1>4. ASSUME NEW o \in I, NEW f \in [I -> Nat], NEW h \in [I -> Nat],
             \A j \in I : rank[j] < rank[o] => f[j] = h[j]
      PROVE  Val(f, o) = Val(h, o)
  BY <1>2, <1>4
<1> HIDE DEF Val
<1>5. F \in [I -> [[I -> Nat] -> Nat]] /\ \A o \in I, f \in [I -> Nat] : F[o][f] = Val(f, o)
  BY <1>3
<1> HIDE DEF F
<1>6. PICK g : Solves(g, F, I, Nat)
  <2>1. ASSUME NEW o \in I, NEW f \in [I -> Nat], NEW h \in [I -> Nat],
               \A j \in I : rank[j] < rank[o] => f[j] = h[j]
        PROVE  F[o][f] = F[o][h]
    <3>1. Val(f, o) = Val(h, o)
      BY <1>4, <2>1
    <3> QED BY <1>5, <3>1
  <2>2. LooksBelow(F, I, Nat, rank)
    BY <1>5, <2>1 DEF LooksBelow
  <2>3. Nat # {}
    OBVIOUS
  <2> QED BY <1>2, <2>2, <2>3, RankedRecursion
<1>7. g \in [I -> Nat] /\ \A o \in I : g[o] = Val(g, o)
  BY <1>5, <1>6 DEF Solves
<1>8. g[from] = 0 /\ \A o \in from + 1 .. end : g[o] = g[o - 1] * base + Weight[text[o]]
  BY <1>2, <1>7 DEF Val
<1> QED BY <1>7, <1>8 DEF Horner, I

\* A number read from the left never shrinks.
LEMMA HornerGrows ==
  ASSUME NEW a \in Nat, NEW base \in Nat, base > 1, NEW d \in Nat
  PROVE  a * base + d >= a
<1>1. a * (base - 1) >= 0
  OBVIOUS
<1>2. a * base = a * (base - 1) + a
  OBVIOUS
<1> QED BY <1>1, <1>2

\* Read from the right, the number is the same.
LEMMA ValueIs ==
  ASSUME NEW from, NEW end, NEW base, Spelt(from, end, base),
         NEW h, Horner(h, from, end, base)
  PROVE  Value(end, <<from, base>>) = h[end]
<1> DEFINE I == from .. end
           X == [sum : Nat, unit : Nat]
           n == end - from
           zero == [sum |-> 0, unit |-> 1]
           Next1(b, o) == [sum |-> b.sum + Weight[text[o + 1]] * b.unit, unit |-> base * b.unit]
           Val(f, o) == IF o = end THEN zero ELSE Next1(f[o + 1], o)
           Fits(f) == f = [o \in I |-> Val(f, o)]
           w == CHOOSE f : Fits(f)
           rank == [o \in I |-> end - o]
           F == [o \in I |-> [f \in [I -> X] |-> Val(f, o)]]
<1>1. /\ from \in Nat /\ end \in Nat /\ from <= end /\ base \in Nat
      /\ \A o \in from + 1 .. end : Weight[text[o]] \in Nat
  <2>1. /\ from \in Nat /\ end \in Nat /\ from <= end /\ base \in Nat
        /\ \A o \in from + 1 .. end : Weight[text[o]] \in 0 .. base - 1
    BY DigitIs
  <2> QED BY <2>1
<1>2. /\ h \in [I -> Nat] /\ h[from] = 0
      /\ \A o \in from + 1 .. end : h[o] = h[o - 1] * base + Weight[text[o]]
  BY DEF Horner
<1>3. Value(end, <<from, base>>) = w[from].sum
  <2>1. <<from, base>>[1] = from /\ <<from, base>>[2] = base
    OBVIOUS
  <2> QED BY <2>1 DEF Value
<1>4. /\ \A o \in I : o # end => o \in from .. end - 1 /\ o + 1 \in I /\ o + 1 \in from + 1 .. end
                                 /\ rank[o + 1] < rank[o]
      /\ rank \in [I -> 0 .. n] /\ n \in Nat /\ I # {} /\ from \in I /\ end \in I
  <2>1. /\ \A o \in I : end - o \in 0 .. n /\ end - (o + 1) < end - o
        /\ \A o \in I : o # end => o \in from .. end - 1 /\ o + 1 \in I /\ o + 1 \in from + 1 .. end
        /\ n \in Nat /\ from \in I /\ end \in I
    BY <1>1
  <2> HIDE DEF I, n
  <2>2. rank \in [I -> 0 .. n] /\ \A o \in I : rank[o] = end - o
    BY <2>1
  <2> HIDE DEF rank
  <2>3. \A o \in I : o # end => rank[o + 1] < rank[o]
    BY <2>1, <2>2
  <2> QED BY <2>1, <2>2, <2>3
<1>5. zero \in X /\ \A b \in X, o \in from .. end - 1 : Next1(b, o) \in X
  <2>1. \A o \in from .. end - 1 : Weight[text[o + 1]] \in Nat
    BY <1>1
  <2> QED BY <1>1, <2>1
<1> HIDE DEF I, n, rank, w, X, Next1, zero
<1>6. \A o \in I, f \in [I -> X] : Val(f, o) \in X
  BY <1>4, <1>5
<1>7. ASSUME NEW o \in I, NEW f \in [I -> X], NEW g \in [I -> X],
             \A j \in I : rank[j] < rank[o] => f[j] = g[j]
      PROVE  Val(f, o) = Val(g, o)
  BY <1>4, <1>7
<1> HIDE DEF Val
<1>8. F \in [I -> [[I -> X] -> X]] /\ \A o \in I, f \in [I -> X] : F[o][f] = Val(f, o)
  BY <1>6
<1> HIDE DEF F
<1>9. PICK g : Solves(g, F, I, X)
  <2>1. ASSUME NEW o \in I, NEW f \in [I -> X], NEW k \in [I -> X],
               \A j \in I : rank[j] < rank[o] => f[j] = k[j]
        PROVE  F[o][f] = F[o][k]
    <3>1. Val(f, o) = Val(k, o)
      BY <1>7, <2>1
    <3> QED BY <1>8, <3>1
  <2>2. LooksBelow(F, I, X, rank)
    BY <1>8, <2>1 DEF LooksBelow
  <2>3. X # {}
    BY <1>5
  <2> QED BY <1>4, <2>2, <2>3, RankedRecursion
<1>10. Fits(w)
  <2>1. Fits(g)
    BY <1>8, <1>9 DEF Solves
  <2> QED BY <2>1 DEF w, Val, Next1, zero, I
<1>11. \A o \in I : w[o] = Val(w, o)
  BY <1>10
<1> DEFINE Good(o) == w[o] \in X /\ h[end] = h[o] * w[o].unit + w[o].sum
           S == {m \in Nat : m <= n => Good(end - m)}
<1>12. 0 \in S
  <2>1. w[end] = zero
    BY <1>4, <1>11 DEF Val
  <2>2. h[end] \in Nat
    BY <1>2, <1>4
  <2>3. Good(end)
    BY <1>5, <2>1, <2>2 DEF zero
  <2>4. end - 0 = end
    BY <1>1
  <2> QED BY <2>3, <2>4
<1>13. ASSUME NEW m \in Nat, m \in S PROVE m + 1 \in S
  <2> DEFINE o == end - (m + 1)
  <2> SUFFICES ASSUME m + 1 <= n PROVE Good(o)
    OBVIOUS
  <2>1. o \in from .. end - 1 /\ o + 1 = end - m /\ o \in I /\ o # end /\ o + 1 \in I
        /\ o + 1 \in from + 1 .. end /\ (o + 1) - 1 = o
    BY <1>1 DEF n, I
  <2>2. Good(o + 1)
    BY <1>1, <1>13, <2>1 DEF n
  <2> HIDE DEF o
  <2>3. w[o] = Next1(w[o + 1], o)
    BY <1>11, <2>1 DEF Val
  <2>4. w[o] \in X
    BY <1>5, <2>1, <2>2, <2>3
  <2> DEFINE u == w[o + 1].unit
             t == w[o + 1].sum
             d == Weight[text[o + 1]]
             a == h[o]
  <2>5. u \in Nat /\ t \in Nat /\ d \in Nat /\ a \in Nat
    BY <1>1, <1>2, <2>1, <2>2 DEF X
  <2>6. h[o + 1] = a * base + d
    BY <1>2, <2>1
  <2>7. h[end] = (a * base + d) * u + t
    BY <2>2, <2>6
  <2>8. w[o].unit = base * u /\ w[o].sum = t + d * u
    BY <2>3 DEF Next1
  <2> HIDE DEF u, t, d, a
  <2>9. (a * base + d) * u + t = a * (base * u) + (t + d * u)
    BY <1>1, <2>5
  <2>10. h[end] = a * w[o].unit + w[o].sum
    BY <2>7, <2>8, <2>9
  <2> QED BY <2>4, <2>10 DEF a
<1>14. n \in S
  <2> HIDE DEF S
  <2> QED BY <1>4, <1>12, <1>13, NatSetInduction
<1>15. Good(from)
  <2>1. end - n = from /\ n <= n
    BY <1>1, <1>4 DEF n
  <2> HIDE DEF n
  <2>2. Good(end - n)
    BY <1>14, <2>1
  <2> QED BY <2>1, <2>2
<1>16. h[end] = w[from].sum
  <2> DEFINE t == w[from].sum
             u == w[from].unit
  <2>1. t \in Nat /\ u \in Nat /\ h[end] = 0 * u + t
    BY <1>2, <1>15 DEF X
  <2> HIDE DEF t, u
  <2>2. h[end] = t
    BY <2>1
  <2> QED BY <2>2 DEF t
<1> QED BY <1>3, <1>16

Tally == [value : Nat, overflow : BOOLEAN]

\* One digit more is still a tally, and says what it did.
LEMMA AccumulateIs ==
  ASSUME NEW a \in Tally, NEW base \in Bases, NEW d \in 0 .. base - 1
  PROVE  LET b == Accumulate(a, d, base)
         IN /\ b \in Tally
            /\ a.value * base + d > UMax => b.overflow = TRUE
            /\ a.value * base + d <= UMax =>
                 b.overflow = a.overflow /\ b.value = a.value * base + d
            /\ a.overflow = TRUE => b.overflow = TRUE
<1> DEFINE v == a.value
           t == v * base + d
           over == [a EXCEPT !.overflow = TRUE]
           more == [a EXCEPT !.value = t]
<1>1. a = [value |-> a.value, overflow |-> a.overflow] /\ v \in Nat /\ a.overflow \in BOOLEAN
  BY DEF Tally
<1>2. base \in Nat /\ d \in Nat /\ t \in Nat /\ UMax \in Nat
  BY <1>1, LexerAssumption DEF Bases
<1>3. v > (UMax - d) \div base <=> t > UMax
  BY <1>1, OverflowTest
<1> SUFFICES LET b == Accumulate(a, d, base)
             IN /\ b \in Tally
                /\ t > UMax => b.overflow = TRUE
                /\ t <= UMax => b.overflow = a.overflow /\ b.value = t
                /\ a.overflow = TRUE => b.overflow = TRUE
  OBVIOUS
<1> HIDE DEF t
<1>4. Accumulate(a, d, base) = IF v > (UMax - d) \div base THEN over ELSE more
  BY DEF Accumulate, t
<1>5. over \in Tally /\ over.value = v /\ over.overflow = TRUE
  BY DEF Tally
<1>6. more \in Tally /\ more.value = t /\ more.overflow = a.overflow
  BY <1>2 DEF Tally
<1> HIDE DEF over, more
<1>7. CASE t > UMax
  <2>1. Accumulate(a, d, base) = over
    BY <1>3, <1>4, <1>7
  <2>2. ~ (t <= UMax)
    BY <1>2, <1>7
  <2> QED BY <1>5, <1>6, <1>7, <2>1, <2>2
<1>8. CASE ~ (t > UMax)
  <2>1. Accumulate(a, d, base) = more
    BY <1>3, <1>4, <1>8
  <2> QED BY <1>5, <1>6, <1>8, <2>1
<1> QED BY <1>7, <1>8

\* The accumulated literal has the number its digits spell, unless that does not
\* fit, which it remembers.
LEMMA LiteralIs ==
  ASSUME NEW from, NEW end, NEW base, Spelt(from, end, base)
  PROVE  LET v   == Value(end, <<from, base>>)
             lit == Literal(from, end, base)
         IN /\ v \in Nat /\ lit \in Tally /\ (lit.overflow = TRUE <=> v > UMax)
            /\ lit.overflow = FALSE => lit.value = v
<1> DEFINE I == from .. end
           n == end - from
           zero == [value |-> 0, overflow |-> FALSE]
           Val(f, o) == IF o = from THEN zero ELSE Accumulate(f[o - 1], Weight[text[o]], base)
           Fits(f) == f = [o \in I |-> Val(f, o)]
           w == CHOOSE f : Fits(f)
           rank == [o \in I |-> o - from]
           F == [o \in I |-> [f \in [I -> Tally] |-> Val(f, o)]]
<1>1. /\ from \in Nat /\ end \in Nat /\ from <= end /\ base \in Nat /\ base > 1 /\ base \in Bases
      /\ \A o \in from + 1 .. end : Weight[text[o]] \in 0 .. base - 1
  BY DigitIs DEF Spelt
<1>2. /\ \A o \in I : o # from => o \in from + 1 .. end /\ o - 1 \in I /\ rank[o - 1] < rank[o]
      /\ rank \in [I -> 0 .. n] /\ n \in Nat /\ I # {} /\ from \in I /\ end \in I
      /\ \A o \in from + 1 .. end : o \in I /\ o # from
  <2>1. /\ \A o \in I : o - from \in 0 .. n /\ o - 1 - from < o - from
        /\ \A o \in I : o # from => o \in from + 1 .. end /\ o - 1 \in I
        /\ n \in Nat /\ from \in I /\ end \in I
        /\ \A o \in from + 1 .. end : o \in I /\ o # from
    BY <1>1
  <2> HIDE DEF I, n
  <2>2. rank \in [I -> 0 .. n] /\ \A o \in I : rank[o] = o - from
    BY <2>1
  <2> HIDE DEF rank
  <2>3. \A o \in I : o # from => rank[o - 1] < rank[o]
    BY <2>1, <2>2
  <2> QED BY <2>1, <2>2, <2>3
<1>3. zero \in Tally
  BY DEF Tally
<1>4. Literal(from, end, base) = w[end]
  BY DEF Literal
<1> HIDE DEF I, n, rank, w, zero
<1>5. ASSUME NEW o \in I, NEW f \in [I -> Tally] PROVE Val(f, o) \in Tally
  <2>1. CASE o = from
    BY <1>3, <2>1
  <2>2. CASE o # from
    <3>1. f[o - 1] \in Tally /\ Weight[text[o]] \in 0 .. base - 1
      BY <1>1, <1>2, <2>2
    <3>2. Accumulate(f[o - 1], Weight[text[o]], base) \in Tally
      BY <1>1, <3>1, AccumulateIs
    <3> QED BY <2>2, <3>2
  <2> QED BY <2>1, <2>2
<1>6. ASSUME NEW o \in I, NEW f \in [I -> Tally], NEW g \in [I -> Tally],
             \A j \in I : rank[j] < rank[o] => f[j] = g[j]
      PROVE  Val(f, o) = Val(g, o)
  BY <1>2, <1>6
<1> HIDE DEF Val
<1>7. F \in [I -> [[I -> Tally] -> Tally]] /\ \A o \in I, f \in [I -> Tally] : F[o][f] = Val(f, o)
  BY <1>5
<1> HIDE DEF F
<1>8. PICK g : Solves(g, F, I, Tally)
  <2>1. ASSUME NEW o \in I, NEW f \in [I -> Tally], NEW k \in [I -> Tally],
               \A j \in I : rank[j] < rank[o] => f[j] = k[j]
        PROVE  F[o][f] = F[o][k]
    <3>1. Val(f, o) = Val(k, o)
      BY <1>6, <2>1
    <3> QED BY <1>7, <3>1
  <2>2. LooksBelow(F, I, Tally, rank)
    BY <1>7, <2>1 DEF LooksBelow
  <2>3. Tally # {}
    BY <1>3
  <2> QED BY <1>2, <2>2, <2>3, RankedRecursion
<1>9. Fits(w)
  <2>1. Fits(g)
    BY <1>7, <1>8 DEF Solves
  <2> QED BY <2>1 DEF w, Val, zero, I
<1>10. \A o \in I : w[o] = Val(w, o)
  BY <1>9
<1>11. PICK h : Horner(h, from, end, base)
  BY HornerExists
<1>12. /\ h \in [I -> Nat] /\ h[from] = 0
       /\ \A o \in from + 1 .. end : h[o] = h[o - 1] * base + Weight[text[o]]
  BY <1>11 DEF Horner, I
<1> DEFINE Good(o) == /\ w[o] \in Tally /\ (w[o].overflow = TRUE <=> h[o] > UMax)
                      /\ w[o].overflow = FALSE => w[o].value = h[o]
           S == {m \in Nat : m <= n => Good(from + m)}
<1>13. 0 \in S
  <2>1. w[from] = zero
    BY <1>2, <1>10 DEF Val
  <2>2. Good(from)
    BY <1>3, <1>12, <2>1, LexerAssumption DEF zero
  <2>3. from + 0 = from
    BY <1>1
  <2> QED BY <2>2, <2>3
<1>14. ASSUME NEW m \in Nat, m \in S PROVE m + 1 \in S
  <2> DEFINE o == from + (m + 1)
  <2> HIDE DEF Good
  <2> SUFFICES ASSUME m + 1 <= n PROVE Good(o)
    OBVIOUS
  <2> USE DEF Good
  <2>1. o \in from + 1 .. end /\ o - 1 = from + m /\ o \in I /\ o # from /\ o - 1 \in I
    BY <1>1 DEF n, I
  <2>2. Good(o - 1)
    BY <1>1, <1>14, <2>1 DEF n
  <2> HIDE DEF o
  <2> DEFINE a == w[o - 1]
             b == w[o]
             d == Weight[text[o]]
             x == h[o - 1]
             y == h[o]
             over == x > UMax
  <2>3. b = Accumulate(a, d, base)
    BY <1>10, <2>1 DEF Val
  <2>4. a \in Tally /\ d \in 0 .. base - 1 /\ d \in Nat /\ x \in Nat /\ y \in Nat /\ y = x * base + d
    BY <1>1, <1>12, <2>1, <2>2
  <2>5. (a.overflow = TRUE <=> x > UMax) /\ (a.overflow = FALSE => a.value = x)
        /\ a.value \in Nat /\ a.overflow \in {TRUE, FALSE}
    BY <2>2 DEF Tally
  <2> SUFFICES b \in Tally /\ (b.overflow = TRUE <=> y > UMax) /\ (b.overflow = FALSE => b.value = y)
    OBVIOUS
  <2> HIDE DEF a, b, d, x, y
  <2>6. /\ b \in Tally
        /\ a.value * base + d > UMax => b.overflow = TRUE
        /\ a.value * base + d <= UMax =>
             b.overflow = a.overflow /\ b.value = a.value * base + d
        /\ a.overflow = TRUE => b.overflow = TRUE
    BY <1>1, <2>3, <2>4, AccumulateIs
  <2>7. y >= x /\ UMax \in Nat
    BY <1>1, <2>4, HornerGrows, LexerAssumption
  <2>8. CASE x > UMax
    <3>1. a.overflow = TRUE /\ y > UMax
      BY <2>4, <2>5, <2>7, <2>8
    <3> QED BY <2>6, <3>1
  <2>9. CASE ~ (x > UMax)
    <3>1. a.overflow = FALSE /\ a.value = x
      BY <2>5, <2>9
    <3>2. y > UMax => b.overflow = TRUE
      BY <2>4, <2>6, <3>1
    <3>3. ~ (y > UMax) => b.overflow = FALSE /\ b.value = y
      BY <2>4, <2>6, <2>7, <3>1
    <3> QED BY <2>6, <3>2, <3>3
  <2> QED BY <2>8, <2>9
<1>15. n \in S
  <2> HIDE DEF S
  <2> QED BY <1>2, <1>13, <1>14, NatSetInduction
<1>16. Good(end)
  <2>1. from + n = end /\ n <= n
    BY <1>1, <1>2 DEF n
  <2> HIDE DEF n
  <2> QED BY <1>15, <2>1
<1>17. Value(end, <<from, base>>) = h[end] /\ h[end] \in Nat
  BY <1>2, <1>11, <1>12, ValueIs
<1> QED BY <1>4, <1>16, <1>17

-----------------------------------------------------------------------------
(* Strings. *)

\* The run of backslashes that ends at offset o starts at q.
RunFrom(from, o, q) ==
  /\ \A j \in q .. o - 1 : At(j) = "backslash"
  /\ q = from \/ At(q - 1) # "backslash"

\* There is one place where the run of backslashes before an offset starts.
LEMMA RunIs ==
  ASSUME NEW from \in Nat, NEW o \in Nat, o >= from, NEW q \in from .. o, RunFrom(from, o, q)
  PROVE  BackslashesBefore(from, o) = o - q
<1> DEFINE p == CHOOSE x \in from .. o : RunFrom(from, o, x)
<1>1. p \in from .. o /\ RunFrom(from, o, p)
  OBVIOUS
<1>2. BackslashesBefore(from, o) = o - p
  BY DEF BackslashesBefore, RunFrom
<1> HIDE DEF p
<1>3. ASSUME p < q PROVE FALSE
  <2>1. q - 1 \in p .. o - 1 /\ q # from
    BY <1>1, <1>3
  <2> QED BY <1>1, <2>1 DEF RunFrom
<1>4. ASSUME q < p PROVE FALSE
  <2>1. p - 1 \in q .. o - 1 /\ p # from
    BY <1>1, <1>4
  <2> QED BY <1>1, <2>1 DEF RunFrom
<1>5. p = q
  <2>1. p \in Nat /\ q \in Nat
    BY <1>1
  <2>2. \A x, y \in Nat : x < y \/ y < x \/ x = y
    OBVIOUS
  <2> QED BY <1>3, <1>4, <2>1, <2>2
<1> QED BY <1>2, <1>5

\* The run before an offset starts somewhere.
LEMMA RunExists ==
  ASSUME NEW from \in Nat, NEW o \in Nat, o >= from
  PROVE  \E q \in from .. o : RunFrom(from, o, q)
<1> DEFINE S == {m \in Nat : \E q \in from .. from + m : RunFrom(from, from + m, q)}
<1>1. 0 \in S
  <2>1. RunFrom(from, from + 0, from) /\ from \in from .. from + 0
    BY DEF RunFrom
  <2> QED BY <2>1
<1>2. ASSUME NEW m \in Nat, m \in S PROVE m + 1 \in S
  <2> DEFINE e == from + m
  <2>1. PICK q \in from .. e : RunFrom(from, e, q)
    BY <1>2
  <2>2. from + (m + 1) = e + 1 /\ e \in Nat /\ e >= from
    OBVIOUS
  <2> HIDE DEF e
  <2>3. \E x \in from .. e + 1 : RunFrom(from, e + 1, x)
    <3>1. CASE At(e) = "backslash"
      <4>1. RunFrom(from, e + 1, q) /\ q \in from .. e + 1
        BY <2>1, <2>2, <3>1 DEF RunFrom
      <4> QED BY <4>1
    <3>2. CASE At(e) # "backslash"
      <4>1. RunFrom(from, e + 1, e + 1) /\ e + 1 \in from .. e + 1
        BY <2>2, <3>2 DEF RunFrom
      <4> QED BY <4>1
    <3> QED BY <3>1, <3>2
  <2> QED BY <2>2, <2>3
<1>3. o - from \in S
  <2> HIDE DEF S
  <2> QED BY <1>1, <1>2, NatSetInduction
<1>4. from + (o - from) = o
  OBVIOUS
<1> QED BY <1>3, <1>4

\* An offset is escaped when the one before it is a backslash that is not.
LEMMA EscapedIs ==
  ASSUME NEW from \in Nat
  PROVE  /\ ~ Escaped(from, from)
         /\ \A o \in Nat : o >= from =>
              (Escaped(from, o + 1) <=> At(o) = "backslash" /\ ~ Escaped(from, o))
<1>1. ~ Escaped(from, from)
  <2>1. RunFrom(from, from, from) /\ from \in from .. from
    BY DEF RunFrom
  <2>2. BackslashesBefore(from, from) = 0
    BY <2>1, RunIs
  <2> QED BY <2>2 DEF Escaped
<1>2. ASSUME NEW o \in Nat, o >= from
      PROVE  Escaped(from, o + 1) <=> At(o) = "backslash" /\ ~ Escaped(from, o)
  <2>1. PICK q \in from .. o : RunFrom(from, o, q)
    BY <1>2, RunExists
  <2>2. BackslashesBefore(from, o) = o - q
    BY <1>2, <2>1, RunIs
  <2>3. CASE At(o) = "backslash"
    <3>1. RunFrom(from, o + 1, q) /\ q \in from .. o + 1 /\ o + 1 \in Nat /\ o + 1 >= from
      BY <1>2, <2>1, <2>3 DEF RunFrom
    <3>2. BackslashesBefore(from, o + 1) = o + 1 - q
      BY <3>1, RunIs
    <3>3. o - q \in Nat /\ o + 1 - q = (o - q) + 1
      BY <1>2
    <3>4. (o + 1 - q) % 2 = 1 <=> ~ ((o - q) % 2 = 1)
      BY <3>3
    <3> QED BY <2>2, <2>3, <3>2, <3>4 DEF Escaped
  <2>4. CASE At(o) # "backslash"
    <3>1. RunFrom(from, o + 1, o + 1) /\ o + 1 \in from .. o + 1 /\ o + 1 \in Nat /\ o + 1 >= from
      BY <1>2, <2>4 DEF RunFrom
    <3>2. BackslashesBefore(from, o + 1) = (o + 1) - (o + 1)
      BY <3>1, RunIs
    <3>3. ((o + 1) - (o + 1)) % 2 # 1
      OBVIOUS
    <3> QED BY <2>4, <3>2, <3>3 DEF Escaped
  <2> QED BY <2>3, <2>4
<1> QED BY <1>1, <1>2

\* The scan of the string that starts at o stands at q, past no end of it.
Inside(o, q) ==
  /\ q \in o + 1 .. Len(text) /\ ~ Escaped(o + 1, q)
  /\ \A j \in o + 1 .. q - 1 : At(j) # "nl" /\ (At(j) = "quote" => Escaped(o + 1, j))

\* The scan stops at e, at the end of a string when closed.
EndsAt(o, e, closed) ==
  /\ e \in o + 1 .. Len(text) /\ closed \in BOOLEAN
  /\ \A j \in o .. e - 1 : At(j) # "nl"
  /\ closed = TRUE  => IsString(o, e) /\ \A q \in 0 .. Len(text) : IsString(o, q) => q = e
  /\ closed = FALSE => At(e) \in {"end", "nl"} /\ \A q \in 0 .. Len(text) : ~ IsString(o, q)

\* A quote the scan meets is the string's end.
LEMMA QuoteEnds ==
  ASSUME text \in Seq(Bytes), NEW o \in 0 .. Len(text) - 1, At(o) = "quote",
         NEW q, Inside(o, q), At(q) = "quote"
  PROVE  EndsAt(o, q + 1, TRUE)
<1>1. /\ Len(text) \in Nat /\ o \in Nat /\ q \in Nat /\ q >= o + 1 /\ q < Len(text)
      /\ q + 1 \in o + 1 .. Len(text) /\ q + 1 \in 0 .. Len(text) /\ (q + 1) - 1 = q
  BY AtIs DEF Inside
<1>2. \A j \in o .. q : At(j) # "nl"
  <2>1. \A j \in o .. q : j = o \/ j = q \/ j \in o + 1 .. q - 1
    BY <1>1
  <2> QED BY <2>1 DEF Inside
<1>3. \A j \in o .. (q + 1) - 1 : At(j) # "nl"
  BY <1>1, <1>2
<1>4. "nl" \notin Span(o, q + 1)
  BY <1>1, <1>3, SpanIs
<1>5. IsString(o, q + 1)
  <2>1. q + 1 >= o + 2 /\ \A j \in o + 1 .. (q + 1) - 2 : j \in o + 1 .. q - 1
    BY <1>1
  <2> QED BY <1>1, <1>4, <2>1 DEF IsString, Inside
<1>6. ASSUME NEW e \in 0 .. Len(text), IsString(o, e) PROVE e = q + 1
  <2>1. /\ e >= o + 2 /\ At(e - 1) = "quote" /\ ~ Escaped(o + 1, e - 1)
        /\ \A j \in o + 1 .. e - 2 : At(j) = "quote" => Escaped(o + 1, j)
    BY <1>6 DEF IsString
  <2>2. CASE e - 1 < q
    <3>1. e - 1 \in o + 1 .. q - 1
      BY <1>1, <2>1, <2>2
    <3> QED BY <2>1, <3>1 DEF Inside
  <2>3. CASE q < e - 1
    <3>1. q \in o + 1 .. e - 2
      BY <1>1, <2>1, <2>3
    <3> QED BY <2>1, <3>1 DEF Inside
  <2> QED BY <1>1, <2>2, <2>3
<1> QED BY <1>1, <1>3, <1>5, <1>6 DEF EndsAt

\* Without a quote the string does not end before its line does.
LEMMA LineEnds ==
  ASSUME text \in Seq(Bytes), NEW o \in 0 .. Len(text) - 1, At(o) = "quote",
         NEW q \in o + 1 .. Len(text), At(q) \in {"end", "nl"},
         \A j \in o + 1 .. q - 1 : At(j) # "nl" /\ (At(j) = "quote" => Escaped(o + 1, j))
  PROVE  EndsAt(o, q, FALSE)
<1>1. Len(text) \in Nat /\ o \in Nat /\ q \in Nat /\ q >= o + 1 /\ q <= Len(text)
  BY AtIs
<1>2. \A j \in o .. q - 1 : At(j) # "nl"
  <2>1. \A j \in o .. q - 1 : j = o \/ j \in o + 1 .. q - 1
    BY <1>1
  <2> QED BY <2>1
<1>3. ASSUME NEW e \in 0 .. Len(text), IsString(o, e) PROVE FALSE
  <2>1. /\ e >= o + 2 /\ At(e - 1) = "quote" /\ ~ Escaped(o + 1, e - 1) /\ "nl" \notin Span(o, e)
    BY <1>3 DEF IsString
  <2>2. \A j \in o .. e - 1 : At(j) # "nl"
    BY <1>1, <2>1, SpanIs
  <2>3. e - 1 \notin o + 1 .. q - 1
    BY <2>1
  <2>4. e - 1 >= q
    BY <1>1, <2>1, <2>3
  <2>5. q \in o .. e - 1 /\ q < Len(text)
    BY <1>1, <2>4
  <2>6. At(q) # "end" /\ At(q) # "nl"
    BY <1>1, <2>2, <2>5, AtIs
  <2> QED BY <2>6
<1> QED BY <1>1, <1>2, <1>3 DEF EndsAt

Stop == [end : Nat, closed : BOOLEAN]

\* The scan that starts behind a quote stops where the string ends, or at the end
\* of its line when it has none.
LEMMA StringEndIs ==
  ASSUME text \in Seq(Bytes), NEW o \in 0 .. Len(text) - 1, At(o) = "quote"
  PROVE  StringEnd(o) \in Stop /\ EndsAt(o, StringEnd(o).end, StringEnd(o).closed)
<1> DEFINE n == Len(text)
           I == 0 .. n + 1
           Val(f, q) == CASE At(q) \in {"end", "nl"} -> Unclosed(q)
                          [] At(q) = "quote"         -> [end |-> q + 1, closed |-> TRUE]
                          [] At(q) = "backslash"     -> IF At(q + 1) \in {"end", "nl"}
                                                        THEN Unclosed(q + 1) ELSE f[q + 2]
                          [] OTHER                   -> f[q + 1]
           Fits(f) == f = [q \in I |-> Val(f, q)]
           w == CHOOSE f : Fits(f)
           rank == [q \in I |-> n + 1 - q]
           F == [q \in I |-> [f \in [I -> Stop] |-> Val(f, q)]]
<1>1. /\ n \in Nat /\ o \in Nat /\ o < n /\ o + 1 \in I
      /\ \A q \in I : At(q) # "end" => q < n /\ q + 1 \in I /\ q + 1 <= n
      /\ \A q \in I : At(q) # "end" /\ At(q + 1) # "end" => q + 2 \in I /\ q + 2 <= n
  <2>1. \A q \in Nat : (At(q) = "end") = (q >= n)
    BY AtIs
  <2> QED BY <2>1
<1>2. /\ rank \in [I -> 0 .. n + 1] /\ n + 1 \in Nat /\ I # {}
      /\ \A q \in I : q + 1 \in I => rank[q + 1] < rank[q]
      /\ \A q \in I : q + 2 \in I => rank[q + 2] < rank[q]
  <2>1. /\ \A q \in I : n + 1 - q \in 0 .. n + 1 /\ n + 1 - (q + 1) < n + 1 - q
                        /\ n + 1 - (q + 2) < n + 1 - q
        /\ n + 1 \in Nat /\ 0 \in I
    BY <1>1
  <2> HIDE DEF I, n
  <2>2. rank \in [I -> 0 .. n + 1] /\ \A q \in I : rank[q] = n + 1 - q
    BY <2>1
  <2> HIDE DEF rank
  <2> QED BY <2>1, <2>2
<1>3. StringEnd(o) = w[o + 1]
  BY DEF StringEnd
<1>4. /\ \A q \in I : [end |-> q, closed |-> FALSE] \in Stop
      /\ \A q \in I : [end |-> q + 1, closed |-> FALSE] \in Stop
      /\ \A q : Unclosed(q) = [end |-> q, closed |-> FALSE]
      /\ \A q \in I : [end |-> q + 1, closed |-> TRUE] \in Stop
      /\ \A q \in I : q \in Nat
  BY DEF Stop, Unclosed
<1> HIDE DEF I, rank, w
<1>5. ASSUME NEW q \in I, NEW f \in [I -> Stop] PROVE Val(f, q) \in Stop
  BY <1>1, <1>4
<1>6. ASSUME NEW q \in I, NEW f \in [I -> Stop], NEW g \in [I -> Stop],
             \A j \in I : rank[j] < rank[q] => f[j] = g[j]
      PROVE  Val(f, q) = Val(g, q)
  BY <1>1, <1>2, <1>6
<1> HIDE DEF Val
<1>7. F \in [I -> [[I -> Stop] -> Stop]] /\ \A q \in I, f \in [I -> Stop] : F[q][f] = Val(f, q)
  BY <1>5
<1> HIDE DEF F
<1>8. PICK g : Solves(g, F, I, Stop)
  <2>1. ASSUME NEW q \in I, NEW f \in [I -> Stop], NEW k \in [I -> Stop],
               \A j \in I : rank[j] < rank[q] => f[j] = k[j]
        PROVE  F[q][f] = F[q][k]
    <3>1. Val(f, q) = Val(k, q)
      BY <1>6, <2>1
    <3> QED BY <1>7, <3>1
  <2>2. LooksBelow(F, I, Stop, rank)
    BY <1>7, <2>1 DEF LooksBelow
  <2>3. Stop # {}
    BY <1>1, <1>4
  <2> QED BY <1>2, <2>2, <2>3, RankedRecursion
<1>9. Fits(w)
  <2>1. Fits(g)
    BY <1>7, <1>8 DEF Solves
  <2> QED BY <2>1 DEF w, Val, I
<1>10. \A q \in I : w[q] = Val(w, q)
  BY <1>9
<1> DEFINE Good(q) == w[q] \in Stop /\ EndsAt(o, w[q].end, w[q].closed)
           S == {m \in Nat : \A q \in I : n - q <= m /\ Inside(o, q) => Good(q)}
<1>11. \A j \in Nat : j >= o + 1 =>
         (Escaped(o + 1, j + 1) <=> At(j) = "backslash" /\ ~ Escaped(o + 1, j))
  <2>1. o + 1 \in Nat
    BY <1>1
  <2> QED BY <2>1, EscapedIs
\* The scan from q ends well when the scans from the offsets behind q do.
<1>12. ASSUME NEW q \in I, Inside(o, q),
              \A j \in I : j > q /\ Inside(o, j) => Good(j)
       PROVE  Good(q)
  <2> HIDE DEF Good
  <2>1. /\ q \in Nat /\ q >= o + 1 /\ q <= n /\ ~ Escaped(o + 1, q)
        /\ \A j \in o + 1 .. q - 1 : At(j) # "nl" /\ (At(j) = "quote" => Escaped(o + 1, j))
    BY <1>1, <1>12 DEF Inside
  <2>2. CASE At(q) \in {"end", "nl"}
    <3>1. w[q] = [end |-> q, closed |-> FALSE]
      BY <1>4, <1>10, <2>2 DEF Val
    <3>2. w[q] \in Stop /\ w[q].end = q /\ w[q].closed = FALSE
      BY <1>4, <3>1
    <3>3. q \in o + 1 .. Len(text)
      BY <1>12 DEF Inside
    <3>4. EndsAt(o, q, FALSE)
      BY <2>1, <2>2, <3>3, LineEnds
    <3> QED BY <3>2, <3>4 DEF Good
  <2>3. CASE At(q) = "quote"
    <3>1. w[q] = [end |-> q + 1, closed |-> TRUE]
      BY <1>10, <2>3 DEF Val
    <3>2. w[q] \in Stop /\ w[q].end = q + 1 /\ w[q].closed = TRUE
      BY <1>4, <3>1
    <3>3. EndsAt(o, q + 1, TRUE)
      BY <1>12, <2>3, QuoteEnds
    <3> QED BY <3>2, <3>3 DEF Good
  <2>4. CASE At(q) = "backslash"
    <3>1. q < n /\ q + 1 \in I /\ q + 1 <= n
      BY <1>1, <2>4
    <3>2. Escaped(o + 1, q + 1)
      BY <1>11, <2>1, <2>4
    <3>3. \A j \in o + 1 .. (q + 1) - 1 : At(j) # "nl" /\ (At(j) = "quote" => Escaped(o + 1, j))
      <4>1. \A j \in o + 1 .. (q + 1) - 1 : j = q \/ j \in o + 1 .. q - 1
        BY <1>1, <2>1
      <4> QED BY <2>1, <2>4, <4>1
    <3>4. CASE At(q + 1) \in {"end", "nl"}
      <4>1. w[q] = [end |-> q + 1, closed |-> FALSE]
        BY <1>4, <1>10, <2>4, <3>4 DEF Val
      <4>2. q + 1 \in o + 1 .. n
        BY <1>1, <2>1, <3>1
      <4>3. EndsAt(o, q + 1, FALSE)
        BY <3>3, <3>4, <4>2, LineEnds
      <4>4. w[q] \in Stop /\ w[q].end = q + 1 /\ w[q].closed = FALSE
        BY <1>4, <4>1
      <4> QED BY <4>3, <4>4 DEF Good
    <3>5. CASE At(q + 1) \notin {"end", "nl"}
      <4>1. w[q] = w[q + 2]
        BY <1>10, <2>4, <3>5 DEF Val
      <4>2. q + 2 \in I /\ q + 2 <= n
        BY <1>1, <2>4, <3>5
      <4>3. ~ Escaped(o + 1, q + 2)
        <5>1. q + 1 \in Nat /\ q + 1 >= o + 1 /\ (q + 1) + 1 = q + 2
          BY <1>1, <2>1
        <5> QED BY <1>11, <3>2, <5>1
      <4>4. \A j \in o + 1 .. (q + 2) - 1 : At(j) # "nl" /\ (At(j) = "quote" => Escaped(o + 1, j))
        <5>1. \A j \in o + 1 .. (q + 2) - 1 : j = q + 1 \/ j \in o + 1 .. (q + 1) - 1
          BY <1>1, <2>1
        <5> QED BY <3>2, <3>3, <3>5, <5>1
      <4>5. q + 2 \in o + 1 .. n
        BY <1>1, <2>1, <4>2
      <4>6. Inside(o, q + 2) /\ q + 2 > q
        BY <2>1, <4>3, <4>4, <4>5 DEF Inside
      <4>7. Good(q + 2)
        BY <1>12, <4>2, <4>6
      <4> QED BY <4>1, <4>7 DEF Good
    <3> QED BY <3>4, <3>5
  <2>5. CASE At(q) \notin {"end", "nl", "quote", "backslash"}
    <3>1. w[q] = w[q + 1]
      BY <1>10, <2>5 DEF Val
    <3>2. q + 1 \in I /\ q + 1 <= n
      BY <1>1, <2>5
    <3>3. ~ Escaped(o + 1, q + 1)
      BY <1>11, <2>1, <2>5
    <3>4. \A j \in o + 1 .. (q + 1) - 1 : At(j) # "nl" /\ (At(j) = "quote" => Escaped(o + 1, j))
      <4>1. \A j \in o + 1 .. (q + 1) - 1 : j = q \/ j \in o + 1 .. q - 1
        BY <1>1, <2>1
      <4> QED BY <2>1, <2>5, <4>1
    <3>5. q + 1 \in o + 1 .. n
      BY <1>1, <2>1, <3>2
    <3>6. Inside(o, q + 1) /\ q + 1 > q
      BY <2>1, <3>3, <3>4, <3>5 DEF Inside
    <3>7. Good(q + 1)
      BY <1>12, <3>2, <3>6
    <3> QED BY <3>1, <3>7 DEF Good
  <2> QED BY <2>2, <2>3, <2>4, <2>5
<1> HIDE DEF Good
<1>13. 0 \in S
  <2>1. ASSUME NEW q \in I, n - q <= 0, Inside(o, q) PROVE Good(q)
    <3>1. q = n
      BY <1>1, <2>1 DEF Inside, I
    <3>2. \A j \in I : j > q => ~ Inside(o, j)
      BY <1>1, <3>1 DEF Inside, I
    <3> QED BY <1>12, <2>1, <3>2
  <2> QED BY <2>1
<1>14. ASSUME NEW m \in Nat, m \in S PROVE m + 1 \in S
  <2>1. ASSUME NEW q \in I, n - q <= m + 1, Inside(o, q) PROVE Good(q)
    <3>1. \A j \in I : j > q => n - j <= m
      BY <1>1, <2>1 DEF I
    <3>2. \A j \in I : j > q /\ Inside(o, j) => Good(j)
      BY <1>14, <3>1
    <3> QED BY <1>12, <2>1, <3>2
  <2> QED BY <2>1
<1>15. n \in S
  <2> HIDE DEF S
  <2> QED BY <1>1, <1>13, <1>14, NatSetInduction
<1>16. Inside(o, o + 1) /\ n - (o + 1) <= n
  <2>1. /\ o + 1 \in Nat /\ o + 1 \in o + 1 .. n /\ n - (o + 1) <= n
        /\ \A j \in o + 1 .. (o + 1) - 1 : FALSE
    BY <1>1
  <2>2. ~ Escaped(o + 1, o + 1)
    BY <2>1, EscapedIs
  <2> QED BY <2>1, <2>2 DEF Inside
<1>17. Good(o + 1)
  BY <1>1, <1>15, <1>16
<1> QED BY <1>3, <1>17 DEF Good

-----------------------------------------------------------------------------
(* One lexeme at a place, or none. *)

\* The lexeme at s is of a kind and ends at e, and there is no other.
Only(kind, s, e) ==
  /\ kind \in LexemeKinds /\ e \in s .. Len(text) /\ IsLexeme(kind, s, e)
  /\ \A k \in LexemeKinds, q \in s .. Len(text) : IsLexeme(k, s, q) => k = kind /\ q = e

\* No lexeme starts at s.
Nothing(s) == \A k \in LexemeKinds, q \in s .. Len(text) : ~ IsLexeme(k, s, q)

\* What a lexeme of each kind is.
LEMMA LexemeIs ==
  ASSUME NEW s, NEW e
  PROVE  /\ IsLexeme("identifier", s, e) <=> IsWord(s, e)
         /\ IsLexeme("directive", s, e) <=> At(s) = "." /\ IsWord(s + 1, e)
         /\ IsLexeme("integer", s, e) <=> \E r \in Readings(s) : IsNumber(s, e, r)
         /\ IsLexeme("string", s, e) <=> IsString(s, e)
         /\ IsLexeme("newline", s, e) <=> e = s + 1 /\ At(s) = "nl"
         /\ IsLexeme("punctuation", s, e) <=> e = s + 1 /\ At(s) \in Punctuation
         /\ IsLexeme("eof", s, e) <=> e = s /\ s = Len(text)
BY DEF IsLexeme

\* The kind of byte the lexemes of a kind start with.
First(kind) ==
  CASE kind = "identifier" -> Letters [] kind = "directive" -> {"."} [] kind = "integer" -> Digits
    [] kind = "string" -> {"quote"} [] kind = "newline" -> {"nl"}
    [] kind = "punctuation" -> Punctuation [] kind = "eof" -> {"end"}

\* A lexeme starts with a byte of its kind.
LEMMA LexemeStarts ==
  ASSUME text \in Seq(Bytes), NEW s \in 0 .. Len(text), NEW q \in s .. Len(text),
         NEW k \in LexemeKinds, IsLexeme(k, s, q)
  PROVE  At(s) \in First(k)
<1>1. Len(text) \in Nat /\ s \in Nat /\ q \in Nat
  BY AtIs
<1>2. CASE k = "identifier"
  BY <1>2, LexemeIs DEF IsWord, First
<1>3. CASE k = "directive"
  BY <1>3, LexemeIs DEF First
<1>4. CASE k = "integer"
  <2>1. PICK r \in Readings(s) : IsNumber(s, q, r)
    BY <1>4, LexemeIs
  <2>2. CASE At(s) = "0"
    BY <1>4, <2>2 DEF Digits, First
  <2>3. CASE At(s) # "0"
    <3>1. r = <<s, 10>>
      BY <2>1, <2>3 DEF Readings
    <3>2. s < q /\ Span(s, q) \subseteq DigitsOf(10)
      BY <2>1, <3>1 DEF IsNumber, DigitsOf
    <3>3. s \in s .. q - 1
      BY <1>1, <3>2
    <3>4. At(s) \in DigitsOf(10)
      BY <1>1, <3>2, <3>3, SpanIs
    <3> QED BY <1>4, <3>4, WeightIs DEF Digits, First
  <2> QED BY <2>2, <2>3
<1>5. CASE k = "string"
  BY <1>5, LexemeIs DEF IsString, First
<1>6. CASE k = "newline"
  BY <1>6, LexemeIs DEF First
<1>7. CASE k = "punctuation"
  BY <1>7, LexemeIs DEF First
<1>8. CASE k = "eof"
  <2>1. s = Len(text)
    BY <1>8, LexemeIs
  <2>2. At(s) = "end"
    BY <1>1, <2>1, AtIs
  <2> QED BY <1>8, <2>2 DEF First
<1> QED BY <1>2, <1>3, <1>4, <1>5, <1>6, <1>7, <1>8 DEF LexemeKinds

\* No two kinds start with the same byte, and some bytes start none.
LEMMA FirstIs ==
  /\ \A k, j \in LexemeKinds : \A b : b \in First(k) /\ b \in First(j) => k = j
  /\ \A k \in LexemeKinds : First(k) \cap {"?", "backslash", "sp", "cr", "semicolon"} = {}
  /\ First("identifier") = Letters /\ First("directive") = {"."} /\ First("integer") = Digits
  /\ First("string") = {"quote"} /\ First("newline") = {"nl"}
  /\ First("punctuation") = Punctuation /\ First("eof") = {"end"}
<1>1. /\ First("identifier") = {"x", "b", "o", "g"} /\ First("directive") = {"."}
      /\ First("integer") = {"0", "1", "9"}
      /\ First("string") = {"quote"} /\ First("newline") = {"nl"}
      /\ First("punctuation") = {",", "[", "]", "+", "-", "*", ":"} /\ First("eof") = {"end"}
  BY DEF First, Letters, Digits, Punctuation
<1>2. \A k \in LexemeKinds : First(k) \cap {"?", "backslash", "sp", "cr", "semicolon"} = {}
  BY <1>1 DEF LexemeKinds
<1>3. ASSUME NEW k \in LexemeKinds, NEW j \in LexemeKinds, NEW b, b \in First(k), b \in First(j)
      PROVE  k = j
  <2>1. CASE k = "identifier"
    BY <1>1, <1>3, <2>1 DEF LexemeKinds
  <2>2. CASE k = "directive"
    BY <1>1, <1>3, <2>2 DEF LexemeKinds
  <2>3. CASE k = "integer"
    BY <1>1, <1>3, <2>3 DEF LexemeKinds
  <2>4. CASE k = "string"
    BY <1>1, <1>3, <2>4 DEF LexemeKinds
  <2>5. CASE k = "newline"
    BY <1>1, <1>3, <2>5 DEF LexemeKinds
  <2>6. CASE k = "punctuation"
    BY <1>1, <1>3, <2>6 DEF LexemeKinds
  <2>7. CASE k = "eof"
    BY <1>1, <1>3, <2>7 DEF LexemeKinds
  <2> QED BY <2>1, <2>2, <2>3, <2>4, <2>5, <2>6, <2>7 DEF LexemeKinds
<1> QED BY <1>1, <1>2, <1>3 DEF Letters, Digits, Punctuation

\* A lexeme of the only kind that starts with this byte, the only one of its kind,
\* is the only lexeme here.
LEMMA OnlyOf ==
  ASSUME text \in Seq(Bytes), NEW s \in 0 .. Len(text), NEW kind \in LexemeKinds,
         At(s) \in First(kind), NEW e \in s .. Len(text), IsLexeme(kind, s, e),
         \A q \in s .. Len(text) : IsLexeme(kind, s, q) => q = e
  PROVE  Only(kind, s, e)
<1>1. ASSUME NEW k \in LexemeKinds, NEW q \in s .. Len(text), IsLexeme(k, s, q)
      PROVE  k = kind /\ q = e
  <2>1. At(s) \in First(k)
    BY <1>1, LexemeStarts
  <2>2. k = kind
    BY <2>1, FirstIs
  <2> QED BY <1>1, <2>2
<1> QED BY <1>1 DEF Only

\* No lexeme starts here when none of the kind this byte starts does.
LEMMA NothingOf ==
  ASSUME text \in Seq(Bytes), NEW s \in 0 .. Len(text),
         \A k \in LexemeKinds : At(s) \in First(k) => \A q \in s .. Len(text) : ~ IsLexeme(k, s, q)
  PROVE  Nothing(s)
BY LexemeStarts DEF Nothing

-----------------------------------------------------------------------------
(* What a call of the scanner does. *)

AllKinds == LexemeKinds \cup {"error"}

\* The new token, from Start to e, and the counters behind it.
Fresh(kind, e, val, ov) ==
  /\ tok' = [kind |-> kind, off |-> Start, len |-> e - Start, value |-> val, overflow |-> ov,
             line |-> Loc(text, Start).line, column |-> Loc(text, Start).column]
  /\ pos' = e /\ place' = Loc(text, e) /\ UNCHANGED text

\* The span of the new token, judged by the text.
Judged(kind, e) ==
  /\ kind \in AllKinds /\ e \in Start .. Len(text)
  /\ kind \in LexemeKinds => Only(kind, Start, e)
  /\ kind = "error" =>
       /\ Nothing(Start)
       /\ At(Start) \in Digits => At(e) \notin IdentCont
       /\ At(Start) = "quote" => At(e) \in {"nl", "end"}
  /\ IF kind = "eof" THEN e = Start /\ Start = Len(text) ELSE e > Start
  /\ kind = "newline" => e = Start + 1 /\ At(Start) = "nl"
  /\ kind # "newline" => \A j \in Start .. e - 1 : At(j) # "nl"

\* The value of the new token, judged by its digits.
Worth(kind, e, val, ov) ==
  /\ val \in Nat /\ ov \in {TRUE, FALSE} /\ (kind # "integer" => ov = FALSE)
  /\ kind = "integer" =>
       \E r \in Readings(Start) :
         /\ IsNumber(Start, e, r) /\ Value(e, r) \in Nat
         /\ (ov = TRUE <=> Value(e, r) > UMax)
         /\ val = IF ov = TRUE THEN UMax ELSE Value(e, r)

\* A mistake is reported, and nothing else.
Noted(kind, e, ov) ==
  \/ kind # "error" /\ ov = FALSE /\ Silent
  \/ (kind = "error" \/ ov = TRUE) /\ At(Start) # "nl" /\ Report(e)

Scan(kind, e, val, ov) ==
  Fresh(kind, e, val, ov) /\ Judged(kind, e) /\ Worth(kind, e, val, ov) /\ Noted(kind, e, ov)

Scans == \E kind, e, val, ov : Scan(kind, e, val, ov)

\* What the lemmas of this section assume.
Sound == Room /\ place = Loc(text, pos)

\* Where the token starts.
LEMMA HereIs ==
  ASSUME Sound
  PROVE  /\ text \in Seq(Bytes) /\ Len(text) \in Nat /\ Start \in Nat
         /\ Start \in pos .. Len(text) /\ Start \in 0 .. Len(text) /\ pos \in Nat
         /\ (At(Start) = "end" <=> Start = Len(text))
         /\ At(Start) # "end" => Start \in 0 .. Len(text) - 1 /\ Start + 1 \in Start .. Len(text)
<1>1. text \in Seq(Bytes) /\ pos \in 0 .. Len(text) /\ Start \in pos .. Len(text)
  BY StartIs DEF Sound, Room
<1>2. Len(text) \in Nat /\ \A o \in Nat : (At(o) = "end") = (o >= Len(text))
  BY <1>1, AtIs
<1> QED BY <1>1, <1>2

\* token_set gives the token its place and moves the counters behind it.
LEMMA ProduceIs ==
  ASSUME Sound, NEW kind, NEW e \in Start .. Len(text), Produce(kind, e)
  PROVE  Fresh(kind, e, 0, FALSE)
<1>1. /\ text \in Seq(Bytes) /\ pos \in 0 .. Len(text) /\ place = Loc(text, pos)
      /\ Start \in pos .. Len(text) /\ e \in pos .. Len(text)
  BY HereIs DEF Sound, Room
<1>2. PlaceAt(Start) = Loc(text, Start) /\ PlaceAt(e) = Loc(text, e)
  BY <1>1, PlaceAtIs
<1> QED BY <1>2 DEF Produce, Fresh

\* A token that is a lexeme and says nothing of a value.
LEMMA SilentScan ==
  ASSUME Sound, NEW kind \in LexemeKinds \ {"integer", "eof", "newline"}, NEW e \in Start .. Len(text),
         e > Start, Only(kind, Start, e), \A j \in Start .. e - 1 : At(j) # "nl",
         Produce(kind, e), Silent
  PROVE  Scans
<1>1. Fresh(kind, e, 0, FALSE)
  BY ProduceIs
<1>2. kind # "error" /\ kind \in AllKinds
  BY DEF LexemeKinds, AllKinds
<1>3. Judged(kind, e)
  BY <1>2 DEF Judged
<1>4. Worth(kind, e, 0, FALSE)
  BY DEF Worth
<1>5. Noted(kind, e, FALSE)
  BY <1>2 DEF Noted
<1> QED BY <1>1, <1>3, <1>4, <1>5 DEF Scan, Scans

\* An error token, where no lexeme starts.
LEMMA RejectScan ==
  ASSUME Sound, NEW e \in Start .. Len(text), e > Start, Nothing(Start),
         \A j \in Start .. e - 1 : At(j) # "nl",
         At(Start) \in Digits => At(e) \notin IdentCont,
         At(Start) = "quote" => At(e) \in {"nl", "end"}, Reject(e)
  PROVE  Scans
<1>1. Fresh("error", e, 0, FALSE)
  BY ProduceIs DEF Reject
<1>2. "error" \notin LexemeKinds /\ "error" \in AllKinds
  BY DEF LexemeKinds, AllKinds
<1>3. Judged("error", e)
  BY <1>2 DEF Judged
<1>4. Worth("error", e, 0, FALSE)
  BY DEF Worth
<1>5. At(Start) # "nl"
  <2>1. Start \in Start .. e - 1
    BY HereIs
  <2> QED BY <2>1
<1>6. Noted("error", e, FALSE)
  BY <1>5 DEF Noted, Reject
<1> QED BY <1>1, <1>3, <1>4, <1>6 DEF Scan, Scans

\* At the end of the text the scanner takes the end and nothing else.
LEMMA EofScans ==
  ASSUME Sound, LexEof PROVE Scans
<1>1. Start = Len(text) /\ Start \in Start .. Len(text) /\ Start \in 0 .. Len(text)
      /\ text \in Seq(Bytes) /\ Len(text) \in Nat
  BY HereIs DEF LexEof
<1>2. Fresh("eof", Start, 0, FALSE)
  BY <1>1, ProduceIs DEF LexEof
<1>3. Only("eof", Start, Start)
  <2>1. /\ IsLexeme("eof", Start, Start)
        /\ \A q \in Start .. Len(text) : IsLexeme("eof", Start, q) => q = Start
    BY <1>1, LexemeIs
  <2>2. "eof" \in LexemeKinds /\ At(Start) \in First("eof")
    BY FirstIs DEF LexemeKinds, LexEof
  <2> QED BY <1>1, <2>1, <2>2, OnlyOf
<1>4. Judged("eof", Start)
  <2>1. \A j \in Start .. Start - 1 : FALSE
    BY <1>1
  <2> QED BY <1>1, <1>3, <2>1 DEF Judged, AllKinds, LexemeKinds
<1>5. Worth("eof", Start, 0, FALSE) /\ Noted("eof", Start, FALSE)
  BY DEF Worth, Noted, LexEof
<1> QED BY <1>2, <1>4, <1>5 DEF Scan, Scans

\* At a newline it takes the newline.
LEMMA NewlineScans ==
  ASSUME Sound, LexNewline PROVE Scans
<1>1. At(Start) = "nl" /\ Produce("newline", Start + 1) /\ Silent
  BY DEF LexNewline
<1>2. Start + 1 \in Start .. Len(text) /\ Start \in 0 .. Len(text)
      /\ text \in Seq(Bytes) /\ Start \in Nat
  BY <1>1, HereIs
<1>3. Fresh("newline", Start + 1, 0, FALSE)
  BY <1>1, <1>2, ProduceIs
<1>4. Only("newline", Start, Start + 1)
  <2>1. IsLexeme("newline", Start, Start + 1)
        /\ \A q \in Start .. Len(text) : IsLexeme("newline", Start, q) => q = Start + 1
    BY <1>1, LexemeIs
  <2>2. "newline" \in LexemeKinds /\ At(Start) \in First("newline")
    BY <1>1, FirstIs DEF LexemeKinds
  <2> QED BY <1>2, <2>1, <2>2, OnlyOf
<1>5. Judged("newline", Start + 1)
  <2>1. Start + 1 > Start
    BY <1>2
  <2> QED BY <1>1, <1>2, <1>4, <2>1 DEF Judged, AllKinds, LexemeKinds
<1>6. Worth("newline", Start + 1, 0, FALSE) /\ Noted("newline", Start + 1, FALSE)
  BY <1>1 DEF Worth, Noted
<1> QED BY <1>3, <1>5, <1>6 DEF Scan, Scans

\* Before a single byte's end there is only the byte.
LEMMA SingleIs ==
  ASSUME NEW s \in Nat, At(s) # "nl"
  PROVE  s + 1 > s /\ \A j \in s .. (s + 1) - 1 : j = s /\ At(j) # "nl"
<1>1. \A j \in s .. (s + 1) - 1 : j = s
  OBVIOUS
<1> QED BY <1>1

\* At a punctuation byte it takes that byte.
LEMMA PunctuationScans ==
  ASSUME Sound, LexPunctuation PROVE Scans
<1>1. At(Start) \in Punctuation /\ Produce("punctuation", Start + 1) /\ Silent
  BY DEF LexPunctuation
<1>2. At(Start) # "nl" /\ At(Start) # "end"
  BY <1>1 DEF Punctuation
<1>3. Start + 1 \in Start .. Len(text) /\ Start \in 0 .. Len(text)
      /\ text \in Seq(Bytes) /\ Start \in Nat
  BY <1>2, HereIs
<1>4. Only("punctuation", Start, Start + 1)
  <2>1. IsLexeme("punctuation", Start, Start + 1)
        /\ \A q \in Start .. Len(text) : IsLexeme("punctuation", Start, q) => q = Start + 1
    BY <1>1, LexemeIs
  <2>2. "punctuation" \in LexemeKinds /\ At(Start) \in First("punctuation")
    BY <1>1, FirstIs DEF LexemeKinds
  <2> QED BY <1>3, <2>1, <2>2, OnlyOf
<1>5. Start + 1 > Start /\ \A j \in Start .. (Start + 1) - 1 : At(j) # "nl"
  BY <1>2, <1>3, SingleIs
<1>6. "punctuation" \in LexemeKinds \ {"integer", "eof", "newline"}
  BY DEF LexemeKinds
<1> QED BY <1>1, <1>3, <1>4, <1>5, <1>6, SilentScan

\* At a letter it takes the longest word.
LEMMA IdentifierScans ==
  ASSUME Sound, LexIdentifier PROVE Scans
<1> DEFINE e == Past(Start, IdentCont)
<1>1. At(Start) \in Letters /\ Produce("identifier", e) /\ Silent
  BY DEF LexIdentifier
<1>2. text \in Seq(Bytes) /\ Start \in Nat /\ Start \in 0 .. Len(text) /\ Len(text) \in Nat
  BY HereIs
<1>3. /\ e \in Start + 1 .. Len(text) /\ IsWord(Start, e)
      /\ \A j \in Start .. e - 1 : At(j) \in IdentCont
      /\ \A q \in Start .. Len(text) : IsWord(Start, q) => q = e
  BY <1>1, <1>2, WordIs
<1> HIDE DEF e
<1>4. e \in Start .. Len(text) /\ e > Start
  BY <1>2, <1>3
<1>5. "nl" \notin IdentCont
  BY DEF IdentCont, Letters, Digits
<1>6. Only("identifier", Start, e)
  <2>1. IsLexeme("identifier", Start, e)
        /\ \A q \in Start .. Len(text) : IsLexeme("identifier", Start, q) => q = e
    BY <1>3, LexemeIs
  <2>2. "identifier" \in LexemeKinds /\ At(Start) \in First("identifier")
    BY <1>1, FirstIs DEF LexemeKinds
  <2> QED BY <1>2, <1>4, <2>1, <2>2, OnlyOf
<1>7. "identifier" \in LexemeKinds \ {"integer", "eof", "newline"}
  BY DEF LexemeKinds
<1>8. \A j \in Start .. e - 1 : At(j) # "nl"
  BY <1>3, <1>5
<1> QED BY <1>1, <1>4, <1>6, <1>7, <1>8, SilentScan

\* At a dot before a letter it takes the longest directive.
LEMMA DirectiveScans ==
  ASSUME Sound, LexDirective PROVE Scans
<1> DEFINE s == Start + 1
           e == Past(s, IdentCont)
<1>1. At(Start) = "." /\ At(s) \in Letters /\ Produce("directive", e) /\ Silent
  BY DEF LexDirective
<1>2. text \in Seq(Bytes) /\ Start \in Nat /\ Start \in 0 .. Len(text) /\ Len(text) \in Nat
      /\ s \in 0 .. Len(text)
  BY <1>1, HereIs
<1>3. /\ e \in s + 1 .. Len(text) /\ IsWord(s, e)
      /\ \A j \in s .. e - 1 : At(j) \in IdentCont
      /\ \A q \in s .. Len(text) : IsWord(s, q) => q = e
  BY <1>1, <1>2, WordIs
<1> HIDE DEF e
<1>4. e \in Start .. Len(text) /\ e > Start
  BY <1>2, <1>3
<1>5. "nl" \notin IdentCont
  BY DEF IdentCont, Letters, Digits
<1>6. Only("directive", Start, e)
  <2>1. IsLexeme("directive", Start, e)
    BY <1>1, <1>3, LexemeIs
  <2>2. ASSUME NEW q \in Start .. Len(text), IsLexeme("directive", Start, q) PROVE q = e
    <3>1. IsWord(s, q)
      BY <2>2, LexemeIs
    <3>2. q \in s .. Len(text)
      BY <1>2, <3>1 DEF IsWord
    <3> QED BY <1>3, <3>1, <3>2
  <2>3. "directive" \in LexemeKinds /\ At(Start) \in First("directive")
    BY <1>1, FirstIs DEF LexemeKinds
  <2> QED BY <1>2, <1>4, <2>1, <2>2, <2>3, OnlyOf
<1>7. "directive" \in LexemeKinds \ {"integer", "eof", "newline"}
  BY DEF LexemeKinds
<1>8. \A j \in Start .. e - 1 : At(j) # "nl"
  <2>1. \A j \in Start .. e - 1 : j = Start \/ j \in s .. e - 1
    BY <1>2, <1>4
  <2> QED BY <1>1, <1>3, <1>5, <2>1
<1> QED BY <1>1, <1>4, <1>6, <1>7, <1>8, SilentScan

\* At a byte no lexeme starts with it takes that byte, and reports it.
LEMMA UnexpectedScans ==
  ASSUME Sound, LexUnexpected PROVE Scans
<1>1. /\ At(Start) \in {"?", "backslash", "."} /\ (At(Start) = "." => At(Start + 1) \notin Letters)
      /\ Reject(Start + 1)
  BY DEF LexUnexpected
<1>2. At(Start) # "nl" /\ At(Start) # "end" /\ At(Start) \notin Digits /\ At(Start) # "quote"
  BY <1>1 DEF Digits
<1>3. Start + 1 \in Start .. Len(text) /\ Start \in 0 .. Len(text)
      /\ text \in Seq(Bytes) /\ Start \in Nat
  BY <1>2, HereIs
<1>4. Nothing(Start)
  <2>1. ASSUME NEW k \in LexemeKinds, At(Start) \in First(k), NEW q \in Start .. Len(text)
        PROVE  ~ IsLexeme(k, Start, q)
    <3>1. At(Start) = "." /\ k = "directive"
      BY <1>1, <2>1, FirstIs DEF LexemeKinds
    <3> QED BY <1>1, <3>1, LexemeIs DEF IsWord
  <2> QED BY <1>3, <2>1, NothingOf
<1>5. Start + 1 > Start /\ \A j \in Start .. (Start + 1) - 1 : At(j) # "nl"
  BY <1>2, <1>3, SingleIs
<1> QED BY <1>1, <1>2, <1>3, <1>4, <1>5, RejectScan

\* At a quote it takes the string, or reports it as unterminated.
LEMMA StringScans ==
  ASSUME Sound, LexString PROVE Scans
<1> DEFINE s == StringEnd(Start)
<1>1. At(Start) = "quote" /\ IF s.closed THEN Produce("string", s.end) /\ Silent ELSE Reject(s.end)
  BY DEF LexString
<1>2. Start \in 0 .. Len(text) - 1 /\ Start \in 0 .. Len(text)
      /\ text \in Seq(Bytes) /\ Start \in Nat /\ Len(text) \in Nat
  BY <1>1, HereIs
<1>3. s \in Stop /\ EndsAt(Start, s.end, s.closed)
  BY <1>1, <1>2, StringEndIs
<1> HIDE DEF s
<1>4. /\ s.closed \in {TRUE, FALSE} /\ s.end \in Start .. Len(text) /\ s.end > Start
      /\ \A j \in Start .. s.end - 1 : At(j) # "nl"
  <2>1. s.closed \in {TRUE, FALSE}
    BY <1>3 DEF Stop
  <2>2. s.end \in Start + 1 .. Len(text) /\ \A j \in Start .. s.end - 1 : At(j) # "nl"
    BY <1>3 DEF EndsAt
  <2>3. s.end \in Start .. Len(text) /\ s.end > Start
    BY <1>2, <2>2
  <2> QED BY <2>1, <2>2, <2>3
<1>5. \A q \in Start .. Len(text) : q \in 0 .. Len(text)
  BY <1>2
<1>6. "string" \in LexemeKinds \ {"integer", "eof", "newline"} /\ "string" \in LexemeKinds
  BY DEF LexemeKinds
<1>7. CASE s.closed = TRUE
  <2>1. Produce("string", s.end) /\ Silent
    BY <1>1, <1>7
  <2>2. IsLexeme("string", Start, s.end)
        /\ \A q \in Start .. Len(text) : IsLexeme("string", Start, q) => q = s.end
    BY <1>3, <1>5, <1>7, LexemeIs DEF EndsAt
  <2>3. Only("string", Start, s.end)
    <3>1. At(Start) \in First("string")
      BY <1>1, FirstIs
    <3> QED BY <1>2, <1>4, <1>6, <2>2, <3>1, OnlyOf
  <2> QED BY <1>4, <1>6, <2>1, <2>3, SilentScan
<1>8. CASE s.closed = FALSE
  <2>1. Reject(s.end)
    BY <1>1, <1>8
  <2>2. At(s.end) \in {"nl", "end"} /\ \A q \in 0 .. Len(text) : ~ IsString(Start, q)
    BY <1>3, <1>8 DEF EndsAt
  <2>3. Nothing(Start)
    <3>1. ASSUME NEW k \in LexemeKinds, At(Start) \in First(k), NEW q \in Start .. Len(text)
          PROVE  ~ IsLexeme(k, Start, q)
      <4>1. k = "string"
        BY <1>1, <1>6, <3>1, FirstIs
      <4> QED BY <1>5, <2>2, <4>1, LexemeIs
    <3> QED BY <1>2, <3>1, NothingOf
  <2>4. At(Start) \notin Digits
    BY <1>1 DEF Digits
  <2> QED BY <1>4, <2>1, <2>2, <2>3, <2>4, RejectScan
<1> QED BY <1>4, <1>7, <1>8

\* At a digit it takes the longest number with its value, or reports it.
LEMMA NumberScans ==
  ASSUME Sound, LexNumber PROVE Scans
<1> DEFINE base == Base(Start)
           from == DigitStart(Start)
           end  == Past(from, DigitsOf(base))
           lit  == Literal(from, end, base)
           r    == <<from, base>>
           val  == IF lit.overflow THEN UMax ELSE lit.value
           bad  == end = from \/ At(end) \in IdentCont
<1>1. /\ At(Start) \in Digits
      /\ IF bad THEN Reject(Past(end, IdentCont))
         ELSE /\ pos' = end /\ place' = PlaceAt(end) /\ UNCHANGED text
              /\ tok' = [kind |-> "integer", off |-> Start, len |-> end - Start,
                         value |-> val, overflow |-> lit.overflow,
                         line |-> PlaceAt(Start).line, column |-> PlaceAt(Start).column]
              /\ IF lit.overflow THEN Report(end) ELSE Silent
  BY DEF LexNumber
<1>2. At(Start) # "nl" /\ At(Start) # "end" /\ At(Start) # "quote"
  BY <1>1 DEF Digits
<1>3. Start \in 0 .. Len(text) - 1 /\ Start \in 0 .. Len(text) /\ Start \in pos .. Len(text)
      /\ text \in Seq(Bytes) /\ Start \in Nat /\ Len(text) \in Nat
  BY <1>2, HereIs
<1>4. /\ from \in Start .. Len(text) /\ end \in from .. Len(text) /\ end > Start
      /\ \A j \in Start .. end - 1 : At(j) \in IdentCont
      /\ \A j \in from .. end - 1 : At(j) \in DigitsOf(base)
      /\ ~ bad => r \in Readings(Start) /\ IsNumber(Start, end, r)
      /\ \A x \in Readings(Start), q \in Start .. Len(text) :
           IsNumber(Start, q, x) => ~ bad /\ q = end /\ x = r
  BY <1>1, <1>3, NumberIs
<1>5. base \in Bases
  BY <1>3, BaseIs
<1>6. "integer" \in LexemeKinds /\ At(Start) \in First("integer")
      /\ "nl" \notin IdentCont /\ "end" \notin IdentCont
  BY <1>1, FirstIs DEF LexemeKinds, IdentCont, Letters, Digits
<1> HIDE DEF base, from, end, bad
<1>7. end \in Start .. Len(text) /\ end \in 0 .. Len(text) /\ from \in 0 .. end
  BY <1>3, <1>4
<1>8. CASE bad
  <2> DEFINE e == Past(end, IdentCont)
  <2>1. Reject(e)
    BY <1>1, <1>8
  <2>2. e \in end .. Len(text) /\ At(e) \notin IdentCont /\ \A j \in end .. e - 1 : At(j) \in IdentCont
    BY <1>3, <1>6, <1>7, PastIs
  <2> HIDE DEF e
  <2>3. e \in Start .. Len(text) /\ e > Start
    BY <1>3, <1>4, <1>7, <2>2
  <2>4. \A j \in Start .. e - 1 : At(j) # "nl"
    <3>1. \A j \in Start .. e - 1 : j \in Start .. end - 1 \/ j \in end .. e - 1
      BY <1>3, <1>7, <2>3
    <3> QED BY <1>4, <1>6, <2>2, <3>1
  <2>5. Nothing(Start)
    <3>1. ASSUME NEW k \in LexemeKinds, At(Start) \in First(k), NEW q \in Start .. Len(text)
          PROVE  ~ IsLexeme(k, Start, q)
      <4>1. k = "integer"
        BY <1>6, <3>1, FirstIs
      <4>2. \A x \in Readings(Start) : ~ IsNumber(Start, q, x)
        BY <1>4, <1>8
      <4> QED BY <4>1, <4>2, LexemeIs
    <3> QED BY <1>3, <3>1, NothingOf
  <2> QED BY <1>2, <2>1, <2>2, <2>3, <2>4, <2>5, RejectScan
<1>9. CASE ~ bad
  <2>1. /\ pos' = end /\ place' = PlaceAt(end) /\ UNCHANGED text
        /\ tok' = [kind |-> "integer", off |-> Start, len |-> end - Start,
                   value |-> val, overflow |-> lit.overflow,
                   line |-> PlaceAt(Start).line, column |-> PlaceAt(Start).column]
        /\ IF lit.overflow THEN Report(end) ELSE Silent
    BY <1>1, <1>9
  <2>2. PlaceAt(Start) = Loc(text, Start) /\ PlaceAt(end) = Loc(text, end)
    <3>1. pos \in 0 .. Len(text) /\ place = Loc(text, pos) /\ end \in pos .. Len(text)
      BY <1>3, <1>7 DEF Sound, Room
    <3> QED BY <1>3, <3>1, PlaceAtIs
  <2>3. Fresh("integer", end, val, lit.overflow)
    BY <2>1, <2>2 DEF Fresh
  <2>4. r \in Readings(Start) /\ IsNumber(Start, end, r)
    BY <1>4, <1>9
  <2>5. Only("integer", Start, end)
    <3>1. IsLexeme("integer", Start, end)
          /\ \A q \in Start .. Len(text) : IsLexeme("integer", Start, q) => q = end
      BY <1>4, <2>4, LexemeIs
    <3> QED BY <1>3, <1>6, <1>7, <3>1, OnlyOf
  <2>6. Judged("integer", end)
    <3>1. \A j \in Start .. end - 1 : At(j) # "nl"
      BY <1>4, <1>6
    <3> QED BY <1>4, <1>7, <2>5, <3>1 DEF Judged, AllKinds, LexemeKinds
  <2>7. Spelt(from, end, base)
    BY <1>3, <1>4, <1>5, <1>7 DEF Spelt
  <2>8. /\ Value(end, r) \in Nat /\ lit \in Tally /\ (lit.overflow = TRUE <=> Value(end, r) > UMax)
        /\ lit.overflow = FALSE => lit.value = Value(end, r)
    BY <2>7, LiteralIs
  <2> HIDE DEF lit
  <2>9. lit.overflow \in {TRUE, FALSE}
    BY <2>8 DEF Tally
  <2>10. val = IF lit.overflow = TRUE THEN UMax ELSE Value(end, r)
    BY <2>8, <2>9
  <2>11. val \in Nat
    BY <2>8, <2>10, LexerAssumption
  <2> HIDE DEF val, r
  <2>12. Worth("integer", end, val, lit.overflow)
    BY <2>4, <2>8, <2>9, <2>10, <2>11 DEF Worth
  <2>13. Noted("integer", end, lit.overflow)
    BY <1>2, <2>1, <2>9 DEF Noted
  <2> QED BY <2>3, <2>6, <2>12, <2>13 DEF Scan, Scans
<1> QED BY <1>8, <1>9

\* Every call of the scanner produces a token that its span justifies.
LEMMA LexScans ==
  ASSUME Sound, LexNext PROVE Scans
BY EofScans, NewlineScans, PunctuationScans, IdentifierScans, DirectiveScans, UnexpectedScans,
   StringScans, NumberScans DEF LexNext

-----------------------------------------------------------------------------
(* The inductive invariant of the scanner. *)

\* As long as the text stays, so does what is said of it.
LEMMA Unmoved ==
  ASSUME UNCHANGED text
  PROVE  /\ \A o : At(o)' = At(o)
         /\ \A r, e : Value(e, r)' = Value(e, r)
         /\ \A s : Readings(s)' = Readings(s)
         /\ \A s, e, r : IsNumber(s, e, r)' <=> IsNumber(s, e, r)
         /\ \A k \in LexemeKinds : \A s, e : IsLexeme(k, s, e)' <=> IsLexeme(k, s, e)
<1>1. \A o : At(o)' = At(o)
  BY DEF At
<1>2. \A r, e : Value(e, r)' = Value(e, r)
  BY DEF Value
<1>3. \A s : Readings(s)' = Readings(s)
  BY <1>1 DEF Readings, PrefixBase
<1>4. \A s, e : Span(s, e)' = Span(s, e)
  BY DEF Span
<1>5. \A s, e, r : IsNumber(s, e, r)' <=> IsNumber(s, e, r)
  BY <1>1, <1>4 DEF IsNumber
<1>6. \A s, e : IsWord(s, e)' <=> IsWord(s, e)
  BY <1>1, <1>4 DEF IsWord
<1>7. \A s, e : Escaped(s, e)' <=> Escaped(s, e)
  BY DEF Escaped, BackslashesBefore, At
<1>8. \A s, e : IsString(s, e)' <=> IsString(s, e)
  BY <1>1, <1>4, <1>7 DEF IsString
<1>9. ASSUME NEW k \in LexemeKinds, NEW s, NEW e PROVE IsLexeme(k, s, e)' <=> IsLexeme(k, s, e)
  <2>1. CASE k \in {"identifier", "directive"}
    BY <1>1, <1>6, <2>1 DEF IsLexeme
  <2>2. CASE k = "integer"
    BY <1>3, <1>5, <2>2 DEF IsLexeme
  <2>3. CASE k = "string"
    BY <1>8, <2>3 DEF IsLexeme
  <2>4. CASE k \in {"newline", "punctuation", "eof"}
    BY <1>1, <2>4 DEF IsLexeme
  <2> QED BY <2>1, <2>2, <2>3, <2>4 DEF LexemeKinds
<1> QED BY <1>1, <1>2, <1>3, <1>5, <1>9

\* The token produced last ends where the scanner stands, and is what its span
\* and its place say.
Placed ==
  /\ tok.kind \in AllKinds /\ tok.off \in Nat /\ tok.len \in Nat
  /\ tok.off <= Len(text) /\ TokEnd = pos
  /\ tok.line = Loc(text, tok.off).line /\ tok.column = Loc(text, tok.off).column
  /\ IF tok.kind = "eof" THEN tok.len = 0 ELSE tok.len > 0
  /\ Loc(text, pos).line = tok.line + IF tok.kind = "newline" THEN 1 ELSE 0

\* Every diagnostic marks bytes that are there, from one that its line shows.
Marked ==
  /\ diags \in Seq([off : Nat, len : Nat])
  /\ \A k \in DOMAIN diags :
       /\ diags[k].off \in 0 .. Len(text) - 1 /\ diags[k].len \in Nat \ {0}
       /\ text[diags[k].off + 1] \notin Breaks

LexInv ==
  /\ Sound /\ Marked
  /\ \/ tok = NoToken /\ pos = 0
     \/ Placed /\ Lexemes /\ LiteralsExact

\* A call of the scanner moves it to the next token.
LEMMA PlacedNext ==
  ASSUME Sound, NEW kind, NEW e, NEW val, NEW ov, Scan(kind, e, val, ov)
  PROVE  Placed'
<1>1. /\ tok'.kind = kind /\ tok'.off = Start /\ tok'.len = e - Start
      /\ tok'.line = Loc(text, Start).line /\ tok'.column = Loc(text, Start).column
      /\ pos' = e /\ text' = text
  BY DEF Scan, Fresh
<1>2. /\ kind \in AllKinds /\ e \in Start .. Len(text)
      /\ IF kind = "eof" THEN e = Start ELSE e > Start
      /\ kind = "newline" => e = Start + 1 /\ At(Start) = "nl"
      /\ kind # "newline" => \A j \in Start .. e - 1 : At(j) # "nl"
  BY DEF Scan, Judged
<1>3. text \in Seq(Bytes) /\ Len(text) \in Nat /\ Start \in 0 .. Len(text) /\ Start \in Nat
      /\ (At(Start) # "end" => Start \in 0 .. Len(text) - 1)
  BY HereIs
<1>4. Loc(text, Start).line \in Nat
  BY <1>3, LocIs DEF Place
<1>5. Loc(text, e).line = Loc(text, Start).line + IF kind = "newline" THEN 1 ELSE 0
  <2>1. CASE kind = "newline"
    <3>1. e = Start + 1 /\ At(Start) = "nl" /\ Start \in 0 .. Len(text) - 1
      BY <1>2, <1>3, <2>1
    <3> QED BY <1>3, <2>1, <3>1, LineNext
  <2>2. CASE kind # "newline"
    <3>1. Loc(text, e).line = Loc(text, Start).line
      BY <1>2, <1>3, <2>2, LineSame
    <3> QED BY <1>4, <2>2, <3>1
  <2> QED BY <2>1, <2>2
<1>6. e - Start \in Nat /\ Start + (e - Start) = e /\ (e > Start => e - Start > 0)
      /\ (e = Start => e - Start = 0) /\ Start <= Len(text)
  BY <1>2, <1>3
<1>7. TokEnd' = e
  BY <1>1, <1>6 DEF TokEnd
<1> QED BY <1>1, <1>2, <1>3, <1>5, <1>6, <1>7 DEF Placed

\* What it finds there is a lexeme, or an error where there is none.
LEMMA LexemesNext ==
  ASSUME Sound, NEW kind, NEW e, NEW val, NEW ov, Scan(kind, e, val, ov)
  PROVE  Lexemes' /\ LiteralsExact'
<1>1. /\ tok'.kind = kind /\ tok'.off = Start /\ tok'.len = e - Start
      /\ tok'.value = val /\ tok'.overflow = ov /\ pos' = e /\ text' = text
  BY DEF Scan, Fresh
<1>2. /\ kind \in LexemeKinds => IsLexeme(kind, Start, e)
      /\ kind = "error" =>
           /\ \A k \in LexemeKinds, q \in Start .. Len(text) : ~ IsLexeme(k, Start, q)
           /\ At(Start) \in Digits => At(e) \notin IdentCont
           /\ At(Start) = "quote" => At(e) \in {"nl", "end"}
  BY DEF Scan, Judged, Only, Nothing
<1>3. e \in Nat /\ Start \in Nat
  BY HereIs DEF Scan, Judged
<1>4. TokEnd' = e
  BY <1>1, <1>3 DEF TokEnd
<1>5. /\ \A o : At(o)' = At(o)
      /\ \A r, q : Value(q, r)' = Value(q, r)
      /\ \A s : Readings(s)' = Readings(s)
      /\ \A s, q, r : IsNumber(s, q, r)' <=> IsNumber(s, q, r)
      /\ \A k \in LexemeKinds : \A s, q : IsLexeme(k, s, q)' <=> IsLexeme(k, s, q)
  BY <1>1, Unmoved
<1>6. Lexemes'
  BY <1>1, <1>2, <1>4, <1>5 DEF Lexemes
<1>7. LiteralsExact'
  <2>1. CASE kind = "integer"
    <3>1. PICK r \in Readings(Start) :
            /\ IsNumber(Start, e, r) /\ Value(e, r) \in Nat
            /\ (ov = TRUE <=> Value(e, r) > UMax)
            /\ val = IF ov = TRUE THEN UMax ELSE Value(e, r)
      BY <2>1 DEF Scan, Worth
    <3>2. ov \in {TRUE, FALSE}
      BY DEF Scan, Worth
    <3>3. ov = (Value(e, r) > UMax)
      <4>1. CASE ov = TRUE
        BY <3>1, <4>1
      <4>2. CASE ov = FALSE
        <5>1. ~ (Value(e, r) > UMax) /\ Value(e, r) \in Int /\ UMax \in Int
          BY <3>1, <4>2, LexerAssumption
        <5>2. (Value(e, r) > UMax) = FALSE
          BY <5>1
        <5> QED BY <4>2, <5>2, Zenon
      <4> QED BY <3>2, <4>1, <4>2
    <3>4. val = IF ov THEN UMax ELSE Value(e, r)
      BY <3>1, <3>2
    <3> QED BY <1>1, <1>4, <1>5, <3>1, <3>3, <3>4 DEF LiteralsExact
  <2>2. CASE kind # "integer"
    BY <1>1, <2>2 DEF LiteralsExact
  <2> QED BY <2>1, <2>2
<1> QED BY <1>6, <1>7

\* A diagnostic is recorded where the token stands, which is on its line.
LEMMA MarkedNext ==
  ASSUME Sound, Marked, NEW kind, NEW e, NEW val, NEW ov, Scan(kind, e, val, ov)
  PROVE  Marked'
<1>1. text' = text
  BY DEF Scan, Fresh
<1>2. CASE diags' = diags
  BY <1>1, <1>2 DEF Marked
<1>3. CASE diags' = Append(diags, [off |-> Start, len |-> e - Start]) /\ At(Start) # "nl"
           /\ (kind = "error" \/ ov = TRUE)
  <2> DEFINE d == [off |-> Start, len |-> e - Start]
  <2>1. kind # "eof" /\ e \in Start .. Len(text) /\ e > Start
    BY <1>3 DEF Scan, Judged, Worth
  <2>2. /\ text \in Seq(Bytes) /\ Len(text) \in Nat /\ Start \in Nat
        /\ Start \in pos .. Len(text) /\ pos \in Nat
    BY HereIs
  <2>3. At(Start) \notin Blanks /\ Start < Len(text)
    BY <2>1, <2>2, StartIs DEF Sound
  <2>4. text[Start + 1] \notin Breaks
    BY <1>3, <2>2, <2>3, AtIs DEF Blanks, Breaks
  <2>5. d.off = Start /\ d.len = e - Start /\ d \in [off : Nat, len : Nat]
        /\ d.off \in 0 .. Len(text) - 1 /\ d.len \in Nat \ {0}
    BY <2>1, <2>2, <2>3
  <2>6. diags \in Seq([off : Nat, len : Nat])
    BY DEF Marked
  <2> HIDE DEF d
  <2>7. diags' \in Seq([off : Nat, len : Nat]) /\ Len(diags') = Len(diags) + 1
        /\ \A k \in 1 .. Len(diags) + 1 : diags'[k] = IF k = Len(diags) + 1 THEN d ELSE diags[k]
    BY <1>3, <2>5, <2>6 DEF d
  <2>8. ASSUME NEW k \in DOMAIN diags'
        PROVE  /\ diags'[k].off \in 0 .. Len(text) - 1 /\ diags'[k].len \in Nat \ {0}
               /\ text[diags'[k].off + 1] \notin Breaks
    <3>1. k \in 1 .. Len(diags) + 1 /\ Len(diags) \in Nat
      BY <2>6, <2>7
    <3>2. CASE k = Len(diags) + 1
      BY <2>4, <2>5, <2>7, <3>1, <3>2
    <3>3. CASE k # Len(diags) + 1
      <4>1. k \in DOMAIN diags /\ diags'[k] = diags[k]
        BY <2>6, <2>7, <3>1, <3>3
      <4> QED BY <4>1 DEF Marked
    <3> QED BY <3>2, <3>3
  <2> QED BY <1>1, <2>7, <2>8 DEF Marked
<1> QED BY <1>2, <1>3 DEF Scan, Noted, Report, Silent

\* The counters stay the counters of the place.
LEMMA SoundNext ==
  ASSUME Sound, NEW kind, NEW e, NEW val, NEW ov, Scan(kind, e, val, ov)
  PROVE  Sound'
<1>1. pos' = e /\ place' = Loc(text, e) /\ text' = text /\ e \in Start .. Len(text)
  BY DEF Scan, Fresh, Judged
<1>2. e \in 0 .. Len(text) /\ text \in Seq(Bytes)
  BY <1>1, HereIs
<1> QED BY <1>1, <1>2 DEF Sound, Room

\* A call of the scanner preserves the invariant.
LEMMA LexInvNext ==
  ASSUME LexInv, LexNext PROVE LexInv'
<1>1. PICK kind, e, val, ov : Scan(kind, e, val, ov)
  BY LexScans DEF LexInv, Scans
<1> QED BY <1>1, PlacedNext, LexemesNext, MarkedNext, SoundNext DEF LexInv

-----------------------------------------------------------------------------
(* The scanner under the command line. *)

\* Only the dump of a token calls the scanner.
LEMMA OnlyDumpScans ==
  ASSUME [Next]_vars
  PROVE  UNCHANGED lexVars \/ (DumpToken /\ LexNext /\ tok.kind # "eof" /\ phase = "dump")
<1>1. CASE DumpToken
  BY <1>1 DEF DumpToken, Scanning
<1>2. CASE Next /\ ~ DumpToken
  BY <1>2 DEF Next, Work, Information, DumpOption, OutputOption, InputArgument, UsageError,
     EndOfArguments, LoadFails, LoadToDump, LoadToAssemble, DumpEnd, Assemble, OpenFails,
     OpenOutput, WriteOutput, Exited, Quiet, CannotContinue, vars
<1>3. CASE UNCHANGED vars
  BY <1>3 DEF vars
<1> QED BY <1>1, <1>2, <1>3

\* So does a step that does not call it.
LEMMA LexInvSame ==
  ASSUME LexInv, UNCHANGED lexVars PROVE LexInv'
<1>1. /\ text' = text /\ pos' = pos /\ place' = place /\ tok' = tok /\ diags' = diags
  BY DEF lexVars
<1>2. Sound' /\ Marked'
  BY <1>1 DEF LexInv, Sound, Room, Marked
<1>3. CASE tok = NoToken /\ pos = 0
  BY <1>1, <1>2, <1>3 DEF LexInv, NoToken
<1>4. CASE Placed /\ Lexemes /\ LiteralsExact
  <2>1. TokEnd' = TokEnd
    BY <1>1 DEF TokEnd
  <2>2. Placed'
    BY <1>1, <1>4, <2>1 DEF Placed
  <2>3. /\ \A o : At(o)' = At(o)
        /\ \A r, q : Value(q, r)' = Value(q, r)
        /\ \A s : Readings(s)' = Readings(s)
        /\ \A s, q, r : IsNumber(s, q, r)' <=> IsNumber(s, q, r)
        /\ \A k \in LexemeKinds : \A s, q : IsLexeme(k, s, q)' <=> IsLexeme(k, s, q)
    BY <1>1, Unmoved
  <2>4. Lexemes'
    BY <1>1, <1>4, <2>1, <2>3 DEF Lexemes
  <2>5. LiteralsExact'
    BY <1>1, <1>4, <2>1, <2>3 DEF LiteralsExact
  <2> QED BY <1>2, <2>2, <2>4, <2>5 DEF LexInv
<1> QED BY <1>3, <1>4 DEF LexInv

\* The scanner starts in its invariant.
LEMMA LexInvInit ==
  ASSUME Init PROVE LexInv
<1>1. PICK c \in Calls : LexInit(c.text)
  BY DEF Init
<1>2. /\ text = c.text /\ c.text \in Seq(Bytes) /\ pos = 0 /\ place = [line |-> 1, column |-> 1]
      /\ tok = NoToken /\ diags = <<>>
  BY <1>1, CliAssumption DEF LexInit
<1>3. Sound
  BY <1>2, LocIs DEF Sound, Room
<1>4. Marked
  BY <1>2 DEF Marked
<1> QED BY <1>2, <1>3, <1>4 DEF LexInv

\* The invariant of the scanner, whoever calls it.
LEMMA LexInvariant == Spec => []LexInv
<1>1. Init => LexInv
  BY LexInvInit
<1>2. LexInv /\ [Next]_vars => LexInv'
  BY OnlyDumpScans, LexInvSame, LexInvNext
<1> QED BY <1>1, <1>2, PTL DEF Spec

\* Every token the scanner produces is what its span says, in kind, extent and
\* value, and it makes an error only where there is no token (lexer.c:293).
THEOREM TokensAreCorrect == Spec => []TokensCorrect
<1>1. LexInv => TokensCorrect
  <2>1. CASE tok = NoToken
    BY <2>1 DEF TokensCorrect, Lexemes, LiteralsExact, NoToken, LexemeKinds
  <2> QED BY <2>1 DEF LexInv, TokensCorrect
<1> QED BY <1>1, LexInvariant, PTL

\* The scanner's counters, the line index and the marks under a diagnostic agree
\* on every place (lexer.c:71, source.c:184, diag.c:162).
THEOREM PositionsDoAgree == Spec => []PositionsAgree
<1>1. ASSUME LexInv PROVE LocationsAgree
  <2>1. CASE tok = NoToken
    BY <2>1 DEF LocationsAgree, NoToken
  <2>2. CASE Placed
    <3>1. tok.off \in 0 .. Len(text) /\ text \in Seq(Bytes)
      BY <1>1, <2>2, AtIs DEF LexInv, Sound, Room, Placed
    <3>2. Location(text, tok.off) = Loc(text, tok.off) /\ Loc(text, tok.off) \in Place
      BY <3>1, LocationIs, LocIs
    <3> QED BY <2>2, <3>2 DEF LocationsAgree, Placed, Place
  <2> QED BY <1>1, <2>1, <2>2 DEF LexInv
<1>2. ASSUME LexInv PROVE MarksUnderSpan
  <2>1. text \in Seq(Bytes)
    BY <1>2 DEF LexInv, Sound, Room
  <2>2. \A k \in DOMAIN diags :
          /\ diags[k].off \in 0 .. Len(text) - 1 /\ diags[k].len \in Nat \ {0}
          /\ text[diags[k].off + 1] \notin Breaks
    BY <1>2 DEF LexInv, Marked
  <2> QED BY <2>1, <2>2, MarksAre DEF MarksUnderSpan
<1>3. LexInv => PositionsAgree
  BY <1>1, <1>2 DEF PositionsAgree
<1> QED BY <1>3, LexInvariant, PTL

-----------------------------------------------------------------------------
(* The token stream. *)

\* A call of the scanner produces the next token of a stream.
LEMMA StreamNext ==
  ASSUME LexInv, LexNext, tok.kind # "eof" PROVE Stream!Next
<1> DEFINE t == [kind |-> tok.kind, off |-> tok.off, len |-> tok.len, line |-> tok.line]
<1>1. PICK kind, e, val, ov : Scan(kind, e, val, ov)
  BY LexScans DEF LexInv, Scans
<1>2. /\ tok'.kind = kind /\ tok'.off = Start /\ tok'.len = e - Start
      /\ tok'.line = Loc(text, Start).line /\ kind \in AllKinds /\ e \in Start .. Len(text)
      /\ IF kind = "eof" THEN e = Start ELSE e > Start
  BY <1>1 DEF Scan, Fresh, Judged
<1>3. /\ text \in Seq(Bytes) /\ Len(text) \in Nat /\ Start \in Nat /\ pos \in 0 .. Len(text)
      /\ Start \in pos .. Len(text) /\ Start \in 0 .. Len(text)
      /\ \A j \in pos .. Start - 1 : At(j) # "nl"
  BY HereIs, StartIs DEF LexInv, Sound, Room
<1>4. Loc(text, Start).line \in Nat /\ Loc(text, Start).line = Loc(text, pos).line
  BY <1>3, LineSame, LocIs DEF Place
<1>5. tok.off + tok.len = pos /\ Loc(text, pos).line = tok.line + IF tok.kind = "newline" THEN 1 ELSE 0
  <2>1. CASE tok = NoToken /\ pos = 0
    <3>1. Loc(text, 0).line = 1
      BY <1>3, LocIs
    <3> QED BY <2>1, <3>1 DEF NoToken
  <2>2. CASE Placed
    BY <2>2 DEF Placed, TokEnd
  <2> QED BY <2>1, <2>2 DEF LexInv
<1>6. kind \in Stream!Kinds
  BY <1>2 DEF AllKinds, LexemeKinds, Stream!Kinds
<1>7. e - Start \in Nat /\ (e > Start => e - Start > 0) /\ (e = Start => e - Start = 0) /\ Start >= pos
  BY <1>2, <1>3
<1>8. t' = [kind |-> kind, off |-> Start, len |-> e - Start, line |-> Loc(text, Start).line]
  BY <1>2
<1>9. t' \in Stream!Token
  BY <1>3, <1>4, <1>6, <1>7, <1>8 DEF Stream!Token
<1>10. /\ t'.kind = kind /\ t'.off = Start /\ t'.len = e - Start /\ t'.line = Loc(text, Start).line
       /\ t.kind = tok.kind /\ t.off = tok.off /\ t.len = tok.len /\ t.line = tok.line
  BY <1>8
<1> QED BY <1>2, <1>4, <1>5, <1>6, <1>7, <1>9, <1>10 DEF Stream!Next, Stream!Produce

\* The scanner's tokens come in the order of the source, none over another, each
\* on its line, up to an end of file that stays (lexer.c:293, lexer.h).
THEOREM ScannerIsTokenStream == Spec => ImplementsTokenStream
<1> DEFINE t == [kind |-> tok.kind, off |-> tok.off, len |-> tok.len, line |-> tok.line]
<1>1. Init => Stream!Init
  <2>1. ASSUME Init PROVE tok = NoToken
    BY <2>1 DEF Init, LexInit
  <2> QED BY <2>1 DEF NoToken, Stream!Init, Stream!NoToken
<1>2. ASSUME LexInv, [Next]_vars PROVE [Stream!Next]_t
  <2>1. CASE UNCHANGED lexVars
    BY <2>1 DEF lexVars
  <2>2. CASE LexNext /\ tok.kind # "eof"
    BY <1>2, <2>2, StreamNext
  <2> QED BY <1>2, <2>1, <2>2, OnlyDumpScans
<1> QED BY <1>1, <1>2, LexInvariant, PTL DEF Spec, ImplementsTokenStream, Stream!Spec

-----------------------------------------------------------------------------
(* Decoding a string. *)

\* A run of digits ends where it should.
LEMMA RunEndIs ==
  ASSUME NEW i \in Nat, NEW end \in Nat, i <= end, NEW limit \in Nat, NEW S
  PROVE  LET q == RunEnd(text, i, end, limit, S)
         IN /\ q \in i .. end /\ q <= i + limit /\ \A j \in i .. q - 1 : At(j) \in S
            /\ q = end \/ q = i + limit \/ At(q) \notin S
<1> DEFINE Halts(q) == q = end \/ q = i + limit \/ At(q) \notin S
           Run(q) == /\ q <= i + limit /\ \A j \in i .. q - 1 : At(j) \in S
                     /\ Halts(q)
           C == {q \in Nat : q >= i /\ Halts(q)}
<1>1. end \in C
  OBVIOUS
<1>2. PICK m \in C : \A k \in C : m <= k
  <2>1. C \in SUBSET Nat /\ C # {}
    BY <1>1
  <2> HIDE DEF C
  <2> QED BY <2>1, LeastNat
<1>3. \A j \in i .. m - 1 : At(j) \in S
  <2>1. ASSUME NEW j \in i .. m - 1 PROVE At(j) \in S
    <3>1. j \in Nat /\ j >= i /\ j < m
      BY <1>2
    <3>2. j \notin C
      BY <1>2, <3>1
    <3> QED BY <3>1, <3>2
  <2> QED BY <2>1
<1>4. m \in i .. end /\ m <= i + limit
  <2>1. m <= end
    BY <1>1, <1>2
  <2>2. i + limit \in C
    OBVIOUS
  <2> QED BY <1>2, <2>1, <2>2
<1>5. Run(m)
  BY <1>2, <1>3, <1>4
<1>6. RunEnd(text, i, end, limit, S) = CHOOSE q \in i .. end : Run(q)
  BY DEF RunEnd, At
<1> HIDE DEF Run
<1>7. Run(CHOOSE q \in i .. end : Run(q)) /\ (CHOOSE q \in i .. end : Run(q)) \in i .. end
  BY <1>4, <1>5
<1> QED BY <1>6, <1>7 DEF Run

\* One step of the decoder, in terms of what it makes of the rest.
EscapeOf(f, i, hex, octal) ==
  IF At(i + 1) = "x" THEN IF hex = i + 2 THEN Got(f[hex], 0, 1, TRUE) ELSE Got(f[hex], 1, 0, TRUE)
  ELSE IF At(i + 1) \in OctalDigits THEN Got(f[octal], 1, 0, TRUE)
  ELSE Got(f[i + 2], 1, IF At(i + 1) \in Plain THEN 0 ELSE 1, TRUE)

DecodeStep(f, i, end, len) ==
  IF At(i) # "backslash" THEN Got(f[i + 1], 1, 0, TRUE)
  ELSE IF i + 1 < end
       THEN EscapeOf(f, i, RunEnd(text, i + 2, end, len, HexDigits),
                     RunEnd(text, i + 1, end, 3, OctalDigits))
       ELSE Got(f[end], 1, 0, FALSE)

\* A step of the decoder is a jump to q: over a plain byte, or over an escape and
\* just the bytes it takes.
JumpsTo(i, end, len, q, b, r, c) ==
  /\ q \in i + 1 .. end /\ b \in Nat /\ r \in Nat /\ c \in {TRUE, FALSE}
  /\ \A f : DecodeStep(f, i, end, len) = Got(f[q], b, r, c)
  /\ At(i) # "backslash" => q = i + 1 /\ b = 1 /\ c = TRUE
  /\ At(i) = "backslash" /\ i + 1 < end =>
       /\ c = TRUE /\ Taken(i, end) = i + 1 .. q - 1 /\ q >= i + 2
       /\ b = IF Empty(i, end) THEN 0 ELSE 1
       /\ \A j \in i + 2 .. q - 1 : At(j) # "backslash"

\* Wherever the decoder stands inside a string, one jump is its next.
LEMMA JumpExists ==
  ASSUME text \in Seq(Bytes), NEW i \in Nat, NEW end \in 0 .. Len(text), i < end,
         NEW len \in Nat, len >= end - i
  PROVE  \E q, b, r, c : JumpsTo(i, end, len, q, b, r, c)
<1>1. end \in Nat /\ Len(text) \in Nat /\ i + 1 \in i + 1 .. end /\ i + 1 <= end
  BY AtIs
<1>2. "backslash" \notin HexDigits /\ "backslash" \notin OctalDigits /\ OctalDigits \subseteq HexDigits
      /\ "x" \notin HexDigits /\ "x" \notin OctalDigits
  BY DEF HexDigits, OctalDigits
<1>3. CASE At(i) # "backslash"
  <2>1. JumpsTo(i, end, len, i + 1, 1, 0, TRUE)
    BY <1>1, <1>3 DEF JumpsTo, DecodeStep
  <2> QED BY <2>1
<1>4. CASE At(i) = "backslash" /\ ~ (i + 1 < end)
  <2>1. \A f : DecodeStep(f, i, end, len) = Got(f[end], 1, 0, FALSE)
    BY <1>4 DEF DecodeStep
  <2>2. end \in i + 1 .. end
    BY <1>1
  <2>3. JumpsTo(i, end, len, end, 1, 0, FALSE)
    BY <1>4, <2>1, <2>2 DEF JumpsTo
  <2> QED BY <2>3
<1>5. CASE At(i) = "backslash" /\ i + 1 < end /\ At(i + 1) = "x"
  <2> DEFINE q == RunEnd(text, i + 2, end, len, HexDigits)
             b == IF q = i + 2 THEN 0 ELSE 1
  <2>1. i + 2 \in Nat /\ i + 2 <= end
    BY <1>1, <1>5
  <2>2. /\ q \in i + 2 .. end /\ \A j \in i + 2 .. q - 1 : At(j) \in HexDigits
        /\ q = end \/ q = (i + 2) + len \/ At(q) \notin HexDigits
    BY <1>1, <2>1, RunEndIs
  <2>3. \A f : DecodeStep(f, i, end, len) = Got(f[q], b, 1 - b, TRUE)
    <3>1. q = i + 2 \/ (q > i + 2 /\ q # i + 2)
      BY <2>1, <2>2
    <3>2. q > i + 2 => q # i + 2
      BY <1>1, <2>1, <2>2
    <3> DEFINE octal == RunEnd(text, i + 1, end, 3, OctalDigits)
    <3>3. \A f : DecodeStep(f, i, end, len) = EscapeOf(f, i, q, octal)
      BY <1>5 DEF DecodeStep
    <3> HIDE DEF q, octal
    <3>4. \A f : /\ q = i + 2 => DecodeStep(f, i, end, len) = Got(f[q], 0, 1, TRUE)
                 /\ q > i + 2 => DecodeStep(f, i, end, len) = Got(f[q], 1, 0, TRUE)
      BY <1>5, <3>2, <3>3 DEF EscapeOf
    <3>5. 1 - 0 = 1 /\ 1 - 1 = 0
      OBVIOUS
    <3> QED BY <3>1, <3>4, <3>5
  <2> HIDE DEF q
  <2>4. q = end \/ At(q) \notin HexDigits
    BY <1>1, <2>1, <2>2
  <2>5. \A j \in i + 1 .. end - 1 :
          Span(i + 2, j + 1) \subseteq HexDigits <=> \A k \in i + 2 .. j : At(k) \in HexDigits
    <3>1. ASSUME NEW j \in i + 1 .. end - 1
          PROVE  Span(i + 2, j + 1) \subseteq HexDigits <=> \A k \in i + 2 .. j : At(k) \in HexDigits
      <4>1. j + 1 \in 0 .. Len(text) /\ (j + 1) - 1 = j
        BY <1>1
      <4> QED BY <2>1, <4>1, SpanIs
    <3> QED BY <3>1
  <2>6. \A j \in i + 1 .. end - 1 : ~ (Span(i + 1, j + 1) \subseteq OctalDigits)
    <3>1. ASSUME NEW j \in i + 1 .. end - 1, Span(i + 1, j + 1) \subseteq OctalDigits PROVE FALSE
      <4>1. j + 1 \in 0 .. Len(text) /\ (j + 1) - 1 = j /\ i + 1 \in i + 1 .. j /\ i + 1 \in Nat
        BY <1>1
      <4>2. At(i + 1) \in OctalDigits
        BY <3>1, <4>1, SpanIs
      <4> QED BY <1>2, <1>5, <4>2
    <3> QED BY <3>1
  <2>7. Taken(i, end) = i + 1 .. q - 1
    <3>1. \A j : j \in Taken(i, end) <=>
            j \in i + 1 .. end - 1 /\ (j = i + 1 \/ \A k \in i + 2 .. j : At(k) \in HexDigits)
      BY <1>5, <2>5, <2>6 DEF Taken
    <3>2. ASSUME NEW j \in Taken(i, end) PROVE j \in i + 1 .. q - 1
      <4>1. j \in i + 1 .. end - 1 /\ (j = i + 1 \/ \A k \in i + 2 .. j : At(k) \in HexDigits)
        BY <3>1
      <4>2. CASE j >= q
        <5>1. q # end /\ q \in i + 2 .. j /\ j # i + 1
          BY <1>1, <2>1, <2>2, <4>1, <4>2
        <5> QED BY <2>4, <4>1, <5>1
      <4> QED BY <1>1, <2>2, <4>1, <4>2
    <3>3. ASSUME NEW j \in i + 1 .. q - 1 PROVE j \in Taken(i, end)
      <4>1. j \in i + 1 .. end - 1 /\ \A k \in i + 2 .. j : k \in i + 2 .. q - 1
        BY <1>1, <2>2
      <4> QED BY <2>2, <3>1, <4>1
    <3> QED BY <3>2, <3>3
  <2>8. Empty(i, end) <=> q = i + 2
    <3>1. Empty(i, end) <=> i + 1 .. q - 1 = {i + 1}
      BY <1>5, <2>7 DEF Empty
    <3>2. CASE q = i + 2
      <4>1. i + 1 .. q - 1 = {i + 1}
        BY <3>2
      <4> QED BY <3>1, <3>2, <4>1
    <3>3. CASE q # i + 2
      <4>1. i + 2 \in i + 1 .. q - 1 /\ i + 2 # i + 1
        BY <2>1, <2>2, <3>3
      <4>2. i + 1 .. q - 1 # {i + 1}
        BY <4>1
      <4> QED BY <3>1, <3>3, <4>2
    <3> QED BY <3>2, <3>3
  <2>9. q \in i + 1 .. end /\ q >= i + 2 /\ b \in Nat /\ 1 - b \in Nat
    BY <1>1, <2>1, <2>2
  <2>10. \A j \in i + 2 .. q - 1 : At(j) # "backslash"
    BY <1>2, <2>2
  <2>11. b = IF Empty(i, end) THEN 0 ELSE 1
    BY <2>8
  <2> HIDE DEF b
  <2>12. JumpsTo(i, end, len, q, b, 1 - b, TRUE)
    BY <1>5, <2>3, <2>7, <2>9, <2>10, <2>11 DEF JumpsTo
  <2> QED BY <2>12
<1>6. CASE At(i) = "backslash" /\ i + 1 < end /\ At(i + 1) \in OctalDigits
  <2> DEFINE q == RunEnd(text, i + 1, end, 3, OctalDigits)
  <2>1. At(i + 1) # "x" /\ i + 1 \in Nat
    BY <1>2, <1>6
  <2>2. /\ q \in i + 1 .. end /\ q <= (i + 1) + 3 /\ \A j \in i + 1 .. q - 1 : At(j) \in OctalDigits
        /\ q = end \/ q = (i + 1) + 3 \/ At(q) \notin OctalDigits
    BY <1>1, <2>1, RunEndIs
  <2>3. \A f : DecodeStep(f, i, end, len) = Got(f[q], 1, 0, TRUE)
    <3> DEFINE hex == RunEnd(text, i + 2, end, len, HexDigits)
    <3>1. \A f : DecodeStep(f, i, end, len) = EscapeOf(f, i, hex, q)
      BY <1>6 DEF DecodeStep
    <3> HIDE DEF q, hex
    <3> QED BY <1>6, <2>1, <3>1 DEF EscapeOf
  <2> HIDE DEF q
  <2>4. q >= i + 2
    BY <1>1, <1>6, <2>2
  <2>5. \A j \in i + 1 .. end - 1 :
          (Span(i + 1, j + 1) \subseteq OctalDigits <=> \A k \in i + 1 .. j : At(k) \in OctalDigits)
    <3>1. ASSUME NEW j \in i + 1 .. end - 1
          PROVE  Span(i + 1, j + 1) \subseteq OctalDigits <=> \A k \in i + 1 .. j : At(k) \in OctalDigits
      <4>1. j + 1 \in 0 .. Len(text) /\ (j + 1) - 1 = j
        BY <1>1
      <4> QED BY <2>1, <4>1, SpanIs
    <3> QED BY <3>1
  <2>6. Taken(i, end) = i + 1 .. q - 1
    <3>1. \A j : j \in Taken(i, end) <=>
            j \in i + 1 .. end - 1
            /\ (j = i + 1 \/ (j <= i + 3 /\ \A k \in i + 1 .. j : At(k) \in OctalDigits))
      BY <2>1, <2>5 DEF Taken
    <3>2. ASSUME NEW j \in Taken(i, end) PROVE j \in i + 1 .. q - 1
      <4>1. j \in i + 1 .. end - 1
            /\ (j = i + 1 \/ (j <= i + 3 /\ \A k \in i + 1 .. j : At(k) \in OctalDigits))
        BY <3>1
      <4>2. CASE j >= q
        <5>1. q # end /\ q \in i + 1 .. j /\ j # i + 1
          BY <1>1, <2>2, <2>4, <4>1, <4>2
        <5>2. q = i + 4 \/ At(q) \notin OctalDigits
          BY <2>2, <5>1
        <5> QED BY <4>1, <4>2, <5>1, <5>2
      <4> QED BY <1>1, <2>2, <4>1, <4>2
    <3>3. ASSUME NEW j \in i + 1 .. q - 1 PROVE j \in Taken(i, end)
      <4>1. j \in i + 1 .. end - 1 /\ j <= i + 3 /\ \A k \in i + 1 .. j : k \in i + 1 .. q - 1
        BY <1>1, <2>2
      <4> QED BY <2>2, <3>1, <4>1
    <3> QED BY <3>2, <3>3
  <2>7. ~ Empty(i, end)
    BY <2>1 DEF Empty
  <2>8. \A j \in i + 2 .. q - 1 : At(j) # "backslash"
    <3>1. \A j \in i + 2 .. q - 1 : j \in i + 1 .. q - 1
      BY <2>2
    <3> QED BY <1>2, <2>2, <3>1
  <2>9. JumpsTo(i, end, len, q, 1, 0, TRUE)
    BY <1>6, <2>2, <2>3, <2>4, <2>6, <2>7, <2>8 DEF JumpsTo
  <2> QED BY <2>9
<1>7. CASE At(i) = "backslash" /\ i + 1 < end /\ At(i + 1) \notin OctalDigits /\ At(i + 1) # "x"
  <2> DEFINE r == IF At(i + 1) \in Plain THEN 0 ELSE 1
  <2>1. \A f : DecodeStep(f, i, end, len) = Got(f[i + 2], 1, r, TRUE)
    <3> DEFINE hex   == RunEnd(text, i + 2, end, len, HexDigits)
               octal == RunEnd(text, i + 1, end, 3, OctalDigits)
    <3>1. \A f : DecodeStep(f, i, end, len) = EscapeOf(f, i, hex, octal)
      BY <1>7 DEF DecodeStep
    <3> HIDE DEF hex, octal
    <3> QED BY <1>7, <3>1 DEF EscapeOf
  <2>2. i + 2 \in i + 1 .. end /\ i + 2 >= i + 2 /\ i + 1 .. (i + 2) - 1 = {i + 1} /\ r \in Nat
        /\ \A j \in i + 2 .. (i + 2) - 1 : FALSE
    BY <1>1, <1>7
  <2>3. Taken(i, end) = {i + 1}
    <3>1. \A j \in i + 1 .. end - 1 : ~ (Span(i + 1, j + 1) \subseteq OctalDigits)
      <4>1. ASSUME NEW j \in i + 1 .. end - 1, Span(i + 1, j + 1) \subseteq OctalDigits PROVE FALSE
        <5>1. j + 1 \in 0 .. Len(text) /\ (j + 1) - 1 = j /\ i + 1 \in i + 1 .. j /\ i + 1 \in Nat
          BY <1>1
        <5>2. At(i + 1) \in OctalDigits
          BY <4>1, <5>1, SpanIs
        <5> QED BY <1>7, <5>2
      <4> QED BY <4>1
    <3>2. i + 1 \in i + 1 .. end - 1
      BY <1>1, <1>7
    <3> QED BY <1>7, <3>1, <3>2 DEF Taken
  <2>4. ~ Empty(i, end)
    BY <1>7 DEF Empty
  <2> HIDE DEF r
  <2>5. JumpsTo(i, end, len, i + 2, 1, r, TRUE)
    BY <1>7, <2>1, <2>2, <2>3, <2>4 DEF JumpsTo
  <2> QED BY <2>5
<1> QED BY <1>3, <1>4, <1>5, <1>6, <1>7

Tallies == [bytes : Nat, reported : Nat, inside : BOOLEAN]

NoneLeft == [bytes |-> 0, reported |-> 0, inside |-> TRUE]

\* What is added to a count of bytes is one.
LEMMA GotIs ==
  ASSUME NEW x \in Tallies, NEW b \in Nat, NEW r \in Nat, NEW c \in {TRUE, FALSE}
  PROVE  /\ Got(x, b, r, c) \in Tallies /\ Got(x, b, r, c).bytes = x.bytes + b
         /\ x.inside = TRUE /\ c = TRUE => Got(x, b, r, c).inside = TRUE
<1>1. x.bytes \in Nat /\ x.reported \in Nat /\ x.inside \in BOOLEAN
  BY DEF Tallies
<1>2. (x.inside /\ c) \in BOOLEAN
  BY <1>1
<1>3. Got(x, b, r, c) = [bytes |-> x.bytes + b, reported |-> x.reported + r, inside |-> x.inside /\ c]
  BY DEF Got
<1>4. Got(x, b, r, c) \in Tallies
  BY <1>1, <1>2, <1>3 DEF Tallies
<1>5. Got(x, b, r, c).bytes = x.bytes + b
  BY <1>3
<1>6. ASSUME x.inside = TRUE, c = TRUE PROVE Got(x, b, r, c).inside = TRUE
  <2>1. (x.inside /\ c) = TRUE
    BY <1>6
  <2>2. Got(x, b, r, c).inside = (x.inside /\ c)
    BY <1>3
  <2> QED BY <2>1, <2>2, Zenon
<1> QED BY <1>4, <1>5, <1>6

\* The decoder's recursion, as it is written.
DecodeBody(f, i, end, len) ==
  IF At(i) # "backslash" THEN Got(f[i + 1], 1, 0, TRUE)
  ELSE LET c   == At(i + 1)
           in  == i + 1 < end
           hex == RunEnd(text, i + 2, end, len, HexDigits)
       IN IF ~in THEN Got(f[end], 1, 0, FALSE)
          ELSE CASE c = "x" /\ hex = i + 2 -> Got(f[hex], 0, 1, in)
                 [] c = "x" /\ hex > i + 2 -> Got(f[hex], 1, 0, in)
                 [] c \in OctalDigits -> Got(f[RunEnd(text, i + 1, end, 3, OctalDigits)], 1, 0, in)
                 [] c \in Plain -> Got(f[i + 2], 1, 0, in)
                 [] OTHER -> Got(f[i + 2], 1, 1, in)

\* It is the recursion by jumps.
LEMMA DecodeBodyIs ==
  ASSUME NEW f, NEW i \in Nat, NEW end \in Nat, NEW len \in Nat, i < end
  PROVE  DecodeBody(f, i, end, len) = DecodeStep(f, i, end, len)
<1> DEFINE y   == At(i + 1)
           in  == i + 1 < end
           hex == RunEnd(text, i + 2, end, len, HexDigits)
           oct == RunEnd(text, i + 1, end, 3, OctalDigits)
           none == hex = i + 2
           some == hex > i + 2
           r0 == Got(f[end], 1, 0, FALSE)
           r1 == Got(f[hex], 0, 1, in)
           r2 == Got(f[hex], 1, 0, in)
           r3 == Got(f[oct], 1, 0, in)
           r4 == Got(f[i + 2], 1, 0, in)
           r5 == Got(f[i + 2], 1, 1, in)
           start == Got(f[i + 1], 1, 0, TRUE)
           got == IF ~in THEN r0
                  ELSE CASE y = "x" /\ none -> r1 [] y = "x" /\ some -> r2
                         [] y \in OctalDigits -> r3 [] y \in Plain -> r4 [] OTHER -> r5
           esc == EscapeOf(f, i, hex, oct)
<1>1. "x" \notin OctalDigits /\ "x" \notin Plain /\ OctalDigits \cap Plain = {}
  BY DEF OctalDigits, Plain
<1>2. in => (none \/ some) /\ ~ (none /\ some)
  <2>1. ASSUME in PROVE (none \/ some) /\ ~ (none /\ some)
    <3>1. i + 2 \in Nat /\ i + 2 <= end
      BY <2>1
    <3>2. hex \in i + 2 .. end
      BY <3>1, RunEndIs
    <3> HIDE DEF hex
    <3> QED BY <3>1, <3>2
  <2> QED BY <2>1
<1>3. ASSUME in
      PROVE  esc = IF y = "x" THEN IF none THEN r1 ELSE r2
                   ELSE IF y \in OctalDigits THEN r3 ELSE IF y \in Plain THEN r4 ELSE r5
  <2>1. (i + 1 < end) = TRUE
    BY <1>3
  <2> HIDE DEF hex, oct
  <2>2. esc = IF y = "x" THEN IF none THEN Got(f[hex], 0, 1, TRUE) ELSE Got(f[hex], 1, 0, TRUE)
              ELSE IF y \in OctalDigits THEN Got(f[oct], 1, 0, TRUE)
              ELSE Got(f[i + 2], 1, IF y \in Plain THEN 0 ELSE 1, TRUE)
    BY DEF EscapeOf
  <2>3. r1 = Got(f[hex], 0, 1, TRUE) /\ r2 = Got(f[hex], 1, 0, TRUE) /\ r3 = Got(f[oct], 1, 0, TRUE)
        /\ r4 = Got(f[i + 2], 1, 0, TRUE) /\ r5 = Got(f[i + 2], 1, 1, TRUE)
    BY <2>1, Zenon
  <2> HIDE DEF r1, r2, r3, r4, r5, y, none, esc
  <2> QED BY <2>2, <2>3
<1>4. DecodeStep(f, i, end, len) = IF At(i) # "backslash" THEN start ELSE IF in THEN esc ELSE r0
  BY DEF DecodeStep
<1>7. DecodeBody(f, i, end, len) = IF At(i) # "backslash" THEN start ELSE got
  BY DEF DecodeBody
<1>5. in => got = esc
  <2> HIDE DEF y, r0, r1, r2, r3, r4, r5, none, some, esc, in
  <2>1. CASE y = "x"
    BY <1>1, <1>2, <1>3, <2>1
  <2>2. CASE y # "x"
    BY <1>1, <1>3, <2>2
  <2> QED BY <2>1, <2>2
<1>6. ~ in => got = r0
  OBVIOUS
<1> HIDE DEF got, esc, r0, in, start
<1> QED BY <1>4, <1>5, <1>6, <1>7

\* The decoder works: each of its steps is one jump, up to the closing quote.
LEMMA DecodeIs ==
  ASSUME text \in Seq(Bytes), NEW off \in Nat, NEW len \in Nat, len >= 2, off + len <= Len(text)
  PROVE  LET end == off + len - 1
         IN \E g : /\ g \in [off .. end + 1 -> Tallies] /\ Decode(text, off, len) = g[off + 1]
                   /\ g[end] = NoneLeft
                   /\ \A i \in off .. end - 1 : g[i] = DecodeStep(g, i, end, len)
<1> DEFINE end == off + len - 1
           I   == off .. end + 1
           n   == len
           Val(f, i) == IF i >= end THEN NoneLeft ELSE DecodeStep(f, i, end, len)
           Body(f, i) ==
             IF i >= end THEN [bytes |-> 0, reported |-> 0, inside |-> TRUE]
             ELSE IF ByteAt(text, i) # "backslash" THEN Got(f[i + 1], 1, 0, TRUE)
             ELSE LET c   == ByteAt(text, i + 1)
                      in  == i + 1 < end
                      hex == RunEnd(text, i + 2, end, len, HexDigits)
                  IN IF ~in THEN Got(f[end], 1, 0, FALSE)
                     ELSE CASE c = "x" /\ hex = i + 2 -> Got(f[hex], 0, 1, in)
                            [] c = "x" /\ hex > i + 2 -> Got(f[hex], 1, 0, in)
                            [] c \in OctalDigits ->
                                 Got(f[RunEnd(text, i + 1, end, 3, OctalDigits)], 1, 0, in)
                            [] c \in Plain -> Got(f[i + 2], 1, 0, in)
                            [] OTHER -> Got(f[i + 2], 1, 1, in)
           Fits(f) == f = [i \in I |-> Body(f, i)]
           w == CHOOSE f : Fits(f)
           rank == [i \in I |-> end + 1 - i]
           F == [i \in I |-> [f \in [I -> Tallies] |-> Val(f, i)]]
<1>1. /\ Len(text) \in Nat /\ end \in Nat /\ end \in 0 .. Len(text) /\ off < end
      /\ \A i \in I : i \in Nat /\ end + 1 - i \in 0 .. n
      /\ \A i \in I : ~ (i >= end) => i < end /\ len >= end - i
      /\ \A i \in I : \A q \in i + 1 .. end : q \in I /\ end + 1 - q < end + 1 - i
      /\ off + 1 \in I /\ end \in I /\ n \in Nat
      /\ \A i \in off .. end - 1 : i \in I /\ ~ (i >= end)
  <2>1. Len(text) \in Nat
    BY AtIs
  <2> QED BY <2>1
<1>2. Decode(text, off, len) = w[off + 1]
  BY DEF Decode
<1> HIDE DEF w
<1>3. \A f, i : i \in I => Body(f, i) = Val(f, i)
  <2>1. ASSUME NEW f, NEW i \in I PROVE Body(f, i) = Val(f, i)
    <3>1. CASE i >= end
      BY <3>1 DEF NoneLeft
    <3>2. CASE ~ (i >= end)
      <4>1. i \in Nat /\ i < end /\ end \in Nat
        BY <1>1, <3>2
      <4> HIDE DEF end, I
      <4>2. Val(f, i) = DecodeStep(f, i, end, len)
        BY <3>2
      <4>3. Body(f, i) = DecodeBody(f, i, end, len)
        BY <3>2 DEF At, DecodeBody
      <4> HIDE DEF Body
      <4> QED BY <4>1, <4>2, <4>3, DecodeBodyIs
    <3> QED BY <3>1, <3>2
  <2> QED BY <2>1
<1> HIDE DEF Body
<1> HIDE DEF rank
<1>4. rank \in [I -> 0 .. n] /\ \A i \in I : rank[i] = end + 1 - i
  <2> HIDE DEF I, n
  <2> QED BY <1>1 DEF rank
<1>5. \A i \in I : \A q \in i + 1 .. end : rank[q] < rank[i]
  BY <1>1, <1>4
<1> HIDE DEF end, I, n
<1>6. NoneLeft \in Tallies
  BY DEF NoneLeft, Tallies
<1>7. ASSUME NEW i \in I, ~ (i >= end) PROVE \E q, b, r, c : JumpsTo(i, end, len, q, b, r, c)
  BY <1>1, <1>7, JumpExists
<1>8. ASSUME NEW i \in I, NEW f \in [I -> Tallies] PROVE Val(f, i) \in Tallies
  <2>1. CASE i >= end
    BY <1>6, <2>1
  <2>2. CASE ~ (i >= end)
    <3>1. PICK q, b, r, c : JumpsTo(i, end, len, q, b, r, c)
      BY <1>7, <2>2
    <3>2. /\ q \in i + 1 .. end /\ b \in Nat /\ r \in Nat /\ c \in {TRUE, FALSE}
          /\ DecodeStep(f, i, end, len) = Got(f[q], b, r, c)
      BY <3>1 DEF JumpsTo
    <3>3. f[q] \in Tallies
      BY <1>1, <3>2
    <3>4. Got(f[q], b, r, c) \in Tallies
      BY <3>2, <3>3, GotIs
    <3> QED BY <2>2, <3>2, <3>4
  <2> QED BY <2>1, <2>2
<1>9. ASSUME NEW i \in I, NEW f \in [I -> Tallies], NEW h \in [I -> Tallies],
             \A j \in I : rank[j] < rank[i] => f[j] = h[j]
      PROVE  Val(f, i) = Val(h, i)
  <2>1. CASE i >= end
    BY <2>1
  <2>2. CASE ~ (i >= end)
    <3>1. PICK q, b, r, c : JumpsTo(i, end, len, q, b, r, c)
      BY <1>7, <2>2
    <3>2. /\ q \in i + 1 .. end
          /\ DecodeStep(f, i, end, len) = Got(f[q], b, r, c)
          /\ DecodeStep(h, i, end, len) = Got(h[q], b, r, c)
      BY <3>1 DEF JumpsTo
    <3>3. f[q] = h[q]
      BY <1>1, <1>5, <1>9, <3>2
    <3> QED BY <2>2, <3>2, <3>3
  <2> QED BY <2>1, <2>2
<1> HIDE DEF Val
<1>10. F \in [I -> [[I -> Tallies] -> Tallies]] /\ \A i \in I, f \in [I -> Tallies] : F[i][f] = Val(f, i)
  BY <1>8
<1> HIDE DEF F
<1>11. PICK g : Solves(g, F, I, Tallies)
  <2>1. ASSUME NEW i \in I, NEW f \in [I -> Tallies], NEW h \in [I -> Tallies],
               \A j \in I : rank[j] < rank[i] => f[j] = h[j]
        PROVE  F[i][f] = F[i][h]
    <3>1. Val(f, i) = Val(h, i)
      BY <1>9, <2>1
    <3> QED BY <1>10, <3>1
  <2>2. LooksBelow(F, I, Tallies, rank)
    BY <1>10, <2>1 DEF LooksBelow
  <2>3. Tallies # {}
    BY <1>6
  <2> QED BY <1>1, <1>4, <2>2, <2>3, RankedRecursion
<1>12. Fits(w)
  <2>1. g \in [I -> Tallies] /\ \A i \in I : g[i] = Body(g, i)
    BY <1>3, <1>10, <1>11 DEF Solves
  <2>2. Fits(g)
    BY <2>1
  <2> QED BY <2>2 DEF w, Body, I, end
<1>13. \A i \in I : w[i] = Val(w, i)
  BY <1>3, <1>12
<1> DEFINE S == {m \in Nat : \A i \in I : rank[i] <= m => w[i] \in Tallies}
<1>14. ASSUME NEW i \in I, \A j \in I : rank[j] < rank[i] => w[j] \in Tallies
       PROVE  w[i] \in Tallies
  <2>1. CASE i >= end
    BY <1>6, <1>13, <2>1 DEF Val
  <2>2. CASE ~ (i >= end)
    <3>1. PICK q, b, r, c : JumpsTo(i, end, len, q, b, r, c)
      BY <1>7, <2>2
    <3>2. /\ q \in i + 1 .. end /\ b \in Nat /\ r \in Nat /\ c \in {TRUE, FALSE}
          /\ DecodeStep(w, i, end, len) = Got(w[q], b, r, c)
      BY <3>1 DEF JumpsTo
    <3>3. w[q] \in Tallies
      BY <1>1, <1>5, <1>14, <3>2
    <3>4. Got(w[q], b, r, c) \in Tallies
      BY <3>2, <3>3, GotIs
    <3> QED BY <1>13, <2>2, <3>2, <3>4 DEF Val
  <2> QED BY <2>1, <2>2
<1>15. 0 \in S
  <2>1. ASSUME NEW i \in I, rank[i] <= 0 PROVE w[i] \in Tallies
    <3>1. \A j \in I : ~ (rank[j] < rank[i])
      BY <1>1, <1>4, <2>1
    <3> QED BY <1>14, <3>1
  <2> QED BY <2>1
<1>16. ASSUME NEW m \in Nat, m \in S PROVE m + 1 \in S
  <2>1. ASSUME NEW i \in I, rank[i] <= m + 1 PROVE w[i] \in Tallies
    <3>1. \A j \in I : rank[j] < rank[i] => rank[j] <= m
      BY <1>1, <1>4, <2>1
    <3> QED BY <1>14, <1>16, <3>1
  <2> QED BY <2>1
<1>17. n \in S
  <2> HIDE DEF S
  <2> QED BY <1>1, <1>15, <1>16, NatSetInduction
<1>18. w \in [I -> Tallies]
  <2>1. \A i \in I : w[i] \in Tallies
    <3>1. \A i \in I : rank[i] <= n
      BY <1>1, <1>4
    <3> QED BY <1>17, <3>1
  <2>2. w = [i \in I |-> Body(w, i)]
    BY <1>12
  <2>3. w = [i \in I |-> w[i]]
    BY <2>2
  <2> QED BY <2>1, <2>3
<1>19. w[end] = NoneLeft
  <2>1. end \in I /\ end >= end
    BY <1>1
  <2> QED BY <1>13, <2>1 DEF Val
<1>20. \A i \in off .. end - 1 : w[i] = DecodeStep(w, i, end, len)
  BY <1>1, <1>13 DEF Val
<1> QED BY <1>2, <1>18, <1>19, <1>20 DEF end, I

\* The escapes from i on, what they take and which of them make no byte.
EscapesOn(from, end, i) == {k \in Escapes(from, end) : k >= i}
TakenOn(from, end, i) == UNION {Taken(k, end) : k \in EscapesOn(from, end, i)}
EmptyOn(from, end, i) == {k \in EscapesOn(from, end, i) : Empty(k, end)}

\* What is taken from i on lies past i, in a finite stretch.
LEMMA TakenOnIs ==
  ASSUME NEW from \in Nat, NEW end \in Nat, NEW i \in Nat
  PROVE  /\ TakenOn(from, end, i) \subseteq i + 1 .. end - 1 /\ IsFiniteSet(TakenOn(from, end, i))
         /\ EmptyOn(from, end, i) \subseteq i .. end - 1 /\ IsFiniteSet(EmptyOn(from, end, i))
         /\ Cardinality(TakenOn(from, end, i)) \in Nat /\ Cardinality(EmptyOn(from, end, i)) \in Nat
<1>1. \A k \in EscapesOn(from, end, i) : k \in Nat /\ k >= i /\ k \in i .. end - 1
  BY DEF EscapesOn, Escapes
<1>2. \A k : Taken(k, end) \subseteq k + 1 .. end - 1
  BY DEF Taken
<1>3. TakenOn(from, end, i) \subseteq i + 1 .. end - 1
  <2>1. ASSUME NEW k \in EscapesOn(from, end, i), NEW j \in Taken(k, end) PROVE j \in i + 1 .. end - 1
    BY <1>1, <1>2
  <2> QED BY <2>1 DEF TakenOn
<1>4. EmptyOn(from, end, i) \subseteq i .. end - 1
  BY <1>1 DEF EmptyOn
<1>5. IsFiniteSet(i + 1 .. end - 1) /\ IsFiniteSet(i .. end - 1)
  BY FS_Interval
<1>6. IsFiniteSet(TakenOn(from, end, i)) /\ IsFiniteSet(EmptyOn(from, end, i))
  BY <1>3, <1>4, <1>5, FS_Subset
<1> QED BY <1>3, <1>4, <1>6, FS_CardinalityType

\* The b bytes made between i and q are those passed, less what escapes take.
Pays(from, end, i, q, b) ==
  b = (q - i) - (Cardinality(TakenOn(from, end, i)) - Cardinality(TakenOn(from, end, q)))
              - (Cardinality(EmptyOn(from, end, i)) - Cardinality(EmptyOn(from, end, q)))

\* From one place outside an escape the decoder jumps to another, and what it
\* makes on the way is what it passes, less what the escapes take.
LEMMA JumpTakes ==
  ASSUME NEW from \in Nat, NEW end \in Nat, ~ Escaped(from, end),
         NEW i \in from .. end - 1, ~ Escaped(from, i),
         NEW len \in Nat, NEW q, NEW b, NEW r, NEW c, JumpsTo(i, end, len, q, b, r, c)
  PROVE  ~ Escaped(from, q) /\ c = TRUE /\ Pays(from, end, i, q, b)
<1> DEFINE E(k) == EscapesOn(from, end, k)
           T(k) == TakenOn(from, end, k)
           M(k) == EmptyOn(from, end, k)
<1>1. /\ i \in Nat /\ i >= from /\ i < end /\ i + 1 \in Nat /\ q \in Nat /\ q > i /\ q <= end
      /\ q \in i + 1 .. end /\ b \in Nat
  BY DEF JumpsTo
<1>2. /\ T(q) \subseteq q + 1 .. end - 1 /\ IsFiniteSet(T(q)) /\ IsFiniteSet(M(q))
      /\ M(q) \subseteq q .. end - 1 /\ Cardinality(T(q)) \in Nat /\ Cardinality(M(q)) \in Nat
  BY <1>1, TakenOnIs
<1>3. Escaped(from, i + 1) <=> At(i) = "backslash"
  BY <1>1, EscapedIs
<1>4. \A k : k \in Escapes(from, end) <=> k \in from .. end - 1 /\ At(k) = "backslash" /\ ~ Escaped(from, k)
  BY DEF Escapes
<1>5. CASE At(i) # "backslash"
  <2>1. q = i + 1 /\ b = 1 /\ c = TRUE
    BY <1>5 DEF JumpsTo
  <2>2. E(i) = E(q)
    <3>1. i \notin Escapes(from, end)
      BY <1>4, <1>5
    <3>2. \A k \in Escapes(from, end) : k >= i <=> k >= i + 1
      <4>1. ASSUME NEW k \in Escapes(from, end) PROVE k >= i <=> k >= i + 1
        <5>1. k \in Int /\ k # i
          BY <1>4, <3>1
        <5> QED BY <1>1, <5>1
      <4> QED BY <4>1
    <3> QED BY <2>1, <3>2 DEF EscapesOn
  <2>3. T(i) = T(q) /\ M(i) = M(q)
    BY <2>2 DEF TakenOn, EmptyOn
  <2> HIDE DEF T, M
  <2>4. b = (q - i) - (Cardinality(T(i)) - Cardinality(T(q))) - (Cardinality(M(i)) - Cardinality(M(q)))
    BY <1>1, <1>2, <2>1, <2>3
  <2> QED BY <1>3, <1>5, <2>1, <2>4 DEF T, M, Pays
<1>6. CASE At(i) = "backslash"
  <2>1. i + 1 < end
    <3>1. i + 1 # end
      BY <1>3, <1>6
    <3> QED BY <1>1, <3>1
  <2>2. /\ c = TRUE /\ Taken(i, end) = i + 1 .. q - 1 /\ q >= i + 2
        /\ b = IF Empty(i, end) THEN 0 ELSE 1
        /\ \A j \in i + 2 .. q - 1 : At(j) # "backslash"
    BY <1>6, <2>1 DEF JumpsTo
  <2>3. Escaped(from, i + 1) /\ ~ Escaped(from, i + 2)
    <3>1. i + 1 >= from /\ (i + 1) + 1 = i + 2
      BY <1>1
    <3> QED BY <1>1, <1>3, <1>6, <3>1, EscapedIs
  <2>4. ~ Escaped(from, q)
    <3>1. CASE q = i + 2
      BY <2>3, <3>1
    <3>2. CASE q > i + 2
      <4>1. q - 1 \in i + 2 .. q - 1 /\ q - 1 \in Nat /\ q - 1 >= from /\ (q - 1) + 1 = q
        BY <1>1, <3>2
      <4> QED BY <2>2, <4>1, EscapedIs
    <3> QED BY <1>1, <2>2, <3>1, <3>2
  <2>5. E(i) = {i} \cup E(q) /\ i \notin E(q)
    <3>1. i \in Escapes(from, end)
      BY <1>4, <1>6
    <3>2. \A k \in Escapes(from, end) : k >= i => k = i \/ k >= q
      <4>1. ASSUME NEW k \in Escapes(from, end), k >= i PROVE k = i \/ k >= q
        <5>1. k \in Int /\ k # i + 1 /\ k \notin i + 2 .. q - 1
          BY <1>4, <2>2, <2>3
        <5> QED BY <1>1, <4>1, <5>1
      <4> QED BY <4>1
    <3>3. \A k \in Escapes(from, end) : k >= q => k >= i /\ k # i
      <4>1. ASSUME NEW k \in Escapes(from, end), k >= q PROVE k >= i /\ k # i
        <5>1. k \in Int
          BY <1>4
        <5> QED BY <1>1, <4>1, <5>1
      <4> QED BY <4>1
    <3>4. i >= i
      BY <1>1
    <3>5. \A k : k \in E(i) <=> k = i \/ k \in E(q)
      BY <3>1, <3>2, <3>3, <3>4 DEF EscapesOn
    <3> QED BY <3>3, <3>5 DEF EscapesOn
  <2>6. T(i) = (i + 1 .. q - 1) \cup T(q)
    BY <2>2, <2>5 DEF TakenOn
  <2>7. (i + 1 .. q - 1) \cap T(q) = {}
    BY <1>1, <1>2
  <2>8. M(i) = IF Empty(i, end) THEN M(q) \cup {i} ELSE M(q)
    BY <2>5 DEF EmptyOn
  <2>9. i \notin M(q)
    BY <2>5 DEF EmptyOn
  <2> HIDE DEF E, T, M
  <2>10. Cardinality(i + 1 .. q - 1) = (q - 1) - i /\ IsFiniteSet(i + 1 .. q - 1)
    <3>1. i + 1 <= q - 1 /\ i + 1 \in Int /\ q - 1 \in Int /\ (q - 1) - (i + 1) + 1 = (q - 1) - i
      BY <1>1, <2>2
    <3> QED BY <3>1, FS_Interval
  <2>11. Cardinality(T(i)) = Cardinality(T(q)) + ((q - 1) - i)
    <3>1. Cardinality({}) = 0
      BY FS_EmptySet
    <3>2. Cardinality(T(i)) = Cardinality(i + 1 .. q - 1) + Cardinality(T(q)) - Cardinality({})
      BY <1>2, <2>6, <2>7, <2>10, FS_Union
    <3> QED BY <1>1, <1>2, <2>10, <3>1, <3>2
  <2>12. Cardinality(M(i)) = Cardinality(M(q)) + (1 - b)
    <3>1. CASE Empty(i, end)
      <4>1. M(i) = M(q) \cup {i} /\ b = 0
        BY <2>2, <2>8, <3>1
      <4>2. Cardinality(M(q) \cup {i}) = Cardinality(M(q)) + 1
        BY <1>2, <2>9, FS_AddElement
      <4> QED BY <1>2, <4>1, <4>2
    <3>2. CASE ~ Empty(i, end)
      BY <1>2, <2>2, <2>8, <3>2
    <3> QED BY <3>1, <3>2
  <2>13. b = (q - i) - (Cardinality(T(i)) - Cardinality(T(q))) - (Cardinality(M(i)) - Cardinality(M(q)))
    BY <1>1, <1>2, <2>11, <2>12
  <2> QED BY <2>2, <2>4, <2>13 DEF T, M, Pays
<1> QED BY <1>5, <1>6

\* A string, decoded: the decoder stays inside and makes one byte for each
\* plain byte and each escape that is not empty.
LEMMA StringDecodes ==
  ASSUME text \in Seq(Bytes), NEW off \in Nat, NEW len \in Nat, len >= 2, off + len <= Len(text),
         ~ Escaped(off + 1, off + len - 1)
  PROVE  LET from == off + 1
             end  == off + len - 1
             got  == Decode(text, off, len)
         IN /\ got.inside = TRUE
            /\ got.bytes = (end - from) - Cardinality(TakenOn(from, end, from))
                                        - Cardinality(EmptyOn(from, end, from))
<1> DEFINE from == off + 1
           end  == off + len - 1
           T(i) == Cardinality(TakenOn(from, end, i))
           M(i) == Cardinality(EmptyOn(from, end, i))
<1>1. /\ Len(text) \in Nat /\ from \in Nat /\ end \in Nat /\ from <= end /\ end \in 0 .. Len(text)
      /\ off \in Nat /\ from = off + 1 /\ len = (end - off) + 1
  BY AtIs
<1>2. PICK g : /\ g \in [off .. end + 1 -> Tallies] /\ Decode(text, off, len) = g[from]
               /\ g[end] = NoneLeft
               /\ \A i \in off .. end - 1 : g[i] = DecodeStep(g, i, end, len)
  BY DecodeIs
<1>3. ~ Escaped(from, end)
  OBVIOUS
<1> HIDE DEF from, end
<1> DEFINE Right(i) == g[i].inside = TRUE /\ g[i].bytes = (end - i) - T(i) - M(i)
           S == {m \in Nat : \A i \in from .. end : ~ Escaped(from, i) /\ end - i <= m => Right(i)}
<1>4. Right(end)
  <2>1. TakenOn(from, end, end) = {} /\ EmptyOn(from, end, end) = {}
    <3>1. \A k : k \notin end + 1 .. end - 1 /\ k \notin end .. end - 1
      BY <1>1
    <3> QED BY <1>1, <3>1, TakenOnIs
  <2>2. T(end) = 0 /\ M(end) = 0
    BY <2>1, FS_EmptySet
  <2>3. g[end].inside = TRUE /\ g[end].bytes = 0
    BY <1>2 DEF NoneLeft
  <2> HIDE DEF T, M
  <2> QED BY <1>1, <2>2, <2>3
<1>5. 0 \in S
  <2>1. ASSUME NEW i \in from .. end, end - i <= 0 PROVE Right(i)
    <3>1. i = end
      BY <1>1, <2>1
    <3> QED BY <1>4, <3>1
  <2> QED BY <2>1
<1>6. ASSUME NEW m \in Nat, m \in S PROVE m + 1 \in S
  <2>1. ASSUME NEW i \in from .. end, ~ Escaped(from, i), end - i <= m + 1, i # end PROVE Right(i)
    <3>1. /\ i \in Nat /\ i < end /\ len >= end - i /\ i \in from .. end - 1 /\ i \in off .. end - 1
      BY <1>1, <2>1
    <3>2. PICK q, b, r, c : JumpsTo(i, end, len, q, b, r, c)
      BY <1>1, <3>1, JumpExists
    <3>3. /\ q \in i + 1 .. end /\ b \in Nat /\ r \in Nat /\ c \in {TRUE, FALSE}
          /\ DecodeStep(g, i, end, len) = Got(g[q], b, r, c)
      BY <3>2 DEF JumpsTo
    <3>4. /\ ~ Escaped(from, q) /\ c = TRUE /\ b = (q - i) - (T(i) - T(q)) - (M(i) - M(q))
      <4>1. from \in Nat /\ end \in Nat /\ len \in Nat /\ i \in from .. end - 1
        BY <1>1, <3>1
      <4>2. ~ Escaped(from, i)
        BY <2>1
      <4>3. ~ Escaped(from, q) /\ c = TRUE /\ Pays(from, end, i, q, b)
        BY <1>3, <3>2, <4>1, <4>2, JumpTakes
      <4> QED BY <4>3 DEF Pays
    <3>5. q \in Nat /\ q \in from .. end /\ end - q <= m /\ q \in off .. end + 1
      BY <1>1, <2>1, <3>1, <3>3
    <3>6. Right(q)
      BY <1>6, <3>4, <3>5
    <3>7. g[q] \in Tallies
      BY <1>2, <3>5
    <3>8. g[i] = Got(g[q], b, r, c)
      BY <1>2, <3>1, <3>3
    <3>9. g[i].inside = TRUE /\ g[i].bytes = g[q].bytes + b
      <4>1. b \in Nat /\ r \in Nat /\ c \in {TRUE, FALSE} /\ c = TRUE
        BY <3>3, <3>4
      <4>2. g[q].inside = TRUE
        BY <3>6
      <4>3. Got(g[q], b, r, c).bytes = g[q].bytes + b
        BY <3>7, <4>1, GotIs
      <4>4. Got(g[q], b, r, c).inside = TRUE
        BY <3>7, <4>1, <4>2, GotIs
      <4> QED BY <3>8, <4>3, <4>4
    <3>10. T(i) \in Nat /\ M(i) \in Nat /\ T(q) \in Nat /\ M(q) \in Nat
      BY <1>1, <3>1, <3>5, TakenOnIs
    <3> HIDE DEF T, M
    <3>11. g[i].bytes = (end - i) - T(i) - M(i)
      <4>1. b = (q - i) - (T(i) - T(q)) - (M(i) - M(q))
        BY <3>4
      <4>2. g[q].bytes = (end - q) - T(q) - M(q)
        BY <3>6
      <4>3. /\ T(i) \in Int /\ M(i) \in Int /\ T(q) \in Int /\ M(q) \in Int
            /\ q \in Int /\ i \in Int /\ end \in Int
        BY <1>1, <3>1, <3>5, <3>10
      <4>4. g[i].bytes = ((end - q) - T(q) - M(q)) + ((q - i) - (T(i) - T(q)) - (M(i) - M(q)))
        BY <3>9, <4>1, <4>2
      <4>5. PICK ti, mi, tq, mq : ti = T(i) /\ mi = M(i) /\ tq = T(q) /\ mq = M(q)
        OBVIOUS
      <4>6. /\ g[i].bytes = ((end - q) - tq - mq) + ((q - i) - (ti - tq) - (mi - mq))
            /\ ti \in Int /\ mi \in Int /\ tq \in Int /\ mq \in Int
        BY <4>3, <4>4, <4>5
      <4>7. g[i].bytes = (end - i) - ti - mi
        BY <4>3, <4>6
      <4> QED BY <4>5, <4>7
    <3> QED BY <3>9, <3>11
  <2> HIDE DEF Right
  <2>2. \A i \in from .. end : ~ Escaped(from, i) /\ end - i <= m + 1 => Right(i)
    BY <1>4, <2>1
  <2> QED BY <2>2
<1>7. end - from \in S
  <2>1. end - from \in Nat
    BY <1>1
  <2> HIDE DEF S
  <2> QED BY <1>5, <1>6, <2>1, NatSetInduction
<1>8. Right(from)
  <2>1. from \in from .. end /\ ~ Escaped(from, from) /\ end - from <= end - from
    BY <1>1, EscapedIs
  <2> HIDE DEF Right
  <2> QED BY <1>7, <2>1
<1> QED BY <1>2, <1>8 DEF from, end

\* What the scanner accepts as a string, the decoder reads to the closing quote
\* and no further, one byte for each plain byte and each escape (strdec.c:47).
THEOREM StringsDecodeWhole == Spec => []StringsDecode
<1>1. ASSUME LexInv, tok.kind = "string" PROVE StringsDecode
  <2> DEFINE from == tok.off + 1
             end  == TokEnd - 1
             escs == Escapes(from, end)
             got  == Decode(text, tok.off, tok.len)
  <2>1. tok # NoToken
    BY <1>1 DEF NoToken
  <2>2. /\ tok.off \in Nat /\ tok.len \in Nat /\ TokEnd = pos /\ TokEnd = tok.off + tok.len
        /\ text \in Seq(Bytes) /\ pos \in 0 .. Len(text)
    BY <1>1, <2>1 DEF LexInv, Placed, Sound, Room, TokEnd
  <2>3. IsString(tok.off, TokEnd)
    BY <1>1, <2>1 DEF LexInv, Lexemes, IsLexeme, LexemeKinds
  <2>4. /\ tok.len >= 2 /\ tok.off + tok.len <= Len(text) /\ end = tok.off + tok.len - 1
        /\ ~ Escaped(tok.off + 1, tok.off + tok.len - 1)
    BY <2>2, <2>3 DEF IsString
  <2>5. EscapesOn(from, end, from) = escs
    <3>1. \A k \in escs : k >= from
      BY <2>2 DEF Escapes
    <3> QED BY <3>1 DEF EscapesOn
  <2>6. TakenOn(from, end, from) = UNION {Taken(i, end) : i \in escs}
    BY <2>5 DEF TakenOn
  <2>7. EmptyOn(from, end, from) = {i \in escs : Empty(i, end)}
    BY <2>5 DEF EmptyOn
  <2>8. /\ got.inside = TRUE
        /\ got.bytes = (end - from) - Cardinality(TakenOn(from, end, from))
                                    - Cardinality(EmptyOn(from, end, from))
    BY <2>2, <2>4, StringDecodes
  <2>9. got.bytes = (end - from) - Cardinality(UNION {Taken(i, end) : i \in escs})
                      - Cardinality({i \in escs : Empty(i, end)})
    BY <2>6, <2>7, <2>8
  <2>10. got.inside
    BY <2>8
  <2> HIDE DEF got, escs, end, from
  <2> QED BY <2>9, <2>10 DEF StringsDecode, got, escs, end, from
<1>2. LexInv => StringsDecode
  BY <1>1 DEF StringsDecode
<1> QED BY <1>2, LexInvariant, PTL

-----------------------------------------------------------------------------
(* The text as a whole. *)

\* As long as the text stays, so does what is said of its rest.
LEMMA RestUnmoved ==
  ASSUME UNCHANGED text
  PROVE  \A p : WellFormedFrom(p)' = WellFormedFrom(p)
BY DEF WellFormedFrom, IsGap, Span, At, IsLexeme, IsWord, IsString, Escaped, BackslashesBefore,
   IsNumber, Readings, PrefixBase, Value, LiteralFits

\* A token may stand at s up to e.
Takes(s, e) ==
  \E kind \in LexemeKinds \ {"eof"} : IsLexeme(kind, s, e) /\ (kind = "integer" => LiteralFits(s, e))

\* The text goes on well from p: it ends, or a token stands next and f goes on
\* well behind it.
GoesOn(f, p) ==
  \E s \in p .. Len(text) :
    /\ IsGap(p, s) /\ At(s) \notin Blanks \cup {"semicolon"}
    /\ At(s) = "end" \/ \E e \in s + 1 .. Len(text) : Takes(s, e) /\ f[e] = TRUE

\* The definition of a well formed rest is what it says: its recursion has a
\* solution.
LEMMA RestIs ==
  ASSUME text \in Seq(Bytes)
  PROVE  \E w \in [0 .. Len(text) -> BOOLEAN] :
           \A p \in 0 .. Len(text) : WellFormedFrom(p) = w[p] /\ (w[p] = TRUE <=> GoesOn(w, p))
<1> DEFINE n == Len(text)
           I == 0 .. Len(text)
           Body(f, p) ==
             \E s \in p .. Len(text) :
               /\ IsGap(p, s) /\ At(s) \notin Blanks \cup {"semicolon"}
               /\ \/ At(s) = "end"
                  \/ \E kind \in LexemeKinds \ {"eof"}, e \in s + 1 .. Len(text) :
                       IsLexeme(kind, s, e) /\ (kind = "integer" => LiteralFits(s, e)) /\ f[e]
           Whole(f) == f = [p \in I |-> Body(f, p)]
           w == CHOOSE f : Whole(f)
           rank == [p \in I |-> n - p]
           F == [p \in I |-> [f \in [I -> BOOLEAN] |-> GoesOn(f, p)]]
<1>1. /\ n \in Nat /\ \A p \in I : p \in Nat /\ n - p \in 0 .. n
      /\ \A p \in I : \A s \in p .. Len(text) : \A e \in s + 1 .. Len(text) : e \in I /\ n - e < n - p
  <2>1. n \in Nat
    BY AtIs
  <2> QED BY <2>1
<1>2. \A p : WellFormedFrom(p) = w[p]
  BY DEF WellFormedFrom
<1> HIDE DEF w
<1>3. ASSUME NEW f \in [I -> BOOLEAN], NEW p \in I PROVE Body(f, p) <=> GoesOn(f, p)
  <2>1. \A e \in I : f[e] \in BOOLEAN
    OBVIOUS
  <2>2. \A s \in p .. Len(text) : \A e \in s + 1 .. Len(text) : f[e] \in BOOLEAN
    BY <1>1, <2>1
  <2> HIDE DEF I
  <2>3. ASSUME NEW s \in p .. Len(text)
        PROVE  (\E kind \in LexemeKinds \ {"eof"}, e \in s + 1 .. Len(text) :
                  IsLexeme(kind, s, e) /\ (kind = "integer" => LiteralFits(s, e)) /\ f[e])
               <=> \E e \in s + 1 .. Len(text) : Takes(s, e) /\ f[e] = TRUE
    BY <2>2 DEF Takes
  <2> QED BY <2>3 DEF GoesOn
<1> HIDE DEF Body
<1> HIDE DEF rank
<1>4. rank \in [I -> 0 .. n] /\ \A p \in I : rank[p] = n - p
  <2> HIDE DEF I, n
  <2> QED BY <1>1 DEF rank
<1>5. \A f, p : GoesOn(f, p) \in BOOLEAN
  BY DEF GoesOn
<1>6. F \in [I -> [[I -> BOOLEAN] -> BOOLEAN]]
      /\ \A p \in I, f \in [I -> BOOLEAN] : F[p][f] = GoesOn(f, p)
  BY <1>5
<1> HIDE DEF F
<1>7. ASSUME NEW p \in I, NEW f \in [I -> BOOLEAN], NEW h \in [I -> BOOLEAN],
             \A e \in I : rank[e] < rank[p] => f[e] = h[e]
      PROVE  GoesOn(f, p) <=> GoesOn(h, p)
  <2>1. \A s \in p .. Len(text) : \A e \in s + 1 .. Len(text) : f[e] = h[e]
    BY <1>1, <1>4, <1>7
  <2> QED BY <2>1 DEF GoesOn
<1>8. PICK g : Solves(g, F, I, BOOLEAN)
  <2>1. ASSUME NEW p \in I, NEW f \in [I -> BOOLEAN], NEW h \in [I -> BOOLEAN],
               \A e \in I : rank[e] < rank[p] => f[e] = h[e]
        PROVE  F[p][f] = F[p][h]
    <3>1. GoesOn(f, p) <=> GoesOn(h, p)
      BY <1>7, <2>1
    <3>2. F[p][f] = GoesOn(f, p) /\ F[p][h] = GoesOn(h, p)
      BY <1>6
    <3> QED BY <3>1, <3>2
  <2> HIDE DEF I, n
  <2>2. LooksBelow(F, I, BOOLEAN, rank)
    BY <1>6, <2>1 DEF LooksBelow
  <2> QED BY <1>1, <1>4, <2>2, RankedRecursion
<1>9. g \in [I -> BOOLEAN] /\ \A p \in I : g[p] <=> Body(g, p)
  <2>1. g \in [I -> BOOLEAN] /\ \A p \in I : g[p] = F[p][g]
    BY <1>8 DEF Solves
  <2>2. \A p \in I : F[p][g] = GoesOn(g, p)
    BY <1>6, <2>1
  <2>3. \A p \in I : Body(g, p) <=> GoesOn(g, p)
    BY <1>3, <2>1
  <2> HIDE DEF I
  <2> QED BY <2>1, <2>2, <2>3
<1>10. Whole(g)
  <2>1. \A f, p : Body(f, p) \in BOOLEAN
    BY DEF Body
  <2> HIDE DEF I
  <2>2. \A p \in I : g[p] = Body(g, p)
    BY <1>9, <2>1
  <2> QED BY <1>9, <2>2
<1>11. Whole(w)
  BY <1>10 DEF w
<1>12. w \in [I -> BOOLEAN] /\ \A p \in I : w[p] <=> Body(w, p)
  <2>1. \A f, p : Body(f, p) \in BOOLEAN
    BY DEF Body
  <2> HIDE DEF I
  <2> QED BY <1>11, <2>1
<1>13. \A p \in I : w[p] = TRUE <=> GoesOn(w, p)
  <2> HIDE DEF I
  <2> QED BY <1>3, <1>12
<1> QED BY <1>2, <1>12, <1>13

\* What the rest of the text has to do with the token that stands next in it.
LEMMA NextTells ==
  ASSUME Sound
  PROVE  /\ WellFormedFrom(pos) \in {TRUE, FALSE}
         /\ At(Start) = "end" => WellFormedFrom(pos) = TRUE
         /\ WellFormedFrom(pos) = TRUE /\ At(Start) # "end" =>
              \E e \in Start + 1 .. Len(text) : Takes(Start, e) /\ WellFormedFrom(e) = TRUE
         /\ \A e \in Start + 1 .. Len(text) :
              Takes(Start, e) /\ WellFormedFrom(e) = TRUE => WellFormedFrom(pos) = TRUE
<1>1. /\ text \in Seq(Bytes) /\ Len(text) \in Nat /\ pos \in 0 .. Len(text) /\ Start \in pos .. Len(text)
      /\ At(Start) \notin Blanks \cup {"semicolon"} /\ IsGap(pos, Start)
      /\ \A e \in pos .. Len(text) :
           IsGap(pos, e) /\ At(e) \notin Blanks \cup {"semicolon"} => e = Start
  BY StartIs, AtIs DEF Sound, Room
<1>2. PICK w \in [0 .. Len(text) -> BOOLEAN] :
        \A p \in 0 .. Len(text) : WellFormedFrom(p) = w[p] /\ (w[p] = TRUE <=> GoesOn(w, p))
  BY <1>1, RestIs
<1>3. \A e \in Start + 1 .. Len(text) : e \in 0 .. Len(text) /\ WellFormedFrom(e) = w[e]
  BY <1>1, <1>2
<1>4. GoesOn(w, pos) <=>
        At(Start) = "end" \/ \E e \in Start + 1 .. Len(text) : Takes(Start, e) /\ w[e] = TRUE
  BY <1>1 DEF GoesOn
<1>5. WellFormedFrom(pos) = w[pos] /\ w[pos] \in {TRUE, FALSE}
      /\ (w[pos] = TRUE <=> GoesOn(w, pos))
  BY <1>1, <1>2
<1> QED BY <1>3, <1>4, <1>5

\* A call of the scanner finds out whether the text may still be well formed.
LEMMA ScanTells ==
  ASSUME Sound, NEW kind, NEW e, NEW val, NEW ov, Scan(kind, e, val, ov)
  PROVE  /\ kind = "error" \/ ov = TRUE => WellFormedFrom(pos) # TRUE
         /\ kind = "eof" => WellFormedFrom(pos) = TRUE
         /\ kind \notin {"error", "eof"} /\ ov = FALSE =>
              (WellFormedFrom(pos) = TRUE <=> WellFormedFrom(e) = TRUE)
<1>1. /\ text \in Seq(Bytes) /\ Len(text) \in Nat /\ Start \in Nat /\ Start \in 0 .. Len(text)
      /\ (At(Start) = "end" <=> Start = Len(text)) /\ e \in Start .. Len(text)
  BY HereIs DEF Scan, Judged
<1>2. /\ kind \in AllKinds /\ ov \in {TRUE, FALSE} /\ (kind # "integer" => ov = FALSE)
      /\ kind \in LexemeKinds => Only(kind, Start, e)
      /\ kind = "error" => Nothing(Start)
      /\ IF kind = "eof" THEN e = Start /\ Start = Len(text) ELSE e > Start
  BY DEF Scan, Judged, Worth
<1>3. \A q \in Start + 1 .. Len(text) : q \in Start .. Len(text)
  BY <1>1
<1>4. CASE kind = "error"
  <2>1. "eof" \in LexemeKinds /\ Start \in Start .. Len(text)
    BY <1>1 DEF LexemeKinds
  <2>2. At(Start) # "end"
    BY <1>1, <1>2, <1>4, <2>1, LexemeIs DEF Nothing
  <2>3. \A q \in Start + 1 .. Len(text) : ~ Takes(Start, q)
    BY <1>2, <1>3, <1>4 DEF Nothing, Takes
  <2> QED BY <1>2, <1>4, <2>2, <2>3, NextTells
<1>5. CASE kind = "eof"
  <2>1. At(Start) = "end"
    BY <1>1, <1>2, <1>5
  <2> QED BY <1>2, <1>5, <2>1, NextTells
<1>6. CASE kind \notin {"error", "eof"}
  <2>1. Only(kind, Start, e) /\ kind \in LexemeKinds \ {"eof"} /\ e \in Start + 1 .. Len(text)
    BY <1>1, <1>2, <1>6 DEF AllKinds
  <2>2. At(Start) # "end"
    <3>1. Start # Len(text)
      BY <1>1, <2>1
    <3> QED BY <1>1, <3>1
  <2>3. \A q \in Start + 1 .. Len(text) :
          Takes(Start, q) => q = e /\ (kind = "integer" => LiteralFits(Start, e))
    BY <1>3, <2>1 DEF Only, Takes
  <2>4. (kind = "integer" => LiteralFits(Start, e)) => Takes(Start, e)
    BY <2>1 DEF Only, Takes
  <2>5. kind = "integer" => (LiteralFits(Start, e) <=> ov = FALSE)
    <3> SUFFICES ASSUME kind = "integer" PROVE LiteralFits(Start, e) <=> ov = FALSE
      OBVIOUS
    <3>1. PICK r \in Readings(Start) :
            /\ IsNumber(Start, e, r) /\ Value(e, r) \in Nat /\ (ov = TRUE <=> Value(e, r) > UMax)
      BY DEF Scan, Worth
    <3>2. At(Start) \in Digits /\ Start \in 0 .. Len(text) - 1
      <4>1. At(Start) \in First("integer")
        BY <1>1, <2>1, LexemeStarts DEF Only
      <4>2. Start # Len(text) /\ Start \in 0 .. Len(text)
        BY <1>1, <2>2
      <4>3. Start \in 0 .. Len(text) - 1
        BY <1>1, <4>2
      <4> QED BY <4>1, <4>3, FirstIs
    <3>3. \A x, y \in Readings(Start) : IsNumber(Start, e, x) /\ IsNumber(Start, e, y) => x = y
      BY <1>1, <3>2, NumberIs
    <3>4. LiteralFits(Start, e) <=> Value(e, r) <= UMax
      BY <3>1, <3>3 DEF LiteralFits
    <3> QED BY <1>2, <3>1, <3>4, LexerAssumption
  <2>6. CASE ov = TRUE
    <3>1. \A q \in Start + 1 .. Len(text) : ~ Takes(Start, q)
      BY <1>2, <2>3, <2>5, <2>6
    <3> QED BY <1>6, <2>2, <2>6, <3>1, NextTells
  <2>7. CASE ov = FALSE
    <3>1. Takes(Start, e)
      BY <2>4, <2>5, <2>7
    <3> QED BY <1>6, <2>1, <2>2, <2>3, <2>7, <3>1, NextTells
  <2> QED BY <1>2, <2>6, <2>7
<1> QED BY <1>2, <1>4, <1>5, <1>6

-----------------------------------------------------------------------------
(* What the exit code tells. *)

\* No diagnostic was recorded and none was lost.
Clean == status = "ok" /\ diags = <<>>

\* What the scanner has found out of the text.
TextInv ==
  /\ Clean  => (WellFormedFrom(0) = TRUE <=> tok.kind = "eof" \/ WellFormedFrom(pos) = TRUE)
  /\ ~Clean => WellFormedFrom(0) # TRUE

\* Which phases print tokens, and which touch the file.
Phases ==
  /\ dump \in {TRUE, FALSE}
  /\ phase \in {"args", "load", "dump", "assemble", "open", "write", "exited"}
  /\ phase # "exited" => exit = Running
  /\ phase \in {"assemble", "open", "write"} => dump = FALSE
  /\ phase = "dump" => dump = TRUE

\* What the exit code and the file say.
Told ==
  /\ tok # NoToken => phase \in {"dump", "exited"}
  /\ exit = 0 /\ args = <<>> /\ dump = FALSE => outfile = "object"
  /\ outfile # "old" => phase \in {"write", "exited"} /\ dump = FALSE /\ exit # 2
  /\ phase = "exited" /\ tok # NoToken => (exit = 0 <=> WellFormedFrom(0) = TRUE)

PhaseInv == Phases /\ Told

ResultInv == LexInv /\ TextInv /\ PhaseInv

\* A call of the scanner keeps what was found out of the text true.
LEMMA TextNext ==
  ASSUME LexInv, TextInv, LexNext, tok.kind # "eof" PROVE TextInv'
<1>1. PICK kind, e, val, ov : Scan(kind, e, val, ov)
  BY LexScans DEF LexInv, Scans
<1>2. /\ tok'.kind = kind /\ pos' = e /\ text' = text /\ ov \in {TRUE, FALSE}
  BY <1>1 DEF Scan, Fresh, Worth
<1>3. /\ kind = "error" \/ ov = TRUE => WellFormedFrom(pos) # TRUE
      /\ kind = "eof" => WellFormedFrom(pos) = TRUE
      /\ kind \notin {"error", "eof"} /\ ov = FALSE =>
           (WellFormedFrom(pos) = TRUE <=> WellFormedFrom(e) = TRUE)
  BY <1>1, ScanTells DEF LexInv
<1>4. \A p : WellFormedFrom(p)' = WellFormedFrom(p)
  BY <1>2, RestUnmoved
<1>5. (WellFormedFrom(pos)') = WellFormedFrom(e) /\ (WellFormedFrom(0)') = WellFormedFrom(0)
  BY <1>2, <1>4
<1>6. CASE kind # "error" /\ ov = FALSE /\ Silent
  <2>1. status' = status /\ diags' = diags
    BY <1>6 DEF Silent
  <2>2. Clean' <=> Clean
    BY <2>1 DEF Clean
  <2> QED BY <1>2, <1>3, <1>5, <1>6, <2>2 DEF TextInv
<1>7. CASE (kind = "error" \/ ov = TRUE) /\ Report(e)
  <2>1. ~ Clean'
    <3>1. CASE diags' = Append(diags, [off |-> Start, len |-> e - Start])
      <4>1. diags \in Seq([off : Nat, len : Nat])
        BY DEF LexInv, Marked
      <4>2. Append(diags, [off |-> Start, len |-> e - Start]) # <<>>
        BY <4>1
      <4> QED BY <3>1, <4>2 DEF Clean
    <3>2. CASE status' = "oom"
      BY <3>2 DEF Clean
    <3> QED BY <1>7, <3>1, <3>2 DEF Report
  <2>2. WellFormedFrom(0) # TRUE
    BY <1>3, <1>7 DEF TextInv
  <2> QED BY <1>5, <2>1, <2>2 DEF TextInv
<1> QED BY <1>1, <1>6, <1>7 DEF Scan, Noted

\* Nothing is found out of the text where the scanner is not called.
LEMMA TextSame ==
  ASSUME TextInv, UNCHANGED lexVars
  PROVE  TextInv' /\ WellFormedFrom(0)' = WellFormedFrom(0) /\ tok' = tok
<1>1. text' = text /\ pos' = pos /\ tok' = tok /\ diags' = diags /\ status' = status
  BY DEF lexVars
<1>2. \A p : WellFormedFrom(p)' = WellFormedFrom(p)
  BY <1>1, RestUnmoved
<1>3. (WellFormedFrom(pos)') = WellFormedFrom(pos) /\ (Clean' <=> Clean)
  BY <1>1, <1>2 DEF Clean
<1> QED BY <1>1, <1>2, <1>3 DEF TextInv

\* A dump ends with code 0 exactly when the text is well formed.
LEMMA DumpTells ==
  ASSUME LexInv, TextInv, DumpEnd, tok # NoToken
  PROVE  exit' = 0 <=> WellFormedFrom(0) = TRUE
<1>1. exit' = DumpCode /\ (tok.kind = "eof" \/ status # "ok")
  BY DEF DumpEnd, Exit, Scanning
<1>2. DumpCode = 0 <=> Clean
  BY DEF DumpCode, Clean
<1> QED BY <1>1, <1>2 DEF TextInv, Clean

\* Each step of the command leaves the file as its exit code says.
LEMMA PhaseNext ==
  ASSUME ResultInv, [Next]_vars PROVE PhaseInv'
<1>0. (NoToken') = NoToken
  BY DEF NoToken
<1>1. CASE DumpToken
  BY <1>1 DEF DumpToken, ResultInv, PhaseInv, Phases, Told, optVars, Running
<1>2. CASE Next /\ ~ DumpToken
  <2>1. UNCHANGED lexVars
    BY <1>2, OnlyDumpScans
  <2>2. (WellFormedFrom(0)') = WellFormedFrom(0) /\ tok' = tok
    BY <2>1, TextSame DEF ResultInv
  <2>3. CASE Information \/ UsageError
    <3>1. /\ phase = "args" /\ UNCHANGED optVars /\ outfile' = outfile /\ phase' = "exited"
          /\ exit' \in {0, 2} /\ (exit' = 0 => args # <<>>)
      BY <2>3 DEF Information, UsageError, Option, Exit, Quiet
    <3>2. Phases'
      BY <1>0, <2>2, <3>1 DEF ResultInv, optVars, PhaseInv, Phases, Told
    <3>3. Told'
      BY <1>0, <2>2, <3>1 DEF ResultInv, optVars, PhaseInv, Told, Phases
    <3> QED BY <3>2, <3>3 DEF PhaseInv
  <2>4. CASE DumpOption \/ OutputOption \/ InputArgument \/ EndOfArguments
    <3>1. /\ phase = "args" /\ phase' \in {"args", "load"} /\ exit' = exit /\ outfile' = outfile
          /\ dump' = dump \/ dump' = TRUE
      BY <2>4 DEF DumpOption, OutputOption, InputArgument, EndOfArguments, Option, Quiet
    <3>2. dump \in {TRUE, FALSE} /\ exit = 3 /\ outfile = "old" /\ tok = NoToken
      BY <3>1 DEF ResultInv, PhaseInv, Phases, Told, Running
    <3>3. dump' \in {TRUE, FALSE}
      BY <3>1, <3>2
    <3>4. Phases'
      BY <1>0, <2>2, <3>1, <3>2, <3>3 DEF Running, Phases
    <3>5. Told'
      BY <1>0, <2>2, <3>1, <3>2, <3>3 DEF Running, Told
    <3> QED BY <3>4, <3>5 DEF PhaseInv
  <2>5. CASE LoadFails \/ OpenFails
    <3>1. /\ phase \in {"load", "open"} /\ phase' = "exited" /\ exit' = 1 /\ UNCHANGED optVars
          /\ outfile' = outfile
      BY <2>5 DEF LoadFails, OpenFails, CannotContinue, Exit
    <3>2. dump \in {TRUE, FALSE} /\ outfile = "old" /\ tok = NoToken /\ dump' = dump
      BY <3>1 DEF ResultInv, PhaseInv, Phases, Told, optVars
    <3>3. Phases'
      BY <1>0, <2>2, <3>1, <3>2 DEF Phases
    <3>4. Told'
      BY <1>0, <2>2, <3>1, <3>2 DEF Told
    <3> QED BY <3>3, <3>4 DEF PhaseInv
  <2>6. CASE LoadToDump
    BY <2>2, <2>6 DEF LoadToDump, Quiet, ResultInv, PhaseInv, Phases, Told, optVars, Running
  <2>7. CASE LoadToAssemble
    BY <2>2, <2>7 DEF LoadToAssemble, Quiet, ResultInv, PhaseInv, Phases, Told, Running
  <2>8. CASE DumpEnd
    <3>1. /\ phase = "dump" /\ phase' = "exited" /\ UNCHANGED optVars /\ outfile' = outfile
          /\ exit' = DumpCode
      BY <2>8 DEF DumpEnd, Exit
    <3>2. tok # NoToken => (exit' = 0 <=> WellFormedFrom(0) = TRUE)
      BY <2>8, DumpTells DEF ResultInv
    <3>3. Phases'
      BY <1>0, <2>2, <3>1, <3>2 DEF ResultInv, optVars, PhaseInv, Phases, Told
    <3>4. Told'
      BY <1>0, <2>2, <3>1, <3>2 DEF ResultInv, optVars, PhaseInv, Told, Phases
    <3> QED BY <3>3, <3>4 DEF PhaseInv
  <2>9. CASE Assemble
    <3>1. /\ phase = "assemble" /\ UNCHANGED optVars /\ outfile' = outfile
          /\ (phase' = "open" /\ exit' = exit) \/ (phase' = "exited" /\ exit' = 1)
      BY <2>9 DEF Assemble, Exit
    <3>2. /\ dump = FALSE /\ outfile = "old" /\ tok = NoToken /\ dump' = dump /\ exit = 3
      BY <3>1 DEF ResultInv, PhaseInv, Phases, Told, optVars, Running
    <3>3. Phases'
      BY <1>0, <2>2, <3>1, <3>2 DEF Running, Phases
    <3>4. Told'
      BY <1>0, <2>2, <3>1, <3>2 DEF Running, Told
    <3> QED BY <3>3, <3>4 DEF PhaseInv
  <2>10. CASE OpenOutput
    <3>1. /\ phase = "open" /\ phase' = "write" /\ outfile' = "partial" /\ exit' = exit
          /\ dump' = dump
      BY <2>10 DEF OpenOutput, optVars
    <3>2. dump = FALSE /\ tok = NoToken /\ exit = 3
      BY <3>1 DEF ResultInv, PhaseInv, Phases, Told, Running
    <3>3. Phases'
      BY <1>0, <2>2, <3>1, <3>2 DEF Running, Phases
    <3>4. Told'
      BY <1>0, <2>2, <3>1, <3>2 DEF Running, Told
    <3> QED BY <3>3, <3>4 DEF PhaseInv
  <2>11. CASE WriteOutput
    <3>1. /\ phase = "write" /\ phase' = "exited" /\ UNCHANGED optVars /\ exit' \in {0, 1}
          /\ (exit' = 0 => outfile' = "object")
      <4>1. PICK written, closed \in BOOLEAN :
              /\ outfile' \in IF written /\ closed THEN {"object"}
                              ELSE IF written THEN {"partial", "object"} ELSE {"partial"}
              /\ exit' = IF written /\ closed THEN 0 ELSE 1
        BY <2>11 DEF WriteOutput, Written, Exit
      <4>2. exit' \in {0, 1} /\ (exit' = 0 => outfile' = "object")
        BY <4>1
      <4> QED BY <2>11, <4>2 DEF WriteOutput, Exit
    <3>2. dump = FALSE /\ tok = NoToken /\ dump' = dump
      BY <3>1 DEF ResultInv, PhaseInv, Phases, Told, optVars
    <3>3. Phases'
      BY <1>0, <2>2, <3>1, <3>2 DEF Phases
    <3>4. Told'
      BY <1>0, <2>2, <3>1, <3>2 DEF Told
    <3> QED BY <3>3, <3>4 DEF PhaseInv
  <2>12. CASE Exited
    BY <2>2, <2>12 DEF Exited, vars, optVars, ResultInv, PhaseInv, Phases, Told
  <2> QED BY <1>2, <2>3, <2>4, <2>5, <2>6, <2>7, <2>8, <2>9, <2>10, <2>11, <2>12 DEF Next, Work
<1>3. CASE UNCHANGED vars
  <2>1. UNCHANGED lexVars
    BY <1>3 DEF vars
  <2>2. (WellFormedFrom(0)') = WellFormedFrom(0) /\ tok' = tok
    BY <2>1, TextSame DEF ResultInv
  <2>3. Phases'
    BY <1>3, <2>2 DEF vars, optVars, ResultInv, PhaseInv, Phases, Told
  <2>4. Told'
    BY <1>3, <2>2 DEF vars, optVars, ResultInv, PhaseInv, Told, Phases
  <2> QED BY <2>3, <2>4 DEF PhaseInv
<1> QED BY <1>1, <1>2, <1>3

\* What the caller can rely on after exit code 0: the whole object in the file,
\* or a text that is all tokens; and a file is touched by nothing but a command
\* that got as far as an object (main.c:94, 194).
THEOREM ExitCodeTells == Spec => []ExitTellsResult
<1>1. Init => ResultInv
  <2> SUFFICES ASSUME Init PROVE ResultInv
    OBVIOUS
  <2>1. LexInv
    BY LexInvInit
  <2>2. PICK c \in Calls : LexInit(c.text)
    BY DEF Init
  <2>3. tok = NoToken /\ tok.kind # "eof" /\ pos = 0 /\ Clean
    BY <2>2 DEF LexInit, NoToken, Clean
  <2>4. TextInv
    BY <2>3 DEF TextInv
  <2>5. PhaseInv
    <3>1. /\ dump = FALSE /\ phase = "args" /\ outfile = "old" /\ exit = 3
      BY DEF Init, Running
    <3>2. Phases
      BY <2>3, <3>1 DEF Running, Phases
    <3>3. Told
      BY <2>3, <3>1 DEF Running, Told
    <3> QED BY <3>2, <3>3 DEF PhaseInv
  <2> QED BY <2>1, <2>4, <2>5 DEF ResultInv
<1>2. ResultInv /\ [Next]_vars => ResultInv'
  <2> SUFFICES ASSUME ResultInv, [Next]_vars PROVE ResultInv'
    OBVIOUS
  <2>1. LexInv' /\ TextInv'
    BY OnlyDumpScans, LexInvSame, LexInvNext, TextSame, TextNext DEF ResultInv
  <2> QED BY <2>1, PhaseNext DEF ResultInv
<1>3. ResultInv => ExitTellsResult
  <2> SUFFICES ASSUME ResultInv PROVE ExitTellsResult
    OBVIOUS
  <2>1. ExitTellsFile
    BY DEF ResultInv, PhaseInv, Phases, Told, ExitTellsFile
  <2>2. DumpTellsText
    <3> SUFFICES ASSUME phase = "exited", tok # NoToken PROVE (exit = 0) = WellFormed
      BY DEF DumpTellsText
    <3>1. exit = 0 <=> WellFormedFrom(0) = TRUE
      BY DEF ResultInv, PhaseInv, Phases, Told
    <3>2. WellFormedFrom(0) \in {TRUE, FALSE}
      <4>1. text \in Seq(Bytes)
        BY DEF ResultInv, LexInv, Sound, Room
      <4>2. PICK w \in [0 .. Len(text) -> BOOLEAN] : \A p \in 0 .. Len(text) : WellFormedFrom(p) = w[p]
        BY <4>1, RestIs
      <4>3. 0 \in 0 .. Len(text)
        BY <4>1, AtIs
      <4> QED BY <4>2, <4>3
    <3>3. (exit = 0) = WellFormedFrom(0)
      BY <3>1, <3>2
    <3> QED BY <3>3 DEF WellFormed
  <2> QED BY <2>1, <2>2 DEF ExitTellsResult
<1> QED BY <1>1, <1>2, <1>3, PTL DEF Spec

-----------------------------------------------------------------------------
(* The arguments. *)

\* An argument is a value when the one before it is an -o and not one itself.
LEMMA IsValueIs ==
  ASSUME NEW a \in Seq(Arguments)
  PROVE  /\ Len(a) > 0 => ~ IsValue(a, 1)
         /\ \A k \in 1 .. Len(a) - 1 :
              IsValue(a, k + 1) <=> a[k].opt = "output" /\ ~ IsValue(a, k)
<1> DEFINE n == Len(a)
           I == 0 .. Len(a)
           Body(f, j) == j > 1 /\ a[j - 1].opt = "output" /\ ~ f[j - 1]
           Whole(f) == f = [j \in I |-> Body(f, j)]
           w == CHOOSE f : Whole(f)
           rank == [j \in I |-> j]
           F == [j \in I |-> [f \in [I -> BOOLEAN] |-> Body(f, j)]]
<1>1. n \in Nat /\ (\A j \in I : j \in Nat /\ j \in 0 .. n) /\ \A j \in I : j > 1 => j - 1 \in I /\ j - 1 < j
  OBVIOUS
<1>2. \A k : IsValue(a, k) = w[k]
  BY DEF IsValue
<1> HIDE DEF w
<1> HIDE DEF rank
<1>3. rank \in [I -> 0 .. n] /\ \A j \in I : rank[j] = j
  <2> HIDE DEF I, n
  <2> QED BY <1>1 DEF rank
<1>4. \A f, j : Body(f, j) \in BOOLEAN
  OBVIOUS
<1>5. F \in [I -> [[I -> BOOLEAN] -> BOOLEAN]]
      /\ \A j \in I, f \in [I -> BOOLEAN] : F[j][f] = Body(f, j)
  <2> HIDE DEF Body, I
  <2> QED BY <1>4
<1> HIDE DEF F
<1>6. PICK g : Solves(g, F, I, BOOLEAN)
  <2>1. ASSUME NEW j \in I, NEW f \in [I -> BOOLEAN], NEW h \in [I -> BOOLEAN],
               \A i \in I : rank[i] < rank[j] => f[i] = h[i]
        PROVE  F[j][f] = F[j][h]
    <3>1. Body(f, j) <=> Body(h, j)
      BY <1>1, <1>3, <2>1
    <3> HIDE DEF Body
    <3>2. F[j][f] = Body(f, j) /\ F[j][h] = Body(h, j)
      BY <1>5
    <3> QED BY <1>4, <3>1, <3>2
  <2> HIDE DEF I, n, Body
  <2>2. LooksBelow(F, I, BOOLEAN, rank)
    BY <1>5, <2>1 DEF LooksBelow
  <2> QED BY <1>1, <1>3, <2>2, RankedRecursion
<1>7. Whole(g)
  <2>1. g \in [I -> BOOLEAN] /\ \A j \in I : g[j] = F[j][g]
    BY <1>6 DEF Solves
  <2> HIDE DEF Body, I
  <2>2. \A j \in I : g[j] = Body(g, j)
    BY <1>5, <2>1
  <2> QED BY <2>1, <2>2
<1>8. Whole(w)
  BY <1>7 DEF w
<1>9. \A j \in I : w[j] <=> Body(w, j)
  <2> HIDE DEF Body, I
  <2> QED BY <1>4, <1>8
<1>10. Len(a) > 0 => ~ IsValue(a, 1)
  <2>1. Len(a) > 0 => 1 \in I
    OBVIOUS
  <2> QED BY <1>2, <1>9, <2>1
<1>11. \A k \in 1 .. Len(a) - 1 : IsValue(a, k + 1) <=> a[k].opt = "output" /\ ~ IsValue(a, k)
  <2>1. ASSUME NEW k \in 1 .. Len(a) - 1
        PROVE  IsValue(a, k + 1) <=> a[k].opt = "output" /\ ~ IsValue(a, k)
    <3>1. k + 1 \in I /\ k + 1 > 1 /\ (k + 1) - 1 = k
      BY <1>1
    <3>2. w[k + 1] <=> Body(w, k + 1)
      BY <1>9, <3>1
    <3> QED BY <1>2, <3>1, <3>2
  <2> QED BY <2>1
<1> QED BY <1>10, <1>11

\* What the arguments decide, once those read decide nothing.
LEMMA DecidedIs ==
  ASSUME NEW a \in Seq(Arguments), NEW n \in 0 .. Len(a),
         \A k \in 1 .. n : k \notin Stops(a) \cup Wrong(a)
  PROVE  /\ n < Len(a) /\ n + 1 \in Stops(a) => Decided(a) = 0
         /\ n < Len(a) /\ n + 1 \in Wrong(a) /\ n + 1 \notin Stops(a) => Decided(a) = 2
         /\ n = Len(a) => Decided(a) = IF Inputs(a) = {} THEN 2 ELSE Running
<1> DEFINE ends == Stops(a) \cup Wrong(a)
           first == CHOOSE k \in ends : \A j \in ends : k <= j
<1>1. Decided(a) = IF ends = {} THEN (IF Inputs(a) = {} THEN 2 ELSE Running)
                   ELSE IF first \in Stops(a) THEN 0 ELSE 2
  BY DEF Decided
<1>2. n \in Nat /\ Len(a) \in Nat /\ \A k \in ends : k \in 1 .. Len(a)
  BY DEF Stops, Wrong
<1>3. \A k \in 1 .. n : k \notin ends
  OBVIOUS
<1> HIDE DEF ends
<1>4. \A k \in ends : k \in Nat /\ k >= n + 1
  <2>1. ASSUME NEW k \in ends PROVE k \in Nat /\ k >= n + 1
    <3>1. k \in 1 .. Len(a) /\ k \notin 1 .. n
      BY <1>2, <1>3
    <3> QED BY <1>2, <3>1
  <2> QED BY <2>1
<1>5. ASSUME n + 1 \in ends PROVE first = n + 1
  <2>1. \A k \in ends : n + 1 <= k
    BY <1>2, <1>4
  <2>2. first \in ends /\ \A j \in ends : first <= j
    BY <1>5, <2>1
  <2> HIDE DEF first
  <2> QED BY <1>2, <1>4, <1>5, <2>2
<1> HIDE DEF first
<1>6. ASSUME n < Len(a), n + 1 \in Stops(a) PROVE Decided(a) = 0
  <2>1. n + 1 \in ends
    BY <1>6 DEF ends
  <2> QED BY <1>1, <1>5, <1>6, <2>1
<1>7. ASSUME n < Len(a), n + 1 \in Wrong(a), n + 1 \notin Stops(a) PROVE Decided(a) = 2
  <2>1. n + 1 \in ends
    BY <1>7 DEF ends
  <2> QED BY <1>1, <1>5, <1>7, <2>1
<1>8. ASSUME n = Len(a) PROVE ends = {}
  BY <1>2, <1>4, <1>8
<1> QED BY <1>1, <1>6, <1>7, <1>8

\* Every character, those of a derived path and of NoPath among them.
Signs == STRING \cup {".", "o", "none"}

\* So many arguments were read, and they decide nothing.
Read == Len(argv) - Len(args)

ArgInv ==
  /\ args \in Seq(Arguments) /\ input \in Seq(Signs)
  /\ phase = "args" =>
       /\ argv \in Seq(Arguments) /\ Len(args) <= Len(argv)
       /\ \A k \in 1 .. Len(argv) : argv[k].text # NoPath
       /\ \A k \in 1 .. Len(args) : args[k] = argv[Read + k]
       /\ args # <<>> => ~ IsValue(argv, Read + 1)
       /\ \A k \in 1 .. Read : k \notin Stops(argv) \cup Wrong(argv)
       /\ input # NoPath <=> \E k \in Inputs(argv) : k <= Read

\* The argument to be read next stands where it stood.
LEMMA NextArgument ==
  ASSUME ArgInv, phase = "args", args # <<>>
  PROVE  /\ argv \in Seq(Arguments) /\ args \in Seq(Arguments) /\ Len(args) \in Nat /\ Len(args) > 0
         /\ Len(argv) \in Nat
         /\ Read \in Nat /\ Read \in 0 .. Len(argv) /\ Read < Len(argv) /\ Read = Len(argv) - Len(args)
         /\ Read + 1 \in 1 .. Len(argv) /\ argv[Read + 1] = Head(args) /\ Head(args) = args[1]
         /\ ~ IsValue(argv, Read + 1) /\ args[1] \in Arguments /\ argv[Read + 1].text # NoPath
         /\ Len(args) > 1 => /\ Read + 2 \in 1 .. Len(argv) /\ Read + 1 \in 1 .. Len(argv) - 1
                             /\ argv[Read + 2] = args[2] /\ args[2] \in Arguments
                             /\ argv[Read + 2].text # NoPath
<1>1. argv \in Seq(Arguments) /\ args \in Seq(Arguments) /\ Len(args) <= Len(argv)
      /\ \A k \in 1 .. Len(args) : args[k] = argv[Read + k]
  BY DEF ArgInv
<1>2. Len(args) \in Nat /\ Len(args) > 0 /\ Len(argv) \in Nat
  BY <1>1
<1>3. Read \in Nat /\ Read < Len(argv) /\ Read = Len(argv) - Len(args)
  BY <1>1, <1>2 DEF Read
<1>4. Read + 1 \in 1 .. Len(argv) /\ Read \in 0 .. Len(argv) /\ 1 \in 1 .. Len(args)
  BY <1>2, <1>3
<1>5. Head(args) = args[1] /\ args[1] = argv[Read + 1] /\ args[1] \in Arguments
  BY <1>1, <1>2, <1>4
<1>6. ~ IsValue(argv, Read + 1)
  BY DEF ArgInv
<1>7. Len(args) > 1 => /\ Read + 2 \in 1 .. Len(argv) /\ Read + 1 \in 1 .. Len(argv) - 1
                       /\ 2 \in 1 .. Len(args)
  BY <1>2, <1>3
<1>8. Len(args) > 1 => args[2] = argv[Read + 2] /\ args[2] \in Arguments
  BY <1>1, <1>7
<1>9. \A k \in 1 .. Len(argv) : argv[k].text # NoPath
  BY DEF ArgInv
<1>10. argv[Read + 1].text # NoPath
  BY <1>4, <1>9
<1>11. Len(args) > 1 => argv[Read + 2].text # NoPath
  BY <1>7, <1>9
<1> QED BY <1>1, <1>2, <1>3, <1>4, <1>5, <1>6, <1>7, <1>8, <1>10, <1>11

\* What is left of the arguments is what stands behind the first m.
Behind(m) ==
  /\ args' \in Seq(Arguments) /\ Len(args') = Len(args) - m
  /\ \A k \in 1 .. Len(args) - m : args'[k] = args[m + k]

\* One argument or two are read, and the rest stand as they stood.
LEMMA BehindIs ==
  ASSUME args \in Seq(Arguments)
  PROVE  /\ args # <<>> /\ args' = Tail(args) => Behind(1)
         /\ Len(args) > 1 /\ args' = SubSeq(args, 3, Len(args)) => Behind(2)
<1>1. ASSUME args # <<>>, args' = Tail(args) PROVE Behind(1)
  <2>1. /\ Tail(args) \in Seq(Arguments) /\ Len(Tail(args)) = Len(args) - 1
        /\ \A i \in 1 .. Len(Tail(args)) : Tail(args)[i] = args[i + 1]
    BY <1>1, HeadTailProperties
  <2>2. \A i \in 1 .. Len(args) - 1 : i + 1 = 1 + i
    OBVIOUS
  <2> QED BY <1>1, <2>1, <2>2 DEF Behind
<1>2. ASSUME Len(args) > 1, args' = SubSeq(args, 3, Len(args)) PROVE Behind(2)
  <2>1. Len(args) \in Nat /\ \A k \in 3 .. Len(args) : args[k] \in Arguments
    OBVIOUS
  <2>2. /\ args' \in Seq(Arguments)
        /\ Len(args') = IF 3 <= Len(args) THEN Len(args) - 3 + 1 ELSE 0
        /\ \A k \in 1 .. Len(args) - 3 + 1 : args'[k] = args[3 + k - 1]
    BY <1>2, <2>1, SubSeqProperties
  <2>3. \A n \in Nat : n > 1 => (IF 3 <= n THEN n - 3 + 1 ELSE 0) = n - 2 /\ n - 3 + 1 = n - 2
    OBVIOUS
  <2>4. (IF 3 <= Len(args) THEN Len(args) - 3 + 1 ELSE 0) = Len(args) - 2
        /\ Len(args) - 3 + 1 = Len(args) - 2
    BY <1>2, <2>1, <2>3
  <2>5. \A k \in 1 .. Len(args) - 2 : 3 + k - 1 = 2 + k
    OBVIOUS
  <2> QED BY <2>2, <2>4, <2>5 DEF Behind
<1> QED BY <1>1, <1>2

\* One argument more was read, or an option and its value.
LEMMA ReadMore ==
  ASSUME ArgInv, phase = "args", NEW m \in {1, 2}, m <= Len(args),
         Behind(m), argv' = argv, input' \in Seq(Signs),
         \A k \in Read + 1 .. Read + m : k \notin Stops(argv) \cup Wrong(argv),
         m < Len(args) => ~ IsValue(argv, (Read + m) + 1),
         input' # NoPath <=> (input # NoPath \/ \E k \in Inputs(argv) : k \in Read + 1 .. Read + m)
  PROVE  ArgInv'
<1>1. /\ argv \in Seq(Arguments) /\ args \in Seq(Arguments) /\ Len(args) <= Len(argv)
      /\ \A k \in 1 .. Len(argv) : argv[k].text # NoPath
      /\ \A k \in 1 .. Len(args) : args[k] = argv[Read + k]
      /\ \A k \in 1 .. Read : k \notin Stops(argv) \cup Wrong(argv)
      /\ input # NoPath <=> \E k \in Inputs(argv) : k <= Read
  BY DEF ArgInv
<1>2. Len(args) \in Nat /\ Len(argv) \in Nat /\ m \in Nat /\ Read = Len(argv) - Len(args) /\ Read \in Nat
      /\ (m = 1 \/ m = 2)
  BY <1>1 DEF Read
<1>3. /\ args' \in Seq(Arguments) /\ Len(args') = Len(args) - m
      /\ \A k \in 1 .. Len(args) - m : args'[k] = args[m + k]
  BY DEF Behind
<1>4. Read' = Read + m
  <2>1. Read' = Len(argv) - Len(args')
    BY DEF Read
  <2> QED BY <1>2, <1>3, <2>1, SMTT(60)
<1>5. ASSUME NEW k \in 1 .. Len(args') PROVE args'[k] = argv[(Read + m) + k]
  <2>1. k \in 1 .. Len(args) - m
    BY <1>3
  <2>2. m + k \in 1 .. Len(args) /\ Read + (m + k) = (Read + m) + k
    BY <1>2, <2>1
  <2> QED BY <1>1, <1>3, <2>1, <2>2
<1>6. args' # <<>> => ~ IsValue(argv, (Read + m) + 1)
  <2>1. args' # <<>> => m < Len(args)
    BY <1>2, <1>3
  <2> QED BY <2>1
<1>7. \A k \in 1 .. Read + m : k \notin Stops(argv) \cup Wrong(argv)
  <2>1. \A k \in 1 .. Read + m : k \in 1 .. Read \/ k \in Read + 1 .. Read + m
    BY <1>2
  <2> QED BY <1>1, <2>1
<1>8. input' # NoPath <=> \E k \in Inputs(argv) : k <= Read + m
  <2>1. \A k \in Inputs(argv) : k \in 1 .. Len(argv)
    BY <1>1 DEF Inputs
  <2>2. \A k \in Inputs(argv) : k <= Read + m <=> (k <= Read \/ k \in Read + 1 .. Read + m)
    BY <1>2, <2>1
  <2> QED BY <1>1, <2>2
<1>9. Len(args') <= Len(argv)
  BY <1>1, <1>2, <1>3
<1>10. (NoPath') = NoPath
  BY DEF NoPath
<1> QED BY <1>1, <1>3, <1>4, <1>5, <1>6, <1>7, <1>8, <1>9, <1>10 DEF ArgInv

\* What the next argument is decides whether the loop goes on.
LEMMA Judgement ==
  ASSUME ArgInv, phase = "args", args # <<>>
  PROVE  LET k == Read + 1
         IN /\ k \in Stops(argv) <=> Head(args).opt \in {"help", "version"}
            /\ k \in Inputs(argv) <=> Head(args).opt = "path"
            /\ k \in Wrong(argv) <=> \/ Head(args).opt = "unknown"
                                     \/ Head(args).opt = "output" /\ Len(args) = 1
                                     \/ Head(args).opt = "path" /\ input # NoPath
<1> DEFINE k == Read + 1
<1>1. /\ argv \in Seq(Arguments) /\ Len(args) \in Nat /\ Len(args) > 0 /\ Len(argv) \in Nat
      /\ Read \in Nat /\ Read = Len(argv) - Len(args)
      /\ k \in 1 .. Len(argv) /\ argv[k] = Head(args) /\ ~ IsValue(argv, k)
  BY NextArgument
<1>2. k = Len(argv) <=> Len(args) = 1
  <2>1. Len(args) \in Nat /\ Len(argv) \in Nat /\ k = (Len(argv) - Len(args)) + 1
    BY <1>1
  <2> HIDE DEF k
  <2> QED BY <2>1
<1>3. k \in DOMAIN argv
  BY <1>1
<1>4. (\E j \in Inputs(argv) : j < k) <=> input # NoPath
  <2>1. \A j \in Inputs(argv) : j \in 1 .. Len(argv)
    BY <1>1 DEF Inputs
  <2>2. \A j \in Inputs(argv) : j < k <=> j <= Read
    BY <1>1, <2>1
  <2>3. input # NoPath <=> \E j \in Inputs(argv) : j <= Read
    BY DEF ArgInv
  <2> QED BY <2>2, <2>3
<1> HIDE DEF k
<1>5. k \in Stops(argv) <=> Head(args).opt \in {"help", "version"}
  BY <1>1, <1>3 DEF Stops
<1>6. k \in Inputs(argv) <=> Head(args).opt = "path"
  BY <1>1, <1>3 DEF Inputs
<1>7. k \in Wrong(argv) <=> \/ Head(args).opt = "unknown"
                            \/ Head(args).opt = "output" /\ Len(args) = 1
                            \/ Head(args).opt = "path" /\ input # NoPath
  BY <1>1, <1>2, <1>3, <1>4 DEF Wrong
<1> QED BY <1>5, <1>6, <1>7 DEF k

\* An argument that says nothing of the end of the loop is passed over.
LEMMA OneMore ==
  ASSUME ArgInv, Option("dump") \/ InputArgument, args' = Tail(args), argv' = argv,
         IF Option("dump") THEN input' = input ELSE input' = Head(args).text
  PROVE  ArgInv'
<1>1. /\ phase = "args" /\ args # <<>>
      /\ Head(args).opt = "dump" \/ (Head(args).opt = "path" /\ input = NoPath)
  BY DEF InputArgument, Option, InputFree
<1>2. /\ argv \in Seq(Arguments) /\ args \in Seq(Arguments) /\ Len(args) \in Nat /\ Len(args) > 0
      /\ Read \in Nat /\ Read < Len(argv) /\ Len(argv) \in Nat
      /\ argv[Read + 1] = Head(args) /\ Head(args) = args[1]
      /\ ~ IsValue(argv, Read + 1) /\ args[1] \in Arguments /\ argv[Read + 1].text # NoPath
      /\ (Len(args) > 1 => Read + 1 \in 1 .. Len(argv) - 1)
  BY <1>1, NextArgument
<1>3. Behind(1)
  BY <1>1, <1>2, BehindIs
<1>4. /\ Read + 1 \in Stops(argv) <=> Head(args).opt \in {"help", "version"}
      /\ Read + 1 \in Inputs(argv) <=> Head(args).opt = "path"
      /\ Read + 1 \in Wrong(argv) <=> \/ Head(args).opt = "unknown"
                                      \/ Head(args).opt = "output" /\ Len(args) = 1
                                      \/ Head(args).opt = "path" /\ input # NoPath
  BY <1>1, Judgement
<1>5. \A k \in Read + 1 .. Read + 1 : k = Read + 1
  BY <1>2
<1>6. \A k \in Read + 1 .. Read + 1 : k \notin Stops(argv) \cup Wrong(argv)
  BY <1>1, <1>4, <1>5
<1>7. 1 < Len(args) => ~ IsValue(argv, (Read + 1) + 1)
  BY <1>1, <1>2, IsValueIs
<1>8. input' \in Seq(Signs)
  <2>1. Head(args).text \in Seq(STRING)
    BY <1>2 DEF Arguments
  <2>2. \A t \in Seq(STRING) : t \in Seq(Signs)
    BY DEF Signs
  <2> QED BY <2>1, <2>2 DEF ArgInv
<1>9. input' # NoPath <=> (input # NoPath \/ \E k \in Inputs(argv) : k \in Read + 1 .. Read + 1)
  <2>1. Read + 1 \in Read + 1 .. Read + 1
    BY <1>2
  <2>2. (\E k \in Inputs(argv) : k \in Read + 1 .. Read + 1) <=> Head(args).opt = "path"
    BY <1>4, <1>5, <2>1
  <2>3. Option("dump") <=> Head(args).opt = "dump"
    BY <1>1 DEF Option
  <2> QED BY <1>1, <1>2, <2>2, <2>3
<1> HIDE DEF Read
<1>10. 1 <= Len(args)
  BY <1>2
<1> QED BY <1>1, <1>3, <1>6, <1>7, <1>8, <1>9, <1>10, ReadMore

\* An -o is passed over together with its value.
LEMMA TwoMore ==
  ASSUME ArgInv, OutputOption PROVE ArgInv'
<1>1. /\ phase = "args" /\ args # <<>> /\ Head(args).opt = "output" /\ Len(args) > 1
      /\ args' = SubSeq(args, 3, Len(args)) /\ argv' = argv /\ input' = input
  BY DEF OutputOption, Option
<1>2. /\ argv \in Seq(Arguments) /\ args \in Seq(Arguments) /\ Len(args) \in Nat
      /\ Read \in Nat /\ Len(argv) \in Nat /\ Read = Len(argv) - Len(args)
      /\ argv[Read + 1] = Head(args)
      /\ ~ IsValue(argv, Read + 1)
      /\ Read + 2 \in 1 .. Len(argv) /\ Read + 1 \in 1 .. Len(argv) - 1
  BY <1>1, NextArgument
<1>3. /\ Read + 1 \notin Stops(argv) /\ Read + 1 \notin Inputs(argv) /\ Read + 1 \notin Wrong(argv)
  <2>1. Len(args) # 1
    <3>1. Len(args) \in Nat /\ Len(args) > 1
      BY <1>1, <1>2
    <3>2. \A n \in Nat : n > 1 => n # 1
      OBVIOUS
    <3> QED BY <3>1, <3>2, Zenon
  <2> QED BY <1>1, <2>1, Judgement
<1>4. (Read + 1) + 1 = Read + 2 /\ (Read + 2) + 1 = Read + 3
  BY <1>2
<1>5. IsValue(argv, Read + 2)
  <2>1. IsValue(argv, (Read + 1) + 1) <=> argv[Read + 1].opt = "output" /\ ~ IsValue(argv, Read + 1)
    BY <1>2, IsValueIs
  <2> QED BY <1>1, <1>2, <1>4, <2>1
<1>6. Read + 2 \notin Stops(argv) /\ Read + 2 \notin Inputs(argv) /\ Read + 2 \notin Wrong(argv)
  BY <1>5 DEF Stops, Inputs, Wrong
<1>7. \A k \in Read + 1 .. Read + 2 : k = Read + 1 \/ k = Read + 2
  BY <1>2
<1>8. 2 < Len(args) => ~ IsValue(argv, (Read + 2) + 1)
  <2>1. 2 < Len(args) => Read + 2 \in 1 .. Len(argv) - 1
    BY <1>2
  <2> QED BY <1>2, <1>5, <2>1, IsValueIs
<1>9. \A k \in Read + 1 .. Read + 2 : k \notin Stops(argv) \cup Wrong(argv)
  BY <1>3, <1>6, <1>7
<1>10. input' # NoPath <=> (input # NoPath \/ \E k \in Inputs(argv) : k \in Read + 1 .. Read + 2)
  BY <1>1, <1>3, <1>6, <1>7
<1>11. input' \in Seq(Signs)
  BY <1>1 DEF ArgInv
<1>12. 2 <= Len(args) /\ 2 \in {1, 2} /\ Behind(2)
  BY <1>1, <1>2, BehindIs
<1> HIDE DEF Read
<1> QED BY <1>1, <1>8, <1>9, <1>10, <1>11, <1>12, ReadMore

\* Outside the argument loop nothing is read.
LEMMA ArgsSame ==
  ASSUME ArgInv, phase' # "args", args' = args, input' = input PROVE ArgInv'
<1>1. args \in Seq(Arguments) /\ input \in Seq(Signs)
  BY DEF ArgInv
<1>2. (args \in Seq(Arguments) /\ input \in Seq(Signs))'
  BY <1>1 DEF Arguments, Options, Signs
<1> QED BY <1>2 DEF ArgInv

\* Every step preserves the invariant of the arguments.
LEMMA ArgNext ==
  ASSUME ArgInv, [Next]_vars PROVE ArgInv'
<1>1. CASE DumpOption
  <2>1. args' = Tail(args) /\ argv' = argv /\ input' = input /\ Option("dump")
    BY <1>1 DEF DumpOption
  <2> QED BY <2>1, OneMore
<1>2. CASE InputArgument
  <2>1. args' = Tail(args) /\ argv' = argv /\ input' = Head(args).text /\ Option("path")
    BY <1>2 DEF InputArgument
  <2>2. ~ Option("dump")
    BY <2>1 DEF Option
  <2> QED BY <1>2, <2>1, <2>2, OneMore
<1>3. CASE OutputOption
  BY <1>3, TwoMore
<1>4. CASE Next /\ ~ DumpOption /\ ~ InputArgument /\ ~ OutputOption
  <2>1. /\ args' = args /\ input' = input
        /\ phase' # "args"
    BY <1>4 DEF Next, Work, Information, UsageError, EndOfArguments, LoadFails, LoadToDump,
       LoadToAssemble, DumpToken, DumpEnd, Assemble, OpenFails, OpenOutput, WriteOutput, Exited,
       CannotContinue, Exit, optVars, vars
  <2> QED BY <2>1, ArgsSame
<1>5. CASE UNCHANGED vars
  <2>1. args' = args /\ argv' = argv /\ input' = input /\ phase' = phase
    BY <1>5 DEF vars, optVars
  <2>2. (Read') = Read /\ (NoPath') = NoPath
    BY <2>1 DEF Read, NoPath
  <2>3. (args \in Seq(Arguments) /\ input \in Seq(Signs))'
    BY <2>1 DEF ArgInv, Arguments, Options, Signs
  <2> QED BY <2>1, <2>2, <2>3 DEF ArgInv
<1> QED BY <1>1, <1>2, <1>3, <1>4, <1>5

\* The arguments start in their invariant.
LEMMA ArgInit ==
  ASSUME Init PROVE ArgInv
<1>1. PICK c \in Calls : argv = c.argv
  BY DEF Init
<1>2. /\ argv \in Seq(Arguments) /\ \A k \in DOMAIN argv : argv[k].text # NoPath
      /\ args = argv /\ input = NoPath
  BY <1>1, CliAssumption DEF Init
<1>3. Len(argv) \in Nat /\ Read = 0
  BY <1>2 DEF Read
<1>4. NoPath \in Seq(Signs)
  <2>1. \A sign \in Signs : <<sign>> \in Seq(Signs)
    OBVIOUS
  <2> QED BY <2>1 DEF NoPath, Signs
<1>5. args # <<>> => ~ IsValue(argv, Read + 1)
  BY <1>2, <1>3, IsValueIs
<1>6. \A k \in Inputs(argv) : ~ (k <= Read)
  BY <1>2, <1>3 DEF Inputs
<1>7. \A k \in 1 .. Len(args) : args[k] = argv[Read + k]
  BY <1>2, <1>3
<1>8. \A k \in 1 .. Read : k \notin Stops(argv) \cup Wrong(argv)
  BY <1>3
<1>9. Len(args) <= Len(argv) /\ \A k \in 1 .. Len(argv) : argv[k].text # NoPath
  BY <1>2, <1>3
<1> QED BY <1>2, <1>4, <1>5, <1>6, <1>7, <1>8, <1>9 DEF ArgInv

\* What ends the argument loop is decided by the arguments.
LEMMA LoopEnds ==
  ASSUME ArgInv, [Next]_vars, phase = "args", phase' # "args"
  PROVE  IF phase' = "exited" THEN exit' = Decided(argv) ELSE Decided(argv) = Running
<1>1. \/ Information /\ args # <<>>
      \/ UsageError /\ args # <<>>
      \/ UsageError /\ args = <<>> /\ input = NoPath
      \/ EndOfArguments
  BY DEF Next, Work, Information, DumpOption, OutputOption, InputArgument, UsageError, EndOfArguments,
     LoadFails, LoadToDump, LoadToAssemble, DumpToken, DumpEnd, Assemble, OpenFails, OpenOutput,
     WriteOutput, Exited, Option, vars
<1>2. /\ argv \in Seq(Arguments) /\ Len(argv) \in Nat /\ Read \in 0 .. Len(argv)
      /\ \A k \in 1 .. Read : k \notin Stops(argv) \cup Wrong(argv)
      /\ input # NoPath <=> \E k \in Inputs(argv) : k <= Read
  BY DEF ArgInv, Read
<1>3. CASE args # <<>> /\ (Information \/ UsageError)
  <2>1. /\ Read < Len(argv)
        /\ Read + 1 \in Stops(argv) <=> Head(args).opt \in {"help", "version"}
        /\ Read + 1 \in Wrong(argv) <=> \/ Head(args).opt = "unknown"
                                        \/ Head(args).opt = "output" /\ Len(args) = 1
                                        \/ Head(args).opt = "path" /\ input # NoPath
    BY <1>3, NextArgument, Judgement
  <2>2. CASE Information
    <3>1. Head(args).opt \in {"help", "version"} /\ phase' = "exited" /\ exit' = 0
      BY <2>2 DEF Information, Option, Exit
    <3> QED BY <1>2, <2>1, <3>1, DecidedIs
  <2>3. CASE UsageError
    <3>1. /\ phase' = "exited" /\ exit' = 2
          /\ \/ Head(args).opt = "unknown"
             \/ Head(args).opt = "output" /\ Len(args) = 1
             \/ Head(args).opt = "path" /\ input # NoPath
      BY <1>3, <2>3 DEF UsageError, Option, Exit, InputFree
    <3> QED BY <1>2, <2>1, <3>1, DecidedIs
  <2> QED BY <1>3, <2>2, <2>3
<1>4. CASE args = <<>> /\ ((UsageError /\ input = NoPath) \/ EndOfArguments)
  <2>1. Read = Len(argv)
    BY <1>2, <1>4 DEF Read
  <2>2. Inputs(argv) = {} <=> input = NoPath
    <3>1. \A k \in Inputs(argv) : k <= Read
      BY <1>2, <2>1 DEF Inputs
    <3> QED BY <1>2, <3>1
  <2>3. Decided(argv) = IF Inputs(argv) = {} THEN 2 ELSE Running
    BY <1>2, <2>1, DecidedIs
  <2>4. CASE UsageError /\ input = NoPath
    BY <2>2, <2>3, <2>4 DEF UsageError, Exit
  <2>5. CASE EndOfArguments
    BY <2>2, <2>3, <2>5 DEF EndOfArguments
  <2> QED BY <1>4, <2>4, <2>5
<1>5. EndOfArguments => args = <<>>
  BY DEF EndOfArguments
<1> QED BY <1>1, <1>3, <1>4, <1>5

\* The command's arguments alone decide whether it stops before it loads a file,
\* and with which code: the first one that matters (main.c:227).
THEOREM ArgumentsAloneDecide == Spec => ArgumentsDecide
<1>1. Init => ArgInv
  BY ArgInit
<1>2. ArgInv /\ [Next]_vars => ArgInv'
  BY ArgNext
<1>3. ArgInv /\ [Next]_vars =>
        [phase = "args" /\ phase' # "args" =>
           IF phase' = "exited" THEN exit' = Decided(argv) ELSE Decided(argv) = Running]_vars
  BY LoopEnds
<1> QED BY <1>1, <1>2, <1>3, PTL DEF Spec, ArgumentsDecide

-----------------------------------------------------------------------------
(* The derived output. *)

\* A non-empty set of numbers up to a bound has a largest.
LEMMA LargestExists ==
  ASSUME NEW n \in Nat, NEW S \in SUBSET (0 .. n), S # {}
  PROVE  \E k \in S : \A j \in S : j <= k
<1> DEFINE T == {m \in Nat : \E k \in S : m = n - k}
<1>1. T \in SUBSET Nat /\ T # {}
  <2>1. PICK k \in S : TRUE
    OBVIOUS
  <2>2. n - k \in T
    BY <2>1
  <2> QED BY <2>2
<1>2. PICK m \in T : \A x \in T : m <= x
  <2> HIDE DEF T
  <2> QED BY <1>1, LeastNat
<1>3. PICK k \in S : m = n - k
  BY <1>2
<1>4. \A j \in S : j <= k
  <2>1. ASSUME NEW j \in S PROVE j <= k
    <3>1. n - j \in T /\ j \in Nat /\ k \in Nat
      OBVIOUS
    <3> QED BY <1>2, <1>3, <3>1
  <2> QED BY <2>1
<1> QED BY <1>4

\* The last separator of a path, or nothing before it.
LastSlash(p, k) ==
  /\ k = 0 \/ p[k] = "/"
  /\ \A j \in k + 1 .. Len(p) : p[j] # "/"

\* There is one.
LEMMA SlashIs ==
  ASSUME NEW p \in Seq(Signs)
  PROVE  \E k \in 0 .. Len(p) :
           LastSlash(p, k) /\ \A m \in 0 .. Len(p) : LastSlash(p, m) => m = k
<1> DEFINE S == {k \in 0 .. Len(p) : k = 0 \/ p[k] = "/"}
<1>1. Len(p) \in Nat /\ S \in SUBSET (0 .. Len(p)) /\ 0 \in S
  OBVIOUS
<1>2. PICK k \in S : \A j \in S : j <= k
  <2> HIDE DEF S
  <2> QED BY <1>1, LargestExists
<1>3. \A j \in k + 1 .. Len(p) : p[j] # "/"
  <2>1. ASSUME NEW j \in k + 1 .. Len(p), p[j] = "/" PROVE FALSE
    <3>1. j \in S
      BY <1>1, <1>2, <2>1
    <3> QED BY <1>2, <2>1, <3>1
  <2> QED BY <2>1
<1>4. LastSlash(p, k) /\ k \in 0 .. Len(p)
  BY <1>2, <1>3 DEF LastSlash
<1>5. ASSUME NEW m \in 0 .. Len(p), LastSlash(p, m) PROVE m = k
  <2>1. CASE m < k
    <3>1. k \in m + 1 .. Len(p) /\ k # 0
      BY <1>1, <1>4, <2>1
    <3> QED BY <1>2, <1>5, <3>1 DEF LastSlash
  <2>2. CASE k < m
    <3>1. m \in k + 1 .. Len(p) /\ m # 0
      BY <1>1, <1>4, <2>2
    <3> QED BY <1>4, <1>5, <3>1 DEF LastSlash
  <2> QED BY <1>1, <1>4, <2>1, <2>2
<1> QED BY <1>4, <1>5

\* The derived path keeps a path's first d characters, the directory among them,
\* and ends in .o.
Derives(q, p, d) ==
  /\ d \in 0 .. Len(p) /\ q \in Seq(Signs) /\ Len(q) \in {d + 1, d + 2} /\ Len(q) >= 2
  /\ \A j \in 1 .. d : q[j] = p[j]
  /\ \A j \in d + 1 .. Len(q) : q[j] # "/"
  /\ q[Len(q) - 1] = "." /\ q[Len(q)] = "o"
  /\ \A k \in 0 .. Len(p) : LastSlash(p, k) => k <= d

\* The derived path is the input with its extension replaced, or one added.
LEMMA DefaultOutputIs ==
  ASSUME NEW p \in Seq(Signs)
  PROVE  \E d : Derives(DefaultOutput(p), p, d)
<1> DEFINE dots == {k \in DOMAIN p : /\ p[k] = "."
                                     /\ \A j \in k .. Len(p) : p[j] # "/"}
           n == Len(p)
           q == DefaultOutput(p)
<1>1. n \in Nat /\ DOMAIN p = 1 .. n /\ \A j \in 1 .. n : p[j] \in Signs
  OBVIOUS
<1>2. "." \in Signs /\ "o" \in Signs /\ "." # "/" /\ "o" # "/"
  BY DEF Signs
<1>3. CASE dots = {}
  <2> DEFINE e == <<".", "o">>
  <2>1. q = p \o e
    BY <1>3 DEF DefaultOutput
  <2>2. e \in Seq(Signs) /\ Len(e) = 2 /\ e[1] = "." /\ e[2] = "o"
    BY <1>2
  <2> HIDE DEF e
  <2>3. /\ q \in Seq(Signs) /\ Len(q) = n + 2
        /\ \A j \in 1 .. n + 2 : q[j] = IF j <= n THEN p[j] ELSE e[j - n]
    <3>1. /\ p \o e \in Seq(Signs) /\ Len(p \o e) = Len(p) + Len(e)
          /\ \A j \in 1 .. Len(p) + Len(e) :
               (p \o e)[j] = IF j <= Len(p) THEN p[j] ELSE e[j - Len(p)]
      <4> HIDE DEF n, q
      <4> QED BY <2>2, ConcatProperties, Zenon
    <3>2. Len(p) + Len(e) = n + 2
      BY <2>2
    <3> HIDE DEF n, q
    <3>3. n = Len(p)
      BY DEF n
    <3> QED BY <2>1, <3>1, <3>2, <3>3
  <2> HIDE DEF q
  <2>4. q[n + 1] = "." /\ q[n + 2] = "o"
    BY <1>1, <2>2, <2>3
  <2>5. \A j \in 1 .. n : q[j] = p[j]
    BY <1>1, <2>3
  <2>6. \A j \in n + 1 .. n + 2 : q[j] # "/"
    <3>1. \A j \in n + 1 .. n + 2 : j = n + 1 \/ j = n + 2
      BY <1>1
    <3> QED BY <1>2, <2>4, <3>1
  <2>7. (n + 2) - 1 = n + 1 /\ n + 2 >= 2 /\ n \in 0 .. n
    BY <1>1
  <2>8. \A k \in 0 .. n : k <= n
    BY <1>1
  <2>9. Derives(q, p, n)
    BY <2>3, <2>4, <2>5, <2>6, <2>7, <2>8 DEF Derives
  <2> QED BY <2>9 DEF q
<1>4. CASE dots # {}
  <2> DEFINE d == CHOOSE k \in dots : \A j \in dots : j <= k
  <2>1. dots \in SUBSET (0 .. n)
    BY <1>1
  <2>2. d \in dots
    <3> HIDE DEF dots
    <3>1. \E k \in dots : \A j \in dots : j <= k
      BY <1>1, <1>4, <2>1, LargestExists
    <3> QED BY <3>1
  <2>3. d \in 1 .. n /\ p[d] = "." /\ \A j \in d .. n : p[j] # "/"
    BY <1>1, <2>2
  <2> DEFINE h == SubSeq(p, 1, d)
             e == <<"o">>
  <2>4. q = h \o e
    BY <1>4 DEF DefaultOutput
  <2> HIDE DEF d, dots
  <2>5. h \in Seq(Signs) /\ Len(h) = d /\ \A j \in 1 .. d : h[j] = p[j]
    <3>1. \A i \in 1 .. d : p[i] \in Signs
      BY <1>1, <2>3
    <3>2. 1 \in Int /\ d \in Int /\ 1 <= d /\ d - 1 + 1 = d /\ \A j \in 1 .. d : 1 + j - 1 = j
      BY <1>1, <2>3
    <3>3. /\ h \in Seq(Signs) /\ Len(h) = IF 1 <= d THEN d - 1 + 1 ELSE 0
          /\ \A j \in 1 .. d - 1 + 1 : h[j] = p[1 + j - 1]
      BY <3>1, <3>2, SubSeqProperties
    <3> HIDE DEF h
    <3> QED BY <3>2, <3>3
  <2>6. e \in Seq(Signs) /\ Len(e) = 1 /\ e[1] = "o"
    BY <1>2
  <2> HIDE DEF e, h
  <2>7. /\ q \in Seq(Signs) /\ Len(q) = d + 1
        /\ \A j \in 1 .. d + 1 : q[j] = IF j <= d THEN h[j] ELSE e[j - d]
    <3> DEFINE c == h \o e
    <3>1. h \in Seq(Signs) /\ e \in Seq(Signs)
      BY <2>5, <2>6
    <3>2. /\ c \in Seq(Signs) /\ Len(c) = Len(h) + Len(e)
          /\ \A j \in 1 .. Len(h) + Len(e) : c[j] = IF j <= Len(h) THEN h[j] ELSE e[j - Len(h)]
      BY <3>1, ConcatProperties
    <3>3. q = c
      BY <2>4
    <3> HIDE DEF c, q
    <3> QED BY <2>5, <2>6, <3>2, <3>3
  <2> HIDE DEF q
  <2>8. d \in Nat /\ d >= 1 /\ d <= n
    BY <1>1, <2>3
  <2>9. \A j \in 1 .. d : q[j] = p[j]
    BY <2>5, <2>7, <2>8
  <2>10. q[d] = "." /\ q[d + 1] = "o"
    BY <2>3, <2>6, <2>7, <2>8, <2>9
  <2>11. \A j \in d + 1 .. d + 1 : q[j] # "/"
    <3>1. \A j \in d + 1 .. d + 1 : j = d + 1
      BY <2>8
    <3> QED BY <1>2, <2>10, <3>1
  <2>12. ASSUME NEW k \in 0 .. n, LastSlash(p, k) PROVE k <= d
    <3>1. k \notin d .. n \/ k = 0
      BY <2>3, <2>12 DEF LastSlash
    <3> QED BY <1>1, <2>8, <3>1
  <2>13. (d + 1) - 1 = d /\ d + 1 >= 2 /\ d \in 0 .. n
    BY <1>1, <2>8
  <2>14. Derives(q, p, d)
    BY <2>7, <2>9, <2>10, <2>11, <2>12, <2>13 DEF Derives
  <2> QED BY <2>14 DEF q
<1> QED BY <1>3, <1>4

\* The derived output lies in the input's directory and ends in .o (main.c:128,
\* the usage text at main.c:48).
THEOREM OutputLiesBesideInput == Spec => []OutputBesideInput
<1>1. Init => ArgInv
  BY ArgInit
<1>2. ArgInv /\ [Next]_vars => ArgInv'
  BY ArgNext
<1>3. ArgInv => OutputBesideInput
  <2> SUFFICES ASSUME ArgInv PROVE OutputBesideInput
    OBVIOUS
  <2> DEFINE slash(p) == CHOOSE k \in 0 .. Len(p) :
                           /\ k = 0 \/ p[k] = "/"
                           /\ \A j \in k + 1 .. Len(p) : p[j] # "/"
             p == input
             q == DefaultOutput(input)
  <2>1. p \in Seq(Signs) /\ Len(p) \in Nat
    BY DEF ArgInv
  <2>2. PICK d : Derives(q, p, d)
    BY <2>1, DefaultOutputIs
  <2>3. PICK s \in 0 .. Len(p) :
          LastSlash(p, s) /\ \A m \in 0 .. Len(p) : LastSlash(p, m) => m = s
    BY <2>1, SlashIs
  <2>4. slash(p) = CHOOSE k \in 0 .. Len(p) : LastSlash(p, k)
    BY DEF LastSlash
  <2>5. slash(q) = CHOOSE k \in 0 .. Len(q) : LastSlash(q, k)
    BY DEF LastSlash
  <2> HIDE DEF p, q, slash
  <2>6. slash(p) = s
    BY <2>3, <2>4
  <2>7. /\ d \in Nat /\ d <= Len(p) /\ s \in Nat /\ s <= d /\ q \in Seq(Signs)
        /\ Len(q) \in Nat /\ Len(q) > d /\ Len(q) >= 2
        /\ \A j \in 1 .. d : q[j] = p[j]
        /\ \A j \in d + 1 .. Len(q) : q[j] # "/"
        /\ q[Len(q) - 1] = "." /\ q[Len(q)] = "o"
    BY <2>1, <2>2, <2>3 DEF Derives
  <2>8. LastSlash(q, s) /\ s \in 0 .. Len(q)
    <3>1. s = 0 \/ q[s] = "/"
      <4>1. CASE s # 0
        <5>1. s \in 1 .. d /\ p[s] = "/"
          BY <2>3, <2>7, <4>1 DEF LastSlash
        <5> QED BY <2>7, <5>1
      <4> QED BY <4>1
    <3>2. ASSUME NEW j \in s + 1 .. Len(q) PROVE q[j] # "/"
      <4>1. CASE j <= d
        <5>1. j \in 1 .. d /\ j \in s + 1 .. Len(p)
          BY <2>1, <2>7, <4>1
        <5> QED BY <2>3, <2>7, <5>1 DEF LastSlash
      <4>2. CASE ~ (j <= d)
        <5>1. j \in d + 1 .. Len(q)
          BY <2>7, <4>2
        <5> QED BY <2>7, <5>1
      <4> QED BY <4>1, <4>2
    <3>3. s \in 0 .. Len(q)
      BY <2>7
    <3> QED BY <3>1, <3>2, <3>3 DEF LastSlash
  <2>9. slash(q) = s
    <3>1. PICK k \in 0 .. Len(q) :
            LastSlash(q, k) /\ \A m \in 0 .. Len(q) : LastSlash(q, m) => m = k
      BY <2>7, SlashIs
    <3>2. s = k
      BY <2>8, <3>1
    <3> QED BY <2>5, <3>1, <3>2
  <2>10. SubSeq(q, 1, s) = SubSeq(p, 1, s)
    <3> DEFINE a == SubSeq(q, 1, s)
               b == SubSeq(p, 1, s)
    <3>1. /\ 1 \in Int /\ s \in Int /\ \A j \in 1 .. s : j \in 1 .. d /\ j \in 1 .. Len(p) /\ j \in 1 .. Len(q)
      BY <2>1, <2>7
    <3>2. /\ \A j \in 1 .. s : q[j] \in Signs /\ p[j] \in Signs /\ q[j] = p[j]
      BY <2>1, <2>7, <3>1
    <3>3. /\ a \in Seq(Signs) /\ Len(a) = IF 1 <= s THEN s - 1 + 1 ELSE 0
          /\ \A j \in 1 .. s - 1 + 1 : a[j] = q[1 + j - 1]
      BY <3>1, <3>2, SubSeqProperties
    <3>4. /\ b \in Seq(Signs) /\ Len(b) = IF 1 <= s THEN s - 1 + 1 ELSE 0
          /\ \A j \in 1 .. s - 1 + 1 : b[j] = p[1 + j - 1]
      BY <3>1, <3>2, SubSeqProperties
    <3>5. s - 1 + 1 = s /\ (\A j \in 1 .. s : 1 + j - 1 = j) /\ (IF 1 <= s THEN s ELSE 0) = s
      BY <2>7
    <3> HIDE DEF a, b
    <3>6. Len(a) = Len(b) /\ \A j \in 1 .. Len(a) : a[j] = b[j]
      BY <3>2, <3>3, <3>4, <3>5
    <3>7. a = b
      BY <3>3, <3>4, <3>6, SeqEqual
    <3> QED BY <3>7 DEF a, b
  <2>11. SubSeq(q, Len(q) - 1, Len(q)) = <<".", "o">>
    <3> DEFINE a == SubSeq(q, Len(q) - 1, Len(q))
               b == <<".", "o">>
               n == Len(q)
    <3>1. /\ n - 1 \in Int /\ n \in Int /\ n - 1 <= n /\ n - (n - 1) + 1 = 2
          /\ (\A j \in n - 1 .. n : j \in 1 .. n) /\ (n - 1) + 1 - 1 = n - 1 /\ (n - 1) + 2 - 1 = n
      BY <2>7
    <3>2. \A j \in n - 1 .. n : q[j] \in Signs
      BY <2>7, <3>1
    <3>3. /\ a \in Seq(Signs) /\ Len(a) = IF n - 1 <= n THEN n - (n - 1) + 1 ELSE 0
          /\ \A j \in 1 .. n - (n - 1) + 1 : a[j] = q[(n - 1) + j - 1]
      BY <3>1, <3>2, SubSeqProperties
    <3> HIDE DEF a, n
    <3>4. Len(a) = 2 /\ a[1] = q[n - 1] /\ a[2] = q[n]
      BY <3>1, <3>3
    <3>5. a[1] = "." /\ a[2] = "o"
      BY <2>7, <3>4 DEF n
    <3>6. b \in Seq(Signs) /\ Len(b) = 2 /\ b[1] = "." /\ b[2] = "o"
      BY DEF Signs
    <3> HIDE DEF b
    <3>7. \A j \in 1 .. 2 : j = 1 \/ j = 2
      OBVIOUS
    <3>8. Len(a) = Len(b) /\ \A j \in 1 .. Len(a) : a[j] = b[j]
      BY <3>4, <3>5, <3>6, <3>7
    <3>9. a = b
      BY <3>3, <3>6, <3>8, SeqEqual
    <3> QED BY <3>9 DEF a, b
  <2> QED BY <2>6, <2>9, <2>10, <2>11 DEF OutputBesideInput, p, q, slash
<1> QED BY <1>1, <1>2, <1>3, PTL DEF Spec
=============================================================================
