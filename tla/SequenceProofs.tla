--------------------------- MODULE SequenceProofs ---------------------------
(***************************************************************************)
(* Lemmas on sequences that the proofs of several components need: sums of *)
(* their elements, and sequences one behind the other.  What is recursive  *)
(* is proved for the least number for which it fails, for which no         *)
(* operator has to be instantiated.                                        *)
(***************************************************************************)
EXTENDS Integers, SequencesExt, SequenceTheorems, WellFoundedInduction, TLAPS

\* A set of numbers has a least one.
LEMMA LeastNumber ==
    ASSUME NEW T \in SUBSET Nat, T # {}
    PROVE  \E m \in T : \A k \in T : m <= k
<1> DEFINE R == OpToRel(<, Nat)
<1>1. \A x, y \in Nat : y < x => <<y, x>> \in R
  BY DEF OpToRel
<1>2. IsWellFoundedOn(R, Nat)
  BY NatLessThanWellFounded
<1> HIDE DEF R
<1>3. PICK m \in T : \A y \in T : ~ (<<y, m>> \in R)
  BY <1>2, WFMin
<1>4. ASSUME NEW k \in T PROVE m <= k
  <2>1. ~(k < m)
    BY <1>1, <1>3
  <2> QED
    BY <2>1
<1> QED
  BY <1>3, <1>4

\* s[k] is the sum of the first k elements of g.
IsSum(s, n, g) ==
    /\ s \in [0 .. n -> Int] /\ s[0] = 0
    /\ \A k \in 1 .. n : s[k] = s[k - 1] + g[k]

SumOf(n, g) == (CHOOSE s : IsSum(s, n, g))[n]

\* There are sums.
LEMMA SumExists ==
    ASSUME NEW n \in Nat, NEW g, \A k \in 1 .. n : g[k] \in Int
    PROVE  \E s : IsSum(s, n, g)
<1> DEFINE T == {m \in 0 .. n : ~ \E s : IsSum(s, m, g)}
<1>1. ASSUME T # {} PROVE FALSE
  <2>1. T \in SUBSET Nat
    OBVIOUS
  <2>2. PICK m \in T : \A k \in T : m <= k
    BY <1>1, <2>1, LeastNumber
  <2>3. m \in 0 .. n /\ ~ \E s : IsSum(s, m, g)
    OBVIOUS
  <2>4. m # 0
    <3>1. IsSum([k \in 0 .. 0 |-> 0], 0, g)
      BY DEF IsSum
    <3> QED
      BY <2>3, <3>1
  <2>5. m - 1 \in 0 .. n /\ ~(m <= m - 1)
    BY <2>3, <2>4
  <2>6. m - 1 \notin T
    BY <2>2, <2>5
  <2>7. PICK s : IsSum(s, m - 1, g)
    BY <2>5, <2>6
  <2> DEFINE t == [k \in 0 .. m |-> IF k < m THEN s[k] ELSE s[m - 1] + g[m]]
  <2>8. s \in [0 .. m - 1 -> Int] /\ s[0] = 0 /\ g[m] \in Int /\ m \in Nat
    BY <2>3, <2>4, <2>7 DEF IsSum
  <2>9. \A k \in 0 .. m : (IF k < m THEN s[k] ELSE s[m - 1] + g[m]) \in Int
    <3> SUFFICES ASSUME NEW k \in 0 .. m
                 PROVE  (IF k < m THEN s[k] ELSE s[m - 1] + g[m]) \in Int
      OBVIOUS
    <3>1. k < m => k \in 0 .. m - 1
      BY <2>8
    <3>2. m - 1 \in 0 .. m - 1
      BY <2>4, <2>8
    <3> QED
      BY <2>8, <3>1, <3>2
  <2>10. t \in [0 .. m -> Int]
    BY <2>9
  <2>11. t[0] = 0
    BY <2>4, <2>8
  <2>12. \A k \in 0 .. m - 1 : t[k] = s[k]
    BY <2>8
  <2>13. t[m] = s[m - 1] + g[m]
    BY <2>8
  <2> HIDE DEF t
  <2>14. \A k \in 1 .. m : t[k] = t[k - 1] + g[k]
    <3> SUFFICES ASSUME NEW k \in 1 .. m PROVE t[k] = t[k - 1] + g[k]
      OBVIOUS
    <3>1. k - 1 \in 0 .. m - 1
      BY <2>8
    <3>2. CASE k = m
      BY <2>12, <2>13, <3>1, <3>2
    <3>3. CASE k # m
      <4>1. k \in 1 .. m - 1 /\ k \in 0 .. m - 1
        BY <2>8, <3>3
      <4> QED
        BY <2>7, <2>12, <3>1, <4>1 DEF IsSum
    <3> QED
      BY <3>2, <3>3
  <2>15. IsSum(t, m, g)
    BY <2>10, <2>11, <2>14 DEF IsSum
  <2> QED
    BY <2>3, <2>15
<1>2. n \in 0 .. n
  OBVIOUS
<1> QED
  BY <1>1, <1>2

\* And no other function adds up like one.
LEMMA SumUnique ==
    ASSUME NEW n \in Nat, NEW g, NEW s, IsSum(s, n, g), NEW f,
           f[0] = 0, \A k \in 1 .. n : f[k] = f[k - 1] + g[k]
    PROVE  \A k \in 0 .. n : f[k] = s[k]
<1> DEFINE T == {k \in 0 .. n : f[k] # s[k]}
<1>1. ASSUME T # {} PROVE FALSE
  <2>1. T \in SUBSET Nat
    OBVIOUS
  <2>2. PICK m \in T : \A k \in T : m <= k
    BY <1>1, <2>1, LeastNumber
  <2>3. m \in 0 .. n /\ f[m] # s[m]
    OBVIOUS
  <2>4. m # 0
    BY <2>3 DEF IsSum
  <2>5. m - 1 \in 0 .. n /\ ~(m <= m - 1) /\ m \in 1 .. n
    BY <2>3, <2>4
  <2>6. f[m - 1] = s[m - 1]
    BY <2>2, <2>5
  <2> QED
    BY <2>3, <2>5, <2>6 DEF IsSum
<1> QED
  BY <1>1

\* Whatever adds up is the sum.
LEMMA SumIs ==
    ASSUME NEW n \in Nat, NEW g, \A k \in 1 .. n : g[k] \in Int, NEW f,
           f[0] = 0, \A k \in 1 .. n : f[k] = f[k - 1] + g[k]
    PROVE  \A k \in 0 .. n : f[k] = SumOf(k, g) /\ f[k] \in Int
<1> SUFFICES ASSUME NEW m \in 0 .. n PROVE f[m] = SumOf(m, g) /\ f[m] \in Int
  OBVIOUS
<1>1. m \in Nat /\ m \in 0 .. m /\ \A k \in 1 .. m : k \in 1 .. n
  OBVIOUS
<1> DEFINE s == CHOOSE s : IsSum(s, m, g)
<1>2. IsSum(s, m, g)
  BY <1>1, SumExists
<1> HIDE DEF s
<1>3. f[m] = s[m]
  BY <1>1, <1>2, SumUnique
<1> QED
  BY <1>1, <1>2, <1>3 DEF SumOf, IsSum, s

\* The sums as a function.
LEMMA SumStep ==
    ASSUME NEW n \in Nat, NEW g, \A k \in 1 .. n : g[k] \in Int
    PROVE  /\ SumOf(0, g) = 0
           /\ \A k \in 0 .. n : SumOf(k, g) \in Int
           /\ \A k \in 1 .. n : SumOf(k, g) = SumOf(k - 1, g) + g[k]
<1>1. PICK s : IsSum(s, n, g)
  BY SumExists
<1>2. \A k \in 0 .. n : s[k] = SumOf(k, g) /\ s[k] \in Int
  BY <1>1, SumIs DEF IsSum
<1>3. 0 \in 0 .. n /\ \A k \in 1 .. n : k \in 0 .. n /\ k - 1 \in 0 .. n
  OBVIOUS
<1> QED
  BY <1>1, <1>2, <1>3 DEF IsSum

\* Sums of the same elements.
LEMMA SumSame ==
    ASSUME NEW n \in Nat, NEW g, NEW h, \A k \in 1 .. n : g[k] \in Int /\ h[k] = g[k]
    PROVE  SumOf(n, h) = SumOf(n, g)
<1>1. PICK s : IsSum(s, n, g)
  BY SumExists
<1>2. n \in 0 .. n
  OBVIOUS
<1>3. s[n] = SumOf(n, g)
  BY <1>1, <1>2, SumIs DEF IsSum
<1>4. IsSum(s, n, h)
  BY <1>1 DEF IsSum
<1>5. s[n] = SumOf(n, h)
  BY <1>2, <1>4, SumIs DEF IsSum
<1> QED
  BY <1>3, <1>5

\* Sums that differ in one element.
LEMMA SumChange ==
    ASSUME NEW n \in Nat, NEW g, NEW h, NEW i \in 1 .. n,
           \A k \in 1 .. n : g[k] \in Int /\ h[k] \in Int /\ (k # i => h[k] = g[k])
    PROVE  SumOf(n, h) = SumOf(n, g) + (h[i] - g[i])
<1>1. PICK s : IsSum(s, n, g)
  BY SumExists
<1> DEFINE d == h[i] - g[i]
           t == [k \in 0 .. n |-> IF i <= k THEN s[k] + d ELSE s[k]]
<1>2. n \in 0 .. n /\ d \in Int /\ ~(i <= 0) /\ 0 \in 0 .. n
  OBVIOUS
<1>3. s[n] = SumOf(n, g)
  BY <1>1, <1>2, SumIs DEF IsSum
<1>4. t[0] = 0
  BY <1>1, <1>2 DEF IsSum
<1>5. ASSUME NEW k \in 1 .. n PROVE t[k] = t[k - 1] + h[k]
  <2>1. /\ k \in 0 .. n /\ k - 1 \in 0 .. n /\ s[k] = s[k - 1] + g[k]
        /\ s[k - 1] \in Int /\ g[k] \in Int /\ h[k] \in Int
    BY <1>1 DEF IsSum
  <2>2. /\ t[k] = IF i <= k THEN s[k] + d ELSE s[k]
        /\ t[k - 1] = IF i <= k - 1 THEN s[k - 1] + d ELSE s[k - 1]
    BY <2>1
  <2> HIDE DEF t
  <2>3. CASE k = i
    <3>1. i <= k /\ ~(i <= k - 1) /\ d = h[k] - g[k]
      BY <2>3
    <3> HIDE DEF d
    <3> QED
      BY <2>1, <2>2, <3>1
  <2>4. CASE k # i
    <3>1. h[k] = g[k] /\ (i <= k <=> i <= k - 1)
      BY <2>4
    <3> HIDE DEF d
    <3> QED
      BY <1>2, <2>1, <2>2, <3>1
  <2> QED
    BY <2>3, <2>4
<1>6. t[n] = s[n] + d
  BY <1>2
<1> HIDE DEF t
<1>7. t[n] = SumOf(n, h)
  BY <1>2, <1>4, <1>5, SumIs
<1> QED
  BY <1>3, <1>6, <1>7

\* Sums of nothing.
LEMMA SumZero ==
    ASSUME NEW n \in Nat, NEW g, \A k \in 1 .. n : g[k] = 0
    PROVE  SumOf(n, g) = 0
<1> DEFINE t == [k \in 0 .. n |-> 0]
<1>1. t[0] = 0 /\ n \in 0 .. n /\ t[n] = 0
  OBVIOUS
<1>2. \A k \in 1 .. n : t[k] = t[k - 1] + g[k]
  OBVIOUS
<1> HIDE DEF t
<1> QED
  BY <1>1, <1>2, SumIs

\* Sums of natural numbers.
LEMMA SumNat ==
    ASSUME NEW n \in Nat, NEW g, \A k \in 1 .. n : g[k] \in Nat
    PROVE  SumOf(n, g) \in Nat
<1>1. PICK s : IsSum(s, n, g)
  BY SumExists
<1> DEFINE T == {k \in 0 .. n : ~(s[k] >= 0)}
<1>2. ASSUME T # {} PROVE FALSE
  <2>1. T \in SUBSET Nat
    OBVIOUS
  <2>2. PICK m \in T : \A k \in T : m <= k
    BY <1>2, <2>1, LeastNumber
  <2>3. m \in 0 .. n /\ ~(s[m] >= 0) /\ s[m] \in Int
    BY <1>1 DEF IsSum
  <2>4. m # 0
    BY <1>1, <2>3 DEF IsSum
  <2>5. m - 1 \in 0 .. n /\ ~(m <= m - 1) /\ m \in 1 .. n /\ s[m - 1] \in Int
    BY <1>1, <2>3, <2>4 DEF IsSum
  <2>6. s[m - 1] >= 0
    BY <2>2, <2>5
  <2>7. s[m] = s[m - 1] + g[m] /\ g[m] \in Nat
    BY <1>1, <2>5 DEF IsSum
  <2> QED
    BY <2>3, <2>5, <2>6, <2>7
<1>3. n \in 0 .. n /\ s[n] >= 0 /\ s[n] \in Int
  BY <1>1, <1>2 DEF IsSum
<1>4. \A k \in 1 .. n : g[k] \in Int
  OBVIOUS
<1>5. s[n] = SumOf(n, g)
  BY <1>1, <1>3, <1>4, SumIs DEF IsSum
<1> QED
  BY <1>3, <1>5

LEMMA Behind ==
    ASSUME NEW S, NEW s \in Seq(S), NEW t \in Seq(S)
    PROVE  /\ s \o t \in Seq(S) /\ Len(s \o t) = Len(s) + Len(t)
           /\ \A i \in 1 .. Len(s) : (s \o t)[i] = s[i]
           /\ \A i \in 1 .. Len(t) : (s \o t)[Len(s) + i] = t[i]
<1>1. /\ s \o t \in Seq(S) /\ Len(s \o t) = Len(s) + Len(t)
      /\ \A i \in 1 .. Len(s) + Len(t) :
            (s \o t)[i] = IF i <= Len(s) THEN s[i] ELSE t[i - Len(s)]
  BY ConcatProperties
<1>2. Len(s) \in Nat /\ Len(t) \in Nat
  OBVIOUS
<1>3. ASSUME NEW i \in 1 .. Len(t) PROVE (s \o t)[Len(s) + i] = t[i]
  <2>1. /\ Len(s) + i \in 1 .. Len(s) + Len(t) /\ ~(Len(s) + i <= Len(s))
        /\ (Len(s) + i) - Len(s) = i
    BY <1>2
  <2> QED
    BY <1>1, <2>1
<1>4. \A i \in 1 .. Len(s) : i \in 1 .. Len(s) + Len(t) /\ i <= Len(s)
  BY <1>2
<1> QED
  BY <1>1, <1>3, <1>4

-----------------------------------------------------------------------------
(***************************************************************************)
(* Sequences one behind the other: what FlattenSeq makes of them, and      *)
(* where in it each is.                                                    *)
(***************************************************************************)
\* f[k] is the first k sequences one behind the other.
IsFlat(f, n, seqs) ==
    f = [i \in 1 .. n |-> IF i = 1 THEN seqs[i] ELSE f[i - 1] \o seqs[i]]

FlatOf(n, seqs) == (CHOOSE f : IsFlat(f, n, seqs))[n]

LEMMA FlatValue ==
    ASSUME NEW n \in Nat, NEW seqs, NEW f, IsFlat(f, n, seqs), NEW k \in 1 .. n
    PROVE  f[k] = IF k = 1 THEN seqs[k] ELSE f[k - 1] \o seqs[k]
<1> DEFINE value(i) == IF i = 1 THEN seqs[i] ELSE f[i - 1] \o seqs[i]
<1>1. f = [i \in 1 .. n |-> value(i)]
  BY DEF IsFlat
<1>2. f[k] = value(k)
  <2> HIDE DEF value
  <2>1. [i \in 1 .. n |-> value(i)][k] = value(k)
    OBVIOUS
  <2> QED
    BY <1>1, <2>1
<1> QED
  BY <1>2

LEMMA FlatExists ==
    ASSUME NEW n \in Nat, NEW seqs
    PROVE  \E f : IsFlat(f, n, seqs)
<1> DEFINE T == {m \in 0 .. n : ~ \E f : IsFlat(f, m, seqs)}
<1>1. ASSUME T # {} PROVE FALSE
  <2>0. T \in SUBSET Nat
    OBVIOUS
  <2>1. PICK m \in T : \A k \in T : m <= k
    BY <1>1, <2>0, LeastNumber
  <2>2. m \in 0 .. n /\ ~ \E f : IsFlat(f, m, seqs)
    OBVIOUS
  <2>3. m # 0
    <3> DEFINE f == [i \in 1 .. 0 |-> 0]
    <3>1. f = [i \in 1 .. 0 |-> IF i = 1 THEN seqs[i] ELSE f[i - 1] \o seqs[i]]
      OBVIOUS
    <3>2. IsFlat(f, 0, seqs)
      BY <3>1 DEF IsFlat
    <3> QED
      BY <2>2, <3>2
  <2>4. m - 1 \in 0 .. n /\ m - 1 \in Nat /\ ~(m <= m - 1) /\ m \in 1 .. m
    BY <2>2, <2>3
  <2>5. PICK f : IsFlat(f, m - 1, seqs)
    BY <2>1, <2>4
  <2> DEFINE last == IF m = 1 THEN seqs[m] ELSE f[m - 1] \o seqs[m]
             g == [i \in 1 .. m |-> IF i = m THEN last ELSE f[i]]
             value(i) == IF i = 1 THEN seqs[i] ELSE g[i - 1] \o seqs[i]
  <2>6. ASSUME NEW i \in 1 .. m PROVE g[i] = value(i)
    <3>1. CASE i = m
      <4>1. g[i] = last
        BY <3>1
      <4>2. m # 1 => m - 1 \in 1 .. m /\ m - 1 # m
        BY <2>4
      <4>3. m # 1 => g[m - 1] = f[m - 1]
        BY <4>2
      <4> QED
        BY <3>1, <4>1, <4>3
    <3>2. CASE i # m
      <4>1. i \in 1 .. m - 1 /\ g[i] = f[i]
        BY <2>2, <3>2
      <4>2. f[i] = IF i = 1 THEN seqs[i] ELSE f[i - 1] \o seqs[i]
        BY <2>4, <2>5, <4>1, FlatValue
      <4>3. i # 1 => i - 1 \in 1 .. m /\ i - 1 # m
        BY <2>2, <4>1
      <4>4. i # 1 => g[i - 1] = f[i - 1]
        BY <4>3
      <4> QED
        BY <4>1, <4>2, <4>4
    <3> QED
      BY <3>1, <3>2
  <2>7. g = [i \in 1 .. m |-> g[i]]
    OBVIOUS
  <2> HIDE DEF g
  <2>8. g = [i \in 1 .. m |-> value(i)]
    BY <2>6, <2>7
  <2>9. IsFlat(g, m, seqs)
    BY <2>8 DEF IsFlat
  <2> QED
    BY <2>2, <2>9
<1>2. n \in 0 .. n
  OBVIOUS
<1> QED
  BY <1>1, <1>2

LEMMA FlatUnique ==
    ASSUME NEW n \in Nat, NEW seqs, NEW f, IsFlat(f, n, seqs),
           NEW m \in Nat, NEW t, NEW g, IsFlat(g, m, t),
           NEW k \in 1 .. n, k <= m, \A i \in 1 .. k : t[i] = seqs[i]
    PROVE  g[k] = f[k]
<1> DEFINE T == {i \in 1 .. k : g[i] # f[i]}
<1>1. ASSUME T # {} PROVE FALSE
  <2>1. T \in SUBSET Nat
    OBVIOUS
  <2>2. PICK j \in T : \A i \in T : j <= i
    BY <1>1, <2>1, LeastNumber
  <2>3. j \in 1 .. k /\ g[j] # f[j] /\ j \in 1 .. n /\ j \in 1 .. m
    BY <2>2
  <2>4. /\ f[j] = IF j = 1 THEN seqs[j] ELSE f[j - 1] \o seqs[j]
        /\ g[j] = IF j = 1 THEN t[j] ELSE g[j - 1] \o t[j]
    BY <2>3, FlatValue
  <2>5. j # 1
    BY <2>3, <2>4
  <2>6. j - 1 \in 1 .. k /\ ~(j <= j - 1)
    BY <2>3, <2>5
  <2>7. g[j - 1] = f[j - 1]
    BY <2>2, <2>6
  <2> QED
    BY <2>3, <2>4, <2>7
<1> QED
  BY <1>1

\* The sequences one behind the other, one more at a time.
LEMMA Flat ==
    ASSUME NEW n \in Nat, n # 0, NEW seqs
    PROVE  /\ n = 1 => FlatOf(n, seqs) = seqs[1]
           /\ n # 1 => FlatOf(n, seqs) = FlatOf(n - 1, seqs) \o seqs[n]
<1>1. IsFlat(CHOOSE f : IsFlat(f, n, seqs), n, seqs)
  BY FlatExists
<1> DEFINE f == CHOOSE f : IsFlat(f, n, seqs)
<1>2. f[n] = IF n = 1 THEN seqs[n] ELSE f[n - 1] \o seqs[n]
  <2> HIDE DEF f
  <2> QED
    BY <1>1, FlatValue DEF f
<1>3. CASE n = 1
  BY <1>2, <1>3 DEF FlatOf
<1>4. CASE n # 1
  <2>1. n - 1 \in Nat /\ n - 1 \in 1 .. n /\ n - 1 <= n - 1 /\ n - 1 \in 1 .. n - 1
    BY <1>4
  <2> DEFINE g == CHOOSE g : IsFlat(g, n - 1, seqs)
  <2>2. IsFlat(g, n - 1, seqs)
    BY <2>1, FlatExists
  <2>3. g[n - 1] = f[n - 1]
    <3> HIDE DEF f, g
    <3> QED
      BY <1>1, <2>1, <2>2, FlatUnique DEF f
  <2> QED
    BY <1>2, <1>4, <2>3 DEF FlatOf
<1> QED
  BY <1>3, <1>4

\* Only the sequences themselves matter.
LEMMA FlatSame ==
    ASSUME NEW n \in Nat, n # 0, NEW seqs, NEW t, \A i \in 1 .. n : t[i] = seqs[i]
    PROVE  FlatOf(n, t) = FlatOf(n, seqs)
<1> DEFINE f == CHOOSE f : IsFlat(f, n, seqs)
           g == CHOOSE g : IsFlat(g, n, t)
<1>1. IsFlat(f, n, seqs) /\ IsFlat(g, n, t)
  BY FlatExists
<1> HIDE DEF f, g
<1>2. n \in 1 .. n /\ n <= n
  OBVIOUS
<1>3. g[n] = f[n]
  BY <1>1, <1>2, FlatUnique
<1> QED
  BY <1>3 DEF FlatOf, f, g

LEMMA FlattenIs ==
    ASSUME NEW seqs, Len(seqs) \in Nat, Len(seqs) # 0
    PROVE  FlattenSeq(seqs) = FlatOf(Len(seqs), seqs)
BY DEF FlattenSeq, FlatOf, IsFlat

\* The first k sequences one behind the other.
FlatTo(k, seqs) == IF k = 0 THEN <<>> ELSE FlatOf(k, seqs)

LEMMA FlatJoined ==
    ASSUME NEW S, NEW seqs, NEW k \in Nat \ {0}, seqs[k] \in Seq(S)
    PROVE  FlatTo(k, seqs) = FlatTo(k - 1, seqs) \o seqs[k]
<1>1. CASE k = 1
  <2>1. FlatTo(k - 1, seqs) = <<>> /\ FlatTo(k, seqs) = FlatOf(k, seqs)
    BY <1>1 DEF FlatTo
  <2>2. FlatOf(k, seqs) = seqs[k]
    BY <1>1, Flat
  <2> QED
    BY <2>1, <2>2, ConcatEmptySeq
<1>2. CASE k # 1
  <2>1. k - 1 # 0
    BY <1>2
  <2>2. FlatTo(k - 1, seqs) = FlatOf(k - 1, seqs) /\ FlatTo(k, seqs) = FlatOf(k, seqs)
    BY <2>1 DEF FlatTo
  <2> QED
    BY <1>2, <2>2, Flat
<1> QED
  BY <1>1, <1>2

LEMMA FlatType ==
    ASSUME NEW S, NEW seqs \in Seq(Seq(S)), NEW k \in 0 .. Len(seqs)
    PROVE  FlatTo(k, seqs) \in Seq(S) /\ Len(FlatTo(k, seqs)) \in Nat
<1> DEFINE T == {m \in 0 .. Len(seqs) : FlatTo(m, seqs) \notin Seq(S)}
<1>1. ASSUME T # {} PROVE FALSE
  <2>1. T \in SUBSET Nat
    OBVIOUS
  <2>2. PICK m \in T : \A i \in T : m <= i
    BY <1>1, <2>1, LeastNumber
  <2>3. m # 0
    BY <2>2, EmptySeq DEF FlatTo
  <2>4. m \in 1 .. Len(seqs) /\ m - 1 \in 0 .. Len(seqs) /\ ~(m <= m - 1)
    BY <2>2, <2>3
  <2>5. FlatTo(m - 1, seqs) \in Seq(S) /\ seqs[m] \in Seq(S) /\ m \in Nat \ {0}
    BY <2>2, <2>4
  <2>6. FlatTo(m, seqs) = FlatTo(m - 1, seqs) \o seqs[m]
    BY <2>5, FlatJoined
  <2>7. FlatTo(m, seqs) \in Seq(S)
    BY <2>5, <2>6, ConcatProperties
  <2> QED
    BY <2>2, <2>7
<1>2. FlatTo(k, seqs) \in Seq(S)
  BY <1>1
<1> QED
  BY <1>2

LEMMA FlatNext ==
    ASSUME NEW S, NEW seqs \in Seq(Seq(S))
    PROVE  \A k \in 1 .. Len(seqs) :
              /\ seqs[k] \in Seq(S) /\ Len(seqs[k]) \in Nat
              /\ FlatTo(k - 1, seqs) \in Seq(S) /\ Len(FlatTo(k - 1, seqs)) \in Nat
              /\ FlatTo(k, seqs) = FlatTo(k - 1, seqs) \o seqs[k]
              /\ Len(FlatTo(k, seqs)) = Len(FlatTo(k - 1, seqs)) + Len(seqs[k])
<1> SUFFICES ASSUME NEW k \in 1 .. Len(seqs)
             PROVE  /\ seqs[k] \in Seq(S) /\ Len(seqs[k]) \in Nat
                    /\ FlatTo(k - 1, seqs) \in Seq(S) /\ Len(FlatTo(k - 1, seqs)) \in Nat
                    /\ FlatTo(k, seqs) = FlatTo(k - 1, seqs) \o seqs[k]
                    /\ Len(FlatTo(k, seqs)) = Len(FlatTo(k - 1, seqs)) + Len(seqs[k])
  OBVIOUS
<1>1. FlatTo(k - 1, seqs) \in Seq(S) /\ Len(FlatTo(k - 1, seqs)) \in Nat
  BY FlatType
<1>2. seqs[k] \in Seq(S) /\ Len(seqs[k]) \in Nat /\ k \in Nat \ {0}
  OBVIOUS
<1>3. FlatTo(k, seqs) = FlatTo(k - 1, seqs) \o seqs[k]
  BY <1>2, FlatJoined
<1>4. Len(FlatTo(k, seqs)) = Len(FlatTo(k - 1, seqs)) + Len(seqs[k])
  BY <1>1, <1>2, <1>3, ConcatProperties
<1> QED
  BY <1>1, <1>2, <1>3, <1>4

\* FlattenSeq of the first k.
LEMMA FlattenFirst ==
    ASSUME NEW S, NEW seqs \in Seq(Seq(S)), NEW k \in 0 .. Len(seqs)
    PROVE  FlattenSeq(SubSeq(seqs, 1, k)) = FlatTo(k, seqs)
<1> DEFINE first == SubSeq(seqs, 1, k)
<1>1. /\ Len(first) = k /\ Len(first) \in Nat
      /\ \A i \in 1 .. k : first[i] = seqs[i]
      /\ k = 0 => first = <<>>
  OBVIOUS
<1> HIDE DEF first
<1>2. CASE k = 0
  BY <1>1, <1>2 DEF FlatTo, FlattenSeq, first
<1>3. CASE k # 0
  <2>1. FlattenSeq(first) = FlatOf(k, first)
    BY <1>1, <1>3, FlattenIs
  <2>2. FlatOf(k, first) = FlatOf(k, seqs)
    BY <1>1, <1>3, FlatSame
  <2> QED
    BY <1>3, <2>1, <2>2 DEF FlatTo, first
<1> QED
  BY <1>2, <1>3

LEMMA FlattenAll ==
    ASSUME NEW S, NEW seqs \in Seq(Seq(S))
    PROVE  /\ FlattenSeq(seqs) = FlatTo(Len(seqs), seqs)
           /\ FlattenSeq(seqs) \in Seq(S)
<1>1. SubSeq(seqs, 1, Len(seqs)) = seqs /\ Len(seqs) \in 0 .. Len(seqs)
  BY SubSeqFull
<1> QED
  BY <1>1, FlattenFirst, FlatType

\* Where each of them is.
LEMMA FlatElements ==
    ASSUME NEW S, NEW seqs \in Seq(Seq(S)), NEW n \in 0 .. Len(seqs),
           NEW k \in 1 .. n, NEW j \in 1 .. Len(seqs[k])
    PROVE  /\ Len(FlatTo(k - 1, seqs)) + j \in 1 .. Len(FlatTo(n, seqs))
           /\ FlatTo(n, seqs)[Len(FlatTo(k - 1, seqs)) + j] = seqs[k][j]
<1> DEFINE p == Len(FlatTo(k - 1, seqs)) + j
           T == {m \in k .. n : ~ /\ p \in 1 .. Len(FlatTo(m, seqs))
                                  /\ FlatTo(m, seqs)[p] = seqs[k][j]}
<1>1. /\ k \in 1 .. Len(seqs) /\ k - 1 \in 0 .. Len(seqs) /\ n \in k .. n
      /\ seqs[k] \in Seq(S) /\ Len(seqs[k]) \in Nat
  OBVIOUS
<1>2. FlatTo(k - 1, seqs) \in Seq(S) /\ Len(FlatTo(k - 1, seqs)) \in Nat
  BY <1>1, FlatType
<1>5. \A m \in 1 .. Len(seqs) :
          /\ seqs[m] \in Seq(S) /\ Len(seqs[m]) \in Nat
          /\ FlatTo(m - 1, seqs) \in Seq(S) /\ Len(FlatTo(m - 1, seqs)) \in Nat
          /\ FlatTo(m, seqs) = FlatTo(m - 1, seqs) \o seqs[m]
  BY FlatNext
<1>3. p \in Nat /\ p >= 1
  BY <1>1, <1>2
<1>4. ASSUME T # {} PROVE FALSE
  <2>1. T \in SUBSET Nat
    OBVIOUS
  <2>2. PICK m \in T : \A i \in T : m <= i
    BY <1>4, <2>1, LeastNumber
  <2>3. /\ m \in 1 .. Len(seqs) /\ m - 1 \in 0 .. Len(seqs) /\ ~(m <= m - 1) /\ m \in k .. n
        /\ ~(p \in 1 .. Len(FlatTo(m, seqs)) /\ FlatTo(m, seqs)[p] = seqs[k][j])
    BY <2>2
  <2> DEFINE before == FlatTo(m - 1, seqs)
  <2>4. before \in Seq(S) /\ Len(before) \in Nat /\ seqs[m] \in Seq(S)
    BY <1>5, <2>3
  <2>5. FlatTo(m, seqs) = before \o seqs[m]
    BY <1>5, <2>3
  <2>6. m # k
    <3>1. CASE m = k
      <4>1. /\ p = Len(before) + j /\ FlatTo(m, seqs) = before \o seqs[k]
            /\ seqs[k] \in Seq(S)
        BY <2>4, <2>5, <3>1
      <4> HIDE DEF before, p
      <4>2. /\ Len(before \o seqs[k]) = Len(before) + Len(seqs[k])
            /\ (before \o seqs[k])[p] = seqs[k][j]
        BY <1>1, <2>4, <4>1
      <4>3. p \in 1 .. Len(FlatTo(m, seqs)) /\ FlatTo(m, seqs)[p] = seqs[k][j]
        BY <1>1, <1>3, <2>4, <4>1, <4>2
      <4> QED
        BY <2>3, <4>3
    <3> QED
      BY <3>1
  <2>7. m - 1 \in k .. n /\ m - 1 \notin T
    BY <2>2, <2>3, <2>6
  <2>8. p \in 1 .. Len(before) /\ before[p] = seqs[k][j]
    BY <2>7
  <2> HIDE DEF p, before
  <2>9. Len(before \o seqs[m]) = Len(before) + Len(seqs[m]) /\ (before \o seqs[m])[p] = before[p]
    BY <2>4, <2>8
  <2>10. Len(seqs[m]) \in Nat
    BY <2>4
  <2>11. p \in 1 .. Len(FlatTo(m, seqs)) /\ FlatTo(m, seqs)[p] = seqs[k][j]
    BY <2>4, <2>5, <2>8, <2>9, <2>10
  <2> QED
    BY <2>3, <2>11
<1> QED
  BY <1>1, <1>4

\* How long they are together.
LEMMA FlatLength ==
    ASSUME NEW S, NEW seqs \in Seq(Seq(S)), NEW w \in Nat,
           \A i \in 1 .. Len(seqs) : Len(seqs[i]) <= w, NEW k \in 0 .. Len(seqs)
    PROVE  Len(FlatTo(k, seqs)) <= w * k
<1>2. \A m \in 1 .. Len(seqs) :
          /\ Len(seqs[m]) \in Nat /\ Len(FlatTo(m - 1, seqs)) \in Nat
          /\ Len(FlatTo(m, seqs)) = Len(FlatTo(m - 1, seqs)) + Len(seqs[m])
  BY FlatNext
<1> DEFINE T == {m \in 0 .. Len(seqs) : ~(Len(FlatTo(m, seqs)) <= w * m)}
<1>1. ASSUME T # {} PROVE FALSE
  <2>1. T \in SUBSET Nat
    OBVIOUS
  <2>2. PICK m \in T : \A i \in T : m <= i
    BY <1>1, <2>1, LeastNumber
  <2>3. m # 0
    BY <2>2 DEF FlatTo
  <2>4. m \in 1 .. Len(seqs) /\ m - 1 \in 0 .. Len(seqs) /\ ~(m <= m - 1)
    BY <2>2, <2>3
  <2>5. Len(FlatTo(m - 1, seqs)) <= w * (m - 1) /\ ~(Len(FlatTo(m, seqs)) <= w * m)
    BY <2>2, <2>4
  <2> HIDE DEF T
  <2>7. /\ Len(FlatTo(m, seqs)) = Len(FlatTo(m - 1, seqs)) + Len(seqs[m])
        /\ Len(seqs[m]) \in Nat /\ Len(FlatTo(m - 1, seqs)) \in Nat
        /\ Len(seqs[m]) <= w
    BY <1>2, <2>4
  <2> DEFINE x == w * m
             y == w * (m - 1)
             a == Len(FlatTo(m - 1, seqs))
             b == Len(seqs[m])
             c == Len(FlatTo(m, seqs))
  <2>8. x = y + w /\ x \in Int /\ y \in Int
    BY <2>4
  <2>9. a <= y /\ ~(c <= x) /\ c = a + b /\ a \in Nat /\ b \in Nat /\ b <= w
    BY <2>5, <2>7
  <2> HIDE DEF x, y, a, b, c
  <2> QED
    BY <2>8, <2>9
<1> QED
  BY <1>1

=============================================================================
