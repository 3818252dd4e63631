-------------------------- MODULE ENetDeliveryProofs ---------------------------
(***************************************************************************)
(* Proofs about ENetDelivery, for every window size, any number of windows *)
(* and channels, and packets of any number of fragments: what is handed    *)
(* over is whole, in order, at most once and, for reliable packets,        *)
(* without a gap, although the network loses, repeats and reorders; and    *)
(* what waits is sorted, and counted in totalWaitingData.  By              *)
(* NoWrapAssumption the numbers do not come round within the packets that  *)
(* are sent; this holds for each theorem.                                  *)
(***************************************************************************)
EXTENDS ENetDelivery, SequenceTheorems, FiniteSetTheorems, WellFoundedInduction, TLAPS

--------------------------------------------------------------------------------
(* Numbers and lists, as in ENetReliableProofs. *)

\* Quotient and remainder are the only numbers with their two properties.
LEMMA Quotient ==
  ASSUME NEW n \in Nat, NEW d \in Nat \ {0}
  PROVE  /\ n \div d \in Nat /\ n % d \in 0 .. d - 1
         /\ n = (n \div d) * d + (n % d)
  <1>1. n \div d \in Nat /\ n % d \in 0 .. d - 1
    OBVIOUS
  <1>2. n = (n \div d) * d + (n % d)
    OBVIOUS
  <1> QED
    BY <1>1, <1>2

\* Induction on the numbers up to n, by the least number that is not in T.
LEMMA UpToInduction ==
  ASSUME NEW n \in Nat, NEW T, 0 \in T,
         \A k \in 0 .. n - 1 : k \in T => k + 1 \in T
  PROVE  n \in T
  <1> SUFFICES ASSUME n \notin T
               PROVE  FALSE
    OBVIOUS
  <1> DEFINE B == {k \in Nat : k <= n /\ k \notin T}
  <1>1. n \in B /\ B \subseteq Nat
    OBVIOUS
  <1>2. PICK m \in B : \A k \in B : ~(<<k, m>> \in OpToRel(<, Nat))
    BY <1>1, NatLessThanWellFounded, WFMin
  <1>3. m \in Nat /\ m <= n /\ m \notin T /\ m # 0
    OBVIOUS
  <1>4. m - 1 \in 0 .. n - 1
    BY <1>3
  <1>5. m - 1 \notin T
    BY <1>3, <1>4
  <1>6. m - 1 \in B
    BY <1>3, <1>4, <1>5
  <1>7. <<m - 1, m>> \in OpToRel(<, Nat)
    BY <1>3, <1>4 DEF OpToRel
  <1> QED
    BY <1>2, <1>6, <1>7

\* A set of numbers has a least and a bounded one a greatest member.
LEMMA LeastExists ==
  ASSUME NEW S, S \subseteq Nat, S # {}
  PROVE  \E m \in S : \A k \in S : m <= k
  <1>1. PICK m \in S : \A k \in S : ~(<<k, m>> \in OpToRel(<, Nat))
    BY NatLessThanWellFounded, WFMin
  <1>2. \A k \in S : m <= k
    <2>1. ASSUME NEW k \in S, k < m
          PROVE  FALSE
      <3>1. k \in Nat /\ m \in Nat
        OBVIOUS
      <3>2. <<k, m>> \in OpToRel(<, Nat)
        BY <2>1, <3>1 DEF OpToRel
      <3> QED
        BY <1>1, <3>2
    <2> QED
      BY <2>1
  <1> QED
    BY <1>2

LEMMA GreatestIsIn ==
  ASSUME NEW n \in Nat, NEW S, S \subseteq 0 .. n, S # {}
  PROVE  Max(S) \in S /\ \A x \in S : x <= Max(S)
  <1>1. PICK T : T = {n - x : x \in S}
    OBVIOUS
  <1>2. T # {} /\ T \subseteq Nat
    <2>1. \A x \in S : x \in 0 .. n /\ n - x \in Nat
      OBVIOUS
    <2> QED
      BY <1>1, <2>1
  <1>3. PICK m \in T : \A t \in T : m <= t
    BY <1>2, LeastExists
  <1>4. PICK y \in S : m = n - y
    BY <1>1
  <1>5. ASSUME NEW x \in S
        PROVE  x <= y
    <2>1. x \in 0 .. n /\ y \in 0 .. n
      OBVIOUS
    <2>2. n - x \in T
      BY <1>1
    <2>3. n - y <= n - x
      BY <1>3, <1>4, <2>2
    <2> QED
      BY <2>1, <2>3
  <1>6. \E z \in S : \A x \in S : z >= x
    <2>1. \A x \in S : y >= x
      BY <1>5
    <2> QED
      BY <2>1
  <1>7. Max(S) \in S /\ \A x \in S : Max(S) >= x
    BY <1>6 DEF Max
  <1> QED
    BY <1>7

LEMMA SameSize ==
  ASSUME NEW A, NEW B, IsFiniteSet(A), NEW f \in [A -> B],
         \A x, y \in A : f[x] = f[y] => x = y, \A z \in B : \E x \in A : f[x] = z
  PROVE  IsFiniteSet(B) /\ Cardinality(A) = Cardinality(B)
  <1>1. f \in Surjection(A, B)
    BY DEF Surjection
  <1>2. f \in Injection(A, B)
    BY DEF Injection, IsInjective
  <1>3. f \in Bijection(A, B)
    BY <1>1, <1>2 DEF Bijection
  <1>4. ExistsBijection(A, B)
    BY <1>3 DEF ExistsBijection
  <1> QED
    BY <1>4, FS_Bijection

\* How many of S come no later than i: the position in Pick(q, S) of q[i].
RankIn(i, S) == Cardinality({j \in S : j <= i})

LEMMA RankType ==
  ASSUME NEW S, S \subseteq Nat, IsFiniteSet(S), NEW i \in S
  PROVE  RankIn(i, S) \in 1 .. Cardinality(S)
  <1>1. PICK T \in SUBSET S : T = {j \in S : j <= i}
    OBVIOUS
  <1>2. IsFiniteSet(T) /\ Cardinality(T) <= Cardinality(S)
    BY <1>1, FS_Subset
  <1>3. Cardinality(T) \in Nat /\ Cardinality(S) \in Nat
    BY <1>2, FS_CardinalityType
  <1>4. i \in T
    BY <1>1
  <1>5. Cardinality(T) # 0
    BY <1>2, <1>4, FS_EmptySet
  <1> QED
    BY <1>1, <1>2, <1>3, <1>5 DEF RankIn

LEMMA RankGrows ==
  ASSUME NEW S, S \subseteq Nat, IsFiniteSet(S), NEW i \in S, NEW j \in S, i < j
  PROVE  RankIn(i, S) < RankIn(j, S)
  <1>1. PICK T \in SUBSET S : T = {h \in S : h <= i}
    OBVIOUS
  <1>2. PICK U \in SUBSET S : U = {h \in S : h <= j}
    OBVIOUS
  <1>3. i \in Nat /\ j \in Nat
    OBVIOUS
  <1>4. T \in SUBSET U /\ j \in U /\ j \notin T
    <2>1. \A h \in S : h \in Nat /\ (h <= i => h <= j)
      BY <1>3
    <2>2. T \in SUBSET U
      BY <1>1, <1>2, <2>1
    <2>3. j <= j /\ ~(j <= i)
      BY <1>3
    <2> QED
      BY <1>1, <1>2, <2>2, <2>3
  <1>5. IsFiniteSet(U) /\ IsFiniteSet(T)
    BY FS_Subset
  <1>6. Cardinality(T) <= Cardinality(U) /\ (Cardinality(T) = Cardinality(U) => T = U)
    BY <1>4, <1>5, FS_Subset
  <1>7. Cardinality(T) \in Nat /\ Cardinality(U) \in Nat
    BY <1>5, FS_CardinalityType
  <1> QED
    BY <1>1, <1>2, <1>4, <1>6, <1>7 DEF RankIn

\* The sequence q has the numbers of S, each once and in their order.
Enumerates(q, S) ==
  /\ q \in Seq(Nat) /\ \A i, j \in 1 .. Len(q) : i < j => q[i] < q[j]
  /\ \A i \in 1 .. Len(q) : q[i] \in S
  /\ \A n \in S : \E i \in 1 .. Len(q) : q[i] = n

\* What enumerates the numbers up to a bound is a prefix of what enumerates all.
LEMMA EnumeratesPrefix ==
  ASSUME NEW p, NEW S, Enumerates(p, S), NEW R \in Nat,
         NEW q, Enumerates(q, {n \in S : n <= R})
  PROVE  Len(q) <= Len(p) /\ q = SubSeq(p, 1, Len(q))
  <1>1. p \in Seq(Nat) /\ q \in Seq(Nat)
    BY DEF Enumerates
  <1>2. PICK k \in Nat : k = Len(p)
    BY <1>1
  <1>3. PICK l \in Nat : l = Len(q)
    BY <1>1
  <1>4. PICK Bad \in SUBSET (1 .. l) : Bad = {i \in 1 .. l : ~(i <= k /\ q[i] = p[i])}
    OBVIOUS
  <1>5. Bad = {}
    <2>1. SUFFICES ASSUME Bad # {}
                   PROVE  FALSE
      OBVIOUS
    <2>2. PICK i \in Bad : \A j \in Bad : ~(<<j, i>> \in OpToRel(<, Nat))
      <3>1. Bad \subseteq Nat
        BY <1>3
      <3> QED
        BY <2>1, <3>1, NatLessThanWellFounded, WFMin
    <2>3. i \in 1 .. l
      BY <1>4
    <2>4. ASSUME NEW j \in 1 .. l, j < i
          PROVE  j <= k /\ q[j] = p[j]
      <3>1. j \in Bad => <<j, i>> \in OpToRel(<, Nat)
        BY <2>3, <2>4 DEF OpToRel
      <3> QED
        BY <1>4, <2>2, <3>1
    <2>5. q[i] \in S /\ q[i] <= R
      BY <1>3, <2>3 DEF Enumerates
    <2>6. PICK m \in 1 .. k : p[m] = q[i]
      BY <1>2, <2>5 DEF Enumerates
    <2>7. ~(m < i)
      <3>1. SUFFICES ASSUME m < i
                     PROVE  FALSE
        OBVIOUS
      <3>2. m \in 1 .. l
        BY <2>3, <3>1
      <3>3. q[m] = p[m] /\ q[m] < q[i] /\ q[m] \in Nat
        BY <1>1, <1>3, <2>3, <2>4, <3>1, <3>2 DEF Enumerates
      <3> QED
        BY <2>6, <3>3
    <2>8. i <= m /\ i \in 1 .. k
      BY <2>3, <2>6, <2>7
    <2>9. p[i] \in Nat /\ q[i] \in Nat /\ p[m] \in Nat
      BY <1>1, <1>2, <1>3, <2>3, <2>6, <2>8
    <2>10. p[i] <= q[i]
      <3>1. i < m => p[i] < p[m]
        BY <1>2, <2>6, <2>8 DEF Enumerates
      <3>2. i = m \/ i < m
        BY <2>3, <2>6, <2>8
      <3> QED
        BY <2>6, <2>9, <3>1, <3>2
    <2>11. p[i] \in {n \in S : n <= R}
      <3>1. p[i] \in S /\ p[i] <= R
        BY <1>2, <2>5, <2>8, <2>9, <2>10 DEF Enumerates
      <3> QED
        BY <3>1
    <2>12. PICK j \in 1 .. l : q[j] = p[i]
      BY <1>3, <2>11 DEF Enumerates
    <2>13. ~(j < i)
      <3>1. SUFFICES ASSUME j < i
                     PROVE  FALSE
        OBVIOUS
      <3>2. j \in 1 .. k /\ q[j] = p[j]
        BY <2>4, <3>1
      <3>3. p[j] < p[i]
        BY <1>2, <2>8, <3>1, <3>2 DEF Enumerates
      <3> QED
        BY <2>9, <2>12, <3>2, <3>3
    <2>14. i < j => q[i] < q[j]
      BY <1>3, <2>3 DEF Enumerates
    <2>15. q[i] = p[i]
      BY <2>3, <2>9, <2>10, <2>12, <2>13, <2>14
    <2> QED
      BY <1>4, <2>8, <2>15
  <1>6. \A i \in 1 .. l : i <= k /\ q[i] = p[i]
    BY <1>4, <1>5
  <1>7. l <= k
    <2>1. l = 0 \/ l \in 1 .. l
      OBVIOUS
    <2> QED
      BY <1>6, <2>1
  <1>8. PICK r : r = SubSeq(p, 1, l)
    OBVIOUS
  <1>9. r \in Seq(Nat) /\ Len(r) = l /\ \A i \in 1 .. l : r[i] = p[i]
    BY <1>1, <1>2, <1>7, <1>8
  <1>10. q = r
    <2>1. Len(q) = Len(r) /\ \A i \in 1 .. Len(q) : q[i] = r[i]
      BY <1>3, <1>6, <1>9
    <2> QED
      BY <1>1, <1>9, <2>1, SeqEqual
  <1> QED
    BY <1>2, <1>3, <1>7, <1>8, <1>10

\* r has what is in q at the positions of S, in their order.
ListsAt(r, q, S) == \E f : Enumerates(f, S) /\ r = [k \in 1 .. Len(f) |-> q[f[k]]]

LEMMA PickLists ==
  ASSUME NEW q, NEW S, S \subseteq Nat, IsFiniteSet(S)
  PROVE  ListsAt(Pick(q, S), q, S)
  <1>1. PICK r : r = Pick(q, S)
    OBVIOUS
  <1>2. PICK n \in Nat : n = Cardinality(S)
    BY FS_CardinalityType
  <1>3. PICK g : g = [i \in S |-> RankIn(i, S)]
    OBVIOUS
  <1>4. g \in [S -> 1 .. n]
    BY <1>2, <1>3, RankType
  <1>5. \A i, j \in S : i < j => g[i] < g[j]
    BY <1>3, RankGrows
  <1>6. \A i, j \in S : g[i] = g[j] => i = j
    <2>1. TAKE i, j \in S
    <2>2. i \in Nat /\ j \in Nat /\ g[i] \in Nat /\ g[j] \in Nat
      BY <1>4
    <2> QED
      BY <1>5, <2>2
  <1>7. g \in Injection(S, 1 .. n)
    BY <1>4, <1>6 DEF Injection, IsInjective
  <1>8. IsFiniteSet(1 .. n) /\ Cardinality(1 .. n) = n
    <2>1. 1 \in Int /\ n \in Int
      BY <1>2
    <2>2. IsFiniteSet(1 .. n) /\ Cardinality(1 .. n) = IF 1 > n THEN 0 ELSE n - 1 + 1
      BY <2>1, FS_Interval
    <2> QED
      BY <1>2, <2>2
  <1>9. g \in Surjection(S, 1 .. n)
    BY <1>2, <1>7, <1>8, FS_Injection
  <1>10. \A k \in 1 .. n : \E i \in S : g[i] = k
    BY <1>9 DEF Surjection
  <1>11. PICK f : f = [k \in 1 .. n |-> CHOOSE i \in S : RankIn(i, S) = k]
    OBVIOUS
  <1>12. ASSUME NEW k \in 1 .. n
         PROVE  f[k] \in S /\ g[f[k]] = k
    <2>1. \E i \in S : RankIn(i, S) = k
      BY <1>3, <1>10
    <2>2. f[k] \in S /\ RankIn(f[k], S) = k
      BY <1>11, <2>1
    <2> QED
      BY <1>3, <2>2
  <1>13. f \in Seq(Nat) /\ Len(f) = n
    <2>1. \A k \in 1 .. n : f[k] \in Nat
      BY <1>12
    <2> QED
      BY <1>11, <2>1
  <1>14. r = [k \in 1 .. n |-> q[f[k]]]
    <2>1. r = [k \in 1 .. n |-> q[CHOOSE i \in S : RankIn(i, S) = k]]
      BY <1>1, <1>2 DEF Pick, RankIn
    <2> QED
      BY <1>11, <2>1
  <1>15. \A i, j \in 1 .. n : i < j => f[i] < f[j]
    <2>1. TAKE i, j \in 1 .. n
    <2>2. f[i] \in S /\ f[j] \in S /\ g[f[i]] = i /\ g[f[j]] = j
      BY <1>12
    <2>3. f[i] \in Nat /\ f[j] \in Nat /\ i \in Nat /\ j \in Nat
      BY <1>13, <2>2
    <2>4. f[j] < f[i] => j < i
      BY <1>5, <2>2
    <2> QED
      BY <2>2, <2>3, <2>4
  <1>16. \A p \in S : \E k \in 1 .. n : f[k] = p
    <2>1. TAKE p \in S
    <2>2. g[p] \in 1 .. n
      BY <1>4
    <2>3. f[g[p]] \in S /\ g[f[g[p]]] = g[p]
      BY <1>12, <2>2
    <2>4. f[g[p]] = p
      BY <1>6, <2>3
    <2> QED
      BY <2>2, <2>4
  <1>17. Enumerates(f, S)
    BY <1>12, <1>13, <1>15, <1>16 DEF Enumerates
  <1> QED
    BY <1>1, <1>13, <1>14, <1>17 DEF ListsAt

InsertedIs(r, q, p, e) ==
  /\ Len(r) = Len(q) + 1
  /\ \A i \in 1 .. Len(r) : /\ i <= p => r[i] = q[i]
                            /\ i = p + 1 => r[i] = e
                            /\ i > p + 1 => i - 1 \in 1 .. Len(q) /\ r[i] = q[i - 1]

LEMMA InsertAtIs ==
  ASSUME NEW T, NEW q \in Seq(T), NEW p \in 0 .. Len(q), NEW e \in T
  PROVE  InsertAt(q, p + 1, e) \in Seq(T) /\ InsertedIs(InsertAt(q, p + 1, e), q, p, e)
  <1>1. PICK n \in Nat : n = Len(q)
    OBVIOUS
  <1>2. p \in Nat /\ p <= n
    BY <1>1
  <1>3. PICK a : a = SubSeq(q, 1, p)
    OBVIOUS
  <1>4. PICK z : z = SubSeq(q, p + 1, n)
    OBVIOUS
  <1>5. a \in Seq(T) /\ Len(a) = p /\ \A i \in 1 .. p : a[i] = q[i]
    BY <1>1, <1>2, <1>3
  <1>6. z \in Seq(T) /\ Len(z) = n - p /\ \A i \in 1 .. n - p : z[i] = q[p + i]
    BY <1>1, <1>2, <1>4
  <1>7. PICK r : r = InsertAt(q, p + 1, e)
    OBVIOUS
  <1>8. (p + 1) - 1 = p
    BY <1>2
  <1>9. r = (a \o <<e>>) \o z
    BY <1>1, <1>3, <1>4, <1>7, <1>8 DEF InsertAt
  <1>10. PICK o : o = <<e>>
    OBVIOUS
  <1>11. o \in Seq(T) /\ Len(o) = 1 /\ o[1] = e
    BY <1>10
  <1>12. PICK x : x = a \o o
    OBVIOUS
  <1>13. x \in Seq(T) /\ Len(x) = p + 1
    <2>1. a \o o \in Seq(T) /\ Len(a \o o) = Len(a) + Len(o)
      BY <1>5, <1>11, ConcatProperties
    <2> QED
      BY <1>2, <1>5, <1>11, <1>12, <2>1
  <1>14. \A i \in 1 .. p + 1 : x[i] = IF i <= p THEN q[i] ELSE e
    <2>1. TAKE i \in 1 .. p + 1
    <2>2. x[i] = IF i <= Len(a) THEN a[i] ELSE o[i - Len(a)]
      <3>1. i \in 1 .. Len(a) + Len(o)
        BY <1>5, <1>11
      <3> QED
        BY <1>5, <1>11, <1>12, <3>1, ConcatProperties
    <2>3. i <= p => i \in 1 .. p
      BY <1>2
    <2>4. ~(i <= p) => i - p = 1
      BY <1>2
    <2> QED
      BY <1>5, <1>11, <2>2, <2>3, <2>4
  <1>15. r = x \o z
    BY <1>9, <1>10, <1>12
  <1>16. r \in Seq(T) /\ Len(r) = n + 1
    BY <1>1, <1>2, <1>6, <1>13, <1>15, ConcatProperties
  <1>17. ASSUME NEW i \in 1 .. n + 1
         PROVE  /\ i <= p => r[i] = q[i]
                /\ i = p + 1 => r[i] = e
                /\ i > p + 1 => i - 1 \in 1 .. n /\ r[i] = q[i - 1]
    <2>1. r[i] = IF i <= Len(x) THEN x[i] ELSE z[i - Len(x)]
      BY <1>2, <1>6, <1>13, <1>15, ConcatProperties
    <2>2. CASE i <= p + 1
      <3>1. i \in 1 .. p + 1 /\ r[i] = x[i]
        BY <1>2, <1>13, <2>1, <2>2
      <3> QED
        BY <1>2, <1>14, <2>2, <3>1
    <2>3. CASE ~(i <= p + 1)
      <3>1. PICK j \in 1 .. n - p : j = i - (p + 1)
        BY <1>2, <2>3
      <3>2. r[i] = z[j]
        BY <1>13, <2>1, <2>3, <3>1
      <3>3. p + j = i - 1
        BY <1>2, <3>1
      <3>4. z[j] = q[p + j]
        BY <1>6
      <3>5. i - 1 \in 1 .. n /\ i > p + 1 /\ ~(i <= p) /\ i # p + 1
        BY <1>2, <2>3
      <3> QED
        BY <3>2, <3>3, <3>4, <3>5
    <2> QED
      BY <2>2, <2>3
  <1>18. InsertedIs(r, q, p, e)
    BY <1>1, <1>16, <1>17 DEF InsertedIs
  <1> QED
    BY <1>7, <1>16, <1>18

\* The commands at the front of the list that follow each other.
ReadyIs(ch, k) ==
  /\ k \in 0 .. Len(ch.rel) /\ \A i \in 1 .. k : Follows(ch, i)
  /\ k < Len(ch.rel) => ~Follows(ch, k + 1)

LEMMA ReadyRunIs ==
  ASSUME NEW T, NEW ch, ch.rel \in Seq(T)
  PROVE  ReadyIs(ch, ReadyRun(ch))
  <1>1. PICK n \in Nat : n = Len(ch.rel)
    OBVIOUS
  <1>2. PICK S \in SUBSET (0 .. n) : S = {j \in 0 .. n : \A i \in 1 .. j : Follows(ch, i)}
    OBVIOUS
  <1>3. 0 \in S
    <2>1. 0 \in 0 .. n /\ 1 .. 0 = {}
      OBVIOUS
    <2> QED
      BY <1>2, <2>1
  <1>4. PICK k : k = Max(S)
    OBVIOUS
  <1>5. k \in S /\ \A x \in S : x <= k
    BY <1>3, <1>4, GreatestIsIn
  <1>6. k \in 0 .. n /\ \A i \in 1 .. k : Follows(ch, i)
    BY <1>2, <1>5
  <1>7. ASSUME k < n, Follows(ch, k + 1)
        PROVE  FALSE
    <2>1. k + 1 \in 0 .. n
      BY <1>6, <1>7
    <2>2. ASSUME NEW i \in 1 .. k + 1
          PROVE  Follows(ch, i)
      <3>1. i \in 1 .. k \/ i = k + 1
        BY <1>6
      <3> QED
        BY <1>6, <1>7, <3>1
    <2>3. k + 1 \in S
      BY <1>2, <2>1, <2>2
    <2>4. k + 1 <= k
      BY <1>5, <2>3
    <2> QED
      BY <1>6, <2>4
  <1>8. ReadyRun(ch) = k
    BY <1>1, <1>2, <1>4 DEF ReadyRun
  <1> QED
    BY <1>1, <1>6, <1>7, <1>8 DEF ReadyIs

--------------------------------------------------------------------------------
(* The numbers of the packets that were sent. *)

Reliables == {"reliable", "fragment"}
Unreliables == {"unreliable", "unreliableFragment"}

\* Numbers of reliable commands, and groups, stay below these.
Limit == (FreeWindows + 2) * WindowSize
GroupLimit == FreeUnsequenced * UnsequencedSize

Logged == [ch : Channels, kind : Kinds, size : Sizes]
Stamps == [seq : Nat, useq : Nat]

\* n tells, for each packet of L, the numbers of its first command; this is the
\* number of its last one.
LastOf(L, n, p) == n[p].seq + (IF L[p].kind \in Reliables THEN L[p].size - 1 ELSE 0)

Stamped(L, n, p) ==
  /\ L[p].kind \in {"fragment", "unreliableFragment"} <=> L[p].size > 1
  /\ L[p].kind \in Reliables => n[p].seq >= 1 /\ n[p].useq = 0
  /\ L[p].kind \in Unreliables => n[p].useq \in 1 .. MaxUnreliable
  /\ L[p].kind = "unsequenced" => n[p].seq = 0 /\ n[p].useq \in 1 .. GroupLimit
  /\ LastOf(L, n, p) < Limit

\* p was sent before q.
InTurn(L, n, p, q) ==
  /\ /\ L[p].ch = L[q].ch
     /\ L[p].kind # "unsequenced" /\ L[q].kind # "unsequenced"
     => /\ L[q].kind \in Reliables => LastOf(L, n, p) < n[q].seq
        /\ L[q].kind \in Unreliables =>
             /\ LastOf(L, n, p) <= n[q].seq
             /\ L[p].kind \in Unreliables /\ n[p].seq = n[q].seq => n[p].useq < n[q].useq
  /\ L[p].kind = "unsequenced" /\ L[q].kind = "unsequenced" => n[p].useq < n[q].useq

Known(L, n) ==
  /\ L \in Seq(Logged) /\ n \in Seq(Stamps) /\ Len(n) = Len(L)
  /\ \A p \in 1 .. Len(L) : Stamped(L, n, p)
  /\ \A p, q \in 1 .. Len(L) : p < q => InTurn(L, n, p, q)

\* The i-th command of packet p.
CommandOf(L, n, p, i) ==
  [kind |-> L[p].kind, ch |-> L[p].ch, pkt |-> p, frag |-> i,
   count |-> IF L[p].size > 1 THEN L[p].size ELSE 0,
   seq |-> IF L[p].kind = "fragment" THEN n[p].seq + i ELSE n[p].seq,
   useq |-> IF L[p].kind = "fragment" THEN n[p].seq ELSE n[p].useq]

OnWire(W, L, n) ==
  \A cmd \in W : \E p \in 1 .. Len(L) : \E i \in 0 .. L[p].size - 1 : cmd = CommandOf(L, n, p, i)

\* What the sender has numbered last.
LastSent(o, L, n) ==
  /\ o \in [rseq : [Channels -> Nat], useq : [Channels -> 0 .. MaxUnreliable], group : Nat]
  /\ Len(L) <= MaxPackets /\ o.group <= Len(L)
  /\ \A c \in Channels : o.rseq[c] = 0 \/ \E m \in Sizes : o.rseq[c] <= Len(L) * m
  /\ \A p \in 1 .. Len(L) :
       /\ L[p].kind # "unsequenced" => LastOf(L, n, p) <= o.rseq[L[p].ch]
       /\ L[p].kind \in Unreliables /\ n[p].seq = o.rseq[L[p].ch] => n[p].useq <= o.useq[L[p].ch]
       /\ L[p].kind = "unsequenced" => n[p].useq <= o.group

LEMMA Constants ==
  /\ WindowSize \in Nat \ {0} /\ FreeWindows \in Nat /\ FreeWindows >= 3
  /\ Windows = FreeWindows + FreeWindows /\ Windows \in Nat
  /\ UnsequencedSize \in Nat \ {0} /\ FreeUnsequenced \in Nat \ {0}
  /\ MaxUnreliable \in Nat \ {0} /\ MaxPackets \in Nat /\ Sizes \subseteq Nat \ {0}
  /\ Limit \in Nat \ {0} /\ GroupLimit \in Nat \ {0} /\ MaxPackets <= GroupLimit
  /\ Groups = GroupLimit + GroupLimit /\ Numbers \in Nat /\ Limit <= Numbers
  <1>1. /\ WindowSize \in Nat \ {0} /\ FreeWindows \in Nat /\ FreeWindows >= 3
        /\ Windows = FreeWindows + FreeWindows /\ Windows \in Nat
        /\ UnsequencedSize \in Nat \ {0} /\ FreeUnsequenced \in Nat \ {0}
        /\ UnsequencedWindows = FreeUnsequenced + FreeUnsequenced
    BY WindowAssumption
  <1>2. MaxUnreliable \in Nat \ {0} /\ MaxPackets \in Nat /\ Sizes \subseteq Nat \ {0}
    BY DeliveryAssumption
  <1>3. Limit \in Nat \ {0} /\ GroupLimit \in Nat \ {0}
    BY <1>1 DEF Limit, GroupLimit
  <1>4. MaxPackets <= GroupLimit
    BY NoWrapAssumption DEF GroupLimit
  <1>5. Groups = GroupLimit + GroupLimit
    <2>1. UnsequencedSize * (FreeUnsequenced + FreeUnsequenced)
          = FreeUnsequenced * UnsequencedSize + FreeUnsequenced * UnsequencedSize
      BY <1>1
    <2> QED
      BY <1>1, <2>1 DEF Groups, GroupLimit
  <1>6. Numbers \in Nat /\ Limit <= Numbers
    <2>1. FreeWindows + 2 <= Windows
      BY <1>1
    <2>2. (FreeWindows + 2) * WindowSize <= Windows * WindowSize
      BY <1>1, <2>1
    <2>3. Windows * WindowSize = WindowSize * Windows
      BY <1>1
    <2> QED
      BY <1>1, <2>2, <2>3 DEF Numbers, Limit
  <1> QED
    BY <1>1, <1>2, <1>3, <1>4, <1>5, <1>6

\* A packet more does not exhaust the numbers.
LEMMA RoomForMore ==
  ASSUME NEW l \in Nat, l < MaxPackets, NEW r \in Nat, NEW size \in Sizes,
         r = 0 \/ \E m \in Sizes : r <= l * m
  PROVE  /\ r < Limit /\ r + size < Limit
         /\ \E m \in Sizes : r + size <= (l + 1) * m
         /\ r = 0 \/ \E m \in Sizes : r <= (l + 1) * m
  <1>1. PICK m \in Sizes : m >= size /\ r <= l * m
    <2>1. CASE r = 0
      <3>1. size \in Nat /\ l * size \in Nat
        BY Constants
      <3> QED
        BY <2>1, <3>1
    <2>2. CASE \E m \in Sizes : r <= l * m
      <3>1. PICK m \in Sizes : r <= l * m
        BY <2>2
      <3>2. m \in Nat /\ size \in Nat /\ l * m \in Nat
        BY Constants
      <3>3. CASE m >= size
        BY <3>1, <3>3
      <3>4. CASE ~(m >= size)
        <4>1. l * m <= l * size
          BY <3>2, <3>4
        <4>2. l * size \in Nat
          BY <3>2
        <4> QED
          BY <3>1, <3>2, <4>1, <4>2
      <3> QED
        BY <3>3, <3>4
    <2> QED
      BY <2>1, <2>2
  <1>2. m \in Nat /\ size \in Nat /\ l * m \in Nat /\ (l + 1) * m = l * m + m
    BY Constants
  <1>3. r + size <= (l + 1) * m
    BY <1>1, <1>2
  <1>4. (l + 1) * m <= MaxPackets * m
    <2>1. l + 1 <= MaxPackets /\ l + 1 \in Nat /\ MaxPackets \in Nat
      BY Constants
    <2> QED
      BY <1>2, <2>1
  <1>5. MaxPackets * m < Limit
    BY NoWrapAssumption DEF Limit
  <1>6. MaxPackets * m \in Nat /\ Limit \in Nat /\ (l + 1) * m \in Nat
    BY <1>2, Constants
  <1>7. r + size < Limit /\ r < Limit
    BY <1>2, <1>3, <1>4, <1>5, <1>6
  <1>8. r <= (l + 1) * m
    BY <1>2, <1>3
  <1> QED
    BY <1>3, <1>7, <1>8

--------------------------------------------------------------------------------
(* Sending. *)

Grown(L, M) == Len(L) <= Len(M) /\ \A p \in 1 .. Len(L) : M[p] = L[p]

LEMMA AppendIs ==
  ASSUME NEW T, NEW q \in Seq(T), NEW e \in T
  PROVE  /\ Append(q, e) \in Seq(T) /\ Len(Append(q, e)) = Len(q) + 1
         /\ Append(q, e)[Len(q) + 1] = e /\ Grown(q, Append(q, e))
  BY DEF Grown

\* Which command carries a packet.
LEMMA CommandForIs ==
  ASSUME NEW c \in Channels, NEW flag, NEW size \in Sizes, out.useq[c] \in Nat,
         NEW kind, kind = CommandFor(c, flag, size)
  PROVE  /\ kind \in Kinds /\ (kind \in {"fragment", "unreliableFragment"} <=> size > 1)
         /\ kind \in Unreliables => out.useq[c] < MaxUnreliable
  <1>1. size \in Nat \ {0} /\ MaxUnreliable \in Nat
    BY Constants
  <1>2. CASE out.useq[c] < MaxUnreliable
    BY <1>1, <1>2 DEF CommandFor, Kinds, Unreliables
  <1>3. CASE ~(out.useq[c] < MaxUnreliable)
    <2>1. out.useq[c] >= MaxUnreliable
      BY <1>1, <1>3
    <2>2. kind \in {"fragment", "unsequenced", "reliable"} /\ (kind = "fragment" <=> size > 1)
      BY <1>3, <2>1 DEF CommandFor
    <2> QED
      BY <2>2 DEF Kinds, Unreliables
  <1> QED
    BY <1>2, <1>3

\* The numbers that enet_peer_setup_outgoing_command() gives to a packet.
StampFor(o, c, kind) ==
  [seq |-> IF kind \in Reliables THEN o.rseq[c] + 1 ELSE IF kind = "unsequenced" THEN 0 ELSE o.rseq[c],
   useq |-> IF kind \in Reliables THEN 0 ELSE IF kind = "unsequenced" THEN o.group + 1 ELSE o.useq[c] + 1]

Sender(L, n, W, o) == Known(L, n) /\ OnWire(W, L, n) /\ LastSent(o, L, n)

NumberedAs(o, q, c, kind, size) ==
  /\ q.rseq = [o.rseq EXCEPT ![c] = IF kind \in Reliables THEN @ + size ELSE @]
  /\ q.useq = [o.useq EXCEPT ![c] = IF kind \in Reliables THEN 0
                                   ELSE IF kind = "unsequenced" THEN @ ELSE @ + 1]
  /\ q.group = IF kind = "unsequenced" THEN o.group + 1 ELSE o.group
  /\ q \in [rseq : [Channels -> Nat], useq : [Channels -> 0 .. MaxUnreliable], group : Nat]

LEMMA NumberedIs ==
  ASSUME NEW L, NEW n, LastSent(out, L, n), L \in Seq(Logged), Len(L) < MaxPackets,
         NEW c \in Channels, NEW kind \in Kinds, NEW size \in Sizes,
         kind \in Unreliables => out.useq[c] < MaxUnreliable
  PROVE  NumberedAs(out, Numbered(c, kind, size), c, kind, size)
  <1>1. /\ out \in [rseq : [Channels -> Nat], useq : [Channels -> 0 .. MaxUnreliable], group : Nat]
        /\ out.group <= Len(L) /\ Len(L) \in Nat
    BY DEF LastSent
  <1>2. size \in Nat
    BY Constants
  <1>3. PICK q : q = Numbered(c, kind, size)
    OBVIOUS
  <1>4. PICK r : r = out.rseq /\ r \in [Channels -> Nat]
    BY <1>1
  <1>5. PICK u : u = out.useq /\ u \in [Channels -> 0 .. MaxUnreliable]
    BY <1>1
  <1>6. out = [rseq |-> r, useq |-> u, group |-> out.group] /\ out.group \in Nat
    BY <1>1, <1>4, <1>5
  <1>7. CASE kind \in Reliables
    <2>1. q = [rseq |-> [r EXCEPT ![c] = @ + size], useq |-> [u EXCEPT ![c] = 0], group |-> out.group]
      <3>1. q = [out EXCEPT !.rseq[c] = @ + size, !.useq[c] = 0]
        BY <1>3, <1>7 DEF Numbered, Reliables
      <3>2. PICK s : s = [out EXCEPT !.rseq[c] = @ + size]
        OBVIOUS
      <3>3. s = [rseq |-> [r EXCEPT ![c] = @ + size], useq |-> u, group |-> out.group]
        BY <1>6, <3>2
      <3>4. q = [s EXCEPT !.useq[c] = 0]
        BY <3>1, <3>2
      <3> QED
        BY <3>3, <3>4
    <2>2. kind # "unsequenced" /\ 0 \in 0 .. MaxUnreliable
      BY <1>7, Constants DEF Reliables
    <2>3. [r EXCEPT ![c] = @ + size] \in [Channels -> Nat]
      BY <1>2, <1>4
    <2>4. [u EXCEPT ![c] = 0] \in [Channels -> 0 .. MaxUnreliable]
      BY <1>5, <2>2
    <2>5. q \in [rseq : [Channels -> Nat], useq : [Channels -> 0 .. MaxUnreliable], group : Nat]
      BY <1>6, <2>1, <2>3, <2>4
    <2> QED
      BY <1>3, <1>4, <1>5, <1>7, <2>1, <2>2, <2>5 DEF NumberedAs
  <1>8. CASE kind = "unsequenced"
    <2>1. q = [rseq |-> r, useq |-> u, group |-> (out.group + 1) % Groups]
      BY <1>3, <1>6, <1>8 DEF Numbered
    <2>2. PICK g \in Nat : g = Groups
      BY Constants
    <2>3. PICK x \in Nat : x = out.group + 1
      BY <1>6
    <2>4. x < g
      BY <1>1, <1>6, <2>2, <2>3, Constants
    <2>5. x % g = x
      BY <2>4
    <2>6. q = [rseq |-> r, useq |-> u, group |-> x]
      BY <2>1, <2>2, <2>3, <2>5
    <2>7. kind \notin Reliables
      BY <1>8 DEF Reliables
    <2>8. r = [r EXCEPT ![c] = @] /\ u = [u EXCEPT ![c] = @]
      BY <1>4, <1>5
    <2> QED
      BY <1>3, <1>4, <1>5, <1>8, <2>3, <2>6, <2>7, <2>8 DEF NumberedAs
  <1>9. CASE kind \in Unreliables
    <2>1. q = [rseq |-> r, useq |-> [u EXCEPT ![c] = (@ + 1) % (MaxUnreliable + 1)], group |-> out.group]
      BY <1>3, <1>6, <1>9 DEF Numbered, Unreliables
    <2>2. PICK x \in Nat : x = u[c] + 1
      BY <1>5
    <2>3. x \in 0 .. MaxUnreliable /\ x % (MaxUnreliable + 1) = x
      <3>1. PICK m \in Nat : m = MaxUnreliable
        BY Constants
      <3>2. x \in 0 .. m
        BY <1>5, <1>9, <2>2, <3>1
      <3>3. x % (m + 1) = x
        BY <3>2
      <3> QED
        BY <3>1, <3>2, <3>3
    <2>4. q = [rseq |-> r, useq |-> [u EXCEPT ![c] = @ + 1], group |-> out.group]
      BY <2>1, <2>2, <2>3
    <2>5. [u EXCEPT ![c] = @ + 1] \in [Channels -> 0 .. MaxUnreliable]
      BY <1>5, <2>2, <2>3
    <2>6. kind \notin Reliables /\ kind # "unsequenced"
      BY <1>9 DEF Reliables, Unreliables
    <2>7. r = [r EXCEPT ![c] = @]
      BY <1>4
    <2>8. q \in [rseq : [Channels -> Nat], useq : [Channels -> 0 .. MaxUnreliable], group : Nat]
      BY <1>4, <1>6, <2>4, <2>5
    <2> QED
      BY <1>3, <1>4, <1>5, <2>4, <2>6, <2>7, <2>8 DEF NumberedAs
  <1> QED
    BY <1>7, <1>8, <1>9 DEF Kinds, Reliables, Unreliables

LEMMA SendKeeps ==
  ASSUME NEW n, Sender(log, n, wire, out), NEW c \in Channels, NEW flag, NEW size \in Sizes,
         Send(c, flag, size)
  PROVE  \E m : /\ Sender(log', m, wire', out') /\ Grown(log, log') /\ Grown(n, m)
                /\ log' \in Seq(Logged) /\ m \in Seq(Stamps)
                /\ \A p \in 1 .. Len(log') : p > Len(log) /\ log'[p].kind \in Reliables
                                             => m[p].seq > out.rseq[log'[p].ch]
  <1>1. PICK l \in Nat : l = Len(log) /\ l = Len(n) /\ l < MaxPackets
    BY DEF Sender, Known, Send
  <1>2. log \in Seq(Logged) /\ n \in Seq(Stamps)
    BY DEF Sender, Known
  <1>3. PICK r \in [Channels -> Nat] : r = out.rseq
    BY DEF Sender, LastSent
  <1>4. PICK u \in [Channels -> 0 .. MaxUnreliable] : u = out.useq
    BY DEF Sender, LastSent
  <1>5. PICK g \in Nat : g = out.group /\ g <= l
    BY <1>1 DEF Sender, LastSent
  <1>6. PICK kind : kind = CommandFor(c, flag, size)
    OBVIOUS
  <1>7. out.useq[c] \in Nat
    BY <1>4, Constants
  <1>8. /\ kind \in Kinds /\ (kind \in {"fragment", "unreliableFragment"} <=> size > 1)
        /\ kind \in Unreliables => u[c] < MaxUnreliable
    BY <1>4, <1>6, <1>7, CommandForIs
  <1>9. PICK e \in Logged : e = [ch |-> c, kind |-> kind, size |-> size]
    BY <1>8 DEF Logged
  <1>10. PICK s : s = StampFor(out, c, kind)
    OBVIOUS
  <1>11. s = [seq |-> IF kind \in Reliables THEN r[c] + 1 ELSE IF kind = "unsequenced" THEN 0 ELSE r[c],
              useq |-> IF kind \in Reliables THEN 0 ELSE IF kind = "unsequenced" THEN g + 1 ELSE u[c] + 1]
    BY <1>3, <1>4, <1>5, <1>10 DEF StampFor
  <1>12. s \in Stamps
    <2>1. r[c] \in Nat /\ u[c] \in Nat /\ r[c] + 1 \in Nat /\ u[c] + 1 \in Nat /\ g + 1 \in Nat
      BY <1>3, <1>4, <1>5
    <2> QED
      BY <1>11, <2>1 DEF Stamps
  <1>13. PICK M : M = Append(log, e) /\ M = log'
    BY <1>6, <1>9 DEF Send
  <1>14. PICK m : m = Append(n, s)
    OBVIOUS
  <1>15. M \in Seq(Logged) /\ Len(M) = l + 1 /\ M[l + 1] = e /\ Grown(log, M)
    <2>1. /\ Append(log, e) \in Seq(Logged) /\ Len(Append(log, e)) = Len(log) + 1
          /\ Append(log, e)[Len(log) + 1] = e /\ Grown(log, Append(log, e))
      BY <1>2, AppendIs
    <2> QED
      BY <1>1, <1>13, <2>1
  <1>16. m \in Seq(Stamps) /\ Len(m) = l + 1 /\ m[l + 1] = s /\ Grown(n, m)
    BY <1>1, <1>2, <1>12, <1>14, AppendIs
  <1>17. \A p \in 1 .. l : M[p] = log[p] /\ m[p] = n[p]
    BY <1>1, <1>15, <1>16 DEF Grown
  <1>18. PICK q : q = Numbered(c, kind, size) /\ q = out'
    BY <1>6 DEF Send
  <1>19. NumberedAs(out, q, c, kind, size)
    BY <1>1, <1>2, <1>4, <1>8, <1>18, NumberedIs DEF Sender
  <1>20. size \in Nat \ {0} /\ r[c] \in Nat /\ u[c] \in 0 .. MaxUnreliable
    BY <1>3, <1>4, Constants
  <1>21. /\ r[c] < Limit /\ r[c] + size < Limit
         /\ \E x \in Sizes : r[c] + size <= (l + 1) * x
    <2>1. r[c] = 0 \/ \E x \in Sizes : r[c] <= l * x
      BY <1>1, <1>3 DEF Sender, LastSent
    <2> QED
      BY <1>1, <1>20, <2>1, RoomForMore
  <1>22. LastOf(M, m, l + 1) = IF kind \in Reliables THEN r[c] + size
                               ELSE IF kind = "unsequenced" THEN 0 ELSE r[c]
    <2>1. M[l + 1].kind = kind /\ M[l + 1].size = size /\ m[l + 1].seq = s.seq
      BY <1>9, <1>15, <1>16
    <2>2. r[c] + 1 + (size - 1) = r[c] + size
      BY <1>20
    <2> QED
      BY <1>11, <1>20, <2>1, <2>2 DEF LastOf
  <1>23. Stamped(M, m, l + 1)
    <2>1. /\ M[l + 1].kind = kind /\ M[l + 1].size = size
          /\ m[l + 1].seq = s.seq /\ m[l + 1].useq = s.useq
      BY <1>9, <1>15, <1>16
    <2>2. LastOf(M, m, l + 1) < Limit
      BY <1>20, <1>21, <1>22, Constants
    <2>3. kind \in Reliables => s.seq >= 1 /\ s.useq = 0
      BY <1>11, <1>20
    <2>4. kind \in Unreliables => s.useq \in 1 .. MaxUnreliable
      BY <1>8, <1>11, <1>20, Constants DEF Reliables, Unreliables
    <2>5. kind = "unsequenced" => s.seq = 0 /\ s.useq \in 1 .. GroupLimit
      BY <1>1, <1>5, <1>11, Constants DEF Reliables
    <2> QED
      BY <1>8, <2>1, <2>2, <2>3, <2>4, <2>5 DEF Stamped
  <1>24. ASSUME NEW p \in 1 .. l
         PROVE  /\ log[p].kind # "unsequenced" => LastOf(log, n, p) <= r[log[p].ch]
                /\ log[p].kind \in Unreliables /\ n[p].seq = r[log[p].ch] => n[p].useq <= u[log[p].ch]
                /\ log[p].kind = "unsequenced" => n[p].useq <= g
                /\ log[p] \in Logged /\ n[p] \in Stamps
    <2>1. log[p] \in Logged /\ n[p] \in Stamps
      BY <1>1, <1>2, ElementOfSeq
    <2> QED
      BY <1>1, <1>3, <1>4, <1>5, <2>1 DEF Sender, LastSent
  <1>25. ASSUME NEW p \in 1 .. l
         PROVE  InTurn(M, m, p, l + 1)
    <2>1. M[p] = log[p] /\ m[p] = n[p] /\ LastOf(M, m, p) = LastOf(log, n, p)
      BY <1>17 DEF LastOf
    <2>2. /\ M[l + 1].kind = kind /\ M[l + 1].ch = c /\ m[l + 1].seq = s.seq /\ m[l + 1].useq = s.useq
      BY <1>9, <1>15, <1>16
    <2>3. LastOf(log, n, p) \in Int /\ n[p].seq \in Nat /\ n[p].useq \in Nat
      <3>1. log[p].size \in Nat /\ n[p].seq \in Nat /\ n[p].useq \in Nat
        BY <1>24, Constants DEF Logged, Stamps
      <3> QED
        BY <3>1 DEF LastOf
    <2>4. ASSUME log[p].ch = c, log[p].kind # "unsequenced", kind \in Reliables
          PROVE  LastOf(log, n, p) < s.seq
      BY <1>11, <1>20, <1>24, <2>3, <2>4
    <2>5. ASSUME log[p].ch = c, log[p].kind # "unsequenced", kind \in Unreliables
          PROVE  /\ LastOf(log, n, p) <= s.seq
                 /\ log[p].kind \in Unreliables /\ n[p].seq = s.seq => n[p].useq < s.useq
      <3>1. s.seq = r[c] /\ s.useq = u[c] + 1
        BY <1>11, <2>5 DEF Reliables, Unreliables
      <3> QED
        BY <1>20, <1>24, <2>3, <2>5, <3>1
    <2>6. ASSUME log[p].kind = "unsequenced", kind = "unsequenced"
          PROVE  n[p].useq < s.useq
      BY <1>5, <1>11, <1>24, <2>3, <2>6 DEF Reliables
    <2> QED
      BY <2>1, <2>2, <2>4, <2>5, <2>6 DEF InTurn
  <1>26. Known(M, m)
    <2>1. ASSUME NEW p \in 1 .. l
          PROVE  Stamped(M, m, p)
      BY <1>1, <1>17 DEF Sender, Known, Stamped, LastOf
    <2>2. ASSUME NEW p \in 1 .. l, NEW z \in 1 .. l, p < z
          PROVE  InTurn(M, m, p, z)
      <3>1. InTurn(log, n, p, z)
        BY <1>1, <2>2 DEF Sender, Known
      <3> QED
        BY <1>17, <3>1 DEF InTurn, LastOf
    <2>3. \A p \in 1 .. l + 1 : p \in 1 .. l \/ p = l + 1
      BY <1>1
    <2>4. \A p \in 1 .. l + 1 : Stamped(M, m, p)
      BY <1>23, <2>1, <2>3
    <2>5. ASSUME NEW p \in 1 .. l + 1, NEW z \in 1 .. l + 1, p < z
          PROVE  InTurn(M, m, p, z)
      <3>1. p \in 1 .. l /\ (z \in 1 .. l \/ z = l + 1)
        BY <1>1, <2>5
      <3> QED
        BY <1>25, <2>2, <2>5, <3>1
    <2> QED
      BY <1>15, <1>16, <2>4, <2>5 DEF Known
  <1>27. OnWire(wire', M, m)
    <2>1. wire' = wire \cup Commands(c, kind, size, l + 1)
      BY <1>1, <1>6 DEF Send
    <2>2. ASSUME NEW cmd \in wire
          PROVE  \E p \in 1 .. l + 1 : \E i \in 0 .. M[p].size - 1 : cmd = CommandOf(M, m, p, i)
      <3>1. PICK p \in 1 .. l : \E i \in 0 .. log[p].size - 1 : cmd = CommandOf(log, n, p, i)
        BY <1>1 DEF Sender, OnWire
      <3>2. M[p] = log[p] /\ \A i : CommandOf(M, m, p, i) = CommandOf(log, n, p, i)
        BY <1>17 DEF CommandOf
      <3>3. p \in 1 .. l + 1
        BY <1>1
      <3> QED
        BY <3>1, <3>2, <3>3
    <2>3. ASSUME NEW cmd \in Commands(c, kind, size, l + 1)
          PROVE  \E i \in 0 .. size - 1 : cmd = CommandOf(M, m, l + 1, i)
      <3>1. q.rseq[c] = (IF kind \in Reliables THEN r[c] + size ELSE r[c])
        BY <1>3, <1>19 DEF NumberedAs
      <3>2. ~(kind \in Reliables) /\ kind # "unsequenced" => q.useq[c] = u[c] + 1
        BY <1>4, <1>19 DEF NumberedAs
      <3>3. kind = "unsequenced" => q.group = g + 1
        BY <1>5, <1>19 DEF NumberedAs
      <3>4. PICK i \in 0 .. size - 1 :
              cmd = [kind |-> kind, ch |-> c, pkt |-> l + 1,
                     frag |-> i, count |-> IF size > 1 THEN size ELSE 0,
                     seq |-> CASE kind = "fragment"    -> out.rseq[c] + 1 + i
                               [] kind = "unsequenced" -> 0
                               [] OTHER                -> q.rseq[c],
                     useq |-> CASE kind = "fragment"    -> out.rseq[c] + 1
                                [] kind = "reliable"    -> 0
                                [] kind = "unsequenced" -> q.group
                                [] OTHER                -> q.useq[c]]
        BY <1>18 DEF Commands
      <3>5. CommandOf(M, m, l + 1, i) =
              [kind |-> kind, ch |-> c, pkt |-> l + 1, frag |-> i, count |-> IF size > 1 THEN size ELSE 0,
               seq |-> IF kind = "fragment" THEN s.seq + i ELSE s.seq,
               useq |-> IF kind = "fragment" THEN s.seq ELSE s.useq]
        <4>1. /\ M[l + 1].kind = kind /\ M[l + 1].ch = c /\ M[l + 1].size = size
          BY <1>9, <1>15
        <4> QED
          BY <1>16, <4>1 DEF CommandOf
      <3>6. CASE kind = "fragment"
        <4>1. s.seq = r[c] + 1 /\ out.rseq[c] = r[c]
          BY <1>3, <1>11, <3>6 DEF Reliables
        <4> QED
          BY <3>4, <3>5, <3>6, <4>1
      <3>7. CASE kind = "reliable"
        <4>1. s.seq = r[c] + 1 /\ s.useq = 0
          BY <1>11, <3>7 DEF Reliables
        <4>2. size = 1
          BY <1>8, <1>20, <3>7
        <4>3. q.rseq[c] = r[c] + 1
          BY <3>1, <3>7, <4>2 DEF Reliables
        <4> QED
          BY <3>4, <3>5, <3>7, <4>1, <4>3
      <3>8. CASE kind = "unsequenced"
        <4>1. s.seq = 0 /\ s.useq = g + 1
          BY <1>11, <3>8 DEF Reliables
        <4> QED
          BY <3>3, <3>4, <3>5, <3>8, <4>1
      <3>9. CASE kind \in Unreliables
        <4>1. s.seq = r[c] /\ s.useq = u[c] + 1 /\ q.rseq[c] = r[c] /\ q.useq[c] = u[c] + 1
          BY <1>11, <3>1, <3>2, <3>9 DEF Reliables, Unreliables
        <4>2. kind \notin {"fragment", "reliable", "unsequenced"}
          BY <3>9 DEF Unreliables
        <4> QED
          BY <3>4, <3>5, <4>1, <4>2
      <3> QED
        BY <1>8, <3>6, <3>7, <3>8, <3>9 DEF Kinds, Unreliables
    <2>4. l + 1 \in 1 .. l + 1 /\ M[l + 1].size = size
      BY <1>1, <1>9, <1>15
    <2>5. \A cmd \in Commands(c, kind, size, l + 1) :
            \E p \in 1 .. l + 1 : \E i \in 0 .. M[p].size - 1 : cmd = CommandOf(M, m, p, i)
      BY <2>3, <2>4
    <2> QED
      BY <1>15, <2>1, <2>2, <2>5 DEF OnWire
  <1>28. LastSent(q, M, m)
    <2>1. q \in [rseq : [Channels -> Nat], useq : [Channels -> 0 .. MaxUnreliable], group : Nat]
      BY <1>19 DEF NumberedAs
    <2>2. Len(M) <= MaxPackets /\ q.group <= Len(M)
      BY <1>1, <1>5, <1>15, <1>19, Constants DEF NumberedAs
    <2>3. /\ q.rseq[c] = (IF kind \in Reliables THEN r[c] + size ELSE r[c])
          /\ q.useq[c] = (IF kind \in Reliables THEN 0 ELSE IF kind = "unsequenced" THEN u[c] ELSE u[c] + 1)
          /\ q.group = (IF kind = "unsequenced" THEN g + 1 ELSE g)
          /\ \A d \in Channels \ {c} : q.rseq[d] = r[d] /\ q.useq[d] = u[d]
      BY <1>3, <1>4, <1>5, <1>19 DEF NumberedAs
    <2>4. ASSUME NEW d \in Channels
          PROVE  q.rseq[d] = 0 \/ \E x \in Sizes : q.rseq[d] <= (l + 1) * x
      <3>1. r[d] \in Nat /\ (r[d] = 0 \/ \E x \in Sizes : r[d] <= l * x)
        BY <1>1, <1>3 DEF Sender, LastSent
      <3>2. r[d] = 0 \/ \E x \in Sizes : r[d] <= (l + 1) * x
        BY <1>1, <3>1, RoomForMore
      <3>3. CASE d = c /\ kind \in Reliables
        BY <1>21, <2>3, <3>3
      <3>4. CASE ~(d = c /\ kind \in Reliables)
        <4>1. q.rseq[d] = r[d]
          BY <2>3, <3>4
        <4> QED
          BY <3>2, <4>1
      <3> QED
        BY <3>3, <3>4
    <2>5. ASSUME NEW p \in 1 .. l + 1
          PROVE  /\ M[p].kind # "unsequenced" => LastOf(M, m, p) <= q.rseq[M[p].ch]
                 /\ M[p].kind \in Unreliables /\ m[p].seq = q.rseq[M[p].ch] => m[p].useq <= q.useq[M[p].ch]
                 /\ M[p].kind = "unsequenced" => m[p].useq <= q.group
      <3>1. CASE p = l + 1
        <4>1. /\ M[p].kind = kind /\ M[p].ch = c /\ m[p].seq = s.seq /\ m[p].useq = s.useq
          BY <1>9, <1>15, <1>16, <3>1
        <4>2. kind # "unsequenced" => LastOf(M, m, p) <= q.rseq[c]
          BY <1>20, <1>22, <2>3, <3>1
        <4>3. kind \in Unreliables => s.useq <= q.useq[c]
          BY <1>11, <1>20, <2>3 DEF Reliables, Unreliables
        <4>4. kind = "unsequenced" => s.useq <= q.group
          BY <1>5, <1>11, <2>3 DEF Reliables
        <4> QED
          BY <4>1, <4>2, <4>3, <4>4
      <3>2. CASE p \in 1 .. l
        <4>1. M[p] = log[p] /\ m[p] = n[p] /\ LastOf(M, m, p) = LastOf(log, n, p)
          BY <1>17, <3>2 DEF LastOf
        <4>2. PICK d \in Channels : d = log[p].ch
          BY <1>24, <3>2 DEF Logged
        <4>3. log[p].size \in Nat \ {0} /\ n[p].seq \in Nat /\ n[p].useq \in Nat
          BY <1>24, <3>2, Constants DEF Logged, Stamps
        <4>4. LastOf(log, n, p) \in Nat /\ n[p].seq <= LastOf(log, n, p)
          BY <4>3 DEF LastOf
        <4>5. r[d] \in Nat /\ u[d] \in Nat /\ r[d] <= q.rseq[d]
          BY <1>3, <1>4, <1>20, <2>3, Constants
        <4>6. log[p].kind # "unsequenced" => LastOf(log, n, p) <= q.rseq[d]
          <5>1. q.rseq[d] \in Nat
            BY <2>1
          <5> QED
            BY <1>24, <3>2, <4>2, <4>4, <4>5, <5>1
        <4>7. ASSUME log[p].kind \in Unreliables, n[p].seq = q.rseq[d]
              PROVE  n[p].useq <= q.useq[d]
          <5>1. log[p].kind # "unsequenced"
            BY <4>7 DEF Unreliables
          <5>2. LastOf(log, n, p) <= r[d]
            BY <1>24, <3>2, <4>2, <5>1
          <5>3. q.rseq[d] = r[d] /\ n[p].seq = r[d]
            BY <2>1, <4>3, <4>4, <4>5, <4>7, <5>2
          <5>4. n[p].useq <= u[d]
            BY <1>24, <3>2, <4>2, <4>7, <5>3
          <5>5. ~(d = c /\ kind \in Reliables)
            BY <1>20, <2>3, <5>3
          <5>6. u[d] <= q.useq[d] /\ q.useq[d] \in Nat
            <6>1. CASE d = c
              BY <1>20, <2>3, <4>5, <5>5, <6>1
            <6>2. CASE d # c
              BY <2>3, <4>5, <6>2
            <6> QED
              BY <6>1, <6>2
          <5> QED
            BY <4>3, <4>5, <5>4, <5>6
        <4>8. log[p].kind = "unsequenced" => n[p].useq <= q.group
          BY <1>5, <1>24, <2>3, <3>2, <4>3
        <4> QED
          BY <4>1, <4>2, <4>6, <4>7, <4>8
      <3> QED
        BY <1>1, <3>1, <3>2
    <2> QED
      BY <1>15, <2>1, <2>2, <2>4, <2>5 DEF LastSent
  <1>29. ASSUME NEW p \in 1 .. l + 1, p > l, M[p].kind \in Reliables
         PROVE  m[p].seq > r[M[p].ch]
    <2>1. p = l + 1 /\ M[p].kind = kind /\ M[p].ch = c /\ m[p].seq = s.seq
      BY <1>1, <1>9, <1>15, <1>16, <1>29
    <2> QED
      BY <1>11, <1>20, <1>29, <2>1
  <1>30. Sender(M, m, wire', q)
    BY <1>26, <1>27, <1>28 DEF Sender
  <1> QED
    BY <1>1, <1>3, <1>13, <1>15, <1>16, <1>18, <1>29, <1>30

--------------------------------------------------------------------------------
(* Windows, and what the receiver keeps of a packet. *)

LEMMA QuotientGrows ==
  ASSUME NEW a \in Nat, NEW b \in Nat, a <= b, NEW d \in Nat \ {0}
  PROVE  a \div d <= b \div d
  <1>1. PICK x \in Nat : x = a \div d
    BY Quotient
  <1>2. PICK y \in Nat : y = b \div d
    BY Quotient
  <1>3. PICK s \in 0 .. d - 1 : a = x * d + s
    BY <1>1, Quotient
  <1>4. PICK t \in 0 .. d - 1 : b = y * d + t
    BY <1>2, Quotient
  <1>5. ASSUME y + 1 <= x
        PROVE  FALSE
    <2>1. (y + 1) * d <= x * d
      BY <1>5
    <2>2. (y + 1) * d = y * d + d
      OBVIOUS
    <2>3. x * d \in Nat /\ y * d \in Nat
      OBVIOUS
    <2> QED
      BY <1>3, <1>4, <2>1, <2>2, <2>3
  <1> QED
    BY <1>1, <1>2, <1>5

\* Numbers below the last one received are refused, as they never come round; the
\* others are taken in up to a window that only grows.
LEMMA WindowIs ==
  ASSUME NEW ch, ch.rseq \in Nat, ch.rseq < Limit, NEW s \in Nat, s < Limit
  PROVE  /\ s < ch.rseq => ~InWindow(ch, s)
         /\ ch.rseq <= s =>
              /\ Rank(ch, s) = s
              /\ InWindow(ch, s) <=> s \div WindowSize <= (ch.rseq \div WindowSize) + FreeWindows - 2
         /\ s \div WindowSize \in Nat /\ ch.rseq \div WindowSize \in Nat
  <1>1. PICK R \in Nat : R = ch.rseq
    OBVIOUS
  <1>2. PICK w \in Nat : w = s \div WindowSize
    BY Constants, Quotient
  <1>3. PICK v \in Nat : v = R \div WindowSize
    BY Constants, Quotient
  <1>4. v <= FreeWindows + 1
    <2>1. PICK r \in Nat : R = v * WindowSize + r
      <3>1. WindowSize \in Nat \ {0}
        BY Constants
      <3>2. R % WindowSize \in 0 .. WindowSize - 1 /\ R = (R \div WindowSize) * WindowSize + (R % WindowSize)
        BY <3>1, Quotient
      <3> QED
        BY <1>3, <3>1, <3>2
    <2>2. ASSUME FreeWindows + 2 <= v
          PROVE  FALSE
      <3>1. (FreeWindows + 2) * WindowSize <= v * WindowSize
        BY <2>2, Constants
      <3>2. v * WindowSize \in Nat
        BY Constants
      <3>3. Limit <= R
        BY <2>1, <3>1, <3>2, Constants DEF Limit
      <3> QED
        BY <1>1, <3>3, Constants
    <2> QED
      BY <2>2, Constants
  <1>5. CASE s < R
    <2>1. Window(ch, s) = w + Windows
      BY <1>1, <1>2, <1>5 DEF Window, Wraps
    <2>2. ~(w + Windows <= v + FreeWindows - 2)
      BY <1>4, Constants
    <2>3. CurrentWindow(ch) = v
      BY <1>1, <1>3 DEF CurrentWindow
    <2>4. ~InWindow(ch, s)
      BY <2>1, <2>2, <2>3, Constants DEF InWindow
    <2> QED
      BY <1>1, <1>2, <1>3, <1>5, <2>4
  <1>6. CASE ~(s < R)
    <2>1. Window(ch, s) = w /\ Rank(ch, s) = s
      BY <1>1, <1>2, <1>6 DEF Window, Wraps, Rank
    <2>2. v <= w
      BY <1>2, <1>3, <1>6, Constants, QuotientGrows
    <2>3. CurrentWindow(ch) = v
      BY <1>1, <1>3 DEF CurrentWindow
    <2>4. InWindow(ch, s) <=> w <= v + FreeWindows - 2
      BY <2>1, <2>2, <2>3, Constants DEF InWindow
    <2> QED
      BY <1>1, <1>2, <1>3, <1>6, <2>1, <2>4
  <1> QED
    BY <1>5, <1>6

Parts(L, p) == (0 .. L[p].size - 1) \X {p}

\* The entry of packet p, with some of its fragments.
EntryOf(L, n, p, d) ==
  [kind |-> L[p].kind, ch |-> L[p].ch, seq |-> n[p].seq,
   useq |-> IF L[p].kind \in Unreliables THEN n[p].useq ELSE 0,
   count |-> IF L[p].size > 1 THEN L[p].size ELSE 0, data |-> d]

IsOf(e, L, n, p) ==
  /\ p \in 1 .. Len(L) /\ e = EntryOf(L, n, p, e.data)
  /\ e.data \subseteq Parts(L, p) /\ (L[p].size = 1 => e.data = Parts(L, p))

Held == [kind : Kinds, ch : Channels, seq : Nat, useq : Nat, count : Nat, data : SUBSET (Nat \X Nat)]

LEMMA PartsAre ==
  ASSUME NEW L, NEW p \in Nat, L[p].size \in Nat \ {0}
  PROVE  /\ IsFiniteSet(Parts(L, p)) /\ Cardinality(Parts(L, p)) = L[p].size
         /\ Parts(L, p) \subseteq Nat \X Nat /\ Parts(L, p) # {}
         /\ \A x \in Parts(L, p) : x[2] = p /\ x[1] \in 0 .. L[p].size - 1
  <1>1. PICK s \in Nat \ {0} : s = L[p].size
    OBVIOUS
  <1>2. PICK I : I = 0 .. s - 1
    OBVIOUS
  <1>3. IsFiniteSet(I) /\ Cardinality(I) = s
    <2>1. 0 \in Int /\ s - 1 \in Int /\ ~(0 > s - 1)
      OBVIOUS
    <2>2. IsFiniteSet(0 .. s - 1) /\ Cardinality(0 .. s - 1) = IF 0 > s - 1 THEN 0 ELSE s - 1 - 0 + 1
      BY <2>1, FS_Interval
    <2> QED
      BY <1>2, <2>1, <2>2
  <1>4. PICK W : W = Parts(L, p)
    OBVIOUS
  <1>5. W = I \X {p}
    BY <1>1, <1>2, <1>4 DEF Parts
  <1>6. PICK f : f = [i \in I |-> <<i, p>>]
    OBVIOUS
  <1>7. f \in [I -> W] /\ (\A x, y \in I : f[x] = f[y] => x = y) /\ \A z \in W : \E x \in I : f[x] = z
    BY <1>5, <1>6
  <1>8. IsFiniteSet(W) /\ Cardinality(I) = Cardinality(W)
    BY <1>3, <1>7, SameSize
  <1>9. W \subseteq Nat \X Nat /\ \A x \in W : x[2] = p /\ x[1] \in I
    BY <1>2, <1>5
  <1>10. <<0, p>> \in W
    BY <1>2, <1>5
  <1> QED
    BY <1>1, <1>2, <1>3, <1>4, <1>8, <1>9, <1>10

LEMMA PacketFacts ==
  ASSUME NEW L, NEW n, Known(L, n), NEW p \in 1 .. Len(L)
  PROVE  /\ p \in Nat /\ L[p] \in Logged /\ n[p] \in Stamps /\ Stamped(L, n, p)
         /\ L[p].kind \in Kinds /\ L[p].ch \in Channels /\ L[p].size \in Nat \ {0} /\ L[p].size \in Sizes
         /\ n[p].seq \in Nat /\ n[p].useq \in Nat /\ LastOf(L, n, p) \in Nat
         /\ n[p].seq <= LastOf(L, n, p) /\ LastOf(L, n, p) < Limit
         /\ L[p].kind \notin Reliables => LastOf(L, n, p) = n[p].seq
  <1>1. L \in Seq(Logged) /\ n \in Seq(Stamps) /\ Len(n) = Len(L) /\ Stamped(L, n, p)
    BY DEF Known
  <1>2. L[p] \in Logged /\ n[p] \in Stamps /\ p \in Nat
    BY <1>1, ElementOfSeq
  <1>3. L[p].kind \in Kinds /\ L[p].ch \in Channels /\ L[p].size \in Sizes
    BY <1>2 DEF Logged
  <1>4. L[p].size \in Nat \ {0}
    BY <1>3, Constants
  <1>5. n[p].seq \in Nat /\ n[p].useq \in Nat
    BY <1>2 DEF Stamps
  <1>6. /\ LastOf(L, n, p) \in Nat /\ n[p].seq <= LastOf(L, n, p)
        /\ L[p].kind \notin Reliables => LastOf(L, n, p) = n[p].seq
    BY <1>4, <1>5 DEF LastOf
  <1> QED
    BY <1>1, <1>2, <1>3, <1>4, <1>5, <1>6 DEF Stamped

EntryFacts(e, L, n, p) ==
  /\ e \in Held /\ e.kind = L[p].kind /\ e.ch = L[p].ch /\ e.seq = n[p].seq
  /\ e.useq = (IF L[p].kind \in Unreliables THEN n[p].useq ELSE 0)
  /\ e.count = (IF L[p].size > 1 THEN L[p].size ELSE 0)
  /\ e.seq \in Nat /\ e.useq \in Nat /\ e.seq < Limit
  /\ IsReliable(e) <=> L[p].kind \in Reliables
  /\ DataLength(e) = L[p].size
  /\ IsReliable(e) => LastNumber(e) = LastOf(L, n, p) /\ e.seq >= 1 /\ e.useq = 0
  /\ e.kind \in Unreliables => e.useq \in 1 .. MaxUnreliable
  /\ e.kind = "unsequenced" => Complete(e)
  /\ Complete(e) <=> e.data = Parts(L, p)
  /\ e.data # {} => PacketOf(e) = p

LEMMA EntryIs ==
  ASSUME NEW L, NEW n, Known(L, n), NEW e, NEW p, IsOf(e, L, n, p)
  PROVE  EntryFacts(e, L, n, p)
  <1>1. p \in 1 .. Len(L) /\ e = EntryOf(L, n, p, e.data) /\ e.data \subseteq Parts(L, p)
    BY DEF IsOf
  <1>2. /\ p \in Nat /\ Stamped(L, n, p)
        /\ L[p].kind \in Kinds /\ L[p].ch \in Channels /\ L[p].size \in Nat \ {0}
        /\ n[p].seq \in Nat /\ n[p].useq \in Nat /\ LastOf(L, n, p) \in Nat
        /\ n[p].seq <= LastOf(L, n, p) /\ LastOf(L, n, p) < Limit
    BY <1>1, PacketFacts
  <1>3. /\ e.kind = L[p].kind /\ e.ch = L[p].ch /\ e.seq = n[p].seq
        /\ e.useq = (IF L[p].kind \in Unreliables THEN n[p].useq ELSE 0)
        /\ e.count = (IF L[p].size > 1 THEN L[p].size ELSE 0)
    BY <1>1 DEF EntryOf
  <1>4. /\ IsFiniteSet(Parts(L, p)) /\ Cardinality(Parts(L, p)) = L[p].size
        /\ Parts(L, p) \subseteq Nat \X Nat /\ Parts(L, p) # {}
        /\ \A x \in Parts(L, p) : x[2] = p
    BY <1>2, PartsAre
  <1>5. e \in Held
    <2>1. e.useq \in Nat /\ e.count \in Nat /\ e.data \subseteq Nat \X Nat
      BY <1>1, <1>2, <1>3, <1>4
    <2>2. EntryOf(L, n, p, e.data) \in Held
      BY <1>2, <1>3, <2>1 DEF EntryOf, Held
    <2> QED
      BY <1>1, <2>2
  <1>6. e.seq \in Nat /\ e.useq \in Nat /\ e.seq < Limit
    BY <1>2, <1>3, Constants
  <1>7. IsReliable(e) <=> L[p].kind \in Reliables
    BY <1>3 DEF IsReliable, Reliables
  <1>8. DataLength(e) = L[p].size /\ (Fragmented(e) <=> L[p].size > 1)
    BY <1>2, <1>3 DEF DataLength, Fragmented
  <1>9. IsReliable(e) => LastNumber(e) = LastOf(L, n, p) /\ e.seq >= 1 /\ e.useq = 0
    <2>1. ASSUME L[p].kind \in Reliables
          PROVE  LastNumber(e) = LastOf(L, n, p) /\ e.seq >= 1 /\ e.useq = 0
      <3>1. LastOf(L, n, p) = n[p].seq + (L[p].size - 1)
        BY <2>1 DEF LastOf
      <3>2. PICK x \in Nat : x = LastOf(L, n, p) /\ x = e.seq + DataLength(e) - 1
        BY <1>2, <1>3, <1>8, <3>1
      <3>3. PICK m \in Nat : m = Numbers /\ x < m
        BY <1>2, <3>2, Constants
      <3>4. x % m = x
        BY <3>3
      <3>5. LastNumber(e) = x
        BY <3>2, <3>3, <3>4 DEF LastNumber
      <3>6. L[p].kind \notin Unreliables
        BY <2>1 DEF Reliables, Unreliables
      <3> QED
        BY <1>2, <1>3, <2>1, <3>2, <3>5, <3>6 DEF Stamped
    <2> QED
      BY <1>7, <2>1
  <1>10. e.kind \in Unreliables => e.useq \in 1 .. MaxUnreliable
    BY <1>2, <1>3 DEF Stamped
  <1>11. IsFiniteSet(e.data) /\ Cardinality(e.data) <= L[p].size
         /\ (Cardinality(e.data) = L[p].size => e.data = Parts(L, p)) /\ Cardinality(e.data) \in Nat
    <2>1. /\ IsFiniteSet(e.data) /\ Cardinality(e.data) <= Cardinality(Parts(L, p))
          /\ (Cardinality(e.data) = Cardinality(Parts(L, p)) => e.data = Parts(L, p))
      BY <1>1, <1>4, FS_Subset
    <2> QED
      BY <1>4, <2>1, FS_CardinalityType
  <1>12. Complete(e) <=> e.data = Parts(L, p)
    <2>1. CASE L[p].size = 1
      <3>1. e.data = Parts(L, p)
        BY <2>1 DEF IsOf
      <3>2. e.count = 0
        BY <1>3, <2>1
      <3> QED
        BY <1>11, <3>1, <3>2 DEF Complete
    <2>2. CASE L[p].size # 1
      <3>1. e.count = L[p].size
        BY <1>2, <1>3, <2>2
      <3> QED
        BY <1>2, <1>4, <1>11, <3>1 DEF Complete
    <2> QED
      BY <2>1, <2>2
  <1>13. e.kind = "unsequenced" => Complete(e)
    <2>1. ASSUME e.kind = "unsequenced"
          PROVE  Complete(e)
      <3>1. L[p].size = 1
        BY <1>2, <1>3, <2>1 DEF Stamped
      <3>2. e.data = Parts(L, p)
        BY <3>1 DEF IsOf
      <3> QED
        BY <1>12, <3>2
    <2> QED
      BY <2>1
  <1>14. e.data # {} => PacketOf(e) = p
    <2>1. ASSUME e.data # {}
          PROVE  PacketOf(e) = p
      <3>1. (CHOOSE x \in e.data : TRUE) \in e.data
        BY <2>1
      <3> QED
        BY <1>1, <1>4, <3>1 DEF PacketOf
    <2> QED
      BY <2>1
  <1> QED
    BY <1>3, <1>5, <1>6, <1>7, <1>8, <1>9, <1>10, <1>12, <1>13, <1>14 DEF EntryFacts

\* Of two sequenced entries of a channel, the one of the earlier packet has the
\* smaller numbers.
Earlier(e, f) == e.seq < f.seq \/ (e.seq = f.seq /\ e.useq < f.useq)

LEMMA OrderIs ==
  ASSUME NEW L, NEW n, Known(L, n), NEW e, NEW p, IsOf(e, L, n, p), NEW f, NEW q, IsOf(f, L, n, q),
         e.ch = f.ch, e.kind # "unsequenced", f.kind # "unsequenced"
  PROVE  /\ p < q => Earlier(e, f) /\ (IsReliable(f) => LastOf(L, n, p) < f.seq)
         /\ Earlier(e, f) => p < q
         /\ e.seq = f.seq /\ e.useq = f.useq => p = q
  <1>1. EntryFacts(e, L, n, p) /\ EntryFacts(f, L, n, q)
    BY EntryIs
  <1>2. p \in 1 .. Len(L) /\ q \in 1 .. Len(L)
    BY DEF IsOf
  <1>3. /\ p \in Nat /\ q \in Nat /\ n[p].seq <= LastOf(L, n, p) /\ LastOf(L, n, p) \in Nat
        /\ n[q].seq <= LastOf(L, n, q) /\ LastOf(L, n, q) \in Nat
    BY <1>2, PacketFacts
  <1>4. e.kind \in Reliables \cup Unreliables /\ f.kind \in Reliables \cup Unreliables
    BY <1>1 DEF EntryFacts, Held, Kinds, Reliables, Unreliables
  <1>0. /\ e.seq = n[p].seq /\ f.seq = n[q].seq /\ e.useq \in Nat /\ f.useq \in Nat
        /\ L[p].kind = e.kind /\ L[q].kind = f.kind /\ L[p].ch = L[q].ch
        /\ n[p].seq \in Nat /\ n[q].seq \in Nat
        /\ e.kind \in Unreliables => e.useq = n[p].useq /\ e.useq >= 1
        /\ f.kind \in Unreliables => f.useq = n[q].useq /\ f.useq >= 1
        /\ e.kind \in Reliables => e.useq = 0
        /\ f.kind \in Reliables => f.useq = 0
    <2>1. /\ e.kind \in Unreliables => e.useq \in 1 .. MaxUnreliable
          /\ f.kind \in Unreliables => f.useq \in 1 .. MaxUnreliable
      BY <1>1 DEF EntryFacts
    <2>2. n[p].seq \in Nat /\ n[q].seq \in Nat
      BY <1>2, PacketFacts
    <2>3. /\ e.kind \in Reliables => e.useq = 0
          /\ f.kind \in Reliables => f.useq = 0
      BY <1>1 DEF EntryFacts, IsReliable, Reliables
    <2>4. /\ e.seq = n[p].seq /\ f.seq = n[q].seq /\ e.useq \in Nat /\ f.useq \in Nat
          /\ L[p].kind = e.kind /\ L[q].kind = f.kind /\ L[p].ch = L[q].ch
          /\ e.kind \in Unreliables => e.useq = n[p].useq
          /\ f.kind \in Unreliables => f.useq = n[q].useq
      BY <1>1 DEF EntryFacts
    <2> QED
      BY <2>1, <2>2, <2>3, <2>4, Constants
  <1>5. ASSUME p < q
        PROVE  Earlier(e, f) /\ (IsReliable(f) => LastOf(L, n, p) < f.seq)
    <2>1. InTurn(L, n, p, q)
      BY <1>2, <1>5 DEF Known
    <2>2. CASE f.kind \in Reliables
      <3>1. LastOf(L, n, p) < n[q].seq
        BY <1>0, <2>1, <2>2 DEF InTurn
      <3>2. e.seq < f.seq
        BY <1>0, <1>3, <3>1
      <3> QED
        BY <1>0, <3>1, <3>2 DEF Earlier
    <2>3. CASE f.kind \in Unreliables
      <3>1. /\ LastOf(L, n, p) <= n[q].seq
            /\ e.kind \in Unreliables /\ n[p].seq = n[q].seq => n[p].useq < n[q].useq
        BY <1>0, <2>1, <2>3 DEF InTurn
      <3>2. ~IsReliable(f)
        BY <2>3 DEF IsReliable, Unreliables
      <3>3. n[p].seq < n[q].seq \/ n[p].seq = n[q].seq
        BY <1>0, <1>3, <3>1
      <3>4. n[p].seq = n[q].seq => e.useq < f.useq
        BY <1>0, <1>4, <2>3, <3>1
      <3> QED
        BY <1>0, <3>2, <3>3, <3>4 DEF Earlier
    <2> QED
      BY <1>4, <2>2, <2>3
  <1>6. ASSUME q < p
        PROVE  Earlier(f, e)
    <2>1. InTurn(L, n, q, p)
      BY <1>2, <1>6 DEF Known
    <2>2. CASE e.kind \in Reliables
      <3>1. LastOf(L, n, q) < n[p].seq
        BY <1>0, <2>1, <2>2 DEF InTurn
      <3>2. f.seq < e.seq
        BY <1>0, <1>3, <3>1
      <3> QED
        BY <3>2 DEF Earlier
    <2>3. CASE e.kind \in Unreliables
      <3>1. /\ LastOf(L, n, q) <= n[p].seq
            /\ f.kind \in Unreliables /\ n[q].seq = n[p].seq => n[q].useq < n[p].useq
        BY <1>0, <2>1, <2>3 DEF InTurn
      <3>3. n[q].seq < n[p].seq \/ n[q].seq = n[p].seq
        BY <1>0, <1>3, <3>1
      <3>4. n[q].seq = n[p].seq => f.useq < e.useq
        BY <1>0, <1>4, <2>3, <3>1
      <3> QED
        BY <1>0, <3>3, <3>4 DEF Earlier
    <2> QED
      BY <1>4, <2>2, <2>3
  <1>7. e.seq \in Nat /\ f.seq \in Nat /\ e.useq \in Nat /\ f.useq \in Nat
    BY <1>1 DEF EntryFacts
  <1>8. Earlier(e, f) => p < q
    <2>1. p = q => ~Earlier(e, f)
      BY <1>1, <1>7 DEF Earlier, EntryFacts
    <2>2. Earlier(e, f) => ~Earlier(f, e)
      BY <1>7 DEF Earlier
    <2> QED
      BY <1>3, <1>6, <2>1, <2>2
  <1>9. e.seq = f.seq /\ e.useq = f.useq => p = q
    BY <1>3, <1>5, <1>6, <1>7 DEF Earlier
  <1> QED
    BY <1>5, <1>8, <1>9

--------------------------------------------------------------------------------
(* The scan of the unreliable list: what it moves, drops and keeps. *)

DroppedAt(fate, f, i) ==
  CASE i = 0                                   -> 1
    [] i > 0 /\ fate[i] = "deliver"            -> f[i - 1]
    [] i > 0 /\ fate[i] = "old"                -> i + 1
    [] OTHER -> IF AfterRun(fate, i) \/ f[i - 1] = i THEN i ELSE i - 1

\* The values that Dropped() goes through exist.
LEMMA DroppedRuns ==
  ASSUME NEW fate, NEW stop \in Nat \ {0}
  PROVE  \E f : /\ \A i \in 0 .. stop - 1 : f[i] = DroppedAt(fate, f, i)
                /\ Dropped(fate, stop) = IF AfterRun(fate, stop) THEN stop ELSE f[stop - 1]
  <1> DEFINE Runs(f, n) ==
               f = [i \in 0 .. n |->
                      CASE i = 0                                   -> 1
                        [] i > 0 /\ fate[i] = "deliver"            -> f[i - 1]
                        [] i > 0 /\ fate[i] = "old"                -> i + 1
                        [] OTHER -> IF AfterRun(fate, i) \/ f[i - 1] = i THEN i ELSE i - 1]
             T(n) == {k \in 0 .. n : \E f : Runs(f, k)}
             A == CHOOSE f : Runs(f, stop - 1)
  <1>1. PICK n \in Nat : n = stop - 1
    OBVIOUS
  <1>2. 0 \in T(n)
    <2>1. Runs([i \in 0 .. 0 |-> 1], 0)
      OBVIOUS
    <2> HIDE DEF Runs
    <2> QED
      BY <2>1
  <1>3. ASSUME NEW k \in 0 .. n - 1, k \in T(n)
        PROVE  k + 1 \in T(n)
    <2>1. PICK f : Runs(f, k)
      BY <1>3
    <2>2. PICK g : g = [j \in 0 .. k + 1 |-> IF j = k + 1 THEN DroppedAt(fate, f, k + 1) ELSE f[j]]
      OBVIOUS
    <2>3. \A j \in 0 .. k : g[j] = f[j]
      BY <2>2
    <2>4. \A j \in 0 .. k + 1 : g[j] = DroppedAt(fate, g, j)
      <3> SUFFICES ASSUME NEW j \in 0 .. k + 1
                   PROVE  g[j] = DroppedAt(fate, g, j)
        OBVIOUS
      <3>1. CASE j = k + 1
        <4>1. g[j] = DroppedAt(fate, f, j) /\ j - 1 \in 0 .. k
          BY <2>2, <3>1
        <4>2. g[j - 1] = f[j - 1]
          BY <2>3, <4>1
        <4>3. DroppedAt(fate, f, j) = DroppedAt(fate, g, j)
          BY <4>2 DEF DroppedAt
        <4> QED
          BY <4>1, <4>3
      <3>2. CASE j # k + 1
        <4>1. j \in 0 .. k /\ (j # 0 => j - 1 \in 0 .. k)
          BY <3>2
        <4>2. f[j] = DroppedAt(fate, f, j)
          BY <2>1, <4>1 DEF DroppedAt
        <4>3. j # 0 => g[j - 1] = f[j - 1]
          BY <2>3, <4>1
        <4>4. DroppedAt(fate, f, j) = DroppedAt(fate, g, j)
          BY <4>3 DEF DroppedAt
        <4> QED
          BY <2>3, <4>1, <4>2, <4>4
      <3> QED
        BY <3>1, <3>2
    <2>5. g = [j \in 0 .. k + 1 |-> DroppedAt(fate, g, j)]
      BY <2>2, <2>4
    <2>6. Runs(g, k + 1)
      BY <2>5 DEF DroppedAt
    <2> HIDE DEF Runs
    <2> QED
      BY <2>6
  <1>4. n \in T(n)
    <2> HIDE DEF T
    <2> QED
      BY <1>2, <1>3, UpToInduction
  <1>5. Runs(A, n)
    <2>1. \E f : Runs(f, n)
      BY <1>4
    <2> HIDE DEF Runs
    <2> QED
      BY <1>1, <2>1
  <1>6. Dropped(fate, stop) = IF AfterRun(fate, stop) THEN stop ELSE A[stop - 1]
    BY DEF Dropped
  <1>7. \A i \in 0 .. stop - 1 : A[i] = DroppedAt(fate, A, i)
    <2> HIDE DEF A
    <2> QED
      BY <1>1, <1>5 DEF DroppedAt
  <1> QED
    BY <1>6, <1>7

\* What was moved comes before droppedCommand.
LEMMA MovedIsBeforeDropped ==
  ASSUME NEW fate, NEW stop \in Nat \ {0}, NEW m \in 1 .. stop - 1, fate[m] = "deliver"
  PROVE  m < Dropped(fate, stop) /\ Dropped(fate, stop) \in Nat
  <1>1. PICK f : /\ \A i \in 0 .. stop - 1 : f[i] = DroppedAt(fate, f, i)
                 /\ Dropped(fate, stop) = IF AfterRun(fate, stop) THEN stop ELSE f[stop - 1]
    BY DroppedRuns
  <1>2. PICK h \in Nat : h = stop - 1 /\ h >= 1
    OBVIOUS
  <1>3. f[h] = DroppedAt(fate, f, h)
    BY <1>1, <1>2
  <1>4. CASE fate[h] = "deliver"
    BY <1>1, <1>2, <1>4 DEF AfterRun
  <1>5. CASE fate[h] # "deliver"
    <2>1. m # h /\ m < h
      BY <1>2, <1>5
    <2>2. ~AfterRun(fate, stop)
      BY <1>2, <1>5 DEF AfterRun
    <2>3. Dropped(fate, stop) = f[h]
      BY <1>1, <1>2, <2>2
    <2>4. f[h] \in {h + 1, h, h - 1} /\ (f[h] = h - 1 => fate[h - 1] # "deliver")
      <3>1. f[h] = IF fate[h] = "old" THEN h + 1
                   ELSE IF AfterRun(fate, h) \/ f[h - 1] = h THEN h ELSE h - 1
        BY <1>2, <1>3, <1>5 DEF DroppedAt
      <3>2. h - 1 # h /\ h - 1 # h + 1
        BY <1>2
      <3>3. h > 1
        BY <2>1
      <3> QED
        BY <3>1, <3>2, <3>3 DEF AfterRun
    <2>5. f[h] = h - 1 => m # h - 1
      BY <2>4
    <2> QED
      BY <1>2, <2>1, <2>3, <2>4, <2>5
  <1> QED
    BY <1>4, <1>5

--------------------------------------------------------------------------------
(* One channel: what its lists keep between the steps, and while they are scanned. *)

Sequenced(e) == e.kind # "unsequenced"
IsAny(e, L, n) == \E p : IsOf(e, L, n, p)
Near(R, s) == s \div WindowSize <= (R \div WindowSize) + FreeWindows - 2

\* The numbers of what is sequenced grow along the list.
Ordered(q) ==
  \A i, j \in 1 .. Len(q) : i < j /\ Sequenced(q[i]) /\ Sequenced(q[j]) => Earlier(q[i], q[j])

\* An unsequenced command is only there, and first, when it has just come in.
MayScan(L, n, ch, c) ==
  /\ ch.unrel \in Seq(Held) /\ Ordered(ch.unrel)
  /\ \A i \in 1 .. Len(ch.unrel) :
       /\ IsAny(ch.unrel[i], L, n) /\ ch.unrel[i].ch = c /\ ~IsReliable(ch.unrel[i])
       /\ Near(ch.rseq, ch.unrel[i].seq)
       /\ ~Sequenced(ch.unrel[i]) => i = 1
       /\ Sequenced(ch.unrel[i]) /\ ch.unrel[i].seq = ch.rseq => ch.unrel[i].useq > ch.useq

Scanned(ch) ==
  \A i \in 1 .. Len(ch.unrel) :
    /\ Sequenced(ch.unrel[i]) /\ ch.unrel[i].seq >= ch.rseq
    /\ ch.unrel[i].seq = ch.rseq => ~Complete(ch.unrel[i])

Counting(ch) == ch.rseq \in Nat /\ ch.rseq < Limit /\ ch.useq \in Nat /\ ch.useq <= MaxUnreliable

LEMMA AnyIs ==
  ASSUME NEW L, NEW n, Known(L, n), NEW e, IsAny(e, L, n)
  PROVE  /\ e \in Held /\ e.seq \in Nat /\ e.useq \in Nat /\ e.seq < Limit /\ e.ch \in Channels
         /\ ~Sequenced(e) => Complete(e)
         /\ e.kind \in Unreliables => e.useq \in 1 .. MaxUnreliable
         /\ IsReliable(e) => e.useq = 0 /\ e.seq >= 1 /\ Sequenced(e)
         /\ Sequenced(e) /\ ~IsReliable(e) => e.kind \in Unreliables /\ e.useq >= 1
         /\ DataLength(e) \in Nat \ {0}
  <1>1. PICK p : IsOf(e, L, n, p)
    BY DEF IsAny
  <1>2. EntryFacts(e, L, n, p)
    BY <1>1, EntryIs
  <1>3. e.kind \in Kinds /\ e.ch \in Channels
    BY <1>2 DEF EntryFacts, Held
  <1>4. p \in 1 .. Len(L)
    BY <1>1 DEF IsOf
  <1>5. DataLength(e) \in Nat \ {0}
    BY <1>2, <1>4, PacketFacts DEF EntryFacts
  <1>6. Sequenced(e) /\ ~IsReliable(e) => e.kind \in Unreliables
    BY <1>3 DEF Kinds, Sequenced, IsReliable, Unreliables
  <1>7. e.kind \in Unreliables => e.useq \in 1 .. MaxUnreliable
    BY <1>2 DEF EntryFacts
  <1>8. e.useq \in 1 .. MaxUnreliable => e.useq >= 1
    BY Constants
  <1>9. IsReliable(e) => Sequenced(e)
    BY DEF IsReliable, Sequenced
  <1>10. ~Sequenced(e) => Complete(e)
    BY <1>2 DEF Sequenced, EntryFacts
  <1>11. e \in Held /\ e.seq \in Nat /\ e.useq \in Nat /\ e.seq < Limit
         /\ (IsReliable(e) => e.useq = 0 /\ e.seq >= 1)
    BY <1>2 DEF EntryFacts
  <1> QED
    BY <1>3, <1>5, <1>6, <1>7, <1>8, <1>9, <1>10, <1>11

LEMMA StopIs ==
  ASSUME NEW ch, ch.unrel \in Seq(Held), NEW fate, fate = Fates(ch)
  PROVE  /\ DOMAIN fate = 1 .. Len(ch.unrel) /\ \A i \in 1 .. Len(ch.unrel) : fate[i] = Fate(ch, ch.unrel[i])
         /\ Stop(fate) \in 1 .. Len(ch.unrel) + 1
         /\ \A i \in 1 .. Stop(fate) - 1 : i \in 1 .. Len(ch.unrel) /\ fate[i] # "later"
         /\ Stop(fate) <= Len(ch.unrel) => fate[Stop(fate)] = "later"
  <1>1. PICK l \in Nat : l = Len(ch.unrel)
    OBVIOUS
  <1>2. DOMAIN ch.unrel = 1 .. l
    BY <1>1
  <1>3. fate = [i \in 1 .. l |-> Fate(ch, ch.unrel[i])]
    BY <1>2 DEF Fates
  <1>4. Len(fate) = l
    BY <1>3
  <1>5. PICK S : S = {i \in 1 .. l : fate[i] = "later"} \cup {l + 1}
    OBVIOUS
  <1>6. PICK s : s = Stop(fate)
    OBVIOUS
  <1>7. s = Min(S)
    BY <1>3, <1>4, <1>5, <1>6 DEF Stop
  <1>8. S \subseteq Nat /\ S # {} /\ l + 1 \in S
    BY <1>5
  <1>9. PICK m \in S : \A k \in S : m <= k
    BY <1>8, LeastExists
  <1>10. s \in S /\ \A k \in S : s <= k
    BY <1>7, <1>9 DEF Min
  <1>11. s \in 1 .. l + 1
    BY <1>5, <1>10
  <1>12. \A i \in 1 .. s - 1 : i \in 1 .. l /\ fate[i] # "later"
    <2>1. TAKE i \in 1 .. s - 1
    <2>2. i \in 1 .. l /\ ~(s <= i)
      BY <1>11
    <2>3. i \notin S
      BY <1>10, <2>2
    <2> QED
      BY <1>5, <2>2, <2>3
  <1>13. s <= l => fate[s] = "later"
    BY <1>5, <1>10
  <1> QED
    BY <1>1, <1>3, <1>6, <1>11, <1>12, <1>13

LEMMA NumberAfterIs ==
  ASSUME NEW q, NEW l \in Nat, NEW S, S \subseteq 1 .. l, NEW u \in Nat,
         \A i \in S : Sequenced(q[i]) => q[i].useq \in Nat /\ q[i].useq > u,
         \A i, j \in S : i < j /\ Sequenced(q[i]) /\ Sequenced(q[j]) => q[i].useq < q[j].useq
  PROVE  /\ NumberAfter(q, u, S) \in Nat /\ NumberAfter(q, u, S) >= u
         /\ \A i \in S : Sequenced(q[i]) => q[i].useq <= NumberAfter(q, u, S)
         /\ NumberAfter(q, u, S) = u \/ \E i \in S : Sequenced(q[i]) /\ NumberAfter(q, u, S) = q[i].useq
  <1>1. PICK N : N = {i \in S : q[i].kind # "unsequenced"}
    OBVIOUS
  <1>2. CASE N = {}
    <2>1. NumberAfter(q, u, S) = u
      BY <1>1, <1>2 DEF NumberAfter
    <2>2. ASSUME NEW i \in S
          PROVE  ~Sequenced(q[i])
      BY <1>1, <1>2 DEF Sequenced
    <2>3. u \in Nat /\ u >= u
      OBVIOUS
    <2> HIDE DEF NumberAfter
    <2> QED
      BY <2>1, <2>2, <2>3
  <1>3. CASE N # {}
    <2>1. PICK m : m = Max(N)
      OBVIOUS
    <2>2. N \subseteq 0 .. l
      <3>1. N \subseteq S /\ 1 .. l \subseteq 0 .. l
        BY <1>1
      <3> QED
        BY <3>1
    <2>3. PICK z : z \in N
      BY <1>3
    <2>4. m \in N /\ \A k \in N : k <= m
      BY <2>1, <2>2, <2>3, GreatestIsIn
    <2>5. NumberAfter(q, u, S) = q[m].useq
      BY <1>1, <1>3, <2>1 DEF NumberAfter
    <2>6. m \in S /\ Sequenced(q[m])
      BY <1>1, <2>4 DEF Sequenced
    <2>7. ASSUME NEW i \in S, Sequenced(q[i])
          PROVE  q[i].useq <= q[m].useq
      <3>1. i \in N /\ i \in Nat /\ m \in Nat
        BY <1>1, <2>6, <2>7 DEF Sequenced
      <3>2. i <= m
        BY <2>4, <3>1
      <3>3. i = m \/ i < m
        BY <3>1, <3>2
      <3>4. q[i].useq \in Nat /\ q[m].useq \in Nat
        BY <2>6, <2>7
      <3> QED
        BY <2>6, <2>7, <3>3, <3>4
    <2> QED
      BY <2>5, <2>6, <2>7
  <1> QED
    BY <1>2, <1>3

\* The fate of a command, when no number comes round.
LEMMA FateIs ==
  ASSUME NEW L, NEW n, Known(L, n), NEW ch, Counting(ch), NEW e, IsAny(e, L, n)
  PROVE  /\ Fate(ch, e) = "deliver" => Complete(e) /\ (Sequenced(e) => e.seq = ch.rseq)
         /\ Fate(ch, e) = "later" => Sequenced(e) /\ e.seq > ch.rseq
         /\ Fate(ch, e) = "partial" => Sequenced(e) /\ e.seq = ch.rseq /\ ~Complete(e)
         /\ ~Sequenced(e) => Fate(ch, e) = "deliver"
         /\ Fate(ch, e) \in {"deliver", "partial", "later", "old"}
         /\ Sequenced(e) /\ e.seq = ch.rseq => Fate(ch, e) \in {"deliver", "partial"}
         /\ Sequenced(e) /\ e.seq > ch.rseq /\ Near(ch.rseq, e.seq) => Fate(ch, e) = "later"
  <1>1. e.seq \in Nat /\ e.seq < Limit /\ (~Sequenced(e) => Complete(e))
    BY AnyIs
  <1>2. e.seq < ch.rseq => ~InWindow(ch, e.seq)
    BY <1>1, WindowIs DEF Counting
  <1>3. ch.rseq <= e.seq /\ Near(ch.rseq, e.seq) => InWindow(ch, e.seq)
    BY <1>1, WindowIs DEF Counting, Near
  <1>4. CASE ~Sequenced(e)
    BY <1>1, <1>4 DEF Fate, Sequenced
  <1>5. CASE Sequenced(e) /\ e.seq = ch.rseq
    BY <1>1, <1>5 DEF Fate, Sequenced, Counting
  <1>6. CASE Sequenced(e) /\ e.seq # ch.rseq
    BY <1>1, <1>2, <1>3, <1>6 DEF Fate, Sequenced, Counting
  <1> QED
    BY <1>4, <1>5, <1>6

LEMMA ScanIs ==
  ASSUME NEW L, NEW n, Known(L, n), NEW ch, NEW c, Counting(ch), MayScan(L, n, ch, c),
         NEW fate, fate = Fates(ch), NEW stop, stop = Stop(fate),
         NEW u, u = NumberAfter(ch.unrel, ch.useq, Moved(fate, stop))
  PROVE  /\ Moved(fate, stop) \subseteq 1 .. Len(ch.unrel) /\ Kept(fate, stop) \subseteq 1 .. Len(ch.unrel)
         /\ u \in Nat /\ u >= ch.useq
         /\ \A i \in Moved(fate, stop) :
              /\ Complete(ch.unrel[i])
              /\ Sequenced(ch.unrel[i]) => ch.unrel[i].seq = ch.rseq /\ ch.unrel[i].useq <= u
         /\ \A i \in Kept(fate, stop) :
              /\ Sequenced(ch.unrel[i]) /\ ch.unrel[i].seq >= ch.rseq
              /\ ch.unrel[i].seq = ch.rseq => ~Complete(ch.unrel[i]) /\ ch.unrel[i].useq > u
         /\ u = ch.useq \/ \E i \in Moved(fate, stop) : Sequenced(ch.unrel[i]) /\ u = ch.unrel[i].useq
  <1>1. PICK l \in Nat : l = Len(ch.unrel)
    BY DEF MayScan
  <1>2. PICK q : q = ch.unrel
    OBVIOUS
  <1>3. /\ DOMAIN fate = 1 .. l /\ \A i \in 1 .. l : fate[i] = Fate(ch, q[i])
        /\ stop \in 1 .. l + 1
        /\ \A i \in 1 .. stop - 1 : i \in 1 .. l /\ fate[i] # "later"
        /\ stop <= l => fate[stop] = "later"
    BY <1>1, <1>2, StopIs DEF MayScan
  <1>4. PICK M : M = Moved(fate, stop)
    OBVIOUS
  <1>5. PICK K : K = Kept(fate, stop)
    OBVIOUS
  <1>6. M \subseteq 1 .. l /\ K \subseteq 1 .. l
    BY <1>3, <1>4, <1>5 DEF Moved, Kept
  <1>7. ASSUME NEW i \in 1 .. l
        PROVE  /\ IsAny(q[i], L, n) /\ q[i].seq \in Nat /\ q[i].useq \in Nat
               /\ ~Sequenced(q[i]) => i = 1
               /\ Sequenced(q[i]) /\ q[i].seq = ch.rseq => q[i].useq > ch.useq
    <2>1. IsAny(q[i], L, n) /\ (~Sequenced(q[i]) => i = 1)
          /\ (Sequenced(q[i]) /\ q[i].seq = ch.rseq => q[i].useq > ch.useq)
      BY <1>1, <1>2 DEF MayScan
    <2> QED
      BY <2>1, AnyIs
  <1>8. ASSUME NEW i \in M
        PROVE  /\ i \in 1 .. stop - 1 /\ fate[i] = "deliver" /\ i \in 1 .. l
               /\ Complete(q[i]) /\ (Sequenced(q[i]) => q[i].seq = ch.rseq)
    <2>1. i \in 1 .. stop - 1 /\ fate[i] = "deliver" /\ i \in 1 .. l
      BY <1>4, <1>6 DEF Moved
    <2>2. Fate(ch, q[i]) = "deliver" /\ IsAny(q[i], L, n)
      BY <1>3, <1>7, <2>1
    <2> QED
      BY <2>1, <2>2, FateIs
  <1>9. \A i, j \in 1 .. l : i < j /\ Sequenced(q[i]) /\ Sequenced(q[j]) => Earlier(q[i], q[j])
    BY <1>1, <1>2 DEF MayScan, Ordered
  <1>10. /\ u \in Nat /\ u >= ch.useq
         /\ \A i \in M : Sequenced(q[i]) => q[i].useq <= u
         /\ u = ch.useq \/ \E i \in M : Sequenced(q[i]) /\ u = q[i].useq
    <2>1. ASSUME NEW i \in M, Sequenced(q[i])
          PROVE  q[i].useq \in Nat /\ q[i].useq > ch.useq
      BY <1>7, <1>8, <2>1
    <2>2. ASSUME NEW i \in M, NEW j \in M, i < j, Sequenced(q[i]), Sequenced(q[j])
          PROVE  q[i].useq < q[j].useq
      <3>1. Earlier(q[i], q[j]) /\ q[i].seq = ch.rseq /\ q[j].seq = ch.rseq
        BY <1>8, <1>9, <2>2
      <3> QED
        BY <3>1 DEF Earlier, Counting
    <2>3. ch.useq \in Nat /\ u = NumberAfter(q, ch.useq, M)
      BY <1>2, <1>4 DEF Counting
    <2> QED
      BY <1>6, <2>1, <2>2, <2>3, NumberAfterIs
  <1>11. ASSUME NEW i \in K
         PROVE  /\ Sequenced(q[i]) /\ q[i].seq >= ch.rseq
                /\ q[i].seq = ch.rseq => ~Complete(q[i]) /\ q[i].useq > u
    <2>1. i \in 1 .. l /\ i \in Nat
      BY <1>6
    <2>2. i >= stop \/ (fate[i] = "partial" /\ i >= Dropped(fate, stop))
      BY <1>5 DEF Kept
    <2>3. fate[i] = Fate(ch, q[i]) /\ IsAny(q[i], L, n) /\ q[i].seq \in Nat
      BY <1>3, <1>7, <2>1
    <2>4. CASE i >= stop
      <3>1. stop \in 1 .. l /\ fate[stop] = "later"
        BY <1>3, <2>1, <2>4
      <3>2. IsAny(q[stop], L, n) /\ Fate(ch, q[stop]) = "later"
        BY <1>3, <1>7, <3>1
      <3>3. Sequenced(q[stop]) /\ q[stop].seq > ch.rseq
        BY <3>2, FateIs
      <3>4. Sequenced(q[i])
        <4>1. i = stop \/ i # 1
          BY <2>1, <2>4, <3>1
        <4> QED
          BY <1>7, <2>1, <3>3, <4>1
      <3>5. q[i].seq >= q[stop].seq
        <4>1. i = stop \/ stop < i
          BY <2>1, <2>4, <3>1
        <4>2. q[stop].seq \in Nat
          BY <1>7, <3>1
        <4>3. stop < i => Earlier(q[stop], q[i])
          BY <1>9, <2>1, <3>1, <3>3, <3>4
        <4> QED
          BY <2>3, <4>1, <4>2, <4>3 DEF Earlier
      <3>6. q[stop].seq \in Nat /\ ch.rseq \in Nat
        BY <1>7, <3>1 DEF Counting
      <3> QED
        BY <2>3, <3>3, <3>4, <3>5, <3>6
    <2>5. CASE ~(i >= stop)
      <3>1. fate[i] = "partial" /\ i >= Dropped(fate, stop)
        BY <2>2, <2>5
      <3>2. Sequenced(q[i]) /\ q[i].seq = ch.rseq /\ ~Complete(q[i])
        <4>1. Fate(ch, q[i]) = "partial" /\ IsAny(q[i], L, n)
          BY <2>3, <3>1
        <4> QED
          BY <4>1, FateIs
      <3>3. q[i].useq > ch.useq
        BY <1>7, <2>1, <3>2
      <3>4. ASSUME NEW m \in M, Sequenced(q[m])
            PROVE  q[m].useq < q[i].useq
        <4>1. stop \in Nat \ {0} /\ m \in 1 .. stop - 1 /\ fate[m] = "deliver"
          BY <1>3, <1>8
        <4>2. m < Dropped(fate, stop) /\ Dropped(fate, stop) \in Nat
          BY <4>1, MovedIsBeforeDropped
        <4>3. m < i
          BY <2>1, <3>1, <4>1, <4>2
        <4>4. Earlier(q[m], q[i]) /\ q[m].seq = ch.rseq
          BY <1>6, <1>8, <1>9, <2>1, <3>2, <3>4, <4>3
        <4> QED
          BY <3>2, <4>4 DEF Earlier, Counting
      <3>5. q[i].useq > u
        BY <1>10, <3>3, <3>4
      <3>6. ch.rseq \in Nat
        BY DEF Counting
      <3> QED
        BY <3>2, <3>5, <3>6
    <2> QED
      BY <2>4, <2>5
  <1> QED
    BY <1>1, <1>2, <1>4, <1>5, <1>6, <1>8, <1>10, <1>11

--------------------------------------------------------------------------------
(* What was handed over, and how it grows. *)

ChanRec == [rseq : Nat, useq : Nat, rel : Seq(Held), unrel : Seq(Held)]
Receiver == [chan : [Channels -> ChanRec], dispatched : Seq(Held), waiting : Int, group : Nat,
             seen : SUBSET Nat]

Behind(e, ch) == e.seq < ch.rseq \/ (e.seq = ch.rseq /\ e.useq <= ch.useq)

Delivered(L, n, chan, D) ==
  /\ D \in Seq(Held)
  /\ \A i \in 1 .. Len(D) : IsAny(D[i], L, n) /\ Complete(D[i])
  /\ \A i, j \in 1 .. Len(D) :
       i < j /\ Sequenced(D[i]) /\ Sequenced(D[j]) /\ D[i].ch = D[j].ch => Earlier(D[i], D[j])
  /\ \A i \in 1 .. Len(D) : Sequenced(D[i]) => Behind(D[i], chan[D[i].ch])
  /\ \A p \in 1 .. Len(L) : L[p].kind \in Reliables /\ n[p].seq <= chan[L[p].ch].rseq
                            => \E i \in 1 .. Len(D) : IsOf(D[i], L, n, p)

\* Of what is new, at most one is not sequenced, and that is e.
Extends(D, D2, e) ==
  /\ Grown(D, D2)
  /\ \A i \in Len(D) + 1 .. Len(D2) : ~Sequenced(D2[i]) => D2[i] = e
  /\ \A i, j \in Len(D) + 1 .. Len(D2) : ~Sequenced(D2[i]) /\ ~Sequenced(D2[j]) => i = j

\* E is M after D.
Joins(E, D, M) ==
  /\ Len(E) = Len(D) + Len(M)
  /\ \A i \in 1 .. Len(D) : E[i] = D[i]
  /\ \A k \in 1 .. Len(M) : E[Len(D) + k] = M[k]
  /\ \A i \in 1 .. Len(E) : i \in 1 .. Len(D) \/ \E k \in 1 .. Len(M) : i = Len(D) + k /\ E[i] = M[k]

LEMMA JoinIs ==
  ASSUME NEW T, NEW D \in Seq(T), NEW M \in Seq(T)
  PROVE  D \o M \in Seq(T) /\ Joins(D \o M, D, M)
  <1>1. D \o M \in Seq(T) /\ Len(D \o M) = Len(D) + Len(M)
    BY ConcatProperties
  <1>2. PICK d \in Nat : d = Len(D)
    OBVIOUS
  <1>3. PICK m \in Nat : m = Len(M)
    OBVIOUS
  <1>4. \A i \in 1 .. d + m : (D \o M)[i] = IF i <= d THEN D[i] ELSE M[i - d]
    BY <1>2, <1>3, ConcatProperties
  <1>5. ASSUME NEW i \in 1 .. d
        PROVE  (D \o M)[i] = D[i]
    <2>1. i \in 1 .. d + m /\ i <= d
      OBVIOUS
    <2> QED
      BY <1>4, <2>1
  <1>6. ASSUME NEW k \in 1 .. m
        PROVE  (D \o M)[d + k] = M[k]
    <2>1. d + k \in 1 .. d + m /\ ~(d + k <= d) /\ (d + k) - d = k
      OBVIOUS
    <2> QED
      BY <1>4, <2>1
  <1>7. ASSUME NEW i \in 1 .. d + m
        PROVE  i \in 1 .. d \/ \E k \in 1 .. m : i = d + k /\ (D \o M)[i] = M[k]
    <2>1. CASE i <= d
      BY <2>1
    <2>2. CASE ~(i <= d)
      <3>1. i - d \in 1 .. m /\ i = d + (i - d)
        BY <2>2
      <3> QED
        BY <1>6, <3>1
    <2> QED
      BY <2>1, <2>2
  <1> QED
    BY <1>1, <1>2, <1>3, <1>5, <1>6, <1>7 DEF Joins

\* What is added to the end of D comes from channel c, and moves its numbers on.
Adds(L, n, chan, c, ch, M) ==
  /\ M \in Seq(Held) /\ Ordered(M)
  /\ Counting(chan[c]) /\ Counting(ch) /\ chan[c].rseq <= ch.rseq
  /\ chan[c].rseq = ch.rseq => chan[c].useq <= ch.useq
  /\ \A k \in 1 .. Len(M) :
       /\ IsAny(M[k], L, n) /\ Complete(M[k]) /\ M[k].ch = c
       /\ Sequenced(M[k]) => ~Behind(M[k], chan[c]) /\ Behind(M[k], ch)
  /\ \A p \in 1 .. Len(L) :
       L[p].kind \in Reliables /\ L[p].ch = c /\ n[p].seq > chan[c].rseq /\ n[p].seq <= ch.rseq
       => \E k \in 1 .. Len(M) : IsOf(M[k], L, n, p)

LEMMA DeliveredMore ==
  ASSUME NEW L, NEW n, Known(L, n), NEW chan, NEW D, Delivered(L, n, chan, D),
         NEW c \in Channels, NEW ch, NEW M, Adds(L, n, chan, c, ch, M),
         NEW chan2, chan2[c] = ch, \A d \in Channels \ {c} : chan2[d] = chan[d]
  PROVE  Delivered(L, n, chan2, D \o M)
  <1>1. PICK E : E = D \o M
    OBVIOUS
  <1>2. PICK d \in Nat : d = Len(D)
    BY DEF Delivered
  <1>3. PICK m \in Nat : m = Len(M)
    BY DEF Adds
  <1>4. /\ E \in Seq(Held) /\ Len(E) = d + m
        /\ \A i \in 1 .. d : E[i] = D[i]
        /\ \A i \in 1 .. d + m : i \in 1 .. d \/ \E k \in 1 .. m : i = d + k /\ E[i] = M[k]
        /\ \A k \in 1 .. m : E[d + k] = M[k] /\ d + k \in 1 .. d + m
    <2>1. D \in Seq(Held) /\ M \in Seq(Held)
      BY DEF Delivered, Adds
    <2>2. \A k \in 1 .. m : d + k \in 1 .. d + m
      OBVIOUS
    <2>3. D \o M \in Seq(Held) /\ Joins(D \o M, D, M)
      BY <2>1, JoinIs
    <2>4. E \in Seq(Held) /\ Joins(E, D, M)
      BY <1>1, <2>3
    <2> QED
      BY <1>2, <1>3, <2>2, <2>4 DEF Joins
  <1>5. ASSUME NEW i \in 1 .. d
        PROVE  IsAny(D[i], L, n) /\ Complete(D[i]) /\ (Sequenced(D[i]) => Behind(D[i], chan[D[i].ch]))
               /\ D[i].ch \in Channels /\ D[i].seq \in Nat /\ D[i].useq \in Nat
    <2>1. IsAny(D[i], L, n) /\ Complete(D[i]) /\ (Sequenced(D[i]) => Behind(D[i], chan[D[i].ch]))
      BY <1>2 DEF Delivered
    <2> QED
      BY <2>1, AnyIs
  <1>6. ASSUME NEW k \in 1 .. m
        PROVE  /\ IsAny(M[k], L, n) /\ Complete(M[k]) /\ M[k].ch = c
               /\ Sequenced(M[k]) => ~Behind(M[k], chan[c]) /\ Behind(M[k], ch)
               /\ M[k].seq \in Nat /\ M[k].useq \in Nat
    <2>1. /\ IsAny(M[k], L, n) /\ Complete(M[k]) /\ M[k].ch = c
          /\ Sequenced(M[k]) => ~Behind(M[k], chan[c]) /\ Behind(M[k], ch)
      BY <1>3 DEF Adds
    <2> QED
      BY <2>1, AnyIs
  <1>7. /\ chan[c].rseq \in Nat /\ chan[c].useq \in Nat /\ ch.rseq \in Nat /\ ch.useq \in Nat
        /\ chan[c].rseq <= ch.rseq /\ (chan[c].rseq = ch.rseq => chan[c].useq <= ch.useq)
    BY DEF Adds, Counting
  <1>8. \A i \in 1 .. d + m : IsAny(E[i], L, n) /\ Complete(E[i])
    BY <1>4, <1>5, <1>6
  <1>9. ASSUME NEW i \in 1 .. d + m, Sequenced(E[i])
        PROVE  Behind(E[i], chan2[E[i].ch])
    <2>1. CASE i \in 1 .. d
      <3>1. E[i] = D[i] /\ Behind(D[i], chan[D[i].ch])
        BY <1>4, <1>5, <1>9, <2>1
      <3>2. CASE D[i].ch = c
        <4>1. Behind(D[i], chan[c]) /\ chan2[D[i].ch] = ch /\ D[i].seq \in Nat /\ D[i].useq \in Nat
          BY <1>5, <2>1, <3>1, <3>2
        <4>2. Behind(D[i], ch)
          BY <1>7, <4>1 DEF Behind
        <4> QED
          BY <3>1, <4>1, <4>2
      <3>3. CASE D[i].ch # c
        <4>1. chan2[D[i].ch] = chan[D[i].ch]
          BY <1>5, <2>1, <3>3
        <4> QED
          BY <3>1, <4>1
      <3> QED
        BY <3>2, <3>3
    <2>2. ASSUME NEW k \in 1 .. m, E[i] = M[k]
          PROVE  Behind(E[i], chan2[E[i].ch])
      BY <1>6, <1>9, <2>2
    <2> QED
      BY <1>4, <2>1, <2>2
  <1>10. ASSUME NEW i \in 1 .. d + m, NEW j \in 1 .. d + m, i < j,
                Sequenced(E[i]), Sequenced(E[j]), E[i].ch = E[j].ch
         PROVE  Earlier(E[i], E[j])
    <2>1. CASE j \in 1 .. d
      <3>1. i \in 1 .. d
        BY <1>10, <2>1
      <3> QED
        BY <1>2, <1>4, <1>10, <2>1, <3>1 DEF Delivered
    <2>2. ASSUME NEW k \in 1 .. m, j = d + k, E[j] = M[k]
          PROVE  Earlier(E[i], E[j])
      <3>1. ~Behind(M[k], chan[c]) /\ M[k].ch = c /\ M[k].seq \in Nat /\ M[k].useq \in Nat
        BY <1>6, <1>10, <2>2
      <3>2. CASE i \in 1 .. d
        <4>1. Behind(D[i], chan[c]) /\ E[i] = D[i] /\ D[i].seq \in Nat /\ D[i].useq \in Nat
          BY <1>4, <1>5, <1>10, <2>2, <3>1, <3>2
        <4> QED
          BY <1>7, <2>2, <3>1, <4>1 DEF Behind, Earlier
      <3>3. ASSUME NEW h \in 1 .. m, i = d + h, E[i] = M[h]
            PROVE  Earlier(E[i], E[j])
        <4>1. h < k
          BY <1>10, <2>2, <3>3
        <4>2. \A a, b \in 1 .. m : a < b /\ Sequenced(M[a]) /\ Sequenced(M[b]) => Earlier(M[a], M[b])
          BY <1>3 DEF Adds, Ordered
        <4> QED
          BY <1>10, <2>2, <3>3, <4>1, <4>2
      <3> QED
        BY <1>4, <3>2, <3>3
    <2> QED
      BY <1>4, <2>1, <2>2
  <1>11. ASSUME NEW p \in 1 .. Len(L), L[p].kind \in Reliables, n[p].seq <= chan2[L[p].ch].rseq
         PROVE  \E i \in 1 .. d + m : IsOf(E[i], L, n, p)
    <2>1. L[p].ch \in Channels /\ n[p].seq \in Nat
      BY PacketFacts
    <2>2. CASE n[p].seq <= chan[L[p].ch].rseq
      <3>1. PICK i \in 1 .. d : IsOf(D[i], L, n, p)
        BY <1>2, <1>11, <2>2 DEF Delivered
      <3>2. i \in 1 .. d + m
        BY <1>2, <1>3
      <3> QED
        BY <1>4, <3>1, <3>2
    <2>3. CASE ~(n[p].seq <= chan[L[p].ch].rseq)
      <3>1. L[p].ch = c
        BY <1>11, <2>1, <2>3
      <3>2. n[p].seq > chan[c].rseq /\ n[p].seq <= ch.rseq
        BY <1>7, <1>11, <2>1, <2>3, <3>1
      <3>3. PICK k \in 1 .. m : IsOf(M[k], L, n, p)
        BY <1>3, <1>11, <3>1, <3>2 DEF Adds
      <3> QED
        BY <1>4, <3>3
    <2> QED
      BY <2>2, <2>3
  <1> QED
    BY <1>1, <1>4, <1>8, <1>9, <1>10, <1>11 DEF Delivered

--------------------------------------------------------------------------------
(* The receiver: a scan of the unreliable list of a channel. *)

MayRun(L, n, ch, c) ==
  /\ ch.rel \in Seq(Held) /\ Ordered(ch.rel)
  /\ \A i \in 1 .. Len(ch.rel) :
       /\ IsAny(ch.rel[i], L, n) /\ ch.rel[i].ch = c /\ IsReliable(ch.rel[i])
       /\ ch.rel[i].seq > ch.rseq /\ Near(ch.rseq, ch.rel[i].seq)

\* The reliable number is that of the last command of a packet.
Ended(L, n, R, c) ==
  \/ R = 0
  \/ \E p \in 1 .. Len(L) : L[p].ch = c /\ L[p].kind \in Reliables /\ LastOf(L, n, p) = R

Lists(L, n, ch, c) ==
  /\ ch \in ChanRec /\ Counting(ch) /\ Ended(L, n, ch.rseq, c)
  /\ MayRun(L, n, ch, c) /\ MayScan(L, n, ch, c)

\* The receiver, where the channels of X have yet to be scanned.
Good(L, n, p, G, X) ==
  /\ p \in Receiver /\ G \in Seq(Held)
  /\ \A c \in Channels : Lists(L, n, p.chan[c], c)
  /\ \A c \in Channels \ X : Scanned(p.chan[c])
  /\ Delivered(L, n, p.chan, G \o p.dispatched)

\* Nothing differs but channel c, what is dispatched and the count of what waits.
SameBut(r, p, c) ==
  /\ r.group = p.group /\ r.seen = p.seen
  /\ \A d \in Channels \ {c} : r.chan[d] = p.chan[d]

PickedBy(r, q, S, f) ==
  /\ Enumerates(f, S) /\ Len(r) = Len(f)
  /\ \A k \in 1 .. Len(f) : r[k] = q[f[k]] /\ f[k] \in S /\ f[k] \in 1 .. Len(q)

LEMMA PickedIs ==
  ASSUME NEW q \in Seq(Held), NEW S, S \subseteq 1 .. Len(q)
  PROVE  Pick(q, S) \in Seq(Held) /\ \E f : PickedBy(Pick(q, S), q, S, f)
  <1>1. PICK l \in Nat : l = Len(q)
    OBVIOUS
  <1>2. S \subseteq Nat /\ IsFiniteSet(S)
    <2>1. 1 \in Int /\ l \in Int
      OBVIOUS
    <2>2. IsFiniteSet(1 .. l)
      BY <2>1, FS_Interval
    <2>3. S \in SUBSET (1 .. l)
      BY <1>1
    <2>4. IsFiniteSet(S)
      BY <2>2, <2>3, FS_Subset
    <2> QED
      BY <2>3, <2>4
  <1>3. PICK r : r = Pick(q, S)
    OBVIOUS
  <1>4. PICK f : Enumerates(f, S) /\ r = [k \in 1 .. Len(f) |-> q[f[k]]]
    <2>1. ListsAt(Pick(q, S), q, S)
      BY <1>2, PickLists
    <2> QED
      BY <1>3, <2>1 DEF ListsAt
  <1>5. PICK m \in Nat : m = Len(f)
    BY <1>4 DEF Enumerates
  <1>6. \A k \in 1 .. m : f[k] \in S /\ f[k] \in 1 .. l
    BY <1>1, <1>4, <1>5 DEF Enumerates
  <1>7. \A k \in 1 .. m : r[k] = q[f[k]] /\ q[f[k]] \in Held
    BY <1>1, <1>4, <1>5, <1>6
  <1>8. r \in Seq(Held) /\ Len(r) = m
    BY <1>4, <1>5, <1>7
  <1>9. PickedBy(r, q, S, f)
    BY <1>1, <1>4, <1>5, <1>6, <1>7, <1>8 DEF PickedBy
  <1> QED
    BY <1>3, <1>8, <1>9

DispatchedAs(r, p, c, M, K, u) ==
  /\ r \in Receiver /\ SameBut(r, p, c) /\ r.waiting = p.waiting /\ r.dispatched = p.dispatched \o M
  /\ r.chan[c].rseq = p.chan[c].rseq /\ r.chan[c].rel = p.chan[c].rel
  /\ r.chan[c].unrel = K /\ r.chan[c].useq = u

LEMMA DispatchIs ==
  ASSUME NEW p \in Receiver, NEW c \in Channels, NEW A, NEW B,
         NEW M \in Seq(Held), M = Pick(p.chan[c].unrel, A),
         NEW K \in Seq(Held), K = Pick(p.chan[c].unrel, B),
         NEW u \in Nat, u = NumberAfter(p.chan[c].unrel, p.chan[c].useq, A)
  PROVE  DispatchedAs(Dispatch(p, c, A, B), p, c, M, K, u)
  <1>1. p.chan \in [Channels -> ChanRec] /\ p.chan[c] \in ChanRec /\ p.dispatched \in Seq(Held)
    BY DEF Receiver
  <1>2. PICK r : r = Dispatch(p, c, A, B)
    OBVIOUS
  <1>5. PICK ch : ch = [p.chan[c] EXCEPT !.unrel = K, !.useq = u]
    OBVIOUS
  <1>6. /\ ch \in ChanRec /\ ch.unrel = K /\ ch.useq = u
        /\ ch.rseq = p.chan[c].rseq /\ ch.rel = p.chan[c].rel
    BY <1>1, <1>5 DEF ChanRec
  <1>7. PICK h : h = [p.chan EXCEPT ![c] = ch]
    OBVIOUS
  <1>8. h \in [Channels -> ChanRec] /\ h[c] = ch /\ \A d \in Channels \ {c} : h[d] = p.chan[d]
    BY <1>1, <1>6, <1>7
  <1>9. p.dispatched \o M \in Seq(Held)
    BY <1>1, ConcatProperties
  <1>10. r = [p EXCEPT !.dispatched = p.dispatched \o M, !.chan = h]
    BY <1>1, <1>2, <1>5, <1>7 DEF Dispatch, Receiver, ChanRec
  <1>11. /\ r \in Receiver /\ r.dispatched = p.dispatched \o M /\ r.chan = h
         /\ r.waiting = p.waiting /\ r.group = p.group /\ r.seen = p.seen
    BY <1>8, <1>9, <1>10 DEF Receiver
  <1> QED
    BY <1>2, <1>6, <1>8, <1>11 DEF SameBut, DispatchedAs

\* Concatenation, as the receiver uses it.
LEMMA JoinedAgain ==
  ASSUME NEW G \in Seq(Held), NEW D \in Seq(Held), NEW M \in Seq(Held)
  PROVE  G \o (D \o M) = (G \o D) \o M /\ G \o D \in Seq(Held)
  BY ConcatAssociative, ConcatProperties

LEMMA ExtendsIs ==
  ASSUME NEW D \in Seq(Held), NEW M \in Seq(Held), NEW e,
         \A k \in 1 .. Len(M) : ~Sequenced(M[k]) => M[k] = e,
         \A k, h \in 1 .. Len(M) : ~Sequenced(M[k]) /\ ~Sequenced(M[h]) => k = h
  PROVE  Extends(D, D \o M, e)
  <1>1. PICK E : E = D \o M
    OBVIOUS
  <1>2. E \in Seq(Held) /\ Joins(E, D, M)
    BY <1>1, JoinIs
  <1>3. PICK d \in Nat : d = Len(D)
    OBVIOUS
  <1>4. PICK m \in Nat : m = Len(M)
    OBVIOUS
  <1>5. Len(E) = d + m /\ d <= Len(E) /\ Grown(D, E)
    BY <1>2, <1>3, <1>4 DEF Joins, Grown
  <1>6. ASSUME NEW i \in d + 1 .. d + m
        PROVE  \E k \in 1 .. m : i = d + k /\ E[i] = M[k]
    <2>1. i \in 1 .. d + m /\ i \notin 1 .. d
      OBVIOUS
    <2> QED
      BY <1>2, <1>3, <1>4, <1>5, <2>1 DEF Joins
  <1>7. \A i \in d + 1 .. d + m : ~Sequenced(E[i]) => E[i] = e
    BY <1>4, <1>6
  <1>8. ASSUME NEW i \in d + 1 .. d + m, NEW j \in d + 1 .. d + m, ~Sequenced(E[i]), ~Sequenced(E[j])
        PROVE  i = j
    <2>1. PICK k \in 1 .. m : i = d + k /\ E[i] = M[k]
      BY <1>6
    <2>2. PICK h \in 1 .. m : j = d + h /\ E[j] = M[h]
      BY <1>6
    <2> QED
      BY <1>4, <1>8, <2>1, <2>2
  <1> QED
    BY <1>1, <1>3, <1>5, <1>7, <1>8 DEF Extends

\* A step of the receiver on channel c, after which the channels of X have yet to be scanned.
Steps(L, n, p, r, G, X, c, e) ==
  Good(L, n, r, G, X) /\ SameBut(r, p, c) /\ Extends(G \o p.dispatched, G \o r.dispatched, e)

LEMMA ScanKeeps ==
  ASSUME NEW L, NEW n, Known(L, n), NEW p, NEW G, NEW c \in Channels, Good(L, n, p, G, {c}),
         NEW e, \A i \in 1 .. Len(p.chan[c].unrel) : ~Sequenced(p.chan[c].unrel[i]) => p.chan[c].unrel[i] = e,
         NEW r, r = DispatchUnreliable(p, c)
  PROVE  /\ Steps(L, n, p, r, G, {}, c, e)
         /\ r.chan[c].rseq = p.chan[c].rseq /\ r.chan[c].rel = p.chan[c].rel
  <1>1. PICK ch : ch = p.chan[c]
    OBVIOUS
  <1>2. /\ p \in Receiver /\ G \in Seq(Held) /\ ch \in ChanRec /\ Counting(ch)
        /\ Ended(L, n, ch.rseq, c) /\ MayRun(L, n, ch, c) /\ MayScan(L, n, ch, c)
        /\ Delivered(L, n, p.chan, G \o p.dispatched)
    BY <1>1 DEF Good, Lists
  <1>3. PICK q \in Seq(Held) : q = ch.unrel
    BY <1>2 DEF MayScan
  <1>4. PICK l \in Nat : l = Len(q)
    OBVIOUS
  <1>5. PICK fate : fate = Fates(ch)
    OBVIOUS
  <1>6. PICK stop : stop = Stop(fate)
    OBVIOUS
  <1>7. PICK A : A = Moved(fate, stop)
    OBVIOUS
  <1>8. PICK B : B = Kept(fate, stop)
    OBVIOUS
  <1>9. PICK u : u = NumberAfter(q, ch.useq, A)
    OBVIOUS
  <1>10. /\ A \subseteq 1 .. l /\ B \subseteq 1 .. l /\ u \in Nat /\ u >= ch.useq
         /\ \A i \in A : Complete(q[i]) /\ (Sequenced(q[i]) => q[i].seq = ch.rseq /\ q[i].useq <= u)
         /\ \A i \in B : /\ Sequenced(q[i]) /\ q[i].seq >= ch.rseq
                         /\ q[i].seq = ch.rseq => ~Complete(q[i]) /\ q[i].useq > u
         /\ u = ch.useq \/ \E i \in A : Sequenced(q[i]) /\ u = q[i].useq
    BY <1>2, <1>3, <1>4, <1>5, <1>6, <1>7, <1>8, <1>9, ScanIs
  <1>11. PICK M \in Seq(Held) : M = Pick(q, A)
    BY <1>4, <1>10, PickedIs
  <1>12. PICK K \in Seq(Held) : K = Pick(q, B)
    BY <1>4, <1>10, PickedIs
  <1>13. PICK f : /\ Enumerates(f, A) /\ Len(M) = Len(f)
                  /\ \A k \in 1 .. Len(f) : M[k] = q[f[k]] /\ f[k] \in A /\ f[k] \in 1 .. l
    <2>1. \E f : PickedBy(M, q, A, f)
      BY <1>4, <1>10, <1>11, PickedIs
    <2> QED
      BY <1>4, <2>1 DEF PickedBy
  <1>14. PICK g : /\ Enumerates(g, B) /\ Len(K) = Len(g)
                  /\ \A k \in 1 .. Len(g) : K[k] = q[g[k]] /\ g[k] \in B /\ g[k] \in 1 .. l
    <2>1. \E h : PickedBy(K, q, B, h)
      BY <1>4, <1>10, <1>12, PickedIs
    <2> QED
      BY <1>4, <2>1 DEF PickedBy
  <1>15. r = Dispatch(p, c, A, B)
    BY <1>1, <1>5, <1>6, <1>7, <1>8 DEF DispatchUnreliable, DispatchFates, DispatchUpTo
  <1>16. /\ r \in Receiver /\ SameBut(r, p, c) /\ r.dispatched = p.dispatched \o M
         /\ r.chan[c].rseq = ch.rseq /\ r.chan[c].rel = ch.rel /\ r.chan[c].unrel = K
         /\ r.chan[c].useq = u
    <2>1. /\ Pick(p.chan[c].unrel, A) = M /\ Pick(p.chan[c].unrel, B) = K
          /\ NumberAfter(p.chan[c].unrel, p.chan[c].useq, A) = u
      BY <1>1, <1>3, <1>9, <1>11, <1>12
    <2>2. DispatchedAs(r, p, c, M, K, u)
      BY <1>2, <1>10, <1>15, <2>1, DispatchIs
    <2> QED
      BY <1>1, <2>2 DEF DispatchedAs
  <1>17. PICK ch2 : ch2 = r.chan[c]
    OBVIOUS
  <1>18. ch2 \in ChanRec /\ Counting(ch2)
    <2>1. ch2 \in ChanRec
      BY <1>16, <1>17 DEF Receiver
    <2>2. \A i \in 1 .. l : IsAny(q[i], L, n) /\ ~IsReliable(q[i])
      BY <1>2, <1>3, <1>4 DEF MayScan
    <2>3. u <= MaxUnreliable
      <3>1. CASE u = ch.useq
        BY <1>2, <3>1 DEF Counting
      <3>2. CASE u # ch.useq
        <4>1. PICK i \in A : Sequenced(q[i]) /\ u = q[i].useq
          BY <1>10, <3>2
        <4>2. q[i].useq \in 1 .. MaxUnreliable
          BY <1>10, <2>2, <4>1, AnyIs
        <4> QED
          BY <4>1, <4>2, Constants
      <3> QED
        BY <3>1, <3>2
    <2> QED
      BY <1>2, <1>10, <1>16, <1>17, <2>1, <2>3 DEF Counting
  <1>19. /\ \A i \in 1 .. l : /\ IsAny(q[i], L, n) /\ q[i].ch = c /\ ~IsReliable(q[i])
                              /\ Near(ch.rseq, q[i].seq)
                              /\ ~Sequenced(q[i]) => i = 1
                              /\ Sequenced(q[i]) /\ q[i].seq = ch.rseq => q[i].useq > ch.useq
         /\ \A i, j \in 1 .. l : i < j /\ Sequenced(q[i]) /\ Sequenced(q[j]) => Earlier(q[i], q[j])
    BY <1>2, <1>3, <1>4 DEF MayScan, Ordered
  <1>20. Lists(L, n, ch2, c) /\ Scanned(ch2)
    <2>1. \A k \in 1 .. Len(K) : /\ IsAny(K[k], L, n) /\ K[k].ch = c /\ ~IsReliable(K[k])
                                 /\ Near(ch.rseq, K[k].seq)
                                 /\ Sequenced(K[k]) /\ K[k].seq >= ch.rseq
                                 /\ K[k].seq = ch.rseq => ~Complete(K[k]) /\ K[k].useq > u
      BY <1>10, <1>14, <1>19
    <2>2. \A k, h \in 1 .. Len(K) : k < h => Earlier(K[k], K[h])
      <3>1. TAKE k, h \in 1 .. Len(K)
      <3>2. HAVE k < h
      <3>3. g[k] < g[h] /\ g[k] \in 1 .. l /\ g[h] \in 1 .. l /\ K[k] = q[g[k]] /\ K[h] = q[g[h]]
        BY <1>14, <3>2 DEF Enumerates
      <3> QED
        BY <1>19, <2>1, <3>3
    <2>3. MayScan(L, n, ch2, c)
      BY <1>16, <1>17, <2>1, <2>2 DEF MayScan, Ordered
    <2>4. MayRun(L, n, ch2, c) /\ Ended(L, n, ch2.rseq, c)
      BY <1>2, <1>16, <1>17 DEF MayRun
    <2>5. Scanned(ch2)
      BY <1>16, <1>17, <2>1 DEF Scanned
    <2> QED
      BY <1>18, <2>3, <2>4, <2>5 DEF Lists
  <1>21. \A d \in Channels : Lists(L, n, r.chan[d], d) /\ Scanned(r.chan[d])
    <2>1. TAKE d \in Channels
    <2>2. CASE d = c
      BY <1>17, <1>20, <2>2
    <2>3. CASE d # c
      BY <1>16, <2>3 DEF Good, SameBut
    <2> QED
      BY <2>2, <2>3
  <1>22. \A k \in 1 .. Len(M) : /\ IsAny(M[k], L, n) /\ Complete(M[k]) /\ M[k].ch = c
                                /\ ~Sequenced(M[k]) => M[k] = e
                                /\ Sequenced(M[k]) => /\ M[k].seq = ch.rseq /\ M[k].useq > ch.useq
                                                      /\ M[k].useq <= u
    BY <1>1, <1>3, <1>4, <1>10, <1>13, <1>19
  <1>23. Adds(L, n, p.chan, c, ch2, M)
    <2>1. \A k, h \in 1 .. Len(M) : k < h /\ Sequenced(M[k]) /\ Sequenced(M[h]) => Earlier(M[k], M[h])
      <3>1. TAKE k, h \in 1 .. Len(M)
      <3>2. HAVE k < h /\ Sequenced(M[k]) /\ Sequenced(M[h])
      <3>3. f[k] < f[h] /\ f[k] \in 1 .. l /\ f[h] \in 1 .. l /\ M[k] = q[f[k]] /\ M[h] = q[f[h]]
        BY <1>13, <3>2 DEF Enumerates
      <3> QED
        BY <1>19, <3>2, <3>3
    <2>2. ASSUME NEW k \in 1 .. Len(M), Sequenced(M[k])
          PROVE  ~Behind(M[k], ch) /\ Behind(M[k], ch2)
      <3>1. M[k].seq = ch.rseq /\ M[k].useq > ch.useq /\ M[k].useq <= u
        BY <1>22, <2>2
      <3>2. M[k].seq \in Nat /\ M[k].useq \in Nat
        BY <1>22, AnyIs
      <3>3. ch.rseq \in Nat /\ ch.useq \in Nat /\ ch2.rseq = ch.rseq /\ ch2.useq = u
        BY <1>2, <1>16, <1>17 DEF Counting
      <3>4. ~Behind(M[k], ch)
        BY <3>1, <3>2, <3>3 DEF Behind
      <3>5. Behind(M[k], ch2)
        BY <3>1, <3>3 DEF Behind
      <3> QED
        BY <3>4, <3>5
    <2>3. ch.rseq \in Nat /\ ch2.rseq = ch.rseq /\ ch2.useq = u
      BY <1>2, <1>16, <1>17 DEF Counting
    <2>4. ASSUME NEW x \in 1 .. Len(L), n[x].seq > ch.rseq, n[x].seq <= ch2.rseq
          PROVE  FALSE
      <3>1. n[x].seq \in Nat
        BY PacketFacts
      <3> QED
        BY <2>3, <2>4, <3>1
    <2> QED
      BY <1>1, <1>2, <1>10, <1>18, <1>22, <2>1, <2>2, <2>3, <2>4 DEF Adds, Ordered
  <1>24. Delivered(L, n, r.chan, (G \o p.dispatched) \o M)
    <2>1. \A d \in Channels \ {c} : r.chan[d] = p.chan[d]
      BY <1>16 DEF SameBut
    <2> QED
      BY <1>2, <1>17, <1>23, <2>1, DeliveredMore
  <1>25. /\ p.dispatched \in Seq(Held) /\ G \o p.dispatched \in Seq(Held)
         /\ G \o r.dispatched = (G \o p.dispatched) \o M
    <2>1. p.dispatched \in Seq(Held)
      BY <1>2 DEF Receiver
    <2>2. PICK D \in Seq(Held) : D = p.dispatched
      BY <2>1
    <2>3. G \in Seq(Held)
      BY <1>2
    <2>4. G \o (D \o M) = (G \o D) \o M /\ G \o D \in Seq(Held)
      BY <2>3, JoinedAgain
    <2> QED
      BY <1>16, <2>2, <2>4
  <1>26. Extends(G \o p.dispatched, (G \o p.dispatched) \o M, e)
    <2>1. ASSUME NEW k \in 1 .. Len(M), NEW h \in 1 .. Len(M), ~Sequenced(M[k]), ~Sequenced(M[h])
          PROVE  k = h
      <3>1. f[k] = 1 /\ f[h] = 1
        BY <1>13, <1>19, <2>1
      <3>2. ~(k < h) /\ ~(h < k)
        <4>1. \A a, b \in 1 .. Len(M) : a < b => f[a] < f[b]
          BY <1>13 DEF Enumerates
        <4>2. ~(1 < 1)
          OBVIOUS
        <4> QED
          BY <3>1, <4>1, <4>2
      <3> QED
        BY <3>2
    <2> QED
      BY <1>22, <1>25, <2>1, ExtendsIs
  <1>27. Good(L, n, r, G, {})
    BY <1>2, <1>16, <1>21, <1>24, <1>25 DEF Good
  <1> QED
    BY <1>1, <1>16, <1>25, <1>26, <1>27 DEF Steps

--------------------------------------------------------------------------------
(* The receiver: the reliable commands that follow each other. *)

LEMMA NearGrows ==
  ASSUME NEW R \in Nat, NEW R2 \in Nat, R <= R2, NEW s \in Nat, Near(R, s)
  PROVE  Near(R2, s)
  <1>1. WindowSize \in Nat \ {0} /\ FreeWindows \in Nat
    BY Constants
  <1>2. R \div WindowSize <= R2 \div WindowSize
    BY <1>1, QuotientGrows
  <1>3. R \div WindowSize \in Nat /\ R2 \div WindowSize \in Nat /\ s \div WindowSize \in Nat
    BY <1>1, Quotient
  <1> QED
    BY <1>1, <1>2, <1>3 DEF Near

\* No packet of a channel has its first number among those of a reliable packet.
LEMMA NoneBetween ==
  ASSUME NEW L, NEW n, Known(L, n), NEW p \in 1 .. Len(L), NEW x \in 1 .. Len(L),
         L[p].kind \in Reliables, L[x].kind \in Reliables, L[p].ch = L[x].ch,
         n[p].seq <= n[x].seq, n[x].seq <= LastOf(L, n, p)
  PROVE  x = p
  <1>1. /\ n[p].seq \in Nat /\ n[x].seq \in Nat /\ LastOf(L, n, p) \in Nat /\ LastOf(L, n, x) \in Nat
        /\ n[x].seq <= LastOf(L, n, x)
    BY PacketFacts
  <1>2. L[p].kind # "unsequenced" /\ L[x].kind # "unsequenced"
    BY DEF Reliables
  <1>3. ASSUME x < p
        PROVE  FALSE
    <2>1. LastOf(L, n, x) < n[p].seq
      BY <1>2, <1>3 DEF Known, InTurn
    <2>2. PICK a \in Nat : a = n[p].seq
      BY <1>1
    <2>3. PICK b \in Nat : b = n[x].seq /\ a <= b
      BY <1>1, <2>2
    <2>4. PICK z \in Nat : z = LastOf(L, n, x) /\ b <= z
      BY <1>1, <2>3
    <2>5. z < a
      BY <2>1, <2>2, <2>4
    <2>6. a <= b /\ b <= z
      BY <2>3, <2>4
    <2> QED
      BY <2>5, <2>6
  <1>4. ASSUME p < x
        PROVE  FALSE
    <2>1. LastOf(L, n, p) < n[x].seq
      BY <1>2, <1>4 DEF Known, InTurn
    <2> QED
      BY <1>1, <2>1
  <1> QED
    BY <1>3, <1>4

RunIs(L, n, ch, c, k, R) ==
  /\ R \in Nat /\ R < Limit /\ ch.rseq < R /\ Ended(L, n, R, c)
  /\ \A i \in 1 .. k : Complete(ch.rel[i]) /\ ch.rel[i].seq <= R
  /\ \A i \in k + 1 .. Len(ch.rel) : ch.rel[i].seq > R /\ Near(R, ch.rel[i].seq)
  /\ \A p \in 1 .. Len(L) :
       L[p].kind \in Reliables /\ L[p].ch = c /\ n[p].seq > ch.rseq /\ n[p].seq <= R
       => \E i \in 1 .. k : IsOf(ch.rel[i], L, n, p)

LEMMA FollowersAre ==
  ASSUME NEW L, NEW n, Known(L, n), NEW ch, NEW c, Lists(L, n, ch, c),
         NEW k \in 1 .. Len(ch.rel), \A i \in 1 .. k : Follows(ch, i)
  PROVE  RunIs(L, n, ch, c, k, LastNumber(ch.rel[k]))
  <1>1. PICK q \in Seq(Held) : q = ch.rel
    BY DEF Lists, MayRun
  <1>2. PICK l \in Nat : l = Len(q)
    OBVIOUS
  <1>3. PICK R : R = ch.rseq
    OBVIOUS
  <1>4. R \in Nat /\ R < Limit /\ Limit \in Nat /\ Numbers \in Nat /\ Limit <= Numbers
    BY <1>3, Constants DEF Lists, Counting
  <1>5. k \in 1 .. l /\ k \in Nat
    BY <1>1, <1>2
  <1>6. ASSUME NEW i \in 1 .. l
        PROVE  /\ IsAny(q[i], L, n) /\ q[i].ch = c /\ IsReliable(q[i]) /\ Sequenced(q[i])
               /\ q[i].seq \in Nat /\ q[i].useq = 0 /\ q[i].seq > R /\ Near(R, q[i].seq)
    <2>1. /\ IsAny(q[i], L, n) /\ q[i].ch = c /\ IsReliable(q[i])
          /\ q[i].seq > R /\ Near(R, q[i].seq)
      BY <1>1, <1>2, <1>3 DEF Lists, MayRun
    <2> QED
      BY <2>1, AnyIs
  <1>7. ASSUME NEW i \in 1 .. l
        PROVE  \E p \in 1 .. Len(L) :
                 /\ IsOf(q[i], L, n, p) /\ L[p].kind \in Reliables /\ L[p].ch = c
                 /\ n[p].seq = q[i].seq /\ LastNumber(q[i]) = LastOf(L, n, p)
                 /\ LastOf(L, n, p) \in Nat /\ q[i].seq <= LastOf(L, n, p) /\ LastOf(L, n, p) < Limit
    <2>1. PICK p : IsOf(q[i], L, n, p)
      BY <1>6 DEF IsAny
    <2>2. p \in 1 .. Len(L) /\ EntryFacts(q[i], L, n, p)
      BY <2>1, EntryIs DEF IsOf
    <2>3. LastOf(L, n, p) \in Nat /\ n[p].seq <= LastOf(L, n, p) /\ LastOf(L, n, p) < Limit
      BY <2>2, PacketFacts
    <2> QED
      BY <1>6, <2>1, <2>2, <2>3 DEF EntryFacts
  <1>8. \A i \in 1 .. l : /\ LastNumber(q[i]) \in Nat /\ q[i].seq <= LastNumber(q[i])
                          /\ LastNumber(q[i]) < Limit
    BY <1>7
  <1>9. \A i, j \in 1 .. l : i < j => q[i].seq < q[j].seq /\ LastNumber(q[i]) < q[j].seq
    <2>1. TAKE i, j \in 1 .. l
    <2>2. HAVE i < j
    <2>3. Earlier(q[i], q[j])
      BY <1>1, <1>2, <1>6, <2>2 DEF Lists, MayRun, Ordered
    <2>4. PICK p \in 1 .. Len(L) : IsOf(q[i], L, n, p) /\ LastNumber(q[i]) = LastOf(L, n, p)
      BY <1>7
    <2>5. PICK x \in 1 .. Len(L) : IsOf(q[j], L, n, x)
      BY <1>7
    <2>6. /\ Earlier(q[i], q[j]) => p < x
          /\ p < x => (IsReliable(q[j]) => LastOf(L, n, p) < q[j].seq)
      <3>1. q[i].ch = q[j].ch /\ q[i].kind # "unsequenced" /\ q[j].kind # "unsequenced"
        BY <1>6 DEF Sequenced
      <3> QED
        BY <2>4, <2>5, <3>1, OrderIs
    <2>7. q[i].seq < q[j].seq
      <3>1. q[i].useq = 0 /\ q[j].useq = 0
        BY <1>6
      <3>2. ~(q[i].useq < q[j].useq)
        BY <3>1
      <3> QED
        BY <2>3, <3>2 DEF Earlier
    <2> QED
      BY <1>6, <2>3, <2>4, <2>6, <2>7
  <1>10. ASSUME NEW i \in 1 .. k
         PROVE  Complete(q[i]) /\ q[i].seq = (IF i = 1 THEN R ELSE LastNumber(q[i - 1])) + 1
    <2>1. i \in 1 .. l /\ (i # 1 => i - 1 \in 1 .. l)
      BY <1>5
    <2>2. PICK v : v = IF i = 1 THEN R ELSE LastNumber(q[i - 1])
      OBVIOUS
    <2>3. v \in Nat /\ v < Limit
      BY <1>4, <1>8, <2>1, <2>2
    <2>4. Complete(q[i]) /\ q[i].seq = (v + 1) % Numbers
      BY <1>1, <1>3, <2>2 DEF Follows, Prev
    <2>5. q[i].seq \in Nat /\ q[i].seq # 0
      BY <1>4, <1>6, <2>1
    <2>6. CASE v + 1 < Numbers
      <3>1. (v + 1) % Numbers = v + 1
        BY <1>4, <2>3, <2>6
      <3> QED
        BY <2>2, <2>4, <3>1
    <2>7. CASE ~(v + 1 < Numbers)
      <3>1. v + 1 = Numbers
        BY <1>4, <2>3, <2>7
      <3>2. (v + 1) % Numbers = 0
        BY <1>4, <2>3, <3>1
      <3> QED
        BY <2>4, <2>5, <3>2
    <2> QED
      BY <2>6, <2>7
  <1>11. PICK S : S = LastNumber(q[k])
    OBVIOUS
  <1>12. S \in Nat /\ S < Limit /\ R < S /\ Ended(L, n, S, c)
    <2>1. PICK p \in 1 .. Len(L) : L[p].kind \in Reliables /\ L[p].ch = c /\ LastNumber(q[k]) = LastOf(L, n, p)
      BY <1>5, <1>7
    <2>2. q[k].seq > R /\ q[k].seq \in Nat
      BY <1>5, <1>6
    <2>3. S \in Nat /\ S < Limit /\ q[k].seq <= S
      BY <1>5, <1>8, <1>11
    <2>4. R < S
      BY <1>4, <2>2, <2>3
    <2>5. Ended(L, n, S, c)
      BY <1>11, <2>1 DEF Ended
    <2> QED
      BY <2>3, <2>4, <2>5
  <1>13. ASSUME NEW i \in 1 .. k
         PROVE  Complete(q[i]) /\ q[i].seq <= S
    <2>1. i \in 1 .. l /\ (i = k \/ i < k)
      BY <1>5
    <2>2. q[i].seq \in Nat /\ q[k].seq \in Nat /\ q[i].seq <= q[k].seq
      BY <1>5, <1>6, <1>9, <2>1
    <2> QED
      BY <1>5, <1>8, <1>10, <1>11, <1>12, <2>2
  <1>14. ASSUME NEW i \in k + 1 .. l
         PROVE  q[i].seq > S /\ Near(S, q[i].seq)
    <2>1. i \in 1 .. l /\ k < i
      BY <1>5
    <2>2. q[i].seq \in Nat /\ Near(R, q[i].seq) /\ S < q[i].seq
      BY <1>5, <1>6, <1>9, <1>11, <2>1
    <2> QED
      BY <1>4, <1>12, <2>2, NearGrows
  <1>15. ASSUME NEW x \in 1 .. Len(L), L[x].kind \in Reliables, L[x].ch = c, n[x].seq > R, n[x].seq <= S
         PROVE  \E i \in 1 .. k : IsOf(q[i], L, n, x)
    <2>1. n[x].seq \in Nat
      BY PacketFacts
    <2>2. PICK W : W = {i \in 1 .. k : n[x].seq <= LastNumber(q[i])}
      OBVIOUS
    <2>3. k \in W /\ W \subseteq Nat
      BY <1>5, <1>11, <1>15, <2>2
    <2>4. PICK i \in W : \A j \in W : i <= j
      BY <2>3, LeastExists
    <2>5. i \in 1 .. k /\ i \in 1 .. l /\ n[x].seq <= LastNumber(q[i])
      BY <1>5, <2>2
    <2>6. q[i].seq <= n[x].seq
      <3>1. CASE i = 1
        <4>1. q[i].seq = R + 1
          BY <1>10, <2>5, <3>1
        <4> QED
          BY <1>4, <1>15, <2>1, <4>1
      <3>2. CASE i # 1
        <4>1. i - 1 \in 1 .. k /\ i - 1 \in 1 .. l /\ ~(i <= i - 1)
          BY <1>5, <2>5, <3>2
        <4>2. ~(n[x].seq <= LastNumber(q[i - 1]))
          BY <2>2, <2>4, <4>1
        <4>3. q[i].seq = LastNumber(q[i - 1]) + 1 /\ LastNumber(q[i - 1]) \in Nat
          BY <1>8, <1>10, <2>5, <3>2, <4>1
        <4>4. PICK v \in Nat : v = LastNumber(q[i - 1])
          BY <4>3
        <4>5. PICK a \in Nat : a = n[x].seq
          BY <2>1
        <4>6. ~(a <= v) /\ q[i].seq = v + 1
          BY <4>2, <4>3, <4>4, <4>5
        <4>7. v + 1 <= a
          BY <4>6
        <4> QED
          BY <4>5, <4>6, <4>7
      <3> QED
        BY <3>1, <3>2
    <2>7. PICK p \in 1 .. Len(L) : /\ IsOf(q[i], L, n, p) /\ L[p].kind \in Reliables /\ L[p].ch = c
                                   /\ n[p].seq = q[i].seq /\ LastNumber(q[i]) = LastOf(L, n, p)
      BY <1>7, <2>5
    <2>8. x = p
      BY <1>15, <2>5, <2>6, <2>7, NoneBetween
    <2> QED
      BY <2>5, <2>7, <2>8
  <1> QED
    BY <1>1, <1>2, <1>3, <1>11, <1>12, <1>13, <1>14, <1>15 DEF RunIs

LEMMA ExtendsTwice ==
  ASSUME NEW A, NEW B, NEW C, NEW e, Sequenced(e), Extends(A, B, e), Extends(B, C, e),
         Len(A) \in Nat, Len(B) \in Nat, Len(C) \in Nat
  PROVE  Extends(A, C, e)
  <1>1. PICK a \in Nat : a = Len(A)
    OBVIOUS
  <1>2. PICK b \in Nat : b = Len(B)
    OBVIOUS
  <1>3. PICK z \in Nat : z = Len(C)
    OBVIOUS
  <1>4. a <= b /\ b <= z /\ (\A i \in 1 .. a : B[i] = A[i]) /\ \A i \in 1 .. b : C[i] = B[i]
    BY <1>1, <1>2, <1>3 DEF Extends, Grown
  <1>5. ASSUME NEW i \in a + 1 .. z
        PROVE  Sequenced(C[i])
    <2>1. CASE i <= b
      <3>1. i \in a + 1 .. b /\ i \in 1 .. b
        BY <2>1
      <3>2. ~Sequenced(B[i]) => B[i] = e
        BY <1>1, <1>2, <3>1 DEF Extends
      <3> QED
        BY <1>4, <3>1, <3>2
    <2>2. CASE ~(i <= b)
      <3>1. i \in b + 1 .. z
        BY <2>2
      <3>2. ~Sequenced(C[i]) => C[i] = e
        BY <1>2, <1>3, <3>1 DEF Extends
      <3> QED
        BY <3>2
    <2> QED
      BY <2>1, <2>2
  <1>6. Grown(A, C)
    <2>1. a <= z
      BY <1>4
    <2>2. ASSUME NEW i \in 1 .. a
          PROVE  C[i] = A[i]
      <3>1. i \in 1 .. b
        BY <1>4
      <3> QED
        BY <1>4, <3>1
    <2> QED
      BY <1>1, <1>3, <2>1, <2>2 DEF Grown
  <1> QED
    BY <1>1, <1>3, <1>5, <1>6 DEF Extends

LEMMA ExtendsNot ==
  ASSUME NEW D, NEW e, Len(D) \in Nat
  PROVE  Extends(D, D, e)
  <1>1. PICK d \in Nat : d = Len(D)
    OBVIOUS
  <1>2. d + 1 .. d = {} /\ d <= d
    OBVIOUS
  <1> QED
    BY <1>1, <1>2 DEF Extends, Grown

\* A sequence is cut after k of its elements.
Cuts(a, b, q, k) ==
  /\ Len(a) = k /\ Len(b) = Len(q) - k
  /\ \A i \in 1 .. k : a[i] = q[i]
  /\ \A i \in 1 .. Len(q) - k : b[i] = q[k + i] /\ k + i \in k + 1 .. Len(q)

LEMMA CutIs ==
  ASSUME NEW T, NEW q \in Seq(T), NEW k \in 0 .. Len(q)
  PROVE  /\ SubSeq(q, 1, k) \in Seq(T) /\ SubSeq(q, k + 1, Len(q)) \in Seq(T)
         /\ Cuts(SubSeq(q, 1, k), SubSeq(q, k + 1, Len(q)), q, k)
  <1>1. PICK l \in Nat : l = Len(q)
    OBVIOUS
  <1>2. k \in Nat /\ k <= l
    BY <1>1
  <1>3. PICK a : a = SubSeq(q, 1, k)
    OBVIOUS
  <1>4. PICK b : b = SubSeq(q, k + 1, l)
    OBVIOUS
  <1>5. a \in Seq(T) /\ Len(a) = k /\ \A i \in 1 .. k : a[i] = q[i]
    BY <1>1, <1>2, <1>3
  <1>6. b \in Seq(T) /\ Len(b) = l - k /\ \A i \in 1 .. l - k : b[i] = q[k + i]
    BY <1>1, <1>2, <1>4
  <1>7. \A i \in 1 .. l - k : k + i \in k + 1 .. l
    BY <1>2
  <1> QED
    BY <1>1, <1>3, <1>4, <1>5, <1>6, <1>7 DEF Cuts

\* The first k commands of the reliable list are moved.
MovedRun(p, c, k) ==
  [p EXCEPT !.dispatched = @ \o SubSeq(p.chan[c].rel, 1, k),
            !.chan[c].rel = SubSeq(p.chan[c].rel, k + 1, Len(p.chan[c].rel)),
            !.chan[c].rseq = LastNumber(p.chan[c].rel[k]),
            !.chan[c].useq = 0]

MovedAs(r, p, c, k) ==
  /\ r \in Receiver /\ SameBut(r, p, c) /\ r.waiting = p.waiting
  /\ SubSeq(p.chan[c].rel, 1, k) \in Seq(Held)
  /\ SubSeq(p.chan[c].rel, k + 1, Len(p.chan[c].rel)) \in Seq(Held)
  /\ r.dispatched = p.dispatched \o SubSeq(p.chan[c].rel, 1, k)
  /\ r.chan[c].rseq = LastNumber(p.chan[c].rel[k]) /\ r.chan[c].useq = 0
  /\ r.chan[c].rel = SubSeq(p.chan[c].rel, k + 1, Len(p.chan[c].rel))
  /\ r.chan[c].unrel = p.chan[c].unrel

LEMMA MovedRunIs ==
  ASSUME NEW p \in Receiver, NEW c \in Channels, NEW k \in 1 .. Len(p.chan[c].rel),
         LastNumber(p.chan[c].rel[k]) \in Nat
  PROVE  MovedAs(MovedRun(p, c, k), p, c, k)
  <1>1. p.chan \in [Channels -> ChanRec] /\ p.chan[c] \in ChanRec /\ p.dispatched \in Seq(Held)
    BY DEF Receiver
  <1>2. PICK q \in Seq(Held) : q = p.chan[c].rel
    BY <1>1 DEF ChanRec
  <1>3. PICK l \in Nat : l = Len(q)
    OBVIOUS
  <1>4. k \in 1 .. l /\ k \in Nat /\ k + 1 \in 1 .. l + 1
    BY <1>2, <1>3
  <1>5. PICK M \in Seq(Held) : M = SubSeq(q, 1, k)
    <2>1. k \in 0 .. Len(q)
      BY <1>3, <1>4
    <2> QED
      BY <2>1, CutIs
  <1>6. PICK K \in Seq(Held) : K = SubSeq(q, k + 1, l)
    <2>1. k \in 0 .. Len(q)
      BY <1>3, <1>4
    <2> QED
      BY <1>3, <2>1, CutIs
  <1>7. PICK R \in Nat : R = LastNumber(p.chan[c].rel[k])
    OBVIOUS
  <1>8. PICK ch : ch = [p.chan[c] EXCEPT !.rel = K, !.rseq = R, !.useq = 0]
    OBVIOUS
  <1>9. /\ ch \in ChanRec /\ ch.rel = K /\ ch.useq = 0 /\ ch.rseq = R
        /\ ch.unrel = p.chan[c].unrel
    BY <1>1, <1>8 DEF ChanRec
  <1>10. PICK h : h = [p.chan EXCEPT ![c] = ch]
    OBVIOUS
  <1>11. h \in [Channels -> ChanRec] /\ h[c] = ch /\ \A d \in Channels \ {c} : h[d] = p.chan[d]
    BY <1>1, <1>9, <1>10
  <1>12. p.dispatched \o M \in Seq(Held)
    BY <1>1, ConcatProperties
  <1>13. PICK r : r = MovedRun(p, c, k)
    OBVIOUS
  <1>14. r = [p EXCEPT !.dispatched = p.dispatched \o M, !.chan = h]
    <2>1. r = [p EXCEPT !.dispatched = @ \o M, !.chan[c].rel = K, !.chan[c].rseq = R, !.chan[c].useq = 0]
      BY <1>2, <1>3, <1>5, <1>6, <1>7, <1>13 DEF MovedRun
    <2>2. [p EXCEPT !.dispatched = @ \o M, !.chan[c].rel = K, !.chan[c].rseq = R, !.chan[c].useq = 0]
          = [p EXCEPT !.dispatched = p.dispatched \o M, !.chan = h]
      <3>1. PICK h1 : h1 = [p.chan EXCEPT ![c].rel = K]
        OBVIOUS
      <3>2. PICK h2 : h2 = [h1 EXCEPT ![c].rseq = R]
        OBVIOUS
      <3>3. PICK h3 : h3 = [h2 EXCEPT ![c].useq = 0]
        OBVIOUS
      <3>4. [p EXCEPT !.dispatched = @ \o M, !.chan[c].rel = K, !.chan[c].rseq = R, !.chan[c].useq = 0]
            = [p EXCEPT !.dispatched = p.dispatched \o M, !.chan = h3]
        BY <3>1, <3>2, <3>3 DEF Receiver
      <3>5. /\ h1 \in [Channels -> ChanRec] /\ h1[c] = [p.chan[c] EXCEPT !.rel = K]
            /\ \A d \in Channels \ {c} : h1[d] = p.chan[d]
        BY <1>1, <3>1 DEF ChanRec
      <3>6. /\ h2 \in [Channels -> ChanRec] /\ h2[c] = [h1[c] EXCEPT !.rseq = R]
            /\ \A d \in Channels \ {c} : h2[d] = p.chan[d]
        BY <3>2, <3>5 DEF ChanRec
      <3>7. /\ h3 \in [Channels -> ChanRec] /\ h3[c] = [h2[c] EXCEPT !.useq = 0]
            /\ \A d \in Channels \ {c} : h3[d] = p.chan[d]
        BY <3>3, <3>6 DEF ChanRec
      <3>8. h3[c] = ch
        BY <1>1, <1>8, <3>5, <3>6, <3>7 DEF ChanRec
      <3>9. h3 = h
        BY <1>11, <3>7, <3>8
      <3> QED
        BY <3>4, <3>9
    <2> QED
      BY <2>1, <2>2
  <1>15. /\ r \in Receiver /\ r.dispatched = p.dispatched \o M /\ r.chan = h
         /\ r.waiting = p.waiting /\ r.group = p.group /\ r.seen = p.seen
    BY <1>11, <1>12, <1>14 DEF Receiver
  <1> QED
    BY <1>2, <1>3, <1>5, <1>6, <1>7, <1>9, <1>11, <1>13, <1>15 DEF SameBut, MovedAs

\* After the run was moved the unreliable list may be scanned.
LEMMA MovedKeeps ==
  ASSUME NEW L, NEW n, Known(L, n), NEW p, NEW G, NEW c \in Channels, Good(L, n, p, G, {}),
         NEW k \in 1 .. Len(p.chan[c].rel), \A i \in 1 .. k : Follows(p.chan[c], i),
         NEW r, r = MovedRun(p, c, k), NEW e, Sequenced(e)
  PROVE  Steps(L, n, p, r, G, {c}, c, e) /\ r.chan[c].unrel = p.chan[c].unrel
  <1>1. PICK ch : ch = p.chan[c]
    OBVIOUS
  <1>2. /\ p \in Receiver /\ G \in Seq(Held) /\ ch \in ChanRec /\ Counting(ch)
        /\ MayRun(L, n, ch, c) /\ MayScan(L, n, ch, c) /\ Lists(L, n, ch, c) /\ Scanned(ch)
        /\ Delivered(L, n, p.chan, G \o p.dispatched)
    BY <1>1 DEF Good, Lists
  <1>3. PICK q \in Seq(Held) : q = ch.rel
    BY <1>2 DEF MayRun
  <1>4. PICK l \in Nat : l = Len(q)
    OBVIOUS
  <1>5. k \in 1 .. l /\ k \in 0 .. Len(q) /\ k \in Nat
    BY <1>1, <1>3, <1>4
  <1>6. PICK R : R = LastNumber(q[k])
    OBVIOUS
  <1>7. RunIs(L, n, ch, c, k, R)
    <2>1. k \in 1 .. Len(ch.rel) /\ \A i \in 1 .. k : Follows(ch, i)
      BY <1>1
    <2> QED
      BY <1>2, <1>3, <1>6, <2>1, FollowersAre
  <1>8. /\ R \in Nat /\ R < Limit /\ ch.rseq < R /\ Ended(L, n, R, c) /\ ch.rseq \in Nat /\ ch.useq \in Nat
    BY <1>2, <1>7 DEF RunIs, Counting
  <1>9. PICK M \in Seq(Held) : M = SubSeq(q, 1, k)
    BY <1>5, CutIs
  <1>10. PICK K \in Seq(Held) : K = SubSeq(q, k + 1, l)
    BY <1>4, <1>5, CutIs
  <1>11. /\ Len(M) = k /\ Len(K) = l - k /\ \A i \in 1 .. k : M[i] = q[i]
         /\ \A i \in 1 .. l - k : K[i] = q[k + i] /\ k + i \in k + 1 .. l
    <2>1. Cuts(M, K, q, k)
      BY <1>4, <1>5, <1>9, <1>10, CutIs
    <2> QED
      BY <1>4, <2>1 DEF Cuts
  <1>12. /\ r \in Receiver /\ SameBut(r, p, c) /\ r.dispatched = p.dispatched \o M
         /\ r.chan[c].rseq = R /\ r.chan[c].useq = 0
         /\ r.chan[c].rel = K /\ r.chan[c].unrel = ch.unrel
    <2>1. MovedAs(r, p, c, k)
      BY <1>1, <1>2, <1>3, <1>6, <1>8, MovedRunIs
    <2> QED
      BY <1>1, <1>3, <1>4, <1>6, <1>9, <1>10, <2>1 DEF MovedAs
  <1>13. PICK ch2 : ch2 = r.chan[c]
    OBVIOUS
  <1>14. ch2 \in ChanRec /\ Counting(ch2)
    <2>1. ch2 \in ChanRec
      BY <1>12, <1>13 DEF Receiver
    <2>2. ch2.rseq = R /\ ch2.useq = 0
      BY <1>12, <1>13
    <2> QED
      BY <1>8, <2>1, <2>2, Constants DEF Counting
  <1>15. /\ \A i \in 1 .. l : IsAny(q[i], L, n) /\ q[i].ch = c /\ IsReliable(q[i]) /\ q[i].seq > ch.rseq
         /\ \A i, j \in 1 .. l : i < j /\ Sequenced(q[i]) /\ Sequenced(q[j]) => Earlier(q[i], q[j])
    BY <1>2, <1>3, <1>4 DEF MayRun, Ordered
  <1>16. /\ \A i \in 1 .. k : Complete(q[i]) /\ q[i].seq <= R
         /\ \A i \in k + 1 .. l : q[i].seq > R /\ Near(R, q[i].seq)
         /\ \A x \in 1 .. Len(L) :
              L[x].kind \in Reliables /\ L[x].ch = c /\ n[x].seq > ch.rseq /\ n[x].seq <= R
              => \E i \in 1 .. k : IsOf(q[i], L, n, x)
    BY <1>3, <1>4, <1>7 DEF RunIs
  <1>17. \A i \in 1 .. k : i \in 1 .. l
    BY <1>5
  <1>18. \A i \in k + 1 .. l : i \in 1 .. l
    BY <1>5
  <1>19. MayRun(L, n, ch2, c)
    <2>1. ASSUME NEW i \in 1 .. l - k
          PROVE  /\ IsAny(K[i], L, n) /\ K[i].ch = c /\ IsReliable(K[i])
                 /\ K[i].seq > R /\ Near(R, K[i].seq)
      <3>1. PICK j \in k + 1 .. l : K[i] = q[j]
        BY <1>11
      <3> QED
        BY <1>15, <1>16, <1>18, <3>1
    <2>2. ASSUME NEW i \in 1 .. l - k, NEW j \in 1 .. l - k, i < j, Sequenced(K[i]), Sequenced(K[j])
          PROVE  Earlier(K[i], K[j])
      <3>1. K[i] = q[k + i] /\ K[j] = q[k + j] /\ k + i \in 1 .. l /\ k + j \in 1 .. l
        BY <1>11, <1>18
      <3>2. k + i < k + j
        BY <1>5, <2>2
      <3> QED
        BY <1>15, <2>2, <3>1, <3>2
    <2>3. ch2.rel = K /\ ch2.rseq = R /\ Len(K) = l - k
      BY <1>11, <1>12, <1>13
    <2>4. Ordered(K)
      BY <2>2, <2>3 DEF Ordered
    <2> QED
      BY <2>1, <2>3, <2>4 DEF MayRun
  <1>20. ASSUME NEW i \in 1 .. Len(ch.unrel)
         PROVE  /\ IsAny(ch.unrel[i], L, n) /\ ch.unrel[i].ch = c /\ ~IsReliable(ch.unrel[i])
                /\ Sequenced(ch.unrel[i]) /\ ch.unrel[i].useq > 0 /\ Near(R, ch.unrel[i].seq)
    <2>1. /\ IsAny(ch.unrel[i], L, n) /\ ch.unrel[i].ch = c /\ ~IsReliable(ch.unrel[i])
          /\ Sequenced(ch.unrel[i])
      BY <1>2 DEF MayScan, Scanned
    <2>2. ch.unrel[i].useq \in Nat /\ ch.unrel[i].useq >= 1 /\ ch.unrel[i].seq \in Nat
      BY <2>1, AnyIs
    <2>3. \A x \in Nat : x >= 1 => x > 0
      OBVIOUS
    <2>4. Near(ch.rseq, ch.unrel[i].seq)
      BY <1>2 DEF MayScan
    <2>5. PICK o \in Nat : o = ch.rseq /\ o < R
      BY <1>8
    <2>6. o <= R
      BY <1>8, <2>5
    <2>7. Near(R, ch.unrel[i].seq)
      BY <1>8, <2>2, <2>4, <2>5, <2>6, NearGrows
    <2> QED
      BY <2>1, <2>2, <2>3, <2>7
  <1>21. MayScan(L, n, ch2, c)
    <2>1. ch.unrel \in Seq(Held) /\ Ordered(ch.unrel)
      BY <1>2 DEF MayScan
    <2> QED
      BY <1>12, <1>13, <1>20, <2>1 DEF MayScan
  <1>22. Lists(L, n, ch2, c)
    BY <1>8, <1>12, <1>13, <1>14, <1>19, <1>21 DEF Lists
  <1>23. (\A d \in Channels : Lists(L, n, r.chan[d], d)) /\ \A d \in Channels \ {c} : Scanned(r.chan[d])
    <2>1. ASSUME NEW d \in Channels, d # c
          PROVE  Lists(L, n, r.chan[d], d) /\ Scanned(r.chan[d])
      BY <1>12, <2>1 DEF Good, SameBut
    <2> QED
      BY <1>13, <1>22, <2>1
  <1>24. \A i \in 1 .. k : /\ IsAny(M[i], L, n) /\ Complete(M[i]) /\ M[i].ch = c /\ Sequenced(M[i])
                           /\ M[i].seq \in Nat /\ M[i].useq = 0 /\ M[i].seq > ch.rseq /\ M[i].seq <= R
    <2>1. TAKE i \in 1 .. k
    <2>2. /\ IsAny(M[i], L, n) /\ Complete(M[i]) /\ M[i].ch = c /\ IsReliable(M[i])
          /\ M[i].seq > ch.rseq /\ M[i].seq <= R
      BY <1>11, <1>15, <1>16, <1>17
    <2> QED
      BY <2>2, AnyIs
  <1>25. Adds(L, n, p.chan, c, ch2, M)
    <2>1. Ordered(M)
      <3>1. ASSUME NEW i \in 1 .. k, NEW j \in 1 .. k, i < j, Sequenced(M[i]), Sequenced(M[j])
            PROVE  Earlier(M[i], M[j])
        BY <1>11, <1>15, <1>17, <3>1
      <3> QED
        BY <1>11, <3>1 DEF Ordered
    <2>2. ASSUME NEW i \in 1 .. k
          PROVE  ~Behind(M[i], ch) /\ Behind(M[i], ch2)
      <3>1. PICK x \in Nat : x = M[i].seq /\ x > ch.rseq /\ x <= R
        BY <1>24
      <3>2. ~(x < ch.rseq) /\ x # ch.rseq
        <4>1. PICK y \in Nat : y = ch.rseq /\ x > y
          BY <1>8, <3>1
        <4> QED
          BY <4>1
      <3>7. ~Behind(M[i], ch)
        BY <3>1, <3>2 DEF Behind
      <3>3. ch2.rseq = R /\ ch2.useq = 0
        BY <1>12, <1>13
      <3>4. M[i].seq < R \/ M[i].seq = R
        BY <1>8, <3>1
      <3>5. M[i].useq <= 0
        BY <1>24
      <3> QED
        BY <3>3, <3>4, <3>5, <3>7 DEF Behind
    <2>3. \A x \in 1 .. Len(L) :
            L[x].kind \in Reliables /\ L[x].ch = c /\ n[x].seq > ch.rseq /\ n[x].seq <= R
            => \E i \in 1 .. k : IsOf(M[i], L, n, x)
      BY <1>11, <1>16
    <2>4. ch.rseq <= R /\ ch.rseq # R
      BY <1>8
    <2> QED
      BY <1>1, <1>2, <1>11, <1>12, <1>13, <1>14, <1>24, <2>1, <2>2, <2>3, <2>4 DEF Adds
  <1>26. Delivered(L, n, r.chan, (G \o p.dispatched) \o M)
    <2>1. \A d \in Channels \ {c} : r.chan[d] = p.chan[d]
      BY <1>12 DEF SameBut
    <2> QED
      BY <1>2, <1>13, <1>25, <2>1, DeliveredMore
  <1>27. /\ p.dispatched \in Seq(Held) /\ G \o p.dispatched \in Seq(Held)
         /\ G \o r.dispatched = (G \o p.dispatched) \o M
    <2>1. p.dispatched \in Seq(Held)
      BY <1>2 DEF Receiver
    <2>2. PICK D \in Seq(Held) : D = p.dispatched
      BY <2>1
    <2>3. G \in Seq(Held)
      BY <1>2
    <2>4. G \o (D \o M) = (G \o D) \o M /\ G \o D \in Seq(Held)
      BY <2>3, JoinedAgain
    <2> QED
      BY <1>12, <2>2, <2>4
  <1>28. Extends(G \o p.dispatched, (G \o p.dispatched) \o M, e)
    <2>1. \A i \in 1 .. Len(M) : Sequenced(M[i])
      BY <1>11, <1>24
    <2> QED
      BY <1>27, <2>1, ExtendsIs
  <1>29. Good(L, n, r, G, {c})
    BY <1>2, <1>12, <1>23, <1>26, <1>27 DEF Good
  <1> QED
    BY <1>1, <1>12, <1>27, <1>28, <1>29 DEF Steps

LEMMA StepsTwice ==
  ASSUME NEW L, NEW n, NEW p, NEW r, NEW s, NEW G, NEW X, NEW Y, NEW c, NEW e, Sequenced(e),
         G \o p.dispatched \in Seq(Held), Steps(L, n, p, r, G, X, c, e), Steps(L, n, r, s, G, Y, c, e)
  PROVE  Steps(L, n, p, s, G, Y, c, e)
  <1>1. PICK A \in Seq(Held) : A = G \o p.dispatched
    OBVIOUS
  <1>2. PICK B \in Seq(Held) : B = G \o r.dispatched
    BY DEF Steps, Good, Delivered
  <1>3. PICK C \in Seq(Held) : C = G \o s.dispatched
    BY DEF Steps, Good, Delivered
  <1>4. Extends(A, B, e) /\ Extends(B, C, e)
    BY <1>1, <1>2, <1>3 DEF Steps
  <1>5. Extends(A, C, e)
    <2>1. Len(A) \in Nat /\ Len(B) \in Nat /\ Len(C) \in Nat
      OBVIOUS
    <2> QED
      BY <1>4, <2>1, ExtendsTwice
  <1>6. SameBut(s, p, c) /\ Good(L, n, s, G, Y)
    BY DEF Steps, SameBut
  <1> QED
    BY <1>1, <1>3, <1>5, <1>6 DEF Steps

LEMMA StepsNot ==
  ASSUME NEW L, NEW n, NEW p, NEW G, NEW X, NEW c, NEW e, Good(L, n, p, G, X)
  PROVE  Steps(L, n, p, p, G, X, c, e)
  <1>1. PICK A \in Seq(Held) : A = G \o p.dispatched
    BY DEF Good, Delivered
  <1>2. Extends(A, A, e)
    <2>1. Len(A) \in Nat
      OBVIOUS
    <2> QED
      BY <2>1, ExtendsNot
  <1> QED
    BY <1>1, <1>2 DEF Steps, SameBut

LEMMA RunKeeps ==
  ASSUME NEW L, NEW n, Known(L, n), NEW p, NEW G, NEW c \in Channels, Good(L, n, p, G, {}),
         NEW r, r = DispatchReliable(p, c), NEW e, Sequenced(e)
  PROVE  Steps(L, n, p, r, G, {}, c, e)
  <1>1. PICK k : k = ReadyRun(p.chan[c])
    OBVIOUS
  <1>2. ReadyIs(p.chan[c], k) /\ p.chan[c].rel \in Seq(Held)
    BY <1>1, ReadyRunIs DEF Good, Lists, MayRun
  <1>3. CASE k = 0
    <2>1. r = p
      BY <1>1, <1>3 DEF DispatchReliable, DispatchRun
    <2> QED
      BY <2>1, StepsNot
  <1>4. CASE k # 0
    <2>1. k \in 1 .. Len(p.chan[c].rel) /\ \A i \in 1 .. k : Follows(p.chan[c], i)
      BY <1>2, <1>4 DEF ReadyIs
    <2>2. PICK m : m = MovedRun(p, c, k)
      OBVIOUS
    <2>3. Steps(L, n, p, m, G, {c}, c, e) /\ m.chan[c].unrel = p.chan[c].unrel
      BY <2>1, <2>2, MovedKeeps
    <2>4. \A i \in 1 .. Len(m.chan[c].unrel) : Sequenced(m.chan[c].unrel[i])
      BY <2>3 DEF Good, Scanned
    <2>5. r = IF p.chan[c].unrel = <<>> THEN m ELSE DispatchUnreliable(m, c)
      BY <1>1, <1>4, <2>2 DEF DispatchReliable, DispatchRun, MovedRun
    <2>6. Good(L, n, m, G, {c})
      BY <2>3 DEF Steps
    <2>7. CASE p.chan[c].unrel = <<>>
      <3>1. Scanned(m.chan[c])
        BY <2>3, <2>7 DEF Scanned
      <3>2. Good(L, n, m, G, {})
        BY <2>6, <3>1 DEF Good
      <3> QED
        BY <2>3, <2>5, <2>7, <3>2 DEF Steps
    <2>8. CASE p.chan[c].unrel # <<>>
      <3>1. r = DispatchUnreliable(m, c)
        BY <2>5, <2>8
      <3>2. Steps(L, n, m, r, G, {}, c, e)
        BY <2>4, <2>6, <3>1, ScanKeeps
      <3>3. G \o p.dispatched \in Seq(Held)
        BY DEF Good, Delivered
      <3> QED
        BY <2>3, <3>2, <3>3, StepsTwice
    <2> QED
      BY <2>7, <2>8
  <1> QED
    BY <1>3, <1>4

--------------------------------------------------------------------------------
(* The receiver: a command is put in its list. *)

\* Of two pairs of numbers one comes first, or they are the same.
LEMMA EarlierTotal ==
  ASSUME NEW e, NEW f, e.seq \in Nat, e.useq \in Nat, f.seq \in Nat, f.useq \in Nat
  PROVE  /\ ~(f.seq < e.seq \/ (f.seq = e.seq /\ f.useq <= e.useq)) => Earlier(e, f)
         /\ f.seq < e.seq \/ (f.seq = e.seq /\ f.useq <= e.useq) =>
              Earlier(f, e) \/ (f.seq = e.seq /\ f.useq = e.useq)
  <1>1. PICK a \in Nat : a = e.seq
    OBVIOUS
  <1>2. PICK b \in Nat : b = e.useq
    OBVIOUS
  <1>3. PICK x \in Nat : x = f.seq
    OBVIOUS
  <1>4. PICK y \in Nat : y = f.useq
    OBVIOUS
  <1>5. ~(x < a \/ (x = a /\ y <= b)) => a < x \/ (a = x /\ b < y)
    OBVIOUS
  <1>6. x < a \/ (x = a /\ y <= b) => x < a \/ (x = a /\ y < b) \/ (x = a /\ y = b)
    OBVIOUS
  <1> QED
    BY <1>1, <1>2, <1>3, <1>4, <1>5, <1>6 DEF Earlier

LEMMA EarlierChain ==
  ASSUME NEW e, NEW f, NEW g, e.seq \in Nat, e.useq \in Nat, f.seq \in Nat, f.useq \in Nat,
         g.seq \in Nat, g.useq \in Nat, Earlier(e, f), Earlier(f, g)
  PROVE  Earlier(e, g)
  <1>1. PICK a \in Nat : a = e.seq
    OBVIOUS
  <1>2. PICK b \in Nat : b = e.useq
    OBVIOUS
  <1>3. PICK x \in Nat : x = f.seq
    OBVIOUS
  <1>4. PICK y \in Nat : y = f.useq
    OBVIOUS
  <1>5. PICK z \in Nat : z = g.seq
    OBVIOUS
  <1>6. PICK w \in Nat : w = g.useq
    OBVIOUS
  <1>7. (a < x \/ (a = x /\ b < y)) /\ (x < z \/ (x = z /\ y < w))
    BY <1>1, <1>2, <1>3, <1>4, <1>5, <1>6 DEF Earlier
  <1>8. a < z \/ (a = z /\ b < w)
    BY <1>7
  <1> QED
    BY <1>1, <1>2, <1>5, <1>6, <1>8 DEF Earlier

PlacedAt(p, ch, q, s, u) ==
  /\ p \in 0 .. Len(q) /\ (p > 0 => Precedes(ch, q[p], s, u))
  /\ \A i \in p + 1 .. Len(q) : ~Precedes(ch, q[i], s, u)

LEMMA PlaceIs ==
  ASSUME NEW T, NEW ch, NEW q \in Seq(T), NEW s, NEW u, NEW p, p = Place(ch, q, s, u)
  PROVE  PlacedAt(p, ch, q, s, u)
  <1>1. PICK l \in Nat : l = Len(q)
    OBVIOUS
  <1>2. PICK S : S = {i \in 1 .. l : Precedes(ch, q[i], s, u)} \cup {0}
    OBVIOUS
  <1>3. DOMAIN q = 1 .. l
    BY <1>1
  <1>4. p = Max(S)
    BY <1>2, <1>3 DEF Place
  <1>5. S \subseteq 0 .. l /\ S # {}
    BY <1>2
  <1>6. p \in S /\ \A x \in S : x <= p
    BY <1>4, <1>5, GreatestIsIn
  <1>7. p \in 0 .. l /\ (p > 0 => Precedes(ch, q[p], s, u))
    BY <1>2, <1>5, <1>6
  <1>8. ASSUME NEW i \in p + 1 .. l, Precedes(ch, q[i], s, u)
        PROVE  FALSE
    <2>1. i \in 1 .. l /\ ~(i <= p)
      BY <1>7
    <2>2. i \in S
      BY <1>2, <1>8, <2>1
    <2> QED
      BY <1>6, <2>1, <2>2
  <1> QED
    BY <1>1, <1>7, <1>8 DEF PlacedAt

\* The numbers of an entry that is not behind the receiver.
Ahead(e, ch) ==
  /\ e \in Held /\ Sequenced(e) /\ e.seq \in Nat /\ e.useq \in Nat /\ e.seq < Limit /\ e.seq >= ch.rseq

LEMMA InsertKeepsOrder ==
  ASSUME NEW ch, Counting(ch), NEW q \in Seq(Held), Ordered(q),
         \A i \in 1 .. Len(q) : Ahead(q[i], ch), NEW e, Ahead(e, ch),
         NEW p, p = Place(ch, q, e.seq, e.useq),
         p > 0 => ~(q[p].seq = e.seq /\ q[p].useq = e.useq),
         NEW r, r = InsertAt(q, p + 1, e)
  PROVE  p \in 0 .. Len(q) /\ r \in Seq(Held) /\ InsertedIs(r, q, p, e) /\ Ordered(r)
  <1>1. PICK l \in Nat : l = Len(q)
    OBVIOUS
  <1>2. /\ p \in 0 .. l /\ (p > 0 => Precedes(ch, q[p], e.seq, e.useq))
        /\ \A i \in p + 1 .. l : ~Precedes(ch, q[i], e.seq, e.useq)
    <2>1. PlacedAt(p, ch, q, e.seq, e.useq)
      BY PlaceIs
    <2> QED
      BY <1>1, <2>1 DEF PlacedAt
  <1>3. r \in Seq(Held) /\ InsertedIs(r, q, p, e)
    <2>1. p \in 0 .. Len(q) /\ e \in Held
      BY <1>1, <1>2 DEF Ahead
    <2> QED
      BY <2>1, InsertAtIs
  <1>4. ASSUME NEW f, Ahead(f, ch)
        PROVE  Rank(ch, f.seq) = f.seq
    <2>1. f.seq \in Nat /\ f.seq < Limit /\ ch.rseq <= f.seq
      BY <1>4 DEF Ahead, Counting
    <2> QED
      BY <2>1, WindowIs DEF Counting
  <1>5. ASSUME NEW i \in 1 .. l
        PROVE  Precedes(ch, q[i], e.seq, e.useq) <=>
                 q[i].seq < e.seq \/ (q[i].seq = e.seq /\ q[i].useq <= e.useq)
    <2>1. Rank(ch, q[i].seq) = q[i].seq /\ Rank(ch, e.seq) = e.seq
      BY <1>1, <1>4
    <2> QED
      BY <2>1 DEF Precedes
  <1>6. e.seq \in Nat /\ e.useq \in Nat /\ \A i \in 1 .. l : q[i].seq \in Nat /\ q[i].useq \in Nat /\ Sequenced(q[i])
    BY <1>1 DEF Ahead
  <1>7. ASSUME NEW i \in 1 .. l, i <= p
        PROVE  Earlier(q[i], e)
    <2>1. p \in 1 .. l /\ p > 0
      BY <1>2, <1>7
    <2>2. Earlier(q[p], e)
      <3>1. q[p].seq < e.seq \/ (q[p].seq = e.seq /\ q[p].useq <= e.useq)
        BY <1>2, <1>5, <2>1
      <3>2. q[p].seq \in Nat /\ q[p].useq \in Nat
        BY <1>6, <2>1
      <3> QED
        BY <1>6, <2>1, <3>1, <3>2, EarlierTotal
    <2>3. i = p \/ i < p
      BY <1>7, <2>1
    <2>4. i < p => Earlier(q[i], q[p])
      BY <1>1, <1>6, <2>1 DEF Ordered
    <2>5. q[i].seq \in Nat /\ q[i].useq \in Nat /\ q[p].seq \in Nat /\ q[p].useq \in Nat
      BY <1>6, <2>1
    <2> QED
      BY <1>6, <2>2, <2>3, <2>4, <2>5, EarlierChain
  <1>8. ASSUME NEW i \in p + 1 .. l
        PROVE  Earlier(e, q[i])
    <2>1. i \in 1 .. l
      BY <1>2
    <2>2. ~(q[i].seq < e.seq \/ (q[i].seq = e.seq /\ q[i].useq <= e.useq))
      BY <1>2, <1>5, <2>1
    <2>3. q[i].seq \in Nat /\ q[i].useq \in Nat
      BY <1>6, <2>1
    <2> QED
      BY <1>6, <2>2, <2>3, EarlierTotal
  <1>9. ASSUME NEW i \in 1 .. l + 1, NEW j \in 1 .. l + 1, i < j
        PROVE  Earlier(r[i], r[j])
    <2>1. \A k \in 1 .. l + 1 : /\ k <= p => r[k] = q[k]
                                /\ k = p + 1 => r[k] = e
                                /\ k > p + 1 => k - 1 \in 1 .. l /\ r[k] = q[k - 1]
      BY <1>1, <1>3 DEF InsertedIs
    <2>2. \A a, b \in 1 .. l : a < b => Earlier(q[a], q[b])
      BY <1>1, <1>6 DEF Ordered
    <2>3. CASE j <= p
      <3>1. i <= p /\ i \in 1 .. l /\ j \in 1 .. l
        BY <1>2, <1>9, <2>3
      <3> QED
        BY <1>9, <2>1, <2>2, <2>3, <3>1
    <2>4. CASE j = p + 1
      <3>1. i <= p /\ i \in 1 .. l
        BY <1>2, <1>9, <2>4
      <3> QED
        BY <1>7, <2>1, <2>4, <3>1
    <2>5. CASE j > p + 1
      <3>1. j - 1 \in 1 .. l /\ r[j] = q[j - 1] /\ j - 1 \in p + 1 .. l
        BY <1>2, <2>1, <2>5
      <3>2. CASE i <= p
        <4>1. i \in 1 .. l /\ i < j - 1
          BY <1>2, <2>5, <3>2
        <4> QED
          BY <2>1, <2>2, <3>1, <3>2, <4>1
      <3>3. CASE i = p + 1
        BY <1>8, <2>1, <3>1, <3>3
      <3>4. CASE i > p + 1
        <4>1. i - 1 \in 1 .. l /\ r[i] = q[i - 1] /\ i - 1 < j - 1
          BY <1>9, <2>1, <3>4
        <4> QED
          BY <2>2, <3>1, <4>1
      <3> QED
        BY <1>2, <3>2, <3>3, <3>4
    <2> QED
      BY <1>2, <2>3, <2>4, <2>5
  <1>10. Len(r) = l + 1
    BY <1>1, <1>3 DEF InsertedIs
  <1> QED
    BY <1>1, <1>2, <1>3, <1>9, <1>10 DEF Ordered

\* The lists of a channel are replaced, and nothing else.
ListsPut(r, p, c, q, u) ==
  /\ r \in Receiver /\ SameBut(r, p, c) /\ r.dispatched = p.dispatched /\ r.waiting = p.waiting
  /\ r.chan[c] \in ChanRec /\ r.chan[c].rseq = p.chan[c].rseq /\ r.chan[c].useq = p.chan[c].useq
  /\ r.chan[c].rel = q /\ r.chan[c].unrel = u

LEMMA RelPut ==
  ASSUME NEW p \in Receiver, NEW c \in Channels, NEW q \in Seq(Held)
  PROVE  ListsPut([p EXCEPT !.chan[c].rel = q], p, c, q, p.chan[c].unrel)
  <1>1. p.chan \in [Channels -> ChanRec] /\ p.chan[c] \in ChanRec
    BY DEF Receiver
  <1>2. PICK ch : ch = [p.chan[c] EXCEPT !.rel = q]
    OBVIOUS
  <1>3. /\ ch \in ChanRec /\ ch.rel = q /\ ch.unrel = p.chan[c].unrel
        /\ ch.rseq = p.chan[c].rseq /\ ch.useq = p.chan[c].useq
    BY <1>1, <1>2 DEF ChanRec
  <1>4. PICK h : h = [p.chan EXCEPT ![c] = ch]
    OBVIOUS
  <1>5. h \in [Channels -> ChanRec] /\ h[c] = ch /\ \A d \in Channels \ {c} : h[d] = p.chan[d]
    BY <1>1, <1>3, <1>4
  <1>6. PICK r : r = [p EXCEPT !.chan[c].rel = q]
    OBVIOUS
  <1>7. r = [p EXCEPT !.chan = h]
    BY <1>1, <1>2, <1>4, <1>6 DEF Receiver, ChanRec
  <1>8. /\ r \in Receiver /\ r.dispatched = p.dispatched /\ r.chan = h
        /\ r.waiting = p.waiting /\ r.group = p.group /\ r.seen = p.seen
    BY <1>5, <1>7 DEF Receiver
  <1> QED
    BY <1>3, <1>5, <1>6, <1>8 DEF SameBut, ListsPut

LEMMA UnrelPut ==
  ASSUME NEW p \in Receiver, NEW c \in Channels, NEW u \in Seq(Held)
  PROVE  ListsPut([p EXCEPT !.chan[c].unrel = u], p, c, p.chan[c].rel, u)
  <1>1. p.chan \in [Channels -> ChanRec] /\ p.chan[c] \in ChanRec
    BY DEF Receiver
  <1>2. PICK ch : ch = [p.chan[c] EXCEPT !.unrel = u]
    OBVIOUS
  <1>3. /\ ch \in ChanRec /\ ch.unrel = u /\ ch.rel = p.chan[c].rel
        /\ ch.rseq = p.chan[c].rseq /\ ch.useq = p.chan[c].useq
    BY <1>1, <1>2 DEF ChanRec
  <1>4. PICK h : h = [p.chan EXCEPT ![c] = ch]
    OBVIOUS
  <1>5. h \in [Channels -> ChanRec] /\ h[c] = ch /\ \A d \in Channels \ {c} : h[d] = p.chan[d]
    BY <1>1, <1>3, <1>4
  <1>6. PICK r : r = [p EXCEPT !.chan[c].unrel = u]
    OBVIOUS
  <1>7. r = [p EXCEPT !.chan = h]
    BY <1>1, <1>2, <1>4, <1>6 DEF Receiver, ChanRec
  <1>8. /\ r \in Receiver /\ r.dispatched = p.dispatched /\ r.chan = h
        /\ r.waiting = p.waiting /\ r.group = p.group /\ r.seen = p.seen
    BY <1>5, <1>7 DEF Receiver
  <1> QED
    BY <1>3, <1>5, <1>6, <1>8 DEF SameBut, ListsPut

\* What was delivered stays behind the numbers of the channels, which do not move.
LEMMA DeliveredSame ==
  ASSUME NEW L, NEW n, Known(L, n), NEW chan, NEW D, Delivered(L, n, chan, D), NEW chan2,
         \A c \in Channels : chan2[c].rseq = chan[c].rseq /\ chan2[c].useq = chan[c].useq
  PROVE  Delivered(L, n, chan2, D)
  <1>1. \A i \in 1 .. Len(D) : D[i].ch \in Channels
    BY AnyIs DEF Delivered
  <1>2. \A i \in 1 .. Len(D) : Sequenced(D[i]) => Behind(D[i], chan2[D[i].ch])
    BY <1>1 DEF Delivered, Behind
  <1>3. \A x \in 1 .. Len(L) : L[x].kind \in Reliables /\ n[x].seq <= chan2[L[x].ch].rseq
                             => \E i \in 1 .. Len(D) : IsOf(D[i], L, n, x)
    <2>1. TAKE x \in 1 .. Len(L)
    <2>2. L[x].ch \in Channels
      BY PacketFacts
    <2> QED
      BY <2>2 DEF Delivered
  <1> QED
    BY <1>2, <1>3 DEF Delivered

\* The lists may be replaced by what may wait there; a channel that is not scanned
\* after that is in X.
LEMMA PutKeeps ==
  ASSUME NEW L, NEW n, Known(L, n), NEW p, NEW G, Good(L, n, p, G, {}), NEW c \in Channels,
         NEW q, NEW u, NEW r, ListsPut(r, p, c, q, u),
         MayRun(L, n, r.chan[c], c), MayScan(L, n, r.chan[c], c), NEW X, c \in X \/ Scanned(r.chan[c])
  PROVE  Good(L, n, r, G, X)
  <1>1. \A d \in Channels \ {c} : r.chan[d] = p.chan[d]
    BY DEF ListsPut, SameBut
  <1>2. Lists(L, n, r.chan[c], c)
    BY DEF Good, Lists, ListsPut, Counting
  <1>3. Delivered(L, n, r.chan, G \o r.dispatched)
    <2>1. \A d \in Channels : r.chan[d].rseq = p.chan[d].rseq /\ r.chan[d].useq = p.chan[d].useq
      BY <1>1 DEF ListsPut
    <2>2. Delivered(L, n, p.chan, G \o p.dispatched) /\ r.dispatched = p.dispatched
      BY DEF Good, ListsPut
    <2> QED
      BY <2>1, <2>2, DeliveredSame
  <1>4. \A d \in Channels : Lists(L, n, r.chan[d], d)
    BY <1>1, <1>2 DEF Good
  <1>5. \A d \in Channels \ X : Scanned(r.chan[d])
    BY <1>1 DEF Good
  <1>6. r \in Receiver
    BY DEF ListsPut
  <1> QED
    BY <1>3, <1>4, <1>5, <1>6 DEF Good

\* What a step does from where lists were replaced, it does from before.
LEMMA StepsAfter ==
  ASSUME NEW L, NEW n, NEW p, NEW m, NEW r, NEW G, NEW X, NEW c, NEW e,
         SameBut(m, p, c), m.dispatched = p.dispatched, Steps(L, n, m, r, G, X, c, e)
  PROVE  Steps(L, n, p, r, G, X, c, e)
  BY DEF Steps, SameBut

\* totalWaitingData is counted up; nothing else differs.
LEMMA CountedIs ==
  ASSUME NEW p \in Receiver, NEW e, DataLength(e) \in Nat, NEW r, r = Counted(p, e)
  PROVE  /\ r \in Receiver /\ r.chan = p.chan /\ r.dispatched = p.dispatched
         /\ r.group = p.group /\ r.seen = p.seen /\ r.waiting = p.waiting + DataLength(e)
  <1>1. PICK d \in Nat : d = DataLength(e)
    OBVIOUS
  <1>2. r = [p EXCEPT !.waiting = p.waiting + d]
    BY <1>1 DEF Counted, Receiver
  <1>3. p.waiting + d \in Int
    BY <1>1 DEF Receiver
  <1> QED
    BY <1>1, <1>2, <1>3 DEF Receiver

LEMMA CountedKeeps ==
  ASSUME NEW L, NEW n, NEW p, NEW G, Good(L, n, p, G, {}), NEW e, DataLength(e) \in Nat,
         NEW r, r = Counted(p, e), NEW c
  PROVE  Good(L, n, r, G, {}) /\ SameBut(r, p, c) /\ r.dispatched = p.dispatched /\ r.chan = p.chan
  <1>1. p \in Receiver
    BY DEF Good
  <1>2. /\ r \in Receiver /\ r.chan = p.chan /\ r.dispatched = p.dispatched
        /\ r.group = p.group /\ r.seen = p.seen
    BY <1>1, CountedIs
  <1> QED
    BY <1>2 DEF Good, SameBut

LEMMA InsertedFrom ==
  ASSUME NEW q \in Seq(Held), NEW r, NEW p \in 0 .. Len(q), NEW e, InsertedIs(r, q, p, e)
  PROVE  \A i \in 1 .. Len(r) : r[i] = e \/ \E k \in 1 .. Len(q) : r[i] = q[k]
  <1>1. PICK l \in Nat : l = Len(q)
    OBVIOUS
  <1>2. /\ Len(r) = l + 1
        /\ \A i \in 1 .. l + 1 : /\ i <= p => r[i] = q[i]
                                 /\ i = p + 1 => r[i] = e
                                 /\ i > p + 1 => i - 1 \in 1 .. l /\ r[i] = q[i - 1]
    BY <1>1 DEF InsertedIs
  <1>3. TAKE i \in 1 .. Len(r)
  <1>4. i \in 1 .. l + 1 /\ p \in 0 .. l
    BY <1>1, <1>2
  <1>5. CASE i <= p
    <2>1. i \in 1 .. l
      BY <1>4, <1>5
    <2> QED
      BY <1>1, <1>2, <1>4, <1>5, <2>1
  <1>6. CASE i = p + 1
    BY <1>2, <1>4, <1>6
  <1>7. CASE i > p + 1
    BY <1>1, <1>2, <1>4, <1>7
  <1> QED
    BY <1>4, <1>5, <1>6, <1>7

\* Of a packet whose numbers are in the window, the first is not behind.
LEMMA InWindowIs ==
  ASSUME NEW ch, Counting(ch), NEW s \in Nat, s < Limit, InWindow(ch, s)
  PROVE  s >= ch.rseq /\ Near(ch.rseq, s)
  <1>1. s >= ch.rseq
    BY WindowIs DEF Counting
  <1> QED
    BY <1>1, WindowIs DEF Counting, Near

LEMMA QueuedReliable ==
  ASSUME NEW L, NEW n, Known(L, n), NEW p, NEW G, Good(L, n, p, G, {}), NEW c \in Channels,
         NEW e, IsAny(e, L, n), e.ch = c, IsReliable(e),
         NEW place, place = Place(p.chan[c], p.chan[c].rel, e.seq, e.useq),
         ~Discards(p.chan[c], e, p.chan[c].rel, place),
         NEW r, r = Inserted(Counted(p, e), e, place)
  PROVE  Steps(L, n, p, r, G, {}, c, e)
  <1>1. PICK m : m = Counted(p, e)
    OBVIOUS
  <1>2. /\ e \in Held /\ e.seq \in Nat /\ e.useq \in Nat /\ e.seq < Limit /\ Sequenced(e) /\ e.useq = 0
        /\ DataLength(e) \in Nat
    BY AnyIs
  <1>3. Good(L, n, m, G, {}) /\ SameBut(m, p, c) /\ m.dispatched = p.dispatched /\ m.chan = p.chan
    BY <1>1, <1>2, CountedKeeps
  <1>4. PICK ch : ch = p.chan[c]
    OBVIOUS
  <1>5. Lists(L, n, ch, c) /\ Scanned(ch) /\ m \in Receiver
    BY <1>3, <1>4 DEF Good
  <1>6. PICK q \in Seq(Held) : q = ch.rel
    BY <1>5 DEF Lists, MayRun
  <1>7. /\ Counting(ch) /\ Ordered(q) /\ MayScan(L, n, ch, c)
        /\ \A i \in 1 .. Len(q) : /\ IsAny(q[i], L, n) /\ q[i].ch = c /\ IsReliable(q[i])
                                  /\ q[i].seq > ch.rseq /\ Near(ch.rseq, q[i].seq)
    BY <1>5, <1>6 DEF Lists, MayRun
  <1>8. InWindow(ch, e.seq) /\ e.seq # ch.rseq /\ ~(place > 0 /\ q[place].seq = e.seq)
    BY <1>4, <1>6 DEF Discards
  <1>9. e.seq > ch.rseq /\ Near(ch.rseq, e.seq)
    <2>1. e.seq >= ch.rseq /\ Near(ch.rseq, e.seq)
      BY <1>2, <1>7, <1>8, InWindowIs
    <2> QED
      BY <1>2, <1>7, <1>8, <2>1 DEF Counting
  <1>10. PICK w : w = InsertAt(q, place + 1, e)
    OBVIOUS
  <1>11. place \in 0 .. Len(q) /\ w \in Seq(Held) /\ InsertedIs(w, q, place, e) /\ Ordered(w)
    <2>1. Ahead(e, ch)
      BY <1>2, <1>7, <1>9 DEF Ahead, Counting
    <2>2. \A i \in 1 .. Len(q) : Ahead(q[i], ch)
      <3>1. TAKE i \in 1 .. Len(q)
      <3>2. /\ q[i] \in Held /\ q[i].seq \in Nat /\ q[i].useq \in Nat /\ q[i].seq < Limit /\ Sequenced(q[i])
        BY <1>7, AnyIs
      <3> QED
        BY <1>7, <3>2 DEF Ahead, Counting
    <2> QED
      BY <1>4, <1>6, <1>7, <1>8, <1>10, <2>1, <2>2, InsertKeepsOrder
  <1>12. PICK s : s = [m EXCEPT !.chan[c].rel = w]
    OBVIOUS
  <1>13. ListsPut(s, m, c, w, ch.unrel)
    BY <1>3, <1>4, <1>5, <1>11, <1>12, RelPut
  <1>14. MayRun(L, n, s.chan[c], c)
    <2>1. \A i \in 1 .. Len(w) : w[i] = e \/ \E k \in 1 .. Len(q) : w[i] = q[k]
      BY <1>11, InsertedFrom
    <2>2. \A i \in 1 .. Len(w) : /\ IsAny(w[i], L, n) /\ w[i].ch = c /\ IsReliable(w[i])
                                 /\ w[i].seq > ch.rseq /\ Near(ch.rseq, w[i].seq)
      BY <1>7, <1>9, <2>1
    <2>3. s.chan[c].rel = w /\ s.chan[c].rseq = ch.rseq
      BY <1>3, <1>4, <1>13 DEF ListsPut
    <2> QED
      BY <1>11, <2>2, <2>3 DEF MayRun
  <1>15. MayScan(L, n, s.chan[c], c) /\ Scanned(s.chan[c])
    <2>1. s.chan[c].unrel = ch.unrel /\ s.chan[c].rseq = ch.rseq /\ s.chan[c].useq = ch.useq
      BY <1>3, <1>4, <1>13 DEF ListsPut
    <2> QED
      BY <1>5, <1>7, <2>1 DEF MayScan, Scanned
  <1>16. Good(L, n, s, G, {})
    BY <1>3, <1>13, <1>14, <1>15, PutKeeps
  <1>17. r = DispatchReliable(s, c)
    BY <1>1, <1>3, <1>4, <1>6, <1>10, <1>12 DEF Inserted
  <1>18. Steps(L, n, s, r, G, {}, c, e)
    BY <1>2, <1>16, <1>17, RunKeeps
  <1>19. SameBut(s, p, c) /\ s.dispatched = p.dispatched
    BY <1>3, <1>13 DEF ListsPut, SameBut
  <1> QED
    BY <1>18, <1>19, StepsAfter

LEMMA UnsequencedIs ==
  ASSUME NEW L, NEW n, Known(L, n), NEW e, IsAny(e, L, n), ~Sequenced(e)
  PROVE  e.seq = 0
  <1>1. PICK p : IsOf(e, L, n, p)
    BY DEF IsAny
  <1>2. p \in 1 .. Len(L) /\ e = EntryOf(L, n, p, e.data)
    BY <1>1 DEF IsOf
  <1>3. e.kind = L[p].kind /\ e.seq = n[p].seq
    BY <1>2 DEF EntryOf
  <1>4. Stamped(L, n, p)
    BY <1>2 DEF Known
  <1> QED
    BY <1>3, <1>4 DEF Stamped, Sequenced

LEMMA ZeroIsNear ==
  ASSUME NEW R \in Nat
  PROVE  Near(R, 0)
  <1>1. WindowSize \in Nat \ {0} /\ FreeWindows \in Nat /\ FreeWindows >= 3
    BY Constants
  <1>2. PICK w \in Nat : w = R \div WindowSize
    BY <1>1, Quotient
  <1>3. 0 \div WindowSize = 0
    BY <1>1
  <1> QED
    BY <1>1, <1>2, <1>3 DEF Near

LEMMA QueuedUnreliable ==
  ASSUME NEW L, NEW n, Known(L, n), NEW p, NEW G, Good(L, n, p, G, {}), NEW c \in Channels,
         NEW e, IsAny(e, L, n), e.ch = c, ~IsReliable(e),
         NEW place, place = IF e.kind = "unsequenced" THEN 0
                            ELSE Place(p.chan[c], p.chan[c].unrel, e.seq, e.useq),
         ~Discards(p.chan[c], e, p.chan[c].unrel, place),
         NEW r, r = Inserted(Counted(p, e), e, place)
  PROVE  Steps(L, n, p, r, G, {}, c, e)
  <1>1. PICK m : m = Counted(p, e)
    OBVIOUS
  <1>2. /\ e \in Held /\ e.seq \in Nat /\ e.useq \in Nat /\ e.seq < Limit
        /\ DataLength(e) \in Nat
    BY AnyIs
  <1>3. Good(L, n, m, G, {}) /\ SameBut(m, p, c) /\ m.dispatched = p.dispatched /\ m.chan = p.chan
    BY <1>1, <1>2, CountedKeeps
  <1>4. PICK ch : ch = p.chan[c]
    OBVIOUS
  <1>5. Lists(L, n, ch, c) /\ Scanned(ch) /\ m \in Receiver
    BY <1>3, <1>4 DEF Good
  <1>6. PICK q \in Seq(Held) : q = ch.unrel
    BY <1>5 DEF Lists, MayScan
  <1>7. /\ Counting(ch) /\ Ordered(q) /\ MayRun(L, n, ch, c)
        /\ \A i \in 1 .. Len(q) : /\ IsAny(q[i], L, n) /\ q[i].ch = c /\ ~IsReliable(q[i])
                                  /\ q[i].seq = ch.rseq => q[i].useq > ch.useq
                                  /\ Sequenced(q[i]) /\ q[i].seq >= ch.rseq
                                  /\ Near(ch.rseq, q[i].seq)
    BY <1>5, <1>6 DEF Lists, MayScan, Scanned
  <1>8. Near(ch.rseq, e.seq)
    <2>1. CASE Sequenced(e)
      <3>1. InWindow(ch, e.seq)
        BY <1>4, <1>6, <2>1 DEF Discards, Sequenced
      <3> QED
        BY <1>2, <1>7, <3>1, InWindowIs
    <2>2. CASE ~Sequenced(e)
      <3>1. e.seq = 0
        BY <2>2, UnsequencedIs
      <3> QED
        BY <1>7, <3>1, ZeroIsNear DEF Counting
    <2> QED
      BY <2>1, <2>2
  <1>10. PICK w : w = InsertAt(q, place + 1, e)
    OBVIOUS
  <1>11. /\ place \in 0 .. Len(q) /\ w \in Seq(Held) /\ InsertedIs(w, q, place, e) /\ Ordered(w)
         /\ Sequenced(e) /\ e.seq = ch.rseq => e.useq > ch.useq
         /\ ~Sequenced(e) => place = 0
    <2>1. CASE Sequenced(e)
      <3>1. /\ InWindow(ch, e.seq) /\ ~(e.seq = ch.rseq /\ e.useq <= ch.useq)
            /\ ~(place > 0 /\ q[place].seq = e.seq /\ q[place].useq = e.useq)
        BY <1>4, <1>6, <2>1 DEF Discards, Sequenced
      <3>2. e.seq >= ch.rseq
        BY <1>2, <1>7, <3>1, InWindowIs
      <3>3. Ahead(e, ch)
        BY <1>2, <2>1, <3>2 DEF Ahead
      <3>4. \A i \in 1 .. Len(q) : Ahead(q[i], ch)
        <4>1. TAKE i \in 1 .. Len(q)
        <4>2. /\ q[i] \in Held /\ q[i].seq \in Nat /\ q[i].useq \in Nat /\ q[i].seq < Limit
          BY <1>7, AnyIs
        <4> QED
          BY <1>7, <4>2 DEF Ahead
      <3>5. place = Place(ch, q, e.seq, e.useq)
        BY <1>4, <1>6, <2>1 DEF Sequenced
      <3>6. e.seq = ch.rseq => e.useq > ch.useq
        BY <1>2, <1>7, <3>1 DEF Counting
      <3>7. place > 0 => ~(q[place].seq = e.seq /\ q[place].useq = e.useq)
        BY <3>1
      <3>8. place \in 0 .. Len(q) /\ w \in Seq(Held) /\ InsertedIs(w, q, place, e) /\ Ordered(w)
        BY <1>7, <1>10, <3>3, <3>4, <3>5, <3>7, InsertKeepsOrder
      <3> QED
        BY <2>1, <3>6, <3>8
    <2>2. CASE ~Sequenced(e)
      <3>1. place = 0
        BY <2>2 DEF Sequenced
      <3>2. place \in 0 .. Len(q)
        BY <3>1
      <3>3. w \in Seq(Held) /\ InsertedIs(w, q, place, e)
        BY <1>2, <1>10, <3>2, InsertAtIs
      <3>4. Ordered(w)
        <4>1. PICK l \in Nat : l = Len(q)
          OBVIOUS
        <4>2. Len(w) = l + 1 /\ w[1] = e /\ \A i \in 2 .. l + 1 : i - 1 \in 1 .. l /\ w[i] = q[i - 1]
          BY <3>1, <3>3, <4>1 DEF InsertedIs
        <4>3. ASSUME NEW i \in 1 .. l + 1, NEW j \in 1 .. l + 1, i < j, Sequenced(w[i])
              PROVE  Earlier(w[i], w[j])
          <5>1. i # 1
            BY <2>2, <4>2, <4>3
          <5>2. i - 1 \in 1 .. l /\ j - 1 \in 1 .. l /\ i - 1 < j - 1 /\ w[i] = q[i - 1] /\ w[j] = q[j - 1]
            BY <4>2, <4>3, <5>1
          <5> QED
            BY <1>7, <4>1, <5>2 DEF Ordered
        <4> QED
          BY <4>2, <4>3 DEF Ordered
      <3> QED
        BY <2>2, <3>1, <3>2, <3>3, <3>4
    <2> QED
      BY <2>1, <2>2
  <1>12. PICK s : s = [m EXCEPT !.chan[c].unrel = w]
    OBVIOUS
  <1>13. ListsPut(s, m, c, ch.rel, w)
    BY <1>3, <1>4, <1>5, <1>11, <1>12, UnrelPut
  <1>14. \A i \in 1 .. Len(w) : w[i] = e \/ \E k \in 1 .. Len(q) : w[i] = q[k]
    BY <1>11, InsertedFrom
  <1>15. s.chan[c].rel = ch.rel /\ s.chan[c].unrel = w /\ s.chan[c].rseq = ch.rseq /\ s.chan[c].useq = ch.useq
    BY <1>3, <1>4, <1>13 DEF ListsPut
  <1>16. MayRun(L, n, s.chan[c], c)
    BY <1>7, <1>15 DEF MayRun
  <1>17. MayScan(L, n, s.chan[c], c)
    <2>1. \A i \in 1 .. Len(w) : /\ IsAny(w[i], L, n) /\ w[i].ch = c /\ ~IsReliable(w[i])
                                 /\ Near(ch.rseq, w[i].seq)
                                 /\ Sequenced(w[i]) /\ w[i].seq = ch.rseq => w[i].useq > ch.useq
      BY <1>7, <1>8, <1>11, <1>14
    <2>2. \A i \in 1 .. Len(w) : ~Sequenced(w[i]) => i = 1
      <3>1. PICK l \in Nat : l = Len(q)
        OBVIOUS
      <3>2. /\ Len(w) = l + 1 /\ place \in 0 .. l
            /\ \A i \in 1 .. l + 1 : /\ i <= place => w[i] = q[i]
                                     /\ i = place + 1 => w[i] = e
                                     /\ i > place + 1 => i - 1 \in 1 .. l /\ w[i] = q[i - 1]
        BY <1>11, <3>1 DEF InsertedIs
      <3>3. ASSUME NEW i \in 1 .. l + 1, ~Sequenced(w[i])
            PROVE  i = 1
        <4>1. i = place + 1
          <5>1. CASE i <= place
            <6>1. i \in 1 .. l /\ w[i] = q[i]
              BY <3>2, <3>3, <5>1
            <6> QED
              BY <1>7, <3>1, <3>3, <6>1
          <5>2. CASE i > place + 1
            BY <1>7, <3>1, <3>2, <3>3, <5>2
          <5> QED
            BY <3>2, <5>1, <5>2
        <4>2. place = 0
          BY <1>11, <3>2, <3>3, <4>1
        <4> QED
          BY <4>1, <4>2
      <3> QED
        BY <3>2, <3>3
    <2> QED
      BY <1>11, <1>15, <2>1, <2>2 DEF MayScan
  <1>18. Good(L, n, s, G, {c})
    BY <1>3, <1>13, <1>16, <1>17, PutKeeps
  <1>19. r = DispatchUnreliable(s, c)
    BY <1>1, <1>3, <1>4, <1>6, <1>10, <1>12 DEF Inserted
  <1>20. \A i \in 1 .. Len(s.chan[c].unrel) : ~Sequenced(s.chan[c].unrel[i]) => s.chan[c].unrel[i] = e
    BY <1>7, <1>14, <1>15
  <1>21. Steps(L, n, s, r, G, {}, c, e)
    BY <1>18, <1>19, <1>20, ScanKeeps
  <1>22. SameBut(s, p, c) /\ s.dispatched = p.dispatched
    BY <1>3, <1>13 DEF ListsPut, SameBut
  <1> QED
    BY <1>21, <1>22, StepsAfter

\* enet_peer_queue_incoming_command() for a command of a packet that was sent.
LEMMA QueueKeeps ==
  ASSUME NEW L, NEW n, Known(L, n), NEW p, NEW G, Good(L, n, p, G, {}), NEW c \in Channels,
         NEW e, IsAny(e, L, n), e.ch = c, NEW q, q = QueueEntry(p, e)
  PROVE  /\ Steps(L, n, p, q.peer, G, {}, c, e)
         /\ q.result \in {"error", "dummy", "queued"}
         /\ q.result # "queued" => q.peer = p
         /\ ~Sequenced(e) => q.result # "dummy"
  <1>1. PICK place : place = IF e.kind = "unsequenced" THEN 0
                             ELSE Place(p.chan[c], Listed(p, e), e.seq, e.useq)
    OBVIOUS
  <1>2. q = QueueAt(p, e, Listed(p, e), place)
    BY <1>1 DEF QueueEntry, QueueIn
  <1>3. CASE Discards(p.chan[c], e, Listed(p, e), place)
    <2>1. q = [peer |-> p, result |-> IF Fragmented(e) THEN "error" ELSE "dummy"]
      BY <1>2, <1>3 DEF QueueAt
    <2>2. Sequenced(e)
      <3>1. IsReliable(e) => Sequenced(e)
        BY AnyIs
      <3> QED
        BY <1>3, <3>1 DEF Discards, Sequenced
    <2> QED
      BY <2>1, <2>2, StepsNot
  <1>4. CASE ~Discards(p.chan[c], e, Listed(p, e), place) /\ p.waiting >= MaximumWaiting
    <2>1. q = [peer |-> p, result |-> "error"]
      BY <1>2, <1>4 DEF QueueAt
    <2> QED
      BY <2>1, StepsNot
  <1>5. CASE ~Discards(p.chan[c], e, Listed(p, e), place) /\ ~(p.waiting >= MaximumWaiting)
    <2>1. q = [peer |-> Inserted(Counted(p, e), e, place), result |-> "queued"]
      BY <1>2, <1>5 DEF QueueAt
    <2>2. PICK r : r = Inserted(Counted(p, e), e, place)
      OBVIOUS
    <2>3. Steps(L, n, p, r, G, {}, c, e)
      <3>1. CASE IsReliable(e)
        <4>1. Listed(p, e) = p.chan[c].rel /\ e.kind # "unsequenced"
          BY <3>1, AnyIs DEF Listed, Sequenced
        <4> QED
          BY <1>1, <1>5, <2>2, <3>1, <4>1, QueuedReliable
      <3>2. CASE ~IsReliable(e)
        <4>1. Listed(p, e) = p.chan[c].unrel
          BY <3>2 DEF Listed
        <4> QED
          BY <1>1, <1>5, <2>2, <3>2, <4>1, QueuedUnreliable
      <3> QED
        BY <3>1, <3>2
    <2> QED
      BY <2>1, <2>2, <2>3
  <1> QED
    BY <1>3, <1>4, <1>5

--------------------------------------------------------------------------------
(* The receiver: a fragment is stored in the entry of its packet. *)

\* An entry of a list gets more data.
Replaced(r, q, k, f) ==
  /\ r \in Seq(Held) /\ Len(r) = Len(q) /\ r[k] = f /\ Ordered(r)
  /\ \A i \in 1 .. Len(q) : i # k => r[i] = q[i]

LEMMA ReplacedIs ==
  ASSUME NEW q \in Seq(Held), Ordered(q), NEW k \in 1 .. Len(q), NEW f \in Held,
         f.kind = q[k].kind, f.seq = q[k].seq, f.useq = q[k].useq
  PROVE  Replaced([q EXCEPT ![k] = f], q, k, f)
  <1>0. PICK r : r = [q EXCEPT ![k] = f]
    OBVIOUS
  <1>1. PICK l \in Nat : l = Len(q)
    OBVIOUS
  <1>2. r \in Seq(Held) /\ Len(r) = l /\ r[k] = f /\ \A i \in 1 .. l : i # k => r[i] = q[i]
    BY <1>0, <1>1
  <1>3. ASSUME NEW i \in 1 .. l
        PROVE  r[i].kind = q[i].kind /\ r[i].seq = q[i].seq /\ r[i].useq = q[i].useq
    BY <1>2, <1>3
  <1>4. Ordered(r)
    BY <1>1, <1>2, <1>3 DEF Ordered, Sequenced, Earlier
  <1> QED
    BY <1>0, <1>1, <1>2, <1>4 DEF Replaced

\* What is stored is of the packet of the entry.
LEMMA StoredIs ==
  ASSUME NEW L, NEW n, Known(L, n), NEW f, NEW x, IsOf(f, L, n, x), NEW d \in Parts(L, x),
         NEW g, g = [f EXCEPT !.data = @ \cup {d}]
  PROVE  /\ IsOf(g, L, n, x) /\ g \in Held /\ g.kind = f.kind /\ g.ch = f.ch /\ g.seq = f.seq
         /\ g.useq = f.useq /\ IsReliable(g) = IsReliable(f) /\ Sequenced(g) = Sequenced(f)
  <1>1. f = EntryOf(L, n, x, f.data) /\ f.data \subseteq Parts(L, x) /\ (L[x].size = 1 => f.data = Parts(L, x))
    BY DEF IsOf
  <1>2. PICK D : D = f.data \cup {d}
    OBVIOUS
  <1>3. f \in Held
    BY EntryIs DEF EntryFacts
  <1>4. g = [f EXCEPT !.data = D]
    BY <1>2, <1>3 DEF Held
  <1>5. /\ g.data = D /\ g.kind = f.kind /\ g.ch = f.ch /\ g.seq = f.seq /\ g.useq = f.useq /\ g.count = f.count
        /\ g = [kind |-> f.kind, ch |-> f.ch, seq |-> f.seq, useq |-> f.useq, count |-> f.count, data |-> D]
    BY <1>3, <1>4 DEF Held
  <1>6. g = EntryOf(L, n, x, D)
    BY <1>1, <1>5 DEF EntryOf
  <1>7. D \subseteq Parts(L, x) /\ (L[x].size = 1 => D = Parts(L, x))
    BY <1>1, <1>2
  <1>8. IsOf(g, L, n, x)
    BY <1>5, <1>6, <1>7 DEF IsOf
  <1>9. g \in Held
    BY <1>8, EntryIs DEF EntryFacts
  <1> QED
    BY <1>5, <1>8, <1>9 DEF IsReliable, Sequenced

\* Entries with the same numbers are of the same packet.
LEMMA FoundIs ==
  ASSUME NEW L, NEW n, Known(L, n), NEW e, NEW x, IsOf(e, L, n, x), NEW f, IsAny(f, L, n),
         e.ch = f.ch, Sequenced(e), Sequenced(f), f.seq = e.seq, f.useq = e.useq
  PROVE  IsOf(f, L, n, x)
  <1>1. PICK y : IsOf(f, L, n, y)
    BY DEF IsAny
  <1>2. y = x
    BY <1>1, OrderIs DEF Sequenced
  <1> QED
    BY <1>1, <1>2

LEMMA StoredReliable ==
  ASSUME NEW L, NEW n, Known(L, n), NEW p, NEW G, Good(L, n, p, G, {}), NEW c \in Channels,
         NEW e, NEW x, IsOf(e, L, n, x), e.ch = c, IsReliable(e), NEW d \in Parts(L, x),
         NEW k \in Start(p, e), NEW r, r = StoreAt(p, e, k, d)
  PROVE  Steps(L, n, p, r.peer, G, {}, c, e) /\ ~r.freed
  <1>1. PICK ch : ch = p.chan[c]
    OBVIOUS
  <1>2. Lists(L, n, ch, c) /\ Scanned(ch) /\ p \in Receiver
    BY <1>1 DEF Good
  <1>3. PICK q \in Seq(Held) : q = ch.rel
    BY <1>2 DEF Lists, MayRun
  <1>4. /\ Counting(ch) /\ Ordered(q) /\ MayScan(L, n, ch, c)
        /\ \A i \in 1 .. Len(q) : /\ IsAny(q[i], L, n) /\ q[i].ch = c /\ IsReliable(q[i])
                                  /\ q[i].seq > ch.rseq /\ Near(ch.rseq, q[i].seq)
    BY <1>2, <1>3 DEF Lists, MayRun
  <1>5. Listed(p, e) = q
    BY <1>1, <1>3 DEF Listed
  <1>6. k \in 1 .. Len(q) /\ q[k].seq = e.seq /\ q[k].useq = e.useq
    BY <1>5 DEF Start
  <1>7. Sequenced(e) /\ IsAny(e, L, n)
    <2>1. IsAny(e, L, n)
      BY DEF IsAny
    <2> QED
      BY <2>1, AnyIs
  <1>8. PICK f : f = q[k]
    OBVIOUS
  <1>9. IsOf(f, L, n, x)
    <2>1. IsAny(f, L, n) /\ f.ch = c /\ IsReliable(f) /\ f.seq = e.seq /\ f.useq = e.useq
      BY <1>4, <1>6, <1>8
    <2>2. Sequenced(f)
      BY <2>1, AnyIs
    <2> QED
      BY <1>7, <2>1, <2>2, FoundIs
  <1>10. PICK g : g = [f EXCEPT !.data = @ \cup {d}]
    OBVIOUS
  <1>11. /\ IsOf(g, L, n, x) /\ g \in Held /\ g.kind = f.kind /\ g.ch = f.ch /\ g.seq = f.seq
         /\ g.useq = f.useq /\ IsReliable(g) = IsReliable(f)
    BY <1>9, <1>10, StoredIs
  <1>12. PICK w : w = [q EXCEPT ![k] = g]
    OBVIOUS
  <1>13. /\ w \in Seq(Held) /\ Len(w) = Len(q) /\ w[k] = g /\ Ordered(w)
         /\ \A i \in 1 .. Len(q) : i # k => w[i] = q[i]
    <2>1. g.kind = q[k].kind /\ g.seq = q[k].seq /\ g.useq = q[k].useq /\ g \in Held
      BY <1>8, <1>11
    <2>2. Ordered(q) /\ k \in 1 .. Len(q)
      BY <1>4, <1>6
    <2>3. Replaced([q EXCEPT ![k] = g], q, k, g)
      BY <2>1, <2>2, ReplacedIs
    <2> QED
      BY <1>12, <2>3 DEF Replaced
  <1>14. PICK s : s = [p EXCEPT !.chan[c].rel = w]
    OBVIOUS
  <1>15. ListsPut(s, p, c, w, ch.unrel)
    BY <1>1, <1>2, <1>13, <1>14, RelPut
  <1>16. s = Stored(p, e, k, d)
    BY <1>1, <1>2, <1>3, <1>8, <1>10, <1>12, <1>14 DEF Stored, Receiver, ChanRec
  <1>17. s.chan[c].rel = w /\ s.chan[c].unrel = ch.unrel /\ s.chan[c].rseq = ch.rseq /\ s.chan[c].useq = ch.useq
    BY <1>1, <1>15 DEF ListsPut
  <1>18. MayRun(L, n, s.chan[c], c)
    <2>1. IsAny(g, L, n) /\ g.ch = c /\ IsReliable(g) /\ g.seq > ch.rseq /\ Near(ch.rseq, g.seq)
      BY <1>4, <1>6, <1>8, <1>11 DEF IsAny
    <2>2. \A i \in 1 .. Len(w) : /\ IsAny(w[i], L, n) /\ w[i].ch = c /\ IsReliable(w[i])
                                 /\ w[i].seq > ch.rseq /\ Near(ch.rseq, w[i].seq)
      BY <1>4, <1>13, <2>1
    <2> QED
      BY <1>13, <1>17, <2>2 DEF MayRun
  <1>19. MayScan(L, n, s.chan[c], c) /\ Scanned(s.chan[c])
    BY <1>2, <1>4, <1>17 DEF MayScan, Scanned
  <1>20. Good(L, n, s, G, {})
    BY <1>15, <1>18, <1>19, PutKeeps
  <1>21. /\ \/ r = Done(p, TRUE)
            \/ r = Done(s, TRUE)
            \/ r = Done(DispatchReliable(s, c), TRUE)
    BY <1>5, <1>16 DEF StoreAt, DispatchIf
  <1>22. SameBut(s, p, c) /\ s.dispatched = p.dispatched
    BY <1>15 DEF ListsPut
  <1>23. CASE r = Done(p, TRUE)
    BY <1>23, StepsNot DEF Done
  <1>24. CASE r = Done(s, TRUE)
    <2>1. Steps(L, n, s, s, G, {}, c, e)
      BY <1>20, StepsNot
    <2> QED
      BY <1>22, <1>24, <2>1, StepsAfter DEF Done
  <1>25. CASE r = Done(DispatchReliable(s, c), TRUE)
    <2>1. Steps(L, n, s, DispatchReliable(s, c), G, {}, c, e)
      BY <1>7, <1>20, RunKeeps
    <2> QED
      BY <1>22, <1>25, <2>1, StepsAfter DEF Done
  <1> QED
    BY <1>21, <1>23, <1>24, <1>25

LEMMA StoredUnreliable ==
  ASSUME NEW L, NEW n, Known(L, n), NEW p, NEW G, Good(L, n, p, G, {}), NEW c \in Channels,
         NEW e, NEW x, IsOf(e, L, n, x), e.ch = c, Sequenced(e), ~IsReliable(e), NEW d \in Parts(L, x),
         NEW k \in Start(p, e), NEW r, r = StoreAt(p, e, k, d)
  PROVE  Steps(L, n, p, r.peer, G, {}, c, e) /\ ~r.freed
  <1>1. PICK ch : ch = p.chan[c]
    OBVIOUS
  <1>2. Lists(L, n, ch, c) /\ Scanned(ch) /\ p \in Receiver
    BY <1>1 DEF Good
  <1>3. PICK q \in Seq(Held) : q = ch.unrel
    BY <1>2 DEF Lists, MayScan
  <1>4. /\ Counting(ch) /\ Ordered(q) /\ MayRun(L, n, ch, c)
        /\ \A i \in 1 .. Len(q) : /\ IsAny(q[i], L, n) /\ q[i].ch = c /\ ~IsReliable(q[i])
                                  /\ q[i].seq = ch.rseq => q[i].useq > ch.useq /\ ~Complete(q[i])
                                  /\ Sequenced(q[i]) /\ q[i].seq >= ch.rseq
                                  /\ Near(ch.rseq, q[i].seq)
    BY <1>2, <1>3 DEF Lists, MayScan, Scanned
  <1>5. Listed(p, e) = q
    BY <1>1, <1>3 DEF Listed
  <1>6. k \in 1 .. Len(q) /\ q[k].seq = e.seq /\ q[k].useq = e.useq
    BY <1>5 DEF Start
  <1>8. PICK f : f = q[k]
    OBVIOUS
  <1>9. IsOf(f, L, n, x)
    BY <1>4, <1>6, <1>8, FoundIs
  <1>10. PICK g : g = [f EXCEPT !.data = @ \cup {d}]
    OBVIOUS
  <1>11. /\ IsOf(g, L, n, x) /\ g \in Held /\ g.kind = f.kind /\ g.ch = f.ch /\ g.seq = f.seq
         /\ g.useq = f.useq /\ IsReliable(g) = IsReliable(f) /\ Sequenced(g) = Sequenced(f)
    BY <1>9, <1>10, StoredIs
  <1>12. PICK w : w = [q EXCEPT ![k] = g]
    OBVIOUS
  <1>13. /\ w \in Seq(Held) /\ Len(w) = Len(q) /\ w[k] = g /\ Ordered(w)
         /\ \A i \in 1 .. Len(q) : i # k => w[i] = q[i]
    <2>1. g.kind = q[k].kind /\ g.seq = q[k].seq /\ g.useq = q[k].useq /\ g \in Held
      BY <1>8, <1>11
    <2>2. Ordered(q) /\ k \in 1 .. Len(q)
      BY <1>4, <1>6
    <2>3. Replaced([q EXCEPT ![k] = g], q, k, g)
      BY <2>1, <2>2, ReplacedIs
    <2> QED
      BY <1>12, <2>3 DEF Replaced
  <1>14. PICK s : s = [p EXCEPT !.chan[c].unrel = w]
    OBVIOUS
  <1>15. ListsPut(s, p, c, ch.rel, w)
    BY <1>1, <1>2, <1>13, <1>14, UnrelPut
  <1>16. s = Stored(p, e, k, d)
    BY <1>1, <1>2, <1>3, <1>8, <1>10, <1>12, <1>14 DEF Stored, Receiver, ChanRec
  <1>17. s.chan[c].rel = ch.rel /\ s.chan[c].unrel = w /\ s.chan[c].rseq = ch.rseq /\ s.chan[c].useq = ch.useq
    BY <1>1, <1>15 DEF ListsPut
  <1>18. MayRun(L, n, s.chan[c], c)
    BY <1>4, <1>17 DEF MayRun
  <1>19. /\ \A i \in 1 .. Len(w) : /\ IsAny(w[i], L, n) /\ w[i].ch = c /\ ~IsReliable(w[i])
                                   /\ w[i].seq = ch.rseq => w[i].useq > ch.useq
                                   /\ Sequenced(w[i]) /\ w[i].seq >= ch.rseq
                                   /\ Near(ch.rseq, w[i].seq)
         /\ \A i \in 1 .. Len(w) : w[i].seq = ch.rseq /\ Complete(w[i]) => i = k
    <2>1. /\ IsAny(g, L, n) /\ g.ch = c /\ ~IsReliable(g) /\ Sequenced(g) /\ g.seq >= ch.rseq
          /\ g.seq = ch.rseq => g.useq > ch.useq
          /\ Near(ch.rseq, g.seq)
      BY <1>4, <1>6, <1>8, <1>11 DEF IsAny
    <2> QED
      BY <1>4, <1>13, <2>1
  <1>20. MayScan(L, n, s.chan[c], c)
    BY <1>13, <1>17, <1>19 DEF MayScan
  <1>21. PICK C \in {{c}, {}} : /\ C = IF Complete(g) THEN {c} ELSE {}
    OBVIOUS
  <1>22. Good(L, n, s, G, C)
    <2>1. ~Complete(g) => Scanned(s.chan[c])
      BY <1>13, <1>17, <1>19 DEF Scanned
    <2>2. c \in C \/ Scanned(s.chan[c])
      BY <1>21, <2>1
    <2> QED
      BY <1>15, <1>18, <1>20, <2>2, PutKeeps
  <1>23. \/ r = Done(p, TRUE)
         \/ r = Done(s, TRUE) /\ ~Complete(g)
         \/ r = Done(DispatchUnreliable(s, c), TRUE) /\ Complete(g)
    BY <1>5, <1>8, <1>10, <1>16 DEF StoreAt, DispatchIf
  <1>24. SameBut(s, p, c) /\ s.dispatched = p.dispatched
    BY <1>15 DEF ListsPut
  <1>25. CASE r = Done(p, TRUE)
    BY <1>25, StepsNot DEF Done
  <1>26. CASE r = Done(s, TRUE) /\ ~Complete(g)
    <2>1. Steps(L, n, s, s, G, {}, c, e)
      BY <1>21, <1>22, <1>26, StepsNot
    <2> QED
      BY <1>24, <1>26, <2>1, StepsAfter DEF Done
  <1>27. CASE r = Done(DispatchUnreliable(s, c), TRUE) /\ Complete(g)
    <2>1. Good(L, n, s, G, {c})
      BY <1>21, <1>22, <1>27
    <2>2. \A i \in 1 .. Len(s.chan[c].unrel) : ~Sequenced(s.chan[c].unrel[i]) => s.chan[c].unrel[i] = e
      BY <1>17, <1>19
    <2>3. Steps(L, n, s, DispatchUnreliable(s, c), G, {}, c, e)
      BY <2>1, <2>2, ScanKeeps
    <2> QED
      BY <1>24, <1>27, <2>3, StepsAfter DEF Done
  <1> QED
    BY <1>23, <1>25, <1>26, <1>27

\* Both fragment handlers, after their tests of the numbers.
LEMMA StoreKeeps ==
  ASSUME NEW L, NEW n, Known(L, n), NEW p, NEW G, Good(L, n, p, G, {}), NEW c \in Channels,
         NEW e, NEW x, IsOf(e, L, n, x), e.ch = c, Sequenced(e), NEW d \in Parts(L, x),
         NEW r, r = StoreIn(p, e, d)
  PROVE  Steps(L, n, p, r.peer, G, {}, c, e)
  <1>1. ASSUME NEW m, Good(L, n, m, G, {}), NEW k \in Start(m, e)
        PROVE  Steps(L, n, m, StoreAt(m, e, k, d).peer, G, {}, c, e)
    <2>1. CASE IsReliable(e)
      BY <1>1, <2>1, StoredReliable
    <2>2. CASE ~IsReliable(e)
      BY <1>1, <2>2, StoredUnreliable
    <2> QED
      BY <2>1, <2>2
  <1>2. CASE Start(p, e) # {}
    <2>1. PICK k : k = CHOOSE i \in Start(p, e) : TRUE
      OBVIOUS
    <2>2. k \in Start(p, e)
      BY <1>2, <2>1
    <2>3. r = Done(p, FALSE) \/ r = StoreAt(p, e, k, d)
      BY <1>2, <2>1 DEF StoreIn, StoreFound
    <2>4. r = Done(p, FALSE) => Steps(L, n, p, r.peer, G, {}, c, e)
      BY StepsNot DEF Done
    <2> QED
      BY <1>1, <2>2, <2>3, <2>4
  <1>3. CASE Start(p, e) = {}
    <2>1. PICK q : q = QueueEntry(p, e)
      OBVIOUS
    <2>2. IsAny(e, L, n)
      BY DEF IsAny
    <2>3. Steps(L, n, p, q.peer, G, {}, c, e) /\ Good(L, n, q.peer, G, {})
      <3>1. Steps(L, n, p, q.peer, G, {}, c, e)
        BY <2>1, <2>2, QueueKeeps
      <3> QED
        BY <3>1 DEF Steps
    <2>4. PICK k : k = CHOOSE i \in Start(q.peer, e) : TRUE
      OBVIOUS
    <2>5. \/ r = Done(p, FALSE)
          \/ r = [Done(q.peer, TRUE) EXCEPT !.freed = TRUE]
          \/ k \in Start(q.peer, e) /\ r = StoreAt(q.peer, e, k, d)
      BY <1>3, <2>1, <2>4 DEF StoreIn, StoreQueued
    <2>6. CASE r = Done(p, FALSE)
      BY <2>6, StepsNot DEF Done
    <2>7. CASE r = [Done(q.peer, TRUE) EXCEPT !.freed = TRUE]
      <3>1. r.peer = q.peer
        BY <2>7 DEF Done
      <3> QED
        BY <2>3, <3>1
    <2>8. CASE k \in Start(q.peer, e) /\ r = StoreAt(q.peer, e, k, d)
      <3>1. Steps(L, n, q.peer, r.peer, G, {}, c, e)
        BY <1>1, <2>3, <2>8
      <3>2. G \o p.dispatched \in Seq(Held)
        BY DEF Good, Delivered
      <3> QED
        BY <2>3, <3>1, <3>2, StepsTwice
    <2> QED
      BY <2>5, <2>6, <2>7, <2>8
  <1> QED
    BY <1>2, <1>3

--------------------------------------------------------------------------------
(* A command arrives. *)

\* The entry that a command makes is of the packet of the command.
LEMMA IncomingIs ==
  ASSUME NEW L, NEW n, Known(L, n), NEW x \in 1 .. Len(L), NEW i \in 0 .. L[x].size - 1,
         NEW cmd, cmd = CommandOf(L, n, x, i), NEW e, e = Incoming(cmd, n[x].seq)
  PROVE  /\ IsOf(e, L, n, x) /\ e.ch = L[x].ch /\ e.kind = L[x].kind
         /\ <<cmd.frag, cmd.pkt>> \in Parts(L, x)
  <1>1. /\ L[x].size \in Nat \ {0} /\ L[x].kind \in Kinds
        /\ L[x].kind \in {"fragment", "unreliableFragment"} <=> L[x].size > 1
        /\ n[x] \in Stamps /\ n[x].seq \in Nat /\ x \in Nat
    BY PacketFacts DEF Stamped
  <1>2. /\ cmd.kind = L[x].kind /\ cmd.ch = L[x].ch /\ cmd.pkt = x /\ cmd.frag = i
        /\ cmd.count = IF L[x].size > 1 THEN L[x].size ELSE 0
        /\ cmd.kind \in Unreliables => cmd.useq = n[x].useq
    BY DEF CommandOf, Unreliables
  <1>3. /\ e.kind = cmd.kind /\ e.ch = cmd.ch /\ e.seq = n[x].seq /\ e.count = cmd.count
        /\ e.useq = IF cmd.kind \in {"unreliable", "unreliableFragment"} THEN cmd.useq ELSE 0
        /\ e.data = IF Fragmented(cmd) THEN {} ELSE {<<0, cmd.pkt>>}
        /\ e = [kind |-> e.kind, ch |-> e.ch, seq |-> e.seq, useq |-> e.useq, count |-> e.count, data |-> e.data]
    BY DEF Incoming
  <1>4. e = EntryOf(L, n, x, e.data)
    <2>1. e.useq = IF L[x].kind \in Unreliables THEN n[x].useq ELSE 0
      BY <1>2, <1>3 DEF Unreliables
    <2> QED
      BY <1>2, <1>3, <2>1 DEF EntryOf
  <1>5. e.data \subseteq Parts(L, x) /\ (L[x].size = 1 => e.data = Parts(L, x))
    <2>1. CASE L[x].size = 1
      <3>1. e.data = {<<0, x>>}
        BY <1>2, <1>3, <2>1 DEF Fragmented
      <3>2. Parts(L, x) = {0} \X {x}
        <4>1. 0 .. L[x].size - 1 = {0}
          BY <2>1
        <4> QED
          BY <4>1 DEF Parts
      <3> QED
        BY <3>1, <3>2
    <2>2. CASE L[x].size > 1
      <3>1. e.data = {}
        BY <1>1, <1>2, <1>3, <2>2 DEF Fragmented
      <3> QED
        BY <1>1, <2>2, <3>1
    <2> QED
      BY <1>1, <2>1, <2>2
  <1>6. IsOf(e, L, n, x)
    BY <1>4, <1>5 DEF IsOf
  <1>7. <<i, x>> \in Parts(L, x)
    BY DEF Parts
  <1> QED
    BY <1>2, <1>3, <1>6, <1>7

\* A command that is sequenced arrives.
LEMMA SequencedKeeps ==
  ASSUME NEW L, NEW n, Known(L, n), NEW p, NEW G, Good(L, n, p, G, {}),
         NEW x \in 1 .. Len(L), NEW i \in 0 .. L[x].size - 1, NEW cmd, cmd = CommandOf(L, n, x, i),
         L[x].kind # "unsequenced", NEW r, r = Handle(p, cmd)
  PROVE  \E c \in Channels : \E e : Sequenced(e) /\ Steps(L, n, p, r.peer, G, {}, c, e)
  <1>1. PICK e : e = Incoming(cmd, n[x].seq)
    OBVIOUS
  <1>2. IsOf(e, L, n, x) /\ e.ch = L[x].ch /\ e.kind = L[x].kind /\ <<cmd.frag, cmd.pkt>> \in Parts(L, x)
    BY <1>1, IncomingIs
  <1>3. IsAny(e, L, n) /\ Sequenced(e)
    BY <1>2 DEF IsAny, Sequenced
  <1>4. PICK c \in Channels : c = L[x].ch
    BY PacketFacts
  <1>5. Steps(L, n, p, p, G, {}, c, e)
    BY StepsNot
  <1>6. cmd.kind = L[x].kind /\ cmd.ch = c
    BY <1>4 DEF CommandOf
  <1>7. L[x].kind \in Kinds
    BY PacketFacts
  <1>8. CASE L[x].kind \in {"reliable", "unreliable"}
    <2>1. cmd.seq = n[x].seq
      BY <1>8 DEF CommandOf
    <2>2. r.peer = QueueEntry(p, e).peer
      BY <1>1, <1>6, <1>8, <2>1 DEF Handle, HandleWhole, Whole, QueueIncoming, Done
    <2>3. Steps(L, n, p, QueueEntry(p, e).peer, G, {}, c, e)
      BY <1>2, <1>3, <1>4, QueueKeeps
    <2> QED
      BY <1>3, <2>2, <2>3
  <1>9. Steps(L, n, p, StoreIn(p, e, <<cmd.frag, cmd.pkt>>).peer, G, {}, c, e)
    BY <1>2, <1>3, <1>4, StoreKeeps
  <1>10. CASE L[x].kind = "fragment"
    <2>1. cmd.useq = n[x].seq
      BY <1>10 DEF CommandOf
    <2>2. r = Done(p, TRUE) \/ r = StoreIn(p, e, <<cmd.frag, cmd.pkt>>)
      BY <1>1, <1>6, <1>10, <2>1 DEF Handle, HandleFragment, StoreFragment
    <2>3. r.peer = p \/ r.peer = StoreIn(p, e, <<cmd.frag, cmd.pkt>>).peer
      BY <2>2 DEF Done
    <2> QED
      BY <1>3, <1>5, <1>9, <2>3
  <1>11. CASE L[x].kind = "unreliableFragment"
    <2>1. cmd.seq = n[x].seq
      BY <1>11 DEF CommandOf
    <2>2. r = Done(p, TRUE) \/ r = StoreIn(p, e, <<cmd.frag, cmd.pkt>>)
      BY <1>1, <1>6, <1>11, <2>1 DEF Handle, HandleUnreliableFragment, StoreFragment
    <2>3. r.peer = p \/ r.peer = StoreIn(p, e, <<cmd.frag, cmd.pkt>>).peer
      BY <2>2 DEF Done
    <2> QED
      BY <1>3, <1>5, <1>9, <2>3
  <1> QED
    BY <1>7, <1>8, <1>10, <1>11 DEF Kinds

--------------------------------------------------------------------------------
(* The window of unsequenced groups. *)

\* A group that the receiver does not take in any more.
Past(g, p) == g < p.group \/ \E j \in p.seen : g = p.group + j

WindowOf(p) ==
  /\ \E k \in Nat : p.group = k * UnsequencedSize
  /\ p.group \in Nat /\ p.group <= GroupLimit /\ p.seen \subseteq 0 .. UnsequencedSize - 1

\* What was handed over without sequence is past, and of different packets.
Taken(L, n, p, D) ==
  /\ \A i \in 1 .. Len(D) : ~Sequenced(D[i]) => Past(n[PacketOf(D[i])].useq, p)
  /\ \A i, j \in 1 .. Len(D) :
       i # j /\ ~Sequenced(D[i]) /\ ~Sequenced(D[j]) => PacketOf(D[i]) # PacketOf(D[j])

Once(L, n, p, D) == WindowOf(p) /\ Taken(L, n, p, D)

\* What is complete tells its packet.
LEMMA PacketOfIs ==
  ASSUME NEW L, NEW n, Known(L, n), NEW e, IsAny(e, L, n), Complete(e)
  PROVE  IsOf(e, L, n, PacketOf(e)) /\ PacketOf(e) \in 1 .. Len(L)
  <1>1. PICK x : IsOf(e, L, n, x)
    BY DEF IsAny
  <1>2. e.data = Parts(L, x) /\ (e.data # {} => PacketOf(e) = x)
    BY <1>1, EntryIs DEF EntryFacts
  <1>3. x \in 1 .. Len(L)
    BY <1>1 DEF IsOf
  <1>4. Parts(L, x) # {}
    <2>1. L[x].size \in Nat \ {0} /\ x \in Nat
      BY <1>3, PacketFacts
    <2> QED
      BY <2>1, PartsAre
  <1> QED
    BY <1>1, <1>2, <1>3, <1>4

\* Commands that are sequenced do not touch the window.
LEMMA OnceStays ==
  ASSUME NEW L, NEW n, NEW p, NEW r, NEW D \in Seq(Held), NEW D2 \in Seq(Held), NEW e,
         Once(L, n, p, D), Extends(D, D2, e), Sequenced(e),
         r.group = p.group, r.seen = p.seen
  PROVE  Once(L, n, r, D2)
  <1>1. PICK k \in Nat, l \in Nat : k = Len(D) /\ l = Len(D2)
    OBVIOUS
  <1>2. /\ k <= l /\ \A i \in 1 .. k : D2[i] = D[i]
        /\ \A i \in k + 1 .. l : ~Sequenced(D2[i]) => D2[i] = e
    BY <1>1 DEF Extends, Grown
  <1>3. ASSUME NEW i \in 1 .. l, ~Sequenced(D2[i])
        PROVE  i \in 1 .. k /\ D2[i] = D[i]
    BY <1>2, <1>3
  <1>4. Taken(L, n, p, D)
    BY DEF Once
  <1>5. \A i \in 1 .. l : ~Sequenced(D2[i]) => Past(n[PacketOf(D2[i])].useq, p)
    BY <1>1, <1>3, <1>4 DEF Taken
  <1>6. \A i, j \in 1 .. l :
          i # j /\ ~Sequenced(D2[i]) /\ ~Sequenced(D2[j]) => PacketOf(D2[i]) # PacketOf(D2[j])
    BY <1>1, <1>3, <1>4 DEF Taken
  <1>7. Taken(L, n, r, D2)
    BY <1>1, <1>5, <1>6 DEF Taken, Past
  <1>8. WindowOf(r)
    BY DEF Once, WindowOf
  <1> QED
    BY <1>7, <1>8 DEF Once

\* The window moves to the group of a command.
AdvancedAs(m, p, b) ==
  /\ m \in Receiver /\ m.chan = p.chan /\ m.dispatched = p.dispatched /\ m.group = b
  /\ m.waiting = p.waiting
  /\ WindowOf(m) /\ (b # p.group => m.seen = {}) /\ (b = p.group => m.seen = p.seen)
  /\ \A g \in Nat : Past(g, p) => Past(g, m)

LEMMA AdvancedIs ==
  ASSUME NEW p \in Receiver, WindowOf(p), NEW b \in Nat, NEW k \in Nat, b = k * UnsequencedSize,
         p.group <= b, b <= GroupLimit, NEW m, m = Advanced(p, b)
  PROVE  AdvancedAs(m, p, b)
  <1>1. m = IF b = p.group THEN p ELSE [p EXCEPT !.group = b, !.seen = {}]
    BY DEF Advanced
  <1>2. /\ m \in Receiver /\ m.chan = p.chan /\ m.dispatched = p.dispatched /\ m.group = b
        /\ m.waiting = p.waiting
        /\ (b # p.group => m.seen = {}) /\ (b = p.group => m.seen = p.seen)
    BY <1>1 DEF Receiver
  <1>3. WindowOf(m)
    BY <1>2 DEF WindowOf
  <1>4. ASSUME NEW g \in Nat, Past(g, p)
        PROVE  Past(g, m)
    <2>1. CASE b = p.group
      BY <1>2, <1>4, <2>1 DEF Past
    <2>2. CASE b # p.group
      <3>1. PICK h \in Nat, G \in Nat, U \in Nat \ {0} :
               G = p.group /\ G = h * UnsequencedSize /\ U = UnsequencedSize
        BY Constants DEF WindowOf
      <3>2. G < b
        BY <2>2, <3>1
      <3>3. h < k
        <4>1. CASE k <= h
          <5>1. k * U <= h * U
            BY <3>1, <4>1
          <5> QED
            BY <3>1, <3>2, <5>1
        <4> QED
          BY <4>1
      <3>4. (h + 1) * U <= k * U
        <4>1. PICK t \in Nat : k = h + 1 + t
          <5>1. k - (h + 1) \in Nat /\ k = h + 1 + (k - (h + 1))
            BY <3>3
          <5> QED
            BY <5>1
        <4>2. k * U = (h + 1) * U + t * U
          BY <4>1
        <4>3. t * U \in Nat
          BY <4>1
        <4> QED
          BY <4>2, <4>3
      <3>5. (h + 1) * U = G + U
        BY <3>1
      <3>6. G + U <= b
        BY <3>1, <3>4, <3>5
      <3>7. g < G + U
        <4>1. p.seen \subseteq 0 .. U - 1
          BY <3>1 DEF WindowOf
        <4>2. CASE g < G
          BY <4>2
        <4>3. CASE \E j \in p.seen : g = G + j
          BY <4>1, <4>3
        <4> QED
          BY <1>4, <3>1, <4>2, <4>3 DEF Past
      <3>8. g < b
        BY <3>6, <3>7
      <3> QED
        BY <1>2, <3>8 DEF Past
    <2> QED
      BY <2>1, <2>2
  <1> QED
    BY <1>2, <1>3, <1>4 DEF AdvancedAs

\* Which window a group is in, and why groups of an earlier one are refused.
GroupAt(p, g, x, b) ==
  /\ x \in 0 .. UnsequencedSize - 1 /\ b \in Nat /\ b <= GroupLimit /\ g = b + x
  /\ \E k \in Nat : b = k * UnsequencedSize
  /\ g >= p.group => p.group <= b
  /\ g < p.group => g + Groups >= p.group + FreeUnsequenced * UnsequencedSize

LEMMA GroupIs ==
  ASSUME NEW p, WindowOf(p), NEW g \in 1 .. GroupLimit, NEW x, x = g % UnsequencedSize,
         NEW b, b = g - x
  PROVE  GroupAt(p, g, x, b)
  <1>1. PICK U \in Nat \ {0}, M \in Nat : U = UnsequencedSize /\ M = GroupLimit
    BY Constants
  <1>2. PICK k \in Nat : k = g \div U
    <2>1. g \in Nat
      BY <1>1
    <2> QED
      BY <2>1, Quotient
  <1>3. x \in 0 .. U - 1 /\ g = k * U + x
    <2>1. g \in Nat
      BY <1>1
    <2> QED
      BY <1>1, <1>2, <2>1, Quotient
  <1>4. PICK K \in Nat : K = k * U
    OBVIOUS
  <1>5. b = K /\ b \in Nat /\ b <= GroupLimit /\ g = b + x
    BY <1>1, <1>3, <1>4
  <1>6. PICK h \in Nat, H \in Nat : H = p.group /\ H = h * U /\ H <= M
    BY <1>1 DEF WindowOf
  <1>7. ASSUME g >= H
        PROVE  H <= b
    <2>1. h <= k
      <3>1. CASE k < h
        <4>1. PICK t \in Nat : h = k + 1 + t
          <5>1. h - (k + 1) \in Nat /\ h = k + 1 + (h - (k + 1))
            BY <3>1
          <5> QED
            BY <5>1
        <4>2. h * U = k * U + U + t * U /\ t * U \in Nat
          BY <4>1
        <4> QED
          BY <1>3, <1>4, <1>6, <1>7, <4>2
      <3> QED
        BY <3>1
    <2>2. h * U <= k * U
      BY <2>1
    <2> QED
      BY <1>4, <1>5, <1>6, <2>2
  <1>8. g < H => g + Groups >= H + FreeUnsequenced * UnsequencedSize
    <2>1. Groups = M + M /\ M = FreeUnsequenced * UnsequencedSize
      BY <1>1, Constants DEF GroupLimit
    <2> QED
      BY <1>1, <1>6, <2>1
  <1> QED
    BY <1>1, <1>3, <1>4, <1>5, <1>6, <1>7, <1>8 DEF GroupAt

LEMMA UnsequencedKeeps ==
  ASSUME NEW L, NEW n, Known(L, n), NEW p, NEW G, Good(L, n, p, G, {}), Once(L, n, p, G \o p.dispatched),
         NEW x \in 1 .. Len(L), NEW i \in 0 .. L[x].size - 1, NEW cmd, cmd = CommandOf(L, n, x, i),
         L[x].kind = "unsequenced", NEW r, r = HandleUnsequenced(p, cmd).peer
  PROVE  Good(L, n, r, G, {}) /\ Once(L, n, r, G \o r.dispatched) /\ Grown(G \o p.dispatched, G \o r.dispatched)
  <1>1. PICK D \in Seq(Held) : D = G \o p.dispatched
    BY DEF Good, Delivered
  <1>2. Grown(D, D)
    <2>1. Len(D) \in Nat
      OBVIOUS
    <2> QED
      BY <2>1 DEF Grown
  <1>3. CASE r = p
    BY <1>1, <1>2, <1>3
  <1>4. PICK g \in 1 .. GroupLimit : g = n[x].useq /\ g = cmd.useq /\ n[x].seq = 0 /\ cmd.kind = "unsequenced"
    BY PacketFacts DEF Stamped, CommandOf
  <1>5. PICK y, b : y = g % UnsequencedSize /\ b = g - y
    OBVIOUS
  <1>6. WindowOf(p) /\ Taken(L, n, p, D) /\ p \in Receiver
    BY <1>1 DEF Once, Good
  <1>7. GroupAt(p, g, y, b)
    BY <1>5, <1>6, GroupIs
  <1>12. /\ y \in 0 .. UnsequencedSize - 1 /\ y \in Nat /\ b \in Nat /\ b <= GroupLimit /\ g = b + y
         /\ g >= p.group => p.group <= b
    BY <1>7, Constants DEF GroupAt
  <1>8. PICK e : e = Incoming(cmd, 0)
    OBVIOUS
  <1>9. PICK m : m = Advanced(p, b)
    OBVIOUS
  <1>10. PICK q : q = QueueEntry(m, e)
    OBVIOUS
  <1>11. CASE r # p
    <2>1. /\ ~(g < p.group) /\ ~(b = p.group /\ y \in p.seen)
          /\ r = Marked(q, y).peer
      <3>1. ~(g + (IF g < p.group THEN Groups ELSE 0) >= p.group + FreeUnsequenced * UnsequencedSize)
            /\ ~(b = p.group /\ y \in p.seen)
        BY <1>4, <1>5, <1>11 DEF HandleUnsequenced, Done
      <3>2. r = Marked(q, y).peer
        BY <1>4, <1>5, <1>8, <1>9, <1>10, <1>11 DEF HandleUnsequenced, Done, QueueIncoming
      <3> QED
        BY <1>7, <3>1, <3>2 DEF GroupAt
    <2>2. p.group <= b
      <3>1. PICK o \in Nat : o = p.group
        BY <1>6 DEF WindowOf
      <3>2. g \in Nat
        BY <1>4, Constants
      <3>3. ~(g < o) /\ (g >= o => o <= b)
        BY <1>12, <2>1, <3>1
      <3>4. g >= o
        BY <3>2, <3>3
      <3> QED
        BY <3>1, <3>3, <3>4
    <2>3. /\ m \in Receiver /\ m.chan = p.chan /\ m.dispatched = p.dispatched /\ m.group = b
          /\ WindowOf(m) /\ (b # p.group => m.seen = {}) /\ (b = p.group => m.seen = p.seen)
          /\ \A h \in Nat : Past(h, p) => Past(h, m)
      <3>1. PICK k \in Nat : b = k * UnsequencedSize
        BY <1>7 DEF GroupAt
      <3>2. AdvancedAs(m, p, b)
        BY <1>6, <1>9, <1>12, <2>2, <3>1, AdvancedIs
      <3> QED
        BY <3>2 DEF AdvancedAs
    <2>4. Good(L, n, m, G, {})
      BY <2>3 DEF Good
    <2>5. y \notin m.seen /\ ~Past(g, m)
      <3>1. y \notin m.seen
        BY <2>1, <2>3
      <3>2. \A j \in m.seen : g = b + j => j = y
        <4>1. m.seen \subseteq Nat
          BY <2>3, Constants DEF WindowOf
        <4>2. TAKE j \in m.seen
        <4>3. HAVE g = b + j
        <4>4. j \in Nat /\ y \in Nat /\ b \in Nat /\ b + j = b + y
          BY <1>12, <4>1, <4>2, <4>3
        <4> QED
          BY <4>4
      <3>3. ~(g < b)
        BY <1>12
      <3> QED
        BY <2>3, <3>1, <3>2, <3>3 DEF Past
    <2>6. IsOf(e, L, n, x) /\ e.ch = L[x].ch /\ e.kind = "unsequenced"
      <3>1. e = Incoming(cmd, n[x].seq)
        BY <1>4, <1>8
      <3>2. IsOf(e, L, n, x) /\ e.ch = L[x].ch /\ e.kind = L[x].kind /\ <<cmd.frag, cmd.pkt>> \in Parts(L, x)
        BY <3>1, IncomingIs
      <3> QED
        BY <3>2
    <2>7. PICK c \in Channels : c = e.ch
      BY <2>6, PacketFacts
    <2>8. IsAny(e, L, n) /\ ~Sequenced(e)
      BY <2>6 DEF IsAny, Sequenced
    <2>9. /\ Steps(L, n, m, q.peer, G, {}, c, e)
          /\ q.result \in {"error", "dummy", "queued"}
          /\ q.result # "queued" => q.peer = m
          /\ ~Sequenced(e) => q.result # "dummy"
      BY <1>10, <2>4, <2>7, <2>8, QueueKeeps
    <2>10. PICK D2 \in Seq(Held) : D2 = G \o q.peer.dispatched
      BY <2>9 DEF Steps, Good, Delivered
    <2>11. /\ Good(L, n, q.peer, G, {}) /\ Extends(D, D2, e) /\ q.peer \in Receiver
           /\ q.peer.group = m.group /\ q.peer.seen = m.seen
      BY <1>1, <2>3, <2>9, <2>10 DEF Steps, SameBut, Good
    <2>12. \A k \in 1 .. Len(D) : ~Sequenced(D[k]) => Past(n[PacketOf(D[k])].useq, m)
      <3>1. TAKE k \in 1 .. Len(D)
      <3>2. HAVE ~Sequenced(D[k])
      <3>3. IsAny(D[k], L, n) /\ Complete(D[k])
        BY <1>1 DEF Good, Delivered
      <3>4. PacketOf(D[k]) \in 1 .. Len(L)
        BY <3>3, PacketOfIs
      <3>5. n[PacketOf(D[k])].useq \in Nat
        BY <3>4, PacketFacts
      <3> QED
        BY <1>6, <2>3, <3>2, <3>5 DEF Taken
    <2>13. CASE q.result = "error"
      <3>1. r = m
        BY <2>1, <2>9, <2>13 DEF Marked, Done
      <3>2. Taken(L, n, m, D)
        BY <1>6, <2>12 DEF Taken
      <3> QED
        BY <1>1, <1>2, <2>3, <2>4, <3>1, <3>2 DEF Once
    <2>14. CASE q.result = "queued"
      <3>1. r = [q.peer EXCEPT !.seen = @ \cup {y}]
        BY <2>1, <2>14 DEF Marked, Done
      <3>2. /\ r \in Receiver /\ r.chan = q.peer.chan /\ r.dispatched = q.peer.dispatched /\ r.group = b
            /\ r.seen = m.seen \cup {y}
        <4>1. PICK S \in SUBSET Nat : S = m.seen \cup {y}
          BY <1>12, <2>3 DEF Receiver
        <4>2. r = [q.peer EXCEPT !.seen = S]
          BY <2>11, <3>1, <4>1 DEF Receiver
        <4> QED
          BY <2>3, <2>11, <4>1, <4>2 DEF Receiver
      <3>3. Good(L, n, r, G, {})
        BY <2>11, <3>2 DEF Good
      <3>4. WindowOf(r)
        BY <1>12, <2>3, <3>2 DEF WindowOf
      <3>5. Past(g, r) /\ \A h \in Nat : Past(h, m) => Past(h, r)
        BY <1>12, <2>3, <3>2 DEF Past
      <3>6. PICK k \in Nat, l \in Nat : k = Len(D) /\ l = Len(D2)
        OBVIOUS
      <3>7. /\ k <= l /\ \A j \in 1 .. k : D2[j] = D[j]
            /\ \A j \in k + 1 .. l : ~Sequenced(D2[j]) => D2[j] = e
            /\ \A j, h \in k + 1 .. l : ~Sequenced(D2[j]) /\ ~Sequenced(D2[h]) => j = h
        BY <2>11, <3>6 DEF Extends, Grown
      <3>8. PacketOf(e) = x
        <4>1. Complete(e)
          BY <2>8, AnyIs
        <4>2. PICK z : z = PacketOf(e) /\ IsOf(e, L, n, z)
          BY <2>8, <4>1, PacketOfIs
        <4>3. e.data = Parts(L, x) /\ (e.data # {} => PacketOf(e) = x)
          BY <2>6, <4>1, EntryIs DEF EntryFacts
        <4>4. Parts(L, x) # {}
          <5>1. L[x].size \in Nat \ {0} /\ x \in Nat
            BY PacketFacts
          <5> QED
            BY <5>1, PartsAre
        <4> QED
          BY <4>3, <4>4
      <3>9. \A j \in k + 1 .. l : ~Sequenced(D2[j]) => PacketOf(D2[j]) = x /\ n[PacketOf(D2[j])].useq = g
        BY <1>4, <3>7, <3>8
      <3>10. \A j \in 1 .. k : ~Sequenced(D2[j]) =>
               /\ Past(n[PacketOf(D2[j])].useq, m) /\ n[PacketOf(D2[j])].useq \in Nat
               /\ PacketOf(D2[j]) # x
        <4>1. TAKE j \in 1 .. k
        <4>2. HAVE ~Sequenced(D2[j])
        <4>3. D2[j] = D[j] /\ j \in 1 .. Len(D)
          BY <3>6, <3>7
        <4>4. Past(n[PacketOf(D2[j])].useq, m)
          BY <2>12, <4>2, <4>3
        <4>5. IsAny(D[j], L, n) /\ Complete(D[j])
          BY <1>1, <4>3 DEF Good, Delivered
        <4>6. PacketOf(D[j]) \in 1 .. Len(L)
          BY <4>5, PacketOfIs
        <4>7. n[PacketOf(D[j])].useq \in Nat
          BY <4>6, PacketFacts
        <4> QED
          BY <1>4, <2>5, <4>3, <4>4, <4>7
      <3>11. ASSUME NEW j \in 1 .. l
             PROVE  j \in 1 .. k \/ j \in k + 1 .. l
        BY <3>6
      <3>12. \A j \in 1 .. l : ~Sequenced(D2[j]) => Past(n[PacketOf(D2[j])].useq, r)
        BY <3>5, <3>9, <3>10, <3>11
      <3>13. ASSUME NEW j \in 1 .. l, NEW h \in 1 .. l, j # h, ~Sequenced(D2[j]), ~Sequenced(D2[h])
             PROVE  PacketOf(D2[j]) # PacketOf(D2[h])
        <4>1. CASE j \in 1 .. k /\ h \in 1 .. k
          BY <1>6, <3>6, <3>7, <3>13, <4>1 DEF Taken
        <4>2. CASE j \in 1 .. k /\ h \in k + 1 .. l
          BY <3>9, <3>10, <3>13, <4>2
        <4>3. CASE j \in k + 1 .. l /\ h \in 1 .. k
          BY <3>9, <3>10, <3>13, <4>3
        <4>4. CASE j \in k + 1 .. l /\ h \in k + 1 .. l
          BY <3>7, <3>13, <4>4
        <4> QED
          BY <3>11, <4>1, <4>2, <4>3, <4>4
      <3>14. Taken(L, n, r, D2)
        BY <3>6, <3>12, <3>13 DEF Taken
      <3>15. Grown(D, D2)
        BY <2>11 DEF Extends
      <3> QED
        BY <1>1, <2>10, <3>2, <3>3, <3>4, <3>14, <3>15 DEF Once
    <2> QED
      BY <2>8, <2>9, <2>13, <2>14
  <1> QED
    BY <1>3, <1>11

--------------------------------------------------------------------------------
(* The steps of the specification. *)

\* What is of a packet stays so when more packets are sent.
LEMMA IsOfGrows ==
  ASSUME NEW L, NEW n, Known(L, n), NEW M, NEW m, Known(M, m), Grown(L, M), Grown(n, m)
  PROVE  /\ \A x \in 1 .. Len(L) : x \in 1 .. Len(M) /\ M[x] = L[x] /\ m[x] = n[x]
         /\ \A e, x : IsOf(e, L, n, x) => IsOf(e, M, m, x)
         /\ \A e : IsAny(e, L, n) => IsAny(e, M, m)
  <1>1. PICK k \in Nat, l \in Nat : k = Len(L) /\ l = Len(M) /\ k = Len(n)
    BY DEF Known
  <1>2. \A x \in 1 .. Len(L) : x \in 1 .. Len(M) /\ M[x] = L[x] /\ m[x] = n[x]
    BY <1>1 DEF Grown
  <1>3. ASSUME NEW e, NEW x, IsOf(e, L, n, x)
        PROVE  IsOf(e, M, m, x)
    <2>1. x \in 1 .. Len(L) /\ x \in 1 .. Len(M) /\ M[x] = L[x] /\ m[x] = n[x]
      BY <1>2, <1>3 DEF IsOf
    <2>2. Parts(M, x) = Parts(L, x)
      BY <2>1 DEF Parts
    <2>3. EntryOf(M, m, x, e.data) = EntryOf(L, n, x, e.data)
      BY <2>1 DEF EntryOf
    <2> QED
      BY <1>3, <2>1, <2>2, <2>3 DEF IsOf
  <1> QED
    BY <1>2, <1>3 DEF IsAny

LEMMA ListsGrow ==
  ASSUME NEW L, NEW n, Known(L, n), NEW M, NEW m, Known(M, m), Grown(L, M), Grown(n, m),
         NEW ch, NEW c, Lists(L, n, ch, c)
  PROVE  Lists(M, m, ch, c)
  <1>1. /\ \A x \in 1 .. Len(L) : x \in 1 .. Len(M) /\ M[x] = L[x] /\ m[x] = n[x]
        /\ \A e : IsAny(e, L, n) => IsAny(e, M, m)
    BY IsOfGrows
  <1>2. MayRun(M, m, ch, c)
    BY <1>1 DEF Lists, MayRun
  <1>3. MayScan(M, m, ch, c)
    BY <1>1 DEF Lists, MayScan
  <1>4. Ended(M, m, ch.rseq, c)
    <2>1. Ended(L, n, ch.rseq, c)
      BY DEF Lists
    <2>2. ASSUME NEW x \in 1 .. Len(L)
          PROVE  LastOf(M, m, x) = LastOf(L, n, x) /\ x \in 1 .. Len(M) /\ M[x] = L[x]
      BY <1>1 DEF LastOf
    <2> QED
      BY <2>1, <2>2 DEF Ended
  <1> QED
    BY <1>2, <1>3, <1>4 DEF Lists

LEMMA GoodGrows ==
  ASSUME NEW L, NEW n, Known(L, n), NEW M, NEW m, Known(M, m), Grown(L, M), Grown(n, m),
         NEW p, NEW G, Good(L, n, p, G, {}), Once(L, n, p, G \o p.dispatched),
         \A x \in 1 .. Len(M) : x > Len(L) /\ M[x].kind \in Reliables => m[x].seq > p.chan[M[x].ch].rseq
  PROVE  Good(M, m, p, G, {}) /\ Once(M, m, p, G \o p.dispatched)
  <1>1. /\ \A x \in 1 .. Len(L) : x \in 1 .. Len(M) /\ M[x] = L[x] /\ m[x] = n[x]
        /\ \A e, x : IsOf(e, L, n, x) => IsOf(e, M, m, x)
        /\ \A e : IsAny(e, L, n) => IsAny(e, M, m)
    BY IsOfGrows
  <1>2. \A c \in Channels : Lists(M, m, p.chan[c], c)
    BY ListsGrow DEF Good
  <1>3. PICK D : D = G \o p.dispatched
    OBVIOUS
  <1>4. Delivered(L, n, p.chan, D) /\ Taken(L, n, p, D) /\ WindowOf(p)
    BY <1>3 DEF Good, Once
  <1>5. \A x \in 1 .. Len(M) : M[x].kind \in Reliables /\ m[x].seq <= p.chan[M[x].ch].rseq
                               => \E i \in 1 .. Len(D) : IsOf(D[i], M, m, x)
    <2>1. TAKE x \in 1 .. Len(M)
    <2>2. HAVE M[x].kind \in Reliables /\ m[x].seq <= p.chan[M[x].ch].rseq
    <2>3. PICK s \in Nat, R \in Nat : s = m[x].seq /\ R = p.chan[M[x].ch].rseq
      <3>1. M[x].ch \in Channels /\ m[x].seq \in Nat
        BY PacketFacts
      <3>2. p.chan[M[x].ch].rseq \in Nat
        BY <1>2, <3>1 DEF Lists, Counting
      <3> QED
        BY <3>1, <3>2
    <2>4. ~(x > Len(L))
      <3>1. x > Len(L) => s > R
        BY <2>2, <2>3
      <3>2. s <= R
        BY <2>2, <2>3
      <3> QED
        BY <2>3, <3>1, <3>2
    <2>5. PICK k \in Nat, l \in Nat : k = Len(L) /\ l = Len(M)
      BY DEF Known
    <2>6. x \in 1 .. Len(L)
      BY <2>4, <2>5
    <2>7. M[x] = L[x] /\ m[x] = n[x]
      BY <1>1, <2>6
    <2>8. \E i \in 1 .. Len(D) : IsOf(D[i], L, n, x)
      BY <1>4, <2>2, <2>6, <2>7 DEF Delivered
    <2> QED
      BY <1>1, <2>8
  <1>6. Delivered(M, m, p.chan, D)
    BY <1>1, <1>4, <1>5 DEF Delivered
  <1>7. Good(M, m, p, G, {})
    BY <1>2, <1>3, <1>6 DEF Good
  <1>8. Taken(M, m, p, D)
    <2>1. ASSUME NEW i \in 1 .. Len(D), ~Sequenced(D[i])
          PROVE  Past(m[PacketOf(D[i])].useq, p)
      <3>1. IsAny(D[i], L, n) /\ Complete(D[i])
        BY <1>4 DEF Delivered
      <3>2. PacketOf(D[i]) \in 1 .. Len(L)
        BY <3>1, PacketOfIs
      <3>3. m[PacketOf(D[i])] = n[PacketOf(D[i])]
        BY <1>1, <3>2
      <3> QED
        BY <1>4, <2>1, <3>3 DEF Taken
    <2> QED
      BY <1>4, <2>1 DEF Taken
  <1> QED
    BY <1>3, <1>4, <1>7, <1>8 DEF Once

\* The receiver does not know more than was sent.
LEMMA EndedIsSent ==
  ASSUME NEW L, NEW n, Known(L, n), NEW o, LastSent(o, L, n), NEW c \in Channels,
         NEW R, R \in Nat, Ended(L, n, R, c)
  PROVE  o.rseq[c] \in Nat /\ R <= o.rseq[c]
  <1>1. o.rseq[c] \in Nat
    BY DEF LastSent
  <1>2. CASE R = 0
    BY <1>1, <1>2
  <1>3. CASE \E x \in 1 .. Len(L) : L[x].ch = c /\ L[x].kind \in Reliables /\ LastOf(L, n, x) = R
    <2>1. PICK x \in 1 .. Len(L) : L[x].ch = c /\ L[x].kind \in Reliables /\ LastOf(L, n, x) = R
      BY <1>3
    <2>2. L[x].kind # "unsequenced"
      BY <2>1 DEF Reliables
    <2> QED
      BY <1>1, <2>1, <2>2 DEF LastSent
  <1> QED
    BY <1>2, <1>3 DEF Ended

(***************************************************************************)
(* The inductive invariant: the sender's packets carry numbers in the      *)
(* order of sending; every entry is of a packet that was sent; what was    *)
(* handed over is complete, in the order of the numbers and behind those   *)
(* of its channel, and no reliable packet up to the reliable number is     *)
(* missing from it; the lists are sorted and hold nothing that is behind   *)
(* or could be dispatched; and the groups that were handed over are those  *)
(* which the window refuses.                                               *)
(***************************************************************************)
Holds(n) ==
  /\ Sender(log, n, wire, out) /\ Good(log, n, peer, got, {}) /\ Once(log, n, peer, got \o peer.dispatched)
DeliveryInv == \E n : Holds(n)

\* A command arrives, whatever it is.
LEMMA HandleKeeps ==
  ASSUME NEW L, NEW n, Known(L, n), NEW p, NEW G, Good(L, n, p, G, {}), Once(L, n, p, G \o p.dispatched),
         NEW x \in 1 .. Len(L), NEW i \in 0 .. L[x].size - 1, NEW cmd, cmd = CommandOf(L, n, x, i),
         NEW r, r = Handle(p, cmd).peer
  PROVE  Good(L, n, r, G, {}) /\ Once(L, n, r, G \o r.dispatched) /\ Grown(G \o p.dispatched, G \o r.dispatched)
  <1>1. CASE L[x].kind = "unsequenced"
    <2>1. cmd.kind = "unsequenced"
      BY <1>1 DEF CommandOf
    <2>2. r = HandleUnsequenced(p, cmd).peer
      BY <2>1 DEF Handle
    <2> QED
      BY <1>1, <2>2, UnsequencedKeeps
  <1>2. CASE L[x].kind # "unsequenced"
    <2>0. PICK c \in Channels : \E e : Sequenced(e) /\ Steps(L, n, p, r, G, {}, c, e)
      BY <1>2, SequencedKeeps
    <2>1. PICK e : Sequenced(e) /\ Steps(L, n, p, r, G, {}, c, e)
      BY <2>0
    <2>2. Good(L, n, r, G, {}) /\ Extends(G \o p.dispatched, G \o r.dispatched, e)
          /\ r.group = p.group /\ r.seen = p.seen
      BY <2>1 DEF Steps, SameBut
    <2>3. PICK D \in Seq(Held), D2 \in Seq(Held) : D = G \o p.dispatched /\ D2 = G \o r.dispatched
      BY <2>2 DEF Good, Delivered
    <2>4. Once(L, n, r, D2)
      <3>1. Once(L, n, p, D) /\ Extends(D, D2, e) /\ Sequenced(e)
        BY <2>1, <2>2, <2>3
      <3>2. r.group = p.group /\ r.seen = p.seen
        BY <2>2
      <3> QED
        BY <3>1, <3>2, OnceStays
    <2> QED
      BY <2>2, <2>3, <2>4 DEF Extends
  <1> QED
    BY <1>1, <1>2

\* The application takes a packet: what was handed over is the same.
TakenFrom(L, n, p, G, r, G2) ==
  Good(L, n, r, G2, {}) /\ Once(L, n, r, G2 \o r.dispatched) /\ G2 \o r.dispatched = G \o p.dispatched

LEMMA ReceivedKeeps ==
  ASSUME NEW L, NEW n, Known(L, n), NEW p, NEW G, Good(L, n, p, G, {}), Once(L, n, p, G \o p.dispatched),
         p.dispatched # <<>>
  PROVE  TakenFrom(L, n, p, G, Received(p), Append(G, Head(p.dispatched)))
  <1>0. PICK r, G2 : r = Received(p) /\ G2 = Append(G, Head(p.dispatched))
    OBVIOUS
  <1>1. PICK d \in Seq(Held) : d = p.dispatched
    BY DEF Good, Receiver
  <1>2. p \in Receiver /\ G \in Seq(Held)
    BY DEF Good
  <1>11. PICK h, t : h = Head(d) /\ t = Tail(d)
    OBVIOUS
  <1>3. /\ h \in Held /\ t \in Seq(Held)
        /\ h = Head(d) /\ t = Tail(d) /\ Len(d) = Len(t) + 1 /\ d[1] = h
        /\ \A i \in 1 .. Len(t) : t[i] = d[i + 1]
    <2>1. d # <<>>
      BY <1>1
    <2>2. Len(d) \in Nat
      OBVIOUS
    <2>3. /\ Head(d) \in Held /\ Tail(d) \in Seq(Held) /\ Len(Tail(d)) = Len(d) - 1
          /\ \A i \in 1 .. Len(Tail(d)) : Tail(d)[i] = d[i + 1]
      BY <2>1, HeadTailProperties
    <2>4. Head(d) = d[1]
      OBVIOUS
    <2>5. Len(d) = Len(Tail(d)) + 1
      BY <2>2, <2>3
    <2> QED
      BY <1>11, <2>3, <2>4, <2>5
  <1>4. G2 \in Seq(Held) /\ G2 \o Tail(d) = G \o d
    <2>1. PICK A \in Seq(Held), B \in Seq(Held) : A = G2 \o t /\ B = G \o d
      <3>1. G2 \in Seq(Held)
        BY <1>0, <1>1, <1>2, <1>3
      <3> QED
        BY <1>1, <1>2, <1>3, <3>1, ConcatProperties
    <2>2. PICK k \in Nat, l \in Nat : k = Len(G) /\ l = Len(t)
      BY <1>2, LenProperties
    <2>3. /\ G2 \in Seq(Held) /\ Len(G2) = k + 1 /\ G2[k + 1] = h
          /\ \A i \in 1 .. k : G2[i] = G[i]
      BY <1>0, <1>1, <1>2, <1>3, <2>2
    <2>4. Joins(A, G2, t) /\ Joins(B, G, d)
      BY <1>1, <1>2, <1>3, <2>1, <2>3, JoinIs
    <2>5. Len(A) = k + 1 + l /\ Len(B) = k + (l + 1)
      BY <1>3, <2>2, <2>3, <2>4 DEF Joins
    <2>6. ASSUME NEW i \in 1 .. k + 1 + l
          PROVE  A[i] = B[i]
      <3>1. CASE i \in 1 .. k
        <4>1. A[i] = G2[i] /\ B[i] = G[i]
          <5>1. i \in 1 .. Len(G2) /\ i \in 1 .. Len(G)
            BY <2>2, <2>3, <3>1
          <5> QED
            BY <2>4, <5>1 DEF Joins
        <4> QED
          BY <2>3, <3>1, <4>1
      <3>2. CASE i = k + 1
        <4>1. A[i] = G2[k + 1]
          <5>1. i \in 1 .. Len(G2)
            BY <2>3, <3>2
          <5> QED
            BY <2>4, <3>2, <5>1 DEF Joins
        <4>2. B[i] = d[1]
          <5>1. 1 \in 1 .. Len(d)
            BY <1>3, <2>2
          <5>2. B[Len(G) + 1] = d[1]
            BY <2>4, <5>1 DEF Joins
          <5> QED
            BY <2>2, <3>2, <5>2
        <4> QED
          BY <1>3, <2>3, <4>1, <4>2
      <3>3. CASE i > k + 1
        <4>1. PICK j \in 1 .. l : i = k + 1 + j
          <5>1. i - (k + 1) \in 1 .. l /\ i = k + 1 + (i - (k + 1))
            BY <3>3
          <5> QED
            BY <5>1
        <4>2. A[i] = t[j]
          <5>1. A[Len(G2) + j] = t[j]
            BY <2>2, <2>4, <4>1 DEF Joins
          <5> QED
            BY <2>3, <4>1, <5>1
        <4>3. B[i] = d[j + 1]
          <5>1. j + 1 \in 1 .. Len(d) /\ i = k + (j + 1)
            BY <1>3, <2>2, <4>1
          <5>2. B[Len(G) + (j + 1)] = d[j + 1]
            BY <2>4, <5>1 DEF Joins
          <5> QED
            BY <2>2, <5>1, <5>2
        <4>4. t[j] = d[j + 1]
          BY <1>3, <2>2, <4>1
        <4> QED
          BY <4>2, <4>3, <4>4
      <3> QED
        BY <2>2, <2>6, <3>1, <3>2, <3>3
    <2>7. A = B
      <3>1. Len(A) = k + 1 + l /\ Len(B) = k + 1 + l
        BY <2>2, <2>5
      <3>2. Len(A) = Len(B) /\ \A i \in 1 .. Len(A) : A[i] = B[i]
        BY <2>6, <3>1
      <3> QED
        BY <3>2, SeqEqual
    <2> QED
      BY <1>3, <2>1, <2>3, <2>7
  <1>5. DataLength(Head(d)) \in Nat
    BY <1>3 DEF Held, DataLength
  <1>6. PICK w \in Int : w = p.waiting - DataLength(Head(d))
    BY <1>2, <1>5 DEF Receiver
  <1>7. r = [p EXCEPT !.dispatched = Tail(d), !.waiting = w]
    BY <1>0, <1>1, <1>2, <1>6 DEF Received, Receiver
  <1>8. /\ r \in Receiver /\ r.chan = p.chan /\ r.dispatched = Tail(d) /\ r.group = p.group
        /\ r.seen = p.seen
    BY <1>2, <1>3, <1>7 DEF Receiver
  <1>9. Good(L, n, r, G2, {})
    BY <1>1, <1>4, <1>8 DEF Good
  <1>10. Once(L, n, r, G2 \o r.dispatched)
    <2>1. PICK D : D = G \o p.dispatched
      OBVIOUS
    <2>2. WindowOf(p) /\ Taken(L, n, p, D)
      BY <2>1 DEF Once
    <2>3. WindowOf(r)
      BY <1>8, <2>2 DEF WindowOf
    <2>4. Taken(L, n, r, D)
      BY <1>8, <2>2 DEF Taken, Past
    <2> QED
      BY <1>1, <1>4, <1>8, <2>1, <2>3, <2>4 DEF Once
  <1> QED
    BY <1>0, <1>1, <1>4, <1>8, <1>9, <1>10 DEF TakenFrom

LEMMA DeliveryInit == Init => DeliveryInv
  <1>1. HAVE Init
  <1>2. PICK n \in Seq(Stamps) : n = <<>>
    BY EmptySeq
  <1>3. log = <<>> /\ log \in Seq(Logged) /\ Len(log) = 0 /\ Len(n) = 0
    BY <1>1, <1>2, EmptySeq DEF Init
  <1>4. Known(log, n)
    BY <1>3 DEF Known
  <1>5. OnWire(wire, log, n)
    BY <1>1 DEF Init, OnWire
  <1>6. LastSent(out, log, n)
    <2>1. out = [rseq |-> [c \in Channels |-> 0], useq |-> [c \in Channels |-> 0], group |-> 0]
      BY <1>1 DEF Init
    <2>2. out \in [rseq : [Channels -> Nat], useq : [Channels -> 0 .. MaxUnreliable], group : Nat]
      BY <2>1, Constants
    <2> QED
      BY <1>3, <2>1, <2>2, Constants DEF LastSent
  <1>7. /\ peer.chan = [c \in Channels |-> FreshChannel] /\ peer.dispatched = <<>> /\ peer.waiting = 0
        /\ peer.group = 0 /\ peer.seen = {} /\ peer \in Receiver /\ got = <<>>
    <2>1. peer = FreshReceiver(Channels) /\ got = <<>>
      BY <1>1 DEF Init
    <2>2. FreshChannel \in ChanRec
      BY EmptySeq DEF FreshChannel, ChanRec
    <2>3. <<>> \in Seq(Held) /\ {} \in SUBSET Nat
      BY EmptySeq
    <2> QED
      BY <2>1, <2>2, <2>3 DEF FreshReceiver, Receiver
  <1>8. PICK D \in Seq(Held) : D = got \o peer.dispatched /\ Len(D) = 0
    <2>1. <<>> \in Seq(Held) /\ Len(<<>>) = 0 /\ <<>> \o <<>> = <<>>
      BY EmptySeq, ConcatEmptySeq
    <2> QED
      BY <1>7, <2>1
  <1>9. \A c \in Channels : Lists(log, n, peer.chan[c], c) /\ Scanned(peer.chan[c]) /\ peer.chan[c].rseq = 0
    <2>1. TAKE c \in Channels
    <2>2. PICK ch : ch = peer.chan[c]
      OBVIOUS
    <2>3. /\ ch \in ChanRec /\ ch.rseq = 0 /\ ch.useq = 0 /\ ch.rel = <<>> /\ ch.unrel = <<>>
          /\ ch.rel \in Seq(Held) /\ ch.unrel \in Seq(Held) /\ Len(ch.rel) = 0 /\ Len(ch.unrel) = 0
      <3>1. ch = FreshChannel
        BY <1>7, <2>2
      <3> QED
        BY <3>1, EmptySeq DEF FreshChannel, ChanRec
    <2>4. Counting(ch) /\ Ended(log, n, ch.rseq, c)
      BY <2>3, Constants DEF Counting, Ended
    <2>5. MayRun(log, n, ch, c) /\ MayScan(log, n, ch, c) /\ Scanned(ch)
      BY <2>3 DEF MayRun, MayScan, Ordered, Scanned
    <2> QED
      BY <2>2, <2>3, <2>4, <2>5 DEF Lists
  <1>10. Delivered(log, n, peer.chan, D)
    BY <1>3, <1>8 DEF Delivered
  <1>11. Good(log, n, peer, got, {})
    BY <1>7, <1>8, <1>9, <1>10 DEF Good
  <1>12. Once(log, n, peer, D)
    BY <1>7, <1>8, Constants DEF Once, WindowOf, Taken
  <1>13. Holds(n)
    BY <1>4, <1>5, <1>6, <1>8, <1>11, <1>12 DEF Holds, Sender
  <1> QED
    BY <1>13 DEF DeliveryInv

LEMMA DeliverySend ==
  ASSUME NEW n, Holds(n), NEW c \in Channels, NEW flag, NEW size \in Sizes, Send(c, flag, size)
  PROVE  /\ DeliveryInv' /\ peer' = peer /\ got' = got
         /\ \E m : Holds(m)' /\ Known(log', m) /\ Grown(log, log') /\ Grown(n, m)
  <1>1. Sender(log, n, wire, out) /\ Known(log, n) /\ LastSent(out, log, n)
        /\ Good(log, n, peer, got, {}) /\ Once(log, n, peer, got \o peer.dispatched)
    BY DEF Holds, Sender
  <1>2. PICK m : /\ Sender(log', m, wire', out') /\ Grown(log, log') /\ Grown(n, m)
                 /\ log' \in Seq(Logged) /\ m \in Seq(Stamps)
                 /\ \A x \in 1 .. Len(log') : x > Len(log) /\ log'[x].kind \in Reliables
                                              => m[x].seq > out.rseq[log'[x].ch]
    BY <1>1, SendKeeps
  <1>3. peer' = peer /\ got' = got
    BY DEF Send
  <1>4. Known(log', m)
    BY <1>2 DEF Sender
  <1>5. ASSUME NEW x \in 1 .. Len(log'), x > Len(log), log'[x].kind \in Reliables
        PROVE  m[x].seq > peer.chan[log'[x].ch].rseq
    <2>1. PICK d \in Channels : d = log'[x].ch
      BY <1>4, PacketFacts
    <2>2. PICK R \in Nat : R = peer.chan[d].rseq /\ Ended(log, n, R, d)
      BY <1>1 DEF Good, Lists, Counting
    <2>3. out.rseq[d] \in Nat /\ R <= out.rseq[d]
      BY <1>1, <2>2, EndedIsSent
    <2>4. m[x].seq > out.rseq[d]
      BY <1>2, <1>5, <2>1
    <2>5. m[x].seq \in Nat
      BY <1>4, PacketFacts
    <2> QED
      BY <2>1, <2>2, <2>3, <2>4, <2>5
  <1>6. Good(log', m, peer, got, {}) /\ Once(log', m, peer, got \o peer.dispatched)
    BY <1>1, <1>2, <1>4, <1>5, GoodGrows
  <1>7. Holds(m)'
    BY <1>2, <1>3, <1>6 DEF Holds
  <1> QED
    BY <1>2, <1>3, <1>4, <1>7 DEF DeliveryInv

LEMMA DeliveryArrive ==
  ASSUME NEW n, Holds(n), NEW cmd \in wire, Arrive(cmd)
  PROVE  DeliveryInv' /\ Holds(n)' /\ log' = log /\ Grown(Dispatched, Dispatched')
  <1>1. /\ Known(log, n) /\ OnWire(wire, log, n) /\ Good(log, n, peer, got, {})
        /\ Once(log, n, peer, got \o peer.dispatched)
    BY DEF Holds, Sender
  <1>2. PICK x \in 1 .. Len(log) : \E i \in 0 .. log[x].size - 1 : cmd = CommandOf(log, n, x, i)
    BY <1>1 DEF OnWire
  <1>7. PICK i \in 0 .. log[x].size - 1 : cmd = CommandOf(log, n, x, i)
    BY <1>2
  <1>3. peer' = Handle(peer, cmd).peer /\ UNCHANGED <<out, wire, log, got>>
    BY DEF Arrive
  <1>4. PICK r : r = Handle(peer, cmd).peer
    OBVIOUS
  <1>5. Good(log, n, r, got, {}) /\ Once(log, n, r, got \o r.dispatched)
        /\ Grown(got \o peer.dispatched, got \o r.dispatched)
    BY <1>1, <1>4, <1>7, HandleKeeps
  <1>6. Holds(n)'
    BY <1>3, <1>4, <1>5 DEF Holds
  <1> QED
    BY <1>3, <1>4, <1>5, <1>6 DEF DeliveryInv, Dispatched

LEMMA DeliveryReceive ==
  ASSUME NEW n, Holds(n), Receive
  PROVE  DeliveryInv' /\ Holds(n)' /\ log' = log /\ Dispatched' = Dispatched
  <1>1. /\ Known(log, n) /\ Good(log, n, peer, got, {}) /\ Once(log, n, peer, got \o peer.dispatched)
    BY DEF Holds, Sender
  <1>2. /\ peer.dispatched # <<>> /\ peer' = Received(peer) /\ got' = Append(got, Head(peer.dispatched))
        /\ UNCHANGED <<out, wire, log, freed>>
    BY DEF Receive
  <1>3. TakenFrom(log, n, peer, got, Received(peer), Append(got, Head(peer.dispatched)))
    BY <1>1, <1>2, ReceivedKeeps
  <1>4. TakenFrom(log, n, peer, got, peer', got')
    BY <1>2, <1>3
  <1>5. Holds(n)'
    BY <1>2, <1>4 DEF Holds, TakenFrom
  <1> QED
    BY <1>2, <1>4, <1>5 DEF DeliveryInv, Dispatched, TakenFrom

LEMMA DeliveryNext == DeliveryInv /\ [Next]_vars => DeliveryInv'
  <1>1. HAVE DeliveryInv /\ [Next]_vars
  <1>2. PICK n : Holds(n)
    BY <1>1 DEF DeliveryInv
  <1>3. ASSUME NEW c \in Channels, NEW flag \in Flags, NEW size \in Sizes, Send(c, flag, size)
        PROVE  DeliveryInv'
    BY <1>2, <1>3, DeliverySend
  <1>4. ASSUME NEW cmd \in wire, Arrive(cmd)
        PROVE  DeliveryInv'
    BY <1>2, <1>4, DeliveryArrive
  <1>5. CASE Receive
    BY <1>2, <1>5, DeliveryReceive
  <1>6. CASE UNCHANGED vars
    <2>1. Holds(n)'
      BY <1>2, <1>6 DEF Holds, vars
    <2> QED
      BY <2>1 DEF DeliveryInv
  <1> QED
    BY <1>1, <1>3, <1>4, <1>5, <1>6 DEF Next

LEMMA DeliveryAlways == Spec => []DeliveryInv
  BY DeliveryInit, DeliveryNext, PTL DEF Spec

\* What the invariant says of what was handed over.
LEMMA DispatchedIs ==
  ASSUME NEW n, Holds(n), NEW i \in DOMAIN Dispatched
  PROVE  /\ i \in 1 .. Len(Dispatched) /\ PacketOf(Dispatched[i]) \in 1 .. Len(log)
         /\ Known(log, n) /\ IsOf(Dispatched[i], log, n, PacketOf(Dispatched[i]))
         /\ Dispatched[i].kind = log[PacketOf(Dispatched[i])].kind
         /\ Dispatched[i].ch = log[PacketOf(Dispatched[i])].ch
         /\ Dispatched[i].data = Parts(log, PacketOf(Dispatched[i]))
  <1>1. Known(log, n) /\ Delivered(log, n, peer.chan, Dispatched) /\ Dispatched \in Seq(Held)
    BY DEF Holds, Sender, Good, Delivered, Dispatched
  <1>2. i \in 1 .. Len(Dispatched)
    BY <1>1
  <1>3. PICK e : e = Dispatched[i]
    OBVIOUS
  <1>4. IsAny(e, log, n) /\ Complete(e)
    BY <1>1, <1>2, <1>3 DEF Delivered
  <1>5. PICK p : p = PacketOf(e)
    OBVIOUS
  <1>6. IsOf(e, log, n, p) /\ p \in 1 .. Len(log)
    BY <1>1, <1>4, <1>5, PacketOfIs
  <1>7. e.kind = log[p].kind /\ e.ch = log[p].ch /\ e.data = Parts(log, p)
    BY <1>1, <1>4, <1>6, EntryIs DEF EntryFacts
  <1> QED
    BY <1>1, <1>2, <1>3, <1>5, <1>6, <1>7

(***************************************************************************)
(* Whatever the network loses, repeats and reorders, a packet is handed to *)
(* the application whole: with all of its fragments, in their places, and  *)
(* none of another packet (enet_peer_queue_incoming_command(), the two     *)
(* handlers of fragments and the two dispatch functions).                  *)
(***************************************************************************)
THEOREM AlwaysHandedOverWhole == Spec => []HandedOverWhole
  <1>1. DeliveryInv => HandedOverWhole
    <2>1. HAVE DeliveryInv
    <2>2. PICK n : Holds(n)
      BY <2>1 DEF DeliveryInv
    <2> QED
      BY <2>2, DispatchedIs DEF HandedOverWhole, Parts
  <1> QED
    BY <1>1, DeliveryAlways, PTL

(***************************************************************************)
(* No packet comes twice, and on a channel none comes behind one that was  *)
(* sent later, reliable or not, although the two kinds wait in separate    *)
(* lists and lost unreliable packets are skipped.                          *)
(***************************************************************************)
THEOREM AlwaysAtMostOnceInOrder == Spec => []AtMostOnceInOrder
  <1>1. DeliveryInv => InOrder
    <2>1. HAVE DeliveryInv
    <2>2. PICK n : Holds(n)
      BY <2>1 DEF DeliveryInv
    <2>3. ASSUME NEW c \in Channels, NEW i \in OnChannel(c), NEW j \in OnChannel(c), i < j
          PROVE  PacketOf(Dispatched[i]) < PacketOf(Dispatched[j])
      <3>1. /\ i \in DOMAIN Dispatched /\ j \in DOMAIN Dispatched
            /\ Dispatched[i].ch = c /\ Dispatched[j].ch = c
            /\ Dispatched[i].kind # "unsequenced" /\ Dispatched[j].kind # "unsequenced"
        BY DEF OnChannel
      <3>2. PICK e, f, p, q : /\ e = Dispatched[i] /\ f = Dispatched[j]
                              /\ p = PacketOf(Dispatched[i]) /\ q = PacketOf(Dispatched[j])
        OBVIOUS
      <3>3. Known(log, n) /\ IsOf(e, log, n, p) /\ IsOf(f, log, n, q)
        BY <2>2, <3>1, <3>2, DispatchedIs
      <3>4. Earlier(e, f)
        <4>1. Delivered(log, n, peer.chan, Dispatched)
          BY <2>2 DEF Holds, Good, Dispatched
        <4>2. i \in 1 .. Len(Dispatched) /\ j \in 1 .. Len(Dispatched)
          BY <2>2, <3>1, DispatchedIs
        <4> QED
          BY <2>3, <3>1, <3>2, <4>1, <4>2 DEF Delivered, Sequenced
      <3>5. p < q
        BY <3>1, <3>2, <3>3, <3>4, OrderIs
      <3> QED
        BY <3>2, <3>5
    <2> QED
      BY <2>3 DEF InOrder
  <1>2. DeliveryInv => UnsequencedOnce
    <2>1. HAVE DeliveryInv
    <2>2. PICK n : Holds(n)
      BY <2>1 DEF DeliveryInv
    <2>3. ASSUME NEW i \in DOMAIN Dispatched, NEW j \in DOMAIN Dispatched, i # j,
                 Dispatched[i].kind = "unsequenced", PacketOf(Dispatched[i]) = PacketOf(Dispatched[j])
          PROVE  FALSE
      <3>1. Dispatched[j].kind = "unsequenced"
        BY <2>2, <2>3, DispatchedIs
      <3>2. i \in 1 .. Len(Dispatched) /\ j \in 1 .. Len(Dispatched)
        BY <2>2, <2>3, DispatchedIs
      <3>3. Taken(log, n, peer, Dispatched)
        BY <2>2 DEF Holds, Once, Dispatched
      <3> QED
        BY <2>3, <3>1, <3>2, <3>3 DEF Taken, Sequenced
    <2> QED
      BY <2>3 DEF UnsequencedOnce
  <1>3. DeliveryInv => AtMostOnceInOrder
    BY <1>1, <1>2 DEF AtMostOnceInOrder
  <1> QED
    BY <1>3, DeliveryAlways, PTL

--------------------------------------------------------------------------------
(* Each channel is a ReliableChannel for its reliable packets. *)

\* The numbers of a set can be told in their order in one way only.
LEMMA EnumeratesOne ==
  ASSUME NEW S, NEW R \in Nat, \A x \in S : x <= R, NEW p, Enumerates(p, S), NEW q, Enumerates(q, S)
  PROVE  p = q
  <1>1. {x \in S : x <= R} = S
    OBVIOUS
  <1>2. Len(q) <= Len(p) /\ q = SubSeq(p, 1, Len(q))
    BY <1>1, EnumeratesPrefix
  <1>3. Len(p) <= Len(q)
    BY <1>1, EnumeratesPrefix
  <1>4. p \in Seq(Nat) /\ q \in Seq(Nat)
    BY DEF Enumerates
  <1>5. Len(p) \in Nat /\ Len(q) \in Nat
    BY <1>4
  <1>6. Len(p) = Len(q)
    BY <1>2, <1>3, <1>5
  <1>7. SubSeq(p, 1, Len(p)) = p
    BY <1>4, SubSeqFull
  <1> QED
    BY <1>2, <1>6, <1>7

\* The reliable packets of a channel.
ReliableOn(L, c) == {x \in 1 .. Len(L) : L[x].ch = c /\ L[x].kind \in Reliables}

LEMMA SentIs ==
  ASSUME NEW c, log \in Seq(Logged)
  PROVE  Enumerates(SentReliably(c), ReliableOn(log, c))
  <1>1. PICK S : S = ReliableOn(log, c)
    OBVIOUS
  <1>2. DOMAIN log = 1 .. Len(log) /\ Len(log) \in Nat
    OBVIOUS
  <1>3. SentReliably(c) = Pick([i \in DOMAIN log |-> i], S)
    BY <1>1, <1>2 DEF SentReliably, ReliableOn, Reliables
  <1>4. S \subseteq Nat /\ IsFiniteSet(S) /\ S \subseteq 1 .. Len(log)
    <2>1. S \subseteq 1 .. Len(log)
      BY <1>1 DEF ReliableOn
    <2>2. IsFiniteSet(1 .. Len(log))
      BY <1>2, FS_Interval
    <2>3. IsFiniteSet(S)
      BY <2>1, <2>2, FS_Subset
    <2> QED
      BY <1>2, <2>1, <2>3
  <1>5. ListsAt(SentReliably(c), [i \in DOMAIN log |-> i], S)
    BY <1>3, <1>4, PickLists
  <1>6. PICK f : Enumerates(f, S) /\ SentReliably(c) = [k \in 1 .. Len(f) |-> [i \in DOMAIN log |-> i][f[k]]]
    BY <1>5 DEF ListsAt
  <1>7. \A k \in 1 .. Len(f) : [i \in DOMAIN log |-> i][f[k]] = f[k]
    BY <1>2, <1>4, <1>6 DEF Enumerates
  <1>8. SentReliably(c) = [k \in 1 .. Len(f) |-> f[k]]
    BY <1>6, <1>7
  <1>9. f \in Seq(Nat)
    BY <1>6 DEF Enumerates
  <1>10. f = [k \in 1 .. Len(f) |-> f[k]]
    BY <1>9
  <1> QED
    BY <1>1, <1>6, <1>8, <1>10

\* The packets of a channel up to a reliable number are those up to some packet.
LEMMA ReceivedUpTo ==
  ASSUME NEW L, NEW n, Known(L, n), NEW c, NEW R \in Nat
  PROVE  \E B \in Nat : {x \in ReliableOn(L, c) : n[x].seq <= R} = {x \in ReliableOn(L, c) : x <= B}
  <1>1. PICK T : T = {x \in ReliableOn(L, c) : n[x].seq <= R}
    OBVIOUS
  <1>2. PICK l \in Nat : l = Len(L)
    BY DEF Known
  <1>3. T \subseteq 1 .. l
    BY <1>1, <1>2 DEF ReliableOn
  <1>4. CASE T = {}
    <2>1. {x \in ReliableOn(L, c) : x <= 0} = {}
      BY <1>2 DEF ReliableOn
    <2> QED
      BY <1>1, <1>4, <2>1
  <1>5. CASE T # {}
    <2>1. PICK B : B = Max(T)
      OBVIOUS
    <2>2. B \in T /\ \A x \in T : x <= B
      <3>1. T \subseteq 0 .. l
        BY <1>3
      <3> QED
        BY <1>5, <2>1, <3>1, GreatestIsIn
    <2>3. B \in Nat /\ B \in 1 .. Len(L) /\ B \in ReliableOn(L, c) /\ n[B].seq <= R
      BY <1>1, <1>2, <1>3, <2>2
    <2>4. ASSUME NEW x \in ReliableOn(L, c), x <= B
          PROVE  x \in T
      <3>1. x \in 1 .. Len(L) /\ x \in Nat /\ L[x].ch = c /\ L[x].kind \in Reliables
        BY <1>2, <2>4 DEF ReliableOn
      <3>2. n[x].seq <= n[B].seq
        <4>1. CASE x = B
          <5>1. n[B].seq \in Nat
            BY <2>3, PacketFacts
          <5> QED
            BY <4>1, <5>1
        <4>2. CASE x < B
          <5>1. InTurn(L, n, x, B)
            BY <2>3, <3>1, <4>2 DEF Known
          <5>2. L[B].ch = c /\ L[B].kind \in Reliables
            BY <2>3 DEF ReliableOn
          <5>3. LastOf(L, n, x) < n[B].seq
            BY <3>1, <5>1, <5>2 DEF InTurn, Reliables
          <5>4. n[x].seq <= LastOf(L, n, x) /\ n[x].seq \in Nat /\ LastOf(L, n, x) \in Nat
            BY <3>1, PacketFacts
          <5>5. n[B].seq \in Nat
            BY <2>3, PacketFacts
          <5> QED
            BY <5>3, <5>4, <5>5
        <4> QED
          BY <2>3, <2>4, <3>1, <4>1, <4>2
      <3>3. n[x].seq \in Nat /\ n[B].seq \in Nat
        BY <2>3, <3>1, PacketFacts
      <3>4. n[x].seq <= R
        BY <2>3, <3>2, <3>3
      <3> QED
        BY <1>1, <2>4, <3>4
    <2>5. T = {x \in ReliableOn(L, c) : x <= B}
      BY <1>1, <2>2, <2>4
    <2> QED
      BY <1>1, <2>3, <2>5
  <1> QED
    BY <1>4, <1>5

\* Where the reliable packets of a channel are in what was handed over.
ReliablyAt(c) == {i \in OnChannel(c) : IsReliable(Dispatched[i])}

\* What was handed over of a channel is the beginning of what was sent.
LEMMA GotIs ==
  ASSUME NEW n, Holds(n), NEW c \in Channels
  PROVE  /\ \E B \in Nat : Enumerates(GotReliably(c), {x \in ReliableOn(log, c) : x <= B})
         /\ \A x \in Nat : (\E k \in 1 .. Len(GotReliably(c)) : GotReliably(c)[k] = x)
                           <=> \E i \in ReliablyAt(c) : PacketOf(Dispatched[i]) = x
  <1>1. Known(log, n) /\ Delivered(log, n, peer.chan, Dispatched) /\ Dispatched \in Seq(Held)
        /\ Lists(log, n, peer.chan[c], c)
    BY DEF Holds, Sender, Good, Delivered, Dispatched
  <1>2. PICK R \in Nat : R = peer.chan[c].rseq
    BY <1>1 DEF Lists, Counting
  <1>3. PICK B \in Nat : {x \in ReliableOn(log, c) : n[x].seq <= R} = {x \in ReliableOn(log, c) : x <= B}
    <2>1. Known(log, n)
      BY <1>1
    <2> QED
      BY <2>1, ReceivedUpTo
  <1>4. PICK T : T = ReliablyAt(c)
    OBVIOUS
  <1>5. PICK pk : pk = [i \in DOMAIN Dispatched |-> PacketOf(Dispatched[i])]
    OBVIOUS
  <1>6. GotReliably(c) = Pick(pk, T)
    BY <1>4, <1>5 DEF GotReliably, ReliablyAt
  <1>7. DOMAIN Dispatched = 1 .. Len(Dispatched) /\ Len(Dispatched) \in Nat
    BY <1>1
  <1>8. T \subseteq 1 .. Len(Dispatched) /\ T \subseteq Nat /\ IsFiniteSet(T) /\ T \subseteq DOMAIN Dispatched
    <2>1. T \subseteq 1 .. Len(Dispatched)
      BY <1>4, <1>7 DEF ReliablyAt, OnChannel
    <2>2. IsFiniteSet(1 .. Len(Dispatched))
      BY <1>7, FS_Interval
    <2>3. IsFiniteSet(T)
      BY <2>1, <2>2, FS_Subset
    <2> QED
      BY <1>7, <2>1, <2>3
  <1>9. ListsAt(Pick(pk, T), pk, T)
    BY <1>8, PickLists
  <1>10. PICK f : Enumerates(f, T) /\ GotReliably(c) = [k \in 1 .. Len(f) |-> pk[f[k]]]
    BY <1>6, <1>9 DEF ListsAt
  <1>11. PICK g : g = GotReliably(c)
    OBVIOUS
  <1>12. PICK l \in Nat : l = Len(f)
    BY <1>10 DEF Enumerates
  <1>13. \A k \in 1 .. l : f[k] \in T /\ g[k] = pk[f[k]]
    BY <1>10, <1>11, <1>12 DEF Enumerates
  <1>14. ASSUME NEW i \in T
         PROVE  /\ pk[i] = PacketOf(Dispatched[i]) /\ pk[i] \in ReliableOn(log, c) /\ pk[i] \in Nat
                /\ n[pk[i]].seq <= R /\ i \in 1 .. Len(Dispatched)
                /\ Sequenced(Dispatched[i]) /\ Dispatched[i].ch = c /\ IsOf(Dispatched[i], log, n, pk[i])
    <2>1. /\ i \in DOMAIN Dispatched /\ Dispatched[i].ch = c /\ Dispatched[i].kind # "unsequenced"
          /\ IsReliable(Dispatched[i])
      BY <1>4 DEF ReliablyAt, OnChannel
    <2>2. PICK p : p = PacketOf(Dispatched[i])
      OBVIOUS
    <2>3. PICK e : e = Dispatched[i]
      OBVIOUS
    <2>4. /\ i \in 1 .. Len(Dispatched) /\ p \in 1 .. Len(log) /\ IsOf(e, log, n, p)
          /\ e.kind = log[p].kind /\ e.ch = log[p].ch
      BY <2>1, <2>2, <2>3, DispatchedIs
    <2>5. pk[i] = p
      BY <1>5, <2>1, <2>2
    <2>6. p \in ReliableOn(log, c)
      BY <2>1, <2>3, <2>4 DEF ReliableOn, IsReliable, Reliables
    <2>7. n[p].seq \in Nat /\ e.seq = n[p].seq
      BY <1>1, <2>4, EntryIs, PacketFacts DEF EntryFacts
    <2>8. Behind(e, peer.chan[c])
      BY <1>1, <2>1, <2>3, <2>4 DEF Delivered, Sequenced
    <2>9. n[p].seq <= R
      BY <1>2, <2>7, <2>8 DEF Behind
    <2>10. p \in Nat
      BY <1>1, <2>4, PacketFacts
    <2> QED
      BY <2>1, <2>2, <2>3, <2>4, <2>5, <2>6, <2>9, <2>10 DEF Sequenced
  <1>15. g \in Seq(Nat) /\ Len(g) = l
    <2>1. \A k \in 1 .. l : pk[f[k]] \in Nat
      BY <1>13, <1>14
    <2>2. g = [k \in 1 .. l |-> pk[f[k]]]
      BY <1>10, <1>11, <1>12
    <2> QED
      BY <2>1, <2>2
  <1>16. ASSUME NEW k \in 1 .. l, NEW h \in 1 .. l, k < h
         PROVE  g[k] < g[h]
    <2>1. PICK i, j : i = f[k] /\ j = f[h]
      OBVIOUS
    <2>2. i \in T /\ j \in T /\ i < j
      BY <1>10, <1>12, <1>13, <1>16, <2>1 DEF Enumerates
    <2>3. PICK p, q, e, d : p = pk[i] /\ q = pk[j] /\ e = Dispatched[i] /\ d = Dispatched[j]
      OBVIOUS
    <2>4. /\ IsOf(e, log, n, p) /\ IsOf(d, log, n, q) /\ e.ch = c /\ d.ch = c
          /\ Sequenced(e) /\ Sequenced(d)
      BY <1>14, <2>2, <2>3
    <2>5. Earlier(e, d)
      <3>1. i \in 1 .. Len(Dispatched) /\ j \in 1 .. Len(Dispatched)
        BY <1>14, <2>2
      <3> QED
        BY <1>1, <2>2, <2>3, <2>4, <3>1 DEF Delivered
    <2>6. p < q
      BY <1>1, <2>4, <2>5, OrderIs DEF Sequenced
    <2> QED
      BY <1>13, <2>1, <2>3, <2>6
  <1>17. \A k \in 1 .. l : g[k] \in {x \in ReliableOn(log, c) : x <= B}
    <2>1. TAKE k \in 1 .. l
    <2>2. g[k] \in {x \in ReliableOn(log, c) : n[x].seq <= R}
      BY <1>13, <1>14
    <2> QED
      BY <1>3, <2>2
  <1>18. ASSUME NEW i \in T
         PROVE  \E k \in 1 .. l : g[k] = pk[i]
    <2>1. PICK k \in 1 .. l : f[k] = i
      BY <1>10, <1>12 DEF Enumerates
    <2> QED
      BY <1>13, <2>1
  <1>19. ASSUME NEW x \in {y \in ReliableOn(log, c) : y <= B}
         PROVE  \E k \in 1 .. l : g[k] = x
    <2>1. x \in {y \in ReliableOn(log, c) : n[y].seq <= R}
      BY <1>3
    <2>2. x \in 1 .. Len(log) /\ log[x].ch = c /\ log[x].kind \in Reliables /\ n[x].seq <= R
      BY <2>1 DEF ReliableOn
    <2>3. PICK i \in 1 .. Len(Dispatched) : IsOf(Dispatched[i], log, n, x)
      BY <1>1, <1>2, <2>2 DEF Delivered
    <2>4. PICK e : e = Dispatched[i]
      OBVIOUS
    <2>5. e.kind = log[x].kind /\ e.ch = c /\ IsReliable(e)
      BY <1>1, <2>2, <2>3, <2>4, EntryIs DEF EntryFacts
    <2>6. i \in T
      BY <1>4, <1>7, <2>2, <2>3, <2>4, <2>5 DEF ReliablyAt, OnChannel, Reliables
    <2>7. pk[i] = x
      <3>1. IsOf(e, log, n, pk[i]) /\ IsOf(e, log, n, x)
        BY <1>14, <2>3, <2>4, <2>6
      <3>2. e.kind # "unsequenced"
        BY <2>2, <2>5 DEF Reliables
      <3> QED
        BY <1>1, <3>1, <3>2, OrderIs
    <2> QED
      BY <1>18, <2>6, <2>7
  <1>20. Enumerates(g, {x \in ReliableOn(log, c) : x <= B})
    BY <1>15, <1>16, <1>17, <1>19 DEF Enumerates
  <1>21. \A x \in Nat : (\E k \in 1 .. Len(g) : g[k] = x) <=> \E i \in T : PacketOf(Dispatched[i]) = x
    BY <1>13, <1>14, <1>15, <1>18
  <1> QED
    BY <1>4, <1>11, <1>20, <1>21

\* What a channel has handed over is the beginning of what was sent there.
GotFirst(c) ==
  /\ Enumerates(SentReliably(c), ReliableOn(log, c))
  /\ \E B \in Nat : Enumerates(GotReliably(c), {x \in ReliableOn(log, c) : x <= B})
  /\ \A x \in Nat : (\E k \in 1 .. Len(GotReliably(c)) : GotReliably(c)[k] = x)
                    <=> \E i \in ReliablyAt(c) : PacketOf(Dispatched[i]) = x
ChannelInv ==
  /\ log \in Seq(Logged) /\ Dispatched \in Seq(Held)
  /\ \A c \in Channels : GotFirst(c)

LEMMA ChannelAlways == Spec => []ChannelInv
  <1>1. DeliveryInv => ChannelInv
    <2>1. HAVE DeliveryInv
    <2>2. PICK n : Holds(n)
      BY <2>1 DEF DeliveryInv
    <2>3. log \in Seq(Logged) /\ Dispatched \in Seq(Held)
      BY <2>2 DEF Holds, Sender, Known, Good, Delivered, Dispatched
    <2>4. ASSUME NEW c \in Channels
          PROVE  GotFirst(c)
      <3>1. Enumerates(SentReliably(c), ReliableOn(log, c))
        BY <2>3, SentIs
      <3> QED
        BY <2>2, <3>1, GotIs DEF GotFirst
    <2> QED
      BY <2>3, <2>4 DEF ChannelInv
  <1> QED
    BY <1>1, DeliveryAlways, PTL

\* Of two beginnings one of which has all of the other, it is that one or longer.
LEMMA BeginningGrows ==
  ASSUME NEW p, NEW S, Enumerates(p, S), NEW B \in Nat, NEW C \in Nat,
         NEW q, Enumerates(q, {x \in S : x <= B}), NEW r, Enumerates(r, {x \in S : x <= C}),
         \A k \in 1 .. Len(q) : \E j \in 1 .. Len(r) : r[j] = q[k]
  PROVE  r = q \/ \E k \in Len(q) + 1 .. Len(p) : r = SubSeq(p, 1, k)
  <1>1. PICK a \in Nat, b \in Nat, l \in Nat : a = Len(q) /\ b = Len(r) /\ l = Len(p)
    <2>1. p \in Seq(Nat) /\ q \in Seq(Nat) /\ r \in Seq(Nat)
      BY DEF Enumerates
    <2> QED
      BY <2>1, LenProperties
  <1>2. a <= l /\ q = SubSeq(p, 1, a)
    <2>1. Len(q) <= Len(p) /\ q = SubSeq(p, 1, Len(q))
      BY EnumeratesPrefix
    <2> QED
      BY <1>1, <2>1
  <1>3. b <= l /\ r = SubSeq(p, 1, b)
    <2>1. Len(r) <= Len(p) /\ r = SubSeq(p, 1, Len(r))
      BY EnumeratesPrefix
    <2> QED
      BY <1>1, <2>1
  <1>4. CASE b > a
    <2>1. b \in a + 1 .. l
      BY <1>1, <1>3, <1>4
    <2> QED
      BY <1>1, <1>3, <2>1
  <1>5. CASE b = a
    BY <1>2, <1>3, <1>5
  <1>6. CASE b < a
    <2>1. a \in 1 .. a
      BY <1>1, <1>6
    <2>2. PICK j \in 1 .. b : r[j] = q[a]
      BY <1>1, <2>1
    <2>3. p \in Seq(Nat)
      BY DEF Enumerates
    <2>4. Cuts(q, SubSeq(p, a + 1, Len(p)), p, a)
      <3>1. a \in 0 .. Len(p)
        BY <1>1, <1>2
      <3> QED
        BY <1>2, <2>3, <3>1, CutIs
    <2>5. Cuts(r, SubSeq(p, b + 1, Len(p)), p, b)
      <3>1. b \in 0 .. Len(p)
        BY <1>1, <1>3
      <3> QED
        BY <1>3, <2>3, <3>1, CutIs
    <2>6. q[a] = p[a] /\ r[j] = p[j]
      BY <2>1, <2>2, <2>4, <2>5 DEF Cuts
    <2>7. j < a /\ j \in 1 .. l /\ a \in 1 .. l
      BY <1>1, <1>2, <1>6, <2>1, <2>2
    <2>8. p[j] < p[a]
      BY <1>1, <2>7 DEF Enumerates
    <2>9. p[j] \in Nat /\ p[a] \in Nat
      BY <1>1, <2>3, <2>7
    <2> QED
      BY <2>2, <2>6, <2>8, <2>9
  <1> QED
    BY <1>1, <1>4, <1>5, <1>6

\* One packet more of a set is told at the end.
LEMMA EnumeratesMore ==
  ASSUME NEW l \in Nat, NEW S, S \subseteq 1 .. l, NEW p, Enumerates(p, S),
         NEW q, Enumerates(q, S \cup {l + 1})
  PROVE  q = Append(p, l + 1)
  <1>1. p \in Seq(Nat)
    BY DEF Enumerates
  <1>2. PICK k \in Nat : k = Len(p)
    BY <1>1
  <1>3. PICK r : r = Append(p, l + 1)
    OBVIOUS
  <1>4. r \in Seq(Nat) /\ Len(r) = k + 1 /\ r[k + 1] = l + 1 /\ \A i \in 1 .. k : r[i] = p[i]
    BY <1>1, <1>2, <1>3
  <1>5. \A i \in 1 .. k : p[i] \in S /\ p[i] \in 1 .. l
    BY <1>2 DEF Enumerates
  <1>6. ASSUME NEW i \in 1 .. k + 1, NEW j \in 1 .. k + 1, i < j
        PROVE  r[i] < r[j]
    <2>1. i \in 1 .. k
      BY <1>2, <1>6
    <2>2. CASE j = k + 1
      BY <1>4, <1>5, <2>1, <2>2
    <2>3. CASE j \in 1 .. k
      BY <1>2, <1>4, <1>6, <2>1, <2>3 DEF Enumerates
    <2> QED
      BY <1>2, <2>2, <2>3
  <1>7. \A i \in 1 .. k + 1 : r[i] \in S \cup {l + 1}
    <2>1. TAKE i \in 1 .. k + 1
    <2>2. i \in 1 .. k \/ i = k + 1
      BY <1>2
    <2> QED
      BY <1>4, <1>5, <2>2
  <1>8. \A x \in S \cup {l + 1} : \E i \in 1 .. k + 1 : r[i] = x
    <2>1. TAKE x \in S \cup {l + 1}
    <2>2. CASE x \in S
      <3>1. PICK i \in 1 .. k : p[i] = x
        BY <1>2, <2>2 DEF Enumerates
      <3>2. i \in 1 .. k + 1 /\ r[i] = x
        BY <1>2, <1>4, <3>1
      <3> QED
        BY <3>2
    <2>3. CASE x = l + 1
      <3>1. k + 1 \in 1 .. k + 1 /\ r[k + 1] = x
        BY <1>2, <1>4, <2>3
      <3> QED
        BY <3>1
    <2> QED
      BY <2>2, <2>3
  <1>9. Enumerates(r, S \cup {l + 1})
    BY <1>4, <1>6, <1>7, <1>8 DEF Enumerates
  <1>10. \A x \in S \cup {l + 1} : x <= l + 1
    OBVIOUS
  <1>11. l + 1 \in Nat
    OBVIOUS
  <1>12. q = r
    BY <1>9, <1>10, <1>11, EnumeratesOne
  <1> QED
    BY <1>3, <1>12

LEMMA ChannelSend ==
  ASSUME ChannelInv, ChannelInv', NEW d \in Channels, NEW flag \in Flags, NEW size \in Sizes,
         Send(d, flag, size), NEW c \in Channels
  PROVE  [Channel(c)!Next]_(Channel(c)!vars)
  <1>1. PICK l \in Nat : l = Len(log)
    BY DEF ChannelInv
  <1>2. PICK e : e = [ch |-> d, kind |-> CommandFor(d, flag, size), size |-> size]
    OBVIOUS
  <1>3. log' = Append(log, e) /\ l < MaxPackets /\ UNCHANGED <<peer, got>>
    BY <1>1, <1>2 DEF Send
  <1>4. log \in Seq(Logged) /\ log' \in Seq(Logged)
    BY DEF ChannelInv
  <1>5. Len(log') = l + 1 /\ \A x \in 1 .. l : log'[x] = log[x]
    BY <1>1, <1>3, <1>4
  <1>6. PICK S, S2 : S = ReliableOn(log, c) /\ S2 = ReliableOn(log', c)
    OBVIOUS
  <1>7. S \subseteq 1 .. l /\ (S2 = S \/ S2 = S \cup {l + 1})
    <2>1. S \subseteq 1 .. l
      BY <1>1, <1>6 DEF ReliableOn
    <2>2. \A x \in 1 .. l : x \in S2 <=> x \in S
      <3>1. TAKE x \in 1 .. l
      <3>2. x \in 1 .. Len(log') /\ x \in 1 .. Len(log) /\ log'[x] = log[x]
        BY <1>1, <1>5
      <3> QED
        BY <1>6, <3>2 DEF ReliableOn
    <2>3. S2 \subseteq 1 .. l + 1
      BY <1>5, <1>6 DEF ReliableOn
    <2>4. \A x \in 1 .. l + 1 : x \in 1 .. l \/ x = l + 1
      BY <1>1
    <2> QED
      BY <2>1, <2>2, <2>3, <2>4
  <1>8. PICK p, q : p = SentReliably(c) /\ q = SentReliably(c)'
    OBVIOUS
  <1>9. Enumerates(p, S) /\ Enumerates(q, S2)
    <2>1. Enumerates(p, S)
      BY <1>6, <1>8 DEF ChannelInv, GotFirst
    <2>2. Enumerates(SentReliably(c), ReliableOn(log, c))'
      BY DEF ChannelInv, GotFirst
    <2>3. Enumerates(SentReliably(c)', ReliableOn(log', c))
      BY <2>2 DEF Enumerates, ReliableOn
    <2> QED
      BY <1>6, <1>8, <2>1, <2>3
  <1>10. Dispatched' = Dispatched
    BY <1>3 DEF Dispatched
  <1>11. GotReliably(c)' = GotReliably(c)
    BY <1>10 DEF GotReliably, OnChannel
  <1>12. CASE S2 = S
    <2>1. \A x \in S : x <= l
      BY <1>1, <1>7
    <2>2. q = p
      BY <1>9, <1>12, <2>1, EnumeratesOne
    <2> QED
      BY <1>8, <1>11, <2>2 DEF Channel!vars
  <1>13. CASE S2 = S \cup {l + 1}
    <2>1. q = Append(p, l + 1)
      BY <1>7, <1>9, <1>13, EnumeratesMore
    <2>2. l + 1 \in 1 .. MaxPackets
      BY <1>1, <1>3, Constants
    <2> QED
      BY <1>8, <1>11, <2>1, <2>2 DEF Channel!vars, Channel!Next, Channel!Send
  <1> QED
    BY <1>7, <1>12, <1>13

\* A command arrived, or the application took a packet.
LEMMA ChannelDeliver ==
  ASSUME ChannelInv, ChannelInv', log' = log, Grown(Dispatched, Dispatched'), NEW c \in Channels
  PROVE  [Channel(c)!Next]_(Channel(c)!vars)
  <1>1. PICK S : S = ReliableOn(log, c)
    OBVIOUS
  <1>2. PICK p, q, r : p = SentReliably(c) /\ q = GotReliably(c) /\ r = GotReliably(c)'
    OBVIOUS
  <1>3. SentReliably(c)' = p
    BY <1>2 DEF SentReliably
  <1>4. PICK B \in Nat : Enumerates(p, S) /\ Enumerates(q, {x \in S : x <= B})
    BY <1>1, <1>2 DEF ChannelInv, GotFirst
  <1>5. PICK C \in Nat : Enumerates(r, {x \in S : x <= C})
    <2>1. \E b \in Nat : Enumerates(GotReliably(c)', {x \in ReliableOn(log', c) : x <= b})
      <3>1. (\E b \in Nat : Enumerates(GotReliably(c), {x \in ReliableOn(log, c) : x <= b}))'
        BY DEF ChannelInv, GotFirst
      <3> QED
        BY <3>1 DEF Enumerates, ReliableOn
    <2> QED
      BY <1>1, <1>2, <2>1
  <1>6. ASSUME NEW k \in 1 .. Len(q)
        PROVE  \E j \in 1 .. Len(r) : r[j] = q[k]
    <2>1. PICK x \in Nat : x = q[k]
      BY <1>4 DEF Enumerates
    <2>2. PICK i \in ReliablyAt(c) : PacketOf(Dispatched[i]) = x
      BY <1>2, <2>1 DEF ChannelInv, GotFirst
    <2>3. Dispatched \in Seq(Held) /\ Dispatched' \in Seq(Held)
      BY DEF ChannelInv
    <2>4. i \in 1 .. Len(Dispatched) /\ Dispatched'[i] = Dispatched[i] /\ i \in 1 .. Len(Dispatched')
      <3>1. i \in 1 .. Len(Dispatched)
        BY <2>3 DEF ReliablyAt, OnChannel
      <3>2. Len(Dispatched) \in Nat /\ Len(Dispatched') \in Nat
        BY <2>3
      <3> QED
        BY <3>1, <3>2 DEF Grown
    <2>5. i \in ReliablyAt(c)'
      BY <2>3, <2>4 DEF ReliablyAt, OnChannel
    <2>6. PacketOf(Dispatched'[i]) = x
      BY <2>2, <2>4
    <2>7. \A y \in Nat : (\E j \in 1 .. Len(GotReliably(c)') : GotReliably(c)'[j] = y)
                         <=> \E h \in ReliablyAt(c)' : PacketOf(Dispatched'[h]) = y
      BY DEF ChannelInv, GotFirst, PacketOf
    <2> QED
      BY <1>2, <2>1, <2>5, <2>6, <2>7
  <1>7. r = q \/ \E k \in Len(q) + 1 .. Len(p) : r = SubSeq(p, 1, k)
    BY <1>4, <1>5, <1>6, BeginningGrows
  <1>8. CASE r = q
    BY <1>2, <1>3, <1>8 DEF Channel!vars
  <1>9. CASE \E k \in Len(q) + 1 .. Len(p) : r = SubSeq(p, 1, k)
    BY <1>2, <1>3, <1>9 DEF Channel!vars, Channel!Next, Channel!Deliver
  <1> QED
    BY <1>7, <1>8, <1>9

(***************************************************************************)
(* On every channel the packets that travel reliably are handed over as    *)
(* ReliableChannel says: exactly those that were sent, in their order,     *)
(* none left out, however fragments and retransmissions arrive.            *)
(***************************************************************************)
THEOREM DeliveryImplementsChannel == Spec => ImplementsChannel
  <1>1. Init => \A c \in Channels : Channel(c)!Init
    <2>1. HAVE Init
    <2>2. TAKE c \in Channels
    <2>3. log = <<>> /\ got = <<>> /\ peer.dispatched = <<>>
      BY <2>1 DEF Init, FreshReceiver
    <2>4. Dispatched = <<>>
      BY <2>3, ConcatEmptySeq, EmptySeq DEF Dispatched
    <2>5. {i \in DOMAIN log : log[i].ch = c /\ log[i].kind \in {"reliable", "fragment"}} = {}
          /\ {i \in OnChannel(c) : IsReliable(Dispatched[i])} = {}
      BY <2>3, <2>4, EmptySeq DEF OnChannel
    <2>6. ASSUME NEW q
          PROVE  Pick(q, {}) = <<>>
      <3>1. Cardinality({}) = 0
        BY FS_EmptySet
      <3>2. 1 .. 0 = {}
        OBVIOUS
      <3> QED
        BY <3>1, <3>2 DEF Pick
    <2>7. SentReliably(c) = <<>>
      BY <2>5, <2>6 DEF SentReliably
    <2>8. GotReliably(c) = <<>>
      BY <2>5, <2>6 DEF GotReliably
    <2> QED
      BY <2>7, <2>8 DEF Channel!Init
  <1>2. DeliveryInv /\ ChannelInv /\ ChannelInv' /\ [Next]_vars
        => [\A c \in Channels : [Channel(c)!Next]_(Channel(c)!vars)]_vars
    <2>1. HAVE DeliveryInv /\ ChannelInv /\ ChannelInv' /\ [Next]_vars
    <2>2. PICK n : Holds(n)
      BY <2>1 DEF DeliveryInv
    <2>3. Dispatched \in Seq(Held) /\ Len(Dispatched) \in Nat
      BY <2>1 DEF ChannelInv
    <2>4. ASSUME NEW d \in Channels, NEW flag \in Flags, NEW size \in Sizes, Send(d, flag, size),
                 NEW c \in Channels
          PROVE  [Channel(c)!Next]_(Channel(c)!vars)
      BY <2>1, <2>4, ChannelSend
    <2>5. ASSUME NEW cmd \in wire, Arrive(cmd), NEW c \in Channels
          PROVE  [Channel(c)!Next]_(Channel(c)!vars)
      <3>1. log' = log /\ Grown(Dispatched, Dispatched')
        BY <2>2, <2>5, DeliveryArrive
      <3> QED
        BY <2>1, <3>1, ChannelDeliver
    <2>6. ASSUME Receive, NEW c \in Channels
          PROVE  [Channel(c)!Next]_(Channel(c)!vars)
      <3>1. log' = log /\ Dispatched' = Dispatched
        BY <2>2, <2>6, DeliveryReceive
      <3>2. Grown(Dispatched, Dispatched')
        BY <2>3, <3>1 DEF Grown
      <3> QED
        BY <2>1, <3>1, <3>2, ChannelDeliver
    <2> QED
      BY <2>1, <2>4, <2>5, <2>6 DEF Next
  <1>3. Spec => [][\A c \in Channels : [Channel(c)!Next]_(Channel(c)!vars)]_vars
    BY <1>2, DeliveryAlways, ChannelAlways, PTL DEF Spec
  <1> QED
    BY <1>1, <1>3 DEF ImplementsChannel, Spec

--------------------------------------------------------------------------------
(* What the receiver keeps, in the terms of ReceiverInv. *)

\* The sizes of packets are bounded, so that the largest is one of them.
LEMMA LargestSize ==
  ASSUME NEW l \in Nat, 1 <= l, l <= MaxPackets, NEW size \in Sizes
  PROVE  Max(Sizes) \in Nat /\ Max(Sizes) \in Sizes /\ size <= Max(Sizes)
  <1>1. Sizes \subseteq Nat /\ MaxPackets \in Nat /\ MaxPackets >= 1 /\ Limit \in Nat
    BY Constants
  <1>2. \A m \in Sizes : m \in 0 .. Limit
    <2>1. TAKE m \in Sizes
    <2>2. MaxPackets * m < Limit
      BY NoWrapAssumption DEF Limit
    <2>3. PICK a \in Nat : a = m
      BY <1>1
    <2>4. PICK b \in Nat : b = MaxPackets /\ b >= 1
      BY <1>1
    <2>5. b * a >= a
      BY <2>4
    <2> QED
      BY <1>1, <2>2, <2>3, <2>4, <2>5
  <1>3. Sizes \subseteq 0 .. Limit /\ Sizes # {}
    BY <1>2
  <1>4. Max(Sizes) \in Sizes /\ \A k \in Sizes : k <= Max(Sizes)
    BY <1>1, <1>3, GreatestIsIn
  <1> QED
    BY <1>1, <1>4

\* An entry of a packet that was sent is of the type.
LEMMA EntryTypes ==
  ASSUME NEW n, Sender(log, n, wire, out), NEW e, IsAny(e, log, n)
  PROVE  e \in Entries
  <1>1. Known(log, n) /\ Len(log) <= MaxPackets
    BY DEF Sender, LastSent
  <1>2. PICK p : IsOf(e, log, n, p)
    BY DEF IsAny
  <1>3. EntryFacts(e, log, n, p)
    BY <1>1, <1>2, EntryIs
  <1>4. p \in 1 .. Len(log) /\ e.data \subseteq Parts(log, p) /\ p \in Nat
    BY <1>2 DEF IsOf
  <1>5. log[p].size \in Nat \ {0} /\ log[p].size \in Sizes /\ log \in Seq(Logged)
    BY <1>1, <1>4, PacketFacts DEF Known
  <1>6. PICK z \in Nat : z = log[p].size
    BY <1>5
  <1>7. Len(log) \in Nat /\ 1 <= Len(log)
    BY <1>4, <1>5
  <1>8. Max(Sizes) \in Nat /\ z <= Max(Sizes)
    BY <1>1, <1>5, <1>6, <1>7, LargestSize
  <1>9. Parts(log, p) \subseteq (0 .. Max(Sizes) - 1) \X Ids
    <2>1. 0 .. z - 1 \subseteq 0 .. Max(Sizes) - 1
      BY <1>8
    <2> QED
      BY <1>4, <1>6, <2>1 DEF Parts, Ids
  <1>10. e.data \in SUBSET ((0 .. Max(Sizes) - 1) \X Ids)
    BY <1>4, <1>9
  <1>11. e.seq \in 0 .. Numbers - 1
    <2>1. e.seq \in Nat /\ e.seq < Limit /\ Limit \in Nat /\ Numbers \in Nat /\ Limit <= Numbers
      BY <1>3, Constants DEF EntryFacts
    <2> QED
      BY <2>1
  <1>12. e.useq \in 0 .. MaxUnreliable
    <2>1. MaxUnreliable \in Nat
      BY Constants
    <2>2. e.kind \in Unreliables => e.useq \in 1 .. MaxUnreliable
      BY <1>3 DEF EntryFacts
    <2>3. e.kind \notin Unreliables => e.useq = 0
      BY <1>3 DEF EntryFacts
    <2> QED
      BY <2>1, <2>2, <2>3
  <1>13. e \in Held /\ e.count \in Sizes \cup {0}
    BY <1>3, <1>5 DEF EntryFacts
  <1>14. e.kind \in Kinds /\ e.ch \in Channels
         /\ e = [kind |-> e.kind, ch |-> e.ch, seq |-> e.seq, useq |-> e.useq, count |-> e.count, data |-> e.data]
    BY <1>13 DEF Held
  <1> QED
    BY <1>10, <1>11, <1>12, <1>13, <1>14 DEF Entries

LEMMA ReceiverTypes ==
  ASSUME NEW n, Holds(n), peer.waiting \in Nat, freed \in BOOLEAN
  PROVE  TypeOK
  <1>1. /\ Sender(log, n, wire, out) /\ peer \in Receiver /\ WindowOf(peer) /\ got \in Seq(Held)
        /\ Delivered(log, n, peer.chan, got \o peer.dispatched)
        /\ \A c \in Channels : Lists(log, n, peer.chan[c], c)
    BY DEF Holds, Good, Once
  <1>2. ASSUME NEW c \in Channels
        PROVE  /\ peer.chan[c].rseq \in 0 .. Numbers - 1
               /\ peer.chan[c].useq \in 0 .. MaxUnreliable
               /\ \A i \in DOMAIN peer.chan[c].rel : peer.chan[c].rel[i] \in Entries
               /\ \A i \in DOMAIN peer.chan[c].unrel : peer.chan[c].unrel[i] \in Entries
    <2>1. PICK ch : ch = peer.chan[c]
      OBVIOUS
    <2>2. Counting(ch) /\ MayRun(log, n, ch, c) /\ MayScan(log, n, ch, c)
      BY <1>1, <2>1 DEF Lists
    <2>3. ch.rseq \in 0 .. Numbers - 1 /\ ch.useq \in 0 .. MaxUnreliable
      BY <2>2, Constants DEF Counting
    <2>4. \A i \in DOMAIN ch.rel : ch.rel[i] \in Entries
      <3>1. PICK q \in Seq(Held) : q = ch.rel
        BY <2>2 DEF MayRun
      <3>2. TAKE i \in DOMAIN ch.rel
      <3>3. i \in 1 .. Len(q)
        BY <3>1
      <3>4. IsAny(q[i], log, n)
        BY <2>2, <3>1, <3>3 DEF MayRun
      <3> QED
        BY <1>1, <3>1, <3>4, EntryTypes
    <2>5. \A i \in DOMAIN ch.unrel : ch.unrel[i] \in Entries
      <3>1. PICK q \in Seq(Held) : q = ch.unrel
        BY <2>2 DEF MayScan
      <3>2. TAKE i \in DOMAIN ch.unrel
      <3>3. i \in 1 .. Len(q)
        BY <3>1
      <3>4. IsAny(q[i], log, n)
        BY <2>2, <3>1, <3>3 DEF MayScan
      <3> QED
        BY <1>1, <3>1, <3>4, EntryTypes
    <2> QED
      BY <2>1, <2>3, <2>4, <2>5
  <1>3. \A i \in DOMAIN peer.dispatched : peer.dispatched[i] \in Entries
    <2>1. peer.dispatched \in Seq(Held)
      BY <1>1 DEF Receiver
    <2>2. Joins(got \o peer.dispatched, got, peer.dispatched)
      BY <1>1, <2>1, JoinIs
    <2>3. TAKE i \in DOMAIN peer.dispatched
    <2>4. i \in 1 .. Len(peer.dispatched)
      BY <2>1
    <2>5. PICK D \in Seq(Held) : D = got \o peer.dispatched
      BY <1>1 DEF Delivered
    <2>6. D[Len(got) + i] = peer.dispatched[i] /\ Len(got) + i \in 1 .. Len(D)
      <3>1. PICK a \in Nat : a = Len(got)
        BY <1>1
      <3>2. PICK b \in Nat : b = Len(peer.dispatched)
        BY <2>1
      <3>3. Len(D) = a + b /\ D[a + i] = peer.dispatched[i]
        BY <2>2, <2>4, <2>5, <3>1, <3>2 DEF Joins
      <3>4. a + i \in 1 .. a + b
        BY <2>4, <3>2
      <3> QED
        BY <3>1, <3>3, <3>4
    <2>7. IsAny(peer.dispatched[i], log, n)
      BY <1>1, <2>5, <2>6 DEF Delivered
    <2> QED
      BY <1>1, <2>7, EntryTypes
  <1>4. peer.group \in 0 .. Groups - 1 /\ peer.seen \subseteq 0 .. UnsequencedSize - 1
    <2>1. /\ peer.group \in Nat /\ peer.group <= GroupLimit /\ peer.seen \subseteq 0 .. UnsequencedSize - 1
      BY <1>1 DEF WindowOf
    <2>2. GroupLimit \in Nat \ {0} /\ Groups = GroupLimit + GroupLimit
      BY Constants
    <2> QED
      BY <2>1, <2>2
  <1> QED
    BY <1>2, <1>3, <1>4 DEF TypeOK

LEMMA ReceiverSorted ==
  ASSUME NEW n, Holds(n)
  PROVE  ListsSorted
  <1> DEFINE After(ch, a, b) == Rank(ch, a.seq) > Rank(ch, b.seq) \/ (a.seq = b.seq /\ a.useq > b.useq)
  <1>1. Known(log, n) /\ \A c \in Channels : Lists(log, n, peer.chan[c], c) /\ Scanned(peer.chan[c])
    BY DEF Holds, Good, Sender
  <1>2. ASSUME NEW ch, Counting(ch), NEW e, IsAny(e, log, n), e.seq >= ch.rseq
        PROVE  Rank(ch, e.seq) = e.seq /\ e.seq \in Nat /\ e.useq \in Nat
               /\ (Near(ch.rseq, e.seq) => InWindow(ch, e.seq))
    <2>1. e.seq \in Nat /\ e.useq \in Nat /\ e.seq < Limit
      BY <1>1, <1>2, AnyIs
    <2>2. ch.rseq \in Nat /\ ch.rseq < Limit /\ ch.rseq <= e.seq
      BY <1>2, <2>1 DEF Counting
    <2>3. Rank(ch, e.seq) = e.seq
          /\ (InWindow(ch, e.seq) <=> e.seq \div WindowSize <= (ch.rseq \div WindowSize) + FreeWindows - 2)
      BY <2>1, <2>2, WindowIs
    <2> QED
      BY <2>1, <2>3 DEF Near
  <1>3. ASSUME NEW ch, Counting(ch), NEW e, NEW f, IsAny(e, log, n), IsAny(f, log, n),
               e.seq >= ch.rseq, f.seq >= ch.rseq, Earlier(e, f)
        PROVE  After(ch, f, e)
    <2>1. Rank(ch, e.seq) = e.seq /\ Rank(ch, f.seq) = f.seq /\ e.seq \in Nat /\ f.seq \in Nat
          /\ e.useq \in Nat /\ f.useq \in Nat
      BY <1>2, <1>3
    <2> QED
      BY <1>3, <2>1 DEF Earlier
  <1>4. ASSUME NEW c \in Channels, NEW ch, ch = peer.chan[c]
        PROVE  /\ \A i \in DOMAIN ch.rel : ch.rel[i].seq # ch.rseq /\ InWindow(ch, ch.rel[i].seq)
               /\ \A i, j \in DOMAIN ch.rel : i < j => After(ch, ch.rel[j], ch.rel[i])
               /\ \A i \in DOMAIN ch.unrel :
                    /\ ch.unrel[i].kind # "unsequenced"
                    /\ ch.unrel[i].seq = ch.rseq => ch.unrel[i].useq > ch.useq
               /\ \A i, j \in DOMAIN ch.unrel : i < j => After(ch, ch.unrel[j], ch.unrel[i])
    <2>1. Counting(ch) /\ MayRun(log, n, ch, c) /\ MayScan(log, n, ch, c) /\ Scanned(ch) /\ ch.rseq \in Nat
      BY <1>1, <1>4 DEF Lists, Counting
    <2>2. PICK q \in Seq(Held) : q = ch.rel
      BY <2>1 DEF MayRun
    <2>3. PICK u \in Seq(Held) : u = ch.unrel
      BY <2>1 DEF MayScan
    <2>4. \A i \in 1 .. Len(q) : /\ IsAny(q[i], log, n) /\ IsReliable(q[i]) /\ q[i].seq > ch.rseq
                                 /\ Near(ch.rseq, q[i].seq)
      BY <2>1, <2>2 DEF MayRun
    <2>5. \A i \in 1 .. Len(q) : q[i].seq \in Nat /\ q[i].seq >= ch.rseq /\ q[i].seq # ch.rseq /\ Sequenced(q[i])
      <3>1. TAKE i \in 1 .. Len(q)
      <3>2. q[i].seq \in Nat /\ Sequenced(q[i])
        BY <1>1, <2>4, AnyIs
      <3> QED
        BY <2>1, <2>4, <3>2
    <2>6. \A i \in 1 .. Len(q) : q[i].seq # ch.rseq /\ InWindow(ch, q[i].seq)
      BY <1>2, <2>1, <2>4, <2>5
    <2>7. \A i, j \in 1 .. Len(q) : i < j => Earlier(q[i], q[j])
      BY <2>1, <2>2, <2>5 DEF MayRun, Ordered
    <2>8. \A i, j \in 1 .. Len(q) : i < j => After(ch, q[j], q[i])
      <3> HIDE DEF After
      <3> QED
        BY <1>3, <2>1, <2>4, <2>5, <2>7
    <2>9. \A i \in 1 .. Len(u) : /\ IsAny(u[i], log, n) /\ Sequenced(u[i]) /\ u[i].seq >= ch.rseq
                                 /\ u[i].seq = ch.rseq => u[i].useq > ch.useq
      BY <2>1, <2>3 DEF MayScan, Scanned
    <2>10. \A i, j \in 1 .. Len(u) : i < j => Earlier(u[i], u[j])
      BY <2>1, <2>3, <2>9 DEF MayScan, Ordered
    <2>11. \A i, j \in 1 .. Len(u) : i < j => After(ch, u[j], u[i])
      <3> HIDE DEF After
      <3> QED
        BY <1>3, <2>1, <2>9, <2>10
    <2>12. DOMAIN ch.rel = 1 .. Len(q) /\ DOMAIN ch.unrel = 1 .. Len(u)
      BY <2>2, <2>3
    <2> HIDE DEF After
    <2> QED
      BY <2>2, <2>3, <2>6, <2>8, <2>9, <2>11, <2>12 DEF Sequenced
  <1> QED
    BY <1>4 DEF ListsSorted

--------------------------------------------------------------------------------
(* What the receiver has of packets, and what totalWaitingData counts of it. *)

InList(q, g) == \E i \in 1 .. Len(q) : q[i] = g
Has(p, g) ==
  InList(p.dispatched, g) \/ \E c \in Channels : InList(p.chan[c].rel, g) \/ InList(p.chan[c].unrel, g)

\* What is in r was in p or is in E, if that holds of the lists of c.
LEMMA HasFrom ==
  ASSUME NEW p, NEW r, NEW c \in Channels, SameBut(r, p, c), NEW E,
         \A g : InList(r.dispatched, g) => Has(p, g) \/ g \in E,
         \A g : InList(r.chan[c].rel, g) => Has(p, g) \/ g \in E,
         \A g : InList(r.chan[c].unrel, g) => Has(p, g) \/ g \in E
  PROVE  \A g : Has(r, g) => Has(p, g) \/ g \in E
  <1>1. TAKE g
  <1>2. HAVE Has(r, g)
  <1>3. CASE InList(r.dispatched, g)
    BY <1>3
  <1>4. ASSUME NEW d \in Channels, InList(r.chan[d].rel, g) \/ InList(r.chan[d].unrel, g)
        PROVE  Has(p, g) \/ g \in E
    <2>1. CASE d = c
      BY <1>4, <2>1
    <2>2. CASE d # c
      <3>1. r.chan[d] = p.chan[d]
        BY <2>2 DEF SameBut
      <3> QED
        BY <1>4, <3>1 DEF Has
    <2> QED
      BY <2>1, <2>2
  <1> QED
    BY <1>2, <1>3, <1>4 DEF Has

\* Commands are moved or dropped: what is in r was in p, and the count is the same.
Moves(r, p) == r \in Receiver /\ r.waiting = p.waiting /\ \A g : Has(r, g) => Has(p, g)

LEMMA PartInList ==
  ASSUME NEW q \in Seq(Held), NEW S, S \subseteq 1 .. Len(q), NEW g, InList(Pick(q, S), g)
  PROVE  InList(q, g)
  <1>1. PICK M \in Seq(Held) : M = Pick(q, S)
    BY PickedIs
  <1>2. PICK f : PickedBy(M, q, S, f)
    BY <1>1, PickedIs
  <1>3. PICK k \in 1 .. Len(M) : M[k] = g
    BY <1>1 DEF InList
  <1>4. k \in 1 .. Len(f) /\ f[k] \in 1 .. Len(q) /\ q[f[k]] = g
    BY <1>2, <1>3 DEF PickedBy
  <1> QED
    BY <1>4 DEF InList

LEMMA JoinInList ==
  ASSUME NEW D \in Seq(Held), NEW M \in Seq(Held), NEW g, InList(D \o M, g)
  PROVE  InList(D, g) \/ InList(M, g)
  <1>1. Joins(D \o M, D, M)
    BY JoinIs
  <1>2. PICK i \in 1 .. Len(D \o M) : (D \o M)[i] = g
    BY DEF InList
  <1>3. CASE i \in 1 .. Len(D)
    BY <1>1, <1>2, <1>3 DEF Joins, InList
  <1>4. CASE i \notin 1 .. Len(D)
    <2>1. PICK k \in 1 .. Len(M) : (D \o M)[i] = M[k]
      BY <1>1, <1>2, <1>4 DEF Joins
    <2> QED
      BY <1>2, <2>1 DEF InList
  <1> QED
    BY <1>3, <1>4

LEMMA NumberAfterType ==
  ASSUME NEW q \in Seq(Held), NEW u \in Nat, NEW S, S \subseteq 1 .. Len(q)
  PROVE  NumberAfter(q, u, S) \in Nat
  <1>1. PICK T : T = {i \in S : q[i].kind # "unsequenced"}
    OBVIOUS
  <1>2. PICK l \in Nat : l = Len(q)
    OBVIOUS
  <1>3. NumberAfter(q, u, S) = IF T = {} THEN u ELSE q[Max(T)].useq
    BY <1>1 DEF NumberAfter
  <1>4. CASE T = {}
    BY <1>3, <1>4
  <1>5. CASE T # {}
    <2>1. T \subseteq 0 .. l /\ T \subseteq 1 .. l
      <3>1. S \subseteq 1 .. l
        BY <1>2
      <3>2. T \subseteq S
        BY <1>1
      <3> QED
        BY <3>1, <3>2
    <2>2. Max(T) \in T
      BY <1>5, <2>1, GreatestIsIn
    <2>3. PICK m \in 1 .. l : m = Max(T)
      BY <2>1, <2>2
    <2>4. q[m] \in Held
      BY <1>2
    <2>5. q[m].useq \in Nat
      BY <2>4 DEF Held
    <2> QED
      BY <1>3, <1>5, <2>3, <2>5
  <1> QED
    BY <1>4, <1>5

LEMMA ScanMoves ==
  ASSUME NEW p \in Receiver, NEW c \in Channels, NEW r, r = DispatchUnreliable(p, c)
  PROVE  /\ Moves(r, p) /\ r.chan[c].rel = p.chan[c].rel
         /\ r.chan[c].unrel = Pick(p.chan[c].unrel, Kept(Fates(p.chan[c]), Stop(Fates(p.chan[c]))))
  <1>1. PICK ch : ch = p.chan[c]
    OBVIOUS
  <1>2. ch \in ChanRec /\ p.dispatched \in Seq(Held)
    BY <1>1 DEF Receiver
  <1>3. PICK q \in Seq(Held) : q = ch.unrel
    BY <1>2 DEF ChanRec
  <1>4. PICK fate : fate = Fates(ch)
    OBVIOUS
  <1>5. PICK stop : stop = Stop(fate)
    OBVIOUS
  <1>6. PICK A : A = Moved(fate, stop)
    OBVIOUS
  <1>7. PICK B : B = Kept(fate, stop)
    OBVIOUS
  <1>8. DOMAIN fate = 1 .. Len(q) /\ \A i \in 1 .. stop - 1 : i \in 1 .. Len(q)
    BY <1>3, <1>4, <1>5, StopIs
  <1>9. A \subseteq 1 .. Len(q) /\ B \subseteq 1 .. Len(q)
    BY <1>6, <1>7, <1>8 DEF Moved, Kept
  <1>10. PICK u \in Nat : u = NumberAfter(q, ch.useq, A)
    <2>1. ch.useq \in Nat
      BY <1>2 DEF ChanRec
    <2> QED
      BY <1>9, <2>1, NumberAfterType
  <1>11. PICK M \in Seq(Held) : M = Pick(q, A)
    BY <1>9, PickedIs
  <1>12. PICK K \in Seq(Held) : K = Pick(q, B)
    BY <1>9, PickedIs
  <1>13. r = Dispatch(p, c, A, B)
    BY <1>1, <1>4, <1>5, <1>6, <1>7 DEF DispatchUnreliable, DispatchFates, DispatchUpTo
  <1>14. DispatchedAs(r, p, c, M, K, u)
    <2>1. /\ Pick(p.chan[c].unrel, A) = M /\ Pick(p.chan[c].unrel, B) = K
          /\ NumberAfter(p.chan[c].unrel, p.chan[c].useq, A) = u
      BY <1>1, <1>3, <1>10, <1>11, <1>12
    <2> QED
      BY <1>13, <2>1, DispatchIs
  <1>15. \A g : InList(q, g) => Has(p, g)
    BY <1>1, <1>3 DEF Has
  <1>16. \A g : InList(M, g) => InList(q, g)
    BY <1>9, <1>11, PartInList
  <1>17. \A g : InList(K, g) => InList(q, g)
    BY <1>9, <1>12, PartInList
  <1> DEFINE E == {}
  <1> HIDE DEF E
  <1>18. \A g : InList(r.dispatched, g) => Has(p, g) \/ g \in E
    <2>1. TAKE g
    <2>2. HAVE InList(r.dispatched, g)
    <2>3. InList(p.dispatched, g) \/ InList(M, g)
      BY <1>2, <1>14, <2>2, JoinInList DEF DispatchedAs
    <2> QED
      BY <1>15, <1>16, <2>3 DEF Has
  <1>19. \A g : InList(r.chan[c].rel, g) => Has(p, g) \/ g \in E
    BY <1>14 DEF DispatchedAs, Has
  <1>20. \A g : InList(r.chan[c].unrel, g) => Has(p, g) \/ g \in E
    BY <1>14, <1>15, <1>17 DEF DispatchedAs
  <1>21. SameBut(r, p, c) /\ r \in Receiver /\ r.waiting = p.waiting
    BY <1>14 DEF DispatchedAs
  <1>22. \A g : Has(r, g) => Has(p, g) \/ g \in E
    BY <1>18, <1>19, <1>20, <1>21, HasFrom
  <1>23. Moves(r, p)
    BY <1>21, <1>22 DEF Moves, E
  <1>24. /\ r.chan[c].rel = p.chan[c].rel
         /\ r.chan[c].unrel = Pick(p.chan[c].unrel, Kept(Fates(p.chan[c]), Stop(Fates(p.chan[c]))))
    BY <1>1, <1>3, <1>4, <1>5, <1>7, <1>12, <1>14 DEF DispatchedAs
  <1> QED
    BY <1>23, <1>24

LEMMA RunMoves ==
  ASSUME NEW p \in Receiver, NEW c \in Channels, NEW r, r = DispatchReliable(p, c)
  PROVE  Moves(r, p)
  <1>1. p.chan[c] \in ChanRec /\ p.dispatched \in Seq(Held)
    BY DEF Receiver
  <1>2. PICK k : k = ReadyRun(p.chan[c])
    OBVIOUS
  <1>3. PICK q \in Seq(Held) : q = p.chan[c].rel
    BY <1>1 DEF ChanRec
  <1>4. ReadyIs(p.chan[c], k)
    BY <1>2, <1>3, ReadyRunIs
  <1>5. CASE k = 0
    <2>1. r = p
      BY <1>2, <1>5 DEF DispatchReliable, DispatchRun
    <2> QED
      BY <2>1 DEF Moves
  <1>6. CASE k # 0
    <2>1. k \in 1 .. Len(q) /\ k \in 0 .. Len(q)
      BY <1>3, <1>4, <1>6 DEF ReadyIs
    <2>2. LastNumber(q[k]) \in Nat
      <3>1. q[k] \in Held
        BY <2>1
      <3>2. PICK a \in Nat : a = q[k].seq
        BY <3>1 DEF Held
      <3>3. PICK b \in Nat \ {0} : b = DataLength(q[k])
        <4>1. q[k].count \in Nat
          BY <3>1 DEF Held
        <4> QED
          BY <4>1 DEF DataLength, Fragmented
      <3>4. PICK m \in Nat \ {0} : m = Numbers
        BY Constants
      <3>5. a + b - 1 \in Nat
        OBVIOUS
      <3>6. (a + b - 1) % m \in 0 .. m - 1
        BY <3>5, Quotient
      <3>7. (a + b - 1) % m \in Nat
        BY <3>6
      <3> QED
        BY <3>2, <3>3, <3>4, <3>7 DEF LastNumber
    <2>3. PICK m : m = MovedRun(p, c, k)
      OBVIOUS
    <2>4. MovedAs(m, p, c, k)
      BY <1>3, <2>1, <2>2, <2>3, MovedRunIs
    <2>5. PICK a \in Seq(Held) : a = SubSeq(q, 1, k)
      BY <1>3, <2>4 DEF MovedAs
    <2>6. PICK b \in Seq(Held) : b = SubSeq(q, k + 1, Len(q))
      BY <1>3, <2>4 DEF MovedAs
    <2>7. Cuts(a, b, q, k)
      BY <2>1, <2>5, <2>6, CutIs
    <2>8. \A g : InList(a, g) \/ InList(b, g) => InList(q, g)
      <3>1. TAKE g
      <3>2. PICK l \in Nat : l = Len(q)
        OBVIOUS
      <3>3. Len(a) = k /\ Len(b) = l - k /\ k \in 1 .. l
        BY <2>1, <2>7, <3>2 DEF Cuts
      <3>4. ASSUME NEW i \in 1 .. Len(a), a[i] = g
            PROVE  InList(q, g)
        <4>1. i \in 1 .. l /\ i \in 1 .. k
          BY <3>3, <3>4
        <4>2. q[i] = g
          BY <2>7, <3>4, <4>1 DEF Cuts
        <4> QED
          BY <3>2, <4>1, <4>2 DEF InList
      <3>5. ASSUME NEW i \in 1 .. Len(b), b[i] = g
            PROVE  InList(q, g)
        <4>1. i \in 1 .. l - k /\ k + i \in 1 .. l
          BY <3>3, <3>5
        <4>2. q[k + i] = g
          BY <2>7, <3>2, <3>5, <4>1 DEF Cuts
        <4> QED
          BY <3>2, <4>1, <4>2 DEF InList
      <3> QED
        BY <3>4, <3>5 DEF InList
    <2>9. \A g : InList(q, g) => Has(p, g)
      BY <1>3 DEF Has
    <2>10. /\ SameBut(m, p, c) /\ m \in Receiver /\ m.waiting = p.waiting
           /\ m.dispatched = p.dispatched \o a /\ m.chan[c].rel = b /\ m.chan[c].unrel = p.chan[c].unrel
      BY <1>3, <2>4, <2>5, <2>6 DEF MovedAs
    <2> DEFINE E == {}
    <2> HIDE DEF E
    <2>11. \A g : InList(m.dispatched, g) => Has(p, g) \/ g \in E
      <3>1. TAKE g
      <3>2. HAVE InList(m.dispatched, g)
      <3>3. InList(p.dispatched, g) \/ InList(a, g)
        BY <1>1, <2>10, <3>2, JoinInList
      <3> QED
        BY <2>8, <2>9, <3>3 DEF Has
    <2>12. \A g : InList(m.chan[c].rel, g) => Has(p, g) \/ g \in E
      BY <2>8, <2>9, <2>10
    <2>13. \A g : InList(m.chan[c].unrel, g) => Has(p, g) \/ g \in E
      BY <2>10 DEF Has
    <2>14. \A g : Has(m, g) => Has(p, g) \/ g \in E
      BY <2>10, <2>11, <2>12, <2>13, HasFrom
    <2>15. Moves(m, p)
      BY <2>10, <2>14 DEF Moves, E
    <2>16. r = IF p.chan[c].unrel = <<>> THEN m ELSE DispatchUnreliable(m, c)
      BY <1>2, <1>6, <2>3 DEF DispatchReliable, DispatchRun, MovedRun
    <2>17. CASE r = m
      BY <2>15, <2>17
    <2>18. CASE r = DispatchUnreliable(m, c)
      <3>1. Moves(r, m)
        BY <2>10, <2>18, ScanMoves
      <3> QED
        BY <2>15, <3>1 DEF Moves
    <2> QED
      BY <2>16, <2>17, <2>18
  <1> QED
    BY <1>5, <1>6

\* The command is put among those of the receiver and counted.
Takes(r, p, e) ==
  r \in Receiver /\ r.waiting = p.waiting + DataLength(e) /\ \A g : Has(r, g) => Has(p, g) \/ g \in {e}

LEMMA HeldLength ==
  ASSUME NEW e \in Held
  PROVE  DataLength(e) \in Nat \ {0}
  <1>1. e.count \in Nat
    BY DEF Held
  <1> QED
    BY <1>1 DEF DataLength, Fragmented

LEMMA InsertInList ==
  ASSUME NEW q \in Seq(Held), NEW e \in Held, NEW k \in 0 .. Len(q), NEW w, w = InsertAt(q, k + 1, e)
  PROVE  w \in Seq(Held) /\ \A g : InList(w, g) => InList(q, g) \/ g \in {e}
  <1>1. w \in Seq(Held) /\ InsertedIs(w, q, k, e)
    BY InsertAtIs
  <1>2. \A i \in 1 .. Len(w) : w[i] = e \/ \E j \in 1 .. Len(q) : w[i] = q[j]
    BY <1>1, InsertedFrom
  <1> QED
    BY <1>1, <1>2 DEF InList

LEMMA PutTakes ==
  ASSUME NEW p \in Receiver, NEW e \in Held, NEW c \in Channels,
         NEW m, m \in Receiver, m.chan = p.chan, m.dispatched = p.dispatched,
         m.waiting = p.waiting + DataLength(e),
         NEW s, NEW w, NEW v, ListsPut(s, m, c, w, v),
         \A g : InList(w, g) => Has(p, g) \/ g \in {e}, \A g : InList(v, g) => Has(p, g) \/ g \in {e},
         NEW r, Moves(r, s)
  PROVE  Takes(r, p, e)
  <1>1. /\ s \in Receiver /\ SameBut(s, m, c) /\ s.dispatched = m.dispatched /\ s.waiting = m.waiting
        /\ s.chan[c].rel = w /\ s.chan[c].unrel = v
    BY DEF ListsPut
  <1>2. \A g : Has(m, g) <=> Has(p, g)
    BY DEF Has
  <1> DEFINE E == {e}
  <1> HIDE DEF E
  <1>3. \A g : InList(s.dispatched, g) => Has(m, g) \/ g \in E
    BY <1>1 DEF Has
  <1>4. \A g : InList(s.chan[c].rel, g) => Has(m, g) \/ g \in E
    BY <1>1, <1>2 DEF E
  <1>5. \A g : InList(s.chan[c].unrel, g) => Has(m, g) \/ g \in E
    BY <1>1, <1>2 DEF E
  <1>6. \A g : Has(s, g) => Has(m, g) \/ g \in E
    BY <1>1, <1>3, <1>4, <1>5, HasFrom
  <1> QED
    BY <1>1, <1>2, <1>6 DEF Moves, Takes, E

LEMMA QueueTakes ==
  ASSUME NEW p \in Receiver, NEW e \in Held, e.ch \in Channels, NEW q, q = QueueEntry(p, e)
  PROVE  q.peer = p \/ Takes(q.peer, p, e)
  <1>1. PICK c \in Channels : c = e.ch
    OBVIOUS
  <1>2. p.chan[c] \in ChanRec
    BY DEF Receiver
  <1>3. PICK l \in Seq(Held) : l = Listed(p, e)
    BY <1>1, <1>2 DEF ChanRec, Listed
  <1>4. PICK k \in 0 .. Len(l) : k = IF e.kind = "unsequenced" THEN 0 ELSE Place(p.chan[c], l, e.seq, e.useq)
    <2>1. PICK j : j = Place(p.chan[c], l, e.seq, e.useq)
      OBVIOUS
    <2>2. PlacedAt(j, p.chan[c], l, e.seq, e.useq)
      BY <2>1, PlaceIs
    <2>3. j \in 0 .. Len(l)
      BY <2>2 DEF PlacedAt
    <2> QED
      BY <2>1, <2>3
  <1>5. q = QueueAt(p, e, l, k)
    BY <1>1, <1>3, <1>4 DEF QueueEntry, QueueIn
  <1>6. PICK m : m = Counted(p, e)
    OBVIOUS
  <1>7. q.peer = p \/ q.peer = Inserted(m, e, k)
    BY <1>5, <1>6 DEF QueueAt
  <1>8. /\ m \in Receiver /\ m.chan = p.chan /\ m.dispatched = p.dispatched
        /\ m.waiting = p.waiting + DataLength(e)
    BY <1>6, HeldLength, CountedIs
  <1>9. PICK w : w = InsertAt(l, k + 1, e)
    OBVIOUS
  <1>10. w \in Seq(Held) /\ \A g : InList(w, g) => InList(l, g) \/ g \in {e}
    BY <1>9, InsertInList
  <1>11. CASE q.peer = Inserted(m, e, k) /\ IsReliable(e)
    <2>1. l = p.chan[c].rel /\ l = m.chan[c].rel
      BY <1>1, <1>3, <1>8, <1>11 DEF Listed
    <2>2. PICK v \in Seq(Held) : v = m.chan[c].unrel
      BY <1>2, <1>8 DEF ChanRec
    <2>3. PICK s : s = [m EXCEPT !.chan[c].rel = w]
      OBVIOUS
    <2>4. ListsPut(s, m, c, w, v)
      BY <1>8, <1>10, <2>2, <2>3, RelPut
    <2>5. q.peer = DispatchReliable(s, c)
      BY <1>1, <1>9, <1>11, <2>1, <2>3 DEF Inserted
    <2>6. s \in Receiver
      BY <2>4 DEF ListsPut
    <2>7. Moves(q.peer, s)
      BY <2>5, <2>6, RunMoves
    <2>8. \A g : InList(w, g) => Has(p, g) \/ g \in {e}
      BY <1>10, <2>1 DEF Has
    <2>9. \A g : InList(v, g) => Has(p, g) \/ g \in {e}
      BY <1>8, <2>2 DEF Has
    <2> QED
      BY <1>8, <2>4, <2>7, <2>8, <2>9, PutTakes
  <1>12. CASE q.peer = Inserted(m, e, k) /\ ~IsReliable(e)
    <2>1. l = p.chan[c].unrel /\ l = m.chan[c].unrel
      BY <1>1, <1>3, <1>8, <1>12 DEF Listed
    <2>2. PICK v \in Seq(Held) : v = m.chan[c].rel
      BY <1>2, <1>8 DEF ChanRec
    <2>3. PICK s : s = [m EXCEPT !.chan[c].unrel = w]
      OBVIOUS
    <2>4. ListsPut(s, m, c, v, w)
      BY <1>8, <1>10, <2>2, <2>3, UnrelPut
    <2>5. q.peer = DispatchUnreliable(s, c)
      BY <1>1, <1>9, <1>12, <2>1, <2>3 DEF Inserted
    <2>6. s \in Receiver
      BY <2>4 DEF ListsPut
    <2>7. Moves(q.peer, s)
      BY <2>5, <2>6, ScanMoves
    <2>8. \A g : InList(w, g) => Has(p, g) \/ g \in {e}
      BY <1>10, <2>1 DEF Has
    <2>9. \A g : InList(v, g) => Has(p, g) \/ g \in {e}
      BY <1>8, <2>2 DEF Has
    <2> QED
      BY <1>8, <2>4, <2>7, <2>8, <2>9, PutTakes
  <1> QED
    BY <1>7, <1>11, <1>12

\* An entry is of one packet only.
LEMMA IsOfOne ==
  ASSUME NEW L, NEW n, Known(L, n), NEW e, NEW x, IsOf(e, L, n, x), NEW y, IsOf(e, L, n, y)
  PROVE  x = y
  <1>1. CASE Sequenced(e)
    BY <1>1, OrderIs DEF Sequenced
  <1>2. CASE ~Sequenced(e)
    <2>1. Complete(e) /\ IsAny(e, L, n)
      BY <1>2, AnyIs DEF IsAny
    <2>2. e.data = Parts(L, x) /\ (e.data # {} => PacketOf(e) = x /\ PacketOf(e) = y)
      BY <2>1, EntryIs DEF EntryFacts
    <2>3. L[x].size \in Nat \ {0} /\ x \in Nat
      <3>1. x \in 1 .. Len(L)
        BY DEF IsOf
      <3> QED
        BY <3>1, PacketFacts
    <2>4. Parts(L, x) # {}
      BY <2>3, PartsAre
    <2> QED
      BY <2>2, <2>4
  <1> QED
    BY <1>1, <1>2

\* The packets that the receiver has anything of.
Holding(L, n, p) == {x \in 1 .. Len(L) : \E e : IsOf(e, L, n, x) /\ Has(p, e)}

SameHeld(L, n, p, r) == r.waiting = p.waiting /\ Holding(L, n, r) \subseteq Holding(L, n, p)
MoreHeld(L, n, p, r, x) ==
  r.waiting = p.waiting + L[x].size /\ Holding(L, n, r) \subseteq Holding(L, n, p) \cup {x}

\* What a command of packet x changes in what is held and counted.
Tally(L, n, p, r, x) == r \in Receiver /\ (SameHeld(L, n, p, r) \/ MoreHeld(L, n, p, r, x))

LEMMA TallyNot ==
  ASSUME NEW L, NEW n, NEW p \in Receiver, NEW x
  PROVE  Tally(L, n, p, p, x)
  BY DEF Tally, SameHeld

LEMMA TallyMore ==
  ASSUME NEW L, NEW n, NEW p, NEW q, NEW r, NEW x, Tally(L, n, p, q, x), r \in Receiver, SameHeld(L, n, q, r)
  PROVE  Tally(L, n, p, r, x)
  <1>1. CASE SameHeld(L, n, p, q)
    BY <1>1 DEF Tally, SameHeld
  <1>2. CASE MoreHeld(L, n, p, q, x)
    BY <1>2 DEF Tally, SameHeld, MoreHeld
  <1> QED
    BY <1>1, <1>2 DEF Tally

LEMMA QueueTally ==
  ASSUME NEW L, NEW n, Known(L, n), NEW p \in Receiver, NEW e, NEW x, IsOf(e, L, n, x),
         NEW q, q = QueueEntry(p, e)
  PROVE  Tally(L, n, p, q.peer, x)
  <1>1. IsAny(e, L, n)
    BY DEF IsAny
  <1>2. e \in Held /\ e.ch \in Channels /\ DataLength(e) = L[x].size
    BY <1>1, AnyIs, EntryIs DEF EntryFacts
  <1>3. q.peer = p \/ Takes(q.peer, p, e)
    BY <1>2, QueueTakes
  <1>4. CASE Takes(q.peer, p, e)
    <2>1. ASSUME NEW y \in Holding(L, n, q.peer)
          PROVE  y \in Holding(L, n, p) \cup {x}
      <3>1. y \in 1 .. Len(L) /\ \E f : IsOf(f, L, n, y) /\ Has(q.peer, f)
        BY <2>1 DEF Holding
      <3>2. PICK f : IsOf(f, L, n, y) /\ Has(q.peer, f)
        BY <3>1
      <3>3. CASE Has(p, f)
        BY <3>1, <3>2, <3>3 DEF Holding
      <3>4. CASE f = e
        BY <3>2, <3>4, IsOfOne
      <3> QED
        BY <1>4, <3>2, <3>3, <3>4 DEF Takes
    <2> QED
      BY <1>2, <1>4, <2>1 DEF Takes, Tally, MoreHeld
  <1> QED
    BY <1>3, <1>4, TallyNot

\* A fragment is stored in an entry: nothing more is held.
LEMMA StoreHeld ==
  ASSUME NEW L, NEW n, Known(L, n), NEW p, NEW G, Good(L, n, p, G, {}),
         NEW e, NEW x, IsOf(e, L, n, x), Sequenced(e), NEW d \in Parts(L, x),
         NEW k \in Start(p, e), NEW r, r = StoreAt(p, e, k, d)
  PROVE  r.peer \in Receiver /\ SameHeld(L, n, p, r.peer)
  <1>1. PICK c \in Channels : c = e.ch
    <2>1. IsAny(e, L, n)
      BY DEF IsAny
    <2> QED
      BY <2>1, AnyIs
  <1>2. PICK ch : ch = p.chan[c]
    OBVIOUS
  <1>3. /\ p \in Receiver /\ ch \in ChanRec /\ MayRun(L, n, ch, c) /\ MayScan(L, n, ch, c) /\ Scanned(ch)
    BY <1>2 DEF Good, Lists
  <1>4. PICK l \in Seq(Held) : l = Listed(p, e)
    BY <1>1, <1>2, <1>3 DEF Listed, ChanRec
  <1>5. k \in 1 .. Len(l) /\ l[k].seq = e.seq /\ l[k].useq = e.useq
    BY <1>4 DEF Start
  <1>6. PICK f : f = l[k]
    OBVIOUS
  <1>7. IsAny(f, L, n) /\ f.ch = c /\ Sequenced(f)
    <2>1. CASE IsReliable(e)
      <3>1. l = ch.rel
        BY <1>1, <1>2, <1>4, <2>1 DEF Listed
      <3>2. IsAny(f, L, n) /\ f.ch = c /\ IsReliable(f)
        BY <1>3, <1>5, <1>6, <3>1 DEF MayRun
      <3> QED
        BY <3>2, AnyIs
    <2>2. CASE ~IsReliable(e)
      <3>1. l = ch.unrel
        BY <1>1, <1>2, <1>4, <2>2 DEF Listed
      <3> QED
        BY <1>3, <1>5, <1>6, <3>1 DEF MayScan, Scanned
    <2> QED
      BY <2>1, <2>2
  <1>8. IsOf(f, L, n, x)
    BY <1>1, <1>5, <1>6, <1>7, FoundIs
  <1>9. PICK g : g = [f EXCEPT !.data = @ \cup {d}]
    OBVIOUS
  <1>10. IsOf(g, L, n, x) /\ g \in Held
    BY <1>8, <1>9, StoredIs
  <1>11. PICK w \in Seq(Held) : w = [l EXCEPT ![k] = g]
    <2>1. Ordered(l)
      BY <1>1, <1>2, <1>3, <1>4 DEF Listed, MayRun, MayScan
    <2>2. g.kind = l[k].kind /\ g.seq = l[k].seq /\ g.useq = l[k].useq
      BY <1>6, <1>8, <1>9, StoredIs
    <2>3. Replaced([l EXCEPT ![k] = g], l, k, g)
      BY <1>5, <1>10, <2>1, <2>2, ReplacedIs
    <2> QED
      BY <2>3 DEF Replaced
  <1>12. \A h : InList(w, h) => InList(l, h) \/ h \in {g}
    <2>1. TAKE h
    <2>2. HAVE InList(w, h)
    <2>3. Len(w) = Len(l) /\ \A i \in 1 .. Len(l) : w[i] = IF i = k THEN g ELSE l[i]
      BY <1>5, <1>11
    <2>4. PICK i \in 1 .. Len(l) : w[i] = h
      BY <2>2, <2>3 DEF InList
    <2> QED
      BY <2>3, <2>4 DEF InList
  <1>13. PICK s : s = Stored(p, e, k, d)
    OBVIOUS
  <1>14. \E u, v : /\ ListsPut(s, p, c, u, v)
                   /\ \A h : InList(u, h) => Has(p, h) \/ h \in {g}
                   /\ \A h : InList(v, h) => Has(p, h) \/ h \in {g}
    <2>1. CASE IsReliable(e)
      <3>1. l = ch.rel
        BY <1>1, <1>2, <1>4, <2>1 DEF Listed
      <3>2. s = [p EXCEPT !.chan[c].rel = w]
        <4>1. s = [p EXCEPT !.chan[c].rel[k].data = @ \cup {d}]
          BY <1>1, <1>13, <2>1 DEF Stored
        <4>2. p.chan[c].rel = l /\ l[k] = f
          BY <1>2, <1>6, <3>1
        <4> QED
          BY <1>3, <1>9, <1>11, <4>1, <4>2 DEF Receiver, ChanRec
      <3>3. ListsPut(s, p, c, w, ch.unrel)
        BY <1>2, <1>3, <3>2, RelPut
      <3>4. \A h : InList(ch.unrel, h) => Has(p, h)
        BY <1>2 DEF Has
      <3>5. \A h : InList(l, h) => Has(p, h)
        BY <1>2, <3>1 DEF Has
      <3> QED
        BY <1>12, <3>3, <3>4, <3>5
    <2>2. CASE ~IsReliable(e)
      <3>1. l = ch.unrel
        BY <1>1, <1>2, <1>4, <2>2 DEF Listed
      <3>2. s = [p EXCEPT !.chan[c].unrel = w]
        <4>1. s = [p EXCEPT !.chan[c].unrel[k].data = @ \cup {d}]
          BY <1>1, <1>13, <2>2 DEF Stored
        <4>2. p.chan[c].unrel = l /\ l[k] = f
          BY <1>2, <1>6, <3>1
        <4> QED
          BY <1>3, <1>9, <1>11, <4>1, <4>2 DEF Receiver, ChanRec
      <3>3. ListsPut(s, p, c, ch.rel, w)
        BY <1>2, <1>3, <3>2, UnrelPut
      <3>4. \A h : InList(ch.rel, h) => Has(p, h)
        BY <1>2 DEF Has
      <3>5. \A h : InList(l, h) => Has(p, h)
        BY <1>2, <3>1 DEF Has
      <3> QED
        BY <1>12, <3>3, <3>4, <3>5
    <2> QED
      BY <2>1, <2>2
  <1>15. PICK u, v : /\ ListsPut(s, p, c, u, v)
                     /\ \A h : InList(u, h) => Has(p, h) \/ h \in {g}
                     /\ \A h : InList(v, h) => Has(p, h) \/ h \in {g}
    BY <1>14
  <1>16. s \in Receiver /\ s.waiting = p.waiting /\ \A h : Has(s, h) => Has(p, h) \/ h = g
    <2> DEFINE E == {g}
    <2> HIDE DEF E
    <2>1. /\ s \in Receiver /\ SameBut(s, p, c) /\ s.dispatched = p.dispatched /\ s.waiting = p.waiting
          /\ s.chan[c].rel = u /\ s.chan[c].unrel = v
      BY <1>15 DEF ListsPut
    <2>2. \A h : InList(s.dispatched, h) => Has(p, h) \/ h \in E
      BY <2>1 DEF Has
    <2>3. \A h : InList(s.chan[c].rel, h) => Has(p, h) \/ h \in E
      BY <1>15, <2>1 DEF E
    <2>4. \A h : InList(s.chan[c].unrel, h) => Has(p, h) \/ h \in E
      BY <1>15, <2>1 DEF E
    <2>5. \A h : Has(s, h) => Has(p, h) \/ h \in E
      BY <2>1, <2>2, <2>3, <2>4, HasFrom
    <2> QED
      BY <2>1, <2>5 DEF E
  <1>17. x \in Holding(L, n, p)
    <2>1. InList(l, f)
      BY <1>5, <1>6 DEF InList
    <2>2. l = ch.rel \/ l = ch.unrel
      BY <1>1, <1>2, <1>4 DEF Listed
    <2>3. Has(p, f)
      BY <1>2, <2>1, <2>2 DEF Has
    <2> QED
      BY <1>8, <2>3 DEF Holding, IsOf
  <1>18. ASSUME NEW m, Moves(m, s)
         PROVE  m \in Receiver /\ SameHeld(L, n, p, m)
    <2>1. m \in Receiver /\ m.waiting = p.waiting
      BY <1>16, <1>18 DEF Moves
    <2>2. ASSUME NEW y \in Holding(L, n, m)
          PROVE  y \in Holding(L, n, p)
      <3>1. y \in 1 .. Len(L) /\ \E h : IsOf(h, L, n, y) /\ Has(m, h)
        BY <2>2 DEF Holding
      <3>2. PICK h : IsOf(h, L, n, y) /\ Has(m, h)
        BY <3>1
      <3>3. Has(p, h) \/ h = g
        BY <1>16, <1>18, <3>2 DEF Moves
      <3>4. CASE Has(p, h)
        BY <3>1, <3>2, <3>4 DEF Holding
      <3>5. CASE h = g
        BY <1>10, <1>17, <3>2, <3>5, IsOfOne
      <3> QED
        BY <3>3, <3>4, <3>5
    <2> QED
      BY <2>1, <2>2 DEF SameHeld
  <1>19. r.peer \in {p, s, DispatchReliable(s, c), DispatchUnreliable(s, c)}
    BY <1>1, <1>13 DEF StoreAt, DispatchIf, Done
  <1>20. Moves(s, s)
    BY <1>16 DEF Moves
  <1>21. Moves(DispatchReliable(s, c), s) /\ Moves(DispatchUnreliable(s, c), s)
    BY <1>16, RunMoves, ScanMoves
  <1>22. p \in Receiver /\ SameHeld(L, n, p, p)
    BY <1>3 DEF SameHeld
  <1> QED
    BY <1>18, <1>19, <1>20, <1>21, <1>22

LEMMA StoreTally ==
  ASSUME NEW L, NEW n, Known(L, n), NEW p, NEW G, Good(L, n, p, G, {}),
         NEW e, NEW x, IsOf(e, L, n, x), Sequenced(e), NEW d \in Parts(L, x),
         NEW r, r = StoreIn(p, e, d)
  PROVE  Tally(L, n, p, r.peer, x)
  <1>1. p \in Receiver /\ Tally(L, n, p, p, x)
    BY TallyNot DEF Good
  <1>2. CASE Start(p, e) # {}
    <2>1. PICK k : k = CHOOSE i \in Start(p, e) : TRUE
      OBVIOUS
    <2>2. k \in Start(p, e)
      BY <1>2, <2>1
    <2>3. r = Done(p, FALSE) \/ r = StoreAt(p, e, k, d)
      BY <1>2, <2>1 DEF StoreIn, StoreFound
    <2>4. CASE r = Done(p, FALSE)
      BY <1>1, <2>4 DEF Done
    <2>5. CASE r = StoreAt(p, e, k, d)
      <3>1. r.peer \in Receiver /\ SameHeld(L, n, p, r.peer)
        BY <2>2, <2>5, StoreHeld
      <3> QED
        BY <3>1 DEF Tally
    <2> QED
      BY <2>3, <2>4, <2>5
  <1>3. CASE Start(p, e) = {}
    <2>1. PICK q : q = QueueEntry(p, e)
      OBVIOUS
    <2>2. IsAny(e, L, n) /\ e.ch \in Channels
      <3>1. IsAny(e, L, n)
        BY DEF IsAny
      <3> QED
        BY <3>1, AnyIs
    <2>3. Good(L, n, q.peer, G, {})
      <3>1. PICK c \in Channels : c = e.ch
        BY <2>2
      <3>2. Steps(L, n, p, q.peer, G, {}, c, e)
        BY <2>1, <2>2, <3>1, QueueKeeps
      <3> QED
        BY <3>2 DEF Steps
    <2>4. PICK k : k = CHOOSE i \in Start(q.peer, e) : TRUE
      OBVIOUS
    <2>5. \/ r = Done(p, FALSE)
          \/ r = [Done(q.peer, TRUE) EXCEPT !.freed = TRUE]
          \/ k \in Start(q.peer, e) /\ r = StoreAt(q.peer, e, k, d)
      BY <1>3, <2>1, <2>4 DEF StoreIn, StoreQueued
    <2>6. Tally(L, n, p, q.peer, x)
      BY <1>1, <2>1, QueueTally
    <2>7. CASE r = Done(p, FALSE)
      BY <1>1, <2>7 DEF Done
    <2>8. CASE r = [Done(q.peer, TRUE) EXCEPT !.freed = TRUE]
      <3>1. r.peer = q.peer
        BY <2>8 DEF Done
      <3> QED
        BY <2>6, <3>1
    <2>9. CASE k \in Start(q.peer, e) /\ r = StoreAt(q.peer, e, k, d)
      <3>1. r.peer \in Receiver /\ SameHeld(L, n, q.peer, r.peer)
        BY <2>3, <2>9, StoreHeld
      <3> QED
        BY <2>6, <3>1, TallyMore
    <2> QED
      BY <2>5, <2>7, <2>8, <2>9
  <1> QED
    BY <1>2, <1>3

LEMMA UnsequencedTally ==
  ASSUME NEW L, NEW n, Known(L, n), NEW p \in Receiver,
         NEW x \in 1 .. Len(L), NEW i \in 0 .. L[x].size - 1, NEW cmd, cmd = CommandOf(L, n, x, i),
         L[x].kind = "unsequenced", NEW r, r = HandleUnsequenced(p, cmd).peer
  PROVE  Tally(L, n, p, r, x)
  <1>1. PICK g \in Nat : g = cmd.useq /\ n[x].seq = 0
    BY PacketFacts DEF Stamped, CommandOf
  <1>2. PICK y \in Nat : y = g % UnsequencedSize
    BY <1>1, Constants, Quotient
  <1>3. PICK b \in Nat : b = g - y
    <2>1. PICK u \in Nat \ {0} : u = UnsequencedSize
      BY Constants
    <2>2. g \div u \in Nat /\ g = (g \div u) * u + (g % u)
      BY Quotient
    <2>3. PICK k \in Nat : k = (g \div u) * u
      BY <2>2
    <2>4. g = k + y
      BY <1>2, <2>1, <2>2, <2>3
    <2> QED
      BY <2>4
  <1>4. PICK e : e = Incoming(cmd, 0)
    OBVIOUS
  <1>5. IsOf(e, L, n, x)
    <2>1. e = Incoming(cmd, n[x].seq)
      BY <1>1, <1>4
    <2>2. IsOf(e, L, n, x) /\ e.ch = L[x].ch /\ e.kind = L[x].kind /\ <<cmd.frag, cmd.pkt>> \in Parts(L, x)
      BY <2>1, IncomingIs
    <2> QED
      BY <2>2
  <1>6. PICK m : m = Advanced(p, b)
    OBVIOUS
  <1>7. m \in Receiver /\ m.chan = p.chan /\ m.dispatched = p.dispatched /\ m.waiting = p.waiting
    BY <1>6 DEF Advanced, Receiver
  <1>8. PICK q : q = QueueEntry(m, e)
    OBVIOUS
  <1>9. Tally(L, n, m, q.peer, x)
    BY <1>5, <1>7, <1>8, QueueTally
  <1>10. Holding(L, n, m) = Holding(L, n, p)
    <2>1. \A h : Has(m, h) <=> Has(p, h)
      BY <1>7 DEF Has
    <2> QED
      BY <2>1 DEF Holding
  <1>11. Tally(L, n, p, q.peer, x)
    BY <1>7, <1>9, <1>10 DEF Tally, SameHeld, MoreHeld
  <1>12. r = p \/ r = Marked(q, y).peer
    BY <1>1, <1>2, <1>3, <1>4, <1>6, <1>8 DEF HandleUnsequenced, Done, QueueIncoming
  <1>13. CASE r = p
    BY <1>13, TallyNot
  <1>14. CASE r = q.peer
    BY <1>11, <1>14
  <1>15. CASE r = [q.peer EXCEPT !.seen = @ \cup {y}]
    <2>1. PICK o \in Receiver : o = q.peer
      BY <1>11 DEF Tally
    <2>2. PICK S \in SUBSET Nat : S = o.seen \cup {y}
      BY <2>1 DEF Receiver
    <2>3. r = [o EXCEPT !.seen = S]
      BY <1>15, <2>1, <2>2
    <2>4. r \in Receiver /\ r.chan = o.chan /\ r.dispatched = o.dispatched /\ r.waiting = o.waiting
      BY <2>3 DEF Receiver
    <2>5. SameHeld(L, n, o, r)
      <3>1. \A h : Has(r, h) <=> Has(o, h)
        BY <2>4 DEF Has
      <3> QED
        BY <2>4, <3>1 DEF SameHeld, Holding
    <2> QED
      BY <1>11, <2>1, <2>4, <2>5, TallyMore
  <1> QED
    BY <1>12, <1>13, <1>14, <1>15 DEF Marked, Done

\* What a command changes in what is held and counted, whatever it is.
LEMMA HandleTally ==
  ASSUME NEW L, NEW n, Known(L, n), NEW p, NEW G, Good(L, n, p, G, {}),
         NEW x \in 1 .. Len(L), NEW i \in 0 .. L[x].size - 1, NEW cmd, cmd = CommandOf(L, n, x, i),
         NEW r, r = Handle(p, cmd).peer
  PROVE  Tally(L, n, p, r, x)
  <1>1. p \in Receiver /\ L[x].kind \in Kinds /\ cmd.kind = L[x].kind
    BY PacketFacts DEF Good, CommandOf
  <1>2. PICK e : e = Incoming(cmd, n[x].seq)
    OBVIOUS
  <1>3. IsOf(e, L, n, x) /\ e.ch = L[x].ch /\ e.kind = L[x].kind /\ <<cmd.frag, cmd.pkt>> \in Parts(L, x)
    BY <1>2, IncomingIs
  <1>4. CASE L[x].kind = "unsequenced"
    <2>1. r = HandleUnsequenced(p, cmd).peer
      BY <1>1, <1>4 DEF Handle
    <2> QED
      BY <1>1, <1>4, <2>1, UnsequencedTally
  <1>5. CASE L[x].kind \in {"reliable", "unreliable"}
    <2>1. cmd.seq = n[x].seq
      BY <1>5 DEF CommandOf
    <2>2. r = QueueEntry(p, e).peer
      BY <1>1, <1>2, <1>5, <2>1 DEF Handle, HandleWhole, Whole, QueueIncoming, Done
    <2> QED
      BY <1>1, <1>3, <2>2, QueueTally
  <1>6. CASE L[x].kind \in {"fragment", "unreliableFragment"}
    <2>1. PICK s : s = StoreIn(p, e, <<cmd.frag, cmd.pkt>>)
      OBVIOUS
    <2>2. Tally(L, n, p, s.peer, x)
      <3>1. Sequenced(e)
        BY <1>3, <1>6 DEF Sequenced
      <3> QED
        BY <1>3, <2>1, <3>1, StoreTally
    <2>3. r = p \/ r = s.peer
      <3>1. CASE L[x].kind = "fragment"
        <4>1. cmd.useq = n[x].seq
          BY <3>1 DEF CommandOf
        <4> QED
          BY <1>1, <1>2, <2>1, <3>1, <4>1 DEF Handle, HandleFragment, StoreFragment, Done
      <3>2. CASE L[x].kind = "unreliableFragment"
        <4>1. cmd.seq = n[x].seq
          BY <3>2 DEF CommandOf
        <4> QED
          BY <1>1, <1>2, <2>1, <3>2, <4>1 DEF Handle, HandleUnreliableFragment, StoreFragment, Done
      <3> QED
        BY <1>6, <3>1, <3>2
    <2> QED
      BY <1>1, <2>2, <2>3, TallyNot
  <1> QED
    BY <1>1, <1>4, <1>5, <1>6 DEF Kinds

\* The parts of the packets of S: what they count for together.
Shares(L, S) == UNION {Parts(L, x) : x \in S}

LEMMA SharesFinite ==
  ASSUME NEW L, NEW n, Known(L, n), NEW S, S \subseteq 1 .. Len(L)
  PROVE  IsFiniteSet(Shares(L, S)) /\ Cardinality(Shares(L, S)) \in Nat
  <1>1. PICK l \in Nat : l = Len(L)
    BY LenProperties DEF Known
  <1>2. IsFiniteSet(S)
    <2>1. IsFiniteSet(1 .. l)
      BY FS_Interval
    <2>2. S \in SUBSET (1 .. l)
      BY <1>1
    <2> QED
      BY <2>1, <2>2, FS_Subset
  <1>3. PICK T : T = {Parts(L, x) : x \in S}
    OBVIOUS
  <1>4. PICK f : f = [x \in S |-> Parts(L, x)]
    OBVIOUS
  <1>5. f \in Surjection(S, T)
    BY <1>3, <1>4 DEF Surjection
  <1>6. IsFiniteSet(T)
    BY <1>2, <1>5, FS_Surjection
  <1>7. \A A \in T : IsFiniteSet(A)
    <2>1. TAKE A \in T
    <2>2. PICK x \in S : A = Parts(L, x)
      BY <1>3
    <2>3. x \in Nat /\ L[x].size \in Nat \ {0}
      BY PacketFacts
    <2> QED
      BY <2>2, <2>3, PartsAre
  <1>8. IsFiniteSet(UNION T)
    BY <1>6, <1>7, FS_UNION
  <1> QED
    BY <1>3, <1>8, FS_CardinalityType DEF Shares

\* A packet more counts for its parts, and only if it was not there.
LEMMA SharesMore ==
  ASSUME NEW L, NEW n, Known(L, n), NEW S, S \subseteq 1 .. Len(L), NEW x \in 1 .. Len(L)
  PROVE  /\ Cardinality(Shares(L, S \cup {x})) <= Cardinality(Shares(L, S)) + L[x].size
         /\ x \notin S => Cardinality(Shares(L, S \cup {x})) = Cardinality(Shares(L, S)) + L[x].size
  <1>1. x \in Nat /\ L[x].size \in Nat \ {0}
    BY PacketFacts
  <1>2. PICK P : P = Parts(L, x)
    OBVIOUS
  <1>3. IsFiniteSet(P) /\ Cardinality(P) = L[x].size /\ \A z \in P : z[2] = x
    BY <1>1, <1>2, PartsAre
  <1>4. PICK A : A = Shares(L, S)
    OBVIOUS
  <1>5. IsFiniteSet(A) /\ Cardinality(A) \in Nat
    BY <1>4, SharesFinite
  <1>6. Shares(L, S \cup {x}) = A \cup P
    BY <1>2, <1>4 DEF Shares
  <1>7. Cardinality(A \cup P) = Cardinality(A) + Cardinality(P) - Cardinality(A \cap P)
    BY <1>3, <1>5, FS_Union
  <1>8. IsFiniteSet(A \cap P) /\ Cardinality(A \cap P) \in Nat
    <2>1. IsFiniteSet(A \cap P)
      BY <1>5, FS_Intersection
    <2> QED
      BY <2>1, FS_CardinalityType
  <1>9. x \notin S => Cardinality(A \cap P) = 0
    <2>1. HAVE x \notin S
    <2>2. ASSUME NEW z \in A
          PROVE  z \notin P
      <3>1. PICK y \in S : z \in Parts(L, y)
        BY <1>4, <2>2 DEF Shares
      <3>2. y \in Nat /\ L[y].size \in Nat \ {0}
        BY PacketFacts
      <3>3. z[2] = y
        BY <3>1, <3>2, PartsAre
      <3> QED
        BY <1>3, <2>1, <3>3
    <2>3. A \cap P = {}
      BY <2>2
    <2> QED
      BY <2>3, FS_EmptySet
  <1>10. PICK a \in Nat, b \in Nat, s \in Nat : a = Cardinality(A) /\ b = Cardinality(A \cap P) /\ s = L[x].size
    BY <1>1, <1>5, <1>8
  <1>11. Cardinality(Shares(L, S \cup {x})) = a + s - b
    BY <1>3, <1>6, <1>7, <1>10
  <1>12. a + s - b <= a + s
    OBVIOUS
  <1>13. x \notin S => a + s - b = a + s
    BY <1>9, <1>10
  <1> QED
    BY <1>4, <1>10, <1>11, <1>12, <1>13

LEMMA SharesLess ==
  ASSUME NEW L, NEW n, Known(L, n), NEW S, S \subseteq 1 .. Len(L), NEW T, T \subseteq S
  PROVE  Cardinality(Shares(L, T)) <= Cardinality(Shares(L, S))
  <1>1. Shares(L, T) \in SUBSET Shares(L, S)
    BY DEF Shares
  <1>2. IsFiniteSet(Shares(L, S))
    BY SharesFinite
  <1> QED
    BY <1>1, <1>2, FS_Subset

\* totalWaitingData counts at least what is held.
Covers(L, n, p) == p.waiting \in Nat /\ Cardinality(Shares(L, Holding(L, n, p))) <= p.waiting

LEMMA TallyCovers ==
  ASSUME NEW L, NEW n, Known(L, n), NEW p, Covers(L, n, p), NEW x \in 1 .. Len(L), NEW r, Tally(L, n, p, r, x)
  PROVE  Covers(L, n, r)
  <1>1. PICK S, T : S = Holding(L, n, p) /\ T = Holding(L, n, r)
    OBVIOUS
  <1>2. S \subseteq 1 .. Len(L) /\ T \subseteq 1 .. Len(L) /\ S \cup {x} \subseteq 1 .. Len(L)
    BY <1>1 DEF Holding
  <1>3. /\ Cardinality(Shares(L, S)) \in Nat /\ Cardinality(Shares(L, T)) \in Nat
        /\ Cardinality(Shares(L, S \cup {x})) \in Nat
    BY <1>2, SharesFinite
  <1>4. PICK a \in Nat, b \in Nat, d \in Nat :
          /\ a = Cardinality(Shares(L, S)) /\ b = Cardinality(Shares(L, T))
          /\ d = Cardinality(Shares(L, S \cup {x}))
    BY <1>3
  <1>5. PICK w \in Nat : w = p.waiting /\ a <= w
    BY <1>1, <1>4 DEF Covers
  <1>6. CASE SameHeld(L, n, p, r)
    <2>1. r.waiting = w /\ T \subseteq S
      BY <1>1, <1>5, <1>6 DEF SameHeld
    <2>2. b <= a
      BY <1>2, <1>4, <2>1, SharesLess
    <2>3. b <= w
      BY <1>5, <2>2
    <2> QED
      BY <1>1, <1>4, <2>1, <2>3 DEF Covers
  <1>7. CASE MoreHeld(L, n, p, r, x)
    <2>1. PICK s \in Nat : s = L[x].size
      BY PacketFacts
    <2>2. r.waiting = w + s /\ T \subseteq S \cup {x}
      BY <1>1, <1>5, <1>7, <2>1 DEF MoreHeld
    <2>3. b <= d
      BY <1>2, <1>4, <2>2, SharesLess
    <2>4. d <= a + s
      BY <1>2, <1>4, <2>1, SharesMore
    <2>5. b <= w + s /\ w + s \in Nat
      BY <1>5, <2>3, <2>4
    <2> QED
      BY <1>1, <1>4, <2>2, <2>5 DEF Covers
  <1> QED
    BY <1>6, <1>7 DEF Tally

\* The lists of the receiver, by the names that HeldUnits gives them.
ListNames == {<<"dispatched">>} \cup {<<"rel", c>> : c \in Channels} \cup {<<"unrel", c>> : c \in Channels}
ListOf(p, t) ==
  IF t[1] = "dispatched" THEN p.dispatched
  ELSE IF t[1] = "rel" THEN p.chan[t[2]].rel ELSE p.chan[t[2]].unrel

\* Entries of the same packet have the same numbers.
LEMMA SameNumbers ==
  ASSUME NEW L, NEW n, Known(L, n), NEW x, NEW e, IsOf(e, L, n, x), NEW f, IsOf(f, L, n, x)
  PROVE  /\ e.ch = f.ch /\ e.seq = f.seq /\ e.useq = f.useq /\ e.seq \in Nat /\ e.useq \in Nat
         /\ IsReliable(e) = IsReliable(f) /\ Sequenced(e) = Sequenced(f) /\ ~Earlier(e, f)
  <1>1. EntryFacts(e, L, n, x) /\ EntryFacts(f, L, n, x)
    BY EntryIs
  <1>2. e.kind = f.kind /\ e.ch = f.ch /\ e.seq = f.seq /\ e.useq = f.useq /\ e.seq \in Nat /\ e.useq \in Nat
    BY <1>1 DEF EntryFacts
  <1>3. ~Earlier(e, f)
    BY <1>2 DEF Earlier
  <1> QED
    BY <1>2, <1>3 DEF IsReliable, Sequenced

\* A packet is dispatched once.
LEMMA DispatchedApart ==
  ASSUME NEW L, NEW n, Known(L, n), NEW p, NEW G, Good(L, n, p, G, {}), Once(L, n, p, G \o p.dispatched),
         NEW i \in 1 .. Len(p.dispatched), NEW j \in 1 .. Len(p.dispatched),
         NEW x, IsOf(p.dispatched[i], L, n, x), IsOf(p.dispatched[j], L, n, x)
  PROVE  i = j
  <1>1. PICK d \in Seq(Held) : d = p.dispatched
    BY DEF Good, Receiver
  <1>2. PICK D \in Seq(Held) : D = G \o d
    BY <1>1 DEF Good, Delivered
  <1>3. Joins(D, G, d) /\ G \in Seq(Held)
    BY <1>1, <1>2, JoinIs DEF Good
  <1>4. PICK k \in Nat, l \in Nat : k = Len(G) /\ l = Len(d)
    BY <1>1, <1>3, LenProperties
  <1>5. PICK a \in Nat, b \in Nat : a = k + i /\ b = k + j
    <2>1. i \in 1 .. l /\ j \in 1 .. l
      BY <1>1, <1>4
    <2>2. k + i \in Nat /\ k + j \in Nat
      BY <2>1
    <2> QED
      BY <2>2
  <1>6. /\ D[a] = d[i] /\ D[b] = d[j] /\ a \in 1 .. Len(D) /\ b \in 1 .. Len(D) /\ i \in 1 .. l /\ j \in 1 .. l
    <2>1. i \in 1 .. l /\ j \in 1 .. l
      BY <1>1, <1>4
    <2>2. Len(D) = k + l /\ D[k + i] = d[i] /\ D[k + j] = d[j]
      BY <1>3, <1>4, <2>1 DEF Joins
    <2> QED
      BY <1>5, <2>1, <2>2
  <1>7. /\ D[a].ch = D[b].ch /\ (Sequenced(D[a]) = Sequenced(D[b]))
        /\ ~Earlier(D[a], D[b]) /\ ~Earlier(D[b], D[a])
    BY <1>1, <1>6, SameNumbers
  <1>8. CASE Sequenced(D[a])
    <2>1. Delivered(L, n, p.chan, D)
      BY <1>1, <1>2 DEF Good
    <2>2. ~(a < b) /\ ~(b < a)
      BY <1>6, <1>7, <1>8, <2>1 DEF Delivered
    <2> QED
      BY <1>4, <1>5, <1>6, <2>2
  <1>9. CASE ~Sequenced(D[a])
    <2>1. IsAny(D[a], L, n) /\ IsAny(D[b], L, n) /\ ~Sequenced(D[b])
      BY <1>1, <1>6, <1>7, <1>9 DEF IsAny
    <2>2. Complete(D[a]) /\ Complete(D[b])
      BY <1>9, <2>1, AnyIs
    <2>3. PICK y, z : y = PacketOf(D[a]) /\ z = PacketOf(D[b])
      OBVIOUS
    <2>4. IsOf(D[a], L, n, y) /\ IsOf(D[b], L, n, z)
      BY <2>1, <2>2, <2>3, PacketOfIs
    <2>5. y = x /\ z = x
      BY <1>1, <1>6, <2>4, IsOfOne
    <2>6. Taken(L, n, p, D)
      BY <1>1, <1>2 DEF Once
    <2>7. a = b
      BY <1>6, <1>9, <2>1, <2>3, <2>5, <2>6 DEF Taken
    <2> QED
      BY <1>4, <1>5, <1>6, <2>7
  <1> QED
    BY <1>8, <1>9

\* What is dispatched is behind the numbers of its channel, what waits is not.
LEMMA DispatchedBehind ==
  ASSUME NEW L, NEW n, NEW p, NEW G, Good(L, n, p, G, {}), NEW i \in 1 .. Len(p.dispatched),
         NEW e, e = p.dispatched[i], Sequenced(e)
  PROVE  Behind(e, p.chan[e.ch])
  <1>1. PICK d \in Seq(Held) : d = p.dispatched
    BY DEF Good, Receiver
  <1>2. PICK D \in Seq(Held) : D = G \o d
    BY <1>1 DEF Good, Delivered
  <1>3. Joins(D, G, d) /\ G \in Seq(Held)
    BY <1>1, <1>2, JoinIs DEF Good
  <1>4. PICK k \in Nat, l \in Nat : k = Len(G) /\ l = Len(d)
    BY <1>1, <1>3, LenProperties
  <1>5. i \in 1 .. l
    BY <1>1, <1>4
  <1>6. Len(D) = k + l /\ D[k + i] = d[i]
    BY <1>3, <1>4, <1>5 DEF Joins
  <1>7. k + i \in 1 .. Len(D)
    BY <1>5, <1>6
  <1> QED
    BY <1>1, <1>2, <1>6, <1>7 DEF Good, Delivered

Waits(e, p, c) == e.ch = c /\ Sequenced(e) /\ ~Behind(e, p.chan[c])

LEMMA ListedWaits ==
  ASSUME NEW L, NEW n, Known(L, n), NEW p, NEW G, Good(L, n, p, G, {}), NEW c \in Channels
  PROVE  /\ p.chan[c].rel \in Seq(Held) /\ Ordered(p.chan[c].rel)
         /\ p.chan[c].unrel \in Seq(Held) /\ Ordered(p.chan[c].unrel)
         /\ \A i \in 1 .. Len(p.chan[c].rel) : /\ Waits(p.chan[c].rel[i], p, c) /\ IsReliable(p.chan[c].rel[i])
                                               /\ IsAny(p.chan[c].rel[i], L, n)
         /\ \A i \in 1 .. Len(p.chan[c].unrel) : /\ Waits(p.chan[c].unrel[i], p, c)
                                                 /\ ~IsReliable(p.chan[c].unrel[i])
                                                 /\ IsAny(p.chan[c].unrel[i], L, n)
  <1>1. PICK ch : ch = p.chan[c]
    OBVIOUS
  <1>2. Counting(ch) /\ MayRun(L, n, ch, c) /\ MayScan(L, n, ch, c) /\ Scanned(ch)
    BY <1>1 DEF Good, Lists
  <1>3. PICK R \in Nat, U \in Nat : R = ch.rseq /\ U = ch.useq
    BY <1>2 DEF Counting
  <1>4. ASSUME NEW i \in 1 .. Len(ch.rel)
        PROVE  Waits(ch.rel[i], p, c) /\ IsReliable(ch.rel[i]) /\ IsAny(ch.rel[i], L, n)
    <2>1. PICK e : e = ch.rel[i]
      OBVIOUS
    <2>2. IsAny(e, L, n) /\ e.ch = c /\ IsReliable(e) /\ e.seq > R
      BY <1>2, <1>3, <1>4, <2>1 DEF MayRun
    <2>3. Sequenced(e) /\ e.seq \in Nat
      BY <2>2, AnyIs
    <2>4. ~Behind(e, ch)
      BY <1>3, <2>2, <2>3 DEF Behind
    <2> QED
      BY <1>1, <2>1, <2>2, <2>3, <2>4 DEF Waits
  <1>5. ASSUME NEW i \in 1 .. Len(ch.unrel)
        PROVE  Waits(ch.unrel[i], p, c) /\ ~IsReliable(ch.unrel[i]) /\ IsAny(ch.unrel[i], L, n)
    <2>1. PICK e : e = ch.unrel[i]
      OBVIOUS
    <2>2. IsAny(e, L, n) /\ e.ch = c /\ ~IsReliable(e) /\ (Sequenced(e) /\ e.seq = R => e.useq > U)
      BY <1>2, <1>3, <1>5, <2>1 DEF MayScan
    <2>3. Sequenced(e) /\ e.seq >= R
      BY <1>2, <1>3, <1>5, <2>1 DEF Scanned
    <2>4. e.seq \in Nat /\ e.useq \in Nat
      BY <2>2, AnyIs
    <2>5. ~Behind(e, ch)
      BY <1>3, <2>2, <2>3, <2>4 DEF Behind
    <2> QED
      BY <1>1, <2>1, <2>2, <2>3, <2>5 DEF Waits
  <1> QED
    BY <1>1, <1>2, <1>4, <1>5 DEF MayRun, MayScan

\* What is behind and what waits are of different packets.
LEMMA NotBoth ==
  ASSUME NEW L, NEW n, Known(L, n), NEW p, NEW G, Good(L, n, p, G, {}),
         NEW x, NEW i \in 1 .. Len(p.dispatched), IsOf(p.dispatched[i], L, n, x),
         NEW f, NEW c \in Channels, Waits(f, p, c)
  PROVE  ~IsOf(f, L, n, x)
  <1>1. SUFFICES ASSUME IsOf(f, L, n, x)
                 PROVE  FALSE
    OBVIOUS
  <1>2. PICK e : e = p.dispatched[i]
    OBVIOUS
  <1>3. e.ch = f.ch /\ e.seq = f.seq /\ e.useq = f.useq /\ (Sequenced(e) = Sequenced(f))
    BY <1>1, <1>2, SameNumbers
  <1>4. Sequenced(e) /\ e.ch = c
    BY <1>3 DEF Waits
  <1>5. Behind(e, p.chan[c])
    BY <1>2, <1>4, DispatchedBehind
  <1> QED
    BY <1>3, <1>5 DEF Waits, Behind

\* In a list that is sorted a packet is once.
LEMMA OrderedApart ==
  ASSUME NEW L, NEW n, Known(L, n), NEW q \in Seq(Held), Ordered(q), NEW i \in 1 .. Len(q), NEW j \in 1 .. Len(q),
         NEW x, IsOf(q[i], L, n, x), IsOf(q[j], L, n, x), Sequenced(q[i])
  PROVE  i = j
  <1>1. (Sequenced(q[i]) = Sequenced(q[j])) /\ ~Earlier(q[i], q[j]) /\ ~Earlier(q[j], q[i])
    <2>1. PICK e, g : e = q[i] /\ g = q[j]
      OBVIOUS
    <2>2. IsOf(e, L, n, x) /\ IsOf(g, L, n, x)
      BY <2>1
    <2>3. (Sequenced(e) = Sequenced(g)) /\ ~Earlier(e, g)
      BY <2>2, SameNumbers
    <2>4. ~Earlier(g, e)
      BY <2>2, SameNumbers
    <2> QED
      BY <2>1, <2>3, <2>4
  <1>2. ~(i < j) /\ ~(j < i)
    BY <1>1 DEF Ordered
  <1> QED
    BY <1>2

LEMMA Apart ==
  ASSUME NEW L, NEW n, Known(L, n), NEW p, NEW G, Good(L, n, p, G, {}), Once(L, n, p, G \o p.dispatched),
         NEW t \in ListNames, NEW u \in ListNames,
         NEW i \in 1 .. Len(ListOf(p, t)), NEW j \in 1 .. Len(ListOf(p, u)),
         NEW x, IsOf(ListOf(p, t)[i], L, n, x), IsOf(ListOf(p, u)[j], L, n, x)
  PROVE  t = u /\ i = j
  <1>1. ASSUME NEW v \in ListNames
        PROVE  \/ v = <<"dispatched">> /\ ListOf(p, v) = p.dispatched
               \/ \E c \in Channels : v = <<"rel", c>> /\ ListOf(p, v) = p.chan[c].rel
               \/ \E c \in Channels : v = <<"unrel", c>> /\ ListOf(p, v) = p.chan[c].unrel
    <2>1. CASE v = <<"dispatched">>
      BY <2>1 DEF ListOf
    <2>2. ASSUME NEW c \in Channels, v = <<"rel", c>>
          PROVE  ListOf(p, v) = p.chan[c].rel
      BY <2>2 DEF ListOf
    <2>3. ASSUME NEW c \in Channels, v = <<"unrel", c>>
          PROVE  ListOf(p, v) = p.chan[c].unrel
      BY <2>3 DEF ListOf
    <2> QED
      BY <1>1, <2>1, <2>2, <2>3 DEF ListNames
  <1>2. PICK e : e = ListOf(p, t)[i]
    OBVIOUS
  <1>3. PICK f : f = ListOf(p, u)[j]
    OBVIOUS
  <1>4. IsOf(e, L, n, x) /\ IsOf(f, L, n, x) /\ e.ch = f.ch /\ IsReliable(e) = IsReliable(f)
    <2>1. IsOf(e, L, n, x) /\ IsOf(f, L, n, x)
      BY <1>2, <1>3
    <2> QED
      BY <2>1, SameNumbers
  <1>5. ASSUME NEW v \in ListNames, v # <<"dispatched">>, NEW k \in 1 .. Len(ListOf(p, v))
        PROVE  \E c \in Channels : Waits(ListOf(p, v)[k], p, c)
    BY <1>1, <1>5, ListedWaits
  <1>6. CASE t = <<"dispatched">> /\ u = <<"dispatched">>
    <2>1. ListOf(p, t) = p.dispatched /\ ListOf(p, u) = p.dispatched
      BY <1>6 DEF ListOf
    <2>2. i = j
      BY <2>1, DispatchedApart
    <2> QED
      BY <1>6, <2>2
  <1>7. CASE t = <<"dispatched">> /\ u # <<"dispatched">>
    <2>1. ListOf(p, t) = p.dispatched
      BY <1>7 DEF ListOf
    <2>2. PICK c \in Channels : Waits(f, p, c)
      BY <1>3, <1>5, <1>7
    <2>3. i \in 1 .. Len(p.dispatched) /\ IsOf(p.dispatched[i], L, n, x)
      BY <2>1
    <2> QED
      BY <1>4, <2>2, <2>3, NotBoth
  <1>8. CASE t # <<"dispatched">> /\ u = <<"dispatched">>
    <2>1. ListOf(p, u) = p.dispatched
      BY <1>8 DEF ListOf
    <2>2. PICK c \in Channels : Waits(e, p, c)
      BY <1>2, <1>5, <1>8
    <2>3. j \in 1 .. Len(p.dispatched) /\ IsOf(p.dispatched[j], L, n, x)
      BY <2>1
    <2> QED
      BY <1>4, <2>2, <2>3, NotBoth
  <1>9. CASE t # <<"dispatched">> /\ u # <<"dispatched">>
    <2>1. ASSUME NEW c \in Channels, t = <<"rel", c>>, ListOf(p, t) = p.chan[c].rel
          PROVE  t = u /\ i = j
      <3>1. IsReliable(e) /\ e.ch = c /\ Sequenced(e)
        BY <1>2, <2>1, ListedWaits DEF Waits
      <3>2. PICK d \in Channels : u = <<"rel", d>> /\ ListOf(p, u) = p.chan[d].rel
        <4>1. ASSUME NEW d \in Channels, ListOf(p, u) = p.chan[d].unrel
              PROVE  FALSE
          <5>1. j \in 1 .. Len(p.chan[d].unrel) /\ f = p.chan[d].unrel[j]
            BY <1>3, <4>1
          <5>2. ~IsReliable(f)
            BY <5>1, ListedWaits
          <5> QED
            BY <1>4, <3>1, <5>2
        <4> QED
          BY <1>1, <1>9, <4>1
      <3>3. f.ch = d
        BY <1>3, <3>2, ListedWaits DEF Waits
      <3>4. c = d
        BY <1>4, <3>1, <3>3
      <3>5. PICK q \in Seq(Held) : q = p.chan[c].rel /\ Ordered(q)
        BY ListedWaits
      <3>6. i \in 1 .. Len(q) /\ j \in 1 .. Len(q) /\ q[i] = e /\ q[j] = f
        BY <1>2, <1>3, <2>1, <3>2, <3>4, <3>5
      <3>7. i = j
        BY <1>4, <3>1, <3>5, <3>6, OrderedApart
      <3> QED
        BY <2>1, <3>2, <3>4, <3>7
    <2>2. ASSUME NEW c \in Channels, t = <<"unrel", c>>, ListOf(p, t) = p.chan[c].unrel
          PROVE  t = u /\ i = j
      <3>1. ~IsReliable(e) /\ e.ch = c /\ Sequenced(e)
        BY <1>2, <2>2, ListedWaits DEF Waits
      <3>2. PICK d \in Channels : u = <<"unrel", d>> /\ ListOf(p, u) = p.chan[d].unrel
        <4>1. ASSUME NEW d \in Channels, ListOf(p, u) = p.chan[d].rel
              PROVE  FALSE
          <5>1. j \in 1 .. Len(p.chan[d].rel) /\ f = p.chan[d].rel[j]
            BY <1>3, <4>1
          <5>2. IsReliable(f)
            BY <5>1, ListedWaits
          <5> QED
            BY <1>4, <3>1, <5>2
        <4> QED
          BY <1>1, <1>9, <4>1
      <3>3. f.ch = d
        BY <1>3, <3>2, ListedWaits DEF Waits
      <3>4. c = d
        BY <1>4, <3>1, <3>3
      <3>5. PICK q \in Seq(Held) : q = p.chan[c].unrel /\ Ordered(q)
        BY ListedWaits
      <3>6. i \in 1 .. Len(q) /\ j \in 1 .. Len(q) /\ q[i] = e /\ q[j] = f
        BY <1>2, <1>3, <2>2, <3>2, <3>4, <3>5
      <3>7. i = j
        BY <1>4, <3>1, <3>5, <3>6, OrderedApart
      <3> QED
        BY <2>2, <3>2, <3>4, <3>7
    <2> QED
      BY <1>1, <1>9, <2>1, <2>2
  <1> QED
    BY <1>6, <1>7, <1>8, <1>9

\* What is dispatched is of packets that were sent.
LEMMA DispatchedAny ==
  ASSUME NEW L, NEW n, NEW p, NEW G, Good(L, n, p, G, {}), NEW i \in 1 .. Len(p.dispatched)
  PROVE  p.dispatched \in Seq(Held) /\ IsAny(p.dispatched[i], L, n)
  <1>1. PICK d \in Seq(Held) : d = p.dispatched
    BY DEF Good, Receiver
  <1>2. PICK D \in Seq(Held) : D = G \o d
    BY <1>1 DEF Good, Delivered
  <1>3. Joins(D, G, d) /\ G \in Seq(Held)
    BY <1>1, <1>2, JoinIs DEF Good
  <1>4. PICK k \in Nat, l \in Nat : k = Len(G) /\ l = Len(d)
    BY <1>1, <1>3, LenProperties
  <1>5. i \in 1 .. l
    BY <1>1, <1>4
  <1>6. Len(D) = k + l /\ D[k + i] = d[i]
    BY <1>3, <1>4, <1>5 DEF Joins
  <1>7. k + i \in 1 .. Len(D)
    BY <1>5, <1>6
  <1> QED
    BY <1>1, <1>2, <1>6, <1>7 DEF Good, Delivered

\* A packet that the application takes is no longer held, and no longer counted.
LEMMA ReceivedCovers ==
  ASSUME NEW L, NEW n, Known(L, n), NEW p, NEW G, Good(L, n, p, G, {}), Once(L, n, p, G \o p.dispatched),
         Covers(L, n, p), p.dispatched # <<>>, NEW r, r = Received(p)
  PROVE  Covers(L, n, r)
  <1>1. PICK d \in Seq(Held) : d = p.dispatched
    BY DEF Good, Receiver
  <1>2. PICK h, t : h = Head(d) /\ t = Tail(d)
    OBVIOUS
  <1>3. /\ h \in Held /\ t \in Seq(Held) /\ Len(d) = Len(t) + 1 /\ d[1] = h
        /\ \A i \in 1 .. Len(t) : t[i] = d[i + 1]
    <2>1. d # <<>>
      BY <1>1
    <2>2. Len(d) \in Nat
      OBVIOUS
    <2>3. /\ Head(d) \in Held /\ Tail(d) \in Seq(Held) /\ Len(Tail(d)) = Len(d) - 1
          /\ \A i \in 1 .. Len(Tail(d)) : Tail(d)[i] = d[i + 1]
      BY <2>1, HeadTailProperties
    <2>4. Head(d) = d[1]
      OBVIOUS
    <2>5. Len(d) = Len(Tail(d)) + 1
      BY <2>2, <2>3
    <2> QED
      BY <1>2, <2>3, <2>4, <2>5
  <1>4. PICK l \in Nat : l = Len(t)
    BY <1>3, LenProperties
  <1>5. 1 \in 1 .. Len(d)
    BY <1>3, <1>4
  <1>6. PICK x : IsOf(h, L, n, x)
    <2>1. IsAny(h, L, n)
      BY <1>1, <1>3, <1>5, DispatchedAny
    <2> QED
      BY <2>1 DEF IsAny
  <1>7. PICK s \in Nat : s = DataLength(h) /\ s = L[x].size /\ x \in 1 .. Len(L)
    <2>1. DataLength(h) \in Nat
      BY <1>3, HeldLength
    <2>2. DataLength(h) = L[x].size /\ x \in 1 .. Len(L)
      <3>1. EntryFacts(h, L, n, x)
        BY <1>6, EntryIs
      <3> QED
        BY <1>6, <3>1 DEF EntryFacts, IsOf
    <2> QED
      BY <2>1, <2>2
  <1>8. PICK w \in Nat : w = p.waiting
    BY DEF Covers
  <1>9. r.chan = p.chan /\ r.dispatched = t /\ r.waiting = w - s
    <2>1. p \in Receiver
      BY DEF Good
    <2> QED
      BY <1>1, <1>2, <1>7, <1>8, <2>1 DEF Received, Receiver
  <1>10. PICK S, T : S = Holding(L, n, p) /\ T = Holding(L, n, r)
    OBVIOUS
  <1>11. S \subseteq 1 .. Len(L) /\ T \subseteq 1 .. Len(L)
    BY <1>10 DEF Holding
  <1>12. x \in S
    <2>1. Has(p, h)
      BY <1>1, <1>3, <1>5 DEF Has, InList
    <2> QED
      BY <1>6, <1>7, <1>10, <2>1 DEF Holding
  <1>13. ASSUME NEW y \in T
         PROVE  y \in S \ {x}
    <2>1. y \in 1 .. Len(L) /\ \E f : IsOf(f, L, n, y) /\ Has(r, f)
      BY <1>10, <1>13 DEF Holding
    <2>2. PICK f : IsOf(f, L, n, y) /\ Has(r, f)
      BY <2>1
    <2>3. CASE InList(t, f)
      <3>1. PICK i \in 1 .. Len(t) : t[i] = f
        BY <2>3 DEF InList
      <3>2. PICK j \in Nat : j = i + 1 /\ j \in 1 .. Len(d) /\ j # 1
        <4>1. i \in 1 .. l
          BY <1>4, <3>1
        <4>2. i + 1 \in 1 .. l + 1 /\ i + 1 \in Nat /\ i + 1 # 1
          BY <4>1
        <4> QED
          BY <1>3, <1>4, <4>2
      <3>3. d[j] = f
        BY <1>3, <3>1, <3>2
      <3>4. Has(p, f)
        BY <1>1, <3>2, <3>3 DEF Has, InList
      <3>5. y # x
        <4>1. SUFFICES ASSUME y = x
                       PROVE  FALSE
          OBVIOUS
        <4>2. IsOf(d[1], L, n, x) /\ IsOf(d[j], L, n, x)
          BY <1>3, <1>6, <2>2, <3>3, <4>1
        <4>3. 1 = j
          BY <1>1, <1>5, <3>2, <4>2, DispatchedApart
        <4> QED
          BY <3>2, <4>3
      <3> QED
        BY <1>10, <2>1, <2>2, <3>4, <3>5 DEF Holding
    <2>4. ASSUME NEW c \in Channels, InList(p.chan[c].rel, f) \/ InList(p.chan[c].unrel, f)
          PROVE  y \in S \ {x}
      <3>1. Waits(f, p, c)
        BY <2>4, ListedWaits DEF InList
      <3>2. Has(p, f)
        BY <2>4 DEF Has
      <3>3. y # x
        <4>1. SUFFICES ASSUME y = x
                       PROVE  FALSE
          OBVIOUS
        <4>2. IsOf(p.dispatched[1], L, n, x) /\ 1 \in 1 .. Len(p.dispatched)
          BY <1>1, <1>3, <1>5, <1>6
        <4>3. ~IsOf(f, L, n, x)
          BY <3>1, <4>2, NotBoth
        <4> QED
          BY <2>2, <4>1, <4>3
      <3> QED
        BY <1>10, <2>1, <2>2, <3>2, <3>3 DEF Holding
    <2> QED
      BY <1>9, <2>2, <2>3, <2>4 DEF Has
  <1>14. PICK R : R = S \ {x}
    OBVIOUS
  <1>15. R \subseteq 1 .. Len(L) /\ S = R \cup {x} /\ x \notin R /\ T \subseteq R
    BY <1>11, <1>12, <1>13, <1>14
  <1>16. PICK a \in Nat, b \in Nat, e \in Nat :
           a = Cardinality(Shares(L, S)) /\ b = Cardinality(Shares(L, R)) /\ e = Cardinality(Shares(L, T))
    BY <1>11, <1>15, SharesFinite
  <1>17. a = b + s
    <2>1. Cardinality(Shares(L, R \cup {x})) = Cardinality(Shares(L, R)) + L[x].size
      BY <1>7, <1>15, SharesMore
    <2> QED
      BY <1>7, <1>15, <1>16, <2>1
  <1>18. e <= b
    BY <1>15, <1>16, SharesLess
  <1>19. a <= w
    BY <1>8, <1>10, <1>16 DEF Covers
  <1>20. e <= w - s /\ w - s \in Nat
    BY <1>17, <1>18, <1>19
  <1> QED
    BY <1>9, <1>10, <1>16, <1>20 DEF Covers

\* A unit of buffer space is of an entry of one of the lists.
LEMMA UnitIs ==
  ASSUME NEW n, Holds(n), NEW u \in HeldUnits
  PROVE  \E t \in ListNames : \E i \in 1 .. Len(ListOf(peer, t)) : \E k \in 1 .. DataLength(ListOf(peer, t)[i]) :
           u = <<t, i, k>>
  <1>1. Known(log, n) /\ Good(log, n, peer, got, {}) /\ peer \in Receiver
    BY DEF Holds, Sender, Good
  <1>2. ASSUME NEW t \in ListNames, NEW q \in Seq(Held), q = ListOf(peer, t), u \in Units(t, q)
        PROVE  \E i \in 1 .. Len(ListOf(peer, t)) : \E k \in 1 .. DataLength(ListOf(peer, t)[i]) : u = <<t, i, k>>
    <2>1. PICK i \in DOMAIN q : u \in {<<t, i, k>> : k \in 1 .. DataLength(q[i])}
      BY <1>2 DEF Units
    <2>2. i \in 1 .. Len(q)
      BY <2>1
    <2> QED
      BY <1>2, <2>1, <2>2
  <1>3. CASE u \in Units(<<"dispatched">>, peer.dispatched)
    <2>1. peer.dispatched \in Seq(Held)
      BY <1>1 DEF Receiver
    <2>2. <<"dispatched">> \in ListNames /\ ListOf(peer, <<"dispatched">>) = peer.dispatched
      BY DEF ListNames, ListOf
    <2> QED
      BY <1>2, <1>3, <2>1, <2>2
  <1>4. ASSUME NEW c \in Channels, u \in Units(<<"rel", c>>, peer.chan[c].rel)
        PROVE  \E t \in ListNames : \E i \in 1 .. Len(ListOf(peer, t)) :
                 \E k \in 1 .. DataLength(ListOf(peer, t)[i]) : u = <<t, i, k>>
    <2>1. peer.chan[c].rel \in Seq(Held)
      BY <1>1, ListedWaits
    <2>2. <<"rel", c>> \in ListNames /\ ListOf(peer, <<"rel", c>>) = peer.chan[c].rel
      BY DEF ListNames, ListOf
    <2> QED
      BY <1>2, <1>4, <2>1, <2>2
  <1>5. ASSUME NEW c \in Channels, u \in Units(<<"unrel", c>>, peer.chan[c].unrel)
        PROVE  \E t \in ListNames : \E i \in 1 .. Len(ListOf(peer, t)) :
                 \E k \in 1 .. DataLength(ListOf(peer, t)[i]) : u = <<t, i, k>>
    <2>1. peer.chan[c].unrel \in Seq(Held)
      BY <1>1, ListedWaits
    <2>2. <<"unrel", c>> \in ListNames /\ ListOf(peer, <<"unrel", c>>) = peer.chan[c].unrel
      BY DEF ListNames, ListOf
    <2> QED
      BY <1>2, <1>5, <2>1, <2>2
  <1> QED
    BY <1>3, <1>4, <1>5 DEF HeldUnits

LEMMA ReceiverCovers ==
  ASSUME NEW n, Holds(n), Covers(log, n, peer)
  PROVE  WaitingCoversHeld
  <1>1. /\ Known(log, n) /\ Good(log, n, peer, got, {}) /\ Once(log, n, peer, got \o peer.dispatched)
    BY DEF Holds, Sender
  <1>2. ASSUME NEW t \in ListNames, NEW i \in 1 .. Len(ListOf(peer, t))
        PROVE  /\ IsAny(ListOf(peer, t)[i], log, n) /\ Has(peer, ListOf(peer, t)[i])
    <2>1. CASE t = <<"dispatched">>
      <3>1. ListOf(peer, t) = peer.dispatched
        BY <2>1 DEF ListOf
      <3> QED
        BY <1>1, <1>2, <3>1, DispatchedAny DEF Has, InList
    <2>2. ASSUME NEW c \in Channels, t = <<"rel", c>>
          PROVE  IsAny(ListOf(peer, t)[i], log, n) /\ Has(peer, ListOf(peer, t)[i])
      <3>1. ListOf(peer, t) = peer.chan[c].rel
        BY <2>2 DEF ListOf
      <3> QED
        BY <1>1, <1>2, <3>1, ListedWaits DEF Has, InList
    <2>3. ASSUME NEW c \in Channels, t = <<"unrel", c>>
          PROVE  IsAny(ListOf(peer, t)[i], log, n) /\ Has(peer, ListOf(peer, t)[i])
      <3>1. ListOf(peer, t) = peer.chan[c].unrel
        BY <2>3 DEF ListOf
      <3> QED
        BY <1>1, <1>2, <3>1, ListedWaits DEF Has, InList
    <2> QED
      BY <1>2, <2>1, <2>2, <2>3 DEF ListNames
  <1> DEFINE At(t, i) == CHOOSE x : IsOf(ListOf(peer, t)[i], log, n, x)
  <1>3. ASSUME NEW t \in ListNames, NEW i \in 1 .. Len(ListOf(peer, t))
        PROVE  IsOf(ListOf(peer, t)[i], log, n, At(t, i))
    <2>1. \E x : IsOf(ListOf(peer, t)[i], log, n, x)
      BY <1>2, <1>3 DEF IsAny
    <2> QED
      BY <2>1
  <1>4. PICK A : A = Shares(log, Holding(log, n, peer))
    OBVIOUS
  <1>5. IsFiniteSet(A)
    <2>1. Holding(log, n, peer) \subseteq 1 .. Len(log)
      BY DEF Holding
    <2> QED
      BY <1>1, <1>4, <2>1, SharesFinite
  <1>6. PICK f : f = [u \in HeldUnits |-> <<u[3] - 1, At(u[1], u[2])>>]
    OBVIOUS
  <1> HIDE DEF At
  <1>7. \A u \in HeldUnits : f[u] \in A
    <2>1. TAKE u \in HeldUnits
    <2>2. PICK t \in ListNames : \E i \in 1 .. Len(ListOf(peer, t)) :
            \E k \in 1 .. DataLength(ListOf(peer, t)[i]) : u = <<t, i, k>>
      BY UnitIs
    <2>3. PICK i \in 1 .. Len(ListOf(peer, t)) : \E k \in 1 .. DataLength(ListOf(peer, t)[i]) : u = <<t, i, k>>
      BY <2>2
    <2>4. PICK k \in 1 .. DataLength(ListOf(peer, t)[i]) : u = <<t, i, k>>
      BY <2>3
    <2>5. PICK e, x : e = ListOf(peer, t)[i] /\ x = At(t, i)
      OBVIOUS
    <2>6. IsOf(e, log, n, x) /\ Has(peer, e)
      BY <1>2, <1>3, <2>5
    <2>7. DataLength(e) = log[x].size /\ x \in 1 .. Len(log)
      <3>1. EntryFacts(e, log, n, x)
        BY <1>1, <2>6, EntryIs
      <3> QED
        BY <2>6, <3>1 DEF EntryFacts, IsOf
    <2>8. PICK s \in Nat : s = log[x].size
      BY <1>1, <2>7, PacketFacts
    <2>9. k - 1 \in 0 .. s - 1
      BY <2>5, <2>7, <2>8
    <2>10. f[u] = <<k - 1, x>>
      BY <1>6, <2>4, <2>5
    <2>11. f[u] \in Parts(log, x)
      <3>1. PICK m \in 0 .. s - 1 : m = k - 1
        BY <2>9
      <3>2. Parts(log, x) = (0 .. s - 1) \X {x}
        BY <2>8 DEF Parts
      <3>3. <<m, x>> \in (0 .. s - 1) \X {x}
        OBVIOUS
      <3> QED
        BY <2>10, <3>1, <3>2, <3>3
    <2>12. x \in Holding(log, n, peer)
      BY <2>6, <2>7 DEF Holding
    <2> QED
      BY <1>4, <2>11, <2>12 DEF Shares
  <1>8. ASSUME NEW u \in HeldUnits, NEW v \in HeldUnits, f[u] = f[v]
        PROVE  u = v
    <2>1. PICK t \in ListNames : \E i \in 1 .. Len(ListOf(peer, t)) :
            \E k \in 1 .. DataLength(ListOf(peer, t)[i]) : u = <<t, i, k>>
      BY UnitIs
    <2>2. PICK i \in 1 .. Len(ListOf(peer, t)) : \E k \in 1 .. DataLength(ListOf(peer, t)[i]) : u = <<t, i, k>>
      BY <2>1
    <2>3. PICK k \in 1 .. DataLength(ListOf(peer, t)[i]) : u = <<t, i, k>>
      BY <2>2
    <2>4. PICK s \in ListNames : \E j \in 1 .. Len(ListOf(peer, s)) :
            \E m \in 1 .. DataLength(ListOf(peer, s)[j]) : v = <<s, j, m>>
      BY UnitIs
    <2>5. PICK j \in 1 .. Len(ListOf(peer, s)) : \E m \in 1 .. DataLength(ListOf(peer, s)[j]) : v = <<s, j, m>>
      BY <2>4
    <2>6. PICK m \in 1 .. DataLength(ListOf(peer, s)[j]) : v = <<s, j, m>>
      BY <2>5
    <2>7. f[u] = <<k - 1, At(t, i)>> /\ f[v] = <<m - 1, At(s, j)>>
      BY <1>6, <2>3, <2>6
    <2>8. k - 1 = m - 1 /\ At(t, i) = At(s, j)
      <3>1. <<k - 1, At(t, i)>> = <<m - 1, At(s, j)>>
        BY <1>8, <2>7
      <3>2. <<k - 1, At(t, i)>>[1] = k - 1 /\ <<m - 1, At(s, j)>>[1] = m - 1
        OBVIOUS
      <3>3. <<k - 1, At(t, i)>>[2] = At(t, i) /\ <<m - 1, At(s, j)>>[2] = At(s, j)
        OBVIOUS
      <3> QED
        BY <3>1, <3>2, <3>3
    <2>9. k = m
      BY <2>8
    <2>10. PICK x : x = At(t, i) /\ x = At(s, j)
      BY <2>8
    <2>11. IsOf(ListOf(peer, t)[i], log, n, x) /\ IsOf(ListOf(peer, s)[j], log, n, x)
      BY <1>3, <2>10
    <2>12. t = s /\ i = j
      BY <1>1, <2>11, Apart
    <2> QED
      BY <2>3, <2>6, <2>9, <2>12
  <1>9. f \in Injection(HeldUnits, A)
    <2>1. f \in [HeldUnits -> A]
      BY <1>6, <1>7
    <2> QED
      BY <1>8, <2>1 DEF Injection, IsInjective
  <1>10. IsFiniteSet(HeldUnits) /\ Cardinality(HeldUnits) <= Cardinality(A)
    BY <1>5, <1>9, FS_Injection
  <1>11. PICK a \in Nat, b \in Nat, w \in Nat :
           a = Cardinality(HeldUnits) /\ b = Cardinality(A) /\ w = peer.waiting
    BY <1>5, <1>10, FS_CardinalityType DEF Covers
  <1>12. a <= b /\ b <= w
    BY <1>4, <1>10, <1>11 DEF Covers
  <1> QED
    BY <1>11, <1>12 DEF WaitingCoversHeld

--------------------------------------------------------------------------------
(* When a command is dropped and released while it is being queued. *)

ThreeFragments(L) ==
  \E x, y, z \in 1 .. Len(L) :
    /\ x # y /\ y # z /\ x # z
    /\ \A k \in {x, y, z} : L[k].kind = "unreliableFragment"

\* Of incomplete commands the scan drops one only if two more follow it.
LEMMA DroppedAmong ==
  ASSUME NEW l \in Nat, NEW fate, DOMAIN fate = 1 .. l, NEW stop \in 1 .. l + 1,
         \A i \in 1 .. stop - 1 : fate[i] = "partial",
         NEW k \in 1 .. l, k \notin Kept(fate, stop)
  PROVE  k + 2 \in 1 .. l /\ k + 2 <= stop - 1
  <1>1. PICK f : /\ \A i \in 0 .. stop - 1 : f[i] = DroppedAt(fate, f, i)
                 /\ Dropped(fate, stop) = IF AfterRun(fate, stop) THEN stop ELSE f[stop - 1]
    BY DroppedRuns
  <1>2. k < stop /\ ~(fate[k] = "partial" /\ k >= Dropped(fate, stop))
    BY DEF Kept
  <1>3. fate[k] = "partial" /\ ~(k >= Dropped(fate, stop))
    BY <1>2
  <1>4. \A i \in 1 .. stop : ~AfterRun(fate, i)
    <2>1. TAKE i \in 1 .. stop
    <2>2. i > 1 => i - 1 \in 1 .. stop - 1
      OBVIOUS
    <2> QED
      BY <2>2 DEF AfterRun
  <1>5. PICK h \in Nat : h = stop - 1 /\ h >= 1 /\ k <= h
    BY <1>2
  <1>6. Dropped(fate, stop) = f[h]
    <2>1. stop \in 1 .. stop
      OBVIOUS
    <2> QED
      BY <1>1, <1>4, <1>5, <2>1
  <1>7. f[0] = 1
    BY <1>1, <1>5 DEF DroppedAt
  <1>8. \A i \in 1 .. h : f[i] = IF f[i - 1] = i THEN i ELSE i - 1
    <2>1. TAKE i \in 1 .. h
    <2>2. i \in 0 .. stop - 1 /\ i \in 1 .. stop - 1 /\ i \in 1 .. stop /\ i # 0
      BY <1>5
    <2>3. fate[i] = "partial" /\ ~AfterRun(fate, i) /\ f[i] = DroppedAt(fate, f, i)
      BY <1>1, <1>4, <2>2
    <2> QED
      BY <2>2, <2>3 DEF DroppedAt
  <1>9. CASE h = 1
    <2>1. f[1] = 1
      BY <1>7, <1>8, <1>9
    <2> QED
      BY <1>3, <1>5, <1>6, <1>9, <2>1
  <1>10. CASE h # 1
    <2>1. h \in 1 .. h /\ h - 1 \in 1 .. h
      BY <1>5, <1>10
    <2>2. f[h - 1] = h - 1 \/ f[h - 1] = h - 1 - 1
      BY <1>8, <2>1
    <2>3. f[h - 1] # h
      BY <1>5, <2>2
    <2>4. f[h] = h - 1
      BY <1>8, <2>1, <2>3
    <2>5. k < h - 1
      BY <1>3, <1>5, <1>6, <2>4
    <2> QED
      BY <1>5, <2>5
  <1> QED
    BY <1>9, <1>10

\* An incomplete entry that is not reliable is of a packet of fragments.
LEMMA PartialIs ==
  ASSUME NEW L, NEW n, Known(L, n), NEW e, NEW x, IsOf(e, L, n, x), Sequenced(e), ~IsReliable(e), ~Complete(e)
  PROVE  x \in 1 .. Len(L) /\ L[x].kind = "unreliableFragment"
  <1>1. EntryFacts(e, L, n, x)
    BY EntryIs
  <1>2. x \in 1 .. Len(L) /\ (L[x].size = 1 => e.data = Parts(L, x))
    BY DEF IsOf
  <1>3. L[x].size # 1
    BY <1>1, <1>2 DEF EntryFacts
  <1>4. /\ L[x].size \in Nat \ {0} /\ L[x].kind \in Kinds
        /\ L[x].kind \in {"fragment", "unreliableFragment"} <=> L[x].size > 1
    BY <1>2, PacketFacts DEF Stamped
  <1>5. L[x].kind \in {"fragment", "unreliableFragment"} /\ L[x].kind \notin Reliables
    BY <1>1, <1>3, <1>4 DEF EntryFacts
  <1> QED
    BY <1>2, <1>5 DEF Reliables

\* What the scan of a list of incomplete commands drops.
LEMMA ScanLoses ==
  ASSUME NEW L, NEW n, Known(L, n), NEW p \in Receiver, NEW c \in Channels, Counting(p.chan[c]),
         NEW w \in Seq(Held), w = p.chan[c].unrel, Ordered(w),
         \A i \in 1 .. Len(w) : /\ IsAny(w[i], L, n) /\ Sequenced(w[i]) /\ ~IsReliable(w[i])
                                /\ w[i].seq >= p.chan[c].rseq /\ Near(p.chan[c].rseq, w[i].seq)
                                /\ w[i].seq = p.chan[c].rseq => ~Complete(w[i]),
         NEW k \in 1 .. Len(w), NEW r, r = DispatchUnreliable(p, c), ~InList(r.chan[c].unrel, w[k])
  PROVE  ThreeFragments(L)
  <1>1. PICK ch : ch = p.chan[c]
    OBVIOUS
  <1>2. PICK fate : fate = Fates(ch)
    OBVIOUS
  <1>3. PICK stop : stop = Stop(fate)
    OBVIOUS
  <1>4. PICK l \in Nat : l = Len(w)
    OBVIOUS
  <1>5. /\ DOMAIN fate = 1 .. l /\ \A i \in 1 .. l : fate[i] = Fate(ch, w[i])
        /\ stop \in 1 .. l + 1 /\ \A i \in 1 .. stop - 1 : i \in 1 .. l /\ fate[i] # "later"
    BY <1>1, <1>2, <1>3, <1>4, StopIs
  <1>6. PICK K : K = Kept(fate, stop)
    OBVIOUS
  <1>7. K \subseteq 1 .. Len(w) /\ r.chan[c].unrel = Pick(w, K)
    <2>1. K \subseteq 1 .. Len(w)
      BY <1>4, <1>5, <1>6 DEF Kept
    <2> QED
      BY <1>1, <1>2, <1>3, <1>6, <2>1, ScanMoves
  <1>8. k \notin K
    <2>1. SUFFICES ASSUME k \in K
                   PROVE  FALSE
      OBVIOUS
    <2>2. PICK M : M = Pick(w, K)
      OBVIOUS
    <2>3. PICK f : PickedBy(M, w, K, f)
      BY <1>7, <2>2, PickedIs
    <2>4. PICK i \in 1 .. Len(f) : f[i] = k
      BY <2>1, <2>3 DEF PickedBy, Enumerates
    <2>5. i \in 1 .. Len(M) /\ M[i] = w[k]
      BY <2>3, <2>4 DEF PickedBy
    <2> QED
      BY <1>7, <2>2, <2>5 DEF InList
  <1>9. \A i \in 1 .. stop - 1 : fate[i] = "partial" /\ ~Complete(w[i])
    <2>1. TAKE i \in 1 .. stop - 1
    <2>2. i \in 1 .. l /\ fate[i] # "later" /\ fate[i] = Fate(ch, w[i])
      BY <1>5
    <2>3. PICK e : e = w[i]
      OBVIOUS
    <2>4. /\ IsAny(e, L, n) /\ Sequenced(e) /\ e.seq >= ch.rseq /\ Near(ch.rseq, e.seq)
          /\ e.seq = ch.rseq => ~Complete(e)
      BY <1>1, <1>4, <2>2, <2>3
    <2>5. PICK s \in Nat, R \in Nat : s = e.seq /\ R = ch.rseq
      BY <1>1, <2>4, AnyIs DEF Counting
    <2>6. /\ Fate(ch, e) = "deliver" => Complete(e)
          /\ Sequenced(e) /\ e.seq = ch.rseq => Fate(ch, e) \in {"deliver", "partial"}
          /\ Sequenced(e) /\ e.seq > ch.rseq /\ Near(ch.rseq, e.seq) => Fate(ch, e) = "later"
      BY <1>1, <2>4, FateIs
    <2>7. s = R
      <3>1. ~(s > R)
        BY <2>2, <2>3, <2>4, <2>5, <2>6
      <3>2. s >= R
        BY <2>4, <2>5
      <3> QED
        BY <3>1, <3>2
    <2> QED
      BY <2>2, <2>3, <2>4, <2>5, <2>6, <2>7
  <1>10. k + 2 \in 1 .. l /\ k + 2 <= stop - 1
    BY <1>4, <1>5, <1>6, <1>8, <1>9, DroppedAmong
  <1>11. k \in 1 .. l /\ k + 1 \in 1 .. l /\ k \in 1 .. stop - 1 /\ k + 1 \in 1 .. stop - 1 /\ k + 2 \in 1 .. stop - 1
    BY <1>4, <1>5, <1>10
  <1>12. ASSUME NEW i \in 1 .. stop - 1, NEW x, IsOf(w[i], L, n, x)
         PROVE  x \in 1 .. Len(L) /\ L[x].kind = "unreliableFragment"
    BY <1>4, <1>5, <1>9, <1>12, PartialIs
  <1>13. ASSUME NEW i \in 1 .. stop - 1, NEW j \in 1 .. stop - 1, i # j,
                NEW x, IsOf(w[i], L, n, x), NEW y, IsOf(w[j], L, n, y)
         PROVE  x # y
    <2>1. i \in 1 .. Len(w) /\ j \in 1 .. Len(w) /\ Sequenced(w[i])
      BY <1>4, <1>5
    <2>2. SUFFICES ASSUME x = y
                   PROVE  FALSE
      OBVIOUS
    <2>3. IsOf(w[i], L, n, x) /\ IsOf(w[j], L, n, x)
      BY <1>13, <2>2
    <2>4. i = j
      BY <2>1, <2>3, OrderedApart
    <2> QED
      BY <1>13, <2>4
  <1>14. PICK x : IsOf(w[k], L, n, x)
    BY <1>4, <1>11 DEF IsAny
  <1>15. PICK y : IsOf(w[k + 1], L, n, y)
    BY <1>4, <1>11 DEF IsAny
  <1>16. PICK z : IsOf(w[k + 2], L, n, z)
    BY <1>4, <1>10 DEF IsAny
  <1>17. x # y /\ y # z /\ x # z
    <2>1. k # k + 1 /\ k + 1 # k + 2 /\ k # k + 2
      OBVIOUS
    <2> QED
      BY <1>11, <1>13, <1>14, <1>15, <1>16, <2>1
  <1>18. /\ x \in 1 .. Len(L) /\ L[x].kind = "unreliableFragment"
         /\ y \in 1 .. Len(L) /\ L[y].kind = "unreliableFragment"
         /\ z \in 1 .. Len(L) /\ L[z].kind = "unreliableFragment"
    BY <1>11, <1>12, <1>14, <1>15, <1>16
  <1> QED
    BY <1>17, <1>18 DEF ThreeFragments

\* An incomplete unreliable command that is gone when it was put in its list.
LEMMA UnreliableLost ==
  ASSUME NEW L, NEW n, Known(L, n), NEW p, NEW G, Good(L, n, p, G, {}), NEW c \in Channels,
         NEW e, IsAny(e, L, n), e.ch = c, ~IsReliable(e), Sequenced(e), ~Complete(e),
         NEW place, place = Place(p.chan[c], p.chan[c].unrel, e.seq, e.useq),
         ~Discards(p.chan[c], e, p.chan[c].unrel, place),
         NEW r, r = Inserted(Counted(p, e), e, place), Start(r, e) = {}
  PROVE  ThreeFragments(L)
  <1>1. PICK m : m = Counted(p, e)
    OBVIOUS
  <1>2. /\ e \in Held /\ e.seq \in Nat /\ e.useq \in Nat /\ e.seq < Limit
        /\ DataLength(e) \in Nat
    BY AnyIs
  <1>3. Good(L, n, m, G, {}) /\ m.chan = p.chan
    BY <1>1, <1>2, CountedKeeps
  <1>4. PICK ch : ch = p.chan[c]
    OBVIOUS
  <1>5. Lists(L, n, ch, c) /\ Scanned(ch) /\ m \in Receiver
    BY <1>3, <1>4 DEF Good
  <1>6. PICK q \in Seq(Held) : q = ch.unrel
    BY <1>5 DEF Lists, MayScan
  <1>7. /\ Counting(ch) /\ Ordered(q)
        /\ \A i \in 1 .. Len(q) : /\ IsAny(q[i], L, n) /\ ~IsReliable(q[i])
                                  /\ Sequenced(q[i]) /\ q[i].seq >= ch.rseq
                                  /\ q[i].seq = ch.rseq => ~Complete(q[i])
                                  /\ Near(ch.rseq, q[i].seq)
    BY <1>5, <1>6 DEF Lists, MayScan, Scanned
  <1>8. /\ InWindow(ch, e.seq)
        /\ ~(place > 0 /\ q[place].seq = e.seq /\ q[place].useq = e.useq)
    BY <1>4, <1>6 DEF Discards, Sequenced
  <1>9. Near(ch.rseq, e.seq) /\ e.seq >= ch.rseq
    BY <1>2, <1>7, <1>8, InWindowIs
  <1>10. PICK w : w = InsertAt(q, place + 1, e)
    OBVIOUS
  <1>11. place \in 0 .. Len(q) /\ w \in Seq(Held) /\ InsertedIs(w, q, place, e) /\ Ordered(w)
    <2>1. Ahead(e, ch)
      BY <1>2, <1>9 DEF Ahead
    <2>2. \A i \in 1 .. Len(q) : Ahead(q[i], ch)
      <3>1. TAKE i \in 1 .. Len(q)
      <3>2. /\ q[i] \in Held /\ q[i].seq \in Nat /\ q[i].useq \in Nat /\ q[i].seq < Limit
        BY <1>7, AnyIs
      <3> QED
        BY <1>7, <3>2 DEF Ahead
    <2>3. place = Place(ch, q, e.seq, e.useq)
      BY <1>4, <1>6
    <2>4. place > 0 => ~(q[place].seq = e.seq /\ q[place].useq = e.useq)
      BY <1>8
    <2> QED
      BY <1>7, <1>10, <2>1, <2>2, <2>3, <2>4, InsertKeepsOrder
  <1>12. PICK s : s = [m EXCEPT !.chan[c].unrel = w]
    OBVIOUS
  <1>13. ListsPut(s, m, c, ch.rel, w)
    BY <1>3, <1>4, <1>5, <1>11, <1>12, UnrelPut
  <1>14. s \in Receiver /\ s.chan[c].unrel = w /\ s.chan[c].rseq = ch.rseq /\ s.chan[c].useq = ch.useq
    BY <1>3, <1>4, <1>13 DEF ListsPut
  <1>15. \A i \in 1 .. Len(w) : w[i] = e \/ \E k \in 1 .. Len(q) : w[i] = q[k]
    BY <1>11, InsertedFrom
  <1>16. \A i \in 1 .. Len(w) : /\ IsAny(w[i], L, n) /\ Sequenced(w[i]) /\ ~IsReliable(w[i])
                                /\ w[i].seq >= ch.rseq /\ Near(ch.rseq, w[i].seq)
                                /\ w[i].seq = ch.rseq => ~Complete(w[i])
    BY <1>7, <1>9, <1>15
  <1>17. r = DispatchUnreliable(s, c)
    BY <1>1, <1>3, <1>4, <1>6, <1>10, <1>12 DEF Inserted
  <1>18. PICK k \in 1 .. Len(w) : w[k] = e
    <2>1. place + 1 \in 1 .. Len(w)
      BY <1>11 DEF InsertedIs
    <2> QED
      BY <1>11, <2>1 DEF InsertedIs
  <1>19. ~InList(r.chan[c].unrel, w[k])
    <2>1. SUFFICES ASSUME NEW i \in 1 .. Len(r.chan[c].unrel), r.chan[c].unrel[i] = e
                   PROVE  FALSE
      BY <1>18 DEF InList
    <2>2. PICK v : v = r.chan[c].unrel
      OBVIOUS
    <2>3. v \in Seq(Held)
      <3>1. Moves(r, s)
        BY <1>14, <1>17, ScanMoves
      <3> QED
        BY <2>2, <3>1 DEF Moves, Receiver, ChanRec
    <2>4. Listed(r, e) = v
      BY <2>2 DEF Listed
    <2>5. i \in DOMAIN v /\ v[i].seq = e.seq /\ v[i].useq = e.useq
      BY <2>1, <2>2, <2>3
    <2> QED
      BY <2>4, <2>5 DEF Start
  <1>20. Counting(s.chan[c])
    BY <1>7, <1>14 DEF Counting
  <1>21. \A i \in 1 .. Len(w) : /\ IsAny(w[i], L, n) /\ Sequenced(w[i]) /\ ~IsReliable(w[i])
                                /\ w[i].seq >= s.chan[c].rseq /\ Near(s.chan[c].rseq, w[i].seq)
                                /\ w[i].seq = s.chan[c].rseq => ~Complete(w[i])
    BY <1>14, <1>16
  <1> QED
    BY <1>11, <1>14, <1>17, <1>18, <1>19, <1>20, <1>21, ScanLoses

\* The run of commands that follow each other leaves the incomplete ones where they are.
LEMMA RunLeaves ==
  ASSUME NEW p \in Receiver, NEW c \in Channels, NEW r, r = DispatchReliable(p, c),
         NEW q \in Seq(Held), q = p.chan[c].rel, NEW j \in 1 .. Len(q), ~Complete(q[j])
  PROVE  InList(r.chan[c].rel, q[j])
  <1>1. PICK k : k = ReadyRun(p.chan[c])
    OBVIOUS
  <1>2. ReadyIs(p.chan[c], k)
    BY <1>1, ReadyRunIs
  <1>3. PICK l \in Nat : l = Len(q)
    OBVIOUS
  <1>4. k \in 0 .. l /\ \A i \in 1 .. k : Complete(q[i])
    BY <1>2, <1>3 DEF ReadyIs, Follows
  <1>5. j \in 1 .. l /\ j \in k + 1 .. l
    BY <1>3, <1>4
  <1>6. CASE k = 0
    <2>1. r = p
      BY <1>1, <1>6 DEF DispatchReliable, DispatchRun
    <2> QED
      BY <1>3, <1>5, <2>1 DEF InList
  <1>7. CASE k # 0
    <2>1. k \in 1 .. Len(q) /\ k \in 0 .. Len(q)
      BY <1>3, <1>4, <1>7
    <2>2. PICK b : b = SubSeq(q, k + 1, Len(q))
      OBVIOUS
    <2>3. PICK a : a = SubSeq(q, 1, k)
      OBVIOUS
    <2>4. Cuts(a, b, q, k)
      BY <2>1, <2>2, <2>3, CutIs
    <2>5. PICK m : m = MovedRun(p, c, k)
      OBVIOUS
    <2>6. LastNumber(q[k]) \in Nat
      <3>1. q[k] \in Held
        BY <2>1
      <3>2. PICK x \in Nat : x = q[k].seq
        BY <3>1 DEF Held
      <3>3. PICK y \in Nat \ {0} : y = DataLength(q[k])
        BY <3>1, HeldLength
      <3>4. PICK z \in Nat \ {0} : z = Numbers
        BY Constants
      <3>5. x + y - 1 \in Nat
        OBVIOUS
      <3>6. (x + y - 1) % z \in 0 .. z - 1
        BY <3>5, Quotient
      <3>7. (x + y - 1) % z \in Nat
        BY <3>6
      <3> QED
        BY <3>2, <3>3, <3>4, <3>7 DEF LastNumber
    <2>7. MovedAs(m, p, c, k)
      BY <2>1, <2>5, <2>6, MovedRunIs
    <2>8. m \in Receiver /\ m.chan[c].rel = b
      BY <2>2, <2>7 DEF MovedAs
    <2>9. r = IF p.chan[c].unrel = <<>> THEN m ELSE DispatchUnreliable(m, c)
      BY <1>1, <1>7, <2>5 DEF DispatchReliable, DispatchRun, MovedRun
    <2>10. r.chan[c].rel = b
      <3>1. CASE r = m
        BY <2>8, <3>1
      <3>2. CASE r = DispatchUnreliable(m, c)
        <4>1. r.chan[c].rel = m.chan[c].rel
          BY <2>8, <3>2, ScanMoves
        <4> QED
          BY <2>8, <4>1
      <3> QED
        BY <2>9, <3>1, <3>2
    <2>11. PICK i \in Nat : i = j - k
      BY <1>4, <1>5
    <2>12. i \in 1 .. l - k /\ k + i = j
      BY <1>4, <1>5, <2>11
    <2>13. b[i] = q[k + i] /\ Len(b) = l - k
      BY <1>3, <2>4, <2>12 DEF Cuts
    <2>14. i \in 1 .. Len(b) /\ b[i] = q[j]
      BY <2>12, <2>13
    <2> QED
      BY <2>10, <2>14 DEF InList
  <1> QED
    BY <1>6, <1>7

\* An incomplete reliable command is there when it was put in its list.
LEMMA ReliableKept ==
  ASSUME NEW L, NEW n, Known(L, n), NEW p, NEW G, Good(L, n, p, G, {}), NEW c \in Channels,
         NEW e, IsAny(e, L, n), e.ch = c, IsReliable(e), ~Complete(e),
         NEW place, place = Place(p.chan[c], p.chan[c].rel, e.seq, e.useq),
         NEW r, r = Inserted(Counted(p, e), e, place)
  PROVE  Start(r, e) # {}
  <1>1. PICK m : m = Counted(p, e)
    OBVIOUS
  <1>2. e \in Held /\ DataLength(e) \in Nat
    BY AnyIs
  <1>3. Good(L, n, m, G, {}) /\ m.chan = p.chan
    BY <1>1, <1>2, CountedKeeps
  <1>4. PICK ch : ch = p.chan[c]
    OBVIOUS
  <1>5. Lists(L, n, ch, c) /\ m \in Receiver
    BY <1>3, <1>4 DEF Good
  <1>6. PICK q \in Seq(Held) : q = ch.rel
    BY <1>5 DEF Lists, MayRun
  <1>7. place \in 0 .. Len(q)
    <2>1. PlacedAt(place, ch, q, e.seq, e.useq)
      BY <1>4, <1>6, PlaceIs
    <2> QED
      BY <2>1 DEF PlacedAt
  <1>8. PICK w : w = InsertAt(q, place + 1, e)
    OBVIOUS
  <1>9. w \in Seq(Held) /\ InsertedIs(w, q, place, e)
    BY <1>2, <1>7, <1>8, InsertAtIs
  <1>10. PICK s : s = [m EXCEPT !.chan[c].rel = w]
    OBVIOUS
  <1>11. ListsPut(s, m, c, w, m.chan[c].unrel)
    BY <1>5, <1>9, <1>10, RelPut
  <1>12. s \in Receiver /\ s.chan[c].rel = w
    BY <1>11 DEF ListsPut
  <1>13. r = DispatchReliable(s, c)
    BY <1>1, <1>3, <1>4, <1>6, <1>8, <1>10 DEF Inserted
  <1>14. PICK k \in 1 .. Len(w) : w[k] = e
    <2>1. place + 1 \in 1 .. Len(w)
      BY <1>7, <1>9 DEF InsertedIs
    <2> QED
      BY <1>9, <2>1 DEF InsertedIs
  <1>15. InList(r.chan[c].rel, e)
    <2>1. InList(r.chan[c].rel, w[k])
      BY <1>9, <1>12, <1>13, <1>14, RunLeaves
    <2> QED
      BY <1>14, <2>1
  <1>16. PICK v : v = r.chan[c].rel
    OBVIOUS
  <1>17. v \in Seq(Held)
    <2>1. Moves(r, s)
      BY <1>12, <1>13, RunMoves
    <2> QED
      BY <1>16, <2>1 DEF Moves, Receiver, ChanRec
  <1>18. Listed(r, e) = v
    BY <1>16 DEF Listed
  <1>19. PICK i \in 1 .. Len(v) : v[i] = e
    BY <1>15, <1>16 DEF InList
  <1>20. i \in DOMAIN v /\ v[i].seq = e.seq /\ v[i].useq = e.useq
    BY <1>17, <1>19
  <1> QED
    BY <1>18, <1>20 DEF Start

LEMMA QueuedLost ==
  ASSUME NEW L, NEW n, Known(L, n), NEW p, NEW G, Good(L, n, p, G, {}),
         NEW e, NEW x, IsOf(e, L, n, x), Sequenced(e), ~Complete(e),
         NEW q, q = QueueEntry(p, e), q.result = "queued", Start(q.peer, e) = {}
  PROVE  ThreeFragments(L)
  <1>1. IsAny(e, L, n)
    BY DEF IsAny
  <1>2. PICK c \in Channels : c = e.ch
    BY <1>1, AnyIs
  <1>3. PICK place : place = Place(p.chan[c], Listed(p, e), e.seq, e.useq)
    OBVIOUS
  <1>4. q = QueueAt(p, e, Listed(p, e), place)
    BY <1>2, <1>3 DEF QueueEntry, QueueIn, Sequenced
  <1>5. /\ ~Discards(p.chan[c], e, Listed(p, e), place)
        /\ q.peer = Inserted(Counted(p, e), e, place)
    BY <1>2, <1>4 DEF QueueAt
  <1>6. CASE IsReliable(e)
    <2>1. Listed(p, e) = p.chan[c].rel
      BY <1>2, <1>6 DEF Listed
    <2>2. PICK r : r = q.peer
      OBVIOUS
    <2>3. place = Place(p.chan[c], p.chan[c].rel, e.seq, e.useq) /\ r = Inserted(Counted(p, e), e, place)
      BY <1>3, <1>5, <2>1, <2>2
    <2>4. Start(r, e) # {}
      BY <1>1, <1>2, <1>6, <2>3, ReliableKept
    <2> QED
      BY <2>2, <2>4
  <1>7. CASE ~IsReliable(e)
    <2>1. Listed(p, e) = p.chan[c].unrel
      BY <1>2, <1>7 DEF Listed
    <2>2. PICK r : r = q.peer
      OBVIOUS
    <2>3. /\ place = Place(p.chan[c], p.chan[c].unrel, e.seq, e.useq) /\ r = Inserted(Counted(p, e), e, place)
          /\ ~Discards(p.chan[c], e, p.chan[c].unrel, place) /\ Start(r, e) = {}
      BY <1>3, <1>5, <2>1, <2>2
    <2> QED
      BY <1>1, <1>2, <1>7, <2>3, UnreliableLost
  <1> QED
    BY <1>6, <1>7

\* A handler goes on with a released command only if its dispatch has dropped it.
LEMMA StoreFreed ==
  ASSUME NEW L, NEW n, Known(L, n), NEW p, NEW G, Good(L, n, p, G, {}),
         NEW e, NEW x, IsOf(e, L, n, x), Sequenced(e), ~Complete(e), NEW d,
         NEW r, r = StoreIn(p, e, d)
  PROVE  r.freed \in BOOLEAN /\ (r.freed => ThreeFragments(L))
  <1>1. ASSUME NEW s, NEW k
        PROVE  StoreAt(s, e, k, d).freed = FALSE
    BY DEF StoreAt, Done
  <1>2. ASSUME NEW s, NEW ok
        PROVE  Done(s, ok).freed = FALSE
    BY DEF Done
  <1>3. CASE Start(p, e) # {}
    <2>1. r = Done(p, FALSE) \/ \E k : r = StoreAt(p, e, k, d)
      BY <1>3 DEF StoreIn, StoreFound
    <2> QED
      BY <1>1, <1>2, <2>1
  <1>4. CASE Start(p, e) = {}
    <2>1. PICK q : q = QueueEntry(p, e)
      OBVIOUS
    <2>2. \/ r = Done(p, FALSE)
          \/ /\ q.result = "queued" /\ Start(q.peer, e) = {}
             /\ r = [Done(q.peer, TRUE) EXCEPT !.freed = TRUE]
          \/ \E k : r = StoreAt(q.peer, e, k, d)
      BY <1>4, <2>1 DEF StoreIn, StoreQueued
    <2>3. CASE r = Done(p, FALSE) \/ \E k : r = StoreAt(q.peer, e, k, d)
      BY <1>1, <1>2, <2>3
    <2>4. CASE /\ q.result = "queued" /\ Start(q.peer, e) = {}
               /\ r = [Done(q.peer, TRUE) EXCEPT !.freed = TRUE]
      <3>1. ThreeFragments(L)
        BY <2>1, <2>4, QueuedLost
      <3>2. r.freed = TRUE
        BY <2>4 DEF Done
      <3> QED
        BY <3>1, <3>2
    <2> QED
      BY <2>2, <2>3, <2>4
  <1> QED
    BY <1>3, <1>4

LEMMA HandleFreed ==
  ASSUME NEW L, NEW n, Known(L, n), NEW p, NEW G, Good(L, n, p, G, {}),
         NEW x \in 1 .. Len(L), NEW i \in 0 .. L[x].size - 1, NEW cmd, cmd = CommandOf(L, n, x, i),
         NEW r, r = Handle(p, cmd)
  PROVE  r.freed \in BOOLEAN /\ (r.freed => ThreeFragments(L))
  <1>1. /\ L[x].kind \in Kinds /\ cmd.kind = L[x].kind /\ L[x].size \in Nat \ {0}
        /\ L[x].kind \in {"fragment", "unreliableFragment"} <=> L[x].size > 1
        /\ cmd.count = IF L[x].size > 1 THEN L[x].size ELSE 0
    BY PacketFacts DEF CommandOf, Stamped
  <1>2. ASSUME NEW s, NEW ok
        PROVE  Done(s, ok).freed = FALSE
    BY DEF Done
  <1>3. CASE L[x].kind = "unsequenced"
    <2>1. r = HandleUnsequenced(p, cmd)
      BY <1>1, <1>3 DEF Handle
    <2>2. r.freed = FALSE
      BY <2>1 DEF HandleUnsequenced, Marked, Done
    <2> QED
      BY <2>2
  <1>4. CASE L[x].kind \in {"reliable", "unreliable"}
    <2>1. r = HandleWhole(p, cmd)
      BY <1>1, <1>4 DEF Handle
    <2>2. r.freed = FALSE
      BY <2>1 DEF HandleWhole, Whole, Done
    <2> QED
      BY <2>2
  <1>5. CASE L[x].kind \in {"fragment", "unreliableFragment"}
    <2>1. PICK e : e = Incoming(cmd, n[x].seq)
      OBVIOUS
    <2>2. IsOf(e, L, n, x) /\ e.ch = L[x].ch /\ e.kind = L[x].kind /\ <<cmd.frag, cmd.pkt>> \in Parts(L, x)
      BY <2>1, IncomingIs
    <2>3. e.data = {}
      BY <1>1, <1>5, <2>1 DEF Incoming, Fragmented
    <2>4. ~Complete(e)
      <3>1. EntryFacts(e, L, n, x)
        BY <2>2, EntryIs
      <3>2. Complete(e) <=> e.data = Parts(L, x)
        BY <3>1 DEF EntryFacts
      <3>3. x \in Nat
        BY PacketFacts
      <3>4. Parts(L, x) # {}
        BY <1>1, <3>3, PartsAre
      <3> QED
        BY <2>3, <3>2, <3>4
    <2>5. Sequenced(e)
      BY <1>5, <2>2 DEF Sequenced
    <2>6. PICK s : s = StoreIn(p, e, <<cmd.frag, cmd.pkt>>)
      OBVIOUS
    <2>7. s.freed \in BOOLEAN /\ (s.freed => ThreeFragments(L))
      BY <2>2, <2>4, <2>5, <2>6, StoreFreed
    <2>8. r = Done(p, TRUE) \/ r = s
      <3>1. CASE L[x].kind = "fragment"
        <4>1. cmd.useq = n[x].seq
          BY <3>1 DEF CommandOf
        <4> QED
          BY <1>1, <2>1, <2>6, <3>1, <4>1 DEF Handle, HandleFragment, StoreFragment
      <3>2. CASE L[x].kind = "unreliableFragment"
        <4>1. cmd.seq = n[x].seq
          BY <3>2 DEF CommandOf
        <4> QED
          BY <1>1, <2>1, <2>6, <3>2, <4>1 DEF Handle, HandleUnreliableFragment, StoreFragment
      <3> QED
        BY <1>5, <3>1, <3>2
    <2>9. CASE r = Done(p, TRUE)
      BY <1>2, <2>9
    <2> QED
      BY <2>7, <2>8, <2>9
  <1> QED
    BY <1>1, <1>3, <1>4, <1>5 DEF Kinds

\* Packets that were sent stay so.
LEMMA FragmentsStay ==
  ASSUME NEW L \in Seq(Logged), NEW M \in Seq(Logged), Grown(L, M), ThreeFragments(L)
  PROVE  ThreeFragments(M)
  <1>1. PICK l \in Nat : l = Len(L)
    OBVIOUS
  <1>2. PICK m \in Nat : m = Len(M)
    OBVIOUS
  <1>3. l <= m /\ \A k \in 1 .. l : k \in 1 .. m /\ M[k] = L[k]
    BY <1>1, <1>2 DEF Grown
  <1> QED
    BY <1>1, <1>2, <1>3 DEF ThreeFragments

LEMMA ThreeAre ==
  ASSUME log \in Seq(Logged), ThreeFragments(log)
  PROVE  Cardinality({i \in DOMAIN log : log[i].kind = "unreliableFragment"}) >= 3
  <1>1. PICK l \in Nat : l = Len(log) /\ DOMAIN log = 1 .. l
    OBVIOUS
  <1>2. PICK S : S = {i \in DOMAIN log : log[i].kind = "unreliableFragment"}
    OBVIOUS
  <1>3. IsFiniteSet(S) /\ Cardinality(S) \in Nat
    <2>1. IsFiniteSet(1 .. l)
      BY FS_Interval
    <2>2. S \in SUBSET (1 .. l)
      BY <1>1, <1>2
    <2>3. IsFiniteSet(S)
      BY <2>1, <2>2, FS_Subset
    <2> QED
      BY <2>3, FS_CardinalityType
  <1>4. PICK x \in S : \E y \in S : \E z \in S : x # y /\ y # z /\ x # z
    BY <1>1, <1>2 DEF ThreeFragments
  <1>5. PICK y \in S : \E z \in S : x # y /\ y # z /\ x # z
    BY <1>4
  <1>6. PICK z \in S : x # y /\ y # z /\ x # z
    BY <1>5
  <1>7. PICK A : A = S \ {x}
    OBVIOUS
  <1>8. PICK B : B = A \ {y}
    OBVIOUS
  <1>9. PICK C : C = B \ {z}
    OBVIOUS
  <1>10. IsFiniteSet(A) /\ Cardinality(A) = Cardinality(S) - 1 /\ y \in A /\ Cardinality(A) \in Nat
    BY <1>3, <1>6, <1>7, FS_RemoveElement, FS_CardinalityType
  <1>11. IsFiniteSet(B) /\ Cardinality(B) = Cardinality(A) - 1 /\ z \in B /\ Cardinality(B) \in Nat
    BY <1>6, <1>7, <1>8, <1>10, FS_RemoveElement, FS_CardinalityType
  <1>12. Cardinality(C) = Cardinality(B) - 1 /\ Cardinality(C) \in Nat
    BY <1>9, <1>11, FS_RemoveElement, FS_CardinalityType
  <1>13. Cardinality(S) >= 3
    <2>1. PICK i \in Nat : i = Cardinality(S)
      BY <1>3
    <2>2. PICK j \in Nat : j = Cardinality(C)
      BY <1>12
    <2>3. i - 1 - 1 - 1 = j
      BY <1>10, <1>11, <1>12, <2>1, <2>2
    <2>4. i >= 3
      BY <2>3
    <2> QED
      BY <2>1, <2>4
  <1> QED
    BY <1>2, <1>13

--------------------------------------------------------------------------------
(* ReceiverInv holds in every state. *)

LEMMA HasAny ==
  ASSUME NEW L, NEW n, NEW p, NEW G, Good(L, n, p, G, {}), NEW e, Has(p, e)
  PROVE  IsAny(e, L, n)
  <1>1. ASSUME NEW i \in 1 .. Len(p.dispatched), p.dispatched[i] = e
        PROVE  IsAny(e, L, n)
    BY <1>1, DispatchedAny
  <1>2. ASSUME NEW c \in Channels, NEW i \in 1 .. Len(p.chan[c].rel), p.chan[c].rel[i] = e
        PROVE  IsAny(e, L, n)
    <2>1. MayRun(L, n, p.chan[c], c)
      BY DEF Good, Lists
    <2> QED
      BY <1>2, <2>1 DEF MayRun
  <1>3. ASSUME NEW c \in Channels, NEW i \in 1 .. Len(p.chan[c].unrel), p.chan[c].unrel[i] = e
        PROVE  IsAny(e, L, n)
    <2>1. MayScan(L, n, p.chan[c], c)
      BY DEF Good, Lists
    <2> QED
      BY <1>3, <2>1 DEF MayScan
  <1> QED
    BY <1>1, <1>2, <1>3 DEF Has, InList

\* When a packet is sent the receiver holds and counts the same.
LEMMA CoversGrows ==
  ASSUME NEW L, NEW n, Known(L, n), NEW M, NEW m, Known(M, m), Grown(L, M), Grown(n, m),
         NEW p, NEW G, Good(L, n, p, G, {}), Covers(L, n, p)
  PROVE  Covers(M, m, p)
  <1>1. /\ \A x \in 1 .. Len(L) : x \in 1 .. Len(M) /\ M[x] = L[x] /\ m[x] = n[x]
        /\ \A e, x : IsOf(e, L, n, x) => IsOf(e, M, m, x)
    BY IsOfGrows
  <1>2. Holding(M, m, p) \subseteq Holding(L, n, p)
    <2>1. SUFFICES ASSUME NEW x, x \in Holding(M, m, p)
                   PROVE  x \in Holding(L, n, p)
      OBVIOUS
    <2>2. PICK e : IsOf(e, M, m, x) /\ Has(p, e)
      BY <2>1 DEF Holding
    <2>3. IsAny(e, L, n)
      BY <2>2, HasAny
    <2>4. PICK y : IsOf(e, L, n, y)
      BY <2>3 DEF IsAny
    <2>5. IsOf(e, M, m, y)
      BY <1>1, <2>4
    <2>6. x = y
      BY <2>2, <2>5, IsOfOne
    <2>7. x \in 1 .. Len(L) /\ IsOf(e, L, n, x)
      BY <2>4, <2>6 DEF IsOf
    <2> QED
      BY <2>2, <2>7 DEF Holding
  <1>3. PICK S : S = Holding(L, n, p)
    OBVIOUS
  <1>4. S \subseteq 1 .. Len(L)
    BY <1>3 DEF Holding
  <1>5. Shares(M, Holding(M, m, p)) \subseteq Shares(L, S)
    <2>1. SUFFICES ASSUME NEW z, z \in Shares(M, Holding(M, m, p))
                   PROVE  z \in Shares(L, S)
      OBVIOUS
    <2>2. PICK x \in Holding(M, m, p) : z \in Parts(M, x)
      BY <2>1 DEF Shares
    <2>3. x \in S /\ x \in 1 .. Len(L)
      BY <1>2, <1>3, <1>4, <2>2
    <2>4. Parts(M, x) = Parts(L, x)
      BY <1>1, <2>3 DEF Parts
    <2> QED
      BY <2>2, <2>3, <2>4 DEF Shares
  <1>6. IsFiniteSet(Shares(L, S)) /\ Cardinality(Shares(L, S)) \in Nat
    BY <1>4, SharesFinite
  <1>7. PICK T : T = Shares(M, Holding(M, m, p))
    OBVIOUS
  <1>8. T \in SUBSET Shares(L, S)
    BY <1>5, <1>7
  <1>9. IsFiniteSet(T) /\ Cardinality(T) <= Cardinality(Shares(L, S))
    BY <1>6, <1>8, FS_Subset
  <1>10. Cardinality(T) \in Nat
    BY <1>9, FS_CardinalityType
  <1>11. p.waiting \in Nat /\ Cardinality(Shares(L, S)) <= p.waiting
    BY <1>3 DEF Covers
  <1>12. Cardinality(T) <= p.waiting
    <2>1. PICK a \in Nat : a = Cardinality(T)
      BY <1>10
    <2>2. PICK b \in Nat : b = Cardinality(Shares(L, S))
      BY <1>6
    <2>3. PICK w \in Nat : w = p.waiting
      BY <1>11
    <2>4. a <= b /\ b <= w
      BY <1>9, <1>11, <2>1, <2>2, <2>3
    <2>5. a <= w
      BY <2>4
    <2> QED
      BY <2>1, <2>3, <2>5
  <1> QED
    BY <1>7, <1>11, <1>12 DEF Covers

(***************************************************************************)
(* The inductive invariant of the receiver: DeliveryInv, for the same      *)
(* numbers; totalWaitingData counts at least the fragments of the packets  *)
(* that the receiver has anything of; and a released command was used only *)
(* after three packets of unreliable fragments were sent.                  *)
(***************************************************************************)
Keeps(n) ==
  /\ Holds(n) /\ Covers(log, n, peer)
  /\ freed \in BOOLEAN /\ (freed => ThreeFragments(log))
ReceiverHolds == \E n : Keeps(n)

LEMMA ReceiverInit == Init => ReceiverHolds
  <1>1. HAVE Init
  <1>2. PICK n : Holds(n)
    BY <1>1, DeliveryInit DEF DeliveryInv
  <1>3. /\ peer.waiting = 0 /\ peer.dispatched = <<>> /\ freed = FALSE /\ log = <<>>
        /\ \A c \in Channels : peer.chan[c].rel = <<>> /\ peer.chan[c].unrel = <<>>
    BY <1>1 DEF Init, FreshReceiver, FreshChannel
  <1>4. Holding(log, n, peer) = {}
    <2>1. Len(log) = 0
      BY <1>3, EmptySeq
    <2>2. 1 .. 0 = {}
      OBVIOUS
    <2> QED
      BY <2>1, <2>2 DEF Holding
  <1>5. Shares(log, Holding(log, n, peer)) = {}
    BY <1>4 DEF Shares
  <1>6. Cardinality(Shares(log, Holding(log, n, peer))) = 0
    BY <1>5, FS_EmptySet
  <1>7. Covers(log, n, peer)
    BY <1>3, <1>6 DEF Covers
  <1>8. freed \in BOOLEAN /\ (freed => ThreeFragments(log))
    BY <1>3
  <1> QED
    BY <1>2, <1>7, <1>8 DEF ReceiverHolds, Keeps

LEMMA ReceiverNext == ReceiverHolds /\ [Next]_vars => ReceiverHolds'
  <1>1. HAVE ReceiverHolds /\ [Next]_vars
  <1>2. PICK n : Keeps(n)
    BY <1>1 DEF ReceiverHolds
  <1>3. /\ Holds(n) /\ Covers(log, n, peer) /\ freed \in BOOLEAN /\ (freed => ThreeFragments(log))
    BY <1>2 DEF Keeps
  <1>4. /\ Known(log, n) /\ Good(log, n, peer, got, {}) /\ Once(log, n, peer, got \o peer.dispatched)
        /\ OnWire(wire, log, n)
    BY <1>3 DEF Holds, Sender
  <1>5. ASSUME NEW c \in Channels, NEW flag \in Flags, NEW size \in Sizes, Send(c, flag, size)
        PROVE  ReceiverHolds'
    <2>1. peer' = peer /\ freed' = freed
      BY <1>5 DEF Send
    <2>2. PICK m : Holds(m)' /\ Known(log', m) /\ Grown(log, log') /\ Grown(n, m)
      BY <1>3, <1>5, DeliverySend
    <2>3. Covers(log', m, peer)
      BY <1>3, <1>4, <2>2, CoversGrows
    <2>4. Covers(log', m, peer')
      BY <2>1, <2>3
    <2>5. freed' => ThreeFragments(log')
      <3>1. log \in Seq(Logged) /\ log' \in Seq(Logged)
        BY <1>4, <2>2 DEF Known
      <3> QED
        BY <1>3, <2>1, <2>2, <3>1, FragmentsStay
    <2>6. Keeps(m)'
      BY <1>3, <2>1, <2>2, <2>4, <2>5 DEF Keeps
    <2> QED
      BY <2>6 DEF ReceiverHolds
  <1>6. ASSUME NEW cmd \in wire, Arrive(cmd)
        PROVE  ReceiverHolds'
    <2>1. PICK x \in 1 .. Len(log) : \E i \in 0 .. log[x].size - 1 : cmd = CommandOf(log, n, x, i)
      BY <1>4, <1>6 DEF OnWire
    <2>2. PICK i \in 0 .. log[x].size - 1 : cmd = CommandOf(log, n, x, i)
      BY <2>1
    <2>3. PICK h : h = Handle(peer, cmd)
      OBVIOUS
    <2>4. peer' = h.peer /\ freed' = (freed \/ h.freed) /\ log' = log
      BY <1>6, <2>3 DEF Arrive
    <2>5. PICK r : r = h.peer
      OBVIOUS
    <2>6. Tally(log, n, peer, r, x)
      BY <1>4, <2>2, <2>3, <2>5, HandleTally
    <2>7. Covers(log, n, r)
      BY <1>3, <1>4, <2>6, TallyCovers
    <2>8. h.freed \in BOOLEAN /\ (h.freed => ThreeFragments(log))
      BY <1>4, <2>2, <2>3, HandleFreed
    <2>9. Covers(log', n, peer')
      BY <2>4, <2>5, <2>7
    <2>10. freed' \in BOOLEAN /\ (freed' => ThreeFragments(log'))
      BY <1>3, <2>4, <2>8
    <2>11. Holds(n)'
      BY <1>3, <1>6, DeliveryArrive
    <2>12. Keeps(n)'
      BY <2>9, <2>10, <2>11 DEF Keeps
    <2> QED
      BY <2>12 DEF ReceiverHolds
  <1>7. CASE Receive
    <2>1. peer.dispatched # <<>> /\ peer' = Received(peer) /\ freed' = freed /\ log' = log
      BY <1>7 DEF Receive
    <2>2. PICK r : r = Received(peer)
      OBVIOUS
    <2>3. Covers(log, n, r)
      BY <1>3, <1>4, <2>1, <2>2, ReceivedCovers
    <2>4. Covers(log', n, peer')
      BY <2>1, <2>2, <2>3
    <2>5. freed' \in BOOLEAN /\ (freed' => ThreeFragments(log'))
      BY <1>3, <2>1
    <2>6. Holds(n)'
      BY <1>3, <1>7, DeliveryReceive
    <2>7. Keeps(n)'
      BY <2>4, <2>5, <2>6 DEF Keeps
    <2> QED
      BY <2>7 DEF ReceiverHolds
  <1>8. CASE UNCHANGED vars
    <2>1. Holds(n)'
      BY <1>3, <1>8 DEF Holds, vars
    <2>2. peer' = peer /\ log' = log /\ freed' = freed
      BY <1>8 DEF vars
    <2>3. Covers(log', n, peer') /\ freed' \in BOOLEAN /\ (freed' => ThreeFragments(log'))
      BY <1>3, <2>2
    <2>4. Keeps(n)'
      BY <2>1, <2>3 DEF Keeps
    <2> QED
      BY <2>4 DEF ReceiverHolds
  <1> QED
    BY <1>1, <1>5, <1>6, <1>7, <1>8 DEF Next

LEMMA ReceiverIs == ReceiverHolds => ReceiverInv
  <1>1. HAVE ReceiverHolds
  <1>2. PICK n : Keeps(n)
    BY <1>1 DEF ReceiverHolds
  <1>3. /\ Holds(n) /\ Covers(log, n, peer) /\ freed \in BOOLEAN /\ (freed => ThreeFragments(log))
    BY <1>2 DEF Keeps
  <1>4. TypeOK
    BY <1>3, ReceiverTypes DEF Covers
  <1>5. ListsSorted
    BY <1>3, ReceiverSorted
  <1>6. WaitingCoversHeld
    BY <1>3, ReceiverCovers
  <1>7. ReleasedOnlyAmongFragments
    <2>1. log \in Seq(Logged)
      BY <1>3 DEF Holds, Sender, Known
    <2> QED
      BY <1>3, <2>1, ThreeAre DEF ReleasedOnlyAmongFragments
  <1> QED
    BY <1>4, <1>5, <1>6, <1>7 DEF ReceiverInv

(***************************************************************************)
(* After every command the receiver is in order: what waits in a channel   *)
(* is sorted, ahead of what was delivered and of the types of the code;    *)
(* totalWaitingData is no less than the buffers of what waits, so that     *)
(* enet_peer_receive() never subtracts more than was counted; and the      *)
(* fragment handlers go on with a command that was released while it was   *)
(* being queued only after three packets in unreliable fragments were sent *)
(* (enet_peer_queue_incoming_command(), the dispatch functions and         *)
(* enet_protocol_handle_send_unreliable_fragment()).                       *)
(***************************************************************************)
THEOREM ReceiverAlways == Spec => []ReceiverInv
  BY ReceiverInit, ReceiverNext, ReceiverIs, PTL DEF Spec

================================================================================
