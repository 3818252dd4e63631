-------------------------- MODULE ENetReliableProofs ---------------------------
(***************************************************************************)
(* Proofs about ENetReliable, for every window size, any number of windows *)
(* and channels, packets of any number of fragments, and numbers that wrap *)
(* around.  First the sender: its reliable windows, its count of data in   *)
(* transit and the order of its lists hold through sending, timeouts and   *)
(* acknowledgements in any order.  Then the receiver, and what the two     *)
(* ends know of each other: what was acknowledged is kept, the sender is   *)
(* never too far ahead, and each channel implements ReliableChannel.       *)
(***************************************************************************)
EXTENDS ENetReliable, SequenceTheorems, FiniteSetTheorems, WellFoundedInduction, TLAPS

--------------------------------------------------------------------------------
(* Numbers and windows. *)

\* Quotient and remainder are the only numbers with their two properties.
LEMMA Quotient ==
  ASSUME NEW n \in Nat, NEW d \in Nat \ {0}
  PROVE  /\ n \div d \in Nat /\ n % d \in 0 .. d - 1
         /\ n = (n \div d) * d + (n % d)
  <1>1. n \div d \in Nat /\ n % d \in 0 .. d - 1
    OBVIOUS
  <1>2. n = (n \div d) * d + (n % d)
    OBVIOUS
  <1> QED
    BY <1>1, <1>2

LEMMA QuotientIs ==
  ASSUME NEW d \in Nat \ {0}, NEW q \in Nat, NEW r \in 0 .. d - 1
  PROVE  (q * d + r) \div d = q /\ (q * d + r) % d = r
  <1>1. PICK n \in Nat : n = q * d + r
    BY SMT
  <1>2. PICK a \in Nat : a = n \div d
    BY <1>1, Quotient
  <1>3. PICK b \in 0 .. d - 1 : b = n % d
    BY <1>1, Quotient
  <1>4. n = a * d + b
    BY <1>2, <1>3, Quotient
  <1>5. ~(a < q)
    <2>1. SUFFICES ASSUME a < q
                   PROVE  FALSE
      OBVIOUS
    <2>2. (a + 1) * d <= q * d
      BY <2>1
    <2>3. (a + 1) * d = a * d + d
      OBVIOUS
    <2> QED
      BY <1>1, <1>4, <2>2, <2>3
  <1>6. ~(q < a)
    <2>1. SUFFICES ASSUME q < a
                   PROVE  FALSE
      OBVIOUS
    <2>2. (q + 1) * d <= a * d
      BY <2>1
    <2>3. (q + 1) * d = q * d + d
      OBVIOUS
    <2> QED
      BY <1>1, <1>4, <2>2, <2>3
  <1>7. a = q
    BY <1>5, <1>6
  <1> QED
    BY <1>1, <1>2, <1>3, <1>4, <1>7

LEMMA Sizes ==
  /\ WindowSize \in Nat \ {0} /\ Windows \in Nat \ {0} /\ Windows = FreeWindows + FreeWindows
  /\ FreeWindows \in Nat \ {0} /\ Numbers \in Nat \ {0}
  <1>1. /\ WindowSize \in Nat \ {0} /\ Windows \in Nat \ {0}
        /\ Windows = FreeWindows + FreeWindows /\ FreeWindows \in Nat \ {0}
    BY WindowAssumption
  <1>2. Numbers \in Nat \ {0}
    BY <1>1 DEF Numbers
  <1> QED
    BY <1>1, <1>2

\* On the wire a number keeps its place in its window, and its window modulo
\* the number of windows.
LEMMA WireWindow ==
  ASSUME NEW n \in Nat
  PROVE  /\ (n % Numbers) \div WindowSize = TrueWindow(n) % Windows
         /\ (n % Numbers) % WindowSize = n % WindowSize
         /\ TrueWindow(n) \in Nat /\ TrueWindow(n) % Windows \in WindowIds
  <1>1. PICK q \in Nat : q = n \div WindowSize
    BY Sizes, Quotient
  <1>2. PICK r \in 0 .. WindowSize - 1 : r = n % WindowSize
    BY Sizes, Quotient
  <1>3. n = q * WindowSize + r
    BY <1>1, <1>2, Sizes, Quotient
  <1>4. PICK a \in Nat : a = q \div Windows
    BY Sizes, Quotient
  <1>5. PICK b \in 0 .. Windows - 1 : b = q % Windows
    BY Sizes, Quotient
  <1>6. q = a * Windows + b
    BY <1>4, <1>5, Sizes, Quotient
  <1>7. PICK s \in Nat : s = b * WindowSize + r
    BY Sizes
  <1>8. s \in 0 .. Numbers - 1
    <2>1. b * WindowSize <= (Windows - 1) * WindowSize
      BY Sizes
    <2>2. (Windows - 1) * WindowSize = WindowSize * Windows - WindowSize
      BY Sizes
    <2> QED
      BY <1>7, <2>1, <2>2, Sizes DEF Numbers
  <1>9. n = a * Numbers + s
    <2>1. q * WindowSize = (a * Windows) * WindowSize + b * WindowSize
      BY <1>6, Sizes
    <2>2. (a * Windows) * WindowSize = a * (WindowSize * Windows)
      BY Sizes
    <2> QED
      BY <1>3, <1>7, <2>1, <2>2, Sizes DEF Numbers
  <1>10. n % Numbers = s
    BY <1>8, <1>9, Sizes, QuotientIs
  <1>11. s \div WindowSize = b /\ s % WindowSize = r
    BY <1>7, Sizes, QuotientIs
  <1> QED
    BY <1>1, <1>2, <1>5, <1>10, <1>11, Sizes DEF TrueWindow, WindowIds

\* The next number is in the same window or begins the next one.
LEMMA NextWindow ==
  ASSUME NEW n \in Nat
  PROVE  TrueWindow(n + 1) = IF (n + 1) % WindowSize = 0 THEN TrueWindow(n) + 1 ELSE TrueWindow(n)
  <1>1. PICK q \in Nat : q = n \div WindowSize
    BY Sizes, Quotient
  <1>2. PICK r \in 0 .. WindowSize - 1 : r = n % WindowSize
    BY Sizes, Quotient
  <1>3. n = q * WindowSize + r
    BY <1>1, <1>2, Sizes, Quotient
  <1>4. CASE r < WindowSize - 1
    <2>1. r + 1 \in 0 .. WindowSize - 1 /\ n + 1 = q * WindowSize + (r + 1)
      BY <1>3, <1>4, Sizes
    <2>2. (n + 1) \div WindowSize = q /\ (n + 1) % WindowSize = r + 1
      BY <2>1, Sizes, QuotientIs
    <2> QED
      BY <1>1, <2>2 DEF TrueWindow
  <1>5. CASE r = WindowSize - 1
    <2>1. PICK z \in 0 .. WindowSize - 1 : z = 0
      BY Sizes
    <2>2. n + 1 = (q + 1) * WindowSize + z
      BY <1>3, <1>5, <2>1, Sizes
    <2>3. (n + 1) \div WindowSize = q + 1 /\ (n + 1) % WindowSize = z
      BY <2>2, Sizes, QuotientIs
    <2> QED
      BY <1>1, <2>1, <2>3 DEF TrueWindow
  <1> QED
    BY <1>2, <1>4, <1>5, Sizes

\* Windows that are FreeWindows + 1 in a row and have the same place on the
\* wire are the same; the one Windows behind has the place of the next one.
LEMMA SamePlace ==
  ASSUME NEW v \in Nat, NEW w \in Nat, v <= w, w <= v + FreeWindows, v % Windows = w % Windows
  PROVE  v = w
  <1>1. PICK a \in Nat : a = v \div Windows
    BY Sizes, Quotient
  <1>2. PICK b \in Nat : b = w \div Windows
    BY Sizes, Quotient
  <1>3. PICK r \in 0 .. Windows - 1 : r = v % Windows
    BY Sizes, Quotient
  <1>4. v = a * Windows + r /\ w = b * Windows + r
    <2>1. v = a * Windows + r
      BY <1>1, <1>3, Sizes, Quotient
    <2>2. w % Windows = r
      BY <1>3
    <2>3. w = b * Windows + r
      BY <1>2, <2>2, Sizes, Quotient
    <2> QED
      BY <2>1, <2>3
  <1>5. FreeWindows < Windows
    BY Sizes
  <1>6. ~(b > a)
    <2>1. SUFFICES ASSUME b > a
                   PROVE  FALSE
      OBVIOUS
    <2>2. (a + 1) * Windows <= b * Windows
      BY <2>1, Sizes
    <2>3. (a + 1) * Windows = a * Windows + Windows
      BY Sizes
    <2> QED
      BY <1>3, <1>4, <1>5, <2>2, <2>3, Sizes
  <1>7. ~(a > b)
    <2>1. SUFFICES ASSUME a > b
                   PROVE  FALSE
      OBVIOUS
    <2>2. (b + 1) * Windows <= a * Windows
      BY <2>1, Sizes
    <2>3. (b + 1) * Windows = b * Windows + Windows
      BY Sizes
    <2> QED
      BY <1>3, <1>4, <2>2, <2>3, Sizes
  <1> QED
    BY <1>4, <1>6, <1>7

LEMMA PlaceAhead ==
  ASSUME NEW v \in Nat, NEW w \in Nat, w = v + FreeWindows + 1
  PROVE  v % Windows = ((w % Windows) + (FreeWindows - 1)) % Windows
  <1>1. PICK b \in Nat : b = w \div Windows
    BY Sizes, Quotient
  <1>2. PICK r \in 0 .. Windows - 1 : r = w % Windows
    BY Sizes, Quotient
  <1>3. w = b * Windows + r
    BY <1>1, <1>2, Sizes, Quotient
  <1>4. CASE r >= FreeWindows + 1
    <2>1. PICK s \in 0 .. Windows - 1 : s = r - FreeWindows - 1
      BY <1>2, <1>4, Sizes
    <2>2. v = b * Windows + s
      BY <1>3, <2>1, Sizes
    <2>3. r + (FreeWindows - 1) = 1 * Windows + s
      BY <2>1, Sizes
    <2>4. v % Windows = s
      BY <2>2, Sizes, QuotientIs
    <2>5. (1 * Windows + s) % Windows = s
      BY Sizes, QuotientIs
    <2> QED
      BY <1>2, <2>3, <2>4, <2>5
  <1>5. CASE r < FreeWindows + 1
    <2>1. b \in Nat \ {0}
      BY <1>2, <1>3, <1>5, Sizes
    <2>2. PICK s \in 0 .. Windows - 1 : s = r + (FreeWindows - 1)
      BY <1>2, <1>5, Sizes
    <2>3. PICK a \in Nat : a = b - 1
      BY <2>1
    <2>4. b * Windows = a * Windows + Windows
      BY <2>3, Sizes
    <2>5. v = a * Windows + s
      BY <1>3, <2>2, <2>4, Sizes
    <2>6. v % Windows = s
      BY <2>5, Sizes, QuotientIs
    <2>7. s % Windows = s
      BY <2>2, Sizes
    <2> QED
      BY <1>2, <2>2, <2>6, <2>7
  <1> QED
    BY <1>2, <1>4, <1>5, Sizes

--------------------------------------------------------------------------------
(* Parts of lists. *)

\* r has the commands of q at the positions in S, in their order; f tells where
\* each was.
Along(f, r, q, S) ==
  /\ r \in Seq(Commands)
  /\ f \in [1 .. Len(r) -> S]
  /\ \A i \in 1 .. Len(r) : r[i] = q[f[i]]
  /\ \A i, j \in 1 .. Len(r) : i < j => f[i] < f[j]
  /\ \A p \in S : \E i \in 1 .. Len(r) : f[i] = p

Sublist(r, q, S) == \E f : Along(f, r, q, S)

SameBelow(r, q, p) == \A i \in 1 .. p - 1 : r[i] = q[i]

LEMMA RemovedSublist ==
  ASSUME NEW q \in Seq(Commands), NEW p \in 1 .. Len(q), NEW r, r = RemoveAt(q, p)
  PROVE  Sublist(r, q, DOMAIN q \ {p}) /\ Len(r) = Len(q) - 1 /\ SameBelow(r, q, p)
  <1>1. PICK n \in Nat : n = Len(q)
    OBVIOUS
  <1>2. PICK a, b : a = SubSeq(q, 1, p - 1) /\ b = SubSeq(q, p + 1, n)
    OBVIOUS
  <1>3. /\ a \in Seq(Commands) /\ Len(a) = p - 1
        /\ \A j \in 1 .. p - 1 : a[j] = q[j]
    BY <1>1, <1>2
  <1>4. /\ b \in Seq(Commands) /\ Len(b) = n - p
        /\ \A j \in 1 .. n - p : b[j] = q[p + j]
    BY <1>1, <1>2
  <1>5. r = a \o b
    BY <1>1, <1>2 DEF RemoveAt
  <1>6. r \in Seq(Commands) /\ Len(r) = n - 1
    BY <1>1, <1>3, <1>4, <1>5
  <1>7. ASSUME NEW i \in 1 .. n - 1
        PROVE  r[i] = q[IF i < p THEN i ELSE i + 1]
    <2>1. CASE i < p
      <3>1. r[i] = a[i] /\ i \in 1 .. p - 1
        BY <1>1, <1>3, <1>4, <1>5, <2>1
      <3> QED
        BY <1>3, <2>1, <3>1
    <2>2. CASE ~(i < p)
      <3>1. PICK j \in 1 .. n - p : j = i - (p - 1)
        BY <1>1, <2>2
      <3>2. r[i] = b[j]
        BY <1>1, <1>3, <1>4, <1>5, <2>2, <3>1
      <3>3. p + j = i + 1
        BY <1>1, <3>1
      <3> QED
        BY <1>4, <2>2, <3>2, <3>3
    <2> QED
      BY <2>1, <2>2
  <1>8. PICK f : f = [i \in 1 .. n - 1 |-> IF i < p THEN i ELSE i + 1]
    OBVIOUS
  <1>9. f \in [1 .. n - 1 -> 1 .. n \ {p}]
    BY <1>1, <1>8
  <1>10. \A i \in 1 .. n - 1 : r[i] = q[f[i]]
    BY <1>7, <1>8
  <1>11. \A i, j \in 1 .. n - 1 : i < j => f[i] < f[j]
    BY <1>1, <1>8
  <1>12. \A h \in 1 .. n \ {p} : \E i \in 1 .. n - 1 : f[i] = h
    <2>1. TAKE h \in 1 .. n \ {p}
    <2>2. CASE h < p
      <3>1. h \in 1 .. n - 1 /\ f[h] = h
        BY <1>1, <1>8, <2>2
      <3> QED
        BY <3>1
    <2>3. CASE ~(h < p)
      <3>1. PICK i \in 1 .. n - 1 : i = h - 1
        BY <1>1, <2>1, <2>3
      <3>2. ~(i < p) /\ i + 1 = h
        BY <1>1, <2>1, <2>3, <3>1
      <3>3. f[i] = h
        BY <1>8, <3>2
      <3> QED
        BY <3>3
    <2> QED
      BY <2>2, <2>3
  <1>13. Len(r) = n - 1 /\ DOMAIN q = 1 .. n
    BY <1>1, <1>6
  <1>14. Along(f, r, q, 1 .. n \ {p})
    BY <1>6, <1>9, <1>10, <1>11, <1>12, <1>13 DEF Along
  <1> QED
    BY <1>1, <1>7, <1>13, <1>14 DEF Sublist, SameBelow

\* How many of S come no later than i: the position in Pick(q, S) of q[i].
RankIn(i, S) == Cardinality({j \in S : j <= i})

LEMMA RankType ==
  ASSUME NEW S, S \subseteq Nat, IsFiniteSet(S), NEW i \in S
  PROVE  RankIn(i, S) \in 1 .. Cardinality(S)
  <1>1. PICK T \in SUBSET S : T = {j \in S : j <= i}
    OBVIOUS
  <1>2. IsFiniteSet(T) /\ Cardinality(T) <= Cardinality(S)
    BY <1>1, FS_Subset
  <1>3. Cardinality(T) \in Nat /\ Cardinality(S) \in Nat
    BY <1>2, FS_CardinalityType
  <1>4. i \in T
    BY <1>1
  <1>5. Cardinality(T) # 0
    BY <1>2, <1>4, FS_EmptySet
  <1> QED
    BY <1>1, <1>2, <1>3, <1>5 DEF RankIn

LEMMA RankGrows ==
  ASSUME NEW S, S \subseteq Nat, IsFiniteSet(S), NEW i \in S, NEW j \in S, i < j
  PROVE  RankIn(i, S) < RankIn(j, S)
  <1>1. PICK T \in SUBSET S : T = {h \in S : h <= i}
    OBVIOUS
  <1>2. PICK U \in SUBSET S : U = {h \in S : h <= j}
    OBVIOUS
  <1>3. i \in Nat /\ j \in Nat
    OBVIOUS
  <1>4. T \in SUBSET U /\ j \in U /\ j \notin T
    <2>1. \A h \in S : h \in Nat /\ (h <= i => h <= j)
      BY <1>3
    <2>2. T \in SUBSET U
      BY <1>1, <1>2, <2>1
    <2>3. j <= j /\ ~(j <= i)
      BY <1>3
    <2> QED
      BY <1>1, <1>2, <2>2, <2>3
  <1>5. IsFiniteSet(U) /\ IsFiniteSet(T)
    BY FS_Subset
  <1>6. Cardinality(T) <= Cardinality(U) /\ (Cardinality(T) = Cardinality(U) => T = U)
    BY <1>4, <1>5, FS_Subset
  <1>7. Cardinality(T) \in Nat /\ Cardinality(U) \in Nat
    BY <1>5, FS_CardinalityType
  <1> QED
    BY <1>1, <1>2, <1>4, <1>6, <1>7 DEF RankIn

LEMMA PickedSublist ==
  ASSUME NEW q \in Seq(Commands), NEW S \in SUBSET DOMAIN q, NEW r, r = Pick(q, S)
  PROVE  Sublist(r, q, S)
  <1>1. S \subseteq Nat /\ IsFiniteSet(S)
    <2>1. IsFiniteSet(1 .. Len(q))
      BY FS_Interval
    <2>2. DOMAIN q = 1 .. Len(q)
      OBVIOUS
    <2>3. S \in SUBSET (1 .. Len(q))
      BY <2>2
    <2> QED
      BY <2>1, <2>3, FS_Subset
  <1>2. PICK n \in Nat : n = Cardinality(S)
    BY <1>1, FS_CardinalityType
  <1>3. PICK g : g = [i \in S |-> RankIn(i, S)]
    OBVIOUS
  <1>4. g \in [S -> 1 .. n]
    BY <1>1, <1>2, <1>3, RankType
  <1>5. \A i, j \in S : i < j => g[i] < g[j]
    BY <1>1, <1>3, RankGrows
  <1>6. \A i, j \in S : g[i] = g[j] => i = j
    <2>1. TAKE i, j \in S
    <2>2. i \in Nat /\ j \in Nat /\ g[i] \in Nat /\ g[j] \in Nat
      BY <1>1, <1>4
    <2> QED
      BY <1>5, <2>2
  <1>7. g \in Injection(S, 1 .. n)
    BY <1>4, <1>6 DEF Injection, IsInjective
  <1>8. IsFiniteSet(1 .. n) /\ Cardinality(1 .. n) = n
    <2>1. 1 \in Int /\ n \in Int
      BY <1>2
    <2>2. IsFiniteSet(1 .. n) /\ Cardinality(1 .. n) = IF 1 > n THEN 0 ELSE n - 1 + 1
      BY <2>1, FS_Interval
    <2> QED
      BY <1>2, <2>2
  <1>9. g \in Surjection(S, 1 .. n)
    BY <1>2, <1>7, <1>8, FS_Injection
  <1>10. \A k \in 1 .. n : \E i \in S : g[i] = k
    BY <1>9 DEF Surjection
  <1>11. PICK f : f = [k \in 1 .. n |-> CHOOSE i \in S : RankIn(i, S) = k]
    OBVIOUS
  <1>12. ASSUME NEW k \in 1 .. n
         PROVE  f[k] \in S /\ g[f[k]] = k
    <2>1. \E i \in S : RankIn(i, S) = k
      BY <1>3, <1>10
    <2>2. f[k] \in S /\ RankIn(f[k], S) = k
      BY <1>11, <2>1
    <2> QED
      BY <1>3, <2>2
  <1>13. f \in [1 .. n -> S]
    BY <1>11, <1>12
  <1>14. r = [k \in 1 .. n |-> q[f[k]]]
    <2>1. r = [k \in 1 .. n |-> q[CHOOSE i \in S : RankIn(i, S) = k]]
      BY <1>2 DEF Pick, RankIn
    <2> QED
      BY <1>11, <2>1
  <1>15. \A k \in 1 .. n : q[f[k]] \in Commands
    BY <1>13
  <1>16. r \in Seq(Commands) /\ Len(r) = n
    BY <1>2, <1>14, <1>15
  <1>17. \A i, j \in 1 .. n : i < j => f[i] < f[j]
    <2>1. TAKE i, j \in 1 .. n
    <2>2. f[i] \in S /\ f[j] \in S /\ g[f[i]] = i /\ g[f[j]] = j
      BY <1>12
    <2>3. f[i] \in Nat /\ f[j] \in Nat /\ i \in Nat /\ j \in Nat
      BY <1>1, <2>2
    <2>4. f[j] < f[i] => j < i
      BY <1>5, <2>2
    <2> QED
      BY <2>2, <2>3, <2>4
  <1>18. \A p \in S : \E k \in 1 .. n : f[k] = p
    <2>1. TAKE p \in S
    <2>2. g[p] \in 1 .. n
      BY <1>4
    <2>3. f[g[p]] \in S /\ g[f[g[p]]] = g[p]
      BY <1>12, <2>2
    <2>4. f[g[p]] = p
      BY <1>6, <2>3
    <2> QED
      BY <2>2, <2>4
  <1> QED
    BY <1>13, <1>14, <1>16, <1>17, <1>18 DEF Along, Sublist

LEMMA SameSize ==
  ASSUME NEW A, NEW B, IsFiniteSet(A), NEW f \in [A -> B],
         \A x, y \in A : f[x] = f[y] => x = y, \A z \in B : \E x \in A : f[x] = z
  PROVE  IsFiniteSet(B) /\ Cardinality(A) = Cardinality(B)
  <1>1. f \in Surjection(A, B)
    BY DEF Surjection
  <1>2. f \in Injection(A, B)
    BY DEF Injection, IsInjective
  <1>3. f \in Bijection(A, B)
    BY <1>1, <1>2 DEF Bijection
  <1>4. ExistsBijection(A, B)
    BY <1>3 DEF ExistsBijection
  <1> QED
    BY <1>4, FS_Bijection

LEMMA PositionsFinite ==
  ASSUME NEW q \in Seq(Commands), NEW S \in SUBSET DOMAIN q
  PROVE  IsFiniteSet(S) /\ Cardinality(S) \in Nat
  <1>1. IsFiniteSet(1 .. Len(q)) /\ DOMAIN q = 1 .. Len(q)
    BY FS_Interval
  <1>2. IsFiniteSet(S)
    BY <1>1, FS_Subset
  <1> QED
    BY <1>2, FS_CardinalityType

LEMMA SublistType ==
  ASSUME NEW q, NEW S, NEW r, Sublist(r, q, S)
  PROVE  r \in Seq(Commands)
  BY DEF Sublist, Along

OneToOne(f, n) == \A i, j \in 1 .. n : f[i] = f[j] => i = j

LEMMA SublistPositions ==
  ASSUME NEW q \in Seq(Commands), NEW S \in SUBSET DOMAIN q, NEW r, NEW f, Along(f, r, q, S)
  PROVE  /\ Len(r) \in Nat
         /\ \A i \in 1 .. Len(r) : f[i] \in 1 .. Len(q)
         /\ OneToOne(f, Len(r))
  <1>1. r \in Seq(Commands) /\ \A i \in 1 .. Len(r) : f[i] \in S
    <2>1. r \in Seq(Commands) /\ f \in [1 .. Len(r) -> S]
      BY DEF Along
    <2> QED
      BY <2>1
  <1>2. DOMAIN q = 1 .. Len(q) /\ Len(r) \in Nat
    BY <1>1
  <1>3. \A i \in 1 .. Len(r) : f[i] \in 1 .. Len(q)
    BY <1>1, <1>2
  <1>4. \A i, j \in 1 .. Len(r) : f[i] = f[j] => i = j
    <2>1. TAKE i, j \in 1 .. Len(r)
    <2>2. i \in Nat /\ j \in Nat /\ f[i] \in Nat /\ f[j] \in Nat
      BY <1>2, <1>3
    <2>3. (i < j => f[i] < f[j]) /\ (j < i => f[j] < f[i])
      BY DEF Along
    <2> QED
      BY <2>2, <2>3
  <1> QED
    BY <1>2, <1>3, <1>4 DEF OneToOne

\* No command is in q twice.
Same(o, p) == o.ch = p.ch /\ o.n = p.n
Distinct(q) == \A i, j \in 1 .. Len(q) : Same(q[i], q[j]) => i = j
Apart(q, r) == \A i \in 1 .. Len(q) : \A j \in 1 .. Len(r) : ~Same(q[i], r[j])

\* Commands sent before come first, the others in the order of their numbers.
Before(o, p) ==
  /\ p.attempts > 0 => o.attempts > 0
  /\ o.attempts = 0 /\ p.attempts = 0 /\ o.ch = p.ch => o.n < p.n
Ordered(q) == \A i, j \in 1 .. Len(q) : i < j => Before(q[i], q[j])

LEMMA SublistKeeps ==
  ASSUME NEW q \in Seq(Commands), NEW S \in SUBSET DOMAIN q, NEW r, Sublist(r, q, S)
  PROVE  /\ Distinct(q) => Distinct(r)
         /\ Ordered(q) => Ordered(r)
  <1>1. PICK f : Along(f, r, q, S)
    BY DEF Sublist
  <1>2. \A i \in 1 .. Len(r) : f[i] \in 1 .. Len(q) /\ r[i] = q[f[i]]
    BY <1>1, SublistPositions DEF Along
  <1>3. \A i, j \in 1 .. Len(r) : f[i] = f[j] => i = j
    <2>1. OneToOne(f, Len(r))
      BY <1>1, SublistPositions
    <2> QED
      BY <2>1 DEF OneToOne
  <1>4. \A i, j \in 1 .. Len(r) : i < j => f[i] < f[j]
    BY <1>1 DEF Along
  <1>5. ASSUME Distinct(q), NEW i \in 1 .. Len(r), NEW j \in 1 .. Len(r), Same(r[i], r[j])
        PROVE  i = j
    <2>1. f[i] = f[j]
      BY <1>2, <1>5 DEF Distinct
    <2> QED
      BY <1>3, <2>1
  <1>6. ASSUME Ordered(q), NEW i \in 1 .. Len(r), NEW j \in 1 .. Len(r), i < j
        PROVE  Before(r[i], r[j])
    <2>1. Before(q[f[i]], q[f[j]])
      BY <1>2, <1>4, <1>6 DEF Ordered
    <2> QED
      BY <1>2, <2>1
  <1> QED
    BY <1>5, <1>6 DEF Distinct, Ordered

LEMMA SublistCount ==
  ASSUME NEW q \in Seq(Commands), NEW S \in SUBSET DOMAIN q, NEW r, Sublist(r, q, S)
  PROVE  Cardinality(WithPacket(r)) = Cardinality({p \in S : HasPacket(q[p])})
  <1>1. PICK f : Along(f, r, q, S)
    BY DEF Sublist
  <1>2. /\ r \in Seq(Commands)
        /\ \A i \in 1 .. Len(r) : f[i] \in S /\ r[i] = q[f[i]]
        /\ \A p \in S : \E i \in 1 .. Len(r) : f[i] = p
    BY <1>1 DEF Along
  <1>3. \A i, j \in 1 .. Len(r) : f[i] = f[j] => i = j
    <2>1. OneToOne(f, Len(r))
      BY <1>1, SublistPositions
    <2> QED
      BY <2>1 DEF OneToOne
  <1>4. DOMAIN r = 1 .. Len(r)
    BY <1>2
  <1>5. PICK A \in SUBSET DOMAIN r : A = WithPacket(r)
    BY DEF WithPacket
  <1>6. PICK B \in SUBSET S : B = {p \in S : HasPacket(q[p])}
    OBVIOUS
  <1>7. PICK g : g = [i \in A |-> f[i]]
    OBVIOUS
  <1>8. g \in [A -> B]
    BY <1>2, <1>4, <1>5, <1>6, <1>7 DEF WithPacket
  <1>9. \A x, y \in A : g[x] = g[y] => x = y
    BY <1>3, <1>4, <1>5, <1>7
  <1>10. \A z \in B : \E x \in A : g[x] = z
    <2>1. TAKE z \in B
    <2>2. PICK i \in 1 .. Len(r) : f[i] = z
      BY <1>2, <1>6
    <2>3. HasPacket(r[i])
      BY <1>2, <1>6, <2>1, <2>2
    <2>4. i \in A
      BY <1>4, <1>5, <2>3 DEF WithPacket
    <2> QED
      BY <1>7, <2>2, <2>4
  <1>11. IsFiniteSet(A)
    BY <1>2, PositionsFinite
  <1> QED
    <2>1. Cardinality(A) = Cardinality(B)
      BY <1>8, <1>9, <1>10, <1>11, SameSize
    <2> QED
      BY <1>5, <1>6, <2>1

LEMMA CountAppend ==
  ASSUME NEW q \in Seq(Commands), NEW o \in Commands
  PROVE  Cardinality(WithPacket(Append(q, o))) = Cardinality(WithPacket(q)) + FragmentLength(o)
  <1>1. PICK r \in Seq(Commands) : r = Append(q, o)
    BY AppendProperties
  <1>2. PICK n \in Nat : n = Len(q)
    OBVIOUS
  <1>3. /\ DOMAIN q = 1 .. n /\ DOMAIN r = 1 .. n + 1 /\ r[n + 1] = o
        /\ \A i \in 1 .. n : r[i] = q[i]
    BY <1>1, <1>2
  <1>4. IsFiniteSet(WithPacket(q)) /\ Cardinality(WithPacket(q)) \in Nat
    <2>1. WithPacket(q) \in SUBSET DOMAIN q
      BY DEF WithPacket
    <2> QED
      BY <2>1, PositionsFinite
  <1>5. n + 1 \notin WithPacket(q)
    BY <1>3 DEF WithPacket
  <1>6. CASE HasPacket(o)
    <2>1. WithPacket(r) = WithPacket(q) \cup {n + 1}
      BY <1>3, <1>6 DEF WithPacket
    <2> QED
      BY <1>1, <1>4, <1>5, <1>6, <2>1, FS_AddElement DEF FragmentLength
  <1>7. CASE ~HasPacket(o)
    <2>1. WithPacket(r) = WithPacket(q)
      BY <1>3, <1>7 DEF WithPacket
    <2> QED
      BY <1>1, <1>4, <1>7, <2>1 DEF FragmentLength
  <1> QED
    BY <1>6, <1>7

LEMMA CountRemove ==
  ASSUME NEW q \in Seq(Commands), NEW p \in 1 .. Len(q), NEW r, r = RemoveAt(q, p)
  PROVE  Cardinality(WithPacket(r)) = Cardinality(WithPacket(q)) - FragmentLength(q[p])
  <1>1. PICK S \in SUBSET DOMAIN q : S = DOMAIN q \ {p}
    OBVIOUS
  <1>2. Cardinality(WithPacket(r)) = Cardinality({i \in S : HasPacket(q[i])})
    BY <1>1, RemovedSublist, SublistCount
  <1>3. {i \in S : HasPacket(q[i])} = WithPacket(q) \ {p}
    BY <1>1 DEF WithPacket
  <1>4. IsFiniteSet(WithPacket(q)) /\ Cardinality(WithPacket(q)) \in Nat
    <2>1. WithPacket(q) \in SUBSET DOMAIN q
      BY DEF WithPacket
    <2> QED
      BY <2>1, PositionsFinite
  <1>5. p \in WithPacket(q) <=> HasPacket(q[p])
    BY DEF WithPacket
  <1> QED
    <2>1. PICK n \in Nat : n = Cardinality(WithPacket(q))
      BY <1>4
    <2>2. Cardinality(WithPacket(q) \ {p}) = IF p \in WithPacket(q) THEN n - 1 ELSE n
      BY <1>4, <2>1, FS_RemoveElement
    <2>3. FragmentLength(q[p]) = IF p \in WithPacket(q) THEN 1 ELSE 0
      BY <1>5 DEF FragmentLength
    <2>4. n - FragmentLength(q[p]) = IF p \in WithPacket(q) THEN n - 1 ELSE n
      BY <2>1, <2>3
    <2> QED
      BY <1>2, <1>3, <2>1, <2>2, <2>4

LEMMA CountSplit ==
  ASSUME NEW q \in Seq(Commands), NEW S \in SUBSET DOMAIN q,
         NEW a, a = Pick(q, S), NEW b, b = Pick(q, DOMAIN q \ S)
  PROVE  Cardinality(WithPacket(b)) = Cardinality(WithPacket(q)) - Cardinality(WithPacket(a))
  <1>1. PICK T \in SUBSET DOMAIN q : T = DOMAIN q \ S
    OBVIOUS
  <1>2. PICK A \in SUBSET DOMAIN q : A = {i \in S : HasPacket(q[i])}
    OBVIOUS
  <1>3. PICK B \in SUBSET DOMAIN q : B = {i \in T : HasPacket(q[i])}
    OBVIOUS
  <1>4. Cardinality(WithPacket(a)) = Cardinality(A)
    BY <1>2, PickedSublist, SublistCount
  <1>5. Cardinality(WithPacket(b)) = Cardinality(B)
    BY <1>1, <1>3, PickedSublist, SublistCount
  <1>6. IsFiniteSet(A) /\ IsFiniteSet(B) /\ Cardinality(A) \in Nat /\ Cardinality(B) \in Nat
    BY PositionsFinite
  <1>7. WithPacket(q) = A \cup B /\ A \cap B = {}
    BY <1>1, <1>2, <1>3 DEF WithPacket
  <1>8. Cardinality(A \cup B) = Cardinality(A) + Cardinality(B) - Cardinality(A \cap B)
    BY <1>6, FS_Union
  <1>9. Cardinality({}) = 0
    BY FS_EmptySet
  <1> QED
    <2>1. PICK m \in Nat : m = Cardinality(A)
      BY <1>6
    <2>2. PICK n \in Nat : n = Cardinality(B)
      BY <1>6
    <2>3. Cardinality(WithPacket(q)) = m + n - 0
      BY <1>7, <1>8, <1>9, <2>1, <2>2
    <2> QED
      BY <1>4, <1>5, <2>1, <2>2, <2>3

LEMMA RangeOf ==
  ASSUME NEW q \in Seq(Commands)
  PROVE  Range(q) = {q[i] : i \in 1 .. Len(q)} /\ Range(q) \subseteq Commands
  <1>1. DOMAIN q = 1 .. Len(q) /\ \A i \in 1 .. Len(q) : q[i] \in Commands
    OBVIOUS
  <1> QED
    BY <1>1 DEF Range

LEMMA RangeSublist ==
  ASSUME NEW q \in Seq(Commands), NEW S \in SUBSET DOMAIN q, NEW r, Sublist(r, q, S)
  PROVE  Range(r) = {q[p] : p \in S}
  <1>1. PICK f : Along(f, r, q, S)
    BY DEF Sublist
  <1>2. r \in Seq(Commands) /\ f \in [1 .. Len(r) -> S]
    BY <1>1 DEF Along
  <1>3. \A i \in 1 .. Len(r) : r[i] = q[f[i]] /\ f[i] \in S
    BY <1>1, <1>2 DEF Along
  <1>4. \A p \in S : \E i \in 1 .. Len(r) : f[i] = p
    BY <1>1 DEF Along
  <1>5. Range(r) = {r[i] : i \in 1 .. Len(r)}
    BY <1>2, RangeOf
  <1>6. Range(r) \subseteq {q[p] : p \in S}
    BY <1>3, <1>5
  <1>7. ASSUME NEW p \in S
        PROVE  q[p] \in Range(r)
    <2>1. PICK i \in 1 .. Len(r) : f[i] = p
      BY <1>4
    <2>2. r[i] = q[p]
      BY <1>3, <2>1
    <2> QED
      BY <1>5, <2>2
  <1> QED
    BY <1>6, <1>7

LEMMA RangeRemove ==
  ASSUME NEW q \in Seq(Commands), Distinct(q), NEW p \in 1 .. Len(q), NEW r, r = RemoveAt(q, p)
  PROVE  Range(r) = Range(q) \ {q[p]}
  <1>1. PICK S \in SUBSET DOMAIN q : S = DOMAIN q \ {p}
    OBVIOUS
  <1>2. Range(r) = {q[i] : i \in S}
    BY <1>1, RemovedSublist, RangeSublist
  <1>3. Range(q) = {q[i] : i \in 1 .. Len(q)} /\ DOMAIN q = 1 .. Len(q)
    BY RangeOf
  <1>4. \A i \in 1 .. Len(q) : q[i] = q[p] => i = p
    BY DEF Distinct, Same
  <1> QED
    BY <1>1, <1>2, <1>3, <1>4

\* Where the commands of a \o b come from.
LEMMA JoinedAt ==
  ASSUME NEW a \in Seq(Commands), NEW b \in Seq(Commands), NEW s, s = a \o b
  PROVE  /\ s \in Seq(Commands) /\ Len(s) = Len(a) + Len(b)
         /\ \A i \in 1 .. Len(s) : IF i <= Len(a) THEN i \in 1 .. Len(a) /\ s[i] = a[i]
                                   ELSE i - Len(a) \in 1 .. Len(b) /\ s[i] = b[i - Len(a)]
         /\ \A i \in 1 .. Len(a) : i \in 1 .. Len(s) /\ s[i] = a[i]
         /\ \A i \in 1 .. Len(b) : i + Len(a) \in 1 .. Len(s) /\ s[i + Len(a)] = b[i]
  <1>1. PICK m \in Nat : m = Len(a)
    OBVIOUS
  <1>2. PICK n \in Nat : n = Len(b)
    OBVIOUS
  <1>3. /\ s \in Seq(Commands) /\ Len(s) = m + n
        /\ \A i \in 1 .. m + n : s[i] = IF i <= m THEN a[i] ELSE b[i - m]
    BY <1>1, <1>2, ConcatProperties
  <1>4. \A i \in 1 .. m + n : IF i <= m THEN i \in 1 .. m /\ s[i] = a[i]
                              ELSE i - m \in 1 .. n /\ s[i] = b[i - m]
    BY <1>3
  <1>5. \A i \in 1 .. m : i \in 1 .. m + n /\ s[i] = a[i]
    BY <1>3
  <1>6. \A i \in 1 .. n : i + m \in 1 .. m + n /\ s[i + m] = b[i]
    <2>1. TAKE i \in 1 .. n
    <2>2. i + m \in 1 .. m + n /\ ~(i + m <= m) /\ (i + m) - m = i
      OBVIOUS
    <2> QED
      BY <1>3, <2>2
  <1> QED
    BY <1>1, <1>2, <1>3, <1>4, <1>5, <1>6

LEMMA RangeJoin ==
  ASSUME NEW a \in Seq(Commands), NEW b \in Seq(Commands)
  PROVE  a \o b \in Seq(Commands) /\ Range(a \o b) = Range(a) \cup Range(b)
  <1>1. PICK s : s = a \o b
    OBVIOUS
  <1>2. s \in Seq(Commands)
    BY <1>1, JoinedAt
  <1>3. \A i \in 1 .. Len(s) : (\E j \in 1 .. Len(a) : s[i] = a[j]) \/ (\E j \in 1 .. Len(b) : s[i] = b[j])
    BY <1>1, JoinedAt
  <1>4. \A j \in 1 .. Len(a) : \E i \in 1 .. Len(s) : s[i] = a[j]
    BY <1>1, JoinedAt
  <1>5. \A j \in 1 .. Len(b) : \E i \in 1 .. Len(s) : s[i] = b[j]
    BY <1>1, JoinedAt
  <1>6. /\ Range(s) = {s[i] : i \in 1 .. Len(s)} /\ Range(a) = {a[i] : i \in 1 .. Len(a)}
        /\ Range(b) = {b[i] : i \in 1 .. Len(b)}
    BY <1>2, RangeOf
  <1>7. Range(s) \subseteq Range(a) \cup Range(b)
    BY <1>3, <1>6
  <1>8. Range(a) \subseteq Range(s)
    BY <1>4, <1>6
  <1>9. Range(b) \subseteq Range(s)
    BY <1>5, <1>6
  <1> QED
    BY <1>1, <1>2, <1>7, <1>8, <1>9

SetsApart(A, B) == \A o \in A : \A p \in B : ~Same(o, p)
AllBefore(A, B) == \A o \in A : \A p \in B : Before(o, p)

LEMMA DistinctJoin ==
  ASSUME NEW a \in Seq(Commands), NEW b \in Seq(Commands),
         Distinct(a), Distinct(b), SetsApart(Range(a), Range(b))
  PROVE  Distinct(a \o b)
  <1>1. PICK s : s = a \o b
    OBVIOUS
  <1>2. PICK m \in Nat : m = Len(a)
    OBVIOUS
  <1>3. \A i \in 1 .. Len(s) : IF i <= m THEN i \in 1 .. Len(a) /\ s[i] = a[i]
                               ELSE i - m \in 1 .. Len(b) /\ s[i] = b[i - m]
    BY <1>1, <1>2, JoinedAt
  <1>4. Range(a) = {a[i] : i \in 1 .. Len(a)} /\ Range(b) = {b[i] : i \in 1 .. Len(b)}
    BY RangeOf
  <1>5. ASSUME NEW i \in 1 .. Len(s), NEW j \in 1 .. Len(s), Same(s[i], s[j])
        PROVE  i = j
    <2>1. CASE i <= m /\ j <= m
      BY <1>3, <1>5, <2>1 DEF Distinct
    <2>2. CASE ~(i <= m) /\ ~(j <= m)
      <3>1. i - m \in 1 .. Len(b) /\ j - m \in 1 .. Len(b) /\ Same(b[i - m], b[j - m])
        BY <1>3, <1>5, <2>2
      <3>2. i - m = j - m
        BY <3>1 DEF Distinct
      <3> QED
        BY <1>2, <3>2
    <2>3. CASE i <= m /\ ~(j <= m)
      <3>1. s[i] \in Range(a) /\ s[j] \in Range(b)
        BY <1>3, <1>4, <2>3
      <3> QED
        BY <1>5, <3>1 DEF SetsApart
    <2>4. CASE ~(i <= m) /\ j <= m
      <3>1. s[j] \in Range(a) /\ s[i] \in Range(b)
        BY <1>3, <1>4, <2>4
      <3>2. Same(s[j], s[i])
        BY <1>5 DEF Same
      <3> QED
        BY <3>1, <3>2 DEF SetsApart
    <2> QED
      BY <2>1, <2>2, <2>3, <2>4
  <1> QED
    BY <1>1, <1>5 DEF Distinct

LEMMA OrderedJoin ==
  ASSUME NEW a \in Seq(Commands), NEW b \in Seq(Commands),
         Ordered(a), Ordered(b), AllBefore(Range(a), Range(b))
  PROVE  Ordered(a \o b)
  <1>1. PICK s : s = a \o b
    OBVIOUS
  <1>2. PICK m \in Nat : m = Len(a)
    OBVIOUS
  <1>3. \A i \in 1 .. Len(s) : IF i <= m THEN i \in 1 .. Len(a) /\ s[i] = a[i]
                               ELSE i - m \in 1 .. Len(b) /\ s[i] = b[i - m]
    BY <1>1, <1>2, JoinedAt
  <1>4. Range(a) = {a[i] : i \in 1 .. Len(a)} /\ Range(b) = {b[i] : i \in 1 .. Len(b)}
    BY RangeOf
  <1>5. ASSUME NEW i \in 1 .. Len(s), NEW j \in 1 .. Len(s), i < j
        PROVE  Before(s[i], s[j])
    <2>1. CASE i <= m /\ j <= m
      BY <1>3, <1>5, <2>1 DEF Ordered
    <2>2. CASE ~(i <= m) /\ ~(j <= m)
      <3>1. i - m \in 1 .. Len(b) /\ j - m \in 1 .. Len(b) /\ s[i] = b[i - m] /\ s[j] = b[j - m]
        BY <1>3, <2>2
      <3>2. i - m < j - m
        BY <1>2, <1>5
      <3> QED
        BY <3>1, <3>2 DEF Ordered
    <2>3. CASE i <= m /\ ~(j <= m)
      <3>1. s[i] \in Range(a) /\ s[j] \in Range(b)
        BY <1>3, <1>4, <2>3
      <3> QED
        BY <3>1 DEF AllBefore
    <2>4. CASE ~(i <= m) /\ j <= m
      BY <1>2, <1>5, <2>4
    <2> QED
      BY <2>1, <2>2, <2>3, <2>4
  <1> QED
    BY <1>1, <1>5 DEF Ordered

LEMMA OneCommand ==
  ASSUME NEW q \in Seq(Commands), NEW o \in Commands
  PROVE  /\ Append(q, o) = q \o <<o>> /\ <<o>> \in Seq(Commands) /\ Range(<<o>>) = {o}
         /\ Distinct(<<o>>) /\ Ordered(<<o>>)
  <1>1. Append(q, o) = q \o <<o>>
    BY AppendIsConcat
  <1>2. PICK s : s = <<o>>
    OBVIOUS
  <1>3. s \in Seq(Commands) /\ Len(s) = 1 /\ s[1] = o
    BY <1>2
  <1>4. Range(s) = {s[i] : i \in 1 .. 1}
    BY <1>3, RangeOf
  <1>5. Range(s) = {o} /\ Distinct(s) /\ Ordered(s)
    BY <1>3, <1>4 DEF Distinct, Ordered
  <1> QED
    BY <1>1, <1>2, <1>3, <1>5

--------------------------------------------------------------------------------
(* The commands of a channel. *)

\* Of the commands of channel c, len so far, those up to u were sent, and the
\* others wait in A; B is in transit.
Splits(A, B, c, len, u) ==
  /\ u \in 0 .. len
  /\ \A o \in A : o.ch = c /\ o.attempts = 0 => o.n \in u + 1 .. len
  /\ \A n \in u + 1 .. len : \E o \in A : o.ch = c /\ o.attempts = 0 /\ o.n = n
  /\ \A o \in A \cup B : o.ch = c /\ o.attempts = 1 => o.n <= u

UpTo(list, c, len) == len - Cardinality(Unsent(list, c))

\* The number the code has come to, which is counted by what is not sent yet.
LEMMA UpToIs ==
  ASSUME NEW q \in Seq(Commands), Distinct(q), NEW B, NEW c, NEW len \in Nat, NEW u,
         Splits(Range(q), B, c, len, u)
  PROVE  UpTo(q, c, len) = u
  <1>1. u \in Nat /\ u <= len
    BY DEF Splits
  <1>2. PICK S \in SUBSET DOMAIN q : S = Unsent(q, c)
    BY DEF Unsent
  <1>3. Range(q) = {q[i] : i \in 1 .. Len(q)} /\ DOMAIN q = 1 .. Len(q)
    BY RangeOf
  <1>4. \A i \in S : i \in 1 .. Len(q) /\ q[i] \in Range(q) /\ q[i].ch = c /\ q[i].attempts = 0
    BY <1>2, <1>3 DEF Unsent
  <1>5. PICK f : f = [i \in S |-> q[i].n]
    OBVIOUS
  <1>6. f \in [S -> u + 1 .. len]
    <2>1. \A i \in S : q[i].n \in u + 1 .. len
      BY <1>4 DEF Splits
    <2> QED
      BY <1>5, <2>1
  <1>7. \A i, j \in S : f[i] = f[j] => i = j
    <2>1. TAKE i, j \in S
    <2>2. f[i] = f[j] => Same(q[i], q[j])
      BY <1>4, <1>5 DEF Same
    <2> QED
      BY <1>4, <2>2 DEF Distinct
  <1>8. \A n \in u + 1 .. len : \E i \in S : f[i] = n
    <2>1. TAKE n \in u + 1 .. len
    <2>2. PICK o \in Range(q) : o.ch = c /\ o.attempts = 0 /\ o.n = n
      BY DEF Splits
    <2>3. PICK i \in 1 .. Len(q) : q[i] = o
      BY <1>3
    <2>4. i \in S
      BY <1>2, <1>3, <2>2, <2>3 DEF Unsent
    <2> QED
      BY <1>5, <2>2, <2>3, <2>4
  <1>9. IsFiniteSet(S) /\ Cardinality(S) \in Nat
    BY PositionsFinite
  <1>10. Cardinality(S) = Cardinality(u + 1 .. len)
    BY <1>6, <1>7, <1>8, <1>9, SameSize
  <1>11. Cardinality(u + 1 .. len) = len - u
    <2>1. u + 1 \in Int /\ len \in Int
      BY <1>1
    <2>2. Cardinality(u + 1 .. len) = IF u + 1 > len THEN 0 ELSE len - (u + 1) + 1
      BY <2>1, FS_Interval
    <2> QED
      BY <1>1, <2>2
  <1> QED
    BY <1>1, <1>2, <1>10, <1>11 DEF UpTo

\* The numbers up to u of the commands of channel c in A.
Pending(A, c, u) == {n \in 1 .. u : \E o \in A : o.ch = c /\ o.n = n}
Placed(P, w) == {n \in P : TrueWindow(n) % Windows = w}

\* A channel's reliableWindows and usedReliableWindows, win and use, count the
\* unacknowledged commands P, none of which is too far behind u.
Fits(win, use, P, u) ==
  /\ win \in [WindowIds -> Nat] /\ use \subseteq WindowIds
  /\ \A n \in P : TrueWindow(u) <= TrueWindow(n) + FreeWindows
  /\ \A w \in WindowIds : win[w] = Cardinality(Placed(P, w)) /\ (w \in use <=> win[w] > 0)

LEMMA PlacedFinite ==
  ASSUME NEW u \in Nat, NEW P \in SUBSET (1 .. u), NEW w
  PROVE  IsFiniteSet(Placed(P, w)) /\ Cardinality(Placed(P, w)) \in Nat
  <1>1. IsFiniteSet(1 .. u)
    BY FS_Interval
  <1>2. Placed(P, w) \in SUBSET (1 .. u)
    BY DEF Placed
  <1>3. IsFiniteSet(Placed(P, w))
    BY <1>1, <1>2, FS_Subset
  <1> QED
    BY <1>3, FS_CardinalityType

LEMMA UsedByPending ==
  ASSUME NEW u \in Nat, NEW P \in SUBSET (1 .. u), NEW win, NEW use, Fits(win, use, P, u),
         NEW n \in P
  PROVE  /\ TrueWindow(n) % Windows \in WindowIds
         /\ TrueWindow(n) % Windows \in use /\ win[TrueWindow(n) % Windows] > 0
  <1>1. PICK w \in WindowIds : w = TrueWindow(n) % Windows
    BY WireWindow
  <1>2. n \in Placed(P, w)
    BY <1>1 DEF Placed
  <1>3. Cardinality(Placed(P, w)) # 0
    BY <1>2, PlacedFinite, FS_EmptySet
  <1>4. Cardinality(Placed(P, w)) \in Nat
    BY PlacedFinite
  <1>5. win[w] = Cardinality(Placed(P, w)) /\ (w \in use <=> win[w] > 0)
    BY DEF Fits
  <1> QED
    BY <1>1, <1>3, <1>4, <1>5

\* The next command enters a window, at the head of it only after the free
\* windows from there on are unused.
LEMMA FitsMore ==
  ASSUME NEW u \in Nat, NEW P \in SUBSET (1 .. u), NEW win, NEW use, Fits(win, use, P, u),
         NEW n \in Nat, n = u + 1, NEW w \in WindowIds, w = TrueWindow(n) % Windows,
         n % WindowSize = 0 => use \cap {(w + i) % Windows : i \in 0 .. FreeWindows - 1} = {}
  PROVE  Fits([win EXCEPT ![w] = @ + 1], use \cup {w}, P \cup {n}, n)
  <1>1. win \in [WindowIds -> Nat] /\ use \subseteq WindowIds
    BY DEF Fits
  <1>2. ASSUME NEW m \in P
        PROVE  TrueWindow(n) <= TrueWindow(m) + FreeWindows
    <2>1. PICK v \in Nat : v = TrueWindow(m)
      BY WireWindow
    <2>2. PICK x \in Nat : x = TrueWindow(u)
      BY WireWindow
    <2>3. PICK y \in Nat : y = TrueWindow(n)
      BY WireWindow
    <2>4. x <= v + FreeWindows
      BY <2>1, <2>2 DEF Fits
    <2>5. CASE n % WindowSize # 0
      <3>1. y = x
        BY <2>2, <2>3, <2>5, NextWindow
      <3> QED
        BY <2>1, <2>3, <2>4, <3>1
    <2>6. CASE n % WindowSize = 0
      <3>1. y = x + 1
        BY <2>2, <2>3, <2>6, NextWindow
      <3>2. ASSUME y = v + FreeWindows + 1
            PROVE  FALSE
        <4>1. v % Windows = ((y % Windows) + (FreeWindows - 1)) % Windows
          BY <3>2, PlaceAhead
        <4>2. v % Windows = (w + (FreeWindows - 1)) % Windows
          BY <2>3, <4>1
        <4>3. FreeWindows - 1 \in 0 .. FreeWindows - 1
          BY Sizes
        <4>4. v % Windows \in use
          BY <2>1, UsedByPending
        <4> QED
          BY <2>6, <4>2, <4>3, <4>4
      <3> QED
        BY <2>1, <2>3, <2>4, <3>1, <3>2, Sizes
    <2> QED
      BY <2>5, <2>6
  <1>3. TrueWindow(n) <= TrueWindow(n) + FreeWindows
    <2>1. PICK y \in Nat : y = TrueWindow(n)
      BY WireWindow
    <2> QED
      BY <2>1, Sizes
  <1>4. n \notin P
    OBVIOUS
  <1>5. ASSUME NEW x \in WindowIds
        PROVE  /\ [win EXCEPT ![w] = @ + 1][x] = Cardinality(Placed(P \cup {n}, x))
               /\ x \in use \cup {w} <=> [win EXCEPT ![w] = @ + 1][x] > 0
    <2>1. /\ win[x] = Cardinality(Placed(P, x)) /\ (x \in use <=> win[x] > 0)
          /\ win[x] \in Nat
      BY <1>1 DEF Fits
    <2>2. CASE x = w
      <3>1. Placed(P \cup {n}, x) = Placed(P, x) \cup {n}
        BY <2>2 DEF Placed
      <3>2. n \notin Placed(P, x)
        BY <1>4 DEF Placed
      <3>3. IsFiniteSet(Placed(P, x))
        BY PlacedFinite
      <3>4. Cardinality(Placed(P \cup {n}, x)) = win[x] + 1
        <4>1. Cardinality(Placed(P, x) \cup {n})
                = IF n \in Placed(P, x) THEN Cardinality(Placed(P, x)) ELSE Cardinality(Placed(P, x)) + 1
          BY <3>3, FS_AddElement
        <4> QED
          BY <2>1, <3>1, <3>2, <4>1
      <3>5. [win EXCEPT ![w] = @ + 1][x] = win[x] + 1
        BY <1>1, <2>2
      <3> QED
        BY <2>1, <2>2, <3>4, <3>5
    <2>3. CASE x # w
      <3>1. Placed(P \cup {n}, x) = Placed(P, x)
        BY <2>3 DEF Placed
      <3>2. [win EXCEPT ![w] = @ + 1][x] = win[x]
        BY <1>1, <2>3
      <3> QED
        BY <2>1, <2>3, <3>1, <3>2
    <2> QED
      BY <2>2, <2>3
  <1>6. [win EXCEPT ![w] = @ + 1] \in [WindowIds -> Nat] /\ use \cup {w} \subseteq WindowIds
    <2>1. win[w] + 1 \in Nat
      BY <1>1
    <2> QED
      BY <1>1, <2>1
  <1>7. \A m \in P \cup {n} : TrueWindow(n) <= TrueWindow(m) + FreeWindows
    BY <1>2, <1>3
  <1> QED
    BY <1>5, <1>6, <1>7 DEF Fits

\* A command leaves its window.
LEMMA FitsLess ==
  ASSUME NEW u \in Nat, NEW P \in SUBSET (1 .. u), NEW win, NEW use, Fits(win, use, P, u),
         NEW n \in P, NEW w \in WindowIds, w = TrueWindow(n) % Windows,
         NEW left, left = IF win[w] = 1 THEN use \ {w} ELSE use
  PROVE  win[w] > 0 /\ Fits([win EXCEPT ![w] = @ - 1], left, P \ {n}, u)
  <1>1. win \in [WindowIds -> Nat] /\ use \subseteq WindowIds
    BY DEF Fits
  <1>2. win[w] > 0
    BY UsedByPending
  <1>3. ASSUME NEW x \in WindowIds
        PROVE  /\ [win EXCEPT ![w] = @ - 1][x] = Cardinality(Placed(P \ {n}, x))
               /\ x \in left <=> [win EXCEPT ![w] = @ - 1][x] > 0
    <2>1. /\ win[x] = Cardinality(Placed(P, x)) /\ (x \in use <=> win[x] > 0)
          /\ win[x] \in Nat
      BY <1>1 DEF Fits
    <2>2. CASE x = w
      <3>1. Placed(P \ {n}, x) = Placed(P, x) \ {n}
        BY DEF Placed
      <3>2. n \in Placed(P, x)
        BY <2>2 DEF Placed
      <3>3. IsFiniteSet(Placed(P, x))
        BY PlacedFinite
      <3>4. Cardinality(Placed(P \ {n}, x)) = win[x] - 1
        BY <2>1, <3>1, <3>2, <3>3, FS_RemoveElement
      <3>5. [win EXCEPT ![w] = @ - 1][x] = win[x] - 1
        BY <1>1, <2>2
      <3>6. x \in left <=> x \in use /\ win[x] # 1
        BY <2>2
      <3> QED
        BY <1>2, <2>1, <2>2, <3>4, <3>5, <3>6
    <2>3. CASE x # w
      <3>1. Placed(P \ {n}, x) = Placed(P, x)
        BY <2>3 DEF Placed
      <3>2. [win EXCEPT ![w] = @ - 1][x] = win[x]
        BY <1>1, <2>3
      <3>3. x \in left <=> x \in use
        BY <2>3
      <3> QED
        BY <2>1, <3>1, <3>2, <3>3
    <2> QED
      BY <2>2, <2>3
  <1>4. [win EXCEPT ![w] = @ - 1] \in [WindowIds -> Nat]
    BY <1>1, <1>2
  <1>5. left \subseteq WindowIds
    BY <1>1
  <1>6. \A m \in P \ {n} : TrueWindow(u) <= TrueWindow(m) + FreeWindows
    BY DEF Fits
  <1> QED
    BY <1>2, <1>3, <1>4, <1>5, <1>6 DEF Fits

\* No window has more commands than it has numbers.
LEMMA FitsBound ==
  ASSUME NEW u \in Nat, NEW P \in SUBSET (1 .. u), NEW win, NEW use, Fits(win, use, P, u),
         NEW w \in WindowIds
  PROVE  win[w] \in 0 .. WindowSize
  <1>1. win[w] = Cardinality(Placed(P, w)) /\ win[w] \in Nat
    BY DEF Fits
  <1>2. CASE Placed(P, w) = {}
    BY <1>1, <1>2, FS_EmptySet, Sizes
  <1>3. CASE Placed(P, w) # {}
    <2>1. PICK k \in Placed(P, w) : TRUE
      BY <1>3
    <2>2. PICK x \in Nat : x = TrueWindow(u)
      BY WireWindow
    <2>3. \A n \in P : TrueWindow(n) \in Nat /\ TrueWindow(n) <= x /\ x <= TrueWindow(n) + FreeWindows
      <3>1. TAKE n \in P
      <3>2. n \in Nat /\ n <= u
        OBVIOUS
      <3>3. TrueWindow(n) \in Nat
        BY <3>2, WireWindow
      <3>4. n \div WindowSize <= u \div WindowSize
        BY <3>2, Sizes
      <3>5. x <= TrueWindow(n) + FreeWindows
        BY <2>2 DEF Fits
      <3> QED
        BY <2>2, <3>3, <3>4, <3>5 DEF TrueWindow
    <2>4. PICK v \in Nat : v = TrueWindow(k)
      BY <2>1, <2>3 DEF Placed
    <2>5. ASSUME NEW n \in Placed(P, w)
          PROVE  TrueWindow(n) = v
      <3>1. n \in P /\ k \in P /\ TrueWindow(n) % Windows = TrueWindow(k) % Windows
        BY <2>1, <2>5 DEF Placed
      <3>2. PICK y \in Nat : y = TrueWindow(n)
        BY <2>3, <3>1
      <3>3. v <= x /\ x <= v + FreeWindows /\ y <= x /\ x <= y + FreeWindows
        BY <2>3, <2>4, <3>1, <3>2
      <3>4. y % Windows = v % Windows
        BY <2>4, <3>1, <3>2
      <3>5. CASE v <= y
        <4>1. y <= v + FreeWindows
          BY <3>3, Sizes
        <4>2. v = y
          BY <3>4, <3>5, <4>1, SamePlace
        <4> QED
          BY <3>2, <4>2
      <3>6. CASE y <= v
        <4>1. v <= y + FreeWindows
          BY <3>3, Sizes
        <4>2. y = v
          BY <3>4, <3>6, <4>1, SamePlace
        <4> QED
          BY <3>2, <4>2
      <3> QED
        BY <3>5, <3>6
    <2>6. PICK a \in Nat : a = v * WindowSize
      BY Sizes
    <2>7. PICK b \in Int : b = a + WindowSize - 1
      BY Sizes
    <2>8. Placed(P, w) \in SUBSET (a .. b)
      <3>1. SUFFICES ASSUME NEW n \in Placed(P, w)
                     PROVE  n \in a .. b
        OBVIOUS
      <3>2. n \in Nat
        BY DEF Placed
      <3>3. n = v * WindowSize + (n % WindowSize) /\ n % WindowSize \in 0 .. WindowSize - 1
        BY <2>5, <3>2, Sizes, Quotient DEF TrueWindow
      <3> QED
        BY <2>6, <2>7, <3>2, <3>3, Sizes
    <2>9. IsFiniteSet(a .. b) /\ Cardinality(a .. b) = WindowSize
      <3>1. IsFiniteSet(a .. b) /\ Cardinality(a .. b) = IF a > b THEN 0 ELSE b - a + 1
        BY FS_Interval
      <3> QED
        BY <2>7, <3>1, Sizes
    <2>10. Cardinality(Placed(P, w)) <= WindowSize
      BY <2>8, <2>9, FS_Subset
    <2> QED
      BY <1>1, <2>10, Sizes
  <1> QED
    BY <1>2, <1>3

Unique(E) == \A o, p \in E : Same(o, p) => o = p

LEMMA UniqueRange ==
  ASSUME NEW a \in Seq(Commands), NEW b \in Seq(Commands), Distinct(a), Distinct(b),
         SetsApart(Range(a), Range(b))
  PROVE  Unique(Range(a) \cup Range(b))
  <1>1. Range(a) = {a[i] : i \in 1 .. Len(a)} /\ Range(b) = {b[i] : i \in 1 .. Len(b)}
    BY RangeOf
  <1>2. \A o, p \in Range(a) : Same(o, p) => o = p
    BY <1>1 DEF Distinct
  <1>3. \A o, p \in Range(b) : Same(o, p) => o = p
    BY <1>1 DEF Distinct
  <1>4. \A o \in Range(a) : \A p \in Range(b) : ~Same(o, p) /\ ~Same(p, o)
    BY DEF SetsApart, Same
  <1> QED
    BY <1>2, <1>3, <1>4 DEF Unique

\* New commands come after the others.
NewCommands(c, len, size) == {Outgoing(c, len + i) : i \in 1 .. size}

LEMMA NewCommandsAre ==
  ASSUME NEW c \in AllChannels, NEW len \in Nat, NEW size \in Nat
  PROVE  /\ NewCommands(c, len, size) \subseteq Commands
         /\ \A o \in NewCommands(c, len, size) :
              o.ch = c /\ o.attempts = 0 /\ o.n \in len + 1 .. len + size
  <1>1. SUFFICES ASSUME NEW i \in 1 .. size, NEW o, o = Outgoing(c, len + i)
                 PROVE  /\ o \in Commands
                        /\ o.ch = c /\ o.attempts = 0 /\ o.n \in len + 1 .. len + size
    BY DEF NewCommands
  <1>2. o = [ch |-> c, n |-> len + i, attempts |-> 0] /\ len + i \in Nat \ {0}
    BY <1>1 DEF Outgoing
  <1> QED
    BY <1>2 DEF Commands

Queued(A, B, N, c, len, u) ==
  /\ Splits(A \cup N, B, c, len, u)
  /\ Pending(A \cup N \cup B, c, u) = Pending(A \cup B, c, u)

LEMMA SplitsQueue ==
  ASSUME NEW A \in SUBSET Commands, NEW B, NEW c \in AllChannels,
         NEW len \in Nat, NEW u, Splits(A, B, c, len, u), NEW size \in Nat,
         NEW N, N = NewCommands(c, len, size)
  PROVE  Queued(A, B, N, c, len + size, u) /\ SetsApart(A, N) /\ AllBefore(A, N)
  <1>1. u \in Nat /\ u <= len
    BY DEF Splits
  <1>2. \A o \in N : o.ch = c /\ o.attempts = 0 /\ o.n \in len + 1 .. len + size
    BY NewCommandsAre
  <1>3. \A n \in len + 1 .. len + size : \E o \in N : o.ch = c /\ o.attempts = 0 /\ o.n = n
    <2>1. TAKE n \in len + 1 .. len + size
    <2>2. n - len \in 1 .. size /\ len + (n - len) = n
      BY <2>1
    <2>3. Outgoing(c, n) \in N
      BY <2>2 DEF NewCommands
    <2> QED
      BY <2>3 DEF Outgoing
  <1>4. \A o \in A : o.ch = c => o.n <= len
    <2>1. TAKE o \in A
    <2>2. o.attempts \in 0 .. 1 /\ o.n \in Nat
      BY DEF Commands
    <2>3. o.ch = c /\ o.attempts = 0 => o.n \in u + 1 .. len
      BY DEF Splits
    <2>4. o.ch = c /\ o.attempts = 1 => o.n <= u
      BY DEF Splits
    <2> QED
      BY <1>1, <2>2, <2>3, <2>4
  <1>5. Splits(A \cup N, B, c, len + size, u)
    <2>1. \A o \in A \cup N : o.ch = c /\ o.attempts = 0 => o.n \in u + 1 .. len + size
      <3>1. \A o \in A : o.ch = c /\ o.attempts = 0 => o.n \in u + 1 .. len
        BY DEF Splits
      <3> QED
        BY <1>1, <1>2, <3>1
    <2>2. \A n \in u + 1 .. len + size : \E o \in A \cup N : o.ch = c /\ o.attempts = 0 /\ o.n = n
      <3>1. TAKE n \in u + 1 .. len + size
      <3>2. CASE n <= len
        <4>1. n \in u + 1 .. len
          BY <1>1, <3>2
        <4> QED
          BY <4>1 DEF Splits
      <3>3. CASE ~(n <= len)
        <4>1. n \in len + 1 .. len + size
          BY <1>1, <3>3
        <4> QED
          BY <1>3, <4>1
      <3> QED
        BY <3>2, <3>3
    <2>3. \A o \in A \cup N \cup B : o.ch = c /\ o.attempts = 1 => o.n <= u
      BY <1>2 DEF Splits
    <2>4. u \in 0 .. len + size
      BY <1>1
    <2> QED
      BY <2>1, <2>2, <2>3, <2>4 DEF Splits
  <1>6. SetsApart(A, N) /\ AllBefore(A, N)
    <2>1. SUFFICES ASSUME NEW o \in A, NEW p \in N
                   PROVE  ~Same(o, p) /\ Before(o, p)
      BY DEF SetsApart, AllBefore
    <2>2. p.n \in len + 1 .. len + size /\ p.attempts = 0 /\ p.ch = c /\ o.n \in Nat
      BY <1>2 DEF Commands
    <2>3. o.ch = c => o.n < p.n
      BY <1>4, <2>2
    <2> QED
      BY <2>2, <2>3 DEF Same, Before
  <1>7. Pending(A \cup N \cup B, c, u) = Pending(A \cup B, c, u)
    <2>1. \A o \in N : ~(o.n \in 1 .. u)
      BY <1>1, <1>2
    <2> QED
      BY <2>1 DEF Pending
  <1> QED
    BY <1>5, <1>6, <1>7 DEF Queued

LEMMA SplitsQueueOther ==
  ASSUME NEW A, NEW B, NEW c, NEW d, c # d, NEW len, NEW u, Splits(A, B, d, len, u),
         NEW N, \A o \in N : o.ch = c
  PROVE  Queued(A, B, N, d, len, u)
  <1>1. u \in 0 .. len
    BY DEF Splits
  <1>2. \A o \in A \cup N : o.ch = d /\ o.attempts = 0 => o.n \in u + 1 .. len
    BY DEF Splits
  <1>3. \A n \in u + 1 .. len : \E o \in A \cup N : o.ch = d /\ o.attempts = 0 /\ o.n = n
    BY DEF Splits
  <1>4. \A o \in A \cup N \cup B : o.ch = d /\ o.attempts = 1 => o.n <= u
    BY DEF Splits
  <1>5. Pending(A \cup N \cup B, d, u) = Pending(A \cup B, d, u)
    BY DEF Pending
  <1> QED
    BY <1>1, <1>2, <1>3, <1>4, <1>5 DEF Splits, Queued

\* A command that was sent is acknowledged.
LEMMA SplitsForget ==
  ASSUME NEW A, NEW B, NEW c, NEW len, NEW u, Splits(A, B, c, len, u),
         NEW o, o.attempts = 1
  PROVE  Splits(A \ {o}, B \ {o}, c, len, u)
  <1>1. u \in 0 .. len
    BY DEF Splits
  <1>2. \A p \in A \ {o} : p.ch = c /\ p.attempts = 0 => p.n \in u + 1 .. len
    BY DEF Splits
  <1>3. \A n \in u + 1 .. len : \E p \in A \ {o} : p.ch = c /\ p.attempts = 0 /\ p.n = n
    <2>1. TAKE n \in u + 1 .. len
    <2>2. PICK p \in A : p.ch = c /\ p.attempts = 0 /\ p.n = n
      BY DEF Splits
    <2> QED
      BY <2>2
  <1>4. \A p \in (A \ {o}) \cup (B \ {o}) : p.ch = c /\ p.attempts = 1 => p.n <= u
    BY DEF Splits
  <1> QED
    BY <1>1, <1>2, <1>3, <1>4 DEF Splits

LessOne(E, o, c, u) == Pending(E \ {o}, c, u) = Pending(E, c, u) \ {o.n}

LEMMA PendingForget ==
  ASSUME NEW E, Unique(E), NEW c, NEW u, NEW o \in E, o.ch = c
  PROVE  LessOne(E, o, c, u)
  <1>1. \A p \in E : p.ch = c /\ p.n = o.n => p = o
    BY DEF Unique, Same
  <1> QED
    BY <1>1 DEF Pending, LessOne

LEMMA PendingOther ==
  ASSUME NEW E, NEW c, NEW u, NEW o, o.ch # c
  PROVE  Pending(E \ {o}, c, u) = Pending(E, c, u)
  BY DEF Pending

\* Commands that timed out, L, go from those in transit to those that wait.
LEMMA SplitsRequeue ==
  ASSUME NEW A, NEW L, NEW R, NEW c, NEW len, NEW u, Splits(A, L \cup R, c, len, u),
         \A o \in L : o.attempts = 1
  PROVE  Splits(L \cup A, R, c, len, u)
  <1>1. u \in 0 .. len
    BY DEF Splits
  <1>2. \A o \in L \cup A : o.ch = c /\ o.attempts = 0 => o.n \in u + 1 .. len
    BY DEF Splits
  <1>3. \A n \in u + 1 .. len : \E o \in L \cup A : o.ch = c /\ o.attempts = 0 /\ o.n = n
    BY DEF Splits
  <1>4. \A o \in (L \cup A) \cup R : o.ch = c /\ o.attempts = 1 => o.n <= u
    BY DEF Splits
  <1> QED
    BY <1>1, <1>2, <1>3, <1>4 DEF Splits

\* A command o is put into a datagram and is p from then on.
LEMMA SplitsPut ==
  ASSUME NEW A \in SUBSET Commands, NEW B \in SUBSET Commands, NEW c, NEW len \in Nat, NEW u,
         Splits(A, B, c, len, u), Unique(A), NEW o \in A,
         NEW p, p.ch = o.ch /\ p.n = o.n /\ p.attempts = 1,
         o.ch = c /\ o.attempts = 0 => o.n = u + 1,
         NEW v, v = IF o.ch = c /\ o.attempts = 0 THEN u + 1 ELSE u
  PROVE  Splits(A \ {o}, B \cup {p}, c, len, v)
  <1>1. u \in 0 .. len /\ u \in Nat
    BY DEF Splits
  <1>2. o.attempts \in 0 .. 1 /\ o.n \in Nat
    BY DEF Commands
  <1>3. v \in 0 .. len /\ v >= u
    <2>1. o.ch = c /\ o.attempts = 0 => o.n \in u + 1 .. len
      BY DEF Splits
    <2> QED
      BY <1>1, <2>1
  <1>4. \A q \in A \ {o} : q.ch = c /\ q.attempts = 0 => q.n \in v + 1 .. len
    <2>1. TAKE q \in A \ {o}
    <2>2. HAVE q.ch = c /\ q.attempts = 0
    <2>3. q.n \in u + 1 .. len
      BY <2>2 DEF Splits
    <2>4. CASE o.ch = c /\ o.attempts = 0
      <3>1. q.n # u + 1
        BY <2>2, <2>4 DEF Unique, Same
      <3> QED
        BY <1>1, <2>3, <2>4, <3>1
    <2>5. CASE ~(o.ch = c /\ o.attempts = 0)
      BY <2>3, <2>5
    <2> QED
      BY <2>4, <2>5
  <1>5. \A n \in v + 1 .. len : \E q \in A \ {o} : q.ch = c /\ q.attempts = 0 /\ q.n = n
    <2>1. TAKE n \in v + 1 .. len
    <2>2. n \in u + 1 .. len
      BY <1>1, <1>3
    <2>3. PICK q \in A : q.ch = c /\ q.attempts = 0 /\ q.n = n
      BY <2>2 DEF Splits
    <2>4. q # o
      <3>1. o.ch = c /\ o.attempts = 0 => o.n # n
        BY <1>1, <1>3
      <3> QED
        BY <2>3, <3>1
    <2> QED
      BY <2>3, <2>4
  <1>6. \A q \in (A \ {o}) \cup (B \cup {p}) : q.ch = c /\ q.attempts = 1 => q.n <= v
    <2>1. \A q \in A \cup B : q.ch = c /\ q.attempts = 1 => q.n <= u
      BY DEF Splits
    <2>2. \A q \in A \cup B : q.ch = c /\ q.attempts = 1 => q.n <= v
      <3>1. \A q \in A \cup B : q.n \in Nat
        BY DEF Commands
      <3>2. \A n \in Nat : n <= u => n <= v
        BY <1>1, <1>3
      <3> QED
        BY <2>1, <3>1, <3>2
    <2>3. p.ch = c => p.n <= v
      <3>1. CASE o.ch = c /\ o.attempts = 0
        BY <1>1, <3>1
      <3>2. CASE o.ch = c /\ o.attempts = 1
        BY <2>2, <3>2
      <3> QED
        BY <1>2, <3>1, <3>2
    <2> QED
      BY <2>2, <2>3
  <1> QED
    BY <1>3, <1>4, <1>5, <1>6 DEF Splits

PutPending(A, B, c, u, o, p, v) ==
  Pending((A \ {o}) \cup (B \cup {p}), c, v)
    = IF o.ch = c /\ o.attempts = 0 THEN Pending(A \cup B, c, u) \cup {u + 1}
      ELSE Pending(A \cup B, c, u)

LEMMA PendingPut ==
  ASSUME NEW A, NEW B, NEW c, NEW u \in Nat, NEW o \in A,
         NEW p, p.ch = o.ch /\ p.n = o.n,
         o.ch = c /\ o.attempts = 0 => o.n = u + 1,
         NEW v, v = IF o.ch = c /\ o.attempts = 0 THEN u + 1 ELSE u
  PROVE  PutPending(A, B, c, u, o, p, v)
  <1>1. PICK E : E = (A \ {o}) \cup (B \cup {p})
    OBVIOUS
  <1>2. ASSUME NEW n
        PROVE  (\E q \in E : q.ch = c /\ q.n = n) <=> (\E q \in A \cup B : q.ch = c /\ q.n = n)
    <2>1. ASSUME NEW q \in A \cup B, q.ch = c, q.n = n
          PROVE  \E x \in E : x.ch = c /\ x.n = n
      <3>1. CASE q = o
        BY <1>1, <2>1, <3>1
      <3>2. CASE q # o
        BY <1>1, <2>1, <3>2
      <3> QED
        BY <3>1, <3>2
    <2>2. ASSUME NEW q \in E, q.ch = c, q.n = n
          PROVE  \E x \in A \cup B : x.ch = c /\ x.n = n
      <3>1. CASE q = p
        BY <1>1, <2>2, <3>1
      <3>2. CASE q # p
        BY <1>1, <2>2, <3>2
      <3> QED
        BY <3>1, <3>2
    <2> QED
      BY <2>1, <2>2
  <1>3. Pending(E, c, v) = {n \in 1 .. v : \E q \in A \cup B : q.ch = c /\ q.n = n}
    BY <1>2 DEF Pending
  <1>4. CASE o.ch = c /\ o.attempts = 0
    <2>1. v = u + 1 /\ 1 .. v = (1 .. u) \cup {u + 1}
      BY <1>4
    <2>2. \E q \in A \cup B : q.ch = c /\ q.n = u + 1
      BY <1>4
    <2> QED
      BY <1>1, <1>3, <1>4, <2>1, <2>2 DEF Pending, PutPending
  <1>5. CASE ~(o.ch = c /\ o.attempts = 0)
    BY <1>1, <1>3, <1>5 DEF Pending, PutPending
  <1> QED
    BY <1>4, <1>5

--------------------------------------------------------------------------------
(***************************************************************************)
(* The inductive invariant.  What the lists hold per channel is a split of *)
(* the channel's numbers at SentUpTo: the later ones wait to be sent, each *)
(* once and in order, the earlier ones are acknowledged, in transit or     *)
(* wait to be sent again.  The windows count those of them that are not    *)
(* acknowledged, which lie within FreeWindows of the newest, so that no    *)
(* two of their windows share a place.  In the sending loop the commands   *)
(* before the position were all skipped, which stops every other packet:   *)
(* what is put next is the first of its channel.                           *)
(***************************************************************************)
Logged ==
  [kind : {"control"}]
    \cup [kind : {"reliable", "fragment"}, ch : Channels, pkt : Nat, frag : Nat, count : Nat,
          seq : Nat, useq : Nat]

Types ==
  /\ scenario \in Scenarios
  /\ log \in [AllChannels -> Seq(Logged)]
  /\ outgoing \in Seq(Commands) /\ sent \in Seq(Commands)
  /\ windows \in [Channels -> [WindowIds -> Nat]]
  /\ used \in [Channels -> SUBSET WindowIds]
  /\ loop \in [at : Nat, wrap : BOOLEAN, exceeded : BOOLEAN]
  /\ loop.at <= Len(outgoing) + 1

Lists ==
  /\ Distinct(outgoing) /\ Distinct(sent) /\ SetsApart(Range(sent), Range(outgoing))
  /\ Ordered(outgoing)
  /\ \A o \in Range(sent) : o.attempts = 1

Transit ==
  /\ inTransit = Cardinality(WithPacket(sent))
  /\ inTransit <= scenario.budget

Numbering ==
  \A c \in AllChannels : Splits(Range(outgoing), Range(sent), c, Len(log[c]), SentUpTo(c))

Windowing ==
  \A c \in Channels :
    Fits(windows[c], used[c], Pending(Range(outgoing) \cup Range(sent), c, SentUpTo(c)), SentUpTo(c))

Looping ==
  loop.at # 0 =>
    /\ loop.at = 1 \/ loop.wrap \/ loop.exceeded
    /\ \A i \in 1 .. Len(outgoing) : i < loop.at => outgoing[i].ch # Control

IInv == Types /\ Lists /\ Transit /\ Numbering /\ Windowing /\ Looping

LEMMA ScenarioIs ==
  ASSUME Types
  PROVE  /\ scenario.sizes \subseteq Nat \ {0} /\ scenario.budget \in Nat \ {0}
         /\ Control \notin Channels
  BY ReliableAssumption DEF Types

LEMMA Lengths ==
  ASSUME Types
  PROVE  /\ \A c \in AllChannels : Len(log[c]) \in Nat
         /\ Len(outgoing) \in Nat /\ Len(sent) \in Nat
         /\ DOMAIN outgoing = 1 .. Len(outgoing) /\ DOMAIN sent = 1 .. Len(sent)
  <1>1. \A c \in AllChannels : log[c] \in Seq(Logged)
    BY DEF Types
  <1>2. \A c \in AllChannels : Len(log[c]) \in Nat
    BY <1>1
  <1>3. outgoing \in Seq(Commands) /\ sent \in Seq(Commands)
    BY DEF Types
  <1> QED
    BY <1>2, <1>3

LEMMA SentIs ==
  ASSUME IInv, NEW c \in AllChannels
  PROVE  SentUpTo(c) \in Nat /\ SentUpTo(c) <= Len(log[c])
  <1>1. SentUpTo(c) \in 0 .. Len(log[c])
    BY DEF IInv, Numbering, Splits
  <1>2. Len(log[c]) \in Nat
    BY Lengths DEF IInv
  <1> QED
    BY <1>1, <1>2

LEMMA InitHolds == Init => IInv
  <1> SUFFICES ASSUME Init
               PROVE  IInv
    OBVIOUS
  <1>1. <<>> \in Seq(Commands) /\ <<>> \in Seq(Logged) /\ Len(<<>>) = 0
    OBVIOUS
  <1>2. PICK e : e = <<>>
    OBVIOUS
  <1>3. outgoing = e /\ sent = e /\ e \in Seq(Commands) /\ Len(e) = 0
    BY <1>1, <1>2 DEF Init
  <1>4. Range(e) = {}
    <2>1. Range(e) = {e[i] : i \in 1 .. 0}
      BY <1>3, RangeOf
    <2>2. 1 .. 0 = {}
      OBVIOUS
    <2> QED
      BY <2>1, <2>2
  <1>5. WithPacket(e) = {} /\ \A c : Unsent(e, c) = {}
    BY <1>3 DEF WithPacket, Unsent
  <1>6. Cardinality({}) = 0
    BY FS_EmptySet
  <1>7. Types
    <2>1. loop = [at |-> 0, wrap |-> FALSE, exceeded |-> FALSE]
      BY DEF Init, NoLoop
    <2>2. loop \in [at : Nat, wrap : BOOLEAN, exceeded : BOOLEAN] /\ loop.at <= Len(outgoing) + 1
      BY <1>3, <2>1
    <2>3. log \in [AllChannels -> Seq(Logged)]
      BY <1>1 DEF Init
    <2>4. windows \in [Channels -> [WindowIds -> Nat]] /\ used \in [Channels -> SUBSET WindowIds]
      BY DEF Init
    <2>5. scenario \in Scenarios
      BY DEF Init
    <2> QED
      BY <1>3, <2>2, <2>3, <2>4, <2>5 DEF Types
  <1>8. Lists
    BY <1>3, <1>4 DEF Lists, Distinct, Ordered, SetsApart
  <1>9. Transit
    <2>1. inTransit = 0
      BY DEF Init
    <2>2. 0 <= scenario.budget
      BY <1>7, ScenarioIs
    <2> QED
      BY <1>3, <1>5, <1>6, <2>1, <2>2 DEF Transit
  <1>10. \A c \in AllChannels : Len(log[c]) = 0 /\ SentUpTo(c) = 0
    <2>1. TAKE c \in AllChannels
    <2>2. Len(log[c]) = 0
      BY <1>1 DEF Init
    <2>3. SentUpTo(c) = 0 - 0
      BY <1>3, <1>5, <1>6, <2>2 DEF SentUpTo
    <2> QED
      BY <2>2, <2>3
  <1>11. Numbering
    <2>1. \A c \in AllChannels : Splits({}, {}, c, 0, 0)
      BY DEF Splits
    <2> QED
      BY <1>3, <1>4, <1>10, <2>1 DEF Numbering
  <1>12. Windowing
    <2>1. SUFFICES ASSUME NEW c \in Channels
                   PROVE  Fits(windows[c], used[c], Pending({}, c, 0), 0)
      BY <1>3, <1>4, <1>10 DEF Windowing, AllChannels
    <2>2. Pending({}, c, 0) = {} /\ \A w : Placed({}, w) = {}
      BY DEF Pending, Placed
    <2>3. windows[c] = [w \in WindowIds |-> 0] /\ used[c] = {}
      BY DEF Init
    <2> QED
      BY <1>6, <2>2, <2>3 DEF Fits
  <1>13. Looping
    BY DEF Init, NoLoop, Looping
  <1> QED
    BY <1>7, <1>8, <1>9, <1>11, <1>12, <1>13 DEF IInv

\* What a step does to the sender's end of a channel: nothing, or commands with
\* the number seq of channel d may be forgotten, or the next one is sent for the
\* first time.
Pend(c) == Pending(Range(outgoing) \cup Range(sent), c, SentUpTo(c))
SameSent(c) == SentUpTo(c)' = SentUpTo(c) /\ Pend(c)' = Pend(c)
Forgetful(c, d, seq) ==
  /\ SentUpTo(c)' = SentUpTo(c)
  /\ \A n \in Pend(c) : n \in Pend(c)' \/ (c = d /\ n % Numbers = seq)
NetGrows ==
  \A x \in net' : x \in net \/ (x[1] \in Channels => x[2] \in 1 .. SentUpTo(x[1])')
OneMore(c) ==
  /\ SentUpTo(c)' = SentUpTo(c) + 1 /\ Pend(c)' = Pend(c) \cup {SentUpTo(c) + 1}
  /\ (SentUpTo(c) + 1) % WindowSize = 0 =>
       ~(windows[c][((TrueWindow(SentUpTo(c) + 1) % Windows) + Windows - 1) % Windows] >= WindowSize)

AllSame == \A c \in Channels : SameSent(c)

\* Steps that leave the sender's lists alone.
LEMMA QuietKeeps ==
  ASSUME IInv, UNCHANGED <<log, outgoing, sent, windows, used, inTransit, scenario>>,
         loop' \in [at : Nat, wrap : BOOLEAN, exceeded : BOOLEAN],
         loop'.at <= Len(outgoing) + 1, Looping'
  PROVE  IInv' /\ AllSame
  <1>1. Types'
    BY DEF IInv, Types
  <1>2. Lists' /\ Transit'
    BY DEF IInv, Lists, Transit
  <1>3. \A c : SentUpTo(c)' = SentUpTo(c)
    BY DEF SentUpTo
  <1>4. Numbering'
    BY <1>3 DEF IInv, Numbering
  <1>5. Windowing'
    BY <1>3 DEF IInv, Windowing
  <1>6. AllSame
    BY <1>3 DEF AllSame, SameSent, Pend
  <1> QED
    BY <1>1, <1>2, <1>4, <1>5, <1>6 DEF IInv

LEMMA IdleKeeps ==
  ASSUME IInv, UNCHANGED <<log, outgoing, sent, windows, used, inTransit, loop, scenario>>
  PROVE  IInv' /\ AllSame
  <1>1. /\ loop' \in [at : Nat, wrap : BOOLEAN, exceeded : BOOLEAN]
        /\ loop'.at <= Len(outgoing) + 1 /\ Looping'
    BY DEF IInv, Types, Looping
  <1> QED
    BY <1>1, QuietKeeps

LEMMA BeginSendKeeps ==
  ASSUME IInv, BeginSend
  PROVE  IInv' /\ AllSame
  <1>1. loop' = [at |-> 1, wrap |-> FALSE, exceeded |-> FALSE]
    BY DEF BeginSend, NoLoop
  <1>2. Looping'
    BY <1>1 DEF Looping, BeginSend
  <1>3. Len(outgoing) \in Nat
    BY Lengths DEF IInv
  <1>4. loop' \in [at : Nat, wrap : BOOLEAN, exceeded : BOOLEAN] /\ loop'.at <= Len(outgoing) + 1
    BY <1>1, <1>3
  <1>5. UNCHANGED <<log, outgoing, sent, windows, used, inTransit, scenario>>
    BY DEF BeginSend
  <1> QED
    BY <1>2, <1>4, <1>5, QuietKeeps

LEMMA EndSendKeeps ==
  ASSUME IInv, EndSend
  PROVE  IInv' /\ AllSame
  <1>1. loop' = [at |-> 0, wrap |-> FALSE, exceeded |-> FALSE]
    BY DEF EndSend, NoLoop
  <1>2. Looping'
    BY <1>1 DEF Looping, EndSend
  <1>3. Len(outgoing) \in Nat
    BY Lengths DEF IInv
  <1>4. loop' \in [at : Nat, wrap : BOOLEAN, exceeded : BOOLEAN] /\ loop'.at <= Len(outgoing) + 1
    BY <1>1, <1>3
  <1>5. UNCHANGED <<log, outgoing, sent, windows, used, inTransit, scenario>>
    BY DEF EndSend
  <1> QED
    BY <1>2, <1>4, <1>5, QuietKeeps

LEMMA SkipCommandKeeps ==
  ASSUME IInv, SkipCommand
  PROVE  IInv' /\ AllSame
  <1>1. PICK p \in Nat : p = loop.at
    BY DEF IInv, Types
  <1>2. PICK o : o = outgoing[p]
    OBVIOUS
  <1>3. p \in 1 .. Len(outgoing)
    BY <1>1, Lengths DEF IInv, SkipCommand
  <1>4. /\ o.ch # Control /\ (Wrap(o) \/ Exceeded(o))
        /\ loop' = [at |-> p + 1, wrap |-> Wrap(o),
                    exceeded |-> loop.exceeded \/ (~Wrap(o) /\ Exceeded(o))]
    BY <1>1, <1>2 DEF SkipCommand, Skipped
  <1>5. Wrap(o) \in BOOLEAN /\ Exceeded(o) \in BOOLEAN
    BY DEF Wrap, Exceeded
  <1>6. Len(outgoing) \in Nat
    BY Lengths DEF IInv
  <1>7. loop'.at = p + 1 /\ (loop'.wrap \/ loop'.exceeded)
    BY <1>4
  <1>8. \A i \in 1 .. Len(outgoing) : i < p + 1 => outgoing[i].ch # Control
    <2>1. TAKE i \in 1 .. Len(outgoing)
    <2>2. i < p => outgoing[i].ch # Control
      BY <1>1, <1>3 DEF IInv, Looping
    <2> QED
      BY <1>1, <1>2, <1>4, <2>2
  <1>9. Looping'
    BY <1>7, <1>8 DEF Looping, SkipCommand
  <1>10. loop' \in [at : Nat, wrap : BOOLEAN, exceeded : BOOLEAN]
    <2>1. loop.exceeded \/ (~Wrap(o) /\ Exceeded(o)) \in BOOLEAN
      OBVIOUS
    <2> QED
      BY <1>4, <1>5, <2>1
  <1>11. loop'.at <= Len(outgoing) + 1
    BY <1>3, <1>6, <1>7
  <1> QED
    BY <1>9, <1>10, <1>11, QuietKeeps DEF SkipCommand

\* The invariant after a step, with the numbers v that were sent then.
LEMMA StepKeeps ==
  ASSUME Types', Lists', Transit', Looping', NEW v,
         \A c \in AllChannels : Splits(Range(outgoing'), Range(sent'), c, Len(log'[c]), v[c]),
         \A c \in Channels :
           Fits(windows'[c], used'[c], Pending(Range(outgoing') \cup Range(sent'), c, v[c]), v[c])
  PROVE  IInv' /\ \A c \in AllChannels : SentUpTo(c)' = v[c]
  <1>1. outgoing' \in Seq(Commands) /\ Distinct(outgoing')
    BY DEF Types, Lists
  <1>2. ASSUME NEW c \in AllChannels
        PROVE  SentUpTo(c)' = v[c]
    <2>1. PICK len \in Nat : len = Len(log'[c])
      <3>1. log'[c] \in Seq(Logged)
        BY DEF Types
      <3> QED
        BY <3>1
    <2>2. Splits(Range(outgoing'), Range(sent'), c, len, v[c])
      BY <2>1
    <2>3. UpTo(outgoing', c, len) = v[c]
      BY <1>1, <2>2, UpToIs
    <2> QED
      BY <2>1, <2>3 DEF SentUpTo, UpTo
  <1>3. Numbering'
    BY <1>2 DEF Numbering
  <1>4. Windowing'
    <2>1. \A c \in Channels : SentUpTo(c)' = v[c]
      BY <1>2 DEF AllChannels
    <2> QED
      BY <2>1 DEF Windowing
  <1> QED
    BY <1>2, <1>3, <1>4 DEF IInv

\* What the invariant says of the sets of commands.
OnceEach(A, B) ==
  /\ A \in SUBSET Commands /\ B \in SUBSET Commands
  /\ Unique(A \cup B) /\ SetsApart(B, A) /\ A \cap B = {}
  /\ \A o \in B : o.attempts = 1

LEMMA ListSets == IInv => OnceEach(Range(outgoing), Range(sent))
  <1> SUFFICES ASSUME IInv
               PROVE  OnceEach(Range(outgoing), Range(sent))
    OBVIOUS
  <1>1. outgoing \in Seq(Commands) /\ sent \in Seq(Commands)
    BY DEF IInv, Types
  <1>2. PICK A \in SUBSET Commands : A = Range(outgoing)
    BY <1>1, RangeOf
  <1>3. PICK B \in SUBSET Commands : B = Range(sent)
    BY <1>1, RangeOf
  <1>4. SetsApart(B, A) /\ (\A o \in B : o.attempts = 1) /\ Distinct(outgoing) /\ Distinct(sent)
    BY <1>2, <1>3 DEF IInv, Lists
  <1>5. SetsApart(A, B) /\ A \cap B = {}
    BY <1>4 DEF SetsApart, Same
  <1>6. Unique(A \cup B)
    BY <1>1, <1>2, <1>3, <1>4, <1>5, UniqueRange
  <1> QED
    BY <1>2, <1>3, <1>4, <1>5, <1>6 DEF OnceEach

\* Commands are queued behind the others.
LEMMA QueueKeeps ==
  ASSUME IInv, Outside, NEW c \in AllChannels, NEW size \in Nat,
         NEW new \in Seq(Commands), Distinct(new), Ordered(new),
         Range(new) = NewCommands(c, Len(log[c]), size),
         log' \in [AllChannels -> Seq(Logged)], Len(log'[c]) = Len(log[c]) + size,
         \A d \in AllChannels : d # c => log'[d] = log[d],
         outgoing' = outgoing \o new,
         UNCHANGED <<sent, windows, used, inTransit, loop, scenario>>
  PROVE  IInv' /\ AllSame
  <1>1. PICK A : A = Range(outgoing)
    OBVIOUS
  <1>2. PICK B : B = Range(sent)
    OBVIOUS
  <1>3. /\ A \in SUBSET Commands /\ B \in SUBSET Commands /\ SetsApart(B, A)
        /\ \A o \in B : o.attempts = 1
    BY <1>1, <1>2, ListSets DEF OnceEach
  <1>4. PICK len \in Nat : len = Len(log[c])
    BY Lengths DEF IInv
  <1>5. PICK u \in Nat : u = SentUpTo(c)
    BY SentIs
  <1>6. Splits(A, B, c, len, u)
    BY <1>1, <1>2, <1>4, <1>5 DEF IInv, Numbering
  <1>7. PICK N : N = NewCommands(c, len, size)
    OBVIOUS
  <1>8. Queued(A, B, N, c, len + size, u) /\ SetsApart(A, N) /\ AllBefore(A, N)
    BY <1>3, <1>6, <1>7, SplitsQueue
  <1>9. outgoing \in Seq(Commands) /\ Distinct(outgoing) /\ Ordered(outgoing)
    BY DEF IInv, Types, Lists
  <1>10. outgoing' \in Seq(Commands) /\ Range(outgoing') = A \cup N
    BY <1>1, <1>4, <1>7, <1>9, RangeJoin
  <1>11. Distinct(outgoing')
    BY <1>1, <1>4, <1>7, <1>8, <1>9, DistinctJoin
  <1>12. Ordered(outgoing')
    BY <1>1, <1>4, <1>7, <1>8, <1>9, OrderedJoin
  <1>13. \A o \in N : o.ch = c /\ o.attempts = 0 /\ o.n \in len + 1 .. len + size
    BY <1>7, NewCommandsAre
  <1>14. SetsApart(B, A \cup N)
    <2>1. ASSUME NEW o \in B, NEW p \in N, Same(o, p)
          PROVE  FALSE
      <3>1. o.ch = c /\ o.attempts = 1 /\ o.n = p.n /\ p.n \in len + 1 .. len + size
        BY <1>3, <1>13, <2>1 DEF Same
      <3>2. o.n <= u /\ u <= len
        BY <1>6, <3>1 DEF Splits
      <3> QED
        BY <3>1, <3>2
    <2> QED
      BY <1>3, <2>1 DEF SetsApart
  <1>15. Lists'
    <2>1. Range(outgoing') = A \cup N /\ Range(sent') = B /\ Distinct(sent')
      BY <1>2, <1>10 DEF IInv, Lists
    <2> QED
      BY <1>3, <1>11, <1>12, <1>14, <2>1 DEF Lists
  <1>16. Types'
    <2>1. loop'.at = 0 /\ Len(outgoing') \in Nat
      BY <1>10 DEF Outside
    <2>2. loop'.at <= Len(outgoing') + 1
      BY <2>1
    <2>3. /\ scenario' \in Scenarios /\ sent' \in Seq(Commands)
          /\ windows' \in [Channels -> [WindowIds -> Nat]] /\ used' \in [Channels -> SUBSET WindowIds]
          /\ loop' \in [at : Nat, wrap : BOOLEAN, exceeded : BOOLEAN]
      BY DEF IInv, Types
    <2> QED
      BY <1>10, <2>2, <2>3 DEF Types
  <1>17. Transit'
    BY DEF IInv, Transit
  <1>18. Looping'
    BY DEF Looping, Outside
  <1>19. PICK v : v = [d \in AllChannels |-> SentUpTo(d)]
    OBVIOUS
  <1>20. ASSUME NEW d \in AllChannels
         PROVE  Queued(A, B, N, d, Len(log'[d]), v[d])
    <2>1. CASE d = c
      BY <1>4, <1>5, <1>8, <1>19, <2>1
    <2>2. CASE d # c
      <3>1. Splits(A, B, d, Len(log[d]), v[d])
        BY <1>1, <1>2, <1>19 DEF IInv, Numbering
      <3>2. log'[d] = log[d]
        BY <2>2
      <3>3. \A o \in N : o.ch = c
        BY <1>13
      <3>4. Queued(A, B, N, d, Len(log[d]), v[d])
        BY <2>2, <3>1, <3>3, SplitsQueueOther
      <3> QED
        BY <3>2, <3>4
    <2> QED
      BY <2>1, <2>2
  <1>21. \A d \in AllChannels : Splits(Range(outgoing'), Range(sent'), d, Len(log'[d]), v[d])
    BY <1>2, <1>10, <1>20 DEF Queued
  <1>22. \A d \in Channels :
           Fits(windows'[d], used'[d], Pending(Range(outgoing') \cup Range(sent'), d, v[d]), v[d])
    <2>1. TAKE d \in Channels
    <2>2. d \in AllChannels /\ v[d] = SentUpTo(d)
      BY <1>19 DEF AllChannels
    <2>3. Fits(windows[d], used[d], Pending(A \cup B, d, v[d]), v[d])
      BY <1>1, <1>2, <2>2 DEF IInv, Windowing
    <2> QED
      BY <1>2, <1>10, <1>20, <2>2, <2>3 DEF Queued
  <1>23. IInv' /\ \A d \in AllChannels : SentUpTo(d)' = v[d]
    BY <1>15, <1>16, <1>17, <1>18, <1>21, <1>22, StepKeeps
  <1>24. AllSame
    <2>1. SUFFICES ASSUME NEW d \in Channels
                   PROVE  SameSent(d)
      BY DEF AllSame
    <2>2. d \in AllChannels /\ v[d] = SentUpTo(d)
      BY <1>19 DEF AllChannels
    <2>3. SentUpTo(d)' = SentUpTo(d)
      BY <1>23, <2>2
    <2>4. Pend(d)' = Pend(d)
      BY <1>1, <1>2, <1>10, <1>20, <2>2, <2>3 DEF Pend, Queued
    <2> QED
      BY <2>3, <2>4 DEF SameSent
  <1> QED
    BY <1>23, <1>24

LEMMA NewSequence ==
  ASSUME NEW c \in AllChannels, NEW len \in Nat, NEW size \in Nat,
         NEW new, new = [i \in 1 .. size |-> Outgoing(c, len + i)]
  PROVE  /\ new \in Seq(Commands) /\ Distinct(new) /\ Ordered(new)
         /\ Range(new) = NewCommands(c, len, size)
  <1>1. ASSUME NEW i \in 1 .. size
        PROVE  /\ new[i] \in Commands
               /\ new[i].ch = c /\ new[i].n = len + i /\ new[i].attempts = 0
    <2>1. new[i] = [ch |-> c, n |-> len + i, attempts |-> 0] /\ len + i \in Nat \ {0}
      BY DEF Outgoing
    <2> QED
      BY <2>1 DEF Commands
  <1>2. \A i \in 1 .. size : new[i] \in Commands
    BY <1>1
  <1>3. new \in Seq(Commands) /\ Len(new) = size
    BY <1>2
  <1>4. Distinct(new)
    <2>1. SUFFICES ASSUME NEW i \in 1 .. size, NEW j \in 1 .. size, Same(new[i], new[j])
                   PROVE  i = j
      BY <1>3 DEF Distinct
    <2>2. new[i].n = len + i /\ new[j].n = len + j
      BY <1>1
    <2>3. len + i = len + j
      BY <2>1, <2>2 DEF Same
    <2> QED
      BY <2>3
  <1>5. Ordered(new)
    <2>1. SUFFICES ASSUME NEW i \in 1 .. size, NEW j \in 1 .. size, i < j
                   PROVE  Before(new[i], new[j])
      BY <1>3 DEF Ordered
    <2>2. new[j].attempts = 0 /\ new[i].n = len + i /\ new[j].n = len + j
      BY <1>1
    <2> QED
      BY <2>1, <2>2 DEF Before
  <1>6. Range(new) = {new[i] : i \in 1 .. size}
    BY <1>3, RangeOf
  <1>7. Range(new) = NewCommands(c, len, size)
    BY <1>6 DEF NewCommands
  <1> QED
    BY <1>3, <1>4, <1>5, <1>7

Longer(after, lg, c, k) ==
  /\ after \in [AllChannels -> Seq(Logged)] /\ Len(after[c]) = Len(lg[c]) + k
  /\ \A d \in AllChannels : d # c => after[d] = lg[d]

LEMMA LogLonger ==
  ASSUME NEW lg \in [AllChannels -> Seq(Logged)], NEW c \in AllChannels,
         NEW more \in Seq(Logged), NEW after, after = [lg EXCEPT ![c] = @ \o more]
  PROVE  Longer(after, lg, c, Len(more))
  <1>1. lg[c] \o more \in Seq(Logged) /\ Len(lg[c] \o more) = Len(lg[c]) + Len(more)
    BY ConcatProperties
  <1> QED
    BY <1>1 DEF Longer

LEMMA SendKeeps ==
  ASSUME IInv, NEW c \in Channels, NEW size \in scenario.sizes, Send(c, size)
  PROVE  IInv' /\ AllSame
  <1>1. c \in AllChannels /\ size \in Nat \ {0}
    BY ScenarioIs DEF IInv, AllChannels
  <1>2. PICK n \in Nat : n = Len(log[c])
    BY <1>1, Lengths DEF IInv
  <1>3. PICK fields : fields = [i \in 1 .. size |-> Command(c, n, size, i)]
    OBVIOUS
  <1>4. PICK new : new = [i \in 1 .. size |-> Outgoing(c, n + i)]
    OBVIOUS
  <1>5. /\ Outside /\ log' = [log EXCEPT ![c] = @ \o fields] /\ outgoing' = outgoing \o new
        /\ UNCHANGED <<sent, windows, used, inTransit, loop, scenario>>
    BY <1>2, <1>3, <1>4 DEF Send
  <1>6. fields \in Seq(Logged) /\ Len(fields) = size
    <2>1. \A i \in 1 .. size : (n + i) % Numbers \in Nat
      BY <1>1, Sizes
    <2>2. (n + 1) % Numbers \in Nat
      BY Sizes
    <2>3. \A i \in 1 .. size : fields[i] \in Logged
      BY <1>1, <1>3, <2>1, <2>2 DEF Logged, Command
    <2> QED
      BY <1>1, <1>3, <2>3
  <1>7. log \in [AllChannels -> Seq(Logged)]
    BY DEF IInv, Types
  <1>8. /\ log' \in [AllChannels -> Seq(Logged)] /\ Len(log'[c]) = n + size
        /\ \A d \in AllChannels : d # c => log'[d] = log[d]
    <2>1. Longer(log', log, c, size)
      BY <1>1, <1>5, <1>6, <1>7, LogLonger
    <2> QED
      BY <1>2, <2>1 DEF Longer
  <1>9. /\ new \in Seq(Commands) /\ Distinct(new) /\ Ordered(new)
        /\ Range(new) = NewCommands(c, n, size)
    BY <1>1, <1>4, NewSequence
  <1> QED
    BY <1>1, <1>2, <1>5, <1>8, <1>9, QueueKeeps

LEMMA SendControlKeeps ==
  ASSUME IInv, SendControl
  PROVE  IInv' /\ AllSame
  <1>1. Control \in AllChannels
    BY DEF AllChannels
  <1>2. PICK n \in Nat : n = Len(log[Control])
    BY <1>1, Lengths DEF IInv
  <1>3. PICK o : o = Outgoing(Control, n + 1)
    OBVIOUS
  <1>4. PICK f : f = [kind |-> "control"]
    OBVIOUS
  <1>5. /\ Outside /\ log' = [log EXCEPT ![Control] = Append(@, f)]
        /\ outgoing' = Append(outgoing, o)
        /\ UNCHANGED <<sent, windows, used, inTransit, loop, scenario>>
    BY <1>2, <1>3, <1>4 DEF SendControl
  <1>6. f \in Logged /\ log \in [AllChannels -> Seq(Logged)] /\ outgoing \in Seq(Commands)
    BY <1>4 DEF Logged, IInv, Types
  <1>7. <<f>> \in Seq(Logged) /\ Len(<<f>>) = 1
    BY <1>6
  <1>8. log' = [log EXCEPT ![Control] = @ \o <<f>>]
    <2>1. log[Control] \in Seq(Logged)
      BY <1>1, <1>6
    <2>2. Append(log[Control], f) = log[Control] \o <<f>>
      BY <1>6, <2>1, AppendIsConcat
    <2> QED
      BY <1>5, <2>2
  <1>9. /\ log' \in [AllChannels -> Seq(Logged)] /\ Len(log'[Control]) = n + 1
        /\ \A d \in AllChannels : d # Control => log'[d] = log[d]
    <2>1. Longer(log', log, Control, 1)
      BY <1>1, <1>6, <1>7, <1>8, LogLonger
    <2> QED
      BY <1>2, <2>1 DEF Longer
  <1>10. o = [ch |-> Control, n |-> n + 1, attempts |-> 0] /\ o \in Commands
    BY <1>1, <1>3 DEF Outgoing, Commands
  <1>11. /\ outgoing' = outgoing \o <<o>> /\ <<o>> \in Seq(Commands) /\ Range(<<o>>) = {o}
         /\ Distinct(<<o>>) /\ Ordered(<<o>>)
    BY <1>5, <1>6, <1>10, OneCommand
  <1>12. NewCommands(Control, n, 1) = {o}
    <2>1. 1 .. 1 = {1}
      OBVIOUS
    <2> QED
      BY <1>3, <2>1 DEF NewCommands
  <1> QED
    BY <1>1, <1>2, <1>5, <1>9, <1>11, <1>12, QueueKeeps

\* Commands that timed out go before the others.
LEMMA CheckTimeoutsKeeps ==
  ASSUME IInv, NEW S \in SUBSET DOMAIN sent, CheckTimeouts(S)
  PROVE  IInv' /\ AllSame
  <1>1. PICK A : A = Range(outgoing)
    OBVIOUS
  <1>2. PICK B : B = Range(sent)
    OBVIOUS
  <1>3. /\ A \in SUBSET Commands /\ B \in SUBSET Commands /\ SetsApart(B, A)
        /\ Unique(A \cup B) /\ \A o \in B : o.attempts = 1
    BY <1>1, <1>2, ListSets DEF OnceEach
  <1>4. /\ outgoing \in Seq(Commands) /\ Distinct(outgoing) /\ Ordered(outgoing)
        /\ sent \in Seq(Commands) /\ Distinct(sent)
    BY DEF IInv, Types, Lists
  <1>5. PICK T \in SUBSET DOMAIN sent : T = DOMAIN sent \ S
    OBVIOUS
  <1>6. PICK late : late = Pick(sent, S)
    OBVIOUS
  <1>7. PICK rest : rest = Pick(sent, T)
    OBVIOUS
  <1>8. /\ Outside /\ outgoing' = late \o outgoing /\ sent' = rest
        /\ inTransit' = inTransit - Cardinality(WithPacket(late))
        /\ UNCHANGED <<log, windows, used, loop, scenario>>
    BY <1>5, <1>6, <1>7 DEF CheckTimeouts, Requeued, TransitAfterTimeout
  <1>9. Sublist(late, sent, S) /\ Sublist(rest, sent, T)
    BY <1>4, <1>6, <1>7, PickedSublist
  <1>10. late \in Seq(Commands) /\ rest \in Seq(Commands)
    BY <1>9, SublistType
  <1>11. Distinct(late) /\ Distinct(rest)
    BY <1>4, <1>9, SublistKeeps
  <1>12. PICK L : L = Range(late)
    OBVIOUS
  <1>13. PICK R : R = Range(rest)
    OBVIOUS
  <1>14. L = {sent[p] : p \in S} /\ R = {sent[p] : p \in T}
    BY <1>4, <1>9, <1>12, <1>13, RangeSublist
  <1>15. B = {sent[p] : p \in 1 .. Len(sent)} /\ DOMAIN sent = 1 .. Len(sent)
    BY <1>2, <1>4, RangeOf
  <1>16. B = L \cup R
    BY <1>5, <1>14, <1>15
  <1>17. SetsApart(R, L)
    <2>1. \A p \in T : \A q \in S : ~Same(sent[p], sent[q])
      BY <1>4, <1>5, <1>15 DEF Distinct
    <2> QED
      BY <1>14, <2>1 DEF SetsApart
  <1>18. \A o \in L : o.attempts = 1
    BY <1>3, <1>16
  <1>19. outgoing' \in Seq(Commands) /\ Range(outgoing') = L \cup A
    BY <1>1, <1>4, <1>8, <1>10, <1>12, RangeJoin
  <1>20. Distinct(outgoing')
    <2>1. SetsApart(L, A)
      BY <1>3, <1>16 DEF SetsApart
    <2> QED
      BY <1>1, <1>4, <1>8, <1>10, <1>11, <1>12, <2>1, DistinctJoin
  <1>21. Ordered(outgoing')
    <2>1. Ordered(late)
      <3>1. SUFFICES ASSUME NEW i \in 1 .. Len(late), NEW j \in 1 .. Len(late)
                     PROVE  Before(late[i], late[j])
        BY DEF Ordered
      <3>2. L = {late[k] : k \in 1 .. Len(late)}
        BY <1>10, <1>12, RangeOf
      <3>3. late[i].attempts = 1 /\ late[j].attempts = 1
        BY <1>18, <3>2
      <3> QED
        BY <3>3 DEF Before
    <2>2. AllBefore(L, A)
      BY <1>18 DEF AllBefore, Before
    <2> QED
      BY <1>1, <1>4, <1>8, <1>10, <1>12, <2>1, <2>2, OrderedJoin
  <1>22. Lists'
    <2>1. SetsApart(R, L \cup A)
      BY <1>3, <1>16, <1>17 DEF SetsApart
    <2>2. \A o \in R : o.attempts = 1
      BY <1>3, <1>16
    <2>3. Range(outgoing') = L \cup A /\ Range(sent') = R /\ Distinct(sent')
      BY <1>8, <1>11, <1>13, <1>19
    <2> QED
      BY <1>20, <1>21, <2>1, <2>2, <2>3 DEF Lists
  <1>23. Types'
    <2>1. loop'.at = 0 /\ Len(outgoing') \in Nat
      BY <1>8, <1>19 DEF Outside
    <2>2. loop'.at <= Len(outgoing') + 1
      BY <2>1
    <2>3. /\ scenario' \in Scenarios /\ log' \in [AllChannels -> Seq(Logged)]
          /\ windows' \in [Channels -> [WindowIds -> Nat]] /\ used' \in [Channels -> SUBSET WindowIds]
          /\ loop' \in [at : Nat, wrap : BOOLEAN, exceeded : BOOLEAN]
      BY <1>8 DEF IInv, Types
    <2> QED
      BY <1>8, <1>10, <1>19, <2>2, <2>3 DEF Types
  <1>24. Transit'
    <2>1. Cardinality(WithPacket(rest)) = Cardinality(WithPacket(sent)) - Cardinality(WithPacket(late))
      BY <1>4, <1>5, <1>6, <1>7, CountSplit
    <2>2. PICK m \in Nat : m = Cardinality(WithPacket(late))
      <3>1. WithPacket(late) \in SUBSET DOMAIN late
        BY DEF WithPacket
      <3> QED
        BY <1>10, <3>1, PositionsFinite
    <2>3. PICK n \in Nat : n = Cardinality(WithPacket(sent))
      <3>1. WithPacket(sent) \in SUBSET DOMAIN sent
        BY DEF WithPacket
      <3> QED
        BY <1>4, <3>1, PositionsFinite
    <2>4. inTransit = n /\ n <= scenario.budget /\ scenario.budget \in Nat
      BY <2>3, ScenarioIs DEF IInv, Transit
    <2>5. inTransit' = n - m /\ n - m <= scenario.budget
      BY <1>8, <2>2, <2>4
    <2> QED
      BY <1>8, <2>1, <2>2, <2>3, <2>5 DEF Transit
  <1>25. Looping'
    BY <1>8 DEF Looping, Outside
  <1>26. PICK v : v = [c \in AllChannels |-> SentUpTo(c)]
    OBVIOUS
  <1>27. \A c \in AllChannels : Splits(Range(outgoing'), Range(sent'), c, Len(log'[c]), v[c])
    <2>1. TAKE c \in AllChannels
    <2>2. Splits(A, L \cup R, c, Len(log[c]), v[c])
      BY <1>1, <1>2, <1>16, <1>26 DEF IInv, Numbering
    <2>3. Splits(L \cup A, R, c, Len(log[c]), v[c])
      BY <1>18, <2>2, SplitsRequeue
    <2> QED
      BY <1>8, <1>13, <1>19, <2>3
  <1>28. \A c \in Channels :
           Fits(windows'[c], used'[c], Pending(Range(outgoing') \cup Range(sent'), c, v[c]), v[c])
    <2>1. TAKE c \in Channels
    <2>2. c \in AllChannels /\ v[c] = SentUpTo(c)
      BY <1>26 DEF AllChannels
    <2>3. Range(outgoing') \cup Range(sent') = A \cup B
      BY <1>8, <1>13, <1>16, <1>19
    <2> QED
      BY <1>1, <1>2, <1>8, <2>2, <2>3 DEF IInv, Windowing
  <1>29. IInv' /\ \A c \in AllChannels : SentUpTo(c)' = v[c]
    BY <1>22, <1>23, <1>24, <1>25, <1>27, <1>28, StepKeeps
  <1>30. AllSame
    <2>1. SUFFICES ASSUME NEW c \in Channels
                   PROVE  SameSent(c)
      BY DEF AllSame
    <2>2. c \in AllChannels /\ v[c] = SentUpTo(c)
      BY <1>26 DEF AllChannels
    <2>3. SentUpTo(c)' = SentUpTo(c)
      BY <1>29, <2>2
    <2>4. Range(outgoing') \cup Range(sent') = A \cup B
      BY <1>8, <1>13, <1>16, <1>19
    <2> QED
      BY <1>1, <1>2, <2>3, <2>4 DEF SameSent, Pend
  <1> QED
    BY <1>29, <1>30

LEMMA WindowOfIs ==
  ASSUME NEW o \in Commands
  PROVE  /\ WindowOf(o) = TrueWindow(o.n) % Windows /\ WindowOf(o) \in WindowIds
         /\ Number(o) % WindowSize = o.n % WindowSize
  <1>1. o.n \in Nat
    BY DEF Commands
  <1> QED
    BY <1>1, WireWindow DEF WindowOf, Number

\* A command o that was sent is taken out of the list it is in.
LEMMA ForgetKeeps ==
  ASSUME IInv, Outside, NEW o \in Range(outgoing) \cup Range(sent), o.attempts = 1,
         outgoing' \in Seq(Commands), sent' \in Seq(Commands),
         Range(outgoing') = Range(outgoing) \ {o}, Range(sent') = Range(sent) \ {o},
         Distinct(outgoing'), Distinct(sent'), Ordered(outgoing'),
         LeaveWindow(o), Transit', UNCHANGED <<log, loop, scenario>>
  PROVE  IInv' /\ \A c \in Channels : Forgetful(c, o.ch, Number(o))
  <1>1. PICK A : A = Range(outgoing)
    OBVIOUS
  <1>2. PICK B : B = Range(sent)
    OBVIOUS
  <1>3. /\ A \in SUBSET Commands /\ B \in SUBSET Commands /\ SetsApart(B, A)
        /\ Unique(A \cup B) /\ \A x \in B : x.attempts = 1
    <2>1. /\ A \in SUBSET Commands /\ B \in SUBSET Commands
          /\ Unique(A \cup B) /\ SetsApart(B, A)
      BY <1>1, <1>2, ListSets DEF OnceEach
    <2>2. \A x \in B : x.attempts = 1
      BY <1>2 DEF IInv, Lists
    <2> QED
      BY <2>1, <2>2
  <1>4. Range(outgoing') = A \ {o} /\ Range(sent') = B \ {o} /\ o \in A \cup B /\ o \in Commands
    BY <1>1, <1>2, <1>3
  <1>5. o.ch \in AllChannels /\ o.n \in Nat \ {0}
    BY <1>4 DEF Commands
  <1>6. PICK w \in WindowIds : w = WindowOf(o) /\ w = TrueWindow(o.n) % Windows
    BY <1>4, WindowOfIs
  <1>7. Lists'
    BY <1>3, <1>4 DEF Lists, SetsApart
  <1>8. PICK v : v = [c \in AllChannels |-> SentUpTo(c)]
    OBVIOUS
  <1>9. \A c \in AllChannels : Splits(Range(outgoing'), Range(sent'), c, Len(log'[c]), v[c])
    <2>1. TAKE c \in AllChannels
    <2>2. Splits(A, B, c, Len(log[c]), v[c])
      BY <1>1, <1>2, <1>8 DEF IInv, Numbering
    <2> QED
      BY <1>4, <2>2, SplitsForget
  <1>10. windows \in [Channels -> [WindowIds -> Nat]] /\ used \in [Channels -> SUBSET WindowIds]
    BY DEF IInv, Types
  <1>11. Range(outgoing') \cup Range(sent') = (A \cup B) \ {o}
    BY <1>4
  <1>12. ASSUME NEW c \in Channels
         PROVE  /\ Fits(windows[c], used[c], Pending(A \cup B, c, v[c]), v[c])
                /\ v[c] \in Nat /\ Pending(A \cup B, c, v[c]) \in SUBSET (1 .. v[c])
    <2>1. c \in AllChannels /\ v[c] = SentUpTo(c)
      BY <1>8 DEF AllChannels
    <2>2. v[c] \in Nat
      BY <2>1, SentIs
    <2>3. Fits(windows[c], used[c], Pending(A \cup B, c, v[c]), v[c])
      BY <1>1, <1>2, <2>1 DEF IInv, Windowing
    <2> QED
      BY <2>2, <2>3 DEF Pending
  <1>15. ASSUME \A c \in AllChannels : SentUpTo(c)' = v[c]
         PROVE  \A c \in Channels : Forgetful(c, o.ch, Number(o))
    <2>1. TAKE c \in Channels
    <2>2. c \in AllChannels /\ v[c] = SentUpTo(c)
      BY <1>8 DEF AllChannels
    <2>3. SentUpTo(c)' = SentUpTo(c)
      BY <1>15, <2>2
    <2>4. ASSUME NEW n \in Pend(c)
          PROVE  n \in Pend(c)' \/ (c = o.ch /\ n % Numbers = Number(o))
      <3>1. n \in 1 .. SentUpTo(c)
        BY DEF Pend, Pending
      <3>2. PICK x \in A \cup B : x.ch = c /\ x.n = n
        BY <1>1, <1>2 DEF Pend, Pending
      <3>3. CASE x = o
        BY <3>2, <3>3 DEF Number
      <3>4. CASE x # o
        <4>1. x \in Range(outgoing') \cup Range(sent')
          BY <1>11, <3>2, <3>4
        <4>2. n \in Pending(Range(outgoing') \cup Range(sent'), c, SentUpTo(c))
          BY <3>1, <3>2, <4>1 DEF Pending
        <4> QED
          BY <2>3, <4>2 DEF Pend
      <3> QED
        BY <3>3, <3>4
    <2> QED
      BY <2>3, <2>4 DEF Forgetful
  <1>13. CASE o.ch = Control
    <2>1. UNCHANGED <<windows, used>>
      BY <1>13 DEF LeaveWindow
    <2>2. ASSUME NEW c \in Channels
          PROVE  Pending((A \cup B) \ {o}, c, v[c]) = Pending(A \cup B, c, v[c])
      <3>1. o.ch # c
        BY <1>13, ScenarioIs DEF IInv
      <3> QED
        BY <3>1, PendingOther
    <2>3. Types'
      BY <1>10, <2>1 DEF IInv, Types, Outside
    <2>4. Looping'
      BY DEF Looping, Outside
    <2>5. \A c \in Channels :
            Fits(windows'[c], used'[c], Pending(Range(outgoing') \cup Range(sent'), c, v[c]), v[c])
      BY <1>11, <1>12, <2>1, <2>2
    <2> QED
      BY <1>7, <1>9, <1>15, <2>3, <2>4, <2>5, StepKeeps
  <1>14. CASE o.ch # Control
    <2>1. PICK d \in Channels : d = o.ch
      BY <1>5, <1>14 DEF AllChannels
    <2>2. PICK P \in SUBSET (1 .. v[d]) : P = Pending(A \cup B, d, v[d])
      BY <1>12
    <2>3. o.n \in P
      <3>1. Splits(A, B, d, Len(log[d]), v[d])
        BY <1>1, <1>2, <1>5, <1>8, <2>1 DEF IInv, Numbering
      <3>2. o.n <= v[d]
        BY <1>4, <2>1, <3>1 DEF Splits
      <3>3. v[d] \in Nat
        BY <1>12
      <3>4. o.n \in 1 .. v[d]
        BY <1>5, <3>2, <3>3
      <3> QED
        BY <1>4, <2>1, <2>2, <3>4 DEF Pending
    <2>4. PICK left : left = IF windows[d][w] = 1 THEN used[d] \ {w} ELSE used[d]
      OBVIOUS
    <2>5. /\ windows[d][w] > 0
          /\ Fits([windows[d] EXCEPT ![w] = @ - 1], left, P \ {o.n}, v[d])
      <3>1. Fits(windows[d], used[d], P, v[d]) /\ v[d] \in Nat
        BY <1>12, <2>2
      <3>2. PICK n \in P : n = o.n
        BY <2>3
      <3>3. w = TrueWindow(n) % Windows
        BY <1>6, <3>2
      <3>4. /\ windows[d][w] > 0
            /\ Fits([windows[d] EXCEPT ![w] = @ - 1], left, P \ {n}, v[d])
        BY <2>4, <3>1, <3>3, FitsLess
      <3> QED
        BY <3>2, <3>4
    <2>6. /\ windows' = [windows EXCEPT ![d][w] = @ - 1]
          /\ used' = IF windows[d][w] = 1 THEN [used EXCEPT ![d] = @ \ {w}] ELSE used
      BY <1>6, <1>14, <2>1, <2>5 DEF LeaveWindow
    <2>7. windows'[d] = [windows[d] EXCEPT ![w] = @ - 1] /\ used'[d] = left
      BY <1>10, <2>4, <2>6
    <2>8. \A c \in Channels : c # d => windows'[c] = windows[c] /\ used'[c] = used[c]
      BY <1>10, <2>6
    <2>9. /\ windows' \in [Channels -> [WindowIds -> Nat]]
          /\ used' \in [Channels -> SUBSET WindowIds]
      <3>1. [windows[d] EXCEPT ![w] = @ - 1] \in [WindowIds -> Nat] /\ left \in SUBSET WindowIds
        BY <2>5 DEF Fits
      <3>2. windows' = [windows EXCEPT ![d] = [windows[d] EXCEPT ![w] = @ - 1]]
        BY <1>10, <2>6
      <3>3. used' = [used EXCEPT ![d] = left]
        BY <1>10, <2>4, <2>6
      <3> QED
        BY <1>10, <3>1, <3>2, <3>3
    <2>10. Types'
      BY <2>9 DEF IInv, Types, Outside
    <2>11. Looping'
      BY DEF Looping, Outside
    <2>12. \A c \in Channels :
            Fits(windows'[c], used'[c], Pending(Range(outgoing') \cup Range(sent'), c, v[c]), v[c])
      <3>1. TAKE c \in Channels
      <3>2. CASE c = d
        <4>1. Pending((A \cup B) \ {o}, c, v[c]) = Pending(A \cup B, c, v[c]) \ {o.n}
          <5>1. o \in A \cup B /\ o.ch = c /\ Unique(A \cup B)
            BY <1>3, <1>4, <2>1, <3>2
          <5>2. LessOne(A \cup B, o, c, v[c])
            BY <5>1, PendingForget
          <5> QED
            BY <5>2 DEF LessOne
        <4> QED
          BY <1>11, <2>2, <2>5, <2>7, <3>2, <4>1
      <3>3. CASE c # d
        <4>1. Pending((A \cup B) \ {o}, c, v[c]) = Pending(A \cup B, c, v[c])
          BY <2>1, <3>3, PendingOther
        <4> QED
          BY <1>11, <1>12, <2>8, <3>3, <4>1
      <3> QED
        BY <3>2, <3>3
    <2> QED
      BY <1>7, <1>9, <1>15, <2>10, <2>11, <2>12, StepKeeps
  <1> QED
    BY <1>13, <1>14

\* A set of numbers has a least and a bounded one a greatest member.
LEMMA LeastExists ==
  ASSUME NEW S, S \subseteq Nat, S # {}
  PROVE  \E m \in S : \A k \in S : m <= k
  <1>1. PICK m \in S : \A k \in S : ~(<<k, m>> \in OpToRel(<, Nat))
    BY NatLessThanWellFounded, WFMin
  <1>2. \A k \in S : m <= k
    <2>1. ASSUME NEW k \in S, k < m
          PROVE  FALSE
      <3>1. k \in Nat /\ m \in Nat
        OBVIOUS
      <3>2. <<k, m>> \in OpToRel(<, Nat)
        BY <2>1, <3>1 DEF OpToRel
      <3> QED
        BY <1>1, <3>2
    <2> QED
      BY <2>1
  <1> QED
    BY <1>2

LEMMA LeastIsIn ==
  ASSUME NEW S, S \subseteq Nat, S # {}
  PROVE  Min(S) \in S
  <1>1. PICK m \in S : \A k \in S : m <= k
    BY LeastExists
  <1> QED
    BY <1>1 DEF Min

LEMMA FirstInIs ==
  ASSUME NEW s \in Seq(Commands), NEW c, NEW seq, NEW i, i = FirstIn(s, c, seq), i <= Len(s)
  PROVE  i \in 1 .. Len(s) /\ Matches(s[i], c, seq)
  <1>1. PICK n \in Nat : n = Len(s) /\ DOMAIN s = 1 .. n
    OBVIOUS
  <1>2. PICK S : S = {j \in DOMAIN s : Matches(s[j], c, seq)} \cup {n + 1}
    OBVIOUS
  <1>3. S \subseteq 1 .. n + 1 /\ S # {}
    BY <1>1, <1>2
  <1>4. Min(S) \in S
    <2>1. S \subseteq Nat
      BY <1>3
    <2> QED
      BY <1>3, <2>1, LeastIsIn
  <1>5. i = Min(S)
    BY <1>1, <1>2 DEF FirstIn
  <1>6. i \in S /\ i \in 1 .. n + 1 /\ i <= n
    BY <1>1, <1>3, <1>4, <1>5
  <1>7. Matches(s[i], c, seq)
    BY <1>2, <1>6
  <1> QED
    BY <1>1, <1>6, <1>7

LEMMA AcknowledgeKeeps ==
  ASSUME IInv, Outside, NEW c, NEW seq, Acknowledge(c, seq), UNCHANGED <<log, loop, scenario>>
  PROVE  IInv' /\ \A d \in Channels : Forgetful(d, c, seq)
  <1>1. /\ outgoing \in Seq(Commands) /\ Distinct(outgoing) /\ Ordered(outgoing)
        /\ sent \in Seq(Commands) /\ Distinct(sent)
    BY DEF IInv, Types, Lists
  <1>2. OnceEach(Range(outgoing), Range(sent))
    BY ListSets
  <1>3. DOMAIN outgoing = 1 .. Len(outgoing) /\ DOMAIN sent = 1 .. Len(sent)
    BY Lengths DEF IInv
  <1>4. Range(outgoing) = {outgoing[k] : k \in 1 .. Len(outgoing)}
        /\ Range(sent) = {sent[k] : k \in 1 .. Len(sent)}
    BY <1>1, RangeOf
  <1>5. PICK i : i = FirstIn(sent, c, seq)
    OBVIOUS
  <1>6. PICK j : j = FirstIn(outgoing, c, seq)
    OBVIOUS
  <1>7. CASE /\ i <= Len(sent)
             /\ LeaveWindow(sent[i])
             /\ sent' = RemoveAt(sent, i)
             /\ inTransit' = inTransit - FragmentLength(sent[i])
             /\ UNCHANGED outgoing
    <2>1. i \in 1 .. Len(sent) /\ Matches(sent[i], c, seq)
      BY <1>1, <1>5, <1>7, FirstInIs
    <2>2. PICK o \in Range(sent) : o = sent[i] /\ o.ch = c /\ Number(o) = seq
      BY <1>4, <2>1 DEF Matches
    <2>3. o.attempts = 1 /\ o \notin Range(outgoing)
      BY <1>2, <2>2 DEF OnceEach
    <2>4. PICK T \in SUBSET DOMAIN sent : T = DOMAIN sent \ {i}
      OBVIOUS
    <2>5. Sublist(sent', sent, T)
      BY <1>1, <1>7, <2>1, <2>4, RemovedSublist
    <2>6. sent' \in Seq(Commands) /\ Distinct(sent')
      BY <1>1, <2>5, SublistType, SublistKeeps
    <2>7. Range(sent') = Range(sent) \ {o} /\ Range(outgoing') = Range(outgoing) \ {o}
      BY <1>1, <1>7, <2>1, <2>2, <2>3, RangeRemove
    <2>8. Transit'
      <3>1. Cardinality(WithPacket(sent')) = Cardinality(WithPacket(sent)) - FragmentLength(o)
        BY <1>1, <1>7, <2>1, <2>2, CountRemove
      <3>2. PICK n \in Nat : n = Cardinality(WithPacket(sent))
        <4>1. WithPacket(sent) \in SUBSET DOMAIN sent
          BY DEF WithPacket
        <4> QED
          BY <1>1, <4>1, PositionsFinite
      <3>3. PICK f \in Nat : f = FragmentLength(o)
        BY DEF FragmentLength
      <3>4. inTransit = n /\ n <= scenario.budget /\ scenario.budget \in Nat
        BY <3>2, ScenarioIs DEF IInv, Transit
      <3>5. inTransit' = n - f /\ n - f <= scenario.budget
        BY <1>7, <2>2, <3>3, <3>4
      <3> QED
        BY <3>1, <3>2, <3>3, <3>5 DEF Transit
    <2>9. LeaveWindow(o) /\ outgoing' = outgoing /\ o \in Range(outgoing) \cup Range(sent)
      BY <1>7, <2>2
    <2>10. IInv' /\ \A d \in Channels : Forgetful(d, o.ch, Number(o))
      BY <1>1, <2>3, <2>6, <2>7, <2>8, <2>9, ForgetKeeps
    <2> QED
      BY <2>2, <2>10
  <1>8. CASE /\ j \in Searched
             /\ LeaveWindow(outgoing[j])
             /\ outgoing' = RemoveAt(outgoing, j)
             /\ UNCHANGED <<sent, inTransit>>
    <2>1. /\ j \in 1 .. Len(outgoing) /\ outgoing[j].attempts >= 1
          /\ Matches(outgoing[j], c, seq)
      <3>1. j \in 1 .. Len(outgoing) /\ outgoing[j].attempts >= 1
        BY <1>3, <1>8 DEF Searched
      <3>2. j <= Len(outgoing)
        BY <1>1, <3>1
      <3> QED
        BY <1>1, <1>6, <3>1, <3>2, FirstInIs
    <2>2. PICK o \in Range(outgoing) : o = outgoing[j] /\ o.ch = c /\ Number(o) = seq
      BY <1>4, <2>1 DEF Matches
    <2>3. o.attempts = 1 /\ o \notin Range(sent)
      <3>1. o \in Commands /\ o \notin Range(sent)
        BY <1>2, <2>2 DEF OnceEach
      <3>2. o.attempts \in 0 .. 1
        BY <3>1 DEF Commands
      <3> QED
        BY <2>1, <2>2, <3>1, <3>2
    <2>4. PICK T \in SUBSET DOMAIN outgoing : T = DOMAIN outgoing \ {j}
      OBVIOUS
    <2>5. Sublist(outgoing', outgoing, T)
      BY <1>1, <1>8, <2>1, <2>4, RemovedSublist
    <2>6. outgoing' \in Seq(Commands) /\ Distinct(outgoing') /\ Ordered(outgoing')
      BY <1>1, <2>5, SublistType, SublistKeeps
    <2>7. Range(sent') = Range(sent) \ {o} /\ Range(outgoing') = Range(outgoing) \ {o}
      BY <1>1, <1>8, <2>1, <2>2, <2>3, RangeRemove
    <2>8. Transit'
      BY <1>8 DEF IInv, Transit
    <2>9. LeaveWindow(o) /\ sent' = sent /\ o \in Range(outgoing) \cup Range(sent)
      BY <1>8, <2>2
    <2>10. IInv' /\ \A d \in Channels : Forgetful(d, o.ch, Number(o))
      BY <1>1, <2>3, <2>6, <2>7, <2>8, <2>9, ForgetKeeps
    <2> QED
      BY <2>2, <2>10
  <1>9. CASE UNCHANGED <<outgoing, sent, windows, used, inTransit>>
    <2>1. IInv' /\ AllSame
      BY <1>9, IdleKeeps
    <2> QED
      BY <2>1 DEF AllSame, SameSent, Forgetful
  <1> QED
    BY <1>5, <1>6, <1>7, <1>8, <1>9 DEF Acknowledge

\* The command at the position of the sending loop, if it was never sent, is the
\* next one of its channel.
LEMMA NextOfChannel ==
  ASSUME IInv, NEW p \in 1 .. Len(outgoing), p = loop.at, ~Skipped(outgoing[p]),
         outgoing[p].attempts = 0
  PROVE  outgoing[p].n = SentUpTo(outgoing[p].ch) + 1
  <1>1. PICK o : o = outgoing[p]
    OBVIOUS
  <1>2. outgoing \in Seq(Commands) /\ Range(outgoing) = {outgoing[i] : i \in 1 .. Len(outgoing)}
    BY RangeOf DEF IInv, Types
  <1>3. o \in Range(outgoing) /\ o \in Commands
    BY <1>1, <1>2
  <1>4. o.ch \in AllChannels /\ o.n \in Nat
    BY <1>3 DEF Commands
  <1>5. PICK u \in Nat : u = SentUpTo(o.ch)
    BY <1>4, SentIs
  <1>6. PICK len \in Nat : len = Len(log[o.ch])
    BY <1>4, Lengths DEF IInv
  <1>7. Splits(Range(outgoing), Range(sent), o.ch, len, u)
    BY <1>4, <1>5, <1>6 DEF IInv, Numbering
  <1>8. o.n \in u + 1 .. len
    BY <1>1, <1>3, <1>7 DEF Splits
  <1>9. PICK x \in Range(outgoing) : x.ch = o.ch /\ x.attempts = 0 /\ x.n = u + 1
    <2>1. u + 1 \in u + 1 .. len
      BY <1>8
    <2> QED
      BY <1>7, <2>1 DEF Splits
  <1>10. PICK j \in 1 .. Len(outgoing) : outgoing[j] = x
    BY <1>2, <1>9
  <1>11. ~(j < p)
    <2>1. SUFFICES ASSUME j < p
                   PROVE  FALSE
      OBVIOUS
    <2>2. loop.wrap \/ loop.exceeded
      BY <2>1 DEF IInv, Looping
    <2>3. x.ch # Control
      BY <1>10, <2>1 DEF IInv, Looping
    <2> QED
      BY <1>1, <1>9, <2>2, <2>3 DEF Skipped, Wrap, Exceeded
  <1>12. p < j => o.n < u + 1
    BY <1>1, <1>9, <1>10 DEF IInv, Lists, Ordered, Before
  <1>13. j = p
    BY <1>8, <1>11, <1>12
  <1> QED
    BY <1>1, <1>5, <1>9, <1>10, <1>13

LEMMA PutCommandKeeps ==
  ASSUME IInv, PutCommand
  PROVE  IInv' /\ (\A c \in Channels : SameSent(c) \/ OneMore(c)) /\ NetGrows
  <1>1. PICK A : A = Range(outgoing)
    OBVIOUS
  <1>2. PICK B : B = Range(sent)
    OBVIOUS
  <1>3. OnceEach(A, B)
    BY <1>1, <1>2, ListSets
  <1>4. /\ outgoing \in Seq(Commands) /\ Distinct(outgoing) /\ Ordered(outgoing)
        /\ sent \in Seq(Commands) /\ Distinct(sent)
    BY DEF IInv, Types, Lists
  <1>5. PICK p \in 1 .. Len(outgoing) : p = loop.at
    BY Lengths DEF IInv, PutCommand
  <1>6. PICK o : o = outgoing[p]
    OBVIOUS
  <1>7. PICK q : q = [o EXCEPT !.attempts = 1]
    OBVIOUS
  <1>8. /\ ~Skipped(o) /\ outgoing' = RemoveAt(outgoing, p) /\ sent' = Append(sent, q)
        /\ IF CountsInWindow(o)
           THEN /\ windows' = [windows EXCEPT ![o.ch][WindowOf(o)] = @ + 1]
                /\ used' = [used EXCEPT ![o.ch] = @ \cup {WindowOf(o)}]
           ELSE UNCHANGED <<windows, used>>
        /\ inTransit' = inTransit + FragmentLength(o)
        /\ UNCHANGED <<log, loop, scenario>>
    BY <1>5, <1>6, <1>7 DEF PutCommand
  <1>9. o \in A /\ o \in Commands /\ Range(outgoing) = {outgoing[i] : i \in 1 .. Len(outgoing)}
    BY <1>1, <1>4, <1>6, RangeOf
  <1>10. o.ch \in AllChannels /\ o.n \in Nat \ {0} /\ o.attempts \in 0 .. 1
    BY <1>9 DEF Commands
  <1>11. q \in Commands /\ q.ch = o.ch /\ q.n = o.n /\ q.attempts = 1
    BY <1>7, <1>9 DEF Commands
  <1>12. o.attempts = 0 => o.n = SentUpTo(o.ch) + 1
    BY <1>5, <1>6, <1>8, NextOfChannel
  <1>13. Range(outgoing') = A \ {o}
    BY <1>1, <1>4, <1>6, <1>8, RangeRemove
  <1>14. PICK T \in SUBSET DOMAIN outgoing : T = DOMAIN outgoing \ {p}
    OBVIOUS
  <1>15. /\ Sublist(outgoing', outgoing, T) /\ Len(outgoing') = Len(outgoing) - 1
         /\ SameBelow(outgoing', outgoing, p)
    BY <1>4, <1>8, <1>14, RemovedSublist
  <1>16. outgoing' \in Seq(Commands) /\ Distinct(outgoing') /\ Ordered(outgoing')
    BY <1>4, <1>15, SublistType, SublistKeeps
  <1>17. /\ sent' = sent \o <<q>> /\ <<q>> \in Seq(Commands) /\ Range(<<q>>) = {q}
         /\ Distinct(<<q>>)
    BY <1>4, <1>8, <1>11, OneCommand
  <1>18. sent' \in Seq(Commands) /\ Range(sent') = B \cup {q}
    BY <1>2, <1>4, <1>17, RangeJoin
  <1>19. \A x \in B : ~Same(x, q)
    <2>1. \A x \in B : ~Same(x, o)
      BY <1>3, <1>9 DEF OnceEach, SetsApart
    <2> QED
      BY <1>11, <2>1 DEF Same
  <1>20. Distinct(sent')
    <2>1. SetsApart(B, {q})
      BY <1>19 DEF SetsApart
    <2> QED
      BY <1>2, <1>4, <1>17, <2>1, DistinctJoin
  <1>21. Lists'
    <2>1. \A x \in A \ {o} : ~Same(q, x)
      <3>1. \A x \in A \ {o} : ~Same(o, x)
        BY <1>3, <1>9 DEF OnceEach, Unique
      <3> QED
        BY <1>11, <3>1 DEF Same
    <2>2. SetsApart(B \cup {q}, A \ {o})
      BY <1>3, <2>1 DEF OnceEach, SetsApart
    <2>3. \A x \in B \cup {q} : x.attempts = 1
      BY <1>3, <1>11 DEF OnceEach
    <2> QED
      BY <1>13, <1>16, <1>18, <1>20, <2>2, <2>3 DEF Lists
  <1>22. Transit'
    <2>1. Cardinality(WithPacket(sent')) = Cardinality(WithPacket(sent)) + FragmentLength(q)
      BY <1>4, <1>8, <1>11, CountAppend
    <2>2. FragmentLength(q) = FragmentLength(o)
      BY <1>11 DEF FragmentLength, HasPacket
    <2>3. PICK n \in Nat : n = Cardinality(WithPacket(sent))
      <3>1. WithPacket(sent) \in SUBSET DOMAIN sent
        BY DEF WithPacket
      <3> QED
        BY <1>4, <3>1, PositionsFinite
    <2>4. inTransit = n /\ n <= scenario.budget /\ scenario.budget \in Nat
      BY <2>3, ScenarioIs DEF IInv, Transit
    <2>5. n + FragmentLength(o) <= scenario.budget
      <3>1. CASE o.ch = Control
        <4>1. FragmentLength(o) = 0
          BY <3>1 DEF FragmentLength, HasPacket
        <4> QED
          BY <2>4, <4>1
      <3>2. CASE o.ch # Control
        <4>1. ~(inTransit + FragmentLength(o) > scenario.budget)
          BY <1>8, <3>2 DEF Skipped, Exceeded
        <4>2. FragmentLength(o) = 1
          BY <3>2 DEF FragmentLength, HasPacket
        <4> QED
          BY <2>4, <4>1, <4>2
      <3> QED
        BY <3>1, <3>2
    <2> QED
      BY <1>8, <2>1, <2>2, <2>3, <2>4, <2>5 DEF Transit
  <1>23. Looping'
    <2>1. \A i \in 1 .. Len(outgoing') : i < p => outgoing'[i].ch # Control
      <3>1. TAKE i \in 1 .. Len(outgoing')
      <3>2. HAVE i < p
      <3>3. PICK m \in Nat : m = Len(outgoing)
        BY <1>4
      <3>4. i \in 1 .. m /\ i \in 1 .. p - 1
        BY <1>5, <1>15, <3>2, <3>3
      <3>5. outgoing'[i] = outgoing[i]
        BY <1>15, <3>4 DEF SameBelow
      <3> QED
        BY <1>5, <3>2, <3>3, <3>4, <3>5 DEF IInv, Looping
    <2>2. p = 1 \/ loop.wrap \/ loop.exceeded
      BY <1>5 DEF IInv, Looping
    <2> QED
      BY <1>5, <1>8, <2>1, <2>2 DEF Looping
  <1>24. PICK v : v = [c \in AllChannels |->
                        IF o.ch = c /\ o.attempts = 0 THEN SentUpTo(c) + 1 ELSE SentUpTo(c)]
    OBVIOUS
  <1>25. \A c \in AllChannels : Splits(Range(outgoing'), Range(sent'), c, Len(log'[c]), v[c])
    <2>1. TAKE c \in AllChannels
    <2>2. PICK u \in Nat : u = SentUpTo(c)
      BY SentIs
    <2>3. PICK len \in Nat : len = Len(log[c])
      BY Lengths DEF IInv
    <2>4. Splits(A, B, c, len, u)
      BY <1>1, <1>2, <2>2, <2>3 DEF IInv, Numbering
    <2>5. A \in SUBSET Commands /\ B \in SUBSET Commands /\ Unique(A)
      BY <1>3 DEF OnceEach, Unique
    <2>6. o.ch = c /\ o.attempts = 0 => o.n = u + 1
      BY <1>12, <2>2
    <2>7. v[c] = IF o.ch = c /\ o.attempts = 0 THEN u + 1 ELSE u
      BY <1>24, <2>2
    <2>8. Splits(A \ {o}, B \cup {q}, c, len, v[c])
      BY <1>9, <1>11, <2>4, <2>5, <2>6, <2>7, SplitsPut
    <2> QED
      BY <1>8, <1>13, <1>18, <2>3, <2>8
  <1>26. /\ windows \in [Channels -> [WindowIds -> Nat]] /\ used \in [Channels -> SUBSET WindowIds]
    BY DEF IInv, Types
  <1>27. /\ windows' \in [Channels -> [WindowIds -> Nat]] /\ used' \in [Channels -> SUBSET WindowIds]
         /\ \A c \in Channels :
              Fits(windows'[c], used'[c], Pending(Range(outgoing') \cup Range(sent'), c, v[c]), v[c])
    <2>1. PICK P : P = [c \in Channels |-> Pending(A \cup B, c, SentUpTo(c))]
      OBVIOUS
    <2>2. PICK e : e = [c \in Channels |-> SentUpTo(c)]
      OBVIOUS
    <2>3. ASSUME NEW c \in Channels
          PROVE  /\ e[c] = SentUpTo(c) /\ e[c] \in Nat /\ P[c] \in SUBSET (1 .. e[c])
                 /\ Fits(windows[c], used[c], P[c], e[c]) /\ P[c] = Pending(A \cup B, c, e[c])
      <3>1. c \in AllChannels /\ e[c] = SentUpTo(c) /\ P[c] = Pending(A \cup B, c, e[c])
        BY <2>1, <2>2 DEF AllChannels
      <3>2. e[c] \in Nat
        BY <3>1, SentIs
      <3>3. Fits(windows[c], used[c], P[c], e[c])
        BY <1>1, <1>2, <3>1 DEF IInv, Windowing
      <3> QED
        BY <3>1, <3>2, <3>3 DEF Pending
    <2>4. ASSUME NEW c \in Channels, ~(o.ch = c /\ o.attempts = 0)
          PROVE  /\ Pending(Range(outgoing') \cup Range(sent'), c, v[c]) = P[c]
                 /\ v[c] = e[c]
      <3>1. PICK x \in Nat : x = e[c] /\ x = SentUpTo(c)
        BY <2>3
      <3>2. c \in AllChannels
        BY DEF AllChannels
      <3>3. v[c] = x
        BY <1>24, <2>4, <3>1, <3>2
      <3>4. Pending((A \ {o}) \cup (B \cup {q}), c, x) = Pending(A \cup B, c, x)
        <4>1. x = IF o.ch = c /\ o.attempts = 0 THEN x + 1 ELSE x
          BY <2>4
        <4>2. o.ch = c /\ o.attempts = 0 => o.n = x + 1
          BY <2>4
        <4>3. o \in A /\ q.ch = o.ch /\ q.n = o.n
          BY <1>9, <1>11
        <4>4. PutPending(A, B, c, x, o, q, x)
          BY <4>1, <4>2, <4>3, PendingPut
        <4> QED
          BY <2>4, <4>4 DEF PutPending
      <3> QED
        BY <1>13, <1>18, <2>3, <3>1, <3>3, <3>4
    <2>5. CASE o.ch = Control \/ o.attempts # 0
      <3>1. UNCHANGED <<windows, used>>
        BY <1>8, <1>10, <2>5 DEF CountsInWindow
      <3>2. \A c \in Channels : ~(o.ch = c /\ o.attempts = 0)
        BY <2>5, ScenarioIs DEF IInv
      <3> QED
        BY <1>26, <2>3, <2>4, <3>1, <3>2
    <2>6. CASE o.ch # Control /\ o.attempts = 0
      <3>1. PICK d \in Channels : d = o.ch
        BY <1>10, <2>6 DEF AllChannels
      <3>2. PICK n \in Nat : n = o.n
        BY <1>10
      <3>3. PICK u \in Nat : u = e[d]
        BY <2>3
      <3>4. n = u + 1
        BY <1>12, <2>3, <2>6, <3>1, <3>2, <3>3
      <3>5. PICK w \in WindowIds : w = WindowOf(o) /\ w = TrueWindow(n) % Windows
        BY <1>9, <3>2, WindowOfIs
      <3>6. n % WindowSize = 0 => used[d] \cap {(w + i) % Windows : i \in 0 .. FreeWindows - 1} = {}
        <4>1. ~WindowTaken(o)
          BY <1>8, <2>6 DEF Skipped, Wrap
        <4>2. Number(o) % WindowSize = n % WindowSize
          BY <1>9, <3>2, WindowOfIs
        <4> QED
          BY <2>6, <3>1, <3>5, <4>1, <4>2 DEF WindowTaken
      <3>7. Fits([windows[d] EXCEPT ![w] = @ + 1], used[d] \cup {w}, P[d] \cup {n}, n)
        <4>1. P[d] \in SUBSET (1 .. u) /\ Fits(windows[d], used[d], P[d], u)
          BY <2>3, <3>3
        <4> QED
          BY <3>4, <3>5, <3>6, <4>1, FitsMore
      <3>8. Pending(Range(outgoing') \cup Range(sent'), d, v[d]) = P[d] \cup {n} /\ v[d] = n
        <4>1. d \in AllChannels /\ u = SentUpTo(d)
          BY <2>3, <3>3 DEF AllChannels
        <4>2. v[d] = n
          BY <1>24, <2>6, <3>1, <3>4, <4>1
        <4>3. Pending((A \ {o}) \cup (B \cup {q}), d, n) = Pending(A \cup B, d, u) \cup {u + 1}
          <5>1. n = IF o.ch = d /\ o.attempts = 0 THEN u + 1 ELSE u
            BY <2>6, <3>1, <3>4
          <5>2. o.ch = d /\ o.attempts = 0 => o.n = u + 1
            BY <3>2, <3>4
          <5>3. o \in A /\ q.ch = o.ch /\ q.n = o.n
            BY <1>9, <1>11
          <5>4. PutPending(A, B, d, u, o, q, n)
            BY <5>1, <5>2, <5>3, PendingPut
          <5> QED
            BY <2>6, <3>1, <5>4 DEF PutPending
        <4> QED
          BY <1>13, <1>18, <2>3, <3>3, <3>4, <4>2, <4>3
      <3>9. /\ windows' = [windows EXCEPT ![d] = [windows[d] EXCEPT ![w] = @ + 1]]
            /\ used' = [used EXCEPT ![d] = used[d] \cup {w}]
        <4>1. CountsInWindow(o)
          BY <2>6 DEF CountsInWindow
        <4>2. /\ windows' = [windows EXCEPT ![d][w] = @ + 1]
              /\ used' = [used EXCEPT ![d] = @ \cup {w}]
          BY <1>8, <3>1, <3>5, <4>1
        <4> QED
          BY <1>26, <4>2
      <3>10. [windows[d] EXCEPT ![w] = @ + 1] \in [WindowIds -> Nat]
             /\ used[d] \cup {w} \in SUBSET WindowIds
        BY <3>7 DEF Fits
      <3>11. /\ windows' \in [Channels -> [WindowIds -> Nat]]
             /\ used' \in [Channels -> SUBSET WindowIds]
        BY <1>26, <3>9, <3>10
      <3>12. ASSUME NEW c \in Channels
             PROVE  Fits(windows'[c], used'[c],
                         Pending(Range(outgoing') \cup Range(sent'), c, v[c]), v[c])
        <4>1. CASE c = d
          <5>1. windows'[d] = [windows[d] EXCEPT ![w] = @ + 1] /\ used'[d] = used[d] \cup {w}
            BY <1>26, <3>9
          <5> QED
            BY <3>7, <3>8, <4>1, <5>1
        <4>2. CASE c # d
          <5>1. windows'[c] = windows[c] /\ used'[c] = used[c]
            BY <1>26, <3>9, <4>2
          <5>2. Pending(Range(outgoing') \cup Range(sent'), c, v[c]) = P[c] /\ v[c] = e[c]
            BY <2>4, <3>1, <4>2
          <5> QED
            BY <2>3, <5>1, <5>2
        <4> QED
          BY <4>1, <4>2
      <3> QED
        BY <3>11, <3>12
    <2> QED
      BY <2>5, <2>6
  <1>28. Types'
    <2>1. PICK m \in Nat : m = Len(outgoing)
      BY <1>4
    <2>2. loop'.at <= Len(outgoing') + 1
      BY <1>5, <1>8, <1>15, <2>1
    <2>3. /\ scenario' \in Scenarios /\ log' \in [AllChannels -> Seq(Logged)]
          /\ loop' \in [at : Nat, wrap : BOOLEAN, exceeded : BOOLEAN]
      BY <1>8 DEF IInv, Types
    <2> QED
      BY <1>16, <1>18, <1>27, <2>2, <2>3 DEF Types
  <1>29. IInv' /\ \A c \in AllChannels : SentUpTo(c)' = v[c]
    BY <1>21, <1>22, <1>23, <1>25, <1>27, <1>28, StepKeeps
  <1>30. ASSUME NEW c \in Channels
         PROVE  SameSent(c) \/ OneMore(c)
    <2>1. PICK u \in Nat : u = SentUpTo(c) /\ c \in AllChannels
      BY SentIs DEF AllChannels
    <2>2. PICK z : z = v[c] /\ z = SentUpTo(c)'
      BY <1>29, <2>1
    <2>3. z = IF o.ch = c /\ o.attempts = 0 THEN u + 1 ELSE u
      BY <1>24, <2>1, <2>2
    <2>4. o.ch = c /\ o.attempts = 0 => o.n = u + 1
      BY <1>12, <2>1
    <2>5. PutPending(A, B, c, u, o, q, z)
      BY <1>9, <1>11, <2>3, <2>4, PendingPut
    <2>6. Pend(c)' = Pending((A \ {o}) \cup (B \cup {q}), c, z) /\ Pend(c) = Pending(A \cup B, c, u)
      BY <1>1, <1>2, <1>13, <1>18, <2>1, <2>2 DEF Pend
    <2>7. CASE ~(o.ch = c /\ o.attempts = 0)
      BY <2>1, <2>2, <2>3, <2>5, <2>6, <2>7 DEF PutPending, SameSent
    <2>8. CASE o.ch = c /\ o.attempts = 0
      <3>1. Pend(c)' = Pend(c) \cup {u + 1}
        BY <2>5, <2>6, <2>8 DEF PutPending
      <3>2. ~WindowTaken(o) /\ o.ch # Control
        BY <1>8, <2>8, ScenarioIs DEF IInv, Skipped, Wrap
      <3>3. /\ WindowOf(o) = TrueWindow(u + 1) % Windows
            /\ Number(o) % WindowSize = (u + 1) % WindowSize
        BY <1>9, <2>4, <2>8, WindowOfIs
      <3>4. (u + 1) % WindowSize = 0 =>
              ~(windows[c][((TrueWindow(u + 1) % Windows) + Windows - 1) % Windows] >= WindowSize)
        BY <2>8, <3>2, <3>3 DEF WindowTaken
      <3> QED
        BY <2>1, <2>2, <2>3, <2>8, <3>1, <3>4 DEF OneMore
    <2> QED
      BY <2>7, <2>8
  <1>31. NetGrows
    <2>1. net' = net \cup {<<o.ch, o.n>>}
      BY <1>5, <1>6 DEF PutCommand
    <2>2. o.n <= SentUpTo(o.ch)'
      <3>1. Numbering'
        BY <1>29 DEF IInv
      <3>2. q \in Range(sent') /\ q.ch = o.ch /\ q.attempts = 1 /\ q.n = o.n
        BY <1>11, <1>18
      <3>3. Splits(Range(outgoing'), Range(sent'), o.ch, Len(log'[o.ch]), SentUpTo(o.ch)')
        BY <1>10, <3>1 DEF Numbering, AllChannels
      <3> QED
        BY <3>2, <3>3 DEF Splits
    <2>3. SentUpTo(o.ch)' \in Nat
      <3>1. SentUpTo(o.ch) \in Nat /\ SentUpTo(o.ch)' = v[o.ch]
        BY <1>10, <1>29, SentIs
      <3> QED
        BY <1>10, <1>24, <3>1
    <2>4. o.n \in 1 .. SentUpTo(o.ch)'
      BY <1>10, <2>2, <2>3
    <2> QED
      BY <2>1, <2>4 DEF NetGrows
  <1> QED
    BY <1>29, <1>30, <1>31

--------------------------------------------------------------------------------
(* The sender through every step. *)

LEMMA ArriveAckKeeps ==
  ASSUME IInv, NEW c, NEW n, ArriveAck(c, n)
  PROVE  IInv' /\ \A d \in Channels : Forgetful(d, c, n % Numbers)
  <1>1. PICK seq : seq = n % Numbers
    OBVIOUS
  <1>2. Outside /\ Acknowledge(c, seq) /\ UNCHANGED <<log, loop, scenario>>
    BY <1>1 DEF ArriveAck
  <1> QED
    BY <1>1, <1>2, AcknowledgeKeeps

\* A command arrives or is lost, an acknowledgement is lost, a packet is taken:
\* none of it is the sender's.
LEMMA OthersKeep ==
  ASSUME IInv, NEW c, NEW n,
         Arrive(c, n) \/ LoseCommand(c, n) \/ LoseAck(c, n) \/ Receive
  PROVE  IInv' /\ AllSame
  <1>1. CASE Arrive(c, n)
    BY <1>1, IdleKeeps DEF Arrive
  <1>2. CASE LoseCommand(c, n)
    BY <1>2, IdleKeeps DEF LoseCommand
  <1>3. CASE LoseAck(c, n)
    BY <1>3, IdleKeeps DEF LoseAck
  <1>4. CASE Receive
    BY <1>4, IdleKeeps DEF Receive
  <1> QED
    BY <1>1, <1>2, <1>3, <1>4

LEMMA NextKeeps == IInv /\ [Next]_vars => IInv'
  <1> SUFFICES ASSUME IInv, [Next]_vars
               PROVE  IInv'
    OBVIOUS
  <1>1. ASSUME NEW c \in Channels, NEW size \in scenario.sizes, Send(c, size)
        PROVE  IInv'
    BY <1>1, SendKeeps
  <1>2. CASE SendControl
    BY <1>2, SendControlKeeps
  <1>3. CASE SendLoop
    BY <1>3, BeginSendKeeps, SkipCommandKeeps, PutCommandKeeps, EndSendKeeps DEF SendLoop
  <1>4. ASSUME NEW S \in SUBSET DOMAIN sent, CheckTimeouts(S)
        PROVE  IInv'
    BY <1>4, CheckTimeoutsKeeps
  <1>5. ASSUME NEW c \in AllChannels, NEW n \in DOMAIN log[c],
               Arrive(c, n) \/ ArriveAck(c, n) \/ LoseCommand(c, n) \/ LoseAck(c, n)
        PROVE  IInv'
    BY <1>5, ArriveAckKeeps, OthersKeep
  <1>6. CASE Receive
    BY <1>6, OthersKeep
  <1>7. CASE UNCHANGED vars
    BY <1>7, IdleKeeps DEF vars
  <1> QED
    BY <1>1, <1>2, <1>3, <1>4, <1>5, <1>6, <1>7 DEF Next

\* The inductive invariant holds in every reachable state.
LEMMA Inductive == Spec => []IInv
  BY InitHolds, NextKeeps, PTL DEF Spec

--------------------------------------------------------------------------------
(* What the inductive invariant says of the sender. *)

\* What is held of channel c up to u is what is pending.
LEMMA HeldIs ==
  ASSUME NEW a \in Seq(Commands), NEW b \in Seq(Commands), NEW c, NEW u \in Nat
  PROVE  {n \in Held(b, c) \cup Held(a, c) : n <= u} = Pending(Range(a) \cup Range(b), c, u)
  <1>1. PICK H : H = Held(b, c) \cup Held(a, c)
    OBVIOUS
  <1>2. /\ Range(a) = {a[i] : i \in 1 .. Len(a)} /\ Range(a) \subseteq Commands
        /\ Range(b) = {b[i] : i \in 1 .. Len(b)} /\ Range(b) \subseteq Commands
    BY RangeOf
  <1>3. Held(a, c) = {o.n : o \in {x \in Range(a) : x.ch = c}}
    BY <1>2 DEF Held
  <1>4. Held(b, c) = {o.n : o \in {x \in Range(b) : x.ch = c}}
    BY <1>2 DEF Held
  <1>5. H = {o.n : o \in {x \in Range(a) \cup Range(b) : x.ch = c}}
    BY <1>1, <1>3, <1>4
  <1>6. \A n \in H : n \in Nat \ {0}
    BY <1>2, <1>5 DEF Commands
  <1>7. {n \in H : n <= u} = {n \in 1 .. u : n \in H}
    BY <1>6
  <1> QED
    BY <1>1, <1>5, <1>7 DEF Pending

LEMMA PendIs ==
  ASSUME IInv, NEW c \in Channels
  PROVE  Unacknowledged(c) = Pend(c) /\ SentUpTo(c) \in Nat
  <1>1. PICK u \in Nat : u = SentUpTo(c)
    BY SentIs DEF AllChannels
  <1>2. outgoing \in Seq(Commands) /\ sent \in Seq(Commands)
    BY DEF IInv, Types
  <1>3. Unacknowledged(c) = {n \in Held(sent, c) \cup Held(outgoing, c) : n <= u}
    BY <1>1 DEF Unacknowledged
  <1> QED
    BY <1>1, <1>2, <1>3, HeldIs DEF Pend

\* The windows of a channel and what they count.
LEMMA ChannelFits ==
  ASSUME IInv, NEW c \in Channels
  PROVE  /\ SentUpTo(c) \in Nat /\ Unacknowledged(c) \in SUBSET (1 .. SentUpTo(c))
         /\ Fits(windows[c], used[c], Unacknowledged(c), SentUpTo(c))
  <1>1. Unacknowledged(c) = Pend(c) /\ SentUpTo(c) \in Nat
    BY PendIs
  <1>2. Fits(windows[c], used[c], Pend(c), SentUpTo(c))
    BY DEF IInv, Windowing, Pend
  <1>3. Pend(c) \in SUBSET (1 .. SentUpTo(c))
    BY DEF Pend, Pending
  <1> QED
    BY <1>1, <1>2, <1>3

LEMMA TypesFollow == IInv => TypeOK
  <1> SUFFICES ASSUME IInv
               PROVE  TypeOK
    OBVIOUS
  <1>1. outgoing \in Seq(Commands) /\ sent \in Seq(Commands)
    BY DEF IInv, Types
  <1>2. /\ \A i \in DOMAIN outgoing : outgoing[i] \in Commands
        /\ \A i \in DOMAIN sent : sent[i] \in Commands
    BY <1>1
  <1>3. windows \in [Channels -> [WindowIds -> 0 .. WindowSize]]
    <2>1. windows \in [Channels -> [WindowIds -> Nat]]
      BY DEF IInv, Types
    <2>2. ASSUME NEW c \in Channels, NEW w \in WindowIds
          PROVE  windows[c][w] \in 0 .. WindowSize
      <3>1. PICK u \in Nat : u = SentUpTo(c)
        BY ChannelFits
      <3>2. PICK P \in SUBSET (1 .. u) : P = Unacknowledged(c)
        BY <3>1, ChannelFits
      <3>3. Fits(windows[c], used[c], P, u)
        BY <3>1, <3>2, ChannelFits
      <3> QED
        BY <3>3, FitsBound
    <2> QED
      BY <2>1, <2>2
  <1>4. used \in [Channels -> SUBSET WindowIds]
    BY DEF IInv, Types
  <1>5. inTransit \in 0 .. scenario.budget
    <2>1. WithPacket(sent) \in SUBSET DOMAIN sent
      BY DEF WithPacket
    <2>2. Cardinality(WithPacket(sent)) \in Nat
      BY <1>1, <2>1, PositionsFinite
    <2>3. scenario.budget \in Nat
      BY ScenarioIs DEF IInv
    <2> QED
      BY <2>2, <2>3 DEF IInv, Transit
  <1>6. loop \in [at : 0 .. Len(outgoing) + 1, wrap : BOOLEAN, exceeded : BOOLEAN]
    <2>1. loop \in [at : Nat, wrap : BOOLEAN, exceeded : BOOLEAN] /\ loop.at <= Len(outgoing) + 1
      BY DEF IInv, Types
    <2>2. PICK m \in Nat : m = Len(outgoing)
      BY <1>1
    <2>3. loop.at \in 0 .. m + 1
      BY <2>1, <2>2
    <2> QED
      BY <2>1, <2>2, <2>3
  <1> QED
    BY <1>2, <1>3, <1>4, <1>5, <1>6 DEF TypeOK

LEMMA CountsFollow == IInv => WindowCounts
  <1> SUFFICES ASSUME IInv, NEW c \in Channels, NEW w \in WindowIds
               PROVE  /\ windows[c][w]
                           = Cardinality({n \in Unacknowledged(c) : TrueWindow(n) % Windows = w})
                      /\ w \in used[c] <=> windows[c][w] > 0
    BY DEF WindowCounts
  <1>1. Fits(windows[c], used[c], Unacknowledged(c), SentUpTo(c))
    BY ChannelFits
  <1> QED
    BY <1>1 DEF Fits, Placed

LEMMA OrderFollows == IInv => RetransmissionsFirst
  <1> SUFFICES ASSUME IInv, NEW i \in DOMAIN outgoing, NEW j \in DOMAIN outgoing,
                      i < j, outgoing[j].attempts > 0
               PROVE  outgoing[i].attempts > 0
    BY DEF RetransmissionsFirst
  <1>1. i \in 1 .. Len(outgoing) /\ j \in 1 .. Len(outgoing)
    BY Lengths DEF IInv
  <1>2. Before(outgoing[i], outgoing[j])
    BY <1>1 DEF IInv, Lists, Ordered
  <1> QED
    BY <1>2 DEF Before

\* The sender of reliable commands: enet_protocol_send_reliable_outgoing_commands,
\* enet_protocol_check_timeouts, enet_protocol_handle_acknowledge and
\* enet_protocol_remove_sent_reliable_command keep its windows, its count of data
\* in transit and its lists in order, whatever the network does.
THEOREM SenderInvariant == Spec => []SenderInv
  <1>1. IInv => SenderInv
    BY TypesFollow, CountsFollow, OrderFollows DEF IInv, Transit, TransitCount, SenderInv
  <1> QED
    BY <1>1, Inductive, PTL

\* A channel's newest command in flight is at most FreeWindows windows after the
\* oldest one that is not acknowledged, half of the windows there are, so that a
\* reliable window never counts commands of two rounds.
SentWithinWindows ==
  \A c \in Channels : \A n \in Unacknowledged(c) :
    TrueWindow(SentUpTo(c)) <= TrueWindow(n) + FreeWindows

\* The test of a new window in enet_protocol_send_reliable_outgoing_commands()
\* keeps what is unacknowledged within the windows.
THEOREM SentTogether == Spec => []SentWithinWindows
  <1>1. IInv => SentWithinWindows
    BY ChannelFits DEF SentWithinWindows, Fits
  <1> QED
    BY <1>1, Inductive, PTL

--------------------------------------------------------------------------------
(* The numbers of the receiver: which commands it takes for new ones. *)

\* A number keeps its remainder a round later.
LEMMA NextRound ==
  ASSUME NEW x \in Nat
  PROVE  (x + Numbers) % Numbers = x % Numbers /\ TrueWindow(x + Numbers) = TrueWindow(x) + Windows
  <1>1. PICK q \in Nat : q = x \div Numbers
    BY Sizes, Quotient
  <1>2. PICK r \in 0 .. Numbers - 1 : r = x % Numbers
    BY Sizes, Quotient
  <1>3. x = q * Numbers + r
    BY <1>1, <1>2, Sizes, Quotient
  <1>4. PICK p \in Nat : p = q + 1
    OBVIOUS
  <1>5. (x + Numbers) % Numbers = r
    <2>1. x + Numbers = p * Numbers + r
      BY <1>3, <1>4, Sizes
    <2> QED
      BY <2>1, Sizes, QuotientIs
  <1>6. PICK w \in Nat : w = x \div WindowSize
    BY Sizes, Quotient
  <1>7. PICK t \in 0 .. WindowSize - 1 : t = x % WindowSize
    BY Sizes, Quotient
  <1>8. x = w * WindowSize + t
    BY <1>6, <1>7, Sizes, Quotient
  <1>9. x + Numbers = (w + Windows) * WindowSize + t
    BY <1>8, Sizes DEF Numbers
  <1>10. (x + Numbers) \div WindowSize = w + Windows
    BY <1>9, Sizes, QuotientIs
  <1> QED
    BY <1>2, <1>5, <1>6, <1>10 DEF TrueWindow

\* Windows grow with the numbers.
LEMMA WindowsGrow ==
  ASSUME NEW x \in Nat, NEW y \in Nat
  PROVE  /\ TrueWindow(x) \in Nat /\ TrueWindow(y) \in Nat
         /\ x <= y => TrueWindow(x) <= TrueWindow(y)
         /\ x + Numbers <= y => TrueWindow(x) + Windows <= TrueWindow(y)
         /\ y - x <= TrueWindow(y) * WindowSize - TrueWindow(x) * WindowSize + WindowSize - 1
         /\ y - x >= TrueWindow(y) * WindowSize - TrueWindow(x) * WindowSize - WindowSize + 1
  <1>1. PICK v \in Nat : v = TrueWindow(x)
    BY WireWindow
  <1>2. PICK w \in Nat : w = TrueWindow(y)
    BY WireWindow
  <1>3. PICK r \in 0 .. WindowSize - 1 : r = x % WindowSize
    BY Sizes, Quotient
  <1>4. PICK t \in 0 .. WindowSize - 1 : t = y % WindowSize
    BY Sizes, Quotient
  <1>5. x = v * WindowSize + r /\ y = w * WindowSize + t
    BY <1>1, <1>2, <1>3, <1>4, Sizes, Quotient DEF TrueWindow
  <1>6. w < v => (w + 1) * WindowSize <= v * WindowSize
    BY Sizes
  <1>7. (w + 1) * WindowSize = w * WindowSize + WindowSize
    BY Sizes
  <1>8. x <= y => v <= w
    BY <1>3, <1>4, <1>5, <1>6, <1>7, Sizes
  <1>9. x + Numbers <= y => v + Windows <= w
    <2>1. w < v + Windows => (w + 1) * WindowSize <= (v + Windows) * WindowSize
      BY Sizes
    <2>2. (v + Windows) * WindowSize = v * WindowSize + Numbers
      BY Sizes DEF Numbers
    <2> QED
      BY <1>3, <1>4, <1>5, <1>7, <2>1, <2>2, Sizes
  <1>10. /\ y - x <= w * WindowSize - v * WindowSize + WindowSize - 1
         /\ y - x >= w * WindowSize - v * WindowSize - WindowSize + 1
    BY <1>3, <1>4, <1>5, Sizes
  <1> QED
    BY <1>1, <1>2, <1>8, <1>9, <1>10

\* The base of the round that R is in.
Round(R) == (R \div Numbers) * Numbers

\* What the receiver makes of the number of a command that is at most a round
\* ahead of the last one it has received.
Ahead(ch, R, x) ==
  /\ Rank(ch, x % Numbers) = x - Round(R)
  /\ InWindow(ch, x % Numbers) <=> TrueWindow(x) <= TrueWindow(R) + FreeWindows - 2
  /\ NotAcknowledged(ch, x % Numbers) <=>
       TrueWindow(x) \in TrueWindow(R) + FreeWindows - 1 .. TrueWindow(R) + FreeWindows

LEMMA AheadIs ==
  ASSUME NEW ch, NEW R \in Nat, ch.rseq = R % Numbers,
         NEW x \in Nat, R <= x, x < R + Numbers
  PROVE  Ahead(ch, R, x) /\ Round(R) \in Nat /\ Round(R) <= R
  <1>1. PICK a \in Nat : a = R \div Numbers
    BY Sizes, Quotient
  <1>2. PICK r \in 0 .. Numbers - 1 : r = R % Numbers
    BY Sizes, Quotient
  <1>3. R = a * Numbers + r
    BY <1>1, <1>2, Sizes, Quotient
  <1>4. PICK b \in Nat : b = x \div Numbers
    BY Sizes, Quotient
  <1>5. PICK t \in 0 .. Numbers - 1 : t = x % Numbers
    BY Sizes, Quotient
  <1>6. x = b * Numbers + t
    BY <1>4, <1>5, Sizes, Quotient
  <1>7. PICK A \in Nat : A = a * Numbers
    BY Sizes
  <1>8. t + (IF t < r THEN Numbers ELSE 0) = x - A
    <2>1. b < a => (b + 1) * Numbers <= A
      BY <1>7, Sizes
    <2>2. a + 1 < b => (a + 2) * Numbers <= b * Numbers
      BY Sizes
    <2>3. (b + 1) * Numbers = b * Numbers + Numbers /\ (a + 2) * Numbers = A + Numbers + Numbers
      BY <1>7, Sizes
    <2>4. b = a \/ b = a + 1
      BY <1>2, <1>3, <1>5, <1>6, <1>7, <2>1, <2>2, <2>3, Sizes
    <2>5. CASE b = a
      <3>1. x = A + t /\ R = A + r
        BY <1>3, <1>6, <1>7, <2>5
      <3> QED
        BY <1>2, <1>5, <3>1, Sizes
    <2>6. CASE b = a + 1
      <3>1. x = A + Numbers + t /\ R = A + r
        BY <1>3, <1>6, <1>7, <2>6, Sizes
      <3> QED
        BY <1>2, <1>5, <3>1, Sizes
    <2> QED
      BY <2>4, <2>5, <2>6
  <1>9. Rank(ch, t) = x - A
    BY <1>2, <1>8 DEF Rank, Wraps
  <1>10. PICK y \in Nat : y = x - A
    BY <1>3, <1>7
  <1>11. PICK v \in Nat : v = TrueWindow(R)
    BY WireWindow
  <1>12. PICK w \in Nat : w = TrueWindow(x)
    BY WireWindow
  <1>13. PICK k \in Nat : k = a * Windows
    BY Sizes
  <1>14. A = k * WindowSize
    BY <1>7, <1>13, Sizes DEF Numbers
  <1>15. R - A = r /\ r \div WindowSize = v - k /\ k <= v
    <2>1. PICK s \in 0 .. WindowSize - 1 : s = R % WindowSize
      BY Sizes, Quotient
    <2>2. R = v * WindowSize + s
      BY <1>11, <2>1, Sizes, Quotient DEF TrueWindow
    <2>3. R - A = r
      BY <1>3, <1>7
    <2>4. v < k => (v + 1) * WindowSize <= k * WindowSize
      BY Sizes
    <2>5. (v + 1) * WindowSize = v * WindowSize + WindowSize
      BY Sizes
    <2>6. k <= v
      BY <1>2, <1>14, <2>1, <2>2, <2>3, <2>4, <2>5, Sizes
    <2>7. PICK d \in Nat : d = v - k
      BY <2>6
    <2>8. d * WindowSize = v * WindowSize - k * WindowSize
      BY <2>7, Sizes
    <2>9. r = d * WindowSize + s
      BY <1>14, <2>2, <2>3, <2>8, Sizes
    <2>10. r \div WindowSize = d
      BY <2>9, Sizes, QuotientIs
    <2> QED
      BY <2>3, <2>6, <2>7, <2>10
  <1>16. y \div WindowSize = w - k
    <2>1. PICK s \in 0 .. WindowSize - 1 : s = x % WindowSize
      BY Sizes, Quotient
    <2>2. x = w * WindowSize + s
      BY <1>12, <2>1, Sizes, Quotient DEF TrueWindow
    <2>3. v <= w
      BY <1>11, <1>12, WindowsGrow
    <2>4. PICK d \in Nat : d = w - k
      BY <1>15, <2>3
    <2>5. d * WindowSize = w * WindowSize - k * WindowSize
      BY <2>4, Sizes
    <2>6. y = d * WindowSize + s
      BY <1>10, <1>14, <2>2, <2>5, Sizes
    <2> QED
      BY <2>1, <2>4, <2>6, Sizes, QuotientIs
  <1>17. Window(ch, t) = y \div WindowSize
    <2>1. PICK q \in Nat : q = t \div WindowSize
      BY Sizes, Quotient
    <2>2. PICK s \in 0 .. WindowSize - 1 : s = t % WindowSize
      BY Sizes, Quotient
    <2>3. t = q * WindowSize + s
      BY <2>1, <2>2, Sizes, Quotient
    <2>4. CASE t < r
      <3>1. PICK p \in Nat : p = q + Windows
        BY Sizes
      <3>2. y = p * WindowSize + s
        BY <1>8, <1>10, <2>3, <2>4, <3>1, Sizes DEF Numbers
      <3>3. y \div WindowSize = p
        BY <3>2, Sizes, QuotientIs
      <3> QED
        BY <1>2, <2>1, <2>4, <3>1, <3>3 DEF Window, Wraps
    <2>5. CASE ~(t < r)
      <3>1. y = t
        BY <1>5, <1>8, <1>10, <2>5
      <3> QED
        BY <1>2, <2>1, <2>5, <3>1 DEF Window, Wraps
    <2> QED
      BY <2>4, <2>5
  <1>18. CurrentWindow(ch) = v - k
    BY <1>2, <1>15 DEF CurrentWindow
  <1>19. Window(ch, t) = w - k
    BY <1>16, <1>17
  <1>20. InWindow(ch, t) <=> w <= v + FreeWindows - 2
    <2>1. v <= w
      BY <1>11, <1>12, WindowsGrow
    <2> QED
      BY <1>15, <1>18, <1>19, <2>1, Sizes DEF InWindow
  <1>21. NotAcknowledged(ch, t) <=> w \in v + FreeWindows - 1 .. v + FreeWindows
    BY <1>15, <1>18, <1>19, Sizes DEF NotAcknowledged
  <1>22. Round(R) = A
    BY <1>1, <1>7 DEF Round
  <1>23. A <= R
    BY <1>3, <1>7
  <1> QED
    BY <1>5, <1>7, <1>9, <1>11, <1>12, <1>20, <1>21, <1>22, <1>23 DEF Ahead

\* A command of the last windows before the last one received is in no window
\* of the receiver.
LEMMA BehindIs ==
  ASSUME NEW ch, NEW R \in Nat, ch.rseq = R % Numbers,
         NEW x \in Nat, x < R, TrueWindow(x) + FreeWindows + 1 >= TrueWindow(R)
  PROVE  ~InWindow(ch, x % Numbers)
  <1>1. PICK v \in Nat : v = TrueWindow(R)
    BY WireWindow
  <1>2. PICK w \in Nat : w = TrueWindow(x)
    BY WireWindow
  <1>3. PICK y \in Nat : y = x + Numbers
    BY Sizes
  <1>4. y % Numbers = x % Numbers /\ TrueWindow(y) = w + Windows
    BY <1>2, <1>3, NextRound
  <1>5. y < R + Numbers
    BY <1>3, Sizes
  <1>6. w + Windows > v
    BY <1>1, <1>2, Sizes, WindowAssumption
  <1>7. R <= y
    <2>1. y < R => w + Windows <= v
      BY <1>1, <1>4, WindowsGrow
    <2> QED
      BY <1>1, <1>2, <1>3, <1>6, <2>1, Sizes
  <1>8. Ahead(ch, R, y)
    BY <1>5, <1>7, AheadIs
  <1>9. ~(w + Windows <= v + FreeWindows - 2)
    BY <1>1, <1>2, Sizes
  <1> QED
    BY <1>1, <1>4, <1>8, <1>9 DEF Ahead

\* Numbers less than a round apart differ on the wire.
LEMMA SameNumber ==
  ASSUME NEW x \in Nat, NEW y \in Nat, x % Numbers = y % Numbers,
         x < y + Numbers, y < x + Numbers
  PROVE  x = y
  <1>1. PICK q \in Nat : q = x \div Numbers
    BY Sizes, Quotient
  <1>2. PICK s \in Nat : s = y \div Numbers
    BY Sizes, Quotient
  <1>3. PICK r \in 0 .. Numbers - 1 : r = x % Numbers
    BY Sizes, Quotient
  <1>4. x = q * Numbers + r
    BY <1>1, <1>3, Sizes, Quotient
  <1>5. y = s * Numbers + r
    <2>1. r = y % Numbers
      BY <1>3
    <2> QED
      BY <1>2, <2>1, Sizes, Quotient
  <1>6. q < s => (q + 1) * Numbers <= s * Numbers
    BY Sizes
  <1>7. s < q => (s + 1) * Numbers <= q * Numbers
    BY Sizes
  <1>8. (q + 1) * Numbers = q * Numbers + Numbers /\ (s + 1) * Numbers = s * Numbers + Numbers
    BY Sizes
  <1>9. q = s
    BY <1>4, <1>5, <1>6, <1>7, <1>8, Sizes
  <1> QED
    BY <1>4, <1>5, <1>9

--------------------------------------------------------------------------------
(* The packets of a channel's log, and sequences of growing numbers. *)

\* The log L of channel c has a packet of this size after the number s.
IsPacket(L, c, s, size) ==
  /\ s \in Nat /\ size \in Nat \ {0} /\ s + size <= Len(L)
  /\ \A i \in 1 .. size : L[s + i] = Command(c, s, size, i)

\* A datagram that is no older than this many windows may hold any fragment of
\* such a packet.
Fitting(size, life) == life * WindowSize + size - 1 <= (FreeWindows + 1) * WindowSize

Tiled(L, c, life) ==
  \A n \in 1 .. Len(L) : \E s \in Nat, size \in Nat \ {0} :
    IsPacket(L, c, s, size) /\ n \in s + 1 .. s + size /\ Fitting(size, life)

Ends(L) == {n \in 1 .. Len(L) : L[n].pkt = n}
Boundary(L, n) == n = 0 \/ n \in Ends(L)

LEMMA InPacket ==
  ASSUME NEW L \in Seq(Logged), NEW c, NEW s, NEW size, IsPacket(L, c, s, size),
         NEW n \in s + 1 .. s + size
  PROVE  /\ n \in 1 .. Len(L) /\ n - s \in 1 .. size
         /\ L[n] = Command(c, s, size, n - s)
         /\ L[n].frag = n - s - 1 /\ L[n].pkt = s + size
         /\ n \in Ends(L) <=> n = s + size
  <1>1. s \in Nat /\ size \in Nat \ {0} /\ s + size <= Len(L) /\ Len(L) \in Nat
    BY DEF IsPacket
  <1>2. PICK i \in 1 .. size : n = s + i
    <2>1. n - s \in 1 .. size
      BY <1>1
    <2> QED
      BY <1>1, <2>1
  <1>3. L[n] = Command(c, s, size, i)
    BY <1>2 DEF IsPacket
  <1>4. i = n - s /\ n \in 1 .. Len(L)
    BY <1>1, <1>2
  <1>5. L[n].frag = i - 1 /\ L[n].pkt = s + size
    BY <1>3 DEF Command
  <1> QED
    BY <1>1, <1>2, <1>3, <1>4, <1>5 DEF Ends

LEMMA SamePacket ==
  ASSUME NEW L \in Seq(Logged), NEW c, NEW s, NEW size, IsPacket(L, c, s, size),
         NEW t, NEW more, IsPacket(L, c, t, more),
         NEW n \in s + 1 .. s + size, n \in t + 1 .. t + more
  PROVE  s = t /\ size = more
  <1>1. s \in Nat /\ size \in Nat /\ t \in Nat /\ more \in Nat
    BY DEF IsPacket
  <1>2. n - s - 1 = n - t - 1 /\ s + size = t + more
    BY InPacket
  <1> QED
    BY <1>1, <1>2

\* A boundary between packets is in none.
LEMMA OutsidePackets ==
  ASSUME NEW L \in Seq(Logged), NEW c, NEW s, NEW size, IsPacket(L, c, s, size),
         NEW n, Boundary(L, n)
  PROVE  n \in Nat /\ (s + size <= n \/ n <= s)
  <1>1. s \in Nat /\ size \in Nat /\ n \in Nat
    BY DEF IsPacket, Boundary, Ends
  <1>2. SUFFICES ASSUME s < n, n < s + size
                 PROVE  FALSE
    BY <1>1
  <1>3. n \in s + 1 .. s + size /\ n \in Ends(L)
    BY <1>1, <1>2 DEF Boundary
  <1>4. n = s + size
    BY <1>3, InPacket
  <1> QED
    BY <1>1, <1>2, <1>4

LEMMA PacketBoundaries ==
  ASSUME NEW L \in Seq(Logged), NEW c, NEW life, Tiled(L, c, life),
         NEW s, NEW size, IsPacket(L, c, s, size)
  PROVE  Boundary(L, s) /\ s + size \in Ends(L)
  <1>1. s \in Nat /\ size \in Nat \ {0} /\ s + size <= Len(L) /\ Len(L) \in Nat
    BY DEF IsPacket
  <1>2. s + size \in Ends(L)
    <2>1. s + size \in s + 1 .. s + size
      BY <1>1
    <2> QED
      BY <2>1, InPacket
  <1>3. CASE s = 0
    BY <1>2, <1>3 DEF Boundary
  <1>4. CASE s # 0
    <2>1. s \in 1 .. Len(L)
      BY <1>1, <1>4
    <2>2. PICK t \in Nat, more \in Nat \ {0} : IsPacket(L, c, t, more) /\ s \in t + 1 .. t + more
      BY <2>1 DEF Tiled
    <2>3. s = t + more
      <3>1. SUFFICES ASSUME s # t + more
                     PROVE  FALSE
        OBVIOUS
      <3>2. s + 1 \in s + 1 .. s + size /\ s + 1 \in t + 1 .. t + more
        BY <1>1, <2>2, <3>1
      <3>3. s = t
        BY <2>2, <3>2, SamePacket
      <3> QED
        BY <1>1, <2>2, <3>3
    <2>4. s \in Ends(L)
      BY <2>2, <2>3, InPacket
    <2> QED
      BY <1>2, <2>4 DEF Boundary
  <1> QED
    BY <1>3, <1>4

\* What a packet more does to the log.
Extended(L, M, c, life, n) ==
  /\ M \in Seq(Logged) /\ \A s, size : IsPacket(L, c, s, size) => IsPacket(M, c, s, size)
  /\ \A i \in 1 .. Len(L) : M[i] = L[i]
  /\ Tiled(M, c, life) /\ Ends(M) = Ends(L) \cup {n} /\ n = Len(M) /\ n > Len(L)

LEMMA PacketMore ==
  ASSUME NEW L \in Seq(Logged), NEW c, NEW life, Tiled(L, c, life),
         NEW size \in Nat \ {0}, Fitting(size, life),
         NEW new \in Seq(Logged), new = [i \in 1 .. size |-> Command(c, Len(L), size, i)],
         NEW M, M = L \o new
  PROVE  Extended(L, M, c, life, Len(L) + size)
  <1>1. PICK len \in Nat : len = Len(L)
    OBVIOUS
  <1>2. Len(new) = size /\ M \in Seq(Logged) /\ Len(M) = len + size
    BY <1>1, ConcatProperties
  <1>3. \A i \in 1 .. len : M[i] = L[i]
    BY <1>1, <1>2, ConcatProperties
  <1>4. \A i \in 1 .. size : M[len + i] = Command(c, len, size, i)
    <2>1. TAKE i \in 1 .. size
    <2>2. M[len + i] = new[i]
      BY <1>1, <1>2, ConcatProperties
    <2> QED
      BY <1>1, <2>2
  <1>5. IsPacket(M, c, len, size)
    BY <1>1, <1>2, <1>4 DEF IsPacket
  <1>6. ASSUME NEW s, NEW k, IsPacket(L, c, s, k)
        PROVE  IsPacket(M, c, s, k)
    <2>1. s \in Nat /\ k \in Nat \ {0} /\ s + k <= len
      BY <1>1, <1>6 DEF IsPacket
    <2>2. \A i \in 1 .. k : M[s + i] = L[s + i]
      <3>1. TAKE i \in 1 .. k
      <3>2. s + i \in 1 .. len
        BY <2>1
      <3> QED
        BY <1>3, <3>2
    <2>3. s + k <= Len(M)
      BY <1>2, <2>1
    <2> QED
      BY <1>6, <2>1, <2>2, <2>3 DEF IsPacket
  <1>7. Tiled(M, c, life)
    <2>1. SUFFICES ASSUME NEW n \in 1 .. len + size
                   PROVE  \E s \in Nat, k \in Nat \ {0} :
                            IsPacket(M, c, s, k) /\ n \in s + 1 .. s + k /\ Fitting(k, life)
      BY <1>2 DEF Tiled
    <2>2. CASE n <= len
      <3>1. n \in 1 .. Len(L)
        BY <1>1, <2>2
      <3>2. PICK s \in Nat, k \in Nat \ {0} :
              IsPacket(L, c, s, k) /\ n \in s + 1 .. s + k /\ Fitting(k, life)
        BY <3>1 DEF Tiled
      <3> QED
        BY <1>6, <3>2
    <2>3. CASE ~(n <= len)
      <3>1. n \in len + 1 .. len + size
        BY <1>1, <2>3
      <3> QED
        BY <1>1, <1>5, <3>1
    <2> QED
      BY <2>2, <2>3
  <1>8. Ends(M) = Ends(L) \cup {len + size}
    <2>1. ASSUME NEW n \in 1 .. len
          PROVE  n \in Ends(M) <=> n \in Ends(L)
      <3>1. M[n] = L[n] /\ n \in 1 .. len + size
        BY <1>1, <1>3
      <3> QED
        BY <1>1, <1>2, <3>1 DEF Ends
    <2>2. ASSUME NEW n \in len + 1 .. len + size
          PROVE  n \in Ends(M) <=> n = len + size
      BY <1>2, <1>5, InPacket, ZenonT(30)
    <2>3. Ends(M) \subseteq 1 .. len + size /\ Ends(L) \subseteq 1 .. len
      BY <1>1, <1>2 DEF Ends
    <2>4. ASSUME NEW n
          PROVE  n \in Ends(M) <=> n \in Ends(L) \/ n = len + size
      <3>1. CASE n \in 1 .. len
        BY <1>1, <2>1, <3>1
      <3>2. CASE n \in len + 1 .. len + size
        BY <1>1, <2>2, <2>3, <3>2
      <3>3. CASE n \notin 1 .. len + size
        BY <1>1, <2>3, <3>3
      <3> QED
        BY <1>1, <3>1, <3>2, <3>3
    <2> QED
      BY <2>4
  <1>9. len + size > len
    BY <1>1
  <1> QED
    BY <1>1, <1>2, <1>3, <1>6, <1>7, <1>8, <1>9 DEF Extended

\* The sequence q has the numbers of S, each once and in their order.
Enumerates(q, S) ==
  /\ q \in Seq(Nat) /\ \A i, j \in 1 .. Len(q) : i < j => q[i] < q[j]
  /\ \A i \in 1 .. Len(q) : q[i] \in S
  /\ \A n \in S : \E i \in 1 .. Len(q) : q[i] = n

LastOf(q) == IF q = <<>> THEN 0 ELSE q[Len(q)]

LEMMA EnumeratesNone == Enumerates(<<>>, {})
  BY DEF Enumerates

LEMMA EnumeratesJoin ==
  ASSUME NEW q, NEW S, Enumerates(q, S), NEW r, NEW T, Enumerates(r, T),
         \A m \in S : \A n \in T : m < n
  PROVE  Enumerates(q \o r, S \cup T)
  <1>1. PICK k \in Nat : k = Len(q)
    BY DEF Enumerates
  <1>2. PICK l \in Nat : l = Len(r)
    BY DEF Enumerates
  <1>3. PICK p : p = q \o r
    OBVIOUS
  <1>4. q \in Seq(Nat) /\ r \in Seq(Nat)
    BY DEF Enumerates
  <1>5. p \in Seq(Nat) /\ Len(p) = k + l
    BY <1>1, <1>2, <1>3, <1>4, ConcatProperties
  <1>6. \A i \in 1 .. k : p[i] = q[i] /\ q[i] \in S
    BY <1>1, <1>2, <1>3, <1>4, ConcatProperties DEF Enumerates
  <1>7. ASSUME NEW i \in k + 1 .. k + l
        PROVE  p[i] = r[i - k] /\ i - k \in 1 .. l /\ r[i - k] \in T
    <2>1. i - k \in 1 .. l /\ i \in 1 .. Len(q) + Len(r) /\ ~(i <= Len(q))
      BY <1>1, <1>2
    <2>2. p[i] = r[i - Len(q)]
      BY <1>3, <1>4, <2>1, ConcatProperties
    <2> QED
      BY <1>1, <1>2, <2>1, <2>2 DEF Enumerates
  <1>8. ASSUME NEW i \in 1 .. k + l, NEW j \in 1 .. k + l, i < j
        PROVE  p[i] < p[j]
    <2>1. CASE j <= k
      <3>1. i \in 1 .. k /\ j \in 1 .. k
        BY <1>1, <1>8, <2>1
      <3> QED
        BY <1>1, <1>6, <1>8, <3>1 DEF Enumerates
    <2>2. CASE i <= k /\ ~(j <= k)
      <3>1. i \in 1 .. k /\ j \in k + 1 .. k + l
        BY <1>1, <2>2
      <3> QED
        BY <1>6, <1>7, <3>1
    <2>3. CASE ~(i <= k)
      <3>1. i \in k + 1 .. k + l /\ j \in k + 1 .. k + l
        BY <1>1, <1>8, <2>3
      <3>2. i - k \in 1 .. l /\ j - k \in 1 .. l /\ i - k < j - k
        BY <1>1, <1>8, <3>1
      <3>3. r[i - k] < r[j - k]
        BY <1>2, <3>2 DEF Enumerates
      <3> QED
        BY <1>7, <3>1, <3>3
    <2> QED
      BY <2>1, <2>2, <2>3
  <1>9. ASSUME NEW i \in 1 .. k + l
        PROVE  p[i] \in S \cup T
    <2>1. i \in 1 .. k \/ i \in k + 1 .. k + l
      BY <1>1
    <2> QED
      BY <1>6, <1>7, <2>1
  <1>10. ASSUME NEW n \in S
         PROVE  \E i \in 1 .. k + l : p[i] = n
    <2>1. PICK i \in 1 .. k : q[i] = n
      BY <1>1 DEF Enumerates
    <2>2. i \in 1 .. k + l
      BY <1>1, <1>2
    <2> QED
      BY <1>6, <2>1, <2>2
  <1>11. ASSUME NEW n \in T
         PROVE  \E i \in 1 .. k + l : p[i] = n
    <2>1. PICK j \in 1 .. l : r[j] = n
      BY <1>2 DEF Enumerates
    <2>2. PICK i \in k + 1 .. k + l : i = k + j
      BY <1>1, <1>2
    <2>3. p[i] = r[i - k] /\ i - k = j
      BY <1>1, <1>7, <2>2
    <2>4. i \in 1 .. k + l
      BY <1>1, <2>2
    <2> QED
      BY <2>1, <2>3, <2>4
  <1> QED
    BY <1>3, <1>5, <1>8, <1>9, <1>10, <1>11 DEF Enumerates

LEMMA EnumeratesOne ==
  ASSUME NEW n \in Nat
  PROVE  Enumerates(<<n>>, {n})
  <1>1. <<n>> \in Seq(Nat) /\ Len(<<n>>) = 1 /\ <<n>>[1] = n
    OBVIOUS
  <1> QED
    BY <1>1 DEF Enumerates

\* The last number is the largest.
LEMMA LastIs ==
  ASSUME NEW q, NEW S, Enumerates(q, S)
  PROVE  /\ LastOf(q) \in Nat /\ \A n \in S : n <= LastOf(q)
         /\ LastOf(q) = 0 \/ LastOf(q) \in S
         /\ q = <<>> => S = {} /\ LastOf(q) = 0
         /\ q # <<>> => LastOf(q) = q[Len(q)]
  <1>1. q \in Seq(Nat)
    BY DEF Enumerates
  <1>2. PICK k \in Nat : k = Len(q)
    BY <1>1
  <1>3. CASE q = <<>>
    <2>1. k = 0 /\ LastOf(q) = 0
      BY <1>2, <1>3 DEF LastOf
    <2>2. \A n \in S : FALSE
      BY <1>2, <2>1 DEF Enumerates
    <2> QED
      BY <1>3, <2>1, <2>2
  <1>4. CASE q # <<>>
    <2>1. LastOf(q) = q[k] /\ k \in 1 .. k
      BY <1>1, <1>2, <1>4, EmptySeq DEF LastOf
    <2>2. q[k] \in S /\ q[k] \in Nat
      BY <1>1, <1>2, <2>1 DEF Enumerates
    <2>3. ASSUME NEW n \in S
          PROVE  n <= q[k]
      <3>1. PICK i \in 1 .. k : q[i] = n
        BY <1>2 DEF Enumerates
      <3>2. q[i] \in Nat
        BY <1>1, <1>2
      <3>3. i < k => q[i] < q[k]
        BY <1>2, <2>1 DEF Enumerates
      <3>4. i = k \/ i < k
        BY <1>2
      <3> QED
        BY <2>2, <3>1, <3>2, <3>3, <3>4
    <2> QED
      BY <1>2, <1>4, <2>1, <2>2, <2>3
  <1> QED
    BY <1>3, <1>4

\* What enumerates the numbers up to a bound is a prefix of what enumerates all.
LEMMA EnumeratesPrefix ==
  ASSUME NEW p, NEW S, Enumerates(p, S), NEW R \in Nat,
         NEW q, Enumerates(q, {n \in S : n <= R})
  PROVE  Len(q) <= Len(p) /\ q = SubSeq(p, 1, Len(q))
  <1>1. p \in Seq(Nat) /\ q \in Seq(Nat)
    BY DEF Enumerates
  <1>2. PICK k \in Nat : k = Len(p)
    BY <1>1
  <1>3. PICK l \in Nat : l = Len(q)
    BY <1>1
  <1>4. PICK Bad \in SUBSET (1 .. l) : Bad = {i \in 1 .. l : ~(i <= k /\ q[i] = p[i])}
    OBVIOUS
  <1>5. Bad = {}
    <2>1. SUFFICES ASSUME Bad # {}
                   PROVE  FALSE
      OBVIOUS
    <2>2. PICK i \in Bad : \A j \in Bad : ~(<<j, i>> \in OpToRel(<, Nat))
      <3>1. Bad \subseteq Nat
        BY <1>3
      <3> QED
        BY <2>1, <3>1, NatLessThanWellFounded, WFMin
    <2>3. i \in 1 .. l
      BY <1>4
    <2>4. ASSUME NEW j \in 1 .. l, j < i
          PROVE  j <= k /\ q[j] = p[j]
      <3>1. j \in Bad => <<j, i>> \in OpToRel(<, Nat)
        BY <2>3, <2>4 DEF OpToRel
      <3> QED
        BY <1>4, <2>2, <3>1
    <2>5. q[i] \in S /\ q[i] <= R
      BY <1>3, <2>3 DEF Enumerates
    <2>6. PICK m \in 1 .. k : p[m] = q[i]
      BY <1>2, <2>5 DEF Enumerates
    <2>7. ~(m < i)
      <3>1. SUFFICES ASSUME m < i
                     PROVE  FALSE
        OBVIOUS
      <3>2. m \in 1 .. l
        BY <2>3, <3>1
      <3>3. q[m] = p[m] /\ q[m] < q[i] /\ q[m] \in Nat
        BY <1>1, <1>3, <2>3, <2>4, <3>1, <3>2 DEF Enumerates
      <3> QED
        BY <2>6, <3>3
    <2>8. i <= m /\ i \in 1 .. k
      BY <2>3, <2>6, <2>7
    <2>9. p[i] \in Nat /\ q[i] \in Nat /\ p[m] \in Nat
      BY <1>1, <1>2, <1>3, <2>3, <2>6, <2>8
    <2>10. p[i] <= q[i]
      <3>1. i < m => p[i] < p[m]
        BY <1>2, <2>6, <2>8 DEF Enumerates
      <3>2. i = m \/ i < m
        BY <2>3, <2>6, <2>8
      <3> QED
        BY <2>6, <2>9, <3>1, <3>2
    <2>11. p[i] \in {n \in S : n <= R}
      <3>1. p[i] \in S /\ p[i] <= R
        BY <1>2, <2>5, <2>8, <2>9, <2>10 DEF Enumerates
      <3> QED
        BY <3>1
    <2>12. PICK j \in 1 .. l : q[j] = p[i]
      BY <1>3, <2>11 DEF Enumerates
    <2>13. ~(j < i)
      <3>1. SUFFICES ASSUME j < i
                     PROVE  FALSE
        OBVIOUS
      <3>2. j \in 1 .. k /\ q[j] = p[j]
        BY <2>4, <3>1
      <3>3. p[j] < p[i]
        BY <1>2, <2>8, <3>1, <3>2 DEF Enumerates
      <3> QED
        BY <2>9, <2>12, <3>2, <3>3
    <2>14. i < j => q[i] < q[j]
      BY <1>3, <2>3 DEF Enumerates
    <2>15. q[i] = p[i]
      BY <2>3, <2>9, <2>10, <2>12, <2>13, <2>14
    <2> QED
      BY <1>4, <2>8, <2>15
  <1>6. \A i \in 1 .. l : i <= k /\ q[i] = p[i]
    BY <1>4, <1>5
  <1>7. l <= k
    <2>1. l = 0 \/ l \in 1 .. l
      OBVIOUS
    <2> QED
      BY <1>6, <2>1
  <1>8. PICK r : r = SubSeq(p, 1, l)
    OBVIOUS
  <1>9. r \in Seq(Nat) /\ Len(r) = l /\ \A i \in 1 .. l : r[i] = p[i]
    BY <1>1, <1>2, <1>7, <1>8
  <1>10. q = r
    <2>1. Len(q) = Len(r) /\ \A i \in 1 .. Len(q) : q[i] = r[i]
      BY <1>3, <1>6, <1>9
    <2> QED
      BY <1>1, <1>9, <2>1, SeqEqual
  <1> QED
    BY <1>2, <1>3, <1>7, <1>8, <1>10

--------------------------------------------------------------------------------
(* Parts of lists, and the packets of a channel in a list. *)

\* r has what is in q at the positions of S, in their order.
ListsAt(r, q, S) == \E f : Enumerates(f, S) /\ r = [k \in 1 .. Len(f) |-> q[f[k]]]

LEMMA PickLists ==
  ASSUME NEW q, NEW S, S \subseteq Nat, IsFiniteSet(S)
  PROVE  ListsAt(Pick(q, S), q, S)
  <1>1. PICK r : r = Pick(q, S)
    OBVIOUS
  <1>2. PICK n \in Nat : n = Cardinality(S)
    BY FS_CardinalityType
  <1>3. PICK g : g = [i \in S |-> RankIn(i, S)]
    OBVIOUS
  <1>4. g \in [S -> 1 .. n]
    BY <1>2, <1>3, RankType
  <1>5. \A i, j \in S : i < j => g[i] < g[j]
    BY <1>3, RankGrows
  <1>6. \A i, j \in S : g[i] = g[j] => i = j
    <2>1. TAKE i, j \in S
    <2>2. i \in Nat /\ j \in Nat /\ g[i] \in Nat /\ g[j] \in Nat
      BY <1>4
    <2> QED
      BY <1>5, <2>2
  <1>7. g \in Injection(S, 1 .. n)
    BY <1>4, <1>6 DEF Injection, IsInjective
  <1>8. IsFiniteSet(1 .. n) /\ Cardinality(1 .. n) = n
    <2>1. 1 \in Int /\ n \in Int
      BY <1>2
    <2>2. IsFiniteSet(1 .. n) /\ Cardinality(1 .. n) = IF 1 > n THEN 0 ELSE n - 1 + 1
      BY <2>1, FS_Interval
    <2> QED
      BY <1>2, <2>2
  <1>9. g \in Surjection(S, 1 .. n)
    BY <1>2, <1>7, <1>8, FS_Injection
  <1>10. \A k \in 1 .. n : \E i \in S : g[i] = k
    BY <1>9 DEF Surjection
  <1>11. PICK f : f = [k \in 1 .. n |-> CHOOSE i \in S : RankIn(i, S) = k]
    OBVIOUS
  <1>12. ASSUME NEW k \in 1 .. n
         PROVE  f[k] \in S /\ g[f[k]] = k
    <2>1. \E i \in S : RankIn(i, S) = k
      BY <1>3, <1>10
    <2>2. f[k] \in S /\ RankIn(f[k], S) = k
      BY <1>11, <2>1
    <2> QED
      BY <1>3, <2>2
  <1>13. f \in Seq(Nat) /\ Len(f) = n
    <2>1. \A k \in 1 .. n : f[k] \in Nat
      BY <1>12
    <2> QED
      BY <1>11, <2>1
  <1>14. r = [k \in 1 .. n |-> q[f[k]]]
    <2>1. r = [k \in 1 .. n |-> q[CHOOSE i \in S : RankIn(i, S) = k]]
      BY <1>1, <1>2 DEF Pick, RankIn
    <2> QED
      BY <1>11, <2>1
  <1>15. \A i, j \in 1 .. n : i < j => f[i] < f[j]
    <2>1. TAKE i, j \in 1 .. n
    <2>2. f[i] \in S /\ f[j] \in S /\ g[f[i]] = i /\ g[f[j]] = j
      BY <1>12
    <2>3. f[i] \in Nat /\ f[j] \in Nat /\ i \in Nat /\ j \in Nat
      BY <1>13, <2>2
    <2>4. f[j] < f[i] => j < i
      BY <1>5, <2>2
    <2> QED
      BY <2>2, <2>3, <2>4
  <1>16. \A p \in S : \E k \in 1 .. n : f[k] = p
    <2>1. TAKE p \in S
    <2>2. g[p] \in 1 .. n
      BY <1>4
    <2>3. f[g[p]] \in S /\ g[f[g[p]]] = g[p]
      BY <1>12, <2>2
    <2>4. f[g[p]] = p
      BY <1>6, <2>3
    <2> QED
      BY <2>2, <2>4
  <1>17. Enumerates(f, S)
    BY <1>12, <1>13, <1>15, <1>16 DEF Enumerates
  <1> QED
    BY <1>1, <1>13, <1>14, <1>17 DEF ListsAt

LEMMA EnumeratesSame ==
  ASSUME NEW p, NEW q, NEW S, Enumerates(p, S), Enumerates(q, S)
  PROVE  p = q
  <1>1. PICK R \in Nat : R = LastOf(p)
    BY LastIs
  <1>2. {n \in S : n <= R} = S
    BY <1>1, LastIs
  <1>3. Len(q) <= Len(p) /\ q = SubSeq(p, 1, Len(q))
    BY <1>2, EnumeratesPrefix
  <1>4. Len(p) <= Len(q)
    BY <1>2, EnumeratesPrefix
  <1>5. p \in Seq(Nat) /\ Len(p) \in Nat /\ Len(q) \in Nat
    BY DEF Enumerates
  <1>6. Len(p) = Len(q)
    BY <1>3, <1>4, <1>5
  <1> QED
    BY <1>3, <1>5, <1>6, SubSeqFull

LEMMA ListsSame ==
  ASSUME NEW r, NEW t, NEW q, NEW S, ListsAt(r, q, S), ListsAt(t, q, S)
  PROVE  r = t
  <1>1. PICK f : Enumerates(f, S) /\ r = [k \in 1 .. Len(f) |-> q[f[k]]]
    BY DEF ListsAt
  <1>2. PICK g : Enumerates(g, S) /\ t = [k \in 1 .. Len(g) |-> q[g[k]]]
    BY DEF ListsAt
  <1>3. f = g
    BY <1>1, <1>2, EnumeratesSame
  <1> QED
    BY <1>1, <1>2, <1>3

AtChannel(q, c) == {i \in DOMAIN q : q[i].ch = c}

LEMMA ChannelLists ==
  ASSUME NEW T, NEW q \in Seq(T), NEW c
  PROVE  ListsAt(OfChannel(q, c), q, AtChannel(q, c)) /\ OfChannel(q, c) \in Seq(T)
  <1>1. DOMAIN q = 1 .. Len(q) /\ Len(q) \in Nat
    OBVIOUS
  <1>2. PICK S \in SUBSET (1 .. Len(q)) : S = AtChannel(q, c)
    BY <1>1 DEF AtChannel
  <1>3. IsFiniteSet(S) /\ S \subseteq Nat
    <2>1. IsFiniteSet(1 .. Len(q))
      BY <1>1, FS_Interval
    <2>2. IsFiniteSet(S)
      BY <2>1, FS_Subset
    <2> QED
      BY <1>1, <2>2
  <1>4. ListsAt(Pick(q, S), q, S)
    BY <1>3, PickLists
  <1>5. OfChannel(q, c) = Pick(q, S)
    BY <1>2 DEF OfChannel, AtChannel
  <1>6. PICK f : Enumerates(f, S) /\ Pick(q, S) = [k \in 1 .. Len(f) |-> q[f[k]]]
    BY <1>4 DEF ListsAt
  <1>7. \A k \in 1 .. Len(f) : q[f[k]] \in T
    <2>1. TAKE k \in 1 .. Len(f)
    <2>2. f[k] \in 1 .. Len(q)
      BY <1>6 DEF Enumerates
    <2> QED
      BY <2>2
  <1>8. Len(f) \in Nat
    BY <1>6 DEF Enumerates
  <1>9. Pick(q, S) \in Seq(T)
    BY <1>6, <1>7, <1>8
  <1> QED
    BY <1>2, <1>4, <1>5, <1>9

LEMMA ChannelJoin ==
  ASSUME NEW T, NEW q \in Seq(T), NEW r \in Seq(T), NEW c
  PROVE  OfChannel(q \o r, c) = OfChannel(q, c) \o OfChannel(r, c)
  <1>1. PICK m \in Nat : m = Len(q) /\ DOMAIN q = 1 .. m
    OBVIOUS
  <1>2. PICK n \in Nat : n = Len(r) /\ DOMAIN r = 1 .. n
    OBVIOUS
  <1>3. PICK p \in Seq(T) : p = q \o r /\ Len(p) = m + n
    BY <1>1, <1>2, ConcatProperties
  <1>4. DOMAIN p = 1 .. m + n
    BY <1>3
  <1>5. \A i \in 1 .. m : p[i] = q[i]
    BY <1>1, <1>2, <1>3, ConcatProperties
  <1>6. \A i \in 1 .. n : p[m + i] = r[i]
    BY <1>1, <1>2, <1>3, ConcatProperties
  <1>7. PICK f : Enumerates(f, AtChannel(q, c)) /\ OfChannel(q, c) = [k \in 1 .. Len(f) |-> q[f[k]]]
    BY ChannelLists DEF ListsAt
  <1>8. PICK g : Enumerates(g, AtChannel(r, c)) /\ OfChannel(r, c) = [k \in 1 .. Len(g) |-> r[g[k]]]
    BY ChannelLists DEF ListsAt
  <1>9. PICK k \in Nat : k = Len(f) /\ f \in Seq(Nat) /\ \A i \in 1 .. k : f[i] \in 1 .. m
    BY <1>1, <1>7 DEF Enumerates, AtChannel
  <1>10. PICK l \in Nat : l = Len(g) /\ g \in Seq(Nat) /\ \A i \in 1 .. l : g[i] \in 1 .. n
    BY <1>2, <1>8 DEF Enumerates, AtChannel
  <1>11. PICK h : h = [i \in 1 .. l |-> m + g[i]]
    OBVIOUS
  <1>12. PICK B : B = {m + i : i \in AtChannel(r, c)}
    OBVIOUS
  <1>13. Enumerates(h, B)
    <2>1. \A i \in 1 .. l : h[i] \in Nat /\ h[i] \in B
      BY <1>8, <1>10, <1>11, <1>12 DEF Enumerates
    <2>2. h \in Seq(Nat) /\ Len(h) = l
      BY <1>11, <2>1
    <2>3. \A i, j \in 1 .. l : i < j => h[i] < h[j]
      <3>1. TAKE i, j \in 1 .. l
      <3>2. i < j => g[i] < g[j]
        BY <1>8, <1>10 DEF Enumerates
      <3>3. g[i] \in Nat /\ g[j] \in Nat /\ h[i] = m + g[i] /\ h[j] = m + g[j]
        BY <1>10, <1>11
      <3> QED
        BY <3>2, <3>3
    <2>4. \A x \in B : \E i \in 1 .. l : h[i] = x
      <3>1. TAKE x \in B
      <3>2. PICK y \in AtChannel(r, c) : x = m + y
        BY <1>12
      <3>3. PICK i \in 1 .. l : g[i] = y
        BY <1>8, <1>10 DEF Enumerates
      <3> QED
        BY <1>11, <3>2, <3>3
    <2> QED
      BY <2>1, <2>2, <2>3, <2>4 DEF Enumerates
  <1>14. PICK e : e = f \o h
    OBVIOUS
  <1>15. h \in Seq(Nat) /\ Len(h) = l
    BY <1>11, <1>13 DEF Enumerates
  <1>16. e \in Seq(Nat) /\ Len(e) = k + l
    BY <1>9, <1>14, <1>15, ConcatProperties
  <1>17. Enumerates(e, AtChannel(q, c) \cup B)
    <2>1. \A x \in AtChannel(q, c) : x \in 1 .. m
      BY <1>1 DEF AtChannel
    <2>2. \A y \in B : \E i \in 1 .. n : y = m + i
      BY <1>2, <1>12 DEF AtChannel
    <2>3. \A x \in AtChannel(q, c) : \A y \in B : x < y
      BY <2>1, <2>2
    <2> QED
      BY <1>7, <1>13, <1>14, <2>3, EnumeratesJoin
  <1>18. AtChannel(p, c) = AtChannel(q, c) \cup B
    <2>1. ASSUME NEW x \in AtChannel(p, c)
          PROVE  x \in AtChannel(q, c) \cup B
      <3>1. x \in 1 .. m + n /\ p[x].ch = c
        BY <1>4 DEF AtChannel
      <3>2. CASE x <= m
        <4>1. x \in 1 .. m
          BY <3>1, <3>2
        <4> QED
          BY <1>1, <1>5, <3>1, <4>1 DEF AtChannel
      <3>3. CASE ~(x <= m)
        <4>1. PICK i \in 1 .. n : x = m + i
          <5>1. x - m \in 1 .. n /\ x = m + (x - m)
            BY <3>1, <3>3
          <5> QED
            BY <5>1
        <4>2. r[i].ch = c
          BY <1>6, <3>1, <4>1
        <4> QED
          BY <1>2, <1>12, <4>1, <4>2 DEF AtChannel
      <3> QED
        BY <3>2, <3>3
    <2>2. ASSUME NEW x \in AtChannel(q, c)
          PROVE  x \in AtChannel(p, c)
      <3>1. x \in 1 .. m /\ q[x].ch = c
        BY <1>1 DEF AtChannel
      <3>2. x \in 1 .. m + n
        BY <3>1
      <3> QED
        BY <1>4, <1>5, <3>1, <3>2 DEF AtChannel
    <2>3. ASSUME NEW i \in AtChannel(r, c)
          PROVE  m + i \in AtChannel(p, c)
      <3>1. i \in 1 .. n /\ r[i].ch = c
        BY <1>2 DEF AtChannel
      <3>2. m + i \in 1 .. m + n
        BY <3>1
      <3> QED
        BY <1>4, <1>6, <3>1, <3>2 DEF AtChannel
    <2> QED
      BY <1>12, <2>1, <2>2, <2>3
  <1>19. PICK t : t = [i \in 1 .. Len(e) |-> p[e[i]]]
    OBVIOUS
  <1>20. t = OfChannel(p, c)
    <2>1. ListsAt(t, p, AtChannel(p, c))
      BY <1>17, <1>18, <1>19 DEF ListsAt
    <2>2. ListsAt(OfChannel(p, c), p, AtChannel(p, c))
      BY ChannelLists
    <2> QED
      BY <2>1, <2>2, ListsSame
  <1>21. PICK u : u = OfChannel(q, c)
    OBVIOUS
  <1>22. PICK v : v = OfChannel(r, c)
    OBVIOUS
  <1>23. u \in Seq(T) /\ Len(u) = k /\ v \in Seq(T) /\ Len(v) = l
    <2>1. u \in Seq(T) /\ v \in Seq(T)
      BY <1>21, <1>22, ChannelLists
    <2>2. u = [i \in 1 .. k |-> q[f[i]]] /\ v = [i \in 1 .. l |-> r[g[i]]]
      BY <1>7, <1>8, <1>9, <1>10, <1>21, <1>22
    <2>3. DOMAIN u = 1 .. k /\ DOMAIN v = 1 .. l
      BY <2>2
    <2> QED
      BY <2>1, <2>3, LenProperties
  <1>24. u \o v \in Seq(T) /\ Len(u \o v) = k + l
    BY <1>23, ConcatProperties
  <1>25. t \in Seq(T) /\ Len(t) = k + l
    <2>1. t \in Seq(T)
      BY <1>3, <1>20, ChannelLists
    <2>2. DOMAIN t = 1 .. k + l
      BY <1>16, <1>19
    <2> QED
      BY <2>1, <2>2, LenProperties
  <1>26. ASSUME NEW i \in 1 .. k + l
         PROVE  t[i] = (u \o v)[i]
    <2>1. t[i] = p[e[i]]
      BY <1>16, <1>19
    <2>2. CASE i <= k
      <3>1. i \in 1 .. k
        BY <2>2
      <3>2. e[i] = f[i] /\ (u \o v)[i] = u[i]
        BY <1>9, <1>14, <1>15, <1>23, <2>2, ConcatProperties
      <3>3. u[i] = q[f[i]] /\ f[i] \in 1 .. m
        BY <1>7, <1>9, <1>21, <3>1
      <3> QED
        BY <1>5, <2>1, <3>2, <3>3
    <2>3. CASE ~(i <= k)
      <3>1. PICK j \in 1 .. l : j = i - k
        BY <2>3
      <3>2. e[i] = h[i - k] /\ (u \o v)[i] = v[i - k]
        <4>1. e[i] = h[i - k]
          BY <1>9, <1>14, <1>15, <2>3, ConcatProperties
        <4>2. (u \o v)[i] = v[i - k]
          BY <1>23, <2>3, ConcatProperties
        <4> QED
          BY <4>1, <4>2
      <3>3. v[j] = r[g[j]] /\ h[j] = m + g[j] /\ g[j] \in 1 .. n
        BY <1>8, <1>10, <1>11, <1>22, <3>1
      <3> QED
        BY <1>6, <2>1, <3>1, <3>2, <3>3
    <2> QED
      BY <2>2, <2>3
  <1>27. t = u \o v
    BY <1>24, <1>25, <1>26, SeqEqual
  <1> QED
    BY <1>3, <1>20, <1>21, <1>22, <1>27

LEMMA ChannelAll ==
  ASSUME NEW T, NEW r \in Seq(T), NEW c, \A i \in 1 .. Len(r) : r[i].ch = c
  PROVE  OfChannel(r, c) = r
  <1>1. PICK n \in Nat : n = Len(r) /\ DOMAIN r = 1 .. n
    OBVIOUS
  <1>2. PICK f : f = [k \in 1 .. n |-> k]
    OBVIOUS
  <1>3. f \in Seq(Nat) /\ Len(f) = n
    BY <1>2
  <1>4. AtChannel(r, c) = 1 .. n
    BY <1>1 DEF AtChannel
  <1>5. Enumerates(f, 1 .. n)
    <2>1. \A k \in 1 .. n : f[k] = k
      BY <1>2
    <2> QED
      BY <1>3, <2>1 DEF Enumerates
  <1>6. r = [k \in 1 .. n |-> r[f[k]]]
    BY <1>1, <1>2
  <1>7. ListsAt(r, r, AtChannel(r, c))
    BY <1>3, <1>4, <1>5, <1>6 DEF ListsAt
  <1> QED
    BY <1>7, ChannelLists, ListsSame

LEMMA ChannelNone ==
  ASSUME NEW T, NEW r \in Seq(T), NEW c, \A i \in 1 .. Len(r) : r[i].ch # c
  PROVE  OfChannel(r, c) = <<>>
  <1>1. AtChannel(r, c) = {}
    BY DEF AtChannel
  <1>2. PICK f : Enumerates(f, {}) /\ OfChannel(r, c) = [k \in 1 .. Len(f) |-> r[f[k]]]
    <2>1. ListsAt(OfChannel(r, c), r, {})
      BY <1>1, ChannelLists
    <2> QED
      BY <2>1 DEF ListsAt
  <1>3. f = <<>>
    BY <1>2, LastIs, EnumeratesNone, EnumeratesSame
  <1>4. OfChannel(r, c) \in Seq(T) /\ DOMAIN OfChannel(r, c) = 1 .. 0
    BY <1>2, <1>3, ChannelLists
  <1> QED
    BY <1>4, LenProperties, EmptySeq

\* The packets of a channel in a list of entries.
LEMMA PacketsJoin ==
  ASSUME NEW T, NEW q \in Seq(T), NEW r \in Seq(T), NEW c
  PROVE  PacketsOf(q \o r, c) = PacketsOf(q, c) \o PacketsOf(r, c)
  <1>1. PICK s : s = OfChannel(q, c)
    OBVIOUS
  <1>2. PICK t : t = OfChannel(r, c)
    OBVIOUS
  <1>3. s \in Seq(T) /\ t \in Seq(T)
    BY <1>1, <1>2, ChannelLists
  <1>4. OfChannel(q \o r, c) = OfChannel(q, c) \o OfChannel(r, c)
    BY ChannelJoin
  <1>5. PICK st : st = s \o t
    OBVIOUS
  <1>6. PICK k \in Nat : k = Len(s) /\ DOMAIN s = 1 .. k
    BY <1>3
  <1>7. PICK l \in Nat : l = Len(t) /\ DOMAIN t = 1 .. l
    BY <1>3
  <1>8. st \in Seq(T) /\ Len(st) = k + l
    BY <1>3, <1>5, <1>6, <1>7, ConcatProperties
  <1>9. DOMAIN st = 1 .. k + l
    BY <1>8
  <1>10. PICK P : P = {PacketOf(e) : e \in T}
    OBVIOUS
  <1>11. PICK a : a = [i \in 1 .. k |-> PacketOf(s[i])]
    OBVIOUS
  <1>12. PICK b : b = [i \in 1 .. l |-> PacketOf(t[i])]
    OBVIOUS
  <1>13. PICK d : d = [i \in 1 .. k + l |-> PacketOf(st[i])]
    OBVIOUS
  <1>14. a \in Seq(P) /\ Len(a) = k
    <2>1. \A i \in 1 .. k : a[i] \in P
      BY <1>3, <1>6, <1>10, <1>11
    <2> QED
      BY <1>11, <2>1
  <1>15. b \in Seq(P) /\ Len(b) = l
    <2>1. \A i \in 1 .. l : b[i] \in P
      BY <1>3, <1>7, <1>10, <1>12
    <2> QED
      BY <1>12, <2>1
  <1>16. d \in Seq(P) /\ Len(d) = k + l
    <2>1. \A i \in 1 .. k + l : d[i] \in P
      BY <1>8, <1>10, <1>13
    <2> QED
      BY <1>13, <2>1
  <1>17. a \o b \in Seq(P) /\ Len(a \o b) = k + l
    BY <1>14, <1>15, ConcatProperties
  <1>18. ASSUME NEW i \in 1 .. k + l
         PROVE  d[i] = (a \o b)[i]
    <2>1. d[i] = PacketOf(st[i])
      BY <1>13
    <2>2. CASE i <= k
      <3>1. st[i] = s[i]
        BY <1>3, <1>5, <1>6, <1>7, <2>2, ConcatProperties
      <3>2. (a \o b)[i] = a[i]
        BY <1>14, <1>15, <2>2, ConcatProperties
      <3>3. a[i] = PacketOf(s[i])
        BY <1>11, <2>2
      <3> QED
        BY <2>1, <3>1, <3>2, <3>3
    <2>3. CASE ~(i <= k)
      <3>1. st[i] = t[i - k]
        BY <1>3, <1>5, <1>6, <1>7, <2>3, ConcatProperties
      <3>2. (a \o b)[i] = b[i - k]
        BY <1>14, <1>15, <2>3, ConcatProperties
      <3>3. i - k \in 1 .. l
        BY <2>3
      <3>4. b[i - k] = PacketOf(t[i - k])
        BY <1>12, <3>3
      <3> QED
        BY <2>1, <3>1, <3>2, <3>4
    <2> QED
      BY <2>2, <2>3
  <1>19. d = a \o b
    BY <1>16, <1>17, <1>18, SeqEqual
  <1>20. PacketsOf(q, c) = a /\ PacketsOf(r, c) = b
    BY <1>1, <1>2, <1>6, <1>7, <1>11, <1>12 DEF PacketsOf
  <1>21. PacketsOf(q \o r, c) = d
    BY <1>1, <1>2, <1>4, <1>5, <1>9, <1>13 DEF PacketsOf
  <1> QED
    BY <1>19, <1>20, <1>21

LEMMA PacketsNone ==
  ASSUME NEW T, NEW r \in Seq(T), NEW c, \A i \in 1 .. Len(r) : r[i].ch # c
  PROVE  PacketsOf(r, c) = <<>>
  <1>1. OfChannel(r, c) = <<>>
    BY ChannelNone
  <1>2. PacketsOf(r, c) = [i \in DOMAIN <<>> |-> PacketOf(<<>>[i])]
    BY <1>1 DEF PacketsOf
  <1>3. DOMAIN <<>> = {}
    OBVIOUS
  <1>4. PacketsOf(r, c) = [i \in {} |-> PacketOf(<<>>[i])]
    BY <1>2, <1>3
  <1>5. <<>> = [i \in {} |-> PacketOf(<<>>[i])]
    OBVIOUS
  <1> QED
    BY <1>4, <1>5

LEMMA PacketsAll ==
  ASSUME NEW T, NEW r \in Seq(T), NEW c, \A i \in 1 .. Len(r) : r[i].ch = c
  PROVE  PacketsOf(r, c) = [i \in 1 .. Len(r) |-> PacketOf(r[i])]
  <1>1. OfChannel(r, c) = r /\ DOMAIN r = 1 .. Len(r)
    BY ChannelAll
  <1> QED
    BY <1>1 DEF PacketsOf

--------------------------------------------------------------------------------
(* What the receiver keeps of a channel. *)

LEMMA GreatestIsIn ==
  ASSUME NEW n \in Nat, NEW S, S \subseteq 0 .. n, S # {}
  PROVE  Max(S) \in S /\ \A x \in S : x <= Max(S)
  <1>1. PICK T : T = {n - x : x \in S}
    OBVIOUS
  <1>2. T # {} /\ T \subseteq Nat
    <2>1. \A x \in S : x \in 0 .. n /\ n - x \in Nat
      OBVIOUS
    <2> QED
      BY <1>1, <2>1
  <1>3. PICK m \in T : \A t \in T : m <= t
    BY <1>2, LeastExists
  <1>4. PICK y \in S : m = n - y
    BY <1>1
  <1>5. ASSUME NEW x \in S
        PROVE  x <= y
    <2>1. x \in 0 .. n /\ y \in 0 .. n
      OBVIOUS
    <2>2. n - x \in T
      BY <1>1
    <2>3. n - y <= n - x
      BY <1>3, <1>4, <2>2
    <2> QED
      BY <2>1, <2>3
  <1>6. \E z \in S : \A x \in S : z >= x
    <2>1. \A x \in S : y >= x
      BY <1>5
    <2> QED
      BY <2>1
  <1>7. Max(S) \in S /\ \A x \in S : Max(S) >= x
    BY <1>6 DEF Max
  <1> QED
    BY <1>7

LEMMA Remainders ==
  ASSUME NEW a \in Nat, NEW d \in Nat
  PROVE  ((a % Numbers) + d) % Numbers = (a + d) % Numbers
  <1>1. PICK q \in Nat : q = a \div Numbers
    BY Sizes, Quotient
  <1>2. PICK r \in 0 .. Numbers - 1 : r = a % Numbers
    BY Sizes, Quotient
  <1>3. a = q * Numbers + r
    BY <1>1, <1>2, Sizes, Quotient
  <1>4. PICK s \in Nat : s = (r + d) \div Numbers
    BY Sizes, Quotient
  <1>5. PICK t \in 0 .. Numbers - 1 : t = (r + d) % Numbers
    BY Sizes, Quotient
  <1>6. r + d = s * Numbers + t
    <2>1. PICK x \in Nat : x = r + d
      OBVIOUS
    <2>2. x = s * Numbers + t
      BY <1>4, <1>5, <2>1, Sizes, Quotient
    <2> QED
      BY <2>1, <2>2
  <1>7. PICK p \in Nat : p = q + s
    OBVIOUS
  <1>8. p * Numbers = q * Numbers + s * Numbers
    BY <1>7, Sizes
  <1>9. a + d = p * Numbers + t
    BY <1>3, <1>6, <1>8, Sizes
  <1>10. (a + d) % Numbers = t
    BY <1>9, Sizes, QuotientIs
  <1> QED
    BY <1>2, <1>5, <1>10

Entries ==
  [kind : {"reliable", "fragment"}, ch : Channels, seq : Nat, useq : {0}, count : Nat,
   data : SUBSET (Nat \X Nat)]

\* The entry of the packet of that size after s, with some of its pieces.
EntryOf(c, s, size, data) ==
  [kind |-> IF size > 1 THEN "fragment" ELSE "reliable", ch |-> c, seq |-> (s + 1) % Numbers,
   useq |-> 0, count |-> IF size > 1 THEN size ELSE 0, data |-> data]

WholeData(s, size) == (0 .. size - 1) \X {s + size}
Pieces(s, size, u) == {<<i - 1, s + size>> : i \in {j \in 1 .. size : s + j <= u}}

Slot(e, L, c, s, size, u) ==
  /\ IsPacket(L, c, s, size) /\ e = EntryOf(c, s, size, e.data)
  /\ e.data \subseteq Pieces(s, size, u)
  /\ size = 1 => e.data = {<<0, s + 1>>}

LEMMA WholeSize ==
  ASSUME NEW s \in Nat, NEW size \in Nat \ {0}
  PROVE  IsFiniteSet(WholeData(s, size)) /\ Cardinality(WholeData(s, size)) = size
  <1>1. PICK I : I = 0 .. size - 1
    OBVIOUS
  <1>2. IsFiniteSet(I) /\ Cardinality(I) = size
    <2>1. 0 \in Int /\ size - 1 \in Int /\ ~(0 > size - 1)
      OBVIOUS
    <2>2. IsFiniteSet(0 .. size - 1)
          /\ Cardinality(0 .. size - 1) = IF 0 > size - 1 THEN 0 ELSE size - 1 - 0 + 1
      BY <2>1, FS_Interval
    <2> QED
      BY <1>1, <2>1, <2>2
  <1>3. PICK W : W = WholeData(s, size)
    OBVIOUS
  <1>4. PICK f : f = [i \in I |-> <<i, s + size>>]
    OBVIOUS
  <1>5. f \in [I -> W]
    BY <1>1, <1>3, <1>4 DEF WholeData
  <1>6. \A x, y \in I : f[x] = f[y] => x = y
    BY <1>4
  <1>7. \A z \in W : \E x \in I : f[x] = z
    BY <1>1, <1>3, <1>4 DEF WholeData
  <1>8. IsFiniteSet(W) /\ Cardinality(I) = Cardinality(W)
    BY <1>2, <1>5, <1>6, <1>7, SameSize
  <1> QED
    BY <1>2, <1>3, <1>8

LEMMA PiecesIn ==
  ASSUME NEW s \in Nat, NEW size \in Nat \ {0}, NEW u \in Nat
  PROVE  /\ Pieces(s, size, u) \subseteq WholeData(s, size)
         /\ WholeData(s, size) \subseteq Nat \X Nat
         /\ WholeData(s, size) \subseteq Pieces(s, size, u) => s + size <= u
         /\ s + size <= u => Pieces(s, size, u) = WholeData(s, size)
  <1>1. ASSUME NEW d \in Pieces(s, size, u)
        PROVE  d \in WholeData(s, size)
    <2>1. PICK i \in 1 .. size : d = <<i - 1, s + size>>
      BY DEF Pieces
    <2>2. i - 1 \in 0 .. size - 1
      BY <2>1
    <2> QED
      BY <2>1, <2>2 DEF WholeData
  <1>2. ASSUME WholeData(s, size) \subseteq Pieces(s, size, u)
        PROVE  s + size <= u
    <2>1. size - 1 \in 0 .. size - 1
      OBVIOUS
    <2>2. <<size - 1, s + size>> \in Pieces(s, size, u)
      BY <1>2, <2>1 DEF WholeData
    <2>3. PICK i \in 1 .. size : <<size - 1, s + size>> = <<i - 1, s + size>> /\ s + i <= u
      BY <2>2 DEF Pieces
    <2>4. size - 1 = i - 1
      BY <2>3
    <2> QED
      BY <2>3, <2>4
  <1>3. ASSUME s + size <= u, NEW d \in WholeData(s, size)
        PROVE  d \in Pieces(s, size, u)
    <2>1. PICK i \in 0 .. size - 1 : d = <<i, s + size>>
      BY DEF WholeData
    <2>2. i + 1 \in 1 .. size /\ s + (i + 1) <= u /\ i = (i + 1) - 1
      BY <1>3, <2>1
    <2> QED
      BY <2>1, <2>2 DEF Pieces
  <1>4. WholeData(s, size) \subseteq Nat \X Nat
    BY DEF WholeData
  <1> QED
    BY <1>1, <1>2, <1>3, <1>4

\* The fields of an entry, and when it is complete.
SlotFacts(e, c, s, size, u) ==
  /\ e \in Entries /\ e.ch = c /\ e.seq = (s + 1) % Numbers /\ e.useq = 0
  /\ IsReliable(e) /\ DataLength(e) = size
  /\ LastNumber(e) = (s + size) % Numbers
  /\ Complete(e) => e.data = WholeData(s, size) /\ PacketOf(e) = s + size /\ s + size <= u

LEMMA SlotIs ==
  ASSUME NEW L, NEW c \in Channels, NEW u \in Nat, NEW e, NEW s, NEW size, Slot(e, L, c, s, size, u)
  PROVE  SlotFacts(e, c, s, size, u)
  <1>1. s \in Nat /\ size \in Nat \ {0}
    BY DEF Slot, IsPacket
  <1>2. PICK data : data = e.data
    OBVIOUS
  <1>3. e = EntryOf(c, s, size, data) /\ data \subseteq Pieces(s, size, u)
        /\ (size = 1 => data = {<<0, s + 1>>})
    BY <1>2 DEF Slot
  <1>4. data \subseteq WholeData(s, size) /\ data \subseteq Nat \X Nat
    BY <1>1, <1>3, PiecesIn
  <1>5. e = [kind |-> IF size > 1 THEN "fragment" ELSE "reliable", ch |-> c, seq |-> (s + 1) % Numbers,
             useq |-> 0, count |-> IF size > 1 THEN size ELSE 0, data |-> data]
    BY <1>3 DEF EntryOf
  <1>6. /\ e.kind = (IF size > 1 THEN "fragment" ELSE "reliable")
        /\ e.ch = c /\ e.seq = (s + 1) % Numbers /\ e.useq = 0
        /\ e.count = (IF size > 1 THEN size ELSE 0)
    BY <1>5
  <1>7. (s + 1) % Numbers \in Nat
    BY <1>1, Sizes
  <1>8. e \in Entries
    BY <1>1, <1>4, <1>5, <1>7 DEF Entries
  <1>9. IsReliable(e)
    BY <1>6 DEF IsReliable
  <1>10. DataLength(e) = size
    BY <1>1, <1>6 DEF DataLength, Fragmented
  <1>11. LastNumber(e) = (s + size) % Numbers
    <2>1. PICK d \in Nat : d = size - 1
      BY <1>1
    <2>2. PICK a \in Nat : a = s + 1
      BY <1>1
    <2>3. ((a % Numbers) + d) % Numbers = (a + d) % Numbers
      BY Remainders
    <2>4. a + d = s + size
      BY <1>1, <2>1, <2>2
    <2>5. PICK m \in Nat : m = (s + 1) % Numbers
      BY <1>7
    <2>6. m + size - 1 = (a % Numbers) + d
      BY <1>1, <2>1, <2>2, <2>5
    <2> QED
      BY <1>6, <1>10, <2>3, <2>4, <2>5, <2>6 DEF LastNumber
  <1>12. ASSUME Complete(e)
         PROVE  data = WholeData(s, size) /\ PacketOf(e) = s + size /\ s + size <= u
    <2>1. data = WholeData(s, size)
      <3>1. CASE size = 1
        <4>1. WholeData(s, 1) = {<<0, s + 1>>}
          <5>1. 0 .. 1 - 1 = {0}
            OBVIOUS
          <5> QED
            BY <5>1 DEF WholeData
        <4> QED
          BY <1>3, <3>1, <4>1
      <3>2. CASE size # 1
        <4>1. e.count = size
          BY <1>1, <1>6, <3>2
        <4>2. Cardinality(data) >= size
          BY <1>2, <1>12, <4>1 DEF Complete
        <4>3. PICK W : W = WholeData(s, size)
          OBVIOUS
        <4>4. IsFiniteSet(W) /\ Cardinality(W) = size
          BY <1>1, <4>3, WholeSize
        <4>5. data \in SUBSET W
          BY <1>4, <4>3
        <4>6. /\ IsFiniteSet(data) /\ Cardinality(data) <= Cardinality(W)
              /\ Cardinality(data) = Cardinality(W) => data = W
          BY <4>4, <4>5, FS_Subset
        <4>7. Cardinality(data) \in Nat
          BY <4>6, FS_CardinalityType
        <4> QED
          BY <1>1, <4>2, <4>3, <4>4, <4>6, <4>7
      <3> QED
        BY <3>1, <3>2
    <2>2. s + size <= u
      BY <1>1, <1>3, <2>1, PiecesIn
    <2>3. PacketOf(e) = s + size
      <3>1. PICK d : d = CHOOSE x \in e.data : TRUE
        OBVIOUS
      <3>2. <<0, s + size>> \in WholeData(s, size)
        BY <1>1 DEF WholeData
      <3>3. d \in WholeData(s, size)
        BY <1>2, <2>1, <3>1, <3>2
      <3>4. d[2] = s + size
        BY <3>3 DEF WholeData
      <3>5. PacketOf(e) = IF e.data = (0 .. DataLength(e) - 1) \X {d[2]} THEN d[2] ELSE 0
        BY <3>1 DEF PacketOf
      <3>6. e.data = (0 .. DataLength(e) - 1) \X {d[2]}
        BY <1>2, <1>10, <2>1, <3>4 DEF WholeData
      <3> QED
        BY <3>4, <3>5, <3>6
    <2> QED
      BY <2>1, <2>2, <2>3
  <1> QED
    BY <1>2, <1>6, <1>8, <1>9, <1>10, <1>11, <1>12 DEF SlotFacts

--------------------------------------------------------------------------------
(* The list of commands that wait for an earlier one. *)

\* Where two ends of a channel are: the receiver has the packets up to R, the
\* sender has sent the commands up to u of L.
Context(L, c, life, R, u) ==
  /\ c \in Channels /\ L \in Seq(Logged) /\ Tiled(L, c, life)
  /\ life \in Nat /\ R \in Nat /\ u \in Nat
  /\ Boundary(L, R) /\ R <= u /\ u <= Len(L)
  /\ TrueWindow(u) < TrueWindow(R) + FreeWindows

\* The entry e is of the packet after the number s, in a window that is taken in.
InQueue(e, L, c, R, u, s) ==
  /\ R <= s /\ TrueWindow(s + 1) <= TrueWindow(R) + FreeWindows - 2
  /\ \E size : Slot(e, L, c, s, size, u)

\* The list has, in their order, entries of packets of L; b tells after which
\* numbers they come.
Queue(rel, b, L, c, R, u) ==
  /\ rel \in Seq(Entries) /\ b \in Seq(Nat) /\ Len(b) = Len(rel)
  /\ \A i \in 1 .. Len(b) : InQueue(rel[i], L, c, R, u, b[i])
  /\ \A i, j \in 1 .. Len(b) : i < j => b[i] < b[j]

\* What is taken in begins less than a round after what was received.
LEMMA QueueRange ==
  ASSUME NEW R \in Nat, NEW s \in Nat, R <= s,
         TrueWindow(s + 1) <= TrueWindow(R) + FreeWindows - 2
  PROVE  R < s + 1 /\ s + 1 < R + Numbers
  <1>1. PICK x \in Nat : x = s + 1
    OBVIOUS
  <1>2. PICK v \in Nat : v = TrueWindow(R)
    BY WireWindow
  <1>3. PICK w \in Nat : w = TrueWindow(x)
    BY WireWindow
  <1>4. R + Numbers <= x => v + Windows <= w
    BY <1>1, <1>2, <1>3, WindowsGrow
  <1>5. w <= v + FreeWindows - 2
    BY <1>1, <1>2, <1>3
  <1> QED
    BY <1>1, <1>4, <1>5, Sizes

\* The commands at the front of the list that follow each other.
ReadyIs(ch, k) ==
  /\ k \in 0 .. Len(ch.rel) /\ \A i \in 1 .. k : Follows(ch, i)
  /\ k < Len(ch.rel) => ~Follows(ch, k + 1)

LEMMA ReadyRunIs ==
  ASSUME NEW ch, ch.rel \in Seq(Entries)
  PROVE  ReadyIs(ch, ReadyRun(ch))
  <1>1. PICK n \in Nat : n = Len(ch.rel)
    OBVIOUS
  <1>2. PICK S \in SUBSET (0 .. n) : S = {j \in 0 .. n : \A i \in 1 .. j : Follows(ch, i)}
    OBVIOUS
  <1>3. 0 \in S
    <2>1. 0 \in 0 .. n /\ 1 .. 0 = {}
      OBVIOUS
    <2> QED
      BY <1>2, <2>1
  <1>4. PICK k : k = Max(S)
    OBVIOUS
  <1>5. k \in S /\ \A x \in S : x <= k
    BY <1>3, <1>4, GreatestIsIn
  <1>6. k \in 0 .. n /\ \A i \in 1 .. k : Follows(ch, i)
    BY <1>2, <1>5
  <1>7. ASSUME k < n, Follows(ch, k + 1)
        PROVE  FALSE
    <2>1. k + 1 \in 0 .. n
      BY <1>6, <1>7
    <2>2. ASSUME NEW i \in 1 .. k + 1
          PROVE  Follows(ch, i)
      <3>1. i \in 1 .. k \/ i = k + 1
        BY <1>6
      <3> QED
        BY <1>6, <1>7, <3>1
    <2>3. k + 1 \in S
      BY <1>2, <2>1, <2>2
    <2>4. k + 1 <= k
      BY <1>5, <2>3
    <2> QED
      BY <1>6, <2>4
  <1>8. ReadyRun(ch) = k
    BY <1>1, <1>2, <1>4 DEF ReadyRun
  <1> QED
    BY <1>1, <1>6, <1>7, <1>8 DEF ReadyIs

\* What a command of the run is.
Ready(e, L, c, s, n, u) ==
  /\ s \in Nat /\ n \in Nat /\ s < n /\ n <= u
  /\ IsPacket(L, c, s, n - s) /\ n \in Ends(L)
  /\ PacketOf(e) = n /\ LastNumber(e) = n % Numbers
  /\ e.data = WholeData(s, n - s)

LEMMA ReadyEntry ==
  ASSUME NEW L, NEW c, NEW life, NEW R, NEW u, Context(L, c, life, R, u),
         NEW e, NEW s \in Nat, InQueue(e, L, c, R, u, s), Complete(e)
  PROVE  Ready(e, L, c, s, PacketOf(e), u)
  <1>1. PICK size : Slot(e, L, c, s, size, u)
    BY DEF InQueue
  <1>2. c \in Channels /\ u \in Nat /\ L \in Seq(Logged) /\ Tiled(L, c, life)
    BY DEF Context
  <1>3. SlotFacts(e, c, s, size, u)
    BY <1>1, <1>2, SlotIs
  <1>4. IsPacket(L, c, s, size)
    BY <1>1 DEF Slot
  <1>5. size \in Nat \ {0}
    BY <1>4 DEF IsPacket
  <1>6. s + size \in Ends(L)
    BY <1>2, <1>4, PacketBoundaries
  <1>7. PICK n \in Nat : n = s + size
    BY <1>5
  <1>8. n - s = size /\ s < n
    BY <1>5, <1>7
  <1>9. PacketOf(e) = n /\ LastNumber(e) = n % Numbers /\ e.data = WholeData(s, size) /\ n <= u
    BY <1>3, <1>7 DEF SlotFacts
  <1> QED
    BY <1>4, <1>6, <1>7, <1>8, <1>9 DEF Ready

\* The packets of the run: from the last one received on, without a gap.
RunPackets(L, c, rel, b, R, u, k, en) ==
  /\ \A i \in 1 .. k : en[i] = PacketOf(rel[i]) /\ Ready(rel[i], L, c, b[i], en[i], u)
  /\ b[1] = R /\ \A i \in 1 .. k : i < k => b[i + 1] = en[i]
  /\ Enumerates(en, {n \in Ends(L) : R < n /\ n <= en[k]})
  /\ en[k] \in Ends(L) /\ R < en[k] /\ en[k] <= u

LEMMA RunIs ==
  ASSUME NEW L, NEW c, NEW life, NEW R, NEW u, Context(L, c, life, R, u),
         NEW ch, ch.rseq = R % Numbers, NEW b, Queue(ch.rel, b, L, c, R, u),
         NEW k, k \in 1 .. Len(ch.rel), \A i \in 1 .. k : Follows(ch, i)
  PROVE  RunPackets(L, c, ch.rel, b, R, u, k, [i \in 1 .. k |-> PacketOf(ch.rel[i])])
  <1>1. PICK rel : rel = ch.rel
    OBVIOUS
  <1>2. rel \in Seq(Entries) /\ b \in Seq(Nat) /\ Len(b) = Len(rel) /\ k \in 1 .. Len(rel)
    BY <1>1 DEF Queue
  <1>3. k \in Nat /\ \A i \in 1 .. k : i \in 1 .. Len(b)
    BY <1>2
  <1>4. /\ R \in Nat /\ u \in Nat /\ L \in Seq(Logged) /\ Tiled(L, c, life) /\ Boundary(L, R)
        /\ c \in Channels
    BY DEF Context
  <1>5. ASSUME NEW i \in 1 .. k
        PROVE  b[i] \in Nat /\ InQueue(rel[i], L, c, R, u, b[i])
               /\ Complete(rel[i]) /\ rel[i].seq = (Prev(ch, i) + 1) % Numbers
               /\ rel[i].seq = (b[i] + 1) % Numbers
    <2>1. b[i] \in Nat /\ InQueue(rel[i], L, c, R, u, b[i])
      BY <1>1, <1>2, <1>3 DEF Queue
    <2>2. Follows(ch, i)
      OBVIOUS
    <2>3. PICK size : Slot(rel[i], L, c, b[i], size, u)
      BY <2>1 DEF InQueue
    <2>4. SlotFacts(rel[i], c, b[i], size, u)
      BY <1>4, <2>3, SlotIs
    <2> QED
      BY <1>1, <2>1, <2>2, <2>4 DEF Follows, SlotFacts
  <1>6. PICK en : en = [i \in 1 .. k |-> PacketOf(rel[i])]
    OBVIOUS
  <1>7. ASSUME NEW i \in 1 .. k
        PROVE  en[i] = PacketOf(rel[i]) /\ Ready(rel[i], L, c, b[i], en[i], u)
    BY <1>5, <1>6, ReadyEntry
  <1>8. ASSUME NEW i \in 1 .. k
        PROVE  b[i] \in Nat /\ R <= b[i] /\ b[i] < en[i] /\ en[i] \in Nat /\ b[i] + 1 < R + Numbers
    <2>1. b[i] \in Nat /\ b[i] < en[i] /\ en[i] \in Nat
      BY <1>7 DEF Ready
    <2>2. R <= b[i] /\ TrueWindow(b[i] + 1) <= TrueWindow(R) + FreeWindows - 2
      BY <1>5 DEF InQueue
    <2> QED
      BY <1>4, <2>1, <2>2, QueueRange
  <1>9. b[1] = R
    <2>1. 1 \in 1 .. k
      BY <1>2
    <2>2. Prev(ch, 1) = R % Numbers
      BY DEF Prev
    <2>3. ((R % Numbers) + 1) % Numbers = (R + 1) % Numbers
      BY <1>4, Remainders
    <2>4. (b[1] + 1) % Numbers = (R + 1) % Numbers
      BY <1>5, <2>1, <2>2, <2>3
    <2>5. PICK x \in Nat : x = b[1] + 1
      BY <1>8, <2>1
    <2>6. PICK y \in Nat : y = R + 1
      BY <1>4
    <2>7. x < y + Numbers /\ y < x + Numbers
      BY <1>4, <1>8, <2>1, <2>5, <2>6, Sizes
    <2>8. x = y
      BY <2>4, <2>5, <2>6, <2>7, SameNumber
    <2> QED
      BY <1>4, <1>8, <2>1, <2>5, <2>6, <2>8
  <1>10. ASSUME NEW i \in 1 .. k, i < k
         PROVE  b[i + 1] = en[i]
    <2>1. PICK j \in 1 .. k : j = i + 1
      BY <1>3, <1>10
    <2>2. b[i] < b[j]
      BY <1>1, <1>3, <1>10, <2>1 DEF Queue
    <2>3. en[i] <= b[j]
      <3>1. IsPacket(L, c, b[i], en[i] - b[i])
        BY <1>7 DEF Ready
      <3>2. IsPacket(L, c, b[j], en[j] - b[j])
        BY <1>7 DEF Ready
      <3>3. Boundary(L, b[j])
        BY <1>4, <3>2, PacketBoundaries
      <3>4. b[i] + (en[i] - b[i]) <= b[j] \/ b[j] <= b[i]
        BY <1>4, <3>1, <3>3, OutsidePackets
      <3> QED
        BY <1>8, <2>2, <3>4
    <2>4. Prev(ch, j) = en[i] % Numbers
      <3>1. j # 1 /\ j - 1 = i
        BY <2>1
      <3>2. Prev(ch, j) = LastNumber(rel[i])
        BY <1>1, <3>1 DEF Prev
      <3> QED
        BY <1>7, <3>2 DEF Ready
    <2>5. ((en[i] % Numbers) + 1) % Numbers = (en[i] + 1) % Numbers
      BY <1>8, Remainders
    <2>6. (b[j] + 1) % Numbers = (en[i] + 1) % Numbers
      BY <1>5, <2>4, <2>5
    <2>7. PICK x \in Nat : x = b[j] + 1
      BY <1>8
    <2>8. PICK y \in Nat : y = en[i] + 1
      BY <1>8
    <2>9. x < y + Numbers /\ y < x + Numbers
      <3>1. R <= b[i] /\ b[i] < en[i] /\ en[i] \in Nat /\ b[i] \in Nat
        BY <1>8
      <3>2. b[j] \in Nat /\ b[j] + 1 < R + Numbers
        BY <1>8
      <3>3. R < y /\ y <= x
        BY <1>4, <2>3, <2>7, <2>8, <3>1, <3>2, SMTT(30)
      <3>4. x < R + Numbers
        BY <2>7, <3>2
      <3> QED
        BY <1>4, <2>7, <2>8, <3>3, <3>4, Sizes, SMTT(30)
    <2>10. x = y
      BY <2>6, <2>7, <2>8, <2>9, SameNumber
    <2> QED
      BY <1>8, <2>1, <2>7, <2>8, <2>10
  <1>11. PICK S : S = {n \in Ends(L) : R < n /\ n <= en[k]}
    OBVIOUS
  <1>12. k \in 1 .. k
    BY <1>2
  <1>13. en[k] \in Ends(L) /\ R < en[k] /\ en[k] <= u
    BY <1>4, <1>7, <1>8, <1>12 DEF Ready
  <1>14. ASSUME NEW i \in 1 .. k, NEW j \in 1 .. k, i < j
         PROVE  en[i] < en[j] /\ en[i] <= b[j]
    <2>1. PICK h \in 1 .. k : h = i + 1
      BY <1>3, <1>14
    <2>2. b[h] = en[i]
      BY <1>3, <1>10, <1>14, <2>1
    <2>3. h = j \/ h < j
      BY <1>14, <2>1
    <2>4. h < j => b[h] < b[j]
      BY <1>1, <1>3 DEF Queue
    <2> QED
      BY <1>8, <2>2, <2>3, <2>4
  <1>15. ASSUME NEW i \in 1 .. k
         PROVE  en[i] \in S
    <2>1. en[i] \in Ends(L) /\ R < en[i]
      BY <1>4, <1>7, <1>8 DEF Ready
    <2>2. i = k \/ i < k
      BY <1>3
    <2>3. en[i] <= en[k]
      BY <1>8, <1>12, <1>14, <2>2
    <2> QED
      BY <1>11, <2>1, <2>3
  <1>16. ASSUME NEW n \in S
         PROVE  \E i \in 1 .. k : en[i] = n
    <2>1. n \in 1 .. Len(L) /\ n \in Ends(L) /\ R < n /\ n <= en[k]
      BY <1>11 DEF Ends
    <2>2. PICK s \in Nat, size \in Nat \ {0} :
            IsPacket(L, c, s, size) /\ n \in s + 1 .. s + size
      BY <1>4, <2>1 DEF Tiled
    <2>3. n = s + size
      BY <1>4, <2>1, <2>2, InPacket
    <2>4. R <= s
      <3>1. s + size <= R \/ R <= s
        BY <1>4, <2>2, OutsidePackets
      <3> QED
        BY <1>4, <2>1, <2>3, <3>1
    <2>5. PICK B \in SUBSET (0 .. k) : B = {i \in 1 .. k : b[i] <= s}
      <3>1. {i \in 1 .. k : b[i] <= s} \subseteq 0 .. k
        BY <1>3
      <3> QED
        BY <3>1
    <2>6. 1 \in B
      BY <1>2, <1>9, <2>4, <2>5
    <2>7. PICK i : i = Max(B)
      OBVIOUS
    <2>8. i \in B /\ \A x \in B : x <= i
      BY <1>3, <2>6, <2>7, GreatestIsIn
    <2>9. i \in 1 .. k /\ b[i] <= s
      BY <2>5, <2>8
    <2>10. b[i] = s
      <3>1. SUFFICES ASSUME b[i] < s
                     PROVE  FALSE
        BY <1>8, <2>9
      <3>2. IsPacket(L, c, b[i], en[i] - b[i])
        BY <1>7, <2>9 DEF Ready
      <3>3. Boundary(L, s)
        BY <1>4, <2>2, PacketBoundaries
      <3>4. b[i] + (en[i] - b[i]) <= s \/ s <= b[i]
        BY <1>4, <3>2, <3>3, OutsidePackets
      <3>5. b[i] \in Nat /\ en[i] \in Nat
        BY <1>8, <2>9
      <3>6. en[i] <= s
        BY <2>2, <3>1, <3>4, <3>5
      <3>7. CASE i = k
        BY <2>1, <2>2, <2>3, <3>5, <3>6, <3>7
      <3>8. CASE i < k
        <4>1. b[i + 1] <= s /\ i + 1 \in 1 .. k
          BY <1>3, <1>10, <2>9, <3>6, <3>8
        <4>2. i + 1 <= i
          BY <2>5, <2>8, <4>1
        <4> QED
          BY <2>9, <4>2
      <3> QED
        BY <1>3, <2>9, <3>7, <3>8
    <2>11. en[i] = n
      <3>1. IsPacket(L, c, s, en[i] - s)
        BY <1>7, <2>9, <2>10 DEF Ready
      <3>2. en[i] \in Nat /\ s < en[i]
        BY <1>8, <2>9, <2>10
      <3>3. s + 1 \in s + 1 .. s + size /\ s + 1 \in s + 1 .. s + (en[i] - s)
        BY <2>2, <3>2
      <3>4. size = en[i] - s
        BY <1>4, <2>2, <3>1, <3>3, SamePacket
      <3> QED
        BY <2>2, <2>3, <3>2, <3>4
    <2> QED
      BY <2>9, <2>11
  <1>17. Enumerates(en, S)
    <2>1. en \in Seq(Nat) /\ Len(en) = k
      <3>1. \A i \in 1 .. k : en[i] \in Nat
        BY <1>8
      <3> QED
        BY <1>3, <1>6, <3>1
    <2> QED
      BY <1>14, <1>15, <1>16, <2>1 DEF Enumerates
  <1>18. RunPackets(L, c, rel, b, R, u, k, en)
    BY <1>7, <1>9, <1>10, <1>11, <1>13, <1>17 DEF RunPackets
  <1> QED
    BY <1>1, <1>6, <1>18

--------------------------------------------------------------------------------
(* Dispatching. *)

ChannelRecords == [rseq : Nat, useq : {0}, rel : Seq(Entries), unrel : {<<>>}]
Peers ==
  [chan : [Channels -> ChannelRecords], dispatched : Seq(Entries), waiting : Int,
   group : {0}, seen : {{}}]

\* The receiver's side of a channel.
Good(ch, L, c, R, u) == ch.rseq = R % Numbers /\ \E b : Queue(ch.rel, b, L, c, R, u)

\* Nothing in the list is ready.
Idle(ch) == Len(ch.rel) = 0 \/ ~Follows(ch, 1)

\* The fragment n is stored in an entry of the list.
StoredIn(rel, L, n) ==
  \E i \in 1 .. Len(rel) : <<L[n].frag, L[n].pkt>> \in rel[i].data

\* The receiver has the command n, for the application or in its list.
Arrived(rel, L, R, n) == n <= R \/ StoredIn(rel, L, n)

\* What the receiver had, it still has.
KeepsMore(rel, R, more, S, L) ==
  \A n \in 1 .. Len(L) : Arrived(rel, L, R, n) => Arrived(more, L, S, n)

\* The entries new are those of the packets after R up to S, in order.
DispatchedAre(new, L, c, R, S) ==
  /\ new \in Seq(Entries) /\ \A i \in 1 .. Len(new) : new[i].ch = c
  /\ Enumerates([i \in 1 .. Len(new) |-> PacketOf(new[i])], {n \in Ends(L) : R < n /\ n <= S})

\* The packets from R up to S went from the list of channel c to the application.
Advance(p, q, c, L, R, S, u) ==
  /\ q \in Peers /\ \A d \in Channels : d # c => q.chan[d] = p.chan[d]
  /\ \E new : DispatchedAre(new, L, c, R, S) /\ q.dispatched = p.dispatched \o new
  /\ S \in Nat /\ R <= S /\ S <= u /\ Boundary(L, S)
  /\ Good(q.chan[c], L, c, S, u) /\ Idle(q.chan[c])
  /\ KeepsMore(p.chan[c].rel, R, q.chan[c].rel, S, L)

LEMMA PeerFields ==
  ASSUME NEW p \in Peers, NEW c \in Channels
  PROVE  /\ p.chan \in [Channels -> ChannelRecords] /\ p.dispatched \in Seq(Entries)
         /\ p.chan[c] \in ChannelRecords /\ p.chan[c].rel \in Seq(Entries)
         /\ p.chan[c].unrel = <<>> /\ p.chan[c].useq = 0 /\ p.chan[c].rseq \in Nat
         /\ p.waiting \in Int
  <1>1. p.chan \in [Channels -> ChannelRecords] /\ p.dispatched \in Seq(Entries) /\ p.waiting \in Int
    BY DEF Peers
  <1>2. p.chan[c] \in ChannelRecords
    BY <1>1
  <1> QED
    BY <1>1, <1>2 DEF ChannelRecords

\* What is after the run waits on.
LEMMA QueueRest ==
  ASSUME NEW L, NEW c, NEW life, NEW R, NEW u, Context(L, c, life, R, u),
         NEW rel, NEW b, Queue(rel, b, L, c, R, u),
         NEW k \in 1 .. Len(rel), NEW S \in Nat, R <= S,
         \A i \in 1 .. Len(b) : k < i => S <= b[i]
  PROVE  Queue(SubSeq(rel, k + 1, Len(rel)), SubSeq(b, k + 1, Len(b)), L, c, S, u)
  <1>1. PICK m \in Nat : m = Len(rel)
    BY DEF Queue
  <1>2. k \in Nat /\ k <= m /\ Len(b) = m /\ rel \in Seq(Entries) /\ b \in Seq(Nat)
    BY <1>1 DEF Queue
  <1>3. PICK l \in Nat : l = m - k
    BY <1>2
  <1>4. PICK rest : rest = SubSeq(rel, k + 1, m)
    OBVIOUS
  <1>5. PICK d : d = SubSeq(b, k + 1, m)
    OBVIOUS
  <1>6. rest \in Seq(Entries) /\ Len(rest) = l /\ \A i \in 1 .. l : rest[i] = rel[k + i]
    BY <1>1, <1>2, <1>3, <1>4
  <1>7. d \in Seq(Nat) /\ Len(d) = l /\ \A i \in 1 .. l : d[i] = b[k + i]
    BY <1>1, <1>2, <1>3, <1>5
  <1>8. ASSUME NEW i \in 1 .. l
        PROVE  InQueue(rest[i], L, c, S, u, d[i])
    <2>1. PICK j \in 1 .. m : j = k + i /\ k < j
      BY <1>2, <1>3
    <2>2. InQueue(rel[j], L, c, R, u, b[j]) /\ S <= b[j]
      BY <1>2, <2>1 DEF Queue
    <2>3. R \in Nat /\ b[j] \in Nat
      BY <1>2, <2>1 DEF Context
    <2>4. TrueWindow(b[j] + 1) \in Nat /\ TrueWindow(R) \in Nat /\ TrueWindow(S) \in Nat
          /\ TrueWindow(R) <= TrueWindow(S)
      <3>1. b[j] + 1 \in Nat
        BY <2>3
      <3> QED
        BY <2>3, <3>1, WindowsGrow
    <2>5. TrueWindow(b[j] + 1) <= TrueWindow(S) + FreeWindows - 2
      BY <2>2, <2>4, Sizes DEF InQueue
    <2>6. rest[i] = rel[j] /\ d[i] = b[j]
      BY <1>6, <1>7, <2>1
    <2> QED
      BY <2>2, <2>5, <2>6 DEF InQueue
  <1>9. \A i, j \in 1 .. l : i < j => d[i] < d[j]
    <2>1. TAKE i, j \in 1 .. l
    <2>2. k + i \in 1 .. m /\ k + j \in 1 .. m /\ (i < j => k + i < k + j)
      BY <1>2, <1>3
    <2>3. i < j => b[k + i] < b[k + j]
      BY <1>2, <2>2 DEF Queue
    <2> QED
      BY <1>7, <2>3
  <1>10. Queue(rest, d, L, c, S, u)
    BY <1>6, <1>7, <1>8, <1>9 DEF Queue
  <1> QED
    BY <1>1, <1>2, <1>4, <1>5, <1>10

\* The list and the number of a channel after the run was dispatched.
AfterRunIs(ch, k, L, c, R, u) ==
  LET S == PacketOf(ch.rel[k])
      rest == SubSeq(ch.rel, k + 1, Len(ch.rel))
  IN  /\ S \in Nat /\ R < S /\ S <= u /\ S \in Ends(L)
      /\ LastNumber(ch.rel[k]) = S % Numbers
      /\ \E b : Queue(rest, b, L, c, S, u)
      /\ KeepsMore(ch.rel, R, rest, S, L)
      /\ DispatchedAre(SubSeq(ch.rel, 1, k), L, c, R, S)

LEMMA AfterRunHolds ==
  ASSUME NEW L, NEW c, NEW life, NEW R, NEW u, Context(L, c, life, R, u),
         NEW ch, Good(ch, L, c, R, u), NEW k, k \in 1 .. Len(ch.rel), \A i \in 1 .. k : Follows(ch, i)
  PROVE  AfterRunIs(ch, k, L, c, R, u)
  <1>1. PICK rel : rel = ch.rel
    OBVIOUS
  <1>2. PICK b : Queue(rel, b, L, c, R, u)
    BY <1>1 DEF Good
  <1>3. ch.rseq = R % Numbers
    BY DEF Good
  <1>4. PICK m \in Nat : m = Len(rel)
    BY <1>2 DEF Queue
  <1>5. rel \in Seq(Entries) /\ b \in Seq(Nat) /\ Len(b) = m /\ k \in Nat /\ k \in 1 .. m
    BY <1>1, <1>2, <1>4 DEF Queue
  <1>6. PICK en : en = [i \in 1 .. k |-> PacketOf(rel[i])]
    OBVIOUS
  <1>7. RunPackets(L, c, rel, b, R, u, k, en)
    BY <1>1, <1>2, <1>3, <1>6, RunIs
  <1>8. k \in 1 .. k
    BY <1>5
  <1>9. PICK S : S = en[k]
    OBVIOUS
  <1>10. S = PacketOf(rel[k]) /\ Ready(rel[k], L, c, b[k], S, u)
    BY <1>7, <1>8, <1>9 DEF RunPackets
  <1>11. S \in Nat /\ R < S /\ S <= u /\ S \in Ends(L) /\ LastNumber(rel[k]) = S % Numbers
    BY <1>7, <1>9, <1>10 DEF RunPackets, Ready
  <1>12. /\ R \in Nat /\ u \in Nat /\ L \in Seq(Logged) /\ Tiled(L, c, life) /\ c \in Channels
    BY DEF Context
  <1>13. ASSUME NEW i \in 1 .. Len(b), k < i
         PROVE  S <= b[i]
    <2>1. i \in 1 .. m /\ InQueue(rel[i], L, c, R, u, b[i]) /\ b[k] < b[i]
      BY <1>2, <1>5, <1>13 DEF Queue
    <2>2. PICK size : Slot(rel[i], L, c, b[i], size, u)
      BY <2>1 DEF InQueue
    <2>3. IsPacket(L, c, b[i], size)
      BY <2>2 DEF Slot
    <2>4. Boundary(L, b[i])
      BY <1>12, <2>3, PacketBoundaries
    <2>5. IsPacket(L, c, b[k], S - b[k]) /\ b[k] \in Nat
      BY <1>10 DEF Ready
    <2>6. b[k] + (S - b[k]) <= b[i] \/ b[i] <= b[k]
      BY <1>12, <2>4, <2>5, OutsidePackets
    <2>7. b[i] \in Nat
      BY <1>5, <2>1
    <2> QED
      BY <1>11, <2>1, <2>5, <2>6, <2>7
  <1>14. PICK rest : rest = SubSeq(rel, k + 1, m)
    OBVIOUS
  <1>15. \E d : Queue(rest, d, L, c, S, u)
    <2>1. R <= S
      BY <1>11, <1>12
    <2>2. Queue(SubSeq(rel, k + 1, Len(rel)), SubSeq(b, k + 1, Len(b)), L, c, S, u)
      BY <1>2, <1>4, <1>5, <1>11, <1>13, <2>1, QueueRest
    <2> QED
      BY <1>4, <1>14, <2>2
  <1>16. ASSUME NEW n \in 1 .. Len(L), Arrived(rel, L, R, n)
         PROVE  Arrived(rest, L, S, n)
    <2>1. CASE n <= R
      <3>1. n <= S
        BY <1>11, <1>12, <2>1
      <3> QED
        BY <3>1 DEF Arrived
    <2>2. CASE ~(n <= R)
      <3>1. PICK i \in 1 .. m : <<L[n].frag, L[n].pkt>> \in rel[i].data
        BY <1>4, <1>16, <2>2 DEF Arrived, StoredIn
      <3>2. CASE i <= k
        <4>1. i \in 1 .. k
          BY <1>5, <3>1, <3>2
        <4>2. Ready(rel[i], L, c, b[i], en[i], u)
          BY <1>7, <4>1 DEF RunPackets
        <4>3. rel[i].data = WholeData(b[i], en[i] - b[i]) /\ b[i] \in Nat /\ en[i] \in Nat
          BY <4>2 DEF Ready
        <4>4. L[n].pkt = b[i] + (en[i] - b[i])
          BY <3>1, <4>3 DEF WholeData
        <4>5. PICK s \in Nat, size \in Nat \ {0} : IsPacket(L, c, s, size) /\ n \in s + 1 .. s + size
          BY <1>12 DEF Tiled
        <4>6. L[n].pkt = s + size
          BY <1>12, <4>5, InPacket
        <4>7. en[i] <= S
          <5>1. en \in Seq(Nat) /\ Len(en) = k
            <6>1. Len(en) = k
              BY <1>5, <1>6
            <6> QED
              BY <1>7, <6>1 DEF RunPackets, Enumerates
          <5>2. en[i] \in {x \in Ends(L) : R < x /\ x <= en[k]}
            BY <1>7, <4>1, <5>1 DEF RunPackets, Enumerates
          <5> QED
            BY <1>9, <5>2
        <4>8. n <= S
          BY <1>11, <4>3, <4>4, <4>5, <4>6, <4>7
        <4> QED
          BY <4>8 DEF Arrived
      <3>3. CASE ~(i <= k)
        <4>1. PICK j \in 1 .. m - k : i = k + j
          <5>1. i - k \in 1 .. m - k /\ i = k + (i - k)
            BY <1>5, <3>1, <3>3
          <5> QED
            BY <5>1
        <4>2. Len(rest) = m - k /\ rest[j] = rel[i]
          BY <1>4, <1>5, <1>14, <4>1
        <4>3. StoredIn(rest, L, n)
          BY <3>1, <4>1, <4>2 DEF StoredIn
        <4> QED
          BY <4>3 DEF Arrived
      <3> QED
        BY <3>2, <3>3
    <2> QED
      BY <2>1, <2>2
  <1>17. DispatchedAre(SubSeq(rel, 1, k), L, c, R, S)
    <2>1. PICK new : new = SubSeq(rel, 1, k)
      OBVIOUS
    <2>2. new \in Seq(Entries) /\ Len(new) = k /\ \A i \in 1 .. k : new[i] = rel[i]
      BY <1>4, <1>5, <2>1
    <2>3. \A i \in 1 .. k : new[i].ch = c
      <3>1. TAKE i \in 1 .. k
      <3>2. i \in 1 .. m
        BY <1>5
      <3>3. InQueue(rel[i], L, c, R, u, b[i])
        BY <1>2, <1>5, <3>2 DEF Queue
      <3>4. PICK size : Slot(rel[i], L, c, b[i], size, u)
        BY <3>3 DEF InQueue
      <3>5. rel[i].ch = c
        BY <1>12, <3>4, SlotIs DEF SlotFacts
      <3> QED
        BY <2>2, <3>5
    <2>4. en = [i \in 1 .. k |-> PacketOf(new[i])]
      BY <1>6, <2>2
    <2>5. Enumerates(en, {n \in Ends(L) : R < n /\ n <= S})
      BY <1>7, <1>9 DEF RunPackets
    <2> QED
      BY <2>1, <2>2, <2>3, <2>4, <2>5 DEF DispatchedAre
  <1>18. KeepsMore(rel, R, rest, S, L)
    BY <1>16 DEF KeepsMore
  <1> QED
    BY <1>1, <1>4, <1>10, <1>11, <1>14, <1>15, <1>17, <1>18 DEF AfterRunIs

LEMMA NothingDispatched ==
  ASSUME NEW L, NEW c, NEW R \in Nat
  PROVE  DispatchedAre(<<>>, L, c, R, R)
  <1>1. PICK e : e = <<>>
    OBVIOUS
  <1>2. e \in Seq(Entries) /\ Len(e) = 0
    BY <1>1
  <1>3. PICK S : S = {n \in Ends(L) : R < n /\ n <= R}
    OBVIOUS
  <1>4. S = {}
    BY <1>3 DEF Ends
  <1>5. PICK a : a = [i \in 1 .. Len(e) |-> PacketOf(e[i])]
    OBVIOUS
  <1>6. a = <<>>
    <2>1. 1 .. 0 = {}
      OBVIOUS
    <2>2. a = [i \in {} |-> PacketOf(e[i])]
      BY <1>2, <1>5, <2>1
    <2> QED
      BY <2>2
  <1>7. Enumerates(a, S)
    BY <1>4, <1>6, EnumeratesNone
  <1>8. \A i \in 1 .. Len(e) : e[i].ch = c
    BY <1>2
  <1>9. DispatchedAre(e, L, c, R, R)
    BY <1>2, <1>3, <1>5, <1>7, <1>8 DEF DispatchedAre
  <1> QED
    BY <1>1, <1>9

LEMMA StandStill ==
  ASSUME NEW L, NEW c, NEW life, NEW R, NEW u, Context(L, c, life, R, u),
         NEW p \in Peers, Good(p.chan[c], L, c, R, u), Idle(p.chan[c])
  PROVE  Advance(p, p, c, L, R, R, u)
  <1>1. R \in Nat /\ R <= u /\ Boundary(L, R)
    BY DEF Context
  <1>2. \A d \in Channels : d # c => p.chan[d] = p.chan[d]
    OBVIOUS
  <1>3. \E new : DispatchedAre(new, L, c, R, R) /\ p.dispatched = p.dispatched \o new
    <2>1. p.dispatched \in Seq(Entries)
      BY DEF Peers
    <2>2. p.dispatched = p.dispatched \o <<>>
      BY <2>1
    <2> QED
      BY <1>1, <2>2, NothingDispatched
  <1>4. KeepsMore(p.chan[c].rel, R, p.chan[c].rel, R, L)
    BY DEF KeepsMore
  <1>5. R <= R
    BY <1>1
  <1> QED
    BY <1>1, <1>2, <1>3, <1>4, <1>5 DEF Advance

\* enet_peer_dispatch_incoming_reliable_commands() on a channel.
LEMMA DispatchAdvances ==
  ASSUME NEW L, NEW c, NEW life, NEW R, NEW u, Context(L, c, life, R, u),
         NEW p \in Peers, Good(p.chan[c], L, c, R, u)
  PROVE  \E S : Advance(p, DispatchReliable(p, c), c, L, R, S, u)
  <1>1. c \in Channels /\ R \in Nat
    BY DEF Context
  <1>2. PICK ch \in ChannelRecords : ch = p.chan[c]
    BY <1>1, PeerFields
  <1>3. /\ p.chan \in [Channels -> ChannelRecords] /\ p.dispatched \in Seq(Entries)
        /\ ch.rel \in Seq(Entries) /\ ch.unrel = <<>>
    BY <1>1, <1>2, PeerFields
  <1>4. PICK k : k = ReadyRun(ch)
    OBVIOUS
  <1>5. ReadyIs(ch, k)
    BY <1>3, <1>4, ReadyRunIs
  <1>6. DispatchReliable(p, c) = DispatchRun(p, c, k)
    BY <1>2, <1>4 DEF DispatchReliable
  <1>7. PICK m \in Nat : m = Len(ch.rel)
    BY <1>3
  <1>8. k \in 0 .. m
    BY <1>5, <1>7 DEF ReadyIs
  <1>9. CASE k = 0
    <2>1. DispatchReliable(p, c) = p
      BY <1>6, <1>9 DEF DispatchRun
    <2>2. Idle(ch)
      <3>1. 0 < m => ~Follows(ch, 1)
        BY <1>5, <1>7, <1>9 DEF ReadyIs
      <3>2. m = 0 \/ 0 < m
        BY <1>7
      <3> QED
        BY <1>7, <3>1, <3>2 DEF Idle
    <2>3. Advance(p, p, c, L, R, R, u)
      BY <1>2, <2>2, StandStill
    <2> QED
      BY <2>1, <2>3
  <1>10. CASE k # 0
    <2>1. k \in 1 .. m /\ \A i \in 1 .. k : Follows(ch, i)
      BY <1>5, <1>8, <1>10 DEF ReadyIs
    <2>2. AfterRunIs(ch, k, L, c, R, u)
      BY <1>2, <1>7, <2>1, AfterRunHolds
    <2>3. PICK S : S = PacketOf(ch.rel[k])
      OBVIOUS
    <2>4. PICK rest : rest = SubSeq(ch.rel, k + 1, m)
      OBVIOUS
    <2>5. PICK new : new = SubSeq(ch.rel, 1, k)
      OBVIOUS
    <2>6. /\ S \in Nat /\ R < S /\ S <= u /\ S \in Ends(L)
          /\ LastNumber(ch.rel[k]) = S % Numbers
          /\ \E b : Queue(rest, b, L, c, S, u)
          /\ KeepsMore(ch.rel, R, rest, S, L)
          /\ DispatchedAre(new, L, c, R, S)
      BY <1>7, <2>2, <2>3, <2>4, <2>5 DEF AfterRunIs
    <2>7. PICK q : q = DispatchReliable(p, c)
      BY SMTT(30)
    <2>8. q = [p EXCEPT !.dispatched = @ \o new, !.chan[c].rel = rest,
                        !.chan[c].rseq = S % Numbers, !.chan[c].useq = 0]
      BY <1>2, <1>3, <1>6, <1>7, <1>10, <2>4, <2>5, <2>6, <2>7 DEF DispatchRun
    <2>9. rest \in Seq(Entries) /\ new \in Seq(Entries)
      BY <2>6 DEF Queue, DispatchedAre
    <2>10. S % Numbers \in Nat
      BY <2>6, Sizes
    <2>11. PICK more : more = [ch EXCEPT !.rel = rest, !.rseq = S % Numbers, !.useq = 0]
      OBVIOUS
    <2>12. more \in ChannelRecords /\ more.rel = rest /\ more.rseq = S % Numbers
      BY <2>9, <2>10, <2>11 DEF ChannelRecords
    <2>13. q = [p EXCEPT !.dispatched = @ \o new, !.chan[c] = more]
      BY <1>1, <1>2, <1>3, <2>8, <2>11, ZenonT(30) DEF Peers
    <2>14. q.dispatched = p.dispatched \o new /\ q.chan = [p.chan EXCEPT ![c] = more]
           /\ q.waiting = p.waiting /\ q.group = p.group /\ q.seen = p.seen
      BY <2>13 DEF Peers
    <2>15. q.chan[c] = more /\ \A d \in Channels : d # c => q.chan[d] = p.chan[d]
      BY <1>1, <1>3, <2>14
    <2>16. q \in Peers
      <3>1. p.dispatched \o new \in Seq(Entries)
        BY <1>3, <2>9, ConcatProperties
      <3>2. [p.chan EXCEPT ![c] = more] \in [Channels -> ChannelRecords]
        BY <1>3, <2>12
      <3>3. [p EXCEPT !.dispatched = p.dispatched \o new, !.chan = [p.chan EXCEPT ![c] = more]] \in Peers
        BY <3>1, <3>2 DEF Peers
      <3> QED
        BY <2>13, <3>3 DEF Peers
    <2>17. Good(more, L, c, S, u)
      BY <2>6, <2>12 DEF Good
    <2>18. Idle(more)
      <3>1. SUFFICES ASSUME Len(rest) # 0, Follows(more, 1)
                     PROVE  FALSE
        BY <2>12 DEF Idle
      <3>2. k \in Nat /\ k < m /\ rest[1] = ch.rel[k + 1]
        <4>1. k \in Nat /\ k <= m
          BY <2>1
        <4>2. Len(rest) = m - k /\ \A i \in 1 .. m - k : rest[i] = ch.rel[k + i]
          BY <1>3, <1>7, <2>4, <4>1
        <4>3. k < m
          BY <1>7, <3>1, <4>1, <4>2
        <4>4. 1 \in 1 .. m - k
          BY <1>7, <4>1, <4>3
        <4> QED
          BY <4>1, <4>2, <4>3, <4>4
      <3>3. Prev(more, 1) = S % Numbers
        BY <2>12 DEF Prev
      <3>4. Prev(ch, k + 1) = LastNumber(ch.rel[k])
        <4>1. PICK h : h = k + 1
          OBVIOUS
        <4>2. h # 1 /\ h - 1 = k
          BY <1>10, <3>2, <4>1
        <4>3. Prev(ch, h) = LastNumber(ch.rel[k])
          BY <4>2 DEF Prev
        <4> QED
          BY <4>1, <4>3
      <3>5. Complete(rest[1]) /\ rest[1].seq = (Prev(more, 1) + 1) % Numbers
        BY <2>12, <3>1 DEF Follows
      <3>6. Follows(ch, k + 1)
        BY <2>6, <3>2, <3>3, <3>4, <3>5 DEF Follows
      <3> QED
        BY <1>5, <1>7, <3>2, <3>6 DEF ReadyIs
    <2>19. Boundary(L, S) /\ R <= S
      BY <1>1, <2>6 DEF Boundary
    <2>20. KeepsMore(p.chan[c].rel, R, q.chan[c].rel, S, L)
      BY <1>2, <2>6, <2>12, <2>15
    <2>21. Advance(p, q, c, L, R, S, u)
      BY <2>6, <2>14, <2>15, <2>16, <2>17, <2>18, <2>19, <2>20 DEF Advance
    <2> QED
      BY <2>7, <2>21
  <1> QED
    BY <1>9, <1>10

--------------------------------------------------------------------------------
(* A new command finds its place in the list. *)

InsertedIs(r, q, p, e) ==
  /\ Len(r) = Len(q) + 1
  /\ \A i \in 1 .. Len(r) : /\ i <= p => r[i] = q[i]
                            /\ i = p + 1 => r[i] = e
                            /\ i > p + 1 => i - 1 \in 1 .. Len(q) /\ r[i] = q[i - 1]

LEMMA InsertAtIs ==
  ASSUME NEW T, NEW q \in Seq(T), NEW p \in 0 .. Len(q), NEW e \in T
  PROVE  InsertAt(q, p + 1, e) \in Seq(T) /\ InsertedIs(InsertAt(q, p + 1, e), q, p, e)
  <1>1. PICK n \in Nat : n = Len(q)
    OBVIOUS
  <1>2. p \in Nat /\ p <= n
    BY <1>1
  <1>3. PICK a : a = SubSeq(q, 1, p)
    OBVIOUS
  <1>4. PICK z : z = SubSeq(q, p + 1, n)
    OBVIOUS
  <1>5. a \in Seq(T) /\ Len(a) = p /\ \A i \in 1 .. p : a[i] = q[i]
    BY <1>1, <1>2, <1>3
  <1>6. z \in Seq(T) /\ Len(z) = n - p /\ \A i \in 1 .. n - p : z[i] = q[p + i]
    BY <1>1, <1>2, <1>4
  <1>7. PICK r : r = InsertAt(q, p + 1, e)
    OBVIOUS
  <1>8. (p + 1) - 1 = p
    BY <1>2
  <1>9. r = (a \o <<e>>) \o z
    BY <1>1, <1>3, <1>4, <1>7, <1>8 DEF InsertAt
  <1>10. PICK o : o = <<e>>
    OBVIOUS
  <1>11. o \in Seq(T) /\ Len(o) = 1 /\ o[1] = e
    BY <1>10
  <1>12. PICK x : x = a \o o
    OBVIOUS
  <1>13. x \in Seq(T) /\ Len(x) = p + 1
    <2>1. a \o o \in Seq(T) /\ Len(a \o o) = Len(a) + Len(o)
      BY <1>5, <1>11, ConcatProperties
    <2> QED
      BY <1>2, <1>5, <1>11, <1>12, <2>1
  <1>14. \A i \in 1 .. p + 1 : x[i] = IF i <= p THEN q[i] ELSE e
    <2>1. TAKE i \in 1 .. p + 1
    <2>2. x[i] = IF i <= Len(a) THEN a[i] ELSE o[i - Len(a)]
      <3>1. i \in 1 .. Len(a) + Len(o)
        BY <1>5, <1>11
      <3> QED
        BY <1>5, <1>11, <1>12, <3>1, ConcatProperties
    <2>3. i <= p => i \in 1 .. p
      BY <1>2
    <2>4. ~(i <= p) => i - p = 1
      BY <1>2
    <2> QED
      BY <1>5, <1>11, <2>2, <2>3, <2>4
  <1>15. r = x \o z
    BY <1>9, <1>10, <1>12
  <1>16. r \in Seq(T) /\ Len(r) = n + 1
    BY <1>1, <1>2, <1>6, <1>13, <1>15, ConcatProperties
  <1>17. ASSUME NEW i \in 1 .. n + 1
         PROVE  /\ i <= p => r[i] = q[i]
                /\ i = p + 1 => r[i] = e
                /\ i > p + 1 => i - 1 \in 1 .. n /\ r[i] = q[i - 1]
    <2>1. r[i] = IF i <= Len(x) THEN x[i] ELSE z[i - Len(x)]
      BY <1>2, <1>6, <1>13, <1>15, ConcatProperties
    <2>2. CASE i <= p + 1
      <3>1. i \in 1 .. p + 1 /\ r[i] = x[i]
        BY <1>2, <1>13, <2>1, <2>2
      <3> QED
        BY <1>2, <1>14, <2>2, <3>1
    <2>3. CASE ~(i <= p + 1)
      <3>1. PICK j \in 1 .. n - p : j = i - (p + 1)
        BY <1>2, <2>3
      <3>2. r[i] = z[j]
        BY <1>13, <2>1, <2>3, <3>1
      <3>3. p + j = i - 1
        BY <1>2, <3>1
      <3>4. z[j] = q[p + j]
        BY <1>6
      <3>5. i - 1 \in 1 .. n /\ i > p + 1 /\ ~(i <= p) /\ i # p + 1
        BY <1>2, <2>3
      <3> QED
        BY <3>2, <3>3, <3>4, <3>5
    <2> QED
      BY <2>2, <2>3
  <1>18. InsertedIs(r, q, p, e)
    BY <1>1, <1>16, <1>17 DEF InsertedIs
  <1> QED
    BY <1>7, <1>16, <1>18

LEMMA QueueInsert ==
  ASSUME NEW rel, NEW b, NEW L, NEW c, NEW R, NEW u, Queue(rel, b, L, c, R, u),
         NEW e \in Entries, NEW s \in Nat, InQueue(e, L, c, R, u, s), NEW p \in 0 .. Len(rel),
         \A i \in 1 .. Len(b) : (i <= p => b[i] < s) /\ (i > p => s < b[i])
  PROVE  Queue(InsertAt(rel, p + 1, e), InsertAt(b, p + 1, s), L, c, R, u)
  <1>1. PICK n \in Nat : n = Len(rel)
    BY DEF Queue
  <1>2. rel \in Seq(Entries) /\ b \in Seq(Nat) /\ Len(b) = n /\ p \in 0 .. n /\ p \in Nat /\ p <= n
    BY <1>1 DEF Queue
  <1>3. PICK r : r = InsertAt(rel, p + 1, e)
    OBVIOUS
  <1>4. PICK d : d = InsertAt(b, p + 1, s)
    OBVIOUS
  <1>5. r \in Seq(Entries) /\ InsertedIs(r, rel, p, e)
    BY <1>1, <1>2, <1>3, InsertAtIs
  <1>6. d \in Seq(Nat) /\ InsertedIs(d, b, p, s)
    BY <1>2, <1>4, InsertAtIs
  <1>7. Len(r) = n + 1 /\ Len(d) = n + 1
    BY <1>1, <1>2, <1>5, <1>6 DEF InsertedIs
  <1>8. ASSUME NEW i \in 1 .. n + 1
        PROVE  InQueue(r[i], L, c, R, u, d[i])
    <2>1. CASE i <= p
      <3>1. i \in 1 .. n /\ r[i] = rel[i] /\ d[i] = b[i]
        BY <1>2, <1>5, <1>6, <1>7, <2>1 DEF InsertedIs
      <3> QED
        BY <1>2, <3>1 DEF Queue
    <2>2. CASE i = p + 1
      <3>1. r[i] = e /\ d[i] = s
        BY <1>2, <1>5, <1>6, <1>7, <2>2 DEF InsertedIs
      <3> QED
        BY <3>1
    <2>3. CASE i > p + 1
      <3>1. i - 1 \in 1 .. n /\ r[i] = rel[i - 1] /\ d[i] = b[i - 1]
        BY <1>1, <1>2, <1>5, <1>6, <1>7, <2>3 DEF InsertedIs
      <3> QED
        BY <1>2, <3>1 DEF Queue
    <2> QED
      BY <1>2, <2>1, <2>2, <2>3
  <1>9. ASSUME NEW i \in 1 .. n + 1, NEW j \in 1 .. n + 1, i < j
        PROVE  d[i] < d[j]
    <2>1. CASE j <= p
      <3>1. i \in 1 .. n /\ j \in 1 .. n /\ d[i] = b[i] /\ d[j] = b[j]
        BY <1>2, <1>6, <1>7, <1>9, <2>1 DEF InsertedIs
      <3> QED
        BY <1>2, <1>9, <3>1 DEF Queue
    <2>2. CASE j = p + 1
      <3>1. i \in 1 .. n /\ i <= p /\ d[i] = b[i] /\ d[j] = s
        BY <1>2, <1>6, <1>7, <1>9, <2>2 DEF InsertedIs
      <3> QED
        BY <1>2, <3>1
    <2>3. CASE j > p + 1
      <3>1. j - 1 \in 1 .. n /\ d[j] = b[j - 1] /\ j - 1 > p
        BY <1>2, <1>6, <1>7, <2>3 DEF InsertedIs
      <3>2. CASE i <= p
        <4>1. i \in 1 .. n /\ i < j - 1 /\ d[i] = b[i]
          BY <1>2, <1>6, <1>7, <3>1, <3>2 DEF InsertedIs
        <4> QED
          BY <1>2, <3>1, <4>1 DEF Queue
      <3>3. CASE i = p + 1
        <4>1. d[i] = s
          BY <1>2, <1>6, <1>7, <3>3 DEF InsertedIs
        <4> QED
          BY <1>2, <3>1, <4>1
      <3>4. CASE i > p + 1
        <4>1. i - 1 \in 1 .. n /\ d[i] = b[i - 1] /\ i - 1 < j - 1
          BY <1>2, <1>6, <1>7, <1>9, <3>4 DEF InsertedIs
        <4> QED
          BY <1>2, <3>1, <4>1 DEF Queue
      <3> QED
        BY <1>2, <3>2, <3>3, <3>4
    <2> QED
      BY <1>2, <2>1, <2>2, <2>3
  <1>10. Queue(r, d, L, c, R, u)
    BY <1>5, <1>6, <1>7, <1>8, <1>9 DEF Queue
  <1> QED
    BY <1>3, <1>4, <1>10

\* What is in the list stays there.
LEMMA InsertKeeps ==
  ASSUME NEW rel \in Seq(Entries), NEW p \in 0 .. Len(rel), NEW e \in Entries, NEW L, NEW R
  PROVE  KeepsMore(rel, R, InsertAt(rel, p + 1, e), R, L)
  <1>1. PICK r : r = InsertAt(rel, p + 1, e)
    OBVIOUS
  <1>2. InsertedIs(r, rel, p, e)
    BY <1>1, InsertAtIs
  <1>3. PICK m \in Nat : m = Len(rel)
    OBVIOUS
  <1>4. p \in Nat /\ p <= m /\ Len(r) = m + 1
    BY <1>2, <1>3 DEF InsertedIs
  <1>5. ASSUME NEW i \in 1 .. m
        PROVE  \E j \in 1 .. m + 1 : r[j] = rel[i]
    <2>1. CASE i <= p
      <3>1. i \in 1 .. m + 1 /\ r[i] = rel[i]
        BY <1>2, <1>4, <2>1 DEF InsertedIs
      <3> QED
        BY <3>1
    <2>2. CASE ~(i <= p)
      <3>1. PICK j \in 1 .. m + 1 : j = i + 1
        BY <1>3
      <3>2. j > p + 1 /\ j - 1 = i
        BY <1>4, <2>2, <3>1
      <3>3. r[j] = rel[i]
        BY <1>2, <1>4, <3>1, <3>2 DEF InsertedIs
      <3> QED
        BY <3>3
    <2> QED
      BY <2>1, <2>2
  <1>6. ASSUME NEW n \in 1 .. Len(L), Arrived(rel, L, R, n)
        PROVE  Arrived(r, L, R, n)
    <2>1. CASE n <= R
      BY <2>1 DEF Arrived
    <2>2. CASE ~(n <= R)
      <3>1. PICK i \in 1 .. m : <<L[n].frag, L[n].pkt>> \in rel[i].data
        BY <1>3, <1>6, <2>2 DEF Arrived, StoredIn
      <3>2. PICK j \in 1 .. m + 1 : r[j] = rel[i]
        BY <1>5
      <3>3. StoredIn(r, L, n)
        BY <1>4, <3>1, <3>2 DEF StoredIn
      <3> QED
        BY <3>3 DEF Arrived
    <2> QED
      BY <2>1, <2>2
  <1>7. KeepsMore(rel, R, r, R, L)
    BY <1>6 DEF KeepsMore
  <1> QED
    BY <1>1, <1>7

\* Which entries come no later than a command with the number s + 1.
PlacedAt(p, list, b, seq, s) ==
  /\ p \in 0 .. Len(list)
  /\ \A i \in 1 .. Len(list) : (i <= p <=> b[i] <= s) /\ (list[i].seq = seq <=> b[i] = s)

LEMMA PlaceIs ==
  ASSUME NEW L, NEW c, NEW life, NEW R, NEW u, Context(L, c, life, R, u),
         NEW ch, ch.rseq = R % Numbers, NEW b, Queue(ch.rel, b, L, c, R, u),
         NEW s \in Nat, R <= s, TrueWindow(s + 1) <= TrueWindow(R) + FreeWindows - 2,
         NEW seq, seq = (s + 1) % Numbers
  PROVE  PlacedAt(Place(ch, ch.rel, seq, 0), ch.rel, b, seq, s)
  <1>1. PICK rel : rel = ch.rel
    OBVIOUS
  <1>2. PICK m \in Nat : m = Len(rel)
    BY <1>1 DEF Queue
  <1>3. rel \in Seq(Entries) /\ b \in Seq(Nat) /\ Len(b) = m /\ DOMAIN rel = 1 .. m
    BY <1>1, <1>2 DEF Queue
  <1>4. R \in Nat /\ u \in Nat /\ c \in Channels
    BY DEF Context
  <1>5. ASSUME NEW x \in Nat, R <= x, TrueWindow(x + 1) <= TrueWindow(R) + FreeWindows - 2
        PROVE  /\ x + 1 < R + Numbers /\ Rank(ch, (x + 1) % Numbers) = x + 1 - Round(R)
               /\ Round(R) \in Nat
    <2>1. PICK y \in Nat : y = x + 1
      OBVIOUS
    <2>2. R < y /\ y < R + Numbers
      BY <1>4, <1>5, <2>1, QueueRange
    <2>3. Ahead(ch, R, y) /\ Round(R) \in Nat
      BY <1>4, <2>2, AheadIs
    <2> QED
      BY <2>1, <2>2, <2>3 DEF Ahead
  <1>6. ASSUME NEW i \in 1 .. m
        PROVE  /\ Precedes(ch, rel[i], seq, 0) <=> b[i] <= s
               /\ rel[i].seq = seq <=> b[i] = s
    <2>1. InQueue(rel[i], L, c, R, u, b[i]) /\ b[i] \in Nat
      BY <1>1, <1>3 DEF Queue
    <2>2. PICK size : Slot(rel[i], L, c, b[i], size, u)
      BY <2>1 DEF InQueue
    <2>3. SlotFacts(rel[i], c, b[i], size, u)
      BY <1>4, <2>2, SlotIs
    <2>4. rel[i].seq = (b[i] + 1) % Numbers /\ rel[i].useq = 0
      BY <2>3 DEF SlotFacts
    <2>5. R <= b[i] /\ TrueWindow(b[i] + 1) <= TrueWindow(R) + FreeWindows - 2
      BY <2>1 DEF InQueue
    <2>6. b[i] + 1 < R + Numbers /\ Rank(ch, (b[i] + 1) % Numbers) = b[i] + 1 - Round(R)
      BY <1>5, <2>1, <2>5
    <2>7. s + 1 < R + Numbers /\ Rank(ch, (s + 1) % Numbers) = s + 1 - Round(R) /\ Round(R) \in Nat
      BY <1>5
    <2>8. rel[i].seq = seq <=> b[i] = s
      <3>1. SUFFICES ASSUME rel[i].seq = seq
                     PROVE  b[i] = s
        BY <2>4
      <3>2. PICK x \in Nat : x = b[i] + 1
        BY <2>1
      <3>3. PICK y \in Nat : y = s + 1
        OBVIOUS
      <3>4. x % Numbers = y % Numbers
        BY <2>4, <3>1, <3>2, <3>3
      <3>5. x < y + Numbers /\ y < x + Numbers
        BY <1>4, <2>1, <2>5, <2>6, <2>7, <3>2, <3>3, Sizes
      <3>6. x = y
        BY <3>4, <3>5, SameNumber
      <3> QED
        BY <2>1, <3>2, <3>3, <3>6
    <2>9. Rank(ch, rel[i].seq) < Rank(ch, seq) <=> b[i] < s
      <3>1. Rank(ch, rel[i].seq) = b[i] + 1 - Round(R)
        BY <2>4, <2>6
      <3>2. Rank(ch, seq) = s + 1 - Round(R)
        BY <2>7
      <3> QED
        BY <2>1, <2>7, <3>1, <3>2
    <2>10. Precedes(ch, rel[i], seq, 0) <=> b[i] < s \/ b[i] = s
      BY <2>4, <2>8, <2>9 DEF Precedes
    <2> QED
      BY <2>1, <2>8, <2>10
  <1>7. PICK S \in SUBSET (0 .. m) : S = {i \in 1 .. m : Precedes(ch, rel[i], seq, 0)} \cup {0}
    <2>1. {i \in 1 .. m : Precedes(ch, rel[i], seq, 0)} \cup {0} \subseteq 0 .. m
      BY <1>2
    <2> QED
      BY <2>1
  <1>8. PICK p : p = Max(S)
    OBVIOUS
  <1>9. p \in S /\ \A x \in S : x <= p
    BY <1>2, <1>7, <1>8, GreatestIsIn
  <1>10. p \in 0 .. m
    BY <1>7, <1>9
  <1>11. ASSUME NEW i \in 1 .. m
         PROVE  i <= p <=> b[i] <= s
    <2>1. CASE b[i] <= s
      <3>1. i \in S
        BY <1>6, <1>7, <2>1
      <3> QED
        BY <1>9, <2>1, <3>1
    <2>2. CASE ~(b[i] <= s)
      <3>1. SUFFICES ASSUME i <= p
                     PROVE  FALSE
        BY <2>2
      <3>2. p \in 1 .. m
        BY <1>10, <3>1
      <3>3. Precedes(ch, rel[p], seq, 0)
        BY <1>7, <1>9, <3>2
      <3>4. b[p] <= s
        BY <1>6, <3>2, <3>3
      <3>5. i = p \/ b[i] < b[p]
        BY <1>1, <1>3, <3>1, <3>2 DEF Queue
      <3>6. b[i] \in Nat /\ b[p] \in Nat
        BY <1>3, <3>2
      <3> QED
        BY <2>2, <3>4, <3>5, <3>6
    <2> QED
      BY <2>1, <2>2
  <1>12. Place(ch, rel, seq, 0) = p
    BY <1>3, <1>7, <1>8 DEF Place
  <1>13. PlacedAt(p, rel, b, seq, s)
    BY <1>2, <1>6, <1>10, <1>11 DEF PlacedAt
  <1> QED
    BY <1>1, <1>12, <1>13

--------------------------------------------------------------------------------
(* A list is changed, and then what is ready goes to the application. *)

Changed(p, q, c, L, R) ==
  /\ q \in Peers /\ q.dispatched = p.dispatched
  /\ \A d \in Channels : d # c => q.chan[d] = p.chan[d]
  /\ KeepsMore(p.chan[c].rel, R, q.chan[c].rel, R, L)

LEMMA AdvanceFrom ==
  ASSUME NEW p, NEW q, NEW r, NEW c, NEW L, NEW R, NEW S, NEW u,
         Changed(p, q, c, L, R), Advance(q, r, c, L, R, S, u)
  PROVE  Advance(p, r, c, L, R, S, u)
  <1>1. /\ r \in Peers /\ \A d \in Channels : d # c => r.chan[d] = q.chan[d]
        /\ S \in Nat /\ R <= S /\ S <= u /\ Boundary(L, S)
        /\ Good(r.chan[c], L, c, S, u) /\ Idle(r.chan[c])
    BY DEF Advance
  <1>2. \A d \in Channels : d # c => r.chan[d] = p.chan[d]
    BY <1>1 DEF Changed
  <1>3. \E new : DispatchedAre(new, L, c, R, S) /\ r.dispatched = p.dispatched \o new
    <2>1. PICK new : DispatchedAre(new, L, c, R, S) /\ r.dispatched = q.dispatched \o new
      BY DEF Advance
    <2>2. r.dispatched = p.dispatched \o new
      BY <2>1 DEF Changed
    <2> QED
      BY <2>1, <2>2
  <1>4. KeepsMore(q.chan[c].rel, R, r.chan[c].rel, S, L)
    BY DEF Advance
  <1>5. KeepsMore(p.chan[c].rel, R, q.chan[c].rel, R, L)
    BY DEF Changed
  <1>6. KeepsMore(p.chan[c].rel, R, r.chan[c].rel, S, L)
    BY <1>4, <1>5 DEF KeepsMore
  <1> QED
    BY <1>1, <1>2, <1>3, <1>6 DEF Advance

\* The peer p with another list on channel c.
Relisted(p, c, rel, w) == [p EXCEPT !.chan[c].rel = rel, !.waiting = w]

SameElse(p, q, c, rel) ==
  /\ q \in Peers /\ q.chan[c].rel = rel /\ q.chan[c].rseq = p.chan[c].rseq
  /\ q.chan[c].unrel = <<>> /\ q.dispatched = p.dispatched
  /\ \A d \in Channels : d # c => q.chan[d] = p.chan[d]

LEMMA RelistedIs ==
  ASSUME NEW p \in Peers, NEW c \in Channels, NEW rel \in Seq(Entries), NEW w \in Int
  PROVE  SameElse(p, Relisted(p, c, rel, w), c, rel)
  <1>1. /\ p.chan \in [Channels -> ChannelRecords] /\ p.dispatched \in Seq(Entries)
        /\ p.chan[c] \in ChannelRecords
    BY PeerFields
  <1>2. PICK ch : ch = [p.chan[c] EXCEPT !.rel = rel]
    OBVIOUS
  <1>3. ch \in ChannelRecords /\ ch.rel = rel /\ ch.rseq = p.chan[c].rseq /\ ch.unrel = <<>>
    BY <1>1, <1>2 DEF ChannelRecords
  <1>4. PICK chan : chan = [p.chan EXCEPT ![c] = ch]
    OBVIOUS
  <1>5. /\ chan \in [Channels -> ChannelRecords] /\ chan[c] = ch
        /\ \A d \in Channels : d # c => chan[d] = p.chan[d]
    BY <1>1, <1>3, <1>4
  <1>6. PICK q : q = [p EXCEPT !.chan = chan, !.waiting = w]
    OBVIOUS
  <1>7. q \in Peers /\ q.chan = chan /\ q.dispatched = p.dispatched
    BY <1>5, <1>6 DEF Peers
  <1>8. q = Relisted(p, c, rel, w)
    BY <1>1, <1>2, <1>4, <1>6 DEF Relisted, Peers
  <1>9. SameElse(p, q, c, rel)
    BY <1>3, <1>5, <1>7 DEF SameElse
  <1> QED
    BY <1>8, <1>9

\* A piece of a packet is stored in its entry.
WithPiece(e, f) == [e EXCEPT !.data = @ \cup {f}]
Storing(rel, i, f) == [rel EXCEPT ![i] = WithPiece(@, f)]

StoringIs(r, rel, i, f) ==
  /\ r \in Seq(Entries) /\ Len(r) = Len(rel) /\ r[i] = WithPiece(rel[i], f)
  /\ WithPiece(rel[i], f).data = rel[i].data \cup {f}
  /\ \A j \in 1 .. Len(rel) : j # i => r[j] = rel[j]

LEMMA QueueStore ==
  ASSUME NEW L, NEW c, NEW R, NEW u, NEW rel, NEW b, Queue(rel, b, L, c, R, u),
         NEW i \in 1 .. Len(rel), NEW size, Slot(rel[i], L, c, b[i], size, u), size # 1,
         NEW f \in Pieces(b[i], size, u), f \in Nat \X Nat
  PROVE  /\ StoringIs(Storing(rel, i, f), rel, i, f)
         /\ Queue(Storing(rel, i, f), b, L, c, R, u)
         /\ KeepsMore(rel, R, Storing(rel, i, f), R, L)
  <1>1. PICK m \in Nat : m = Len(rel)
    BY DEF Queue
  <1>2. /\ rel \in Seq(Entries) /\ b \in Seq(Nat) /\ Len(b) = m /\ i \in 1 .. m
        /\ rel[i] \in Entries
    BY <1>1 DEF Queue
  <1>3. PICK e : e = WithPiece(rel[i], f)
    OBVIOUS
  <1>4. e.data = rel[i].data \cup {f} /\ e \in Entries
    BY <1>2, <1>3 DEF WithPiece, Entries
  <1>5. Slot(e, L, c, b[i], size, u)
    <2>1. IsPacket(L, c, b[i], size) /\ rel[i] = EntryOf(c, b[i], size, rel[i].data)
          /\ rel[i].data \subseteq Pieces(b[i], size, u)
      BY DEF Slot
    <2>2. PICK data : data = rel[i].data
      OBVIOUS
    <2>3. rel[i] = [kind |-> IF size > 1 THEN "fragment" ELSE "reliable", ch |-> c,
                    seq |-> (b[i] + 1) % Numbers, useq |-> 0,
                    count |-> IF size > 1 THEN size ELSE 0, data |-> data]
      BY <2>1, <2>2 DEF EntryOf
    <2>4. e = [kind |-> IF size > 1 THEN "fragment" ELSE "reliable", ch |-> c,
               seq |-> (b[i] + 1) % Numbers, useq |-> 0,
               count |-> IF size > 1 THEN size ELSE 0, data |-> data \cup {f}]
      <3>1. PICK x : x = rel[i]
        OBVIOUS
      <3>2. e = [x EXCEPT !.data = x.data \cup {f}]
        BY <1>3, <3>1 DEF WithPiece
      <3>3. x.data = data
        BY <2>2, <3>1
      <3>4. PICK kind, seq, count :
              /\ kind = (IF size > 1 THEN "fragment" ELSE "reliable")
              /\ seq = (b[i] + 1) % Numbers /\ count = (IF size > 1 THEN size ELSE 0)
        OBVIOUS
      <3>5. x = [kind |-> kind, ch |-> c, seq |-> seq, useq |-> 0, count |-> count, data |-> data]
        BY <2>3, <3>1, <3>4
      <3>6. e = [kind |-> kind, ch |-> c, seq |-> seq, useq |-> 0, count |-> count,
                 data |-> data \cup {f}]
        <4>1. PICK more : more = data \cup {f}
          OBVIOUS
        <4>2. e = [x EXCEPT !.data = more]
          BY <3>2, <3>3, <4>1
        <4>3. [[kind |-> kind, ch |-> c, seq |-> seq, useq |-> 0, count |-> count, data |-> data]
                EXCEPT !.data = more]
              = [kind |-> kind, ch |-> c, seq |-> seq, useq |-> 0, count |-> count, data |-> more]
          OBVIOUS
        <4> QED
          BY <3>5, <4>1, <4>2, <4>3
      <3> QED
        BY <3>4, <3>6
    <2>5. e = EntryOf(c, b[i], size, e.data)
      BY <1>4, <2>2, <2>4 DEF EntryOf
    <2>6. e.data \subseteq Pieces(b[i], size, u)
      BY <1>4, <2>1
    <2> QED
      BY <2>1, <2>5, <2>6 DEF Slot
  <1>6. PICK r : r = Storing(rel, i, f)
    OBVIOUS
  <1>7. r = [rel EXCEPT ![i] = e]
    BY <1>3, <1>6 DEF Storing
  <1>8. r \in Seq(Entries) /\ Len(r) = m /\ r[i] = e /\ \A j \in 1 .. m : j # i => r[j] = rel[j]
    BY <1>1, <1>2, <1>4, <1>7
  <1>9. StoringIs(r, rel, i, f)
    BY <1>1, <1>3, <1>4, <1>8 DEF StoringIs
  <1>10. Queue(r, b, L, c, R, u)
    <2>1. ASSUME NEW j \in 1 .. m
          PROVE  InQueue(r[j], L, c, R, u, b[j])
      <3>1. InQueue(rel[j], L, c, R, u, b[j])
        BY <1>2 DEF Queue
      <3>2. CASE j = i
        BY <1>5, <1>8, <3>1, <3>2 DEF InQueue
      <3>3. CASE j # i
        BY <1>8, <3>1, <3>3
      <3> QED
        BY <3>2, <3>3
    <2> QED
      BY <1>2, <1>8, <2>1 DEF Queue
  <1>11. KeepsMore(rel, R, r, R, L)
    <2>1. ASSUME NEW n \in 1 .. Len(L), Arrived(rel, L, R, n)
          PROVE  Arrived(r, L, R, n)
      <3>1. CASE n <= R
        BY <3>1 DEF Arrived
      <3>2. CASE ~(n <= R)
        <4>1. PICK j \in 1 .. m : <<L[n].frag, L[n].pkt>> \in rel[j].data
          BY <1>1, <2>1, <3>2 DEF Arrived, StoredIn
        <4>2. <<L[n].frag, L[n].pkt>> \in r[j].data
          BY <1>4, <1>8, <4>1
        <4>3. StoredIn(r, L, n)
          BY <1>8, <4>1, <4>2 DEF StoredIn
        <4> QED
          BY <4>3 DEF Arrived
      <3> QED
        BY <3>1, <3>2
    <2> QED
      BY <2>1 DEF KeepsMore
  <1> QED
    BY <1>6, <1>9, <1>10, <1>11

\* When nothing is ready nothing is dispatched.
LEMMA IdleDispatch ==
  ASSUME NEW p \in Peers, NEW c \in Channels, Idle(p.chan[c])
  PROVE  DispatchReliable(p, c) = p
  <1>1. PICK ch : ch = p.chan[c]
    OBVIOUS
  <1>2. ch.rel \in Seq(Entries)
    BY <1>1, PeerFields
  <1>3. PICK k : k = ReadyRun(ch)
    OBVIOUS
  <1>4. ReadyIs(ch, k)
    BY <1>2, <1>3, ReadyRunIs
  <1>5. k = 0
    <2>1. SUFFICES ASSUME k # 0
                   PROVE  FALSE
      OBVIOUS
    <2>2. PICK m \in Nat : m = Len(ch.rel)
      BY <1>2
    <2>3. k \in 0 .. m /\ \A i \in 1 .. k : Follows(ch, i)
      BY <1>4, <2>2 DEF ReadyIs
    <2>4. 1 \in 1 .. k /\ m # 0
      BY <2>1, <2>3
    <2>5. Follows(ch, 1)
      BY <2>3, <2>4
    <2> QED
      BY <1>1, <2>2, <2>4, <2>5 DEF Idle
  <1> QED
    BY <1>1, <1>3, <1>5 DEF DispatchReliable, DispatchRun

--------------------------------------------------------------------------------
(* What a command that arrives does. *)

\* The receiver has the command n, and will not take it for a new one.
Has(rel, L, R, n) == Arrived(rel, L, R, n) /\ TrueWindow(n) <= TrueWindow(R) + FreeWindows - 2

\* The handler's result r: some packets are dispatched, and the command n that
\* arrived is acknowledged only when it is kept.
Outcome(p, r, c, L, R, u, n) ==
  \E S : /\ Advance(p, r.peer, c, L, R, S, u)
         /\ r.ok /\ ~NotAcknowledged(r.peer.chan[c], n % Numbers) => Has(r.peer.chan[c].rel, L, S, n)

LEMMA AckedHas ==
  ASSUME NEW L, NEW c, NEW life, NEW R, NEW u, Context(L, c, life, R, u),
         NEW S \in Nat, R <= S, NEW ch, ch.rseq = S % Numbers, NEW n \in 1 .. u,
         NEW rel, Arrived(rel, L, S, n), ~NotAcknowledged(ch, n % Numbers)
  PROVE  Has(rel, L, S, n)
  <1>1. /\ R \in Nat /\ u \in Nat /\ n \in Nat /\ n <= u
        /\ TrueWindow(u) < TrueWindow(R) + FreeWindows
    BY DEF Context
  <1>2. PICK w \in Nat : w = TrueWindow(n)
    BY <1>1, WireWindow
  <1>3. PICK v \in Nat : v = TrueWindow(S)
    BY WireWindow
  <1>4. PICK x \in Nat : x = TrueWindow(R)
    BY <1>1, WireWindow
  <1>5. w <= TrueWindow(u) /\ TrueWindow(u) \in Nat
    BY <1>1, <1>2, WindowsGrow
  <1>6. x <= v
    BY <1>1, <1>3, <1>4, WindowsGrow
  <1>7. w <= v + FreeWindows - 1
    BY <1>1, <1>4, <1>5, <1>6, Sizes
  <1>8. w <= v + FreeWindows - 2
    <2>1. CASE n <= S
      <3>1. w <= v
        BY <1>1, <1>2, <1>3, <2>1, WindowsGrow
      <3> QED
        BY <3>1, Sizes, WindowAssumption
    <2>2. CASE ~(n <= S)
      <3>1. n < S + Numbers
        <4>1. SUFFICES ASSUME S + Numbers <= n
                       PROVE  FALSE
          BY <1>1, Sizes
        <4>2. v + Windows <= w
          BY <1>1, <1>2, <1>3, <4>1, WindowsGrow
        <4> QED
          BY <1>7, <4>2, Sizes
      <3>2. Ahead(ch, S, n)
        BY <1>1, <2>2, <3>1, AheadIs
      <3>3. w \notin v + FreeWindows - 1 .. v + FreeWindows
        BY <1>2, <1>3, <3>2 DEF Ahead
      <3> QED
        BY <1>7, <3>3, Sizes
    <2> QED
      BY <2>1, <2>2
  <1> QED
    BY <1>2, <1>3, <1>8 DEF Has

LEMMA OutcomeFrom ==
  ASSUME NEW L, NEW c, NEW life, NEW R, NEW u, Context(L, c, life, R, u),
         NEW p, NEW q, Changed(p, q, c, L, R), NEW n \in 1 .. u,
         NEW S, NEW r, Advance(q, r.peer, c, L, R, S, u),
         r.ok /\ ~NotAcknowledged(r.peer.chan[c], n % Numbers) => Arrived(q.chan[c].rel, L, R, n)
  PROVE  Outcome(p, r, c, L, R, u, n)
  <1>1. Advance(p, r.peer, c, L, R, S, u)
    BY AdvanceFrom
  <1>2. ASSUME r.ok, ~NotAcknowledged(r.peer.chan[c], n % Numbers)
        PROVE  Has(r.peer.chan[c].rel, L, S, n)
    <2>1. KeepsMore(q.chan[c].rel, R, r.peer.chan[c].rel, S, L)
      BY DEF Advance
    <2>2. n \in 1 .. Len(L)
      BY DEF Context
    <2>3. Arrived(r.peer.chan[c].rel, L, S, n)
      BY <1>2, <2>1, <2>2 DEF KeepsMore
    <2>4. S \in Nat /\ R <= S /\ r.peer.chan[c].rseq = S % Numbers
      BY DEF Advance, Good
    <2>5. PICK ch : ch = r.peer.chan[c]
      OBVIOUS
    <2>6. Has(ch.rel, L, S, n)
      BY <1>2, <2>3, <2>4, <2>5, AckedHas
    <2> QED
      BY <2>5, <2>6
  <1> QED
    BY <1>1, <1>2 DEF Outcome

LEMMA OutcomeStill ==
  ASSUME NEW L, NEW c, NEW life, NEW R, NEW u, Context(L, c, life, R, u),
         NEW p \in Peers, Good(p.chan[c], L, c, R, u), Idle(p.chan[c]), NEW n \in 1 .. u,
         NEW r, r.peer = p,
         r.ok /\ ~NotAcknowledged(p.chan[c], n % Numbers) => Arrived(p.chan[c].rel, L, R, n)
  PROVE  Outcome(p, r, c, L, R, u, n)
  <1>1. Advance(p, p, c, L, R, R, u)
    BY StandStill
  <1>2. Changed(p, p, c, L, R)
    BY DEF Changed, KeepsMore
  <1> QED
    BY <1>1, <1>2, OutcomeFrom

\* A piece of a packet that is in the list.
LEMMA StoreHolds ==
  ASSUME NEW L, NEW c, NEW life, NEW R, NEW u, Context(L, c, life, R, u),
         NEW p, NEW q, Changed(p, q, c, L, R), Good(q.chan[c], L, c, R, u), Idle(q.chan[c]),
         NEW s, NEW size, IsPacket(L, c, s, size), size # 1,
         NEW n \in 1 .. u, n \in s + 1 .. s + size, R <= s,
         NEW e, e = EntryOf(c, s, size, {}), NEW i \in Start(q, e),
         TrueWindow(s + 1) <= TrueWindow(R) + FreeWindows - 2,
         NEW f, f = <<n - s - 1, s + size>>
  PROVE  Outcome(p, StoreAt(q, e, i, f), c, L, R, u, n)
  <1>1. PICK ch : ch = q.chan[c]
    OBVIOUS
  <1>2. PICK rel : rel = ch.rel
    OBVIOUS
  <1>3. PICK b : Queue(rel, b, L, c, R, u)
    BY <1>1, <1>2 DEF Good
  <1>4. PICK m \in Nat : m = Len(rel)
    BY <1>3 DEF Queue
  <1>5. rel \in Seq(Entries) /\ b \in Seq(Nat) /\ Len(b) = m /\ DOMAIN rel = 1 .. m
    BY <1>3, <1>4 DEF Queue
  <1>6. /\ c \in Channels /\ u \in Nat /\ R \in Nat /\ L \in Seq(Logged) /\ Tiled(L, c, life)
        /\ s \in Nat /\ size \in Nat \ {0} /\ n \in Nat /\ n <= u /\ q \in Peers
    BY DEF Context, IsPacket, Changed
  <1>7. /\ e.ch = c /\ IsReliable(e) /\ e.seq = (s + 1) % Numbers /\ e.useq = 0
        /\ e.kind = "fragment" /\ e.count = size
    <2>1. size > 1
      BY <1>6
    <2> QED
      BY <2>1 DEF EntryOf, IsReliable
  <1>8. Listed(q, e) = rel
    BY <1>1, <1>2, <1>7 DEF Listed
  <1>9. i \in 1 .. m /\ rel[i].seq = (s + 1) % Numbers
    BY <1>5, <1>7, <1>8 DEF Start
  <1>10. b[i] = s
    <2>1. PICK seq : seq = (s + 1) % Numbers
      OBVIOUS
    <2>2. ch.rseq = R % Numbers
      BY <1>1 DEF Good
    <2>3. PlacedAt(Place(ch, rel, seq, 0), rel, b, seq, s)
      BY <1>2, <1>3, <1>6, <2>1, <2>2, PlaceIs
    <2> QED
      BY <1>4, <1>9, <2>1, <2>3 DEF PlacedAt
  <1>11. Slot(rel[i], L, c, s, size, u)
    <2>1. InQueue(rel[i], L, c, R, u, b[i])
      BY <1>3, <1>5, <1>9 DEF Queue
    <2>2. PICK k : Slot(rel[i], L, c, s, k, u)
      BY <1>10, <2>1 DEF InQueue
    <2>3. IsPacket(L, c, s, k)
      BY <2>2 DEF Slot
    <2>4. s + 1 \in s + 1 .. s + size /\ s + 1 \in s + 1 .. s + k
      BY <1>6, <2>3 DEF IsPacket
    <2>5. k = size
      BY <1>6, <2>3, <2>4, SamePacket
    <2> QED
      BY <2>2, <2>5
  <1>12. L[n].frag = n - s - 1 /\ L[n].pkt = s + size /\ f = <<L[n].frag, L[n].pkt>>
    BY <1>6, InPacket, SMTT(30)
  <1>13. f \in Pieces(s, size, u) /\ f \in Nat \X Nat
    <2>1. PICK k \in 1 .. size : k = n - s
      BY <1>6
    <2>2. k - 1 = n - s - 1 /\ s + k <= u /\ k - 1 \in Nat
      BY <1>6, <2>1
    <2> QED
      BY <1>6, <2>2 DEF Pieces
  <1>14. CASE \E d \in rel[i].data : d[1] = f[1]
    <2>1. StoreAt(q, e, i, f) = Done(q, TRUE)
      BY <1>8, <1>14 DEF StoreAt
    <2>2. PICK d \in rel[i].data : d[1] = f[1]
      BY <1>14
    <2>3. d \in Pieces(s, size, u)
      BY <1>11, <2>2 DEF Slot
    <2>4. d = f
      BY <2>2, <2>3 DEF Pieces
    <2>5. StoredIn(rel, L, n)
      BY <1>4, <1>9, <1>12, <2>2, <2>4 DEF StoredIn
    <2>6. Arrived(q.chan[c].rel, L, R, n)
      BY <1>1, <1>2, <2>5 DEF Arrived
    <2>7. PICK r : r = StoreAt(q, e, i, f)
      OBVIOUS
    <2>8. r.peer = q
      BY <2>1, <2>7 DEF Done
    <2>9. Advance(q, r.peer, c, L, R, R, u)
      BY <1>6, <2>8, StandStill
    <2>10. Outcome(p, r, c, L, R, u, n)
      BY <2>6, <2>9, OutcomeFrom
    <2> QED
      BY <2>7, <2>10
  <1>15. CASE ~\E d \in rel[i].data : d[1] = f[1]
    <2>1. PICK more : more = Storing(rel, i, f)
      OBVIOUS
    <2>2. /\ StoringIs(more, rel, i, f) /\ Queue(more, b, L, c, R, u)
          /\ KeepsMore(rel, R, more, R, L)
      BY <1>3, <1>4, <1>9, <1>10, <1>11, <1>13, <2>1, QueueStore
    <2>3. more \in Seq(Entries)
      BY <2>2 DEF StoringIs
    <2>4. PICK t : t = Relisted(q, c, more, q.waiting)
      OBVIOUS
    <2>5. q.waiting \in Int /\ q.chan \in [Channels -> ChannelRecords]
      BY <1>6, PeerFields
    <2>6. SameElse(q, t, c, more)
      BY <1>6, <2>3, <2>4, <2>5, RelistedIs
    <2>7. t = Stored(q, e, i, f)
      BY <1>1, <1>2, <1>6, <1>7, <2>1, <2>4, <2>5 DEF Stored, Relisted, Storing, WithPiece, Peers
    <2>8. PICK complete : complete = Complete(WithPiece(rel[i], f))
      OBVIOUS
    <2>9. StoreAt(q, e, i, f) = Done(DispatchIf(complete, t, e), TRUE)
      BY <1>8, <1>15, <2>7, <2>8 DEF StoreAt, WithPiece
    <2>10. Changed(q, t, c, L, R)
      BY <1>1, <1>2, <2>2, <2>6 DEF Changed, SameElse
    <2>11. Changed(p, t, c, L, R)
      BY <1>1, <1>2, <2>10 DEF Changed, KeepsMore
    <2>12. Good(t.chan[c], L, c, R, u)
      BY <1>1, <2>2, <2>6 DEF Good, SameElse
    <2>13. t \in Peers /\ t.chan[c].rel = more
      BY <2>6 DEF SameElse
    <2>14. Arrived(t.chan[c].rel, L, R, n)
      <3>1. f \in more[i].data /\ Len(more) = m
        BY <1>4, <2>2 DEF StoringIs
      <3>2. StoredIn(more, L, n)
        BY <1>9, <1>12, <3>1 DEF StoredIn
      <3> QED
        BY <2>13, <3>2 DEF Arrived
    <2>15. PICK r : r = StoreAt(q, e, i, f)
      OBVIOUS
    <2>16. r.peer = DispatchIf(complete, t, e)
      BY <2>9, <2>15 DEF Done
    <2>17. \E S : Advance(t, r.peer, c, L, R, S, u)
      <3>1. CASE complete
        <4>1. r.peer = DispatchReliable(t, c)
          BY <1>7, <2>16, <3>1 DEF DispatchIf
        <4> QED
          BY <2>12, <2>13, <4>1, DispatchAdvances
      <3>2. CASE ~complete
        <4>1. r.peer = t
          BY <2>16, <3>2 DEF DispatchIf
        <4>2. Idle(t.chan[c])
          <5>1. m # 0 /\ Len(more) = m
            BY <1>4, <1>9, <2>2 DEF StoringIs
          <5>2. CASE i = 1
            <6>1. more[1] = WithPiece(rel[i], f)
              BY <2>2, <5>2 DEF StoringIs
            <6>2. ~Follows(t.chan[c], 1)
              BY <2>8, <2>13, <3>2, <6>1 DEF Follows
            <6> QED
              BY <6>2 DEF Idle
          <5>3. CASE i # 1
            <6>1. more[1] = rel[1]
              <7>1. 1 \in 1 .. m
                BY <5>1
              <7> QED
                BY <1>4, <2>2, <5>3, <7>1 DEF StoringIs
            <6>2. ~Follows(ch, 1)
              BY <1>1, <1>2, <1>4, <5>1 DEF Idle
            <6>3. Prev(t.chan[c], 1) = Prev(ch, 1)
              BY <1>1, <2>6 DEF Prev, SameElse
            <6>4. ~Follows(t.chan[c], 1)
              BY <1>2, <2>13, <6>1, <6>2, <6>3 DEF Follows
            <6> QED
              BY <6>4 DEF Idle
          <5> QED
            BY <5>2, <5>3
        <4>3. Advance(t, t, c, L, R, R, u)
          BY <2>12, <2>13, <4>2, StandStill
        <4> QED
          BY <4>1, <4>3
      <3> QED
        BY <3>1, <3>2
    <2>18. PICK S : Advance(t, r.peer, c, L, R, S, u)
      BY <2>17
    <2>19. Outcome(p, r, c, L, R, u, n)
      BY <2>11, <2>14, <2>18, OutcomeFrom
    <2> QED
      BY <2>15, <2>19
  <1> QED
    BY <1>14, <1>15

--------------------------------------------------------------------------------
(* A command that was not there is queued. *)

\* The entry a command of the packet of that size after s is queued as.
FreshEntry(c, s, size) == EntryOf(c, s, size, IF size = 1 THEN {<<0, s + 1>>} ELSE {})

FreshFacts(e, L, c, R, u, s, size) ==
  /\ InQueue(e, L, c, R, u, s) /\ e \in Entries /\ e.ch = c /\ IsReliable(e)
  /\ e.seq = (s + 1) % Numbers /\ e.useq = 0 /\ DataLength(e) = size
  /\ size # 1 => ~Complete(e) /\ Fragmented(e)
  /\ size = 1 => e.data = {<<0, s + 1>>} /\ ~Fragmented(e)

LEMMA FreshIs ==
  ASSUME NEW L, NEW c \in Channels, NEW R, NEW u \in Nat, NEW s, NEW size, IsPacket(L, c, s, size),
         R <= s, s + 1 <= u, TrueWindow(s + 1) <= TrueWindow(R) + FreeWindows - 2,
         NEW e, e = FreshEntry(c, s, size)
  PROVE  FreshFacts(e, L, c, R, u, s, size)
  <1>1. s \in Nat /\ size \in Nat \ {0}
    BY DEF IsPacket
  <1>2. PICK data : data = IF size = 1 THEN {<<0, s + 1>>} ELSE {}
    OBVIOUS
  <1>3. e = EntryOf(c, s, size, data)
    BY <1>2 DEF FreshEntry
  <1>4. e.data = data /\ e.count = (IF size > 1 THEN size ELSE 0)
    BY <1>3 DEF EntryOf
  <1>5. data \subseteq Pieces(s, size, u)
    <2>1. CASE size = 1
      <3>1. 1 \in {j \in 1 .. size : s + j <= u} /\ s + size = s + 1 /\ 1 - 1 = 0
        BY <1>1, <2>1
      <3>2. <<1 - 1, s + size>> \in Pieces(s, size, u)
        BY <3>1 DEF Pieces
      <3> QED
        BY <1>2, <2>1, <3>1, <3>2
    <2>2. CASE size # 1
      BY <1>2, <2>2
    <2> QED
      BY <2>1, <2>2
  <1>6. Slot(e, L, c, s, size, u)
    BY <1>2, <1>3, <1>4, <1>5 DEF Slot
  <1>7. SlotFacts(e, c, s, size, u)
    BY <1>6, SlotIs
  <1>8. InQueue(e, L, c, R, u, s)
    BY <1>6 DEF InQueue
  <1>9. ASSUME size # 1
        PROVE  ~Complete(e) /\ Fragmented(e)
    <2>1. e.count = size /\ size > 1 /\ e.data = {}
      BY <1>1, <1>2, <1>4, <1>9
    <2>2. Cardinality(e.data) = 0
      BY <2>1, FS_EmptySet
    <2> QED
      BY <1>1, <2>1, <2>2 DEF Complete, Fragmented
  <1>10. ASSUME size = 1
         PROVE  e.data = {<<0, s + 1>>} /\ ~Fragmented(e)
    BY <1>2, <1>4, <1>10 DEF Fragmented
  <1> QED
    BY <1>7, <1>8, <1>9, <1>10 DEF SlotFacts, FreshFacts

\* What enet_peer_queue_incoming_command() makes of a command in the windows: it
\* is there already, there is no room for it, or it takes its place in the list.
Already(p, q, e, c) ==
  q.peer = p /\ q.result = (IF Fragmented(e) THEN "error" ELSE "dummy")
  /\ \E i \in 1 .. Len(p.chan[c].rel) : p.chan[c].rel[i].seq = e.seq
NoRoom(p, q) == q.peer = p /\ q.result = "error"
TakesPlace(p, t, e, c, L, R, u) ==
  /\ Changed(p, t, c, L, R) /\ Good(t.chan[c], L, c, R, u) /\ t.chan[c].rseq = p.chan[c].rseq
  /\ \E i \in 1 .. Len(t.chan[c].rel) :
       /\ t.chan[c].rel[i] = e
       /\ i # 1 => Len(p.chan[c].rel) # 0 /\ t.chan[c].rel[1] = p.chan[c].rel[1]

QueueOutcome(p, q, e, c, L, R, u) ==
  \/ Already(p, q, e, c) \/ NoRoom(p, q)
  \/ q.result = "queued" /\ \E t : TakesPlace(p, t, e, c, L, R, u) /\ q.peer = DispatchReliable(t, c)

LEMMA QueueEntryIs ==
  ASSUME NEW L, NEW c, NEW life, NEW R, NEW u, Context(L, c, life, R, u),
         NEW p \in Peers, Good(p.chan[c], L, c, R, u),
         NEW s, NEW size, IsPacket(L, c, s, size), R <= s, s + 1 <= u,
         TrueWindow(s + 1) <= TrueWindow(R) + FreeWindows - 2,
         NEW e, e = FreshEntry(c, s, size)
  PROVE  QueueOutcome(p, QueueEntry(p, e), e, c, L, R, u)
  <1>1. PICK ch : ch = p.chan[c]
    OBVIOUS
  <1>2. PICK rel : rel = ch.rel
    OBVIOUS
  <1>3. PICK b : Queue(rel, b, L, c, R, u)
    BY <1>1, <1>2 DEF Good
  <1>4. /\ c \in Channels /\ u \in Nat /\ R \in Nat /\ L \in Seq(Logged) /\ Tiled(L, c, life)
        /\ s \in Nat /\ size \in Nat \ {0} /\ ch.rseq = R % Numbers
    BY <1>1 DEF Context, IsPacket, Good
  <1>5. /\ InQueue(e, L, c, R, u, s) /\ e \in Entries /\ e.ch = c /\ IsReliable(e)
        /\ e.seq = (s + 1) % Numbers /\ e.useq = 0 /\ DataLength(e) = size
    <2>1. FreshFacts(e, L, c, R, u, s, size)
      BY <1>4, FreshIs
    <2> QED
      BY <2>1 DEF FreshFacts
  <1>6. PICK m \in Nat : m = Len(rel)
    BY <1>3 DEF Queue
  <1>7. rel \in Seq(Entries) /\ b \in Seq(Nat) /\ Len(b) = m
    BY <1>3, <1>6 DEF Queue
  <1>8. PICK place : place = Place(ch, rel, e.seq, 0)
    OBVIOUS
  <1>9. PlacedAt(place, rel, b, e.seq, s)
    <2>1. PICK seq : seq = (s + 1) % Numbers
      OBVIOUS
    <2>2. PlacedAt(Place(ch, rel, seq, 0), rel, b, seq, s)
      BY <1>2, <1>3, <1>4, <2>1, PlaceIs
    <2> QED
      BY <1>5, <1>8, <2>1, <2>2
  <1>10. place \in 0 .. m /\ \A i \in 1 .. m : (i <= place <=> b[i] <= s) /\ (rel[i].seq = e.seq <=> b[i] = s)
    BY <1>6, <1>9 DEF PlacedAt
  <1>11. Listed(p, e) = rel
    BY <1>1, <1>2, <1>5 DEF Listed
  <1>12. QueueEntry(p, e) = QueueAt(p, e, rel, place)
    <2>1. e.kind # "unsequenced"
      BY <1>5 DEF IsReliable
    <2> QED
      BY <1>1, <1>5, <1>8, <1>11, <2>1 DEF QueueEntry, QueueIn
  <1>13. InWindow(ch, e.seq) /\ e.seq # ch.rseq
    <2>1. PICK x \in Nat : x = s + 1
      BY <1>4
    <2>2. R < x /\ x < R + Numbers
      BY <1>4, <2>1, QueueRange
    <2>3. Ahead(ch, R, x)
      BY <1>4, <2>2, AheadIs
    <2>4. InWindow(ch, x % Numbers)
      BY <2>1, <2>3 DEF Ahead
    <2>5. x % Numbers # R % Numbers
      <3>1. SUFFICES ASSUME x % Numbers = R % Numbers
                     PROVE  FALSE
        OBVIOUS
      <3>2. x < R + Numbers /\ R < x + Numbers
        BY <1>4, <2>2, Sizes
      <3>3. x = R
        BY <1>4, <3>1, <3>2, SameNumber
      <3> QED
        BY <1>4, <2>2, <3>3
    <2> QED
      BY <1>4, <1>5, <2>1, <2>4, <2>5
  <1>14. PICK q : q = QueueEntry(p, e)
    OBVIOUS
  <1>15. CASE Discards(ch, e, rel, place)
    <2>1. place > 0 /\ rel[place].seq = e.seq
      BY <1>5, <1>13, <1>15 DEF Discards
    <2>2. place \in 1 .. m
      BY <1>10, <2>1
    <2>3. q = [peer |-> p, result |-> IF Fragmented(e) THEN "error" ELSE "dummy"]
      BY <1>1, <1>5, <1>12, <1>14, <1>15 DEF QueueAt
    <2>4. q.peer = p /\ q.result = (IF Fragmented(e) THEN "error" ELSE "dummy")
      BY <2>3
    <2>5. Already(p, q, e, c)
      BY <1>1, <1>2, <1>6, <2>1, <2>2, <2>4 DEF Already
    <2> QED
      BY <1>14, <2>5 DEF QueueOutcome
  <1>16. CASE ~Discards(ch, e, rel, place) /\ p.waiting >= MaximumWaiting
    <2>1. q = [peer |-> p, result |-> "error"]
      BY <1>1, <1>5, <1>12, <1>14, <1>16 DEF QueueAt
    <2>2. NoRoom(p, q)
      BY <2>1 DEF NoRoom
    <2> QED
      BY <1>14, <2>2 DEF QueueOutcome
  <1>17. CASE ~Discards(ch, e, rel, place) /\ ~(p.waiting >= MaximumWaiting)
    <2>1. q = [peer |-> Inserted(Counted(p, e), e, place), result |-> "queued"]
      BY <1>1, <1>5, <1>12, <1>14, <1>17 DEF QueueAt
    <2>2. PICK more : more = InsertAt(rel, place + 1, e)
      OBVIOUS
    <2>3. ASSUME NEW i \in 1 .. Len(b)
          PROVE  (i <= place => b[i] < s) /\ (i > place => s < b[i])
      <3>1. i \in 1 .. m /\ b[i] \in Nat /\ place \in Nat
        BY <1>7, <1>10
      <3>2. b[i] # s
        <4>1. SUFFICES ASSUME b[i] = s
                       PROVE  FALSE
          OBVIOUS
        <4>2. i <= place /\ rel[i].seq = e.seq
          BY <1>4, <1>10, <3>1, <4>1
        <4>3. place \in 1 .. m
          BY <1>10, <3>1, <4>2
        <4>4. b[place] <= s /\ b[place] \in Nat
          BY <1>7, <1>10, <3>1, <4>3
        <4>5. i = place \/ b[i] < b[place]
          BY <1>3, <1>7, <3>1, <4>2, <4>3 DEF Queue
        <4>6. i = place
          BY <1>4, <4>1, <4>4, <4>5
        <4>7. Discards(ch, e, rel, place)
          BY <1>5, <4>2, <4>3, <4>6 DEF Discards
        <4> QED
          BY <1>17, <4>7
      <3> QED
        BY <1>4, <1>10, <3>1, <3>2
    <2>4. Queue(more, InsertAt(b, place + 1, s), L, c, R, u)
      BY <1>3, <1>4, <1>5, <1>6, <1>10, <2>2, <2>3, QueueInsert
    <2>5. more \in Seq(Entries) /\ InsertedIs(more, rel, place, e)
      BY <1>5, <1>6, <1>7, <1>10, <2>2, InsertAtIs
    <2>6. KeepsMore(rel, R, more, R, L)
      BY <1>5, <1>6, <1>7, <1>10, <2>2, InsertKeeps
    <2>7. PICK w : w = p.waiting + DataLength(e)
      OBVIOUS
    <2>8. w \in Int /\ p.chan \in [Channels -> ChannelRecords]
      BY <1>4, <1>5, <2>7, PeerFields
    <2>9. PICK t : t = Relisted(p, c, more, w)
      OBVIOUS
    <2>10. SameElse(p, t, c, more)
      BY <1>4, <2>5, <2>8, <2>9, RelistedIs
    <2>11. Inserted(Counted(p, e), e, place) = DispatchReliable(t, c)
      <3>1. PICK a : a = Counted(p, e)
        OBVIOUS
      <3>2. a = [p EXCEPT !.waiting = w]
        BY <2>7, <3>1 DEF Counted
      <3>3. a.chan = p.chan
        BY <3>2 DEF Peers
      <3>4. Inserted(a, e, place) = DispatchReliable([a EXCEPT !.chan[c].rel = InsertAt(@, place + 1, e)], c)
        BY <1>5 DEF Inserted
      <3>5. [a EXCEPT !.chan[c].rel = InsertAt(@, place + 1, e)] = [a EXCEPT !.chan[c].rel = more]
        BY <1>1, <1>2, <1>4, <2>2, <2>8, <3>2, <3>3 DEF Peers
      <3>6. [a EXCEPT !.chan[c].rel = more] = t
        BY <1>4, <2>8, <2>9, <3>2 DEF Relisted, Peers
      <3> QED
        BY <3>1, <3>4, <3>5, <3>6
    <2>12. Changed(p, t, c, L, R)
      BY <1>1, <1>2, <2>6, <2>10 DEF Changed, SameElse
    <2>13. Good(t.chan[c], L, c, R, u) /\ t.chan[c].rseq = p.chan[c].rseq
      BY <1>1, <1>4, <2>4, <2>10 DEF Good, SameElse
    <2>14. \E i \in 1 .. Len(t.chan[c].rel) :
             /\ t.chan[c].rel[i] = e
             /\ i # 1 => Len(p.chan[c].rel) # 0 /\ t.chan[c].rel[1] = p.chan[c].rel[1]
      <3>1. PICK i : i = place + 1
        OBVIOUS
      <3>2. i \in 1 .. m + 1 /\ Len(more) = m + 1
        BY <1>6, <1>10, <2>5, <3>1 DEF InsertedIs
      <3>3. more[i] = e
        BY <2>5, <3>1, <3>2 DEF InsertedIs
      <3>4. ASSUME i # 1
            PROVE  m # 0 /\ more[1] = rel[1]
        <4>1. 1 <= place /\ 1 \in 1 .. m + 1 /\ m # 0
          BY <1>10, <3>1, <3>4
        <4> QED
          BY <2>5, <3>2, <4>1 DEF InsertedIs
      <3>5. t.chan[c].rel = more
        BY <2>10 DEF SameElse
      <3> QED
        BY <1>1, <1>2, <1>6, <3>2, <3>3, <3>4, <3>5
    <2>15. TakesPlace(p, t, e, c, L, R, u)
      BY <2>12, <2>13, <2>14 DEF TakesPlace
    <2>16. q.result = "queued" /\ q.peer = DispatchReliable(t, c)
      BY <2>1, <2>11
    <2> QED
      BY <1>14, <2>15, <2>16 DEF QueueOutcome
  <1> QED
    BY <1>15, <1>16, <1>17

--------------------------------------------------------------------------------
(* The handlers. *)

\* A command of the packets received that is not too old is in no window.
LEMMA OldCommand ==
  ASSUME NEW L \in Seq(Logged), NEW c, NEW life \in Nat, NEW R \in Nat, NEW s, NEW size,
         IsPacket(L, c, s, size), Fitting(size, life),
         NEW n \in s + 1 .. s + size, TrueWindow(n) + life >= TrueWindow(R), s + 1 < R,
         NEW ch, ch.rseq = R % Numbers
  PROVE  ~InWindow(ch, (s + 1) % Numbers)
  <1>1. s \in Nat /\ size \in Nat \ {0} /\ n \in Nat
    BY DEF IsPacket
  <1>2. PICK x \in Nat : x = s + 1
    BY <1>1
  <1>3. PICK v \in Nat : v = TrueWindow(x)
    BY WireWindow
  <1>4. PICK w \in Nat : w = TrueWindow(n)
    BY <1>1, WireWindow
  <1>5. PICK z \in Nat : z = TrueWindow(R)
    BY WireWindow
  <1>6. n - x >= w * WindowSize - v * WindowSize - WindowSize + 1
    BY <1>1, <1>3, <1>4, WindowsGrow
  <1>7. n - x <= size - 1
    BY <1>1, <1>2
  <1>8. PICK a \in Nat : a = WindowSize
    BY Sizes
  <1>9. life * a + size - 1 <= (FreeWindows + 1) * a
    BY <1>8 DEF Fitting
  <1>10. z <= w + life
    BY <1>4, <1>5
  <1>11. a > 0 /\ FreeWindows \in Nat
    BY <1>8, Sizes
  <1>12. z <= v + FreeWindows + 1
    <2>1. SUFFICES ASSUME z >= v + FreeWindows + 2
                   PROVE  FALSE
      BY <1>11
    <2>2. w * a - v * a - a + 1 <= size - 1
      BY <1>1, <1>2, <1>6, <1>7, <1>8
    <2>3. PICK d \in Int : d = (w + life) - (v + FreeWindows + 2)
      BY <1>11
    <2>4. d >= 0
      BY <1>10, <1>11, <2>1, <2>3
    <2>5. PICK da \in Nat : da = d * a
      BY <1>8, <2>3, <2>4
    <2>6. PICK wa \in Nat : wa = w * a
      BY <1>8
    <2>7. PICK va \in Nat : va = v * a
      BY <1>8
    <2>8. PICK la \in Nat : la = life * a
      BY <1>8
    <2>9. PICK fa \in Nat : fa = FreeWindows * a
      BY <1>8, <1>11
    <2>10. da = wa + la - va - fa - a - a
      BY <1>8, <1>11, <2>3, <2>5, <2>6, <2>7, <2>8, <2>9
    <2>11. la + size - 1 <= fa + a
      BY <1>8, <1>9, <1>11, <2>8, <2>9
    <2>12. wa - va - a + 1 <= size - 1
      BY <2>2, <2>6, <2>7
    <2> QED
      BY <1>1, <1>8, <2>5, <2>10, <2>11, <2>12
  <1>13. ~InWindow(ch, x % Numbers)
    BY <1>2, <1>3, <1>5, <1>11, <1>12, BehindIs
  <1> QED
    BY <1>2, <1>13

\* A command that was sent is at most one window ahead of those taken in.
SentAhead(R, u, x) ==
  /\ R < x /\ x < R + Numbers /\ TrueWindow(x) \in Nat /\ TrueWindow(R) \in Nat
  /\ TrueWindow(x) <= TrueWindow(R) + FreeWindows - 1

LEMMA SentAheadIs ==
  ASSUME NEW L, NEW c, NEW life, NEW R, NEW u, Context(L, c, life, R, u),
         NEW x \in Nat, R < x, x <= u
  PROVE  SentAhead(R, u, x)
  <1>1. R \in Nat /\ u \in Nat /\ TrueWindow(u) < TrueWindow(R) + FreeWindows
    BY DEF Context
  <1>2. PICK v \in Nat : v = TrueWindow(x)
    BY WireWindow
  <1>3. PICK z \in Nat : z = TrueWindow(R)
    BY <1>1, WireWindow
  <1>4. PICK w \in Nat : w = TrueWindow(u)
    BY <1>1, WireWindow
  <1>5. v <= w
    BY <1>1, <1>2, <1>4, WindowsGrow
  <1>6. v <= z + FreeWindows - 1
    BY <1>1, <1>3, <1>4, <1>5, Sizes
  <1>7. R + Numbers <= x => z + Windows <= v
    BY <1>1, <1>2, <1>3, WindowsGrow
  <1> QED
    BY <1>1, <1>2, <1>3, <1>6, <1>7, Sizes DEF SentAhead

\* A packet of one command arrives.
LEMMA WholeOutcome ==
  ASSUME NEW L, NEW c, NEW life, NEW R, NEW u, Context(L, c, life, R, u),
         NEW p \in Peers, Good(p.chan[c], L, c, R, u), Idle(p.chan[c]),
         NEW n \in 1 .. u, TrueWindow(n) + life >= TrueWindow(R),
         NEW s, IsPacket(L, c, s, 1), Fitting(1, life), n = s + 1
  PROVE  Outcome(p, HandleWhole(p, L[n]), c, L, R, u, n)
  <1>1. /\ c \in Channels /\ u \in Nat /\ R \in Nat /\ L \in Seq(Logged) /\ Tiled(L, c, life)
        /\ s \in Nat /\ n \in Nat /\ n <= u /\ life \in Nat
    BY DEF Context, IsPacket
  <1>2. PICK ch : ch = p.chan[c]
    OBVIOUS
  <1>3. ch.rseq = R % Numbers
    BY <1>2 DEF Good
  <1>4. L[n] = Command(c, s, 1, 1)
    BY <1>1 DEF IsPacket
  <1>5. PICK e : e = FreshEntry(c, s, 1)
    OBVIOUS
  <1>6. PICK seq : seq = n % Numbers
    OBVIOUS
  <1>7. e = EntryOf(c, s, 1, {<<0, n>>})
    BY <1>5 DEF FreshEntry
  <1>8. e = [kind |-> "reliable", ch |-> c, seq |-> seq, useq |-> 0, count |-> 0, data |-> {<<0, n>>}]
    BY <1>6, <1>7 DEF EntryOf
  <1>9. L[n] = [kind |-> "reliable", ch |-> c, pkt |-> n, frag |-> 0, count |-> 0, seq |-> seq, useq |-> 0]
    BY <1>4, <1>6 DEF Command
  <1>10. Incoming(L[n], seq) = e
    BY <1>8, <1>9 DEF Incoming, Fragmented
  <1>11. PICK q : q = QueueEntry(p, e)
    OBVIOUS
  <1>12. PICK r : r = HandleWhole(p, L[n])
    OBVIOUS
  <1>13. r.peer = q.peer /\ (r.ok <=> q.result # "error")
    <2>1. r = Done(q.peer, q.result # "error")
      BY <1>9, <1>10, <1>11, <1>12 DEF HandleWhole, Whole, QueueIncoming
    <2> QED
      BY <2>1 DEF Done
  <1>14. e.kind = "reliable" /\ e.ch = c /\ e.seq = seq /\ e.count = 0 /\ IsReliable(e) /\ ~Fragmented(e)
    BY <1>8 DEF IsReliable, Fragmented
  <1>15. QueueEntry(p, e) = QueueAt(p, e, ch.rel, Place(ch, ch.rel, seq, e.useq))
    BY <1>2, <1>14 DEF QueueEntry, QueueIn, Listed
  <1>16. CASE ~InWindow(ch, seq) \/ seq = ch.rseq
    <2>1. q = [peer |-> p, result |-> "dummy"]
      BY <1>2, <1>11, <1>14, <1>15, <1>16 DEF QueueAt, Discards
    <2>2. r.peer = p
      BY <1>13, <2>1
    <2>3. ASSUME ~NotAcknowledged(ch, n % Numbers)
          PROVE  Arrived(ch.rel, L, R, n)
      <3>1. SUFFICES ASSUME R < n
                     PROVE  FALSE
        BY <1>1 DEF Arrived
      <3>2. SentAhead(R, u, n)
        BY <1>1, <3>1, SentAheadIs
      <3>3. Ahead(ch, R, n)
        BY <1>1, <1>3, <3>2, AheadIs DEF SentAhead
      <3>4. seq # ch.rseq
        <4>1. SUFFICES ASSUME n % Numbers = R % Numbers
                       PROVE  FALSE
          BY <1>3, <1>6
        <4>2. n < R + Numbers /\ R < n + Numbers
          BY <1>1, <3>1, <3>2, Sizes DEF SentAhead
        <4>3. n = R
          BY <1>1, <4>1, <4>2, SameNumber
        <4> QED
          BY <1>1, <3>1, <4>3
      <3>5. ~(TrueWindow(n) <= TrueWindow(R) + FreeWindows - 2)
        BY <1>6, <1>16, <3>3, <3>4 DEF Ahead
      <3>6. TrueWindow(n) \in TrueWindow(R) + FreeWindows - 1 .. TrueWindow(R) + FreeWindows
        BY <3>2, <3>5, Sizes DEF SentAhead
      <3>7. NotAcknowledged(ch, n % Numbers)
        BY <3>3, <3>6 DEF Ahead
      <3> QED
        BY <2>3, <3>7
    <2>4. Outcome(p, r, c, L, R, u, n)
      BY <1>2, <2>2, <2>3, OutcomeStill
    <2> QED
      BY <1>12, <2>4
  <1>17. CASE InWindow(ch, seq) /\ seq # ch.rseq
    <2>1. R < n
      <3>1. SUFFICES ASSUME n < R
                     PROVE  FALSE
        BY <1>1, <1>3, <1>6, <1>17
      <3>2. n \in s + 1 .. s + 1 /\ s + 1 < R
        BY <1>1, <3>1
      <3>3. ~InWindow(ch, (s + 1) % Numbers)
        BY <1>1, <1>3, <3>2, OldCommand
      <3> QED
        BY <1>6, <1>17, <3>3
    <2>2. SentAhead(R, u, n)
      BY <1>1, <2>1, SentAheadIs
    <2>3. Ahead(ch, R, n)
      BY <1>1, <1>3, <2>1, <2>2, AheadIs DEF SentAhead
    <2>4. TrueWindow(n) <= TrueWindow(R) + FreeWindows - 2
      BY <1>6, <1>17, <2>3 DEF Ahead
    <2>5. R <= s /\ s + 1 <= u /\ TrueWindow(s + 1) <= TrueWindow(R) + FreeWindows - 2
      BY <1>1, <2>1, <2>4
    <2>6. QueueOutcome(p, q, e, c, L, R, u)
      BY <1>5, <1>11, <2>5, QueueEntryIs
    <2>7. CASE Already(p, q, e, c)
      <3>1. PICK i \in 1 .. Len(ch.rel) : ch.rel[i].seq = seq
        BY <1>2, <1>14, <2>7 DEF Already
      <3>2. PICK b : Queue(ch.rel, b, L, c, R, u)
        BY <1>2 DEF Good
      <3>3. (s + 1) % Numbers = seq
        BY <1>6
      <3>4. PlacedAt(Place(ch, ch.rel, seq, 0), ch.rel, b, seq, s)
        BY <1>1, <1>3, <2>5, <3>2, <3>3, PlaceIs
      <3>5. b[i] = s
        BY <3>1, <3>4 DEF PlacedAt
      <3>6. InQueue(ch.rel[i], L, c, R, u, s)
        BY <3>1, <3>2, <3>5 DEF Queue
      <3>7. PICK size : Slot(ch.rel[i], L, c, s, size, u)
        BY <3>6 DEF InQueue
      <3>8. size = 1
        <4>1. IsPacket(L, c, s, size)
          BY <3>7 DEF Slot
        <4>2. n \in s + 1 .. s + 1 /\ n \in s + 1 .. s + size
          BY <1>1, <4>1 DEF IsPacket
        <4> QED
          BY <1>1, <4>1, <4>2, SamePacket
      <3>9. <<0, n>> \in ch.rel[i].data
        BY <3>7, <3>8 DEF Slot
      <3>10. L[n].frag = 0 /\ L[n].pkt = n
        BY <1>9
      <3>11. Arrived(ch.rel, L, R, n)
        BY <3>1, <3>9, <3>10 DEF Arrived, StoredIn
      <3>12. r.peer = p
        BY <1>13, <2>7 DEF Already
      <3>13. Outcome(p, r, c, L, R, u, n)
        BY <1>2, <3>11, <3>12, OutcomeStill
      <3> QED
        BY <1>12, <3>13
    <2>8. CASE NoRoom(p, q)
      <3>1. r.peer = p /\ ~r.ok
        BY <1>13, <2>8 DEF NoRoom
      <3>2. Outcome(p, r, c, L, R, u, n)
        BY <3>1, OutcomeStill
      <3> QED
        BY <1>12, <3>2
    <2>9. CASE \E t : TakesPlace(p, t, e, c, L, R, u) /\ q.peer = DispatchReliable(t, c)
      <3>1. PICK t : TakesPlace(p, t, e, c, L, R, u) /\ q.peer = DispatchReliable(t, c)
        BY <2>9
      <3>2. Changed(p, t, c, L, R) /\ Good(t.chan[c], L, c, R, u) /\ t \in Peers
        BY <3>1 DEF TakesPlace, Changed
      <3>3. PICK S : Advance(t, r.peer, c, L, R, S, u)
        <4>1. \E S : Advance(t, DispatchReliable(t, c), c, L, R, S, u)
          BY <3>2, DispatchAdvances
        <4> QED
          BY <1>13, <3>1, <4>1
      <3>4. Arrived(t.chan[c].rel, L, R, n)
        <4>1. PICK i \in 1 .. Len(t.chan[c].rel) : t.chan[c].rel[i] = e
          BY <3>1 DEF TakesPlace
        <4>2. <<L[n].frag, L[n].pkt>> \in e.data
          BY <1>8, <1>9
        <4> QED
          BY <4>1, <4>2 DEF Arrived, StoredIn
      <3>5. Outcome(p, r, c, L, R, u, n)
        BY <3>2, <3>3, <3>4, OutcomeFrom
      <3> QED
        BY <1>12, <3>5
    <2> QED
      BY <2>6, <2>7, <2>8, <2>9 DEF QueueOutcome
  <1> QED
    BY <1>16, <1>17

\* A fragment arrives.
LEMMA PieceOutcome ==
  ASSUME NEW L, NEW c, NEW life, NEW R, NEW u, Context(L, c, life, R, u),
         NEW p \in Peers, Good(p.chan[c], L, c, R, u), Idle(p.chan[c]),
         NEW n \in 1 .. u, TrueWindow(n) + life >= TrueWindow(R),
         NEW s, NEW size, IsPacket(L, c, s, size), Fitting(size, life), size # 1,
         n \in s + 1 .. s + size
  PROVE  Outcome(p, HandleFragment(p, L[n]), c, L, R, u, n)
  <1>1. /\ c \in Channels /\ u \in Nat /\ R \in Nat /\ L \in Seq(Logged) /\ Tiled(L, c, life)
        /\ s \in Nat /\ n \in Nat /\ n <= u /\ life \in Nat /\ size \in Nat \ {0} /\ size > 1
        /\ Boundary(L, R)
    BY DEF Context, IsPacket
  <1>2. PICK ch : ch = p.chan[c]
    OBVIOUS
  <1>3. ch.rseq = R % Numbers
    BY <1>2 DEF Good
  <1>4. PICK k \in 1 .. size : k = n - s /\ L[n] = Command(c, s, size, k)
    BY <1>1, InPacket, SMTT(30)
  <1>5. PICK e : e = FreshEntry(c, s, size)
    OBVIOUS
  <1>6. PICK useq : useq = (s + 1) % Numbers
    OBVIOUS
  <1>7. e = EntryOf(c, s, size, {})
    BY <1>5 DEF FreshEntry
  <1>8. e = [kind |-> "fragment", ch |-> c, seq |-> useq, useq |-> 0, count |-> size, data |-> {}]
    BY <1>1, <1>6, <1>7 DEF EntryOf
  <1>9. PICK seq : seq = (s + k) % Numbers
    OBVIOUS
  <1>10. L[n] = [kind |-> "fragment", ch |-> c, pkt |-> s + size, frag |-> k - 1, count |-> size,
                 seq |-> seq, useq |-> useq]
    BY <1>1, <1>4, <1>6, <1>9 DEF Command
  <1>11. Incoming(L[n], useq) = e
    <2>1. /\ L[n].kind = "fragment" /\ L[n].ch = c /\ L[n].count = size
          /\ L[n].kind \notin {"unreliable", "unreliableFragment"}
      BY <1>10
    <2>2. Fragmented(L[n])
      BY <1>1, <2>1 DEF Fragmented
    <2>3. Incoming(L[n], useq)
            = [kind |-> "fragment", ch |-> c, seq |-> useq, useq |-> 0, count |-> size, data |-> {}]
      BY <2>1, <2>2 DEF Incoming
    <2> QED
      BY <1>8, <2>3
  <1>12. PICK f : f = <<n - s - 1, s + size>>
    OBVIOUS
  <1>13. f = <<L[n].frag, L[n].pkt>>
    BY <1>1, <1>4, <1>10, <1>12
  <1>14. PICK r : r = HandleFragment(p, L[n])
    OBVIOUS
  <1>15. L[n].ch = c /\ L[n].useq = useq
    BY <1>10
  <1>16. CASE ~InWindow(ch, useq)
    <2>1. r.peer = p
      BY <1>2, <1>14, <1>15, <1>16 DEF HandleFragment, Done
    <2>2. ASSUME ~NotAcknowledged(ch, n % Numbers)
          PROVE  Arrived(ch.rel, L, R, n)
      <3>1. SUFFICES ASSUME R < n
                     PROVE  FALSE
        BY <1>1 DEF Arrived
      <3>2. R <= s
        <4>1. s + size <= R \/ R <= s
          BY <1>1, OutsidePackets
        <4> QED
          BY <1>1, <3>1, <4>1
      <3>3. PICK x \in Nat : x = s + 1
        BY <1>1
      <3>4. SentAhead(R, u, n) /\ SentAhead(R, u, x)
        BY <1>1, <3>1, <3>2, <3>3, SentAheadIs
      <3>5. Ahead(ch, R, n) /\ Ahead(ch, R, x)
        BY <1>1, <1>3, <3>3, <3>4, AheadIs DEF SentAhead
      <3>6. ~(TrueWindow(x) <= TrueWindow(R) + FreeWindows - 2)
        BY <1>6, <1>16, <3>3, <3>5 DEF Ahead
      <3>7. TrueWindow(x) <= TrueWindow(n)
        BY <1>1, <3>3, WindowsGrow
      <3>8. TrueWindow(n) \in TrueWindow(R) + FreeWindows - 1 .. TrueWindow(R) + FreeWindows
        BY <3>4, <3>6, <3>7, Sizes DEF SentAhead
      <3>9. NotAcknowledged(ch, n % Numbers)
        BY <3>5, <3>8 DEF Ahead
      <3> QED
        BY <2>2, <3>9
    <2>3. Outcome(p, r, c, L, R, u, n)
      BY <1>2, <2>1, <2>2, OutcomeStill
    <2> QED
      BY <1>14, <2>3
  <1>17. CASE InWindow(ch, useq)
    <2>1. r = StoreIn(p, e, f)
      BY <1>2, <1>11, <1>13, <1>14, <1>15, <1>17 DEF HandleFragment, StoreFragment
    <2>2. R <= s
      <3>1. SUFFICES ASSUME s + size <= R
                     PROVE  FALSE
        BY <1>1, OutsidePackets
      <3>2. s + 1 < R
        BY <1>1, <3>1
      <3>3. ~InWindow(ch, (s + 1) % Numbers)
        BY <1>1, <1>3, <3>2, OldCommand
      <3> QED
        BY <1>6, <1>17, <3>3
    <2>3. PICK x \in Nat : x = s + 1
      BY <1>1
    <2>4. SentAhead(R, u, x)
      BY <1>1, <2>2, <2>3, SentAheadIs
    <2>5. Ahead(ch, R, x)
      BY <1>1, <1>3, <2>3, <2>4, AheadIs DEF SentAhead
    <2>6. TrueWindow(s + 1) <= TrueWindow(R) + FreeWindows - 2
      BY <1>6, <1>17, <2>3, <2>5 DEF Ahead
    <2>7. s + 1 <= u
      BY <1>1
    <2>8. Changed(p, p, c, L, R)
      BY DEF Changed, KeepsMore
    <2>9. CASE Start(p, e) # {}
      <3>1. PICK i : i = CHOOSE j \in Start(p, e) : TRUE
        OBVIOUS
      <3>2. i \in Start(p, e)
        BY <2>9, <3>1
      <3>3. CASE Listed(p, e)[i].kind # e.kind \/ Listed(p, e)[i].count # e.count
        <4>1. r = Done(p, FALSE)
          BY <2>1, <2>9, <3>1, <3>3 DEF StoreIn, StoreFound
        <4>2. r.peer = p /\ ~r.ok
          BY <4>1 DEF Done
        <4>3. Outcome(p, r, c, L, R, u, n)
          BY <4>2, OutcomeStill
        <4> QED
          BY <1>14, <4>3
      <3>4. CASE ~(Listed(p, e)[i].kind # e.kind \/ Listed(p, e)[i].count # e.count)
        <4>1. r = StoreAt(p, e, i, f)
          BY <2>1, <2>9, <3>1, <3>4 DEF StoreIn, StoreFound
        <4>2. Outcome(p, StoreAt(p, e, i, f), c, L, R, u, n)
          BY <1>7, <1>12, <2>2, <2>6, <2>8, <3>2, StoreHolds
        <4> QED
          BY <1>14, <4>1, <4>2
      <3> QED
        BY <3>3, <3>4
    <2>10. CASE Start(p, e) = {}
      <3>1. PICK q : q = QueueEntry(p, e)
        OBVIOUS
      <3>2. QueueOutcome(p, q, e, c, L, R, u)
        BY <1>5, <2>2, <2>6, <2>7, <3>1, QueueEntryIs
      <3>3. r = StoreQueued(p, e, q, f)
        BY <2>1, <2>10, <3>1 DEF StoreIn
      <3>4. CASE q.result # "queued"
        <4>1. r.peer = p /\ ~r.ok
          BY <3>3, <3>4 DEF StoreQueued, Done
        <4>2. Outcome(p, r, c, L, R, u, n)
          BY <4>1, OutcomeStill
        <4> QED
          BY <1>14, <4>2
      <3>5. CASE q.result = "queued"
        <4>1. ~Already(p, q, e, c) /\ ~NoRoom(p, q)
          BY <3>5 DEF Already, NoRoom
        <4>2. PICK t : TakesPlace(p, t, e, c, L, R, u) /\ q.peer = DispatchReliable(t, c)
          BY <3>2, <4>1 DEF QueueOutcome
        <4>3. /\ Changed(p, t, c, L, R) /\ Good(t.chan[c], L, c, R, u) /\ t \in Peers
              /\ t.chan[c].rseq = ch.rseq
          BY <1>2, <4>2 DEF TakesPlace, Changed
        <4>4. PICK i \in 1 .. Len(t.chan[c].rel) :
                /\ t.chan[c].rel[i] = e
                /\ i # 1 => Len(ch.rel) # 0 /\ t.chan[c].rel[1] = ch.rel[1]
          BY <1>2, <4>2 DEF TakesPlace
        <4>5. FreshFacts(e, L, c, R, u, s, size)
          BY <1>1, <1>5, <2>2, <2>6, <2>7, FreshIs
        <4>6. Idle(t.chan[c])
          <5>1. CASE i = 1
            <6>1. ~Follows(t.chan[c], 1)
              BY <4>4, <4>5, <5>1 DEF FreshFacts, Follows
            <6> QED
              BY <6>1 DEF Idle
          <5>2. CASE i # 1
            <6>1. ~Follows(ch, 1)
              BY <1>2, <4>4, <5>2 DEF Idle
            <6>2. ~Follows(t.chan[c], 1)
              BY <4>3, <4>4, <5>2, <6>1 DEF Follows, Prev
            <6> QED
              BY <6>2 DEF Idle
          <5> QED
            BY <5>1, <5>2
        <4>7. q.peer = t
          BY <1>1, <4>2, <4>3, <4>6, IdleDispatch
        <4>8. Start(t, e) # {}
          <5>1. IsReliable(e) /\ e.ch = c
            BY <4>5 DEF FreshFacts
          <5>2. Listed(t, e) = t.chan[c].rel
            BY <5>1 DEF Listed
          <5>3. t.chan[c].rel \in Seq(Entries)
            BY <1>1, <4>3, PeerFields
          <5>4. i \in Start(t, e)
            BY <4>4, <5>2, <5>3 DEF Start
          <5> QED
            BY <5>4
        <4>9. PICK j : j = CHOOSE h \in Start(t, e) : TRUE
          OBVIOUS
        <4>10. j \in Start(t, e)
          BY <4>8, <4>9
        <4>11. r = StoreAt(t, e, j, f)
          BY <3>3, <3>5, <4>7, <4>8, <4>9 DEF StoreQueued
        <4>12. Outcome(p, StoreAt(t, e, j, f), c, L, R, u, n)
          BY <1>7, <1>12, <2>2, <2>6, <4>3, <4>6, <4>10, StoreHolds
        <4> QED
          BY <1>14, <4>11, <4>12
      <3> QED
        BY <3>4, <3>5
    <2> QED
      BY <2>9, <2>10
  <1> QED
    BY <1>16, <1>17

\* enet_protocol_handle_send_reliable() and enet_protocol_handle_send_fragment()
\* for a command that is not too old.
LEMMA HandleOutcome ==
  ASSUME NEW L, NEW c, NEW life, NEW R, NEW u, Context(L, c, life, R, u),
         NEW p \in Peers, Good(p.chan[c], L, c, R, u), Idle(p.chan[c]),
         NEW n \in 1 .. u, TrueWindow(n) + life >= TrueWindow(R)
  PROVE  Outcome(p, Handle(p, L[n]), c, L, R, u, n)
  <1>1. L \in Seq(Logged) /\ Tiled(L, c, life) /\ n \in 1 .. Len(L)
    BY DEF Context
  <1>2. PICK s \in Nat, size \in Nat \ {0} :
          IsPacket(L, c, s, size) /\ n \in s + 1 .. s + size /\ Fitting(size, life)
    BY <1>1 DEF Tiled
  <1>3. L[n] = Command(c, s, size, n - s)
    BY <1>1, <1>2, InPacket
  <1>4. CASE size = 1
    <2>1. n = s + 1
      BY <1>2, <1>4
    <2>2. L[n].kind = "reliable"
      BY <1>3, <1>4 DEF Command
    <2>3. Handle(p, L[n]) = HandleWhole(p, L[n])
      BY <2>2 DEF Handle
    <2> QED
      BY <1>2, <1>4, <2>1, <2>3, WholeOutcome
  <1>5. CASE size # 1
    <2>1. L[n].kind = "fragment"
      BY <1>2, <1>3, <1>5 DEF Command
    <2>2. Handle(p, L[n]) = HandleFragment(p, L[n])
      BY <2>1 DEF Handle
    <2> QED
      BY <1>2, <1>5, <2>2, PieceOutcome
  <1> QED
    BY <1>4, <1>5

--------------------------------------------------------------------------------
(* The sender never runs away from the receiver. *)

\* A window is full when its numbers are all unacknowledged.
LEMMA FullWindow ==
  ASSUME NEW u \in Nat, NEW P \in SUBSET (1 .. u), NEW win, NEW use, Fits(win, use, P, u),
         NEW q \in Nat, \A n \in 1 .. u : TrueWindow(n) = q => n \in P,
         NEW w, w = q % Windows, q > 0, u = q * WindowSize + WindowSize - 1
  PROVE  win[w] >= WindowSize
  <1>1. PICK ws \in Nat \ {0} : ws = WindowSize
    BY Sizes
  <1>2. w \in WindowIds
    <2>1. q % Windows \in 0 .. Windows - 1
      BY Sizes, Quotient
    <2> QED
      BY <2>1 DEF WindowIds
  <1>3. PICK base \in Nat : base = q * ws
    BY <1>1
  <1>4. base >= ws
    BY <1>3
  <1>5. u = base + ws - 1
    BY <1>1, <1>3
  <1>6. ASSUME NEW n \in base .. u
        PROVE  n \in Placed(P, w)
    <2>1. PICK r \in 0 .. ws - 1 : n = base + r
      <3>1. n - base \in 0 .. ws - 1 /\ n = base + (n - base)
        BY <1>5
      <3> QED
        BY <3>1
    <2>2. (q * ws + r) \div ws = q
      BY QuotientIs
    <2>3. TrueWindow(n) = q
      BY <1>1, <1>3, <2>1, <2>2 DEF TrueWindow
    <2>4. n \in 1 .. u
      BY <1>4
    <2>5. n \in P
      BY <2>3, <2>4
    <2> QED
      BY <2>3, <2>5 DEF Placed
  <1>7. IsFiniteSet(Placed(P, w)) /\ Cardinality(Placed(P, w)) \in Nat
    BY PlacedFinite
  <1>8. Cardinality(base .. u) = ws
    <2>1. PICK a \in Int : a = base
      OBVIOUS
    <2>2. PICK b \in Int : b = u
      OBVIOUS
    <2>3. Cardinality(a .. b) = IF a > b THEN 0 ELSE b - a + 1
      BY FS_Interval
    <2> QED
      BY <1>5, <2>1, <2>2, <2>3
  <1>9. Cardinality(base .. u) <= Cardinality(Placed(P, w))
    <2>1. base .. u \subseteq Placed(P, w)
      BY <1>6
    <2> QED
      BY <1>7, <2>1, FS_Subset
  <1>10. win[w] = Cardinality(Placed(P, w))
    BY <1>2 DEF Fits
  <1> QED
    BY <1>1, <1>8, <1>9, <1>10

\* The place of the window before one.
LEMMA PlaceBefore ==
  ASSUME NEW q \in Nat
  PROVE  (((q + 1) % Windows) + Windows - 1) % Windows = q % Windows
  <1>1. PICK d \in Nat \ {0} : d = Windows
    BY Sizes
  <1>2. PICK b \in Nat : b = (q + 1) \div d
    BY Quotient
  <1>3. PICK r \in 0 .. d - 1 : r = (q + 1) % d
    BY Quotient
  <1>4. q + 1 = b * d + r
    BY <1>2, <1>3, Quotient
  <1>5. CASE r = 0
    <2>1. b # 0
      BY <1>4, <1>5
    <2>2. PICK a \in Nat : a = b - 1
      BY <2>1
    <2>3. b * d = a * d + d
      <3>1. (a + 1) * d = a * d + d
        OBVIOUS
      <3> QED
        BY <2>2, <3>1
    <2>4. PICK x \in 0 .. d - 1 : x = d - 1
      OBVIOUS
    <2>5. q = a * d + x
      BY <1>4, <1>5, <2>3, <2>4
    <2>6. (a * d + x) % d = x
      BY QuotientIs
    <2>7. x % d = x
      <3>1. (0 * d + x) % d = x
        BY QuotientIs
      <3>2. 0 * d + x = x
        OBVIOUS
      <3> QED
        BY <3>1, <3>2
    <2>8. r + d - 1 = x
      BY <1>5, <2>4
    <2> QED
      BY <1>1, <1>3, <2>5, <2>6, <2>7, <2>8
  <1>6. CASE r # 0
    <2>1. PICK x \in 0 .. d - 1 : x = r - 1
      BY <1>6
    <2>2. q = b * d + x
      BY <1>4, <2>1
    <2>3. (b * d + x) % d = x
      BY QuotientIs
    <2>4. (1 * d + x) % d = x
      BY QuotientIs
    <2>5. r + d - 1 = 1 * d + x
      BY <2>1
    <2> QED
      BY <1>1, <1>3, <2>2, <2>3, <2>4, <2>5
  <1> QED
    BY <1>5, <1>6

\* A command that may be sent for the first time is not too far ahead of what has
\* been received, R.
LEMMA NotTooFar ==
  ASSUME NEW u \in Nat, NEW P \in SUBSET (1 .. u), NEW win, NEW use, Fits(win, use, P, u),
         NEW R \in Nat, TrueWindow(u) < TrueWindow(R) + FreeWindows,
         \A n \in 1 .. u : n \in P \/ TrueWindow(n) <= TrueWindow(R) + FreeWindows - 2,
         (u + 1) % WindowSize = 0 =>
           ~(win[((TrueWindow(u + 1) % Windows) + Windows - 1) % Windows] >= WindowSize)
  PROVE  TrueWindow(u + 1) < TrueWindow(R) + FreeWindows
  <1>1. SUFFICES ASSUME ~(TrueWindow(u + 1) < TrueWindow(R) + FreeWindows)
                 PROVE  FALSE
    OBVIOUS
  <1>2. PICK q \in Nat : q = TrueWindow(u)
    BY WireWindow
  <1>3. PICK z \in Nat : z = TrueWindow(R)
    BY WireWindow
  <1>4. FreeWindows \in Nat /\ FreeWindows > 2
    BY WindowAssumption
  <1>5. TrueWindow(u + 1) = IF (u + 1) % WindowSize = 0 THEN q + 1 ELSE q
    BY <1>2, NextWindow
  <1>6. (u + 1) % WindowSize = 0 /\ TrueWindow(u + 1) = q + 1 /\ q + 1 = z + FreeWindows
    BY <1>1, <1>2, <1>3, <1>4, <1>5
  <1>7. \A n \in 1 .. u : TrueWindow(n) = q => n \in P
    BY <1>3, <1>4, <1>6
  <1>8. u = q * WindowSize + WindowSize - 1
    <2>1. PICK ws \in Nat \ {0} : ws = WindowSize
      BY Sizes
    <2>2. PICK x \in Nat : x = u + 1
      OBVIOUS
    <2>3. x = (x \div ws) * ws + (x % ws)
      BY Quotient
    <2>4. x \div ws = q + 1 /\ x % ws = 0
      BY <1>6, <2>1, <2>2 DEF TrueWindow
    <2>5. (q + 1) * ws = q * ws + ws
      OBVIOUS
    <2>6. q * ws \in Nat
      OBVIOUS
    <2>7. x = q * ws + ws
      BY <2>3, <2>4, <2>5
    <2> QED
      BY <2>1, <2>2, <2>6, <2>7
  <1>9. PICK w : w = q % Windows
    OBVIOUS
  <1>10. win[w] >= WindowSize
    BY <1>4, <1>6, <1>7, <1>8, <1>9, FullWindow, SMTT(30)
  <1>11. (((q + 1) % Windows) + Windows - 1) % Windows = w
    BY <1>9, PlaceBefore
  <1> QED
    BY <1>6, <1>10, <1>11

(***************************************************************************)
(* The two ends of a channel: what was given and what was delivered are    *)
(* the packets of the log, all and those up to where the receiver is; its  *)
(* list has packets after that, and the first does not follow; a command   *)
(* that was sent is pending or kept, and so are those on the wire; and a   *)
(* command whose acknowledgement is on the wire is kept.                   *)
(***************************************************************************)
Match(L, life, g, ch, d, c, u, P, nt, ak) ==
  /\ Context(L, c, life, LastOf(d), u)
  /\ Enumerates(g, Ends(L)) /\ Enumerates(d, {n \in Ends(L) : n <= LastOf(d)})
  /\ Good(ch, L, c, LastOf(d), u) /\ Idle(ch)
  /\ \A n \in 1 .. u : n \in P \/ Has(ch.rel, L, LastOf(d), n)
  /\ \A n : <<c, n>> \in nt => n \in 1 .. u
  /\ \A n : <<c, n>> \in ak => n \in 1 .. u /\ Has(ch.rel, L, LastOf(d), n)

\* The log of the other commands is the same after more commands are queued.
LEMMA MatchSend ==
  ASSUME NEW L, NEW life, NEW g, NEW ch, NEW d, NEW c, NEW u, NEW P, NEW nt, NEW ak,
         Match(L, life, g, ch, d, c, u, P, nt, ak),
         NEW size \in Nat \ {0}, Fitting(size, life),
         NEW new \in Seq(Logged), new = [i \in 1 .. size |-> Command(c, Len(L), size, i)],
         NEW M, M = L \o new
  PROVE  Match(M, life, Append(g, Len(L) + size), ch, d, c, u, P, nt, ak)
  <1>1. PICK R : R = LastOf(d)
    OBVIOUS
  <1>2. Context(L, c, life, R, u)
    BY <1>1 DEF Match
  <1>3. L \in Seq(Logged) /\ Tiled(L, c, life)
    BY <1>2 DEF Context
  <1>4. PICK n : n = Len(L) + size
    OBVIOUS
  <1>5. Extended(L, M, c, life, n)
    BY <1>3, <1>4, PacketMore
  <1>6. R \in Nat /\ u \in Nat /\ R <= u /\ u <= Len(L) /\ Len(L) \in Nat /\ n \in Nat /\ n > Len(L)
    BY <1>2, <1>3, <1>4 DEF Context
  <1>7. \A i \in Ends(L) : i \in Nat /\ i <= Len(L)
    BY <1>6 DEF Ends
  <1>8. Context(M, c, life, R, u)
    <2>1. Boundary(M, R)
      BY <1>2, <1>5 DEF Context, Boundary, Extended
    <2>2. M \in Seq(Logged) /\ Tiled(M, c, life) /\ u <= Len(M)
      <3>1. n = Len(M)
        BY <1>5 DEF Extended
      <3> QED
        BY <1>5, <1>6, <3>1 DEF Extended
    <2> QED
      BY <1>2, <2>1, <2>2 DEF Context
  <1>9. Enumerates(Append(g, n), Ends(M))
    <2>1. Enumerates(g, Ends(L)) /\ g \in Seq(Nat)
      BY DEF Match, Enumerates
    <2>2. Enumerates(<<n>>, {n})
      BY <1>6, EnumeratesOne
    <2>3. Enumerates(g \o <<n>>, Ends(L) \cup {n})
      <3>1. \A i \in Ends(L) : \A j \in {n} : i < j
        BY <1>6, <1>7
      <3> QED
        BY <2>1, <2>2, <3>1, EnumeratesJoin
    <2>4. g \o <<n>> = Append(g, n)
      BY <1>6, <2>1, AppendIsConcat
    <2> QED
      BY <1>5, <2>3, <2>4 DEF Extended
  <1>10. {i \in Ends(M) : i <= R} = {i \in Ends(L) : i <= R}
    <2>1. ~(n <= R)
      BY <1>6
    <2> QED
      BY <1>5, <2>1 DEF Extended
  <1>11. Good(ch, M, c, R, u)
    <2>1. ch.rseq = R % Numbers /\ \E b : Queue(ch.rel, b, L, c, R, u)
      BY <1>1 DEF Match, Good
    <2>2. PICK b : Queue(ch.rel, b, L, c, R, u)
      BY <2>1
    <2>3. ASSUME NEW e, NEW s, InQueue(e, L, c, R, u, s)
          PROVE  InQueue(e, M, c, R, u, s)
      <3>1. PICK k : Slot(e, L, c, s, k, u)
        BY <2>3 DEF InQueue
      <3>2. IsPacket(M, c, s, k)
        BY <1>5, <3>1 DEF Slot, Extended
      <3>3. Slot(e, M, c, s, k, u)
        BY <3>1, <3>2 DEF Slot
      <3> QED
        BY <2>3, <3>3 DEF InQueue
    <2>4. Queue(ch.rel, b, M, c, R, u)
      BY <2>2, <2>3 DEF Queue
    <2> QED
      BY <2>1, <2>4 DEF Good
  <1>12. ASSUME NEW i \in 1 .. u
         PROVE  Has(ch.rel, M, R, i) <=> Has(ch.rel, L, R, i)
    <2>1. i \in 1 .. Len(L)
      BY <1>6
    <2>2. M[i] = L[i]
      BY <1>5, <2>1 DEF Extended
    <2>3. StoredIn(ch.rel, M, i) <=> StoredIn(ch.rel, L, i)
      BY <2>2 DEF StoredIn
    <2> QED
      BY <2>3 DEF Has, Arrived
  <1>13. /\ \A i \in 1 .. u : i \in P \/ Has(ch.rel, M, R, i)
         /\ \A i : <<c, i>> \in nt => i \in 1 .. u
         /\ \A i : <<c, i>> \in ak => i \in 1 .. u /\ Has(ch.rel, M, R, i)
    BY <1>1, <1>12 DEF Match
  <1>14. Enumerates(d, {i \in Ends(M) : i <= R}) /\ Idle(ch)
    BY <1>1, <1>10 DEF Match
  <1> QED
    BY <1>1, <1>4, <1>8, <1>9, <1>11, <1>13, <1>14 DEF Match

\* Commands and acknowledgements are lost, and the sender forgets what has arrived.
LEMMA MatchLess ==
  ASSUME NEW L, NEW life, NEW g, NEW ch, NEW d, NEW c, NEW u, NEW P, NEW nt, NEW ak,
         Match(L, life, g, ch, d, c, u, P, nt, ak),
         NEW Q, \A n \in P : n \in 1 .. u => n \in Q \/ Has(ch.rel, L, LastOf(d), n),
         NEW less, less \subseteq nt, NEW fewer, fewer \subseteq ak
  PROVE  Match(L, life, g, ch, d, c, u, Q, less, fewer)
  <1>1. \A n \in 1 .. u : n \in Q \/ Has(ch.rel, L, LastOf(d), n)
    BY DEF Match
  <1>2. /\ \A n : <<c, n>> \in less => n \in 1 .. u
        /\ \A n : <<c, n>> \in fewer => n \in 1 .. u /\ Has(ch.rel, L, LastOf(d), n)
    BY DEF Match
  <1> QED
    BY <1>1, <1>2 DEF Match

\* The next command is sent.
LEMMA MatchPut ==
  ASSUME NEW L, NEW life, NEW g, NEW ch, NEW d, NEW c, NEW u, NEW P, NEW nt, NEW ak,
         Match(L, life, g, ch, d, c, u, P, nt, ak),
         NEW v, v = u + 1, v <= Len(L), TrueWindow(v) < TrueWindow(LastOf(d)) + FreeWindows,
         NEW Q, Q = P \cup {v},
         NEW more, \A n : <<c, n>> \in more => <<c, n>> \in nt \/ n \in 1 .. v
  PROVE  Match(L, life, g, ch, d, c, v, Q, more, ak)
  <1>1. PICK R : R = LastOf(d)
    OBVIOUS
  <1>2. Context(L, c, life, R, u)
    BY <1>1 DEF Match
  <1>3. R \in Nat /\ u \in Nat /\ R <= u /\ v \in Nat
    BY <1>2 DEF Context
  <1>4. Context(L, c, life, R, v)
    BY <1>1, <1>2, <1>3 DEF Context
  <1>5. Good(ch, L, c, R, v)
    <2>1. ch.rseq = R % Numbers /\ \E b : Queue(ch.rel, b, L, c, R, u)
      BY <1>1 DEF Match, Good
    <2>2. PICK b : Queue(ch.rel, b, L, c, R, u)
      BY <2>1
    <2>3. ASSUME NEW e, NEW s, InQueue(e, L, c, R, u, s)
          PROVE  InQueue(e, L, c, R, v, s)
      <3>1. PICK k : Slot(e, L, c, s, k, u)
        BY <2>3 DEF InQueue
      <3>2. s \in Nat /\ k \in Nat
        BY <3>1 DEF Slot, IsPacket
      <3>3. Pieces(s, k, u) \subseteq Pieces(s, k, v)
        <4>1. \A i \in 1 .. k : s + i <= u => s + i <= v
          BY <1>3, <3>2
        <4> QED
          BY <4>1 DEF Pieces
      <3>4. Slot(e, L, c, s, k, v)
        BY <3>1, <3>3 DEF Slot
      <3> QED
        BY <2>3, <3>4 DEF InQueue
    <2>4. Queue(ch.rel, b, L, c, R, v)
      BY <2>2, <2>3 DEF Queue
    <2> QED
      BY <2>1, <2>4 DEF Good
  <1>6. 1 .. v = (1 .. u) \cup {v}
    BY <1>3
  <1>7. /\ \A n \in 1 .. v : n \in Q \/ Has(ch.rel, L, R, n)
        /\ \A n : <<c, n>> \in more => n \in 1 .. v
        /\ \A n : <<c, n>> \in ak => n \in 1 .. v /\ Has(ch.rel, L, R, n)
    BY <1>1, <1>6 DEF Match
  <1> QED
    BY <1>1, <1>4, <1>5, <1>7 DEF Match

\* What an acknowledgement that is not too old makes the sender forget has arrived.
LEMMA AcknowledgedNumber ==
  ASSUME NEW L, NEW c, NEW life, NEW R, NEW u, Context(L, c, life, R, u),
         NEW P, NEW win, NEW use, Fits(win, use, P, u), life <= FreeWindows + 1,
         NEW n \in P, n \in 1 .. u, NEW m \in 1 .. u, n % Numbers = m % Numbers,
         TrueWindow(m) + life >= TrueWindow(u)
  PROVE  n = m
  <1>1. u \in Nat /\ life \in Nat /\ n \in Nat /\ m \in Nat
    BY DEF Context
  <1>2. PICK f \in Nat : f = FreeWindows /\ f > 2
    BY WindowAssumption
  <1>3. PICK ws \in Nat \ {0} : ws = WindowSize
    BY Sizes
  <1>4. PICK x \in Nat : x = TrueWindow(u)
    BY <1>1, WireWindow
  <1>5. PICK y \in Nat : y = TrueWindow(n)
    BY <1>1, WireWindow
  <1>6. PICK z \in Nat : z = TrueWindow(m)
    BY <1>1, WireWindow
  <1>7. x <= y + f
    BY <1>2, <1>4, <1>5 DEF Fits
  <1>8. x <= z + f + 1
    BY <1>1, <1>2, <1>4, <1>6
  <1>9. Windows = f + f
    BY <1>2, Sizes
  <1>10. ASSUME NEW i \in Nat, i <= u, x <= TrueWindow(i) + f + 1
         PROVE  u < i + Numbers
    <2>1. SUFFICES ASSUME i + Numbers <= u
                   PROVE  FALSE
      BY <1>1, <1>10, Sizes
    <2>2. TrueWindow(i) + Windows <= x
      BY <1>1, <1>4, <1>10, <2>1, WindowsGrow
    <2>3. TrueWindow(i) \in Nat
      BY <1>10, WireWindow
    <2> QED
      BY <1>2, <1>9, <1>10, <2>2, <2>3
  <1>11. u < n + Numbers /\ u < m + Numbers
    BY <1>1, <1>2, <1>5, <1>6, <1>7, <1>8, <1>10
  <1>12. n < m + Numbers /\ m < n + Numbers
    BY <1>1, <1>11, Sizes
  <1> QED
    BY <1>1, <1>12, SameNumber

\* A command arrives: packets may be dispatched, up to S.
LEMMA MatchArrive ==
  ASSUME NEW L, NEW life, NEW g, NEW p, NEW d, NEW c, NEW u, NEW P, NEW nt, NEW ak,
         Match(L, life, g, p.chan[c], d, c, u, P, nt, ak),
         NEW q, NEW S, Advance(p, q, c, L, LastOf(d), S, u),
         NEW new, DispatchedAre(new, L, c, LastOf(d), S),
         NEW e, e = d \o [i \in 1 .. Len(new) |-> PacketOf(new[i])],
         NEW more, \A n : <<c, n>> \in more =>
                     <<c, n>> \in ak \/ (n \in 1 .. u /\ Has(q.chan[c].rel, L, S, n))
  PROVE  Match(L, life, g, q.chan[c], e, c, u, P, nt, more)
  <1>1. PICK R : R = LastOf(d)
    OBVIOUS
  <1>2. Context(L, c, life, R, u)
    BY <1>1 DEF Match
  <1>3. R \in Nat /\ S \in Nat /\ u \in Nat /\ R <= S /\ S <= u /\ u <= Len(L) /\ Boundary(L, S)
    BY <1>1, <1>2 DEF Context, Advance
  <1>4. \A n \in Ends(L) : n \in Nat \ {0}
    <2>1. L \in Seq(Logged)
      BY <1>2 DEF Context
    <2> QED
      BY <2>1 DEF Ends
  <1>5. Enumerates(e, {n \in Ends(L) : n <= S})
    <2>1. PICK r : r = [i \in 1 .. Len(new) |-> PacketOf(new[i])]
      OBVIOUS
    <2>2. PICK A : A = {n \in Ends(L) : n <= R}
      OBVIOUS
    <2>3. PICK B : B = {n \in Ends(L) : R < n /\ n <= S}
      OBVIOUS
    <2>4. Enumerates(d, A) /\ Enumerates(r, B)
      BY <1>1, <2>1, <2>2, <2>3 DEF Match, DispatchedAre
    <2>5. \A m \in A : \A n \in B : m < n
      BY <1>3, <1>4, <2>2, <2>3
    <2>6. Enumerates(d \o r, A \cup B)
      BY <2>4, <2>5, EnumeratesJoin
    <2>7. A \cup B = {n \in Ends(L) : n <= S}
      BY <1>3, <1>4, <2>2, <2>3
    <2> QED
      BY <2>1, <2>6, <2>7
  <1>6. LastOf(e) = S
    <2>1. /\ LastOf(e) \in Nat /\ \A n \in {m \in Ends(L) : m <= S} : n <= LastOf(e)
          /\ LastOf(e) = 0 \/ LastOf(e) \in {m \in Ends(L) : m <= S}
      BY <1>5, LastIs
    <2>2. LastOf(e) <= S
      BY <1>3, <2>1
    <2>3. S <= LastOf(e)
      BY <1>3, <2>1 DEF Boundary
    <2> QED
      BY <1>3, <2>1, <2>2, <2>3
  <1>7. Context(L, c, life, S, u)
    <2>1. TrueWindow(R) \in Nat /\ TrueWindow(S) \in Nat /\ TrueWindow(R) <= TrueWindow(S)
      BY <1>3, WindowsGrow
    <2>2. TrueWindow(u) \in Nat /\ FreeWindows \in Nat
      BY <1>3, WireWindow, Sizes
    <2>3. TrueWindow(u) < TrueWindow(R) + FreeWindows
      BY <1>2 DEF Context
    <2>4. TrueWindow(u) < TrueWindow(S) + FreeWindows
      BY <2>1, <2>2, <2>3
    <2> QED
      BY <1>2, <1>3, <2>4 DEF Context
  <1>8. Good(q.chan[c], L, c, S, u) /\ Idle(q.chan[c])
    BY DEF Advance
  <1>9. ASSUME NEW n \in 1 .. u, Has(p.chan[c].rel, L, R, n)
        PROVE  Has(q.chan[c].rel, L, S, n)
    <2>1. n \in 1 .. Len(L)
      <3>1. Len(L) \in Nat
        BY <1>2 DEF Context
      <3> QED
        BY <1>3, <3>1
    <2>2. KeepsMore(p.chan[c].rel, R, q.chan[c].rel, S, L)
      BY <1>1 DEF Advance
    <2>3. Arrived(q.chan[c].rel, L, S, n)
      BY <1>9, <2>1, <2>2 DEF KeepsMore, Has
    <2>4. TrueWindow(R) \in Nat /\ TrueWindow(S) \in Nat /\ TrueWindow(R) <= TrueWindow(S)
      BY <1>3, WindowsGrow
    <2>5. TrueWindow(n) \in Nat /\ FreeWindows \in Nat
      BY WireWindow, Sizes
    <2>6. TrueWindow(n) <= TrueWindow(R) + FreeWindows - 2
      BY <1>9 DEF Has
    <2> QED
      BY <2>3, <2>4, <2>5, <2>6 DEF Has
  <1>10. \A n \in 1 .. u : n \in P \/ Has(q.chan[c].rel, L, S, n)
    BY <1>1, <1>9 DEF Match
  <1>11. \A n : <<c, n>> \in more => n \in 1 .. u /\ Has(q.chan[c].rel, L, S, n)
    <2>1. \A n : <<c, n>> \in ak => n \in 1 .. u /\ Has(p.chan[c].rel, L, R, n)
      BY <1>1 DEF Match
    <2> QED
      BY <1>9, <2>1
  <1>12. /\ Enumerates(g, Ends(L)) /\ \A n : <<c, n>> \in nt => n \in 1 .. u
    BY DEF Match
  <1> QED
    BY <1>5, <1>6, <1>7, <1>8, <1>10, <1>11, <1>12 DEF Match

\* Nothing has been sent.
LEMMA MatchNothing ==
  ASSUME NEW c \in Channels, NEW life \in Nat, NEW e, e = <<>>
  PROVE  Match(e, life, e, FreshChannel, e, c, 0, {}, {}, {})
  <1>1. e \in Seq(Logged) /\ Len(e) = 0 /\ LastOf(e) = 0
    BY DEF LastOf
  <1>2. 1 .. Len(e) = {} /\ 1 .. 0 = {}
    BY <1>1
  <1>3. Ends(e) = {} /\ Tiled(e, c, life)
    BY <1>2 DEF Ends, Tiled
  <1>4. TrueWindow(0) < TrueWindow(0) + FreeWindows
    <2>1. PICK w \in Nat : w = TrueWindow(0)
      BY WireWindow
    <2>2. FreeWindows \in Nat \ {0}
      BY Sizes
    <2> QED
      BY <2>1, <2>2
  <1>5. Context(e, c, life, 0, 0)
    BY <1>1, <1>3, <1>4 DEF Context, Boundary
  <1>6. Enumerates(e, {})
    BY EnumeratesNone
  <1>7. FreshChannel.rseq = 0 /\ FreshChannel.rel = e
    BY DEF FreshChannel
  <1>8. Queue(e, e, e, c, 0, 0)
    BY <1>1, <1>2 DEF Queue
  <1>9. Good(FreshChannel, e, c, 0, 0) /\ Idle(FreshChannel)
    <2>1. 0 = 0 % Numbers
      <3>1. PICK d \in Nat \ {0} : d = Numbers
        BY Sizes
      <3>2. (0 * d + 0) % d = 0
        BY QuotientIs
      <3> QED
        BY <3>1, <3>2
    <2> QED
      BY <1>1, <1>7, <1>8, <2>1 DEF Good, Idle
  <1>10. {n \in Ends(e) : n <= LastOf(e)} = {}
    BY <1>3
  <1> QED
    BY <1>1, <1>2, <1>3, <1>5, <1>6, <1>9, <1>10 DEF Match

\* A packet is named by a number.
LEMMA PacketIs ==
  ASSUME NEW e \in Entries
  PROVE  PacketOf(e) \in Nat /\ DataLength(e) \in Nat
  <1>1. e.count \in Nat /\ e.data \in SUBSET (Nat \X Nat)
    BY DEF Entries
  <1>2. PICK d : d = CHOOSE x \in e.data : TRUE
    OBVIOUS
  <1>3. PICK k \in Nat : k = DataLength(e) /\ k >= 1
    BY <1>1 DEF DataLength, Fragmented
  <1>4. PacketOf(e) = IF e.data = (0 .. k - 1) \X {d[2]} THEN d[2] ELSE 0
    BY <1>2, <1>3 DEF PacketOf
  <1>5. CASE e.data = (0 .. k - 1) \X {d[2]}
    <2>1. 0 \in 0 .. k - 1
      BY <1>3
    <2>2. <<0, d[2]>> \in e.data
      BY <1>5, <2>1
    <2>3. <<0, d[2]>> \in Nat \X Nat
      BY <1>1, <2>2
    <2> QED
      BY <1>3, <1>4, <1>5, <2>3
  <1> QED
    BY <1>3, <1>4, <1>5

--------------------------------------------------------------------------------
(* The packets of a channel that wait to be taken. *)

LEMMA EntriesJoin ==
  ASSUME NEW q \in Seq(Entries), NEW r \in Seq(Entries), NEW c
  PROVE  PacketsOf(q \o r, c) = PacketsOf(q, c) \o PacketsOf(r, c)
  BY PacketsJoin

LEMMA PacketsType ==
  ASSUME NEW q \in Seq(Entries), NEW c
  PROVE  PacketsOf(q, c) \in Seq(Nat)
  <1>1. PICK s : s = OfChannel(q, c)
    OBVIOUS
  <1>2. s \in Seq(Entries)
    BY <1>1, ChannelLists
  <1>3. PICK n \in Nat : n = Len(s) /\ DOMAIN s = 1 .. n
    BY <1>2
  <1>4. \A i \in 1 .. n : PacketOf(s[i]) \in Nat
    BY <1>2, <1>3, PacketIs
  <1>5. PacketsOf(q, c) = [i \in 1 .. n |-> PacketOf(s[i])]
    BY <1>1, <1>3 DEF PacketsOf
  <1> QED
    BY <1>4, <1>5

LEMMA JoinNumbers ==
  ASSUME NEW a \in Seq(Nat), NEW b \in Seq(Nat), NEW d \in Seq(Nat)
  PROVE  (a \o b) \o d = a \o (b \o d)
  BY SMTT(30)

\* The application takes the first packet: it moves from one part of what has been
\* delivered to the other.
Taking(h, g, c) == IF h.ch = c THEN Append(g, PacketOf(h)) ELSE g

LEMMA FirstTaken ==
  ASSUME NEW q \in Seq(Entries), q # <<>>, NEW h, h = Head(q), NEW c, NEW g \in Seq(Nat)
  PROVE  Taking(h, g, c) \o PacketsOf(Tail(q), c) = g \o PacketsOf(q, c)
  <1>1. h \in Entries /\ Tail(q) \in Seq(Entries)
    BY HeadTailProperties
  <1>2. <<h>> \in Seq(Entries) /\ Len(<<h>>) = 1 /\ <<h>>[1] = h
    BY <1>1
  <1>3. PICK t \in Seq(Entries) : t = Tail(q)
    BY <1>1
  <1>4. q = <<h>> \o t
    BY <1>1, <1>2, <1>3
  <1>5. PacketsOf(q, c) = PacketsOf(<<h>>, c) \o PacketsOf(t, c)
    <2>1. PICK one \in Seq(Entries) : one = <<h>>
      BY <1>2
    <2>2. PacketsOf(one \o t, c) = PacketsOf(one, c) \o PacketsOf(t, c)
      BY <1>3, EntriesJoin
    <2> QED
      BY <1>4, <2>1, <2>2
  <1>6. PICK z \in Seq(Nat) : z = PacketsOf(t, c)
    BY PacketsType
  <1>7. CASE h.ch = c
    <2>1. PICK x \in Nat : x = PacketOf(h)
      BY <1>1, PacketIs
    <2>2. PacketsOf(<<h>>, c) = <<x>>
      <3>1. PacketsOf(<<h>>, c) = [i \in 1 .. Len(<<h>>) |-> PacketOf(<<h>>[i])]
        <4>1. \A i \in 1 .. Len(<<h>>) : <<h>>[i].ch = c
          BY <1>2, <1>7
        <4> QED
          BY <1>2, <4>1, PacketsAll
      <3>2. \A i \in 1 .. 1 : <<h>>[i] = h
        BY <1>2
      <3>3. PacketsOf(<<h>>, c) = [i \in 1 .. 1 |-> x]
        BY <1>2, <2>1, <3>1, <3>2
      <3> QED
        BY <3>3
    <2>3. <<x>> \in Seq(Nat)
      BY <2>1
    <2>4. (g \o <<x>>) \o z = g \o (<<x>> \o z)
      BY <1>6, <2>3, JoinNumbers
    <2>5. Append(g, x) = g \o <<x>>
      BY <2>1, AppendIsConcat
    <2> QED
      BY <1>3, <1>5, <1>6, <1>7, <2>1, <2>2, <2>4, <2>5 DEF Taking
  <1>8. CASE h.ch # c
    <2>1. PacketsOf(<<h>>, c) = <<>>
      <3>1. \A i \in 1 .. Len(<<h>>) : <<h>>[i].ch # c
        BY <1>2, <1>8
      <3> QED
        BY <1>2, <3>1, PacketsNone
    <2>2. <<>> \o z = z
      BY <1>6, ConcatEmptySeq
    <2> QED
      BY <1>3, <1>5, <1>6, <1>8, <2>1, <2>2 DEF Taking
  <1> QED
    BY <1>7, <1>8

\* The packets dispatched join those that were waiting.
LEMMA MoreWaiting ==
  ASSUME NEW q \in Seq(Entries), NEW r \in Seq(Entries), NEW c, NEW g \in Seq(Nat)
  PROVE  g \o PacketsOf(q \o r, c) = (g \o PacketsOf(q, c)) \o PacketsOf(r, c)
  <1>1. PICK z \in Seq(Nat) : z = PacketsOf(r, c)
    BY PacketsType
  <1>2. PICK y \in Seq(Nat) : y = PacketsOf(q, c)
    BY PacketsType
  <1>3. PacketsOf(q \o r, c) = y \o z
    <2>1. PacketsOf(q \o r, c) = PacketsOf(q, c) \o PacketsOf(r, c)
      BY EntriesJoin
    <2> QED
      BY <1>1, <1>2, <2>1
  <1>4. (g \o y) \o z = g \o (y \o z)
    BY JoinNumbers
  <1> QED
    BY <1>1, <1>2, <1>3, <1>4

LEMMA TakenFirstPeer ==
  ASSUME NEW p \in Peers, p.dispatched # <<>>
  PROVE  /\ Received(p) \in Peers /\ Received(p).chan = p.chan
         /\ Received(p).dispatched = Tail(p.dispatched)
  <1>1. p.dispatched \in Seq(Entries) /\ p.waiting \in Int
    BY DEF Peers
  <1>2. PICK t \in Seq(Entries) : t = Tail(p.dispatched)
    BY <1>1, HeadTailProperties
  <1>3. Head(p.dispatched) \in Entries
    BY <1>1, HeadTailProperties
  <1>4. PICK w \in Int : w = p.waiting - DataLength(Head(p.dispatched))
    BY <1>1, <1>3, PacketIs
  <1>5. Received(p) = [p EXCEPT !.dispatched = t, !.waiting = w]
    BY <1>2, <1>4 DEF Received
  <1>6. PICK q : q = [p EXCEPT !.dispatched = t, !.waiting = w]
    OBVIOUS
  <1>7. q \in Peers /\ q.chan = p.chan /\ q.dispatched = t
    BY <1>6 DEF Peers
  <1> QED
    BY <1>2, <1>5, <1>6, <1>7

LEMMA FreshPeer == FreshReceiver(Channels) \in Peers
  <1>1. <<>> \in Seq(Entries)
    OBVIOUS
  <1>2. FreshChannel \in ChannelRecords
    BY <1>1 DEF FreshChannel, ChannelRecords
  <1>3. [c \in Channels |-> FreshChannel] \in [Channels -> ChannelRecords]
    BY <1>2
  <1> QED
    BY <1>1, <1>3 DEF FreshReceiver, Peers

LEMMA LifetimeIs ==
  ASSUME NEW s \in Scenarios
  PROVE  /\ s.lifetime \in Nat /\ s.lifetime <= FreeWindows + 1
         /\ \A size \in s.sizes : size \in Nat \ {0} /\ Fitting(size, s.lifetime)
  <1>1. /\ s.lifetime \in Nat /\ s.sizes \subseteq Nat \ {0}
        /\ \A size \in s.sizes \cup {1} :
             s.lifetime * WindowSize + size - 1 <= (FreeWindows + 1) * WindowSize
    BY ReliableAssumption
  <1>2. PICK l \in Nat : l = s.lifetime
    BY <1>1
  <1>3. PICK f \in Nat : f = FreeWindows + 1
    BY Sizes
  <1>4. PICK d \in Nat \ {0} : d = WindowSize
    BY Sizes
  <1>5. l <= f
    <2>1. SUFFICES ASSUME f + 1 <= l
                   PROVE  FALSE
      BY <1>2, <1>3
    <2>2. (f + 1) * d <= l * d
      BY <2>1
    <2>3. (f + 1) * d = f * d + d
      OBVIOUS
    <2>4. l * d + 1 - 1 <= f * d
      BY <1>1, <1>2, <1>3, <1>4
    <2>5. l * d \in Nat /\ f * d \in Nat
      OBVIOUS
    <2> QED
      BY <2>2, <2>3, <2>4, <2>5
  <1> QED
    BY <1>1, <1>2, <1>3, <1>5 DEF Fitting

(***************************************************************************)
(* The invariant of both ends, and what a step does to the packets given   *)
(* and delivered.                                                          *)
(***************************************************************************)
Matched(c) ==
  Match(log[c], scenario.lifetime, given[c], peer.chan[c], Delivered(c), c,
        SentUpTo(c), Pend(c), net, acks)
RInv ==
  /\ peer \in Peers
  /\ got \in [Channels -> Seq(Nat)] /\ given \in [Channels -> Seq(Nat)]
  /\ \A c \in Channels : Matched(c)

\* What a step may do to a channel: give a packet, deliver some, or neither.
Gives(c) == Delivered(c)' = Delivered(c) /\ \E p \in Numbered(c) : given'[c] = Append(given[c], p)
Delivers(c) == given'[c] = given[c] /\ \E z \in Seq(Nat) : Delivered(c)' = Delivered(c) \o z
Stays(c) == given'[c] = given[c] /\ Delivered(c)' = Delivered(c)
Channelled == \A c \in Channels : Gives(c) \/ Delivers(c) \/ Stays(c)

LEMMA MatchInit ==
  ASSUME Init, IInv
  PROVE  RInv
  <1>1. PICK e : e = <<>>
    OBVIOUS
  <1>2. /\ \A c \in Channels : log[c] = e /\ given[c] = e /\ got[c] = e
        /\ outgoing = e /\ sent = e /\ net = {} /\ acks = {} /\ peer = FreshReceiver(Channels)
    BY <1>1 DEF Init, AllChannels
  <1>3. peer \in Peers /\ peer.dispatched = e /\ \A c \in Channels : peer.chan[c] = FreshChannel
    BY <1>1, <1>2, FreshPeer DEF FreshReceiver
  <1>4. e \in Seq(Nat) /\ e \in Seq(Entries) /\ Len(e) = 0 /\ e \in Seq(Commands)
    BY <1>1
  <1>5. got \in [Channels -> Seq(Nat)] /\ given \in [Channels -> Seq(Nat)]
    BY <1>1, <1>4 DEF Init
  <1>6. ASSUME NEW c \in Channels
        PROVE  Matched(c)
    <2>1. c \in AllChannels
      BY DEF AllChannels
    <2>2. SentUpTo(c) = 0
      <3>1. SentUpTo(c) \in Nat /\ SentUpTo(c) <= Len(log[c])
        BY <2>1, SentIs
      <3> QED
        BY <1>2, <1>4, <3>1
    <2>3. Pend(c) = {}
      BY <2>2 DEF Pend, Pending
    <2>4. Delivered(c) = e
      <3>1. PacketsOf(e, c) = <<>>
        <4>1. \A i \in 1 .. Len(e) : e[i].ch # c
          BY <1>4
        <4> QED
          BY <1>4, <4>1, PacketsNone
      <3>2. e \o e = e
        BY <1>1
      <3> QED
        BY <1>1, <1>2, <1>3, <3>1, <3>2 DEF Delivered, Waiting
    <2>5. scenario.lifetime \in Nat
      BY LifetimeIs DEF IInv, Types
    <2>6. Match(e, scenario.lifetime, e, FreshChannel, e, c, 0, {}, {}, {})
      BY <1>1, <2>5, MatchNothing
    <2> QED
      BY <1>2, <1>3, <2>2, <2>3, <2>4, <2>6 DEF Matched
  <1> QED
    BY <1>3, <1>5, <1>6 DEF RInv

\* Steps of the sender and of the network that deliver nothing: a command that is
\* no longer pending is kept by the receiver.
KeepsHeld(c) ==
  /\ SentUpTo(c)' = SentUpTo(c)
  /\ \A n \in Pend(c) : n \in 1 .. SentUpTo(c) =>
       n \in Pend(c)' \/ Has(peer.chan[c].rel, log[c], LastOf(Delivered(c)), n)

LEMMA QuietMatch ==
  ASSUME RInv, UNCHANGED <<given, peer, got, scenario>>, \A c \in Channels : log'[c] = log[c],
         \A c \in Channels : KeepsHeld(c), net' \subseteq net, acks' \subseteq acks
  PROVE  RInv' /\ Channelled
  <1>1. ASSUME NEW c \in Channels
        PROVE  Matched(c)' /\ Stays(c)
    <2>1. Delivered(c)' = Delivered(c)
      BY DEF Delivered, Waiting
    <2>2. Match(log[c], scenario.lifetime, given[c], peer.chan[c], Delivered(c), c,
                SentUpTo(c), Pend(c), net, acks)
      BY DEF RInv, Matched
    <2>3. SentUpTo(c)' = SentUpTo(c) /\
          \A n \in Pend(c) : n \in 1 .. SentUpTo(c) =>
            n \in Pend(c)' \/ Has(peer.chan[c].rel, log[c], LastOf(Delivered(c)), n)
      BY DEF KeepsHeld
    <2>4. Match(log[c], scenario.lifetime, given[c], peer.chan[c], Delivered(c), c,
                SentUpTo(c), Pend(c)', net', acks')
      BY <2>2, <2>3, MatchLess
    <2> QED
      BY <2>1, <2>3, <2>4 DEF Matched, Stays
  <1> QED
    BY <1>1 DEF RInv, Channelled

LEMMA SameMatch ==
  ASSUME RInv, UNCHANGED <<given, peer, got, scenario>>, \A c \in Channels : log'[c] = log[c],
         AllSame, net' \subseteq net, acks' \subseteq acks
  PROVE  RInv' /\ Channelled
  <1>1. \A c \in Channels : KeepsHeld(c)
    BY DEF AllSame, SameSent, KeepsHeld
  <1> QED
    BY <1>1, QuietMatch

LEMMA AckMatch ==
  ASSUME IInv, RInv, NEW d \in AllChannels, NEW m, ArriveAck(d, m)
  PROVE  RInv' /\ Channelled
  <1>1. \A c \in Channels : Forgetful(c, d, m % Numbers)
    BY ArriveAckKeeps
  <1>2. /\ UNCHANGED <<log, given, net, acks, peer, got, scenario>> /\ <<d, m>> \in acks
        /\ TrueWindow(m) + scenario.lifetime >= TrueWindow(SentUpTo(d))
    BY DEF ArriveAck
  <1>3. ASSUME NEW c \in Channels
        PROVE  KeepsHeld(c)
    <2>1. SUFFICES ASSUME NEW n \in Pend(c), n \in 1 .. SentUpTo(c), n \notin Pend(c)'
                   PROVE  Has(peer.chan[c].rel, log[c], LastOf(Delivered(c)), n)
      BY <1>1 DEF KeepsHeld, Forgetful
    <2>2. c = d /\ n % Numbers = m % Numbers
      BY <1>1, <2>1 DEF Forgetful
    <2>3. PICK u : u = SentUpTo(c)
      OBVIOUS
    <2>4. PICK R : R = LastOf(Delivered(c))
      OBVIOUS
    <2>5. Match(log[c], scenario.lifetime, given[c], peer.chan[c], Delivered(c), c,
                u, Pend(c), net, acks)
      BY <2>3 DEF RInv, Matched
    <2>6. Context(log[c], c, scenario.lifetime, R, u)
      BY <2>4, <2>5 DEF Match
    <2>7. m \in 1 .. u /\ Has(peer.chan[c].rel, log[c], R, m)
      BY <1>2, <2>2, <2>4, <2>5 DEF Match
    <2>8. Fits(windows[c], used[c], Pend(c), u)
      BY <2>3 DEF IInv, Windowing, Pend
    <2>9. scenario.lifetime <= FreeWindows + 1
      BY LifetimeIs DEF IInv, Types
    <2>10. n = m
      <3>1. TrueWindow(m) + scenario.lifetime >= TrueWindow(u)
        BY <1>2, <2>2, <2>3
      <3>2. n \in 1 .. u
        BY <2>1, <2>3
      <3> QED
        BY <2>1, <2>2, <2>6, <2>7, <2>8, <2>9, <3>1, <3>2, AcknowledgedNumber
    <2> QED
      BY <2>4, <2>7, <2>10
  <1> QED
    BY <1>2, <1>3, QuietMatch

LEMMA PutMatch ==
  ASSUME IInv, RInv, PutCommand
  PROVE  RInv' /\ Channelled
  <1>1. (\A c \in Channels : SameSent(c) \/ OneMore(c)) /\ NetGrows /\ IInv'
    BY PutCommandKeeps
  <1>2. UNCHANGED <<log, given, acks, peer, got, scenario>>
    BY DEF PutCommand
  <1>3. ASSUME NEW c \in Channels
        PROVE  Matched(c)' /\ Stays(c)
    <2>1. Delivered(c)' = Delivered(c)
      BY <1>2 DEF Delivered, Waiting
    <2>2. PICK u : u = SentUpTo(c)
      OBVIOUS
    <2>3. Match(log[c], scenario.lifetime, given[c], peer.chan[c], Delivered(c), c,
                u, Pend(c), net, acks)
      BY <2>2 DEF RInv, Matched
    <2>4. c \in AllChannels
      BY DEF AllChannels
    <2>5. u \in Nat
      BY <2>2, <2>4, SentIs
    <2>6. \A n : <<c, n>> \in net' => <<c, n>> \in net \/ n \in 1 .. SentUpTo(c)'
      BY <1>1 DEF NetGrows
    <2>7. CASE SameSent(c)
      <3>1. SentUpTo(c)' = u /\ Pend(c)' = Pend(c)
        BY <2>2, <2>7 DEF SameSent
      <3>2. \A n : <<c, n>> \in net' => n \in 1 .. u
        BY <2>3, <2>6, <3>1 DEF Match
      <3>3. Match(log[c], scenario.lifetime, given[c], peer.chan[c], Delivered(c), c,
                  u, Pend(c), net', acks)
        BY <2>3, <3>2 DEF Match
      <3> QED
        BY <1>2, <2>1, <3>1, <3>3 DEF Matched, Stays
    <2>8. CASE OneMore(c)
      <3>1. PICK v : v = u + 1
        OBVIOUS
      <3>2. PICK win : win = windows[c]
        OBVIOUS
      <3>3. SentUpTo(c)' = v /\ Pend(c)' = Pend(c) \cup {v}
        BY <2>2, <2>8, <3>1 DEF OneMore
      <3>4. (u + 1) % WindowSize = 0 =>
              ~(win[((TrueWindow(u + 1) % Windows) + Windows - 1) % Windows] >= WindowSize)
        BY <2>2, <2>8, <3>2 DEF OneMore
      <3>5. v <= Len(log[c])
        <4>1. Numbering'
          BY <1>1 DEF IInv
        <4>2. Splits(Range(outgoing'), Range(sent'), c, Len(log'[c]), SentUpTo(c)')
          BY <2>4, <4>1 DEF Numbering, AllChannels
        <4>3. Len(log[c]) \in Nat
          BY <2>4, Lengths DEF IInv
        <4> QED
          BY <1>2, <3>3, <4>2, <4>3 DEF Splits
      <3>6. PICK R : R = LastOf(Delivered(c))
        OBVIOUS
      <3>7. R \in Nat /\ TrueWindow(u) < TrueWindow(R) + FreeWindows
        BY <2>3, <3>6 DEF Match, Context
      <3>8. TrueWindow(v) < TrueWindow(R) + FreeWindows
        <4>1. Fits(win, used[c], Pend(c), u) /\ Pend(c) \in SUBSET (1 .. u)
          BY <2>2, <3>2 DEF IInv, Windowing, Pend, Pending
        <4>2. \A n \in 1 .. u : n \in Pend(c) \/ TrueWindow(n) <= TrueWindow(R) + FreeWindows - 2
          BY <2>3, <3>6 DEF Match, Has
        <4> QED
          BY <2>5, <3>1, <3>4, <3>7, <4>1, <4>2, NotTooFar
      <3>9. PICK Q : Q = Pend(c) \cup {v}
        OBVIOUS
      <3>10. \A n : <<c, n>> \in net' => <<c, n>> \in net \/ n \in 1 .. v
        BY <2>6, <3>3
      <3>11. Match(log[c], scenario.lifetime, given[c], peer.chan[c], Delivered(c), c,
                   v, Q, net', acks)
        BY <2>3, <3>1, <3>5, <3>6, <3>8, <3>9, <3>10, MatchPut
      <3> QED
        BY <1>2, <2>1, <3>3, <3>9, <3>11 DEF Matched, Stays
    <2> QED
      BY <1>1, <2>7, <2>8
  <1> QED
    BY <1>2, <1>3 DEF RInv, Channelled

--------------------------------------------------------------------------------
(* The steps of the two ends. *)

LEMMA SendMatch ==
  ASSUME IInv, RInv, NEW d \in Channels, NEW size \in scenario.sizes, Send(d, size)
  PROVE  RInv' /\ Channelled
  <1>1. AllSame
    BY SendKeeps
  <1>2. d \in AllChannels /\ scenario \in Scenarios
    BY DEF AllChannels, IInv, Types
  <1>3. size \in Nat \ {0} /\ Fitting(size, scenario.lifetime)
    BY <1>2, LifetimeIs
  <1>4. PICK len \in Nat : len = Len(log[d])
    BY <1>2, Lengths DEF IInv
  <1>5. PICK new : new = [i \in 1 .. size |-> Command(d, len, size, i)]
    OBVIOUS
  <1>6. new \in Seq(Logged)
    <2>1. \A i \in 1 .. size : (len + i) % Numbers \in Nat
      BY <1>3, Sizes
    <2>2. (len + 1) % Numbers \in Nat
      BY Sizes
    <2>3. \A i \in 1 .. size : new[i] \in Logged
      BY <1>3, <1>5, <2>1, <2>2 DEF Logged, Command
    <2> QED
      BY <1>3, <1>5, <2>3
  <1>7. /\ log' = [log EXCEPT ![d] = @ \o new] /\ given' = [given EXCEPT ![d] = Append(@, len + size)]
        /\ len + size <= scenario.commands[d]
        /\ UNCHANGED <<net, acks, peer, got, scenario>>
    BY <1>4, <1>5 DEF Send
  <1>8. log \in [AllChannels -> Seq(Logged)] /\ given \in [Channels -> Seq(Nat)]
    BY DEF IInv, Types, RInv
  <1>9. len + size \in Numbered(d)
    <2>1. scenario.commands[d] \in Nat
      BY <1>2, ReliableAssumption DEF AllChannels
    <2>2. len + size \in 1 .. scenario.commands[d]
      BY <1>3, <1>7, <2>1
    <2> QED
      BY <1>2, <2>2 DEF Numbered
  <1>10. given' \in [Channels -> Seq(Nat)]
    BY <1>3, <1>7, <1>8
  <1>11. ASSUME NEW c \in Channels
         PROVE  Matched(c)' /\ (Gives(c) \/ Stays(c))
    <2>1. Delivered(c)' = Delivered(c)
      BY <1>7 DEF Delivered, Waiting
    <2>2. SentUpTo(c)' = SentUpTo(c) /\ Pend(c)' = Pend(c)
      BY <1>1 DEF AllSame, SameSent
    <2>3. Match(log[c], scenario.lifetime, given[c], peer.chan[c], Delivered(c), c,
                SentUpTo(c), Pend(c), net, acks)
      BY DEF RInv, Matched
    <2>4. CASE c # d
      <3>1. log'[c] = log[c] /\ given'[c] = given[c]
        BY <1>7, <1>8, <2>4 DEF AllChannels
      <3> QED
        BY <1>7, <2>1, <2>2, <2>3, <3>1 DEF Matched, Stays
    <2>5. CASE c = d
      <3>1. PICK M : M = log[c] \o new
        OBVIOUS
      <3>2. log'[c] = M /\ given'[c] = Append(given[c], Len(log[c]) + size)
        BY <1>2, <1>4, <1>7, <1>8, <2>5, <3>1
      <3>3. new = [i \in 1 .. size |-> Command(c, Len(log[c]), size, i)]
        BY <1>4, <1>5, <2>5
      <3>4. Match(M, scenario.lifetime, Append(given[c], Len(log[c]) + size), peer.chan[c],
                  Delivered(c), c, SentUpTo(c), Pend(c), net, acks)
        BY <1>3, <1>6, <2>3, <3>1, <3>3, MatchSend
      <3>5. Matched(c)'
        BY <1>7, <2>1, <2>2, <3>2, <3>4 DEF Matched
      <3>6. Gives(c)
        BY <1>4, <1>9, <2>1, <2>5, <3>2 DEF Gives
      <3> QED
        BY <3>5, <3>6
    <2> QED
      BY <2>4, <2>5
  <1> QED
    BY <1>7, <1>10, <1>11 DEF RInv, Channelled

\* A command arrives.
LEMMA ArriveMatch ==
  ASSUME IInv, RInv, NEW d \in AllChannels, NEW m, Arrive(d, m)
  PROVE  RInv' /\ Channelled
  <1>1. AllSame
    BY OthersKeep
  <1>2. /\ UNCHANGED <<log, given, net, got, scenario>> /\ <<d, m>> \in net
    BY DEF Arrive
  <1>3. \A c \in Channels : SentUpTo(c)' = SentUpTo(c) /\ Pend(c)' = Pend(c)
    BY <1>1 DEF AllSame, SameSent
  <1>4. \A c \in Channels :
          Match(log[c], scenario.lifetime, given[c], peer.chan[c], Delivered(c), c,
                SentUpTo(c), Pend(c), net, acks)
    BY DEF RInv, Matched
  <1>5. CASE d = Control
    <2>1. acks' = acks \cup {<<d, m>>} /\ peer' = peer
      BY <1>5 DEF Arrive
    <2>2. ASSUME NEW c \in Channels
          PROVE  Matched(c)' /\ Stays(c)
      <3>1. Delivered(c)' = Delivered(c)
        BY <1>2, <2>1 DEF Delivered, Waiting
      <3>2. \A n : <<c, n>> \in acks' => <<c, n>> \in acks
        <4>1. c # d
          BY <1>5, ScenarioIs DEF IInv
        <4> QED
          BY <2>1, <4>1
      <3>3. Match(log[c], scenario.lifetime, given[c], peer.chan[c], Delivered(c), c,
                  SentUpTo(c), Pend(c), net, acks')
        BY <1>4, <3>2 DEF Match
      <3> QED
        BY <1>2, <1>3, <2>1, <3>1, <3>3 DEF Matched, Stays
    <2> QED
      BY <1>2, <2>1, <2>2 DEF RInv, Channelled
  <1>6. CASE d # Control
    <2>1. d \in Channels
      BY <1>6 DEF AllChannels
    <2>2. PICK R : R = LastOf(Delivered(d))
      OBVIOUS
    <2>3. PICK r : r = Handle(peer, log[d][m])
      OBVIOUS
    <2>4. /\ TrueWindow(m) + scenario.lifetime >= TrueWindow(R) /\ peer' = r.peer
          /\ acks' = IF r.ok /\ ~NotAcknowledged(r.peer.chan[d], m % Numbers)
                     THEN acks \cup {<<d, m>>} ELSE acks
      BY <1>6, <2>2, <2>3 DEF Arrive, ReceivedUpTo, LastOf
    <2>5. PICK L : L = log[d]
      OBVIOUS
    <2>6. PICK u : u = SentUpTo(d)
      OBVIOUS
    <2>7. Match(L, scenario.lifetime, given[d], peer.chan[d], Delivered(d), d, u, Pend(d), net, acks)
      BY <1>4, <2>1, <2>5, <2>6
    <2>8. /\ Context(L, d, scenario.lifetime, R, u) /\ Good(peer.chan[d], L, d, R, u)
          /\ Idle(peer.chan[d]) /\ m \in 1 .. u
      BY <1>2, <2>2, <2>7 DEF Match
    <2>9. peer \in Peers
      BY DEF RInv
    <2>10. Outcome(peer, Handle(peer, L[m]), d, L, R, u, m)
      BY <2>4, <2>8, <2>9, HandleOutcome
    <2>11. Outcome(peer, r, d, L, R, u, m)
      BY <2>3, <2>5, <2>10
    <2>12. PICK S : /\ Advance(peer, r.peer, d, L, R, S, u)
                    /\ r.ok /\ ~NotAcknowledged(r.peer.chan[d], m % Numbers) =>
                         Has(r.peer.chan[d].rel, L, S, m)
      BY <2>11 DEF Outcome
    <2>13. PICK q : q = r.peer
      OBVIOUS
    <2>14. /\ q \in Peers /\ \A c \in Channels : c # d => q.chan[c] = peer.chan[c]
           /\ Advance(peer, q, d, L, R, S, u)
      BY <2>12, <2>13 DEF Advance
    <2>15. PICK new : DispatchedAre(new, L, d, R, S) /\ q.dispatched = peer.dispatched \o new
      BY <2>14 DEF Advance
    <2>16. new \in Seq(Entries) /\ \A i \in 1 .. Len(new) : new[i].ch = d
      BY <2>15 DEF DispatchedAre
    <2>17. peer.dispatched \in Seq(Entries)
      BY <2>1, <2>9, PeerFields
    <2>18. ASSUME NEW c \in Channels, NEW z, z = PacketsOf(new, c)
           PROVE  z \in Seq(Nat) /\ Delivered(c)' = Delivered(c) \o z
      <3>1. PICK g \in Seq(Nat) : g = got[c]
        BY DEF RInv
      <3>2. PICK old \in Seq(Entries) : old = peer.dispatched
        BY <2>17
      <3>3. z \in Seq(Nat) /\ g \o PacketsOf(old \o new, c) = (g \o PacketsOf(old, c)) \o z
        <4>1. PICK t \in Seq(Entries) : t = new
          BY <2>16
        <4>2. PacketsOf(t, c) \in Seq(Nat)
          BY PacketsType
        <4>3. g \o PacketsOf(old \o t, c) = (g \o PacketsOf(old, c)) \o PacketsOf(t, c)
          BY MoreWaiting
        <4> QED
          BY <2>18, <4>1, <4>2, <4>3
      <3>4. Delivered(c)' = g \o PacketsOf(old \o new, c)
        BY <1>2, <2>4, <2>13, <2>15, <3>1, <3>2 DEF Delivered, Waiting
      <3>5. Delivered(c) = g \o PacketsOf(old, c)
        BY <3>1, <3>2 DEF Delivered, Waiting
      <3> QED
        BY <3>3, <3>4, <3>5
    <2>19. ASSUME NEW c \in Channels, c # d
           PROVE  Matched(c)' /\ Delivers(c)
      <3>1. PICK z : z = PacketsOf(new, c)
        OBVIOUS
      <3>2. z \in Seq(Nat) /\ Delivered(c)' = Delivered(c) \o z
        BY <2>18, <3>1
      <3>3. Delivers(c)
        BY <1>2, <3>2 DEF Delivers
      <3>4. z = <<>>
        <4>1. \A i \in 1 .. Len(new) : new[i].ch # c
          BY <2>16, <2>19
        <4> QED
          BY <2>16, <3>1, <4>1, PacketsNone
      <3>5. Delivered(c) \in Seq(Nat)
        BY <1>4 DEF Match, Enumerates
      <3>6. Delivered(c)' = Delivered(c)
        BY <3>2, <3>4, <3>5, ConcatEmptySeq
      <3>7. \A n : <<c, n>> \in acks' => <<c, n>> \in acks
        BY <2>4, <2>19
      <3>8. Match(log[c], scenario.lifetime, given[c], peer.chan[c], Delivered(c), c,
                  SentUpTo(c), Pend(c), net, acks')
        BY <1>4, <3>7 DEF Match
      <3>9. peer'.chan[c] = peer.chan[c]
        BY <2>4, <2>13, <2>14, <2>19
      <3> QED
        BY <1>2, <1>3, <3>3, <3>6, <3>8, <3>9 DEF Matched
    <2>20. Matched(d)' /\ Delivers(d)
      <3>1. PICK z : z = PacketsOf(new, d)
        OBVIOUS
      <3>2. z \in Seq(Nat) /\ Delivered(d)' = Delivered(d) \o z
        BY <2>1, <2>18, <3>1
      <3>3. Delivers(d)
        BY <1>2, <2>1, <3>2 DEF Delivers
      <3>4. z = [i \in 1 .. Len(new) |-> PacketOf(new[i])]
        BY <2>16, <3>1, PacketsAll
      <3>5. PICK e : e = Delivered(d) \o [i \in 1 .. Len(new) |-> PacketOf(new[i])]
        OBVIOUS
      <3>6. PICK more : more = acks'
        OBVIOUS
      <3>7. \A n : <<d, n>> \in more =>
              <<d, n>> \in acks \/ (n \in 1 .. u /\ Has(q.chan[d].rel, L, S, n))
        BY <2>4, <2>8, <2>12, <2>13, <3>6
      <3>8. Match(L, scenario.lifetime, given[d], q.chan[d], e, d, u, Pend(d), net, more)
        BY <2>2, <2>7, <2>14, <2>15, <3>5, <3>7, MatchArrive
      <3> QED
        BY <1>2, <1>3, <2>1, <2>4, <2>5, <2>6, <2>13, <3>2, <3>3, <3>4, <3>5, <3>6, <3>8 DEF Matched
    <2>21. \A c \in Channels : Matched(c)' /\ Delivers(c)
      BY <2>19, <2>20
    <2> QED
      BY <1>2, <2>4, <2>13, <2>14, <2>21 DEF RInv, Channelled
  <1> QED
    BY <1>5, <1>6

\* The application takes a packet.
LEMMA ReceiveMatch ==
  ASSUME IInv, RInv, Receive
  PROVE  RInv' /\ Channelled
  <1>1. AllSame
    BY OthersKeep
  <1>2. /\ UNCHANGED <<log, given, net, acks, scenario>> /\ peer.dispatched # <<>>
        /\ peer' = Received(peer)
        /\ LET e == Head(peer.dispatched) IN got' = [got EXCEPT ![e.ch] = Append(@, PacketOf(e))]
    BY DEF Receive
  <1>3. peer \in Peers /\ got \in [Channels -> Seq(Nat)]
    BY DEF RInv
  <1>4. /\ peer' \in Peers /\ peer'.chan = peer.chan
        /\ peer'.dispatched = Tail(peer.dispatched)
    BY <1>2, <1>3, TakenFirstPeer
  <1>5. PICK old \in Seq(Entries) : old = peer.dispatched
    BY <1>3 DEF Peers
  <1>6. PICK h : h = Head(old)
    OBVIOUS
  <1>7. h \in Entries
    BY <1>2, <1>5, <1>6, HeadTailProperties
  <1>8. PICK x \in Nat : x = PacketOf(h)
    BY <1>7, PacketIs
  <1>9. got' = [got EXCEPT ![h.ch] = Append(@, x)]
    BY <1>2, <1>5, <1>6, <1>8
  <1>10. h.ch \in Channels /\ got' \in [Channels -> Seq(Nat)]
    BY <1>3, <1>7, <1>8, <1>9 DEF Entries
  <1>11. ASSUME NEW c \in Channels
         PROVE  Matched(c)' /\ Stays(c)
    <2>1. PICK g \in Seq(Nat) : g = got[c]
      BY <1>3
    <2>2. Taking(h, g, c) \o PacketsOf(Tail(old), c) = g \o PacketsOf(old, c)
      <3>1. old # <<>>
        BY <1>2, <1>5
      <3> QED
        BY <1>6, <3>1, FirstTaken
    <2>3. got'[c] = Taking(h, g, c)
      BY <1>3, <1>8, <1>9, <1>10, <2>1 DEF Taking
    <2>4. Delivered(c)' = got'[c] \o PacketsOf(Tail(old), c)
      BY <1>4, <1>5 DEF Delivered, Waiting
    <2>5. Delivered(c) = g \o PacketsOf(old, c)
      BY <1>5, <2>1 DEF Delivered, Waiting
    <2>6. Delivered(c)' = Delivered(c)
      BY <2>2, <2>3, <2>4, <2>5
    <2>7. SentUpTo(c)' = SentUpTo(c) /\ Pend(c)' = Pend(c)
      BY <1>1 DEF AllSame, SameSent
    <2>8. Matched(c)
      BY DEF RInv
    <2> QED
      BY <1>2, <1>4, <2>6, <2>7, <2>8 DEF Matched, Stays
  <1> QED
    BY <1>4, <1>10, <1>11, <1>2 DEF RInv, Channelled

\* Every step keeps the invariant of both ends.
LEMMA NextMatch == IInv /\ RInv /\ [Next]_vars => RInv' /\ Channelled
  <1> SUFFICES ASSUME IInv, RInv, [Next]_vars
               PROVE  RInv' /\ Channelled
    OBVIOUS
  <1>1. ASSUME NEW c \in Channels, NEW size \in scenario.sizes, Send(c, size)
        PROVE  RInv' /\ Channelled
    BY <1>1, SendMatch
  <1>2. CASE SendControl
    <2>1. AllSame
      BY <1>2, SendControlKeeps
    <2>2. UNCHANGED <<given, peer, got, scenario, net, acks>>
      BY <1>2 DEF SendControl
    <2>3. \A c \in Channels : log'[c] = log[c]
      <3>1. log' = [log EXCEPT ![Control] = Append(@, [kind |-> "control"])]
        BY <1>2 DEF SendControl
      <3>2. log \in [AllChannels -> Seq(Logged)] /\ Control \notin Channels
        BY ScenarioIs DEF IInv, Types
      <3> QED
        BY <3>1, <3>2 DEF AllChannels
    <2> QED
      BY <2>1, <2>2, <2>3, SameMatch
  <1>3. CASE SendLoop
    <2>1. CASE BeginSend
      BY <2>1, BeginSendKeeps, SameMatch DEF BeginSend
    <2>2. CASE SkipCommand
      BY <2>2, SkipCommandKeeps, SameMatch DEF SkipCommand
    <2>3. CASE PutCommand
      BY <2>3, PutMatch
    <2>4. CASE EndSend
      BY <2>4, EndSendKeeps, SameMatch DEF EndSend
    <2> QED
      BY <1>3, <2>1, <2>2, <2>3, <2>4 DEF SendLoop
  <1>4. ASSUME NEW S \in SUBSET DOMAIN sent, CheckTimeouts(S)
        PROVE  RInv' /\ Channelled
    <2>1. UNCHANGED <<log, given, peer, got, scenario, net, acks>>
      BY <1>4 DEF CheckTimeouts
    <2> QED
      BY <1>4, <2>1, CheckTimeoutsKeeps, SameMatch
  <1>5. ASSUME NEW c \in AllChannels, NEW n \in DOMAIN log[c],
               Arrive(c, n) \/ ArriveAck(c, n) \/ LoseCommand(c, n) \/ LoseAck(c, n)
        PROVE  RInv' /\ Channelled
    <2>1. CASE Arrive(c, n)
      BY <2>1, ArriveMatch
    <2>2. CASE ArriveAck(c, n)
      BY <2>2, AckMatch
    <2>3. CASE LoseCommand(c, n)
      <3>1. UNCHANGED <<log, given, peer, got, scenario, acks>> /\ net' \subseteq net
        BY <2>3 DEF LoseCommand
      <3> QED
        BY <2>3, <3>1, OthersKeep, SameMatch
    <2>4. CASE LoseAck(c, n)
      <3>1. UNCHANGED <<log, given, peer, got, scenario, net>> /\ acks' \subseteq acks
        BY <2>4 DEF LoseAck
      <3> QED
        BY <2>4, <3>1, OthersKeep, SameMatch
    <2> QED
      BY <1>5, <2>1, <2>2, <2>3, <2>4
  <1>6. CASE Receive
    BY <1>6, ReceiveMatch
  <1>7. CASE UNCHANGED vars
    <2>1. UNCHANGED <<log, given, outgoing, sent, windows, used, inTransit, loop, net, acks,
                      peer, got, scenario>>
      BY <1>7 DEF vars
    <2> QED
      BY <2>1, IdleKeeps, SameMatch
  <1> QED
    BY <1>1, <1>2, <1>3, <1>4, <1>5, <1>6, <1>7 DEF Next

LEMMA BothInductive == Spec => [](IInv /\ RInv)
  <1>1. Init => IInv /\ RInv
    BY InitHolds, MatchInit
  <1>2. IInv /\ RInv /\ [Next]_vars => (IInv /\ RInv)'
    BY NextKeeps, NextMatch
  <1> QED
    BY <1>1, <1>2, PTL DEF Spec

\* What the invariant says of the two ends.
LEMMA AgreeFollows == IInv /\ RInv => EndsAgree
  <1> SUFFICES ASSUME IInv, RInv
               PROVE  EndsAgree
    OBVIOUS
  <1>1. ASSUME NEW c \in Channels
        PROVE  /\ \A n \in ReceivedUpTo(c) + 1 .. SentUpTo(c) :
                    n \in Unacknowledged(c) \/ StoredAt(c, n)
               /\ TrueWindow(SentUpTo(c)) < TrueWindow(ReceivedUpTo(c)) + FreeWindows
    <2>1. PICK u \in Nat : u = SentUpTo(c)
      BY PendIs
    <2>2. PICK R : R = LastOf(Delivered(c))
      OBVIOUS
    <2>3. ReceivedUpTo(c) = R
      BY <2>2 DEF ReceivedUpTo, LastOf
    <2>4. Match(log[c], scenario.lifetime, given[c], peer.chan[c], Delivered(c), c,
                u, Pend(c), net, acks)
      BY <2>1 DEF RInv, Matched
    <2>5. R \in Nat /\ TrueWindow(u) < TrueWindow(R) + FreeWindows
      BY <2>2, <2>4 DEF Match, Context
    <2>6. ASSUME NEW n \in R + 1 .. u
          PROVE  n \in Unacknowledged(c) \/ StoredAt(c, n)
      <3>1. n \in 1 .. u /\ ~(n <= R)
        BY <2>5
      <3>2. CASE n \in Pend(c)
        BY <3>2, PendIs
      <3>3. CASE Has(peer.chan[c].rel, log[c], R, n)
        <4>1. StoredIn(peer.chan[c].rel, log[c], n)
          BY <3>1, <3>3 DEF Has, Arrived
        <4>2. peer.chan[c].rel \in Seq(Entries)
          BY PeerFields DEF RInv
        <4>3. DOMAIN peer.chan[c].rel = 1 .. Len(peer.chan[c].rel)
          BY <4>2
        <4> QED
          BY <4>1, <4>3 DEF StoredIn, StoredAt
      <3> QED
        BY <2>2, <2>4, <3>1, <3>2, <3>3 DEF Match
    <2> QED
      BY <2>1, <2>3, <2>5, <2>6
  <1> QED
    BY <1>1 DEF EndsAgree, AcknowledgedIsHeld, NeverTooFarAhead

\* enet_protocol_handle_incoming_commands() acknowledges only what
\* enet_peer_queue_incoming_command() keeps or has delivered, so that a command which
\* enet_protocol_remove_sent_reliable_command() takes from the sender's lists is
\* never lost; and the test of windows in
\* enet_protocol_send_reliable_outgoing_commands() stops the sender before its
\* numbers look like old ones to the receiver.
THEOREM EndsAlwaysAgree == Spec => []EndsAgree
  BY BothInductive, AgreeFollows, PTL

\* What has been delivered is a prefix of what was given.
Begins(c) ==
  /\ given[c] \in Seq(Nat) /\ Delivered(c) \in Seq(Nat)
  /\ Len(Delivered(c)) <= Len(given[c])
  /\ Delivered(c) = SubSeq(given[c], 1, Len(Delivered(c)))

LEMMA BeginsFollows ==
  ASSUME RInv, NEW c \in Channels
  PROVE  Begins(c)
  <1>1. PICK R : R = LastOf(Delivered(c))
    OBVIOUS
  <1>2. PICK S : S = Ends(log[c])
    OBVIOUS
  <1>3. /\ Enumerates(given[c], S) /\ Enumerates(Delivered(c), {n \in S : n <= R}) /\ R \in Nat
    BY <1>1, <1>2 DEF RInv, Matched, Match, Context
  <1>4. /\ Len(Delivered(c)) <= Len(given[c])
        /\ Delivered(c) = SubSeq(given[c], 1, Len(Delivered(c)))
    BY <1>3, EnumeratesPrefix
  <1> QED
    BY <1>3, <1>4 DEF Begins, Enumerates

OnlyGiven == \A c \in Channels : Begins(c)

LEMMA PrefixesFollow == RInv => OnlyGiven
  BY BeginsFollows DEF OnlyGiven

\* A step keeps a channel as it was, or gives or delivers packets.
LEMMA ChannelStep ==
  ASSUME OnlyGiven, OnlyGiven', Channelled, NEW c \in Channels
  PROVE  [Channel(c)!Next]_(Channel(c)!vars)
  <1>1. Gives(c) \/ Delivers(c) \/ Stays(c)
    BY DEF Channelled
  <1>2. CASE Gives(c)
    <2>1. Channel(c)!Send
      BY <1>2 DEF Gives, Channel!Send
    <2> QED
      BY <2>1 DEF Channel!Next
  <1>3. CASE Stays(c)
    BY <1>3 DEF Stays, Channel!vars
  <1>4. CASE Delivers(c)
    <2>1. PICK z \in Seq(Nat) : Delivered(c)' = Delivered(c) \o z
      BY <1>4 DEF Delivers
    <2>2. PICK d \in Seq(Nat) : d = Delivered(c)
      BY DEF OnlyGiven, Begins
    <2>3. PICK e : e = Delivered(c)'
      OBVIOUS
    <2>4. PICK g : g = given[c]
      OBVIOUS
    <2>5. given'[c] = g /\ e = d \o z
      BY <1>4, <2>1, <2>2, <2>3, <2>4 DEF Delivers
    <2>6. Len(e) <= Len(g) /\ e = SubSeq(g, 1, Len(e))
      BY <2>3, <2>5 DEF OnlyGiven, Begins
    <2>7. Len(e) = Len(d) + Len(z) /\ Len(d) \in Nat /\ Len(z) \in Nat /\ e \in Seq(Nat)
      BY <2>2, <2>5, ConcatProperties
    <2>8. CASE z = <<>>
      <3>1. e = d
        BY <2>5, <2>8, ConcatEmptySeq
      <3> QED
        BY <2>2, <2>3, <2>4, <2>5, <3>1 DEF Channel!vars
    <2>9. CASE z # <<>>
      <3>1. Len(z) > 0
        BY <2>9, EmptySeq
      <3>2. g \in Seq(Nat) /\ Len(g) \in Nat
        BY <2>4 DEF OnlyGiven, Begins
      <3>3. Len(e) \in Len(d) + 1 .. Len(g)
        BY <2>6, <2>7, <3>1, <3>2, SMTT(30)
      <3>4. e \in {SubSeq(g, 1, k) : k \in Len(d) + 1 .. Len(g)}
        BY <2>6, <3>3
      <3>5. Channel(c)!Deliver
        BY <2>2, <2>3, <2>4, <2>5, <3>4 DEF Channel!Deliver
      <3> QED
        BY <3>5 DEF Channel!Next
    <2> QED
      BY <2>8, <2>9
  <1> QED
    BY <1>1, <1>2, <1>3, <1>4

\* ImplementsChannel in two parts.
ChannelInit == \A c \in Channels : Channel(c)!Init
ChannelNext == \A c \in Channels : [Channel(c)!Next]_(Channel(c)!vars)

LEMMA ChannelStarts == Init => ChannelInit
  <1> SUFFICES ASSUME Init, NEW c \in Channels
               PROVE  Channel(c)!Init
    BY DEF ChannelInit
  <1>1. PICK e : e = <<>>
    OBVIOUS
  <1>2. given[c] = e /\ got[c] = e /\ peer.dispatched = e
    BY <1>1 DEF Init, FreshReceiver
  <1>3. e \in Seq(Entries) /\ Len(e) = 0
    BY <1>1
  <1>4. PacketsOf(e, c) = <<>>
    <2>1. \A i \in 1 .. Len(e) : e[i].ch # c
      BY <1>3
    <2> QED
      BY <1>3, <2>1, PacketsNone
  <1>5. e \o e = e
    BY <1>1
  <1>6. Delivered(c) = e
    BY <1>1, <1>2, <1>4, <1>5 DEF Delivered, Waiting
  <1> QED
    BY <1>1, <1>2, <1>6 DEF Channel!Init

\* What enet_peer_receive() returns of a channel are the packets that were given to
\* enet_peer_send(), whole, each once, in their order and with none left out, whatever
\* the network does: every channel implements ReliableChannel.
THEOREM DeliveredAsGiven == Spec => ImplementsChannel
  <1>1. Init => ChannelInit
    BY ChannelStarts
  <1>2. OnlyGiven /\ OnlyGiven' /\ IInv /\ RInv /\ [Next]_vars => ChannelNext
    BY NextMatch, ChannelStep DEF ChannelNext
  <1>3. Spec => ChannelInit /\ [][ChannelNext]_vars
    BY <1>1, <1>2, BothInductive, PrefixesFollow, PTL DEF Spec
  <1> QED
    BY <1>3 DEF ImplementsChannel, ChannelInit, ChannelNext

================================================================================
