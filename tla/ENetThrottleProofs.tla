--------------------------- MODULE ENetThrottleProofs ---------------------------
(***************************************************************************)
(* Proofs about ENetThrottle: bandwidthLimitedPeers counts what it should, *)
(* the loops that divide the outgoing bandwidth never wrap around, and the *)
(* limits they set keep to the bandwidths, for every number of peers and   *)
(* every bandwidth.                                                        *)
(***************************************************************************)
EXTENDS ENetThrottle, FiniteSetTheorems, WellFoundedInduction, TLAPS

--------------------------------------------------------------------------------
(* Sums over the peers. *)

\* Induction on the peers, by the least number that is not in T.
LEMMA UpToInduction ==
  ASSUME NEW n \in Nat, NEW T, 0 \in T,
         \A k \in 0 .. n - 1 : k \in T => k + 1 \in T
  PROVE  n \in T
  <1> SUFFICES ASSUME n \notin T
               PROVE  FALSE
    OBVIOUS
  <1> DEFINE B == {k \in Nat : k <= n /\ k \notin T}
  <1>1. n \in B /\ B \subseteq Nat
    OBVIOUS
  <1>2. PICK m \in B : \A k \in B : ~(<<k, m>> \in OpToRel(<, Nat))
    BY <1>1, NatLessThanWellFounded, WFMin
  <1>3. m \in Nat /\ m <= n /\ m \notin T /\ m # 0
    OBVIOUS
  <1>4. m - 1 \in 0 .. n - 1
    BY <1>3
  <1>5. m - 1 \notin T
    BY <1>3, <1>4
  <1>6. m - 1 \in B
    BY <1>3, <1>4, <1>5
  <1>7. <<m - 1, m>> \in OpToRel(<, Nat)
    BY <1>3, <1>4 DEF OpToRel
  <1> QED
    BY <1>2, <1>6, <1>7

LEMMA Numbers ==
  /\ N \in Nat \ {0} /\ Word \in Nat \ {0} /\ Scale \in Nat \ {0} /\ Second \in Nat \ {0}
  /\ N < Word /\ Scale < Word /\ MaxData \in Nat /\ CommandSize \in Nat
  /\ CommandSize <= MaxData /\ MaxData < Word
  /\ \A t \in Elapsed : t \in Nat
  <1>1. N \in Nat \ {0} /\ Word \in Nat \ {0} /\ Scale \in Nat \ {0} /\ Second \in Nat \ {0}
    BY ThrottleAssumption
  <1>2. N < Word /\ Scale < Word /\ MaxData \in Nat /\ N * MaxData < Word
    BY ThrottleAssumption
  <1>3. MaxData <= N * MaxData
    BY <1>1, <1>2
  <1> QED
    BY <1>1, <1>2, <1>3, ThrottleAssumption

\* The function that Sum is defined by exists.
LEMMA SumRuns ==
  ASSUME NEW f, NEW S
  PROVE  \E u : /\ u[0] = 0 /\ Sum(f, S) = u[N]
                /\ \A k \in 0 .. N - 1 : u[k + 1] = u[k] + (IF k + 1 \in S THEN f[k + 1] ELSE 0)
  <1> DEFINE Runs(u, n) == u = [p \in 0 .. n |->
                               IF p = 0 THEN 0 ELSE u[p - 1] + (IF p \in S THEN f[p] ELSE 0)]
             T == {k \in 0 .. N : \E u : Runs(u, k)}
             A == CHOOSE u : Runs(u, N)
  <1>1. N \in Nat
    BY Numbers
  <1>2. 0 \in T
    <2>1. Runs([k \in 0 .. 0 |-> 0], 0)
      OBVIOUS
    <2> HIDE DEF Runs
    <2> QED
      BY <1>1, <2>1
  <1>3. ASSUME NEW k \in 0 .. N - 1, k \in T
        PROVE  k + 1 \in T
    <2>1. PICK u : Runs(u, k)
      BY <1>3
    <2>2. PICK v : v = [j \in 0 .. k + 1 |->
                         IF j = k + 1 THEN u[k] + (IF j \in S THEN f[j] ELSE 0) ELSE u[j]]
      OBVIOUS
    <2>3. \A j \in 0 .. k : v[j] = u[j]
      BY <1>1, <2>2
    <2>4. \A j \in 0 .. k + 1 :
            v[j] = IF j = 0 THEN 0 ELSE v[j - 1] + (IF j \in S THEN f[j] ELSE 0)
      <3> SUFFICES ASSUME NEW j \in 0 .. k + 1
                   PROVE  v[j] = IF j = 0 THEN 0 ELSE v[j - 1] + (IF j \in S THEN f[j] ELSE 0)
        OBVIOUS
      <3>1. CASE j = k + 1
        <4>1. v[j] = u[k] + (IF j \in S THEN f[j] ELSE 0) /\ j - 1 = k /\ j # 0 /\ v[k] = u[k]
          BY <1>1, <2>2, <2>3, <3>1
        <4> QED
          BY <4>1
      <3>2. CASE j # k + 1
        <4>1. j \in 0 .. k /\ (j # 0 => j - 1 \in 0 .. k)
          BY <1>1, <3>2
        <4>2. u[j] = IF j = 0 THEN 0 ELSE u[j - 1] + (IF j \in S THEN f[j] ELSE 0)
          BY <2>1, <4>1
        <4> QED
          BY <2>3, <4>1, <4>2
      <3> QED
        BY <3>1, <3>2
    <2>5. Runs(v, k + 1)
      BY <2>2, <2>4
    <2> QED
      BY <1>1, <2>5
  <1>4. N \in T
    <2> HIDE DEF T
    <2> QED
      BY <1>1, <1>2, <1>3, UpToInduction
  <1>5. Runs(A, N)
    <2>1. \E u : Runs(u, N)
      BY <1>4
    <2> HIDE DEF Runs
    <2> QED
      BY <2>1
  <1>6. Sum(f, S) = A[N]
    BY DEF Sum
  <1>7. A[0] = 0 /\ \A k \in 0 .. N - 1 : A[k + 1] = A[k] + (IF k + 1 \in S THEN f[k + 1] ELSE 0)
    <2> HIDE DEF A
    <2>1. A[0] = 0
      BY <1>1, <1>5
    <2>2. ASSUME NEW k \in 0 .. N - 1
          PROVE  A[k + 1] = A[k] + (IF k + 1 \in S THEN f[k + 1] ELSE 0)
      <3>1. k + 1 \in 0 .. N /\ k + 1 # 0 /\ k + 1 - 1 = k
        BY <1>1
      <3>2. PICK j : j = k + 1
        OBVIOUS
      <3>3. A[j] = IF j = 0 THEN 0 ELSE A[j - 1] + (IF j \in S THEN f[j] ELSE 0)
        <4>1. j \in 0 .. N
          BY <3>1, <3>2
        <4> QED
          BY <1>5, <4>1
      <3>4. j # 0 /\ j - 1 = k
        BY <3>1, <3>2
      <3> QED
        BY <3>2, <3>3, <3>4
    <2> QED
      BY <2>1, <2>2
  <1> QED
    BY <1>6, <1>7

\* u[k]: the sum over the first k peers.
Adds(f, S, u) ==
  /\ u \in [0 .. N -> Nat] /\ u[0] = 0 /\ Sum(f, S) = u[N]
  /\ \A k \in 0 .. N - 1 :
       /\ k + 1 \in Peer
       /\ k + 1 \in S => u[k + 1] = u[k] + f[k + 1]
       /\ k + 1 \notin S => u[k + 1] = u[k]

LEMMA SumParts ==
  ASSUME NEW f \in [Peer -> Nat], NEW S
  PROVE  \E u : Adds(f, S, u)
  <1>1. PICK u : /\ u[0] = 0 /\ Sum(f, S) = u[N]
                 /\ \A k \in 0 .. N - 1 : u[k + 1] = u[k] + (IF k + 1 \in S THEN f[k + 1] ELSE 0)
    BY SumRuns
  <1>2. N \in Nat
    BY Numbers
  <1>3. ASSUME NEW n \in 0 .. N
        PROVE  u[n] \in Nat
    <2>1. PICK T : T = {k \in 0 .. N : u[k] \in Nat}
      OBVIOUS
    <2>2. 0 \in T
      BY <1>1, <1>2, <2>1
    <2>3. ASSUME NEW k \in 0 .. n - 1, k \in T
          PROVE  k + 1 \in T
      <3>1. k \in 0 .. N - 1 /\ k + 1 \in Peer /\ k + 1 \in 0 .. N
        BY <1>2 DEF Peer
      <3>2. f[k + 1] \in Nat /\ u[k] \in Nat
        BY <2>1, <2>3, <3>1
      <3>3. (IF k + 1 \in S THEN f[k + 1] ELSE 0) \in Nat
        BY <3>2
      <3>4. u[k + 1] = u[k] + (IF k + 1 \in S THEN f[k + 1] ELSE 0)
        BY <1>1, <3>1
      <3> QED
        BY <2>1, <3>1, <3>2, <3>3, <3>4
    <2>4. n \in Nat
      BY <1>2
    <2>5. n \in T
      BY <2>2, <2>3, <2>4, UpToInduction
    <2> QED
      BY <2>1, <2>5
  <1>4. PICK v : v = [n \in 0 .. N |-> u[n]]
    OBVIOUS
  <1>5. v \in [0 .. N -> Nat] /\ v[0] = 0 /\ Sum(f, S) = v[N]
    BY <1>1, <1>2, <1>3, <1>4
  <1>6. ASSUME NEW k \in 0 .. N - 1
        PROVE  /\ k + 1 \in Peer
               /\ k + 1 \in S => v[k + 1] = v[k] + f[k + 1]
               /\ k + 1 \notin S => v[k + 1] = v[k]
    <2>1. k \in 0 .. N /\ k + 1 \in 0 .. N /\ k + 1 \in Peer
      BY <1>2 DEF Peer
    <2>2. v[k + 1] = u[k + 1] /\ v[k] = u[k] /\ u[k] \in Nat
      BY <1>3, <1>4, <2>1
    <2>3. u[k + 1] = u[k] + (IF k + 1 \in S THEN f[k + 1] ELSE 0)
      BY <1>1
    <2>4. f[k + 1] \in Nat
      BY <2>1
    <2> QED
      BY <2>1, <2>2, <2>3, <2>4
  <1> QED
    BY <1>5, <1>6 DEF Adds

LEMMA AddsStep ==
  ASSUME NEW f \in [Peer -> Nat], NEW S, NEW u, Adds(f, S, u), NEW k \in 0 .. N - 1
  PROVE  /\ k + 1 \in Peer /\ k + 1 \in 0 .. N /\ k \in Nat
         /\ u[k] \in Nat /\ u[k + 1] \in Nat /\ f[k + 1] \in Nat
         /\ k + 1 \in S => u[k + 1] = u[k] + f[k + 1]
         /\ k + 1 \notin S => u[k + 1] = u[k]
  <1>1. k \in Nat /\ k \in 0 .. N /\ k + 1 \in 0 .. N /\ k + 1 \in Peer
    BY Numbers DEF Peer
  <1>2. u[k] \in Nat /\ u[k + 1] \in Nat /\ f[k + 1] \in Nat
    BY <1>1 DEF Adds
  <1>3. /\ k + 1 \in S => u[k + 1] = u[k] + f[k + 1]
        /\ k + 1 \notin S => u[k + 1] = u[k]
    BY DEF Adds
  <1> QED
    BY <1>1, <1>2, <1>3

LEMMA AddsEnds ==
  ASSUME NEW f \in [Peer -> Nat], NEW S, NEW u, Adds(f, S, u)
  PROVE  N \in Nat /\ u[0] = 0 /\ Sum(f, S) = u[N] /\ u[N] \in Nat
  <1>1. N \in Nat /\ N \in 0 .. N
    BY Numbers
  <1> QED
    BY <1>1 DEF Adds

LEMMA SumType ==
  ASSUME NEW f \in [Peer -> Nat], NEW S
  PROVE  Sum(f, S) \in Nat
  BY SumParts, AddsEnds

LEMMA SumEmpty ==
  ASSUME NEW f \in [Peer -> Nat], NEW S, S = {}
  PROVE  Sum(f, S) = 0
  <1>1. PICK u : Adds(f, S, u)
    BY SumParts
  <1>2. PICK T : T = {k \in 0 .. N : u[k] = 0}
    OBVIOUS
  <1>3. N \in Nat /\ u[0] = 0 /\ Sum(f, S) = u[N]
    BY <1>1, AddsEnds
  <1>4. ASSUME NEW k \in 0 .. N - 1, k \in T
        PROVE  k + 1 \in T
    <2>1. u[k + 1] = u[k] /\ k + 1 \in 0 .. N
      BY <1>1, AddsStep
    <2> QED
      BY <1>2, <1>4, <2>1
  <1>5. N \in T
    BY <1>2, <1>3, <1>4, UpToInduction
  <1> QED
    BY <1>2, <1>3, <1>5

\* One peer's part of the sum.
LEMMA SumTake ==
  ASSUME NEW f \in [Peer -> Nat], NEW S, NEW p \in Peer, p \in S
  PROVE  Sum(f, S) = f[p] + Sum(f, S \ {p})
  <1>1. PICK u : Adds(f, S, u)
    BY SumParts
  <1>2. PICK R : R = S \ {p}
    OBVIOUS
  <1>3. PICK v : Adds(f, R, v)
    BY SumParts
  <1>4. /\ N \in Nat /\ u[0] = 0 /\ Sum(f, S) = u[N]
        /\ v[0] = 0 /\ Sum(f, R) = v[N] /\ v[N] \in Nat /\ u[N] \in Nat
    BY <1>1, <1>3, AddsEnds
  <1>5. PICK d \in Nat : d = f[p]
    OBVIOUS
  <1>6. p \in 1 .. N
    BY DEF Peer
  <1>7. PICK T : T = {k \in 0 .. N : (k < p => u[k] = v[k]) /\ (k >= p => u[k] = v[k] + d)}
    OBVIOUS
  <1>8. 0 \in T
    BY <1>4, <1>6, <1>7
  <1>9. ASSUME NEW k \in 0 .. N - 1, k \in T
        PROVE  k + 1 \in T
    <2>1. /\ k + 1 \in Peer /\ k + 1 \in 0 .. N /\ k \in Nat
          /\ u[k] \in Nat /\ u[k + 1] \in Nat /\ f[k + 1] \in Nat
          /\ k + 1 \in S => u[k + 1] = u[k] + f[k + 1]
          /\ k + 1 \notin S => u[k + 1] = u[k]
      BY <1>1, AddsStep
    <2>2. /\ v[k] \in Nat /\ v[k + 1] \in Nat
          /\ k + 1 \in R => v[k + 1] = v[k] + f[k + 1]
          /\ k + 1 \notin R => v[k + 1] = v[k]
      BY <1>3, AddsStep
    <2>3. PICK a \in Nat, b \in Nat, c \in Nat : a = u[k] /\ b = v[k] /\ c = f[k + 1]
      BY <2>1, <2>2
    <2>4. (k < p => a = b) /\ (k >= p => a = b + d)
      BY <1>7, <1>9, <2>3
    <2>5. CASE k + 1 = p
      <3>1. u[k + 1] = a + d /\ v[k + 1] = b
        BY <1>2, <1>5, <2>1, <2>2, <2>3, <2>5
      <3>2. k < p /\ ~(k + 1 < p)
        BY <1>6, <2>1, <2>5
      <3> QED
        BY <1>7, <2>1, <2>4, <3>1, <3>2
    <2>6. CASE k + 1 # p
      <3>1. \/ u[k + 1] = a + c /\ v[k + 1] = b + c
            \/ u[k + 1] = a /\ v[k + 1] = b
        <4>1. k + 1 \in R <=> k + 1 \in S
          BY <1>2, <2>6
        <4>2. CASE k + 1 \in S
          BY <2>1, <2>2, <2>3, <4>1, <4>2
        <4>3. CASE k + 1 \notin S
          BY <2>1, <2>2, <2>3, <4>1, <4>3
        <4> QED
          BY <4>2, <4>3
      <3>2. (k + 1 < p => k < p) /\ (k + 1 >= p => k >= p)
        BY <1>6, <2>1, <2>6
      <3>3. (k + 1 < p => u[k + 1] = v[k + 1]) /\ (k + 1 >= p => u[k + 1] = v[k + 1] + d)
        BY <2>4, <3>1, <3>2
      <3> QED
        BY <1>7, <2>1, <3>3
    <2> QED
      BY <2>5, <2>6
  <1>10. N \in T
    BY <1>4, <1>8, <1>9, UpToInduction
  <1>11. u[N] = v[N] + d
    BY <1>6, <1>7, <1>10
  <1> QED
    BY <1>2, <1>4, <1>5, <1>11

\* Less for each peer, over fewer peers.
LEMMA SumLeast ==
  ASSUME NEW f \in [Peer -> Nat], NEW g \in [Peer -> Nat], NEW S, NEW T,
         \A p \in Peer : p \in S => p \in T /\ f[p] <= g[p]
  PROVE  Sum(f, S) <= Sum(g, T)
  <1>1. PICK u : Adds(f, S, u)
    BY SumParts
  <1>2. PICK v : Adds(g, T, v)
    BY SumParts
  <1>3. N \in Nat /\ u[0] = 0 /\ Sum(f, S) = u[N] /\ v[0] = 0 /\ Sum(g, T) = v[N]
    BY <1>1, <1>2, AddsEnds
  <1>4. PICK R : R = {k \in 0 .. N : u[k] <= v[k]}
    OBVIOUS
  <1>5. 0 \in R
    BY <1>3, <1>4
  <1>6. ASSUME NEW k \in 0 .. N - 1, k \in R
        PROVE  k + 1 \in R
    <2>1. /\ k + 1 \in Peer /\ k + 1 \in 0 .. N
          /\ u[k] \in Nat /\ u[k + 1] \in Nat /\ f[k + 1] \in Nat
          /\ k + 1 \in S => u[k + 1] = u[k] + f[k + 1]
          /\ k + 1 \notin S => u[k + 1] = u[k]
      BY <1>1, AddsStep
    <2>2. /\ v[k] \in Nat /\ v[k + 1] \in Nat /\ g[k + 1] \in Nat
          /\ k + 1 \in T => v[k + 1] = v[k] + g[k + 1]
          /\ k + 1 \notin T => v[k + 1] = v[k]
      BY <1>2, AddsStep
    <2>3. PICK a \in Nat, b \in Nat, c \in Nat, d \in Nat :
            a = u[k] /\ b = v[k] /\ c = f[k + 1] /\ d = g[k + 1]
      BY <2>1, <2>2
    <2>4. a <= b
      BY <1>4, <1>6, <2>3
    <2>5. \/ u[k + 1] = a + c /\ v[k + 1] = b + d /\ c <= d
          \/ u[k + 1] = a /\ (v[k + 1] = b + d \/ v[k + 1] = b)
      BY <2>1, <2>2, <2>3
    <2>6. u[k + 1] <= v[k + 1]
      BY <2>4, <2>5
    <2> QED
      BY <1>4, <2>1, <2>6
  <1>7. N \in R
    BY <1>3, <1>5, <1>6, UpToInduction
  <1> QED
    BY <1>3, <1>4, <1>7

LEMMA SumSame ==
  ASSUME NEW f \in [Peer -> Nat], NEW g \in [Peer -> Nat], NEW S,
         \A p \in Peer : p \in S => f[p] = g[p]
  PROVE  Sum(f, S) = Sum(g, S)
  <1>1. \A p \in Peer : p \in S => f[p] <= g[p] /\ g[p] <= f[p]
    OBVIOUS
  <1>2. Sum(f, S) <= Sum(g, S) /\ Sum(g, S) <= Sum(f, S)
    BY <1>1, SumLeast
  <1>3. Sum(f, S) \in Nat /\ Sum(g, S) \in Nat
    BY SumType
  <1> QED
    BY <1>2, <1>3

\* A sum over two parts.
LEMMA SumSplit ==
  ASSUME NEW f \in [Peer -> Nat], NEW S, NEW A, NEW B,
         \A p \in Peer : p \in S <=> p \in A \/ p \in B,
         \A p \in Peer : ~(p \in A /\ p \in B)
  PROVE  Sum(f, S) = Sum(f, A) + Sum(f, B)
  <1>1. PICK u : Adds(f, S, u)
    BY SumParts
  <1>2. PICK v : Adds(f, A, v)
    BY SumParts
  <1>3. PICK w : Adds(f, B, w)
    BY SumParts
  <1>4. /\ N \in Nat /\ u[0] = 0 /\ Sum(f, S) = u[N] /\ v[0] = 0 /\ Sum(f, A) = v[N]
        /\ w[0] = 0 /\ Sum(f, B) = w[N]
    BY <1>1, <1>2, <1>3, AddsEnds
  <1>5. PICK T : T = {k \in 0 .. N : u[k] = v[k] + w[k]}
    OBVIOUS
  <1>6. 0 \in T
    BY <1>4, <1>5
  <1>7. ASSUME NEW k \in 0 .. N - 1, k \in T
        PROVE  k + 1 \in T
    <2>1. /\ k + 1 \in Peer /\ k + 1 \in 0 .. N /\ u[k] \in Nat /\ f[k + 1] \in Nat
          /\ k + 1 \in S => u[k + 1] = u[k] + f[k + 1]
          /\ k + 1 \notin S => u[k + 1] = u[k]
      BY <1>1, AddsStep
    <2>2. /\ v[k] \in Nat
          /\ k + 1 \in A => v[k + 1] = v[k] + f[k + 1]
          /\ k + 1 \notin A => v[k + 1] = v[k]
      BY <1>2, AddsStep
    <2>3. /\ w[k] \in Nat
          /\ k + 1 \in B => w[k + 1] = w[k] + f[k + 1]
          /\ k + 1 \notin B => w[k + 1] = w[k]
      BY <1>3, AddsStep
    <2>4. PICK a \in Nat, b \in Nat, c \in Nat, d \in Nat :
            a = u[k] /\ b = v[k] /\ c = w[k] /\ d = f[k + 1]
      BY <2>1, <2>2, <2>3
    <2>5. a = b + c
      BY <1>5, <1>7, <2>4
    <2>6. \/ u[k + 1] = a + d /\ v[k + 1] = b + d /\ w[k + 1] = c
          \/ u[k + 1] = a + d /\ v[k + 1] = b /\ w[k + 1] = c + d
          \/ u[k + 1] = a /\ v[k + 1] = b /\ w[k + 1] = c
      BY <2>1, <2>2, <2>3, <2>4
    <2>7. a + d = (b + d) + c /\ a + d = b + (c + d)
      BY <2>5
    <2>8. u[k + 1] = v[k + 1] + w[k + 1]
      BY <2>5, <2>6, <2>7
    <2> QED
      BY <1>5, <2>1, <2>8
  <1>8. N \in T
    BY <1>4, <1>6, <1>7, UpToInduction
  <1> QED
    BY <1>4, <1>5, <1>8

LEMMA SumScaled ==
  ASSUME NEW f \in [Peer -> Nat], NEW g \in [Peer -> Nat], NEW S, NEW c \in Nat,
         \A p \in Peer : p \in S => g[p] = c * f[p]
  PROVE  Sum(g, S) = c * Sum(f, S)
  <1>1. PICK u : Adds(g, S, u)
    BY SumParts
  <1>2. PICK v : Adds(f, S, v)
    BY SumParts
  <1>3. N \in Nat /\ u[0] = 0 /\ Sum(g, S) = u[N] /\ v[0] = 0 /\ Sum(f, S) = v[N]
    BY <1>1, <1>2, AddsEnds
  <1>4. PICK T : T = {k \in 0 .. N : u[k] = c * v[k]}
    OBVIOUS
  <1>5. 0 \in T
    BY <1>3, <1>4
  <1>6. ASSUME NEW k \in 0 .. N - 1, k \in T
        PROVE  k + 1 \in T
    <2>1. /\ k + 1 \in Peer /\ k + 1 \in 0 .. N
          /\ k + 1 \in S => u[k + 1] = u[k] + g[k + 1]
          /\ k + 1 \notin S => u[k + 1] = u[k]
      BY <1>1, AddsStep
    <2>2. /\ v[k] \in Nat /\ f[k + 1] \in Nat
          /\ k + 1 \in S => v[k + 1] = v[k] + f[k + 1]
          /\ k + 1 \notin S => v[k + 1] = v[k]
      BY <1>2, AddsStep
    <2>3. PICK b \in Nat, d \in Nat : b = v[k] /\ d = f[k + 1]
      BY <2>2
    <2>4. u[k] = c * b
      BY <1>4, <1>6, <2>3
    <2>5. \/ u[k + 1] = c * b + c * d /\ v[k + 1] = b + d
          \/ u[k + 1] = c * b /\ v[k + 1] = b
      BY <2>1, <2>2, <2>3, <2>4
    <2>6. c * (b + d) = c * b + c * d
      OBVIOUS
    <2>7. u[k + 1] = c * v[k + 1]
      BY <2>5, <2>6
    <2> QED
      BY <1>4, <2>1, <2>7
  <1>7. N \in T
    BY <1>3, <1>5, <1>6, UpToInduction
  <1> QED
    BY <1>3, <1>4, <1>7

LEMMA SumBound ==
  ASSUME NEW f \in [Peer -> Nat], NEW S, NEW c \in Nat, \A p \in Peer : f[p] <= c
  PROVE  Sum(f, S) <= N * c
  <1>1. PICK u : Adds(f, S, u)
    BY SumParts
  <1>2. N \in Nat /\ u[0] = 0 /\ Sum(f, S) = u[N]
    BY <1>1, AddsEnds
  <1>3. PICK T : T = {k \in 0 .. N : u[k] <= k * c}
    OBVIOUS
  <1>4. 0 \in T
    BY <1>2, <1>3
  <1>5. ASSUME NEW k \in 0 .. N - 1, k \in T
        PROVE  k + 1 \in T
    <2>1. /\ k + 1 \in Peer /\ k + 1 \in 0 .. N /\ k \in Nat
          /\ u[k] \in Nat /\ u[k + 1] \in Nat /\ f[k + 1] \in Nat
          /\ k + 1 \in S => u[k + 1] = u[k] + f[k + 1]
          /\ k + 1 \notin S => u[k + 1] = u[k]
      BY <1>1, AddsStep
    <2>2. PICK a \in Nat, d \in Nat : a = u[k] /\ d = f[k + 1]
      BY <2>1
    <2>3. a <= k * c /\ d <= c
      BY <1>3, <1>5, <2>1, <2>2
    <2>4. u[k + 1] = a + d \/ u[k + 1] = a
      BY <2>1, <2>2
    <2>5. (k + 1) * c = k * c + c /\ k * c \in Nat
      BY <2>1
    <2>6. u[k + 1] <= (k + 1) * c
      BY <2>3, <2>4, <2>5
    <2> QED
      BY <1>3, <2>1, <2>6
  <1>6. N \in T
    BY <1>2, <1>4, <1>5, UpToInduction
  <1> QED
    BY <1>2, <1>3, <1>6

\* One peer's part is no more than the sum.
LEMMA SumPart ==
  ASSUME NEW f \in [Peer -> Nat], NEW S, NEW p \in Peer, p \in S
  PROVE  /\ f[p] <= Sum(f, S) /\ f[p] \in Nat /\ Sum(f, S) \in Nat
         /\ Sum(f, S \ {p}) = Sum(f, S) - f[p]
  <1>1. Sum(f, S) = f[p] + Sum(f, S \ {p})
    BY SumTake
  <1>2. Sum(f, S) \in Nat /\ Sum(f, S \ {p}) \in Nat /\ f[p] \in Nat
    BY SumType
  <1> QED
    BY <1>1, <1>2

--------------------------------------------------------------------------------
(* Arithmetic of enet_uint32, and the divisions. *)

LEMMA Products ==
  ASSUME NEW a \in Nat, NEW b \in Nat, NEW c \in Nat
  PROVE  /\ a * b \in Nat /\ a * b = b * a /\ (a + b) * c = a * c + b * c
         /\ a <= b => a * c <= b * c /\ c * a <= c * b
         /\ a <= b => (b - a) * c = b * c - a * c
  <1>1. a * b \in Nat /\ a * b = b * a /\ (a + b) * c = a * c + b * c
    OBVIOUS
  <1>2. a <= b => a * c <= b * c /\ c * a <= c * b
    OBVIOUS
  <1>3. a <= b => (b - a) * c = b * c - a * c
    OBVIOUS
  <1> QED
    BY <1>1, <1>2, <1>3

LEMMA Quotients ==
  ASSUME NEW a \in Nat, NEW d \in Nat \ {0}
  PROVE  /\ a \div d \in Nat /\ (a \div d) * d <= a /\ a < (a \div d + 1) * d
         /\ a % d \in Nat /\ a % d < d /\ a % d <= a /\ (a < d => a % d = a)
  <1>1. a \div d \in Nat /\ (a \div d) * d <= a /\ a < (a \div d + 1) * d
    OBVIOUS
  <1>2. a % d \in Nat /\ a % d < d
    OBVIOUS
  <1>3. a % d <= a
    OBVIOUS
  <1>4. a < d => a % d = a
    OBVIOUS
  <1> QED
    BY <1>1, <1>2, <1>3, <1>4

LEMMA QuotientsGrow ==
  ASSUME NEW a \in Nat, NEW b \in Nat, NEW d \in Nat \ {0}, a <= b
  PROVE  a \div d <= b \div d
  OBVIOUS

LEMMA TimesType ==
  ASSUME NEW a \in Nat, NEW b \in Nat
  PROVE  /\ Times(a, b) \in Words /\ Times(a, b) \in Nat /\ a * b \in Nat
         /\ Times(a, b) <= a * b /\ (a * b < Word => Times(a, b) = a * b)
  <1>1. PICK c \in Nat : c = a * b
    OBVIOUS
  <1>2. c % Word \in Nat /\ c % Word < Word /\ c % Word <= c /\ (c < Word => c % Word = c)
    BY Quotients, Numbers
  <1>3. Times(a, b) = c % Word
    BY <1>1 DEF Times
  <1> QED
    BY <1>1, <1>2, <1>3, Numbers DEF Words

LEMMA MinusType ==
  ASSUME NEW a \in Words, NEW b \in Nat
  PROVE  Minus(a, b) \in Words /\ (b <= a => Minus(a, b) = a - b)
  <1>1. Word \in Nat \ {0}
    BY Numbers
  <1>2. Minus(a, b) \in Words
    BY <1>1 DEF Minus, Words
  <1>3. ASSUME b <= a PROVE Minus(a, b) = a - b
    <2>1. PICK c \in Nat : c = a - b
      BY <1>1, <1>3 DEF Words
    <2>2. c < Word
      BY <1>1, <2>1 DEF Words
    <2> QED
      BY <1>1, <2>1, <2>2, Quotients DEF Minus
  <1> QED
    BY <1>2, <1>3

LEMMA ShareType ==
  ASSUME NEW bw \in Nat, NEW t \in Nat
  PROVE  Share(bw, t) \in Words /\ Share(bw, t) \in Nat /\ Share(bw, t) <= (bw * t) \div Second
  <1>1. PICK a \in Nat : a = Times(bw, t) /\ a <= bw * t /\ a \in Words
    BY TimesType
  <1>2. bw * t \in Nat /\ Second \in Nat \ {0}
    BY Numbers
  <1>3. a \div Second <= (bw * t) \div Second /\ a \div Second \in Nat
    BY <1>1, <1>2, QuotientsGrow, Quotients
  <1>4. a \div Second <= a
    <2>1. PICK q \in Nat : q = a \div Second
      BY <1>3
    <2>2. q * Second <= a
      BY <1>2, <2>1, Quotients
    <2>3. q <= q * Second /\ q * Second \in Nat
      BY <1>2
    <2> QED
      BY <1>1, <2>1, <2>2, <2>3
  <1>5. Share(bw, t) = a \div Second
    BY <1>1 DEF Share
  <1> QED
    BY <1>1, <1>3, <1>4, <1>5, Numbers DEF Words

LEMMA LeastType ==
  ASSUME NEW a \in Int, NEW b \in Int
  PROVE  /\ Least(a, b) \in {a, b} /\ Least(a, b) <= a /\ Least(a, b) <= b
         /\ Greatest(a, b) \in {a, b} /\ a <= Greatest(a, b) /\ b <= Greatest(a, b)
  BY DEF Least, Greatest

\* What a share of the bandwidth per byte of the total amounts to.
LEMMA PerByte ==
  ASSUME NEW b \in Nat, NEW n \in Nat \ {0}, b < n
  PROVE  /\ Times(b, Scale) \div n \in 0 .. Scale
         /\ (Times(b, Scale) \div n) * n <= Scale * b
  <1>1. PICK c \in Nat, d \in Nat : c = Times(b, Scale) /\ d = b * Scale /\ c <= d
    BY TimesType, Numbers
  <1>2. PICK q \in Nat : q = c \div n /\ q * n <= c
    BY <1>1, Quotients
  <1>3. d = Scale * b
    BY <1>1, Products, Numbers
  <1>4. q <= Scale
    <2> SUFFICES ASSUME q > Scale PROVE FALSE
      BY <1>2, Numbers
    <2>1. Scale * n <= q * n /\ Scale * n \in Nat
      BY Products, Numbers
    <2>2. Scale * b < Scale * n
      <3>1. b + 1 <= n /\ b + 1 \in Nat
        OBVIOUS
      <3>2. Scale * (b + 1) <= Scale * n
        BY <3>1, Products, Numbers
      <3>3. Scale * (b + 1) = Scale * b + Scale
        BY Numbers
      <3>4. Scale * b \in Nat /\ Scale \in Nat \ {0}
        BY Numbers
      <3> QED
        BY <2>1, <3>2, <3>3, <3>4
    <2>3. q * n \in Nat /\ Scale * b \in Nat
      BY Numbers
    <2> QED
      BY <1>1, <1>2, <1>3, <2>1, <2>2, <2>3
  <1>5. q * n <= Scale * b
    <2>1. q * n \in Nat
      OBVIOUS
    <2> QED
      BY <1>1, <1>2, <1>3, <2>1
  <1> QED
    BY <1>1, <1>2, <1>4, <1>5, Numbers

--------------------------------------------------------------------------------
(* The inductive invariant. *)

\* The local variables of enet_host_bandwidth_throttle().
Run ==
  [at : {"idle", "rounds", "adjust", "others", "recalc", "shares", "share", "tell"},
   peer : 1 .. N + 1, elapsed : Nat, remaining : Words, total : Words, bandwidth : Words,
   ratio : Words, adjust : BOOLEAN, marked : SUBSET Peer, demand : [Peer -> 0 .. MaxData]]

Types == TypeOK /\ scenario \in Scenarios /\ run \in Run

\* The peers that were not adjusted yet.
Left == UpPeers \ run.marked

\* While the outgoing bandwidth is divided, and while the peers are adjusted to a ratio:
\* the ratio of what the others have queued fits into what is left of the bandwidth.
Sharing == {"rounds", "adjust", "others"}
Divided == run.at \in Sharing => run.marked \subseteq UpPeers /\ \A p \in run.marked : data[p] = 0
Dividing ==
  run.at = "adjust" =>
    /\ run.peer \in Peer /\ run.ratio <= Scale
    /\ HostOut # 0 => run.ratio * Sum(data, Left) <= Scale * run.bandwidth

\* Afterwards nothing is counted as queued.
Settled == run.at \in {"recalc", "shares", "share", "tell"} => \A p \in UpPeers : data[p] = 0
Shared == run.at = "share" => run.peer \in Peer

IInv ==
  /\ Types /\ ThrottleInLimit /\ LimitedCount /\ LeftOver
  /\ Divided /\ Dividing /\ Settled /\ Shared

LEMMA RatioType ==
  ASSUME Types
  PROVE  /\ Ratio \in 0 .. Scale /\ Ratio \in Words
         /\ Ratio * run.total <= Scale * run.bandwidth
  <1>1. run.total \in Nat /\ run.bandwidth \in Nat
    BY DEF Types, Run, Words
  <1>2. PICK n \in Nat, b \in Nat : n = run.total /\ b = run.bandwidth
    BY <1>1
  <1>3. CASE n <= b
    <2>1. Ratio = Scale
      BY <1>2, <1>3 DEF Ratio
    <2>2. Scale * n <= Scale * b
      BY <1>3, Products, Numbers
    <2> QED
      BY <1>2, <2>1, <2>2, Numbers DEF Words
  <1>4. CASE b < n
    <2>1. Ratio = Times(b, Scale) \div n
      BY <1>2, <1>4 DEF Ratio
    <2>2. n \in Nat \ {0}
      BY <1>4
    <2>3. Ratio \in 0 .. Scale /\ Ratio * n <= Scale * b
      BY <1>4, <2>1, <2>2, PerByte
    <2> QED
      BY <1>2, <2>3, Numbers DEF Words
  <1> QED
    BY <1>3, <1>4

\* What a peer can take, if it is less than the ratio would give it.
LEMMA Taken ==
  ASSUME Types, NEW p \in Peer, run.ratio <= Scale, Exceeds(p)
  PROVE  /\ Share(inBw[p], run.elapsed) \in Nat
         /\ Share(inBw[p], run.elapsed) < data[p]
         /\ Scale * Share(inBw[p], run.elapsed) <= run.ratio * data[p]
         /\ OwnLimit(p) \in 1 .. Scale
         /\ OwnLimit(p) = 1 \/ OwnLimit(p) * data[p] <= Scale * Share(inBw[p], run.elapsed)
  <1>1. PICK s \in Nat : s = Share(inBw[p], run.elapsed)
    <2>1. inBw[p] \in Nat /\ run.elapsed \in Nat
      BY DEF Types, TypeOK, Run, Words
    <2> QED
      BY <2>1, ShareType
  <1>2. PICK r \in Nat, d \in Nat : r = run.ratio /\ d = data[p] /\ d <= MaxData /\ r <= Scale
    BY Numbers DEF Types, TypeOK, Run, Words
  <1>3. PICK a \in Nat : a = r * d
    OBVIOUS
  <1>4. a <= Scale * d /\ Scale * d \in Nat
    BY <1>2, <1>3, Products, Numbers
  <1>5. a \div Scale > s
    <2>1. PICK b \in Nat : b = Times(r, d) /\ b <= a
      BY <1>3, TimesType
    <2>2. b \div Scale > s
      BY <1>1, <1>2, <2>1 DEF Exceeds
    <2>3. b \div Scale <= a \div Scale /\ b \div Scale \in Nat /\ a \div Scale \in Nat
      BY <2>1, QuotientsGrow, Quotients, Numbers
    <2> QED
      BY <2>2, <2>3
  <1>6. Scale * s + Scale <= a /\ Scale * s \in Nat
    <2>1. PICK q \in Nat : q = a \div Scale /\ q * Scale <= a /\ s + 1 <= q
      BY <1>5, Quotients, Numbers
    <2>2. (s + 1) * Scale <= q * Scale
      BY <2>1, Products, Numbers
    <2>3. (s + 1) * Scale = Scale * s + Scale /\ q * Scale \in Nat /\ Scale * s \in Nat
      BY Numbers
    <2> QED
      BY <2>1, <2>2, <2>3, Numbers
  <1>7. s < d
    <2> SUFFICES ASSUME d <= s PROVE FALSE
      OBVIOUS
    <2>1. Scale * d <= Scale * s
      BY Products, Numbers
    <2> QED
      BY <1>4, <1>6, <2>1, Numbers
  <1>8. PICK l \in Nat : l = Times(s, Scale) \div d /\ l \in 0 .. Scale /\ l * d <= Scale * s
    <2>1. d \in Nat \ {0}
      BY <1>7
    <2> QED
      BY <1>7, <2>1, PerByte, Numbers
  <1>9. OwnLimit(p) = IF l = 0 THEN 1 ELSE l
    BY <1>1, <1>2, <1>8 DEF OwnLimit
  <1>10. Scale * s <= a
    BY <1>3, <1>6, Numbers
  <1> QED
    BY <1>1, <1>2, <1>3, <1>7, <1>8, <1>9, <1>10, Numbers

--------------------------------------------------------------------------------
(* Types and counts. *)

LEMMA PeersCounted ==
  ASSUME NEW S \in SUBSET Peer
  PROVE  IsFiniteSet(S) /\ Cardinality(S) \in Nat /\ Cardinality(S) <= N
  <1>1. N \in Nat
    BY Numbers
  <1>2. IsFiniteSet(Peer) /\ Cardinality(Peer) = N
    BY <1>1, FS_Interval DEF Peer
  <1>3. IsFiniteSet(S) /\ Cardinality(S) <= Cardinality(Peer)
    BY <1>2, FS_Subset
  <1> QED
    BY <1>2, <1>3, FS_CardinalityType

LEMMA OnePeerMore ==
  ASSUME NEW S \in SUBSET Peer, NEW p \in Peer, p \notin S
  PROVE  Cardinality(S \cup {p}) = Cardinality(S) + 1
  <1>1. IsFiniteSet(S)
    BY PeersCounted
  <1> QED
    BY <1>1, FS_AddElement

LEMMA OnePeerLess ==
  ASSUME NEW S \in SUBSET Peer, NEW p \in Peer, p \in S
  PROVE  Cardinality(S \ {p}) = Cardinality(S) - 1 /\ Cardinality(S) >= 1
  <1>1. IsFiniteSet(S) /\ S \ {p} \in SUBSET Peer
    BY PeersCounted
  <1>2. Cardinality(S \ {p}) = Cardinality(S) - 1
    BY <1>1, FS_RemoveElement
  <1>3. Cardinality(S \ {p}) \in Nat /\ Cardinality(S) \in Nat
    BY <1>1, PeersCounted
  <1> QED
    BY <1>2, <1>3

LEMMA ScenarioTypes ==
  ASSUME scenario \in Scenarios
  PROVE  /\ HostIn \in Words /\ HostOut \in Words /\ scenario.rate \in Words
         /\ scenario.theirIn \subseteq Words /\ scenario.theirOut \subseteq Words
         /\ scenario.rates \subseteq Words /\ scenario.sizes \subseteq 1 .. MaxData
         /\ 1 .. scenario.peers \subseteq Peer
  <1>1. scenario \in Scenario
    BY ThrottleAssumption
  <1>2. scenario.peers \in 1 .. N
    BY <1>1 DEF Scenario
  <1>3. 1 .. scenario.peers \subseteq Peer
    BY <1>2, Numbers DEF Peer
  <1> QED
    BY <1>1, <1>3 DEF Scenario, Words, HostIn, HostOut

LEMMA WindowType ==
  ASSUME scenario \in Scenarios, NEW in \in Words
  PROVE  WindowSize(in) \in MinWindow .. MaxWindow /\ MinWindow \in MinWindow .. MaxWindow
  <1>1. /\ MinWindow \in Nat /\ MaxWindow \in Nat /\ MinWindow <= MaxWindow
        /\ WindowScale \in Nat \ {0}
    BY ThrottleAssumption
  <1>2. PICK bw \in Nat :
          bw = IF in = 0 \/ HostOut = 0 THEN Greatest(in, HostOut) ELSE Least(in, HostOut)
    <2>1. in \in Nat /\ HostOut \in Nat
      BY ScenarioTypes DEF Words
    <2> QED
      BY <2>1 DEF Greatest, Least
  <1>3. PICK w \in Nat : w = (bw \div WindowScale) * MinWindow
    <2>1. bw \div WindowScale \in Nat
      BY <1>1, Quotients
    <2> QED
      BY <1>1, <2>1
  <1>4. WindowSize(in) = IF bw = 0 THEN MaxWindow ELSE Least(Greatest(w, MinWindow), MaxWindow)
    BY <1>2, <1>3 DEF WindowSize
  <1> QED
    BY <1>1, <1>4 DEF Least, Greatest

\* The same for each peer of S.
LEMMA SumConst ==
  ASSUME NEW f \in [Peer -> Nat], NEW S \in SUBSET Peer, NEW c \in Nat, \A p \in S : f[p] = c
  PROVE  Sum(f, S) = c * Cardinality(S)
  <1>1. PICK u : Adds(f, S, u)
    BY SumParts
  <1>2. N \in Nat /\ u[0] = 0 /\ Sum(f, S) = u[N]
    BY <1>1, AddsEnds
  <1>3. PICK T : T = {k \in 0 .. N : u[k] = c * Cardinality({p \in S : p <= k})}
    OBVIOUS
  <1>4. \A p \in S : p \in Nat /\ p # 0 /\ 1 <= p /\ p <= N
    <2>1. ASSUME NEW p \in S
          PROVE  p \in Nat /\ p # 0 /\ 1 <= p /\ p <= N
      <3>1. p \in 1 .. N
        BY <2>1 DEF Peer
      <3> QED
        BY <1>2, <3>1
    <2> QED
      BY <2>1
  <1>5. 0 \in T
    <2>1. {p \in S : p <= 0} = {}
      <3>1. \A p \in S : ~(p <= 0)
        BY <1>4
      <3> QED
        BY <3>1, Zenon
    <2>2. Cardinality({p \in S : p <= 0}) = 0
      BY <2>1, FS_EmptySet
    <2>3. c * 0 = 0
      OBVIOUS
    <2> QED
      BY <1>2, <1>3, <2>2, <2>3
  <1>6. ASSUME NEW k \in 0 .. N - 1, k \in T
        PROVE  k + 1 \in T
    <2>1. /\ k + 1 \in Peer /\ k + 1 \in 0 .. N /\ k \in Nat
          /\ k + 1 \in S => u[k + 1] = u[k] + f[k + 1]
          /\ k + 1 \notin S => u[k + 1] = u[k]
      BY <1>1, AddsStep
    <2>2. PICK A, B : A = {p \in S : p <= k} /\ B = {p \in S : p <= k + 1}
      OBVIOUS
    <2>3. A \in SUBSET Peer /\ k + 1 \notin A
      BY <2>1, <2>2
    <2>4. PICK n \in Nat : n = Cardinality(A)
      BY <2>3, PeersCounted
    <2>5. u[k] = c * n
      BY <1>3, <1>6, <2>2, <2>4
    <2>6. CASE k + 1 \in S
      <3>1. \A p \in S : p <= k + 1 <=> p <= k \/ p = k + 1
        BY <1>4, <2>1
      <3>2. k + 1 <= k + 1
        BY <2>1
      <3>3. B = A \cup {k + 1}
        BY <2>2, <2>6, <3>1, <3>2, Zenon
      <3>4. Cardinality(B) = n + 1
        BY <2>1, <2>3, <2>4, <3>3, OnePeerMore
      <3>5. c * (n + 1) = c * n + c
        OBVIOUS
      <3>6. u[k + 1] = c * n + c
        BY <2>1, <2>5, <2>6
      <3> QED
        BY <1>3, <2>1, <2>2, <3>4, <3>5, <3>6
    <2>7. CASE k + 1 \notin S
      <3>1. \A p \in S : p <= k + 1 <=> p <= k
        <4>1. \A p \in S : p # k + 1
          BY <2>7
        <4> QED
          BY <1>4, <2>1, <4>1
      <3>2. B = A
        BY <2>2, <3>1, Zenon
      <3> QED
        BY <1>3, <2>1, <2>2, <2>4, <2>5, <2>7, <3>2
    <2> QED
      BY <2>6, <2>7
  <1>7. N \in T
    BY <1>2, <1>5, <1>6, UpToInduction
  <1>8. {p \in S : p <= N} = S
    <2>1. \A p \in S : p <= N
      BY <1>4
    <2> QED
      BY <2>1, Zenon
  <1> QED
    BY <1>2, <1>3, <1>7, <1>8

\* The connected peers with a limit.
Limited == {p \in UpPeers : inBw[p] # 0}

LEMMA LimitedOut ==
  ASSUME Types, LimitedCount, NEW p \in Peer
  PROVE  LimitedWithout(p) = Cardinality(Limited \ {p})
  <1>1. Limited \in SUBSET Peer /\ limited = Cardinality(Limited) /\ limited \in Nat /\ limited <= N
    BY PeersCounted DEF Limited, UpPeers, LimitedCount
  <1>2. CASE state[p] = "up" /\ inBw[p] # 0
    <2>1. p \in Limited
      BY <1>2 DEF Limited, UpPeers
    <2>2. Cardinality(Limited \ {p}) = limited - 1 /\ limited >= 1
      BY <1>1, <2>1, OnePeerLess
    <2>3. limited \in Words
      BY <1>1, Numbers DEF Words
    <2>4. Minus(limited, 1) = limited - 1
      BY <2>2, <2>3, MinusType
    <2> QED
      BY <1>2, <2>2, <2>4 DEF LimitedWithout
  <1>3. CASE ~(state[p] = "up" /\ inBw[p] # 0)
    <2>1. Limited \ {p} = Limited
      BY <1>3 DEF Limited, UpPeers
    <2> QED
      BY <1>1, <1>3, <2>1 DEF LimitedWithout
  <1> QED
    BY <1>2, <1>3

\* bandwidthLimitedPeers, when the limit of a peer was set, or set again.
LEMMA LimitedIn ==
  ASSUME Types, LimitedCount, NEW p \in Peer, NEW in \in Words
  PROVE  /\ state[p] # "up" =>
              (limited + IF in # 0 THEN 1 ELSE 0) % Word
                = Cardinality((Limited \ {p}) \cup (IF in # 0 THEN {p} ELSE {}))
         /\ state[p] = "up" =>
              LimitedWith(p, in) = Cardinality((Limited \ {p}) \cup (IF in # 0 THEN {p} ELSE {}))
  <1>1. Limited \in SUBSET Peer /\ limited = Cardinality(Limited) /\ limited \in Nat
    BY PeersCounted DEF Limited, UpPeers, LimitedCount
  <1>2. PICK R : R = Limited \ {p}
    OBVIOUS
  <1>3. R \in SUBSET Peer /\ p \notin R
    BY <1>1, <1>2
  <1>4. PICK c \in Nat : c = Cardinality(R)
    BY <1>3, PeersCounted
  <1>5. /\ p \in Limited => c = limited - 1
        /\ p \notin Limited => c = limited
    <2>1. CASE p \in Limited
      BY <1>1, <1>2, <1>4, <2>1, OnePeerLess
    <2>2. CASE p \notin Limited
      <3>1. R = Limited
        BY <1>2, <2>2
      <3> QED
        BY <1>1, <1>4, <2>2, <3>1
    <2> QED
      BY <2>1, <2>2
  <1>6. PICK S : S = R \cup (IF in # 0 THEN {p} ELSE {})
    OBVIOUS
  <1>7. PICK d \in Nat : d = Cardinality(S) /\ d < Word /\ d = c + (IF in # 0 THEN 1 ELSE 0)
    <2>1. S \in SUBSET Peer
      BY <1>3, <1>6
    <2>2. Cardinality(S) \in Nat /\ Cardinality(S) < Word
      BY <2>1, PeersCounted, Numbers
    <2>3. CASE in # 0
      <3>1. S = R \cup {p}
        BY <1>6, <2>3
      <3>2. Cardinality(S) = c + 1
        BY <1>3, <1>4, <3>1, OnePeerMore
      <3> QED
        BY <2>2, <2>3, <3>2
    <2>4. CASE in = 0
      <3>1. S = R
        BY <1>6, <2>4
      <3> QED
        BY <1>4, <2>2, <2>4, <3>1
    <2> QED
      BY <2>3, <2>4
  <1>8. d % Word = d
    BY <1>7, Quotients, Numbers
  <1>9. ASSUME state[p] # "up"
        PROVE  (limited + IF in # 0 THEN 1 ELSE 0) % Word = d
    <2>1. p \notin Limited
      BY <1>9 DEF Limited, UpPeers
    <2>2. (limited + IF in # 0 THEN 1 ELSE 0) = d
      BY <1>5, <1>7, <2>1
    <2> QED
      BY <1>8, <2>2
  <1>10. ASSUME state[p] = "up"
         PROVE  LimitedWith(p, in) = d
    <2>1. p \in Limited <=> inBw[p] # 0
      BY <1>10 DEF Limited, UpPeers
    <2>2. limited - (IF inBw[p] # 0 THEN 1 ELSE 0) = c
      BY <1>1, <1>5, <2>1
    <2>3. (limited - (IF inBw[p] # 0 THEN 1 ELSE 0) + (IF in # 0 THEN 1 ELSE 0)) = d
      BY <1>7, <2>2
    <2> QED
      BY <1>8, <2>3 DEF LimitedWith
  <1> QED
    BY <1>2, <1>6, <1>7, <1>9, <1>10

--------------------------------------------------------------------------------
(* Outside the function. *)

LEMMA IdleStep ==
  ASSUME IInv, run.at = "idle", run' = run, scenario' = scenario,
         TypeOK', ThrottleInLimit', LimitedCount'
  PROVE  IInv'
  BY DEF IInv, Types, LeftOver, Divided, Dividing, Settled, Shared, Sharing

\* The peer's fields that the function shares with the connection.
LEMMA PeerTypes ==
  ASSUME IInv, NEW p \in Peer
  PROVE  /\ data[p] \in 0 .. MaxData /\ limit[p] \in Words /\ throttle[p] \in Words
         /\ throttle[p] <= limit[p] /\ limit[p] <= Scale
         /\ rate[p].up \in Words /\ rate[p].down \in Words
         /\ inBw[p] \in Words /\ outBw[p] \in Words
  BY DEF IInv, Types, TypeOK, ThrottleInLimit

\* limited counts the peers with a limit after a step that makes them S.
LEMMA CountedAs ==
  ASSUME NEW S \in SUBSET Peer, limited' = Cardinality(S), Limited' = S
  PROVE  LimitedCount' /\ limited' \in 0 .. N
  BY PeersCounted, Numbers DEF LimitedCount, Limited

LEMMA ConnectKeeps ==
  ASSUME IInv, NEW p \in Peer, NEW in \in Words, NEW out \in Words,
         Connect(p, in, out), UNCHANGED scenario
  PROVE  IInv'
  <1>1. Types /\ LimitedCount /\ ThrottleInLimit
    BY DEF IInv
  <1>2. LimitedCount' /\ limited' \in 0 .. N
    <2>1. PICK S : S = (Limited \ {p}) \cup (IF in # 0 THEN {p} ELSE {})
      OBVIOUS
    <2>2. S \in SUBSET Peer
      BY <2>1 DEF Limited, UpPeers
    <2>3. Limited' = S
      <3>1. \A q \in Peer : q # p => (state'[q] = state[q] /\ inBw'[q] = inBw[q])
        BY <1>1 DEF Connect, Types, TypeOK
      <3>2. state'[p] = "up" /\ inBw'[p] = in
        BY <1>1 DEF Connect, Types, TypeOK
      <3> QED
        BY <2>1, <3>1, <3>2 DEF Limited, UpPeers
    <2>4. limited' = Cardinality(S)
      <3>1. state[p] # "up"
        BY DEF Connect
      <3> QED
        BY <1>1, <2>1, <3>1, LimitedIn DEF Connect
    <2> QED
      BY <2>2, <2>3, <2>4, CountedAs
  <1>3. TypeOK'
    <2>1. \E w \in MinWindow .. MaxWindow : window' = [window EXCEPT ![p] = w]
      BY <1>1, WindowType DEF Connect, Types
    <2>2. HostIn \in Words
      BY <1>1, ScenarioTypes DEF Types
    <2>3. window' \in [Peer -> MinWindow .. MaxWindow] /\ told' \in [Peer -> Words]
      BY <1>1, <2>1, <2>2 DEF Connect, Types, TypeOK
    <2>4. data' \in [Peer -> 0 .. MaxData]
      BY <1>1, Numbers DEF Connect, Types, TypeOK
    <2> QED
      BY <1>1, <1>2, <2>3, <2>4 DEF Connect, Types, TypeOK
  <1>4. ThrottleInLimit'
    BY <1>1 DEF Connect, ThrottleInLimit
  <1> QED
    BY <1>2, <1>3, <1>4, IdleStep DEF Connect

\* The peer is no longer connected.
LEMMA LeavingCount ==
  ASSUME IInv, NEW p \in Peer, NEW s \in {"down", "leaving"},
         state' = [state EXCEPT ![p] = s], limited' = LimitedWithout(p),
         \A q \in Peer : q # p => inBw'[q] = inBw[q]
  PROVE  LimitedCount' /\ limited' \in 0 .. N
  <1>1. Types /\ LimitedCount
    BY DEF IInv
  <1>2. PICK S : S = Limited \ {p}
    OBVIOUS
  <1>3. S \in SUBSET Peer
    BY <1>2 DEF Limited, UpPeers
  <1>4. Limited' = S
    <2>1. \A q \in Peer : q # p => (state'[q] = state[q] /\ inBw'[q] = inBw[q])
      BY <1>1 DEF Types, TypeOK
    <2>2. state'[p] # "up"
      BY <1>1 DEF Types, TypeOK
    <2> QED
      BY <1>2, <2>1, <2>2 DEF Limited, UpPeers
  <1>5. limited' = Cardinality(S)
    BY <1>1, <1>2, LimitedOut
  <1> QED
    BY <1>3, <1>4, <1>5, CountedAs

LEMMA DisconnectKeeps ==
  ASSUME IInv, NEW p \in Peer, Disconnect(p), UNCHANGED scenario
  PROVE  IInv'
  <1>1. Types /\ ThrottleInLimit
    BY DEF IInv
  <1>2. LimitedCount' /\ limited' \in 0 .. N
    BY LeavingCount DEF Disconnect
  <1>3. TypeOK'
    <2>1. data' \in [Peer -> 0 .. MaxData]
      <3>1. data[p] + CommandSize \in 0 .. MaxData
        BY PeerTypes, Numbers DEF Disconnect
      <3> QED
        BY <1>1, <3>1 DEF Disconnect, Types, TypeOK
    <2> QED
      BY <1>1, <1>2, <2>1 DEF Disconnect, Types, TypeOK
  <1>4. ThrottleInLimit'
    BY <1>1 DEF Disconnect, ThrottleInLimit
  <1> QED
    BY <1>2, <1>3, <1>4, IdleStep DEF Disconnect

LEMMA ResetKeeps ==
  ASSUME IInv, NEW p \in Peer, Gone(p) \/ Reset(p), UNCHANGED scenario
  PROVE  IInv'
  <1>1. Types /\ ThrottleInLimit
    BY DEF IInv
  <1>2. ResetPeer(p) /\ run.at = "idle" /\ recalc' \in BOOLEAN
    BY <1>1 DEF Gone, Reset, Types, TypeOK
  <1>3. LimitedCount' /\ limited' \in 0 .. N
    <2>1. \A q \in Peer : q # p => inBw'[q] = inBw[q]
      BY <1>1, <1>2 DEF ResetPeer, Types, TypeOK
    <2> QED
      BY <1>2, <2>1, LeavingCount DEF ResetPeer
  <1>4. TypeOK'
    <2>1. Scale \in Words /\ 0 \in Words /\ 0 \in 0 .. MaxData
      BY Numbers DEF Words
    <2>2. FreshRate \in [up : Words, down : Words]
      BY <1>1, ScenarioTypes DEF FreshRate, Types
    <2>3. MaxWindow \in MinWindow .. MaxWindow
      BY ThrottleAssumption
    <2>4. /\ state' \in [Peer -> {"down", "up", "leaving"}]
          /\ inBw' \in [Peer -> Words] /\ outBw' \in [Peer -> Words]
          /\ data' \in [Peer -> 0 .. MaxData]
      BY <1>1, <1>2, <2>1 DEF ResetPeer, Types, TypeOK
    <2>5. /\ limit' \in [Peer -> Words] /\ throttle' \in [Peer -> Words]
          /\ window' \in [Peer -> MinWindow .. MaxWindow]
          /\ rate' \in [Peer -> [up : Words, down : Words]]
      BY <1>1, <1>2, <2>1, <2>2, <2>3 DEF ResetPeer, Types, TypeOK
    <2> QED
      BY <1>1, <1>2, <1>3, <2>4, <2>5 DEF ResetPeer, Types, TypeOK
  <1>5. ThrottleInLimit'
    BY <1>1, <1>2, Numbers DEF ResetPeer, ThrottleInLimit, Types, TypeOK
  <1> QED
    BY <1>2, <1>3, <1>4, <1>5, IdleStep DEF ResetPeer

LEMMA BandwidthLimitKeeps ==
  ASSUME IInv, NEW p \in Peer, NEW in \in Words, NEW out \in Words,
         HandleBandwidthLimit(p, in, out), UNCHANGED scenario
  PROVE  IInv'
  <1>1. Types /\ LimitedCount /\ ThrottleInLimit
    BY DEF IInv
  <1>2. LimitedCount' /\ limited' \in 0 .. N
    <2>1. PICK S : S = (Limited \ {p}) \cup (IF in # 0 THEN {p} ELSE {})
      OBVIOUS
    <2>2. S \in SUBSET Peer
      BY <2>1 DEF Limited, UpPeers
    <2>3. Limited' = S
      <3>1. \A q \in Peer : q # p => (state'[q] = state[q] /\ inBw'[q] = inBw[q])
        BY <1>1 DEF HandleBandwidthLimit, Types, TypeOK
      <3>2. state'[p] = "up" /\ inBw'[p] = in
        BY <1>1 DEF HandleBandwidthLimit, Types, TypeOK
      <3> QED
        BY <2>1, <3>1, <3>2 DEF Limited, UpPeers
    <2>4. limited' = Cardinality(S)
      <3>1. state[p] = "up"
        BY DEF HandleBandwidthLimit
      <3> QED
        BY <1>1, <2>1, <3>1, LimitedIn DEF HandleBandwidthLimit
    <2> QED
      BY <2>2, <2>3, <2>4, CountedAs
  <1>3. TypeOK'
    <2>1. window' \in [Peer -> MinWindow .. MaxWindow]
      BY <1>1, WindowType DEF HandleBandwidthLimit, Types, TypeOK
    <2> QED
      BY <1>1, <1>2, <2>1 DEF HandleBandwidthLimit, Types, TypeOK
  <1>4. ThrottleInLimit'
    BY <1>1 DEF HandleBandwidthLimit, ThrottleInLimit
  <1> QED
    BY <1>2, <1>3, <1>4, IdleStep DEF HandleBandwidthLimit

LEMMA PeerThrottleKeeps ==
  ASSUME IInv, NEW p \in Peer, PeerThrottle(p), UNCHANGED scenario
  PROVE  IInv'
  <1>1. Types /\ LimitedCount /\ ThrottleInLimit
    BY DEF IInv
  <1>2. PICK t \in {limit[p], Faster(p), Slower(p)} : throttle' = [throttle EXCEPT ![p] = t]
    BY DEF PeerThrottle
  <1>3. t \in Words /\ t <= limit[p]
    <2>1. /\ limit[p] \in Words /\ throttle[p] \in Words /\ throttle[p] <= limit[p]
          /\ rate[p].up \in Words /\ rate[p].down \in Words
      BY PeerTypes
    <2>2. CASE t = limit[p]
      BY <2>1, <2>2 DEF Words
    <2>3. CASE t = Faster(p)
      <3>1. (throttle[p] + rate[p].up) % Word \in Words
        BY <2>1, Numbers DEF Words
      <3> QED
        BY <2>1, <2>3, <3>1, LeastType DEF Faster, Words
    <2>4. CASE t = Slower(p)
      BY <2>1, <2>4, Numbers DEF Slower, Words
    <2> QED
      BY <2>2, <2>3, <2>4
  <1>4. TypeOK'
    BY <1>1, <1>2, <1>3 DEF PeerThrottle, Types, TypeOK
  <1>5. ThrottleInLimit'
    BY <1>1, <1>2, <1>3 DEF PeerThrottle, ThrottleInLimit, Types, TypeOK
  <1>6. LimitedCount'
    BY <1>1 DEF PeerThrottle, LimitedCount, UpPeers
  <1> QED
    BY <1>4, <1>5, <1>6, IdleStep DEF PeerThrottle

LEMMA PeerDataKeeps ==
  ASSUME IInv, NEW p \in Peer, UNCHANGED scenario,
         \/ \E up, down \in scenario.rates : HandleThrottleConfigure(p, up, down)
         \/ \E n \in scenario.sizes : QueueData(p, n)
  PROVE  IInv'
  <1>1. Types /\ LimitedCount /\ ThrottleInLimit
    BY DEF IInv
  <1>2. UNCHANGED <<state, inBw, outBw, limit, throttle, window, told, limited, recalc, run>>
    BY DEF HandleThrottleConfigure, QueueData
  <1>3. rate' \in [Peer -> [up : Words, down : Words]] /\ data' \in [Peer -> 0 .. MaxData]
    <2>1. ASSUME NEW up \in scenario.rates, NEW down \in scenario.rates,
                 HandleThrottleConfigure(p, up, down)
          PROVE  <1>3!1 /\ <1>3!2
      <3>1. up \in Words /\ down \in Words
        BY <1>1, ScenarioTypes DEF Types
      <3> QED
        BY <1>1, <2>1, <3>1 DEF HandleThrottleConfigure, Types, TypeOK
    <2>2. ASSUME NEW n \in scenario.sizes, QueueData(p, n)
          PROVE  <1>3!1 /\ <1>3!2
      <3>1. n \in 1 .. MaxData
        BY <1>1, ScenarioTypes DEF Types
      <3>2. data[p] + n \in 0 .. MaxData
        BY <2>2, <3>1, PeerTypes, Numbers DEF QueueData
      <3> QED
        BY <1>1, <2>2, <3>2 DEF QueueData, Types, TypeOK
    <2> QED
      BY <2>1, <2>2
  <1>4. TypeOK'
    BY <1>1, <1>2, <1>3 DEF Types, TypeOK
  <1>5. ThrottleInLimit' /\ LimitedCount'
    BY <1>1, <1>2 DEF ThrottleInLimit, LimitedCount, UpPeers
  <1>6. run.at = "idle"
    BY DEF HandleThrottleConfigure, QueueData
  <1> QED
    BY <1>2, <1>4, <1>5, <1>6, IdleStep

--------------------------------------------------------------------------------
(* Inside the function. *)

\* A step that changes the local variables only.
LEMMA LocalStep ==
  ASSUME IInv, UNCHANGED <<scenario, state, peerVars, limited>>, recalc' \in BOOLEAN, run' \in Run
  PROVE  Types' /\ ThrottleInLimit' /\ LimitedCount'
  <1>1. Types /\ ThrottleInLimit /\ LimitedCount
    BY DEF IInv
  <1>2. Types'
    BY <1>1 DEF Types, TypeOK, Run, peerVars
  <1>3. ThrottleInLimit' /\ LimitedCount'
    BY <1>1 DEF ThrottleInLimit, LimitedCount, UpPeers, peerVars
  <1> QED
    BY <1>2, <1>3

LEMMA SumOfData ==
  ASSUME IInv, NEW S
  PROVE  /\ data \in [Peer -> Nat] /\ Sum(data, S) \in Nat
         /\ Sum(data, S) <= N * MaxData /\ Sum(data, S) < Word /\ Sum(data, S) % Word = Sum(data, S)
  <1>1. data \in [Peer -> Nat] /\ \A p \in Peer : data[p] <= MaxData
    BY Numbers DEF IInv, Types, TypeOK
  <1>2. PICK a \in Nat : a = Sum(data, S)
    BY <1>1, SumType
  <1>3. a <= N * MaxData
    BY <1>1, <1>2, SumBound, Numbers
  <1>4. N * MaxData \in Nat /\ N * MaxData < Word
    BY ThrottleAssumption, Numbers
  <1>5. a < Word
    BY <1>2, <1>3, <1>4, Numbers
  <1>6. a % Word = a
    BY <1>5, Quotients, Numbers
  <1> QED
    BY <1>1, <1>2, <1>3, <1>5, <1>6

LEMMA LeftType ==
  ASSUME IInv
  PROVE  /\ Left \in SUBSET Peer /\ UpPeers \in SUBSET Peer
         /\ Cardinality(UpPeers) \in Words /\ Cardinality(Left) \in Words
         /\ Cardinality(Left) = 0 => Left = {}
  <1>1. Left \in SUBSET Peer /\ UpPeers \in SUBSET Peer
    BY DEF Left, UpPeers
  <1>2. /\ Cardinality(Left) \in Nat /\ Cardinality(Left) <= N /\ IsFiniteSet(Left)
        /\ Cardinality(UpPeers) \in Nat /\ Cardinality(UpPeers) <= N
    BY <1>1, PeersCounted
  <1>3. Cardinality(Left) = 0 => Left = {}
    BY <1>2, FS_EmptySet
  <1> QED
    BY <1>1, <1>2, <1>3, Numbers DEF Words

LEMMA BeginThrottleKeeps ==
  ASSUME IInv, NEW t \in Elapsed, BeginThrottle(t), UNCHANGED scenario
  PROVE  IInv'
  <1>1. PICK n, b, d : /\ n = IF HostOut = 0 THEN Word - 1 ELSE Sum(data, UpPeers) % Word
                       /\ b = IF HostOut = 0 THEN Word - 1 ELSE Share(HostOut, t)
                       /\ d = [p \in Peer |-> IF p \in UpPeers THEN data[p] ELSE 0]
    OBVIOUS
  <1>2. t \in Nat /\ HostOut \in Nat
    BY Numbers, ScenarioTypes DEF IInv, Types, Words
  <1>3. /\ n \in Words /\ b \in Words
        /\ HostOut # 0 => n = Sum(data, UpPeers) /\ b = Share(HostOut, t)
    <2>1. Share(HostOut, t) \in Words /\ Word - 1 \in Words
      <3>1. Share(HostOut, t) \in Words
        BY <1>2, ShareType
      <3> QED
        BY <3>1, Numbers DEF Words
    <2>2. Sum(data, UpPeers) \in Words /\ Sum(data, UpPeers) % Word = Sum(data, UpPeers)
      BY SumOfData, Numbers DEF Words
    <2> QED
      BY <1>1, <2>1, <2>2
  <1>4. d \in [Peer -> 0 .. MaxData]
    BY <1>1, Numbers DEF IInv, Types, TypeOK
  <1>5. PICK m \in BOOLEAN : m = (limited > 0)
    <2>1. CASE limited > 0
      <3>1. TRUE = (limited > 0)
        BY <2>1
      <3> QED
        BY <3>1, Zenon
    <2>2. CASE ~(limited > 0)
      <3>1. FALSE = (limited > 0)
        BY <2>2
      <3> QED
        BY <3>1, Zenon
    <2> QED
      BY <2>1, <2>2
  <1>6. run' = [at |-> "rounds", peer |-> 1, elapsed |-> t, remaining |-> Cardinality(UpPeers),
                total |-> n, bandwidth |-> b, ratio |-> 0, adjust |-> m, marked |-> {}, demand |-> d]
    BY <1>1, <1>5 DEF BeginThrottle, Idle
  <1>7. run' \in Run
    <2>1. 0 \in Words /\ 1 \in 1 .. N + 1 /\ {} \in SUBSET Peer
      BY Numbers DEF Words
    <2> QED
      BY <1>2, <1>3, <1>4, <1>6, <2>1, LeftType DEF Run
  <1>8. Types' /\ ThrottleInLimit' /\ LimitedCount'
    BY <1>7, LocalStep DEF BeginThrottle, IInv, Types, TypeOK
  <1>9. LeftOver'
    <2>1. UpPeers' = UpPeers /\ data' = data /\ HostOut' = HostOut
      BY DEF BeginThrottle, peerVars, UpPeers, HostOut
    <2>2. (UpPeers \ run.marked)' = UpPeers
      BY <1>6, <2>1
    <2>3. /\ run'.remaining = Cardinality(UpPeers) /\ run'.bandwidth = b /\ run'.total = n
          /\ run'.elapsed = t
      BY <1>6
    <2>4. HostOut # 0 => /\ Share(HostOut, t) <= Share(HostOut, t)
                         /\ Sum(data, UpPeers) >= Sum(data, UpPeers)
      <3>1. Share(HostOut, t) \in Nat
        BY <1>2, ShareType
      <3>2. Sum(data, UpPeers) \in Nat
        BY SumOfData
      <3> QED
        BY <3>1, <3>2
    <2> QED
      BY <1>3, <2>1, <2>2, <2>3, <2>4 DEF LeftOver
  <1>10. Divided' /\ Dividing' /\ Settled' /\ Shared'
    BY <1>6 DEF Divided, Dividing, Settled, Shared
  <1> QED
    BY <1>8, <1>9, <1>10 DEF IInv

LEMMA RoundKeeps ==
  ASSUME IInv, Round, UNCHANGED scenario
  PROVE  IInv'
  <1>1. Types /\ run \in Run /\ run.at = "rounds" /\ LeftOver /\ Divided
    BY DEF IInv, Types, Round
  <1>2. Ratio \in Words /\ Ratio \in 0 .. Scale
    BY <1>1, RatioType
  <1>3. \/ run' = [run EXCEPT !.at = "adjust", !.peer = 1, !.adjust = FALSE, !.ratio = Ratio]
        \/ run' = [run EXCEPT !.at = "others"]
    BY DEF Round
  <1>4. run' \in Run
    <2>1. 1 \in 1 .. N + 1
      BY Numbers
    <2> QED
      BY <1>1, <1>2, <1>3, <2>1 DEF Run
  <1>5. Types' /\ ThrottleInLimit' /\ LimitedCount'
    BY <1>1, <1>4, LocalStep DEF Round, Types, TypeOK
  <1>6. /\ UpPeers' = UpPeers /\ data' = data /\ HostOut' = HostOut
        /\ run'.marked = run.marked /\ run'.remaining = run.remaining /\ run'.total = run.total
        /\ run'.bandwidth = run.bandwidth /\ run'.elapsed = run.elapsed
    BY <1>1, <1>3 DEF Round, peerVars, UpPeers, HostOut, Run
  <1>7. LeftOver'
    BY <1>1, <1>6 DEF LeftOver
  <1>8. Divided'
    BY <1>1, <1>6 DEF Divided, Sharing
  <1>9. Dividing'
    <2> SUFFICES ASSUME run'.at = "adjust"
                 PROVE  /\ run'.peer \in Peer /\ run'.ratio <= Scale
                        /\ HostOut # 0 => run'.ratio * Sum(data, Left) <= Scale * run'.bandwidth
      BY <1>6 DEF Dividing, Left
    <2>1. run'.ratio = Ratio /\ run'.peer = 1
      BY <1>1, <1>3 DEF Run
    <2>2. ASSUME HostOut # 0
          PROVE  Ratio * Sum(data, Left) <= Scale * run.bandwidth
      <3>1. PICK a \in Nat, n \in Nat, r \in Nat, b \in Nat :
              a = Sum(data, Left) /\ n = run.total /\ r = Ratio /\ b = run.bandwidth
        <4>1. Sum(data, Left) \in Nat
          BY SumOfData
        <4>2. run.total \in Nat /\ run.bandwidth \in Nat /\ Ratio \in Nat
          BY <1>1, <1>2, Numbers DEF Run, Words
        <4> QED
          BY <4>1, <4>2
      <3>2. a <= n
        BY <1>1, <2>2, <3>1 DEF LeftOver, Left
      <3>3. r * a <= r * n /\ r * a \in Nat /\ r * n \in Nat
        BY <3>2, Products
      <3>4. r * n <= Scale * b /\ Scale * b \in Nat
        BY <1>1, <3>1, RatioType, Numbers
      <3> QED
        BY <3>1, <3>3, <3>4
    <2> QED
      BY <1>2, <1>6, <2>1, <2>2, Numbers DEF Peer
  <1>10. Settled' /\ Shared'
    BY <1>1, <1>3 DEF Settled, Shared, Run
  <1> QED
    BY <1>5, <1>7, <1>8, <1>9, <1>10 DEF IInv

LEMMA ScaleCancels ==
  ASSUME NEW a \in Nat, NEW b \in Nat, Scale * a <= Scale * b
  PROVE  a <= b
  <1> SUFFICES ASSUME b < a PROVE FALSE
    OBVIOUS
  <1>1. b + 1 <= a
    OBVIOUS
  <1>2. Scale * (b + 1) <= Scale * a
    BY <1>1, Products, Numbers
  <1>3. Scale * (b + 1) = Scale * b + Scale /\ Scale * b \in Nat /\ Scale * a \in Nat
    BY Numbers
  <1> QED
    BY <1>2, <1>3, Numbers

\* The peer in turn is taken out: what it is given fits into what is left.
LEMMA TakeOutKeeps ==
  ASSUME IInv, AdjustPeer, Exceeds(run.peer), UNCHANGED scenario
  PROVE  IInv'
  <1>1. Types /\ run \in Run /\ run.at = "adjust" /\ LeftOver /\ Divided /\ Dividing
    BY DEF IInv, Types, AdjustPeer
  <1>2. PICK p \in Peer : p = run.peer
    BY <1>1 DEF Dividing
  <1>3. Exceeds(p)
    BY <1>2
  <1>4. PICK s \in Nat : s = Share(inBw[p], run.elapsed)
    BY <1>1, <1>3, Taken DEF Dividing
  <1>5. PICK l \in 1 .. Scale : l = OwnLimit(p)
    BY <1>1, <1>3, Taken DEF Dividing
  <1>6. PICK next, min, tot, bw :
          /\ next = (IF p = N THEN "rounds" ELSE "adjust") /\ min = Minus(run.remaining, 1)
          /\ tot = Minus(run.total, s) /\ bw = Minus(run.bandwidth, s)
    OBVIOUS
  <1>7. /\ limit' = [limit EXCEPT ![p] = l]
        /\ throttle' = [throttle EXCEPT ![p] = Least(@, l)]
        /\ data' = [data EXCEPT ![p] = 0]
        /\ UNCHANGED <<state, inBw, outBw, window, rate, told, limited, recalc>>
    BY <1>2, <1>3, <1>5 DEF AdjustPeer
  <1>8. run' = [run EXCEPT !.peer = p + 1, !.at = next, !.adjust = TRUE,
                           !.marked = run.marked \cup {p}, !.remaining = min,
                           !.bandwidth = bw, !.total = tot]
    <2>1. run' = TakeOut(p)
      BY <1>2, <1>3 DEF AdjustPeer
    <2>2. Advance = [run EXCEPT !.peer = p + 1, !.at = next]
      BY <1>1, <1>2, <1>6 DEF Advance, Run
    <2> QED
      BY <1>1, <1>2, <1>4, <1>6, <2>1, <2>2 DEF TakeOut, Run
  <1>9. /\ min \in Words /\ tot \in Words /\ bw \in Words
        /\ s <= run.total => tot = run.total - s
        /\ s <= run.bandwidth => bw = run.bandwidth - s
        /\ 1 <= run.remaining => min = run.remaining - 1
    <2>1. run.total \in Words /\ run.bandwidth \in Words /\ run.remaining \in Words
      BY <1>1 DEF Run
    <2> QED
      BY <1>6, <2>1, MinusType
  <1>10. run' \in Run
    <2>1. next \in {"rounds", "adjust"} /\ p + 1 \in 1 .. N + 1
      BY <1>6, Numbers DEF Peer
    <2>2. run.marked \cup {p} \in SUBSET Peer
      BY <1>1 DEF Run
    <2> QED
      BY <1>1, <1>8, <1>9, <2>1, <2>2 DEF Run
  <1>11. TypeOK'
    <2>1. Scale < Word /\ Scale \in Nat
      BY Numbers
    <2>2. l \in Words /\ Least(throttle[p], l) \in Words
      <3>1. l \in Words /\ throttle[p] \in Words
        BY <2>1, PeerTypes, Numbers DEF Words
      <3>2. Least(throttle[p], l) \in {throttle[p], l}
        BY DEF Least
      <3> QED
        BY <3>1, <3>2
    <2>3. limit' \in [Peer -> Words] /\ throttle' \in [Peer -> Words]
      BY <1>1, <1>7, <2>2 DEF Types, TypeOK
    <2>4. data' \in [Peer -> 0 .. MaxData]
      BY <1>1, <1>7, Numbers DEF Types, TypeOK
    <2> QED
      BY <1>1, <1>7, <1>10, <2>3, <2>4 DEF Types, TypeOK, Run
  <1>12. ThrottleInLimit'
    <2>1. Least(throttle[p], l) <= l /\ l <= Scale
      BY PeerTypes, LeastType, Numbers DEF Words
    <2> QED
      BY <1>1, <1>7, <2>1 DEF IInv, ThrottleInLimit, Types, TypeOK
  <1>13. LimitedCount'
    BY <1>7 DEF IInv, LimitedCount, UpPeers
  <1>14. p \in Left /\ p \notin run.marked /\ p \in UpPeers
    BY <1>3 DEF Exceeds, Left, UpPeers
  <1>15. /\ UpPeers' = UpPeers /\ HostOut' = HostOut /\ Left' = Left \ {p}
         /\ run'.at \in Sharing /\ run'.marked = run.marked \cup {p} /\ run'.remaining = min
         /\ run'.total = tot /\ run'.bandwidth = bw /\ run'.elapsed = run.elapsed
         /\ run'.ratio = run.ratio /\ run'.peer = p + 1 /\ run'.at = next
    <2>1. /\ run'.marked = run.marked \cup {p} /\ run'.remaining = min
          /\ run'.total = tot /\ run'.bandwidth = bw /\ run'.elapsed = run.elapsed
          /\ run'.ratio = run.ratio /\ run'.peer = p + 1 /\ run'.at = next
      BY <1>1, <1>8 DEF Run
    <2>2. UpPeers' = UpPeers /\ HostOut' = HostOut
      BY <1>7 DEF UpPeers, HostOut
    <2>3. Left' = Left \ {p}
      BY <2>1, <2>2 DEF Left
    <2> QED
      BY <1>6, <2>1, <2>2, <2>3 DEF Sharing
  \* The sum without this peer.
  <1>16. PICK a \in Nat, d \in Nat :
           /\ a = Sum(data, Left) /\ d = data[p] /\ d <= a
           /\ Sum(data', Left \ {p}) = a - d
    <2>1. data \in [Peer -> Nat] /\ data' \in [Peer -> Nat]
      BY <1>1, <1>11, Numbers DEF Types, TypeOK
    <2>2. /\ data[p] <= Sum(data, Left) /\ data[p] \in Nat /\ Sum(data, Left) \in Nat
          /\ Sum(data, Left \ {p}) = Sum(data, Left) - data[p]
      BY <1>14, <2>1, SumPart
    <2>3. PICK S : S = Left \ {p}
      OBVIOUS
    <2>4. \A q \in Peer : q \in S => data'[q] = data[q]
      BY <1>7, <2>1, <2>3
    <2>5. Sum(data', S) = Sum(data, S)
      BY <2>1, <2>4, SumSame
    <2> QED
      BY <2>2, <2>3, <2>5
  <1>17. PICK r \in Nat : r = run.ratio /\ Scale * s <= r * d /\ s < d
    BY <1>1, <1>3, <1>4, <1>16, Taken DEF Dividing, Run, Words
  <1>18. ASSUME HostOut # 0
         PROVE  /\ a <= run.total /\ s <= run.total /\ s <= run.bandwidth
                /\ run.total \in Nat /\ run.bandwidth \in Nat
                /\ r * (a - d) <= Scale * (run.bandwidth - s)
    <2>1. PICK n \in Nat, b \in Nat : n = run.total /\ b = run.bandwidth
      BY <1>1 DEF Run, Words
    <2>2. a <= n
      BY <1>1, <1>16, <1>18, <2>1 DEF LeftOver, Left, Sharing
    <2>3. r * a <= Scale * b
      BY <1>1, <1>16, <1>17, <1>18, <2>1 DEF Dividing
    <2>4. r * d <= r * a /\ r * d \in Nat /\ r * a \in Nat /\ Scale * s \in Nat /\ Scale * b \in Nat
      BY <1>16, Products, Numbers
    <2>5. Scale * s <= Scale * b
      BY <1>17, <2>3, <2>4
    <2>6. s <= b
      BY <2>5, ScaleCancels
    <2>7. r * (a - d) = r * a - r * d /\ Scale * (b - s) = Scale * b - Scale * s
      BY Numbers
    <2>8. r * a - r * d <= Scale * b - Scale * s
      BY <1>17, <2>3, <2>4
    <2> QED
      BY <1>16, <1>17, <2>1, <2>2, <2>6, <2>7, <2>8
  <1>19. LeftOver'
    <2>1. run'.remaining = Cardinality(Left \ {p})
      <3>1. Left \in SUBSET Peer /\ run.remaining = Cardinality(Left)
        BY <1>1, LeftType DEF LeftOver, Left, Sharing
      <3>2. Cardinality(Left \ {p}) = run.remaining - 1 /\ run.remaining >= 1
        BY <1>14, <3>1, OnePeerLess
      <3>3. 1 <= run.remaining
        BY <1>1, <3>2 DEF Run, Words
      <3> QED
        BY <1>9, <1>15, <3>2, <3>3
    <2>2. ASSUME HostOut # 0
          PROVE  /\ run'.bandwidth <= Share(HostOut, run.elapsed)
                 /\ run'.total >= Sum(data', Left \ {p})
      <3>1. run.bandwidth <= Share(HostOut, run.elapsed)
        BY <1>1, <2>2 DEF LeftOver
      <3>2. Share(HostOut, run.elapsed) \in Nat
        <4>1. HostOut \in Nat /\ run.elapsed \in Nat
          BY <1>1, ScenarioTypes DEF Types, Run, Words
        <4> QED
          BY <4>1, ShareType
      <3>3. run'.bandwidth = run.bandwidth - s /\ run'.total = run.total - s
        BY <1>9, <1>15, <1>18, <2>2
      <3>4. run'.bandwidth <= Share(HostOut, run.elapsed)
        BY <1>18, <2>2, <3>1, <3>2, <3>3
      <3>5. run'.total >= a - d
        BY <1>16, <1>17, <1>18, <2>2, <3>3
      <3> QED
        BY <1>16, <3>4, <3>5
    <2> QED
      BY <1>15, <2>1, <2>2 DEF LeftOver, Left
  <1>20. Divided'
    <2>1. \A q \in Peer : q = p \/ q \in run.marked => data'[q] = 0
      BY <1>1, <1>7 DEF Divided, Sharing, Types, TypeOK
    <2> QED
      BY <1>1, <1>14, <1>15, <2>1 DEF Divided, Sharing, Run
  <1>21. Dividing'
    <2> SUFFICES ASSUME run'.at = "adjust"
                 PROVE  /\ run'.peer \in Peer /\ run'.ratio <= Scale
                        /\ HostOut # 0 => run'.ratio * Sum(data', Left \ {p}) <= Scale * run'.bandwidth
      BY <1>15 DEF Dividing
    <2>1. run'.peer \in Peer
      <3>1. p # N
        BY <1>6, <1>15
      <3> QED
        BY <1>15, <3>1, Numbers DEF Peer
    <2>2. run'.ratio <= Scale
      BY <1>1, <1>15 DEF Dividing
    <2>3. ASSUME HostOut # 0
          PROVE  run'.ratio * Sum(data', Left \ {p}) <= Scale * run'.bandwidth
      <3>1. run'.bandwidth = run.bandwidth - s
        BY <1>9, <1>15, <1>18, <2>3
      <3> QED
        BY <1>15, <1>16, <1>17, <1>18, <2>3, <3>1
    <2> QED
      BY <2>1, <2>2, <2>3
  <1>22. Settled' /\ Shared'
    BY <1>15 DEF Settled, Shared, Sharing
  <1>23. Types'
    BY <1>1, <1>10, <1>11 DEF Types
  <1> QED
    BY <1>12, <1>13, <1>19, <1>20, <1>21, <1>22, <1>23 DEF IInv

LEMMA PassOverKeeps ==
  ASSUME IInv, AdjustPeer, ~Exceeds(run.peer), UNCHANGED scenario
  PROVE  IInv'
  <1>1. Types /\ run \in Run /\ run.at = "adjust" /\ LeftOver /\ Divided /\ Dividing
    BY DEF IInv, Types, AdjustPeer
  <1>2. PICK p \in Peer : p = run.peer
    BY <1>1 DEF Dividing
  <1>3. PICK next : next = (IF p = N THEN "rounds" ELSE "adjust")
    OBVIOUS
  <1>4. run' = [run EXCEPT !.peer = p + 1, !.at = next]
    BY <1>1, <1>2, <1>3 DEF AdjustPeer, Advance, Run
  <1>5. UNCHANGED <<state, peerVars, limited, recalc>>
    BY DEF AdjustPeer, peerVars
  <1>6. run' \in Run
    <2>1. next \in {"rounds", "adjust"} /\ p + 1 \in 1 .. N + 1
      BY <1>3, Numbers DEF Peer
    <2> QED
      BY <1>1, <1>4, <2>1 DEF Run
  <1>7. Types' /\ ThrottleInLimit' /\ LimitedCount'
    BY <1>1, <1>5, <1>6, LocalStep DEF Types, TypeOK
  <1>8. /\ UpPeers' = UpPeers /\ data' = data /\ HostOut' = HostOut /\ Left' = Left
        /\ run'.marked = run.marked /\ run'.remaining = run.remaining /\ run'.total = run.total
        /\ run'.bandwidth = run.bandwidth /\ run'.elapsed = run.elapsed
        /\ run'.ratio = run.ratio /\ run'.peer = p + 1 /\ run'.at = next
    BY <1>1, <1>4, <1>5 DEF peerVars, UpPeers, HostOut, Left, Run
  <1>9. LeftOver' /\ Divided'
    BY <1>1, <1>8 DEF LeftOver, Divided, Sharing
  <1>10. Dividing'
    <2>1. next = "adjust" => p + 1 \in Peer
      BY <1>3, Numbers DEF Peer
    <2> QED
      BY <1>1, <1>8, <2>1 DEF Dividing
  <1>11. Settled' /\ Shared'
    BY <1>3, <1>8 DEF Settled, Shared
  <1> QED
    BY <1>7, <1>9, <1>10, <1>11 DEF IInv

LEMMA SetOthersKeeps ==
  ASSUME IInv, SetOthers, UNCHANGED scenario
  PROVE  IInv'
  <1>1. Types /\ run \in Run /\ run.at = "others" /\ LeftOver /\ Divided
    BY DEF IInv, Types, SetOthers
  <1>2. PICK others : others = IF run.remaining > 0 THEN UpPeers \ run.marked ELSE {}
    OBVIOUS
  <1>3. others = Left
    <2>1. run.remaining = Cardinality(Left) /\ run.remaining \in Nat
      BY <1>1 DEF LeftOver, Left, Run, Words
    <2> QED
      BY <1>2, <2>1, LeftType DEF Left
  <1>4. /\ limit' = [p \in Peer |-> IF p \in others THEN Ratio ELSE limit[p]]
        /\ throttle' = [p \in Peer |-> IF p \in others THEN Least(throttle[p], Ratio) ELSE throttle[p]]
        /\ data' = [p \in Peer |-> IF p \in others THEN 0 ELSE data[p]]
        /\ run' = [run EXCEPT !.at = "recalc"]
        /\ UNCHANGED <<state, inBw, outBw, window, rate, told, limited, recalc>>
    BY <1>2 DEF SetOthers, Clamped
  <1>5. run' \in Run /\ run'.at = "recalc"
    BY <1>1, <1>4 DEF Run
  <1>6. PICK r \in Words : r = Ratio /\ r <= Scale
    BY <1>1, RatioType
  <1>7. \A p \in Peer : Least(throttle[p], r) \in {throttle[p], r} /\ Least(throttle[p], r) <= r
    BY PeerTypes, LeastType, Numbers DEF Words
  <1>8. TypeOK'
    <2>1. limit' \in [Peer -> Words]
      BY <1>1, <1>4, <1>6 DEF Types, TypeOK
    <2>2. throttle' \in [Peer -> Words]
      BY <1>1, <1>4, <1>6, <1>7 DEF Types, TypeOK
    <2>3. data' \in [Peer -> 0 .. MaxData]
      BY <1>1, <1>4, Numbers DEF Types, TypeOK
    <2> QED
      BY <1>1, <1>4, <1>5, <2>1, <2>2, <2>3 DEF Types, TypeOK, Run
  <1>9. ThrottleInLimit'
    BY <1>4, <1>6, <1>7 DEF IInv, ThrottleInLimit
  <1>10. LimitedCount'
    BY <1>4 DEF IInv, LimitedCount, UpPeers
  <1>11. Settled'
    <2>1. UpPeers' = UpPeers /\ UpPeers \subseteq Peer
      BY <1>4 DEF UpPeers
    <2>2. \A p \in UpPeers : p \in Left \/ data[p] = 0
      BY <1>1 DEF Divided, Left, Sharing
    <2> QED
      BY <1>3, <1>4, <2>1, <2>2 DEF Settled
  <1>12. LeftOver' /\ Divided' /\ Dividing' /\ Shared'
    BY <1>5 DEF LeftOver, Divided, Dividing, Shared, Sharing
  <1> QED
    BY <1>1, <1>4, <1>5, <1>8, <1>9, <1>10, <1>11, <1>12 DEF IInv, Types

\* The second part of the function does not touch the limits.
LEMMA SharesKeep ==
  ASSUME IInv, BeginLimits \/ ShareRound \/ SharePeer, UNCHANGED scenario
  PROVE  IInv'
  <1>1. Types /\ run \in Run /\ Settled /\ Shared
    BY DEF IInv, Types
  <1>2. UNCHANGED <<state, peerVars, limited>> /\ recalc' \in BOOLEAN
    BY <1>1 DEF BeginLimits, ShareRound, SharePeer, Types, TypeOK
  <1>3. run' \in Run /\ (run'.at = "share" => run'.peer \in Peer)
    <2>1. 0 \in Words /\ 1 \in 1 .. N + 1 /\ {} \in SUBSET Peer /\ 0 \in 0 .. MaxData /\ 1 \in Peer
      BY Numbers DEF Words, Peer
    <2>2. ASSUME BeginLimits PROVE <1>3
      <3>1. [p \in Peer |-> 0] \in [Peer -> 0 .. MaxData]
        BY <2>1
      <3>2. Idle \in Run /\ Idle.at = "idle"
        BY <2>1, <3>1 DEF Idle, Run
      <3>3. HostIn \in Words /\ Cardinality(UpPeers) \in Words
        BY <1>1, ScenarioTypes, LeftType DEF Types
      <3>4. \/ run' = Idle
            \/ \E a \in {"tell", "shares"} :
                 run' = [Idle EXCEPT !.at = a, !.remaining = Cardinality(UpPeers),
                                     !.bandwidth = HostIn, !.adjust = TRUE]
        BY <2>2 DEF BeginLimits
      <3> QED
        BY <3>2, <3>3, <3>4 DEF Run
    <2>3. ASSUME ShareRound PROVE <1>3
      <3>1. ASSUME run.remaining > 0
            PROVE  run.bandwidth \div run.remaining \in Words
        <4>1. PICK b \in Nat, n \in Nat \ {0} : b = run.bandwidth /\ n = run.remaining /\ b < Word
          BY <1>1, <3>1, Numbers DEF Run, Words
        <4>2. PICK q \in Nat : q = b \div n /\ q * n <= b
          BY Quotients
        <4>3. q <= q * n /\ q * n \in Nat
          OBVIOUS
        <4> QED
          BY <4>1, <4>2, <4>3, Numbers DEF Words
      <3>2. \/ run' = [run EXCEPT !.at = "tell"]
            \/ /\ run.remaining > 0
               /\ run' = [run EXCEPT !.at = "share", !.peer = 1, !.adjust = FALSE,
                                     !.ratio = run.bandwidth \div run.remaining]
        BY <2>3 DEF ShareRound
      <3> QED
        BY <1>1, <2>1, <3>1, <3>2 DEF Run
    <2>4. ASSUME SharePeer PROVE <1>3
      <3>1. PICK p \in Peer : p = run.peer
        BY <1>1, <2>4 DEF SharePeer, Shared
      <3>2. PICK next : next = (IF p = N THEN "shares" ELSE "share")
        OBVIOUS
      <3>3. PICK m, b : m = Minus(run.remaining, 1) /\ b = Minus(run.bandwidth, outBw[p])
        OBVIOUS
      <3>4. m \in Words /\ b \in Words
        <4>1. run.remaining \in Words /\ run.bandwidth \in Words /\ outBw[p] \in Nat
          BY <1>1, Numbers DEF Run, Types, TypeOK, Words
        <4> QED
          BY <3>3, <4>1, MinusType
      <3>5. /\ next \in {"shares", "share"} /\ p + 1 \in 1 .. N + 1
            /\ next = "share" => p + 1 \in Peer
            /\ run.marked \cup {p} \in SUBSET Peer
        BY <1>1, <3>2, Numbers DEF Peer, Run
      <3>6. \/ run' = [run EXCEPT !.peer = p + 1, !.at = next]
            \/ run' = [run EXCEPT !.peer = p + 1, !.at = next, !.adjust = TRUE,
                                  !.marked = run.marked \cup {p}, !.remaining = m, !.bandwidth = b]
        <4>1. run.at = "share"
          BY <2>4 DEF SharePeer
        <4> QED
          BY <1>1, <2>4, <3>1, <3>2, <3>3, <4>1 DEF SharePeer, LeaveOut, Run
      <3> QED
        BY <1>1, <3>4, <3>5, <3>6, ZenonT(30) DEF Run
    <2> QED
      BY <2>2, <2>3, <2>4
  <1>4. Types' /\ ThrottleInLimit' /\ LimitedCount'
    BY <1>2, <1>3, LocalStep
  <1>5. run.at \in {"recalc", "shares", "share"} /\ run'.at \notin Sharing
    <2>1. CASE BeginLimits
      BY <2>1 DEF BeginLimits, Idle, Sharing
    <2>2. CASE ShareRound
      BY <1>1, <2>2 DEF ShareRound, Sharing, Run
    <2>3. CASE SharePeer
      <3>1. PICK next : next = (IF run.peer = N THEN "shares" ELSE "share")
        OBVIOUS
      <3>2. run.at = "share" /\ next \notin Sharing /\ run'.at = next
        BY <1>1, <2>3, <3>1 DEF SharePeer, Sharing, Run
      <3> QED
        BY <3>2
    <2> QED
      BY <2>1, <2>2, <2>3
  <1>6. Settled'
    BY <1>1, <1>2, <1>5 DEF Settled, peerVars, UpPeers
  <1>7. LeftOver' /\ Divided' /\ Dividing' /\ Shared'
    BY <1>3, <1>5 DEF LeftOver, Divided, Dividing, Shared, Sharing
  <1> QED
    BY <1>4, <1>6, <1>7 DEF IInv

LEMMA TellKeeps ==
  ASSUME IInv, Tell, UNCHANGED scenario
  PROVE  IInv'
  <1>1. Types /\ run \in Run /\ run.at = "tell" /\ Settled
    BY DEF IInv, Types, Tell
  <1>2. run' = Idle /\ run'.at = "idle"
    BY DEF Tell, Idle
  <1>3. run' \in Run
    <2>1. 0 \in Words /\ 1 \in 1 .. N + 1 /\ {} \in SUBSET Peer /\ 0 \in 0 .. MaxData
      BY Numbers DEF Words
    <2>2. [p \in Peer |-> 0] \in [Peer -> 0 .. MaxData]
      BY <2>1
    <2> QED
      BY <1>2, <2>1, <2>2 DEF Idle, Run
  <1>4. TypeOK'
    <2>1. told' \in [Peer -> Words]
      <3>1. \A p \in Peer : Announced(p) \in Words
        BY <1>1 DEF Announced, Run, Types, TypeOK
      <3> QED
        BY <1>1, <3>1 DEF Tell, Types, TypeOK
    <2>2. data' \in [Peer -> 0 .. MaxData]
      <3>1. \A p \in UpPeers : data[p] + CommandSize \in 0 .. MaxData
        BY <1>1, Numbers DEF Settled
      <3> QED
        BY <1>1, <3>1 DEF Tell, Types, TypeOK
    <2> QED
      BY <1>1, <1>3, <2>1, <2>2 DEF Tell, Types, TypeOK, Run
  <1>5. ThrottleInLimit' /\ LimitedCount'
    BY DEF Tell, IInv, ThrottleInLimit, LimitedCount, UpPeers
  <1>6. LeftOver' /\ Divided' /\ Dividing' /\ Settled' /\ Shared'
    BY <1>2 DEF LeftOver, Divided, Dividing, Settled, Shared, Sharing
  <1> QED
    BY <1>1, <1>3, <1>4, <1>5, <1>6 DEF IInv, Types

--------------------------------------------------------------------------------

LEMMA InitHolds ==
  ASSUME Init
  PROVE  IInv
  <1>1. scenario \in Scenarios /\ HostIn \in Words /\ scenario.rate \in Words
    BY ScenarioTypes DEF Init
  <1>2. run = Idle /\ run \in Run /\ run.at = "idle"
    <2>1. 0 \in Words /\ 1 \in 1 .. N + 1 /\ {} \in SUBSET Peer /\ 0 \in 0 .. MaxData
      BY Numbers DEF Words
    <2>2. [p \in Peer |-> 0] \in [Peer -> 0 .. MaxData]
      BY <2>1
    <2> QED
      BY <2>1, <2>2 DEF Init, Idle, Run
  <1>3. TypeOK
    <2>1. 0 \in Words /\ Scale \in Words /\ 0 \in 0 .. MaxData /\ 0 \in 0 .. N
      BY Numbers DEF Words
    <2>2. MaxWindow \in MinWindow .. MaxWindow
      BY ThrottleAssumption
    <2>3. FreshRate \in [up : Words, down : Words]
      BY <1>1 DEF FreshRate
    <2> QED
      BY <1>1, <1>2, <2>1, <2>2, <2>3 DEF Init, TypeOK, Run
  <1>4. ThrottleInLimit
    BY Numbers DEF Init, ThrottleInLimit
  <1>5. LimitedCount
    <2>1. {p \in UpPeers : inBw[p] # 0} = {}
      BY DEF Init, UpPeers
    <2> QED
      BY <2>1, FS_EmptySet DEF Init, LimitedCount
  <1> QED
    BY <1>1, <1>2, <1>3, <1>4, <1>5
    DEF IInv, Types, LeftOver, Divided, Dividing, Settled, Shared, Sharing

LEMMA StepKeeps ==
  ASSUME IInv, [Next]_vars
  PROVE  IInv'
  <1>1. CASE UNCHANGED vars
    BY <1>1 DEF vars, peerVars, IInv, Types, TypeOK, ThrottleInLimit, LimitedCount, LeftOver, Divided,
       Dividing, Settled, Shared, Left, UpPeers, HostOut
  <1>2. CASE Next
    <2>1. UNCHANGED scenario
      BY <1>2 DEF Next
    <2>2. /\ scenario.theirIn \subseteq Words /\ scenario.theirOut \subseteq Words
          /\ 1 .. scenario.peers \subseteq Peer
      BY ScenarioTypes DEF IInv, Types
    <2>3. ASSUME NEW p \in 1 .. scenario.peers, NEW in \in scenario.theirIn,
                 NEW out \in scenario.theirOut, Connect(p, in, out)
          PROVE  IInv'
      BY <2>1, <2>2, <2>3, ConnectKeeps
    <2>4. ASSUME NEW p \in 1 .. scenario.peers, Disconnect(p) PROVE IInv'
      BY <2>1, <2>2, <2>4, DisconnectKeeps
    <2>5. ASSUME NEW p \in 1 .. scenario.peers, Gone(p) \/ Reset(p) PROVE IInv'
      BY <2>1, <2>2, <2>5, ResetKeeps
    <2>6. ASSUME NEW p \in 1 .. scenario.peers, PeerThrottle(p) PROVE IInv'
      BY <2>1, <2>2, <2>6, PeerThrottleKeeps
    <2>7. ASSUME NEW p \in 1 .. scenario.peers, NEW in \in scenario.theirIn,
                 HandleBandwidthLimit(p, in, outBw[p])
          PROVE  IInv'
      <3>1. p \in Peer /\ in \in Words /\ outBw[p] \in Words
        BY <2>2, PeerTypes
      <3> QED
        BY <2>1, <2>7, <3>1, BandwidthLimitKeeps
    <2>8. ASSUME NEW p \in 1 .. scenario.peers,
                 \/ \E up, down \in scenario.rates : HandleThrottleConfigure(p, up, down)
                 \/ \E n \in scenario.sizes : QueueData(p, n)
          PROVE  IInv'
      BY <2>1, <2>2, <2>8, PeerDataKeeps
    <2>9. ASSUME NEW t \in Elapsed, BeginThrottle(t) PROVE IInv'
      BY <2>1, <2>9, BeginThrottleKeeps
    <2>10. CASE Throttling
      <3>1. CASE Round
        BY <2>1, <3>1, RoundKeeps
      <3>2. CASE AdjustPeer
        BY <2>1, <3>2, TakeOutKeeps, PassOverKeeps
      <3>3. CASE SetOthers
        BY <2>1, <3>3, SetOthersKeeps
      <3>4. CASE BeginLimits \/ ShareRound \/ SharePeer
        BY <2>1, <3>4, SharesKeep
      <3>5. CASE Tell
        BY <2>1, <3>5, TellKeeps
      <3> QED
        BY <2>10, <3>1, <3>2, <3>3, <3>4, <3>5 DEF Throttling
    <2> QED
      BY <1>2, <2>3, <2>4, <2>5, <2>6, <2>7, <2>8, <2>9, <2>10 DEF Next
  <1> QED
    BY <1>1, <1>2

LEMMA Inductive == Spec => []IInv
  BY InitHolds, StepKeeps, PTL DEF Spec

\* bandwidthLimitedPeers counts the connected peers with a limit, no throttle exceeds its
\* limit, and the loop that takes peers out of enet_host_bandwidth_throttle() never takes
\* more of the bandwidth, or of the total, than there is: nothing wraps around.
THEOREM ThrottleInvariant == Spec => []ThrottleInv
  <1>1. IInv => ThrottleInv
    BY DEF IInv, Types, ThrottleInv
  <1> QED
    BY <1>1, Inductive, PTL

--------------------------------------------------------------------------------
(* What the limits grant fits into the bandwidths. *)

Least1 == {p \in UpPeers : limit[p] = 1}
Grants == [p \in Peer |-> Granted(p)]

\* The peer can take what the ratio gives it.
Within(r, p) == inBw[p] # 0 => Times(r, data[p]) \div Scale <= Share(inBw[p], run.elapsed)

\* While the bandwidth is divided: a peer that was taken out can take what it was granted,
\* and all of them together were granted no more than what is missing of the bandwidth.
Paid ==
  run.at \in Sharing =>
    /\ \A p \in Left : run.demand[p] = data[p]
    /\ \A p \in run.marked :
         limit[p] = 1 \/ Granted(p) <= Scale * Share(inBw[p], run.elapsed)
    /\ HostOut # 0 =>
         Sum(Grants, run.marked \ Least1) + Scale * run.bandwidth <= Scale * Share(HostOut, run.elapsed)

\* The peers that were passed over in a round without an adjustment.
Passed ==
  /\ run.at = "adjust" /\ ~run.adjust =>
       run.ratio = Ratio /\ \A p \in Left : p < run.peer => Within(Ratio, p)
  /\ run.at = "rounds" /\ ~run.adjust => \A p \in Left : Within(Ratio, p)
  /\ run.at = "others" => \A p \in Left : Within(Ratio, p)

GrantInv == Paid /\ Passed /\ KeepsToBandwidth

LEMMA GrantTypes ==
  ASSUME IInv
  PROVE  /\ Grants \in [Peer -> Nat] /\ run.demand \in [Peer -> Nat]
         /\ \A p \in Peer : Granted(p) \in Nat /\ Grants[p] = Granted(p) /\ limit[p] \in Nat
                            /\ run.demand[p] \in Nat
  <1>1. run.demand \in [Peer -> Nat] /\ limit \in [Peer -> Nat]
    BY Numbers DEF IInv, Types, TypeOK, Run, Words
  <1>2. ASSUME NEW p \in Peer
        PROVE  Granted(p) \in Nat
    <2>1. PICK a \in Nat, b \in Nat : a = limit[p] /\ b = run.demand[p]
      BY <1>1
    <2>2. a * b \in Nat
      OBVIOUS
    <2> QED
      BY <2>1, <2>2 DEF Granted
  <1>3. Grants \in [Peer -> Nat] /\ \A p \in Peer : Grants[p] = Granted(p)
    BY <1>2 DEF Grants
  <1> QED
    BY <1>1, <1>2, <1>3

LEMMA GrantTypesNext ==
  ASSUME IInv'
  PROVE  Grants' \in [Peer -> Nat] /\ \A p \in Peer : Grants'[p] = Granted(p)'
  <1>1. \A p \in Peer : run'.demand[p] \in Nat /\ limit'[p] \in Nat
    BY Numbers DEF IInv, Types, TypeOK, Run, Words
  <1>2. ASSUME NEW p \in Peer
        PROVE  Granted(p)' \in Nat
    <2>1. PICK a \in Nat, b \in Nat : a = limit'[p] /\ b = run'.demand[p]
      BY <1>1
    <2>2. a * b \in Nat
      OBVIOUS
    <2> QED
      BY <2>1, <2>2 DEF Granted
  <1> QED
    BY <1>2 DEF Grants

\* A step after which neither a division nor its end is to be seen.
LEMMA ElsewhereGrants ==
  ASSUME run'.at \notin Sharing, run'.at # "recalc"
  PROVE  GrantInv'
  BY DEF GrantInv, Paid, Passed, KeepsToBandwidth, Sharing

LEMMA BeginThrottleGrants ==
  ASSUME IInv, IInv', NEW t \in Elapsed, BeginThrottle(t), UNCHANGED scenario
  PROVE  GrantInv'
  <1>1. /\ run'.at = "rounds" /\ run'.marked = {} /\ run'.elapsed = t
        /\ run'.bandwidth = (IF HostOut = 0 THEN Word - 1 ELSE Share(HostOut, t))
        /\ run'.demand = [p \in Peer |-> IF p \in UpPeers THEN data[p] ELSE 0]
        /\ run'.adjust = (limited > 0)
    BY DEF BeginThrottle, Idle
  <1>2. UNCHANGED <<state, inBw, data, limit>> /\ HostOut' = HostOut /\ UpPeers' = UpPeers
    BY DEF BeginThrottle, peerVars, HostOut, UpPeers
  <1>3. Left' = UpPeers /\ UpPeers \subseteq Peer
    BY <1>1, <1>2 DEF Left, UpPeers
  <1>4. Paid'
    <2>1. \A p \in UpPeers : run'.demand[p] = data[p]
      BY <1>1, <1>3
    <2>2. ASSUME HostOut # 0
          PROVE  Sum(Grants', run'.marked \ Least1') + Scale * run'.bandwidth
                   <= Scale * Share(HostOut, run'.elapsed)
      <3>1. PICK S : S = run'.marked \ Least1'
        OBVIOUS
      <3>2. S = {}
        BY <1>1, <3>1
      <3>3. Grants' \in [Peer -> Nat]
        BY GrantTypesNext
      <3>4. Sum(Grants', S) = 0
        BY <3>2, <3>3, SumEmpty
      <3>5. PICK b \in Nat : b = Share(HostOut, t)
        <4>1. t \in Nat /\ HostOut \in Nat
          BY Numbers, ScenarioTypes DEF IInv, Types, Words
        <4> QED
          BY <4>1, ShareType
      <3>6. Scale * b \in Nat /\ run'.bandwidth = b /\ run'.elapsed = t
        BY <1>1, <2>2, <3>5, Numbers
      <3> QED
        BY <3>1, <3>4, <3>5, <3>6
    <2> QED
      BY <1>1, <1>2, <1>3, <2>1, <2>2 DEF Paid
  <1>5. Passed'
    <2> SUFFICES ASSUME ~(limited > 0)
                 PROVE  \A p \in UpPeers : Within(Ratio, p)'
      BY <1>1, <1>3 DEF Passed
    <2>1. Limited \in SUBSET Peer /\ limited = Cardinality(Limited)
      BY DEF IInv, LimitedCount, Limited, UpPeers
    <2>2. limited = 0
      BY <2>1, PeersCounted
    <2>3. Limited = {}
      BY <2>1, <2>2, PeersCounted, FS_EmptySet
    <2>4. \A p \in UpPeers : inBw[p] = 0
      BY <2>3 DEF Limited
    <2> QED
      BY <1>2, <2>4 DEF Within
  <1> QED
    BY <1>1, <1>4, <1>5 DEF GrantInv, KeepsToBandwidth

LEMMA RoundGrants ==
  ASSUME IInv, GrantInv, Round, UNCHANGED scenario
  PROVE  GrantInv'
  <1>1. run \in Run /\ run.at = "rounds" /\ LeftOver /\ Types
    BY DEF IInv, Types, Round
  <1>2. \/ /\ run.adjust
           /\ run' = [run EXCEPT !.at = "adjust", !.peer = 1, !.adjust = FALSE, !.ratio = Ratio]
        \/ /\ ~(run.remaining > 0 /\ run.adjust)
           /\ run' = [run EXCEPT !.at = "others"]
    BY DEF Round
  <1>3. UNCHANGED <<state, inBw, data, limit>> /\ HostOut' = HostOut /\ UpPeers' = UpPeers
    BY DEF Round, peerVars, HostOut, UpPeers
  <1>4. /\ run'.marked = run.marked /\ run'.total = run.total /\ run'.bandwidth = run.bandwidth
        /\ run'.elapsed = run.elapsed /\ run'.demand = run.demand /\ run'.remaining = run.remaining
    BY <1>1, <1>2 DEF Run
  <1>5. Left' = Left /\ Ratio' = Ratio /\ Least1' = Least1 /\ Grants' = Grants
    BY <1>3, <1>4 DEF Left, Ratio, Least1, Grants, Granted
  <1>6. Paid'
    BY <1>1, <1>3, <1>4, <1>5 DEF GrantInv, Paid, Granted, Sharing
  <1>7. \A p : Within(Ratio, p)' <=> Within(Ratio, p)
    BY <1>3, <1>4, <1>5 DEF Within
  <1>8. Passed'
    <2>1. CASE run'.at = "adjust"
      <3>1. run'.ratio = Ratio /\ run'.peer = 1
        BY <1>1, <1>2, <2>1 DEF Run
      <3>2. \A p \in Left : ~(p < 1)
        BY Numbers DEF Left, UpPeers, Peer
      <3> QED
        BY <1>5, <2>1, <3>1, <3>2 DEF Passed
    <2>2. CASE run'.at = "others"
      <3>1. ~(run.remaining > 0 /\ run.adjust)
        BY <1>1, <1>2, <2>2 DEF Run
      <3>2. \A p \in Left : Within(Ratio, p)
        <4>1. CASE ~run.adjust
          BY <1>1, <4>1 DEF GrantInv, Passed
        <4>2. CASE ~(run.remaining > 0)
          <5>1. run.remaining = Cardinality(Left) /\ run.remaining = 0
            BY <1>1, <4>2 DEF LeftOver, Left, Run, Words
          <5> QED
            BY <5>1, LeftType
        <4> QED
          BY <3>1, <4>1, <4>2
      <3> QED
        BY <1>5, <1>7, <2>2, <3>2 DEF Passed
    <2> QED
      BY <1>1, <1>2, <2>1, <2>2 DEF Run
  <1>9. run'.at # "recalc"
    BY <1>1, <1>2 DEF Run
  <1> QED
    BY <1>6, <1>8, <1>9 DEF GrantInv, KeepsToBandwidth

LEMMA TakeOutGrants ==
  ASSUME IInv, IInv', GrantInv, AdjustPeer, Exceeds(run.peer), UNCHANGED scenario
  PROVE  GrantInv'
  <1>1. Types /\ run \in Run /\ run.at = "adjust" /\ LeftOver /\ Divided /\ Dividing /\ Paid
    BY DEF IInv, Types, AdjustPeer, GrantInv
  <1>2. PICK p \in Peer : p = run.peer
    BY <1>1 DEF Dividing
  <1>3. Exceeds(p)
    BY <1>2
  <1>4. PICK s \in Nat : s = Share(inBw[p], run.elapsed)
    BY <1>1, <1>3, Taken DEF Dividing
  <1>5. PICK l \in 1 .. Scale : l = OwnLimit(p) /\ (l = 1 \/ l * data[p] <= Scale * s)
    BY <1>1, <1>3, <1>4, Taken DEF Dividing
  <1>6. PICK next : next = (IF p = N THEN "rounds" ELSE "adjust")
    OBVIOUS
  <1>7. /\ limit' = [limit EXCEPT ![p] = l] /\ data' = [data EXCEPT ![p] = 0]
        /\ UNCHANGED <<state, inBw>> /\ run' = TakeOut(p)
    BY <1>2, <1>3, <1>5 DEF AdjustPeer
  <1>8. /\ run'.at = next /\ run'.adjust = TRUE /\ run'.marked = run.marked \cup {p}
        /\ run'.bandwidth = Minus(run.bandwidth, s) /\ run'.elapsed = run.elapsed
        /\ run'.demand = run.demand
    BY <1>1, <1>2, <1>4, <1>6, <1>7 DEF TakeOut, Advance, Run
  <1>9. next \in {"rounds", "adjust"}
    BY <1>6
  <1>10. p \in Left /\ p \notin run.marked /\ run.marked \subseteq Peer
    BY <1>1, <1>3 DEF Exceeds, Left, UpPeers, Run
  <1>11. UpPeers' = UpPeers /\ HostOut' = HostOut /\ Left' = Left \ {p}
    BY <1>7, <1>8 DEF UpPeers, HostOut, Left
  <1>12. /\ limit'[p] = l
         /\ \A q \in Peer : q # p => (limit'[q] = limit[q] /\ data'[q] = data[q]
                                      /\ Granted(q)' = Granted(q))
    BY <1>1, <1>7, <1>8 DEF Types, TypeOK, Granted
  <1>13. \A q \in Left' : run'.demand[q] = data'[q]
    BY <1>1, <1>8, <1>11, <1>12 DEF Paid, Sharing, Left, UpPeers
  <1>14. l = 1 \/ Granted(p)' <= Scale * s
    <2>1. run'.demand[p] = data[p]
      BY <1>1, <1>8, <1>10 DEF Paid, Sharing
    <2> QED
      BY <1>5, <1>12, <2>1 DEF Granted
  <1>15. \A q \in run'.marked : limit'[q] = 1 \/ Granted(q)' <= Scale * Share(inBw[q], run.elapsed)
    BY <1>1, <1>4, <1>8, <1>10, <1>12, <1>14 DEF Paid, Sharing
  <1>16. ASSUME HostOut # 0
         PROVE  Sum(Grants', run'.marked \ Least1') + Scale * run'.bandwidth
                  <= Scale * Share(HostOut, run.elapsed)
    <2>1. PICK S, T : S = run.marked \ Least1 /\ T = run'.marked \ Least1'
      OBVIOUS
    <2>2. PICK a \in Nat, b \in Nat, c \in Nat :
            a = Sum(Grants, S) /\ b = run.bandwidth /\ c = Share(HostOut, run.elapsed)
      <3>1. Sum(Grants, S) \in Nat
        BY GrantTypes, SumType
      <3>2. Share(HostOut, run.elapsed) \in Nat
        <4>1. HostOut \in Nat /\ run.elapsed \in Nat
          BY <1>1, ScenarioTypes DEF Types, Run, Words
        <4> QED
          BY <4>1, ShareType
      <3> QED
        BY <1>1, <3>1, <3>2 DEF Run, Words
    <2>3. a + Scale * b <= Scale * c
      BY <1>1, <1>16, <2>1, <2>2 DEF Paid, Sharing
    <2>4. s <= b
      <3>1. PICK r \in Nat, d \in Nat, n \in Nat :
              r = run.ratio /\ d = data[p] /\ n = Sum(data, Left) /\ d <= n
        <4>1. data[p] <= Sum(data, Left) /\ data[p] \in Nat /\ Sum(data, Left) \in Nat
          BY <1>10, SumOfData, SumPart
        <4> QED
          BY <1>1, <4>1 DEF Run, Words
      <3>2. Scale * s <= r * d /\ r * n <= Scale * b
        BY <1>1, <1>3, <1>4, <1>16, <2>2, <3>1, Taken DEF Dividing
      <3>3. r * d <= r * n /\ r * d \in Nat /\ r * n \in Nat
        BY <3>1, Products
      <3>4. Scale * s <= Scale * b
        BY <3>2, <3>3, Numbers
      <3> QED
        BY <3>4, ScaleCancels
    <2>5. run'.bandwidth = b - s
      <3>1. run.bandwidth \in Words
        BY <1>1 DEF Run
      <3> QED
        BY <1>8, <2>2, <2>4, <3>1, MinusType
    <2>6. Scale * (b - s) = Scale * b - Scale * s /\ Scale * b \in Nat /\ Scale * s \in Nat
          /\ Scale * c \in Nat
      BY Numbers
    <2>7. Grants \in [Peer -> Nat] /\ Grants' \in [Peer -> Nat]
          /\ (\A q \in Peer : q # p => Grants'[q] = Grants[q]) /\ Grants'[p] = Granted(p)'
      BY <1>12, GrantTypes, GrantTypesNext
    <2>8. Sum(Grants', S) = a
      <3>1. \A q \in Peer : q \in S => Grants'[q] = Grants[q]
        BY <1>10, <2>1, <2>7
      <3> QED
        BY <2>2, <2>7, <3>1, SumSame
    <2>9. \A q \in Peer : q # p => (q \in T <=> q \in S)
      BY <1>8, <1>11, <1>12, <2>1 DEF Least1
    <2>10. CASE l = 1
      <3>1. p \notin T /\ p \notin S /\ S \subseteq Peer /\ T \subseteq Peer
        BY <1>3, <1>8, <1>10, <1>11, <1>12, <2>1, <2>10 DEF Least1, Exceeds, UpPeers
      <3>2. T = S
        BY <2>9, <3>1
      <3> QED
        <4>1. Sum(Grants', T) = a
          BY <2>8, <3>2
        <4>2. a + Scale * (b - s) <= Scale * c
          BY <2>3, <2>6
        <4> QED
          BY <2>1, <2>2, <2>5, <4>1, <4>2
    <2>11. CASE l # 1
      <3>1. p \in T /\ p \notin S /\ S \subseteq Peer /\ T \subseteq Peer
        BY <1>8, <1>10, <1>12, <2>1, <2>11 DEF Least1
      <3>2. T \ {p} = S
        BY <2>9, <3>1
      <3>3. Sum(Grants', T) = Grants'[p] + a /\ Grants'[p] \in Nat
        BY <2>7, <2>8, <3>1, <3>2, SumTake
      <3>4. Grants'[p] <= Scale * s
        BY <1>14, <2>7, <2>11
      <3> QED
        <4>1. PICK g \in Nat : g = Grants'[p]
          BY <3>3
        <4>2. g + a + Scale * (b - s) <= Scale * c
          BY <2>3, <2>6, <3>4, <4>1
        <4> QED
          BY <2>1, <2>2, <2>5, <3>3, <4>1, <4>2
    <2> QED
      BY <2>10, <2>11
  <1>17. Paid'
    BY <1>7, <1>8, <1>11, <1>13, <1>15, <1>16 DEF Paid
  <1> QED
    BY <1>8, <1>9, <1>17 DEF GrantInv, Passed, KeepsToBandwidth

LEMMA PassOverGrants ==
  ASSUME IInv, GrantInv, AdjustPeer, ~Exceeds(run.peer), UNCHANGED scenario
  PROVE  GrantInv'
  <1>1. run \in Run /\ run.at = "adjust" /\ Dividing /\ Paid /\ Passed
    BY DEF IInv, Types, AdjustPeer, GrantInv
  <1>2. PICK p \in Peer : p = run.peer
    BY <1>1 DEF Dividing
  <1>3. PICK next : next = (IF p = N THEN "rounds" ELSE "adjust")
    OBVIOUS
  <1>4. run' = [run EXCEPT !.peer = p + 1, !.at = next]
    BY <1>1, <1>2, <1>3 DEF AdjustPeer, Advance, Run
  <1>5. UNCHANGED <<state, inBw, data, limit>> /\ HostOut' = HostOut /\ UpPeers' = UpPeers
    BY DEF AdjustPeer, HostOut, UpPeers
  <1>6. /\ run'.marked = run.marked /\ run'.total = run.total /\ run'.bandwidth = run.bandwidth
        /\ run'.elapsed = run.elapsed /\ run'.demand = run.demand /\ run'.adjust = run.adjust
        /\ run'.ratio = run.ratio /\ run'.peer = p + 1 /\ run'.at = next
    BY <1>1, <1>4 DEF Run
  <1>7. Left' = Left /\ Ratio' = Ratio /\ Least1' = Least1 /\ Grants' = Grants
    BY <1>5, <1>6 DEF Left, Ratio, Least1, Grants, Granted
  <1>8. Paid'
    BY <1>1, <1>5, <1>6, <1>7 DEF Paid, Granted, Sharing
  <1>9. \A q : Within(Ratio, q)' <=> Within(Ratio, q)
    BY <1>5, <1>6, <1>7 DEF Within
  <1>10. Passed'
    <2> SUFFICES ASSUME ~run.adjust
                 PROVE  /\ run.ratio = Ratio /\ \A q \in Left : q < p + 1 => Within(Ratio, q)
                        /\ next = "rounds" => \A q \in Left : Within(Ratio, q)
      BY <1>3, <1>6, <1>7, <1>9 DEF Passed
    <2>1. run.ratio = Ratio /\ \A q \in Left : q < p => Within(Ratio, q)
      BY <1>1, <1>2 DEF Passed
    <2>2. p \in Left => Within(Ratio, p)
      <3>1. ASSUME p \in Left, inBw[p] # 0
            PROVE  Times(Ratio, data[p]) \div Scale <= Share(inBw[p], run.elapsed)
        <4>1. ~(Times(Ratio, data[p]) \div Scale > Share(inBw[p], run.elapsed))
          BY <1>2, <2>1, <3>1 DEF Exceeds, Left, UpPeers
        <4>2. Times(Ratio, data[p]) \div Scale \in Nat
          <5>1. Ratio \in Nat /\ data[p] \in Nat
            BY RatioType, Numbers DEF IInv, Types, TypeOK
          <5>2. Times(Ratio, data[p]) \in Nat
            BY <5>1, TimesType
          <5> QED
            BY <5>2, Quotients, Numbers
        <4>3. Share(inBw[p], run.elapsed) \in Nat
          <5>1. inBw[p] \in Nat /\ run.elapsed \in Nat
            BY <1>1 DEF IInv, Types, TypeOK, Run, Words
          <5> QED
            BY <5>1, ShareType
        <4> QED
          BY <4>1, <4>2, <4>3
      <3> QED
        BY <3>1 DEF Within
    <2>3. \A q \in Left : q < p + 1 => q < p \/ q = p
      BY Numbers DEF Left, UpPeers, Peer
    <2>4. p = N => \A q \in Left : q < p + 1
      BY Numbers DEF Left, UpPeers, Peer
    <2> QED
      BY <1>3, <2>1, <2>2, <2>3, <2>4
  <1> QED
    BY <1>3, <1>6, <1>8, <1>10 DEF GrantInv, KeepsToBandwidth

LEMMA SetOthersGrants ==
  ASSUME IInv, IInv', GrantInv, SetOthers, UNCHANGED scenario
  PROVE  GrantInv'
  <1>1. Types /\ run \in Run /\ run.at = "others" /\ LeftOver /\ Divided /\ Paid /\ Passed
    BY DEF IInv, Types, SetOthers, GrantInv
  <1>2. PICK others : others = IF run.remaining > 0 THEN UpPeers \ run.marked ELSE {}
    OBVIOUS
  <1>3. others = Left
    <2>1. run.remaining = Cardinality(Left) /\ run.remaining \in Nat
      BY <1>1 DEF LeftOver, Left, Run, Words
    <2> QED
      BY <1>2, <2>1, LeftType DEF Left
  <1>4. PICK r \in Nat : r = Ratio /\ r <= Scale /\ r * run.total <= Scale * run.bandwidth
    BY <1>1, RatioType, Numbers DEF Words
  <1>5. /\ limit' = [p \in Peer |-> IF p \in Left THEN r ELSE limit[p]]
        /\ run' = [run EXCEPT !.at = "recalc"] /\ UNCHANGED <<state, inBw>>
    BY <1>2, <1>3, <1>4 DEF SetOthers
  <1>6. /\ run'.at = "recalc" /\ run'.elapsed = run.elapsed /\ run'.demand = run.demand
        /\ UpPeers' = UpPeers /\ HostOut' = HostOut
    BY <1>1, <1>5 DEF Run, UpPeers, HostOut
  <1>7. Left \subseteq Peer /\ run.marked \subseteq Peer /\ UpPeers \subseteq run.marked \cup Left
        /\ run.marked \subseteq UpPeers /\ UpPeers \subseteq Peer
    BY <1>1 DEF Left, UpPeers, Divided, Sharing
  <1>8. /\ \A p \in Left : /\ limit'[p] = r /\ run.demand[p] = data[p]
                           /\ Granted(p)' = r * data[p]
        /\ \A p \in run.marked : limit'[p] = limit[p] /\ Granted(p)' = Granted(p)
    <2>1. \A p \in Left : run.demand[p] = data[p]
      BY <1>1 DEF Paid, Sharing
    <2>2. \A p \in Left : limit'[p] = r
      BY <1>5, <1>7
    <2>3. \A p \in run.marked : limit'[p] = limit[p]
      BY <1>5, <1>7 DEF Left
    <2> QED
      BY <1>6, <2>1, <2>2, <2>3 DEF Granted
  <1>9. run.elapsed \in Nat /\ HostOut \in Nat /\ \A p \in Peer : inBw[p] \in Nat /\ data[p] \in Nat
    BY <1>1, ScenarioTypes, Numbers DEF Types, TypeOK, Run, Words
  \* Each peer can take what it is granted.
  <1>10. ASSUME NEW p \in UpPeers, limit'[p] # 1, inBw[p] # 0
         PROVE  Granted(p)' \div Scale <= (inBw[p] * run.elapsed) \div Second
    <2>1. PICK s \in Nat, b \in Nat :
            /\ s = Share(inBw[p], run.elapsed) /\ b = (inBw[p] * run.elapsed) \div Second /\ s <= b
      <3>1. PICK c \in Nat : c = inBw[p] * run.elapsed
        BY <1>7, <1>9, Products
      <3>2. c \div Second \in Nat
        BY <3>1, Quotients, Numbers
      <3> QED
        BY <1>7, <1>9, <3>1, <3>2, ShareType
    <2>2. PICK g \in Nat : g = Granted(p)'
      BY <1>7, GrantTypesNext
    <2>3. g \div Scale <= s
      <3>1. CASE p \in run.marked
        <4>1. g <= Scale * s
          BY <1>1, <1>8, <1>10, <2>1, <2>2, <3>1 DEF Paid, Sharing
        <4>2. PICK q \in Nat : q = g \div Scale /\ q * Scale <= g
          BY Quotients, Numbers
        <4>3. q * Scale = Scale * q /\ Scale * q \in Nat /\ Scale * s \in Nat
          BY Numbers
        <4>4. Scale * q <= Scale * s
          BY <4>1, <4>2, <4>3
        <4> QED
          BY <4>2, <4>4, ScaleCancels
      <3>2. CASE p \in Left
        <4>1. PICK d \in Nat : d = data[p] /\ d <= MaxData
          BY <1>1, <1>7, Numbers DEF Types, TypeOK
        <4>2. g = r * d
          BY <1>8, <2>2, <3>2, <4>1
        <4>3. r * d <= Scale * d /\ Scale * d <= Scale * MaxData
          BY <1>4, <4>1, Products, Numbers
        <4>4. Scale * MaxData < Word /\ Scale * MaxData \in Nat /\ Scale * d \in Nat /\ r * d \in Nat
          BY ThrottleAssumption, Numbers
        <4>5. r * d < Word
          BY <4>3, <4>4, Numbers
        <4>6. Times(r, d) = g
          BY <4>2, <4>5, TimesType
        <4>7. Times(r, d) \div Scale <= s
          BY <1>1, <1>4, <1>10, <2>1, <3>2, <4>1 DEF Passed, Within
        <4> QED
          BY <4>6, <4>7
      <3> QED
        BY <1>7, <3>1, <3>2
    <2>4. g \div Scale \in Nat
      BY Quotients, Numbers
    <2> QED
      BY <2>1, <2>2, <2>3, <2>4
  \* All of them together can be sent.
  <1>11. ASSUME HostOut # 0
         PROVE  Sum(Grants', UpPeers \ Least1') <= Scale * ((HostOut * run.elapsed) \div Second)
    <2>1. PICK A, S, T : A = run.marked \ Least1 /\ S = UpPeers \ Least1' /\ T = A \cup Left
      OBVIOUS
    <2>2. Grants \in [Peer -> Nat] /\ Grants' \in [Peer -> Nat] /\ data \in [Peer -> Nat]
          /\ \A p \in Peer : Grants[p] = Granted(p) /\ Grants'[p] = Granted(p)'
      BY <1>9, GrantTypes, GrantTypesNext, SumOfData
    <2>3. \A p \in Peer : p \in S => p \in T /\ Grants'[p] <= Grants'[p]
      <3>1. ASSUME NEW p \in Peer, p \in S PROVE p \in T
        <4>1. p \in UpPeers /\ limit'[p] # 1
          BY <1>6, <2>1, <3>1 DEF Least1
        <4>2. p \in run.marked => p \in A
          BY <1>8, <2>1, <4>1 DEF Least1
        <4> QED
          BY <1>7, <2>1, <4>1, <4>2
      <3>2. \A p \in Peer : Grants'[p] <= Grants'[p]
        BY <2>2
      <3> QED
        BY <3>1, <3>2
    <2>4. Sum(Grants', S) <= Sum(Grants', T)
      BY <2>2, <2>3, SumLeast
    <2>5. Sum(Grants', T) = Sum(Grants', A) + Sum(Grants', Left)
      <3>1. \A p \in Peer : p \in T <=> p \in A \/ p \in Left
        BY <2>1
      <3>2. \A p \in Peer : ~(p \in A /\ p \in Left)
        BY <2>1 DEF Left
      <3> QED
        BY <2>2, <3>1, <3>2, SumSplit
    <2>6. Sum(Grants', A) = Sum(Grants, A)
      <3>1. \A p \in Peer : p \in A => Grants'[p] = Grants[p]
        BY <1>8, <2>1, <2>2
      <3> QED
        BY <2>2, <3>1, SumSame
    <2>7. Sum(Grants', Left) = r * Sum(data, Left)
      <3>1. \A p \in Peer : p \in Left => Grants'[p] = r * data[p]
        BY <1>8, <2>2
      <3> QED
        BY <2>2, <3>1, SumScaled
    <2>8. PICK n \in Nat, m \in Nat, w \in Nat, a \in Nat, x \in Nat :
            /\ n = Sum(data, Left) /\ m = run.total /\ w = run.bandwidth /\ a = Sum(Grants, A)
            /\ x = Sum(Grants', S)
      <3>1. Sum(data, Left) \in Nat /\ Sum(Grants, A) \in Nat /\ Sum(Grants', S) \in Nat
        BY <2>2, SumType
      <3> QED
        BY <1>1, <3>1 DEF Run, Words
    <2>9. PICK c \in Nat, b \in Nat :
            c = Share(HostOut, run.elapsed) /\ b = (HostOut * run.elapsed) \div Second /\ c <= b
      <3>1. PICK d \in Nat : d = HostOut * run.elapsed
        BY <1>9, Products
      <3>2. d \div Second \in Nat
        BY <3>1, Quotients, Numbers
      <3> QED
        BY <1>9, <3>1, <3>2, ShareType
    <2>10. a + Scale * w <= Scale * c
      BY <1>1, <1>11, <2>1, <2>8, <2>9 DEF Paid, Sharing
    <2>11. n <= m
      BY <1>1, <1>11, <2>8 DEF LeftOver, Left
    <2>12. r * n <= r * m /\ r * n \in Nat /\ r * m \in Nat /\ r * m <= Scale * w
      BY <1>4, <2>8, <2>11, Products
    <2>13. Scale * c <= Scale * b /\ Scale * c \in Nat /\ Scale * b \in Nat /\ Scale * w \in Nat
      BY <2>9, Products, Numbers
    <2>14. x <= a + r * n
      BY <2>4, <2>5, <2>6, <2>7, <2>8
    <2>15. x <= Scale * b
      BY <2>10, <2>12, <2>13, <2>14
    <2> QED
      BY <2>1, <2>8, <2>9, <2>15
  <1>12. KeepsToBandwidth'
    <2>1. ASSUME HostOut # 0
          PROVE  Sum([p \in Peer |-> Granted(p)'], UpPeers \ Least1')
                   <= Scale * ((HostOut * run.elapsed) \div Second)
      BY <1>11, <2>1 DEF Grants
    <2>2. \A p \in UpPeers : p \notin Least1' => limit'[p] # 1
      BY <1>6 DEF Least1
    <2>3. \A p \in UpPeers \ Least1' :
            inBw[p] # 0 => Granted(p)' \div Scale <= (inBw[p] * run.elapsed) \div Second
      BY <1>10, <2>2
    <2> QED
      BY <1>5, <1>6, <2>1, <2>3 DEF KeepsToBandwidth, Budget, Least1
  <1> QED
    BY <1>6, <1>12 DEF GrantInv, Paid, Passed, Sharing

\* Outside the function nothing of this changes.
IdleSteps ==
  \E p \in 1 .. scenario.peers :
    \/ \E in \in scenario.theirIn, out \in scenario.theirOut : Connect(p, in, out)
    \/ Disconnect(p) \/ Gone(p) \/ Reset(p) \/ PeerThrottle(p)
    \/ \E in \in scenario.theirIn : HandleBandwidthLimit(p, in, outBw[p])
    \/ \E up, down \in scenario.rates : HandleThrottleConfigure(p, up, down)
    \/ \E n \in scenario.sizes : QueueData(p, n)

LEMMA Steps ==
  ASSUME Next
  PROVE  /\ UNCHANGED scenario
         /\ \/ IdleSteps /\ run.at = "idle" /\ run' = run
            \/ \E t \in Elapsed : BeginThrottle(t)
            \/ Throttling
  <1>1. ASSUME IdleSteps
        PROVE  run.at = "idle" /\ run' = run
    BY <1>1 DEF IdleSteps, Connect, Disconnect, Gone, Reset, ResetPeer, PeerThrottle,
       HandleBandwidthLimit, HandleThrottleConfigure, QueueData
  <1>2. UNCHANGED scenario /\ (IdleSteps \/ (\E t \in Elapsed : BeginThrottle(t)) \/ Throttling)
    BY DEF Next, IdleSteps
  <1> QED
    BY <1>1, <1>2

\* The second part, too, is beyond the division.
LEMMA BeyondSharing ==
  ASSUME IInv, BeginLimits \/ ShareRound \/ SharePeer \/ Tell
  PROVE  run'.at \notin Sharing /\ run'.at # "recalc"
  <1>1. run \in Run
    BY DEF IInv, Types
  <1>2. CASE BeginLimits
    BY <1>2 DEF BeginLimits, Idle, Sharing
  <1>3. CASE ShareRound
    BY <1>1, <1>3 DEF ShareRound, Sharing, Run
  <1>4. CASE SharePeer
    <2>1. PICK next : next = (IF run.peer = N THEN "shares" ELSE "share")
      OBVIOUS
    <2>2. run.at = "share" /\ next \notin Sharing /\ next # "recalc" /\ run'.at = next
      BY <1>1, <1>4, <2>1 DEF SharePeer, Sharing, Run
    <2> QED
      BY <2>2
  <1>5. CASE Tell
    BY <1>5 DEF Tell, Idle, Sharing
  <1> QED
    BY <1>2, <1>3, <1>4, <1>5

LEMMA GrantStep ==
  ASSUME IInv, IInv', GrantInv, [Next]_vars
  PROVE  GrantInv'
  <1>1. CASE UNCHANGED vars
    BY <1>1 DEF vars, peerVars, GrantInv, Paid, Passed, KeepsToBandwidth, Left, UpPeers, Least1,
       Grants, Granted, Within, Ratio, Budget, HostOut
  <1>2. CASE Next
    <2>1. UNCHANGED scenario
      BY <1>2, Steps
    <2>2. CASE IdleSteps /\ run.at = "idle" /\ run' = run
      BY <2>2, ElsewhereGrants DEF Sharing
    <2>3. ASSUME NEW t \in Elapsed, BeginThrottle(t) PROVE GrantInv'
      BY <2>1, <2>3, BeginThrottleGrants
    <2>4. CASE Round
      BY <2>1, <2>4, RoundGrants
    <2>5. CASE AdjustPeer
      BY <2>1, <2>5, TakeOutGrants, PassOverGrants
    <2>6. CASE SetOthers
      BY <2>1, <2>6, SetOthersGrants
    <2>7. CASE BeginLimits \/ ShareRound \/ SharePeer \/ Tell
      BY <2>7, BeyondSharing, ElsewhereGrants
    <2> QED
      BY <1>2, <2>2, <2>3, <2>4, <2>5, <2>6, <2>7, Steps DEF Throttling
  <1> QED
    BY <1>1, <1>2

--------------------------------------------------------------------------------
(* When packets are dropped. *)

\* The host and each of its peers could take all that was queued.
Plenty ==
  /\ HostOut # 0 => Sum(run.demand, UpPeers) <= Budget(HostOut)
  /\ \A p \in UpPeers : inBw[p] # 0 => run.demand[p] <= Budget(inBw[p])

Announcing == \A p \in Peer : inBw[p] = 0 \/ inBw[p] \in scenario.theirIn

\* Then no peer is taken out, and the ratio is all of it.
Untouched ==
  run.at \in Sharing /\ Plenty =>
    /\ run.marked = {} /\ run.total <= run.bandwidth
    /\ run.at = "adjust" => run.ratio = Scale

Timed == run.at \in Sharing => run.elapsed \in Elapsed

NeedInv == Announcing /\ Timed /\ Untouched /\ ThrottledOnlyWhenNeeded

LEMMA BudgetIsShare ==
  ASSUME BandwidthsFit, scenario \in Scenarios, NEW t \in Elapsed, NEW bw \in Words,
         bw = HostOut \/ bw = 0 \/ bw \in scenario.theirIn
  PROVE  Share(bw, t) = (bw * t) \div Second /\ (bw * t) \div Second \in Nat
  <1>1. t \in Nat /\ bw \in Nat
    BY Numbers DEF Words
  <1>2. bw * t < Word
    <2>1. CASE bw = 0
      <3>1. 0 * t = 0
        BY <1>1
      <3> QED
        BY <2>1, <3>1, Numbers
    <2>2. CASE bw # 0
      BY <2>2 DEF BandwidthsFit, HostOut
    <2> QED
      BY <2>1, <2>2
  <1>3. Times(bw, t) = bw * t /\ bw * t \in Nat
    BY <1>1, <1>2, TimesType
  <1>4. (bw * t) \div Second \in Nat
    BY <1>3, Quotients, Numbers
  <1> QED
    BY <1>3, <1>4 DEF Share

LEMMA AnnouncingKeeps ==
  ASSUME IInv, Announcing, [Next]_vars
  PROVE  Announcing'
  <1>1. CASE UNCHANGED <<inBw, scenario>>
    BY <1>1 DEF Announcing
  <1>2. CASE Next
    <2>1. UNCHANGED scenario
      BY <1>2, Steps
    <2>2. ASSUME NEW p \in 1 .. scenario.peers, NEW v,
                 v = 0 \/ v \in scenario.theirIn, inBw' = [inBw EXCEPT ![p] = v]
          PROVE  Announcing'
      BY <2>1, <2>2 DEF Announcing, IInv, Types, TypeOK
    <2>3. CASE IdleSteps
      <3>1. PICK p \in 1 .. scenario.peers :
              \/ \E in \in scenario.theirIn, out \in scenario.theirOut : Connect(p, in, out)
              \/ Disconnect(p) \/ Gone(p) \/ Reset(p) \/ PeerThrottle(p)
              \/ \E in \in scenario.theirIn : HandleBandwidthLimit(p, in, outBw[p])
              \/ \E up, down \in scenario.rates : HandleThrottleConfigure(p, up, down)
              \/ \E n \in scenario.sizes : QueueData(p, n)
        BY <2>3 DEF IdleSteps
      <3>2. CASE \/ Disconnect(p) \/ PeerThrottle(p)
                 \/ \E up, down \in scenario.rates : HandleThrottleConfigure(p, up, down)
                 \/ \E n \in scenario.sizes : QueueData(p, n)
        BY <1>1, <2>1, <3>2
        DEF Disconnect, PeerThrottle, HandleThrottleConfigure, QueueData
      <3>3. CASE Gone(p) \/ Reset(p)
        <4>1. inBw' = [inBw EXCEPT ![p] = 0]
          BY <3>3 DEF Gone, Reset, ResetPeer
        <4> QED
          BY <2>2, <4>1
      <3>4. ASSUME NEW in \in scenario.theirIn, NEW out,
                   Connect(p, in, out) \/ HandleBandwidthLimit(p, in, out)
            PROVE  Announcing'
        <4>1. inBw' = [inBw EXCEPT ![p] = in]
          BY <3>4 DEF Connect, HandleBandwidthLimit
        <4> QED
          BY <2>2, <4>1
      <3> QED
        BY <3>1, <3>2, <3>3, <3>4
    <2>4. ASSUME NEW t \in Elapsed, BeginThrottle(t) PROVE Announcing'
      BY <1>1, <2>1, <2>4 DEF BeginThrottle, peerVars
    <2>5. CASE Throttling
      <3>1. UNCHANGED inBw
        BY <2>5 DEF Throttling, Round, AdjustPeer, SetOthers, BeginLimits, ShareRound, SharePeer, Tell,
           peerVars
      <3> QED
        BY <1>1, <2>1, <3>1
    <2> QED
      BY <1>2, <2>3, <2>4, <2>5, Steps
  <1> QED
    BY <1>1, <1>2 DEF vars, peerVars

LEMMA BeginThrottleNeeds ==
  ASSUME BandwidthsFit, IInv, NEW t \in Elapsed, BeginThrottle(t), UNCHANGED scenario
  PROVE  Timed' /\ Untouched' /\ ThrottledOnlyWhenNeeded'
  <1>1. /\ run'.at = "rounds" /\ run'.marked = {} /\ run'.elapsed = t
        /\ run'.total = (IF HostOut = 0 THEN Word - 1 ELSE Sum(data, UpPeers) % Word)
        /\ run'.bandwidth = (IF HostOut = 0 THEN Word - 1 ELSE Share(HostOut, t))
        /\ run'.demand = [p \in Peer |-> IF p \in UpPeers THEN data[p] ELSE 0]
    BY DEF BeginThrottle, Idle
  <1>2. UNCHANGED state /\ HostOut' = HostOut /\ UpPeers' = UpPeers
    BY DEF BeginThrottle, HostOut, UpPeers
  <1>3. ASSUME HostOut # 0, Sum(run'.demand, UpPeers) <= (HostOut * t) \div Second
        PROVE  Sum(data, UpPeers) % Word <= Share(HostOut, t)
    <2>1. Sum(data, UpPeers) % Word = Sum(data, UpPeers) /\ data \in [Peer -> Nat]
      BY SumOfData
    <2>2. run'.demand \in [Peer -> Nat] /\ \A p \in Peer : p \in UpPeers => run'.demand[p] = data[p]
      BY <1>1, <2>1
    <2>3. Sum(run'.demand, UpPeers) = Sum(data, UpPeers)
      BY <2>1, <2>2, SumSame
    <2>4. scenario \in Scenarios /\ HostOut \in Words
      BY ScenarioTypes DEF IInv, Types
    <2>5. Share(HostOut, t) = (HostOut * t) \div Second
      BY <2>4, BudgetIsShare
    <2> QED
      BY <1>3, <2>1, <2>3, <2>5
  <1>4. Plenty' => run'.total <= run'.bandwidth
    BY <1>1, <1>2, <1>3, Numbers DEF Plenty, Budget
  <1> QED
    BY <1>1, <1>4 DEF Timed, Untouched, ThrottledOnlyWhenNeeded, Sharing

LEMMA RoundNeeds ==
  ASSUME IInv, Timed, Untouched, Round, UNCHANGED scenario
  PROVE  Timed' /\ Untouched' /\ ThrottledOnlyWhenNeeded'
  <1>1. run \in Run /\ run.at = "rounds"
    BY DEF IInv, Types, Round
  <1>2. \/ run' = [run EXCEPT !.at = "adjust", !.peer = 1, !.adjust = FALSE, !.ratio = Ratio]
        \/ run' = [run EXCEPT !.at = "others"]
    BY DEF Round
  <1>3. /\ run'.marked = run.marked /\ run'.total = run.total /\ run'.bandwidth = run.bandwidth
        /\ run'.elapsed = run.elapsed /\ run'.demand = run.demand
        /\ run'.at \in {"adjust", "others"} /\ (run'.at = "adjust" => run'.ratio = Ratio)
    BY <1>1, <1>2 DEF Run
  <1>4. UNCHANGED <<state, inBw>> /\ HostOut' = HostOut /\ UpPeers' = UpPeers
    BY DEF Round, peerVars, HostOut, UpPeers
  <1>5. Plenty' <=> Plenty
    BY <1>3, <1>4 DEF Plenty, Budget
  <1>6. Plenty => run.marked = {} /\ run.total <= run.bandwidth /\ Ratio = Scale
    BY <1>1 DEF Untouched, Ratio, Sharing
  <1> QED
    BY <1>1, <1>3, <1>5, <1>6 DEF Timed, Untouched, ThrottledOnlyWhenNeeded, Sharing

LEMMA AdjustNeeds ==
  ASSUME BandwidthsFit, IInv, Paid, Announcing, Timed, Untouched, AdjustPeer, UNCHANGED scenario
  PROVE  Timed' /\ Untouched' /\ ThrottledOnlyWhenNeeded'
  <1>1. run \in Run /\ run.at = "adjust" /\ Types /\ Dividing
    BY DEF IInv, Types, AdjustPeer
  <1>2. PICK p \in Peer : p = run.peer
    BY <1>1 DEF Dividing
  <1>3. PICK next : next = (IF p = N THEN "rounds" ELSE "adjust")
    OBVIOUS
  <1>4. /\ run'.at = next /\ run'.elapsed = run.elapsed /\ run'.demand = run.demand
        /\ run'.ratio = run.ratio
        /\ ~Exceeds(p) => /\ run'.marked = run.marked /\ run'.total = run.total
                          /\ run'.bandwidth = run.bandwidth
    <2>1. CASE Exceeds(p)
      <3>1. run' = TakeOut(p)
        BY <1>2, <2>1 DEF AdjustPeer
      <3> QED
        BY <1>1, <1>2, <1>3, <2>1, <3>1 DEF TakeOut, Advance, Run
    <2>2. CASE ~Exceeds(p)
      <3>1. run' = Advance
        BY <1>2, <2>2 DEF AdjustPeer
      <3> QED
        BY <1>1, <1>2, <1>3, <2>2, <3>1 DEF Advance, Run
    <2> QED
      BY <2>1, <2>2
  <1>5. UNCHANGED <<state, inBw>> /\ HostOut' = HostOut /\ UpPeers' = UpPeers
    BY DEF AdjustPeer, HostOut, UpPeers
  <1>6. Plenty' <=> Plenty
    BY <1>4, <1>5 DEF Plenty, Budget
  <1>7. ASSUME Plenty
        PROVE  ~Exceeds(p)
    <2> SUFFICES ASSUME Exceeds(p) PROVE FALSE
      OBVIOUS
    <2>1. p \in UpPeers /\ p \in Left /\ inBw[p] # 0 /\ run.ratio = Scale
      BY <1>1, <1>7 DEF Exceeds, UpPeers, Left, Untouched, Sharing
    <2>2. PICK d \in Nat, t \in Elapsed, b \in Words :
            d = data[p] /\ t = run.elapsed /\ b = inBw[p] /\ d <= MaxData
      BY <1>1, Numbers DEF Timed, Types, TypeOK, Sharing
    <2>3. run.demand[p] = d
      BY <1>1, <2>1, <2>2 DEF Paid, Sharing
    <2>4. d <= (b * t) \div Second
      BY <1>7, <2>1, <2>2, <2>3 DEF Plenty, Budget
    <2>5. Share(b, t) = (b * t) \div Second
      <3>1. b = 0 \/ b \in scenario.theirIn
        BY <2>2 DEF Announcing
      <3> QED
        BY <1>1, <3>1, BudgetIsShare DEF Types
    <2>6. Times(Scale, d) = Scale * d
      <3>1. Scale * d <= Scale * MaxData /\ Scale * MaxData < Word
        BY <2>2, Products, Numbers, ThrottleAssumption
      <3>2. Scale * d \in Nat /\ Scale * MaxData \in Nat
        BY Numbers
      <3> QED
        <4>1. Scale * d < Word
          BY <3>1, <3>2, Numbers
        <4> QED
          BY <3>2, <4>1, TimesType, Numbers
    <2>7. (Scale * d) \div Scale = d
      BY Numbers
    <2>8. d > Share(b, t)
      BY <2>1, <2>2, <2>6, <2>7 DEF Exceeds
    <2>9. Share(b, t) \in Nat
      <3>1. b \in Nat /\ t \in Nat
        BY Numbers DEF Words
      <3> QED
        BY <3>1, ShareType
    <2> QED
      BY <2>4, <2>5, <2>8, <2>9
  <1>8. Plenty => /\ run'.marked = {} /\ run'.total <= run'.bandwidth /\ run'.ratio = Scale
    BY <1>1, <1>4, <1>7 DEF Untouched, Sharing
  <1> QED
    BY <1>1, <1>3, <1>4, <1>6, <1>8 DEF Timed, Untouched, ThrottledOnlyWhenNeeded, Sharing

LEMMA SetOthersNeeds ==
  ASSUME IInv, Untouched, SetOthers, UNCHANGED scenario
  PROVE  Timed' /\ Untouched' /\ ThrottledOnlyWhenNeeded'
  <1>1. run \in Run /\ run.at = "others" /\ LeftOver
    BY DEF IInv, Types, SetOthers
  <1>2. PICK others : others = IF run.remaining > 0 THEN UpPeers \ run.marked ELSE {}
    OBVIOUS
  <1>3. others = Left
    <2>1. run.remaining = Cardinality(Left) /\ run.remaining \in Nat
      BY <1>1 DEF LeftOver, Left, Run, Words
    <2> QED
      BY <1>2, <2>1, LeftType DEF Left
  <1>4. /\ limit' = [p \in Peer |-> IF p \in Left THEN Ratio ELSE limit[p]]
        /\ run' = [run EXCEPT !.at = "recalc"] /\ UNCHANGED <<state, inBw>>
    BY <1>2, <1>3 DEF SetOthers
  <1>5. /\ run'.at = "recalc" /\ run'.elapsed = run.elapsed /\ run'.demand = run.demand
        /\ UpPeers' = UpPeers /\ HostOut' = HostOut
    BY <1>1, <1>4 DEF Run, UpPeers, HostOut
  <1>6. Plenty' <=> Plenty
    BY <1>4, <1>5 DEF Plenty, Budget
  <1>7. Plenty => \A p \in UpPeers : limit'[p] = Scale
    <2>1. Plenty => run.marked = {} /\ Ratio = Scale
      BY <1>1 DEF Untouched, Ratio, Sharing
    <2>2. Plenty => Left = UpPeers
      BY <2>1 DEF Left
    <2> QED
      BY <1>4, <2>1, <2>2 DEF UpPeers
  <1>8. ThrottledOnlyWhenNeeded'
    BY <1>5, <1>6, <1>7 DEF ThrottledOnlyWhenNeeded, Plenty
  <1> QED
    BY <1>5, <1>8 DEF Timed, Untouched, Sharing

LEMMA NeedStep ==
  ASSUME BandwidthsFit, IInv, GrantInv, NeedInv, [Next]_vars
  PROVE  NeedInv'
  <1>1. Announcing'
    BY AnnouncingKeeps DEF NeedInv
  <1>2. Timed' /\ Untouched' /\ ThrottledOnlyWhenNeeded'
    <2>1. CASE UNCHANGED vars
      BY <2>1 DEF vars, peerVars, NeedInv, Timed, Untouched, ThrottledOnlyWhenNeeded, Plenty, UpPeers,
         Budget, HostOut
    <2>2. CASE Next
      <3>1. UNCHANGED scenario
        BY <2>2, Steps
      <3>2. ASSUME run'.at \notin Sharing, run'.at # "recalc"
            PROVE  <1>2
        BY <3>2 DEF Timed, Untouched, ThrottledOnlyWhenNeeded
      <3>3. CASE IdleSteps /\ run.at = "idle" /\ run' = run
        BY <3>2, <3>3 DEF Sharing
      <3>4. ASSUME NEW t \in Elapsed, BeginThrottle(t) PROVE <1>2
        BY <3>1, <3>4, BeginThrottleNeeds
      <3>5. CASE Round
        BY <3>1, <3>5, RoundNeeds DEF NeedInv
      <3>6. CASE AdjustPeer
        BY <3>1, <3>6, AdjustNeeds DEF NeedInv, GrantInv
      <3>7. CASE SetOthers
        BY <3>1, <3>7, SetOthersNeeds DEF NeedInv
      <3>8. CASE BeginLimits \/ ShareRound \/ SharePeer \/ Tell
        BY <3>2, <3>8, BeyondSharing
      <3> QED
        BY <2>2, <3>3, <3>4, <3>5, <3>6, <3>7, <3>8, Steps DEF Throttling
    <2> QED
      BY <2>1, <2>2
  <1> QED
    BY <1>1, <1>2 DEF NeedInv

LEMMA GrantsHold == Spec => []GrantInv
  <1>1. Init => GrantInv
    <2>1. Init => run.at = "idle"
      BY DEF Init, Idle
    <2> QED
      BY <2>1 DEF GrantInv, Paid, Passed, KeepsToBandwidth, Sharing
  <1>2. IInv /\ IInv' /\ GrantInv /\ [Next]_vars => GrantInv'
    BY GrantStep
  <1> QED
    BY <1>1, <1>2, Inductive, PTL DEF Spec

\* With the limits that enet_host_bandwidth_throttle() sets, packets like those of the last
\* interval fit into the bandwidth of the host and into that of each peer, but for the peers
\* whose limit was raised to 1.
THEOREM BandwidthKept == Spec => []KeepsToBandwidth
  <1>1. GrantInv => KeepsToBandwidth
    BY DEF GrantInv
  <1> QED
    BY <1>1, GrantsHold, PTL

\* Packets are dropped only if the host or a peer could not take all that was queued,
\* as long as no bandwidth is so large that the product with the time wraps around.
THEOREM NeededThrottle ==
  ASSUME BandwidthsFit
  PROVE  Spec => []ThrottledOnlyWhenNeeded
  <1>1. Init => NeedInv
    <2>1. Init => run.at = "idle" /\ Announcing
      BY DEF Init, Idle, Announcing
    <2> QED
      BY <2>1 DEF NeedInv, Timed, Untouched, ThrottledOnlyWhenNeeded, Sharing
  <1>2. IInv /\ GrantInv /\ NeedInv /\ [Next]_vars => NeedInv'
    BY NeedStep
  <1>3. NeedInv => ThrottledOnlyWhenNeeded
    BY DEF NeedInv
  <1> QED
    BY <1>1, <1>2, <1>3, Inductive, GrantsHold, PTL DEF Spec

--------------------------------------------------------------------------------
(* What the peers are told they may send. *)

InSharing == {"shares", "share", "tell"}

Senders == \A p \in UpPeers : outBw[p] \in scenario.theirOut

ToldFit == (\A p \in UpPeers : told[p] # 0) /\ Sum(told, UpPeers) <= HostIn

Known == HostIn # 0 /\ ~recalc /\ run.at \notin InSharing => ToldFit

\* The bandwidth of the peers that send less than their share, and what it leaves.
Parts ==
  HostIn # 0 /\ run.at \in InSharing =>
    /\ run.marked \subseteq UpPeers /\ run.remaining = Cardinality(Left)
    /\ Sum(outBw, run.marked) + run.bandwidth = HostIn
    /\ run.remaining <= run.bandwidth

\* The share of the others fits into it.
Even ==
  HostIn # 0 /\ run.at \in InSharing /\ (run.at # "shares" \/ ~run.adjust) =>
    /\ run.ratio * run.remaining <= run.bandwidth
    /\ run.remaining # 0 => run.ratio # 0

ShareInv == Senders /\ Known /\ Parts /\ Even

LEMMA IdleShares ==
  ASSUME IInv, IInv', ShareInv, IdleSteps, run.at = "idle", run' = run, UNCHANGED scenario
  PROVE  ShareInv'
  <1>1. PICK p \in Peer :
          \/ \E in \in scenario.theirIn, out \in scenario.theirOut : Connect(p, in, out)
          \/ Disconnect(p) \/ Gone(p) \/ Reset(p) \/ PeerThrottle(p)
          \/ \E in \in scenario.theirIn : HandleBandwidthLimit(p, in, outBw[p])
          \/ \E up, down \in scenario.rates : HandleThrottleConfigure(p, up, down)
          \/ \E n \in scenario.sizes : QueueData(p, n)
    <2>1. 1 .. scenario.peers \subseteq Peer
      BY ScenarioTypes DEF IInv, Types
    <2> QED
      BY <2>1 DEF IdleSteps
  <1>2. Types
    BY DEF IInv
  <1>3. /\ \A q \in UpPeers' : \/ q \in UpPeers /\ outBw'[q] = outBw[q]
                               \/ outBw'[q] \in scenario.theirOut
        /\ recalc' \/ (recalc' = recalc /\ told' = told /\ UpPeers' \subseteq UpPeers)
    <2>1. ASSUME NEW in, NEW out \in scenario.theirOut, Connect(p, in, out) PROVE <1>3
      BY <1>2, <2>1 DEF Connect, UpPeers, Types, TypeOK
    <2>2. CASE Disconnect(p)
      BY <1>2, <2>2 DEF Disconnect, UpPeers, Types, TypeOK
    <2>3. CASE Gone(p) \/ Reset(p)
      BY <1>2, <2>3 DEF Gone, Reset, ResetPeer, UpPeers, Types, TypeOK
    <2>4. ASSUME NEW in, HandleBandwidthLimit(p, in, outBw[p]) PROVE <1>3
      BY <1>2, <2>4 DEF HandleBandwidthLimit, UpPeers, Types, TypeOK
    <2>5. CASE \/ PeerThrottle(p)
               \/ \E up, down \in scenario.rates : HandleThrottleConfigure(p, up, down)
               \/ \E n \in scenario.sizes : QueueData(p, n)
      BY <2>5 DEF PeerThrottle, HandleThrottleConfigure, QueueData, UpPeers
    <2> QED
      BY <1>1, <2>1, <2>2, <2>3, <2>4, <2>5
  <1>4. Senders'
    BY <1>3 DEF ShareInv, Senders
  <1>5. HostIn' = HostIn
    BY DEF HostIn
  <1>6. Known'
    <2> SUFFICES ASSUME HostIn # 0, ~recalc'
                 PROVE  ToldFit'
      BY <1>5 DEF Known
    <2>1. recalc' = recalc /\ told' = told /\ UpPeers' \subseteq UpPeers
      BY <1>3
    <2>2. ToldFit
      BY <2>1 DEF ShareInv, Known, InSharing
    <2>3. told \in [Peer -> Nat] /\ told' \in [Peer -> Nat]
      BY <1>2, <2>1, Numbers DEF Types, TypeOK, Words
    <2>4. \A q \in Peer : q \in UpPeers' => q \in UpPeers /\ told'[q] <= told[q]
      BY <2>1, <2>3
    <2>5. Sum(told', UpPeers') <= Sum(told, UpPeers)
      BY <2>3, <2>4, SumLeast
    <2>6. Sum(told, UpPeers) \in Nat /\ Sum(told', UpPeers') \in Nat /\ HostIn \in Nat
      BY <1>2, <2>3, SumType, ScenarioTypes DEF Types, Words
    <2> QED
      BY <1>5, <2>1, <2>2, <2>5, <2>6 DEF ToldFit
  <1>7. Parts' /\ Even'
    BY DEF Parts, Even, InSharing
  <1> QED
    BY <1>4, <1>6, <1>7 DEF ShareInv

\* Nobody is told anything while the outgoing bandwidth is divided.
LEMMA OutgoingShares ==
  ASSUME IInv, ShareInv, UNCHANGED scenario,
         (\E t \in Elapsed : BeginThrottle(t)) \/ Round \/ AdjustPeer \/ SetOthers
  PROVE  ShareInv'
  <1>1. run \in Run
    BY DEF IInv, Types
  <1>2. run.at \notin InSharing /\ run'.at \notin InSharing
    <2>1. ASSUME NEW t \in Elapsed, BeginThrottle(t) PROVE <1>2
      BY <2>1 DEF BeginThrottle, Idle, InSharing
    <2>2. CASE Round
      BY <1>1, <2>2 DEF Round, InSharing, Run
    <2>3. CASE AdjustPeer
      <3>1. run.at = "adjust"
        BY <2>3 DEF AdjustPeer
      <3>2. PICK next : next = (IF run.peer = N THEN "rounds" ELSE run.at)
        OBVIOUS
      <3>3. run'.at = next
        BY <1>1, <2>3, <3>2 DEF AdjustPeer, TakeOut, Advance, Run
      <3> QED
        BY <3>1, <3>2, <3>3 DEF InSharing
    <2>4. CASE SetOthers
      BY <1>1, <2>4 DEF SetOthers, InSharing, Run
    <2> QED
      BY <2>1, <2>2, <2>3, <2>4, SMTT(30)
  <1>3. UNCHANGED <<state, outBw, told, recalc>> /\ UpPeers' = UpPeers /\ HostIn' = HostIn
    BY DEF BeginThrottle, Round, AdjustPeer, SetOthers, peerVars, UpPeers, HostIn
  <1>4. Senders'
    BY <1>3 DEF ShareInv, Senders
  <1>5. Known'
    BY <1>2, <1>3 DEF ShareInv, Known, ToldFit
  <1> QED
    BY <1>2, <1>4, <1>5 DEF ShareInv, Parts, Even

LEMMA BeginLimitsShares ==
  ASSUME SharesSuffice, IInv, ShareInv, BeginLimits, UNCHANGED scenario
  PROVE  ShareInv'
  <1>1. UNCHANGED <<state, outBw, told>> /\ UpPeers' = UpPeers /\ HostIn' = HostIn /\ run.at = "recalc"
    BY DEF BeginLimits, peerVars, UpPeers, HostIn
  <1>2. Senders'
    BY <1>1 DEF ShareInv, Senders
  <1>3. CASE ~recalc
    <2>1. run' = Idle /\ run'.at = "idle"
      BY <1>3 DEF BeginLimits, Idle
    <2>2. HostIn # 0 => ToldFit
      BY <1>1, <1>3 DEF ShareInv, Known, InSharing
    <2>3. Known' /\ Parts' /\ Even'
      BY <1>1, <2>1, <2>2 DEF Known, ToldFit, Parts, Even, InSharing
    <2> QED
      BY <1>2, <2>3 DEF ShareInv
  <1>4. CASE recalc /\ HostIn = 0
    BY <1>1, <1>2, <1>4 DEF ShareInv, Known, Parts, Even
  <1>5. CASE recalc /\ HostIn # 0
    <2>1. /\ run'.at = "shares" /\ run'.marked = {} /\ run'.remaining = Cardinality(UpPeers)
          /\ run'.bandwidth = HostIn /\ run'.adjust = TRUE
      BY <1>5 DEF BeginLimits, Idle
    <2>2. Left' = UpPeers
      BY <1>1, <2>1 DEF Left
    <2>3. Cardinality(UpPeers) <= HostIn
      <3>1. N <= HostIn /\ HostIn \in Nat
        BY <1>5, ScenarioTypes DEF SharesSuffice, IInv, Types, HostIn, Words
      <3>2. UpPeers \in SUBSET Peer
        BY DEF UpPeers
      <3>3. Cardinality(UpPeers) \in Nat /\ Cardinality(UpPeers) <= N
        BY <3>2, PeersCounted
      <3> QED
        BY <3>1, <3>3, Numbers
    <2>4. Sum(outBw, run'.marked) + run'.bandwidth = HostIn
      <3>1. outBw \in [Peer -> Nat] /\ HostIn \in Nat
        BY Numbers, ScenarioTypes DEF IInv, Types, TypeOK, Words
      <3>2. PICK S : S = run'.marked
        OBVIOUS
      <3>3. Sum(outBw, S) = 0
        BY <2>1, <3>1, <3>2, SumEmpty
      <3> QED
        BY <2>1, <3>1, <3>2, <3>3
    <2>5. Parts'
      BY <1>1, <2>1, <2>2, <2>3, <2>4 DEF Parts
    <2> QED
      BY <1>2, <2>1, <2>5 DEF ShareInv, Known, Even, InSharing
  <1> QED
    BY <1>3, <1>4, <1>5

LEMMA RoundShares ==
  ASSUME IInv, ShareInv, ShareRound, UNCHANGED scenario
  PROVE  ShareInv'
  <1>1. run \in Run /\ run.at = "shares"
    BY DEF IInv, Types, ShareRound
  <1>2. UNCHANGED <<state, outBw, told>> /\ UpPeers' = UpPeers /\ HostIn' = HostIn
    BY DEF ShareRound, peerVars, UpPeers, HostIn
  <1>3. \/ /\ run.remaining > 0
           /\ run' = [run EXCEPT !.at = "share", !.peer = 1, !.adjust = FALSE,
                                 !.ratio = run.bandwidth \div run.remaining]
        \/ /\ ~(run.remaining > 0 /\ run.adjust)
           /\ run' = [run EXCEPT !.at = "tell"]
    BY DEF ShareRound
  <1>4. /\ run'.at \in InSharing /\ run'.marked = run.marked /\ run'.remaining = run.remaining
        /\ run'.bandwidth = run.bandwidth
    BY <1>1, <1>3 DEF Run, InSharing
  <1>5. Senders' /\ Known'
    BY <1>2, <1>4 DEF ShareInv, Senders, Known
  <1>6. Parts'
    BY <1>1, <1>2, <1>4 DEF ShareInv, Parts, Left, InSharing
  <1>7. Even'
    <2> SUFFICES ASSUME HostIn # 0
                 PROVE  /\ run'.ratio * run'.remaining <= run'.bandwidth
                        /\ run'.remaining # 0 => run'.ratio # 0
      BY <1>2 DEF Even
    <2>1. PICK n \in Nat, b \in Nat, r \in Nat :
            n = run.remaining /\ b = run.bandwidth /\ r = run.ratio
      BY <1>1 DEF Run, Words
    <2>2. n <= b
      BY <1>1, <2>1 DEF ShareInv, Parts, InSharing
    <2>3. CASE run'.at = "share"
      <3>1. n > 0 /\ run'.ratio = b \div n
        BY <1>1, <1>3, <2>1, <2>3 DEF Run
      <3>2. PICK q \in Nat : q = b \div n /\ q * n <= b /\ b < (q + 1) * n
        BY <3>1, Quotients
      <3>3. q # 0
        BY <2>2, <3>2
      <3> QED
        BY <1>4, <2>1, <3>1, <3>2, <3>3
    <2>4. CASE run'.at = "tell"
      <3>1. ~(run.remaining > 0 /\ run.adjust) /\ run'.ratio = r
        BY <1>1, <1>3, <2>1, <2>4 DEF Run
      <3>2. CASE ~run.adjust
        <4>1. r * n <= b /\ (n # 0 => r # 0)
          BY <1>1, <2>1, <3>2 DEF ShareInv, Even, InSharing
        <4> QED
          BY <1>4, <2>1, <3>1, <4>1
      <3>3. CASE ~(run.remaining > 0)
        <4>1. n = 0 /\ r * 0 = 0
          BY <2>1, <3>3
        <4> QED
          BY <1>4, <2>1, <3>1, <4>1
      <3> QED
        BY <3>1, <3>2, <3>3
    <2> QED
      BY <1>1, <1>3, <2>3, <2>4 DEF Run
  <1> QED
    BY <1>5, <1>6, <1>7 DEF ShareInv

LEMMA PeerShares ==
  ASSUME SharesSuffice, IInv, ShareInv, SharePeer, UNCHANGED scenario
  PROVE  ShareInv'
  <1>1. run \in Run /\ run.at = "share" /\ Types /\ Shared
    BY DEF IInv, Types, SharePeer
  <1>2. PICK p \in Peer : p = run.peer
    BY <1>1 DEF Shared
  <1>3. PICK next : next = (IF p = N THEN "shares" ELSE "share")
    OBVIOUS
  <1>4. UNCHANGED <<state, outBw, told>> /\ UpPeers' = UpPeers /\ HostIn' = HostIn
    BY DEF SharePeer, peerVars, UpPeers, HostIn
  <1>5. next \in InSharing
    BY <1>3 DEF InSharing
  <1>6. CASE ~BelowShare(p)
    <2>1. run' = [run EXCEPT !.peer = p + 1, !.at = next]
      BY <1>1, <1>2, <1>3, <1>6 DEF SharePeer, Run
    <2>2. /\ run'.at = next /\ run'.marked = run.marked /\ run'.remaining = run.remaining
          /\ run'.bandwidth = run.bandwidth /\ run'.ratio = run.ratio
      BY <1>1, <2>1 DEF Run
    <2>3. Senders' /\ Known'
      BY <1>4, <1>5, <2>2 DEF ShareInv, Senders, Known
    <2>4. Parts'
      BY <1>1, <1>4, <2>2 DEF ShareInv, Parts, Left, InSharing
    <2>5. Even'
      BY <1>1, <1>4, <2>2 DEF ShareInv, Even, InSharing
    <2> QED
      BY <2>3, <2>4, <2>5 DEF ShareInv
  <1>7. CASE BelowShare(p)
    <2>1. PICK o \in Nat : o = outBw[p]
      BY <1>1, Numbers DEF Types, TypeOK, Words
    <2>2. PICK m, b : m = Minus(run.remaining, 1) /\ b = Minus(run.bandwidth, o)
      OBVIOUS
    <2>3. run' = [run EXCEPT !.peer = p + 1, !.at = next, !.adjust = TRUE,
                             !.marked = run.marked \cup {p}, !.remaining = m, !.bandwidth = b]
      BY <1>1, <1>2, <1>3, <1>7, <2>1, <2>2 DEF SharePeer, LeaveOut, Run
    <2>4. /\ run'.at = next /\ run'.marked = run.marked \cup {p} /\ run'.remaining = m
          /\ run'.bandwidth = b /\ run'.ratio = run.ratio /\ run'.adjust = TRUE
      BY <1>1, <2>3 DEF Run
    <2>5. p \in Left /\ p \in UpPeers /\ p \notin run.marked /\ Left' = Left \ {p}
      BY <1>4, <1>7, <2>4 DEF BelowShare, Left, UpPeers
    <2>6. Senders' /\ Known'
      BY <1>4, <1>5, <2>4 DEF ShareInv, Senders, Known
    <2>7. ASSUME HostIn # 0
          PROVE  /\ run'.marked \subseteq UpPeers /\ m = Cardinality(Left \ {p})
                 /\ Sum(outBw, run'.marked) + b = HostIn /\ m <= b
                 /\ run.ratio * m <= b /\ run.ratio # 0
      <3>1. PICK n \in Nat, w \in Nat, r \in Nat :
              n = run.remaining /\ w = run.bandwidth /\ r = run.ratio
        BY <1>1 DEF Run, Words
      <3>2. /\ n = Cardinality(Left) /\ Sum(outBw, run.marked) + w = HostIn
            /\ run.marked \subseteq UpPeers /\ r * n <= w /\ (n # 0 => r # 0)
        BY <1>1, <2>7, <3>1 DEF ShareInv, Parts, Even, InSharing
      <3>3. Left \in SUBSET Peer
        BY DEF Left, UpPeers
      <3>4. Cardinality(Left \ {p}) = n - 1 /\ n >= 1
        BY <2>5, <3>2, <3>3, OnePeerLess
      <3>5. o # 0
        <4>1. outBw[p] \in scenario.theirOut
          BY <2>5 DEF ShareInv, Senders
        <4> QED
          BY <1>1, <2>1, <2>7, <4>1 DEF SharesSuffice, Types, HostIn
      <3>6. o < r
        BY <1>7, <2>1, <3>1, <3>5 DEF BelowShare
      <3>7. r * (n - 1) = r * n - r /\ r * n \in Nat /\ n - 1 \in Nat
        BY <3>4
      <3>8. PICK k \in Nat : k = n - 1
        BY <3>4
      <3>9. r * k <= w - o /\ o <= w /\ r * k \in Nat
        <4>1. r * k + r <= w /\ r * k \in Nat
          BY <3>2, <3>7, <3>8
        <4> QED
          BY <3>6, <4>1
      <3>10. k <= r * k
        BY <3>6
      <3>11. m = k
        <4>1. run.remaining \in Words
          BY <1>1 DEF Run
        <4> QED
          BY <2>2, <3>1, <3>4, <3>8, <4>1, MinusType
      <3>12. b = w - o
        <4>1. run.bandwidth \in Words
          BY <1>1 DEF Run
        <4> QED
          BY <2>1, <2>2, <3>1, <3>9, <4>1, MinusType
      <3>13. Sum(outBw, run'.marked) = o + Sum(outBw, run.marked) /\ Sum(outBw, run.marked) \in Nat
        <4>1. outBw \in [Peer -> Nat]
          BY <1>1, Numbers DEF Types, TypeOK, Words
        <4>2. PICK S : S = run'.marked
          OBVIOUS
        <4>3. p \in S /\ S \ {p} = run.marked
          BY <2>4, <2>5, <4>2
        <4>4. Sum(outBw, S) = outBw[p] + Sum(outBw, S \ {p})
          BY <4>1, <4>3, SumTake
        <4> QED
          BY <2>1, <4>1, <4>2, <4>3, <4>4, SumType
      <3>14. Sum(outBw, run'.marked) + b = HostIn
        BY <3>2, <3>9, <3>12, <3>13
      <3> QED
        BY <2>4, <2>5, <3>1, <3>2, <3>4, <3>6, <3>8, <3>9, <3>10, <3>11, <3>12, <3>14
    <2>8. Parts'
      BY <1>4, <2>4, <2>5, <2>7 DEF Parts
    <2>9. Even'
      BY <1>4, <2>4, <2>7 DEF Even
    <2> QED
      BY <2>6, <2>8, <2>9 DEF ShareInv
  <1> QED
    BY <1>6, <1>7

LEMMA TellShares ==
  ASSUME SharesSuffice, IInv, IInv', ShareInv, Tell, UNCHANGED scenario
  PROVE  ShareInv'
  <1>1. run \in Run /\ run.at = "tell" /\ Types
    BY DEF IInv, Types, Tell
  <1>2. UNCHANGED <<state, outBw, recalc>> /\ UpPeers' = UpPeers /\ HostIn' = HostIn
    BY DEF Tell, UpPeers, HostIn
  <1>3. run'.at \notin InSharing
    BY DEF Tell, Idle, InSharing
  <1>4. Senders' /\ Parts' /\ Even'
    BY <1>2, <1>3 DEF ShareInv, Senders, Parts, Even
  <1>5. ASSUME HostIn # 0
        PROVE  ToldFit'
    <2>1. PICK n \in Nat, w \in Nat, r \in Nat :
            n = run.remaining /\ w = run.bandwidth /\ r = run.ratio
      BY <1>1 DEF Run, Words
    <2>2. /\ n = Cardinality(Left) /\ Sum(outBw, run.marked) + w = HostIn
          /\ run.marked \subseteq UpPeers /\ r * n <= w /\ (n # 0 => r # 0)
      BY <1>1, <1>5, <2>1 DEF ShareInv, Parts, Even, InSharing
    <2>3. outBw \in [Peer -> Nat] /\ told' \in [Peer -> Nat] /\ Left \in SUBSET Peer
          /\ UpPeers \subseteq Peer
      BY <1>1, Numbers DEF IInv, Types, TypeOK, Words, Left, UpPeers
    <2>4. /\ \A p \in run.marked : told'[p] = outBw[p]
          /\ \A p \in Left : told'[p] = r
      BY <2>1, <2>2, <2>3 DEF Tell, Announced, Left
    <2>5. PICK a \in Nat : a = Sum(outBw, run.marked)
      BY <2>3, SumType
    <2>6. Sum(told', run.marked) = a
      <3>1. \A p \in Peer : p \in run.marked => told'[p] = outBw[p]
        BY <2>4
      <3> QED
        BY <2>3, <2>5, <3>1, SumSame
    <2>7. Sum(told', Left) = r * n
      BY <2>2, <2>3, <2>4, SumConst
    <2>8. Sum(told', UpPeers) = Sum(told', run.marked) + Sum(told', Left)
      <3>1. \A p \in Peer : p \in UpPeers <=> p \in run.marked \/ p \in Left
        BY <2>2 DEF Left
      <3>2. \A p \in Peer : ~(p \in run.marked /\ p \in Left)
        BY DEF Left
      <3> QED
        BY <2>3, <3>1, <3>2, SumSplit
    <2>9. Sum(told', UpPeers) <= HostIn
      <3>1. r * n \in Nat
        OBVIOUS
      <3>2. a + w = HostIn
        BY <2>2, <2>5
      <3> QED
        BY <2>2, <2>6, <2>7, <2>8, <3>1, <3>2
    <2>10. ASSUME NEW p \in UpPeers PROVE told'[p] # 0
      <3>1. CASE p \in run.marked
        <4>1. outBw[p] \in scenario.theirOut /\ 0 \notin scenario.theirOut
          BY <1>1, <1>5 DEF ShareInv, Senders, SharesSuffice, Types, HostIn
        <4> QED
          BY <2>4, <3>1, <4>1
      <3>2. CASE p \notin run.marked
        <4>1. p \in Left
          BY <3>2 DEF Left
        <4>2. n # 0
          BY <2>2, <4>1, LeftType
        <4> QED
          BY <2>2, <2>4, <4>1, <4>2
      <3> QED
        BY <3>1, <3>2
    <2> QED
      BY <1>2, <2>9, <2>10 DEF ToldFit
  <1>6. Known'
    BY <1>2, <1>5 DEF Known
  <1> QED
    BY <1>4, <1>6 DEF ShareInv

LEMMA ShareStep ==
  ASSUME SharesSuffice, IInv, IInv', ShareInv, [Next]_vars
  PROVE  ShareInv'
  <1>1. CASE UNCHANGED vars
    BY <1>1 DEF vars, peerVars, ShareInv, Senders, Known, ToldFit, Parts, Even, Left, UpPeers, HostIn
  <1>2. CASE Next
    <2>1. UNCHANGED scenario
      BY <1>2, Steps
    <2>2. CASE IdleSteps /\ run.at = "idle" /\ run' = run
      BY <2>1, <2>2, IdleShares
    <2>3. CASE (\E t \in Elapsed : BeginThrottle(t)) \/ Round \/ AdjustPeer \/ SetOthers
      BY <2>1, <2>3, OutgoingShares
    <2>4. CASE BeginLimits
      BY <2>1, <2>4, BeginLimitsShares
    <2>5. CASE ShareRound
      BY <2>1, <2>5, RoundShares
    <2>6. CASE SharePeer
      BY <2>1, <2>6, PeerShares
    <2>7. CASE Tell
      BY <2>1, <2>7, TellShares
    <2> QED
      BY <1>2, <2>2, <2>3, <2>4, <2>5, <2>6, <2>7, Steps DEF Throttling
  <1> QED
    BY <1>1, <1>2

\* What the connected peers were last told they may send is a limit for each of them and
\* fits into the incoming bandwidth of the host, if that is enough for all and every
\* foreign host has an outgoing bandwidth.
THEOREM SharesAlwaysFit ==
  ASSUME SharesSuffice
  PROVE  Spec => []SharesFit
  <1>1. Init => ShareInv
    <2> SUFFICES ASSUME Init PROVE ShareInv
      OBVIOUS
    <2>1. UpPeers = {} /\ run.at = "idle" /\ HostIn \in Nat
      BY ScenarioTypes DEF Init, UpPeers, Idle, Words
    <2>2. told \in [Peer -> Nat]
      BY <2>1 DEF Init
    <2>3. Sum(told, UpPeers) = 0
      BY <2>1, <2>2, SumEmpty
    <2> QED
      BY <2>1, <2>3 DEF ShareInv, Senders, Known, ToldFit, Parts, Even, InSharing
  <1>2. IInv /\ IInv' /\ ShareInv /\ [Next]_vars => ShareInv'
    BY ShareStep
  <1>3. ShareInv => SharesFit
    BY DEF ShareInv, Known, ToldFit, SharesFit, InSharing
  <1> QED
    BY <1>1, <1>2, <1>3, Inductive, PTL DEF Spec

================================================================================
