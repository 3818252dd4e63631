---------------------------- MODULE ENetPacketProofs ----------------------------
(***************************************************************************)
(* Proofs about ENetPacket, for any peers, any sizes of packets in         *)
(* fragments and any number of packets.                                    *)
(*                                                                         *)
(* The proof looks at two numbers per peer and packet: how many commands   *)
(* of the peer refer to the packet (Uses), and how many of these are       *)
(* received ones (Received).  Every operation either enters a new packet   *)
(* (SoundNew) or gives up some references of one peer (SoundRelease), or   *)
(* moves commands between lists of a peer, which leaves the numbers alone. *)
(***************************************************************************)
EXTENDS ENetPacket, SequenceTheorems, FiniteSetTheorems, WellFoundedInduction, TLAPS

Command == [pkt : Ids, ch : Channels, num : Ids \cup {0}, first : BOOLEAN]
Packet == [live : BOOLEAN, count : Nat]
Counts == [Ids -> Nat]

\* The commands of p that refer to each packet, in the lists h and the queues Q.
Uses(h, Q, p) ==
    Plus(Plus(Plus(h[p]["unsent"], h[p]["resend"]), Plus(h[p]["sent"], h[p]["datagram"])),
         Plus(h[p]["incoming"], Refers(Q[p])))

\* The references to k, when A says what each peer refers to.
Refs(A, k) == Cardinality(UNION {{p} \X (1 .. A[p][k]) : p \in Peers})

\* The packets mem of which A is used and I of that received; those of free may be
\* live without being used.
Sound(A, I, mem, free) ==
    /\ A \in [Peers -> Counts] /\ I \in [Peers -> Counts]
    /\ mem \in Seq(Packet) /\ Len(mem) <= MaxPackets
    /\ \A p \in Peers, k \in Ids :
         /\ I[p][k] <= A[p][k] /\ A[p][k] <= Max(Sizes)
         /\ k > Len(mem) => A[p][k] = 0
         /\ I[p][k] > 0 => A[p][k] = 1 /\ \A q \in Peers \ {p} : A[q][k] = 0
    /\ \A k \in 1 .. Len(mem) :
         /\ mem[k].count = Refs(A, k)
         /\ mem[k].count > 0 => mem[k].live
         /\ mem[k].count = 0 /\ mem[k].live => k \in free

Used(h, Q) == [p \in Peers |-> Uses(h, Q, p)]
Received(h) == [p \in Peers |-> h[p]["incoming"]]

Held == [Peers -> [Lists -> Counts]]
Queues == [Peers -> Seq(Command)]

\* Lists, queues and packets that fit together.
Fits(h, Q, mem, free) ==
    h \in Held /\ Q \in Queues /\ Sound(Used(h, Q), Received(h), mem, free)

\* The packets that the buffers of the datagram point into are in the datagram's
\* lists, unless the peer was reset in its turn.
TurnHolds ==
    /\ turn \in [at : {"none", "unreliable", "ready"}, peer : Peers \cup {"nobody"},
                 buffers : SUBSET Ids]
    /\ turn.at # "none" => 
         /\ turn.peer \in Peers /\ event = 0
         /\ \/ state[turn.peer] = "gone"
            \/ \A k \in turn.buffers :
                 held[turn.peer]["sent"][k] > 0 \/ held[turn.peer]["datagram"][k] > 0

\* The inductive invariant.
IInv ==
    /\ state \in [Peers -> {"connected", "later", "gone"}]
    /\ Fits(held, queue, memory, refused \cup {event})
    /\ TurnHolds
    /\ refused \subseteq Ids
    /\ event # 0 => event \in 1 .. Len(memory) /\ memory[event].live /\ memory[event].count = 0

--------------------------------------------------------------------------------
(* The constants, and the references in a queue. *)

LEMMA MaxSize == Max(Sizes) \in Nat \ {0} /\ \A size \in Sizes : size \in 1 .. Max(Sizes)
  <1>1. PICK n \in Sizes : \A size \in Sizes : n >= size
    BY PacketAssumption
  <1>2. Max(Sizes) \in Sizes /\ \A size \in Sizes : Max(Sizes) >= size
    BY <1>1, Zenon DEF Max
  <1>3. Sizes \subseteq Nat \ {0}
    BY PacketAssumption
  <1>4. PICK m \in Sizes : m = Max(Sizes)
    BY <1>2
  <1>5. m \in Nat \ {0} /\ \A size \in Sizes : m >= size /\ size \in Nat \ {0}
    BY <1>2, <1>3, <1>4
  <1>6. m \in Nat \ {0} /\ \A size \in Sizes : size \in 1 .. m
    BY <1>5
  <1> QED
    BY <1>4, <1>6

LEMMA IdsNat == MaxPackets \in Nat /\ Ids \subseteq Nat \ {0}
  BY PacketAssumption DEF Ids

LEMMA UpToCardinality ==
  ASSUME NEW n \in Nat
  PROVE  IsFiniteSet(1 .. n) /\ Cardinality(1 .. n) = n
  <1>1. 1 \in Int /\ n \in Int /\ (1 > n => n = 0)
    OBVIOUS
  <1>2. IsFiniteSet(1 .. n) /\ Cardinality(1 .. n) = IF 1 > n THEN 0 ELSE n - 1 + 1
    BY <1>1, FS_Interval
  <1> QED
    BY <1>1, <1>2

\* The commands of a queue that refer to k.
At(s, k) == {i \in 1 .. Len(s) : s[i].pkt = k}

LEMMA AtFinite ==
  ASSUME NEW s \in Seq(Command), NEW k
  PROVE  IsFiniteSet(At(s, k)) /\ Cardinality(At(s, k)) \in Nat
  <1>1. Len(s) \in Nat
    BY LenProperties
  <1>2. 1 \in Int /\ Len(s) \in Int
    BY <1>1
  <1>3. IsFiniteSet(1 .. Len(s))
    BY <1>2, FS_Interval
  <1>4. At(s, k) \in SUBSET (1 .. Len(s))
    BY DEF At
  <1>5. IsFiniteSet(At(s, k))
    BY <1>3, <1>4, FS_Subset
  <1> QED
    BY <1>5, FS_CardinalityType

LEMMA RefersType ==
  ASSUME NEW s \in Seq(Command)
  PROVE  Refers(s) \in Counts /\ \A k \in Ids : Refers(s)[k] = Cardinality(At(s, k))
  <1>1. DOMAIN s = 1 .. Len(s)
    BY LenProperties
  <1>2. ASSUME NEW k \in Ids
        PROVE  Cardinality({i \in DOMAIN s : s[i].pkt = k}) = Cardinality(At(s, k))
    BY <1>1, Zenon DEF At
  <1>3. \A k \in Ids : Cardinality(At(s, k)) \in Nat
    BY AtFinite
  <1> QED
    BY <1>2, <1>3 DEF Refers, Counts

LEMMA RefersEmpty == <<>> \in Seq(Command) /\ Refers(<<>>) = None
  <1>1. <<>> \in Seq(Command) /\ Len(<<>>) = 0
    BY EmptySeq
  <1>2. \A k : At(<<>>, k) = {}
    BY <1>1 DEF At
  <1>3. \A k \in Ids : Refers(<<>>)[k] = 0
    BY <1>1, <1>2, RefersType, FS_EmptySet
  <1>4. Refers(<<>>) \in Counts
    BY <1>1, RefersType
  <1> QED
    BY <1>3, <1>4 DEF None, Counts

LEMMA RefersConcat ==
  ASSUME NEW s \in Seq(Command), NEW t \in Seq(Command), NEW k \in Ids
  PROVE  /\ s \o t \in Seq(Command)
         /\ Refers(s \o t)[k] = Refers(s)[k] + Refers(t)[k]
  <1>1. /\ s \o t \in Seq(Command) /\ Len(s \o t) = Len(s) + Len(t)
        /\ \A i \in 1 .. Len(s) + Len(t) :
             (s \o t)[i] = IF i <= Len(s) THEN s[i] ELSE t[i - Len(s)]
    BY ConcatProperties
  <1>2. PICK n \in Nat : n = Len(s)
    BY LenProperties
  <1>3. PICK m \in Nat : m = Len(t)
    BY LenProperties
  <1>4. PICK u \in Seq(Command) : u = s \o t
    BY <1>1
  <1>5. /\ Len(u) = n + m
        /\ \A i \in 1 .. n + m : u[i] = IF i <= n THEN s[i] ELSE t[i - n]
    BY <1>1, <1>2, <1>3, <1>4
  <1> DEFINE Late == {i \in n + 1 .. n + m : u[i].pkt = k}
  <1>6. At(u, k) = At(s, k) \cup Late /\ At(s, k) \cap Late = {}
    <2>1. At(s, k) \cap Late = {}
      BY <1>2 DEF At
    <2>2. ASSUME NEW i \in At(u, k) PROVE i \in At(s, k) \cup Late
      <3>1. i \in 1 .. n + m /\ u[i].pkt = k
        BY <1>5 DEF At
      <3>2. CASE i <= n
        BY <3>1, <3>2, <1>5, <1>2 DEF At
      <3>3. CASE i > n
        BY <3>1, <3>3
      <3> QED
        BY <3>1, <3>2, <3>3
    <2>3. ASSUME NEW i \in At(s, k) PROVE i \in At(u, k)
      BY <1>5, <1>2 DEF At
    <2>4. ASSUME NEW i \in Late PROVE i \in At(u, k)
      BY <1>5 DEF At
    <2> QED
      BY <2>1, <2>2, <2>3, <2>4
  <1>7. IsFiniteSet(Late) /\ Cardinality(Late) = Cardinality(At(t, k))
    <2> DEFINE f == [i \in At(t, k) |-> i + n]
    <2>1. f \in Bijection(At(t, k), Late)
      <3>1. \A i \in At(t, k) : i \in 1 .. m /\ t[i].pkt = k
        BY <1>3 DEF At
      <3>2. \A i \in At(t, k) : f[i] = i + n
        OBVIOUS
      <3>3. \A i \in At(t, k) : f[i] \in Late
        <4> TAKE i \in At(t, k)
        <4>1. i \in 1 .. m /\ t[i].pkt = k
          BY <3>1
        <4>2. i + n \in 1 .. n + m /\ i + n \in n + 1 .. n + m /\ ~(i + n <= n) /\ (i + n) - n = i
          BY <4>1
        <4>3. u[i + n] = t[i]
          BY <4>2, <1>5
        <4> QED
          BY <4>1, <4>2, <4>3
      <3>4. \A i, j \in At(t, k) : f[i] = f[j] => i = j
        <4> HIDE DEF f
        <4> QED
          BY <3>1, <3>2
      <3>5. \A j \in Late : \E i \in At(t, k) : f[i] = j
        <4> TAKE j \in Late
        <4>1. j \in n + 1 .. n + m /\ u[j].pkt = k /\ u[j] = t[j - n]
          BY <1>5
        <4>2. j \in n + 1 .. n + m
          BY <4>1
        <4>3. j - n \in 1 .. m /\ (j - n) + n = j
          BY <4>2
        <4>4. j - n \in At(t, k)
          BY <4>1, <4>3, <1>3 DEF At
        <4> QED
          BY <4>3, <4>4
      <3> QED
        BY <3>3, <3>4, <3>5, Zenon DEF Bijection, Injection, Surjection, IsInjective
    <2>2. ExistsBijection(At(t, k), Late)
      BY <2>1 DEF ExistsBijection
    <2> QED
      BY <2>2, AtFinite, FS_Bijection
  <1> HIDE DEF Late
  <1>8. IsFiniteSet(At(s, k)) /\ Cardinality(At(s, k)) \in Nat
    BY AtFinite
  <1>9. /\ Cardinality(At(s, k) \cup Late)
             = Cardinality(At(s, k)) + Cardinality(Late) - Cardinality(At(s, k) \cap Late)
        /\ Cardinality(Late) \in Nat
    BY <1>7, <1>8, FS_Union, FS_CardinalityType
  <1>10. Cardinality(At(u, k)) = Cardinality(At(s, k)) + Cardinality(At(t, k))
    <2>1. Cardinality(At(s, k) \cap Late) = 0
      BY <1>6, FS_EmptySet
    <2> QED
      BY <1>6, <1>7, <1>8, <1>9, <2>1
  <1> QED
    BY <1>1, <1>4, <1>10, RefersType

LEMMA RefersOne ==
  ASSUME NEW s \in Seq(Command), Len(s) = 1
  PROVE  s[1] \in Command /\ Refers(s) = One(s[1].pkt)
  <1>1. s[1] \in Command
    BY ElementOfSeq
  <1>2. PICK k \in Ids : k = s[1].pkt
    BY <1>1 DEF Command
  <1>3. At(s, k) = {1} /\ \A j \in Ids \ {k} : At(s, j) = {}
    BY <1>2 DEF At
  <1>4. Refers(s)[k] = 1 /\ \A j \in Ids \ {k} : Refers(s)[j] = 0
    <2>1. Cardinality(At(s, k)) = 1
      BY <1>3, FS_Singleton, Zenon
    <2>2. \A j \in Ids \ {k} : Cardinality(At(s, j)) = 0
      BY <1>3, FS_EmptySet, Zenon
    <2> QED
      BY <2>1, <2>2, RefersType
  <1>5. Refers(s) \in Counts
    BY RefersType
  <1>6. Refers(s) = One(k)
    BY <1>4, <1>5 DEF One, None, Counts
  <1> QED
    BY <1>1, <1>2, <1>6

LEMMA CommandsType ==
  ASSUME NEW c \in Channels, NEW num, num \in Ids \cup {0}, NEW size, size \in Nat, NEW k \in Ids,
         NEW s, s = Commands(c, num, size, k)
  PROVE  s \in Seq(Command)
  <1>1. s \in [1 .. size -> Command]
    BY DEF Commands, Command
  <1> QED
    BY <1>1, SeqDef

\* All commands of a queue refer to one packet.
LEMMA RefersUniform ==
  ASSUME NEW s \in Seq(Command), NEW k \in Ids, NEW size, size \in Nat, Len(s) = size,
         \A i \in 1 .. size : s[i].pkt = k
  PROVE  /\ Refers(s)[k] = size
         /\ \A j \in Ids \ {k} : Refers(s)[j] = 0
  <1>1. At(s, k) = 1 .. size /\ \A j \in Ids \ {k} : At(s, j) = {}
    BY DEF At
  <1>2. Cardinality(1 .. size) = size
    BY UpToCardinality
  <1>3. Refers(s)[k] = size
    BY <1>1, <1>2, RefersType
  <1>4. \A j \in Ids \ {k} : Refers(s)[j] = 0
    BY <1>1, RefersType, FS_EmptySet
  <1> QED
    BY <1>3, <1>4

\* A queue that is cut after its first n commands.
LEMMA RefersCut ==
  ASSUME NEW s \in Seq(Command), NEW n \in 1 .. Len(s)
  PROVE  /\ SubSeq(s, 1, n) \in Seq(Command) /\ SubSeq(s, n + 1, Len(s)) \in Seq(Command)
         /\ Len(SubSeq(s, 1, n)) = n
         /\ \A k \in Ids : Refers(s)[k] = Refers(SubSeq(s, 1, n))[k]
                                            + Refers(SubSeq(s, n + 1, Len(s)))[k]
  <1>1. Len(s) \in Nat /\ n \in Nat /\ n <= Len(s) /\ n >= 1
    BY LenProperties
  <1>2. \A i \in 1 .. Len(s) : s[i] \in Command
    BY ElementOfSeq
  <1>3. SubSeq(s, 1, n) \in Seq(Command) /\ Len(SubSeq(s, 1, n)) = n
    <2>1. 1 \in Int /\ n \in Int /\ 1 <= n /\ n - 1 + 1 = n /\ \A i \in 1 .. n : s[i] \in Command
      BY <1>1, <1>2
    <2>2. /\ SubSeq(s, 1, n) \in Seq(Command)
          /\ Len(SubSeq(s, 1, n)) = IF 1 <= n THEN n - 1 + 1 ELSE 0
      BY <2>1, SubSeqProperties
    <2> QED
      BY <2>1, <2>2
  <1>4. SubSeq(s, n + 1, Len(s)) \in Seq(Command)
    <2>1. n + 1 \in Int /\ Len(s) \in Int /\ \A i \in n + 1 .. Len(s) : s[i] \in Command
      BY <1>1, <1>2
    <2> QED
      BY <2>1, SubSeqProperties
  <1>5. SubSeq(s, 1, n) \o SubSeq(s, n + 1, Len(s)) = s
    <2>1. 1 \in 1 .. Len(s) + 1 /\ n \in 1 - 1 .. Len(s) /\ Len(s) \in n .. Len(s)
      BY <1>1
    <2>2. SubSeq(s, 1, n) \o SubSeq(s, n + 1, Len(s)) = SubSeq(s, 1, Len(s))
      BY <2>1, ConcatAdjacentSubSeq
    <2> QED
      BY <2>2, SubSeqFull
  <1>6. ASSUME NEW k \in Ids
        PROVE  Refers(SubSeq(s, 1, n) \o SubSeq(s, n + 1, Len(s)))[k]
                 = Refers(SubSeq(s, 1, n))[k] + Refers(SubSeq(s, n + 1, Len(s)))[k]
    BY <1>3, <1>4, RefersConcat
  <1> QED
    BY <1>3, <1>4, <1>5, <1>6

LEMMA RefersTail ==
  ASSUME NEW s \in Seq(Command), s # <<>>
  PROVE  /\ Tail(s) \in Seq(Command) /\ s[1] \in Command
         /\ \A k \in Ids : Refers(s)[k] = One(s[1].pkt)[k] + Refers(Tail(s))[k]
  <1>1. Len(s) \in Nat \ {0}
    BY EmptySeq
  <1>2. 1 \in 1 .. Len(s)
    BY <1>1
  <1>3. Tail(s) = SubSeq(s, 1 + 1, Len(s))
    BY TailIsSubSeq
  <1>4. PICK u \in Seq(Command) : u = SubSeq(s, 1, 1)
    BY <1>2, RefersCut
  <1>5. /\ SubSeq(s, 1 + 1, Len(s)) \in Seq(Command) /\ Len(SubSeq(s, 1, 1)) = 1
        /\ \A k \in Ids : Refers(s)[k] = Refers(SubSeq(s, 1, 1))[k]
                                           + Refers(SubSeq(s, 1 + 1, Len(s)))[k]
    BY <1>2, RefersCut
  <1>6. /\ Len(u) = 1 /\ Tail(s) \in Seq(Command)
        /\ \A k \in Ids : Refers(s)[k] = Refers(u)[k] + Refers(Tail(s))[k]
    BY <1>3, <1>4, <1>5, Zenon
  <1>7. u[1] = s[1]
    <2>1. \A i \in 1 .. 1 : s[i] \in Command
      BY <1>1, ElementOfSeq
    <2>2. 1 \in Int /\ 1 \in 1 .. 1 - 1 + 1 /\ 1 + 1 - 1 = 1
      OBVIOUS
    <2>3. \A i \in 1 .. 1 - 1 + 1 : SubSeq(s, 1, 1)[i] = s[1 + i - 1]
      BY <2>1, <2>2, SubSeqProperties
    <2>4. SubSeq(s, 1, 1)[1] = s[1 + 1 - 1]
      BY <2>2, <2>3
    <2> QED
      BY <1>4, <2>2, <2>4
  <1>8. u[1] \in Command /\ Refers(u) = One(u[1].pkt)
    BY <1>6, RefersOne
  <1> QED
    BY <1>6, <1>7, <1>8

\* What the throttle drops is a piece at the head of the queue.
LEMMA DroppedRunType ==
  ASSUME NEW s \in Seq(Command), s # <<>>
  PROVE  DroppedRun(s) \in 1 .. Len(s)
  <1>1. Len(s) \in Nat \ {0} /\ DOMAIN s = 1 .. Len(s)
    BY EmptySeq, LenProperties
  <1> DEFINE Runs == {n \in DOMAIN s : \A i \in 1 .. n : s[i].num = s[1].num}
             Short == {Len(s) - n : n \in Runs}
  <1>2. 1 \in Runs /\ Runs \subseteq 1 .. Len(s)
    BY <1>1
  <1> HIDE DEF Runs
  <1>3. Short \subseteq Nat /\ Short # {}
    BY <1>1, <1>2
  <1>4. PICK x \in Short : \A y \in Short : <<y, x>> \notin OpToRel(<, Nat)
    BY <1>3, NatLessThanWellFounded, WFMin
  <1>5. PICK n \in Runs : x = Len(s) - n
    OBVIOUS
  <1>6. \A m \in Runs : n >= m
    <2> TAKE m \in Runs
    <2>1. Len(s) - m \in Short /\ Len(s) - m \in Nat /\ x \in Nat
      BY <1>1, <1>2, <1>3
    <2>2. ~(Len(s) - m < x)
      BY <1>4, <2>1 DEF OpToRel
    <2> QED
      BY <1>1, <1>2, <1>5, <2>2
  <1>7. Max(Runs) \in Runs
    BY <1>6, Zenon DEF Max
  <1> QED
    BY <1>2, <1>7 DEF DroppedRun, Runs

--------------------------------------------------------------------------------
(* The number of references to a packet. *)

Marks(A, k, X) == UNION {{p} \X (1 .. A[p][k]) : p \in X}

LEMMA RefsSplit ==
  ASSUME NEW A \in [Peers -> Counts], NEW k \in Ids, NEW N \in Nat,
         \A q \in Peers : A[q][k] <= N, NEW p \in Peers
  PROVE  /\ Cardinality(Marks(A, k, Peers \ {p})) \in Nat
         /\ Refs(A, k) = Cardinality(Marks(A, k, Peers \ {p})) + A[p][k]
  <1> DEFINE Rest == Marks(A, k, Peers \ {p})
             Mine == {p} \X (1 .. A[p][k])
  <1>1. \A q \in Peers : A[q][k] \in Nat
    BY DEF Counts
  <1>2. IsFiniteSet(Peers \X (1 .. N))
    BY PacketAssumption, UpToCardinality, FS_Product
  <1>3. Rest \in SUBSET (Peers \X (1 .. N))
    <2> SUFFICES ASSUME NEW q \in Peers, NEW x \in {q} \X (1 .. A[q][k])
                 PROVE  x \in Peers \X (1 .. N)
      BY DEF Marks
    <2>1. A[q][k] \in Nat /\ A[q][k] <= N
      BY <1>1
    <2>2. 1 .. A[q][k] \subseteq 1 .. N
      BY <2>1
    <2> QED
      BY <2>2
  <1>4. IsFiniteSet(Rest) /\ Cardinality(Rest) \in Nat
    BY <1>2, <1>3, FS_Subset, FS_CardinalityType
  <1>5. IsFiniteSet(Mine) /\ Cardinality(Mine) = A[p][k]
    <2>1. IsFiniteSet({p}) /\ Cardinality({p}) = 1
      BY FS_Singleton
    <2>2. IsFiniteSet(1 .. A[p][k]) /\ Cardinality(1 .. A[p][k]) = A[p][k]
      BY <1>1, UpToCardinality
    <2>3. IsFiniteSet(Mine) /\ Cardinality(Mine) = Cardinality({p}) * Cardinality(1 .. A[p][k])
      BY <2>1, <2>2, FS_Product
    <2>4. Cardinality(Mine) = 1 * A[p][k]
      BY <2>1, <2>2, <2>3
    <2> QED
      BY <1>1, <2>3, <2>4
  <1>6. Marks(A, k, Peers) = Rest \cup Mine
    BY Zenon DEF Marks
  <1>7. Rest \cap Mine = {}
    BY DEF Marks
  <1> HIDE DEF Rest, Mine
  <1>8. Cardinality(Rest \cup Mine) = Cardinality(Rest) + Cardinality(Mine) - Cardinality(Rest \cap Mine)
    BY <1>4, <1>5, FS_Union
  <1>9. Cardinality(Rest \cap Mine) = 0
    BY <1>7, FS_EmptySet
  <1>10. Refs(A, k) = Cardinality(Marks(A, k, Peers))
    BY Zenon DEF Refs, Marks
  <1> QED
    BY <1>1, <1>4, <1>5, <1>6, <1>8, <1>9, <1>10 DEF Rest

\* One peer's references change.
LEMMA RefsStep ==
  ASSUME NEW A \in [Peers -> Counts], NEW B \in [Peers -> Counts], NEW k \in Ids, NEW N \in Nat,
         \A q \in Peers : A[q][k] <= N /\ B[q][k] <= N,
         NEW p \in Peers, \A q \in Peers \ {p} : B[q][k] = A[q][k]
  PROVE  /\ Refs(A, k) \in Nat /\ A[p][k] <= Refs(A, k)
         /\ Refs(B, k) = Refs(A, k) - A[p][k] + B[p][k]
  <1>1. Marks(A, k, Peers \ {p}) = Marks(B, k, Peers \ {p})
    BY DEF Marks
  <1>2. A[p][k] \in Nat /\ B[p][k] \in Nat
    BY DEF Counts
  <1>3. PICK c \in Nat : c = Cardinality(Marks(A, k, Peers \ {p}))
    BY RefsSplit
  <1>4. Refs(A, k) = c + A[p][k]
    BY <1>3, RefsSplit
  <1>5. Refs(B, k) = c + B[p][k]
    <2>1. /\ Cardinality(Marks(B, k, Peers \ {p})) \in Nat
          /\ Refs(B, k) = Cardinality(Marks(B, k, Peers \ {p})) + B[p][k]
      BY RefsSplit
    <2> QED
      BY <1>1, <1>3, <2>1
  <1> QED
    BY <1>2, <1>3, <1>4, <1>5

LEMMA RefsSame ==
  ASSUME NEW A, NEW B, NEW k, \A q \in Peers : A[q][k] = B[q][k]
  PROVE  Refs(A, k) = Refs(B, k)
  BY DEF Refs

\* A packet that the peers of S refer to equally often.
LEMMA RefsNew ==
  ASSUME NEW B, NEW k, NEW S, S \in SUBSET Peers, NEW size, size \in Nat,
         \A q \in S : B[q][k] = size, \A q \in Peers \ S : B[q][k] = 0
  PROVE  Refs(B, k) = References(S, size)
  <1>1. IsFiniteSet(S) /\ Cardinality(S) \in Nat
    BY PacketAssumption, FS_Subset, FS_CardinalityType
  <1>2. UNION {{q} \X (1 .. B[q][k]) : q \in Peers} = S \X (1 .. size)
    <2>1. ASSUME NEW q \in Peers, NEW x \in {q} \X (1 .. B[q][k])
          PROVE  x \in S \X (1 .. size)
      <3>1. CASE q \in S
        BY <3>1
      <3>2. CASE q \notin S
        <4>1. B[q][k] = 0 /\ 1 .. 0 = {}
          BY <3>2
        <4> QED
          BY <4>1
      <3> QED
        BY <3>1, <3>2
    <2>2. ASSUME NEW x \in S \X (1 .. size)
          PROVE  \E q \in Peers : x \in {q} \X (1 .. B[q][k])
      <3>1. PICK q \in S, i \in 1 .. size : x = <<q, i>>
        OBVIOUS
      <3>2. B[q][k] = size
        OBVIOUS
      <3> QED
        BY <3>1, <3>2
    <2> QED
      BY <2>1, <2>2
  <1>3. Cardinality(S \X (1 .. size)) = Cardinality(S) * size
    <2>1. IsFiniteSet(1 .. size) /\ Cardinality(1 .. size) = size
      BY UpToCardinality
    <2>2. Cardinality(S \X (1 .. size)) = Cardinality(S) * Cardinality(1 .. size)
      BY <1>1, <2>1, FS_Product
    <2> QED
      BY <2>1, <2>2
  <1>4. Refs(B, k) = Cardinality(S) * size
    BY <1>2, <1>3 DEF Refs
  <1>5. \A m, n \in Nat : m * n = n * m
    OBVIOUS
  <1> QED
    BY <1>1, <1>4, <1>5 DEF References

--------------------------------------------------------------------------------
(* The two ways in which references change. *)

\* What is referred to is live, and is counted.
LEMMA SoundUse ==
  ASSUME NEW A, NEW I, NEW mem, NEW free, Sound(A, I, mem, free), NEW p \in Peers, NEW k \in Ids,
         A[p][k] > 0
  PROVE  /\ k \in 1 .. Len(mem) /\ mem[k] \in Packet
         /\ mem[k].live /\ mem[k].count >= A[p][k]
  <1>1. A \in [Peers -> Counts] /\ mem \in Seq(Packet) /\ Max(Sizes) \in Nat
    BY MaxSize DEF Sound
  <1>2. A[p][k] \in Nat /\ Len(mem) \in Nat /\ k \in Nat \ {0}
    BY <1>1, IdsNat, LenProperties DEF Counts
  <1>3. k > Len(mem) => A[p][k] = 0
    BY DEF Sound
  <1>4. k \in 1 .. Len(mem)
    BY <1>2, <1>3
  <1>5. mem[k] \in Packet
    BY <1>1, <1>4, ElementOfSeq
  <1>6. \A q \in Peers : A[q][k] <= Max(Sizes)
    BY DEF Sound
  <1>7. Refs(A, k) \in Nat /\ A[p][k] <= Refs(A, k)
    BY <1>1, <1>6, RefsStep
  <1>8. mem[k].count = Refs(A, k) /\ (mem[k].count > 0 => mem[k].live)
    BY <1>4 DEF Sound
  <1> QED
    BY <1>2, <1>4, <1>5, <1>7, <1>8

\* n is given up by p.
LEMMA SoundRelease ==
  ASSUME NEW A, NEW I, NEW mem, NEW free, Sound(A, I, mem, free),
         NEW p \in Peers, NEW n \in Counts, \A k \in Ids : n[k] <= A[p][k],
         NEW B \in [Peers -> Counts], NEW J \in [Peers -> Counts],
         \A k \in Ids : B[p][k] = A[p][k] - n[k],
         \A q \in Peers \ {p}, k \in Ids : B[q][k] = A[q][k],
         \A q \in Peers, k \in Ids : J[q][k] <= I[q][k] /\ J[q][k] <= B[q][k]
  PROVE  /\ Sound(B, J, Released(mem, n), free)
         /\ Len(Released(mem, n)) = Len(mem)
  <1>1. /\ A \in [Peers -> Counts] /\ I \in [Peers -> Counts] /\ mem \in Seq(Packet)
        /\ Len(mem) <= MaxPackets
    BY DEF Sound
  <1>2. Max(Sizes) \in Nat /\ MaxPackets \in Nat /\ Ids = 1 .. MaxPackets
    BY MaxSize, IdsNat DEF Ids
  <1>3. Len(mem) \in Nat /\ DOMAIN mem = 1 .. Len(mem) /\ 1 .. Len(mem) \subseteq Ids
    BY <1>1, <1>2, LenProperties
  <1>4. \A k \in 1 .. Len(mem) : mem[k] \in Packet
    BY <1>1, ElementOfSeq
  <1>5. \A q \in Peers, k \in Ids : /\ A[q][k] \in Nat /\ B[q][k] \in Nat /\ n[k] \in Nat
                                    /\ I[q][k] \in Nat /\ J[q][k] \in Nat
    BY <1>1 DEF Counts
  <1>6. \A q \in Peers, k \in Ids : B[q][k] <= A[q][k]
    <2> TAKE q \in Peers, k \in Ids
    <2>1. CASE q = p
      BY <1>5, <2>1
    <2>2. CASE q # p
      BY <1>5, <2>2
    <2> QED
      BY <2>1, <2>2
  <1>7. ASSUME NEW k \in 1 .. Len(mem)
        PROVE  /\ mem[k].count = Refs(A, k) /\ (mem[k].count > 0 => mem[k].live)
               /\ mem[k].count = 0 /\ mem[k].live => k \in free
    BY DEF Sound
  <1>8. ASSUME NEW k \in 1 .. Len(mem)
        PROVE  /\ Refs(A, k) \in Nat /\ n[k] <= Refs(A, k)
               /\ Refs(B, k) = Refs(A, k) - n[k]
    <2>1. k \in Ids
      BY <1>3
    <2>2. \A q \in Peers : A[q][k] <= Max(Sizes)
      BY <2>1 DEF Sound
    <2>3. \A q \in Peers : A[q][k] <= Max(Sizes) /\ B[q][k] <= Max(Sizes)
      BY <1>2, <1>5, <1>6, <2>1, <2>2
    <2>4. \A q \in Peers \ {p} : B[q][k] = A[q][k]
      BY <2>1
    <2>5. PICK N \in Nat : \A q \in Peers : A[q][k] <= N /\ B[q][k] <= N
      BY <1>2, <2>3
    <2>6. /\ Refs(A, k) \in Nat /\ A[p][k] <= Refs(A, k)
          /\ Refs(B, k) = Refs(A, k) - A[p][k] + B[p][k]
      BY <1>1, <2>1, <2>4, <2>5, RefsStep
    <2> QED
      BY <1>5, <2>1, <2>6
  <1>9. PICK m : m = Released(mem, n)
    OBVIOUS
  <1>10. /\ m \in [1 .. Len(mem) -> Packet]
         /\ \A k \in 1 .. Len(mem) : /\ m[k].count = mem[k].count - n[k]
                                     /\ m[k].live = (mem[k].live /\ ~(n[k] > 0 /\ mem[k].count = n[k]))
    <2>1. m = [k \in 1 .. Len(mem) |->
                 [live |-> mem[k].live /\ ~(n[k] > 0 /\ mem[k].count = n[k]),
                  count |-> mem[k].count - n[k]]]
      BY <1>3, <1>9 DEF Released
    <2>2. ASSUME NEW k \in 1 .. Len(mem)
          PROVE  mem[k].count - n[k] \in Nat
      BY <1>3, <1>5, <1>7, <1>8
    <2>3. ASSUME NEW k \in 1 .. Len(mem)
          PROVE  [live |-> mem[k].live /\ ~(n[k] > 0 /\ mem[k].count = n[k]),
                  count |-> mem[k].count - n[k]] \in Packet
      BY <2>2 DEF Packet
    <2>4. m \in [1 .. Len(mem) -> Packet]
      BY <2>1, <2>3
    <2>5. ASSUME NEW k \in 1 .. Len(mem)
          PROVE  m[k].count = mem[k].count - n[k]
      BY <2>1
    <2>6. ASSUME NEW k \in 1 .. Len(mem)
          PROVE  m[k].live = (mem[k].live /\ ~(n[k] > 0 /\ mem[k].count = n[k]))
      BY <2>1, Zenon
    <2> QED
      BY <2>4, <2>5, <2>6
  <1>11. m \in Seq(Packet) /\ Len(m) = Len(mem)
    <2>1. m \in Seq(Packet)
      BY <1>3, <1>10, SeqDef
    <2>2. DOMAIN m = 1 .. Len(m) /\ Len(m) \in Nat
      BY <2>1, LenProperties
    <2>3. DOMAIN m = 1 .. Len(mem)
      BY <1>10
    <2>4. \A a, b \in Nat : 1 .. a = 1 .. b => a = b
      BY UpToCardinality
    <2> QED
      BY <1>3, <2>1, <2>2, <2>3, <2>4
  <1>12. ASSUME NEW q \in Peers, NEW k \in Ids
         PROVE  /\ J[q][k] <= B[q][k] /\ B[q][k] <= Max(Sizes)
                /\ k > Len(m) => B[q][k] = 0
                /\ J[q][k] > 0 => B[q][k] = 1 /\ \A r \in Peers \ {q} : B[r][k] = 0
    <2>1. /\ A[q][k] <= Max(Sizes) /\ (k > Len(mem) => A[q][k] = 0)
          /\ I[q][k] > 0 => A[q][k] = 1 /\ \A r \in Peers \ {q} : A[r][k] = 0
      BY DEF Sound
    <2>2. J[q][k] <= I[q][k] /\ J[q][k] <= B[q][k]
      OBVIOUS
    <2>3. B[q][k] <= Max(Sizes) /\ (k > Len(m) => B[q][k] = 0)
      BY <1>2, <1>5, <1>6, <1>11, <2>1
    <2>4. ASSUME J[q][k] > 0
          PROVE  B[q][k] = 1 /\ \A r \in Peers \ {q} : B[r][k] = 0
      <3>1. I[q][k] > 0 /\ B[q][k] > 0
        BY <1>5, <2>2, <2>4
      <3>2. A[q][k] = 1 /\ \A r \in Peers \ {q} : A[r][k] = 0
        BY <2>1, <3>1
      <3>3. B[q][k] = 1
        BY <1>5, <1>6, <3>1, <3>2
      <3>4. \A r \in Peers \ {q} : B[r][k] = 0
        BY <1>5, <1>6, <3>2
      <3> QED
        BY <3>3, <3>4
    <2> QED
      BY <2>2, <2>3, <2>4
  <1>13. ASSUME NEW k \in 1 .. Len(m)
         PROVE  /\ m[k].count = Refs(B, k)
                /\ m[k].count > 0 => m[k].live
                /\ m[k].count = 0 /\ m[k].live => k \in free
    <2>1. k \in 1 .. Len(mem) /\ k \in Ids
      BY <1>3, <1>11
    <2>2. PICK c \in Nat : c = mem[k].count
      BY <1>4, <2>1 DEF Packet
    <2>3. PICK x \in Nat : x = n[k]
      BY <1>5, <2>1
    <2>4. m[k].count = c - x /\ Refs(B, k) = c - x /\ x <= c
      BY <1>7, <1>8, <1>10, <2>1, <2>2, <2>3
    <2>5. m[k].live = (mem[k].live /\ ~(x > 0 /\ c = x))
      BY <1>10, <2>1, <2>2, <2>3, Zenon
    <2>6. m[k].count > 0 => m[k].live
      <3>1. SUFFICES ASSUME c - x > 0
                     PROVE  mem[k].live /\ ~(x > 0 /\ c = x)
        BY <2>4, <2>5, Zenon
      <3>2. c > 0 /\ c # x
        BY <3>1
      <3> QED
        BY <1>7, <2>1, <2>2, <3>2
    <2>7. m[k].count = 0 /\ m[k].live => k \in free
      <3>1. SUFFICES ASSUME c - x = 0, mem[k].live, ~(x > 0 /\ c = x)
                     PROVE  k \in free
        BY <2>4, <2>5, Zenon
      <3>2. c = 0
        BY <3>1
      <3> QED
        BY <1>7, <2>1, <2>2, <3>1, <3>2
    <2> QED
      BY <2>4, <2>6, <2>7
  <1>14. Sound(B, J, m, free)
    BY <1>1, <1>11, <1>12, <1>13 DEF Sound
  <1> QED
    BY <1>9, <1>11, <1>14

\* A new packet, of which the peers of S have size commands each.
LEMMA SoundNew ==
  ASSUME NEW A, NEW I, NEW mem, NEW free, Sound(A, I, mem, free),
         NEW new \in Ids, new = Len(mem) + 1,
         NEW S, S \in SUBSET Peers, NEW size \in 1 .. Max(Sizes), NEW live \in BOOLEAN,
         NEW more, free \subseteq more,
         S # {} => live, S = {} /\ live => new \in more,
         NEW B \in [Peers -> Counts], NEW J \in [Peers -> Counts],
         \A q \in S : B[q][new] = size, \A q \in Peers \ S : B[q][new] = 0,
         \A q \in Peers, k \in Ids \ {new} : B[q][k] = A[q][k] /\ J[q][k] = I[q][k],
         \A q \in Peers : J[q][new] > 0 => S = {q} /\ size = 1 /\ J[q][new] = 1
  PROVE  Sound(B, J, Append(mem, [live |-> live, count |-> References(S, size)]), more)
  <1>1. /\ A \in [Peers -> Counts] /\ I \in [Peers -> Counts] /\ mem \in Seq(Packet)
        /\ Len(mem) <= MaxPackets
    BY DEF Sound
  <1>2. Max(Sizes) \in Nat \ {0} /\ MaxPackets \in Nat /\ Ids = 1 .. MaxPackets
    BY MaxSize, IdsNat DEF Ids
  <1>3. PICK x \in Nat : x = Len(mem)
    BY <1>1, LenProperties
  <1>4. x + 1 \in Ids /\ x + 1 <= MaxPackets /\ size \in Nat /\ size > 0 /\ size <= Max(Sizes)
    BY <1>2, <1>3
  <1>5. \A q \in Peers, k \in Ids : /\ A[q][k] \in Nat /\ B[q][k] \in Nat
                                    /\ I[q][k] \in Nat /\ J[q][k] \in Nat
    BY <1>1 DEF Counts
  <1>6. /\ Cardinality(S) \in Nat /\ (Cardinality(S) = 0 <=> S = {})
        /\ Refs(B, x + 1) = References(S, size)
    <2>1. PICK j : j = x + 1
      OBVIOUS
    <2>2. (\A q \in S : B[q][j] = size) /\ \A q \in Peers \ S : B[q][j] = 0
      BY <1>3, <2>1
    <2>3. size \in Nat
      BY <1>4
    <2>4. IsFiniteSet(S) /\ Cardinality(S) \in Nat
      BY PacketAssumption, FS_Subset, FS_CardinalityType
    <2>5. Refs(B, j) = References(S, size)
      BY <2>2, <2>3, RefsNew
    <2>6. /\ IsFiniteSet(S) /\ Cardinality(S) \in Nat
          /\ Refs(B, x + 1) = References(S, size)
      BY <2>1, <2>4, <2>5
    <2>7. Cardinality(S) = 0 <=> S = {}
      BY <2>6, FS_EmptySet
    <2> QED
      BY <2>6, <2>7
  <1>7. PICK c \in Nat : c = References(S, size) /\ (c = 0 <=> S = {})
    <2>1. \A a, b \in Nat : a * b \in Nat
      OBVIOUS
    <2>2. \A a \in Nat, b \in Nat : a > 0 => (a * b = 0 <=> b = 0)
      OBVIOUS
    <2> QED
      BY <1>4, <1>6, <2>1, <2>2 DEF References
  <1>8. [live |-> live, count |-> c] \in Packet
    BY DEF Packet
  <1>9. PICK m \in Seq(Packet) : m = Append(mem, [live |-> live, count |-> c])
    BY <1>1, <1>8, AppendProperties
  <1>10. /\ Len(m) = x + 1 /\ (\A k \in 1 .. x : m[k] = mem[k])
         /\ m[x + 1] = [live |-> live, count |-> c]
    BY <1>1, <1>3, <1>8, <1>9, AppendProperties
  <1>11. ASSUME NEW q \in Peers, NEW k \in Ids
         PROVE  /\ J[q][k] <= B[q][k] /\ B[q][k] <= Max(Sizes)
                /\ k > Len(m) => B[q][k] = 0
                /\ J[q][k] > 0 => B[q][k] = 1 /\ \A r \in Peers \ {q} : B[r][k] = 0
    <2>1. CASE k = x + 1
      <3>1. \A r \in Peers : B[r][k] = IF r \in S THEN size ELSE 0
        BY <1>3, <2>1
      <3>2. J[q][k] > 0 => S = {q} /\ size = 1 /\ J[q][k] = 1
        BY <1>3, <2>1
      <3>3. B[q][k] <= Max(Sizes) /\ ~(k > Len(m))
        BY <1>2, <1>4, <1>10, <2>1, <3>1
      <3>4. J[q][k] <= B[q][k]
        <4>1. CASE J[q][k] > 0
          BY <3>1, <3>2, <4>1
        <4>2. CASE ~(J[q][k] > 0)
          BY <1>5, <4>2
        <4> QED
          BY <4>1, <4>2
      <3>5. J[q][k] > 0 => B[q][k] = 1 /\ \A r \in Peers \ {q} : B[r][k] = 0
        BY <3>1, <3>2
      <3> QED
        BY <3>3, <3>4, <3>5
    <2>2. CASE k # x + 1
      <3>1. \A r \in Peers : B[r][k] = A[r][k] /\ J[r][k] = I[r][k]
        BY <1>3, <2>2
      <3>2. /\ I[q][k] <= A[q][k] /\ A[q][k] <= Max(Sizes)
            /\ k > Len(mem) => A[q][k] = 0
            /\ I[q][k] > 0 => A[q][k] = 1 /\ \A r \in Peers \ {q} : A[r][k] = 0
        BY DEF Sound
      <3>3. k > Len(m) => k > Len(mem)
        BY <1>2, <1>3, <1>10
      <3> QED
        BY <3>1, <3>2, <3>3
    <2> QED
      BY <2>1, <2>2
  <1>12. ASSUME NEW k \in 1 .. Len(m)
         PROVE  /\ m[k].count = Refs(B, k)
                /\ m[k].count > 0 => m[k].live
                /\ m[k].count = 0 /\ m[k].live => k \in more
    <2>1. CASE k = x + 1
      <3>1. m[k] = [live |-> live, count |-> c]
        BY <1>10, <2>1
      <3>2. m[k].count = c /\ m[k].live = live
        BY <3>1
      <3> QED
        BY <1>3, <1>6, <1>7, <2>1, <3>2
    <2>2. CASE k # x + 1
      <3>1. k \in 1 .. x /\ k \in Ids
        BY <1>2, <1>4, <1>10, <2>2
      <3>2. m[k] = mem[k]
        BY <1>10, <3>1
      <3>3. Refs(B, k) = Refs(A, k)
        <4>1. \A r \in Peers : B[r][k] = A[r][k]
          BY <1>3, <2>2, <3>1
        <4> QED
          BY <4>1, RefsSame
      <3>4. /\ mem[k].count = Refs(A, k)
            /\ mem[k].count > 0 => mem[k].live
            /\ mem[k].count = 0 /\ mem[k].live => k \in free
        BY <1>3, <3>1 DEF Sound
      <3> QED
        BY <3>2, <3>3, <3>4
    <2> QED
      BY <2>1, <2>2
  <1>13. Sound(B, J, m, more)
    BY <1>4, <1>10, <1>11, <1>12 DEF Sound
  <1> QED
    BY <1>7, <1>9, <1>13

\* The packets and the references stay, what is live changes.
LEMMA SoundLive ==
  ASSUME NEW A, NEW I, NEW mem, NEW free, Sound(A, I, mem, free),
         NEW m \in Seq(Packet), Len(m) = Len(mem), NEW more,
         \A k \in 1 .. Len(mem) : /\ m[k].count = mem[k].count
                                  /\ m[k].count > 0 => m[k].live
                                  /\ m[k].count = 0 /\ m[k].live => k \in more
  PROVE  Sound(A, I, m, more)
  <1>1. ASSUME NEW k \in 1 .. Len(m)
        PROVE  /\ m[k].count = Refs(A, k)
               /\ m[k].count > 0 => m[k].live
               /\ m[k].count = 0 /\ m[k].live => k \in more
    <2>1. mem[k].count = Refs(A, k) /\ k \in 1 .. Len(mem)
      BY DEF Sound
    <2> QED
      BY <2>1
  <1>2. /\ A \in [Peers -> Counts] /\ I \in [Peers -> Counts] /\ Len(m) <= MaxPackets
        /\ \A p \in Peers, k \in Ids :
             /\ I[p][k] <= A[p][k] /\ A[p][k] <= Max(Sizes)
             /\ k > Len(m) => A[p][k] = 0
             /\ I[p][k] > 0 => A[p][k] = 1 /\ \A q \in Peers \ {p} : A[q][k] = 0
    BY Zenon DEF Sound
  <1> QED
    BY <1>1, <1>2, Zenon DEF Sound

--------------------------------------------------------------------------------
(* What a peer refers to is the sum of its lists. *)

LEMMA UsesAt ==
  ASSUME NEW h \in Held, NEW Q \in Queues, NEW p \in Peers
  PROVE  /\ Uses(h, Q, p) \in Counts
         /\ \A l \in Lists : h[p][l] \in Counts
         /\ \A k \in Ids :
              /\ \A l \in Lists : h[p][l][k] \in Nat
              /\ Refers(Q[p])[k] \in Nat
              /\ Uses(h, Q, p)[k] = ((h[p]["unsent"][k] + h[p]["resend"][k])
                                      + (h[p]["sent"][k] + h[p]["datagram"][k]))
                                      + (h[p]["incoming"][k] + Refers(Q[p])[k])
  <1>1. \A l \in Lists : h[p][l] \in Counts
    BY DEF Held
  <1>2. Q[p] \in Seq(Command)
    BY DEF Queues
  <1>3. Refers(Q[p]) \in Counts
    BY <1>2, RefersType
  <1>4. {"unsent", "resend", "sent", "datagram", "incoming"} = Lists
    BY DEF Lists
  <1>5. PICK a \in Counts, b \in Counts, c \in Counts, d \in Counts, e \in Counts, f \in Counts :
          /\ a = h[p]["unsent"] /\ b = h[p]["resend"] /\ c = h[p]["sent"]
          /\ d = h[p]["datagram"] /\ e = h[p]["incoming"] /\ f = Refers(Q[p])
    BY <1>1, <1>3, <1>4
  <1>6. \A g \in Counts, i \in Counts : /\ Plus(g, i) \in Counts
                                        /\ \A k \in Ids : Plus(g, i)[k] = g[k] + i[k]
    BY DEF Plus, Counts
  <1>7. Uses(h, Q, p) = Plus(Plus(Plus(a, b), Plus(c, d)), Plus(e, f))
    BY <1>5, Zenon DEF Uses
  <1>8. Plus(a, b) \in Counts /\ Plus(c, d) \in Counts /\ Plus(e, f) \in Counts
    BY <1>6
  <1>9. Plus(Plus(a, b), Plus(c, d)) \in Counts
    BY <1>6, <1>8
  <1>10. ASSUME NEW k \in Ids
         PROVE  Uses(h, Q, p)[k] = ((a[k] + b[k]) + (c[k] + d[k])) + (e[k] + f[k])
    BY <1>6, <1>7, <1>8, <1>9
  <1>11. Uses(h, Q, p) \in Counts
    BY <1>6, <1>7, <1>8, <1>9
  <1> QED
    BY <1>1, <1>3, <1>5, <1>10, <1>11 DEF Counts

LEMMA AllOfIsUses == \A h, p : AllOf(h, p) = Uses(h, queue, p)
  BY Zenon DEF AllOf, Uses

LEMMA UsedAt ==
  ASSUME NEW h \in Held, NEW Q \in Queues
  PROVE  /\ Used(h, Q) \in [Peers -> Counts] /\ Received(h) \in [Peers -> Counts]
         /\ \A p \in Peers : Used(h, Q)[p] = Uses(h, Q, p) /\ Received(h)[p] = h[p]["incoming"]
  <1>1. \A p \in Peers : Uses(h, Q, p) \in Counts /\ h[p]["incoming"] \in Counts
    BY UsesAt DEF Lists
  <1> QED
    BY <1>1 DEF Used, Received

\* One peer moves commands between its lists.
LEMMA FitsMove ==
  ASSUME NEW h, NEW Q, NEW mem, NEW free, Fits(h, Q, mem, free),
         NEW H \in Held, NEW T \in Queues, NEW p \in Peers,
         \A q \in Peers \ {p} : H[q] = h[q] /\ T[q] = Q[q],
         H[p]["incoming"] = h[p]["incoming"],
         \A k \in Ids : Uses(H, T, p)[k] = Uses(h, Q, p)[k]
  PROVE  Fits(H, T, mem, free)
  <1>1. h \in Held /\ Q \in Queues /\ Sound(Used(h, Q), Received(h), mem, free)
    BY DEF Fits
  <1>2. \A q \in Peers : Uses(H, T, q) = Uses(h, Q, q) /\ H[q]["incoming"] = h[q]["incoming"]
    <2> TAKE q \in Peers
    <2>1. CASE q = p
      <3>1. Uses(H, T, p) \in Counts /\ Uses(h, Q, p) \in Counts
        BY <1>1, UsesAt
      <3> QED
        BY <2>1, <3>1 DEF Counts
    <2>2. CASE q # p
      BY <2>2 DEF Uses
    <2> QED
      BY <2>1, <2>2
  <1>3. Used(H, T) = Used(h, Q) /\ Received(H) = Received(h)
    BY <1>2 DEF Used, Received
  <1> QED
    BY <1>1, <1>3 DEF Fits

\* One peer gives up n.
LEMMA FitsRelease ==
  ASSUME NEW h, NEW Q, NEW mem, NEW free, Fits(h, Q, mem, free),
         NEW H \in Held, NEW T \in Queues, NEW p \in Peers, NEW n \in Counts,
         \A q \in Peers \ {p} : H[q] = h[q] /\ T[q] = Q[q],
         \A k \in Ids : H[p]["incoming"][k] <= h[p]["incoming"][k],
         \A k \in Ids : Uses(h, Q, p)[k] = Uses(H, T, p)[k] + n[k]
  PROVE  Fits(H, T, Released(mem, n), free) /\ Len(Released(mem, n)) = Len(mem)
  <1>1. h \in Held /\ Q \in Queues /\ Sound(Used(h, Q), Received(h), mem, free)
    BY DEF Fits
  <1>2. PICK A \in [Peers -> Counts], I \in [Peers -> Counts],
             B \in [Peers -> Counts], J \in [Peers -> Counts] :
          A = Used(h, Q) /\ I = Received(h) /\ B = Used(H, T) /\ J = Received(H)
    BY <1>1, UsedAt
  <1>3. \A q \in Peers : /\ A[q] = Uses(h, Q, q) /\ I[q] = h[q]["incoming"]
                         /\ B[q] = Uses(H, T, q) /\ J[q] = H[q]["incoming"]
    BY <1>1, <1>2, UsedAt
  <1>4. \A q \in Peers, k \in Ids : /\ A[q][k] \in Nat /\ B[q][k] \in Nat /\ n[k] \in Nat
                                    /\ I[q][k] \in Nat /\ J[q][k] \in Nat
    BY DEF Counts
  <1>5. \A k \in Ids : A[p][k] = B[p][k] + n[k]
    BY <1>3
  <1>6. \A k \in Ids : n[k] <= A[p][k] /\ B[p][k] = A[p][k] - n[k]
    BY <1>4, <1>5
  <1>7. \A q \in Peers \ {p}, k \in Ids : B[q][k] = A[q][k]
    BY <1>3 DEF Uses
  <1>8. \A q \in Peers, k \in Ids : J[q][k] <= I[q][k] /\ J[q][k] <= B[q][k]
    <2> TAKE q \in Peers, k \in Ids
    <2>1. J[q][k] <= B[q][k]
      <3>1. /\ \A l \in Lists : H[q][l][k] \in Nat
            /\ Refers(T[q])[k] \in Nat
            /\ Uses(H, T, q)[k] = ((H[q]["unsent"][k] + H[q]["resend"][k])
                                    + (H[q]["sent"][k] + H[q]["datagram"][k]))
                                    + (H[q]["incoming"][k] + Refers(T[q])[k])
        BY UsesAt
      <3>2. {"unsent", "resend", "sent", "datagram", "incoming"} = Lists
        BY DEF Lists
      <3>3. H[q]["incoming"][k] <= Uses(H, T, q)[k]
        BY <3>1, <3>2
      <3> QED
        BY <1>3, <3>3
    <2>2. J[q][k] <= I[q][k]
      <3>1. CASE q = p
        BY <1>3, <3>1
      <3>2. CASE q # p
        <4>1. J[q][k] = I[q][k]
          BY <1>3, <3>2
        <4> QED
          BY <1>4, <4>1
      <3> QED
        BY <3>1, <3>2
    <2> QED
      BY <2>1, <2>2
  <1>9. Sound(A, I, mem, free)
    BY <1>1, <1>2
  <1>10. Sound(B, J, Released(mem, n), free) /\ Len(Released(mem, n)) = Len(mem)
    BY <1>6, <1>7, <1>8, <1>9, SoundRelease, SMTT(30)
  <1> QED
    BY <1>2, <1>10 DEF Fits

\* A new packet, of which the peers of S have size commands each.
LEMMA FitsNew ==
  ASSUME NEW h, NEW Q, NEW mem, NEW free, Fits(h, Q, mem, free),
         NEW k \in Ids, k = Len(mem) + 1,
         NEW S, S \in SUBSET Peers, NEW size \in 1 .. Max(Sizes), NEW live \in BOOLEAN,
         NEW more, free \subseteq more, S # {} => live, S = {} /\ live => k \in more,
         NEW H \in Held, NEW T \in Queues,
         \A q \in Peers, j \in Ids \ {k} : /\ Uses(H, T, q)[j] = Uses(h, Q, q)[j]
                                           /\ H[q]["incoming"][j] = h[q]["incoming"][j],
         \A q \in S : Uses(H, T, q)[k] = size, \A q \in Peers \ S : Uses(H, T, q)[k] = 0,
         \A q \in Peers : H[q]["incoming"][k] > 0 =>
                            S = {q} /\ size = 1 /\ H[q]["incoming"][k] = 1
  PROVE  Fits(H, T, Append(mem, [live |-> live, count |-> References(S, size)]), more)
  <1>1. h \in Held /\ Q \in Queues /\ Sound(Used(h, Q), Received(h), mem, free)
    BY DEF Fits
  <1>2. PICK A \in [Peers -> Counts], I \in [Peers -> Counts],
             B \in [Peers -> Counts], J \in [Peers -> Counts] :
          A = Used(h, Q) /\ I = Received(h) /\ B = Used(H, T) /\ J = Received(H)
    BY <1>1, UsedAt
  <1>3. \A q \in Peers : /\ A[q] = Uses(h, Q, q) /\ I[q] = h[q]["incoming"]
                         /\ B[q] = Uses(H, T, q) /\ J[q] = H[q]["incoming"]
    BY <1>1, <1>2, UsedAt
  <1>4. (\A q \in S : B[q][k] = size) /\ \A q \in Peers \ S : B[q][k] = 0
    BY <1>3
  <1>5. \A q \in Peers, j \in Ids \ {k} : B[q][j] = A[q][j] /\ J[q][j] = I[q][j]
    BY <1>3
  <1>6. \A q \in Peers : J[q][k] > 0 => S = {q} /\ size = 1 /\ J[q][k] = 1
    BY <1>3
  <1>7. Sound(A, I, mem, free)
    BY <1>1, <1>2
  <1>8. Sound(B, J, Append(mem, [live |-> live, count |-> References(S, size)]), more)
    BY <1>4, <1>5, <1>6, <1>7, SoundNew
  <1> QED
    BY <1>2, <1>8 DEF Fits

\* Nothing refers to a packet that is not there yet.
LEMMA NewUnused ==
  ASSUME NEW h, NEW Q, NEW mem, NEW free, Fits(h, Q, mem, free),
         NEW k \in Ids, k = Len(mem) + 1, NEW p \in Peers
  PROVE  /\ Uses(h, Q, p)[k] = 0 /\ Refers(Q[p])[k] = 0
         /\ \A l \in Lists : h[p][l][k] = 0
  <1>1. h \in Held /\ Q \in Queues /\ Sound(Used(h, Q), Received(h), mem, free)
    BY DEF Fits
  <1>2. Len(mem) \in Nat /\ k > Len(mem)
    <2>1. mem \in Seq(Packet)
      BY <1>1 DEF Sound
    <2> QED
      BY <2>1, LenProperties
  <1>3. Used(h, Q)[p][k] = 0
    BY <1>1, <1>2 DEF Sound
  <1>4. Uses(h, Q, p)[k] = 0
    BY <1>1, <1>3, UsedAt
  <1>5. /\ \A l \in Lists : h[p][l][k] \in Nat
        /\ Refers(Q[p])[k] \in Nat
        /\ Uses(h, Q, p)[k] = ((h[p]["unsent"][k] + h[p]["resend"][k])
                                + (h[p]["sent"][k] + h[p]["datagram"][k]))
                                + (h[p]["incoming"][k] + Refers(Q[p])[k])
    BY <1>1, UsesAt
  <1>6. {"unsent", "resend", "sent", "datagram", "incoming"} = Lists
    BY DEF Lists
  <1>7. /\ h[p]["unsent"][k] = 0 /\ h[p]["resend"][k] = 0 /\ h[p]["sent"][k] = 0
        /\ h[p]["datagram"][k] = 0 /\ h[p]["incoming"][k] = 0 /\ Refers(Q[p])[k] = 0
    <2>1. PICK a \in Nat, b \in Nat, c \in Nat, d \in Nat, e \in Nat, f \in Nat :
            /\ a = h[p]["unsent"][k] /\ b = h[p]["resend"][k] /\ c = h[p]["sent"][k]
            /\ d = h[p]["datagram"][k] /\ e = h[p]["incoming"][k] /\ f = Refers(Q[p])[k]
      BY <1>5, <1>6
    <2>2. ((a + b) + (c + d)) + (e + f) = 0
      BY <1>4, <1>5, <2>1
    <2>3. a = 0 /\ b = 0 /\ c = 0 /\ d = 0 /\ e = 0 /\ f = 0
      BY <2>2
    <2> QED
      BY <2>1, <2>3
  <1> QED
    BY <1>4, <1>6, <1>7

\* H is h with one list of one peer replaced.
Replaced(H, h, p, l, f) == H = [h EXCEPT ![p][l] = f]

LEMMA HeldList ==
  ASSUME NEW h \in Held, NEW p \in Peers, NEW l \in Lists, NEW f \in Counts,
         NEW H, Replaced(H, h, p, l, f)
  PROVE  /\ H \in Held /\ H[p][l] = f
         /\ \A m \in Lists \ {l} : H[p][m] = h[p][m]
         /\ \A q \in Peers \ {p} : H[q] = h[q]
  BY DEF Held, Replaced

LEMMA EnterFits ==
  ASSUME NEW free, Fits(held, queue, memory, free), NextId \in Ids,
         NEW S, S \in SUBSET Peers, NEW c \in Channels, NEW kind, NEW size \in Sizes,
         Enter(S, c, kind, size, NextId),
         NEW live \in BOOLEAN,
         NEW more, free \subseteq more, S # {} => live, S = {} /\ live => NextId \in more
  PROVE  Fits(held', queue', Append(memory, [live |-> live, count |-> References(S, size)]), more)
  <1>1. held \in Held /\ queue \in Queues
    BY DEF Fits
  <1>2. size \in 1 .. Max(Sizes) /\ size \in Nat
    BY MaxSize, PacketAssumption
  <1>3. PICK k \in Ids : k = NextId
    OBVIOUS
  <1>4. k = Len(memory) + 1
    BY <1>3 DEF NextId
  <1>5. \A p \in Peers : /\ Uses(held, queue, p)[k] = 0 /\ Refers(queue[p])[k] = 0
                         /\ \A l \in Lists : held[p][l][k] = 0
    BY <1>4, NewUnused
  <1>6. {"unsent", "resend", "sent", "datagram", "incoming"} = Lists
    BY DEF Lists
  <1>7. ASSUME NEW H \in Held, NEW T \in Queues,
               \A q \in Peers : H[q]["incoming"] = held[q]["incoming"],
               \A q \in Peers, j \in Ids \ {k} : Uses(H, T, q)[j] = Uses(held, queue, q)[j],
               \A q \in S : Uses(H, T, q)[k] = size, \A q \in Peers \ S : Uses(H, T, q)[k] = 0
        PROVE  Fits(H, T, Append(memory, [live |-> live, count |-> References(S, size)]), more)
    <2>1. \A q \in Peers, j \in Ids \ {k} : /\ Uses(H, T, q)[j] = Uses(held, queue, q)[j]
                                            /\ H[q]["incoming"][j] = held[q]["incoming"][j]
      BY <1>7
    <2>2. \A q \in Peers : H[q]["incoming"][k] > 0 =>
                             S = {q} /\ size = 1 /\ H[q]["incoming"][k] = 1
      <3> TAKE q \in Peers
      <3>1. H[q]["incoming"][k] = 0
        BY <1>5, <1>6, <1>7
      <3> QED
        BY <3>1
    <2>3. S = {} /\ live => k \in more
      BY <1>3
    <2> QED
      BY <1>2, <1>4, <1>7, <2>1, <2>2, <2>3, FitsNew
  <1>8. CASE Reliably(kind, size)
    <2>1. /\ held' = [p \in Peers |->
                        IF p \in S THEN [held[p] EXCEPT !["unsent"][k] = size] ELSE held[p]]
          /\ queue' = queue
      BY <1>3, <1>8 DEF Enter
    <2>2. ASSUME NEW p \in Peers
          PROVE  /\ [held[p] EXCEPT !["unsent"][k] = size] \in [Lists -> Counts]
                 /\ held[p] \in [Lists -> Counts]
      BY <1>1, <1>2, <1>6 DEF Held, Counts
    <2>3. PICK H : H = held'
      OBVIOUS
    <2>4. H \in Held
      BY <2>1, <2>2, <2>3 DEF Held
    <2>5. \A q \in Peers \ S : H[q] = held[q]
      BY <2>1, <2>3
    <2>6. \A q \in S : /\ \A l \in Lists \ {"unsent"} : H[q][l] = held[q][l]
                       /\ H[q]["unsent"][k] = size
                       /\ \A j \in Ids \ {k} : H[q]["unsent"][j] = held[q]["unsent"][j]
      <3> TAKE q \in S
      <3>1. H[q] = [held[q] EXCEPT !["unsent"][k] = size]
        BY <2>1, <2>3
      <3>2. held[q] \in [Lists -> Counts] /\ held[q]["unsent"] \in [Ids -> Nat]
        BY <1>1, <1>6 DEF Held, Counts
      <3> QED
        BY <1>6, <3>1, <3>2
    <2>7. ASSUME NEW q \in Peers, NEW j \in Ids
          PROVE  /\ \A l \in Lists : held[q][l][j] \in Nat /\ H[q][l][j] \in Nat
                 /\ Refers(queue[q])[j] \in Nat
                 /\ Uses(held, queue, q)[j] = ((held[q]["unsent"][j] + held[q]["resend"][j])
                                                + (held[q]["sent"][j] + held[q]["datagram"][j]))
                                                + (held[q]["incoming"][j] + Refers(queue[q])[j])
                 /\ Uses(H, queue, q)[j] = ((H[q]["unsent"][j] + H[q]["resend"][j])
                                             + (H[q]["sent"][j] + H[q]["datagram"][j]))
                                             + (H[q]["incoming"][j] + Refers(queue[q])[j])
      BY <1>1, <2>4, UsesAt
    <2>8. \A q \in Peers \ S : \A j \in Ids : Uses(H, queue, q)[j] = Uses(held, queue, q)[j]
      BY <2>5 DEF Uses
    <2>9. \A q \in S, j \in Ids \ {k} : Uses(H, queue, q)[j] = Uses(held, queue, q)[j]
      BY <1>6, <2>6, <2>7
    <2>10. \A q \in S : Uses(H, queue, q)[k] = size
      <3> TAKE q \in S
      <3>1. \A l \in Lists \ {"unsent"} : H[q][l][k] = 0
        BY <1>5, <2>6
      <3>2. H[q]["unsent"][k] = size /\ Refers(queue[q])[k] = 0
        BY <1>5, <2>6
      <3> QED
        BY <1>2, <1>6, <2>7, <3>1, <3>2
    <2>11. \A q \in Peers : H[q]["incoming"] = held[q]["incoming"]
      BY <1>6, <2>5, <2>6
    <2>12. \A q \in Peers, j \in Ids \ {k} : Uses(H, queue, q)[j] = Uses(held, queue, q)[j]
      BY <2>8, <2>9
    <2>13. \A q \in Peers \ S : Uses(H, queue, q)[k] = 0
      BY <1>5, <2>8
    <2>14. Fits(H, queue, Append(memory, [live |-> live, count |-> References(S, size)]), more)
      BY <1>1, <1>7, <2>4, <2>10, <2>11, <2>12, <2>13
    <2> QED
      BY <2>1, <2>3, <2>14
  <1>9. CASE ~Reliably(kind, size)
    <2>1. PICK num \in [S -> Ids \cup {0}] :
               queue' = [p \in Peers |-> IF p \in S THEN queue[p] \o Commands(c, num[p], size, k)
                                                    ELSE queue[p]]
      BY <1>3, <1>9 DEF Enter
    <2>2. held' = held
      BY <1>9 DEF Enter
    <2>3. ASSUME NEW q \in S
          PROVE  /\ Commands(c, num[q], size, k) \in Seq(Command)
                 /\ Refers(Commands(c, num[q], size, k))[k] = size
                 /\ \A j \in Ids \ {k} : Refers(Commands(c, num[q], size, k))[j] = 0
      <3>1. PICK x \in Ids \cup {0} : x = num[q]
        OBVIOUS
      <3>2. PICK t : t = Commands(c, x, size, k)
        OBVIOUS
      <3>3. t \in Seq(Command)
        BY <1>2, <3>2, CommandsType
      <3>4. Len(t) = size
        <4>1. DOMAIN t = 1 .. size
          BY <3>2 DEF Commands
        <4>2. DOMAIN t = 1 .. Len(t) /\ Len(t) \in Nat
          BY <3>3, LenProperties
        <4> QED
          BY <1>2, <4>1, <4>2, UpToCardinality
      <3>5. \A i \in 1 .. size : t[i].pkt = k
        BY <3>2 DEF Commands
      <3>6. t \in Seq(Command) /\ Len(t) = size /\ \A i \in 1 .. size : t[i].pkt = k
        BY <3>3, <3>4, <3>5
      <3>7. Refers(t)[k] = size /\ \A j \in Ids \ {k} : Refers(t)[j] = 0
        BY <1>2, <3>6, RefersUniform
      <3> QED
        BY <3>1, <3>2, <3>7, <3>6
    <2>4. ASSUME NEW q \in Peers PROVE queue[q] \in Seq(Command)
      BY <1>1 DEF Queues
    <2>5. PICK T : T = queue'
      OBVIOUS
    <2>6. \A q \in Peers \ S : T[q] = queue[q]
      BY <2>1, <2>5
    <2>7. \A q \in S : T[q] = queue[q] \o Commands(c, num[q], size, k)
      BY <2>1, <2>5
    <2>8. ASSUME NEW q \in S
          PROVE  /\ T[q] \in Seq(Command)
                 /\ Refers(T[q])[k] = size
                 /\ \A j \in Ids \ {k} : Refers(T[q])[j] = Refers(queue[q])[j]
      <3>1. PICK s \in Seq(Command), t \in Seq(Command) :
                 s = queue[q] /\ t = Commands(c, num[q], size, k)
        BY <2>3, <2>4
      <3>2. T[q] = s \o t
        BY <2>7, <3>1
      <3>3. /\ s \o t \in Seq(Command)
            /\ \A j \in Ids : Refers(s \o t)[j] = Refers(s)[j] + Refers(t)[j]
        <4>1. \A j \in Ids : Refers(s \o t)[j] = Refers(s)[j] + Refers(t)[j]
          BY RefersConcat
        <4> QED
          BY <4>1, ConcatProperties
      <3>4. Refers(s)[k] = 0 /\ \A j \in Ids : Refers(s)[j] \in Nat
        BY <1>5, <3>1, RefersType DEF Counts
      <3>5. Refers(t)[k] = size /\ \A j \in Ids \ {k} : Refers(t)[j] = 0
        BY <2>3, <3>1
      <3>6. T[q] \in Seq(Command)
        BY <3>2, <3>3
      <3>7. Refers(s \o t)[k] = 0 + size
        BY <3>3, <3>4, <3>5
      <3>8. Refers(T[q])[k] = size
        BY <1>2, <3>2, <3>7
      <3>9. ASSUME NEW j \in Ids \ {k}
             PROVE  Refers(T[q])[j] = Refers(queue[q])[j]
        <4>1. Refers(s \o t)[j] = Refers(s)[j] + 0 /\ Refers(s)[j] \in Nat
          BY <3>3, <3>4, <3>5
        <4>2. Refers(s \o t)[j] = Refers(s)[j]
          BY <4>1
        <4> QED
          BY <3>1, <3>2, <4>2
      <3> QED
        BY <3>6, <3>8, <3>9
    <2>9. T \in Queues
      <3>1. DOMAIN T = Peers /\ T = [p \in Peers |-> T[p]]
        BY <2>1, <2>5
      <3>2. \A q \in Peers : T[q] \in Seq(Command)
        BY <2>4, <2>6, <2>8
      <3> QED
        BY <3>1, <3>2 DEF Queues
    <2>10. ASSUME NEW q \in Peers, NEW j \in Ids
           PROVE  /\ \A l \in Lists : held[q][l][j] \in Nat
                  /\ Refers(queue[q])[j] \in Nat /\ Refers(T[q])[j] \in Nat
                  /\ Uses(held, queue, q)[j] = ((held[q]["unsent"][j] + held[q]["resend"][j])
                                                 + (held[q]["sent"][j] + held[q]["datagram"][j]))
                                                 + (held[q]["incoming"][j] + Refers(queue[q])[j])
                  /\ Uses(held, T, q)[j] = ((held[q]["unsent"][j] + held[q]["resend"][j])
                                             + (held[q]["sent"][j] + held[q]["datagram"][j]))
                                             + (held[q]["incoming"][j] + Refers(T[q])[j])
      BY <1>1, <2>9, UsesAt
    <2>11. \A q \in Peers \ S : \A j \in Ids : Uses(held, T, q)[j] = Uses(held, queue, q)[j]
      BY <2>6 DEF Uses
    <2>12. \A q \in S, j \in Ids \ {k} : Uses(held, T, q)[j] = Uses(held, queue, q)[j]
      BY <2>8, <2>10
    <2>13. \A q \in S : Uses(held, T, q)[k] = size
      <3> TAKE q \in S
      <3>1. /\ held[q]["unsent"][k] = 0 /\ held[q]["resend"][k] = 0 /\ held[q]["sent"][k] = 0
            /\ held[q]["datagram"][k] = 0 /\ held[q]["incoming"][k] = 0
        BY <1>5, <1>6
      <3>2. Refers(T[q])[k] = size
        BY <2>8
      <3>3. Uses(held, T, q)[k] = ((0 + 0) + (0 + 0)) + (0 + size)
        BY <2>10, <3>1, <3>2
      <3> QED
        BY <1>2, <3>3
    <2>14. \A q \in Peers, j \in Ids \ {k} : Uses(held, T, q)[j] = Uses(held, queue, q)[j]
      BY <2>11, <2>12
    <2>15. \A q \in Peers \ S : Uses(held, T, q)[k] = 0
      BY <1>5, <2>11
    <2>16. Fits(held, T, Append(memory, [live |-> live, count |-> References(S, size)]), more)
      BY <1>1, <1>7, <2>9, <2>13, <2>14, <2>15
    <2> QED
      BY <2>2, <2>5, <2>16
  <1> QED
    BY <1>8, <1>9

--------------------------------------------------------------------------------
(* The operations of the model. *)

\* An operation outside of a turn that leaves no event.
LEMMA IdleStep ==
  ASSUME IInv, Idle, turn' = turn, event' = event,
         state' \in [Peers -> {"connected", "later", "gone"}], refused' \subseteq Ids,
         Fits(held', queue', memory', refused' \cup {event})
  PROVE  IInv'
  <1>1. turn.at = "none" /\ event = 0
    BY DEF Idle
  <1>2. TurnHolds'
    BY <1>1 DEF IInv, TurnHolds
  <1> QED
    BY <1>1, <1>2 DEF IInv

LEMMA IdleFits ==
  ASSUME IInv
  PROVE  /\ Fits(held, queue, memory, refused \cup {event})
         /\ held \in Held /\ queue \in Queues /\ memory \in Seq(Packet)
         /\ Len(memory) \in Nat /\ DOMAIN memory = 1 .. Len(memory)
         /\ state \in [Peers -> {"connected", "later", "gone"}] /\ refused \subseteq Ids
  <1>1. Fits(held, queue, memory, refused \cup {event})
    BY DEF IInv
  <1>2. held \in Held /\ queue \in Queues /\ memory \in Seq(Packet)
    BY <1>1 DEF Fits, Sound
  <1> QED
    BY <1>1, <1>2, LenProperties DEF IInv

LEMMA SendToPeerKeeps ==
  ASSUME IInv, NEW p \in Peers, NEW c \in Channels, NEW kind, NEW size \in Sizes,
         NEW ok \in BOOLEAN, SendToPeer(p, c, kind, size, ok)
  PROVE  IInv'
  <1>1. PICK S \in SUBSET Peers : S = IF ok /\ state[p] = "connected" THEN {p} ELSE {}
    OBVIOUS
  <1>2. /\ Idle /\ NextId \in Ids
        /\ Enter(S, c, kind, size, NextId)
        /\ memory' = Append(memory, [live |-> TRUE, count |-> References(S, size)])
        /\ refused' = IF S = {} THEN refused \cup {NextId} ELSE refused
        /\ state' = state /\ turn' = turn /\ event' = event
    BY <1>1 DEF SendToPeer
  <1>3. refused \cup {event} \subseteq refused' \cup {event}
    BY <1>2
  <1>4. S = {} => NextId \in refused' \cup {event}
    BY <1>2
  <1>5. Fits(held, queue, memory, refused \cup {event})
    BY IdleFits
  <1>6. Fits(held', queue', Append(memory, [live |-> TRUE, count |-> References(S, size)]),
             refused' \cup {event})
    BY <1>2, <1>3, <1>4, <1>5, EnterFits
  <1>7. refused' \subseteq Ids /\ state' \in [Peers -> {"connected", "later", "gone"}]
    BY <1>2, IdleFits
  <1> QED
    BY <1>2, <1>6, <1>7, IdleStep

LEMMA BroadcastKeeps ==
  ASSUME IInv, NEW c \in Channels, NEW kind, NEW size \in Sizes,
         NEW ok \in BOOLEAN, Broadcast(c, kind, size, ok)
  PROVE  IInv'
  <1>1. PICK S \in SUBSET Peers : S = {p \in Peers : ok /\ state[p] = "connected"}
    OBVIOUS
  <1>2. /\ Idle /\ NextId \in Ids
        /\ Enter(S, c, kind, size, NextId)
        /\ memory' = Append(memory, [live |-> Untaken(S), count |-> References(S, size)])
        /\ state' = state /\ turn' = turn /\ event' = event /\ refused' = refused
    BY <1>1 DEF Broadcast
  <1>3. PICK live \in BOOLEAN : live = Untaken(S)
    BY DEF Untaken
  <1>4. (S # {} => live) /\ ~(S = {} /\ live)
    BY <1>3 DEF Untaken
  <1>5. Fits(held, queue, memory, refused \cup {event})
    BY IdleFits
  <1>6. Fits(held', queue', Append(memory, [live |-> live, count |-> References(S, size)]),
             refused \cup {event})
    BY <1>2, <1>4, <1>5, EnterFits
  <1>7. Fits(held', queue', memory', refused' \cup {event})
    BY <1>2, <1>3, <1>6
  <1>8. refused' \subseteq Ids /\ state' \in [Peers -> {"connected", "later", "gone"}]
    BY <1>2, IdleFits
  <1> QED
    BY <1>2, <1>7, <1>8, IdleStep

\* A peer whose queues are reset gives up everything.
LEMMA ResetFits ==
  ASSUME NEW h, NEW mem, NEW free, Fits(h, queue, mem, free), NEW p \in Peers,
         ResetQueues(p, h, mem)
  PROVE  Fits(held', queue', memory', free) /\ Len(memory') = Len(mem)
  <1>1. h \in Held /\ queue \in Queues
    BY DEF Fits
  <1>2. PICK n \in Counts : n = Uses(h, queue, p)
    BY <1>1, UsesAt
  <1>3. /\ memory' = Released(mem, n)
        /\ held' = [h EXCEPT ![p] = [l \in Lists |-> None]]
        /\ queue' = [queue EXCEPT ![p] = <<>>]
    BY <1>2, AllOfIsUses DEF ResetQueues
  <1>4. PICK H, T : H = held' /\ T = queue'
    OBVIOUS
  <1>5. None \in Counts /\ \A k \in Ids : None[k] = 0
    BY DEF None, Counts
  <1>6. H \in Held /\ H[p] = [l \in Lists |-> None] /\ \A q \in Peers \ {p} : H[q] = h[q]
    BY <1>1, <1>3, <1>4, <1>5 DEF Held
  <1>7. T \in Queues /\ T[p] = <<>> /\ \A q \in Peers \ {p} : T[q] = queue[q]
    BY <1>1, <1>3, <1>4, RefersEmpty DEF Queues
  <1>8. \A l \in Lists, k \in Ids : H[p][l][k] = 0
    BY <1>5, <1>6
  <1>9. {"unsent", "resend", "sent", "datagram", "incoming"} = Lists
    BY DEF Lists
  <1>10. ASSUME NEW k \in Ids
         PROVE  /\ H[p]["incoming"][k] <= h[p]["incoming"][k]
                /\ Uses(h, queue, p)[k] = Uses(H, T, p)[k] + n[k]
    <2>1. /\ H[p]["unsent"][k] = 0 /\ H[p]["resend"][k] = 0 /\ H[p]["sent"][k] = 0
          /\ H[p]["datagram"][k] = 0 /\ H[p]["incoming"][k] = 0
      BY <1>8, <1>9
    <2>2. Refers(T[p])[k] = 0
      BY <1>5, <1>7, RefersEmpty
    <2>3. Uses(H, T, p)[k] = ((H[p]["unsent"][k] + H[p]["resend"][k])
                               + (H[p]["sent"][k] + H[p]["datagram"][k]))
                               + (H[p]["incoming"][k] + Refers(T[p])[k])
      BY <1>6, <1>7, UsesAt
    <2>4. Uses(H, T, p)[k] = 0
      BY <2>1, <2>2, <2>3
    <2>5. h[p]["incoming"][k] \in Nat
      BY <1>1, <1>9, UsesAt
    <2>6. n[k] \in Nat
      BY DEF Counts
    <2> QED
      BY <1>2, <2>1, <2>4, <2>5, <2>6
  <1>11. Fits(H, T, Released(mem, n), free) /\ Len(Released(mem, n)) = Len(mem)
    BY <1>6, <1>7, <1>10, FitsRelease
  <1> QED
    BY <1>3, <1>4, <1>11

LEMMA ResetKeeps ==
  ASSUME IInv, Idle, NEW p \in Peers, NEW h, NEW mem,
         Fits(h, queue, mem, refused \cup {event}), ResetQueues(p, h, mem),
         turn' = turn, event' = event, refused' = refused
  PROVE  IInv'
  <1>1. Fits(held', queue', memory', refused \cup {event})
    BY ResetFits
  <1>2. state' \in [Peers -> {"connected", "later", "gone"}]
    BY IdleFits DEF ResetQueues
  <1>3. refused' \subseteq Ids
    BY IdleFits
  <1> QED
    BY <1>1, <1>2, <1>3, IdleStep

LEMMA ConnectionKeeps ==
  ASSUME IInv, NEW p \in Peers, Connect(p) \/ Disconnect(p) \/ DisconnectLater(p)
  PROVE  IInv'
  <1>1. Idle /\ turn' = turn /\ event' = event /\ refused' = refused
    BY DEF Connect, Disconnect, DisconnectLater
  <1>2. Fits(held, queue, memory, refused \cup {event}) /\ refused' \subseteq Ids
    BY <1>1, IdleFits
  <1>3. CASE ResetQueues(p, held, memory)
    BY <1>1, <1>2, <1>3, ResetKeeps
  <1>4. CASE \E s \in {"connected", "later"} :
               /\ state' = [state EXCEPT ![p] = s]
               /\ held' = held /\ queue' = queue /\ memory' = memory
    <2>1. state' \in [Peers -> {"connected", "later", "gone"}]
      BY <1>4, IdleFits
    <2>2. Fits(held', queue', memory', refused' \cup {event})
      BY <1>1, <1>2, <1>4
    <2> QED
      BY <1>1, <1>2, <2>1, <2>2, IdleStep
  <1> QED
    BY <1>3, <1>4 DEF Connect, Disconnect, DisconnectLater

LEMMA MinusType ==
  ASSUME NEW f \in Counts, NEW g, \A k \in Ids : g[k] \in Nat /\ g[k] <= f[k]
  PROVE  Minus(f, g) \in Counts /\ \A k \in Ids : Minus(f, g)[k] = f[k] - g[k]
  BY DEF Minus, Counts

LEMMA PlusType ==
  ASSUME NEW f \in Counts, NEW g \in Counts
  PROVE  Plus(f, g) \in Counts /\ \A k \in Ids : Plus(f, g)[k] = f[k] + g[k]
  BY DEF Plus, Counts

LEMMA OneType ==
  ASSUME NEW k \in Ids
  PROVE  One(k) \in Counts /\ One(k)[k] = 1 /\ \A j \in Ids \ {k} : One(k)[j] = 0
  BY DEF One, None, Counts

LEMMA PartsType ==
  ASSUME NEW f \in Counts, NEW g \in Parts(f)
  PROVE  g \in Counts /\ \A k \in Ids : g[k] <= f[k]
  <1>1. g \in [Ids -> 0 .. Max(Sizes)] /\ \A k \in Ids : g[k] <= f[k]
    BY DEF Parts
  <1>2. 0 .. Max(Sizes) \subseteq Nat
    BY MaxSize
  <1> QED
    BY <1>1, <1>2 DEF Counts

LEMMA SendReliableKeeps ==
  ASSUME IInv, NEW p \in Peers,
         NEW late \in Parts(held[p]["sent"]), NEW first \in Parts(held[p]["unsent"]),
         NEW again \in Parts(Plus(held[p]["resend"], late)),
         SendReliable(p, late, again, first)
  PROVE  IInv'
  <1>1. /\ Fits(held, queue, memory, refused \cup {event})
        /\ held \in Held /\ queue \in Queues
        /\ state \in [Peers -> {"connected", "later", "gone"}] /\ refused \subseteq Ids
    BY IdleFits
  <1>2. {"unsent", "resend", "sent", "datagram", "incoming"} = Lists
    BY DEF Lists
  <1>3. PICK a \in Counts, b \in Counts, c \in Counts :
             a = held[p]["unsent"] /\ b = held[p]["resend"] /\ c = held[p]["sent"]
    BY <1>1, <1>2, UsesAt
  <1>4. late \in Counts /\ first \in Counts /\ \A k \in Ids : late[k] <= c[k] /\ first[k] <= a[k]
    BY <1>3, PartsType
  <1>5. again \in Counts /\ \A k \in Ids : again[k] <= b[k] + late[k]
    BY <1>3, <1>4, PlusType, PartsType
  <1>6. \A k \in Ids : /\ a[k] \in Nat /\ b[k] \in Nat /\ c[k] \in Nat
                       /\ late[k] \in Nat /\ first[k] \in Nat /\ again[k] \in Nat
    BY <1>4, <1>5 DEF Counts
  <1>7. PICK d \in Counts : d = Minus(a, first) /\ \A k \in Ids : d[k] = a[k] - first[k]
    BY <1>4, <1>6, MinusType
  <1>8. PICK e \in Counts :
             e = Minus(Plus(b, late), again) /\ \A k \in Ids : e[k] = (b[k] + late[k]) - again[k]
    <2>1. Plus(b, late) \in Counts /\ \A k \in Ids : Plus(b, late)[k] = b[k] + late[k]
      BY <1>4, PlusType
    <2> QED
      BY <1>5, <1>6, <2>1, MinusType
  <1>9. PICK s \in Counts : s = Plus(again, first) /\ \A k \in Ids : s[k] = again[k] + first[k]
    BY <1>4, <1>5, PlusType
  <1>10. PICK f \in Counts :
              f = Plus(Minus(c, late), s) /\ \A k \in Ids : f[k] = (c[k] - late[k]) + s[k]
    <2>1. Minus(c, late) \in Counts /\ \A k \in Ids : Minus(c, late)[k] = c[k] - late[k]
      BY <1>4, <1>6, MinusType
    <2> QED
      BY <1>9, <2>1, PlusType
  <1>11. /\ Idle
         /\ turn' = [at |-> IF queue[p] = <<>> THEN "ready" ELSE "unreliable",
                     peer |-> p, buffers |-> Packets(s)]
         /\ held' = [held EXCEPT ![p]["unsent"] = d, ![p]["resend"] = e, ![p]["sent"] = f]
         /\ state' = state /\ queue' = queue /\ memory' = memory
         /\ event' = event /\ refused' = refused
    BY <1>1, <1>2, <1>3, <1>7, <1>8, <1>9, <1>10 DEF SendReliable, Held
  <1>12. PICK H : H = held'
    OBVIOUS
  <1>13. /\ H \in Held /\ H[p]["unsent"] = d /\ H[p]["resend"] = e /\ H[p]["sent"] = f
         /\ H[p]["datagram"] = held[p]["datagram"] /\ H[p]["incoming"] = held[p]["incoming"]
         /\ \A q \in Peers \ {p} : H[q] = held[q]
    BY <1>1, <1>2, <1>11, <1>12 DEF Held
  <1>14. ASSUME NEW k \in Ids
         PROVE  Uses(H, queue, p)[k] = Uses(held, queue, p)[k]
    <2>1. PICK x \in Nat, y \in Nat, z \in Nat :
               x = held[p]["datagram"][k] /\ y = held[p]["incoming"][k] /\ z = Refers(queue[p])[k]
      BY <1>1, <1>2, UsesAt
    <2>2. Uses(held, queue, p)[k] = ((a[k] + b[k]) + (c[k] + x)) + (y + z)
      BY <1>1, <1>3, <2>1, UsesAt
    <2>3. Uses(H, queue, p)[k] = ((d[k] + e[k]) + (f[k] + x)) + (y + z)
      BY <1>1, <1>13, <2>1, UsesAt
    <2>4. d[k] = a[k] - first[k] /\ e[k] = (b[k] + late[k]) - again[k]
      BY <1>7, <1>8
    <2>5. f[k] = (c[k] - late[k]) + (again[k] + first[k])
      BY <1>9, <1>10
    <2>6. d[k] \in Nat /\ e[k] \in Nat /\ f[k] \in Nat
      BY DEF Counts
    <2> QED
      BY <1>6, <2>2, <2>3, <2>4, <2>5, <2>6
  <1>15. Fits(H, queue, memory, refused \cup {event})
    BY <1>1, <1>13, <1>14, FitsMove
  <1>16. \A k \in Packets(s) : k \in Ids /\ H[p]["sent"][k] > 0
    <2> TAKE k \in Packets(s)
    <2>1. k \in Ids /\ s[k] > 0
      BY DEF Packets
    <2>2. f[k] = (c[k] - late[k]) + s[k] /\ late[k] <= c[k] /\ s[k] \in Nat
      BY <1>4, <1>10, <2>1 DEF Counts
    <2> QED
      BY <1>6, <1>13, <2>1, <2>2
  <1>17. TurnHolds'
    <2>1. /\ turn'.at \in {"unreliable", "ready"} /\ turn'.peer = p /\ turn'.buffers = Packets(s)
          /\ turn' \in [at : {"none", "unreliable", "ready"}, peer : Peers \cup {"nobody"},
                        buffers : SUBSET Ids]
      BY <1>11, <1>16
    <2>2. event' = 0
      BY <1>11 DEF Idle
    <2> QED
      BY <1>12, <1>16, <2>1, <2>2 DEF TurnHolds
  <1>18. event' = 0
    BY <1>11 DEF Idle
  <1> QED
    BY <1>1, <1>11, <1>12, <1>15, <1>17, <1>18 DEF IInv

\* Within a turn.
LEMMA InTurn ==
  ASSUME IInv, turn.at # "none"
  PROVE  /\ turn.peer \in Peers /\ event = 0
         /\ turn \in [at : {"none", "unreliable", "ready"}, peer : Peers \cup {"nobody"},
                      buffers : SUBSET Ids]
         /\ \/ state[turn.peer] = "gone"
            \/ \A k \in turn.buffers :
                 held[turn.peer]["sent"][k] > 0 \/ held[turn.peer]["datagram"][k] > 0
  BY DEF IInv, TurnHolds

LEMMA PutUnreliableKeeps ==
  ASSUME IInv, PutUnreliable
  PROVE  IInv'
  <1>1. PICK p : p = turn.peer
    OBVIOUS
  <1>2. /\ turn.at = "unreliable" /\ queue[p] # <<>>
        /\ turn' = [turn EXCEPT !.buffers = @ \cup {queue[p][1].pkt}]
        /\ held' = [held EXCEPT ![p]["datagram"][queue[p][1].pkt] = @ + 1]
        /\ queue' = [queue EXCEPT ![p] = Tail(@)]
        /\ state' = state /\ memory' = memory /\ event' = event /\ refused' = refused
    BY <1>1 DEF PutUnreliable
  <1>3. /\ p \in Peers /\ event = 0
        /\ turn \in [at : {"none", "unreliable", "ready"}, peer : Peers \cup {"nobody"},
                     buffers : SUBSET Ids]
        /\ \/ state[p] = "gone"
           \/ \A k \in turn.buffers : held[p]["sent"][k] > 0 \/ held[p]["datagram"][k] > 0
    BY <1>1, <1>2, InTurn
  <1>4. /\ Fits(held, queue, memory, refused \cup {event})
        /\ held \in Held /\ queue \in Queues
        /\ state \in [Peers -> {"connected", "later", "gone"}] /\ refused \subseteq Ids
    BY IdleFits
  <1>5. {"unsent", "resend", "sent", "datagram", "incoming"} = Lists
    BY DEF Lists
  <1>6. PICK s \in Seq(Command) : s = queue[p] /\ s # <<>>
    BY <1>2, <1>3, <1>4 DEF Queues
  <1>7. /\ Tail(s) \in Seq(Command) /\ s[1] \in Command
        /\ \A k \in Ids : Refers(s)[k] = One(s[1].pkt)[k] + Refers(Tail(s))[k]
    BY <1>6, RefersTail
  <1>8. PICK j \in Ids : j = s[1].pkt
    BY <1>7 DEF Command
  <1>9. PICK H, T : H = held' /\ T = queue'
    OBVIOUS
  <1>10. T \in Queues /\ T[p] = Tail(s) /\ \A q \in Peers \ {p} : T[q] = queue[q]
    BY <1>2, <1>3, <1>4, <1>6, <1>7, <1>9 DEF Queues
  <1>11. PICK d \in Counts : d = held[p]["datagram"]
    BY <1>3, <1>4, <1>5, UsesAt
  <1>12. [d EXCEPT ![j] = @ + 1] \in Counts
    BY DEF Counts
  <1>13. PICK f \in Counts : f = [d EXCEPT ![j] = @ + 1]
    BY <1>12
  <1>14. Replaced(H, held, p, "datagram", f)
    BY <1>2, <1>3, <1>4, <1>6, <1>8, <1>9, <1>11, <1>13 DEF Held, Replaced
  <1>15. /\ H \in Held /\ H[p]["datagram"] = f
         /\ \A l \in Lists \ {"datagram"} : H[p][l] = held[p][l]
         /\ \A q \in Peers \ {p} : H[q] = held[q]
    BY <1>3, <1>4, <1>5, <1>14, HeldList
  <1>16. f[j] = d[j] + 1 /\ (\A k \in Ids \ {j} : f[k] = d[k]) /\ \A k \in Ids : d[k] \in Nat
    BY <1>13 DEF Counts
  <1>17. ASSUME NEW k \in Ids
         PROVE  Uses(H, T, p)[k] = Uses(held, queue, p)[k]
    <2>1. PICK a \in Nat, b \in Nat, c \in Nat, e \in Nat, x \in Nat :
               /\ a = held[p]["unsent"][k] /\ b = held[p]["resend"][k] /\ c = held[p]["sent"][k]
               /\ e = held[p]["incoming"][k] /\ x = Refers(T[p])[k]
      <3>1. \A l \in Lists : held[p][l][k] \in Nat
        BY <1>3, <1>4, UsesAt
      <3>2. Refers(T[p])[k] \in Nat
        BY <1>3, <1>10, <1>15, UsesAt
      <3> QED
        BY <1>5, <3>1, <3>2
    <2>2. Refers(s)[k] = One(j)[k] + x
      BY <1>7, <1>8, <1>10, <2>1
    <2>3. Uses(held, queue, p)[k] = ((a + b) + (c + d[k])) + (e + (One(j)[k] + x))
      BY <1>3, <1>4, <1>6, <1>11, <2>1, <2>2, UsesAt
    <2>4. /\ H[p]["unsent"][k] = a /\ H[p]["resend"][k] = b /\ H[p]["sent"][k] = c
          /\ H[p]["incoming"][k] = e /\ H[p]["datagram"][k] = f[k]
      BY <1>5, <1>15, <2>1
    <2>5. Uses(H, T, p)[k] = ((H[p]["unsent"][k] + H[p]["resend"][k])
                               + (H[p]["sent"][k] + H[p]["datagram"][k]))
                               + (H[p]["incoming"][k] + Refers(T[p])[k])
      <3>1. H \in Held /\ T \in Queues /\ p \in Peers
        BY <1>3, <1>10, <1>15
      <3> QED
        BY <3>1, UsesAt
    <2>6. Uses(H, T, p)[k] = ((a + b) + (c + f[k])) + (e + x)
      BY <2>1, <2>4, <2>5
    <2>7. f[k] = d[k] + One(j)[k] /\ One(j)[k] \in Nat /\ d[k] \in Nat
      <3>1. One(j)[j] = 1 /\ \A i \in Ids \ {j} : One(j)[i] = 0
        BY OneType
      <3> QED
        BY <1>16, <3>1
    <2> QED
      BY <2>3, <2>6, <2>7
  <1>18. H[p]["incoming"] = held[p]["incoming"]
    BY <1>5, <1>15
  <1>19. Fits(H, T, memory, refused \cup {event})
    BY <1>3, <1>4, <1>10, <1>15, <1>17, <1>18, FitsMove
  <1>20. TurnHolds'
    <2>1. /\ turn'.at = turn.at /\ turn'.peer = p /\ turn'.buffers = turn.buffers \cup {j}
          /\ turn' \in [at : {"none", "unreliable", "ready"}, peer : Peers \cup {"nobody"},
                        buffers : SUBSET Ids]
      BY <1>1, <1>2, <1>3, <1>6, <1>8
    <2>2. ASSUME NEW k \in turn.buffers \cup {j}, state[p] # "gone"
          PROVE  H[p]["sent"][k] > 0 \/ H[p]["datagram"][k] > 0
      <3>1. CASE k = j
        BY <1>15, <1>16, <3>1
      <3>2. CASE k # j
        <4>1. k \in Ids /\ k \in turn.buffers
          BY <1>3, <3>2
        <4>2. held[p]["sent"][k] > 0 \/ d[k] > 0
          BY <1>3, <1>11, <2>2, <4>1
        <4>3. H[p]["sent"][k] = held[p]["sent"][k] /\ H[p]["datagram"][k] = d[k]
          BY <1>5, <1>15, <1>16, <3>2, <4>1
        <4> QED
          BY <4>2, <4>3
      <3> QED
        BY <3>1, <3>2
    <2>3. event' = 0 /\ state' = state
      BY <1>2, <1>3
    <2> QED
      BY <1>3, <1>9, <2>1, <2>2, <2>3 DEF TurnHolds
  <1> QED
    BY <1>2, <1>3, <1>4, <1>9, <1>19, <1>20 DEF IInv

LEMMA ThrottleKeeps ==
  ASSUME IInv, Throttle
  PROVE  IInv'
  <1>1. PICK p : p = turn.peer
    OBVIOUS
  <1>2. turn.at = "unreliable" /\ queue[p] # <<>>
    BY <1>1 DEF Throttle
  <1>3. p \in Peers /\ event = 0
    BY <1>1, <1>2, InTurn
  <1>4. /\ Fits(held, queue, memory, refused \cup {event})
        /\ held \in Held /\ queue \in Queues
        /\ state \in [Peers -> {"connected", "later", "gone"}] /\ refused \subseteq Ids
    BY IdleFits
  <1>5. PICK s \in Seq(Command) : s = queue[p] /\ s # <<>>
    BY <1>2, <1>3, <1>4 DEF Queues
  <1>6. PICK n \in 1 .. Len(s) : n = DroppedRun(s)
    BY <1>5, DroppedRunType
  <1>7. /\ memory' = Released(memory, Refers(SubSeq(s, 1, n)))
        /\ queue' = [queue EXCEPT ![p] = SubSeq(s, n + 1, Len(s))]
        /\ state' = state /\ held' = held /\ turn' = turn
        /\ event' = event /\ refused' = refused
    BY <1>1, <1>5, <1>6 DEF Throttle
  <1>8. PICK u \in Seq(Command), v \in Seq(Command) :
             u = SubSeq(s, 1, n) /\ v = SubSeq(s, n + 1, Len(s))
    BY RefersCut
  <1>9. \A k \in Ids : Refers(s)[k] = Refers(u)[k] + Refers(v)[k]
    BY <1>8, RefersCut
  <1>10. PICK T : T = queue'
    OBVIOUS
  <1>11. T \in Queues /\ T[p] = v /\ \A q \in Peers \ {p} : T[q] = queue[q]
    BY <1>3, <1>4, <1>7, <1>8, <1>10 DEF Queues
  <1>12. Refers(u) \in Counts /\ Refers(v) \in Counts
    BY RefersType
  <1>13. {"unsent", "resend", "sent", "datagram", "incoming"} = Lists
    BY DEF Lists
  <1>14. ASSUME NEW k \in Ids
         PROVE  /\ held[p]["incoming"][k] <= held[p]["incoming"][k]
                /\ Uses(held, queue, p)[k] = Uses(held, T, p)[k] + Refers(u)[k]
    <2>1. PICK a \in Nat, b \in Nat, c \in Nat, d \in Nat, e \in Nat, x \in Nat, y \in Nat :
               /\ a = held[p]["unsent"][k] /\ b = held[p]["resend"][k] /\ c = held[p]["sent"][k]
               /\ d = held[p]["datagram"][k] /\ e = held[p]["incoming"][k]
               /\ x = Refers(u)[k] /\ y = Refers(v)[k]
      <3>1. \A l \in Lists : held[p][l][k] \in Nat
        BY <1>3, <1>4, UsesAt
      <3>2. Refers(u)[k] \in Nat /\ Refers(v)[k] \in Nat
        BY <1>12 DEF Counts
      <3> QED
        BY <1>13, <3>1, <3>2
    <2>2. Uses(held, queue, p)[k] = ((a + b) + (c + d)) + (e + (x + y))
      BY <1>3, <1>4, <1>5, <1>9, <2>1, UsesAt
    <2>3. Uses(held, T, p)[k] = ((a + b) + (c + d)) + (e + y)
      BY <1>3, <1>4, <1>11, <2>1, UsesAt
    <2>4. ((a + b) + (c + d)) + (e + (x + y)) = (((a + b) + (c + d)) + (e + y)) + x /\ e <= e
      OBVIOUS
    <2> QED
      BY <2>1, <2>2, <2>3, <2>4
  <1>15. /\ Fits(held, T, Released(memory, Refers(u)), refused \cup {event})
    BY <1>3, <1>4, <1>11, <1>12, <1>14, FitsRelease
  <1>16. TurnHolds' /\ event' = 0
    BY <1>3, <1>7 DEF IInv, TurnHolds
  <1> QED
    BY <1>4, <1>7, <1>8, <1>10, <1>15, <1>16 DEF IInv

LEMMA EndUnreliableKeeps ==
  ASSUME IInv, EndUnreliable
  PROVE  IInv'
  <1>1. PICK p : p = turn.peer
    OBVIOUS
  <1>2. /\ turn.at = "unreliable"
        /\ turn' = [turn EXCEPT !.at = "ready"]
        /\ event' = event /\ refused' = refused
        /\ \/ ResetQueues(p, held, memory)
           \/ state' = state /\ held' = held /\ queue' = queue /\ memory' = memory
    BY <1>1 DEF EndUnreliable
  <1>3. /\ p \in Peers /\ event = 0
        /\ turn \in [at : {"none", "unreliable", "ready"}, peer : Peers \cup {"nobody"},
                     buffers : SUBSET Ids]
        /\ \/ state[p] = "gone"
           \/ \A k \in turn.buffers : held[p]["sent"][k] > 0 \/ held[p]["datagram"][k] > 0
    BY <1>1, <1>2, InTurn
  <1>4. /\ Fits(held, queue, memory, refused \cup {event})
        /\ state \in [Peers -> {"connected", "later", "gone"}] /\ refused \subseteq Ids
    BY IdleFits
  <1>5. /\ turn'.at = "ready" /\ turn'.peer = p /\ turn'.buffers = turn.buffers
        /\ turn' \in [at : {"none", "unreliable", "ready"}, peer : Peers \cup {"nobody"},
                      buffers : SUBSET Ids]
    BY <1>1, <1>2, <1>3
  <1>6. CASE ResetQueues(p, held, memory)
    <2>1. Fits(held', queue', memory', refused \cup {event})
      BY <1>3, <1>4, <1>6, ResetFits
    <2>2. state' \in [Peers -> {"connected", "later", "gone"}] /\ state'[p] = "gone"
      BY <1>3, <1>4, <1>6 DEF ResetQueues
    <2>3. TurnHolds'
      BY <1>2, <1>3, <1>5, <2>2 DEF TurnHolds
    <2> QED
      BY <1>2, <1>3, <1>4, <2>1, <2>2, <2>3 DEF IInv
  <1>7. CASE state' = state /\ held' = held /\ queue' = queue /\ memory' = memory
    <2>1. TurnHolds'
      BY <1>2, <1>3, <1>5, <1>7 DEF TurnHolds
    <2>2. Fits(held', queue', memory', refused' \cup {event'})
      BY <1>2, <1>4, <1>7
    <2> QED
      BY <1>2, <1>3, <1>4, <1>7, <2>1, <2>2 DEF IInv
  <1> QED
    BY <1>2, <1>6, <1>7

\* One list of one peer gives up n.
LEMMA ListRelease ==
  ASSUME NEW h, NEW Q, NEW mem, NEW free, Fits(h, Q, mem, free),
         NEW p \in Peers, NEW l \in Lists, NEW n \in Counts, NEW f \in Counts,
         \A k \in Ids : h[p][l][k] = f[k] + n[k],
         NEW H, Replaced(H, h, p, l, f)
  PROVE  /\ Fits(H, Q, Released(mem, n), free)
         /\ Len(Released(mem, n)) = Len(mem)
  <1>1. h \in Held /\ Q \in Queues
    BY DEF Fits
  <1>2. /\ H \in Held /\ H[p][l] = f
        /\ \A m \in Lists \ {l} : H[p][m] = h[p][m]
        /\ \A q \in Peers \ {p} : H[q] = h[q]
    BY <1>1, HeldList
  <1>3. {"unsent", "resend", "sent", "datagram", "incoming"} = Lists
    BY DEF Lists
  <1>4. ASSUME NEW k \in Ids
        PROVE  /\ H[p]["incoming"][k] <= h[p]["incoming"][k]
               /\ Uses(h, Q, p)[k] = Uses(H, Q, p)[k] + n[k]
    <2>1. f[k] \in Nat /\ n[k] \in Nat /\ h[p][l][k] = f[k] + n[k]
      BY DEF Counts
    <2>2. PICK a \in Nat, b \in Nat, c \in Nat, d \in Nat, e \in Nat, x \in Nat :
               /\ a = h[p]["unsent"][k] /\ b = h[p]["resend"][k] /\ c = h[p]["sent"][k]
               /\ d = h[p]["datagram"][k] /\ e = h[p]["incoming"][k] /\ x = Refers(Q[p])[k]
      <3>1. /\ \A m \in Lists : h[p][m][k] \in Nat
            /\ Refers(Q[p])[k] \in Nat
        BY <1>1, UsesAt
      <3> QED
        BY <1>3, <3>1
    <2>3. PICK s \in Nat, t \in Nat, u \in Nat, v \in Nat, w \in Nat :
               /\ s = H[p]["unsent"][k] /\ t = H[p]["resend"][k] /\ u = H[p]["sent"][k]
               /\ v = H[p]["datagram"][k] /\ w = H[p]["incoming"][k]
      <3>1. \A m \in Lists : H[p][m][k] \in Nat
        BY <1>1, <1>2, UsesAt
      <3> QED
        BY <1>3, <3>1
    <2>4. Uses(h, Q, p)[k] = ((a + b) + (c + d)) + (e + x)
      BY <1>1, <2>2, UsesAt
    <2>5. Uses(H, Q, p)[k] = ((H[p]["unsent"][k] + H[p]["resend"][k])
                               + (H[p]["sent"][k] + H[p]["datagram"][k]))
                               + (H[p]["incoming"][k] + Refers(Q[p])[k])
      BY <1>1, <1>2, UsesAt
    <2>6. Uses(H, Q, p)[k] = ((s + t) + (u + v)) + (w + x)
      BY <2>2, <2>3, <2>5
    <2>7. \A m \in Lists \ {l} : H[p][m][k] = h[p][m][k]
      BY <1>2
    <2>8. H[p][l][k] = f[k]
      BY <1>2
    <2>9. w <= e /\ ((a + b) + (c + d)) + (e + x) = (((s + t) + (u + v)) + (w + x)) + n[k]
      <3>1. CASE l = "unsent"
        <4>1. a = s + n[k] /\ b = t /\ c = u /\ d = v /\ e = w
          BY <1>3, <2>1, <2>2, <2>3, <2>7, <2>8, <3>1
        <4> QED
          BY <2>1, <4>1
      <3>2. CASE l = "resend"
        <4>1. a = s /\ b = t + n[k] /\ c = u /\ d = v /\ e = w
          BY <1>3, <2>1, <2>2, <2>3, <2>7, <2>8, <3>2
        <4> QED
          BY <2>1, <4>1
      <3>3. CASE l = "sent"
        <4>1. a = s /\ b = t /\ c = u + n[k] /\ d = v /\ e = w
          BY <1>3, <2>1, <2>2, <2>3, <2>7, <2>8, <3>3
        <4> QED
          BY <2>1, <4>1
      <3>4. CASE l = "datagram"
        <4>1. a = s /\ b = t /\ c = u /\ d = v + n[k] /\ e = w
          BY <1>3, <2>1, <2>2, <2>3, <2>7, <2>8, <3>4
        <4> QED
          BY <2>1, <4>1
      <3>5. CASE l = "incoming"
        <4>1. a = s /\ b = t /\ c = u /\ d = v /\ e = w + n[k]
          BY <1>3, <2>1, <2>2, <2>3, <2>7, <2>8, <3>5
        <4> QED
          BY <2>1, <4>1
      <3> QED
        BY <1>3, <3>1, <3>2, <3>3, <3>4, <3>5
    <2> QED
      BY <2>2, <2>3, <2>4, <2>6, <2>9
  <1>5. H \in Held /\ \A q \in Peers \ {p} : H[q] = h[q] /\ Q[q] = Q[q]
    BY <1>2
  <1>6. /\ \A k \in Ids : H[p]["incoming"][k] <= h[p]["incoming"][k]
        /\ \A k \in Ids : Uses(h, Q, p)[k] = Uses(H, Q, p)[k] + n[k]
    BY <1>4
  <1> QED
    BY <1>1, <1>5, <1>6, FitsRelease

LEMMA SocketSendKeeps ==
  ASSUME IInv, SocketSend
  PROVE  IInv'
  <1>1. PICK p : p = turn.peer
    OBVIOUS
  <1>2. /\ turn.at = "ready"
        /\ memory' = Released(memory, held[p]["datagram"])
        /\ held' = [held EXCEPT ![p]["datagram"] = None]
        /\ turn' = NoTurn /\ state' = state /\ queue' = queue
        /\ event' = event /\ refused' = refused
    BY <1>1 DEF SocketSend, SentUnreliable
  <1>3. p \in Peers /\ event = 0
    BY <1>1, <1>2, InTurn
  <1>4. /\ Fits(held, queue, memory, refused \cup {event})
        /\ held \in Held /\ queue \in Queues
        /\ state \in [Peers -> {"connected", "later", "gone"}] /\ refused \subseteq Ids
    BY IdleFits
  <1>5. "datagram" \in Lists
    BY DEF Lists
  <1>6. PICK n \in Counts : n = held[p]["datagram"]
    BY <1>3, <1>4, <1>5, UsesAt
  <1>7. None \in Counts /\ \A k \in Ids : None[k] = 0
    BY DEF None, Counts
  <1>8. PICK f \in Counts : f = None /\ \A k \in Ids : f[k] = 0
    BY <1>7
  <1>9. \A k \in Ids : held[p]["datagram"][k] = f[k] + n[k]
    BY <1>6, <1>8 DEF Counts
  <1>10. PICK H : H = held' /\ Replaced(H, held, p, "datagram", f)
    BY <1>2, <1>8 DEF Replaced
  <1>11. Fits(H, queue, Released(memory, n), refused \cup {event})
    BY <1>3, <1>4, <1>5, <1>9, <1>10, ListRelease
  <1>12. TurnHolds'
    BY <1>2 DEF NoTurn, TurnHolds
  <1> QED
    BY <1>2, <1>3, <1>4, <1>6, <1>10, <1>11, <1>12 DEF IInv

LEMMA AcknowledgeKeeps ==
  ASSUME IInv, NEW p \in Peers, NEW l \in {"sent", "resend"}, NEW k \in Ids, Acknowledge(p, l, k)
  PROVE  IInv'
  <1>1. /\ Fits(held, queue, memory, refused \cup {event})
        /\ held \in Held /\ queue \in Queues
        /\ state \in [Peers -> {"connected", "later", "gone"}] /\ refused \subseteq Ids
    BY IdleFits
  <1>2. l \in Lists
    BY DEF Lists
  <1>3. PICK c \in Counts : c = held[p][l]
    BY <1>1, <1>2, UsesAt
  <1>4. PICK n \in Counts : n = One(k) /\ n[k] = 1 /\ \A j \in Ids \ {k} : n[j] = 0
    BY OneType
  <1>5. /\ Idle /\ c[k] > 0 /\ turn' = turn /\ event' = event /\ refused' = refused
    BY <1>3 DEF Acknowledge
  <1>6. \A j \in Ids : c[j] \in Nat /\ n[j] \in Nat /\ n[j] <= c[j]
    BY <1>4, <1>5 DEF Counts
  <1>7. PICK f \in Counts : f = Minus(c, n) /\ \A j \in Ids : f[j] = c[j] - n[j]
    BY <1>6, MinusType
  <1>8. PICK h : Replaced(h, held, p, l, f)
    BY DEF Replaced
  <1>9. h = [held EXCEPT ![p][l] = Minus(@, One(k))]
    BY <1>1, <1>2, <1>3, <1>4, <1>7, <1>8 DEF Held, Replaced
  <1>10. PICK mem : mem = Released(memory, n)
    OBVIOUS
  <1>11. \A j \in Ids : held[p][l][j] = f[j] + n[j]
    BY <1>3, <1>6, <1>7
  <1>12. Fits(h, queue, mem, refused \cup {event})
    BY <1>1, <1>2, <1>8, <1>10, <1>11, ListRelease
  <1>13. \/ ResetQueues(p, h, mem)
         \/ held' = h /\ memory' = mem /\ state' = state /\ queue' = queue
    BY <1>4, <1>9, <1>10 DEF Acknowledge
  <1>14. CASE ResetQueues(p, h, mem)
    BY <1>5, <1>12, <1>14, ResetKeeps
  <1>15. CASE held' = h /\ memory' = mem /\ state' = state /\ queue' = queue
    <2>1. Fits(held', queue', memory', refused' \cup {event})
      BY <1>5, <1>12, <1>15
    <2>2. state' \in [Peers -> {"connected", "later", "gone"}] /\ refused' \subseteq Ids
      BY <1>1, <1>5, <1>15
    <2> QED
      BY <1>5, <2>1, <2>2, IdleStep
  <1> QED
    BY <1>13, <1>14, <1>15

LEMMA ArriveKeeps ==
  ASSUME IInv, NEW p \in Peers, NEW old, Arrive(p, old)
  PROVE  IInv'
  <1>1. /\ Fits(held, queue, memory, refused \cup {event})
        /\ held \in Held /\ queue \in Queues
        /\ state \in [Peers -> {"connected", "later", "gone"}] /\ refused \subseteq Ids
    BY IdleFits
  <1>2. "incoming" \in Lists
    BY DEF Lists
  <1>3. PICK k \in Ids : k = NextId
    BY DEF Arrive
  <1>4. k = Len(memory) + 1
    BY <1>3 DEF NextId
  <1>5. PICK e \in Counts : e = held[p]["incoming"]
    BY <1>1, <1>2, UsesAt
  <1>6. PICK one \in Counts : one = One(k) /\ one[k] = 1 /\ \A j \in Ids \ {k} : one[j] = 0
    BY OneType
  <1>7. PICK now \in Counts : now = Plus(e, one) /\ \A j \in Ids : now[j] = e[j] + one[j]
    BY PlusType
  <1>8. /\ Idle /\ old \in Parts(now)
        /\ memory' = Released(Append(memory, [live |-> TRUE, count |-> 1]), old)
        /\ held' = [held EXCEPT ![p]["incoming"] = Minus(now, old)]
        /\ state' = state /\ queue' = queue /\ turn' = turn
        /\ event' = event /\ refused' = refused
    BY <1>3, <1>5, <1>6, <1>7 DEF Arrive
  <1>9. old \in Counts /\ \A j \in Ids : old[j] <= now[j]
    BY <1>8, PartsType
  <1>10. \A j \in Ids : now[j] \in Nat /\ old[j] \in Nat
    BY <1>9 DEF Counts
  <1>11. PICK f \in Counts : f = Minus(now, old) /\ \A j \in Ids : f[j] = now[j] - old[j]
    BY <1>9, <1>10, MinusType
  <1>12. PICK h : Replaced(h, held, p, "incoming", now)
    BY DEF Replaced
  <1>13. /\ h \in Held /\ h[p]["incoming"] = now
         /\ \A l \in Lists \ {"incoming"} : h[p][l] = held[p][l]
         /\ \A q \in Peers \ {p} : h[q] = held[q]
    BY <1>1, <1>2, <1>12, HeldList
  <1>14. \A q \in Peers : /\ Uses(held, queue, q)[k] = 0 /\ Refers(queue[q])[k] = 0
                          /\ \A l \in Lists : held[q][l][k] = 0
    BY <1>1, <1>4, NewUnused
  <1>15. now[k] = 1 /\ \A j \in Ids \ {k} : now[j] = e[j]
    <2>1. e[k] = 0 /\ \A j \in Ids : e[j] \in Nat
      BY <1>2, <1>5, <1>14 DEF Counts
    <2> QED
      BY <1>6, <1>7, <2>1
  <1>16. {"unsent", "resend", "sent", "datagram", "incoming"} = Lists
    BY DEF Lists
  <1>17. ASSUME NEW j \in Ids
         PROVE  /\ Uses(held, queue, p)[j] = ((held[p]["unsent"][j] + held[p]["resend"][j])
                                                + (held[p]["sent"][j] + held[p]["datagram"][j]))
                                                + (e[j] + Refers(queue[p])[j])
                /\ Uses(h, queue, p)[j] = ((held[p]["unsent"][j] + held[p]["resend"][j])
                                             + (held[p]["sent"][j] + held[p]["datagram"][j]))
                                             + (now[j] + Refers(queue[p])[j])
    <2>1. Uses(h, queue, p)[j] = ((h[p]["unsent"][j] + h[p]["resend"][j])
                                   + (h[p]["sent"][j] + h[p]["datagram"][j]))
                                   + (h[p]["incoming"][j] + Refers(queue[p])[j])
      BY <1>1, <1>13, UsesAt
    <2>2. /\ h[p]["unsent"] = held[p]["unsent"] /\ h[p]["resend"] = held[p]["resend"]
          /\ h[p]["sent"] = held[p]["sent"] /\ h[p]["datagram"] = held[p]["datagram"]
      BY <1>13, <1>16
    <2> QED
      BY <1>1, <1>5, <1>13, <2>1, <2>2, UsesAt
  <1>18. \A q \in Peers, j \in Ids \ {k} : /\ Uses(h, queue, q)[j] = Uses(held, queue, q)[j]
                                           /\ h[q]["incoming"][j] = held[q]["incoming"][j]
    <2> TAKE q \in Peers, j \in Ids \ {k}
    <2>1. CASE q = p
      BY <1>5, <1>13, <1>15, <1>17, <2>1
    <2>2. CASE q # p
      BY <1>13, <2>2 DEF Uses
    <2> QED
      BY <2>1, <2>2
  <1>19. (\A q \in {p} : Uses(h, queue, q)[k] = 1) /\ \A q \in Peers \ {p} : Uses(h, queue, q)[k] = 0
    <2>1. /\ held[p]["unsent"][k] = 0 /\ held[p]["resend"][k] = 0 /\ held[p]["sent"][k] = 0
          /\ held[p]["datagram"][k] = 0 /\ Refers(queue[p])[k] = 0
      BY <1>14, <1>16
    <2>2. Uses(h, queue, p)[k] = ((0 + 0) + (0 + 0)) + (1 + 0)
      BY <1>15, <1>17, <2>1
    <2>3. ASSUME NEW q \in Peers \ {p}
          PROVE  Uses(h, queue, q)[k] = 0
      <3>1. Uses(h, queue, q) = Uses(held, queue, q)
        BY <1>13 DEF Uses
      <3> QED
        BY <1>14, <3>1
    <2> QED
      BY <2>2, <2>3
  <1>20. \A q \in Peers : h[q]["incoming"][k] > 0 =>
                            {p} = {q} /\ 1 = 1 /\ h[q]["incoming"][k] = 1
    <2> TAKE q \in Peers
    <2>1. CASE q = p
      BY <1>13, <1>15, <2>1
    <2>2. CASE q # p
      <3>1. h[q]["incoming"][k] = 0
        BY <1>2, <1>13, <1>14, <2>2
      <3> QED
        BY <3>1
    <2> QED
      BY <2>1, <2>2
  <1>21. References({p}, 1) = 1
    <2>1. Cardinality({p}) = 1
      BY FS_Singleton
    <2> QED
      BY <2>1 DEF References
  <1>22. 1 \in 1 .. Max(Sizes) /\ {p} \in SUBSET Peers /\ {p} # {}
    BY MaxSize
  <1>23. PICK mem : mem = Append(memory, [live |-> TRUE, count |-> References({p}, 1)])
    OBVIOUS
  <1>24. PICK free : free = refused \cup {event}
    OBVIOUS
  <1>25. Fits(h, queue, mem, free)
    <2>1. Fits(held, queue, memory, free) /\ free \subseteq free /\ TRUE \in BOOLEAN
      BY <1>1, <1>24
    <2>2. {p} = {} /\ TRUE => k \in free
      OBVIOUS
    <2>3. PICK S \in SUBSET Peers, size \in 1 .. Max(Sizes) : S = {p} /\ size = 1
      BY <1>22
    <2>4. S \in SUBSET Peers /\ S # {}
      BY <1>22, <2>3
    <2>5. (\A q \in S : Uses(h, queue, q)[k] = size) /\ \A q \in Peers \ S : Uses(h, queue, q)[k] = 0
      BY <1>19, <2>3
    <2>6. \A q \in Peers : h[q]["incoming"][k] > 0 =>
                             S = {q} /\ size = 1 /\ h[q]["incoming"][k] = 1
      BY <1>20, <2>3
    <2>7. h \in Held
      BY <1>13
    <2>8. PICK live \in BOOLEAN : live = TRUE
      OBVIOUS
    <2>9. (S # {} => live) /\ (S = {} /\ live => k \in free)
      BY <2>4, <2>8
    <2>10. Fits(h, queue, Append(memory, [live |-> live, count |-> References(S, size)]), free)
      BY <1>1, <1>4, <1>18, <2>1, <2>4, <2>5, <2>6, <2>7, <2>9, FitsNew
    <2>11. Fits(h, queue, Append(memory, [live |-> TRUE, count |-> References({p}, 1)]), free)
      BY <2>3, <2>8, <2>10
    <2> QED
      BY <1>23, <2>11
  <1>26. PICK H : H = held'
    OBVIOUS
  <1>27. Replaced(H, h, p, "incoming", f)
    BY <1>1, <1>2, <1>8, <1>11, <1>12, <1>26 DEF Replaced, Held
  <1>28. \A j \in Ids : h[p]["incoming"][j] = f[j] + old[j]
    BY <1>10, <1>11, <1>13
  <1>29. Fits(H, queue, Released(mem, old), free)
    BY <1>2, <1>9, <1>25, <1>27, <1>28, ListRelease
  <1>30. Fits(held', queue', memory', refused' \cup {event})
    BY <1>8, <1>21, <1>23, <1>24, <1>26, <1>29
  <1>31. state' \in [Peers -> {"connected", "later", "gone"}] /\ refused' \subseteq Ids
    BY <1>1, <1>8
  <1> QED
    BY <1>8, <1>30, <1>31, IdleStep

LEMMA PacketExcept ==
  ASSUME NEW r \in Packet, NEW x \in Packet
  PROVE  /\ x.live = r.live => [r EXCEPT !.count = x.count] = x
         /\ x.live = FALSE /\ x.count = r.count => [r EXCEPT !.live = FALSE] = x
  <1>1. ASSUME x.live = r.live PROVE [r EXCEPT !.count = x.count] = x
    BY <1>1 DEF Packet
  <1>2. ASSUME x.live = FALSE, x.count = r.count PROVE [r EXCEPT !.live = FALSE] = x
    BY <1>2 DEF Packet
  <1> QED
    BY <1>1, <1>2

LEMMA ReceiveKeeps ==
  ASSUME IInv, NEW p \in Peers, NEW k \in Ids, Receive(p, k)
  PROVE  IInv'
  <1>1. /\ Fits(held, queue, memory, refused \cup {event})
        /\ held \in Held /\ queue \in Queues /\ memory \in Seq(Packet)
        /\ state \in [Peers -> {"connected", "later", "gone"}] /\ refused \subseteq Ids
    BY IdleFits
  <1>2. {"unsent", "resend", "sent", "datagram", "incoming"} = Lists /\ "incoming" \in Lists
    BY DEF Lists
  <1>3. PICK e \in Counts : e = held[p]["incoming"]
    BY <1>1, <1>2, UsesAt
  <1>4. /\ Idle /\ e[k] > 0 /\ event' = k
        /\ memory' = [memory EXCEPT ![k].count = @ - 1]
        /\ held' = [held EXCEPT ![p]["incoming"][k] = 0]
        /\ state' = state /\ queue' = queue /\ turn' = turn /\ refused' = refused
    BY <1>3 DEF Receive, ReceivedBy
  <1>5. PICK A \in [Peers -> Counts], I \in [Peers -> Counts] :
             A = Used(held, queue) /\ I = Received(held)
    BY <1>1, UsedAt
  <1>6. Sound(A, I, memory, refused \cup {event})
    BY <1>1, <1>5 DEF Fits
  <1>7. I[p] = e
    BY <1>1, <1>3, <1>5, UsedAt
  <1>8. /\ I[p][k] <= A[p][k] /\ A[p][k] = 1 /\ \A q \in Peers \ {p} : A[q][k] = 0
    BY <1>4, <1>6, <1>7 DEF Sound
  <1>9. e[k] = 1
    BY <1>4, <1>7, <1>8 DEF Counts
  <1>10. /\ k \in 1 .. Len(memory) /\ memory[k] \in Packet /\ memory[k].live
    BY <1>6, <1>8, SoundUse
  <1>11. memory[k].count = 1
    <2>1. \A q \in {p} : A[q][k] = 1
      BY <1>8
    <2>2. {p} \in SUBSET Peers /\ 1 \in Nat /\ \A q \in Peers \ {p} : A[q][k] = 0
      BY <1>8
    <2>3. Refs(A, k) = References({p}, 1)
      BY <2>1, <2>2, RefsNew
    <2>4. References({p}, 1) = 1
      BY FS_Singleton DEF References
    <2>5. memory[k].count = Refs(A, k)
      BY <1>6, <1>10 DEF Sound
    <2> QED
      BY <2>3, <2>4, <2>5
  <1>12. PICK n \in Counts : n = One(k) /\ n[k] = 1 /\ \A j \in Ids \ {k} : n[j] = 0
    BY OneType
  <1>13. [e EXCEPT ![k] = 0] \in Counts
    BY DEF Counts
  <1>14. PICK f \in Counts : f = [e EXCEPT ![k] = 0]
    BY <1>13
  <1>15. PICK H : H = held' /\ Replaced(H, held, p, "incoming", f)
    BY <1>1, <1>2, <1>3, <1>4, <1>14 DEF Held, Replaced
  <1>16. \A j \in Ids : held[p]["incoming"][j] = f[j] + n[j]
    <2> TAKE j \in Ids
    <2>1. e[j] \in Nat /\ f[j] = IF j = k THEN 0 ELSE e[j]
      BY <1>14 DEF Counts
    <2> QED
      BY <1>3, <1>9, <1>12, <2>1
  <1>17. PICK mem : mem = Released(memory, n)
    OBVIOUS
  <1>18. Fits(H, queue, mem, refused \cup {event}) /\ Len(mem) = Len(memory)
    BY <1>1, <1>2, <1>15, <1>16, <1>17, ListRelease
  <1>19. Len(memory) \in Nat /\ DOMAIN memory = 1 .. Len(memory) /\ 1 .. Len(memory) \subseteq Ids
    BY <1>1, <1>6, IdsNat, LenProperties DEF Sound, Ids
  <1>20. \A j \in 1 .. Len(memory) : memory[j] \in Packet
    BY <1>1, ElementOfSeq
  <1>21. PICK x : x = [live |-> memory[k].live, count |-> 0]
    OBVIOUS
  <1>22. x \in Packet /\ x.count = 0 /\ x.live = memory[k].live
    BY <1>10, <1>21 DEF Packet
  <1>23. PICK m : m = memory'
    OBVIOUS
  <1>24. m = [memory EXCEPT ![k] = x]
    <2>1. m = [memory EXCEPT ![k] = [memory[k] EXCEPT !.count = memory[k].count - 1]]
      BY <1>4, <1>10, <1>19, <1>23
    <2>2. [memory[k] EXCEPT !.count = memory[k].count - 1] = x
      <3>1. [memory[k] EXCEPT !.count = x.count] = x
        BY <1>10, <1>22, PacketExcept
      <3>2. memory[k].count - 1 = x.count
        BY <1>11, <1>22
      <3> QED
        BY <3>1, <3>2
    <2> QED
      BY <2>1, <2>2
  <1>25. /\ m \in Seq(Packet) /\ Len(m) = Len(memory)
         /\ \A j \in 1 .. Len(memory) : m[j] = IF j = k THEN x ELSE memory[j]
    BY <1>1, <1>10, <1>22, <1>24, ExceptSeq
  <1>26. ASSUME NEW j \in 1 .. Len(mem)
         PROVE  /\ m[j].count = mem[j].count
                /\ m[j].count > 0 => m[j].live
                /\ m[j].count = 0 /\ m[j].live => j \in refused \cup {k}
    <2>1. j \in 1 .. Len(memory) /\ j \in Ids
      BY <1>18, <1>19
    <2>2. mem[j].count = memory[j].count - n[j]
      BY <1>17, <1>19, <2>1 DEF Released
    <2>3. CASE j = k
      <3>1. m[j] = x /\ mem[j].count = 0
        BY <1>11, <1>12, <1>25, <2>1, <2>2, <2>3
      <3> QED
        BY <1>22, <2>3, <3>1
    <2>4. CASE j # k
      <3>1. m[j] = memory[j]
        BY <1>25, <2>1, <2>4
      <3>2. n[j] = 0 /\ memory[j].count \in Nat
        BY <1>12, <1>20, <2>1, <2>4 DEF Packet
      <3>3. m[j].count = mem[j].count
        BY <2>2, <3>1, <3>2
      <3>4. /\ memory[j].count > 0 => memory[j].live
            /\ memory[j].count = 0 /\ memory[j].live => j \in refused \cup {event}
        BY <1>6, <2>1 DEF Sound
      <3>5. event # j
        BY <1>4, <1>19, <2>1 DEF Idle
      <3> QED
        BY <3>1, <3>3, <3>4, <3>5
    <2> QED
      BY <2>3, <2>4
  <1>27. Sound(Used(H, queue), Received(H), mem, refused \cup {event})
         /\ H \in Held /\ queue \in Queues
    BY <1>18 DEF Fits
  <1>28. Sound(Used(H, queue), Received(H), m, refused \cup {k})
    <2>1. \A j \in 1 .. Len(mem) : /\ m[j].count = mem[j].count
                                   /\ m[j].count > 0 => m[j].live
                                   /\ m[j].count = 0 /\ m[j].live => j \in refused \cup {k}
      BY <1>26
    <2>2. m \in Seq(Packet) /\ Len(m) = Len(mem)
      BY <1>18, <1>25
    <2> QED
      BY <1>27, <2>1, <2>2, SoundLive
  <1>29. Fits(held', queue', memory', refused' \cup {event'})
    BY <1>4, <1>15, <1>23, <1>27, <1>28 DEF Fits
  <1>30. event' \in 1 .. Len(memory') /\ memory'[event'].live /\ memory'[event'].count = 0
    BY <1>4, <1>10, <1>22, <1>23, <1>25
  <1>31. TurnHolds'
    BY <1>4 DEF Idle, IInv, TurnHolds
  <1> QED
    BY <1>1, <1>4, <1>29, <1>30, <1>31 DEF IInv

LEMMA NewEventKeeps ==
  ASSUME IInv, NewEvent
  PROVE  IInv'
  <1>1. /\ Fits(held, queue, memory, refused \cup {event})
        /\ held \in Held /\ queue \in Queues /\ memory \in Seq(Packet)
        /\ Len(memory) \in Nat /\ DOMAIN memory = 1 .. Len(memory)
        /\ state \in [Peers -> {"connected", "later", "gone"}] /\ refused \subseteq Ids
    BY IdleFits
  <1>2. PICK k : k = event
    OBVIOUS
  <1>3. /\ k # 0 /\ event' = 0
        /\ memory' = [memory EXCEPT ![k].live = FALSE]
        /\ held' = held /\ state' = state /\ queue' = queue /\ turn' = turn /\ refused' = refused
    BY <1>2 DEF NewEvent
  <1>4. k \in 1 .. Len(memory) /\ memory[k].count = 0
    BY <1>2, <1>3 DEF IInv
  <1>5. memory[k] \in Packet
    BY <1>1, <1>4, ElementOfSeq
  <1>6. PICK x \in Packet : x = [live |-> FALSE, count |-> 0]
    BY DEF Packet
  <1>7. ~x.live /\ x.count = 0
    BY <1>6
  <1>8. PICK m : m = memory'
    OBVIOUS
  <1>9. m = [memory EXCEPT ![k] = x]
    <2>1. m = [memory EXCEPT ![k] = [memory[k] EXCEPT !.live = FALSE]]
      BY <1>1, <1>3, <1>4, <1>8
    <2>2. [memory[k] EXCEPT !.live = FALSE] = x
      <3>1. x.live = FALSE /\ x.count = memory[k].count
        BY <1>4, <1>6
      <3> QED
        BY <1>5, <3>1, PacketExcept
    <2> QED
      BY <2>1, <2>2
  <1>10. /\ m \in Seq(Packet) /\ Len(m) = Len(memory)
         /\ \A j \in 1 .. Len(memory) : m[j] = IF j = k THEN x ELSE memory[j]
    BY <1>1, <1>4, <1>9, ExceptSeq
  <1>11. Sound(Used(held, queue), Received(held), memory, refused \cup {event})
    BY <1>1 DEF Fits
  <1>12. ASSUME NEW j \in 1 .. Len(memory)
         PROVE  /\ m[j].count = memory[j].count
                /\ m[j].count > 0 => m[j].live
                /\ m[j].count = 0 /\ m[j].live => j \in refused \cup {0}
    <2>1. CASE j = k
      BY <1>4, <1>7, <1>10, <2>1
    <2>2. CASE j # k
      <3>1. m[j] = memory[j]
        BY <1>10, <2>2
      <3>2. /\ memory[j].count > 0 => memory[j].live
            /\ memory[j].count = 0 /\ memory[j].live => j \in refused \cup {event}
        BY <1>11 DEF Sound
      <3> QED
        BY <1>2, <2>2, <3>1, <3>2
    <2> QED
      BY <2>1, <2>2
  <1>13. Sound(Used(held, queue), Received(held), m, refused \cup {0})
    BY <1>10, <1>11, <1>12, SoundLive
  <1>14. Fits(held', queue', memory', refused' \cup {event'})
    BY <1>1, <1>3, <1>8, <1>13 DEF Fits
  <1>15. TurnHolds'
    BY <1>2, <1>3 DEF IInv, TurnHolds
  <1> QED
    BY <1>1, <1>3, <1>14, <1>15 DEF IInv

--------------------------------------------------------------------------------
(* The inductive invariant, and what it implies. *)

LEMMA InitKeeps == Init => IInv
  <1> SUFFICES ASSUME Init PROVE IInv
    OBVIOUS
  <1>1. None \in Counts /\ \A k \in Ids : None[k] = 0
    BY DEF None, Counts
  <1>2. held \in Held /\ \A p \in Peers, l \in Lists, k \in Ids : held[p][l][k] = 0
    BY <1>1 DEF Init, Held
  <1>3. queue \in Queues /\ \A p \in Peers : queue[p] = <<>>
    BY RefersEmpty DEF Init, Queues
  <1>4. {"unsent", "resend", "sent", "datagram", "incoming"} = Lists
    BY DEF Lists
  <1>5. \A p \in Peers, k \in Ids : Uses(held, queue, p)[k] = 0 /\ held[p]["incoming"][k] = 0
    <2> TAKE p \in Peers, k \in Ids
    <2>1. Uses(held, queue, p)[k] = ((held[p]["unsent"][k] + held[p]["resend"][k])
                                      + (held[p]["sent"][k] + held[p]["datagram"][k]))
                                      + (held[p]["incoming"][k] + Refers(queue[p])[k])
      BY <1>2, <1>3, UsesAt
    <2>2. Refers(queue[p])[k] = 0
      BY <1>1, <1>3, RefersEmpty
    <2>3. /\ held[p]["unsent"][k] = 0 /\ held[p]["resend"][k] = 0 /\ held[p]["sent"][k] = 0
          /\ held[p]["datagram"][k] = 0 /\ held[p]["incoming"][k] = 0
      BY <1>2, <1>4
    <2> QED
      BY <2>1, <2>2, <2>3
  <1>6. memory = <<>> /\ memory \in Seq(Packet) /\ Len(memory) = 0
    BY EmptySeq DEF Init
  <1>7. Sound(Used(held, queue), Received(held), memory, refused \cup {event})
    <2>1. PICK A \in [Peers -> Counts], I \in [Peers -> Counts] :
               /\ A = Used(held, queue) /\ I = Received(held)
               /\ \A p \in Peers : A[p] = Uses(held, queue, p) /\ I[p] = held[p]["incoming"]
      BY <1>2, <1>3, UsedAt
    <2>2. \A p \in Peers, k \in Ids : A[p][k] = 0 /\ I[p][k] = 0
      BY <1>5, <2>1
    <2>3. 0 <= Max(Sizes) /\ 0 <= MaxPackets
      BY MaxSize, IdsNat
    <2>4. Sound(A, I, memory, refused \cup {event})
      BY <1>6, <2>2, <2>3 DEF Sound
    <2> QED
      BY <2>1, <2>4
  <1>8. state \in [Peers -> {"connected", "later", "gone"}] /\ refused = {} /\ event = 0
    BY DEF Init
  <1>9. TurnHolds
    BY DEF Init, NoTurn, TurnHolds
  <1> QED
    BY <1>2, <1>3, <1>7, <1>8, <1>9 DEF IInv, Fits

LEMMA StutterKeeps == IInv /\ UNCHANGED vars => IInv'
  <1> SUFFICES ASSUME IInv, UNCHANGED vars PROVE IInv'
    OBVIOUS
  <1>1. /\ state' = state /\ held' = held /\ queue' = queue /\ memory' = memory
        /\ turn' = turn /\ event' = event /\ refused' = refused
    BY DEF vars
  <1>2. TurnHolds'
    BY <1>1 DEF IInv, TurnHolds
  <1> QED
    BY <1>1, <1>2 DEF IInv

LEMMA NextKeeps == IInv /\ [Next]_vars => IInv'
  <1> SUFFICES ASSUME IInv, [Next]_vars PROVE IInv'
    OBVIOUS
  <1>1. ASSUME NEW c \in Channels, NEW kind \in Kinds, NEW size \in Sizes, NEW ok \in BOOLEAN,
               Broadcast(c, kind, size, ok)
        PROVE  IInv'
    BY <1>1, BroadcastKeeps
  <1>2. ASSUME NEW c \in Channels, NEW kind \in Kinds, NEW size \in Sizes, NEW ok \in BOOLEAN,
               NEW p \in Peers, SendToPeer(p, c, kind, size, ok)
        PROVE  IInv'
    BY <1>2, SendToPeerKeeps
  <1>3. ASSUME NEW p \in Peers, Connect(p) \/ Disconnect(p) \/ DisconnectLater(p)
        PROVE  IInv'
    BY <1>3, ConnectionKeeps
  <1>4. ASSUME NEW p \in Peers,
               NEW late \in Parts(held[p]["sent"]), NEW first \in Parts(held[p]["unsent"]),
               NEW again \in Parts(Plus(held[p]["resend"], late)),
               SendReliable(p, late, again, first)
        PROVE  IInv'
    BY <1>4, SendReliableKeeps
  <1>5. ASSUME NEW p \in Peers, NEW l \in {"sent", "resend"}, NEW k \in Ids, Acknowledge(p, l, k)
        PROVE  IInv'
    BY <1>5, AcknowledgeKeeps
  <1>6. ASSUME NEW p \in Peers, NEW old \in [Ids -> 0 .. 1], Arrive(p, old)
        PROVE  IInv'
    BY <1>6, ArriveKeeps
  <1>7. ASSUME NEW p \in Peers, NEW k \in Ids, Receive(p, k)
        PROVE  IInv'
    BY <1>7, ReceiveKeeps
  <1>8. CASE PutUnreliable
    BY <1>8, PutUnreliableKeeps
  <1>9. CASE Throttle
    BY <1>9, ThrottleKeeps
  <1>10. CASE EndUnreliable
    BY <1>10, EndUnreliableKeeps
  <1>11. CASE SocketSend
    BY <1>11, SocketSendKeeps
  <1>12. CASE NewEvent
    BY <1>12, NewEventKeeps
  <1>13. CASE UNCHANGED vars
    BY <1>13, StutterKeeps
  <1> QED
    BY <1>1, <1>2, <1>3, <1>4, <1>5, <1>6, <1>7, <1>8, <1>9, <1>10, <1>11, <1>12, <1>13 DEF Next

LEMMA Inductive == Spec => []IInv
  BY InitKeeps, NextKeeps, PTL DEF Spec

LEMMA CountsImplied == IInv => CountsReferences
  <1> SUFFICES ASSUME IInv PROVE CountsReferences
    OBVIOUS
  <1>1. /\ held \in Held /\ queue \in Queues /\ DOMAIN memory = 1 .. Len(memory)
    BY IdleFits
  <1>2. Sound(Used(held, queue), Received(held), memory, refused \cup {event})
    BY DEF IInv, Fits
  <1>3. \A p \in Peers : Used(held, queue)[p] = AllOf(held, p)
    BY <1>1, UsedAt, AllOfIsUses
  <1>4. ASSUME NEW k
        PROVE  Refs(Used(held, queue), k) = ReferencesTo(k)
    BY <1>3 DEF Refs, ReferencesTo
  <1> QED
    BY <1>1, <1>2, <1>4 DEF Sound, CountsReferences

LEMMA TypeImplied == IInv => TypeOK
  <1> SUFFICES ASSUME IInv PROVE TypeOK
    OBVIOUS
  <1>1. /\ held \in Held /\ queue \in Queues /\ memory \in Seq(Packet)
        /\ Len(memory) \in Nat /\ DOMAIN memory = 1 .. Len(memory)
        /\ state \in [Peers -> {"connected", "later", "gone"}] /\ refused \subseteq Ids
    BY IdleFits
  <1>2. Sound(Used(held, queue), Received(held), memory, refused \cup {event})
    BY DEF IInv, Fits
  <1>3. ASSUME NEW p \in Peers, NEW l \in Lists, NEW k \in Ids
        PROVE  held[p][l][k] \in 0 .. Max(Sizes)
    <2>1. Uses(held, queue, p)[k] <= Max(Sizes)
      <3>1. Used(held, queue)[p][k] <= Max(Sizes)
        BY <1>2 DEF Sound
      <3> QED
        BY <1>1, <3>1, UsedAt
    <2>2. {"unsent", "resend", "sent", "datagram", "incoming"} = Lists
      BY DEF Lists
    <2>3. PICK a \in Nat, b \in Nat, c \in Nat, d \in Nat, e \in Nat, f \in Nat :
            /\ a = held[p]["unsent"][k] /\ b = held[p]["resend"][k] /\ c = held[p]["sent"][k]
            /\ d = held[p]["datagram"][k] /\ e = held[p]["incoming"][k] /\ f = Refers(queue[p])[k]
      BY <1>1, <2>2, UsesAt
    <2>4. Uses(held, queue, p)[k] = ((a + b) + (c + d)) + (e + f)
      BY <1>1, <2>3, UsesAt
    <2>5. Max(Sizes) \in Nat
      BY MaxSize
    <2>6. \A x \in {a, b, c, d, e} : x \in 0 .. Max(Sizes)
      BY <2>1, <2>3, <2>5, <2>4
    <2>7. held[p][l][k] \in {a, b, c, d, e}
      BY <2>2, <2>3
    <2> QED
      BY <2>6, <2>7
  <1>4. held \in [Peers -> [Lists -> [Ids -> 0 .. Max(Sizes)]]]
    <2>1. ASSUME NEW p \in Peers, NEW l \in Lists
          PROVE  held[p][l] \in [Ids -> 0 .. Max(Sizes)]
      <3>1. held[p][l] \in [Ids -> Nat]
        BY <1>1 DEF Held, Counts
      <3> QED
        BY <1>3, <3>1
    <2> QED
      BY <1>1, <2>1 DEF Held
  <1>5. ASSUME NEW p \in Peers, NEW i \in DOMAIN queue[p]
        PROVE  queue[p][i] \in [pkt : Ids, ch : Channels, num : Ids \cup {0}, first : BOOLEAN]
    <2>1. queue[p] \in Seq(Command)
      BY <1>1 DEF Queues
    <2>2. DOMAIN queue[p] = 1 .. Len(queue[p])
      BY <2>1, LenProperties
    <2> QED
      BY <2>1, <2>2, ElementOfSeq DEF Command
  <1>6. ASSUME NEW k \in DOMAIN memory
        PROVE  memory[k] \in [live : BOOLEAN, count : Nat]
    BY <1>1, ElementOfSeq DEF Packet
  <1>7. turn.at \in {"none", "unreliable", "ready"} /\ turn.buffers \subseteq Ids
    BY DEF IInv, TurnHolds
  <1>8. event \in 0 .. Len(memory)
    BY <1>1 DEF IInv
  <1> QED
    BY <1>1, <1>4, <1>5, <1>6, <1>7, <1>8 DEF TypeOK

LEMMA DanglesImplied == IInv => NothingDangles
  <1> SUFFICES ASSUME IInv PROVE NothingDangles
    OBVIOUS
  <1>1. /\ held \in Held /\ queue \in Queues /\ DOMAIN memory = 1 .. Len(memory)
    BY IdleFits
  <1>2. Sound(Used(held, queue), Received(held), memory, refused \cup {event})
    BY DEF IInv, Fits
  <1>3. \A k \in DOMAIN memory : ReferencesTo(k) > 0 => memory[k].live
    BY <1>1, <1>2, CountsImplied DEF CountsReferences, Sound
  <1>4. event # 0 => memory[event].live
    BY DEF IInv
  <1>5. ASSUME turn.at # "none", state[turn.peer] # "gone", NEW k \in turn.buffers
        PROVE  memory[k].live
    <2>1. /\ turn.peer \in Peers /\ k \in Ids
          /\ held[turn.peer]["sent"][k] > 0 \/ held[turn.peer]["datagram"][k] > 0
      BY <1>5, InTurn
    <2>2. {"unsent", "resend", "sent", "datagram", "incoming"} = Lists
      BY DEF Lists
    <2>3. PICK p \in Peers : p = turn.peer
      BY <2>1
    <2>4. PICK a \in Nat, b \in Nat, c \in Nat, d \in Nat, e \in Nat, f \in Nat :
            /\ a = held[p]["unsent"][k] /\ b = held[p]["resend"][k] /\ c = held[p]["sent"][k]
            /\ d = held[p]["datagram"][k] /\ e = held[p]["incoming"][k] /\ f = Refers(queue[p])[k]
      BY <1>1, <2>1, <2>2, UsesAt
    <2>5. Uses(held, queue, p)[k] = ((a + b) + (c + d)) + (e + f)
      BY <1>1, <2>1, <2>4, UsesAt
    <2>6. c > 0 \/ d > 0
      BY <2>1, <2>3, <2>4
    <2>7. Uses(held, queue, p)[k] > 0
      BY <2>5, <2>6
    <2>8. Used(held, queue)[p][k] > 0
      BY <1>1, <2>7, UsedAt
    <2> QED
      BY <1>2, <2>1, <2>8, SoundUse
  <1>6. BuffersLive
    BY <1>5 DEF BuffersLive
  <1> QED
    BY <1>3, <1>4, <1>6 DEF NothingDangles

LEMMA LeakImplied == IInv => OnlyRefusedLeak
  <1> SUFFICES ASSUME IInv, NEW k \in DOMAIN memory, memory[k].live
               PROVE  k \in refused \/ k = event \/ ReferencesTo(k) > 0
    BY DEF OnlyRefusedLeak
  <1>1. k \in 1 .. Len(memory) /\ memory[k] \in Packet
    BY IdleFits, ElementOfSeq
  <1>2. Sound(Used(held, queue), Received(held), memory, refused \cup {event})
    BY DEF IInv, Fits
  <1>3. memory[k].count = ReferencesTo(k) /\ memory[k].count \in Nat
    BY <1>1, CountsImplied DEF CountsReferences, Packet
  <1>4. memory[k].count = 0 => k \in refused \cup {event}
    BY <1>1, <1>2 DEF Sound
  <1> QED
    BY <1>3, <1>4

(***************************************************************************)
(* Types, and every packet's referenceCount is the number of the commands, *)
(* in all the queues of all peers, that refer to it (enet/peer.cpp:179,    *)
(* :260, :694, enet/protocol.cpp:174, :252, :1353).                        *)
(***************************************************************************)
THEOREM PacketCounts == Spec => []PacketInv
  <1>1. IInv => PacketInv
    BY CountsImplied, TypeImplied DEF PacketInv
  <1> QED
    BY <1>1, Inductive, PTL

(***************************************************************************)
(* No queue, no event and no datagram that is being assembled refers to a  *)
(* packet that was destroyed, but for a datagram in whose turn the peer's  *)
(* queues are reset (enet/protocol.cpp:1410).                              *)
(***************************************************************************)
THEOREM NoDanglingPacket == Spec => []NothingDangles
  BY DanglesImplied, Inductive, PTL

(***************************************************************************)
(* A packet that nobody refers to has been destroyed, unless               *)
(* enet_peer_send() refused it (gdnet_host.cpp:82).                        *)
(***************************************************************************)
THEOREM OnlyRefusedLeaks == Spec => []OnlyRefusedLeak
  BY LeakImplied, Inductive, PTL

================================================================================
