-------------------------- MODULE ENetConnectionProofs --------------------------
(***************************************************************************)
(* Proofs about ENetConnection, for any hosts, any number of peers, any    *)
(* bounds and whatever the network does with the datagrams.                *)
(*                                                                         *)
(* The inductive invariant says of each peer what its state implies for    *)
(* its fields and its queues (GoodPeer, Settled), of each command and      *)
(* datagram what it reveals of its sender (GoodCommand), and of each host  *)
(* that its counter and its dispatch queue agree with its peers (Shape)    *)
(* and that no two peers are of one connection (Distinct).  A function of  *)
(* ENet is an operator from a host to a host, so it has a lemma that says  *)
(* which peer it changes, and into what (Becomes), and one that says that  *)
(* the host it leaves is good (GoodHost).                                  *)
(***************************************************************************)
EXTENDS ENetConnection, SequenceTheorems, FiniteSetTheorems, WellFoundedInduction, TLAPS

Sessions == 0 .. 3
AckRecord == [type : {"VERIFY", "PING", "DISCONNECT"}, seq : Nat]

PeerRecord ==
    [state : States, addr : Hosts \cup {NoHost}, cid : Nat, outID : Nat,
     inS : Sessions \cup {NoSession}, outS : Sessions \cup {NoSession}, seq : Nat,
     outR : SUBSET Commands, outU : SUBSET Commands, sent : SUBSET Commands,
     acks : SUBSET AckRecord, inq : Nat,
     needs : BOOLEAN, tries : Nat, view : {"down", "trying", "up"}]

DatagramRecord == [src : Hosts, dst : Hosts, peerID : Nat, session : Sessions, cmd : Commands]

HostRecord(h) == [addr : {h}, peers : [Slots(h) -> PeerRecord], dispatch : Seq(Slots(h)),
                  connected : Nat, out : SUBSET DatagramRecord]

\* What the steps of one connection leave alone: who calls, the latest connectID, and
\* which host each connectID is of.
World == [callers : SUBSET Hosts, last : Nat, own : [Nat -> Hosts \cup {NoHost}]]

\* A command that the host h holds for, or sends to, the host a.  The first command of
\* a connection is its CONNECT or its VERIFY_CONNECT, so only hosts that call are sent
\* a VERIFY_CONNECT, and only they acknowledge a command with the number 1.
GoodCommand(h, a, c, w) ==
    /\ c.type = "CONNECT" => /\ h \in w.callers /\ c.seq = 1
                             /\ c.cid <= w.last /\ w.own[c.cid] = h
                             /\ {c.inS, c.outS} \subseteq Sessions \cup {NoSession}
    /\ c.type = "VERIFY" => a \in w.callers /\ {c.inS, c.outS} \subseteq Sessions
    /\ c.type \in {"PING", "DISCONNECT"} => c.seq > 1
    /\ c.type = "ACK" /\ c.seq = 1 => h \in w.callers

GoodDatagram(d, w) == d.src # d.dst /\ GoodCommand(d.src, d.dst, d.cmd, w)

Queued(p) == p.outR \cup p.outU \cup p.sent

GoodPeer(h, p, w) ==
    /\ p \in PeerRecord
    /\ p.addr # h /\ p.cid <= w.last
    /\ \A c \in Queued(p) : GoodCommand(h, p.addr, c, w)
    /\ \A c \in p.acks : /\ c.seq = 1 => h \in w.callers
                         /\ c.type = "DISCONNECT" => p.state = "ACKNOWLEDGING_DISCONNECT"
    /\ p.state = "DISCONNECTED" => p.seq = 0 /\ Queued(p) = {} /\ p.acks = {}
    /\ p.state # "DISCONNECTED" => p.seq >= 1 /\ p.addr \in Hosts
    /\ p.outID # NoID => p.outS \in Sessions
    /\ p.state = "CONNECTING" => h \in w.callers /\ w.own[p.cid] = h

\* NoLimbo of one peer.
Waits(p, type) == \E c \in p.outR \cup p.sent : c.type = type

Moving(p, w) ==
    /\ p.state = "CONNECTING" => Waits(p, "CONNECT") \/ p.addr \in w.callers
    /\ p.state = "ACKNOWLEDGING_CONNECT" => Waits(p, "VERIFY")
    /\ p.state = "DISCONNECTING" => Waits(p, "DISCONNECT")
    /\ p.state = "DISCONNECT_LATER" => ~NothingQueued(p)
    /\ p.state = "ACKNOWLEDGING_DISCONNECT" => \E c \in p.acks : c.type = "DISCONNECT"
    /\ p.state = "ZOMBIE" => p.needs

\* What the application knows of a peer, by its state: ViewMatches.
GoodView(p) ==
    /\ p.state \in {"DISCONNECTED", "ACKNOWLEDGING_CONNECT"} => p.view = "down"
    /\ p.state = "CONNECTING" => p.view = "trying"
    /\ p.state = "ZOMBIE" => p.view \in {"up", "trying"}
    /\ p.state \in Up \cup {"DISCONNECTING", "ACKNOWLEDGING_DISCONNECT"} => p.view = "up"

Settled(p, w) == GoodView(p) /\ Moving(p, w)

UpSlots(h, H) == {i \in Slots(h) : H.peers[i].state \in Up}

Counted(h, H) == H.connected = Cardinality(UpSlots(h, H))

InDispatch(H, i) == \E k \in 1 .. Len(H.dispatch) : H.dispatch[k] = i

DispatchAgrees(h, H) ==
    /\ \A i \in Slots(h) : H.peers[i].needs <=> InDispatch(H, i)
    /\ \A j, k \in 1 .. Len(H.dispatch) : j # k => H.dispatch[j] # H.dispatch[k]

\* A host, as far as it concerns all of its peers.
Shape(h, H) == H \in HostRecord(h) /\ Counted(h, H) /\ DispatchAgrees(h, H)

\* AcceptedOnce of one host.
Distinct(h, H) ==
    \A i, j \in Slots(h) :
        /\ i # j /\ H.peers[i].state # "DISCONNECTED" /\ H.peers[j].state # "DISCONNECTED"
        => <<H.peers[i].addr, H.peers[i].cid>> # <<H.peers[j].addr, H.peers[j].cid>>

\* A host whose peers are settled, but for those in X.
GoodHost(h, H, w, X) ==
    /\ Shape(h, H) /\ Distinct(h, H)
    /\ \A i \in Slots(h) : GoodPeer(h, H.peers[i], w)
    /\ \A i \in Slots(h) \ X : Settled(H.peers[i], w)
    /\ \A d \in H.out : GoodDatagram(d, w)

\* The inductive invariant.
Good(w) ==
    /\ w.callers = scenario.callers /\ w.last = lastID
    /\ \A h \in Hosts : GoodHost(h, host[h], w, {}) /\ host[h].out = {}
    /\ net \subseteq DatagramRecord /\ \A d \in net : GoodDatagram(d, w)

IInv ==
    /\ host = [h \in Hosts |-> host[h]]
    /\ scenario \in Scenarios /\ {lastID, accepts, restarts} \subseteq Nat
    /\ \E w \in World : Good(w)

--------------------------------------------------------------------------------
(* Hosts whose peers agree with the counter and the dispatch queue. *)

LEMMA SlotsFinite ==
  ASSUME NEW h \in Hosts
  PROVE  /\ PeerCount[h] \in Nat \ {0} /\ Slots(h) \subseteq Nat
         /\ IsFiniteSet(Slots(h)) /\ Cardinality(Slots(h)) = PeerCount[h]
  <1>1. PeerCount[h] \in Nat \ {0}
    BY ConnectionAssumption
  <1>2. ASSUME NEW b \in Int, b >= 0
        PROVE  IsFiniteSet(0 .. b) /\ Cardinality(0 .. b) = b + 1
    <2>1. 0 \in Int /\ ~(0 > b)
      BY <1>2
    <2>2. /\ IsFiniteSet(0 .. b)
          /\ Cardinality(0 .. b) = IF 0 > b THEN 0 ELSE b - 0 + 1
      BY <2>1, FS_Interval
    <2> QED
      BY <2>1, <2>2
  <1>3. /\ IsFiniteSet(0 .. PeerCount[h] - 1)
        /\ Cardinality(0 .. PeerCount[h] - 1) = PeerCount[h]
    BY <1>1, <1>2
  <1> QED
    BY <1>1, <1>3 DEF Slots

LEMMA UpFinite ==
  ASSUME NEW h \in Hosts, NEW H
  PROVE  /\ IsFiniteSet(UpSlots(h, H))
         /\ Cardinality(UpSlots(h, H)) \in 0 .. PeerCount[h]
  <1>1. UpSlots(h, H) \subseteq Slots(h)
    BY DEF UpSlots
  <1>2. IsFiniteSet(UpSlots(h, H)) /\ Cardinality(UpSlots(h, H)) <= PeerCount[h]
    BY <1>1, SlotsFinite, FS_Subset
  <1> QED
    BY <1>2, SlotsFinite, FS_CardinalityType

\* connectedPeers is counted up and down as a peer enters and leaves the states.
LEMMA CountStep ==
  ASSUME NEW h \in Hosts, NEW H, NEW G, Counted(h, H), NEW i \in Slots(h), NEW q \in PeerRecord,
         H \in HostRecord(h), G.peers = [H.peers EXCEPT ![i] = q],
         G.connected = H.connected + Connections(H.peers[i].state, q.state)
  PROVE  Counted(h, G) /\ G.connected \in 0 .. PeerCount[h]
  <1> DEFINE U == UpSlots(h, H)
  <1>1. /\ G.peers[i] = q /\ \A j \in Slots(h) : j # i => G.peers[j] = H.peers[j]
        /\ i \in Slots(h)
    BY DEF HostRecord
  <1>2. IsFiniteSet(U) /\ Cardinality(U) \in Nat /\ H.connected = Cardinality(U)
    BY UpFinite, FS_CardinalityType DEF Counted
  <1>3. CASE i \notin U /\ q.state \in Up
    <2>1. UpSlots(h, G) = U \cup {i}
      BY <1>1, <1>3 DEF UpSlots
    <2>2. Cardinality(UpSlots(h, G)) = Cardinality(U) + 1
      BY <1>2, <1>3, <2>1, FS_AddElement
    <2>3. G.connected = H.connected + 1
      BY <1>3 DEF Connections, UpSlots
    <2> QED
      BY <1>2, <2>2, <2>3, UpFinite DEF Counted
  <1>4. CASE i \in U /\ q.state \notin Up
    <2>1. UpSlots(h, G) = U \ {i}
      BY <1>1, <1>4 DEF UpSlots
    <2>2. Cardinality(UpSlots(h, G)) = Cardinality(U) - 1
      BY <1>2, <1>4, <2>1, FS_RemoveElement
    <2>3. G.connected = H.connected - 1
      BY <1>4 DEF Connections, UpSlots
    <2> QED
      BY <1>2, <2>2, <2>3, UpFinite DEF Counted
  <1>5. CASE i \in U <=> q.state \in Up
    <2>1. UpSlots(h, G) = U
      BY <1>1, <1>5 DEF UpSlots
    <2>2. G.connected = H.connected
      BY <1>2, <1>5 DEF Connections, UpSlots
    <2> QED
      BY <1>2, <2>1, <2>2, UpFinite DEF Counted
  <1> QED
    BY <1>3, <1>4, <1>5

\* The dispatch queue stays, grows by a peer that was not in it, or shrinks by one.
LEMMA DispatchKeep ==
  ASSUME NEW h \in Hosts, NEW H, NEW G, DispatchAgrees(h, H), NEW i \in Slots(h), NEW q,
         H \in HostRecord(h), G.peers = [H.peers EXCEPT ![i] = q],
         G.dispatch = H.dispatch, q.needs = H.peers[i].needs
  PROVE  DispatchAgrees(h, G)
  <1>1. /\ G.peers[i] = q /\ \A j \in Slots(h) : j # i => G.peers[j] = H.peers[j]
    BY DEF HostRecord
  <1> QED
    BY <1>1 DEF DispatchAgrees, InDispatch

LEMMA DispatchAppend ==
  ASSUME NEW h \in Hosts, NEW H, NEW G, DispatchAgrees(h, H), NEW i \in Slots(h), NEW q,
         H \in HostRecord(h), G.peers = [H.peers EXCEPT ![i] = q],
         G.dispatch = Append(H.dispatch, i), ~H.peers[i].needs, q.needs
  PROVE  DispatchAgrees(h, G) /\ G.dispatch \in Seq(Slots(h))
  <1>1. G.peers[i] = q /\ \A j \in Slots(h) : j # i => G.peers[j] = H.peers[j]
    BY DEF HostRecord
  <1> DEFINE d == H.dispatch
  <1>2. d \in Seq(Slots(h)) /\ Len(d) \in Nat
    BY LenProperties DEF HostRecord
  <1>3. /\ G.dispatch \in Seq(Slots(h)) /\ Len(G.dispatch) = Len(d) + 1
        /\ \A k \in 1 .. Len(d) : G.dispatch[k] = d[k]
        /\ G.dispatch[Len(d) + 1] = i
    BY <1>2, AppendProperties
  <1>4. \A k \in 1 .. Len(G.dispatch) : k \in 1 .. Len(d) \/ k = Len(d) + 1
    BY <1>2, <1>3
  <1>5. \A k \in 1 .. Len(d) : k \in 1 .. Len(G.dispatch) /\ d[k] # i
    BY <1>2, <1>3 DEF DispatchAgrees, InDispatch
  <1>6. Len(d) + 1 \in 1 .. Len(G.dispatch)
    BY <1>2, <1>3
  <1>7. \A j \in Slots(h) : j # i => (InDispatch(G, j) <=> InDispatch(H, j))
    BY <1>3, <1>4, <1>5 DEF InDispatch
  <1>8. InDispatch(G, i)
    BY <1>3, <1>6 DEF InDispatch
  <1>9. \A j, k \in 1 .. Len(G.dispatch) : j # k => G.dispatch[j] # G.dispatch[k]
    BY <1>3, <1>4, <1>5 DEF DispatchAgrees
  <1> QED
    BY <1>1, <1>3, <1>7, <1>8, <1>9 DEF DispatchAgrees

LEMMA DispatchRemove ==
  ASSUME NEW h \in Hosts, NEW H, NEW G, DispatchAgrees(h, H), NEW i \in Slots(h), NEW q,
         H \in HostRecord(h), G.peers = [H.peers EXCEPT ![i] = q],
         G.dispatch = DispatchWithout(H, i), ~q.needs
  PROVE  DispatchAgrees(h, G) /\ G.dispatch \in Seq(Slots(h))
  <1>1. G.peers[i] = q /\ \A j \in Slots(h) : j # i => G.peers[j] = H.peers[j]
    BY DEF HostRecord
  <1> DEFINE d == H.dispatch
  <1>2. d \in Seq(Slots(h)) /\ Len(d) \in Nat /\ \A k \in 1 .. Len(d) : d[k] \in Slots(h)
    BY LenProperties, ElementOfSeq DEF HostRecord
  <1>3. CASE ~H.peers[i].needs
    <2>1. G.dispatch = d
      BY <1>3 DEF DispatchWithout
    <2> QED
      BY <1>1, <1>2, <1>3, <2>1 DEF DispatchAgrees, InDispatch
  <1>4. CASE H.peers[i].needs
    <2> DEFINE n == CHOOSE m \in 1 .. Len(d) : d[m] = i
    <2>1. n \in 1 .. Len(d) /\ d[n] = i
      BY <1>4 DEF DispatchAgrees, InDispatch
    <2>2. G.dispatch = Unlinked(d, n)
      BY <1>4 DEF DispatchWithout
    <2> HIDE DEF n
    <2>3. /\ G.dispatch \in Seq(Slots(h)) /\ Len(G.dispatch) = Len(d) - 1
          /\ \A k \in 1 .. Len(d) - 1 : G.dispatch[k] = d[IF k < n THEN k ELSE k + 1]
      <3>1. \A k \in 1 .. Len(d) - 1 : (IF k < n THEN k ELSE k + 1) \in 1 .. Len(d)
        BY <1>2, <2>1
      <3>2. \A k \in 1 .. Len(d) - 1 : d[IF k < n THEN k ELSE k + 1] \in Slots(h)
        BY <1>2, <3>1
      <3>3. Len(d) - 1 \in Nat
        BY <1>2, <2>1
      <3> QED
        BY <2>2, <3>2, <3>3 DEF Unlinked
    <2>4. /\ \A k \in 1 .. Len(G.dispatch) :
               \E m \in 1 .. Len(d) : m # n /\ G.dispatch[k] = d[m] /\ (k < n => m = k)
                                      /\ (~(k < n) => m = k + 1)
          /\ \A m \in 1 .. Len(d) : m # n => \E k \in 1 .. Len(G.dispatch) : G.dispatch[k] = d[m]
      <3>1. \A k \in 1 .. Len(d) - 1 : k < n => k \in 1 .. Len(d) /\ k # n /\ G.dispatch[k] = d[k]
        BY <1>2, <2>1, <2>3
      <3>2. \A k \in 1 .. Len(d) - 1 : ~(k < n) =>
              k + 1 \in 1 .. Len(d) /\ k + 1 # n /\ G.dispatch[k] = d[k + 1]
        BY <1>2, <2>1, <2>3
      <3>3. \A m \in 1 .. Len(d) : m < n => m \in 1 .. Len(d) - 1
        BY <1>2, <2>1
      <3>4. \A m \in 1 .. Len(d) : m > n => m - 1 \in 1 .. Len(d) - 1 /\ ~(m - 1 < n) /\ m - 1 + 1 = m
        BY <1>2, <2>1
      <3>5. \A m \in 1 .. Len(d) : m = n \/ m < n \/ m > n
        BY <1>2, <2>1
      <3>6. \A m \in 1 .. Len(d) : m # n => \E k \in 1 .. Len(d) - 1 : G.dispatch[k] = d[m]
        BY <3>1, <3>2, <3>3, <3>4, <3>5
      <3> QED
        BY <2>3, <3>1, <3>2, <3>6
    <2>5. ~InDispatch(G, i)
      BY <2>1, <2>4 DEF InDispatch, DispatchAgrees
    <2>6. \A j \in Slots(h) : j # i => (InDispatch(G, j) <=> InDispatch(H, j))
      BY <2>1, <2>4 DEF InDispatch
    <2>7. \A j, k \in 1 .. Len(G.dispatch) : j # k => G.dispatch[j] # G.dispatch[k]
      <3> SUFFICES ASSUME NEW j \in 1 .. Len(G.dispatch), NEW k \in 1 .. Len(G.dispatch), j # k
                   PROVE  G.dispatch[j] # G.dispatch[k]
        OBVIOUS
      <3>1. PICK a \in 1 .. Len(d) : G.dispatch[j] = d[a] /\ (j < n => a = j) /\ (~(j < n) => a = j + 1)
        BY <2>4
      <3>2. PICK b \in 1 .. Len(d) : G.dispatch[k] = d[b] /\ (k < n => b = k) /\ (~(k < n) => b = k + 1)
        BY <2>4
      <3>3. a # b
        BY <1>2, <2>1, <2>3, <3>1, <3>2
      <3> QED
        BY <3>1, <3>2, <3>3 DEF DispatchAgrees
    <2> QED
      BY <1>1, <2>3, <2>5, <2>6, <2>7 DEF DispatchAgrees
  <1> QED
    BY <1>3, <1>4

\* The host H becomes G, which differs in the peer i: it is q now.
Becomes(h, H, G, i, q) ==
    /\ Shape(h, G) /\ q \in PeerRecord
    /\ G.peers = [H.peers EXCEPT ![i] = q]

LEMMA BecomesTransitive ==
  ASSUME NEW h, NEW H, NEW G, NEW F, NEW i, NEW q, NEW r,
         Becomes(h, H, G, i, q), Becomes(h, G, F, i, r)
  PROVE  Becomes(h, H, F, i, r)
  BY DEF Becomes

LEMMA BecomesPeer ==
  ASSUME NEW h, NEW H \in HostRecord(h), NEW G, NEW i \in Slots(h), NEW q, Becomes(h, H, G, i, q)
  PROVE  /\ G.peers[i] = q /\ \A j \in Slots(h) : j # i => G.peers[j] = H.peers[j]
         /\ H.peers[i] \in PeerRecord
  BY DEF Becomes, HostRecord

\* How the dispatch queue follows the peer i that becomes q.
Relinked(H, i, q, D) ==
    \/ D = H.dispatch /\ q.needs = H.peers[i].needs
    \/ D = Append(H.dispatch, i) /\ ~H.peers[i].needs /\ q.needs
    \/ D = DispatchWithout(H, i) /\ ~q.needs

\* Every function on a peer of a host is of this form.
LEMMA Step ==
  ASSUME NEW h \in Hosts, NEW H, Shape(h, H), NEW i \in Slots(h), NEW q \in PeerRecord, NEW D,
         NEW G \in [addr : {h}, peers : [Slots(h) -> PeerRecord], dispatch : {D},
                    connected : Int, out : SUBSET DatagramRecord],
         G.peers = [H.peers EXCEPT ![i] = q],
         G.connected = H.connected + Connections(H.peers[i].state, q.state),
         Relinked(H, i, q, D)
  PROVE  Becomes(h, H, G, i, q)
  <1>1. H \in HostRecord(h) /\ Counted(h, H) /\ DispatchAgrees(h, H)
    BY DEF Shape
  <1>2. G.dispatch = D
    OBVIOUS
  <1>3. Counted(h, G) /\ G.connected \in Nat
    <2>1. Counted(h, G) /\ G.connected \in 0 .. PeerCount[h]
      BY <1>1, CountStep
    <2> QED
      BY <2>1, SlotsFinite
  <1>4. DispatchAgrees(h, G) /\ D \in Seq(Slots(h))
    <2>1. CASE D = H.dispatch /\ q.needs = H.peers[i].needs
      <3>1. G.dispatch = H.dispatch /\ D \in Seq(Slots(h))
        BY <1>1, <2>1 DEF HostRecord
      <3> QED
        BY <1>1, <2>1, <3>1, DispatchKeep
    <2>2. CASE D = Append(H.dispatch, i) /\ ~H.peers[i].needs /\ q.needs
      <3>1. G.dispatch = Append(H.dispatch, i)
        BY <1>2, <2>2
      <3>2. DispatchAgrees(h, G) /\ G.dispatch \in Seq(Slots(h))
        BY <1>1, <2>2, <3>1, DispatchAppend, Zenon
      <3> QED
        BY <1>2, <3>2
    <2>3. CASE D = DispatchWithout(H, i) /\ ~q.needs
      BY <1>1, <1>2, <2>3, DispatchRemove
    <2> QED
      BY <2>1, <2>2, <2>3 DEF Relinked
  <1>5. G \in HostRecord(h)
    BY <1>1, <1>2, <1>3, <1>4 DEF HostRecord
  <1> QED
    BY <1>2, <1>3, <1>4, <1>5 DEF Becomes, Shape

--------------------------------------------------------------------------------
(* The functions on a peer. *)

Fields == {"state", "addr", "cid", "outID", "inS", "outS", "seq", "outR", "outU", "sent",
           "acks", "inq", "needs", "tries", "view"}

\* Only the fields in F may change.
Keeps(p, q, F) == \A f \in Fields \ F : q[f] = p[f]

WithState(p, s) == [p EXCEPT !.state = s]
WithView(p, v) == [p EXCEPT !.view = v]
WithNeeds(p) == [p EXCEPT !.needs = TRUE]

LEMMA WithType ==
  ASSUME NEW p \in PeerRecord
  PROVE  /\ \A s \in States : /\ WithState(p, s) \in PeerRecord /\ WithState(p, s).state = s
                              /\ Keeps(p, WithState(p, s), {"state"})
         /\ \A v \in {"down", "trying", "up"} :
              /\ WithView(p, v) \in PeerRecord /\ WithView(p, v).view = v
              /\ Keeps(p, WithView(p, v), {"view"})
         /\ WithNeeds(p) \in PeerRecord /\ WithNeeds(p).needs /\ Keeps(p, WithNeeds(p), {"needs"})
  <1>1. \A s \in States : /\ WithState(p, s) \in PeerRecord /\ WithState(p, s).state = s
                          /\ Keeps(p, WithState(p, s), {"state"})
    BY DEF WithState, PeerRecord, Keeps, Fields
  <1>2. \A v \in {"down", "trying", "up"} :
              /\ WithView(p, v) \in PeerRecord /\ WithView(p, v).view = v
              /\ Keeps(p, WithView(p, v), {"view"})
    BY DEF WithView, PeerRecord, Keeps, Fields
  <1>3. WithNeeds(p) \in PeerRecord /\ WithNeeds(p).needs /\ Keeps(p, WithNeeds(p), {"needs"})
    BY DEF WithNeeds, PeerRecord, Keeps, Fields
  <1> QED
    BY <1>1, <1>2, <1>3

LEMMA EmptiedType ==
  ASSUME NEW p \in PeerRecord
  PROVE  /\ Emptied(p) \in PeerRecord /\ ~Emptied(p).needs /\ Emptied(p).inq = 0
         /\ Emptied(p).outR = {} /\ Emptied(p).outU = {} /\ Emptied(p).sent = {}
         /\ Emptied(p).acks = {}
         /\ Keeps(p, Emptied(p), {"outR", "outU", "sent", "acks", "inq", "needs"})
  BY DEF Emptied, PeerRecord, Keeps, Fields

\* What enet_peer_reset() makes of a peer.
ResetOf(p) == [Emptied(p) EXCEPT !.state = "DISCONNECTED", !.outID = NoID,
                                 !.cid = 0, !.seq = 0, !.tries = 0]

LEMMA ResetType ==
  ASSUME NEW p \in PeerRecord
  PROVE  LET q == ResetOf(p) IN
         /\ q \in PeerRecord /\ ~q.needs /\ q.inq = 0
         /\ q.outR = {} /\ q.outU = {} /\ q.sent = {} /\ q.acks = {}
         /\ q.state = "DISCONNECTED" /\ q.outID = NoID /\ q.cid = 0 /\ q.seq = 0
         /\ q.addr = p.addr /\ q.inS = p.inS /\ q.outS = p.outS /\ q.view = p.view
  <1>1. PICK e \in PeerRecord :
           /\ e = Emptied(p) /\ ~e.needs /\ e.inq = 0
           /\ e.outR = {} /\ e.outU = {} /\ e.sent = {} /\ e.acks = {}
           /\ e.addr = p.addr /\ e.inS = p.inS /\ e.outS = p.outS /\ e.view = p.view
    BY EmptiedType DEF Keeps, Fields
  <1>2. "DISCONNECTED" \in States /\ NoID \in Nat
    BY DEF States, NoID
  <1>3. PICK q : q = [e EXCEPT !.state = "DISCONNECTED", !.outID = NoID, !.cid = 0,
                               !.seq = 0, !.tries = 0]
    OBVIOUS
  <1>4. q \in PeerRecord
    BY <1>2, <1>3 DEF PeerRecord
  <1>5. /\ q.needs = e.needs /\ q.inq = e.inq
        /\ q.outR = e.outR /\ q.outU = e.outU /\ q.sent = e.sent /\ q.acks = e.acks
        /\ q.state = "DISCONNECTED" /\ q.outID = NoID /\ q.cid = 0 /\ q.seq = 0
        /\ q.addr = e.addr /\ q.inS = e.inS /\ q.outS = e.outS /\ q.view = e.view
    BY <1>3 DEF PeerRecord
  <1>6. q = ResetOf(p)
    BY <1>1, <1>3 DEF ResetOf
  <1> QED
    BY <1>1, <1>4, <1>5, <1>6, Zenon

\* A command gets its sequence number.
Numbered(c, n) == [c EXCEPT !.seq = n]

LEMMA NumberedType ==
  ASSUME NEW c \in Commands, NEW n \in Nat
  PROVE  LET d == Numbered(c, n) IN
         /\ d \in Commands /\ d.type = c.type /\ d.seq = n
         /\ c.type \in {"CONNECT", "VERIFY"} =>
              d.id = c.id /\ d.inS = c.inS /\ d.outS = c.outS /\ d.cid = c.cid
  <1>1. CASE c \in [type : {"CONNECT", "VERIFY"}, seq : Nat, id : Nat,
                    inS : 0 .. 255, outS : 0 .. 255, cid : Nat]
    BY <1>1 DEF Numbered, Commands
  <1>2. CASE c \in [type : {"DISCONNECT"}, seq : Nat, ack : BOOLEAN]
    BY <1>2 DEF Numbered, Commands
  <1>3. CASE c \in [type : {"PING", "DATA", "ACK"}, seq : Nat]
    BY <1>3 DEF Numbered, Commands
  <1> QED
    BY <1>1, <1>2, <1>3 DEF Commands

LEMMA SimpleCommands ==
  /\ PingCommand \in Commands /\ PingCommand.type = "PING"
  /\ \A flag \in BOOLEAN : /\ DisconnectCommand(flag) \in Commands
                           /\ DisconnectCommand(flag).type = "DISCONNECT"
  BY DEF PingCommand, DisconnectCommand, Commands

LEMMA NumberedSimple ==
  ASSUME NEW n \in Nat
  PROVE  /\ Numbered(PingCommand, n) \in Commands
         /\ Numbered(PingCommand, n).type = "PING" /\ Numbered(PingCommand, n).seq = n
         /\ \A flag \in BOOLEAN : LET c == Numbered(DisconnectCommand(flag), n) IN
                                  c \in Commands /\ c.type = "DISCONNECT" /\ c.seq = n
  <1>1. PICK c \in Commands : c = PingCommand /\ c.type = "PING"
    BY SimpleCommands
  <1>2. ASSUME NEW flag \in BOOLEAN
        PROVE  LET d == Numbered(DisconnectCommand(flag), n) IN
               d \in Commands /\ d.type = "DISCONNECT" /\ d.seq = n
    <2>1. PICK d \in Commands : d = DisconnectCommand(flag) /\ d.type = "DISCONNECT"
      BY SimpleCommands
    <2> QED
      BY <2>1, NumberedType
  <1>3. /\ Numbered(PingCommand, n) \in Commands
        /\ Numbered(PingCommand, n).type = "PING" /\ Numbered(PingCommand, n).seq = n
    BY <1>1, NumberedType
  <1> QED
    BY <1>2, <1>3

LEMMA QueueReliableType ==
  ASSUME NEW p \in PeerRecord, NEW c \in Commands
  PROVE  LET q == QueueReliable(p, c) IN
         /\ q \in PeerRecord /\ q.seq = p.seq + 1
         /\ q.outR = p.outR \cup {Numbered(c, p.seq + 1)}
         /\ Keeps(p, q, {"seq", "outR"})
  <1>1. PICK d \in Commands : d = Numbered(c, p.seq + 1)
    BY NumberedType DEF PeerRecord
  <1>2. PICK n \in Nat : n = p.seq + 1
    BY DEF PeerRecord
  <1>3. PICK s \in SUBSET Commands : s = p.outR \cup {d}
    BY DEF PeerRecord
  <1>4. QueueReliable(p, c) = [p EXCEPT !.seq = n, !.outR = s]
    BY <1>1, <1>2, <1>3 DEF QueueReliable, Numbered, PeerRecord
  <1> QED
    BY <1>1, <1>2, <1>3, <1>4 DEF PeerRecord, Keeps, Fields

LEMMA QueueUnreliableType ==
  ASSUME NEW p \in PeerRecord, NEW c \in Commands
  PROVE  LET q == QueueUnreliable(p, c) IN
         /\ q \in PeerRecord /\ q.seq = p.seq + 1
         /\ q.outU = p.outU \cup {Numbered(c, p.seq + 1)}
         /\ Keeps(p, q, {"seq", "outU"})
  <1>1. PICK d \in Commands : d = Numbered(c, p.seq + 1)
    BY NumberedType DEF PeerRecord
  <1>2. PICK n \in Nat : n = p.seq + 1
    BY DEF PeerRecord
  <1>3. PICK s \in SUBSET Commands : s = p.outU \cup {d}
    BY DEF PeerRecord
  <1>4. QueueUnreliable(p, c) = [p EXCEPT !.seq = n, !.outU = s]
    BY <1>1, <1>2, <1>3 DEF QueueUnreliable, Numbered, PeerRecord
  <1> QED
    BY <1>1, <1>2, <1>3, <1>4 DEF PeerRecord, Keeps, Fields

\* What enet_peer_disconnect() makes of a peer that is up, and of one that is not.
Disconnecting(p) == [QueueReliable(Emptied(p), DisconnectCommand(TRUE))
                         EXCEPT !.state = "DISCONNECTING"]
Parting(p) == QueueUnreliable(Emptied(p), DisconnectCommand(FALSE))

LEMMA DisconnectingType ==
  ASSUME NEW p \in PeerRecord
  PROVE  LET q == Disconnecting(p) IN
         /\ q \in PeerRecord /\ q.state = "DISCONNECTING" /\ ~q.needs /\ q.seq = p.seq + 1
         /\ q.outR = {Numbered(DisconnectCommand(TRUE), p.seq + 1)}
         /\ q.outU = {} /\ q.sent = {} /\ q.acks = {}
         /\ Keeps(p, q, {"state", "seq", "outR", "outU", "sent", "acks", "inq", "needs"})
  <1>1. PICK e \in PeerRecord :
           /\ e = Emptied(p) /\ ~e.needs /\ e.inq = 0
           /\ e.outR = {} /\ e.outU = {} /\ e.sent = {} /\ e.acks = {} /\ e.seq = p.seq
           /\ Keeps(p, e, {"outR", "outU", "sent", "acks", "inq", "needs"})
    BY EmptiedType DEF Keeps, Fields
  <1>2. PICK r \in PeerRecord :
           /\ r = QueueReliable(e, DisconnectCommand(TRUE)) /\ r.seq = e.seq + 1
           /\ r.outR = {Numbered(DisconnectCommand(TRUE), p.seq + 1)}
           /\ Keeps(e, r, {"seq", "outR"})
    BY <1>1, QueueReliableType, SimpleCommands
  <1>3. "DISCONNECTING" \in States
    BY DEF States
  <1>4. PICK q \in PeerRecord :
           /\ q = Disconnecting(p) /\ q.state = "DISCONNECTING" /\ Keeps(r, q, {"state"})
    BY <1>1, <1>2, <1>3, WithType DEF Disconnecting, WithState
  <1> QED
    BY <1>1, <1>2, <1>4, ZenonT(30) DEF Keeps, Fields

LEMMA PartingType ==
  ASSUME NEW p \in PeerRecord
  PROVE  LET q == Parting(p) IN
         /\ q \in PeerRecord /\ q.state = p.state /\ ~q.needs /\ q.seq = p.seq + 1
         /\ q.outU = {Numbered(DisconnectCommand(FALSE), p.seq + 1)}
         /\ q.outR = {} /\ q.sent = {} /\ q.acks = {}
         /\ Keeps(p, q, {"seq", "outR", "outU", "sent", "acks", "inq", "needs"})
  <1>1. PICK e \in PeerRecord :
           /\ e = Emptied(p) /\ ~e.needs /\ e.inq = 0
           /\ e.outR = {} /\ e.outU = {} /\ e.sent = {} /\ e.acks = {} /\ e.seq = p.seq
           /\ Keeps(p, e, {"outR", "outU", "sent", "acks", "inq", "needs"})
    BY EmptiedType DEF Keeps, Fields
  <1>2. PICK q \in PeerRecord :
           /\ q = QueueUnreliable(e, DisconnectCommand(FALSE)) /\ q.seq = e.seq + 1
           /\ q.outU = {Numbered(DisconnectCommand(FALSE), p.seq + 1)}
           /\ Keeps(e, q, {"seq", "outU"})
    BY <1>1, QueueUnreliableType, SimpleCommands
  <1>3. q = Parting(p)
    BY <1>1, <1>2 DEF Parting
  <1> QED
    BY <1>1, <1>2, <1>3 DEF Keeps, Fields

--------------------------------------------------------------------------------
(* The functions on a peer of a host. *)

\* The peer i of H is set to q, as a whole or field by field.
Put(H, i, q) == [H EXCEPT !.peers[i] = q]

\* No state is entered or left in which the peer counts as connected.
LEMMA PutBecomes ==
  ASSUME NEW h \in Hosts, NEW H \in HostRecord(h), Shape(h, H), NEW i \in Slots(h),
         NEW r \in PeerRecord, r.needs = H.peers[i].needs,
         r.state \in Up <=> H.peers[i].state \in Up
  PROVE  Becomes(h, H, Put(H, i, r), i, r) /\ Put(H, i, r).out = H.out
  <1>1. H.peers[i] \in PeerRecord
    BY DEF HostRecord
  <1>2. PICK q \in PeerRecord : /\ q = r
                               /\ Connections(H.peers[i].state, q.state) = 0 /\ q.needs = H.peers[i].needs
    BY <1>1, Zenon DEF Connections
  <1>3. PICK D : D = H.dispatch
    OBVIOUS
  <1>4. PICK n \in Int : /\ n = H.connected
                        /\ n = H.connected + Connections(H.peers[i].state, q.state)
    BY <1>2 DEF HostRecord, Connections
  <1>5. PICK G : G = Put(H, i, r)
    OBVIOUS
  <1>6. G = [H EXCEPT !.peers[i] = q, !.dispatch = D, !.connected = n]
    BY <1>1, <1>2, <1>3, <1>4, <1>5 DEF Put, HostRecord
  <1>7. /\ G \in [addr : {h}, peers : [Slots(h) -> PeerRecord], dispatch : {D},
                  connected : Int, out : SUBSET DatagramRecord]
        /\ G.peers = [H.peers EXCEPT ![i] = q] /\ G.connected = n /\ G.out = H.out
    BY <1>6 DEF HostRecord
  <1>8. Relinked(H, i, q, D)
    BY <1>2, <1>3 DEF Relinked
  <1> QED
    BY <1>2, <1>4, <1>5, <1>7, <1>8, Step

\* enet_peer_reset().
LEMMA ResetBecomes ==
  ASSUME NEW h \in Hosts, NEW H \in HostRecord(h), Shape(h, H), NEW i \in Slots(h)
  PROVE  Becomes(h, H, ResetPeer(H, i), i, ResetOf(H.peers[i])) /\ ResetPeer(H, i).out = H.out
  <1>1. H.peers[i] \in PeerRecord
    BY DEF HostRecord
  <1>2. PICK q \in PeerRecord : /\ q = ResetOf(H.peers[i])
                               /\ q.state = "DISCONNECTED" /\ ~q.needs
    BY <1>1, ResetType
  <1>3. PICK D : D = DispatchWithout(H, i)
    OBVIOUS
  <1>4. PICK n \in Int : /\ n = H.connected + Connections(H.peers[i].state, "DISCONNECTED")
                        /\ n = H.connected + Connections(H.peers[i].state, q.state)
    BY <1>2 DEF HostRecord, Connections
  <1>5. PICK G : G = ResetPeer(H, i)
    OBVIOUS
  <1>6. G = [H EXCEPT !.peers[i] = q, !.dispatch = D, !.connected = n]
    BY <1>1, <1>2, <1>3, <1>4, <1>5 DEF ResetPeer, ResetOf, HostRecord
  <1>7. /\ G \in [addr : {h}, peers : [Slots(h) -> PeerRecord], dispatch : {D},
                  connected : Int, out : SUBSET DatagramRecord]
        /\ G.peers = [H.peers EXCEPT ![i] = q] /\ G.connected = n /\ G.out = H.out
    BY <1>6 DEF HostRecord
  <1>8. Relinked(H, i, q, D)
    BY <1>2, <1>3 DEF Relinked
  <1> QED
    BY <1>2, <1>4, <1>5, <1>7, <1>8, Step

\* enet_peer_reset_queues().
LEMMA ResetQueuesBecomes ==
  ASSUME NEW h \in Hosts, NEW H \in HostRecord(h), Shape(h, H), NEW i \in Slots(h)
  PROVE  Becomes(h, H, ResetQueues(H, i), i, Emptied(H.peers[i])) /\ ResetQueues(H, i).out = H.out
  <1>1. H.peers[i] \in PeerRecord
    BY DEF HostRecord
  <1>2. PICK q \in PeerRecord : /\ q = Emptied(H.peers[i])
                               /\ q.state = H.peers[i].state /\ ~q.needs
    BY <1>1, EmptiedType DEF Keeps, Fields
  <1>3. PICK D : D = DispatchWithout(H, i)
    OBVIOUS
  <1>4. PICK n \in Int : /\ n = H.connected
                        /\ n = H.connected + Connections(H.peers[i].state, q.state)
    BY <1>2 DEF HostRecord, Connections
  <1>5. PICK G : G = ResetQueues(H, i)
    OBVIOUS
  <1>6. G = [H EXCEPT !.peers[i] = q, !.dispatch = D, !.connected = n]
    BY <1>1, <1>2, <1>3, <1>4, <1>5 DEF ResetQueues, HostRecord
  <1>7. /\ G \in [addr : {h}, peers : [Slots(h) -> PeerRecord], dispatch : {D},
                  connected : Int, out : SUBSET DatagramRecord]
        /\ G.peers = [H.peers EXCEPT ![i] = q] /\ G.connected = n /\ G.out = H.out
    BY <1>6 DEF HostRecord
  <1>8. Relinked(H, i, q, D)
    BY <1>2, <1>3 DEF Relinked
  <1> QED
    BY <1>2, <1>4, <1>5, <1>7, <1>8, Step

\* enet_protocol_change_state().
LEMMA ChangeStateBecomes ==
  ASSUME NEW h \in Hosts, NEW H \in HostRecord(h), Shape(h, H), NEW i \in Slots(h), NEW s \in States
  PROVE  Becomes(h, H, ChangeState(H, i, s), i, WithState(H.peers[i], s)) /\ ChangeState(H, i, s).out = H.out
  <1>1. H.peers[i] \in PeerRecord
    BY DEF HostRecord
  <1>2. PICK q \in PeerRecord : /\ q = WithState(H.peers[i], s)
                               /\ q.state = s /\ q.needs = H.peers[i].needs
    BY <1>1, WithType DEF Keeps, Fields
  <1>3. PICK D : D = H.dispatch
    OBVIOUS
  <1>4. PICK n \in Int : /\ n = H.connected + Connections(H.peers[i].state, s)
                        /\ n = H.connected + Connections(H.peers[i].state, q.state)
    BY <1>2 DEF HostRecord, Connections
  <1>5. PICK G : G = ChangeState(H, i, s)
    OBVIOUS
  <1>6. G = [H EXCEPT !.peers[i] = q, !.dispatch = D, !.connected = n]
    BY <1>1, <1>2, <1>3, <1>4, <1>5 DEF ChangeState, WithState, HostRecord
  <1>7. /\ G \in [addr : {h}, peers : [Slots(h) -> PeerRecord], dispatch : {D},
                  connected : Int, out : SUBSET DatagramRecord]
        /\ G.peers = [H.peers EXCEPT ![i] = q] /\ G.connected = n /\ G.out = H.out
    BY <1>6 DEF HostRecord
  <1>8. Relinked(H, i, q, D)
    BY <1>2, <1>3 DEF Relinked
  <1> QED
    BY <1>2, <1>4, <1>5, <1>7, <1>8, Step

\* The application learns of an event.
LEMMA ViewBecomes ==
  ASSUME NEW h \in Hosts, NEW H \in HostRecord(h), Shape(h, H), NEW i \in Slots(h),
         NEW v \in {"down", "trying", "up"}
  PROVE  Becomes(h, H, View(H, i, v), i, WithView(H.peers[i], v)) /\ View(H, i, v).out = H.out
  <1>1. H.peers[i] \in PeerRecord
    BY DEF HostRecord
  <1>2. PICK q \in PeerRecord : /\ q = WithView(H.peers[i], v)
                               /\ q.state = H.peers[i].state /\ q.needs = H.peers[i].needs
    BY <1>1, WithType DEF Keeps, Fields
  <1>3. PICK D : D = H.dispatch
    OBVIOUS
  <1>4. PICK n \in Int : /\ n = H.connected
                        /\ n = H.connected + Connections(H.peers[i].state, q.state)
    BY <1>2 DEF HostRecord, Connections
  <1>5. PICK G : G = View(H, i, v)
    OBVIOUS
  <1>6. G = [H EXCEPT !.peers[i] = q, !.dispatch = D, !.connected = n]
    BY <1>1, <1>2, <1>3, <1>4, <1>5 DEF View, WithView, HostRecord
  <1>7. /\ G \in [addr : {h}, peers : [Slots(h) -> PeerRecord], dispatch : {D},
                  connected : Int, out : SUBSET DatagramRecord]
        /\ G.peers = [H.peers EXCEPT ![i] = q] /\ G.connected = n /\ G.out = H.out
    BY <1>6 DEF HostRecord
  <1>8. Relinked(H, i, q, D)
    BY <1>2, <1>3 DEF Relinked
  <1> QED
    BY <1>2, <1>4, <1>5, <1>7, <1>8, Step

\* The peer is put into the dispatch queue.
LEMMA NeedsBecomes ==
  ASSUME NEW h \in Hosts, NEW H \in HostRecord(h), Shape(h, H), NEW i \in Slots(h)
  PROVE  Becomes(h, H, NeedsDispatch(H, i), i, WithNeeds(H.peers[i])) /\ NeedsDispatch(H, i).out = H.out
  <1>1. H.peers[i] \in PeerRecord
    BY DEF HostRecord
  <1>2. PICK q \in PeerRecord : /\ q = WithNeeds(H.peers[i])
                               /\ q.state = H.peers[i].state /\ q.needs
    BY <1>1, WithType DEF Keeps, Fields
  <1>3. PICK D : D = IF H.peers[i].needs THEN H.dispatch ELSE Append(H.dispatch, i)
    OBVIOUS
  <1>4. PICK n \in Int : /\ n = H.connected
                        /\ n = H.connected + Connections(H.peers[i].state, q.state)
    BY <1>2 DEF HostRecord, Connections
  <1>5. PICK G : G = NeedsDispatch(H, i)
    OBVIOUS
  <1>6. G = [H EXCEPT !.peers[i] = q, !.dispatch = D, !.connected = n]
    <2>1. CASE H.peers[i].needs
      <3>1. q = H.peers[i] /\ n = H.connected /\ D = H.dispatch
        BY <2>1, <1>1, <1>2, <1>3, <1>4 DEF WithNeeds, PeerRecord
      <3>2. G = H
        BY <2>1, <1>5 DEF NeedsDispatch
      <3> QED
        BY <3>1, <3>2 DEF HostRecord
    <2>2. CASE ~H.peers[i].needs
      BY <2>2, <1>1, <1>2, <1>3, <1>4, <1>5 DEF NeedsDispatch, WithNeeds, HostRecord
    <2> QED
      BY <2>1, <2>2
  <1>7. /\ G \in [addr : {h}, peers : [Slots(h) -> PeerRecord], dispatch : {D},
                  connected : Int, out : SUBSET DatagramRecord]
        /\ G.peers = [H.peers EXCEPT ![i] = q] /\ G.connected = n /\ G.out = H.out
    BY <1>6 DEF HostRecord
  <1>8. Relinked(H, i, q, D)
    BY <1>1, <1>2, <1>3 DEF Relinked
  <1> QED
    BY <1>2, <1>4, <1>5, <1>7, <1>8, Step

\* enet_peer_disconnect() of a peer that is up.
LEMMA BeginDisconnectBecomes ==
  ASSUME NEW h \in Hosts, NEW H \in HostRecord(h), Shape(h, H), NEW i \in Slots(h)
  PROVE  Becomes(h, H, BeginDisconnect(H, i), i, Disconnecting(H.peers[i])) /\ BeginDisconnect(H, i).out = H.out
  <1>1. H.peers[i] \in PeerRecord
    BY DEF HostRecord
  <1>2. PICK q \in PeerRecord : /\ q = Disconnecting(H.peers[i])
                               /\ q.state = "DISCONNECTING" /\ ~q.needs
    BY <1>1, DisconnectingType
  <1>3. PICK D : D = DispatchWithout(H, i)
    OBVIOUS
  <1>4. PICK n \in Int : /\ n = H.connected + Connections(H.peers[i].state, "DISCONNECTING")
                        /\ n = H.connected + Connections(H.peers[i].state, q.state)
    BY <1>2 DEF HostRecord, Connections
  <1>5. PICK G : G = BeginDisconnect(H, i)
    OBVIOUS
  <1>6. G = [H EXCEPT !.peers[i] = q, !.dispatch = D, !.connected = n]
    BY <1>1, <1>2, <1>3, <1>4, <1>5 DEF BeginDisconnect, Disconnecting, HostRecord
  <1>7. /\ G \in [addr : {h}, peers : [Slots(h) -> PeerRecord], dispatch : {D},
                  connected : Int, out : SUBSET DatagramRecord]
        /\ G.peers = [H.peers EXCEPT ![i] = q] /\ G.connected = n /\ G.out = H.out
    BY <1>6 DEF HostRecord
  <1>8. Relinked(H, i, q, D)
    BY <1>2, <1>3 DEF Relinked
  <1> QED
    BY <1>2, <1>4, <1>5, <1>7, <1>8, Step

\* enet_peer_disconnect() of a peer that is not.
LEMMA FarewellBecomes ==
  ASSUME NEW h \in Hosts, NEW H \in HostRecord(h), Shape(h, H), NEW i \in Slots(h)
  PROVE  Becomes(h, H, Farewell(H, i), i, Parting(H.peers[i])) /\ Farewell(H, i).out = H.out
  <1>1. H.peers[i] \in PeerRecord
    BY DEF HostRecord
  <1>2. PICK q \in PeerRecord : /\ q = Parting(H.peers[i])
                               /\ q.state = H.peers[i].state /\ ~q.needs
    BY <1>1, PartingType
  <1>3. PICK D : D = DispatchWithout(H, i)
    OBVIOUS
  <1>4. PICK n \in Int : /\ n = H.connected
                        /\ n = H.connected + Connections(H.peers[i].state, q.state)
    BY <1>2 DEF HostRecord, Connections
  <1>5. PICK G : G = Farewell(H, i)
    OBVIOUS
  <1>6. G = [H EXCEPT !.peers[i] = q, !.dispatch = D, !.connected = n]
    BY <1>1, <1>2, <1>3, <1>4, <1>5 DEF Farewell, Parting, HostRecord
  <1>7. /\ G \in [addr : {h}, peers : [Slots(h) -> PeerRecord], dispatch : {D},
                  connected : Int, out : SUBSET DatagramRecord]
        /\ G.peers = [H.peers EXCEPT ![i] = q] /\ G.connected = n /\ G.out = H.out
    BY <1>6 DEF HostRecord
  <1>8. Relinked(H, i, q, D)
    BY <1>2, <1>3 DEF Relinked
  <1> QED
    BY <1>2, <1>4, <1>5, <1>7, <1>8, Step

--------------------------------------------------------------------------------
(* Peers and hosts that keep the invariant. *)

\* The peer p goes on as q.
LEMMA GoodSame ==
  ASSUME NEW h \in Hosts, NEW w \in World, NEW p, GoodPeer(h, p, w), NEW q \in PeerRecord,
         q.addr = p.addr, q.cid = p.cid, q.seq >= p.seq,
         p.state # "DISCONNECTED", q.state # "DISCONNECTED",
         q.state = "CONNECTING" => p.state = "CONNECTING",
         q.outS \in Sessions \/ (q.outID = p.outID /\ q.outS = p.outS),
         \A c \in Queued(q) : c \in Queued(p) \/ GoodCommand(h, p.addr, c, w),
         \A c \in q.acks : /\ c.seq = 1 => h \in w.callers
                           /\ c.type = "DISCONNECT" => q.state = "ACKNOWLEDGING_DISCONNECT"
  PROVE  GoodPeer(h, q, w)
  <1>1. \A c \in Queued(q) : GoodCommand(h, q.addr, c, w)
    BY DEF GoodPeer
  <1>2. q.seq >= 1 /\ q.addr \in Hosts
    <2>1. p.seq >= 1 /\ p.addr \in Hosts /\ p.seq \in Nat /\ q.seq \in Nat
      BY DEF GoodPeer, PeerRecord
    <2> QED
      BY <2>1
  <1> QED
    BY <1>1, <1>2 DEF GoodPeer

LEMMA GoodReset ==
  ASSUME NEW h \in Hosts, NEW w \in World, NEW p, GoodPeer(h, p, w)
  PROVE  ResetOf(p) \in PeerRecord /\ GoodPeer(h, ResetOf(p), w)
  <1>1. PICK q \in PeerRecord :
           /\ q = ResetOf(p) /\ q.outR = {} /\ q.outU = {} /\ q.sent = {} /\ q.acks = {}
           /\ q.state = "DISCONNECTED" /\ q.outID = NoID /\ q.cid = 0 /\ q.seq = 0
           /\ q.addr = p.addr
    BY ResetType DEF GoodPeer
  <1>2. Queued(q) = {}
    BY <1>1 DEF Queued
  <1>3. q.cid <= w.last
    BY <1>1 DEF World
  <1> QED
    BY <1>1, <1>2, <1>3 DEF GoodPeer

LEMMA GoodWithView ==
  ASSUME NEW h \in Hosts, NEW w \in World, NEW p, GoodPeer(h, p, w),
         NEW v \in {"down", "trying", "up"}
  PROVE  WithView(p, v) \in PeerRecord /\ GoodPeer(h, WithView(p, v), w)
  <1>1. PICK q \in PeerRecord : q = WithView(p, v) /\ Keeps(p, q, {"view"})
    BY WithType DEF GoodPeer
  <1>2. /\ q.state = p.state /\ q.addr = p.addr /\ q.cid = p.cid /\ q.outID = p.outID
        /\ q.outS = p.outS /\ q.seq = p.seq /\ q.acks = p.acks /\ Queued(q) = Queued(p)
    BY <1>1 DEF Keeps, Fields, Queued
  <1> QED
    BY <1>1, <1>2 DEF GoodPeer

\* The step of a host in which the peer i becomes q.
LEMMA PeerStep ==
  ASSUME NEW h \in Hosts, NEW w \in World, NEW X, NEW Y, NEW i \in Slots(h),
         NEW H, GoodHost(h, H, w, X), NEW G, NEW q, Becomes(h, H, G, i, q), GoodPeer(h, q, w),
         \/ q.state = "DISCONNECTED"
         \/ /\ H.peers[i].state # "DISCONNECTED"
            /\ q.addr = H.peers[i].addr /\ q.cid = H.peers[i].cid
         \/ \A j \in Slots(h) \ {i} : H.peers[j].state # "DISCONNECTED" =>
              <<H.peers[j].addr, H.peers[j].cid>> # <<q.addr, q.cid>>,
         X \subseteq Y \cup {i}, i \in Y \/ Settled(q, w),
         \A d \in G.out : d \in H.out \/ GoodDatagram(d, w)
  PROVE  GoodHost(h, G, w, Y)
  <1>1. H \in HostRecord(h)
    BY DEF GoodHost, Shape
  <1>2. /\ G.peers[i] = q /\ \A j \in Slots(h) : j # i => G.peers[j] = H.peers[j]
        /\ Shape(h, G)
    BY <1>1, BecomesPeer DEF Becomes
  <1>3. Distinct(h, G)
    <2>1. Distinct(h, H)
      BY DEF GoodHost
    <2> SUFFICES ASSUME NEW a \in Slots(h), NEW b \in Slots(h), a # b,
                        G.peers[a].state # "DISCONNECTED", G.peers[b].state # "DISCONNECTED"
                 PROVE  <<G.peers[a].addr, G.peers[a].cid>> # <<G.peers[b].addr, G.peers[b].cid>>
      BY DEF Distinct
    <2>2. CASE /\ H.peers[i].state # "DISCONNECTED"
               /\ q.addr = H.peers[i].addr /\ q.cid = H.peers[i].cid
      <3>1. \A j \in {a, b} : /\ H.peers[j].state # "DISCONNECTED"
                              /\ G.peers[j].addr = H.peers[j].addr
                              /\ G.peers[j].cid = H.peers[j].cid
        BY <1>2, <2>2
      <3> QED
        BY <2>1, <3>1 DEF Distinct
    <2>3. CASE \A j \in Slots(h) \ {i} : H.peers[j].state # "DISCONNECTED" =>
                 <<H.peers[j].addr, H.peers[j].cid>> # <<q.addr, q.cid>>
      <3>1. CASE a # i /\ b # i
        BY <1>2, <2>1, <3>1 DEF Distinct
      <3>2. CASE a = i
        BY <1>2, <2>3, <3>2
      <3>3. CASE b = i
        BY <1>2, <2>3, <3>3
      <3> QED
        BY <3>1, <3>2, <3>3
    <2>4. CASE q.state = "DISCONNECTED"
      <3>1. a # i /\ b # i
        BY <1>2, <2>4
      <3> QED
        BY <1>2, <2>1, <3>1 DEF Distinct
    <2> QED
      BY <2>2, <2>3, <2>4
  <1>4. \A j \in Slots(h) : GoodPeer(h, G.peers[j], w)
    BY <1>2 DEF GoodHost
  <1>5. \A j \in Slots(h) \ Y : Settled(G.peers[j], w)
    BY <1>2 DEF GoodHost
  <1>6. \A d \in G.out : GoodDatagram(d, w)
    BY DEF GoodHost
  <1> QED
    BY <1>2, <1>3, <1>4, <1>5, <1>6 DEF GoodHost

\* enet_peer_reset(), and the application knows.
LEMMA GoodDrop ==
  ASSUME NEW h \in Hosts, NEW w \in World, NEW X, NEW i \in Slots(h),
         NEW H \in HostRecord(h), GoodHost(h, H, w, X)
  PROVE  /\ GoodHost(h, View(ResetPeer(H, i), i, "down"), w, X \ {i})
         /\ View(ResetPeer(H, i), i, "down").out = H.out
         /\ GoodPeer(h, H.peers[i], w) /\ Shape(h, H)
  <1>1. GoodPeer(h, H.peers[i], w) /\ Shape(h, H)
    BY DEF GoodHost
  <1>2. PICK F : F = ResetPeer(H, i)
    OBVIOUS
  <1>3. PICK p \in PeerRecord : /\ p = ResetOf(H.peers[i]) /\ GoodPeer(h, p, w)
                                /\ p.state = "DISCONNECTED"
    BY <1>1, GoodReset, ResetType DEF GoodPeer
  <1>4. Becomes(h, H, F, i, p) /\ F.out = H.out /\ F \in HostRecord(h) /\ Shape(h, F) /\ F.peers[i] = p
    BY <1>1, <1>2, <1>3, ResetBecomes, BecomesPeer DEF Becomes, Shape
  <1>5. PICK G : G = View(F, i, "down")
    OBVIOUS
  <1>6. PICK q \in PeerRecord : /\ q = WithView(p, "down") /\ GoodPeer(h, q, w)
                                /\ q.state = "DISCONNECTED" /\ q.view = "down"
    BY <1>3, GoodWithView, WithType DEF Keeps, Fields
  <1>7. Becomes(h, F, G, i, q) /\ G.out = H.out
    BY <1>4, <1>5, <1>6, ViewBecomes
  <1>8. Becomes(h, H, G, i, q)
    BY <1>4, <1>7, BecomesTransitive
  <1>9. Settled(q, w)
    BY <1>6 DEF Settled, GoodView, Moving, Up
  <1>10. GoodHost(h, G, w, X \ {i})
    BY <1>6, <1>7, <1>8, <1>9, PeerStep
  <1> QED
    BY <1>1, <1>2, <1>5, <1>7, <1>10

\* enet_peer_reset() of a peer that the application does not know of.
LEMMA GoodSilentDrop ==
  ASSUME NEW h \in Hosts, NEW w \in World, NEW X, NEW i \in Slots(h),
         NEW H \in HostRecord(h), GoodHost(h, H, w, X), H.peers[i].view = "down"
  PROVE  GoodHost(h, ResetPeer(H, i), w, X \ {i}) /\ ResetPeer(H, i).out = H.out
  <1>1. GoodPeer(h, H.peers[i], w) /\ Shape(h, H)
    BY DEF GoodHost
  <1>2. PICK F : F = ResetPeer(H, i)
    OBVIOUS
  <1>3. PICK q \in PeerRecord : /\ q = ResetOf(H.peers[i]) /\ GoodPeer(h, q, w)
                                /\ q.state = "DISCONNECTED" /\ q.view = H.peers[i].view
    BY <1>1, GoodReset, ResetType DEF GoodPeer
  <1>4. Becomes(h, H, F, i, q) /\ F.out = H.out
    BY <1>1, <1>2, <1>3, ResetBecomes
  <1>5. Settled(q, w)
    BY <1>3 DEF Settled, GoodView, Moving, Up
  <1>6. GoodHost(h, F, w, X \ {i})
    BY <1>3, <1>4, <1>5, PeerStep
  <1> QED
    BY <1>2, <1>4, <1>6

\* Some fields of the peer i are set; it keeps its place in the dispatch queue.
LEMMA GoodPut ==
  ASSUME NEW h \in Hosts, NEW w \in World, NEW X, NEW Y, NEW i \in Slots(h),
         NEW H \in HostRecord(h), GoodHost(h, H, w, X),
         NEW q \in PeerRecord, GoodPeer(h, q, w), q.needs = H.peers[i].needs,
         q.state \in Up <=> H.peers[i].state \in Up,
         \/ /\ H.peers[i].state # "DISCONNECTED"
            /\ q.addr = H.peers[i].addr /\ q.cid = H.peers[i].cid
         \/ \A j \in Slots(h) \ {i} : H.peers[j].state # "DISCONNECTED" =>
              <<H.peers[j].addr, H.peers[j].cid>> # <<q.addr, q.cid>>,
         X \subseteq Y \cup {i}, i \in Y \/ Settled(q, w)
  PROVE  /\ GoodHost(h, Put(H, i, q), w, Y) /\ Put(H, i, q).out = H.out
         /\ Put(H, i, q).peers[i] = q /\ Put(H, i, q) \in HostRecord(h)
  <1>1. PICK G : G = Put(H, i, q)
    OBVIOUS
  <1>2. Becomes(h, H, G, i, q) /\ G.out = H.out
    BY <1>1, PutBecomes DEF GoodHost
  <1>3. GoodHost(h, G, w, Y)
    BY <1>2, PeerStep
  <1>4. G \in HostRecord(h) /\ G.peers[i] = q
    BY <1>2, BecomesPeer DEF Becomes, Shape
  <1> QED
    BY <1>1, <1>2, <1>3, <1>4

LEMMA GoodSimple ==
  ASSUME NEW h \in Hosts, NEW w \in World, NEW a, NEW c \in Commands,
         c.type \in {"PING", "DISCONNECT"}, c.seq > 1
  PROVE  GoodCommand(h, a, c, w)
  BY DEF GoodCommand

\* A peer that is to acknowledge enet_peer_disconnect()'s DISCONNECT, and one that is not.
LEMMA GoodDisconnecting ==
  ASSUME NEW h \in Hosts, NEW w \in World, NEW p, GoodPeer(h, p, w), p.state # "DISCONNECTED"
  PROVE  /\ Disconnecting(p) \in PeerRecord /\ GoodPeer(h, Disconnecting(p), w)
         /\ Disconnecting(p).addr = p.addr /\ Disconnecting(p).cid = p.cid
         /\ p.view = "up" => Settled(Disconnecting(p), w)
  <1>1. p \in PeerRecord /\ p.seq >= 1 /\ p.seq \in Nat
    BY DEF GoodPeer, PeerRecord
  <1>2. PICK c \in Commands : c = Numbered(DisconnectCommand(TRUE), p.seq + 1)
                              /\ c.type = "DISCONNECT" /\ c.seq > 1
    <2>1. PICK n \in Nat : n = p.seq + 1 /\ n > 1
      BY <1>1
    <2>2. PICK c \in Commands : /\ c = Numbered(DisconnectCommand(TRUE), n)
                                /\ c.type = "DISCONNECT" /\ c.seq = n
      BY NumberedSimple
    <2> QED
      BY <2>1, <2>2
  <1>3. PICK q \in PeerRecord :
           /\ q = Disconnecting(p) /\ q.state = "DISCONNECTING" /\ q.seq = p.seq + 1
           /\ q.outR = {c} /\ q.outU = {} /\ q.sent = {} /\ q.acks = {}
           /\ q.addr = p.addr /\ q.cid = p.cid /\ q.view = p.view /\ q.outID = p.outID
           /\ q.outS = p.outS
    BY <1>1, <1>2, DisconnectingType DEF Keeps, Fields
  <1>4. \A d \in Queued(q) : GoodCommand(h, p.addr, d, w)
    <2>1. Queued(q) = {c}
      BY <1>3 DEF Queued
    <2> QED
      BY <1>2, <2>1, GoodSimple
  <1>5. q.seq >= p.seq
    BY <1>1, <1>3
  <1>6. GoodPeer(h, q, w)
    BY <1>3, <1>4, <1>5, GoodSame
  <1>7. p.view = "up" => Settled(q, w)
    BY <1>2, <1>3 DEF Settled, GoodView, Moving, Waits, Up
  <1> QED
    BY <1>3, <1>6, <1>7

LEMMA GoodParting ==
  ASSUME NEW h \in Hosts, NEW w \in World, NEW p, GoodPeer(h, p, w), p.state # "DISCONNECTED"
  PROVE  /\ Parting(p) \in PeerRecord /\ GoodPeer(h, Parting(p), w)
         /\ Parting(p).state = p.state /\ Parting(p).addr = p.addr /\ Parting(p).cid = p.cid
  <1>1. p \in PeerRecord /\ p.seq >= 1 /\ p.seq \in Nat
    BY DEF GoodPeer, PeerRecord
  <1>2. PICK c \in Commands : c = Numbered(DisconnectCommand(FALSE), p.seq + 1)
                              /\ c.type = "DISCONNECT" /\ c.seq > 1
    <2>1. PICK n \in Nat : n = p.seq + 1 /\ n > 1
      BY <1>1
    <2>2. PICK c \in Commands : /\ c = Numbered(DisconnectCommand(FALSE), n)
                                /\ c.type = "DISCONNECT" /\ c.seq = n
      BY NumberedSimple
    <2> QED
      BY <2>1, <2>2
  <1>3. PICK q \in PeerRecord :
           /\ q = Parting(p) /\ q.state = p.state /\ q.seq = p.seq + 1
           /\ q.outU = {c} /\ q.outR = {} /\ q.sent = {} /\ q.acks = {}
           /\ q.addr = p.addr /\ q.cid = p.cid /\ q.outID = p.outID /\ q.outS = p.outS
    BY <1>1, <1>2, PartingType DEF Keeps, Fields
  <1>4. \A d \in Queued(q) : GoodCommand(h, p.addr, d, w)
    <2>1. Queued(q) = {c}
      BY <1>3 DEF Queued
    <2> QED
      BY <1>2, <2>1, GoodSimple
  <1>5. q.seq >= p.seq
    BY <1>1, <1>3
  <1>6. GoodPeer(h, q, w)
    BY <1>3, <1>4, <1>5, GoodSame
  <1> QED
    BY <1>3, <1>6

LEMMA GoodBeginDisconnect ==
  ASSUME NEW h \in Hosts, NEW w \in World, NEW X, NEW i \in Slots(h),
         NEW H \in HostRecord(h), GoodHost(h, H, w, X),
         H.peers[i].state # "DISCONNECTED", H.peers[i].view = "up"
  PROVE  GoodHost(h, BeginDisconnect(H, i), w, X \ {i}) /\ BeginDisconnect(H, i).out = H.out
  <1>1. GoodPeer(h, H.peers[i], w) /\ Shape(h, H) /\ H.peers[i] \in PeerRecord
    BY DEF GoodHost, GoodPeer
  <1>2. PICK G : G = BeginDisconnect(H, i)
    OBVIOUS
  <1>3. PICK q \in PeerRecord : /\ q = Disconnecting(H.peers[i]) /\ GoodPeer(h, q, w)
                                /\ q.addr = H.peers[i].addr /\ q.cid = H.peers[i].cid
                                /\ Settled(q, w)
    BY <1>1, GoodDisconnecting
  <1>4. Becomes(h, H, G, i, q) /\ G.out = H.out
    BY <1>1, <1>2, <1>3, BeginDisconnectBecomes
  <1>5. GoodHost(h, G, w, X \ {i})
    BY <1>3, <1>4, PeerStep
  <1> QED
    BY <1>2, <1>4, <1>5

LEMMA GoodFarewell ==
  ASSUME NEW h \in Hosts, NEW w \in World, NEW i \in Slots(h),
         NEW H \in HostRecord(h), GoodHost(h, H, w, {}), H.peers[i].state # "DISCONNECTED"
  PROVE  GoodHost(h, Farewell(H, i), w, {i}) /\ Farewell(H, i).out = H.out
  <1>1. GoodPeer(h, H.peers[i], w) /\ Shape(h, H)
    BY DEF GoodHost
  <1>2. PICK G : G = Farewell(H, i)
    OBVIOUS
  <1>3. PICK q \in PeerRecord : /\ q = Parting(H.peers[i]) /\ GoodPeer(h, q, w)
                                /\ q.addr = H.peers[i].addr /\ q.cid = H.peers[i].cid
    BY <1>1, GoodParting
  <1>4. Becomes(h, H, G, i, q) /\ G.out = H.out
    BY <1>1, <1>2, <1>3, FarewellBecomes
  <1>5. GoodHost(h, G, w, {i})
    BY <1>3, <1>4, PeerStep
  <1> QED
    BY <1>2, <1>4, <1>5

--------------------------------------------------------------------------------
(* Sending. *)

\* enet_protocol_dispatch_state().
LEMMA DispatchStateBecomes ==
  ASSUME NEW h \in Hosts, NEW H \in HostRecord(h), Shape(h, H), NEW i \in Slots(h), NEW s \in States
  PROVE  \E q \in PeerRecord :
           /\ Becomes(h, H, DispatchState(H, i, s), i, q) /\ DispatchState(H, i, s).out = H.out
           /\ q.state = s /\ q.needs /\ Keeps(H.peers[i], q, {"state", "needs"})
  <1>1. H.peers[i] \in PeerRecord
    BY DEF HostRecord
  <1>2. PICK F : F = ChangeState(H, i, s)
    OBVIOUS
  <1>3. PICK p \in PeerRecord : /\ p = WithState(H.peers[i], s) /\ p.state = s
                                /\ Keeps(H.peers[i], p, {"state"})
    BY <1>1, WithType
  <1>4. /\ Becomes(h, H, F, i, p) /\ F.out = H.out
        /\ F \in HostRecord(h) /\ Shape(h, F) /\ F.peers[i] = p
    BY <1>2, <1>3, ChangeStateBecomes, BecomesPeer DEF Becomes, Shape
  <1>5. PICK G : G = NeedsDispatch(F, i)
    OBVIOUS
  <1>6. PICK q \in PeerRecord : q = WithNeeds(p) /\ q.needs /\ Keeps(p, q, {"needs"})
    BY <1>3, WithType
  <1>7. Becomes(h, F, G, i, q) /\ G.out = F.out
    BY <1>4, <1>5, <1>6, NeedsBecomes
  <1>8. Becomes(h, H, G, i, q)
    BY <1>4, <1>7, BecomesTransitive
  <1>9. q.state = s /\ Keeps(H.peers[i], q, {"state", "needs"})
    BY <1>3, <1>6 DEF Keeps, Fields
  <1>10. G = DispatchState(H, i, s)
    BY <1>2, <1>5 DEF DispatchState
  <1> QED
    BY <1>4, <1>6, <1>7, <1>8, <1>9, <1>10

Disconnected(p) == \E c \in p.acks : c.type = "DISCONNECT"

LEMMA SendAcknowledgementsBecomes ==
  ASSUME NEW h \in Hosts, NEW H \in HostRecord(h), Shape(h, H), NEW i \in Slots(h)
  PROVE  \E q \in PeerRecord :
           /\ Becomes(h, H, SendAcknowledgements(H, i), i, q)
           /\ SendAcknowledgements(H, i).out = H.out
           /\ q.acks = {}
           /\ IF Disconnected(H.peers[i])
              THEN q.state = "ZOMBIE" /\ q.needs /\ Keeps(H.peers[i], q, {"state", "needs", "acks"})
              ELSE Keeps(H.peers[i], q, {"acks"})
  <1>1. H.peers[i] \in PeerRecord
    BY DEF HostRecord
  <1>2. PICK p : p = [H.peers[i] EXCEPT !.acks = {}]
    OBVIOUS
  <1>3. p \in PeerRecord /\ p.acks = {} /\ Keeps(H.peers[i], p, {"acks"})
    BY <1>1, <1>2 DEF PeerRecord, Keeps, Fields
  <1>4. /\ p.needs = H.peers[i].needs /\ p.state = H.peers[i].state
    BY <1>3 DEF Keeps, Fields
  <1>5. PICK F : F = Put(H, i, p)
    OBVIOUS
  <1>6. Becomes(h, H, F, i, p) /\ F.out = H.out
    BY <1>3, <1>4, <1>5, PutBecomes
  <1>7. F = [H EXCEPT !.peers[i].acks = {}]
    BY <1>2, <1>5 DEF Put, HostRecord
  <1>8. CASE ~Disconnected(H.peers[i])
    <2>1. SendAcknowledgements(H, i) = F
      BY <1>7, <1>8 DEF SendAcknowledgements, Disconnected
    <2> QED
      BY <1>3, <1>6, <1>8, <2>1
  <1>9. CASE Disconnected(H.peers[i])
    <2>1. F \in HostRecord(h) /\ Shape(h, F) /\ F.peers[i] = p
      BY <1>6, BecomesPeer DEF Becomes, Shape
    <2>2. SendAcknowledgements(H, i) = DispatchState(F, i, "ZOMBIE")
      BY <1>7, <1>9 DEF SendAcknowledgements, Disconnected
    <2>3. "ZOMBIE" \in States
      BY DEF States
    <2>4. PICK q \in PeerRecord :
             /\ Becomes(h, F, SendAcknowledgements(H, i), i, q)
             /\ SendAcknowledgements(H, i).out = F.out
             /\ q.state = "ZOMBIE" /\ q.needs /\ Keeps(p, q, {"state", "needs"})
      BY <2>1, <2>2, <2>3, DispatchStateBecomes
    <2>5. Becomes(h, H, SendAcknowledgements(H, i), i, q)
      BY <1>6, <2>4, BecomesTransitive
    <2>6. q.acks = {} /\ Keeps(H.peers[i], q, {"state", "needs", "acks"})
      BY <1>3, <2>4 DEF Keeps, Fields
    <2> QED
      BY <1>6, <1>9, <2>4, <2>5, <2>6
  <1> QED
    BY <1>8, <1>9

\* A peer after its turn: what it held is in flight.
AfterTurn(f, n, R, expired) ==
    [SendReliable([f EXCEPT !.seq = n, !.outR = R], expired) EXCEPT !.outU = {}]

LEMMA AfterTurnType ==
  ASSUME NEW f \in PeerRecord, NEW n \in Nat, NEW R \in SUBSET Commands, NEW expired
  PROVE  LET g == AfterTurn(f, n, R, expired) IN
         /\ g \in PeerRecord /\ g.seq = n /\ g.sent = f.sent \cup R /\ g.outR = {} /\ g.outU = {}
         /\ Keeps(f, g, {"seq", "sent", "outR", "outU", "tries"})
  <1>1. PICK e : e = [f EXCEPT !.seq = n, !.outR = R]
    OBVIOUS
  <1>2. e \in PeerRecord /\ e.seq = n /\ e.outR = R /\ Keeps(f, e, {"seq", "outR"})
    BY <1>1 DEF PeerRecord, Keeps, Fields
  <1>3. PICK t \in Nat : t = IF expired = {} THEN e.tries ELSE e.tries + 1
    BY <1>2 DEF PeerRecord
  <1>4. PICK S \in SUBSET Commands : S = e.sent \cup e.outR
    BY <1>2 DEF PeerRecord
  <1>5. PICK g : g = AfterTurn(f, n, R, expired)
    OBVIOUS
  <1>6. g = [e EXCEPT !.sent = S, !.outR = {}, !.tries = t, !.outU = {}]
    BY <1>1, <1>2, <1>3, <1>4, <1>5 DEF AfterTurn, SendReliable, PeerRecord
  <1>7. /\ g \in PeerRecord /\ g.sent = S /\ g.outR = {} /\ g.outU = {}
        /\ Keeps(e, g, {"sent", "outR", "outU", "tries"})
    BY <1>2, <1>6 DEF PeerRecord, Keeps, Fields
  <1> QED
    BY <1>2, <1>4, <1>5, <1>7 DEF Keeps, Fields

\* What is sent of a peer: it may get a PING, and nothing else that is new.
LEMMA PingedPeer ==
  ASSUME NEW h \in Hosts, NEW w \in World, NEW p, GoodPeer(h, p, w), NEW q,
         \/ q = p
         \/ q = QueueReliable(p, PingCommand) /\ p.state = "CONNECTED"
  PROVE  /\ q.seq \in Nat /\ q.seq >= p.seq /\ q.outU = p.outU
         /\ p.outR \subseteq q.outR /\ q.outR \subseteq Commands
         /\ \A c \in q.outR : GoodCommand(h, p.addr, c, w)
  <1>1. /\ p \in PeerRecord /\ p.seq \in Nat /\ p.outR \subseteq Commands
        /\ \A c \in p.outR : GoodCommand(h, p.addr, c, w)
    BY DEF GoodPeer, PeerRecord, Queued
  <1>2. CASE q = p
    BY <1>1, <1>2
  <1>3. CASE q = QueueReliable(p, PingCommand) /\ p.state = "CONNECTED"
    <2>1. p.seq >= 1
      BY <1>3 DEF GoodPeer
    <2>2. PICK n \in Nat : n = p.seq + 1 /\ n > 1
      BY <1>1, <2>1
    <2>3. PICK c \in Commands : c = Numbered(PingCommand, n) /\ c.type = "PING" /\ c.seq = n
      BY NumberedSimple
    <2>4. GoodCommand(h, p.addr, c, w)
      BY <2>2, <2>3, GoodSimple
    <2>5. q.seq = n /\ q.outR = p.outR \cup {c} /\ q.outU = p.outU
      BY <1>1, <1>3, <2>2, <2>3, SimpleCommands, QueueReliableType DEF Keeps, Fields
    <2> QED
      BY <1>1, <2>2, <2>4, <2>5
  <1> QED
    BY <1>2, <1>3

\* The out field, apart from the peers.
WithOut(H, O) == [H EXCEPT !.out = O]

LEMMA WithOutShape ==
  ASSUME NEW h \in Hosts, NEW H \in HostRecord(h), Shape(h, H), NEW O \in SUBSET DatagramRecord
  PROVE  /\ Shape(h, WithOut(H, O)) /\ WithOut(H, O).peers = H.peers /\ WithOut(H, O).out = O
  <1>1. PICK G : G = WithOut(H, O)
    OBVIOUS
  <1>2. /\ G \in HostRecord(h) /\ G.peers = H.peers /\ G.out = O
        /\ G.dispatch = H.dispatch /\ G.connected = H.connected
    BY <1>1 DEF WithOut, HostRecord
  <1>3. Shape(h, G)
    BY <1>2 DEF Shape, Counted, UpSlots, DispatchAgrees, InDispatch
  <1> QED
    BY <1>1, <1>2, <1>3

\* A peer after its turn keeps the invariant, and is settled but for a peer that is to be
\* disconnected and now holds nothing.
LEMMA GoodAfterTurn ==
  ASSUME NEW h \in Hosts, NEW w \in World, NEW p, GoodPeer(h, p, w), NEW f \in PeerRecord,
         p.state \notin {"DISCONNECTED", "ZOMBIE"},
         f.acks = {},
         IF Disconnected(p)
         THEN f.state = "ZOMBIE" /\ f.needs /\ Keeps(p, f, {"state", "needs", "acks"})
         ELSE Keeps(p, f, {"acks"}),
         NEW n \in Nat, n >= p.seq, NEW R \in SUBSET Commands, p.outR \subseteq R,
         \A c \in R : GoodCommand(h, p.addr, c, w), NEW expired
  PROVE  LET g == AfterTurn(f, n, R, expired) IN
         /\ g \in PeerRecord /\ GoodPeer(h, g, w) /\ g.needs = f.needs /\ g.state = f.state
         /\ g.addr = p.addr /\ g.cid = p.cid /\ g.view = p.view
         /\ g.state # "DISCONNECTED"
         /\ Settled(p, w) => \/ Settled(g, w)
                             \/ /\ p.state = "DISCONNECT_LATER"
                                /\ p.outU # {} /\ p.outR \cup p.sent = {}
  <1>1. PICK g \in PeerRecord :
           /\ g = AfterTurn(f, n, R, expired) /\ g.seq = n /\ g.sent = f.sent \cup R
           /\ g.outR = {} /\ g.outU = {}
           /\ Keeps(f, g, {"seq", "sent", "outR", "outU", "tries"})
    BY AfterTurnType
  <1>2. /\ g.acks = {} /\ g.addr = p.addr /\ g.cid = p.cid /\ g.view = p.view /\ g.outID = p.outID
        /\ g.outS = p.outS /\ g.sent = p.sent \cup R
    BY <1>1 DEF Keeps, Fields
  <1>3. g.needs = f.needs /\ g.state = f.state
    BY <1>1 DEF Keeps, Fields
  <1>4. g.state = IF Disconnected(p) THEN "ZOMBIE" ELSE p.state
    BY <1>3 DEF Keeps, Fields
  <1>5. \A c \in Queued(g) : c \in Queued(p) \/ GoodCommand(h, p.addr, c, w)
    BY <1>1, <1>2 DEF Queued
  <1>6. GoodPeer(h, g, w)
    BY <1>1, <1>2, <1>4, <1>5, GoodSame
  <1>7. ASSUME Settled(p, w),
               ~(p.state = "DISCONNECT_LATER" /\ p.outU # {} /\ p.outR \cup p.sent = {})
        PROVE  Settled(g, w)
    <2>1. CASE Disconnected(p)
      <3>1. p.state = "ACKNOWLEDGING_DISCONNECT"
        BY <2>1 DEF Disconnected, GoodPeer
      <3>2. g.state = "ZOMBIE" /\ g.view = "up"
        BY <1>2, <1>4, <1>7, <2>1, <3>1 DEF Settled, GoodView
      <3>3. g.needs
        BY <1>3, <2>1
      <3> QED
        BY <3>2, <3>3 DEF Settled, GoodView, Moving, Up
    <2>2. CASE ~Disconnected(p)
      <3>1. g.state = p.state /\ p.state # "ACKNOWLEDGING_DISCONNECT"
        BY <1>4, <1>7, <2>2 DEF Settled, Moving, Disconnected
      <3>2. GoodView(g)
        BY <1>2, <1>7, <3>1 DEF Settled, GoodView
      <3>3. \A type : Waits(p, type) => Waits(g, type)
        BY <1>1, <1>2 DEF Waits
      <3>4. p.state = "DISCONNECT_LATER" => ~NothingQueued(g)
        BY <1>1, <1>2, <1>7 DEF Settled, Moving, NothingQueued
      <3>5. Moving(g, w)
        BY <1>2, <1>7, <3>1, <3>3, <3>4 DEF Settled, Moving
      <3> QED
        BY <3>2, <3>5 DEF Settled
    <2> QED
      BY <2>1, <2>2
  <1> QED
    BY <1>1, <1>2, <1>3, <1>4, <1>6, <1>7

\* A datagram of a peer that is in use.
LEMMA GoodDatagrams ==
  ASSUME NEW h \in Hosts, NEW w \in World, NEW H \in HostRecord(h), NEW i \in Slots(h),
         GoodPeer(h, H.peers[i], w), H.peers[i].state # "DISCONNECTED",
         NEW c \in Commands, GoodCommand(h, H.peers[i].addr, c, w)
  PROVE  Datagram(H, i, c) \in DatagramRecord /\ GoodDatagram(Datagram(H, i, c), w)
  <1>1. PICK p \in PeerRecord : p = H.peers[i]
    BY DEF GoodPeer
  <1>2. /\ p.addr \in Hosts /\ p.addr # h /\ p.outID \in Nat
        /\ p.outID # NoID => p.outS \in Sessions
    BY <1>1 DEF GoodPeer, PeerRecord
  <1>3. PICK s \in Sessions : s = IF p.outID = NoID THEN 0 ELSE p.outS
    BY <1>2 DEF Sessions
  <1>4. H.addr = h
    BY DEF HostRecord
  <1>5. Datagram(H, i, c) = [src |-> h, dst |-> p.addr, peerID |-> p.outID, session |-> s, cmd |-> c]
    BY <1>1, <1>3, <1>4 DEF Datagram
  <1> QED
    BY <1>1, <1>2, <1>5 DEF DatagramRecord, GoodDatagram

\* One turn of enet_protocol_send_outgoing_commands().
LEMMA GoodTurn ==
  ASSUME NEW h \in Hosts, NEW w \in World, NEW X, NEW i \in Slots(h),
         NEW H \in HostRecord(h), GoodHost(h, H, w, X),
         NEW expired, expired \subseteq H.peers[i].sent, NEW ping
  PROVE  GoodHost(h, Turn(H, i, expired, ping), w, X)
  <1>1. PICK p \in PeerRecord : p = H.peers[i] /\ GoodPeer(h, p, w)
    BY DEF GoodHost, GoodPeer
  <1>2. CASE p.state \in {"DISCONNECTED", "ZOMBIE"}
    BY <1>1, <1>2 DEF Turn
  <1>3. CASE p.state \notin {"DISCONNECTED", "ZOMBIE"}
    <2>1. PICK q : q = IF ping /\ i \in Silent(H) THEN QueueReliable(p, PingCommand) ELSE p
      OBVIOUS
    <2>2. \/ q = p
          \/ q = QueueReliable(p, PingCommand) /\ p.state = "CONNECTED"
      BY <1>1, <2>1 DEF Silent, CanPing
    <2>3. /\ q.seq \in Nat /\ q.seq >= p.seq /\ q.outU = p.outU
          /\ p.outR \subseteq q.outR /\ q.outR \subseteq Commands
          /\ \A c \in q.outR : GoodCommand(h, p.addr, c, w)
      BY <1>1, <2>2, PingedPeer
    <2>4. PICK acks : acks = {[type |-> "ACK", seq |-> c.seq] : c \in p.acks}
      OBVIOUS
    <2>5. PICK cmds : cmds = acks \cup expired \cup q.outR \cup q.outU
      OBVIOUS
    <2>6. \A c \in cmds : c \in Commands /\ GoodCommand(h, p.addr, c, w)
      <3>1. \A c \in acks : c \in Commands /\ GoodCommand(h, p.addr, c, w)
        <4> SUFFICES ASSUME NEW a \in p.acks
                     PROVE  LET c == [type |-> "ACK", seq |-> a.seq]
                            IN  c \in Commands /\ GoodCommand(h, p.addr, c, w)
          BY <2>4
        <4>1. a.seq \in Nat /\ (a.seq = 1 => h \in w.callers)
          BY <1>1 DEF GoodPeer, PeerRecord, AckRecord
        <4> QED
          BY <4>1 DEF Commands, GoodCommand
      <3>2. \A c \in p.sent \cup p.outU : c \in Commands /\ GoodCommand(h, p.addr, c, w)
        BY <1>1 DEF GoodPeer, PeerRecord, Queued
      <3> QED
        BY <1>1, <2>3, <2>5, <3>1, <3>2
    <2>7. PICK D : D = {Datagram(H, i, c) : c \in cmds}
      OBVIOUS
    <2>8. D \subseteq DatagramRecord /\ \A d \in D : GoodDatagram(d, w)
      BY <1>1, <1>3, <2>6, <2>7, GoodDatagrams
    <2>9. PICK F : F = SendAcknowledgements(H, i)
      OBVIOUS
    <2>10. PICK f \in PeerRecord :
              /\ Becomes(h, H, F, i, f) /\ F.out = H.out /\ f.acks = {}
              /\ IF Disconnected(p)
                 THEN f.state = "ZOMBIE" /\ f.needs /\ Keeps(p, f, {"state", "needs", "acks"})
                 ELSE Keeps(p, f, {"acks"})
      BY <1>1, <2>9, SendAcknowledgementsBecomes DEF GoodHost
    <2>11. F \in HostRecord(h) /\ Shape(h, F) /\ F.peers[i] = f
      BY <2>10, BecomesPeer DEF Becomes, Shape
    <2>12. PICK g \in PeerRecord :
              /\ g = AfterTurn(f, q.seq, q.outR, expired)
              /\ GoodPeer(h, g, w) /\ g.needs = f.needs /\ g.state = f.state
              /\ g.addr = p.addr /\ g.cid = p.cid /\ g.view = p.view
              /\ g.state # "DISCONNECTED"
              /\ Settled(p, w) => \/ Settled(g, w)
                                  \/ /\ p.state = "DISCONNECT_LATER"
                                     /\ p.outU # {} /\ p.outR \cup p.sent = {}
      <3>1. PICK n \in Nat : n = q.seq /\ n >= p.seq
        BY <2>3
      <3>2. PICK R \in SUBSET Commands : R = q.outR
        BY <2>3
      <3>3. p.outR \subseteq R /\ \A c \in R : GoodCommand(h, p.addr, c, w)
        BY <2>3, <3>2
      <3>4. PICK g : g = AfterTurn(f, n, R, expired)
        OBVIOUS
      <3>5. g = AfterTurn(f, q.seq, q.outR, expired)
        BY <3>1, <3>2, <3>4
      <3>6. /\ g \in PeerRecord /\ GoodPeer(h, g, w) /\ g.needs = f.needs /\ g.state = f.state
            /\ g.addr = p.addr /\ g.cid = p.cid /\ g.view = p.view
            /\ g.state # "DISCONNECTED"
            /\ Settled(p, w) => \/ Settled(g, w)
                                \/ /\ p.state = "DISCONNECT_LATER"
                                   /\ p.outU # {} /\ p.outR \cup p.sent = {}
        BY <1>1, <1>3, <2>10, <3>1, <3>2, <3>3, <3>4, GoodAfterTurn, SMTT(30)
      <3> QED
        BY <3>5, <3>6
    <2>13. PICK P : P = Put(F, i, g)
      OBVIOUS
    <2>14. Becomes(h, F, P, i, g) /\ P.out = F.out
      BY <2>11, <2>12, <2>13, PutBecomes
    <2>15. P \in HostRecord(h) /\ Shape(h, P)
      BY <2>14 DEF Becomes, Shape
    <2>16. PICK G : G = WithOut(P, F.out \cup D)
      OBVIOUS
    <2>17. Shape(h, G) /\ G.peers = P.peers /\ G.out = H.out \cup D /\ G \in HostRecord(h)
      <3>1. F.out \cup D \in SUBSET DatagramRecord
        BY <2>8, <2>11 DEF HostRecord
      <3> QED
        BY <2>10, <2>15, <2>16, <3>1, WithOutShape DEF Shape
    <2>18. Becomes(h, H, G, i, g)
      <3>1. Becomes(h, H, P, i, g)
        BY <2>10, <2>14, BecomesTransitive
      <3> QED
        BY <2>17, <3>1 DEF Becomes
    <2>19. PICK E : E = Turn(H, i, expired, ping)
      BY SMTT(30)
    <2>20. E = SendUnreliable(G, i, p)
      BY <1>1, <1>3, <2>1, <2>4, <2>5, <2>7, <2>9, <2>11, <2>12, <2>13, <2>16, <2>19
      DEF Turn, AfterTurn, Put, WithOut, HostRecord
    <2>21. \A d \in G.out : d \in H.out \/ GoodDatagram(d, w)
      BY <2>8, <2>17
    <2>22. CASE p.state = "DISCONNECT_LATER" /\ p.outU # {} /\ p.outR \cup p.sent = {}
      <3>1. E = BeginDisconnect(G, i)
        BY <2>20, <2>22 DEF SendUnreliable
      <3>2. GoodHost(h, G, w, X \cup {i}) /\ G.peers[i] = g
        BY <1>1, <1>3, <2>12, <2>18, <2>21, PeerStep, BecomesPeer
      <3>3. PICK r \in PeerRecord :
               /\ r = Disconnecting(g) /\ GoodPeer(h, r, w)
               /\ r.addr = g.addr /\ r.cid = g.cid
               /\ g.view = "up" => Settled(r, w)
        BY <2>12, GoodDisconnecting
      <3>4. Becomes(h, G, E, i, r) /\ E.out = G.out
        BY <2>17, <3>1, <3>2, <3>3, BeginDisconnectBecomes
      <3>5. Becomes(h, H, E, i, r)
        BY <2>18, <3>4, BecomesTransitive
      <3>6. i \in X \/ Settled(r, w)
        <4>1. i \in X \/ p.view = "up"
          BY <1>1, <2>22 DEF GoodHost, Settled, GoodView, Up
        <4> QED
          BY <2>12, <3>3, <4>1
      <3>7. GoodHost(h, E, w, X)
        BY <1>1, <1>3, <2>12, <2>21, <3>3, <3>4, <3>5, <3>6, PeerStep
      <3> QED
        BY <2>19, <3>7
    <2>23. CASE ~(p.state = "DISCONNECT_LATER" /\ p.outU # {} /\ p.outR \cup p.sent = {})
      <3>1. E = G
        BY <2>20, <2>23 DEF SendUnreliable
      <3>2. i \in X \/ Settled(g, w)
        BY <1>1, <2>12, <2>23 DEF GoodHost
      <3>3. GoodHost(h, G, w, X)
        BY <1>1, <1>3, <2>12, <2>18, <2>21, <3>2, PeerStep
      <3> QED
        BY <2>19, <3>1, <3>3
    <2> QED
      BY <2>22, <2>23
  <1> QED
    BY <1>2, <1>3

\* enet_protocol_notify_disconnect().
LEMMA GoodNotifyDisconnect ==
  ASSUME NEW h \in Hosts, NEW w \in World, NEW i \in Slots(h),
         NEW H \in HostRecord(h), GoodHost(h, H, w, {i}), GoodView(H.peers[i])
  PROVE  GoodHost(h, NotifyDisconnect(H, i), w, {}) /\ NotifyDisconnect(H, i).out = H.out
  <1>1. CASE H.peers[i].state \in {"DISCONNECTED", "ACKNOWLEDGING_CONNECT"}
    <2>1. NotifyDisconnect(H, i) = ResetPeer(H, i) /\ H.peers[i].view = "down"
      BY <1>1 DEF NotifyDisconnect, GoodView
    <2>2. GoodHost(h, NotifyDisconnect(H, i), w, {i} \ {i}) /\ NotifyDisconnect(H, i).out = H.out
      BY <2>1, GoodSilentDrop
    <2>3. {i} \ {i} = {}
      OBVIOUS
    <2> QED
      BY <2>2, <2>3
  <1>2. CASE H.peers[i].state \notin {"DISCONNECTED", "ACKNOWLEDGING_CONNECT"}
    <2>1. NotifyDisconnect(H, i) = View(ResetPeer(H, i), i, "down")
      BY <1>2 DEF NotifyDisconnect
    <2>2. GoodHost(h, NotifyDisconnect(H, i), w, {i} \ {i}) /\ NotifyDisconnect(H, i).out = H.out
      BY <2>1, GoodDrop
    <2>3. {i} \ {i} = {}
      OBVIOUS
    <2> QED
      BY <2>2, <2>3
  <1> QED
    BY <1>1, <1>2

\* enet_protocol_check_timeouts() gives a peer up.
LEMMA GoodTimedOut ==
  ASSUME NEW h \in Hosts, NEW w \in World, NEW i \in Slots(h),
         NEW H \in HostRecord(h), GoodHost(h, H, w, {}), H.peers[i].state # "DISCONNECTED"
  PROVE  GoodHost(h, TimedOut(H, i), w, {}) /\ TimedOut(H, i).out = H.out
  <1>1. PICK p \in PeerRecord : p = H.peers[i] /\ GoodPeer(h, p, w) /\ GoodView(p)
    BY DEF GoodHost, GoodPeer, Settled
  <1>2. PICK F : F = SendAcknowledgements(H, i)
    OBVIOUS
  <1>3. PICK f \in PeerRecord :
           /\ Becomes(h, H, F, i, f) /\ F.out = H.out /\ f.acks = {}
           /\ IF Disconnected(p)
              THEN f.state = "ZOMBIE" /\ f.needs /\ Keeps(p, f, {"state", "needs", "acks"})
              ELSE Keeps(p, f, {"acks"})
    BY <1>1, <1>2, SendAcknowledgementsBecomes DEF GoodHost
  <1>4. F \in HostRecord(h) /\ Shape(h, F) /\ F.peers[i] = f
    BY <1>3, BecomesPeer DEF Becomes, Shape
  <1>5. /\ f.addr = p.addr /\ f.cid = p.cid /\ f.view = p.view /\ f.outID = p.outID
        /\ f.outS = p.outS /\ f.seq = p.seq
        /\ f.outR = p.outR /\ f.outU = p.outU /\ f.sent = p.sent
    BY <1>3 DEF Keeps, Fields
  <1>6. f.state = IF Disconnected(p) THEN "ZOMBIE" ELSE p.state
    BY <1>3 DEF Keeps, Fields
  <1>7. GoodView(f)
    <2>1. Disconnected(p) => p.view = "up"
      BY <1>1 DEF Disconnected, GoodPeer, GoodView
    <2> QED
      BY <1>1, <1>5, <1>6, <2>1 DEF GoodView, Up
  <1>8. GoodPeer(h, f, w)
    <2>1. p.seq \in Nat /\ f.seq >= p.seq
      BY <1>1, <1>5 DEF PeerRecord
    <2>2. Queued(f) = Queued(p)
      BY <1>5 DEF Queued
    <2>3. \A c \in Queued(f) : c \in Queued(p) \/ GoodCommand(h, p.addr, c, w)
      BY <2>2
    <2> QED
      BY <1>1, <1>3, <1>5, <1>6, <2>1, <2>3, GoodSame
  <1>9. GoodHost(h, F, w, {i})
    BY <1>1, <1>3, <1>5, <1>8, PeerStep
  <1>10. NotifyDisconnect(F, i) = TimedOut(H, i)
    BY <1>2 DEF TimedOut
  <1>11. GoodHost(h, NotifyDisconnect(F, i), w, {}) /\ NotifyDisconnect(F, i).out = F.out
    BY <1>4, <1>7, <1>9, GoodNotifyDisconnect
  <1> QED
    BY <1>3, <1>10, <1>11

\* Induction on the turns of enet_host_flush(), by the least number that is not in T.
LEMMA UpToInduction ==
  ASSUME NEW n \in Nat, NEW T, 0 \in T,
         \A k \in 0 .. n - 1 : k \in T => k + 1 \in T
  PROVE  n \in T
  <1> SUFFICES ASSUME n \notin T
               PROVE  FALSE
    OBVIOUS
  <1> DEFINE B == {k \in Nat : k <= n /\ k \notin T}
  <1>1. n \in B /\ B \subseteq Nat
    OBVIOUS
  <1>2. PICK m \in B : \A k \in B : ~(<<k, m>> \in OpToRel(<, Nat))
    BY <1>1, NatLessThanWellFounded, WFMin
  <1>3. m \in Nat /\ m <= n /\ m \notin T /\ m # 0
    OBVIOUS
  <1>4. m - 1 \in 0 .. n - 1
    BY <1>3
  <1>5. m - 1 \notin T
    BY <1>3, <1>4
  <1>6. m - 1 \in B
    BY <1>3, <1>4, <1>5
  <1>7. <<m - 1, m>> \in OpToRel(<, Nat)
    BY <1>3, <1>4 DEF OpToRel
  <1> QED
    BY <1>2, <1>6, <1>7

\* The function that enet_host_flush() is defined by exists.
LEMMA FlushRuns ==
  ASSUME NEW h \in Hosts, NEW H \in HostRecord(h), NEW pings
  PROVE  \E f : /\ f[0] = H /\ Flush(H, pings) = f[PeerCount[h]]
                /\ \A k \in 0 .. PeerCount[h] - 1 : f[k + 1] = Turn(f[k], k, {}, k \in pings)
  <1> DEFINE Runs(f, n) == f = [k \in 0 .. n |->
                               IF k = 0 THEN H ELSE Turn(f[k - 1], k - 1, {}, (k - 1) \in pings)]
             T(n) == {k \in 0 .. n : \E f : Runs(f, k)}
             A == CHOOSE f : Runs(f, PeerCount[h])
  <1>1. PICK n \in Nat : n = PeerCount[h] /\ n = PeerCount[H.addr]
    BY SlotsFinite DEF HostRecord
  <1>2. 0 \in T(n)
    <2>1. Runs([k \in 0 .. 0 |-> H], 0)
      OBVIOUS
    <2> HIDE DEF Runs
    <2> QED
      BY <2>1
  <1>3. ASSUME NEW k \in 0 .. n - 1, k \in T(n)
        PROVE  k + 1 \in T(n)
    <2>1. PICK f : Runs(f, k)
      BY <1>3
    <2>2. PICK g : g = [j \in 0 .. k + 1 |-> IF j = k + 1 THEN Turn(f[k], k, {}, k \in pings) ELSE f[j]]
      OBVIOUS
    <2>3. \A j \in 0 .. k : g[j] = f[j]
      BY <2>2
    <2>4. \A j \in 0 .. k + 1 :
            g[j] = IF j = 0 THEN H ELSE Turn(g[j - 1], j - 1, {}, (j - 1) \in pings)
      <3> SUFFICES ASSUME NEW j \in 0 .. k + 1
                   PROVE  g[j] = IF j = 0 THEN H ELSE Turn(g[j - 1], j - 1, {}, (j - 1) \in pings)
        OBVIOUS
      <3>1. CASE j = k + 1
        <4>1. g[j] = Turn(f[k], k, {}, k \in pings) /\ j - 1 = k /\ j # 0 /\ g[k] = f[k]
          BY <2>2, <2>3, <3>1
        <4> QED
          BY <4>1
      <3>2. CASE j # k + 1
        <4>1. j \in 0 .. k /\ (j # 0 => j - 1 \in 0 .. k)
          BY <3>2
        <4>2. f[j] = IF j = 0 THEN H ELSE Turn(f[j - 1], j - 1, {}, (j - 1) \in pings)
          BY <2>1, <4>1
        <4> QED
          BY <2>3, <4>1, <4>2
      <3> QED
        BY <3>1, <3>2
    <2>5. Runs(g, k + 1)
      BY <2>2, <2>4
    <2> QED
      BY <2>5
  <1>4. n \in T(n)
    <2> HIDE DEF T
    <2> QED
      BY <1>2, <1>3, UpToInduction
  <1>5. Runs(A, n)
    <2>1. \E f : Runs(f, n)
      BY <1>4
    <2> HIDE DEF Runs
    <2> QED
      BY <1>1, <2>1
  <1>6. Flush(H, pings) = A[n]
    BY <1>1 DEF Flush
  <1>7. A[0] = H /\ \A k \in 0 .. n - 1 : A[k + 1] = Turn(A[k], k, {}, k \in pings)
    <2> HIDE DEF A
    <2>1. A[0] = H
      BY <1>5
    <2>2. ASSUME NEW k \in 0 .. n - 1
          PROVE  A[k + 1] = Turn(A[k], k, {}, k \in pings)
      <3>1. k + 1 \in 0 .. n /\ k + 1 # 0 /\ k + 1 - 1 = k
        OBVIOUS
      <3> QED
        BY <1>5, <3>1
    <2> QED
      BY <2>1, <2>2
  <1> QED
    BY <1>1, <1>6, <1>7

LEMMA GoodFlush ==
  ASSUME NEW h \in Hosts, NEW w \in World, NEW X,
         NEW H \in HostRecord(h), GoodHost(h, H, w, X), NEW pings
  PROVE  GoodHost(h, Flush(H, pings), w, X)
  <1>1. PICK f : /\ f[0] = H /\ Flush(H, pings) = f[PeerCount[h]]
                 /\ \A k \in 0 .. PeerCount[h] - 1 : f[k + 1] = Turn(f[k], k, {}, k \in pings)
    BY FlushRuns
  <1>2. PICK n \in Nat : n = PeerCount[h]
    BY SlotsFinite
  <1>3. PICK T : T = {k \in 0 .. n : GoodHost(h, f[k], w, X)}
    OBVIOUS
  <1>4. 0 \in T
    BY <1>1, <1>3
  <1>5. ASSUME NEW k \in 0 .. n - 1, k \in T
        PROVE  k + 1 \in T
    <2>1. k \in Slots(h) /\ k + 1 \in 0 .. n
      BY <1>2 DEF Slots
    <2>2. PICK F : F = f[k]
      OBVIOUS
    <2>3. GoodHost(h, F, w, X) /\ F \in HostRecord(h)
      BY <1>3, <1>5, <2>2 DEF GoodHost, Shape
    <2>4. GoodHost(h, Turn(F, k, {}, k \in pings), w, X)
      BY <2>1, <2>3, GoodTurn
    <2>5. f[k + 1] = Turn(F, k, {}, k \in pings)
      BY <1>1, <1>2, <2>2
    <2> QED
      BY <1>3, <2>1, <2>4, <2>5
  <1>6. n \in T
    BY <1>4, <1>5, UpToInduction
  <1> QED
    BY <1>1, <1>2, <1>3, <1>6

--------------------------------------------------------------------------------
(* What the application may call. *)

\* A peer is reset after it was left with a DISCONNECT, and the application knows.
LEMMA GoodPartingDrop ==
  ASSUME NEW h \in Hosts, NEW w \in World, NEW i \in Slots(h), NEW pings,
         NEW H \in HostRecord(h), GoodHost(h, H, w, {}), H.peers[i].state # "DISCONNECTED"
  PROVE  /\ GoodHost(h, View(ResetPeer(Flush(Farewell(H, i), pings), i), i, "down"), w, {})
         /\ ResetPeer(Flush(Farewell(H, i), pings), i).peers[i].state = "DISCONNECTED"
  <1>1. PICK F : F = Farewell(H, i)
    OBVIOUS
  <1>2. GoodHost(h, F, w, {i}) /\ F \in HostRecord(h)
    <2>1. GoodHost(h, F, w, {i})
      BY <1>1, GoodFarewell
    <2> QED
      BY <2>1 DEF GoodHost, Shape
  <1>3. PICK G : G = Flush(F, pings)
    OBVIOUS
  <1>4. GoodHost(h, G, w, {i}) /\ G \in HostRecord(h)
    <2>1. GoodHost(h, G, w, {i})
      BY <1>2, <1>3, GoodFlush
    <2> QED
      BY <2>1 DEF GoodHost, Shape
  <1>5. GoodHost(h, View(ResetPeer(G, i), i, "down"), w, {i} \ {i})
    BY <1>4, GoodDrop
  <1>6. {i} \ {i} = {}
    OBVIOUS
  <1>7. ResetPeer(G, i).peers[i].state = "DISCONNECTED"
    <2>1. Becomes(h, G, ResetPeer(G, i), i, ResetOf(G.peers[i])) /\ G.peers[i] \in PeerRecord
      BY <1>4, ResetBecomes DEF GoodHost, HostRecord
    <2>2. ResetPeer(G, i).peers[i] = ResetOf(G.peers[i])
      BY <1>4, <2>1, BecomesPeer
    <2> QED
      BY <2>1, <2>2, ResetType
  <1> QED
    BY <1>1, <1>3, <1>5, <1>6, <1>7

\* enet_peer_disconnect() and what the application learns from the call.
LEMMA GoodPeerDisconnect ==
  ASSUME NEW h \in Hosts, NEW w \in World, NEW i \in Slots(h), NEW pings,
         NEW H \in HostRecord(h), GoodHost(h, H, w, {}), H.peers[i].state \notin Leaving
  PROVE  LET G == PeerDisconnect(H, i, pings) IN
         GoodHost(h, IF G.peers[i].state = "DISCONNECTED" THEN View(G, i, "down") ELSE G, w, {})
  <1>1. PICK G : G = PeerDisconnect(H, i, pings)
    OBVIOUS
  <1>2. H.peers[i].state # "DISCONNECTED" /\ Settled(H.peers[i], w)
    BY DEF Leaving, GoodHost
  <1>3. CASE H.peers[i].state \in Up
    <2>1. G = BeginDisconnect(H, i)
      BY <1>1, <1>3 DEF PeerDisconnect, Up, Leaving
    <2>2. H.peers[i].view = "up"
      BY <1>2, <1>3 DEF Settled, GoodView
    <2>3. GoodHost(h, G, w, {} \ {i})
      BY <1>2, <2>1, <2>2, GoodBeginDisconnect
    <2>4. {} \ {i} = {}
      OBVIOUS
    <2>5. G.peers[i].state # "DISCONNECTED"
      <3>1. /\ Becomes(h, H, G, i, Disconnecting(H.peers[i])) /\ H.peers[i] \in PeerRecord
        BY <2>1, BeginDisconnectBecomes DEF GoodHost, HostRecord
      <3>2. G.peers[i] = Disconnecting(H.peers[i])
        BY <3>1, BecomesPeer
      <3> QED
        BY <3>1, <3>2, DisconnectingType
    <2> QED
      BY <1>1, <2>3, <2>4, <2>5
  <1>4. CASE H.peers[i].state \notin Up
    <2>1. G = ResetPeer(Flush(Farewell(H, i), pings), i)
      BY <1>1, <1>4 DEF PeerDisconnect
    <2>2. GoodHost(h, View(G, i, "down"), w, {}) /\ G.peers[i].state = "DISCONNECTED"
      BY <1>2, <2>1, GoodPartingDrop
    <2> QED
      BY <1>1, <2>2
  <1> QED
    BY <1>3, <1>4

LEMMA GoodPeerDisconnectNow ==
  ASSUME NEW h \in Hosts, NEW w \in World, NEW i \in Slots(h), NEW pings,
         NEW H \in HostRecord(h), GoodHost(h, H, w, {}), H.peers[i].state # "DISCONNECTED"
  PROVE  GoodHost(h, View(PeerDisconnectNow(H, i, pings), i, "down"), w, {})
  <1>1. CASE H.peers[i].state \in {"ZOMBIE", "DISCONNECTING"}
    <2>1. PeerDisconnectNow(H, i, pings) = ResetPeer(H, i)
      BY <1>1 DEF PeerDisconnectNow
    <2>2. GoodHost(h, View(ResetPeer(H, i), i, "down"), w, {} \ {i}) /\ {} \ {i} = {}
      BY GoodDrop
    <2> QED
      BY <2>1, <2>2
  <1>2. CASE H.peers[i].state \notin {"ZOMBIE", "DISCONNECTING"}
    <2>1. PeerDisconnectNow(H, i, pings) = ResetPeer(Flush(Farewell(H, i), pings), i)
      BY <1>2 DEF PeerDisconnectNow
    <2> QED
      BY <2>1, GoodPartingDrop
  <1> QED
    BY <1>1, <1>2

\* enet_host_connect() and the first command of a connection: c is a CONNECT or a
\* VERIFY_CONNECT, and the peer p, which was not in use, is to hold it.
LEMMA GoodFirst ==
  ASSUME NEW h \in Hosts, NEW w \in World, NEW p, GoodPeer(h, p, w), p.state = "DISCONNECTED",
         NEW r \in PeerRecord, r.seq = p.seq, r.outR = p.outR, r.outU = p.outU,
         r.sent = p.sent, r.acks = p.acks, r.needs = p.needs,
         r.addr \in Hosts, r.addr # h, r.cid <= w.last,
         r.outID # NoID => r.outS \in Sessions,
         NEW c \in Commands, GoodCommand(h, r.addr, Numbered(c, 1), w),
         \/ /\ r.state = "CONNECTING" /\ c.type = "CONNECT" /\ r.view = "trying"
            /\ h \in w.callers /\ w.own[r.cid] = h
         \/ r.state = "ACKNOWLEDGING_CONNECT" /\ c.type = "VERIFY" /\ r.view = "down"
  PROVE  LET q == QueueReliable(r, c) IN
         /\ q \in PeerRecord /\ GoodPeer(h, q, w) /\ Settled(q, w)
         /\ q.state = r.state /\ q.addr = r.addr /\ q.cid = r.cid /\ q.needs = p.needs
  <1>1. p.seq = 0 /\ Queued(p) = {} /\ p.acks = {}
    BY DEF GoodPeer
  <1>2. PICK d \in Commands : d = Numbered(c, 1) /\ d.type = c.type
    BY NumberedType
  <1>3. PICK q \in PeerRecord : q = QueueReliable(r, c) /\ q.seq = 1 /\ q.outR = {d}
                                /\ Keeps(r, q, {"seq", "outR"})
    <2>1. /\ QueueReliable(r, c) \in PeerRecord /\ QueueReliable(r, c).seq = r.seq + 1
          /\ QueueReliable(r, c).outR = r.outR \cup {Numbered(c, r.seq + 1)}
          /\ Keeps(r, QueueReliable(r, c), {"seq", "outR"})
      BY QueueReliableType
    <2>2. r.seq + 1 = 1 /\ r.outR = {}
      BY <1>1 DEF Queued
    <2> QED
      BY <1>2, <2>1, <2>2
  <1>4. /\ q.addr = r.addr /\ q.cid = r.cid /\ q.view = r.view /\ q.outID = r.outID
        /\ q.outS = r.outS /\ q.state = r.state /\ q.outU = {} /\ q.sent = {} /\ q.acks = {}
    BY <1>1, <1>3 DEF Keeps, Fields, Queued
  <1>5. q.needs = p.needs
    BY <1>3 DEF Keeps, Fields
  <1>6. Queued(q) = {d}
    BY <1>3, <1>4 DEF Queued
  <1>7. GoodPeer(h, q, w)
    BY <1>2, <1>3, <1>4, <1>6 DEF GoodPeer
  <1>8. Settled(q, w)
    BY <1>2, <1>3, <1>4 DEF Settled, GoodView, Moving, Waits, Up
  <1> QED
    BY <1>3, <1>4, <1>5, <1>7, <1>8

LEMMA FirstIsIn ==
  ASSUME NEW S, S \subseteq Nat, S # {}
  PROVE  First(S) \in S /\ \A j \in S : First(S) <= j
  <1>1. PICK m \in S : \A k \in S : ~(<<k, m>> \in OpToRel(<, Nat))
    BY NatLessThanWellFounded, WFMin
  <1>2. \A k \in S : m <= k
    <2>1. ASSUME NEW k \in S, k < m
          PROVE  FALSE
      <3>1. k \in Nat /\ m \in Nat
        OBVIOUS
      <3>2. <<k, m>> \in OpToRel(<, Nat)
        BY <2>1, <3>1 DEF OpToRel
      <3> QED
        BY <1>1, <3>2
    <2> QED
      BY <2>1
  <1> QED
    BY <1>1, <1>2 DEF First

LEMMA FreeSlot ==
  ASSUME NEW h \in Hosts, NEW w \in World, NEW H, GoodHost(h, H, w, {}), FreeSlots(H) # {}
  PROVE  /\ First(FreeSlots(H)) \in Slots(h)
         /\ LET p == H.peers[First(FreeSlots(H))] IN
            /\ p \in PeerRecord /\ GoodPeer(h, p, w)
            /\ p.state = "DISCONNECTED" /\ p.view = "down"
  <1>1. H \in HostRecord(h) /\ \A i \in Slots(h) : GoodPeer(h, H.peers[i], w) /\ Settled(H.peers[i], w)
    BY DEF GoodHost, Shape
  <1>2. FreeSlots(H) \subseteq Slots(h) /\ Slots(h) \subseteq Nat
    BY <1>1, SlotsFinite DEF FreeSlots, HostRecord
  <1>3. First(FreeSlots(H)) \in FreeSlots(H)
    BY <1>2, FirstIsIn
  <1> HIDE DEF FreeSlots
  <1>4. PICK i \in Slots(h) : i = First(FreeSlots(H)) /\ H.peers[i].state = "DISCONNECTED"
    BY <1>2, <1>3 DEF FreeSlots
  <1>5. GoodPeer(h, H.peers[i], w) /\ H.peers[i].view = "down"
    BY <1>1, <1>4 DEF Settled, GoodView
  <1> QED
    BY <1>4, <1>5 DEF GoodPeer

--------------------------------------------------------------------------------
(* Receiving. *)

\* enet_protocol_dispatch_state() makes the peer a ZOMBIE.
LEMMA GoodZombie ==
  ASSUME NEW h \in Hosts, NEW w \in World, NEW X, NEW i \in Slots(h),
         NEW H \in HostRecord(h), GoodHost(h, H, w, X),
         H.peers[i].state \notin {"DISCONNECTED", "ACKNOWLEDGING_DISCONNECT"},
         H.peers[i].view \in {"up", "trying"}
  PROVE  /\ GoodHost(h, DispatchState(H, i, "ZOMBIE"), w, X \ {i})
         /\ DispatchState(H, i, "ZOMBIE").out = H.out
  <1>1. PICK p \in PeerRecord : p = H.peers[i] /\ GoodPeer(h, p, w)
    BY DEF GoodHost, GoodPeer
  <1>2. PICK G : G = DispatchState(H, i, "ZOMBIE")
    OBVIOUS
  <1>3. PICK q \in PeerRecord : /\ Becomes(h, H, G, i, q) /\ G.out = H.out /\ q.state = "ZOMBIE"
                                /\ q.needs /\ Keeps(p, q, {"state", "needs"})
    <2>1. "ZOMBIE" \in States
      BY DEF States
    <2> QED
      BY <1>1, <1>2, <2>1, DispatchStateBecomes DEF GoodHost
  <1>4. /\ q.addr = p.addr /\ q.cid = p.cid /\ q.view = p.view /\ q.outID = p.outID
        /\ q.outS = p.outS /\ q.seq = p.seq /\ q.acks = p.acks
        /\ Queued(q) = Queued(p)
    BY <1>3 DEF Keeps, Fields, Queued
  <1>5. GoodPeer(h, q, w)
    BY <1>1, <1>3, <1>4 DEF GoodPeer
  <1>6. Settled(q, w)
    BY <1>1, <1>3, <1>4 DEF Settled, GoodView, Moving, Up
  <1>7. GoodHost(h, G, w, X \ {i})
    BY <1>1, <1>3, <1>4, <1>5, <1>6, PeerStep
  <1> QED
    BY <1>2, <1>3, <1>7

\* enet_protocol_notify_connect().
LEMMA GoodNotifyConnect ==
  ASSUME NEW h \in Hosts, NEW w \in World, NEW X, NEW i \in Slots(h),
         NEW H \in HostRecord(h), GoodHost(h, H, w, X),
         H.peers[i].state \notin {"DISCONNECTED", "ACKNOWLEDGING_DISCONNECT"}
  PROVE  /\ GoodHost(h, NotifyConnect(H, i), w, X \ {i})
         /\ NotifyConnect(H, i).out = H.out
         /\ NotifyConnect(H, i).peers[i].state = "CONNECTED"
  <1>1. PICK p \in PeerRecord : p = H.peers[i] /\ GoodPeer(h, p, w)
    BY DEF GoodHost, GoodPeer
  <1>2. PICK F : F = ChangeState(H, i, "CONNECTED")
    OBVIOUS
  <1>3. PICK f \in PeerRecord : f = WithState(p, "CONNECTED") /\ f.state = "CONNECTED"
                                /\ Keeps(p, f, {"state"})
    BY WithType DEF States
  <1>4. /\ Becomes(h, H, F, i, f) /\ F.out = H.out
        /\ F \in HostRecord(h) /\ Shape(h, F) /\ F.peers[i] = f
    <2>1. "CONNECTED" \in States
      BY DEF States
    <2> QED
      BY <1>1, <1>2, <1>3, <2>1, ChangeStateBecomes, BecomesPeer DEF Becomes, Shape, GoodHost
  <1>5. PICK G : G = View(F, i, "up")
    OBVIOUS
  <1>6. PICK q \in PeerRecord : q = WithView(f, "up") /\ q.view = "up" /\ Keeps(f, q, {"view"})
    BY <1>3, WithType
  <1>7. Becomes(h, F, G, i, q) /\ G.out = H.out
    BY <1>4, <1>5, <1>6, ViewBecomes
  <1>8. Becomes(h, H, G, i, q)
    BY <1>4, <1>7, BecomesTransitive
  <1>9. /\ q.addr = p.addr /\ q.cid = p.cid /\ q.state = "CONNECTED" /\ q.outID = p.outID
        /\ q.outS = p.outS /\ q.seq = p.seq /\ q.acks = p.acks
        /\ Queued(q) = Queued(p)
    BY <1>3, <1>6 DEF Keeps, Fields, Queued
  <1>10. GoodPeer(h, q, w)
    BY <1>1, <1>9 DEF GoodPeer
  <1>11. Settled(q, w)
    BY <1>6, <1>9 DEF Settled, GoodView, Moving, Up
  <1>12. GoodHost(h, G, w, X \ {i})
    BY <1>1, <1>7, <1>8, <1>9, <1>10, <1>11, PeerStep
  <1>13. G.peers[i] = q
    BY <1>8, BecomesPeer
  <1> QED
    BY <1>2, <1>5, <1>7, <1>9, <1>12, <1>13 DEF NotifyConnect

\* The acknowledgement that follows a handler.  Only a DISCONNECT is acknowledged by a
\* peer that is not up, and it is what settles that peer.
LEMMA GoodQueueAcknowledgement ==
  ASSUME NEW h \in Hosts, NEW w \in World, NEW i \in Slots(h),
         NEW H \in HostRecord(h), GoodHost(h, H, w, {i}),
         NEW c \in Commands, c.type \in {"VERIFY", "PING", "DISCONNECT"},
         c.seq = 1 => h \in w.callers,
         c.type = "DISCONNECT" => H.peers[i].state \notin Up \cup {"CONNECTING"},
         \/ Settled(H.peers[i], w)
         \/ /\ c.type = "DISCONNECT" /\ H.peers[i].state = "ACKNOWLEDGING_DISCONNECT"
            /\ H.peers[i].view = "up"
  PROVE  /\ GoodHost(h, QueueAcknowledgement(H, i, c), w, {})
         /\ QueueAcknowledgement(H, i, c).out = H.out
  <1>1. PICK p \in PeerRecord : p = H.peers[i] /\ GoodPeer(h, p, w)
    BY DEF GoodHost, GoodPeer
  <1>2. CASE ~ \/ p.state \in Up \cup {"CONNECTING"}
               \/ p.state = "ACKNOWLEDGING_DISCONNECT" /\ c.type = "DISCONNECT"
    <2>1. QueueAcknowledgement(H, i, c) = H
      BY <1>1, <1>2 DEF QueueAcknowledgement
    <2>2. Settled(H.peers[i], w)
      BY <1>1, <1>2
    <2>3. GoodHost(h, H, w, {})
      BY <2>2 DEF GoodHost
    <2> QED
      BY <2>1, <2>3
  <1>3. CASE \/ p.state \in Up \cup {"CONNECTING"}
             \/ p.state = "ACKNOWLEDGING_DISCONNECT" /\ c.type = "DISCONNECT"
    <2>a. PICK a : a = [type |-> c.type, seq |-> c.seq]
      OBVIOUS
    <2>1. a \in AckRecord /\ a.type = c.type /\ a.seq = c.seq
      <3>1. c.seq \in Nat
        BY DEF Commands
      <3> QED
        BY <2>a, <3>1 DEF AckRecord
    <2>2. PICK S \in SUBSET AckRecord : S = p.acks \cup {a}
      BY <2>1 DEF PeerRecord
    <2>3. PICK q : q = [p EXCEPT !.acks = S]
      OBVIOUS
    <2>4. q \in PeerRecord /\ q.acks = S /\ Keeps(p, q, {"acks"})
      BY <2>3 DEF PeerRecord, Keeps, Fields
    <2>5. /\ q.addr = p.addr /\ q.cid = p.cid /\ q.state = p.state /\ q.outID = p.outID
          /\ q.outS = p.outS /\ q.seq = p.seq /\ q.view = p.view
          /\ q.outR = p.outR /\ q.outU = p.outU /\ q.sent = p.sent
      BY <2>4 DEF Keeps, Fields
    <2>6. q.needs = p.needs
      BY <2>4 DEF Keeps, Fields
    <2>7. QueueAcknowledgement(H, i, c) = Put(H, i, q)
      BY <1>1, <1>3, <2>a, <2>2, <2>3 DEF QueueAcknowledgement, Put, HostRecord
    <2>8. GoodPeer(h, q, w)
      <3>1. Queued(q) = Queued(p)
        BY <2>5 DEF Queued
      <3>2. p.state # "DISCONNECTED"
        BY <1>3 DEF Up
      <3>3. \A b \in q.acks : /\ b.seq = 1 => h \in w.callers
                              /\ b.type = "DISCONNECT" => q.state = "ACKNOWLEDGING_DISCONNECT"
        BY <1>1, <1>3, <2>1, <2>2, <2>4, <2>5 DEF GoodPeer
      <3> QED
        BY <1>1, <2>4, <2>5, <3>1, <3>2, <3>3 DEF GoodPeer
    <2>9. Settled(q, w)
      <3>1. GoodView(q)
        BY <1>1, <2>5 DEF Settled, GoodView, Up
      <3>2. \A type : Waits(p, type) => Waits(q, type)
        BY <2>5 DEF Waits
      <3>3. NothingQueued(q) => NothingQueued(p)
        BY <2>5 DEF NothingQueued
      <3>4. p.state = "ACKNOWLEDGING_DISCONNECT" => \E b \in q.acks : b.type = "DISCONNECT"
        BY <1>3, <2>1, <2>2, <2>4 DEF Up
      <3>5. p.state # "ZOMBIE"
        BY <1>3 DEF Up
      <3>6. Moving(q, w)
        <4>1. CASE Settled(p, w)
          BY <2>5, <3>2, <3>3, <3>4, <3>5, <4>1 DEF Settled, Moving
        <4>2. CASE p.state = "ACKNOWLEDGING_DISCONNECT"
          BY <2>5, <3>4, <4>2 DEF Moving
        <4> QED
          BY <1>1, <4>1, <4>2
      <3> QED
        BY <3>1, <3>6 DEF Settled
    <2>10. GoodHost(h, Put(H, i, q), w, {}) /\ Put(H, i, q).out = H.out
      <3>1. p.state # "DISCONNECTED"
        BY <1>3 DEF Up
      <3> QED
        BY <1>1, <2>4, <2>5, <2>6, <2>8, <2>9, <3>1, GoodPut
    <2> QED
      BY <2>7, <2>10
  <1> QED
    BY <1>2, <1>3

\* VERIFY_CONNECT, and its acknowledgement.
LEMMA GoodVerify ==
  ASSUME NEW h \in Hosts, NEW w \in World, NEW i \in Slots(h),
         NEW H \in HostRecord(h), GoodHost(h, H, w, {}), H.peers[i].state # "DISCONNECTED",
         NEW c \in Commands, c.type = "VERIFY", GoodCommand(H.peers[i].addr, h, c, w)
  PROVE  LET G == QueueAcknowledgement(HandleVerify(H, i, c), i, c) IN
         GoodHost(h, G, w, {}) /\ G.out = H.out
  <1>1. PICK p \in PeerRecord : p = H.peers[i] /\ GoodPeer(h, p, w) /\ Settled(p, w)
    BY DEF GoodHost, GoodPeer
  <1>2. h \in w.callers /\ {c.inS, c.outS} \subseteq Sessions /\ c.id \in Nat
    BY DEF GoodCommand, Commands
  <1>3. PICK G : G = HandleVerify(H, i, c)
    OBVIOUS
  <1>4. GoodHost(h, G, w, {}) /\ G.out = H.out
    <2>1. CASE p.state # "CONNECTING"
      BY <1>1, <1>3, <2>1 DEF HandleVerify
    <2>2. CASE p.state = "CONNECTING" /\ c.cid # p.cid
      <3>1. G = DispatchState(H, i, "ZOMBIE")
        BY <1>1, <1>3, <2>2 DEF HandleVerify
      <3>2. p.view = "trying"
        BY <1>1, <2>2 DEF Settled, GoodView
      <3>3. GoodHost(h, G, w, {} \ {i}) /\ {} \ {i} = {} /\ G.out = H.out
        BY <1>1, <2>2, <3>1, <3>2, GoodZombie
      <3> QED
        BY <3>3
    <2>3. CASE p.state = "CONNECTING" /\ c.cid = p.cid
      <3>1. PICK S \in SUBSET Commands : S = {d \in p.sent : d.seq # 1}
        BY DEF PeerRecord
      <3>2. PICK q : q = [p EXCEPT !.sent = S, !.outID = c.id, !.inS = c.inS, !.outS = c.outS]
        OBVIOUS
      <3>3. /\ q \in PeerRecord /\ q.outS = c.outS /\ q.sent = S
            /\ Keeps(p, q, {"sent", "outID", "inS", "outS"})
        BY <1>2, <3>2 DEF PeerRecord, Keeps, Fields
      <3>4. /\ q.addr = p.addr /\ q.cid = p.cid /\ q.state = p.state /\ q.seq = p.seq
            /\ q.outR = p.outR /\ q.outU = p.outU /\ q.acks = p.acks
        BY <3>3 DEF Keeps, Fields
      <3>5. q.needs = p.needs
        BY <3>3 DEF Keeps, Fields
      <3>6. GoodPeer(h, q, w)
        <4>1. Queued(q) \subseteq Queued(p)
          BY <3>1, <3>3, <3>4 DEF Queued
        <4> QED
          BY <1>1, <1>2, <2>3, <3>3, <3>4, <4>1 DEF GoodPeer
      <3>7. PICK F : F = Put(H, i, q)
        OBVIOUS
      <3>8. GoodHost(h, F, w, {i}) /\ F.peers[i] = q /\ F \in HostRecord(h) /\ F.out = H.out
        <4>1. {} \subseteq {i} \cup {i} /\ i \in {i}
          OBVIOUS
        <4>2. /\ q.needs = H.peers[i].needs /\ q.addr = H.peers[i].addr
              /\ q.cid = H.peers[i].cid /\ q.state = H.peers[i].state
          BY <1>1, <3>4, <3>5
        <4>3. /\ GoodHost(h, Put(H, i, q), w, {i}) /\ Put(H, i, q).peers[i] = q
              /\ Put(H, i, q) \in HostRecord(h) /\ Put(H, i, q).out = H.out
          BY <3>3, <3>6, <4>1, <4>2, GoodPut
        <4> QED
          BY <3>7, <4>3
      <3>9. G = NotifyConnect(F, i)
        <4>1. F = [RemoveSent(H, i, 1) EXCEPT !.peers[i] =
                     [@ EXCEPT !.outID = c.id, !.inS = c.inS, !.outS = c.outS]]
          BY <1>1, <3>1, <3>2, <3>7 DEF Put, RemoveSent, HostRecord, PeerRecord
        <4> QED
          BY <1>1, <1>3, <2>3, <4>1 DEF HandleVerify
      <3>10. GoodHost(h, G, w, {i} \ {i}) /\ {i} \ {i} = {} /\ G.out = F.out
        <4>1. F.peers[i].state \notin {"DISCONNECTED", "ACKNOWLEDGING_DISCONNECT"}
          BY <2>3, <3>4, <3>8
        <4>2. /\ GoodHost(h, NotifyConnect(F, i), w, {i} \ {i})
              /\ NotifyConnect(F, i).out = F.out
          BY <3>8, <4>1, GoodNotifyConnect
        <4> QED
          BY <3>9, <4>2
      <3> QED
        BY <3>8, <3>10
    <2> QED
      BY <2>1, <2>2, <2>3
  <1>5. /\ GoodHost(h, G, w, {i}) /\ Settled(G.peers[i], w) /\ G \in HostRecord(h)
    BY <1>4 DEF GoodHost, Shape
  <1>6. /\ GoodHost(h, QueueAcknowledgement(G, i, c), w, {})
        /\ QueueAcknowledgement(G, i, c).out = H.out
    BY <1>2, <1>4, <1>5, GoodQueueAcknowledgement
  <1> QED
    BY <1>3, <1>6

\* DISCONNECT, and its acknowledgement if it asks for one.
LEMMA GoodHandleDisconnect ==
  ASSUME NEW h \in Hosts, NEW w \in World, NEW i \in Slots(h),
         NEW H \in HostRecord(h), GoodHost(h, H, w, {}), H.peers[i].state # "DISCONNECTED",
         NEW c \in Commands, c.type = "DISCONNECT", GoodCommand(H.peers[i].addr, h, c, w)
  PROVE  LET G == HandleDisconnect(H, i, c)
             A == IF c.ack THEN QueueAcknowledgement(G, i, c) ELSE G
         IN  GoodHost(h, A, w, {}) /\ A.out = H.out
  <1>1. PICK p \in PeerRecord : p = H.peers[i] /\ GoodPeer(h, p, w) /\ Settled(p, w)
    BY DEF GoodHost, GoodPeer
  <1>2. c.seq # 1
    BY DEF GoodCommand, Commands
  <1>3. PICK G : G = HandleDisconnect(H, i, c)
    OBVIOUS
  <1>4. PICK F : F = ResetQueues(H, i)
    OBVIOUS
  <1>5. PICK e \in PeerRecord :
           /\ e = Emptied(p)
           /\ e.outR = {} /\ e.outU = {} /\ e.sent = {} /\ e.acks = {}
           /\ Keeps(p, e, {"outR", "outU", "sent", "acks", "inq", "needs"})
    BY EmptiedType
  <1>6. /\ e.addr = p.addr /\ e.cid = p.cid /\ e.state = p.state /\ e.outID = p.outID
        /\ e.outS = p.outS /\ e.seq = p.seq /\ e.view = p.view /\ Queued(e) = {}
    BY <1>5 DEF Keeps, Fields, Queued
  <1>7. /\ Becomes(h, H, F, i, e) /\ F.out = H.out
        /\ F \in HostRecord(h) /\ Shape(h, F) /\ F.peers[i] = e
    BY <1>1, <1>4, <1>5, ResetQueuesBecomes, BecomesPeer DEF Becomes, Shape, GoodHost
  <1>8. GoodHost(h, F, w, {i})
    <2>1. GoodPeer(h, e, w)
      BY <1>1, <1>5, <1>6 DEF GoodPeer
    <2> QED
      BY <1>1, <1>6, <1>7, <2>1, PeerStep
  <1>9. {i} \ {i} = {}
    OBVIOUS
  <1>10. CASE p.state \in {"ZOMBIE", "ACKNOWLEDGING_DISCONNECT"}
    <2>1. G = H
      BY <1>1, <1>3, <1>10 DEF HandleDisconnect, Up
    <2>2. GoodHost(h, G, w, {}) /\ GoodHost(h, G, w, {i}) /\ Settled(G.peers[i], w)
      BY <1>1, <2>1 DEF GoodHost
    <2>3. G \in HostRecord(h) /\ G.peers[i].state \notin Up \cup {"CONNECTING"}
      BY <1>1, <1>10, <2>1 DEF Up
    <2>4. /\ GoodHost(h, QueueAcknowledgement(G, i, c), w, {})
          /\ QueueAcknowledgement(G, i, c).out = G.out
      BY <1>2, <2>2, <2>3, GoodQueueAcknowledgement
    <2> QED
      BY <1>3, <2>1, <2>2, <2>4
  <1>11. CASE p.state \in {"DISCONNECTING", "CONNECTING"} \/ (p.state \in Up /\ ~c.ack)
    <2>1. G = DispatchState(F, i, "ZOMBIE")
      BY <1>1, <1>3, <1>4, <1>11 DEF HandleDisconnect, Up
    <2>2. p.view \in {"up", "trying"} /\ p.state \notin {"DISCONNECTED", "ACKNOWLEDGING_DISCONNECT"}
      BY <1>1, <1>11 DEF Settled, GoodView, Up
    <2>3. GoodHost(h, G, w, {}) /\ G.out = H.out
      BY <1>6, <1>7, <1>8, <1>9, <2>1, <2>2, GoodZombie
    <2>4. G \in HostRecord(h) /\ G.peers[i].state = "ZOMBIE"
      <3>1. "ZOMBIE" \in States
        BY DEF States
      <3>2. PICK q \in PeerRecord : Becomes(h, F, G, i, q) /\ q.state = "ZOMBIE"
        BY <1>7, <2>1, <3>1, DispatchStateBecomes
      <3> QED
        BY <1>7, <3>2, BecomesPeer DEF Becomes, Shape
    <2>5. GoodHost(h, G, w, {i}) /\ Settled(G.peers[i], w)
      BY <2>3 DEF GoodHost
    <2>6. /\ GoodHost(h, QueueAcknowledgement(G, i, c), w, {})
          /\ QueueAcknowledgement(G, i, c).out = G.out
      BY <1>2, <2>4, <2>5, GoodQueueAcknowledgement DEF Up
    <2> QED
      BY <1>3, <2>3, <2>6
  <1>12. CASE p.state \in Up /\ c.ack
    <2>1. G = ChangeState(F, i, "ACKNOWLEDGING_DISCONNECT")
      BY <1>1, <1>3, <1>4, <1>12 DEF HandleDisconnect, Up
    <2>2. p.view = "up"
      BY <1>1, <1>12 DEF Settled, GoodView
    <2>3. "ACKNOWLEDGING_DISCONNECT" \in States
      BY DEF States
    <2>4. PICK q \in PeerRecord :
             /\ q = WithState(e, "ACKNOWLEDGING_DISCONNECT")
             /\ q.state = "ACKNOWLEDGING_DISCONNECT" /\ Keeps(e, q, {"state"})
      BY <2>3, WithType
    <2>5. /\ q.addr = p.addr /\ q.cid = p.cid /\ q.outID = p.outID
          /\ q.outS = p.outS /\ q.seq = p.seq /\ q.view = p.view /\ Queued(q) = {} /\ q.acks = {}
      BY <1>5, <1>6, <2>4 DEF Keeps, Fields, Queued
    <2>6. Becomes(h, F, G, i, q) /\ G.out = F.out
      BY <1>7, <2>1, <2>3, <2>4, ChangeStateBecomes
    <2>7. GoodPeer(h, q, w)
      <3>1. p.seq >= 1 /\ p.addr \in Hosts
        BY <1>1, <1>12 DEF GoodPeer, Up
      <3> QED
        BY <1>1, <2>4, <2>5, <3>1 DEF GoodPeer
    <2>8. GoodHost(h, G, w, {i})
      BY <1>1, <1>6, <1>7, <1>8, <2>4, <2>5, <2>6, <2>7, PeerStep
    <2>9. G.peers[i] = q /\ G \in HostRecord(h)
      BY <1>7, <2>6, BecomesPeer DEF Becomes, Shape
    <2>10. /\ GoodHost(h, QueueAcknowledgement(G, i, c), w, {})
           /\ QueueAcknowledgement(G, i, c).out = G.out
      BY <1>2, <2>2, <2>4, <2>5, <2>8, <2>9, GoodQueueAcknowledgement DEF Up
    <2> QED
      BY <1>3, <1>7, <1>12, <2>6, <2>10
  <1>13. CASE p.state = "ACKNOWLEDGING_CONNECT"
    <2>1. G = ResetPeer(F, i)
      BY <1>1, <1>3, <1>4, <1>13 DEF HandleDisconnect, Up
    <2>2. e.view = "down"
      BY <1>1, <1>6, <1>13 DEF Settled, GoodView
    <2>3. GoodHost(h, G, w, {}) /\ G.out = H.out
      BY <1>7, <1>8, <1>9, <2>1, <2>2, GoodSilentDrop
    <2>4. G \in HostRecord(h) /\ G.peers[i].state = "DISCONNECTED"
      <3>1. Becomes(h, F, G, i, ResetOf(e)) /\ ResetOf(e).state = "DISCONNECTED"
        BY <1>7, <2>1, ResetBecomes, ResetType
      <3> QED
        BY <1>7, <3>1, BecomesPeer DEF Becomes, Shape
    <2>5. GoodHost(h, G, w, {i}) /\ Settled(G.peers[i], w)
      BY <2>3 DEF GoodHost
    <2>6. /\ GoodHost(h, QueueAcknowledgement(G, i, c), w, {})
          /\ QueueAcknowledgement(G, i, c).out = G.out
      BY <1>2, <2>4, <2>5, GoodQueueAcknowledgement DEF Up
    <2> QED
      BY <1>3, <2>3, <2>6
  <1>14. c.ack \in BOOLEAN
    BY DEF Commands
  <1> QED
    BY <1>1, <1>10, <1>11, <1>12, <1>13, <1>14 DEF PeerRecord, States, Up

\* An acknowledgement.  What it answers is no longer in flight, which settles the
\* connection, ends it, or leaves the peer with something else to wait for.
LEMMA GoodAcknowledge ==
  ASSUME NEW h \in Hosts, NEW w \in World, NEW i \in Slots(h),
         NEW H \in HostRecord(h), GoodHost(h, H, w, {}),
         H.peers[i].state \notin {"DISCONNECTED", "ZOMBIE"},
         NEW c \in Commands, c.type = "ACK", GoodCommand(H.peers[i].addr, h, c, w)
  PROVE  /\ GoodHost(h, HandleAcknowledge(H, i, c), w, {})
         /\ HandleAcknowledge(H, i, c).out = H.out
  <1>1. PICK p \in PeerRecord : p = H.peers[i] /\ GoodPeer(h, p, w) /\ Settled(p, w)
    BY DEF GoodHost, GoodPeer
  <1>2. PICK S \in SUBSET Commands : S = {d \in p.sent : d.seq # c.seq}
    BY DEF PeerRecord
  <1>3. PICK g : g = [p EXCEPT !.sent = S, !.tries = 0]
    OBVIOUS
  <1>4. g \in PeerRecord /\ g.sent = S /\ Keeps(p, g, {"sent", "tries"})
    BY <1>3 DEF PeerRecord, Keeps, Fields
  <1>5. /\ g.addr = p.addr /\ g.cid = p.cid /\ g.state = p.state /\ g.seq = p.seq
        /\ g.outID = p.outID /\ g.outS = p.outS /\ g.view = p.view
        /\ g.outR = p.outR /\ g.outU = p.outU /\ g.acks = p.acks
    BY <1>4 DEF Keeps, Fields
  <1>6. g.needs = p.needs
    BY <1>4 DEF Keeps, Fields
  <1>7. GoodPeer(h, g, w)
    <2>1. Queued(g) \subseteq Queued(p)
      BY <1>2, <1>4, <1>5 DEF Queued
    <2> QED
      BY <1>1, <1>4, <1>5, <2>1 DEF GoodPeer
  <1>8. /\ g.needs = H.peers[i].needs /\ g.addr = H.peers[i].addr
        /\ g.cid = H.peers[i].cid /\ g.state = H.peers[i].state
    BY <1>1, <1>5, <1>6
  <1>9. PICK G : G = Put(H, i, g)
    OBVIOUS
  <1>10. GoodHost(h, G, w, {i}) /\ G.peers[i] = g /\ G \in HostRecord(h) /\ G.out = H.out
    <2>1. {} \subseteq {i} \cup {i} /\ i \in {i}
      OBVIOUS
    <2>2. /\ GoodHost(h, Put(H, i, g), w, {i}) /\ Put(H, i, g).peers[i] = g
          /\ Put(H, i, g) \in HostRecord(h) /\ Put(H, i, g).out = H.out
      BY <1>4, <1>7, <1>8, <2>1, GoodPut
    <2> QED
      BY <1>9, <2>2
  <1>11. G = [RemoveSent(H, i, c.seq) EXCEPT !.peers[i].tries = 0]
    BY <1>1, <1>2, <1>3, <1>9 DEF Put, RemoveSent, HostRecord, PeerRecord
  <1>12. PICK A : A = HandleAcknowledge(H, i, c)
    OBVIOUS
  <1>13. {i} \ {i} = {}
    OBVIOUS
  <1> DEFINE Acked(type) == \E d \in p.sent : d.seq = c.seq /\ d.type = type
  <1>14. CASE p.state = "ACKNOWLEDGING_CONNECT" /\ Acked("VERIFY")
    <2>1. A = NotifyConnect(G, i)
      BY <1>1, <1>11, <1>12, <1>14 DEF HandleAcknowledge
    <2>2. GoodHost(h, A, w, {i} \ {i}) /\ A.out = G.out
      <3>1. G.peers[i].state \notin {"DISCONNECTED", "ACKNOWLEDGING_DISCONNECT"}
        BY <1>5, <1>10, <1>14
      <3>2. /\ GoodHost(h, NotifyConnect(G, i), w, {i} \ {i})
            /\ NotifyConnect(G, i).out = G.out
        BY <1>10, <3>1, GoodNotifyConnect
      <3> QED
        BY <2>1, <3>2
    <2> QED
      BY <1>10, <1>12, <1>13, <2>2
  <1>15. CASE p.state = "DISCONNECTING" /\ Acked("DISCONNECT")
    <2>1. A = NotifyDisconnect(G, i)
      BY <1>1, <1>11, <1>12, <1>15 DEF HandleAcknowledge
    <2>2. GoodView(g)
      BY <1>1, <1>5 DEF Settled, GoodView
    <2>3. GoodHost(h, A, w, {}) /\ A.out = G.out
      BY <1>10, <2>1, <2>2, GoodNotifyDisconnect
    <2> QED
      BY <1>10, <1>12, <2>3
  <1>16. CASE p.state = "DISCONNECT_LATER" /\ NothingQueued(g)
    <2>1. A = BeginDisconnect(G, i)
      BY <1>1, <1>10, <1>11, <1>12, <1>16 DEF HandleAcknowledge
    <2>2. g.view = "up"
      BY <1>1, <1>5, <1>16 DEF Settled, GoodView, Up
    <2>3. GoodHost(h, A, w, {i} \ {i}) /\ A.out = G.out
      BY <1>5, <1>10, <1>16, <2>1, <2>2, GoodBeginDisconnect
    <2> QED
      BY <1>10, <1>12, <1>13, <2>3
  <1>17. CASE /\ ~(p.state = "ACKNOWLEDGING_CONNECT" /\ Acked("VERIFY"))
              /\ ~(p.state = "DISCONNECTING" /\ Acked("DISCONNECT"))
              /\ ~(p.state = "DISCONNECT_LATER" /\ NothingQueued(g))
    <2>1. A = G
      BY <1>1, <1>10, <1>11, <1>12, <1>17 DEF HandleAcknowledge
    <2>2. GoodView(g)
      BY <1>1, <1>5 DEF Settled, GoodView
    <2>3. \A type : Waits(p, type) => Acked(type) \/ Waits(g, type)
      BY <1>2, <1>4, <1>5 DEF Waits
    <2>4. Acked("CONNECT") => p.addr \in w.callers
      <3> SUFFICES ASSUME NEW d \in p.sent, d.seq = c.seq, d.type = "CONNECT"
                   PROVE  p.addr \in w.callers
        OBVIOUS
      <3>1. d.seq = 1
        BY <1>1 DEF GoodPeer, Queued, GoodCommand
      <3> QED
        BY <1>1, <3>1 DEF GoodCommand
    <2> HIDE DEF Acked
    <2>5. Moving(g, w)
      BY <1>1, <1>5, <1>17, <2>3, <2>4 DEF Settled, Moving
    <2>6. GoodHost(h, G, w, {})
      BY <1>10, <2>2, <2>5 DEF GoodHost, Settled
    <2> QED
      BY <1>10, <1>12, <2>1, <2>6
  <1> QED
    BY <1>14, <1>15, <1>16, <1>17

\* A packet that is kept.
LEMMA GoodSendUnreliable ==
  ASSUME NEW h \in Hosts, NEW w \in World, NEW i \in Slots(h),
         NEW H \in HostRecord(h), GoodHost(h, H, w, {}), NEW keep
  PROVE  /\ GoodHost(h, HandleSendUnreliable(H, i, keep), w, {})
         /\ HandleSendUnreliable(H, i, keep).out = H.out
  <1>1. PICK p \in PeerRecord : p = H.peers[i] /\ GoodPeer(h, p, w) /\ Settled(p, w)
    BY DEF GoodHost, GoodPeer
  <1>2. PICK A : A = HandleSendUnreliable(H, i, keep)
    OBVIOUS
  <1>3. CASE A = H
    BY <1>2, <1>3
  <1>4. CASE p.state = "CONNECTED" /\ A = NeedsDispatch([H EXCEPT !.peers[i].inq = @ + 1], i)
    <2>a. p.state = "CONNECTED"
      BY <1>4
    <2>1. PICK n \in Nat : n = p.inq + 1
      BY DEF PeerRecord
    <2>2. PICK q : q = [p EXCEPT !.inq = n]
      OBVIOUS
    <2>3. q \in PeerRecord /\ Keeps(p, q, {"inq"})
      BY <2>2 DEF PeerRecord, Keeps, Fields
    <2>4. /\ q.addr = p.addr /\ q.cid = p.cid /\ q.state = p.state /\ q.seq = p.seq
          /\ q.outID = p.outID /\ q.outS = p.outS /\ q.view = p.view
          /\ Queued(q) = Queued(p) /\ q.acks = p.acks
      BY <2>3 DEF Keeps, Fields, Queued
    <2>5. q.needs = H.peers[i].needs /\ q.state = H.peers[i].state
      BY <1>1, <2>3 DEF Keeps, Fields
    <2>6. PICK F : F = Put(H, i, q)
      OBVIOUS
    <2>7. Becomes(h, H, F, i, q) /\ F.out = H.out
      BY <2>3, <2>5, <2>6, PutBecomes DEF GoodHost
    <2>8. F \in HostRecord(h) /\ Shape(h, F) /\ F.peers[i] = q
      BY <2>7, BecomesPeer DEF Becomes, Shape
    <2>9. A = NeedsDispatch(F, i)
      BY <1>1, <1>4, <2>1, <2>2, <2>6 DEF Put, HostRecord, PeerRecord
    <2>10. PICK r \in PeerRecord : r = WithNeeds(q) /\ Keeps(q, r, {"needs"})
      BY <2>3, WithType
    <2>11. Becomes(h, F, A, i, r) /\ A.out = H.out
      BY <2>7, <2>8, <2>9, <2>10, NeedsBecomes
    <2>12. Becomes(h, H, A, i, r)
      BY <2>7, <2>11, BecomesTransitive
    <2>13. /\ r.addr = p.addr /\ r.cid = p.cid /\ r.state = p.state /\ r.seq = p.seq
           /\ r.outID = p.outID /\ r.outS = p.outS /\ r.view = p.view
           /\ Queued(r) = Queued(p) /\ r.acks = p.acks
      <3>1. Queued(r) = Queued(q)
        BY <2>10 DEF Keeps, Fields, Queued
      <3> QED
        BY <2>4, <2>10, <3>1 DEF Keeps, Fields
    <2>14. GoodPeer(h, r, w)
      BY <1>1, <2>13 DEF GoodPeer
    <2>15. Settled(r, w)
      BY <1>1, <1>4, <2>13 DEF Settled, GoodView, Moving
    <2>16. GoodHost(h, A, w, {})
      BY <1>1, <2>a, <2>11, <2>12, <2>13, <2>14, <2>15, PeerStep
    <2> QED
      BY <1>2, <2>11, <2>16
  <1> QED
    BY <1>1, <1>2, <1>3, <1>4 DEF HandleSendUnreliable

\* The handlers of enet_protocol_handle_incoming_commands() for a peer.
LEMMA GoodHandleCommand ==
  ASSUME NEW h \in Hosts, NEW w \in World, NEW i \in Slots(h),
         NEW H \in HostRecord(h), GoodHost(h, H, w, {}),
         H.peers[i].state \notin {"DISCONNECTED", "ZOMBIE"},
         NEW c \in Commands, GoodCommand(H.peers[i].addr, h, c, w), NEW keep
  PROVE  /\ GoodHost(h, HandleCommand(H, i, c, keep), w, {})
         /\ HandleCommand(H, i, c, keep).out = H.out
  <1>1. CASE c.type = "ACK"
    BY <1>1, GoodAcknowledge DEF HandleCommand
  <1>2. CASE c.type = "VERIFY"
    BY <1>2, GoodVerify DEF HandleCommand
  <1>3. CASE c.type = "DISCONNECT"
    BY <1>3, GoodHandleDisconnect DEF HandleCommand
  <1>4. CASE c.type = "PING"
    <2>1. CASE H.peers[i].state \in Up
      <3>1. GoodHost(h, H, w, {i}) /\ Settled(H.peers[i], w)
        BY DEF GoodHost
      <3>2. c.seq # 1
        BY <1>4 DEF GoodCommand, Commands
      <3>3. /\ GoodHost(h, QueueAcknowledgement(H, i, c), w, {})
            /\ QueueAcknowledgement(H, i, c).out = H.out
        BY <1>4, <3>1, <3>2, GoodQueueAcknowledgement
      <3> QED
        BY <1>4, <2>1, <3>3 DEF HandleCommand
    <2>2. CASE H.peers[i].state \notin Up
      BY <1>4, <2>2 DEF HandleCommand
    <2> QED
      BY <2>1, <2>2
  <1>5. CASE c.type = "DATA"
    BY <1>5, GoodSendUnreliable DEF HandleCommand
  <1>6. CASE c.type \notin {"ACK", "VERIFY", "DISCONNECT", "PING", "DATA"}
    BY <1>6 DEF HandleCommand
  <1> QED
    BY <1>1, <1>2, <1>3, <1>4, <1>5, <1>6

LEMMA NextSessionType ==
  ASSUME NEW a \in Sessions \cup {NoSession}, NEW b \in Sessions \cup {NoSession}
  PROVE  NextSession(a, b) \in Sessions
  <1>1. PICK s \in Sessions : s = ((IF a = NoSession THEN b ELSE a) + 1) % 4
    BY DEF Sessions, NoSession
  <1>2. (s + 1) % 4 \in Sessions
    BY <1>1 DEF Sessions
  <1> QED
    BY <1>1, <1>2 DEF NextSession

\* A request to connect that is accepted.
LEMMA GoodHandleConnect ==
  ASSUME NEW h \in Hosts, NEW w \in World, NEW H \in HostRecord(h), GoodHost(h, H, w, {}),
         NEW src \in Hosts, src # h, NEW c \in Commands, c.type = "CONNECT",
         GoodCommand(src, h, c, w), CanAccept(H, src, c)
  PROVE  /\ GoodHost(h, HandleConnect(H, src, c), w, {})
         /\ HandleConnect(H, src, c).out = H.out
  <1>1. PICK i \in Slots(h) : i = First(FreeSlots(H))
    BY FreeSlot DEF CanAccept
  <1>2. PICK p \in PeerRecord : /\ p = H.peers[i] /\ GoodPeer(h, p, w)
                                /\ p.state = "DISCONNECTED" /\ p.view = "down"
    BY <1>1, FreeSlot DEF CanAccept
  <1>3. /\ c.cid \in Nat /\ c.cid <= w.last /\ w.own[c.cid] = src /\ src \in w.callers
        /\ c.inS \in Sessions \cup {NoSession} /\ c.outS \in Sessions \cup {NoSession}
        /\ c.id \in Nat
    BY DEF GoodCommand, Commands
  <1>4. PICK outS \in Sessions : outS = NextSession(c.inS, p.outS)
    BY <1>3, NextSessionType DEF PeerRecord
  <1>5. PICK inS \in Sessions : inS = NextSession(c.outS, p.inS)
    BY <1>3, NextSessionType DEF PeerRecord
  <1>6. PICK r : r = [p EXCEPT !.state = "ACKNOWLEDGING_CONNECT", !.cid = c.cid, !.addr = src,
                               !.outID = c.id, !.outS = outS, !.inS = inS]
    OBVIOUS
  <1>7. /\ r \in PeerRecord
        /\ r.state = "ACKNOWLEDGING_CONNECT" /\ r.cid = c.cid /\ r.addr = src /\ r.outS = outS
        /\ Keeps(p, r, {"state", "cid", "addr", "outID", "outS", "inS"})
    <2>1. "ACKNOWLEDGING_CONNECT" \in States
      BY DEF States
    <2> QED
      BY <1>3, <1>6, <2>1 DEF PeerRecord, Keeps, Fields
  <1>8. /\ r.seq = p.seq /\ r.outR = p.outR /\ r.outU = p.outU /\ r.sent = p.sent
        /\ r.acks = p.acks /\ r.view = p.view
    BY <1>7 DEF Keeps, Fields
  <1>9. r.needs = p.needs
    BY <1>7 DEF Keeps, Fields
  <1>10. PICK v : v = [type |-> "VERIFY", seq |-> 0, id |-> i, inS |-> outS,
                       outS |-> inS, cid |-> c.cid]
    OBVIOUS
  <1>11. v \in Commands /\ v.type = "VERIFY" /\ v.inS = outS /\ v.outS = inS
    <2>1. i \in Nat /\ outS \in 0 .. 255 /\ inS \in 0 .. 255
      BY SlotsFinite DEF Sessions
    <2> QED
      BY <1>3, <1>10, <2>1 DEF Commands
  <1>12. GoodCommand(h, src, Numbered(v, 1), w)
    <2>1. PICK d \in Commands : /\ d = Numbered(v, 1) /\ d.type = "VERIFY"
                                /\ d.inS = outS /\ d.outS = inS
      BY <1>11, NumberedType
    <2> QED
      BY <1>3, <2>1 DEF GoodCommand
  <1>13. PICK q \in PeerRecord :
            /\ q = QueueReliable(r, v) /\ GoodPeer(h, q, w) /\ Settled(q, w)
            /\ q.state = "ACKNOWLEDGING_CONNECT" /\ q.addr = src /\ q.cid = c.cid
            /\ q.needs = p.needs
    <2>1. /\ QueueReliable(r, v) \in PeerRecord /\ GoodPeer(h, QueueReliable(r, v), w)
          /\ Settled(QueueReliable(r, v), w)
          /\ QueueReliable(r, v).state = r.state /\ QueueReliable(r, v).addr = r.addr
          /\ QueueReliable(r, v).cid = r.cid
          /\ QueueReliable(r, v).needs = p.needs
      BY <1>2, <1>3, <1>7, <1>8, <1>9, <1>11, <1>12, GoodFirst
    <2> QED
      BY <1>7, <2>1
  <1>14. HandleConnect(H, src, c) = Put(H, i, q)
    BY <1>1, <1>2, <1>4, <1>5, <1>6, <1>10, <1>13 DEF HandleConnect, Put
  <1>15. \A j \in Slots(h) \ {i} : H.peers[j].state # "DISCONNECTED" =>
           <<H.peers[j].addr, H.peers[j].cid>> # <<q.addr, q.cid>>
    <2> SUFFICES ASSUME NEW j \in Slots(h), H.peers[j].state # "DISCONNECTED",
                        H.peers[j].addr = src, H.peers[j].cid = c.cid
                 PROVE  FALSE
      BY <1>13
    <2>1. CASE H.peers[j].state = "CONNECTING"
      <3>1. w.own[H.peers[j].cid] = h
        BY <2>1 DEF GoodHost, GoodPeer
      <3> QED
        BY <1>3, <3>1
    <2>2. CASE H.peers[j].state # "CONNECTING"
      BY <2>2 DEF CanAccept, AlreadyAccepted, HostRecord
    <2> QED
      BY <2>1, <2>2
  <1>16. q.needs = H.peers[i].needs /\ (q.state \in Up <=> H.peers[i].state \in Up)
    BY <1>2, <1>13 DEF Up
  <1>17. GoodHost(h, Put(H, i, q), w, {}) /\ Put(H, i, q).out = H.out
    BY <1>13, <1>15, <1>16, GoodPut
  <1> QED
    BY <1>14, <1>17

--------------------------------------------------------------------------------
(* The steps. *)

LEMMA WithoutOut ==
  ASSUME NEW h \in Hosts, NEW w \in World, NEW F, GoodHost(h, F, w, {})
  PROVE  /\ GoodHost(h, [F EXCEPT !.out = {}], w, {}) /\ [F EXCEPT !.out = {}].out = {}
         /\ F.out \subseteq DatagramRecord /\ \A d \in F.out : GoodDatagram(d, w)
  <1>1. F \in HostRecord(h) /\ Shape(h, F)
    BY DEF GoodHost, Shape
  <1>2. PICK G : G = WithOut(F, {})
    OBVIOUS
  <1>3. Shape(h, G) /\ G.peers = F.peers /\ G.out = {}
    <2>1. {} \in SUBSET DatagramRecord
      OBVIOUS
    <2> QED
      BY <1>1, <1>2, <2>1, WithOutShape
  <1>4. GoodHost(h, G, w, {})
    BY <1>3 DEF GoodHost, Distinct
  <1>5. F.out \subseteq DatagramRecord /\ \A d \in F.out : GoodDatagram(d, w)
    BY <1>1 DEF GoodHost, HostRecord
  <1> QED
    BY <1>2, <1>3, <1>4, <1>5 DEF WithOut

\* The host h becomes F, and the other hosts stay.
LEMMA GoodUpdate ==
  ASSUME NEW h \in Hosts, NEW w \in World, IInv, Good(w), NEW F, GoodHost(h, F, w, {}),
         Update(h, F), lastID' = lastID, scenario' = scenario, {accepts', restarts'} \subseteq Nat
  PROVE  IInv'
  <1>1. PICK G : G = [F EXCEPT !.out = {}]
    OBVIOUS
  <1>2. /\ GoodHost(h, G, w, {}) /\ G.out = {}
        /\ F.out \subseteq DatagramRecord /\ \A d \in F.out : GoodDatagram(d, w)
    BY <1>1, WithoutOut
  <1>3. host = [g \in Hosts |-> host[g]] /\ host' = [host EXCEPT ![h] = G] /\ net' = net \cup F.out
    BY <1>1 DEF IInv, Update
  <1>4. /\ host' = [g \in Hosts |-> host'[g]] /\ host'[h] = G
        /\ \A g \in Hosts : g # h => host'[g] = host[g]
    BY <1>3
  <1>5. Good(w)'
    BY <1>2, <1>3, <1>4 DEF Good
  <1> QED
    BY <1>4, <1>5 DEF IInv

\* A datagram is received, and the host h becomes F.
LEMMA GoodReceive ==
  ASSUME NEW h \in Hosts, NEW w \in World, IInv, Good(w), NEW F, GoodHost(h, F, w, {}), F.out = {},
         host' = [host EXCEPT ![h] = F], net' \subseteq net,
         lastID' = lastID, scenario' = scenario, {accepts', restarts'} \subseteq Nat
  PROVE  IInv'
  <1>1. host = [g \in Hosts |-> host[g]]
    BY DEF IInv
  <1>2. /\ host' = [g \in Hosts |-> host'[g]] /\ host'[h] = F
        /\ \A g \in Hosts : g # h => host'[g] = host[g]
    BY <1>1
  <1>3. Good(w)'
    BY <1>2 DEF Good
  <1> QED
    BY <1>2, <1>3 DEF IInv

LEMMA FreshPeerType == FreshPeer \in PeerRecord
  BY DEF FreshPeer, PeerRecord, States, NoID, NoSession, Sessions

LEMMA GoodFresh ==
  ASSUME NEW h \in Hosts, NEW w \in World, NEW F \in HostRecord(h),
         F.peers = [i \in Slots(h) |-> FreshPeer], F.dispatch = <<>>, F.connected = 0,
         \A d \in F.out : GoodDatagram(d, w)
  PROVE  GoodHost(h, F, w, {})
  <1>1. PICK p \in PeerRecord : p = FreshPeer
    BY FreshPeerType
  <1>2. /\ p.state = "DISCONNECTED" /\ p.addr = NoHost /\ p.cid = 0 /\ p.outID = NoID
        /\ p.seq = 0 /\ Queued(p) = {} /\ p.acks = {} /\ p.view = "down"
    BY <1>1 DEF FreshPeer, Queued
  <1>3. ~p.needs
    BY <1>1 DEF FreshPeer
  <1>4. \A i \in Slots(h) : F.peers[i] = p
    BY <1>1
  <1>5. Counted(h, F)
    <2>1. UpSlots(h, F) = {}
      BY <1>2, <1>4 DEF UpSlots, Up
    <2> QED
      BY <2>1, FS_EmptySet DEF Counted
  <1>6. DispatchAgrees(h, F)
    BY <1>3, <1>4 DEF DispatchAgrees, InDispatch
  <1>7. GoodPeer(h, p, w)
    BY <1>2, ConnectionAssumption DEF GoodPeer, World
  <1>8. Settled(p, w)
    BY <1>2 DEF Settled, GoodView, Moving, Up
  <1>9. Distinct(h, F)
    BY <1>2, <1>4 DEF Distinct
  <1> QED
    BY <1>4, <1>5, <1>6, <1>7, <1>8, <1>9 DEF GoodHost, Shape

LEMMA FreshHostType ==
  ASSUME NEW h \in Hosts, NEW O \in SUBSET DatagramRecord
  PROVE  LET F == [FreshHost(h) EXCEPT !.out = O] IN
         /\ F \in HostRecord(h) /\ F.peers = [i \in Slots(h) |-> FreshPeer]
         /\ F.dispatch = <<>> /\ F.connected = 0 /\ F.out = O
  <1>1. /\ [i \in Slots(h) |-> FreshPeer] \in [Slots(h) -> PeerRecord]
    BY FreshPeerType
  <1>2. <<>> \in Seq(Slots(h))
    BY EmptySeq
  <1> QED
    BY <1>1, <1>2 DEF FreshHost, HostRecord

LEMMA InitGood == Init => IInv
  <1> SUFFICES ASSUME Init
               PROVE  IInv
    OBVIOUS
  <1>1. scenario \in Scenarios /\ scenario.callers \subseteq Hosts
    BY ConnectionAssumption DEF Init
  <1>2. PICK own \in [Nat -> Hosts \cup {NoHost}] : TRUE
    <2>1. [n \in Nat |-> NoHost] \in [Nat -> Hosts \cup {NoHost}]
      OBVIOUS
    <2> QED
      BY <2>1
  <1>3. PICK w \in World : w.callers = scenario.callers /\ w.last = 0
    <2>1. [callers |-> scenario.callers, last |-> 0, own |-> own] \in World
      BY <1>1 DEF World
    <2> QED
      BY <2>1
  <1>4. ASSUME NEW h \in Hosts
        PROVE  GoodHost(h, host[h], w, {}) /\ host[h].out = {}
    <2>1. host[h] = FreshHost(h)
      BY DEF Init
    <2>2. PICK F : F = [FreshHost(h) EXCEPT !.out = {}]
      OBVIOUS
    <2>3. F = FreshHost(h)
      BY <2>2 DEF FreshHost
    <2>4. /\ F \in HostRecord(h) /\ F.peers = [i \in Slots(h) |-> FreshPeer]
          /\ F.dispatch = <<>> /\ F.connected = 0 /\ F.out = {}
      <3>1. {} \in SUBSET DatagramRecord
        OBVIOUS
      <3> QED
        BY <2>2, <3>1, FreshHostType
    <2>5. GoodHost(h, F, w, {})
      BY <2>4, GoodFresh
    <2> QED
      BY <2>1, <2>3, <2>4, <2>5
  <1>5. Good(w)
    BY <1>3, <1>4 DEF Good, Init
  <1>6. host = [h \in Hosts |-> host[h]]
    BY DEF Init
  <1> QED
    BY <1>1, <1>5, <1>6 DEF IInv, Init

\* What the invariant says of one host.
LEMMA HostOf ==
  ASSUME NEW w \in World, Good(w), NEW h \in Hosts
  PROVE  /\ GoodHost(h, host[h], w, {}) /\ host[h] \in HostRecord(h) /\ host[h].out = {}
         /\ \A i \in Slots(h) : /\ host[h].peers[i] \in PeerRecord
                                /\ GoodPeer(h, host[h].peers[i], w) /\ Settled(host[h].peers[i], w)
  BY DEF Good, GoodHost, Shape, GoodPeer

LEMMA PingStep ==
  ASSUME IInv, NEW h \in Hosts, NEW i \in Slots(h), Ping(h, i)
  PROVE  IInv'
  <1>1. PICK w \in World : Good(w)
    BY DEF IInv
  <1>2. PICK H \in HostRecord(h) : H = host[h] /\ GoodHost(h, H, w, {})
    BY <1>1, HostOf
  <1>3. PICK p \in PeerRecord : p = H.peers[i] /\ GoodPeer(h, p, w) /\ Settled(p, w)
    BY <1>1, <1>2, HostOf
  <1>4. p.state = "CONNECTED" /\ Update(h, [H EXCEPT !.peers[i] = QueueReliable(@, PingCommand)])
    BY <1>2, <1>3 DEF Ping, CanPing
  <1>5. p.seq \in Nat /\ p.seq >= 1
    BY <1>3, <1>4 DEF GoodPeer, PeerRecord
  <1>6. PICK c \in Commands : c = Numbered(PingCommand, p.seq + 1) /\ c.type = "PING" /\ c.seq > 1
    BY <1>5, NumberedSimple
  <1>7. PICK q \in PeerRecord : /\ q = QueueReliable(p, PingCommand)
                               /\ q.seq = p.seq + 1 /\ q.outR = p.outR \cup {c}
                               /\ Keeps(p, q, {"seq", "outR"})
    BY <1>6, SimpleCommands, QueueReliableType
  <1>8. /\ q.addr = p.addr /\ q.cid = p.cid /\ q.state = "CONNECTED" /\ q.outID = p.outID
        /\ q.outS = p.outS /\ q.acks = p.acks /\ q.view = p.view
        /\ Queued(q) = Queued(p) \cup {c}
    BY <1>4, <1>7 DEF Keeps, Fields, Queued
  <1>9. q.needs = H.peers[i].needs
    BY <1>3, <1>7 DEF Keeps, Fields
  <1>10. GoodCommand(h, p.addr, c, w)
    BY <1>6, GoodSimple
  <1>11. GoodPeer(h, q, w)
    <2>1. q.seq >= p.seq
      BY <1>5, <1>7
    <2> QED
      BY <1>3, <1>4, <1>8, <1>10, <2>1, GoodSame DEF GoodPeer
  <1>12. Settled(q, w)
    BY <1>3, <1>4, <1>8 DEF Settled, GoodView, Moving
  <1>13. q.state \in Up <=> H.peers[i].state \in Up
    BY <1>3, <1>4, <1>8
  <1>14. GoodHost(h, Put(H, i, q), w, {})
    BY <1>2, <1>3, <1>4, <1>8, <1>9, <1>11, <1>12, <1>13, GoodPut
  <1>15. Update(h, Put(H, i, q))
    <2>1. [H EXCEPT !.peers[i] = QueueReliable(@, PingCommand)] = Put(H, i, q)
      BY <1>3, <1>7 DEF Put, HostRecord
    <2> QED
      BY <1>4, <2>1
  <1> QED
    BY <1>1, <1>14, <1>15, GoodUpdate DEF Ping, IInv

LEMMA SendPacketStep ==
  ASSUME IInv, NEW h \in Hosts, NEW i \in Slots(h), SendPacket(h, i)
  PROVE  IInv'
  <1>1. PICK w \in World : Good(w)
    BY DEF IInv
  <1>2. PICK H \in HostRecord(h) : H = host[h] /\ GoodHost(h, H, w, {})
    BY <1>1, HostOf
  <1>3. PICK p \in PeerRecord : p = H.peers[i] /\ GoodPeer(h, p, w) /\ Settled(p, w)
    BY <1>1, <1>2, HostOf
  <1>4. PICK c \in Commands : c = [type |-> "DATA", seq |-> 0] /\ c.type = "DATA"
    <2>1. [type |-> "DATA", seq |-> 0] \in Commands
      BY DEF Commands
    <2> QED
      BY <2>1
  <1>5. /\ p.state = "CONNECTED"
        /\ Update(h, [H EXCEPT !.peers[i].outU = @ \cup {[type |-> "DATA", seq |-> 0]}])
    BY <1>2, <1>3 DEF SendPacket
  <1>6. PICK U \in SUBSET Commands : U = p.outU \cup {c}
    BY DEF PeerRecord
  <1>7. PICK q : q = [p EXCEPT !.outU = U]
    OBVIOUS
  <1>8. q \in PeerRecord /\ Keeps(p, q, {"outU"}) /\ q.outU = U
    BY <1>7 DEF PeerRecord, Keeps, Fields
  <1>9. /\ q.addr = p.addr /\ q.cid = p.cid /\ q.state = "CONNECTED" /\ q.outID = p.outID
        /\ q.outS = p.outS /\ q.acks = p.acks /\ q.view = p.view /\ q.seq = p.seq
        /\ Queued(q) = Queued(p) \cup {c}
    BY <1>5, <1>6, <1>8 DEF Keeps, Fields, Queued
  <1>10. q.needs = H.peers[i].needs
    BY <1>3, <1>8 DEF Keeps, Fields
  <1>11. GoodCommand(h, p.addr, c, w)
    BY <1>4 DEF GoodCommand
  <1>12. GoodPeer(h, q, w)
    <2>1. q.seq >= p.seq
      BY <1>9 DEF PeerRecord
    <2> QED
      BY <1>3, <1>5, <1>8, <1>9, <1>11, <2>1, GoodSame DEF GoodPeer
  <1>13. Settled(q, w)
    BY <1>3, <1>5, <1>9 DEF Settled, GoodView, Moving
  <1>14. q.state \in Up <=> H.peers[i].state \in Up
    BY <1>3, <1>5, <1>9
  <1>15. GoodHost(h, Put(H, i, q), w, {})
    BY <1>2, <1>3, <1>5, <1>8, <1>9, <1>10, <1>12, <1>13, <1>14, GoodPut
  <1>16. Update(h, Put(H, i, q))
    <2>1. [H EXCEPT !.peers[i].outU = @ \cup {[type |-> "DATA", seq |-> 0]}] = Put(H, i, q)
      BY <1>3, <1>4, <1>6, <1>7 DEF Put, HostRecord
    <2> QED
      BY <1>5, <2>1
  <1> QED
    BY <1>1, <1>15, <1>16, GoodUpdate DEF SendPacket, IInv

LEMMA ResetStep ==
  ASSUME IInv, NEW h \in Hosts, NEW i \in Slots(h), Reset(h, i)
  PROVE  IInv'
  <1>1. PICK w \in World : Good(w)
    BY DEF IInv
  <1>2. PICK F : F = View(ResetPeer(host[h], i), i, "down")
    OBVIOUS
  <1>3. GoodHost(h, View(ResetPeer(host[h], i), i, "down"), w, {} \ {i}) /\ {} \ {i} = {}
    BY <1>1, HostOf, GoodDrop
  <1>4. GoodHost(h, F, w, {}) /\ Update(h, F)
    BY <1>2, <1>3 DEF Reset
  <1> QED
    BY <1>1, <1>4, GoodUpdate DEF Reset, IInv

LEMMA DisconnectStep ==
  ASSUME IInv, NEW h \in Hosts, NEW i \in Slots(h), NEW pings, Disconnect(h, i, pings)
  PROVE  IInv'
  <1>1. PICK w \in World : Good(w)
    BY DEF IInv
  <1>2. PICK G : G = PeerDisconnect(host[h], i, pings)
    OBVIOUS
  <1>3. PICK F : F = IF G.peers[i].state = "DISCONNECTED" THEN View(G, i, "down") ELSE G
    OBVIOUS
  <1>4. Update(h, F) /\ host[h].peers[i].state \notin Leaving
    BY <1>2, <1>3 DEF Disconnect
  <1>5. GoodHost(h, F, w, {})
    BY <1>1, <1>2, <1>3, <1>4, HostOf, GoodPeerDisconnect
  <1> QED
    BY <1>1, <1>4, <1>5, GoodUpdate DEF Disconnect, IInv

LEMMA DisconnectLaterStep ==
  ASSUME IInv, NEW h \in Hosts, NEW i \in Slots(h), NEW pings, DisconnectLater(h, i, pings)
  PROVE  IInv'
  <1>a. CASE Disconnect(h, i, pings)
    BY <1>a, DisconnectStep
  <1>b. CASE /\ host[h].peers[i].state \in Up /\ ~NothingQueued(host[h].peers[i])
             /\ Update(h, [host[h] EXCEPT !.peers[i].state = "DISCONNECT_LATER"])
             /\ UNCHANGED <<lastID, accepts, restarts, scenario>>
    <2>1. PICK w \in World : Good(w)
      BY DEF IInv
    <2>2. PICK H \in HostRecord(h) : H = host[h] /\ GoodHost(h, H, w, {})
      BY <2>1, HostOf
    <2>3. PICK p \in PeerRecord : p = H.peers[i] /\ GoodPeer(h, p, w) /\ Settled(p, w)
      BY <2>1, <2>2, HostOf
    <2>4. p.state \in Up /\ ~NothingQueued(p)
      BY <1>b, <2>2, <2>3
    <2>5. PICK q \in PeerRecord : /\ q = WithState(p, "DISCONNECT_LATER")
                                 /\ q.state = "DISCONNECT_LATER" /\ Keeps(p, q, {"state"})
      <3>1. "DISCONNECT_LATER" \in States
        BY DEF States
      <3> QED
        BY <3>1, WithType
    <2>6. /\ q.addr = p.addr /\ q.cid = p.cid /\ q.outID = p.outID
          /\ q.outS = p.outS /\ q.acks = p.acks /\ q.view = p.view /\ q.seq = p.seq
          /\ q.outR = p.outR /\ q.outU = p.outU /\ q.sent = p.sent
      BY <2>5 DEF Keeps, Fields
    <2>7. q.needs = H.peers[i].needs
      BY <2>3, <2>5 DEF Keeps, Fields
    <2>8. GoodPeer(h, q, w)
      <3>1. Queued(q) = Queued(p) /\ q.seq >= p.seq
        BY <2>6 DEF Queued, PeerRecord
      <3>2. \A c \in p.acks : (c.seq = 1 => h \in w.callers) /\ c.type # "DISCONNECT"
        BY <2>3, <2>4 DEF GoodPeer, Up
      <3>3. p.state # "DISCONNECTED"
        BY <2>4 DEF Up
      <3> QED
        BY <2>3, <2>5, <2>6, <3>1, <3>2, <3>3, GoodSame
    <2>9. Settled(q, w)
      <3>1. ~NothingQueued(q) /\ p.view = "up" /\ q.view = "up"
        BY <2>3, <2>4, <2>6 DEF NothingQueued, Settled, GoodView
      <3> QED
        BY <2>5, <3>1 DEF Settled, GoodView, Moving
    <2>10. (q.state \in Up <=> H.peers[i].state \in Up) /\ H.peers[i].state # "DISCONNECTED"
      BY <2>3, <2>4, <2>5 DEF Up
    <2>11. GoodHost(h, Put(H, i, q), w, {})
      BY <2>2, <2>3, <2>6, <2>7, <2>8, <2>9, <2>10, GoodPut
    <2>12. Update(h, Put(H, i, q))
      <3>1. [H EXCEPT !.peers[i].state = "DISCONNECT_LATER"] = Put(H, i, q)
        BY <2>3, <2>5 DEF Put, WithState, HostRecord
      <3> QED
        BY <1>b, <2>2, <3>1
    <2> QED
      BY <1>b, <2>1, <2>11, <2>12, GoodUpdate DEF IInv
  <1> QED
    BY <1>a, <1>b DEF DisconnectLater

LEMMA DisconnectNowStep ==
  ASSUME IInv, NEW h \in Hosts, NEW i \in Slots(h), NEW pings, DisconnectNow(h, i, pings)
  PROVE  IInv'
  <1>1. PICK w \in World : Good(w)
    BY DEF IInv
  <1>2. PICK F : F = View(PeerDisconnectNow(host[h], i, pings), i, "down")
    OBVIOUS
  <1>3. Update(h, F) /\ host[h].peers[i].state # "DISCONNECTED"
    BY <1>2 DEF DisconnectNow
  <1>4. GoodHost(h, F, w, {})
    BY <1>1, <1>2, <1>3, HostOf, GoodPeerDisconnectNow
  <1> QED
    BY <1>1, <1>3, <1>4, GoodUpdate DEF DisconnectNow, IInv

LEMMA RestartStep ==
  ASSUME IInv, NEW h \in Hosts, NEW pings, Restart(h, pings)
  PROVE  IInv'
  <1>1. PICK w \in World : Good(w)
    BY DEF IInv
  <1>2. PICK G : G = Flush(host[h], pings)
    OBVIOUS
  <1>3. GoodHost(h, G, w, {})
    BY <1>1, <1>2, HostOf, GoodFlush
  <1>4. PICK O \in SUBSET DatagramRecord : O = G.out /\ \A d \in O : GoodDatagram(d, w)
    BY <1>3 DEF GoodHost, Shape, HostRecord
  <1>5. PICK F : F = [FreshHost(h) EXCEPT !.out = O]
    OBVIOUS
  <1>6. Update(h, F)
    BY <1>2, <1>4, <1>5 DEF Restart
  <1>7. /\ F \in HostRecord(h) /\ F.peers = [i \in Slots(h) |-> FreshPeer]
        /\ F.dispatch = <<>> /\ F.connected = 0 /\ F.out = O
    BY <1>5, FreshHostType
  <1>8. GoodHost(h, F, w, {})
    BY <1>4, <1>7, GoodFresh
  <1>9. restarts' \in Nat /\ accepts' \in Nat /\ lastID' = lastID /\ scenario' = scenario
    BY DEF Restart, IInv
  <1> QED
    BY <1>1, <1>6, <1>8, <1>9, GoodUpdate

LEMMA SendOutgoingStep ==
  ASSUME IInv, NEW h \in Hosts, NEW i \in Slots(h), NEW expired, NEW ping,
         SendOutgoing(h, i, expired, ping)
  PROVE  IInv'
  <1>1. PICK w \in World : Good(w)
    BY DEF IInv
  <1>2. PICK F : F = Turn(host[h], i, expired, ping)
    OBVIOUS
  <1>3. Update(h, F) /\ expired \subseteq host[h].peers[i].sent
    BY <1>2 DEF SendOutgoing
  <1>4. GoodHost(h, F, w, {})
    BY <1>1, <1>2, <1>3, HostOf, GoodTurn
  <1> QED
    BY <1>1, <1>3, <1>4, GoodUpdate DEF SendOutgoing, IInv

LEMMA TimeoutStep ==
  ASSUME IInv, NEW h \in Hosts, NEW i \in Slots(h), Timeout(h, i)
  PROVE  IInv'
  <1>1. PICK w \in World : Good(w)
    BY DEF IInv
  <1>2. PICK F : F = TimedOut(host[h], i)
    OBVIOUS
  <1>3. Update(h, F) /\ host[h].peers[i].state # "DISCONNECTED"
    BY <1>2 DEF Timeout
  <1>4. GoodHost(h, F, w, {})
    BY <1>1, <1>2, <1>3, HostOf, GoodTimedOut
  <1> QED
    BY <1>1, <1>3, <1>4, GoodUpdate DEF Timeout, IInv

LEMMA ReceiveStep ==
  ASSUME IInv, Receive
  PROVE  IInv'
  <1>1. PICK w \in World : Good(w)
    BY DEF IInv
  <1>2. PICK d \in net : ReceiveConnect(d) \/ \E keep \in BOOLEAN : ReceiveCommand(d, keep)
    BY DEF Receive
  <1>3. d \in DatagramRecord /\ d.src # d.dst /\ GoodCommand(d.src, d.dst, d.cmd, w)
    BY <1>1 DEF Good, GoodDatagram
  <1>4. PICK h \in Hosts : h = d.dst
    BY <1>3 DEF DatagramRecord
  <1>5. PICK c \in Commands : c = d.cmd
    BY <1>3 DEF DatagramRecord
  <1>6. d.src \in Hosts
    BY <1>3 DEF DatagramRecord
  <1>7. PICK H \in HostRecord(h) : H = host[h] /\ GoodHost(h, H, w, {}) /\ H.out = {}
    BY <1>1, HostOf
  <1>8. host = [g \in Hosts |-> host[g]]
    BY DEF IInv
  <1>9. CASE ReceiveConnect(d)
    <2>1. /\ c.type = "CONNECT" /\ CanAccept(H, d.src, c) /\ Consume(d)
          /\ host' = [host EXCEPT ![h] = HandleConnect(host[h], d.src, c)]
      BY <1>4, <1>5, <1>7, <1>9 DEF ReceiveConnect
    <2>2. PICK F : F = HandleConnect(H, d.src, c)
      OBVIOUS
    <2>3. GoodHost(h, HandleConnect(H, d.src, c), w, {}) /\ HandleConnect(H, d.src, c).out = H.out
      BY <1>3, <1>4, <1>5, <1>6, <1>7, <2>1, GoodHandleConnect
    <2>4. GoodHost(h, F, w, {}) /\ F.out = {} /\ host' = [host EXCEPT ![h] = F]
      BY <1>7, <2>1, <2>2, <2>3
    <2>5. net' \subseteq net
      BY <2>1 DEF Consume
    <2>6. lastID' = lastID /\ scenario' = scenario /\ {accepts', restarts'} \subseteq Nat
      BY <1>9 DEF ReceiveConnect, IInv
    <2> QED
      BY <1>1, <2>4, <2>5, <2>6, GoodReceive
  <1>10. ASSUME NEW keep \in BOOLEAN, ReceiveCommand(d, keep)
         PROVE  IInv'
    <2>1. /\ Passes(H, d) /\ Consume(d)
          /\ host' = [host EXCEPT ![h] = HandleCommand(host[h], d.peerID, c, keep)]
      BY <1>4, <1>5, <1>7, <1>10 DEF ReceiveCommand
    <2>2. PICK i \in Slots(h) : i = d.peerID
      BY <2>1 DEF Passes, HostRecord
    <2>3. H.peers[i].state \notin {"DISCONNECTED", "ZOMBIE"} /\ H.peers[i].addr = d.src
      BY <2>1, <2>2 DEF Passes
    <2>4. PICK F : F = HandleCommand(H, i, c, keep)
      OBVIOUS
    <2>5. GoodHost(h, HandleCommand(H, i, c, keep), w, {}) /\ HandleCommand(H, i, c, keep).out = H.out
      BY <1>3, <1>4, <1>5, <1>7, <2>3, GoodHandleCommand
    <2>6. GoodHost(h, F, w, {}) /\ F.out = {} /\ host' = [host EXCEPT ![h] = F]
      BY <1>7, <2>1, <2>2, <2>4, <2>5
    <2>7. net' \subseteq net
      BY <2>1 DEF Consume
    <2>8. lastID' = lastID /\ scenario' = scenario /\ {accepts', restarts'} \subseteq Nat
      BY <1>10 DEF ReceiveCommand, IInv
    <2> QED
      BY <1>1, <2>6, <2>7, <2>8, GoodReceive
  <1> QED
    BY <1>2, <1>9, <1>10

\* The world after a call of enet_host_connect().
Later(w, v) ==
    /\ v \in World /\ v.callers = w.callers /\ v.last >= w.last
    /\ \A k \in Nat : k <= w.last => v.own[k] = w.own[k]

LEMMA LaterCommand ==
  ASSUME NEW w \in World, NEW v, Later(w, v), NEW h, NEW a, NEW c \in Commands,
         GoodCommand(h, a, c, w)
  PROVE  GoodCommand(h, a, c, v)
  <1>1. /\ v.callers = w.callers /\ v.last \in Nat /\ w.last \in Nat /\ v.last >= w.last
        /\ \A k \in Nat : k <= w.last => v.own[k] = w.own[k]
    BY DEF Later, World
  <1>2. CASE c.type = "CONNECT"
    <2>1. c.cid \in Nat /\ c.cid <= w.last /\ w.own[c.cid] = h
      BY <1>2 DEF GoodCommand, Commands
    <2>2. c.cid <= v.last /\ v.own[c.cid] = h
      BY <1>1, <2>1
    <2> QED
      BY <1>1, <1>2, <2>2 DEF GoodCommand
  <1>3. CASE c.type # "CONNECT"
    BY <1>1, <1>3 DEF GoodCommand
  <1> QED
    BY <1>2, <1>3

LEMMA LaterPeer ==
  ASSUME NEW w \in World, NEW v, Later(w, v), NEW h, NEW p, GoodPeer(h, p, w), Settled(p, w)
  PROVE  GoodPeer(h, p, v) /\ Settled(p, v)
  <1>1. /\ v.callers = w.callers /\ v.last \in Nat /\ w.last \in Nat /\ v.last >= w.last
        /\ \A k \in Nat : k <= w.last => v.own[k] = w.own[k]
    BY DEF Later, World
  <1>2. p.cid \in Nat /\ p.cid <= w.last /\ Queued(p) \subseteq Commands
    BY DEF GoodPeer, PeerRecord, Queued
  <1>3. p.cid <= v.last /\ v.own[p.cid] = w.own[p.cid]
    BY <1>1, <1>2
  <1>4. \A c \in Queued(p) : GoodCommand(h, p.addr, c, v)
    BY <1>2, LaterCommand DEF GoodPeer
  <1>5. GoodPeer(h, p, v)
    BY <1>1, <1>3, <1>4 DEF GoodPeer
  <1>6. Settled(p, v)
    BY <1>1 DEF Settled, Moving
  <1> QED
    BY <1>5, <1>6

LEMMA LaterGood ==
  ASSUME NEW w \in World, NEW v, Later(w, v), Good(w)
  PROVE  /\ \A h \in Hosts : GoodHost(h, host[h], v, {})
         /\ \A d \in net : GoodDatagram(d, v)
  <1>1. ASSUME NEW h \in Hosts
        PROVE  GoodHost(h, host[h], v, {})
    <2>1. GoodHost(h, host[h], w, {}) /\ host[h].out = {}
      BY DEF Good
    <2>2. \A i \in Slots(h) : GoodPeer(h, host[h].peers[i], v) /\ Settled(host[h].peers[i], v)
      BY <2>1, LaterPeer DEF GoodHost
    <2> QED
      BY <2>1, <2>2 DEF GoodHost
  <1>2. ASSUME NEW d \in net
        PROVE  GoodDatagram(d, v)
    <2>1. d.cmd \in Commands /\ GoodDatagram(d, w)
      BY DEF Good, DatagramRecord
    <2> QED
      BY <2>1, LaterCommand DEF GoodDatagram
  <1> QED
    BY <1>1, <1>2

LEMMA ConnectStep ==
  ASSUME IInv, NEW h \in Hosts, h \in scenario.callers, NEW to \in Hosts \ {h}, Connect(h, to)
  PROVE  IInv'
  <1>1. PICK w \in World : Good(w)
    BY DEF IInv
  <1>2. PICK H \in HostRecord(h) : H = host[h] /\ GoodHost(h, H, w, {}) /\ H.out = {}
    BY <1>1, HostOf
  <1>3. PICK n \in Nat : n = lastID + 1 /\ n > w.last /\ w.last \in Nat
    BY <1>1 DEF Good, World
  <1>4. PICK own \in [Nat -> Hosts \cup {NoHost}] : own = [w.own EXCEPT ![n] = h]
    BY DEF World
  <1>5. PICK v \in World : v.callers = w.callers /\ v.last = n /\ v.own = own
    <2>1. [callers |-> w.callers, last |-> n, own |-> own] \in World
      BY DEF World
    <2> QED
      BY <2>1
  <1>6. v.own[n] = h /\ \A k \in Nat : k # n => v.own[k] = w.own[k]
    <2>1. w.own \in [Nat -> Hosts \cup {NoHost}]
      BY DEF World
    <2> QED
      BY <1>4, <1>5, <2>1
  <1>7. Later(w, v)
    BY <1>3, <1>5, <1>6 DEF Later
  <1>8. GoodHost(h, H, v, {})
    BY <1>1, <1>2, <1>7, LaterGood
  <1>9. FreeSlots(H) # {}
    BY <1>2 DEF Connect
  <1>10. PICK i \in Slots(h) : i = First(FreeSlots(H))
    BY <1>8, <1>9, FreeSlot
  <1>11. PICK p \in PeerRecord : /\ p = H.peers[i] /\ GoodPeer(h, p, v)
                                 /\ p.state = "DISCONNECTED"
    BY <1>8, <1>9, <1>10, FreeSlot
  <1>12. PICK r : r = [p EXCEPT !.state = "CONNECTING", !.addr = to, !.cid = n,
                                !.view = "trying"]
    OBVIOUS
  <1>13. /\ r \in PeerRecord
         /\ r.state = "CONNECTING" /\ r.cid = n /\ r.addr = to /\ r.view = "trying"
         /\ Keeps(p, r, {"state", "cid", "addr", "view"})
    <2>1. "CONNECTING" \in States
      BY DEF States
    <2> QED
      BY <1>12, <2>1 DEF PeerRecord, Keeps, Fields
  <1>14. /\ r.seq = p.seq /\ r.outR = p.outR /\ r.outU = p.outU /\ r.sent = p.sent
         /\ r.acks = p.acks /\ r.outID = p.outID /\ r.outS = p.outS
    BY <1>13 DEF Keeps, Fields
  <1>15. r.needs = p.needs
    BY <1>13 DEF Keeps, Fields
  <1>16. PICK c : c = [type |-> "CONNECT", seq |-> 0, id |-> i, inS |-> p.inS,
                       outS |-> p.outS, cid |-> n]
    OBVIOUS
  <1>17. c \in Commands /\ c.type = "CONNECT" /\ c.inS = p.inS /\ c.outS = p.outS /\ c.cid = n
    <2>1. i \in Nat /\ p.inS \in 0 .. 255 /\ p.outS \in 0 .. 255
      BY SlotsFinite DEF PeerRecord, Sessions, NoSession
    <2> QED
      BY <1>16, <2>1 DEF Commands
  <1>18. GoodCommand(h, to, Numbered(c, 1), v)
    <2>1. PICK d \in Commands : /\ d = Numbered(c, 1) /\ d.type = "CONNECT" /\ d.seq = 1
                                /\ d.inS = p.inS /\ d.outS = p.outS /\ d.cid = n
      BY <1>17, NumberedType
    <2>2. h \in v.callers
      BY <1>1, <1>5 DEF Good
    <2>3. {p.inS, p.outS} \subseteq Sessions \cup {NoSession}
      BY DEF PeerRecord
    <2> QED
      BY <1>5, <1>6, <2>1, <2>2, <2>3 DEF GoodCommand
  <1>19. PICK q \in PeerRecord :
            /\ q = QueueReliable(r, c) /\ GoodPeer(h, q, v) /\ Settled(q, v)
            /\ q.state = "CONNECTING" /\ q.addr = to /\ q.cid = n
            /\ q.needs = p.needs
    <2>1. r.outID # NoID => r.outS \in Sessions
      BY <1>11, <1>14 DEF GoodPeer
    <2>2. /\ h \in v.callers /\ v.own[r.cid] = h /\ r.cid <= v.last
          /\ r.addr \in Hosts /\ r.addr # h
      BY <1>1, <1>5, <1>6, <1>13 DEF Good
    <2>3. /\ QueueReliable(r, c) \in PeerRecord /\ GoodPeer(h, QueueReliable(r, c), v)
          /\ Settled(QueueReliable(r, c), v)
          /\ QueueReliable(r, c).state = r.state /\ QueueReliable(r, c).addr = r.addr
          /\ QueueReliable(r, c).cid = r.cid
          /\ QueueReliable(r, c).needs = p.needs
      BY <1>11, <1>13, <1>14, <1>15, <1>17, <1>18, <2>1, <2>2, GoodFirst
    <2> QED
      BY <1>13, <2>3
  <1>20. \A j \in Slots(h) \ {i} : H.peers[j].state # "DISCONNECTED" =>
           <<H.peers[j].addr, H.peers[j].cid>> # <<q.addr, q.cid>>
    <2>1. \A j \in Slots(h) : H.peers[j].cid \in Nat /\ H.peers[j].cid <= w.last
      BY <1>2 DEF GoodHost, GoodPeer, PeerRecord
    <2>2. \A j \in Slots(h) : H.peers[j].cid # n
      BY <1>3, <2>1
    <2> QED
      BY <1>19, <2>2
  <1>21. q.needs = H.peers[i].needs /\ (q.state \in Up <=> H.peers[i].state \in Up)
    BY <1>11, <1>19 DEF Up
  <1>22. PICK F : F = Put(H, i, q)
    OBVIOUS
  <1>23. GoodHost(h, Put(H, i, q), v, {})
    BY <1>8, <1>19, <1>20, <1>21, GoodPut
  <1>24. Update(h, F)
    <2>1. Update(h, [host[h] EXCEPT !.peers[i] = QueueReliable(r, c)])
      BY <1>2, <1>3, <1>10, <1>11, <1>12, <1>16 DEF Connect
    <2>2. F = [host[h] EXCEPT !.peers[i] = QueueReliable(r, c)]
      BY <1>2, <1>19, <1>22 DEF Put
    <2> QED
      BY <2>1, <2>2
  <1>25. PICK G : G = [F EXCEPT !.out = {}]
    OBVIOUS
  <1>26. /\ GoodHost(h, G, v, {}) /\ G.out = {}
         /\ F.out \subseteq DatagramRecord /\ \A d \in F.out : GoodDatagram(d, v)
    BY <1>22, <1>23, <1>25, WithoutOut
  <1>27. host = [g \in Hosts |-> host[g]] /\ host' = [host EXCEPT ![h] = G] /\ net' = net \cup F.out
    BY <1>24, <1>25 DEF IInv, Update
  <1>28. /\ host' = [g \in Hosts |-> host'[g]] /\ host'[h] = G
         /\ \A g \in Hosts : g # h => host'[g] = host[g]
    BY <1>27
  <1>29. lastID' = n /\ accepts' = accepts /\ restarts' = restarts /\ scenario' = scenario
    BY <1>3 DEF Connect
  <1>30. Good(v)'
    <2>1. /\ \A g \in Hosts : GoodHost(g, host[g], v, {}) /\ host[g].out = {}
          /\ net \subseteq DatagramRecord /\ \A d \in net : GoodDatagram(d, v)
          /\ v.callers = scenario.callers
      BY <1>1, <1>5, <1>7, LaterGood DEF Good
    <2> QED
      BY <1>5, <1>26, <1>27, <1>28, <1>29, <2>1 DEF Good
  <1> QED
    BY <1>28, <1>29, <1>30 DEF IInv

--------------------------------------------------------------------------------
(* The dispatch queue. *)

LEMMA GoodNeeds ==
  ASSUME NEW h \in Hosts, NEW w \in World, NEW i \in Slots(h),
         NEW H \in HostRecord(h), GoodHost(h, H, w, {}), H.peers[i].state = "CONNECTED"
  PROVE  GoodHost(h, NeedsDispatch(H, i), w, {})
  <1>1. PICK p \in PeerRecord : p = H.peers[i] /\ GoodPeer(h, p, w) /\ Settled(p, w)
    BY DEF GoodHost, GoodPeer
  <1>2. PICK A : A = NeedsDispatch(H, i)
    OBVIOUS
  <1>3. PICK r \in PeerRecord : r = WithNeeds(p) /\ Keeps(p, r, {"needs"})
    BY WithType
  <1>4. Becomes(h, H, A, i, r) /\ A.out = H.out
    BY <1>1, <1>2, <1>3, NeedsBecomes DEF GoodHost
  <1>5. /\ r.addr = p.addr /\ r.cid = p.cid /\ r.state = p.state /\ r.seq = p.seq
        /\ r.outID = p.outID /\ r.outS = p.outS /\ r.view = p.view
        /\ Queued(r) = Queued(p) /\ r.acks = p.acks
    BY <1>3 DEF Keeps, Fields, Queued
  <1>6. GoodPeer(h, r, w)
    BY <1>1, <1>5 DEF GoodPeer
  <1>7. Settled(r, w)
    BY <1>1, <1>5 DEF Settled, GoodView, Moving
  <1>8. GoodHost(h, A, w, {})
    <2>1. H.peers[i].state # "DISCONNECTED"
      OBVIOUS
    <2>2. r.addr = H.peers[i].addr /\ r.cid = H.peers[i].cid
      BY <1>1, <1>5
    <2>3. \A d \in A.out : d \in H.out
      BY <1>4
    <2> QED
      BY <1>4, <1>6, <1>7, <2>1, <2>2, <2>3, PeerStep
  <1> QED
    BY <1>2, <1>8

\* The peers in T, the first m of the dispatch queue, leave it.
Dropped(H, G, m, T) ==
    G = [H EXCEPT !.dispatch = SubSeq(H.dispatch, m + 1, Len(H.dispatch)),
                  !.peers = [j \in DOMAIN H.peers |->
                      IF j \in T THEN [H.peers[j] EXCEPT !.needs = FALSE] ELSE H.peers[j]]]

\* The first m peers leave the dispatch queue.  A zombie among them is no longer in it.
LEMMA GoodTaken ==
  ASSUME NEW h \in Hosts, NEW w \in World, NEW H \in HostRecord(h), GoodHost(h, H, w, {}),
         NEW m \in 1 .. Len(H.dispatch), NEW T, T = {H.dispatch[k] : k \in 1 .. m},
         NEW X, \A k \in 1 .. m : H.peers[H.dispatch[k]].state = "ZOMBIE" => H.dispatch[k] \in X,
         NEW G, Dropped(H, G, m, T)
  PROVE  /\ G \in HostRecord(h) /\ GoodHost(h, G, w, X)
         /\ \A j \in Slots(h) : Keeps(H.peers[j], G.peers[j], {"needs"})
  <1> DEFINE d == H.dispatch
             e == SubSeq(d, m + 1, Len(d))
  <1>1. d \in Seq(Slots(h)) /\ Len(d) \in Nat /\ \A k \in 1 .. Len(d) : d[k] \in Slots(h)
    BY LenProperties, ElementOfSeq DEF HostRecord
  <1>2. m \in Nat /\ 1 <= m /\ m <= Len(d)
    BY <1>1
  <1>3. /\ e \in Seq(Slots(h)) /\ Len(e) = Len(d) - m
        /\ \A k \in 1 .. Len(d) - m : e[k] = d[m + k]
    <2>1. \A k \in m + 1 .. Len(d) : d[k] \in Slots(h)
      BY <1>1, <1>2
    <2>2. /\ e \in Seq(Slots(h))
          /\ Len(e) = IF m + 1 <= Len(d) THEN Len(d) - (m + 1) + 1 ELSE 0
          /\ \A k \in 1 .. Len(d) - (m + 1) + 1 : e[k] = d[m + 1 + k - 1]
      BY <1>1, <1>2, <2>1, SubSeqProperties
    <2>3. Len(e) = Len(d) - m /\ Len(d) - (m + 1) + 1 = Len(d) - m
      BY <1>1, <1>2, <2>2
    <2>4. \A k \in 1 .. Len(d) - m : m + 1 + k - 1 = m + k
      BY <1>1, <1>2
    <2> QED
      BY <2>2, <2>3, <2>4
  <1>4. /\ G.dispatch = e /\ G.connected = H.connected /\ G.out = H.out /\ G.addr = H.addr
        /\ G.peers = [j \in Slots(h) |-> IF j \in T THEN [H.peers[j] EXCEPT !.needs = FALSE]
                                                    ELSE H.peers[j]]
        /\ G = [addr |-> G.addr, peers |-> G.peers, dispatch |-> G.dispatch,
                connected |-> G.connected, out |-> G.out]
    BY DEF Dropped, HostRecord
  <1> HIDE DEF d, e
  <1>5. ASSUME NEW j \in Slots(h)
        PROVE  /\ G.peers[j] \in PeerRecord /\ Keeps(H.peers[j], G.peers[j], {"needs"})
               /\ j \in T => ~G.peers[j].needs
               /\ j \notin T => G.peers[j] = H.peers[j]
    <2>1. H.peers[j] \in PeerRecord
      BY DEF HostRecord
    <2>2. CASE j \in T
      <3>1. PICK p \in PeerRecord : p = H.peers[j]
        BY <2>1
      <3>2. PICK q : q = [p EXCEPT !.needs = FALSE]
        OBVIOUS
      <3>3. q \in PeerRecord /\ Keeps(p, q, {"needs"})
        BY <3>2 DEF PeerRecord, Keeps, Fields
      <3>4. ~q.needs
        BY <3>2 DEF PeerRecord
      <3>5. G.peers[j] = q
        BY <1>4, <2>2, <3>1, <3>2
      <3> QED
        BY <2>2, <3>1, <3>3, <3>4, <3>5
    <2>3. CASE j \notin T
      <3>1. G.peers[j] = H.peers[j]
        BY <1>4, <2>3
      <3> QED
        BY <2>1, <2>3, <3>1 DEF Keeps
    <2> QED
      BY <2>2, <2>3
  <1>6. G \in HostRecord(h)
    <2>1. G.peers \in [Slots(h) -> PeerRecord]
      BY <1>4, <1>5
    <2> QED
      BY <1>3, <1>4, <2>1 DEF HostRecord
  <1>7. ASSUME NEW j \in Slots(h)
        PROVE  /\ G.peers[j].state = H.peers[j].state /\ G.peers[j].addr = H.peers[j].addr
               /\ G.peers[j].cid = H.peers[j].cid /\ G.peers[j].seq = H.peers[j].seq
               /\ G.peers[j].outID = H.peers[j].outID /\ G.peers[j].outS = H.peers[j].outS
               /\ G.peers[j].view = H.peers[j].view /\ G.peers[j].acks = H.peers[j].acks
               /\ G.peers[j].outR = H.peers[j].outR /\ G.peers[j].outU = H.peers[j].outU
               /\ G.peers[j].sent = H.peers[j].sent
    BY <1>5 DEF Keeps, Fields
  <1>8. Counted(h, G)
    <2>1. UpSlots(h, G) = UpSlots(h, H)
      BY <1>7 DEF UpSlots
    <2> QED
      BY <1>4, <2>1 DEF Counted, GoodHost, Shape
  <1>9. DispatchAgrees(h, G)
    <2>1. /\ \A j \in Slots(h) : H.peers[j].needs <=> InDispatch(H, j)
          /\ \A j, k \in 1 .. Len(d) : j # k => d[j] # d[k]
      BY DEF GoodHost, Shape, DispatchAgrees, d
    <2>2. \A k \in 1 .. Len(e) : m + k \in 1 .. Len(d) /\ e[k] = d[m + k] /\ m + k > m
      BY <1>1, <1>2, <1>3
    <2>3. \A k \in 1 .. Len(d) : k <= m \/ (k - m \in 1 .. Len(e) /\ e[k - m] = d[k])
      <3> SUFFICES ASSUME NEW k \in 1 .. Len(d), ~(k <= m)
                   PROVE  k - m \in 1 .. Len(e) /\ e[k - m] = d[k]
        OBVIOUS
      <3>1. k - m \in 1 .. Len(d) - m /\ m + (k - m) = k
        BY <1>1, <1>2
      <3> QED
        BY <1>3, <3>1
    <2>4. \A j, k \in 1 .. Len(e) : j # k => e[j] # e[k]
      <3>1. \A j, k \in 1 .. Len(e) : j # k => m + j # m + k
        BY <1>1, <1>2, <1>3
      <3> QED
        BY <2>1, <2>2, <3>1
    <2>5. T = {d[k] : k \in 1 .. m}
      BY DEF d
    <2>6. \A j \in T : ~InDispatch(G, j)
      <3> SUFFICES ASSUME NEW k \in 1 .. m, NEW l \in 1 .. Len(e), e[l] = d[k]
                   PROVE  FALSE
        <4>1. G.dispatch = e
          BY <1>4
        <4> QED
          BY <2>5, <4>1 DEF InDispatch
      <3>1. k \in 1 .. Len(d) /\ k # m + l
        BY <1>1, <1>2, <2>2
      <3> QED
        BY <2>1, <2>2, <3>1
    <2>7. \A j \in Slots(h) \ T : InDispatch(G, j) <=> InDispatch(H, j)
      <3> SUFFICES ASSUME NEW j \in Slots(h), j \notin T
                   PROVE  (\E k \in 1 .. Len(e) : e[k] = j) <=> (\E k \in 1 .. Len(d) : d[k] = j)
        BY <1>4 DEF InDispatch, d
      <3>1. \A k \in 1 .. Len(d) : k <= m => k \in 1 .. m
        BY <1>1, <1>2
      <3> QED
        BY <2>2, <2>3, <2>5, <3>1
    <2>8. ASSUME NEW j \in Slots(h)
          PROVE  G.peers[j].needs <=> InDispatch(G, j)
      <3>1. CASE j \in T
        BY <1>5, <2>6, <3>1
      <3>2. CASE j \notin T
        <4>1. G.peers[j] = H.peers[j]
          BY <1>5, <3>2
        <4> QED
          BY <2>1, <2>7, <3>2, <4>1
      <3> QED
        BY <3>1, <3>2
    <2>9. G.dispatch = e
      BY <1>4
    <2> QED
      BY <2>4, <2>8, <2>9 DEF DispatchAgrees
  <1>10. Distinct(h, G)
    BY <1>7 DEF Distinct, GoodHost
  <1>11. \A j \in Slots(h) : GoodPeer(h, G.peers[j], w)
    <2> SUFFICES ASSUME NEW j \in Slots(h)
                 PROVE  GoodPeer(h, G.peers[j], w)
      OBVIOUS
    <2>1. GoodPeer(h, H.peers[j], w)
      BY DEF GoodHost
    <2>2. Queued(G.peers[j]) = Queued(H.peers[j])
      BY <1>7 DEF Queued
    <2> QED
      BY <1>5, <1>7, <2>1, <2>2 DEF GoodPeer
  <1>12. ASSUME NEW j \in Slots(h) \ X
         PROVE  Settled(G.peers[j], w)
    <2>1. CASE j \notin T
      BY <1>5, <2>1 DEF GoodHost
    <2>2. CASE j \in T
      <3>1. H.peers[j].state # "ZOMBIE"
        BY <2>2
      <3>2. Settled(H.peers[j], w)
        BY DEF GoodHost
      <3> QED
        BY <1>7, <3>1, <3>2 DEF Settled, GoodView, Moving, NothingQueued, Waits
    <2> QED
      BY <2>1, <2>2
  <1> QED
    BY <1>4, <1>5, <1>6, <1>8, <1>9, <1>10, <1>11, <1>12 DEF GoodHost, Shape

LEMMA DispatchStep ==
  ASSUME IInv, NEW h \in Hosts, Dispatch(h)
  PROVE  IInv'
  <1>1. PICK w \in World : Good(w)
    BY DEF IInv
  <1>2. PICK H \in HostRecord(h) : H = host[h] /\ GoodHost(h, H, w, {})
    BY <1>1, HostOf
  <1>3. PICK q \in Seq(Slots(h)) : /\ q = H.dispatch /\ q # <<>> /\ Len(q) \in Nat /\ Len(q) > 0
                                   /\ \A k \in 1 .. Len(q) : q[k] \in Slots(h)
    <2>1. H.dispatch \in Seq(Slots(h)) /\ H.dispatch # <<>>
      BY <1>2 DEF Dispatch, HostRecord
    <2>2. Len(H.dispatch) \in Nat /\ Len(H.dispatch) # 0
      BY <2>1, EmptySeq, LenProperties
    <2>3. \A k \in 1 .. Len(H.dispatch) : H.dispatch[k] \in Slots(h)
      BY <2>1, ElementOfSeq
    <2> QED
      BY <2>1, <2>2, <2>3, SMTT(30)
  <1>4. PICK found : found = {k \in 1 .. Len(q) :
                               \/ H.peers[q[k]].state = "ZOMBIE"
                               \/ H.peers[q[k]].state = "CONNECTED" /\ H.peers[q[k]].inq > 0}
    OBVIOUS
  <1>5. PICK m : m = IF found = {} THEN Len(q) ELSE First(found)
    OBVIOUS
  <1>6. m \in 1 .. Len(q) /\ (found # {} => m \in found) /\ \A k \in found : m <= k
    <2>1. CASE found = {}
      BY <1>3, <1>5, <2>1
    <2>2. CASE found # {}
      <3>1. found \subseteq Nat /\ found \subseteq 1 .. Len(q)
        BY <1>4
      <3>2. m \in found /\ \A k \in found : m <= k
        BY <1>5, <2>2, <3>1, FirstIsIn
      <3> QED
        BY <3>1, <3>2
    <2> QED
      BY <2>1, <2>2
  <1>7. PICK T : T = {q[k] : k \in 1 .. m}
    OBVIOUS
  <1>8. PICK i \in Slots(h) : i = q[m]
    BY <1>3, <1>6
  <1>9. PICK G : G = [H EXCEPT !.dispatch = SubSeq(q, m + 1, Len(q)),
                               !.peers = [j \in DOMAIN H.peers |->
                                   IF j \in T THEN [H.peers[j] EXCEPT !.needs = FALSE]
                                   ELSE H.peers[j]]]
    OBVIOUS
  <1>10. PICK R : R = [G EXCEPT !.peers[i].inq = @ - 1]
    OBVIOUS
  <1>11. PICK F : F = CASE found = {} -> G
                        [] found # {} /\ G.peers[i].state = "ZOMBIE" ->
                             View(ResetPeer(G, i), i, "down")
                        [] OTHER -> IF R.peers[i].inq > 0 THEN NeedsDispatch(R, i) ELSE R
    OBVIOUS
  <1>12. Update(h, F)
    <2> DEFINE A == host[h]
               Reports(k) == \/ A.peers[A.dispatch[k]].state = "ZOMBIE"
                             \/ A.peers[A.dispatch[k]].state = "CONNECTED"
                                /\ A.peers[A.dispatch[k]].inq > 0
               found2 == {k \in 1 .. Len(A.dispatch) : Reports(k)}
               m2 == IF found2 = {} THEN Len(A.dispatch) ELSE First(found2)
               T2 == {A.dispatch[k] : k \in 1 .. m2}
               i2 == A.dispatch[m2]
               G2 == [A EXCEPT !.dispatch = SubSeq(A.dispatch, m2 + 1, Len(A.dispatch)),
                               !.peers = [j \in DOMAIN A.peers |->
                                   IF j \in T2 THEN [A.peers[j] EXCEPT !.needs = FALSE]
                                   ELSE A.peers[j]]]
               R2 == [G2 EXCEPT !.peers[i2].inq = @ - 1]
               F2 == CASE found2 = {} -> G2
                       [] found2 # {} /\ G2.peers[i2].state = "ZOMBIE" ->
                            View(ResetPeer(G2, i2), i2, "down")
                       [] OTHER -> IF R2.peers[i2].inq > 0 THEN NeedsDispatch(R2, i2) ELSE R2
    <2>1. Update(h, F2)
      BY Zenon DEF Dispatch
    <2> HIDE DEF A, found2, m2, T2, i2, G2, R2, F2
    <2>2. A = H /\ A.dispatch = q
      BY <1>2, <1>3 DEF A
    <2>3. found2 = found
      BY <1>4, <2>2 DEF found2
    <2>4. m2 = m
      BY <1>5, <2>2, <2>3 DEF m2
    <2>5. T2 = T /\ i2 = i
      BY <1>7, <1>8, <2>2, <2>4 DEF T2, i2
    <2>6. G2 = G
      BY <1>9, <2>2, <2>4, <2>5 DEF G2
    <2>7. R2 = R
      BY <1>10, <2>5, <2>6 DEF R2
    <2>8. F2 = F
      BY <1>11, <2>3, <2>5, <2>6, <2>7 DEF F2
    <2> QED
      BY <2>1, <2>8
  <1>13. PICK X : X = IF found = {} THEN {} ELSE IF H.peers[i].state = "ZOMBIE" THEN {i} ELSE {}
    OBVIOUS
  <1>14. \A k \in 1 .. m : H.peers[q[k]].state = "ZOMBIE" => q[k] \in X
    <2> SUFFICES ASSUME NEW k \in 1 .. m, H.peers[q[k]].state = "ZOMBIE"
                 PROVE  q[k] \in X
      OBVIOUS
    <2>1. k \in 1 .. Len(q) /\ k <= m /\ k \in Int /\ m \in Int
      BY <1>3, <1>6
    <2>2. k \in found /\ found # {}
      BY <1>4, <2>1
    <2>3. k = m
      BY <1>6, <2>1, <2>2
    <2> QED
      BY <1>8, <1>13, <2>2, <2>3
  <1>15. /\ G \in HostRecord(h) /\ GoodHost(h, G, w, X)
         /\ \A j \in Slots(h) : Keeps(H.peers[j], G.peers[j], {"needs"})
    <2>1. Dropped(H, G, m, T)
      BY <1>3, <1>9 DEF Dropped
    <2>2. m \in 1 .. Len(H.dispatch) /\ T = {H.dispatch[k] : k \in 1 .. m}
      BY <1>3, <1>6, <1>7
    <2>3. \A k \in 1 .. m : H.peers[H.dispatch[k]].state = "ZOMBIE" => H.dispatch[k] \in X
      BY <1>3, <1>14
    <2> QED
      BY <1>2, <2>1, <2>2, <2>3, GoodTaken
  <1>16. G.peers[i].state = H.peers[i].state /\ G.peers[i].inq = H.peers[i].inq
    BY <1>15 DEF Keeps, Fields
  <1>17. GoodHost(h, F, w, {})
    <2>1. CASE found = {}
      <3>1. F = G /\ X = {}
        BY <1>11, <1>13, <2>1
      <3> QED
        BY <1>15, <3>1
    <2>2. CASE found # {} /\ G.peers[i].state = "ZOMBIE"
      <3>1. F = View(ResetPeer(G, i), i, "down") /\ X \ {i} = {}
        BY <1>11, <1>13, <1>16, <2>2
      <3>2. GoodHost(h, View(ResetPeer(G, i), i, "down"), w, X \ {i})
        BY <1>15, GoodDrop
      <3> QED
        BY <3>1, <3>2
    <2>3. CASE found # {} /\ G.peers[i].state # "ZOMBIE"
      <3>1. H.peers[i].state = "CONNECTED" /\ H.peers[i].inq > 0
        <4>1. m \in found /\ q[m] = i
          BY <1>6, <1>8, <2>3
        <4>2. H.peers[i].state # "ZOMBIE"
          BY <1>16, <2>3
        <4> QED
          BY <1>4, <4>1, <4>2
      <3>2. GoodHost(h, G, w, {})
        BY <1>13, <1>15, <2>3, <3>1
      <3>3. PICK p \in PeerRecord : p = G.peers[i] /\ GoodPeer(h, p, w) /\ Settled(p, w)
        BY <3>2 DEF GoodHost, GoodPeer
      <3>4. p.state = "CONNECTED" /\ p.inq \in Nat /\ p.inq > 0
        BY <1>16, <3>1, <3>3 DEF PeerRecord
      <3>5. PICK n \in Nat : n = p.inq - 1
        BY <3>4
      <3>6. PICK r : r = [p EXCEPT !.inq = n]
        OBVIOUS
      <3>7. r \in PeerRecord /\ Keeps(p, r, {"inq"})
        BY <3>6 DEF PeerRecord, Keeps, Fields
      <3>8. /\ r.addr = p.addr /\ r.cid = p.cid /\ r.state = p.state /\ r.seq = p.seq
            /\ r.outID = p.outID /\ r.outS = p.outS /\ r.view = p.view
            /\ Queued(r) = Queued(p) /\ r.acks = p.acks
        BY <3>7 DEF Keeps, Fields, Queued
      <3>9. r.needs = G.peers[i].needs
        BY <3>3, <3>7 DEF Keeps, Fields
      <3>10. GoodPeer(h, r, w)
        BY <3>3, <3>7, <3>8 DEF GoodPeer
      <3>11. Settled(r, w)
        BY <3>3, <3>4, <3>8 DEF Settled, GoodView, Moving
      <3>12. /\ r.state \in Up <=> G.peers[i].state \in Up
             /\ G.peers[i].state # "DISCONNECTED"
             /\ r.addr = G.peers[i].addr /\ r.cid = G.peers[i].cid
        BY <3>3, <3>4, <3>8
      <3>13. /\ GoodHost(h, Put(G, i, r), w, {}) /\ Put(G, i, r).peers[i] = r
             /\ Put(G, i, r) \in HostRecord(h)
        BY <1>15, <3>2, <3>7, <3>9, <3>10, <3>11, <3>12, GoodPut
      <3>14. R = Put(G, i, r)
        <4>1. G.peers \in [Slots(h) -> PeerRecord]
          BY <1>15 DEF HostRecord
        <4> QED
          BY <1>10, <3>3, <3>5, <3>6, <4>1 DEF Put
      <3>15. GoodHost(h, R, w, {}) /\ R \in HostRecord(h) /\ R.peers[i].state = "CONNECTED"
        BY <3>4, <3>8, <3>13, <3>14
      <3>16. GoodHost(h, NeedsDispatch(R, i), w, {})
        BY <3>15, GoodNeeds
      <3>17. F = IF R.peers[i].inq > 0 THEN NeedsDispatch(R, i) ELSE R
        BY <1>11, <2>3
      <3> QED
        BY <3>15, <3>16, <3>17
    <2> QED
      BY <2>1, <2>2, <2>3
  <1> QED
    BY <1>1, <1>12, <1>17, GoodUpdate DEF Dispatch, IInv

LEMMA StutterStep ==
  ASSUME IInv, UNCHANGED vars
  PROVE  IInv'
  <1>1. PICK w \in World : Good(w)
    BY DEF IInv
  <1>2. /\ host' = host /\ net' = net /\ lastID' = lastID /\ accepts' = accepts
        /\ restarts' = restarts /\ scenario' = scenario
    BY DEF vars
  <1>3. Good(w)'
    BY <1>1, <1>2 DEF Good
  <1> QED
    BY <1>2, <1>3 DEF IInv

LEMMA NextGood == IInv /\ [Next]_vars => IInv'
  <1> SUFFICES ASSUME IInv, [Next]_vars
               PROVE  IInv'
    OBVIOUS
  <1>1. CASE Receive
    BY <1>1, ReceiveStep
  <1>2. ASSUME NEW h \in Hosts, Application(h)
        PROVE  IInv'
    <2>1. CASE h \in scenario.callers /\ \E to \in Hosts \ {h} : Connect(h, to)
      BY <2>1, ConnectStep
    <2>2. ASSUME NEW i \in Slots(h), Ping(h, i) \/ SendPacket(h, i) \/ Reset(h, i)
          PROVE  IInv'
      BY <2>2, PingStep, SendPacketStep, ResetStep
    <2>3. ASSUME NEW i \in Slots(h), NEW pings,
                 \/ Disconnect(h, i, pings)
                 \/ DisconnectLater(h, i, pings)
                 \/ DisconnectNow(h, i, pings)
          PROVE  IInv'
      BY <2>3, DisconnectStep, DisconnectLaterStep, DisconnectNowStep
    <2>4. ASSUME NEW pings, Restart(h, pings)
          PROVE  IInv'
      BY <2>4, RestartStep
    <2> QED
      BY <1>2, <2>1, <2>2, <2>3, <2>4 DEF Application
  <1>3. ASSUME NEW h \in Hosts, Service(h)
        PROVE  IInv'
    BY <1>3, SendOutgoingStep, TimeoutStep, DispatchStep DEF Service
  <1>4. CASE UNCHANGED vars
    BY <1>4, StutterStep
  <1> QED
    BY <1>1, <1>2, <1>3, <1>4 DEF Next

--------------------------------------------------------------------------------
(* The theorems. *)

\* Every function of enet/peer.cpp and enet/protocol.cpp that changes a peer leaves the
\* inductive invariant true.
LEMMA Invariance == Spec => []IInv
  <1>1. Init => IInv
    BY InitGood
  <1>2. IInv /\ [Next]_vars => IInv'
    BY NextGood
  <1> QED
    BY <1>1, <1>2, PTL DEF Spec

LEMMA TypesHold == IInv => TypeOK
  <1> SUFFICES ASSUME IInv
               PROVE  TypeOK
    OBVIOUS
  <1>1. PICK w \in World : Good(w)
    BY DEF IInv
  <1>2. ASSUME NEW h \in Hosts
        PROVE  /\ host[h].addr = h /\ host[h].out = {}
               /\ host[h].dispatch \in Seq(Slots(h))
               /\ host[h].connected \in 0 .. PeerCount[h]
    <2>1. host[h] \in HostRecord(h) /\ host[h].out = {}
      BY <1>1, HostOf
    <2>2. host[h].connected = Cardinality(UpSlots(h, host[h]))
      BY <1>1, HostOf DEF GoodHost, Shape, Counted
    <2> QED
      BY <2>1, <2>2, UpFinite DEF HostRecord
  <1>3. ASSUME NEW h \in Hosts, NEW i \in Slots(h)
        PROVE  LET p == host[h].peers[i] IN
               /\ p.state \in States /\ p.addr \in Hosts \cup {NoHost}
               /\ p.outID \in Nat /\ {p.inS, p.outS} \subseteq (0 .. 3) \cup {NoSession}
               /\ {p.cid, p.seq, p.inq, p.tries} \subseteq Nat
               /\ p.outR \cup p.outU \cup p.sent \subseteq Commands
               /\ p.acks \subseteq [type : {"VERIFY", "PING", "DISCONNECT"}, seq : Nat]
               /\ p.needs \in BOOLEAN
               /\ p.view \in {"down", "trying", "up"}
    <2>1. PICK p \in PeerRecord : p = host[h].peers[i]
      BY <1>1, HostOf
    <2>2. p.needs \in BOOLEAN
      BY DEF PeerRecord
    <2>3. /\ p.state \in States /\ p.addr \in Hosts \cup {NoHost}
          /\ p.outID \in Nat /\ {p.inS, p.outS} \subseteq (0 .. 3) \cup {NoSession}
          /\ {p.cid, p.seq, p.inq, p.tries} \subseteq Nat
          /\ p.outR \cup p.outU \cup p.sent \subseteq Commands
          /\ p.acks \subseteq [type : {"VERIFY", "PING", "DISCONNECT"}, seq : Nat]
          /\ p.view \in {"down", "trying", "up"}
      BY DEF PeerRecord, Sessions, AckRecord
    <2> QED
      BY <2>1, <2>2, <2>3
  <1>4. ASSUME NEW d \in net
        PROVE  /\ {d.src, d.dst} \subseteq Hosts /\ d.peerID \in Nat
               /\ d.session \in 0 .. 3 /\ d.cmd \in Commands
    <2>1. d \in DatagramRecord
      BY <1>1 DEF Good
    <2> QED
      BY <2>1 DEF DatagramRecord, Sessions
  <1>5. {lastID, accepts, restarts} \subseteq Nat
    BY DEF IInv
  <1> QED
    BY <1>2, <1>3, <1>4, <1>5 DEF TypeOK

LEMMA CountsHold == IInv => DispatchOnce /\ ConnectedCount
  <1> SUFFICES ASSUME IInv
               PROVE  DispatchOnce /\ ConnectedCount
    OBVIOUS
  <1>1. PICK w \in World : Good(w)
    BY DEF IInv
  <1>2. \A h \in Hosts : Counted(h, host[h]) /\ DispatchAgrees(h, host[h])
    BY <1>1, HostOf DEF GoodHost, Shape
  <1>3. DispatchOnce
    BY <1>2 DEF DispatchOnce, DispatchAgrees, InDispatch
  <1>4. ConnectedCount
    BY <1>2 DEF ConnectedCount, Counted, UpSlots
  <1> QED
    BY <1>3, <1>4

LEMMA ViewsHold == IInv => ViewMatches
  <1> SUFFICES ASSUME IInv, NEW h \in Hosts, NEW i \in Slots(h)
               PROVE  LET p == host[h].peers[i] IN
                      CASE p.state \in {"DISCONNECTED", "ACKNOWLEDGING_CONNECT"} ->
                              p.view = "down"
                        [] p.state = "CONNECTING" -> p.view = "trying"
                        [] p.state = "ZOMBIE" -> p.view \in {"up", "trying"}
                        [] OTHER -> p.view = "up"
    BY DEF ViewMatches
  <1>1. PICK w \in World : Good(w)
    BY DEF IInv
  <1>2. PICK p \in PeerRecord : p = host[h].peers[i] /\ Settled(p, w)
    BY <1>1, HostOf
  <1>3. p.state \in States
    BY DEF PeerRecord
  <1>4. GoodView(p)
    BY <1>2 DEF Settled
  <1>5. CASE p.state \in {"DISCONNECTED", "ACKNOWLEDGING_CONNECT"}
    BY <1>2, <1>4, <1>5 DEF GoodView
  <1>6. CASE p.state = "CONNECTING"
    BY <1>2, <1>4, <1>6 DEF GoodView
  <1>7. CASE p.state = "ZOMBIE"
    BY <1>2, <1>4, <1>7 DEF GoodView
  <1>8. CASE p.state \in Up \cup {"DISCONNECTING", "ACKNOWLEDGING_DISCONNECT"}
    BY <1>2, <1>4, <1>8 DEF GoodView, Up
  <1> QED
    BY <1>3, <1>5, <1>6, <1>7, <1>8 DEF States, Up

LEMMA MovingHolds == IInv => NoLimbo
  <1> SUFFICES ASSUME IInv
               PROVE  NoLimbo
    OBVIOUS
  <1>1. PICK w \in World : Good(w)
    BY DEF IInv
  <1>2. w.callers = scenario.callers
    BY <1>1 DEF Good
  <1>3. \A h \in Hosts : \A i \in Slots(h) : Moving(host[h].peers[i], w)
    BY <1>1, HostOf DEF Settled
  <1> QED
    BY <1>2, <1>3 DEF NoLimbo, Moving, Waits

LEMMA DistinctHolds == IInv => AcceptedOnce
  <1> SUFFICES ASSUME IInv
               PROVE  AcceptedOnce
    OBVIOUS
  <1>1. PICK w \in World : Good(w)
    BY DEF IInv
  <1>2. \A h \in Hosts : Distinct(h, host[h])
    BY <1>1, HostOf DEF GoodHost
  <1> QED
    BY <1>2 DEF AcceptedOnce, Distinct

\* What a host keeps of its peers agrees with them after every function of enet/peer.cpp
\* and every handler of enet/protocol.cpp: their types, host->connectedPeers, which
\* enet_peer_on_connect() and enet_peer_on_disconnect() count, and the dispatchQueue.
THEOREM ConnectionInvariant == Spec => []ConnectionInv
  <1>1. IInv => ConnectionInv
    BY TypesHold, CountsHold DEF ConnectionInv
  <1> QED
    BY <1>1, Invariance, PTL

\* The events that enet_protocol_notify_connect(), enet_protocol_notify_disconnect() and
\* enet_protocol_dispatch_incoming_commands() hand to the application tell it the truth:
\* for each peer CONNECT and DISCONNECT alternate, and none is missed or repeated.
THEOREM ViewsMatch == Spec => []ViewMatches
  <1>1. IInv => ViewMatches
    BY ViewsHold
  <1> QED
    BY <1>1, Invariance, PTL

\* A peer between two states of ENetPeerState holds what will get it out of there: the
\* command that enet_protocol_check_timeouts() will give up on, the acknowledgement that
\* makes it a zombie, or its place in the dispatchQueue.  Excepted is a CONNECTING peer
\* that calls a host which also calls: the acknowledgement of an earlier VERIFY_CONNECT
\* may have removed its CONNECT (enet/protocol.cpp:883).
THEOREM NoPeerInLimbo == Spec => []NoLimbo
  <1>1. IInv => NoLimbo
    BY MovingHolds
  <1> QED
    BY <1>1, Invariance, PTL

\* enet_protocol_handle_connect() never gives two peers to one connectID of one host,
\* however often the request is received and whatever was disconnected in between.
THEOREM AcceptsOnce == Spec => []AcceptedOnce
  <1>1. IInv => AcceptedOnce
    BY DistinctHolds
  <1> QED
    BY <1>1, Invariance, PTL

================================================================================
