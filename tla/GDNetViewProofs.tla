---------------------------- MODULE GDNetViewProofs ----------------------------
(***************************************************************************)
(* Proofs about GDNetView, for any number of peers, connections, messages  *)
(* and bindings, and queues of any length: a script that reads its events  *)
(* knows the peers, as far as no event was lost.                           *)
(*                                                                         *)
(* Connections are numbered in the order in which they begin.  Along the   *)
(* events of one peer the numbers grow, each connection begins before it   *)
(* ends, and what the script knows lies before the events that wait, which *)
(* lie before what the peer stands for now (Ordered).  So a connection     *)
(* that the script still takes for open either is the current one, or its  *)
(* end waits in the queue, or an operation of the script struck it         *)
(* (Accounted).                                                            *)
(***************************************************************************)
EXTENDS GDNetView, SequenceTheorems, TLAPS

States == Up \union {"DISCONNECTED", "CONNECTING", "ACKNOWLEDGING_CONNECT", "DISCONNECTING"}
Kinds == {"CONNECT", "DISCONNECT", "RECEIVE"}
Slot == [state : States, conn : Connections]
Event == [slot : Slots, kind : Kinds, conn : Connections]
Message == [slot : Slots, conn : Connections]

Attempt == {"CONNECTING", "ACKNOWLEDGING_CONNECT"}
Live == Up \union {"DISCONNECTING"}

Waiting == 1 .. Len(evs)

\* Types of all variables, and a host that is not bound.
Types ==
  /\ bound \in BOOLEAN /\ bindings \in 0 .. MaxBindings
  /\ slots \in [Slots -> Slot]
  /\ evs \in Seq(Event) /\ Len(evs) <= QueueCap
  /\ msgs \in Seq(Message) /\ Len(msgs) <= QueueCap
  /\ view \in [Slots -> Connections]
  /\ used \in Connections /\ lost \in BOOLEAN
  /\ ~bound => /\ evs = <<>> /\ msgs = <<>>
               /\ slots = [p \in Slots |-> FreshSlot]
               /\ view = [p \in Slots |-> None]
  /\ meant \subseteq Connections /\ struck \subseteq Connections /\ astray \subseteq Connections

\* A connection belongs to one peer.
OwnedBy(own) ==
  /\ \A p \in Slots : slots[p].conn # None => own[slots[p].conn] = p /\ slots[p].conn <= used
  /\ \A i \in Waiting : /\ evs[i].conn # None /\ evs[i].conn <= used
                        /\ own[evs[i].conn] = evs[i].slot
  /\ \A p \in Slots : view[p] # None => own[view[p]] = p /\ view[p] <= used
  /\ \A i \in 1 .. Len(msgs) : /\ msgs[i].conn # None /\ msgs[i].conn <= used
                               /\ own[msgs[i].conn] = msgs[i].slot

Owned == \E own \in [Connections -> 0 .. PeerCount] : OwnedBy(own)

\* The events of one peer, in their order.
InOrder ==
  \A i, j \in Waiting : i < j /\ evs[i].slot = evs[j].slot =>
     /\ evs[i].conn <= evs[j].conn
     /\ evs[i].conn = evs[j].conn => evs[i].kind # "DISCONNECT" /\ evs[j].kind # "CONNECT"

\* They lie between what the script knows and what the peer stands for.
Between ==
  \A i \in Waiting :
     LET e == evs[i] IN
     /\ e.conn <= slots[e.slot].conn
     /\ e.conn = slots[e.slot].conn => slots[e.slot].state \notin Attempt
     /\ e.conn = slots[e.slot].conn /\ e.kind = "DISCONNECT" => slots[e.slot].state = "DISCONNECTED"
     /\ view[e.slot] <= e.conn
     /\ view[e.slot] = e.conn => e.kind # "CONNECT"

\* What the script knows is not newer than what the peer stands for.
Behind ==
  \A p \in Slots :
     /\ view[p] <= slots[p].conn
     /\ view[p] = slots[p].conn => slots[p].state \notin Attempt
     /\ slots[p].state # "DISCONNECTED" => slots[p].conn # None

Ordered == InOrder /\ Between /\ Behind

\* The beginning of a connection that the script has heard of is no news.
Old(v) ==
  /\ v \in 1 .. used
  /\ \A i \in Waiting : evs[i].kind = "CONNECT" => evs[i].conn # v
  /\ \A p \in Slots : slots[p].state \in Attempt => slots[p].conn # v

Heard ==
  /\ \A v \in meant \union astray : Old(v)
  /\ \A p \in Slots : view[p] # None => Old(view[p])
  /\ \A i \in 1 .. Len(msgs) : Old(msgs[i].conn)

Current(p, v) == slots[p].conn = v /\ slots[p].state \in Live
Begins(p, v) == \E i \in Waiting : evs[i].slot = p /\ evs[i].kind = "CONNECT" /\ evs[i].conn = v
Ends(p, v) == \E i \in Waiting : evs[i].slot = p /\ evs[i].kind = "DISCONNECT" /\ evs[i].conn = v

\* What became of a connection that the script takes for open, or soon will.
KnownOpen == \A p \in Slots : view[p] # None =>
  Current(p, view[p]) \/ Ends(p, view[p]) \/ view[p] \in struck \ meant

SoonOpen == \A i \in Waiting : evs[i].kind = "CONNECT" =>
  \/ Current(evs[i].slot, evs[i].conn) \/ Ends(evs[i].slot, evs[i].conn)
  \/ evs[i].conn \in struck

\* A connection that is open is known, or its beginning waits.
OpenKnown == \A p \in Slots : slots[p].state \in Live =>
  view[p] = slots[p].conn \/ Begins(p, slots[p].conn)

\* So it is with one that packets come from, unless it was reset.
ReceiveKnown == \A i \in Waiting : evs[i].kind = "RECEIVE" =>
  \/ view[evs[i].slot] = evs[i].conn \/ evs[i].conn \in meant
  \/ \E j \in Waiting : /\ j < i /\ evs[j].slot = evs[i].slot
                        /\ evs[j].kind = "CONNECT" /\ evs[j].conn = evs[i].conn

AstrayKnown == \A k \in astray :
  \/ \A p \in Slots : view[p] # k
  \/ \E p \in Slots : Ends(p, k)
  \/ k \in struck \ meant

Accounted == ~lost => KnownOpen /\ SoonOpen /\ OpenKnown /\ ReceiveKnown /\ AstrayKnown

IInv == Types /\ Owned /\ Ordered /\ Heard /\ Accounted

--------------------------------------------------------------------------------
(* The queue of events. *)

LEMMA EventTypes ==
  ASSUME Types
  PROVE  /\ Len(evs) \in Nat
         /\ \A i \in Waiting : evs[i].slot \in Slots /\ evs[i].kind \in Kinds /\ evs[i].conn \in Nat
  <1>1. Len(evs) \in Nat /\ \A i \in Waiting : evs[i] \in Event
    BY LenProperties, ElementOfSeq DEF Types, Waiting
  <1> QED
    BY <1>1, ViewAssumption DEF Event, Connections

LEMMA SlotTypes ==
  ASSUME Types, NEW p \in Slots
  PROVE  slots[p].state \in States /\ slots[p].conn \in Nat /\ view[p] \in Nat
  BY ViewAssumption DEF Types, Slot, Connections

\* push() of the event of a peer: it is lost, or the last one now.
LEMMA Raised ==
  ASSUME Types, NEW p \in Slots, NEW kind \in Kinds, Raise(p, kind)
  PROVE  /\ evs' \in Seq(Event) /\ Len(evs') <= QueueCap /\ lost' \in BOOLEAN
         /\ lost => lost'
         /\ \/ evs' = evs /\ lost'
            \/ /\ Len(evs') = Len(evs) + 1
               /\ \A i \in Waiting : evs'[i] = evs[i]
               /\ evs'[Len(evs')].slot = p /\ evs'[Len(evs')].kind = kind
               /\ evs'[Len(evs')].conn = slots[p].conn
  <1> DEFINE e == [slot |-> p, kind |-> kind, conn |-> slots[p].conn]
  <1>1. e \in Event /\ e.slot = p /\ e.kind = kind /\ e.conn = slots[p].conn
    BY DEF Types, Slot, Event
  <1>2. Len(evs) \in Nat /\ evs \in Seq(Event) /\ Len(evs) <= QueueCap /\ lost \in BOOLEAN
    BY EventTypes DEF Types
  <1>3. /\ evs' = (IF Len(evs) < QueueCap THEN Append(evs, e) ELSE evs)
        /\ lost' = (lost \/ Len(evs) = QueueCap)
    BY DEF Raise
  <1> HIDE DEF e
  <1>4. lost' \in BOOLEAN /\ (lost => lost')
    BY <1>3, Zenon
  <1>5. CASE Len(evs) < QueueCap
    <2>1. /\ Append(evs, e) \in Seq(Event) /\ Len(Append(evs, e)) = Len(evs) + 1
          /\ \A i \in Waiting : Append(evs, e)[i] = evs[i]
          /\ Append(evs, e)[Len(evs) + 1] = e
      BY <1>1, <1>2, AppendProperties DEF Waiting
    <2>2. evs' = Append(evs, e)
      BY <1>3, <1>5
    <2>3. evs' \in Seq(Event) /\ Len(evs') = Len(evs) + 1 /\ Len(evs') <= QueueCap
      BY <1>2, <1>5, <2>1, <2>2, ViewAssumption
    <2> QED
      BY <1>1, <1>4, <2>1, <2>2, <2>3
  <1>6. CASE ~(Len(evs) < QueueCap)
    <2>1. evs' = evs
      BY <1>3, <1>6
    <2>2. Len(evs) = QueueCap
      BY <1>2, <1>6, ViewAssumption
    <2>3. lost'
      BY <1>3, <2>2, Zenon
    <2> QED
      BY <1>2, <1>4, <2>1, <2>3
  <1> QED
    BY <1>5, <1>6

\* pop() of an event.
LEMMA Popped ==
  ASSUME Types, evs # <<>>, evs' = Tail(evs)
  PROVE  /\ 1 \in Waiting /\ Head(evs) = evs[1]
         /\ evs' \in Seq(Event) /\ Len(evs') = Len(evs) - 1
         /\ \A i \in Waiting' : i + 1 \in Waiting /\ evs'[i] = evs[i + 1]
         /\ \A i \in Waiting : i = 1 \/ (i - 1 \in Waiting' /\ evs[i] = evs'[i - 1])
  <1>1. evs \in Seq(Event) /\ Len(evs) \in Nat \ {0}
    BY EmptySeq, EventTypes DEF Types
  <1>2. /\ Tail(evs) \in Seq(Event) /\ Len(Tail(evs)) = Len(evs) - 1
        /\ \A i \in 1 .. Len(Tail(evs)) : Tail(evs)[i] = evs[i + 1]
    BY <1>1, HeadTailProperties
  <1> QED
    BY <1>1, <1>2 DEF Waiting

--------------------------------------------------------------------------------
(* One lemma for each action or kind of action. *)

\* enet_host_connect() and enet_protocol_handle_connect().
LEMMA ClaimKeeps ==
  ASSUME IInv, NEW p \in Slots, NEW s \in Attempt, Claim(p, s),
         UNCHANGED <<bound, bindings, evs, msgs, view, lost, astray, sent, resets>>
  PROVE  IInv'
  <1> USE DEF IInv
  <1>1. /\ used \in Nat /\ used' = used + 1 /\ used' \in Connections
        /\ slots'[p].state = s /\ slots'[p].conn = used + 1
        /\ \A q \in Slots : q # p => slots'[q] = slots[q]
        /\ slots' \in [Slots -> Slot]
        /\ UNCHANGED <<evs, msgs, view, lost, astray, meant, struck, Waiting>>
    BY ViewAssumption DEF Claim, Types, Connections, Slot, Attempt, States, resets, Waiting
  <1>2. Len(evs) \in Nat
        /\ \A i \in Waiting : evs[i].slot \in Slots /\ evs[i].conn \in Nat
    BY EventTypes
  <1>3. \A q \in Slots : slots[q].state \in States /\ slots[q].conn \in Nat /\ view[q] \in Nat
    BY SlotTypes
  <1>4. Types'
    BY <1>1 DEF Types, Claim, resets
  <1>5. PICK own \in [Connections -> 0 .. PeerCount] : OwnedBy(own)
    BY DEF Owned
  <1>6. /\ \A q \in Slots : slots[q].conn <= used /\ view[q] <= used
        /\ \A i \in Waiting : evs[i].conn <= used
    BY <1>1, <1>3, <1>5 DEF OwnedBy, None
  <1>7. \A i \in 1 .. Len(msgs) : msgs[i].conn \in Nat
    <2>1. \A i \in 1 .. Len(msgs) : msgs[i] \in Message
      BY ElementOfSeq DEF Types
    <2> QED
      BY <2>1, ViewAssumption DEF Message, Connections
  <1>8. Owned'
    <2>1. PICK new \in [Connections -> 0 .. PeerCount] :
             new[used + 1] = p /\ \A c \in Nat : c <= used => new[c] = own[c]
      <3> DEFINE f == [own EXCEPT ![used + 1] = p]
      <3>1. f \in [Connections -> 0 .. PeerCount] /\ f[used + 1] = p
            /\ \A c \in Nat : c <= used => f[c] = own[c]
        BY <1>1, ViewAssumption DEF Slots, Connections
      <3> QED
        BY <3>1
    <2>2. OwnedBy(new)'
      <3>1. \A q \in Slots : slots'[q].conn # None =>
               new[slots'[q].conn] = q /\ slots'[q].conn <= used'
        BY <1>1, <1>3, <1>5, <1>6, <2>1 DEF OwnedBy
      <3>2. \A i \in Waiting : /\ evs[i].conn # None /\ evs[i].conn <= used'
                               /\ new[evs[i].conn] = evs[i].slot
        BY <1>1, <1>2, <1>5, <2>1 DEF OwnedBy
      <3>3. \A q \in Slots : view[q] # None => new[view[q]] = q /\ view[q] <= used'
        BY <1>1, <1>3, <1>5, <2>1 DEF OwnedBy
      <3>4. \A i \in 1 .. Len(msgs) : /\ msgs[i].conn # None /\ msgs[i].conn <= used'
                                      /\ new[msgs[i].conn] = msgs[i].slot
        BY <1>1, <1>5, <1>7, <2>1 DEF OwnedBy
      <3> QED
        BY <1>1, <3>1, <3>2, <3>3, <3>4 DEF OwnedBy
    <2> QED
      BY <2>1, <2>2 DEF Owned
  <1>9. Ordered'
    <2>1. Between'
      BY <1>1, <1>2, <1>3, <1>6 DEF Ordered, Between
    <2>2. Behind'
      BY <1>1, <1>3, <1>6 DEF Ordered, Behind, None
    <2>3. InOrder'
      BY <1>1 DEF Ordered, InOrder
    <2> QED
      BY <2>1, <2>2, <2>3 DEF Ordered
  <1>10. \A v : Old(v) => Old(v)'
    BY <1>1 DEF Old
  <1>11. Heard'
    BY <1>1, <1>10 DEF Heard
  <1>12. /\ \A q \in Slots : \A v : Current(q, v) => Current(q, v)' \/ q = p
         /\ \A q \in Slots : \A v : Begins(q, v) = Begins(q, v)' /\ Ends(q, v) = Ends(q, v)'
         /\ ~(slots[p].state \in Live) /\ ~(slots'[p].state \in Live)
    BY <1>1 DEF Current, Begins, Ends, Claim, Free, Live, Up, Attempt
  <1>13. Accounted'
    <2> SUFFICES ASSUME ~lost PROVE (KnownOpen /\ SoonOpen /\ OpenKnown /\ ReceiveKnown /\ AstrayKnown)'
      BY <1>1 DEF Accounted
    <2>1. KnownOpen'
      BY <1>1, <1>12 DEF Accounted, KnownOpen, Current
    <2>2. SoonOpen'
      BY <1>1, <1>2, <1>12 DEF Accounted, SoonOpen, Current
    <2>3. OpenKnown'
      BY <1>1, <1>12 DEF Accounted, OpenKnown
    <2>4. ReceiveKnown'
      BY <1>1 DEF Accounted, ReceiveKnown
    <2>5. AstrayKnown'
      BY <1>1, <1>12 DEF Accounted, AstrayKnown
    <2> QED
      BY <2>1, <2>2, <2>3, <2>4, <2>5
  <1> QED
    BY <1>4, <1>8, <1>9, <1>11, <1>13

\* Only the state of a peer changes, and it stays open or stays not open.
LEMMA StateKeeps ==
  ASSUME IInv, NEW p \in Slots, NEW s \in States \ Attempt,
         slots' = [slots EXCEPT ![p].state = s],
         slots[p].state \in Live <=> s \in Live,
         slots[p].state = "DISCONNECTED" => s = "DISCONNECTED",
         bound, UNCHANGED <<bound, bindings, evs, msgs, view, used, lost, astray, sent, resets>>
  PROVE  IInv'
  <1> USE DEF IInv
  <1>1. /\ slots'[p].state = s /\ slots'[p].conn = slots[p].conn
        /\ \A q \in Slots : q # p => slots'[q] = slots[q]
        /\ slots' \in [Slots -> Slot]
        /\ UNCHANGED <<evs, msgs, view, used, lost, astray, meant, struck, Waiting>>
    BY DEF Types, Slot, resets, Waiting
  <1>2. \A i \in Waiting : evs[i].slot \in Slots
    BY EventTypes
  <1>3. Types'
    BY <1>1 DEF Types, resets
  <1>4. Owned'
    <2>1. PICK own \in [Connections -> 0 .. PeerCount] : OwnedBy(own)
      BY DEF Owned
    <2>2. OwnedBy(own)'
      BY <1>1, <2>1 DEF OwnedBy
    <2> QED
      BY <2>2 DEF Owned
  <1>5. Ordered'
    <2>1. Between'
      BY <1>1, <1>2 DEF Ordered, Between
    <2>2. Behind'
      BY <1>1 DEF Ordered, Behind
    <2>3. InOrder'
      BY <1>1 DEF Ordered, InOrder
    <2> QED
      BY <2>1, <2>2, <2>3 DEF Ordered
  <1>6. \A v : Old(v) => Old(v)'
    BY <1>1 DEF Old
  <1>7. Heard'
    BY <1>1, <1>6 DEF Heard
  <1>8. /\ \A q \in Slots : \A v : Current(q, v) => Current(q, v)'
        /\ \A q \in Slots : \A v : (Begins(q, v) => Begins(q, v)') /\ (Ends(q, v) => Ends(q, v)')
        /\ \A q \in Slots : slots'[q].state \in Live => slots[q].state \in Live
    BY <1>1 DEF Current, Begins, Ends
  <1>9. Accounted'
    <2> SUFFICES ASSUME ~lost PROVE (KnownOpen /\ SoonOpen /\ OpenKnown /\ ReceiveKnown /\ AstrayKnown)'
      BY <1>1 DEF Accounted
    <2>1. KnownOpen'
      BY <1>1, <1>8 DEF Accounted, KnownOpen
    <2>2. SoonOpen'
      BY <1>1, <1>2, <1>8 DEF Accounted, SoonOpen
    <2>3. OpenKnown'
      BY <1>1, <1>8 DEF Accounted, OpenKnown
    <2>4. ReceiveKnown'
      BY <1>1 DEF Accounted, ReceiveKnown
    <2>5. AstrayKnown'
      BY <1>1, <1>8 DEF Accounted, AstrayKnown
    <2> QED
      BY <2>1, <2>2, <2>3, <2>4, <2>5
  <1> QED
    BY <1>3, <1>4, <1>5, <1>7, <1>9

\* A connection begins, ends or receives a packet, with an event.
LEMMA RaiseKeeps ==
  ASSUME IInv, NEW p \in Slots, NEW kind \in Kinds, NEW s \in States \ Attempt, Raise(p, kind),
         slots' = [slots EXCEPT ![p].state = s],
         slots[p].state # "DISCONNECTED",
         \/ kind = "CONNECT" /\ slots[p].state \in Attempt /\ s \in Live
         \/ kind = "RECEIVE" /\ slots[p].state \in Live /\ s \in Live
         \/ kind = "DISCONNECT" /\ s = "DISCONNECTED",
         UNCHANGED <<bound, bindings, msgs, view, used, astray, sent, resets>>
  PROVE  IInv'
  <1> USE DEF IInv
  <1>1. /\ slots'[p].state = s /\ slots'[p].conn = slots[p].conn
        /\ \A q \in Slots : q # p => slots'[q] = slots[q]
        /\ slots' \in [Slots -> Slot]
        /\ UNCHANGED <<msgs, view, used, astray, meant, struck>>
    BY DEF Types, Slot, resets
  <1>2. Len(evs) \in Nat
        /\ \A i \in Waiting : i \in Nat /\ evs[i].slot \in Slots /\ evs[i].conn \in Nat
    BY EventTypes DEF Waiting
  <1>3. \A q \in Slots : slots[q].state \in States /\ slots[q].conn \in Nat /\ view[q] \in Nat
    BY SlotTypes
  <1>4. /\ evs' \in Seq(Event) /\ Len(evs') <= QueueCap /\ lost' \in BOOLEAN
        /\ lost => lost'
        /\ \A i \in Waiting : i \in Waiting' /\ evs'[i] = evs[i]
        /\ \A i \in Waiting' :
             \/ i \in Waiting /\ evs'[i] = evs[i]
             \/ /\ evs'[i].slot = p /\ evs'[i].kind = kind /\ evs'[i].conn = slots[p].conn
                /\ \A j \in Waiting : j < i
                /\ \A j \in Waiting' : j # i => j \in Waiting
        /\ ~lost' => \E i \in Waiting' :
             evs'[i].slot = p /\ evs'[i].kind = kind /\ evs'[i].conn = slots[p].conn
    BY <1>2, Raised DEF Waiting
  <1>5. bound
    BY DEF Types, FreshSlot
  <1>6. Types'
    BY <1>1, <1>4, <1>5 DEF Types, resets
  <1>7. slots[p].conn # None
    BY DEF Ordered, Behind
  <1>8. Owned'
    <2>1. PICK own \in [Connections -> 0 .. PeerCount] : OwnedBy(own)
      BY DEF Owned
    <2>2. OwnedBy(own)'
      BY <1>1, <1>4, <1>7, <2>1 DEF OwnedBy
    <2> QED
      BY <2>2 DEF Owned
  <1>9. Ordered'
    <2>1. \A i \in Waiting : evs[i].slot = p =>
            /\ evs[i].conn <= slots[p].conn
            /\ evs[i].conn = slots[p].conn =>
                 evs[i].kind # "DISCONNECT" /\ slots[p].state \notin Attempt
      BY <1>2 DEF Ordered, Between
    <2>2. InOrder'
      <3> SUFFICES ASSUME NEW i \in Waiting', NEW j \in Waiting', i < j, evs'[i].slot = evs'[j].slot
                   PROVE  /\ evs'[i].conn <= evs'[j].conn
                          /\ evs'[i].conn = evs'[j].conn =>
                               evs'[i].kind # "DISCONNECT" /\ evs'[j].kind # "CONNECT"
        BY DEF InOrder
      <3>1. i \in Nat /\ j \in Nat
        BY DEF Waiting
      <3>2. CASE j \in Waiting /\ evs'[j] = evs[j]
        <4>1. i \in Waiting /\ evs'[i] = evs[i]
          BY <1>4, <3>1, <3>2
        <4> QED
          BY <3>2, <4>1 DEF Ordered, InOrder
      <3>3. CASE /\ evs'[j].slot = p /\ evs'[j].kind = kind /\ evs'[j].conn = slots[p].conn
                 /\ \A k \in Waiting' : k # j => k \in Waiting
        <4>1. i \in Waiting /\ evs'[i] = evs[i]
          BY <1>4, <3>1, <3>3
        <4> QED
          BY <2>1, <3>3, <4>1 DEF Live, Up, Attempt
      <3> QED
        BY <1>4, <3>2, <3>3
    <2>3. Between'
      BY <1>1, <1>2, <1>3, <1>4, <2>1, SMTT(30) DEF Ordered, Between, Behind, Attempt
    <2>4. Behind'
      BY <1>1, <1>7 DEF Ordered, Behind
    <2> QED
      BY <2>2, <2>3, <2>4 DEF Ordered
  <1>10. \A v : Old(v) => Old(v)'
    BY <1>1, <1>4 DEF Old
  <1>11. Heard'
    BY <1>1, <1>10 DEF Heard
  <1>12. Accounted'
    <2> SUFFICES ASSUME ~lost' PROVE (KnownOpen /\ SoonOpen /\ OpenKnown /\ ReceiveKnown /\ AstrayKnown)'
      BY DEF Accounted
    <2>1. PICK n \in Waiting' :
            evs'[n].slot = p /\ evs'[n].kind = kind /\ evs'[n].conn = slots[p].conn
      BY <1>4
    <2>2. /\ \A q \in Slots : \A v : Ends(q, v) => Ends(q, v)'
          /\ \A q \in Slots : \A v : Begins(q, v) => Begins(q, v)'
          /\ \A q \in Slots : \A v : Current(q, v) => Current(q, v)' \/ Ends(q, v)'
      BY <1>1, <1>4, <2>1 DEF Ends, Begins, Current, Live, Up, Attempt
    <2>3. KnownOpen'
      BY <1>1, <1>4, <2>2 DEF Accounted, KnownOpen
    <2>4. SoonOpen'
      BY <1>1, <1>2, <1>4, <2>2 DEF Accounted, SoonOpen, Current
    <2>5. OpenKnown'
      <3>1. CASE kind = "CONNECT"
        BY <1>1, <1>4, <2>1, <2>2, <3>1 DEF Accounted, OpenKnown, Begins
      <3>2. CASE kind # "CONNECT"
        BY <1>1, <1>4, <2>2, <3>2 DEF Accounted, OpenKnown, Live, Up
      <3> QED
        BY <3>1, <3>2
    <2>6. ReceiveKnown'
      <3>1. OpenKnown /\ ReceiveKnown
        BY <1>4 DEF Accounted
      <3> QED
        BY <1>1, <1>4, <3>1 DEF ReceiveKnown, OpenKnown, Begins
    <2>7. AstrayKnown'
      BY <1>1, <1>4, <2>2 DEF Accounted, AstrayKnown
    <2> QED
      BY <2>3, <2>4, <2>5, <2>6, <2>7
  <1> QED
    BY <1>6, <1>8, <1>9, <1>11, <1>12

\* reset() and disconnect_now(): the script gives up what it knows of the peer.
LEMMA ResetKeeps ==
  ASSUME IInv, NEW p \in Slots, bound, view[p] # None,
         slots' = [slots EXCEPT ![p].state = "DISCONNECTED"],
         view' = [view EXCEPT ![p] = None],
         meant' = meant \union {view[p]},
         struck' = struck \union {slots[p].conn},
         UNCHANGED <<bound, bindings, evs, msgs, used, lost, astray, sent>>
  PROVE  IInv'
  <1> USE DEF IInv
  <1>1. /\ slots'[p].state = "DISCONNECTED" /\ slots'[p].conn = slots[p].conn
        /\ \A q \in Slots : q # p => slots'[q] = slots[q] /\ view'[q] = view[q]
        /\ slots' \in [Slots -> Slot]
        /\ view' \in [Slots -> Connections] /\ view'[p] = None
        /\ UNCHANGED <<evs, msgs, used, lost, astray, Waiting>>
    <2>1. None \in Connections /\ "DISCONNECTED" \in States
      BY ViewAssumption DEF None, Connections, States
    <2>2. slots \in [Slots -> Slot] /\ view \in [Slots -> Connections]
      BY DEF Types
    <2> QED
      BY <2>1, <2>2 DEF Slot, Waiting
  <1>2. \A i \in Waiting : evs[i].slot \in Slots /\ evs[i].conn \in Nat
    BY EventTypes
  <1>3. \A q \in Slots : slots[q].state \in States /\ slots[q].conn \in Nat /\ view[q] \in Nat
    BY SlotTypes
  <1>4. Types'
    BY <1>1, <1>3, ViewAssumption DEF Types, Slot
  <1>5. PICK own \in [Connections -> 0 .. PeerCount] : OwnedBy(own)
    BY DEF Owned
  <1>6. Owned'
    <2>1. OwnedBy(own)'
      BY <1>1, <1>5 DEF OwnedBy
    <2> QED
      BY <2>1 DEF Owned
  <1>7. Ordered'
    <2>1. Between'
      BY <1>1, <1>2, <1>3, <1>5 DEF Ordered, Between, OwnedBy, Attempt, None
    <2>2. Behind'
      BY <1>1, <1>3 DEF Ordered, Behind, Attempt, None
    <2>3. InOrder'
      BY <1>1 DEF Ordered, InOrder
    <2> QED
      BY <2>1, <2>2, <2>3 DEF Ordered
  <1>8. \A v : Old(v) => Old(v)'
    BY <1>1 DEF Old, Attempt
  <1>9. Heard'
    BY <1>1, <1>8 DEF Heard
  <1>10. /\ \A q \in Slots : \A v : Current(q, v) => Current(q, v)' \/ (q = p /\ v = slots[p].conn)
         /\ \A q \in Slots : \A v : (Begins(q, v) => Begins(q, v)') /\ (Ends(q, v) => Ends(q, v)')
         /\ \A q \in Slots : slots'[q].state \in Live => slots[q].state \in Live /\ q # p
         /\ \A q \in Slots : view'[q] # None => q # p /\ view'[q] = view[q] /\ view[q] # view[p]
    BY <1>1, <1>5 DEF Current, Begins, Ends, Live, Up, OwnedBy
  <1>11. Accounted'
    <2> SUFFICES ASSUME ~lost PROVE (KnownOpen /\ SoonOpen /\ OpenKnown /\ ReceiveKnown /\ AstrayKnown)'
      BY <1>1 DEF Accounted
    <2>1. KnownOpen'
      BY <1>10 DEF Accounted, KnownOpen
    <2>2. SoonOpen'
      BY <1>1, <1>2, <1>10 DEF Accounted, SoonOpen
    <2>3. OpenKnown'
      BY <1>1, <1>10 DEF Accounted, OpenKnown
    <2>4. ReceiveKnown'
      BY <1>1, <1>2 DEF Accounted, ReceiveKnown
    <2>5. AstrayKnown'
      <3> SUFFICES ASSUME NEW k \in astray
                   PROVE  \/ \A q \in Slots : view'[q] # k
                          \/ \E q \in Slots : Ends(q, k)'
                          \/ k \in struck' \ meant'
        BY <1>1 DEF AstrayKnown
      <3>1. k # None
        BY DEF Heard, Old, None
      <3> QED
        BY <1>10, <3>1 DEF Accounted, AstrayKnown
    <2> QED
      BY <2>1, <2>2, <2>3, <2>4, <2>5
  <1> QED
    BY <1>4, <1>6, <1>7, <1>9, <1>11

\* send_packet() and send_var().
LEMMA SendMessageKeeps ==
  ASSUME IInv, NEW p \in Slots, SendMessage(p)
  PROVE  IInv'
  <1> USE DEF IInv
  <1>1. UNCHANGED <<bound, bindings, slots, evs, view, used, lost, astray, meant, struck, Waiting>>
    BY DEF SendMessage, resets, Waiting
  <1>2. /\ msgs' \in Seq(Message) /\ Len(msgs') <= QueueCap
        /\ \A i \in 1 .. Len(msgs') :
             \/ i \in 1 .. Len(msgs) /\ msgs'[i] = msgs[i]
             \/ msgs'[i].slot = p /\ msgs'[i].conn = view[p]
    <2> DEFINE m == [slot |-> p, conn |-> view[p]]
    <2>1. m \in Message /\ m.slot = p /\ m.conn = view[p]
      BY DEF Types, Message
    <2>2. msgs' = IF Len(msgs) < QueueCap THEN Append(msgs, m) ELSE msgs
      BY DEF SendMessage
    <2>3. msgs \in Seq(Message) /\ Len(msgs) \in Nat /\ Len(msgs) <= QueueCap
      BY LenProperties DEF Types
    <2> HIDE DEF m
    <2>4. /\ Append(msgs, m) \in Seq(Message) /\ Len(Append(msgs, m)) = Len(msgs) + 1
          /\ \A i \in 1 .. Len(msgs) : Append(msgs, m)[i] = msgs[i]
          /\ Append(msgs, m)[Len(msgs) + 1] = m
      BY <2>1, <2>3, AppendProperties
    <2> QED
      BY <2>1, <2>2, <2>3, <2>4, ViewAssumption
  <1>3. Types'
    BY <1>1, <1>2 DEF Types, SendMessage
  <1>4. Owned'
    <2>1. PICK own \in [Connections -> 0 .. PeerCount] : OwnedBy(own)
      BY DEF Owned
    <2>2. OwnedBy(own)'
      BY <1>1, <1>2, <2>1 DEF OwnedBy, SendMessage
    <2> QED
      BY <2>2 DEF Owned
  <1>5. Ordered'
    BY <1>1 DEF Ordered, InOrder, Between, Behind
  <1>6. \A v : Old(v)' = Old(v)
    BY <1>1 DEF Old
  <1>7. Heard'
    BY <1>1, <1>2, <1>6 DEF Heard, SendMessage
  <1>8. Accounted'
    BY <1>1 DEF Accounted, KnownOpen, SoonOpen, OpenKnown, ReceiveKnown, AstrayKnown, Current,
       Begins, Ends
  <1> QED
    BY <1>3, <1>4, <1>5, <1>7, <1>8

\* send_messages(): the message may be accepted for another connection.
LEMMA SendMessagesKeeps ==
  ASSUME IInv, SendMessages
  PROVE  IInv'
  <1> USE DEF IInv
  <1>1. UNCHANGED <<bound, bindings, slots, evs, view, used, lost, meant, struck, Waiting>>
    BY DEF SendMessages, resets, Waiting
  <1>2. /\ msgs \in Seq(Message) /\ 1 \in 1 .. Len(msgs) /\ Head(msgs) = msgs[1]
        /\ msgs' \in Seq(Message) /\ Len(msgs') <= QueueCap
        /\ \A i \in 1 .. Len(msgs') : i + 1 \in 1 .. Len(msgs) /\ msgs'[i] = msgs[i + 1]
    <2>1. msgs \in Seq(Message) /\ Len(msgs) \in Nat \ {0} /\ Len(msgs) <= QueueCap
      BY EmptySeq, LenProperties DEF Types, SendMessages
    <2>2. /\ Tail(msgs) \in Seq(Message) /\ Len(Tail(msgs)) = Len(msgs) - 1
          /\ \A i \in 1 .. Len(Tail(msgs)) : Tail(msgs)[i] = msgs[i + 1]
      BY <2>1, HeadTailProperties DEF SendMessages
    <2> QED
      BY <2>1, <2>2, ViewAssumption DEF SendMessages
  <1>3. msgs[1].slot \in Slots /\ msgs[1].conn \in Connections
    <2>1. msgs[1] \in Message
      BY <1>2, ElementOfSeq
    <2> QED
      BY <2>1 DEF Message
  <1>4. \/ astray' = astray
        \/ astray' = astray \union {msgs[1].conn} /\ slots[msgs[1].slot].conn # msgs[1].conn
    BY <1>2 DEF SendMessages
  <1>5. Types'
    <2>1. astray' \subseteq Connections
      BY <1>3, <1>4 DEF Types
    <2> QED
      BY <1>1, <1>2, <2>1, EmptySeq DEF Types, SendMessages
  <1>6. PICK own \in [Connections -> 0 .. PeerCount] : OwnedBy(own)
    BY DEF Owned
  <1>7. Owned'
    <2>1. OwnedBy(own)'
      BY <1>1, <1>2, <1>6 DEF OwnedBy
    <2> QED
      BY <2>1 DEF Owned
  <1>8. Ordered'
    BY <1>1 DEF Ordered, InOrder, Between, Behind
  <1>9. \A v : Old(v)' = Old(v)
    BY <1>1 DEF Old
  <1>10. Heard'
    BY <1>1, <1>2, <1>4, <1>9 DEF Heard
  <1>11. \A q \in Slots : \A v : /\ Current(q, v)' = Current(q, v)
                             /\ Begins(q, v)' = Begins(q, v) /\ Ends(q, v)' = Ends(q, v)
    BY <1>1 DEF Current, Begins, Ends
  <1>12. Accounted'
    <2> SUFFICES ASSUME ~lost PROVE (KnownOpen /\ SoonOpen /\ OpenKnown /\ ReceiveKnown /\ AstrayKnown)'
      BY <1>1 DEF Accounted
    <2>1. (KnownOpen /\ SoonOpen /\ OpenKnown /\ ReceiveKnown)'
      BY <1>1 DEF Accounted, KnownOpen, SoonOpen, OpenKnown, ReceiveKnown, Current, Begins, Ends
    <2>2. AstrayKnown'
      <3> SUFFICES ASSUME NEW k \in astray'
                   PROVE  \/ \A q \in Slots : view[q] # k
                          \/ \E q \in Slots : Ends(q, k)
                          \/ k \in struck \ meant
        BY <1>1, <1>11 DEF AstrayKnown
      <3>1. CASE k \in astray
        BY <3>1 DEF Accounted, AstrayKnown
      <3>2. CASE k = msgs[1].conn /\ slots[msgs[1].slot].conn # msgs[1].conn
        <4>1. \A q \in Slots : view[q] = k => q = msgs[1].slot /\ k # None
          BY <1>2, <1>6, <3>2 DEF OwnedBy
        <4>2. \A q \in Slots : view[q] = k => Ends(q, k) \/ k \in struck \ meant
          BY <3>2, <4>1 DEF Accounted, KnownOpen, Current
        <4> QED
          BY <4>2
      <3> QED
        BY <1>4, <3>1, <3>2
    <2> QED
      BY <2>1, <2>2
  <1> QED
    BY <1>5, <1>7, <1>8, <1>10, <1>12

\* get_event(): what the script knows moves on by one event.
LEMMA GetEventKeeps ==
  ASSUME IInv, GetEvent
  PROVE  IInv'
  <1> USE DEF IInv
  <1>1. UNCHANGED <<bound, bindings, slots, msgs, used, lost, astray, meant, struck>>
    BY DEF GetEvent, resets
  <1>2. /\ 1 \in Waiting /\ Head(evs) = evs[1]
        /\ evs' \in Seq(Event) /\ Len(evs') = Len(evs) - 1
        /\ \A i \in Waiting' : i + 1 \in Waiting /\ evs'[i] = evs[i + 1] /\ i \in Nat \ {0}
        /\ \A i \in Waiting : i = 1 \/ (i - 1 \in Waiting' /\ evs[i] = evs'[i - 1])
    BY Popped DEF GetEvent, Waiting
  <1>3. /\ Len(evs) \in Nat
        /\ \A i \in Waiting : i \in Nat /\ evs[i].slot \in Slots /\ evs[i].conn \in Nat
    BY EventTypes DEF Waiting
  <1>4. \A q \in Slots : slots[q].state \in States /\ slots[q].conn \in Nat /\ view[q] \in Nat
    BY SlotTypes
  <1>5. PICK p \in Slots, kind \in Kinds, c \in Connections :
           evs[1].slot = p /\ evs[1].kind = kind /\ evs[1].conn = c
    <2>1. evs[1] \in Event
      BY <1>2, ElementOfSeq DEF Types, Waiting
    <2> QED
      BY <2>1 DEF Event
  <1>6. c \in Nat /\ c # None
    BY <1>2, <1>5, ViewAssumption DEF Connections, Owned, OwnedBy
  <1>7. /\ view' \in [Slots -> Connections]
        /\ \A q \in Slots : q # p => view'[q] = view[q]
        /\ \/ kind = "CONNECT" /\ view'[p] = c
           \/ kind = "DISCONNECT" /\ view'[p] = None
           \/ kind = "RECEIVE" /\ view'[p] = view[p]
    <2>1. None \in Connections /\ view \in [Slots -> Connections]
      BY ViewAssumption DEF None, Connections, Types
    <2>2. view' = Seen(evs[1])
      BY <1>2 DEF GetEvent
    <2> QED
      BY <1>5, <2>1, <2>2 DEF Seen, Kinds
  <1>8. Types'
    <2>1. bound
      BY DEF Types, GetEvent
    <2>2. Len(evs') <= QueueCap
      BY <1>2, <1>3, ViewAssumption DEF Types
    <2> QED
      BY <1>1, <1>2, <1>7, <2>1, <2>2 DEF Types, GetEvent
  <1>9. PICK own \in [Connections -> 0 .. PeerCount] : OwnedBy(own)
    BY DEF Owned
  <1>10. own[c] = p /\ c <= used
    <2>1. own[evs[1].conn] = evs[1].slot /\ evs[1].conn <= used
      BY <1>2, <1>9 DEF OwnedBy
    <2> QED
      BY <1>5, <2>1
  <1>11. Owned'
    <2>1. \A q \in Slots : view'[q] # None => own[view'[q]] = q /\ view'[q] <= used
      <3>1. \A q \in Slots : view[q] # None => own[view[q]] = q /\ view[q] <= used
        BY <1>9 DEF OwnedBy
      <3> QED
        BY <1>7, <1>10, <3>1
    <2>2. \A i \in Waiting' : /\ evs'[i].conn # None /\ evs'[i].conn <= used
                              /\ own[evs'[i].conn] = evs'[i].slot
      BY <1>2, <1>9 DEF OwnedBy
    <2>3. OwnedBy(own)'
      BY <1>1, <1>9, <2>1, <2>2 DEF OwnedBy
    <2> QED
      BY <2>3 DEF Owned
  \* What follows in the queue for the same peer, and for others.
  <1>12. \A i \in Waiting : i # 1 =>
           /\ evs[i].slot = p => /\ c <= evs[i].conn
                                 /\ c = evs[i].conn => kind # "DISCONNECT" /\ evs[i].kind # "CONNECT"
           /\ evs[i].conn = c => evs[i].slot = p
    <2>1. \A i \in Waiting : i # 1 => 1 < i
      BY <1>3 DEF Waiting
    <2>2. \A i \in Waiting : evs[i].conn = c => evs[i].slot = p
      BY <1>2, <1>5, <1>9 DEF OwnedBy
    <2> QED
      BY <1>2, <1>5, <2>1, <2>2 DEF Ordered, InOrder
  <1>13. Ordered'
    <2>1. InOrder'
      <3> SUFFICES ASSUME NEW i \in Waiting', NEW j \in Waiting',
                          i < j, evs'[i].slot = evs'[j].slot
                   PROVE  /\ evs'[i].conn <= evs'[j].conn
                          /\ evs'[i].conn = evs'[j].conn =>
                               evs'[i].kind # "DISCONNECT" /\ evs'[j].kind # "CONNECT"
        BY DEF InOrder
      <3>1. /\ i + 1 \in Waiting /\ evs'[i] = evs[i + 1]
            /\ j + 1 \in Waiting /\ evs'[j] = evs[j + 1]
        BY <1>2
      <3>2. i + 1 < j + 1
        BY DEF Waiting
      <3> QED
        BY <3>1, <3>2 DEF Ordered, InOrder
    <2>2. \A i \in Waiting' :
             /\ view'[evs'[i].slot] <= evs'[i].conn
             /\ view'[evs'[i].slot] = evs'[i].conn => evs'[i].kind # "CONNECT"
      <3> SUFFICES ASSUME NEW i \in Waiting'
                   PROVE  /\ view'[evs'[i].slot] <= evs'[i].conn
                          /\ view'[evs'[i].slot] = evs'[i].conn => evs'[i].kind # "CONNECT"
        OBVIOUS
      <3>1. /\ i + 1 \in Waiting /\ evs'[i] = evs[i + 1] /\ i + 1 # 1
            /\ evs'[i].slot \in Slots /\ evs'[i].conn \in Nat /\ evs'[i].conn # None
        BY <1>2, <1>3, <1>9 DEF OwnedBy
      <3>2. /\ view[evs'[i].slot] <= evs'[i].conn
            /\ view[evs'[i].slot] = evs'[i].conn => evs'[i].kind # "CONNECT"
        BY <3>1 DEF Ordered, Between
      <3> QED
        BY <1>6, <1>7, <1>12, <3>1, <3>2 DEF None
    <2>3. Between'
      BY <1>1, <1>2, <2>2, ZenonT(30) DEF Ordered, Between
    <2>4. Behind'
      <3>1. c <= slots[p].conn /\ (c = slots[p].conn => slots[p].state \notin Attempt)
        BY <1>2, <1>5 DEF Ordered, Between
      <3>2. \A q \in Slots : /\ view[q] <= slots[q].conn
                             /\ view[q] = slots[q].conn => slots[q].state \notin Attempt
                             /\ slots[q].state # "DISCONNECTED" => slots[q].conn # None
        BY DEF Ordered, Behind
      <3>3. \A q \in Slots : /\ view'[q] <= slots[q].conn
                             /\ view'[q] = slots[q].conn => slots[q].state \notin Attempt
        BY <1>4, <1>7, <3>1, <3>2 DEF None, Attempt
      <3> QED
        BY <1>1, <3>2, <3>3 DEF Behind
    <2> QED
      BY <2>1, <2>3, <2>4 DEF Ordered
  <1>14. \A v : Old(v) => Old(v)'
    BY <1>1, <1>2 DEF Old
  <1>15. Heard'
    <2>1. kind = "CONNECT" => Old(c)'
      <3> SUFFICES ASSUME kind = "CONNECT" PROVE Old(c)'
        OBVIOUS
      <3>1. c \in 1 .. used
        <4>1. c <= used /\ used \in Nat
          BY <1>10, ViewAssumption DEF Types, Connections
        <4> QED
          BY <1>6, <4>1 DEF None
      <3>2. \A i \in Waiting' : evs'[i].kind = "CONNECT" => evs'[i].conn # c
        BY <1>2, <1>12
      <3>3. \A q \in Slots : slots[q].state \in Attempt => slots[q].conn # c
        <4>1. \A q \in Slots : slots[q].conn = c => q = p
          BY <1>2, <1>5, <1>6, <1>9 DEF OwnedBy
        <4> QED
          BY <1>2, <1>5, <4>1 DEF Ordered, Between
      <3> QED
        BY <1>1, <3>1, <3>2, <3>3 DEF Old
    <2> QED
      BY <1>1, <1>7, <1>14, <2>1 DEF Heard
  <1>16. Accounted'
    <2> SUFFICES ASSUME ~lost PROVE (KnownOpen /\ SoonOpen /\ OpenKnown /\ ReceiveKnown /\ AstrayKnown)'
      BY <1>1 DEF Accounted
    <2>1. /\ \A q \in Slots : \A v : Current(q, v)' = Current(q, v)
          /\ \A q \in Slots : \A v : Ends(q, v) =>
               Ends(q, v)' \/ (q = p /\ v = c /\ kind = "DISCONNECT")
          /\ \A q \in Slots : \A v : Begins(q, v) =>
               Begins(q, v)' \/ (q = p /\ v = c /\ kind = "CONNECT")
      BY <1>1, <1>2, <1>5, ZenonT(30) DEF Current, Ends, Begins
    <2>2. KnownOpen /\ SoonOpen /\ OpenKnown /\ ReceiveKnown /\ AstrayKnown
      BY DEF Accounted
    <2>3. KnownOpen'
      <3> SUFFICES ASSUME NEW q \in Slots, NEW v, v = view'[q], v # None
                   PROVE  Current(q, v)' \/ Ends(q, v)' \/ v \in struck \ meant
        BY <1>1 DEF KnownOpen, Current, Ends
      <3>1. CASE q = p /\ kind = "CONNECT"
        <4>1. Current(p, c) \/ Ends(p, c) \/ c \in struck
          BY <1>2, <1>5, <2>2, <3>1 DEF SoonOpen
        <4>2. c \notin meant
          BY <1>2, <1>5, <3>1 DEF Heard, Old
        <4> QED
          BY <1>7, <2>1, <3>1, <4>1, <4>2
      <3>2. CASE ~(q = p /\ kind = "CONNECT")
        <4>1. v = view[q] /\ ~(q = p /\ kind = "DISCONNECT")
          BY <1>7, <3>2
        <4> QED
          BY <2>1, <2>2, <4>1 DEF KnownOpen
      <3> QED
        BY <3>1, <3>2
    <2>4. SoonOpen'
      <3> SUFFICES ASSUME NEW i \in Waiting', evs'[i].kind = "CONNECT",
                          NEW q, NEW v, q = evs'[i].slot, v = evs'[i].conn
                   PROVE  Current(q, v)' \/ Ends(q, v)' \/ v \in struck
        BY <1>1 DEF SoonOpen, Current, Ends
      <3>1. i + 1 \in Waiting /\ i + 1 # 1 /\ evs'[i] = evs[i + 1] /\ q \in Slots
        BY <1>2, <1>3
      <3>2. Current(q, v) \/ Ends(q, v) \/ v \in struck
        BY <2>2, <3>1 DEF SoonOpen
      <3>3. ~(q = p /\ v = c)
        BY <1>12, <3>1
      <3> QED
        BY <2>1, <3>1, <3>2, <3>3
    <2>5. OpenKnown'
      <3> SUFFICES ASSUME NEW q \in Slots, NEW v, v = slots[q].conn, slots[q].state \in Live
                   PROVE  view'[q] = v \/ Begins(q, v)'
        BY <1>1 DEF OpenKnown, Begins
      <3>1. CASE Begins(q, v)
        BY <1>7, <2>1, <3>1
      <3>2. CASE view[q] = slots[q].conn /\ q # p
        BY <1>7, <3>2
      <3>3. CASE view[q] = slots[q].conn /\ q = p
        <4>1. c = slots[p].conn
          BY <1>2, <1>4, <1>5, <1>6, <3>3 DEF Ordered, Between
        <4>2. kind = "RECEIVE"
          BY <1>2, <1>5, <3>3, <4>1 DEF Ordered, Between, Live, Up, Kinds
        <4> QED
          BY <1>7, <3>3, <4>2
      <3> QED
        BY <2>2, <3>1, <3>2, <3>3 DEF OpenKnown
    <2>6. ReceiveKnown'
      <3> SUFFICES ASSUME NEW i \in Waiting', evs'[i].kind = "RECEIVE"
                   PROVE  \/ view'[evs'[i].slot] = evs'[i].conn \/ evs'[i].conn \in meant
                          \/ \E j \in Waiting' :
                               /\ j < i /\ evs'[j].slot = evs'[i].slot
                               /\ evs'[j].kind = "CONNECT" /\ evs'[j].conn = evs'[i].conn
        BY <1>1 DEF ReceiveKnown
      <3>1. /\ i + 1 \in Waiting /\ i + 1 # 1 /\ i \in Nat
            /\ evs'[i] = evs[i + 1] /\ evs'[i].slot \in Slots /\ evs'[i].conn \in Nat
        BY <1>2, <1>3
      <3>2. CASE evs'[i].conn \in meant
        BY <3>2
      <3>3. CASE view[evs'[i].slot] = evs'[i].conn
        <4>1. CASE evs'[i].slot # p
          BY <1>7, <3>1, <3>3, <4>1
        <4>2. CASE evs'[i].slot = p
          <5>1. view[p] <= c /\ (view[p] = c => kind # "CONNECT")
            BY <1>2, <1>5 DEF Ordered, Between
          <5>2. c = evs'[i].conn
            BY <1>4, <1>6, <1>12, <3>1, <3>3, <4>2, <5>1
          <5>3. kind # "DISCONNECT"
            BY <1>12, <3>1, <4>2, <5>2
          <5> QED
            BY <1>7, <3>3, <4>2, <5>1, <5>2, <5>3
        <4> QED
          BY <4>1, <4>2
      <3>4. ASSUME NEW j \in Waiting, j < i + 1, evs[j].slot = evs'[i].slot,
                   evs[j].kind = "CONNECT", evs[j].conn = evs'[i].conn
            PROVE  \/ view'[evs'[i].slot] = evs'[i].conn
                   \/ \E k \in Waiting' : /\ k < i /\ evs'[k].slot = evs'[i].slot
                                          /\ evs'[k].kind = "CONNECT" /\ evs'[k].conn = evs'[i].conn
        <4>1. CASE j = 1
          BY <1>5, <1>7, <3>4, <4>1
        <4>2. CASE j # 1
          <5>1. j - 1 \in Waiting' /\ evs[j] = evs'[j - 1] /\ j - 1 < i
            BY <1>2, <1>3, <3>1, <3>4, <4>2
          <5> QED
            BY <3>4, <5>1
        <4> QED
          BY <4>1, <4>2
      <3> QED
        BY <2>2, <3>1, <3>2, <3>3, <3>4 DEF ReceiveKnown
    <2>7. AstrayKnown'
      <3> SUFFICES ASSUME NEW k \in astray
                   PROVE  \/ \A q \in Slots : view'[q] # k
                          \/ \E q \in Slots : Ends(q, k)'
                          \/ k \in struck \ meant
        BY <1>1 DEF AstrayKnown
      <3>1. k # None /\ ~(kind = "CONNECT" /\ k = c)
        BY <1>2, <1>5 DEF Heard, Old, None
      <3>2. \A q \in Slots : view'[q] = k => view[q] = k /\ ~(q = p /\ kind = "DISCONNECT")
        BY <1>7, <3>1
      <3>3. \A q \in Slots : view[q] = c => q = p
        BY <1>2, <1>5, <1>6, <1>9 DEF OwnedBy
      <3> QED
        BY <2>1, <2>2, <3>2, <3>3 DEF AstrayKnown
    <2> QED
      BY <2>3, <2>4, <2>5, <2>6, <2>7
  <1> QED
    BY <1>8, <1>11, <1>13, <1>15, <1>16

\* bind() and unbind(): nothing is left.
LEMMA BindKeeps ==
  ASSUME IInv, Bind \/ Unbind
  PROVE  IInv'
  <1> USE DEF IInv
  <1>1. FreshSlot \in Slot /\ None \in Connections
    BY ViewAssumption DEF FreshSlot, Slot, States, Connections, None
  <1>2. /\ slots' = [p \in Slots |-> FreshSlot] /\ view' = [p \in Slots |-> None]
        /\ evs' = <<>> /\ msgs' = <<>> /\ bindings' \in 0 .. MaxBindings /\ bound' \in BOOLEAN
        /\ UNCHANGED <<used, lost, astray, meant, struck>>
    <2>1. CASE Bind
      BY <2>1, ViewAssumption DEF Bind, Types, resets
    <2>2. CASE Unbind
      BY <2>2, ViewAssumption DEF Unbind, Types, ClearedEvents, resets
    <2> QED
      BY <2>1, <2>2
  <1>3. Len(evs') = 0 /\ Len(msgs') = 0 /\ Waiting' = {} /\ 1 .. Len(msgs') = {}
    BY <1>2, EmptySeq DEF Waiting
  <1>4. Types'
    BY <1>1, <1>2, <1>3, EmptySeq, ViewAssumption DEF Types
  <1>5. Owned'
    <2>1. PICK own \in [Connections -> 0 .. PeerCount] : OwnedBy(own)
      BY DEF Owned
    <2>2. OwnedBy(own)'
      BY <1>2, <1>3 DEF OwnedBy, FreshSlot
    <2> QED
      BY <2>2 DEF Owned
  <1>6. Ordered'
    BY <1>2, <1>3 DEF Ordered, InOrder, Between, Behind, FreshSlot, Attempt, None
  <1>7. \A v : Old(v) => Old(v)'
    BY <1>2, <1>3 DEF Old, FreshSlot, Attempt
  <1>8. Heard'
    BY <1>2, <1>3, <1>7 DEF Heard
  <1>9. Accounted'
    <2>1. \A k \in astray : k # None
      BY DEF Heard, Old, None
    <2> QED
      BY <1>2, <1>3, <2>1 DEF Accounted, KnownOpen, SoonOpen, OpenKnown, ReceiveKnown, AstrayKnown,
         FreshSlot, Live, Up
  <1> QED
    BY <1>4, <1>5, <1>6, <1>8, <1>9

--------------------------------------------------------------------------------
(* The theorems. *)

LEMMA IInvInit == Init => IInv
  <1> SUFFICES ASSUME Init PROVE IInv
    OBVIOUS
  <1>1. FreshSlot \in Slot /\ None \in Connections
    BY ViewAssumption DEF FreshSlot, Slot, States, Connections, None
  <1>2. Len(evs) = 0 /\ Len(msgs) = 0 /\ Waiting = {} /\ 1 .. Len(msgs) = {}
    BY EmptySeq DEF Init, Waiting
  <1>3. Types
    <2>1. evs \in Seq(Event) /\ msgs \in Seq(Message) /\ Len(evs) <= QueueCap /\ Len(msgs) <= QueueCap
      BY <1>2, EmptySeq, ViewAssumption DEF Init
    <2>2. bindings \in 0 .. MaxBindings /\ used \in Connections
      BY ViewAssumption DEF Init, Connections
    <2>3. slots \in [Slots -> Slot] /\ view \in [Slots -> Connections]
      BY <1>1 DEF Init
    <2> QED
      BY <2>1, <2>2, <2>3 DEF Init, Types
  <1>4. Owned
    <2>1. [c \in Connections |-> PeerCount] \in [Connections -> 0 .. PeerCount]
      BY ViewAssumption
    <2>2. OwnedBy([c \in Connections |-> PeerCount])
      BY <1>2 DEF Init, OwnedBy, FreshSlot
    <2> QED
      BY <2>1, <2>2 DEF Owned
  <1>5. Ordered
    BY <1>2 DEF Init, Ordered, InOrder, Between, Behind, FreshSlot, Attempt, None
  <1>6. Heard
    BY <1>2 DEF Init, Heard
  <1>7. Accounted
    BY <1>2 DEF Init, Accounted, KnownOpen, SoonOpen, OpenKnown, ReceiveKnown, AstrayKnown,
       FreshSlot, Live, Up
  <1> QED
    BY <1>3, <1>4, <1>5, <1>6, <1>7 DEF IInv

LEMMA IInvNext == IInv /\ [Next]_vars => IInv'
  <1> SUFFICES ASSUME IInv, [Next]_vars PROVE IInv'
    OBVIOUS
  <1>1. ASSUME NEW p \in Slots, Accept(p) \/ Connect(p) PROVE IInv'
    BY <1>1, ClaimKeeps DEF Accept, Connect, Attempt
  <1>2. ASSUME NEW p \in Slots, Established(p) PROVE IInv'
    BY <1>2, RaiseKeeps DEF Established, Attempt, States, Kinds, Live, Up
  <1>3. ASSUME NEW p \in Slots, Ended(p) PROVE IInv'
    <2>1. CASE ReportsEnd(slots[p].state)
      BY <1>3, <2>1, RaiseKeeps DEF Ended, Attempt, States, Kinds
    <2>2. CASE ~ReportsEnd(slots[p].state)
      <3>1. slots[p].state = "ACKNOWLEDGING_CONNECT" /\ slots[p].state \notin Live
        BY <2>2 DEF ReportsEnd, Live, Up
      <3>2. bound
        BY <1>3 DEF Ended, IInv, Types, FreshSlot
      <3> QED
        BY <1>3, <2>2, <3>1, <3>2, StateKeeps DEF Ended, Attempt, States, Live, Up
    <2> QED
      BY <2>1, <2>2
  <1>4. ASSUME NEW p \in Slots, Received(p) PROVE IInv'
    <2>1. slots' = [slots EXCEPT ![p].state = slots[p].state] /\ slots[p].state \in States
      BY <1>4 DEF Received, IInv, Types, Slot
    <2> QED
      BY <1>4, <2>1, RaiseKeeps DEF Received, Attempt, States, Kinds, Live, Up
  <1>5. ASSUME NEW p \in Slots, Drained(p) PROVE IInv'
    <2>1. bound
      BY <1>5 DEF Drained, IInv, Types, FreshSlot
    <2> QED
      BY <1>5, <2>1, StateKeeps DEF Drained, Attempt, States, Live, Up
  <1>6. ASSUME NEW p \in Slots, SendMessage(p) PROVE IInv'
    BY <1>6, SendMessageKeeps
  <1>7. ASSUME NEW p \in Slots, NEW op \in Ops, Operate(op, p) PROVE IInv'
    <2>1. PICK s \in Apply(op, slots[p].state) : slots' = [slots EXCEPT ![p].state = s]
      BY <1>7 DEF Operate
    <2>2. CASE op \in {"reset", "disconnect_now"}
      <3>1. s = "DISCONNECTED"
        BY <2>1, <2>2 DEF Apply
      <3> QED
        BY <1>7, <2>1, <2>2, <3>1, ResetKeeps DEF Operate
    <2>3. CASE op \notin {"reset", "disconnect_now"}
      <3>1. op \in {"disconnect", "disconnect_later"}
        BY <2>3, ViewAssumption
      <3>2. /\ s \in States \ Attempt
            /\ slots[p].state \in Live <=> s \in Live
            /\ slots[p].state = "DISCONNECTED" => s = "DISCONNECTED"
        BY <2>1, <3>1 DEF Apply, States, Attempt, Live, Up
      <3> QED
        BY <1>7, <2>1, <2>3, <3>2, StateKeeps DEF Operate
    <2> QED
      BY <2>2, <2>3
  <1>8. CASE SendMessages
    BY <1>8, SendMessagesKeeps
  <1>9. CASE Bind \/ Unbind
    BY <1>9, BindKeeps
  <1>10. CASE GetEvent
    BY <1>10, GetEventKeeps
  <1>11. CASE UNCHANGED vars
    <2>1. Types'
      BY <1>11 DEF vars, resets, IInv, Types
    <2>2. Owned'
      BY <1>11 DEF vars, IInv, Owned, OwnedBy, Waiting
    <2>3. Ordered'
      BY <1>11 DEF vars, IInv, Ordered, InOrder, Between, Behind, Waiting
    <2>4. Heard'
      BY <1>11 DEF vars, resets, IInv, Heard, Old, Waiting
    <2>5. Accounted'
      BY <1>11 DEF vars, resets, IInv, Accounted, KnownOpen, SoonOpen, OpenKnown, ReceiveKnown,
         AstrayKnown, Current, Begins, Ends, Waiting
    <2> QED
      BY <2>1, <2>2, <2>3, <2>4, <2>5 DEF IInv
  <1> QED
    BY <1>1, <1>2, <1>3, <1>4, <1>5, <1>6, <1>7, <1>8, <1>9, <1>10, <1>11 DEF Next

\* What the inductive invariant says of the next event.
LEMMA IInvEventsFit == IInv => EventsFit
  <1> SUFFICES ASSUME IInv, evs # <<>>, ~lost,
                      NEW e, e = Head(evs), NEW known, known = view[e.slot]
               PROVE  CASE e.kind = "RECEIVE"    -> known = e.conn \/ e.conn \in meant
                        [] e.kind = "CONNECT"    -> known = None \/ known \in struck \ meant
                        [] e.kind = "DISCONNECT" ->
                             known \in {None, e.conn} \/ known \in struck \ meant
    BY DEF EventsFit
  <1>1. e = evs[1] /\ 1 \in Waiting /\ \A i \in Waiting : i = 1 \/ 1 < i
    BY EventTypes, EmptySeq DEF IInv, Types, Waiting
  <1>2. e.slot \in Slots /\ e.kind \in Kinds /\ e.conn \in Nat /\ known \in Nat
        /\ slots[e.slot].conn \in Nat
    BY <1>1, EventTypes, SlotTypes DEF IInv
  <1>3. known <= e.conn /\ e.conn <= slots[e.slot].conn /\ (known = e.conn => e.kind # "CONNECT")
    BY <1>1 DEF IInv, Ordered, Between
  <1>4. known # None /\ known # e.conn => known \in struck \ meant
    <2> SUFFICES ASSUME known # None, known # e.conn PROVE known \in struck \ meant
      OBVIOUS
    <2>1. ~Current(e.slot, known)
      BY <1>2, <1>3 DEF Current
    <2>2. ~Ends(e.slot, known)
      <3> SUFFICES ASSUME NEW i \in Waiting, evs[i].slot = e.slot, evs[i].conn = known PROVE FALSE
        BY DEF Ends
      <3>1. e.conn <= known
        BY <1>1, <1>2 DEF IInv, Ordered, InOrder
      <3> QED
        BY <1>2, <1>3, <3>1
    <2> QED
      BY <1>2, <2>1, <2>2 DEF IInv, Accounted, KnownOpen
  <1>5. e.kind = "RECEIVE" => known = e.conn \/ e.conn \in meant
    BY <1>1 DEF IInv, Accounted, ReceiveKnown, Waiting
  <1> QED
    BY <1>2, <1>3, <1>4, <1>5 DEF Kinds

(***************************************************************************)
(* The events that get_event() returns fit what the script knows           *)
(* (gdnet_host.cpp:115-137, 277-289), and a message that send_messages()   *)
(* hands to another connection than the one it was for is noticed, for any *)
(* number of peers and connections and queues of any length.               *)
(***************************************************************************)
THEOREM ViewInvariant == Spec => []ViewInv
  <1>1. IInv => ViewInv
    <2> SUFFICES ASSUME IInv PROVE ViewInv
      OBVIOUS
    <2>1. TypeOK
      BY DEF IInv, Types, TypeOK, Slot, Event, Message, States, Kinds
    <2>2. AstrayIsNoticed
      BY DEF IInv, Accounted, AstrayKnown, AstrayIsNoticed, Ends, Waiting, Types
    <2> QED
      BY <2>1, <2>2, IInvEventsFit DEF ViewInv
  <1> QED
    BY <1>1, IInvInit, IInvNext, PTL DEF Spec

(***************************************************************************)
(* A script that has read all its events, none of which push() refused,    *)
(* knows the state of every peer (gdnet_peer.cpp:39-66), but for the       *)
(* connections that its own reset() or disconnect_now() struck before it   *)
(* heard of them.                                                          *)
(***************************************************************************)
THEOREM ReaderKnowsAll == Spec => []KnowsAll
  <1>1. IInv => KnowsAll
    <2> SUFFICES ASSUME IInv, evs = <<>>, ~lost, NEW p \in Slots
                 PROVE  /\ view[p] # None =>
                             \/ slots[p].conn = view[p] /\ slots[p].state \in Live
                             \/ view[p] \in struck \ meant
                        /\ slots[p].state \in Up => view[p] = slots[p].conn
      BY DEF KnowsAll, Live
    <2>1. Waiting = {}
      BY EmptySeq DEF Waiting
    <2> QED
      BY <2>1 DEF IInv, Accounted, KnownOpen, OpenKnown, Current, Begins, Ends, Live
  <1> QED
    BY <1>1, IInvInit, IInvNext, PTL DEF Spec

================================================================================
