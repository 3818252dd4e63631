------------------------------- MODULE GDNetView -------------------------------
(***************************************************************************)
(* What a script knows of the peers.  The network thread changes them, the *)
(* script learns of it later, from the events it takes out of              *)
(* _event_queue, and acts on them by number or through a GDNetPeer.  By    *)
(* then a peer may stand for another connection.  The mutexes are left     *)
(* out: GDNetHost shows that an operation of the script and a turn of the  *)
(* network thread exclude each other.  connect(), which takes none, is one *)
(* step here; GDNetHost shows what can happen to it.                       *)
(***************************************************************************)
EXTENDS Integers, Sequences, FiniteSets

CONSTANTS
  PeerCount,       \* host->peerCount
  QueueCap,        \* how many items fit in a GDNetQueue
  Ops,             \* operations of GDNetPeer that the script uses
  MaxConnections,  \* bound: connections and attempts
  MaxMessages,     \* bound: messages sent
  MaxBindings      \* bound: calls of bind()

ASSUME ViewAssumption ==
  /\ {PeerCount, QueueCap, MaxConnections, MaxMessages, MaxBindings} \subseteq Nat
  /\ Ops \subseteq {"disconnect", "disconnect_later", "reset", "disconnect_now"}

Slots == 0 .. PeerCount - 1
None == 0     \* no connection

VARIABLES
  bound,      \* _host # NULL
  bindings,   \* calls of bind() so far
  slots,      \* _host->peers: the state, and which connection it is
  evs,        \* _event_queue; the connection of an event is kept for the properties
  msgs,       \* _message_queue, likewise
  view,       \* the connection that each peer stands for, as the script knows it
  used,       \* connections and attempts so far
  lost,       \* an event found the queue full
  astray,     \* connections that had a message which was accepted for another one
  sent,       \* messages so far
  meant,      \* connections that the script has reset,
  struck      \* and those that were

vars == <<bound, bindings, slots, evs, msgs, view, used, lost, astray, sent, meant, struck>>
resets == <<meant, struck>>

Up == {"CONNECTED", "DISCONNECT_LATER"}
FreshSlot == [state |-> "DISCONNECTED", conn |-> None]

Init ==
  /\ bound = FALSE /\ bindings = 0
  /\ slots = [p \in Slots |-> FreshSlot]
  /\ evs = <<>> /\ msgs = <<>>
  /\ view = [p \in Slots |-> None]
  /\ used = 0 /\ sent = 0
  /\ meant = {} /\ struck = {}
  /\ lost = FALSE /\ astray = {}

(***************************************************************************)
(* The network thread.  new_event() and push(): an event is lost when the  *)
(* queue is full.                                                          *)
(***************************************************************************)
Raise(p, kind) ==
  /\ evs' = IF Len(evs) < QueueCap
            THEN Append(evs, [slot |-> p, kind |-> kind, conn |-> slots[p].conn]) ELSE evs
  /\ lost' = (lost \/ Len(evs) = QueueCap)

\* The first peer that is free.
Free(p) ==
  /\ slots[p].state = "DISCONNECTED"
  /\ \A o \in Slots : o < p => slots[o].state # "DISCONNECTED"

\* A peer is used for a connection, with the address of a foreign host.
Claim(p, state) ==
  /\ bound /\ Free(p) /\ used < MaxConnections
  /\ used' = used + 1
  /\ slots' = [slots EXCEPT ![p] = [state |-> state, conn |-> used + 1]]

\* enet_protocol_handle_connect().
Accept(p) ==
  /\ Claim(p, "ACKNOWLEDGING_CONNECT")
  /\ UNCHANGED <<bound, bindings, evs, msgs, view, lost, astray, sent, resets>>

Established(p) ==
  /\ slots[p].state \in {"CONNECTING", "ACKNOWLEDGING_CONNECT"}
  /\ slots' = [slots EXCEPT ![p].state = "CONNECTED"]
  /\ Raise(p, "CONNECT")
  /\ UNCHANGED <<bound, bindings, msgs, view, used, astray, sent, resets>>

\* A mutant: the end of a connection is not reported while it is being closed.
ReportsEndUp(state) == state \in Up

\* enet_protocol_notify_disconnect(): whether the script hears of it.
ReportsEnd(state) == state # "ACKNOWLEDGING_CONNECT"

Ended(p) ==
  /\ slots[p].state # "DISCONNECTED"
  /\ slots' = [slots EXCEPT ![p].state = "DISCONNECTED"]
  /\ IF ReportsEnd(slots[p].state) THEN Raise(p, "DISCONNECT") ELSE UNCHANGED <<evs, lost>>
  /\ UNCHANGED <<bound, bindings, msgs, view, used, astray, sent, resets>>

Received(p) ==
  /\ slots[p].state \in Up
  /\ Raise(p, "RECEIVE")
  /\ UNCHANGED <<bound, bindings, slots, msgs, view, used, astray, sent, resets>>

\* send_messages(): the peer is looked up by its number when the message is sent.
SendMessages ==
  /\ msgs # <<>>
  /\ msgs' = Tail(msgs)
  /\ LET m == Head(msgs)
     IN  astray' = IF slots[m.slot].state = "CONNECTED" /\ slots[m.slot].conn # m.conn
                   THEN astray \union {m.conn} ELSE astray
  /\ UNCHANGED <<bound, bindings, slots, evs, view, used, lost, sent, resets>>

(***************************************************************************)
(* The script.                                                             *)
(***************************************************************************)
Bind ==
  /\ ~bound /\ bindings < MaxBindings
  /\ bound' = TRUE /\ bindings' = bindings + 1
  /\ slots' = [p \in Slots |-> FreshSlot]
  /\ UNCHANGED <<evs, msgs, view, used, lost, astray, sent, resets>>

\* A mutant: the events are kept.
LeftEvents == evs
ClearedEvents == <<>>

\* The script knows that no connection outlives the host.
Unbind ==
  /\ bound
  /\ bound' = FALSE
  /\ slots' = [p \in Slots |-> FreshSlot]
  /\ evs' = ClearedEvents /\ msgs' = <<>>
  /\ view' = [p \in Slots |-> None]
  /\ UNCHANGED <<bindings, used, lost, astray, sent, resets>>

Connect(p) ==
  /\ Claim(p, "CONNECTING")
  /\ UNCHANGED <<bound, bindings, evs, msgs, view, lost, astray, sent, resets>>

Seen(e) ==
  CASE e.kind = "CONNECT" -> [view EXCEPT ![e.slot] = e.conn]
    [] e.kind = "DISCONNECT" -> [view EXCEPT ![e.slot] = None]
    [] e.kind = "RECEIVE" -> view

\* get_event().
GetEvent ==
  /\ evs # <<>>
  /\ evs' = Tail(evs)
  /\ view' = Seen(Head(evs))
  /\ UNCHANGED <<bound, bindings, slots, msgs, used, lost, astray, sent, resets>>

\* send_packet() and send_var(), for a peer whose CONNECT event was consumed.
SendMessage(p) ==
  /\ bound /\ view[p] # None
  /\ sent < MaxMessages
  /\ sent' = sent + 1
  /\ msgs' = IF Len(msgs) < QueueCap
             THEN Append(msgs, [slot |-> p, conn |-> view[p]]) ELSE msgs
  /\ UNCHANGED <<bound, bindings, slots, evs, view, used, lost, astray, resets>>

\* What ENet's function makes of the state of the peer; disconnect_later() depends on
\* whether anything is queued.
Apply(op, state) ==
  CASE op \in {"reset", "disconnect_now"} \/ state \notin Up \union {"DISCONNECTING"} ->
         {"DISCONNECTED"}
    [] op = "disconnect_later" /\ state \in Up -> {"DISCONNECT_LATER", "DISCONNECTING"}
    [] OTHER -> {"DISCONNECTING"}

\* An operation of GDNetPeer, on a peer whose CONNECT event was consumed.  After
\* reset() or disconnect_now() the script expects no event.
Operate(op, p) ==
  /\ bound /\ view[p] # None
  /\ \E s \in Apply(op, slots[p].state) : slots' = [slots EXCEPT ![p].state = s]
  /\ IF op \in {"reset", "disconnect_now"}
     THEN /\ view' = [view EXCEPT ![p] = None]
          /\ meant' = meant \union {view[p]}
          /\ struck' = struck \union {slots[p].conn}
     ELSE UNCHANGED <<view, resets>>
  /\ UNCHANGED <<bound, bindings, evs, msgs, used, lost, astray, sent>>

\* A connection that disconnect_later() ends has sent all it had.
Drained(p) ==
  /\ slots[p].state = "DISCONNECT_LATER"
  /\ slots' = [slots EXCEPT ![p].state = "DISCONNECTING"]
  /\ UNCHANGED <<bound, bindings, evs, msgs, view, used, lost, astray, sent, resets>>

Next ==
  \/ \E p \in Slots :
       \/ Accept(p) \/ Established(p) \/ Ended(p) \/ Received(p) \/ Drained(p) \/ Connect(p)
       \/ SendMessage(p)
       \/ \E op \in Ops : Operate(op, p)
  \/ SendMessages \/ Bind \/ Unbind \/ GetEvent

Spec == Init /\ [][Next]_vars

--------------------------------------------------------------------------------
(***************************************************************************)
(* Properties.                                                             *)
(***************************************************************************)
Connections == 0 .. MaxConnections

\* Every variable keeps its type, and nothing is queued while the host is unbound.
TypeOK ==
  /\ bound \in BOOLEAN /\ bindings \in 0 .. MaxBindings
  /\ slots \in [Slots -> [state : Up \union {"DISCONNECTED", "CONNECTING", "ACKNOWLEDGING_CONNECT",
                                            "DISCONNECTING"}, conn : Connections]]
  /\ evs \in Seq([slot : Slots, kind : {"CONNECT", "DISCONNECT", "RECEIVE"}, conn : Connections])
  /\ msgs \in Seq([slot : Slots, conn : Connections])
  /\ ~bound => evs = <<>> /\ msgs = <<>>
  /\ Len(evs) <= QueueCap /\ Len(msgs) <= QueueCap
  /\ view \in [Slots -> Connections]
  /\ meant \union struck \union astray \subseteq Connections

\* As long as no event was lost, the next one fits what the script knows: packets come
\* from the connection it has been told of, or from one it has reset; a connection
\* begins when the one before it in the same peer has ended, and ends if it is the one
\* that began (or never did).  A connection that was struck in the place of the one the
\* script meant (gdnet_peer.cpp:49) never ends for it.
EventsFit ==
  evs # <<>> /\ ~lost =>
    LET e     == Head(evs)
        known == view[e.slot]
    IN  CASE e.kind = "RECEIVE"    -> known = e.conn \/ e.conn \in meant
          [] e.kind = "CONNECT"    -> known = None \/ known \in struck \ meant
          [] e.kind = "DISCONNECT" -> known \in {None, e.conn} \/ known \in struck \ meant

\* A script that has read all the events, none of which was lost, knows the state of
\* the peers: one it takes for connected stands for that connection, which has not
\* ended, and one that is connected it takes for connected.  The exception is a reset()
\* or disconnect_now() that struck a connection the script had not heard of yet, in
\* the place of the one it meant: it will take it for connected.
KnowsAll ==
  evs = <<>> /\ ~lost => \A p \in Slots :
    /\ view[p] # None => \/ slots[p].conn = view[p] /\ slots[p].state \in Up \union {"DISCONNECTING"}
                         \/ view[p] \in struck \ meant
    /\ slots[p].state \in Up => view[p] = slots[p].conn

\* A message may be accepted for a connection that has taken the place of the one it
\* was for (gdnet_host.cpp:82), but not unnoticed: the script has heard, or will hear
\* from an event in the queue, that the connection it was for has ended.  The
\* exceptions are those of KnowsAll.
AstrayIsNoticed ==
  ~lost => \A k \in astray :
    \/ \A p \in Slots : view[p] # k
    \/ \E i \in DOMAIN evs : evs[i].kind = "DISCONNECT" /\ evs[i].conn = k
    \/ k \in struck \ meant

\* What waits in the queues fits what the script knows, and it misses nothing.
ViewInv == TypeOK /\ EventsFit /\ AstrayIsNoticed

================================================================================
