------------------------------- MODULE ENetPacket -------------------------------
(***************************************************************************)
(* Who owns an ENet packet.  A packet is created by GDNetHost, or by a     *)
(* peer that receives data, is entered into the queues of one or of many   *)
(* peers, once per fragment, and is destroyed by whoever brings its        *)
(* referenceCount to zero: an acknowledgement, the end of a datagram, the  *)
(* throttle, a disconnection or a reset, or the application.               *)
(*                                                                         *)
(* Everything here runs with _hostMutex held, so that operations exclude   *)
(* each other.  A peer's turn in enet_protocol_send_outgoing_commands() is *)
(* taken in steps, because the datagram that is assembled points into the  *)
(* packets and is only read at its end.                                    *)
(*                                                                         *)
(* The commands of one packet in one list are interchangeable here, so     *)
(* that a list is the number of its commands for each packet.  Which of    *)
(* them the windows, the timeouts and the acknowledgements pick is left    *)
(* open (ENetReliable has that).  Only the outgoing unreliable list is a   *)
(* sequence: the throttle drops neighbours together.  Commands without a   *)
(* packet are left out.  A peer is "gone" from the moment its queues are   *)
(* emptied for good, whatever is left of its disconnection.                *)
(***************************************************************************)
EXTENDS Integers, Sequences, FiniteSets, FiniteSetsExt

CONSTANTS
  Peers,          \* the peers of the host
  Channels,       \* the channels of every connection
  Kinds,          \* the packet flags in use
  Sizes,          \* the sizes of packets in fragments
  MaxPackets      \* bound: packets ever created

ASSUME PacketAssumption ==
  /\ Kinds \subseteq {"reliable", "unreliable", "unsequenced", "unreliableFragment"}
  /\ IsFiniteSet(Peers)
  /\ Sizes \subseteq Nat \ {0} /\ \E n \in Sizes : \A size \in Sizes : n >= size
  /\ MaxPackets \in Nat

VARIABLES
  state,     \* per peer, its state
  held,      \* per peer, list and packet: the commands that refer to the packet
  queue,     \* per peer, outgoingUnreliableCommands
  memory,    \* per packet created: whether it is live, and its referenceCount
  turn,      \* the peer whose datagram is assembled, and the packets in the buffers
  event,     \* the packet of the event that new_event() is about to read, 0: none
  refused    \* history: packets that enet_peer_send() refused

vars == <<state, held, queue, memory, turn, event, refused>>

Ids == 1 .. MaxPackets
NextId == Len(memory) + 1

\* outgoingReliableCommands never sent and to be sent again, sentReliableCommands,
\* sentUnreliableCommands, and the incoming lists with dispatchedCommands.
Lists == {"unsent", "resend", "sent", "datagram", "incoming"}

None == [k \in Ids |-> 0]
One(k) == [None EXCEPT ![k] = 1]
Plus(f, g) == [k \in Ids |-> f[k] + g[k]]
Minus(f, g) == [k \in Ids |-> f[k] - g[k]]
Parts(f) == {g \in [Ids -> 0 .. Max(Sizes)] : \A k \in Ids : g[k] <= f[k]}
Packets(f) == {k \in Ids : f[k] > 0}

NoTurn == [at |-> "none", peer |-> "nobody", buffers |-> {}]
Idle == turn.at = "none" /\ event = 0

Init ==
  /\ state = [p \in Peers |-> "connected"]
  /\ held = [p \in Peers |-> [l \in Lists |-> None]]
  /\ queue = [p \in Peers |-> <<>>]
  /\ memory = <<>>
  /\ turn = NoTurn
  /\ event = 0
  /\ refused = {}

\* How often the commands s refer to each packet.
Refers(s) == [k \in Ids |-> Cardinality({i \in DOMAIN s : s[i].pkt = k})]

\* References are given up; a packet without any is destroyed.
Released(mem, n) ==
  [k \in DOMAIN mem |->
     [live |-> mem[k].live /\ ~(n[k] > 0 /\ mem[k].count = n[k]), count |-> mem[k].count - n[k]]]

(***************************************************************************)
(* enet_peer_send() to the peers of S, which accept the packet k.  num is  *)
(* what an unreliable command is numbered with: distinct from the other    *)
(* commands of the channel, not from those of another channel.             *)
(* Unsequenced commands all have the numbers 0.                            *)
(***************************************************************************)
Reliably(kind, size) == kind = "reliable" \/ (size > 1 /\ kind # "unreliableFragment")

Numbering(p, c, kind) ==
  IF kind = "unsequenced" THEN {0}
  ELSE Ids \ {queue[p][i].num : i \in {j \in DOMAIN queue[p] : queue[p][j].ch = c}}

Commands(c, num, size, k) ==
  [i \in 1 .. size |-> [pkt |-> k, ch |-> c, num |-> num, first |-> i = 1]]

Enter(S, c, kind, size, k) ==
  IF Reliably(kind, size)
  THEN /\ held' = [p \in Peers |->
            IF p \in S THEN [held[p] EXCEPT !["unsent"][k] = size] ELSE held[p]]
       /\ UNCHANGED queue
  ELSE /\ \E num \in [S -> Ids \cup {0}] :
            /\ \A p \in S : num[p] \in Numbering(p, c, kind)
            /\ queue' = [p \in Peers |->
                 IF p \in S THEN queue[p] \o Commands(c, num[p], size, k) ELSE queue[p]]
       /\ UNCHANGED held

\* A mutant: a packet in fragments is counted once.
ReferencesWhole(S, size) == Cardinality(S)

References(S, size) == size * Cardinality(S)

\* send_messages() for one peer.  ok is FALSE when the channel does not exist, the
\* packet is too large or memory runs out: enet_peer_send() returns -1.
SendToPeer(p, c, kind, size, ok) ==
  LET S == IF ok /\ state[p] = "connected" THEN {p} ELSE {}
  IN  /\ Idle /\ NextId \in Ids
      /\ Enter(S, c, kind, size, NextId)
      /\ memory' = Append(memory, [live |-> TRUE, count |-> References(S, size)])
      /\ refused' = IF S = {} THEN refused \cup {NextId} ELSE refused
      /\ UNCHANGED <<state, turn, event>>

\* A mutant: a broadcast that nobody took is not destroyed.
UntakenKept(S) == TRUE

Untaken(S) == S # {}

\* send_messages() of a broadcast: enet_host_broadcast() destroys what nobody took.
Broadcast(c, kind, size, ok) ==
  LET S == {p \in Peers : ok /\ state[p] = "connected"}
  IN  /\ Idle /\ NextId \in Ids
      /\ Enter(S, c, kind, size, NextId)
      /\ memory' = Append(memory, [live |-> Untaken(S), count |-> References(S, size)])
      /\ UNCHANGED <<state, turn, event, refused>>

(***************************************************************************)
(* enet_peer_reset_queues(), with which every way to end a connection      *)
(* begins: enet_peer_reset(), enet_peer_disconnect(), _now() and, at once  *)
(* or when its time has come, _later(); a DISCONNECT that arrives, and the *)
(* timeout of a command.                                                   *)
(***************************************************************************)
AllOf(h, p) ==
  Plus(Plus(Plus(h[p]["unsent"], h[p]["resend"]), Plus(h[p]["sent"], h[p]["datagram"])),
       Plus(h[p]["incoming"], Refers(queue[p])))

\* From the lists and the memory that it finds.
ResetQueues(p, h, mem) ==
  /\ memory' = Released(mem, AllOf(h, p))
  /\ held' = [h EXCEPT ![p] = [l \in Lists |-> None]]
  /\ queue' = [queue EXCEPT ![p] = <<>>]
  /\ state' = [state EXCEPT ![p] = "gone"]

NothingQueued(h, p) ==
  queue[p] = <<>> /\ \A l \in {"unsent", "resend", "sent"} : h[p][l] = None

Up(p) == state[p] \in {"connected", "later"}

Connect(p) ==
  /\ Idle /\ state[p] = "gone"
  /\ state' = [state EXCEPT ![p] = "connected"]
  /\ UNCHANGED <<held, queue, memory, turn, event, refused>>

Disconnect(p) ==
  /\ Idle /\ Up(p)
  /\ ResetQueues(p, held, memory)
  /\ UNCHANGED <<turn, event, refused>>

DisconnectLater(p) ==
  /\ Idle /\ Up(p)
  /\ IF NothingQueued(held, p)
     THEN ResetQueues(p, held, memory)
     ELSE /\ state' = [state EXCEPT ![p] = "later"]
          /\ UNCHANGED <<held, queue, memory>>
  /\ UNCHANGED <<turn, event, refused>>

(***************************************************************************)
(* A turn of enet_protocol_send_outgoing_commands(): late commands go back *)
(* to the outgoing list, reliable ones are put into the datagram, then     *)
(* unreliable ones, which the throttle may drop; then the socket reads the *)
(* buffers.                                                                *)
(***************************************************************************)
\* late has timed out; of what is queued, again and first are sent.
SendReliable(p, late, again, first) ==
  /\ Idle /\ Up(p)
  /\ turn' = [at |-> IF queue[p] = <<>> THEN "ready" ELSE "unreliable",
              peer |-> p, buffers |-> Packets(Plus(again, first))]
  /\ held' = [held EXCEPT
       ![p]["unsent"] = Minus(@, first),
       ![p]["resend"] = Minus(Plus(@, late), again),
       ![p]["sent"] = Plus(Minus(@, late), Plus(again, first))]
  /\ UNCHANGED <<state, queue, memory, event, refused>>

\* A mutant: the reference is given up when the command is in the datagram.
PutUnreliableReleased ==
  LET p == turn.peer
  IN  /\ turn.at = "unreliable" /\ queue[p] # <<>>
      /\ turn' = [turn EXCEPT !.buffers = @ \cup {queue[p][1].pkt}]
      /\ memory' = Released(memory, One(queue[p][1].pkt))
      /\ queue' = [queue EXCEPT ![p] = Tail(@)]
      /\ UNCHANGED <<state, held, event, refused>>

PutUnreliable ==
  LET p == turn.peer
  IN  /\ turn.at = "unreliable" /\ queue[p] # <<>>
      /\ turn' = [turn EXCEPT !.buffers = @ \cup {queue[p][1].pkt}]
      /\ held' = [held EXCEPT ![p]["datagram"][queue[p][1].pkt] = @ + 1]
      /\ queue' = [queue EXCEPT ![p] = Tail(@)]
      /\ UNCHANGED <<state, memory, event, refused>>

\* How many commands are dropped with the first: those that follow it with its numbers.
DroppedRun(q) == Max({n \in DOMAIN q : \A i \in 1 .. n : q[i].num = q[1].num})

\* The throttle drops the next packet.
Throttle ==
  LET p == turn.peer
      q == queue[p]
      n == DroppedRun(q)
  IN  /\ turn.at = "unreliable" /\ q # <<>>
      /\ q[1].first
      /\ memory' = Released(memory, Refers(SubSeq(q, 1, n)))
      /\ queue' = [queue EXCEPT ![p] = SubSeq(q, n + 1, Len(q))]
      /\ UNCHANGED <<state, held, turn, event, refused>>

\* The unreliable list is empty or the datagram is full; a disconnection that
\* waited for the queues begins.
EndUnreliable ==
  LET p == turn.peer
  IN  /\ turn.at = "unreliable"
      /\ turn' = [turn EXCEPT !.at = "ready"]
      /\ IF state[p] = "later" /\ NothingQueued(held, p)
         THEN ResetQueues(p, held, memory)
         ELSE UNCHANGED <<state, held, queue, memory>>
      /\ UNCHANGED <<event, refused>>

\* A mutant: the unreliable commands that were sent keep their references.
SentUnreliableKept(p) == None

SentUnreliable(p) == held[p]["datagram"]

\* enet_socket_send() reads the buffers; the unreliable commands are done with.
SocketSend ==
  LET p == turn.peer
  IN  /\ turn.at = "ready"
      /\ memory' = Released(memory, SentUnreliable(p))
      /\ held' = [held EXCEPT ![p]["datagram"] = None]
      /\ turn' = NoTurn
      /\ UNCHANGED <<state, queue, event, refused>>

\* An acknowledgement of a command in the list l.
Acknowledge(p, l, k) ==
  LET h   == [held EXCEPT ![p][l] = Minus(@, One(k))]
      mem == Released(memory, One(k))
  IN  /\ Idle /\ held[p][l][k] > 0
      /\ IF state[p] = "later" /\ NothingQueued(h, p)
         THEN ResetQueues(p, h, mem)
         ELSE /\ held' = h
              /\ memory' = mem
              /\ UNCHANGED <<state, queue>>
      /\ UNCHANGED <<turn, event, refused>>

(***************************************************************************)
(* Incoming packets.                                                       *)
(***************************************************************************)
\* Data arrives and is queued; the commands old are dropped with it.
Arrive(p, old) ==
  LET now == Plus(held[p]["incoming"], One(NextId))
  IN  /\ Idle /\ state[p] = "connected" /\ NextId \in Ids
      /\ old \in Parts(now)
      /\ memory' = Released(Append(memory, [live |-> TRUE, count |-> 1]), old)
      /\ held' = [held EXCEPT ![p]["incoming"] = Minus(now, old)]
      /\ UNCHANGED <<state, queue, turn, event, refused>>

\* A mutant: a packet without references is destroyed here as well.
ReceivedDestroyed(mem, k) == [mem EXCEPT ![k] = [live |-> FALSE, count |-> 0]]

\* enet_peer_receive() leaves a packet without references to the application.
ReceivedBy(mem, k) == [mem EXCEPT ![k].count = @ - 1]

Receive(p, k) ==
  /\ Idle /\ state[p] = "connected" /\ held[p]["incoming"][k] > 0
  /\ event' = k
  /\ memory' = ReceivedBy(memory, k)
  /\ held' = [held EXCEPT ![p]["incoming"][k] = 0]
  /\ UNCHANGED <<state, queue, turn, refused>>

\* new_event() copies the data and destroys the packet.
NewEvent ==
  /\ event # 0
  /\ memory' = [memory EXCEPT ![event].live = FALSE]
  /\ event' = 0
  /\ UNCHANGED <<state, held, queue, turn, refused>>

Next ==
  \/ \E c \in Channels, kind \in Kinds, size \in Sizes, ok \in BOOLEAN :
       Broadcast(c, kind, size, ok) \/ \E p \in Peers : SendToPeer(p, c, kind, size, ok)
  \/ \E p \in Peers :
       \/ Connect(p) \/ Disconnect(p) \/ DisconnectLater(p)
       \/ \E late \in Parts(held[p]["sent"]), first \in Parts(held[p]["unsent"]) :
            \E again \in Parts(Plus(held[p]["resend"], late)) : SendReliable(p, late, again, first)
       \/ \E l \in {"sent", "resend"}, k \in Ids : Acknowledge(p, l, k)
       \/ \E old \in [Ids -> 0 .. 1] : Arrive(p, old)
       \/ \E k \in Ids : Receive(p, k)
  \/ PutUnreliable \/ Throttle \/ EndUnreliable \/ SocketSend \/ NewEvent

Spec == Init /\ [][Next]_vars

--------------------------------------------------------------------------------
\* Types; a referenceCount is never negative.
TypeOK ==
  /\ state \in [Peers -> {"connected", "later", "gone"}]
  /\ held \in [Peers -> [Lists -> [Ids -> 0 .. Max(Sizes)]]]
  /\ \A p \in Peers : \A i \in DOMAIN queue[p] :
       queue[p][i] \in [pkt : Ids, ch : Channels, num : Ids \cup {0}, first : BOOLEAN]
  /\ \A k \in DOMAIN memory : memory[k] \in [live : BOOLEAN, count : Nat]
  /\ turn.at \in {"none", "unreliable", "ready"} /\ turn.buffers \subseteq Ids
  /\ event \in 0 .. Len(memory) /\ refused \subseteq Ids

\* The commands that refer to a packet, of all peers.
ReferencesTo(k) == Cardinality(UNION {{p} \X (1 .. AllOf(held, p)[k]) : p \in Peers})

(***************************************************************************)
(* A packet's referenceCount is the number of commands, of all peers, that *)
(* refer to it: through fragments, broadcasts, retransmissions, drops by   *)
(* the throttle and disconnections in the middle of a turn.                *)
(***************************************************************************)
CountsReferences == \A k \in DOMAIN memory : memory[k].count = ReferencesTo(k)

(***************************************************************************)
(* Types, and reference counts that say who refers to a packet.            *)
(***************************************************************************)
PacketInv == TypeOK /\ CountsReferences

(***************************************************************************)
(* The packets that the assembled datagram points into are in use until    *)
(* enet_socket_send() has read them, whatever happens in the turn, with    *)
(* one exception: a disconnection that waited for the queues begins in the *)
(* middle of the turn, frees them, and the socket reads freed memory       *)
(* (enet/protocol.cpp:1410).                                               *)
(***************************************************************************)
BuffersLive ==
  turn.at # "none" => state[turn.peer] = "gone" \/ \A k \in turn.buffers : memory[k].live

(***************************************************************************)
(* No queue, no event and no datagram that is being assembled refers to a  *)
(* packet that was destroyed, but for that exception.                      *)
(***************************************************************************)
NothingDangles ==
  /\ \A k \in DOMAIN memory : ReferencesTo(k) > 0 => memory[k].live
  /\ event # 0 => memory[event].live
  /\ BuffersLive

(***************************************************************************)
(* A packet that is in no queue is destroyed, but for those that           *)
(* enet_peer_send() refused: send_messages() does not look at its result,  *)
(* and these are never freed.                                              *)
(***************************************************************************)
OnlyRefusedLeak ==
  \A k \in DOMAIN memory : memory[k].live => k \in refused \/ k = event \/ ReferencesTo(k) > 0

================================================================================
