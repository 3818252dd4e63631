----------------------------- MODULE ENetDelivery ------------------------------
(***************************************************************************)
(* Packets of every kind from one ENet peer to another.  The sender gives  *)
(* each packet its sequence numbers (enet_peer_send,                       *)
(* enet_peer_setup_outgoing_command); the network may lose, delay, reorder *)
(* and duplicate every command; the receiver is ENetReceive.               *)
(*                                                                         *)
(* A command that was sent stays on the wire, so that it may arrive at any *)
(* time and any number of times, or never.  This covers retransmission by  *)
(* the sender, the throttle that drops unreliable packets, and datagrams   *)
(* cut in any way.  Sequence numbers of reliable commands do not wrap in   *)
(* this module; ENetReliable has the wrap-around and the sender's windows. *)
(***************************************************************************)
EXTENDS ENetReceive

CONSTANTS
  Channels,        \* the channels of the connection
  Flags,           \* the packet flags the application uses
  Sizes,           \* the sizes of packets in fragments; 1: no fragmentation
  MaxUnreliable,   \* the last unreliable number, 0xFFFF
  MaxPackets       \* bound: packets sent

VARIABLES
  out,     \* rseq, useq per channel and the unsequenced group of the sender
  wire,    \* commands that were sent
  log,     \* history: per packet, how it was sent
  peer,    \* the receiving peer, a record of ENetReceive
  got,     \* history: the commands enet_peer_receive() has returned
  freed    \* a handler has gone on with a command that was released

vars == <<out, wire, log, peer, got, freed>>

ASSUME DeliveryAssumption ==
  /\ Flags \subseteq {"reliable", "unreliable", "unsequenced", "unreliableFragment"}
  /\ Sizes \subseteq Nat \ {0}
  /\ MaxUnreliable \in Nat \ {0}
  /\ MaxPackets \in Nat

\* The numbers do not come round: a command that arrives late, however late, does
\* not look like one that is ahead.
ASSUME NoWrapAssumption ==
  /\ \A size \in Sizes : MaxPackets * size < (FreeWindows + 2) * WindowSize
  /\ MaxPackets <= FreeUnsequenced * UnsequencedSize

Kinds == {"reliable", "fragment", "unreliable", "unreliableFragment", "unsequenced"}

Init ==
  /\ out = [rseq |-> [c \in Channels |-> 0], useq |-> [c \in Channels |-> 0], group |-> 0]
  /\ wire = {}
  /\ log = <<>>
  /\ peer = FreshReceiver(Channels)
  /\ got = <<>>
  /\ freed = FALSE

(***************************************************************************)
(* enet_peer_send(): which command carries a packet.                       *)
(***************************************************************************)
CommandFor(c, flag, size) ==
  IF size > 1
  THEN IF flag = "unreliableFragment" /\ out.useq[c] < MaxUnreliable
       THEN "unreliableFragment" ELSE "fragment"
  ELSE IF flag = "unsequenced" THEN "unsequenced"
       ELSE IF flag = "reliable" \/ out.useq[c] >= MaxUnreliable THEN "reliable"
       ELSE "unreliable"

\* enet_peer_setup_outgoing_command() for the commands of one packet.
Numbered(c, kind, size) ==
  CASE kind \in {"reliable", "fragment"} ->
         [out EXCEPT !.rseq[c] = @ + size, !.useq[c] = 0]
    [] kind = "unsequenced" -> [out EXCEPT !.group = (@ + 1) % Groups]
    [] OTHER -> [out EXCEPT !.useq[c] = (@ + 1) % (MaxUnreliable + 1)]

Commands(c, kind, size, id) ==
  LET now == Numbered(c, kind, size)
      Fields(i) ==
        [kind |-> kind, ch |-> c, pkt |-> id,
         frag |-> i, count |-> IF size > 1 THEN size ELSE 0,
         seq |-> CASE kind = "fragment"    -> out.rseq[c] + 1 + i
                   [] kind = "unsequenced" -> 0
                   [] OTHER                -> now.rseq[c],
         useq |-> CASE kind = "fragment"    -> out.rseq[c] + 1
                    [] kind = "reliable"    -> 0
                    [] kind = "unsequenced" -> now.group
                    [] OTHER                -> now.useq[c]]
  IN  {Fields(i) : i \in 0 .. size - 1}

Send(c, flag, size) ==
  LET kind == CommandFor(c, flag, size)
      id   == Len(log) + 1
  IN  /\ Len(log) < MaxPackets
      /\ out' = Numbered(c, kind, size)
      /\ wire' = wire \cup Commands(c, kind, size, id)
      /\ log' = Append(log, [ch |-> c, kind |-> kind, size |-> size])
      /\ UNCHANGED <<peer, got, freed>>

(***************************************************************************)
(* A command arrives (enet_protocol_handle_incoming_commands).             *)
(***************************************************************************)
Arrive(cmd) ==
  \E r \in {Handle(peer, cmd)} :
    /\ peer' = r.peer
    /\ freed' = (freed \/ r.freed)
    /\ UNCHANGED <<out, wire, log, got>>

\* The application takes the next packet (enet_peer_receive).
Receive ==
  /\ peer.dispatched # <<>>
  /\ got' = Append(got, Head(peer.dispatched))
  /\ peer' = Received(peer)
  /\ UNCHANGED <<out, wire, log, freed>>

Next ==
  \/ \E c \in Channels, flag \in Flags, size \in Sizes : Send(c, flag, size)
  \/ \E cmd \in wire : Arrive(cmd)
  \/ Receive

Spec == Init /\ [][Next]_vars

--------------------------------------------------------------------------------
Ids == 1 .. Len(log)
Entries ==
  [kind : Kinds, ch : Channels, seq : 0 .. Numbers - 1, useq : 0 .. MaxUnreliable, count : Sizes \cup {0},
   data : SUBSET ((0 .. Max(Sizes) - 1) \X Ids)]

\* Types of the peer record and of the histories.
TypeOK ==
  /\ \A c \in Channels :
       /\ peer.chan[c].rseq \in 0 .. Numbers - 1
       /\ peer.chan[c].useq \in 0 .. MaxUnreliable
       /\ \A i \in DOMAIN peer.chan[c].rel : peer.chan[c].rel[i] \in Entries
       /\ \A i \in DOMAIN peer.chan[c].unrel : peer.chan[c].unrel[i] \in Entries
  /\ \A i \in DOMAIN peer.dispatched : peer.dispatched[i] \in Entries
  /\ peer.waiting \in Nat
  /\ peer.group \in 0 .. Groups - 1 /\ peer.seen \subseteq 0 .. UnsequencedSize - 1
  /\ freed \in BOOLEAN

\* Everything the application has received or will receive next, in order.
Dispatched == got \o peer.dispatched
PacketOf(e) == LET d == CHOOSE x \in e.data : TRUE IN d[2]
OnChannel(c) == {i \in DOMAIN Dispatched : Dispatched[i].ch = c /\ Dispatched[i].kind # "unsequenced"}

(***************************************************************************)
(* A packet is handed over whole, as it was sent: all of its fragments, in *)
(* their places, and none of another packet, whatever fragments of several *)
(* packets arrived in between, twice or after the packet was given up.     *)
(***************************************************************************)
HandedOverWhole ==
  \A i \in DOMAIN Dispatched :
    LET e == Dispatched[i]
        p == PacketOf(e)
    IN  e.kind = log[p].kind /\ e.data = (0 .. log[p].size - 1) \X {p}

(***************************************************************************)
(* On a channel, reliable and unreliable packets are received in the order *)
(* in which they were sent and never twice: an unreliable packet does not  *)
(* overtake a reliable one sent before it, nor come after anything sent    *)
(* later, although the two kinds wait in separate lists.                   *)
(***************************************************************************)
InOrder ==
  \A c \in Channels : \A i, j \in OnChannel(c) :
    i < j => PacketOf(Dispatched[i]) < PacketOf(Dispatched[j])

(***************************************************************************)
(* An unsequenced packet is received at most once, however often the       *)
(* network repeats it and however far the window of groups has moved.      *)
(***************************************************************************)
UnsequencedOnce ==
  \A i, j \in DOMAIN Dispatched :
    i # j /\ Dispatched[i].kind = "unsequenced" => PacketOf(Dispatched[i]) # PacketOf(Dispatched[j])

\* No packet comes twice or behind a later one, whatever the network repeats.
AtMostOnceInOrder == InOrder /\ UnsequencedOnce

(***************************************************************************)
(* The reliable packets of a channel are received as ReliableChannel says: *)
(* exactly the packets sent reliably (which includes large packets of any  *)
(* flag, and small ones when the unreliable numbers are used up), without  *)
(* a gap.                                                                  *)
(***************************************************************************)
SentReliably(c) ==
  Pick([i \in DOMAIN log |-> i],
       {i \in DOMAIN log : log[i].ch = c /\ log[i].kind \in {"reliable", "fragment"}})
GotReliably(c) ==
  Pick([i \in DOMAIN Dispatched |-> PacketOf(Dispatched[i])],
       {i \in OnChannel(c) : IsReliable(Dispatched[i])})

Channel(c) == INSTANCE ReliableChannel WITH
                Packet <- 1 .. MaxPackets, sent <- SentReliably(c), delivered <- GotReliably(c)
ImplementsChannel ==
  /\ \A c \in Channels : Channel(c)!Init
  /\ [][\A c \in Channels : [Channel(c)!Next]_(Channel(c)!vars)]_vars

(***************************************************************************)
(* What waits in a channel is what must wait: the reliable list is sorted  *)
(* and lies ahead of what was delivered, and the unreliable list is sorted *)
(* with no entry older than what was delivered, so that the scans from the *)
(* end, which stop at the first smaller number, find every duplicate.      *)
(***************************************************************************)
ListsSorted ==
  \A c \in Channels :
    LET ch == peer.chan[c]
        After(a, b) == Rank(ch, a.seq) > Rank(ch, b.seq) \/ (a.seq = b.seq /\ a.useq > b.useq)
    IN  /\ \A i \in DOMAIN ch.rel : ch.rel[i].seq # ch.rseq /\ InWindow(ch, ch.rel[i].seq)
        /\ \A i, j \in DOMAIN ch.rel : i < j => After(ch.rel[j], ch.rel[i])
        /\ \A i \in DOMAIN ch.unrel :
             /\ ch.unrel[i].kind # "unsequenced"
             /\ ch.unrel[i].seq = ch.rseq => ch.unrel[i].useq > ch.useq
        /\ \A i, j \in DOMAIN ch.unrel : i < j => After(ch.unrel[j], ch.unrel[i])

(***************************************************************************)
(* totalWaitingData never falls below the buffer space of the packets that *)
(* wait to be delivered: the limit holds, and the subtraction in           *)
(* enet_peer_receive() does not wrap around.  It may be larger: commands   *)
(* that enet_peer_remove_incoming_commands() drops stay counted.           *)
(***************************************************************************)
Units(list, s) == UNION {{<<list, i, k>> : k \in 1 .. DataLength(s[i])} : i \in DOMAIN s}
HeldUnits ==
  Units(<<"dispatched">>, peer.dispatched)
  \cup UNION {Units(<<"rel", c>>, peer.chan[c].rel) \cup Units(<<"unrel", c>>, peer.chan[c].unrel) :
                c \in Channels}
WaitingCoversHeld == Cardinality(HeldUnits) <= peer.waiting

(***************************************************************************)
(* A handler goes on with a command, and the packet in it, that was        *)
(* dropped and released while it was being queued (enet/protocol.cpp:716), *)
(* only if three incomplete unreliable packets are around.  GDNet sends    *)
(* unreliable packets of that size reliably, so its own packets never do   *)
(* it to the host that receives them; other ENet programs' packets may.    *)
(***************************************************************************)
ReleasedOnlyAmongFragments ==
  freed => Cardinality({i \in DOMAIN log : log[i].kind = "unreliableFragment"}) >= 3

(***************************************************************************)
(* What the receiver keeps is in order after every command: its lists, the *)
(* count of what waits, and the commands its handlers hold on to.          *)
(***************************************************************************)
ReceiverInv == TypeOK /\ ListsSorted /\ WaitingCoversHeld /\ ReleasedOnlyAmongFragments

================================================================================
