----------------------------- MODULE ENetReliable ------------------------------
(***************************************************************************)
(* Reliable packets from one ENet peer to another: sequence numbers that   *)
(* wrap around, the sender's reliable windows, acknowledgements, timeouts  *)
(* and retransmission, over a network that may lose, delay, reorder and    *)
(* duplicate commands and acknowledgements.  The receiver is ENetReceive.  *)
(*                                                                         *)
(* A command is identified by its channel and its true number n = 1, 2,    *)
(* ...; on the wire it has n % Numbers, and that is all the code compares. *)
(* The sending loop of enet_protocol_send_reliable_outgoing_commands() is  *)
(* taken one iteration per step, with nothing else happening in between:   *)
(* the datagram leaves when the loop ends.                                 *)
(*                                                                         *)
(* When a command times out is left open here: any commands that were sent *)
(* may, the first of them included.  ENetTimeouts has the clock, and with  *)
(* it the end of a connection whose commands are never acknowledged.       *)
(***************************************************************************)
EXTENDS ENetReceive

CONSTANTS
  Channels,       \* the channels of the connection
  Control,        \* the channel number 0xFF of commands without a packet
  CanLose,        \* whether datagrams disappear for good
  Scenarios       \* what is sent, see below

ASSUME ReliableAssumption ==
  /\ Control \notin Channels
  /\ CanLose \in BOOLEAN
  /\ \A s \in Scenarios :
       /\ s.sizes \subseteq Nat \ {0}
       /\ s.lifetime \in Nat
       /\ \A size \in s.sizes \cup {1} :
            s.lifetime * WindowSize + size - 1 <= (FreeWindows + 1) * WindowSize
       /\ s.budget \in Nat \ {0}
       /\ s.commands \in [Channels \cup {Control} -> Nat]
       /\ s.unsent \in Nat /\ s.unread \in Nat

VARIABLES
  log,        \* per channel, the commands in the order of their numbers
  given,      \* history: per channel, the packets given to enet_peer_send()
  outgoing,   \* outgoingReliableCommands
  sent,       \* sentReliableCommands
  windows,    \* per channel, reliableWindows
  used,       \* per channel, usedReliableWindows
  inTransit,  \* reliableDataInTransit
  loop,       \* the sending loop: position (0: outside), windowWrap, windowExceeded
  net,        \* commands on their way to the receiver
  acks,       \* acknowledgements on their way to the sender
  peer,       \* the receiving peer, a record of ENetReceive
  got,        \* history: per channel, the packets enet_peer_receive() has returned
  scenario    \* constant: a member of Scenarios

(***************************************************************************)
(* A scenario has                                                          *)
(*    sizes      the sizes of packets in fragments; 1: no fragmentation    *)
(*    lifetime   how many windows old a datagram may be when it arrives;   *)
(*               the receiver tells the age of a fragment by the number of *)
(*               the first one, so large packets leave less of it          *)
(*    budget     MAX(windowSize * throttle / scale, mtu), in fragments     *)
(*    commands   bound: commands per channel, those without a packet too   *)
(*    unsent     bound: commands of a channel that were never sent         *)
(*    unread     bound: packets the application has yet to take when a     *)
(*               command arrives                                           *)
(***************************************************************************)
sender == <<log, outgoing, sent, windows, used, inTransit, loop>>
vars == <<log, given, outgoing, sent, windows, used, inTransit, loop, net, acks, peer, got,
          scenario>>

AllChannels == Channels \cup {Control}
WindowIds == 0 .. Windows - 1
NoLoop == [at |-> 0, wrap |-> FALSE, exceeded |-> FALSE]
Outside == loop.at = 0

Init ==
  /\ log = [c \in AllChannels |-> <<>>] /\ given = [c \in Channels |-> <<>>]
  /\ outgoing = <<>> /\ sent = <<>>
  /\ windows = [c \in Channels |-> [w \in WindowIds |-> 0]]
  /\ used = [c \in Channels |-> {}]
  /\ inTransit = 0
  /\ loop = NoLoop
  /\ net = {} /\ acks = {}
  /\ peer = FreshReceiver(Channels)
  /\ got = [c \in Channels |-> <<>>]
  /\ scenario \in Scenarios

(***************************************************************************)
(* Sending.                                                                *)
(***************************************************************************)
Number(o) == o.n % Numbers
WindowOf(o) == Number(o) \div WindowSize
Outgoing(c, n) == [ch |-> c, n |-> n, attempts |-> 0]
HasPacket(o) == o.ch # Control
FragmentLength(o) == IF HasPacket(o) THEN 1 ELSE 0

\* Positions in a list of commands.
WithPacket(list) == {i \in DOMAIN list : HasPacket(list[i])}
Unsent(list, c) == {i \in DOMAIN list : list[i].ch = c /\ list[i].attempts = 0}

\* The i-th command of a packet that takes the numbers after n.
Command(c, n, size, i) ==
  [kind |-> IF size > 1 THEN "fragment" ELSE "reliable", ch |-> c, pkt |-> n + size,
   frag |-> i - 1, count |-> IF size > 1 THEN size ELSE 0, seq |-> (n + i) % Numbers,
   useq |-> IF size > 1 THEN (n + 1) % Numbers ELSE 0]

\* enet_peer_send() and enet_peer_queue_outgoing_command() of a reliable packet.
Send(c, size) ==
  LET n == Len(log[c])
  IN  /\ Outside
      /\ n + size <= scenario.commands[c]
      /\ Cardinality(Unsent(outgoing, c)) + size <= scenario.unsent
      /\ log' = [log EXCEPT ![c] = @ \o [i \in 1 .. size |-> Command(c, n, size, i)]]
      /\ given' = [given EXCEPT ![c] = Append(@, n + size)]
      /\ outgoing' = outgoing \o [i \in 1 .. size |-> Outgoing(c, n + i)]
      /\ UNCHANGED <<sent, windows, used, inTransit, loop, net, acks, peer, got, scenario>>

\* A command without a packet (ping, bandwidth limit, throttle configuration).
SendControl ==
  /\ Outside
  /\ Len(log[Control]) < scenario.commands[Control]
  /\ log' = [log EXCEPT ![Control] = Append(@, [kind |-> "control"])]
  /\ outgoing' = Append(outgoing, Outgoing(Control, Len(log[Control]) + 1))
  /\ UNCHANGED <<given, sent, windows, used, inTransit, loop, net, acks, peer, got, scenario>>

\* A mutant: a full window before the new one does not hold the sender back.
WindowTakenAhead(o) ==
  /\ o.ch # Control
  /\ o.attempts < 1
  /\ Number(o) % WindowSize = 0
  /\ used[o.ch] \cap {(WindowOf(o) + i) % Windows : i \in 0 .. FreeWindows - 1} # {}

\* A new window may be entered if the one before it is not full of unacknowledged
\* commands and the free windows from it on are unused.
WindowTaken(o) ==
  /\ o.ch # Control
  /\ o.attempts < 1
  /\ Number(o) % WindowSize = 0
  /\ \/ windows[o.ch][(WindowOf(o) + Windows - 1) % Windows] >= WindowSize
     \/ used[o.ch] \cap {(WindowOf(o) + i) % Windows : i \in 0 .. FreeWindows - 1} # {}

Wrap(o) == loop.wrap \/ WindowTaken(o)
Exceeded(o) == loop.exceeded \/ inTransit + FragmentLength(o) > scenario.budget
Skipped(o) == o.ch # Control /\ (Wrap(o) \/ Exceeded(o))

BeginSend ==
  /\ Outside /\ outgoing # <<>>
  /\ loop' = [NoLoop EXCEPT !.at = 1]
  /\ UNCHANGED <<log, given, outgoing, sent, windows, used, inTransit, net, acks, peer, got, scenario>>

SkipCommand ==
  /\ loop.at \in DOMAIN outgoing
  /\ LET o == outgoing[loop.at]
     IN  /\ Skipped(o)
         /\ loop' = [at |-> loop.at + 1, wrap |-> Wrap(o),
                     exceeded |-> loop.exceeded \/ (~Wrap(o) /\ Exceeded(o))]
  /\ UNCHANGED <<log, given, outgoing, sent, windows, used, inTransit, net, acks, peer, got, scenario>>

\* A mutant: every attempt is counted in the window.
CountsInWindowAlways(o) == o.ch # Control

CountsInWindow(o) == o.ch # Control /\ o.attempts < 1

PutCommand ==
  /\ loop.at \in DOMAIN outgoing
  /\ LET o == outgoing[loop.at]
     IN  /\ ~Skipped(o)
         /\ outgoing' = RemoveAt(outgoing, loop.at)
         /\ sent' = Append(sent, [o EXCEPT !.attempts = 1])
         /\ IF CountsInWindow(o)
            THEN /\ windows' = [windows EXCEPT ![o.ch][WindowOf(o)] = @ + 1]
                 /\ used' = [used EXCEPT ![o.ch] = @ \cup {WindowOf(o)}]
            ELSE UNCHANGED <<windows, used>>
         /\ inTransit' = inTransit + FragmentLength(o)
         /\ net' = net \cup {<<o.ch, o.n>>}
  /\ UNCHANGED <<log, given, loop, acks, peer, got, scenario>>

\* The list is at its end, or the datagram is full.
EndSend ==
  /\ loop.at > 0
  /\ loop.at \in DOMAIN outgoing => ~Skipped(outgoing[loop.at])
  /\ loop' = NoLoop
  /\ UNCHANGED <<log, given, outgoing, sent, windows, used, inTransit, net, acks, peer, got, scenario>>

(***************************************************************************)
(* enet_protocol_check_timeouts(): commands that timed out go back to the  *)
(* head of the outgoing list, in their order.  It runs when nextTimeout,   *)
(* the timeout of the first sent command, has passed.                      *)
(***************************************************************************)
\* A mutant: commands that timed out are queued behind the others.
RequeuedLast(late) == outgoing \o late

\* A mutant: commands that timed out are given up.
RequeuedNever(late) == outgoing

Requeued(late) == late \o outgoing

\* A mutant: what timed out is still counted as in transit.
TransitAfterTimeoutSame(late) == inTransit

TransitAfterTimeout(late) == inTransit - Cardinality(WithPacket(late))

CheckTimeouts(S) ==
  LET late == Pick(sent, S)
  IN  /\ Outside /\ 1 \in S
      /\ outgoing' = Requeued(late)
      /\ sent' = Pick(sent, DOMAIN sent \ S)
      /\ inTransit' = TransitAfterTimeout(late)
      /\ UNCHANGED <<log, given, windows, used, loop, net, acks, peer, got, scenario>>

(***************************************************************************)
(* Acknowledgements (enet_protocol_handle_acknowledge and                  *)
(* enet_protocol_remove_sent_reliable_command).                            *)
(***************************************************************************)
Matches(o, c, seq) == o.ch = c /\ Number(o) = seq
FirstIn(s, c, seq) == Min({i \in DOMAIN s : Matches(s[i], c, seq)} \cup {Len(s) + 1})

\* The outgoing list is searched as far as the commands were sent before.
Searched == {i \in DOMAIN outgoing : \A j \in 1 .. i : outgoing[j].attempts >= 1}

LeaveWindow(o) ==
  IF o.ch # Control /\ windows[o.ch][WindowOf(o)] > 0
  THEN /\ windows' = [windows EXCEPT ![o.ch][WindowOf(o)] = @ - 1]
       /\ used' = IF windows[o.ch][WindowOf(o)] = 1
                  THEN [used EXCEPT ![o.ch] = @ \ {WindowOf(o)}] ELSE used
  ELSE UNCHANGED <<windows, used>>

Acknowledge(c, seq) ==
  LET i == FirstIn(sent, c, seq)
      j == FirstIn(outgoing, c, seq)
  IN  \/ /\ i <= Len(sent)
         /\ LeaveWindow(sent[i])
         /\ sent' = RemoveAt(sent, i)
         /\ inTransit' = inTransit - FragmentLength(sent[i])
         /\ UNCHANGED outgoing
      \/ /\ i > Len(sent) /\ j \in Searched
         /\ LeaveWindow(outgoing[j])
         /\ outgoing' = RemoveAt(outgoing, j)
         /\ UNCHANGED <<sent, inTransit>>
      \/ /\ i > Len(sent) /\ j \notin Searched
         /\ UNCHANGED <<outgoing, sent, windows, used, inTransit>>

(***************************************************************************)
(* The network.  A datagram may arrive again and again; one that is more   *)
(* than scenario.lifetime windows behind what has been received, or sent,  *)
(* is gone.                                                                *)
(***************************************************************************)
TrueWindow(n) == n \div WindowSize
\* A packet is named by the number of its last command; 0 stands for a packet
\* that is not whole.
PacketOf(e) == LET d == CHOOSE x \in e.data : TRUE
               IN  IF e.data = (0 .. DataLength(e) - 1) \X {d[2]} THEN d[2] ELSE 0
OfChannel(q, c) == Pick(q, {i \in DOMAIN q : q[i].ch = c})
PacketsOf(q, c) == LET s == OfChannel(q, c) IN [i \in DOMAIN s |-> PacketOf(s[i])]
Waiting(c) == PacketsOf(peer.dispatched, c)
Delivered(c) == got[c] \o Waiting(c)
ReceivedUpTo(c) == LET s == Delivered(c) IN IF s = <<>> THEN 0 ELSE s[Len(s)]
SentUpTo(c) == Len(log[c]) - Cardinality(Unsent(outgoing, c))

\* enet_protocol_handle_incoming_commands() for one reliable command.
Arrive(c, n) ==
  /\ Outside
  /\ <<c, n>> \in net
  /\ Len(peer.dispatched) <= scenario.unread
  /\ IF c = Control
     THEN acks' = acks \cup {<<c, n>>} /\ UNCHANGED peer
     ELSE /\ TrueWindow(n) + scenario.lifetime >= TrueWindow(ReceivedUpTo(c))
          /\ \E r \in {Handle(peer, log[c][n])} :
               /\ peer' = r.peer
               /\ acks' = IF r.ok /\ ~NotAcknowledged(r.peer.chan[c], n % Numbers)
                          THEN acks \cup {<<c, n>>} ELSE acks
  /\ UNCHANGED <<log, given, outgoing, sent, windows, used, inTransit, loop, net, got, scenario>>

ArriveAck(c, n) ==
  /\ Outside
  /\ <<c, n>> \in acks
  /\ TrueWindow(n) + scenario.lifetime >= TrueWindow(SentUpTo(c))
  /\ Acknowledge(c, n % Numbers)
  /\ UNCHANGED <<log, given, loop, net, acks, peer, got, scenario>>

LoseCommand(c, n) ==
  /\ CanLose /\ Outside
  /\ <<c, n>> \in net
  /\ net' = net \ {<<c, n>>}
  /\ UNCHANGED <<log, given, outgoing, sent, windows, used, inTransit, loop, acks, peer, got, scenario>>

LoseAck(c, n) ==
  /\ CanLose /\ Outside
  /\ <<c, n>> \in acks
  /\ acks' = acks \ {<<c, n>>}
  /\ UNCHANGED <<log, given, outgoing, sent, windows, used, inTransit, loop, net, peer, got, scenario>>

\* The application takes the next packet (enet_peer_receive).
Receive ==
  /\ Outside
  /\ peer.dispatched # <<>>
  /\ LET e == Head(peer.dispatched) IN got' = [got EXCEPT ![e.ch] = Append(@, PacketOf(e))]
  /\ peer' = Received(peer)
  /\ UNCHANGED <<log, given, outgoing, sent, windows, used, inTransit, loop, net, acks, scenario>>

SendLoop == BeginSend \/ SkipCommand \/ PutCommand \/ EndSend

Next ==
  \/ \E c \in Channels, size \in scenario.sizes : Send(c, size)
  \/ SendControl
  \/ SendLoop
  \/ \E S \in SUBSET DOMAIN sent : CheckTimeouts(S)
  \/ \E c \in AllChannels : \E n \in DOMAIN log[c] :
       Arrive(c, n) \/ ArriveAck(c, n) \/ LoseCommand(c, n) \/ LoseAck(c, n)
  \/ Receive

Spec == Init /\ [][Next]_vars

\* The numbers the commands of a channel may have.
Numbered(c) == UNION {1 .. s.commands[c] : s \in Scenarios}

(***************************************************************************)
(* Fairness.  enet_host_service() is called again and again by the network *)
(* threads: queued commands are sent, what is not acknowledged times out,  *)
(* dispatched packets are taken.  The network loses, but a command or an   *)
(* acknowledgement that is sent again and again arrives now and then.      *)
(* Strong fairness, because a turn of the sending loop, one call in the    *)
(* code, disables the other actions here for some steps.                   *)
(***************************************************************************)
Fairness ==
  /\ WF_vars(SendLoop)
  /\ SF_vars(PutCommand)
  /\ SF_vars(\E S \in SUBSET DOMAIN sent : CheckTimeouts(S))
  /\ SF_vars(Receive)
  /\ \A c \in AllChannels : \A n \in Numbered(c) :
       /\ SF_vars(n \in DOMAIN log[c] /\ Arrive(c, n))
       /\ SF_vars(ArriveAck(c, n))

FairSpec == Spec /\ Fairness

--------------------------------------------------------------------------------
Commands == [ch : AllChannels, n : Nat \ {0}, attempts : 0 .. 1]

\* Types of the sender's state.
TypeOK ==
  /\ \A i \in DOMAIN outgoing : outgoing[i] \in Commands
  /\ \A i \in DOMAIN sent : sent[i] \in Commands
  /\ windows \in [Channels -> [WindowIds -> 0 .. WindowSize]]
  /\ used \in [Channels -> SUBSET WindowIds]
  /\ inTransit \in 0 .. scenario.budget
  /\ loop \in [at : 0 .. Len(outgoing) + 1, wrap : BOOLEAN, exceeded : BOOLEAN]

Held(s, c) == {s[i].n : i \in {j \in DOMAIN s : s[j].ch = c}}
Unacknowledged(c) ==
  LET last == SentUpTo(c) IN {n \in Held(sent, c) \cup Held(outgoing, c) : n <= last}

(***************************************************************************)
(* The packets of a channel arrive as ReliableChannel says, whole, once    *)
(* and in order, although numbers are used again after a round and old     *)
(* datagrams still arrive.                                                 *)
(***************************************************************************)
Channel(c) == INSTANCE ReliableChannel WITH
                Packet <- Numbered(c), sent <- given[c], delivered <- Delivered(c)
ImplementsChannel ==
  /\ \A c \in Channels : Channel(c)!Init
  /\ [][\A c \in Channels : [Channel(c)!Next]_(Channel(c)!vars)]_vars

(***************************************************************************)
(* The sender forgets a command only when the receiver has it: an          *)
(* acknowledgement never belongs to a command that was refused, and a late *)
(* one never to a command of the next round.                               *)
(***************************************************************************)
StoredAt(c, n) ==
  \E i \in DOMAIN peer.chan[c].rel : \E d \in peer.chan[c].rel[i].data :
    d = <<log[c][n].frag, log[c][n].pkt>>
AcknowledgedIsHeld ==
  \A c \in Channels :
    LET unacknowledged == Unacknowledged(c)
    IN  \A n \in ReceivedUpTo(c) + 1 .. SentUpTo(c) : n \in unacknowledged \/ StoredAt(c, n)

(***************************************************************************)
(* The sender is never so far ahead that a new command falls into windows  *)
(* the receiver takes for old ones.                                        *)
(***************************************************************************)
NeverTooFarAhead ==
  \A c \in Channels :
    TrueWindow(SentUpTo(c)) < TrueWindow(ReceivedUpTo(c)) + FreeWindows

(***************************************************************************)
(* The two ends agree on what has been received: what the sender forgot,   *)
(* and how far ahead of the receiver it may be.                            *)
(***************************************************************************)
EndsAgree == AcknowledgedIsHeld /\ NeverTooFarAhead

(***************************************************************************)
(* reliableWindows counts the unacknowledged commands of each window, and  *)
(* usedReliableWindows has the windows where there are some, through       *)
(* retransmissions and acknowledgements in any order.                      *)
(***************************************************************************)
WindowCounts ==
  \A c \in Channels :
    LET unacknowledged == Unacknowledged(c)
    IN  \A w \in WindowIds :
          /\ windows[c][w] = Cardinality({n \in unacknowledged : TrueWindow(n) % Windows = w})
          /\ w \in used[c] <=> windows[c][w] > 0

(***************************************************************************)
(* reliableDataInTransit is the data of the commands that are sent and     *)
(* neither acknowledged nor timed out.                                     *)
(***************************************************************************)
TransitCount == inTransit = Cardinality(WithPacket(sent))

(***************************************************************************)
(* Commands to be sent again come before the commands that were never      *)
(* sent; the search in enet_protocol_remove_sent_reliable_command() stops  *)
(* at the first of the latter.                                             *)
(***************************************************************************)
RetransmissionsFirst ==
  Outside => \A i, j \in DOMAIN outgoing :
    i < j /\ outgoing[j].attempts > 0 => outgoing[i].attempts > 0

(***************************************************************************)
(* What the sender keeps is in order through sending, timeouts and         *)
(* acknowledgements: its windows, its count of data in transit, its lists. *)
(***************************************************************************)
SenderInv == TypeOK /\ WindowCounts /\ TransitCount /\ RetransmissionsFirst

(***************************************************************************)
(* Every reliable packet is delivered in the end.                          *)
(***************************************************************************)
EveryPacketArrives ==
  \A c \in Channels : \A n \in Numbered(c) :
    Len(log[c]) >= n ~> ReceivedUpTo(c) >= n

================================================================================
