---------------------------- MODULE ENetConnection ---------------------------
(***************************************************************************)
(* The connection protocol of the bundled ENet (enet/protocol.cpp,         *)
(* enet/peer.cpp, enet/host.cpp): how peers of hosts that exchange UDP     *)
(* datagrams are connected, kept alive, timed out and disconnected.        *)
(*                                                                         *)
(* A host is a record, and each C function that changes a host or a peer   *)
(* is an operator from the record before to the record after.  The field   *)
(* "out" collects the datagrams that a step sends; it is empty between     *)
(* steps.  The actions are what the application may call, one peer's turn  *)
(* in the loop of enet_protocol_send_outgoing_commands(), the receipt of   *)
(* one datagram, and enet_protocol_dispatch_incoming_commands().           *)
(*                                                                         *)
(* A datagram carries one command.  ENet packs several into one, but every *)
(* handler checks the peer's state again, so splitting a datagram only     *)
(* adds behaviours.  Time is abstracted: a command in flight may expire at *)
(* any time, and a peer may be dropped whenever one of its commands has.   *)
(***************************************************************************)
EXTENDS Integers, Sequences, FiniteSets

CONSTANTS Hosts,        \* their addresses
          PeerCount,    \* host->peerCount, by host
          NoHost,       \* the address of a peer that was never used
          Duplicating,  \* the network may deliver a datagram more than once
          Scenarios     \* who calls, and the bounds of an instance, see below

ASSUME ConnectionAssumption ==
    /\ PeerCount \in [Hosts -> Nat \ {0}]
    /\ NoHost \notin Hosts
    /\ Duplicating \in BOOLEAN
    /\ Scenarios \subseteq [callers : SUBSET Hosts, connects : Nat, accepts : Nat, data : Nat,
                           restarts : Nat, pings : Nat, tries : Nat]

VARIABLES host,       \* the ENetHost of each address
          net,        \* the datagrams in transit
          lastID,     \* the latest connectID; host->randomSeed makes them differ
          accepts,    \* how many requests were accepted
          restarts,   \* how many hosts were unbound and bound again
          scenario    \* constant: which hosts call enet_host_connect(); bounds on the
                      \* calls, the requests that are accepted, the packets that wait
                      \* to be dispatched, the restarts, the pings of a connection, and
                      \* the retransmissions in a row without an answer

vars == <<host, net, lastID, accepts, restarts, scenario>>

Slots(h) == 0 .. PeerCount[h] - 1

NoID == 4095        \* ENET_PROTOCOL_MAXIMUM_PEER_ID: the peer's ID is unknown
NoSession == 255    \* 0xFF: no session yet

\* CONNECTION_PENDING and CONNECTION_SUCCEEDED are missing: they occur only
\* when enet_host_service() is called without an event, which GDNet never does.
States == {"DISCONNECTED", "CONNECTING", "ACKNOWLEDGING_CONNECT", "CONNECTED",
           "DISCONNECT_LATER", "DISCONNECTING", "ACKNOWLEDGING_DISCONNECT", "ZOMBIE"}

Up == {"CONNECTED", "DISCONNECT_LATER"}

\* The states in which enet_peer_disconnect() has nothing to do.
Leaving == {"DISCONNECTING", "DISCONNECTED", "ACKNOWLEDGING_DISCONNECT", "ZOMBIE"}

\* A peer.  "view" is not part of the program: it is what the application
\* knows from its own calls and the events it was given.
FreshPeer ==
    [state |-> "DISCONNECTED", addr |-> NoHost, cid |-> 0, outID |-> NoID,
     inS |-> NoSession, outS |-> NoSession, seq |-> 0,
     outR |-> {}, outU |-> {}, sent |-> {}, acks |-> {}, inq |-> 0,
     needs |-> FALSE, tries |-> 0, view |-> "down"]

FreshHost(h) == [addr |-> h, peers |-> [i \in Slots(h) |-> FreshPeer],
                 dispatch |-> <<>>, connected |-> 0, out |-> {}]

-----------------------------------------------------------------------------
(* The functions on a peer, and on a peer of a host. *)

\* enet_peer_reset_queues(), but for the host's dispatchQueue ...
Emptied(p) == [p EXCEPT !.acks = {}, !.sent = {}, !.outR = {}, !.outU = {},
                        !.inq = 0, !.needs = FALSE]

\* A mutant: the peer stays in the dispatchQueue.
DispatchKept(H, i) == H.dispatch

\* enet_list_remove() of the n-th node.
Unlinked(q, n) == [k \in 1 .. Len(q) - 1 |-> q[IF k < n THEN k ELSE k + 1]]

\* ... which the peer leaves if it is there.
DispatchWithout(H, i) ==
    IF H.peers[i].needs
    THEN Unlinked(H.dispatch, CHOOSE n \in 1 .. Len(H.dispatch) : H.dispatch[n] = i)
    ELSE H.dispatch

\* enet_peer_queue_outgoing_command() for the channel 0xFF.
QueueReliable(p, c) ==
    [p EXCEPT !.seq = @ + 1, !.outR = @ \cup {[c EXCEPT !.seq = p.seq + 1]}]

QueueUnreliable(p, c) ==
    [p EXCEPT !.seq = @ + 1, !.outU = @ \cup {[c EXCEPT !.seq = p.seq + 1]}]

PingCommand == [type |-> "PING", seq |-> 0]

DisconnectCommand(flag) == [type |-> "DISCONNECT", seq |-> 0, ack |-> flag]

NothingQueued(p) == p.outR = {} /\ p.outU = {} /\ p.sent = {}

\* When enet_peer_ping() does something.
CanPing(p) == p.state = "CONNECTED" /\ p.seq <= scenario.pings

\* A mutant: every change to another state counts a disconnection.
ConnectionsUnchecked(old, new) == IF new \in Up THEN 1 ELSE -1

\* enet_peer_on_connect() and enet_peer_on_disconnect().
Connections(old, new) == IF old \notin Up /\ new \in Up THEN 1
                         ELSE IF old \in Up /\ new \notin Up THEN -1
                         ELSE 0

ChangeState(H, i, state) ==
    [H EXCEPT !.peers[i].state = state,
              !.connected = @ + Connections(H.peers[i].state, state)]

\* Put the peer in the host's dispatchQueue, unless it is there.
NeedsDispatch(H, i) ==
    IF H.peers[i].needs THEN H
    ELSE [H EXCEPT !.peers[i].needs = TRUE, !.dispatch = Append(@, i)]

DispatchState(H, i, state) == NeedsDispatch(ChangeState(H, i, state), i)

ResetQueues(H, i) == [H EXCEPT !.peers[i] = Emptied(@), !.dispatch = DispatchWithout(H, i)]

\* enet_peer_reset() keeps the address and both session IDs.
ResetPeer(H, i) ==
    [H EXCEPT !.peers[i] = [Emptied(@) EXCEPT !.state = "DISCONNECTED", !.outID = NoID,
                                              !.cid = 0, !.seq = 0, !.tries = 0],
              !.connected = @ + Connections(H.peers[i].state, "DISCONNECTED"),
              !.dispatch = DispatchWithout(H, i)]

\* A mutant: enet_peer_on_disconnect() is not called.
BeginDisconnectUncounted(H, i) ==
    [H EXCEPT !.peers[i] = [QueueReliable(Emptied(@), DisconnectCommand(TRUE))
                                EXCEPT !.state = "DISCONNECTING"],
              !.dispatch = DispatchWithout(H, i)]

\* enet_peer_disconnect() for a peer that is up.
BeginDisconnect(H, i) ==
    [H EXCEPT !.peers[i] = [QueueReliable(Emptied(@), DisconnectCommand(TRUE))
                                EXCEPT !.state = "DISCONNECTING"],
              !.connected = @ + Connections(H.peers[i].state, "DISCONNECTING"),
              !.dispatch = DispatchWithout(H, i)]

\* The application learns something about the peer.
View(H, i, v) == [H EXCEPT !.peers[i].view = v]

\* Both notify functions hand their event to the application at once.
NotifyConnect(H, i) == View(ChangeState(H, i, "CONNECTED"), i, "up")

\* A mutant: an attempt to connect that fails is not reported.
NotifyDisconnectSilently(H, i) ==
    IF H.peers[i].state \in {"DISCONNECTED", "CONNECTING", "ACKNOWLEDGING_CONNECT"}
    THEN ResetPeer(H, i)
    ELSE View(ResetPeer(H, i), i, "down")

NotifyDisconnect(H, i) ==
    IF H.peers[i].state \in {"DISCONNECTED", "ACKNOWLEDGING_CONNECT"}
    THEN ResetPeer(H, i)
    ELSE View(ResetPeer(H, i), i, "down")

-----------------------------------------------------------------------------
(* Sending: one peer's turn in enet_protocol_send_outgoing_commands(). *)

Datagram(H, i, c) ==
    LET p == H.peers[i] IN
    [src |-> H.addr, dst |-> p.addr, peerID |-> p.outID,
     session |-> IF p.outID = NoID THEN 0 ELSE p.outS, cmd |-> c]

\* The acknowledgement of a DISCONNECT makes the peer a ZOMBIE.
SendAcknowledgements(H, i) ==
    LET G == [H EXCEPT !.peers[i].acks = {}] IN
    IF \E c \in H.peers[i].acks : c.type = "DISCONNECT"
    THEN DispatchState(G, i, "ZOMBIE") ELSE G

\* The peers that have nothing in flight: if they were not heard of for a
\* while, they are pinged in their turn.
Silent(H) == {i \in DOMAIN H.peers : /\ CanPing(H.peers[i])
                                     /\ H.peers[i].outR = {} /\ H.peers[i].sent = {}}

\* What is new joins what is in flight.
SendReliable(p, expired) == [p EXCEPT !.sent = @ \cup p.outR, !.outR = {},
                                      !.tries = IF expired = {} THEN @ ELSE @ + 1]

\* If the unreliable commands that p held were all that a peer to be
\* disconnected later was waiting for, it is disconnected.
SendUnreliable(H, i, p) ==
    IF p.state = "DISCONNECT_LATER" /\ p.outU # {} /\ p.outR \cup p.sent = {}
    THEN BeginDisconnect(H, i) ELSE H

\* The commands of one turn leave together: the acknowledgements, what has
\* expired, what is new, and the unreliable ones.
Turn(H, i, expired, ping) ==
    LET p == H.peers[i]
        q == IF ping /\ i \in Silent(H) THEN QueueReliable(p, PingCommand) ELSE p
        acks == {[type |-> "ACK", seq |-> c.seq] : c \in p.acks}
        cmds == acks \cup expired \cup q.outR \cup q.outU
        G == [SendAcknowledgements(H, i) EXCEPT
                 !.peers[i] = [SendReliable([@ EXCEPT !.seq = q.seq, !.outR = q.outR], expired)
                                  EXCEPT !.outU = {}],
                 !.out = @ \cup {Datagram(H, i, c) : c \in cmds}]
    IN  IF p.state \in {"DISCONNECTED", "ZOMBIE"} THEN H ELSE SendUnreliable(G, i, p)

\* enet_protocol_check_timeouts() gives up: nothing of the turn leaves.
TimedOut(H, i) == NotifyDisconnect(SendAcknowledgements(H, i), i)

\* enet_host_flush(): a turn for each peer, without timeouts.
Flush(H, pings) ==
    LET n == PeerCount[H.addr]
        After[k \in 0 .. n] ==
            IF k = 0 THEN H ELSE Turn(After[k - 1], k - 1, {}, (k - 1) \in pings)
    IN  After[n]

\* The peer is left with a DISCONNECT that asks for no acknowledgement.
Farewell(H, i) ==
    [H EXCEPT !.peers[i] = QueueUnreliable(Emptied(@), DisconnectCommand(FALSE)),
              !.dispatch = DispatchWithout(H, i)]

\* enet_peer_disconnect(): silent for a peer that is not connected yet.
PeerDisconnect(H, i, pings) ==
    CASE H.peers[i].state \in Leaving -> H
      [] H.peers[i].state \in Up -> BeginDisconnect(H, i)
      [] OTHER -> ResetPeer(Flush(Farewell(H, i), pings), i)

\* enet_peer_disconnect_now().
PeerDisconnectNow(H, i, pings) ==
    CASE H.peers[i].state = "DISCONNECTED" -> H
      [] H.peers[i].state \in {"ZOMBIE", "DISCONNECTING"} -> ResetPeer(H, i)
      [] OTHER -> ResetPeer(Flush(Farewell(H, i), pings), i)

-----------------------------------------------------------------------------
(* Receiving: the handlers of enet_protocol_handle_incoming_commands(). *)

\* A session ID has two bits and differs from the one used before.
NextSession(offered, own) ==
    LET s == ((IF offered = NoSession THEN own ELSE offered) + 1) % 4
    IN  IF s = own THEN (s + 1) % 4 ELSE s

FreeSlots(H) == {i \in DOMAIN H.peers : H.peers[i].state = "DISCONNECTED"}

First(S) == CHOOSE i \in S : \A j \in S : i <= j

\* A mutant: only a peer that is connected makes a request a copy.
AlreadyConnected(H, src, c) ==
    \E i \in DOMAIN H.peers :
        /\ H.peers[i].state = "CONNECTED"
        /\ H.peers[i].addr = src
        /\ H.peers[i].cid = c.cid

\* A copy of a request that was accepted is refused.
AlreadyAccepted(H, src, c) ==
    \E i \in DOMAIN H.peers :
        /\ H.peers[i].state \notin {"DISCONNECTED", "CONNECTING"}
        /\ H.peers[i].addr = src
        /\ H.peers[i].cid = c.cid

CanAccept(H, src, c) == FreeSlots(H) # {} /\ ~AlreadyAccepted(H, src, c)

HandleConnect(H, src, c) ==
    LET i == First(FreeSlots(H))
        p == H.peers[i]
        outS == NextSession(c.inS, p.outS)
        inS == NextSession(c.outS, p.inS)
        q == [p EXCEPT !.state = "ACKNOWLEDGING_CONNECT", !.cid = c.cid, !.addr = src,
                       !.outID = c.id, !.outS = outS, !.inS = inS]
    IN  [H EXCEPT !.peers[i] =
            QueueReliable(q, [type |-> "VERIFY", seq |-> 0, id |-> i, inS |-> outS,
                              outS |-> inS, cid |-> c.cid])]

RemoveSent(H, i, seq) == [H EXCEPT !.peers[i].sent = {c \in @ : c.seq # seq}]

HandleVerify(H, i, c) ==
    IF H.peers[i].state # "CONNECTING" THEN H
    ELSE IF c.cid # H.peers[i].cid THEN DispatchState(H, i, "ZOMBIE")
    ELSE NotifyConnect([RemoveSent(H, i, 1) EXCEPT !.peers[i] =
             [@ EXCEPT !.outID = c.id, !.inS = c.inS, !.outS = c.outS]], i)

HandleDisconnect(H, i, c) ==
    LET G == ResetQueues(H, i) IN
    CASE H.peers[i].state \in {"DISCONNECTED", "ZOMBIE", "ACKNOWLEDGING_DISCONNECT"} -> H
      [] H.peers[i].state \in {"DISCONNECTING", "CONNECTING"} ->
            DispatchState(G, i, "ZOMBIE")
      [] H.peers[i].state \in Up ->
            IF c.ack THEN ChangeState(G, i, "ACKNOWLEDGING_DISCONNECT")
            ELSE DispatchState(G, i, "ZOMBIE")
      [] OTHER -> ResetPeer(G, i)

\* Any answer puts the peer's timeout off.
HandleAcknowledge(H, i, c) ==
    LET p == H.peers[i]
        G == [RemoveSent(H, i, c.seq) EXCEPT !.peers[i].tries = 0]
        Acked(type) == \E s \in p.sent : s.seq = c.seq /\ s.type = type
    IN  CASE p.state \in {"DISCONNECTED", "ZOMBIE"} -> H
          [] p.state = "ACKNOWLEDGING_CONNECT" /\ Acked("VERIFY") -> NotifyConnect(G, i)
          [] p.state = "DISCONNECTING" /\ Acked("DISCONNECT") -> NotifyDisconnect(G, i)
          [] p.state = "DISCONNECT_LATER" /\ NothingQueued(G.peers[i]) -> BeginDisconnect(G, i)
          [] OTHER -> G

\* A packet is discarded while the peer waits to be disconnected.  Whether it
\* is otherwise kept depends on its sequence number, hence the choice.
HandleSendUnreliable(H, i, keep) ==
    IF keep /\ H.peers[i].state = "CONNECTED" /\ H.peers[i].inq < scenario.data
    THEN NeedsDispatch([H EXCEPT !.peers[i].inq = @ + 1], i)
    ELSE H

\* A mutant: no acknowledgement while the peer acknowledges a DISCONNECT.
QueueAcknowledgementUp(H, i, c) ==
    IF H.peers[i].state \in Up \cup {"CONNECTING"}
    THEN [H EXCEPT !.peers[i].acks = @ \cup {[type |-> c.type, seq |-> c.seq]}]
    ELSE H

\* After the handler: which commands are acknowledged, and in which states.
QueueAcknowledgement(H, i, c) ==
    IF \/ H.peers[i].state \in Up \cup {"CONNECTING"}
       \/ H.peers[i].state = "ACKNOWLEDGING_DISCONNECT" /\ c.type = "DISCONNECT"
    THEN [H EXCEPT !.peers[i].acks = @ \cup {[type |-> c.type, seq |-> c.seq]}]
    ELSE H

\* A mutant: the session is not compared.
PassesAnySession(H, d) ==
    /\ d.peerID \in DOMAIN H.peers
    /\ H.peers[d.peerID].state \notin {"DISCONNECTED", "ZOMBIE"}
    /\ H.peers[d.peerID].addr = d.src

\* The tests on the header of a datagram that names a peer.
Passes(H, d) ==
    /\ d.peerID \in DOMAIN H.peers
    /\ LET p == H.peers[d.peerID] IN
       /\ p.state \notin {"DISCONNECTED", "ZOMBIE"}
       /\ p.addr = d.src
       /\ p.outID = NoID \/ d.session = p.inS

HandleCommand(H, i, c, keep) ==
    CASE c.type = "ACK" -> HandleAcknowledge(H, i, c)
      [] c.type = "VERIFY" ->
            LET G == HandleVerify(H, i, c) IN QueueAcknowledgement(G, i, c)
      [] c.type = "DISCONNECT" ->
            LET G == HandleDisconnect(H, i, c) IN
            IF c.ack THEN QueueAcknowledgement(G, i, c) ELSE G
      [] c.type = "PING" ->
            IF H.peers[i].state \in Up THEN QueueAcknowledgement(H, i, c) ELSE H
      [] c.type = "DATA" -> HandleSendUnreliable(H, i, keep)
      [] OTHER -> H

-----------------------------------------------------------------------------
(* Actions. *)

Init == /\ host = [h \in Hosts |-> FreshHost(h)]
        /\ net = {} /\ lastID = 0 /\ accepts = 0 /\ restarts = 0
        /\ scenario \in Scenarios

\* Host h becomes H; what H sent is in transit.
Update(h, H) == /\ host' = [host EXCEPT ![h] = [H EXCEPT !.out = {}]]
                /\ net' = net \cup H.out

\* enet_host_connect() on the first free slot.
Connect(h, to) ==
    /\ lastID < scenario.connects
    /\ FreeSlots(host[h]) # {}
    /\ LET i == First(FreeSlots(host[h]))
           p == host[h].peers[i]
           q == [p EXCEPT !.state = "CONNECTING", !.addr = to, !.cid = lastID + 1,
                          !.view = "trying"]
       IN  Update(h, [host[h] EXCEPT !.peers[i] =
               QueueReliable(q, [type |-> "CONNECT", seq |-> 0, id |-> i, inS |-> p.inS,
                                 outS |-> p.outS, cid |-> lastID + 1])])
    /\ lastID' = lastID + 1
    /\ UNCHANGED <<accepts, restarts, scenario>>

\* The application asks for a ping, or sends an unreliable packet.
Ping(h, i) == /\ CanPing(host[h].peers[i])
              /\ Update(h, [host[h] EXCEPT !.peers[i] = QueueReliable(@, PingCommand)])
              /\ UNCHANGED <<lastID, accepts, restarts, scenario>>

SendPacket(h, i) ==
    /\ host[h].peers[i].state = "CONNECTED"
    /\ scenario.data > 0
    /\ Update(h, [host[h] EXCEPT !.peers[i].outU = @ \cup {[type |-> "DATA", seq |-> 0]}])
    /\ UNCHANGED <<lastID, accepts, restarts, scenario>>

\* enet_peer_reset(), called by the application.
Reset(h, i) == /\ host[h].peers[i].state # "DISCONNECTED"
               /\ Update(h, View(ResetPeer(host[h], i), i, "down"))
               /\ UNCHANGED <<lastID, accepts, restarts, scenario>>

\* enet_peer_disconnect(): the application is told at once that an attempt to
\* connect is over, by the call itself.
Disconnect(h, i, pings) ==
    /\ host[h].peers[i].state \notin Leaving
    /\ LET H == PeerDisconnect(host[h], i, pings) IN
       Update(h, IF H.peers[i].state = "DISCONNECTED" THEN View(H, i, "down") ELSE H)
    /\ UNCHANGED <<lastID, accepts, restarts, scenario>>

\* enet_peer_disconnect_later(): at once, if there is nothing to wait for.
DisconnectLater(h, i, pings) ==
    \/ /\ host[h].peers[i].state \in Up /\ ~NothingQueued(host[h].peers[i])
       /\ Update(h, [host[h] EXCEPT !.peers[i].state = "DISCONNECT_LATER"])
       /\ UNCHANGED <<lastID, accepts, restarts, scenario>>
    \/ /\ host[h].peers[i].state \notin Up \/ NothingQueued(host[h].peers[i])
       /\ Disconnect(h, i, pings)

DisconnectNow(h, i, pings) ==
    /\ host[h].peers[i].state # "DISCONNECTED"
    /\ Update(h, View(PeerDisconnectNow(host[h], i, pings), i, "down"))
    /\ UNCHANGED <<lastID, accepts, restarts, scenario>>

\* GDNetHost::unbind(), which flushes and destroys the host, and bind().
Restart(h, pings) ==
    /\ restarts < scenario.restarts
    /\ Update(h, [FreshHost(h) EXCEPT !.out = Flush(host[h], pings).out])
    /\ restarts' = restarts + 1
    /\ UNCHANGED <<lastID, accepts, scenario>>

\* A peer's turn, when the commands of a set have expired ...
SendOutgoing(h, i, expired, ping) ==
    /\ host[h].peers[i].state \notin {"DISCONNECTED", "ZOMBIE"}
    /\ expired \subseteq host[h].peers[i].sent
    /\ ping => i \in Silent(host[h])
    /\ expired # {} => host[h].peers[i].tries < scenario.tries
    /\ Update(h, Turn(host[h], i, expired, ping))
    /\ UNCHANGED <<lastID, accepts, restarts, scenario>>

\* A mutant: only peers that are connected are timed out.
TimeoutConnected(h, i) ==
    /\ host[h].peers[i].state \in Up
    /\ host[h].peers[i].sent # {}
    /\ Update(h, TimedOut(host[h], i))
    /\ UNCHANGED <<lastID, accepts, restarts, scenario>>

\* ... or one has for so long that the peer is dropped.
Timeout(h, i) ==
    /\ host[h].peers[i].state \notin {"DISCONNECTED", "ZOMBIE"}
    /\ host[h].peers[i].sent # {}
    /\ Update(h, TimedOut(host[h], i))
    /\ UNCHANGED <<lastID, accepts, restarts, scenario>>

\* A datagram that was received remains in transit if it may be duplicated.
Consume(d) == net' = (IF Duplicating THEN net ELSE net \ {d})

\* A datagram for no peer in particular can only be a request to connect ...
ReceiveConnect(d) ==
    /\ d.peerID = NoID /\ d.cmd.type = "CONNECT"
    /\ accepts < scenario.accepts
    /\ CanAccept(host[d.dst], d.src, d.cmd)
    /\ host' = [host EXCEPT ![d.dst] = HandleConnect(@, d.src, d.cmd)]
    /\ accepts' = accepts + 1
    /\ Consume(d)
    /\ UNCHANGED <<lastID, restarts, scenario>>

\* ... and any other has to name a peer that it suits.
ReceiveCommand(d, keep) ==
    /\ Passes(host[d.dst], d)
    /\ keep => d.cmd.type = "DATA"
    /\ host' = [host EXCEPT ![d.dst] = HandleCommand(@, d.peerID, d.cmd, keep)]
    /\ Consume(d)
    /\ UNCHANGED <<lastID, accepts, restarts, scenario>>

\* enet_protocol_dispatch_incoming_commands(): the peers at the head of the
\* queue that have nothing to report are dropped from it; the first that has
\* something to report does so.
Dispatch(h) ==
    LET H == host[h]
        q == H.dispatch
        Reports(k) == \/ H.peers[q[k]].state = "ZOMBIE"
                      \/ H.peers[q[k]].state = "CONNECTED" /\ H.peers[q[k]].inq > 0
        found == {k \in 1 .. Len(q) : Reports(k)}
        last == IF found = {} THEN Len(q) ELSE First(found)
        taken == {q[k] : k \in 1 .. last}
        i == q[last]
        G == [H EXCEPT !.dispatch = SubSeq(q, last + 1, Len(q)),
                       !.peers = [j \in DOMAIN H.peers |->
                           IF j \in taken THEN [H.peers[j] EXCEPT !.needs = FALSE]
                           ELSE H.peers[j]]]
        R == [G EXCEPT !.peers[i].inq = @ - 1]
    IN  /\ q # <<>>
        /\ Update(h, CASE found = {} -> G
                       [] found # {} /\ G.peers[i].state = "ZOMBIE" ->
                            View(ResetPeer(G, i), i, "down")
                       [] OTHER -> IF R.peers[i].inq > 0 THEN NeedsDispatch(R, i) ELSE R)
        /\ UNCHANGED <<lastID, accepts, restarts, scenario>>

Application(h) ==
    \/ h \in scenario.callers /\ \E to \in Hosts \ {h} : Connect(h, to)
    \/ \E i \in Slots(h) :
          \/ Ping(h, i) \/ SendPacket(h, i) \/ Reset(h, i)
          \/ \E pings \in SUBSET Silent(host[h]) :
                \/ Disconnect(h, i, pings)
                \/ DisconnectLater(h, i, pings)
                \/ DisconnectNow(h, i, pings)
    \/ \E pings \in SUBSET Silent(host[h]) : Restart(h, pings)

Service(h) ==
    \/ \E i \in Slots(h) :
          \/ \E expired \in SUBSET host[h].peers[i].sent, ping \in BOOLEAN :
                SendOutgoing(h, i, expired, ping)
          \/ Timeout(h, i)
    \/ Dispatch(h)

Receive == \E d \in net :
               ReceiveConnect(d) \/ \E keep \in BOOLEAN : ReceiveCommand(d, keep)

Next == Receive \/ \E h \in Hosts : Application(h) \/ Service(h)

Spec == Init /\ [][Next]_vars

\* GDNet's thread services the host again and again, and time passes: what is
\* queued is sent, what is not acknowledged expires, and the dispatch queue is
\* emptied.  Nothing is assumed of the network.
Expire(h, i) == \/ /\ host[h].peers[i].sent # {}
                   /\ SendOutgoing(h, i, host[h].peers[i].sent, FALSE)
                \/ Timeout(h, i)

Fairness == \A h \in Hosts :
                /\ WF_vars(Dispatch(h))
                /\ \A i \in Slots(h) : /\ WF_vars(SendOutgoing(h, i, {}, FALSE))
                                       /\ WF_vars(Expire(h, i))

FairSpec == Spec /\ Fairness

-----------------------------------------------------------------------------
Commands == [type : {"CONNECT", "VERIFY"}, seq : Nat, id : Nat,
             inS : 0 .. 255, outS : 0 .. 255, cid : Nat]
            \cup [type : {"DISCONNECT"}, seq : Nat, ack : BOOLEAN]
            \cup [type : {"PING", "DATA", "ACK"}, seq : Nat]

\* Every variable keeps its type, and nothing is left to send between steps.
TypeOK ==
    /\ \A h \in Hosts :
          /\ host[h].addr = h /\ host[h].out = {}
          /\ host[h].dispatch \in Seq(Slots(h))
          /\ host[h].connected \in 0 .. PeerCount[h]
          /\ \A i \in Slots(h) : LET p == host[h].peers[i] IN
                /\ p.state \in States /\ p.addr \in Hosts \cup {NoHost}
                /\ p.outID \in Nat /\ {p.inS, p.outS} \subseteq (0 .. 3) \cup {NoSession}
                /\ {p.cid, p.seq, p.inq, p.tries} \subseteq Nat
                /\ p.outR \cup p.outU \cup p.sent \subseteq Commands
                /\ p.acks \subseteq [type : {"VERIFY", "PING", "DISCONNECT"}, seq : Nat]
                /\ p.needs \in BOOLEAN
                /\ p.view \in {"down", "trying", "up"}
    /\ \A d \in net : /\ {d.src, d.dst} \subseteq Hosts /\ d.peerID \in Nat
                      /\ d.session \in 0 .. 3 /\ d.cmd \in Commands
    /\ {lastID, accepts, restarts} \subseteq Nat

-----------------------------------------------------------------------------
(* Safety. *)

\* The events tell the application the truth: CONNECT and DISCONNECT events
\* alternate for each peer and none is missed or repeated, whatever datagrams
\* are lost, duplicated or late and however the two ends disconnect.
ViewMatches ==
    \A h \in Hosts : \A i \in Slots(h) :
        LET p == host[h].peers[i] IN
        CASE p.state \in {"DISCONNECTED", "ACKNOWLEDGING_CONNECT"} ->
                p.view = "down"
          [] p.state = "CONNECTING" -> p.view = "trying"
          [] p.state = "ZOMBIE" -> p.view \in {"up", "trying"}
          [] OTHER -> p.view = "up"

\* A peer on its way from one state to another holds what will get it there
\* even if nothing is ever received again: the command whose expiry drops the
\* peer, the acknowledgement that is to be sent, or its place in the queue.
\* There is one exception.  A peer that accepted a connection and is then used
\* to call the same host takes a late acknowledgement of the VERIFY_CONNECT it
\* sent for one of its CONNECT, and waits for ever if the CONNECT was lost
\* (enet/protocol.cpp:883).  It needs a host that both accepts and calls.
NoLimbo ==
    \A h \in Hosts : \A i \in Slots(h) :
        LET p == host[h].peers[i]
            Waits(type) == \E c \in p.outR \cup p.sent : c.type = type
        IN  /\ p.state = "CONNECTING" => Waits("CONNECT") \/ p.addr \in scenario.callers
            /\ p.state = "ACKNOWLEDGING_CONNECT" => Waits("VERIFY")
            /\ p.state = "DISCONNECTING" => Waits("DISCONNECT")
            /\ p.state = "DISCONNECT_LATER" => ~NothingQueued(host[h].peers[i])
            /\ p.state = "ACKNOWLEDGING_DISCONNECT" => \E c \in p.acks : c.type = "DISCONNECT"
            /\ p.state = "ZOMBIE" => p.needs

\* The dispatch queue holds each peer that needs dispatching, once.
DispatchOnce ==
    \A h \in Hosts :
        LET q == host[h].dispatch IN
        /\ \A i \in Slots(h) : host[h].peers[i].needs <=> \E k \in 1 .. Len(q) : q[k] = i
        /\ \A j, k \in 1 .. Len(q) : j # k => q[j] # q[k]

\* host->connectedPeers, which the bandwidth throttle divides by, is the
\* number of peers that are up, on every path into and out of those states.
ConnectedCount ==
    \A h \in Hosts :
        host[h].connected = Cardinality({i \in Slots(h) : host[h].peers[i].state \in Up})

\* What a host keeps of its peers agrees with them: the types, connectedPeers and
\* the dispatch queue, after every change of state, reset and disconnection.
ConnectionInv == TypeOK /\ DispatchOnce /\ ConnectedCount

\* A request to connect is accepted by at most one peer at a time, however
\* often its datagram is received.
AcceptedOnce ==
    \A h \in Hosts : \A i, j \in Slots(h) :
        LET p == host[h].peers[i]
            q == host[h].peers[j]
        IN  i # j /\ {p.state, q.state} \cap {"DISCONNECTED"} = {}
               => <<p.addr, p.cid>> # <<q.addr, q.cid>>

\* Two connected peers of one connection name each other and agree on the
\* session: neither was completed by a datagram of an earlier attempt.
SessionsAgree ==
    \A g, h \in Hosts : \A i \in Slots(g), j \in Slots(h) :
        LET p == host[g].peers[i]
            q == host[h].peers[j]
        IN  /\ g # h /\ p.state = "CONNECTED" /\ q.state = "CONNECTED"
            /\ p.addr = h /\ q.addr = g /\ p.cid = q.cid
            => /\ p.outID = j /\ q.outID = i
               /\ p.outS = q.inS /\ p.inS = q.outS

-----------------------------------------------------------------------------
(* Liveness, under FairSpec. *)

\* The peer calls a host that also calls, and its CONNECT is gone without an
\* answer to it: the case that NoLimbo excepts (enet/protocol.cpp:883).
Stranded(p) ==
    /\ p.state = "CONNECTING" /\ p.addr \in scenario.callers
    /\ ~ \E c \in p.outR \cup p.sent : c.type = "CONNECT"

\* No peer stays in between forever unless it is stranded: an attempt to connect
\* or to disconnect comes to an end even if the network delivers nothing more.
\* A stranded peer may wait for ever; once something takes it to another state
\* in between, it is bound to leave that one too.  This is claimed of networks that
\* deliver a datagram once: any acknowledgement, an old one too, puts the timeout off
\* (enet/protocol.cpp:846), so one that is repeated for ever keeps a peer waiting.
Settles ==
    \A h \in Hosts : \A i \in Slots(h) :
        host[h].peers[i].state \notin {"DISCONNECTED", "CONNECTED"}
            ~> \/ host[h].peers[i].state \in {"DISCONNECTED", "CONNECTED"}
               \/ Stranded(host[h].peers[i])

==============================================================================
