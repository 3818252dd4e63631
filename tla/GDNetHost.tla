------------------------------ MODULE GDNetHost ------------------------------
(***************************************************************************)
(* GDNetHost and GDNetPeer (gdnet_host.cpp, gdnet_peer.cpp): the script    *)
(* thread that calls the API and the network thread that runs ENet.        *)
(*                                                                         *)
(* The two threads share an ENet host, whose peers are the "slots" below,  *)
(* and two queues.  A queue operation is one step here; GDNetQueue shows   *)
(* that it behaves so.  ENet is reduced to the state of each slot, the     *)
(* address it stands for and the messages it has accepted; its protocol is *)
(* the subject of ENetConnection.  One script thread makes all the calls,  *)
(* as GDNetQueue requires: it is safe for one pushing and one popping      *)
(* thread only.                                                            *)
(*                                                                         *)
(* The script thread runs bind() alone (there is no network thread yet),   *)
(* so bind() is one step.  connect() is two, because it takes no mutex:    *)
(* the network thread may run between its search for a free slot and the   *)
(* assignments that claim the slot.                                        *)
(***************************************************************************)
EXTENDS Integers, Sequences, FiniteSets

CONSTANTS PeerCount,    \* host->peerCount
          Remotes,      \* addresses of foreign hosts
          NoAddress,    \* a slot that stands for no foreign host
          NoThread,     \* a mutex that nobody owns
          QueueCap,     \* how many items fit in a GDNetQueue
          MaxMessages,  \* bound: messages sent by the script
          MaxBatch      \* bound: events raised within one enet_host_service()

ASSUME HostAssumption ==
    /\ PeerCount \in Nat \ {0} /\ QueueCap \in Nat
    /\ MaxMessages \in Nat /\ MaxBatch \in Nat
    /\ NoAddress \notin Remotes
    /\ NoThread \notin {"script", "net"}

Slots == 0 .. PeerCount - 1

\* The receiver of a broadcast message.
Everyone == PeerCount

\* GDNetPeer's operations that take the mutex; set_timeout() is like ping()
\* at this level: neither changes a slot.
Ops == {"ping", "reset", "disconnect", "disconnect_later", "disconnect_now"}

VARIABLES
    bound,       \* _host # NULL
    binding,     \* 0 or 1: tells a bind() from the one before and the next
    running,     \* _running
    mutexes,     \* _accessMutex and _hostMutex are allocated
    access,      \* the owner of _accessMutex
    hostm,       \* the owner of _hostMutex
    spc, call,   \* where the script thread is, and in which call
    npc,         \* where the network thread is
    nslot,       \* the slot handle_connect() chose, when npc = "accept"
    pending,     \* events that ENet has yet to report
    msgs, evs,   \* _message_queue and _event_queue
    slots,       \* _host->peers
    nextId,      \* the number of the next message
    handed       \* messages given to enet_peer_send(), in that order

locks == <<mutexes, access, hostm>>
queues == <<msgs, evs, nextId, handed>>
vars == <<bound, binding, running, mutexes, access, hostm, spc, call, npc, nslot,
          pending, msgs, evs, slots, nextId, handed>>

-----------------------------------------------------------------------------
States == {"DISCONNECTED", "CONNECTING", "ACKNOWLEDGING_CONNECT", "CONNECTED",
           "DISCONNECT_LATER", "DISCONNECTING"}

FreshSlot == [state |-> "DISCONNECTED", addr |-> NoAddress, queued |-> FALSE]

NoCall == [op |-> "none", slot |-> 0, addr |-> NoAddress]

\* GDNetQueue::push(): a full queue refuses the item.
Push(queue, v) == IF Len(queue) < QueueCap THEN Append(queue, v) ELSE queue

\* The first peer that is DISCONNECTED.
Free(p) == slots[p].state = "DISCONNECTED" /\ \A o \in Slots : o < p =>
              slots[o].state # "DISCONNECTED"

SetState(p, state) == [slots EXCEPT ![p].state = state]

\* enet_peer_reset() keeps the address.
Reset(p) == [slots EXCEPT ![p].state = "DISCONNECTED", ![p].queued = FALSE]

\* enet_peer_disconnect(): silent for a peer that is not connected yet.
DisconnectSlot(p) ==
    CASE slots[p].state \in {"DISCONNECTING", "DISCONNECTED"} -> slots
      [] slots[p].state \in {"CONNECTED", "DISCONNECT_LATER"} ->
            [slots EXCEPT ![p].state = "DISCONNECTING", ![p].queued = FALSE]
      [] OTHER -> Reset(p)

\* enet_peer_disconnect_later().
DisconnectSlotLater(p) ==
    IF slots[p].state \in {"CONNECTED", "DISCONNECT_LATER"} /\ slots[p].queued
    THEN SetState(p, "DISCONNECT_LATER")
    ELSE DisconnectSlot(p)

\* What ENet's function for a GDNetPeer operation does to the slots.
Apply(op, p) ==
    CASE op = "ping" -> slots
      [] op = "reset" -> Reset(p)
      [] op = "disconnect" -> DisconnectSlot(p)
      [] op = "disconnect_later" -> DisconnectSlotLater(p)
      [] op = "disconnect_now" -> Reset(p)

\* enet_peer_send() and enet_host_broadcast(): only connected peers accept.
Accept(m) == [p \in Slots |->
    IF slots[p].state = "CONNECTED" /\ m.to \in {p, Everyone}
    THEN [slots[p] EXCEPT !.queued = TRUE]
    ELSE slots[p]]

-----------------------------------------------------------------------------
Init == /\ bound = FALSE /\ binding = 0 /\ running = FALSE
        /\ mutexes = FALSE /\ access = NoThread /\ hostm = NoThread
        /\ spc = "idle" /\ call = NoCall
        /\ npc = "none" /\ nslot = 0 /\ pending = <<>>
        /\ msgs = <<>> /\ evs = <<>>
        /\ slots = [p \in Slots |-> FreshSlot]
        /\ nextId = 1 /\ handed = <<>>

-----------------------------------------------------------------------------
(* The script thread. *)

\* bind(): enet_host_create() and thread_start().
Bind == /\ spc = "idle" /\ ~bound
        /\ bound' = TRUE
        /\ binding' = 1 - binding
        /\ running' = TRUE
        /\ mutexes' = TRUE
        /\ npc' = "check"
        /\ slots' = [p \in Slots |-> FreshSlot]
        /\ UNCHANGED <<access, hostm, spc, call, nslot, pending, queues>>

\* unbind(), thread_stop(): ask the thread to leave its loop ...
UnbindStop == /\ spc = "idle" /\ bound
              /\ running' = FALSE
              /\ spc' = "join"
              /\ UNCHANGED <<bound, binding, locks, call, npc, nslot, pending,
                             slots, queues>>

\* A mutant: unbind() does not wait for the thread.
UnbindWithoutJoin == /\ spc = "join"
                     /\ mutexes' = FALSE
                     /\ spc' = "destroy"
                     /\ UNCHANGED <<bound, binding, running, access, hostm, call, npc,
                                    nslot, pending, slots, queues>>

\* ... Thread::wait_to_finish(), then delete the thread and the mutexes ...
UnbindJoin == /\ spc = "join" /\ npc = "exited"
              /\ npc' = "none"
              /\ mutexes' = FALSE
              /\ spc' = "destroy"
              /\ UNCHANGED <<bound, binding, running, access, hostm, call, nslot,
                             pending, slots, queues>>

\* ... enet_host_flush() and enet_host_destroy() ...
UnbindDestroy == /\ spc = "destroy"
                 /\ bound' = FALSE
                 /\ slots' = [p \in Slots |-> FreshSlot]
                 /\ spc' = "clear"
                 /\ UNCHANGED <<binding, running, locks, call, npc, nslot, pending,
                                queues>>

\* A mutant: only the message queue is cleared.
UnbindKeepsEvents == /\ spc = "clear"
                     /\ msgs' = <<>>
                     /\ spc' = "idle"
                     /\ UNCHANGED <<bound, binding, running, locks, call, npc, nslot,
                                    pending, slots, evs, nextId, handed>>

\* ... and clear both queues.
UnbindClear == /\ spc = "clear"
               /\ msgs' = <<>> /\ evs' = <<>>
               /\ spc' = "idle"
               /\ UNCHANGED <<bound, binding, running, locks, call, npc, nslot, pending,
                              slots, nextId, handed>>

\* send_packet(), send_var() and, to Everyone, broadcast_packet/_var().
SendMessage(to) ==
    /\ spc = "idle" /\ bound
    /\ nextId <= MaxMessages
    /\ msgs' = Push(msgs, [id |-> nextId, to |-> to, binding |-> binding])
    /\ nextId' = nextId + 1
    /\ UNCHANGED <<bound, binding, running, locks, spc, call, npc, nslot, pending,
                   evs, slots, handed>>

\* get_event().
GetEvent == /\ spc = "idle" /\ evs # <<>>
            /\ evs' = Tail(evs)
            /\ UNCHANGED <<bound, binding, running, locks, spc, call, npc, nslot, pending,
                           msgs, slots, nextId, handed>>

\* A GDNetPeer operation: the test of _host->_host, then acquireMutex() ...
OpBegin(op, p) == /\ spc = "idle" /\ bound
                  /\ spc' = "access"
                  /\ call' = [op |-> op, slot |-> p, addr |-> NoAddress]
                  /\ UNCHANGED <<bound, binding, running, locks, npc, nslot, pending,
                                 slots, queues>>

OpLockAccess == /\ spc = "access" /\ access = NoThread
                /\ access' = "script"
                /\ spc' = "host"
                /\ UNCHANGED <<bound, binding, running, mutexes, hostm, call, npc, nslot,
                               pending, slots, queues>>

OpLockHost == /\ spc = "host" /\ hostm = NoThread
              /\ hostm' = "script"
              /\ spc' = "unaccess"
              /\ UNCHANGED <<bound, binding, running, mutexes, access, call, npc, nslot,
                             pending, slots, queues>>

OpUnlockAccess == /\ spc = "unaccess"
                  /\ access' = NoThread
                  /\ spc' = "op"
                  /\ UNCHANGED <<bound, binding, running, mutexes, hostm, call, npc, nslot,
                                 pending, slots, queues>>

\* ... the ENet function.  The messages that wait in _message_queue are
\* overtaken by it ...
OpApply == /\ spc = "op"
           /\ slots' = Apply(call.op, call.slot)
           /\ spc' = "release"
           /\ UNCHANGED <<bound, binding, running, locks, call, npc, nslot, pending,
                          queues>>

\* ... and releaseMutex().
OpRelease == /\ spc = "release"
             /\ hostm' = NoThread
             /\ spc' = "idle"
             /\ call' = NoCall
             /\ UNCHANGED <<bound, binding, running, mutexes, access, npc, nslot, pending,
                            slots, queues>>

\* A mutant: a scan that finds no free slot goes on with the one past the end.
ConnectScanPastEnd(a) ==
    /\ spc = "idle" /\ bound
    /\ call' = [op |-> "connect", addr |-> a,
                slot |-> IF \E p \in Slots : Free(p) THEN CHOOSE p \in Slots : Free(p)
                         ELSE PeerCount]
    /\ spc' = "claim"
    /\ UNCHANGED <<bound, binding, running, locks, npc, nslot, pending, slots, queues>>

\* connect(): enet_host_connect() looks for a free slot; there may be none ...
ConnectScan(a) ==
    /\ spc = "idle" /\ bound
    /\ \E p \in Slots : /\ Free(p)
                        /\ call' = [op |-> "connect", slot |-> p, addr |-> a]
    /\ spc' = "claim"
    /\ UNCHANGED <<bound, binding, running, locks, npc, nslot, pending, slots, queues>>

\* ... and makes it its own ...
ConnectClaim ==
    /\ spc = "claim"
    /\ slots' = [slots EXCEPT ![call.slot].state = "CONNECTING",
                              ![call.slot].addr = call.addr]
    /\ spc' = "connected"
    /\ UNCHANGED <<bound, binding, running, locks, call, npc, nslot, pending, queues>>

\* ... and connect() returns the slot as a GDNetPeer.
ConnectReturn == /\ spc = "connected"
                 /\ spc' = "idle"
                 /\ call' = NoCall
                 /\ UNCHANGED <<bound, binding, running, locks, npc, nslot, pending,
                                slots, queues>>

-----------------------------------------------------------------------------
(* The network thread. *)

\* thread_loop(): while (_running) ...
NetCheck == /\ npc = "check"
            /\ npc' = IF running THEN "access" ELSE "exited"
            /\ UNCHANGED <<bound, binding, running, locks, spc, call, nslot, pending,
                           slots, queues>>

\* A mutant: the thread goes for _hostMutex without passing the turnstile.
NetSkipAccess == /\ npc = "access"
                 /\ npc' = "host"
                 /\ UNCHANGED <<bound, binding, running, locks, spc, call, nslot,
                                pending, slots, queues>>

\* ... acquireMutex(), in three steps ...
NetLockAccess == /\ npc = "access" /\ access = NoThread
                 /\ access' = "net"
                 /\ npc' = "host"
                 /\ UNCHANGED <<bound, binding, running, mutexes, hostm, spc, call, nslot,
                                pending, slots, queues>>

\* A mutant: the thread enters whoever owns _hostMutex.
NetLockHostBlindly == /\ npc = "host"
                      /\ hostm' = "net"
                      /\ npc' = "unaccess"
                      /\ UNCHANGED <<bound, binding, running, mutexes, access, spc, call,
                                     nslot, pending, slots, queues>>

NetLockHost == /\ npc = "host" /\ hostm = NoThread
               /\ hostm' = "net"
               /\ npc' = "unaccess"
               /\ UNCHANGED <<bound, binding, running, mutexes, access, spc, call, nslot,
                              pending, slots, queues>>

NetUnlockAccess == /\ npc = "unaccess"
                   /\ access' = NoThread
                   /\ npc' = "send"
                   /\ UNCHANGED <<bound, binding, running, mutexes, hostm, spc, call, nslot,
                                  pending, slots, queues>>

\* A mutant: the newest message is taken first.
NetSendNewest ==
    /\ npc = "send" /\ msgs # <<>>
    /\ msgs' = SubSeq(msgs, 1, Len(msgs) - 1)
    /\ handed' = Append(handed, msgs[Len(msgs)].id)
    /\ slots' = Accept(msgs[Len(msgs)])
    /\ UNCHANGED <<bound, binding, running, locks, spc, call, npc, nslot, pending, evs,
                   nextId>>

\* ... send_messages(): pop a message and pass it to ENet, unless no packet
\* can be allocated ...
NetSend ==
    /\ npc = "send" /\ msgs # <<>>
    /\ msgs' = Tail(msgs)
    /\ LET m == Head(msgs) IN
       \/ UNCHANGED <<slots, handed>>
       \/ /\ handed' = Append(handed, m.id)
          /\ slots' = Accept(m)
    /\ UNCHANGED <<bound, binding, running, locks, spc, call, npc, nslot, pending, evs,
                   nextId>>

\* A mutant: a turn may go on to poll with messages left in the queue.
NetSentEarly == /\ npc = "send"
                /\ npc' = "service"
                /\ UNCHANGED <<bound, binding, running, locks, spc, call, nslot,
                               pending, slots, queues>>

\* ... until the queue is empty, ...
NetSent == /\ npc = "send" /\ msgs = <<>>
           /\ npc' = "service"
           /\ UNCHANGED <<bound, binding, running, locks, spc, call, nslot, pending,
                          slots, queues>>

\* ... poll_events().  What enet_host_service() may do to slot p before it
\* returns: report a connection or its end, hand over a packet, ...
Raise(p, kind) ==
    /\ Len(pending) < MaxBatch
    /\ pending' = Append(pending, [slot |-> p, kind |-> kind, binding |-> binding])

Connected(p) == /\ slots[p].state \in {"CONNECTING", "ACKNOWLEDGING_CONNECT"}
                /\ slots' = SetState(p, "CONNECTED")
                /\ Raise(p, "CONNECT")

Disconnected(p) == /\ slots[p].state \notin {"DISCONNECTED", "ACKNOWLEDGING_CONNECT"}
                   /\ slots' = Reset(p)
                   /\ Raise(p, "DISCONNECT")

Abandoned(p) == /\ slots[p].state = "ACKNOWLEDGING_CONNECT"
                /\ slots' = Reset(p)
                /\ UNCHANGED pending

Received(p) == /\ slots[p].state \in {"CONNECTED", "DISCONNECT_LATER"}
               /\ Raise(p, "RECEIVE")
               /\ UNCHANGED slots

\* ... deliver the messages it holds, which completes disconnect_later().
Transmitted(p) == /\ slots[p].queued
                  /\ slots' = [slots EXCEPT ![p].queued = FALSE,
                         ![p].state = IF @ = "DISCONNECT_LATER" THEN "DISCONNECTING" ELSE @]
                  /\ UNCHANGED pending

NetServe(p) ==
    /\ npc = "service"
    /\ Connected(p) \/ Disconnected(p) \/ Abandoned(p) \/ Received(p) \/ Transmitted(p)
    /\ UNCHANGED <<bound, binding, running, locks, spc, call, npc, nslot, queues>>

\* A foreign host asks for a connection: enet_protocol_handle_connect() looks
\* for a free slot ...
NetScan == /\ npc = "service"
           /\ \E p \in Slots : Free(p) /\ nslot' = p
           /\ npc' = "accept"
           /\ UNCHANGED <<bound, binding, running, locks, spc, call, pending, slots, queues>>

\* ... and makes it its own.
NetClaim(a) ==
    /\ npc = "accept"
    /\ slots' = [slots EXCEPT ![nslot].state = "ACKNOWLEDGING_CONNECT", ![nslot].addr = a]
    /\ nslot' = 0
    /\ npc' = "service"
    /\ UNCHANGED <<bound, binding, running, locks, spc, call, pending, queues>>

\* enet_host_service() returns, with an event or without.
NetServed == /\ npc = "service"
             /\ npc' = IF pending = <<>> THEN "release" ELSE "push"
             /\ UNCHANGED <<bound, binding, running, locks, spc, call, nslot, pending,
                            slots, queues>>

\* _event_queue.push(new_event(event)), while enet_host_check_events() has more.
NetPush == /\ npc = "push"
           /\ evs' = Push(evs, Head(pending))
           /\ pending' = Tail(pending)
           /\ npc' = IF Len(pending) = 1 THEN "release" ELSE "push"
           /\ UNCHANGED <<bound, binding, running, locks, spc, call, nslot, msgs, slots,
                          nextId, handed>>

\* ... releaseMutex() and round again.
NetRelease == /\ npc = "release"
              /\ hostm' = NoThread
              /\ npc' = "check"
              /\ UNCHANGED <<bound, binding, running, mutexes, access, spc, call, nslot,
                             pending, slots, queues>>

-----------------------------------------------------------------------------
ScriptStep == \/ UnbindJoin \/ UnbindDestroy \/ UnbindClear
              \/ OpLockHost \/ OpUnlockAccess \/ OpApply \/ OpRelease
              \/ ConnectClaim \/ ConnectReturn

ScriptBegin == \/ Bind \/ UnbindStop \/ GetEvent
               \/ \E to \in Slots \cup {Everyone} : SendMessage(to)
               \/ \E op \in Ops, p \in Slots : OpBegin(op, p)
               \/ \E a \in Remotes : ConnectScan(a)

NetStep == \/ NetCheck \/ NetLockAccess \/ NetLockHost \/ NetUnlockAccess
           \/ NetSend \/ NetSent \/ NetServed \/ NetPush \/ NetRelease
           \/ \E a \in Remotes : NetClaim(a)

NetWork == NetScan \/ \E p \in Slots : NetServe(p)

Next == ScriptBegin \/ OpLockAccess \/ ScriptStep \/ NetStep \/ NetWork

Spec == Init /\ [][Next]_vars

\* The operating system schedules both threads, enet_host_service() returns
\* after its timeout whatever the network does, and a thread that waits for
\* _accessMutex, which is only ever held for a moment, gets it in the end.
\* Nothing is assumed of the contention for _hostMutex, of the network or of
\* the script's decision to call anything.
Fairness == /\ WF_vars(ScriptStep)
            /\ SF_vars(OpLockAccess)
            /\ WF_vars(NetCheck) /\ SF_vars(NetLockAccess) /\ WF_vars(NetLockHost)
            /\ WF_vars(NetUnlockAccess) /\ WF_vars(NetSend) /\ WF_vars(NetSent)
            /\ SF_vars(NetServed) /\ WF_vars(NetPush) /\ WF_vars(NetRelease)
            /\ WF_vars(\E a \in Remotes : NetClaim(a))

FairSpec == Spec /\ Fairness

-----------------------------------------------------------------------------
(* Where the threads are. *)

ScriptLabels == {"idle", "join", "destroy", "clear", "access", "host", "unaccess",
                 "op", "release", "claim", "connected"}
NetLabels == {"none", "check", "access", "host", "unaccess", "send", "service",
              "accept", "push", "release", "exited"}

\* The labels at which a thread owns _hostMutex.
ScriptInside == {"unaccess", "op", "release"}
NetInside == {"unaccess", "send", "service", "accept", "push", "release"}

\* Every variable keeps its type.
TypeOK ==
    /\ bound \in BOOLEAN /\ binding \in {0, 1} /\ running \in BOOLEAN
    /\ mutexes \in BOOLEAN
    /\ access \in {NoThread, "script", "net"} /\ hostm \in {NoThread, "script", "net"}
    /\ spc \in ScriptLabels /\ npc \in NetLabels
    /\ call \in [op : Ops \cup {"none", "connect"}, slot : Slots,
                 addr : Remotes \cup {NoAddress}]
    /\ nslot \in Slots
    /\ pending \in Seq([slot : Slots, kind : {"CONNECT", "DISCONNECT", "RECEIVE"},
                        binding : {0, 1}])
    /\ evs \in Seq([slot : Slots, kind : {"CONNECT", "DISCONNECT", "RECEIVE"},
                    binding : {0, 1}])
    /\ msgs \in Seq([id : Nat, to : Slots \cup {Everyone}, binding : {0, 1}])
    /\ slots \in [Slots -> [state : States, addr : Remotes \cup {NoAddress}, queued : BOOLEAN]]
    /\ nextId \in Nat /\ handed \in Seq(Nat)

-----------------------------------------------------------------------------
(* Safety. *)

\* A GDNetPeer operation and the network thread's turn (gdnet_peer.cpp:34-82,
\* gdnet_host.cpp:149-158) never touch the ENet host at the same time.
GuardedExclusion == ~(spc \in ScriptInside /\ npc \in NetInside)

\* Each mutex is owned by the thread that acquireMutex() has brought to the
\* place between its lock and its unlock, and by no other.
MutexOwners ==
    /\ access = "script" <=> spc \in {"host", "unaccess"}
    /\ access = "net" <=> npc \in {"host", "unaccess"}
    /\ hostm = "script" <=> spc \in ScriptInside
    /\ hostm = "net" <=> npc \in NetInside

\* unbind() deletes the mutexes and the ENet host (gdnet_host.cpp:23-36 and
\* 198-207): neither thread may still be at a place where it uses them, and
\* the queues are cleared when the network thread is gone, which is what
\* GDNetQueue::clear() relies on.
Lifetime ==
    /\ npc \notin {"none", "exited"} => bound /\ mutexes
    /\ npc = "exited" => bound /\ ~running
    /\ spc \in {"access", "host", "unaccess", "op", "release", "claim", "connected"}
          => bound /\ mutexes /\ running
    /\ spc = "destroy" => bound /\ npc = "none"
    /\ spc = "clear" => ~bound /\ npc = "none"
    /\ spc = "join" => bound /\ ~running /\ npc # "none"
    /\ spc \notin {"join", "destroy", "clear"} => (bound <=> npc # "none")
    /\ running => bound /\ npc \notin {"none", "exited"}
    /\ spc = "idle" /\ bound => running

\* What the script reads and what ENet is given belong to the current bind():
\* an event or message never survives an unbind() (gdnet_host.cpp:204-205).
QueuesBelong ==
    /\ \A i \in 1 .. Len(evs) : evs[i].binding = binding
    /\ \A i \in 1 .. Len(msgs) : msgs[i].binding = binding
    /\ \A i \in 1 .. Len(pending) : pending[i].binding = binding
    /\ spc = "idle" /\ ~bound => evs = <<>> /\ msgs = <<>>
    /\ npc \notin {"service", "accept", "push"} => pending = <<>>
    /\ npc = "push" => pending # <<>>

\* Messages reach ENet in the order of the send calls, each at most once.
OrderedHandOff ==
    LET order == handed \o [i \in 1 .. Len(msgs) |-> msgs[i].id] IN
    \A i, j \in 1 .. Len(order) : i < j => order[i] < order[j]

\* Every variable keeps its type, and messages stay in order from the send call
\* to enet_peer_send().
HostInv == TypeOK /\ OrderedHandOff

\* The turnstile (gdnet_host.cpp:42-46): while the script waits for _hostMutex
\* with _accessMutex in hand, the network thread cannot take another turn.
Turnstile == [][spc = "host" => ~(npc = "host" /\ npc' = "unaccess")]_vars

-----------------------------------------------------------------------------
(* Liveness, under FairSpec. *)

\* Every call returns: ping(), reset(), disconnect(), ... although the network
\* thread holds _hostMutex nearly all the time, and unbind(), which waits for
\* the network thread to leave its loop.
CallsReturn == spc # "idle" ~> spc = "idle"

\* Every message the queue accepted is taken from it: it is sent, or the host
\* is unbound.  (A behaviour has finitely many messages, so that they all leave
\* the queue if and only if it becomes empty.)
MessagesLeave == msgs # <<>> ~> msgs = <<>>

-----------------------------------------------------------------------------
(* What the documentation says and the code does not do. *)

\* connect() returns "a peer representing the foreign host" (enet/host.cpp:169):
\* the slot stands for the address that connect() was given.
ConnectReturnsItsPeer == spc = "connected" => slots[call.slot].addr = call.addr
==============================================================================
