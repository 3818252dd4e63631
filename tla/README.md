# A verification project for GDNet

GDNet is a Godot module that wraps the ENet UDP library (bundled in
`enet/`, with C++ file names). This directory holds TLA+ models of the parts
of it that carry its logic, the TLC configurations that check them and proofs
checked by TLAPS. Paths below are relative to the repository.

- [The system](#the-system)
- [The modules](#the-modules)
- [The runs](#the-runs)
- [What is proved](#what-is-proved)
- [Disagreements found](#disagreements-found)
- [What is not modelled](#what-is-not-modelled)
- [Plan](#plan)

## The system

A script owns a `GDNetHost`. `bind()` creates an ENet host and starts a
network thread; `connect()` and CONNECT events give the script `GDNetPeer`
objects, which name an `ENetPeer` in the host's array of peers. The script
sends messages and polls events; the network thread gives the messages to ENet
and pushes ENet's events.

```
 script thread                          network thread
 send_packet/broadcast --> _message_queue --> send_messages --> enet_peer_send
 get_event            <--  _event_queue   <-- poll_events   <-- enet_host_service
 ping, reset, disconnect* -- acquireMutex --> ENet's peers  <-- acquireMutex
 connect() ------------------ no mutex -----> ENet's peers             |
                                                                  UDP network
```

| Component | State | Operations | What makes it correct |
|---|---|---|---|
| `GDNetQueue` (`gdnet_queue.h`) | `items`, `read_pos`, `write_pos`, `mutex` | `push`, `pop`, `is_full`, `is_empty`, `size`, `clear` | A bounded FIFO, although `push` and `pop` test under one lock and act under another |
| `GDNetHost` (`gdnet_host.cpp`) | `_host`, `_thread`, `_running`, two mutexes, two queues | `bind`, `unbind`, `connect`, `broadcast_*`, `get_event`; `thread_loop` with `send_messages`, `poll_events` | ENet is never entered by two threads, nothing is freed while in use, messages keep their order and their binding, script calls are not starved |
| `GDNetPeer` (`gdnet_peer.cpp`) | `_host`, `_peer` | `ping`, `reset`, `disconnect`, `disconnect_later`, `disconnect_now`, `set_timeout`, `send_packet`, `send_var`, getters | As for `GDNetHost`; it stands for the connection it was made for, and events tell the script what became of it |
| ENet connection (`enet/protocol.cpp`, `peer.cpp`, `host.cpp`) | each peer's state, connectID, session IDs, command lists, `needsDispatch`; the host's `dispatchQueue`, `connectedPeers` | connect, verify, acknowledge, ping, three ways to disconnect, timeouts, dispatch | Events tell the truth, both ends agree, nothing hangs, the counter and the list stay right |
| ENet reliable delivery | sequence numbers and windows of each channel, `outgoingReliableCommands`, `sentReliableCommands`, `reliableDataInTransit` | queue, send, acknowledge, retransmit, dispatch | In order, once, nothing skipped, everything in the end |
| ENet timeouts | `nextTimeout`, `earliestTimeout`, the timeout of each command | send, expire, acknowledge | A silent host is given up in time, an answering one is not |
| ENet unreliable, unsequenced, fragments | unreliable sequence numbers, unsequenced window, partial packets, `totalWaitingData` | send, receive, reassemble | At most once, in order, never half a packet |
| ENet packets (`enet/packet.cpp`) | `referenceCount`, `flags` | create, destroy | Freed once, after the last use |
| ENet throttle and bandwidth | `packetThrottle`, `packetThrottleLimit`, bandwidths, `bandwidthLimitedPeers` | `enet_peer_throttle`, `enet_host_bandwidth_throttle`, BANDWIDTH_LIMIT, THROTTLE_CONFIGURE | Within the bandwidth and not below it, no overflow, the loops end |
| ENet list (`enet/list.cpp`) | intrusive links | clear, insert, remove, move, size | Lists are what the rest takes them for |
| Range coder, CRC32, sockets, callbacks | | | Not reached by GDNet, or system calls |
| Godot bindings, value objects | plain fields | | None beyond fields |

The hard behaviours are: two threads and three mutexes with a test and an
action in separate critical sections; `unbind()` against the running thread;
`connect()` without a lock; a network that loses, delays, duplicates and
reorders datagrams; peers that are used again while datagrams of an earlier
connection are on their way; a host that is bound again; two ends that
disconnect at once; timeouts that race late answers; sequence numbers and
clocks that wrap around; packets that several lists and peers share; a script
that learns of all this late, from a queue. `PROJECT.json` lists each
of these with its line and the properties aimed at it.

## The modules

**`BoundedFifo`** is what a queue promises: a FIFO whose operations are
indivisible, which refuses an item when it is full.

**`GDNetQueue`** is `gdnet_queue.h` with one step per critical section. `pc`
tells where each of the two threads is: `push()` is `IsFullLock`,
`IsFullRead`, `PushLock`, `PushStore`, and `pop()` likewise. `clear()` is
`ClearLock`, a `ClearPop` for each item, and `ClearUnlock`; Godot's mutexes
are recursive, which `CanLock` says. The module shows that `Contents` behaves
as `BoundedFifo` with capacity `SIZE - 1`.

**`GDNetHost`** is `gdnet_host.cpp` and `gdnet_peer.cpp`. `spc` and `npc` are
the places of the script thread and the network thread. `acquireMutex()` is
three steps (lock `_accessMutex`, lock `_hostMutex`, unlock `_accessMutex`). A
queue operation is one step, which `GDNetQueue` justifies. An ENet function
under the mutex is one step on `slots`; `enet_host_connect()`, which has no
mutex, and `enet_protocol_handle_connect()`, which meets it, are two each: the
search for a free peer and the assignments that claim it.

**`ENetConnection`** is the connection protocol. A host is a record; each C
function that changes a host or a peer is an operator from the record before
to the record after, under a name close to the function's:

| TLA+ | C |
|---|---|
| `ResetPeer`, `ResetQueues`, `BeginDisconnect`, `PeerDisconnect`, `PeerDisconnectNow` | `enet_peer_reset`, `..._reset_queues`, `enet_peer_disconnect`, `..._now` |
| `ChangeState`, `DispatchState`, `NotifyConnect`, `NotifyDisconnect` | `enet_protocol_change_state`, `..._dispatch_state`, `..._notify_connect`, `..._notify_disconnect` |
| `Turn`, `SendAcknowledgements`, `SendReliable`, `SendUnreliable`, `TimedOut`, `Flush` | one peer's turn in `enet_protocol_send_outgoing_commands`, and what it calls; `enet_host_flush` |
| `HandleConnect`, `HandleVerify`, `HandleDisconnect`, `HandleAcknowledge`, `HandleSendUnreliable`, `QueueAcknowledgement`, `Passes` | the handlers, and the tests around them in `enet_protocol_handle_incoming_commands` |
| `Dispatch` | `enet_protocol_dispatch_incoming_commands` |

The abstractions and why they are sound:

- A datagram carries one command. ENet packs several, but each handler tests
  the peer again, so separate delivery only adds behaviours. The commands of
  one turn are sent in one step.
- `net` is the set of datagrams that may still be delivered. Nothing forces a
  delivery (loss, delay), any member may be next (reordering), and with
  `Duplicating` a delivery leaves the datagram where it is.
- A peer's turn, a receipt and a dispatch are separate steps, and application
  calls may come between them. GDNet holds the mutex for a whole
  `enet_host_service()`, so the model has more interleavings than GDNet, and
  those of another user of the library.
- Times are choices: a command in flight may expire at any time, and a peer
  may be dropped while it has one in flight. `sentTime`, round trip times and
  the timeout limits are not represented.
- GDNet always calls `enet_host_service()` with an event, so the states
  CONNECTION_PENDING and CONNECTION_SUCCEEDED do not occur.
- `connectID` is fresh for each `enet_host_connect()`. In the program it is
  `++randomSeed`, from a seed that differs between hosts.
- A turn's commands fit in one datagram; allocation and the socket do not fail.
- The model has data packets only to the extent that they keep a peer in the
  dispatch queue (`inq`) and make `disconnect_later()` wait.
- The application may disconnect a peer that is CONNECTING, which `README.md`
  advises against but the API accepts.

`view` is not in the program: it is what the application knows of a peer from
its calls and the events it was given.

**`MCENetConnection`** gives the hosts: a client with one peer and a server
with one or two, and the scenarios.

**`ENetReceive`** is the receiving side of data: `enet_peer_queue_incoming_command`,
the two functions that dispatch, the five handlers of commands that carry a
packet, and `enet_peer_receive`. It has no variables; its operators go from
a peer record to a peer record, and two specifications use them:

- **`ENetDelivery`** sends packets of every kind (`enet_peer_send`,
  `enet_peer_setup_outgoing_command`) and leaves every command on the wire, so
  that it arrives any number of times and at any time. That covers
  retransmission and the throttle.
- **`ENetReliable`** has the sender of reliable commands:
  `enet_protocol_send_reliable_outgoing_commands` with one step per iteration
  of its loop, `enet_protocol_check_timeouts` and
  `enet_protocol_remove_sent_reliable_command`. A command is known by its
  true number; on the wire it has the number modulo `Numbers`. Two histories are
  not in the program: `given`, the packets given to `enet_peer_send()`, and `got`,
  what `enet_peer_receive()` has returned.

**`ReliableChannel`** is what a channel promises for reliable packets: what is
delivered is a prefix of what was sent. Both specifications are shown to
implement it (`ImplementsChannel`), channel by channel.

A payload is a packet number, a fragment is one unit of data, and a datagram
carries one command, as in `ENetConnection`. A refusal of `enet_malloc` has the
effect of a refusal for lack of room (`notifyError`), which is modelled. The
peer is connected throughout; a peer in DISCONNECT_LATER, which discards what
comes in, is left out, as are the tests of lengths against the datagram and of
`maximumPacketSize`.

**`ENetTimeouts`** is when commands are sent again. `now`, `nextTimeout`,
`earliestTimeout` and `sentTime` are numbers modulo `Clock`, compared by the
macros of `time.h`. A step `Service` is one call of `enet_host_service()`, up to
`MaxStep` after the one before: timeouts first, then some of the queued
commands are sent. Round trip times are not computed; the first timeout of a
command is any of `FirstTimeouts`. Two times are history: `age`, since a command was
first sent, and `quiet`, since the last acknowledgement.

**`ENetPacket`** is who owns a packet. The lists of a peer are counts of the
commands for each packet, because commands of one packet are alike here; only
`outgoingUnreliableCommands` is a sequence, because the throttle drops
neighbours. The turn of a peer in `enet_protocol_send_outgoing_commands()` is
taken in steps (`SendReliable`, `PutUnreliable`, `Throttle`, `EndUnreliable`,
`SocketSend`), because the buffers are filled before they are read.
**`MCENetPacket`** declares the symmetry of the peers.

**`ENetThrottle`** is `enet_host_bandwidth_throttle()`, one peer per step, with
the local variables of the function in `run` and unsigned arithmetic modulo
`Word`; and `enet_peer_throttle()`, in which the comparison of round trip times
is left open. The epochs of the peers are the set `run.marked`: a peer has
the current time as its epoch if this call has set it.

**`GDNetView`** is what a script knows. The state of each slot is reduced to what
events depend on, an event or a message carries (as history) the connection
it is about. The script of this model follows `README.md`: it uses a peer after
it has consumed its CONNECT event, and it lets go of its peers at `unbind()`.
`meant` and `struck` are not in the program: they record which connection the
script wanted to reset, and which one `reset()` found in the slot.

Three modules look at several instances at once. In **`ENetConnection`**,
**`ENetReliable`** and **`ENetThrottle`** the variable `scenario` is chosen at the
start and never changes; `MCENetConnection`, `MCENetReliable` and
`MCENetThrottle` define the scenarios, each aimed at cases the others cannot
reach within the bounds.

**`GDNetHostProofs`**, **`GDNetViewProofs`**, **`ENetConnectionProofs`**,
**`ENetReliableProofs`**, **`ENetDeliveryProofs`**, **`ENetPacketProofs`**,
**`ENetThrottleProofs`** and **`ENetTimeoutsProofs`** hold the proofs about the
modules they are named after. `GDNetHostProofs` extends `GDNetQueue` as well, and
proves of it what `GDNetHost` relies on; this is why the specification of
`GDNetQueue` has names of its own (`RingInit`, `RingNext`, `RingSpec`).

Definitions marked "A mutant" are wrong versions of the one after them. They
are not used by any specification; a property is trusted because it fails
when the mutant takes the place of the definition.

## The runs

| Run | What it asks | Bounds |
|---|---|---|
| `GDNetQueue.cfg` | Is the answer of `is_full`/`is_empty` still right when the item is moved, does the ring buffer implement `BoundedFifo`, may a script rely on `get_event_count()`, does `clear()` return? | 4 slots, 2 items |
| `GDNetHost.cfg` | Exclusion, lifetime of mutexes, thread and host, queues that belong to their binding, order of messages, the turnstile; no deadlock; do all calls return, and do messages leave the queue? | 1 peer, 2 messages, 1 event per service, queues of 2 |
| `GDNetHostConnect.cfg` | Finding: `connect()` without the mutex | 1 peer, 2 remote hosts |
| `ENetConnection.cfg` | All safety properties of the protocol | Server with 2 peers, duplication; three scenarios: 1 connection with 2 data packets waiting; 2 connections and 1 restart of either host; 2 connections of either host |
| `ENetLiveness.cfg` | Does every peer settle, however much the network loses, unless it is stranded (see `NoLimbo` in [Disagreements found](#disagreements-found))? | Server with 1 peer, no duplication; three scenarios: 1 connection with 1 ping and 1 retransmission; 2 connections of either host, 1 of them accepted, with 1 retransmission; 2 connections of either host, both accepted |
| `ENetDelivery.cfg` | Are packets of all kinds handed over whole, in order and once, the reliable ones without a gap, also when commands are refused for lack of room? | 1 channel, 4 packets of 1 or 2 fragments, 6 windows of 2, unreliable numbers up to 3, room for 5 fragments |
| `ENetReliable.cfg` | Is what was acknowledged kept, does the sender stop in time, are its counts and lists right, and is the channel a FIFO? | 12 numbers; four scenarios: 14 commands with 3 in transit, 7 with 4, two channels of 2 with fragments and a ping, and 7 packets of 2 fragments; room for 3 |
| `ENetReliableLiveness.cfg` | Does every packet arrive, also when windows and the limit on data in transit hold commands back? | Windows of 1, losses without bound; two scenarios: 2 commands on a channel, the second held by the window of the first; a command on each of 2 channels with room for 1 in transit |
| `ENetPacket.cfg` | Are reference counts right, does nothing refer to a destroyed packet, and what leaks, whatever is throttled, refused or thrown away? | 2 peers, 2 packets of 1 or 2 fragments, all kinds |
| `ENetTimeouts.cfg` | Is `nextTimeout` right, is a silent host given up, and an answering one not? | clock of 58, 2 commands, timeouts 1, 2, 4, ... |
| `ENetThrottle.cfg` | Do the loops keep their sums and end, do the limits fit the bandwidths and no less, do the shares fit? | three scenarios: outgoing bandwidth with 2 peers, incoming with 3, both with 2 |
| `GDNetView.cfg` | Does every event fit what the script knows, does it know everything in the end, and does it hear when a message went astray? | 2 slots, 3 connections, 2 bindings, a queue of 4 |

The properties of a module that describe its state, the type invariant among
them, are parts of one invariant that the run checks: `HostInv`,
`ConnectionInv`, `ReceiverInv`, `SenderInv`, `PacketInv`, `TimeoutInv`,
`ThrottleInv` and `ViewInv`. Each part is a named definition with a
comment; `PROJECT.json` has mutants that break single parts. `NothingDangles` of
`ENetPacket` includes `BuffersLive`, and `AtMostOnceInOrder` of `ENetDelivery` is
`InOrder` and `UnsequencedOnce`. `MutexProtocol` of `GDNetQueue` is a part of the
invariant that is proved. `EndsAgree` of `ENetReliable` is `AcknowledgedIsHeld` and
`NeverTooFarAhead`.

Why the bounds are enough:

- Queue: with 4 slots the positions wrap at different times, the queue is
  full with one slot unused, and the two threads can each be anywhere. Any
  larger size is covered by the proofs.
- Host: one peer is where the script and the network thread must meet.
  Two messages show order and a third cannot add an order; queues of two become
  full. An event per service is enough: each event of `poll_events()` goes
  through the same push, and the thread does not let go of the mutex between.
  `bind()` and `unbind()` repeat without bound, because `binding` alternates.
- Protocol: two connections (`connects = 2` in two scenarios) reuse the
  client's peer, so that every datagram of the first can reach the second. Session IDs have two
  bits; after four acceptances in the same peers they repeat, and a datagram
  that was delayed that long cannot be told from a new one. `accepts = 2`
  stays below that, so `SessionsAgree` is claimed only for datagrams less than
  four acceptances late. With unlimited duplication a retransmission adds
  no datagram that `net` does not have, so `tries = 0` there; the
  liveness run, without duplication, has one. With duplication
  pings are off, and `pings = 1` in the liveness run. That run has both hosts
  call, and a peer that accepts and then calls: without the exception for
  stranded peers `Settles` fails there. Two waiting packets
  (the first scenario) are what it takes to put a peer in the dispatch queue
  while it is there. Every action fires in one run or another.
- Data: ENet has 16 windows of 4096 numbers, half of them free. The models
  keep the ratio with 6 windows of 2, the smallest for which a window can be
  behind, current, ahead and too far ahead, and for which a window boundary is
  not every number. (The liveness run has windows of one number, so that two
  commands are enough for a window to hold one back.) Four packets are enough to have one delivered, one
  missing, one that waits and one of another kind. In `ENetDelivery` commands
  live for ever, so its reliable numbers do not wrap around: a datagram older
  than the round would be taken for a new one, by any protocol. `ENetReliable`
  wraps them, and bounds the age of a datagram by the scenario's `lifetime`: 4
  windows of 6 (in the program a round takes 65536 packets), and 3 where there
  are packets of 2 fragments, because the receiver tells the age of a fragment by
  the number of the first one.
- Timeouts: the initial time is any, so that the clock wraps at every point
  of a retransmission. As in the program, all timeouts are much shorter than
  half the clock (`TimeAssumption`).
- Packets: what a list holds of a packet is a count, so two packets, two peers
  and two fragments have every kind of sharing.
- Throttle: the bandwidths lie below, at and above what a peer queues, so that
  each loop runs no, one or two more rounds. `Word` is large enough for no
  product of a bandwidth and a time to wrap around; the sums and differences
  in the loops would show if they did. `SharesFit` is about peers that say how
  much they send (see [Disagreements found](#disagreements-found) for both limits).
- View: three connections in two slots use a slot again, with events of both
  connections in the queue; the queue of four becomes full, and what the
  properties say ends with the first event lost.

Fairness. In `GDNetQueue`, `clear()` goes on once begun. In `GDNetHost` the
operating system schedules both threads; `enet_host_service()` returns after
its timeout, hence strong fairness of `NetServed`; and a thread that waits for
`_accessMutex`, held only for a moment by the other, gets it in the end
(strong fairness of the two `LockAccess` steps). Nothing is assumed about
contention for `_hostMutex`, which is what the turnstile is for. In
`ENetConnection` the thread services the host again and again, so queued
commands are sent, unacknowledged ones expire, and the dispatch queue is
emptied; of the network it is only assumed that it does not repeat datagrams, and
of the application nothing. The reason is `enet/protocol.cpp:846`: every
acknowledgement, however old, sets `earliestTimeout` back, so one that the network
repeats for ever keeps its peer from being given up. In
`ENetReliable` both network threads service their hosts (sending, timeouts,
receiving), and a command or acknowledgement that is on its way again and again
arrives in the end, without which no protocol delivers anything. In
`ENetThrottle` the function goes on once begun.

`CHECK_DEADLOCK FALSE` is set where the bounds let the system come to rest:
all connections used up and all peers disconnected, all packets sent and
delivered, a peer given up. `GDNetQueue`, `GDNetHost` and `ENetThrottle` are
checked for deadlock.

## What is proved

TLAPS proves these for every value of the constants that the modules'
assumptions allow. The assumptions are on constants only: sizes and bounds are
natural numbers, model values differ from each other (`SizeAssumption`,
`ItemsAssumption`, `ThreadAssumption`, `HostAssumption`, `ViewAssumption`,
`ConnectionAssumption`), there are finitely many peers and there is a largest
packet (`PacketAssumption`), timeouts are shorter than half the clock
(`TimeAssumption`), and what is queued between two calls of
`enet_host_bandwidth_throttle()` is too little for a sum over the peers to wrap
around (`ThrottleAssumption`: 4 GB a second, and fewer than 2^32 peers; ENet
allows 4095). `NoWrapAssumption` of `ENetDelivery`, where commands live for ever, has
the numbers not come round: all packets together take less than `FreeWindows + 2`
windows, so that a command that is behind never looks like one that is ahead.

`GDNetHostProofs`, second half, about `GDNetQueue` for every `SIZE`:

- `RingInvariant`: `RingSpec => []RingInv`. `CheckStillHolds` is not inductive alone:
  it needs `MutexProtocol` (two threads are not both between a lock and its
  unlock) and `Discipline` (which labels each thread can have, and that a
  thread that clears is alone). With these, a thread past its test sees the
  other thread move its own position only, which can make a queue less full
  for the pushing thread and less empty for the popping one.
- `RingTypesHold`, `SlotsLive`, `ChecksHold`, `CountsHold`: its parts, as theorems.
- `QueueImplementsFifo`: every step is a step of `BoundedFifo` or a stutter.
  The lemmas on `Advance`, on the number of items and on what a push and a pop
  do to `Contents` carry the arithmetic modulo `SIZE`. `clear()` is one
  abstract step, at `ClearLock`: the refinement maps the queue to the empty
  sequence while it runs, because nobody else can look.

`GDNetHostProofs`, for any number of peers, messages and any queue capacity:

- `Exclusion`, `HostOutlivesItsUsers`, `TurnstileHolds`. The strengthening is
  `MutexOwners`, which ties the owner of each mutex to the places of the
  threads, together with `Lifetime`: a new `bind()` starts its thread only
  when the old one was joined.
- `QueuesBelongToBinding`: uses `Lifetime`, because `unbind()` clears the
  queues only when no network thread is left to push into them.
- `HostInvariant`: types, and messages in order from the send call of the one
  script thread to `enet_peer_send()`. The messages that wait have
  numbers between those that were sent and the next one, in rising order, and a
  push refused by a full queue leaves a gap but no disorder.

`GDNetViewProofs`, for any number of slots, connections, messages and
bindings, and queues of any length:

- `ViewInvariant` (`EventsFit`, `AstrayIsNoticed`) and `ReaderKnowsAll`
  (`KnowsAll`). Connections are numbered as they begin. In `Ordered` the numbers
  grow along what the script knows of a slot, the events of that slot that wait,
  and the connection the slot stands for; in `Accounted` a connection that the
  script takes for open is the current one, or its end waits in the queue, or
  the script's own `reset()` or `disconnect_now()` struck it. Both properties
  follow when the queue is empty.

`ENetConnectionProofs`, for any hosts with any numbers of peers, any bounds,
and a network that loses, delays, reorders and duplicates:

- `ConnectionInvariant` (types, `connectedPeers`, the dispatch queue),
  `ViewsMatch` (the events tell the truth), `NoPeerInLimbo`, `AcceptsOnce`. The
  inductive invariant is local: what the state of a peer implies for its fields
  and lists (`GoodPeer`, `Settled`), what a command or datagram reveals of its
  sender (`GoodCommand`: a first command is a CONNECT or VERIFY_CONNECT, so only
  hosts that call acknowledge a command with number 1, which is all that
  `NoLimbo` has to except), what a host keeps of its peers (`Shape`), and that no
  two peers are of one connection (`Distinct`). Each C function has a lemma that
  says which peer it changes and into what. Inside a function a peer may be
  unsettled: `GoodHost` takes the set of those.

`ENetPacketProofs`, for any peers, packets and fragments:

- `PacketCounts`, `NoDanglingPacket`, `OnlyRefusedLeaks`. The proof counts, per
  peer and packet, the commands that refer to the packet. Every operation enters
  a new packet (`SoundNew`), gives up references of one peer (`SoundRelease`), or
  moves commands between its lists; the sum over the peers is
  `referenceCount` (`Fits`). `TurnHolds` says what the datagram that is being
  assembled may refer to.

`ENetThrottleProofs`, for any number of peers, any bandwidths and any word size:

- `ThrottleInvariant` (types, `ThrottleInLimit`, `LimitedCount`, `LeftOver`).
  In the loop that takes the peers out one by one, the bandwidth that is left is
  at least the ratio times what the other peers queued, because a peer is taken
  out only if it gets less than the ratio. So no difference wraps around.
- `BandwidthKept` (`KeepsToBandwidth`): what the peers taken out were granted and
  what is left add up to no more than the bandwidth (`Paid`), in any order of
  taking out.
- `NeededThrottle` (`ThrottledOnlyWhenNeeded`) under `BandwidthsFit`: no product
  of a bandwidth and a time wraps around. Without it the property is false
  (`enet/host.cpp:352`, see [Disagreements found](#disagreements-found)).
- `SharesAlwaysFit` (`SharesFit`) under `SharesSuffice`: the bandwidth has a
  share for every peer, and no foreign host leaves its own bandwidth unlimited.
  Otherwise a peer is told 0, no limit (`enet/host.cpp:459`). What the peers
  left out send and what is left add up to the bandwidth (`Parts`), and each
  share fits what is left (`Even`). TLC checks that the scenarios of the run
  meet both hypotheses (`ScenariosSuit`).

`ENetTimeoutsProofs`, for any clock, timeouts and number of commands:

- `NextTimeoutIsFirst` (`NextIsFirst`). The loop of
  `enet_protocol_check_timeouts()` keeps `First`: `nextTimeout` is that of the
  first command that stays, or of the one to be looked at next.
- `GivenUpInTime` (`NotGivenUpEarly`). The invariant relates clock readings to
  true times: a command in transit was sent no longer ago than its age (`Ages`),
  and `earliestTimeout` is the time of a retransmission of a command that is
  still open (`EarliestOpen`), which is why an acknowledgement sets it back to
  0. `SinceLong` shows that the difference ENet takes, which is wrong after a
  day, is wrong on the safe side.
- `SilentHostGivenUp` (`SilenceEnds`) and `TimeoutsStayShort` (`TimeoutInv`), when no
  first timeout is longer than twice `timeoutMaximum` (`ShortRoundTrips`) and no
  command in transit was sent at the clock reading 0 (`NoneAtZero`). The commands in
  transit are in the order in which they were sent (`Ordered`), so each call of
  `enet_host_service()` either finds the first one in time, and with it all others, or
  finds it late. Then `earliestTimeout` goes back to it (`GoesBack`), and if the peer
  is not given up `timeoutMaximum` has not passed since, so the timeouts that double
  were shorter (`GoesOn`). The silence is therefore no longer than the time since
  `earliestTimeout`, which is less than `timeoutMaximum` and the time since the first
  command was sent (`Waits`), and this less than twice `timeoutMaximum` (`Recent`).

`ENetReliableProofs`, for any channels, any window size, any even number of
windows from 6 on (`WindowAssumption`), packets of any number of fragments, and a network
that loses, delays, reorders and duplicates. `ReliableAssumption` keeps datagrams
from being so old that their numbers look new again, which no protocol with
numbers that wrap around survives: a datagram is at most `lifetime` windows old
when it arrives, and a packet has at most `(FreeWindows + 1 - lifetime) * WindowSize + 1`
fragments (the handler tells a fragment's age by the number of the first one).

- `SenderInvariant`: all of `SenderInv`, so `reliableWindows` and
  `usedReliableWindows` (`WindowCounts`), `reliableDataInTransit` (`TransitCount`),
  the order of the lists (`RetransmissionsFirst`) and the types. `WindowCounts` is
  not inductive alone. `Numbering` splits the numbers of a channel at `SentUpTo`:
  those after it wait to be sent, each once and in order, those before it are
  acknowledged, in transit or wait to be sent again. `Looping` says of the sending
  loop that it has passed no command without a packet, and that a command it
  skipped stops all others with a packet; with `Lists` it follows that the
  command it puts next has the next number of its channel (`NextOfChannel`).
  `Windowing` has the windows count what is pending, and adds `SentTogether`.
- `SentTogether` (`SentWithinWindows`): the newest command of a channel is at most
  `FreeWindows` windows after the oldest pending one. At the head of a window the
  code tests that the windows from there on are unused (`FitsMore`), so two
  commands that share a place in `reliableWindows` are of the same window
  (`SamePlace`), and the place counts no more than `WindowSize` (`FitsBound`).
  The other test of `WindowTaken`, that the window before is not full, is not needed
  for this: it keeps the sender from being too far ahead of the receiver, next.
- `EndsAlwaysAgree` (`EndsAgree`). The invariant of both ends, `RInv`, is for each
  channel a `Match` of the two: `R`, up to where the receiver has delivered, is the
  end of a packet of the log (`Boundary`); its list holds, in order, the pieces of
  packets that begin after `R` and at most `FreeWindows - 2` windows later
  (`Queue`), and the first of them is not ready (`Idle`); a command that was sent is
  pending at the sender or kept by the receiver in those windows (`Has`), and so
  is one whose acknowledgement is on its way. `Outcome` says of every handler that it
  advances `R` over whole packets and is acknowledged only for what is kept.
  That a number on the wire means the right command follows from the distance of the
  true numbers: what was sent is less than `FreeWindows` windows ahead of `R`
  (`SentAhead`), what is old is at most `lifetime` behind. `NotTooFar` closes the
  circle: to get further ahead, the sender would have to leave a window
  `FreeWindows - 1` after that of `R`; the receiver keeps nothing of that window, so
  all its commands are pending, it is full, and `WindowTaken` holds the sender back.
- `DeliveredAsGiven` (`ImplementsChannel`): every step of `ENetReliable` is, on every
  channel, a step of `ReliableChannel` or a stutter (`Channelled`, `ChannelStep`).
  What is delivered are the packets of the log that end at or before `R`, in their
  order (`Enumerates`), so it is a prefix of `given`, whatever `Handle` and
  `DispatchReliable` do in one step.

`ENetDeliveryProofs`, for any channels, flags and sizes of packets, any window size and
any number of windows, and a network that loses, repeats and reorders every command
without end:

- `AlwaysHandedOverWhole` (`HandedOverWhole`), `AlwaysAtMostOnceInOrder`
  (`AtMostOnceInOrder`) and `DeliveryImplementsChannel` (`ImplementsChannel`). Their
  inductive invariant is `DeliveryInv`: there are numbers `n` for the packets of the
  log such that `Holds(n)`. Its part `Sender` says which command on the wire is
  which piece of which packet (`OnWire`) and how the numbers grow with the packets
  (`InTurn`), so that "before" is a matter of numbers for the receiver and of packets for the
  properties. `Good` is about what the receiver keeps: each entry is of one
  packet and has only pieces of that packet (`IsOf`); both lists of a channel are in
  order (`MayRun`, `MayScan`), the reliable one ahead of the number reached, the
  unreliable one not behind it; what was handed over is complete, in order, behind
  the numbers of its channel, and misses no reliable packet up to there (`Delivered`).
- The scan of the unreliable list. While a command is being inserted, or a run of
  reliable ones has just moved on, a channel satisfies less than between two commands
  (`MayScan` without `Scanned`), and the scan restores it (`ScanKeeps`, `MovedKeeps`):
  what stays is after all that is handed over, although the scan drops some entries
  and keeps others. There is no induction along the list: `Pick` keeps the order of
  what it picks (`Enumerates`), and `Moved` and `Kept` are sets of positions.
- An unsequenced packet is handed over once, because its group is in `seen` or behind
  the window of groups (`Past`, `Once`): the window moves only forward, and
  `NoWrapAssumption` keeps what is behind it from looking new.
- The reliable packets that were handed over are those of the log up to one of
  them (`GotFirst`): none after it, by the numbers of the channel, and none before it is
  missing, by `Delivered`. Packets only ever join, so the channel's `delivered` grows as
  `ReliableChannel` says or stays.
- `ReceiverAlways` (`ReceiverInv`). The types and the order of the lists follow from
  `Good`: a packet's numbers put it in its place, and in that order the numbers do not
  come round. The other two parts need more than `DeliveryInv`, and `Keeps(n)` has it:
  - `totalWaitingData` (`Covers`). It is not equal to what is held, so the invariant counts
    packets, not entries: it is at least the number of fragments of all packets that
    the receiver has anything of (`Holding`, `Shares`). A handler either leaves the count and holds no
    other packet, or adds the size of the packet of its command (`Tally`). When
    `enet_peer_receive()` takes a packet and subtracts its size, that packet is held
    nowhere else, or the count would fall too far (`Apart`, `ReceivedCovers`): two entries of
    one packet would have the same numbers, which the order of each list, and the numbers that
    part what was dispatched from what waits, exclude.
  - the released command (`ThreeFragments`). An incomplete reliable command is in its list
    after it was queued (`RunLeaves`). The scan drops an incomplete unreliable one
    only if two more stand behind it at the same reliable number (`DroppedAmong`,
    `ScanLoses`), and these are fragments of three packets.

The library's induction theorems cannot be used here. Where a proof needs
induction over data, it is done by the least element of a set of numbers or
peers that would be a counterexample (`UpToInduction`, from the theorem that `<`
on the natural numbers is well founded): sums over the peers, the flush of all
peers, the loop over the sent commands.

Model-checked only:

- all liveness properties (`CallsReturn` and the others of `GDNetHost` and
  `GDNetQueue`, and those of `ENetLiveness.cfg`, `ENetReliableLiveness.cfg` and
  `ENetThrottle`): fairness is beyond the prover;
- `SessionsAgree` of `ENetConnection`: session IDs have two bits, so it holds only
  as long as few enough connections are made (see the bounds above), and no
  argument that is local to a datagram proves it.

## Disagreements found

1. `ConnectReturnsItsPeer` (`gdnet_host.cpp:222`). `connect()` calls
   `enet_host_connect()` without the mutex. The network thread can claim the
   same free peer for a foreign host's request, and `connect()` returns a peer
   that stands for that other host.

Where the code does less than one might expect, the properties say exactly
what it does. These are stated as exceptions in the properties that are named,
which hold with them and fail without:

- `NoLimbo` (`enet/protocol.cpp:883`). A peer that is CONNECTING compares no
  session, and an acknowledgement is matched by sequence number. A late
  acknowledgement of the VERIFY_CONNECT (number 1) that the same peer sent in
  an earlier connection removes the CONNECT (number 1) in flight. If that
  CONNECT was lost, nothing is retransmitted and nothing times out. It takes
  two hosts that call each other, and a peer that is used first for an
  incoming and then for an outgoing connection. `Settles` has the same exception
  (`Stranded`).
- `WaitingCoversHeld` (`enet/peer.cpp:244`). `totalWaitingData` may exceed what
  is held: packets that are dropped from the incoming lists stay counted, and a
  long connection that drops many ends up refusing everything, although
  `enet.h:391` calls the limit one on buffer space in use.
- `ReleasedOnlyAmongFragments` (`enet/protocol.cpp:716`). Of three incomplete
  unreliable packets the oldest, if it arrives last, is dropped and freed while
  it is queued, and the handler writes to it. GDNet does not send such packets.
- `BuffersLive` (`enet/protocol.cpp:1410`). A `disconnect_later()` that takes
  effect while a datagram is assembled frees the packets in it.
- `OnlyRefusedLeak` (`gdnet_host.cpp:82`). `enet_peer_send()` may refuse a
  packet, which `send_messages()` then leaks; nothing else leaks.
- `SilenceEnds` (`enet/protocol.cpp:1436`). `timeoutMaximum` is looked at only
  when the timeout of the first command in transit has passed, which may be as long
  as twice that time: a silent host is given up as late as nearly three times
  `timeoutMaximum` after its last acknowledgement. The bound is on silence, not on
  the wait of one command: each acknowledgement of another command sets
  `earliestTimeout` back. And a command that is sent at the clock reading 0 leaves
  `earliestTimeout` at 0, which means none: its timeout doubles once more than
  `timeoutMaximum` allows. The theorem excludes that millisecond
  (`NoneAtZero`); the run includes it.
- `KnowsAll` and `EventsFit` (`gdnet_peer.cpp:49`). `reset()` and
  `disconnect_now()` may hit a connection of which the script has not heard
  yet, and of whose end it never will.
- `AstrayIsNoticed` (`gdnet_host.cpp:82`). A message may be sent on the next
  connection in the same slot; the script hears of the end of the first.

These were met while modelling; no property of a run speaks of them:

- `gdnet_peer.cpp:69`. `disconnect_later()` takes effect at once, ahead of
  messages still in `_message_queue`; they are refused by `enet_peer_send()`.
  `README.md:140` says that the disconnection comes after all queued packets
  have been sent.
- `enet/protocol.cpp:1365`. Unsequenced packets, GDNet's default, have no sequence
  numbers; when the throttle drops one, those that follow it are dropped too.
- `gdnet_peer.cpp:35`. A `GDNetPeer` that is kept across `unbind()` and `bind()`
  passes the test of its methods, and its pointer is into freed memory.
- `enet/protocol.cpp:846`. An old acknowledgement that arrives again puts the
  timeout of its peer off like a new one. `Settles` is checked without duplication.
- `enet/peer.cpp:598`. A command whose acknowledgement was lost is no longer
  acknowledged when the receiver is 7 or 8 windows of 4096 further on; the
  sender then gives the peer up. `AcknowledgedIsHeld` is the converse.
- `enet/peer.cpp:933`. The packet that all others wait for is refused if the
  others have filled `maximumWaitingData`. `EveryPacketArrives` is checked with
  enough room.
- `enet/host.cpp:352`. The product of a bandwidth and the elapsed milliseconds
  has 32 bits: bandwidths from 4294968 bytes per second on wrap around, and
  packets are throttled without need.
- `enet/host.cpp:459`. Peers with an unlimited outgoing bandwidth (0, GDNet's
  default) are told 0, no limit, whatever `set_max_bandwidth_in()` said.

## What is not modelled

- `compress.cpp` and the CRC32: GDNet installs neither.
- `unix.cpp`, `win32.cpp`, `callbacks.cpp`: system calls and allocation.
- Godot's registration and the value objects: fields without behaviour.
- Getters of `GDNetPeer`, which read ENet's memory without a lock: any value
  is possible, and nothing else depends on it.
- Failed sockets; in `ENetConnection` and `ENetPacket` also failed allocation.
- The estimate of round trip times and packet loss in
  `enet_protocol_handle_acknowledge` and the negotiation of MTU and channel
  count: the models take any value the estimate may have.
- `enet_host_bandwidth_limit`, `enet_host_channel_limit`, `enet_packet_resize`
  and the event-less form of `enet_host_service`: GDNet never calls them.
- Malformed datagrams: the tests of lengths and ranges in the handlers.
- Several script threads on one host. The queues are safe for one pushing and one
  popping thread only; `GDNetHost` has one script thread, and so have its theorems.
- Details that no property depends on. `ENetConnection`: a peer that was given the
  broadcast address accepts datagrams from any address and takes that address
  over (`enet/protocol.cpp:1015`, `1057`). `ENetPacket`: a broadcast is accepted by
  all connected peers or refused by all (`enet/host.cpp:260`), and an unreliable packet
  that is sent reliably because its number is 0xFFFF (`enet/peer.cpp:129`) counts as
  a reliable one. `ENetTimeouts`: a call sends the first of the queued commands,
  where the program may skip data that is held back and send a ping behind it
  (`enet/protocol.cpp:1495`). `ENetReliable`: the limit on data in transit is
  constant within a scenario, where `packetThrottle` changes it
  (`enet/protocol.cpp:1507`).
- The pointers of `list.cpp`: a list is a sequence in the models.

## Plan

Done: `BoundedFifo`, `GDNetQueue` and its proofs; `GDNetHost` and its proofs;
`ENetConnection`; `ReliableChannel`, `ENetReceive`, `ENetDelivery`,
`ENetReliable`; `ENetTimeouts`; `ENetPacket`; `ENetThrottle`; `GDNetView`.

The proofs about `GDNetView`, `ENetConnection`, `ENetPacket`, `ENetThrottle`,
`ENetTimeouts`, both ends of `ENetReliable` and `ENetDelivery`, too.

What is left is `SessionsAgree` of `ENetConnection`, for as many acceptances as the session
IDs can tell apart: every datagram would have to remember the acceptance that it belongs to.
