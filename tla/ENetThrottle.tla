------------------------------ MODULE ENetThrottle ------------------------------
(***************************************************************************)
(* How a host keeps to its bandwidth.  Once a second                       *)
(* enet_host_bandwidth_throttle() divides the outgoing bandwidth among the *)
(* connected peers, as the limit of the share of unreliable packets each   *)
(* may send, and, when a connection came or went, tells every peer how     *)
(* much it may send.  The function runs to its end before anything else;   *)
(* it is taken here one peer at a time, so that what holds inside its      *)
(* loops can be stated.  Integers are unsigned and wrap around at Word.    *)
(***************************************************************************)
EXTENDS Integers, FiniteSets

CONSTANTS
  N,             \* number of peers
  Word,          \* 2^32
  Scale,         \* ENET_PEER_PACKET_THROTTLE_SCALE
  Second,        \* 1000, and ENET_HOST_BANDWIDTH_THROTTLE_INTERVAL
  MinWindow,     \* ENET_PROTOCOL_MINIMUM_WINDOW_SIZE
  MaxWindow,     \* ENET_PROTOCOL_MAXIMUM_WINDOW_SIZE
  WindowScale,   \* ENET_PEER_WINDOW_SIZE_SCALE
  Elapsed,       \* times between two calls that do something
  CommandSize,   \* bytes of a command without a packet
  MaxData,       \* bound: outgoingDataTotal, too small for a sum over the peers to wrap around
  Scenarios      \* the hosts and peers that are looked at

\* A scenario: the bandwidths of the host (0: unlimited) and those the foreign hosts may
\* announce; the number of peers in use; the acceleration and deceleration of the throttle,
\* what THROTTLE_CONFIGURE may set them to; and the numbers of bytes queued at a time.
Scenario ==
  [in : 0 .. Word - 1, out : 0 .. Word - 1,
   theirIn : SUBSET (0 .. Word - 1), theirOut : SUBSET (0 .. Word - 1), peers : 1 .. N,
   rate : 0 .. Word - 1, rates : SUBSET (0 .. Word - 1), sizes : SUBSET (1 .. MaxData)]

ASSUME ThrottleAssumption ==
  /\ {N, Word, Scale, Second} \subseteq Nat \ {0}
  /\ N < Word /\ Scale < Word
  /\ MaxData \in Nat /\ N * MaxData < Word /\ Scale * MaxData < Word
  /\ Scenarios \subseteq Scenario
  /\ MinWindow \in Nat /\ MaxWindow \in Nat /\ MinWindow <= MaxWindow /\ WindowScale \in Nat \ {0}
  /\ CommandSize \in 0 .. MaxData
  /\ \A t \in Elapsed : t \in Nat /\ t >= Second

Peer == 1 .. N

VARIABLES
  scenario,  \* the scenario, chosen at the start
  state,     \* "down", "up" (CONNECTED or DISCONNECT_LATER) or "leaving"
  inBw,      \* incomingBandwidth of the peer: what it may be sent
  outBw,     \* outgoingBandwidth of the peer
  data,      \* outgoingDataTotal: bytes queued since the last call
  limit,     \* packetThrottleLimit
  throttle,  \* packetThrottle
  window,    \* windowSize
  rate,      \* packetThrottleAcceleration and packetThrottleDeceleration
  told,      \* the incoming bandwidth of this host that the peer was last told
  limited,   \* bandwidthLimitedPeers
  recalc,    \* recalculateBandwidthLimits
  run        \* the local variables of enet_host_bandwidth_throttle()

peerVars == <<inBw, outBw, data, limit, throttle, window, rate, told>>
vars == <<scenario, state, peerVars, limited, recalc, run>>

HostIn == scenario.in
HostOut == scenario.out

UpPeers == {p \in Peer : state[p] = "up"}
\* f added up over the peers in S, one after the other.
Sum(f, S) ==
  LET upTo[p \in 0 .. N] == IF p = 0 THEN 0 ELSE upTo[p - 1] + (IF p \in S THEN f[p] ELSE 0)
  IN  upTo[N]

\* Arithmetic of enet_uint32.
Times(a, b) == (a * b) % Word
Minus(a, b) == (a - b) % Word
Greatest(a, b) == IF a < b THEN b ELSE a
Least(a, b) == IF a < b THEN a ELSE b

Share(bw, t) == Times(bw, t) \div Second    \* bytes of a bandwidth in a time

\* Outside the function.  demand and elapsed are kept for the properties.
Idle ==
  [at |-> "idle", peer |-> 1, elapsed |-> 0, remaining |-> 0, total |-> 0, bandwidth |-> 0,
   ratio |-> 0, adjust |-> FALSE, marked |-> {}, demand |-> [p \in Peer |-> 0]]

\* ENET_PEER_PACKET_THROTTLE_ACCELERATION and _DECELERATION.
FreshRate == [up |-> scenario.rate, down |-> scenario.rate]

Init ==
  /\ scenario \in Scenarios
  /\ state = [p \in Peer |-> "down"]
  /\ inBw = [p \in Peer |-> 0] /\ outBw = [p \in Peer |-> 0]
  /\ data = [p \in Peer |-> 0]
  /\ limit = [p \in Peer |-> Scale] /\ throttle = [p \in Peer |-> Scale]
  /\ window = [p \in Peer |-> MaxWindow]
  /\ rate = [p \in Peer |-> FreshRate]
  /\ told = [p \in Peer |-> HostIn]
  /\ limited = 0 /\ recalc = FALSE
  /\ run = Idle

(***************************************************************************)
(* Connections come and go.                                                *)
(***************************************************************************)
\* The window of reliable data for a peer that may be sent in.
WindowSize(in) ==
  LET bw == IF in = 0 \/ HostOut = 0 THEN Greatest(in, HostOut) ELSE Least(in, HostOut)
  IN  IF bw = 0 THEN MaxWindow
      ELSE Least(Greatest((bw \div WindowScale) * MinWindow, MinWindow), MaxWindow)

\* enet_peer_on_connect() and enet_protocol_notify_connect(); CONNECT or VERIFY_CONNECT
\* was queued, and carried the bandwidths and a window that may be smaller.
Connect(p, in, out) ==
  /\ run.at = "idle" /\ state[p] = "down"
  /\ state' = [state EXCEPT ![p] = "up"]
  /\ inBw' = [inBw EXCEPT ![p] = in] /\ outBw' = [outBw EXCEPT ![p] = out]
  /\ told' = [told EXCEPT ![p] = HostIn]
  /\ \E w \in {WindowSize(in), MinWindow} : window' = [window EXCEPT ![p] = w]
  /\ limited' = (limited + IF in # 0 THEN 1 ELSE 0) % Word
  /\ recalc' = TRUE
  /\ data' = [data EXCEPT ![p] = CommandSize]
  /\ UNCHANGED <<limit, throttle, rate, run>>

\* enet_peer_on_disconnect().
LimitedWithout(p) == IF state[p] = "up" /\ inBw[p] # 0 THEN Minus(limited, 1) ELSE limited

\* enet_peer_reset().
ResetPeer(p) ==
  /\ state' = [state EXCEPT ![p] = "down"]
  /\ inBw' = [inBw EXCEPT ![p] = 0] /\ outBw' = [outBw EXCEPT ![p] = 0]
  /\ data' = [data EXCEPT ![p] = 0]
  /\ limit' = [limit EXCEPT ![p] = Scale] /\ throttle' = [throttle EXCEPT ![p] = Scale]
  /\ window' = [window EXCEPT ![p] = MaxWindow] /\ rate' = [rate EXCEPT ![p] = FreshRate]
  /\ limited' = LimitedWithout(p)
  /\ UNCHANGED <<told, run>>

\* enet_peer_disconnect() of a connected peer.
Disconnect(p) ==
  /\ run.at = "idle" /\ state[p] = "up"
  /\ data[p] + CommandSize <= MaxData
  /\ state' = [state EXCEPT ![p] = "leaving"]
  /\ data' = [data EXCEPT ![p] = @ + CommandSize]
  /\ limited' = LimitedWithout(p)
  /\ UNCHANGED <<inBw, outBw, limit, throttle, window, rate, told, recalc, run>>

\* enet_protocol_notify_disconnect(): the foreign host left, or timed out.
Gone(p) ==
  /\ run.at = "idle" /\ state[p] # "down"
  /\ ResetPeer(p)
  /\ recalc' = TRUE

\* GDNetPeer::reset() and disconnect_now(): nothing is calculated again.
Reset(p) ==
  /\ run.at = "idle" /\ state[p] # "down"
  /\ ResetPeer(p)
  /\ UNCHANGED recalc

(***************************************************************************)
(* Commands from the foreign host.                                         *)
(***************************************************************************)
\* A mutant: the peer is counted again.
LimitedWithAgain(p, in) == (limited + IF in # 0 THEN 1 ELSE 0) % Word

LimitedWith(p, in) ==
  (limited - (IF inBw[p] # 0 THEN 1 ELSE 0) + (IF in # 0 THEN 1 ELSE 0)) % Word

HandleBandwidthLimit(p, in, out) ==
  /\ run.at = "idle" /\ state[p] = "up"
  /\ inBw' = [inBw EXCEPT ![p] = in] /\ outBw' = [outBw EXCEPT ![p] = out]
  /\ limited' = LimitedWith(p, in)
  /\ window' = [window EXCEPT ![p] = WindowSize(in)]
  /\ UNCHANGED <<state, data, limit, throttle, rate, told, recalc, run>>

HandleThrottleConfigure(p, up, down) ==
  /\ run.at = "idle" /\ state[p] = "up"
  /\ rate' = [rate EXCEPT ![p] = [up |-> up, down |-> down]]
  /\ UNCHANGED <<state, inBw, outBw, data, limit, throttle, window, told, limited, recalc, run>>

\* Bytes are queued: a command or an acknowledgement.
QueueData(p, n) ==
  /\ run.at = "idle" /\ state[p] # "down"
  /\ data[p] + n <= MaxData
  /\ data' = [data EXCEPT ![p] = @ + n]
  /\ UNCHANGED <<state, inBw, outBw, limit, throttle, window, rate, told, limited, recalc, run>>

(***************************************************************************)
(* enet_peer_throttle(), with each acknowledgement: the round trip times   *)
(* have settled, or this one was shorter or longer than the last mean.     *)
(***************************************************************************)
Faster(p) == Least((throttle[p] + rate[p].up) % Word, limit[p])
Slower(p) == IF throttle[p] > rate[p].down THEN throttle[p] - rate[p].down ELSE 0

PeerThrottle(p) ==
  /\ run.at = "idle" /\ state[p] # "down"
  /\ \E t \in {limit[p], Faster(p), Slower(p)} : throttle' = [throttle EXCEPT ![p] = t]
  /\ UNCHANGED <<state, inBw, outBw, data, limit, window, rate, told, limited, recalc, run>>

(***************************************************************************)
(* enet_host_bandwidth_throttle(): the outgoing bandwidth.                 *)
(***************************************************************************)
BeginThrottle(t) ==
  /\ run.at = "idle" /\ UpPeers # {}
  /\ run' = [Idle EXCEPT
       !.at = "rounds", !.elapsed = t, !.remaining = Cardinality(UpPeers),
       !.total = IF HostOut = 0 THEN Word - 1 ELSE Sum(data, UpPeers) % Word,
       !.bandwidth = IF HostOut = 0 THEN Word - 1 ELSE Share(HostOut, t),
       !.adjust = limited > 0,
       !.demand = [p \in Peer |-> IF p \in UpPeers THEN data[p] ELSE 0]]
  /\ UNCHANGED <<state, peerVars, limited, recalc>>

Ratio ==
  IF run.total <= run.bandwidth THEN Scale ELSE Times(run.bandwidth, Scale) \div run.total

\* A mutant: needsAdjustment stays set.
RoundAgain ==
  /\ run.at = "rounds"
  /\ run' = IF run.remaining > 0 /\ run.adjust
            THEN [run EXCEPT !.at = "adjust", !.peer = 1, !.ratio = Ratio]
            ELSE [run EXCEPT !.at = "others"]
  /\ UNCHANGED <<state, peerVars, limited, recalc>>

\* The tests of the while loop, and the ratio that is left for the other peers.
Round ==
  /\ run.at = "rounds"
  /\ run' = IF run.remaining > 0 /\ run.adjust
            THEN [run EXCEPT !.at = "adjust", !.peer = 1, !.adjust = FALSE, !.ratio = Ratio]
            ELSE [run EXCEPT !.at = "others"]
  /\ UNCHANGED <<state, peerVars, limited, recalc>>

\* A mutant: any peer with a limit is adjusted.
ExceedsAlways(p) == state[p] = "up" /\ inBw[p] # 0 /\ p \notin run.marked /\ data[p] # 0

\* The peer in turn can take less than the ratio would give it.
Exceeds(p) ==
  /\ state[p] = "up" /\ inBw[p] # 0 /\ p \notin run.marked
  /\ Times(run.ratio, data[p]) \div Scale > Share(inBw[p], run.elapsed)

OwnLimit(p) ==
  LET l == Times(Share(inBw[p], run.elapsed), Scale) \div data[p]
  IN  IF l = 0 THEN 1 ELSE l

Advance == [run EXCEPT !.peer = @ + 1, !.at = IF run.peer = N THEN "rounds" ELSE @]

\* A mutant: the others still share all of the bandwidth.
TakeOutFree(p) ==
  [Advance EXCEPT !.adjust = TRUE, !.marked = @ \union {p}, !.remaining = Minus(@, 1),
     !.total = Minus(@, Share(inBw[p], run.elapsed))]

TakeOut(p) ==
  [Advance EXCEPT !.adjust = TRUE, !.marked = @ \union {p}, !.remaining = Minus(@, 1),
     !.bandwidth = Minus(@, Share(inBw[p], run.elapsed)), !.total = Minus(@, Share(inBw[p], run.elapsed))]

AdjustPeer ==
  LET p == run.peer
  IN  /\ run.at = "adjust"
      /\ IF Exceeds(p)
         THEN /\ limit' = [limit EXCEPT ![p] = OwnLimit(p)]
              /\ throttle' = [throttle EXCEPT ![p] = Least(@, OwnLimit(p))]
              /\ data' = [data EXCEPT ![p] = 0]
              /\ run' = TakeOut(p)
         ELSE run' = Advance /\ UNCHANGED <<limit, throttle, data>>
      /\ UNCHANGED <<state, inBw, outBw, window, rate, told, limited, recalc>>

\* A mutant: a throttle above the new limit stays.
ClampedNot(S) == throttle
Clamped(S) == [p \in Peer |-> IF p \in S THEN Least(throttle[p], Ratio) ELSE throttle[p]]

\* The peers that were not adjusted share what is left.
SetOthers ==
  LET others == IF run.remaining > 0 THEN UpPeers \ run.marked ELSE {}
  IN  /\ run.at = "others"
      /\ limit' = [p \in Peer |-> IF p \in others THEN Ratio ELSE limit[p]]
      /\ throttle' = Clamped(others)
      /\ data' = [p \in Peer |-> IF p \in others THEN 0 ELSE data[p]]
      /\ run' = [run EXCEPT !.at = "recalc"]
      /\ UNCHANGED <<state, inBw, outBw, window, rate, told, limited, recalc>>

(***************************************************************************)
(* The second part: the incoming bandwidth, when connections changed.      *)
(* Here ratio is bandwidthLimit and marked holds the peers whose           *)
(* incomingBandwidthThrottleEpoch is now.                                  *)
(***************************************************************************)
BeginLimits ==
  /\ run.at = "recalc"
  /\ recalc' = FALSE
  /\ run' = IF ~recalc THEN Idle
            ELSE [Idle EXCEPT !.at = IF HostIn = 0 THEN "tell" ELSE "shares",
                              !.remaining = Cardinality(UpPeers), !.bandwidth = HostIn, !.adjust = TRUE]
  /\ UNCHANGED <<state, peerVars, limited>>

ShareRound ==
  /\ run.at = "shares"
  /\ run' = IF run.remaining > 0 /\ run.adjust
            THEN [run EXCEPT !.at = "share", !.peer = 1, !.adjust = FALSE,
                             !.ratio = run.bandwidth \div run.remaining]
            ELSE [run EXCEPT !.at = "tell"]
  /\ UNCHANGED <<state, peerVars, limited, recalc>>

\* The peer sends less than its share, or did not say how much it sends.
BelowShare(p) ==
  /\ state[p] = "up" /\ p \notin run.marked
  /\ outBw[p] = 0 \/ outBw[p] < run.ratio

\* A mutant: what the peer sends stays in the bandwidth of the others.
LeaveOutNothing(p) == run.bandwidth

LeaveOut(p) == Minus(run.bandwidth, outBw[p])

SharePeer ==
  LET p == run.peer
      next == [run EXCEPT !.peer = @ + 1, !.at = IF p = N THEN "shares" ELSE @]
  IN  /\ run.at = "share"
      /\ run' = IF BelowShare(p)
                THEN [next EXCEPT !.adjust = TRUE, !.marked = @ \union {p},
                                  !.remaining = Minus(@, 1), !.bandwidth = LeaveOut(p)]
                ELSE next
      /\ UNCHANGED <<state, peerVars, limited, recalc>>

Announced(p) == IF p \in run.marked THEN outBw[p] ELSE run.ratio

\* BANDWIDTH_LIMIT is queued for every connected peer, whose data was counted above.
Tell ==
  /\ run.at = "tell"
  /\ told' = [p \in Peer |-> IF p \in UpPeers THEN Announced(p) ELSE told[p]]
  /\ data' = [p \in Peer |-> IF p \in UpPeers THEN data[p] + CommandSize ELSE data[p]]
  /\ run' = Idle
  /\ UNCHANGED <<state, inBw, outBw, limit, throttle, window, rate, limited, recalc>>

Throttling ==
  \/ Round \/ AdjustPeer \/ SetOthers
  \/ BeginLimits \/ ShareRound \/ SharePeer \/ Tell

\* The hosts of GDNet do not change their outgoing bandwidth while they are bound.
Next ==
  /\ \/ \E p \in 1 .. scenario.peers :
          \/ \E in \in scenario.theirIn, out \in scenario.theirOut : Connect(p, in, out)
          \/ Disconnect(p) \/ Gone(p) \/ Reset(p) \/ PeerThrottle(p)
          \/ \E in \in scenario.theirIn : HandleBandwidthLimit(p, in, outBw[p])
          \/ \E up, down \in scenario.rates : HandleThrottleConfigure(p, up, down)
          \/ \E n \in scenario.sizes : QueueData(p, n)
     \/ \E t \in Elapsed : BeginThrottle(t)
     \/ Throttling
  /\ UNCHANGED scenario

Spec == Init /\ [][Next]_vars

\* The function is not interrupted, and the processor goes on with it.
FairSpec == Spec /\ WF_vars(Throttling /\ UNCHANGED scenario)

--------------------------------------------------------------------------------
(***************************************************************************)
(* Properties.                                                             *)
(***************************************************************************)
Words == 0 .. Word - 1

\* What two of the properties rest on, which the program does not see to.
\* No bandwidth is so large that its product with the time wraps around.
BandwidthsFit ==
  \A s \in Scenarios, t \in Elapsed :
    s.out * t < Word /\ \A b \in s.theirIn : b * t < Word

\* The incoming bandwidth is enough for a share for each peer, and no foreign host keeps
\* what it may send to itself: 0 would be passed on to it, as no limit.
SharesSuffice == \A s \in Scenarios : s.in # 0 => N <= s.in /\ 0 \notin s.theirOut

\* Every variable keeps its type; no window leaves its bounds.
TypeOK ==
  /\ state \in [Peer -> {"down", "up", "leaving"}]
  /\ inBw \in [Peer -> Words] /\ outBw \in [Peer -> Words] /\ data \in [Peer -> 0 .. MaxData]
  /\ limit \in [Peer -> Words] /\ throttle \in [Peer -> Words]
  /\ window \in [Peer -> MinWindow .. MaxWindow]
  /\ rate \in [Peer -> [up : Words, down : Words]]
  /\ told \in [Peer -> Words]
  /\ limited \in 0 .. N /\ recalc \in BOOLEAN
  /\ run.at \in {"idle", "rounds", "adjust", "others", "recalc", "shares", "share", "tell"}
  /\ run.peer \in 1 .. N + 1 /\ run.marked \subseteq Peer
  /\ {run.remaining, run.total, run.bandwidth, run.ratio} \subseteq Words

\* No peer sends a larger share of its unreliable packets than its limit, and no limit
\* is more than all of them, whatever enet_peer_throttle() and the two loops of
\* enet_host_bandwidth_throttle() did to either of them last.
ThrottleInLimit == \A p \in Peer : throttle[p] <= limit[p] /\ limit[p] <= Scale

\* bandwidthLimitedPeers counts the connected peers with a limit: it alone decides
\* whether the limits of single peers are looked at.
LimitedCount == limited = Cardinality({p \in UpPeers : inBw[p] # 0})

\* Inside the loop that takes the peers out one by one nothing wraps around: what is
\* left of the bandwidth is no more than there was, and what is left of the total is
\* at least what the other peers have queued.
LeftOver ==
  run.at \in {"rounds", "adjust", "others"} =>
    /\ run.remaining = Cardinality(UpPeers \ run.marked)
    /\ HostOut # 0 => /\ run.bandwidth <= Share(HostOut, run.elapsed)
                      /\ run.total >= Sum(data, UpPeers \ run.marked)

Budget(bw) == (bw * run.elapsed) \div Second
Granted(p) == limit[p] * run.demand[p]

\* With the limits just set, packets like those of the last interval fit into the
\* bandwidth of the host and into that of each peer; the exception is a peer whose
\* limit was raised to 1, the smallest.
KeepsToBandwidth ==
  run.at = "recalc" =>
    LET least == {p \in UpPeers : limit[p] = 1}
    IN  /\ HostOut # 0 =>
             Sum([p \in Peer |-> Granted(p)], UpPeers \ least) <= Scale * Budget(HostOut)
        /\ \A p \in UpPeers \ least : inBw[p] # 0 => Granted(p) \div Scale <= Budget(inBw[p])

\* Packets are dropped only if the host or the peer could not take them all
\* (under BandwidthsFit).
ThrottledOnlyWhenNeeded ==
  run.at = "recalc"
    /\ (HostOut # 0 => Sum(run.demand, UpPeers) <= Budget(HostOut))
    /\ (\A p \in UpPeers : inBw[p] # 0 => run.demand[p] <= Budget(inBw[p]))
  => \A p \in UpPeers : limit[p] = Scale

\* What the connected peers were told they may send is a limit for each of them (0
\* would be none), and fits into the incoming bandwidth of the host (under SharesSuffice).
SharesFit ==
  run.at = "idle" /\ ~recalc /\ HostIn # 0 =>
    /\ \A p \in UpPeers : told[p] # 0
    /\ Sum(told, UpPeers) <= HostIn

\* enet_host_bandwidth_throttle() returns: neither loop goes on for ever, with the
\* network thread holding the mutex.
ThrottleReturns == (run.at # "idle") ~> (run.at = "idle")

\* Types, counts and limits that agree with each other, inside the loops too.
ThrottleInv == TypeOK /\ ThrottleInLimit /\ LimitedCount /\ LeftOver

================================================================================
