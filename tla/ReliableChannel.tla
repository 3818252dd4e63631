---------------------------- MODULE ReliableChannel ----------------------------
(***************************************************************************)
(* What the reliable packets of one ENet channel promise: the application  *)
(* at the far end receives exactly the packets that were sent, each once   *)
(* and in the order of sending, some time after they were sent.            *)
(***************************************************************************)
EXTENDS Naturals, Sequences

CONSTANT Packet       \* the packets that may be sent
VARIABLES sent,       \* the packets given to enet_peer_send(), in order
          delivered   \* the packets that have been dispatched, in order

vars == <<sent, delivered>>

Init == sent = <<>> /\ delivered = <<>>

Send ==
  /\ sent' \in {Append(sent, p) : p \in Packet}
  /\ UNCHANGED delivered

\* One incoming command may complete several packets that waited behind it.
Deliver ==
  /\ delivered' \in {SubSeq(sent, 1, k) : k \in Len(delivered) + 1 .. Len(sent)}
  /\ UNCHANGED sent

Next == Send \/ Deliver

Spec == Init /\ [][Next]_vars
================================================================================
