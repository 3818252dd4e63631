-------------------------- MODULE MCENetConnection ---------------------------
(***************************************************************************)
(* Instances of ENetConnection: a client with one peer and a server.       *)
(***************************************************************************)
EXTENDS ENetConnection

CONSTANTS client, server, ServerPeers

MCHosts == {client, server}

MCPeerCount == [h \in {client, server} |-> IF h = server THEN ServerPeers ELSE 1]

ClientCalls == [callers |-> {client}, connects |-> 2, accepts |-> 2, data |-> 0,
                restarts |-> 0, pings |-> 0, tries |-> 0]

BothCall == [ClientCalls EXCEPT !.callers = {client, server}]

\* The client calls once and both send packets; the client calls twice and a
\* host is unbound and bound again; or both hosts call.
MCScenarios == {[ClientCalls EXCEPT !.data = 2, !.connects = 1],
                [ClientCalls EXCEPT !.restarts = 1],
                BothCall}

\* For liveness: the client calls once, and there are pings and retransmissions;
\* or both hosts call, and use their peers again, with retransmissions or with a
\* second request that is accepted.
MCAttempts == {[ClientCalls EXCEPT !.connects = 1, !.accepts = 1, !.pings = 1, !.tries = 1],
               [BothCall EXCEPT !.accepts = 1, !.tries = 1],
               BothCall}
==============================================================================
