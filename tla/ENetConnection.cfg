\* A client and a server with two peers, over a network that loses,
\* duplicates, delays and reorders datagrams without limit.
SPECIFICATION Spec
CONSTANTS
    client = client
    server = server
    Hosts <- MCHosts
    PeerCount <- MCPeerCount
    NoHost = NoHost
    Duplicating = TRUE
    ServerPeers = 2
    Scenarios <- MCScenarios
INVARIANTS
  ConnectionInv
  ViewMatches
  NoLimbo
  AcceptedOnce
  SessionsAgree
\* Within the bounds the application runs out of things to do.
CHECK_DEADLOCK FALSE
