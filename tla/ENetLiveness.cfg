\* The network may lose, delay and reorder everything, but repeats nothing.
SPECIFICATION FairSpec
CONSTANTS
    client = client
    server = server
    Hosts <- MCHosts
    PeerCount <- MCPeerCount
    NoHost = NoHost
    Duplicating = FALSE
    ServerPeers = 1
    Scenarios <- MCAttempts
PROPERTIES
    Settles
\* Within the bounds the application runs out of things to do.
CHECK_DEADLOCK FALSE
