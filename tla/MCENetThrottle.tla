----------------------------- MODULE MCENetThrottle -----------------------------
(***************************************************************************)
(* The hosts and peers that TLC looks at.                                  *)
(***************************************************************************)
EXTENDS ENetThrottle

\* The outgoing bandwidth is divided: too little for all that two peers have queued, and
\* for one of the peers less than its part.
Outgoing ==
  [in |-> 0, out |-> 12, theirIn |-> {1, 5, 13}, theirOut |-> {0}, peers |-> 2,
   rate |-> 8, rates |-> {}, sizes |-> {8}]

\* The incoming bandwidth is divided among three peers that send less than their part,
\* or more.
Incoming ==
  [in |-> 7, out |-> 24, theirIn |-> {0}, theirOut |-> {1, 2, 9}, peers |-> 3,
   rate |-> 0, rates |-> {}, sizes |-> {}]

\* Both, with a peer that changes its throttle.
BothWays ==
  [in |-> 5, out |-> 64, theirIn |-> {0, 2}, theirOut |-> {9}, peers |-> 2,
   rate |-> 8, rates |-> {0}, sizes |-> {}]

MCScenarios == {Outgoing, Incoming, BothWays}

ASSUME ScenariosSuit == BandwidthsFit /\ SharesSuffice

================================================================================
