------------------------------ MODULE MCENetPacket ------------------------------
(***************************************************************************)
(* ENetPacket for model checking: peers are interchangeable.               *)
(***************************************************************************)
EXTENDS ENetPacket, TLC

PeerSymmetry == Permutations(Peers)
================================================================================
