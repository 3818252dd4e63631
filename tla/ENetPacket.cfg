\* Two peers that share broadcast packets, whole and in fragments.
SPECIFICATION Spec
CONSTANTS
  Peers = {p1, p2}
  Channels = {1}
  Kinds = {"reliable", "unreliable", "unsequenced", "unreliableFragment"}
  Sizes = {1, 2}
  MaxPackets = 2
INVARIANTS
  PacketInv
  NothingDangles
  OnlyRefusedLeak
SYMMETRY PeerSymmetry
CHECK_DEADLOCK FALSE
