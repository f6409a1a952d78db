\* Two peers, IPv4, IPv6, Ethernet and other packets.
SPECIFICATION Spec
CONSTANTS
  p1 = p1
  p2 = p2
  Peers <- TwoPeers
  Tun = tun
  Byte <- Bits
  IP4 = 2
  MAC = 2
  IP6 = 3
  LittleEndian = TRUE
  Sent <- HostPackets
  Received <- PeerPackets
  Garbage <- Stack
  MaxLocal = 3
  MaxRoutes = 2
  None = None
INVARIANTS
  TypeOK
  NoDuplicates
  ShownAsSent
PROPERTIES
  ImplementsBook
CHECK_DEADLOCK FALSE
