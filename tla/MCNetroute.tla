----------------------------- MODULE MCNetroute -----------------------------
(***************************************************************************)
(* A small instance of Netroute: one bit is a byte; IPv4 addresses have    *)
(* two of them, MAC addresses two and IPv6 addresses three.                *)
(***************************************************************************)
EXTENDS Netroute

CONSTANTS p1, p2

TwoPeers == <<p1, p2>>

Bits == {0, 1}

Pkt(kind, src, dst) == [kind |-> kind, src |-> src, dst |-> dst]

\* Addresses of different kinds begin with the same bytes.
HostPackets ==
  {Pkt("ip4", <<0, 1>>, <<1, 0>>), Pkt("ip6", <<0, 1, 1>>, <<1, 0, 0>>), Pkt("other", None, None),
   Pkt("mac", <<0, 1>>, <<1, 0>>)}

PeerPackets ==
  {Pkt("ip4", <<1, 0>>, <<0, 1>>), Pkt("ip6", <<1, 0, 0>>, <<0, 1, 1>>), Pkt("other", None, None),
   Pkt("mac", <<1, 0>>, <<0, 1>>), Pkt("mac", <<1, 1>>, <<0, 1>>)}

\* On a little-endian host, this is the address of the host that HostPackets has.
Stack == {[mac |-> FALSE, ip4 |-> TRUE, addr |-> <<1, 0, 1>>]}
=============================================================================
