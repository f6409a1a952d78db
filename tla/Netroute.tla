------------------------------- MODULE Netroute -------------------------------
(***************************************************************************)
(* The routes of one daemon as the program keeps them (src/netroute.c,     *)
(* src/packet_header.c): lists of struct netroute, searched with           *)
(* memcmp().  A struct has one array for every kind of address, and only   *)
(* the bytes of its kind count: the rest is what an earlier packet, or the *)
(* stack, left in the variable that the packet was parsed into.            *)
(*                                                                         *)
(* The threads are those of Routing, with every kind of packet; where the  *)
(* packets go is left to Routing.                                          *)
(***************************************************************************)
EXTENDS Naturals, Sequences, SequencesExt, FiniteSets

CONSTANTS
  Peers,         \* the list of peers: a sequence without repetition, all alive
  Tun,           \* the thread of the tun device
  Byte,          \* values of a byte
  IP4, MAC, IP6, \* bytes of an address: 4, 6, and 16 = sizeof(addr)
  LittleEndian,  \* is_little_endian()
  Sent,          \* packets of the host, of any kind: [kind, src, dst]
  Received,      \* packets of the peers
  Garbage,       \* what the variable `route` may hold before it is written
  MaxLocal,      \* bound on the length of local_routes
  MaxRoutes,     \* bound on the length of a peer's routes
  None

Peer   == ToSet(Peers)
Thread == Peer \cup {Tun}

Packet == Sent \cup Received

Bytes(n) == [1..n -> Byte]

\* struct netroute, without the link
netroute_t == [mac : BOOLEAN, ip4 : BOOLEAN, addr : Bytes(IP6)]

\* Both flags are set only in a variable that was never written.
Kinds == {"ip4", "ip6", "mac", "both"}

Length(kind) == IF kind = "ip4" THEN IP4 ELSE IF kind = "ip6" THEN IP6 ELSE MAC

\* An address is bytes in the order of the packet, and what they mean.
Address == UNION {[kind : {k}, bytes : Bytes(Length(k))] : k \in Kinds}

ASSUME NetrouteAssumption ==
  /\ Peers \in Seq(Peer)
  /\ IP4 \in Nat /\ MAC \in Nat /\ IP6 \in Nat
  /\ IP4 <= MAC /\ MAC <= IP6
  /\ LittleEndian \in BOOLEAN
  /\ Tun \notin Peer
  /\ None \notin Thread \cup Address
  /\ Garbage \subseteq netroute_t
  /\ \A pkt \in Packet :
       \/ pkt.kind = "other"
       \/ pkt.kind \in Kinds \ {"both"} /\ {pkt.src, pkt.dst} \subseteq Bytes(Length(pkt.kind))

VARIABLES
  if_tap,        \* the device is a tap device: packets are Ethernet frames
  local_routes,  \* addresses of this host
  routes,        \* addresses learned from each peer
  step,          \* where each thread is
  packet,        \* the packet it handles
  route,         \* its variable of that name
  target         \* what get_peer_route returned last

vars  == <<if_tap, local_routes, routes, step, packet, route, target>>
lists == <<if_tap, local_routes, routes>>

\* The tun thread keeps its route for ever, with the flags cleared at first.
Init ==
  /\ if_tap \in BOOLEAN
  /\ local_routes = <<>>
  /\ routes = [p \in Peer |-> <<>>]
  /\ step = [t \in Thread |-> "idle"]
  /\ packet = [t \in Thread |-> None]
  /\ \E g \in Garbage :
       route = [t \in Thread |-> IF t = Tun THEN [g EXCEPT !.mac = FALSE, !.ip4 = FALSE] ELSE None]
  /\ target = None

-----------------------------------------------------------------------------
(***************************************************************************)
(* Structs and lists.                                                      *)
(***************************************************************************)

\* Mutant: nothing is left behind the bytes.
CopyOnly(addr, bytes) == bytes

\* memcpy() of bytes to the beginning of addr
Copy(addr, bytes) == [i \in 1..IP6 |-> IF i <= Len(bytes) THEN bytes[i] ELSE addr[i]]

\* parse_ip_packet reads an IPv4 address as an integer of the host and takes it
\* apart from its high byte on; an IPv6 address is copied.
parse_ip_packet(kind, bytes, r) ==
  IF kind = "ip4"
  THEN [mac |-> FALSE, ip4 |-> TRUE,
        addr |-> Copy(r.addr, IF LittleEndian THEN Reverse(bytes) ELSE bytes)]
  ELSE [mac |-> FALSE, ip4 |-> FALSE, addr |-> Copy(r.addr, bytes)]

parse_eth_packet(bytes, r) == [mac |-> TRUE, ip4 |-> FALSE, addr |-> Copy(r.addr, bytes)]

\* A packet that is neither IPv4 nor IPv6 leaves the route as it was.
parse_packet_addr(pkt, r, source) ==
  LET bytes == IF source THEN pkt.src ELSE pkt.dst
  IN IF if_tap THEN parse_eth_packet(bytes, r)
     ELSE IF pkt.kind = "other" THEN r
     ELSE parse_ip_packet(pkt.kind, bytes, r)

\* Mutants: the whole array is compared; the kind of the address is not.
compare_all_bytes(r1, r2) == r1.mac = r2.mac /\ r1.ip4 = r2.ip4 /\ r1.addr = r2.addr

compare_bytes_only(r1, r2) == SubSeq(r1.addr, 1, IP4) = SubSeq(r2.addr, 1, IP4)

Limit(r) == IF r.mac THEN MAC ELSE IF r.ip4 THEN IP4 ELSE IP6

compare_netroutes(r1, r2) ==
  /\ r1.mac = r2.mac
  /\ r1.ip4 = r2.ip4
  /\ SubSeq(r1.addr, 1, Limit(r1)) = SubSeq(r2.addr, 1, Limit(r1))

netroute_in_array(r, array) == \E i \in DOMAIN array : compare_netroutes(r, array[i])

\* A copy of the struct goes to the end of the list.
add_netroute(r, array) == Append(array, r)

\* Mutant: the bytes are taken as they are in the struct.
address_unordered(r) == SubSeq(r.addr, 1, Limit(r))

\* The bytes that are handed to inet_ntop, or printed one by one.
get_netroute_addr(r) ==
  IF ~r.mac /\ r.ip4 /\ LittleEndian THEN Reverse(SubSeq(r.addr, 1, IP4))
  ELSE SubSeq(r.addr, 1, Limit(r))

is_local_route(r) == netroute_in_array(r, local_routes)

\* Position of the first peer whose routes have the address, 0 if there is none.
get_peer_route(r) == SelectInSeq(Peers, LAMBDA p : netroute_in_array(r, routes[p]))

-----------------------------------------------------------------------------
(***************************************************************************)
(* The threads.                                                            *)
(***************************************************************************)

\* A thread takes up a packet of the device's kind.
Take(t, pkt) ==
  /\ step[t] = "idle"
  /\ if_tap <=> pkt.kind = "mac"
  /\ packet' = [packet EXCEPT ![t] = pkt]

\* _broadcast_tuntap_device: the source of a packet that was read becomes a local
\* route, unless it is one.  No other thread writes local_routes.
ReadTun(pkt) ==
  LET source == parse_packet_addr(pkt, route[Tun], TRUE)
  IN /\ Take(Tun, pkt)
     /\ \/ is_local_route(source) /\ UNCHANGED local_routes
        \/ /\ ~is_local_route(source)
           /\ Len(local_routes) < MaxLocal
           /\ local_routes' = add_netroute(source, local_routes)
     /\ route' = [route EXCEPT ![Tun] = parse_packet_addr(pkt, source, FALSE)]
     /\ step' = [step EXCEPT ![Tun] = "route"]
     /\ UNCHANGED <<if_tap, routes, target>>

\* process_netpacket, whose route is a fresh variable: is the packet for this host?
Receive(p, pkt) ==
  /\ Take(p, pkt)
  /\ \E g \in Garbage :
       LET dest == parse_packet_addr(pkt, g, FALSE)
       IN IF is_local_route(dest)
          THEN /\ route' = [route EXCEPT ![p] = parse_packet_addr(pkt, dest, TRUE)]
               /\ step' = [step EXCEPT ![p] = "learn"]
          ELSE /\ route' = [route EXCEPT ![p] = dest]
               /\ step' = [step EXCEPT ![p] = "route"]
  /\ UNCHANGED <<lists, target>>

\* The route of a receive thread is gone when process_netpacket returns.
Return(t) ==
  /\ route' = [route EXCEPT ![t] = IF t = Tun THEN @ ELSE None]
  /\ step' = [step EXCEPT ![t] = "idle"]
  /\ packet' = [packet EXCEPT ![t] = None]

\* get_peer_route finds the peer the packet goes to, or whom its source belongs to.
LookupFinds(t) ==
  /\ step[t] \in {"learn", "route"}
  /\ get_peer_route(route[t]) # 0
  /\ target' = Peers[get_peer_route(route[t])]
  /\ Return(t)
  /\ UNCHANGED lists

\* get_peer_route finds nobody: the packet goes to everybody.
LookupFails(t) ==
  /\ step[t] = "route"
  /\ get_peer_route(route[t]) = 0
  /\ target' = None
  /\ Return(t)
  /\ UNCHANGED lists

\* get_peer_route does not know the source.
LookupFailsLearn(p) ==
  /\ step[p] = "learn"
  /\ get_peer_route(route[p]) = 0
  /\ target' = None
  /\ step' = [step EXCEPT ![p] = "add"]
  /\ UNCHANGED <<lists, packet, route>>

\* The peer's receive thread, which alone writes its routes, adds the source.
AddRoute(p) ==
  /\ step[p] = "add"
  /\ Len(routes[p]) < MaxRoutes
  /\ routes' = [routes EXCEPT ![p] = add_netroute(route[p], @)]
  /\ Return(p)
  /\ UNCHANGED <<if_tap, local_routes, target>>

\* destroy_netroutes: the slot of the peer goes to a new connection.
destroy_netroutes(p) ==
  /\ step[p] = "idle"
  /\ routes[p] # <<>>
  /\ routes' = [routes EXCEPT ![p] = <<>>]
  /\ UNCHANGED <<if_tap, local_routes, step, packet, route, target>>

Next ==
  \/ \E pkt \in Sent : ReadTun(pkt)
  \/ \E p \in Peer :
       LookupFailsLearn(p) \/ AddRoute(p) \/ destroy_netroutes(p) \/ (\E pkt \in Received : Receive(p, pkt))
  \/ \E t \in Thread : LookupFinds(t) \/ LookupFails(t)

Spec == Init /\ [][Next]_vars

-----------------------------------------------------------------------------
(***************************************************************************)
(* Properties.                                                             *)
(***************************************************************************)

\* The variables keep the types of what they stand for.
TypeOK ==
  /\ if_tap \in BOOLEAN
  /\ local_routes \in Seq(netroute_t)
  /\ routes \in [Peer -> Seq(netroute_t)]
  /\ step \in [Thread -> {"idle", "learn", "add", "route"}]
  /\ packet \in [Thread -> Packet \cup {None}]
  /\ route \in [Thread -> netroute_t \cup {None}]
  /\ target \in Peer \cup {None}

Kind(r) ==
  IF r.mac THEN IF r.ip4 THEN "both" ELSE "mac" ELSE IF r.ip4 THEN "ip4" ELSE "ip6"

\* What a struct means.
AddressOf[r \in netroute_t] ==
  [kind |-> Kind(r), bytes |-> IF Kind(r) = "ip4" /\ LittleEndian
                               THEN Reverse(SubSeq(r.addr, 1, IP4))
                               ELSE SubSeq(r.addr, 1, Length(Kind(r)))]

Addresses(array) == {AddressOf[array[i]] : i \in DOMAIN array}

AddressIn(pkt, bytes) == [kind |-> pkt.kind, bytes |-> bytes]

AbstractPacket(pkt) ==
  IF pkt.kind = "other" THEN [src |-> None, dst |-> None]
  ELSE [src |-> AddressIn(pkt, pkt.src), dst |-> AddressIn(pkt, pkt.dst)]

Known == [p \in Peer |-> Addresses(routes[p])]

Task == [t \in Thread |->
  [step |-> step[t],
   pkt  |-> IF step[t] = "idle" THEN None ELSE AbstractPacket(packet[t]),
   addr |-> IF step[t] = "idle" THEN None ELSE AddressOf[route[t]]]]

Book == INSTANCE RouteBook WITH
  Packet <- {AbstractPacket(pkt) : pkt \in Packet},
  local <- Addresses(local_routes),
  known <- Known,
  task <- Task,
  last <- AddressOf[route[Tun]],
  answer <- target

\* The lists and memcmp() are as good as sets of addresses, whatever is in the bytes
\* that do not count: a lookup finds just what was learned, and what is learned is
\* the source of the packet at hand.  Only a packet that is not IP (packet_header.c:107)
\* can teach anything else: a peer's an address of this host, and this host's the
\* address it looked up last.
ImplementsBook == Book!Spec

\* The lists stay short: no address is in a list twice, though it is added some
\* steps after it was looked for, by threads that do not wait for one another.
NoDuplicates ==
  \A array \in {local_routes} \cup {routes[p] : p \in Peer} :
    Cardinality(Addresses(array)) = Len(array)

\* The address that is logged is that of the packet at hand, its source or its
\* destination, on a host of either byte order.
ShownAsSent ==
  \A t \in Thread : step[t] # "idle" /\ packet[t].kind # "other" =>
    get_netroute_addr(route[t]) = IF step[t] = "route" THEN packet[t].dst ELSE packet[t].src
=============================================================================
