---------------------------- MODULE NetrouteProofs ----------------------------
(***************************************************************************)
(* Proofs, for any number of peers, any packets and anything that the      *)
(* bytes that do not count may hold, that the lists of struct netroute     *)
(* implement the sets of addresses of RouteBook.                           *)
(*                                                                         *)
(* The argument.  Two structs are equal to compare_netroutes just when     *)
(* they mean the same address, so a list can be searched in place of the   *)
(* set of its addresses; and what parse_packet_addr leaves in a struct     *)
(* means the address in the packet, whatever the struct held before.       *)
(***************************************************************************)
EXTENDS Netroute, SequenceTheorems, FiniteSetTheorems, TLAPS

-----------------------------------------------------------------------------
(***************************************************************************)
(* Bytes and structs.                                                      *)
(***************************************************************************)

\* The first n bytes of a struct's array.
LEMMA Prefix ==
  ASSUME NEW a \in Bytes(IP6), NEW n \in Nat, n <= IP6
  PROVE  /\ SubSeq(a, 1, n) \in Bytes(n)
         /\ SubSeq(a, 1, n) = [i \in 1..n |-> a[i]]
         /\ Len(SubSeq(a, 1, n)) = n
<1>1. \A i \in 1..n : a[i] \in Byte
  BY NetrouteAssumption DEF Bytes
<1> DEFINE pre == SubSeq(a, 1, n)
<1>2. /\ pre \in Seq(Byte)
      /\ Len(pre) = IF 1 <= n THEN n - 1 + 1 ELSE 0
      /\ \A i \in 1 .. n - 1 + 1 : pre[i] = a[1 + i - 1]
  BY <1>1, SubSeqProperties
<1>3. Len(pre) = n /\ \A i \in 1..n : pre[i] = a[i]
  BY <1>2, NetrouteAssumption DEF Bytes
<1>4. pre = [i \in 1..n |-> a[i]]
  <2> HIDE DEF pre
  <2> DOMAIN pre = 1..n /\ pre = [i \in DOMAIN pre |-> pre[i]]
    BY <1>2, <1>3
  <2> QED
    BY <1>3
<1> QED
  BY <1>1, <1>3, <1>4 DEF Bytes

\* Reversing bytes keeps their number, and reversing them twice gives them back.
LEMMA ReverseBytes ==
  ASSUME NEW n \in Nat, NEW b \in Bytes(n)
  PROVE  /\ Len(b) = n
         /\ Reverse(b) \in Bytes(n)
         /\ Reverse(Reverse(b)) = b
<1>1. b \in Seq(Byte) /\ Len(b) = n
  BY DEF Bytes
<1>2. Reverse(b) = [i \in 1..n |-> b[(n - i) + 1]]
  BY <1>1 DEF Reverse
<1>3. Reverse(b) \in Bytes(n) /\ Len(Reverse(b)) = n
  BY <1>2 DEF Bytes
<1>4. Reverse(Reverse(b)) = [i \in 1..n |-> b[(n - ((n - i) + 1)) + 1]]
  BY <1>2, <1>3 DEF Reverse
<1>5. \A i \in 1..n : (n - ((n - i) + 1)) + 1 = i
  OBVIOUS
<1> QED
  BY <1>1, <1>3, <1>4, <1>5 DEF Bytes

\* Copying bytes to the beginning of an array: they are its prefix.
LEMMA CopyPrefix ==
  ASSUME NEW a \in Bytes(IP6), NEW n \in Nat, n <= IP6, NEW b \in Bytes(n)
  PROVE  Copy(a, b) \in Bytes(IP6) /\ SubSeq(Copy(a, b), 1, n) = b
<1>1. Len(b) = n
  BY ReverseBytes
<1>2. Copy(a, b) \in Bytes(IP6)
  BY <1>1 DEF Copy, Bytes
<1>3. SubSeq(Copy(a, b), 1, n) = [i \in 1..n |-> Copy(a, b)[i]]
  BY <1>2, Prefix
<1>4. \A i \in 1..n : Copy(a, b)[i] = b[i]
  BY <1>1, NetrouteAssumption DEF Copy
<1> QED
  BY <1>2, <1>3, <1>4 DEF Bytes

\* The bytes that count are fewer than the array has.
LEMMA Limits ==
  ASSUME NEW r \in netroute_t
  PROVE  /\ Kind(r) \in Kinds
         /\ Limit(r) = Length(Kind(r))
         /\ Length(Kind(r)) \in Nat
         /\ Length(Kind(r)) <= IP6
BY NetrouteAssumption DEF netroute_t, Kind, Kinds, Limit, Length

\* A struct means an address.
LEMMA StructMeansAddress ==
  ASSUME NEW r \in netroute_t
  PROVE  /\ AddressOf[r] \in Address
         /\ AddressOf[r] # None
         /\ AddressOf[r].kind = Kind(r)
         /\ AddressOf[r].bytes = IF Kind(r) = "ip4" /\ LittleEndian
                                 THEN Reverse(SubSeq(r.addr, 1, Length(Kind(r))))
                                 ELSE SubSeq(r.addr, 1, Length(Kind(r)))
<1> DEFINE pre == SubSeq(r.addr, 1, Length(Kind(r)))
<1>1. r.addr \in Bytes(IP6)
  BY DEF netroute_t
<1>2. pre \in Bytes(Length(Kind(r))) /\ Reverse(pre) \in Bytes(Length(Kind(r)))
  BY <1>1, Prefix, ReverseBytes, Limits
<1>3. AddressOf[r] = [kind |-> Kind(r), bytes |-> IF Kind(r) = "ip4" /\ LittleEndian
                                                  THEN Reverse(pre) ELSE pre]
  BY DEF AddressOf, Length
<1>4. AddressOf[r] \in Address
  BY <1>2, <1>3, Limits DEF Address
<1>5. AddressOf[r] # None
  <2> None \notin Address
    BY NetrouteAssumption
  <2> QED
    BY <1>4
<1> QED
  BY <1>3, <1>4, <1>5

\* compare_netroutes compares what the structs mean.
LEMMA CompareIsEqual ==
  ASSUME NEW r1 \in netroute_t, NEW r2 \in netroute_t
  PROVE  compare_netroutes(r1, r2) <=> AddressOf[r1] = AddressOf[r2]
<1> DEFINE n == Length(Kind(r1))
           pre(r) == SubSeq(r.addr, 1, n)
<1>1. Kind(r1) = Kind(r2) <=> r1.mac = r2.mac /\ r1.ip4 = r2.ip4
  BY DEF Kind, netroute_t
<1>2. pre(r1) \in Bytes(n) /\ pre(r2) \in Bytes(n)
  BY Prefix, Limits DEF netroute_t
<1>3. Reverse(pre(r1)) = Reverse(pre(r2)) <=> pre(r1) = pre(r2)
  BY <1>2, ReverseBytes, Limits
<1>4. compare_netroutes(r1, r2) <=> Kind(r1) = Kind(r2) /\ pre(r1) = pre(r2)
  BY <1>1, Limits DEF compare_netroutes
<1>5. AddressOf[r1] = AddressOf[r2] <=>
        AddressOf[r1].kind = AddressOf[r2].kind /\ AddressOf[r1].bytes = AddressOf[r2].bytes
  BY DEF AddressOf
<1> QED
  BY <1>3, <1>4, <1>5, StructMeansAddress

-----------------------------------------------------------------------------
(***************************************************************************)
(* Lists.                                                                  *)
(***************************************************************************)

\* To search a list is to ask whether the address is in the set.
LEMMA InArray ==
  ASSUME NEW r \in netroute_t, NEW array \in Seq(netroute_t)
  PROVE  netroute_in_array(r, array) <=> AddressOf[r] \in Addresses(array)
<1>1. \A i \in DOMAIN array : array[i] \in netroute_t
  OBVIOUS
<1>2. \A i \in DOMAIN array :
        compare_netroutes(r, array[i]) <=> AddressOf[r] = AddressOf[array[i]]
  BY <1>1, CompareIsEqual
<1> QED
  BY <1>2 DEF netroute_in_array, Addresses

\* To append to a list is to add to the set.
LEMMA AddToArray ==
  ASSUME NEW r \in netroute_t, NEW array \in Seq(netroute_t)
  PROVE  /\ add_netroute(r, array) \in Seq(netroute_t)
         /\ Addresses(add_netroute(r, array)) = Addresses(array) \cup {AddressOf[r]}
<1> DEFINE longer == Append(array, r)
<1>1. longer \in Seq(netroute_t) /\ DOMAIN longer = (DOMAIN array) \cup {Len(array) + 1}
  OBVIOUS
<1>2. /\ \A i \in DOMAIN array : longer[i] = array[i]
      /\ longer[Len(array) + 1] = r
  OBVIOUS
<1>3. ASSUME NEW a PROVE a \in Addresses(longer) <=> a \in Addresses(array) \/ a = AddressOf[r]
  BY <1>1, <1>2 DEF Addresses
<1> QED
  BY <1>1, <1>3 DEF add_netroute

\* A list holds no address twice when its addresses are as many as it is long.
Distinct(array) ==
  IsFiniteSet(Addresses(array)) /\ Cardinality(Addresses(array)) = Len(array)

LEMMA EmptyDistinct ==
  Addresses(<<>>) = {} /\ Distinct(<<>>)
BY FS_EmptySet DEF Addresses, Distinct

LEMMA AddDistinct ==
  ASSUME NEW r \in netroute_t, NEW array \in Seq(netroute_t), Distinct(array),
         ~netroute_in_array(r, array)
  PROVE  Distinct(add_netroute(r, array))
<1>1. AddressOf[r] \notin Addresses(array)
  BY InArray
<1>2. Len(add_netroute(r, array)) = Len(array) + 1
  BY DEF add_netroute
<1>3. /\ IsFiniteSet(Addresses(array) \cup {AddressOf[r]})
      /\ Cardinality(Addresses(array) \cup {AddressOf[r]}) = Cardinality(Addresses(array)) + 1
  BY <1>1, FS_AddElement DEF Distinct
<1> QED
  BY <1>2, <1>3, AddToArray DEF Distinct

\* A set of natural numbers that is not empty has a least element.
LEMMA LeastNumber ==
  ASSUME NEW I, I \subseteq Nat, I # {}
  PROVE  Min(I) \in I
<1>1. PICK i \in I : \A j \in I : ~(<<j, i>> \in OpToRel(<, Nat))
  BY NatLessThanWellFounded, WFMin
<1>2. \A j \in I : ~(j < i)
  BY <1>1, Zenon DEF OpToRel
<1>3. \A j \in I : i <= j
  BY <1>2
<1> QED
  BY <1>3 DEF Min

\* get_peer_route gives a peer that has the address, if there is one.
LEMMA PeerRoute ==
  ASSUME NEW r \in netroute_t, routes \in [Peer -> Seq(netroute_t)]
  PROVE  /\ get_peer_route(r) # 0 =>
              /\ Peers[get_peer_route(r)] \in Peer
              /\ AddressOf[r] \in Addresses(routes[Peers[get_peer_route(r)]])
         /\ get_peer_route(r) = 0 => \A p \in Peer : AddressOf[r] \notin Addresses(routes[p])
<1> DEFINE Have == {i \in 1..Len(Peers) : netroute_in_array(r, routes[Peers[i]])}
<1>1. get_peer_route(r) = IF Have # {} THEN Min(Have) ELSE 0
  BY DEF get_peer_route, SelectInSeq
<1>2. Peers \in Seq(Peer) /\ Peer = {Peers[i] : i \in 1..Len(Peers)}
  BY NetrouteAssumption DEF Peer, ToSet
<1>3. \A p \in Peer : netroute_in_array(r, routes[p]) <=> AddressOf[r] \in Addresses(routes[p])
  BY InArray
<1>4. CASE Have # {}
  <2>1. Min(Have) \in Have
    <3> Have \subseteq Nat
      OBVIOUS
    <3> QED
      BY <1>4, LeastNumber
  <2>2. /\ Min(Have) \in 1..Len(Peers)
        /\ netroute_in_array(r, routes[Peers[Min(Have)]])
    BY <2>1
  <2>3. get_peer_route(r) = Min(Have) /\ get_peer_route(r) # 0
    BY <1>1, <1>4, <2>2
  <2>4. Peers[Min(Have)] \in Peer
    BY <1>2, <2>2
  <2> QED
    BY <1>3, <2>2, <2>3, <2>4
<1>5. CASE Have = {}
  BY <1>1, <1>2, <1>3, <1>5
<1> QED
  BY <1>4, <1>5

-----------------------------------------------------------------------------
(***************************************************************************)
(* Packets.                                                                *)
(***************************************************************************)

\* What is parsed into a struct means the address in the packet; what is not IP
\* leaves the struct as it was.
LEMMA ParseMeans ==
  ASSUME NEW r \in netroute_t, NEW pkt \in Packet, NEW source \in BOOLEAN,
         if_tap <=> pkt.kind = "mac"
  PROVE  LET q == parse_packet_addr(pkt, r, source)
         IN  /\ q \in netroute_t
             /\ pkt.kind = "other" => q = r
             /\ pkt.kind # "other" =>
                  AddressOf[q] = AddressIn(pkt, IF source THEN pkt.src ELSE pkt.dst)
<1> DEFINE q == parse_packet_addr(pkt, r, source)
           b == IF source THEN pkt.src ELSE pkt.dst
<1>1. CASE pkt.kind = "other"
  BY <1>1 DEF parse_packet_addr
<1>2. CASE pkt.kind # "other"
  <2>1. /\ pkt.kind \in {"ip4", "ip6", "mac"}
        /\ b \in Bytes(Length(pkt.kind))
    BY <1>2, NetrouteAssumption DEF Kinds
  <2>2. /\ Length(pkt.kind) \in Nat
        /\ Length(pkt.kind) <= IP6
        /\ r.addr \in Bytes(IP6)
    BY NetrouteAssumption DEF Length, netroute_t
  <2> DEFINE c == IF pkt.kind = "ip4" /\ LittleEndian THEN Reverse(b) ELSE b
  <2>3. /\ c \in Bytes(Length(pkt.kind))
        /\ (IF pkt.kind = "ip4" /\ LittleEndian THEN Reverse(c) ELSE c) = b
    BY <2>1, <2>2, ReverseBytes
  <2>4. /\ Copy(r.addr, c) \in Bytes(IP6)
        /\ SubSeq(Copy(r.addr, c), 1, Length(pkt.kind)) = c
    BY <2>2, <2>3, CopyPrefix
  <2>5. q = [mac |-> pkt.kind = "mac", ip4 |-> pkt.kind = "ip4", addr |-> Copy(r.addr, c)]
    BY <2>1 DEF parse_packet_addr, parse_eth_packet, parse_ip_packet
  <2>6. q \in netroute_t /\ Kind(q) = pkt.kind /\ q.addr = Copy(r.addr, c)
    <3> HIDE DEF q, c
    <3>1. q.mac = (pkt.kind = "mac") /\ q.ip4 = (pkt.kind = "ip4") /\ q.addr = Copy(r.addr, c)
      BY <2>5
    <3>2. q \in netroute_t
      BY <2>4, <2>5 DEF netroute_t
    <3> QED
      BY <2>1, <3>1, <3>2 DEF Kind
  <2>7. AddressOf[q].kind = pkt.kind /\ AddressOf[q].bytes = b
    <3> HIDE DEF q, b, c
    <3> QED
      BY <2>3, <2>4, <2>6, StructMeansAddress
  <2>8. AddressOf[q] = [kind |-> AddressOf[q].kind, bytes |-> AddressOf[q].bytes]
    BY <2>6 DEF AddressOf
  <2> QED
    BY <1>2, <2>6, <2>7, <2>8 DEF AddressIn
<1> QED
  BY <1>1, <1>2

\* What a packet says is an address, or nothing when it is not IP.
LEMMA PacketAddresses ==
  ASSUME NEW pkt \in Packet
  PROVE  /\ pkt.kind = "other" => AbstractPacket(pkt) = [src |-> None, dst |-> None]
         /\ pkt.kind # "other" =>
              /\ AbstractPacket(pkt) =
                   [src |-> AddressIn(pkt, pkt.src), dst |-> AddressIn(pkt, pkt.dst)]
              /\ AddressIn(pkt, pkt.src) # None
              /\ AddressIn(pkt, pkt.dst) # None
<1>1. ASSUME NEW b \in {pkt.src, pkt.dst}, pkt.kind # "other"
      PROVE  AddressIn(pkt, b) # None
  <2>1. pkt.kind \in Kinds /\ b \in Bytes(Length(pkt.kind))
    BY <1>1, NetrouteAssumption
  <2>2. AddressIn(pkt, b) \in Address
    BY <2>1 DEF Address, AddressIn
  <2>3. None \notin Address
    BY NetrouteAssumption
  <2> QED
    BY <2>2, <2>3
<1> QED
  BY <1>1 DEF AbstractPacket

\* So a parsed struct means what the abstract packet says, or what it meant before.
LEMMA ParseRefines ==
  ASSUME NEW r \in netroute_t, NEW pkt \in Packet, NEW source \in BOOLEAN,
         if_tap <=> pkt.kind = "mac"
  PROVE  AddressOf[parse_packet_addr(pkt, r, source)] =
           Book!Or(IF source THEN AbstractPacket(pkt).src ELSE AbstractPacket(pkt).dst, AddressOf[r])
BY ParseMeans, PacketAddresses DEF Book!Or

-----------------------------------------------------------------------------
(***************************************************************************)
(* The invariant.                                                          *)
(***************************************************************************)

\* A thread that is busy has a packet of the device's kind and a struct to look up.
Busy ==
  /\ route[Tun] \in netroute_t
  /\ step[Tun] \in {"idle", "route"}
  /\ \A t \in Thread : step[t] # "idle" =>
       /\ packet[t] \in Packet
       /\ if_tap <=> packet[t].kind = "mac"
       /\ route[t] \in netroute_t

\* The struct means the address at hand.
Meant ==
  \A t \in Thread : step[t] # "idle" /\ packet[t].kind # "other" =>
    AddressOf[route[t]] =
      AddressIn(packet[t], IF step[t] = "route" THEN packet[t].dst ELSE packet[t].src)

\* Nobody else adds to a peer's routes what its thread has not found in them.
Fresh == \A p \in Peer : step[p] = "add" => AddressOf[route[p]] \notin Addresses(routes[p])

AllDistinct == Distinct(local_routes) /\ \A p \in Peer : Distinct(routes[p])

NInv == TypeOK /\ Busy /\ Meant /\ Fresh /\ AllDistinct

LEMMA NInit == Init => NInv
<1> SUFFICES ASSUME Init PROVE NInv
  OBVIOUS
<1>1. PICK g \in Garbage :
        route = [t \in Thread |-> IF t = Tun THEN [g EXCEPT !.mac = FALSE, !.ip4 = FALSE] ELSE None]
  BY DEF Init
<1>2. [g EXCEPT !.mac = FALSE, !.ip4 = FALSE] \in netroute_t
  BY NetrouteAssumption DEF netroute_t
<1>3. Tun \in Thread
  BY DEF Thread
<1>4. route[Tun] \in netroute_t
  BY <1>1, <1>2, <1>3
<1>5. TypeOK
  BY <1>1, <1>2, NetrouteAssumption DEF Init, TypeOK, Thread
<1>6. Busy
  BY <1>3, <1>4 DEF Init, Busy
<1>7. Meant /\ Fresh
  BY DEF Init, Meant, Fresh, Thread
<1>8. AllDistinct
  BY EmptyDistinct DEF Init, AllDistinct
<1> QED
  BY <1>5, <1>6, <1>7, <1>8 DEF NInv

\* ReadTun
LEMMA ReadTunStep ==
  ASSUME NInv, NEW pkt \in Sent, ReadTun(pkt)
  PROVE  NInv'
<1> DEFINE source == parse_packet_addr(pkt, route[Tun], TRUE)
           dest   == parse_packet_addr(pkt, source, FALSE)
<1>1. pkt \in Packet /\ (if_tap <=> pkt.kind = "mac") /\ Tun \in Thread /\ route[Tun] \in netroute_t
  BY DEF NInv, Busy, ReadTun, Take, Packet, Thread
<1>2. source \in netroute_t
  BY <1>1, ParseMeans
<1>3. dest \in netroute_t /\ (pkt.kind # "other" => AddressOf[dest] = AddressIn(pkt, pkt.dst))
  BY <1>1, <1>2, ParseMeans
<1>4. /\ packet' = [packet EXCEPT ![Tun] = pkt]
      /\ route' = [route EXCEPT ![Tun] = dest]
      /\ step' = [step EXCEPT ![Tun] = "route"]
      /\ UNCHANGED <<if_tap, routes, target>>
  BY DEF ReadTun, Take
<1>5. \/ UNCHANGED local_routes
      \/ ~is_local_route(source) /\ local_routes' = add_netroute(source, local_routes)
  BY DEF ReadTun
<1>6. local_routes \in Seq(netroute_t) /\ Distinct(local_routes)
  BY DEF NInv, TypeOK, AllDistinct
<1>7. local_routes' \in Seq(netroute_t) /\ Distinct(local_routes')
  BY <1>2, <1>5, <1>6, AddToArray, AddDistinct DEF is_local_route
<1> HIDE DEF source, dest
<1>8. TypeOK'
  BY <1>1, <1>3, <1>4, <1>7 DEF NInv, TypeOK
<1>9. Busy'
  BY <1>1, <1>3, <1>4 DEF NInv, TypeOK, Busy
<1>10. Meant'
  BY <1>1, <1>3, <1>4 DEF NInv, TypeOK, Meant
<1>11. Fresh'
  BY <1>4, NetrouteAssumption DEF NInv, TypeOK, Fresh, Thread
<1>12. AllDistinct'
  BY <1>4, <1>7 DEF NInv, AllDistinct, Distinct, Addresses
<1> QED
  BY <1>8, <1>9, <1>10, <1>11, <1>12 DEF NInv

\* Receive
LEMMA ReceiveStep ==
  ASSUME NInv, NEW p \in Peer, NEW pkt \in Received, Receive(p, pkt)
  PROVE  NInv'
<1>1. pkt \in Packet /\ (if_tap <=> pkt.kind = "mac") /\ p \in Thread /\ p # Tun
  BY NetrouteAssumption DEF Receive, Take, Packet, Thread
<1>2. PICK g \in Garbage :
        LET dest == parse_packet_addr(pkt, g, FALSE)
        IN IF is_local_route(dest)
           THEN /\ route' = [route EXCEPT ![p] = parse_packet_addr(pkt, dest, TRUE)]
                /\ step' = [step EXCEPT ![p] = "learn"]
           ELSE /\ route' = [route EXCEPT ![p] = dest]
                /\ step' = [step EXCEPT ![p] = "route"]
  BY DEF Receive
<1> DEFINE dest   == parse_packet_addr(pkt, g, FALSE)
           source == parse_packet_addr(pkt, dest, TRUE)
<1>3. dest \in netroute_t /\ (pkt.kind # "other" => AddressOf[dest] = AddressIn(pkt, pkt.dst))
  BY <1>1, ParseMeans, NetrouteAssumption
<1>4. source \in netroute_t /\ (pkt.kind # "other" => AddressOf[source] = AddressIn(pkt, pkt.src))
  BY <1>1, <1>3, ParseMeans
<1>5. PICK r \in netroute_t, at \in {"learn", "route"} :
        /\ route' = [route EXCEPT ![p] = r]
        /\ step' = [step EXCEPT ![p] = at]
        /\ pkt.kind # "other" =>
             AddressOf[r] = AddressIn(pkt, IF at = "route" THEN pkt.dst ELSE pkt.src)
  <2>1. CASE is_local_route(dest)
    BY <1>2, <1>4, <2>1
  <2>2. CASE ~is_local_route(dest)
    BY <1>2, <1>3, <2>2
  <2> QED
    BY <2>1, <2>2
<1>6. packet' = [packet EXCEPT ![p] = pkt] /\ UNCHANGED <<if_tap, local_routes, routes, target>>
  BY DEF Receive, Take, lists
<1>7. TypeOK'
  BY <1>1, <1>5, <1>6 DEF NInv, TypeOK
<1>8. Busy'
  BY <1>1, <1>5, <1>6 DEF NInv, TypeOK, Busy
<1>9. Meant'
  BY <1>1, <1>5, <1>6 DEF NInv, TypeOK, Meant
<1>10. Fresh'
  BY <1>1, <1>5, <1>6 DEF NInv, TypeOK, Fresh, Addresses, Thread
<1>11. AllDistinct'
  BY <1>6 DEF NInv, AllDistinct, Distinct, Addresses
<1> QED
  BY <1>7, <1>8, <1>9, <1>10, <1>11 DEF NInv

\* A thread that returns keeps the invariant, if what it has added is not there twice.
LEMMA ReturnStep ==
  ASSUME NInv, NEW t \in Thread, Return(t), target' \in Peer \cup {None},
         UNCHANGED <<if_tap, local_routes>>, routes' \in [Peer -> Seq(netroute_t)],
         \A q \in Peer : Distinct(routes'[q]) /\ (q # t => routes'[q] = routes[q])
  PROVE  NInv'
<1>1. /\ packet' = [packet EXCEPT ![t] = None]
      /\ step' = [step EXCEPT ![t] = "idle"]
      /\ route' = [route EXCEPT ![t] = IF t = Tun THEN route[t] ELSE None]
  BY DEF Return
<1>2. Tun \in Thread /\ route[Tun] \in netroute_t
  BY DEF NInv, Busy, Thread
<1>3. TypeOK'
  BY <1>1, <1>2 DEF NInv, TypeOK
<1>4. Busy'
  BY <1>1, <1>2 DEF NInv, TypeOK, Busy
<1>5. Meant'
  BY <1>1 DEF NInv, TypeOK, Meant
<1>6. Fresh'
  <2> SUFFICES ASSUME NEW p \in Peer, step'[p] = "add"
               PROVE  AddressOf[route'[p]] \notin Addresses(routes'[p])
    BY DEF Fresh, Addresses
  <2>1. p \in Thread /\ p # t /\ step[p] = "add" /\ route'[p] = route[p]
    BY <1>1 DEF NInv, TypeOK, Thread
  <2> QED
    BY <2>1 DEF NInv, Fresh
<1>7. AllDistinct'
  BY DEF NInv, AllDistinct, Distinct, Addresses
<1> QED
  BY <1>3, <1>4, <1>5, <1>6, <1>7 DEF NInv

\* LookupFinds, LookupFails
LEMMA LookupStep ==
  ASSUME NInv, NEW t \in Thread, LookupFinds(t) \/ LookupFails(t)
  PROVE  NInv'
<1>1. Return(t) /\ UNCHANGED lists
  BY DEF LookupFinds, LookupFails
<1>2. route[t] \in netroute_t
  BY DEF LookupFinds, LookupFails, NInv, Busy
<1>3. target' \in Peer \cup {None}
  BY <1>2, PeerRoute DEF LookupFinds, LookupFails, NInv, TypeOK
<1> QED
  BY <1>1, <1>3, ReturnStep DEF lists, NInv, TypeOK, AllDistinct

\* LookupFailsLearn
LEMMA LearnStep ==
  ASSUME NInv, NEW p \in Peer, LookupFailsLearn(p)
  PROVE  NInv'
<1>1. /\ step[p] = "learn" /\ p \in Thread /\ p # Tun
      /\ get_peer_route(route[p]) = 0
      /\ step' = [step EXCEPT ![p] = "add"]
      /\ target' = None
      /\ UNCHANGED <<if_tap, local_routes, routes, packet, route>>
  BY NetrouteAssumption DEF LookupFailsLearn, lists, Thread
<1>2. route[p] \in netroute_t
  BY <1>1 DEF NInv, Busy
<1>3. AddressOf[route[p]] \notin Addresses(routes[p])
  BY <1>1, <1>2, PeerRoute DEF NInv, TypeOK
<1>4. TypeOK'
  BY <1>1 DEF NInv, TypeOK
<1>5. Busy'
  BY <1>1 DEF NInv, TypeOK, Busy
<1>6. Meant'
  BY <1>1 DEF NInv, TypeOK, Meant
<1>7. Fresh'
  BY <1>1, <1>3 DEF NInv, TypeOK, Fresh, Addresses, Thread
<1>8. AllDistinct'
  BY <1>1 DEF NInv, AllDistinct, Distinct, Addresses
<1> QED
  BY <1>4, <1>5, <1>6, <1>7, <1>8 DEF NInv

\* AddRoute
LEMMA AddStep ==
  ASSUME NInv, NEW p \in Peer, AddRoute(p)
  PROVE  NInv'
<1>1. /\ step[p] = "add" /\ p \in Thread
      /\ routes' = [routes EXCEPT ![p] = add_netroute(route[p], routes[p])]
      /\ Return(p)
      /\ UNCHANGED <<if_tap, local_routes, target>>
  BY DEF AddRoute, Thread
<1>2. route[p] \in netroute_t /\ routes[p] \in Seq(netroute_t) /\ Distinct(routes[p])
  BY <1>1 DEF NInv, TypeOK, Busy, AllDistinct
<1>3. ~netroute_in_array(route[p], routes[p])
  BY <1>1, <1>2, InArray DEF NInv, Fresh
<1>4. /\ add_netroute(route[p], routes[p]) \in Seq(netroute_t)
      /\ Distinct(add_netroute(route[p], routes[p]))
  BY <1>2, <1>3, AddToArray, AddDistinct
<1>5. target' \in Peer \cup {None}
  BY <1>1 DEF NInv, TypeOK
<1>6. /\ routes' \in [Peer -> Seq(netroute_t)]
      /\ \A q \in Peer : Distinct(routes'[q]) /\ (q # p => routes'[q] = routes[q])
  BY <1>1, <1>4 DEF NInv, TypeOK, AllDistinct
<1> QED
  BY <1>1, <1>5, <1>6, ReturnStep

\* destroy_netroutes
LEMMA DestroyStep ==
  ASSUME NInv, NEW p \in Peer, destroy_netroutes(p)
  PROVE  NInv'
<1>1. /\ step[p] = "idle"
      /\ routes' = [routes EXCEPT ![p] = <<>>]
      /\ UNCHANGED <<if_tap, local_routes, step, packet, route, target>>
  BY DEF destroy_netroutes
<1>2. TypeOK'
  BY <1>1 DEF NInv, TypeOK
<1>3. Busy' /\ Meant'
  BY <1>1 DEF NInv, Busy, Meant
<1>4. Fresh'
  BY <1>1 DEF NInv, TypeOK, Fresh, Addresses
<1>5. AllDistinct'
  <2>1. \A q \in Peer : routes'[q] = routes[q] \/ routes'[q] = <<>>
    BY <1>1 DEF NInv, TypeOK
  <2>2. \A q \in Peer : Distinct(routes'[q])
    BY <2>1, EmptyDistinct DEF NInv, AllDistinct
  <2> QED
    BY <1>1, <2>2 DEF NInv, AllDistinct, Distinct, Addresses
<1> QED
  BY <1>2, <1>3, <1>4, <1>5 DEF NInv

LEMMA NStep == NInv /\ [Next]_vars => NInv'
<1> SUFFICES ASSUME NInv, [Next]_vars PROVE NInv'
  OBVIOUS
<1>1. CASE UNCHANGED vars
  <2>1. TypeOK' /\ Busy' /\ Meant'
    BY <1>1 DEF vars, NInv, TypeOK, Busy, Meant
  <2>2. Fresh' /\ AllDistinct'
    BY <1>1 DEF vars, NInv, Fresh, AllDistinct, Distinct, Addresses
  <2> QED
    BY <2>1, <2>2 DEF NInv
<1>2. CASE Next
  BY <1>2, ReadTunStep, ReceiveStep, LookupStep, LearnStep, AddStep, DestroyStep DEF Next
<1> QED
  BY <1>1, <1>2

\* Theorem: the invariant holds in every reachable state of the daemon's routes.
THEOREM NetrouteInvariance == Spec => []NInv
  BY NInit, NStep, PTL DEF Spec

\* Theorem: the variables keep their types; in particular all that is added to a list
\* of routes is a struct that was written to.
THEOREM NetrouteTypes == Spec => []TypeOK
<1>1. NInv => TypeOK
  BY DEF NInv
<1> QED
  BY <1>1, NetrouteInvariance, PTL

\* Theorem: no list has an address twice, although is_local_route, get_peer_route and
\* add_netroute are separate steps and without a lock (peer.c:276-282, peer_net.c:188-199).
THEOREM Duplicates == Spec => []NoDuplicates
<1>1. NInv => NoDuplicates
  BY DEF NInv, AllDistinct, Distinct, NoDuplicates
<1> QED
  BY <1>1, NetrouteInvariance, PTL

\* Theorem: the address that is logged is that of the packet at hand, on a host of
\* either byte order (packet_header.c:61, netroute.c:36-56).
THEOREM Shown == Spec => []ShownAsSent
<1>1. ASSUME NInv, NEW t \in Thread, step[t] # "idle", packet[t].kind # "other"
      PROVE  get_netroute_addr(route[t]) =
               IF step[t] = "route" THEN packet[t].dst ELSE packet[t].src
  <2>1. route[t] \in netroute_t
    BY <1>1 DEF NInv, Busy
  <2> DEFINE b == IF step[t] = "route" THEN packet[t].dst ELSE packet[t].src
  <2>2. AddressOf[route[t]].bytes = b
    <3>1. AddressOf[route[t]] = AddressIn(packet[t], b)
      BY <1>1 DEF NInv, Meant
    <3> HIDE DEF b
    <3> QED
      BY <3>1 DEF AddressIn
  <2>3. get_netroute_addr(route[t]) = AddressOf[route[t]].bytes
    BY <2>1, Limits, StructMeansAddress DEF get_netroute_addr, Kind, Length, netroute_t
  <2> QED
    BY <2>2, <2>3
<1>2. NInv => ShownAsSent
  BY <1>1 DEF ShownAsSent
<1> QED
  BY <1>2, NetrouteInvariance, PTL

-----------------------------------------------------------------------------
(***************************************************************************)
(* The refinement.                                                         *)
(***************************************************************************)

\* A step of one thread is a step of its task.
LEMMA TaskStep ==
  ASSUME TypeOK, NEW t \in Thread, NEW at, NEW pkt, NEW r,
         step' = [step EXCEPT ![t] = at],
         packet' = [packet EXCEPT ![t] = pkt],
         route' = [route EXCEPT ![t] = r]
  PROVE  Task' = [Task EXCEPT ![t] =
           [step |-> at, pkt |-> IF at = "idle" THEN None ELSE AbstractPacket(pkt),
            addr |-> IF at = "idle" THEN None ELSE AddressOf[r]]]
BY DEF TypeOK, Task

LEMMA TaskOf ==
  ASSUME NInv, NEW t \in Thread
  PROVE  /\ Task[t].step = step[t]
         /\ step[t] # "idle" => Task[t].addr = AddressOf[route[t]]
         /\ step[t] # "idle" => Task[t].pkt = AbstractPacket(packet[t])
         /\ step[t] = "idle" => Task[t] = Book!Idle
BY DEF Task, Book!Idle

LEMMA BookInit == Init => Book!Init
<1> SUFFICES ASSUME Init PROVE Book!Init
  OBVIOUS
<1>1. Addresses(local_routes) = {} /\ \A p \in Peer : Addresses(routes[p]) = {}
  BY EmptyDistinct DEF Init
<1>2. AddressOf[route[Tun]] \in Address
  BY NInit, StructMeansAddress DEF NInv, Busy
<1>3. Task = [t \in Peer \cup {Tun} |-> Book!Idle]
  BY DEF Init, Task, Thread, Book!Idle
<1> QED
  BY <1>1, <1>2, <1>3 DEF Init, Known, Book!Init

\* ReadTun
LEMMA ReadTunRefines ==
  ASSUME NInv, NEW pkt \in Sent, ReadTun(pkt)
  PROVE  Book!Read(AbstractPacket(pkt))
<1> DEFINE source == parse_packet_addr(pkt, route[Tun], TRUE)
           dest   == parse_packet_addr(pkt, source, FALSE)
           a      == AbstractPacket(pkt)
           last   == AddressOf[route[Tun]]
<1>1. /\ pkt \in Packet /\ (if_tap <=> pkt.kind = "mac")
      /\ Tun \in Thread /\ step[Tun] = "idle" /\ route[Tun] \in netroute_t
  BY DEF NInv, Busy, ReadTun, Take, Packet, Thread
<1>2. source \in netroute_t /\ AddressOf[source] = Book!Or(a.src, last)
  BY <1>1, ParseMeans, ParseRefines
<1>3. dest \in netroute_t /\ AddressOf[dest] = Book!Or(a.dst, last)
  <2>1. dest \in netroute_t /\ (pkt.kind = "other" => dest = route[Tun])
    BY <1>1, <1>2, ParseMeans, ZenonT(60)
  <2>2. AddressOf[dest] = Book!Or(a.dst, AddressOf[source])
    BY <1>1, <1>2, ParseRefines
  <2>3. pkt.kind # "other" => a.dst # None
    BY <1>1, PacketAddresses
  <2>4. pkt.kind = "other" => a.dst = None
    BY <1>1, PacketAddresses
  <2> QED
    BY <2>1, <2>2, <2>3, <2>4 DEF Book!Or
<1>4. /\ packet' = [packet EXCEPT ![Tun] = pkt]
      /\ route' = [route EXCEPT ![Tun] = dest]
      /\ step' = [step EXCEPT ![Tun] = "route"]
      /\ UNCHANGED <<if_tap, routes, target>>
  BY DEF ReadTun, Take
<1>5. \/ is_local_route(source) /\ UNCHANGED local_routes
      \/ local_routes' = add_netroute(source, local_routes)
  BY DEF ReadTun
<1>6. Addresses(local_routes)' = Addresses(local_routes) \cup {Book!Or(a.src, last)}
  <2>1. local_routes \in Seq(netroute_t)
    BY DEF NInv, TypeOK
  <2>2. CASE is_local_route(source) /\ UNCHANGED local_routes
    <3>1. AddressOf[source] \in Addresses(local_routes)
      BY <1>2, <2>1, <2>2, InArray DEF is_local_route
    <3>2. Addresses(local_routes)' = Addresses(local_routes)
      BY <2>2 DEF Addresses
    <3> QED
      BY <1>2, <3>1, <3>2
  <2>3. CASE local_routes' = add_netroute(source, local_routes)
    <3>1. Addresses(local_routes') = Addresses(local_routes) \cup {AddressOf[source]}
      BY <1>2, <2>1, <2>3, AddToArray
    <3> QED
      BY <1>2, <3>1 DEF Addresses
  <2> QED
    BY <1>5, <2>2, <2>3
<1> HIDE DEF source, dest
<1>7. Task' = [Task EXCEPT ![Tun] =
        [step |-> "route", pkt |-> a, addr |-> Book!Or(a.dst, last)]]
  BY <1>1, <1>3, <1>4, TaskStep, ZenonT(60) DEF NInv
<1>8. AddressOf[route[Tun]]' = Book!Or(a.dst, last)
  BY <1>1, <1>3, <1>4 DEF NInv, TypeOK
<1>9. UNCHANGED <<Known, target>>
  BY <1>4 DEF Known, Addresses
<1>10. Task[Tun].step = "idle"
  BY <1>1, TaskOf
<1> QED
  BY <1>6, <1>7, <1>8, <1>9, <1>10 DEF Book!Read

\* Receive
LEMMA ReceiveRefines ==
  ASSUME NInv, NEW p \in Peer, NEW pkt \in Received, Receive(p, pkt)
  PROVE  Book!Receive(p, AbstractPacket(pkt))
<1> DEFINE a == AbstractPacket(pkt)
<1>1. /\ pkt \in Packet /\ (if_tap <=> pkt.kind = "mac")
      /\ p \in Thread /\ p # Tun /\ step[p] = "idle"
  BY NetrouteAssumption DEF Receive, Take, Packet, Thread
<1>2. PICK g \in Garbage :
        LET dest == parse_packet_addr(pkt, g, FALSE)
        IN IF is_local_route(dest)
           THEN /\ route' = [route EXCEPT ![p] = parse_packet_addr(pkt, dest, TRUE)]
                /\ step' = [step EXCEPT ![p] = "learn"]
           ELSE /\ route' = [route EXCEPT ![p] = dest]
                /\ step' = [step EXCEPT ![p] = "route"]
  BY DEF Receive
<1> DEFINE dest   == parse_packet_addr(pkt, g, FALSE)
           source == parse_packet_addr(pkt, dest, TRUE)
           b      == AddressOf[dest]
<1>3. dest \in netroute_t /\ b = Book!Or(a.dst, AddressOf[g])
  BY <1>1, ParseMeans, ParseRefines, NetrouteAssumption
<1>4. b \in IF a.dst = None THEN Address ELSE {a.dst}
  BY <1>3, StructMeansAddress DEF Book!Or
<1>5. source \in netroute_t /\ AddressOf[source] = Book!Or(a.src, b)
  BY <1>1, <1>3, ParseMeans, ParseRefines
<1>6. is_local_route(dest) <=> b \in Addresses(local_routes)
  BY <1>3, InArray DEF is_local_route, NInv, TypeOK
<1>7. packet' = [packet EXCEPT ![p] = pkt] /\ UNCHANGED <<if_tap, local_routes, routes, target>>
  BY DEF Receive, Take, lists
<1> HIDE DEF dest, source
<1>8. Task' = [Task EXCEPT ![p] =
        IF b \in Addresses(local_routes)
        THEN [step |-> "learn", pkt |-> a, addr |-> Book!Or(a.src, b)]
        ELSE [step |-> "route", pkt |-> a, addr |-> b]]
  <2>1. CASE is_local_route(dest)
    <3>1. route' = [route EXCEPT ![p] = source] /\ step' = [step EXCEPT ![p] = "learn"]
      BY <1>2, <2>1 DEF dest, source
    <3> QED
      BY <1>1, <1>5, <1>6, <1>7, <2>1, <3>1, TaskStep, ZenonT(60) DEF NInv
  <2>2. CASE ~is_local_route(dest)
    <3>1. route' = [route EXCEPT ![p] = dest] /\ step' = [step EXCEPT ![p] = "route"]
      BY <1>2, <2>2 DEF dest
    <3> QED
      BY <1>1, <1>6, <1>7, <2>2, <3>1, TaskStep, ZenonT(60) DEF NInv
  <2> QED
    BY <2>1, <2>2
<1>9. UNCHANGED <<Addresses(local_routes), Known, AddressOf[route[Tun]], target>>
  <2>1. \E r : route' = [route EXCEPT ![p] = r]
    <3>1. CASE is_local_route(dest)
      BY <1>2, <3>1 DEF dest
    <3>2. CASE ~is_local_route(dest)
      BY <1>2, <3>2 DEF dest
    <3> QED
      BY <3>1, <3>2
  <2>2. route'[Tun] = route[Tun]
    BY <1>1, <2>1
  <2> QED
    BY <1>7, <2>2 DEF Known, Addresses
<1>10. Task[p].step = "idle"
  BY <1>1, TaskOf
<1> HIDE DEF b
<1> QED
  BY <1>4, <1>8, <1>9, <1>10 DEF Book!Receive

\* A thread that returns becomes idle.
LEMMA ReturnRefines ==
  ASSUME NInv, NEW t \in Thread, Return(t)
  PROVE  Task' = [Task EXCEPT ![t] = Book!Idle] /\ AddressOf[route[Tun]]' = AddressOf[route[Tun]]
<1>1. /\ packet' = [packet EXCEPT ![t] = None]
      /\ step' = [step EXCEPT ![t] = "idle"]
      /\ route' = [route EXCEPT ![t] = IF t = Tun THEN route[t] ELSE None]
  BY DEF Return
<1>2. route'[Tun] = route[Tun]
  BY <1>1 DEF NInv, TypeOK, Thread
<1> QED
  BY <1>1, <1>2, TaskStep DEF NInv, Book!Idle

\* LookupFinds
LEMMA LookupFindsRefines ==
  ASSUME NInv, NEW t \in Thread, LookupFinds(t)
  PROVE  \E q \in Peer : Book!LookupFinds(t, q)
<1> DEFINE q == Peers[get_peer_route(route[t])]
<1>1. /\ step[t] \in {"learn", "route"} /\ get_peer_route(route[t]) # 0 /\ target' = q
      /\ Return(t) /\ UNCHANGED <<if_tap, local_routes, routes>>
  BY DEF LookupFinds, lists
<1>2. route[t] \in netroute_t
  BY <1>1 DEF NInv, Busy
<1>3. q \in Peer /\ AddressOf[route[t]] \in Known[q]
  BY <1>1, <1>2, PeerRoute DEF NInv, TypeOK, Known
<1>4. Task[t].step = step[t] /\ Task[t].addr = AddressOf[route[t]]
  BY <1>1, TaskOf
<1>5. UNCHANGED <<Addresses(local_routes), Known>>
  BY <1>1 DEF Known, Addresses
<1> HIDE DEF q
<1> QED
  BY <1>1, <1>3, <1>4, <1>5, ReturnRefines DEF Book!LookupFinds

\* LookupFails, LookupFailsLearn
LEMMA LookupFailsRefines ==
  ASSUME NInv, NEW t \in Thread, LookupFails(t) \/ (t \in Peer /\ LookupFailsLearn(t))
  PROVE  Book!LookupFails(t)
<1>1. /\ step[t] \in {"learn", "route"} /\ get_peer_route(route[t]) = 0
      /\ target' = None /\ UNCHANGED <<if_tap, local_routes, routes>>
  BY DEF LookupFails, LookupFailsLearn, lists
<1>2. route[t] \in netroute_t
  BY <1>1 DEF NInv, Busy
<1>3. \A q \in Peer : AddressOf[route[t]] \notin Known[q]
  BY <1>1, <1>2, PeerRoute DEF NInv, TypeOK, Known
<1>4. /\ Task[t].step = step[t]
      /\ Task[t].addr = AddressOf[route[t]]
      /\ Task[t].pkt = AbstractPacket(packet[t])
  BY <1>1, TaskOf
<1>5. UNCHANGED <<Addresses(local_routes), Known>>
  BY <1>1 DEF Known, Addresses
<1>6. /\ Task' = [Task EXCEPT ![t] = IF Task[t].step = "learn"
                                    THEN [Task[t] EXCEPT !.step = "add"] ELSE Book!Idle]
      /\ AddressOf[route[Tun]]' = AddressOf[route[Tun]]
  <2>1. CASE LookupFails(t)
    BY <1>4, <2>1, ReturnRefines DEF LookupFails
  <2>2. CASE t \in Peer /\ LookupFailsLearn(t)
    <3>1. /\ step[t] = "learn" /\ step' = [step EXCEPT ![t] = "add"]
          /\ packet' = [packet EXCEPT ![t] = packet[t]]
          /\ route' = [route EXCEPT ![t] = route[t]]
          /\ UNCHANGED route
      BY <2>2 DEF LookupFailsLearn, NInv, TypeOK
    <3>2. t \in Thread /\ TypeOK
      BY DEF NInv
    <3>3. Task' = [Task EXCEPT ![t] =
            [step |-> "add", pkt |-> AbstractPacket(packet[t]), addr |-> AddressOf[route[t]]]]
      BY <3>1, <3>2 DEF TypeOK, Task
    <3>4. [Task[t] EXCEPT !.step = "add"] =
            [step |-> "add", pkt |-> AbstractPacket(packet[t]), addr |-> AddressOf[route[t]]]
      BY <3>1 DEF Task
    <3> QED
      BY <1>4, <3>1, <3>3, <3>4
  <2> QED
    BY <2>1, <2>2
<1> QED
  BY <1>1, <1>3, <1>4, <1>5, <1>6 DEF Book!LookupFails

\* AddRoute
LEMMA AddRouteRefines ==
  ASSUME NInv, NEW p \in Peer, AddRoute(p)
  PROVE  Book!Learn(p)
<1>1. /\ step[p] = "add" /\ p \in Thread
      /\ routes' = [routes EXCEPT ![p] = add_netroute(route[p], routes[p])]
      /\ Return(p)
      /\ UNCHANGED <<if_tap, local_routes, target>>
  BY DEF AddRoute, Thread
<1>2. route[p] \in netroute_t /\ routes[p] \in Seq(netroute_t)
  BY <1>1 DEF NInv, TypeOK, Busy
<1>3. Task[p].step = "add" /\ Task[p].addr = AddressOf[route[p]]
  BY <1>1, TaskOf
<1>4. Addresses(add_netroute(route[p], routes[p])) = Addresses(routes[p]) \cup {AddressOf[route[p]]}
  BY <1>2, AddToArray
<1>5. Known' = [Known EXCEPT ![p] = Known[p] \cup {AddressOf[route[p]]}]
  <2>1. Known' = [q \in Peer |-> Addresses(routes'[q])]
    BY DEF Known, Addresses
  <2>2. \A q \in Peer : routes'[q] = IF q = p THEN add_netroute(route[p], routes[p]) ELSE routes[q]
    BY <1>1 DEF NInv, TypeOK
  <2> QED
    BY <1>4, <2>1, <2>2 DEF Known
<1>6. UNCHANGED Addresses(local_routes)
  BY <1>1 DEF Addresses
<1> QED
  BY <1>1, <1>3, <1>5, <1>6, ReturnRefines DEF Book!Learn

\* destroy_netroutes
LEMMA DestroyRefines ==
  ASSUME NInv, NEW p \in Peer, destroy_netroutes(p)
  PROVE  Book!Forget(p)
<1>1. /\ step[p] = "idle" /\ p \in Thread
      /\ routes' = [routes EXCEPT ![p] = <<>>]
      /\ UNCHANGED <<if_tap, local_routes, step, packet, route, target>>
  BY DEF destroy_netroutes, Thread
<1>2. Known' = [Known EXCEPT ![p] = {}]
  <2>1. Known' = [q \in Peer |-> Addresses(routes'[q])]
    BY DEF Known, Addresses
  <2>2. \A q \in Peer : routes'[q] = IF q = p THEN <<>> ELSE routes[q]
    BY <1>1 DEF NInv, TypeOK
  <2> QED
    BY <2>1, <2>2, EmptyDistinct DEF Known
<1>3. UNCHANGED <<Addresses(local_routes), Task, AddressOf[route[Tun]], target>>
  BY <1>1 DEF Addresses, Task
<1>4. Task[p].step = "idle"
  BY <1>1, TaskOf
<1> QED
  BY <1>2, <1>3, <1>4 DEF Book!Forget

LEMMA BookNext == NInv /\ [Next]_vars => [Book!Next]_Book!vars
<1> SUFFICES ASSUME NInv, [Next]_vars PROVE [Book!Next]_Book!vars
  OBVIOUS
<1>1. CASE UNCHANGED vars
  BY <1>1 DEF vars, Book!vars, Addresses, Known, Task
<1>2. ASSUME NEW pkt \in Sent, ReadTun(pkt) PROVE Book!Next
  <2>1. Book!Read(AbstractPacket(pkt)) /\ pkt \in Packet
    BY <1>2, ReadTunRefines DEF Packet
  <2> QED
    BY <2>1 DEF Book!Next
<1>3. ASSUME NEW p \in Peer, NEW pkt \in Received, Receive(p, pkt) PROVE Book!Next
  <2>1. Book!Receive(p, AbstractPacket(pkt)) /\ pkt \in Packet
    BY <1>3, ReceiveRefines DEF Packet
  <2> QED
    BY <2>1 DEF Book!Next
<1>4. ASSUME NEW t \in Thread, LookupFinds(t) PROVE Book!Next
  <2>1. \E q \in Peer : Book!LookupFinds(t, q)
    BY <1>4, LookupFindsRefines
  <2> QED
    BY <2>1 DEF Book!Next, Thread
<1>5. ASSUME NEW t \in Thread, LookupFails(t) \/ (t \in Peer /\ LookupFailsLearn(t)) PROVE Book!Next
  <2>1. Book!LookupFails(t)
    BY <1>5, LookupFailsRefines
  <2> QED
    BY <2>1 DEF Book!Next, Thread
<1>6. ASSUME NEW p \in Peer, AddRoute(p) PROVE Book!Next
  BY <1>6, AddRouteRefines DEF Book!Next
<1>7. ASSUME NEW p \in Peer, destroy_netroutes(p) PROVE Book!Next
  BY <1>7, DestroyRefines DEF Book!Next
<1> QED
  BY <1>1, <1>2, <1>3, <1>4, <1>5, <1>6, <1>7 DEF Next, Thread

\* Theorem: the lists of structs and memcmp() do what sets of addresses would do
\* (netroute.c:59-138, packet_header.c:41-114), whatever is in the bytes that do not count.
THEOREM Refinement == Spec => ImplementsBook
<1>1. Init => Book!Init
  BY BookInit
<1> QED
  BY <1>1, BookNext, NetrouteInvariance, PTL DEF Spec, ImplementsBook, Book!Spec
=============================================================================
