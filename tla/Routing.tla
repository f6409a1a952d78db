------------------------------- MODULE Routing -------------------------------
(***************************************************************************)
(* How packets find their way through a VPN of one server and its clients  *)
(* (src/peer.c, src/peer_net.c, src/netroute.c, src/packet_header.c).      *)
(* Every daemon has one tun device, read by its tun thread                 *)
(* (_broadcast_tuntap_device), and for each peer a receive thread that     *)
(* handles the packets of that peer (process_netpacket).  The threads of a *)
(* daemon share local_routes and the routes of its peers without a lock,   *)
(* so each of them is read in a step of its own.                           *)
(*                                                                         *)
(* The connections are up and authenticated; packets are IP packets; a     *)
(* daemon has one address on the VPN and the address is written as the     *)
(* daemon.                                                                 *)
(***************************************************************************)
EXTENDS Naturals, Sequences, SequencesExt

CONSTANTS
  Server,    \* the daemon that listens
  Clients,   \* the sequence of clients, in the order of the server's list of peers
  Packets,   \* the packets hosts send, each at most once (bounds the model)
  Warm,      \* daemons whose host has sent a packet before
  Known,     \* pairs <<c, a>>: client c's host has received a packet from a before
  Capacity,  \* packets a socket holds before send() blocks
  None       \* no packet, no address

Daemon == {Server} \cup ToSet(Clients)

ASSUME RoutingAssumption ==
  /\ Clients \in Seq(ToSet(Clients)) /\ Clients # <<>> /\ IsInjective(Clients)
  /\ Server \notin ToSet(Clients)
  /\ None \notin Daemon \cup Packets
  /\ Warm \subseteq Daemon
  /\ Known \subseteq {k \in ToSet(Clients) \X Daemon : {k[1], k[2]} \subseteq Warm /\ k[1] # k[2]}
  /\ Capacity \in Nat \ {0}
  /\ Packets \subseteq [src : Daemon, dst : Daemon]
  /\ \A pkt \in Packets : pkt.src # pkt.dst  \* the kernel keeps the others

VARIABLES
  local_routes,  \* addresses each daemon takes for its own device's
  routes,        \* addresses each daemon has learned from each of its peers
  wire,          \* packets on their way from one daemon to another, in order
  thread,        \* what each thread is doing
  emitted,       \* history: the packets hosts have sent
  delivered      \* history: which packets each device was written

vars == <<local_routes, routes, wire, thread, emitted, delivered>>

\* The linked list `peers` of a daemon.
peers(d) == IF d = Server THEN Clients ELSE <<Server>>

Link == {l \in Daemon \X Daemon : l[2] \in ToSet(peers(l[1]))}

\* The receive thread of daemon t[1] for its peer t[2]; <<d, d>> is d's tun thread.
Thread == Link \cup {<<d, d>> : d \in Daemon}

\* pc: the next step; pkt: the packet at hand; route: the local variable of that
\* name; at: position in the list of the next peer to send to; one: stop there.
idle == [pc |-> "idle", pkt |-> None, route |-> None, at |-> 0, one |-> FALSE]

Init ==
  /\ local_routes = [d \in Daemon |-> {d} \cap Warm]
  /\ routes = [l \in Link |-> {a \in Daemon : <<l[1], a>> \in Known}]
  /\ wire = [l \in Link |-> <<>>]
  /\ thread = [t \in Thread |-> idle]
  /\ emitted = {}
  /\ delivered = [d \in Daemon |-> {}]

\* parse_packet_addr: the source or the destination in the packet's header.
Parse(pkt, source) == IF source THEN pkt.src ELSE pkt.dst

\* Position in d's list of the first peer the address was learned from, 0 if none.
get_peer_route(d, addr) == SelectInSeq(peers(d), LAMBDA q : addr \in routes[<<d, q>>])

Goto(t, from, rec) ==
  /\ thread[t].pc = from
  /\ thread' = [thread EXCEPT ![t] = rec]

\* tuntap_write
Write(d, pkt) == delivered' = [delivered EXCEPT ![d] = @ \cup {pkt}]

-----------------------------------------------------------------------------
(***************************************************************************)
(* The tun thread.                                                         *)
(***************************************************************************)

\* tuntap_read returns a packet of the host; its source becomes a local route.
ReadTun(d, pkt) ==
  /\ pkt \notin emitted
  /\ pkt.src = d
  /\ Goto(<<d, d>>, "idle", [idle EXCEPT !.pc = "route", !.pkt = pkt,
                                         !.route = Parse(pkt, FALSE)])
  /\ local_routes' = [local_routes EXCEPT ![d] = @ \cup {Parse(pkt, TRUE)}]
  /\ emitted' = emitted \cup {pkt}
  /\ UNCHANGED <<routes, wire, delivered>>

\* The destination has a peer: send to it; otherwise broadcast to all.
RouteTun(d) ==
  LET t == <<d, d>>
      i == get_peer_route(d, thread[t].route)
  IN /\ Goto(t, "route", [thread[t] EXCEPT !.pc = "send", !.at = IF i = 0 THEN 1 ELSE i,
                                            !.one = i # 0])
     /\ UNCHANGED <<local_routes, routes, wire, emitted, delivered>>

-----------------------------------------------------------------------------
(***************************************************************************)
(* A receive thread of d, for the peer q: process_netpacket.               *)
(***************************************************************************)

\* The next packet arrives and is_local_route is asked about its destination.
Receive(d, q) ==
  /\ wire[<<q, d>>] # <<>>
  /\ wire' = [wire EXCEPT ![<<q, d>>] = Tail(@)]
  /\ LET pkt  == Head(wire[<<q, d>>])
         dest == Parse(pkt, FALSE)
     IN Goto(<<d, q>>, "idle",
             [idle EXCEPT !.pc = IF dest \in local_routes[d] THEN "local" ELSE "foreign",
                          !.pkt = pkt, !.route = dest])
  /\ UNCHANGED <<local_routes, routes, emitted, delivered>>

\* Mutant: the packet is only written when its source was new.
DeliverKnownDrops(d, q) ==
  LET t == <<d, q>> IN
  /\ Goto(t, "local", idle)
  /\ get_peer_route(d, Parse(thread[t].pkt, TRUE)) # 0
  /\ UNCHANGED <<local_routes, routes, wire, emitted, delivered>>

\* For this daemon, and get_peer_route knows the source: write it to the device.
DeliverKnown(d, q) ==
  LET t == <<d, q>> IN
  /\ Goto(t, "local", idle)
  /\ get_peer_route(d, Parse(thread[t].pkt, TRUE)) # 0
  /\ Write(d, thread[t].pkt)
  /\ UNCHANGED <<local_routes, routes, wire, emitted>>

\* For this daemon, and the source is not known yet.
FindUnknown(d, q) ==
  LET t == <<d, q>>
      source == Parse(thread[t].pkt, TRUE)
  IN /\ Goto(t, "local", [thread[t] EXCEPT !.pc = "add", !.route = source])
     /\ get_peer_route(d, source) = 0
     /\ UNCHANGED <<local_routes, routes, wire, emitted, delivered>>

\* Mutant: the source is added to the routes of the first peer of the list.
AddRouteToFirst(d, q) ==
  LET t == <<d, q>> IN
  /\ Goto(t, "add", idle)
  /\ routes' = [routes EXCEPT ![<<d, Head(peers(d))>>] = @ \cup {thread[t].route}]
  /\ Write(d, thread[t].pkt)
  /\ UNCHANGED <<local_routes, wire, emitted>>

\* The source is added to the peer's routes, then the packet is written.
AddRoute(d, q) ==
  LET t == <<d, q>> IN
  /\ Goto(t, "add", idle)
  /\ routes' = [routes EXCEPT ![t] = @ \cup {thread[t].route}]
  /\ Write(d, thread[t].pkt)
  /\ UNCHANGED <<local_routes, wire, emitted>>

\* For another daemon whose peer is known.
Forward(d, q) ==
  LET t == <<d, q>>
      i == get_peer_route(d, thread[t].route)
  IN /\ Goto(t, "foreign", [thread[t] EXCEPT !.pc = "send", !.at = i, !.one = TRUE])
     /\ i # 0
     /\ UNCHANGED <<local_routes, routes, wire, emitted, delivered>>

\* For nobody known: written to the device and broadcast to the other peers.
Flood(d, q) ==
  LET t == <<d, q>> IN
  /\ Goto(t, "foreign", [thread[t] EXCEPT !.pc = "send", !.at = 1, !.one = FALSE])
  /\ get_peer_route(d, thread[t].route) = 0
  /\ Write(d, thread[t].pkt)
  /\ UNCHANGED <<local_routes, routes, wire, emitted>>

-----------------------------------------------------------------------------
(***************************************************************************)
(* send_data_to_peer and broadcast_data_to_peers, by any thread.           *)
(***************************************************************************)

\* Mutant: the walk goes on past the end of the list.
SentPastEnd(t) ==
  IF thread[t].one \/ thread[t].at > Len(peers(t[1]))
  THEN idle
  ELSE [thread[t] EXCEPT !.at = @ + 1]

\* The thread after the peer at its position.
Sent(t) ==
  IF thread[t].one \/ thread[t].at = Len(peers(t[1]))
  THEN idle
  ELSE [thread[t] EXCEPT !.at = @ + 1]

\* Mutant: a broadcast excludes nobody.
ExcludedNever(t) == FALSE

\* A broadcast on behalf of a peer excludes this peer.
Excluded(t) == ~thread[t].one /\ peers(t[1])[thread[t].at] = t[2]

\* broadcast_data_to_peers passes over the excluded peer.
Skip(t) ==
  /\ thread[t].pc = "send"
  /\ Excluded(t)
  /\ Goto(t, "send", Sent(t))
  /\ UNCHANGED <<local_routes, routes, wire, emitted, delivered>>

\* The frame is sent as a whole, under the mutex of the peer.
Send(t) ==
  /\ thread[t].pc = "send"
  /\ ~Excluded(t)
  /\ LET l == <<t[1], peers(t[1])[thread[t].at]>> IN
       /\ Len(wire[l]) < Capacity
       /\ wire' = [wire EXCEPT ![l] = Append(@, thread[t].pkt)]
  /\ Goto(t, "send", Sent(t))
  /\ UNCHANGED <<local_routes, routes, emitted, delivered>>

-----------------------------------------------------------------------------
TunThread(d) == RouteTun(d) \/ (\E pkt \in Packets : ReadTun(d, pkt))

ReceiveThread(d, q) ==
  \/ Receive(d, q) \/ DeliverKnown(d, q) \/ FindUnknown(d, q) \/ AddRoute(d, q)
  \/ Forward(d, q) \/ Flood(d, q)

Sending(t) == Skip(t) \/ Send(t)

Next ==
  \/ \E d \in Daemon : TunThread(d)
  \/ \E l \in Link : ReceiveThread(l[1], l[2])
  \/ \E t \in Thread : Sending(t)

Spec == Init /\ [][Next]_vars

\* Every thread is scheduled; hosts need not send anything.
Fairness ==
  /\ \A d \in Daemon : WF_vars(RouteTun(d) \/ Sending(<<d, d>>))
  /\ \A l \in Link : WF_vars(ReceiveThread(l[1], l[2]) \/ Sending(l))

FairSpec == Spec /\ Fairness

-----------------------------------------------------------------------------
(***************************************************************************)
(* Properties.                                                             *)
(***************************************************************************)

\* The variables keep the types of what they stand for.
TypeOK ==
  /\ local_routes \in [Daemon -> SUBSET Daemon]
  /\ routes \in [Link -> SUBSET Daemon]
  /\ wire \in [Link -> Seq(Packets)]
  /\ \A l \in Link : Len(wire[l]) <= Capacity
  /\ thread \in [Thread -> [pc : {"idle", "route", "local", "foreign", "add", "send"},
                            pkt : Packets \cup {None}, route : Daemon \cup {None},
                            at : Nat, one : BOOLEAN]]
  /\ \A t \in Thread : thread[t].at <= Len(peers(t[1]))
  /\ emitted \subseteq Packets
  /\ delivered \in [Daemon -> SUBSET Packets]

\* peer.c:251: get_peer_route returns the peer to which the route belongs.  What a
\* client's server is known for may be anyone else's.
RoutesBelong ==
  \A l \in Link : IF l[1] = Server THEN routes[l] \subseteq {l[2]} ELSE l[1] \notin routes[l]

\* Nothing is on its way and no thread has anything to do.
Quiet == (\A l \in Link : wire[l] = <<>>) /\ (\A t \in Thread : thread[t].pc = "idle")

\* Thread t waits: for a packet to receive, or for room to send one.
Waiting(t) ==
  IF thread[t].pc = "idle" THEN t[1] = t[2] \/ wire[<<t[2], t[1]>>] = <<>>
  ELSE /\ thread[t].pc = "send"
       /\ ~Excluded(t)
       /\ Len(wire[<<t[1], peers(t[1])[thread[t].at]>>]) = Capacity

\* README.md:9: several clients are handled simultaneously: their threads never
\* come to a halt waiting for room in each other's sockets.
NeverStuck == (\A t \in Thread : Waiting(t)) => Quiet

\* No packet is lost in spite of the floods, the detours through daemons that are
\* not meant and the threads that learn routes meanwhile: once the VPN is quiet,
\* every packet has reached the device of its destination.
Delivered == Quiet => \A pkt \in emitted : pkt \in delivered[pkt.dst]

\* Packets do not circulate for ever: broadcasts (which exclude the peer a packet
\* came from) and packets sent back by the route to their destination come to an
\* end, and when hosts have nothing left to send the VPN becomes quiet.
Settles == <>[]Quiet
=============================================================================
