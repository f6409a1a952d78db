---------------------------- MODULE RoutingProofs ----------------------------
(***************************************************************************)
(* Proofs, for any number of clients and any packets, that once the        *)
(* server's host has sent a packet routes name the peer behind which an    *)
(* address is, and no packet is lost (Server \in Warm is the hypothesis of *)
(* both: without it RoutesBelong is violated, see the run routing_race).   *)
(*                                                                         *)
(* The argument.  The server knows its own address, so it never sends a    *)
(* packet for itself to anybody: all that comes to it with its own address *)
(* comes from the client whose host has sent it.  Hence routes are right,  *)
(* and of the copies of a packet one is on the shortest way.               *)
(***************************************************************************)
EXTENDS Routing, SequenceTheorems, WellFoundedInduction, TLAPS

-----------------------------------------------------------------------------
(***************************************************************************)
(* Who is connected to whom.                                               *)
(***************************************************************************)

LEMMA ClientPeers ==
  ASSUME NEW d \in Daemon, d # Server
  PROVE  /\ peers(d) = <<Server>> /\ Len(peers(d)) = 1 /\ peers(d)[1] = Server
         /\ <<d, Server>> \in Link /\ <<Server, d>> \in Link
         /\ \E i \in 1..Len(Clients) : Clients[i] = d
<1>1. ToSet(<<Server>>) = {Server}
  BY DEF ToSet
<1>2. peers(d) = <<Server>> /\ peers(Server) = Clients /\ d \in ToSet(Clients)
  BY DEF peers, Daemon
<1>3. <<d, Server>> \in Link /\ <<Server, d>> \in Link
  <2>1. Server \in ToSet(peers(d)) /\ d \in ToSet(peers(Server)) /\ Server \in Daemon
    BY <1>1, <1>2 DEF Daemon
  <2> QED
    BY <2>1 DEF Link
<1>4. \E i \in 1..Len(Clients) : Clients[i] = d
  BY <1>2 DEF ToSet
<1> QED
  BY <1>2, <1>3, <1>4

LEMMA Peers ==
  ASSUME NEW d \in Daemon
  PROVE  /\ peers(d) \in Seq(Daemon)
         /\ Len(peers(d)) \in Nat \ {0}
         /\ \A i \in 1..Len(peers(d)) :
              peers(d)[i] \in Daemon /\ <<d, peers(d)[i]>> \in Link
<1>1. CASE d = Server
  <2>1. peers(d) = Clients /\ Clients \in Seq(ToSet(Clients)) /\ Clients # <<>>
    BY <1>1, RoutingAssumption DEF peers
  <2>2. Len(Clients) \in Nat \ {0} /\ \A i \in 1..Len(Clients) : Clients[i] \in ToSet(Clients)
    BY <2>1 DEF ToSet
  <2>3. ToSet(Clients) \subseteq Daemon /\ Clients \in Seq(Daemon)
    BY <2>1 DEF Daemon
  <2> QED
    BY <2>1, <2>2, <2>3 DEF Link
<1>2. CASE d # Server
  <2>1. peers(d) = <<Server>> /\ Server \in Daemon /\ <<d, Server>> \in Link
    BY <1>2, ClientPeers DEF Daemon
  <2> QED
    BY <2>1
<1> QED
  BY <1>1, <1>2

LEMMA Links ==
  ASSUME NEW l \in Link
  PROVE  /\ l[1] \in Daemon /\ l[2] \in Daemon /\ l = <<l[1], l[2]>> /\ l[1] # l[2]
         /\ l[1] = Server \/ l[2] = Server
         /\ <<l[2], l[1]>> \in Link
         /\ l \in Thread
<1>1. /\ l[1] \in Daemon /\ l[2] \in Daemon /\ l = <<l[1], l[2]>>
      /\ l[2] \in ToSet(peers(l[1]))
  BY DEF Link
<1>2. CASE l[1] = Server
  <2>1. l[2] \in ToSet(Clients)
    BY <1>1, <1>2 DEF peers
  <2> QED
    BY <1>1, <1>2, <2>1, ClientPeers, RoutingAssumption DEF Thread
<1>3. CASE l[1] # Server
  <2>1. l[2] = Server
    <3>1. l[2] \in ToSet(<<Server>>)
      BY <1>1, <1>3, ClientPeers
    <3> QED
      BY <3>1 DEF ToSet
  <2> QED
    BY <1>1, <1>3, <2>1, ClientPeers DEF Thread
<1> QED
  BY <1>2, <1>3

LEMMA Threads ==
  ASSUME NEW t \in Thread
  PROVE  t[1] \in Daemon /\ t[2] \in Daemon /\ t = <<t[1], t[2]>>
<1>1. CASE t \in Link
  BY <1>1, Links
<1>2. ASSUME NEW d \in Daemon, t = <<d, d>>
      PROVE  t[1] \in Daemon /\ t[2] \in Daemon /\ t = <<t[1], t[2]>>
  BY <1>2
<1> QED
  BY <1>1, <1>2 DEF Thread

\* The thread's link is its own, and no tun thread is a receive thread.
LEMMA TunThreads ==
  ASSUME NEW d \in Daemon
  PROVE  <<d, d>> \in Thread /\ <<d, d>> \notin Link
<1>1. <<d, d>> \notin Link
  <2> SUFFICES ASSUME <<d, d>> \in Link PROVE FALSE
    OBVIOUS
  <2> QED
    BY Links
<1> QED
  BY <1>1 DEF Thread

-----------------------------------------------------------------------------
(***************************************************************************)
(* get_peer_route.                                                         *)
(***************************************************************************)

\* A set of positions that is not empty has a least one.
LEMMA LeastPosition ==
  ASSUME NEW I, I \subseteq Nat, I # {}
  PROVE  Min(I) \in I
<1>1. PICK i \in I : \A j \in I : ~(<<j, i>> \in OpToRel(<, Nat))
  BY NatLessThanWellFounded, WFMin
<1>2. \A j \in I : ~(j < i)
  BY <1>1, Zenon DEF OpToRel
<1>3. \A j \in I : i <= j
  BY <1>2
<1> QED
  BY <1>3 DEF Min

LEMMA Route ==
  ASSUME NEW d \in Daemon, NEW addr
  PROVE  LET i == get_peer_route(d, addr) IN
         /\ i \in 0..Len(peers(d))
         /\ i # 0 => addr \in routes[<<d, peers(d)[i]>>]
         /\ i = 0 => \A j \in 1..Len(peers(d)) : addr \notin routes[<<d, peers(d)[j]>>]
<1> DEFINE Have == {i \in 1..Len(peers(d)) : addr \in routes[<<d, peers(d)[i]>>]}
<1>1. get_peer_route(d, addr) = IF Have # {} THEN Min(Have) ELSE 0
  BY DEF get_peer_route, SelectInSeq
<1>2. CASE Have # {}
  <2>1. Min(Have) \in Have
    <3> Have \subseteq Nat
      OBVIOUS
    <3> QED
      BY <1>2, LeastPosition
  <2>2. Min(Have) \in 1..Len(peers(d)) /\ addr \in routes[<<d, peers(d)[Min(Have)]>>]
    BY <2>1
  <2>3. get_peer_route(d, addr) = Min(Have) /\ Min(Have) # 0
    BY <1>1, <1>2, <2>2, Peers
  <2> QED
    BY <2>2, <2>3, Peers
<1>3. CASE Have = {}
  <2>1. get_peer_route(d, addr) = 0
    BY <1>1, <1>3
  <2>2. \A j \in 1..Len(peers(d)) : addr \notin routes[<<d, peers(d)[j]>>]
    BY <1>3
  <2>3. Len(peers(d)) \in Nat
    BY Peers
  <2> QED
    BY <2>1, <2>2, <2>3
<1> QED
  BY <1>2, <1>3

-----------------------------------------------------------------------------
(***************************************************************************)
(* Types, and what a thread can be doing.                                  *)
(***************************************************************************)

Work == [pc : {"idle", "route", "local", "foreign", "add", "send"},
         pkt : Packets \cup {None}, route : Daemon \cup {None}, at : Nat, one : BOOLEAN]

Fits(t, w) ==
  /\ w \in Work
  /\ w.at <= Len(peers(t[1]))
  /\ w.pc # "idle" => w.pkt \in Packets
  /\ w.pc \in {"route", "foreign"} => w.route = w.pkt.dst
  /\ w.pc = "add" => w.route = w.pkt.src
  /\ w.pc = "send" => w.at # 0
  /\ w.pc = "route" => t \notin Link
  /\ w.pc \in {"local", "foreign", "add"} => t \in Link
  /\ t \notin Link /\ w.pc # "idle" => w.pkt.src = t[1]

Typing == TypeOK /\ \A t \in Thread : Fits(t, thread[t])

LEMMA IdleFits ==
  ASSUME NEW t \in Thread
  PROVE  Fits(t, idle)
BY Threads, Peers DEF Fits, Work, idle

\* A thread that takes up a packet.
LEMMA TakeUp ==
  ASSUME NEW t \in Thread, NEW pc \in {"route", "local", "foreign"}, NEW pkt \in Packets,
         pc = "route" <=> t \notin Link, pc = "route" => pkt.src = t[1]
  PROVE  LET w == [idle EXCEPT !.pc = pc, !.pkt = pkt, !.route = pkt.dst]
         IN  Fits(t, w) /\ w.pc = pc /\ w.pkt = pkt
<1> DEFINE w == [idle EXCEPT !.pc = pc, !.pkt = pkt, !.route = pkt.dst]
<1>1. pkt.dst \in Daemon
  BY RoutingAssumption
<1>2. w \in Work
  <2>1. idle \in Work
    BY IdleFits DEF Fits
  <2> QED
    BY <1>1, <2>1 DEF Work
<1>3. w.pc = pc /\ w.pkt = pkt /\ w.route = pkt.dst /\ w.at = 0
  BY DEF idle
<1>4. 0 <= Len(peers(t[1]))
  BY Threads, Peers
<1> HIDE DEF w
<1>5. Fits(t, w)
  BY <1>2, <1>3, <1>4 DEF Fits
<1> QED
  BY <1>3, <1>5 DEF w

\* A step of one thread.
LEMMA ThreadMoves ==
  ASSUME Typing, NEW t \in Thread, NEW w, Fits(t, w), thread' = [thread EXCEPT ![t] = w]
  PROVE  /\ thread' \in [Thread -> Work]
         /\ thread'[t] = w
         /\ \A u \in Thread : u # t => thread'[u] = thread[u]
         /\ \A u \in Thread : Fits(u, thread'[u])
         /\ \A u \in Thread : thread'[u].at <= Len(peers(u[1]))
<1>1. thread \in [Thread -> Work] /\ w \in Work /\ \A u \in Thread : Fits(u, thread[u])
  BY DEF Typing, TypeOK, Work, Fits
<1>2. /\ thread' \in [Thread -> Work] /\ thread'[t] = w
      /\ \A u \in Thread : u # t => thread'[u] = thread[u]
  BY <1>1
<1>3. \A u \in Thread : Fits(u, thread'[u])
  BY <1>1, <1>2
<1>4. \A u \in Thread : thread'[u].at <= Len(peers(u[1]))
  BY <1>3 DEF Fits
<1> QED
  BY <1>2, <1>3, <1>4

\* A thread that leaves the packet and the variable route alone.
LEMMA SendFits ==
  ASSUME Typing, NEW t \in Thread, thread[t].pc # "idle",
         NEW at \in 1..Len(peers(t[1])), NEW one \in BOOLEAN
  PROVE  Fits(t, [thread[t] EXCEPT !.pc = "send", !.at = at, !.one = one])
<1>1. Fits(t, thread[t]) /\ at \in Nat
  BY Threads, Peers DEF Typing
<1> DEFINE w == [thread[t] EXCEPT !.pc = "send", !.at = at, !.one = one]
<1>2. /\ w \in Work /\ w.pc = "send" /\ w.at = at /\ w.pkt = thread[t].pkt
      /\ thread[t].pkt \in Packets /\ (t \notin Link => thread[t].pkt.src = t[1])
  BY <1>1 DEF Fits, Work
<1>3. at <= Len(peers(t[1])) /\ at # 0
  OBVIOUS
<1> HIDE DEF w
<1>4. Fits(t, w)
  BY <1>2, <1>3 DEF Fits
<1> QED
  BY <1>4 DEF w

LEMMA ReadTunTyping ==
  ASSUME Typing, NEW d \in Daemon, NEW pkt \in Packets, ReadTun(d, pkt)
  PROVE  Typing'
<1> DEFINE w == [idle EXCEPT !.pc = "route", !.pkt = pkt, !.route = Parse(pkt, FALSE)]
<1>1. pkt \in [src : Daemon, dst : Daemon] /\ pkt.src = d
  BY RoutingAssumption DEF ReadTun
<1>2. Fits(<<d, d>>, w)
  <2>1. w = [idle EXCEPT !.pc = "route", !.pkt = pkt, !.route = pkt.dst]
    BY DEF Parse
  <2>2. <<d, d>> \in Thread \ Link /\ <<d, d>>[1] = d
    BY TunThreads
  <2> HIDE DEF w
  <2> QED
    BY <1>1, <2>1, <2>2, TakeUp
<1>3. thread' = [thread EXCEPT ![<<d, d>>] = w]
  BY DEF ReadTun, Goto
<1>4. local_routes' \in [Daemon -> SUBSET Daemon] /\ emitted' \subseteq Packets
  BY <1>1 DEF ReadTun, Typing, TypeOK, Parse
<1> HIDE DEF w
<1>5. /\ thread' \in [Thread -> Work]
      /\ \A u \in Thread : Fits(u, thread'[u]) /\ thread'[u].at <= Len(peers(u[1]))
  BY <1>2, <1>3, TunThreads, ThreadMoves
<1> QED
  BY <1>4, <1>5 DEF ReadTun, Typing, TypeOK, Work

\* Steps of a thread that only change the thread and what the devices were written.
LEMMA QuietTyping ==
  ASSUME Typing, NEW t \in Thread, NEW w, Fits(t, w), thread' = [thread EXCEPT ![t] = w],
         UNCHANGED <<local_routes, wire, emitted>>,
         routes' \in [Link -> SUBSET Daemon], delivered' \in [Daemon -> SUBSET Packets]
  PROVE  Typing'
BY ThreadMoves DEF Typing, TypeOK, Work

LEMMA WriteTyping ==
  ASSUME Typing, NEW d \in Daemon, NEW pkt \in Packets, Write(d, pkt)
  PROVE  /\ delivered' \in [Daemon -> SUBSET Packets]
         /\ pkt \in delivered'[d]
         /\ \A e \in Daemon : delivered[e] \subseteq delivered'[e]
BY DEF Write, Typing, TypeOK

LEMMA RouteTunTyping ==
  ASSUME Typing, NEW d \in Daemon, RouteTun(d)
  PROVE  Typing'
<1> DEFINE t == <<d, d>>
           i == get_peer_route(d, thread[t].route)
           at == IF i = 0 THEN 1 ELSE i
           w == [thread[t] EXCEPT !.pc = "send", !.at = at, !.one = i # 0]
<1>1. i \in 0..Len(peers(d)) /\ Len(peers(d)) \in Nat \ {0}
  BY Route, Peers
<1>2. /\ thread[t].pc = "route" /\ thread' = [thread EXCEPT ![t] = w]
      /\ UNCHANGED <<local_routes, routes, wire, emitted, delivered>>
  BY DEF RouteTun, Goto
<1>3. at \in 1..Len(peers(d)) /\ (i # 0) \in BOOLEAN
  BY <1>1
<1> HIDE DEF i, at
<1>4. Fits(t, w)
  BY <1>2, <1>3, TunThreads, SendFits
<1> HIDE DEF w
<1> QED
  BY <1>2, <1>4, TunThreads, QuietTyping DEF Typing, TypeOK

LEMMA ReceiveTyping ==
  ASSUME Typing, NEW l \in Link, Receive(l[1], l[2])
  PROVE  Typing'
<1> DEFINE d == l[1]
           from == <<l[2], l[1]>>
           pkt == Head(wire[from])
           w == [idle EXCEPT !.pc = IF pkt.dst \in local_routes[d] THEN "local" ELSE "foreign",
                             !.pkt = pkt, !.route = pkt.dst]
<1>1. /\ from \in Link /\ wire[from] \in Seq(Packets) /\ wire[from] # <<>>
      /\ wire' = [wire EXCEPT ![from] = Tail(@)] /\ wire \in [Link -> Seq(Packets)]
      /\ \A k \in Link : Len(wire[k]) <= Capacity
  BY Links DEF Receive, Typing, TypeOK
<1>2. pkt \in Packets /\ pkt \in [src : Daemon, dst : Daemon]
  BY <1>1, RoutingAssumption
<1>3. Tail(wire[from]) \in Seq(Packets) /\ Len(Tail(wire[from])) <= Capacity
  BY <1>1, RoutingAssumption
<1>4. wire' \in [Link -> Seq(Packets)] /\ \A k \in Link : Len(wire'[k]) <= Capacity
  BY <1>1, <1>3
<1>5. Fits(l, w)
  <2> DEFINE pc == IF pkt.dst \in local_routes[d] THEN "local" ELSE "foreign"
  <2>1. pc \in {"local", "foreign"} /\ l \in Thread
    BY Links
  <2>2. w = [idle EXCEPT !.pc = pc, !.pkt = pkt, !.route = pkt.dst]
    OBVIOUS
  <2> HIDE DEF pc, pkt, w
  <2> QED
    BY <1>2, <2>1, <2>2, TakeUp
<1>6. thread' = [thread EXCEPT ![l] = w]
  BY Links DEF Receive, Goto, Parse
<1> HIDE DEF w
<1>7. /\ thread' \in [Thread -> Work]
      /\ \A u \in Thread : Fits(u, thread'[u]) /\ thread'[u].at <= Len(peers(u[1]))
  BY <1>5, <1>6, Links, ThreadMoves
<1> QED
  BY <1>4, <1>7 DEF Receive, Typing, TypeOK, Work

LEMMA LocalTyping ==
  ASSUME Typing, NEW l \in Link, DeliverKnown(l[1], l[2]) \/ FindUnknown(l[1], l[2])
  PROVE  Typing'
<1>1. /\ l \in Thread /\ l = <<l[1], l[2]>> /\ l[1] \in Daemon
      /\ thread[l].pkt \in Packets /\ Fits(l, thread[l])
  BY Links DEF Typing, Fits, DeliverKnown, FindUnknown, Goto
<1>2. CASE DeliverKnown(l[1], l[2])
  BY <1>1, <1>2, IdleFits, WriteTyping, QuietTyping DEF DeliverKnown, Goto, Typing, TypeOK
<1>3. CASE FindUnknown(l[1], l[2])
  <2> DEFINE source == thread[l].pkt.src
             w == [thread[l] EXCEPT !.pc = "add", !.route = source]
  <2>1. source \in Daemon
    BY <1>1, RoutingAssumption
  <2>2. w \in Work /\ w.pc = "add" /\ w.at = thread[l].at /\ w.pkt = thread[l].pkt /\ w.route = source
    BY <1>1, <2>1 DEF Fits, Work
  <2>3. thread' = [thread EXCEPT ![l] = w]
    BY <1>1, <1>3 DEF FindUnknown, Goto, Parse
  <2> HIDE DEF w
  <2>4. Fits(l, w)
    BY <1>1, <2>2 DEF Fits
  <2> QED
    BY <1>1, <1>3, <2>3, <2>4, QuietTyping DEF FindUnknown, Typing, TypeOK
<1> QED
  BY <1>2, <1>3

LEMMA AddRouteTyping ==
  ASSUME Typing, NEW l \in Link, AddRoute(l[1], l[2])
  PROVE  Typing'
<1>1. /\ l \in Thread /\ l = <<l[1], l[2]>> /\ l[1] \in Daemon
      /\ thread[l].pkt \in Packets /\ thread[l].route = thread[l].pkt.src
  BY Links DEF Typing, Fits, AddRoute, Goto
<1>2. thread[l].route \in Daemon
  BY <1>1, RoutingAssumption
<1>3. routes' \in [Link -> SUBSET Daemon]
  BY <1>1, <1>2 DEF AddRoute, Typing, TypeOK
<1> QED
  BY <1>1, <1>3, IdleFits, WriteTyping, QuietTyping DEF AddRoute, Goto

LEMMA ForeignTyping ==
  ASSUME Typing, NEW l \in Link, Forward(l[1], l[2]) \/ Flood(l[1], l[2])
  PROVE  Typing'
<1>1. /\ l \in Thread /\ l = <<l[1], l[2]>> /\ l[1] \in Daemon
      /\ thread[l].pkt \in Packets /\ thread[l].pc # "idle"
  BY Links DEF Typing, Fits, Forward, Flood, Goto
<1>2. Len(peers(l[1])) \in Nat \ {0} /\ 1 \in 1..Len(peers(l[1]))
  BY <1>1, Peers
<1>3. CASE Forward(l[1], l[2])
  <2> DEFINE i == get_peer_route(l[1], thread[l].route)
  <2>1. i \in 1..Len(peers(l[1]))
    <3>1. i # 0
      BY <1>1, <1>3 DEF Forward
    <3>2. i \in 0..Len(peers(l[1]))
      BY <1>1, Route
    <3> QED
      BY <1>2, <3>1, <3>2
  <2>2. thread' = [thread EXCEPT ![l] =
                     [thread[l] EXCEPT !.pc = "send", !.at = i, !.one = TRUE]]
    BY <1>1, <1>3 DEF Forward, Goto
  <2> HIDE DEF i
  <2> QED
    BY <1>1, <1>3, <2>1, <2>2, SendFits, QuietTyping DEF Forward, Typing, TypeOK
<1>4. CASE Flood(l[1], l[2])
  <2>1. thread' = [thread EXCEPT ![l] =
                     [thread[l] EXCEPT !.pc = "send", !.at = 1, !.one = FALSE]]
    BY <1>1, <1>4 DEF Flood, Goto
  <2> QED
    BY <1>1, <1>2, <1>4, <2>1, SendFits, WriteTyping, QuietTyping DEF Flood, Typing, TypeOK
<1> QED
  BY <1>3, <1>4

\* The thread after the peer at its position stops, or goes on to the next.
LEMMA SentFits ==
  ASSUME Typing, NEW t \in Thread, thread[t].pc = "send"
  PROVE  /\ Fits(t, Sent(t))
         /\ thread[t].at \in 1..Len(peers(t[1]))
         /\ peers(t[1])[thread[t].at] \in Daemon
         /\ <<t[1], peers(t[1])[thread[t].at]>> \in Link
<1>1. Fits(t, thread[t]) /\ thread[t].pkt \in Packets /\ thread[t].at \in 1..Len(peers(t[1]))
  BY Threads, Peers, SMTT(30) DEF Typing, Fits, Work
<1>2. CASE thread[t].one \/ thread[t].at = Len(peers(t[1]))
  BY <1>1, <1>2, IdleFits, Threads, Peers DEF Sent
<1>3. CASE ~(thread[t].one \/ thread[t].at = Len(peers(t[1])))
  <2> DEFINE w == [thread[t] EXCEPT !.at = @ + 1]
  <2>1. Len(peers(t[1])) \in Nat
    BY Threads, Peers
  <2>2. /\ w \in Work /\ w.pc = "send" /\ w.pkt = thread[t].pkt
        /\ w.at = thread[t].at + 1
    BY <1>1 DEF Fits, Work
  <2>3. w.at \in 1..Len(peers(t[1])) /\ w.at # 0
    BY <1>1, <1>3, <2>1, <2>2
  <2> HIDE DEF w
  <2>4. Fits(t, w)
    BY <1>1, <2>2, <2>3 DEF Fits
  <2> QED
    BY <1>1, <1>3, <2>4, Threads, Peers DEF Sent, w
<1> QED
  BY <1>2, <1>3

LEMMA SendingTyping ==
  ASSUME Typing, NEW t \in Thread, Sending(t)
  PROVE  Typing'
<1>1. thread[t].pc = "send" /\ thread' = [thread EXCEPT ![t] = Sent(t)]
  BY DEF Sending, Skip, Send, Goto
<1>2. CASE Skip(t)
  BY <1>1, <1>2, SentFits, QuietTyping DEF Skip, Typing, TypeOK
<1>3. CASE Send(t)
  <2> DEFINE l == <<t[1], peers(t[1])[thread[t].at]>>
  <2>1. /\ l \in Link /\ Len(wire[l]) < Capacity
        /\ wire' = [wire EXCEPT ![l] = Append(@, thread[t].pkt)]
    BY <1>1, <1>3, SentFits DEF Send
  <2>2. /\ wire \in [Link -> Seq(Packets)] /\ thread[t].pkt \in Packets
        /\ \A k \in Link : Len(wire[k]) <= Capacity
    BY <1>1 DEF Typing, TypeOK, Fits
  <2> HIDE DEF l
  <2>3. /\ Append(wire[l], thread[t].pkt) \in Seq(Packets)
        /\ Len(Append(wire[l], thread[t].pkt)) <= Capacity
    BY <2>1, <2>2, RoutingAssumption
  <2>4. wire' \in [Link -> Seq(Packets)] /\ \A k \in Link : Len(wire'[k]) <= Capacity
    BY <2>1, <2>2, <2>3
  <2>5. /\ thread' \in [Thread -> Work]
        /\ \A u \in Thread : Fits(u, thread'[u]) /\ thread'[u].at <= Len(peers(u[1]))
    BY <1>1, SentFits, ThreadMoves
  <2> QED
    BY <1>3, <2>4, <2>5 DEF Send, Typing, TypeOK, Work
<1> QED
  BY <1>2, <1>3 DEF Sending

LEMMA TypingInit ==
  ASSUME Init
  PROVE  Typing
<1>1. \A t \in Thread : Fits(t, thread[t]) /\ thread[t] = idle
  BY IdleFits DEF Init
<1>2. thread \in [Thread -> Work]
  BY <1>1 DEF Init, Fits
<1>3. \A t \in Thread : thread[t].at <= Len(peers(t[1]))
  BY <1>1 DEF Fits
<1>4. wire \in [Link -> Seq(Packets)] /\ \A l \in Link : Len(wire[l]) <= Capacity
  BY RoutingAssumption DEF Init
<1>5. /\ local_routes \in [Daemon -> SUBSET Daemon] /\ routes \in [Link -> SUBSET Daemon]
      /\ emitted \subseteq Packets /\ delivered \in [Daemon -> SUBSET Packets]
  BY DEF Init
<1> QED
  BY <1>1, <1>2, <1>3, <1>4, <1>5 DEF Typing, TypeOK, Work

LEMMA TypingStep ==
  ASSUME Typing, [Next]_vars
  PROVE  Typing'
<1>1. ASSUME NEW d \in Daemon, TunThread(d) PROVE Typing'
  BY <1>1, RouteTunTyping, ReadTunTyping DEF TunThread
<1>2. ASSUME NEW l \in Link, ReceiveThread(l[1], l[2]) PROVE Typing'
  BY <1>2, ReceiveTyping, LocalTyping, AddRouteTyping, ForeignTyping DEF ReceiveThread
<1>3. ASSUME NEW t \in Thread, Sending(t) PROVE Typing'
  BY <1>3, SendingTyping
<1>4. CASE UNCHANGED vars
  BY <1>4 DEF vars, Typing, TypeOK
<1> QED
  BY <1>1, <1>2, <1>3, <1>4 DEF Next

\* Theorem: the variables keep their types, no thread sends past the end of the list
\* of peers, and no socket holds more than it can.
THEOREM RoutingTypes == Spec => []TypeOK
<1>1. Init => Typing
  BY TypingInit
<1>2. Typing /\ [Next]_vars => Typing'
  BY TypingStep
<1>3. Typing => TypeOK
  BY DEF Typing
<1> QED
  BY <1>1, <1>2, <1>3, PTL DEF Spec

-----------------------------------------------------------------------------
(***************************************************************************)
(* Routes.                                                                 *)
(***************************************************************************)

\* A daemon knows no address but its own for its host's, and the server knows its own.
OwnAddress ==
  /\ \A d \in Daemon : local_routes[d] \subseteq {d}
  /\ Server \in local_routes[Server]

\* What is for the server's host comes to the server from the client whose host sent it.
ToServer ==
  /\ \A l \in Link : \A i \in 1..Len(wire[l]) :
       wire[l][i].dst = Server => l = <<wire[l][i].src, Server>>
  /\ \A t \in Thread : thread[t].pc # "idle" /\ thread[t].pkt.dst = Server =>
       t[1] = thread[t].pkt.src \/ t = <<Server, thread[t].pkt.src>>

\* Threads that take a packet for their own host's are right, and the server's do.
ForOwnHost ==
  \A t \in Thread :
    /\ thread[t].pc \in {"local", "add"} => thread[t].pkt.dst = t[1]
    /\ thread[t].pc \in {"foreign", "send", "route"} /\ t[1] = Server =>
         thread[t].pkt.dst # Server

RInv == Typing /\ OwnAddress /\ ToServer /\ ForOwnHost /\ RoutesBelong

\* The conjuncts about a thread, of what thread t may be doing.
Right(t, w) ==
  /\ w.pc # "idle" /\ w.pkt.dst = Server => t[1] = w.pkt.src \/ t = <<Server, w.pkt.src>>
  /\ w.pc \in {"local", "add"} => w.pkt.dst = t[1]
  /\ w.pc \in {"foreign", "send", "route"} /\ t[1] = Server => w.pkt.dst # Server

LEMMA IdleRight ==
  ASSUME NEW t \in Thread
  PROVE  Right(t, idle)
BY DEF Right, idle

\* A step that leaves the addresses, routes and wires alone.
LEMMA RightStep ==
  ASSUME RInv, Typing', NEW t \in Thread, NEW w, Right(t, w),
         thread' = [thread EXCEPT ![t] = w],
         UNCHANGED <<local_routes, routes, wire>>
  PROVE  RInv'
<1>1. thread'[t] = w /\ \A u \in Thread : u # t => thread'[u] = thread[u]
  BY DEF RInv, Typing, TypeOK
<1>2. \A u \in Thread : Right(u, thread'[u])
  BY <1>1 DEF RInv, ToServer, ForOwnHost, Right
<1> QED
  BY <1>2 DEF RInv, OwnAddress, ToServer, ForOwnHost, RoutesBelong, Right

LEMMA ReadTunRight ==
  ASSUME RInv, Typing', NEW d \in Daemon, NEW pkt \in Packets, ReadTun(d, pkt)
  PROVE  RInv'
<1> DEFINE t == <<d, d>>
           w == [idle EXCEPT !.pc = "route", !.pkt = pkt, !.route = Parse(pkt, FALSE)]
<1>1. /\ t \in Thread /\ t[1] = d /\ pkt.src = d /\ pkt.dst # d
      /\ thread' = [thread EXCEPT ![t] = w]
      /\ local_routes' = [local_routes EXCEPT ![d] = @ \cup {d}]
      /\ UNCHANGED <<routes, wire>>
  BY TunThreads, RoutingAssumption DEF ReadTun, Goto, Parse
<1>2. w.pc = "route" /\ w.pkt = pkt
  BY DEF idle
<1>3. Right(t, w)
  BY <1>1, <1>2 DEF Right
<1> HIDE DEF w
<1>4. \A u \in Thread : Right(u, thread'[u])
  BY <1>1, <1>3 DEF RInv, Typing, TypeOK, ToServer, ForOwnHost, Right
<1>5. OwnAddress'
  BY <1>1 DEF RInv, Typing, TypeOK, OwnAddress
<1> QED
  BY <1>1, <1>4, <1>5 DEF RInv, ToServer, ForOwnHost, RoutesBelong, Right

LEMMA ReceiveRight ==
  ASSUME RInv, Typing', NEW l \in Link, Receive(l[1], l[2])
  PROVE  RInv'
<1> DEFINE d == l[1]
           from == <<l[2], l[1]>>
           pkt == Head(wire[from])
           pc == IF pkt.dst \in local_routes[d] THEN "local" ELSE "foreign"
           w == [idle EXCEPT !.pc = pc, !.pkt = pkt, !.route = pkt.dst]
<1>1. /\ from \in Link /\ wire[from] \in Seq(Packets) /\ wire[from] # <<>>
      /\ wire' = [wire EXCEPT ![from] = Tail(@)] /\ wire \in [Link -> Seq(Packets)]
      /\ l \in Thread /\ l = <<l[1], l[2]>> /\ d \in Daemon
      /\ thread' = [thread EXCEPT ![l] = w]
      /\ UNCHANGED <<local_routes, routes>>
  BY Links DEF Receive, Goto, Parse, RInv, Typing, TypeOK
<1>2. /\ \A i \in 1..Len(Tail(wire[from])) :
           i + 1 \in 1..Len(wire[from]) /\ Tail(wire[from])[i] = wire[from][i + 1]
      /\ pkt = wire[from][1] /\ 1 \in 1..Len(wire[from])
  BY <1>1
<1>3. w.pc = pc /\ w.pkt = pkt
  BY DEF idle
<1>4. pkt.dst = Server => l = <<Server, pkt.src>>
  BY <1>1, <1>2 DEF RInv, ToServer
<1>5. /\ pc = "local" => pkt.dst = d
      /\ pc = "foreign" /\ d = Server => pkt.dst # Server
      /\ pc \in {"local", "foreign"}
  BY <1>1 DEF RInv, OwnAddress
<1> HIDE DEF pc, w, pkt
<1>6. Right(l, w)
  BY <1>3, <1>4, <1>5 DEF Right
<1>7. \A u \in Thread : Right(u, thread'[u])
  BY <1>1, <1>6 DEF RInv, Typing, TypeOK, ToServer, ForOwnHost, Right
<1>8. \A k \in Link : \A i \in 1..Len(wire'[k]) :
        wire'[k][i].dst = Server => k = <<wire'[k][i].src, Server>>
  <2> SUFFICES ASSUME NEW k \in Link, NEW i \in 1..Len(wire'[k])
               PROVE  wire'[k][i].dst = Server => k = <<wire'[k][i].src, Server>>
    OBVIOUS
  <2>1. CASE k = from
    BY <1>1, <1>2, <2>1 DEF RInv, ToServer
  <2>2. CASE k # from
    BY <1>1, <2>2 DEF RInv, ToServer
  <2> QED
    BY <2>1, <2>2
<1> QED
  BY <1>1, <1>7, <1>8 DEF RInv, OwnAddress, ToServer, ForOwnHost, RoutesBelong, Right

\* Steps that keep the packet: what the thread is doing with it is still right.
LEMMA SameRight ==
  ASSUME RInv, NEW t \in Thread, NEW w, thread[t].pc # "idle", w.pkt = thread[t].pkt,
         \/ w.pc = thread[t].pc
         \/ {w.pc, thread[t].pc} \subseteq {"local", "add"}
         \/ {w.pc, thread[t].pc} \subseteq {"foreign", "send", "route"}
  PROVE  Right(t, w)
BY DEF RInv, ToServer, ForOwnHost, Right

\* RouteTun, Forward and Flood
LEMMA SendRight ==
  ASSUME RInv, Typing', NEW t \in Thread, thread[t].pc \in {"route", "foreign"},
         NEW at, NEW one,
         thread' = [thread EXCEPT ![t] = [thread[t] EXCEPT !.pc = "send", !.at = at, !.one = one]],
         UNCHANGED <<local_routes, routes, wire>>
  PROVE  RInv'
<1> DEFINE w == [thread[t] EXCEPT !.pc = "send", !.at = at, !.one = one]
<1>1. w.pc = "send" /\ w.pkt = thread[t].pkt
  BY DEF RInv, Typing, Fits, Work
<1>2. thread' = [thread EXCEPT ![t] = w]
  OBVIOUS
<1> HIDE DEF w
<1>3. Right(t, w)
  BY <1>1, SameRight
<1> QED
  BY <1>2, <1>3, RightStep

LEMMA RouteTunRight ==
  ASSUME RInv, Typing', NEW d \in Daemon, RouteTun(d)
  PROVE  RInv'
BY TunThreads, SendRight DEF RouteTun, Goto

LEMMA ForeignRight ==
  ASSUME RInv, Typing', NEW l \in Link, Forward(l[1], l[2]) \/ Flood(l[1], l[2])
  PROVE  RInv'
<1>1. l \in Thread /\ l = <<l[1], l[2]>>
  BY Links
<1>2. CASE Forward(l[1], l[2])
  BY <1>1, <1>2, SendRight DEF Forward, Goto
<1>3. CASE Flood(l[1], l[2])
  BY <1>1, <1>3, SendRight DEF Flood, Goto
<1> QED
  BY <1>2, <1>3

LEMMA LocalRight ==
  ASSUME RInv, Typing', NEW l \in Link, DeliverKnown(l[1], l[2]) \/ FindUnknown(l[1], l[2])
  PROVE  RInv'
<1>1. l \in Thread /\ l = <<l[1], l[2]>>
  BY Links
<1>2. CASE DeliverKnown(l[1], l[2])
  BY <1>1, <1>2, IdleRight, RightStep DEF DeliverKnown, Goto
<1>3. CASE FindUnknown(l[1], l[2])
  <2> DEFINE w == [thread[l] EXCEPT !.pc = "add", !.route = Parse(thread[l].pkt, TRUE)]
  <2>1. thread[l].pc = "local" /\ thread' = [thread EXCEPT ![l] = w]
    BY <1>1, <1>3 DEF FindUnknown, Goto
  <2>2. w.pc = "add" /\ w.pkt = thread[l].pkt
    BY <1>1 DEF RInv, Typing, Fits, Work
  <2> HIDE DEF w
  <2>3. Right(l, w)
    BY <1>1, <2>1, <2>2, SameRight
  <2> QED
    BY <1>1, <1>3, <2>1, <2>3, RightStep DEF FindUnknown
<1> QED
  BY <1>2, <1>3

\* The source that is learned is not of this daemon, and at the server it is the peer.
LEMMA AddRouteRight ==
  ASSUME RInv, Typing', NEW l \in Link, AddRoute(l[1], l[2])
  PROVE  RInv'
<1>1. /\ l \in Thread /\ l = <<l[1], l[2]>>
      /\ thread[l].pc = "add" /\ thread' = [thread EXCEPT ![l] = idle]
      /\ routes' = [routes EXCEPT ![l] = @ \cup {thread[l].route}]
      /\ UNCHANGED <<local_routes, wire>>
  BY Links DEF AddRoute, Goto
<1>2. /\ thread[l].pkt \in Packets /\ thread[l].route = thread[l].pkt.src
      /\ thread[l].pkt.dst = l[1] /\ thread[l].pkt.src # thread[l].pkt.dst
  BY <1>1, RoutingAssumption DEF RInv, Typing, Fits, ForOwnHost
<1>3. l[1] = Server => thread[l].route = l[2]
  BY <1>1, <1>2 DEF RInv, ToServer
<1>4. \A u \in Thread : Right(u, thread'[u])
  BY <1>1, IdleRight DEF RInv, Typing, TypeOK, ToServer, ForOwnHost, Right
<1>5. RoutesBelong'
  BY <1>1, <1>2, <1>3 DEF RInv, Typing, TypeOK, RoutesBelong
<1> QED
  BY <1>1, <1>4, <1>5 DEF RInv, OwnAddress, ToServer, ForOwnHost, Right

LEMMA SentRight ==
  ASSUME RInv, NEW t \in Thread, thread[t].pc = "send"
  PROVE  Right(t, Sent(t))
<1> DEFINE w == [thread[t] EXCEPT !.at = @ + 1]
<1>1. w.pc = thread[t].pc /\ w.pkt = thread[t].pkt
  BY DEF RInv, Typing, Fits, Work
<1> HIDE DEF w
<1>2. Right(t, w)
  BY <1>1, SameRight
<1> QED
  BY <1>2, IdleRight DEF Sent, w

\* What is for the server's host is only sent by the client whose host has sent it.
LEMMA SendingRight ==
  ASSUME RInv, Typing', NEW t \in Thread, Sending(t)
  PROVE  RInv'
<1>1. thread[t].pc = "send" /\ thread' = [thread EXCEPT ![t] = Sent(t)]
  BY DEF Sending, Skip, Send, Goto
<1>2. CASE Skip(t)
  BY <1>1, <1>2, SentRight, RightStep DEF Skip
<1>3. CASE Send(t)
  <2> DEFINE l == <<t[1], peers(t[1])[thread[t].at]>>
             pkt == thread[t].pkt
  <2>1. /\ l \in Link /\ UNCHANGED <<local_routes, routes>>
        /\ wire' = [wire EXCEPT ![l] = Append(@, pkt)]
        /\ wire \in [Link -> Seq(Packets)]
    BY <1>1, <1>3, SentFits DEF Send, RInv, Typing, TypeOK
  <2>2. pkt.dst = Server => l = <<pkt.src, Server>>
    <3>1. l[1] = t[1] /\ l = <<l[1], l[2]>> /\ (l[1] = Server \/ l[2] = Server)
      BY <2>1, Links
    <3>2. pkt.dst = Server => t[1] = pkt.src /\ t[1] # Server
      BY <1>1 DEF RInv, ToServer, ForOwnHost
    <3> QED
      BY <3>1, <3>2
  <2> HIDE DEF l, pkt
  <2>3. \A k \in Link : \A i \in 1..Len(wire'[k]) :
          wire'[k][i].dst = Server => k = <<wire'[k][i].src, Server>>
    <3> SUFFICES ASSUME NEW k \in Link, NEW i \in 1..Len(wire'[k])
                 PROVE  wire'[k][i].dst = Server => k = <<wire'[k][i].src, Server>>
      OBVIOUS
    <3>1. CASE k = l
      <4>1. wire'[k] = Append(wire[l], pkt) /\ wire[l] \in Seq(Packets)
        BY <2>1, <3>1
      <4>2. wire'[k][i] = pkt \/ (i \in 1..Len(wire[l]) /\ wire'[k][i] = wire[l][i])
        BY <4>1
      <4> QED
        BY <2>1, <2>2, <3>1, <4>2 DEF RInv, ToServer
    <3>2. CASE k # l
      BY <2>1, <3>2 DEF RInv, ToServer
    <3> QED
      BY <3>1, <3>2
  <2>4. \A u \in Thread : Right(u, thread'[u])
    BY <1>1, SentRight DEF RInv, Typing, TypeOK, ToServer, ForOwnHost, Right
  <2> QED
    BY <2>1, <2>3, <2>4 DEF RInv, OwnAddress, ToServer, ForOwnHost, RoutesBelong, Right
<1> QED
  BY <1>2, <1>3 DEF Sending

LEMMA RInit ==
  ASSUME Init, Server \in Warm
  PROVE  RInv
<1>1. OwnAddress
  BY DEF Init, OwnAddress, Daemon
<1>2. \A t \in Thread : thread[t].pc = "idle"
  BY DEF Init, idle
<1>3. \A l \in Link : wire[l] = <<>>
  BY DEF Init
<1>4. RoutesBelong
  <2> SUFFICES ASSUME NEW l \in Link
               PROVE  IF l[1] = Server THEN routes[l] = {} ELSE l[1] \notin routes[l]
    BY DEF RoutesBelong
  <2>1. routes[l] = {a \in Daemon : <<l[1], a>> \in Known}
    BY DEF Init
  <2>2. \A a \in Daemon : <<l[1], a>> \in Known => l[1] \in ToSet(Clients) /\ l[1] # a
    BY RoutingAssumption
  <2> QED
    BY <2>1, <2>2, RoutingAssumption
<1> QED
  BY <1>1, <1>2, <1>3, <1>4, TypingInit DEF RInv, ToServer, ForOwnHost

LEMMA RStep ==
  ASSUME RInv, [Next]_vars
  PROVE  RInv'
<1>1. Typing'
  BY TypingStep DEF RInv
<1>2. ASSUME NEW d \in Daemon, TunThread(d) PROVE RInv'
  BY <1>1, <1>2, RouteTunRight, ReadTunRight DEF TunThread
<1>3. ASSUME NEW l \in Link, ReceiveThread(l[1], l[2]) PROVE RInv'
  BY <1>1, <1>3, ReceiveRight, LocalRight, AddRouteRight, ForeignRight DEF ReceiveThread
<1>4. ASSUME NEW t \in Thread, Sending(t) PROVE RInv'
  BY <1>1, <1>4, SendingRight
<1>5. CASE UNCHANGED vars
  BY <1>1, <1>5 DEF vars, RInv, OwnAddress, ToServer, ForOwnHost, RoutesBelong
<1> QED
  BY <1>2, <1>3, <1>4, <1>5 DEF Next

\* Theorem: once the server's host has sent a packet, routes name the peer to which they
\* belong (peer.c:251), whatever packets are flooded or sent back, and whichever routes
\* are learned between the steps of a thread that looks them up.
THEOREM Belonging ==
  ASSUME Server \in Warm
  PROVE  Spec => []RoutesBelong
<1>1. Init => RInv
  BY RInit
<1>2. RInv /\ [Next]_vars => RInv'
  BY RStep
<1>3. RInv => RoutesBelong
  BY DEF RInv
<1> QED
  BY <1>1, <1>2, <1>3, PTL DEF Spec

-----------------------------------------------------------------------------
(***************************************************************************)
(* No packet is lost.                                                      *)
(***************************************************************************)

\* A link on the shortest way of a packet.
Leads(l, pkt) == l[2] = pkt.dst \/ l = <<pkt.src, Server>>

\* Thread t, which does w, will write its packet to the device of its destination or
\* send it along the shortest way.
Carries(t, w) ==
  \/ w.pc \in {"route", "local", "add"}
  \/ w.pc = "foreign" /\ (t[1] = w.pkt.dst \/ t = <<Server, w.pkt.src>>)
  \/ /\ w.pc = "send"
     /\ \E i \in 1..Len(peers(t[1])) :
          /\ i = w.at \/ (~w.one /\ i > w.at)
          /\ Leads(<<t[1], peers(t[1])[i]>>, w.pkt)
          /\ w.one \/ peers(t[1])[i] # t[2]

\* The packet has arrived, or a copy of it will.
Arrives(pkt) ==
  \/ pkt \in delivered[pkt.dst]
  \/ \E t \in Thread : thread[t].pkt = pkt /\ Carries(t, thread[t])
  \/ \E l \in Link : pkt \in ToSet(wire[l]) /\ Leads(l, pkt)

NInv == RInv /\ \A pkt \in emitted : Arrives(pkt)

LEMMA HeadAndTail ==
  ASSUME NEW S, NEW q \in Seq(S), q # <<>>
  PROVE  ToSet(q) = ToSet(Tail(q)) \cup {Head(q)}
<1> DEFINE tail == Tail(q)
<1>1. /\ DOMAIN q = 1..Len(q) /\ Len(q) \in Nat \ {0} /\ Head(q) = q[1]
      /\ DOMAIN tail = 1..Len(q) - 1
      /\ \A i \in 1..Len(q) - 1 : tail[i] = q[i + 1]
  OBVIOUS
<1> HIDE DEF tail
<1>2. ASSUME NEW i \in 1..Len(q), i # 1 PROVE q[i] \in ToSet(tail)
  <2>1. i - 1 \in DOMAIN tail /\ tail[i - 1] = q[i]
    BY <1>1, <1>2
  <2> QED
    BY <2>1 DEF ToSet
<1>3. \A i \in DOMAIN tail : tail[i] \in ToSet(q)
  BY <1>1 DEF ToSet
<1>4. ToSet(q) \subseteq ToSet(tail) \cup {Head(q)}
  BY <1>1, <1>2 DEF ToSet
<1>5. ToSet(tail) \subseteq ToSet(q)
  BY <1>3 DEF ToSet
<1>6. Head(q) \in ToSet(q)
  BY <1>1 DEF ToSet
<1> QED
  BY <1>4, <1>5, <1>6 DEF tail

LEMMA AllAndLast ==
  ASSUME NEW S, NEW q \in Seq(S), NEW e \in S
  PROVE  ToSet(Append(q, e)) = ToSet(q) \cup {e}
<1> DEFINE longer == Append(q, e)
<1>1. /\ DOMAIN q = 1..Len(q) /\ Len(q) \in Nat
      /\ DOMAIN longer = 1..Len(q) + 1 /\ longer[Len(q) + 1] = e
      /\ \A i \in 1..Len(q) : longer[i] = q[i]
  OBVIOUS
<1> HIDE DEF longer
<1>2. \A i \in 1..Len(q) + 1 : i \in 1..Len(q) \/ i = Len(q) + 1
  BY <1>1
<1>3. (1..Len(q)) \cup {Len(q) + 1} \subseteq 1..Len(q) + 1
  BY <1>1
<1>4. ToSet(longer) \subseteq ToSet(q) \cup {e}
  BY <1>1, <1>2 DEF ToSet
<1>5. ToSet(q) \cup {e} \subseteq ToSet(longer)
  BY <1>1, <1>3 DEF ToSet
<1> QED
  BY <1>4, <1>5 DEF longer

\* A step of thread t, which may only lose the packet that t carries.
LEMMA OthersArrive ==
  ASSUME RInv, NEW pkt \in Packets, Arrives(pkt), NEW t \in Thread, NEW w,
         thread' = [thread EXCEPT ![t] = w],
         \A e \in Daemon : delivered[e] \subseteq delivered'[e],
         \A l \in Link : ToSet(wire[l]) \subseteq ToSet(wire'[l]),
         thread[t].pkt = pkt /\ Carries(t, thread[t]) => Arrives(pkt)'
  PROVE  Arrives(pkt)'
<1>1. \A u \in Thread : u # t => thread'[u] = thread[u]
  BY DEF RInv, Typing, TypeOK
<1>2. pkt.dst \in Daemon
  BY RoutingAssumption
<1>3. CASE pkt \in delivered[pkt.dst]
  BY <1>2, <1>3 DEF Arrives
<1>4. ASSUME NEW u \in Thread, thread[u].pkt = pkt, Carries(u, thread[u]) PROVE Arrives(pkt)'
  <2>1. CASE u = t
    BY <1>4, <2>1
  <2>2. CASE u # t
    <3>1. thread'[u] = thread[u]
      BY <1>1, <2>2
    <3>2. Carries(u, thread'[u]) /\ thread'[u].pkt = pkt
      BY <1>4, <3>1
    <3> QED
      BY <3>2 DEF Arrives, Carries, Leads, peers
  <2> QED
    BY <2>1, <2>2
<1>5. ASSUME NEW l \in Link, pkt \in ToSet(wire[l]), Leads(l, pkt) PROVE Arrives(pkt)'
  BY <1>5 DEF Arrives, Leads, ToSet
<1> QED
  BY <1>3, <1>4, <1>5 DEF Arrives

\* A thread that carries the packet after a step.
LEMMA StillCarried ==
  ASSUME RInv, NEW pkt, NEW t \in Thread, NEW w, thread' = [thread EXCEPT ![t] = w],
         w.pkt = pkt, Carries(t, w)
  PROVE  Arrives(pkt)'
<1>1. thread'[t] = w
  BY DEF RInv, Typing, TypeOK
<1> QED
  BY <1>1 DEF Arrives, Carries, Leads, peers

\* All packets still arrive if the one that the thread carried does.
LEMMA StepArrives ==
  ASSUME NInv, RInv', NEW t \in Thread, NEW w, thread' = [thread EXCEPT ![t] = w],
         UNCHANGED emitted,
         \A e \in Daemon : delivered[e] \subseteq delivered'[e],
         \A l \in Link : ToSet(wire[l]) \subseteq ToSet(wire'[l]),
         Carries(t, thread[t]) =>
           \/ w.pkt = thread[t].pkt /\ Carries(t, w)
           \/ thread[t].pkt \in delivered'[thread[t].pkt.dst]
           \/ \E l \in Link : thread[t].pkt \in ToSet(wire'[l]) /\ Leads(l, thread[t].pkt)
  PROVE  NInv'
<1> SUFFICES ASSUME NEW pkt \in emitted PROVE Arrives(pkt)'
  BY DEF NInv
<1>1. pkt \in Packets /\ Arrives(pkt) /\ RInv
  BY DEF NInv, RInv, Typing, TypeOK
<1>2. ASSUME thread[t].pkt = pkt, Carries(t, thread[t]) PROVE Arrives(pkt)'
  <2>1. CASE w.pkt = pkt /\ Carries(t, w)
    BY <1>1, <2>1, StillCarried
  <2>2. CASE pkt \in delivered'[pkt.dst]
    BY <2>2 DEF Arrives
  <2>3. ASSUME NEW l \in Link, pkt \in ToSet(wire'[l]), Leads(l, pkt) PROVE Arrives(pkt)'
    BY <2>3 DEF Arrives, Leads, ToSet
  <2> QED
    BY <1>2, <2>1, <2>2, <2>3
<1> QED
  BY <1>1, <1>2, OthersArrive

LEMMA ReadTunArrives ==
  ASSUME NInv, RInv', NEW d \in Daemon, NEW pkt \in Packets, ReadTun(d, pkt)
  PROVE  NInv'
<1> DEFINE t == <<d, d>>
           w == [idle EXCEPT !.pc = "route", !.pkt = pkt, !.route = Parse(pkt, FALSE)]
<1>1. /\ t \in Thread /\ thread[t].pc = "idle" /\ thread' = [thread EXCEPT ![t] = w]
      /\ emitted' = emitted \cup {pkt} /\ UNCHANGED <<wire, delivered>>
  BY TunThreads DEF ReadTun, Goto
<1>2. w.pc = "route" /\ w.pkt = pkt
  BY DEF idle
<1> HIDE DEF t, w
<1>3. Arrives(pkt)'
  BY <1>1, <1>2, StillCarried DEF NInv, Carries
<1>4. ASSUME NEW other \in emitted PROVE Arrives(other)'
  <2>1. other \in Packets /\ Arrives(other)
    BY DEF NInv, RInv, Typing, TypeOK
  <2>2. ~Carries(t, thread[t])
    BY <1>1 DEF Carries
  <2> QED
    BY <1>1, <2>1, <2>2, OthersArrive DEF NInv
<1> QED
  BY <1>1, <1>3, <1>4 DEF NInv

\* The next packet is taken up by the thread that it leads to.
LEMMA ReceiveArrives ==
  ASSUME NInv, RInv', NEW l \in Link, Receive(l[1], l[2])
  PROVE  NInv'
<1> DEFINE d == l[1]
           from == <<l[2], l[1]>>
           pkt == Head(wire[from])
           pc == IF pkt.dst \in local_routes[d] THEN "local" ELSE "foreign"
           w == [idle EXCEPT !.pc = pc, !.pkt = pkt, !.route = pkt.dst]
<1>1. /\ from \in Link /\ wire[from] \in Seq(Packets) /\ wire[from] # <<>>
      /\ wire' = [wire EXCEPT ![from] = Tail(@)] /\ wire \in [Link -> Seq(Packets)]
      /\ l \in Thread /\ l = <<l[1], l[2]>> /\ d \in Daemon
      /\ thread[l].pc = "idle" /\ thread' = [thread EXCEPT ![l] = w]
      /\ UNCHANGED <<emitted, delivered>>
  BY Links DEF Receive, Goto, Parse, NInv, RInv, Typing, TypeOK
<1>2. ToSet(wire[from]) = ToSet(Tail(wire[from])) \cup {pkt}
  BY <1>1, HeadAndTail
<1>3. w.pc = pc /\ w.pkt = pkt /\ pc \in {"local", "foreign"}
  BY DEF idle
<1>4. Leads(from, pkt) => Carries(l, w)
  <2>1. from[2] = l[1] /\ (from = <<pkt.src, Server>> => l = <<Server, pkt.src>>)
    BY <1>1
  <2> HIDE DEF w, pc, from
  <2> QED
    BY <1>3, <2>1 DEF Leads, Carries
<1> HIDE DEF w, pkt, pc, from
<1> SUFFICES ASSUME NEW other \in emitted PROVE Arrives(other)'
  BY <1>1 DEF NInv
<1>5. CASE other \in delivered[other.dst]
  BY <1>1, <1>5 DEF Arrives
<1>6. ASSUME NEW u \in Thread, thread[u].pkt = other, Carries(u, thread[u]) PROVE Arrives(other)'
  <2>1. u # l /\ thread'[u] = thread[u]
    BY <1>1, <1>6 DEF Carries, NInv, RInv, Typing, TypeOK
  <2> QED
    BY <1>6, <2>1 DEF Arrives, Carries, Leads, peers
<1>7. ASSUME NEW k \in Link, other \in ToSet(wire[k]), Leads(k, other) PROVE Arrives(other)'
  <2>1. CASE other \in ToSet(wire'[k])
    BY <1>7, <2>1 DEF Arrives, Leads, ToSet
  <2>2. CASE other \notin ToSet(wire'[k])
    <3>1. k = from /\ other = pkt
      BY <1>1, <1>2, <1>7, <2>2
    <3> QED
      BY <1>1, <1>3, <1>4, <1>7, <3>1, StillCarried DEF NInv
  <2> QED
    BY <2>1, <2>2
<1> QED
  BY <1>5, <1>6, <1>7 DEF NInv, Arrives

\* DeliverKnown and AddRoute write the packet to the device of its destination.
LEMMA DeliverArrives ==
  ASSUME NInv, RInv', NEW l \in Link, DeliverKnown(l[1], l[2]) \/ AddRoute(l[1], l[2])
  PROVE  NInv'
<1>1. /\ l \in Thread /\ l = <<l[1], l[2]>> /\ l[1] \in Daemon
      /\ thread[l].pc \in {"local", "add"} /\ thread' = [thread EXCEPT ![l] = idle]
      /\ Write(l[1], thread[l].pkt) /\ UNCHANGED <<wire, emitted>>
  BY Links DEF DeliverKnown, AddRoute, Goto
<1>2. thread[l].pkt \in Packets /\ thread[l].pkt.dst = l[1]
  BY <1>1 DEF NInv, RInv, Typing, Fits, ForOwnHost
<1> QED
  BY <1>1, <1>2, WriteTyping, StepArrives DEF NInv, RInv

LEMMA FindUnknownArrives ==
  ASSUME NInv, RInv', NEW l \in Link, FindUnknown(l[1], l[2])
  PROVE  NInv'
<1> DEFINE w == [thread[l] EXCEPT !.pc = "add", !.route = Parse(thread[l].pkt, TRUE)]
<1>1. /\ l \in Thread /\ thread' = [thread EXCEPT ![l] = w]
      /\ UNCHANGED <<wire, emitted, delivered>>
  BY Links DEF FindUnknown, Goto
<1>2. w.pc = "add" /\ w.pkt = thread[l].pkt
  BY <1>1 DEF NInv, RInv, Typing, Fits, Work
<1> HIDE DEF w
<1> QED
  BY <1>1, <1>2, StepArrives DEF Carries

\* A thread of the server that sends a packet to the peer its destination belongs to,
\* or to all peers but one that is not its destination.
LEMMA ServerCarries ==
  ASSUME RInv, NEW t \in Thread, t[1] = Server, NEW w, w.pc = "send", w.pkt \in Packets,
         w.pkt.dst # Server, w.pkt.dst # t[2],
         LET i == get_peer_route(Server, w.pkt.dst)
         IN  IF i = 0 THEN w.at = 1 /\ ~w.one ELSE w.at = i /\ w.one
  PROVE  Carries(t, w)
<1> DEFINE i == get_peer_route(Server, w.pkt.dst)
<1>1. /\ i \in 0..Len(peers(Server)) /\ Len(peers(Server)) \in Nat \ {0}
      /\ i # 0 => w.pkt.dst \in routes[<<Server, peers(Server)[i]>>]
                  /\ <<Server, peers(Server)[i]>> \in Link
  <2>1. Server \in Daemon
    BY DEF Daemon
  <2>2. i \in 0..Len(peers(Server)) /\ (i # 0 => w.pkt.dst \in routes[<<Server, peers(Server)[i]>>])
    BY <2>1, Route
  <2> HIDE DEF i
  <2>3. Len(peers(Server)) \in Nat \ {0}
    BY <2>1, Peers
  <2>4. i # 0 => i \in 1..Len(peers(Server))
    BY <2>2, <2>3
  <2> QED
    BY <2>1, <2>2, <2>3, <2>4, Peers
<1>2. CASE i = 0
  <2>1. PICK j \in 1..Len(peers(Server)) : peers(Server)[j] = w.pkt.dst
    BY ClientPeers, RoutingAssumption DEF peers
  <2>2. w.at = 1 /\ ~w.one /\ (j = w.at \/ j > w.at)
    BY <1>1, <1>2
  <2> QED
    BY <2>1, <2>2 DEF Carries, Leads
<1>3. CASE i # 0
  <2>1. w.at = i /\ w.one
    BY <1>3
  <2>2. peers(Server)[i] = w.pkt.dst /\ i \in 1..Len(peers(Server))
    BY <1>1, <1>3 DEF RInv, RoutesBelong
  <2> HIDE DEF i
  <2> QED
    BY <2>1, <2>2 DEF Carries, Leads
<1> QED
  BY <1>2, <1>3

LEMMA RouteTunArrives ==
  ASSUME NInv, RInv', NEW d \in Daemon, RouteTun(d)
  PROVE  NInv'
<1> DEFINE t == <<d, d>>
           i == get_peer_route(d, thread[t].route)
           w == [thread[t] EXCEPT !.pc = "send", !.at = IF i = 0 THEN 1 ELSE i, !.one = i # 0]
<1>1. /\ t \in Thread /\ t \notin Link /\ thread[t].pc = "route"
      /\ thread' = [thread EXCEPT ![t] = w] /\ UNCHANGED <<wire, emitted, delivered>>
  BY TunThreads DEF RouteTun, Goto
<1>2. /\ thread[t] \in Work /\ thread[t].pkt \in Packets
      /\ thread[t].route = thread[t].pkt.dst /\ thread[t].pkt.src = d
      /\ thread[t].pkt.dst # d
  BY <1>1, RoutingAssumption DEF NInv, RInv, Typing, Fits
<1>3. /\ w.pc = "send" /\ w.pkt = thread[t].pkt
      /\ w.at = IF i = 0 THEN 1 ELSE i
      /\ w.one = (i # 0)
  BY <1>2 DEF Work
<1>4. Carries(t, w)
  <2>1. CASE d = Server
    <3>1. w.pkt.dst # Server /\ w.pkt \in Packets /\ t[1] = Server /\ t[2] = Server
      BY <1>2, <1>3, <2>1
    <3>2. LET k == get_peer_route(Server, w.pkt.dst)
          IN  IF k = 0 THEN w.at = 1 /\ ~w.one ELSE w.at = k /\ w.one
      BY <1>2, <1>3, <2>1
    <3> HIDE DEF w, t, i
    <3> QED
      BY <1>1, <1>3, <3>1, <3>2, ServerCarries DEF NInv
  <2>2. CASE d # Server
    <3>1. /\ Len(peers(d)) = 1 /\ peers(d)[1] = Server /\ i \in 0..1
      BY <2>2, ClientPeers, Route
    <3>2. w.at = 1
      BY <1>3, <3>1
    <3>3. Leads(<<d, Server>>, w.pkt)
      BY <1>2, <1>3 DEF Leads
    <3>4. t[1] = d /\ t[2] = d
      OBVIOUS
    <3> HIDE DEF w, t, i
    <3> QED
      BY <1>3, <2>2, <3>1, <3>2, <3>3, <3>4 DEF Carries
  <2> QED
    BY <2>1, <2>2
<1> HIDE DEF w, t
<1> QED
  BY <1>1, <1>3, <1>4, StepArrives

LEMMA ForeignArrives ==
  ASSUME NInv, RInv', NEW l \in Link, Forward(l[1], l[2]) \/ Flood(l[1], l[2])
  PROVE  NInv'
<1> DEFINE i == get_peer_route(l[1], thread[l].route)
           at == IF i = 0 THEN 1 ELSE i
           w == [thread[l] EXCEPT !.pc = "send", !.at = at, !.one = i # 0]
<1>1. /\ l \in Thread /\ l = <<l[1], l[2]>> /\ l[1] \in Daemon
      /\ thread[l].pc = "foreign" /\ UNCHANGED <<wire, emitted>>
  BY Links DEF Forward, Flood, Goto
<1>2. thread' = [thread EXCEPT ![l] = w]
  <2>1. CASE Forward(l[1], l[2])
    BY <1>1, <2>1 DEF Forward, Goto
  <2>2. CASE Flood(l[1], l[2])
    BY <1>1, <2>2 DEF Flood, Goto
  <2> QED
    BY <2>1, <2>2
<1>3. /\ thread[l] \in Work /\ thread[l].pkt \in Packets
      /\ thread[l].route = thread[l].pkt.dst
      /\ thread[l].pkt.src # thread[l].pkt.dst
      /\ l[1] = Server => thread[l].pkt.dst # Server
  BY <1>1, RoutingAssumption DEF NInv, RInv, Typing, Fits, ForOwnHost
<1>4. /\ w.pc = "send" /\ w.pkt = thread[l].pkt
      /\ w.at = IF i = 0 THEN 1 ELSE i
      /\ w.one = (i # 0)
  BY <1>3 DEF Work
<1>5. IF i = 0 THEN Write(l[1], thread[l].pkt) ELSE UNCHANGED delivered
  BY <1>1 DEF Forward, Flood
<1>6. \A e \in Daemon : delivered[e] \subseteq delivered'[e]
  BY <1>1, <1>3, <1>5, WriteTyping DEF NInv, RInv
<1>7. ASSUME l[1] = thread[l].pkt.dst
      PROVE  thread[l].pkt \in delivered'[thread[l].pkt.dst]
  <2>1. i = 0
    <3> SUFFICES ASSUME i # 0 PROVE FALSE
      OBVIOUS
    <3>1. i \in 0..Len(peers(l[1])) /\ thread[l].route \in routes[<<l[1], peers(l[1])[i]>>]
      BY <1>1, Route
    <3> HIDE DEF i
    <3>2. <<l[1], peers(l[1])[i]>> \in Link
      BY <1>1, <3>1, Peers
    <3> QED
      BY <1>3, <1>7, <3>1, <3>2 DEF NInv, RInv, RoutesBelong
  <2> QED
    BY <1>1, <1>3, <1>5, <1>7, <2>1, WriteTyping DEF NInv, RInv
<1>8. ASSUME l = <<Server, thread[l].pkt.src>>
      PROVE  Carries(l, w)
  <2>1. w.pkt.dst # Server /\ w.pkt \in Packets /\ l[1] = Server /\ l[2] # w.pkt.dst
    BY <1>3, <1>4, <1>8
  <2>2. LET k == get_peer_route(Server, w.pkt.dst)
        IN  IF k = 0 THEN w.at = 1 /\ ~w.one ELSE w.at = k /\ w.one
    <3>1. get_peer_route(Server, w.pkt.dst) = i
      BY <1>3, <1>4, <2>1
    <3> HIDE DEF i, w
    <3> QED
      BY <1>4, <3>1
  <2> HIDE DEF w, i
  <2> QED
    BY <1>1, <1>4, <2>1, <2>2, ServerCarries DEF NInv
<1> HIDE DEF w
<1> QED
  BY <1>1, <1>2, <1>4, <1>6, <1>7, <1>8, StepArrives DEF Carries

LEMMA SendingArrives ==
  ASSUME NInv, RInv', NEW t \in Thread, Sending(t)
  PROVE  NInv'
<1> DEFINE n == Len(peers(t[1]))
           at == thread[t].at
           pkt == thread[t].pkt
           to(i) == <<t[1], peers(t[1])[i]>>
<1>1. /\ thread[t].pc = "send" /\ thread' = [thread EXCEPT ![t] = Sent(t)]
      /\ UNCHANGED <<emitted, delivered>>
  BY DEF Sending, Skip, Send, Goto
<1>2. /\ at \in 1..n /\ n \in Nat /\ to(at) \in Link
      /\ thread[t] \in Work
  BY <1>1, SentFits, Threads, Peers DEF NInv, RInv, Typing, Fits
\* The peer to which the packet is to go comes later in the list.
<1>3. ASSUME NEW i \in 1..n, i > at, ~thread[t].one, Leads(to(i), pkt), peers(t[1])[i] # t[2]
      PROVE  Sent(t).pkt = pkt /\ Carries(t, Sent(t))
  <2> DEFINE w == [thread[t] EXCEPT !.at = @ + 1]
  <2>1. Sent(t) = w
    BY <1>2, <1>3 DEF Sent
  <2>2. w.pc = "send" /\ w.pkt = pkt /\ w.at = at + 1 /\ w.one = thread[t].one
    BY <1>1, <1>2 DEF Work
  <2>3. i = at + 1 \/ i > at + 1
    BY <1>2, <1>3
  <2> HIDE DEF w
  <2> QED
    BY <1>3, <2>1, <2>2, <2>3 DEF Carries
<1>4. CASE Skip(t)
  <2>1. ~thread[t].one /\ peers(t[1])[at] = t[2] /\ UNCHANGED wire
    BY <1>4 DEF Skip, Excluded
  <2>2. Carries(t, thread[t]) => Sent(t).pkt = pkt /\ Carries(t, Sent(t))
    <3> SUFFICES ASSUME Carries(t, thread[t]) PROVE Sent(t).pkt = pkt /\ Carries(t, Sent(t))
      OBVIOUS
    <3>1. PICK i \in 1..n : /\ i = at \/ i > at
                            /\ Leads(to(i), pkt) /\ peers(t[1])[i] # t[2]
      BY <1>1, <2>1 DEF Carries
    <3> QED
      BY <1>3, <2>1, <3>1
  <2> QED
    BY <1>1, <2>1, <2>2, StepArrives
<1>5. CASE Send(t)
  <2>1. /\ wire' = [wire EXCEPT ![to(at)] = Append(@, pkt)]
        /\ wire \in [Link -> Seq(Packets)] /\ pkt \in Packets
    BY <1>1, <1>5 DEF Send, NInv, RInv, Typing, TypeOK, Fits
  <2> DEFINE l == to(at)
  <2> HIDE DEF pkt, l
  <2>2. /\ wire'[l] = Append(wire[l], pkt) /\ wire[l] \in Seq(Packets) /\ l \in Link
        /\ \A k \in Link : k # l => wire'[k] = wire[k]
    BY <1>2, <2>1 DEF l
  <2>3. ToSet(wire'[l]) = ToSet(wire[l]) \cup {pkt}
    <3>1. wire[l] \in Seq(Packets) /\ pkt \in Packets
      BY <2>1, <2>2
    <3>2. ToSet(Append(wire[l], pkt)) = ToSet(wire[l]) \cup {pkt}
      BY <3>1, AllAndLast
    <3> QED
      BY <2>2, <3>2
  <2>4. \A k \in Link : ToSet(wire[k]) \subseteq ToSet(wire'[k])
    BY <2>2, <2>3
  <2>5. Carries(t, thread[t]) =>
          \/ Sent(t).pkt = pkt /\ Carries(t, Sent(t))
          \/ \E k \in Link : pkt \in ToSet(wire'[k]) /\ Leads(k, pkt)
    <3> SUFFICES ASSUME Carries(t, thread[t])
                 PROVE  \/ Sent(t).pkt = pkt /\ Carries(t, Sent(t))
                        \/ \E k \in Link : pkt \in ToSet(wire'[k]) /\ Leads(k, pkt)
      OBVIOUS
    <3>1. PICK i \in 1..n : /\ i = at \/ (~thread[t].one /\ i > at)
                            /\ Leads(to(i), pkt)
                            /\ thread[t].one \/ peers(t[1])[i] # t[2]
      BY <1>1 DEF Carries, pkt
    <3>2. CASE i = at
      BY <2>2, <2>3, <3>1, <3>2 DEF l
    <3>3. CASE i # at
      BY <1>3, <3>1, <3>3 DEF pkt
    <3> QED
      BY <3>2, <3>3
  <2> QED
    BY <1>1, <2>4, <2>5, StepArrives DEF pkt
<1> QED
  BY <1>4, <1>5 DEF Sending

LEMMA NStep ==
  ASSUME NInv, [Next]_vars
  PROVE  NInv'
<1>1. RInv'
  BY RStep DEF NInv
<1>2. ASSUME NEW d \in Daemon, TunThread(d) PROVE NInv'
  BY <1>1, <1>2, RouteTunArrives, ReadTunArrives DEF TunThread
<1>3. ASSUME NEW l \in Link, ReceiveThread(l[1], l[2]) PROVE NInv'
  BY <1>1, <1>3, ReceiveArrives, DeliverArrives, FindUnknownArrives, ForeignArrives
     DEF ReceiveThread
<1>4. ASSUME NEW t \in Thread, Sending(t) PROVE NInv'
  BY <1>1, <1>4, SendingArrives
<1>5. CASE UNCHANGED vars
  BY <1>1, <1>5 DEF vars, NInv, Arrives, Carries, Leads, peers
<1> QED
  BY <1>2, <1>3, <1>4, <1>5 DEF Next

\* Theorem: once the server's host has sent a packet no packet of any host is lost: when
\* nothing is on its way any more all have been written to the device of their
\* destination, whichever detours they were sent on (peer.c:287-294, peer_net.c:181-217).
THEOREM NoneLost ==
  ASSUME Server \in Warm
  PROVE  Spec => []Delivered
<1>1. Init => NInv
  BY RInit DEF Init, NInv
<1>2. NInv /\ [Next]_vars => NInv'
  BY NStep
<1>3. NInv => Delivered
  BY DEF NInv, Delivered, Quiet, Arrives, Carries, ToSet
<1> QED
  BY <1>1, <1>2, <1>3, PTL DEF Spec
=============================================================================
