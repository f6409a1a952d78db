------------------------------ MODULE RouteBook ------------------------------
(***************************************************************************)
(* What the routes of a daemon promise: a set of addresses of its own host *)
(* and a set for each peer, in which its threads look up the addresses of  *)
(* the packets at hand.  Netroute implements it with lists of struct       *)
(* netroute.                                                               *)
(***************************************************************************)
CONSTANTS
  Address,  \* what can be an address on the VPN
  Packet,   \* packets, with the addresses src and dst; both None: not an IP packet
  Peer,     \* the peers of the daemon; each stands for its receive thread too
  Tun,      \* the tun thread
  None      \* no address, no packet, nobody

VARIABLES
  local,  \* addresses of this host
  known,  \* addresses learned from each peer
  task,   \* what each thread does with its packet, and which address it looks up
  last,   \* the address the tun thread looked up last
  answer  \* to whom the address of the last lookup belongs

vars == <<local, known, task, last, answer>>

Idle == [step |-> "idle", pkt |-> None, addr |-> None]

Init ==
  /\ local = {}
  /\ known = [p \in Peer |-> {}]
  /\ task = [t \in Peer \cup {Tun} |-> Idle]
  /\ last \in Address
  /\ answer = None

Or(addr, other) == IF addr = None THEN other ELSE addr

\* The host sends a packet: its source is an address of the host, its destination is
\* looked up.  If the packet is not IP the last address takes the place of both.
Read(pkt) ==
  LET destination == Or(pkt.dst, last) IN
  /\ task[Tun].step = "idle"
  /\ local' = local \cup {Or(pkt.src, last)}
  /\ task' = [task EXCEPT ![Tun] = [step |-> "route", pkt |-> pkt, addr |-> destination]]
  /\ last' = destination
  /\ UNCHANGED <<known, answer>>

\* A peer sends a packet: if it is for this host its source is looked up, otherwise
\* its destination.  If it is not IP some address takes the place of both.
Receive(p, pkt) ==
  /\ task[p].step = "idle"
  /\ \E b \in IF pkt.dst = None THEN Address ELSE {pkt.dst} :
       task' = [task EXCEPT ![p] =
         IF b \in local
         THEN [step |-> "learn", pkt |-> pkt, addr |-> Or(pkt.src, b)]
         ELSE [step |-> "route", pkt |-> pkt, addr |-> b]]
  /\ UNCHANGED <<local, known, last, answer>>

\* The address is one of peer q's.
LookupFinds(t, q) ==
  /\ task[t].step \in {"learn", "route"}
  /\ task[t].addr \in known[q]
  /\ task' = [task EXCEPT ![t] = Idle]
  /\ answer' = q
  /\ UNCHANGED <<local, known, last>>

\* The address is nobody's: it will be learned, or the packet is for all peers.
LookupFails(t) ==
  /\ task[t].step \in {"learn", "route"}
  /\ \A q \in Peer : task[t].addr \notin known[q]
  /\ task' = [task EXCEPT ![t] = IF @.step = "learn" THEN [@ EXCEPT !.step = "add"]
                                 ELSE Idle]
  /\ answer' = None
  /\ UNCHANGED <<local, known, last>>

Learn(p) ==
  /\ task[p].step = "add"
  /\ known' = [known EXCEPT ![p] = @ \cup {task[p].addr}]
  /\ task' = [task EXCEPT ![p] = Idle]
  /\ UNCHANGED <<local, last, answer>>

\* The connection is replaced by another one.
Forget(p) ==
  /\ task[p].step = "idle"
  /\ known' = [known EXCEPT ![p] = {}]
  /\ UNCHANGED <<local, task, last, answer>>

Next ==
  \/ \E pkt \in Packet : Read(pkt)
  \/ \E p \in Peer : Learn(p) \/ Forget(p) \/ \E pkt \in Packet : Receive(p, pkt)
  \/ \E t \in Peer \cup {Tun} : LookupFails(t) \/ \E q \in Peer : LookupFinds(t, q)

Spec == Init /\ [][Next]_vars
=============================================================================
