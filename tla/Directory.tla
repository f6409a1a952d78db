------------------------------ MODULE Directory ------------------------------
(***************************************************************************)
(* What the list of peers promises to the threads that look up whom to     *)
(* send a packet to: a set of connections, each with its socket, whether   *)
(* it is authenticated and the addresses it has taught.  A connection      *)
(* appears once, with nothing of an earlier one, and vanishes at once.     *)
(* PeerTable implements it with slots that are reset field by field.       *)
(***************************************************************************)
CONSTANTS
  Place,   \* where an entry can be
  Conn,    \* the connections; each stands for the addresses it teaches too
  Socket   \* their sockets

VARIABLES
  listing,  \* the entries
  admitted  \* the connections that have an entry or had one

vars == <<listing, admitted>>

Entry == [place : Place, conn : Conn, socket : Socket,
          authenticated : BOOLEAN, routes : SUBSET Conn]

Init == listing = {} /\ admitted = {}

Appear(p, c, f) ==
  /\ c \notin admitted
  /\ \A e \in listing : e.place # p
  /\ listing' = listing \cup
       {[place |-> p, conn |-> c, socket |-> f, authenticated |-> FALSE, routes |-> {}]}
  /\ admitted' = admitted \cup {c}

Change(e, g) ==
  /\ listing' = (listing \ {e}) \cup {g}
  /\ UNCHANGED admitted

Authenticate(e) ==
  /\ ~e.authenticated
  /\ Change(e, [e EXCEPT !.authenticated = TRUE])

\* Only who is authenticated teaches addresses.
Learn(e) ==
  /\ e.authenticated
  /\ Change(e, [e EXCEPT !.routes = @ \cup {e.conn}])

Vanish(e) ==
  /\ listing' = listing \ {e}
  /\ UNCHANGED admitted

Next ==
  \/ \E p \in Place, c \in Conn, f \in Socket : Appear(p, c, f)
  \/ \E e \in listing : Authenticate(e) \/ Learn(e) \/ Vanish(e)

Spec == Init /\ [][Next]_vars

\* Each connection has one entry and each place one, and packets are only routed to
\* who has authenticated and taught their address.
Sound ==
  /\ \A e, g \in listing : e.place = g.place \/ e.conn = g.conn => e = g
  /\ \A e \in listing : e.routes \subseteq {e.conn} /\ (e.routes # {} => e.authenticated)
=============================================================================
