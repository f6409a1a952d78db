------------------------------ MODULE MCRouting ------------------------------
(***************************************************************************)
(* Small instances of Routing.                                             *)
(***************************************************************************)
EXTENDS Routing

CONSTANTS s, c1, c2, c3, c4, none

From(a, b) == [src |-> a, dst |-> b]

TwoClients == <<c1, c2>>
FourClients == <<c1, c2, c3, c4>>

\* Two clients and the server: everybody sends to everybody else, once.
AllPairs ==
  {From(a, b) : a \in {s, c1, c2}, b \in {s, c1, c2}} \ {From(a, a) : a \in {s, c1, c2}}

\* The server's host does not send to c2, which may learn of it as it forwards.
FivePairs == AllPairs \ {From(s, c2)}

\* c1's host does not send to the server's, which sends to it.
FiveOthers == AllPairs \ {From(c1, s)}

\* Client c1's host has exchanged packets with the server's before.
FirstKnows == {<<c1, s>>}

NobodyKnown == {}

\* One packet to a client all others have heard from before.
OnePacket == {From(c1, c4)}
FourthKnown == {<<c1, c4>>, <<c2, c4>>, <<c3, c4>>}
=============================================================================
