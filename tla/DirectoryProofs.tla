--------------------------- MODULE DirectoryProofs ---------------------------
(***************************************************************************)
(* Proofs, for any number of connections, slots and descriptors, that the  *)
(* slots of PeerTable implement the entries of Directory, and of what a    *)
(* Directory promises.                                                     *)
(*                                                                         *)
(* The argument.  A slot is only reset while it is dead, so the stores of  *)
(* set_peer_info change no entry but the last, alive = true, with which    *)
(* the whole entry appears; then only the connection in the slot changes   *)
(* it, one field with one store; and the first store when it ends makes    *)
(* it vanish.                                                              *)
(***************************************************************************)
EXTENDS PeerTableProofs

\* Expanded everywhere, as in PeerTableProofs.
USE DEF Goto, peers

\* What an entry consists of, and how that relates to a slot.
Item(p, c, f, a, r) ==
  [place |-> p, conn |-> c, socket |-> f, authenticated |-> a, routes |-> r]

EntryOf(p) == Item(p, PeerAt(p), s[p], authenticated[p], routes[p])

LEMMA Items ==
  /\ \A p, c, f, a, r : Item(p, c, f, a, r).place = p
  /\ \A p, c, f, a, r : Item(p, c, f, a, r).conn = c
  /\ \A p, c, f, a, r : Item(p, c, f, a, r).authenticated = a
  /\ \A p, c, f, a, r : Item(p, c, f, a, r).routes = r
  /\ \A p, c, f, a, r, b :
       [Item(p, c, f, a, r) EXCEPT !.authenticated = b] = Item(p, c, f, b, r)
  /\ \A p, c, f, a, r, b :
       [Item(p, c, f, a, r) EXCEPT !.routes = b] = Item(p, c, f, a, b)
BY DEF Item

LEMMA ListingIs ==
  /\ Listing = {EntryOf(p) : p \in AliveSlots}
  /\ Listing' = {EntryOf(p)' : p \in AliveSlots'}
BY DEF Listing, EntryOf, Item

LEMMA Fields ==
  ASSUME NEW p
  PROVE  /\ EntryOf(p).place = p
         /\ EntryOf(p).authenticated = authenticated[p]
         /\ \A b : [EntryOf(p) EXCEPT !.authenticated = b] = Item(p, PeerAt(p), s[p], b, routes[p])
         /\ [EntryOf(p) EXCEPT !.routes = @ \cup {EntryOf(p).conn}]
              = Item(p, PeerAt(p), s[p], authenticated[p], routes[p] \cup {PeerAt(p)})
<1> DEFINE e == EntryOf(p)
<1>1. e = Item(p, PeerAt(p), s[p], authenticated[p], routes[p])
  BY DEF EntryOf
<1> HIDE DEF e
<1>2. /\ e.place = p /\ e.conn = PeerAt(p)
      /\ e.authenticated = authenticated[p] /\ e.routes = routes[p]
  BY <1>1, Items
<1>3. \A b : [e EXCEPT !.authenticated = b] = Item(p, PeerAt(p), s[p], b, routes[p])
  BY <1>1, Items
<1>4. \A b : [e EXCEPT !.routes = b] = Item(p, PeerAt(p), s[p], authenticated[p], b)
  BY <1>1, Items
<1>5. [e EXCEPT !.routes = @ \cup {e.conn}]
        = Item(p, PeerAt(p), s[p], authenticated[p], routes[p] \cup {PeerAt(p)})
  BY <1>2, <1>4
<1> QED
  BY <1>2, <1>3, <1>5 DEF e

-----------------------------------------------------------------------------
(***************************************************************************)
(* Who serves a slot, and the last of the invariant.                       *)
(***************************************************************************)

\* A connection that is past accept() has a descriptor, and one that receives data
\* packets has been authenticated.
Receiving ==
  /\ \A c \in Conn : pc[c] # "idle" => fd[c] \in Fd
  /\ \A c \in Conn : pc[c] = "recv" => authenticated[slot[c]]

LEMMA ReceivingStep ==
  ASSUME IInv, Receiving, NEW c \in Conn, Step(c)
  PROVE  Receiving'
<1>1. /\ pc \in [Conn -> PC] /\ fd \in [Conn -> Fd \cup {None}]
      /\ authenticated \in [Slot -> BOOLEAN] /\ slot \in [Conn -> 0..MaxSlots]
  BY DEF IInv, TypeOK
<1>2. ASSUME NEW d \in Conn, pc'[d] # "idle"
      PROVE  fd'[d] \in Fd
  <2>1. CASE Accept(c)
    BY <1>1, <1>2, <2>1 DEF Accept, Receiving
  <2>2. CASE ~Accept(c)
    <3>1. pc[d] # "idle"
      BY <1>1, <1>2, <2>2, Moves DEF IInv, ScanReuse, ScanAppend, ResetFree, ResetClear, Revive,
         MarkDead, CloseSocket
    <3>2. UNCHANGED fd
      BY <2>2 DEF Step, MainThread, PeerThreads, Environment, ScanNext, ScanReuse, ScanAppend,
         ResetFree, ResetClear, Revive, SetAuthenticated, CtxFail, EndReceive, MarkDead,
         CloseSocket, RecvKey, InitCtx, AuthReject, AddRoute, RemoteEnd
    <3> QED
      BY <3>1, <3>2 DEF Receiving
  <2> QED
    BY <2>1, <2>2
<1>3. ASSUME NEW d \in Conn, pc'[d] = "recv"
      PROVE  authenticated'[slot'[d]]
  <2>1. CASE SetAuthenticated(c) /\ d = c
    <3>1. slot[c] \in Slot
      BY <2>1, GivenSlot DEF IInv, SetAuthenticated
    <3> QED
      BY <1>1, <2>1, <3>1 DEF SetAuthenticated
  <2>2. CASE ~(SetAuthenticated(c) /\ d = c)
    <3>1. pc[d] = "recv"
      BY <1>1, <1>3, <2>2 DEF Step, MainThread, PeerThreads, Environment, Accept, ScanNext,
         ScanReuse, ScanAppend, ResetFree, ResetClear, Revive, SetAuthenticated, CtxFail,
         EndReceive, MarkDead, CloseSocket, RecvKey, InitCtx, AuthReject, AddRoute, RemoteEnd
    <3>2. CASE d # c
      BY <3>1, <3>2, OtherSlots DEF IInv, Receiving, Writes, Serving
    <3>3. CASE d = c
      <4>1. UNCHANGED <<slot, authenticated>>
        BY <3>1, <3>3, Writers DEF ScanReuse, ScanAppend, ResetClear, SetAuthenticated
      <4> QED
        BY <3>1, <4>1 DEF Receiving
    <3> QED
      BY <3>2, <3>3
  <2> QED
    BY <2>1, <2>2
<1> QED
  BY <1>2, <1>3 DEF Receiving

\* The CHOOSE of PeerAt in a state with these counters and positions.
LEMMA OnlyServer ==
  ASSUME NEW counter, NEW position, NEW c \in Conn, counter[c] \in Serving,
         \A d, e \in Conn : counter[d] \in Serving /\ counter[e] \in Serving
                            /\ position[d] = position[e] => d = e
  PROVE  (CHOOSE d \in Conn : counter[d] \in Serving /\ position[d] = position[c]) = c
OBVIOUS

LEMMA PeerAtServer ==
  ASSUME NEW c \in Conn, NEW p
  PROVE  /\ SlotExclusive /\ pc[c] \in Serving /\ slot[c] = p => PeerAt(p) = c
         /\ SlotExclusive' /\ pc'[c] \in Serving /\ slot'[c] = p => PeerAt(p)' = c
<1>1. ASSUME SlotExclusive, pc[c] \in Serving, slot[c] = p PROVE PeerAt(p) = c
  <2>1. \A d, e \in Conn : pc[d] \in Serving /\ pc[e] \in Serving /\ slot[d] = slot[e] => d = e
    BY <1>1 DEF SlotExclusive, Writes
  <2> QED
    BY <1>1, <2>1, OnlyServer DEF PeerAt
<1>2. ASSUME SlotExclusive', pc'[c] \in Serving, slot'[c] = p PROVE PeerAt(p)' = c
  <2>1. \A d, e \in Conn :
          pc'[d] \in Serving /\ pc'[e] \in Serving /\ slot'[d] = slot'[e] => d = e
    BY <1>2 DEF SlotExclusive, Writes
  <2> QED
    BY <1>2, <2>1, OnlyServer DEF PeerAt
<1> QED
  BY <1>1, <1>2

LEMMA ServerOf ==
  ASSUME IInv, NEW p \in AliveSlots
  PROVE  /\ p \in Slot /\ p \in 1..npeers /\ alive[p]
         /\ \E d \in Conn : pc[d] \in Serving /\ slot[d] = p /\ PeerAt(p) = d
<1>1. p \in 1..npeers /\ alive[p]
  BY DEF AliveSlots
<1>2. p \in Slot
  BY <1>1, PeerTableAssumption DEF IInv, TypeOK, Slot
<1>3. PICK d \in Conn : pc[d] \in Serving /\ slot[d] = p
  BY <1>1, Server
<1>4. PeerAt(p) = d
  BY <1>3, PeerAtServer DEF IInv
<1> QED
  BY <1>1, <1>2, <1>3, <1>4

\* A slot that stays alive stays with its connection and socket; only that connection
\* changes what the slot says of it, and only in these two steps.
LEMMA EntryKept ==
  ASSUME IInv, IInv', NEW c \in Conn, Step(c), NEW p \in AliveSlots, p \in AliveSlots'
  PROVE  /\ PeerAt(p)' = PeerAt(p) /\ s'[p] = s[p]
         /\ authenticated'[p] # authenticated[p] => SetAuthenticated(c) /\ slot[c] = p
         /\ routes'[p] # routes[p] => AddRoute(c) /\ slot[c] = p
<1>1. PICK d \in Conn : pc[d] \in Serving /\ slot[d] = p /\ PeerAt(p) = d /\ p \in Slot
                      /\ alive[p]
  BY ServerOf
<1>2. /\ s \in [Slot -> Fd \cup {None}] /\ npeers \in Nat /\ slot \in [Conn -> 0..MaxSlots]
      /\ authenticated \in [Slot -> BOOLEAN] /\ routes \in [Slot -> SUBSET Conn]
      /\ pc \in [Conn -> PC] /\ alive \in [Slot -> BOOLEAN] /\ alive'[p]
  BY DEF IInv, TypeOK, AliveSlots
<1>3. pc'[d] \in Serving /\ slot'[d] = p
  <2>1. CASE d # c
    BY <1>1, <2>1, OtherSlots DEF IInv, Writes
  <2>2. CASE d = c
    <3>1. ~MarkDead(c)
      BY <1>1, <1>2, <2>2 DEF MarkDead
    <3>2. UNCHANGED slot
      BY <1>1, <2>2, Writers DEF ScanReuse, ScanAppend, Serving
    <3>3. pc'[c] \in Serving
      BY <1>1, <1>2, <2>2, <3>1, Moves DEF IInv, Accept, ScanReuse, ScanAppend, ResetFree,
         ResetClear, Revive, CloseSocket, Serving
    <3> QED
      BY <1>1, <2>2, <3>2, <3>3
  <2> QED
    BY <2>1, <2>2
<1>4. PeerAt(p)' = d
  BY <1>3, PeerAtServer DEF IInv
<1>5. p # npeers + 1 /\ ~(pc[c] \in {"free", "clear", "revive"} /\ slot[c] = p)
  <2>1. p \in 1..npeers
    BY ServerOf
  <2> QED
    BY <1>1, <1>2, <2>1 DEF IInv, DeadWhileReset
<1>6. s'[p] = s[p]
  BY <1>1, <1>2, <1>5 DEF Step, MainThread, PeerThreads, Environment, Accept, ScanNext, ScanReuse,
     ScanAppend, ResetFree, ResetClear, Revive, SetAuthenticated, CtxFail, EndReceive, MarkDead,
     CloseSocket, RecvKey, InitCtx, AuthReject, AddRoute, RemoteEnd
<1>7. authenticated'[p] # authenticated[p] => SetAuthenticated(c) /\ slot[c] = p
  BY <1>1, <1>2, <1>5, Writers DEF ResetClear, SetAuthenticated
<1>8. routes'[p] # routes[p] => AddRoute(c) /\ slot[c] = p
  BY <1>1, <1>2, <1>5, Writers DEF ResetClear, AddRoute
<1> QED
  BY <1>1, <1>4, <1>6, <1>7, <1>8

\* Which connections have been admitted, and which slots are alive, after a step.
LEMMA AdmittedStep ==
  ASSUME TypeOK, NEW c \in Conn, Step(c)
  PROVE  IF ScanAppend(c) \/ Revive(c) THEN Admitted' = Admitted \cup {c} /\ c \notin Admitted
         ELSE Admitted' = Admitted
<1>1. pc \in [Conn -> PC]
  BY DEF TypeOK
<1>2. CASE ScanAppend(c) \/ Revive(c)
  BY <1>1, <1>2 DEF ScanAppend, Revive, Admitted, Serving
<1>3. CASE ~(ScanAppend(c) \/ Revive(c))
  <2>1. \A d \in Conn : pc'[d] \in Serving \cup {"closing", "closed"}
                         <=> pc[d] \in Serving \cup {"closing", "closed"}
    BY <1>1, <1>3, Moves DEF Accept, ScanReuse, ResetFree, ResetClear, MarkDead, CloseSocket,
       Serving
  <2> QED
    BY <1>3, <2>1 DEF Admitted
<1> QED
  BY <1>2, <1>3

LEMMA AliveStep ==
  ASSUME TypeOK, SlotGiven, DeadWhileReset, NEW c \in Conn, Step(c)
  PROVE  /\ ScanAppend(c) \/ Revive(c) =>
              /\ slot'[c] \in Slot /\ slot'[c] \notin AliveSlots
              /\ AliveSlots' = AliveSlots \cup {slot'[c]}
         /\ MarkDead(c) => slot[c] \in Slot /\ AliveSlots' = AliveSlots \ {slot[c]}
         /\ ~(ScanAppend(c) \/ Revive(c) \/ MarkDead(c)) => AliveSlots' = AliveSlots
<1>1. /\ npeers \in Nat /\ slot \in [Conn -> 0..MaxSlots] /\ alive \in [Slot -> BOOLEAN]
      /\ npeers \in 0..MaxSlots /\ MaxSlots \in Nat
      /\ \A n \in 1..npeers : n \in Slot
  BY PeerTableAssumption DEF TypeOK, Slot
<1>2. CASE ScanAppend(c)
  <2>1. /\ npeers + 1 \in Slot /\ npeers' = npeers + 1 /\ slot'[c] = npeers + 1
        /\ alive' = [alive EXCEPT ![npeers + 1] = TRUE]
    BY <1>1, <1>2 DEF ScanAppend, Slot
  <2>2. 1..npeers + 1 = (1..npeers) \cup {npeers + 1} /\ npeers + 1 \notin 1..npeers
    BY <1>1
  <2>3. \A q \in 1..npeers : alive'[q] = alive[q]
    BY <1>1, <2>1, <2>2
  <2>4. alive'[npeers + 1]
    BY <1>1, <2>1
  <2> QED
    BY <1>2, <2>1, <2>2, <2>3, <2>4 DEF AliveSlots, MarkDead, ScanAppend
<1>3. CASE Revive(c)
  <2>1. /\ slot[c] \in 1..npeers /\ slot[c] \in Slot /\ ~alive[slot[c]] /\ UNCHANGED <<npeers, slot>>
        /\ alive' = [alive EXCEPT ![slot[c]] = TRUE] /\ ~MarkDead(c)
    BY <1>1, <1>3, GivenSlot DEF Revive, DeadWhileReset, MarkDead
  <2> QED
    BY <1>1, <1>3, <2>1 DEF AliveSlots
<1>4. CASE MarkDead(c)
  <2>1. /\ slot[c] \in 1..npeers /\ slot[c] \in Slot /\ UNCHANGED npeers
        /\ alive' = [alive EXCEPT ![slot[c]] = FALSE]
        /\ ~ScanAppend(c) /\ ~Revive(c)
    BY <1>1, <1>4, GivenSlot DEF MarkDead, ScanAppend, Revive
  <2> QED
    BY <1>1, <1>4, <2>1 DEF AliveSlots
<1>5. CASE ~(ScanAppend(c) \/ Revive(c) \/ MarkDead(c))
  <2>1. UNCHANGED <<alive, npeers>>
    BY <1>5, Writers DEF ScanReuse
  <2> QED
    BY <1>5, <2>1 DEF AliveSlots
<1> QED
  BY <1>2, <1>3, <1>4, <1>5

-----------------------------------------------------------------------------
(***************************************************************************)
(* Each step of the table is one of the directory, or changes no entry.    *)
(***************************************************************************)

\* create_peer, or the last store of set_peer_info.
LEMMA AppearStep ==
  ASSUME IInv, IInv', Receiving, NEW c \in Conn, Step(c), ScanAppend(c) \/ Revive(c)
  PROVE  \E p \in Slot, f \in Fd : D!Appear(p, c, f)
<1> PICK p \in Slot : p = slot'[c]
  BY AliveStep DEF IInv
<1>1. /\ p \notin AliveSlots /\ AliveSlots' = AliveSlots \cup {p}
      /\ Admitted' = Admitted \cup {c} /\ c \notin Admitted
  BY AliveStep, AdmittedStep DEF IInv
<1>2. \A q \in AliveSlots : EntryOf(q)' = EntryOf(q)
  <2>1. ~SetAuthenticated(c) /\ ~AddRoute(c)
    BY DEF ScanAppend, Revive, SetAuthenticated, AddRoute
  <2> QED
    BY <1>1, <2>1, EntryKept DEF EntryOf
<1>3. PeerAt(p)' = c /\ s'[p] = fd[c] /\ ~authenticated'[p] /\ routes'[p] = {}
  <2>1. pc'[c] \in Serving /\ pc'[c] = "auth"
    BY DEF ScanAppend, Revive, Serving, IInv, TypeOK
  <2>2. \A q : slot'[c] = q => PeerAt(q)' = c
    BY <2>1, PeerAtServer DEF IInv
  <2>3. ~authenticated'[p] /\ routes'[p] = {}
    BY <2>1 DEF IInv, Cleared
  <2>4. s'[p] = fd[c]
    <3>1. s \in [Slot -> Fd \cup {None}] /\ npeers \in Nat /\ slot \in [Conn -> 0..MaxSlots]
      BY DEF IInv, TypeOK
    <3> QED
      BY <1>1, <3>1 DEF ScanAppend, Revive
  <2> QED
    BY <2>2, <2>3, <2>4
<1>4. fd[c] \in Fd
  BY DEF Receiving, ScanAppend, Revive
<1>5. authenticated'[p] = FALSE
  BY <1>1, <1>3 DEF IInv, TypeOK
<1>6. EntryOf(p)' = Item(p, c, fd[c], FALSE, {})
  BY <1>3, <1>5 DEF EntryOf
<1>7. Listing' = Listing \cup {Item(p, c, fd[c], FALSE, {})}
  <2>1. Listing' = {EntryOf(q)' : q \in AliveSlots \cup {p}}
    BY <1>1, ListingIs
  <2> QED
    BY <1>2, <1>6, <2>1, ListingIs
<1>8. \A e \in Listing : e.place # p
  BY <1>1, Items, ListingIs DEF EntryOf
<1> QED
  BY <1>1, <1>4, <1>7, <1>8 DEF D!Appear, Item

\* _peer_connection: alive = false.
LEMMA VanishStep ==
  ASSUME IInv, IInv', NEW c \in Conn, Step(c), MarkDead(c)
  PROVE  \E e \in Listing : D!Vanish(e)
<1> PICK p \in Slot : p = slot[c]
  BY GivenSlot DEF IInv, MarkDead
<1>1. AliveSlots' = AliveSlots \ {p} /\ Admitted' = Admitted
  <2>1. ~ScanAppend(c) /\ ~Revive(c)
    BY DEF MarkDead, ScanAppend, Revive
  <2> QED
    BY <2>1, AliveStep, AdmittedStep DEF IInv
<1>2. p \in AliveSlots
  BY GivenSlot DEF IInv, AliveSlots, MarkDead, AliveIsServed, Serving
<1>3. \A q \in AliveSlots \ {p} : EntryOf(q)' = EntryOf(q)
  <2>1. ~SetAuthenticated(c) /\ ~AddRoute(c)
    BY DEF MarkDead, SetAuthenticated, AddRoute
  <2> QED
    BY <1>1, <2>1, EntryKept DEF EntryOf
<1>4. \A q : q # p => EntryOf(q) # EntryOf(p)
  BY Items DEF EntryOf
<1>5. Listing' = Listing \ {EntryOf(p)}
  <2>1. Listing' = {EntryOf(q)' : q \in AliveSlots \ {p}}
    BY <1>1, ListingIs
  <2> QED
    BY <1>2, <1>3, <1>4, <2>1, ListingIs
<1>6. EntryOf(p) \in Listing
  BY <1>2, ListingIs
<1> QED
  BY <1>1, <1>5, <1>6 DEF D!Vanish

\* A change of one field of one entry.
LEMMA FieldStep ==
  ASSUME IInv, IInv', NEW c \in Conn, Step(c), NEW p \in AliveSlots, AliveSlots' = AliveSlots,
         \A q \in AliveSlots \ {p} : EntryOf(q)' = EntryOf(q), Admitted' = Admitted
  PROVE  /\ \A g : EntryOf(p)' = g => D!Change(EntryOf(p), g)
         /\ EntryOf(p) \in Listing
<1>1. \A q : q # p => EntryOf(q) # EntryOf(p)
  BY Items DEF EntryOf
<1>2. Listing' = {EntryOf(q)' : q \in AliveSlots}
  BY ListingIs
<1>3. Listing' = (Listing \ {EntryOf(p)}) \cup {EntryOf(p)'}
  BY <1>1, <1>2, ListingIs
<1>4. EntryOf(p) \in Listing
  BY ListingIs
<1> QED
  BY <1>3, <1>4 DEF D!Change

\* authenticate_peer has set up both contexts.
LEMMA AuthenticateStep ==
  ASSUME IInv, IInv', NEW c \in Conn, Step(c), SetAuthenticated(c)
  PROVE  \E e \in Listing : D!Authenticate(e)
<1> PICK p \in Slot : p = slot[c]
  BY GivenSlot DEF IInv, SetAuthenticated
<1>1. p \in AliveSlots
  BY GivenSlot DEF IInv, AliveSlots, SetAuthenticated, AliveIsServed, Serving
<1>2. AliveSlots' = AliveSlots /\ Admitted' = Admitted
  <2>1. ~ScanAppend(c) /\ ~Revive(c) /\ ~MarkDead(c)
    BY DEF MarkDead, ScanAppend, Revive, SetAuthenticated
  <2> QED
    BY <2>1, AliveStep, AdmittedStep DEF IInv
<1>3. ~AddRoute(c)
  BY DEF SetAuthenticated, AddRoute
<1>4. \A q \in AliveSlots \ {p} : EntryOf(q)' = EntryOf(q)
  BY <1>2, <1>3, EntryKept DEF EntryOf
<1>5. PeerAt(p)' = PeerAt(p) /\ s'[p] = s[p] /\ routes'[p] = routes[p]
  BY <1>1, <1>2, <1>3, EntryKept
<1>6. authenticated[p] = FALSE /\ authenticated'[p] = TRUE
  BY <1>1 DEF IInv, TypeOK, Cleared, SetAuthenticated
<1>7. (\A g : EntryOf(p)' = g => D!Change(EntryOf(p), g)) /\ EntryOf(p) \in Listing
  BY <1>1, <1>2, <1>4, FieldStep
<1>8. EntryOf(p)' = [EntryOf(p) EXCEPT !.authenticated = TRUE]
  <2>1. UNCHANGED slot
    BY DEF SetAuthenticated
  <2>2. EntryOf(p)' = Item(p, PeerAt(p), s[p], TRUE, routes[p])
    BY <1>5, <1>6, <2>1 DEF EntryOf
  <2>3. [EntryOf(p) EXCEPT !.authenticated = TRUE] = Item(p, PeerAt(p), s[p], TRUE, routes[p])
    BY Fields, Zenon
  <2> QED
    BY <2>2, <2>3, Zenon
<1>9. ~EntryOf(p).authenticated
  BY <1>6, Items DEF EntryOf
<1> QED
  BY <1>7, <1>8, <1>9, Zenon DEF D!Authenticate

\* A data packet has come from the connection.
LEMMA LearnStep ==
  ASSUME IInv, IInv', Receiving, NEW c \in Conn, Step(c), AddRoute(c)
  PROVE  \E e \in Listing : D!Learn(e)
<1> PICK p \in Slot : p = slot[c]
  BY GivenSlot DEF IInv, AddRoute
<1>1. p \in AliveSlots
  BY GivenSlot DEF IInv, AliveSlots, AddRoute, AliveIsServed, Serving
<1>2. AliveSlots' = AliveSlots /\ Admitted' = Admitted
  <2>1. ~ScanAppend(c) /\ ~Revive(c) /\ ~MarkDead(c)
    BY DEF MarkDead, ScanAppend, Revive, AddRoute
  <2> QED
    BY <2>1, AliveStep, AdmittedStep DEF IInv
<1>3. ~SetAuthenticated(c)
  BY DEF SetAuthenticated, AddRoute
<1>4. \A q \in AliveSlots \ {p} : EntryOf(q)' = EntryOf(q)
  BY <1>2, <1>3, EntryKept DEF EntryOf
<1>5. /\ PeerAt(p)' = PeerAt(p) /\ s'[p] = s[p] /\ authenticated'[p] = authenticated[p]
      /\ PeerAt(p) = c
  BY <1>1, <1>2, <1>3, EntryKept, PeerAtServer DEF IInv, AddRoute, Serving
<1>6. authenticated[p] = TRUE /\ routes'[p] = routes[p] \cup {c}
  BY <1>1 DEF IInv, TypeOK, Receiving, AddRoute
<1>7. (\A g : EntryOf(p)' = g => D!Change(EntryOf(p), g)) /\ EntryOf(p) \in Listing
  BY <1>1, <1>2, <1>4, FieldStep
<1>8. EntryOf(p)' = [EntryOf(p) EXCEPT !.routes = @ \cup {EntryOf(p).conn}]
  <2>1. UNCHANGED slot
    BY DEF AddRoute
  <2>2. EntryOf(p)' = Item(p, PeerAt(p), s[p], authenticated[p], routes[p] \cup {PeerAt(p)})
    BY <1>5, <1>6, <2>1 DEF EntryOf
  <2> QED
    BY <2>2, Fields
<1>9. EntryOf(p).authenticated = TRUE
  BY <1>6, Fields
<1> QED
  BY <1>7, <1>8, <1>9 DEF D!Learn

\* All other steps leave every entry as it is: those of add_peer and set_peer_info too.
LEMMA HiddenStep ==
  ASSUME IInv, IInv', NEW c \in Conn, Step(c), ~ScanAppend(c), ~Revive(c), ~MarkDead(c),
         ~SetAuthenticated(c), ~AddRoute(c)
  PROVE  Listing' = Listing /\ Admitted' = Admitted
<1>1. AliveSlots' = AliveSlots /\ Admitted' = Admitted
  BY AliveStep, AdmittedStep DEF IInv
<1>2. \A q \in AliveSlots : EntryOf(q)' = EntryOf(q)
  BY <1>1, EntryKept DEF EntryOf
<1> QED
  BY <1>1, <1>2, ListingIs

LEMMA DirectoryStep ==
  ASSUME IInv, IInv', Receiving, NEW c \in Conn, Step(c)
  PROVE  D!Next \/ UNCHANGED D!vars
<1>1. CASE ScanAppend(c) \/ Revive(c)
  BY <1>1, AppearStep, Zenon DEF D!Next
<1>2. CASE MarkDead(c)
  BY <1>2, VanishStep, Zenon DEF D!Next
<1>3. CASE SetAuthenticated(c)
  BY <1>3, AuthenticateStep, Zenon DEF D!Next
<1>4. CASE AddRoute(c)
  BY <1>4, LearnStep, Zenon DEF D!Next
<1>5. CASE ~ScanAppend(c) /\ ~Revive(c) /\ ~MarkDead(c) /\ ~SetAuthenticated(c) /\ ~AddRoute(c)
  BY <1>5, HiddenStep DEF D!vars
<1> QED
  BY <1>1, <1>2, <1>3, <1>4, <1>5

LEMMA DirectoryInit == Init => D!Init
<1> SUFFICES ASSUME Init PROVE D!Init
  OBVIOUS
<1>1. AliveSlots = {}
  BY DEF Init, initialize_peer, AliveSlots
<1>2. Listing = {}
  BY <1>1, ListingIs
<1>3. Admitted = {}
  BY DEF Init, Admitted, Serving
<1> QED
  BY <1>2, <1>3 DEF D!Init

-----------------------------------------------------------------------------
(***************************************************************************)
(* What a Directory promises follows from its own steps.                   *)
(***************************************************************************)

\* The inductive invariant of Directory.
Kept ==
  /\ Listing \subseteq D!Entry
  /\ \A e \in Listing : e.conn \in Admitted
  /\ D!Sound

LEMMA AnEntry ==
  ASSUME NEW e \in D!Entry
  PROVE  \E p \in Slot, c \in Conn, f \in Fd, a \in BOOLEAN, r \in SUBSET Conn : e = Item(p, c, f, a, r)
<1>1. e = Item(e.place, e.conn, e.socket, e.authenticated, e.routes)
  BY DEF D!Entry, Item
<1>2. /\ e.place \in Slot /\ e.conn \in Conn /\ e.socket \in Fd /\ e.authenticated \in BOOLEAN
      /\ e.routes \in SUBSET Conn
  BY DEF D!Entry
<1> QED
  BY <1>1, <1>2

LEMMA ItemIsEntry ==
  ASSUME NEW p \in Slot, NEW c \in Conn, NEW f \in Fd, NEW a \in BOOLEAN, NEW r \in SUBSET Conn
  PROVE  Item(p, c, f, a, r) \in D!Entry
BY DEF D!Entry, Item

LEMMA KeptAppear ==
  ASSUME Kept, NEW p \in Slot, NEW c \in Conn, NEW f \in Fd, D!Appear(p, c, f)
  PROVE  Kept'
<1> DEFINE i == Item(p, c, f, FALSE, {})
<1>1. /\ i \in D!Entry /\ i.place = p /\ i.conn = c /\ i.routes = {}
  <2>1. FALSE \in BOOLEAN /\ {} \in SUBSET Conn
    OBVIOUS
  <2>2. i \in D!Entry
    BY <2>1, ItemIsEntry, Zenon
  <2>3. i.place = p /\ i.conn = c /\ i.routes = {}
    BY DEF Item
  <2> QED
    BY <2>2, <2>3
<1>2. /\ c \notin Admitted /\ (\A e \in Listing : e.place # p)
      /\ Listing' = Listing \cup {i} /\ Admitted' = Admitted \cup {c}
  BY DEF D!Appear, Item
<1> HIDE DEF i
<1> QED
  BY <1>1, <1>2 DEF Kept, D!Sound

LEMMA KeptChange ==
  ASSUME Kept, NEW e \in Listing, NEW g \in D!Entry, D!Change(e, g),
         g.place = e.place, g.conn = e.conn,
         g.routes \subseteq {g.conn} /\ (g.routes # {} => g.authenticated)
  PROVE  Kept'
<1>1. Listing' = (Listing \ {e}) \cup {g} /\ Admitted' = Admitted
  BY DEF D!Change
<1> QED
  BY <1>1 DEF Kept, D!Sound

LEMMA KeptStep ==
  ASSUME Kept, [D!Next]_(D!vars)
  PROVE  Kept'
<1>1. CASE UNCHANGED D!vars
  BY <1>1 DEF D!vars, Kept, D!Sound
<1>2. ASSUME NEW p \in Slot, NEW c \in Conn, NEW f \in Fd, D!Appear(p, c, f) PROVE Kept'
  BY <1>2, KeptAppear
<1>3. ASSUME NEW e \in Listing, D!Vanish(e) PROVE Kept'
  <2>1. Listing' \subseteq Listing /\ Admitted' = Admitted
    BY <1>3 DEF D!Vanish
  <2> QED
    BY <2>1 DEF Kept, D!Sound
<1>4. ASSUME NEW e \in Listing, D!Authenticate(e) \/ D!Learn(e) PROVE Kept'
  <2>1. PICK p \in Slot, c \in Conn, f \in Fd, a \in BOOLEAN, r \in SUBSET Conn : e = Item(p, c, f, a, r)
    BY <1>4, AnEntry DEF Kept
  <2>2. /\ e.place = p /\ e.conn = c /\ e.authenticated = a /\ e.routes = r
    BY <2>1, Items
  <2>3. r \subseteq {c} /\ (r # {} => a = TRUE)
    BY <1>4, <2>2 DEF Kept, D!Sound
  <2>4. CASE D!Authenticate(e)
    <3> DEFINE g == Item(p, c, f, TRUE, r)
    <3>1. [e EXCEPT !.authenticated = TRUE] = g
      <4>1. \A b : [e EXCEPT !.authenticated = b] = Item(p, c, f, b, r)
        BY <2>1, Items
      <4> QED
        BY <4>1, Zenon
    <3>2. D!Change(e, g)
      BY <2>4, <3>1, Zenon DEF D!Authenticate
    <3>3. g \in D!Entry /\ g.place = p /\ g.conn = c /\ g.routes = r /\ g.authenticated = TRUE
      <4>1. TRUE \in BOOLEAN
        OBVIOUS
      <4>2. g \in D!Entry
        BY <4>1, ItemIsEntry, Zenon
      <4>3. g.place = p /\ g.conn = c /\ g.routes = r /\ g.authenticated = TRUE
        BY DEF Item
      <4> QED
        BY <4>2, <4>3
    <3> HIDE DEF g
    <3> QED
      BY <1>4, <2>2, <2>3, <3>2, <3>3, KeptChange
  <2>5. CASE D!Learn(e)
    <3> DEFINE g == Item(p, c, f, a, r \cup {c})
    <3>1. [e EXCEPT !.routes = @ \cup {e.conn}] = g
      <4>1. \A b : [e EXCEPT !.routes = b] = Item(p, c, f, a, b)
        BY <2>1, Items
      <4> QED
        BY <2>2, <4>1
    <3>2. D!Change(e, g) /\ a = TRUE
      BY <2>2, <2>5, <3>1 DEF D!Learn
    <3>3. g \in D!Entry /\ g.place = p /\ g.conn = c /\ g.routes = r \cup {c} /\ g.authenticated = a
      BY ItemIsEntry, Items
    <3> HIDE DEF g
    <3> QED
      BY <1>4, <2>2, <2>3, <3>2, <3>3, KeptChange
  <2> QED
    BY <1>4, <2>4, <2>5
<1> QED
  BY <1>1, <1>2, <1>3, <1>4 DEF D!Next

-----------------------------------------------------------------------------
(***************************************************************************)
(* The theorems.                                                           *)
(***************************************************************************)

\* Connections that receive data packets have been authenticated.
THEOREM ReceivingOnlyAuthenticated == Spec => []Receiving
<1>1. Init => Receiving
  BY DEF Init, Receiving
<1>2. IInv /\ Receiving /\ [Next]_vars => Receiving'
  <2>1. ASSUME Receiving, UNCHANGED vars PROVE Receiving'
    BY <2>1 DEF vars, Receiving
  <2> QED
    BY <2>1, ReceivingStep DEF Next
<1> QED
  BY <1>1, <1>2, Invariance, PTL DEF Spec

\* A thread that walks the list of peers sees whole entries of one connection each,
\* although set_peer_info resets them field by field and nobody takes a lock.
THEOREM Refinement == Spec => ImplementsDirectory
<1>1. Init => D!Init
  BY DirectoryInit
<1>2. IInv /\ IInv' /\ Receiving /\ [Next]_vars => [D!Next]_(D!vars)
  <2>1. ASSUME UNCHANGED vars PROVE UNCHANGED D!vars
    BY <2>1 DEF vars, D!vars, Listing, Admitted, AliveSlots, PeerAt
  <2> QED
    BY <2>1, DirectoryStep DEF Next
<1> QED
  BY <1>1, <1>2, Invariance, ReceivingOnlyAuthenticated, PTL DEF Spec, D!Spec, ImplementsDirectory

\* No connection and no slot has two entries of a Directory, and who has not been
\* authenticated has taught no address.
THEOREM DirectorySound == D!Spec => []D!Sound
<1>1. D!Init => Kept
  BY DEF D!Init, Kept, D!Sound
<1>2. Kept /\ [D!Next]_(D!vars) => Kept'
  BY KeptStep
<1>3. Kept => D!Sound
  BY DEF Kept
<1> QED
  BY <1>1, <1>2, <1>3, PTL DEF D!Spec

\* So it is for the live slots of the list of peers.
THEOREM Sound == Spec => []EntriesSound
<1>1. D!Sound => EntriesSound
  BY DEF EntriesSound
<1> QED
  BY <1>1, Refinement, DirectorySound, PTL DEF ImplementsDirectory
=============================================================================
