------------------------------ MODULE PeerTable ------------------------------
(***************************************************************************)
(* The table of peers of one daemon (src/peer.c) and the threads that      *)
(* share it: the main thread, which accepts connections and gives each a   *)
(* slot of the list `peers` (add_peer, set_peer_info, create_peer), and,   *)
(* for each connection, its receive thread (peer_receive) and the          *)
(* connection thread that joins it and releases the slot                   *)
(* (_peer_connection).                                                     *)
(*                                                                         *)
(* A slot outlives its connections: a dead slot is reset field by field    *)
(* and handed to the next connection, without a lock, so the order of the  *)
(* stores is modelled.  Only stores that another thread can tell apart are *)
(* separate steps.  Memory and threads are assumed available.              *)
(***************************************************************************)
EXTENDS Naturals, FiniteSets

CONSTANTS
  Conn,      \* connections the main thread may accept, each once (bounds the model)
  MaxSlots,  \* longest list of peers (bounds the model)
  Fd,        \* socket descriptors
  None       \* the NULL pointer, the unused descriptor

ASSUME PeerTableAssumption ==
  /\ None \notin Conn
  /\ None \notin Fd
  /\ MaxSlots \in Nat

VARIABLES
  \* The fields of struct peer, by position in the list `peers`:
  alive, s, authenticated, routes,
  held,    \* what the pointers pubkey, enc_ctx and dec_ctx hold: whose object
  npeers,  \* length of the list `peers`; positions above it are not allocated
  fdtab,   \* the process's descriptor table: whose socket a descriptor names
  pc,      \* where the threads that serve a connection are
  fd,      \* the descriptor accept() returned for a connection
  slot,    \* the peer_t a connection's threads were given, by position; 0: none yet
  cursor,  \* the list position add_peer examines
  ended,   \* connections whose remote end has closed (or sent CLOSE)
  heap,    \* history: fate of the objects a connection allocated
  peak     \* history: most connections that ever wanted a slot at once

peers == <<alive, s, authenticated, routes, held>>
vars  == <<alive, s, authenticated, routes, held,
           npeers, fdtab, pc, fd, slot, cursor, ended, heap, peak>>

Slot == 1..MaxSlots

\* Connection c's threads own their slot from `alive = true` until they store
\* alive = false; between "scan" and that point the main thread is in add_peer.
Adding  == {"scan", "free", "clear", "revive"}
Serving == {"auth", "keyed", "ctx", "recv", "joined"}
PC      == {"idle", "closing", "closed"} \cup Adding \cup Serving

Object    == {"pubkey", "enc_ctx", "dec_ctx"}
HeapState == {"none", "live", "freed", "freed twice"}

\* initialize_peer: every pointer NULL, no socket, not alive.
initialize_peer ==
  /\ alive = [p \in Slot |-> FALSE]
  /\ s = [p \in Slot |-> None]
  /\ authenticated = [p \in Slot |-> FALSE]
  /\ routes = [p \in Slot |-> {}]
  /\ held = [o \in Object |-> [p \in Slot |-> None]]

Init ==
  /\ initialize_peer
  /\ npeers = 0
  /\ fdtab  = [f \in Fd |-> None]
  /\ pc     = [c \in Conn |-> "idle"]
  /\ fd     = [c \in Conn |-> None]
  /\ slot   = [c \in Conn |-> 0]
  /\ cursor = 1
  /\ ended  = {}
  /\ heap   = [o \in Object |-> [c \in Conn |-> "none"]]
  /\ peak   = 0

AliveSlots == {p \in 1..npeers : alive[p]}

Goto(c, from, to) ==
  /\ pc[c] \in from
  /\ pc' = [pc EXCEPT ![c] = to]

-----------------------------------------------------------------------------
(***************************************************************************)
(* The main thread.                                                        *)
(***************************************************************************)

\* tcp_accept_connection: accept() returns a free descriptor; peer_connection
\* calls add_peer, which starts at the head of the list.  The main thread does
\* one connection at a time.
Accept(c) ==
  /\ \A d \in Conn : pc[d] \notin Adding
  /\ Goto(c, {"idle"}, "scan")
  /\ \E f \in Fd :
       /\ fdtab[f] = None
       /\ fdtab' = [fdtab EXCEPT ![f] = c]
       /\ fd' = [fd EXCEPT ![c] = f]
  /\ cursor' = 1
  /\ peak' = IF Cardinality(AliveSlots) < peak THEN peak ELSE Cardinality(AliveSlots) + 1
  /\ UNCHANGED <<peers, npeers, slot, ended, heap>>

\* Mutant: the walk skips dead slots too.
ScanNextSkipsDead(c) ==
  /\ pc[c] = "scan"
  /\ cursor <= npeers
  /\ cursor' = cursor + 1
  /\ UNCHANGED <<peers, npeers, fdtab, pc, fd, slot, ended, heap, peak>>

\* add_peer: this slot is alive, look at the next one.
ScanNext(c) ==
  /\ pc[c] = "scan"
  /\ cursor <= npeers
  /\ alive[cursor]
  /\ cursor' = cursor + 1
  /\ UNCHANGED <<peers, npeers, fdtab, pc, fd, slot, ended, heap, peak>>

\* Mutant: the first slot is taken whether or not it is alive.
ScanReuseAny(c) ==
  /\ cursor <= npeers
  /\ Goto(c, {"scan"}, "free")
  /\ slot' = [slot EXCEPT ![c] = cursor]
  /\ UNCHANGED <<peers, npeers, fdtab, fd, cursor, ended, heap, peak>>

\* add_peer: this slot is dead, set_peer_info will reset it.
ScanReuse(c) ==
  /\ cursor <= npeers
  /\ ~alive[cursor]
  /\ Goto(c, {"scan"}, "free")
  /\ slot' = [slot EXCEPT ![c] = cursor]
  /\ UNCHANGED <<peers, npeers, fdtab, fd, cursor, ended, heap, peak>>

\* add_peer: no slot was dead.  create_peer fills a new slot before it is linked
\* at the end of the list, so other threads only see it complete.
ScanAppend(c) ==
  /\ cursor > npeers
  /\ npeers < MaxSlots
  /\ Goto(c, {"scan"}, "auth")
  /\ npeers' = npeers + 1
  /\ slot' = [slot EXCEPT ![c] = npeers + 1]
  /\ alive' = [alive EXCEPT ![npeers + 1] = TRUE]
  /\ s' = [s EXCEPT ![npeers + 1] = fd[c]]
  /\ UNCHANGED <<authenticated, routes, held, fdtab, fd, cursor, ended, heap, peak>>

\* free() of what slot p's pointer o holds.
Freed(p, o, c) ==
  IF held[o][p] # c THEN heap[o][c] ELSE IF heap[o][c] = "live" THEN "freed" ELSE "freed twice"

Release(p) == heap' = [o \in Object |-> [c \in Conn |-> Freed(p, o, c)]]

\* Mutant: the freed pointers are left as they are.
ResetFreeDangling(c) ==
  /\ Goto(c, {"free"}, "clear")
  /\ Release(slot[c])
  /\ UNCHANGED <<peers, npeers, fdtab, fd, slot, cursor, ended, peak>>

\* set_peer_info, first part: RSA_free and EVP_CIPHER_CTX_free of what the last
\* connection left.  `enc_ctx = NULL` is written twice and dec_ctx keeps its value.
ResetFree(c) ==
  /\ Goto(c, {"free"}, "clear")
  /\ Release(slot[c])
  /\ held' = [o \in Object |-> IF o = "dec_ctx" THEN held[o]
                               ELSE [held[o] EXCEPT ![slot[c]] = None]]
  /\ UNCHANGED <<alive, s, authenticated, routes, npeers, fdtab, fd, slot, cursor, ended, peak>>

\* Mutants: authenticated is not reset; the routes are kept; alive is set before
\* the new socket.
ResetClearKeepsAuth(c) ==
  /\ Goto(c, {"clear"}, "revive")
  /\ routes' = [routes EXCEPT ![slot[c]] = {}]
  /\ UNCHANGED <<alive, s, authenticated, held, npeers, fdtab, fd, slot, cursor, ended, heap, peak>>

ResetClearKeepsRoutes(c) ==
  /\ Goto(c, {"clear"}, "revive")
  /\ authenticated' = [authenticated EXCEPT ![slot[c]] = FALSE]
  /\ UNCHANGED <<alive, s, routes, held, npeers, fdtab, fd, slot, cursor, ended, heap, peak>>

ResetClearRevives(c) ==
  /\ Goto(c, {"clear"}, "revive")
  /\ authenticated' = [authenticated EXCEPT ![slot[c]] = FALSE]
  /\ routes' = [routes EXCEPT ![slot[c]] = {}]
  /\ alive' = [alive EXCEPT ![slot[c]] = TRUE]
  /\ UNCHANGED <<s, held, npeers, fdtab, fd, slot, cursor, ended, heap, peak>>

\* set_peer_info, second part: authenticated = false, then the routes go.
ResetClear(c) ==
  /\ Goto(c, {"clear"}, "revive")
  /\ authenticated' = [authenticated EXCEPT ![slot[c]] = FALSE]
  /\ routes' = [routes EXCEPT ![slot[c]] = {}]
  /\ UNCHANGED <<alive, s, held, npeers, fdtab, fd, slot, cursor, ended, heap, peak>>

\* Mutant: the socket of the last connection stays in the slot.
ReviveKeepsSocket(c) ==
  /\ Goto(c, {"revive"}, "auth")
  /\ alive' = [alive EXCEPT ![slot[c]] = TRUE]
  /\ UNCHANGED <<s, authenticated, routes, held, npeers, fdtab, fd, slot, cursor, ended, heap, peak>>

\* set_peer_info, last part: the new socket, then alive = true; peer_connection
\* then starts the connection thread and that one the receive thread.
Revive(c) ==
  /\ Goto(c, {"revive"}, "auth")
  /\ s' = [s EXCEPT ![slot[c]] = fd[c]]
  /\ alive' = [alive EXCEPT ![slot[c]] = TRUE]
  /\ UNCHANGED <<authenticated, routes, held, npeers, fdtab, fd, slot, cursor, ended, heap, peak>>

-----------------------------------------------------------------------------
(***************************************************************************)
(* The receive thread of a connection.                                     *)
(***************************************************************************)

\* authenticate_peer: the remote's AUTH frame held a well-formed public key.
RecvKey(c) ==
  /\ Goto(c, {"auth"}, "keyed")
  /\ held' = [held EXCEPT !["pubkey"][slot[c]] = c]
  /\ heap' = [heap EXCEPT !["pubkey"][c] = "live"]
  /\ UNCHANGED <<alive, s, authenticated, routes, npeers, fdtab, fd, slot, cursor, ended, peak>>

\* authenticate_peer: the session key is set up; aes_init_ctx is called twice and
\* gives NULL when it fails.
InitCtx(c) ==
  /\ Goto(c, {"keyed"}, "ctx")
  /\ \E e, d \in {c, None} :
       /\ held' = [held EXCEPT !["enc_ctx"][slot[c]] = e, !["dec_ctx"][slot[c]] = d]
       /\ heap' = [heap EXCEPT !["enc_ctx"][c] = IF e = c THEN "live" ELSE @,
                               !["dec_ctx"][c] = IF d = c THEN "live" ELSE @]
  /\ UNCHANGED <<alive, s, authenticated, routes, npeers, fdtab, fd, slot, cursor, ended, peak>>

\* authenticate_peer: both contexts exist, the peer is authenticated.
SetAuthenticated(c) ==
  /\ Goto(c, {"ctx"}, "recv")
  /\ held["enc_ctx"][slot[c]] # None
  /\ held["dec_ctx"][slot[c]] # None
  /\ authenticated' = [authenticated EXCEPT ![slot[c]] = TRUE]
  /\ UNCHANGED <<alive, s, routes, held, npeers, fdtab, fd, slot, cursor, ended, heap, peak>>

\* authenticate_peer returns false: a bad or unexpected frame, a malformed or
\* untrusted key, a failed key exchange.
AuthReject(c) ==
  /\ Goto(c, {"auth", "keyed"}, "joined")
  /\ UNCHANGED <<peers, npeers, fdtab, fd, slot, cursor, ended, heap, peak>>

\* authenticate_peer returns false: a context could not be made.
CtxFail(c) ==
  /\ Goto(c, {"ctx"}, "joined")
  /\ None \in {held["enc_ctx"][slot[c]], held["dec_ctx"][slot[c]]}
  /\ UNCHANGED <<peers, npeers, fdtab, fd, slot, cursor, ended, heap, peak>>

\* Mutant: an address that was never parsed is added.
AddRouteUnparsed(c) ==
  /\ pc[c] = "recv"
  /\ routes' = [routes EXCEPT ![slot[c]] = @ \cup {None}]
  /\ UNCHANGED <<alive, s, authenticated, held, npeers, fdtab, pc, fd, slot, cursor, ended, heap, peak>>

\* process_netpacket: a packet from this peer adds a route to its slot.
AddRoute(c) ==
  /\ pc[c] = "recv"
  /\ routes' = [routes EXCEPT ![slot[c]] = @ \cup {c}]
  /\ UNCHANGED <<alive, s, authenticated, held, npeers, fdtab, pc, fd, slot, cursor, ended, heap, peak>>

\* Whose stream recv(peer->s) reads: the descriptor is looked up at each call.
Stream(c) == IF s[slot[c]] = None THEN None ELSE fdtab[s[slot[c]]]

\* Mutant: recv returning 0 is taken for "nothing yet".
EndReceiveOnErrorOnly(c) ==
  /\ Goto(c, {"auth", "keyed", "recv"}, "joined")
  /\ Stream(c) = None
  /\ UNCHANGED <<peers, npeers, fdtab, fd, slot, cursor, ended, heap, peak>>

\* receive_frame returns -1 (end of stream, or no such descriptor), or the frame
\* was a CLOSE.  A call already blocked stays on c's own socket even if the
\* descriptor has been closed or reused since.  The thread exits and is joined.
EndReceive(c) ==
  /\ Goto(c, {"auth", "keyed", "recv"}, "joined")
  /\ c \in ended \/ Stream(c) \in ended \cup {None}
  /\ UNCHANGED <<peers, npeers, fdtab, fd, slot, cursor, ended, heap, peak>>

-----------------------------------------------------------------------------
(***************************************************************************)
(* The connection thread, once its receive thread is joined, and the       *)
(* remote end.                                                             *)
(***************************************************************************)

\* _peer_connection: alive = false.
MarkDead(c) ==
  /\ Goto(c, {"joined"}, "closing")
  /\ alive' = [alive EXCEPT ![slot[c]] = FALSE]
  /\ UNCHANGED <<s, authenticated, routes, held, npeers, fdtab, fd, slot, cursor, ended, heap, peak>>

\* _peer_connection: close(peer->s), with the descriptor read from the slot now;
\* closing one that is not open fails and changes nothing.
CloseSocket(c) ==
  /\ Goto(c, {"closing"}, "closed")
  /\ fdtab' = [fdtab EXCEPT ![s[slot[c]]] = None]
  /\ UNCHANGED <<peers, npeers, fd, slot, cursor, ended, heap, peak>>

\* The remote daemon closes its end (or sends CLOSE and closes it).
RemoteEnd(c) ==
  /\ pc[c] # "idle"
  /\ c \notin ended
  /\ ended' = ended \cup {c}
  /\ UNCHANGED <<peers, npeers, fdtab, pc, fd, slot, cursor, heap, peak>>

-----------------------------------------------------------------------------
MainThread(c) ==
  ScanNext(c) \/ ScanReuse(c) \/ ScanAppend(c) \/ ResetFree(c) \/ ResetClear(c) \/ Revive(c)

PeerThreads(c) ==
  SetAuthenticated(c) \/ CtxFail(c) \/ EndReceive(c) \/ MarkDead(c) \/ CloseSocket(c)

\* What the scheduler need not do: a connection or a frame comes from the remote.
Environment(c) ==
  Accept(c) \/ RecvKey(c) \/ InitCtx(c) \/ AuthReject(c) \/ AddRoute(c) \/ RemoteEnd(c)

Step(c) == MainThread(c) \/ PeerThreads(c) \/ Environment(c)

Next == \E c \in Conn : Step(c)

Spec == Init /\ [][Next]_vars

\* Started threads are scheduled; those that wait for a frame wait for as long
\* as the remote end keeps its socket open.
Fairness == \A c \in Conn : WF_vars(MainThread(c)) /\ WF_vars(PeerThreads(c))

FairSpec == Spec /\ Fairness

-----------------------------------------------------------------------------
(***************************************************************************)
(* Properties.                                                             *)
(***************************************************************************)

\* Every variable keeps the type of the C object it stands for.
TypeOK ==
  /\ alive \in [Slot -> BOOLEAN]
  /\ s \in [Slot -> Fd \cup {None}]
  /\ authenticated \in [Slot -> BOOLEAN]
  /\ routes \in [Slot -> SUBSET Conn]
  /\ held \in [Object -> [Slot -> Conn \cup {None}]]
  /\ npeers \in 0..MaxSlots
  /\ fdtab \in [Fd -> Conn \cup {None}]
  /\ pc \in [Conn -> PC]
  /\ fd \in [Conn -> Fd \cup {None}]
  /\ slot \in [Conn -> 0..MaxSlots]
  /\ cursor \in 1..MaxSlots + 1
  /\ ended \subseteq Conn
  /\ heap \in [Object -> [Conn -> HeapState]]
  /\ peak \in Nat

\* c's threads, or the main thread on behalf of c, may write to the slot of c.
Writes(c) == pc[c] \in Serving \cup {"free", "clear", "revive"}

\* The alive flag excludes: no two connections ever write to the same slot, so
\* add_peer never resets a slot under the threads that still serve it.
SlotExclusive ==
  \A c, d \in Conn : Writes(c) /\ Writes(d) /\ slot[c] = slot[d] => c = d

\* A sender that sees alive and authenticated set (send_data_to_peer) finds the
\* contexts of the handshake the present connection completed, none of them
\* NULL, freed, or left by an earlier connection of the slot.
SendableIsOwn ==
  \A p \in 1..npeers : alive[p] /\ authenticated[p] =>
    \E c \in Conn :
      /\ slot[c] = p
      /\ pc[c] \in {"recv", "joined"}
      /\ \A o \in Object : held[o][p] = c /\ heap[o][c] = "live"

\* Packets are never routed to a live peer by what an earlier connection of its
\* slot had taught (get_peer_route).
RoutesAreOwn ==
  \A p \in 1..npeers : alive[p] =>
    \A c \in routes[p] : slot[c] = p /\ pc[c] \in {"recv", "joined"}

\* A key or encryption context is neither leaked nor freed twice: as long as it
\* is allocated, exactly one slot points to it, and no slot points to it after.
ObjectsAccounted ==
  \A o \in {"pubkey", "enc_ctx"}, c \in Conn :
    /\ heap[o][c] # "freed twice"
    /\ Cardinality({p \in Slot : held[o][p] = c}) = IF heap[o][c] = "live" THEN 1 ELSE 0

\* The list never grows while a slot was free: it is no longer than the number of
\* connections that once needed a slot at the same time.
PoolBounded == npeers <= peak

\* What a live slot's threads rely on is not changed under them: its socket stays,
\* its routes only grow and an authentication is not revoked, until it is dead.
LiveSlotIntact ==
  [][\A p \in Slot : alive[p] /\ alive'[p] =>
       /\ s'[p] = s[p]
       /\ routes[p] \subseteq routes'[p]
       /\ authenticated[p] => authenticated'[p]]_vars

\* The connection whose threads serve a slot.
PeerAt(p) == CHOOSE c \in Conn : pc[c] \in Serving /\ slot[c] = p

\* What other threads see in the list of peers: its slots that are alive.
Listing ==
  {[place |-> p, conn |-> PeerAt(p), socket |-> s[p],
    authenticated |-> authenticated[p], routes |-> routes[p]] : p \in AliveSlots}

Admitted == {c \in Conn : pc[c] \in Serving \cup {"closing", "closed"}}

D == INSTANCE Directory WITH
       Place <- Slot, Socket <- Fd, listing <- Listing, admitted <- Admitted

\* Though set_peer_info, the handshake and _peer_connection store one field at a time, the
\* slots that are alive are at any time whole entries of one connection each, that appear
\* and vanish at once and learn addresses only from who has authenticated.
ImplementsDirectory == D!Spec

\* At any time no two live slots are of one connection, and packets are only routed to a
\* peer that has been authenticated, by an address it has itself sent from since.
EntriesSound == D!Sound

\* When the remote ends of all accepted connections have gone for good, every
\* slot becomes free for good and every connection's threads have exited.
SlotsReleased ==
  <>[](\A c \in Conn : pc[c] # "idle" => c \in ended)
    => <>[](AliveSlots = {} /\ \A c \in Conn : pc[c] \in {"idle", "closed"})

\* peer.c:145-147 calls a slot with alive == false free, so the connection that
\* reuses it keeps its own socket: only a connection's own threads close it.
ClosesOwnSocket ==
  [][\A f \in Fd : fdtab[f] # None /\ fdtab'[f] = None => pc[fdtab[f]] = "closing"]_vars

\* structs.h:53 describes dec_ctx as the peer's decryption context: an allocated
\* object or NULL, so that freeing what a slot points to frees nothing twice.
FreedOnce == \A o \in Object, c \in Conn : heap[o][c] # "freed twice"
=============================================================================
