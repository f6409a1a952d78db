--------------------------- MODULE PeerTableProofs ---------------------------
(***************************************************************************)
(* Proofs, for any number of connections, slots and descriptors, that the  *)
(* slot table of PeerTable keeps its safety properties.                    *)
(*                                                                         *)
(* The argument.  The alive flag is the only lock of a slot: a slot is     *)
(* alive exactly while one connection's threads serve it (AliveIsServed),  *)
(* and the main thread, which is alone (OneAdder), writes only to a slot   *)
(* that is dead (DeadWhileReset) or not linked yet.  So a step of one      *)
(* connection leaves the slots of all others alone (OtherSlots).  What a   *)
(* slot's fields hold is then a matter of how far its own connection has   *)
(* come: emptied by set_peer_info (Cleared), filled by the handshake       *)
(* (Established), with every pointer naming an object of a connection      *)
(* that was given this slot (PointersAreOwn).                              *)
(***************************************************************************)
EXTENDS PeerTable, FiniteSetTheorems, TLAPS

(***************************************************************************)
(* The inductive invariant.                                                *)
(***************************************************************************)
\* Only one connection at a time is in add_peer.
OneAdder ==
  \A c, d \in Conn : pc[c] \in Adding /\ pc[d] \in Adding => c = d

\* A connection past the scan has a slot of the list.
SlotGiven ==
  \A c \in Conn : pc[c] \notin {"idle", "scan"} => slot[c] \in 1..npeers

\* The slot set_peer_info resets is dead until its last store.
DeadWhileReset ==
  \A c \in Conn : pc[c] \in {"free", "clear", "revive"} => ~alive[slot[c]]

\* A slot is alive exactly while threads of a connection serve it.
AliveIsServed ==
  /\ \A c \in Conn : pc[c] \in Serving => alive[slot[c]]
  /\ \A p \in Slot : alive[p] => \E c \in Conn : pc[c] \in Serving /\ slot[c] = p

\* A pointer of a slot, dangling or not, names an object of a connection that
\* was given this slot and has come past add_peer.
PointersAreOwn ==
  \A p \in Slot, o \in Object, c \in Conn : held[o][p] = c =>
    slot[c] = p /\ pc[c] \in Serving \cup {"closing", "closed"}

\* What set_peer_info has emptied stays empty until the handshake fills it.
Cleared ==
  \A c \in Conn :
    /\ pc[c] \in {"clear", "revive", "auth"} => held["pubkey"][slot[c]] = None
    /\ pc[c] \in {"clear", "revive", "auth", "keyed"} => held["enc_ctx"][slot[c]] = None
    /\ pc[c] \in {"revive", "auth", "keyed", "ctx"} =>
         ~authenticated[slot[c]] /\ routes[slot[c]] = {}

\* What the handshake of the present connection has filled is its own, and live.
Established ==
  \A c \in Conn :
    /\ pc[c] \in {"keyed", "ctx"} => held["pubkey"][slot[c]] = c /\ heap["pubkey"][c] = "live"
    /\ pc[c] = "ctx" => \A o \in {"enc_ctx", "dec_ctx"} :
         held[o][slot[c]] \in {c, None} /\ (held[o][slot[c]] = c => heap[o][c] = "live")
    /\ pc[c] \in {"recv", "joined"} => routes[slot[c]] \subseteq {c}
    /\ pc[c] \in {"recv", "joined"} /\ authenticated[slot[c]] =>
         \A o \in Object : held[o][slot[c]] = c /\ heap[o][c] = "live"

\* A key or encryption context is allocated exactly as long as the slot of the
\* connection that made it points to it.
Accounted ==
  \A o \in {"pubkey", "enc_ctx"}, c \in Conn :
    /\ heap[o][c] # "freed twice"
    /\ heap[o][c] = "live" <=> slot[c] \in Slot /\ held[o][slot[c]] = c

\* A slot that is not linked yet is as initialize_peer leaves it.
Fresh ==
  \A p \in Slot : p > npeers =>
    ~authenticated[p] /\ routes[p] = {} /\ \A o \in Object : held[o][p] = None

\* Every slot the scan has passed was alive when the connection was accepted.
ScanCounted ==
  \A c \in Conn : pc[c] = "scan" => Cardinality((1..cursor - 1) \cup AliveSlots) < peak

IInv ==
  /\ TypeOK
  /\ OneAdder
  /\ SlotGiven
  /\ SlotExclusive
  /\ DeadWhileReset
  /\ AliveIsServed
  /\ PointersAreOwn
  /\ Cleared
  /\ Established
  /\ Accounted
  /\ Fresh
  /\ ScanCounted
  /\ PoolBounded

-----------------------------------------------------------------------------
(***************************************************************************)
(* Which steps write what.                                                 *)
(***************************************************************************)
\* Goto says how a step moves the program counter, peers lists the fields of the
\* slots: both are expanded everywhere.
USE DEF Goto, peers

\* The position a connection past the scan was given is a slot of the list.
LEMMA GivenSlot ==
  ASSUME TypeOK, SlotGiven, NEW c \in Conn, pc[c] \notin {"idle", "scan"}
  PROVE  slot[c] \in 1..npeers /\ slot[c] \in Slot
<1>1. npeers \in 0..MaxSlots
  BY DEF TypeOK
<1>2. slot[c] \in 1..npeers
  BY DEF SlotGiven
<1> QED
  BY <1>1, <1>2, PeerTableAssumption DEF Slot

\* The list is finite, and so are its live slots.
LEMMA AliveSlotsFinite ==
  ASSUME npeers \in Nat
  PROVE  IsFiniteSet(AliveSlots) /\ IsFiniteSet(1..npeers)
<1>1. IsFiniteSet(1..npeers)
  BY FS_Interval
<1>2. AliveSlots \subseteq 1..npeers
  BY DEF AliveSlots
<1> QED
  BY <1>1, <1>2, FS_Subset

\* Every step keeps the types.
LEMMA TypeStep ==
  ASSUME TypeOK, SlotGiven, NEW c \in Conn, Step(c)
  PROVE  TypeOK'
<1> USE DEF TypeOK
<1>1. MaxSlots \in Nat
  BY PeerTableAssumption
<1>2. ASSUME pc[c] \notin {"idle", "scan"} PROVE slot[c] \in Slot
  BY <1>2, GivenSlot
<1>3. CASE Accept(c)
  <2>1. peak' \in Nat
    <3>1. Cardinality(AliveSlots) \in Nat
      BY AliveSlotsFinite, FS_CardinalityType
    <3> QED BY <3>1, <1>3 DEF Accept
  <2> QED BY <1>1, <1>3, <2>1 DEF Accept, PC, Adding
<1>4. CASE ScanNext(c)
  BY <1>1, <1>4 DEF ScanNext
<1>5. CASE ScanReuse(c)
  <2>1. slot' \in [Conn -> 0..MaxSlots]
    BY <1>1, <1>5 DEF ScanReuse
  <2> QED BY <1>5, <2>1 DEF ScanReuse, PC, Adding
<1>6. CASE ScanAppend(c)
  <2>1. npeers + 1 \in Slot /\ npeers + 1 \in 0..MaxSlots
    BY <1>1, <1>6 DEF ScanAppend, Slot
  <2> QED BY <1>6, <2>1 DEF ScanAppend, PC, Serving
<1>7. CASE ResetFree(c)
  <2>1. slot[c] \in Slot BY <1>2, <1>7 DEF ResetFree
  <2>2. held' \in [Object -> [Slot -> Conn \cup {None}]] 
    BY <1>7, <2>1 DEF ResetFree
  <2>3. heap' \in [Object -> [Conn -> HeapState]]
    BY <1>7, <2>1 DEF ResetFree, Release, Freed, HeapState
  <2> QED BY <1>7, <2>2, <2>3 DEF ResetFree, PC, Adding
<1>8. CASE RecvKey(c)
  <2>1. slot[c] \in Slot BY <1>2, <1>8 DEF RecvKey
  <2>2. held' \in [Object -> [Slot -> Conn \cup {None}]] 
    BY <1>8, <2>1 DEF RecvKey
  <2>3. heap' \in [Object -> [Conn -> HeapState]]
    BY <1>8, <2>1 DEF RecvKey, HeapState
  <2> QED BY <1>8, <2>2, <2>3 DEF RecvKey, PC, Serving
<1>9. CASE InitCtx(c)
  <2>1. slot[c] \in Slot BY <1>2, <1>9 DEF InitCtx
  <2>2. PICK e \in {c, None}, d \in {c, None} :
          /\ held' = [held EXCEPT !["enc_ctx"][slot[c]] = e, !["dec_ctx"][slot[c]] = d]
          /\ heap' = [heap EXCEPT !["enc_ctx"][c] = IF e = c THEN "live" ELSE @,
                                  !["dec_ctx"][c] = IF d = c THEN "live" ELSE @]
    BY <1>9 DEF InitCtx
  <2>3. held' \in [Object -> [Slot -> Conn \cup {None}]] 
    BY <2>2, <2>1
  <2>4. heap' \in [Object -> [Conn -> HeapState]]
    BY <2>2, ZenonT(60) DEF HeapState
  <2> QED BY <1>9, <2>3, <2>4 DEF InitCtx, PC, Serving
<1>10. CASE ResetClear(c) \/ Revive(c) \/ SetAuthenticated(c) \/ AddRoute(c) \/ MarkDead(c) \/ CloseSocket(c)
  <2>1. slot[c] \in Slot BY <1>2, <1>10 DEF ResetClear, Revive, SetAuthenticated, AddRoute, MarkDead, CloseSocket
  <2>2. CASE ResetClear(c) BY <2>1, <2>2 DEF ResetClear, PC, Adding
  <2>3. CASE Revive(c) BY <2>1, <2>3 DEF Revive, PC, Serving
  <2>4. CASE SetAuthenticated(c) BY <2>1, <2>4 DEF SetAuthenticated, PC, Serving
  <2>5. CASE AddRoute(c) BY <2>1, <2>5 DEF AddRoute
  <2>6. CASE MarkDead(c) BY <2>1, <2>6 DEF MarkDead, PC
  <2>7. CASE CloseSocket(c) BY <2>1, <2>7 DEF CloseSocket, PC
  <2> QED BY <1>10, <2>2, <2>3, <2>4, <2>5, <2>6, <2>7
<1>11. CASE CtxFail(c) \/ AuthReject(c) \/ EndReceive(c)
  BY <1>11 DEF CtxFail, AuthReject, EndReceive, PC, Serving
<1>12. CASE RemoteEnd(c)
  BY <1>12 DEF RemoteEnd
<1> QED
  BY <1>3, <1>4, <1>5, <1>6, <1>7, <1>8, <1>9, <1>10, <1>11, <1>12
     DEF Step, MainThread, PeerThreads, Environment

\* How a step of connection c moves its threads.
LEMMA Moves ==
  ASSUME TypeOK, NEW c \in Conn, Step(c)
  PROVE  \/ UNCHANGED pc
         \/ Accept(c) \/ ScanReuse(c) \/ ScanAppend(c) \/ ResetFree(c) \/ ResetClear(c) \/ Revive(c)
         \/ Goto(c, {"auth"}, "keyed") \/ Goto(c, {"keyed"}, "ctx") \/ Goto(c, {"ctx"}, "recv")
         \/ Goto(c, {"auth", "keyed", "ctx", "recv"}, "joined")
         \/ MarkDead(c) \/ CloseSocket(c)
  BY DEF Step, MainThread, PeerThreads, Environment, ScanNext, SetAuthenticated, CtxFail,
         EndReceive, RecvKey, InitCtx, AuthReject, AddRoute, RemoteEnd

\* Which steps write to which fields of the slots.
LEMMA Writers ==
  ASSUME NEW c \in Conn, Step(c)
  PROVE  /\ UNCHANGED <<slot, npeers>> \/ ScanReuse(c) \/ ScanAppend(c)
         /\ UNCHANGED alive \/ ScanAppend(c) \/ Revive(c) \/ MarkDead(c)
         /\ UNCHANGED <<held, heap>> \/ ResetFree(c) \/ RecvKey(c) \/ InitCtx(c)
         /\ UNCHANGED authenticated \/ ResetClear(c) \/ SetAuthenticated(c)
         /\ UNCHANGED routes \/ ResetClear(c) \/ AddRoute(c)
  BY DEF Step, MainThread, PeerThreads, Environment, Accept, ScanNext, ScanReuse, ScanAppend,
         ResetFree, ResetClear, Revive, SetAuthenticated, CtxFail, EndReceive, MarkDead,
         CloseSocket, RecvKey, InitCtx, AuthReject, AddRoute, RemoteEnd

-----------------------------------------------------------------------------
(***************************************************************************)
(* Every step keeps every conjunct of the inductive invariant.             *)
(***************************************************************************)
\* Accept waits until add_peer has returned; no other step enters add_peer.
LEMMA OneAdderStep ==
  ASSUME TypeOK, OneAdder, NEW c \in Conn, Step(c)
  PROVE  OneAdder'
<1>1. pc \in [Conn -> PC]
  BY DEF TypeOK
<1>2. CASE Accept(c)
  BY <1>1, <1>2 DEF Accept, OneAdder
<1>3. CASE ~Accept(c)
  <2>1. \A d \in Conn : pc'[d] \in Adding => pc[d] \in Adding
    BY <1>1, <1>3, Moves DEF ScanReuse, ScanAppend, ResetFree, ResetClear, Revive, MarkDead, CloseSocket, Adding
  <2> QED
    BY <2>1 DEF OneAdder
<1> QED
  BY <1>2, <1>3

\* A slot is given when the scan ends, and the list never shrinks.
LEMMA SlotGivenStep ==
  ASSUME TypeOK, SlotGiven, NEW c \in Conn, Step(c)
  PROVE  SlotGiven'
<1>1. pc \in [Conn -> PC] /\ slot \in [Conn -> 0..MaxSlots] /\ npeers \in Nat /\ cursor \in Nat \ {0}
  BY PeerTableAssumption DEF TypeOK
<1>2. CASE ScanReuse(c)
  BY <1>1, <1>2 DEF ScanReuse, SlotGiven
<1>3. CASE ScanAppend(c)
  BY <1>1, <1>3 DEF ScanAppend, SlotGiven
<1>4. CASE ~ScanReuse(c) /\ ~ScanAppend(c)
  <2>1. UNCHANGED <<npeers, slot>>
    BY <1>4, Writers
  <2>2. \A d \in Conn : pc[d] \in {"idle", "scan"} => pc'[d] \in {"idle", "scan"}
    BY <1>1, <1>4, Moves DEF Accept, ResetFree, ResetClear, Revive, MarkDead, CloseSocket
  <2> QED
    BY <2>1, <2>2 DEF SlotGiven
<1> QED
  BY <1>2, <1>3, <1>4

\* add_peer picks a dead slot, which nobody serves, or links a new one.
LEMMA ExclusiveStep ==
  ASSUME TypeOK, SlotGiven, OneAdder, AliveIsServed, SlotExclusive, NEW c \in Conn, Step(c)
  PROVE  SlotExclusive'
<1>1. pc \in [Conn -> PC] /\ slot \in [Conn -> 0..MaxSlots] /\ npeers \in Nat /\ cursor \in Nat \ {0}
  BY PeerTableAssumption DEF TypeOK
<1>2. CASE ScanReuse(c)
  BY <1>1, <1>2 DEF ScanReuse, SlotExclusive, OneAdder, AliveIsServed, Writes, Adding, Serving
<1>3. CASE ScanAppend(c)
  BY <1>1, <1>3 DEF ScanAppend, SlotExclusive, SlotGiven, Writes, Serving
<1>4. CASE ~ScanReuse(c) /\ ~ScanAppend(c)
  <2>1. UNCHANGED slot
    BY <1>4, Writers
  <2>2. \A d \in Conn : Writes(d)' => Writes(d)
    BY <1>1, <1>4, Moves DEF Accept, ResetFree, ResetClear, Revive, MarkDead, CloseSocket, Writes, Serving
  <2> QED
    BY <2>1, <2>2 DEF SlotExclusive
<1> QED
  BY <1>2, <1>3, <1>4

\* Only set_peer_info's last store makes a slot alive.
LEMMA DeadStep ==
  ASSUME TypeOK, SlotGiven, OneAdder, SlotExclusive, DeadWhileReset, NEW c \in Conn, Step(c)
  PROVE  DeadWhileReset'
<1>1. pc \in [Conn -> PC] /\ slot \in [Conn -> 0..MaxSlots] /\ alive \in [Slot -> BOOLEAN]
  BY DEF TypeOK
<1>2. CASE ScanReuse(c)
  BY <1>1, <1>2 DEF ScanReuse, DeadWhileReset
<1>3. CASE ScanAppend(c)
  BY <1>1, <1>3 DEF ScanAppend, DeadWhileReset, OneAdder, Adding
<1>4. CASE Revive(c)
  BY <1>1, <1>4 DEF Revive, DeadWhileReset, OneAdder, Adding
<1>5. CASE MarkDead(c)
  BY <1>1, <1>5, GivenSlot DEF MarkDead, DeadWhileReset, SlotGiven
<1>6. CASE ~ScanReuse(c) /\ ~ScanAppend(c) /\ ~Revive(c) /\ ~MarkDead(c)
  <2>1. UNCHANGED <<slot, alive>>
    BY <1>6, Writers
  <2>2. \A d \in Conn : pc'[d] \in {"free", "clear", "revive"} => pc[d] \in {"free", "clear", "revive"}
    BY <1>1, <1>6, Moves DEF Accept, ResetFree, ResetClear, CloseSocket
  <2> QED
    BY <2>1, <2>2 DEF DeadWhileReset
<1> QED
  BY <1>2, <1>3, <1>4, <1>5, <1>6

\* alive is set when the threads take over a slot and reset when they leave it.
LEMMA ServedStep ==
  ASSUME TypeOK, SlotGiven, SlotExclusive, DeadWhileReset, AliveIsServed, NEW c \in Conn, Step(c)
  PROVE  AliveIsServed'
<1>1. pc \in [Conn -> PC] /\ slot \in [Conn -> 0..MaxSlots] /\ alive \in [Slot -> BOOLEAN]
      /\ npeers \in Nat
  BY DEF TypeOK
<1>2. CASE ScanReuse(c)
  BY <1>1, <1>2 DEF ScanReuse, AliveIsServed, Serving
<1>3. CASE ScanAppend(c)
  <2>1. npeers + 1 \in Slot
    BY <1>1, <1>3, PeerTableAssumption DEF ScanAppend, Slot
  <2>2. \A d \in Conn : pc[d] \in Serving => d # c /\ slot[d] # npeers + 1
    BY <1>1, <1>3, GivenSlot DEF ScanAppend, Serving
  <2> QED
    BY <1>1, <1>3, <2>1, <2>2 DEF ScanAppend, AliveIsServed, Serving
<1>4. CASE Revive(c)
  BY <1>1, <1>4, GivenSlot DEF Revive, AliveIsServed, Serving
<1>5. CASE MarkDead(c)
  BY <1>1, <1>5, GivenSlot DEF MarkDead, AliveIsServed, SlotExclusive, Writes, Serving
<1>6. CASE ~ScanReuse(c) /\ ~ScanAppend(c) /\ ~Revive(c) /\ ~MarkDead(c)
  <2>1. UNCHANGED <<slot, alive>>
    BY <1>6, Writers
  <2>2. \A d \in Conn : pc'[d] \in Serving <=> pc[d] \in Serving
    BY <1>1, <1>6, Moves DEF Accept, ResetFree, ResetClear, CloseSocket, Serving
  <2> QED
    BY <2>1, <2>2 DEF AliveIsServed
<1> QED
  BY <1>2, <1>3, <1>4, <1>5, <1>6

\* A pointer only ever receives an object of the connection that owns the slot.
LEMMA PointersStep ==
  ASSUME TypeOK, SlotGiven, PointersAreOwn, NEW c \in Conn, Step(c)
  PROVE  PointersAreOwn'
<1> DEFINE Got == Serving \cup {"closing", "closed"}
<1>1. pc \in [Conn -> PC] /\ slot \in [Conn -> 0..MaxSlots]
      /\ held \in [Object -> [Slot -> Conn \cup {None}]]
  BY DEF TypeOK
<1>2. \A d \in Conn : pc[d] \in Got => pc'[d] \in Got /\ slot'[d] = slot[d]
  BY <1>1, Moves, Writers DEF Accept, ScanReuse, ScanAppend, ResetFree, ResetClear, Revive,
     MarkDead, CloseSocket, Serving
<1>3. CASE RecvKey(c)
  BY <1>1, <1>2, <1>3, GivenSlot, PeerTableAssumption DEF RecvKey, PointersAreOwn, Serving
<1>4. CASE InitCtx(c)
  <2>1. \A p \in Slot, o \in Object, d \in Conn :
          held'[o][p] = d => held[o][p] = d \/ (p = slot[c] /\ d = c)
    <3>1. PICK e \in {c, None}, f \in {c, None} :
            held' = [held EXCEPT !["enc_ctx"][slot[c]] = e, !["dec_ctx"][slot[c]] = f]
      BY <1>4 DEF InitCtx
    <3> QED
      BY <1>1, <3>1, PeerTableAssumption
  <2> QED
    BY <1>1, <1>2, <1>4, <2>1 DEF InitCtx, PointersAreOwn, Serving
<1>5. CASE ~RecvKey(c) /\ ~InitCtx(c)
  <2>1. \A p \in Slot, o \in Object, d \in Conn : held'[o][p] = d => held[o][p] = d
    BY <1>1, <1>5, Writers, PeerTableAssumption DEF ResetFree
  <2> QED
    BY <1>2, <2>1 DEF PointersAreOwn
<1> QED
  BY <1>3, <1>4, <1>5

\* A step of connection c writes to no slot but its own.
LEMMA WritesOwnSlot ==
  ASSUME TypeOK, SlotGiven, NEW c \in Conn, Step(c), NEW p \in Slot, p # slot[c]
  PROVE  /\ authenticated'[p] = authenticated[p]
         /\ routes'[p] = routes[p]
         /\ \A o \in Object : held'[o][p] = held[o][p]
<1>1. /\ held \in [Object -> [Slot -> Conn \cup {None}]]
      /\ authenticated \in [Slot -> BOOLEAN]
      /\ routes \in [Slot -> SUBSET Conn]
  BY DEF TypeOK
<1>2. authenticated'[p] = authenticated[p]
  BY <1>1, Writers DEF ResetClear, SetAuthenticated
<1>3. routes'[p] = routes[p]
  BY <1>1, Writers DEF ResetClear, AddRoute
<1>4. ASSUME NEW o \in Object
      PROVE  held'[o][p] = held[o][p]
  <2>1. CASE ResetFree(c)
    BY <1>1, <2>1 DEF ResetFree
  <2>2. CASE RecvKey(c)
    BY <1>1, <2>2 DEF RecvKey
  <2>3. CASE InitCtx(c)
    <3>1. PICK e \in {c, None}, f \in {c, None} :
            held' = [held EXCEPT !["enc_ctx"][slot[c]] = e, !["dec_ctx"][slot[c]] = f]
      BY <2>3 DEF InitCtx
    <3> QED
      BY <1>1, <3>1
  <2> QED
    BY <2>1, <2>2, <2>3, Writers
<1> QED
  BY <1>2, <1>3, <1>4

\* Nobody writes to a slot before it is linked.
LEMMA FreshStep ==
  ASSUME TypeOK, SlotGiven, Fresh, NEW c \in Conn, Step(c)
  PROVE  Fresh'
<1>1. npeers \in Nat /\ slot \in [Conn -> 0..MaxSlots]
  BY DEF TypeOK
<1>2. npeers' \in {npeers, npeers + 1}
  BY Writers DEF ScanReuse, ScanAppend
<1>3. ASSUME NEW p \in Slot, p > npeers
      PROVE  /\ authenticated'[p] = authenticated[p] /\ routes'[p] = routes[p]
             /\ \A o \in Object : held'[o][p] = held[o][p]
  <2>1. CASE pc[c] \in {"idle", "scan"}
    BY <2>1, Writers DEF ResetFree, RecvKey, InitCtx, ResetClear, SetAuthenticated, AddRoute
  <2>2. CASE pc[c] \notin {"idle", "scan"}
    <3>1. p # slot[c]
      BY <1>1, <1>3, <2>2, GivenSlot
    <3> QED
      BY <3>1, WritesOwnSlot
  <2> QED
    BY <2>1, <2>2
<1> QED
  BY <1>1, <1>2, <1>3, PeerTableAssumption DEF Fresh, Slot

\* A step of connection c leaves alone what the slot of another one holds.
LEMMA OtherSlots ==
  ASSUME TypeOK, SlotGiven, SlotExclusive, NEW c \in Conn, NEW d \in Conn, Step(c),
         d # c, Writes(d)
  PROVE  /\ pc'[d] = pc[d] /\ slot'[d] = slot[d]
         /\ authenticated'[slot[d]] = authenticated[slot[d]]
         /\ routes'[slot[d]] = routes[slot[d]]
         /\ \A o \in Object : held'[o][slot[d]] = held[o][slot[d]]
<1>1. pc \in [Conn -> PC] /\ slot \in [Conn -> 0..MaxSlots]
  BY DEF TypeOK
<1>2. pc'[d] = pc[d]
  BY <1>1, Moves DEF Accept, ScanReuse, ScanAppend, ResetFree, ResetClear, Revive, MarkDead,
     CloseSocket
<1>3. slot'[d] = slot[d]
  BY <1>1, Writers DEF ScanReuse, ScanAppend
<1>4. slot[d] \in Slot
  BY GivenSlot DEF Writes, Serving
<1>5. CASE Writes(c)
  <2>1. slot[c] # slot[d]
    BY <1>5 DEF SlotExclusive
  <2> QED
    BY <1>2, <1>3, <1>4, <2>1, WritesOwnSlot
<1>6. CASE ~Writes(c)
  <2>1. UNCHANGED <<held, authenticated, routes>>
    BY <1>6, Writers DEF ResetFree, ResetClear, RecvKey, InitCtx, SetAuthenticated, AddRoute,
       Writes, Serving
  <2> QED
    BY <1>2, <1>3, <2>1
<1> QED
  BY <1>5, <1>6

\* A step of connection c frees no object of a connection that has a slot.
LEMMA OtherHeap ==
  ASSUME TypeOK, SlotGiven, PointersAreOwn, SlotExclusive, NEW c \in Conn, NEW d \in Conn, Step(c),
         d # c, Writes(d), NEW o \in Object
  PROVE  heap'[o][d] = heap[o][d]
<1>1. heap \in [Object -> [Conn -> HeapState]]
  BY DEF TypeOK
<1>2. CASE ResetFree(c)
  <2>1. slot[c] # slot[d]
    BY <1>2 DEF ResetFree, SlotExclusive, Writes
  <2>2. slot[c] \in Slot
    BY <1>2, GivenSlot DEF ResetFree
  <2>3. held[o][slot[c]] # d
    BY <2>1, <2>2 DEF PointersAreOwn
  <2>4. heap'[o][d] = Freed(slot[c], o, d)
    BY <1>2 DEF ResetFree, Release
  <2> QED
    BY <2>3, <2>4 DEF Freed
<1>3. CASE RecvKey(c)
  BY <1>1, <1>3 DEF RecvKey
<1>4. CASE InitCtx(c)
  <2>1. PICK e \in {c, None}, f \in {c, None} :
          heap' = [heap EXCEPT !["enc_ctx"][c] = IF e = c THEN "live" ELSE @,
                               !["dec_ctx"][c] = IF f = c THEN "live" ELSE @]
    BY <1>4 DEF InitCtx
  <2> QED
    BY <1>1, <2>1
<1> QED
  BY <1>2, <1>3, <1>4, Writers

\* What is emptied stays empty until the handshake fills it.
LEMMA ClearedStep ==
  ASSUME TypeOK, SlotGiven, SlotExclusive, Cleared, Fresh, NEW c \in Conn, Step(c), NEW d \in Conn
  PROVE  /\ pc'[d] \in {"clear", "revive", "auth"} => held'["pubkey"][slot'[d]] = None
         /\ pc'[d] \in {"clear", "revive", "auth", "keyed"} => held'["enc_ctx"][slot'[d]] = None
         /\ pc'[d] \in {"revive", "auth", "keyed", "ctx"} =>
               ~authenticated'[slot'[d]] /\ routes'[slot'[d]] = {}
<1>1. pc \in [Conn -> PC] /\ slot \in [Conn -> 0..MaxSlots] /\ npeers \in Nat
      /\ held \in [Object -> [Slot -> Conn \cup {None}]]
      /\ authenticated \in [Slot -> BOOLEAN] /\ routes \in [Slot -> SUBSET Conn]
  BY DEF TypeOK
<1>2. CASE d # c
  <2>1. CASE Writes(d)
    BY <1>2, <2>1, OtherSlots DEF Cleared, Object
  <2>2. CASE ~Writes(d)
    <3>1. pc'[d] = pc[d]
      BY <1>1, <1>2, Moves DEF Accept, ScanReuse, ScanAppend, ResetFree, ResetClear, Revive, MarkDead, CloseSocket
    <3> QED
      BY <3>1, <2>2 DEF Writes, Serving
  <2> QED
    BY <2>1, <2>2
<1>3. CASE d = c
  <2>1. CASE ScanAppend(c)
    <3>1. npeers + 1 \in Slot /\ npeers + 1 > npeers
      BY <1>1, <2>1, PeerTableAssumption DEF ScanAppend, Slot
    <3> QED
      BY <1>1, <1>3, <2>1, <3>1 DEF ScanAppend, Fresh, Object
  <2>2. CASE ResetFree(c)
    <3>1. slot[c] \in Slot
      BY <2>2, GivenSlot DEF ResetFree
    <3> QED
      BY <1>1, <1>3, <2>2, <3>1 DEF ResetFree, Object
  <2>3. CASE ResetClear(c)
    <3>1. slot[c] \in Slot
      BY <2>3, GivenSlot DEF ResetClear
    <3> QED
      BY <1>1, <1>3, <2>3, <3>1 DEF ResetClear, Cleared
  <2>4. CASE RecvKey(c)
    <3>1. slot[c] \in Slot
      BY <2>4, GivenSlot DEF RecvKey
    <3> QED
      BY <1>1, <1>3, <2>4, <3>1 DEF RecvKey, Cleared, Object
  <2>5. CASE Revive(c)
    BY <1>1, <1>3, <2>5 DEF Revive, Cleared
  <2>6. CASE InitCtx(c)
    BY <1>1, <1>3, <2>6 DEF InitCtx, Cleared
  <2>7. CASE AddRoute(c)
    BY <1>1, <1>3, <2>7 DEF AddRoute, Cleared
  <2>8. CASE ~(ScanAppend(c) \/ ResetFree(c) \/ ResetClear(c) \/ RecvKey(c) \/ Revive(c) \/ InitCtx(c) \/ AddRoute(c))
    BY <1>1, <1>3, <2>8
       DEF Cleared, Step, MainThread, PeerThreads, Environment, Accept, ScanNext, ScanReuse,
           SetAuthenticated, CtxFail, EndReceive, MarkDead, CloseSocket, AuthReject, RemoteEnd
  <2> QED
    BY <2>1, <2>2, <2>3, <2>4, <2>5, <2>6, <2>7, <2>8
<1> QED
  BY <1>2, <1>3

\* What the handshake has filled stays the connection's own.
LEMMA EstablishedStep ==
  ASSUME TypeOK, SlotGiven, SlotExclusive, PointersAreOwn, Cleared, Established,
         NEW c \in Conn, Step(c)
  PROVE  Established'
<1>1. pc \in [Conn -> PC] /\ slot \in [Conn -> 0..MaxSlots]
      /\ held \in [Object -> [Slot -> Conn \cup {None}]]
      /\ heap \in [Object -> [Conn -> HeapState]]
      /\ authenticated \in [Slot -> BOOLEAN] /\ routes \in [Slot -> SUBSET Conn]
  BY DEF TypeOK
<1> DEFINE
  Key(d) == pc[d] \in {"keyed", "ctx"} =>
              held["pubkey"][slot[d]] = d /\ heap["pubkey"][d] = "live"
  Ctx(d) == pc[d] = "ctx" => \A o \in {"enc_ctx", "dec_ctx"} :
              held[o][slot[d]] \in {d, None} /\ (held[o][slot[d]] = d => heap[o][d] = "live")
  Rts(d) == pc[d] \in {"recv", "joined"} => routes[slot[d]] \subseteq {d}
  Auth(d) == pc[d] \in {"recv", "joined"} /\ authenticated[slot[d]] =>
               \A o \in Object : held[o][slot[d]] = d /\ heap[o][d] = "live"
<1>2. ASSUME NEW d \in Conn, d # c
      PROVE  Key(d)' /\ Ctx(d)' /\ Rts(d)' /\ Auth(d)'
  <2>1. CASE Writes(d)
    <3>1. \A o \in Object : heap'[o][d] = heap[o][d]
      BY <1>2, <2>1, OtherHeap
    <3> QED
      BY <1>2, <2>1, <3>1, OtherSlots DEF Established, Object
  <2>2. CASE ~Writes(d)
    <3>1. pc'[d] = pc[d]
      BY <1>1, <1>2, Moves DEF Accept, ScanReuse, ScanAppend, ResetFree, ResetClear, Revive,
         MarkDead, CloseSocket
    <3> QED
      BY <3>1, <2>2 DEF Writes, Serving
  <2> QED
    BY <2>1, <2>2
<1>3. Key(c)' /\ Ctx(c)' /\ Rts(c)' /\ Auth(c)'
  <2>1. CASE RecvKey(c)
    <3>1. slot[c] \in Slot
      BY <2>1, GivenSlot DEF RecvKey
    <3> QED
      BY <1>1, <2>1, <3>1 DEF RecvKey, Object
  <2>2. CASE InitCtx(c)
    <3>1. slot[c] \in Slot
      BY <2>2, GivenSlot DEF InitCtx
    <3>2. PICK e \in {c, None}, f \in {c, None} :
          /\ held' = [held EXCEPT !["enc_ctx"][slot[c]] = e, !["dec_ctx"][slot[c]] = f]
          /\ heap' = [heap EXCEPT !["enc_ctx"][c] = IF e = c THEN "live" ELSE @,
                                  !["dec_ctx"][c] = IF f = c THEN "live" ELSE @]
      BY <2>2 DEF InitCtx
    <3>3. pc' = [pc EXCEPT ![c] = "ctx"] /\ pc[c] = "keyed" /\ slot' = slot
      BY <2>2 DEF InitCtx
    <3>4. Key(c)
      BY DEF Established
    <3>5. Key(c)' 
      BY <1>1, <3>1, <3>2, <3>3, <3>4 DEF Object
    <3>6. Ctx(c)' 
      BY <1>1, <3>1, <3>2, <3>3, PeerTableAssumption DEF Object
    <3> QED
      BY <1>1, <3>3, <3>5, <3>6
  <2>3. CASE SetAuthenticated(c)
    <3>1. slot[c] \in Slot
      BY <2>3, GivenSlot DEF SetAuthenticated
    <3>2. pc' = [pc EXCEPT ![c] = "recv"] /\ pc[c] = "ctx" /\ UNCHANGED <<slot, held, heap, routes>>
      BY <2>3 DEF SetAuthenticated
    <3>3. \A o \in Object : held[o][slot[c]] = c /\ heap[o][c] = "live"
      BY <2>3, <3>2 DEF SetAuthenticated, Established, Object
    <3>4. routes[slot[c]] = {}
      BY <3>2 DEF Cleared
    <3> QED
      BY <1>1, <3>2, <3>3, <3>4
  <2>4. CASE AddRoute(c)
    <3>1. slot[c] \in Slot
      BY <2>4, GivenSlot DEF AddRoute
    <3> QED
      BY <1>1, <2>4, <3>1 DEF AddRoute, Established
  <2>5. CASE AuthReject(c) \/ CtxFail(c) \/ EndReceive(c)
    BY <1>1, <2>5 DEF AuthReject, CtxFail, EndReceive, Established, Cleared
  <2>6. CASE MarkDead(c) \/ CloseSocket(c) \/ Accept(c) \/ ScanNext(c) \/ RemoteEnd(c)
    BY <1>1, <2>6 DEF MarkDead, CloseSocket, Accept, ScanNext, RemoteEnd, Established
  <2>7. CASE ScanReuse(c) \/ ScanAppend(c) \/ ResetFree(c) \/ ResetClear(c) \/ Revive(c)
    <3>1. pc'[c] \in {"free", "clear", "revive", "auth"}
      BY <1>1, <2>7 DEF ScanReuse, ScanAppend, ResetFree, ResetClear, Revive
    <3> QED
      BY <3>1
  <2> QED
    BY <2>1, <2>2, <2>3, <2>4, <2>5, <2>6, <2>7 DEF Step, MainThread, PeerThreads, Environment
<1> QED
  BY <1>2, <1>3 DEF Established

\* The keys and encryption contexts stay accounted for.
LEMMA AccountedStep ==
  ASSUME TypeOK, SlotGiven, PointersAreOwn, Cleared, Accounted, NEW c \in Conn, Step(c),
         NEW o \in {"pubkey", "enc_ctx"}, NEW d \in Conn
  PROVE  /\ heap'[o][d] # "freed twice"
         /\ heap'[o][d] = "live" <=> slot'[d] \in Slot /\ held'[o][slot'[d]] = d
<1>1. /\ slot \in [Conn -> 0..MaxSlots] /\ npeers \in Nat /\ o \in Object
      /\ held \in [Object -> [Slot -> Conn \cup {None}]]
      /\ heap \in [Object -> [Conn -> HeapState]]
  BY DEF TypeOK, Object
<1>a. /\ heap[o][d] # "freed twice"
      /\ heap[o][d] = "live" <=> slot[d] \in Slot /\ held[o][slot[d]] = d
  BY DEF Accounted
<1>2. CASE ScanReuse(c) \/ ScanAppend(c)
  <2>1. UNCHANGED <<held, heap>> /\ pc[c] = "scan" /\ \A e \in Conn \ {c} : slot'[e] = slot[e]
    BY <1>1, <1>2 DEF ScanReuse, ScanAppend
  <2>2. CASE d = c
    <3>1. \A p \in Slot : held[o][p] # d
      BY <1>1, <2>1, <2>2 DEF PointersAreOwn, Serving
    <3> QED
      BY <1>a, <2>1, <3>1
  <2>3. CASE d # c
    BY <1>a, <2>1, <2>3
  <2> QED
    BY <2>2, <2>3
<1>3. CASE ResetFree(c)
  <2>1. slot[c] \in Slot /\ slot' = slot
    BY <1>3, GivenSlot DEF ResetFree
  <2>2. heap'[o][d] = Freed(slot[c], o, d)
    BY <1>1, <1>3 DEF ResetFree, Release
  <2>3. held'[o] = [held[o] EXCEPT ![slot[c]] = None]
    BY <1>1, <1>3 DEF ResetFree
  <2>4. CASE held[o][slot[c]] = d
    <3>1. slot[d] = slot[c]
      BY <1>1, <2>1, <2>4 DEF PointersAreOwn
    <3>2. heap'[o][d] = "freed"
      BY <1>a, <2>1, <2>2, <2>4, <3>1 DEF Freed
    <3>3. held'[o][slot[d]] = None
      BY <1>1, <2>1, <2>3, <3>1
    <3> QED
      BY <2>1, <3>2, <3>3, PeerTableAssumption
  <2>5. CASE held[o][slot[c]] # d
    <3>1. heap'[o][d] = heap[o][d]
      BY <2>2, <2>5 DEF Freed
    <3>2. slot[d] \in Slot => (held'[o][slot[d]] = d <=> held[o][slot[d]] = d)
      BY <1>1, <2>1, <2>3, <2>5, PeerTableAssumption
    <3> QED
      BY <1>a, <2>1, <3>1, <3>2
  <2> QED
    BY <2>4, <2>5
<1>4. CASE RecvKey(c)
  <2>1. slot[c] \in Slot /\ slot' = slot
    BY <1>4, GivenSlot DEF RecvKey
  <2>2. o = "pubkey" => held[o][slot[c]] = None
    BY <1>4 DEF RecvKey, Cleared
  <2>3. held' = [held EXCEPT !["pubkey"][slot[c]] = c] /\ heap' = [heap EXCEPT !["pubkey"][c] = "live"]
    BY <1>4 DEF RecvKey
  <2>4. CASE o = "pubkey"
    BY <1>1, <1>a, <2>1, <2>2, <2>3, <2>4, PeerTableAssumption
  <2>5. CASE o = "enc_ctx"
    BY <1>1, <1>a, <2>1, <2>3, <2>5
  <2> QED
    BY <2>4, <2>5
<1>5. CASE InitCtx(c)
  <2>1. slot[c] \in Slot /\ slot' = slot
    BY <1>5, GivenSlot DEF InitCtx
  <2>2. o = "enc_ctx" => held[o][slot[c]] = None
    BY <1>5 DEF InitCtx, Cleared
  <2>3. PICK e \in {c, None}, f \in {c, None} :
          /\ held' = [held EXCEPT !["enc_ctx"][slot[c]] = e, !["dec_ctx"][slot[c]] = f]
          /\ heap' = [heap EXCEPT !["enc_ctx"][c] = IF e = c THEN "live" ELSE @,
                                  !["dec_ctx"][c] = IF f = c THEN "live" ELSE @]
    BY <1>5 DEF InitCtx
  <2>4. CASE o = "pubkey"
    BY <1>1, <1>a, <2>1, <2>3, <2>4
  <2>5. CASE o = "enc_ctx"
    BY <1>1, <1>a, <2>1, <2>2, <2>3, <2>5, PeerTableAssumption
  <2> QED
    BY <2>4, <2>5
<1>6. CASE ~(ScanReuse(c) \/ ScanAppend(c) \/ ResetFree(c) \/ RecvKey(c) \/ InitCtx(c))
  BY <1>6, Writers DEF Accounted
<1> QED
  BY <1>2, <1>3, <1>4, <1>5, <1>6

\* Sets of slots below the scan's bound are finite and can be counted.
LEMMA CountSubset ==
  ASSUME TypeOK, NEW T, T \subseteq (1..cursor - 1) \cup AliveSlots
  PROVE  /\ IsFiniteSet(T) /\ Cardinality(T) \in Nat
         /\ Cardinality((1..cursor - 1) \cup AliveSlots) \in Nat
         /\ Cardinality(T) <= Cardinality((1..cursor - 1) \cup AliveSlots)
<1>1. npeers \in Nat /\ cursor - 1 \in Int /\ 1 \in Int
  BY PeerTableAssumption DEF TypeOK
<1>2. IsFiniteSet(1..cursor - 1) /\ IsFiniteSet(AliveSlots)
  BY <1>1, FS_Interval, AliveSlotsFinite
<1>3. IsFiniteSet((1..cursor - 1) \cup AliveSlots)
  BY <1>2, FS_Union
<1> QED
  BY <1>3, FS_Subset, FS_CardinalityType

\* A slot passed by the scan stays counted, even when it dies afterwards.
LEMMA ScanCountedStep ==
  ASSUME TypeOK, OneAdder, ScanCounted, NEW c \in Conn, Step(c)
  PROVE  ScanCounted'
<1>1. pc \in [Conn -> PC] /\ cursor \in Nat \ {0} /\ peak \in Nat
  BY PeerTableAssumption DEF TypeOK
<1>2. CASE Accept(c)
  <2>1. \A d \in Conn : pc'[d] = "scan" => d = c
    BY <1>1, <1>2 DEF Accept, Adding
  <2>2. cursor' = 1 /\ AliveSlots' = AliveSlots
    BY <1>2 DEF Accept, AliveSlots
  <2>3. (1..cursor' - 1) \cup AliveSlots' = AliveSlots
    BY <2>2
  <2>4. Cardinality(AliveSlots) \in Nat
    BY CountSubset
  <2>5. Cardinality(AliveSlots) < peak'
    BY <1>1, <1>2, <2>4 DEF Accept
  <2> QED
    BY <2>3, <2>5 DEF ScanCounted
<1>3. CASE ScanNext(c)
  <2>1. cursor' = cursor + 1 /\ cursor \in AliveSlots /\ AliveSlots' = AliveSlots /\ peak' = peak /\ pc' = pc
    BY <1>1, <1>3 DEF ScanNext, AliveSlots
  <2>2. 1..cursor' - 1 = (1..cursor - 1) \cup {cursor}
    BY <1>1, <2>1
  <2>3. (1..cursor' - 1) \cup AliveSlots' = (1..cursor - 1) \cup AliveSlots
    BY <2>1, <2>2
  <2> QED
    BY <2>1, <2>3 DEF ScanCounted
<1>4. CASE ~Accept(c) /\ ~ScanNext(c)
  <2> SUFFICES ASSUME NEW d \in Conn, pc'[d] = "scan"
               PROVE  Cardinality((1..cursor' - 1) \cup AliveSlots') < peak'
    BY DEF ScanCounted
  <2>1. pc[d] = "scan"
    BY <1>1, <1>4, Moves DEF ScanReuse, ScanAppend, ResetFree, ResetClear, Revive, MarkDead, CloseSocket
  <2>2. ~ScanAppend(c) /\ ~Revive(c) /\ ~ScanReuse(c)
    BY <1>1, <2>1 DEF ScanAppend, Revive, ScanReuse, OneAdder, Adding
  <2>3. cursor' = cursor /\ peak' = peak
    BY <1>4 DEF Step, MainThread, PeerThreads, Environment, ScanReuse, ScanAppend, ResetFree, ResetClear,
       Revive, SetAuthenticated, CtxFail, EndReceive, MarkDead, CloseSocket, RecvKey, InitCtx,
       AuthReject, AddRoute, RemoteEnd
  <2>4. AliveSlots' \subseteq AliveSlots
    <3>1. npeers' = npeers
      BY <2>2, Writers
    <3>2. \A p \in 1..npeers : alive'[p] => alive[p]
      <4>1. CASE MarkDead(c)
        <5>1. alive \in [Slot -> BOOLEAN] /\ alive' = [alive EXCEPT ![slot[c]] = FALSE]
          BY <4>1 DEF MarkDead, TypeOK
        <5>2. 1..npeers \subseteq Slot
          BY PeerTableAssumption DEF TypeOK, Slot
        <5> QED
          BY <5>1, <5>2
      <4>2. CASE ~MarkDead(c)
        BY <4>2, <2>2, Writers
      <4> QED
        BY <4>1, <4>2
    <3> QED
      BY <3>1, <3>2 DEF AliveSlots
  <2>5. (1..cursor' - 1) \cup AliveSlots' \subseteq (1..cursor - 1) \cup AliveSlots
    BY <2>3, <2>4
  <2>6. Cardinality((1..cursor - 1) \cup AliveSlots) < peak
    BY <2>1 DEF ScanCounted
  <2> DEFINE T == (1..cursor' - 1) \cup AliveSlots'
             S == (1..cursor - 1) \cup AliveSlots
  <2>7. T \subseteq S /\ Cardinality(S) < peak
    BY <2>5, <2>6
  <2> HIDE DEF T
  <2>8. Cardinality(T) \in Nat /\ Cardinality(S) \in Nat /\ Cardinality(T) <= Cardinality(S)
    BY <2>7, CountSubset
  <2> HIDE DEF S
  <2>9. Cardinality(T) < peak'
    BY <1>1, <2>3, <2>7, <2>8
  <2> QED
    BY <2>9 DEF T
<1> QED
  BY <1>2, <1>3, <1>4

\* The list grows only when every slot of it was alive at the accept.
LEMMA PoolStep ==
  ASSUME TypeOK, ScanCounted, PoolBounded, NEW c \in Conn, Step(c)
  PROVE  PoolBounded'
<1>1. npeers \in Nat /\ cursor \in Nat \ {0} /\ peak \in Nat
  BY PeerTableAssumption DEF TypeOK
<1>2. CASE ScanAppend(c)
  <2>1. npeers' = npeers + 1 /\ peak' = peak /\ pc[c] = "scan" /\ cursor > npeers
    BY <1>2 DEF ScanAppend
  <2>2. 1..npeers \subseteq (1..cursor - 1) \cup AliveSlots
    BY <1>1, <2>1
  <2>3. Cardinality(1..npeers) = npeers
    BY <1>1, FS_Interval
  <2>4. npeers <= Cardinality((1..cursor - 1) \cup AliveSlots)
        /\ Cardinality((1..cursor - 1) \cup AliveSlots) \in Nat
    BY <2>2, <2>3, CountSubset
  <2>5. Cardinality((1..cursor - 1) \cup AliveSlots) < peak
    BY <2>1 DEF ScanCounted
  <2> QED
    BY <1>1, <2>1, <2>4, <2>5 DEF PoolBounded
<1>3. CASE Accept(c)
  <2>1. Cardinality(AliveSlots) \in Nat
    BY CountSubset
  <2> QED
    BY <1>1, <1>3, <2>1 DEF Accept, PoolBounded
<1>4. CASE ~ScanAppend(c) /\ ~Accept(c)
  BY <1>4 DEF PoolBounded, Step, MainThread, PeerThreads, Environment, ScanNext, ScanReuse, ResetFree, ResetClear,
       Revive, SetAuthenticated, CtxFail, EndReceive, MarkDead, CloseSocket, RecvKey, InitCtx,
       AuthReject, AddRoute, RemoteEnd
<1> QED
  BY <1>2, <1>3, <1>4

-----------------------------------------------------------------------------
(***************************************************************************)
(* The theorems.                                                           *)
(***************************************************************************)
\* The invariant holds at the start.
LEMMA InitInv == Init => IInv
<1> SUFFICES ASSUME Init PROVE IInv
  OBVIOUS
<1> USE PeerTableAssumption DEF Init, initialize_peer
<1>1. TypeOK
  BY DEF TypeOK, PC, HeapState
<1>2. OneAdder /\ SlotGiven /\ SlotExclusive /\ DeadWhileReset /\ AliveIsServed
  BY DEF OneAdder, SlotGiven, SlotExclusive, DeadWhileReset, AliveIsServed, Writes, Adding, Serving
<1>3. PointersAreOwn /\ Cleared /\ Established
  BY DEF PointersAreOwn, Cleared, Established
<1>4. Accounted /\ Fresh
  BY DEF Accounted, Fresh, Object, Slot
<1>5. ScanCounted /\ PoolBounded
  BY DEF ScanCounted, PoolBounded
<1> QED
  BY <1>1, <1>2, <1>3, <1>4, <1>5 DEF IInv

\* The invariant is inductive.
LEMMA StepInv == IInv /\ [Next]_vars => IInv'
<1> SUFFICES ASSUME IInv, [Next]_vars PROVE IInv'
  OBVIOUS
<1>1. CASE UNCHANGED vars
  <2> USE <1>1 DEF vars
  <2>1. TypeOK' /\ OneAdder' /\ SlotGiven' /\ SlotExclusive' /\ DeadWhileReset' /\ AliveIsServed'
    BY DEF IInv, TypeOK, OneAdder, SlotGiven, SlotExclusive, DeadWhileReset, AliveIsServed, Writes
  <2>2. PointersAreOwn' /\ Cleared' /\ Fresh'
    BY DEF IInv, PointersAreOwn, Cleared, Fresh
  <2>4. Established'
    BY DEF IInv, Established
  <2>5. Accounted'
    BY DEF IInv, Accounted
  <2>3. ScanCounted' /\ PoolBounded'
    BY DEF IInv, ScanCounted, PoolBounded, AliveSlots
  <2> QED
    BY <2>1, <2>2, <2>3, <2>4, <2>5 DEF IInv
<1>2. ASSUME NEW c \in Conn, Step(c)
      PROVE  IInv'
  <2> USE <1>2
  <2>1. TypeOK' /\ OneAdder' /\ SlotGiven' /\ SlotExclusive'
    BY TypeStep, OneAdderStep, SlotGivenStep, ExclusiveStep DEF IInv
  <2>2. DeadWhileReset' /\ AliveIsServed' /\ PointersAreOwn' /\ Fresh'
    BY DeadStep, ServedStep, PointersStep, FreshStep DEF IInv
  <2>3. Cleared'
    BY ClearedStep DEF IInv, Cleared
  <2>4. Established'
    BY EstablishedStep DEF IInv
  <2>5. Accounted'
    BY AccountedStep DEF IInv, Accounted
  <2>6. ScanCounted' /\ PoolBounded'
    BY ScanCountedStep, PoolStep DEF IInv
  <2> QED
    BY <2>1, <2>2, <2>3, <2>4, <2>5, <2>6 DEF IInv
<1> QED
  BY <1>1, <1>2 DEF Next

\* The inductive invariant holds in every reachable state of the slot table.
THEOREM Invariance == Spec => []IInv
  BY InitInv, StepInv, PTL DEF Spec

\* The variables keep their types.
THEOREM TypeCorrect == Spec => []TypeOK
<1>1. IInv => TypeOK
  BY DEF IInv
<1> QED
  BY <1>1, Invariance, PTL

\* add_peer never resets a slot while the threads of a connection use it, and no
\* two connections ever write to one slot (peer.c:148-171, 202-222).
THEOREM Exclusion == Spec => []SlotExclusive
<1>1. IInv => SlotExclusive
  BY DEF IInv
<1> QED
  BY <1>1, Invariance, PTL

\* add_peer allocates a slot only when none was free: the list is never longer than
\* the number of connections that once needed a slot together (peer.c:152-170).
THEOREM Pool == Spec => []PoolBounded
<1>1. IInv => PoolBounded
  BY DEF IInv
<1> QED
  BY <1>1, Invariance, PTL

\* A live slot is served by a connection that was given it.
LEMMA Server ==
  ASSUME IInv, NEW p \in 1..npeers, alive[p]
  PROVE  \E c \in Conn : slot[c] = p /\ pc[c] \in Serving
<1>1. p \in Slot
  BY PeerTableAssumption DEF IInv, TypeOK, Slot
<1> QED
  BY <1>1 DEF IInv, AliveIsServed

\* What send_data_to_peer encrypts with, once it has seen alive and authenticated,
\* are the present connection's own contexts (peer.c:75-87, peer_net.c:384-393).
THEOREM Sendable == Spec => []SendableIsOwn
<1>1. IInv => SendableIsOwn
  <2> SUFFICES ASSUME IInv, NEW p \in 1..npeers, alive[p], authenticated[p]
               PROVE  \E c \in Conn : /\ slot[c] = p /\ pc[c] \in {"recv", "joined"}
                                      /\ \A o \in Object : held[o][p] = c /\ heap[o][c] = "live"
    BY DEF SendableIsOwn
  <2>1. PICK c \in Conn : slot[c] = p /\ pc[c] \in Serving
    BY Server
  <2>2. pc[c] \in {"recv", "joined"}
    BY <2>1 DEF IInv, Cleared, Serving
  <2> QED
    BY <2>1, <2>2 DEF IInv, Established
<1> QED
  BY <1>1, Invariance, PTL

\* get_peer_route finds in a live slot only what its present connection has taught
\* (peer.c:84-87, 252-259).
THEOREM OwnRoutes == Spec => []RoutesAreOwn
<1>1. IInv => RoutesAreOwn
  <2> SUFFICES ASSUME IInv, NEW p \in 1..npeers, alive[p], NEW c \in routes[p]
               PROVE  slot[c] = p /\ pc[c] \in {"recv", "joined"}
    BY DEF RoutesAreOwn
  <2>1. PICK d \in Conn : slot[d] = p /\ pc[d] \in Serving
    BY Server
  <2>2. pc[d] \in {"recv", "joined"} /\ c = d
    BY <2>1 DEF IInv, Cleared, Established, Serving
  <2> QED
    BY <2>1, <2>2
<1> QED
  BY <1>1, Invariance, PTL

\* Keys and encryption contexts are neither leaked nor freed twice when slots are
\* reused (peer.c:75-82).
THEOREM Accounting == Spec => []ObjectsAccounted
<1>1. IInv => ObjectsAccounted
  <2> SUFFICES ASSUME IInv, NEW o \in {"pubkey", "enc_ctx"}, NEW c \in Conn
               PROVE  /\ heap[o][c] # "freed twice"
                      /\ Cardinality({p \in Slot : held[o][p] = c}) = IF heap[o][c] = "live" THEN 1 ELSE 0
    BY DEF ObjectsAccounted
  <2>1. /\ heap[o][c] # "freed twice"
        /\ heap[o][c] = "live" <=> slot[c] \in Slot /\ held[o][slot[c]] = c
    BY DEF IInv, Accounted
  <2>2. \A p \in Slot : held[o][p] = c => slot[c] = p
    BY DEF IInv, PointersAreOwn, Object
  <2>3. CASE heap[o][c] = "live"
    <3>1. {p \in Slot : held[o][p] = c} = {slot[c]}
      BY <2>1, <2>2, <2>3
    <3> QED
      BY <2>1, <2>3, <3>1, FS_Singleton
  <2>4. CASE heap[o][c] # "live"
    <3>1. {p \in Slot : held[o][p] = c} = {}
      BY <2>1, <2>2, <2>4
    <3> QED
      BY <2>1, <2>4, <3>1, FS_EmptySet
  <2> QED
    BY <2>3, <2>4
<1> QED
  BY <1>1, Invariance, PTL

\* Until a slot is dead, its socket is not replaced, its routes are not dropped and
\* its authentication is not revoked (peer.c:65-88).
THEOREM Intact == Spec => LiveSlotIntact
<1> DEFINE A(p) == alive[p] /\ alive'[p] => /\ s'[p] = s[p]
                                            /\ routes[p] \subseteq routes'[p]
                                            /\ authenticated[p] => authenticated'[p]
<1>1. IInv /\ [Next]_vars => [\A p \in Slot : A(p)]_vars
  <2> SUFFICES ASSUME IInv, NEW c \in Conn, Step(c), NEW p \in Slot, alive[p], alive'[p]
               PROVE  A(p)
    BY DEF Next, vars
  <2>1. /\ s \in [Slot -> Fd \cup {None}] /\ npeers \in Nat /\ slot \in [Conn -> 0..MaxSlots]
        /\ authenticated \in [Slot -> BOOLEAN] /\ routes \in [Slot -> SUBSET Conn]
    BY DEF IInv, TypeOK
  <2>2. PICK d \in Conn : slot[d] = p /\ pc[d] \in Serving
    BY DEF IInv, AliveIsServed
  <2>3. p # npeers + 1
    BY <2>1, <2>2, GivenSlot DEF IInv, Serving
  <2>4. ~(pc[c] \in {"free", "clear", "revive"} /\ slot[c] = p)
    BY DEF IInv, DeadWhileReset
  <2>5. s'[p] = s[p]
    BY <2>1, <2>3, <2>4 DEF Step, MainThread, PeerThreads, Environment, Accept, ScanNext, ScanReuse, ScanAppend,
         ResetFree, ResetClear, Revive, SetAuthenticated, CtxFail, EndReceive, MarkDead,
         CloseSocket, RecvKey, InitCtx, AuthReject, AddRoute, RemoteEnd
  <2>6. routes[p] \subseteq routes'[p]
    BY <2>1, <2>4, Writers DEF ResetClear, AddRoute
  <2>7. authenticated[p] => authenticated'[p]
    BY <2>1, <2>4, Writers DEF ResetClear, SetAuthenticated
  <2> QED
    BY <2>5, <2>6, <2>7
<1> QED
  BY <1>1, Invariance, PTL DEF Spec, LiveSlotIntact
=============================================================================
