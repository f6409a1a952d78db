---------------------------- MODULE SendersProofs ----------------------------
(***************************************************************************)
(* Proofs, for any number of connections, slots and senders, about the     *)
(* threads that send to the slots of PeerTable while these are reused.     *)
(*                                                                         *)
(* The argument.  Senders write nothing that the table has, so its         *)
(* invariant IInv holds here too.  What a sender has seen of its slot is   *)
(* tied to the connection that was in it: until that connection is gone    *)
(* the slot is served by it alone, so that it is still authenticated, and  *)
(* its context and its socket are those the handshake and accept() made.   *)
(***************************************************************************)
EXTENDS Senders, PeerTableProofs

Past == {"authenticated", "encrypting", "lock", "sending"}

\* A sender's peer is in the list, and the connection it saw there had that slot.
PeerSeen ==
  \A t \in Sender : at[t] # "idle" =>
    /\ saw[t] \in Conn
    /\ peer[t] \in 1..npeers
    /\ slot[saw[t]] = peer[t]
    /\ pc[saw[t]] \in Serving \cup {"closing", "closed"}

\* Once a sender has seen the flag, the connection stays authenticated until it goes.
StillAuthenticated ==
  \A t \in Sender : at[t] \in Past /\ ~Gone(saw[t]) =>
    pc[saw[t]] \in {"recv", "joined"} /\ authenticated[peer[t]]

\* The context that was read is the one of the connection that was seen.
ContextRead ==
  \A t \in Sender : at[t] \in {"encrypting", "lock", "sending"} /\ ~Gone(saw[t]) =>
    enc[t] = saw[t]

\* The slot of a connection that is served has the descriptor accept() returned for it.
SocketKept == \A c \in Conn : pc[c] \in Serving => s[slot[c]] = fd[c]

\* Who sends holds the mutex, unless it was initialised again since.
MutexOwn ==
  \A t \in Sender : at[t] = "sending" /\ peer[t] \notin torn => mutex[peer[t]] = t

SInv ==
  /\ SendersTypeOK
  /\ PeerSeen
  /\ StillAuthenticated
  /\ ContextRead
  /\ SocketKept
  /\ MutexOwn

USE DEF Goto, peers, Move, Return, senders

-----------------------------------------------------------------------------
(***************************************************************************)
(* Every step of the senders is a stutter of the table.                    *)
(***************************************************************************)
\* A step of a sender leaves the table as it is.
LEMMA SendLeavesTable ==
  ASSUME NEW t \in Sender, Send(t)
  PROVE  UNCHANGED vars
  BY DEF Send, SeeAlive, SeeAuthenticated, NotAuthenticated, ReadContext, Encrypted, EncryptFails,
         Lock, Unlock

\* A step of the whole is a step of the table, or leaves the table as it is.
LEMMA StepOfTable == [SendersNext]_svars => [Next]_vars
<1>1. CASE UNCHANGED svars
  BY <1>1 DEF svars
<1>2. CASE \E c \in Conn : Step(c) /\ Table(c)
  BY <1>2 DEF Next
<1>3. CASE \E t \in Sender : Send(t)
  BY <1>3, SendLeavesTable
<1> QED
  BY <1>1, <1>2, <1>3 DEF SendersNext

\* Theorem: senders do nothing to the table that it would not do alone
\* (send_data_to_peer only reads the fields of struct peer).
THEOREM SendersReadOnly == SendersSpec => Spec
<1>1. SendersInit => Init
  BY DEF SendersInit
<1> QED
  BY <1>1, StepOfTable, PTL DEF SendersSpec, Spec

-----------------------------------------------------------------------------
(***************************************************************************)
(* What a step of the table leaves alone.                                  *)
(***************************************************************************)
\* A connection that has left add_peer keeps its slot and goes on as the code does.
LEMMA Onward ==
  ASSUME TypeOK, NEW c \in Conn, Step(c), NEW d \in Conn,
         pc[d] \in Serving \cup {"closing", "closed"}
  PROVE  /\ slot'[d] = slot[d]
         /\ pc'[d] \in Serving \cup {"closing", "closed"}
         /\ Gone(d) => Gone(d)'
         /\ pc[d] \in {"recv", "joined"} => pc'[d] \in {"recv", "joined", "closing"}
<1>1. pc \in [Conn -> PC] /\ slot \in [Conn -> 0..MaxSlots]
  BY DEF TypeOK
<1>2. slot'[d] = slot[d]
  BY <1>1, Writers DEF ScanReuse, ScanAppend, Serving
<1>3. pc'[d] \in Serving \cup {"closing", "closed"}
  BY <1>1, Moves DEF Accept, ScanReuse, ScanAppend, ResetFree, ResetClear, Revive, MarkDead,
                     CloseSocket, Serving
<1>4. Gone(d) => Gone(d)'
  BY <1>1, Moves DEF Accept, ScanReuse, ScanAppend, ResetFree, ResetClear, Revive, MarkDead,
                     CloseSocket, Gone
<1>5. pc[d] \in {"recv", "joined"} => pc'[d] \in {"recv", "joined", "closing"}
  BY <1>1, Moves DEF Accept, ScanReuse, ScanAppend, ResetFree, ResetClear, Revive, MarkDead,
                     CloseSocket
<1> QED
  BY <1>2, <1>3, <1>4, <1>5

\* An authentication is not revoked while its connection is served.
LEMMA AuthenticatedKept ==
  ASSUME TypeOK, SlotGiven, SlotExclusive, NEW c \in Conn, Step(c), NEW d \in Conn,
         pc[d] \in Serving, authenticated[slot[d]]
  PROVE  authenticated'[slot[d]]
<1>1. authenticated \in [Slot -> BOOLEAN] /\ pc \in [Conn -> PC]
  BY DEF TypeOK
<1>2. slot[d] \in Slot
  BY GivenSlot DEF Serving
<1>3. CASE ResetClear(c)
  <2>1. slot[c] # slot[d]
    BY <1>3 DEF ResetClear, SlotExclusive, Writes, Serving
  <2> QED
    BY <1>1, <1>2, <1>3, <2>1 DEF ResetClear
<1>4. CASE SetAuthenticated(c)
  BY <1>1, <1>2, <1>4 DEF SetAuthenticated
<1> QED
  BY <1>3, <1>4, Writers

\* Which steps write to the socket of a slot, and to the descriptor of a connection.
LEMMA SocketWriters ==
  ASSUME NEW c \in Conn, Step(c)
  PROVE  /\ UNCHANGED s \/ ScanAppend(c) \/ Revive(c)
         /\ UNCHANGED fd \/ Accept(c)
  BY DEF Step, MainThread, PeerThreads, Environment, Accept, ScanNext, ScanReuse, ScanAppend,
         ResetFree, ResetClear, Revive, SetAuthenticated, CtxFail, EndReceive, MarkDead,
         CloseSocket, RecvKey, InitCtx, AuthReject, AddRoute, RemoteEnd

-----------------------------------------------------------------------------
(***************************************************************************)
(* Every step keeps every conjunct of the invariant.                       *)
(***************************************************************************)
\* Only set_peer_info, or the end of the list, gives a slot a socket.
LEMMA SocketStep ==
  ASSUME IInv, SocketKept, NEW c \in Conn, Step(c)
  PROVE  SocketKept'
<1> SUFFICES ASSUME NEW d \in Conn, pc'[d] \in Serving
             PROVE  s'[slot'[d]] = fd'[d]
  BY DEF SocketKept
<1>1. /\ s \in [Slot -> Fd \cup {None}] /\ fd \in [Conn -> Fd \cup {None}]
      /\ pc \in [Conn -> PC] /\ slot \in [Conn -> 0..MaxSlots] /\ npeers \in Nat
  BY DEF IInv, TypeOK
<1>2. CASE ScanAppend(c) /\ d = c
  <2>1. npeers + 1 \in Slot
    BY <1>1, <1>2, PeerTableAssumption DEF ScanAppend, Slot
  <2> QED
    BY <1>1, <1>2, <2>1 DEF ScanAppend
<1>3. CASE Revive(c) /\ d = c
  <2>1. slot[c] \in Slot
    BY <1>3, GivenSlot DEF Revive, IInv
  <2> QED
    BY <1>1, <1>3, <2>1 DEF Revive
<1>4. CASE d # c \/ (~ScanAppend(c) /\ ~Revive(c))
  <2>1. pc[d] \in Serving
    BY <1>1, <1>4, Moves DEF IInv, Accept, ScanReuse, ScanAppend, ResetFree, ResetClear, Revive,
                             MarkDead, CloseSocket, Serving
  <2>2. slot'[d] = slot[d] /\ slot[d] \in 1..npeers /\ s[slot[d]] = fd[d]
    BY <2>1, Onward DEF IInv, SlotGiven, SocketKept, Serving
  <2>3. fd'[d] = fd[d]
    BY <1>1, <2>1, SocketWriters DEF Accept, Serving
  <2>4. s'[slot[d]] = s[slot[d]]
    <3>1. CASE ScanAppend(c)
      BY <1>1, <2>2, <3>1 DEF ScanAppend
    <3>2. CASE Revive(c)
      <4>1. slot[c] # slot[d]
        BY <1>4, <2>1, <3>2 DEF Revive, IInv, SlotExclusive, Writes, Serving
      <4> QED
        BY <1>1, <3>2, <4>1 DEF Revive
    <3> QED
      BY <3>1, <3>2, SocketWriters
  <2> QED
    BY <2>2, <2>3, <2>4
<1> QED
  BY <1>2, <1>3, <1>4

\* A step of the table: the senders stand still, and what they saw is still so
\* unless the connection has gone.
LEMMA TableStep ==
  ASSUME IInv, SInv, NEW c \in Conn, Step(c), Table(c)
  PROVE  SInv'
<1>1. UNCHANGED <<at, peer, saw, enc>> /\ TypeOK /\ TypeOK'
  BY TypeStep DEF Table, IInv
<1>2. npeers \in Nat /\ npeers' \in Nat /\ npeers <= npeers'
  BY <1>1, Writers DEF TypeOK, ScanReuse, ScanAppend
<1>3. \/ UNCHANGED <<mutex, torn>>
      \/ pc[c] = "free" /\ slot[c] \in Slot /\ InitMutex(slot[c])
  BY GivenSlot DEF Table, IInv
<1>4. SendersTypeOK'
  BY <1>1, <1>2, <1>3 DEF SInv, SendersTypeOK, InitMutex
<1>5. PeerSeen'
  BY <1>1, <1>2, Onward DEF SInv, PeerSeen
<1>6. StillAuthenticated'
  <2> SUFFICES ASSUME NEW t \in Sender, at[t] \in Past, ~Gone(saw[t])'
               PROVE  pc'[saw[t]] \in {"recv", "joined"} /\ authenticated'[peer[t]]
    BY <1>1 DEF StillAuthenticated, Gone
  <2>1. saw[t] \in Conn /\ slot[saw[t]] = peer[t] /\ pc[saw[t]] \in Serving \cup {"closing", "closed"}
    BY DEF SInv, PeerSeen, Past
  <2>2. ~Gone(saw[t])
    BY <1>1, <2>1, Onward DEF Gone
  <2>3. pc[saw[t]] \in {"recv", "joined"} /\ authenticated[peer[t]]
    BY <2>2 DEF SInv, StillAuthenticated
  <2>4. pc'[saw[t]] \in {"recv", "joined"}
    BY <1>1, <2>1, <2>3, Onward DEF Gone
  <2>5. authenticated'[peer[t]]
    BY <2>1, <2>3, AuthenticatedKept DEF IInv, Serving
  <2> QED
    BY <2>4, <2>5
<1>7. ContextRead'
  <2> SUFFICES ASSUME NEW t \in Sender, at[t] \in {"encrypting", "lock", "sending"}, ~Gone(saw[t])'
               PROVE  enc[t] = saw[t]
    BY <1>1 DEF ContextRead, Gone
  <2>1. saw[t] \in Conn /\ pc[saw[t]] \in Serving \cup {"closing", "closed"}
    BY DEF SInv, PeerSeen
  <2>2. ~Gone(saw[t])
    BY <1>1, <2>1, Onward DEF Gone
  <2> QED
    BY <2>2 DEF SInv, ContextRead
<1>8. SocketKept'
  BY SocketStep DEF SInv
<1>9. MutexOwn'
  <2> SUFFICES ASSUME NEW t \in Sender, at[t] = "sending", peer[t] \notin torn'
               PROVE  mutex'[peer[t]] = t
    BY <1>1 DEF MutexOwn
  <2>1. mutex \in [Slot -> Sender \cup {None}]
    BY DEF SInv, SendersTypeOK
  <2>2. peer[t] \notin torn
    BY <1>3 DEF InitMutex
  <2>3. mutex[peer[t]] = t
    BY <2>2 DEF SInv, MutexOwn
  <2>4. CASE InitMutex(slot[c]) /\ slot[c] \in Slot
    <3>1. peer[t] # slot[c]
      BY <2>3, <2>4, SendersAssumption DEF InitMutex
    <3> QED
      BY <2>1, <2>3, <2>4, <3>1 DEF InitMutex
  <2> QED
    BY <1>3, <2>3, <2>4
<1> QED
  BY <1>4, <1>5, <1>6, <1>7, <1>8, <1>9 DEF SInv

\* A step of a sender: what it sees is what the table's invariant says of its slot.
LEMMA SendStep ==
  ASSUME IInv, SInv, NEW t \in Sender, Send(t)
  PROVE  SInv'
<1>1. UNCHANGED vars /\ UNCHANGED <<slot, pc, authenticated, held, s, fd, npeers>>
  BY SendLeavesTable DEF vars
<1>2. SendersTypeOK /\ npeers \in Nat /\ npeers <= MaxSlots
  BY PeerTableAssumption DEF SInv, IInv, TypeOK
<1>3. at[t] # "idle" => peer[t] \in 1..npeers /\ peer[t] \in Slot
  BY <1>2, PeerTableAssumption DEF SInv, PeerSeen, Slot
<1>4. SendersTypeOK'
  <2>1. ASSUME SeeAlive(t) PROVE SendersTypeOK'
    BY <1>1, <1>2, <2>1 DEF SeeAlive, SendersTypeOK
  <2>2. ASSUME ReadContext(t) PROVE SendersTypeOK'
    <3>1. held["enc_ctx"][peer[t]] \in Conn \cup {None}
      BY <1>3, <2>2 DEF ReadContext, IInv, TypeOK, Object
    <3> QED
      BY <1>1, <1>2, <2>2, <3>1 DEF ReadContext, SendersTypeOK
  <2>3. ASSUME Lock(t) \/ Unlock(t) PROVE SendersTypeOK'
    BY <1>1, <1>2, <1>3, <2>3 DEF Lock, Unlock, SendersTypeOK
  <2>4. ASSUME SeeAuthenticated(t) \/ NotAuthenticated(t) \/ Encrypted(t) \/ EncryptFails(t)
        PROVE  SendersTypeOK'
    BY <1>1, <1>2, <2>4 DEF SeeAuthenticated, NotAuthenticated, Encrypted, EncryptFails, SendersTypeOK
  <2> QED
    BY <2>1, <2>2, <2>3, <2>4 DEF Send
<1>5. ASSUME NEW u \in Sender, u # t
      PROVE  at'[u] = at[u] /\ peer'[u] = peer[u] /\ saw'[u] = saw[u] /\ enc'[u] = enc[u]
  BY <1>2, <1>5 DEF Send, SendersTypeOK, SeeAlive, SeeAuthenticated, NotAuthenticated, ReadContext,
                    Encrypted, EncryptFails, Lock, Unlock
<1>6. PeerSeen'
  <2>1. CASE SeeAlive(t)
    BY <1>1, <1>2, <1>5, <2>1 DEF SeeAlive, SInv, PeerSeen, SendersTypeOK
  <2>2. CASE NotAuthenticated(t) \/ EncryptFails(t) \/ Unlock(t)
    BY <1>1, <1>2, <1>5, <2>2 DEF NotAuthenticated, EncryptFails, Unlock, SInv, PeerSeen, SendersTypeOK
  <2>3. CASE SeeAuthenticated(t) \/ ReadContext(t) \/ Encrypted(t) \/ Lock(t)
    <3>1. at[t] # "idle" /\ UNCHANGED <<peer, saw>>
      BY <2>3 DEF SeeAuthenticated, ReadContext, Encrypted, Lock
    <3> QED
      BY <1>1, <1>5, <3>1 DEF SInv, PeerSeen
  <2> QED
    BY <2>1, <2>2, <2>3 DEF Send
<1>7. StillAuthenticated'
  <2> SUFFICES ASSUME NEW u \in Sender, at'[u] \in Past, ~Gone(saw'[u])
               PROVE  pc[saw'[u]] \in {"recv", "joined"} /\ authenticated[peer'[u]]
    BY <1>1 DEF StillAuthenticated, Gone
  <2>1. CASE u # t \/ ~SeeAuthenticated(t)
    <3>1. at[u] \in Past /\ saw'[u] = saw[u] /\ peer'[u] = peer[u]
      BY <1>2, <1>5, <2>1 DEF Send, SendersTypeOK, Past, SeeAlive, NotAuthenticated, ReadContext,
                              Encrypted, EncryptFails, Lock, Unlock
    <3> QED
      BY <3>1 DEF SInv, StillAuthenticated
  <2>2. CASE u = t /\ SeeAuthenticated(t)
    <3>1. at[t] = "alive" /\ authenticated[peer[t]] /\ saw'[t] = saw[t] /\ peer'[t] = peer[t]
      BY <2>2 DEF SeeAuthenticated
    <3>2. saw[t] \in Conn /\ slot[saw[t]] = peer[t] /\ pc[saw[t]] \in Serving
      BY <2>2, <3>1 DEF SInv, PeerSeen, Gone
    <3> QED
      BY <2>2, <3>1, <3>2 DEF IInv, Cleared, Serving
  <2> QED
    BY <2>1, <2>2
<1>8. ContextRead'
  <2> SUFFICES ASSUME NEW u \in Sender, at'[u] \in {"encrypting", "lock", "sending"}, ~Gone(saw'[u])
               PROVE  enc'[u] = saw'[u]
    BY <1>1 DEF ContextRead, Gone
  <2>1. CASE u # t \/ ~ReadContext(t)
    <3>1. at[u] \in {"encrypting", "lock", "sending"} /\ saw'[u] = saw[u] /\ enc'[u] = enc[u]
      BY <1>2, <1>5, <2>1 DEF Send, SendersTypeOK, SeeAlive, SeeAuthenticated, NotAuthenticated,
                              Encrypted, EncryptFails, Lock, Unlock
    <3> QED
      BY <3>1 DEF SInv, ContextRead
  <2>2. CASE u = t /\ ReadContext(t)
    <3>1. at[t] = "authenticated" /\ saw'[t] = saw[t] /\ enc'[t] = held["enc_ctx"][peer[t]]
      BY <1>2, <2>2 DEF ReadContext, SendersTypeOK
    <3>2. saw[t] \in Conn /\ slot[saw[t]] = peer[t]
          /\ pc[saw[t]] \in {"recv", "joined"} /\ authenticated[peer[t]]
      BY <2>2, <3>1 DEF SInv, PeerSeen, StillAuthenticated, Past
    <3> QED
      BY <2>2, <3>1, <3>2 DEF IInv, Established, Object
  <2> QED
    BY <2>1, <2>2
<1>9. SocketKept'
  BY <1>1 DEF SInv, SocketKept
<1>10. MutexOwn'
  <2> SUFFICES ASSUME NEW u \in Sender, at'[u] = "sending", peer'[u] \notin torn'
               PROVE  mutex'[peer'[u]] = u
    BY DEF MutexOwn
  <2>1. UNCHANGED torn
    BY DEF Send, SeeAlive, SeeAuthenticated, NotAuthenticated, ReadContext, Encrypted, EncryptFails,
           Lock, Unlock
  <2>2. CASE u = t
    <3>1. Lock(t) /\ peer'[t] = peer[t]
      BY <1>2, <2>2 DEF Send, SendersTypeOK, SeeAlive, SeeAuthenticated, NotAuthenticated,
                        ReadContext, Encrypted, EncryptFails, Lock, Unlock
    <3> QED
      BY <1>2, <1>3, <2>2, <3>1 DEF Lock, SendersTypeOK
  <2>3. CASE u # t
    <3>1. mutex[peer[u]] = u /\ peer'[u] = peer[u]
      BY <1>5, <2>1, <2>3 DEF SInv, MutexOwn
    <3>2. CASE Lock(t)
      BY <1>2, <1>3, <3>1, <3>2, SendersAssumption DEF Lock, SendersTypeOK
    <3>3. CASE Unlock(t)
      <4>1. CASE peer[t] = peer[u]
        BY <1>5, <2>1, <2>3, <3>1, <3>3, <4>1 DEF Unlock, SInv, MutexOwn
      <4>2. CASE peer[t] # peer[u]
        BY <1>2, <1>3, <3>1, <3>3, <4>2 DEF Unlock, SendersTypeOK
      <4> QED
        BY <4>1, <4>2
    <3>4. CASE ~Lock(t) /\ ~Unlock(t)
      BY <3>1, <3>4 DEF Send, SeeAlive, SeeAuthenticated, NotAuthenticated, ReadContext, Encrypted,
                        EncryptFails
    <3> QED
      BY <3>2, <3>3, <3>4
  <2> QED
    BY <2>2, <2>3
<1> QED
  BY <1>4, <1>6, <1>7, <1>8, <1>9, <1>10 DEF SInv

-----------------------------------------------------------------------------
(***************************************************************************)
(* The theorems.                                                           *)
(***************************************************************************)
\* Nobody sends at first.
LEMMA SendersInitInv == SendersInit => SInv
<1> SUFFICES ASSUME SendersInit PROVE SInv
  OBVIOUS
<1>1. SendersTypeOK
  BY DEF SendersInit, SendersTypeOK, Init
<1>2. PeerSeen /\ StillAuthenticated /\ ContextRead /\ MutexOwn
  BY DEF SendersInit, PeerSeen, StillAuthenticated, ContextRead, MutexOwn, Past
<1>3. SocketKept
  BY DEF SendersInit, Init, SocketKept, Serving
<1> QED
  BY <1>1, <1>2, <1>3 DEF SInv

\* The invariant is inductive, together with that of the table.
LEMMA SendersStepInv == IInv /\ SInv /\ [SendersNext]_svars => SInv'
<1>1. ASSUME IInv, SInv, UNCHANGED svars PROVE SInv'
  BY <1>1 DEF svars, vars, SInv, SendersTypeOK, PeerSeen, StillAuthenticated, ContextRead, SocketKept,
              MutexOwn, Gone
<1> QED
  BY <1>1, TableStep, SendStep DEF SendersNext

\* Theorem: the invariants of the table and of its senders hold in every reachable state.
THEOREM SendersInvariance == SendersSpec => [](IInv /\ SInv)
<1>1. SendersSpec => []IInv
  BY SendersReadOnly, Invariance, PTL
<1> QED
  BY <1>1, SendersInitInv, SendersStepInv, PTL DEF SendersSpec

\* Theorem: the senders' variables keep their types.
THEOREM SendersTypeCorrect == SendersSpec => []SendersTypeOK
<1>1. SInv => SendersTypeOK
  BY DEF SInv
<1> QED
  BY <1>1, SendersInvariance, PTL

\* Theorem: a thread encrypts with the live context of the connection it saw in the
\* slot, as long as that connection's threads have not given the slot up
\* (peer_net.c:42-58).
THEOREM Contexts == SendersSpec => []ContextLost
<1>1. IInv /\ SInv => ContextLost
  <2> SUFFICES ASSUME IInv, SInv, NEW t \in Sender,
                      at[t] \in {"encrypting", "lock", "sending"}, ~Gone(saw[t])
               PROVE  enc[t] = saw[t] /\ heap["enc_ctx"][saw[t]] = "live"
    BY DEF ContextLost
  <2>1. enc[t] = saw[t]
    BY DEF SInv, ContextRead
  <2>2. saw[t] \in Conn /\ slot[saw[t]] = peer[t]
    BY DEF SInv, PeerSeen
  <2>3. pc[saw[t]] \in {"recv", "joined"} /\ authenticated[peer[t]]
    BY DEF SInv, StillAuthenticated, Past
  <2> QED
    BY <2>1, <2>2, <2>3 DEF IInv, Established, Object
<1> QED
  BY <1>1, SendersInvariance, PTL

\* Theorem: a thread sends on the descriptor that was accepted for the connection it
\* saw in the slot, until that connection's threads give the slot up (peer_net.c:71-98).
THEOREM Sockets == SendersSpec => []SocketLost
<1>1. SInv => SocketLost
  <2> SUFFICES ASSUME SInv, NEW t \in Sender, at[t] \in {"lock", "sending"}, ~Gone(saw[t])
               PROVE  s[peer[t]] = fd[saw[t]]
    BY DEF SocketLost
  <2>1. saw[t] \in Conn /\ slot[saw[t]] = peer[t] /\ pc[saw[t]] \in {"recv", "joined"}
    BY DEF SInv, PeerSeen, StillAuthenticated, Past
  <2> QED
    BY <2>1 DEF SInv, SocketKept, Serving
<1> QED
  BY <1>1, SendersInvariance, PTL

\* Theorem: threads send to a slot one at a time, unless set_peer_info has initialised
\* its mutex under one of them (peer.c:69, peer_net.c:71-98).
THEOREM MutualExclusion == SendersSpec => []MutexHeld
<1>1. SInv => MutexHeld
  BY DEF SInv, MutexOwn, MutexHeld
<1> QED
  BY <1>1, SendersInvariance, PTL
=============================================================================
