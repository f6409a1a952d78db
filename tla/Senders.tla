------------------------------- MODULE Senders -------------------------------
(***************************************************************************)
(* The table of peers together with the threads that send to its slots     *)
(* (send_data_to_peer): the tun thread, and the receive threads of other   *)
(* peers that forward a packet.  A sender looks at a slot in several       *)
(* steps and without a lock, while the connection in it may end and the    *)
(* main thread give the slot to another one.                               *)
(*                                                                         *)
(* What happens to the bytes is in Stream; here it is for whom a packet is *)
(* encrypted, whose socket it is sent to, and who else holds the mutex.    *)
(***************************************************************************)
EXTENDS PeerTable

CONSTANT Sender  \* the threads that send

ASSUME SendersAssumption == None \notin Sender

VARIABLES
  at,     \* where each sender is in send_data_to_peer
  peer,   \* its argument of that name, by position in the list; 0 outside
  saw,    \* history: the connection in the slot when the sender saw it alive
  enc,    \* whose context the sender read in peer->enc_ctx
  mutex,  \* who holds the mutex of each slot
  torn    \* history: slots whose mutex was initialised while it was held

senders == <<at, peer, saw, enc>>
svars   == <<vars, senders, mutex, torn>>

SendersInit ==
  /\ Init
  /\ at = [t \in Sender |-> "idle"]
  /\ peer = [t \in Sender |-> 0]
  /\ saw = [t \in Sender |-> None]
  /\ enc = [t \in Sender |-> None]
  /\ mutex = [p \in Slot |-> None]
  /\ torn = {}

Move(t, from, to) ==
  /\ at[t] = from
  /\ at' = [at EXCEPT ![t] = to]
  /\ UNCHANGED vars

\* The sender's locals are gone when it returns.
Return(t) ==
  /\ peer' = [peer EXCEPT ![t] = 0]
  /\ saw' = [saw EXCEPT ![t] = None]
  /\ enc' = [enc EXCEPT ![t] = None]

-----------------------------------------------------------------------------
(***************************************************************************)
(* send_data_to_peer, step by step.                                        *)
(***************************************************************************)

\* Mutant: the walk of the list runs past its end.
SeeAlivePastEnd(t) ==
  /\ Move(t, "idle", "alive")
  /\ \E p \in Slot, c \in Conn :
       /\ slot[c] \in {p, p - 1} /\ pc[c] \in Serving
       /\ peer' = [peer EXCEPT ![t] = p]
       /\ saw' = [saw EXCEPT ![t] = c]
  /\ UNCHANGED <<enc, mutex, torn>>

\* The sender has found the peer by its route or in the list, and peer->alive is true.
SeeAlive(t) ==
  /\ Move(t, "idle", "alive")
  /\ \E p \in 1..npeers, c \in Conn :
       /\ alive[p]
       /\ slot[c] = p /\ pc[c] \in Serving
       /\ peer' = [peer EXCEPT ![t] = p]
       /\ saw' = [saw EXCEPT ![t] = c]
  /\ UNCHANGED <<enc, mutex, torn>>

\* Mutant: the flag is not looked at.
SeeAuthenticatedUnread(t) ==
  /\ Move(t, "alive", "authenticated")
  /\ UNCHANGED <<peer, saw, enc, mutex, torn>>

\* peer->authenticated, which decides whether the packet is sent.
SeeAuthenticated(t) ==
  /\ Move(t, "alive", "authenticated")
  /\ authenticated[peer[t]]
  /\ UNCHANGED <<peer, saw, enc, mutex, torn>>

NotAuthenticated(t) ==
  /\ Move(t, "alive", "idle")
  /\ ~authenticated[peer[t]]
  /\ Return(t)
  /\ UNCHANGED <<mutex, torn>>

\* The call of aes_encrypt with what peer->enc_ctx points to now.
ReadContext(t) ==
  /\ Move(t, "authenticated", "encrypting")
  /\ enc' = [enc EXCEPT ![t] = held["enc_ctx"][peer[t]]]
  /\ UNCHANGED <<peer, saw, mutex, torn>>

\* aes_encrypt returns, with the encrypted packet or with an error.
Encrypted(t) ==
  /\ Move(t, "encrypting", "lock")
  /\ UNCHANGED <<peer, saw, enc, mutex, torn>>

EncryptFails(t) ==
  /\ Move(t, "encrypting", "idle")
  /\ Return(t)
  /\ UNCHANGED <<mutex, torn>>

\* Mutant: the mutex is not waited for.
LockAnyway(t) ==
  /\ Move(t, "lock", "sending")
  /\ mutex' = [mutex EXCEPT ![peer[t]] = t]
  /\ UNCHANGED <<peer, saw, enc, torn>>

Lock(t) ==
  /\ Move(t, "lock", "sending")
  /\ mutex[peer[t]] = None
  /\ mutex' = [mutex EXCEPT ![peer[t]] = t]
  /\ UNCHANGED <<peer, saw, enc, torn>>

\* The frame has been sent, or send() failed.  Unlocking frees the mutex, whoever has
\* locked it since it was initialised again.
Unlock(t) ==
  /\ Move(t, "sending", "idle")
  /\ mutex' = [mutex EXCEPT ![peer[t]] = None]
  /\ Return(t)
  /\ UNCHANGED torn

-----------------------------------------------------------------------------
(***************************************************************************)
(* The steps of PeerTable, and what they do to the mutexes.                *)
(***************************************************************************)

\* set_peer_info destroys and initialises the mutex before it frees anything.
InitMutex(p) ==
  /\ mutex' = [mutex EXCEPT ![p] = None]
  /\ torn' = IF mutex[p] = None THEN torn ELSE torn \cup {p}

Table(c) ==
  /\ UNCHANGED senders
  /\ IF pc[c] = "free" /\ pc'[c] = "clear" THEN InitMutex(slot[c])
     ELSE UNCHANGED <<mutex, torn>>

Send(t) ==
  \/ SeeAlive(t) \/ SeeAuthenticated(t) \/ NotAuthenticated(t) \/ ReadContext(t)
  \/ Encrypted(t) \/ EncryptFails(t) \/ Lock(t) \/ Unlock(t)

SendersNext == (\E c \in Conn : Step(c) /\ Table(c)) \/ (\E t \in Sender : Send(t))

SendersSpec == SendersInit /\ [][SendersNext]_svars

\* The threads of the table are scheduled; senders need not send.
SendersFairSpec ==
  /\ SendersSpec
  /\ \A c \in Conn : WF_svars(MainThread(c) /\ Table(c)) /\ WF_svars(PeerThreads(c) /\ Table(c))

-----------------------------------------------------------------------------
(***************************************************************************)
(* Properties.                                                             *)
(***************************************************************************)

\* The senders' variables keep their types.
SendersTypeOK ==
  /\ at \in [Sender -> {"idle", "alive", "authenticated", "encrypting", "lock", "sending"}]
  /\ peer \in [Sender -> 0..npeers]
  /\ saw \in [Sender -> Conn \cup {None}]
  /\ enc \in [Sender -> Conn \cup {None}]
  /\ mutex \in [Slot -> Sender \cup {None}]
  /\ torn \subseteq Slot

\* The connection's threads have given its slot up.
Gone(c) == pc[c] \in {"closing", "closed"}

\* A sender works with a context that is NULL, freed or somebody else's only if the
\* connection it saw in the slot has gone since (send_data_to_peer reads alive before
\* authenticated, and set_peer_info writes them in the other order).
ContextLost ==
  \A t \in Sender : at[t] \in {"encrypting", "lock", "sending"} =>
    \/ enc[t] = saw[t] /\ heap["enc_ctx"][saw[t]] = "live"
    \/ Gone(saw[t])

\* A packet is sent on another descriptor than the one accept() had returned for the
\* connection the sender saw in the slot only if that connection has gone since.  (Whose
\* socket the descriptor names is another matter, see ClosesOwnSocket.)
SocketLost ==
  \A t \in Sender : at[t] \in {"lock", "sending"} =>
    s[peer[t]] = fd[saw[t]] \/ Gone(saw[t])

\* Two threads send to one slot at once only if its mutex was initialised again under
\* one that held it.
MutexHeld ==
  \A t, u \in Sender : at[t] = "sending" /\ at[u] = "sending" /\ peer[t] = peer[u] =>
    t = u \/ peer[t] \in torn
=============================================================================
