------------------------------ MODULE Handshake ------------------------------
(***************************************************************************)
(* The handshake of two daemons over one connection (authenticate_peer),   *)
(* the loop that follows it (peer_receive, process_frame) and what may     *)
(* come between the frames of the handshake: packets of the tun device and *)
(* the CLOSE of an interrupted daemon.  Frames travel as module Link says: *)
(* whole and in order.                                                     *)
(*                                                                         *)
(* A key pair is written as one key; a daemon's two key files need not     *)
(* belong together.  Connections end by being closed at one end: a remote  *)
(* host that vanishes without closing is not modelled.                     *)
(***************************************************************************)
EXTENDS Naturals, Sequences

CONSTANTS
  Key,      \* RSA key pairs
  Packets,  \* packets each end may send (bounds the model)
  None

ASSUME HandshakeAssumption == None \notin Key /\ Packets \in Nat

End == {"client", "server"}
Other(e) == IF e = "client" THEN "server" ELSE "client"

VARIABLES
  daemon_pubkey, daemon_privkey, trusted_keys,  \* what each daemon has loaded
  pc,             \* where each receive thread is
  pubkey,         \* peer->pubkey
  ctx,            \* peer->enc_ctx and dec_ctx exist
  authenticated,  \* peer->authenticated
  wire,           \* frames on their way to each end
  interrupted,    \* daemons that had a SIGINT
  packets         \* packets each end may still send

keys == <<daemon_pubkey, daemon_privkey, trusted_keys>>
vars == <<daemon_pubkey, daemon_privkey, trusted_keys,
          pc, pubkey, ctx, authenticated, wire, interrupted, packets>>

\* load_daemon_privkey, load_daemon_pubkey: any two keys.
load_daemon_keys ==
  /\ daemon_privkey \in [End -> Key]
  /\ daemon_pubkey \in [End -> Key]

\* load_trusted_keys: the keys found in the folder, which may not exist.
load_trusted_keys == trusted_keys \in [End -> SUBSET Key]

Init ==
  /\ load_daemon_keys
  /\ load_trusted_keys
  /\ pc = [e \in End |-> "send_key"]
  /\ pubkey = [e \in End |-> None]
  /\ ctx = [e \in End |-> FALSE]
  /\ authenticated = [e \in End |-> FALSE]
  /\ wire = [e \in End |-> <<>>]
  /\ interrupted = {}
  /\ packets = [e \in End |-> Packets]

keys_match(k1, k2) == k1 = k2

is_trusted_key(e, k) == \E rkey \in trusted_keys[e] : keys_match(k, rkey)

-----------------------------------------------------------------------------
\* Frames: their header type and what they contain; data encrypted with a public key
\* is written with that key.
AuthKey(k)             == [type |-> "AUTH", data |-> "key", key |-> k]
rsa_encrypt(what, k)   == [type |-> "AUTH", data |-> what, key |-> k]
Close                  == [type |-> "CLOSE", data |-> "", key |-> None]
NetPacket              == [type |-> "NETPACKET", data |-> "packet", key |-> None]

\* rsa_decrypt succeeds for data encrypted for this daemon.
rsa_decrypt(e, frame) == IF frame.key = daemon_privkey[e] THEN frame.data ELSE "error"

Open(e) == pc[e] # "closed"

\* send_data_to_peer: lost when the other end has closed its socket.
Put(e, frame) ==
  wire' = IF Open(Other(e)) THEN [wire EXCEPT ![Other(e)] = Append(@, frame)] ELSE wire

Goto(e, from, to) ==
  /\ pc[e] = from
  /\ pc' = [pc EXCEPT ![e] = to]

\* receive_frame
Get(e) ==
  /\ wire[e] # <<>>
  /\ wire' = [wire EXCEPT ![e] = Tail(@)]

Waiting == {"recv_key", "recv_aes_key", "recv_aes_iv", "loop"}

-----------------------------------------------------------------------------
(***************************************************************************)
(* authenticate_peer                                                       *)
(***************************************************************************)
SendKey(e) ==
  /\ Goto(e, "send_key", "recv_key")
  /\ Put(e, AuthKey(daemon_pubkey[e]))
  /\ UNCHANGED <<keys, pubkey, ctx, authenticated, interrupted, packets>>

\* Mutant: the peer's key need not be a trusted one.
RecvKeyAny(e) ==
  /\ Get(e)
  /\ LET frame == Head(wire[e]) IN
       IF frame.type # "AUTH"
       THEN Goto(e, "recv_key", "closed") /\ UNCHANGED pubkey
       ELSE /\ pubkey' = [pubkey EXCEPT ![e] = frame.key]
            /\ Goto(e, "recv_key", IF e = "client" THEN "recv_aes_key" ELSE "send_aes_key")
  /\ UNCHANGED <<keys, ctx, authenticated, interrupted, packets>>

\* The peer's public key: it must be a trusted one.
RecvKey(e) ==
  /\ Get(e)
  /\ LET frame == Head(wire[e]) IN
       IF frame.type # "AUTH"
       THEN Goto(e, "recv_key", "closed") /\ UNCHANGED pubkey
       ELSE /\ pubkey' = [pubkey EXCEPT ![e] = frame.key]
            /\ Goto(e, "recv_key", IF ~is_trusted_key(e, frame.key) THEN "closed"
                                   ELSE IF e = "client" THEN "recv_aes_key" ELSE "send_aes_key")
  /\ UNCHANGED <<keys, ctx, authenticated, interrupted, packets>>

\* The server sends something for the key it has received.
SendAes(from, what, to) ==
  /\ Goto("server", from, to)
  /\ Put("server", rsa_encrypt(what, pubkey["server"]))

\* Mutant: the peer counts as authenticated before it has been sent the IV.
SendAesKeyAuthenticates ==
  /\ SendAes("send_aes_key", "aes_key", "send_aes_iv")
  /\ authenticated' = [authenticated EXCEPT !["server"] = TRUE]
  /\ UNCHANGED <<keys, pubkey, ctx, interrupted, packets>>

\* Mutant: the IV is never sent.
SendAesKeyOnly ==
  /\ SendAes("send_aes_key", "aes_key", "init_ctx")
  /\ UNCHANGED <<keys, pubkey, ctx, authenticated, interrupted, packets>>

\* The session key, then the IV.
SendAesKey ==
  /\ SendAes("send_aes_key", "aes_key", "send_aes_iv")
  /\ UNCHANGED <<keys, pubkey, ctx, authenticated, interrupted, packets>>

SendAesIv ==
  /\ SendAes("send_aes_iv", "aes_iv", "init_ctx")
  /\ UNCHANGED <<keys, pubkey, ctx, authenticated, interrupted, packets>>

\* The client receives them; the sizes of what it decrypts tell one from the other.
RecvAes(from, what, to) ==
  /\ Get("client")
  /\ LET frame == Head(wire["client"]) IN
       Goto("client", from, IF frame.type = "AUTH" /\ rsa_decrypt("client", frame) = what
                            THEN to ELSE "closed")
  /\ UNCHANGED <<keys, pubkey, ctx, authenticated, interrupted, packets>>

RecvAesKey == RecvAes("recv_aes_key", "aes_key", "recv_aes_iv")
RecvAesIv  == RecvAes("recv_aes_iv", "aes_iv", "init_ctx")

\* Mutant: the contexts are not checked.
InitCtxUnchecked(e) ==
  /\ Goto(e, "init_ctx", "set_authenticated")
  /\ \E made \in BOOLEAN : ctx' = [ctx EXCEPT ![e] = made]
  /\ UNCHANGED <<keys, pubkey, authenticated, wire, interrupted, packets>>

\* aes_init_ctx makes both contexts.
InitCtx(e) ==
  /\ Goto(e, "init_ctx", "set_authenticated")
  /\ ctx' = [ctx EXCEPT ![e] = TRUE]
  /\ UNCHANGED <<keys, pubkey, authenticated, wire, interrupted, packets>>

SetAuthenticated(e) ==
  /\ Goto(e, "set_authenticated", "loop")
  /\ authenticated' = [authenticated EXCEPT ![e] = TRUE]
  /\ UNCHANGED <<keys, pubkey, ctx, wire, interrupted, packets>>

\* The cryptographic library fails: no random bytes, no encryption, no context.
LibraryFails(e) ==
  /\ pc[e] \in {"send_aes_key", "send_aes_iv", "init_ctx"}
  /\ Goto(e, pc[e], "closed")
  /\ UNCHANGED <<keys, pubkey, ctx, authenticated, wire, interrupted, packets>>

-----------------------------------------------------------------------------
(***************************************************************************)
(* The loop of peer_receive, and what ends it.                             *)
(***************************************************************************)

\* process_frame: CLOSE ends the loop; a packet is decrypted; an AUTH is ignored, and
\* so would be a packet from a peer that is not authenticated.
process_frame(e) ==
  /\ Get(e)
  /\ Goto(e, "loop", IF Head(wire[e]).type = "CLOSE" THEN "closed" ELSE "loop")
  /\ UNCHANGED <<keys, pubkey, ctx, authenticated, interrupted, packets>>

\* Mutant: the end of the connection is only noticed in the loop.
RecvFailsInLoop(e) ==
  /\ ~Open(Other(e))
  /\ Goto(e, "loop", "closed")
  /\ UNCHANGED <<keys, pubkey, ctx, authenticated, wire, interrupted, packets>>

\* receive_frame returns -1: the other end has closed its socket.  Frames not yet read
\* may be lost with it (the connection is reset).
RecvFails(e) ==
  /\ ~Open(Other(e))
  /\ pc[e] \in Waiting
  /\ Goto(e, pc[e], "closed")
  /\ UNCHANGED <<keys, pubkey, ctx, authenticated, wire, interrupted, packets>>

-----------------------------------------------------------------------------
(***************************************************************************)
(* Other threads of the daemons.                                           *)
(***************************************************************************)

\* A packet for the peer: sent only to one that is alive and authenticated.
SendPacket(e) ==
  /\ Open(e)
  /\ authenticated[e]
  /\ packets[e] > 0
  /\ packets' = [packets EXCEPT ![e] = @ - 1]
  /\ Put(e, NetPacket)
  /\ UNCHANGED <<keys, pc, pubkey, ctx, authenticated, interrupted>>

\* interrupt_program_handler: CLOSE to every peer that is alive, authenticated or not.
Interrupt(e) ==
  /\ e \notin interrupted
  /\ Open(e)
  /\ interrupted' = interrupted \cup {e}
  /\ Put(e, Close)
  /\ UNCHANGED <<keys, pc, pubkey, ctx, authenticated, packets>>

-----------------------------------------------------------------------------
authenticate_peer(e) ==
  \/ SendKey(e) \/ RecvKey(e) \/ InitCtx(e) \/ SetAuthenticated(e)
  \/ e = "server" /\ (SendAesKey \/ SendAesIv)
  \/ e = "client" /\ (RecvAesKey \/ RecvAesIv)

peer_receive(e) == authenticate_peer(e) \/ process_frame(e) \/ RecvFails(e)

Next == \E e \in End : peer_receive(e) \/ LibraryFails(e) \/ SendPacket(e) \/ Interrupt(e)

Spec == Init /\ [][Next]_vars

\* Receive threads are scheduled; packets, interrupts and failures need not happen.
FairSpec == Spec /\ \A e \in End : WF_vars(peer_receive(e))

-----------------------------------------------------------------------------
(***************************************************************************)
(* Properties.                                                             *)
(***************************************************************************)
\* The variables keep their types, and a peer only counts as authenticated with its
\* key and its contexts there.
TypeOK ==
  /\ daemon_privkey \in [End -> Key]
  /\ daemon_pubkey \in [End -> Key]
  /\ trusted_keys \in [End -> SUBSET Key]
  /\ pc \in [End -> {"send_key", "send_aes_key", "send_aes_iv", "init_ctx",
                     "set_authenticated", "closed"} \cup Waiting]
  /\ pubkey \in [End -> Key \cup {None}]
  /\ ctx \in [End -> BOOLEAN]
  /\ authenticated \in [End -> BOOLEAN]
  /\ \A e \in End : authenticated[e] => ctx[e] /\ pubkey[e] # None
  /\ wire \in [End ->
       Seq([type : {"AUTH", "CLOSE", "NETPACKET"},
            data : {"key", "aes_key", "aes_iv", "packet", ""}, key : Key \cup {None}])]
  /\ interrupted \subseteq End
  /\ packets \in [End -> 0..Packets]

\* What each wait of the handshake is for.
Expected(e) ==
  CASE pc[e] = "recv_key"     -> {"key"}
    [] pc[e] = "recv_aes_key" -> {"aes_key"}
    [] pc[e] = "recv_aes_iv"  -> {"aes_iv"}
    [] pc[e] = "loop"         -> {"packet"}

\* The two ends stay in step: the next frame an end reads is the one it waits for, or
\* a CLOSE.  So no AUTH is "unexpected", no packet meets a peer that is not
\* authenticated (process_frame), and no handshake fails for a frame out of place.
InStep ==
  \A e \in End : pc[e] \in Waiting /\ wire[e] # <<>> =>
    Head(wire[e]).type = "CLOSE" \/ Head(wire[e]).data \in Expected(e)

\* A client that takes its server for authenticated trusts the server's key, is trusted
\* by the server, and has the private key of the public key it had sent; a server that
\* takes its client for authenticated trusts the client's key.
MutualTrust ==
  /\ authenticated["client"] =>
       /\ is_trusted_key("client", daemon_pubkey["server"])
       /\ is_trusted_key("server", daemon_pubkey["client"])
       /\ keys_match(daemon_pubkey["client"], daemon_privkey["client"])
  /\ authenticated["server"] => is_trusted_key("server", daemon_pubkey["client"])

\* e's receive thread has ended, or waits in recv() for a frame that nobody has sent yet.
Blocked(e) ==
  \/ pc[e] = "closed"
  \/ pc[e] \in Waiting /\ wire[e] = <<>> /\ Open(Other(e))

\* The receive threads of the two ends never wait for each other's next frame: when
\* neither can go on, both are in the loop or both have left (the code has no timeout
\* that would end such a wait).
NoDeadlock ==
  (\A e \in End : Blocked(e)) =>
    (\A e \in End : pc[e] = "loop") \/ (\A e \in End : pc[e] = "closed")

\* No connection stays half open: in the end both daemons exchange packets, or both
\* have left, whichever of them rejected the other, failed or was interrupted, and at
\* whichever step.
Resolved ==
  <>[](\A e \in End : pc[e] = "loop") \/ <>[](\A e \in End : pc[e] = "closed")
=============================================================================
