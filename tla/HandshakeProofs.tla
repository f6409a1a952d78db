--------------------------- MODULE HandshakeProofs ---------------------------
(***************************************************************************)
(* Proofs, for any keys and any number of packets, that the two ends of a  *)
(* connection stay in step and that authentication means trust.            *)
(*                                                                         *)
(* The argument.  Every frame but a CLOSE has a rank: key, aes_key,        *)
(* aes_iv, packet.  What is on its way to an end are the ranks from the    *)
(* one it expects to the last its other end has sent, in order and without *)
(* a gap, so that the first frame is the one it expects.  Hence each end   *)
(* takes for the key of the other what is its key, and what the client can *)
(* decrypt was encrypted for it by a server that trusts its key.           *)
(***************************************************************************)
EXTENDS Handshake, TLAPS

Frame == [type : {"AUTH", "CLOSE", "NETPACKET"},
          data : {"key", "aes_key", "aes_iv", "packet", ""}, key : Key \cup {None}]

Rank(frame) ==
  IF frame.data = "key" THEN 1 ELSE IF frame.data = "aes_key" THEN 2
  ELSE IF frame.data = "aes_iv" THEN 3 ELSE IF frame.data = "packet" THEN 4 ELSE 0

\* The ranks of what an end receives, the one it expects, and the last it has sent.
Ranks(e) == IF e = "client" THEN {1, 2, 3, 4} ELSE {1, 4}

Expects(e) ==
  IF pc[e] \in {"send_key", "recv_key"} THEN 1 ELSE IF pc[e] = "recv_aes_key" THEN 2
  ELSE IF pc[e] = "recv_aes_iv" THEN 3 ELSE 4

HasSent(e) ==
  IF pc[e] = "send_key" THEN 0 ELSE IF pc[e] = "loop" THEN 4
  ELSE IF pc[e] = "send_aes_iv" THEN 2
  ELSE IF e = "server" /\ pc[e] \in {"init_ctx", "set_authenticated"} THEN 3 ELSE 1

\* What is on its way to e is of ranks that e still expects and the other end has sent.
Due(e) ==
  \A i \in 1..Len(wire[e]) : Rank(wire[e][i]) # 0 =>
    /\ Rank(wire[e][i]) \in Ranks(e)
    /\ Expects(e) <= Rank(wire[e][i])
    /\ Open(Other(e)) => Rank(wire[e][i]) <= HasSent(Other(e))

\* It is in order; only packets may be many.
Ordered(e) ==
  \A i, j \in 1..Len(wire[e]) :
    i < j /\ Rank(wire[e][i]) # 0 /\ Rank(wire[e][j]) # 0 =>
      Rank(wire[e][i]) < Rank(wire[e][j]) \/ (Rank(wire[e][i]) = 4 /\ Rank(wire[e][j]) = 4)

\* Nothing that comes before a frame is missing.
NoGap(e) ==
  \A i \in 1..Len(wire[e]), r \in Ranks(e) :
    Expects(e) <= r /\ r < Rank(wire[e][i]) => \E j \in 1..Len(wire[e]) : Rank(wire[e][j]) = r

\* All that the other end has sent is there.
AllThere(e) ==
  Open(Other(e)) =>
    \A r \in Ranks(e) \ {4} :
      Expects(e) <= r /\ r <= HasSent(Other(e)) => \E j \in 1..Len(wire[e]) : Rank(wire[e][j]) = r

\* An end is not ahead of what the other has sent.
NotAhead(e) ==
  Open(Other(e)) => \A r \in Ranks(e) : HasSent(Other(e)) < r => Expects(e) <= r

InOrder(e) == Due(e) /\ Ordered(e) /\ NoGap(e) /\ AllThere(e) /\ NotAhead(e)

Flow == \A e \in End : Open(e) => InOrder(e)

\* The frames are those of the protocol, with the keys of those who sent them; the
\* session is sent for a key that the server trusts.
Genuine(e, frame) ==
  /\ frame.type = "CLOSE" <=> frame.data = ""
  /\ frame.type = "NETPACKET" <=> frame.data = "packet"
  /\ frame.data = "key" => frame.key = daemon_pubkey[Other(e)]
  /\ frame.data \in {"aes_key", "aes_iv"} =>
       e = "client" /\ frame.key = daemon_pubkey[e] /\ is_trusted_key("server", daemon_pubkey[e])

AllGenuine == \A e \in End : \A i \in 1..Len(wire[e]) : Genuine(e, wire[e][i])

\* How far an end has come says what it has checked.
Keyed == {"recv_aes_key", "recv_aes_iv", "send_aes_key", "send_aes_iv", "init_ctx",
          "set_authenticated", "loop"}

Checked ==
  /\ pc["client"] \notin {"send_aes_key", "send_aes_iv"}
  /\ pc["server"] \notin {"recv_aes_key", "recv_aes_iv"}
  /\ \A e \in End :
       /\ pc[e] \in Keyed => /\ pubkey[e] = daemon_pubkey[Other(e)]
                             /\ is_trusted_key(e, daemon_pubkey[Other(e)])
       /\ pc[e] \in {"set_authenticated", "loop"} => ctx[e]
       /\ authenticated[e] => pc[e] \in {"loop", "closed"}
  /\ pc["client"] \in {"recv_aes_iv", "init_ctx", "set_authenticated", "loop"} =>
       /\ is_trusted_key("server", daemon_pubkey["client"])
       /\ daemon_pubkey["client"] = daemon_privkey["client"]

HInv ==
  /\ TypeOK
  /\ Flow
  /\ AllGenuine
  /\ Checked
  /\ MutualTrust

Step(e) == peer_receive(e) \/ LibraryFails(e) \/ SendPacket(e) \/ Interrupt(e)

-----------------------------------------------------------------------------
(***************************************************************************)
(* Ends, frames and what a step does to them.                              *)
(***************************************************************************)
USE DEF Goto, keys

\* There are two ends.
LEMMA TwoEnds ==
  ASSUME NEW e \in End
  PROVE  /\ e \in {"client", "server"}
         /\ Other(e) \in End
         /\ Other(e) # e
         /\ Other(Other(e)) = e
         /\ \A d \in End : d = e \/ d = Other(e)
  BY DEF End, Other

\* The frames of the protocol are frames.
LEMMA Frames ==
  ASSUME TypeOK, NEW k \in Key
  PROVE  /\ AuthKey(k) \in Frame /\ Rank(AuthKey(k)) = 1
         /\ \A what \in {"aes_key", "aes_iv"} : rsa_encrypt(what, k) \in Frame
         /\ Rank(rsa_encrypt("aes_key", k)) = 2 /\ Rank(rsa_encrypt("aes_iv", k)) = 3
         /\ Close \in Frame /\ Rank(Close) = 0
         /\ NetPacket \in Frame /\ Rank(NetPacket) = 4
  BY DEF Frame, AuthKey, rsa_encrypt, Close, NetPacket, Rank

\* Only a CLOSE has no data.
LEMMA Ranked ==
  ASSUME NEW f \in Frame, f.data # ""
  PROVE  Rank(f) # 0
<1>1. f.data \in {"key", "aes_key", "aes_iv", "packet"}
  BY DEF Frame
<1>2. CASE f.data = "key"
  BY <1>2 DEF Rank
<1>3. CASE f.data = "aes_key"
  BY <1>3 DEF Rank
<1>4. CASE f.data = "aes_iv"
  BY <1>4 DEF Rank
<1>5. CASE f.data = "packet"
  BY <1>5 DEF Rank
<1> QED
  BY <1>1, <1>2, <1>3, <1>4, <1>5

\* What TypeOK says of the channels.
LEMMA Channels ==
  ASSUME TypeOK
  PROVE  /\ wire \in [End -> Seq(Frame)]
         /\ pc \in [End -> {"send_key", "send_aes_key", "send_aes_iv", "init_ctx",
                            "set_authenticated", "closed"} \cup Waiting]
  BY DEF TypeOK, Frame

\* The first frame on the way to an end is one of the protocol.
LEMMA HeadGenuine ==
  ASSUME TypeOK, AllGenuine, NEW e \in End, wire[e] # <<>>
  PROVE  /\ Head(wire[e]) \in Frame
         /\ Genuine(e, Head(wire[e]))
         /\ Head(wire[e]).type # "CLOSE" => Rank(Head(wire[e])) # 0
<1>1. Head(wire[e]) = wire[e][1] /\ 1 \in 1..Len(wire[e]) /\ Head(wire[e]) \in Frame
  BY Channels
<1>2. Genuine(e, Head(wire[e]))
  BY <1>1 DEF AllGenuine
<1>3. Head(wire[e]).type # "CLOSE" => Head(wire[e]).data # ""
  BY <1>2 DEF Genuine
<1> QED
  BY <1>1, <1>2, <1>3, Ranked

\* A step of one end leaves the other where it is.
LEMMA OtherEnd ==
  ASSUME TypeOK, NEW e \in End, Step(e)
  PROVE  /\ pc' \in [End -> {"send_key", "send_aes_key", "send_aes_iv", "init_ctx",
                             "set_authenticated", "closed"} \cup Waiting]
         /\ \A d \in End \ {e} : /\ pc'[d] = pc[d] /\ pubkey'[d] = pubkey[d]
                                 /\ ctx'[d] = ctx[d] /\ authenticated'[d] = authenticated[d]
         /\ UNCHANGED keys
<1> USE Channels DEF Step, peer_receive, authenticate_peer
<1>1. pc' \in [End -> {"send_key", "send_aes_key", "send_aes_iv", "init_ctx",
                       "set_authenticated", "closed"} \cup Waiting]
  BY DEF SendKey, RecvKey, InitCtx, SetAuthenticated, SendAesKey, SendAesIv, SendAes, RecvAesKey,
         RecvAesIv, RecvAes, process_frame, RecvFails, LibraryFails, SendPacket, Interrupt, Waiting
<1>2. \A d \in End \ {e} : pc'[d] = pc[d]
  BY DEF SendKey, RecvKey, InitCtx, SetAuthenticated, SendAesKey, SendAesIv, SendAes, RecvAesKey,
         RecvAesIv, RecvAes, process_frame, RecvFails, LibraryFails, SendPacket, Interrupt
<1>3. \A d \in End \ {e} : pubkey'[d] = pubkey[d] /\ ctx'[d] = ctx[d] /\ authenticated'[d] = authenticated[d]
  BY DEF TypeOK, SendKey, RecvKey, InitCtx, SetAuthenticated, SendAesKey, SendAesIv, SendAes,
         RecvAesKey, RecvAesIv, RecvAes, process_frame, RecvFails, LibraryFails, SendPacket, Interrupt
<1>4. UNCHANGED keys
  BY DEF SendKey, RecvKey, InitCtx, SetAuthenticated, SendAesKey, SendAesIv, SendAes, RecvAesKey,
         RecvAesIv, RecvAes, process_frame, RecvFails, LibraryFails, SendPacket, Interrupt
<1> QED
  BY <1>1, <1>2, <1>3, <1>4

\* The first frame on the way to an end is the one it expects, or a CLOSE.
LEMMA HeadExpected ==
  ASSUME TypeOK, Checked, NEW e \in End, Due(e), Ordered(e), NoGap(e), wire[e] # <<>>,
         Rank(Head(wire[e])) # 0
  PROVE  Rank(Head(wire[e])) = Expects(e)
<1>1. wire[e] \in Seq(Frame)
  BY Channels
<1>2. 1 \in 1..Len(wire[e]) /\ Head(wire[e]) = wire[e][1]
  BY <1>1
<1>3. Expects(e) \in Nat /\ \A i \in 1..Len(wire[e]) : Rank(wire[e][i]) \in Nat
  BY DEF Expects, Rank
<1>4. SUFFICES ASSUME Expects(e) < Rank(wire[e][1]) PROVE FALSE
  BY <1>2, <1>3 DEF Due
<1>5. Expects(e) \in Ranks(e)
  BY <1>2, <1>3, <1>4, TwoEnds DEF Checked, Ranks, Expects
<1>6. PICK j \in 1..Len(wire[e]) : Rank(wire[e][j]) = Expects(e)
  BY <1>2, <1>3, <1>4, <1>5 DEF NoGap
<1>7. 1 < j /\ Rank(wire[e][j]) # 0
  BY <1>1, <1>2, <1>4, <1>6 DEF Expects
<1>8. Rank(wire[e][1]) < Rank(wire[e][j]) \/ (Rank(wire[e][1]) = 4 /\ Rank(wire[e][j]) = 4)
  BY <1>2, <1>7 DEF Ordered
<1> QED
  BY <1>2, <1>3, <1>4, <1>6, <1>8

\* What an end does to the frames on their way to it: nothing, or it takes the one it
\* expects and then expects the next.
LEMMA Receives ==
  ASSUME HInv, NEW e \in End, Step(e), Open(e)'
  PROVE  \/ wire'[e] = wire[e] /\ Expects(e)' = Expects(e)
         \/ /\ wire[e] # <<>> /\ wire'[e] = Tail(wire[e])
            /\ Rank(Head(wire[e])) = Expects(e)
            /\ Expects(e) < Expects(e)' \/ (Expects(e) = 4 /\ Expects(e)' = 4)
            /\ \A r \in Ranks(e) : Expects(e) < r => Expects(e)' <= r
<1> USE Channels, TwoEnds DEF HInv
<1>1. ASSUME wire[e] # <<>>, pc[e] \in Waiting, Head(wire[e]).type # "CLOSE"
      PROVE  Rank(Head(wire[e])) = Expects(e)
  BY <1>1, HeadGenuine, HeadExpected DEF Flow, InOrder, Open, Waiting
<1>2. pc'[e] # "closed" /\ pc[e] # "closed"
  BY DEF Open, Step, peer_receive, authenticate_peer, SendKey, RecvKey, InitCtx, SetAuthenticated,
         SendAesKey, SendAesIv, SendAes, RecvAesKey, RecvAesIv, RecvAes, process_frame, RecvFails,
         LibraryFails, SendPacket, Interrupt, Waiting
<1>3. CASE SendKey(e) \/ InitCtx(e) \/ SetAuthenticated(e) \/ SendPacket(e) \/ Interrupt(e)
  BY <1>2, <1>3 DEF SendKey, InitCtx, SetAuthenticated, SendPacket, Interrupt, Put, Expects
<1>4. CASE e = "server" /\ (SendAesKey \/ SendAesIv)
  BY <1>2, <1>4 DEF SendAesKey, SendAesIv, SendAes, Put, Expects
<1>5. CASE RecvKey(e)
  BY <1>1, <1>2, <1>5 DEF RecvKey, Get, Expects, Ranks, Waiting
<1>6. CASE e = "client" /\ (RecvAesKey \/ RecvAesIv)
  BY <1>1, <1>2, <1>6 DEF RecvAesKey, RecvAesIv, RecvAes, Get, Expects, Ranks, Waiting
<1>7. CASE process_frame(e)
  BY <1>1, <1>2, <1>7 DEF process_frame, Get, Expects, Ranks, Waiting
<1>8. CASE RecvFails(e) \/ LibraryFails(e)
  BY <1>2, <1>8 DEF RecvFails, LibraryFails
<1> QED
  BY <1>3, <1>4, <1>5, <1>6, <1>7, <1>8 DEF Step, peer_receive, authenticate_peer

\* What an end does to the frames on their way to the other: nothing, or it adds a
\* CLOSE, or the one that follows all it has sent.
LEMMA Sends ==
  ASSUME HInv, NEW d \in End, Step(d), NEW e \in End, e = Other(d), Open(e)
  PROVE  \/ /\ wire'[e] = wire[e]
            /\ Open(d)' => /\ Open(d) /\ HasSent(d) <= HasSent(d)'
                           /\ \A r \in Ranks(e) \ {4} : r <= HasSent(d)' => r <= HasSent(d)
         \/ /\ Open(d) /\ Open(d)'
            /\ \E frame \in Frame :
                 /\ wire'[e] = Append(wire[e], frame)
                 /\ Genuine(e, frame)
                 /\ \/ Rank(frame) = 0 /\ HasSent(d)' = HasSent(d)
                    \/ /\ Rank(frame) \in Ranks(e) /\ Rank(frame) = HasSent(d)'
                       /\ HasSent(d) < Rank(frame) \/ (HasSent(d) = 4 /\ Rank(frame) = 4)
                       /\ \A r \in Ranks(e) \ {4} : r <= HasSent(d)' => r <= HasSent(d) \/ r = Rank(frame)
<1> USE Channels, TwoEnds DEF HInv
<1>1. CASE SendKey(d)
  <2>1. daemon_pubkey[d] \in Key
    BY DEF TypeOK
  <2>2. AuthKey(daemon_pubkey[d]) \in Frame /\ Rank(AuthKey(daemon_pubkey[d])) = 1
        /\ Genuine(e, AuthKey(daemon_pubkey[d]))
    BY <2>1, Frames DEF Genuine, AuthKey
  <2>3. wire'[e] = Append(wire[e], AuthKey(daemon_pubkey[d]))
    BY <1>1 DEF SendKey, Put
  <2>4. HasSent(d) = 0 /\ HasSent(d)' = 1 /\ Open(d) /\ Open(d)'
    BY <1>1 DEF SendKey, HasSent, Open
  <2> QED
    BY <2>2, <2>3, <2>4 DEF Ranks
<1>2. CASE d = "server" /\ (SendAesKey \/ SendAesIv)
  <2>1. e = "client" /\ pubkey["server"] \in Key /\ pubkey["server"] = daemon_pubkey["client"]
        /\ is_trusted_key("server", daemon_pubkey["client"])
    BY <1>2 DEF TypeOK, Checked, Keyed, SendAesKey, SendAesIv, SendAes, End, Other
  <2>2. ASSUME NEW what \in {"aes_key", "aes_iv"} PROVE Genuine(e, rsa_encrypt(what, pubkey["server"]))
    BY <2>1, <2>2 DEF Genuine, rsa_encrypt
  <2>3. CASE SendAesKey
    <3>1. wire'[e] = Append(wire[e], rsa_encrypt("aes_key", pubkey["server"]))
      BY <1>2, <2>1, <2>3 DEF SendAesKey, SendAes, Put
    <3>2. HasSent(d) = 1 /\ HasSent(d)' = 2 /\ Open(d) /\ Open(d)'
      BY <1>2, <2>3 DEF SendAesKey, SendAes, HasSent, Open
    <3> QED
      BY <2>1, <2>2, <3>1, <3>2, Frames DEF Ranks
  <2>4. CASE SendAesIv
    <3>1. wire'[e] = Append(wire[e], rsa_encrypt("aes_iv", pubkey["server"]))
      BY <1>2, <2>1, <2>4 DEF SendAesIv, SendAes, Put
    <3>2. HasSent(d) = 2 /\ HasSent(d)' = 3 /\ Open(d) /\ Open(d)'
      BY <1>2, <2>4 DEF SendAesIv, SendAes, HasSent, Open
    <3> QED
      BY <2>1, <2>2, <3>1, <3>2, Frames DEF Ranks
  <2> QED
    BY <1>2, <2>3, <2>4
<1>3. CASE SendPacket(d)
  <2>1. wire'[e] = Append(wire[e], NetPacket) /\ Open(d) /\ Open(d)' /\ pc[d] = "loop" /\ pc' = pc
    BY <1>3 DEF SendPacket, Put, Open, Checked
  <2>2. NetPacket \in Frame /\ Rank(NetPacket) = 4 /\ Genuine(e, NetPacket)
    BY DEF NetPacket, Frame, Rank, Genuine
  <2> QED
    BY <2>1, <2>2 DEF HasSent, Ranks
<1>4. CASE Interrupt(d)
  <2>1. wire'[e] = Append(wire[e], Close) /\ Open(d) /\ Open(d)' /\ pc' = pc
    BY <1>4 DEF Interrupt, Put, Open
  <2>2. Close \in Frame /\ Rank(Close) = 0 /\ Genuine(e, Close)
    BY DEF Close, Frame, Rank, Genuine
  <2> QED
    BY <2>1, <2>2 DEF HasSent
<1>5. CASE RecvKey(d) \/ InitCtx(d) \/ SetAuthenticated(d) \/ (d = "client" /\ (RecvAesKey \/ RecvAesIv))
           \/ process_frame(d) \/ RecvFails(d) \/ LibraryFails(d)
  <2>1. wire'[e] = wire[e] /\ Open(d)
    BY <1>5 DEF RecvKey, InitCtx, SetAuthenticated, RecvAesKey, RecvAesIv, RecvAes, process_frame,
                RecvFails, LibraryFails, Get, Open, Waiting
  <2>2. Open(d)' => HasSent(d) <= HasSent(d)'
                    /\ \A r \in Ranks(e) \ {4} : r <= HasSent(d)' => r <= HasSent(d)
    BY <1>5 DEF RecvKey, InitCtx, SetAuthenticated, RecvAesKey, RecvAesIv, RecvAes, process_frame,
                RecvFails, LibraryFails, Open, Waiting, HasSent, Ranks, Checked, End
  <2> QED
    BY <2>1, <2>2
<1> QED
  BY <1>1, <1>2, <1>3, <1>4, <1>5 DEF Step, peer_receive, authenticate_peer

-----------------------------------------------------------------------------
(***************************************************************************)
(* Every step keeps every part of the invariant.                           *)
(***************************************************************************)
\* Ranks are numbers.
LEMMA RankTypes ==
  ASSUME NEW e \in End
  PROVE  /\ Ranks(e) \subseteq 1..4
         /\ Expects(e) \in 1..4 /\ Expects(e)' \in 1..4
         /\ HasSent(e) \in 0..4 /\ HasSent(e)' \in 0..4
         /\ \A frame : Rank(frame) \in 0..4
  BY DEF Ranks, Expects, HasSent, Rank

\* The end that takes a frame finds the next one due, in order and without a gap.
LEMMA FlowReceiver ==
  ASSUME HInv, NEW e \in End, Step(e), Open(e)'
  PROVE  InOrder(e)'
<1>1. Open(e)
  BY DEF Open, Step, peer_receive, authenticate_peer, SendKey, RecvKey, InitCtx, SetAuthenticated,
         SendAesKey, SendAesIv, SendAes, RecvAesKey, RecvAesIv, RecvAes, process_frame, RecvFails,
         LibraryFails, SendPacket, Interrupt, Waiting, HInv, TypeOK
<1>2. Due(e) /\ Ordered(e) /\ NoGap(e) /\ AllThere(e) /\ NotAhead(e)
  BY <1>1 DEF HInv, Flow, InOrder
<1>3. /\ Other(e) \in End /\ Other(e) # e
      /\ Open(Other(e))' = Open(Other(e)) /\ HasSent(Other(e))' = HasSent(Other(e))
  BY OtherEnd, TwoEnds DEF HInv, Open, HasSent
<1>4. CASE wire'[e] = wire[e] /\ Expects(e)' = Expects(e)
  BY <1>2, <1>3, <1>4 DEF InOrder, Due, Ordered, NoGap, AllThere, NotAhead
<1>5. CASE /\ wire[e] # <<>> /\ wire'[e] = Tail(wire[e])
           /\ Rank(Head(wire[e])) = Expects(e)
           /\ Expects(e) < Expects(e)' \/ (Expects(e) = 4 /\ Expects(e)' = 4)
           /\ \A r \in Ranks(e) : Expects(e) < r => Expects(e)' <= r
  <2> DEFINE w == wire[e]
  <2> DEFINE v == Tail(wire[e])
  <2>1. /\ w \in Seq(Frame) /\ Len(w) \in Nat /\ Len(v) = Len(w) - 1 /\ 1 \in 1..Len(w)
        /\ \A i \in 1..Len(v) : v[i] = w[i + 1] /\ i + 1 \in 1..Len(w)
        /\ Head(w) = w[1]
    BY <1>5, Channels DEF HInv
  <2>2. \A i \in 1..Len(w) : i = 1 \/ (i - 1 \in 1..Len(v) /\ v[i - 1] = w[i])
    BY <2>1
  <2>3. ASSUME NEW i \in 1..Len(v), Rank(v[i]) # 0
        PROVE  Expects(e)' <= Rank(v[i]) /\ Rank(v[i]) \in Ranks(e)
    <3>1. v[i] = w[i + 1] /\ i + 1 \in 1..Len(w) /\ 1 < i + 1
      BY <2>1
    <3>2. Rank(w[1]) = Expects(e) /\ Rank(w[1]) # 0
      BY <1>5, <2>1, RankTypes
    <3>3. Rank(w[1]) < Rank(v[i]) \/ (Rank(w[1]) = 4 /\ Rank(v[i]) = 4)
      BY <1>2, <2>1, <2>3, <3>1, <3>2 DEF Ordered
    <3>4. Rank(v[i]) \in Ranks(e)
      BY <1>2, <2>3, <3>1 DEF Due
    <3> QED
      BY <1>5, <3>2, <3>3, <3>4, RankTypes
  <2>4. Due(e)'
    BY <1>2, <1>3, <1>5, <2>1, <2>3 DEF Due
  <2>5. Ordered(e)'
    <3> SUFFICES ASSUME NEW i \in 1..Len(v), NEW j \in 1..Len(v), i < j, Rank(v[i]) # 0, Rank(v[j]) # 0
                 PROVE  Rank(v[i]) < Rank(v[j]) \/ (Rank(v[i]) = 4 /\ Rank(v[j]) = 4)
      BY <1>5 DEF Ordered
    <3>1. v[i] = w[i + 1] /\ v[j] = w[j + 1] /\ i + 1 < j + 1
          /\ i + 1 \in 1..Len(w) /\ j + 1 \in 1..Len(w)
      BY <2>1
    <3> QED
      BY <1>2, <3>1 DEF Ordered
  <2>6. ASSUME NEW r \in Ranks(e), Expects(e)' <= r, r < 4,
               \E j \in 1..Len(w) : Rank(w[j]) = r
        PROVE  \E j \in 1..Len(v) : Rank(v[j]) = r
    <3>1. PICK j \in 1..Len(w) : Rank(w[j]) = r
      BY <2>6
    <3>2. j # 1
      BY <1>5, <2>1, <2>6, <3>1, RankTypes
    <3> QED
      BY <2>2, <3>1, <3>2
  <2>7. NoGap(e)'
    <3> SUFFICES ASSUME NEW i \in 1..Len(v), NEW r \in Ranks(e), Expects(e)' <= r, r < Rank(v[i])
                 PROVE  \E j \in 1..Len(v) : Rank(v[j]) = r
      BY <1>5 DEF NoGap
    <3>1. r < 4 /\ Expects(e) <= r
      BY <1>5, RankTypes
    <3>2. \E j \in 1..Len(w) : Rank(w[j]) = r
      BY <1>2, <2>1, <3>1 DEF NoGap
    <3> QED
      BY <2>6, <3>1, <3>2
  <2>8. AllThere(e)'
    <3> SUFFICES ASSUME Open(Other(e)), NEW r \in Ranks(e) \ {4}, Expects(e)' <= r, r <= HasSent(Other(e))
                 PROVE  \E j \in 1..Len(v) : Rank(v[j]) = r
      BY <1>3, <1>5 DEF AllThere
    <3>1. r < 4 /\ Expects(e) <= r
      BY <1>5, RankTypes
    <3>2. \E j \in 1..Len(w) : Rank(w[j]) = r
      BY <1>2, <3>1 DEF AllThere
    <3> QED
      BY <2>6, <3>1, <3>2
  <2>9. NotAhead(e)'
    <3> SUFFICES ASSUME Open(Other(e)), NEW r \in Ranks(e), HasSent(Other(e)) < r
                 PROVE  Expects(e)' <= r
      BY <1>3 DEF NotAhead
    <3>1. Expects(e) <= HasSent(Other(e))
      BY <1>2, <1>5, <2>1, RankTypes DEF Due
    <3>2. HasSent(Other(e)) \in 0..4
      BY <1>3, RankTypes
    <3> QED
      BY <1>5, <3>1, <3>2, RankTypes
  <2> QED
    BY <2>4, <2>5, <2>7, <2>8, <2>9 DEF InOrder
<1> QED
  BY <1>4, <1>5, Receives

\* The end that sends adds what comes next.
LEMMA FlowSender ==
  ASSUME HInv, NEW d \in End, Step(d), NEW e \in End, e = Other(d), Open(e)
  PROVE  InOrder(e)'
<1>1. Due(e) /\ Ordered(e) /\ NoGap(e) /\ AllThere(e) /\ NotAhead(e)
  BY DEF HInv, Flow, InOrder
<1>2. Other(e) = d /\ e # d /\ Expects(e)' = Expects(e)
  BY OtherEnd, TwoEnds DEF HInv, Expects
<1>3. CASE /\ wire'[e] = wire[e]
           /\ Open(d)' => /\ Open(d) /\ HasSent(d) <= HasSent(d)'
                          /\ \A r \in Ranks(e) \ {4} : r <= HasSent(d)' => r <= HasSent(d)
  <2>1. Due(e)'
    BY <1>1, <1>2, <1>3, RankTypes DEF Due
  <2>2. Ordered(e)' /\ NoGap(e)'
    BY <1>1, <1>2, <1>3 DEF Ordered, NoGap
  <2>3. AllThere(e)'
    BY <1>1, <1>2, <1>3 DEF AllThere
  <2>4. NotAhead(e)'
    BY <1>1, <1>2, <1>3, RankTypes DEF NotAhead
  <2> QED
    BY <2>1, <2>2, <2>3, <2>4 DEF InOrder
<1>4. ASSUME Open(d), Open(d)', NEW f \in Frame, wire'[e] = Append(wire[e], f),
             \/ Rank(f) = 0 /\ HasSent(d)' = HasSent(d)
             \/ /\ Rank(f) \in Ranks(e) /\ Rank(f) = HasSent(d)'
                /\ HasSent(d) < Rank(f) \/ (HasSent(d) = 4 /\ Rank(f) = 4)
                /\ \A r \in Ranks(e) \ {4} : r <= HasSent(d)' => r <= HasSent(d) \/ r = Rank(f)
      PROVE  InOrder(e)'
  <2> DEFINE w == wire[e]
  <2> DEFINE v == Append(w, f)
  <2> DEFINE n == Len(w) + 1
  <2>1. /\ Len(w) \in Nat /\ Len(v) = n /\ n \in 1..Len(v) /\ v[n] = f
        /\ \A i \in 1..Len(w) : v[i] = w[i] /\ i \in 1..Len(v) /\ i < n
        /\ \A i \in 1..Len(v) : i \in 1..Len(w) \/ i = n
    BY Channels DEF HInv
  <2>2. HasSent(d) <= HasSent(d)'
    BY <1>4, RankTypes
  <2>3. \A i \in 1..Len(w) : Rank(w[i]) <= HasSent(d)
    BY <1>1, <1>2, <1>4, RankTypes DEF Due
  <2>4. Rank(f) # 0 => Expects(e) <= Rank(f)
    BY <1>1, <1>2, <1>4, RankTypes DEF NotAhead
  <2>5. Due(e)'
    <3> SUFFICES ASSUME NEW i \in 1..Len(v), Rank(v[i]) # 0
                 PROVE  Rank(v[i]) \in Ranks(e) /\ Expects(e) <= Rank(v[i]) /\ Rank(v[i]) <= HasSent(d)'
      BY <1>2, <1>4 DEF Due
    <3>1. CASE i = n
      BY <1>4, <2>1, <2>4, <3>1, RankTypes
    <3>2. CASE i \in 1..Len(w)
      BY <1>1, <2>1, <2>2, <2>3, <3>2, RankTypes DEF Due
    <3> QED
      BY <2>1, <3>1, <3>2
  <2>6. Ordered(e)'
    <3> SUFFICES ASSUME NEW i \in 1..Len(v), NEW j \in 1..Len(v), i < j, Rank(v[i]) # 0, Rank(v[j]) # 0
                 PROVE  Rank(v[i]) < Rank(v[j]) \/ (Rank(v[i]) = 4 /\ Rank(v[j]) = 4)
      BY <1>4 DEF Ordered
    <3>1. i \in 1..Len(w) /\ v[i] = w[i]
      BY <2>1
    <3>2. CASE j = n
      BY <1>4, <2>1, <2>3, <3>1, <3>2, RankTypes
    <3>3. CASE j \in 1..Len(w)
      BY <1>1, <2>1, <3>1, <3>3 DEF Ordered
    <3> QED
      BY <2>1, <3>2, <3>3
  <2>7. \A r : (\E j \in 1..Len(w) : Rank(w[j]) = r) => \E j \in 1..Len(v) : Rank(v[j]) = r
    BY <2>1
  <2>8. NoGap(e)'
    <3> SUFFICES ASSUME NEW i \in 1..Len(v), NEW r \in Ranks(e), Expects(e) <= r, r < Rank(v[i])
                 PROVE  \E j \in 1..Len(v) : Rank(v[j]) = r
      BY <1>2, <1>4 DEF NoGap
    <3>1. CASE i = n
      <4>1. r \in Ranks(e) \ {4} /\ r <= HasSent(d)
        BY <1>4, <2>1, <3>1, RankTypes
      <4> QED
        BY <1>1, <1>2, <1>4, <2>7, <4>1 DEF AllThere
    <3>2. CASE i \in 1..Len(w)
      BY <1>1, <2>1, <2>7, <3>2 DEF NoGap
    <3> QED
      BY <2>1, <3>1, <3>2
  <2>9. AllThere(e)'
    <3> SUFFICES ASSUME NEW r \in Ranks(e) \ {4}, Expects(e) <= r, r <= HasSent(d)'
                 PROVE  \E j \in 1..Len(v) : Rank(v[j]) = r
      BY <1>2, <1>4 DEF AllThere
    <3>1. CASE r <= HasSent(d)
      BY <1>1, <1>2, <1>4, <2>7, <3>1 DEF AllThere
    <3>2. CASE ~(r <= HasSent(d))
      BY <1>4, <2>1, <3>2
    <3> QED
      BY <3>1, <3>2
  <2>10. NotAhead(e)'
    BY <1>1, <1>2, <1>4, <2>2, RankTypes DEF NotAhead
  <2> QED
    BY <2>5, <2>6, <2>8, <2>9, <2>10 DEF InOrder
<1> QED
  BY <1>3, <1>4, Sends

\* The frames on their way stay in order, whichever end takes the step.
LEMMA FlowStep ==
  ASSUME HInv, NEW e \in End, Step(e)
  PROVE  Flow'
<1> SUFFICES ASSUME NEW d \in End, Open(d)' PROVE InOrder(d)'
  BY DEF Flow
<1>1. CASE d = e
  BY <1>1, FlowReceiver
<1>2. CASE d = Other(e)
  <2>1. Open(d)
    BY <1>2, OtherEnd, TwoEnds DEF HInv, Open
  <2> QED
    BY <1>2, <2>1, FlowSender
<1> QED
  BY <1>1, <1>2, TwoEnds

\* Every step keeps the types.
LEMMA TypeStep ==
  ASSUME HInv, NEW e \in End, Step(e)
  PROVE  TypeOK'
<1> USE Channels, TwoEnds DEF HInv
<1>1. pc' \in [End -> {"send_key", "send_aes_key", "send_aes_iv", "init_ctx",
                       "set_authenticated", "closed"} \cup Waiting]
      /\ UNCHANGED keys
  BY OtherEnd
<1>2. wire' \in [End -> Seq(Frame)]
  <2>1. CASE wire' = wire
    BY <2>1
  <2>2. CASE Get(e)
    BY <2>2 DEF Get
  <2>3. ASSUME NEW f \in Frame, Put(e, f) PROVE wire' \in [End -> Seq(Frame)]
    BY <2>3 DEF Put
  <2>4. daemon_pubkey[e] \in Key /\ (pc["server"] \in {"send_aes_key", "send_aes_iv"} => pubkey["server"] \in Key)
    BY DEF TypeOK, Checked, Keyed, End, Other
  <2>5. CASE SendKey(e)
    BY <2>3, <2>4, <2>5, Frames DEF SendKey
  <2>6. CASE e = "server" /\ (SendAesKey \/ SendAesIv)
    BY <2>3, <2>4, <2>6, Frames DEF SendAesKey, SendAesIv, SendAes
  <2>7. CASE SendPacket(e) \/ Interrupt(e)
    <3>1. NetPacket \in Frame /\ Close \in Frame
      BY DEF NetPacket, Close, Frame
    <3> QED
      BY <2>3, <2>7, <3>1 DEF SendPacket, Interrupt
  <2> QED
    BY <2>1, <2>2, <2>5, <2>6, <2>7
       DEF Step, peer_receive, authenticate_peer, RecvKey, InitCtx, SetAuthenticated, RecvAesKey,
           RecvAesIv, RecvAes, process_frame, RecvFails, LibraryFails
<1>3. pubkey' \in [End -> Key \cup {None}]
  <2>1. CASE RecvKey(e)
    <3>1. Head(wire[e]) \in Frame
      BY <2>1 DEF RecvKey, Get
    <3>2. Head(wire[e]).key \in Key \cup {None}
      BY <3>1 DEF Frame
    <3> QED
      BY <2>1, <3>2 DEF RecvKey, TypeOK
  <2> QED
    BY <2>1 DEF TypeOK, Step, peer_receive, authenticate_peer, SendKey, InitCtx, SetAuthenticated,
         SendAesKey, SendAesIv, SendAes, RecvAesKey, RecvAesIv, RecvAes, process_frame, RecvFails,
         LibraryFails, SendPacket, Interrupt
<1>4. ctx' \in [End -> BOOLEAN] /\ authenticated' \in [End -> BOOLEAN]
  BY DEF TypeOK, Step, peer_receive, authenticate_peer, SendKey, RecvKey, InitCtx, SetAuthenticated,
         SendAesKey, SendAesIv, SendAes, RecvAesKey, RecvAesIv, RecvAes, process_frame, RecvFails,
         LibraryFails, SendPacket, Interrupt
<1>5. interrupted' \subseteq End
  BY DEF TypeOK, Step, peer_receive, authenticate_peer, SendKey, RecvKey, InitCtx, SetAuthenticated,
         SendAesKey, SendAesIv, SendAes, RecvAesKey, RecvAesIv, RecvAes, process_frame, RecvFails,
         LibraryFails, SendPacket, Interrupt
<1>6. packets' \in [End -> 0..Packets]
  <2>1. CASE SendPacket(e)
    <3>1. packets[e] \in 0..Packets /\ packets[e] > 0 /\ packets' = [packets EXCEPT ![e] = @ - 1]
      BY <2>1 DEF TypeOK, SendPacket
    <3>2. packets[e] - 1 \in 0..Packets
      BY <3>1, HandshakeAssumption
    <3> QED
      BY <3>1, <3>2 DEF TypeOK
  <2>2. CASE ~SendPacket(e)
    <3>1. packets' = packets
      BY <2>2
         DEF Step, peer_receive, authenticate_peer, SendKey, RecvKey, InitCtx, SetAuthenticated,
             SendAesKey, SendAesIv, SendAes, RecvAesKey, RecvAesIv, RecvAes, process_frame,
             RecvFails, LibraryFails, Interrupt
    <3> QED
      BY <3>1 DEF TypeOK
  <2> QED
    BY <2>1, <2>2
<1>7. \A d \in End : authenticated'[d] => ctx'[d] /\ pubkey'[d] # None
  <2> SUFFICES ASSUME NEW d \in End, authenticated'[d] PROVE ctx'[d] /\ pubkey'[d] # None
    OBVIOUS
  <2>1. CASE d = e /\ SetAuthenticated(e)
    <3>1. pc[e] = "set_authenticated"
      BY <2>1 DEF SetAuthenticated
    <3>2. ctx[e] /\ pubkey[e] = daemon_pubkey[Other(e)]
      BY <3>1 DEF Checked, Keyed
    <3>3. pubkey[e] # None
      <4>1. daemon_pubkey[Other(e)] \in Key
        BY DEF TypeOK
      <4> QED
        BY <3>2, <4>1, HandshakeAssumption
    <3>4. ctx' = ctx /\ pubkey' = pubkey
      BY <2>1 DEF SetAuthenticated
    <3>5. ctx'[e] /\ pubkey'[e] # None
      BY <3>2, <3>3, <3>4
    <3>6. d = e
      BY <2>1
    <3> QED
      BY <3>5, <3>6
  <2>2. CASE ~(d = e /\ SetAuthenticated(e))
    <3>1. authenticated[d]
      BY <2>2, OtherEnd
         DEF TypeOK, Step, peer_receive, authenticate_peer, SendKey, RecvKey, InitCtx, SendAesKey,
             SendAesIv, SendAes, RecvAesKey, RecvAesIv, RecvAes, process_frame, RecvFails,
             LibraryFails, SendPacket, Interrupt
    <3>2. ctx[d] /\ pubkey[d] # None /\ pc[d] \in {"loop", "closed"}
      BY <3>1 DEF TypeOK, Checked
    <3> QED
      BY <3>2, OtherEnd
         DEF Step, peer_receive, authenticate_peer, SendKey, RecvKey, InitCtx, SetAuthenticated,
             SendAesKey, SendAesIv, SendAes, RecvAesKey, RecvAesIv, RecvAes, process_frame,
             RecvFails, LibraryFails, SendPacket, Interrupt
  <2> QED
    BY <2>1, <2>2
<1> QED
  BY <1>1, <1>2, <1>3, <1>4, <1>5, <1>6, <1>7 DEF TypeOK, Frame

\* Only frames of the protocol are added.
LEMMA GenuineStep ==
  ASSUME HInv, NEW e \in End, Step(e)
  PROVE  AllGenuine'
<1> SUFFICES ASSUME NEW d \in End, NEW i \in 1..Len(wire'[d]) PROVE Genuine(d, wire[d][i])'
  BY DEF AllGenuine
<1> DEFINE frame == wire'[d][i]
<1> SUFFICES Genuine(d, frame)
  <2>1. daemon_pubkey' = daemon_pubkey /\ trusted_keys' = trusted_keys
    BY OtherEnd DEF HInv
  <2> QED
    BY <2>1 DEF Genuine, is_trusted_key, keys_match
<1>1. wire[d] \in Seq(Frame) /\ \A j \in 1..Len(wire[d]) : Genuine(d, wire[d][j])
  BY Channels DEF HInv, AllGenuine
<1>2. CASE wire'[d] = wire[d]
  BY <1>1, <1>2
<1>3. CASE wire[d] # <<>> /\ wire'[d] = Tail(wire[d])
  <2>1. i + 1 \in 1..Len(wire[d]) /\ wire'[d][i] = wire[d][i + 1]
    BY <1>1, <1>3
  <2> QED
    BY <1>1, <2>1
<1>4. CASE \E f \in Frame : wire'[d] = Append(wire[d], f) /\ Genuine(d, f)
  BY <1>1, <1>4
<1>5. CASE d = e
  <2>1. wire'[e] = wire[e] \/ (wire[e] # <<>> /\ wire'[e] = Tail(wire[e]))
    BY Channels, TwoEnds
       DEF HInv, Step, peer_receive, authenticate_peer, SendKey, RecvKey, InitCtx, SetAuthenticated,
           SendAesKey, SendAesIv, SendAes, RecvAesKey, RecvAesIv, RecvAes, process_frame, RecvFails,
           LibraryFails, SendPacket, Interrupt, Get, Put
  <2> QED
    BY <1>2, <1>3, <1>5, <2>1
<1>6. CASE d = Other(e) /\ Open(d)
  BY <1>2, <1>4, <1>6, Sends
<1>7. CASE d = Other(e) /\ ~Open(d)
  <2>1. wire'[d] = wire[d]
    BY <1>7, Channels, TwoEnds
       DEF HInv, Step, peer_receive, authenticate_peer, SendKey, RecvKey, InitCtx, SetAuthenticated,
           SendAesKey, SendAesIv, SendAes, RecvAesKey, RecvAesIv, RecvAes, process_frame, RecvFails,
           LibraryFails, SendPacket, Interrupt, Get, Put, End, Other
  <2> QED
    BY <1>2, <2>1
<1> QED
  BY <1>5, <1>6, <1>7, TwoEnds

\* An end goes on only after it has checked what it received.
LEMMA CheckedStep ==
  ASSUME HInv, NEW e \in End, Step(e)
  PROVE  Checked'
<1> USE Channels, TwoEnds DEF HInv
<1>1. daemon_pubkey' = daemon_pubkey /\ daemon_privkey' = daemon_privkey /\ trusted_keys' = trusted_keys
  BY OtherEnd
<1>4. pc'["client"] \notin {"send_aes_key", "send_aes_iv"} /\ pc'["server"] \notin {"recv_aes_key", "recv_aes_iv"}
  BY DEF Checked, Step, peer_receive, authenticate_peer, SendKey, RecvKey, InitCtx, SetAuthenticated,
         SendAesKey, SendAesIv, SendAes, RecvAesKey, RecvAesIv, RecvAes, process_frame, RecvFails,
         LibraryFails, SendPacket, Interrupt, End
<1>5. ASSUME NEW d \in End, pc'[d] \in Keyed
      PROVE  pubkey'[d] = daemon_pubkey[Other(d)] /\ is_trusted_key(d, daemon_pubkey[Other(d)])
  <2>1. CASE d = e /\ RecvKey(e)
    <3> DEFINE frame == Head(wire[e])
    <3>1. wire[e] # <<>> /\ pc[e] = "recv_key" /\ pc'[e] # "closed"
      BY <1>5, <2>1 DEF RecvKey, Get, Keyed
    <3>2. frame.type = "AUTH"
      BY <2>1, <3>1 DEF RecvKey
    <3>3. pubkey'[e] = frame.key
      BY <2>1, <3>2 DEF RecvKey, TypeOK
    <3>4. is_trusted_key(e, frame.key)
      BY <2>1, <3>1, <3>2 DEF RecvKey, is_trusted_key
    <3>5. Genuine(e, frame) /\ Rank(frame) = 1
      BY <3>1, <3>2, HeadGenuine, HeadExpected DEF Flow, InOrder, Open, Expects
    <3>6. frame.data = "key"
      BY <3>5 DEF Rank
    <3> QED
      BY <2>1, <3>3, <3>4, <3>5, <3>6 DEF Genuine
  <2>2. CASE ~(d = e /\ RecvKey(e))
    <3>1. pc[d] \in Keyed /\ pubkey'[d] = pubkey[d]
      BY <1>5, <2>2, OtherEnd
         DEF Keyed, Step, peer_receive, authenticate_peer, SendKey, InitCtx, SetAuthenticated,
             SendAesKey, SendAesIv, SendAes, RecvAesKey, RecvAesIv, RecvAes, process_frame,
             RecvFails, LibraryFails, SendPacket, Interrupt
    <3> QED
      BY <3>1 DEF Checked
  <2> QED
    BY <2>1, <2>2
<1>6. ASSUME NEW d \in End, pc'[d] \in {"set_authenticated", "loop"}
      PROVE  ctx'[d]
  <2>1. CASE d = e /\ InitCtx(e)
    BY <2>1 DEF InitCtx, TypeOK
  <2>2. CASE ~(d = e /\ InitCtx(e))
    <3>1. pc[d] \in {"set_authenticated", "loop"} /\ ctx'[d] = ctx[d]
      BY <1>6, <2>2, OtherEnd
         DEF Step, peer_receive, authenticate_peer, SendKey, RecvKey, SetAuthenticated,
             SendAesKey, SendAesIv, SendAes, RecvAesKey, RecvAesIv, RecvAes, process_frame,
             RecvFails, LibraryFails, SendPacket, Interrupt
    <3> QED
      BY <3>1 DEF Checked
  <2> QED
    BY <2>1, <2>2
<1>7. ASSUME NEW d \in End, authenticated'[d]
      PROVE  pc'[d] \in {"loop", "closed"}
  <2>1. CASE d = e /\ SetAuthenticated(e)
    BY <2>1 DEF SetAuthenticated
  <2>2. CASE ~(d = e /\ SetAuthenticated(e))
    <3>1. authenticated[d]
      BY <1>7, <2>2, OtherEnd
         DEF TypeOK, Step, peer_receive, authenticate_peer, SendKey, RecvKey, InitCtx, SendAesKey,
             SendAesIv, SendAes, RecvAesKey, RecvAesIv, RecvAes, process_frame, RecvFails,
             LibraryFails, SendPacket, Interrupt
    <3>2. pc[d] \in {"loop", "closed"}
      BY <3>1 DEF Checked
    <3> QED
      BY <3>2, OtherEnd
         DEF Step, peer_receive, authenticate_peer, SendKey, RecvKey, InitCtx, SetAuthenticated,
             SendAesKey, SendAesIv, SendAes, RecvAesKey, RecvAesIv, RecvAes, process_frame,
             RecvFails, LibraryFails, SendPacket, Interrupt, Waiting
  <2> QED
    BY <2>1, <2>2
<1>8. ASSUME pc'["client"] \in {"recv_aes_iv", "init_ctx", "set_authenticated", "loop"}
      PROVE  /\ is_trusted_key("server", daemon_pubkey["client"])
             /\ daemon_pubkey["client"] = daemon_privkey["client"]
  <2>1. CASE e = "client" /\ RecvAesKey
    <3> DEFINE frame == Head(wire[e])
    <3>1. /\ wire[e] # <<>> /\ pc[e] = "recv_aes_key"
          /\ frame.data = "aes_key" /\ frame.key = daemon_privkey[e]
      BY <1>8, <2>1 DEF RecvAesKey, RecvAes, Get, rsa_decrypt
    <3>2. Genuine(e, frame)
      BY <3>1, HeadGenuine
    <3> QED
      BY <2>1, <3>1, <3>2 DEF Genuine
  <2>2. CASE ~(e = "client" /\ RecvAesKey)
    <3>1. "client" \in End
      BY DEF End
    <3>2. pc["client"] \in {"recv_aes_iv", "init_ctx", "set_authenticated", "loop"}
      BY <1>8, <2>2, <3>1, OtherEnd
         DEF Checked, Step, peer_receive, authenticate_peer, SendKey, RecvKey, InitCtx,
             SetAuthenticated, SendAesKey, SendAesIv, SendAes, RecvAesIv, RecvAes, process_frame,
             RecvFails, LibraryFails, SendPacket, Interrupt
    <3> QED
      BY <3>2 DEF Checked
  <2> QED
    BY <2>1, <2>2
<1> QED
  BY <1>1, <1>4, <1>5, <1>6, <1>7, <1>8 DEF Checked, is_trusted_key, keys_match

\* Who counts its peer as authenticated has checked its key.
LEMMA TrustStep ==
  ASSUME HInv, NEW e \in End, Step(e)
  PROVE  MutualTrust'
<1> USE Channels, TwoEnds DEF HInv
<1>1. daemon_pubkey' = daemon_pubkey /\ daemon_privkey' = daemon_privkey /\ trusted_keys' = trusted_keys
  BY OtherEnd
<1>3. "client" \in End /\ "server" \in End /\ Other("client") = "server" /\ Other("server") = "client"
  BY DEF End, Other
<1>4. ASSUME NEW d \in End, authenticated'[d]
      PROVE  authenticated[d] \/ pc[d] = "set_authenticated"
  BY <1>4, OtherEnd
     DEF TypeOK, Step, peer_receive, authenticate_peer, SendKey, RecvKey, InitCtx, SetAuthenticated,
         SendAesKey, SendAesIv, SendAes, RecvAesKey, RecvAesIv, RecvAes, process_frame, RecvFails,
         LibraryFails, SendPacket, Interrupt
<1>5. ASSUME authenticated'["client"]
      PROVE  /\ is_trusted_key("client", daemon_pubkey["server"])
             /\ is_trusted_key("server", daemon_pubkey["client"])
             /\ keys_match(daemon_pubkey["client"], daemon_privkey["client"])
  BY <1>3, <1>4, <1>5 DEF MutualTrust, Checked, Keyed, keys_match
<1>6. ASSUME authenticated'["server"]
      PROVE  is_trusted_key("server", daemon_pubkey["client"])
  BY <1>3, <1>4, <1>6 DEF MutualTrust, Checked, Keyed
<1> QED
  BY <1>1, <1>5, <1>6 DEF MutualTrust, is_trusted_key, keys_match

-----------------------------------------------------------------------------
(***************************************************************************)
(* The theorems.                                                           *)
(***************************************************************************)
\* Nothing is on its way at first, and nobody is authenticated.
LEMMA HInit == Init => HInv
<1> SUFFICES ASSUME Init PROVE HInv
  OBVIOUS
<1> USE DEF Init
<1>1. TypeOK
  <2>1. wire \in [End -> Seq(Frame)]
    BY DEF Frame
  <2> QED
    BY <2>1, HandshakeAssumption DEF TypeOK, Waiting, load_daemon_keys, load_trusted_keys, Frame
<1>2. \A e \in End : Len(wire[e]) = 0
  OBVIOUS
<1>3. \A e \in End : Due(e) /\ Ordered(e) /\ NoGap(e)
  BY <1>2 DEF Due, Ordered, NoGap
<1>4. \A e \in End : AllThere(e) /\ NotAhead(e)
  BY TwoEnds DEF AllThere, NotAhead, Expects, HasSent, Ranks
<1>5. AllGenuine
  BY <1>2 DEF AllGenuine
<1>6. Checked /\ MutualTrust
  BY DEF Checked, Keyed, MutualTrust, End
<1> QED
  BY <1>1, <1>3, <1>4, <1>5, <1>6 DEF HInv, Flow, InOrder

\* The invariant is inductive.
LEMMA HStep == HInv /\ [Next]_vars => HInv'
<1>1. ASSUME HInv, UNCHANGED vars PROVE HInv'
  <2> USE <1>1 DEF vars
  <2>1. TypeOK' /\ Checked' /\ MutualTrust'
    BY DEF HInv, TypeOK, Checked, MutualTrust, is_trusted_key, keys_match
  <2>2. Flow'
    BY DEF HInv, Flow, InOrder, Due, Ordered, NoGap, AllThere, NotAhead, Open, Expects, HasSent
  <2>3. AllGenuine'
    <3> SUFFICES ASSUME NEW e \in End, NEW i \in 1..Len(wire[e]) PROVE Genuine(e, wire[e][i])'
      BY DEF AllGenuine
    <3>1. Genuine(e, wire[e][i])
      BY DEF HInv, AllGenuine
    <3> QED
      BY <3>1 DEF Genuine, is_trusted_key, keys_match
  <2> QED
    BY <2>1, <2>2, <2>3 DEF HInv
<1>2. ASSUME HInv, NEW e \in End, Step(e) PROVE HInv'
  BY <1>2, TypeStep, FlowStep, GenuineStep, CheckedStep, TrustStep DEF HInv
<1> QED
  BY <1>1, <1>2 DEF Next, Step

\* Theorem: the invariant holds in every reachable state of a handshake.
THEOREM HandshakeInvariance == Spec => []HInv
  BY HInit, HStep, PTL DEF Spec

\* Theorem: the variables keep their types, and an authenticated peer has its key
\* and its contexts.
THEOREM HandshakeTypes == Spec => []TypeOK
<1>1. HInv => TypeOK
  BY DEF HInv
<1> QED
  BY <1>1, HandshakeInvariance, PTL

\* Theorem: the next frame an end reads is the one it waits for, or a CLOSE, so that
\* authenticate_peer rejects nobody for a frame out of place (peer_net.c:271-395).
THEOREM Lockstep == Spec => []InStep
<1>1. HInv => InStep
  <2> SUFFICES ASSUME HInv, NEW e \in End, pc[e] \in Waiting, wire[e] # <<>>,
                      Head(wire[e]).type # "CLOSE"
               PROVE  Head(wire[e]).data \in Expected(e)
    BY DEF InStep
  <2> DEFINE frame == Head(wire[e])
  <2>3. Rank(frame) = Expects(e)
    BY HeadGenuine, HeadExpected DEF HInv, Flow, InOrder, Open, Waiting
  <2>4. pc[e] \in {"recv_key", "recv_aes_key", "recv_aes_iv", "loop"}
    BY DEF Waiting
  <2>5. CASE pc[e] = "recv_key"
    BY <2>3, <2>5 DEF Expected, Expects, Rank
  <2>6. CASE pc[e] = "recv_aes_key"
    BY <2>3, <2>6 DEF Expected, Expects, Rank
  <2>7. CASE pc[e] = "recv_aes_iv"
    BY <2>3, <2>7 DEF Expected, Expects, Rank
  <2>8. CASE pc[e] = "loop"
    BY <2>3, <2>8 DEF Expected, Expects, Rank
  <2> QED
    BY <2>4, <2>5, <2>6, <2>7, <2>8
<1> QED
  BY <1>1, HandshakeInvariance, PTL

\* Theorem: a client that takes its server for authenticated trusts it, is trusted by
\* it and has the private key it should; a server trusts its client (peer_net.c:311, rsa.c:303-313).
THEOREM Trust == Spec => []MutualTrust
<1>1. HInv => MutualTrust
  BY DEF HInv
<1> QED
  BY <1>1, HandshakeInvariance, PTL

\* When both ends wait, each for a frame the other has not sent, both have sent all that
\* the handshake has.
LEMMA BothWait ==
  ASSUME HInv, \A e \in End : pc[e] \in Waiting /\ wire[e] = <<>>
  PROVE  \A e \in End : pc[e] = "loop"
<1>1. /\ "client" \in End /\ "server" \in End
      /\ Other("client") = "server" /\ Other("server") = "client"
      /\ \A e \in End : e = "client" \/ e = "server"
  BY DEF End, Other
<1>2. /\ pc["client"] \in {"recv_key", "recv_aes_key", "recv_aes_iv", "loop"}
      /\ pc["server"] \in {"recv_key", "loop"}
  BY <1>1 DEF HInv, Checked, Waiting
\* A frame of the handshake that was sent and is still expected would be on its way.
<1>3. ASSUME NEW e \in End, NEW r \in Ranks(e) \ {4}
      PROVE  ~(Expects(e) <= r /\ r <= HasSent(Other(e)))
  <2>1. Open(e) /\ Open(Other(e)) /\ Len(wire[e]) = 0
    BY <1>1, <1>2 DEF Open
  <2>2. ~ \E j \in 1..Len(wire[e]) : Rank(wire[e][j]) = r
    BY <2>1
  <2> QED
    BY <2>1, <2>2 DEF HInv, Flow, InOrder, AllThere
<1>4. pc["client"] # "recv_key"
  <2> SUFFICES ASSUME pc["client"] = "recv_key" PROVE FALSE
    OBVIOUS
  <2>1. 1 \in Ranks("client") \ {4} /\ Expects("client") = 1
    BY DEF Ranks, Expects
  <2>2. HasSent("server") = 1 \/ HasSent("server") = 4
    BY <1>2 DEF HasSent
  <2> QED
    BY <1>1, <1>3, <2>1, <2>2
<1>5. pc["server"] = "loop"
  <2> SUFFICES ASSUME pc["server"] = "recv_key" PROVE FALSE
    BY <1>2
  <2>1. 1 \in Ranks("server") \ {4} /\ Expects("server") = 1
    BY DEF Ranks, Expects
  <2>2. HasSent("client") = 1 \/ HasSent("client") = 4
    BY <1>2 DEF HasSent
  <2> QED
    BY <1>1, <1>3, <2>1, <2>2
<1>6. HasSent("server") = 4 /\ {2, 3} \subseteq Ranks("client") \ {4}
  BY <1>5 DEF HasSent, Ranks
<1>7. pc["client"] # "recv_aes_key"
  BY <1>1, <1>3, <1>6 DEF Expects
<1>8. pc["client"] # "recv_aes_iv"
  BY <1>1, <1>3, <1>6 DEF Expects
<1> QED
  BY <1>1, <1>2, <1>4, <1>5, <1>7, <1>8

\* Theorem: the receive threads of two daemons never wait for each other's next frame for
\* ever (peer_net.c:292-388, where receive_frame has no timeout): if neither can go on,
\* both are in the loop of peer_receive, or both have left.
THEOREM DeadlockFree == Spec => []NoDeadlock
<1>1. HInv => NoDeadlock
  <2> SUFFICES ASSUME HInv, \A e \in End : Blocked(e), NEW a \in End, pc[a] # "closed"
               PROVE  \A e \in End : pc[e] = "loop"
    BY DEF NoDeadlock
  <2>1. pc[a] \in Waiting /\ wire[a] = <<>> /\ Open(Other(a))
    BY DEF Blocked
  <2>2. Other(a) \in End /\ \A e \in End : e = a \/ e = Other(a)
    BY TwoEnds
  <2>3. pc[Other(a)] \in Waiting /\ wire[Other(a)] = <<>>
    BY <2>1, <2>2 DEF Blocked, Open
  <2> QED
    BY <2>1, <2>2, <2>3, BothWait
<1> QED
  BY <1>1, HandshakeInvariance, PTL
=============================================================================
