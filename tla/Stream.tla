------------------------------- MODULE Stream -------------------------------
(***************************************************************************)
(* One direction of an authenticated connection between two daemons: the   *)
(* threads of one daemon that send frames to a peer (send_data_to_peer:    *)
(* the tun thread, the receive threads of other peers, an interrupt), the  *)
(* stream of bytes between them, and the receive thread of the other       *)
(* daemon (receive_frame, process_frame), with the format of the frames    *)
(* (src/protocol.c) and what encryption does to them (src/encryption.c).   *)
(*                                                                         *)
(* Headers are real bytes.  A byte of payload is known by its frame and    *)
(* position.  The enclosing daemons do not exit and nothing cuts the       *)
(* connection but a CLOSE frame.                                           *)
(***************************************************************************)
EXTENDS Naturals, Sequences, SequencesExt, FiniteSets

CONSTANTS
  Sender,          \* the threads that send to the peer
  Frame,           \* the frames to send, each once (bounds the model)
  type, data_len,  \* header type and length of the data of each frame
  BlockSize,       \* block of the cipher, in bytes of payload
  FRAME_PAYLOAD_MAXSIZE,
  Capacity,        \* bytes the connection holds before send() blocks
  SenderLittle, ReceiverLittle,  \* is_little_endian() of the two hosts
  None

FRAME_HDR_CLOSE     == 2
FRAME_HDR_NETPACKET == 8
FRAME_HEADER_SIZE   == 5

\* Length of the data once sent: encryption fills up the last block, or adds one.
SentLen(f) ==
  IF type[f] = FRAME_HDR_NETPACKET THEN (data_len[f] \div BlockSize + 1) * BlockSize
  ELSE data_len[f]

ASSUME StreamAssumption ==
  /\ None \notin Sender \cup Frame
  /\ BlockSize \in Nat \ {0}
  /\ Capacity \in Nat \ {0}
  /\ FRAME_PAYLOAD_MAXSIZE \in 1..2^16
  /\ type \in [Frame -> {FRAME_HDR_CLOSE, FRAME_HDR_NETPACKET}]
  /\ data_len \in [Frame -> Nat]
  /\ \A f \in Frame : IF type[f] = FRAME_HDR_CLOSE THEN data_len[f] = 0
                      ELSE data_len[f] > 0 /\ SentLen(f) <= FRAME_PAYLOAD_MAXSIZE
  /\ {SenderLittle, ReceiverLittle} \subseteq BOOLEAN

VARIABLES
  pc,         \* where each sender is
  frame,      \* the frame it sends
  n_sent,     \* `sent`: bytes of the present part that are sent
  mutex,      \* the sender that holds peer->mutex
  encrypting, \* senders inside aes_encrypt with the one enc_ctx of the peer
  garbled,    \* frames whose data two overlapping encryptions have mixed up
  stream,     \* bytes sent and not yet read
  buf,        \* the bytes receive_frame has read of the present frame
  closed,     \* the receiver has left its loop and closed its socket
  sent,       \* history: frames in the order in which the mutex was taken for them
  received    \* history: frames process_frame was given, None for one never sent

vars == <<pc, frame, n_sent, mutex, encrypting, garbled, stream, buf, closed, sent, received>>

Init ==
  /\ pc = [t \in Sender |-> "idle"]
  /\ frame = [t \in Sender |-> None]
  /\ n_sent = [t \in Sender |-> 0]
  /\ mutex = None
  /\ encrypting = {}
  /\ garbled = {}
  /\ stream = <<>>
  /\ buf = <<>>
  /\ closed = FALSE
  /\ sent = <<>>
  /\ received = <<>>

-----------------------------------------------------------------------------
(***************************************************************************)
(* The frame header.                                                       *)
(***************************************************************************)

Byte(n, i) == (n \div 2^(8 * i)) % 2^8

\* Mutant: little endian as far as the highest byte, which is the lowest again.
write_uint32Twice(n, little) ==
  [i \in 1..4 |-> IF little THEN Byte(n, IF i = 4 THEN 0 ELSE i - 1) ELSE Byte(n, 4 - i)]

\* The four bytes of n as a host of that endianness writes them.
write_uint32(n, little) ==
  [i \in 1..4 |-> IF little THEN Byte(n, i - 1) ELSE Byte(n, 4 - i)]

read_uint32(b, little) ==
  IF little THEN b[1] + b[2] * 2^8 + b[3] * 2^16 + b[4] * 2^24
  ELSE b[4] + b[3] * 2^8 + b[2] * 2^16 + b[1] * 2^24

encode_frame_header(f) == <<type[f]>> \o write_uint32(SentLen(f), SenderLittle)

\* What the receiver makes of the first bytes of buf.
DecodedType == buf[1].byte
DecodedLen  == read_uint32([i \in 1..4 |-> buf[i + 1].byte], ReceiverLittle)

\* The two parts of frame f, each byte with the place it belongs to.
Header(f)  == [i \in 1..FRAME_HEADER_SIZE |->
                 [of |-> f, at |-> i, byte |-> encode_frame_header(f)[i]]]
Payload(f) == [i \in 1..SentLen(f) |-> [of |-> f, at |-> FRAME_HEADER_SIZE + i, byte |-> 0]]

-----------------------------------------------------------------------------
(***************************************************************************)
(* The senders: send_data_to_peer.                                         *)
(***************************************************************************)
Goto(t, from, to) ==
  /\ pc[t] = from
  /\ pc' = [pc EXCEPT ![t] = to]

Call(t, f) ==
  /\ \A u \in Sender : frame[u] # f
  /\ f \notin Range(sent)
  /\ Goto(t, "idle", IF type[f] = FRAME_HDR_NETPACKET THEN "encrypt" ELSE "lock")
  /\ frame' = [frame EXCEPT ![t] = f]
  /\ UNCHANGED <<n_sent, mutex, encrypting, garbled, stream, buf, closed, sent, received>>

\* aes_encrypt uses the peer's enc_ctx in three calls, without the mutex.  When two
\* threads are inside, what either produces is not determined.
EncryptBegin(t) ==
  /\ Goto(t, "encrypt", "encrypting")
  /\ encrypting' = encrypting \cup {t}
  /\ \E mixed \in SUBSET (IF encrypting = {} THEN {} ELSE encrypting \cup {t}) :
       garbled' = garbled \cup {frame[u] : u \in mixed}
  /\ UNCHANGED <<frame, n_sent, mutex, stream, buf, closed, sent, received>>

EncryptEnd(t) ==
  /\ Goto(t, "encrypting", "lock")
  /\ encrypting' = encrypting \ {t}
  /\ UNCHANGED <<frame, n_sent, mutex, garbled, stream, buf, closed, sent, received>>

\* Mutant: the mutex is not waited for.
LockNever(t) ==
  /\ Goto(t, "lock", "header")
  /\ mutex' = t
  /\ n_sent' = [n_sent EXCEPT ![t] = 0]
  /\ sent' = Append(sent, frame[t])
  /\ UNCHANGED <<frame, encrypting, garbled, stream, buf, closed, received>>

Lock(t) ==
  /\ Goto(t, "lock", "header")
  /\ mutex = None
  /\ mutex' = t
  /\ n_sent' = [n_sent EXCEPT ![t] = 0]
  /\ sent' = Append(sent, frame[t])
  /\ UNCHANGED <<frame, encrypting, garbled, stream, buf, closed, received>>

Part(t) == IF pc[t] = "header" THEN Header(frame[t]) ELSE Payload(frame[t])

\* send() takes as many bytes as it likes of those left, at least one.
SendSome(t) ==
  /\ pc[t] \in {"header", "payload"}
  /\ \E k \in 1..Len(Part(t)) - n_sent[t] :
       /\ Len(stream) + k <= Capacity
       /\ stream' = stream \o SubSeq(Part(t), n_sent[t] + 1, n_sent[t] + k)
       /\ n_sent' = [n_sent EXCEPT ![t] = @ + k]
  /\ UNCHANGED <<pc, frame, mutex, encrypting, garbled, buf, closed, sent, received>>

\* Mutant: `sent` is not reset between header and payload.
EndHeaderNoReset(t) ==
  /\ Goto(t, "header", "payload")
  /\ n_sent[t] = FRAME_HEADER_SIZE \/ closed
  /\ UNCHANGED <<frame, n_sent, mutex, encrypting, garbled, stream, buf, closed, sent, received>>

\* The loop over the header ends: all of it is sent, or send() failed because the
\* remote socket is closed.  Either way the payload comes next.
EndHeader(t) ==
  /\ Goto(t, "header", "payload")
  /\ n_sent[t] = FRAME_HEADER_SIZE \/ closed
  /\ n_sent' = [n_sent EXCEPT ![t] = 0]
  /\ UNCHANGED <<frame, mutex, encrypting, garbled, stream, buf, closed, sent, received>>

\* The loop over the payload ends likewise, and the mutex is released.
Unlock(t) ==
  /\ Goto(t, "payload", "idle")
  /\ n_sent[t] = SentLen(frame[t]) \/ closed
  /\ mutex' = None
  /\ frame' = [frame EXCEPT ![t] = None]
  /\ UNCHANGED <<n_sent, encrypting, garbled, stream, buf, closed, sent, received>>

-----------------------------------------------------------------------------
(***************************************************************************)
(* The receive thread.                                                     *)
(***************************************************************************)

\* Bytes receive_frame waits for: those of the header, then, once it is decoded,
\* those of the payload.
Missing ==
  IF Len(buf) < FRAME_HEADER_SIZE THEN FRAME_HEADER_SIZE - Len(buf)
  ELSE FRAME_HEADER_SIZE + DecodedLen - Len(buf)

\* recv() returns some of the bytes asked for.
RecvSome ==
  /\ ~closed
  /\ \E k \in 1..Len(stream) :
       /\ k <= Missing
       /\ buf' = buf \o SubSeq(stream, 1, k)
       /\ stream' = SubSeq(stream, k + 1, Len(stream))
  /\ UNCHANGED <<pc, frame, n_sent, mutex, encrypting, garbled, closed, sent, received>>

\* The frame in buf, None if its bytes are not those of one frame in their order.
Assembled ==
  IF buf = Header(buf[1].of) \o Payload(buf[1].of) THEN buf[1].of ELSE None

\* receive_frame returns and process_frame handles the frame: a CLOSE ends the loop,
\* after which the socket is closed.
process_frame ==
  /\ ~closed
  /\ Missing = 0
  /\ received' = Append(received, Assembled)
  /\ closed' = (DecodedType = FRAME_HDR_CLOSE)
  /\ buf' = <<>>
  /\ UNCHANGED <<pc, frame, n_sent, mutex, encrypting, garbled, stream, sent>>

-----------------------------------------------------------------------------
Encrypt(t) == EncryptBegin(t) \/ EncryptEnd(t)
Transmit(t) == Lock(t) \/ SendSome(t) \/ EndHeader(t) \/ Unlock(t)
Receiver == RecvSome \/ process_frame

Next ==
  \/ Receiver
  \/ \E t \in Sender : Encrypt(t) \/ Transmit(t) \/ \E f \in Frame : Call(t, f)

Spec == Init /\ [][Next]_vars

\* Threads are scheduled.
Fairness == WF_vars(Receiver) /\ \A t \in Sender : WF_vars(Encrypt(t) \/ Transmit(t))

FairSpec == Spec /\ Fairness

-----------------------------------------------------------------------------
(***************************************************************************)
(* Properties.                                                             *)
(***************************************************************************)
Item == [of : Frame, at : 1..FRAME_HEADER_SIZE + FRAME_PAYLOAD_MAXSIZE, byte : 0..255]

\* The variables keep their types and their bounds: no part is sent beyond its end
\* and the connection never holds more than its capacity.
TypeOK ==
  /\ pc \in [Sender -> {"idle", "encrypt", "encrypting", "lock", "header", "payload"}]
  /\ frame \in [Sender -> Frame \cup {None}]
  /\ n_sent \in [Sender -> Nat]
  /\ \A t \in Sender : pc[t] \in {"header", "payload"} => n_sent[t] <= Len(Part(t))
  /\ mutex \in Sender \cup {None}
  /\ encrypting \subseteq Sender
  /\ garbled \subseteq Frame
  /\ stream \in Seq(Item) /\ Len(stream) <= Capacity
  /\ buf \in Seq(Item)
  /\ closed \in BOOLEAN
  /\ sent \in Seq(Frame)
  /\ received \in Seq(Frame \cup {None})

\* receive_frame never takes a length for too big (peer_net.c:141), so that it never
\* throws bytes away and loses the place where the next frame begins, and it never
\* writes beyond the end of its buffer.
LengthAccepted == Len(buf) >= FRAME_HEADER_SIZE => DecodedLen <= FRAME_PAYLOAD_MAXSIZE

\* However the threads of the sending daemon are interleaved and wherever send() and
\* recv() cut the bytes, frames arrive whole, in the order in which the mutex was
\* taken for them, and all of them up to a CLOSE do.
L == INSTANCE Link WITH Close <- {f \in Frame : type[f] = FRAME_HDR_CLOSE}

FramesArrive == L!FairSpec

\* The receiver is handed the frames that were sent, whole, each once, in the order in
\* which the mutex was taken for them, and nothing behind a CLOSE.
ReceivedInOrder == L!InOrder

\* When nobody sends and nothing is left to read, no byte of a frame is missing: every
\* frame that was sent has been handled, unless a CLOSE has ended the connection.
NothingMissing ==
  ~closed /\ mutex = None /\ stream = <<>> /\ Missing > 0 => buf = <<>> /\ received = sent

\* structs.h:44: the mutex of struct peer is for its threads; the data of a packet
\* arrives as that of the packet that was sent.
PacketsIntact == Range(received) \cap garbled = {}
=============================================================================
