---------------------------- MODULE StreamProofs ----------------------------
(***************************************************************************)
(* Proofs, for any threads, frames, blocks and sizes, that Stream keeps    *)
(* what Link promises: when both hosts have the same byte order the frames *)
(* that process_frame is given are those that were sent, in the order in   *)
(* which the mutex was taken for them.                                     *)
(*                                                                         *)
(* The argument.  The bytes that are read and not yet handled, and those   *)
(* on the connection, are one sequence: the way.  It begins with the first *)
(* byte of the frame to be received next, it ends with the last byte sent, *)
(* and in between each byte is followed by the next one of its frame, or   *)
(* by the first of the next frame.  So the receiver decodes a header where *)
(* a header is.                                                            *)
(***************************************************************************)
EXTENDS Stream, SequenceTheorems, TLAPS

\* is_little_endian() is the same at both ends.
SameOrder == SenderLittle = ReceiverLittle

-----------------------------------------------------------------------------
(***************************************************************************)
(* Frames and their bytes.                                                 *)
(***************************************************************************)
Size(f) == FRAME_HEADER_SIZE + SentLen(f)

\* Byte p of frame f.
Unit(f, p) ==
  [of |-> f, at |-> p, byte |-> IF p <= FRAME_HEADER_SIZE THEN encode_frame_header(f)[p] ELSE 0]

LEMMA Powers ==
  /\ 2^(8 * 0) = 1 /\ 2^(8 * 1) = 256 /\ 2^(8 * 2) = 65536 /\ 2^(8 * 3) = 16777216
  /\ 2^8 = 256 /\ 2^16 = 65536 /\ 2^24 = 16777216
  OBVIOUS

LEMMA Sizes ==
  /\ BlockSize \in Nat /\ BlockSize # 0
  /\ FRAME_PAYLOAD_MAXSIZE \in Nat /\ 1 <= FRAME_PAYLOAD_MAXSIZE /\ FRAME_PAYLOAD_MAXSIZE <= 65536
  /\ FRAME_HDR_CLOSE = 2 /\ FRAME_HDR_NETPACKET = 8 /\ FRAME_HEADER_SIZE = 5
  /\ Capacity \in Nat
<1>1. BlockSize \in Nat /\ BlockSize # 0 /\ Capacity \in Nat
  BY StreamAssumption
<1>2. FRAME_PAYLOAD_MAXSIZE \in 1..2^16
  BY StreamAssumption
<1>3. FRAME_PAYLOAD_MAXSIZE \in Nat /\ 1 <= FRAME_PAYLOAD_MAXSIZE /\ FRAME_PAYLOAD_MAXSIZE <= 65536
  <2> DEFINE max == 2^16
  <2>1. max = 65536
    BY Powers
  <2>2. FRAME_PAYLOAD_MAXSIZE \in 1..max
    BY <1>2
  <2> HIDE DEF max
  <2>3. max \in Nat
    BY <2>1
  <2>4. FRAME_PAYLOAD_MAXSIZE \in Nat /\ 1 <= FRAME_PAYLOAD_MAXSIZE /\ FRAME_PAYLOAD_MAXSIZE <= max
    BY <2>2, <2>3
  <2> QED
    BY <2>1, <2>4
<1> QED
  BY <1>1, <1>3 DEF FRAME_HDR_CLOSE, FRAME_HDR_NETPACKET, FRAME_HEADER_SIZE

LEMMA Orders == SenderLittle \in BOOLEAN /\ ReceiverLittle \in BOOLEAN
  BY StreamAssumption, Zenon

LEMMA Data ==
  ASSUME NEW f \in Frame
  PROVE  /\ type[f] = FRAME_HDR_CLOSE \/ type[f] = FRAME_HDR_NETPACKET
         /\ data_len[f] \in Nat
         /\ type[f] = FRAME_HDR_CLOSE => data_len[f] = 0
         /\ type[f] = FRAME_HDR_NETPACKET => SentLen(f) <= FRAME_PAYLOAD_MAXSIZE
<1>1. type[f] \in {FRAME_HDR_CLOSE, FRAME_HDR_NETPACKET} /\ data_len[f] \in Nat
  BY StreamAssumption, Zenon
<1>2. IF type[f] = FRAME_HDR_CLOSE THEN data_len[f] = 0
      ELSE data_len[f] > 0 /\ SentLen(f) <= FRAME_PAYLOAD_MAXSIZE
  BY StreamAssumption, Zenon
<1> QED
  BY <1>1, <1>2, Sizes

LEMMA ByteRange ==
  ASSUME NEW n \in Nat, NEW i \in 0..3
  PROVE  Byte(n, i) \in 0..255
<1>1. \A m \in Nat : m % 256 \in 0..255
  OBVIOUS
<1>2. n \div 256 \in Nat /\ n \div 65536 \in Nat /\ n \div 16777216 \in Nat
  OBVIOUS
<1>3. /\ Byte(n, 0) \in 0..255 /\ Byte(n, 1) \in 0..255
      /\ Byte(n, 2) \in 0..255 /\ Byte(n, 3) \in 0..255
  <2> DEFINE a1 == n \div 256  a2 == n \div 65536  a3 == n \div 16777216
  <2>1. /\ Byte(n, 0) = n % 256 /\ Byte(n, 1) = a1 % 256
        /\ Byte(n, 2) = a2 % 256 /\ Byte(n, 3) = a3 % 256
    BY Powers DEF Byte
  <2>2. a1 \in Nat /\ a2 \in Nat /\ a3 \in Nat
    BY <1>2
  <2> HIDE DEF a1, a2, a3
  <2>3. n % 256 \in 0..255 /\ a1 % 256 \in 0..255 /\ a2 % 256 \in 0..255 /\ a3 % 256 \in 0..255
    BY <1>1, <2>2
  <2> QED
    BY <2>1, <2>3
<1>4. i = 0 \/ i = 1 \/ i = 2 \/ i = 3
  OBVIOUS
<1> QED
  BY <1>3, <1>4, Zenon

LEMMA FourBytes ==
  ASSUME NEW n \in Nat, n <= 65536
  PROVE  (n % 256) + ((n \div 256) % 256) * 256 + ((n \div 65536) % 256) * 65536
           + ((n \div 16777216) % 256) * 16777216 = n
  OBVIOUS

LEMMA SentLens ==
  ASSUME NEW f \in Frame
  PROVE  SentLen(f) \in Nat /\ SentLen(f) <= FRAME_PAYLOAD_MAXSIZE
<1>1. CASE type[f] = FRAME_HDR_CLOSE
  <2>1. SentLen(f) = 0
    BY <1>1, Data, Sizes DEF SentLen
  <2> QED
    BY <2>1, Sizes
<1>2. CASE type[f] = FRAME_HDR_NETPACKET
  <2>1. SentLen(f) = (data_len[f] \div BlockSize + 1) * BlockSize
    BY <1>2 DEF SentLen
  <2>2. data_len[f] \div BlockSize + 1 \in Nat
    BY Data, Sizes
  <2>3. \A m, n \in Nat : m * n \in Nat
    OBVIOUS
  <2>4. SentLen(f) \in Nat
    BY <2>1, <2>2, <2>3, Sizes
  <2> QED
    BY <1>2, <2>4, Data
<1> QED
  BY <1>1, <1>2, Data

\* A header is five bytes, and reading its length gives back what was written.
LEMMA HeaderBytes ==
  ASSUME NEW f \in Frame
  PROVE  /\ \A p \in 1..5 : encode_frame_header(f)[p] \in 0..255
         /\ encode_frame_header(f)[1] = type[f]
         /\ \A i \in 1..4 : encode_frame_header(f)[i + 1] = write_uint32(SentLen(f), SenderLittle)[i]
<1> DEFINE b == write_uint32(SentLen(f), SenderLittle)
<1>1. SentLen(f) \in Nat
  BY SentLens
<1>2. \A i \in 1..4 : b[i] \in 0..255
  <2>1. \A i \in 1..4 : i - 1 \in 0..3 /\ 4 - i \in 0..3
    OBVIOUS
  <2>2. \A i \in 1..4 : b[i] = Byte(SentLen(f), i - 1) \/ b[i] = Byte(SentLen(f), 4 - i)
    BY DEF write_uint32
  <2>3. \A j \in 0..3 : Byte(SentLen(f), j) \in 0..255
    BY <1>1, ByteRange
  <2> HIDE DEF b
  <2> QED
    BY <2>1, <2>2, <2>3
<1>3. b \in Seq(0..255) /\ Len(b) = 4
  <2>1. b = [i \in 1..4 |-> b[i]]
    BY DEF write_uint32
  <2> HIDE DEF b
  <2> QED
    BY <1>2, <2>1
<1>4. type[f] \in 0..255
  BY StreamAssumption DEF FRAME_HDR_CLOSE, FRAME_HDR_NETPACKET
<1>5. encode_frame_header(f) = <<type[f]>> \o b
  BY DEF encode_frame_header
<1> HIDE DEF b
<1>6. /\ (<<type[f]>> \o b)[1] = type[f]
      /\ \A i \in 1..4 : (<<type[f]>> \o b)[i + 1] = b[i]
  <2> DEFINE a == <<type[f]>>
  <2>1. a \in Seq(0..255) /\ Len(a) = 1 /\ a[1] = type[f]
    BY <1>4
  <2> HIDE DEF a
  <2> DEFINE c == a \o b
  <2>2. \A i \in 1..Len(a) + Len(b) : c[i] = IF i <= Len(a) THEN a[i] ELSE b[i - Len(a)]
    BY <1>3, <2>1, ConcatProperties, Zenon
  <2> HIDE DEF c
  <2>3. c[1] = a[1] /\ \A i \in 1..4 : c[i + 1] = b[i]
    BY <1>3, <2>1, <2>2
  <2> QED
    BY <2>1, <2>3 DEF a, c
<1>7. \A p \in 1..5 : p = 1 \/ (p - 1 \in 1..4 /\ p = (p - 1) + 1)
  OBVIOUS
<1>8. \A p \in 1..5 : (<<type[f]>> \o b)[p] \in 0..255
  <2> SUFFICES ASSUME NEW p \in 1..5 PROVE (<<type[f]>> \o b)[p] \in 0..255
    OBVIOUS
  <2> DEFINE c == <<type[f]>> \o b
  <2>1. c[1] \in 0..255 /\ \A i \in 1..4 : c[i + 1] \in 0..255
    BY <1>2, <1>4, <1>6
  <2> HIDE DEF c
  <2>2. c[p] \in 0..255
    BY <1>7, <2>1
  <2> QED
    BY <2>2 DEF c
<1> QED
  BY <1>5, <1>6, <1>8, Zenon DEF b

LEMMA ReadBack ==
  ASSUME NEW n \in Nat, n <= 65536, NEW little \in BOOLEAN
  PROVE  read_uint32(write_uint32(n, little), little) = n
<1> DEFINE a0 == n % 256
           a1 == (n \div 256) % 256
           a2 == (n \div 65536) % 256
           a3 == (n \div 16777216) % 256
           b == write_uint32(n, little)
<1>1. a0 + a1 * 256 + a2 * 65536 + a3 * 16777216 = n
  BY FourBytes
<1>2. Byte(n, 0) = a0 /\ Byte(n, 1) = a1 /\ Byte(n, 2) = a2 /\ Byte(n, 3) = a3
  BY Powers DEF Byte
<1> HIDE DEF a0, a1, a2, a3
<1>3. CASE little
  <2>1. b[1] = a0 /\ b[2] = a1 /\ b[3] = a2 /\ b[4] = a3
    BY <1>2, <1>3 DEF write_uint32
  <2>2. read_uint32(b, little) = b[1] + b[2] * 256 + b[3] * 65536 + b[4] * 16777216
    BY <1>3, Powers DEF read_uint32
  <2> HIDE DEF b
  <2>3. read_uint32(b, little) = n
    BY <1>1, <2>1, <2>2
  <2> QED
    BY <2>3 DEF b
<1>4. CASE ~little
  <2>1. b[4] = a0 /\ b[3] = a1 /\ b[2] = a2 /\ b[1] = a3
    BY <1>2, <1>4 DEF write_uint32
  <2>2. read_uint32(b, little) = b[4] + b[3] * 256 + b[2] * 65536 + b[1] * 16777216
    BY <1>4, Powers DEF read_uint32
  <2> HIDE DEF b
  <2>3. read_uint32(b, little) = n
    BY <1>1, <2>1, <2>2
  <2> QED
    BY <2>3 DEF b
<1> QED
  BY <1>3, <1>4

LEMMA Units ==
  ASSUME NEW f \in Frame
  PROVE  /\ Size(f) \in 5..5 + FRAME_PAYLOAD_MAXSIZE /\ Size(f) = 5 + SentLen(f)
         /\ FRAME_HEADER_SIZE = 5 /\ SentLen(f) \in Nat
         /\ \A p : Unit(f, p).of = f /\ Unit(f, p).at = p
         /\ \A p \in 1..Size(f) : Unit(f, p) \in Item
<1>1. /\ Size(f) \in 5..5 + FRAME_PAYLOAD_MAXSIZE /\ Size(f) = 5 + SentLen(f)
      /\ FRAME_HEADER_SIZE = 5 /\ SentLen(f) \in Nat
  BY SentLens, Sizes DEF Size
<1>2. \A p \in 1..Size(f) : Unit(f, p) \in Item
  <2> SUFFICES ASSUME NEW p \in 1..Size(f) PROVE Unit(f, p) \in Item
    OBVIOUS
  <2>1. (IF p <= 5 THEN encode_frame_header(f)[p] ELSE 0) \in 0..255
    BY <1>1, HeaderBytes
  <2>2. p \in 1..FRAME_HEADER_SIZE + FRAME_PAYLOAD_MAXSIZE
    BY <1>1, Sizes
  <2> QED
    BY <1>1, <2>1, <2>2 DEF Unit, Item
<1> QED
  BY <1>1, <1>2 DEF Unit

LEMMA Parts ==
  ASSUME NEW f \in Frame
  PROVE  /\ Header(f) \in Seq(Item) /\ Len(Header(f)) = 5
         /\ \A i \in 1..5 : Header(f)[i] = Unit(f, i)
         /\ Payload(f) \in Seq(Item) /\ Len(Payload(f)) = SentLen(f)
         /\ \A i \in 1..SentLen(f) : Payload(f)[i] = Unit(f, 5 + i)
<1>1. /\ Size(f) = 5 + SentLen(f) /\ FRAME_HEADER_SIZE = 5 /\ SentLen(f) \in Nat
      /\ \A p \in 1..Size(f) : Unit(f, p) \in Item
  BY Units
<1>2. Header(f) = [i \in 1..5 |-> Unit(f, i)]
  BY <1>1 DEF Header, Unit
<1>3. Payload(f) = [i \in 1..SentLen(f) |-> Unit(f, 5 + i)]
  BY <1>1 DEF Payload, Unit
<1>4. /\ \A i \in 1..5 : Unit(f, i) \in Item
      /\ \A i \in 1..SentLen(f) : Unit(f, 5 + i) \in Item
  BY <1>1
<1> QED
  BY <1>1, <1>2, <1>3, <1>4

\* What the receiver makes of a header is what it is.
LEMMA Decodes ==
  ASSUME SameOrder, NEW f \in Frame, \A i \in 1..5 : buf[i] = Unit(f, i)
  PROVE  DecodedLen = SentLen(f) /\ DecodedType = type[f]
<1>1. \A i \in 1..5 : buf[i].byte = encode_frame_header(f)[i]
  BY Sizes DEF Unit
<1>2. [i \in 1..4 |-> buf[i + 1].byte] = write_uint32(SentLen(f), SenderLittle)
  <2> DEFINE b == write_uint32(SentLen(f), SenderLittle)
  <2>1. b = [i \in 1..4 |-> b[i]]
    BY DEF write_uint32
  <2> HIDE DEF b
  <2>2. \A i \in 1..4 : i + 1 \in 1..5
    OBVIOUS
  <2>3. \A i \in 1..4 : encode_frame_header(f)[i + 1] = b[i]
    BY HeaderBytes DEF b
  <2>4. \A i \in 1..4 : buf[i + 1].byte = b[i]
    BY <1>1, <2>2, <2>3
  <2> QED
    BY <2>1, <2>4 DEF b
<1>3. DecodedLen = SentLen(f)
  <2>1. SentLen(f) \in Nat /\ SentLen(f) <= 65536
    <3>1. /\ SentLen(f) \in Nat /\ SentLen(f) <= FRAME_PAYLOAD_MAXSIZE
          /\ FRAME_PAYLOAD_MAXSIZE \in Nat /\ FRAME_PAYLOAD_MAXSIZE <= 65536
      BY SentLens, Sizes
    <3> QED
      BY <3>1
  <2>2. read_uint32(write_uint32(SentLen(f), SenderLittle), SenderLittle) = SentLen(f)
    BY <2>1, ReadBack, Orders
  <2> QED
    BY <1>2, <2>2 DEF DecodedLen, SameOrder
<1>4. DecodedType = type[f]
  BY <1>1, HeaderBytes DEF DecodedType
<1> QED
  BY <1>3, <1>4

-----------------------------------------------------------------------------
(***************************************************************************)
(* The way: a sequence w of bytes, when s are the frames for which the     *)
(* mutex was taken, the first k of them have been received, and n bytes of *)
(* the last one have been sent.                                            *)
(***************************************************************************)

\* Its elements are bytes of frames.
OfFrames(w) ==
  \A i \in 1..Len(w) : /\ w[i].of \in Frame /\ w[i].at \in 1..Size(w[i].of)
                       /\ w[i] = Unit(w[i].of, w[i].at)

\* The bytes of a frame follow one another.
Runs(w) ==
  \A i, j \in 1..Len(w) :
    i < j /\ w[i].at + (j - i) <= Size(w[i].of) => w[j] = Unit(w[i].of, w[i].at + (j - i))

\* After the last byte of a frame comes the first of the next.
Turns(w, s) ==
  \A i \in 1..Len(w) - 1 :
    w[i].at = Size(w[i].of) =>
      \E j \in 1..Len(s) - 1 : w[i].of = s[j] /\ w[i + 1] = Unit(s[j + 1], 1)

\* It begins with the first byte that was not received.
Begins(w, s, k) == Len(w) > 0 => k < Len(s) /\ w[1] = Unit(s[k + 1], 1)

\* It ends with the last byte that was sent.
Ends(w, s, k, n) ==
  IF Len(w) = 0 THEN \/ n = 0 /\ Len(s) = k + 1
                     \/ k = Len(s) /\ (s = <<>> \/ n = Size(s[Len(s)]))
  ELSE IF n > 0 THEN w[Len(w)] = Unit(s[Len(s)], n)
  ELSE Len(s) > 1 /\ w[Len(w)] = Unit(s[Len(s) - 1], Size(s[Len(s) - 1]))

Way(w, s, k, n) ==
  /\ OfFrames(w)
  /\ Runs(w)
  /\ Turns(w, s)
  /\ Begins(w, s, k)
  /\ Ends(w, s, k, n)

\* No frame is sent twice.
OnceEach(s) == \A i, j \in 1..Len(s) : s[i] = s[j] => i = j

LEMMA UnitFields ==
  ASSUME NEW f, NEW p
  PROVE  Unit(f, p).of = f /\ Unit(f, p).at = p
  BY DEF Unit

LEMMA SizeNat ==
  ASSUME NEW f \in Frame
  PROVE  Size(f) \in Nat /\ Size(f) >= 5
  BY Units, Sizes

\* The way begins with as much of the frame to be received next as it can have.
LEMMA FirstFrame ==
  ASSUME NEW w \in Seq(Item), NEW s \in Seq(Frame), NEW k \in Nat, NEW n \in Nat,
         Way(w, s, k, n), Len(w) > 0
  PROVE  /\ k < Len(s) /\ s[k + 1] \in Frame
         /\ \A i \in 1..Len(w) : i <= Size(s[k + 1]) => w[i] = Unit(s[k + 1], i)
<1>1. k < Len(s) /\ w[1] = Unit(s[k + 1], 1) /\ Len(w) \in Nat /\ Len(s) \in Nat
  BY DEF Way, Begins
<1>2. s[k + 1] \in Frame
  BY <1>1
<1>3. w[1].of = s[k + 1] /\ w[1].at = 1
  BY <1>1, UnitFields
<1>4. ASSUME NEW i \in 1..Len(w), i <= Size(s[k + 1])
      PROVE  w[i] = Unit(s[k + 1], i)
  <2>1. CASE i = 1
    BY <1>1, <2>1
  <2>2. CASE i > 1
    <3>1. Size(s[k + 1]) \in Nat /\ 1 \in 1..Len(w) /\ w[1].at + (i - 1) = i
      BY <1>2, <1>3, SizeNat, <1>1
    <3> QED
      BY <1>3, <1>4, <2>2, <3>1 DEF Way, Runs
  <2> QED
    BY <2>1, <2>2
<1> QED
  BY <1>1, <1>2, <1>4

\* A frame that has been received: the rest of the way is one as well.
LEMMA Drop ==
  ASSUME NEW w \in Seq(Item), NEW s \in Seq(Frame), NEW k \in Nat, NEW n \in Nat,
         Way(w, s, k, n), OnceEach(s), Len(w) > 0, NEW v \in Seq(Item), NEW z,
         z = Size(s[k + 1]), z <= Len(w), Len(v) + z = Len(w),
         \A i \in 1..Len(v) : v[i] = w[z + i],
         Len(s) > 0 => n <= Size(s[Len(s)])
  PROVE  Way(v, s, k + 1, n)
<1> DEFINE f == s[k + 1]
<1>1. /\ k < Len(s) /\ f \in Frame /\ k + 1 \in 1..Len(s)
      /\ \A i \in 1..Len(w) : i <= z => w[i] = Unit(f, i)
  BY FirstFrame
<1>2. /\ z \in Nat /\ z >= 5 /\ Len(w) \in Nat /\ Len(v) \in Nat /\ Len(s) \in Nat
      /\ z = Size(f)
  BY <1>1, SizeNat
<1> HIDE DEF f
<1>2a. /\ \A i \in 1..Len(v) : z + i \in 1..Len(w) /\ i \in Int
       /\ \A i, j \in Int : (z + j) - (z + i) = j - i /\ (i < j => z + i < z + j)
  BY <1>2, SMTT(30)
<1>2b. ASSUME NEW i \in 1..Len(v) - 1
       PROVE  /\ i \in 1..Len(v) /\ i + 1 \in 1..Len(v)
              /\ z + i \in 1..Len(w) - 1 /\ z + (i + 1) = (z + i) + 1
  <2>1. i \in Int /\ 1 <= i /\ i <= Len(v) - 1
    BY <1>2
  <2>2. i \in 1..Len(v) /\ i + 1 \in 1..Len(v)
    BY <1>2, <2>1
  <2>3. z + i \in 1..Len(w) - 1
    <3>1. \A x, y, a, b \in Int : 
            1 <= a /\ a <= x - 1 /\ b >= 5 /\ x + b = y => b + a \in 1..y - 1
      OBVIOUS
    <3> QED
      BY <1>2, <2>1, <3>1
  <2>4. z + (i + 1) = (z + i) + 1
    BY <1>2, <2>1
  <2> QED
    BY <2>2, <2>3, <2>4
<1>3. w[z] = Unit(f, z) /\ w[z].of = f /\ w[z].at = z
  BY <1>1, <1>2, UnitFields
<1>4. OfFrames(v)
  <2>1. \A i \in 1..Len(v) : z + i \in 1..Len(w)
    BY <1>2
  <2> QED
    BY <2>1 DEF Way, OfFrames
<1>5. Runs(v)
  <2> SUFFICES ASSUME NEW i \in 1..Len(v), NEW j \in 1..Len(v), i < j,
                      v[i].at + (j - i) <= Size(v[i].of)
               PROVE  v[j] = Unit(v[i].of, v[i].at + (j - i))
    BY DEF Runs
  <2>1. z + i \in 1..Len(w) /\ z + j \in 1..Len(w) /\ z + i < z + j /\ (z + j) - (z + i) = j - i
    BY <1>2a
  <2>2. v[i] = w[z + i] /\ v[j] = w[z + j]
    OBVIOUS
  <2> QED
    BY <2>1, <2>2 DEF Way, Runs
<1>6. Turns(v, s)
  <2> SUFFICES ASSUME NEW i \in 1..Len(v) - 1, v[i].at = Size(v[i].of)
               PROVE  \E j \in 1..Len(s) - 1 : v[i].of = s[j] /\ v[i + 1] = Unit(s[j + 1], 1)
    BY DEF Turns
  <2>1. z + i \in 1..Len(w) - 1 /\ z + (i + 1) = (z + i) + 1 /\ i \in 1..Len(v) /\ i + 1 \in 1..Len(v)
    BY <1>2b
  <2>2. v[i] = w[z + i] /\ v[i + 1] = w[(z + i) + 1]
    BY <2>1
  <2> QED
    BY <2>1, <2>2 DEF Way, Turns
<1>7. Begins(v, s, k + 1)
  <2> SUFFICES ASSUME Len(v) > 0
               PROVE  k + 1 < Len(s) /\ v[1] = Unit(s[(k + 1) + 1], 1)
    BY DEF Begins
  <2>1. z \in 1..Len(w) - 1 /\ 1 \in 1..Len(v)
    BY <1>2
  <2>2. PICK j \in 1..Len(s) - 1 : w[z].of = s[j] /\ w[z + 1] = Unit(s[j + 1], 1)
    BY <1>2, <1>3, <2>1 DEF Way, Turns
  <2>3. j = k + 1
    <3>1. j \in 1..Len(s) /\ s[j] = s[k + 1]
      BY <1>2, <1>3, <2>2 DEF f
    <3> QED
      BY <1>1, <3>1 DEF OnceEach
  <2>4. v[1] = w[z + 1]
    BY <2>1
  <2> QED
    BY <1>2, <2>2, <2>3, <2>4
<1>8. Ends(v, s, k + 1, n)
  <2>1. Ends(w, s, k, n)
    BY DEF Way
  <2>2. CASE Len(v) > 0
    <3>1. v[Len(v)] = w[Len(w)]
      <4>1. Len(v) \in 1..Len(v) /\ z + Len(v) = Len(w)
        BY <1>2, <2>2
      <4> QED
        BY <4>1
    <3> QED
      BY <1>2, <2>1, <2>2, <3>1 DEF Ends
  <2>3. CASE Len(v) = 0
    <3>1. w[Len(w)] = w[z] /\ Len(w) # 0
      BY <1>2, <2>3
    <3>2. CASE n > 0
      <4>1. w[z] = Unit(s[Len(s)], n)
        BY <2>1, <3>1, <3>2 DEF Ends
      <4>2. s[Len(s)] = f /\ n = z
        BY <1>3, <4>1, UnitFields
      <4>3. k + 1 = Len(s)
        <5>1. Len(s) \in 1..Len(s) /\ s[Len(s)] = s[k + 1]
          BY <1>1, <1>2, <4>2 DEF f
        <5> QED
          BY <1>1, <5>1 DEF OnceEach
      <4> QED
        BY <1>2, <2>3, <4>2, <4>3 DEF Ends
    <3>3. CASE ~(n > 0)
      <4>1. n = 0 /\ Len(s) > 1 /\ w[z] = Unit(s[Len(s) - 1], Size(s[Len(s) - 1]))
        BY <2>1, <3>1, <3>3 DEF Ends
      <4>2. s[Len(s) - 1] = f
        BY <1>3, <4>1, UnitFields
      <4>3. k + 1 = Len(s) - 1
        <5>1. Len(s) - 1 \in 1..Len(s) /\ s[Len(s) - 1] = s[k + 1]
          BY <1>2, <4>1, <4>2 DEF f
        <5> QED
          BY <1>1, <5>1 DEF OnceEach
      <4> QED
        BY <1>2, <2>3, <4>1, <4>3 DEF Ends
    <3> QED
      BY <3>2, <3>3
  <2> QED
    BY <1>2, <2>2, <2>3
<1> QED
  BY <1>4, <1>5, <1>6, <1>7, <1>8 DEF Way

\* More bytes of the last frame are sent.
LEMMA Grow ==
  ASSUME NEW w \in Seq(Item), NEW s \in Seq(Frame), NEW k \in Nat, NEW n \in Nat,
         Way(w, s, k, n), Len(s) > 0, NEW v \in Seq(Item), NEW c \in Nat, c > 0,
         n + c <= Size(s[Len(s)]), Len(v) = Len(w) + c,
         \A i \in 1..Len(w) : v[i] = w[i],
         \A i \in 1..c : v[Len(w) + i] = Unit(s[Len(s)], n + i)
  PROVE  Way(v, s, k, n + c)
<1> DEFINE f == s[Len(s)]  e == Len(w)  z == Size(f)
<1>1. f \in Frame /\ e \in Nat /\ Len(s) \in Nat /\ Len(s) \in 1..Len(s)
  OBVIOUS
<1>2. z \in Nat /\ z >= 5
  BY <1>1, SizeNat
<1>3. /\ \A i \in 1..c : v[e + i] = Unit(f, n + i)
      /\ Len(v) = e + c /\ n + c <= z
  OBVIOUS
<1>4. /\ e = 0 => \/ n = 0 /\ Len(s) = k + 1
                  \/ k = Len(s) /\ n = z
      /\ e > 0 /\ n > 0 => w[e] = Unit(f, n)
      /\ e > 0 /\ n = 0 => /\ Len(s) - 1 \in 1..Len(s) - 1
                          /\ s[Len(s) - 1] \in Frame
                          /\ w[e] = Unit(s[Len(s) - 1], Size(s[Len(s) - 1]))
  <2>1. Ends(w, s, k, n) /\ s # <<>>
    BY DEF Way
  <2> QED
    BY <1>1, <2>1 DEF Ends
<1> HIDE DEF f, e, z
<1>5. ASSUME NEW i \in 1..Len(v)
      PROVE  \/ i \in 1..e /\ v[i] = w[i]
             \/ i \in e + 1..e + c /\ i - e \in 1..c /\ v[i] = Unit(f, n + (i - e))
  <2>1. i \in 1..e \/ (i - e \in 1..c /\ i = e + (i - e) /\ i \in e + 1..e + c)
    BY <1>1, <1>3
  <2> QED
    BY <1>3, <2>1 DEF e
<1>6. \A i \in 1..c : n + i \in 1..z
  BY <1>2, <1>3
<1>7. OfFrames(v)
  <2> SUFFICES ASSUME NEW i \in 1..Len(v)
               PROVE  /\ v[i].of \in Frame /\ v[i].at \in 1..Size(v[i].of)
                      /\ v[i] = Unit(v[i].of, v[i].at)
    BY DEF OfFrames
  <2>1. CASE i \in 1..e /\ v[i] = w[i]
    BY <2>1 DEF Way, OfFrames, e
  <2>2. CASE i - e \in 1..c /\ v[i] = Unit(f, n + (i - e))
    <3>1. n + (i - e) \in 1..z
      BY <1>6, <2>2
    <3>2. v[i].of = f /\ v[i].at = n + (i - e)
      BY <2>2, UnitFields
    <3> QED
      BY <1>1, <2>2, <3>1, <3>2 DEF z
  <2> QED
    BY <1>5, <2>1, <2>2
<1>8. Runs(v)
  <2> SUFFICES ASSUME NEW i \in 1..Len(v), NEW j \in 1..Len(v), i < j,
                      v[i].at + (j - i) <= Size(v[i].of)
               PROVE  v[j] = Unit(v[i].of, v[i].at + (j - i))
    BY DEF Runs
  <2>1. i \in Int /\ j \in Int
    OBVIOUS
  <2>2. CASE i \in 1..e /\ v[i] = w[i]
    <3>1. CASE j \in 1..e /\ v[j] = w[j]
      BY <2>2, <3>1 DEF Way, Runs, e
    <3>2. CASE j \in e + 1..e + c /\ j - e \in 1..c /\ v[j] = Unit(f, n + (j - e))
      <4> DEFINE a == w[i].at  g == w[i].of
      <4>1. g \in Frame /\ a \in 1..Size(g) /\ w[i] = Unit(g, a)
        BY <2>2 DEF Way, OfFrames, e
      <4>2. Size(g) \in Nat
        BY <4>1, SizeNat
      <4>3. a + (j - i) <= Size(g)
        BY <2>2
      <4> HIDE DEF a, g
      <4>4. a + (e - i) < Size(g) /\ a + (e - i) \in 1..Size(g) /\ e \in 1..e /\ i <= e
        BY <1>1, <2>1, <2>2, <3>2, <4>1, <4>2, <4>3
      <4>5. w[e] = Unit(g, a + (e - i))
        <5>1. CASE i = e
          BY <2>1, <4>1, <5>1
        <5>2. CASE i < e
          BY <2>2, <4>4, <5>2 DEF Way, Runs, e, a, g
        <5> QED
          BY <2>1, <1>1, <4>4, <5>1, <5>2
      <4>6. n > 0
        <5> SUFFICES ASSUME n = 0 PROVE FALSE
          OBVIOUS
        <5>1. w[e] = Unit(s[Len(s) - 1], Size(s[Len(s) - 1]))
          BY <1>1, <1>4, <4>4
        <5>2. g = s[Len(s) - 1] /\ a + (e - i) = Size(s[Len(s) - 1])
          <6> DEFINE h == s[Len(s) - 1]
          <6>1. /\ Unit(h, Size(h)).of = h /\ Unit(h, Size(h)).at = Size(h)
                /\ Unit(g, a + (e - i)).of = g /\ Unit(g, a + (e - i)).at = a + (e - i)
            BY UnitFields
          <6>2. w[e] = Unit(h, Size(h))
            BY <5>1
          <6> HIDE DEF h
          <6>3. g = h /\ a + (e - i) = Size(h)
            BY <4>5, <6>1, <6>2
          <6> QED
            BY <6>3 DEF h
        <5> QED
          BY <4>2, <4>4, <5>2
      <4>7. g = f /\ n = a + (e - i)
        <5>1. w[e] = Unit(f, n)
          BY <1>1, <1>4, <4>4, <4>6
        <5>2. /\ Unit(f, n).of = f /\ Unit(f, n).at = n
              /\ Unit(g, a + (e - i)).of = g /\ Unit(g, a + (e - i)).at = a + (e - i)
          BY UnitFields
        <5> QED
          BY <4>5, <5>1, <5>2
      <4>8. n + (j - e) = a + (j - i)
        BY <1>1, <2>1, <4>1, <4>7
      <4>9. v[i].of = g /\ v[i].at = a
        BY <2>2 DEF g, a
      <4> QED
        BY <3>2, <4>7, <4>8, <4>9
    <3> QED
      BY <1>5, <3>1, <3>2
  <2>3. CASE i \in e + 1..e + c /\ i - e \in 1..c /\ v[i] = Unit(f, n + (i - e))
    <3>1. v[j] = Unit(f, n + (j - e))
      BY <1>1, <1>5, <2>1, <2>3
    <3>2. v[i].of = f /\ v[i].at = n + (i - e)
      BY <2>3, UnitFields
    <3>3. n + (j - e) = (n + (i - e)) + (j - i)
      BY <1>1, <2>1
    <3> QED
      BY <3>1, <3>2, <3>3
  <2> QED
    BY <1>5, <2>2, <2>3
<1>9. Turns(v, s)
  <2> SUFFICES ASSUME NEW i \in 1..Len(v) - 1, v[i].at = Size(v[i].of)
               PROVE  \E j \in 1..Len(s) - 1 : v[i].of = s[j] /\ v[i + 1] = Unit(s[j + 1], 1)
    BY DEF Turns
  <2>1. i \in Int /\ i \in 1..Len(v) /\ i + 1 \in 1..Len(v) /\ i < e + c
    BY <1>1, <1>3
  <2>2. CASE i < e
    <3>1. i \in 1..e - 1 /\ i \in 1..e /\ i + 1 \in 1..e
      BY <1>1, <2>1, <2>2
    <3>2. v[i] = w[i] /\ v[i + 1] = w[i + 1]
      BY <3>1 DEF e
    <3> QED
      BY <3>1, <3>2 DEF Way, Turns, e
  <2>3. CASE i = e
    <3>1. e > 0 /\ v[i] = w[e] /\ v[i + 1] = Unit(f, n + 1)
      <4>1. e \in 1..e /\ 1 \in 1..c
        BY <1>1, <2>1, <2>3
      <4> QED
        BY <1>1, <1>3, <2>3, <4>1 DEF e
    <3>2. n = 0
      <4> SUFFICES ASSUME n > 0 PROVE FALSE
        OBVIOUS
      <4>1. v[i].of = f /\ v[i].at = n
        BY <1>4, <3>1, UnitFields
      <4> QED
        BY <1>2, <1>3, <4>1 DEF z
    <3>3. /\ Len(s) - 1 \in 1..Len(s) - 1 /\ w[e] = Unit(s[Len(s) - 1], Size(s[Len(s) - 1]))
          /\ (Len(s) - 1) + 1 = Len(s)
      BY <1>1, <1>4, <3>1, <3>2
    <3>4. v[i].of = s[Len(s) - 1] /\ v[i + 1] = Unit(s[(Len(s) - 1) + 1], 1)
      <4>1. n + 1 = 1
        BY <3>2
      <4>2. Unit(s[Len(s) - 1], Size(s[Len(s) - 1])).of = s[Len(s) - 1]
        BY UnitFields
      <4>3. v[i].of = s[Len(s) - 1]
        BY <3>1, <3>3, <4>2
      <4>4. v[i + 1] = Unit(s[Len(s)], 1)
        BY <3>1, <4>1 DEF f
      <4> QED
        BY <3>3, <4>3, <4>4
    <3> QED
      BY <3>3, <3>4
  <2>4. CASE i > e
    <3>1. i - e \in 1..c /\ v[i] = Unit(f, n + (i - e))
      BY <1>1, <1>5, <2>1, <2>4
    <3>2. v[i].of = f /\ v[i].at = n + (i - e)
      BY <3>1, UnitFields
    <3> QED
      BY <1>1, <1>2, <1>3, <2>1, <3>2 DEF z
  <2> QED
    BY <1>1, <2>1, <2>2, <2>3, <2>4
<1>10. Begins(v, s, k)
  <2>1. CASE e = 0
    <3>1. n = 0 /\ Len(s) = k + 1
      BY <1>2, <1>3, <1>4, <2>1
    <3>2. 1 \in 1..c /\ e + 1 = 1 /\ n + 1 = 1
      BY <2>1, <3>1
    <3>3. v[1] = Unit(f, 1)
      BY <1>3, <3>2
    <3> QED
      BY <3>1, <3>3 DEF Begins, f
  <2>2. CASE e > 0
    <3>1. v[1] = w[1]
      <4>1. 1 \in 1..e
        BY <1>1, <2>2
      <4> QED
        BY <4>1 DEF e
    <3> QED
      BY <2>2, <3>1 DEF Begins, Way, e
  <2> QED
    BY <1>1, <2>1, <2>2
<1>11. Ends(v, s, k, n + c)
  <2>1. v[e + c] = Unit(f, n + c)
    <3>1. c \in 1..c
      OBVIOUS
    <3> QED
      BY <1>3, <3>1
  <2>2. n + c > 0 /\ e + c # 0
    BY <1>1
  <2> QED
    BY <1>3, <2>1, <2>2 DEF Ends, f
<1> QED
  BY <1>7, <1>8, <1>9, <1>10, <1>11 DEF Way

\* The mutex is taken for another frame.
LEMMA Another ==
  ASSUME NEW w \in Seq(Item), NEW s \in Seq(Frame), NEW k \in Nat, NEW n \in Nat,
         Way(w, s, k, n), Len(s) > 0 => n = Size(s[Len(s)]), NEW g \in Frame
  PROVE  Way(w, Append(s, g), k, 0)
<1> DEFINE t == Append(s, g)
<1>1. /\ Len(s) \in Nat /\ Len(t) = Len(s) + 1 /\ Len(w) \in Nat
      /\ \A i \in 1..Len(s) : t[i] = s[i]
  OBVIOUS
<1> HIDE DEF t
<1>2. Turns(w, t)
  <2> SUFFICES ASSUME NEW i \in 1..Len(w) - 1, w[i].at = Size(w[i].of)
               PROVE  \E j \in 1..Len(t) - 1 : w[i].of = t[j] /\ w[i + 1] = Unit(t[j + 1], 1)
    BY DEF Turns
  <2>1. PICK j \in 1..Len(s) - 1 : w[i].of = s[j] /\ w[i + 1] = Unit(s[j + 1], 1)
    BY DEF Way, Turns
  <2>2. j \in 1..Len(s) /\ j + 1 \in 1..Len(s) /\ j \in 1..Len(t) - 1
    BY <1>1
  <2>3. t[j] = s[j] /\ t[j + 1] = s[j + 1]
    BY <1>1, <2>2
  <2> QED
    BY <2>1, <2>2, <2>3
<1>3. Begins(w, t, k)
  <2> SUFFICES ASSUME Len(w) > 0 PROVE k < Len(t) /\ w[1] = Unit(t[k + 1], 1)
    BY DEF Begins
  <2>1. k < Len(s) /\ w[1] = Unit(s[k + 1], 1)
    BY DEF Way, Begins
  <2>2. k + 1 \in 1..Len(s)
    BY <1>1, <2>1
  <2> QED
    BY <1>1, <2>1, <2>2
<1>4. Ends(w, t, k, 0)
  <2>1. Ends(w, s, k, n) /\ Begins(w, s, k)
    BY DEF Way
  <2>2. CASE Len(s) = 0
    <3>1. Len(w) = 0
      BY <1>1, <2>1, <2>2 DEF Begins
    <3>2. k = Len(s)
      BY <1>1, <2>1, <2>2, <3>1 DEF Ends
    <3> QED
      BY <1>1, <3>1, <3>2 DEF Ends
  <2>3. CASE Len(s) > 0
    <3>1. n = Size(s[Len(s)]) /\ n > 0 /\ Len(s) \in 1..Len(s) /\ Len(t) - 1 = Len(s)
      <4>1. s[Len(s)] \in Frame
        BY <2>3
      <4> QED
        BY <1>1, <2>3, <4>1, SizeNat
    <3>2. t[Len(t) - 1] = s[Len(s)]
      BY <1>1, <3>1
    <3>3. CASE Len(w) = 0
      <4>1. k = Len(s)
        BY <2>1, <3>1, <3>3 DEF Ends
      <4> QED
        BY <1>1, <3>3, <4>1 DEF Ends
    <3>4. CASE Len(w) # 0
      <4>1. w[Len(w)] = Unit(s[Len(s)], n)
        BY <2>1, <3>1, <3>4 DEF Ends
      <4> QED
        BY <1>1, <2>3, <3>1, <3>2, <3>4, <4>1 DEF Ends
    <3> QED
      BY <3>3, <3>4
  <2> QED
    BY <1>1, <2>2, <2>3
<1> QED
  BY <1>2, <1>3, <1>4 DEF Way, t

-----------------------------------------------------------------------------
(***************************************************************************)
(* Types.                                                                  *)
(***************************************************************************)
Sending(t) == pc[t] \in {"header", "payload"}

\* A thread that is not idle has a frame; `encrypting` is where the threads say.
Typing ==
  /\ TypeOK
  /\ \A t \in Sender : pc[t] # "idle" => frame[t] \in Frame
  /\ \A t \in encrypting : pc[t] = "encrypting"

LEMMA PartOf ==
  ASSUME NEW t \in Sender, frame[t] \in Frame, Sending(t)
  PROVE  /\ Part(t) \in Seq(Item) /\ Len(Part(t)) \in Nat
         /\ Len(Part(t)) = IF pc[t] = "header" THEN 5 ELSE SentLen(frame[t])
         /\ \A i \in 1..Len(Part(t)) :
              Part(t)[i] = Unit(frame[t], IF pc[t] = "header" THEN i ELSE 5 + i)
<1>1. CASE pc[t] = "header"
  <2>1. Part(t) = Header(frame[t])
    BY <1>1 DEF Part
  <2> QED
    BY <1>1, <2>1, Parts
<1>2. CASE pc[t] = "payload"
  <2>1. Part(t) = Payload(frame[t]) /\ SentLen(frame[t]) \in Nat
    BY <1>2, SentLens DEF Part
  <2> QED
    BY <1>2, <2>1, Parts
<1> QED
  BY <1>1, <1>2 DEF Sending

\* A piece of a sequence.
LEMMA Piece ==
  ASSUME NEW S, NEW q \in Seq(S), NEW a \in Nat, NEW c \in Nat, a + c <= Len(q)
  PROVE  /\ SubSeq(q, a + 1, a + c) \in Seq(S)
         /\ Len(SubSeq(q, a + 1, a + c)) = c
         /\ \A i \in 1..c : SubSeq(q, a + 1, a + c)[i] = q[a + i]
<1> DEFINE p == SubSeq(q, a + 1, a + c)
<1>1. Len(q) \in Nat /\ \A i \in 1..Len(q) : q[i] \in S
  OBVIOUS
<1>2. p = [i \in 1..c |-> q[a + i]]
  <2>1. (a + c) - (a + 1) + 1 = c /\ \A i \in 1..c : (a + 1) + i - 1 = a + i
    OBVIOUS
  <2>2. p = [i \in 1..((a + c) - (a + 1) + 1) |-> q[(a + 1) + i - 1]]
    OBVIOUS
  <2> HIDE DEF p
  <2> QED
    BY <2>1, <2>2
<1> HIDE DEF p
<1>3. \A i \in 1..c : a + i \in 1..Len(q)
  BY <1>1
<1>4. \A i \in 1..c : q[a + i] \in S
  BY <1>1, <1>3
<1>5. p \in Seq(S) /\ Len(p) = c /\ \A i \in 1..c : p[i] = q[a + i]
  BY <1>2, <1>4
<1> QED
  BY <1>5 DEF p

LEMMA TypingInit == Init => Typing
<1> SUFFICES ASSUME Init PROVE Typing
  OBVIOUS
<1>1. /\ pc \in [Sender -> {"idle", "encrypt", "encrypting", "lock", "header", "payload"}]
      /\ frame \in [Sender -> Frame \cup {None}] /\ n_sent \in [Sender -> Nat]
      /\ \A t \in Sender : pc[t] = "idle"
  BY DEF Init
<1>2. /\ mutex \in Sender \cup {None} /\ encrypting = {} /\ garbled \subseteq Frame
      /\ closed \in BOOLEAN
  BY DEF Init
<1>3. /\ stream \in Seq(Item) /\ Len(stream) = 0 /\ buf \in Seq(Item)
      /\ sent \in Seq(Frame) /\ received \in Seq(Frame \cup {None})
  BY DEF Init
<1>4. Len(stream) <= Capacity
  BY <1>3, Sizes
<1> QED
  BY <1>1, <1>2, <1>3, <1>4 DEF Typing, TypeOK

\* The bounds of the parts that are being sent.
PartsBounded == \A t \in Sender : Sending(t) => n_sent[t] <= Len(Part(t))

Simple ==
  /\ pc \in [Sender -> {"idle", "encrypt", "encrypting", "lock", "header", "payload"}]
  /\ frame \in [Sender -> Frame \cup {None}]
  /\ n_sent \in [Sender -> Nat]
  /\ mutex \in Sender \cup {None}
  /\ encrypting \subseteq Sender
  /\ garbled \subseteq Frame
  /\ closed \in BOOLEAN
  /\ sent \in Seq(Frame)
  /\ received \in Seq(Frame \cup {None})
  /\ \A t \in Sender : pc[t] # "idle" => frame[t] \in Frame
  /\ \A t \in encrypting : pc[t] = "encrypting"

Carried ==
  /\ stream \in Seq(Item) /\ Len(stream) <= Capacity
  /\ buf \in Seq(Item)

LEMMA TypingParts == Typing <=> Simple /\ Carried /\ PartsBounded
  BY DEF Typing, TypeOK, Simple, Carried, PartsBounded, Sending

LEMMA NoneNot == None \notin Sender /\ None \notin Frame
  BY StreamAssumption

LEMMA SimpleStep ==
  ASSUME Typing, Next
  PROVE  Simple'
<1>1. Simple /\ Carried
  BY TypingParts
<1>2. CASE RecvSome
  BY <1>1, <1>2 DEF RecvSome, Simple
<1>3. CASE process_frame
  <2>1. Assembled \in Frame \cup {None}
    <3>1. Len(buf) > 0
      <4>1. Missing = 0 /\ Len(buf) \in Nat
        BY <1>1, <1>3 DEF process_frame, Carried
      <4>2. CASE Len(buf) = 0
        <5>1. Missing = 5 - 0
          BY <4>2, Sizes DEF Missing
        <5> QED
          BY <4>1, <5>1
      <4> QED
        BY <4>1, <4>2
    <3>2. buf[1] \in Item
      BY <1>1, <3>1 DEF Carried
    <3> QED
      BY <3>2 DEF Assembled, Item
  <2>2. Append(received, Assembled) \in Seq(Frame \cup {None})
    BY <1>1, <2>1 DEF Simple
  <2> QED
    BY <1>1, <1>3, <2>2 DEF process_frame, Simple
<1>4. ASSUME NEW t \in Sender, NEW f \in Frame, Call(t, f)
      PROVE  Simple'
  BY <1>1, <1>4 DEF Call, Goto, Simple
<1>5. ASSUME NEW t \in Sender, EncryptBegin(t)
      PROVE  Simple'
  <2>1. PICK mixed \in SUBSET (IF encrypting = {} THEN {} ELSE encrypting \cup {t}) :
          garbled' = garbled \cup {frame[u] : u \in mixed}
    BY <1>5 DEF EncryptBegin
  <2> QED
    <3>1. mixed \subseteq Sender
      BY <1>1 DEF Simple
    <3>2. \A u \in mixed : frame[u] \in Frame
      BY <1>1, <1>5, <3>1 DEF EncryptBegin, Goto, Simple
    <3>3. garbled' \subseteq Frame
      BY <1>1, <2>1, <3>2 DEF Simple
    <3>4. /\ pc[t] = "encrypt" /\ pc' = [pc EXCEPT ![t] = "encrypting"]
          /\ encrypting' = encrypting \cup {t}
          /\ UNCHANGED <<frame, n_sent, mutex, closed, sent, received>>
      BY <1>5 DEF EncryptBegin, Goto
    <3> QED
      BY <1>1, <3>3, <3>4 DEF Simple
<1>6. ASSUME NEW t \in Sender, EncryptEnd(t)
      PROVE  Simple'
  BY <1>1, <1>6 DEF EncryptEnd, Goto, Simple
<1>7. ASSUME NEW t \in Sender, Lock(t)
      PROVE  Simple'
  <2>1. frame[t] \in Frame /\ sent' = Append(sent, frame[t])
    BY <1>1, <1>7 DEF Lock, Goto, Simple
  <2>2. sent' \in Seq(Frame)
    BY <1>1, <2>1 DEF Simple
  <2> QED
    BY <1>1, <1>7, <2>1, <2>2 DEF Lock, Goto, Simple
<1>8. ASSUME NEW t \in Sender, SendSome(t)
      PROVE  Simple'
  <2>1. PICK k \in 1..Len(Part(t)) - n_sent[t] : n_sent' = [n_sent EXCEPT ![t] = @ + k]
    BY <1>8 DEF SendSome
  <2>2. k \in Nat
    <3>1. n_sent[t] \in Nat /\ Len(Part(t)) \in Nat
      BY <1>1, <1>8, PartOf DEF SendSome, Simple, Sending
    <3> QED
      BY <3>1
  <2>3. n_sent' \in [Sender -> Nat]
    BY <1>1, <2>1, <2>2 DEF Simple
  <2>4. UNCHANGED <<pc, frame, mutex, encrypting, garbled, closed, sent, received>>
    BY <1>8 DEF SendSome
  <2> QED
    BY <1>1, <2>3, <2>4 DEF Simple
<1>9. ASSUME NEW t \in Sender, EndHeader(t)
      PROVE  Simple'
  BY <1>1, <1>9 DEF EndHeader, Goto, Simple
<1>10. ASSUME NEW t \in Sender, Unlock(t)
       PROVE  Simple'
  BY <1>1, <1>10 DEF Unlock, Goto, Simple
<1> QED
  BY <1>2, <1>3, <1>4, <1>5, <1>6, <1>7, <1>8, <1>9, <1>10
  DEF Next, Receiver, Encrypt, Transmit

\* What a step of recv() and of send() does to the bytes.
LEMMA Reads ==
  ASSUME Typing, RecvSome
  PROVE  \E k \in Nat : /\ 1 <= k /\ k <= Missing /\ k <= Len(stream)
                       /\ buf' \in Seq(Item) /\ stream' \in Seq(Item)
                       /\ buf' \o stream' = buf \o stream
                       /\ Len(buf') = Len(buf) + k /\ Len(stream') = Len(stream) - k
<1>1. stream \in Seq(Item) /\ buf \in Seq(Item) /\ Len(stream) \in Nat /\ Len(buf) \in Nat
  BY DEF Typing, TypeOK
<1>2. PICK k \in 1..Len(stream) : /\ k <= Missing
                                 /\ buf' = buf \o SubSeq(stream, 1, k)
                                 /\ stream' = SubSeq(stream, k + 1, Len(stream))
  BY DEF RecvSome
<1> DEFINE a == SubSeq(stream, 1, k)  b == SubSeq(stream, k + 1, Len(stream))
<1>3. k \in Nat /\ 1 <= k /\ k <= Len(stream) /\ Len(stream) - k \in Nat
  BY <1>1
<1>4. a \in Seq(Item) /\ Len(a) = k /\ \A i \in 1..k : a[i] = stream[i]
  <2>1. 0 + 1 = 1 /\ 0 + k = k /\ 0 + k <= Len(stream) /\ \A i \in 1..k : 0 + i = i
    BY <1>3
  <2> QED
    BY <1>1, <1>3, <2>1, Piece
<1>5. /\ b \in Seq(Item) /\ Len(b) = Len(stream) - k
      /\ \A i \in 1..Len(stream) - k : b[i] = stream[k + i]
  <2> DEFINE c == Len(stream) - k
  <2>1. k + c = Len(stream) /\ k + c <= Len(stream) /\ c \in Nat
    BY <1>1, <1>3
  <2> HIDE DEF c
  <2>2. /\ SubSeq(stream, k + 1, k + c) \in Seq(Item)
        /\ Len(SubSeq(stream, k + 1, k + c)) = c
        /\ \A i \in 1..c : SubSeq(stream, k + 1, k + c)[i] = stream[k + i]
    BY <1>1, <1>3, <2>1, Piece, ZenonT(60)
  <2>3. b = SubSeq(stream, k + 1, k + c)
    BY <2>1
  <2> HIDE DEF b
  <2>4. b \in Seq(Item) /\ Len(b) = c /\ \A i \in 1..c : b[i] = stream[k + i]
    BY <2>2, <2>3, Zenon
  <2> QED
    BY <2>4 DEF c
<1> HIDE DEF a, b
<1>6. a \o b = stream
  <2> DEFINE c == a \o b
  <2>1. c \in Seq(Item) /\ Len(c) = Len(a) + Len(b)
        /\ \A i \in 1..Len(a) + Len(b) : c[i] = IF i <= Len(a) THEN a[i] ELSE b[i - Len(a)]
    BY <1>4, <1>5, ConcatProperties, Zenon
  <2> HIDE DEF c
  <2>2. Len(c) = Len(stream)
    BY <1>1, <1>3, <1>4, <1>5, <2>1
  <2>3. \A i \in 1..Len(stream) : c[i] = stream[i]
    <3> SUFFICES ASSUME NEW i \in 1..Len(stream) PROVE c[i] = stream[i]
      OBVIOUS
    <3>1. i \in 1..Len(a) + Len(b) /\ Len(a) = k
      BY <1>1, <1>3, <1>4, <1>5
    <3>2. CASE i <= k
      <4>1. i \in 1..k
        BY <1>1, <1>3, <3>2
      <4> QED
        BY <1>4, <2>1, <3>1, <3>2, <4>1
    <3>3. CASE ~(i <= k)
      <4>1. i - k \in 1..Len(stream) - k /\ k + (i - k) = i
        BY <1>1, <1>3, <3>3
      <4> QED
        BY <1>5, <2>1, <3>1, <3>3, <4>1
    <3> QED
      BY <3>2, <3>3
  <2>4. c = stream
    BY <1>1, <2>1, <2>2, <2>3, SeqEqual
  <2> QED
    BY <2>4 DEF c
<1>7. (buf \o a) \o b = buf \o (a \o b)
  <2>1. buf \in Seq(Item) /\ a \in Seq(Item) /\ b \in Seq(Item)
    BY <1>1, <1>4, <1>5
  <2> QED
    BY <2>1, ConcatAssociative, SMTT(30)
<1>8. buf \o a \in Seq(Item) /\ Len(buf \o a) = Len(buf) + Len(a)
  BY <1>1, <1>4, ConcatProperties, Zenon
<1>9. buf' = buf \o a /\ stream' = b
  BY <1>2 DEF a, b
<1> QED
  BY <1>2, <1>3, <1>4, <1>5, <1>6, <1>7, <1>8, <1>9

LEMMA Writes ==
  ASSUME Typing, NEW t \in Sender, SendSome(t)
  PROVE  \E k \in Nat :
           /\ k > 0 /\ n_sent[t] \in Nat /\ n_sent[t] + k <= Len(Part(t))
           /\ n_sent' = [n_sent EXCEPT ![t] = @ + k]
           /\ stream' \in Seq(Item) /\ Len(stream') = Len(stream) + k
           /\ Len(stream') <= Capacity
           /\ \A i \in 1..Len(stream) : stream'[i] = stream[i]
           /\ \A i \in 1..k : stream'[Len(stream) + i] = Part(t)[n_sent[t] + i]
<1>1. /\ stream \in Seq(Item) /\ Len(stream) \in Nat /\ n_sent[t] \in Nat
      /\ Part(t) \in Seq(Item) /\ Len(Part(t)) \in Nat
  <2>1. Sending(t) /\ frame[t] \in Frame
    BY DEF SendSome, Sending, Typing
  <2> QED
    BY <2>1, PartOf DEF Typing, TypeOK
<1>2. PICK k \in 1..Len(Part(t)) - n_sent[t] :
        /\ Len(stream) + k <= Capacity
        /\ stream' = stream \o SubSeq(Part(t), n_sent[t] + 1, n_sent[t] + k)
        /\ n_sent' = [n_sent EXCEPT ![t] = @ + k]
  BY DEF SendSome
<1> DEFINE n == n_sent[t]  q == Part(t)  a == SubSeq(q, n + 1, n + k)
<1>3. k \in Nat /\ k > 0 /\ n + k <= Len(q)
  BY <1>1
<1>4. a \in Seq(Item) /\ Len(a) = k /\ \A i \in 1..k : a[i] = q[n + i]
  <2>1. q \in Seq(Item) /\ n \in Nat /\ k \in Nat /\ n + k <= Len(q)
    BY <1>1, <1>3
  <2> HIDE DEF n, q
  <2> QED
    BY <2>1, Piece
<1>5. stream' = stream \o a
  BY <1>2
<1> HIDE DEF n, q, a
<1>6. /\ stream' \in Seq(Item) /\ Len(stream') = Len(stream) + Len(a)
      /\ \A i \in 1..Len(stream) + Len(a) :
           stream'[i] = IF i <= Len(stream) THEN stream[i] ELSE a[i - Len(stream)]
  BY <1>1, <1>4, <1>5, ConcatProperties, Zenon
<1>7. \A i \in 1..Len(stream) : stream'[i] = stream[i]
  BY <1>1, <1>3, <1>4, <1>6
<1>8. \A i \in 1..k : stream'[Len(stream) + i] = q[n + i]
  <2> SUFFICES ASSUME NEW i \in 1..k PROVE stream'[Len(stream) + i] = q[n + i]
    OBVIOUS
  <2>1. /\ Len(stream) + i \in 1..Len(stream) + Len(a) /\ ~(Len(stream) + i <= Len(stream))
        /\ (Len(stream) + i) - Len(stream) = i
    BY <1>1, <1>3, <1>4
  <2> QED
    BY <1>4, <1>6, <2>1
<1>9. Len(stream') = Len(stream) + k /\ Len(stream') <= Capacity
  BY <1>2, <1>4, <1>6
<1> QED
  BY <1>1, <1>2, <1>3, <1>6, <1>7, <1>8, <1>9 DEF n, q

LEMMA TypingStep ==
  ASSUME Typing, [Next]_vars
  PROVE  Typing'
<1>1. CASE UNCHANGED vars
  BY <1>1 DEF vars, Typing, TypeOK, Part, Header, Payload
<1>2. ASSUME Next PROVE Carried'
  <2>1. Carried
    BY TypingParts
  <2>2. CASE RecvSome
    <3>1. PICK k \in Nat : /\ buf' \in Seq(Item) /\ stream' \in Seq(Item)
                          /\ Len(stream') = Len(stream) - k
      BY <2>2, Reads
    <3>2. Len(stream) \in Nat /\ Len(stream) <= Capacity /\ Capacity \in Nat
      BY <2>1, Sizes DEF Carried
    <3> QED
      BY <3>1, <3>2 DEF Carried
  <2>3. CASE process_frame
    BY <2>1, <2>3 DEF process_frame, Carried
  <2>4. ASSUME NEW t \in Sender, SendSome(t) PROVE Carried'
    <3>1. buf' = buf
      BY <2>4 DEF SendSome
    <3> QED
      BY <2>1, <2>4, <3>1, Writes DEF Carried
  <2>5. ASSUME UNCHANGED <<stream, buf>> PROVE Carried'
    BY <2>1, <2>5 DEF Carried
  <2> QED
    BY <1>2, <2>2, <2>3, <2>4, <2>5
    DEF Next, Receiver, Encrypt, Transmit, Call, EncryptBegin, EncryptEnd, Lock, EndHeader, Unlock
<1>3. ASSUME Next PROVE PartsBounded'
  <2>1. PartsBounded /\ Simple /\ Simple'
    BY <1>3, TypingParts, SimpleStep
  <2> SUFFICES ASSUME NEW u \in Sender, Sending(u)' PROVE n_sent[u]' <= Len(Part(u))'
    BY DEF PartsBounded
  <2>2. CASE UNCHANGED <<pc[u], frame[u], n_sent[u]>>
    <3>1. Sending(u) /\ Part(u)' = Part(u)
      BY <2>2 DEF Sending, Part, Header, Payload
    <3> QED
      BY <2>1, <2>2, <3>1 DEF PartsBounded
  <2>3. CASE n_sent[u]' = 0
    <3>1. frame[u]' \in Frame
      BY <2>1 DEF Simple, Sending
    <3>2. Len(Part(u))' \in Nat
      <4>1. Part(u)' = Header(frame[u]') \/ Part(u)' = Payload(frame[u]')
        BY DEF Part, Header, Payload
      <4> QED
        BY <3>1, <4>1, Parts, SentLens
    <3> QED
      BY <2>3, <3>2
  <2>4. CASE SendSome(u)
    <3>1. PICK k \in Nat : n_sent[u] + k <= Len(Part(u)) /\ n_sent' = [n_sent EXCEPT ![u] = @ + k]
      BY <2>4, Writes
    <3>2. n_sent[u]' = n_sent[u] + k
      BY <2>1, <3>1 DEF Simple
    <3>3. Part(u)' = Part(u)
      BY <2>4 DEF SendSome, Part, Header, Payload
    <3> QED
      BY <3>1, <3>2, <3>3
  <2>5. ASSUME NEW t \in Sender, NEW f \in Frame, Call(t, f)
        PROVE  UNCHANGED <<pc[u], frame[u], n_sent[u]>>
    BY <2>1, <2>5 DEF Call, Goto, Simple, Sending
  <2>6. ASSUME NEW t \in Sender, EncryptBegin(t) \/ EncryptEnd(t) \/ Unlock(t)
        PROVE  UNCHANGED <<pc[u], frame[u], n_sent[u]>>
    BY <2>1, <2>6 DEF EncryptBegin, EncryptEnd, Unlock, Goto, Simple, Sending
  <2>7. ASSUME NEW t \in Sender, Lock(t) \/ EndHeader(t)
        PROVE  UNCHANGED <<pc[u], frame[u], n_sent[u]>> \/ n_sent[u]' = 0
    BY <2>1, <2>7 DEF Lock, EndHeader, Goto, Simple
  <2>8. ASSUME NEW t \in Sender, SendSome(t), t # u
        PROVE  UNCHANGED <<pc[u], frame[u], n_sent[u]>>
    BY <2>1, <2>8 DEF SendSome, Simple
  <2>9. ASSUME Receiver
        PROVE  UNCHANGED <<pc[u], frame[u], n_sent[u]>>
    BY <2>9 DEF Receiver, RecvSome, process_frame
  <2> QED
    BY <1>3, <2>2, <2>3, <2>4, <2>5, <2>6, <2>7, <2>8, <2>9 DEF Next, Encrypt, Transmit
<1> QED
  BY <1>1, <1>2, <1>3, SimpleStep, TypingParts DEF Typing, TypeOK, Simple, Carried, PartsBounded, Sending

\* Theorem: the variables keep their types; no more of a part is sent than it has, and the
\* connection never holds more than its capacity.
THEOREM StreamTypes == Spec => []TypeOK
<1>1. Typing => TypeOK
  BY DEF Typing
<1> QED
  BY <1>1, TypingInit, TypingStep, PTL DEF Spec

-----------------------------------------------------------------------------
(***************************************************************************)
(* The inductive invariant.                                                *)
(***************************************************************************)

\* Only the holder of the mutex sends, and it sends the last frame of `sent`.
Holds ==
  /\ \A t \in Sender : Sending(t) <=> mutex = t
  /\ \A t \in Sender : Sending(t) => Len(sent) > 0 /\ sent[Len(sent)] = frame[t]

\* Each frame is sent by one thread, once.
Once ==
  /\ \A t, u \in Sender : frame[t] \in Frame /\ frame[t] = frame[u] => t = u
  /\ \A t \in Sender : pc[t] \in {"encrypt", "encrypting", "lock"} =>
       \A i \in 1..Len(sent) : sent[i] # frame[t]
  /\ OnceEach(sent)

\* What is received is what was sent, and there has been no CLOSE.
Prefix ==
  /\ Len(received) <= Len(sent)
  /\ \A i \in 1..Len(received) : received[i] = sent[i]
  /\ ~closed => \A i \in 1..Len(received) : type[received[i]] # FRAME_HDR_CLOSE
  /\ closed => buf = <<>>

\* Bytes of the last frame that have been sent.
SentUpTo ==
  IF mutex = None THEN IF sent = <<>> THEN 0 ELSE Size(sent[Len(sent)])
  ELSE IF pc[mutex] = "header" THEN n_sent[mutex]
  ELSE FRAME_HEADER_SIZE + n_sent[mutex]

\* What is read, then what is on the connection.
OnTheWay == ~closed => Way(buf \o stream, sent, Len(received), SentUpTo)

\* receive_frame reads no further than the end of a frame.
Fragment == ~closed /\ Len(buf) > 0 => Len(buf) <= Size(sent[Len(received) + 1])

SInv == Typing /\ Holds /\ Once /\ Prefix /\ OnTheWay /\ Fragment

LEMMA SInvInit == Init => SInv
<1> SUFFICES ASSUME Init PROVE SInv
  OBVIOUS
<1>1. Holds
  BY NoneNot DEF Init, Holds, Sending
<1>2. Once
  BY NoneNot DEF Init, Once, OnceEach
<1>3. Prefix /\ Fragment
  BY DEF Init, Prefix, Fragment
<1>4. OnTheWay
  <2>1. buf \o stream = <<>> /\ sent = <<>> /\ Len(received) = 0 /\ SentUpTo = 0
    BY DEF Init, SentUpTo
  <2>2. Way(<<>>, <<>>, 0, 0)
    BY DEF Way, OfFrames, Runs, Turns, Begins, Ends
  <2> QED
    BY <2>1, <2>2 DEF OnTheWay
<1> QED
  BY <1>1, <1>2, <1>3, <1>4, TypingInit DEF SInv

\* The bytes read and the bytes on the connection, as one sequence.
LEMMA Bring ==
  ASSUME Typing
  PROVE  /\ buf \o stream \in Seq(Item)
         /\ Len(buf) \in Nat /\ Len(stream) \in Nat
         /\ Len(buf \o stream) = Len(buf) + Len(stream)
         /\ \A i \in 1..Len(buf) : (buf \o stream)[i] = buf[i]
         /\ \A i \in 1..Len(stream) : (buf \o stream)[Len(buf) + i] = stream[i]
<1> DEFINE w == buf \o stream
<1>1. buf \in Seq(Item) /\ stream \in Seq(Item) /\ Len(buf) \in Nat /\ Len(stream) \in Nat
  BY DEF Typing, TypeOK
<1>2. /\ w \in Seq(Item) /\ Len(w) = Len(buf) + Len(stream)
      /\ \A i \in 1..Len(buf) + Len(stream) :
           w[i] = IF i <= Len(buf) THEN buf[i] ELSE stream[i - Len(buf)]
  BY <1>1, ConcatProperties, Zenon
<1> HIDE DEF w
<1>3. \A i \in 1..Len(buf) : w[i] = buf[i]
  BY <1>1, <1>2
<1>4. ASSUME NEW i \in 1..Len(stream) PROVE w[Len(buf) + i] = stream[i]
  <2>1. /\ Len(buf) + i \in 1..Len(buf) + Len(stream) /\ ~(Len(buf) + i <= Len(buf))
        /\ (Len(buf) + i) - Len(buf) = i
    BY <1>1
  <2> QED
    BY <1>2, <2>1
<1> QED
  BY <1>1, <1>2, <1>3, <1>4 DEF w

LEMMA SentUpToNat ==
  ASSUME SInv
  PROVE  SentUpTo \in Nat /\ (Len(sent) > 0 => SentUpTo <= Size(sent[Len(sent)]))
<1>1. sent \in Seq(Frame) /\ Len(sent) \in Nat
  BY DEF SInv, Typing, TypeOK
<1>2. Len(sent) > 0 => sent[Len(sent)] \in Frame
  BY <1>1
<1>3. CASE mutex = None
  <2>1. CASE sent = <<>>
    BY <1>3, <2>1 DEF SentUpTo
  <2>2. CASE sent # <<>>
    <3>1. Len(sent) > 0
      BY <1>1, <2>2
    <3>2. SentUpTo = Size(sent[Len(sent)])
      BY <1>3, <2>2 DEF SentUpTo
    <3> QED
      BY <1>2, <3>1, <3>2, SizeNat
  <2> QED
    BY <2>1, <2>2
<1>4. CASE mutex # None
  <2>1. mutex \in Sender /\ Sending(mutex) /\ frame[mutex] \in Frame
    BY <1>4 DEF SInv, Holds, Typing, TypeOK, Sending
  <2>2. Len(sent) > 0 /\ sent[Len(sent)] = frame[mutex]
    BY <2>1 DEF SInv, Holds
  <2>3. /\ n_sent[mutex] \in Nat /\ n_sent[mutex] <= Len(Part(mutex))
        /\ Len(Part(mutex)) = IF pc[mutex] = "header" THEN 5 ELSE SentLen(frame[mutex])
    BY <2>1, PartOf DEF SInv, Typing, TypeOK, Sending
  <2>4. /\ Size(frame[mutex]) = 5 + SentLen(frame[mutex]) /\ SentLen(frame[mutex]) \in Nat
        /\ FRAME_HEADER_SIZE = 5
    BY <2>1, Units
  <2>5. SentUpTo = IF pc[mutex] = "header" THEN n_sent[mutex] ELSE 5 + n_sent[mutex]
    BY <1>4, <2>4 DEF SentUpTo
  <2> QED
    BY <2>2, <2>3, <2>4, <2>5
<1> QED
  BY <1>3, <1>4

\* What is in buf is the beginning of the frame to be received next.
LEMMA Beginning ==
  ASSUME SInv, ~closed, Len(buf) > 0
  PROVE  LET f == sent[Len(received) + 1] IN
         /\ Len(received) \in Nat /\ Len(received) < Len(sent) /\ f \in Frame
         /\ Len(buf) <= Size(f)
         /\ \A i \in 1..Len(buf) : buf[i] = Unit(f, i)
<1> DEFINE w == buf \o stream  k == Len(received)  f == sent[k + 1]
<1>1. /\ w \in Seq(Item) /\ Len(buf) \in Nat /\ Len(w) >= Len(buf) /\ Len(w) \in Nat
      /\ \A i \in 1..Len(buf) : w[i] = buf[i]
  BY Bring DEF SInv
<1>2. k \in Nat /\ sent \in Seq(Frame)
  BY DEF SInv, Typing, TypeOK
<1>3. Way(w, sent, k, SentUpTo) /\ SentUpTo \in Nat /\ Len(buf) <= Size(f)
  BY SentUpToNat DEF SInv, OnTheWay, Fragment
<1> HIDE DEF w, k
<1>4. /\ k < Len(sent) /\ sent[k + 1] \in Frame
      /\ \A i \in 1..Len(w) : i <= Size(sent[k + 1]) => w[i] = Unit(sent[k + 1], i)
  BY <1>1, <1>2, <1>3, FirstFrame
<1>5. Size(f) \in Nat
  BY <1>4, SizeNat
<1>6. ASSUME NEW i \in 1..Len(buf) PROVE buf[i] = Unit(f, i)
  <2>1. i \in 1..Len(w) /\ i <= Size(f)
    BY <1>1, <1>3, <1>5
  <2> QED
    BY <1>1, <1>4, <2>1
<1>7. /\ k \in Nat /\ k < Len(sent) /\ f \in Frame /\ Len(buf) <= Size(f)
      /\ \A i \in 1..Len(buf) : buf[i] = Unit(f, i)
  BY <1>2, <1>3, <1>4, <1>6
<1> QED
  BY <1>7, Zenon DEF k

\* Bytes that receive_frame waits for.
LEMMA Awaits ==
  ASSUME SInv, ~closed, SameOrder
  PROVE  /\ Len(buf) >= 5 => /\ DecodedLen = SentLen(sent[Len(received) + 1])
                            /\ DecodedType = type[sent[Len(received) + 1]]
                            /\ Missing = Size(sent[Len(received) + 1]) - Len(buf)
         /\ Len(buf) < 5 => Missing = 5 - Len(buf)
<1> DEFINE f == sent[Len(received) + 1]
<1>1. Len(buf) \in Nat /\ FRAME_HEADER_SIZE = 5
  BY Bring, Sizes DEF SInv
<1>2. CASE Len(buf) >= 5
  <2>1. f \in Frame /\ \A i \in 1..5 : buf[i] = Unit(f, i)
    <3>1. Len(buf) > 0 /\ \A i \in 1..5 : i \in 1..Len(buf)
      BY <1>1, <1>2
    <3> QED
      BY <3>1, Beginning
  <2>2. DecodedLen = SentLen(f) /\ DecodedType = type[f]
    BY <2>1, Decodes
  <2>3. Missing = 5 + SentLen(f) - Len(buf)
    BY <1>1, <1>2, <2>2 DEF Missing
  <2>4. Size(f) = 5 + SentLen(f) /\ SentLen(f) \in Nat
    BY <2>1, Units
  <2>5. Missing = Size(f) - Len(buf)
    BY <1>1, <2>3, <2>4
  <2> QED
    BY <1>1, <1>2, <2>2, <2>5
<1>3. CASE Len(buf) < 5
  BY <1>1, <1>3 DEF Missing
<1> QED
  BY <1>1, <1>2, <1>3

\* When process_frame is called, buf holds the frame that was to be received.
LEMMA Complete ==
  ASSUME SInv, SameOrder, process_frame
  PROVE  LET f == sent[Len(received) + 1] IN
         /\ Len(received) \in Nat /\ Len(received) < Len(sent) /\ f \in Frame
         /\ Len(buf) = Size(f) /\ Assembled = f /\ DecodedType = type[f]
<1> DEFINE f == sent[Len(received) + 1]
<1>1. ~closed /\ Missing = 0 /\ buf \in Seq(Item) /\ Len(buf) \in Nat
  BY DEF process_frame, SInv, Typing, TypeOK
<1>2. Len(buf) >= 5
  <2> SUFFICES ASSUME Len(buf) < 5 PROVE FALSE
    BY <1>1
  <2>1. Missing = 5 - Len(buf)
    BY <1>1, Awaits
  <2> QED
    BY <1>1, <2>1, SMTT(30)
<1>3. /\ Len(received) \in Nat /\ Len(received) < Len(sent) /\ f \in Frame
      /\ Len(buf) <= Size(f)
      /\ \A i \in 1..Len(buf) : buf[i] = Unit(f, i)
  BY <1>1, <1>2, Beginning
<1>4. Len(buf) = Size(f) /\ DecodedType = type[f]
  <2>1. Size(f) \in Nat
    BY <1>3, SizeNat
  <2> QED
    BY <1>1, <1>2, <2>1, Awaits
<1> HIDE DEF f
<1>5. buf = Header(f) \o Payload(f)
  <2> DEFINE h == Header(f)  q == Payload(f)  c == h \o q
  <2>1. /\ h \in Seq(Item) /\ Len(h) = 5 /\ \A i \in 1..5 : h[i] = Unit(f, i)
        /\ q \in Seq(Item) /\ Len(q) = SentLen(f) /\ \A i \in 1..SentLen(f) : q[i] = Unit(f, 5 + i)
    BY <1>3, Parts
  <2>2. Size(f) = 5 + SentLen(f) /\ SentLen(f) \in Nat
    BY <1>3, Units
  <2> HIDE DEF h, q
  <2>3. /\ c \in Seq(Item) /\ Len(c) = Len(h) + Len(q)
        /\ \A i \in 1..Len(h) + Len(q) : c[i] = IF i <= Len(h) THEN h[i] ELSE q[i - Len(h)]
    BY <2>1, ConcatProperties, Zenon
  <2> HIDE DEF c
  <2>4. Len(c) = Len(buf)
    BY <1>4, <2>1, <2>2, <2>3
  <2>5. ASSUME NEW i \in 1..Len(buf) PROVE buf[i] = c[i]
    <3>1. i \in 1..Len(h) + Len(q) /\ Len(h) = 5
      BY <1>4, <2>1, <2>2
    <3>2. CASE i <= 5
      <4>1. i \in 1..5
        BY <3>1, <3>2
      <4> QED
        BY <1>3, <2>1, <2>3, <3>1, <3>2, <4>1
    <3>3. CASE ~(i <= 5)
      <4>1. i - 5 \in 1..SentLen(f) /\ 5 + (i - 5) = i
        BY <1>4, <2>2, <3>3
      <4> QED
        BY <1>3, <2>1, <2>3, <3>1, <3>3, <4>1
    <3> QED
      BY <3>2, <3>3
  <2>6. buf = c
    BY <1>1, <2>3, <2>4, <2>5, SeqEqual
  <2> QED
    BY <2>6 DEF c, h, q
<1>6. buf[1].of = f
  <2>1. buf[1] = Unit(f, 1)
    BY <1>1, <1>2, <1>3
  <2> QED
    BY <2>1, UnitFields
<1>7. Assembled = f
  BY <1>5, <1>6 DEF Assembled
<1> QED
  BY <1>3, <1>4, <1>7 DEF f

LEMMA HoldsStep ==
  ASSUME SInv, Next
  PROVE  Holds'
<1>1. /\ Simple /\ Holds /\ sent \in Seq(Frame) /\ Len(sent) \in Nat
  BY TypingParts DEF SInv, Typing, TypeOK
<1>2. ASSUME Receiver PROVE Holds'
  BY <1>1, <1>2 DEF Receiver, RecvSome, process_frame, Holds, Sending
<1>3. ASSUME NEW t \in Sender, NEW f \in Frame, Call(t, f) PROVE Holds'
  <2>1. /\ pc[t] = "idle" /\ UNCHANGED <<mutex, sent>> /\ ~Sending(t)
        /\ \A u \in Sender : u # t => pc'[u] = pc[u] /\ frame'[u] = frame[u]
        /\ pc'[t] \in {"encrypt", "lock"}
    BY <1>1, <1>3 DEF Call, Goto, Simple, Sending
  <2> QED
    BY <1>1, <2>1 DEF Holds, Sending
<1>4. ASSUME NEW t \in Sender, Encrypt(t) PROVE Holds'
  <2>1. /\ UNCHANGED <<mutex, sent, frame>> /\ ~Sending(t) /\ ~Sending(t)'
        /\ \A u \in Sender : u # t => pc'[u] = pc[u]
    BY <1>1, <1>4 DEF Encrypt, EncryptBegin, EncryptEnd, Goto, Simple, Sending
  <2> QED
    BY <1>1, <2>1 DEF Holds, Sending
<1>5. ASSUME NEW t \in Sender, Lock(t) PROVE Holds'
  <2>1. /\ mutex = None /\ mutex' = t /\ UNCHANGED frame /\ Sending(t)'
        /\ sent' = Append(sent, frame[t]) /\ frame[t] \in Frame
        /\ \A u \in Sender : u # t => pc'[u] = pc[u]
    BY <1>1, <1>5 DEF Lock, Goto, Simple, Sending
  <2>2. Len(sent') = Len(sent) + 1 /\ sent'[Len(sent')] = frame[t] /\ Len(sent') > 0
    BY <1>1, <2>1
  <2>3. \A u \in Sender : ~Sending(u)
    BY <1>1, <2>1, NoneNot DEF Holds
  <2>4. \A u \in Sender : u # t => ~Sending(u)'
    BY <2>1, <2>3 DEF Sending
  <2> QED
    BY <2>1, <2>2, <2>4 DEF Holds
<1>6. ASSUME NEW t \in Sender, SendSome(t) \/ EndHeader(t) PROVE Holds'
  <2>1. /\ UNCHANGED <<mutex, sent, frame>> /\ Sending(t) /\ Sending(t)'
        /\ \A u \in Sender : u # t => pc'[u] = pc[u]
    BY <1>1, <1>6 DEF SendSome, EndHeader, Goto, Simple, Sending
  <2> QED
    BY <1>1, <2>1 DEF Holds, Sending
<1>7. ASSUME NEW t \in Sender, Unlock(t) PROVE Holds'
  <2>1. /\ mutex' = None /\ UNCHANGED sent /\ Sending(t) /\ ~Sending(t)'
        /\ \A u \in Sender : u # t => pc'[u] = pc[u] /\ frame'[u] = frame[u]
    BY <1>1, <1>7 DEF Unlock, Goto, Simple, Sending
  <2>2. \A u \in Sender : u # t => ~Sending(u)
    BY <1>1, <2>1 DEF Holds
  <2>3. \A u \in Sender : ~Sending(u)'
    BY <2>1, <2>2 DEF Sending
  <2> QED
    BY <2>1, <2>3, NoneNot DEF Holds
<1> QED
  BY <1>2, <1>3, <1>4, <1>5, <1>6, <1>7 DEF Next, Transmit

\* The frame of each thread that has not taken the mutex yet.
Waiting(t) == pc[t] \in {"encrypt", "encrypting", "lock"}

LEMMA OnceStep ==
  ASSUME SInv, Next
  PROVE  Once'
<1>1. /\ Simple /\ Once /\ sent \in Seq(Frame) /\ Len(sent) \in Nat
  BY TypingParts DEF SInv, Typing, TypeOK
<1>2. ASSUME UNCHANGED <<frame, sent>>, NEW t \in Sender, Waiting(t)' => Waiting(t),
             \A u \in Sender : u # t => pc'[u] = pc[u]
      PROVE  Once'
  BY <1>1, <1>2 DEF Once, OnceEach, Waiting
<1>3. ASSUME Receiver PROVE Once'
  BY <1>1, <1>3 DEF Receiver, RecvSome, process_frame, Once, OnceEach
<1>4. ASSUME NEW t \in Sender, NEW f \in Frame, Call(t, f) PROVE Once'
  <2>1. /\ UNCHANGED sent /\ frame' = [frame EXCEPT ![t] = f]
        /\ \A u \in Sender : u # t => pc'[u] = pc[u]
        /\ \A u \in Sender : frame[u] # f
    BY <1>1, <1>4 DEF Call, Goto, Simple
  <2>2. \A i \in 1..Len(sent) : sent[i] # f
    <3>1. DOMAIN sent = 1..Len(sent) /\ f \notin Range(sent)
      BY <1>1, <1>4 DEF Call
    <3> QED
      BY <3>1 DEF Range
  <2>3. frame'[t] = f /\ \A u \in Sender : u # t => frame'[u] = frame[u]
    BY <1>1, <2>1 DEF Simple
  <2> QED
    BY <1>1, <2>1, <2>2, <2>3 DEF Once, OnceEach
<1>5. ASSUME NEW t \in Sender, Encrypt(t) PROVE Once'
  <2>1. /\ UNCHANGED <<frame, sent>> /\ Waiting(t)
        /\ \A u \in Sender : u # t => pc'[u] = pc[u]
    BY <1>1, <1>5 DEF Encrypt, EncryptBegin, EncryptEnd, Goto, Simple, Waiting
  <2> QED
    BY <1>2, <2>1
<1>6. ASSUME NEW t \in Sender, Lock(t) PROVE Once'
  <2>1. /\ UNCHANGED frame /\ Waiting(t) /\ ~Waiting(t)'
        /\ sent' = Append(sent, frame[t]) /\ frame[t] \in Frame
        /\ \A u \in Sender : u # t => pc'[u] = pc[u]
    BY <1>1, <1>6 DEF Lock, Goto, Simple, Waiting
  <2>2. /\ Len(sent') = Len(sent) + 1 /\ sent'[Len(sent) + 1] = frame[t]
        /\ \A i \in 1..Len(sent) : sent'[i] = sent[i]
    BY <1>1, <2>1
  <2>3. \A i \in 1..Len(sent') : i \in 1..Len(sent) \/ i = Len(sent) + 1
    BY <1>1, <2>2
  <2>4. \A i \in 1..Len(sent) : sent[i] # frame[t]
    BY <1>1, <2>1 DEF Once, Waiting
  <2>5. OnceEach(sent)'
    BY <1>1, <2>2, <2>3, <2>4 DEF Once, OnceEach
  <2>6. ASSUME NEW u \in Sender, Waiting(u)', NEW i \in 1..Len(sent')
        PROVE  sent'[i] # frame'[u]
    <3>1. u # t /\ Waiting(u) /\ frame'[u] = frame[u]
      BY <2>1, <2>6 DEF Waiting
    <3>2. frame[u] # frame[t]
      BY <1>1, <2>1, <3>1 DEF Once
    <3>3. \A j \in 1..Len(sent) : sent[j] # frame[u]
      BY <1>1, <3>1 DEF Once, Waiting
    <3> QED
      BY <2>2, <2>3, <3>1, <3>2, <3>3
  <2> QED
    BY <1>1, <2>1, <2>5, <2>6 DEF Once, Waiting
<1>7. ASSUME NEW t \in Sender, SendSome(t) \/ EndHeader(t) PROVE Once'
  <2>1. /\ UNCHANGED <<frame, sent>> /\ ~Waiting(t)'
        /\ \A u \in Sender : u # t => pc'[u] = pc[u]
    BY <1>1, <1>7 DEF SendSome, EndHeader, Goto, Simple, Waiting
  <2> QED
    BY <1>2, <2>1
<1>8. ASSUME NEW t \in Sender, Unlock(t) PROVE Once'
  <2>1. /\ UNCHANGED sent /\ ~Waiting(t)' /\ frame'[t] = None
        /\ \A u \in Sender : u # t => pc'[u] = pc[u] /\ frame'[u] = frame[u]
    BY <1>1, <1>8 DEF Unlock, Goto, Simple, Waiting
  <2> QED
    BY <1>1, <2>1, NoneNot DEF Once, OnceEach, Waiting
<1> QED
  BY <1>3, <1>4, <1>5, <1>6, <1>7, <1>8 DEF Next, Transmit

LEMMA PrefixStep ==
  ASSUME SInv, SameOrder, Next
  PROVE  Prefix'
<1>1. /\ Prefix /\ sent \in Seq(Frame) /\ Len(sent) \in Nat /\ Len(received) \in Nat
      /\ received \in Seq(Frame \cup {None}) /\ closed \in BOOLEAN
  BY DEF SInv, Typing, TypeOK
<1>2. CASE RecvSome
  BY <1>1, <1>2 DEF RecvSome, Prefix
<1>3. CASE process_frame
  <2> DEFINE k == Len(received)  f == sent[k + 1]
  <2>1. /\ received' = Append(received, f) /\ closed' = (type[f] = FRAME_HDR_CLOSE)
        /\ buf' = <<>> /\ sent' = sent /\ k < Len(sent) /\ f \in Frame /\ ~closed
    BY <1>3, Complete DEF process_frame
  <2>2. Len(received') = k + 1 /\ received'[k + 1] = f /\ \A i \in 1..k : received'[i] = received[i]
    BY <1>1, <2>1
  <2>3. \A i \in 1..Len(received') : i \in 1..k \/ i = k + 1
    BY <1>1, <2>2
  <2> HIDE DEF f, k
  <2>4. f = sent[k + 1] /\ k = Len(received)
    BY DEF f, k
  <2>5. Len(received') <= Len(sent')
    BY <1>1, <2>1, <2>2, <2>4
  <2>6. \A i \in 1..Len(received') : received'[i] = sent'[i]
    BY <1>1, <2>1, <2>2, <2>3, <2>4 DEF Prefix
  <2>7. ASSUME ~closed', NEW i \in 1..Len(received') PROVE type[received'[i]] # FRAME_HDR_CLOSE
    BY <1>1, <2>1, <2>2, <2>3, <2>4, <2>7 DEF Prefix
  <2> QED
    BY <2>1, <2>5, <2>6, <2>7 DEF Prefix
<1>4. ASSUME NEW t \in Sender, Lock(t) PROVE Prefix'
  <2>1. sent' = Append(sent, frame[t]) /\ UNCHANGED <<received, closed, buf>> /\ frame[t] \in Frame
    BY <1>4 DEF Lock, Goto, SInv, Typing
  <2>2. Len(sent') = Len(sent) + 1 /\ \A i \in 1..Len(sent) : sent'[i] = sent[i]
    BY <1>1, <2>1
  <2> QED
    BY <1>1, <2>1, <2>2 DEF Prefix
<1>5. ASSUME UNCHANGED <<sent, received, closed, buf>> PROVE Prefix'
  BY <1>1, <1>5 DEF Prefix
<1> QED
  BY <1>2, <1>3, <1>4, <1>5
  DEF Next, Receiver, Encrypt, Transmit, Call, EncryptBegin, EncryptEnd, SendSome, EndHeader, Unlock

LEMMA WayStep ==
  ASSUME SInv, SameOrder, Next
  PROVE  OnTheWay'
<1> SUFFICES ASSUME ~closed'
             PROVE  Way(buf \o stream, sent, Len(received), SentUpTo)'
  BY DEF OnTheWay
<1> DEFINE w == buf \o stream  k == Len(received)  n == SentUpTo
<1>1. ~closed
  BY DEF Next, Receiver, RecvSome, process_frame, Encrypt, Transmit, Call, EncryptBegin, EncryptEnd,
         Lock, SendSome, EndHeader, Unlock
<1>2. /\ Simple /\ Holds /\ OnceEach(sent) /\ sent \in Seq(Frame) /\ Len(sent) \in Nat
      /\ k \in Nat
  BY TypingParts DEF SInv, Typing, TypeOK, Once
<1>3. Way(w, sent, k, n)
  BY <1>1 DEF SInv, OnTheWay
<1>4. n \in Nat /\ (Len(sent) > 0 => n <= Size(sent[Len(sent)]))
  BY SentUpToNat
<1>5. /\ w \in Seq(Item) /\ Len(buf) \in Nat /\ Len(stream) \in Nat
      /\ Len(w) = Len(buf) + Len(stream)
      /\ \A i \in 1..Len(buf) : w[i] = buf[i]
      /\ \A i \in 1..Len(stream) : w[Len(buf) + i] = stream[i]
  BY Bring DEF SInv
<1>6. ASSUME UNCHANGED <<sent, received>>, w' = w, n' = n
      PROVE  Way(w, sent, k, n)'
  BY <1>3, <1>6
<1>7. CASE RecvSome
  <2>1. w' = w
    BY <1>7, Reads DEF SInv
  <2>2. UNCHANGED <<sent, received>> /\ n' = n
    BY <1>7 DEF RecvSome, SentUpTo
  <2> QED
    BY <1>6, <2>1, <2>2
<1>8. CASE process_frame
  <2> DEFINE z == Size(sent[k + 1])
  <2>1. /\ k < Len(sent) /\ sent[k + 1] \in Frame /\ Len(buf) = z
        /\ k' = k + 1 /\ sent' = sent /\ n' = n /\ buf' = <<>> /\ stream' = stream
    <3>1. received' = Append(received, Assembled) /\ received \in Seq(Frame \cup {None})
      BY <1>8 DEF process_frame, SInv, Typing, TypeOK
    <3>2. k' = k + 1
      BY <3>1
    <3> QED
      BY <1>8, <3>2, Complete DEF process_frame, SentUpTo
  <2>2. z \in Nat /\ z >= 5
    BY <2>1, SizeNat
  <2>3. stream \in Seq(Item) /\ w' = stream
    <3>1. stream \in Seq(Item)
      BY DEF SInv, Typing, TypeOK
    <3> QED
      BY <2>1, <3>1
  <2> HIDE DEF w, n, k
  <2>4. /\ Len(w) > 0 /\ z <= Len(w) /\ Len(stream) + z = Len(w)
        /\ \A i \in 1..Len(stream) : stream[i] = w[z + i]
    BY <1>5, <2>1, <2>2
  <2>5. Way(stream, sent, k + 1, n)
    BY <1>2, <1>3, <1>4, <1>5, <2>1, <2>3, <2>4, Drop
  <2> QED
    BY <2>1, <2>3, <2>5 DEF w, n, k
<1>9. ASSUME NEW t \in Sender, Encrypt(t) \/ \E f \in Frame : Call(t, f)
      PROVE  Way(w, sent, k, n)'
  <2>1. /\ UNCHANGED <<sent, received, buf, stream, mutex, n_sent>> /\ ~Sending(t)
        /\ \A u \in Sender : u # t => pc'[u] = pc[u]
    BY <1>2, <1>9 DEF Call, Encrypt, EncryptBegin, EncryptEnd, Goto, Simple, Sending
  <2>2. mutex # t
    BY <1>2, <2>1 DEF Holds
  <2>3. n' = n
    BY <1>2, <2>1, <2>2 DEF SentUpTo, Simple
  <2> QED
    BY <1>6, <2>1, <2>3
<1>10. ASSUME NEW t \in Sender, Lock(t)
       PROVE  Way(w, sent, k, n)'
  <2>1. /\ mutex = None /\ mutex' = t /\ pc'[t] = "header" /\ n_sent'[t] = 0
        /\ frame[t] \in Frame /\ sent' = Append(sent, frame[t])
        /\ UNCHANGED <<received, buf, stream>>
    BY <1>2, <1>10 DEF Lock, Goto, Simple
  <2>2. n' = 0
    BY <2>1, NoneNot DEF SentUpTo
  <2>3. Len(sent) > 0 => n = Size(sent[Len(sent)])
    <3>1. Len(sent) > 0 => sent # <<>>
      OBVIOUS
    <3> QED
      BY <2>1, <3>1 DEF SentUpTo
  <2>4. w' = w /\ k' = k
    BY <2>1
  <2> HIDE DEF w, n, k
  <2>5. Way(w, Append(sent, frame[t]), k, 0)
    BY <1>2, <1>3, <1>4, <1>5, <2>1, <2>3, Another
  <2> QED
    BY <2>1, <2>2, <2>4, <2>5 DEF w, n, k
<1>11. ASSUME NEW t \in Sender, SendSome(t)
       PROVE  Way(w, sent, k, n)'
  <2>1. /\ UNCHANGED <<sent, received, buf, pc, mutex, frame>> /\ Sending(t)
        /\ frame[t] \in Frame
    BY <1>2, <1>11 DEF SendSome, Simple, Sending
  <2>2. PICK c \in Nat :
           /\ c > 0 /\ n_sent[t] \in Nat /\ n_sent[t] + c <= Len(Part(t))
           /\ n_sent' = [n_sent EXCEPT ![t] = @ + c]
           /\ stream' \in Seq(Item) /\ Len(stream') = Len(stream) + c
           /\ Len(stream') <= Capacity
           /\ \A i \in 1..Len(stream) : stream'[i] = stream[i]
           /\ \A i \in 1..c : stream'[Len(stream) + i] = Part(t)[n_sent[t] + i]
    BY <1>11, Writes DEF SInv
  <2>3. mutex = t /\ mutex # None /\ Len(sent) > 0 /\ sent[Len(sent)] = frame[t]
    BY <1>2, <2>1, NoneNot DEF Holds
  <2>4. /\ Len(Part(t)) = IF pc[t] = "header" THEN 5 ELSE SentLen(frame[t])
        /\ \A i \in 1..Len(Part(t)) :
              Part(t)[i] = Unit(frame[t], IF pc[t] = "header" THEN i ELSE 5 + i)
        /\ Len(Part(t)) \in Nat
    BY <2>1, PartOf
  <2>5. Size(frame[t]) = 5 + SentLen(frame[t]) /\ SentLen(frame[t]) \in Nat /\ FRAME_HEADER_SIZE = 5
    BY <2>1, Units
  <2>6. /\ n = IF pc[t] = "header" THEN n_sent[t] ELSE 5 + n_sent[t]
        /\ n' = IF pc[t] = "header" THEN n_sent'[t] ELSE 5 + n_sent'[t]
        /\ n_sent'[t] = n_sent[t] + c
    BY <1>2, <2>1, <2>2, <2>3, <2>5 DEF SentUpTo, Simple
  <2>7. n' = n + c /\ n + c <= Size(sent[Len(sent)])
    BY <2>2, <2>3, <2>4, <2>5, <2>6
  <2>8. \A i \in 1..c : stream'[Len(stream) + i] = Unit(sent[Len(sent)], n + i)
    <3> SUFFICES ASSUME NEW i \in 1..c
                 PROVE  stream'[Len(stream) + i] = Unit(frame[t], n + i)
      BY <2>3
    <3>1. n_sent[t] + i \in 1..Len(Part(t))
      BY <2>2, <2>4, SMTT(30)
    <3>2. Part(t)[n_sent[t] + i] = Unit(frame[t], IF pc[t] = "header" THEN n_sent[t] + i ELSE 5 + (n_sent[t] + i))
      BY <2>4, <3>1
    <3>3. (IF pc[t] = "header" THEN n_sent[t] + i ELSE 5 + (n_sent[t] + i)) = n + i
      BY <2>2, <2>6
    <3> QED
      BY <2>2, <3>2, <3>3
  <2> DEFINE v == buf \o stream'
  <2>9. /\ v \in Seq(Item) /\ Len(v) = Len(w) + c
        /\ \A i \in 1..Len(w) : v[i] = w[i]
        /\ \A i \in 1..c : v[Len(w) + i] = stream'[Len(stream) + i]
    <3>1. buf \in Seq(Item)
      BY DEF SInv, Typing, TypeOK
    <3>2. /\ v \in Seq(Item) /\ Len(v) = Len(buf) + Len(stream')
          /\ \A i \in 1..Len(buf) + Len(stream') :
               v[i] = IF i <= Len(buf) THEN buf[i] ELSE stream'[i - Len(buf)]
      BY <2>2, <3>1, ConcatProperties, ZenonT(60)
    <3> HIDE DEF v, w
    <3>3. ASSUME NEW i \in 1..Len(w) PROVE v[i] = w[i]
      <4>1. CASE i \in 1..Len(buf)
        <5>1. i \in 1..Len(buf) + Len(stream') /\ i <= Len(buf)
          BY <1>5, <2>2, <4>1
        <5>2. w[i] = buf[i]
          BY <1>5, <4>1
        <5> QED
          BY <3>2, <5>1, <5>2
      <4>2. CASE i \notin 1..Len(buf)
        <5>1. i - Len(buf) \in 1..Len(stream) /\ Len(buf) + (i - Len(buf)) = i
              /\ i \in 1..Len(buf) + Len(stream') /\ ~(i <= Len(buf))
          BY <1>5, <2>2, <4>2
        <5>2. w[i] = stream[i - Len(buf)] /\ v[i] = stream'[i - Len(buf)]
          BY <1>5, <3>2, <5>1
        <5> QED
          BY <2>2, <5>1, <5>2
      <4> QED
        BY <4>1, <4>2
    <3>4. ASSUME NEW i \in 1..c PROVE v[Len(w) + i] = stream'[Len(stream) + i]
      <4>1. /\ Len(w) + i \in 1..Len(buf) + Len(stream') /\ ~(Len(w) + i <= Len(buf))
            /\ (Len(w) + i) - Len(buf) = Len(stream) + i
        BY <1>5, <2>2
      <4> QED
        BY <3>2, <4>1
    <3> QED
      BY <1>5, <2>2, <3>2, <3>3, <3>4
  <2>10. w' = v /\ k' = k /\ sent' = sent
    BY <2>1
  <2> HIDE DEF w, n, k, v
  <2>11. Way(v, sent, k, n + c)
    <3>1. \A i \in 1..c : v[Len(w) + i] = Unit(sent[Len(sent)], n + i)
      BY <2>8, <2>9
    <3> QED
      BY <1>2, <1>3, <1>4, <1>5, <2>2, <2>3, <2>7, <2>9, <3>1, Grow
  <2>12. Way(w', sent', k', n')
    BY <2>7, <2>10, <2>11
  <2> QED
    BY <2>12 DEF w, n, k
<1>12. ASSUME NEW t \in Sender, EndHeader(t)
       PROVE  Way(w, sent, k, n)'
  <2>1. /\ UNCHANGED <<sent, received, buf, stream, mutex>> /\ pc[t] = "header" /\ pc'[t] = "payload"
        /\ n_sent[t] = FRAME_HEADER_SIZE /\ n_sent'[t] = 0
    BY <1>1, <1>2, <1>12 DEF EndHeader, Goto, Simple
  <2>2. mutex = t /\ mutex # None
    BY <1>2, <2>1, NoneNot DEF Holds, Sending
  <2>3. n = FRAME_HEADER_SIZE /\ n' = FRAME_HEADER_SIZE + 0
    BY <2>1, <2>2 DEF SentUpTo
  <2>4. n' = n
    BY <2>3, Sizes
  <2> QED
    BY <1>6, <2>1, <2>4
<1>13. ASSUME NEW t \in Sender, Unlock(t)
       PROVE  Way(w, sent, k, n)'
  <2>1. /\ UNCHANGED <<sent, received, buf, stream>> /\ pc[t] = "payload" /\ mutex' = None
        /\ n_sent[t] = SentLen(frame[t])
    BY <1>1, <1>2, <1>13 DEF Unlock, Goto, Simple
  <2>2. mutex = t /\ mutex # None /\ Len(sent) > 0 /\ sent[Len(sent)] = frame[t]
    BY <1>2, <2>1, NoneNot DEF Holds, Sending
  <2>3. n = Size(frame[t])
    BY <2>1, <2>2 DEF SentUpTo, Size
  <2>4. n' = Size(frame[t])
    <3>1. sent # <<>>
      BY <2>2
    <3> QED
      BY <2>1, <2>2, <3>1 DEF SentUpTo
  <2> QED
    BY <1>6, <2>1, <2>3, <2>4
<1> QED
  BY <1>7, <1>8, <1>9, <1>10, <1>11, <1>12, <1>13 DEF Next, Receiver, Transmit

LEMMA FragmentStep ==
  ASSUME SInv, SameOrder, Next
  PROVE  Fragment'
<1>1. Fragment /\ sent \in Seq(Frame) /\ Len(sent) \in Nat /\ Len(received) \in Nat
  BY DEF SInv, Typing, TypeOK
<1>2. CASE RecvSome
  <2> SUFFICES ASSUME ~closed PROVE Len(buf') <= Size(sent[Len(received) + 1])
    BY <1>2 DEF Fragment, RecvSome
  <2> DEFINE f == sent[Len(received) + 1]
  <2>1. PICK c \in Nat : c <= Missing /\ c <= Len(stream) /\ 1 <= c /\ Len(buf') = Len(buf) + c
    BY <1>2, Reads DEF SInv
  <2>2. Len(buf) \in Nat /\ Len(stream) \in Nat /\ Len(buf \o stream) = Len(buf) + Len(stream)
        /\ buf \o stream \in Seq(Item)
    BY Bring DEF SInv
  <2>3. f \in Frame
    <3>1. Way(buf \o stream, sent, Len(received), SentUpTo) /\ SentUpTo \in Nat
      BY SentUpToNat DEF SInv, OnTheWay
    <3>2. Len(buf \o stream) > 0
      BY <2>1, <2>2
    <3> QED
      BY <1>1, <2>2, <3>1, <3>2, FirstFrame
  <2>4. Size(f) \in Nat /\ Size(f) >= 5
    BY <2>3, SizeNat
  <2> HIDE DEF f
  <2>5. CASE Len(buf) < 5
    <3>1. Missing = 5 - Len(buf)
      BY <2>5, Awaits
    <3> QED
      BY <2>1, <2>2, <2>4, <3>1 DEF f
  <2>6. CASE Len(buf) >= 5
    <3>1. Missing = Size(f) - Len(buf)
      BY <2>6, Awaits DEF f
    <3> QED
      BY <2>1, <2>2, <2>4, <3>1 DEF f
  <2> QED
    BY <2>2, <2>5, <2>6
<1>3. CASE process_frame
  BY <1>3 DEF process_frame, Fragment
<1>4. ASSUME NEW t \in Sender, Lock(t) PROVE Fragment'
  <2> SUFFICES ASSUME ~closed, Len(buf) > 0
               PROVE  Len(buf) <= Size(sent'[Len(received) + 1])
    BY <1>4 DEF Fragment, Lock
  <2>1. Len(received) + 1 \in 1..Len(sent)
    BY <1>1, Beginning
  <2>2. sent'[Len(received) + 1] = sent[Len(received) + 1]
    <3>1. sent' = Append(sent, frame[t])
      BY <1>4 DEF Lock
    <3> QED
      BY <1>1, <2>1, <3>1
  <2> QED
    BY <1>1, <2>2 DEF Fragment
<1>5. ASSUME UNCHANGED <<sent, received, closed, buf>> PROVE Fragment'
  BY <1>1, <1>5 DEF Fragment
<1> QED
  BY <1>2, <1>3, <1>4, <1>5
  DEF Next, Receiver, Encrypt, Transmit, Call, EncryptBegin, EncryptEnd, SendSome, EndHeader, Unlock

-----------------------------------------------------------------------------
(***************************************************************************)
(* The theorems.                                                           *)
(***************************************************************************)

LEMMA SInvStep ==
  ASSUME SInv, SameOrder, [Next]_vars
  PROVE  SInv'
<1>1. CASE Next
  <2>1. Typing'
    BY <1>1, TypingStep DEF SInv
  <2> QED
    BY <1>1, <2>1, HoldsStep, OnceStep, PrefixStep, WayStep, FragmentStep DEF SInv
<1>2. CASE UNCHANGED vars
  <2>1. Typing'
    BY <1>2, TypingStep DEF SInv
  <2>2. Holds' /\ Once' /\ Prefix' /\ Fragment'
    BY <1>2 DEF vars, SInv, Holds, Sending, Once, OnceEach, Prefix, Fragment
  <2>3. SentUpTo' = SentUpTo
    BY <1>2 DEF vars, SentUpTo
  <2>4. OnTheWay'
    BY <1>2, <2>3 DEF vars, SInv, OnTheWay
  <2> QED
    BY <2>1, <2>2, <2>4 DEF SInv
<1> QED
  BY <1>1, <1>2

LEMMA SInvAlways ==
  ASSUME SameOrder
  PROVE  Spec => []SInv
<1>1. SInv /\ [Next]_vars => SInv'
  BY SInvStep
<1> QED
  BY <1>1, SInvInit, PTL DEF Spec

\* Theorem: between hosts of the same byte order receive_frame never takes a length for too
\* big (peer_net.c:141), wherever send() and recv() cut the bytes and however the senders
\* are interleaved.
THEOREM Lengths == ASSUME SameOrder PROVE Spec => []LengthAccepted
<1>1. SInv => LengthAccepted
  <2> SUFFICES ASSUME SInv, Len(buf) >= 5 PROVE DecodedLen <= FRAME_PAYLOAD_MAXSIZE
    BY Sizes DEF LengthAccepted
  <2>1. ~closed
    <3>1. closed => Len(buf) = 0
      BY DEF SInv, Prefix
    <3> QED
      BY <3>1
  <2>2. Len(buf) > 0
    BY Bring DEF SInv
  <2>3. sent[Len(received) + 1] \in Frame
    BY <2>1, <2>2, Beginning
  <2>4. DecodedLen = SentLen(sent[Len(received) + 1])
    BY <2>1, Awaits
  <2> QED
    BY <2>3, <2>4, SentLens
<1> QED
  BY <1>1, SInvAlways, PTL

\* Theorem: between hosts of the same byte order the bytes of send_data_to_peer and
\* receive_frame implement Link: every frame that process_frame is given is the next of those
\* that were sent, whole and unmixed, and none comes after a CLOSE.
THEOREM ImplementsLink == ASSUME SameOrder PROVE Spec => L!Spec
<1>1. Init => L!Init
  BY DEF Init, L!Init
<1>2. SInv /\ [Next]_vars => [L!Next]_(L!vars)
  <2> SUFFICES ASSUME SInv, [Next]_vars PROVE [L!Next]_(L!vars)
    OBVIOUS
  <2>1. CASE process_frame
    <3> DEFINE k == Len(received)
    <3>1. /\ k < Len(sent) /\ received' = Append(received, sent[k + 1])
          /\ UNCHANGED sent /\ ~closed
      BY <2>1, Complete DEF process_frame
    <3>2. \A i \in 1..k : received[i] \notin {f \in Frame : type[f] = FRAME_HDR_CLOSE}
      BY <3>1 DEF SInv, Prefix
    <3>3. L!Get
      BY <3>1, <3>2 DEF L!Get
    <3> QED
      BY <3>3 DEF L!Next
  <2>2. ASSUME NEW t \in Sender, Lock(t) PROVE [L!Next]_(L!vars)
    <3>1. frame[t] \in Frame /\ sent' = Append(sent, frame[t]) /\ UNCHANGED received
      BY <2>2 DEF Lock, Goto, SInv, Typing
    <3>2. L!Put(frame[t])
      BY <3>1 DEF L!Put
    <3> QED
      BY <3>1, <3>2 DEF L!Next
  <2>3. ASSUME UNCHANGED <<sent, received>> PROVE [L!Next]_(L!vars)
    BY <2>3 DEF L!vars
  <2> QED
    BY <2>1, <2>2, <2>3
    DEF Next, Receiver, RecvSome, Encrypt, Transmit, Call, EncryptBegin, EncryptEnd, SendSome,
        EndHeader, Unlock, vars
<1> QED
  BY <1>1, <1>2, SInvAlways, PTL DEF Spec, L!Spec

-----------------------------------------------------------------------------
(***************************************************************************)
(* What the receiver can rely on.                                          *)
(***************************************************************************)

\* Theorem: a link, whatever implements it, gives back what was put into it, in order, and
\* nothing behind a CLOSE.
THEOREM LinkOrder == L!Spec => []L!InOrder
<1> DEFINE LInv == sent \in Seq(Frame) /\ received \in Seq(Frame) /\ L!InOrder
<1>1. L!Init => LInv
  BY DEF L!Init, L!InOrder
<1>2. LInv /\ [L!Next]_(L!vars) => LInv'
  <2> SUFFICES ASSUME LInv, [L!Next]_(L!vars) PROVE LInv'
    OBVIOUS
  <2>1. ASSUME NEW f \in Frame, L!Put(f) PROVE LInv'
    <3>1. sent' = Append(sent, f) /\ received' = received
      BY <2>1 DEF L!Put
    <3>2. /\ Len(sent') = Len(sent) + 1 /\ sent' \in Seq(Frame)
          /\ \A i \in 1..Len(received) : sent'[i] = sent[i]
      BY <3>1 DEF L!InOrder
    <3> QED
      BY <3>1, <3>2 DEF L!InOrder
  <2>2. CASE L!Get
    <3> DEFINE k == Len(received)
    <3>1. /\ k \in Nat /\ k < Len(sent) /\ sent' = sent
          /\ received' = Append(received, sent[k + 1])
          /\ \A i \in 1..k : received[i] \notin {f \in Frame : type[f] = FRAME_HDR_CLOSE}
      BY <2>2 DEF L!Get
    <3>2. sent[k + 1] \in Frame
      BY <3>1
    <3>3. /\ received' \in Seq(Frame) /\ Len(received') = k + 1
          /\ received'[k + 1] = sent[k + 1]
          /\ \A i \in 1..k : received'[i] = received[i]
      BY <3>1, <3>2
    <3>4. \A i \in 1..Len(received') : i = k + 1 \/ i \in 1..k
      BY <3>1, <3>3
    <3> QED
      BY <3>1, <3>3, <3>4 DEF L!InOrder
  <2>3. CASE UNCHANGED L!vars
    BY <2>3 DEF L!vars, L!InOrder
  <2> QED
    BY <2>1, <2>2, <2>3 DEF L!Next
<1>3. LInv => L!InOrder
  OBVIOUS
<1> QED
  BY <1>1, <1>2, <1>3, PTL DEF L!Spec

\* Theorem: between hosts of the same byte order process_frame is given the frames that were
\* sent, whole, once each and in the order in which peer->mutex was taken for them, and
\* nothing after a CLOSE (peer_net.c:66-98, peer_net.c:121-166).
THEOREM OrderKept == ASSUME SameOrder PROVE Spec => []ReceivedInOrder
<1>1. L!InOrder => ReceivedInOrder
  BY DEF ReceivedInOrder
<1> QED
  BY <1>1, ImplementsLink, LinkOrder, PTL

\* Theorem: between hosts of the same byte order no byte is left over: when nothing is on the
\* connection, nobody sends and receive_frame waits, it waits for a new frame, and all
\* that were sent have been handled.
THEOREM AllHandled == ASSUME SameOrder PROVE Spec => []NothingMissing
<1>1. SInv => NothingMissing
  <2> SUFFICES ASSUME SInv, ~closed, mutex = None, stream = <<>>, Missing > 0
               PROVE  buf = <<>> /\ received = sent
    BY DEF NothingMissing
  <2> DEFINE k == Len(received)  w == buf \o stream
  <2>1. /\ buf \in Seq(Item) /\ Len(buf) \in Nat /\ Len(w) = Len(buf)
        /\ \A i \in 1..Len(buf) : w[i] = buf[i]
    BY Bring DEF SInv, Typing, TypeOK
  <2>2. sent \in Seq(Frame) /\ received \in Seq(Frame \cup {None}) /\ k \in Nat /\ Len(sent) \in Nat
    BY DEF SInv, Typing, TypeOK
  <2>3. Ends(w, sent, k, SentUpTo)
    BY DEF SInv, OnTheWay, Way
  <2> HIDE DEF w
  \* The last frame has been sent to its end.
  <2>4. ASSUME Len(sent) > 0
        PROVE  /\ sent[Len(sent)] \in Frame /\ SentUpTo = Size(sent[Len(sent)])
               /\ SentUpTo \in Nat /\ SentUpTo >= 5
    <3>1. sent[Len(sent)] \in Frame /\ sent # <<>>
      BY <2>2, <2>4
    <3> QED
      BY <3>1, SizeNat DEF SentUpTo
  <2>5. CASE Len(buf) = 0
    <3>1. Len(sent) = k
      BY <2>1, <2>2, <2>3, <2>4, <2>5 DEF Ends
    <3>2. \A i \in 1..k : received[i] = sent[i]
      BY DEF SInv, Prefix
    <3>3. received = sent
      BY <2>2, <3>1, <3>2, SeqEqual
    <3> QED
      BY <2>1, <2>5, <3>3
  <2>6. CASE Len(buf) > 0
    <3> DEFINE f == sent[k + 1]  z == Len(buf)
    <3>1. /\ k < Len(sent) /\ f \in Frame /\ z <= Size(f)
          /\ buf[z] = Unit(f, z)
      BY <2>1, <2>6, Beginning
    <3>2. buf[z] = Unit(sent[Len(sent)], SentUpTo)
      BY <2>1, <2>2, <2>3, <2>4, <2>6, <3>1 DEF Ends
    <3>3. f = sent[Len(sent)] /\ z = SentUpTo
      <4>1. Unit(f, z) = Unit(sent[Len(sent)], SentUpTo)
        BY <3>1, <3>2
      <4>2. \A g, h, p, q : Unit(g, p) = Unit(h, q) => g = h /\ p = q
        BY DEF Unit
      <4> HIDE DEF f, z
      <4> QED
        BY <4>1, <4>2
    <3>4. z = Size(f) /\ z >= 5
      BY <2>2, <2>4, <3>1, <3>3
    <3>5. Missing = Size(f) - z
      BY <3>4, Awaits
    <3> QED
      BY <2>1, <3>4, <3>5
  <2> QED
    BY <2>1, <2>5, <2>6
<1> QED
  BY <1>1, SInvAlways, PTL
=============================================================================
