------------------------------ MODULE MCStream ------------------------------
(***************************************************************************)
(* Small instances of Stream: two packets, of less than a block and of a   *)
(* whole block, and a CLOSE that may overtake them.                        *)
(***************************************************************************)
EXTENDS Stream

CONSTANTS p1, p2, close

Types   == (p1 :> FRAME_HDR_NETPACKET) @@ (p2 :> FRAME_HDR_NETPACKET) @@ (close :> FRAME_HDR_CLOSE)
Lengths == (p1 :> 1) @@ (p2 :> 2) @@ (close :> 0)
=============================================================================
