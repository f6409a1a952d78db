----------------------------- MODULE MCHandshake -----------------------------
(***************************************************************************)
(* A small instance of Handshake: two keys make every case of trust and    *)
(* mistrust, and of key files that do not belong together.                 *)
(***************************************************************************)
EXTENDS Handshake
=============================================================================
