----------------------------- MODULE MCSenders -----------------------------
(***************************************************************************)
(* A small instance of Senders.                                            *)
(***************************************************************************)
EXTENDS Senders
=============================================================================
