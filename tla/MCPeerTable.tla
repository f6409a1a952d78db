----------------------------- MODULE MCPeerTable -----------------------------
(***************************************************************************)
(* Small instances of PeerTable.  Three connections let one slot be used   *)
(* three times and let a reused slot meet a connection in another slot.    *)
(***************************************************************************)
EXTENDS PeerTable
=============================================================================
