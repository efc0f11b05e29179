------------------------------ MODULE MCPeers ------------------------------
(* The peer registry with a peer of the configuration and another one.       *)
EXTENDS PeerRegistry
=============================================================================
