----------------------------- MODULE MCPeerServer -----------------------------
(* Instances of PeerServer. *)
EXTENDS PeerServer
=============================================================================
