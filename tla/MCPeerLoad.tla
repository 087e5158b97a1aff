----------------------------- MODULE MCPeerLoad -----------------------------
(* Instances of PeerLoad. *)
EXTENDS PeerLoad, TLC

Symmetric == Permutations(Requests) \cup Permutations(Registrations)
=============================================================================
