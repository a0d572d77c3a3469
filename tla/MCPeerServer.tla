---------------------------- MODULE MCPeerServer ----------------------------
(* PeerServer with a priority array of two slots. *)
EXTENDS PeerServer
=============================================================================
