------------------------------ MODULE MCClient ------------------------------
(* A client with few invoke ids on an unreliable network.                   *)
EXTENDS Client
=============================================================================
