------------------------------ MODULE MCControl ------------------------------
(* A test that sends a few commands over a lossy, slow loopback.             *)
EXTENDS Control
=============================================================================
