---------------------------- MODULE MCWorkstation ----------------------------
(* Workstation with two requesting threads and invoke ids that wrap. *)
EXTENDS Workstation
=============================================================================
