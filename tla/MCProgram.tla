------------------------------ MODULE MCProgram ------------------------------
(* Program with a console of a few lines. *)
EXTENDS Program
=============================================================================
