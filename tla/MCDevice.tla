------------------------------ MODULE MCDevice ------------------------------
(* Device on one and two requests. *)
EXTENDS Device, TLC

\* No action tells one request from another.  For safety only: device_lives,
\* which checks liveness, does without it.
RequestSymmetry == Permutations(Requests)
=============================================================================
