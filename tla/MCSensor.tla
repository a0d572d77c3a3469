------------------------------ MODULE MCSensor ------------------------------
(* The sensor alone: its clock, its wire and its arrow keys.                *)
EXTENDS Sensor
=============================================================================
