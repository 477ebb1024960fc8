------------------------------- MODULE MC_Sla --------------------------------
(* Instances of Sla for TLC. *)
EXTENDS Sla

CONSTANTS s1, s2, q1, r1, r2
=============================================================================
