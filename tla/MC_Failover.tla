---------------------------- MODULE MC_Failover ----------------------------
(* Instances of Failover for TLC. *)
EXTENDS Failover

CONSTANTS us, eu, uw, x1, x2

MCRegions == <<us, eu, uw>>
MCSecondaries == {eu, uw}
=============================================================================
