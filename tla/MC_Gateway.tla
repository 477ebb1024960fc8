----------------------------- MODULE MC_Gateway -----------------------------
(* An instance of Gateway for TLC. *)
EXTENDS Gateway
=============================================================================
