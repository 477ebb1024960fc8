----------------------------- MODULE MC_Sessions -----------------------------
(* The sessions of one account; the requests are interchangeable. *)
EXTENDS Sessions, TLC
MCSymmetry == Permutations(Calls)
=============================================================================
