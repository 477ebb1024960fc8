------------------------------ MODULE MC_Tickets -----------------------------
(* Instances of Tickets for TLC: a requester, an agent, an administrator   *)
(* and two employees; a .cfg says who else holds a role.                   *)
EXTENDS Tickets, TLC

CONSTANTS req, agt, adm, emp, emp2, r1, r2

(* Requests are interchangeable; only runs of invariants use this.         *)
MCSymmetry == Permutations({r1, r2})
=============================================================================
