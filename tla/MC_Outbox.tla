----------------------------- MODULE MC_Outbox ------------------------------
(* Instances of Outbox for TLC. *)
EXTENDS Outbox, TLC

CONSTANTS e1, e2, w1, w2, s1, s2, p1, p2

MCProcessOf   == (s1 :> p1) @@ (s2 :> p2)
MCSubscribers == [e \in Events |-> Webhooks]

(* Every event goes to every webhook and every process runs one sweep, so  *)
(* events, webhooks and replicas (a process with its sweep) are            *)
(* interchangeable.  Only runs without liveness use this.                  *)
Replicas ==
  {(s1 :> s1) @@ (s2 :> s2) @@ (p1 :> p1) @@ (p2 :> p2),
   (s1 :> s2) @@ (s2 :> s1) @@ (p1 :> p2) @@ (p2 :> p1)}
MCSymmetry ==
  {r @@ w @@ e : r \in Replicas, w \in Permutations(Webhooks), e \in Permutations(Events)}
=============================================================================
