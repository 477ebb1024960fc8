----------------------------- MODULE EventLedger ----------------------------
(***************************************************************************)
(* What the outbox promises, without rows, leases, attempts or sweeps.     *)
(*                                                                         *)
(* A committed event is queued until it is done or dead.  It is done only  *)
(* when every webhook it is owed to has been reserved, and a reservation   *)
(* is spent by at most one POST.  A dead event is queued again by hand.    *)
(***************************************************************************)
EXTENDS Naturals

CONSTANTS Events, Webhooks

VARIABLES
  phase,      \* "absent", "queued", "done" or "dead"
  owed,       \* the webhooks an event must not be done without
  reserved,   \* <<w, e>> that have claimed their one POST
  posted      \* how often <<w, e>> has been POSTed

ledgerVars == <<phase, owed, reserved, posted>>

Init ==
  /\ phase = [e \in Events |-> "absent"]
  /\ owed = [e \in Events |-> {}]
  /\ reserved = {}
  /\ posted = [d \in Webhooks \X Events |-> 0]

Move(e, from, to) == phase[e] = from /\ phase' = [phase EXCEPT ![e] = to]

Accept(e) ==
  /\ Move(e, "absent", "queued")
  /\ \E W \in SUBSET Webhooks : owed' = [owed EXCEPT ![e] = W]
  /\ UNCHANGED <<reserved, posted>>

(* A webhook that is switched off is owed nothing any more.                *)
Release(w) ==
  /\ owed' = [e \in Events |-> owed[e] \ {w}]
  /\ UNCHANGED <<phase, reserved, posted>>

(* A slow attempt may still reserve after another one settled the event.   *)
Reserve(w, e) ==
  /\ phase[e] # "absent"
  /\ <<w, e>> \notin reserved
  /\ reserved' = reserved \cup {<<w, e>>}
  /\ UNCHANGED <<phase, owed, posted>>

Post(w, e) ==
  /\ <<w, e>> \in reserved
  /\ posted[<<w, e>>] = 0
  /\ posted' = [posted EXCEPT ![<<w, e>>] = 1]
  /\ UNCHANGED <<phase, owed, reserved>>

Complete(e) ==
  /\ \A w \in owed[e] : <<w, e>> \in reserved
  /\ Move(e, "queued", "done")
  /\ UNCHANGED <<owed, reserved, posted>>

GiveUp(e)  == Move(e, "queued", "dead") /\ UNCHANGED <<owed, reserved, posted>>
Requeue(e) == Move(e, "dead", "queued") /\ UNCHANGED <<owed, reserved, posted>>

Next ==
  \/ \E e \in Events : Accept(e) \/ Complete(e) \/ GiveUp(e) \/ Requeue(e)
  \/ \E w \in Webhooks : Release(w)
  \/ \E w \in Webhooks, e \in Events : Reserve(w, e) \/ Post(w, e)

Spec == Init /\ [][Next]_ledgerVars

=============================================================================
