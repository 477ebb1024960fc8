------------------------------- MODULE Outbox -------------------------------
(***************************************************************************)
(* The transactional-outbox processor                                      *)
(* (common/events/outbox-processor.service.ts) with the webhook dispatcher *)
(* it drives (developer/webhooks/webhook-dispatcher.service.ts).           *)
(*                                                                         *)
(* Several API processes run overlapping sweeps over one table.  A sweep   *)
(* recovers expired leases, claims a batch, and then, event by event,      *)
(* reads the subscribed webhooks, inserts one delivery row and fires one   *)
(* POST per webhook, pushes to the WebSocket gateway, and writes the       *)
(* outcome.  Each database statement, and each stretch of JavaScript       *)
(* between two awaits, is one step.                                        *)
(*                                                                         *)
(* Time is abstracted to two facts per row: whether its lease is older     *)
(* than LEASE_TIMEOUT_MS and whether its nextAttemptAt has passed.         *)
(***************************************************************************)
EXTENDS Integers, FiniteSets

CONSTANTS
  Events,         \* outbox rows, one per (eventType, idempotencyKey)
  Webhooks,       \* rows of developer.Webhook
  Sweeps,         \* calls of runOnce that may be in flight together
  Processes,      \* API processes (two replicas in infra/k8s)
  ProcessOf,      \* the process each sweep runs in
  Subscribers,    \* the webhooks whose organisation and event list match
  BatchSize,      \* DEFAULT_BATCH_SIZE
  MaxAttempts,    \* the maxAttempts column
  None,
  \* Bounds of the model, not of the code:
  MaxFaults,      \* crashes and lost acknowledgements
  MaxOutlived,    \* leases that expire while their sweep is still running
  MaxRetries,     \* operator retries of dead-letter events
  MaxToggles      \* webhook activations and deactivations

ASSUME OutboxAssumption ==
  /\ ProcessOf \in [Sweeps -> Processes]
  /\ Subscribers \in [Events -> SUBSET Webhooks]
  /\ BatchSize \in Nat \ {0}
  /\ MaxAttempts \in Nat \ {0}
  /\ None \notin Events \cup Webhooks \cup Processes

VARIABLES
  \* OutboxEvent rows
  status,         \* "ABSENT" until the producing transaction commits
  attempts,
  due,            \* nextAttemptAt <= now()
  lease,          \* lockedAt: "none", "held", or "expired"
  lockedBy,       \* the claiming process; the code writes it and never reads it
  \* Webhook and WebhookDelivery rows
  active,         \* webhooks with isActive
  delivery,       \* <<w, e>> |-> "none", "created", "ok" or "failed"
  \* The running sweeps
  pc,
  batch,          \* claimed events this sweep has not finished
  seen,           \* the attempts column as the claim returned it
  current,        \* the event being processed
  todo,           \* webhooks dispatch has read and not yet handled
  firing,         \* the webhook whose row was just inserted
  \* What the outside world sees
  posts,          \* how many times <<w, e>> was POSTed
  inflight,       \* <<p, w, e>>: POSTs a process is waiting on
  pushed,         \* events broadcast by the gateway at least once
  \* History and budgets
  subscribed,     \* webhooks active ever since the event was committed
  faults, outlived, retries, toggles

rowVars    == <<status, attempts, due, lease, lockedBy>>
sweepVars  == <<pc, batch, seen, current, todo, firing>>
hookVars   == <<active, subscribed, toggles>>
effectVars == <<delivery, posts, inflight, pushed>>
vars == <<rowVars, sweepVars, hookVars, effectVars, faults, outlived, retries>>

Status == {"ABSENT", "PENDING", "PROCESSING", "PROCESSED", "DEAD"}
Pairs  == Webhooks \X Events

(* Where a sweep stands: between cron ticks, about to claim, about to take *)
(* the next event, inside dispatch, resumed after an insert, about to mark *)
(* the row PROCESSED, or in the catch block of processEvent.               *)
Places == {"idle", "claim", "sweep", "dispatch", "fire", "ack", "fail"}

RowTypeOK ==
  /\ status \in [Events -> Status]
  /\ attempts \in [Events -> Nat]
  /\ due \in [Events -> BOOLEAN]
  /\ lease \in [Events -> {"none", "held", "expired"}]
  /\ lockedBy \in [Events -> Processes \cup {None}]

SweepTypeOK ==
  /\ pc \in [Sweeps -> Places]
  /\ batch \in [Sweeps -> SUBSET Events]
  /\ seen \in [Sweeps -> [Events -> Nat]]
  /\ current \in [Sweeps -> Events \cup {None}]
  /\ todo \in [Sweeps -> SUBSET Webhooks]
  /\ firing \in [Sweeps -> Webhooks \cup {None}]

EffectTypeOK ==
  /\ delivery \in [Pairs -> {"none", "created", "ok", "failed"}]
  /\ posts \in [Pairs -> Nat]
  /\ inflight \subseteq Processes \X Webhooks \X Events
  /\ pushed \subseteq Events

HookTypeOK ==
  /\ active \subseteq Webhooks
  /\ subscribed \in [Events -> SUBSET Webhooks]
  /\ toggles \in Nat

TypeOK ==
  /\ RowTypeOK
  /\ SweepTypeOK
  /\ EffectTypeOK
  /\ HookTypeOK
  /\ faults \in Nat /\ outlived \in Nat /\ retries \in Nat

Init ==
  /\ status = [e \in Events |-> "ABSENT"]
  /\ attempts = [e \in Events |-> 0]
  /\ due = [e \in Events |-> FALSE]
  /\ lease = [e \in Events |-> "none"]
  /\ lockedBy = [e \in Events |-> None]
  /\ active \in SUBSET Webhooks
  /\ delivery = [d \in Pairs |-> "none"]
  /\ pc = [s \in Sweeps |-> "idle"]
  /\ batch = [s \in Sweeps |-> {}]
  /\ seen = [s \in Sweeps |-> [e \in Events |-> 0]]
  /\ current = [s \in Sweeps |-> None]
  /\ todo = [s \in Sweeps |-> {}]
  /\ firing = [s \in Sweeps |-> None]
  /\ posts = [d \in Pairs |-> 0]
  /\ inflight = {}
  /\ pushed = {}
  /\ subscribed = [e \in Events |-> {}]
  /\ faults = 0 /\ outlived = 0 /\ retries = 0 /\ toggles = 0

-----------------------------------------------------------------------------
(* The producers, the operators and the passing of time.                   *)

(* OutboxPublisher.publish, when the caller's transaction commits.         *)
Publish(e) ==
  /\ status[e] = "ABSENT"
  /\ status' = [status EXCEPT ![e] = "PENDING"]
  /\ due' = [due EXCEPT ![e] = TRUE]
  /\ subscribed' = [subscribed EXCEPT ![e] = active \cap Subscribers[e]]
  /\ UNCHANGED <<attempts, lease, lockedBy, active, toggles, sweepVars,
                 effectVars, faults, outlived, retries>>

(* A webhook is switched on or off while events are in flight.             *)
ToggleActive(w) ==
  /\ toggles < MaxToggles
  /\ toggles' = toggles + 1
  /\ IF w \in active
       THEN /\ active' = active \ {w}
            /\ subscribed' = [e \in Events |-> subscribed[e] \ {w}]
       ELSE /\ active' = active \cup {w}
            /\ UNCHANGED subscribed
  /\ UNCHANGED <<rowVars, sweepVars, effectVars, faults, outlived, retries>>

(* retry: a dead-letter event goes back to PENDING with a fresh budget.    *)
Retry(e) ==
  /\ status[e] = "DEAD"
  /\ retries < MaxRetries
  /\ retries' = retries + 1
  /\ status' = [status EXCEPT ![e] = "PENDING"]
  /\ attempts' = [attempts EXCEPT ![e] = 0]
  /\ due' = [due EXCEPT ![e] = TRUE]
  /\ UNCHANGED <<lease, lockedBy, sweepVars, hookVars, effectVars,
                 faults, outlived>>

BackoffElapses(e) ==
  /\ status[e] = "PENDING"
  /\ ~due[e]
  /\ due' = [due EXCEPT ![e] = TRUE]
  /\ UNCHANGED <<status, attempts, lease, lockedBy, sweepVars, hookVars,
                 effectVars, faults, outlived, retries>>

Held(e) == \E s \in Sweeps : e \in batch[s]

(* LEASE_TIMEOUT_MS passes.  Nothing stops it from passing while the sweep *)
(* that claimed the event is still working through its batch.              *)
LeaseExpires(e) ==
  /\ lease[e] = "held"
  /\ \/ ~Held(e) /\ UNCHANGED outlived
     \/ Held(e) /\ outlived < MaxOutlived /\ outlived' = outlived + 1
  /\ lease' = [lease EXCEPT ![e] = "expired"]
  /\ UNCHANGED <<status, attempts, due, lockedBy, sweepVars, hookVars,
                 effectVars, faults, retries>>

(* A fault of the bounded kind: a crash or a lost acknowledgement.         *)
Fault == faults < MaxFaults /\ faults' = faults + 1

(* A process dies with its sweeps and the POSTs it was waiting on.         *)
Crash(p) ==
  LET mine == {s \in Sweeps : ProcessOf[s] = p}
      Reset(f, v) == [s \in Sweeps |-> IF s \in mine THEN v ELSE f[s]]
  IN
  /\ Fault
  /\ pc' = Reset(pc, "idle")
  /\ batch' = Reset(batch, {})
  /\ seen' = Reset(seen, [e \in Events |-> 0])
  /\ current' = Reset(current, None)
  /\ todo' = Reset(todo, {})
  /\ firing' = Reset(firing, None)
  /\ inflight' = {q \in inflight : q[1] # p}
  /\ UNCHANGED <<rowVars, hookVars, delivery, posts, pushed, outlived, retries>>

-----------------------------------------------------------------------------
(* runOnce: recover, claim, then one event after the other.                *)

(* The WHERE clause of recoverStaleLocks.                                  *)
IgnoresLockedAt(e) == status[e] = "PROCESSING" /\ lease[e] = "none"     \* mutant
Stale(e) == status[e] = "PROCESSING" /\ lease[e] = "expired"

(* recoverStaleLocks, at the start of every cron tick.                     *)
RecoverStaleLocks(s) ==
  LET stale == {e \in Events : Stale(e)} IN
  /\ pc[s] = "idle"
  /\ pc' = [pc EXCEPT ![s] = "claim"]
  /\ status' = [e \in Events |-> IF e \in stale THEN "PENDING" ELSE status[e]]
  /\ lease' = [e \in Events |-> IF e \in stale THEN "none" ELSE lease[e]]
  /\ lockedBy' = [e \in Events |-> IF e \in stale THEN None ELSE lockedBy[e]]
  /\ UNCHANGED <<attempts, due, batch, seen, current, todo, firing, hookVars,
                 effectVars, faults, outlived, retries>>

AnyStatusClaimable == {e \in Events : status[e] \in {"PENDING", "PROCESSING"} /\ due[e]} \* mutant
Claimable == {e \in Events : status[e] = "PENDING" /\ due[e]}

(* LIMIT: every due row, or as many as the batch holds.                    *)
IsBatch(B) ==
  /\ B \subseteq Claimable
  /\ Cardinality(B) <= BatchSize
  /\ B = Claimable \/ Cardinality(B) = BatchSize

Uncharged(n) == n - 1                                                   \* mutant
Charged(n) == n + 1

(* The single UPDATE ... FOR UPDATE SKIP LOCKED of claimBatch.             *)
ClaimRows(s, B) ==
  /\ status' = [e \in Events |-> IF e \in B THEN "PROCESSING" ELSE status[e]]
  /\ attempts' = [e \in Events |-> IF e \in B THEN Charged(attempts[e]) ELSE attempts[e]]
  /\ lease' = [e \in Events |-> IF e \in B THEN "held" ELSE lease[e]]
  /\ lockedBy' = [e \in Events |-> IF e \in B THEN ProcessOf[s] ELSE lockedBy[e]]
  /\ UNCHANGED due

ClaimBatch(s) ==
  \E B \in SUBSET Claimable :
    /\ pc[s] = "claim"
    /\ IsBatch(B)
    /\ ClaimRows(s, B)
    /\ batch' = [batch EXCEPT ![s] = B]
    /\ seen' = [seen EXCEPT ![s] =
                  [e \in Events |-> IF e \in B THEN Charged(attempts[e]) ELSE 0]]
    /\ pc' = [pc EXCEPT ![s] = IF B = {} THEN "idle" ELSE "sweep"]
    /\ UNCHANGED <<current, todo, firing, hookVars, effectVars,
                   faults, outlived, retries>>

(* The claim commits but its answer never arrives: runOnce throws, poll    *)
(* logs it, and the rows stay PROCESSING with nobody working on them.      *)
ClaimAnswerLost(s) ==
  \E B \in SUBSET Claimable :
    /\ pc[s] = "claim"
    /\ Fault
    /\ IsBatch(B)
    /\ ClaimRows(s, B)
    /\ pc' = [pc EXCEPT ![s] = "idle"]
    /\ UNCHANGED <<batch, seen, current, todo, firing, hookVars, effectVars,
                   outlived, retries>>

(* The next event of the batch: dispatch reads the active subscribers.     *)
FindWebhooks(s, e) ==
  /\ pc[s] = "sweep"
  /\ e \in batch[s]
  /\ current' = [current EXCEPT ![s] = e]
  /\ \/ /\ pc' = [pc EXCEPT ![s] = "dispatch"]
        /\ todo' = [todo EXCEPT ![s] = active \cap Subscribers[e]]
     \/ /\ pc' = [pc EXCEPT ![s] = "fail"]      \* the query is rejected
        /\ UNCHANGED todo
  /\ UNCHANGED <<rowVars, batch, seen, firing, hookVars, effectVars,
                 faults, outlived, retries>>

(* The partial unique index on (webhookId, outboxEventId).                 *)
NoIndex(w, e) == TRUE                                                   \* mutant
MayInsert(w, e) == delivery[<<w, e>>] = "none"

(* webhookDelivery.create, inserted under the unique (webhookId,           *)
(* outboxEventId) index; the POST goes out when the sweep resumes.         *)
CreateDelivery(s, w) ==
  /\ pc[s] = "dispatch"
  /\ w \in todo[s]
  /\ MayInsert(w, current[s])
  /\ delivery' = [delivery EXCEPT ![<<w, current[s]>>] = "created"]
  /\ todo' = [todo EXCEPT ![s] = @ \ {w}]
  /\ firing' = [firing EXCEPT ![s] = w]
  /\ pc' = [pc EXCEPT ![s] = "fire"]
  /\ UNCHANGED <<rowVars, batch, seen, current, hookVars, posts, inflight,
                 pushed, faults, outlived, retries>>

(* P2002: another attempt already has the row; skip to the next webhook.   *)
SkipDuplicate(s, w) ==
  /\ pc[s] = "dispatch"
  /\ w \in todo[s]
  /\ ~MayInsert(w, current[s])
  /\ todo' = [todo EXCEPT ![s] = @ \ {w}]
  /\ UNCHANGED <<rowVars, pc, batch, seen, current, firing, hookVars,
                 effectVars, faults, outlived, retries>>

(* Any other rejection leaves the loop for processEvent's catch block: the *)
(* insert was refused, or it committed and its answer was lost.            *)
CreateFails(s, w) ==
  /\ pc[s] = "dispatch"
  /\ w \in todo[s]
  /\ \/ UNCHANGED <<delivery, faults>>
     \/ /\ Fault
        /\ MayInsert(w, current[s])
        /\ delivery' = [delivery EXCEPT ![<<w, current[s]>>] = "created"]
  /\ todo' = [todo EXCEPT ![s] = {}]
  /\ pc' = [pc EXCEPT ![s] = "fail"]
  /\ UNCHANGED <<rowVars, batch, seen, current, firing, hookVars, posts,
                 inflight, pushed, outlived, retries>>

(* executeDelivery up to its fetch: fire and forget.                       *)
FirePost(s) ==
  /\ pc[s] = "fire"
  /\ posts' = [posts EXCEPT ![<<firing[s], current[s]>>] = @ + 1]
  /\ inflight' = inflight \cup {<<ProcessOf[s], firing[s], current[s]>>}
  /\ firing' = [firing EXCEPT ![s] = None]
  /\ pc' = [pc EXCEPT ![s] = "dispatch"]
  /\ UNCHANGED <<rowVars, batch, seen, current, todo, hookVars, delivery,
                 pushed, faults, outlived, retries>>

(* executeDelivery after its fetch: the outcome is recorded, unless that   *)
(* update is itself rejected, and never retried.                           *)
PostReturns(p, w, e) ==
  /\ <<p, w, e>> \in inflight
  /\ inflight' = inflight \ {<<p, w, e>>}
  /\ \E outcome \in {"ok", "failed", delivery[<<w, e>>]} :
       delivery' = [delivery EXCEPT ![<<w, e>>] = outcome]
  /\ UNCHANGED <<rowVars, sweepVars, hookVars, posts, pushed, faults,
                 outlived, retries>>

(* The loop over the webhooks has ended.                                   *)
StopsAfterFirst(s) == \E w \in Webhooks : ~MayInsert(w, current[s])       \* mutant
DispatchDone(s) == todo[s] = {}

(* gateway.publish, which never throws.                                    *)
PushToGateway(s) ==
  /\ pc[s] = "dispatch"
  /\ DispatchDone(s)
  /\ pushed' = pushed \cup {current[s]}
  /\ pc' = [pc EXCEPT ![s] = "ack"]
  /\ UNCHANGED <<rowVars, batch, seen, current, todo, firing, hookVars,
                 delivery, posts, inflight, faults, outlived, retries>>

-----------------------------------------------------------------------------
(* The outcome writes.  Both are conditional on status = PROCESSING, and   *)
(* on nothing else.                                                        *)

Unconditional(e) == TRUE                                                \* mutant
StillProcessing(e) == status[e] = "PROCESSING"

OneAttemptEarly(n) == n + 1 >= MaxAttempts                              \* mutant
Exhausted(n) == n >= MaxAttempts

SetStatus(e, to) ==
  /\ status' = [status EXCEPT ![e] = to]
  /\ lease' = [lease EXCEPT ![e] = "none"]
  /\ lockedBy' = [lockedBy EXCEPT ![e] = None]

MarkRowProcessed(e) ==
  IF StillProcessing(e)
    THEN SetStatus(e, "PROCESSED") /\ UNCHANGED <<attempts, due>>
    ELSE UNCHANGED rowVars

(* The budget is judged by the attempts the claim returned, not by the row.*)
MarkRowFailed(s, e) ==
  IF StillProcessing(e)
    THEN IF Exhausted(seen[s][e])
           THEN SetStatus(e, "DEAD") /\ UNCHANGED <<attempts, due>>
           ELSE /\ SetStatus(e, "PENDING")
                /\ due' = [due EXCEPT ![e] = FALSE]
                /\ UNCHANGED attempts
    ELSE UNCHANGED rowVars

(* processEvent returns and the loop of runOnce goes on.                   *)
FinishEvent(s) ==
  LET rest == batch[s] \ {current[s]} IN
  /\ batch' = [batch EXCEPT ![s] = rest]
  /\ seen' = [seen EXCEPT ![s][current[s]] = 0]
  /\ current' = [current EXCEPT ![s] = None]
  /\ pc' = [pc EXCEPT ![s] = IF rest = {} THEN "idle" ELSE "sweep"]
  /\ UNCHANGED <<todo, firing>>

MarkProcessed(s) ==
  /\ pc[s] = "ack"
  /\ MarkRowProcessed(current[s])
  /\ FinishEvent(s)
  /\ UNCHANGED <<hookVars, effectVars, faults, outlived, retries>>

(* A rejected markProcessed, committed or not, ends in the catch block.    *)
MarkProcessedFails(s) ==
  /\ pc[s] = "ack"
  /\ Fault
  /\ MarkRowProcessed(current[s]) \/ UNCHANGED rowVars
  /\ pc' = [pc EXCEPT ![s] = "fail"]
  /\ UNCHANGED <<batch, seen, current, todo, firing, hookVars, effectVars,
                 outlived, retries>>

MarkFailed(s) ==
  /\ pc[s] = "fail"
  /\ MarkRowFailed(s, current[s])
  /\ FinishEvent(s)
  /\ UNCHANGED <<hookVars, effectVars, faults, outlived, retries>>

(* runOnce swallows a rejected markFailed; only the lease can free the row.*)
MarkFailedFails(s) ==
  /\ pc[s] = "fail"
  /\ Fault
  /\ UNCHANGED rowVars
  /\ FinishEvent(s)
  /\ UNCHANGED <<hookVars, effectVars, outlived, retries>>

-----------------------------------------------------------------------------
(* What a live process does of its own accord.                             *)
Advance(s) ==
  \/ RecoverStaleLocks(s)
  \/ ClaimBatch(s)
  \/ \E e \in Events : FindWebhooks(s, e)
  \/ \E w \in Webhooks : CreateDelivery(s, w) \/ SkipDuplicate(s, w) \/ CreateFails(s, w)
  \/ FirePost(s)
  \/ PushToGateway(s)
  \/ MarkProcessed(s)
  \/ MarkFailed(s)

Next ==
  \/ \E e \in Events : Publish(e) \/ Retry(e) \/ BackoffElapses(e) \/ LeaseExpires(e)
  \/ \E w \in Webhooks : ToggleActive(w)
  \/ \E p \in Processes : Crash(p)
  \/ \E s \in Sweeps :
       Advance(s) \/ ClaimAnswerLost(s) \/ MarkProcessedFails(s) \/ MarkFailedFails(s)
  \/ \E p \in Processes, w \in Webhooks, e \in Events : PostReturns(p, w, e)

Spec == Init /\ [][Next]_vars

(* The cron keeps ticking in a process that is up, its database calls      *)
(* return, and clocks advance.  Nothing is assumed about operators,        *)
(* faults, webhook endpoints or leases that outlive their sweep.           *)
Fairness ==
  /\ \A s \in Sweeps : WF_vars(Advance(s))
  /\ \A e \in Events : WF_vars(BackoffElapses(e))
  /\ \A e \in Events : WF_vars(~Held(e) /\ LeaseExpires(e))

FairSpec == Spec /\ Fairness

-----------------------------------------------------------------------------
(* Two overlapping attempts, a recovered lease or a restart never POST an  *)
(* event to a webhook twice: the unique index of WebhookDelivery decides.  *)
AtMostOnePost == \A d \in Pairs : posts[d] <= 1

(* An event is PROCESSED only after it was pushed and every webhook that   *)
(* has been active since it was committed has its delivery row, whichever  *)
(* of the competing sweeps wrote the mark and whatever failed on the way.  *)
ProcessedIsComplete ==
  \A e \in Events : status[e] = "PROCESSED" =>
    /\ e \in pushed
    /\ \A w \in subscribed[e] : delivery[<<w, e>>] # "none"

(* Without a lease that expires under a live sweep, no two sweeps hold the *)
(* same event: SKIP LOCKED plus the lease is the only mutual exclusion.    *)
OneClaimPerEvent ==
  outlived = 0 =>
    \A s, t \in Sweeps : s # t => batch[s] \cap batch[t] = {}

(* Same premise: an event is dead-lettered only once its budget is spent.  *)
DeadSpentBudget ==
  outlived = 0 =>
    \A e \in Events : status[e] = "DEAD" => attempts[e] >= MaxAttempts

(* No late outcome write and no stale-lease sweep touches a settled event: *)
(* PROCESSED is for ever, and only an operator's retry leaves DEAD.        *)
SettledStaysSettled ==
  [][\A e \in Events :
       /\ status[e] = "PROCESSED" => status'[e] = "PROCESSED"
       /\ status[e] = "DEAD" /\ status'[e] # "DEAD" => retries' > retries]_vars

(* Every committed event ends PROCESSED or in the dead-letter queue, with  *)
(* finitely many faults and outlived leases.                               *)
EveryEventSettles ==
  \A e \in Events :
    status[e] \in {"PENDING", "PROCESSING"} ~> status[e] \in {"PROCESSED", "DEAD"}

(* The processor implements the ledger: retries, recovered leases and      *)
(* crashes are invisible, or one of its steps.                             *)
Phase(st) ==
  IF st = "ABSENT" THEN "absent"
  ELSE IF st = "PROCESSED" THEN "done"
  ELSE IF st = "DEAD" THEN "dead" ELSE "queued"

Ledger == INSTANCE EventLedger WITH
  phase    <- [e \in Events |-> Phase(status[e])],
  owed     <- subscribed,
  reserved <- {d \in Pairs : delivery[d] # "none"},
  posted   <- posts

LedgerSpec == Ledger!Spec

=============================================================================
