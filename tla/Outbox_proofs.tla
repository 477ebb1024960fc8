---------------------------- MODULE Outbox_proofs ---------------------------
(* Theorems about the outbox processor, for any number of events,          *)
(* webhooks, sweeps and processes and any bounds.                          *)
EXTENDS Outbox, TLAPS

USE DEF Stale, Charged, MayInsert, DispatchDone, StillProcessing, Exhausted

-----------------------------------------------------------------------------
(* The shape of a running sweep.                                           *)

(* Wherever a sweep uses current, it is an event of its batch; firing      *)
(* names a webhook exactly between an insert and its POST.                 *)
WorkInv ==
  \A s \in Sweeps :
    /\ pc[s] \in {"dispatch", "fire", "ack", "fail"} => current[s] \in batch[s]
    /\ pc[s] = "fire" <=> firing[s] # None

(* A step that writes an outcome leaves rows well typed.                   *)
LEMMA MarkRowType ==
  ASSUME RowTypeOK, NEW s \in Sweeps, NEW e \in Events,
         MarkRowProcessed(e) \/ MarkRowFailed(s, e) \/ UNCHANGED rowVars
  PROVE  RowTypeOK'
  BY DEF RowTypeOK, MarkRowProcessed, MarkRowFailed, SetStatus, Status, rowVars

(* Leaving an event keeps the sweeps well typed.                           *)
LEMMA FinishType ==
  ASSUME SweepTypeOK, NEW s \in Sweeps, current[s] \in Events, FinishEvent(s)
  PROVE  SweepTypeOK'
  <1>1. seen' \in [Sweeps -> [Events -> Nat]]
    BY DEF FinishEvent, SweepTypeOK
  <1>2. pc' \in [Sweeps -> Places]
    BY DEF FinishEvent, SweepTypeOK, Places
  <1> QED BY <1>1, <1>2 DEF FinishEvent, SweepTypeOK

(* Claiming a batch keeps rows well typed.                                 *)
LEMMA ClaimRowsType ==
  ASSUME RowTypeOK, OutboxAssumption, NEW s \in Sweeps, NEW B \in SUBSET Claimable,
         ClaimRows(s, B)
  PROVE  RowTypeOK'
  <1> USE DEF RowTypeOK, ClaimRows
  <1>1. status' \in [Events -> Status]
    BY DEF Status
  <1>2. attempts' \in [Events -> Nat]
    OBVIOUS
  <1>3. lease' \in [Events -> {"none", "held", "expired"}]
    OBVIOUS
  <1>4. lockedBy' \in [Events -> Processes \cup {None}]
    BY DEF OutboxAssumption
  <1> QED BY <1>1, <1>2, <1>3, <1>4

(* TypeOK and WorkInv hold initially.                                      *)
LEMMA InitType == Init => TypeOK /\ WorkInv
  BY DEF Init, TypeOK, RowTypeOK, SweepTypeOK, EffectTypeOK, HookTypeOK,
         WorkInv, Places, Status, Pairs

(* Every step keeps TypeOK.                                                *)
LEMMA NextType ==
  ASSUME TypeOK, WorkInv, [Next]_vars
  PROVE  TypeOK'
  <1> USE OutboxAssumption DEF TypeOK, vars
  <1>1. ASSUME NEW e \in Events, Publish(e)  PROVE TypeOK'
    BY <1>1 DEF Publish, RowTypeOK, HookTypeOK, SweepTypeOK, EffectTypeOK,
                Status, sweepVars, effectVars
  <1>2. ASSUME NEW e \in Events, Retry(e)  PROVE TypeOK'
    BY <1>2 DEF Retry, RowTypeOK, HookTypeOK, SweepTypeOK, EffectTypeOK,
                Status, sweepVars, effectVars, hookVars
  <1>3. ASSUME NEW e \in Events, BackoffElapses(e)  PROVE TypeOK'
    BY <1>3 DEF BackoffElapses, RowTypeOK, HookTypeOK, SweepTypeOK,
                EffectTypeOK, sweepVars, effectVars, hookVars
  <1>4. ASSUME NEW e \in Events, LeaseExpires(e)  PROVE TypeOK'
    BY <1>4 DEF LeaseExpires, RowTypeOK, HookTypeOK, SweepTypeOK,
                EffectTypeOK, sweepVars, effectVars, hookVars
  <1>5. ASSUME NEW w \in Webhooks, ToggleActive(w)  PROVE TypeOK'
    BY <1>5 DEF ToggleActive, RowTypeOK, HookTypeOK, SweepTypeOK, EffectTypeOK,
                rowVars, sweepVars, effectVars
  <1>6. ASSUME NEW p \in Processes, Crash(p)  PROVE TypeOK'
    <2>1. SweepTypeOK'
      BY <1>6 DEF Crash, SweepTypeOK, Places
    <2>2. EffectTypeOK'
      BY <1>6 DEF Crash, EffectTypeOK
    <2> QED BY <1>6, <2>1, <2>2 DEF Crash, Fault, RowTypeOK, HookTypeOK, rowVars, hookVars
  <1>7. ASSUME NEW s \in Sweeps, RecoverStaleLocks(s)  PROVE TypeOK'
    <2>1. RowTypeOK'
      BY <1>7 DEF RecoverStaleLocks, RowTypeOK, Status
    <2>2. SweepTypeOK'
      BY <1>7 DEF RecoverStaleLocks, SweepTypeOK, Places
    <2> QED BY <1>7, <2>1, <2>2 DEF RecoverStaleLocks, HookTypeOK, EffectTypeOK,
                                    hookVars, effectVars
  <1>8. ASSUME NEW s \in Sweeps, ClaimBatch(s)  PROVE TypeOK'
    <2> PICK B \in SUBSET Claimable : ClaimBatch(s)!(B)
      BY <1>8 DEF ClaimBatch
    <2>1. RowTypeOK'
      BY ClaimRowsType
    <2>2. B \subseteq Events
      BY DEF Claimable
    <2>3. SweepTypeOK'
      BY <2>2 DEF SweepTypeOK, RowTypeOK, Places
    <2> QED BY <2>1, <2>3 DEF HookTypeOK, EffectTypeOK, hookVars, effectVars
  <1>9. ASSUME NEW s \in Sweeps, ClaimAnswerLost(s)  PROVE TypeOK'
    <2> PICK B \in SUBSET Claimable : ClaimAnswerLost(s)!(B)
      BY <1>9 DEF ClaimAnswerLost
    <2>1. RowTypeOK'
      BY ClaimRowsType
    <2>2. SweepTypeOK'
      BY DEF SweepTypeOK, Places
    <2> QED BY <2>1, <2>2 DEF HookTypeOK, EffectTypeOK, hookVars, effectVars, Fault
  <1>10. ASSUME NEW s \in Sweeps, NEW e \in Events, FindWebhooks(s, e)  PROVE TypeOK'
    <2>1. SweepTypeOK'
      <3>1. todo' \in [Sweeps -> SUBSET Webhooks]
        BY <1>10 DEF FindWebhooks, SweepTypeOK, HookTypeOK
      <3> QED BY <1>10, <3>1 DEF FindWebhooks, SweepTypeOK, Places
    <2> QED BY <1>10, <2>1 DEF FindWebhooks, RowTypeOK, HookTypeOK, EffectTypeOK,
                               rowVars, hookVars, effectVars
  <1>11. ASSUME NEW s \in Sweeps, NEW w \in Webhooks, CreateDelivery(s, w)  PROVE TypeOK'
    <2>1. SweepTypeOK'
      BY <1>11 DEF CreateDelivery, SweepTypeOK, Places
    <2> QED BY <1>11, <2>1 DEF CreateDelivery, RowTypeOK, HookTypeOK, EffectTypeOK,
                               rowVars, hookVars
  <1>12. ASSUME NEW s \in Sweeps, NEW w \in Webhooks, SkipDuplicate(s, w)  PROVE TypeOK'
    BY <1>12 DEF SkipDuplicate, SweepTypeOK, RowTypeOK, HookTypeOK, EffectTypeOK,
                 rowVars, hookVars, effectVars
  <1>13. ASSUME NEW s \in Sweeps, NEW w \in Webhooks, CreateFails(s, w)  PROVE TypeOK'
    <2>1. SweepTypeOK'
      BY <1>13 DEF CreateFails, SweepTypeOK, Places
    <2>2. EffectTypeOK' /\ faults' \in Nat
      BY <1>13 DEF CreateFails, EffectTypeOK, Fault
    <2> QED BY <1>13, <2>1, <2>2 DEF CreateFails, RowTypeOK, HookTypeOK, rowVars, hookVars
  <1>14. ASSUME NEW s \in Sweeps, FirePost(s)  PROVE TypeOK'
    <2>1. firing[s] \in Webhooks /\ current[s] \in Events /\ ProcessOf[s] \in Processes
      BY <1>14 DEF FirePost, WorkInv, SweepTypeOK, OutboxAssumption
    <2>2. SweepTypeOK'
      BY <1>14 DEF FirePost, SweepTypeOK, Places
    <2>3. EffectTypeOK'
      BY <1>14, <2>1 DEF FirePost, EffectTypeOK, Pairs
    <2> QED BY <1>14, <2>2, <2>3 DEF FirePost, RowTypeOK, HookTypeOK, rowVars, hookVars
  <1>15. ASSUME NEW s \in Sweeps, PushToGateway(s)  PROVE TypeOK'
    <2>1. SweepTypeOK'
      BY <1>15 DEF PushToGateway, SweepTypeOK, Places
    <2>2. EffectTypeOK'
      BY <1>15 DEF PushToGateway, EffectTypeOK, WorkInv, SweepTypeOK
    <2> QED BY <1>15, <2>1, <2>2 DEF PushToGateway, RowTypeOK, HookTypeOK, rowVars, hookVars
  <1>16. ASSUME NEW s \in Sweeps, MarkProcessed(s) \/ MarkFailed(s) \/ MarkFailedFails(s)
         PROVE TypeOK'
    <2>1. current[s] \in Events
      BY <1>16 DEF MarkProcessed, MarkFailed, MarkFailedFails, WorkInv, SweepTypeOK
    <2>2. RowTypeOK'
      BY <1>16, <2>1, MarkRowType DEF MarkProcessed, MarkFailed, MarkFailedFails
    <2>3. SweepTypeOK'
      BY <1>16, <2>1, FinishType DEF MarkProcessed, MarkFailed, MarkFailedFails
    <2>4. HookTypeOK' /\ EffectTypeOK'
      BY <1>16 DEF MarkProcessed, MarkFailed, MarkFailedFails, HookTypeOK,
                   EffectTypeOK, hookVars, effectVars
    <2> QED BY <1>16, <2>2, <2>3, <2>4 DEF MarkProcessed, MarkFailed, MarkFailedFails, Fault
  <1>17. ASSUME NEW s \in Sweeps, MarkProcessedFails(s)  PROVE TypeOK'
    <2>1. RowTypeOK'
      BY <1>17, MarkRowType DEF MarkProcessedFails, WorkInv, SweepTypeOK
    <2>2. SweepTypeOK'
      BY <1>17 DEF MarkProcessedFails, SweepTypeOK, Places
    <2> QED BY <1>17, <2>1, <2>2 DEF MarkProcessedFails, HookTypeOK, EffectTypeOK,
                                     hookVars, effectVars, Fault
  <1>18. ASSUME NEW p \in Processes, NEW w \in Webhooks, NEW e \in Events,
                PostReturns(p, w, e)
         PROVE  TypeOK'
    <2>1. EffectTypeOK'
      <3>1. delivery[<<w, e>>] \in {"none", "created", "ok", "failed"}
        BY DEF EffectTypeOK, Pairs
      <3> QED BY <1>18, <3>1 DEF PostReturns, EffectTypeOK
    <2> QED BY <1>18, <2>1 DEF PostReturns, RowTypeOK, SweepTypeOK, HookTypeOK,
                               rowVars, sweepVars, hookVars
  <1>19. CASE UNCHANGED vars
    BY <1>19 DEF RowTypeOK, SweepTypeOK, EffectTypeOK, HookTypeOK, rowVars,
                 sweepVars, effectVars, hookVars
  <1> QED BY <1>1, <1>2, <1>3, <1>4, <1>5, <1>6, <1>7, <1>8, <1>9, <1>10, <1>11,
             <1>12, <1>13, <1>14, <1>15, <1>16, <1>17, <1>18, <1>19
          DEF Next, Advance

(* Every step keeps WorkInv.                                               *)
LEMMA NextWork ==
  ASSUME TypeOK, WorkInv, [Next]_vars
  PROVE  WorkInv'
  <1> USE OutboxAssumption DEF TypeOK, SweepTypeOK, Places, WorkInv, vars
  <1>1. CASE UNCHANGED sweepVars
    BY <1>1 DEF sweepVars
  <1>2. ASSUME NEW p \in Processes, Crash(p)  PROVE WorkInv'
    BY <1>2 DEF Crash, OutboxAssumption
  <1>3. ASSUME NEW s \in Sweeps,
               RecoverStaleLocks(s) \/ ClaimBatch(s) \/ ClaimAnswerLost(s)
        PROVE  WorkInv'
    BY <1>3 DEF RecoverStaleLocks, ClaimBatch, ClaimAnswerLost
  <1>4. ASSUME NEW s \in Sweeps, NEW e \in Events, FindWebhooks(s, e)  PROVE WorkInv'
    BY <1>4 DEF FindWebhooks
  <1>5. ASSUME NEW s \in Sweeps, NEW w \in Webhooks,
               CreateDelivery(s, w) \/ SkipDuplicate(s, w) \/ CreateFails(s, w)
        PROVE  WorkInv'
    BY <1>5 DEF CreateDelivery, SkipDuplicate, CreateFails, OutboxAssumption
  <1>6. ASSUME NEW s \in Sweeps, FirePost(s) \/ PushToGateway(s) \/ MarkProcessedFails(s)
        PROVE  WorkInv'
    BY <1>6 DEF FirePost, PushToGateway, MarkProcessedFails
  <1>7. ASSUME NEW s \in Sweeps, MarkProcessed(s) \/ MarkFailed(s) \/ MarkFailedFails(s)
        PROVE  WorkInv'
    BY <1>7 DEF MarkProcessed, MarkFailed, MarkFailedFails, FinishEvent
  <1> QED
    BY <1>1, <1>2, <1>3, <1>4, <1>5, <1>6, <1>7
    DEF Next, Advance, Publish, Retry, BackoffElapses, LeaseExpires,
        ToggleActive, PostReturns

(* The outbox's state is always well typed.                                *)
THEOREM TypeCorrect == Spec => [](TypeOK /\ WorkInv)
  <1>1. Init => TypeOK /\ WorkInv
    BY InitType
  <1>2. TypeOK /\ WorkInv /\ [Next]_vars => (TypeOK /\ WorkInv)'
    BY NextType, NextWork
  <1> QED BY <1>1, <1>2, PTL DEF Spec

-----------------------------------------------------------------------------
(* Rows that exist: nothing is claimed or reserved before it is committed. *)

Reserved(w, e) == delivery[<<w, e>>] # "none"

KnownInv ==
  /\ \A s \in Sweeps : \A e \in batch[s] : status[e] # "ABSENT"
  /\ \A w \in Webhooks, e \in Events : Reserved(w, e) => status[e] # "ABSENT"

(* The actions that write each column, read off the definition of Next.    *)
LEMMA StatusStep ==
  ASSUME [Next]_vars
  PROVE  \/ UNCHANGED status
         \/ \E e \in Events : Publish(e) \/ Retry(e)
         \/ \E s \in Sweeps :
              \/ RecoverStaleLocks(s) \/ ClaimBatch(s) \/ ClaimAnswerLost(s)
              \/ MarkProcessed(s) \/ MarkProcessedFails(s) \/ MarkFailed(s)
  BY DEF Next, Advance, BackoffElapses, LeaseExpires, ToggleActive, Crash,
         FindWebhooks, CreateDelivery, SkipDuplicate, CreateFails, FirePost,
         PushToGateway, MarkFailedFails, PostReturns, rowVars, vars

LEMMA BatchStep ==
  ASSUME [Next]_vars
  PROVE  \/ UNCHANGED batch
         \/ \E p \in Processes : Crash(p)
         \/ \E s \in Sweeps :
              ClaimBatch(s) \/ MarkProcessed(s) \/ MarkFailed(s) \/ MarkFailedFails(s)
  BY DEF Next, Advance, Publish, Retry, BackoffElapses, LeaseExpires,
         ToggleActive, RecoverStaleLocks, ClaimAnswerLost, FindWebhooks,
         CreateDelivery, SkipDuplicate, CreateFails, FirePost, PushToGateway,
         MarkProcessedFails, PostReturns, sweepVars, vars

LEMMA DeliveryStep ==
  ASSUME [Next]_vars
  PROVE  \/ UNCHANGED delivery
         \/ \E s \in Sweeps, w \in Webhooks : CreateDelivery(s, w) \/ CreateFails(s, w)
         \/ \E p \in Processes, w \in Webhooks, e \in Events : PostReturns(p, w, e)
  BY DEF Next, Advance, Publish, Retry, BackoffElapses, LeaseExpires,
         ToggleActive, Crash, RecoverStaleLocks, ClaimBatch, ClaimAnswerLost,
         FindWebhooks, SkipDuplicate, FirePost, PushToGateway, MarkProcessed,
         MarkProcessedFails, MarkFailed, MarkFailedFails, effectVars, vars

(* No step makes a row absent again.                                       *)
LEMMA NeverAbsentAgain ==
  ASSUME TypeOK, [Next]_vars, NEW e \in Events, status[e] # "ABSENT"
  PROVE  status'[e] # "ABSENT"
  <1> USE DEF TypeOK, RowTypeOK
  <1>1. ASSUME NEW d \in Events, Publish(d) \/ Retry(d)  PROVE status'[e] # "ABSENT"
    BY <1>1 DEF Publish, Retry
  <1>2. ASSUME NEW s \in Sweeps,
               RecoverStaleLocks(s) \/ ClaimBatch(s) \/ ClaimAnswerLost(s)
        PROVE  status'[e] # "ABSENT"
    BY <1>2 DEF RecoverStaleLocks, ClaimBatch, ClaimAnswerLost, ClaimRows
  <1>3. ASSUME NEW s \in Sweeps,
               MarkProcessed(s) \/ MarkFailed(s) \/ MarkProcessedFails(s)
        PROVE  status'[e] # "ABSENT"
    BY <1>3 DEF MarkProcessed, MarkFailed, MarkProcessedFails, MarkRowProcessed,
                MarkRowFailed, SetStatus, rowVars
  <1> QED BY <1>1, <1>2, <1>3, StatusStep

(* A delivery row is never deleted.                                        *)
LEMMA ReservedForGood ==
  ASSUME TypeOK, [Next]_vars, NEW w \in Webhooks, NEW e \in Events, Reserved(w, e)
  PROVE  Reserved(w, e)'
  <1> USE DEF TypeOK, EffectTypeOK, Pairs, Reserved
  <1>1. ASSUME NEW s \in Sweeps, NEW v \in Webhooks,
               CreateDelivery(s, v) \/ CreateFails(s, v)
        PROVE  Reserved(w, e)'
    BY <1>1 DEF CreateDelivery, CreateFails
  <1>2. ASSUME NEW p \in Processes, NEW v \in Webhooks, NEW d \in Events,
               PostReturns(p, v, d)
        PROVE  Reserved(w, e)'
    BY <1>2 DEF PostReturns
  <1> QED BY <1>1, <1>2, DeliveryStep

(* A batch only grows by claiming committed rows.                          *)
LEMMA BatchShrinks ==
  ASSUME TypeOK, [Next]_vars, NEW s \in Sweeps, NEW e \in batch'[s]
  PROVE  e \in batch[s] \/ (status[e] = "PENDING" /\ status'[e] = "PROCESSING")
  <1> USE DEF TypeOK, SweepTypeOK, RowTypeOK
  <1>1. ASSUME NEW p \in Processes, Crash(p)  PROVE e \in batch[s]
    BY <1>1 DEF Crash
  <1>2. ASSUME NEW t \in Sweeps, ClaimBatch(t)
        PROVE  e \in batch[s] \/ (status[e] = "PENDING" /\ status'[e] = "PROCESSING")
    BY <1>2 DEF ClaimBatch, ClaimRows, Claimable
  <1>3. ASSUME NEW t \in Sweeps, MarkProcessed(t) \/ MarkFailed(t) \/ MarkFailedFails(t)
        PROVE  e \in batch[s]
    <2>1. FinishEvent(t)
      BY <1>3 DEF MarkProcessed, MarkFailed, MarkFailedFails
    <2> QED BY <2>1 DEF FinishEvent
  <1> QED BY <1>1, <1>2, <1>3, BatchStep

-----------------------------------------------------------------------------
(* At most one POST per webhook and event.                                 *)

(* A sweep about to POST holds the only permission for its pair: the row   *)
(* it inserted.  Nobody has posted the pair and no other sweep is about to.*)
Firing(s, w, e) == firing[s] = w /\ current[s] = e

PostInv ==
  /\ \A w \in Webhooks, e \in Events :
       /\ posts[<<w, e>>] <= 1
       /\ posts[<<w, e>>] = 1 => Reserved(w, e)
       /\ \A s \in Sweeps : Firing(s, w, e) => Reserved(w, e) /\ posts[<<w, e>>] = 0
       /\ \A s, t \in Sweeps : Firing(s, w, e) /\ Firing(t, w, e) => s = t
  /\ \A p \in Processes, w \in Webhooks, e \in Events :
       <<p, w, e>> \in inflight => Reserved(w, e)

(* A step that starts or ends no POST.                                     *)
NoNewPost ==
  /\ UNCHANGED posts
  /\ inflight' \subseteq inflight
  /\ \A s \in Sweeps, w \in Webhooks, e \in Events :
       Firing(s, w, e)' => Firing(s, w, e)

LEMMA FiringStep ==
  ASSUME TypeOK, WorkInv, [Next]_vars
  PROVE  \/ \E s \in Sweeps, w \in Webhooks : CreateDelivery(s, w)
         \/ \E s \in Sweeps : FirePost(s)
         \/ NoNewPost
  <1>0. UNCHANGED <<firing, current, posts, inflight>> => NoNewPost
    BY DEF NoNewPost, Firing
  <1> USE OutboxAssumption DEF TypeOK, SweepTypeOK, WorkInv, Places
  <1>1. ASSUME NEW e \in Events,
               Publish(e) \/ Retry(e) \/ BackoffElapses(e) \/ LeaseExpires(e)
        PROVE  NoNewPost
    BY <1>0, <1>1 DEF Publish, Retry, BackoffElapses, LeaseExpires, sweepVars, effectVars
  <1>2. ASSUME NEW w \in Webhooks, ToggleActive(w)  PROVE NoNewPost
    BY <1>0, <1>2 DEF ToggleActive, sweepVars, effectVars
  <1>3. ASSUME NEW p \in Processes, Crash(p)  PROVE NoNewPost
    BY <1>3 DEF Crash, NoNewPost, Firing, OutboxAssumption
  <1>4. ASSUME NEW s \in Sweeps,
               \/ RecoverStaleLocks(s) \/ ClaimBatch(s) \/ ClaimAnswerLost(s)
               \/ PushToGateway(s) \/ MarkProcessedFails(s)
        PROVE  NoNewPost
    BY <1>0, <1>4 DEF RecoverStaleLocks, ClaimBatch, ClaimAnswerLost,
                      PushToGateway, MarkProcessedFails, effectVars
  <1>5. ASSUME NEW s \in Sweeps, NEW e \in Events, FindWebhooks(s, e)  PROVE NoNewPost
    <2>1. firing[s] = None /\ UNCHANGED <<posts, inflight, firing>>
      BY <1>5 DEF FindWebhooks, effectVars
    <2> QED BY <1>5, <2>1 DEF FindWebhooks, NoNewPost, Firing, OutboxAssumption
  <1>6. ASSUME NEW s \in Sweeps, NEW w \in Webhooks,
               SkipDuplicate(s, w) \/ CreateFails(s, w)
        PROVE  NoNewPost
    BY <1>0, <1>6 DEF SkipDuplicate, CreateFails, effectVars
  <1>7. ASSUME NEW s \in Sweeps, MarkProcessed(s) \/ MarkFailed(s) \/ MarkFailedFails(s)
        PROVE  NoNewPost
    <2>1. FinishEvent(s) /\ UNCHANGED <<posts, inflight>>
      BY <1>7 DEF MarkProcessed, MarkFailed, MarkFailedFails, effectVars
    <2> QED BY <2>1 DEF FinishEvent, NoNewPost, Firing, OutboxAssumption
  <1>8. ASSUME NEW p \in Processes, NEW w \in Webhooks, NEW e \in Events,
               PostReturns(p, w, e)
        PROVE  NoNewPost
    BY <1>8 DEF PostReturns, sweepVars, NoNewPost, Firing
  <1>9. CASE UNCHANGED vars
    BY <1>0, <1>9 DEF vars, sweepVars, effectVars
  <1> QED
    BY <1>1, <1>2, <1>3, <1>4, <1>5, <1>6, <1>7, <1>8, <1>9 DEF Next, Advance

(* Every step keeps PostInv.                                               *)
LEMMA NextPost ==
  ASSUME TypeOK, WorkInv, PostInv, [Next]_vars
  PROVE  PostInv'
  <1> USE DEF TypeOK
  <1>1. ASSUME NEW s \in Sweeps, NEW w \in Webhooks, CreateDelivery(s, w)  PROVE PostInv'
    <2> DEFINE d == current[s]
    <2>1. d \in Events /\ ~Reserved(w, d)
      BY <1>1 DEF CreateDelivery, WorkInv, SweepTypeOK, Reserved
    <2>2. posts[<<w, d>>] = 0 /\ \A t \in Sweeps : ~Firing(t, w, d)
      <3>1. posts[<<w, d>>] \in Nat /\ posts[<<w, d>>] <= 1
        BY <2>1 DEF PostInv, EffectTypeOK, Pairs
      <3> HIDE DEF d
      <3> QED BY <2>1, <3>1 DEF PostInv
    <2>3. UNCHANGED <<posts, inflight, current>> /\ firing' = [firing EXCEPT ![s] = w]
      BY <1>1 DEF CreateDelivery
    <2>4. Reserved(w, d)'
      BY <1>1, <2>1 DEF CreateDelivery, Reserved, EffectTypeOK, Pairs
    <2>5. \A v \in Webhooks, e \in Events : Reserved(v, e) => Reserved(v, e)'
      BY ReservedForGood
    <2>6. \A t \in Sweeps, v \in Webhooks, e \in Events :
            Firing(t, v, e)' <=> IF t = s THEN v = w /\ e = d ELSE Firing(t, v, e)
      BY <2>3 DEF Firing, SweepTypeOK
    <2> QED BY <2>2, <2>3, <2>4, <2>5, <2>6 DEF PostInv
  <1>2. ASSUME NEW s \in Sweeps, FirePost(s)  PROVE PostInv'
    <2> DEFINE w == firing[s]
               e == current[s]
    <2>1. w \in Webhooks /\ e \in Events /\ Firing(s, w, e)
      BY <1>2 DEF FirePost, WorkInv, SweepTypeOK, Firing
    <2>2. UNCHANGED <<delivery, current>> /\ firing' = [firing EXCEPT ![s] = None]
      BY <1>2 DEF FirePost
    <2>3. posts' = [posts EXCEPT ![<<w, e>>] = 1]
      <3>1. posts[<<w, e>>] = 0
        BY <2>1 DEF PostInv
      <3> QED BY <1>2, <3>1 DEF FirePost
    <2>4. \A t \in Sweeps, v \in Webhooks, d \in Events :
            Firing(t, v, d)' <=> t # s /\ Firing(t, v, d)
      BY <2>2, OutboxAssumption DEF Firing, SweepTypeOK, OutboxAssumption
    <2>5. \A v \in Webhooks, d \in Events :
            posts'[<<v, d>>] = IF v = w /\ d = e THEN 1 ELSE posts[<<v, d>>]
      BY <2>1, <2>3 DEF EffectTypeOK, Pairs
    <2>6. \A p \in Processes, v \in Webhooks, d \in Events :
            <<p, v, d>> \in inflight' =>
              <<p, v, d>> \in inflight \/ (v = w /\ d = e)
      BY <1>2 DEF FirePost
    <2>7. \A v \in Webhooks, d \in Events : Reserved(v, d)' <=> Reserved(v, d)
      BY <2>2 DEF Reserved
    <2> HIDE DEF w, e
    <2>8. Reserved(w, e)
      BY <2>1 DEF PostInv
    <2>9. ASSUME NEW v \in Webhooks, NEW d \in Events
          PROVE  /\ posts'[<<v, d>>] <= 1
                 /\ posts'[<<v, d>>] = 1 => Reserved(v, d)
                 /\ \A t \in Sweeps : Firing(t, v, d)' => Reserved(v, d) /\ posts'[<<v, d>>] = 0
                 /\ \A t, u \in Sweeps : Firing(t, v, d)' /\ Firing(u, v, d)' => t = u
      BY <2>1, <2>4, <2>5, <2>8 DEF PostInv
    <2> QED BY <2>6, <2>7, <2>8, <2>9 DEF PostInv
  <1>3. CASE NoNewPost
    <2>1. \A v \in Webhooks, e \in Events : Reserved(v, e) => Reserved(v, e)'
      BY ReservedForGood
    <2> QED BY <1>3, <2>1 DEF NoNewPost, PostInv
  <1> QED BY <1>1, <1>2, <1>3, FiringStep

(* Every step keeps KnownInv.                                              *)
LEMMA NextKnown ==
  ASSUME TypeOK, WorkInv, PostInv, KnownInv, [Next]_vars
  PROVE  KnownInv'
  <1> USE DEF TypeOK, KnownInv
  <1>1. ASSUME NEW s \in Sweeps, NEW e \in batch'[s]  PROVE status'[e] # "ABSENT"
    BY <1>1, BatchShrinks, NeverAbsentAgain DEF SweepTypeOK
  <1>2. ASSUME NEW w \in Webhooks, NEW e \in Events, Reserved(w, e)'
        PROVE  status'[e] # "ABSENT"
    <2> SUFFICES ASSUME ~Reserved(w, e)  PROVE status[e] # "ABSENT"
      BY NeverAbsentAgain
    <2> USE DEF Reserved, EffectTypeOK, Pairs
    <2>1. ASSUME NEW s \in Sweeps, NEW v \in Webhooks,
                 CreateDelivery(s, v) \/ CreateFails(s, v)
          PROVE  status[e] # "ABSENT"
      <3>1. current[s] \in batch[s] /\ current[s] \in Events
        BY <2>1 DEF WorkInv, SweepTypeOK, CreateDelivery, CreateFails
      <3>2. current[s] = e
        BY <1>2, <2>1 DEF CreateDelivery, CreateFails
      <3> QED BY <3>1, <3>2
    <2>2. ASSUME NEW p \in Processes, NEW v \in Webhooks, NEW d \in Events,
                 PostReturns(p, v, d)
          PROVE  status[e] # "ABSENT"
      <3>1. Reserved(v, d)
        BY <2>2 DEF PostReturns, PostInv
      <3>2. w = v /\ e = d
        BY <1>2, <2>2 DEF PostReturns
      <3> QED BY <3>1, <3>2
    <2> QED BY <1>2, <2>1, <2>2, DeliveryStep
  <1> QED BY <1>1, <1>2

-----------------------------------------------------------------------------
(* A PROCESSED event was fanned out completely.                            *)

(* Whatever dispatch has not yet handled is still on its list, for every   *)
(* webhook that stayed active since the event was committed.               *)
Covered(s, e) == \A w \in subscribed[e] : w \in todo[s] \/ Reserved(w, e)

CoverInv ==
  /\ \A e \in Events : subscribed[e] \subseteq active \cap Subscribers[e]
  /\ \A s \in Sweeps :
       /\ pc[s] \in {"dispatch", "fire", "ack"} => Covered(s, current[s])
       /\ pc[s] = "ack" => todo[s] = {} /\ current[s] \in pushed
  /\ ProcessedIsComplete

(* The steps that change what an event is owed.                            *)
LEMMA SubscribedStep ==
  ASSUME TypeOK, [Next]_vars
  PROVE  \/ UNCHANGED <<subscribed, active>>
         \/ \E e \in Events : Publish(e)
         \/ \E w \in Webhooks : ToggleActive(w)
  <1>1. ASSUME NEW s \in Sweeps,
               \/ Advance(s) \/ ClaimAnswerLost(s)
               \/ MarkProcessedFails(s) \/ MarkFailedFails(s)
        PROVE  UNCHANGED <<subscribed, active>>
    BY <1>1 DEF Advance, RecoverStaleLocks, ClaimBatch, ClaimAnswerLost,
         FindWebhooks, CreateDelivery, SkipDuplicate, CreateFails, FirePost,
         PushToGateway, MarkProcessed, MarkProcessedFails, MarkFailed,
         MarkFailedFails, hookVars
  <1>2. ASSUME NEW e \in Events, Retry(e) \/ BackoffElapses(e) \/ LeaseExpires(e)
        PROVE  UNCHANGED <<subscribed, active>>
    BY <1>2 DEF Retry, BackoffElapses, LeaseExpires, hookVars
  <1>3. ASSUME NEW p \in Processes,
               Crash(p) \/ \E w \in Webhooks, e \in Events : PostReturns(p, w, e)
        PROVE  UNCHANGED <<subscribed, active>>
    BY <1>3 DEF Crash, PostReturns, hookVars
  <1>4. CASE UNCHANGED vars
    BY <1>4 DEF hookVars, vars
  <1> QED BY <1>1, <1>2, <1>3, <1>4 DEF Next

(* What a committed event is owed only shrinks, and always lies within the *)
(* active subscribers.                                                     *)
LEMMA SubscribedShrinks ==
  ASSUME TypeOK, CoverInv, [Next]_vars
  PROVE  /\ \A e \in Events : status[e] # "ABSENT" => subscribed'[e] \subseteq subscribed[e]
         /\ \A e \in Events : subscribed'[e] \subseteq active' \cap Subscribers[e]
  <1> USE DEF TypeOK, HookTypeOK, CoverInv
  <1>1. ASSUME NEW e \in Events, Publish(e)
        PROVE  /\ \A d \in Events : status[d] # "ABSENT" => subscribed'[d] = subscribed[d]
               /\ \A d \in Events : subscribed'[d] \subseteq active' \cap Subscribers[d]
    BY <1>1 DEF Publish
  <1>2. ASSUME NEW w \in Webhooks, ToggleActive(w)
        PROVE  /\ \A d \in Events : subscribed'[d] \subseteq subscribed[d]
               /\ \A d \in Events : subscribed'[d] \subseteq active' \cap Subscribers[d]
    BY <1>2 DEF ToggleActive
  <1> QED BY <1>1, <1>2, SubscribedStep

(* Inside dispatch a sweep moves only by its own steps.                    *)
LEMMA DispatchStep ==
  ASSUME TypeOK, [Next]_vars, NEW s \in Sweeps, pc'[s] \in {"dispatch", "fire", "ack"}
  PROVE  \/ \E e \in Events : FindWebhooks(s, e)
         \/ \E w \in Webhooks : CreateDelivery(s, w) \/ SkipDuplicate(s, w)
         \/ FirePost(s) \/ PushToGateway(s)
         \/ UNCHANGED <<pc[s], current[s], todo[s]>>
  <1> DEFINE Still == UNCHANGED <<pc[s], current[s], todo[s]>>
  <1> USE DEF TypeOK, SweepTypeOK, Places
  <1>1. CASE UNCHANGED <<pc, current, todo>>
    BY <1>1
  <1>2. ASSUME NEW p \in Processes, Crash(p)  PROVE Still
    BY <1>2 DEF Crash
  <1>3. ASSUME NEW t \in Sweeps,
               \/ RecoverStaleLocks(t) \/ ClaimBatch(t) \/ ClaimAnswerLost(t)
               \/ MarkProcessedFails(t)
        PROVE  Still
    BY <1>3 DEF RecoverStaleLocks, ClaimBatch, ClaimAnswerLost, MarkProcessedFails
  <1>4. ASSUME NEW t \in Sweeps, NEW w \in Webhooks, CreateFails(t, w)  PROVE Still
    BY <1>4 DEF CreateFails
  <1>5. ASSUME NEW t \in Sweeps, MarkProcessed(t) \/ MarkFailed(t) \/ MarkFailedFails(t)
        PROVE  Still
    <2>1. FinishEvent(t)
      BY <1>5 DEF MarkProcessed, MarkFailed, MarkFailedFails
    <2> QED BY <2>1 DEF FinishEvent
  <1>6. ASSUME NEW t \in Sweeps \ {s}, NEW e \in Events, FindWebhooks(t, e)  PROVE Still
    BY <1>6 DEF FindWebhooks
  <1>7. ASSUME NEW t \in Sweeps \ {s}, NEW w \in Webhooks,
               CreateDelivery(t, w) \/ SkipDuplicate(t, w)
        PROVE  Still
    BY <1>7 DEF CreateDelivery, SkipDuplicate
  <1>8. ASSUME NEW t \in Sweeps \ {s}, FirePost(t) \/ PushToGateway(t)  PROVE Still
    BY <1>8 DEF FirePost, PushToGateway
  <1>9. ASSUME NEW e \in Events,
               Publish(e) \/ Retry(e) \/ BackoffElapses(e) \/ LeaseExpires(e)
        PROVE  Still
    BY <1>1, <1>9 DEF Publish, Retry, BackoffElapses, LeaseExpires, sweepVars
  <1>10. ASSUME NEW w \in Webhooks, ToggleActive(w)  PROVE Still
    BY <1>1, <1>10 DEF ToggleActive, sweepVars
  <1>11. ASSUME NEW p \in Processes, NEW w \in Webhooks, NEW e \in Events,
                PostReturns(p, w, e)
         PROVE  Still
    BY <1>1, <1>11 DEF PostReturns, sweepVars
  <1>12. ASSUME UNCHANGED vars  PROVE Still
    BY <1>12 DEF sweepVars, vars
  <1> HIDE DEF Still
  <1>13. \/ \E e \in Events : FindWebhooks(s, e)
         \/ \E w \in Webhooks : CreateDelivery(s, w) \/ SkipDuplicate(s, w)
         \/ FirePost(s) \/ PushToGateway(s)
         \/ Still
    BY <1>2, <1>3, <1>4, <1>5, <1>6, <1>7, <1>8, <1>9, <1>10, <1>11, <1>12
    DEF Next, Advance
  <1> QED BY <1>13 DEF Still

(* The gateway's broadcasts are never undone.                              *)
LEMMA PushedGrows ==
  ASSUME TypeOK, [Next]_vars
  PROVE  pushed \subseteq pushed'
  <1>1. ASSUME NEW s \in Sweeps,
               \/ Advance(s) \/ ClaimAnswerLost(s)
               \/ MarkProcessedFails(s) \/ MarkFailedFails(s)
        PROVE  pushed \subseteq pushed'
    BY <1>1 DEF Advance, RecoverStaleLocks, ClaimBatch, ClaimAnswerLost,
         FindWebhooks, CreateDelivery, SkipDuplicate, CreateFails, FirePost,
         PushToGateway, MarkProcessed, MarkProcessedFails, MarkFailed,
         MarkFailedFails, effectVars
  <1>2. CASE UNCHANGED pushed
    BY <1>2
  <1> QED
    BY <1>1, <1>2 DEF Next, Publish, Retry, BackoffElapses, LeaseExpires,
         ToggleActive, Crash, PostReturns, effectVars, vars

(* A sweep keeps covering its event until it leaves it.                    *)
LEMMA NextCovered ==
  ASSUME TypeOK, WorkInv, KnownInv, CoverInv, [Next]_vars,
         NEW s \in Sweeps, pc'[s] \in {"dispatch", "fire", "ack"}
  PROVE  /\ Covered(s, current[s])'
         /\ pc'[s] = "ack" => todo'[s] = {} /\ current'[s] \in pushed'
  <1> USE DEF TypeOK, SweepTypeOK, HookTypeOK, Covered
  <1>1. \A w \in Webhooks, e \in Events : Reserved(w, e) => Reserved(w, e)'
    BY ReservedForGood
  <1>2. CASE UNCHANGED <<pc[s], current[s], todo[s]>>
    <2>1. current[s] \in Events /\ status[current[s]] # "ABSENT"
      BY <1>2 DEF WorkInv, KnownInv
    <2> QED BY <1>1, <1>2, <2>1, SubscribedShrinks, PushedGrows DEF CoverInv
  <1>3. CASE \E e \in Events : FindWebhooks(s, e)
    <2> PICK e \in Events : FindWebhooks(s, e)
      BY <1>3
    <2>1. /\ pc'[s] = "dispatch" /\ current'[s] = e
          /\ todo'[s] = active \cap Subscribers[e] /\ UNCHANGED subscribed
      BY DEF FindWebhooks, hookVars
    <2> QED BY <2>1 DEF CoverInv
  <1>4. CASE \E w \in Webhooks : CreateDelivery(s, w) \/ SkipDuplicate(s, w)
    <2> PICK w \in Webhooks : CreateDelivery(s, w) \/ SkipDuplicate(s, w)
      BY <1>4
    <2>1. current[s] \in Events /\ status[current[s]] # "ABSENT"
      BY DEF WorkInv, KnownInv, CreateDelivery, SkipDuplicate
    <2>2. Reserved(w, current[s])'
      BY <2>1 DEF Reserved, EffectTypeOK, Pairs, CreateDelivery, SkipDuplicate, effectVars
    <2>3. /\ pc[s] = "dispatch" /\ pc'[s] # "ack" /\ UNCHANGED <<current, subscribed>>
          /\ todo'[s] = todo[s] \ {w}
      BY DEF CreateDelivery, SkipDuplicate, hookVars
    <2> QED BY <1>1, <2>1, <2>2, <2>3 DEF CoverInv
  <1>5. CASE FirePost(s) \/ PushToGateway(s)
    <2>1. /\ pc[s] \in {"dispatch", "fire"} /\ UNCHANGED <<current, todo, subscribed, delivery>>
          /\ pc'[s] = "ack" => todo[s] = {} /\ pushed' = pushed \cup {current[s]}
      BY <1>5 DEF FirePost, PushToGateway, hookVars
    <2> QED BY <1>1, <2>1 DEF CoverInv, Reserved
  <1> QED BY <1>2, <1>3, <1>4, <1>5, DispatchStep, PushedGrows

(* Every step keeps CoverInv.                                              *)
LEMMA NextCover ==
  ASSUME TypeOK, WorkInv, KnownInv, CoverInv, [Next]_vars
  PROVE  CoverInv'
  <1> USE DEF TypeOK, RowTypeOK
  <1>1. ASSUME NEW e \in Events, status'[e] = "PROCESSED"
        PROVE  e \in pushed' /\ \A w \in subscribed'[e] : Reserved(w, e)'
    <2>1. \A w \in subscribed[e] : Reserved(w, e) => Reserved(w, e)'
      BY ReservedForGood DEF HookTypeOK
    <2>2. CASE status[e] = "PROCESSED"
      BY <2>1, <2>2, SubscribedShrinks, PushedGrows
      DEF CoverInv, ProcessedIsComplete, Reserved
    <2>3. CASE status[e] # "PROCESSED"
      <3>1. ASSUME NEW d \in Events, Publish(d) \/ Retry(d)  PROVE FALSE
        BY <1>1, <2>3, <3>1 DEF Publish, Retry
      <3>2. ASSUME NEW s \in Sweeps,
                   RecoverStaleLocks(s) \/ ClaimBatch(s) \/ ClaimAnswerLost(s) \/ MarkFailed(s)
            PROVE  FALSE
        BY <1>1, <2>3, <3>2 DEF RecoverStaleLocks, ClaimBatch, ClaimAnswerLost,
             ClaimRows, MarkFailed, MarkRowFailed, SetStatus, rowVars
      <3>3. ASSUME NEW s \in Sweeps, MarkProcessed(s) \/ MarkProcessedFails(s)
            PROVE  e \in pushed' /\ \A w \in subscribed'[e] : Reserved(w, e)'
        <4>1. pc[s] = "ack" /\ e = current[s]
          BY <1>1, <2>3, <3>3 DEF MarkProcessed, MarkProcessedFails,
               MarkRowProcessed, SetStatus, rowVars
        <4>2. e \in pushed /\ \A w \in subscribed[e] : Reserved(w, e)
          BY <4>1 DEF CoverInv, Covered
        <4>3. status[e] # "ABSENT"
          BY <4>1 DEF WorkInv, KnownInv
        <4> QED BY <2>1, <4>2, <4>3, SubscribedShrinks, PushedGrows
      <3> QED BY <1>1, <2>3, <3>1, <3>2, <3>3, StatusStep
    <2> QED BY <2>2, <2>3
  <1> QED BY <1>1, NextCovered, SubscribedShrinks
          DEF CoverInv, ProcessedIsComplete, Reserved

-----------------------------------------------------------------------------
(* While no lease outlives its sweep.                                      *)

(* The row of a claimed event is as its sweep left it: PROCESSING, or      *)
(* PROCESSED by a write whose answer was lost; and the attempt number the  *)
(* sweep remembers is the row's.                                           *)
ClaimInv ==
  outlived = 0 =>
    /\ \A s \in Sweeps : \A e \in batch[s] :
         /\ status[e] \in {"PROCESSING", "PROCESSED"}
         /\ lease[e] # "expired"
         /\ seen[s][e] = attempts[e]
    /\ \A s, t \in Sweeps : s # t => batch[s] \cap batch[t] = {}
    /\ \A e \in Events : status[e] = "DEAD" => attempts[e] >= MaxAttempts

(* Every step keeps ClaimInv.                                              *)
LEMMA NextClaim ==
  ASSUME TypeOK, WorkInv, KnownInv, ClaimInv, [Next]_vars
  PROVE  ClaimInv'
  <1> USE DEF TypeOK, RowTypeOK, SweepTypeOK, ClaimInv
  <1>1. CASE UNCHANGED <<status, lease, attempts, batch, seen, outlived>>
    BY <1>1
  <1>2. ASSUME NEW e \in Events, Publish(e) \/ Retry(e)  PROVE ClaimInv'
    <2> SUFFICES ASSUME outlived = 0  PROVE ClaimInv'
      BY <1>2 DEF Publish, Retry
    <2>1. \A s \in Sweeps : e \notin batch[s]
      BY <1>2 DEF Publish, Retry
    <2>2. /\ UNCHANGED <<lease, batch, seen>> /\ status'[e] = "PENDING"
          /\ \A d \in Events : d # e => status'[d] = status[d] /\ attempts'[d] = attempts[d]
      BY <1>2 DEF Publish, Retry, sweepVars
    <2>3. ASSUME NEW s \in Sweeps, NEW d \in batch'[s]
          PROVE  /\ status'[d] \in {"PROCESSING", "PROCESSED"}
                 /\ lease'[d] # "expired"
                 /\ seen'[s][d] = attempts'[d]
      BY <2>1, <2>2
    <2>4. \A d \in Events : status'[d] = "DEAD" => attempts'[d] >= MaxAttempts
      BY <2>2
    <2>5. \A s, t \in Sweeps : s # t => batch'[s] \cap batch'[t] = {}
      BY <2>2
    <2> QED BY <2>3, <2>4, <2>5
  <1>3. ASSUME NEW e \in Events, LeaseExpires(e)  PROVE ClaimInv'
    BY <1>3 DEF LeaseExpires, Held, sweepVars
  <1>4. ASSUME NEW p \in Processes, Crash(p)  PROVE ClaimInv'
    BY <1>4 DEF Crash, rowVars
  <1>5. ASSUME NEW s \in Sweeps, RecoverStaleLocks(s)  PROVE ClaimInv'
    BY <1>5 DEF RecoverStaleLocks
  <1>6. ASSUME NEW s \in Sweeps, ClaimBatch(s)  PROVE ClaimInv'
    <2> PICK B \in SUBSET Claimable : ClaimBatch(s)!(B)
      BY <1>6 DEF ClaimBatch
    <2> SUFFICES ASSUME outlived = 0  PROVE ClaimInv'
      OBVIOUS
    <2>1. \A t \in Sweeps : batch[t] \cap B = {}
      BY DEF Claimable
    <2> QED BY <2>1 DEF ClaimRows, Claimable
  <1>7. ASSUME NEW s \in Sweeps, ClaimAnswerLost(s)  PROVE ClaimInv'
    <2> PICK B \in SUBSET Claimable : ClaimAnswerLost(s)!(B)
      BY <1>7 DEF ClaimAnswerLost
    <2> SUFFICES ASSUME outlived = 0  PROVE ClaimInv'
      OBVIOUS
    <2>1. \A t \in Sweeps : batch[t] \cap B = {}
      BY DEF Claimable
    <2> QED BY <2>1 DEF ClaimRows, Claimable
  <1>8. ASSUME NEW s \in Sweeps, MarkProcessed(s) \/ MarkFailed(s) \/ MarkFailedFails(s)
        PROVE  ClaimInv'
    <2> DEFINE e == current[s]
    <2> SUFFICES ASSUME outlived = 0  PROVE ClaimInv'
      BY <1>8 DEF MarkProcessed, MarkFailed, MarkFailedFails
    <2>1. e \in batch[s] /\ e \in Events
      BY <1>8 DEF MarkProcessed, MarkFailed, MarkFailedFails, WorkInv
    <2>2. /\ batch' = [batch EXCEPT ![s] = @ \ {e}]
          /\ \A t \in Sweeps, d \in Events : d # e => seen'[t][d] = seen[t][d]
      BY <1>8, <2>1 DEF MarkProcessed, MarkFailed, MarkFailedFails, FinishEvent
    <2>3. /\ UNCHANGED attempts
          /\ \A d \in Events : d # e => status'[d] = status[d] /\ lease'[d] = lease[d]
          /\ status'[e] = "DEAD" => attempts[e] >= MaxAttempts
      BY <1>8, <2>1 DEF MarkProcessed, MarkFailed, MarkFailedFails, MarkRowProcessed,
           MarkRowFailed, SetStatus, rowVars
    <2> HIDE DEF e
    <2>4. \A t \in Sweeps : e \notin batch'[t]
      BY <2>1, <2>2
    <2> QED BY <2>1, <2>2, <2>3, <2>4
  <1>9. ASSUME NEW s \in Sweeps, MarkProcessedFails(s)  PROVE ClaimInv'
    BY <1>9 DEF MarkProcessedFails, MarkRowProcessed, SetStatus, rowVars
  <1> QED
    BY <1>1, <1>2, <1>3, <1>4, <1>5, <1>6, <1>7, <1>8, <1>9
    DEF Next, Advance, BackoffElapses, ToggleActive, FindWebhooks, CreateDelivery,
        SkipDuplicate, CreateFails, FirePost, PushToGateway, PostReturns,
        rowVars, sweepVars, vars

-----------------------------------------------------------------------------
(* The inductive invariant and its consequences.                           *)

IInv == TypeOK /\ WorkInv /\ PostInv /\ KnownInv /\ CoverInv /\ ClaimInv

(* The inductive invariant holds in every reachable state.                 *)
THEOREM Invariance == Spec => []IInv
  <1>1. Init => IInv
    BY InitType, OutboxAssumption
    DEF Init, IInv, PostInv, KnownInv, CoverInv, ClaimInv, ProcessedIsComplete,
        Firing, Reserved, Pairs, OutboxAssumption
  <1>2. IInv /\ [Next]_vars => IInv'
    BY NextType, NextWork, NextPost, NextKnown, NextCover, NextClaim DEF IInv
  <1> QED BY <1>1, <1>2, PTL DEF Spec

(* No webhook is POSTed the same event twice, however many sweeps, stale   *)
(* leases, crashes, retries and lost answers there are.                    *)
THEOREM AtMostOnePostHolds == Spec => []AtMostOnePost
  <1>1. IInv => AtMostOnePost
    BY DEF IInv, PostInv, AtMostOnePost, Pairs
  <1> QED BY <1>1, Invariance, PTL

(* A PROCESSED event was pushed and reserved for all it was owed to.       *)
THEOREM ProcessedIsCompleteHolds == Spec => []ProcessedIsComplete
  <1>1. IInv => ProcessedIsComplete
    BY DEF IInv, CoverInv
  <1> QED BY <1>1, Invariance, PTL

(* Two sweeps share an event only after a lease outlived its sweep.        *)
THEOREM OneClaimPerEventHolds == Spec => []OneClaimPerEvent
  <1>1. IInv => OneClaimPerEvent
    BY DEF IInv, ClaimInv, OneClaimPerEvent
  <1> QED BY <1>1, Invariance, PTL

(* Under the same premise dead-lettered events have spent their budget.    *)
THEOREM DeadSpentBudgetHolds == Spec => []DeadSpentBudget
  <1>1. IInv => DeadSpentBudget
    BY DEF IInv, ClaimInv, DeadSpentBudget
  <1> QED BY <1>1, Invariance, PTL

(* Settled events stay settled until an operator retries a dead one.       *)
THEOREM SettledStaysSettledHolds == Spec => SettledStaysSettled
  <1> DEFINE Stays == \A e \in Events :
        /\ status[e] = "PROCESSED" => status'[e] = "PROCESSED"
        /\ status[e] = "DEAD" /\ status'[e] # "DEAD" => retries' > retries
  <1>1. ASSUME IInv, Next  PROVE Stays
    <2> USE <1>1 DEF IInv, TypeOK, RowTypeOK
    <2>1. CASE UNCHANGED status
      BY <2>1
    <2>2. ASSUME NEW e \in Events, Publish(e)  PROVE Stays
      BY <2>2 DEF Publish
    <2>3. ASSUME NEW e \in Events, Retry(e)  PROVE Stays
      <3>1. retries' > retries /\ status[e] = "DEAD"
        BY <2>3 DEF Retry
      <3>2. \A d \in Events : d # e => status'[d] = status[d]
        BY <2>3 DEF Retry
      <3> QED BY <3>1, <3>2
    <2>4. ASSUME NEW s \in Sweeps,
                 RecoverStaleLocks(s) \/ ClaimBatch(s) \/ ClaimAnswerLost(s)
          PROVE  Stays
      BY <2>4 DEF RecoverStaleLocks, ClaimBatch, ClaimAnswerLost, ClaimRows, Claimable
    <2>5. ASSUME NEW s \in Sweeps,
                 MarkProcessed(s) \/ MarkProcessedFails(s) \/ MarkFailed(s)
          PROVE  Stays
      <3>1. \A e \in Events : status[e] # "PROCESSING" => status'[e] = status[e]
        BY <2>5 DEF MarkProcessed, MarkProcessedFails, MarkFailed, MarkRowProcessed,
                    MarkRowFailed, SetStatus, rowVars
      <3> QED BY <3>1
    <2> QED BY <1>1, <2>1, <2>2, <2>3, <2>4, <2>5, StatusStep
  <1>2. IInv /\ [Next]_vars => [Stays]_vars
    BY <1>1
  <1> QED BY <1>2, Invariance, PTL DEF Spec, SettledStaysSettled

-----------------------------------------------------------------------------
(* The processor implements EventLedger.                                   *)

LedgerPhase == [e \in Events |-> Phase(status[e])]
LedgerReserved == {d \in Pairs : delivery[d] # "none"}

(* The ledger's own view of a step, in the processor's variables.          *)
LEMMA LedgerMap ==
  /\ Ledger!Init <=> /\ LedgerPhase = [e \in Events |-> "absent"]
                     /\ subscribed = [e \in Events |-> {}]
                     /\ LedgerReserved = {}
                     /\ posts = [d \in Webhooks \X Events |-> 0]
  /\ UNCHANGED <<status, subscribed, delivery, posts>> => UNCHANGED Ledger!ledgerVars
  BY DEF Ledger!Init, Ledger!ledgerVars, LedgerPhase, LedgerReserved

(* Every step of the processor is a step of the ledger or invisible.       *)
LEMMA LedgerStep ==
  ASSUME IInv, IInv', [Next]_vars
  PROVE  [Ledger!Next]_(Ledger!ledgerVars)
  <1> DEFINE Implements == [Ledger!Next]_(Ledger!ledgerVars)
  <1> USE DEF IInv, TypeOK
  <1>1. UNCHANGED <<status, subscribed, delivery, posts>> => Implements
    BY LedgerMap
  <1>2. ASSUME NEW e \in Events, Publish(e)  PROVE Implements
    <2>1. Ledger!Accept(e)
      BY <1>2 DEF Publish, Ledger!Accept, Ledger!Move, Phase, RowTypeOK, HookTypeOK,
                  effectVars, OutboxAssumption
    <2> QED BY <2>1 DEF Ledger!Next
  <1>3. ASSUME NEW e \in Events, Retry(e)  PROVE Implements
    <2>1. Ledger!Requeue(e)
      BY <1>3 DEF Retry, Ledger!Requeue, Ledger!Move, Phase, RowTypeOK,
                  effectVars, hookVars
    <2> QED BY <2>1 DEF Ledger!Next
  <1>4. ASSUME NEW w \in Webhooks, ToggleActive(w)  PROVE Implements
    <2>1. CASE w \in active
      <3>1. Ledger!Release(w)
        BY <1>4, <2>1 DEF ToggleActive, Ledger!Release, rowVars, effectVars
      <3> QED BY <3>1 DEF Ledger!Next
    <2>2. CASE w \notin active
      BY <1>1, <1>4, <2>2 DEF ToggleActive, rowVars, effectVars
    <2> QED BY <2>1, <2>2
  <1>5. ASSUME NEW s \in Sweeps, RecoverStaleLocks(s) \/ ClaimBatch(s) \/ ClaimAnswerLost(s)
        PROVE  Implements
    <2>1. \A e \in Events : Phase(status'[e]) = Phase(status[e])
      BY <1>5 DEF RecoverStaleLocks, ClaimBatch, ClaimAnswerLost, ClaimRows,
                  Claimable, Phase, RowTypeOK
    <2>2. UNCHANGED <<subscribed, delivery, posts>>
      BY <1>5 DEF RecoverStaleLocks, ClaimBatch, ClaimAnswerLost, hookVars, effectVars
    <2> QED BY <2>1, <2>2 DEF Ledger!ledgerVars
  <1>6. ASSUME NEW s \in Sweeps, NEW w \in Webhooks,
               CreateDelivery(s, w) \/ CreateFails(s, w), ~UNCHANGED delivery
        PROVE  Implements
    <2>1. current[s] \in Events /\ status[current[s]] # "ABSENT"
      BY <1>6 DEF CreateDelivery, CreateFails, WorkInv, KnownInv, SweepTypeOK
    <2> PICK e \in Events : e = current[s]
      BY <2>1
    <2>2. /\ delivery[<<w, e>>] = "none"
          /\ delivery' = [delivery EXCEPT ![<<w, e>>] = "created"]
          /\ UNCHANGED <<status, subscribed, posts>>
      BY <1>6 DEF CreateDelivery, CreateFails, rowVars, hookVars
    <2>3. LedgerReserved' = LedgerReserved \cup {<<w, e>>} /\ <<w, e>> \notin LedgerReserved
      BY <2>2 DEF LedgerReserved, EffectTypeOK, Pairs
    <2>4. LedgerPhase[e] # "absent"
      BY <2>1 DEF LedgerPhase, Phase, RowTypeOK
    <2>5. Ledger!Reserve(w, e)
      BY <2>2, <2>3, <2>4 DEF Ledger!Reserve, LedgerReserved, LedgerPhase
    <2> QED BY <2>5 DEF Ledger!Next
  <1>7. ASSUME NEW s \in Sweeps, FirePost(s)  PROVE Implements
    <2> DEFINE w == firing[s]
               e == current[s]
    <2>1. w \in Webhooks /\ e \in Events
      BY <1>7 DEF FirePost, WorkInv, SweepTypeOK
    <2>2. Reserved(w, e) /\ posts[<<w, e>>] = 0
      BY <2>1 DEF PostInv, Firing
    <2>3. posts' = [posts EXCEPT ![<<w, e>>] = 1] /\ UNCHANGED <<status, subscribed, delivery>>
      BY <1>7, <2>2 DEF FirePost, rowVars, hookVars
    <2> HIDE DEF w, e
    <2>4. Ledger!Post(w, e)
      BY <2>1, <2>2, <2>3 DEF Ledger!Post, Reserved, Pairs
    <2> QED BY <2>1, <2>4 DEF Ledger!Next
  <1>8. ASSUME NEW p \in Processes, NEW w \in Webhooks, NEW e \in Events,
               PostReturns(p, w, e)
        PROVE  Implements
    <2>1. delivery[<<w, e>>] # "none"
      BY <1>8 DEF PostReturns, PostInv, Reserved
    <2>2. LedgerReserved' = LedgerReserved
      BY <1>8, <2>1 DEF PostReturns, LedgerReserved, EffectTypeOK, Pairs
    <2>3. UNCHANGED <<status, subscribed, posts>>
      BY <1>8 DEF PostReturns, rowVars, hookVars
    <2> QED BY <2>2, <2>3 DEF Ledger!ledgerVars, LedgerReserved
  <1>9. ASSUME NEW s \in Sweeps,
               MarkProcessed(s) \/ MarkProcessedFails(s) \/ MarkFailed(s),
               ~UNCHANGED status
        PROVE  Implements
    <2> DEFINE e == current[s]
    <2>1. e \in Events /\ status[e] = "PROCESSING" /\ UNCHANGED <<subscribed, delivery, posts>>
      BY <1>9 DEF MarkProcessed, MarkProcessedFails, MarkFailed, MarkRowProcessed,
                  MarkRowFailed, rowVars, hookVars, effectVars, WorkInv, SweepTypeOK
    <2>2. PICK to \in {"PROCESSED", "DEAD", "PENDING"} :
            /\ status' = [status EXCEPT ![e] = to]
            /\ to = "PROCESSED" => pc[s] = "ack"
      BY <1>9 DEF MarkProcessed, MarkProcessedFails, MarkFailed, MarkRowProcessed,
                  MarkRowFailed, SetStatus, rowVars
    <2>3. CASE to = "PROCESSED"
      <3>1. \A w \in subscribed[e] : w \in Webhooks /\ Reserved(w, e)
        BY <2>1, <2>2, <2>3 DEF CoverInv, Covered, HookTypeOK
      <3> HIDE DEF e
      <3>2. Ledger!Complete(e)
        BY <2>1, <2>2, <2>3, <3>1 DEF Ledger!Complete, Ledger!Move, Phase,
             Reserved, Pairs, RowTypeOK
      <3> QED BY <2>1, <3>2 DEF Ledger!Next
    <2>4. CASE to = "DEAD"
      <3> HIDE DEF e
      <3>1. Ledger!GiveUp(e)
        BY <2>1, <2>2, <2>4 DEF Ledger!GiveUp, Ledger!Move, Phase, RowTypeOK
      <3> QED BY <2>1, <3>1 DEF Ledger!Next
    <2>5. CASE to = "PENDING"
      <3> HIDE DEF e
      <3>1. \A d \in Events : Phase(status'[d]) = Phase(status[d])
        BY <2>1, <2>2, <2>5 DEF Phase, RowTypeOK
      <3> QED BY <2>1, <3>1 DEF Ledger!ledgerVars
    <2> QED BY <2>2, <2>3, <2>4, <2>5
  <1>10. ASSUME NEW e \in Events, BackoffElapses(e) \/ LeaseExpires(e)  PROVE Implements
    BY <1>1, <1>10 DEF BackoffElapses, LeaseExpires, hookVars, effectVars
  <1>11. ASSUME NEW p \in Processes, Crash(p)  PROVE Implements
    BY <1>1, <1>11 DEF Crash, rowVars, hookVars
  <1>12. ASSUME NEW s \in Sweeps, NEW e \in Events, FindWebhooks(s, e)  PROVE Implements
    BY <1>1, <1>12 DEF FindWebhooks, rowVars, hookVars, effectVars
  <1>13. ASSUME NEW s \in Sweeps, NEW w \in Webhooks,
                SkipDuplicate(s, w) \/ ((CreateDelivery(s, w) \/ CreateFails(s, w))
                                        /\ UNCHANGED delivery)
         PROVE  Implements
    BY <1>1, <1>13 DEF SkipDuplicate, CreateDelivery, CreateFails, rowVars,
                       hookVars, effectVars
  <1>14. ASSUME NEW s \in Sweeps,
                \/ PushToGateway(s) \/ MarkFailedFails(s)
                \/ ((MarkProcessed(s) \/ MarkProcessedFails(s) \/ MarkFailed(s))
                      /\ UNCHANGED status)
         PROVE  Implements
    BY <1>1, <1>14 DEF PushToGateway, MarkFailedFails, MarkProcessed,
         MarkProcessedFails, MarkFailed, rowVars, hookVars, effectVars
  <1>15. ASSUME UNCHANGED vars  PROVE Implements
    BY <1>1, <1>15 DEF vars, rowVars, hookVars, effectVars
  <1> HIDE DEF Implements
  <1>16. Implements
    BY <1>2, <1>3, <1>4, <1>5, <1>6, <1>7, <1>8, <1>9, <1>10, <1>11, <1>12,
       <1>13, <1>14, <1>15 DEF Next, Advance
  <1> QED BY <1>16 DEF Implements

(* The outbox processor keeps the ledger's promise: an event is done only  *)
(* when everything it is owed is reserved, and no reservation is spent     *)
(* twice.                                                                  *)
THEOREM ImplementsLedger == Spec => LedgerSpec
  <1>1. Init => Ledger!Init
    BY LedgerMap, OutboxAssumption
    DEF Init, LedgerPhase, LedgerReserved, Phase, Pairs
  <1>2. IInv /\ IInv' /\ [Next]_vars => [Ledger!Next]_(Ledger!ledgerVars)
    BY LedgerStep
  <1> QED BY <1>1, <1>2, Invariance, PTL DEF Spec, LedgerSpec, Ledger!Spec
=============================================================================
