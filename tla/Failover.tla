------------------------------ MODULE Failover ------------------------------
(***************************************************************************)
(* The region failover controller                                          *)
(* (common/failover/failover.controller.ts): a timer starts a round of     *)
(* health checks every interval, whether or not the last one has ended; a  *)
(* round may fail over from the current region or recover to the primary.  *)
(* Its state is one object in memory, saved to Redis.                      *)
(*                                                                         *)
(* What switching a region does outside (pg_ctl promote, the DNS record)   *)
(* is modelled by its effect: the region promoted last, the region the     *)
(* record names.  Neither call checks that it had the effect intended.     *)
(*                                                                         *)
(* Abstracted: latencies, notifications, scaling (it only logs), the list  *)
(* healthyRegions of the state, which only getState reads.  A saved state  *)
(* outlives its day: each round renews it.                                 *)
(***************************************************************************)
EXTENDS Naturals, Sequences, FiniteSets

CONSTANTS Regions,            \* primaryRegion, then secondaryRegions, in order
          UpAtFirst,          \* the regions that are healthy when it starts
          Runs,               \* rounds and manual calls in flight at a time
          FailureThreshold, RecoveryThreshold,
          MaxFaults,          \* bound on crashes, failures and changes of health
          None

ASSUME FailoverAssumption ==
    /\ Len(Regions) \in Nat \ {0} /\ DOMAIN Regions = 1..Len(Regions)
    /\ FailureThreshold \in Nat \ {0} /\ RecoveryThreshold \in Nat \ {0}
    /\ MaxFaults \in Nat
    /\ UpAtFirst \subseteq {Regions[i] : i \in DOMAIN Regions}

VARIABLES
    up,            \* the regions whose /health/ready answers ok
    alive,         \* the process runs
    mem,           \* FailoverState
    saved,         \* failover:state
    recoveryCount, \* failover:recovery_count, up to its threshold
    promoted,      \* the region whose database was promoted last
    dns,           \* the region the DNS record names
    run,           \* the rounds and manual calls in flight
    faults,        \* faults so far
    \* history, read by no action
    streak,        \* rounds since the last that found the primary down
    leftover,      \* the count may hold rounds from before that one
    mishaps        \* what has gone wrong

outside == <<up, promoted, dns>>
control == <<alive, mem, saved>>
history == <<streak, leftover, mishaps>>
vars    == <<up, alive, mem, saved, recoveryCount, promoted, dns, run, faults,
             streak, leftover, mishaps>>

----------------------------------------------------------------------------
RegionSet == {Regions[i] : i \in DOMAIN Regions}
Primary == Regions[1]
Secondaries == RegionSet \ {Primary}
Statuses == {"normal", "failover_in_progress", "failed_over", "recovering"}
Steps == {"idle", "probing", "read", "count", "clear", "announce", "promote", "dns", "pointed",
          "save"}

State(current, status, fail) == [current |-> current, status |-> status, fail |-> fail]
Start == State(Primary, "normal", [r \in RegionSet |-> 0])
Status(m, status) == State(m.current, status, m.fail)

Run(step, auto, doing, seen, target, count) ==
    [step |-> step, auto |-> auto, doing |-> doing, seen |-> seen, target |-> target,
     count |-> count]
Idle == Run("idle", FALSE, "none", {}, None, 0)
At(k, step, doing, target) ==
    Run(step, k.auto, doing, IF step = "announce" THEN k.seen ELSE {}, target, 0)
Ended(k, step) == At(k, step, "none", None)
Free(x) == run[x] = Idle
Go(x, k) == run' = [run EXCEPT ![x] = k]
To(x, step) == Go(x, At(run[x], step, run[x].doing, run[x].target))

Switching(x) == run[x].step \in {"announce", "promote", "dns", "pointed"}
FailingOver == {x \in Runs : Switching(x) /\ run[x].doing = "failover"}
Recovering == {x \in Runs : Switching(x) /\ run[x].doing = "recovery"}

UpTo(n, bound) == IF n > bound THEN bound ELSE n
Fault == faults < MaxFaults /\ faults' = faults + 1
NoFault == faults' = faults
Mishap(tags) == mishaps' = mishaps \cup tags

----------------------------------------------------------------------------
Init ==
    /\ up = UpAtFirst
    /\ alive = TRUE
    /\ mem = Start
    /\ saved = Start
    /\ recoveryCount = 0
    /\ promoted = Primary
    /\ dns = Primary
    /\ run = [x \in Runs |-> Idle]
    /\ faults = 0
    /\ streak = 0
    /\ leftover = FALSE
    /\ mishaps = {}

\* The timer: a round asks every region for its health.
Tick(x) ==
    /\ alive /\ Free(x)
    /\ Go(x, Run("probing", TRUE, "none", up, None, 0))
    /\ UNCHANGED <<outside, control, recoveryCount, faults, history>>

\* The round counts the failures.
Counted(seen) ==
    [r \in RegionSet |-> IF r \in seen THEN 0
                           ELSE UpTo(mem.fail[r] + 1, FailureThreshold)]

\* initiateFailover up to its first save.  A failover in progress, running or
\* not, refuses another; a recovery does not.
MayFailOver(m) == m.status # "failover_in_progress"

BeginFailover(x, m, k) ==
    /\ mem' = Status(m, "failover_in_progress")
    /\ Go(x, At(k, "announce", "failover", None))

CurrentDown(m, seen) == m.current \notin seen
Due(m, seen) == CurrentDown(m, seen) /\ m.fail[m.current] >= FailureThreshold
                  /\ MayFailOver(m)
Watching(m, seen) == ~CurrentDown(m, seen) /\ m.status = "failed_over"

\* A run that is using the count, or is about to delete it.
Counting(x) == run[x].step \in {"read", "count"}
Beside(x) == \E y \in Runs \ {x} : Counting(y) \/ run[y].step = "clear"

\* runHealthChecks once the answers are in, up to its next await.
NeverClears(m, seen) == IF Watching(m, seen) /\ Primary \in seen THEN "read" ELSE "save"  \* mutant
AfterCount(m, seen) ==
    IF ~Watching(m, seen) THEN "save"
    ELSE IF Primary \in seen THEN "read" ELSE "clear"

Evaluate(x) ==
    LET seen == run[x].seen
        m    == State(mem.current, mem.status, Counted(seen)) IN
    /\ run[x].step = "probing"
    /\ IF Due(m, seen) THEN BeginFailover(x, m, run[x])
         ELSE mem' = m /\ To(x, AfterCount(m, seen))
    /\ streak' = IF Primary \in seen THEN UpTo(streak + 1, RecoveryThreshold) ELSE 0
    /\ leftover' = (leftover \/ Beside(x)
                      \/ (Primary \notin seen /\ ~Watching(m, seen) /\ recoveryCount # 0))
    /\ Mishap(IF Due(m, seen) /\ Recovering # {} THEN {"crossed"} ELSE {})
    /\ UNCHANGED <<outside, alive, saved, recoveryCount, faults>>

\* manualFailover to a secondary region, healthy or not, the current one or not.
ManualFailover(x, target) ==
    /\ alive /\ Free(x) /\ Fault
    /\ target \in Secondaries
    /\ MayFailOver(mem)
    /\ BeginFailover(x, mem, Run("idle", FALSE, "none", {target}, None, 0))
    /\ Mishap(IF Recovering # {} THEN {"crossed"} ELSE {})
    /\ UNCHANGED <<outside, alive, saved, recoveryCount, streak, leftover>>

\* The first region, in their order, that is healthy and not the current one.
Candidates(seen) ==
    {i \in DOMAIN Regions : Regions[i] \in seen /\ Regions[i] # mem.current}
NewPrimary(seen) ==
    Regions[CHOOSE i \in Candidates(seen) : \A j \in Candidates(seen) : i <= j]

\* The announcement is saved, and the target chosen.  Without one the status
\* stays failover_in_progress.
Announced(x, stored) ==
    LET k == run[x] IN
    /\ k.step = "announce"
    /\ saved' = stored
    /\ \/ /\ k.doing = "recovery"
          /\ Go(x, At(k, "promote", k.doing, Primary))
          /\ UNCHANGED mishaps
       \/ /\ k.doing = "failover" /\ Candidates(k.seen) # {}
          /\ Go(x, At(k, "promote", k.doing, NewPrimary(k.seen)))
          /\ UNCHANGED mishaps
       \/ /\ k.doing = "failover" /\ Candidates(k.seen) = {}
          /\ Go(x, IF k.auto THEN Ended(k, "save") ELSE Idle)
          /\ Mishap({"no target"})
    /\ UNCHANGED <<outside, alive, mem, recoveryCount, streak, leftover>>

Announce(x) == Announced(x, mem) /\ NoFault

Heeded(x, region) ==
    \/ region = run[x].target /\ NoFault /\ UNCHANGED mishaps
    \/ region # run[x].target /\ Fault /\ Mishap({"unheeded"})

\* The command names no region, and is skipped for one without a database host:
\* whichever database it promoted, if any, the switch goes on.
Promote(x) ==
    /\ run[x].step = "promote"
    /\ \E r \in RegionSet : promoted' = r /\ Heeded(x, r)
    /\ To(x, "dns")
    /\ UNCHANGED <<up, dns, control, recoveryCount, streak, leftover>>

\* The provider changes the record before it answers, or does not: a missing
\* record, Cloudflare's refusal and Azure are passed over.
PointDns(x) ==
    /\ run[x].step = "dns"
    /\ \E r \in {run[x].target, dns} : dns' = r /\ Heeded(x, r)
    /\ To(x, "pointed")
    /\ UNCHANGED <<up, promoted, control, recoveryCount, streak, leftover>>

\* A command or a request to the provider throws: the state goes back to a
\* status, not to the one it had, and is saved.
StaysInProgress(k) == mem.status                                         \* mutant
StatusAfterError(k) == IF k.doing = "failover" THEN "normal" ELSE "failed_over"

StepThrows(x) ==
    /\ run[x].step \in {"promote", "dns", "pointed"} /\ Fault
    /\ mem' = Status(mem, StatusAfterError(run[x]))
    /\ Go(x, Ended(run[x], "save"))
    /\ Mishap({IF run[x].step = "promote" THEN "refused" ELSE "half done"})
    /\ UNCHANGED <<outside, alive, saved, recoveryCount, streak, leftover>>

\* The switch is done.  A recovery then deletes the count.
StatusAfterSwitch(k) == IF k.doing = "failover" THEN "failed_over" ELSE "normal"

Switch(x) ==
    LET k == run[x] IN
    /\ k.step = "pointed"
    /\ mem' = State(k.target, StatusAfterSwitch(k), mem.fail)
    /\ Go(x, Ended(k, IF k.doing = "failover" THEN "save" ELSE "clear"))
    /\ UNCHANGED <<outside, alive, saved, recoveryCount, faults, history>>

CountRead(x, count) ==
    LET k == run[x] IN
    /\ k.step = "read"
    /\ Go(x, Run("count", k.auto, k.doing, k.seen, k.target, count))
    /\ UNCHANGED <<outside, control, recoveryCount, history>>

ReadCount(x) == CountRead(x, recoveryCount) /\ NoFault

\* manualRecovery stores the threshold as the count, in any status.
ManualRecovery(x) ==
    /\ alive /\ Free(x) /\ Fault
    /\ Go(x, Run("count", FALSE, "none", {}, None, RecoveryThreshold - 1))
    /\ leftover' = TRUE
    /\ UNCHANGED <<outside, control, recoveryCount, streak, mishaps>>

\* The count is stored; at the threshold initiateRecovery starts, unless the
\* primary is the current region.
CountStored(x, stored) ==
    LET k == run[x]
        n == UpTo(k.count + 1, RecoveryThreshold) IN
    /\ k.step = "count"
    /\ recoveryCount' = IF stored THEN n ELSE recoveryCount
    /\ IF n = RecoveryThreshold /\ mem.current # Primary
         THEN /\ mem' = Status(mem, "recovering")
              /\ Go(x, At(k, "announce", "recovery", None))
              /\ Mishap(IF FailingOver # {} THEN {"crossed"} ELSE {})
         ELSE /\ Go(x, IF k.auto THEN Ended(k, "save") ELSE Idle)
              /\ UNCHANGED <<mem, mishaps>>
    /\ UNCHANGED <<outside, alive, saved, streak, leftover>>

CountRecovery(x) == CountStored(x, TRUE) /\ NoFault

Deleted == recoveryCount' = 0 /\ leftover' = (leftover /\ \E x \in Runs : Counting(x))

ClearCount(x) ==
    /\ run[x].step = "clear"
    /\ Deleted
    /\ To(x, "save")
    /\ UNCHANGED <<outside, control, faults, streak, mishaps>>

\* saveState at the end of a switch and of the round, one write for the two.
SaveOnce(x) ==
    /\ run[x].step = "save"
    /\ saved' = mem
    /\ Go(x, Idle)
    /\ UNCHANGED <<outside, alive, mem, recoveryCount, faults, history>>

\* Redis does not answer: a save only warns, a count that cannot be read is none,
\* one that cannot be written or deleted stays.
RedisFails(x) ==
    /\ Fault
    /\ \/ Announced(x, saved)
       \/ CountRead(x, 0)
       \/ CountStored(x, FALSE)
       \/ /\ run[x].step = "clear"
          /\ To(x, "save")
          /\ leftover' = (leftover \/ recoveryCount # 0)
          /\ UNCHANGED <<outside, control, recoveryCount, streak, mishaps>>
       \/ /\ run[x].step = "save"
          /\ Go(x, Idle)
          /\ Mishap({"unsaved"})
          /\ UNCHANGED <<outside, control, recoveryCount, streak, leftover>>

\* The count expires after an hour.
CountExpires ==
    /\ recoveryCount # 0 /\ Fault
    /\ Deleted
    /\ UNCHANGED <<outside, control, run, streak, mishaps>>

\* The region changes its health.
HealthChanges(r) ==
    /\ Fault
    /\ up' = IF r \in up THEN up \ {r} ELSE up \cup {r}
    /\ UNCHANGED <<promoted, dns, control, recoveryCount, run, history>>

\* The process ends, with all it has in flight.
Crash ==
    /\ alive /\ Fault
    /\ alive' = FALSE
    /\ run' = [x \in Runs |-> Idle]
    /\ mem' = Start
    /\ Mishap(IF \E x \in Runs : run[x].step \notin {"idle", "probing"}
                THEN {"crashed"} ELSE {})
    /\ leftover' = (leftover \/ (recoveryCount # 0 /\ \E x \in Runs : run[x].step = "clear"))
    /\ UNCHANGED <<outside, saved, recoveryCount, streak>>

\* onModuleInit: the saved state, or the initial one when Redis does not answer.
Loaded == saved

Boot ==
    /\ ~alive /\ alive' = TRUE
    /\ \/ mem' = Loaded /\ NoFault /\ UNCHANGED mishaps
       \/ mem' = Start /\ Fault /\ Mishap({"unsaved"})
    /\ UNCHANGED <<outside, saved, recoveryCount, run, streak, leftover>>

RunStep(x) ==
    \/ Evaluate(x)
    \/ Announce(x)
    \/ Promote(x)
    \/ PointDns(x)
    \/ Switch(x)
    \/ ReadCount(x)
    \/ CountRecovery(x)
    \/ ClearCount(x)
    \/ SaveOnce(x)

Next ==
    \/ \E x \in Runs : \/ Tick(x)
                       \/ RunStep(x)
                       \/ \E r \in Secondaries : ManualFailover(x, r)
                       \/ ManualRecovery(x)
                       \/ StepThrows(x)
                       \/ RedisFails(x)
    \/ CountExpires
    \/ \E r \in RegionSet : HealthChanges(r)
    \/ Crash
    \/ Boot

Spec == Init /\ [][Next]_vars

\* The timer fires for ever while the process runs; a call that was made
\* answers or times out; a process that ended is started again.
FairSpec ==
    /\ Spec
    /\ WF_vars(\E x \in Runs : Tick(x))
    /\ \A x \in Runs : WF_vars(RunStep(x))
    /\ WF_vars(Boot)

----------------------------------------------------------------------------
TypeOK ==
    /\ up \subseteq RegionSet /\ alive \in BOOLEAN
    /\ {mem, saved} \subseteq [current : RegionSet, status : Statuses,
                              fail : [RegionSet -> 0..FailureThreshold]]
    /\ recoveryCount \in 0..RecoveryThreshold
    /\ {promoted, dns} \subseteq RegionSet
    /\ run \in [Runs -> [step : Steps, auto : BOOLEAN, doing : {"none", "failover", "recovery"},
                         seen : SUBSET RegionSet, target : RegionSet \cup {None},
                         count : 0..RecoveryThreshold]]
    /\ faults \in 0..MaxFaults
    /\ streak \in 0..RecoveryThreshold /\ leftover \in BOOLEAN

\* The database promoted, the DNS record and the current region agree whenever
\* no switch is under way (ll.169-236), unless a command or a request went
\* unheeded, a switch failed half way, crossed another or was lost with the process
\* or with Redis.
AgreeAtRest ==
    alive /\ (\A x \in Runs : ~Switching(x))
      => \/ promoted = mem.current /\ dns = mem.current
         \/ mishaps \cap {"unheeded", "half done", "crossed", "crashed", "unsaved"} # {}

\* Two rounds, or a round and an operator, fail over at the same time only
\* after a recovery crossed a failover: the status is tested and set before the
\* first await (ll.170-176).
OneFailoverAtATime == Cardinality(FailingOver) > 1 => "crossed" \in mishaps

\* A transient status has its run, unless the process died in it, its end was
\* not saved or, for a failover, no region could take over (ll.178-183): the states that nothing
\* but a restart, if that, leaves.
Wedged == mem.status = "failover_in_progress" /\ FailingOver = {}
TransientHasItsRun ==
    /\ Wedged => mishaps \cap {"no target", "crashed", "unsaved"} # {}
    /\ mem.status = "recovering" /\ Recovering = {}
         => mishaps \cap {"crashed", "unsaved"} # {}

\* The controller calls normal a state whose current region is a secondary one
\* only after a switch failed or crossed another (l.202): the
\* rounds then never recover to the primary.
NormalIsPrimary ==
    mem.status = "normal" /\ mem.current # Primary
      => mishaps \cap {"refused", "half done", "crossed"} # {}

\* A round recovers only when that many rounds in a row found the primary up
\* (ll.124-137), however often the primary came and went since the failover.  The
\* exception is a count which an earlier round left behind and nobody deleted yet: an
\* operator stored it, a round that found the primary down could not delete it or did
\* not try, the current region being down too, or a round ran beside one that counts.
RecoveryIsEarned ==
    [][\A x \in Runs :
          run[x].auto /\ run[x].doing # "recovery" /\ run'[x].doing = "recovery"
            => streak >= RecoveryThreshold \/ leftover]_vars

\* A current region that stays down while another is up is replaced, unless the
\* controller is wedged.
Deserted == up # {} /\ mem.current \notin up
DeadRegionIsReplaced == <>[]Deserted => <>[]Wedged

\* The controller's state is true: of the world it switched, of the runs it has, of
\* the region it prefers.
StateIsTrue ==
    AgreeAtRest /\ OneFailoverAtATime /\ TransientHasItsRun /\ NormalIsPrimary

\* The current region follows the health of the regions: back to the primary only
\* when that has earned it, away from a dead one in the end.
RegionFollowsHealth == RecoveryIsEarned /\ DeadRegionIsReplaced
=============================================================================
