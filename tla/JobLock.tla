------------------------------ MODULE JobLock ------------------------------
(***************************************************************************)
(* A cron job that several API instances run under one Redis lock:         *)
(* automation/jobs/scheduled-workflows.job.ts and                          *)
(* analytics/jobs/rollup.job.ts over acquireLock and releaseLock of        *)
(* redis.service.ts.  Every instance fires once in each period, each at a  *)
(* moment of its own; a run may take longer than the lock lives.           *)
(*                                                                         *)
(* A token names its holder: the n-th acquisition of an instance.          *)
(***************************************************************************)
EXTENDS Naturals, FiniteSets

CONSTANTS Instances,  \* API instances
          Period,     \* time between two ticks of the cron
          LockTtl,    \* lockTtl: 600 s of a period of 300 s, or 1 h of a day
          MaxTicks,   \* bound on the ticks
          MaxJobFaults,
          NoToken

ASSUME JobLockAssumption == Period \in Nat \ {0} /\ LockTtl \in Nat \ {0}
                            /\ MaxTicks \in Nat /\ MaxJobFaults \in Nat
                            /\ NoToken \notin Instances \X (1..MaxTicks + 1)

VARIABLES
    clock,       \* the time
    unfired,     \* instances whose cron of this tick has not fired yet
    jobLock,     \* the value of the lock's key; NoToken when absent
    jobLockLeft, \* what is left of its life
    runs,        \* the runs in progress: the token and the age of each
    acquired,    \* by instance: tokens generated
    jobFaults,
    \* history, read by no action
    served,      \* a run started in this tick
    hindered     \* Redis failed or an instance crashed, less than LockTtl ago

jobVars == <<clock, unfired, jobLock, jobLockLeft, runs, acquired, jobFaults,
             served, hindered>>

----------------------------------------------------------------------------
Hinder == /\ jobFaults < MaxJobFaults /\ jobFaults' = jobFaults + 1
          /\ hindered' = LockTtl

JobInit ==
    /\ clock = 0
    /\ unfired = Instances
    /\ jobLock = NoToken /\ jobLockLeft = 0
    /\ runs = {}
    /\ acquired = [i \in Instances |-> 0]
    /\ jobFaults = 0
    /\ served = FALSE /\ hindered = 0

Token(i) == <<i, acquired[i] + 1>>
RunOf(token, age) == [token |-> token, age |-> age]

\* acquireLock: SET NX EX.
LockIsFree == jobLock = NoToken

Start(i) ==
    /\ i \in unfired /\ LockIsFree
    /\ unfired' = unfired \ {i}
    /\ jobLock' = Token(i) /\ jobLockLeft' = LockTtl
    /\ runs' = runs \cup {RunOf(Token(i), 0)}
    /\ acquired' = [acquired EXCEPT ![i] = @ + 1]
    /\ served' = TRUE
    /\ UNCHANGED <<clock, jobFaults, hindered>>

\* The lock is another's, or this instance's own earlier run's: skip.
Skip(i) ==
    /\ i \in unfired /\ ~LockIsFree
    /\ unfired' = unfired \ {i}
    /\ UNCHANGED <<clock, jobLock, jobLockLeft, runs, acquired, jobFaults,
                   served, hindered>>

\* No lock, no run: Redis is away, or its answer is lost after the SET.
AcquireFails(i) ==
    /\ i \in unfired
    /\ unfired' = unfired \ {i}
    /\ Hinder
    /\ \/ UNCHANGED <<jobLock, jobLockLeft, acquired>>
       \/ /\ LockIsFree
          /\ jobLock' = Token(i) /\ jobLockLeft' = LockTtl
          /\ acquired' = [acquired EXCEPT ![i] = @ + 1]
    /\ UNCHANGED <<clock, runs, served>>

\* releaseLock, in the finally of the run: deletes the key if it is still mine.
NeverReleases(r) == jobLock                                              \* mutant
AfterRelease(r) == IF jobLock = r.token THEN NoToken ELSE jobLock

Finish(r) ==
    /\ jobLock' = AfterRelease(r)
    /\ jobLockLeft' = IF jobLock' = NoToken THEN 0 ELSE jobLockLeft
    /\ runs' = runs \ {r}
    /\ UNCHANGED <<clock, unfired, acquired, jobFaults, served, hindered>>

\* The release does not reach Redis, or the instance crashes with all its runs:
\* the lock stays.
LeaveLock(r) ==
    /\ Hinder
    /\ \/ runs' = runs \ {r}
       \/ runs' = {q \in runs : q.token[1] # r.token[1]}
    /\ UNCHANGED <<clock, unfired, jobLock, jobLockLeft, acquired, served>>

Older(age) == IF age < LockTtl THEN age + 1 ELSE age

\* The tick that ends must have fired everywhere: a cron is never a period late.
JobTime ==
    LET newTick == (clock + 1) % Period = 0 IN
    /\ clock < MaxTicks * Period
    /\ newTick => unfired = {}
    /\ clock' = clock + 1
    /\ unfired' = IF newTick THEN Instances ELSE unfired
    /\ jobLockLeft' = IF jobLockLeft > 0 THEN jobLockLeft - 1 ELSE 0
    /\ jobLock' = IF jobLockLeft <= 1 THEN NoToken ELSE jobLock
    /\ runs' = {RunOf(r.token, Older(r.age)) : r \in runs}
    /\ served' = (served /\ ~newTick)
    /\ hindered' = IF hindered > 0 THEN hindered - 1 ELSE 0
    /\ UNCHANGED <<acquired, jobFaults>>

JobNext ==
    \/ \E i \in Instances : Start(i) \/ Skip(i) \/ AcquireFails(i)
    \/ \E r \in runs : Finish(r) \/ LeaveLock(r)
    \/ JobTime

----------------------------------------------------------------------------
\* The type invariant.
JobTypeOK ==
    LET Tokens == Instances \X (1..MaxTicks + 1) IN
    /\ clock \in 0..MaxTicks * Period /\ unfired \subseteq Instances
    /\ jobLock \in Tokens \cup {NoToken} /\ jobLockLeft \in 0..LockTtl
    /\ (jobLock = NoToken) = (jobLockLeft = 0)
    /\ runs \subseteq [token : Tokens, age : 0..LockTtl]
    /\ acquired \in [Instances -> 0..MaxTicks + 1]
    /\ served \in BOOLEAN /\ hindered \in 0..LockTtl

\* While a run has not outlived the lock's expiry, the lock is its own: no other
\* run starts, even after a run that did outlive its lock tries to release it.
LockCoversJob ==
    \A r \in runs : r.age < LockTtl => jobLock = r.token

\* A tick that every instance skipped was skipped for a reason: a run of an
\* earlier tick is still going on, or a fault left the lock behind
\* or kept an instance out, and no longer ago than the lock lives.
MissedTickHasACause ==
    [][unfired # {} /\ unfired' = {} /\ ~served' /\ hindered' = 0 =>
          runs # {}]_jobVars

\* The lock serves the job: runs that have not outlived it are alone, and no tick
\* goes without a run for nothing.
LockServesTheJob == []LockCoversJob /\ MissedTickHasACause
=============================================================================
