--------------------------- MODULE Failover_proofs ---------------------------
(***************************************************************************)
(* What holds of Failover for any regions, thresholds and number of rounds. *)
(***************************************************************************)
EXTENDS Failover, FiniteSetTheorems, TLAPS

-----------------------------------------------------------------------------
(* The inductive invariant.                                                *)

(* A run is doing something exactly while it switches, and what it switches  *)
(* to is a region, for a recovery the primary.                             *)
RunOK == \A x \in Runs :
  /\ Switching(x) <=> run[x].doing # "none"
  /\ run[x].step \in {"promote", "dns", "pointed"} =>
       /\ run[x].target \in RegionSet
       /\ run[x].doing = "recovery" => run[x].target = Primary
  /\ ~alive => run[x] = Idle

(* Until a failover and a recovery cross, a failover is alone, and the       *)
(* status says so.                                                         *)
CrossOK == "crossed" \notin mishaps => \A x \in FailingOver :
  /\ mem.status = "failover_in_progress" /\ Recovering = {}
  /\ \A y \in FailingOver : y = x

(* The database and the record are the current region's, or the target's of  *)
(* a run that has got that far.                                            *)
Clean == mishaps \cap {"unheeded", "half done", "crossed", "crashed", "unsaved"} = {}
Moved(x) == run[x].step \in {"dns", "pointed"}
Pointed(x) == run[x].step = "pointed"
WorldOK == Clean /\ alive =>
  /\ \A x \in Runs : Moved(x) => promoted = run[x].target
  /\ (\A x \in Runs : ~Moved(x)) => promoted = mem.current
  /\ \A x \in Runs : Pointed(x) => dns = run[x].target
  /\ (\A x \in Runs : ~Pointed(x)) => dns = mem.current

(* What is not saved yet will be, by a run still to save; so what a process  *)
(* that ended with no run left behind is the truth.                        *)
Owes(x) == run[x].step \in {"clear", "save"}
Owed == \E x \in Runs : Owes(x)
SavedOK == Clean =>
  /\ alive => saved.current = mem.current \/ Owed
  /\ ~alive => saved.current = promoted /\ saved.current = dns

(* A transient status, in memory or saved, has its run.                    *)
Kept == mishaps \cap {"crashed", "unsaved"} = {}
TransientOK == Kept =>
  /\ mem.status = "recovering" => Recovering # {}
  /\ saved.status = "recovering" => Recovering # {} \/ Owed
  /\ "no target" \notin mishaps =>
       /\ mem.status = "failover_in_progress" => FailingOver # {}
       /\ saved.status = "failover_in_progress" => FailingOver # {} \/ Owed

(* The normal status, in memory or saved, is the primary's.                *)
NormalOK == mishaps \cap {"refused", "half done", "crossed"} = {} =>
  /\ mem.status = "normal" => mem.current = Primary
  /\ saved.status = "normal" => saved.current = Primary

(* A count that holds no older rounds is read by one run at a time and is    *)
(* behind the streak, or a round that broke the streak is about to delete it. *)
NextCount(n) == UpTo(n + 1, RecoveryThreshold)
EarnedOK == ~leftover =>
  /\ \A x, y \in Runs : Counting(x) /\ Counting(y) => x = y
  /\ recoveryCount <= streak \/ \E x \in Runs : run[x].step = "clear"
  /\ \A x \in Runs :
       /\ run[x].step = "read" => NextCount(recoveryCount) <= streak
       /\ run[x].step = "count" => NextCount(run[x].count) <= streak

IInv == /\ TypeOK /\ RunOK /\ CrossOK /\ WorldOK
        /\ SavedOK /\ TransientOK /\ NormalOK /\ EarnedOK
-----------------------------------------------------------------------------
(* Types.                                                                  *)
Mem == [current : RegionSet, status : Statuses, fail : [RegionSet -> 0..FailureThreshold]]
Call == [step : Steps, auto : BOOLEAN, doing : {"none", "failover", "recovery"},
         seen : SUBSET RegionSet, target : RegionSet \cup {None},
         count : 0..RecoveryThreshold]

LEMMA TypeParts ==
  ASSUME TypeOK
  PROVE  /\ mem \in Mem /\ saved \in Mem /\ run \in [Runs -> Call]
         /\ recoveryCount \in 0..RecoveryThreshold /\ streak \in 0..RecoveryThreshold
BY DEF TypeOK, Mem, Call

LEMMA PrimaryIsRegion == Primary \in RegionSet
BY FailoverAssumption DEF Primary, RegionSet

LEMMA UpToBound ==
  ASSUME NEW bound \in Nat, NEW n \in Nat
  PROVE  UpTo(n, bound) \in 0..bound
BY DEF UpTo

LEMMA CallType ==
  ASSUME NEW step \in Steps, NEW auto \in BOOLEAN, NEW doing \in {"none", "failover", "recovery"},
         NEW seen \in SUBSET RegionSet, NEW target \in RegionSet \cup {None},
         NEW count \in 0..RecoveryThreshold
  PROVE  Run(step, auto, doing, seen, target, count) \in Call
BY DEF Run, Call

LEMMA AtType ==
  ASSUME NEW k \in Call, NEW step \in Steps, NEW doing \in {"none", "failover", "recovery"},
         NEW target \in RegionSet \cup {None}
  PROVE  At(k, step, doing, target) \in Call
<1>1. /\ k.auto \in BOOLEAN /\ k.seen \in SUBSET RegionSet /\ 0 \in 0..RecoveryThreshold
      /\ {} \in SUBSET RegionSet
  BY FailoverAssumption DEF Call
<1> QED
  BY <1>1, CallType DEF At

LEMMA MemType ==
  ASSUME NEW current \in RegionSet, NEW status \in Statuses,
         NEW fail \in [RegionSet -> 0..FailureThreshold]
  PROVE  State(current, status, fail) \in Mem
BY DEF State, Mem

LEMMA StartType == Start \in Mem /\ Idle \in Call
<1>1. [r \in RegionSet |-> 0] \in [RegionSet -> 0..FailureThreshold]
  BY FailoverAssumption
<1>2. "normal" \in Statuses /\ "idle" \in Steps /\ 0 \in 0..RecoveryThreshold
  BY FailoverAssumption DEF Statuses, Steps
<1> QED
  BY <1>1, <1>2, PrimaryIsRegion, MemType, CallType DEF Start, Idle

LEMMA CountedType ==
  ASSUME TypeOK, NEW seen
  PROVE  Counted(seen) \in [RegionSet -> 0..FailureThreshold]
<1>1. \A r \in RegionSet : mem.fail[r] \in 0..FailureThreshold
  BY TypeParts DEF Mem
<1>3. \A r \in RegionSet : mem.fail[r] + 1 \in Nat
  BY <1>1, FailoverAssumption
<1>2. \A r \in RegionSet : UpTo(mem.fail[r] + 1, FailureThreshold) \in 0..FailureThreshold
  BY <1>3, UpToBound, FailoverAssumption
<1> QED
  BY <1>2, FailoverAssumption DEF Counted

(* A set of positions has a first one: the one that least precede.          *)
LEMMA FirstPosition ==
  ASSUME NEW n \in Nat, NEW T \in SUBSET (1..n), T # {}
  PROVE  \E i \in T : \A j \in T : i <= j
<1> DEFINE UpToPos(i) == {j \in T : j <= i}
           Initial == {UpToPos(i) : i \in T}
<1>1. T \in SUBSET Int /\ \A i \in T : i \in UpToPos(i)
  OBVIOUS
<1>2. IsFiniteSet(1..n)
  BY FS_Interval
<1>3. FiniteSubsetsOf(1..n) = SUBSET (1..n)
  BY <1>2, FS_FiniteSubsetsOfFinite
<1>4. Initial \subseteq FiniteSubsetsOf(1..n) /\ Initial # {}
  <2>1. \A i \in T : UpToPos(i) \in SUBSET (1..n)
    OBVIOUS
  <2>2. \E i \in T : UpToPos(i) \in Initial
    OBVIOUS
  <2>3. Initial \subseteq SUBSET (1..n)
    BY <2>1
  <2> QED
    BY <1>3, <2>2, <2>3
<1>5. IsWellFoundedOn(StrictSubsetOrdering(1..n), FiniteSubsetsOf(1..n))
  BY FS_StrictSubsetOrderingWellFounded
<1> HIDE DEF Initial
<1>6. PICK S \in Initial : \A R \in Initial : <<R, S>> \notin StrictSubsetOrdering(1..n)
  BY <1>4, <1>5, WFMin
<1> USE DEF Initial
<1>7. PICK i \in T : S = UpToPos(i)
  BY <1>6
<1>8. ASSUME NEW j \in T, j < i
      PROVE  FALSE
  <2>1. UpToPos(j) \subseteq UpToPos(i) /\ i \in UpToPos(i) /\ i \notin UpToPos(j)
    <3>1. i \in Int /\ j \in Int /\ j < i /\ ~(i <= j)
      BY <1>1, <1>8
    <3>2. \A m \in T : m <= j => m <= i
      BY <1>1, <3>1
    <3> QED
      BY <1>1, <3>1, <3>2
  <2>2. UpToPos(j) \in Initial /\ UpToPos(j) \in SUBSET (1..n) /\ UpToPos(i) \in SUBSET (1..n)
    OBVIOUS
  <2>3. <<UpToPos(j), UpToPos(i)>> \in StrictSubsetOrdering(1..n)
    BY <2>1, <2>2 DEF StrictSubsetOrdering
  <2> QED
    BY <1>6, <1>7, <2>2, <2>3
<1> QED
  BY <1>1, <1>8

(* There is a first healthy region among those that are not the current one. *)
LEMMA NewPrimaryIsRegion ==
  ASSUME NEW seen, Candidates(seen) # {}
  PROVE  NewPrimary(seen) \in RegionSet
<1>1. Candidates(seen) \in SUBSET (1..Len(Regions)) /\ Candidates(seen) \subseteq DOMAIN Regions
  BY FailoverAssumption DEF Candidates
<1>2. PICK i \in Candidates(seen) : \A j \in Candidates(seen) : i <= j
  BY <1>1, FirstPosition, FailoverAssumption
<1> DEFINE n == CHOOSE m \in Candidates(seen) : \A j \in Candidates(seen) : m <= j
<1>3. n \in DOMAIN Regions
  BY <1>1, <1>2
<1> QED
  BY <1>3 DEF NewPrimary, RegionSet

LEMMA TypeStep ==
  ASSUME TypeOK, RunOK, [Next]_vars
  PROVE  TypeOK'
<1> DEFINE MemSet == [current : RegionSet, status : Statuses,
                      fail : [RegionSet -> 0..FailureThreshold]]
           Parts == /\ mem' \in Mem /\ saved' \in Mem /\ run' \in [Runs -> Call]
                    /\ up' \subseteq RegionSet /\ alive' \in BOOLEAN
                    /\ recoveryCount' \in 0..RecoveryThreshold
                    /\ promoted' \in RegionSet /\ dns' \in RegionSet
                    /\ faults' \in 0..MaxFaults /\ streak' \in 0..RecoveryThreshold
                    /\ leftover' \in BOOLEAN
<1> SUFFICES Parts
  BY DEF TypeOK, Mem, Call
<1>0. /\ mem \in Mem /\ saved \in Mem /\ run \in [Runs -> Call]
      /\ up \subseteq RegionSet /\ alive \in BOOLEAN /\ recoveryCount \in 0..RecoveryThreshold
      /\ promoted \in RegionSet /\ dns \in RegionSet
      /\ faults \in 0..MaxFaults /\ streak \in 0..RecoveryThreshold /\ leftover \in BOOLEAN
      /\ 0 \in 0..RecoveryThreshold /\ RecoveryThreshold - 1 \in 0..RecoveryThreshold
      /\ \A n \in 0..RecoveryThreshold : NextCount(n) \in 0..RecoveryThreshold
  <2>1. \A n \in 0..RecoveryThreshold : n + 1 \in Nat
    BY FailoverAssumption
  <2>2. \A n \in 0..RecoveryThreshold : NextCount(n) \in 0..RecoveryThreshold
    BY <2>1, UpToBound, FailoverAssumption DEF NextCount
  <2>3. 0 \in 0..RecoveryThreshold /\ RecoveryThreshold - 1 \in 0..RecoveryThreshold
    BY FailoverAssumption
  <2>4. /\ mem \in Mem /\ saved \in Mem /\ run \in [Runs -> Call]
        /\ up \subseteq RegionSet /\ alive \in BOOLEAN /\ recoveryCount \in 0..RecoveryThreshold
        /\ promoted \in RegionSet /\ dns \in RegionSet
        /\ faults \in 0..MaxFaults /\ streak \in 0..RecoveryThreshold /\ leftover \in BOOLEAN
    BY DEF TypeOK, Mem, Call
  <2> QED
    BY <2>2, <2>3, <2>4
<1>m. /\ mem.current \in RegionSet /\ mem.fail \in [RegionSet -> 0..FailureThreshold]
      /\ Statuses = {"normal", "failover_in_progress", "failed_over", "recovering"}
  BY <1>0 DEF Mem, Statuses
<1>k. ASSUME NEW x \in Runs
      PROVE  /\ run[x] \in Call /\ run[x].auto \in BOOLEAN /\ run[x].seen \in SUBSET RegionSet
             /\ run[x].doing \in {"none", "failover", "recovery"}
             /\ run[x].target \in RegionSet \cup {None}
             /\ run[x].count \in 0..RecoveryThreshold
  BY <1>0 DEF Call
<1>g. ASSUME NEW x \in Runs, NEW k \in Call, Go(x, k)
      PROVE  run' \in [Runs -> Call]
  BY <1>0, <1>g DEF Go
<1>e. ASSUME NEW x \in Runs, NEW step \in Steps
      PROVE  Ended(run[x], step) \in Call
  BY <1>k, AtType DEF Ended
<1>t. ASSUME NEW x \in Runs, NEW step \in Steps, To(x, step)
      PROVE  run' \in [Runs -> Call]
  <2>1. At(run[x], step, run[x].doing, run[x].target) \in Call
    BY <1>k, AtType
  <2> QED
    BY <1>t, <1>g, <2>1 DEF To
<1>d. ASSUME Deleted
      PROVE  recoveryCount' \in 0..RecoveryThreshold /\ leftover' \in BOOLEAN
  BY <1>0, <1>d DEF Deleted
<1>f. ASSUME Fault
      PROVE  faults' \in 0..MaxFaults
  BY <1>f, <1>0, FailoverAssumption DEF Fault
<1>s. {"idle", "probing", "read", "count", "clear", "announce", "promote", "dns", "pointed",
       "save"} = Steps
  BY DEF Steps
<1>1. CASE UNCHANGED vars
  BY <1>0, <1>1 DEF vars
<1>2. ASSUME NEW x \in Runs, Tick(x)
      PROVE  Parts
  <2>1. Run("probing", TRUE, "none", up, None, 0) \in Call
    BY <1>0, <1>s, CallType
  <2>2. run' \in [Runs -> Call]
    BY <1>2, <1>g, <2>1 DEF Tick
  <2> QED
    BY <1>0, <1>2, <2>2 DEF Tick, outside, control, history
<1>3. ASSUME NEW x \in Runs, NEW m \in Mem, NEW k \in Call, BeginFailover(x, m, k)
      PROVE  mem' \in Mem /\ run' \in [Runs -> Call]
  <2>1. Status(m, "failover_in_progress") \in Mem
    BY <1>m, MemType DEF Status, Mem
  <2>2. At(k, "announce", "failover", None) \in Call
    BY <1>s, AtType
  <2> QED
    BY <1>3, <1>g, <2>1, <2>2 DEF BeginFailover
<1>4. ASSUME NEW x \in Runs, Evaluate(x)
      PROVE  Parts
  <2> DEFINE seen == run[x].seen
             m == State(mem.current, mem.status, Counted(seen))
  <2>1. m \in Mem
    BY <1>0, MemType, CountedType DEF Mem
  <2>2. AfterCount(m, seen) \in Steps
    BY <1>s DEF AfterCount
  <2>3. \/ BeginFailover(x, m, run[x])
        \/ mem' = m /\ To(x, AfterCount(m, seen))
    BY <1>4 DEF Evaluate
  <2>4. mem' \in Mem /\ run' \in [Runs -> Call]
    BY <1>3, <1>k, <1>t, <2>1, <2>2, <2>3
  <2>5. streak' \in 0..RecoveryThreshold
    BY <1>0, <1>4 DEF Evaluate, NextCount
  <2> QED
    BY <1>0, <1>4, <2>4, <2>5 DEF Evaluate, outside
<1>5. ASSUME NEW x \in Runs, NEW target \in Secondaries, ManualFailover(x, target)
      PROVE  Parts
  <2>1. Run("idle", FALSE, "none", {target}, None, 0) \in Call
    BY <1>0, <1>s, CallType DEF Secondaries
  <2>2. mem' \in Mem /\ run' \in [Runs -> Call]
    BY <1>0, <1>3, <1>5, <2>1 DEF ManualFailover
  <2> QED
    BY <1>0, <1>f, <1>5, <2>2 DEF ManualFailover, outside
<1>6. ASSUME NEW x \in Runs, NEW stored \in Mem, Announced(x, stored)
      PROVE  saved' \in Mem /\ run' \in [Runs -> Call]
  <2>1. At(run[x], "promote", run[x].doing, Primary) \in Call
    BY <1>k, <1>s, AtType, PrimaryIsRegion
  <2>2. Candidates(run[x].seen) # {} =>
          At(run[x], "promote", run[x].doing, NewPrimary(run[x].seen)) \in Call
    BY <1>k, <1>s, AtType, NewPrimaryIsRegion
  <2>3. Ended(run[x], "save") \in Call /\ Idle \in Call
    BY <1>e, <1>s, StartType
  <2> QED
    BY <1>6, <1>g, <2>1, <2>2, <2>3 DEF Announced
<1>7. ASSUME NEW x \in Runs, Announce(x)
      PROVE  Parts
  BY <1>0, <1>6, <1>7 DEF Announce, Announced, NoFault, outside
<1>8. ASSUME NEW x \in Runs, Promote(x) \/ PointDns(x)
      PROVE  Parts
  <2>1. run' \in [Runs -> Call]
    BY <1>8, <1>t, <1>s DEF Promote, PointDns
  <2>2. run[x].target \in RegionSet
    BY <1>8 DEF RunOK, Promote, PointDns
  <2>3. faults' \in 0..MaxFaults
    BY <1>0, <1>8, <1>f DEF Promote, PointDns, Heeded, NoFault
  <2> QED
    BY <1>0, <1>8, <2>1, <2>2, <2>3 DEF Promote, PointDns, control
<1>9. ASSUME NEW x \in Runs, StepThrows(x)
      PROVE  Parts
  <2>1. run' \in [Runs -> Call]
    BY <1>9, <1>e, <1>g, <1>s DEF StepThrows
  <2>2. mem' \in Mem
    BY <1>9, <1>m, MemType DEF StepThrows, Status, StatusAfterError
  <2> QED
    BY <1>0, <1>f, <1>9, <2>1, <2>2 DEF StepThrows, outside
<1>10. ASSUME NEW x \in Runs, Switch(x)
       PROVE  Parts
  <2>1. run' \in [Runs -> Call]
    BY <1>10, <1>e, <1>g, <1>s DEF Switch
  <2>2. run[x].target \in RegionSet
    BY <1>10 DEF Switch, RunOK
  <2>3. mem' \in Mem
    BY <1>10, <1>m, <2>2, MemType DEF Switch, StatusAfterSwitch
  <2> QED
    BY <1>0, <1>10, <2>1, <2>3 DEF Switch, outside, history
<1>11. ASSUME NEW x \in Runs, NEW n \in 0..RecoveryThreshold, CountRead(x, n)
       PROVE  run' \in [Runs -> Call]
  <2>1. Run("count", run[x].auto, run[x].doing, run[x].seen, run[x].target, n) \in Call
    BY <1>k, <1>s, CallType
  <2> QED
    BY <1>11, <1>g, <2>1 DEF CountRead
<1>12. ASSUME NEW x \in Runs, ReadCount(x)
       PROVE  Parts
  BY <1>0, <1>11, <1>12 DEF ReadCount, CountRead, NoFault, outside, control, history
<1>13. ASSUME NEW x \in Runs, ManualRecovery(x)
       PROVE  Parts
  <2>1. Run("count", FALSE, "none", {}, None, RecoveryThreshold - 1) \in Call
    BY <1>0, <1>s, CallType
  <2>2. run' \in [Runs -> Call]
    BY <1>13, <1>g, <2>1 DEF ManualRecovery
  <2> QED
    BY <1>0, <1>f, <1>13, <2>2 DEF ManualRecovery, outside, control
<1>14. ASSUME NEW x \in Runs, NEW stored \in BOOLEAN, CountStored(x, stored)
       PROVE  /\ mem' \in Mem /\ run' \in [Runs -> Call]
              /\ recoveryCount' \in 0..RecoveryThreshold
  <2>1. Status(mem, "recovering") \in Mem
    BY <1>m, MemType DEF Status
  <2>2. At(run[x], "announce", "recovery", None) \in Call /\ Ended(run[x], "save") \in Call
        /\ Idle \in Call
    BY <1>k, <1>e, <1>s, AtType, StartType
  <2>3. recoveryCount' \in 0..RecoveryThreshold
    BY <1>0, <1>k, <1>14 DEF CountStored, NextCount
  <2>4. mem' \in Mem /\ run' \in [Runs -> Call]
    BY <1>0, <1>14, <1>g, <2>1, <2>2 DEF CountStored
  <2> QED
    BY <2>3, <2>4
<1>15. ASSUME NEW x \in Runs, CountRecovery(x)
       PROVE  Parts
  BY <1>0, <1>14, <1>15 DEF CountRecovery, CountStored, NoFault, outside
<1>16. ASSUME NEW x \in Runs, ClearCount(x)
       PROVE  Parts
  <2>1. run' \in [Runs -> Call]
    BY <1>16, <1>t, <1>s DEF ClearCount
  <2> QED
    BY <1>0, <1>16, <2>1, <1>d DEF ClearCount, outside, control
<1>17. ASSUME NEW x \in Runs, SaveOnce(x)
       PROVE  Parts
  <2>1. run' \in [Runs -> Call]
    BY <1>17, <1>g, StartType DEF SaveOnce
  <2> QED
    BY <1>0, <1>17, <2>1 DEF SaveOnce, outside, history
<1>18. ASSUME NEW x \in Runs, RedisFails(x)
       PROVE  Parts
  <2>1. CASE Announced(x, saved)
    BY <1>0, <1>6, <1>f, <1>18, <2>1 DEF RedisFails, Announced, outside
  <2>2. CASE CountRead(x, 0)
    BY <1>0, <1>11, <1>f, <1>18, <2>2 DEF RedisFails, CountRead, outside, control, history
  <2>3. CASE CountStored(x, FALSE)
    BY <1>0, <1>14, <1>f, <1>18, <2>3 DEF RedisFails, CountStored, outside
  <2>4. ASSUME To(x, "save") \/ Go(x, Idle), UNCHANGED <<outside, control, recoveryCount, streak>>,
               leftover' \in BOOLEAN
        PROVE  Parts
    BY <1>0, <1>t, <1>g, <1>f, <1>s, <1>18, <2>4, StartType DEF RedisFails, outside, control
  <2> QED
    BY <1>0, <1>18, <2>1, <2>2, <2>3, <2>4 DEF RedisFails
<1>19. CASE CountExpires
  BY <1>0, <1>f, <1>19, <1>d DEF CountExpires, outside, control
<1>20. ASSUME NEW r \in RegionSet, HealthChanges(r)
       PROVE  Parts
  BY <1>0, <1>f, <1>20 DEF HealthChanges, control, history
<1>21. CASE Crash
  BY <1>0, <1>f, <1>21, StartType DEF Crash, outside
<1>22. CASE Boot
  BY <1>0, <1>f, <1>22, StartType DEF Boot, Loaded, NoFault, outside
<1> QED
  BY <1>1, <1>2, <1>4, <1>5, <1>7, <1>8, <1>9, <1>10, <1>12, <1>13, <1>15, <1>16, <1>17,
     <1>18, <1>19, <1>20, <1>21, <1>22 DEF Next, RunStep

-----------------------------------------------------------------------------
(* The steps, as far as the state, its copy, the world and the switches go.  *)
Same == UNCHANGED <<alive, saved, promoted, dns>>
Only(x) == alive /\ \A y \in Runs : y # x => run'[y] = run[y]
Becomes(x, step, doing) == Only(x) /\ run'[x].step = step /\ run'[x].doing = doing
More(tags) == mishaps \cup tags \subseteq mishaps'
Keeps(status) == mem'.current = mem.current /\ mem'.status = status

(* A run outside a switch goes on, and forgets no save.                     *)
Light(y) == /\ alive /\ ~Switching(y) /\ ~Switching(y)' /\ run'[y].doing = "none"
            /\ Owes(y) => Owes(y)'
Quiet == /\ Same /\ Keeps(mem.status) /\ More({})
         /\ \A y \in Runs : run'[y] = run[y] \/ Light(y)

Begins(x, doing, status) ==
  /\ Same /\ ~Switching(x) /\ ~Owes(x) /\ Becomes(x, "announce", doing) /\ Keeps(status)

BeginsFailover(x) == /\ Begins(x, "failover", "failover_in_progress")
                     /\ mem.status # "failover_in_progress" /\ More({})
                     /\ Recovering # {} => More({"crossed"})
BeginsRecovery(x) == /\ Begins(x, "recovery", "recovering") /\ More({})
                     /\ FailingOver # {} => More({"crossed"})

Stores == (saved' = mem \/ saved' = saved) /\ mem' = mem
Chooses(x) == /\ Stores /\ UNCHANGED <<alive, promoted, dns, mishaps>>
              /\ run[x].step = "announce" /\ Becomes(x, "promote", run[x].doing)
              /\ run'[x].target \in RegionSet
              /\ run[x].doing = "recovery" => run'[x].target = Primary
FindsNone(x) == /\ Stores /\ UNCHANGED <<alive, promoted, dns>> /\ More({"no target"})
                /\ run[x].step = "announce" /\ run[x].doing = "failover"
                /\ \/ Becomes(x, "save", "none")
                   \/ Becomes(x, "idle", "none")

Promotes(x) == /\ UNCHANGED <<alive, mem, saved, dns>> /\ More({})
               /\ promoted' = run[x].target \/ More({"unheeded"})
               /\ run[x].step = "promote" /\ Becomes(x, "dns", run[x].doing)
               /\ run'[x].target = run[x].target
Points(x) == /\ UNCHANGED <<alive, mem, saved, promoted>> /\ More({})
             /\ dns' = run[x].target \/ More({"unheeded"})
             /\ run[x].step = "dns" /\ Becomes(x, "pointed", run[x].doing)
             /\ run'[x].target = run[x].target
Throws(x) == /\ Same /\ Keeps(StatusAfterError(run[x]))
             /\ run[x].step \in {"promote", "dns", "pointed"} /\ Becomes(x, "save", "none")
             /\ More({IF run[x].step = "promote" THEN "refused" ELSE "half done"})
Switches(x) == /\ UNCHANGED <<alive, saved, promoted, dns, mishaps>> /\ run[x].step = "pointed"
               /\ mem'.current = run[x].target /\ mem'.status = StatusAfterSwitch(run[x])
               /\ \/ Becomes(x, "save", "none")
                  \/ Becomes(x, "clear", "none")

Saves(x) == /\ UNCHANGED <<alive, mem, promoted, dns>>
            /\ run[x].step = "save" /\ Becomes(x, "idle", "none")
            /\ \/ saved' = mem /\ mishaps' = mishaps
               \/ saved' = saved /\ More({"unsaved"})
Crashes == /\ UNCHANGED <<saved, promoted, dns>> /\ alive /\ ~alive' /\ mem' = Start
           /\ \A x \in Runs : run'[x] = Idle
           /\ More({})
           /\ (\E x \in Runs : run[x].step \notin {"idle", "probing"}) => More({"crashed"})
Boots == /\ UNCHANGED <<saved, promoted, dns, run>> /\ ~alive /\ alive'
         /\ \/ mem' = saved /\ mishaps' = mishaps
            \/ mem' = Start /\ More({"unsaved"})

LEMMA CallFields ==
  ASSUME NEW step, NEW auto, NEW doing, NEW seen, NEW target, NEW count
  PROVE  LET k == Run(step, auto, doing, seen, target, count)
         IN  /\ k.step = step /\ k.auto = auto /\ k.doing = doing /\ k.seen = seen
             /\ k.target = target /\ k.count = count
BY DEF Run

LEMMA AtFields ==
  ASSUME NEW k, NEW step, NEW doing, NEW target
  PROVE  /\ At(k, step, doing, target).step = step /\ At(k, step, doing, target).doing = doing
         /\ At(k, step, doing, target).target = target
BY DEF At, Run

LEMMA EndedFields ==
  ASSUME NEW k, NEW step
  PROVE  /\ Ended(k, step).step = step /\ Ended(k, step).doing = "none"
BY DEF Ended, At, Run

LEMMA MemFields ==
  ASSUME NEW current, NEW status, NEW fail
  PROVE  /\ State(current, status, fail).current = current
         /\ State(current, status, fail).status = status
BY DEF State

LEMMA StatusFields ==
  ASSUME NEW m, NEW status
  PROVE  Status(m, status).current = m.current /\ Status(m, status).status = status
BY DEF Status, State

LEMMA IdleFields == /\ Idle.step = "idle" /\ Idle.doing = "none"
                    /\ Start.current = Primary /\ Start.status = "normal"
BY DEF Idle, Run, Start, State

LEMMA GoEffect ==
  ASSUME TypeOK, NEW x \in Runs, NEW k, Go(x, k)
  PROVE  run'[x] = k /\ \A y \in Runs : y # x => run'[y] = run[y]
BY TypeParts DEF Go

LEMMA AliveRun ==
  ASSUME RunOK, NEW x \in Runs, run[x].step # "idle"
  PROVE  alive
BY IdleFields DEF RunOK

(* A run that is not switching goes to a step of no switch.                *)
LEMMA LightQuiet ==
  ASSUME Same, Keeps(mem.status), More({}), NEW x \in Runs, Only(x),
         ~Switching(x), run'[x].step \notin {"announce", "promote", "dns", "pointed"},
         run'[x].doing = "none", Owes(x) => run'[x].step \in {"clear", "save"}
  PROVE  Quiet
BY DEF Quiet, Light, Only, Switching, Owes

LEMMA FreeRun ==
  ASSUME NEW x \in Runs, Free(x) \/ run[x].step \in {"probing", "read", "count"}
  PROVE  ~Switching(x) /\ ~Owes(x)
BY IdleFields DEF Free, Switching, Owes

LEMMA NotSwitching ==
  ASSUME RunOK, NEW x \in Runs, run[x].step \in {"probing", "read", "count", "clear", "save"}
  PROVE  ~Switching(x) /\ run[x].doing = "none" /\ alive
BY AliveRun DEF RunOK, Switching

LEMMA EvaluateCases ==
  ASSUME TypeOK, RunOK, NEW x \in Runs, Evaluate(x)
  PROVE  Quiet \/ BeginsFailover(x)
<1> DEFINE seen == run[x].seen
           m == State(mem.current, mem.status, Counted(seen))
<1>1. /\ run[x].step = "probing" /\ Same /\ More({})
      /\ IF Due(m, seen) THEN BeginFailover(x, m, run[x])
         ELSE mem' = m /\ To(x, AfterCount(m, seen))
      /\ Due(m, seen) /\ Recovering # {} => More({"crossed"})
  BY DEF Evaluate, Same, More, outside, Mishap
<1>2. ~Switching(x) /\ ~Owes(x) /\ run[x].doing = "none" /\ alive
  BY <1>1, FreeRun, NotSwitching
<1>3. m.current = mem.current /\ m.status = mem.status
  BY MemFields
<1>4. CASE Due(m, seen)
  <2>1. /\ mem' = Status(m, "failover_in_progress")
        /\ Go(x, At(run[x], "announce", "failover", None))
    BY <1>1, <1>4 DEF BeginFailover
  <2>2. Becomes(x, "announce", "failover") /\ Keeps("failover_in_progress")
    BY <1>2, <1>3, <2>1, GoEffect, AtFields, StatusFields DEF Becomes, Only, Keeps
  <2>3. mem.status # "failover_in_progress"
    BY <1>3, <1>4 DEF Due, MayFailOver
  <2> QED
    BY <1>1, <1>2, <1>4, <2>2, <2>3 DEF BeginsFailover, Begins
<1>5. CASE ~Due(m, seen)
  <2>1. mem' = m /\ Go(x, At(run[x], AfterCount(m, seen), "none", run[x].target))
    BY <1>1, <1>2, <1>5 DEF To
  <2>2. Only(x) /\ run'[x].step = AfterCount(m, seen) /\ run'[x].doing = "none"
    BY <1>2, <2>1, GoEffect, AtFields DEF Only
  <2>3. AfterCount(m, seen) \in {"save", "read", "clear"}
    BY DEF AfterCount
  <2>4. Keeps(mem.status)
    BY <1>3, <2>1 DEF Keeps
  <2> QED
    BY <1>1, <1>2, <2>2, <2>3, <2>4, LightQuiet
<1> QED
  BY <1>4, <1>5

LEMMA AnnouncedCases ==
  ASSUME TypeOK, RunOK, NEW x \in Runs, NEW stored \in {mem, saved}, Announced(x, stored)
  PROVE  Chooses(x) \/ FindsNone(x)
<1>1. /\ run[x].step = "announce" /\ alive /\ Stores /\ UNCHANGED <<alive, promoted, dns>>
      /\ run[x].doing # "none"
  BY AliveRun DEF Announced, Stores, outside, RunOK, Switching
<1>2. CASE run[x].doing = "recovery" /\ Go(x, At(run[x], "promote", run[x].doing, Primary))
           /\ UNCHANGED mishaps
  BY <1>1, <1>2, GoEffect, AtFields, PrimaryIsRegion DEF Chooses, Becomes, Only
<1>3. CASE run[x].doing = "failover" /\ Candidates(run[x].seen) # {} /\ UNCHANGED mishaps
           /\ Go(x, At(run[x], "promote", run[x].doing, NewPrimary(run[x].seen)))
  BY <1>1, <1>3, GoEffect, AtFields, NewPrimaryIsRegion DEF Chooses, Becomes, Only
<1>4. CASE run[x].doing = "failover" /\ Mishap({"no target"})
           /\ Go(x, IF run[x].auto THEN Ended(run[x], "save") ELSE Idle)
  <2>1. Becomes(x, "save", "none") \/ Becomes(x, "idle", "none")
    <3>1. CASE run[x].auto
      <4>1. run'[x] = Ended(run[x], "save") /\ \A y \in Runs : y # x => run'[y] = run[y]
        BY <1>4, <3>1, GoEffect
      <4>2. run'[x].step = "save" /\ run'[x].doing = "none"
        BY <4>1, EndedFields
      <4> QED
        BY <1>1, <4>1, <4>2 DEF Becomes, Only
    <3>2. CASE ~run[x].auto
      <4>1. run'[x] = Idle /\ \A y \in Runs : y # x => run'[y] = run[y]
        BY <1>4, <3>2, GoEffect
      <4> QED
        BY <1>1, <4>1, IdleFields DEF Becomes, Only
    <3> QED
      BY <3>1, <3>2
  <2> QED
    BY <1>1, <1>4, <2>1 DEF FindsNone, More, Mishap
<1> QED
  BY <1>2, <1>3, <1>4 DEF Announced

LEMMA CountReadQuiet ==
  ASSUME TypeOK, RunOK, NEW x \in Runs, NEW n, CountRead(x, n)
  PROVE  Quiet
<1>1. /\ run[x].step = "read" /\ Same /\ mem' = mem /\ mishaps' = mishaps
      /\ Go(x, Run("count", run[x].auto, run[x].doing, run[x].seen, run[x].target, n))
  BY DEF CountRead, Same, outside, control, history
<1>2. ~Switching(x) /\ ~Owes(x) /\ run[x].doing = "none" /\ alive
  BY <1>1, FreeRun, NotSwitching
<1>3. Only(x) /\ run'[x].step = "count" /\ run'[x].doing = "none"
  BY <1>1, <1>2, GoEffect, CallFields DEF Only
<1> QED
  BY <1>1, <1>2, <1>3, LightQuiet DEF Keeps, More

LEMMA CountStoredCases ==
  ASSUME TypeOK, RunOK, NEW x \in Runs, NEW stored, CountStored(x, stored)
  PROVE  Quiet \/ BeginsRecovery(x)
<1>1. run[x].step = "count" /\ Same
  BY DEF CountStored, Same, outside
<1>2. ~Switching(x) /\ ~Owes(x) /\ run[x].doing = "none" /\ alive
  BY <1>1, FreeRun, NotSwitching
<1>3. CASE /\ mem' = Status(mem, "recovering")
           /\ Go(x, At(run[x], "announce", "recovery", None))
           /\ Mishap(IF FailingOver # {} THEN {"crossed"} ELSE {})
  <2>1. Becomes(x, "announce", "recovery") /\ Keeps("recovering")
    BY <1>2, <1>3, GoEffect, AtFields, StatusFields DEF Becomes, Only, Keeps
  <2>2. More({}) /\ (FailingOver # {} => More({"crossed"}))
    BY <1>3 DEF More, Mishap
  <2> QED
    BY <1>1, <1>2, <2>1, <2>2 DEF BeginsRecovery, Begins
<1>4. CASE Go(x, IF run[x].auto THEN Ended(run[x], "save") ELSE Idle) /\ UNCHANGED <<mem, mishaps>>
  <2>1. Only(x) /\ run'[x].step \in {"save", "idle"} /\ run'[x].doing = "none"
    <3>1. CASE run[x].auto
      BY <1>2, <1>4, <3>1, GoEffect, EndedFields DEF Only
    <3>2. CASE ~run[x].auto
      BY <1>2, <1>4, <3>2, GoEffect, IdleFields DEF Only
    <3> QED
      BY <3>1, <3>2
  <2> QED
    BY <1>1, <1>2, <1>4, <2>1, LightQuiet DEF Keeps, More
<1> QED
  BY <1>3, <1>4 DEF CountStored

LEMMA ClearQuiet ==
  ASSUME TypeOK, RunOK, NEW x \in Runs, run[x].step = "clear", To(x, "save"),
         UNCHANGED <<outside, control>>, More({})
  PROVE  Quiet
<1>1. ~Switching(x) /\ run[x].doing = "none" /\ alive
  BY NotSwitching
<1>2. Only(x) /\ run'[x].step = "save" /\ run'[x].doing = "none"
  BY <1>1, GoEffect, AtFields DEF Only, To
<1> QED
  BY <1>1, <1>2, LightQuiet DEF Keeps, Same, outside, control

LEMMA SavesStep ==
  ASSUME TypeOK, RunOK, NEW x \in Runs, run[x].step = "save", Go(x, Idle), alive' = alive,
         promoted' = promoted, dns' = dns, mem' = mem
  PROVE  /\ saved' = mem /\ mishaps' = mishaps => Saves(x)
         /\ saved' = saved /\ More({"unsaved"}) => Saves(x)
<1>1. alive
  BY AliveRun
<1>2. alive' = alive /\ Becomes(x, "idle", "none")
  BY <1>1, GoEffect, IdleFields DEF Becomes, Only
<1> QED
  BY <1>2 DEF Saves

SwitchStep(x) == \/ BeginsFailover(x) \/ BeginsRecovery(x) \/ Chooses(x) \/ FindsNone(x)
                 \/ Promotes(x) \/ Points(x) \/ Throws(x) \/ Switches(x) \/ Saves(x)

LEMMA WorldCases ==
  ASSUME TypeOK, RunOK, NEW x \in Runs,
         Promote(x) \/ PointDns(x) \/ StepThrows(x) \/ Switch(x)
  PROVE  SwitchStep(x)
<1>1. alive
  BY AliveRun DEF Promote, PointDns, StepThrows, Switch
<1>2. CASE Promote(x)
  <2>1. Go(x, At(run[x], "dns", run[x].doing, run[x].target))
    BY <1>2 DEF Promote, To
  <2>2. Becomes(x, "dns", run[x].doing) /\ run'[x].target = run[x].target
    BY <1>1, <2>1, GoEffect, AtFields DEF Becomes, Only
  <2> QED
    BY <1>2, <2>2 DEF SwitchStep, Promotes, Promote, Heeded, More, Mishap, control
<1>3. CASE PointDns(x)
  <2>1. Go(x, At(run[x], "pointed", run[x].doing, run[x].target))
    BY <1>3 DEF PointDns, To
  <2>2. Becomes(x, "pointed", run[x].doing) /\ run'[x].target = run[x].target
    BY <1>1, <2>1, GoEffect, AtFields DEF Becomes, Only
  <2> QED
    BY <1>3, <2>2 DEF SwitchStep, Points, PointDns, Heeded, More, Mishap, control
<1>4. CASE StepThrows(x)
  <2>0. Go(x, Ended(run[x], "save")) /\ mem' = Status(mem, StatusAfterError(run[x]))
    BY <1>4 DEF StepThrows
  <2>1. Becomes(x, "save", "none")
    BY <1>1, <2>0, GoEffect, EndedFields DEF Becomes, Only
  <2>2. Keeps(StatusAfterError(run[x]))
    BY <2>0, StatusFields DEF Keeps
  <2> QED
    BY <1>4, <2>1, <2>2 DEF SwitchStep, Throws, StepThrows, Same, More, Mishap, outside
<1>5. CASE Switch(x)
  <2>1. Go(x, Ended(run[x], "save")) \/ Go(x, Ended(run[x], "clear"))
    BY <1>5 DEF Switch
  <2>2. Becomes(x, "save", "none") \/ Becomes(x, "clear", "none")
    BY <1>1, <2>1, GoEffect, EndedFields DEF Becomes, Only
  <2>3. mem'.current = run[x].target /\ mem'.status = StatusAfterSwitch(run[x])
    BY <1>5, MemFields DEF Switch
  <2> QED
    BY <1>5, <2>2, <2>3 DEF SwitchStep, Switches, Switch, outside, history
<1> QED
  BY <1>2, <1>3, <1>4, <1>5

LEMMA StepCases ==
  ASSUME TypeOK, RunOK, [Next]_vars
  PROVE  Quiet \/ (\E x \in Runs : SwitchStep(x)) \/ Crashes \/ Boots
<1>1. CASE \/ UNCHANGED vars \/ CountExpires
           \/ \E r \in RegionSet : HealthChanges(r)
  BY <1>1 DEF vars, CountExpires, HealthChanges, Quiet, Same, Keeps, More, outside, control,
              history
<1>2. ASSUME NEW x \in Runs, Tick(x)
      PROVE  Quiet
  <2>1. /\ Same /\ mem' = mem /\ mishaps' = mishaps /\ alive /\ Free(x)
        /\ Go(x, Run("probing", TRUE, "none", up, None, 0))
    BY <1>2 DEF Tick, Same, outside, control, history
  <2>2. Only(x) /\ run'[x].step = "probing" /\ run'[x].doing = "none"
    <3>1. run'[x] = Run("probing", TRUE, "none", up, None, 0) /\ Only(x)
      BY <2>1, GoEffect DEF Only
    <3> QED
      BY <3>1 DEF Run
  <2> QED
    BY <2>1, <2>2, FreeRun, LightQuiet DEF Keeps, More
<1>3. ASSUME NEW x \in Runs, NEW target \in Secondaries, ManualFailover(x, target)
      PROVE  BeginsFailover(x)
  <2>1. /\ Same /\ alive /\ Free(x) /\ mem.status # "failover_in_progress"
        /\ mem' = Status(mem, "failover_in_progress")
        /\ \E k : Go(x, At(k, "announce", "failover", None))
        /\ Mishap(IF Recovering # {} THEN {"crossed"} ELSE {})
    BY <1>3 DEF ManualFailover, BeginFailover, MayFailOver, Same, outside
  <2>2. Becomes(x, "announce", "failover")
    BY <2>1, GoEffect, AtFields DEF Becomes, Only
  <2>3. Keeps("failover_in_progress")
    BY <2>1, StatusFields DEF Keeps
  <2>4. More({}) /\ (Recovering # {} => More({"crossed"}))
    BY <2>1 DEF More, Mishap
  <2> QED
    BY <2>1, <2>2, <2>3, <2>4, FreeRun DEF BeginsFailover, Begins
<1>4. ASSUME NEW x \in Runs, ManualRecovery(x)
      PROVE  Quiet
  <2>1. /\ Same /\ mem' = mem /\ mishaps' = mishaps /\ alive /\ Free(x)
        /\ Go(x, Run("count", FALSE, "none", {}, None, RecoveryThreshold - 1))
    BY <1>4 DEF ManualRecovery, Same, outside, control
  <2>2. Only(x) /\ run'[x].step = "count" /\ run'[x].doing = "none"
    <3>1. run'[x] = Run("count", FALSE, "none", {}, None, RecoveryThreshold - 1) /\ Only(x)
      BY <2>1, GoEffect DEF Only
    <3> QED
      BY <3>1 DEF Run
  <2> QED
    BY <2>1, <2>2, FreeRun, LightQuiet DEF Keeps, More
<1>5. ASSUME NEW x \in Runs, RunStep(x)
      PROVE  Quiet \/ SwitchStep(x)
  <2>1. CASE Evaluate(x)
    BY <2>1, EvaluateCases DEF SwitchStep
  <2>2. CASE Announce(x)
    BY <2>2, AnnouncedCases DEF SwitchStep, Announce
  <2>3. CASE Promote(x) \/ PointDns(x) \/ Switch(x)
    BY <2>3, WorldCases
  <2>4. CASE ReadCount(x)
    BY <2>4, CountReadQuiet DEF ReadCount
  <2>5. CASE CountRecovery(x)
    <3>1. CountStored(x, TRUE)
      BY <2>5 DEF CountRecovery
    <3>2. Quiet \/ BeginsRecovery(x)
      BY <3>1, CountStoredCases
    <3> QED
      BY <3>2 DEF SwitchStep
  <2>6. CASE ClearCount(x)
    BY <2>6, ClearQuiet DEF ClearCount, More
  <2>7. CASE SaveOnce(x)
    <3>1. /\ run[x].step = "save" /\ Go(x, Idle) /\ alive' = alive /\ mem' = mem
          /\ promoted' = promoted /\ dns' = dns /\ saved' = mem /\ mishaps' = mishaps
      BY <2>7 DEF SaveOnce, history, outside
    <3>2. Saves(x)
      BY <3>1, SavesStep
    <3> QED
      BY <3>2 DEF SwitchStep
  <2> QED
    BY <1>5, <2>1, <2>2, <2>3, <2>4, <2>5, <2>6, <2>7 DEF RunStep
<1>6. ASSUME NEW x \in Runs, RedisFails(x)
      PROVE  Quiet \/ SwitchStep(x)
  <2>1. CASE Announced(x, saved)
    BY <2>1, AnnouncedCases DEF SwitchStep
  <2>2. CASE CountRead(x, 0)
    BY <2>2, CountReadQuiet
  <2>3. CASE CountStored(x, FALSE)
    BY <2>3, CountStoredCases DEF SwitchStep
  <2>4. CASE /\ run[x].step = "clear" /\ To(x, "save")
             /\ UNCHANGED <<outside, control, recoveryCount, streak, mishaps>>
    BY <2>4, ClearQuiet DEF More
  <2>5. CASE /\ run[x].step = "save" /\ Go(x, Idle) /\ Mishap({"unsaved"})
             /\ UNCHANGED <<outside, control, recoveryCount, streak, leftover>>
    <3>1. /\ run[x].step = "save" /\ Go(x, Idle) /\ alive' = alive /\ mem' = mem
          /\ promoted' = promoted /\ dns' = dns /\ saved' = saved /\ More({"unsaved"})
      BY <2>5 DEF control, outside, More, Mishap
    <3>2. Saves(x)
      BY <3>1, SavesStep
    <3> QED
      BY <3>2 DEF SwitchStep
  <2> QED
    BY <1>6, <2>1, <2>2, <2>3, <2>4, <2>5 DEF RedisFails
<1>7. CASE Crash
  <2>1. \A x \in Runs : run'[x] = Idle
    BY <1>7 DEF Crash
  <2> QED
    BY <1>7, <2>1 DEF Crash, Crashes, More, Mishap, outside
<1>8. CASE Boot
  BY <1>8 DEF Boot, Boots, Loaded, More, Mishap, outside
<1> QED
  BY <1>1, <1>2, <1>3, <1>4, <1>5, <1>6, <1>7, <1>8, WorldCases DEF Next, SwitchStep

-----------------------------------------------------------------------------
(* The parts of the invariant, step by step.                               *)
LEMMA SwitchTests ==
  ASSUME NEW x \in Runs
  PROVE  /\ Switching(x) <=> run[x].step \in {"announce", "promote", "dns", "pointed"}
         /\ x \in FailingOver <=> Switching(x) /\ run[x].doing = "failover"
         /\ x \in Recovering <=> Switching(x) /\ run[x].doing = "recovery"
BY DEF Switching, FailingOver, Recovering

(* What a switch step leaves alone.                                        *)
LEMMA SwitchStepOnly ==
  ASSUME TypeOK, NEW x \in Runs, SwitchStep(x)
  PROVE  Only(x) /\ alive' = alive
BY DEF SwitchStep, BeginsFailover, BeginsRecovery, Begins, Chooses, FindsNone, Promotes, Points,
       Throws, Switches, Saves, Becomes, Same

LEMMA RunOKStep ==
  ASSUME TypeOK, RunOK, [Next]_vars
  PROVE  RunOK'
<1>1. CASE Quiet
  BY <1>1 DEF Quiet, Light, Same, RunOK, Switching
<1>2. ASSUME NEW x \in Runs, SwitchStep(x)
      PROVE  RunOK'
  <2>1. alive' /\ \A y \in Runs : y # x => run'[y] = run[y]
    BY <1>2, SwitchStepOnly DEF Only
  <2>2. CASE BeginsFailover(x) \/ BeginsRecovery(x)
    BY <2>1, <2>2 DEF BeginsFailover, BeginsRecovery, Begins, Becomes, RunOK, Switching
  <2>3. CASE Chooses(x)
    BY <2>1, <2>3 DEF Chooses, Becomes, RunOK, Switching
  <2>4. CASE FindsNone(x) \/ Throws(x) \/ Switches(x) \/ Saves(x)
    BY <2>1, <2>4 DEF FindsNone, Throws, Switches, Saves, Becomes, RunOK, Switching
  <2>5. CASE Promotes(x) \/ Points(x)
    BY <2>1, <2>5 DEF Promotes, Points, Becomes, RunOK, Switching
  <2> QED
    BY <1>2, <2>2, <2>3, <2>4, <2>5 DEF SwitchStep
<1>3. CASE Crashes
  BY <1>3, IdleFields DEF Crashes, RunOK, Switching
<1>4. CASE Boots
  BY <1>4 DEF Boots, RunOK, Switching
<1> QED
  BY <1>1, <1>2, <1>3, <1>4, StepCases

LEMMA QuietSame ==
  ASSUME Quiet
  PROVE  /\ FailingOver' = FailingOver /\ Recovering' = Recovering
         /\ Owed => Owed'
         /\ mishaps \subseteq mishaps'
         /\ \A y \in Runs : /\ Moved(y)' <=> Moved(y)
                            /\ Pointed(y)' <=> Pointed(y)
                            /\ Moved(y) \/ Pointed(y) => run'[y].target = run[y].target
<1>1. \A y \in Runs : run'[y] = run[y] \/ (~Switching(y) /\ ~Switching(y)')
  BY DEF Quiet, Light
<1>2. FailingOver' = FailingOver /\ Recovering' = Recovering
  BY <1>1 DEF FailingOver, Recovering, Switching
<1>3. ASSUME NEW y \in Runs, Owes(y)
      PROVE  Owes(y)'
  BY <1>3 DEF Quiet, Light, Owes
<1>4. \A y \in Runs : /\ Moved(y)' <=> Moved(y)
                      /\ Pointed(y)' <=> Pointed(y)
                      /\ Moved(y) \/ Pointed(y) => run'[y].target = run[y].target
  BY <1>1 DEF Switching, Moved, Pointed
<1> QED
  BY <1>2, <1>3, <1>4 DEF Owed, Quiet, More

LEMMA OthersSame ==
  ASSUME NEW x \in Runs, Only(x)
  PROVE  \A y \in Runs : y # x =>
           /\ y \in FailingOver' <=> y \in FailingOver
           /\ y \in Recovering' <=> y \in Recovering
           /\ Owes(y)' <=> Owes(y)
           /\ Moved(y)' <=> Moved(y)
           /\ Pointed(y)' <=> Pointed(y)
           /\ run'[y] = run[y]
BY DEF Only, FailingOver, Recovering, Switching, Owes, Moved, Pointed

LEMMA MishapsGrow ==
  ASSUME Quiet \/ (\E x \in Runs : SwitchStep(x)) \/ Crashes \/ Boots
  PROVE  mishaps \subseteq mishaps'
BY DEF Quiet, SwitchStep, BeginsFailover, BeginsRecovery, Begins, Chooses, FindsNone, Promotes,
       Points, Throws, Switches, Saves, Crashes, Boots, More

LEMMA CrossStep ==
  ASSUME TypeOK, RunOK, CrossOK, [Next]_vars
  PROVE  CrossOK'
<1> SUFFICES ASSUME "crossed" \notin mishaps', NEW z \in FailingOver'
             PROVE  /\ mem'.status = "failover_in_progress" /\ Recovering' = {}
                    /\ \A y \in FailingOver' : y = z
  BY DEF CrossOK
<1>0. "crossed" \notin mishaps
  BY MishapsGrow, StepCases
<1>z. z \in Runs /\ \A y \in FailingOver' \cup Recovering' : y \in Runs
  BY DEF FailingOver, Recovering
<1>1. CASE Quiet
  <2>1. FailingOver' = FailingOver /\ Recovering' = Recovering
    BY <1>1, QuietSame
  <2>2. mem'.status = mem.status
    BY <1>1 DEF Quiet, Keeps
  <2> QED
    BY <1>0, <2>1, <2>2 DEF CrossOK
<1>2. ASSUME NEW x \in Runs, SwitchStep(x)
      PROVE  /\ mem'.status = "failover_in_progress" /\ Recovering' = {}
             /\ \A y \in FailingOver' : y = z
  <2>1. \A y \in Runs : y # x => /\ y \in FailingOver' <=> y \in FailingOver
                                 /\ y \in Recovering' <=> y \in Recovering
    BY <1>2, SwitchStepOnly, OthersSame
  <2>2. CASE BeginsFailover(x)
    <3>1. FailingOver = {} /\ Recovering = {} /\ mem'.status = "failover_in_progress"
      BY <1>0, <2>2 DEF BeginsFailover, Begins, Keeps, CrossOK, More
    <3>2. x \notin Recovering'
      BY <2>2 DEF BeginsFailover, Begins, Becomes, Recovering
    <3> QED
      BY <1>z, <2>1, <3>1, <3>2
  <2>3. CASE BeginsRecovery(x)
    <3>1. FailingOver = {}
      BY <1>0, <2>3 DEF BeginsRecovery, More
    <3>2. x \notin FailingOver'
      BY <2>3 DEF BeginsRecovery, Begins, Becomes, FailingOver
    <3> QED
      BY <1>z, <2>1, <3>1, <3>2
  <2>4. CASE FindsNone(x) \/ Throws(x) \/ Switches(x)
    <3>1. x \notin FailingOver' /\ x \notin Recovering'
      BY <2>4 DEF FindsNone, Throws, Switches, Becomes, FailingOver, Recovering
    <3>2. z \in FailingOver /\ z # x
      BY <1>z, <2>1, <3>1
    <3>3. x \in FailingOver \cup Recovering
      BY <2>4, SwitchTests, TypeParts DEF FindsNone, Throws, Switches, RunOK, Call
    <3> QED
      BY <1>0, <3>2, <3>3 DEF CrossOK
  <2>5. CASE Chooses(x) \/ Promotes(x) \/ Points(x) \/ Saves(x)
    <3>1. mem' = mem /\ run'[x].doing = run[x].doing /\ (Switching(x)' <=> Switching(x))
      BY <2>5 DEF Chooses, Promotes, Points, Saves, Becomes, Switching, RunOK, Stores
    <3>2. FailingOver' = FailingOver /\ Recovering' = Recovering
      BY <2>1, <3>1 DEF FailingOver, Recovering
    <3> QED
      BY <1>0, <3>1, <3>2 DEF CrossOK
  <2> QED
    BY <1>2, <2>2, <2>3, <2>4, <2>5 DEF SwitchStep
<1>3. CASE Crashes
  <2>1. FailingOver' = {}
    BY <1>3, IdleFields DEF Crashes, FailingOver
  <2> QED
    BY <2>1
<1>4. CASE Boots
  <2>1. FailingOver = {}
    BY <1>4, IdleFields DEF Boots, RunOK, FailingOver
  <2>2. FailingOver' = FailingOver
    BY <1>4 DEF Boots, FailingOver, Switching
  <2> QED
    BY <2>1, <2>2
<1> QED
  BY <1>1, <1>2, <1>3, <1>4, StepCases

-----------------------------------------------------------------------------
(* Without a crossing all runs that switch do the same: one failover, or     *)
(* recoveries, which have one target.                                      *)
LEMMA OneTarget ==
  ASSUME RunOK, TypeOK, CrossOK, "crossed" \notin mishaps,
         NEW x \in Runs, NEW y \in Runs, Switching(x), Switching(y)
  PROVE  /\ x # y => run[x].doing = "recovery" /\ run[y].doing = "recovery"
         /\ run[x].step \in {"promote", "dns", "pointed"}
            /\ run[y].step \in {"promote", "dns", "pointed"} => run[x].target = run[y].target
<1>1. /\ run[x].doing \in {"none", "failover", "recovery"} /\ run[x].doing # "none"
      /\ run[y].doing \in {"none", "failover", "recovery"} /\ run[y].doing # "none"
  BY TypeParts DEF Call, RunOK
<1>2. /\ run[x].doing = "failover" => x \in FailingOver
      /\ run[x].doing = "recovery" => x \in Recovering
      /\ run[y].doing = "failover" => y \in FailingOver
      /\ run[y].doing = "recovery" => y \in Recovering
  BY SwitchTests
<1>3. x # y => run[x].doing = "recovery" /\ run[y].doing = "recovery"
  BY <1>1, <1>2 DEF CrossOK
<1> QED
  BY <1>3 DEF RunOK

LEMMA WorldStep ==
  ASSUME TypeOK, RunOK, CrossOK, WorldOK, SavedOK, [Next]_vars
  PROVE  WorldOK'
<1> DEFINE World == /\ \A y \in Runs : Moved(y)' => promoted' = run'[y].target
                    /\ (\A y \in Runs : ~Moved(y)') => promoted' = mem'.current
                    /\ \A y \in Runs : Pointed(y)' => dns' = run'[y].target
                    /\ (\A y \in Runs : ~Pointed(y)') => dns' = mem'.current
<1> SUFFICES ASSUME Clean', alive'
             PROVE  World
  BY DEF WorldOK
<1>0. Clean /\ "crossed" \notin mishaps /\ mishaps \subseteq mishaps'
  BY MishapsGrow, StepCases DEF Clean
<1>w. alive => /\ \A y \in Runs : Moved(y) => promoted = run[y].target
               /\ (\A y \in Runs : ~Moved(y)) => promoted = mem.current
               /\ \A y \in Runs : Pointed(y) => dns = run[y].target
               /\ (\A y \in Runs : ~Pointed(y)) => dns = mem.current
  BY <1>0 DEF WorldOK
<1>m. \A y \in Runs : Moved(y) \/ Pointed(y) => Switching(y)
  BY DEF Moved, Pointed, Switching
<1>1. CASE Quiet
  <2>1. promoted' = promoted /\ dns' = dns /\ mem'.current = mem.current /\ alive
    BY <1>1 DEF Quiet, Same, Keeps
  <2> QED
    BY <1>w, <1>1, <2>1, QuietSame
<1>2. ASSUME NEW x \in Runs, SwitchStep(x)
      PROVE  World
  <2>0. alive /\ \A y \in Runs : y # x => /\ Moved(y)' <=> Moved(y)
                                          /\ Pointed(y)' <=> Pointed(y)
                                          /\ run'[y] = run[y]
    BY <1>2, SwitchStepOnly, OthersSame DEF Only
  <2>1. CASE \/ BeginsFailover(x) \/ BeginsRecovery(x) \/ Chooses(x) \/ FindsNone(x)
             \/ Saves(x)
    <3>1. /\ promoted' = promoted /\ dns' = dns /\ mem'.current = mem.current
          /\ ~Moved(x) /\ ~Moved(x)' /\ ~Pointed(x) /\ ~Pointed(x)'
      BY <2>1 DEF BeginsFailover, BeginsRecovery, Begins, Chooses, FindsNone, Saves, Stores,
                  Same, Keeps, Becomes, Moved, Pointed, Switching
    <3> QED
      BY <1>w, <2>0, <3>1
  <2>2. CASE Throws(x)
    <3>1. run[x].step = "promote"
      BY <2>2 DEF Throws, More, Clean
    <3>2. /\ promoted' = promoted /\ dns' = dns /\ mem'.current = mem.current
          /\ ~Moved(x) /\ ~Moved(x)' /\ ~Pointed(x) /\ ~Pointed(x)'
      BY <2>2, <3>1 DEF Throws, Same, Keeps, Becomes, Moved, Pointed
    <3> QED
      BY <1>w, <2>0, <3>2
  <2>3. CASE Promotes(x)
    <3>1. /\ promoted' = run[x].target /\ dns' = dns /\ mem' = mem /\ run'[x].target = run[x].target
          /\ run[x].step = "promote" /\ Moved(x)' /\ ~Pointed(x) /\ ~Pointed(x)'
      BY <2>3 DEF Promotes, Becomes, Moved, Pointed, More, Clean
    <3>2. ASSUME NEW y \in Runs, Moved(y)
          PROVE  run[y].target = run[x].target
      BY <1>0, <1>m, <3>1, <3>2, OneTarget DEF Moved, Switching
    <3> QED
      BY <1>w, <2>0, <3>1, <3>2
  <2>4. CASE Points(x)
    <3>1. /\ promoted' = promoted /\ dns' = run[x].target /\ mem' = mem
          /\ run'[x].target = run[x].target
          /\ run[x].step = "dns" /\ Moved(x) /\ Moved(x)' /\ Pointed(x)'
      BY <2>4 DEF Points, Becomes, Moved, Pointed, More, Clean
    <3>2. ASSUME NEW y \in Runs, Pointed(y)
          PROVE  run[y].target = run[x].target
      BY <1>0, <1>m, <3>1, <3>2, OneTarget DEF Moved, Pointed, Switching
    <3> QED
      BY <1>w, <2>0, <3>1, <3>2
  <2>5. CASE Switches(x)
    <3>1. /\ promoted' = promoted /\ dns' = dns /\ mem'.current = run[x].target
          /\ Moved(x) /\ Pointed(x) /\ ~Moved(x)' /\ ~Pointed(x)'
      BY <2>5 DEF Switches, Becomes, Moved, Pointed
    <3> QED
      BY <1>w, <2>0, <3>1
  <2> QED
    BY <1>2, <2>1, <2>2, <2>3, <2>4, <2>5 DEF SwitchStep
<1>3. CASE Crashes
  BY <1>3 DEF Crashes
<1>4. CASE Boots
  <2>1. /\ ~alive /\ run' = run /\ promoted' = promoted /\ dns' = dns
        /\ mem' = saved
    BY <1>4 DEF Boots, More, Clean
  <2>2. \A y \in Runs : ~Moved(y)' /\ ~Pointed(y)'
    BY <2>1, IdleFields DEF RunOK, Moved, Pointed
  <2>3. saved.current = promoted /\ saved.current = dns
    BY <1>0, <2>1 DEF SavedOK
  <2> QED
    BY <2>1, <2>2, <2>3
<1> QED
  BY <1>1, <1>2, <1>3, <1>4, StepCases

LEMMA SavedStep ==
  ASSUME TypeOK, RunOK, WorldOK, SavedOK, [Next]_vars
  PROVE  SavedOK'
<1> SUFFICES ASSUME Clean'
             PROVE  /\ alive' => saved'.current = mem'.current \/ Owed'
                    /\ ~alive' => saved'.current = promoted' /\ saved'.current = dns'
  BY DEF SavedOK
<1>0. Clean
  BY MishapsGrow, StepCases DEF Clean
<1>1. CASE Quiet
  <2>1. promoted' = promoted /\ dns' = dns /\ mem'.current = mem.current /\ saved' = saved
        /\ alive' = alive
    BY <1>1 DEF Quiet, Same, Keeps
  <2> QED
    BY <1>0, <1>1, <2>1, QuietSame DEF SavedOK
<1>2. ASSUME NEW x \in Runs, SwitchStep(x)
      PROVE  alive' /\ (saved'.current = mem'.current \/ Owed')
  <2>0. alive /\ alive' /\ \A y \in Runs : y # x => Owes(y)' <=> Owes(y)
    BY <1>2, SwitchStepOnly, OthersSame DEF Only
  <2>s. saved.current = mem.current \/ Owed
    BY <1>0, <2>0 DEF SavedOK
  <2>1. CASE BeginsFailover(x) \/ BeginsRecovery(x) \/ Promotes(x) \/ Points(x)
             \/ Chooses(x) \/ FindsNone(x)
    <3>1. saved'.current = saved.current \/ saved'.current = mem.current
      BY <2>1 DEF BeginsFailover, BeginsRecovery, Begins, Promotes, Points, Chooses, FindsNone,
                  Same, Stores
    <3>2. mem'.current = mem.current /\ ~Owes(x)
      BY <2>1 DEF BeginsFailover, BeginsRecovery, Begins, Promotes, Points, Chooses, FindsNone,
                  Keeps, Stores, Owes
    <3> QED
      BY <2>0, <2>s, <3>1, <3>2 DEF Owed
  <2>2. CASE Throws(x) \/ Switches(x)
    BY <2>0, <2>2 DEF Throws, Switches, Becomes, Owed, Owes
  <2>3. CASE Saves(x)
    BY <2>0, <2>3 DEF Saves, More, Clean
  <2> QED
    BY <1>2, <2>0, <2>1, <2>2, <2>3 DEF SwitchStep
<1>3. CASE Crashes
  <2>1. /\ saved' = saved /\ promoted' = promoted /\ dns' = dns /\ alive /\ ~alive'
        /\ \A x \in Runs : run[x].step \in {"idle", "probing"}
    BY <1>3 DEF Crashes, More, Clean
  <2>2. ~Owed /\ \A x \in Runs : ~Moved(x) /\ ~Pointed(x)
    BY <2>1 DEF Owed, Owes, Moved, Pointed
  <2> QED
    BY <1>0, <2>1, <2>2 DEF SavedOK, WorldOK
<1>4. CASE Boots
  BY <1>4 DEF Boots, More, Clean
<1> QED
  BY <1>1, <1>2, <1>3, <1>4, StepCases

LEMMA TransientStep ==
  ASSUME TypeOK, RunOK, TransientOK, [Next]_vars
  PROVE  TransientOK'
<1> DEFINE Transient ==
             /\ mem'.status = "recovering" => Recovering' # {}
             /\ saved'.status = "recovering" => Recovering' # {} \/ Owed'
             /\ "no target" \notin mishaps' =>
                  /\ mem'.status = "failover_in_progress" => FailingOver' # {}
                  /\ saved'.status = "failover_in_progress" => FailingOver' # {} \/ Owed'
<1> SUFFICES ASSUME Kept'
             PROVE  Transient
  BY DEF TransientOK
<1>0. Kept /\ mishaps \subseteq mishaps'
  BY MishapsGrow, StepCases DEF Kept
<1>t. /\ mem.status = "recovering" => Recovering # {}
      /\ saved.status = "recovering" => Recovering # {} \/ Owed
      /\ "no target" \notin mishaps =>
           /\ mem.status = "failover_in_progress" => FailingOver # {}
           /\ saved.status = "failover_in_progress" => FailingOver # {} \/ Owed
  BY <1>0 DEF TransientOK
<1>r. FailingOver \subseteq Runs /\ Recovering \subseteq Runs
  BY DEF FailingOver, Recovering
<1>1. CASE Quiet
  <2>1. mem'.status = mem.status /\ saved' = saved
    BY <1>1 DEF Quiet, Same, Keeps
  <2>2. FailingOver' = FailingOver /\ Recovering' = Recovering /\ (Owed => Owed')
    BY <1>1, QuietSame
  <2> QED
    BY <1>0, <1>t, <2>1, <2>2
<1>2. ASSUME NEW x \in Runs, SwitchStep(x)
      PROVE  Transient
  <2>0. \A y \in Runs : y # x => /\ y \in FailingOver' <=> y \in FailingOver
                                 /\ y \in Recovering' <=> y \in Recovering
                                 /\ Owes(y)' <=> Owes(y)
    BY <1>2, SwitchStepOnly, OthersSame
  <2>1. CASE BeginsFailover(x) \/ BeginsRecovery(x)
    <3>1. saved' = saved /\ ~Switching(x) /\ ~Owes(x)
      BY <2>1 DEF BeginsFailover, BeginsRecovery, Begins, Same
    <3>2. /\ Owed => Owed'
          /\ FailingOver # {} => FailingOver' # {}
          /\ Recovering # {} => Recovering' # {}
      <4>1. x \notin FailingOver /\ x \notin Recovering
        BY <3>1, SwitchTests
      <4> QED
        BY <1>r, <2>0, <3>1, <4>1 DEF Owed
    <3>3. \/ mem'.status = "failover_in_progress" /\ x \in FailingOver'
          \/ mem'.status = "recovering" /\ x \in Recovering'
      BY <2>1 DEF BeginsFailover, BeginsRecovery, Begins, Becomes, Keeps, FailingOver, Recovering,
                  Switching
    <3> QED
      BY <1>0, <1>t, <3>1, <3>2, <3>3
  <2>2. CASE Chooses(x) \/ Promotes(x) \/ Points(x) \/ Saves(x)
    <3>1. run'[x].doing = run[x].doing /\ (Switching(x)' <=> Switching(x))
      BY <2>2 DEF Chooses, Promotes, Points, Saves, Becomes, Switching, RunOK
    <3>2. FailingOver' = FailingOver /\ Recovering' = Recovering
      BY <2>0, <3>1 DEF FailingOver, Recovering
    <3>3. /\ mem' = mem
          /\ \/ saved' = mem
             \/ saved' = saved /\ ~Owes(x)
      BY <2>2 DEF Chooses, Promotes, Points, Saves, Stores, Owes, More, Kept
    <3>4. ~Owes(x) /\ Owed => Owed'
      BY <2>0 DEF Owed
    <3> QED
      BY <1>0, <1>t, <3>2, <3>3, <3>4
  <2>3. CASE FindsNone(x)
    <3>1. /\ mem' = mem /\ (saved' = mem \/ saved' = saved) /\ "no target" \in mishaps'
          /\ ~Owes(x)
      BY <2>3 DEF FindsNone, Stores, More, Owes
    <3>2. x \notin Recovering /\ x \notin Recovering'
      BY <2>3 DEF FindsNone, Becomes, Recovering
    <3>3. Recovering' = Recovering
      BY <1>r, <2>0, <3>2 DEF Recovering
    <3>4. Owed => Owed'
      BY <2>0, <3>1 DEF Owed
    <3> QED
      BY <1>t, <3>1, <3>3, <3>4
  <2>4. CASE Throws(x) \/ Switches(x)
    <3>1. Owed'
      BY <2>4 DEF Throws, Switches, Becomes, Owed, Owes
    <3>2. mem'.status \in {"normal", "failed_over"}
      BY <2>4 DEF Throws, Switches, Keeps, StatusAfterError, StatusAfterSwitch
    <3> QED
      BY <3>1, <3>2
  <2> QED
    BY <1>2, <2>1, <2>2, <2>3, <2>4 DEF SwitchStep
<1>3. CASE Crashes
  <2>1. /\ saved' = saved /\ mem'.status = "normal"
        /\ \A x \in Runs : run[x].step \in {"idle", "probing"}
    BY <1>3, IdleFields DEF Crashes, More, Kept
  <2>2. ~Owed /\ FailingOver = {} /\ Recovering = {}
    BY <2>1 DEF Owed, Owes, FailingOver, Recovering, Switching
  <2> QED
    BY <1>0, <1>t, <2>1, <2>2
<1>4. CASE Boots
  <2>1. mem' = saved /\ saved' = saved /\ run' = run /\ ~alive
    BY <1>4 DEF Boots, More, Kept
  <2>2. ~Owed /\ FailingOver = {} /\ Recovering = {}
    BY <2>1, IdleFields DEF RunOK, Owed, Owes, FailingOver, Recovering, Switching
  <2> QED
    BY <1>0, <1>t, <2>1, <2>2
<1> QED
  BY <1>1, <1>2, <1>3, <1>4, StepCases

LEMMA NormalStep ==
  ASSUME TypeOK, RunOK, NormalOK, [Next]_vars
  PROVE  NormalOK'
<1> DEFINE Flaws == {"refused", "half done", "crossed"}
           Normal == /\ mem'.status = "normal" => mem'.current = Primary
                     /\ saved'.status = "normal" => saved'.current = Primary
<1> SUFFICES ASSUME mishaps' \cap Flaws = {}
             PROVE  Normal
  BY DEF NormalOK
<1>0. /\ mishaps \subseteq mishaps'
      /\ mem.status = "normal" => mem.current = Primary
      /\ saved.status = "normal" => saved.current = Primary
  BY MishapsGrow, StepCases DEF NormalOK
<1>1. CASE Quiet
  BY <1>0, <1>1 DEF Quiet, Same, Keeps
<1>2. ASSUME NEW x \in Runs, SwitchStep(x)
      PROVE  Normal
  <2>1. CASE BeginsFailover(x) \/ BeginsRecovery(x)
    BY <1>0, <2>1 DEF BeginsFailover, BeginsRecovery, Begins, Same, Keeps
  <2>2. CASE Chooses(x) \/ FindsNone(x)
    BY <1>0, <2>2 DEF Chooses, FindsNone, Stores
  <2>3. CASE Promotes(x) \/ Points(x) \/ Saves(x)
    BY <1>0, <2>3 DEF Promotes, Points, Saves
  <2>4. CASE Throws(x)
    BY <2>4 DEF Throws, More
  <2>5. CASE Switches(x)
    <3>1. /\ saved' = saved /\ run[x].step = "pointed" /\ mem'.current = run[x].target
          /\ mem'.status = StatusAfterSwitch(run[x])
      BY <2>5 DEF Switches
    <3>2. run[x].doing \in {"none", "failover", "recovery"} /\ run[x].doing # "none"
      BY <3>1, TypeParts DEF Call, RunOK, Switching
    <3>3. run[x].doing = "recovery" => run[x].target = Primary
      BY <3>1 DEF RunOK
    <3> QED
      BY <1>0, <3>1, <3>2, <3>3 DEF StatusAfterSwitch
  <2> QED
    BY <1>2, <2>1, <2>2, <2>3, <2>4, <2>5 DEF SwitchStep
<1>3. CASE Crashes
  BY <1>0, <1>3, IdleFields DEF Crashes
<1>4. CASE Boots
  BY <1>0, <1>4, IdleFields DEF Boots
<1> QED
  BY <1>1, <1>2, <1>3, <1>4, StepCases

-----------------------------------------------------------------------------
(* The count of recoveries against the streak.                             *)
LEMMA NextCountGrows ==
  ASSUME NEW m \in 0..RecoveryThreshold, NEW n \in 0..RecoveryThreshold
  PROVE  /\ m <= n => NextCount(m) <= NextCount(n)
         /\ n <= NextCount(n) /\ NextCount(0) <= NextCount(n) /\ NextCount(n) \in Nat
BY FailoverAssumption DEF NextCount, UpTo

(* A run outside the counting leaves it alone, as long as it clears nothing. *)
LEMMA EarnedElsewhere ==
  ASSUME EarnedOK, ~leftover, NEW x \in Runs,
         \A y \in Runs : y # x => run'[y] = run[y],
         recoveryCount' = recoveryCount, streak' = streak,
         run'[x].step \notin {"read", "count"}, run[x].step # "clear"
  PROVE  EarnedOK'
<1>1. \A y \in Runs : Counting(y)' => Counting(y) /\ y # x
  BY DEF Counting
<1>2. \A y \in Runs : run[y].step = "clear" => run'[y].step = "clear"
  OBVIOUS
<1>3. \A y \in Runs : run'[y].step \in {"read", "count"} => run'[y] = run[y]
  OBVIOUS
<1> QED
  BY <1>1, <1>2, <1>3 DEF EarnedOK, Counting

LEMMA EarnedEvaluate ==
  ASSUME TypeOK, EarnedOK, NEW x \in Runs, Evaluate(x), ~leftover'
  PROVE  EarnedOK'
<1> DEFINE seen == run[x].seen
           m == State(mem.current, mem.status, Counted(seen))
<1>1. /\ run[x].step = "probing" /\ recoveryCount' = recoveryCount
      /\ streak' = IF Primary \in seen THEN NextCount(streak) ELSE 0
      /\ IF Due(m, seen) THEN BeginFailover(x, m, run[x])
         ELSE mem' = m /\ To(x, AfterCount(m, seen))
      /\ ~Beside(x) /\ ~leftover
      /\ Primary \in seen \/ Watching(m, seen) \/ recoveryCount = 0
  BY DEF Evaluate, NextCount
<1>2. \A y \in Runs : y # x => ~Counting(y) /\ run[y].step # "clear"
  BY <1>1 DEF Beside
<1>3. recoveryCount <= streak
  BY <1>1, <1>2 DEF EarnedOK
<1>4. /\ \A y \in Runs : y # x => run'[y] = run[y]
      /\ \/ Due(m, seen) /\ run'[x].step = "announce"
         \/ ~Due(m, seen) /\ run'[x].step = AfterCount(m, seen)
  <2>1. CASE Due(m, seen)
    <3>1. Go(x, At(run[x], "announce", "failover", None))
      BY <1>1, <2>1 DEF BeginFailover
    <3> QED
      BY <2>1, <3>1, GoEffect, AtFields
  <2>2. CASE ~Due(m, seen)
    <3>1. Go(x, At(run[x], AfterCount(m, seen), run[x].doing, run[x].target))
      BY <1>1, <2>2 DEF To
    <3> QED
      BY <2>2, <3>1, GoEffect, AtFields
  <2> QED
    BY <2>1, <2>2
<1>5. \A y, z \in Runs : Counting(y)' /\ Counting(z)' => y = x /\ z = x
  BY <1>2, <1>4 DEF Counting
<1>6. run'[x].step # "count"
  BY <1>4 DEF AfterCount
<1>t. streak \in 0..RecoveryThreshold /\ recoveryCount \in 0..RecoveryThreshold
  BY TypeParts
<1>7. CASE Primary \in seen
  <2>1. streak' = NextCount(streak)
    BY <1>1, <1>7
  <2>2. NextCount(recoveryCount) <= streak' /\ recoveryCount <= streak'
    BY <1>3, <1>t, <2>1, NextCountGrows, FailoverAssumption
  <2> QED
    BY <1>1, <1>5, <1>6, <2>2 DEF EarnedOK, Counting
<1>8. CASE Primary \notin seen
  <2>1. CASE Watching(m, seen)
    <3>1. ~Due(m, seen)
      BY <2>1 DEF Watching, Due
    <3>2. run'[x].step = "clear"
      BY <1>4, <1>8, <2>1, <3>1 DEF AfterCount
    <3> QED
      BY <1>5, <3>2 DEF EarnedOK, Counting
  <2>2. CASE ~Watching(m, seen)
    <3>1. recoveryCount' = 0 /\ streak' = 0
      BY <1>1, <1>8, <2>2
    <3>2. run'[x].step \in {"announce", "save"}
      BY <1>4, <2>2 DEF AfterCount
    <3>3. \A y \in Runs : ~Counting(y)'
      BY <1>2, <1>4, <3>2 DEF Counting
    <3> QED
      BY <3>1, <3>3 DEF EarnedOK, Counting
  <2> QED
    BY <2>1, <2>2
<1> QED
  BY <1>7, <1>8

LEMMA EarnedRead ==
  ASSUME TypeOK, EarnedOK, NEW x \in Runs, NEW n \in {0, recoveryCount}, CountRead(x, n),
         ~leftover'
  PROVE  EarnedOK'
<1>1. /\ run[x].step = "read" /\ recoveryCount' = recoveryCount /\ streak' = streak
      /\ ~leftover
      /\ Go(x, Run("count", run[x].auto, run[x].doing, run[x].seen, run[x].target, n))
  BY DEF CountRead, history
<1>2. /\ run'[x].step = "count" /\ run'[x].count = n
      /\ \A y \in Runs : y # x => run'[y] = run[y]
  BY <1>1, GoEffect, CallFields
<1>3. NextCount(n) <= streak
  <2>1. /\ NextCount(recoveryCount) <= streak /\ recoveryCount \in 0..RecoveryThreshold
        /\ streak \in 0..RecoveryThreshold
    BY <1>1, TypeParts DEF EarnedOK
  <2>2. NextCount(n) <= NextCount(recoveryCount) /\ NextCount(n) \in Nat
        /\ NextCount(recoveryCount) \in Nat
    BY <2>1, NextCountGrows, FailoverAssumption
  <2> QED
    BY <2>1, <2>2, FailoverAssumption
<1>4. \A y \in Runs : Counting(y)' => Counting(y)
  BY <1>1, <1>2 DEF Counting
<1>5. \A y \in Runs : run[y].step = "clear" => run'[y].step = "clear"
  BY <1>1, <1>2
<1> QED
  BY <1>1, <1>2, <1>3, <1>4, <1>5 DEF EarnedOK, Counting

LEMMA EarnedStored ==
  ASSUME TypeOK, EarnedOK, NEW x \in Runs, NEW stored, CountStored(x, stored),
         ~leftover'
  PROVE  EarnedOK'
<1>1. /\ run[x].step = "count" /\ streak' = streak /\ ~leftover
      /\ recoveryCount' = NextCount(run[x].count) \/ recoveryCount' = recoveryCount
      /\ \/ Go(x, At(run[x], "announce", "recovery", None))
         \/ Go(x, Ended(run[x], "save"))
         \/ Go(x, Idle)
  BY DEF CountStored, NextCount
<1>2. /\ run'[x].step \in {"announce", "save", "idle"}
      /\ \A y \in Runs : y # x => run'[y] = run[y]
  BY <1>1, GoEffect, AtFields, EndedFields, IdleFields
<1>3. \A y \in Runs : ~Counting(y)'
  BY <1>1, <1>2 DEF EarnedOK, Counting
<1>4. \A y \in Runs : run[y].step = "clear" => run'[y].step = "clear"
  BY <1>1, <1>2
<1>5. NextCount(run[x].count) <= streak
  BY <1>1 DEF EarnedOK
<1> QED
  BY <1>1, <1>3, <1>4, <1>5 DEF EarnedOK, Counting

(* The count is gone: that breaks no streak, and if no run has read it all    *)
(* that it held is forgotten.                                              *)
LEMMA EarnedReset ==
  ASSUME TypeOK, EarnedOK, Deleted, ~leftover', streak' = streak,
         \A y \in Runs : Counting(y)' => run'[y] = run[y]
  PROVE  EarnedOK'
<1>0. recoveryCount' = 0 /\ (~leftover \/ \A y \in Runs : ~Counting(y))
  BY DEF Deleted
<1>1. /\ recoveryCount \in 0..RecoveryThreshold /\ streak \in 0..RecoveryThreshold
      /\ 0 <= streak
  BY TypeParts, FailoverAssumption
<1>2. NextCount(recoveryCount) <= streak => NextCount(0) <= streak
  <2>1. NextCount(0) <= NextCount(recoveryCount) /\ NextCount(recoveryCount) \in Nat
    BY <1>1, NextCountGrows
  <2>2. NextCount(0) \in Nat
    BY NextCountGrows, FailoverAssumption
  <2> QED
    BY <1>1, <2>1, <2>2, FailoverAssumption
<1>3. \A y \in Runs : Counting(y)' => Counting(y) /\ run'[y] = run[y]
  BY DEF Counting
<1>4. CASE ~leftover
  BY <1>0, <1>1, <1>2, <1>3, <1>4 DEF EarnedOK, Counting
<1>5. CASE \A y \in Runs : ~Counting(y)
  BY <1>0, <1>1, <1>3, <1>5 DEF EarnedOK, Counting
<1> QED
  BY <1>0, <1>4, <1>5

LEMMA EarnedStep ==
  ASSUME TypeOK, EarnedOK, [Next]_vars
  PROVE  EarnedOK'
<1> SUFFICES ASSUME ~leftover'
             PROVE  EarnedOK'
  BY DEF EarnedOK
<1>1. CASE UNCHANGED vars \/ (\E r \in RegionSet : HealthChanges(r)) \/ Boot
  <2>1. run' = run /\ recoveryCount' = recoveryCount /\ streak' = streak
        /\ leftover' = leftover
    BY <1>1 DEF vars, HealthChanges, Boot, history
  <2> QED
    BY <2>1 DEF EarnedOK, Counting
<1>2. ASSUME NEW x \in Runs,
             \/ Tick(x) \/ (\E r \in Secondaries : ManualFailover(x, r)) \/ Announce(x)
             \/ Announced(x, saved) \/ Promote(x) \/ PointDns(x) \/ StepThrows(x)
             \/ Switch(x) \/ SaveOnce(x)
      PROVE  EarnedOK'
  <2>0. /\ recoveryCount' = recoveryCount /\ streak' = streak /\ leftover' = leftover
        /\ run[x].step # "clear"
    <3>1. CASE Tick(x) \/ \E r \in Secondaries : ManualFailover(x, r)
      BY <3>1, IdleFields DEF Tick, ManualFailover, history, Free
    <3>2. CASE Announce(x) \/ Announced(x, saved)
      BY <3>2 DEF Announce, Announced
    <3>3. CASE Promote(x) \/ PointDns(x) \/ StepThrows(x)
      BY <3>3 DEF Promote, PointDns, StepThrows
    <3>4. CASE Switch(x) \/ SaveOnce(x)
      BY <3>4 DEF Switch, SaveOnce, history
    <3> QED
      BY <1>2, <3>1, <3>2, <3>3, <3>4
  <2>1. /\ recoveryCount' = recoveryCount /\ streak' = streak /\ ~leftover
        /\ run[x].step # "clear"
    BY <2>0
  <2>2. ASSUME NEW k, NEW step, NEW doing, NEW target, Go(x, At(k, step, doing, target)),
               step \notin {"read", "count"}
        PROVE  run'[x].step \notin {"read", "count"} /\ \A y \in Runs : y # x => run'[y] = run[y]
    BY <2>2, GoEffect, AtFields
  <2>3. ASSUME NEW k, NEW step, Go(x, Ended(k, step)), step \notin {"read", "count"}
        PROVE  run'[x].step \notin {"read", "count"} /\ \A y \in Runs : y # x => run'[y] = run[y]
    BY <2>3, GoEffect, EndedFields
  <2>4. ASSUME Go(x, Idle)
        PROVE  run'[x].step \notin {"read", "count"} /\ \A y \in Runs : y # x => run'[y] = run[y]
    BY <2>4, GoEffect, IdleFields
  <2>5. /\ run'[x].step \notin {"read", "count"}
        /\ \A y \in Runs : y # x => run'[y] = run[y]
    <3>1. CASE Tick(x)
      <4>1. Go(x, Run("probing", TRUE, "none", up, None, 0))
        BY <3>1 DEF Tick
      <4>2. run'[x] = Run("probing", TRUE, "none", up, None, 0)
            /\ \A y \in Runs : y # x => run'[y] = run[y]
        BY <4>1, GoEffect
      <4>3. run'[x].step = "probing"
        BY <4>2 DEF Run
      <4> QED
        BY <4>2, <4>3
    <3>2. CASE SaveOnce(x)
      BY <3>2, <2>4 DEF SaveOnce
    <3>3. ASSUME NEW r \in Secondaries, ManualFailover(x, r)
          PROVE  /\ run'[x].step \notin {"read", "count"}
                 /\ \A y \in Runs : y # x => run'[y] = run[y]
      <4>1. \E k : Go(x, At(k, "announce", "failover", None))
        BY <3>3 DEF ManualFailover, BeginFailover
      <4> QED
        BY <4>1, <2>2
    <3>4. ASSUME NEW stored, Announced(x, stored)
          PROVE  /\ run'[x].step \notin {"read", "count"}
                 /\ \A y \in Runs : y # x => run'[y] = run[y]
      <4>1. \/ Go(x, At(run[x], "promote", run[x].doing, Primary))
            \/ Go(x, At(run[x], "promote", run[x].doing, NewPrimary(run[x].seen)))
            \/ Go(x, Ended(run[x], "save"))
            \/ Go(x, Idle)
        BY <3>4 DEF Announced
      <4>2. CASE Go(x, At(run[x], "promote", run[x].doing, Primary))
        BY <4>2, <2>2
      <4>3. CASE Go(x, At(run[x], "promote", run[x].doing, NewPrimary(run[x].seen)))
        BY <4>3, <2>2
      <4>4. CASE Go(x, Ended(run[x], "save"))
        BY <4>4, <2>3
      <4> QED
        BY <4>1, <4>2, <4>3, <4>4, <2>4
    <3>5. CASE Announce(x) \/ Announced(x, saved)
      <4>1. Announced(x, mem) \/ Announced(x, saved)
        BY <3>5 DEF Announce
      <4> QED
        BY <4>1, <3>4
    <3>6. CASE Promote(x)
      <4>1. Go(x, At(run[x], "dns", run[x].doing, run[x].target))
        BY <3>6 DEF Promote, To
      <4> QED
        BY <4>1, <2>2
    <3>7. CASE PointDns(x)
      <4>1. Go(x, At(run[x], "pointed", run[x].doing, run[x].target))
        BY <3>7 DEF PointDns, To
      <4> QED
        BY <4>1, <2>2
    <3>8. CASE StepThrows(x) \/ Switch(x)
      <4>1. Go(x, Ended(run[x], "save")) \/ Go(x, Ended(run[x], "clear"))
        BY <3>8 DEF StepThrows, Switch
      <4>2. CASE Go(x, Ended(run[x], "save"))
        BY <4>2, <2>3
      <4>3. CASE Go(x, Ended(run[x], "clear"))
        BY <4>3, <2>3
      <4> QED
        BY <4>1, <4>2, <4>3
    <3> QED
      BY <1>2, <3>1, <3>2, <3>3, <3>5, <3>6, <3>7, <3>8
  <2> QED
    BY <2>1, <2>5, EarnedElsewhere
<1>3. ASSUME NEW x \in Runs, Evaluate(x)
      PROVE  EarnedOK'
  BY <1>3, EarnedEvaluate
<1>4. ASSUME NEW x \in Runs, ManualRecovery(x)
      PROVE  FALSE
  BY <1>4 DEF ManualRecovery
<1>5. ASSUME NEW x \in Runs, ReadCount(x) \/ CountRead(x, 0)
      PROVE  EarnedOK'
  BY <1>5, EarnedRead DEF ReadCount
<1>6. ASSUME NEW x \in Runs, CountRecovery(x) \/ CountStored(x, FALSE)
      PROVE  EarnedOK'
  <2>1. CASE CountRecovery(x)
    <3>1. CountStored(x, TRUE)
      BY <2>1 DEF CountRecovery
    <3> QED
      BY <3>1, EarnedStored
  <2>2. CASE CountStored(x, FALSE)
    BY <2>2, EarnedStored
  <2> QED
    BY <1>6, <2>1, <2>2
<1>7. ASSUME NEW x \in Runs, ClearCount(x)
      PROVE  EarnedOK'
  <2>1. /\ Deleted /\ streak' = streak
        /\ Go(x, At(run[x], "save", run[x].doing, run[x].target))
    BY <1>7 DEF ClearCount, To
  <2>2. run'[x].step = "save" /\ \A y \in Runs : y # x => run'[y] = run[y]
    BY <2>1, GoEffect, AtFields
  <2> QED
    BY <2>1, <2>2, EarnedReset DEF Counting
<1>8. CASE CountExpires
  <2>1. Deleted /\ streak' = streak /\ run' = run
    BY <1>8 DEF CountExpires
  <2> QED
    BY <2>1, EarnedReset
<1>9. ASSUME NEW x \in Runs, RedisFails(x)
      PROVE  EarnedOK'
  <2>1. CASE /\ run[x].step = "clear" /\ To(x, "save")
             /\ leftover' = (leftover \/ recoveryCount # 0)
             /\ UNCHANGED <<outside, control, recoveryCount, streak, mishaps>>
    <3>1. Go(x, At(run[x], "save", run[x].doing, run[x].target))
      BY <2>1 DEF To
    <3>2. run'[x].step = "save" /\ \A y \in Runs : y # x => run'[y] = run[y]
      BY <3>1, GoEffect, AtFields
    <3>3. ~leftover /\ recoveryCount' = 0 /\ recoveryCount = 0 /\ streak' = streak
      BY <2>1
    <3>4. 0 <= streak
      BY TypeParts, FailoverAssumption
    <3>5. \A y \in Runs : Counting(y)' => Counting(y) /\ run'[y] = run[y]
      BY <3>2 DEF Counting
    <3> QED
      BY <3>3, <3>4, <3>5 DEF EarnedOK, Counting
  <2>2. CASE /\ run[x].step = "save" /\ Go(x, Idle) /\ Mishap({"unsaved"})
             /\ UNCHANGED <<outside, control, recoveryCount, streak, leftover>>
    <3>1. /\ run'[x].step = "idle" /\ \A y \in Runs : y # x => run'[y] = run[y]
          /\ ~leftover
      BY <2>2, GoEffect, IdleFields
    <3> QED
      BY <2>2, <3>1, EarnedElsewhere
  <2> QED
    BY <1>2, <1>5, <1>6, <1>9, <2>1, <2>2 DEF RedisFails
<1>10. CASE Crash
  <2>1. /\ recoveryCount' = recoveryCount /\ streak' = streak /\ ~leftover
        /\ recoveryCount = 0 \/ \A x \in Runs : run[x].step # "clear"
        /\ \A x \in Runs : run'[x] = Idle
    BY <1>10 DEF Crash
  <2>2. recoveryCount <= streak
    BY <2>1, TypeParts, FailoverAssumption DEF EarnedOK
  <2>3. \A x \in Runs : ~Counting(x)'
    BY <2>1, IdleFields DEF Counting
  <2> QED
    BY <2>1, <2>2, <2>3 DEF EarnedOK, Counting
<1> QED
  BY <1>1, <1>2, <1>3, <1>4, <1>5, <1>6, <1>7, <1>8, <1>9, <1>10 DEF Next, RunStep

-----------------------------------------------------------------------------
(* What follows of the behaviours.                                         *)
LEMMA InitTrue ==
  ASSUME Init
  PROVE  IInv
<1>1. Start \in Mem /\ Idle \in Call /\ Primary \in RegionSet
  BY StartType, PrimaryIsRegion
<1>2. TypeOK
  <2>1. mem \in Mem /\ saved \in Mem /\ run \in [Runs -> Call]
    BY <1>1 DEF Init
  <2>2. up \subseteq RegionSet
    BY FailoverAssumption DEF Init, RegionSet
  <2>3. alive \in BOOLEAN /\ leftover \in BOOLEAN
    BY DEF Init
  <2>4. /\ recoveryCount \in 0..RecoveryThreshold /\ streak \in 0..RecoveryThreshold
        /\ faults \in 0..MaxFaults /\ promoted \in RegionSet /\ dns \in RegionSet
    BY <1>1, FailoverAssumption DEF Init
  <2> QED
    BY <2>1, <2>2, <2>3, <2>4 DEF TypeOK, Mem, Call
<1>3. /\ \A x \in Runs : run[x] = Idle /\ run[x].step = "idle" /\ run[x].doing = "none"
      /\ mem.current = Primary /\ mem.status = "normal" /\ saved = mem /\ alive
      /\ promoted = Primary /\ dns = Primary /\ recoveryCount = 0 /\ streak = 0
  BY IdleFields DEF Init
<1>4. RunOK /\ CrossOK /\ WorldOK /\ SavedOK /\ NormalOK
  BY <1>3 DEF RunOK, CrossOK, WorldOK, SavedOK, NormalOK, Switching, FailingOver, Moved, Pointed
<1>5. TransientOK
  BY <1>3 DEF TransientOK
<1>6. EarnedOK
  <2>1. recoveryCount <= streak
    BY <1>3
  <2> QED
    BY <1>3, <2>1 DEF EarnedOK, Counting
<1> QED
  BY <1>2, <1>4, <1>5, <1>6 DEF IInv

LEMMA InvariantStep ==
  ASSUME IInv, [Next]_vars
  PROVE  IInv'
BY TypeStep, RunOKStep, CrossStep, WorldStep, SavedStep, TransientStep, NormalStep, EarnedStep
   DEF IInv

LEMMA InvariantIsTrue ==
  ASSUME IInv
  PROVE  StateIsTrue
<1>1. AgreeAtRest
  <2> SUFFICES ASSUME alive, \A x \in Runs : ~Switching(x), Clean
               PROVE  promoted = mem.current /\ dns = mem.current
    BY DEF AgreeAtRest, Clean
  <2>1. \A x \in Runs : ~Moved(x) /\ ~Pointed(x)
    BY DEF Switching, Moved, Pointed
  <2> QED
    BY <2>1 DEF IInv, WorldOK
<1>2. OneFailoverAtATime
  <2> SUFFICES ASSUME "crossed" \notin mishaps
               PROVE  ~(Cardinality(FailingOver) > 1)
    BY DEF OneFailoverAtATime
  <2>1. CASE FailingOver = {}
    <3>1. Cardinality(FailingOver) = 0
      BY <2>1, FS_EmptySet
    <3> QED
      BY <3>1
  <2>2. ASSUME NEW x \in FailingOver
        PROVE  ~(Cardinality(FailingOver) > 1)
    <3>1. FailingOver = {x}
      BY <2>2 DEF IInv, CrossOK
    <3>2. Cardinality(FailingOver) = 1
      BY <3>1, FS_Singleton
    <3> QED
      BY <3>2
  <2> QED
    BY <2>1, <2>2
<1>3. TransientHasItsRun
  BY DEF IInv, TransientOK, TransientHasItsRun, Wedged, Kept
<1>4. NormalIsPrimary
  BY DEF IInv, NormalOK, NormalIsPrimary
<1> QED
  BY <1>1, <1>2, <1>3, <1>4 DEF StateIsTrue

(* Only a count at its threshold starts a recovery.                        *)
LEMMA RecoveryStart ==
  ASSUME IInv, [Next]_vars, NEW x \in Runs, run[x].doing # "recovery",
         run'[x].doing = "recovery"
  PROVE  run[x].step = "count" /\ NextCount(run[x].count) = RecoveryThreshold
<1> USE DEF IInv
<1>1. ASSUME NEW y \in Runs, NEW k, Go(y, k)
      PROVE  y = x /\ k.doing = "recovery"
  BY <1>1, GoEffect
<1>2. ASSUME NEW y \in Runs, NEW k, NEW step, NEW doing, NEW target, Go(y, At(k, step, doing, target))
      PROVE  y = x /\ doing = "recovery"
  BY <1>1, <1>2, AtFields
<1>3. ASSUME NEW y \in Runs, NEW k, NEW step, Go(y, Ended(k, step)) \/ Go(y, Idle)
      PROVE  FALSE
  BY <1>1, <1>3, EndedFields, IdleFields
<1>4. ASSUME NEW y \in Runs, NEW step, NEW auto, NEW doing, NEW seen, NEW target, NEW count,
             Go(y, Run(step, auto, doing, seen, target, count))
      PROVE  y = x /\ doing = "recovery"
  <2>1. y = x /\ Run(step, auto, doing, seen, target, count).doing = "recovery"
    BY <1>1, <1>4
  <2> QED
    BY <2>1, CallFields
<1>5. ASSUME NEW y \in Runs, NEW step, To(y, step)
      PROVE  FALSE
  BY <1>2, <1>5 DEF To
<1>6. ASSUME NEW y \in Runs, NEW m, NEW k, BeginFailover(y, m, k)
      PROVE  FALSE
  BY <1>2, <1>6 DEF BeginFailover
<1>7. ASSUME NEW y \in Runs, NEW stored, Announced(y, stored)
      PROVE  FALSE
  <2>1. \/ Go(y, At(run[y], "promote", run[y].doing, Primary))
        \/ Go(y, At(run[y], "promote", run[y].doing, NewPrimary(run[y].seen)))
        \/ Go(y, Ended(run[y], "save"))
        \/ Go(y, Idle)
    BY <1>7 DEF Announced
  <2>2. CASE Go(y, At(run[y], "promote", run[y].doing, Primary))
    BY <1>2, <2>2
  <2>3. CASE Go(y, At(run[y], "promote", run[y].doing, NewPrimary(run[y].seen)))
    BY <1>2, <2>3
  <2> QED
    BY <1>3, <2>1, <2>2, <2>3
<1>8. ASSUME NEW y \in Runs, NEW n, CountRead(y, n)
      PROVE  FALSE
  <2>1. Go(y, Run("count", run[y].auto, run[y].doing, run[y].seen, run[y].target, n))
    BY <1>8 DEF CountRead
  <2> QED
    BY <1>4, <2>1
<1>9. ASSUME NEW y \in Runs, NEW stored, CountStored(y, stored)
      PROVE  run[x].step = "count" /\ NextCount(run[x].count) = RecoveryThreshold
  <2>1. CASE /\ NextCount(run[y].count) = RecoveryThreshold
             /\ Go(y, At(run[y], "announce", "recovery", None))
    BY <1>2, <1>9, <2>1 DEF CountStored
  <2>2. CASE Go(y, Ended(run[y], "save")) \/ Go(y, Idle)
    BY <1>3, <2>2
  <2> QED
    BY <1>9, <2>1, <2>2 DEF CountStored, NextCount
<1>10. \E y \in Runs : Tick(y) \/ RunStep(y) \/ (\E r \in Secondaries : ManualFailover(y, r))
                       \/ ManualRecovery(y) \/ StepThrows(y) \/ RedisFails(y)
  <2>1. run' # run
    OBVIOUS
  <2>2. ~Crash
    BY IdleFields DEF Crash
  <2> QED
    BY <2>1, <2>2 DEF Next, vars, CountExpires, HealthChanges, Boot
<1>11. PICK y \in Runs :
         Tick(y) \/ RunStep(y) \/ (\E r \in Secondaries : ManualFailover(y, r))
           \/ ManualRecovery(y) \/ StepThrows(y) \/ RedisFails(y)
  BY <1>10
<1>12. ~Tick(y)
  <2> SUFFICES ASSUME Tick(y)
               PROVE  FALSE
    OBVIOUS
  <2>1. Go(y, Run("probing", TRUE, "none", up, None, 0))
    BY DEF Tick
  <2>2. run'[y] = Run("probing", TRUE, "none", up, None, 0) /\ (x # y => run'[x] = run[x])
    BY <2>1, GoEffect
  <2>3. run'[y].doing = "none"
    BY <2>2 DEF Run
  <2> QED
    BY <2>2, <2>3
<1>13. ASSUME NEW r \in Secondaries
       PROVE  ~ManualFailover(y, r)
  BY <1>6 DEF ManualFailover
<1>14. ~ManualRecovery(y)
  BY <1>4 DEF ManualRecovery
<1>15. ~StepThrows(y) /\ ~Switch(y)
  <2>1. StepThrows(y) \/ Switch(y) => Go(y, Ended(run[y], "save")) \/ Go(y, Ended(run[y], "clear"))
    BY DEF StepThrows, Switch
  <2> QED
    BY <1>3, <2>1
<1>16. ~Evaluate(y)
  BY <1>5, <1>6 DEF Evaluate
<1>17. ~Announce(y) /\ ~ReadCount(y)
  BY <1>7, <1>8 DEF Announce, ReadCount
<1>18. ~Promote(y) /\ ~PointDns(y) /\ ~ClearCount(y) /\ ~SaveOnce(y)
  BY <1>3, <1>5 DEF Promote, PointDns, ClearCount, SaveOnce
<1>19. CASE CountRecovery(y)
  <2>1. CountStored(y, TRUE)
    BY <1>19 DEF CountRecovery
  <2> QED
    BY <1>9, <2>1
<1>20. CASE RedisFails(y)
  <2>1. CASE CountStored(y, FALSE)
    BY <1>9, <2>1
  <2>2. ~Announced(y, saved) /\ ~CountRead(y, 0) /\ ~To(y, "save") /\ ~Go(y, Idle)
    BY <1>3, <1>5, <1>7, <1>8
  <2> QED
    BY <1>20, <2>1, <2>2 DEF RedisFails
<1> QED
  BY <1>11, <1>12, <1>13, <1>14, <1>15, <1>16, <1>17, <1>18, <1>19, <1>20 DEF RunStep

LEMMA InvariantHolds == Spec => []IInv
BY InitTrue, InvariantStep, PTL DEF Spec

(* Every variable keeps its type: a switch only ever goes to a region.      *)
THEOREM TypeCorrect == Spec => []TypeOK
<1>1. IInv => TypeOK
  BY DEF IInv
<1> QED
  BY <1>1, InvariantHolds, PTL

(* Whatever the rounds, calls, faults and restarts: at rest the database     *)
(* promoted, the record and the current region are one, failovers do not     *)
(* overlap, a transient status has its run and normal means the primary,     *)
(* each unless the mishap that can break it has happened                     *)
(* (failover.controller.ts ll.100-236).                                     *)
THEOREM StateTrue == Spec => []StateIsTrue
BY InvariantIsTrue, InvariantHolds, PTL

(* A round recovers to the primary only when as many rounds in a row as the  *)
(* threshold found it up (failover.controller.ts ll.124-137), unless the     *)
(* stored count holds rounds from before the last that found it down.        *)
THEOREM RecoveryEarned == Spec => RecoveryIsEarned
<1> DEFINE Earned ==
      \A x \in Runs :
         run[x].auto /\ run[x].doing # "recovery" /\ run'[x].doing = "recovery"
           => streak >= RecoveryThreshold \/ leftover
<1>1. ASSUME IInv, [Next]_vars
      PROVE  Earned
  <2> SUFFICES ASSUME NEW x \in Runs, run[x].doing # "recovery", run'[x].doing = "recovery",
                      ~leftover
               PROVE  streak >= RecoveryThreshold
    OBVIOUS
  <2>1. run[x].step = "count" /\ NextCount(run[x].count) = RecoveryThreshold
    BY <1>1, RecoveryStart
  <2>2. RecoveryThreshold <= streak /\ streak \in Nat /\ RecoveryThreshold \in Nat
    BY <1>1, <2>1, FailoverAssumption DEF IInv, EarnedOK, TypeOK
  <2> QED
    BY <2>2
<1> QED
  BY <1>1, InvariantHolds, PTL DEF Spec, RecoveryIsEarned
=============================================================================
