--------------------------- MODULE Services_proofs ---------------------------
(***************************************************************************)
(* What holds of the small components, for every value of their constants: *)
(* per component an inductive invariant and what follows from it, then the *)
(* theorems about MC_Services, whose behaviours are theirs.                *)
(***************************************************************************)
EXTENDS MC_Services, Payroll_proofs, FiniteSetTheorems, Integers, TLAPS
-----------------------------------------------------------------------------
(* LoginGuard.                                                             *)

(* A counter at its threshold has its lock, which is at least as fresh as  *)
(* the counter, and wholly fresh while the counter has no expiry; behind a *)
(* lock are only the logins admitted before, and together with those that  *)
(* have had their guess they are fewer than all.                           *)
SetsExpiry == {l \in Logins : login[l] = "expire"}
SetsLock   == {l \in Logins : login[l] = "lock"}
Guessing   == {l \in Logins : login[l] = "admitted"}

CounterOK == (failCount = 0) <=> (failLeft = 0)
ThresholdOK == failCount >= MaxAttempts /\ SetsLock = {} =>
  /\ Locked
  /\ failLeft <= lockLeft \/ failLeft = Forever
  /\ SetsExpiry # {} => lockLeft = Window
GuessesOK == /\ late < Cardinality(Logins)
             /\ Locked => late + Cardinality(Guessing) < Cardinality(Logins)

LoginInv == /\ LoginTypeOK /\ CounterOK
            /\ ~excused => /\ CounterExpires /\ ThresholdOK /\ GuessesOK

LEMMA LoginMoves ==
  ASSUME LoginTypeOK, NEW l \in Logins, NEW from, NEW to, LoginStep(l, from, to)
  PROVE  /\ login[l] = from /\ login'[l] = to
         /\ \A o \in Logins : o # l => login'[o] = login[o]
BY DEF LoginStep, LoginTypeOK

LEMMA TopCountFits == TopCount \in Nat /\ TopCount > MaxAttempts /\ Cardinality(Logins) \in Nat \ {0}
<1>1. Cardinality(Logins) \in Nat /\ Cardinality(Logins) # 0
  BY FS_CardinalityType, FS_EmptySet, LoginAssumption
<1> QED
  BY <1>1, LoginAssumption DEF TopCount

LEMMA LoginTypeStep ==
  ASSUME LoginTypeOK, [LoginNext]_loginVars
  PROVE  LoginTypeOK'
<1> DEFINE LoginSteps == {"idle", "admitted", "expire", "lock", "unlock"}
<1>1. CASE UNCHANGED loginVars
  BY <1>1 DEF loginVars, LoginTypeOK, TopCount, Forever
<1>2. CASE TimePasses
  BY <1>2, LoginAssumption, TopCountFits DEF TimePasses, LoginTypeOK, Forever
<1>s. ASSUME NEW l \in Logins, NEW from, NEW to \in LoginSteps, LoginStep(l, from, to)
      PROVE  login' \in [Logins -> LoginSteps]
  BY <1>s DEF LoginStep, LoginTypeOK
<1>3. ASSUME NEW l \in Logins,
             Try(l) \/ Dismissed(l) \/ ResetCount(l) \/ ResetLock(l) \/ RedisFails(l)
      PROVE  LoginTypeOK'
  <2>1. login' \in [Logins -> LoginSteps]
    BY <1>s, <1>3 DEF Try, Dismissed, ResetCount, ResetLock, RedisFails
  <2>2. excused' \in BOOLEAN
    BY <1>3, Zenon DEF Try, Dismissed, ResetCount, ResetLock, RedisFails, LoginTypeOK
  <2> QED
    BY <1>3, <2>1, <2>2, LoginAssumption, TopCountFits
       DEF Try, Dismissed, ResetCount, ResetLock, RedisFails, LoginTypeOK, Forever
<1>4. ASSUME NEW l \in Logins, WrongPassword(l)
      PROVE  LoginTypeOK'
  <2> DEFINE n == IF failCount < TopCount THEN failCount + 1 ELSE failCount
  <2>1. AfterIncr(n) \in LoginSteps
    BY DEF AfterIncr
  <2>2. login' \in [Logins -> LoginSteps]
    BY <1>s, <1>4, <2>1 DEF WrongPassword
  <2>3. n \in 0..TopCount
    BY TopCountFits DEF LoginTypeOK
  <2> QED
    BY <1>4, <2>2, <2>3, LoginAssumption DEF WrongPassword, LoginTypeOK, Forever
<1>5. ASSUME NEW l \in Logins, Expire(l) \/ SetLock(l)
      PROVE  LoginTypeOK'
  <2>1. login' \in [Logins -> LoginSteps]
    BY <1>s, <1>5 DEF Expire, SetLock
  <2> QED
    BY <1>5, <2>1, LoginAssumption DEF Expire, SetLock, LoginTypeOK, Forever, Lockout
<1> QED
  BY <1>1, <1>2, <1>3, <1>4, <1>5 DEF LoginNext

LEMMA GuessingFinite ==
  /\ IsFiniteSet(Guessing) /\ Cardinality(Guessing) \in Nat
  /\ Cardinality(Guessing) <= Cardinality(Logins)
<1>1. Guessing \subseteq Logins
  BY DEF Guessing
<1> QED
  BY <1>1, FS_Subset, FS_CardinalityType, LoginAssumption

LEMMA LoginInvInit ==
  ASSUME LoginInit
  PROVE  LoginInv
<1>1. LoginTypeOK
  <2>1. login \in [Logins -> {"idle", "admitted", "expire", "lock", "unlock"}]
    BY DEF LoginInit
  <2>2. excused \in BOOLEAN
    BY DEF LoginInit
  <2> QED
    BY <2>1, <2>2, LoginAssumption, TopCountFits DEF LoginInit, LoginTypeOK, Forever
<1> QED
  BY <1>1, LoginAssumption, TopCountFits
     DEF LoginInit, LoginInv, CounterOK, CounterExpires, ThresholdOK, GuessesOK,
     Locked, Forever

(* An excuse stays, and without one Redis has answered every step.         *)
LEMMA ExcuseStays ==
  ASSUME [LoginNext]_loginVars, ~excused'
  PROVE  /\ ~excused /\ \A l \in Logins : ~RedisFails(l)
         /\ \A l \in Logins : ResetLock(l) => ~(failCount > 0)
<1>1. CASE UNCHANGED loginVars
  BY <1>1 DEF loginVars, RedisFails, ResetLock
<1>2. CASE TimePasses
  BY <1>2 DEF TimePasses, RedisFails, ResetLock
<1>3. ASSUME NEW l \in Logins,
             \/ Try(l) \/ Dismissed(l) \/ WrongPassword(l) \/ Expire(l)
             \/ SetLock(l) \/ ResetCount(l) \/ ResetLock(l) \/ RedisFails(l)
      PROVE  ~excused
  BY <1>3, Zenon DEF Try, Dismissed, WrongPassword, Expire, SetLock, ResetCount,
     ResetLock, RedisFails
<1>4. ~excused
  BY <1>1, <1>2, <1>3 DEF LoginNext, loginVars, TimePasses
<1> QED
  BY <1>4, Zenon DEF RedisFails, ResetLock

LEMMA CounterStep ==
  ASSUME LoginInv, [LoginNext]_loginVars
  PROVE  CounterOK' /\ (~excused' => CounterExpires')
<1> USE DEF LoginInv
<1>0. ~excused' => CounterExpires /\ \A l \in Logins : ~RedisFails(l)
  BY ExcuseStays
<1>1. CASE UNCHANGED loginVars
  BY <1>1 DEF loginVars, CounterOK, CounterExpires, Forever
<1>2. CASE TimePasses
  BY <1>2, LoginAssumption DEF TimePasses, CounterOK, CounterExpires, Forever, LoginTypeOK
<1>3. ASSUME NEW l \in Logins, Try(l) \/ Dismissed(l) \/ SetLock(l) \/ ResetLock(l)
      PROVE  CounterOK' /\ (~excused' => CounterExpires')
  <2>0. PICK from, to : LoginStep(l, from, to) /\ from # "expire"
    BY <1>3 DEF Try, Dismissed, SetLock, ResetLock
  <2>1. \A o \in Logins : login[o] = "expire" => login'[o] = "expire"
    BY <2>0, LoginMoves
  <2>2. failCount' = failCount /\ failLeft' = failLeft
    BY <1>3 DEF Try, Dismissed, SetLock, ResetLock
  <2>3. CounterExpires /\ ~excused => CounterExpires'
    BY <2>1, <2>2 DEF CounterExpires, Forever
  <2> QED
    BY <1>0, <2>2, <2>3, ExcuseStays DEF CounterOK
<1>4. ASSUME NEW l \in Logins, RedisFails(l)
      PROVE  CounterOK' /\ (~excused' => CounterExpires')
  BY <1>0, <1>4 DEF RedisFails, CounterOK
<1>5. ASSUME NEW l \in Logins, ResetCount(l)
      PROVE  CounterOK' /\ (~excused' => CounterExpires')
  <2>1. failCount' = 0 /\ failLeft' = 0
    BY <1>5 DEF ResetCount
  <2> QED
    BY <2>1, LoginAssumption DEF CounterOK, CounterExpires, Forever
<1>6. ASSUME NEW l \in Logins, Expire(l)
      PROVE  CounterOK' /\ (~excused' => CounterExpires')
  BY <1>6, LoginAssumption DEF Expire, CounterOK, CounterExpires, Forever, LoginTypeOK
<1>7. ASSUME NEW l \in Logins, WrongPassword(l)
      PROVE  CounterOK' /\ (~excused' => CounterExpires')
  <2> DEFINE n == IF failCount < TopCount THEN failCount + 1 ELSE failCount
  <2>0. LoginStep(l, "admitted", AfterIncr(n)) /\ failCount' = n
        /\ failLeft' = IF failCount = 0 THEN Forever ELSE failLeft
    BY <1>7 DEF WrongPassword
  <2>1. CASE failCount = 0
    <3>1. n = 1
      BY <2>1, TopCountFits, LoginAssumption
    <3>2. AfterIncr(n) = "expire"
      BY <3>1, LoginAssumption DEF AfterIncr
    <3>3. LoginStep(l, "admitted", "expire")
      BY <2>0, <3>2
    <3>4. failCount' = 1 /\ failLeft' = Forever /\ login'[l] = "expire"
      BY <2>0, <2>1, <3>1, <3>3, LoginMoves
    <3> QED
      BY <3>4, LoginAssumption DEF CounterOK, CounterExpires, Forever
  <2>2. CASE failCount # 0
    <3>1. n # 0
      BY <2>2, TopCountFits DEF LoginTypeOK
    <3>2. \A o \in Logins : login[o] = "expire" => login'[o] = "expire"
      BY <2>0, LoginMoves
    <3>3. CounterExpires /\ ~excused => CounterExpires'
      BY <2>0, <2>2, <3>2 DEF CounterExpires, Forever
    <3> QED
      BY <1>0, <2>0, <2>2, <3>1, <3>3, ExcuseStays DEF CounterOK
  <2> QED
    BY <2>1, <2>2
<1> QED
  BY <1>1, <1>2, <1>3, <1>4, <1>5, <1>6, <1>7 DEF LoginNext

LEMMA ThresholdStep ==
  ASSUME LoginInv, [LoginNext]_loginVars, ~excused'
  PROVE  ThresholdOK'
<1> USE DEF LoginInv
<1>0. /\ ~excused /\ CounterExpires /\ ThresholdOK /\ CounterOK /\ LoginTypeOK
      /\ \A l \in Logins : ~RedisFails(l) /\ (ResetLock(l) => ~(failCount > 0))
  BY ExcuseStays
<1>1. CASE UNCHANGED loginVars
  BY <1>0, <1>1 DEF loginVars, ThresholdOK, SetsLock, SetsExpiry, Locked, Forever
<1>2. CASE TimePasses
  <2>1. SetsLock = {} /\ SetsExpiry = {} /\ failLeft # Forever /\ SetsExpiry' = {}
    BY <1>0, <1>2 DEF TimePasses, SetsLock, SetsExpiry, CounterExpires
  <2>2. ASSUME failCount' >= MaxAttempts
        PROVE  Locked' /\ failLeft' <= lockLeft'
    <3>1. failCount >= MaxAttempts /\ failLeft # 1 /\ failLeft > 0
      BY <1>0, <1>2, <2>2, LoginAssumption DEF TimePasses, CounterOK, LoginTypeOK, Forever
    <3>2. failLeft <= lockLeft
      BY <1>0, <2>1, <3>1 DEF ThresholdOK
    <3> QED
      BY <1>0, <1>2, <2>1, <3>1, <3>2, LoginAssumption DEF TimePasses, Locked,
         LoginTypeOK, Forever
  <2> QED
    BY <2>1, <2>2 DEF ThresholdOK
<1>3. ASSUME NEW l \in Logins, Try(l) \/ Dismissed(l)
      PROVE  ThresholdOK'
  <2>1. PICK from, to : LoginStep(l, from, to) /\ {from, to} \cap {"expire", "lock"} = {}
    BY <1>3 DEF Try, Dismissed
  <2>2. SetsLock' = SetsLock /\ SetsExpiry' = SetsExpiry
    BY <1>0, <2>1, LoginMoves DEF SetsLock, SetsExpiry
  <2>3. UNCHANGED <<failCount, failLeft, lockLeft>>
    BY <1>3 DEF Try, Dismissed
  <2> QED
    BY <1>0, <2>2, <2>3 DEF ThresholdOK, Locked, Forever
<1>4. ASSUME NEW l \in Logins, ResetLock(l)
      PROVE  ThresholdOK'
  <2>1. failCount' = 0
    BY <1>0, <1>4 DEF ResetLock, LoginTypeOK
  <2> QED
    BY <2>1, LoginAssumption DEF ThresholdOK
<1>5. ASSUME NEW l \in Logins, ResetCount(l)
      PROVE  ThresholdOK'
  <2>1. failCount' = 0
    BY <1>5 DEF ResetCount
  <2> QED
    BY <2>1, LoginAssumption DEF ThresholdOK
<1>6. ASSUME NEW l \in Logins, SetLock(l)
      PROVE  ThresholdOK'
  <2>1. lockLeft' = Window /\ failLeft' = failLeft
    BY <1>6 DEF SetLock, Lockout
  <2>2. failLeft <= Window \/ failLeft = Forever
    BY <1>0, LoginAssumption DEF LoginTypeOK, Forever
  <2> QED
    BY <2>1, <2>2, LoginAssumption DEF ThresholdOK, Locked, Forever
<1>7. ASSUME NEW l \in Logins, Expire(l)
      PROVE  ThresholdOK'
  <2>1. SetsLock' = SetsLock /\ l \in SetsExpiry
    BY <1>0, <1>7, LoginMoves DEF Expire, SetsLock, SetsExpiry
  <2>2. failCount' = failCount /\ lockLeft' = lockLeft /\ failLeft' \in {0, Window}
    BY <1>7 DEF Expire
  <2>3. failCount >= MaxAttempts /\ SetsLock = {} => lockLeft = Window
    BY <1>0, <2>1 DEF ThresholdOK
  <2> QED
    BY <2>1, <2>2, <2>3, LoginAssumption DEF ThresholdOK, Locked
<1>8. ASSUME NEW l \in Logins, WrongPassword(l)
      PROVE  ThresholdOK'
  <2> DEFINE n == IF failCount < TopCount THEN failCount + 1 ELSE failCount
  <2>0. LoginStep(l, "admitted", AfterIncr(n)) /\ failCount' = n /\ lockLeft' = lockLeft
        /\ failLeft' = IF failCount = 0 THEN Forever ELSE failLeft
    BY <1>8 DEF WrongPassword
  <2>1. CASE n < MaxAttempts
    <3>1. failCount' < MaxAttempts
      BY <2>0, <2>1
    <3> QED
      BY <1>0, <2>0, <3>1, LoginAssumption, TopCountFits DEF ThresholdOK, LoginTypeOK
  <2>2. CASE n = MaxAttempts
    <3>1. AfterIncr(n) = "lock"
      BY <2>2, LoginAssumption DEF AfterIncr
    <3>2. l \in SetsLock'
      BY <1>0, <2>0, <3>1, LoginMoves DEF SetsLock
    <3> QED
      BY <3>2 DEF ThresholdOK
  <2>3. CASE n > MaxAttempts
    <3>1. failCount >= MaxAttempts /\ failCount # 0 /\ AfterIncr(n) = "idle"
      BY <1>0, <2>3, LoginAssumption, TopCountFits DEF AfterIncr, LoginTypeOK
    <3>2. SetsLock' = SetsLock /\ SetsExpiry' = SetsExpiry
      BY <1>0, <2>0, <3>1, LoginMoves DEF SetsLock, SetsExpiry
    <3> QED
      BY <1>0, <2>0, <3>1, <3>2 DEF ThresholdOK, Locked, Forever
  <2>4. n \in Nat
    BY <1>0, TopCountFits DEF LoginTypeOK
  <2> QED
    BY <2>1, <2>2, <2>3, <2>4, LoginAssumption
<1> QED
  BY <1>0, <1>1, <1>2, <1>3, <1>4, <1>5, <1>6, <1>7, <1>8 DEF LoginNext

LEMMA GuessesStep ==
  ASSUME LoginInv, [LoginNext]_loginVars, ~excused'
  PROVE  GuessesOK'
<1> USE DEF LoginInv
<1>0. /\ ~excused /\ GuessesOK /\ LoginTypeOK /\ \A l \in Logins : ~RedisFails(l)
      /\ Cardinality(Logins) \in Nat \ {0} /\ IsFiniteSet(Guessing)
      /\ Cardinality(Guessing) \in Nat
  BY ExcuseStays, TopCountFits, GuessingFinite
<1>1. CASE UNCHANGED loginVars
  BY <1>0, <1>1 DEF loginVars, GuessesOK, Guessing, Locked
<1>2. CASE TimePasses
  <2>1. Guessing' = Guessing /\ late' = late /\ (Locked' => Locked)
    BY <1>0, <1>2 DEF TimePasses, Guessing, Locked, LoginTypeOK
  <2> QED
    BY <1>0, <2>1 DEF GuessesOK
<1>3. ASSUME NEW l \in Logins, Try(l)
      PROVE  GuessesOK'
  BY <1>0, <1>3 DEF Try, MayTry, GuessesOK, Locked
<1>4. ASSUME NEW l \in Logins, l \in Guessing, l \notin Guessing',
             Guessing' \ {l} = Guessing \ {l}
      PROVE  Cardinality(Guessing') = Cardinality(Guessing) - 1
  <2>1. Guessing' = Guessing \ {l}
    BY <1>4
  <2> QED
    BY <1>0, <1>4, <2>1, FS_RemoveElement
<1>5. ASSUME NEW l \in Logins, Dismissed(l) \/ ResetCount(l)
      PROVE  GuessesOK'
  <2>1. PICK to : LoginStep(l, "admitted", to) /\ to # "admitted"
    BY <1>5 DEF Dismissed, ResetCount
  <2>2. Cardinality(Guessing') = Cardinality(Guessing) - 1
    <3>1. l \in Guessing /\ l \notin Guessing' /\ Guessing' \ {l} = Guessing \ {l}
      BY <1>0, <2>1, LoginMoves DEF Guessing
    <3> QED
      BY <1>4, <3>1
  <2>3. late' = late /\ lockLeft' = lockLeft
    BY <1>5 DEF Dismissed, ResetCount
  <2> QED
    BY <1>0, <2>2, <2>3 DEF GuessesOK, Locked, LoginTypeOK
<1>6. ASSUME NEW l \in Logins, Expire(l) \/ ResetLock(l)
      PROVE  GuessesOK'
  <2>1. PICK from : LoginStep(l, from, "idle") /\ from # "admitted"
    BY <1>6 DEF Expire, ResetLock
  <2>2. Guessing' = Guessing
    BY <1>0, <2>1, LoginMoves DEF Guessing
  <2>3. late' = late /\ (lockLeft' = lockLeft \/ lockLeft' = 0)
    BY <1>6 DEF Expire, ResetLock
  <2> QED
    BY <1>0, <2>2, <2>3 DEF GuessesOK, Locked
<1>7. ASSUME NEW l \in Logins, SetLock(l)
      PROVE  GuessesOK'
  <2>1. LoginStep(l, "lock", "idle") /\ late' = 0
    BY <1>7 DEF SetLock
  <2>2. Guessing' \subseteq Logins /\ l \notin Guessing'
    BY <1>0, <2>1, LoginMoves DEF Guessing
  <2>3. /\ Cardinality(Logins \ {l}) = Cardinality(Logins) - 1 /\ IsFiniteSet(Logins \ {l})
    BY FS_RemoveElement, LoginAssumption
  <2>4. Guessing' \subseteq Logins \ {l}
    BY <2>2
  <2>5. Cardinality(Guessing') \in Nat /\ Cardinality(Guessing') <= Cardinality(Logins) - 1
    BY <2>3, <2>4, FS_Subset, FS_CardinalityType
  <2> QED
    BY <1>0, <2>1, <2>5 DEF GuessesOK
<1>8. ASSUME NEW l \in Logins, WrongPassword(l)
      PROVE  GuessesOK'
  <2>1. PICK to : LoginStep(l, "admitted", to) /\ to # "admitted"
    <3>1. AfterIncr(IF failCount < TopCount THEN failCount + 1 ELSE failCount) # "admitted"
      BY DEF AfterIncr
    <3> QED
      BY <1>8, <3>1 DEF WrongPassword
  <2>2. Cardinality(Guessing') = Cardinality(Guessing) - 1
    <3>1. l \in Guessing /\ l \notin Guessing' /\ Guessing' \ {l} = Guessing \ {l}
      BY <1>0, <2>1, LoginMoves DEF Guessing
    <3> QED
      BY <1>4, <3>1
  <2>3. Cardinality(Guessing') \in Nat
    <3>1. Guessing' \subseteq Logins
      BY DEF Guessing
    <3> QED
      BY <3>1, FS_Subset, FS_CardinalityType, LoginAssumption
  <2>4. /\ lockLeft' = lockLeft
        /\ late' = IF Locked /\ late <= Cardinality(Logins) THEN late + 1 ELSE late
    BY <1>8 DEF WrongPassword
  <2> QED
    BY <1>0, <2>2, <2>3, <2>4 DEF GuessesOK, Locked, LoginTypeOK
<1> QED
  BY <1>0, <1>1, <1>2, <1>3, <1>5, <1>6, <1>7, <1>8 DEF LoginNext

LEMMA LoginInvStep ==
  ASSUME LoginInv, [LoginNext]_loginVars
  PROVE  LoginInv'
BY LoginTypeStep, CounterStep, ThresholdStep, GuessesStep DEF LoginInv

LEMMA LoginInvLockout ==
  ASSUME LoginInv
  PROVE  LockoutHolds
<1>1. ThresholdLocks
  BY DEF LoginInv, ThresholdOK, ThresholdLocks, SetsLock
<1>2. GuessesAreBounded
  BY DEF LoginInv, GuessesOK, GuessesAreBounded
<1>3. CounterExpires
  BY DEF LoginInv, CounterExpires
<1> QED
  BY <1>1, <1>2, <1>3 DEF LockoutHolds
-----------------------------------------------------------------------------
(* Throttle.                                                               *)

Allowed(n) == IF n < Limit THEN n ELSE Limit
Mono(h) == h \in [Ages -> Nat] /\ \A a, b \in Ages : a <= b => h[a] <= h[b]

(* The request that opened the counter of Redis is k old: what Redis has   *)
(* admitted since belongs to the counter, and what was before it did not   *)
(* open the one before.                                                    *)
OpenedAt(k) ==
  /\ hitsLeft \in 1..Ttl => k = Ttl - hitsLeft
  /\ expiring # {} => k = 0
  /\ admitted["Redis"][k] <= Allowed(hits)
  /\ hitsLeft \in 1..Ttl /\ k >= 1 => admitted["Redis"][k - 1] <= Allowed(hits) - 1
  /\ Within(admitted["Redis"]) - admitted["Redis"][k] <= Limit - 1
  /\ outages = 0 => hits <= arrived[k]

RedisInv ==
  /\ hits = 0 => /\ expiring = {} /\ admitted["Redis"][0] = 0
                 /\ Within(admitted["Redis"]) <= Limit - 1
  /\ hits > 0 => \E k \in Ages : OpenedAt(k)

(* The last hit of a fallback counter is as old as its life is shorter     *)
(* than a window.                                                          *)
FallbackInv ==
  \A p \in Apis :
    /\ policy = "closed" => Within(admitted[p]) = 0
    /\ policy = "local" =>
         /\ Within(admitted[p]) <= Allowed(local[p].count)
         /\ local[p].left \in 1..Ttl - 1 => admitted[p][Ttl - local[p].left - 1] = 0

ThrottleInv ==
  /\ ThrottleTypeOK
  /\ \A p \in Apis : local[p].count <= outages
  /\ Mono(arrived) /\ \A j \in Judges : Mono(admitted[j])
  /\ RedisInv /\ FallbackInv /\ RefusedForACause /\ CounterEnds

LEMMA AgesOK == 0 \in Ages /\ Ttl - 1 \in Ages /\ Ages \subseteq Nat /\ Ttl \in Nat
                /\ \A a \in Ages : a <= Ttl - 1
BY ThrottleAssumption DEF Ages

LEMMA QuietIsMono == Mono(Quiet) /\ Within(Quiet) = 0 /\ Quiet[0] = 0
BY AgesOK DEF Mono, Quiet, Within

LEMMA AgedEntry ==
  ASSUME NEW h, Mono(h), NEW g, g = OneOlder(h)
  PROVE  /\ Mono(g) /\ g[0] = 0 /\ \A a \in Ages : a # 0 => g[a] = h[a - 1]
         /\ Within(g) <= Within(h)
<1>1. \A a \in Ages : a # 0 => a - 1 \in Ages /\ h[a - 1] \in Nat
  BY ThrottleAssumption DEF Mono, Ages
<1>2. g \in [Ages -> Nat] /\ g[0] = 0 /\ \A a \in Ages : a # 0 => g[a] = h[a - 1]
  BY <1>1, AgesOK DEF OneOlder
<1>3. \A a, b \in Ages : a <= b => g[a] <= g[b]
  BY <1>1, <1>2, AgesOK DEF Mono
<1>4. Within(g) <= Within(h)
  BY <1>1, <1>2, AgesOK DEF Within, Mono
<1> QED
  BY <1>2, <1>3, <1>4 DEF Mono

LEMMA More ==
  ASSUME NEW h, Mono(h), NEW g, g = Another(h)
  PROVE  Mono(g) /\ (\A a \in Ages : g[a] = h[a] + 1) /\ Within(g) = Within(h) + 1
BY AgesOK DEF Mono, Another, Within

LEMMA ThrottleInvInit == ThrottleInit => ThrottleInv
<1> SUFFICES ASSUME ThrottleInit PROVE ThrottleInv
  OBVIOUS
<1>1. /\ arrived = Quiet /\ (\A j \in Judges : admitted[j] = Quiet) /\ "Redis" \in Judges
      /\ admitted = [j \in Judges |-> Quiet] /\ Apis \subseteq Judges
  BY DEF ThrottleInit, Judges
<1>2. /\ hits = 0 /\ hitsLeft = 0 /\ expiring = {} /\ outages = 0 /\ refused = "nobody"
      /\ policy \in {"local", "open", "closed"}
      /\ \A p \in Apis : local[p] = NoCount
  BY DEF ThrottleInit
<1>3. NoCount.count = 0 /\ NoCount.left = 0
      /\ NoCount \in [count : 0..MaxOutages, left : 0..Ttl]
  BY ThrottleAssumption DEF NoCount
<1>4. ThrottleTypeOK
  <2>1. arrived \in [Ages -> Nat] /\ admitted \in [Judges -> [Ages -> Nat]]
    BY <1>1, QuietIsMono DEF Mono
  <2>2. 0 \in 0..Top /\ 0 \in 0..Endless /\ 0 \in 0..MaxOutages
    BY ThrottleAssumption DEF Top, Endless
  <2>3. local \in [Apis -> [count : 0..MaxOutages, left : 0..Ttl]]
    BY <1>3 DEF ThrottleInit
  <2> QED
    BY <1>2, <1>3, <2>1, <2>2, <2>3 DEF ThrottleTypeOK
<1>5. Mono(arrived) /\ \A j \in Judges : Mono(admitted[j])
  BY <1>1, QuietIsMono
<1>6. RedisInv
  BY <1>1, <1>2, QuietIsMono, ThrottleAssumption DEF RedisInv
<1>7. FallbackInv
  <2> SUFFICES ASSUME NEW p \in Apis
               PROVE  /\ Within(admitted[p]) = 0 /\ 0 <= Allowed(local[p].count)
                      /\ local[p].left \notin 1..Ttl - 1
    BY <1>1, QuietIsMono DEF FallbackInv
  <2>1. Within(admitted[p]) = 0 /\ local[p].count = 0 /\ local[p].left = 0
    BY <1>1, <1>2, <1>3, QuietIsMono
  <2>2. Allowed(0) = 0 /\ 0 \notin 1..Ttl - 1
    BY ThrottleAssumption DEF Allowed
  <2> QED
    BY <2>1, <2>2
<1>8. RefusedForACause /\ CounterEnds
  BY <1>2, ThrottleAssumption DEF RefusedForACause, CounterEnds, Endless
<1> QED
  BY <1>2, <1>3, <1>4, <1>5, <1>6, <1>7, <1>8 DEF ThrottleInv

(* What the invariant says about the variables, for the steps.             *)
LEMMA ThrottleShape ==
  ASSUME ThrottleInv
  PROVE  /\ hits \in Nat /\ hits <= Limit + 2 /\ hitsLeft \in 0..Ttl + 1
         /\ (hits = 0) = (hitsLeft = 0)
         /\ expiring \subseteq Apis /\ outages \in 0..MaxOutages /\ outages \in Nat
         /\ Mono(arrived) /\ Mono(admitted["Redis"])
         /\ \A p \in Apis : /\ p \in Judges /\ p # "Redis" /\ Mono(admitted[p])
                            /\ local[p] \in [count : 0..MaxOutages, left : 0..Ttl]
                            /\ (local[p].count = 0) = (local[p].left = 0)
                            /\ local[p].count \in Nat /\ local[p].left \in Nat
                            /\ local[p].count <= outages
         /\ admitted \in [Judges -> [Ages -> Nat]] /\ arrived \in [Ages -> Nat]
         /\ "Redis" \in Judges
         /\ Limit \in Nat \ {0} /\ Ttl \in Nat \ {0} /\ MaxOutages \in Nat
<1>1. ThrottleTypeOK
  BY DEF ThrottleInv
<1>2. hits \in Nat /\ hits <= Limit + 2 /\ hitsLeft \in 0..Ttl + 1
  BY <1>1, ThrottleAssumption DEF ThrottleTypeOK, Top, Endless
<1>3. ASSUME NEW p \in Apis PROVE local[p].count \in Nat /\ local[p].left \in Nat
  <2>1. local[p] \in [count : 0..MaxOutages, left : 0..Ttl]
    BY <1>1 DEF ThrottleTypeOK
  <2> QED
    BY <2>1, ThrottleAssumption
<1>4. \A p \in Apis : p \in Judges /\ p # "Redis"
  BY ThrottleAssumption DEF Judges
<1>5. "Redis" \in Judges /\ outages \in Nat
  BY <1>1, ThrottleAssumption DEF Judges, ThrottleTypeOK
<1>6. Mono(arrived) /\ \A j \in Judges : Mono(admitted[j])
  BY DEF ThrottleInv
<1> QED
  BY <1>1, <1>2, <1>3, <1>4, <1>5, <1>6, ThrottleAssumption DEF ThrottleInv,
     ThrottleTypeOK
LEMMA Rebuilt ==
  ASSUME ThrottleTypeOK', \A p \in Apis : local'[p].count <= outages',
         Mono(arrived)', \A j \in Judges : Mono(admitted[j])',
         RedisInv', FallbackInv', RefusedForACause', CounterEnds'
  PROVE  ThrottleInv'
BY DEF ThrottleInv

(* What a request does to the history.                                     *)
LEMMA Judging ==
  ASSUME ThrottleInv, NEW j \in Judges, NEW refuser, Judge(j, refuser)
  PROVE  /\ Mono(arrived)' /\ (\A i \in Judges : Mono(admitted[i])')
         /\ arrived' \in [Ages -> Nat] /\ admitted' \in [Judges -> [Ages -> Nat]]
         /\ \A a \in Ages : arrived'[a] = arrived[a] + 1
         /\ Within(arrived)' = Within(arrived) + 1
         /\ \A i \in Judges : i # j \/ refuser # "nobody" => admitted'[i] = admitted[i]
         /\ refuser = "nobody" => /\ \A a \in Ages : admitted'[j][a] = admitted[j][a] + 1
                                  /\ Within(admitted'[j]) = Within(admitted[j]) + 1
         /\ refused' = refuser
<1>1. Mono(arrived) /\ (\A i \in Judges : Mono(admitted[i]))
      /\ admitted \in [Judges -> [Ages -> Nat]]
  BY ThrottleShape DEF ThrottleInv
<1>2. PICK g : g = Another(arrived)
  OBVIOUS
<1>3. arrived' = g /\ refused' = refuser
  BY <1>2 DEF Judge
<1>4. Mono(g) /\ (\A a \in Ages : g[a] = arrived[a] + 1) /\ Within(g) = Within(arrived) + 1
  BY <1>1, <1>2, More
<1>5. PICK h : h = Another(admitted[j])
  OBVIOUS
<1>6. /\ Mono(h) /\ (\A a \in Ages : h[a] = admitted[j][a] + 1)
      /\ Within(h) = Within(admitted[j]) + 1
  BY <1>1, <1>5, More
<1>7. admitted' = IF refuser = "nobody" THEN [admitted EXCEPT ![j] = h] ELSE admitted
  BY <1>5 DEF Judge
<1>8. /\ admitted' \in [Judges -> [Ages -> Nat]]
      /\ \A i \in Judges : i # j \/ refuser # "nobody" => admitted'[i] = admitted[i]
      /\ refuser = "nobody" => admitted'[j] = h
  BY <1>1, <1>6, <1>7 DEF Mono
<1>9. \A i \in Judges : Mono(admitted'[i])
  BY <1>1, <1>6, <1>8
<1> QED
  BY <1>3, <1>4, <1>6, <1>8, <1>9 DEF Mono, Within

LEMMA IncrStep ==
  ASSUME ThrottleInv, NEW p \in Apis, IncrAnswers(p)
  PROVE  ThrottleInv'
<1> DEFINE R == admitted["Redis"]
<1>1. PICK refuser : /\ refuser = IF TooMany(hits + 1) THEN "Redis" ELSE "nobody"
                     /\ Judge("Redis", refuser)
  BY DEF IncrAnswers
<1>2. /\ Mono(arrived)' /\ (\A i \in Judges : Mono(admitted[i])')
      /\ arrived' \in [Ages -> Nat] /\ admitted' \in [Judges -> [Ages -> Nat]]
      /\ \A a \in Ages : arrived'[a] = arrived[a] + 1
      /\ Within(arrived)' = Within(arrived) + 1
      /\ \A i \in Judges : i # "Redis" \/ refuser # "nobody" => admitted'[i] = admitted[i]
      /\ refuser = "nobody" => /\ \A a \in Ages : R'[a] = R[a] + 1
                               /\ Within(R)' = Within(R) + 1
      /\ refused' = refuser
  BY <1>1, ThrottleShape, Judging
<1>3. /\ hits' = IF hits < Top THEN hits + 1 ELSE Top
      /\ hitsLeft' = IF hits = 0 THEN Endless ELSE hitsLeft
      /\ expiring' = IF hits = 0 THEN expiring \cup {p} ELSE expiring
      /\ UNCHANGED <<policy, local, outages>>
  BY DEF IncrAnswers, OneMore
<1>4. refuser = IF hits + 1 > Limit THEN "Redis" ELSE "nobody"
  BY <1>1 DEF TooMany
<1>5. ThrottleTypeOK' /\ \A q \in Apis : local'[q].count <= outages'
  <2>1. hits' \in 0..Top /\ hitsLeft' \in 0..Endless /\ (hits' = 0) = (hitsLeft' = 0)
    BY <1>3, ThrottleShape DEF Top, Endless
  <2> QED
    BY <1>2, <1>3, <1>4, <2>1, ThrottleShape DEF ThrottleInv, ThrottleTypeOK
<1>6. FallbackInv'
  BY <1>2, <1>3, ThrottleShape DEF ThrottleInv, FallbackInv, Allowed
<1>7. CounterEnds'
  BY <1>3, ThrottleShape DEF ThrottleInv, CounterEnds, Endless
<1>8. RedisInv' /\ (outages' = 0 => hits' <= Within(arrived)')
  <2>1. hits' > 0
    BY <1>3, ThrottleShape DEF Top
  <2>2. PICK k \in Ages : OpenedAt(k)'
    <3>1. CASE hits = 0
      <4>1. /\ 0 \in Ages /\ R[0] = 0 /\ Within(R) <= Limit - 1 /\ Within(R) \in Nat
            /\ arrived[0] \in Nat
        BY <3>1, ThrottleShape, AgesOK DEF ThrottleInv, RedisInv, Mono, Within
      <4>2. refuser = "nobody" /\ hits' = 1 /\ hitsLeft' = Ttl + 1 /\ Allowed(hits') = 1
        BY <1>3, <1>4, <3>1, ThrottleShape DEF Top, Endless, Allowed
      <4>3. R'[0] = 1 /\ Within(R)' \in Nat /\ Within(R)' <= Limit
            /\ arrived'[0] \in Nat /\ arrived'[0] >= 1
        BY <1>2, <4>1, <4>2, ThrottleAssumption
      <4>4. OpenedAt(0)'
        <5>1. hitsLeft' \notin 1..Ttl
          BY <4>2, ThrottleAssumption
        <5>2. Within(R)' - R'[0] <= Limit - 1
          BY <4>3, ThrottleAssumption
        <5> QED
          BY <4>2, <4>3, <5>1, <5>2 DEF OpenedAt
      <4> QED
        BY <4>1, <4>4
    <3>2. CASE hits > 0
      <4>1. PICK k \in Ages : OpenedAt(k)
        BY <3>2 DEF ThrottleInv, RedisInv
      <4>2. /\ k \in Nat /\ R[k] \in Nat /\ (k >= 1 => k - 1 \in Ages /\ R[k - 1] \in Nat)
            /\ Within(R) \in Nat /\ arrived[k] \in Nat
        BY ThrottleShape, AgesOK DEF Mono, Within, Ages
      <4>3. hits' \in Nat /\ hits' <= hits + 1 /\ Allowed(hits') >= Allowed(hits)
            /\ Allowed(hits') \in Nat /\ Allowed(hits) \in Nat
            /\ (refuser = "nobody" => Allowed(hits') = Allowed(hits) + 1)
        BY <1>3, <1>4, ThrottleShape DEF Allowed, Top
      <4>4. /\ R'[k] <= Allowed(hits') /\ Within(R)' - R'[k] = Within(R) - R[k]
            /\ hitsLeft \in 1..Ttl /\ k >= 1 => R'[k - 1] <= Allowed(hits') - 1
        <5>1. CASE refuser = "nobody"
          BY <1>2, <4>1, <4>2, <4>3, <5>1 DEF OpenedAt
        <5>2. CASE refuser # "nobody"
          <6>1. R' = R /\ Within(R)' = Within(R)
            BY <1>2, <5>2, ThrottleShape DEF Within
          <6> QED
            BY <4>1, <4>2, <4>3, <6>1 DEF OpenedAt
        <5> QED
          BY <5>1, <5>2
      <4>5. hitsLeft' = hitsLeft /\ expiring' = expiring /\ outages' = outages
        BY <1>3, <3>2, ThrottleShape
      <4>6. outages' = 0 => hits' <= arrived'[k]
        BY <1>2, <4>1, <4>2, <4>3, <4>5, ThrottleShape DEF OpenedAt
      <4>7. Within(R)' - R'[k] <= Limit - 1
        BY <4>1, <4>4 DEF OpenedAt
      <4>8. OpenedAt(k)'
        BY <4>1, <4>4, <4>5, <4>6, <4>7 DEF OpenedAt
      <4> QED
        BY <4>8
    <3> QED
      BY <3>1, <3>2, ThrottleShape
  <2>3. outages' = 0 => hits' <= Within(arrived)'
    <3>1. Ttl - 1 \in Ages /\ k <= Ttl - 1 /\ arrived'[k] \in Nat /\ arrived'[Ttl - 1] \in Nat
      BY <1>2, AgesOK
    <3>2. arrived'[k] <= arrived'[Ttl - 1]
      BY <1>2, <3>1 DEF Mono
    <3>3. hits' \in Nat
      BY <1>3, ThrottleShape DEF Top
    <3> QED
      BY <2>2, <3>1, <3>2, <3>3 DEF OpenedAt, Within
  <2> QED
    BY <2>1, <2>2, <2>3 DEF RedisInv
<1>9. RefusedForACause'
  <2>1. refuser = "Redis" => hits' > Limit
    BY <1>3, <1>4, ThrottleShape DEF Top
  <2>2. outages' \in Nat /\ Within(arrived)' \in Nat /\ hits' \in Nat
    BY <1>2, <1>3, ThrottleShape, AgesOK DEF Within, Top
  <2> QED
    BY <1>2, <1>8, <2>1, <2>2, ThrottleAssumption DEF RefusedForACause
<1> QED
  BY <1>2, <1>5, <1>6, <1>7, <1>8, <1>9, Rebuilt

(* Steps between which no request arrives and no time passes.              *)
LEMMA QuietStep ==
  ASSUME ThrottleInv, UNCHANGED <<policy, hits, local, arrived, admitted, refused>>,
         outages' \in 0..MaxOutages, outages' >= outages,
         expiring' \subseteq expiring, CounterEnds',
         \/ hitsLeft' = hitsLeft
         \/ expiring # {} /\ hitsLeft' = IF hits > 0 THEN Ttl ELSE 0
  PROVE  ThrottleInv'
<1>1. hitsLeft' \in 0..Endless /\ (hits' = 0) = (hitsLeft' = 0)
  BY ThrottleShape DEF Endless
<1>2. ThrottleTypeOK' /\ \A q \in Apis : local'[q].count <= outages'
  BY <1>1, ThrottleShape DEF ThrottleInv, ThrottleTypeOK
<1>3. Mono(arrived)' /\ \A j \in Judges : Mono(admitted[j])'
  BY DEF ThrottleInv, Mono
<1>4. FallbackInv'
  BY DEF ThrottleInv, FallbackInv, Allowed, Within
<1>5. RefusedForACause'
  BY ThrottleShape DEF ThrottleInv, RefusedForACause, Within
<1>6. RedisInv'
  <2>1. ASSUME NEW k \in Ages, OpenedAt(k) PROVE OpenedAt(k)'
    BY <2>1, ThrottleShape DEF OpenedAt, Allowed, Within
  <2> QED
    BY <2>1 DEF ThrottleInv, RedisInv, Within
<1> QED
  BY <1>2, <1>3, <1>4, <1>5, <1>6, Rebuilt

LEMMA ExpireStep ==
  ASSUME ThrottleInv, NEW p \in Apis, ExpireAnswers(p)
  PROVE  ThrottleInv'
<1>1. CounterEnds'
  BY ThrottleShape DEF ExpireAnswers, CounterEnds, Endless
<1> QED
  BY <1>1, QuietStep, ThrottleShape DEF ExpireAnswers

LEMMA ExpireFailsStep ==
  ASSUME ThrottleInv, NEW p \in Apis, ExpireFails(p)
  PROVE  ThrottleInv'
<1>1. outages' = outages + 1 /\ outages < MaxOutages
  BY DEF ExpireFails, Outage
<1>2. CounterEnds'
  BY <1>1, ThrottleShape DEF CounterEnds
<1> QED
  BY <1>1, <1>2, QuietStep, ThrottleShape DEF ExpireFails
LEMMA IncrFailsStep ==
  ASSUME ThrottleInv, NEW p \in Apis, IncrFails(p)
  PROVE  ThrottleInv'
<1> DEFINE R == admitted["Redis"]
<1>1. PICK refuser : refuser = Verdict(p) /\ Judge(p, refuser)
  BY DEF IncrFails
<1>2. /\ Mono(arrived)' /\ (\A i \in Judges : Mono(admitted[i])')
      /\ arrived' \in [Ages -> Nat] /\ admitted' \in [Judges -> [Ages -> Nat]]
      /\ \A a \in Ages : arrived'[a] = arrived[a] + 1
      /\ Within(arrived)' = Within(arrived) + 1
      /\ \A i \in Judges : i # p \/ refuser # "nobody" => admitted'[i] = admitted[i]
      /\ refuser = "nobody" => /\ \A a \in Ages : admitted'[p][a] = admitted[p][a] + 1
                               /\ Within(admitted'[p]) = Within(admitted[p]) + 1
      /\ refused' = refuser
  BY <1>1, ThrottleShape, Judging
<1>3. /\ \/ hits' = hits /\ hitsLeft' = hitsLeft
         \/ /\ hits' = IF hits < Top THEN hits + 1 ELSE Top
            /\ hitsLeft' = IF hits = 0 THEN Endless ELSE hitsLeft
      /\ local' = IF policy = "local" THEN [local EXCEPT ![p] = Counted(@)] ELSE local
      /\ outages' = outages + 1 /\ outages < MaxOutages
      /\ UNCHANGED <<policy, expiring>>
  BY DEF IncrFails, OneMore, Outage
<1>4. PICK c : c = Counted(local[p])
  OBVIOUS
<1>5. /\ c.count = local[p].count + 1 /\ c.left = Ttl
      /\ c \in [count : 0..MaxOutages, left : 0..Ttl] /\ c.count <= outages'
      /\ c.count # 0
  <2>1. local[p].count + 1 \in 0..MaxOutages /\ Ttl \in 0..Ttl
    BY <1>3, ThrottleShape
  <2> QED
    BY <1>3, <1>4, <2>1, ThrottleShape DEF Counted
<1>6. /\ refuser = CASE policy = "closed" -> "Redis"
                     [] policy = "open"   -> "nobody"
                     [] OTHER -> IF c.count > Limit THEN "fallback" ELSE "nobody"
      /\ policy \in {"local", "open", "closed"}
  BY <1>1, <1>4 DEF Verdict, TooMany, ThrottleInv, ThrottleTypeOK
<1>7. /\ policy = "closed" => refuser = "Redis"
      /\ policy = "local" => refuser = IF c.count > Limit THEN "fallback" ELSE "nobody"
      /\ refuser \in {"nobody", "Redis", "fallback"}
  BY <1>6
<1>8. /\ \A q \in Apis : policy # "local" \/ q # p => local'[q] = local[q]
      /\ policy = "local" => local'[p] = c
  <2>1. local \in [Apis -> [count : 0..MaxOutages, left : 0..Ttl]]
    BY DEF ThrottleInv, ThrottleTypeOK
  <2> QED
    BY <1>3, <1>4, <2>1
<1>9. ThrottleTypeOK' /\ \A q \in Apis : local'[q].count <= outages'
  <2>1. hits' \in 0..Top /\ hitsLeft' \in 0..Endless /\ (hits' = 0) = (hitsLeft' = 0)
    BY <1>3, ThrottleShape DEF Top, Endless
  <2>2. ASSUME NEW q \in Apis
        PROVE  /\ local'[q] \in [count : 0..MaxOutages, left : 0..Ttl]
               /\ (local'[q].count = 0) = (local'[q].left = 0)
               /\ local'[q].count <= outages'
    <3>1. CASE local'[q] = local[q]
      BY <1>3, <3>1, ThrottleShape
    <3>2. CASE local'[q] = c
      BY <1>5, <3>2, ThrottleAssumption
    <3> QED
      BY <1>8, <3>1, <3>2
  <2>3. outages' \in 0..MaxOutages /\ expiring' \subseteq Apis /\ policy' = policy
    BY <1>3, ThrottleShape
  <2>4. local' \in [Apis -> [count : 0..MaxOutages, left : 0..Ttl]]
    <3>1. local \in [Apis -> [count : 0..MaxOutages, left : 0..Ttl]]
      BY DEF ThrottleInv, ThrottleTypeOK
    <3> QED
      BY <1>3, <1>4, <1>5, <3>1
  <2> QED
    BY <1>2, <1>6, <1>7, <2>1, <2>2, <2>3, <2>4 DEF ThrottleTypeOK
<1>10. FallbackInv'
  <2>1. SUFFICES ASSUME NEW q \in Apis
        PROVE  /\ policy = "closed" => Within(admitted'[q]) = 0
               /\ policy = "local" =>
                    /\ Within(admitted'[q]) <= Allowed(local'[q].count)
                    /\ local'[q].left \in 1..Ttl - 1 =>
                         admitted'[q][Ttl - local'[q].left - 1] = 0
    BY <1>3 DEF FallbackInv, Within, Allowed
  <2>2. CASE policy = "local" /\ q = p
    <3>1. Within(admitted[p]) <= Allowed(local[p].count) /\ Within(admitted[p]) \in Nat
      BY <2>2, ThrottleShape, AgesOK DEF ThrottleInv, FallbackInv, Mono, Within
    <3>2. local'[q] = c /\ c.left \notin 1..Ttl - 1
      BY <1>5, <1>8, <2>2, ThrottleAssumption
    <3>3. Within(admitted'[p]) <= Allowed(c.count)
      <4>1. CASE c.count > Limit
        <5>1. admitted'[p] = admitted[p]
          BY <1>2, <1>7, <2>2, <4>1, ThrottleShape
        <5> QED
          BY <1>5, <3>1, <4>1, <5>1, ThrottleShape DEF Allowed
      <4>2. CASE ~(c.count > Limit)
        <5>1. Within(admitted'[p]) = Within(admitted[p]) + 1
          BY <1>2, <1>7, <2>2, <4>2
        <5> QED
          BY <1>5, <3>1, <4>2, <5>1, ThrottleShape DEF Allowed
      <4> QED
        BY <4>1, <4>2
    <3> QED
      BY <2>2, <3>2, <3>3
  <2>3. CASE policy = "local" /\ q # p
    BY <1>2, <1>8, <2>3, ThrottleShape DEF ThrottleInv, FallbackInv
  <2>4. CASE policy = "closed"
    <3>1. admitted'[q] = admitted[q]
      BY <1>2, <1>7, <2>4, ThrottleShape
    <3> QED
      BY <2>4, <3>1 DEF ThrottleInv, FallbackInv
  <2> QED
    BY <1>6, <2>2, <2>3, <2>4
<1>11. CounterEnds' /\ RefusedForACause'
  BY <1>3, ThrottleShape DEF CounterEnds, RefusedForACause
<1>12. RedisInv'
  <2>1. R' = R /\ Within(R)' = Within(R)
    BY <1>2, ThrottleShape DEF Within
  <2>2. outages' # 0 /\ expiring' = expiring
    BY <1>3, ThrottleShape
  <2>3. CASE hits' = 0
    <3>1. hits = 0
      BY <1>3, <2>3, ThrottleShape DEF Top
    <3> QED
      BY <2>1, <2>2, <2>3, <3>1 DEF ThrottleInv, RedisInv
  <2>4. CASE hits > 0
    <3>1. PICK k \in Ages : OpenedAt(k)
      BY <2>4 DEF ThrottleInv, RedisInv
    <3>2. hitsLeft' = hitsLeft /\ hits' \in Nat /\ hits' >= hits
      BY <1>3, <2>4, ThrottleShape DEF Top
    <3>3. Allowed(hits') >= Allowed(hits) /\ Allowed(hits') \in Nat /\ Allowed(hits) \in Nat
      BY <3>2, ThrottleShape DEF Allowed
    <3>4. R[k] \in Nat /\ (k >= 1 => k - 1 \in Ages /\ R[k - 1] \in Nat)
      BY ThrottleShape, AgesOK DEF Mono, Ages
    <3>5. R'[k] <= Allowed(hits') /\ (hitsLeft \in 1..Ttl /\ k >= 1 => R'[k - 1] <= Allowed(hits') - 1)
      BY <2>1, <3>1, <3>3, <3>4 DEF OpenedAt
    <3>6. OpenedAt(k)'
      BY <2>1, <2>2, <3>1, <3>2, <3>5 DEF OpenedAt
    <3> QED
      BY <2>4, <3>2, <3>6, ThrottleShape DEF RedisInv
  <2>5. CASE hits = 0 /\ hits' # 0
    <3>1. /\ 0 \in Ages /\ R[0] = 0 /\ Within(R) <= Limit - 1 /\ Within(R) \in Nat /\ expiring = {}
      BY <2>5, ThrottleShape, AgesOK DEF ThrottleInv, RedisInv, Mono, Within
    <3>2. hits' = 1 /\ hitsLeft' = Ttl + 1 /\ Allowed(hits') = 1
      <4>1. hits' = 1 /\ hitsLeft' = Ttl + 1
        BY <1>3, <2>5, ThrottleAssumption DEF Top, Endless
      <4> QED
        BY <4>1, ThrottleAssumption DEF Allowed
    <3>3. hitsLeft' \notin 1..Ttl /\ Within(R)' - R'[0] <= Limit - 1
      BY <2>1, <3>1, <3>2, ThrottleAssumption
    <3>4. OpenedAt(0)'
      BY <2>1, <2>2, <3>1, <3>2, <3>3 DEF OpenedAt
    <3> QED
      BY <3>1, <3>2, <3>4 DEF RedisInv
  <2> QED
    BY <2>3, <2>4, <2>5, ThrottleShape
<1> QED
  BY <1>2, <1>9, <1>10, <1>11, <1>12, Rebuilt
LEMMA WindowStep ==
  ASSUME ThrottleInv, WindowPasses
  PROVE  ThrottleInv'
<1> DEFINE R == admitted["Redis"]
<1>1. /\ expiring = {} /\ expiring' = {} /\ policy' = policy /\ outages' = outages
      /\ refused' = "nobody"
      /\ hitsLeft' = IF hitsLeft \in 1..Ttl THEN hitsLeft - 1 ELSE hitsLeft
      /\ hits' = IF hitsLeft = 1 THEN 0 ELSE hits
  BY DEF WindowPasses
<1>2. PICK g : g = OneOlder(arrived)
  OBVIOUS
<1>3. /\ Mono(arrived)' /\ \A a \in Ages : a # 0 => arrived'[a] = arrived[a - 1]
  <2>1. Mono(g) /\ \A a \in Ages : a # 0 => g[a] = arrived[a - 1]
    BY <1>2, ThrottleShape, AgedEntry
  <2> QED
    BY <1>2, <2>1 DEF WindowPasses, Mono
<1>4. \A j \in Judges : /\ Mono(admitted'[j]) /\ admitted'[j][0] = 0
                        /\ \A a \in Ages : a # 0 => admitted'[j][a] = admitted[j][a - 1]
                        /\ Within(admitted'[j]) <= Within(admitted[j])
  <2>1. SUFFICES ASSUME NEW j \in Judges
        PROVE  /\ Mono(admitted'[j]) /\ admitted'[j][0] = 0
               /\ \A a \in Ages : a # 0 => admitted'[j][a] = admitted[j][a - 1]
               /\ Within(admitted'[j]) <= Within(admitted[j])
    OBVIOUS
  <2>2. PICK h : h = OneOlder(admitted[j])
    OBVIOUS
  <2>3. admitted'[j] = h
    BY <2>2 DEF WindowPasses
  <2>4. Mono(admitted[j])
    BY DEF ThrottleInv
  <2> QED
    BY <2>2, <2>3, <2>4, AgedEntry
<1>5. arrived' \in [Ages -> Nat] /\ admitted' \in [Judges -> [Ages -> Nat]]
  <2>1. admitted' = [j \in Judges |-> admitted'[j]]
    BY DEF WindowPasses
  <2> QED
    BY <1>3, <1>4, <2>1 DEF Mono
<1>6. \A p \in Apis : /\ local[p].left \in {0, 1} => local'[p].count = 0 /\ local'[p].left = 0
                      /\ local[p].left > 1 => /\ local'[p].count = local[p].count
                                              /\ local'[p].left = local[p].left - 1
  <2>1. SUFFICES ASSUME NEW p \in Apis
        PROVE  /\ local[p].left \in {0, 1} => local'[p].count = 0 /\ local'[p].left = 0
               /\ local[p].left > 1 => /\ local'[p].count = local[p].count
                                       /\ local'[p].left = local[p].left - 1
    OBVIOUS
  <2>2. local'[p] = IF local[p].left <= 1 THEN NoCount ELSE [local[p] EXCEPT !.left = @ - 1]
    BY DEF WindowPasses
  <2>3. local[p] \in [count : 0..MaxOutages, left : 0..Ttl]
    BY ThrottleShape
  <2> QED
    BY <2>2, <2>3, ThrottleAssumption DEF NoCount
<1>7. ThrottleTypeOK' /\ \A p \in Apis : local'[p].count <= outages'
  <2>1. hits' \in 0..Top /\ hitsLeft' \in 0..Endless /\ (hits' = 0) = (hitsLeft' = 0)
    BY <1>1, ThrottleShape DEF Top, Endless
  <2>2. local' \in [Apis -> [count : 0..MaxOutages, left : 0..Ttl]]
    <3>1. \A p \in Apis : local[p] \in [count : 0..MaxOutages, left : 0..Ttl]
      BY ThrottleShape
    <3>2. NoCount \in [count : 0..MaxOutages, left : 0..Ttl]
      BY ThrottleAssumption DEF NoCount
    <3>3. \A c \in [count : 0..MaxOutages, left : 0..Ttl] :
            ~(c.left <= 1) => [c EXCEPT !.left = @ - 1] \in [count : 0..MaxOutages, left : 0..Ttl]
      BY ThrottleAssumption
    <3>4. local' = [p \in Apis |-> IF local[p].left <= 1 THEN NoCount
                                   ELSE [local[p] EXCEPT !.left = @ - 1]]
      BY DEF WindowPasses
    <3> QED
      BY <3>1, <3>2, <3>3, <3>4
  <2>3. ASSUME NEW p \in Apis
        PROVE  (local'[p].count = 0) = (local'[p].left = 0) /\ local'[p].count <= outages'
    <3>1. /\ (local[p].count = 0) = (local[p].left = 0)
          /\ local[p].left \in Nat /\ local[p].count <= outages /\ outages \in Nat
      BY ThrottleShape
    <3>2. \/ local'[p].count = 0 /\ local'[p].left = 0
          \/ local'[p].count = local[p].count /\ local'[p].left = local[p].left - 1
             /\ local[p].left > 1
      BY <1>6, <3>1
    <3> QED
      BY <1>1, <3>1, <3>2
  <2> QED
    BY <1>1, <1>5, <2>1, <2>2, <2>3, ThrottleShape DEF ThrottleInv, ThrottleTypeOK
<1>8. FallbackInv'
  <2>1. SUFFICES ASSUME NEW p \in Apis
        PROVE  /\ policy = "closed" => Within(admitted'[p]) = 0
               /\ policy = "local" =>
                    /\ Within(admitted'[p]) <= Allowed(local'[p].count)
                    /\ local'[p].left \in 1..Ttl - 1 =>
                         admitted'[p][Ttl - local'[p].left - 1] = 0
    BY <1>1 DEF FallbackInv, Within, Allowed
  <2>2. /\ Within(admitted'[p]) \in Nat /\ Within(admitted[p]) \in Nat
        /\ Within(admitted'[p]) <= Within(admitted[p]) /\ p \in Judges
        /\ Mono(admitted[p])
    BY <1>4, ThrottleShape, AgesOK DEF Mono, Within
  <2>3. CASE policy = "closed"
    BY <2>2, <2>3 DEF ThrottleInv, FallbackInv
  <2>4. CASE policy = "local"
    <3>1. /\ Within(admitted[p]) <= Allowed(local[p].count)
          /\ local[p].left \in 1..Ttl - 1 => admitted[p][Ttl - local[p].left - 1] = 0
      BY <2>4 DEF ThrottleInv, FallbackInv
    <3>2. CASE local[p].left = 0
      <4>1. local[p].count = 0 /\ local'[p].count = 0 /\ local'[p].left = 0
        BY <1>6, <3>2, ThrottleShape
      <4> QED
        BY <2>2, <2>4, <3>1, <4>1, ThrottleAssumption DEF Allowed
    <3>3. CASE local[p].left = 1
      <4>1. local'[p].count = 0 /\ local'[p].left = 0
        BY <1>6, <3>3
      <4>2. Within(admitted'[p]) = 0
        <5>1. CASE Ttl = 1
          BY <1>4, <2>2, <5>1 DEF Within
        <5>2. CASE Ttl # 1
          <6>1. admitted[p][Ttl - 2] = 0
            BY <3>1, <3>3, <5>2, ThrottleAssumption
          <6>2. admitted'[p][Ttl - 1] = admitted[p][Ttl - 2]
            BY <1>4, <2>2, <5>2, AgesOK, ThrottleAssumption
          <6> QED
            BY <6>1, <6>2 DEF Within
        <5> QED
          BY <5>1, <5>2
      <4> QED
        BY <2>4, <4>1, <4>2, ThrottleAssumption DEF Allowed
    <3>4. CASE local[p].left > 1
      <4>1. local'[p].count = local[p].count /\ local'[p].left = local[p].left - 1
            /\ local[p].count \in Nat /\ local[p].left \in 0..Ttl
        BY <1>6, <3>4, ThrottleShape
      <4>2. Within(admitted'[p]) <= Allowed(local'[p].count)
        BY <2>2, <3>1, <4>1, ThrottleAssumption DEF Allowed
      <4>3. admitted'[p][Ttl - local'[p].left - 1] = 0
        <5>1. PICK k \in Ages : k = Ttl - local[p].left
          BY <3>4, <4>1, ThrottleAssumption DEF Ages
        <5>2. k # 0 => admitted'[p][k] = admitted[p][k - 1] /\ admitted[p][k - 1] = 0
          <6>1. k # 0 => local[p].left \in 1..Ttl - 1 /\ k - 1 = Ttl - local[p].left - 1
            BY <3>4, <4>1, <5>1, ThrottleAssumption DEF Ages
          <6> QED
            BY <1>4, <2>2, <3>1, <6>1
        <5>3. k = Ttl - local'[p].left - 1
          BY <3>4, <4>1, <5>1, ThrottleAssumption
        <5> QED
          BY <1>4, <2>2, <5>2, <5>3
      <4> QED
        BY <2>4, <4>2, <4>3
    <3>5. local[p].left = 0 \/ local[p].left = 1 \/ local[p].left > 1
      <4>1. local[p].left \in Nat
        BY ThrottleShape
      <4> QED
        BY <4>1
    <3> QED
      BY <3>2, <3>3, <3>4, <3>5
  <2>5. policy = "closed" \/ policy = "local" \/ policy = "open"
    BY DEF ThrottleInv, ThrottleTypeOK
  <2> QED
    BY <2>3, <2>4, <2>5
<1>9. CounterEnds' /\ RefusedForACause'
  BY <1>1, ThrottleShape DEF ThrottleInv, CounterEnds, RefusedForACause, Endless
<1>10. RedisInv'
  <2>1. /\ R'[0] = 0 /\ (\A a \in Ages : a # 0 => R'[a] = R[a - 1])
        /\ Within(R)' <= Within(R) /\ Within(R)' \in Nat /\ Within(R) \in Nat
        /\ R \in [Ages -> Nat]
        /\ R' \in [Ages -> Nat]
    BY <1>4, ThrottleShape, AgesOK DEF Mono, Within
  <2>2. CASE hits = 0
    BY <1>1, <2>1, <2>2, ThrottleShape DEF ThrottleInv, RedisInv
  <2>3. CASE hits > 0
    <3>1. PICK k \in Ages : OpenedAt(k)
      BY <2>3 DEF ThrottleInv, RedisInv
    <3>2. k \in 0..Ttl - 1 /\ R[k] \in Nat
      BY <2>1 DEF Ages
    <3>3. Allowed(hits) \in Nat /\ Allowed(hits) <= Limit
      BY ThrottleShape DEF Allowed
    <3>4. CASE hitsLeft = 1
      <4>1. k = Ttl - 1 /\ hits' = 0
        BY <1>1, <3>1, <3>4, ThrottleAssumption DEF OpenedAt
      <4>2. Within(R)' <= Limit - 1
        <5>1. CASE k = 0
          <6>1. Within(R)' = 0
            BY <2>1, <4>1, <5>1 DEF Within
          <6> QED
            BY <6>1, ThrottleAssumption
        <5>2. CASE k # 0
          <6>1. R[k - 1] <= Allowed(hits) - 1
            BY <3>1, <3>2, <3>4, <5>2, ThrottleAssumption DEF OpenedAt
          <6>2. Within(R)' = R[k - 1] /\ R[k - 1] \in Nat
            BY <2>1, <3>2, <4>1, <5>2 DEF Within, Ages
          <6> QED
            BY <3>3, <6>1, <6>2, ThrottleAssumption
        <5> QED
          BY <5>1, <5>2
      <4> QED
        BY <1>1, <2>1, <4>1, <4>2 DEF RedisInv
    <3>5. CASE hitsLeft # 1
      <4>1. hits' = hits /\ hitsLeft # 0
        BY <1>1, <2>3, <3>5, ThrottleShape
      <4>2. CASE k = Ttl - 1
        <5>1. hitsLeft = Ttl + 1 /\ hitsLeft' = Ttl + 1
          BY <1>1, <3>1, <3>5, <4>1, <4>2, ThrottleShape DEF OpenedAt
        <5>2. R'[k] <= R[k] /\ Within(R)' = R'[k] /\ R'[k] \in Nat
          BY <2>1, <4>2 DEF Within
        <5>3. outages # 0
          BY <1>1, <5>1 DEF ThrottleInv, CounterEnds, Endless
        <5>4. OpenedAt(k)'
          <6>1. R'[k] <= Allowed(hits')
            BY <3>1, <3>2, <3>3, <4>1, <5>2 DEF OpenedAt
          <6>2. hitsLeft' \notin 1..Ttl /\ Within(R)' - R'[k] <= Limit - 1
            BY <5>1, <5>2, ThrottleAssumption
          <6> QED
            BY <1>1, <5>3, <6>1, <6>2 DEF OpenedAt
        <5> QED
          BY <4>1, <2>3, <5>4 DEF RedisInv
      <4>3. CASE k # Ttl - 1
        <5>1. PICK j \in Ages : j = k + 1 /\ j # 0 /\ j - 1 = k
          BY <3>2, <4>3, ThrottleAssumption DEF Ages
        <5>2. R'[j] = R[k] /\ R'[k] \in Nat
          BY <2>1, <5>1
        <5>3. R'[j] <= Allowed(hits') /\ Within(R)' - R'[j] <= Limit - 1
          BY <2>1, <3>1, <3>2, <3>3, <4>1, <5>2, ThrottleAssumption DEF OpenedAt
        <5>4. hitsLeft \in 1..Ttl => R'[k] <= Allowed(hits') - 1
          <6>1. CASE k = 0
            <7>1. Allowed(hits) >= 1
              BY <2>3, ThrottleShape DEF Allowed
            <7> QED
              BY <2>1, <3>3, <4>1, <6>1, <7>1
          <6>2. CASE k # 0
            BY <2>1, <3>1, <3>2, <4>1, <6>2 DEF OpenedAt
          <6> QED
            BY <6>1, <6>2
        <5>5. hitsLeft' \in 1..Ttl => hitsLeft \in 1..Ttl /\ j = Ttl - hitsLeft'
          BY <1>1, <3>1, <3>2, <3>5, <4>1, <5>1, ThrottleShape DEF OpenedAt
        <5>6. outages' = 0 => hits' <= arrived'[j]
          BY <1>1, <1>3, <3>1, <4>1, <5>1 DEF OpenedAt
        <5>7. OpenedAt(j)'
          BY <1>1, <5>1, <5>3, <5>4, <5>5, <5>6 DEF OpenedAt
        <5> QED
          BY <2>3, <4>1, <5>1, <5>7 DEF RedisInv
      <4> QED
        BY <4>2, <4>3
    <3> QED
      BY <3>4, <3>5
  <2> QED
    BY <2>2, <2>3, ThrottleShape
<1> QED
  BY <1>3, <1>4, <1>7, <1>8, <1>9, <1>10, Rebuilt

LEMMA ThrottleInvStep == ThrottleInv /\ [ThrottleNext]_throttleVars => ThrottleInv'
<1> SUFFICES ASSUME ThrottleInv, [ThrottleNext]_throttleVars PROVE ThrottleInv'
  OBVIOUS
<1>1. CASE UNCHANGED throttleVars
  <2>1. CounterEnds'
    BY <1>1 DEF throttleVars, ThrottleInv, CounterEnds
  <2> QED
    BY <1>1, <2>1, QuietStep, ThrottleShape DEF throttleVars
<1>2. CASE ThrottleNext
  BY <1>2, IncrStep, ExpireStep, ExpireFailsStep, IncrFailsStep, WindowStep
  DEF ThrottleNext
<1> QED
  BY <1>1, <1>2

LEMMA ThrottleInvHolds == ThrottleInv => ThrottleTypeOK /\ LimitHolds
<1> SUFFICES ASSUME ThrottleInv PROVE ThrottleTypeOK /\ LimitHolds
  OBVIOUS
<1>1. Within(admitted["Redis"]) <= 2 * Limit - 1
  <2>1. CASE hits = 0
    BY <2>1, ThrottleShape, AgesOK DEF ThrottleInv, RedisInv, Mono, Within
  <2>2. CASE hits > 0
    <3>1. PICK k \in Ages : OpenedAt(k)
      BY <2>2 DEF ThrottleInv, RedisInv
    <3>2. admitted["Redis"][k] \in Nat /\ Within(admitted["Redis"]) \in Nat
      BY ThrottleShape, AgesOK DEF Mono, Within
    <3>3. Allowed(hits) \in Nat /\ Allowed(hits) <= Limit
      BY ThrottleShape DEF Allowed
    <3> QED
      BY <3>1, <3>2, <3>3, ThrottleAssumption DEF OpenedAt
  <2> QED
    BY <2>1, <2>2, ThrottleShape
<1>2. ASSUME NEW p \in Apis
      PROVE  /\ policy = "closed" => Within(admitted[p]) = 0
             /\ policy = "local"  => Within(admitted[p]) <= Limit
  <2>1. Allowed(local[p].count) <= Limit /\ Allowed(local[p].count) \in Nat
    BY ThrottleShape DEF Allowed
  <2>2. Within(admitted[p]) \in Nat
    BY ThrottleShape, AgesOK DEF Mono, Within
  <2> QED
    BY <2>1, <2>2, ThrottleAssumption DEF ThrottleInv, FallbackInv
<1> QED
  BY <1>1, <1>2 DEF ThrottleInv, LimitHolds, AdmissionIsBounded
-----------------------------------------------------------------------------
(* Accounts.                                                               *)

(* What a request that nothing overlapped knows of its user, and what one  *)
(* that was overlapped leaves behind.                                      *)
Lone(a) ==
  LET k == task[a] IN
  /\ \A b \in Admins : task[b].user = k.user => b = a
  /\ k.step = "clearing"  => k.todo = k.want
  /\ k.step = "provisioning" => roles[k.user] = {}
  /\ k.step = "writing"   =>
       k.todo \subseteq k.want /\ roles[k.user] = Found(k.want \ k.todo)
  /\ k.step = "approving" =>
       /\ roles[k.user] = k.seen
       /\ k.user \in stirred \/ roles[k.user] \in asked[k.user]

UserOK(u) ==
  /\ \A a \in Admins : task[a].user = u =>
       /\ task[a].lone => Lone(a)
       /\ Found(task[a].todo) \subseteq granted[u]
       /\ Found(task[a].want) \subseteq granted[u]
       /\ task[a].step = "approving" =>
            /\ u \in known
            /\ \A b \in Admins : task[b].user = u /\ task[b].step = "approving" => b = a
            /\ ~task[a].lone =>
                 u \in stirred \/ \E b \in Admins : b # a /\ task[b].user = u
  /\ u \in known /\ u \notin stirred /\ (\A a \in Admins : task[a].user # u)
       => roles[u] \in asked[u]
  /\ roles[u] \subseteq granted[u]

IdleOK == \A a \in Admins : /\ task[a].step = "idle" => task[a] = NoTask
                            /\ task[a].user = NoUser => task[a].step = "idle"
AccountInv == AccountsTypeOK /\ IdleOK /\ \A u \in Users : UserOK(u)

TaskType == [user : Users \cup {NoUser},
             step : {"idle", "provisioning", "clearing", "writing", "approving",
                     "deleting", "stripped"},
             todo : SUBSET RoleNames, want : SUBSET RoleNames, seen : SUBSET Roles,
             lone : BOOLEAN]

LEMMA NoTaskFields == /\ NoTask.user = NoUser /\ NoTask.step = "idle" /\ NoTask \in TaskType
BY DEF NoTask, Task, TaskType

LEMMA AccountParts ==
  ASSUME AccountsTypeOK
  PROVE  /\ task \in [Admins -> TaskType] /\ roles \in [Users -> SUBSET Roles]
         /\ asked \in [Users -> SUBSET SUBSET Roles]
         /\ granted \in [Users -> SUBSET Roles]
         /\ \A a \in Admins : /\ task[a].want \subseteq RoleNames /\ task[a].todo \subseteq RoleNames
                              /\ task[a].seen \subseteq Roles /\ task[a].lone \in BOOLEAN
                              /\ task[a].user \in Users \cup {NoUser}
<1>1. task \in [Admins -> TaskType] /\ roles \in [Users -> SUBSET Roles]
      /\ asked \in [Users -> SUBSET SUBSET Roles]
      /\ granted \in [Users -> SUBSET Roles]
  BY DEF AccountsTypeOK, TaskType
<1> QED
  BY <1>1 DEF TaskType

(* The kinds of step a request makes.                                      *)
LEMMA OnGoing ==
  ASSUME AccountsTypeOK, NEW a \in Admins,
         NEW step \in {"clearing", "writing", "approving", "deleting", "stripped"},
         NEW todo \in SUBSET RoleNames, GoesOn(a, step, todo)
  PROVE  /\ task' \in [Admins -> TaskType]
         /\ task'[a].user = task[a].user /\ task'[a].step = step /\ task'[a].todo = todo
         /\ task'[a].want = task[a].want /\ task'[a].seen = task[a].seen
         /\ task'[a].lone = task[a].lone
         /\ \A b \in Admins : b # a => task'[b] = task[b]
<1>1. Task(task[a].user, step, todo, task[a].want, task[a].seen, task[a].lone) \in TaskType
  BY AccountParts DEF Task, TaskType
<1>2. task' = [task EXCEPT ![a] =
                 Task(task[a].user, step, todo, task[a].want, task[a].seen, task[a].lone)]
  BY DEF GoesOn
<1> QED
  BY <1>1, <1>2, AccountParts DEF Task

LEMMA Ending ==
  ASSUME AccountsTypeOK, NEW a \in Admins, Ends(a)
  PROVE  /\ task' \in [Admins -> TaskType] /\ task'[a] = NoTask
         /\ \A b \in Admins : b # a => task'[b] = task[b]
BY AccountParts, NoTaskFields DEF Ends

(* What a request that begins is, and what it makes of those it overlaps.  *)
Taken(a, u, step, want, seen) ==
  /\ task' \in [Admins -> TaskType] /\ task[a] = NoTask /\ stirred' = stirred
  /\ granted' \in [Users -> SUBSET Roles] /\ granted'[u] = granted[u] \cup Found(want)
  /\ \A v \in Users : v # u => granted'[v] = granted[v]
  /\ task'[a].user = u /\ task'[a].step = step /\ task'[a].todo = want
  /\ task'[a].want = want /\ task'[a].seen = seen
  /\ task'[a].lone => \A b \in Admins : task[b].user # u
  /\ ~task'[a].lone => \E b \in Admins : task[b].user = u
  /\ \A b \in Admins : b # a =>
       /\ task'[b].user = task[b].user /\ task'[b].step = task[b].step
       /\ task'[b].todo = task[b].todo /\ task'[b].want = task[b].want
       /\ task[b].user = u => ~task'[b].lone
       /\ task[b].user # u => task'[b] = task[b]

LEMMA Taking ==
  ASSUME AccountsTypeOK, IdleOK, NEW a \in Admins, NEW u \in Users,
         NEW step \in {"provisioning", "clearing", "approving", "deleting"},
         NEW want \in SUBSET RoleNames, NEW seen \in SUBSET Roles, Takes(a, u, step,
         want, seen)
  PROVE  Taken(a, u, step, want, seen)
<1>1. task[a] = NoTask /\ stirred' = stirred
  BY DEF Takes
<1>g. /\ granted' \in [Users -> SUBSET Roles] /\ granted'[u] = granted[u] \cup Found(want)
      /\ \A v \in Users : v # u => granted'[v] = granted[v]
  <2>1. granted' = [granted EXCEPT ![u] = granted[u] \cup Found(want)]
    BY DEF Takes
  <2> QED
    BY <2>1, AccountParts DEF Found
<1>2. task' = [b \in Admins |->
          IF b = a THEN Task(u, step, want, want, seen, InFlight(u) = {})
            ELSE IF b \in InFlight(u) THEN Overlapped(task[b]) ELSE task[b]]
  BY DEF Takes
<1>3. Task(u, step, want, want, seen, InFlight(u) = {}) \in TaskType
  BY DEF Task, TaskType
<1>4. \A b \in Admins : Overlapped(task[b]) \in TaskType
  BY AccountParts DEF Overlapped, Task, TaskType
<1>5. task' \in [Admins -> TaskType]
  BY <1>2, <1>3, <1>4, AccountParts
<1>6. /\ task'[a].user = u /\ task'[a].step = step /\ task'[a].todo = want
      /\ task'[a].want = want /\ task'[a].seen = seen
  BY <1>2 DEF Task
<1>7. /\ task'[a].lone => \A b \in Admins : task[b].user # u
      /\ ~task'[a].lone => \E b \in Admins : task[b].user = u
  <2>1. task'[a].lone = (InFlight(u) = {})
    BY <1>2 DEF Task
  <2>2. InFlight(u) = {} <=> \A b \in Admins : task[b].user # u
    BY DEF InFlight
  <2> QED
    BY <2>1, <2>2
<1>8. ASSUME NEW b \in Admins, b # a
      PROVE  /\ task'[b].user = task[b].user /\ task'[b].step = task[b].step
             /\ task'[b].todo = task[b].todo /\ task'[b].want = task[b].want
             /\ task[b].user = u => ~task'[b].lone
             /\ task[b].user # u => task'[b] = task[b]
  <2>1. CASE task[b].user = u
    <3>1. task'[b] = Overlapped(task[b])
      BY <1>2, <1>8, <2>1 DEF InFlight
    <3> QED
      BY <2>1, <3>1 DEF Overlapped, Task
  <2>2. CASE task[b].user # u
    BY <1>2, <1>8, <2>2 DEF InFlight
  <2> QED
    BY <2>1, <2>2
<1> QED
  BY <1>1, <1>g, <1>5, <1>6, <1>7, <1>8 DEF Taken

(* A step leaves alone the users that are not its own.                     *)
LEMMA OtherUser ==
  ASSUME NEW u, UserOK(u), roles'[u] = roles[u], asked'[u] = asked[u],
         granted'[u] = granted[u],
         u \in known' <=> u \in known, u \in stirred' <=> u \in stirred,
         \A b \in Admins : task'[b].user = u \/ task[b].user = u => task'[b] = task[b]
  PROVE  UserOK(u)'
<1>1. \A b \in Admins : task'[b].user = u <=> task[b].user = u
  OBVIOUS
<1>2. ASSUME NEW a \in Admins, task[a].user = u, Lone(a)
      PROVE  Lone(a)'
  BY <1>1, <1>2 DEF Lone
<1> QED
  BY <1>1, <1>2 DEF UserOK
(* What a step has to show: its own task, its own user.                    *)
LEMMA OwnUser ==
  ASSUME AccountInv, NEW a \in Admins, NEW u \in Users,
         task' \in [Admins -> TaskType],
         task'[a].step = "idle" => task'[a] = NoTask,
         task'[a].user = u \/ task'[a] = NoTask,
         task[a].user \in {u, NoUser},
         \A b \in Admins : b # a =>
            /\ task'[b].user = task[b].user /\ task'[b].step = task[b].step
            /\ task[b].user # u => task'[b] = task[b],
         \A v \in Users : v # u =>
            /\ roles'[v] = roles[v] /\ asked'[v] = asked[v] /\ granted'[v] = granted[v]
            /\ (v \in known' <=> v \in known) /\ (v \in stirred' <=> v \in stirred),
         UserOK(u)'
  PROVE  IdleOK' /\ \A v \in Users : UserOK(v)'
<1>0. NoUser \notin Users
  BY AccountsAssumption
<1>1. IdleOK'
  <2> SUFFICES ASSUME NEW b \in Admins
               PROVE  /\ task'[b].step = "idle" => task'[b] = NoTask
                      /\ task'[b].user = NoUser => task'[b].step = "idle"
    BY DEF IdleOK, NoTask
  <2>1. CASE b = a
    BY <1>0, <2>1, NoTaskFields
  <2>2. CASE b # a
    <3>1. task'[b].step = "idle" => task[b] = NoTask
      BY <2>2 DEF AccountInv, IdleOK
    <3>2. task[b] = NoTask => task'[b] = NoTask
      BY <1>0, <2>2, NoTaskFields
    <3>3. task'[b].user = NoUser => task'[b].step = "idle"
      BY <2>2 DEF AccountInv, IdleOK
    <3> QED
      BY <3>1, <3>2, <3>3
  <2> QED
    BY <2>1, <2>2
<1>2. ASSUME NEW v \in Users, v # u
      PROVE  UserOK(v)'
  <2>1. UserOK(v)
    BY DEF AccountInv
  <2>2. \A b \in Admins : task'[b].user = v \/ task[b].user = v => task'[b] = task[b]
    BY <1>0, <1>2, NoTaskFields
  <2> QED
    BY <1>2, <2>1, <2>2, OtherUser
<1> QED
  BY <1>1, <1>2

LEMMA TypeParts ==
  ASSUME task' \in [Admins -> TaskType], roles' \in [Users -> SUBSET Roles],
         asked' \in [Users -> SUBSET SUBSET Roles], granted' \in [Users -> SUBSET Roles],
         known' \subseteq Users, active' \subseteq known', hired' \subseteq known',
         \A v \in Users \ known' : roles'[v] = {},
         orgActive' \in BOOLEAN, accountFaults' \in 0..MaxAccountFaults, stirred' \subseteq Users
  PROVE  AccountsTypeOK'
BY DEF AccountsTypeOK, TaskType

LEMMA TypeFacts ==
  ASSUME AccountsTypeOK
  PROVE  /\ task \in [Admins -> TaskType] /\ roles \in [Users -> SUBSET Roles]
         /\ asked \in [Users -> SUBSET SUBSET Roles]
         /\ granted \in [Users -> SUBSET Roles]
         /\ known \subseteq Users /\ active \subseteq known /\ hired \subseteq known
         /\ \A v \in Users \ known : roles[v] = {}
         /\ orgActive \in BOOLEAN /\ accountFaults \in 0..MaxAccountFaults
         /\ stirred \subseteq Users
BY DEF AccountsTypeOK, TaskType

(* A request begins; only its row has been written.                        *)
LEMMA TakesStep ==
  ASSUME AccountInv, NEW a \in Admins, NEW u \in Users,
         NEW step \in {"provisioning", "clearing", "approving", "deleting"},
         NEW want \in SUBSET RoleNames, NEW seen \in SUBSET Roles, Takes(a, u, step,
         want, seen),
         roles' = roles, asked' = asked, known \subseteq known', known' \subseteq known \cup {u},
         step = "provisioning" => roles[u] = {},
         step = "approving" => /\ u \in known /\ seen = roles[u]
                               /\ \A b \in Admins : task[b].user = u => task[b].step # "approving"
  PROVE  IdleOK' /\ \A v \in Users : UserOK(v)'
<1>0. /\ AccountsTypeOK /\ IdleOK /\ NoUser \notin Users /\ UserOK(u)
      /\ \A b \in Admins : b # a /\ task[b].user = u => u # NoUser
  BY AccountsAssumption DEF AccountInv
<1>1. /\ task' \in [Admins -> TaskType] /\ task[a] = NoTask /\ stirred' = stirred
      /\ granted'[u] = granted[u] \cup Found(want)
      /\ \A v \in Users : v # u => granted'[v] = granted[v]
      /\ task'[a].user = u /\ task'[a].step = step /\ task'[a].todo = want
      /\ task'[a].want = want /\ task'[a].seen = seen
      /\ task'[a].lone => \A b \in Admins : task[b].user # u
      /\ ~task'[a].lone => \E b \in Admins : task[b].user = u
      /\ \A b \in Admins : b # a =>
           /\ task'[b].user = task[b].user /\ task'[b].step = task[b].step
           /\ task'[b].todo = task[b].todo /\ task'[b].want = task[b].want
           /\ task[b].user = u => ~task'[b].lone
           /\ task[b].user # u => task'[b] = task[b]
  <2>1. Taken(a, u, step, want, seen)
    BY <1>0, Taking
  <2> QED
    BY <2>1 DEF Taken
<1>2. \A b \in Admins : task'[b].user = u <=> b = a \/ task[b].user = u
  BY <1>1
<1>3. task[a].user # u
  BY <1>0, <1>1, NoTaskFields
<1>4. ASSUME task'[a].lone
      PROVE  Lone(a)'
  <2>1. \A b \in Admins : task'[b].user = u => b = a
    BY <1>1, <1>2, <1>4
  <2>2. step = "approving" => u \in stirred \/ roles[u] \in asked[u]
    BY <1>0, <1>1, <1>4 DEF UserOK
  <2> QED
    BY <1>1, <2>1, <2>2 DEF Lone
<1>5. ASSUME NEW b \in Admins, task'[b].user = u, task'[b].lone
      PROVE  Lone(b)'
  BY <1>1, <1>2, <1>4, <1>5
<1>6. ASSUME NEW b \in Admins, task'[b].user = u, task'[b].step = "approving"
      PROVE  /\ u \in known'
             /\ \A c \in Admins : task'[c].user = u /\ task'[c].step = "approving" => c = b
             /\ ~task'[b].lone =>
                  u \in stirred' \/ \E c \in Admins : c # b /\ task'[c].user = u
  <2>1. CASE b = a
    <3>1. step = "approving"
      BY <1>1, <1>6, <2>1
    <3>2. \A c \in Admins : task'[c].user = u /\ task'[c].step = "approving" => c = a
      BY <1>1, <1>2, <3>1
    <3>3. ~task'[a].lone => \E c \in Admins : c # a /\ task'[c].user = u
      BY <1>1, <1>2, <1>3
    <3> QED
      BY <2>1, <3>1, <3>2, <3>3
  <2>2. CASE b # a
    <3>1. task[b].user = u /\ task[b].step = "approving" /\ step # "approving"
      BY <1>1, <1>6, <2>2
    <3>2. u \in known /\ \A c \in Admins : task[c].user = u /\ task[c].step = "approving" => c = b
      BY <1>0, <3>1 DEF UserOK
    <3>3. \A c \in Admins : task'[c].user = u /\ task'[c].step = "approving" => c = b
      BY <1>1, <3>1, <3>2
    <3> QED
      BY <1>1, <2>2, <3>2, <3>3
  <2> QED
    BY <2>1, <2>2
<1>g. roles'[u] \subseteq granted'[u]
  BY <1>0, <1>1 DEF UserOK
<1>h. ASSUME NEW b \in Admins, task'[b].user = u
      PROVE  Found(task'[b].todo) \subseteq granted'[u] /\ Found(task'[b].want) \subseteq granted'[u]
  <2>1. CASE b = a
    BY <1>1, <2>1
  <2>2. CASE b # a
    <3>1. /\ Found(task[b].todo) \subseteq granted[u] /\ Found(task[b].want) \subseteq granted[u]
          /\ task'[b].todo = task[b].todo /\ task'[b].want = task[b].want
      BY <1>0, <1>1, <1>2, <1>h, <2>2 DEF UserOK
    <3> QED
      BY <1>1, <3>1
  <2> QED
    BY <2>1, <2>2
<1>7. UserOK(u)'
  BY <1>1, <1>5, <1>6, <1>g, <1>h DEF UserOK
<1>8. \A v \in Users : v # u =>
        /\ roles'[v] = roles[v] /\ asked'[v] = asked[v] /\ granted'[v] = granted[v]
        /\ (v \in known' <=> v \in known) /\ (v \in stirred' <=> v \in stirred)
  BY <1>1
<1>9. /\ task[a].user \in {u, NoUser} /\ (task'[a].step = "idle" => task'[a] = NoTask)
      /\ \A b \in Admins : b # a =>
            /\ task'[b].user = task[b].user /\ task'[b].step = task[b].step
            /\ task[b].user # u => task'[b] = task[b]
  BY <1>1, NoTaskFields
<1> QED
  BY <1>1, <1>7, <1>8, <1>9, OwnUser

(* A request goes on.                                                      *)
LEMMA GoesOnStep ==
  ASSUME AccountInv, NEW a \in Admins, NEW step \in {"writing", "stripped"},
         NEW todo \in SUBSET RoleNames, GoesOn(a, step, todo), task[a].step # "idle",
         asked' = asked, granted' = granted, known' = known, stirred' = stirred,
         todo \subseteq task[a].todo,
         roles' \in [Users -> SUBSET Roles],
         roles'[task[a].user] \subseteq granted[task[a].user],
         \A v \in Users : v # task[a].user => roles'[v] = roles[v],
         step = "writing" /\ task[a].lone =>
           /\ todo \subseteq task[a].want
           /\ roles'[task[a].user] = Found(task[a].want \ todo)
  PROVE  IdleOK' /\ \A v \in Users : UserOK(v)'
<1>0. AccountsTypeOK /\ IdleOK
  BY DEF AccountInv
<1>u. PICK u \in Users : u = task[a].user /\ UserOK(u)
  BY <1>0, AccountParts DEF AccountInv, IdleOK
<1>1. /\ task' \in [Admins -> TaskType]
      /\ task'[a].user = u /\ task'[a].step = step /\ task'[a].todo = todo
      /\ task'[a].want = task[a].want /\ task'[a].seen = task[a].seen
      /\ task'[a].lone = task[a].lone
      /\ \A b \in Admins : b # a => task'[b] = task[b]
  BY <1>0, <1>u, OnGoing
<1>2. \A b \in Admins : task'[b].user = u <=> task[b].user = u
  BY <1>1, <1>u
<1>3. ASSUME NEW b \in Admins, task'[b].user = u, task'[b].lone
      PROVE  Lone(b)'
  <2>1. Lone(b) /\ b = a
    BY <1>1, <1>3, <1>u DEF UserOK, Lone
  <2>2. \A c \in Admins : task'[c].user = u => c = a
    BY <1>2, <1>u, <2>1 DEF Lone
  <2>3. step = "writing" => todo \subseteq task'[a].want /\ roles'[u] = Found(task'[a].want \ todo)
    BY <1>1, <1>3, <1>u, <2>1
  <2> QED
    BY <1>1, <2>1, <2>2, <2>3 DEF Lone
<1>4. ASSUME NEW b \in Admins, task'[b].user = u, task'[b].step = "approving"
      PROVE  /\ u \in known'
             /\ \A c \in Admins : task'[c].user = u /\ task'[c].step = "approving" => c = b
             /\ ~task'[b].lone =>
                  u \in stirred' \/ \E c \in Admins : c # b /\ task'[c].user = u
  BY <1>1, <1>2, <1>4, <1>u DEF UserOK
<1>g. ASSUME NEW b \in Admins, task'[b].user = u
      PROVE  Found(task'[b].todo) \subseteq granted'[u] /\ Found(task'[b].want) \subseteq granted'[u]
  <2>1. Found(task[b].todo) \subseteq granted[u] /\ Found(task[b].want) \subseteq granted[u]
    BY <1>2, <1>g, <1>u DEF UserOK
  <2>2. Found(todo) \subseteq Found(task[a].todo)
    BY DEF Found
  <2> QED
    BY <1>1, <2>1, <2>2
<1>5. UserOK(u)'
  BY <1>1, <1>3, <1>4, <1>g, <1>u DEF UserOK
<1>6. task'[a].step # "idle" /\ task[a].user \in {u, NoUser}
  BY <1>1, <1>u
<1>7. \A v \in Users : v # u =>
        /\ roles'[v] = roles[v] /\ asked'[v] = asked[v] /\ granted'[v] = granted[v]
        /\ (v \in known' <=> v \in known) /\ (v \in stirred' <=> v \in stirred)
  BY <1>u
<1> QED
  BY <1>u, <1>1, <1>5, <1>6, <1>7, OwnUser

(* A request ends, and what it leaves is stirred or as it was asked.       *)
LEMMA EndsStep ==
  ASSUME AccountInv, NEW a \in Admins, Ends(a), task[a].step # "idle",
         roles' \in [Users -> SUBSET Roles],
         \A v \in Users : v # task[a].user =>
            /\ roles'[v] = roles[v] /\ asked'[v] = asked[v] /\ granted'[v] = granted[v]
            /\ (v \in known' <=> v \in known) /\ (v \in stirred' <=> v \in stirred),
         task[a].lone => task[a].user \in stirred' \cup (Users \ known')
                            \/ roles'[task[a].user] \in asked'[task[a].user],
         roles'[task[a].user] \subseteq granted'[task[a].user],
         ~task[a].lone => granted[task[a].user] \subseteq granted'[task[a].user],
         ~task[a].lone => task[a].user \in stirred' \/ (task[a].step = "approving" /\ stirred' = stirred),
         \A b \in Admins : task[b].user = task[a].user /\ task[b].step = "approving" =>
            task[a].user \in known'
  PROVE  IdleOK' /\ \A v \in Users : UserOK(v)'
<1>0. AccountsTypeOK /\ IdleOK /\ NoUser \notin Users
  BY AccountsAssumption DEF AccountInv
<1>u. PICK u \in Users : u = task[a].user /\ UserOK(u)
  BY <1>0, AccountParts DEF AccountInv, IdleOK
<1>1. /\ task' \in [Admins -> TaskType] /\ task'[a] = NoTask
      /\ \A b \in Admins : b # a => task'[b] = task[b]
  BY <1>0, Ending
<1>2. \A b \in Admins : task'[b].user = u => b # a /\ task[b].user = u /\ task'[b] = task[b]
  BY <1>0, <1>1, <1>u, NoTaskFields
<1>3. ASSUME NEW b \in Admins, task'[b].user = u, task'[b].lone
      PROVE  FALSE
  <2>1. b # a /\ task[b].user = u /\ task[b].lone
    BY <1>2, <1>3
  <2>2. Lone(b)
    BY <1>u, <2>1 DEF UserOK
  <2> QED
    BY <1>u, <2>1, <2>2 DEF Lone
<1>4. ASSUME NEW b \in Admins, task'[b].user = u, task'[b].step = "approving"
      PROVE  /\ u \in known'
             /\ \A c \in Admins : task'[c].user = u /\ task'[c].step = "approving" => c = b
             /\ ~task'[b].lone =>
                  u \in stirred' \/ \E c \in Admins : c # b /\ task'[c].user = u
  <2>1. b # a /\ task[b].user = u /\ task[b].step = "approving"
    BY <1>2, <1>4
  <2>2. \A c \in Admins : task[c].user = u /\ task[c].step = "approving" => c = b
    BY <1>u, <2>1 DEF UserOK
  <2>3. ~task[a].lone
    <3>1. task[a].lone => Lone(a)
      BY <1>u DEF UserOK
    <3> QED
      BY <1>u, <2>1, <3>1 DEF Lone
  <2>4. u \in stirred' /\ u \in known'
    BY <1>u, <2>1, <2>2, <2>3
  <2> QED
    BY <1>2, <2>1, <2>2, <2>4
<1>5. ASSUME u \in known', u \notin stirred', \A b \in Admins : task'[b].user # u
      PROVE  roles'[u] \in asked'[u]
  <2>1. \A b \in Admins : b # a => task[b].user # u
    BY <1>1, <1>5
  <2>2. CASE task[a].lone
    BY <1>u, <1>5, <2>2
  <2>3. CASE ~task[a].lone
    <3>1. task[a].step = "approving" /\ stirred' = stirred
      BY <1>u, <1>5, <2>3
    <3>2. u \in stirred
      BY <1>u, <2>1, <2>3, <3>1 DEF UserOK
    <3> QED
      BY <1>5, <3>1, <3>2
  <2> QED
    BY <2>2, <2>3
<1>g. ASSUME NEW b \in Admins, task'[b].user = u
      PROVE  Found(task'[b].todo) \subseteq granted'[u] /\ Found(task'[b].want) \subseteq granted'[u]
  <2>1. b # a /\ task[b].user = u /\ task'[b] = task[b]
    BY <1>2, <1>g
  <2>2. ~task[a].lone
    <3>1. task[a].lone => Lone(a)
      BY <1>u DEF UserOK
    <3> QED
      BY <1>u, <2>1, <3>1 DEF Lone
  <2>3. Found(task[b].todo) \subseteq granted[u] /\ Found(task[b].want) \subseteq granted[u]
    BY <1>u, <2>1 DEF UserOK
  <2> QED
    BY <1>u, <2>1, <2>2, <2>3
<1>6. UserOK(u)'
  BY <1>3, <1>4, <1>5, <1>g, <1>u DEF UserOK
<1>7. /\ task[a].user \in {u, NoUser} /\ (task'[a].step = "idle" => task'[a] = NoTask)
      /\ \A b \in Admins : b # a =>
            /\ task'[b].user = task[b].user /\ task'[b].step = task[b].step
            /\ task[b].user # u => task'[b] = task[b]
  BY <1>1, <1>u
<1>8. \A v \in Users : v # u =>
        /\ roles'[v] = roles[v] /\ asked'[v] = asked[v] /\ granted'[v] = granted[v]
        /\ (v \in known' <=> v \in known) /\ (v \in stirred' <=> v \in stirred)
  BY <1>u
<1> QED
  BY <1>u, <1>1, <1>6, <1>7, <1>8, OwnUser

(* A request completes: what it may leave is on record, and what it gives. *)
Completed(a, u, outcomes) ==
  /\ Ends(a) /\ task' \in [Admins -> TaskType]
  /\ asked' \in [Users -> SUBSET SUBSET Roles] /\ asked'[u] = outcomes
  /\ granted' \in [Users -> SUBSET Roles] /\ \A set \in outcomes : set \subseteq granted'[u]
  /\ ~task[a].lone => granted[u] \subseteq granted'[u]
  /\ \A v \in Users : v # u => asked'[v] = asked[v] /\ granted'[v] = granted[v]
  /\ task[a].lone => stirred' = stirred \ {u}
  /\ ~task[a].lone => stirred' = stirred \cup {u}
  /\ stirred' \subseteq Users

LEMMA Completing ==
  ASSUME AccountsTypeOK, NEW a \in Admins, NEW u \in Users, u = task[a].user,
         NEW outcomes \in SUBSET SUBSET Roles, Completes(a, outcomes)
  PROVE  Completed(a, u, outcomes)
<1>1. /\ Ends(a) /\ asked' = [asked EXCEPT ![u] = outcomes]
      /\ task[a].lone => /\ stirred' = stirred \ {u}
                         /\ granted' = [granted EXCEPT ![u] = UNION outcomes]
      /\ ~task[a].lone => /\ stirred' = stirred \cup {u}
                          /\ granted' = [granted EXCEPT ![u] = granted[u] \cup UNION outcomes]
  BY DEF Completes
<1>2. PICK given \in SUBSET Roles : given = UNION outcomes
  OBVIOUS
<1>3. \A set \in outcomes : set \subseteq given
  BY <1>2
<1>4. granted \in [Users -> SUBSET Roles] /\ asked \in [Users -> SUBSET SUBSET Roles]
      /\ stirred \subseteq Users
  BY TypeFacts
<1>5. /\ asked' \in [Users -> SUBSET SUBSET Roles] /\ asked'[u] = outcomes
      /\ \A v \in Users : v # u => asked'[v] = asked[v]
  BY <1>1, <1>4
<1>6. /\ granted' \in [Users -> SUBSET Roles] /\ given \subseteq granted'[u]
      /\ ~task[a].lone => granted[u] \subseteq granted'[u]
      /\ \A v \in Users : v # u => granted'[v] = granted[v]
  <2>1. CASE task[a].lone
    BY <1>1, <1>2, <1>4, <2>1
  <2>2. CASE ~task[a].lone
    BY <1>1, <1>2, <1>4, <2>2
  <2> QED
    BY <2>1, <2>2
<1>7. task' \in [Admins -> TaskType]
  BY <1>1, Ending
<1> QED
  BY <1>1, <1>3, <1>4, <1>5, <1>6, <1>7 DEF Completed

(* What a user has, or a request in flight means to give, has been granted.*)
LEMMA Held ==
  ASSUME NEW u, UserOK(u), NEW a \in Admins, task[a].user = u
  PROVE  /\ roles[u] \subseteq granted[u]
         /\ Found(task[a].todo) \subseteq granted[u]
         /\ Found(task[a].want) \subseteq granted[u]
BY DEF UserOK

(* The steps of a request, one by one.                                     *)
LEMMA AccountCreates ==
  ASSUME AccountInv, NEW a \in Admins, NEW u \in Users, NEW name \in RoleNames,
         CreateUser(a, u, name)
  PROVE  AccountInv'
<1>0. /\ AccountsTypeOK /\ IdleOK
      /\ known \subseteq Users /\ active \subseteq known /\ hired \subseteq known
      /\ roles \in [Users -> SUBSET Roles] /\ asked \in [Users -> SUBSET SUBSET Roles]
      /\ granted \in [Users -> SUBSET Roles]
      /\ \A v \in Users \ known : roles[v] = {}
      /\ orgActive \in BOOLEAN /\ accountFaults \in 0..MaxAccountFaults
      /\ stirred \subseteq Users
  BY TypeFacts DEF AccountInv
<1>1. Takes(a, u, "provisioning", {name}, {})
  BY DEF CreateUser
<1>2. /\ u \notin known /\ known' = known \cup {u} /\ active' = active \cup {u}
      /\ hired' = hired /\ roles' = roles /\ asked' = asked
      /\ orgActive' = orgActive /\ accountFaults' = accountFaults
  BY DEF CreateUser
<1>3. {name} \in SUBSET RoleNames /\ {} \in SUBSET Roles /\ roles[u] = {}
  BY <1>0, <1>2
<1>4. Taken(a, u, "provisioning", {name}, {})
  BY <1>0, <1>1, <1>3, Taking
<1>5. task' \in [Admins -> TaskType] /\ stirred' = stirred
      /\ granted' \in [Users -> SUBSET Roles]
  BY <1>4 DEF Taken
<1>6. AccountsTypeOK'
  BY <1>0, <1>2, <1>5, TypeParts
<1>7. IdleOK' /\ \A v \in Users : UserOK(v)'
  BY <1>1, <1>2, <1>3, TakesStep
<1> QED
  BY <1>6, <1>7 DEF AccountInv

LEMMA AccountUpdates ==
  ASSUME AccountInv, NEW a \in Admins, NEW u \in Users, NEW want \in SUBSET RoleNames,
         NEW on \in BOOLEAN,
         UpdateUser(a, u, on, want)
  PROVE  AccountInv'
<1>0. /\ AccountsTypeOK /\ IdleOK
      /\ known \subseteq Users /\ active \subseteq known /\ hired \subseteq known
      /\ roles \in [Users -> SUBSET Roles] /\ asked \in [Users -> SUBSET SUBSET Roles]
      /\ granted \in [Users -> SUBSET Roles]
      /\ \A v \in Users \ known : roles[v] = {}
      /\ orgActive \in BOOLEAN /\ accountFaults \in 0..MaxAccountFaults
      /\ stirred \subseteq Users
  BY TypeFacts DEF AccountInv
<1>1. Takes(a, u, "clearing", want, {})
  BY DEF UpdateUser
<1>2. /\ u \in known /\ known' = known /\ active' \subseteq active \cup {u}
      /\ hired' = hired /\ roles' = roles /\ asked' = asked
      /\ orgActive' = orgActive /\ accountFaults' = accountFaults
  BY DEF UpdateUser
<1>3. {} \in SUBSET Roles /\ {} \in SUBSET RoleNames
  OBVIOUS
<1>4. Taken(a, u, "clearing", want, {})
  BY <1>0, <1>1, <1>3, Taking
<1>5. task' \in [Admins -> TaskType] /\ stirred' = stirred
      /\ granted' \in [Users -> SUBSET Roles]
  BY <1>4 DEF Taken
<1>6. AccountsTypeOK'
  BY <1>0, <1>2, <1>5, TypeParts
<1>7. IdleOK' /\ \A v \in Users : UserOK(v)'
  BY <1>1, <1>2, <1>3, TakesStep
<1> QED
  BY <1>6, <1>7 DEF AccountInv

LEMMA AccountApproves ==
  ASSUME AccountInv, NEW a \in Admins, NEW u \in Users, NEW want \in SUBSET RoleNames,
         BeginApproval(a, u, want)
  PROVE  AccountInv'
<1>0. /\ AccountsTypeOK /\ IdleOK
      /\ known \subseteq Users /\ active \subseteq known /\ hired \subseteq known
      /\ roles \in [Users -> SUBSET Roles] /\ asked \in [Users -> SUBSET SUBSET Roles]
      /\ granted \in [Users -> SUBSET Roles]
      /\ \A v \in Users \ known : roles[v] = {}
      /\ orgActive \in BOOLEAN /\ accountFaults \in 0..MaxAccountFaults
      /\ stirred \subseteq Users
  BY TypeFacts DEF AccountInv
<1>1. Takes(a, u, "approving", want, roles[u])
  BY DEF BeginApproval
<1>2. /\ u \in known /\ known' = known /\ active' = active
      /\ hired' = hired /\ roles' = roles /\ asked' = asked
      /\ orgActive' = orgActive /\ accountFaults' = accountFaults
  BY DEF BeginApproval
<1>3. PICK seen \in SUBSET Roles : seen = roles[u]
  BY <1>0
<1>4. Takes(a, u, "approving", want, seen)
  BY <1>1, <1>3
<1>5. Taken(a, u, "approving", want, seen)
  BY <1>0, <1>4, Taking
<1>6. task' \in [Admins -> TaskType] /\ stirred' = stirred
      /\ granted' \in [Users -> SUBSET Roles]
  BY <1>5 DEF Taken
<1>7. AccountsTypeOK'
  BY <1>0, <1>2, <1>6, TypeParts
<1>8. \A b \in Admins : task[b].user = u => task[b].step # "approving"
  BY DEF BeginApproval, Unlocked, InFlight, Does
<1>9. IdleOK' /\ \A v \in Users : UserOK(v)'
  BY <1>2, <1>3, <1>4, <1>8, TakesStep
<1> QED
  BY <1>7, <1>9 DEF AccountInv

LEMMA AccountStrips ==
  ASSUME AccountInv, NEW a \in Admins, NEW u \in Users, BeginDeletion(a, u)
  PROVE  AccountInv'
<1>0. /\ AccountsTypeOK /\ IdleOK
      /\ known \subseteq Users /\ active \subseteq known /\ hired \subseteq known
      /\ roles \in [Users -> SUBSET Roles] /\ asked \in [Users -> SUBSET SUBSET Roles]
      /\ granted \in [Users -> SUBSET Roles]
      /\ \A v \in Users \ known : roles[v] = {}
      /\ orgActive \in BOOLEAN /\ accountFaults \in 0..MaxAccountFaults
      /\ stirred \subseteq Users
  BY TypeFacts DEF AccountInv
<1>1. Takes(a, u, "deleting", {}, {})
  BY DEF BeginDeletion
<1>2. /\ u \in known /\ known' = known /\ active' = active
      /\ hired' = hired /\ roles' = roles /\ asked' = asked
      /\ orgActive' = orgActive /\ accountFaults' = accountFaults
  BY DEF BeginDeletion
<1>3. {} \in SUBSET Roles /\ {} \in SUBSET RoleNames
  OBVIOUS
<1>4. Taken(a, u, "deleting", {}, {})
  BY <1>0, <1>1, <1>3, Taking
<1>5. task' \in [Admins -> TaskType] /\ stirred' = stirred
      /\ granted' \in [Users -> SUBSET Roles]
  BY <1>4 DEF Taken
<1>6. AccountsTypeOK'
  BY <1>0, <1>2, <1>5, TypeParts
<1>7. IdleOK' /\ \A v \in Users : UserOK(v)'
  BY <1>1, <1>2, <1>3, TakesStep
<1> QED
  BY <1>6, <1>7 DEF AccountInv

LEMMA AccountGoesOn ==
  ASSUME AccountInv, NEW a \in Admins, ClearRoles(a) \/ DeleteRoles(a)
  PROVE  AccountInv'
<1>0. /\ AccountsTypeOK /\ IdleOK
      /\ known \subseteq Users /\ active \subseteq known /\ hired \subseteq known
      /\ roles \in [Users -> SUBSET Roles] /\ asked \in [Users -> SUBSET SUBSET Roles]
      /\ granted \in [Users -> SUBSET Roles]
      /\ \A v \in Users \ known : roles[v] = {}
      /\ orgActive \in BOOLEAN /\ accountFaults \in 0..MaxAccountFaults
      /\ stirred \subseteq Users
  BY TypeFacts DEF AccountInv
<1>a. task[a].step # "idle"
  BY DEF ClearRoles, DeleteRoles, Does
<1>u. PICK u \in Users : u = task[a].user /\ UserOK(u)
  BY <1>0, <1>a, AccountParts DEF AccountInv, IdleOK
<1>1. CASE ClearRoles(a)
  <2>t. PICK todo \in SUBSET RoleNames : todo = task[a].todo
    BY <1>0, AccountParts
  <2>1. GoesOn(a, "writing", todo)
    BY <1>1, <2>t DEF ClearRoles
  <2>2. /\ roles' = [roles EXCEPT ![u] = {}] /\ task[a].step = "clearing"
        /\ known' = known /\ active' = active /\ stirred' = stirred
        /\ hired' = hired /\ asked' = asked /\ granted' = granted
        /\ orgActive' = orgActive /\ accountFaults' = accountFaults
    BY <1>1, <1>u DEF ClearRoles, Cleared, Does
  <2>3. task' \in [Admins -> TaskType]
    BY <1>0, <2>1, OnGoing
  <2>4. roles' \in [Users -> SUBSET Roles] /\ roles'[u] = {}
        /\ roles'[u] = {} /\ \A v \in Users : v # u => roles'[v] = roles[v]
    BY <1>0, <2>2
  <2>5. AccountsTypeOK'
    BY <1>0, <2>2, <2>3, <2>4, TypeParts
  <2>6. task[a].lone => todo = task[a].want
    BY <1>u, <2>2, <2>t DEF UserOK, Lone
  <2>7. task[a].lone => todo \subseteq task[a].want /\ roles'[u] = Found(task[a].want \ todo)
    BY <2>4, <2>6 DEF Found
  <2>8. /\ \A v \in Users : v # task[a].user => roles'[v] = roles[v]
        /\ roles'[task[a].user] \subseteq granted[task[a].user]
    BY <1>u, <2>4
  <2>9. task[a].lone => todo \subseteq task[a].want /\ roles'[task[a].user] = Found(task[a].want \ todo)
    BY <1>u, <2>7
  <2>10. IdleOK' /\ \A v \in Users : UserOK(v)'
    BY <1>a, <2>1, <2>2, <2>4, <2>8, <2>9, <2>t, GoesOnStep
  <2> QED
    BY <2>5, <2>10 DEF AccountInv
<1>2. CASE DeleteRoles(a)
  <2>1. GoesOn(a, "stripped", {})
    BY <1>2 DEF DeleteRoles
  <2>2. /\ roles' = [roles EXCEPT ![u] = {}]
        /\ known' = known /\ active' = active /\ stirred' = stirred
        /\ hired' = hired /\ asked' = asked /\ granted' = granted
        /\ orgActive' = orgActive /\ accountFaults' = accountFaults
    BY <1>2, <1>u DEF DeleteRoles
  <2>e. {} \in SUBSET RoleNames
    OBVIOUS
  <2>3. task' \in [Admins -> TaskType]
    BY <1>0, <2>1, <2>e, OnGoing
  <2>4. roles' \in [Users -> SUBSET Roles]
        /\ roles'[u] = {} /\ \A v \in Users : v # u => roles'[v] = roles[v]
    BY <1>0, <2>2
  <2>5. \A v \in Users \ known' : roles'[v] = {}
    BY <1>0, <2>2
  <2>6. AccountsTypeOK'
    BY <1>0, <2>2, <2>3, <2>4, <2>5, TypeParts
  <2>7. /\ \A v \in Users : v # task[a].user => roles'[v] = roles[v]
        /\ roles'[task[a].user] \subseteq granted[task[a].user]
    BY <1>u, <2>4
  <2>8. IdleOK' /\ \A v \in Users : UserOK(v)'
    BY <1>a, <2>1, <2>2, <2>4, <2>7, <2>e, GoesOnStep
  <2> QED
    BY <2>6, <2>8 DEF AccountInv
<1> QED
  BY <1>1, <1>2

LEMMA AccountWrites ==
  ASSUME AccountInv, NEW a \in Admins, NEW name \in RoleNames, WriteRole(a, name)
  PROVE  AccountInv'
<1>a. task[a].step # "idle" /\ task[a].step = "writing" /\ name \in task[a].todo
  BY DEF WriteRole, Does
<1>0. /\ AccountsTypeOK /\ IdleOK
      /\ known \subseteq Users /\ active \subseteq known /\ hired \subseteq known
      /\ roles \in [Users -> SUBSET Roles] /\ asked \in [Users -> SUBSET SUBSET Roles]
      /\ granted \in [Users -> SUBSET Roles]
      /\ \A v \in Users \ known : roles[v] = {}
      /\ orgActive \in BOOLEAN /\ accountFaults \in 0..MaxAccountFaults
      /\ stirred \subseteq Users
  BY TypeFacts DEF AccountInv
<1>u. PICK u \in Users : u = task[a].user /\ UserOK(u)
  BY <1>0, <1>a, AccountParts DEF AccountInv, IdleOK
<1>l. task[a].lone => Lone(a)
  BY <1>u DEF UserOK
<1>1. /\ known' = known /\ active' = active /\ hired' = hired /\ asked' = asked /\ granted' = granted
      /\ orgActive' = orgActive /\ accountFaults' = accountFaults
  BY DEF WriteRole, Fails
<1>2. CASE name \notin Roles \/ RoleFits(u, name)
  <2>t. PICK todo \in SUBSET RoleNames : todo = task[a].todo \ {name}
    BY <1>0, AccountParts
  <2>1. GoesOn(a, "writing", todo)
    BY <1>2, <1>u, <2>t DEF WriteRole
  <2>2. roles' = [roles EXCEPT ![u] = roles[u] \cup Found({name})] /\ stirred' = stirred
    BY <1>2, <1>u DEF WriteRole
  <2>3. task' \in [Admins -> TaskType]
    BY <1>0, <2>1, OnGoing
  <2>4. roles' \in [Users -> SUBSET Roles] /\ roles'[u] = roles[u] \cup Found({name})
        /\ \A v \in Users : v # u => roles'[v] = roles[v]
    BY <1>0, <2>2 DEF Found
  <2>5. \A v \in Users \ known' : roles'[v] = {}
    BY <1>0, <1>1, <1>2, <2>4 DEF RoleFits, Found
  <2>6. AccountsTypeOK'
    BY <1>0, <1>1, <2>2, <2>3, <2>4, <2>5, TypeParts
  <2>7. task[a].lone => /\ task[a].todo \subseteq task[a].want
                        /\ roles[u] = Found(task[a].want \ task[a].todo)
    BY <1>a, <1>l, <1>u DEF Lone
  <2>8. task[a].lone => todo \subseteq task[a].want /\ roles'[u] = Found(task[a].want \ todo)
    BY <1>a, <2>4, <2>7, <2>t DEF Found
  <2>9. task[a].lone => todo \subseteq task[a].want /\ roles'[task[a].user] = Found(task[a].want \ todo)
    BY <1>u, <2>8
  <2>10. /\ \A v \in Users : v # task[a].user => roles'[v] = roles[v]
         /\ roles'[task[a].user] \subseteq granted[task[a].user]
    <3>1. Found({name}) \subseteq Found(task[a].todo)
      BY <1>a DEF Found
    <3> QED
      BY <1>u, <2>4, <3>1, Held
  <2>11. IdleOK' /\ \A v \in Users : UserOK(v)'
    BY <1>1, <1>a, <2>1, <2>2, <2>4, <2>9, <2>10, <2>t, GoesOnStep
  <2> QED
    BY <2>6, <2>11 DEF AccountInv
<1>3. CASE ~(name \notin Roles \/ RoleFits(u, name))
  <2>1. Ends(a) /\ stirred' = stirred \cup {u} /\ roles' = roles
    BY <1>3, <1>u DEF WriteRole, Fails
  <2>2. task' \in [Admins -> TaskType]
    BY <1>0, <2>1, Ending
  <2>3. AccountsTypeOK'
    BY <1>0, <1>1, <2>1, <2>2, TypeParts
  <2>4. /\ task[a].lone => task[a].user \in stirred' \cup (Users \ known')
                            \/ roles'[task[a].user] \in asked'[task[a].user]
        /\ ~task[a].lone =>
             task[a].user \in stirred' \/ (task[a].step = "approving" /\ stirred' = stirred)
        /\ roles'[task[a].user] \subseteq granted'[task[a].user]
        /\ granted[task[a].user] \subseteq granted'[task[a].user]
    BY <1>1, <1>u, <2>1, Held
  <2>5. \A b \in Admins : task[b].user = task[a].user /\ task[b].step = "approving" =>
            task[a].user \in known'
    BY <1>1, <1>u DEF UserOK
  <2>6. \A v \in Users : v # task[a].user =>
            /\ roles'[v] = roles[v] /\ asked'[v] = asked[v] /\ granted'[v] = granted[v]
            /\ (v \in known' <=> v \in known) /\ (v \in stirred' <=> v \in stirred)
    BY <1>1, <1>u, <2>1
  <2>7. IdleOK' /\ \A v \in Users : UserOK(v)'
    BY <1>0, <1>a, <2>1, <2>4, <2>5, <2>6, EndsStep
  <2> QED
    BY <2>3, <2>7 DEF AccountInv
<1> QED
  BY <1>2, <1>3

LEMMA AccountProvides ==
  ASSUME AccountInv, NEW a \in Admins, NEW name \in RoleNames, ProvisionRole(a, name)
  PROVE  AccountInv'
<1>a. task[a].step # "idle" /\ task[a].step = "provisioning"
  BY DEF ProvisionRole, Does
<1>0. /\ AccountsTypeOK /\ IdleOK
      /\ known \subseteq Users /\ active \subseteq known /\ hired \subseteq known
      /\ roles \in [Users -> SUBSET Roles]
      /\ \A v \in Users \ known : roles[v] = {}
      /\ orgActive \in BOOLEAN /\ accountFaults \in 0..MaxAccountFaults
      /\ stirred \subseteq Users
  BY TypeFacts DEF AccountInv
<1>u. PICK u \in Users : u = task[a].user /\ UserOK(u)
  BY <1>0, <1>a, AccountParts DEF AccountInv, IdleOK
<1>l. task[a].lone => Lone(a)
  BY <1>u DEF UserOK
<1>1. /\ active' = active /\ hired' = hired /\ known' = known
      /\ orgActive' = orgActive /\ accountFaults' = accountFaults
  BY DEF ProvisionRole
<1>r. LookedUp(name) \subseteq Roles
  BY DEF LookedUp
<1>2. PICK role \in LookedUp(name) :
         IF RoleFits(u, role)
           THEN /\ roles' = [roles EXCEPT ![u] = @ \cup {role}]
                /\ Completes(a, {{other} : other \in LookedUp(name)})
           ELSE Fails(a) /\ UNCHANGED <<roles, asked, granted>>
  BY <1>u DEF ProvisionRole
<1>e. \A b \in Admins : task[b].user = task[a].user /\ task[b].step = "approving" =>
            task[a].user \in known'
  BY <1>1, <1>u DEF UserOK
<1>3. CASE RoleFits(u, role)
  <2>o. {{other} : other \in LookedUp(name)} \in SUBSET SUBSET Roles
    BY <1>r
  <2>0. PICK outcomes \in SUBSET SUBSET Roles : outcomes = {{other} : other \in LookedUp(name)}
    BY <2>o
  <2>1. roles' = [roles EXCEPT ![u] = roles[u] \cup {role}] /\ Completes(a, outcomes)
    BY <1>2, <1>3, <2>0
  <2>c. Completed(a, u, outcomes)
    BY <1>0, <1>u, <2>1, Completing
  <2>s. {role} \in outcomes
    BY <2>0
  <2>2. /\ Ends(a) /\ task' \in [Admins -> TaskType]
        /\ asked' \in [Users -> SUBSET SUBSET Roles] /\ asked'[u] = outcomes
        /\ granted' \in [Users -> SUBSET Roles] /\ \A set \in outcomes : set \subseteq granted'[u]
        /\ ~task[a].lone => granted[u] \subseteq granted'[u]
        /\ \A v \in Users : v # u => asked'[v] = asked[v] /\ granted'[v] = granted[v]
        /\ task[a].lone => stirred' = stirred \ {u}
        /\ ~task[a].lone => stirred' = stirred \cup {u}
        /\ stirred' \subseteq Users
    BY <2>c DEF Completed
  <2>3. /\ roles' \in [Users -> SUBSET Roles] /\ roles'[u] = roles[u] \cup {role}
        /\ \A v \in Users : v # u => roles'[v] = roles[v]
    BY <1>0, <1>r, <2>1
  <2>4. \A v \in Users \ known' : roles'[v] = {}
    BY <1>0, <1>1, <1>3, <2>3 DEF RoleFits
  <2>5. AccountsTypeOK'
    BY <1>0, <1>1, <2>2, <2>3, <2>4, TypeParts
  <2>6. /\ task[a].lone => task[a].user \in stirred' \cup (Users \ known')
                              \/ roles'[task[a].user] \in asked'[task[a].user]
        /\ ~task[a].lone =>
             task[a].user \in stirred' \/ (task[a].step = "approving" /\ stirred' = stirred)
        /\ roles'[task[a].user] \subseteq granted'[task[a].user]
        /\ ~task[a].lone => granted[task[a].user] \subseteq granted'[task[a].user]
    <3>1. CASE task[a].lone
      <4>1. roles'[u] = {role}
        BY <1>a, <1>l, <1>u, <2>3, <3>1 DEF Lone
      <4> QED
        BY <1>u, <2>2, <2>s, <3>1, <4>1
    <3>2. CASE ~task[a].lone
      <4>1. roles[u] \subseteq granted[u] /\ {role} \subseteq granted'[u]
        BY <1>u, <2>2, <2>s, Held
      <4> QED
        BY <1>u, <2>2, <2>3, <3>2, <4>1
    <3> QED
      BY <3>1, <3>2
  <2>7. \A v \in Users : v # task[a].user =>
              /\ roles'[v] = roles[v] /\ asked'[v] = asked[v] /\ granted'[v] = granted[v]
              /\ (v \in known' <=> v \in known) /\ (v \in stirred' <=> v \in stirred)
    BY <1>1, <1>u, <2>2, <2>3
  <2>8. IdleOK' /\ \A v \in Users : UserOK(v)'
    BY <1>a, <1>e, <2>2, <2>3, <2>6, <2>7, EndsStep
  <2> QED
    BY <2>5, <2>8 DEF AccountInv
<1>4. CASE ~RoleFits(u, role)
  <2>1. /\ Ends(a) /\ stirred' = stirred \cup {u} /\ roles' = roles /\ asked' = asked
        /\ granted' = granted
    BY <1>2, <1>4, <1>u DEF Fails
  <2>2. task' \in [Admins -> TaskType] /\ stirred' \subseteq Users /\ roles' \in [Users -> SUBSET Roles]
        /\ asked' \in [Users -> SUBSET SUBSET Roles]
        /\ granted' \in [Users -> SUBSET Roles]
    BY <1>0, <2>1, Ending, TypeFacts
  <2>3. AccountsTypeOK'
    BY <1>0, <1>1, <2>1, <2>2, TypeParts
  <2>4. /\ task[a].lone => task[a].user \in stirred' \cup (Users \ known')
                              \/ roles'[task[a].user] \in asked'[task[a].user]
        /\ ~task[a].lone =>
             task[a].user \in stirred' \/ (task[a].step = "approving" /\ stirred' = stirred)
        /\ roles'[task[a].user] \subseteq granted'[task[a].user]
        /\ granted[task[a].user] \subseteq granted'[task[a].user]
    BY <1>u, <2>1, Held
  <2>5. \A v \in Users : v # task[a].user =>
              /\ roles'[v] = roles[v] /\ asked'[v] = asked[v] /\ granted'[v] = granted[v]
              /\ (v \in known' <=> v \in known) /\ (v \in stirred' <=> v \in stirred)
    BY <1>1, <1>u, <2>1
  <2>6. IdleOK' /\ \A v \in Users : UserOK(v)'
    BY <1>a, <1>e, <2>1, <2>2, <2>4, <2>5, EndsStep
  <2> QED
    BY <2>3, <2>6 DEF AccountInv
<1> QED
  BY <1>3, <1>4

LEMMA AccountWritten ==
  ASSUME AccountInv, NEW a \in Admins, RolesWritten(a)
  PROVE  AccountInv'
<1>a. task[a].step # "idle" /\ task[a].step = "writing" /\ task[a].todo = {}
  BY DEF RolesWritten, Does
<1>0. /\ AccountsTypeOK /\ IdleOK
      /\ known \subseteq Users /\ active \subseteq known /\ hired \subseteq known
      /\ roles \in [Users -> SUBSET Roles]
      /\ \A v \in Users \ known : roles[v] = {}
      /\ orgActive \in BOOLEAN /\ accountFaults \in 0..MaxAccountFaults
      /\ stirred \subseteq Users
  BY TypeFacts DEF AccountInv
<1>u. PICK u \in Users : u = task[a].user /\ UserOK(u)
  BY <1>0, <1>a, AccountParts DEF AccountInv, IdleOK
<1>l. task[a].lone => Lone(a)
  BY <1>u DEF UserOK
<1>1. /\ known' = known /\ active' = active /\ hired' = hired /\ roles' = roles
      /\ orgActive' = orgActive /\ accountFaults' = accountFaults
      /\ Completes(a, {Found(task[a].want)})
  BY DEF RolesWritten
<1>f. {Found(task[a].want)} \in SUBSET SUBSET Roles
  BY DEF Found
<1>c. Completed(a, u, {Found(task[a].want)})
  BY <1>0, <1>1, <1>f, <1>u, Completing
<1>2. /\ Ends(a) /\ task' \in [Admins -> TaskType]
      /\ asked' \in [Users -> SUBSET SUBSET Roles] /\ asked'[u] = {Found(task[a].want)}
      /\ granted' \in [Users -> SUBSET Roles] /\ Found(task[a].want) \subseteq granted'[u]
      /\ ~task[a].lone => granted[u] \subseteq granted'[u]
      /\ \A v \in Users : v # u => asked'[v] = asked[v] /\ granted'[v] = granted[v]
      /\ task[a].lone => stirred' = stirred \ {u}
      /\ ~task[a].lone => stirred' = stirred \cup {u}
      /\ stirred' \subseteq Users
  BY <1>c DEF Completed
<1>3. AccountsTypeOK'
  BY <1>0, <1>1, <1>2, TypeParts
<1>4. task[a].lone => roles'[u] = Found(task[a].want)
  BY <1>1, <1>a, <1>l, <1>u DEF Lone, Found
<1>5. /\ task[a].lone => task[a].user \in stirred' \cup (Users \ known')
                            \/ roles'[task[a].user] \in asked'[task[a].user]
      /\ ~task[a].lone =>
           task[a].user \in stirred' \/ (task[a].step = "approving" /\ stirred' = stirred)
      /\ roles'[task[a].user] \subseteq granted'[task[a].user]
      /\ ~task[a].lone => granted[task[a].user] \subseteq granted'[task[a].user]
  <2>1. CASE task[a].lone
    BY <1>2, <1>4, <1>u, <2>1
  <2>2. CASE ~task[a].lone
    BY <1>1, <1>2, <1>u, <2>2, Held
  <2> QED
    BY <2>1, <2>2
<1>6. \A b \in Admins : task[b].user = task[a].user /\ task[b].step = "approving" =>
            task[a].user \in known'
  BY <1>1, <1>u DEF UserOK
<1>7. \A v \in Users : v # task[a].user =>
            /\ roles'[v] = roles[v] /\ asked'[v] = asked[v] /\ granted'[v] = granted[v]
            /\ (v \in known' <=> v \in known) /\ (v \in stirred' <=> v \in stirred)
  BY <1>1, <1>2, <1>u
<1>8. roles' \in [Users -> SUBSET Roles]
  BY <1>0, <1>1
<1>9. IdleOK' /\ \A v \in Users : UserOK(v)'
  BY <1>2, <1>a, <1>5, <1>6, <1>7, <1>8, EndsStep
<1> QED
  BY <1>3, <1>9 DEF AccountInv

LEMMA AccountCommits ==
  ASSUME AccountInv, NEW a \in Admins, CommitApproval(a)
  PROVE  AccountInv'
<1>a. task[a].step # "idle" /\ task[a].step = "approving"
  BY DEF CommitApproval, Does
<1>0. /\ AccountsTypeOK /\ IdleOK
      /\ known \subseteq Users /\ active \subseteq known /\ hired \subseteq known
      /\ roles \in [Users -> SUBSET Roles] /\ asked \in [Users -> SUBSET SUBSET Roles]
      /\ granted \in [Users -> SUBSET Roles]
      /\ \A v \in Users \ known : roles[v] = {}
      /\ orgActive \in BOOLEAN /\ accountFaults \in 0..MaxAccountFaults
      /\ stirred \subseteq Users
  BY TypeFacts DEF AccountInv
<1>u. PICK u \in Users : u = task[a].user /\ UserOK(u)
  BY <1>0, <1>a, AccountParts DEF AccountInv, IdleOK
<1>l. task[a].lone => Lone(a)
  BY <1>u DEF UserOK
<1>k. /\ u \in known /\ known' = known /\ hired' = hired
      /\ orgActive' = orgActive /\ accountFaults' = accountFaults /\ Ends(a)
  BY <1>a, <1>u DEF UserOK, CommitApproval, Completes
<1>t. task' \in [Admins -> TaskType]
  BY <1>0, <1>k, Ending
<1>w. PICK want \in SUBSET Roles, seen \in SUBSET Roles :
        want = Found(task[a].want) /\ seen = task[a].seen
  BY <1>0, AccountParts DEF Found
<1>n. task[a].lone => roles[u] \ seen = {}
  BY <1>a, <1>l, <1>u, <1>w DEF Lone
<1>e. \A b \in Admins : task[b].user = task[a].user /\ task[b].step = "approving" =>
            task[a].user \in known'
  BY <1>k, <1>u
<1>1. CASE want \cap (roles[u] \ seen) = {}
  <2>1. /\ active' = active \cup {u}
        /\ roles' = [roles EXCEPT ![u] = (roles[u] \ seen) \cup want]
        /\ Completes(a, {want})
    BY <1>1, <1>u, <1>w DEF CommitApproval
  <2>o. {want} \in SUBSET SUBSET Roles
    OBVIOUS
  <2>d. Completed(a, u, {want})
    BY <1>0, <1>u, <2>1, <2>o, Completing
  <2>c. /\ asked' \in [Users -> SUBSET SUBSET Roles] /\ asked'[u] = {want}
        /\ granted' \in [Users -> SUBSET Roles] /\ want \subseteq granted'[u]
        /\ ~task[a].lone => granted[u] \subseteq granted'[u]
        /\ \A v \in Users : v # u => asked'[v] = asked[v] /\ granted'[v] = granted[v]
        /\ task[a].lone => stirred' = stirred \ {u}
        /\ ~task[a].lone => stirred' = stirred \cup {u}
        /\ stirred' \subseteq Users
    BY <2>d DEF Completed
  <2>2. /\ roles' \in [Users -> SUBSET Roles]
        /\ roles'[u] = (roles[u] \ seen) \cup want
        /\ \A v \in Users : v # u => roles'[v] = roles[v]
    BY <1>0, <2>1
  <2>3. active' \subseteq known' /\ \A v \in Users \ known' : roles'[v] = {}
    BY <1>0, <1>k, <2>1, <2>2
  <2>4. AccountsTypeOK'
    BY <1>0, <1>k, <1>t, <2>2, <2>3, <2>c, TypeParts
  <2>5. /\ task[a].lone => roles'[u] = want
        /\ ~task[a].lone => u \in stirred' /\ roles[u] \subseteq granted[u]
    BY <1>n, <1>u, <2>2, <2>c, Held
  <2>6. /\ task[a].lone => task[a].user \in stirred' \cup (Users \ known')
                              \/ roles'[task[a].user] \in asked'[task[a].user]
        /\ ~task[a].lone =>
             task[a].user \in stirred' \/ (task[a].step = "approving" /\ stirred' = stirred)
        /\ roles'[task[a].user] \subseteq granted'[task[a].user]
        /\ ~task[a].lone => granted[task[a].user] \subseteq granted'[task[a].user]
    BY <1>u, <2>2, <2>5, <2>c
  <2>7. \A v \in Users : v # task[a].user =>
              /\ roles'[v] = roles[v] /\ asked'[v] = asked[v] /\ granted'[v] = granted[v]
              /\ (v \in known' <=> v \in known) /\ (v \in stirred' <=> v \in stirred)
    BY <1>k, <1>u, <2>2, <2>c
  <2>8. IdleOK' /\ \A v \in Users : UserOK(v)'
    BY <1>k, <1>a, <1>e, <2>2, <2>6, <2>7, EndsStep
  <2> QED
    BY <2>4, <2>8 DEF AccountInv
<1>2. CASE want \cap (roles[u] \ seen) # {}
  <2>1. active' = active /\ roles' = roles /\ asked' = asked /\ stirred' = stirred
        /\ granted' = granted
    BY <1>2, <1>u, <1>w DEF CommitApproval
  <2>2. ~task[a].lone
    BY <1>2, <1>n
  <2>3. AccountsTypeOK'
    BY <1>0, <1>k, <1>t, <2>1, TypeParts
  <2>4. /\ roles' \in [Users -> SUBSET Roles]
        /\ roles'[task[a].user] \subseteq granted'[task[a].user]
        /\ granted[task[a].user] \subseteq granted'[task[a].user]
    BY <1>0, <1>u, <2>1, Held
  <2>5. \A v \in Users : v # task[a].user =>
              /\ roles'[v] = roles[v] /\ asked'[v] = asked[v] /\ granted'[v] = granted[v]
              /\ (v \in known' <=> v \in known) /\ (v \in stirred' <=> v \in stirred)
    BY <1>k, <2>1
  <2>6. IdleOK' /\ \A v \in Users : UserOK(v)'
    BY <1>k, <1>a, <1>e, <2>1, <2>2, <2>4, <2>5, EndsStep
  <2> QED
    BY <2>3, <2>6 DEF AccountInv
<1> QED
  BY <1>1, <1>2

LEMMA AccountDeletes ==
  ASSUME AccountInv, NEW a \in Admins, DeleteRow(a)
  PROVE  AccountInv'
<1>a. task[a].step # "idle" /\ task[a].step = "stripped"
  BY DEF DeleteRow, Does
<1>0. /\ AccountsTypeOK /\ IdleOK
      /\ known \subseteq Users /\ active \subseteq known /\ hired \subseteq known
      /\ roles \in [Users -> SUBSET Roles] /\ asked \in [Users -> SUBSET SUBSET Roles]
      /\ granted \in [Users -> SUBSET Roles]
      /\ \A v \in Users \ known : roles[v] = {}
      /\ orgActive \in BOOLEAN /\ accountFaults \in 0..MaxAccountFaults
      /\ stirred \subseteq Users
  BY TypeFacts DEF AccountInv
<1>u. PICK u \in Users : u = task[a].user /\ UserOK(u)
  BY <1>0, <1>a, AccountParts DEF AccountInv, IdleOK
<1>l. task[a].lone => Lone(a)
  BY <1>u DEF UserOK
<1>k. /\ hired' = hired /\ orgActive' = orgActive /\ accountFaults' = accountFaults /\ Ends(a)
  BY DEF DeleteRow, Completes, Fails
<1>t. task' \in [Admins -> TaskType]
  BY <1>0, <1>k, Ending
<1>e. \A b \in Admins : task[b].user = task[a].user /\ task[b].step = "approving" =>
            task[a].user \in known'
  BY <1>u DEF DeleteRow, Unlocked, InFlight, Does
<1>1. CASE MayDelete(u) /\ u \in known
  <2>1. /\ known' = known \ {u} /\ active' = active \ {u} /\ u \notin hired
        /\ roles' = [roles EXCEPT ![u] = {}]
        /\ Completes(a, {{}})
    BY <1>1, <1>u DEF DeleteRow, MayDelete
  <2>o. {{}} \in SUBSET SUBSET Roles
    OBVIOUS
  <2>d. Completed(a, u, {{}})
    BY <1>0, <1>u, <2>1, <2>o, Completing
  <2>c. /\ asked' \in [Users -> SUBSET SUBSET Roles] /\ asked'[u] = {{}}
        /\ granted' \in [Users -> SUBSET Roles]
        /\ ~task[a].lone => granted[u] \subseteq granted'[u]
        /\ \A v \in Users : v # u => asked'[v] = asked[v] /\ granted'[v] = granted[v]
        /\ task[a].lone => stirred' = stirred \ {u}
        /\ ~task[a].lone => stirred' = stirred \cup {u}
        /\ stirred' \subseteq Users
    BY <2>d DEF Completed
  <2>2. /\ roles' \in [Users -> SUBSET Roles] /\ roles'[u] = {}
        /\ \A v \in Users : v # u => roles'[v] = roles[v]
    BY <1>0, <2>1
  <2>3. /\ known' \subseteq Users /\ active' \subseteq known' /\ hired' \subseteq known'
        /\ \A v \in Users \ known' : roles'[v] = {}
    BY <1>0, <1>k, <2>1, <2>2
  <2>4. AccountsTypeOK'
    BY <1>0, <1>k, <1>t, <2>2, <2>3, <2>c, TypeParts
  <2>5. /\ task[a].lone => task[a].user \in stirred' \cup (Users \ known')
                              \/ roles'[task[a].user] \in asked'[task[a].user]
        /\ ~task[a].lone =>
             task[a].user \in stirred' \/ (task[a].step = "approving" /\ stirred' = stirred)
        /\ roles'[task[a].user] \subseteq granted'[task[a].user]
        /\ ~task[a].lone => granted[task[a].user] \subseteq granted'[task[a].user]
    BY <1>u, <2>1, <2>2, <2>c
  <2>6. \A v \in Users : v # task[a].user =>
              /\ roles'[v] = roles[v] /\ asked'[v] = asked[v] /\ granted'[v] = granted[v]
              /\ (v \in known' <=> v \in known) /\ (v \in stirred' <=> v \in stirred)
    BY <1>u, <2>1, <2>2, <2>c
  <2>7. IdleOK' /\ \A v \in Users : UserOK(v)'
    BY <1>k, <1>a, <1>e, <2>2, <2>5, <2>6, EndsStep
  <2> QED
    BY <2>4, <2>7 DEF AccountInv
<1>2. CASE ~(MayDelete(u) /\ u \in known)
  <2>1. /\ known' = known /\ active' = active /\ roles' = roles /\ asked' = asked
        /\ granted' = granted /\ stirred' = stirred \cup {u}
    BY <1>2, <1>u DEF DeleteRow, Fails
  <2>2. AccountsTypeOK'
    BY <1>0, <1>k, <1>t, <2>1, TypeParts
  <2>3. /\ task[a].lone => task[a].user \in stirred' \cup (Users \ known')
                              \/ roles'[task[a].user] \in asked'[task[a].user]
        /\ ~task[a].lone =>
             task[a].user \in stirred' \/ (task[a].step = "approving" /\ stirred' = stirred)
        /\ roles'[task[a].user] \subseteq granted'[task[a].user]
        /\ granted[task[a].user] \subseteq granted'[task[a].user]
    BY <1>u, <2>1, Held
  <2>4. \A v \in Users : v # task[a].user =>
              /\ roles'[v] = roles[v] /\ asked'[v] = asked[v] /\ granted'[v] = granted[v]
              /\ (v \in known' <=> v \in known) /\ (v \in stirred' <=> v \in stirred)
    BY <1>u, <2>1
  <2>5. roles' \in [Users -> SUBSET Roles]
    BY <1>0, <2>1
  <2>6. IdleOK' /\ \A v \in Users : UserOK(v)'
    BY <1>k, <1>a, <1>e, <2>3, <2>4, <2>5, EndsStep
  <2> QED
    BY <2>2, <2>6 DEF AccountInv
<1> QED
  BY <1>1, <1>2

LEMMA AccountBreaks ==
  ASSUME AccountInv, NEW a \in Admins, AccountFault(a)
  PROVE  AccountInv'
<1>a. task[a].step # "idle"
  BY DEF AccountFault, AccountInv, IdleOK
<1>0. /\ AccountsTypeOK /\ IdleOK
      /\ known \subseteq Users /\ active \subseteq known /\ hired \subseteq known
      /\ roles \in [Users -> SUBSET Roles] /\ asked \in [Users -> SUBSET SUBSET Roles]
      /\ granted \in [Users -> SUBSET Roles]
      /\ \A v \in Users \ known : roles[v] = {}
      /\ orgActive \in BOOLEAN /\ accountFaults \in 0..MaxAccountFaults
      /\ stirred \subseteq Users
  BY TypeFacts DEF AccountInv
<1>u. PICK u \in Users : u = task[a].user /\ UserOK(u)
  BY <1>0, <1>a, AccountParts DEF AccountInv, IdleOK
<1>l. task[a].lone => Lone(a)
  BY <1>u DEF UserOK
<1>k. /\ known' = known /\ active' = active /\ hired' = hired /\ roles' = roles
      /\ asked' = asked /\ granted' = granted /\ orgActive' = orgActive /\ Ends(a)
      /\ task[a].step = "approving" => stirred' = stirred
      /\ task[a].step # "approving" => stirred' = stirred \cup {u}
  BY <1>u DEF AccountFault, Fails, Does
<1>f. accountFaults' \in 0..MaxAccountFaults
  BY <1>0, AccountsAssumption DEF AccountFault
<1>t. task' \in [Admins -> TaskType]
  BY <1>0, <1>k, Ending
<1>s. stirred' \subseteq Users
  BY <1>0, <1>k
<1>1. AccountsTypeOK'
  BY <1>0, <1>k, <1>f, <1>t, <1>s, TypeParts
<1>2. task[a].lone /\ task[a].step = "approving" => u \in stirred \/ roles[u] \in asked[u]
  BY <1>l, <1>u DEF Lone
<1>3. /\ task[a].lone => task[a].user \in stirred' \cup (Users \ known')
                            \/ roles'[task[a].user] \in asked'[task[a].user]
      /\ ~task[a].lone =>
           task[a].user \in stirred' \/ (task[a].step = "approving" /\ stirred' = stirred)
      /\ roles'[task[a].user] \subseteq granted'[task[a].user]
      /\ granted[task[a].user] \subseteq granted'[task[a].user]
  BY <1>2, <1>k, <1>u, Held
<1>4. \A b \in Admins : task[b].user = task[a].user /\ task[b].step = "approving" =>
            task[a].user \in known'
  BY <1>k, <1>u DEF UserOK
<1>5. \A v \in Users : v # task[a].user =>
            /\ roles'[v] = roles[v] /\ asked'[v] = asked[v] /\ granted'[v] = granted[v]
            /\ (v \in known' <=> v \in known) /\ (v \in stirred' <=> v \in stirred)
  BY <1>k, <1>u
<1>6. roles' \in [Users -> SUBSET Roles]
  BY <1>0, <1>k
<1>7. IdleOK' /\ \A v \in Users : UserOK(v)'
  BY <1>a, <1>k, <1>3, <1>4, <1>5, <1>6, EndsStep
<1> QED
  BY <1>1, <1>7 DEF AccountInv

(* The rows a step that is no request of these writes leave roles alone.   *)
LEMMA AccountElsewhere ==
  ASSUME AccountInv,
         known' = known, roles' = roles, asked' = asked, granted' = granted,
         stirred' = stirred, task' = task, accountFaults' = accountFaults,
         active' \subseteq known, hired' \subseteq known, orgActive' \in BOOLEAN
  PROVE  AccountInv'
<1>1. AccountsTypeOK'
  BY TypeFacts, TypeParts DEF AccountInv
<1>2. IdleOK'
  BY DEF AccountInv, IdleOK
<1>3. \A a \in Admins : Lone(a) => Lone(a)'
  BY DEF Lone
<1>4. \A u \in Users : UserOK(u) => UserOK(u)'
  BY <1>3 DEF UserOK
<1> QED
  BY <1>1, <1>2, <1>4 DEF AccountInv

LEMMA AccountInvInit == AccountsInit => AccountInv
<1> SUFFICES ASSUME AccountsInit PROVE AccountInv
  OBVIOUS
<1>1. PICK r \in Roles : roles = [u \in Users |-> IF u \in known THEN {r} ELSE {}]
  BY DEF AccountsInit
<1>2. /\ task = [a \in Admins |-> NoTask] /\ asked = [u \in Users |-> {roles[u]}] /\ granted = roles
      /\ known \subseteq Users
      /\ active = known /\ hired = {} /\ orgActive = TRUE /\ accountFaults = 0
      /\ stirred = {}
  BY DEF AccountsInit
<1>3. roles \in [Users -> SUBSET Roles] /\ \A v \in Users \ known : roles[v] = {}
  BY <1>1, <1>2
<1>4. task \in [Admins -> TaskType] /\ \A a \in Admins : task[a] = NoTask
  BY <1>2, NoTaskFields
<1>5. AccountsTypeOK
  BY <1>2, <1>3, <1>4, AccountsAssumption DEF AccountsTypeOK, TaskType
<1>p. \A u \in Users : roles[u] \in asked[u]
  BY <1>2
<1>6. IdleOK
  BY <1>4, NoTaskFields DEF IdleOK
<1>7. \A u \in Users, a \in Admins : task[a].user # u
  BY <1>4, NoTaskFields, AccountsAssumption
<1>8. \A u \in Users : UserOK(u)
  BY <1>2, <1>7, <1>p DEF UserOK
<1> QED
  BY <1>5, <1>6, <1>8 DEF AccountInv

LEMMA AccountInvStep ==
  ASSUME AccountInv, [AccountsNext]_accountVars
  PROVE  AccountInv'
<1>0. active \subseteq known /\ hired \subseteq known /\ orgActive \in BOOLEAN
  BY TypeFacts DEF AccountInv
<1>1. ASSUME NEW a \in Admins, ClearRoles(a) \/ RolesWritten(a) \/ CommitApproval(a)
                              \/ DeleteRoles(a) \/ DeleteRow(a) \/ AccountFault(a)
      PROVE  AccountInv'
  BY <1>1, AccountGoesOn, AccountWritten, AccountCommits, AccountDeletes, AccountBreaks
<1>2. ASSUME NEW a \in Admins, NEW name \in RoleNames,
             WriteRole(a, name) \/ ProvisionRole(a, name)
      PROVE  AccountInv'
  BY <1>2, AccountWrites, AccountProvides
<1>3. ASSUME NEW a \in Admins, NEW u \in Users, NEW name \in RoleNames,
             CreateUser(a, u, name)
      PROVE  AccountInv'
  BY <1>3, AccountCreates
<1>4. ASSUME NEW a \in Admins, NEW u \in Users, NEW want \in RoleLists,
             NEW on \in BOOLEAN,
             UpdateUser(a, u, on, want)
      PROVE  AccountInv'
  BY <1>4, AccountUpdates, AccountsAssumption
<1>5. ASSUME NEW a \in Admins, NEW u \in Users, NEW want \in RoleLists,
             BeginApproval(a, u, want)
      PROVE  AccountInv'
  BY <1>5, AccountApproves, AccountsAssumption
<1>6. ASSUME NEW a \in Admins, NEW u \in Users, BeginDeletion(a, u)
      PROVE  AccountInv'
  BY <1>6, AccountStrips
<1>7. ASSUME NEW u \in Users, Hire(u)
      PROVE  AccountInv'
  BY <1>0, <1>7, AccountElsewhere DEF Hire
<1>8. ASSUME NEW u \in Users, NEW on \in BOOLEAN, SetUserActive(u, on)
      PROVE  AccountInv'
  BY <1>0, <1>8, AccountElsewhere DEF SetUserActive
<1>9. CASE ArchiveOrganization
  BY <1>0, <1>9, AccountElsewhere DEF ArchiveOrganization
<1>10. CASE ReactivateOrganization
  BY <1>0, <1>10, AccountElsewhere DEF ReactivateOrganization
<1>11. CASE UNCHANGED accountVars
  BY <1>0, <1>11, AccountElsewhere DEF accountVars
<1> QED
  BY <1>1, <1>2, <1>3, <1>4, <1>5, <1>6, <1>7, <1>8, <1>9, <1>10, <1>11 DEF AccountsNext

LEMMA AccountInvRoles == AccountInv => AccountsTypeOK /\ RolesAreAsAsked
<1> SUFFICES ASSUME AccountInv PROVE AccountsTypeOK /\ RolesAreAsAsked
  OBVIOUS
<1>1. AccountsTypeOK /\ \A u \in Users : UserOK(u)
  BY DEF AccountInv
<1>2. ASSUME NEW u \in known, InFlight(u) = {}, u \notin stirred
      PROVE  roles[u] \in asked[u]
  <2>1. u \in Users /\ \A a \in Admins : task[a].user # u
    BY <1>1, <1>2, TypeFacts DEF InFlight
  <2> QED
    BY <1>1, <1>2, <2>1 DEF UserOK
<1>3. \A u \in Users : roles[u] \subseteq granted[u]
  BY <1>1 DEF UserOK
<1> QED
  BY <1>1, <1>2, <1>3 DEF RolesAreAsAsked
-----------------------------------------------------------------------------
(* JobLock.                                                                *)

LEMMA LockMono ==
  ASSUME NEW p \in Nat, NEW a \in Nat, NEW b \in Nat, a <= b
  PROVE  a * p <= b * p
<1>1. PICK d \in Nat : b = a + d
  OBVIOUS
<1>2. b * p = a * p + d * p /\ d * p \in Nat /\ a * p \in Nat
  BY <1>1
<1> QED
  BY <1>2

(* A period ends where its remainder is nothing.                           *)
LEMMA TickEnds ==
  ASSUME NEW p \in Nat \ {0}, NEW k \in Nat, NEW n \in Nat, k * p <= n, n < (k + 1) * p
  PROVE  /\ (n + 1) % p = 0 => n + 1 = (k + 1) * p
         /\ (n + 1) % p # 0 => n + 1 < (k + 1) * p
<1>q. PICK q \in Nat : q = (n + 1) \div p
  OBVIOUS
<1>r. PICK r \in 0..p - 1 : r = (n + 1) % p
  OBVIOUS
<1>1. n + 1 = q * p + r
  <2>1. n + 1 = p * ((n + 1) \div p) + ((n + 1) % p)
    OBVIOUS
  <2>2. n + 1 = p * q + r /\ p * q = q * p
    BY <2>1, <1>q, <1>r
  <2> QED
    BY <2>2
<1>2. (k + 1) * p = k * p + p /\ (k + 2) * p = (k + 1) * p + p /\ k * p \in Nat /\ q * p \in Nat
  OBVIOUS
<1>3. /\ q <= k => q * p <= k * p
      /\ q >= k + 1 => q * p >= (k + 1) * p
      /\ q >= k + 2 => q * p >= (k + 2) * p
  BY LockMono
<1>4. q <= k \/ q = k + 1 \/ q >= k + 2
  OBVIOUS
<1> QED
  BY <1>1, <1>2, <1>3, <1>4, <1>r

Tokens == Instances \X (1..MaxTicks + 1)
RunType == [token : Tokens, age : 0..LockTtl]

(* A lock is as old as the run that holds it; one that is nobody's         *)
(* was left behind not longer ago than it lives.                           *)
RunOK(r) ==
  /\ r.token[2] <= acquired[r.token[1]]
  /\ r.age < LockTtl => jobLock = r.token /\ jobLockLeft = LockTtl - r.age
LockOK ==
  jobLock # NoToken =>
    /\ jobLock[2] <= acquired[jobLock[1]]
    /\ (\E r \in runs : r.token = jobLock) \/ hindered >= jobLockLeft
TicksOK(k) ==
  /\ k * Period <= clock /\ clock < (k + 1) * Period
  /\ \A i \in Instances : /\ acquired[i] <= k + 1
                          /\ i \in unfired => acquired[i] <= k
JobInv ==
  /\ JobTypeOK
  /\ \E k \in 0..MaxTicks : TicksOK(k)
  /\ \A r \in runs : RunOK(r)
  /\ \A r, q \in runs : r.token = q.token => r = q
  /\ LockOK

LEMMA JobFacts ==
  ASSUME JobTypeOK
  PROVE  /\ clock \in 0..MaxTicks * Period /\ unfired \subseteq Instances
         /\ jobLock \in Tokens \cup {NoToken} /\ jobLockLeft \in 0..LockTtl
         /\ jobLock = NoToken <=> jobLockLeft = 0
         /\ runs \subseteq RunType
         /\ acquired \in [Instances -> 0..MaxTicks + 1]
         /\ served \in BOOLEAN /\ hindered \in 0..LockTtl
         /\ NoToken \notin Tokens /\ LockTtl \in Nat \ {0} /\ MaxTicks \in Nat
BY JobLockAssumption DEF JobTypeOK, Tokens, RunType

LEMMA JobFactsBack ==
  ASSUME clock' \in 0..MaxTicks * Period, unfired' \subseteq Instances,
         jobLock' \in Tokens \cup {NoToken}, jobLockLeft' \in 0..LockTtl,
         jobLock' = NoToken <=> jobLockLeft' = 0,
         runs' \subseteq RunType,
         acquired' \in [Instances -> 0..MaxTicks + 1],
         served' \in BOOLEAN, hindered' \in 0..LockTtl
  PROVE  JobTypeOK'
BY DEF JobTypeOK, Tokens, RunType

LEMMA JobHolds ==
  ASSUME JobInv
  PROVE  /\ JobTypeOK /\ LockOK
         /\ \A r \in runs : RunOK(r)
         /\ \A r \in runs, q \in runs : r.token = q.token => r = q
BY DEF JobInv

LEMMA RunFields ==
  /\ \A token \in Tokens, age \in 0..LockTtl :
       /\ RunOf(token, age) \in RunType
       /\ RunOf(token, age).token = token /\ RunOf(token, age).age = age
  /\ \A r \in RunType : r.token \in Tokens /\ r.age \in 0..LockTtl
  /\ \A t \in Tokens : t[1] \in Instances /\ t[2] \in 1..MaxTicks + 1
BY JobLockAssumption DEF RunOf, RunType, Tokens

LEMMA JobInvInit == JobInit => JobInv
<1> SUFFICES ASSUME JobInit PROVE JobInv
  OBVIOUS
<1>1. 0 * Period = 0 /\ 1 * Period = Period /\ 0 \in 0..MaxTicks /\ MaxTicks * Period \in Nat
      /\ 0 + 1 = 1
  BY JobLockAssumption
<1>2. TicksOK(0)
  BY <1>1, JobLockAssumption DEF TicksOK, JobInit
<1>3. JobTypeOK
  <2>1. acquired \in [Instances -> 0..MaxTicks + 1]
    BY JobLockAssumption DEF JobInit
  <2>2. clock \in 0..MaxTicks * Period /\ jobLockLeft \in 0..LockTtl /\ hindered \in 0..LockTtl
    BY <1>1, JobLockAssumption DEF JobInit
  <2> QED
    BY <2>1, <2>2 DEF JobTypeOK, JobInit
<1> QED
  BY <1>1, <1>2, <1>3 DEF JobInv, JobInit, RunOK, LockOK

(* An instance has fired: a token more, or none.                           *)
LEMMA Fires ==
  ASSUME JobInv, NEW i \in unfired, unfired' = unfired \ {i}, clock' = clock,
         \/ acquired' = [acquired EXCEPT ![i] = @ + 1]
         \/ acquired' = acquired
  PROVE  /\ acquired' \in [Instances -> 0..MaxTicks + 1]
         /\ \E k \in 0..MaxTicks : TicksOK(k)'
         /\ \A j \in Instances : acquired[j] <= acquired'[j]
         /\ Token(i) \in Tokens /\ Token(i)[1] = i /\ Token(i)[2] = acquired[i] + 1
<1>k. PICK k \in 0..MaxTicks : TicksOK(k)
  BY DEF JobInv
<1>0. i \in Instances /\ acquired \in [Instances -> 0..MaxTicks + 1] /\ MaxTicks \in Nat
  BY JobFacts, JobHolds
<1>1. acquired[i] <= k
  BY <1>0, <1>k DEF TicksOK
<1>2. /\ acquired' \in [Instances -> 0..MaxTicks + 1]
      /\ acquired'[i] <= k + 1 /\ acquired[i] <= acquired'[i]
      /\ \A j \in Instances : j # i => acquired'[j] = acquired[j]
  BY <1>0, <1>1
<1>3. TicksOK(k)'
  BY <1>0, <1>2, <1>k DEF TicksOK
<1>4. Token(i) \in Tokens /\ Token(i)[1] = i /\ Token(i)[2] = acquired[i] + 1
  BY <1>0, <1>1 DEF Token, Tokens
<1> QED
  BY <1>0, <1>2, <1>3, <1>4

LEMMA JobInvStart ==
  ASSUME JobInv, NEW i \in unfired, Start(i)
  PROVE  JobInv'
<1>0. /\ unfired' = unfired \ {i} /\ jobLock = NoToken
      /\ jobLock' = Token(i) /\ jobLockLeft' = LockTtl
      /\ runs' = runs \cup {RunOf(Token(i), 0)}
      /\ acquired' = [acquired EXCEPT ![i] = @ + 1] /\ served' = TRUE
      /\ clock' = clock /\ hindered' = hindered
  BY DEF Start, LockIsFree
<1>1. /\ acquired' \in [Instances -> 0..MaxTicks + 1]
      /\ \E k \in 0..MaxTicks : TicksOK(k)'
      /\ \A j \in Instances : acquired[j] <= acquired'[j]
      /\ Token(i) \in Tokens /\ Token(i)[1] = i /\ Token(i)[2] = acquired[i] + 1
  BY <1>0, Fires
<1>2. i \in Instances /\ acquired'[i] = acquired[i] + 1
  BY <1>0, JobFacts, JobHolds
<1>t. PICK t \in Tokens : t = Token(i) /\ t[1] = i /\ t[2] = acquired[i] + 1 /\ t # NoToken
  BY <1>1, JobFacts, JobHolds
<1>n. PICK new \in RunType : new = RunOf(t, 0) /\ new.token = t /\ new.age = 0
  BY RunFields, JobFacts, JobHolds
<1>3. runs' = runs \cup {new} /\ jobLock' = t
  BY <1>0, <1>n, <1>t
<1>4. \A r \in runs : /\ r.token \in Tokens /\ r.age = LockTtl /\ r.token # t
                      /\ r.token[2] <= acquired'[r.token[1]]
  <2> SUFFICES ASSUME NEW r \in runs
               PROVE  /\ r.token \in Tokens /\ r.age = LockTtl /\ r.token # t
                      /\ r.token[2] <= acquired'[r.token[1]]
    OBVIOUS
  <2>1. /\ r \in RunType /\ r.token \in Tokens /\ r.age \in 0..LockTtl /\ RunOK(r)
        /\ r.token[1] \in Instances /\ r.token[2] \in 1..MaxTicks + 1
    BY RunFields, JobFacts, JobHolds
  <2>2. r.age = LockTtl
    BY <1>0, <2>1, JobFacts, JobHolds DEF RunOK
  <2>3. r.token[2] <= acquired[r.token[1]]
    BY <2>1 DEF RunOK
  <2>4. acquired[r.token[1]] \in Int /\ acquired'[r.token[1]] \in Int /\ acquired[i] \in Int
    BY <1>1, <1>2, <2>1, JobFacts, JobHolds
  <2>5. r.token # t
    BY <1>t, <2>1, <2>3, <2>4
  <2>6. acquired[r.token[1]] <= acquired'[r.token[1]]
    BY <1>1, <2>1
  <2> QED
    BY <2>1, <2>2, <2>3, <2>4, <2>5, <2>6
<1>5. JobTypeOK'
  BY <1>0, <1>1, <1>3, <1>t, JobFacts, JobHolds, JobFactsBack
<1>6. \A r \in runs' : RunOK(r)'
  BY <1>0, <1>1, <1>2, <1>3, <1>4, <1>n, <1>t, JobFacts, JobHolds DEF RunOK
<1>7. \A r, q \in runs' : r.token = q.token => r = q
  BY <1>3, <1>4, <1>n, JobHolds
<1>8. LockOK'
  BY <1>1, <1>2, <1>3, <1>n, <1>t, JobFacts, JobHolds DEF LockOK
<1> QED
  BY <1>1, <1>5, <1>6, <1>7, <1>8 DEF JobInv

LEMMA JobInvSkip ==
  ASSUME JobInv, NEW i \in unfired, Skip(i)
  PROVE  JobInv'
<1>0. /\ unfired' = unfired \ {i}
      /\ jobLock' = jobLock /\ jobLockLeft' = jobLockLeft /\ runs' = runs
      /\ acquired' = acquired /\ served' = served
      /\ clock' = clock /\ hindered' = hindered
  BY DEF Skip
<1>1. \E k \in 0..MaxTicks : TicksOK(k)'
  BY <1>0, Fires
<1>2. JobTypeOK'
  BY <1>0, JobFacts, JobHolds, JobFactsBack
<1> QED
  BY <1>0, <1>1, <1>2, JobHolds DEF JobInv, RunOK, LockOK

LEMMA JobInvAcquireFails ==
  ASSUME JobInv, NEW i \in unfired, AcquireFails(i)
  PROVE  JobInv'
<1>0. /\ unfired' = unfired \ {i} /\ hindered' = LockTtl
      /\ runs' = runs /\ served' = served /\ clock' = clock
      /\ \/ jobLock' = jobLock /\ jobLockLeft' = jobLockLeft /\ acquired' = acquired
         \/ /\ jobLock = NoToken /\ jobLock' = Token(i) /\ jobLockLeft' = LockTtl
            /\ acquired' = [acquired EXCEPT ![i] = @ + 1]
  BY DEF AcquireFails, Hinder, LockIsFree
<1>1. /\ acquired' \in [Instances -> 0..MaxTicks + 1]
      /\ \E k \in 0..MaxTicks : TicksOK(k)'
      /\ \A j \in Instances : acquired[j] <= acquired'[j]
      /\ Token(i) \in Tokens /\ Token(i)[1] = i /\ Token(i)[2] = acquired[i] + 1
  BY <1>0, Fires
<1>2. i \in Instances
  BY JobFacts, JobHolds
<1>3. \A r \in runs : /\ r.token \in Tokens /\ RunOK(r) /\ r.age \in 0..LockTtl
                      /\ r.token[2] <= acquired'[r.token[1]]
  <2> SUFFICES ASSUME NEW r \in runs
               PROVE  /\ r.token \in Tokens /\ RunOK(r) /\ r.age \in 0..LockTtl
                      /\ r.token[2] <= acquired'[r.token[1]]
    OBVIOUS
  <2>1. /\ r \in RunType /\ r.token \in Tokens /\ r.age \in 0..LockTtl /\ RunOK(r)
        /\ r.token[1] \in Instances /\ r.token[2] \in 1..MaxTicks + 1
    BY RunFields, JobFacts, JobHolds
  <2>2. /\ r.token[2] <= acquired[r.token[1]] /\ acquired[r.token[1]] <= acquired'[r.token[1]]
        /\ acquired[r.token[1]] \in Int /\ acquired'[r.token[1]] \in Int
    BY <1>1, <2>1, JobFacts, JobHolds DEF RunOK
  <2> QED
    BY <2>1, <2>2
<1>4. CASE jobLock' = jobLock /\ jobLockLeft' = jobLockLeft /\ acquired' = acquired
  <2>1. JobTypeOK'
    BY <1>0, <1>4, JobFacts, JobHolds, JobFactsBack
  <2>2. LockOK'
    BY <1>0, <1>4, JobFacts, JobHolds DEF LockOK
  <2> QED
    BY <1>0, <1>1, <1>3, <1>4, <2>1, <2>2, JobHolds DEF JobInv, RunOK
<1>5. CASE /\ jobLock = NoToken /\ jobLock' = Token(i) /\ jobLockLeft' = LockTtl
           /\ acquired' = [acquired EXCEPT ![i] = @ + 1]
  <2>1. JobTypeOK'
    BY <1>0, <1>1, <1>5, JobFacts, JobHolds, JobFactsBack
  <2>2. acquired'[i] = acquired[i] + 1 /\ acquired[i] \in Int
    BY <1>2, <1>5, JobFacts, JobHolds
  <2>3. LockOK'
    BY <1>0, <1>1, <1>5, <2>2, JobFacts, JobHolds DEF LockOK
  <2>4. \A r \in runs : r.age = LockTtl
    BY <1>3, <1>5, JobFacts, JobHolds DEF RunOK
  <2>5. \A r \in runs : RunOK(r)'
    BY <1>3, <2>4, JobFacts, JobHolds DEF RunOK
  <2> QED
    BY <1>0, <1>1, <2>1, <2>3, <2>5, JobHolds DEF JobInv
<1> QED
  BY <1>0, <1>4, <1>5

LEMMA JobInvFinish ==
  ASSUME JobInv, NEW r \in runs, Finish(r)
  PROVE  JobInv'
<1>0. /\ unfired' = unfired /\ hindered' = hindered /\ acquired' = acquired
      /\ runs' = runs \ {r} /\ served' = served /\ clock' = clock
  BY DEF Finish
<1>1. \E k \in 0..MaxTicks : TicksOK(k)'
  BY <1>0 DEF JobInv, TicksOK
<1>r. r.token \in Tokens
  BY RunFields, JobFacts, JobHolds
<1>2. CASE jobLock = r.token
  <2>1. jobLock' = NoToken /\ jobLockLeft' = 0
    BY <1>2 DEF Finish, AfterRelease
  <2>2. JobTypeOK'
    BY <1>0, <2>1, JobFacts, JobHolds, JobFactsBack
  <2>3. \A q \in runs' : RunOK(q)'
    BY <1>0, <1>2, JobHolds DEF RunOK
  <2> QED
    BY <1>0, <1>1, <2>1, <2>2, <2>3, JobHolds DEF JobInv, LockOK
<1>3. CASE jobLock # r.token
  <2>1. jobLock' = jobLock /\ jobLockLeft' = jobLockLeft
    BY <1>3, JobFacts, JobHolds DEF Finish, AfterRelease
  <2>2. JobTypeOK'
    BY <1>0, <2>1, JobFacts, JobHolds, JobFactsBack
  <2>3. \A q \in runs' : RunOK(q)'
    BY <1>0, <2>1, JobHolds DEF RunOK
  <2>4. LockOK'
    BY <1>0, <1>3, <2>1, JobHolds DEF LockOK
  <2> QED
    BY <1>0, <1>1, <2>2, <2>3, <2>4, JobHolds DEF JobInv
<1> QED
  BY <1>2, <1>3

LEMMA JobInvLeaveLock ==
  ASSUME JobInv, NEW r \in runs, LeaveLock(r)
  PROVE  JobInv'
<1>0. /\ unfired' = unfired /\ hindered' = LockTtl /\ acquired' = acquired
      /\ jobLock' = jobLock /\ jobLockLeft' = jobLockLeft
      /\ runs' \subseteq runs /\ served' = served /\ clock' = clock
  BY DEF LeaveLock, Hinder
<1>1. \E k \in 0..MaxTicks : TicksOK(k)'
  BY <1>0 DEF JobInv, TicksOK
<1>2. JobTypeOK'
  BY <1>0, JobFacts, JobHolds, JobFactsBack
<1>3. \A q \in runs' : RunOK(q)'
  BY <1>0, JobHolds DEF RunOK
<1>4. LockOK'
  BY <1>0, JobFacts, JobHolds DEF LockOK
<1> QED
  BY <1>0, <1>1, <1>2, <1>3, <1>4, JobHolds DEF JobInv

LEMMA JobInvTime ==
  ASSUME JobInv, JobTime
  PROVE  JobInv'
<1>0. /\ clock < MaxTicks * Period /\ clock' = clock + 1
      /\ (clock + 1) % Period = 0 => unfired = {} /\ unfired' = Instances
      /\ (clock + 1) % Period # 0 => unfired' = unfired
      /\ jobLockLeft' = IF jobLockLeft > 0 THEN jobLockLeft - 1 ELSE 0
      /\ jobLock' = IF jobLockLeft <= 1 THEN NoToken ELSE jobLock
      /\ runs' = {RunOf(r.token, Older(r.age)) : r \in runs}
      /\ hindered' = IF hindered > 0 THEN hindered - 1 ELSE 0
      /\ acquired' = acquired
  BY DEF JobTime
<1>s. served' \in BOOLEAN
  BY JobFacts, JobHolds, Zenon DEF JobTime
<1>k. PICK k \in 0..MaxTicks : TicksOK(k)
  BY DEF JobInv
<1>n. /\ clock \in Nat /\ MaxTicks \in Nat /\ Period \in Nat \ {0} /\ MaxTicks * Period \in Nat
      /\ k \in Nat /\ k * Period <= clock /\ clock < (k + 1) * Period
  BY <1>k, JobFacts, JobHolds, JobLockAssumption DEF TicksOK
<1>1. \E m \in 0..MaxTicks : TicksOK(m)'
  <2>1. CASE (clock + 1) % Period = 0
    <3>1. clock + 1 = (k + 1) * Period /\ unfired = {}
      BY <1>0, <1>n, <2>1, TickEnds
    <3>2. PICK m \in Nat : m = k + 1
      BY <1>n
    <3>3. /\ (MaxTicks + 1) * Period = MaxTicks * Period + Period
          /\ (m + 1) * Period = m * Period + Period
      BY <1>n
    <3>4. m >= MaxTicks + 1 => m * Period >= (MaxTicks + 1) * Period
      BY <1>n, LockMono
    <3>5. m \in 0..MaxTicks
      BY <1>0, <1>n, <3>1, <3>2, <3>3, <3>4
    <3>6. m * Period <= clock' /\ clock' < (m + 1) * Period
      BY <1>0, <1>n, <3>1, <3>2, <3>3
    <3>7. \A i \in Instances : acquired[i] <= m
      BY <1>k, <3>2 DEF TicksOK
    <3>8. \A i \in Instances : acquired[i] <= m + 1 /\ (i \in unfired' => acquired[i] <= m)
      BY <3>2, <3>7, JobFacts, JobHolds
    <3>9. TicksOK(m)'
      BY <1>0, <3>6, <3>8 DEF TicksOK
    <3> QED
      BY <3>5, <3>9
  <2>2. CASE (clock + 1) % Period # 0
    <3>1. clock + 1 < (k + 1) * Period
      BY <1>n, <2>2, TickEnds
    <3>2. k * Period <= clock' /\ clock' < (k + 1) * Period
      BY <1>0, <1>n, <3>1
    <3>3. TicksOK(k)'
      BY <1>0, <1>k, <2>2, <3>2 DEF TicksOK
    <3> QED
      BY <3>3
  <2> QED
    BY <2>1, <2>2
<1>a. \A age \in 0..LockTtl : /\ Older(age) \in 0..LockTtl
                              /\ Older(age) < LockTtl =>
                                   age < LockTtl /\ Older(age) = age + 1
  BY JobLockAssumption DEF Older
<1>2. \A q \in runs' : \E r \in runs :
        q = RunOf(r.token, Older(r.age)) /\ q.token = r.token /\ q.age = Older(r.age) /\ q \in RunType
  BY <1>0, <1>a, RunFields, JobFacts, JobHolds
<1>3. \A r \in runs : \E q \in runs' : q.token = r.token
  BY <1>0, <1>a, RunFields, JobFacts, JobHolds
<1>4. clock' \in 0..MaxTicks * Period /\ jobLockLeft' \in 0..LockTtl /\ hindered' \in 0..LockTtl
      /\ jobLock' \in Tokens \cup {NoToken} /\ (jobLock' = NoToken <=> jobLockLeft' = 0)
      /\ unfired' \subseteq Instances
  BY <1>0, <1>n, JobFacts, JobHolds
<1>5. JobTypeOK'
  BY <1>0, <1>2, <1>4, <1>s, JobFacts, JobHolds, JobFactsBack
<1>6. \A q \in runs' : RunOK(q)'
  <2> SUFFICES ASSUME NEW q \in runs' PROVE RunOK(q)'
    OBVIOUS
  <2>1. PICK r \in runs : q.token = r.token /\ q.age = Older(r.age)
    BY <1>2
  <2>2. r.age \in 0..LockTtl /\ RunOK(r)
    BY RunFields, JobFacts, JobHolds
  <2>3. q.age < LockTtl => jobLock' = q.token /\ jobLockLeft' = LockTtl - q.age
    BY <1>0, <1>a, <2>1, <2>2, JobFacts, JobHolds DEF RunOK
  <2> QED
    BY <1>0, <2>1, <2>2, <2>3 DEF RunOK
<1>7. \A p, q \in runs' : p.token = q.token => p = q
  <2> SUFFICES ASSUME NEW p \in runs', NEW q \in runs', p.token = q.token
               PROVE  p = q
    OBVIOUS
  <2>1. PICK r \in runs : p = RunOf(r.token, Older(r.age)) /\ p.token = r.token
    BY <1>2
  <2>2. PICK w \in runs : q = RunOf(w.token, Older(w.age)) /\ q.token = w.token
    BY <1>2
  <2>3. r = w
    BY <2>1, <2>2, JobHolds
  <2> QED
    BY <2>1, <2>2, <2>3
<1>8. LockOK'
  <2> SUFFICES ASSUME jobLock' # NoToken
               PROVE  /\ jobLock[2] <= acquired[jobLock[1]]
                      /\ (\E q \in runs' : q.token = jobLock) \/ hindered' >= jobLockLeft'
    BY <1>0 DEF LockOK
  <2>1. jobLock # NoToken /\ LockOK /\ jobLockLeft > 1
    BY <1>0, JobFacts, JobHolds
  <2>2. CASE \E r \in runs : r.token = jobLock
    BY <1>3, <2>1, <2>2 DEF LockOK
  <2>3. CASE hindered >= jobLockLeft
    BY <1>0, <2>1, <2>3, JobFacts, JobHolds DEF LockOK
  <2> QED
    BY <2>1, <2>2, <2>3 DEF LockOK
<1> QED
  BY <1>1, <1>5, <1>6, <1>7, <1>8 DEF JobInv

LEMMA JobInvStep ==
  ASSUME JobInv, [JobNext]_jobVars
  PROVE  JobInv'
<1>1. ASSUME NEW i \in Instances, Start(i) \/ Skip(i) \/ AcquireFails(i)
      PROVE  JobInv'
  <2>1. i \in unfired
    BY <1>1 DEF Start, Skip, AcquireFails
  <2> QED
    BY <1>1, <2>1, JobInvStart, JobInvSkip, JobInvAcquireFails
<1>2. CASE UNCHANGED jobVars
  <2>1. /\ unfired' = unfired /\ hindered' = hindered /\ acquired' = acquired
        /\ jobLock' = jobLock /\ jobLockLeft' = jobLockLeft
        /\ runs' = runs /\ served' = served /\ clock' = clock
    BY <1>2 DEF jobVars
  <2>2. JobTypeOK'
    BY <2>1, JobFacts, JobHolds, JobFactsBack
  <2> QED
    BY <2>1, <2>2 DEF JobInv, TicksOK, RunOK, LockOK
<1> QED
  BY <1>1, <1>2, JobInvFinish, JobInvLeaveLock, JobInvTime DEF JobNext

LEMMA JobInvCovers == JobInv => JobTypeOK /\ LockCoversJob
BY DEF JobInv, LockCoversJob, RunOK

LEMMA MissedTickStep ==
  ASSUME JobInv, [JobNext]_jobVars, unfired # {}, unfired' = {}, ~served', hindered' = 0
  PROVE  runs # {}
<1>1. ASSUME NEW i \in Instances, Skip(i)
      PROVE  runs # {}
  <2>1. jobLock # NoToken /\ hindered' = hindered
    BY <1>1 DEF Skip, LockIsFree
  <2>2. jobLockLeft > 0 /\ ~(hindered >= jobLockLeft)
    BY <2>1, JobFacts, JobHolds
  <2> QED
    BY <2>1, <2>2, JobHolds DEF LockOK
<1>2. ASSUME NEW i \in Instances, Start(i) \/ AcquireFails(i)
      PROVE  FALSE
  BY <1>2, JobFacts, JobHolds DEF Start, AcquireFails, Hinder
<1>3. ASSUME NEW r \in runs, Finish(r) \/ LeaveLock(r)
      PROVE  FALSE
  BY <1>3 DEF Finish, LeaveLock
<1>4. CASE JobTime
  <2>1. (clock + 1) % Period = 0 => unfired = {} /\ unfired' = Instances
    BY <1>4 DEF JobTime
  <2>2. (clock + 1) % Period # 0 => unfired' = unfired
    BY <1>4 DEF JobTime
  <2> QED
    BY <2>1, <2>2
<1>5. CASE UNCHANGED jobVars
  BY <1>5 DEF jobVars
<1> QED
  BY <1>1, <1>2, <1>3, <1>4, <1>5 DEF JobNext

(* The lock serves the job: runs that have not outlived it are alone, and  *)
(* no tick goes without a run for nothing.                                 *)
LEMMA JobHoldsAlways == JobInit /\ [][JobNext]_jobVars => LockServesTheJob
<1>1. JobInv /\ [JobNext]_jobVars =>
        [unfired # {} /\ unfired' = {} /\ ~served' /\ hindered' = 0 => runs # {}]_jobVars
  BY MissedTickStep
<1> QED
  BY <1>1, JobInvInit, JobInvStep, JobInvCovers, PTL DEF LockServesTheJob,
     MissedTickHasACause
-----------------------------------------------------------------------------
(* SlaClock.                                                               *)

Instants == Nat \cup {Null}
RowType == [status : TicketStatus, firstResponseDeadline : Instants,
            resolutionDeadline : Instants, firstRespondedAt : Instants,
            resolvedAt : Instants, slaPausedAt : Instants, totalPausedDurationMs : Nat]

Open(r) == IF IsSet(r.slaPausedAt) THEN now - r.slaPausedAt ELSE 0

(* What the deadlines of a row owe to its pauses: each is later than the   *)
(* total that has been folded.                                             *)
DeadlinesOK(r) ==
  /\ IsSet(r.slaPausedAt) => r.slaPausedAt <= now
  /\ ~IsSet(r.firstRespondedAt) => IsSet(r.firstResponseDeadline)
  /\ IsSet(r.firstResponseDeadline) /\ ~IsSet(r.firstRespondedAt) =>
       r.firstResponseDeadline > r.totalPausedDurationMs
  /\ IsSet(r.resolutionDeadline) => r.resolutionDeadline > r.totalPausedDurationMs
ClockInv ==
  /\ now \in 0..MaxNow /\ copy \in TicketStatus /\ row \in RowType
  /\ waited \in 0..MaxNow /\ unpaused \in Nat \cup {Null} /\ midPause \in BOOLEAN
  /\ DeadlinesOK(row)
  /\ IsSet(row.slaPausedAt) <=> row.status \in PAUSING_STATUSES
  /\ waited = row.totalPausedDurationMs + Open(row) /\ waited <= now
  /\ IsSet(unpaused) <=> IsSet(row.resolutionDeadline)
  /\ DeadlineMovesWithThePauses

LEMMA Fields ==
  ASSUME NEW r \in RowType
  PROVE  /\ r.status \in TicketStatus /\ r.firstResponseDeadline \in Instants
         /\ r.resolutionDeadline \in Instants /\ r.firstRespondedAt \in Instants
         /\ r.resolvedAt \in Instants /\ r.slaPausedAt \in Instants
         /\ r.totalPausedDurationMs \in Nat
BY DEF RowType

LEMMA InstantsOrNone == Null \notin Nat /\ \A t \in Instants : IsSet(t) <=> t \in Nat
BY SlaClockAssumption DEF IsSet, Instants

(* What a synchronized row is made of.                                     *)
LEMMA Resuming ==
  ASSUME NEW r \in RowType, now \in Nat, DeadlinesOK(r), NEW s, s = Resume(r)
  PROVE  /\ s \in RowType /\ s.status = r.status /\ s.slaPausedAt = Null
         /\ s.firstRespondedAt = r.firstRespondedAt /\ s.resolvedAt = r.resolvedAt
         /\ s.totalPausedDurationMs = r.totalPausedDurationMs + Open(r) /\ Open(r) \in Nat
         /\ IsSet(r.resolutionDeadline) =>
              s.resolutionDeadline = r.resolutionDeadline + Open(r)
         /\ ~IsSet(r.resolutionDeadline) => s.resolutionDeadline = r.resolutionDeadline
         /\ IsSet(r.firstRespondedAt) => s.firstResponseDeadline = r.firstResponseDeadline
         /\ ~IsSet(r.firstRespondedAt) =>
              s.firstResponseDeadline = r.firstResponseDeadline + Open(r)
<1>1. CASE ~IsSet(r.slaPausedAt)
  BY <1>1, Fields, InstantsOrNone DEF Resume, Open, DeadlinesOK, IsSet
<1>2. CASE IsSet(r.slaPausedAt)
  <2>1. PICK elapsed \in Nat : elapsed = Open(r) /\ elapsed = AtLeast(now - r.slaPausedAt, 0)
    BY <1>2, Fields, InstantsOrNone DEF Open, DeadlinesOK, AtLeast
  <2>2. ResolutionDeadline(r, elapsed) \in Instants /\ ResponseDeadline(r, elapsed) \in Instants
    <3>1. \A t \in Instants : Later(t, elapsed) \in Instants
      BY InstantsOrNone DEF Later, Instants, IsSet
    <3> QED
      BY <3>1, Fields DEF ResolutionDeadline, ResponseDeadline
  <2>3. PICK a \in Instants, b \in Instants, t \in Nat :
          /\ a = ResolutionDeadline(r, elapsed) /\ b = ResponseDeadline(r, elapsed)
          /\ t = r.totalPausedDurationMs + elapsed
    BY <2>2, Fields
  <2>4. s = [r EXCEPT !.totalPausedDurationMs = t, !.resolutionDeadline = a,
                      !.firstResponseDeadline = b, !.slaPausedAt = Null]
    <3>1. s = [r EXCEPT !.totalPausedDurationMs = @ + elapsed,
                 !.resolutionDeadline = ResolutionDeadline(r, elapsed),
                 !.firstResponseDeadline = ResponseDeadline(r, elapsed),
                 !.slaPausedAt = Null]
      BY <1>2, <2>1 DEF Resume
    <3> QED
      BY <3>1, <2>3
  <2>5. /\ s \in RowType /\ s.status = r.status /\ s.slaPausedAt = Null
        /\ s.firstRespondedAt = r.firstRespondedAt /\ s.resolvedAt = r.resolvedAt
        /\ s.totalPausedDurationMs = t
        /\ s.resolutionDeadline = a /\ s.firstResponseDeadline = b
    <3>1. Null \in Instants
      BY DEF Instants
    <3> QED
      BY <2>4, <3>1 DEF RowType
  <2>6. /\ IsSet(r.resolutionDeadline) => a = r.resolutionDeadline + elapsed
        /\ ~IsSet(r.resolutionDeadline) => a = r.resolutionDeadline
    BY <2>3 DEF ResolutionDeadline, Later, IsSet
  <2>7. /\ IsSet(r.firstRespondedAt) => b = r.firstResponseDeadline
        /\ ~IsSet(r.firstRespondedAt) => b = r.firstResponseDeadline + elapsed
    BY <2>3 DEF ResponseDeadline, Later, DeadlinesOK
  <2> QED
    BY <2>1, <2>3, <2>5, <2>6, <2>7
<1> QED
  BY <1>1, <1>2

LEMMA Pausing ==
  ASSUME NEW r \in RowType, now \in Nat, NEW s, s = Pause(r)
  PROVE  /\ s \in RowType /\ s.status = r.status
         /\ s.firstRespondedAt = r.firstRespondedAt /\ s.resolvedAt = r.resolvedAt
         /\ s.totalPausedDurationMs = r.totalPausedDurationMs
         /\ s.resolutionDeadline = r.resolutionDeadline
         /\ s.firstResponseDeadline = r.firstResponseDeadline
         /\ s.slaPausedAt \in Nat
         /\ IsSet(r.slaPausedAt) => s.slaPausedAt = r.slaPausedAt
         /\ ~IsSet(r.slaPausedAt) => s.slaPausedAt = now
<1>1. CASE IsSet(r.slaPausedAt)
  BY <1>1, Fields, InstantsOrNone DEF Pause
<1>2. CASE ~IsSet(r.slaPausedAt)
  BY <1>2 DEF Pause, RowType, Instants
<1> QED
  BY <1>1, <1>2

LEMMA Syncing ==
  ASSUME NEW r \in RowType, now \in Nat, DeadlinesOK(r), NEW to, NEW s,
         s = SyncPauseState(r, to)
  PROVE  /\ s \in RowType /\ s.status = r.status /\ DeadlinesOK(s)
         /\ s.firstRespondedAt = r.firstRespondedAt /\ s.resolvedAt = r.resolvedAt
         /\ IsSet(s.slaPausedAt) <=> to \in PAUSING_STATUSES
         /\ s.totalPausedDurationMs + Open(s) = r.totalPausedDurationMs + Open(r)
         /\ IsSet(s.resolutionDeadline) <=> IsSet(r.resolutionDeadline)
         /\ IsSet(r.resolutionDeadline) =>
              s.resolutionDeadline - s.totalPausedDurationMs =
                r.resolutionDeadline - r.totalPausedDurationMs
         /\ IsSet(r.firstRespondedAt) => s.firstResponseDeadline = r.firstResponseDeadline
<1>1. CASE to \in PAUSING_STATUSES
  <2>1. s = Pause(r)
    BY <1>1 DEF SyncPauseState
  <2> QED
    BY <1>1, <2>1, Pausing, Fields, InstantsOrNone DEF DeadlinesOK, Open
<1>2. CASE to \notin PAUSING_STATUSES
  <2>1. s = Resume(r)
    BY <1>2 DEF SyncPauseState
  <2> QED
    BY <1>2, <2>1, Resuming, Fields, InstantsOrNone DEF DeadlinesOK, Open
<1> QED
  BY <1>1, <1>2

LEMMA ClockInvInit == ClockInit => ClockInv
<1> SUFFICES ASSUME ClockInit PROVE ClockInv
  OBVIOUS
<1>1. row \in RowType /\ row.slaPausedAt = Null /\ row.status = "OPEN"
      /\ row.totalPausedDurationMs = 0 /\ row.firstRespondedAt = Null
      /\ row.firstResponseDeadline = ResponseTime
      /\ row.resolutionDeadline = ResolutionTime
  BY SlaClockAssumption DEF ClockInit, RowType, Instants, TicketStatus
<1>2. /\ now = 0 /\ copy = "OPEN" /\ waited = 0 /\ unpaused = ResolutionTime
      /\ ResolutionTime \in Nat \ {0} /\ ResponseTime \in Nat \ {0} /\ MaxNow \in Nat
      /\ Null \notin Nat
  BY SlaClockAssumption DEF ClockInit
<1>3. midPause \in BOOLEAN
  BY DEF ClockInit
<1>4. DeadlinesOK(row) /\ Open(row) = 0
  BY <1>1, <1>2 DEF DeadlinesOK, Open, IsSet
<1>5. (IsSet(row.slaPausedAt) <=> row.status \in PAUSING_STATUSES) /\ "OPEN" \in TicketStatus
  BY <1>1 DEF IsSet, PAUSING_STATUSES, TicketStatus
<1>6. (IsSet(unpaused) <=> IsSet(row.resolutionDeadline)) /\ DeadlineMovesWithThePauses
  BY <1>1, <1>2 DEF IsSet, DeadlineMovesWithThePauses
<1>7. waited = row.totalPausedDurationMs + Open(row) /\ waited <= now
      /\ now \in 0..MaxNow /\ waited \in 0..MaxNow /\ unpaused \in Nat \cup {Null}
  BY <1>1, <1>2, <1>4
<1> QED
  BY <1>1, <1>2, <1>3, <1>4, <1>5, <1>6, <1>7 DEF ClockInv

LEMMA ClockTickStep == ClockInv /\ ClockTicks => ClockInv'
<1> SUFFICES ASSUME ClockInv, ClockTicks PROVE ClockInv'
  OBVIOUS
<1>1. /\ row \in RowType /\ now \in Nat /\ now + 1 <= MaxNow /\ waited \in Nat
      /\ row' = row /\ now' = now + 1 /\ UNCHANGED <<copy, unpaused, midPause>>
      /\ IsSet(row.slaPausedAt) => waited' = waited + 1
      /\ ~IsSet(row.slaPausedAt) => waited' = waited
  BY SlaClockAssumption DEF ClockInv, ClockTicks
<1>2. /\ now' \in 0..MaxNow /\ copy' \in TicketStatus /\ row' \in RowType
      /\ unpaused' \in Nat \cup {Null} /\ midPause' \in BOOLEAN
      /\ IsSet(row.slaPausedAt)' <=> row'.status \in PAUSING_STATUSES
      /\ IsSet(unpaused)' <=> IsSet(row.resolutionDeadline)'
      /\ DeadlineMovesWithThePauses'
  <2>1. now' \in 0..MaxNow
    BY <1>1, SlaClockAssumption
  <2>2. midPause' \in BOOLEAN
    BY <1>1 DEF ClockInv
  <2> QED
    BY <1>1, <2>1, <2>2 DEF ClockInv, DeadlineMovesWithThePauses, IsSet
<1>3. DeadlinesOK(row)'
  BY <1>1, Fields, InstantsOrNone DEF ClockInv, DeadlinesOK, IsSet
<1>4. waited' \in 0..MaxNow /\ waited' = row'.totalPausedDurationMs + Open(row)' /\ waited' <= now'
  <2>1. row.totalPausedDurationMs \in Nat /\ (IsSet(row.slaPausedAt) => row.slaPausedAt \in Nat)
    BY <1>1, Fields, InstantsOrNone
  <2>2. waited = row.totalPausedDurationMs + Open(row) /\ waited <= now
    BY DEF ClockInv
  <2>3. Open(row)' = IF IsSet(row.slaPausedAt) THEN now' - row.slaPausedAt ELSE 0
    BY <1>1 DEF Open, IsSet
  <2> QED
    BY <1>1, <2>1, <2>2, <2>3, SlaClockAssumption DEF Open
<1> QED
  BY <1>2, <1>3, <1>4 DEF ClockInv

LEMMA LoadStatusStep == ClockInv /\ LoadStatus => ClockInv'
<1> SUFFICES ASSUME ClockInv, LoadStatus PROVE ClockInv'
  OBVIOUS
<1>1. copy' \in TicketStatus
  BY Fields DEF ClockInv, LoadStatus
<1> QED
  BY <1>1 DEF ClockInv, LoadStatus, DeadlinesOK, Open, DeadlineMovesWithThePauses, IsSet

(* The row that a status change hands to the engine.                       *)
Changed(to) ==
  [row EXCEPT
       !.status = to,
       !.firstRespondedAt = IF to \in FirstResponses THEN now ELSE @,
       !.resolvedAt = IF to = "RESOLVED" THEN now ELSE @]

LEMMA ChangedRow ==
  ASSUME row \in RowType, now \in Nat, DeadlinesOK(row), NEW to \in TicketStatus,
         NEW r, r = Changed(to)
  PROVE  /\ r \in RowType /\ r.status = to /\ DeadlinesOK(r)
         /\ r.slaPausedAt = row.slaPausedAt
         /\ r.totalPausedDurationMs = row.totalPausedDurationMs
         /\ r.resolutionDeadline = row.resolutionDeadline
         /\ r.firstResponseDeadline = row.firstResponseDeadline
         /\ r.firstRespondedAt \in {now, row.firstRespondedAt}
<1>1. PICK a \in Instants, b \in Instants :
        /\ a = IF to \in FirstResponses THEN now ELSE row.firstRespondedAt
        /\ b = IF to = "RESOLVED" THEN now ELSE row.resolvedAt
  BY Fields DEF Instants
<1>2. r = [row EXCEPT !.status = to, !.firstRespondedAt = a, !.resolvedAt = b]
  BY <1>1 DEF Changed
<1>3. /\ r \in RowType /\ r.status = to /\ r.slaPausedAt = row.slaPausedAt
      /\ r.totalPausedDurationMs = row.totalPausedDurationMs
      /\ r.resolutionDeadline = row.resolutionDeadline
      /\ r.firstResponseDeadline = row.firstResponseDeadline
      /\ r.firstRespondedAt = a
  BY <1>2 DEF RowType
<1>4. DeadlinesOK(r)
  <2>1. IsSet(row.firstRespondedAt) => IsSet(a)
    BY <1>1, InstantsOrNone DEF IsSet
  <2> QED
    BY <1>3, <2>1 DEF DeadlinesOK
<1> QED
  BY <1>1, <1>3, <1>4

(* What a step of the engine on a row owes to the invariant.               *)
LEMMA SyncStep ==
  ASSUME ClockInv, NEW r \in RowType, DeadlinesOK(r), NEW to \in TicketStatus,
         r.status = to,
         row' = SyncPauseState(r, to), now' = now, copy' = copy,
         waited' = r.totalPausedDurationMs + Open(r), waited' \in 0..MaxNow, waited' <= now,
         unpaused' \in Nat \cup {Null}, midPause' \in BOOLEAN,
         IsSet(unpaused)' <=> IsSet(r.resolutionDeadline),
         IsSet(unpaused)' /\ ~midPause' =>
            r.resolutionDeadline = unpaused' + r.totalPausedDurationMs
  PROVE  ClockInv'
<1>1. PICK s : s = SyncPauseState(r, to)
  OBVIOUS
<1>2. now \in Nat /\ now' \in 0..MaxNow /\ copy' \in TicketStatus
  BY SlaClockAssumption DEF ClockInv
<1>3. /\ s \in RowType /\ s.status = r.status /\ DeadlinesOK(s)
      /\ IsSet(s.slaPausedAt) <=> to \in PAUSING_STATUSES
      /\ s.totalPausedDurationMs + Open(s) = r.totalPausedDurationMs + Open(r)
      /\ IsSet(s.resolutionDeadline) <=> IsSet(r.resolutionDeadline)
      /\ IsSet(r.resolutionDeadline) =>
           s.resolutionDeadline - s.totalPausedDurationMs =
             r.resolutionDeadline - r.totalPausedDurationMs
  BY <1>1, <1>2, Syncing
<1>4. row' = s
  BY <1>1
<1>5. DeadlinesOK(row)' /\ Open(row)' = Open(s)
  BY <1>3, <1>4 DEF DeadlinesOK, Open, IsSet
<1>6. DeadlineMovesWithThePauses'
  <2>1. /\ s.totalPausedDurationMs \in Nat /\ r.totalPausedDurationMs \in Nat
        /\ IsSet(r.resolutionDeadline) => r.resolutionDeadline \in Nat
        /\ IsSet(s.resolutionDeadline) => s.resolutionDeadline \in Nat
        /\ IsSet(unpaused)' => unpaused' \in Nat
    BY <1>3, Fields, InstantsOrNone DEF IsSet
  <2>2. SUFFICES ASSUME IsSet(unpaused)', ~midPause'
                 PROVE  s.resolutionDeadline = unpaused' + s.totalPausedDurationMs
    BY <1>4 DEF DeadlineMovesWithThePauses
  <2>3. r.resolutionDeadline = unpaused' + r.totalPausedDurationMs /\ IsSet(r.resolutionDeadline)
    BY <2>2
  <2> QED
    BY <1>3, <2>1, <2>2, <2>3
<1>7. /\ row' \in RowType
      /\ IsSet(row.slaPausedAt)' <=> row'.status \in PAUSING_STATUSES
      /\ waited' = row'.totalPausedDurationMs + Open(row)'
      /\ IsSet(unpaused)' <=> IsSet(row.resolutionDeadline)'
  BY <1>3, <1>4, <1>5 DEF IsSet
<1> QED
  BY <1>2, <1>5, <1>6, <1>7 DEF ClockInv

LEMMA StatusStep ==
  ASSUME ClockInv, NEW to \in TicketStatus, ApplyStatusChange(to)
  PROVE  ClockInv'
<1>1. PICK r : r = Changed(to)
  OBVIOUS
<1>2. row \in RowType /\ now \in Nat /\ DeadlinesOK(row)
  BY SlaClockAssumption DEF ClockInv
<1>3. /\ r \in RowType /\ r.status = to /\ DeadlinesOK(r)
      /\ r.slaPausedAt = row.slaPausedAt
      /\ r.totalPausedDurationMs = row.totalPausedDurationMs
      /\ r.resolutionDeadline = row.resolutionDeadline
  BY <1>1, <1>2, ChangedRow
<1>4. row' = SyncPauseState(r, to) /\ UNCHANGED <<now, copy, waited, unpaused, midPause>>
  BY <1>1 DEF ApplyStatusChange, Changed
<1>5. /\ waited' = r.totalPausedDurationMs + Open(r) /\ waited' \in 0..MaxNow /\ waited' <= now
      /\ unpaused' \in Nat \cup {Null}
  BY <1>3, <1>4 DEF ClockInv, Open
<1>6. midPause' \in BOOLEAN
  BY <1>4 DEF ClockInv
<1>7. /\ IsSet(unpaused)' <=> IsSet(r.resolutionDeadline)
      /\ IsSet(unpaused)' /\ ~midPause' =>
            r.resolutionDeadline = unpaused' + r.totalPausedDurationMs
  BY <1>3, <1>4 DEF ClockInv, IsSet, DeadlineMovesWithThePauses
<1> QED
  BY <1>3, <1>4, <1>5, <1>6, <1>7, SyncStep

LEMMA ReopenStep == ClockInv /\ ReopenTicket => ClockInv'
<1> SUFFICES ASSUME ClockInv, ReopenTicket PROVE ClockInv'
  OBVIOUS
<1> DEFINE S == "REOPENED"
<1>1. PICK r : r = [row EXCEPT
       !.status = "REOPENED", !.resolvedAt = Null, !.resolutionDeadline = Null,
       !.totalPausedDurationMs = 0]
  OBVIOUS
<1>2. row \in RowType /\ now \in Nat /\ DeadlinesOK(row) /\ S \in TicketStatus
  BY SlaClockAssumption DEF ClockInv, TicketStatus
<1>3. /\ r \in RowType /\ r.status = S /\ r.slaPausedAt = row.slaPausedAt
      /\ r.totalPausedDurationMs = 0 /\ r.resolutionDeadline = Null
      /\ r.firstRespondedAt = row.firstRespondedAt
      /\ r.firstResponseDeadline = row.firstResponseDeadline
  <2>1. S \in TicketStatus /\ Null \in Instants /\ 0 \in Nat
    BY <1>2 DEF Instants
  <2> QED
    BY <1>1, <1>2, <2>1 DEF RowType
<1>4. DeadlinesOK(r)
  BY <1>2, <1>3, Fields, InstantsOrNone DEF DeadlinesOK, IsSet
<1>5. /\ row' = SyncPauseState(r, S) /\ UNCHANGED <<now, copy>>
      /\ unpaused' = Null /\ ~midPause'
      /\ waited' = IF IsSet(row.slaPausedAt) THEN now - row.slaPausedAt ELSE 0
  BY <1>1 DEF ReopenTicket
<1>6. midPause' \in BOOLEAN
  BY DEF ReopenTicket
<1>7. waited' = r.totalPausedDurationMs + Open(r) /\ waited' \in 0..MaxNow /\ waited' <= now
  <2>1. IsSet(row.slaPausedAt) => row.slaPausedAt \in Nat /\ row.slaPausedAt <= now
    BY <1>2, Fields, InstantsOrNone DEF DeadlinesOK
  <2>2. now \in 0..MaxNow
    BY DEF ClockInv
  <2> QED
    BY <1>2, <1>3, <1>5, <2>1, <2>2, SlaClockAssumption DEF Open
<1>8. unpaused' \in Nat \cup {Null} /\ ~IsSet(unpaused)' /\ ~IsSet(r.resolutionDeadline)
  BY <1>3, <1>5 DEF IsSet
<1> QED
  BY <1>2, <1>3, <1>4, <1>5, <1>6, <1>7, <1>8, SyncStep

LEMMA ReplaceStep ==
  ASSUME ClockInv, NEW deadline \in {now + UrgentTime, now + ResolutionTime, Null},
         ReplaceDeadline(deadline)
  PROVE  ClockInv'
<1>1. /\ row \in RowType /\ now \in Nat /\ DeadlinesOK(row) /\ waited <= now
      /\ waited = row.totalPausedDurationMs + Open(row) /\ waited \in Nat
  BY SlaClockAssumption DEF ClockInv
<1>2. /\ row.totalPausedDurationMs \in Nat
      /\ IsSet(row.slaPausedAt) => row.slaPausedAt \in Nat
  BY <1>1, Fields, InstantsOrNone
<1>3. row.totalPausedDurationMs <= now
  BY <1>1, <1>2 DEF Open, DeadlinesOK
<1>4. /\ deadline \in Instants
      /\ IsSet(deadline) => deadline \in Nat /\ deadline > now
  BY <1>1, SlaClockAssumption DEF Instants, IsSet
<1>5. PICK s : s = row'
  OBVIOUS
<1>6. s = [row EXCEPT !.resolutionDeadline = deadline]
  BY <1>5 DEF ReplaceDeadline
<1>7. /\ s \in RowType /\ s.status = row.status /\ s.slaPausedAt = row.slaPausedAt
      /\ s.totalPausedDurationMs = row.totalPausedDurationMs
      /\ s.resolutionDeadline = deadline
      /\ s.firstRespondedAt = row.firstRespondedAt
      /\ s.firstResponseDeadline = row.firstResponseDeadline
  BY <1>1, <1>4, <1>6 DEF RowType
<1>8. DeadlinesOK(s) /\ Open(s) = Open(row)
  BY <1>1, <1>2, <1>3, <1>4, <1>7 DEF DeadlinesOK, Open
<1>9. DeadlinesOK(row)' /\ Open(row)' = Open(row)
  BY <1>5, <1>8 DEF ReplaceDeadline, DeadlinesOK, Open, IsSet
<1>10. midPause' \in BOOLEAN
  BY DEF ReplaceDeadline, IsSet
<1>11. /\ unpaused' \in Nat \cup {Null} /\ (IsSet(unpaused)' <=> IsSet(deadline))
       /\ IsSet(unpaused)' => deadline = unpaused' + row.totalPausedDurationMs
  <2>1. CASE IsSet(deadline)
    <3>1. deadline - row.totalPausedDurationMs \in Nat
      BY <1>2, <1>3, <1>4, <1>1, <2>1
    <3>2. unpaused' = deadline - row.totalPausedDurationMs
      BY <2>1 DEF ReplaceDeadline
    <3> QED
      BY <2>1, <3>1, <3>2, <1>2, <1>4, SlaClockAssumption DEF IsSet
  <2>2. CASE ~IsSet(deadline)
    BY <2>2 DEF ReplaceDeadline, IsSet
  <2> QED
    BY <2>1, <2>2
<1>12. DeadlineMovesWithThePauses'
  BY <1>5, <1>7, <1>11 DEF DeadlineMovesWithThePauses
<1>13. UNCHANGED <<now, copy, waited>>
  BY DEF ReplaceDeadline
<1>14. /\ row' \in RowType /\ (IsSet(row.slaPausedAt)' <=> row'.status \in PAUSING_STATUSES)
       /\ waited' = row'.totalPausedDurationMs + Open(row)'
       /\ IsSet(unpaused)' <=> IsSet(row.resolutionDeadline)'
  BY <1>1, <1>5, <1>7, <1>9, <1>11, <1>13 DEF ClockInv, IsSet
<1> QED
  BY <1>9, <1>10, <1>11, <1>12, <1>13, <1>14 DEF ClockInv

LEMMA ClockInvStep == ClockInv /\ [ClockNext]_clockVars => ClockInv'
<1> SUFFICES ASSUME ClockInv, [ClockNext]_clockVars PROVE ClockInv'
  OBVIOUS
<1>1. CASE UNCHANGED clockVars
  BY <1>1 DEF clockVars, ClockInv, DeadlinesOK, Open, DeadlineMovesWithThePauses, IsSet
<1>2. CASE ClockNext
  BY <1>2, ClockTickStep, LoadStatusStep, ReopenStep, StatusStep, ReplaceStep
  DEF ClockNext
<1> QED
  BY <1>1, <1>2

LEMMA ClockInvType == ClockInv => ClockTypeOK
<1> SUFFICES ASSUME ClockInv PROVE ClockTypeOK
  OBVIOUS
<1>1. midPause \in BOOLEAN
  BY DEF ClockInv
<1>2. unpaused \in Int \cup {Null}
  BY DEF ClockInv
<1> QED
  BY <1>1, <1>2 DEF ClockInv, ClockTypeOK, RowType, Instants

LEMMA ClockInvFolds == ClockInv => PausesFoldOnce
<1> SUFFICES ASSUME ClockInv PROVE PausesFoldOnce
  OBVIOUS
<1>1. /\ waited = row.totalPausedDurationMs + Open(row) /\ waited <= now
      /\ waited \in Nat /\ now \in Nat
      /\ IsSet(row.slaPausedAt) <=> row.status \in PAUSING_STATUSES
  BY SlaClockAssumption DEF ClockInv
<1>2. ElapsedActive(row) = AtLeast(now - (row.totalPausedDurationMs + Open(row)), 0)
  BY DEF ElapsedActive, Open
<1> QED
  BY <1>1, <1>2 DEF PausesFoldOnce, AtLeast

(* What the monitor raises on one clock, the UI shows on it.               *)
LEMMA Raises ==
  ASSUME ClockInv, NEW deadline \in Instants, NEW stoppedAt \in Instants,
         IsSet(deadline) /\ ~IsSet(stoppedAt) => deadline > row.totalPausedDurationMs
  PROVE  /\ Monitor(row, deadline, stoppedAt) = "breach"
              => Classify(row, deadline, stoppedAt) = "breached"
         /\ Monitor(row, deadline, stoppedAt) = "warning"
              => Classify(row, deadline, stoppedAt) \in {"warning", "breached"}
<1> DEFINE total == row.totalPausedDurationMs
<1>1. row \in RowType /\ now \in Nat /\ total \in Nat /\ total <= now
  <2>1. row \in RowType /\ now \in Nat /\ waited = total + Open(row) /\ waited <= now
        /\ DeadlinesOK(row)
    BY SlaClockAssumption DEF ClockInv
  <2>2. total \in Nat /\ Open(row) \in Nat
    BY <2>1, Fields, InstantsOrNone DEF Open, DeadlinesOK
  <2> QED
    BY <2>1, <2>2
<1>2. CASE ~IsSet(deadline) \/ IsSet(stoppedAt) \/ ~Watched(row)
  BY <1>2 DEF Monitor
<1>3. CASE IsSet(deadline) /\ ~IsSet(stoppedAt) /\ Watched(row)
  <2>1. Monitor(row, deadline, stoppedAt) =
          IF now > deadline THEN "breach"
          ELSE IF WithinWarningThreshold(row, deadline) THEN "warning" ELSE "nothing"
    BY <1>3 DEF Monitor
  <2>2. deadline \in Nat /\ deadline > total /\ ~IsSet(row.slaPausedAt)
    BY <1>3, InstantsOrNone DEF Watched
  <2>3. AtLeast(now - total, 0) = now - total /\ ActiveWindow(row, deadline) = deadline - total
        /\ AtLeast(deadline, 1) = deadline
    BY <1>1, <2>2 DEF AtLeast, ActiveWindow
  <2>4. Classify(row, deadline, stoppedAt) =
          IF now - total >= deadline - total THEN "breached"
          ELSE IF (now - total) * 5 >= (deadline - total) * 4 THEN "warning" ELSE "running"
    BY <1>3, <2>2, <2>3 DEF Classify
  <2>5. WithinWarningThreshold(row, deadline) <=> (now - total) * 5 >= deadline * 4
    BY <2>3 DEF WithinWarningThreshold
  <2> HIDE DEF total
  <2> QED
    BY <1>1, <2>1, <2>2, <2>4, <2>5
<1> QED
  BY <1>2, <1>3

LEMMA ClockInvShows == ClockInv => UiShowsWhatTheMonitorRaises
<1> SUFFICES ASSUME ClockInv PROVE UiShowsWhatTheMonitorRaises
  OBVIOUS
<1>1. row \in RowType /\ DeadlinesOK(row)
  BY DEF ClockInv
<1> QED
  BY <1>1, Fields, Raises
  DEF DeadlinesOK, UiShowsWhatTheMonitorRaises, DescribeResponse, DescribeResolution

(* A verdict that has been given depends on the answer and its deadline.   *)
ClockVerdict(deadline, answeredAt) ==
  IF deadline = Null THEN "none" ELSE IF deadline >= answeredAt THEN "met" ELSE "breached"

LEMMA JudgedOnceStep ==
  ClockInv /\ ClockInv' /\ [ClockNext]_clockVars
    /\ IsSet(row.firstRespondedAt) /\ row'.firstRespondedAt = row.firstRespondedAt
    => DescribeResponse(row)' = DescribeResponse(row)
<1> SUFFICES ASSUME ClockInv, ClockInv', [ClockNext]_clockVars, IsSet(row.firstRespondedAt),
                    row'.firstRespondedAt = row.firstRespondedAt
             PROVE  DescribeResponse(row)' = DescribeResponse(row)
  OBVIOUS
<1>1. row \in RowType /\ row' \in RowType /\ now \in Nat /\ DeadlinesOK(row)
  BY SlaClockAssumption DEF ClockInv
<1>2. row'.firstResponseDeadline = row.firstResponseDeadline
  <2>1. CASE \E to \in TicketStatus : ApplyStatusChange(to)
    <3>1. PICK to \in TicketStatus : ApplyStatusChange(to)
      BY <2>1
    <3>2. PICK r : r = Changed(to)
      OBVIOUS
    <3>3. /\ r \in RowType /\ DeadlinesOK(r) /\ r.firstResponseDeadline = row.firstResponseDeadline
          /\ r.firstRespondedAt \in {now, row.firstRespondedAt}
      BY <1>1, <3>2, ChangedRow
    <3>4. row' = SyncPauseState(r, to)
      BY <3>1, <3>2 DEF ApplyStatusChange, Changed
    <3>5. IsSet(r.firstRespondedAt)
      BY <1>1, <3>3, InstantsOrNone DEF IsSet, Instants
    <3>6. PICK s : s = SyncPauseState(r, to)
      OBVIOUS
    <3>7. s.firstResponseDeadline = r.firstResponseDeadline
      BY <1>1, <3>3, <3>5, <3>6, Syncing
    <3> QED
      BY <3>3, <3>4, <3>6, <3>7
  <2>2. CASE ReopenTicket
    <3>1. PICK r : r = [row EXCEPT
       !.status = "REOPENED", !.resolvedAt = Null, !.resolutionDeadline = Null,
       !.totalPausedDurationMs = 0]
      OBVIOUS
    <3>2. "REOPENED" \in TicketStatus /\ Null \in Instants /\ 0 \in Nat
      BY DEF Instants, TicketStatus
    <3>3. /\ r \in RowType /\ r.slaPausedAt = row.slaPausedAt
          /\ r.totalPausedDurationMs = 0 /\ r.resolutionDeadline = Null
          /\ r.firstRespondedAt = row.firstRespondedAt
          /\ r.firstResponseDeadline = row.firstResponseDeadline
      BY <1>1, <3>1, <3>2 DEF RowType
    <3>4. DeadlinesOK(r)
      BY <1>1, <3>3, Fields, InstantsOrNone DEF DeadlinesOK, IsSet
    <3>5. PICK s : s = SyncPauseState(r, "REOPENED")
      OBVIOUS
    <3>6. s.firstResponseDeadline = r.firstResponseDeadline
      BY <1>1, <3>3, <3>4, <3>5, Syncing
    <3>7. row' = s
      BY <2>2, <3>1, <3>5 DEF ReopenTicket
    <3> QED
      BY <3>3, <3>6, <3>7
  <2>3. CASE \E d \in {now + UrgentTime, now + ResolutionTime, Null} : ReplaceDeadline(d)
    <3>1. PICK d \in {now + UrgentTime, now + ResolutionTime, Null} : ReplaceDeadline(d)
      BY <2>3
    <3> QED
      BY <1>1, <3>1 DEF ReplaceDeadline, RowType
  <2>4. CASE ClockTicks \/ LoadStatus \/ UNCHANGED clockVars
    BY <2>4 DEF ClockTicks, LoadStatus, clockVars
  <2> QED
    BY <2>1, <2>2, <2>3, <2>4 DEF ClockNext
<1>3. DescribeResponse(row) = ClockVerdict(row.firstResponseDeadline, row.firstRespondedAt)
  BY DEF DescribeResponse, Classify, ClockVerdict, IsSet
<1>4. DescribeResponse(row)' = ClockVerdict(row'.firstResponseDeadline, row'.firstRespondedAt)
  BY DEF DescribeResponse, Classify, ClockVerdict, IsSet
<1> QED
  BY <1>2, <1>3, <1>4

LEMMA ClockHoldsAlways == ClockInit /\ [][ClockNext]_clockVars => ClocksAreRight
<1>1. ClockInv => PausesFoldOnce /\ DeadlineMovesWithThePauses
  BY ClockInvFolds DEF ClockInv
<1>2. ClockInv /\ ClockInv' /\ [ClockNext]_clockVars =>
        [IsSet(row.firstRespondedAt) /\ row'.firstRespondedAt = row.firstRespondedAt
           => DescribeResponse(row)' = DescribeResponse(row)]_clockVars
  BY JudgedOnceStep
<1> QED
  BY <1>1, <1>2, ClockInvInit, ClockInvStep, ClockInvShows, PTL DEF ClocksAreRight,
     AnswerIsJudgedOnce
-----------------------------------------------------------------------------
(* Rules.                                                                  *)

RulesInv == RulesTypeOK /\ \A i, j \in Defaults : i = j

LEMMA RowFields ==
  ASSUME RulesTypeOK, NEW i \in Present
  PROVE  /\ i \in Nat /\ rules[i] \in Rows /\ rules[i].criteria \subseteq Criteria
         /\ rules[i].order \in Int /\ rules[i].isActive \in BOOLEAN
         /\ rules[i].isDefault \in BOOLEAN
<1>1. i \in RuleIds /\ rules[i] \in Rows
  BY DEF RulesTypeOK, Present
<1>2. i \in Nat /\ rules[i].criteria \subseteq Criteria /\ rules[i].order \in Int
  BY <1>1, RulesAssumption DEF Rows
<1>3. rules[i].isActive \in BOOLEAN /\ rules[i].isDefault \in BOOLEAN
  BY <1>1 DEF Rows
<1> QED
  BY <1>1, <1>2, <1>3

LEMMA ScoreType == \A rule : SpecificityScore(rule) \in Nat
<1>1. \A rule, c : c \in Criteria => Weight(rule, c) \in Nat
  BY DEF Weight, SPECIFICITY_WEIGHTS, Criteria
<1> QED
  BY <1>1 DEF SpecificityScore, Criteria

(* The comparator, criterion by criterion.                                 *)
LEMMA Comparator ==
  ASSUME NEW i, NEW j
  PROVE  Precedes(i, j) <=>
           LET s == SpecificityScore(rules[i])
               t == SpecificityScore(rules[j])
           IN  \/ s > t
               \/ s = t /\ rules[i].order > rules[j].order
               \/ s = t /\ rules[i].order = rules[j].order /\ -i > -j
<1> DEFINE a == SpecificityScore(rules[i])
           b == rules[i].order
           c == SpecificityScore(rules[j])
           d == rules[j].order
<1>1. Precedes(i, j) <=>
        \E k \in 1..3 : /\ <<a, b, -i>>[k] > <<c, d, -j>>[k]
                        /\ \A m \in 1..k - 1 : <<a, b, -i>>[m] = <<c, d, -j>>[m]
  BY DEF Precedes
<1> HIDE DEF a, b, c, d
<1>2. (\E k \in 1..3 : /\ <<a, b, -i>>[k] > <<c, d, -j>>[k]
                       /\ \A m \in 1..k - 1 : <<a, b, -i>>[m] = <<c, d, -j>>[m])
      <=> a > c \/ (a = c /\ b > d) \/ (a = c /\ b = d /\ -i > -j)
  OBVIOUS
<1> QED
  BY <1>1, <1>2 DEF a, b, c, d

LEMMA StrictOrder ==
  ASSUME RulesTypeOK
  PROVE  /\ \A i \in Present : ~Precedes(i, i)
         /\ \A i, j \in Present : i # j => Precedes(i, j) \/ Precedes(j, i)
         /\ \A i, j, k \in Present : Precedes(i, j) /\ Precedes(j, k) => Precedes(i, k)
<1>1. \A i \in Present : i \in Nat /\ rules[i].order \in Int
  BY RowFields
<1> QED
  BY <1>1, ScoreType, Comparator

(* Of finitely many rows one comes before all the others.                  *)
LEMMA FirstOf ==
  ASSUME RulesTypeOK, NEW M \in SUBSET Present, M # {}
  PROVE  \E i \in M : \A j \in M \ {i} : Precedes(i, j)
<1> DEFINE Before(i) == {j \in M : Precedes(j, i)}
           T == {Before(i) : i \in M}
<1>1. IsFiniteSet(M)
  BY RulesAssumption, FS_Subset DEF Present
<1>2. IsWellFoundedOn(StrictSubsetOrdering(M), FiniteSubsetsOf(M))
  BY FS_StrictSubsetOrderingWellFounded
<1>3. T \subseteq FiniteSubsetsOf(M) /\ T # {}
  <2>1. \A i \in M : IsFiniteSet(Before(i))
    BY <1>1, FS_Subset
  <2> QED
    BY <2>1 DEF FiniteSubsetsOf
<1>4. PICK D \in T : \A E \in T : ~(<<E, D>> \in StrictSubsetOrdering(M))
  <2> HIDE DEF T
  <2> QED
    BY <1>2, <1>3, WFMin
<1>5. PICK i \in M : D = Before(i)
  BY <1>4
<1>6. ASSUME NEW j \in M \ {i}, Precedes(j, i) PROVE FALSE
  <2>1. Before(j) \subseteq Before(i) /\ j \in Before(i) /\ j \notin Before(j)
    BY <1>6, StrictOrder
  <2>2. <<Before(j), Before(i)>> \in StrictSubsetOrdering(M)
    BY <2>1 DEF StrictSubsetOrdering
  <2> QED
    BY <1>4, <1>5, <2>2
<1> QED
  BY <1>6, StrictOrder

RowsMatching(ids, ticket) == {i \in ids : rules[i].criteria \subseteq ticket}

LEMMA MostSpecificIsOne ==
  ASSUME RulesTypeOK, NEW ids \in SUBSET Present, NEW ticket
  PROVE  /\ MostSpecific(ids, ticket) \subseteq RowsMatching(ids, ticket)
         /\ RowsMatching(ids, ticket) # {} =>
              \E i \in RowsMatching(ids, ticket) :
                /\ MostSpecific(ids, ticket) = {i}
                /\ \A j \in RowsMatching(ids, ticket) \ {i} : Precedes(i, j)
<1> DEFINE M == RowsMatching(ids, ticket)
<1>1. MostSpecific(ids, ticket) = {i \in M : \A j \in M \ {i} : ~Precedes(j, i)}
  BY DEF MostSpecific, CriteriaMatch, RowsMatching
<1>2. M \in SUBSET Present
  BY DEF RowsMatching
<1> HIDE DEF M
<1>3. ASSUME M # {}
      PROVE  \E i \in M : MostSpecific(ids, ticket) = {i} /\ \A j \in M \ {i} : Precedes(i, j)
  <2>1. PICK i \in M : \A j \in M \ {i} : Precedes(i, j)
    BY <1>2, <1>3, FirstOf
  <2>2. \A j \in M \ {i} : ~Precedes(j, i)
    BY <1>2, <2>1, StrictOrder
  <2> QED
    BY <1>1, <2>1, <2>2
<1> QED
  BY <1>1, <1>3 DEF M

(* The weights order the criteria as the documentation does.               *)
LEMMA ScoresAreTiers ==
  ASSUME NEW a, NEW b, MoreSpecific(a, b)
  PROVE  SpecificityScore(a) > SpecificityScore(b)
<1> DEFINE In(rule, c) == c \in rule.criteria
<1>1. PICK k \in 1..4 : /\ Tier[k] \in a.criteria \ b.criteria
                        /\ \A m \in 1..k - 1 : Tier[m] \in a.criteria <=> Tier[m] \in b.criteria
  BY DEF MoreSpecific
<1>2. /\ Tier[1] = "ticketType" /\ Tier[2] = "category" /\ Tier[3] = "priority"
      /\ Tier[4] = "departmentId"
  BY DEF Tier
<1>3. \A rule : SpecificityScore(rule) =
        (IF "ticketType" \in rule.criteria THEN 8 ELSE 0) +
        (IF "category" \in rule.criteria THEN 4 ELSE 0) +
        (IF "priority" \in rule.criteria THEN 2 ELSE 0) +
        (IF "departmentId" \in rule.criteria THEN 1 ELSE 0)
  BY DEF SpecificityScore, Weight, SPECIFICITY_WEIGHTS, Criteria
<1>4. k = 1 \/ k = 2 \/ k = 3 \/ k = 4
  OBVIOUS
<1> QED
  BY <1>1, <1>2, <1>3, <1>4

LEMMA Determined == RulesInv => ResolutionIsDetermined
<1> SUFFICES ASSUME RulesInv, NEW ticket \in Tickets
             PROVE  LET matching == RowsMatching(ActiveRules, ticket)
                    IN  /\ Cardinality(Resolve(ticket)) = IF matching = {} THEN 0 ELSE 1
                        /\ \A i \in Resolve(ticket), j \in matching :
                             i \in matching /\ ~MoreSpecific(rules[j], rules[i])
  BY DEF ResolutionIsDetermined, RowsMatching
<1> DEFINE M == RowsMatching(ActiveRules, ticket)
<1>1. ActiveRules \in SUBSET Present /\ RulesTypeOK
  BY DEF ActiveRules, RulesInv
<1>2. Resolve(ticket) \subseteq M
  BY <1>1, MostSpecificIsOne DEF Resolve
<1>3. CASE M = {}
  BY <1>2, <1>3, FS_EmptySet
<1>4. CASE M # {}
  <2>1. PICK i \in M : Resolve(ticket) = {i} /\ \A j \in M \ {i} : Precedes(i, j)
    BY <1>1, <1>4, MostSpecificIsOne DEF Resolve
  <2>2. Cardinality(Resolve(ticket)) = 1
    BY <2>1, FS_Singleton
  <2>3. \A j \in M : ~MoreSpecific(rules[j], rules[i])
    <3>1. SUFFICES ASSUME NEW j \in M, MoreSpecific(rules[j], rules[i]) PROVE FALSE
      OBVIOUS
    <3>2. SpecificityScore(rules[j]) > SpecificityScore(rules[i])
      BY <3>1, ScoresAreTiers
    <3>3. j # i
      BY <3>2, ScoreType
    <3>4. Precedes(i, j)
      BY <2>1, <3>3
    <3> HIDE DEF M
    <3> QED
      BY <3>2, <3>4, ScoreType, Comparator
  <2> QED
    BY <1>4, <2>1, <2>2, <2>3
<1> QED
  BY <1>3, <1>4

LEMMA Fallback == RulesInv => DefaultIsTheFallback
<1> SUFFICES ASSUME RulesInv, NEW ticket \in Tickets, NEW d \in Defaults
             PROVE  d \in ResolvePolicy(ticket) <=>
                      rules[d].isActive /\ RowsMatching(ActiveRules \ {d}, ticket) = {}
  BY DEF DefaultIsTheFallback, RowsMatching
<1>1. Defaults = {d} /\ RulesTypeOK
  BY DEF RulesInv
<1>2. ActiveRules \ {d} \in SUBSET Present
  BY DEF ActiveRules
<1> DEFINE exact == MostSpecific(ActiveRules \ {d}, ticket)
<1>3. exact # {} <=> RowsMatching(ActiveRules \ {d}, ticket) # {}
  BY <1>1, <1>2, MostSpecificIsOne
<1>4. d \notin exact
  BY <1>1, <1>2, MostSpecificIsOne DEF RowsMatching
<1>5. ResolvePolicy(ticket) = IF exact # {} THEN exact ELSE ActiveRules \cap {d}
  BY <1>1 DEF ResolvePolicy
<1>6. d \in ActiveRules <=> rules[d].isActive
  BY DEF ActiveRules, Defaults
<1> HIDE DEF exact
<1> QED
  BY <1>3, <1>4, <1>5, <1>6

LEMMA RulesInvInit == RulesInit => RulesInv
<1> SUFFICES ASSUME RulesInit PROVE RulesInv
  OBVIOUS
<1> QED
  BY DEF RulesInit, RulesInv, RulesTypeOK, Defaults, Present

(* An edit of one statement.                                               *)
LEMMA EditStep ==
  ASSUME RulesInv, NEW i \in RuleIds, NEW rule \in Rows,
         rules' = [rules EXCEPT ![i] = rule], UNCHANGED editor,
         rule.isDefault => i \in Defaults
  PROVE  RulesInv' /\ Defaults' \subseteq Defaults
<1>1. RulesTypeOK'
  BY DEF RulesInv, RulesTypeOK, Idle
<1>2. Defaults' \subseteq Defaults
  <2>1. SUFFICES ASSUME NEW j \in Defaults' PROVE j \in Defaults
    OBVIOUS
  <2>2. j \in RuleIds /\ rules'[j] # NoRule /\ rules'[j].isDefault
    BY DEF Defaults, Present
  <2>3. CASE j = i
    BY <2>2, <2>3 DEF RulesInv, RulesTypeOK
  <2>4. CASE j # i
    BY <2>2, <2>4 DEF RulesInv, RulesTypeOK, Defaults, Present
  <2> QED
    BY <2>3, <2>4
<1> QED
  BY <1>1, <1>2 DEF RulesInv

LEMMA CreateStep ==
  ASSUME RulesInv, NEW i \in RuleIds, NEW rule \in Rows, CreateRule(i, rule)
  PROVE  RulesInv' /\ Defaults \subseteq Defaults'
<1>1. RulesInv'
  BY EditStep DEF CreateRule
<1>2. \A j \in RuleIds : j # i => rules'[j] = rules[j]
  BY DEF CreateRule, RulesInv, RulesTypeOK
<1>3. i \notin Present
  BY DEF CreateRule
<1> QED
  BY <1>1, <1>2, <1>3 DEF Defaults, Present

LEMMA UpdateStep ==
  ASSUME RulesInv, NEW i \in RuleIds, NEW rule \in Rows, UpdateRule(i, rule)
  PROVE  RulesInv' /\ (Defaults # {} /\ Defaults' = {} => Defaults = {i})
<1>1. RulesInv'
  BY EditStep DEF UpdateRule, Defaults
<1>2. \A j \in RuleIds : j # i => rules'[j] = rules[j]
  BY DEF UpdateRule, RulesInv, RulesTypeOK
<1>3. \A j \in Defaults : j # i => j \in Defaults'
  BY <1>2 DEF Defaults, Present
<1> QED
  BY <1>1, <1>3 DEF RulesInv

LEMMA ClearStep ==
  ASSUME RulesInv, NEW e \in Editors, NEW i \in RuleIds, ClearIncumbent(e, i)
  PROVE  RulesInv' /\ Defaults' = Defaults
<1>1. UNCHANGED rules /\ Defaults \in SUBSET RuleIds
  BY DEF ClearIncumbent, Defaults, Present
<1>2. \A f \in Editors : \/ editor'[f] = Idle
                         \/ editor'[f] \in [target : RuleIds, seen : SUBSET RuleIds]
  BY <1>1 DEF ClearIncumbent, RulesInv, RulesTypeOK, Idle
<1> QED
  BY <1>1, <1>2 DEF RulesInv, RulesTypeOK, Defaults, Present, Idle

LEMMA FailStep ==
  ASSUME RulesInv, NEW e \in Editors, SetDefaultFails(e)
  PROVE  RulesInv' /\ Defaults' = Defaults
<1>1. UNCHANGED rules
  BY DEF SetDefaultFails
<1>2. \A f \in Editors : editor'[f] = Idle \/ editor'[f] = editor[f]
  BY DEF SetDefaultFails, RulesInv, RulesTypeOK
<1> QED
  BY <1>1, <1>2 DEF RulesInv, RulesTypeOK, Defaults, Present, Idle

LEMMA SetStep ==
  ASSUME RulesInv, NEW e \in Editors, NEW rule \in Rows, SetDefault(e, rule)
  PROVE  RulesInv' /\ (Defaults # {} => Defaults' # {})
<1>1. /\ editor[e] # Idle /\ rule.isDefault
      /\ rules' = IF FitsIndex(e) THEN [DefaultsCleared(e) EXCEPT ![editor[e].target] = rule]
                  ELSE rules
      /\ editor' = [editor EXCEPT ![e] = Idle]
  BY DEF SetDefault
<1>2. editor[e] \in [target : RuleIds, seen : SUBSET RuleIds]
  BY <1>1 DEF RulesInv, RulesTypeOK
<1>3. PICK i \in RuleIds, seen \in SUBSET RuleIds : i = editor[e].target /\ seen = editor[e].seen
  BY <1>2
<1>4. \A f \in Editors : \/ editor'[f] = Idle
                         \/ editor'[f] \in [target : RuleIds, seen : SUBSET RuleIds]
  BY <1>1 DEF RulesInv, RulesTypeOK, Idle
<1>5. CASE ~FitsIndex(e)
  BY <1>1, <1>4, <1>5 DEF RulesInv, RulesTypeOK, Defaults, Present, Idle
<1>6. CASE FitsIndex(e)
  <2>1. \A j \in RuleIds : rules'[j] =
          IF j = i THEN rule
          ELSE IF j \in seen \cap Defaults THEN [rules[j] EXCEPT !.isDefault = FALSE] ELSE rules[j]
    BY <1>1, <1>3, <1>6 DEF DefaultsCleared
  <2>2. DOMAIN rules' = RuleIds /\ rules' = [j \in RuleIds |-> rules'[j]]
    BY <1>1, <1>3, <1>6 DEF DefaultsCleared
  <2>3. \A j \in Defaults : rules[j] \in Rows
    BY RowFields DEF RulesInv, Defaults
  <2>4. \A r \in Rows : [r EXCEPT !.isDefault = FALSE] \in Rows
                        /\ ~[r EXCEPT !.isDefault = FALSE].isDefault
    BY DEF Rows
  <2>5. \A j \in RuleIds : rules'[j] \in Rows \cup {NoRule}
    BY <2>1, <2>3, <2>4 DEF RulesInv, RulesTypeOK
  <2>6. RulesTypeOK'
    BY <1>4, <2>2, <2>5 DEF RulesTypeOK, Idle
  <2>7. Defaults \subseteq seen \cup {i}
    BY <1>3, <1>6 DEF FitsIndex
  <2>8. \A j \in RuleIds : j # i => j \notin Defaults'
    <3>1. SUFFICES ASSUME NEW j \in RuleIds, j # i, j \in Defaults' PROVE FALSE
      OBVIOUS
    <3>2. rules'[j] # NoRule /\ rules'[j].isDefault
      BY <3>1 DEF Defaults, Present
    <3>3. CASE j \in Defaults
      BY <2>1, <2>3, <2>4, <2>7, <3>1, <3>2, <3>3
    <3>4. CASE j \notin Defaults
      BY <2>1, <3>1, <3>2, <3>4 DEF Defaults, Present
    <3> QED
      BY <3>3, <3>4
  <2>9. Defaults' \subseteq RuleIds
    BY DEF Defaults, Present
  <2>10. rules'[i] = rule
    BY <2>1
  <2>11. NoRule \notin Rows => i \in Defaults'
    BY <1>1, <2>10 DEF Defaults, Present
  <2> QED
    BY <2>6, <2>8, <2>9, <2>11, RulesAssumption DEF RulesInv
<1> QED
  BY <1>5, <1>6

LEMMA RulesInvStep == RulesInv /\ [RulesNext]_rulesVars => RulesInv'
<1> SUFFICES ASSUME RulesInv, [RulesNext]_rulesVars PROVE RulesInv'
  OBVIOUS
<1>1. CASE UNCHANGED rulesVars
  BY <1>1 DEF rulesVars, RulesInv, RulesTypeOK, Defaults, Present, Idle
<1>2. CASE RulesNext
  BY <1>2, CreateStep, UpdateStep, ClearStep, FailStep, SetStep DEF RulesNext
<1> QED
  BY <1>1, <1>2

LEMMA DefaultStays ==
  RulesInv /\ [RulesNext]_rulesVars /\ Defaults # {} /\ Defaults' = {} =>
    \A i \in Defaults : \E rule \in Rows : UpdateRule(i, rule)
<1> SUFFICES ASSUME RulesInv, [RulesNext]_rulesVars, Defaults # {}, Defaults' = {}
             PROVE  \A i \in Defaults : \E rule \in Rows : UpdateRule(i, rule)
  OBVIOUS
<1>1. CASE UNCHANGED rulesVars
  BY <1>1 DEF rulesVars, Defaults, Present
<1>2. CASE \E i \in RuleIds, rule \in Rows : UpdateRule(i, rule)
  <2>1. PICK i \in RuleIds, rule \in Rows : UpdateRule(i, rule)
    BY <1>2
  <2> QED
    BY <2>1, UpdateStep
<1>3. CASE \E i \in RuleIds, rule \in Rows : CreateRule(i, rule)
  BY <1>3, CreateStep
<1>4. CASE RulesNext /\ ~(\E i \in RuleIds, rule \in Rows : CreateRule(i, rule) \/ UpdateRule(i, rule))
  BY <1>4, ClearStep, FailStep, SetStep DEF RulesNext
<1> QED
  BY <1>1, <1>2, <1>3, <1>4

(* Whether a rule comes out depends on the active rows that match.         *)
LEMMA LocalStep ==
  ASSUME NEW ticket, rules' # rules,
         RulesTypeOK, RulesTypeOK',
         \A i \in RuleIds : rules[i] # rules'[i] =>
            /\ rules[i] = NoRule \/ ~(rules[i].criteria \subseteq ticket)
            /\ rules'[i] = NoRule \/ ~(rules'[i].criteria \subseteq ticket)
  PROVE  Resolve(ticket)' = Resolve(ticket)
<1> DEFINE M == {i \in ActiveRules : CriteriaMatch(rules[i], ticket)}
<1>1. \A i \in RuleIds : i \in M => rules'[i] = rules[i]
  BY DEF ActiveRules, Present, CriteriaMatch
<1>2. \A i \in RuleIds : i \in M' => rules'[i] = rules[i]
  BY DEF ActiveRules, Present, CriteriaMatch
<1>3. M \subseteq RuleIds /\ M' \subseteq RuleIds
  BY DEF ActiveRules, Present
<1>4. M' = M
  BY <1>1, <1>2, <1>3 DEF ActiveRules, Present, CriteriaMatch
<1>5. \A i, j \in M : Precedes(i, j)' <=> Precedes(i, j)
  BY <1>1, <1>3 DEF Precedes
<1>6. /\ Resolve(ticket) = {i \in M : \A j \in M \ {i} : ~Precedes(j, i)}
      /\ Resolve(ticket)' = {i \in M' : \A j \in M' \ {i} : ~Precedes(j, i)'}
  BY DEF Resolve, MostSpecific
<1> HIDE DEF M
<1> QED
  BY <1>4, <1>5, <1>6

LEMMA RulesHoldAlways == RulesInit /\ [][RulesNext]_rulesVars => AnswerIsDetermined
<1>1. RulesInv /\ RulesInv' /\ [RulesNext]_rulesVars =>
        [rules' # rules => \A ticket \in Tickets :
           (\A i \in RuleIds : rules[i] # rules'[i] =>
              /\ rules[i] = NoRule \/ ~(rules[i].criteria \subseteq ticket)
              /\ rules'[i] = NoRule \/ ~(rules'[i].criteria \subseteq ticket))
           => Resolve(ticket)' = Resolve(ticket)]_rulesVars
  BY LocalStep DEF RulesInv
<1>2. RulesInv /\ [RulesNext]_rulesVars =>
        [Defaults # {} /\ Defaults' = {} =>
           \A i \in Defaults : \E rule \in Rows : UpdateRule(i, rule)]_rulesVars
  BY DefaultStays
<1> QED
  BY <1>1, <1>2, RulesInvInit, RulesInvStep, Determined, Fallback, PTL
  DEF AnswerIsDetermined, EditsAreLocal, DefaultIsNotLost
-----------------------------------------------------------------------------
(* Staffing.                                                               *)

CodeOrNone == {Code, OtherCode, Nobody}
EmployeeType == [user : Hires, code : Nat \ {0}, department : CodeOrNone]
DepartmentType == [org : Orgs, code : {Code, OtherCode}, name : {Name, OtherName}]
HiringType == [user : Hires \cup {Nobody}, step : {"idle", "counted", "missing", "resolved"},
               number : Nat, department : CodeOrNone]

(* A number was the next one when it was counted, and still is unless      *)
(* somebody interfered.                                                    *)
CountOf(o) == Cardinality(OfOrg(o))
HireOK(r) ==
  \A u \in Hires : hire[r].user = u =>
    /\ hire[r].number \in 1..CountOf(u[1]) + 1
    /\ ~disturbed[r] => hire[r].number = CountOf(u[1]) + 1 /\ u \notin Employed
StaffInv ==
  /\ StaffTypeOK /\ IsFiniteSet(employees) /\ CodesAreSequential
  /\ \A r \in Requests : HireOK(r) /\ (hire[r].step # "idle" <=> hire[r].user \in Hires)

LEMMA StaffFacts ==
  ASSUME StaffTypeOK
  PROVE  /\ employees \subseteq EmployeeType /\ departments \subseteq DepartmentType
         /\ hire \in [Requests -> HiringType] /\ disturbed \in [Requests -> BOOLEAN]
BY DEF StaffTypeOK, EmployeeType, DepartmentType, HiringType, CodeOrNone

LEMMA StaffFactsBack ==
  ASSUME employees' \subseteq EmployeeType, departments' \subseteq DepartmentType,
         hire' \in [Requests -> HiringType], disturbed' \in [Requests -> BOOLEAN]
  PROVE  StaffTypeOK'
BY DEF StaffTypeOK, EmployeeType, DepartmentType, HiringType, CodeOrNone

LEMMA StaffFields ==
  /\ \A e \in EmployeeType : /\ e.user \in Hires /\ e.user[1] \in Orgs /\ e.code \in Nat \ {0}
  /\ \A d \in DepartmentType : d.org \in Orgs /\ d.code \in {Code, OtherCode} /\ d.name \in {Name, OtherName}
  /\ \A h \in HiringType : h.number \in Nat /\ h.department \in CodeOrNone
                           /\ h.user \in Hires \cup {Nobody}
  /\ \A u \in Hires, n \in Nat \ {0}, d \in CodeOrNone :
        /\ Employee(u, n, d) \in EmployeeType
        /\ Employee(u, n, d).user = u /\ Employee(u, n, d).code = n
  /\ \A o \in Orgs, code \in {Code, OtherCode}, name \in {Name, OtherName} :
        Department(o, code, name) \in DepartmentType
BY StaffingAssumption DEF EmployeeType, DepartmentType, HiringType, Employee, Department

LEMMA HiringFields ==
  ASSUME NEW u \in Hires \cup {Nobody},
         NEW step \in {"idle", "counted", "missing", "resolved"},
         NEW n \in Nat, NEW d \in CodeOrNone
  PROVE  /\ Hiring(u, step, n, d) \in HiringType
         /\ Hiring(u, step, n, d).user = u /\ Hiring(u, step, n, d).step = step
         /\ Hiring(u, step, n, d).number = n /\ Hiring(u, step, n, d).department = d
BY DEF Hiring, HiringType

LEMMA Counts ==
  ASSUME IsFiniteSet(employees), NEW o
  PROVE  IsFiniteSet(OfOrg(o)) /\ CountOf(o) \in Nat
<1>1. OfOrg(o) \subseteq employees
  BY DEF OfOrg
<1> QED
  BY <1>1, FS_Subset, FS_CardinalityType DEF CountOf

LEMMA Disturbing ==
  ASSUME NEW except, disturbed \in [Requests -> BOOLEAN], Disturb(except)
  PROVE  /\ disturbed' \in [Requests -> BOOLEAN]
         /\ \A r \in Requests : ~disturbed'[r] => ~disturbed[r] /\ (r = except \/ hire[r].step = "idle")
<1>1. disturbed' = [r \in Requests |-> IF r = except THEN disturbed[r]
                                        ELSE disturbed[r] \/ hire[r].step # "idle"]
  BY DEF Disturb
<1>2. \A r \in Requests : (disturbed[r] \/ hire[r].step # "idle") \in BOOLEAN
  OBVIOUS
<1>3. disturbed' \in [Requests -> BOOLEAN]
  BY <1>1, <1>2, Zenon
<1>4. \A r \in Requests : r # except => disturbed'[r] = (disturbed[r] \/ hire[r].step # "idle")
  BY <1>1, Zenon
<1>5. \A r \in Requests : r = except => disturbed'[r] = disturbed[r]
  BY <1>1, Zenon
<1>6. \A r \in Requests : ~disturbed'[r] => ~disturbed[r] /\ (r = except \/ hire[r].step = "idle")
  BY <1>4, <1>5
<1> QED
  BY <1>3, <1>6

LEMMA StaffInvInit == StaffInit => StaffInv
<1> SUFFICES ASSUME StaffInit PROVE StaffInv
  OBVIOUS
<1>1. \A o : OfOrg(o) = {}
  BY DEF StaffInit, OfOrg
<1>2. IsFiniteSet(employees) /\ CodesAreSequential
  BY <1>1, FS_EmptySet DEF StaffInit, CodesAreSequential
<1>3. Waiting \in HiringType /\ Waiting.step = "idle" /\ Waiting.user = Nobody /\ Waiting.number = 0
  BY HiringFields DEF Waiting, CodeOrNone
<1>4. StaffTypeOK
  BY <1>3 DEF StaffInit, StaffTypeOK, HiringType, CodeOrNone
<1> QED
  BY <1>2, <1>3, <1>4, StaffingAssumption DEF StaffInv, StaffInit, HireOK

LEMMA StaffHolds ==
  ASSUME StaffInv
  PROVE  /\ StaffTypeOK /\ IsFiniteSet(employees) /\ CodesAreSequential
         /\ \A r \in Requests : HireOK(r)
         /\ \A r \in Requests : hire[r].step # "idle" <=> hire[r].user \in Hires
BY DEF StaffInv

(* A request goes to another step, or is answered.                         *)
LEMMA Stepping ==
  ASSUME StaffTypeOK, NEW r \in Requests, NEW u \in Hires,
         NEW step \in {"counted", "missing", "resolved"},
         NEW n \in Nat, NEW d \in CodeOrNone, Step(r, u, step, n, d)
  PROVE  /\ hire' \in [Requests -> HiringType] /\ hire'[r].user = u /\ hire'[r].step = step
         /\ hire'[r].number = n /\ hire'[r].department = d
         /\ \A q \in Requests : q # r => hire'[q] = hire[q]
<1>1. PICK h \in HiringType : /\ h = Hiring(u, step, n, d) /\ h.user = u /\ h.step = step
                              /\ h.number = n /\ h.department = d
  BY HiringFields
<1>2. hire' = [hire EXCEPT ![r] = h]
  BY <1>1 DEF Step
<1> QED
  BY <1>1, <1>2, StaffFacts

LEMMA Answering ==
  ASSUME StaffTypeOK, NEW r \in Requests, Answered(r)
  PROVE  /\ hire' \in [Requests -> HiringType] /\ hire'[r].step = "idle" /\ hire'[r].user \notin Hires
         /\ \A q \in Requests : q # r => hire'[q] = hire[q]
<1>1. /\ Waiting \in HiringType /\ Waiting.step = "idle" /\ Waiting.user = Nobody
      /\ Nobody \notin Hires
  BY HiringFields, StaffingAssumption DEF Waiting, CodeOrNone
<1> QED
  BY <1>1, StaffFacts DEF Answered

(* A step that hires nobody.                                               *)
LEMMA NoHire ==
  ASSUME StaffInv, NEW R \in SUBSET Requests, employees' = employees,
         departments' \subseteq DepartmentType,
         hire' \in [Requests -> HiringType], disturbed' \in [Requests -> BOOLEAN],
         \A q \in Requests \ R : /\ hire'[q] = hire[q]
                                 /\ ~disturbed'[q] =>
                                      ~disturbed[q] \/ hire[q].step = "idle",
         \A q \in R : HireOK(q)' /\ (hire'[q].step # "idle" <=> hire'[q].user \in Hires)
  PROVE  StaffInv'
<1>1. StaffTypeOK'
  BY StaffFacts, StaffHolds, StaffFactsBack
<1>2. \A o : OfOrg(o)' = OfOrg(o) /\ CountOf(o)' = CountOf(o)
  BY DEF OfOrg, CountOf
<1>3. IsFiniteSet(employees)' /\ CodesAreSequential'
  BY <1>2, StaffHolds DEF CodesAreSequential
<1>4. Employed' = Employed
  BY DEF Employed
<1>5. \A q \in Requests : HireOK(q)' /\ (hire'[q].step # "idle" <=> hire'[q].user \in Hires)
  BY <1>2, <1>4, StaffHolds DEF HireOK
<1> QED
  BY <1>1, <1>3, <1>5 DEF StaffInv

LEMMA StaffInvSteps ==
  ASSUME StaffInv, NEW r \in Requests,
         FindDepartment(r) \/ CreateDepartment(r) \/ HireFails(r)
  PROVE  StaffInv'
<1>0. /\ employees' = employees /\ employees \subseteq EmployeeType
      /\ departments \subseteq DepartmentType /\ disturbed \in [Requests -> BOOLEAN]
      /\ {r} \in SUBSET Requests /\ Nobody \in CodeOrNone /\ Code \in CodeOrNone
  BY StaffFacts, StaffHolds DEF FindDepartment, CreateDepartment, HireFails, CodeOrNone
<1>1. ASSUME NEW u \in Hires, hire[r].user = u,
             NEW step \in {"counted", "missing", "resolved"},
             NEW d \in CodeOrNone, Step(r, u, step, hire[r].number, d),
             departments' \subseteq DepartmentType, disturbed' \in [Requests -> BOOLEAN],
             \A q \in Requests : ~disturbed'[q] => ~disturbed[q] /\ (q = r \/ disturbed' = disturbed \/ hire[q].step = "idle")
      PROVE  StaffInv'
  <2>n. PICK n \in Nat : n = hire[r].number
    BY StaffFacts, StaffHolds, StaffFields
  <2>1. Step(r, u, step, n, d)
    BY <1>1, <2>n
  <2>2. /\ hire' \in [Requests -> HiringType] /\ hire'[r].user = u /\ hire'[r].step = step
        /\ hire'[r].number = n
        /\ \A q \in Requests : q # r => hire'[q] = hire[q]
    BY <2>1, StaffHolds, Stepping
  <2>3. \A o : CountOf(o)' = CountOf(o)
    BY <1>0 DEF OfOrg, CountOf
  <2>4. HireOK(r)' /\ (hire'[r].step # "idle" <=> hire'[r].user \in Hires)
    BY <1>0, <1>1, <2>2, <2>3, <2>n, StaffHolds DEF HireOK, Employed
  <2>5. \A q \in Requests \ {r} : /\ hire'[q] = hire[q]
                                  /\ ~disturbed'[q] =>
                                       ~disturbed[q] \/ hire[q].step = "idle"
    BY <1>1, <2>2
  <2> QED
    BY <1>0, <1>1, <2>2, <2>4, <2>5, NoHire
<1>2. CASE FindDepartment(r)
  <2>1. hire[r].step = "counted" /\ departments' = departments /\ disturbed' = disturbed
    BY <1>2 DEF FindDepartment
  <2>2. PICK u \in Hires : u = hire[r].user
    BY <2>1, StaffHolds
  <2>3. \E step \in {"counted", "missing", "resolved"}, d \in CodeOrNone :
          Step(r, u, step, hire[r].number, d)
    <3>1. CASE Matching(hire[r].user[1]) = {}
      BY <1>0, <1>2, <2>2, <3>1 DEF FindDepartment
    <3>2. CASE Matching(hire[r].user[1]) # {}
      <4>1. PICK d \in Matching(hire[r].user[1]) : Step(r, u, "resolved", hire[r].number, d.code)
        BY <1>2, <2>2, <3>2 DEF FindDepartment
      <4>2. d.code \in CodeOrNone
        BY <1>0, StaffFields DEF Matching, CodeOrNone
      <4> QED
        BY <4>1, <4>2
    <3> QED
      BY <3>1, <3>2
  <2> QED
    BY <1>0, <1>1, <2>1, <2>2, <2>3
<1>3. CASE CreateDepartment(r)
  <2>1. hire[r].step = "missing"
    BY <1>3 DEF CreateDepartment
  <2>2. PICK u \in Hires : u = hire[r].user /\ u[1] \in Orgs
    BY <2>1, StaffHolds, StaffingAssumption
  <2>3. Department(u[1], Code, Name) \in DepartmentType
    BY <2>2, StaffFields
  <2>4. CASE Fits(Department(u[1], Code, Name))
    <3>1. /\ departments' = departments \cup {Department(u[1], Code, Name)}
          /\ Step(r, u, "resolved", hire[r].number, Code) /\ Disturb(r)
      BY <1>3, <2>2, <2>4 DEF CreateDepartment
    <3>2. /\ disturbed' \in [Requests -> BOOLEAN]
          /\ \A q \in Requests : ~disturbed'[q] => ~disturbed[q] /\ (q = r \/ hire[q].step = "idle")
      BY <1>0, <3>1, Disturbing
    <3> QED
      BY <1>0, <1>1, <2>2, <2>3, <3>1, <3>2
  <2>5. CASE ~Fits(Department(u[1], Code, Name))
    <3>1. departments' = departments /\ disturbed' = disturbed
      BY <1>3, <2>2, <2>5 DEF CreateDepartment
    <3>2. \E d \in CodeOrNone : Step(r, u, "resolved", hire[r].number, d)
      <4>1. CASE Raced(Department(u[1], Code, Name).org) = {}
        BY <1>0, <1>3, <2>2, <2>5, <4>1 DEF CreateDepartment
      <4>2. CASE Raced(Department(u[1], Code, Name).org) # {}
        <5>1. PICK d \in Raced(Department(u[1], Code, Name).org) :
                Step(r, u, "resolved", hire[r].number, d.code)
          BY <1>3, <2>2, <2>5, <4>2 DEF CreateDepartment
        <5>2. d.code \in CodeOrNone
          BY <1>0, StaffFields DEF Raced, CodeOrNone
        <5> QED
          BY <5>1, <5>2
      <4> QED
        BY <4>1, <4>2
    <3> QED
      BY <1>0, <1>1, <2>2, <3>1, <3>2
  <2> QED
    BY <2>4, <2>5
<1>4. CASE HireFails(r)
  <2>1. Answered(r) /\ departments' = departments /\ disturbed' = disturbed
    BY <1>4 DEF HireFails
  <2>2. /\ hire' \in [Requests -> HiringType] /\ hire'[r].step = "idle" /\ hire'[r].user \notin Hires
        /\ \A q \in Requests : q # r => hire'[q] = hire[q]
    BY <2>1, StaffHolds, Answering
  <2>3. HireOK(r)' /\ (hire'[r].step # "idle" <=> hire'[r].user \in Hires)
    BY <2>2 DEF HireOK
  <2>4. \A q \in Requests \ {r} : /\ hire'[q] = hire[q]
                                  /\ ~disturbed'[q] =>
                                       ~disturbed[q] \/ hire[q].step = "idle"
    BY <2>1, <2>2
  <2> QED
    BY <1>0, <2>1, <2>2, <2>3, <2>4, NoHire
<1> QED
  BY <1>2, <1>3, <1>4

LEMMA StaffInvStart ==
  ASSUME StaffInv, NEW r \in Requests, NEW u \in Hires, StartHire(r, u)
  PROVE  StaffInv'
<1>1. /\ u \notin Employed /\ Step(r, u, "counted", NextNumber(u[1]), Nobody)
      /\ employees' = employees /\ departments' = departments
  BY DEF StartHire, MayHire
<1>2. PICK n \in Nat : n = NextNumber(u[1]) /\ n = CountOf(u[1]) + 1
  BY StaffHolds, Counts DEF NextNumber, CountOf
<1>3. Step(r, u, "counted", n, Nobody) /\ Nobody \in CodeOrNone
  BY <1>1, <1>2 DEF CodeOrNone
<1>4. /\ hire' \in [Requests -> HiringType] /\ hire'[r].user = u /\ hire'[r].step = "counted"
      /\ hire'[r].number = n
      /\ \A q \in Requests : q # r => hire'[q] = hire[q]
  BY <1>3, StaffHolds, Stepping
<1>5. /\ disturbed' \in [Requests -> BOOLEAN]
      /\ \A q \in Requests : q # r => disturbed'[q] = disturbed[q]
  <2>1. disturbed \in [Requests -> BOOLEAN] /\ (\E q \in Requests : hire[q].step # "idle") \in BOOLEAN
    BY StaffFacts, StaffHolds
  <2> QED
    BY <2>1, Zenon DEF StartHire
<1>6. CountOf(u[1])' = CountOf(u[1]) /\ Employed' = Employed /\ CountOf(u[1]) \in Nat
  BY <1>1, StaffHolds, Counts DEF OfOrg, CountOf, Employed
<1>7. HireOK(r)' /\ (hire'[r].step # "idle" <=> hire'[r].user \in Hires)
  BY <1>1, <1>2, <1>4, <1>6 DEF HireOK
<1>8. \A q \in Requests \ {r} : /\ hire'[q] = hire[q]
                                /\ ~disturbed'[q] =>
                                     ~disturbed[q] \/ hire[q].step = "idle"
  BY <1>4, <1>5
<1>9. {r} \in SUBSET Requests /\ departments' \subseteq DepartmentType
  BY <1>1, StaffFacts, StaffHolds
<1> QED
  BY <1>1, <1>4, <1>5, <1>7, <1>8, <1>9, NoHire

LEMMA StaffInvAdmin ==
  ASSUME StaffInv, employees' = employees, hire' = hire,
         departments' \subseteq DepartmentType,
         Disturb(Nobody) \/ disturbed' = disturbed
  PROVE  StaffInv'
<1>1. /\ hire \in [Requests -> HiringType] /\ disturbed \in [Requests -> BOOLEAN]
      
  BY StaffFacts, StaffHolds
<1>2. /\ disturbed' \in [Requests -> BOOLEAN]
      /\ \A q \in Requests : ~disturbed'[q] => ~disturbed[q]
  BY <1>1, Disturbing
<1>3. StaffTypeOK'
  BY <1>1, <1>2, StaffFacts, StaffHolds, StaffFactsBack
<1>4. \A o : OfOrg(o)' = OfOrg(o) /\ CountOf(o)' = CountOf(o)
  BY DEF OfOrg, CountOf
<1>5. IsFiniteSet(employees)' /\ CodesAreSequential' /\ Employed' = Employed
  BY <1>4, StaffHolds DEF CodesAreSequential, Employed
<1>6. \A q \in Requests : HireOK(q)' /\ (hire'[q].step # "idle" <=> hire'[q].user \in Hires)
  BY <1>2, <1>4, <1>5, StaffHolds DEF HireOK
<1> QED
  BY <1>3, <1>5, <1>6 DEF StaffInv

LEMMA StaffInvInsert ==
  ASSUME StaffInv, NEW r \in Requests, Insert(r)
  PROVE  StaffInv'
<1>1. /\ hire[r].step = "resolved" /\ Answered(r) /\ departments' = departments
  BY DEF Insert
<1>u. PICK u \in Hires : u = hire[r].user /\ u[1] \in Orgs
  BY <1>1, StaffHolds, StaffingAssumption
<1>2. /\ hire' \in [Requests -> HiringType] /\ hire'[r].step = "idle" /\ hire'[r].user \notin Hires
      /\ \A q \in Requests : q # r => hire'[q] = hire[q]
  BY <1>1, StaffHolds, Answering
<1>3. HireOK(r)' /\ (hire'[r].step # "idle" <=> hire'[r].user \in Hires)
  BY <1>2 DEF HireOK
<1>4. {r} \in SUBSET Requests /\ departments' \subseteq DepartmentType
      /\ disturbed \in [Requests -> BOOLEAN] /\ employees \subseteq EmployeeType
  BY <1>1, StaffFacts, StaffHolds
<1>5. CASE ~InsertFits(hire[r])
  <2>1. employees' = employees /\ disturbed' = disturbed
    BY <1>5 DEF Insert
  <2>2. \A q \in Requests \ {r} : /\ hire'[q] = hire[q]
                                  /\ ~disturbed'[q] =>
                                       ~disturbed[q] \/ hire[q].step = "idle"
    BY <1>2, <2>1
  <2> QED
    BY <1>2, <1>3, <1>4, <2>1, <2>2, NoHire
<1>6. CASE InsertFits(hire[r])
  <2>n. PICK n \in Nat \ {0}, d \in CodeOrNone : n = hire[r].number /\ d = hire[r].department
                                                /\ n \in 1..CountOf(u[1]) + 1
    <3>1. hire[r].number \in 1..CountOf(u[1]) + 1 /\ hire[r].department \in CodeOrNone
      BY <1>u, StaffHolds, StaffFacts, StaffFields DEF HireOK
    <3>2. CountOf(u[1]) \in Nat
      BY StaffHolds, Counts
    <3> QED
      BY <3>1, <3>2
  <2>e. PICK e \in EmployeeType : e = Employee(u, n, d) /\ e.user = u /\ e.code = n
    BY StaffFields
  <2>1. employees' = employees \cup {e} /\ Disturb(r) /\ u \notin Employed /\ n \notin Codes
    BY <1>6, <1>u, <2>e, <2>n DEF Insert, InsertFits
  <2>2. /\ disturbed' \in [Requests -> BOOLEAN]
        /\ \A q \in Requests : ~disturbed'[q] => ~disturbed[q] /\ (q = r \/ hire[q].step = "idle")
    BY <1>4, <2>1, Disturbing
  <2>3. IsFiniteSet(employees')
    BY <2>1, StaffHolds, FS_AddElement
  <2>4. OfOrg(u[1])' = OfOrg(u[1]) \cup {e} /\ e \notin OfOrg(u[1])
        /\ \A o \in Orgs : o # u[1] => OfOrg(o)' = OfOrg(o)
    BY <2>1, <2>e DEF OfOrg, Codes
  <2>5. /\ CountOf(u[1])' = CountOf(u[1]) + 1 /\ CountOf(u[1]) \in Nat
        /\ \A o \in Orgs : o # u[1] => CountOf(o)' = CountOf(o)
    <3>1. IsFiniteSet(OfOrg(u[1])) /\ CountOf(u[1]) \in Nat
      BY StaffHolds, Counts
    <3> QED
      BY <2>4, <3>1, FS_AddElement DEF CountOf
  <2>6. n = CountOf(u[1]) + 1
    <3>1. {x.code : x \in OfOrg(u[1])} = 1..CountOf(u[1])
      BY <1>u, StaffHolds DEF CodesAreSequential, CountOf
    <3>2. n \notin {x.code : x \in OfOrg(u[1])}
      BY <2>1 DEF Codes, OfOrg
    <3> QED
      BY <2>5, <2>n, <3>1, <3>2
  <2>7. CodesAreSequential'
    <3> SUFFICES ASSUME NEW o \in Orgs
                 PROVE  {x.code : x \in OfOrg(o)'} = 1..CountOf(o)'
      BY DEF CodesAreSequential, CountOf
    <3>1. {x.code : x \in OfOrg(o)} = 1..CountOf(o)
      BY StaffHolds DEF CodesAreSequential, CountOf
    <3>2. CASE o = u[1]
      <4>1. {x.code : x \in OfOrg(o)'} = {x.code : x \in OfOrg(o)} \cup {n}
        BY <2>4, <2>e, <3>2
      <4> QED
        BY <2>5, <2>6, <3>1, <3>2, <4>1
    <3>3. CASE o # u[1]
      BY <2>4, <2>5, <3>1, <3>3
    <3> QED
      BY <3>2, <3>3
  <2>8. StaffTypeOK'
    BY <1>2, <1>4, <2>1, <2>2, StaffFactsBack
  <2>9. \A q \in Requests : q # r => HireOK(q)'
    <3> SUFFICES ASSUME NEW q \in Requests, q # r, NEW v \in Hires, hire[q].user = v
                 PROVE  /\ hire[q].number \in 1..CountOf(v[1])' + 1
                        /\ ~disturbed'[q] =>
                             hire[q].number = CountOf(v[1])' + 1 /\ v \notin Employed'
      BY <1>2 DEF HireOK
    <3>1. hire[q].number \in 1..CountOf(v[1]) + 1 /\ hire[q].step # "idle" /\ v[1] \in Orgs
      BY StaffHolds, StaffingAssumption DEF HireOK
    <3>2. CountOf(v[1]) \in Nat /\ (CountOf(v[1])' = CountOf(v[1]) \/ CountOf(v[1])' = CountOf(v[1]) + 1)
      BY <2>5, <3>1, StaffHolds, Counts
    <3> QED
      BY <2>2, <3>1, <3>2
  <2>10. \A q \in Requests : HireOK(q)' /\ (hire'[q].step # "idle" <=> hire'[q].user \in Hires)
    <3>1. \A q \in Requests : q # r => (hire'[q].step # "idle" <=> hire'[q].user \in Hires)
      BY <1>2, StaffHolds
    <3> QED
      BY <1>3, <2>9, <3>1
  <2> QED
    BY <2>3, <2>7, <2>8, <2>10 DEF StaffInv
<1> QED
  BY <1>5, <1>6

LEMMA StaffInvStep ==
  ASSUME StaffInv, [StaffNext]_staffVars
  PROVE  StaffInv'
<1>1. ASSUME NEW o \in Orgs, NEW code \in {Code, OtherCode},
             NEW name \in {Name, OtherName},
             AdminDepartment(o, code, name)
      PROVE  StaffInv'
  <2>1. /\ employees' = employees /\ hire' = hire /\ Disturb(Nobody)
        /\ departments' = departments \cup {Department(o, code, name)}
    BY <1>1 DEF AdminDepartment
  <2>2. departments' \subseteq DepartmentType
    BY <2>1, StaffFields, StaffFacts, StaffHolds
  <2> QED
    BY <2>1, <2>2, StaffInvAdmin
<1>2. ASSUME NEW d \in departments, NEW name \in {Name, OtherName},
             RenameDepartment(d, name)
      PROVE  StaffInv'
  <2>1. /\ employees' = employees /\ hire' = hire /\ Disturb(Nobody)
        /\ departments' = (departments \ {d}) \cup {Department(d.org, d.code, name)}
    BY <1>2 DEF RenameDepartment
  <2>2. departments' \subseteq DepartmentType
    BY <2>1, StaffFields, StaffFacts, StaffHolds
  <2> QED
    BY <2>1, <2>2, StaffInvAdmin
<1>3. CASE UNCHANGED staffVars
  <2>1. /\ employees' = employees /\ hire' = hire /\ disturbed' = disturbed
        /\ departments' = departments
    BY <1>3 DEF staffVars
  <2> QED
    BY <2>1, StaffFacts, StaffHolds, StaffInvAdmin
<1> QED
  BY <1>1, <1>2, <1>3, StaffInvSteps, StaffInvStart, StaffInvInsert DEF StaffNext

LEMMA StaffInvCodes == StaffInv => StaffTypeOK /\ CodesAreSequential
BY DEF StaffInv

LEMMA ResolvedStep ==
  ASSUME StaffInv, NEW r \in Requests, CreateDepartment(r), hire'[r].department = Nobody
  PROVE  \E d \in departments : /\ d.org = hire[r].user[1]
                                /\ d.name = Name /\ d.code = OtherCode
<1>1. hire[r].step = "missing" /\ hire \in [Requests -> HiringType]
      /\ departments \subseteq DepartmentType
  BY StaffFacts, StaffHolds DEF CreateDepartment
<1>u. PICK u \in Hires : u = hire[r].user
  BY <1>1, StaffHolds
<1>n. PICK n \in Nat : n = hire[r].number
  BY <1>1, StaffFields
<1>2. \A d \in CodeOrNone : Step(r, u, "resolved", n, d) => hire'[r].department = d
  BY StaffHolds, Stepping
<1>3. Nobody \notin {Code, OtherCode} /\ Code \in CodeOrNone
  BY StaffingAssumption DEF CodeOrNone
<1>4. ~Fits(Department(u[1], Code, Name))
  <2>1. Fits(Department(u[1], Code, Name)) => Step(r, u, "resolved", n, Code)
    BY <1>u, <1>n DEF CreateDepartment
  <2> QED
    BY <1>2, <1>3, <2>1
<1>o. /\ Department(u[1], Code, Name).org = u[1] /\ Department(u[1], Code, Name).code = Code
      /\ Department(u[1], Code, Name).name = Name
  BY DEF Department
<1>5. Raced(u[1]) = {}
  <2>1. Raced(Department(u[1], Code, Name).org) # {} =>
          \E d \in Raced(Department(u[1], Code, Name).org) : Step(r, u, "resolved", n, d.code)
    BY <1>4, <1>u, <1>n DEF CreateDepartment
  <2>2. Raced(u[1]) # {} => \E d \in Raced(u[1]) : Step(r, u, "resolved", n, d.code)
    BY <1>o, <2>1
  <2>3. \A d \in Raced(u[1]) : d.code = Code
    BY DEF Raced
  <2> QED
    BY <1>2, <1>3, <2>2, <2>3
<1>6. PICK d \in departments : d.org = u[1] /\ (d.code = Code \/ d.name = Name)
  BY <1>4, <1>o DEF Fits
<1>7. d.code # Code
  BY <1>5, <1>6 DEF Raced
<1>8. d.code \in {Code, OtherCode}
  BY <1>1, StaffFields
<1> QED
  BY <1>6, <1>7, <1>8, <1>u

LEMMA HireFailsStep ==
  ASSUME StaffInv, NEW r \in Requests, Insert(r), ~disturbed[r], employees' = employees
  PROVE  \E e \in employees : e.code = hire[r].number /\ e.user[1] # hire[r].user[1]
<1>u. PICK u \in Hires : u = hire[r].user /\ u[1] \in Orgs
  BY StaffHolds, StaffingAssumption DEF Insert
<1>1. hire[r].number = CountOf(u[1]) + 1 /\ u \notin Employed /\ CountOf(u[1]) \in Nat
  BY <1>u, StaffHolds, Counts DEF HireOK
<1>2. ~InsertFits(hire[r])
  <2>1. InsertFits(hire[r]) => Employee(u, hire[r].number, hire[r].department) \in employees
    BY <1>u DEF Insert
  <2>2. Employee(u, hire[r].number, hire[r].department) \in employees => u \in Employed
    <3>1. Employee(u, hire[r].number, hire[r].department).user = u
      BY DEF Employee
    <3> QED
      BY <3>1 DEF Employed
  <2> QED
    BY <1>1, <2>1, <2>2
<1>3. PICK e \in employees : e.code = hire[r].number
  BY <1>1, <1>2, <1>u DEF InsertFits, Codes
<1>4. e.user[1] # u[1]
  <2>1. {x.code : x \in OfOrg(u[1])} = 1..CountOf(u[1])
    BY <1>u, StaffHolds DEF CodesAreSequential, CountOf
  <2>2. e.code \notin 1..CountOf(u[1])
    BY <1>1, <1>3
  <2> QED
    BY <2>1, <2>2 DEF OfOrg
<1> QED
  BY <1>3, <1>4, <1>u

(* Hires that race leave the codes in order and their department resolved, *)
(* and an undisturbed hire succeeds where the code is free.                *)
LEMMA StaffHoldsAlways == StaffInit /\ [][StaffNext]_staffVars => HiringIsOrderly
<1>1. StaffInv /\ [StaffNext]_staffVars =>
        [\A r \in Requests :
           CreateDepartment(r) /\ hire'[r].department = Nobody =>
             \E d \in departments : /\ d.org = hire[r].user[1]
                                    /\ d.name = Name /\ d.code = OtherCode]_staffVars
  BY ResolvedStep
<1>2. StaffInv /\ [StaffNext]_staffVars =>
        [\A r \in Requests :
           Insert(r) /\ ~disturbed[r] /\ employees' = employees =>
             \E e \in employees : e.code = hire[r].number /\ e.user[1] # hire[r].user[1]
        ]_staffVars
  BY HireFailsStep
<1> QED
  BY <1>1, <1>2, StaffInvInit, StaffInvStep, StaffInvCodes, PTL
     DEF HiringIsOrderly, DepartmentIsResolved, HireFailsForACause
-----------------------------------------------------------------------------
(* Crm.                                                                    *)

CrmSteps == {"idle", "create", "createFrom", "link", "linkFrom", "checked", "editing"}
LeadType == [stage : Stages, client : 0..MaxClients]
ClientType == [lead : Leads \cup {NoLead}, email : Emails]
DoingType == [step : CrmSteps, lead : Leads \cup {NoLead}, email : Emails \cup {NoEmail},
              made : 0..MaxClients]

(* The client of a conversion that is about to be linked: it is the only   *)
(* one of its lead, nobody else links that lead, and no link is there yet. *)
Links(r, l) == crm[r].step \in {"link", "linkFrom"} /\ crm[r].lead = l
LinkOK(r) ==
  \A l \in Leads : Links(r, l) =>
    /\ l \notin unlinked /\ lead[l].client = 0
    /\ crm[r].made \in 1..Len(client) /\ client[crm[r].made].lead = l
    /\ \A q \in CrmRequests : Links(q, l) => q = r
LeadOK(l) ==
  /\ lead[l].client # 0 => /\ lead[l].client \in 1..Len(client)
                           /\ client[lead[l].client].lead = l
  /\ l \in unlinked => lead[l].client = 0 /\ \E c \in 1..Len(client) : client[c].lead = l
ClientOK(c) ==
  \A l \in Leads : client[c].lead = l =>
    /\ \A d \in 1..Len(client) : client[d].lead = l => d = c
    /\ lead[l].client = 0 => l \in unlinked \/ \E r \in CrmRequests : Links(r, l)
RequestOK(r) ==
  /\ crm[r].step \in {"create", "createFrom", "link", "linkFrom"} => crm[r].lead \in Leads
  /\ crm[r].step = "checked" =>
       /\ crm[r].email \in Emails
       /\ ~overlapped[r] => \A c \in 1..Len(client) : client[c].email # crm[r].email
  /\ crm[r].step = "editing" =>
       /\ crm[r].email \in Emails /\ crm[r].made \in 1..Len(client)
       /\ ~overlapped[r] => \/ client[crm[r].made].email = crm[r].email
                            \/ \A c \in 1..Len(client) : client[c].email # crm[r].email

CrmInv ==
  /\ CrmTypeOK /\ Len(client) <= MaxClients
  /\ \A r \in CrmRequests : LinkOK(r) /\ RequestOK(r)
  /\ \A l \in Leads : LeadOK(l)
  /\ \A c \in 1..Len(client) : ClientOK(c)

LEMMA CrmTypes ==
  ASSUME CrmTypeOK
  PROVE  /\ lead \in [Leads -> LeadType] /\ client \in Seq(ClientType)
         /\ crm \in [CrmRequests -> DoingType] /\ crmCrashes \in 0..MaxCrmCrashes
         /\ unlinked \subseteq Leads /\ overlapped \in [CrmRequests -> BOOLEAN]
         /\ DOMAIN client = 1..Len(client) /\ Len(client) \in Nat
         /\ \A c \in 1..Len(client) : client[c] \in ClientType
         /\ \A l \in Leads : lead[l].client \in 0..MaxClients
<1>1. /\ lead \in [Leads -> LeadType] /\ client \in Seq(ClientType)
      /\ crm \in [CrmRequests -> DoingType] /\ crmCrashes \in 0..MaxCrmCrashes
      /\ unlinked \subseteq Leads /\ overlapped \in [CrmRequests -> BOOLEAN]
  BY DEF CrmTypeOK, LeadType, ClientType, DoingType, CrmSteps
<1>2. \A l \in Leads : lead[l].client \in 0..MaxClients
  BY <1>1 DEF LeadType
<1> QED
  BY <1>1, <1>2

LEMMA CrmTypesBack ==
  ASSUME lead' \in [Leads -> LeadType], client' \in Seq(ClientType),
         crm' \in [CrmRequests -> DoingType], crmCrashes' \in 0..MaxCrmCrashes,
         unlinked' \subseteq Leads, overlapped' \in [CrmRequests -> BOOLEAN]
  PROVE  CrmTypeOK'
BY DEF CrmTypeOK, LeadType, ClientType, DoingType, CrmSteps

LEMMA DoingFields ==
  ASSUME NEW step \in CrmSteps, NEW l \in Leads \cup {NoLead},
         NEW email \in Emails \cup {NoEmail},
         NEW made \in 0..MaxClients
  PROVE  /\ Doing(step, l, email, made) \in DoingType
         /\ Doing(step, l, email, made).step = step
         /\ Doing(step, l, email, made).lead = l
         /\ Doing(step, l, email, made).email = email
         /\ Doing(step, l, email, made).made = made
BY DEF Doing, DoingType

(* A request takes a step: the others stay as they are.                    *)
LEMMA Moves ==
  ASSUME CrmTypeOK, NEW r \in CrmRequests, NEW d \in DoingType,
         crm' = [crm EXCEPT ![r] = d]
  PROVE  /\ crm' \in [CrmRequests -> DoingType] /\ crm'[r] = d
         /\ \A q \in CrmRequests : q # r => crm'[q] = crm[q]
BY CrmTypes

LEMMA IdleFields == CrmIdle \in DoingType /\ CrmIdle.step = "idle"
BY CrmAssumption DEF CrmIdle, Doing, DoingType, CrmSteps

(* A step that neither adds a client nor touches a link.                   *)
LEMMA NoNewLink ==
  ASSUME CrmInv, CrmTypeOK', Len(client') = Len(client),
         \A c \in 1..Len(client) : client'[c].lead = client[c].lead,
         \A l \in Leads : lead'[l].client = lead[l].client,
         unlinked' = unlinked,
         \A r \in CrmRequests : crm'[r] = crm[r] \/ ~(crm'[r].step \in {"link", "linkFrom"}),
         \A r \in CrmRequests : crm[r].step \in {"link", "linkFrom"} => crm'[r] = crm[r],
         \A r \in CrmRequests : RequestOK(r)'
  PROVE  CrmInv'
<1>0. /\ CrmTypeOK /\ Len(client) <= MaxClients /\ Len(client) \in Nat
      /\ \A r \in CrmRequests : LinkOK(r)
      /\ \A l \in Leads : LeadOK(l)
      /\ \A c \in 1..Len(client) : ClientOK(c) /\ client[c].lead \in Leads \cup {NoLead}
  BY CrmTypes DEF CrmInv, ClientType
<1>1. \A q \in CrmRequests, l \in Leads : Links(q, l)' <=> Links(q, l)
  BY DEF Links
<1>2. \A r \in CrmRequests : LinkOK(r)'
  <2> SUFFICES ASSUME NEW q \in CrmRequests, NEW k \in Leads, Links(q, k)'
               PROVE  /\ k \notin unlinked' /\ lead'[k].client = 0
                      /\ crm'[q].made \in 1..Len(client')
                      /\ client'[crm'[q].made].lead = k
                      /\ \A p \in CrmRequests : Links(p, k)' => p = q
    BY DEF LinkOK
  <2>1. Links(q, k) /\ LinkOK(q)
    BY <1>0, <1>1
  <2>2. crm'[q] = crm[q]
    BY <2>1 DEF Links
  <2> QED
    BY <1>0, <1>1, <2>1, <2>2 DEF LinkOK
<1>3. \A l \in Leads : LeadOK(l)'
  BY <1>0 DEF LeadOK
<1>4. \A c \in 1..Len(client) : ClientOK(c)'
  BY <1>0, <1>1 DEF ClientOK
<1> QED
  BY <1>0, <1>2, <1>3, <1>4 DEF CrmInv

LEMMA CrmFacts ==
  ASSUME CrmInv
  PROVE  /\ CrmTypeOK /\ Len(client) \in 0..MaxClients /\ client \in Seq(ClientType)
         /\ lead \in [Leads -> LeadType] /\ crm \in [CrmRequests -> DoingType]
         /\ crmCrashes \in 0..MaxCrmCrashes /\ unlinked \subseteq Leads
         /\ overlapped \in [CrmRequests -> BOOLEAN] /\ DOMAIN client = 1..Len(client)
         /\ \A l \in Leads : lead[l].client \in 0..MaxClients /\ lead[l].stage \in Stages
         /\ \A c \in 1..Len(client) : /\ client[c].lead \in Leads \cup {NoLead}
                                      /\ client[c].email \in Emails
<1>1. CrmTypeOK /\ Len(client) <= MaxClients
  BY DEF CrmInv
<1>2. \A c \in 1..Len(client) : client[c].lead \in Leads \cup {NoLead} /\ client[c].email \in Emails
  BY <1>1, CrmTypes DEF ClientType
<1>3. \A l \in Leads : lead[l].client \in 0..MaxClients /\ lead[l].stage \in Stages
  BY <1>1, CrmTypes DEF LeadType
<1>4. Len(client) \in 0..MaxClients
  BY <1>1, CrmTypes, CrmAssumption
<1> QED
  BY <1>1, <1>2, <1>3, <1>4, CrmTypes

LEMMA CrmHolds ==
  ASSUME CrmInv
  PROVE  /\ \A r \in CrmRequests : LinkOK(r)
         /\ \A r \in CrmRequests : RequestOK(r)
         /\ \A l \in Leads : LeadOK(l)
         /\ \A c \in 1..Len(client) : ClientOK(c)
BY DEF CrmInv

LEMMA Becoming ==
  ASSUME CrmInv, NEW l \in Leads, NEW stage \in Stages, NEW c \in 0..MaxClients,
         Becomes(l, stage, c)
  PROVE  /\ lead' \in [Leads -> LeadType] /\ lead'[l].client = c
         /\ \A k \in Leads : k # l => lead'[k] = lead[k]
<1>1. [stage |-> stage, client |-> c] \in LeadType
  BY DEF LeadType
<1> QED
  BY <1>1, CrmFacts, CrmHolds DEF Becomes

(* A request that looks, or one that is answered.                          *)
LEMMA CrmLooks ==
  ASSUME CrmInv, NEW r \in CrmRequests, NEW d \in DoingType, crm' = [crm EXCEPT ![r] = d],
         ~(crm[r].step \in {"link", "linkFrom"}), ~(d.step \in {"link", "linkFrom"}),
         d.step \in {"create", "createFrom"} => d.lead \in Leads,
         d.step = "checked" => /\ d.email \in Emails /\ ~overlapped'[r]
                               /\ \A c \in 1..Len(client) : client[c].email # d.email,
         d.step = "editing" => /\ d.email \in Emails /\ d.made \in 1..Len(client)
                               /\ \/ client[d.made].email = d.email
                                  \/ \A c \in 1..Len(client) : client[c].email # d.email,
         lead' \in [Leads -> LeadType], \A l \in Leads : lead'[l].client = lead[l].client,
         client' = client, unlinked' = unlinked, crmCrashes' \in 0..MaxCrmCrashes,
         overlapped' \in [CrmRequests -> BOOLEAN],
         \A q \in CrmRequests : q # r => overlapped'[q] = overlapped[q]
  PROVE  CrmInv'
<1>1. /\ crm' \in [CrmRequests -> DoingType] /\ crm'[r] = d
      /\ \A q \in CrmRequests : q # r => crm'[q] = crm[q]
  BY CrmFacts, CrmHolds, Moves
<1>2. CrmTypeOK'
  BY <1>1, CrmFacts, CrmHolds, CrmTypesBack
<1>3. \A q \in CrmRequests : RequestOK(q)'
  BY <1>1, CrmFacts, CrmHolds DEF RequestOK
<1>4. /\ \A q \in CrmRequests : crm'[q] = crm[q] \/ ~(crm'[q].step \in {"link", "linkFrom"})
      /\ \A q \in CrmRequests : crm[q].step \in {"link", "linkFrom"} => crm'[q] = crm[q]
  BY <1>1
<1>5. Len(client') = Len(client)
      /\ \A c \in 1..Len(client) : client'[c].lead = client[c].lead /\ client'[c].email = client[c].email
  OBVIOUS
<1> QED
  BY <1>2, <1>3, <1>4, <1>5, NoNewLink

(* Who has looked is told of a client that is added or edited.             *)
LEMMA Overlapping ==
  ASSUME CrmInv, Overlaps
  PROVE  /\ overlapped' \in [CrmRequests -> BOOLEAN]
         /\ \A q \in CrmRequests : ~overlapped'[q] => ~(crm[q].step \in {"checked", "editing"})
<1>1. overlapped' = [q \in CrmRequests |-> crm[q].step \in {"checked", "editing"}]
  BY DEF Overlaps, At
<1>2. overlapped' \in [CrmRequests -> BOOLEAN]
  BY <1>1
<1>3. \A q \in CrmRequests : overlapped'[q] = (crm[q].step \in {"checked", "editing"})
  BY <1>1, Zenon
<1> QED
  BY <1>2, <1>3

(* A client is added: it is the last one, and who has looked is told.      *)
LEMMA Adding ==
  ASSUME CrmInv, NEW from \in Leads \cup {NoLead}, NEW email \in Emails,
         Len(client) < MaxClients, Add(from, email)
  PROVE  /\ client' \in Seq(ClientType) /\ Len(client') = Len(client) + 1
         /\ Len(client') \in 1..MaxClients
         /\ client'[Len(client) + 1].lead = from
         /\ \A c \in 1..Len(client) : client'[c] = client[c]
         /\ overlapped' \in [CrmRequests -> BOOLEAN]
         /\ \A q \in CrmRequests : ~overlapped'[q] => ~(crm[q].step \in {"checked", "editing"})
<1>1. Row(from, email) \in ClientType /\ Row(from, email).lead = from
  BY DEF Row, ClientType
<1>2. PICK rec \in ClientType : rec = Row(from, email) /\ rec.lead = from
  BY <1>1
<1>3. client' = Append(client, rec)
  BY <1>2 DEF Add
<1>4. /\ client' \in Seq(ClientType) /\ Len(client') = Len(client) + 1
      /\ client'[Len(client) + 1] = rec
      /\ \A c \in 1..Len(client) : client'[c] = client[c]
  BY <1>3, CrmFacts, CrmHolds
<1>5. Overlaps
  BY DEF Add
<1> QED
  BY <1>2, <1>4, <1>5, Overlapping, CrmFacts, CrmHolds, CrmAssumption

(* A rec is rewritten: what it came from stays.                            *)
LEMMA Rewriting ==
  ASSUME CrmInv, NEW c \in 1..Len(client), NEW email \in Emails,
         client' = [client EXCEPT ![c] = Row(client[c].lead, email)]
  PROVE  /\ client' \in Seq(ClientType) /\ Len(client') = Len(client)
         /\ client'[c].email = email /\ \A e \in 1..Len(client) : client'[e].lead = client[e].lead
         /\ \A e \in 1..Len(client) : e # c => client'[e] = client[e]
<1>1. PICK from \in Leads \cup {NoLead} : from = client[c].lead
  BY CrmFacts
<1>2. /\ Row(from, email) \in ClientType /\ Row(from, email).lead = from
      /\ Row(from, email).email = email
  BY DEF Row, ClientType
<1>3. PICK rec \in ClientType : rec = Row(from, email) /\ rec.lead = from /\ rec.email = email
  BY <1>2
<1>4. client' = [client EXCEPT ![c] = rec]
  BY <1>1, <1>3
<1>5. /\ client' \in Seq(ClientType) /\ Len(client') = Len(client) /\ client'[c] = rec
      /\ \A e \in 1..Len(client) : e # c => client'[e] = client[e]
  BY <1>4, CrmFacts
<1> QED
  BY <1>1, <1>3, <1>5

LEMMA CrmInvCreateFromLead ==
  ASSUME CrmInv, NEW r \in CrmRequests, CreateFromLead(r)
  PROVE  CrmInv'
<1>l. PICK l \in Leads : l = crm[r].lead
  BY CrmFacts, CrmHolds DEF CreateFromLead, At, RequestOK
<1>1. /\ Len(client) < MaxClients /\ Add(l, EmailOf[l]) /\ EmailOf[l] \in Emails
      /\ lead' = lead /\ crmCrashes' = crmCrashes /\ unlinked' = unlinked
      /\ \A c \in 1..Len(client) : client[c].lead # l
  BY <1>l, CrmFacts, CrmHolds, CrmAssumption DEF CreateFromLead, LeadIsFree
<1>2. /\ client' \in Seq(ClientType) /\ Len(client') = Len(client) + 1
      /\ Len(client') \in 1..MaxClients
      /\ client'[Len(client) + 1].lead = l
      /\ \A c \in 1..Len(client) : client'[c] = client[c]
      /\ overlapped' \in [CrmRequests -> BOOLEAN]
      /\ \A q \in CrmRequests : ~overlapped'[q] => ~(crm[q].step \in {"checked", "editing"})
  BY <1>1, Adding
<1>3. \E step \in {"link", "linkFrom"} : crm' = [crm EXCEPT ![r] = Doing(step, l, NoEmail, Len(client) + 1)]
  BY <1>l DEF CreateFromLead, Linking
<1>4. PICK step \in {"link", "linkFrom"} :
         crm' = [crm EXCEPT ![r] = Doing(step, l, NoEmail, Len(client) + 1)]
  BY <1>3
<1>5. PICK made \in 0..MaxClients : made = Len(client) + 1
  BY <1>2, CrmFacts, CrmHolds
<1>6. PICK d \in DoingType : d = Doing(step, l, NoEmail, made) /\ d.step = step /\ d.lead = l /\ d.made = made
  BY DoingFields DEF CrmSteps
<1>7. crm' = [crm EXCEPT ![r] = d]
  BY <1>4, <1>5, <1>6
<1>8. /\ crm' \in [CrmRequests -> DoingType] /\ crm'[r] = d
      /\ \A q \in CrmRequests : q # r => crm'[q] = crm[q]
  BY <1>7, CrmFacts, CrmHolds, Moves
<1>9. CrmTypeOK'
  BY <1>1, <1>2, <1>8, CrmFacts, CrmTypesBack
<1>p. \A e \in 1..Len(client') : e = Len(client) + 1 \/ e \in 1..Len(client)
  BY <1>2, CrmFacts
<1>10. crm[r].step \in {"create", "createFrom"}
  BY DEF CreateFromLead, At
<1>11. lead[l].client = 0 /\ l \notin unlinked /\ \A q \in CrmRequests : ~Links(q, l)
  BY <1>1, CrmFacts, CrmHolds DEF LeadOK, LinkOK, Links
<1>12. \A q \in CrmRequests, k \in Leads : Links(q, k)' <=> Links(q, k) \/ (q = r /\ k = l)
  BY <1>6, <1>8, <1>10 DEF Links
<1>13. \A q \in CrmRequests : LinkOK(q)'
  <2> SUFFICES ASSUME NEW q \in CrmRequests, NEW k \in Leads, Links(q, k)'
               PROVE  /\ k \notin unlinked' /\ lead'[k].client = 0
                      /\ crm'[q].made \in 1..Len(client')
                      /\ client'[crm'[q].made].lead = k
                      /\ \A p \in CrmRequests : Links(p, k)' => p = q
    BY DEF LinkOK
  <2>1. CASE k = l
    <3>1. q = r
      BY <1>11, <1>12, <2>1
    <3> QED
      BY <1>1, <1>2, <1>5, <1>6, <1>8, <1>11, <1>12, <2>1, <3>1, CrmFacts, CrmHolds
  <2>2. CASE k # l
    <3>1. Links(q, k) /\ LinkOK(q)
      BY <1>12, <2>2, CrmFacts, CrmHolds
    <3>2. q # r
      BY <1>10, <3>1 DEF Links
    <3>3. crm'[q] = crm[q] /\ \A p \in CrmRequests : Links(p, k)' => Links(p, k)
      BY <1>8, <1>12, <2>2, <3>2
    <3> QED
      BY <1>1, <1>2, <3>1, <3>3, CrmFacts, CrmHolds DEF LinkOK
  <2> QED
    BY <2>1, <2>2
<1>14. \A k \in Leads : LeadOK(k)'
  BY <1>1, <1>2, CrmFacts, CrmHolds DEF LeadOK
<1>15. \A c \in 1..Len(client') : ClientOK(c)'
  <2> SUFFICES ASSUME NEW c \in 1..Len(client'), NEW k \in Leads, client'[c].lead = k
               PROVE  /\ \A e \in 1..Len(client') : client'[e].lead = k => e = c
                      /\ lead'[k].client = 0 =>
                           k \in unlinked' \/ \E q \in CrmRequests : Links(q, k)'
    BY DEF ClientOK
  <2>1. CASE c = Len(client) + 1
    <3>1. k = l /\ \A e \in 1..Len(client') : client'[e].lead = k => e = c
      BY <1>1, <1>2, <1>p, <2>1
    <3> QED
      BY <1>12, <3>1
  <2>2. CASE c # Len(client) + 1
    <3>1. c \in 1..Len(client) /\ client[c].lead = k /\ k # l
      BY <1>1, <1>2, <2>2, CrmFacts, CrmHolds
    <3>2. ClientOK(c)
      BY <3>1, CrmFacts, CrmHolds
    <3>3. \A e \in 1..Len(client') : client'[e].lead = k => e = c
      BY <1>2, <1>p, <3>1, <3>2 DEF ClientOK
    <3>4. lead[k].client = 0 => k \in unlinked \/ \E q \in CrmRequests : Links(q, k)'
      BY <1>12, <3>1, <3>2 DEF ClientOK
    <3> QED
      BY <1>1, <3>3, <3>4
  <2> QED
    BY <2>1, <2>2
<1>16. \A q \in CrmRequests : RequestOK(q)'
  BY <1>2, <1>6, <1>8, CrmFacts, CrmHolds DEF RequestOK
<1> QED
  BY <1>2, <1>9, <1>13, <1>14, <1>15, <1>16 DEF CrmInv

LEMMA CrmInvCreateClient ==
  ASSUME CrmInv, NEW r \in CrmRequests, CreateClient(r)
  PROVE  CrmInv'
<1>0. NoLead \notin Leads
  BY CrmAssumption
<1>1. /\ crm[r].step = "checked" /\ Len(client) < MaxClients /\ crm[r].email \in Emails
      /\ Add(NoLead, crm[r].email) /\ crm' = [crm EXCEPT ![r] = CrmIdle]
      /\ lead' = lead /\ crmCrashes' = crmCrashes /\ unlinked' = unlinked
  BY CrmFacts, CrmHolds DEF CreateClient, At, Answer, RequestOK
<1>2. PICK email \in Emails : email = crm[r].email
  BY <1>1
<1>3. Add(NoLead, email) /\ NoLead \in Leads \cup {NoLead}
  BY <1>1, <1>2
<1>4. /\ client' \in Seq(ClientType) /\ Len(client') = Len(client) + 1
      /\ Len(client') \in 1..MaxClients
      /\ client'[Len(client) + 1].lead = NoLead
      /\ \A c \in 1..Len(client) : client'[c] = client[c]
      /\ overlapped' \in [CrmRequests -> BOOLEAN]
      /\ \A q \in CrmRequests : ~overlapped'[q] => ~(crm[q].step \in {"checked", "editing"})
  BY <1>1, <1>3, Adding
<1>5. /\ crm' \in [CrmRequests -> DoingType] /\ crm'[r] = CrmIdle
      /\ \A q \in CrmRequests : q # r => crm'[q] = crm[q]
  BY <1>1, CrmFacts, CrmHolds, Moves, IdleFields
<1>6. CrmTypeOK'
  BY <1>1, <1>4, <1>5, CrmFacts, CrmHolds, CrmTypesBack
<1>7. \A q \in CrmRequests, k \in Leads : Links(q, k)' <=> Links(q, k)
  BY <1>1, <1>5, IdleFields DEF Links
<1>8. \A q \in CrmRequests : LinkOK(q)'
  <2> SUFFICES ASSUME NEW q \in CrmRequests, NEW k \in Leads, Links(q, k)'
               PROVE  /\ k \notin unlinked' /\ lead'[k].client = 0
                      /\ crm'[q].made \in 1..Len(client')
                      /\ client'[crm'[q].made].lead = k
                      /\ \A p \in CrmRequests : Links(p, k)' => p = q
    BY DEF LinkOK
  <2>1. Links(q, k) /\ LinkOK(q)
    BY <1>7, CrmFacts, CrmHolds
  <2>2. q # r
    BY <1>1, <2>1 DEF Links
  <2> QED
    BY <1>1, <1>4, <1>5, <1>7, <2>1, <2>2, CrmFacts, CrmHolds DEF LinkOK
<1>9. \A k \in Leads : LeadOK(k)'
  BY <1>1, <1>4, CrmFacts, CrmHolds DEF LeadOK
<1>10. \A c \in 1..Len(client') : ClientOK(c)'
  <2> SUFFICES ASSUME NEW c \in 1..Len(client'), NEW k \in Leads, client'[c].lead = k
               PROVE  /\ \A e \in 1..Len(client') : client'[e].lead = k => e = c
                      /\ lead'[k].client = 0 =>
                           k \in unlinked' \/ \E q \in CrmRequests : Links(q, k)'
    BY DEF ClientOK
  <2>1. \A e \in 1..Len(client') : client'[e].lead = k => e \in 1..Len(client) /\ client[e].lead = k
    BY <1>0, <1>4, CrmFacts, CrmHolds
  <2>2. ClientOK(c) /\ client[c].lead = k
    BY <2>1, CrmFacts, CrmHolds
  <2> QED
    BY <1>1, <1>7, <2>1, <2>2 DEF ClientOK
<1>11. ASSUME NEW q \in CrmRequests
       PROVE  RequestOK(q)'
  <2>1. CASE q = r
    BY <1>5, <2>1, IdleFields DEF RequestOK
  <2>2. CASE q # r
    <3>1. crm'[q] = crm[q] /\ RequestOK(q) /\ \A c \in 1..Len(client) : c \in 1..Len(client')
      BY <1>4, <1>5, <2>2, CrmFacts, CrmHolds
    <3> QED
      BY <1>4, <3>1 DEF RequestOK
  <2> QED
    BY <2>1, <2>2
<1> QED
  BY <1>4, <1>6, <1>8, <1>9, <1>10, <1>11 DEF CrmInv

(* A link is made, or will never be: its lead has no other conversion.     *)
LEMMA CrmInvEndsLink ==
  ASSUME CrmInv, NEW r \in CrmRequests, NEW l \in Leads, Links(r, l), Answer(r),
         client' = client, overlapped' = overlapped, crmCrashes' \in 0..MaxCrmCrashes,
         lead' \in [Leads -> LeadType],
         \A k \in Leads : k # l => lead'[k] = lead[k],
         \/ lead'[l].client = crm[r].made /\ unlinked' = unlinked
         \/ lead'[l].client = lead[l].client /\ unlinked' = unlinked \cup {l}
  PROVE  CrmInv'
<1>1. /\ crm' \in [CrmRequests -> DoingType] /\ crm'[r] = CrmIdle
      /\ \A q \in CrmRequests : q # r => crm'[q] = crm[q]
  BY CrmFacts, CrmHolds, Moves, IdleFields DEF Answer
<1>2. CrmTypeOK'
  BY <1>1, CrmFacts, CrmHolds, CrmTypesBack
<1>3. /\ l \notin unlinked /\ lead[l].client = 0
      /\ crm[r].made \in 1..Len(client) /\ client[crm[r].made].lead = l
      /\ \A q \in CrmRequests : Links(q, l) => q = r
  BY CrmFacts, CrmHolds DEF LinkOK, Links
<1>4. \A q \in CrmRequests, k \in Leads : Links(q, k)' <=> Links(q, k) /\ k # l
  BY <1>1, <1>3, IdleFields DEF Links
<1>5. \A q \in CrmRequests : LinkOK(q)'
  <2> SUFFICES ASSUME NEW q \in CrmRequests, NEW k \in Leads, Links(q, k)'
               PROVE  /\ k \notin unlinked' /\ lead'[k].client = 0
                      /\ crm'[q].made \in 1..Len(client')
                      /\ client'[crm'[q].made].lead = k
                      /\ \A p \in CrmRequests : Links(p, k)' => p = q
    BY DEF LinkOK
  <2>1. Links(q, k) /\ k # l /\ LinkOK(q)
    BY <1>4, CrmFacts, CrmHolds
  <2>2. q # r
    BY <2>1 DEF Links
  <2> QED
    BY <1>1, <1>4, <2>1, <2>2 DEF LinkOK
<1>6. \A k \in Leads : LeadOK(k)'
  BY <1>3, CrmFacts, CrmHolds DEF LeadOK
<1>7. \A c \in 1..Len(client) : ClientOK(c)'
  <2> SUFFICES ASSUME NEW c \in 1..Len(client), NEW k \in Leads, client[c].lead = k
               PROVE  /\ \A e \in 1..Len(client) : client[e].lead = k => e = c
                      /\ lead'[k].client = 0 =>
                           k \in unlinked' \/ \E q \in CrmRequests : Links(q, k)'
    BY DEF ClientOK
  <2>1. ClientOK(c)
    BY CrmFacts, CrmHolds
  <2>2. CASE k = l
    BY <1>3, <2>1, <2>2, CrmFacts, CrmHolds DEF ClientOK
  <2>3. CASE k # l
    BY <1>4, <2>1, <2>3 DEF ClientOK
  <2> QED
    BY <2>2, <2>3
<1>8. \A q \in CrmRequests : RequestOK(q)'
  BY <1>1, CrmFacts, CrmHolds, IdleFields DEF RequestOK
<1> QED
  BY <1>2, <1>5, <1>6, <1>7, <1>8, CrmFacts, CrmHolds DEF CrmInv

LEMMA CrmInvInit == CrmInit => CrmInv
<1> SUFFICES ASSUME CrmInit PROVE CrmInv
  OBVIOUS
<1>1. /\ lead = [l \in Leads |-> [stage |-> "NEW", client |-> 0]] /\ client = <<>>
      /\ crm = [r \in CrmRequests |-> CrmIdle] /\ crmCrashes = 0 /\ unlinked = {}
      /\ overlapped = [r \in CrmRequests |-> FALSE]
  BY DEF CrmInit
<1>2. /\ lead \in [Leads -> LeadType] /\ client \in Seq(ClientType) /\ Len(client) = 0
      /\ crmCrashes \in 0..MaxCrmCrashes /\ unlinked \subseteq Leads
      /\ overlapped \in [CrmRequests -> BOOLEAN] /\ 0 <= MaxClients
  BY <1>1, CrmAssumption DEF LeadType, Stages
<1>3. crm \in [CrmRequests -> DoingType] /\ \A r \in CrmRequests : crm[r].step = "idle"
  BY <1>1, IdleFields
<1>4. CrmTypeOK
  BY <1>2, <1>3 DEF CrmTypeOK, LeadType, ClientType, DoingType, CrmSteps
<1>5. \A l \in Leads : LeadOK(l)
  BY <1>1 DEF LeadOK
<1>6. \A r \in CrmRequests : LinkOK(r) /\ RequestOK(r)
  BY <1>3 DEF LinkOK, Links, RequestOK
<1> QED
  BY <1>2, <1>4, <1>5, <1>6 DEF CrmInv

LEMMA CrmInvStep ==
  ASSUME CrmInv, [CrmNext]_crmVars
  PROVE  CrmInv'
<1>n. /\ NoLead \in Leads \cup {NoLead} /\ NoEmail \in Emails \cup {NoEmail}
      /\ 0 \in 0..MaxClients /\ "WON" \in Stages
  BY CrmAssumption DEF Stages
<1>1. ASSUME NEW r \in CrmRequests, NEW l \in Leads, MarkWon(r, l)
      PROVE  CrmInv'
  <2>1. /\ crm[r].step = "idle" /\ Becomes(l, "WON", lead[l].client)
        /\ crm' = [crm EXCEPT ![r] = Doing("create", l, NoEmail, 0)]
        /\ client' = client /\ crmCrashes' = crmCrashes /\ unlinked' = unlinked
        /\ overlapped' = overlapped
    BY <1>1 DEF MarkWon, At
  <2>2. PICK c \in 0..MaxClients : c = lead[l].client
    BY CrmFacts
  <2>3. Becomes(l, "WON", c)
    BY <2>1, <2>2
  <2>4. /\ lead' \in [Leads -> LeadType] /\ lead'[l].client = c
        /\ \A k \in Leads : k # l => lead'[k] = lead[k]
    BY <1>n, <2>3, Becoming
  <2>5. PICK d \in DoingType : d = Doing("create", l, NoEmail, 0) /\ d.step = "create" /\ d.lead = l
    BY <1>n, DoingFields DEF CrmSteps
  <2>6. \A k \in Leads : lead'[k].client = lead[k].client
    BY <2>2, <2>4
  <2> QED
    BY <2>1, <2>4, <2>5, <2>6, CrmFacts, CrmLooks
<1>2. ASSUME NEW r \in CrmRequests, NEW l \in Leads, FindLead(r, l)
      PROVE  CrmInv'
  <2>1. /\ crm[r].step = "idle" /\ crm' = [crm EXCEPT ![r] = Doing("createFrom", l, NoEmail, 0)]
        /\ lead' = lead /\ client' = client /\ crmCrashes' = crmCrashes
        /\ unlinked' = unlinked
        /\ overlapped' = overlapped
    BY <1>2 DEF FindLead, At
  <2>2. PICK d \in DoingType : d = Doing("createFrom", l, NoEmail, 0) /\ d.step = "createFrom" /\ d.lead = l
    BY <1>n, DoingFields DEF CrmSteps
  <2> QED
    BY <2>1, <2>2, CrmFacts, CrmLooks
<1>3. ASSUME NEW r \in CrmRequests, NEW e \in Emails, LookUpEmail(r, e)
      PROVE  CrmInv'
  <2>1. /\ crm[r].step = "idle" /\ crm' = [crm EXCEPT ![r] = Doing("checked", NoLead, e, 0)]
        /\ lead' = lead /\ client' = client /\ crmCrashes' = crmCrashes
        /\ unlinked' = unlinked
        /\ overlapped' = [overlapped EXCEPT ![r] = FALSE]
        /\ \A c \in 1..Len(client) : client[c].email # e
    BY <1>3, CrmFacts DEF LookUpEmail, At, EmailIsFree
  <2>2. PICK d \in DoingType : /\ d = Doing("checked", NoLead, e, 0) /\ d.step = "checked"
                               /\ d.email = e
    BY <1>n, DoingFields DEF CrmSteps
  <2>3. /\ overlapped' \in [CrmRequests -> BOOLEAN] /\ ~overlapped'[r]
        /\ \A q \in CrmRequests : q # r => overlapped'[q] = overlapped[q]
    BY <2>1, CrmFacts
  <2> QED
    BY <2>1, <2>2, <2>3, CrmFacts, CrmLooks
<1>4. ASSUME NEW r \in CrmRequests, CreateRefused(r)
      PROVE  CrmInv'
  <2>1. /\ crm[r].step \in {"create", "createFrom"} /\ crm' = [crm EXCEPT ![r] = CrmIdle]
        /\ lead' = lead /\ client' = client /\ crmCrashes' = crmCrashes
        /\ unlinked' = unlinked
        /\ overlapped' = overlapped
    BY <1>4 DEF CreateRefused, At, Answer
  <2> QED
    BY <2>1, IdleFields, CrmFacts, CrmLooks
<1>5. ASSUME NEW r \in CrmRequests, Link(r)
      PROVE  CrmInv'
  <2>1. crm[r].step \in {"link", "linkFrom"}
    BY <1>5 DEF Link, At
  <2>2. PICK l \in Leads : l = crm[r].lead
    BY <2>1, CrmHolds DEF RequestOK
  <2>3. PICK c \in 0..MaxClients : c = crm[r].made
    BY CrmFacts DEF DoingType
  <2>4. PICK stage \in Stages : stage = IF At(r, {"linkFrom"}) THEN "WON" ELSE lead[l].stage
    BY <1>n, CrmFacts
  <2>5. /\ Becomes(l, stage, c) /\ Answer(r) /\ client' = client /\ crmCrashes' = crmCrashes
        /\ unlinked' = unlinked /\ overlapped' = overlapped
    BY <1>5, <2>2, <2>3, <2>4 DEF Link
  <2>6. /\ lead' \in [Leads -> LeadType] /\ lead'[l].client = crm[r].made
        /\ \A k \in Leads : k # l => lead'[k] = lead[k]
    BY <2>3, <2>5, Becoming
  <2>7. Links(r, l)
    BY <2>1, <2>2 DEF Links
  <2> QED
    BY <2>5, <2>6, <2>7, CrmFacts, CrmInvEndsLink
<1>6. ASSUME NEW r \in CrmRequests, CrmCrash(r)
      PROVE  CrmInv'
  <2>1. /\ crm' = [crm EXCEPT ![r] = CrmIdle] /\ lead' = lead /\ client' = client
        /\ overlapped' = overlapped /\ Answer(r)
        /\ crmCrashes' \in 0..MaxCrmCrashes
    BY <1>6, CrmFacts, CrmAssumption DEF CrmCrash, Answer
  <2>2. CASE crm[r].step \in {"link", "linkFrom"}
    <3>1. PICK l \in Leads : l = crm[r].lead
      BY <2>2, CrmHolds DEF RequestOK
    <3>2. unlinked' = unlinked \cup {l} /\ Links(r, l)
      BY <1>6, <2>2, <3>1 DEF CrmCrash, At, Links
    <3> QED
      BY <2>1, <3>2, CrmFacts, CrmInvEndsLink
  <2>3. CASE ~(crm[r].step \in {"link", "linkFrom"})
    <3>1. unlinked' = unlinked
      BY <1>6, <2>3 DEF CrmCrash, At
    <3> QED
      BY <2>1, <2>3, <3>1, IdleFields, CrmFacts, CrmLooks
  <2> QED
    BY <2>2, <2>3
<1>7. ASSUME NEW l \in Leads, NEW s \in Stages, MoveStage(l, s)
      PROVE  CrmInv'
  <2>1. PICK c \in 0..MaxClients : c = lead[l].client
    BY CrmFacts
  <2>2. /\ Becomes(l, s, c) /\ client' = client /\ crm' = crm /\ crmCrashes' = crmCrashes
        /\ unlinked' = unlinked /\ overlapped' = overlapped
    BY <1>7, <2>1 DEF MoveStage
  <2>3. /\ lead' \in [Leads -> LeadType] /\ \A k \in Leads : lead'[k].client = lead[k].client
    BY <2>1, <2>2, Becoming
  <2>4. CrmTypeOK'
    BY <2>2, <2>3, CrmFacts, CrmTypesBack
  <2>5. \A r \in CrmRequests : RequestOK(r)'
    BY <2>2, CrmHolds DEF RequestOK
  <2>6. Len(client') = Len(client)
        /\ \A c2 \in 1..Len(client) : /\ client'[c2].lead = client[c2].lead
    BY <2>2
  <2>7. \A r \in CrmRequests : crm'[r] = crm[r]
    BY <2>2
  <2> QED
    BY <2>2, <2>3, <2>4, <2>5, <2>6, <2>7, NoNewLink
<1>8. ASSUME NEW r \in CrmRequests, NEW c \in DOMAIN client, NEW e \in Emails,
             LookUpEdit(r, c, e)
       PROVE  CrmInv'
  <2>1. /\ crm[r].step = "idle" /\ crm' = [crm EXCEPT ![r] = Doing("editing", NoLead, e, c)]
        /\ lead' = lead /\ client' = client /\ crmCrashes' = crmCrashes
        /\ unlinked' = unlinked
        /\ overlapped' = [overlapped EXCEPT ![r] = FALSE]
        /\ client[c].email = e \/ \A o \in 1..Len(client) : client[o].email # e
    BY <1>8, CrmFacts DEF LookUpEdit, At, EmailIsFree
  <2>2. c \in 1..Len(client) /\ c \in 0..MaxClients
    BY CrmFacts, CrmAssumption
  <2>3. PICK d \in DoingType : /\ d = Doing("editing", NoLead, e, c) /\ d.step = "editing"
                               /\ d.email = e /\ d.made = c
    BY <1>n, <2>2, DoingFields DEF CrmSteps
  <2>4. /\ overlapped' \in [CrmRequests -> BOOLEAN]
        /\ \A q \in CrmRequests : q # r => overlapped'[q] = overlapped[q]
    BY <2>1, CrmFacts
  <2> QED
    BY <2>1, <2>2, <2>3, <2>4, CrmFacts, CrmLooks
<1>9. ASSUME NEW r \in CrmRequests, EditClient(r)
       PROVE  CrmInv'
  <2>1. crm[r].step = "editing"
    BY <1>9 DEF EditClient, At
  <2>2. PICK c \in 1..Len(client), email \in Emails : c = crm[r].made /\ email = crm[r].email
    BY <2>1, CrmHolds DEF RequestOK
  <2>3. /\ client' = [client EXCEPT ![c] = Row(client[c].lead, email)]
        /\ lead' = lead /\ crm' = [crm EXCEPT ![r] = CrmIdle] /\ crmCrashes' = crmCrashes
        /\ unlinked' = unlinked /\ Overlaps
    BY <1>9, <2>2 DEF EditClient, Answer
  <2>4. /\ client' \in Seq(ClientType) /\ Len(client') = Len(client)
        /\ \A e \in 1..Len(client) : client'[e].lead = client[e].lead
    BY <2>3, Rewriting
  <2>5. /\ crm' \in [CrmRequests -> DoingType] /\ crm'[r] = CrmIdle
        /\ \A q \in CrmRequests : q # r => crm'[q] = crm[q]
    BY <2>3, CrmFacts, Moves, IdleFields
  <2>6. /\ overlapped' \in [CrmRequests -> BOOLEAN]
        /\ \A q \in CrmRequests : ~overlapped'[q] => ~(crm[q].step \in {"checked", "editing"})
    BY <2>3, Overlapping
  <2>7. CrmTypeOK'
    BY <2>3, <2>4, <2>5, <2>6, CrmFacts, CrmTypesBack
  <2>8. \A q \in CrmRequests : RequestOK(q)'
    BY <2>4, <2>5, <2>6, CrmHolds, IdleFields DEF RequestOK
  <2>9. /\ \A q \in CrmRequests : crm'[q] = crm[q] \/ ~(crm'[q].step \in {"link", "linkFrom"})
        /\ \A q \in CrmRequests : crm[q].step \in {"link", "linkFrom"} => crm'[q] = crm[q]
    BY <2>1, <2>5, IdleFields
  <2> QED
    BY <2>3, <2>4, <2>7, <2>8, <2>9, NoNewLink
<1>10. CASE UNCHANGED crmVars
  <2>1. /\ client' = client /\ lead' = lead /\ crm' = crm /\ crmCrashes' = crmCrashes
        /\ unlinked' = unlinked /\ overlapped' = overlapped
    BY <1>10 DEF crmVars
  <2>2. CrmTypeOK'
    BY <2>1, CrmFacts, CrmTypesBack
  <2>3. \A r \in CrmRequests : RequestOK(r)'
    BY <2>1, CrmHolds DEF RequestOK
  <2> QED
    BY <2>1, <2>2, <2>3, NoNewLink
<1> QED
  BY <1>1, <1>2, <1>3, <1>4, <1>5, <1>6, <1>7, <1>8, <1>9, <1>10,
     CrmInvCreateFromLead, CrmInvCreateClient DEF CrmNext

LEMMA CrmInvTraceable == CrmInv => CrmTypeOK /\ LinkIsMutual /\ HalfConversionHasACause
<1> SUFFICES ASSUME CrmInv PROVE CrmTypeOK /\ LinkIsMutual /\ HalfConversionHasACause
  OBVIOUS
<1>1. LinkIsMutual
  <2>1. ASSUME NEW c \in 1..Len(client), NEW d \in 1..Len(client),
               client[c].lead = client[d].lead, client[c].lead # NoLead
        PROVE  c = d
    <3>1. client[c].lead \in Leads
      BY <2>1, CrmFacts
    <3> QED
      BY <2>1, <3>1, CrmHolds DEF ClientOK
  <2>2. \A l \in Leads : lead[l].client # 0 => client[lead[l].client].lead = l
    BY CrmHolds DEF LeadOK
  <2> QED
    BY <2>1, <2>2, CrmFacts DEF LinkIsMutual
<1>2. HalfConversionHasACause
  <2>1. ASSUME NEW c \in 1..Len(client), NEW l \in Leads, client[c].lead = l,
               lead[l].client = 0
        PROVE  l \in unlinked \/ \E r \in CrmRequests : crm[r].lead = l /\ At(r, {"link", "linkFrom"})
    BY <2>1, CrmHolds DEF ClientOK, Links, At
  <2>2. \A c \in 1..Len(client) : client[c].lead # NoLead => client[c].lead \in Leads
    BY CrmFacts
  <2>3. \A l \in unlinked : lead[l].client = 0
    BY CrmFacts, CrmHolds DEF LeadOK
  <2> QED
    BY <2>1, <2>2, <2>3, CrmFacts DEF HalfConversionHasACause
<1> QED
  BY <1>1, <1>2 DEF CrmInv

LEMMA AddressGiven ==
  ASSUME CrmInv, NEW r \in CrmRequests, GivesAddress(r), ~overlapped[r]
  PROVE  \A c \in DOMAIN client : client[c].email # crm[r].email
BY CrmFacts, CrmHolds DEF GivesAddress, CreateClient, EditClient, At, RequestOK

(* Leads and clients tell the same story of a conversion, or the story of  *)
(* where it stopped.                                                       *)
LEMMA CrmHoldsAlways == CrmInit /\ [][CrmNext]_crmVars => ConversionIsTraceable
<1>1. CrmInv /\ [CrmNext]_crmVars =>
        [\A r \in CrmRequests :
          GivesAddress(r) /\ ~overlapped[r]
            => \A c \in DOMAIN client : client[c].email # crm[r].email]_crmVars
  BY AddressGiven
<1> QED
  BY <1>1, CrmInvInit, CrmInvStep, CrmInvTraceable, PTL DEF ConversionIsTraceable,
     DuplicateEmailHasACause
-----------------------------------------------------------------------------
(* Time off.                                                               *)

(* What a review in flight has read is still so, unless somebody has       *)
(* written since.                                                          *)
ReviewType == [leave : Requested \cup {"none"}, verdict : Verdicts \cup {"none"},
               copy : EmployeeStatus \cup {"none"}]
ReviewOK(v) ==
  Reviewing(v) => /\ review[v].leave \in Requested /\ review[v].verdict \in Verdicts
                  /\ ~edited[v] => review[v].copy = employee
TimeOffInv ==
  /\ employee \in EmployeeStatus
  /\ leave \in [Requested -> Verdicts \cup {"none"}]
  /\ review \in [Reviewers -> ReviewType]
  /\ hrEdits \in 0..MaxHrEdits /\ edited \in [Reviewers -> BOOLEAN]
  /\ takenBack \subseteq Requested /\ onLeaveBy \subseteq Requested \cup {"HR"}
  /\ onLeaveBy # {} <=> employee = "ON_LEAVE"
  /\ AbsenceIsApproved
  /\ \A v \in Reviewers : ReviewOK(v)

LEMMA DisturbsEdits ==
  ASSUME NEW except, edited \in [Reviewers -> BOOLEAN], Disturbs(except)
  PROVE  /\ edited' \in [Reviewers -> BOOLEAN]
         /\ \A v \in Reviewers : ~edited'[v] => ~edited[v] /\ (v = except \/ ~Reviewing(v))
<1>1. \A v \in Reviewers : (edited[v] \/ (v # except /\ Reviewing(v))) \in BOOLEAN
  OBVIOUS
<1>2. edited' = [v \in Reviewers |-> edited[v] \/ (v # except /\ Reviewing(v))]
  BY DEF Disturbs
<1>3. edited' \in [Reviewers -> BOOLEAN]
  BY <1>1, <1>2, Zenon
<1>4. \A v \in Reviewers : edited'[v] = (edited[v] \/ (v # except /\ Reviewing(v)))
  BY <1>2, Zenon
<1>5. \A v \in Reviewers : ~edited'[v] => ~edited[v] /\ (v = except \/ ~Reviewing(v))
  BY <1>4
<1> QED
  BY <1>3, <1>5

LEMMA TimeOffInvInit == TimeOffInit => TimeOffInv
BY TimeOffAssumption DEF TimeOffInit, TimeOffInv, AbsenceIsApproved, ReviewOK,
   Reviewing, ReviewType,
   NoReview, EmployeeStatus, Verdicts

LEMMA TimeOffInvStep ==
  ASSUME TimeOffInv, [TimeOffNext]_timeOffVars
  PROVE  TimeOffInv'
<1> USE TimeOffAssumption
<1>0. /\ employee \in EmployeeStatus
      /\ leave \in [Requested -> Verdicts \cup {"none"}]
      /\ review \in [Reviewers -> ReviewType]
      /\ hrEdits \in 0..MaxHrEdits /\ edited \in [Reviewers -> BOOLEAN]
      /\ takenBack \subseteq Requested /\ onLeaveBy \subseteq Requested \cup {"HR"}
      /\ onLeaveBy # {} <=> employee = "ON_LEAVE"
      /\ AbsenceIsApproved
      /\ \A v \in Reviewers : ReviewOK(v)
  BY DEF TimeOffInv
<1>n. NoReview \in ReviewType
  BY DEF NoReview, ReviewType
<1>1. ASSUME NEW l \in Requested, Ask(l)
      PROVE  TimeOffInv'
  <2>1. /\ leave' \in [Requested -> Verdicts \cup {"none"}]
        /\ \A x \in Requested : leave[x] = "APPROVED" => leave'[x] = leave[x]
    BY <1>0, <1>1 DEF Ask, Verdicts
  <2>2. AbsenceIsApproved'
    BY <1>0, <1>1, <2>1 DEF Ask, AbsenceIsApproved
  <2> QED
    BY <1>0, <1>1, <2>1, <2>2 DEF Ask, TimeOffInv, ReviewOK, Reviewing
<1>2. ASSUME NEW v \in Reviewers, NEW l \in Requested, NEW verdict \in Verdicts,
             ReadLeave(v, l, verdict)
      PROVE  TimeOffInv'
  <2>1. [leave |-> l, verdict |-> verdict, copy |-> employee] \in ReviewType
    BY <1>0 DEF ReviewType
  <2>2. /\ review' \in [Reviewers -> ReviewType]
        /\ review'[v] = [leave |-> l, verdict |-> verdict, copy |-> employee]
        /\ \A w \in Reviewers : w # v => review'[w] = review[w]
    BY <1>0, <1>2, <2>1 DEF ReadLeave
  <2>3. edited' \in [Reviewers -> BOOLEAN] /\ \A w \in Reviewers : w # v => edited'[w] = edited[w]
    BY <1>0, <1>2, Zenon DEF ReadLeave
  <2>4. \A w \in Reviewers : ReviewOK(w)'
    BY <1>0, <1>2, <2>2, <2>3 DEF ReadLeave, ReviewOK, Reviewing
  <2> QED
    BY <1>0, <1>2, <2>2, <2>3, <2>4 DEF ReadLeave, TimeOffInv, AbsenceIsApproved
<1>3. ASSUME NEW v \in Reviewers, Decide(v)
      PROVE  TimeOffInv'
  <2>l. PICK l \in Requested : l = review[v].leave
    BY <1>0, <1>3 DEF Decide, ReviewOK
  <2>1. /\ review[v].verdict \in Verdicts
        /\ leave' = [leave EXCEPT ![l] = review[v].verdict]
        /\ review' = [review EXCEPT ![v] = NoReview] /\ hrEdits' = hrEdits
        /\ review[v].verdict = "APPROVED" => takenBack' = takenBack \ {l}
        /\ review[v].verdict # "APPROVED" =>
             takenBack' = takenBack \cup {x \in {l} : leave[x] = "APPROVED"}
    BY <1>0, <1>3, <2>l DEF Decide, ReviewOK
  <2>2. \/ employee' = "ON_LEAVE" /\ onLeaveBy' = {l} /\ Disturbs(v)
           /\ review[v].verdict = "APPROVED"
        \/ employee' = employee /\ onLeaveBy' = onLeaveBy /\ edited' = edited
    BY <1>3, <2>l DEF Decide, TakesLeave
  <2>3. /\ leave' \in [Requested -> Verdicts \cup {"none"}]
        /\ leave'[l] = review[v].verdict
        /\ \A x \in Requested : x # l => leave'[x] = leave[x]
        /\ takenBack' \subseteq Requested
        /\ review' \in [Reviewers -> ReviewType]
        /\ review'[v] = NoReview
        /\ \A w \in Reviewers : w # v => review'[w] = review[w]
    BY <1>0, <1>n, <2>1
  <2>4. /\ edited' \in [Reviewers -> BOOLEAN]
        /\ employee' # employee => Disturbs(v)
        /\ \A w \in Reviewers : ~edited'[w] => ~edited[w]
    BY <1>0, <2>2, DisturbsEdits
  <2>5. \A w \in Reviewers : ReviewOK(w)'
    <3> SUFFICES ASSUME NEW w \in Reviewers, Reviewing(w)'
                 PROVE  /\ review'[w].leave \in Requested /\ review'[w].verdict \in Verdicts
                        /\ ~edited'[w] => review'[w].copy = employee'
      BY DEF ReviewOK
    <3>1. w # v /\ Reviewing(w) /\ review'[w] = review[w] /\ ReviewOK(w)
      BY <1>0, <2>3 DEF Reviewing
    <3>2. ~edited'[w] => employee' = employee
      BY <1>0, <2>4, <3>1, DisturbsEdits
    <3> QED
      BY <2>4, <3>1, <3>2 DEF ReviewOK
  <2>6. \A x \in onLeaveBy \ {"HR"} : leave'[x] = "APPROVED" \/ x \in takenBack'
    <3> SUFFICES ASSUME NEW x \in onLeaveBy \ {"HR"}
                 PROVE  leave'[x] = "APPROVED" \/ x \in takenBack'
      OBVIOUS
    <3>1. x \in Requested /\ (leave[x] = "APPROVED" \/ x \in takenBack)
      BY <1>0 DEF AbsenceIsApproved
    <3> QED
      BY <2>1, <2>3, <3>1
  <2>7. AbsenceIsApproved' /\ onLeaveBy' \subseteq Requested \cup {"HR"}
        /\ (onLeaveBy' # {} <=> employee' = "ON_LEAVE") /\ employee' \in EmployeeStatus
    BY <1>0, <2>2, <2>3, <2>6 DEF AbsenceIsApproved, EmployeeStatus
  <2> QED
    BY <1>0, <2>1, <2>3, <2>4, <2>5, <2>7 DEF TimeOffInv
<1>4. ASSUME NEW v \in Reviewers, GivesUp(v)
      PROVE  TimeOffInv'
  <2>1. /\ review' \in [Reviewers -> ReviewType] /\ review'[v] = NoReview
        /\ \A w \in Reviewers : w # v => review'[w] = review[w]
    BY <1>0, <1>n, <1>4 DEF GivesUp
  <2> QED
    BY <1>0, <1>4, <2>1 DEF GivesUp, TimeOffInv, AbsenceIsApproved, ReviewOK, Reviewing
<1>5. ASSUME NEW s \in EmployeeStatus, SetStatus(s)
      PROVE  TimeOffInv'
  <2>1. /\ hrEdits' \in 0..MaxHrEdits /\ employee' = s
        /\ leave' = leave /\ review' = review /\ takenBack' = takenBack
        /\ s = "ON_LEAVE" => onLeaveBy' = {"HR"}
        /\ s # "ON_LEAVE" => onLeaveBy' = {}
        /\ Disturbs("HR")
    BY <1>0, <1>5 DEF SetStatus
  <2>2. /\ edited' \in [Reviewers -> BOOLEAN]
        /\ \A w \in Reviewers : ~edited'[w] => ~Reviewing(w)
    BY <1>0, <2>1, DisturbsEdits
  <2>3. \A w \in Reviewers : ReviewOK(w)'
    BY <1>0, <2>1, <2>2 DEF ReviewOK, Reviewing
  <2> QED
    BY <1>0, <2>1, <2>2, <2>3 DEF TimeOffInv, AbsenceIsApproved
<1>6. CASE UNCHANGED timeOffVars
  BY <1>0, <1>6 DEF timeOffVars, TimeOffInv, AbsenceIsApproved, ReviewOK, Reviewing
<1> QED
  BY <1>1, <1>2, <1>3, <1>4, <1>5, <1>6 DEF TimeOffNext

LEMMA TimeOffInvType == TimeOffInv => TimeOffTypeOK /\ AbsenceIsApproved
BY DEF TimeOffInv, TimeOffTypeOK, ReviewType

LEMMA ApprovalStep ==
  ASSUME TimeOffInv, NEW v \in Reviewers, Decide(v), ~edited[v]
  PROVE  /\ review[v].verdict = "APPROVED" => employee' # "ACTIVE"
         /\ employee = "TERMINATED" => employee' = "TERMINATED"
<1>1. review[v].copy = employee
  BY DEF TimeOffInv, ReviewOK, Decide
<1> QED
  BY <1>1 DEF Decide, TakesLeave

(* Leaves and the employee's status agree as far as the transactions can   *)
(* make them.                                                              *)
LEMMA TimeOffHolds == TimeOffInit /\ [][TimeOffNext]_timeOffVars => AbsenceIsAccountedFor
<1>1. TimeOffInv /\ [TimeOffNext]_timeOffVars =>
        [\A v \in Reviewers : Decide(v) /\ ~edited[v] =>
          /\ review[v].verdict = "APPROVED" => employee' # "ACTIVE"
          /\ employee = "TERMINATED" => employee' = "TERMINATED"]_timeOffVars
  BY ApprovalStep
<1> QED
  BY <1>1, TimeOffInvInit, TimeOffInvStep, TimeOffInvType, PTL
  DEF AbsenceIsAccountedFor, ApprovalIsConsistent
-----------------------------------------------------------------------------
(* Attendance.                                                             *)

(* A request that nothing has beaten may still do what it is about to do.  *)
AttendanceInv ==
  /\ AttendanceTypeOK
  /\ \A n \in 1..Len(punches) : punches[n].at <= moment
  /\ \A r \in Punchers, type \in Types : punch[r] = type /\ ~beaten[r] => MayPunch(type)

PunchType == [type : Types, at : 0..Days * DayLength]

LEMMA AttendanceInvInit == AttendanceInit => AttendanceInv
<1> SUFFICES ASSUME AttendanceInit PROVE AttendanceInv
  OBVIOUS
<1>1. moment = 0 /\ punches = <<>> /\ punch = [r \in Punchers |-> NoPunch]
  BY DEF AttendanceInit
<1>2. beaten \in [Punchers -> BOOLEAN]
  BY DEF AttendanceInit
<1>3. moment \in 0..Days * DayLength
  <2>1. Days * DayLength \in Nat
    BY AttendanceAssumption
  <2> QED
    BY <1>1, <2>1
<1>4. punches \in Seq(PunchType) /\ Len(punches) = 0
  BY <1>1
<1>5. AttendanceTypeOK
  BY <1>1, <1>2, <1>3, <1>4 DEF AttendanceTypeOK, PunchType
<1>6. \A r \in Punchers, type \in Types : punch[r] # type
  BY <1>1, AttendanceAssumption DEF Types
<1> QED
  BY <1>4, <1>5, <1>6 DEF AttendanceInv

(* A punch looks at nothing but the punches and the day.                   *)
LEMMA SameDay ==
  ASSUME UNCHANGED punches, DayOf(moment') = DayOf(moment), NEW type
  PROVE  MayPunch(type)' <=> MayPunch(type)
BY DEF MayPunch, Latest, IsToday, DayOf

LEMMA LookStep ==
  ASSUME AttendanceInv, NEW r \in Punchers, NEW type \in Types, Look(r, type)
  PROVE  AttendanceInv'
<1>1. UNCHANGED <<moment, punches>> /\ MayPunch(type)
  BY DEF Look
<1>2. punch' \in [Punchers -> Types \cup {NoPunch}]
  BY DEF Look, AttendanceInv, AttendanceTypeOK
<1>3. beaten' \in [Punchers -> BOOLEAN]
  BY DEF Look, AttendanceInv, AttendanceTypeOK
<1>4. ASSUME NEW q \in Punchers, NEW kind \in Types, punch'[q] = kind, ~beaten'[q]
      PROVE  MayPunch(kind)
  <2>1. CASE q = r
    <3>1. punch'[q] = type
      BY <2>1 DEF Look, AttendanceInv, AttendanceTypeOK
    <3> QED
      BY <1>1, <1>4, <3>1
  <2>2. CASE q # r
    <3>1. punch'[q] = punch[q]
      BY <2>2 DEF Look, AttendanceInv, AttendanceTypeOK
    <3>2. ~beaten[q]
      BY <1>4, <2>2, Zenon DEF Look, AttendanceInv, AttendanceTypeOK
    <3> QED
      BY <1>4, <3>1, <3>2 DEF AttendanceInv
  <2> QED
    BY <2>1, <2>2
<1>5. \A kind \in Types : MayPunch(kind)' <=> MayPunch(kind)
  BY <1>1, SameDay
<1>6. AttendanceTypeOK'
  BY <1>1, <1>2, <1>3 DEF AttendanceInv, AttendanceTypeOK
<1> QED
  BY <1>1, <1>4, <1>5, <1>6 DEF AttendanceInv

LEMMA LostStep ==
  ASSUME AttendanceInv, NEW r \in Punchers, Lost(r)
  PROVE  AttendanceInv'
<1>1. UNCHANGED <<moment, punches, beaten>>
  BY DEF Lost
<1>2. punch' \in [Punchers -> Types \cup {NoPunch}]
  BY DEF Lost, AttendanceInv, AttendanceTypeOK
<1>3. ASSUME NEW q \in Punchers, punch'[q] # NoPunch PROVE punch'[q] = punch[q]
  BY <1>3 DEF Lost, AttendanceInv, AttendanceTypeOK
<1>4. ASSUME NEW q \in Punchers, NEW kind \in Types, punch'[q] = kind, ~beaten'[q]
      PROVE  MayPunch(kind)
  <2>1. punch'[q] # NoPunch
    BY <1>4, AttendanceAssumption DEF Types
  <2> QED
    BY <1>1, <1>3, <1>4, <2>1 DEF AttendanceInv
<1>5. \A kind \in Types : MayPunch(kind)' <=> MayPunch(kind)
  BY <1>1, SameDay
<1>6. AttendanceTypeOK'
  BY <1>1, <1>2 DEF AttendanceInv, AttendanceTypeOK
<1> QED
  BY <1>1, <1>4, <1>5, <1>6 DEF AttendanceInv

LEMMA RecordStep ==
  ASSUME AttendanceInv, NEW r \in Punchers, Record(r)
  PROVE  AttendanceInv'
<1>1. moment' = moment /\ punch[r] \in Types /\ moment \in 0..Days * DayLength
      /\ punches \in Seq(PunchType)
  BY DEF Record, AttendanceInv, AttendanceTypeOK, PunchType
<1>2. PICK p \in PunchType : p = [type |-> punch[r], at |-> moment]
  BY <1>1 DEF PunchType
<1>3. punches' = Append(punches, p)
  BY <1>2 DEF Record
<1>4. punches' \in Seq(PunchType) /\ Len(punches') = Len(punches) + 1 /\ Len(punches) \in Nat
      /\ punches'[Len(punches) + 1] = p
      /\ \A n \in 1..Len(punches) : punches'[n] = punches[n]
  BY <1>1, <1>3
<1>5. \A n \in 1..Len(punches') : punches'[n].at <= moment'
  <2>1. SUFFICES ASSUME NEW n \in 1..Len(punches') PROVE punches'[n].at <= moment
    BY <1>1
  <2>2. p.at = moment /\ moment \in Int
    BY <1>1, <1>2
  <2>3. CASE n = Len(punches) + 1
    BY <1>4, <2>2, <2>3
  <2>4. CASE n \in 1..Len(punches)
    BY <1>4, <2>4 DEF AttendanceInv
  <2> QED
    BY <1>4, <2>3, <2>4
<1>6. \A n \in 2..Len(punches') : punches'[n - 1].at <= punches'[n].at
  <2>1. SUFFICES ASSUME NEW n \in 2..Len(punches') PROVE punches'[n - 1].at <= punches'[n].at
    OBVIOUS
  <2>2. CASE n = Len(punches) + 1
    <3>1. n - 1 \in 1..Len(punches) /\ punches'[n].at = moment
      BY <1>2, <1>4, <2>1, <2>2
    <3> QED
      BY <1>4, <3>1 DEF AttendanceInv
  <2>3. CASE n \in 2..Len(punches)
    BY <1>4, <2>3 DEF AttendanceInv, AttendanceTypeOK
  <2> QED
    BY <1>4, <2>2, <2>3
<1>7. punch' \in [Punchers -> Types \cup {NoPunch}]
  BY DEF Record, AttendanceInv, AttendanceTypeOK
<1>8. beaten' \in [Punchers -> BOOLEAN]
  BY Zenon DEF Record, AttendanceInv, AttendanceTypeOK
<1>9. ASSUME NEW q \in Punchers, punch'[q] # NoPunch, ~beaten'[q] PROVE FALSE
  <2>1. q # r /\ punch'[q] = punch[q]
    BY <1>9 DEF Record, AttendanceInv, AttendanceTypeOK
  <2>2. ~(q # r /\ punch[q] # NoPunch)
    BY <1>9, Zenon DEF Record
  <2> QED
    BY <1>9, <2>1, <2>2
<1>10. (AttendanceTypeOK)'
  BY <1>1, <1>4, <1>6, <1>7, <1>8 DEF AttendanceTypeOK, PunchType
<1>11. \A q \in Punchers, kind \in Types : punch'[q] = kind => punch'[q] # NoPunch
  BY AttendanceAssumption DEF Types
<1> QED
  BY <1>5, <1>9, <1>10, <1>11 DEF AttendanceInv

LEMMA MomentStep ==
  ASSUME AttendanceInv, MomentPasses
  PROVE  AttendanceInv'
<1>1. UNCHANGED <<punches, punch>> /\ moment' = moment + 1 /\ moment' \in 0..Days * DayLength
      /\ moment \in Nat
  <2>1. Days * DayLength \in Nat
    BY AttendanceAssumption
  <2> QED
    BY <2>1 DEF MomentPasses, AttendanceInv, AttendanceTypeOK
<1>2. beaten' \in [Punchers -> BOOLEAN]
  BY Zenon DEF MomentPasses, AttendanceInv, AttendanceTypeOK
<1>3. \A n \in 1..Len(punches) : punches[n].at <= moment /\ punches[n].at \in Int
  <2>1. punches \in Seq(PunchType)
    BY DEF AttendanceInv, AttendanceTypeOK, PunchType
  <2>2. \A p \in PunchType : p.at \in Int
    BY DEF PunchType
  <2>3. \A n \in 1..Len(punches) : punches[n] \in PunchType
    BY <2>1
  <2> QED
    BY <2>2, <2>3 DEF AttendanceInv
<1>4. \A n \in 1..Len(punches') : punches'[n].at <= moment'
  BY <1>1, <1>3
<1>5. ASSUME NEW q \in Punchers, NEW kind \in Types, punch'[q] = kind, ~beaten'[q]
      PROVE  MayPunch(kind)' <=> MayPunch(kind)
  <2>1. ~(beaten[q] \/ (punch[q] # NoPunch /\ DayOf(moment') # DayOf(moment)))
    BY <1>5, Zenon DEF MomentPasses
  <2>2. punch[q] # NoPunch
    BY <1>1, <1>5, AttendanceAssumption DEF Types
  <2> QED
    BY <1>1, <2>1, <2>2, SameDay
<1>6. ASSUME NEW q \in Punchers, NEW kind \in Types, punch'[q] = kind, ~beaten'[q]
      PROVE  MayPunch(kind)'
  <2>1. ~beaten[q]
    BY <1>6, Zenon DEF MomentPasses
  <2>2. MayPunch(kind)
    BY <1>1, <1>6, <2>1 DEF AttendanceInv
  <2> QED
    BY <1>5, <1>6, <2>2
<1>7. AttendanceTypeOK'
  BY <1>1, <1>2 DEF AttendanceInv, AttendanceTypeOK
<1> QED
  BY <1>4, <1>6, <1>7 DEF AttendanceInv

LEMMA AttendanceInvStep == AttendanceInv /\ [AttendanceNext]_attendanceVars => AttendanceInv'
<1> SUFFICES ASSUME AttendanceInv, [AttendanceNext]_attendanceVars PROVE AttendanceInv'
  OBVIOUS
<1>1. CASE UNCHANGED attendanceVars
  BY <1>1 DEF attendanceVars, AttendanceInv, AttendanceTypeOK, MayPunch, Latest,
     IsToday, DayOf
<1>2. CASE AttendanceNext
  BY <1>2, LookStep, LostStep, RecordStep, MomentStep DEF AttendanceNext
<1> QED
  BY <1>1, <1>2

LEMMA TurnsStep ==
  ASSUME AttendanceInv, NEW r \in Punchers, Record(r), ~beaten[r]
  PROVE  LET n == Len(punches) IN
         IF n > 0 /\ DayOf(punches[n].at) = DayOf(moment)
           THEN punch[r] # punches[n].type ELSE punch[r] = "CHECK_IN"
<1>1. MayPunch(punch[r]) /\ punch[r] \in Types
  BY DEF AttendanceInv, AttendanceTypeOK, Record
<1>2. PICK n \in Nat : n = Len(punches)
  BY DEF AttendanceInv, AttendanceTypeOK
<1>3. CASE n > 0 /\ DayOf(punches[n].at) = DayOf(moment)
  <2>1. Latest = punches[n].type
    BY <1>2, <1>3 DEF Latest, IsToday
  <2> QED
    BY <1>1, <1>2, <1>3, <2>1 DEF MayPunch, Types
<1>4. CASE ~(n > 0 /\ DayOf(punches[n].at) = DayOf(moment))
  <2>1. Latest = NoPunch
    BY <1>2, <1>4 DEF Latest, IsToday
  <2> QED
    BY <1>1, <1>2, <1>4, <2>1, AttendanceAssumption DEF MayPunch, Types
<1> QED
  BY <1>3, <1>4

LEMMA TurnsHold == AttendanceInit /\ [][AttendanceNext]_attendanceVars => PunchesTakeTurns
<1>1. AttendanceInv /\ [AttendanceNext]_attendanceVars =>
        [\A r \in Punchers :
          Record(r) /\ ~beaten[r] =>
             LET n == Len(punches) IN
             IF n > 0 /\ DayOf(punches[n].at) = DayOf(moment)
               THEN punch[r] # punches[n].type
               ELSE punch[r] = "CHECK_IN"]_attendanceVars
  BY TurnsStep
<1> QED
  BY <1>1, AttendanceInvInit, AttendanceInvStep, PTL DEF PunchesTakeTurns

-----------------------------------------------------------------------------
TallyType == [open : Nat \cup {NoPunch}, total : Nat]

(* The monthly summary of a sequence of punches, and the moments at work.  *)
IsTally(f, s) ==
  f = [n \in 0..Len(s) |-> IF n = 0 THEN NoHours ELSE Tally(f[n - 1], s[n])]

Ordered(s) == \A m, n \in 1..Len(s) : m <= n => s[m].at <= s[n].at
Until(s, at) == \A n \in 1..Len(s) : s[n].at <= at

AtWork(s, t) ==
  \E n \in 1..Len(s) :
     /\ s[n].type = "CHECK_IN" /\ s[n].at <= t
     /\ \A m \in n + 1..Len(s) : s[m].at <= t => s[m].type = "CHECK_IN"
     /\ \E m \in n + 1..Len(s) : s[m].type = "CHECK_OUT" /\ s[m].at > t
Times(s, at) == {t \in 0..at : AtWork(s, t)}

Paired(s) == \A n \in 1..Len(s) - 1 : s[n].type = "CHECK_IN" => s[n + 1].type # "CHECK_IN"

LEMMA Appended ==
  ASSUME NEW s \in Seq(PunchType), NEW p \in PunchType
  PROVE  /\ Append(s, p) \in Seq(PunchType) /\ Len(s) \in Nat
         /\ Len(Append(s, p)) = Len(s) + 1 /\ Append(s, p)[Len(s) + 1] = p
         /\ \A n \in 1..Len(s) : Append(s, p)[n] = s[n]
OBVIOUS

LEMMA Extending ==
  ASSUME NEW s \in Seq(PunchType), NEW p \in PunchType, NEW f, IsTally(f, s)
  PROVE  \E g : IsTally(g, Append(s, p))
<1> DEFINE N == Len(s)
           z == Append(s, p)
           g == [n \in 0..N + 1 |-> IF n <= N THEN f[n] ELSE Tally(f[N], p)]
<1>1. /\ N \in Nat /\ Len(z) = N + 1 /\ z[N + 1] = p
      /\ \A n \in 1..N : z[n] = s[n]
  BY Appended
<1> HIDE DEF N, z
<1>2. \A n \in 0..N : f[n] = IF n = 0 THEN NoHours ELSE Tally(f[n - 1], s[n])
  BY DEF IsTally, N
<1>3. ASSUME NEW n \in 0..N + 1
      PROVE  g[n] = IF n = 0 THEN NoHours ELSE Tally(g[n - 1], z[n])
  <2>1. CASE n = 0
    BY <2>1, <1>1, <1>2
  <2>2. CASE n \in 1..N
    <3>1. g[n] = f[n] /\ g[n - 1] = f[n - 1] /\ z[n] = s[n] /\ n # 0 /\ n \in 0..N
      BY <2>2, <1>1
    <3> QED
      BY <3>1, <1>2
  <2>3. CASE n = N + 1
    <3>1. g[n] = Tally(f[N], p) /\ g[n - 1] = f[N] /\ z[n] = p /\ n # 0
      BY <2>3, <1>1
    <3> QED
      BY <3>1
  <2> QED
    BY <2>1, <2>2, <2>3, <1>1
<1>4. g = [n \in 0..Len(z) |-> IF n = 0 THEN NoHours ELSE Tally(g[n - 1], z[n])]
  <2> DEFINE h == [n \in 0..Len(z) |-> IF n = 0 THEN NoHours ELSE Tally(g[n - 1], z[n])]
  <2>1. DOMAIN g = 0..N + 1 /\ DOMAIN h = 0..N + 1 /\ \A n \in 0..N + 1 : g[n] = h[n]
    BY <1>1, <1>3
  <2>2. g = [n \in 0..N + 1 |-> g[n]] /\ h = [n \in 0..N + 1 |-> h[n]]
    BY <1>1
  <2> HIDE DEF g, h
  <2>3. g = h
    BY <2>1, <2>2
  <2> QED
    BY <2>3 DEF h
<1> QED
  BY <1>4 DEF IsTally, z

LEMMA Restricting ==
  ASSUME NEW s \in Seq(PunchType), NEW p \in PunchType, NEW g, IsTally(g, Append(s, p))
  PROVE  /\ IsTally([n \in 0..Len(s) |-> g[n]], s)
         /\ g[Len(s) + 1] = Tally(g[Len(s)], p)
<1> DEFINE N == Len(s)
           z == Append(s, p)
           f == [n \in 0..N |-> g[n]]
<1>1. /\ N \in Nat /\ Len(z) = N + 1 /\ z[N + 1] = p
      /\ \A n \in 1..N : z[n] = s[n]
  BY Appended
<1>2. g = [n \in 0..Len(z) |-> IF n = 0 THEN NoHours ELSE Tally(g[n - 1], z[n])]
  BY DEF IsTally
<1> HIDE DEF N, z
<1>3. \A n \in 0..N + 1 : g[n] = IF n = 0 THEN NoHours ELSE Tally(g[n - 1], z[n])
  BY <1>1, <1>2
<1>4. g[N + 1] = Tally(g[N], p)
  <2>1. N + 1 \in 0..N + 1 /\ N + 1 # 0 /\ N + 1 - 1 = N
    BY <1>1
  <2> QED
    BY <2>1, <1>1, <1>3
<1>5. ASSUME NEW n \in 0..N
      PROVE  f[n] = IF n = 0 THEN NoHours ELSE Tally(f[n - 1], s[n])
  <2>1. CASE n = 0
    BY <2>1, <1>1, <1>3
  <2>2. CASE n # 0
    <3>1. f[n] = g[n] /\ f[n - 1] = g[n - 1] /\ z[n] = s[n] /\ n \in 0..N + 1
      BY <2>2, <1>1
    <3> QED
      BY <3>1, <2>2, <1>3
  <2> QED
    BY <2>1, <2>2
<1>6. f = [n \in 0..N |-> IF n = 0 THEN NoHours ELSE Tally(f[n - 1], s[n])]
  <2> DEFINE h == [n \in 0..N |-> IF n = 0 THEN NoHours ELSE Tally(f[n - 1], s[n])]
  <2>1. \A n \in 0..N : f[n] = h[n]
    BY <1>5
  <2>2. f = [n \in 0..N |-> f[n]] /\ h = [n \in 0..N |-> h[n]]
    OBVIOUS
  <2> HIDE DEF f, h
  <2>3. f = h
    BY <2>1, <2>2
  <2> QED
    BY <2>3 DEF h
<1> QED
  BY <1>4, <1>6 DEF IsTally, N

-----------------------------------------------------------------------------
(* What a punch adds to the moments at work.                               *)
LEMMA PunchFields == \A q \in PunchType : q.at \in Nat /\ q.type \in Types
<1>1. \A q \in PunchType : q.at \in 0..Days * DayLength /\ q.type \in Types
  BY DEF PunchType
<1> QED
  BY <1>1

LEMMA TimesAreFinite ==
  ASSUME NEW s, NEW at \in Nat
  PROVE  IsFiniteSet(Times(s, at)) /\ Cardinality(Times(s, at)) \in Nat
<1>1. IsFiniteSet(0..at)
  BY FS_Interval
<1>2. Times(s, at) \subseteq 0..at
  BY DEF Times
<1> QED
  BY <1>1, <1>2, FS_Subset, FS_CardinalityType

LEMMA TimesLater ==
  ASSUME NEW s \in Seq(PunchType), NEW at \in Nat, Until(s, at)
  PROVE  Times(s, at + 1) = Times(s, at)
<1>1. Len(s) \in Nat /\ \A n \in 1..Len(s) : s[n].at \in Nat
  BY PunchFields
<1>2. ~AtWork(s, at + 1)
  BY <1>1 DEF AtWork, Until
<1>3. 0..at + 1 = 0..at \cup {at + 1}
  OBVIOUS
<1> QED
  BY <1>2, <1>3 DEF Times

(* The punch that comes is the latest.                                     *)
LEMMA AppendedFacts ==
  ASSUME NEW s \in Seq(PunchType), NEW p \in PunchType, NEW N, N = Len(s),
         NEW z, z = Append(s, p)
  PROVE  /\ N \in Nat /\ Len(z) = N + 1 /\ z[N + 1] = p
         /\ \A n \in 1..N : z[n] = s[n] /\ s[n].at \in Nat /\ s[n].type \in Types
         /\ p.at \in Nat /\ p.type \in Types
BY Appended, PunchFields

LEMMA PresentStays ==
  ASSUME NEW s \in Seq(PunchType), NEW p \in PunchType, NEW t \in Nat, t < p.at
  PROVE  AtWork(s, t) => AtWork(Append(s, p), t)
<1> DEFINE N == Len(s)
           z == Append(s, p)
<1>1. /\ N \in Nat /\ Len(z) = N + 1 /\ z[N + 1] = p
      /\ \A n \in 1..N : z[n] = s[n] /\ s[n].at \in Nat /\ s[n].type \in Types
      /\ p.at \in Nat /\ p.type \in Types
  BY AppendedFacts
<1> SUFFICES ASSUME NEW n \in 1..N, s[n].type = "CHECK_IN", s[n].at <= t,
                    \A m \in n + 1..N : s[m].at <= t => s[m].type = "CHECK_IN",
                    NEW k \in n + 1..N, s[k].type = "CHECK_OUT", s[k].at > t
             PROVE  AtWork(z, t)
  BY DEF AtWork
<1> HIDE DEF N, z
<1>2. n \in 1..N + 1 /\ k \in n + 1..N + 1 /\ z[n] = s[n] /\ z[k] = s[k]
  BY <1>1
<1>3. \A m \in n + 1..N + 1 : z[m].at <= t => z[m].type = "CHECK_IN"
  <2> SUFFICES ASSUME NEW m \in n + 1..N + 1, z[m].at <= t
               PROVE  z[m].type = "CHECK_IN"
    OBVIOUS
  <2>1. m = N + 1 => z[m].at = p.at
    BY <1>1
  <2>2. m # N + 1
    BY <2>1, <1>1
  <2>3. m \in n + 1..N /\ m \in 1..N
    BY <2>2, <1>1
  <2> QED
    BY <2>3, <1>1
<1> QED
  BY <1>1, <1>2, <1>3 DEF AtWork

(* Somebody is at work thanks to the punch, or was so without it.          *)
LEMMA PresentBefore ==
  ASSUME NEW s \in Seq(PunchType), NEW p \in PunchType, NEW t \in Nat,
         Until(s, p.at), AtWork(Append(s, p), t)
  PROVE  /\ t < p.at
         /\ AtWork(s, t) \/ /\ p.type = "CHECK_OUT"
                             /\ \E n \in 1..Len(s) :
                                  /\ s[n].type = "CHECK_IN" /\ s[n].at <= t
                                  /\ \A m \in n + 1..Len(s) :
                                       s[m].type # "CHECK_OUT"
<1> DEFINE N == Len(s)
           z == Append(s, p)
<1>1. /\ N \in Nat /\ Len(z) = N + 1 /\ z[N + 1] = p
      /\ \A n \in 1..N : z[n] = s[n] /\ s[n].at \in Nat /\ s[n].type \in Types
      /\ p.at \in Nat /\ p.type \in Types
  BY AppendedFacts
<1>2. PICK n \in 1..Len(z) :
        /\ z[n].type = "CHECK_IN" /\ z[n].at <= t
        /\ \A m \in n + 1..Len(z) : z[m].at <= t => z[m].type = "CHECK_IN"
        /\ \E m \in n + 1..Len(z) : z[m].type = "CHECK_OUT" /\ z[m].at > t
  BY DEF AtWork
<1>3. PICK k \in n + 1..Len(z) : z[k].type = "CHECK_OUT" /\ z[k].at > t
  BY <1>2
<1>u. \A m \in 1..N : s[m].at <= p.at
  BY DEF Until
<1> HIDE DEF N, z
<1>4. n \in 1..N /\ z[n] = s[n]
  BY <1>1, <1>2, <1>3
<1>5. t < p.at
  <2>1. CASE k = N + 1
    BY <2>1, <1>1, <1>3
  <2>2. CASE k # N + 1
    <3>1. k \in 1..N /\ z[k] = s[k]
      BY <2>2, <1>1, <1>3, <1>4
    <3> QED
      BY <3>1, <1>1, <1>3, <1>u
  <2> QED
    BY <2>1, <2>2
<1>6. \A m \in n + 1..N : s[m].at <= t => s[m].type = "CHECK_IN"
  BY <1>1, <1>2, <1>4
<1>7. CASE \E m \in n + 1..N : s[m].type = "CHECK_OUT" /\ s[m].at > t
  BY <1>2, <1>4, <1>5, <1>6, <1>7 DEF AtWork, N
<1>8. CASE ~\E m \in n + 1..N : s[m].type = "CHECK_OUT" /\ s[m].at > t
  <2>1. k = N + 1
    BY <1>8, <1>1, <1>3, <1>4
  <2>2. \A m \in n + 1..N : s[m].type # "CHECK_OUT"
    BY <1>8, <1>6, <1>1, <1>4
  <2> QED
    BY <2>1, <2>2, <1>1, <1>2, <1>3, <1>4, <1>5 DEF N
<1> QED
  BY <1>7, <1>8

LEMMA PresentEarlier ==
  ASSUME NEW s \in Seq(PunchType), NEW at \in Nat, Until(s, at), NEW t \in Nat,
         AtWork(s, t)
  PROVE  t < at
<1>1. Len(s) \in Nat /\ \A n \in 1..Len(s) : s[n].at \in Nat
  BY PunchFields
<1> QED
  BY <1>1 DEF AtWork, Until

(* An arrival, or a departure of nobody, adds nothing.                     *)
LEMMA TimesKept ==
  ASSUME NEW s \in Seq(PunchType), NEW p \in PunchType, Until(s, p.at),
         p.type = "CHECK_IN" \/ Len(s) = 0 \/ s[Len(s)].type = "CHECK_OUT"
  PROVE  Times(Append(s, p), p.at) = Times(s, p.at)
<1>1. /\ Len(s) \in Nat /\ p.at \in Nat
      /\ \A n \in 1..Len(s) : s[n].type \in Types
  BY PunchFields
<1>2. ASSUME NEW t \in 0..p.at, AtWork(s, t)
      PROVE  AtWork(Append(s, p), t)
  <2>1. t \in Nat /\ t < p.at
    BY <1>1, <1>2, PresentEarlier
  <2> QED
    BY <2>1, <1>2, PresentStays
<1>3. ASSUME NEW t \in 0..p.at, AtWork(Append(s, p), t)
      PROVE  AtWork(s, t)
  <2>1. \/ AtWork(s, t)
        \/ /\ p.type = "CHECK_OUT"
           /\ \E n \in 1..Len(s) :
                /\ s[n].type = "CHECK_IN" /\ s[n].at <= t
                /\ \A m \in n + 1..Len(s) : s[m].type # "CHECK_OUT"
    BY <1>1, <1>3, PresentBefore
  <2>2. ASSUME p.type = "CHECK_OUT",
               NEW n \in 1..Len(s), s[n].type = "CHECK_IN",
               \A m \in n + 1..Len(s) : s[m].type # "CHECK_OUT"
        PROVE  FALSE
    <3>1. n # Len(s) /\ Len(s) \in n + 1..Len(s)
      BY <1>1, <2>2
    <3> QED
      BY <3>1, <2>2
  <2> QED
    BY <2>1, <2>2
<1> QED
  BY <1>2, <1>3 DEF Times

(* A departure adds the time since the arrival before it; if that is the   *)
(* only one since the departure before, no more.                           *)
LEMMA TimesGain ==
  ASSUME NEW s \in Seq(PunchType), NEW p \in PunchType, Until(s, p.at), Ordered(s),
         NEW N \in Nat \ {0}, N = Len(s), s[N].type = "CHECK_IN", p.type = "CHECK_OUT",
         NEW a, a = s[N].at
  PROVE  /\ a \in Nat /\ a <= p.at
         /\ Times(s, p.at) \cup (a..p.at - 1) \subseteq Times(Append(s, p), p.at)
         /\ Times(s, p.at) \cap (a..p.at - 1) = {}
         /\ N = 1 \/ s[N - 1].type # "CHECK_IN" =>
              Times(Append(s, p), p.at) = Times(s, p.at) \cup (a..p.at - 1)
<1> DEFINE z == Append(s, p)
<1>1. /\ Len(z) = N + 1 /\ z[N + 1] = p
      /\ \A n \in 1..N : z[n] = s[n] /\ s[n].at \in Nat /\ s[n].type \in Types
      /\ p.at \in Nat /\ p.type \in Types
  BY Appended, PunchFields
<1>2. a \in Nat /\ a <= p.at /\ \A n \in 1..N : s[n].at <= a
  BY <1>1 DEF Until, Ordered
<1> HIDE DEF z
<1>3. ASSUME NEW t \in 0..p.at, AtWork(s, t)
      PROVE  AtWork(z, t) /\ t < a
  <2>1. t \in Nat /\ t < p.at
    BY <1>1, <1>3, PresentEarlier
  <2>2. AtWork(z, t)
    BY <2>1, <1>3, PresentStays DEF z
  <2>3. t < a
    BY <1>1, <1>2, <1>3 DEF AtWork
  <2> QED
    BY <2>2, <2>3
<1>4. ASSUME NEW t \in a..p.at - 1
      PROVE  AtWork(z, t) /\ t \in 0..p.at
  <2>1. /\ N \in 1..N + 1 /\ z[N].type = "CHECK_IN" /\ z[N].at <= t
        /\ N + 1 \in N + 1..N + 1 /\ z[N + 1].type = "CHECK_OUT" /\ z[N + 1].at > t
    BY <1>1, <1>2
  <2>2. \A m \in N + 1..N + 1 : z[m].at <= t => z[m].type = "CHECK_IN"
    BY <1>1, <1>2
  <2> QED
    BY <2>1, <2>2, <1>1, <1>2 DEF AtWork
<1>5. ASSUME N = 1 \/ s[N - 1].type # "CHECK_IN",
             NEW t \in 0..p.at, AtWork(z, t), ~AtWork(s, t)
      PROVE  t \in a..p.at - 1
  <2>1. PICK n \in 1..N : /\ s[n].type = "CHECK_IN" /\ s[n].at <= t
                          /\ \A m \in n + 1..N : s[m].type # "CHECK_OUT"
    BY <1>1, <1>5, PresentBefore DEF z
  <2>2. t < p.at
    BY <1>1, <1>5, PresentBefore DEF z
  <2>3. CASE n = N
    BY <2>1, <2>2, <2>3, <1>1, <1>2
  <2>4. CASE n # N
    <3>1. N - 1 \in 1..N /\ N # 1 /\ n <= N - 1
      BY <2>4
    <3>2. s[N - 1].type = "CHECK_OUT"
      BY <3>1, <1>1, <1>5 DEF Types
    <3>3. n # N - 1
      BY <3>2, <2>1
    <3>4. N - 1 \in n + 1..N
      BY <3>1, <3>3
    <3> QED
      BY <3>2, <3>4, <2>1
  <2> QED
    BY <2>3, <2>4
<1>6. Times(s, p.at) \cup (a..p.at - 1) \subseteq Times(z, p.at)
  BY <1>3, <1>4 DEF Times
<1>7. Times(s, p.at) \cap (a..p.at - 1) = {}
  <2> SUFFICES ASSUME NEW t \in Times(s, p.at), t \in a..p.at - 1 PROVE FALSE
    OBVIOUS
  <2>1. t < a
    BY <1>3 DEF Times
  <2> QED
    BY <2>1, <1>1, <1>2
<1>8. N = 1 \/ s[N - 1].type # "CHECK_IN" =>
        Times(z, p.at) \subseteq Times(s, p.at) \cup (a..p.at - 1)
  BY <1>5 DEF Times
<1> QED
  BY <1>2, <1>6, <1>7, <1>8 DEF z

-----------------------------------------------------------------------------
(* What the summary says of a sequence of punches.                         *)
Good(s, at, f) ==
  /\ f[Len(s)] \in TallyType
  /\ f[Len(s)].open = IF Len(s) > 0 /\ s[Len(s)].type = "CHECK_IN" THEN s[Len(s)].at ELSE NoPunch
  /\ f[Len(s)].total <= Cardinality(Times(s, at))
  /\ Paired(s) => f[Len(s)].total = Cardinality(Times(s, at))

SumOK(s, at) ==
  /\ Ordered(s) /\ Until(s, at)
  /\ \E f : IsTally(f, s)
  /\ \A f : IsTally(f, s) => Good(s, at, f)

LEMMA SumEmpty == SumOK(<<>>, 0)
<1>1. Len(<<>>) = 0 /\ Times(<<>>, 0) = {} /\ Cardinality({}) = 0
  BY FS_EmptySet DEF Times, AtWork
<1>2. IsTally([n \in 0..0 |-> NoHours], <<>>)
  BY <1>1 DEF IsTally
<1>3. ASSUME NEW f, IsTally(f, <<>>)
      PROVE  f[0] = NoHours
  <2>1. f = [n \in 0..0 |-> IF n = 0 THEN NoHours ELSE Tally(f[n - 1], <<>>[n])]
    BY <1>1, <1>3 DEF IsTally
  <2> QED
    BY <2>1
<1>4. NoHours \in TallyType /\ NoHours.open = NoPunch /\ NoHours.total = 0
  BY DEF NoHours, TallyType
<1>5. Ordered(<<>>) /\ Until(<<>>, 0)
  BY <1>1 DEF Ordered, Until
<1>6. ASSUME NEW f, IsTally(f, <<>>)
      PROVE  Good(<<>>, 0, f)
  BY <1>1, <1>3, <1>4, <1>6 DEF Good
<1> QED
  BY <1>2, <1>5, <1>6 DEF SumOK

LEMMA SumLater ==
  ASSUME NEW s \in Seq(PunchType), NEW at \in Nat, SumOK(s, at)
  PROVE  SumOK(s, at + 1)
<1>1. Until(s, at + 1)
  <2>1. \A n \in 1..Len(s) : s[n].at \in Nat
    BY PunchFields
  <2> QED
    BY <2>1 DEF Until, SumOK
<1>2. Times(s, at + 1) = Times(s, at)
  BY TimesLater DEF SumOK
<1> QED
  BY <1>1, <1>2 DEF SumOK, Good

(* The summary takes a punch into account as the moments at work do.       *)
LEMMA GoodAppends ==
  ASSUME NEW s \in Seq(PunchType), NEW p \in PunchType, NEW f,
         Until(s, p.at), Ordered(s), Good(s, p.at, f),
         NEW g, g[Len(s) + 1] = Tally(f[Len(s)], p)
  PROVE  Good(Append(s, p), p.at, g)
<1> DEFINE N == Len(s)
           z == Append(s, p)
           old == Cardinality(Times(s, p.at))
           new == Cardinality(Times(z, p.at))
<1>1. /\ N \in Nat /\ Len(z) = N + 1 /\ z[N + 1] = p
      /\ \A n \in 1..N : z[n] = s[n] /\ s[n].at \in Nat /\ s[n].type \in Types
      /\ p.at \in Nat /\ p.type \in Types
  BY AppendedFacts
<1>2. /\ old \in Nat /\ IsFiniteSet(Times(s, p.at))
      /\ new \in Nat /\ IsFiniteSet(Times(z, p.at))
  BY <1>1, TimesAreFinite
<1>3. PICK o \in Nat \cup {NoPunch}, t \in Nat : /\ f[N].open = o /\ f[N].total = t
                                                  /\ f[N] = [open |-> o, total |-> t]
  BY DEF Good, TallyType
<1>4. /\ o = IF N > 0 /\ s[N].type = "CHECK_IN" THEN s[N].at ELSE NoPunch
      /\ t <= old /\ (Paired(s) => t = old)
  BY <1>3 DEF Good
<1>5. Paired(z) => Paired(s)
  <2> SUFFICES ASSUME Paired(z), NEW n \in 1..N - 1, s[n].type = "CHECK_IN"
               PROVE  s[n + 1].type # "CHECK_IN"
    BY DEF Paired
  <2>1. /\ n \in 1..Len(z) - 1 /\ z[n] = s[n] /\ z[n + 1] = s[n + 1]
    BY <1>1
  <2> QED
    BY <2>1 DEF Paired
<1>n. NoPunch \notin Nat
  BY AttendanceAssumption
<1>i. SUFFICES /\ g[N + 1] \in TallyType
               /\ g[N + 1].open = IF p.type = "CHECK_IN" THEN p.at ELSE NoPunch
               /\ g[N + 1].total <= new
               /\ Paired(z) => g[N + 1].total = new
  <2>1. N + 1 > 0
    BY <1>1
  <2> QED
    BY <2>1, <1>1 DEF Good
<1>t. g[N + 1] = Tally([open |-> o, total |-> t], p)
  BY <1>3
<1>6. CASE p.type = "CHECK_IN"
  <2>1. g[N + 1] = [open |-> p.at, total |-> t]
    BY <1>6, <1>t DEF Tally
  <2>2. new = old
    BY <1>6, TimesKept
  <2> QED
    BY <2>1, <2>2, <1>1, <1>4, <1>5, <1>6 DEF TallyType
<1>7. CASE p.type # "CHECK_IN" /\ o = NoPunch
  <2>1. g[N + 1] = [open |-> NoPunch, total |-> t]
    BY <1>7, <1>t DEF Tally
  <2>2. N = 0 \/ s[N].type = "CHECK_OUT"
    BY <1>1, <1>4, <1>7, <1>n DEF Types
  <2>3. new = old
    BY <2>2, TimesKept
  <2> QED
    BY <2>1, <2>3, <1>1, <1>4, <1>5, <1>7 DEF TallyType
<1>8. CASE p.type # "CHECK_IN" /\ o # NoPunch
  <2>1. N \in Nat \ {0} /\ s[N].type = "CHECK_IN" /\ o = s[N].at /\ p.type = "CHECK_OUT"
    BY <1>1, <1>4, <1>8 DEF Types
  <2>2. /\ o \in Nat /\ o <= p.at
        /\ Times(s, p.at) \cup (o..p.at - 1) \subseteq Times(z, p.at)
        /\ Times(s, p.at) \cap (o..p.at - 1) = {}
        /\ N = 1 \/ s[N - 1].type # "CHECK_IN" =>
             Times(z, p.at) = Times(s, p.at) \cup (o..p.at - 1)
    BY <2>1, TimesGain
  <2>3. g[N + 1] = [open |-> NoPunch, total |-> t + (p.at - o)]
    BY <1>8, <1>t, <2>1 DEF Tally, AfterOut, AddedUp
  <2>4. IsFiniteSet(o..p.at - 1) /\ Cardinality(o..p.at - 1) = p.at - o
    <3>0. o \in Int /\ p.at - 1 \in Int
      BY <2>2, <1>1
    <3>1. /\ IsFiniteSet(o..p.at - 1)
          /\ Cardinality(o..p.at - 1) = IF o > p.at - 1 THEN 0 ELSE (p.at - 1) - o + 1
      BY <3>0, FS_Interval
    <3> QED
      BY <3>1, <2>2, <1>1
  <2>5. Cardinality(Times(s, p.at) \cup (o..p.at - 1)) = old + (p.at - o)
    <3>1. Cardinality(Times(s, p.at) \cup (o..p.at - 1)) =
            Cardinality(Times(s, p.at)) + Cardinality(o..p.at - 1)
              - Cardinality(Times(s, p.at) \cap (o..p.at - 1))
      BY <1>2, <2>4, FS_Union
    <3>2. Cardinality(Times(s, p.at) \cap (o..p.at - 1)) = 0
      BY <2>2, FS_EmptySet
    <3>3. Cardinality(o..p.at - 1) = p.at - o /\ p.at - o \in Int /\ old \in Int
      BY <1>1, <1>2, <2>2, <2>4
    <3> HIDE DEF old
    <3>4. Cardinality(Times(s, p.at)) = old
      BY DEF old
    <3> QED
      BY <3>1, <3>2, <3>3, <3>4
  <2>6. old + (p.at - o) <= new
    <3>1. Cardinality(Times(s, p.at) \cup (o..p.at - 1)) <= new
      BY <1>2, <2>2, FS_Subset
    <3> QED
      BY <3>1, <2>5
  <2>7. ASSUME Paired(z)
        PROVE  t + (p.at - o) = new
    <3>1. N = 1 \/ s[N - 1].type # "CHECK_IN"
      <4>1. ASSUME N # 1, s[N - 1].type = "CHECK_IN" PROVE FALSE
        <5>0. \A k \in Nat \ {0} : k # 1 => k - 1 \in 1..k - 1 /\ (k - 1) + 1 = k
          OBVIOUS
        <5>1. /\ N - 1 \in 1..N - 1 /\ (N - 1) + 1 = N
          BY <5>0, <4>1, <2>1
        <5>2. s[(N - 1) + 1].type # "CHECK_IN"
          BY <5>1, <4>1, <1>5, <2>7 DEF Paired
        <5> QED
          BY <5>1, <5>2, <2>1
      <4> QED
        BY <4>1
    <3>2. new = old + (p.at - o) /\ t = old
      BY <3>1, <2>2, <2>5, <1>4, <1>5, <2>7
    <3> QED
      BY <3>2
  <2>8. t + (p.at - o) \in Nat /\ t + (p.at - o) <= new
    BY <2>2, <2>6, <1>1, <1>2, <1>4
  <2> QED
    BY <2>1, <2>3, <2>7, <2>8 DEF TallyType
<1> QED
  BY <1>6, <1>7, <1>8

LEMMA SumAppends ==
  ASSUME NEW s \in Seq(PunchType), NEW p \in PunchType, SumOK(s, p.at)
  PROVE  SumOK(Append(s, p), p.at)
<1> DEFINE N == Len(s)
           z == Append(s, p)
<1>1. /\ N \in Nat /\ Len(z) = N + 1 /\ z[N + 1] = p
      /\ \A n \in 1..N : z[n] = s[n] /\ s[n].at \in Nat /\ s[n].type \in Types
      /\ p.at \in Nat /\ p.type \in Types
  BY AppendedFacts
<1>2. Ordered(z) /\ Until(z, p.at)
  <2> HIDE DEF N, z
  <2>1. \A n \in 1..N : s[n].at <= p.at /\ \A m \in 1..N : m <= n => s[m].at <= s[n].at
    BY DEF SumOK, Ordered, Until, N
  <2>2. \A n \in 1..N + 1 : z[n].at <= p.at
    BY <2>1, <1>1
  <2>3. ASSUME NEW m \in 1..N + 1, NEW n \in 1..N + 1, m <= n
        PROVE  z[m].at <= z[n].at
    <3>1. CASE n = N + 1
      BY <3>1, <2>2, <1>1
    <3>2. CASE n # N + 1
      <4>1. m \in 1..N /\ n \in 1..N
        BY <3>2, <2>3, <1>1
      <4> QED
        BY <4>1, <2>1, <2>3, <1>1
    <3> QED
      BY <3>1, <3>2
  <2> QED
    BY <2>2, <2>3, <1>1 DEF Ordered, Until
<1>3. \E g : IsTally(g, z)
  BY Extending DEF SumOK
<1>4. ASSUME NEW g, IsTally(g, z)
      PROVE  Good(z, p.at, g)
  <2> DEFINE f == [n \in 0..N |-> g[n]]
  <2>1. IsTally(f, s) /\ g[N + 1] = Tally(g[N], p)
    BY <1>4, Restricting
  <2>2. f[N] = g[N]
    BY <1>1
  <2>3. Good(s, p.at, f)
    BY <2>1 DEF SumOK
  <2> HIDE DEF f
  <2> QED
    BY <2>1, <2>2, <2>3, GoodAppends DEF SumOK
<1> QED
  BY <1>2, <1>3, <1>4 DEF SumOK

-----------------------------------------------------------------------------
HoursInv == AttendanceInv /\ SumOK(punches, moment)

LEMMA HoursInvStep == HoursInv /\ [AttendanceNext]_attendanceVars => HoursInv'
<1> SUFFICES ASSUME HoursInv, [AttendanceNext]_attendanceVars PROVE HoursInv'
  OBVIOUS
<1>0. AttendanceInv'
  BY AttendanceInvStep DEF HoursInv
<1>t. /\ punches \in Seq(PunchType) /\ moment \in Nat
      /\ punch \in [Punchers -> Types \cup {NoPunch}] /\ SumOK(punches, moment)
      /\ moment \in 0..Days * DayLength
  BY DEF HoursInv, AttendanceInv, AttendanceTypeOK, PunchType
<1>1. ASSUME punches' = punches, moment' = moment
      PROVE  SumOK(punches, moment)'
  BY <1>1, <1>t
<1>2. ASSUME NEW r \in Punchers, Record(r)
      PROVE  SumOK(punches, moment)'
  <2>1. [type |-> punch[r], at |-> moment] \in PunchType
    BY <1>2, <1>t DEF Record, PunchType
  <2>2. PICK p \in PunchType : p = [type |-> punch[r], at |-> moment]
    BY <2>1
  <2>3. SumOK(Append(punches, p), p.at)
    BY <2>2, <1>t, SumAppends
  <2>4. punches' = Append(punches, p) /\ moment' = p.at
    BY <1>2, <2>2 DEF Record
  <2> QED
    BY <2>3, <2>4
<1>3. ASSUME MomentPasses
      PROVE  SumOK(punches, moment)'
  <2>1. SumOK(punches, moment + 1) /\ punches' = punches /\ moment' = moment + 1
    BY <1>3, <1>t, SumLater DEF MomentPasses
  <2> QED
    BY <2>1
<1>4. ASSUME NEW r \in Punchers, Lost(r) \/ \E type \in Types : Look(r, type)
      PROVE  SumOK(punches, moment)'
  <2>1. punches' = punches /\ moment' = moment
    BY <1>4 DEF Lost, Look
  <2> QED
    BY <2>1, <1>1
<1>5. ASSUME UNCHANGED attendanceVars
      PROVE  SumOK(punches, moment)'
  BY <1>5, <1>1 DEF attendanceVars
<1>6. SumOK(punches, moment)'
  BY <1>2, <1>3, <1>4, <1>5 DEF AttendanceNext
<1> QED
  BY <1>0, <1>6 DEF HoursInv

LEMMA HoursInvHolds == HoursInv => SummaryNeverOvercounts /\ SummaryIsExact
<1> SUFFICES ASSUME HoursInv PROVE SummaryNeverOvercounts /\ SummaryIsExact
  OBVIOUS
<1>1. punches \in Seq(PunchType) /\ Len(punches) \in Nat /\ SumOK(punches, moment)
  BY DEF HoursInv, AttendanceInv, AttendanceTypeOK, PunchType
<1>2. TimePresent = Cardinality(Times(punches, moment))
  BY DEF TimePresent, IsPresent, Times, AtWork
<1>3. IsTally(Tallied, punches)
  <2>1. \E f : f = [n \in 0..Len(punches) |->
                      IF n = 0 THEN NoHours ELSE Tally(f[n - 1], punches[n])]
    BY <1>1 DEF SumOK, IsTally
  <2>2. Tallied = CHOOSE f : f = [n \in 0..Len(punches) |->
                      IF n = 0 THEN NoHours ELSE Tally(f[n - 1], punches[n])]
    BY DEF Tallied
  <2> QED
    BY <2>1, <2>2 DEF IsTally
<1>4. Good(punches, moment, Tallied)
  BY <1>1, <1>3 DEF SumOK
<1>5. ASSUME \A n \in 2..Len(punches) : ~Doubled(n), ~CutByMidnight
      PROVE  Paired(punches)
  <2> SUFFICES ASSUME NEW n \in 1..Len(punches) - 1,
                      punches[n].type = "CHECK_IN", punches[n + 1].type = "CHECK_IN"
               PROVE  FALSE
    BY DEF Paired
  <2>1. n + 1 \in 2..Len(punches) /\ (n + 1) - 1 = n
    BY <1>1
  <2>2. DayOf(punches[n + 1].at) = DayOf(punches[n].at)
    BY <1>5 DEF CutByMidnight
  <2>3. Doubled(n + 1)
    BY <2>1, <2>2 DEF Doubled
  <2> QED
    BY <2>1, <2>3, <1>5
<1> QED
  BY <1>2, <1>4, <1>5 DEF Good, SummaryNeverOvercounts, SummaryIsExact, Summary

LEMMA HoursHoldAlways ==
  AttendanceInit /\ [][AttendanceNext]_attendanceVars => HoursAreHonest
<1>1. AttendanceInit => HoursInv
  BY AttendanceInvInit, SumEmpty DEF HoursInv, AttendanceInit
<1> QED
  BY <1>1, HoursInvStep, HoursInvHolds, TurnsHold, PTL DEF HoursAreHonest
-----------------------------------------------------------------------------
(* A behaviour of the whole is a behaviour of every component: its steps   *)
(* are those of one of them, and leave the others alone.                   *)
LEMMA LoginPart == Spec => LoginInit /\ [][LoginNext]_loginVars
<1>1. Init => LoginInit
  BY DEF Init
<1>2. [Next]_servicesVars => [LoginNext]_loginVars
  BY DEF Next, servicesVars, loginVars, throttleVars, accountVars, jobVars, clockVars, rulesVars, staffVars, crmVars, payVars, timeOffVars, attendanceVars
<1> QED
  BY <1>1, <1>2, PTL DEF Spec

LEMMA ThrottlePart == Spec => ThrottleInit /\ [][ThrottleNext]_throttleVars
<1>1. Init => ThrottleInit
  BY DEF Init
<1>2. [Next]_servicesVars => [ThrottleNext]_throttleVars
  BY DEF Next, servicesVars, loginVars, throttleVars, accountVars, jobVars, clockVars, rulesVars, staffVars, crmVars, payVars, timeOffVars, attendanceVars
<1> QED
  BY <1>1, <1>2, PTL DEF Spec

LEMMA AccountsPart == Spec => AccountsInit /\ [][AccountsNext]_accountVars
<1>1. Init => AccountsInit
  BY DEF Init
<1>2. [Next]_servicesVars => [AccountsNext]_accountVars
  BY DEF Next, servicesVars, loginVars, throttleVars, accountVars, jobVars, clockVars, rulesVars, staffVars, crmVars, payVars, timeOffVars, attendanceVars
<1> QED
  BY <1>1, <1>2, PTL DEF Spec

LEMMA JobPart == Spec => JobInit /\ [][JobNext]_jobVars
<1>1. Init => JobInit
  BY DEF Init
<1>2. [Next]_servicesVars => [JobNext]_jobVars
  BY DEF Next, servicesVars, loginVars, throttleVars, accountVars, jobVars, clockVars, rulesVars, staffVars, crmVars, payVars, timeOffVars, attendanceVars
<1> QED
  BY <1>1, <1>2, PTL DEF Spec

LEMMA ClockPart == Spec => ClockInit /\ [][ClockNext]_clockVars
<1>1. Init => ClockInit
  BY DEF Init
<1>2. [Next]_servicesVars => [ClockNext]_clockVars
  BY DEF Next, servicesVars, loginVars, throttleVars, accountVars, jobVars, clockVars, rulesVars, staffVars, crmVars, payVars, timeOffVars, attendanceVars
<1> QED
  BY <1>1, <1>2, PTL DEF Spec

LEMMA RulesPart == Spec => RulesInit /\ [][RulesNext]_rulesVars
<1>1. Init => RulesInit
  BY DEF Init
<1>2. [Next]_servicesVars => [RulesNext]_rulesVars
  BY DEF Next, servicesVars, loginVars, throttleVars, accountVars, jobVars, clockVars, rulesVars, staffVars, crmVars, payVars, timeOffVars, attendanceVars
<1> QED
  BY <1>1, <1>2, PTL DEF Spec

LEMMA StaffPart == Spec => StaffInit /\ [][StaffNext]_staffVars
<1>1. Init => StaffInit
  BY DEF Init
<1>2. [Next]_servicesVars => [StaffNext]_staffVars
  BY DEF Next, servicesVars, loginVars, throttleVars, accountVars, jobVars, clockVars, rulesVars, staffVars, crmVars, payVars, timeOffVars, attendanceVars
<1> QED
  BY <1>1, <1>2, PTL DEF Spec

LEMMA CrmPart == Spec => CrmInit /\ [][CrmNext]_crmVars
<1>1. Init => CrmInit
  BY DEF Init
<1>2. [Next]_servicesVars => [CrmNext]_crmVars
  BY DEF Next, servicesVars, loginVars, throttleVars, accountVars, jobVars, clockVars, rulesVars, staffVars, crmVars, payVars, timeOffVars, attendanceVars
<1> QED
  BY <1>1, <1>2, PTL DEF Spec

LEMMA PayPart == Spec => PayInit /\ [][PayNext]_payVars
<1>1. Init => PayInit
  BY DEF Init
<1>2. [Next]_servicesVars => [PayNext]_payVars
  BY DEF Next, servicesVars, loginVars, throttleVars, accountVars, jobVars, clockVars, rulesVars, staffVars, crmVars, payVars, timeOffVars, attendanceVars
<1> QED
  BY <1>1, <1>2, PTL DEF Spec

LEMMA TimeOffPart == Spec => TimeOffInit /\ [][TimeOffNext]_timeOffVars
<1>1. Init => TimeOffInit
  BY DEF Init
<1>2. [Next]_servicesVars => [TimeOffNext]_timeOffVars
  BY DEF Next, servicesVars, loginVars, throttleVars, accountVars, jobVars, clockVars, rulesVars, staffVars, crmVars, payVars, timeOffVars, attendanceVars
<1> QED
  BY <1>1, <1>2, PTL DEF Spec

LEMMA AttendancePart == Spec => AttendanceInit /\ [][AttendanceNext]_attendanceVars
<1>1. Init => AttendanceInit
  BY DEF Init
<1>2. [Next]_servicesVars => [AttendanceNext]_attendanceVars
  BY DEF Next, servicesVars, loginVars, throttleVars, accountVars, jobVars, clockVars, rulesVars, staffVars, crmVars, payVars, timeOffVars, attendanceVars
<1> QED
  BY <1>1, <1>2, PTL DEF Spec

-----------------------------------------------------------------------------
(* For any number of logins at once, of attempts before the lockout and of *)
(* Redis failures: the attempt that reaches the threshold sets the lock, no*)
(* more guesses follow than were under way, and counters expire.           *)
THEOREM LockoutInvariance == Spec => [](LoginTypeOK /\ LockoutHolds)
<1>1. LoginInit => LoginInv
  BY LoginInvInit
<1>2. LoginInv /\ [LoginNext]_loginVars => LoginInv'
  BY LoginInvStep
<1>3. LoginInv => LoginTypeOK /\ LockoutHolds
  BY LoginInvLockout DEF LoginInv
<1> QED
  BY <1>1, <1>2, <1>3, LoginPart, PTL

(* For any limit, window and API instances: within the span of a window    *)
(* Redis admits less than twice the limit, an instance without it at most  *)
(* the limit, nobody below the limit is refused while Redis works, and no  *)
(* counter stays for good without a failure.                               *)
THEOREM LimitInvariance == Spec => [](ThrottleTypeOK /\ LimitHolds)
<1>1. ThrottleInit => ThrottleInv
  BY ThrottleInvInit
<1>2. ThrottleInv /\ [ThrottleNext]_throttleVars => ThrottleInv'
  BY ThrottleInvStep
<1>3. ThrottleInv => ThrottleTypeOK /\ LimitHolds
  BY ThrottleInvHolds
<1> QED
  BY <1>1, <1>2, <1>3, ThrottlePart, PTL

(* For any users, names of roles and administrators at work at once: a user*)
(* at rest has the roles that were asked for last, as far as a role has the*)
(* name (a creation falls back to another), unless requests for the same   *)
(* user overlapped or one broke off half way; and nobody ever has a role   *)
(* that no request has given since the last one that ran alone.            *)
THEOREM RolesInvariance == Spec => [](AccountsTypeOK /\ RolesAreAsAsked)
<1>1. AccountsInit => AccountInv
  BY AccountInvInit
<1>2. AccountInv /\ [AccountsNext]_accountVars => AccountInv'
  BY AccountInvStep
<1>3. AccountInv => AccountsTypeOK /\ RolesAreAsAsked
  BY AccountInvRoles
<1> QED
  BY <1>1, <1>2, <1>3, AccountsPart, PTL

(* The SLA clock of a ticket stays of its type, for any SLA times.         *)
THEOREM ClockTypeInvariance == Spec => []ClockTypeOK
<1>1. ClockInit => ClockInv
  BY ClockInvInit
<1>2. ClockInv /\ [ClockNext]_clockVars => ClockInv'
  BY ClockInvStep
<1>3. ClockInv => ClockTypeOK
  BY ClockInvType
<1> QED
  BY <1>1, <1>2, <1>3, ClockPart, PTL

(* For any instances, any period and any time to live of the lock: a run   *)
(* that has not outlived its lock is alone, and a tick that nobody served  *)
(* was missed because of a run still going on or a recent failure.         *)
THEOREM LockServes == Spec => LockServesTheJob
BY JobPart, JobHoldsAlways

(* For any SLA times: every pause moves the deadlines by its length once,  *)
(* the verdict on an answer never changes after it, and what the UI shows  *)
(* of a ticket is what the monitor raises.                                 *)
THEOREM ClocksRight == Spec => ClocksAreRight
BY ClockPart, ClockHoldsAlways

(* For any finite set of rules, any criteria and orders and any editors at *)
(* once: a ticket is answered by exactly one rule, the most specific one   *)
(* that matches or the only default, and an edit changes the answers of the*)
(* tickets that the edited rows match and of no others.                    *)
THEOREM AnswerDetermined == Spec => AnswerIsDetermined
BY RulesPart, RulesHoldAlways

(* For any organizations and hires at once: employee codes are given out in*)
(* order, a department that exists is the one that is found, and a hire    *)
(* fails only where another organization has its code.                     *)
THEOREM HiringOrderly == Spec => HiringIsOrderly
BY StaffPart, StaffHoldsAlways

(* For any leads, addresses and requests at once: a lead and its client    *)
(* point at each other, a conversion that stopped half way had a cause, and*)
(* creating or editing a client doubles an address only if another request *)
(* added or edited a client meanwhile.  A conversion compares no addresses.*)
THEOREM ConversionTraceable == Spec => ConversionIsTraceable
BY CrmPart, CrmHoldsAlways

(* The whole runs payroll as Payroll does: a month is paid once there too. *)
THEOREM MonthPaidOnce == Spec => MonthIsPaidOnce
BY PayPart, PaidOnce DEF PaySpec

(* For any leaves and reviewers at once: an employee on leave has that     *)
(* leave approved unless the approval was taken back, and a review that    *)
(* nothing interfered with leaves the status in line with its verdict.     *)
THEOREM AbsenceAccountedFor == Spec => AbsenceIsAccountedFor
BY TimeOffPart, TimeOffHolds

(* For any requests at once, days and punches: the summary of a month never*)
(* counts a moment not between an arrival and a departure, and it counts   *)
(* them all unless requests raced or midnight cut a shift; arrivals and    *)
(* departures take turns.                                                  *)
THEOREM HoursHonest == Spec => HoursAreHonest
BY AttendancePart, HoursHoldAlways

(* Every component keeps its variables of their types, for every value of  *)
(* the constants.                                                          *)
THEOREM TypeInvariance == Spec => []TypeOK
<1>1. Spec => []JobTypeOK
  <2>1. JobInit => JobInv
    BY JobInvInit
  <2>2. JobInv /\ [JobNext]_jobVars => JobInv'
    BY JobInvStep
  <2>3. JobInv => JobTypeOK
    BY JobInvCovers
  <2> QED
    BY <2>1, <2>2, <2>3, JobPart, PTL
<1>2. Spec => []RulesTypeOK
  <2>1. RulesInit => RulesInv
    BY RulesInvInit
  <2>2. RulesInv /\ [RulesNext]_rulesVars => RulesInv'
    BY RulesInvStep
  <2>3. RulesInv => RulesTypeOK
    BY DEF RulesInv
  <2> QED
    BY <2>1, <2>2, <2>3, RulesPart, PTL
<1>3. Spec => []StaffTypeOK
  <2>1. StaffInit => StaffInv
    BY StaffInvInit
  <2>2. StaffInv /\ [StaffNext]_staffVars => StaffInv'
    BY StaffInvStep
  <2>3. StaffInv => StaffTypeOK
    BY StaffInvCodes
  <2> QED
    BY <2>1, <2>2, <2>3, StaffPart, PTL
<1>4. Spec => []CrmTypeOK
  <2>1. CrmInit => CrmInv
    BY CrmInvInit
  <2>2. CrmInv /\ [CrmNext]_crmVars => CrmInv'
    BY CrmInvStep
  <2>3. CrmInv => CrmTypeOK
    BY CrmInvTraceable
  <2> QED
    BY <2>1, <2>2, <2>3, CrmPart, PTL
<1>5. Spec => []TimeOffTypeOK
  <2>1. TimeOffInit => TimeOffInv
    BY TimeOffInvInit
  <2>2. TimeOffInv /\ [TimeOffNext]_timeOffVars => TimeOffInv'
    BY TimeOffInvStep
  <2>3. TimeOffInv => TimeOffTypeOK
    BY TimeOffInvType
  <2> QED
    BY <2>1, <2>2, <2>3, TimeOffPart, PTL
<1>6. Spec => []AttendanceTypeOK
  <2>1. AttendanceInit => AttendanceInv
    BY AttendanceInvInit
  <2>2. AttendanceInv /\ [AttendanceNext]_attendanceVars => AttendanceInv'
    BY AttendanceInvStep
  <2>3. AttendanceInv => AttendanceTypeOK
    BY DEF AttendanceInv
  <2> QED
    BY <2>1, <2>2, <2>3, AttendancePart, PTL
<1>7. Spec => []PayTypeOK
  BY PayPart, PayTypeInvariance DEF PaySpec
<1>8. /\ LoginTypeOK /\ JobTypeOK /\ ClockTypeOK /\ RulesTypeOK /\ StaffTypeOK
      /\ CrmTypeOK /\ PayTypeOK /\ TimeOffTypeOK /\ AttendanceTypeOK
      /\ ThrottleTypeOK /\ AccountsTypeOK
      => TypeOK
  BY DEF TypeOK
<1> QED
  BY <1>1, <1>2, <1>3, <1>4, <1>5, <1>6, <1>7, <1>8,
     LockoutInvariance, LimitInvariance, RolesInvariance, ClockTypeInvariance, PTL
==============================================================================
