----------------------------- MODULE LoginGuard -----------------------------
(***************************************************************************)
(* The lockout of one account (modules/database/rate-limit.service.ts over *)
(* redis.service.ts): a counter of wrong passwords with a window, and a    *)
(* lock that login checks first.  Each call to Redis is a step.            *)
(*                                                                         *)
(* Time passes in thirds of the window; the lockout lasts as long as the   *)
(* window.  A counter above its last interesting value stays there.        *)
(***************************************************************************)
EXTENDS Naturals, FiniteSets

CONSTANTS Logins,       \* logins in flight at a time
          MaxAttempts,  \* LOGIN_MAX_ATTEMPTS
          Window,       \* LOGIN_WINDOW_SECONDS and LOGIN_LOCKOUT_SECONDS
          MaxRedisFaults

ASSUME LoginAssumption == MaxAttempts \in Nat \ {0, 1} /\ Window \in Nat \ {0}
                          /\ MaxRedisFaults \in Nat
                          /\ IsFiniteSet(Logins) /\ Logins # {}

VARIABLES
    failCount,   \* ratelimit:login_fail, 0 when absent
    failLeft,    \* what is left of its life; Forever without an expiry
    lockLeft,    \* what is left of ratelimit:login_lock, 0 when absent
    login,       \* by login: its next step
    redisFaults,
    \* history, read by no action
    excused,     \* Redis failed, or a login succeeded beside a failing one
    late         \* wrong passwords counted since the lock was set

loginVars == <<failCount, failLeft, lockLeft, login, redisFaults, excused,
              late>>

----------------------------------------------------------------------------
Forever == Window + 1
TopCount == MaxAttempts + Cardinality(Logins) + 1
LoginStep(l, from, to) == login[l] = from /\ login' = [login EXCEPT ![l] = to]
Locked == lockLeft > 0

LoginInit ==
    /\ failCount = 0 /\ failLeft = 0 /\ lockLeft = 0
    /\ login = [l \in Logins |-> "idle"]
    /\ redisFaults = 0
    /\ excused = FALSE /\ late = 0

\* isLoginLocked: a locked account refuses the login.
NotLockedNow == TRUE                                                     \* mutant
MayTry == ~Locked

Try(l) ==
    /\ MayTry
    /\ LoginStep(l, "idle", "admitted")
    /\ UNCHANGED <<failCount, failLeft, lockLeft, redisFaults, excused, late>>

\* The account is unknown, inactive or archived: nothing is counted.
Dismissed(l) ==
    /\ LoginStep(l, "admitted", "idle")
    /\ UNCHANGED <<failCount, failLeft, lockLeft, redisFaults, excused, late>>

\* A wrong password: INCR.  The first creates the counter without an expiry;
\* only the one that makes exactly MaxAttempts goes on to set the lock.
AfterIncr(n) ==
    CASE n = 1           -> "expire"
      [] n = MaxAttempts -> "lock"
      [] OTHER           -> "idle"

WrongPassword(l) ==
    LET n == IF failCount < TopCount THEN failCount + 1 ELSE failCount IN
    /\ LoginStep(l, "admitted", AfterIncr(n))
    /\ failCount' = n
    /\ failLeft' = IF failCount = 0 THEN Forever ELSE failLeft
    /\ late' = IF Locked /\ late <= Cardinality(Logins) THEN late + 1 ELSE late
    /\ UNCHANGED <<lockLeft, redisFaults, excused>>

\* EXPIRE, on whatever counter there is by now.
Expire(l) ==
    /\ LoginStep(l, "expire", "idle")
    /\ failLeft' = IF failCount > 0 THEN Window ELSE 0
    /\ UNCHANGED <<failCount, lockLeft, redisFaults, excused, late>>

Lockout == Window

SetLock(l) ==
    /\ LoginStep(l, "lock", "idle")
    /\ lockLeft' = Lockout
    /\ late' = 0
    /\ UNCHANGED <<failCount, failLeft, redisFaults, excused>>

\* resetLoginAttempts: two deletions.
ResetCount(l) ==
    /\ LoginStep(l, "admitted", "unlock")
    /\ failCount' = 0 /\ failLeft' = 0
    /\ excused' = (excused \/ \E o \in Logins \ {l} : login[o] # "idle")
    /\ UNCHANGED <<lockLeft, redisFaults, late>>

ResetLock(l) ==
    /\ LoginStep(l, "unlock", "idle")
    /\ lockLeft' = 0
    /\ excused' = (excused \/ failCount > 0)
    /\ UNCHANGED <<failCount, failLeft, redisFaults, late>>

\* Redis does not answer: the check passes, nothing is counted, expired, locked
\* or deleted, and the login goes on.
RedisFails(l) ==
    /\ redisFaults < MaxRedisFaults /\ redisFaults' = redisFaults + 1
    /\ \/ LoginStep(l, "idle", "admitted")
       \/ LoginStep(l, "admitted", "idle")
       \/ LoginStep(l, "admitted", "unlock")
       \/ LoginStep(l, "expire", "idle")
       \/ LoginStep(l, "lock", "idle")
       \/ LoginStep(l, "unlock", "idle")
    /\ excused' = TRUE
    /\ UNCHANGED <<failCount, failLeft, lockLeft, late>>

\* A key that has lived its time is gone.  Against minutes, the commands that
\* follow an INCR take no time.
TimePasses ==
    /\ \A l \in Logins : login[l] \in {"idle", "admitted"}
    /\ failLeft' = IF failLeft \in 1..Window THEN failLeft - 1 ELSE failLeft
    /\ failCount' = IF failLeft = 1 THEN 0 ELSE failCount
    /\ lockLeft' = IF lockLeft > 0 THEN lockLeft - 1 ELSE 0
    /\ UNCHANGED <<login, redisFaults, excused, late>>

LoginNext ==
    \/ \E l \in Logins :
          \/ Try(l) \/ Dismissed(l) \/ WrongPassword(l) \/ Expire(l)
          \/ SetLock(l) \/ ResetCount(l) \/ ResetLock(l) \/ RedisFails(l)
    \/ TimePasses

----------------------------------------------------------------------------
LoginTypeOK ==
    /\ failCount \in 0..TopCount /\ failLeft \in 0..Forever
    /\ redisFaults \in 0..MaxRedisFaults /\ excused \in BOOLEAN /\ late \in Nat
    /\ lockLeft \in 0..Window
    /\ login \in [Logins -> {"idle", "admitted", "expire", "lock", "unlock"}]

\* A counter that has reached the threshold has its lock, for as long as the
\* counter lives: the lock is set once, at exactly the threshold
\* (rate-limit.service.ts:45), and outlives the window of its counter.
ThresholdLocks ==
    failCount >= MaxAttempts
      => Locked \/ excused \/ \E l \in Logins : login[l] = "lock"

\* Check and count are not one step: once the lock is set, the logins admitted
\* before can still try their password, and no others.
GuessesAreBounded == late < Cardinality(Logins) \/ excused

\* redis.service.ts:50: "Every temporary key carries a TTL": a counter has none
\* only between its INCR and its EXPIRE, or after Redis failed there.
CounterExpires ==
    failLeft = Forever
      => excused \/ \E l \in Logins : login[l] = "expire"

\* The lockout holds, however logins interleave with each other and with expiry:
\* it is set, it lets through no more guesses than were under way, and it ends.
LockoutHolds == ThresholdLocks /\ GuessesAreBounded /\ CounterExpires
=============================================================================
