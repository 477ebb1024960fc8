------------------------------ MODULE Throttle ------------------------------
(***************************************************************************)
(* One rate-limit key shared by several API instances: the storage of the  *)
(* global throttler (database/redis-throttler.storage.ts) and checkLimit   *)
(* and checkLimitCritical (database/rate-limit.service.ts), all three over *)
(* RedisService.incr.  They differ in what they do without Redis.          *)
(***************************************************************************)
EXTENDS Integers

CONSTANTS Apis,         \* API instances
          Limit,        \* requests per window
          Ttl,          \* the window
          MaxOutages,   \* bound on the commands that fail
          Heavy         \* bound on the requests of one moment

ASSUME ThrottleAssumption == Limit \in Nat \ {0} /\ Ttl \in Nat \ {0}
                             /\ MaxOutages \in Nat /\ Heavy \in Nat
                             /\ "Redis" \notin Apis

VARIABLES
    policy,     \* "local": the throttler; "open", "closed": the two checks
    hits,       \* the counter in Redis, 0 when absent
    hitsLeft,   \* what is left of its life; Endless without an expiry
    local,      \* by instance: the fallback counter and what is left of its life
    expiring,   \* instances between INCR and EXPIRE
    outages,
    \* history, read by no action
    arrived,    \* by age, within a window: requests since then
    admitted,   \* by age and by who decided, Redis or an instance without it:
                \* requests let through since then
    refused     \* who refused the last request: Redis, the fallback, or nobody

throttleVars == <<policy, hits, hitsLeft, local, expiring, outages, arrived,
                  admitted, refused>>

----------------------------------------------------------------------------
Endless == Ttl + 1
Ages == 0..Ttl - 1
Judges == Apis \cup {"Redis"}
Quiet == [a \in Ages |-> 0]
OneOlder(h) == [a \in Ages |-> IF a = 0 THEN 0 ELSE h[a - 1]]
Another(h) == [a \in Ages |-> h[a] + 1]
Within(h) == h[Ttl - 1]
Top == Limit + 2                         \* a higher count is as good as this one
OneMore(n) == IF n < Top THEN n + 1 ELSE Top
NoCount == [count |-> 0, left |-> 0]

ThrottleInit ==
    /\ policy \in {"local", "open", "closed"}
    /\ hits = 0 /\ hitsLeft = 0
    /\ local = [p \in Apis |-> NoCount]
    /\ expiring = {} /\ outages = 0
    /\ arrived = Quiet /\ admitted = [j \in Judges |-> Quiet] /\ refused = "nobody"

\* A request arrives; it goes on unless somebody refuses it.
Judge(judge, refuser) ==
    /\ arrived[0] < Heavy
    /\ arrived' = Another(arrived)
    /\ admitted' = IF refuser = "nobody"
                     THEN [admitted EXCEPT ![judge] = Another(@)] ELSE admitted
    /\ refused' = refuser

\* INCR: the first of a window goes on to set its expiry.
OffByOne(count) == count > Limit + 1                                     \* mutant
TooMany(count) == count > Limit

IncrAnswers(p) ==
    /\ p \notin expiring
    /\ hits' = OneMore(hits)
    /\ hitsLeft' = IF hits = 0 THEN Endless ELSE hitsLeft
    /\ expiring' = IF hits = 0 THEN expiring \cup {p} ELSE expiring
    /\ Judge("Redis", IF TooMany(hits + 1) THEN "Redis" ELSE "nobody")
    /\ UNCHANGED <<policy, local, outages>>

\* EXPIRE, or its failure, which nobody notices.
ExpireAnswers(p) ==
    /\ p \in expiring /\ expiring' = expiring \ {p}
    /\ hitsLeft' = IF hits > 0 THEN Ttl ELSE 0
    /\ UNCHANGED <<policy, hits, local, outages, arrived, admitted, refused>>

Outage == outages < MaxOutages /\ outages' = outages + 1

ExpireFails(p) ==
    /\ p \in expiring /\ expiring' = expiring \ {p}
    /\ Outage
    /\ UNCHANGED <<policy, hits, hitsLeft, local, arrived, admitted, refused>>

\* Without an answer from Redis, which may have counted all the same, the critical
\* check refuses, the other one admits, and the throttler counts by itself: each
\* hit gives its counter another whole window.
Counted(c) == [count |-> c.count + 1, left |-> Ttl]

Verdict(p) ==
    CASE policy = "closed" -> "Redis"
      [] policy = "open"   -> "nobody"
      [] OTHER             -> IF TooMany(Counted(local[p]).count) THEN "fallback" ELSE "nobody"

IncrFails(p) ==
    /\ p \notin expiring
    /\ Outage
    /\ \/ UNCHANGED <<hits, hitsLeft>>
       \/ /\ hits' = OneMore(hits)
          /\ hitsLeft' = IF hits = 0 THEN Endless ELSE hitsLeft
    /\ local' = IF policy = "local" THEN [local EXCEPT ![p] = Counted(@)] ELSE local
    /\ Judge(p, Verdict(p))
    /\ UNCHANGED <<policy, expiring>>

\* Against the window, the EXPIRE that follows an INCR takes no time.
WindowPasses ==
    /\ expiring = {}
    /\ hitsLeft' = IF hitsLeft \in 1..Ttl THEN hitsLeft - 1 ELSE hitsLeft
    /\ hits' = IF hitsLeft = 1 THEN 0 ELSE hits
    /\ local' = [p \in Apis |-> IF local[p].left <= 1 THEN NoCount
                                ELSE [local[p] EXCEPT !.left = @ - 1]]
    /\ arrived' = OneOlder(arrived)
    /\ admitted' = [j \in Judges |-> OneOlder(admitted[j])]
    /\ refused' = "nobody"
    /\ UNCHANGED <<policy, expiring, outages>>

ThrottleNext ==
    \/ \E p \in Apis :
          IncrAnswers(p) \/ ExpireAnswers(p) \/ ExpireFails(p) \/ IncrFails(p)
    \/ WindowPasses

----------------------------------------------------------------------------
\* The type invariant.
ThrottleTypeOK ==
    /\ policy \in {"local", "open", "closed"}
    /\ hits \in 0..Top /\ hitsLeft \in 0..Endless /\ (hits = 0) = (hitsLeft = 0)
    /\ local \in [Apis -> [count : 0..MaxOutages, left : 0..Ttl]]
    /\ \A p \in Apis : (local[p].count = 0) = (local[p].left = 0)
    /\ expiring \subseteq Apis /\ outages \in 0..MaxOutages
    /\ arrived \in [Ages -> Nat] /\ admitted \in [Judges -> [Ages -> Nat]]
    /\ refused \in {"nobody", "Redis", "fallback"}

\* Whatever fails, no span of a window lets more requests through than two windows
\* of Redis that meet inside it (less the one that opened the first) and one
\* fallback counter per instance; the critical check stays within Redis's.
AdmissionIsBounded ==
    /\ Within(admitted["Redis"]) <= 2 * Limit - 1
    /\ \A p \in Apis :
          /\ policy = "closed" => Within(admitted[p]) = 0
          /\ policy = "local"  => Within(admitted[p]) <= Limit

\* Redis refuses only a client that made more than Limit requests within a window,
\* unless a command failed before: a counter whose EXPIRE was lost has no end and
\* refuses for good.
RefusedForACause ==
    refused = "Redis" => Within(arrived) > Limit \/ outages > 0

\* A counter without an expiry is one whose EXPIRE is under way or was lost.
CounterEnds == hitsLeft = Endless => expiring # {} \/ outages > 0

\* The limit holds: it admits a bounded number whatever fails, refuses nobody below
\* it while nothing does, and its counters end.
LimitHolds == AdmissionIsBounded /\ RefusedForACause /\ CounterEnds
=============================================================================
