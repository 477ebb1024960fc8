------------------------------ MODULE Sessions ------------------------------
(***************************************************************************)
(* The sessions of one account (modules/auth/auth.service.ts): rows of     *)
(* the table RefreshToken, which logins, refreshes, logouts, exchange      *)
(* codes and the archival of the organization write concurrently, and the  *)
(* refresh cookie of one of the account's browsers.                        *)
(*                                                                         *)
(* A refresh token is a JWT of the user id and the second it was signed    *)
(* in: two tokens of one second are the same string, and the column is     *)
(* unique.  A token is therefore the second it was signed in.              *)
(*                                                                         *)
(* A transaction is READ COMMITTED: the UPDATE of a login sees the rows    *)
(* committed when it starts, and waits for those others are changing.      *)
(*                                                                         *)
(* Abstracted: the seven days a token lives, passwords, roles, the access  *)
(* tokens handed out beside each refresh token.                            *)
(***************************************************************************)
EXTENDS Naturals, FiniteSets

CONSTANTS Calls,     \* requests that may be in flight at a time
          MaxTime,   \* bound on the clock, in seconds
          MaxRows,   \* bound on the rows ever inserted
          None

ASSUME SessionsAssumption == MaxTime \in Nat /\ MaxRows \in Nat \ {0}
                             /\ None \notin Nat

VARIABLES
    time,      \* the current second
    active,    \* User.isActive
    row,       \* RefreshToken: token -> its row
    used,      \* rows inserted so far: the next id is used + 1
    code,      \* the exchange code
    call,      \* the requests in flight
    jar,       \* the token in the browser's refresh_token cookie
    \* history, read by no action
    ended,     \* sessions ended while no refresh of them was in flight
    alone,     \* no request overlapped another since the last login, which
               \* did not fail, began
    beside     \* refreshes of the browser that ran beside another of its own

store   == <<row, used>>
history == <<ended, alone, beside>>
vars    == <<time, active, row, used, code, call, jar, ended, alone, beside>>

----------------------------------------------------------------------------
Seconds == 0..MaxTime
NoRow == [id |-> 0, revoked |-> FALSE, session |-> 0, owner |-> None]
\* The session of a row is the id of its first row: a refresh continues it.  The
\* owner is the device that holds its token: the browser, or another one.
RowOf(id, session, owner) ==
    [id |-> id, revoked |-> FALSE, session |-> session, owner |-> owner]

Exists(t) == row[t] # NoRow
Live == {t \in Seconds : Exists(t) /\ ~row[t].revoked}
LiveIds == {row[t].id : t \in Live}

\* A login is "login" until its updateMany starts, then "revoking" the rows seen;
\* a refresh carries the row it read.
Request(kind, who, since, id, session, seen) ==
    [kind |-> kind, who |-> who, since |-> since, id |-> id, session |-> session,
     seen |-> seen]
Idle == Request("idle", None, 0, 0, 0, {})
Free(c) == call[c] = Idle
Busy == {c \in Calls : ~Free(c)}
BrowserRefreshes == {c \in Busy : call[c].kind = "refresh"
                                    /\ call[c].who = "browser"}
Done(c) == call' = [call EXCEPT ![c] = Idle]

\* The seconds in which a call may have signed its token.
Signing(c) == call[c].since..time

\* Sessions revoked by revoking the tokens ts, that no refresh is continuing.
Finished(ts) == {s \in {row[t].session : t \in ts} :
                    \A c \in Calls : call[c].kind = "refresh" => call[c].session # s}

\* updateMany({revoked: true}) on the rows with these ids.
KeepsOldSessions(ids) == row                                             \* mutant
Revoked(ids) == [t \in Seconds |-> IF row[t].id \in ids
                                     THEN [row[t] EXCEPT !.revoked = TRUE]
                                     ELSE row[t]]

\* The unique index on token: a second token of one second is refused.
Taken(t) == Exists(t)

\* The cookie after a call of who answered with the token t (None: an error
\* whose handler clears the cookies).
Cookie(who, t) == jar' = IF who = "browser" THEN t ELSE jar

----------------------------------------------------------------------------
\* register: the account starts inactive, and yet with a session.
Init ==
    /\ time = 0
    /\ active = FALSE
    /\ row = [t \in Seconds |-> IF t = 0 THEN RowOf(1, 1, "browser") ELSE NoRow]
    /\ used = 1
    /\ code = "none"
    /\ call = [c \in Calls |-> Idle]
    /\ jar = 0
    /\ ended = {} /\ alone = TRUE /\ beside = {}

Tick ==
    /\ time < MaxTime
    /\ time' = time + 1
    /\ UNCHANGED <<active, store, code, call, jar, history>>

\* approveUser and updateUser change isActive; they revoke nothing.
SetActive(b) ==
    /\ active' = b
    /\ UNCHANGED <<time, store, code, call, jar, history>>

\* archiveOrganization: users deactivated and tokens revoked, in a transaction.
Archive ==
    /\ active' = FALSE
    /\ row' = Revoked(LiveIds)
    /\ ended' = ended \cup Finished(Live)
    /\ UNCHANGED <<time, used, code, call, jar, alone, beside>>

\* The part of login before its transaction: the account is active and the
\* password was right.
LoginReads(c, who) ==
    /\ Free(c) /\ active
    /\ call' = [call EXCEPT ![c] = Request("login", who, time, 0, 0, {})]
    /\ alone' = (Busy = {})
    /\ UNCHANGED <<time, active, store, code, jar, ended, beside>>

\* The transaction's updateMany starts: these are the rows it will revoke.
LoginSelects(c) ==
    /\ call[c].kind = "login"
    /\ call' = [call EXCEPT
          ![c] = Request("revoking", call[c].who, call[c].since, 0, 0, LiveIds)]
    /\ UNCHANGED <<time, active, store, code, jar, history>>

\* create and commit.
LoginCommits(c, t) ==
    /\ call[c].kind = "revoking"
    /\ ~Taken(t) /\ used < MaxRows
    /\ row' = [Revoked(call[c].seen) EXCEPT ![t] = RowOf(used + 1, used + 1, call[c].who)]
    /\ used' = used + 1
    /\ ended' = ended \cup Finished({u \in Live : row[u].id \in call[c].seen})
    /\ Done(c) /\ Cookie(call[c].who, t)
    /\ UNCHANGED <<time, active, code, alone, beside>>

\* The token is already in the table: the transaction rolls back.
LoginCollides(c, t) ==
    /\ call[c].kind = "revoking" /\ Taken(t)
    /\ Done(c)
    /\ alone' = FALSE
    /\ UNCHANGED <<time, active, store, code, jar, ended, beside>>

\* refresh finds the row of the token it was sent, and refuses a revoked one.
Accepts(t) == Exists(t) /\ ~row[t].revoked

RefreshReads(c, t) ==
    /\ Free(c) /\ Accepts(t) /\ (row[t].owner = "browser" => t = jar)
    /\ call' = [call EXCEPT ![c] = Request("refresh", row[t].owner, time, row[t].id,
                                           row[t].session, {})]
    /\ alone' = (alone /\ Busy = {})
    /\ beside' = IF row[t].owner = "browser" /\ BrowserRefreshes # {}
                   THEN beside \cup BrowserRefreshes \cup {c} ELSE beside
    /\ UNCHANGED <<time, active, store, code, jar, ended>>

\* A request is answered by clearing the cookies, and nothing else happens.
Dropped == /\ jar # None
           /\ jar' = None
           /\ UNCHANGED <<time, active, store, code, call, history>>

\* 401: no such row, or a revoked one.
RefreshRefused == Dropped /\ ~Accepts(jar)

\* The row cannot be read: any error of a refresh clears the cookies.
RefreshUnread == Dropped

\* logout swallows the error of its UPDATE, and the controller goes on.
LogoutFails == Dropped

\* The token whose row a refresh read, if the row is still there.
Found(c) == {u \in Seconds : Exists(u) /\ row[u].id = call[c].id}

\* The transaction deletes that row by its id and inserts the next one.  Only
\* the existence of the row is checked again, by the delete.
CommitsAnyway(c, t) == ~Taken(t) \/ Found(c) = {t}                       \* mutant
RefreshMayCommit(c, t) == Found(c) # {} /\ (~Taken(t) \/ Found(c) = {t})

Rotates(c, t) ==
    /\ call[c].kind = "refresh" /\ RefreshMayCommit(c, t) /\ used < MaxRows
    /\ row' = [u \in Seconds |->
                  IF u = t THEN RowOf(used + 1, call[c].session, call[c].who)
                  ELSE IF u \in Found(c) THEN NoRow ELSE row[u]]
    /\ used' = used + 1
    /\ Done(c) /\ beside' = beside \ {c}
    /\ UNCHANGED <<time, active, code, ended, alone>>

RefreshCommits(c, t) == Rotates(c, t) /\ Cookie(call[c].who, t)

\* The answer of the commit is lost, or the profile that the controller reads
\* after it is not found: the cookies are cleared.
ProfileFails(c, t) == Rotates(c, t) /\ Cookie(call[c].who, None)

\* Nothing is committed and the controller clears the cookies: the row is gone,
\* the new token is taken, or the database refuses, fails or is too slow.
RefreshFails(c) ==
    /\ call[c].kind = "refresh"
    /\ Done(c) /\ beside' = beside \ {c} /\ Cookie(call[c].who, None)
    /\ UNCHANGED <<time, active, store, code, ended, alone>>

\* logout of the session with token t.
Logout(t) ==
    /\ Exists(t) /\ (row[t].owner = "browser" => t = jar)
    /\ row' = Revoked({row[t].id})
    /\ ended' = ended \cup Finished({t})
    /\ Cookie(row[t].owner, None)
    /\ UNCHANGED <<time, active, used, code, call, alone, beside>>

\* generateExchangeCode: a signed code of 120 seconds, also stored in Redis.
GenerateCode ==
    /\ code = "none"
    /\ code' = "valid"
    /\ UNCHANGED <<time, active, store, call, jar, history>>

Redeemable == code = "valid"

CodeExpires ==
    /\ Redeemable
    /\ code' = "expired"
    /\ UNCHANGED <<time, active, store, call, jar, history>>

\* exchangeCode until its insert.  The stored copy is deleted by its first
\* reader, but a code that is not stored is accepted on its signature: what is
\* stored decides nothing.
ExchangeReads(c) ==
    /\ Free(c) /\ Redeemable
    /\ call' = [call EXCEPT ![c] = Request("exchange", "other", time, 0, 0, {})]
    /\ alone' = FALSE
    /\ UNCHANGED <<time, active, store, code, jar, ended, beside>>

ExchangeCommits(c, t) ==
    /\ call[c].kind = "exchange" /\ ~Taken(t) /\ used < MaxRows
    /\ row' = [row EXCEPT ![t] = RowOf(used + 1, used + 1, "other")]
    /\ used' = used + 1
    /\ Done(c)
    /\ UNCHANGED <<time, active, code, jar, history>>

ExchangeCollides(c, t) ==
    /\ call[c].kind = "exchange" /\ Taken(t)
    /\ Done(c)
    /\ UNCHANGED <<time, active, store, code, jar, history>>

Who == {"browser", "other"}

Next ==
    \/ Tick \/ Archive \/ GenerateCode \/ CodeExpires
    \/ \E b \in BOOLEAN : SetActive(b)
    \/ RefreshRefused \/ RefreshUnread \/ LogoutFails
    \/ \E t \in Seconds : Logout(t)
    \/ \E c \in Calls :
         \/ \E who \in Who : LoginReads(c, who)
         \/ \E t \in Seconds : RefreshReads(c, t)
         \/ LoginSelects(c) \/ ExchangeReads(c) \/ RefreshFails(c)
         \/ \E t \in Signing(c) :
              \/ LoginCommits(c, t) \/ LoginCollides(c, t)
              \/ RefreshCommits(c, t) \/ ProfileFails(c, t)
              \/ ExchangeCommits(c, t) \/ ExchangeCollides(c, t)

Spec == Init /\ [][Next]_vars
----------------------------------------------------------------------------
\* The type invariant.
TypeOK ==
    /\ time \in Seconds /\ active \in BOOLEAN
    /\ row \in [Seconds -> [id : 0..MaxRows, revoked : BOOLEAN,
                            session : 0..MaxRows, owner : Who \cup {None}]]
    /\ used \in 1..MaxRows
    /\ code \in {"none", "valid", "expired"}
    /\ call \in [Calls -> [kind : {"idle", "login", "revoking", "refresh", "exchange"},
                           who : Who \cup {None}, since : Seconds,
                           id : 0..MaxRows, session : 0..MaxRows,
                           seen : SUBSET (1..MaxRows)]]
    /\ jar \in Seconds \cup {None}
    /\ ended \subseteq 1..MaxRows
    /\ alone \in BOOLEAN /\ beside \subseteq Calls

\* A session has one row at a time, so a token has at most one successor, even
\* when several refreshes present it at once: all but one fail at the delete.
OneSuccessor ==
    \A t, u \in Seconds :
        Exists(t) /\ Exists(u) /\ row[t].session = row[u].session => t = u

\* A session that a logout, a later login or the archival ended stays ended,
\* unless a refresh of it was already in flight: then it comes back.
EndedStaysEnded == \A t \in Live : row[t].session \notin ended

\* "Single Active Session": once a login is through, one session is live, if no
\* two requests overlapped since it began and no code was exchanged.  (A login in
\* the second another token was signed in fails.)
OneLiveSession ==
    alone /\ Busy = {} => Cardinality(Live) <= 1

\* A session has one token, an ended one has none, and a login leaves one session.
SessionsEndForGood == OneSuccessor /\ EndedStaysEnded /\ OneLiveSession

\* What may leave a session without its cookie: a call that failed, before its
\* commit or after it, or a refresh whose row another one of the browser, with
\* which it overlapped, had rotated first.
Stranding ==
    \/ LogoutFails \/ RefreshUnread
    \/ \E c \in Calls :
         \/ \E t \in Seconds : ProfileFails(c, t)
         \/ RefreshFails(c) /\ (Found(c) # {} \/ c \in beside)

\* A browser that drops its cookie leaves no live session behind, unless that
\* very step is a failure, or the late answer of a refresh that ran beside another.
CookieOutlivesNoSession ==
    [][jar' = None /\ jar \in Live /\ ~Stranding =>
          \A t \in Live' : row'[t].session # row[jar].session]_vars
=============================================================================
