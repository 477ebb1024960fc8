--------------------------- MODULE Sessions_proofs ---------------------------
(***************************************************************************)
(* What holds of Sessions for any number of requests, seconds and rows.    *)
(***************************************************************************)
EXTENDS Sessions, FiniteSetTheorems, TLAPS

Refreshing(c) == call[c].kind = "refresh"

-----------------------------------------------------------------------------
(* The inductive invariant.                                                *)

(* Ids are given out in order, and one row has each.                       *)
RowsOK ==
  /\ \A t \in Seconds : Exists(t) =>
       /\ row[t].id \in 1..used /\ row[t].session \in 1..used
       /\ row[t].owner \in Who
  /\ \A t, u \in Seconds : Exists(t) /\ Exists(u) /\ row[t].id = row[u].id => t = u

(* A refresh knows its row, as long as it is there: nothing but the         *)
(* revocation of a row ever changes.                                       *)
CallsOK ==
  /\ \A c \in Busy : call[c].kind # "idle" /\ call[c].who \in Who
  /\ \A c \in Calls : Refreshing(c) =>
       /\ call[c].id \in 1..used /\ call[c].session \in 1..used
       /\ \A u \in Found(c) : /\ row[u].session = call[c].session
                              /\ row[u].owner = call[c].who

(* Nobody refreshes a session that was ended ...                           *)
EndedOK ==
  /\ ended \subseteq 1..used
  /\ \A c \in Calls : Refreshing(c) => call[c].session \notin ended

(* ... and, until requests overlap, one of them stands for all that is live. *)
AloneOK == alone =>
  /\ \A c, d \in Busy : c = d
  /\ Busy = {} => \A t, u \in Live : t = u
  /\ \A c \in Busy :
       /\ call[c].kind # "exchange"
       /\ call[c].kind = "revoking" => LiveIds \subseteq call[c].seen
       /\ Refreshing(c) => Live \subseteq Found(c)

(* A refresh of the browser with no other beside it finds its row.          *)
BrowserOK == \A c \in BrowserRefreshes \ beside :
  /\ \A d \in BrowserRefreshes : d = c
  /\ Found(c) # {}

IInv == /\ TypeOK /\ RowsOK /\ CallsOK /\ OneSuccessor
        /\ EndedStaysEnded /\ EndedOK /\ AloneOK /\ BrowserOK
-----------------------------------------------------------------------------
(* Types.                                                                  *)
Row == [id : 0..MaxRows, revoked : BOOLEAN, session : 0..MaxRows, owner : Who \cup {None}]
Call == [kind : {"idle", "login", "revoking", "refresh", "exchange"}, who : Who \cup {None},
         since : Seconds, id : 0..MaxRows, session : 0..MaxRows, seen : SUBSET (1..MaxRows)]

LEMMA TypeParts ==
  ASSUME TypeOK
  PROVE  /\ time \in Seconds /\ row \in [Seconds -> Row] /\ used \in 1..MaxRows
         /\ call \in [Calls -> Call]
BY DEF TypeOK, Row, Call

LEMMA RevokedType ==
  ASSUME TypeOK, NEW ids
  PROVE  Revoked(ids) \in [Seconds -> Row]
<1>1. \A t \in Seconds : row[t] \in Row
  BY TypeParts
<1>2. ASSUME NEW r \in Row
      PROVE  [r EXCEPT !.revoked = TRUE] \in Row
  BY DEF Row
<1> QED
  BY <1>1, <1>2 DEF Revoked

LEMMA SignedInTime ==
  ASSUME TypeOK, NEW c \in Calls, NEW t \in Signing(c)
  PROVE  t \in Seconds
<1>1. call[c].since \in Seconds /\ time \in Seconds
  BY TypeParts DEF Call
<1> QED
  BY <1>1, SessionsAssumption DEF Signing, Seconds

LEMMA NewRow ==
  ASSUME TypeOK, used < MaxRows
  PROVE  used + 1 \in 1..MaxRows
BY TypeParts, SessionsAssumption

LEMMA NewCall ==
  ASSUME NEW kind \in {"idle", "login", "revoking", "refresh", "exchange"},
         NEW who \in Who \cup {None}, NEW since \in Seconds, NEW id \in 0..MaxRows,
         NEW session \in 0..MaxRows, NEW seen \in SUBSET (1..MaxRows)
  PROVE  Request(kind, who, since, id, session, seen) \in Call
BY DEF Request, Call

LEMMA IdleType == Idle \in Call /\ Idle.kind = "idle"
<1>1. 0 \in Seconds /\ 0 \in 0..MaxRows
  BY SessionsAssumption DEF Seconds
<1> QED
  BY <1>1 DEF Idle, Request, Call

-----------------------------------------------------------------------------
(* The steps, as far as the rows and the requests are concerned.           *)
Quiet == UNCHANGED <<row, used, call, ended, alone, beside>>

Ends(ts) == /\ row' = Revoked({row[t].id : t \in ts})
            /\ ended' = ended \cup Finished(ts)
            /\ UNCHANGED <<used, call, alone, beside>>

GivesUp(c, t) == LoginCollides(c, t) \/ RefreshFails(c) \/ ExchangeCollides(c, t)
Refreshes(c, t) == RefreshCommits(c, t) \/ ProfileFails(c, t)

LEMMA StepCases ==
  ASSUME TypeOK, [Next]_vars
  PROVE  \/ Quiet
         \/ \E ts \in SUBSET Seconds : (\A t \in ts : Exists(t)) /\ Ends(ts)
         \/ \E c \in Calls :
              \/ \E who \in Who : LoginReads(c, who)
              \/ LoginSelects(c) \/ ExchangeReads(c)
              \/ \E t \in Seconds :
                   \/ RefreshReads(c, t) \/ LoginCommits(c, t) \/ GivesUp(c, t)
                   \/ Refreshes(c, t) \/ ExchangeCommits(c, t)
<1>1. CASE UNCHANGED vars \/ Tick \/ Dropped \/ GenerateCode \/ CodeExpires
           \/ \E b \in BOOLEAN : SetActive(b)
  BY <1>1 DEF vars, Tick, Dropped, GenerateCode, CodeExpires, SetActive, Quiet,
             store, history
<1>1a. RefreshRefused \/ RefreshUnread \/ LogoutFails => Dropped
  BY DEF RefreshRefused, RefreshUnread, LogoutFails
<1>2. CASE Archive
  <2>1. Live \in SUBSET Seconds /\ \A t \in Live : Exists(t)
    BY DEF Live
  <2>2. Ends(Live)
    BY <1>2 DEF Archive, Ends, LiveIds
  <2> QED
    BY <2>1, <2>2
<1>3. ASSUME NEW t \in Seconds, Logout(t)
      PROVE  {t} \in SUBSET Seconds /\ (\A u \in {t} : Exists(u)) /\ Ends({t})
  <2>1. {row[u].id : u \in {t}} = {row[t].id}
    OBVIOUS
  <2> QED
    BY <1>3, <2>1 DEF Logout, Ends
<1>4. ASSUME NEW c \in Calls, NEW t \in Signing(c)
      PROVE  t \in Seconds
  BY SignedInTime
<1>5. Seconds # {}
  BY SessionsAssumption DEF Seconds
<1> QED
  BY <1>1, <1>1a, <1>2, <1>3, <1>4, <1>5 DEF Next, GivesUp, Refreshes

LEMMA IdsInRange ==
  ASSUME TypeOK, RowsOK
  PROVE  /\ LiveIds \in SUBSET (1..MaxRows)
         /\ \A ts \in SUBSET Seconds : (\A t \in ts : Exists(t)) =>
              Finished(ts) \subseteq 1..MaxRows
         /\ \A t \in Seconds : Exists(t) =>
              row[t].id \in 1..MaxRows /\ row[t].session \in 1..MaxRows
<1>1. \A n \in 1..used : n \in 1..MaxRows
  BY TypeParts, SessionsAssumption
<1> QED
  BY <1>1 DEF RowsOK, LiveIds, Live, Finished

LEMMA TypeStep ==
  ASSUME TypeOK, RowsOK, [Next]_vars
  PROVE  TypeOK'
<1> USE DEF Row, Call
<1>t. 0..MaxTime = Seconds /\ 0 \in 0..MaxRows /\ time \in Seconds
  BY TypeParts, SessionsAssumption DEF Seconds
<1>c. ASSUME NEW c \in Calls, NEW q \in Call, call' = [call EXCEPT ![c] = q]
      PROVE  call' \in [Calls -> Call]
  BY <1>c, TypeParts
<1>k. ASSUME NEW c \in Calls
      PROVE  /\ call[c] \in Call
             /\ call[c].since \in Seconds /\ call[c].who \in Who \cup {None}
             /\ call[c].session \in 0..MaxRows
  BY TypeParts
<1>d. ASSUME NEW c \in Calls, Done(c)
      PROVE  call' \in [Calls -> Call]
  BY <1>d, <1>c, IdleType DEF Done
<1>j. ASSUME NEW who, NEW t \in Seconds \cup {None}, Cookie(who, t)
      PROVE  jar' \in Seconds \cup {None}
  BY <1>j DEF Cookie, TypeOK
<1>n. ASSUME used < MaxRows
      PROVE  used + 1 \in 1..MaxRows /\ used + 1 \in 0..MaxRows
  BY <1>n, NewRow, SessionsAssumption
<1>r. ASSUME used < MaxRows, NEW s \in 0..MaxRows, NEW o \in Who \cup {None}
      PROVE  RowOf(used + 1, s, o) \in Row
  BY <1>r, <1>n DEF RowOf
<1>o. NoRow \in Row
  BY <1>t DEF NoRow
<1>1. CASE UNCHANGED vars
  BY <1>1 DEF vars, TypeOK
<1>2. CASE Tick
  <2>1. time' \in Seconds
    BY <1>2, <1>t, SessionsAssumption DEF Tick, Seconds
  <2> QED
    BY <1>2, <2>1 DEF Tick, store, history, TypeOK
<1>3. CASE Archive
  <2>1. row' \in [Seconds -> Row] /\ ended' \subseteq 1..MaxRows
    BY <1>3, RevokedType, IdsInRange DEF Archive, TypeOK, Live
  <2> QED
    BY <1>3, <2>1 DEF Archive, TypeOK
<1>4. CASE RefreshRefused \/ RefreshUnread \/ LogoutFails
  BY <1>4 DEF RefreshRefused, RefreshUnread, LogoutFails, Dropped, TypeOK, store, history
<1>5. CASE GenerateCode \/ CodeExpires
  BY <1>5 DEF GenerateCode, CodeExpires, TypeOK, store, history
<1>6. ASSUME NEW b \in BOOLEAN, SetActive(b)
      PROVE  TypeOK'
  BY <1>6 DEF SetActive, TypeOK, store, history
<1>7. ASSUME NEW t \in Seconds, Logout(t)
      PROVE  TypeOK'
  <2>1. row' \in [Seconds -> Row]
    BY <1>7, RevokedType DEF Logout
  <2>2. ended' \subseteq 1..MaxRows
    <3>1. Finished({t}) \subseteq 1..MaxRows
      BY <1>7, IdsInRange DEF Logout
    <3> QED
      BY <1>7, <3>1 DEF Logout, TypeOK
  <2>3. jar' \in Seconds \cup {None}
    BY <1>7, <1>j DEF Logout
  <2> QED
    BY <1>7, <2>1, <2>2, <2>3 DEF Logout, TypeOK
<1>8. ASSUME NEW c \in Calls
      PROVE  /\ \A who \in Who : LoginReads(c, who) => TypeOK'
             /\ LoginSelects(c) => TypeOK'
             /\ ExchangeReads(c) => TypeOK'
  <2>1. ASSUME NEW who \in Who, LoginReads(c, who)
        PROVE  TypeOK'
    <3>1. Request("login", who, time, 0, 0, {}) \in Call
      BY NewCall, <1>t
    <3>2. call' \in [Calls -> Call]
      BY <2>1, <3>1, <1>c DEF LoginReads
    <3>3. alone' \in BOOLEAN
      BY <2>1 DEF LoginReads
    <3> QED
      BY <2>1, <3>2, <3>3 DEF LoginReads, TypeOK, store
  <2>2. ASSUME LoginSelects(c)
        PROVE  TypeOK'
    <3>1. Request("revoking", call[c].who, call[c].since, 0, 0, LiveIds) \in Call
      BY NewCall, <1>t, <1>k, IdsInRange
    <3>2. call' \in [Calls -> Call]
      BY <2>2, <3>1, <1>c DEF LoginSelects
    <3> QED
      BY <2>2, <3>2 DEF LoginSelects, TypeOK, store, history
  <2>3. ASSUME ExchangeReads(c)
        PROVE  TypeOK'
    <3>1. Request("exchange", "other", time, 0, 0, {}) \in Call
      BY NewCall, <1>t DEF Who
    <3>2. call' \in [Calls -> Call]
      BY <2>3, <3>1, <1>c DEF ExchangeReads
    <3> QED
      BY <2>3, <3>2 DEF ExchangeReads, TypeOK, store
  <2> QED
    BY <2>1, <2>2, <2>3
<1>9. ASSUME NEW c \in Calls, NEW t \in Seconds, RefreshReads(c, t)
      PROVE  TypeOK'
  <2>1. row[t] \in Row
    BY TypeParts
  <2>2. row[t].owner \in Who \cup {None} /\ row[t].id \in 0..MaxRows
        /\ row[t].session \in 0..MaxRows
    BY <2>1
  <2>3. Request("refresh", row[t].owner, time, row[t].id, row[t].session, {}) \in Call
    BY NewCall, <1>t, <2>2
  <2>4. call' \in [Calls -> Call]
    BY <1>9, <2>3, <1>c DEF RefreshReads
  <2>5. alone' \in BOOLEAN
    BY <1>9 DEF RefreshReads
  <2>6. beside' \subseteq Calls
    BY <1>9 DEF RefreshReads, TypeOK, BrowserRefreshes, Busy
  <2> QED
    BY <1>9, <2>4, <2>5, <2>6 DEF RefreshReads, TypeOK, store
<1>10. ASSUME NEW c \in Calls, NEW t \in Signing(c)
       PROVE  /\ LoginCommits(c, t) => TypeOK'
              /\ LoginCollides(c, t) \/ ExchangeCollides(c, t) => TypeOK'
              /\ Refreshes(c, t) => TypeOK'
              /\ ExchangeCommits(c, t) => TypeOK'
  <2>t. t \in Seconds
    BY SignedInTime
  <2>1. ASSUME LoginCommits(c, t)
        PROVE  TypeOK'
    <3>1. row' \in [Seconds -> Row]
      <4>1. RowOf(used + 1, used + 1, call[c].who) \in Row
        BY <2>1, <1>r, <1>n, <1>k DEF LoginCommits
      <4> QED
        BY <2>1, <4>1, RevokedType DEF LoginCommits
    <3>2. ended' \subseteq 1..MaxRows
      <4> DEFINE ts == {u \in Live : row[u].id \in call[c].seen}
      <4>1. ts \in SUBSET Seconds /\ \A u \in ts : Exists(u)
        BY DEF Live
      <4>2. Finished(ts) \subseteq 1..MaxRows
        BY <4>1, IdsInRange
      <4>3. ended' = ended \cup Finished(ts)
        BY <2>1 DEF LoginCommits
      <4> QED
        BY <4>2, <4>3 DEF TypeOK
    <3>3. call' \in [Calls -> Call] /\ jar' \in Seconds \cup {None} /\ used' \in 1..MaxRows
      BY <2>1, <2>t, <1>d, <1>j, <1>n DEF LoginCommits
    <3> QED
      BY <2>1, <3>1, <3>2, <3>3 DEF LoginCommits, TypeOK
  <2>2. ASSUME LoginCollides(c, t) \/ ExchangeCollides(c, t)
        PROVE  TypeOK'
    <3>1. call' \in [Calls -> Call]
      BY <2>2, <1>d DEF LoginCollides, ExchangeCollides
    <3> QED
      BY <2>2, <3>1 DEF LoginCollides, ExchangeCollides, TypeOK, store, history
  <2>4. ASSUME Refreshes(c, t)
        PROVE  TypeOK'
    <3>0. Rotates(c, t)
      BY <2>4 DEF Refreshes, RefreshCommits, ProfileFails
    <3>1. row' \in [Seconds -> Row]
      <4>1. RowOf(used + 1, call[c].session, call[c].who) \in Row
        BY <3>0, <1>r, <1>k DEF Rotates
      <4>2. \A u \in Seconds : row[u] \in Row
        BY TypeParts
      <4> QED
        BY <3>0, <4>1, <4>2, <1>o DEF Rotates
    <3>2. call' \in [Calls -> Call] /\ used' \in 1..MaxRows
      BY <3>0, <1>d, <1>n DEF Rotates
    <3>3. jar' \in Seconds \cup {None} /\ beside' \subseteq Calls
      BY <2>4, <2>t, <1>j, <3>0 DEF Refreshes, RefreshCommits, ProfileFails,
          Rotates, TypeOK
    <3> QED
      BY <3>0, <3>1, <3>2, <3>3 DEF Rotates, TypeOK
  <2>5. ASSUME ExchangeCommits(c, t)
        PROVE  TypeOK'
    <3>1. row' \in [Seconds -> Row]
      <4>1. RowOf(used + 1, used + 1, "other") \in Row
        BY <2>5, <1>r, <1>n DEF ExchangeCommits, Who
      <4> QED
        BY <2>5, <4>1, TypeParts DEF ExchangeCommits
    <3>2. call' \in [Calls -> Call] /\ used' \in 1..MaxRows
      BY <2>5, <1>d, <1>n DEF ExchangeCommits
    <3> QED
      BY <2>5, <3>1, <3>2 DEF ExchangeCommits, TypeOK, history
  <2> QED
    BY <2>1, <2>2, <2>4, <2>5
<1>11. ASSUME NEW c \in Calls, RefreshFails(c)
       PROVE  TypeOK'
  <2>1. call' \in [Calls -> Call] /\ jar' \in Seconds \cup {None} /\ beside' \subseteq Calls
    BY <1>11, <1>d, <1>j DEF RefreshFails, TypeOK
  <2> QED
    BY <1>11, <2>1 DEF RefreshFails, TypeOK, store
<1> QED
  BY <1>1, <1>2, <1>3, <1>4, <1>5, <1>6, <1>7, <1>8, <1>9, <1>10, <1>11 DEF Next, Refreshes

-----------------------------------------------------------------------------
(* The effect of a step on the rows: all are kept, some revoked, or one is  *)
(* put whose session no other row has.                                     *)
Kept(u) == /\ Exists(u)' <=> Exists(u)
           /\ row'[u].id = row[u].id /\ row'[u].session = row[u].session
           /\ row'[u].owner = row[u].owner
           /\ row[u].revoked => row'[u].revoked

Keeps == used' = used /\ \A u \in Seconds : Kept(u)

Puts(t, s, o) ==
  /\ used' = used + 1 /\ used < MaxRows
  /\ row'[t] = RowOf(used + 1, s, o)
  /\ \A u \in Seconds : u # t /\ Exists(u)' =>
       Exists(u) /\ Kept(u) /\ row[u].session # s

LEMMA RevokedKept ==
  ASSUME TypeOK, NEW ids, 0 \notin ids, NEW u \in Seconds, row'[u] = Revoked(ids)[u]
  PROVE  Kept(u) /\ (row[u].id \in ids => row'[u].revoked)
<1>1. row[u] \in Row
  BY TypeParts
<1>2. row'[u] = IF row[u].id \in ids THEN [row[u] EXCEPT !.revoked = TRUE] ELSE row[u]
  BY DEF Revoked
<1>3. CASE row[u].id \in ids
  <2>1. row[u].id # 0 /\ NoRow.id = 0
    BY <1>3 DEF NoRow
  <2>2. /\ row'[u].id = row[u].id /\ row'[u].session = row[u].session
        /\ row'[u].owner = row[u].owner /\ row'[u].revoked
    BY <1>1, <1>2, <1>3 DEF Row
  <2> QED
    BY <2>1, <2>2 DEF Kept, Exists
<1>4. CASE row[u].id \notin ids
  BY <1>2, <1>4 DEF Kept, Exists
<1> QED
  BY <1>3, <1>4

LEMMA RequestFields ==
  ASSUME NEW kind, NEW who, NEW since, NEW id, NEW session, NEW seen
  PROVE  LET q == Request(kind, who, since, id, session, seen)
         IN  /\ q.kind = kind /\ q.who = who /\ q.since = since /\ q.id = id
             /\ q.session = session /\ q.seen = seen
BY DEF Request

LEMMA RowFields ==
  ASSUME NEW id, NEW session, NEW owner
  PROVE  LET r == RowOf(id, session, owner)
         IN  r.id = id /\ ~r.revoked /\ r.session = session /\ r.owner = owner
BY DEF RowOf

LEMMA BusyKinds ==
  ASSUME CallsOK, NEW c \in Calls, call[c].kind # "idle"
  PROVE  c \in Busy /\ call[c].who \in Who
BY IdleType DEF CallsOK, Busy, Free

LEMMA IdsPositive ==
  ASSUME TypeOK, RowsOK
  PROVE  \A ts \in SUBSET Seconds : (\A t \in ts : Exists(t)) =>
           0 \notin {row[t].id : t \in ts}
BY TypeParts DEF RowsOK

LEMMA EndsKeeps ==
  ASSUME TypeOK, RowsOK, NEW ts \in SUBSET Seconds, \A t \in ts : Exists(t), Ends(ts)
  PROVE  /\ Keeps
         /\ \A u \in Seconds : row[u].id \in {row[t].id : t \in ts} => row'[u].revoked
<1>1. 0 \notin {row[t].id : t \in ts}
  BY IdsPositive
<1>2. ASSUME NEW u \in Seconds
      PROVE  Kept(u) /\ (row[u].id \in {row[t].id : t \in ts} => row'[u].revoked)
  <2>1. row' = Revoked({row[t].id : t \in ts})
    BY DEF Ends
  <2> QED
    BY <1>1, <2>1, RevokedKept
<1> QED
  BY <1>2 DEF Keeps, Ends

LEMMA CommitPuts ==
  ASSUME TypeOK, RowsOK, CallsOK, NEW c \in Calls, NEW t \in Seconds, LoginCommits(c, t),
         0 \notin call[c].seen
  PROVE  /\ Puts(t, used + 1, call[c].who) /\ call[c].who \in Who
         /\ \A u \in Seconds : u # t =>
              Kept(u) /\ (row[u].id \in call[c].seen => row'[u].revoked)
<1>1. ASSUME NEW u \in Seconds, u # t
      PROVE  Kept(u) /\ (row[u].id \in call[c].seen => row'[u].revoked)
  <2>1. row'[u] = Revoked(call[c].seen)[u]
    BY <1>1, RevokedType DEF LoginCommits
  <2> QED
    BY <2>1, RevokedKept
<1>2. row'[t] = RowOf(used + 1, used + 1, call[c].who)
  BY RevokedType DEF LoginCommits
<1>3. \A u \in Seconds : Exists(u) => row[u].session # used + 1
  BY TypeParts, SessionsAssumption DEF RowsOK
<1>4. call[c].kind = "revoking" /\ used' = used + 1 /\ used < MaxRows
  BY DEF LoginCommits
<1>5. call[c].who \in Who
  BY <1>4, BusyKinds
<1> QED
  BY <1>1, <1>2, <1>3, <1>4, <1>5 DEF Puts, Kept

LEMMA ExchangePuts ==
  ASSUME TypeOK, RowsOK, NEW c \in Calls, NEW t \in Seconds, ExchangeCommits(c, t)
  PROVE  Puts(t, used + 1, "other") /\ \A u \in Seconds : u # t => row'[u] = row[u]
<1>1. \A u \in Seconds : u # t => row'[u] = row[u]
  BY TypeParts DEF ExchangeCommits
<1>2. row'[t] = RowOf(used + 1, used + 1, "other")
  BY TypeParts DEF ExchangeCommits
<1>3. \A u \in Seconds : Exists(u) => row[u].session # used + 1
  BY TypeParts, SessionsAssumption DEF RowsOK
<1>4. used' = used + 1 /\ used < MaxRows
  BY DEF ExchangeCommits
<1> QED
  BY <1>1, <1>2, <1>3, <1>4 DEF Puts, Kept, Exists

(* A refresh moves its session to the new row: the row it read is gone.     *)
LEMMA RotatesPuts ==
  ASSUME TypeOK, RowsOK, CallsOK, OneSuccessor,
         NEW c \in Calls, NEW t \in Seconds, Rotates(c, t)
  PROVE  /\ Puts(t, call[c].session, call[c].who)
         /\ call[c].who \in Who /\ call[c].session \in 1..used
         /\ \E v \in Found(c) : row[v].session = call[c].session
         /\ \A u \in Seconds : u # t => row'[u] = IF u \in Found(c) THEN NoRow ELSE row[u]
<1>0. /\ Refreshing(c) /\ Found(c) # {} /\ used' = used + 1 /\ used < MaxRows
      /\ call[c].who \in Who
  BY BusyKinds DEF Rotates, Refreshing, RefreshMayCommit
<1>1. /\ row'[t] = RowOf(used + 1, call[c].session, call[c].who)
      /\ \A u \in Seconds : u # t => row'[u] = IF u \in Found(c) THEN NoRow ELSE row[u]
  BY DEF Rotates
<1>2. PICK v \in Found(c) : row[v].session = call[c].session
  BY <1>0 DEF CallsOK
<1>3. ASSUME NEW u \in Seconds, u # t, Exists(u)'
      PROVE  Exists(u) /\ Kept(u) /\ row[u].session # call[c].session
  <2>1. u \notin Found(c) /\ row'[u] = row[u]
    BY <1>1, <1>3 DEF Exists
  <2>2. Exists(u) /\ Kept(u)
    BY <1>3, <2>1 DEF Exists, Kept
  <2>3. v \in Seconds /\ Exists(v) /\ v # u
    BY <1>2, <2>1 DEF Found
  <2> QED
    BY <1>2, <2>2, <2>3 DEF OneSuccessor
<1> QED
  BY <1>0, <1>1, <1>2, <1>3 DEF Puts, CallsOK

(* The rows a login is about to revoke have ids.                           *)
LEMMA SeenPositive ==
  ASSUME TypeOK, NEW c \in Calls
  PROVE  0 \notin call[c].seen
<1>1. call[c] \in Call
  BY TypeParts
<1>2. call[c].seen \in SUBSET (1..MaxRows)
  BY <1>1 DEF Call
<1> QED
  BY <1>2, SessionsAssumption

LEMMA RowEffect ==
  ASSUME TypeOK, RowsOK, CallsOK, OneSuccessor, [Next]_vars
  PROVE  \/ Keeps
         \/ \E t \in Seconds : \E s \in 1..(used + 1) : \E o \in Who : Puts(t, s, o)
<1>0. used \in Nat /\ used + 1 \in 1..(used + 1) /\ \A s \in 1..used : s \in 1..(used + 1)
  BY TypeParts, SessionsAssumption
<1>k. row' = row /\ used' = used => Keeps
  BY DEF Keeps, Kept, Exists
<1>1. CASE Quiet
  BY <1>1, <1>k DEF Quiet
<1>2. ASSUME NEW ts \in SUBSET Seconds, \A t \in ts : Exists(t), Ends(ts)
      PROVE  Keeps
  BY <1>2, EndsKeeps
<1>3. ASSUME NEW c \in Calls, NEW t \in Seconds,
             \/ \E who \in Who : LoginReads(c, who)
             \/ LoginSelects(c) \/ ExchangeReads(c) \/ RefreshReads(c, t) \/ GivesUp(c, t)
      PROVE  Keeps
  BY <1>3, <1>k DEF LoginReads, LoginSelects, ExchangeReads, RefreshReads, GivesUp,
                    LoginCollides, RefreshFails, ExchangeCollides, store
<1>4. ASSUME NEW c \in Calls, NEW t \in Seconds, LoginCommits(c, t)
      PROVE  \E s \in 1..(used + 1) : \E o \in Who : Puts(t, s, o)
  BY <1>0, <1>4, CommitPuts, SeenPositive
<1>5. ASSUME NEW c \in Calls, NEW t \in Seconds, Refreshes(c, t)
      PROVE  \E s \in 1..(used + 1) : \E o \in Who : Puts(t, s, o)
  <2>1. Rotates(c, t)
    BY <1>5 DEF Refreshes, RefreshCommits, ProfileFails
  <2> QED
    BY <1>0, <2>1, RotatesPuts
<1>6. ASSUME NEW c \in Calls, NEW t \in Seconds, ExchangeCommits(c, t)
      PROVE  \E s \in 1..(used + 1) : \E o \in Who : Puts(t, s, o)
  BY <1>0, <1>6, ExchangePuts DEF Who
<1>7. Seconds # {}
  BY SessionsAssumption DEF Seconds
<1> QED
  BY <1>1, <1>2, <1>3, <1>4, <1>5, <1>6, <1>7, StepCases

-----------------------------------------------------------------------------
(* The rows, step by step.                                                 *)

(* A row after a step is one from before it, or the one just put.          *)
LEMMA RowsStep ==
  ASSUME TypeOK, RowsOK, CallsOK, OneSuccessor, [Next]_vars
  PROVE  RowsOK' /\ OneSuccessor'
<1>0. used \in Nat
  BY TypeParts
<1>1. CASE Keeps
  BY <1>1 DEF Keeps, Kept, RowsOK, OneSuccessor
<1>2. ASSUME NEW t \in Seconds, NEW s \in 1..(used + 1), NEW o \in Who, Puts(t, s, o)
      PROVE  RowsOK' /\ OneSuccessor'
  <2>1. /\ used' = used + 1
        /\ row'[t].id = used + 1 /\ row'[t].session = s /\ row'[t].owner = o
    BY <1>2, RowFields DEF Puts
  <2>2. \A u \in Seconds : u # t /\ Exists(u)' =>
          /\ row'[u].id \in 1..used /\ row'[u].session \in 1..used /\ row'[u].owner \in Who
          /\ row'[u].id = row[u].id /\ row'[u].session = row[u].session
          /\ Exists(u) /\ row[u].session # s
    BY <1>2 DEF Puts, Kept, RowsOK
  <2>3. RowsOK'
    <3>1. \A u \in Seconds : Exists(u)' =>
            row'[u].id \in 1..used' /\ row'[u].session \in 1..used' /\ row'[u].owner \in Who
      BY <1>0, <2>1, <2>2
    <3>2. \A u, v \in Seconds : Exists(u)' /\ Exists(v)' /\ row'[u].id = row'[v].id => u = v
      BY <1>0, <2>1, <2>2 DEF RowsOK
    <3> QED
      BY <3>1, <3>2 DEF RowsOK
  <2>4. OneSuccessor'
    BY <2>1, <2>2 DEF OneSuccessor
  <2> QED
    BY <2>3, <2>4
<1> QED
  BY <1>1, <1>2, RowEffect

(* An id that was given out before the step still names the same row.      *)
LEMMA OldRow ==
  ASSUME TypeOK, RowsOK, CallsOK, OneSuccessor, [Next]_vars,
         NEW u \in Seconds, Exists(u)', row'[u].id \in 1..used
  PROVE  Exists(u) /\ Kept(u)
<1>1. CASE Keeps
  BY <1>1 DEF Keeps, Kept
<1>2. ASSUME NEW t \in Seconds, NEW s \in 1..(used + 1), NEW o \in Who, Puts(t, s, o)
      PROVE  Exists(u) /\ Kept(u)
  <2>1. u # t
    BY <1>2, TypeParts, RowFields DEF Puts
  <2> QED
    BY <1>2, <2>1 DEF Puts
<1> QED
  BY <1>1, <1>2, RowEffect

-----------------------------------------------------------------------------
(* The requests, step by step.                                             *)
LEMMA CallEffect ==
  ASSUME TypeOK, RowsOK, CallsOK, [Next]_vars, NEW d \in Calls
  PROVE  \/ call'[d] = call[d]
         \/ call'[d] = Idle
         \/ call'[d].kind \in {"login", "revoking", "exchange"} /\ call'[d].who \in Who
         \/ \E t \in Seconds : RefreshReads(d, t)
<1> USE TypeParts
<1>1. CASE Quiet \/ \E ts \in SUBSET Seconds : Ends(ts)
  BY <1>1 DEF Quiet, Ends
<1>2. ASSUME NEW c \in Calls, NEW who \in Who, LoginReads(c, who)
      PROVE  \/ call'[d] = call[d]
             \/ call'[d].kind = "login" /\ call'[d].who \in Who
  BY <1>2, RequestFields DEF LoginReads
<1>3. ASSUME NEW c \in Calls, LoginSelects(c)
      PROVE  \/ call'[d] = call[d]
             \/ call'[d].kind = "revoking" /\ call'[d].who \in Who
  <2>1. call[c].who \in Who
    BY <1>3, BusyKinds DEF LoginSelects
  <2> QED
    BY <1>3, <2>1, RequestFields DEF LoginSelects
<1>4. ASSUME NEW c \in Calls, ExchangeReads(c)
      PROVE  \/ call'[d] = call[d]
             \/ call'[d].kind = "exchange" /\ call'[d].who \in Who
  BY <1>4, RequestFields DEF ExchangeReads, Who
<1>5. ASSUME NEW c \in Calls, NEW t \in Seconds, RefreshReads(c, t)
      PROVE  call'[d] = call[d] \/ RefreshReads(d, t)
  <2>1. c # d => call'[d] = call[d]
    BY <1>5 DEF RefreshReads
  <2> QED
    BY <1>5, <2>1
<1>6. ASSUME NEW c \in Calls, NEW t \in Seconds,
             LoginCommits(c, t) \/ GivesUp(c, t) \/ Refreshes(c, t) \/ ExchangeCommits(c, t)
      PROVE  call'[d] = call[d] \/ call'[d] = Idle
  <2>1. Done(c)
    BY <1>6 DEF LoginCommits, GivesUp, Refreshes, ExchangeCommits, LoginCollides,
                RefreshFails, ExchangeCollides, RefreshCommits, ProfileFails, Rotates
  <2> QED
    BY <2>1 DEF Done
<1> QED
  BY <1>1, <1>2, <1>3, <1>4, <1>5, <1>6, StepCases

LEMMA RefreshBegins ==
  ASSUME TypeOK, RowsOK, NEW c \in Calls, NEW t \in Seconds, RefreshReads(c, t)
  PROVE  /\ Exists(t) /\ t \in Live /\ row' = row /\ used' = used
         /\ Free(c) /\ \A d \in Calls : d # c => call'[d] = call[d]
         /\ call'[c].kind = "refresh" /\ call'[c].who = row[t].owner
         /\ call'[c].id = row[t].id /\ call'[c].session = row[t].session
         /\ \A u \in Seconds : (Exists(u) /\ row[u].id = row[t].id) <=> u = t
<1>1. call'[c] = Request("refresh", row[t].owner, time, row[t].id, row[t].session, {})
  BY TypeParts DEF RefreshReads
<1>2. Exists(t) /\ t \in Live /\ Free(c)
  BY DEF RefreshReads, Accepts, Live
<1>3. row' = row /\ used' = used /\ \A d \in Calls : d # c => call'[d] = call[d]
  BY TypeParts DEF RefreshReads, store
<1> QED
  BY <1>1, <1>2, <1>3, RequestFields DEF RowsOK

(* A refresh under way at the end of a step was before it, or has just read  *)
(* its row; either way it knows it.                                        *)
LEMMA CallsStep ==
  ASSUME TypeOK, RowsOK, CallsOK, OneSuccessor, [Next]_vars
  PROVE  CallsOK'
<1>u. used \in Nat /\ (used' = used \/ used' = used + 1)
  BY TypeParts, RowEffect DEF Keeps, Puts
<1>1. ASSUME NEW d \in Calls, d \in Busy'
      PROVE  call'[d].kind # "idle" /\ call'[d].who \in Who
  <2>1. call'[d] # Idle
    BY <1>1 DEF Busy, Free
  <2>2. CASE call'[d] = call[d]
    BY <2>1, <2>2 DEF CallsOK, Busy, Free
  <2>3. ASSUME NEW t \in Seconds, RefreshReads(d, t)
        PROVE  call'[d].kind # "idle" /\ call'[d].who \in Who
    BY <2>3, RefreshBegins DEF RowsOK
  <2> QED
    BY <2>1, <2>2, <2>3, CallEffect
<1>2. ASSUME NEW d \in Calls, Refreshing(d)'
      PROVE  /\ call'[d].id \in 1..used' /\ call'[d].session \in 1..used'
             /\ \A u \in Found(d)' : /\ row'[u].session = call'[d].session
                                     /\ row'[u].owner = call'[d].who
  <2>0. call'[d].kind = "refresh"
    BY <1>2 DEF Refreshing
  <2>1. CASE call'[d] = call[d]
    <3>1. Refreshing(d)
      BY <2>0, <2>1 DEF Refreshing
    <3>2. call[d].id \in 1..used /\ call[d].session \in 1..used
      BY <3>1 DEF CallsOK
    <3>3. ASSUME NEW u \in Seconds, u \in Found(d)'
          PROVE  u \in Found(d) /\ Kept(u)
      <4>1. Exists(u)' /\ row'[u].id = call[d].id
        BY <2>1, <3>3 DEF Found
      <4>2. Exists(u) /\ Kept(u)
        BY <3>2, <4>1, OldRow
      <4> QED
        BY <4>1, <4>2 DEF Found, Kept
    <3>4. \A u \in Found(d)' : u \in Seconds
      BY DEF Found
    <3>5. \A u \in Found(d)' : row'[u].session = call[d].session /\ row'[u].owner = call[d].who
      BY <3>1, <3>3, <3>4 DEF CallsOK, Kept
    <3> QED
      BY <1>u, <2>1, <3>2, <3>5
  <2>2. ASSUME NEW t \in Seconds, RefreshReads(d, t)
        PROVE  /\ call'[d].id \in 1..used' /\ call'[d].session \in 1..used'
               /\ \A u \in Found(d)' : /\ row'[u].session = call'[d].session
                                       /\ row'[u].owner = call'[d].who
    <3>1. \A u \in Found(d)' : u = t
      BY <2>2, RefreshBegins DEF Found, Exists
    <3> QED
      BY <2>2, <3>1, RefreshBegins DEF RowsOK
  <2> QED
    BY <2>0, <2>1, <2>2, CallEffect, IdleType
<1> QED
  BY <1>1, <1>2 DEF CallsOK, Busy

-----------------------------------------------------------------------------
(* What was ended stays ended.                                             *)

(* A step that ends nothing: it puts a row, or leaves all as they are.      *)
LEMMA NothingEnds ==
  ASSUME TypeOK, RowsOK, CallsOK, OneSuccessor, EndedStaysEnded, EndedOK, ended' = ended,
         \/ Keeps
         \/ \E t \in Seconds : \E s \in 1..(used + 1) : \E o \in Who :
               s \notin ended /\ Puts(t, s, o)
  PROVE  EndedStaysEnded'
<1>1. CASE Keeps
  BY <1>1 DEF Keeps, Kept, EndedStaysEnded, Live
<1>2. ASSUME NEW t \in Seconds, NEW s \in 1..(used + 1), NEW o \in Who,
             s \notin ended, Puts(t, s, o)
      PROVE  EndedStaysEnded'
  BY <1>2, RowFields DEF Puts, Kept, EndedStaysEnded, Live
<1> QED
  BY <1>1, <1>2

LEMMA EndedRowsStep ==
  ASSUME TypeOK, RowsOK, CallsOK, OneSuccessor, EndedStaysEnded, EndedOK, [Next]_vars
  PROVE  EndedStaysEnded' /\ ended' \subseteq 1..used'
<1>0. /\ used \in Nat /\ used + 1 \in 1..(used + 1) /\ used + 1 \notin ended
      /\ \A s \in 1..used : s \in 1..(used + 1)
      /\ used' = used \/ used' = used + 1
  BY TypeParts, RowEffect DEF EndedOK, Keeps, Puts
<1>s. ASSUME ended' = ended
      PROVE  ended' \subseteq 1..used'
  BY <1>0, <1>s DEF EndedOK
<1>f. ASSUME NEW ts \in SUBSET Seconds, \A t \in ts : Exists(t)
      PROVE  /\ Finished(ts) \subseteq 1..used
             /\ \A u \in Seconds : Exists(u) /\ row[u].session \in Finished(ts) => u \in ts
  BY <1>f DEF Finished, OneSuccessor, RowsOK
<1>1. ASSUME \/ Quiet
             \/ \E c \in Calls : \E t \in Seconds :
                   \/ \E who \in Who : LoginReads(c, who)
                   \/ LoginSelects(c) \/ ExchangeReads(c) \/ RefreshReads(c, t) \/ GivesUp(c, t)
      PROVE  EndedStaysEnded' /\ ended' = ended
  <2>1. row' = row /\ used' = used /\ ended' = ended
    BY <1>1 DEF Quiet, LoginReads, LoginSelects, ExchangeReads, RefreshReads, GivesUp,
                LoginCollides, RefreshFails, ExchangeCollides, store, history
  <2>2. Keeps
    BY <2>1 DEF Keeps, Kept, Exists
  <2> QED
    BY <2>1, <2>2, NothingEnds
<1>2. ASSUME NEW ts \in SUBSET Seconds, \A t \in ts : Exists(t), Ends(ts)
      PROVE  EndedStaysEnded' /\ ended' \subseteq 1..used'
  <2>1. Keeps /\ ended' = ended \cup Finished(ts)
        /\ \A u \in ts : row'[u].revoked
    BY <1>2, EndsKeeps DEF Ends
  <2>2. EndedStaysEnded'
    BY <1>2, <1>f, <2>1 DEF Keeps, Kept, EndedStaysEnded, Live
  <2> QED
    BY <1>0, <1>2, <1>f, <2>1, <2>2 DEF EndedOK, Keeps
<1>3. ASSUME NEW c \in Calls, NEW t \in Seconds, LoginCommits(c, t)
      PROVE  EndedStaysEnded' /\ ended' \subseteq 1..used'
  <2> DEFINE ts == {u \in Live : row[u].id \in call[c].seen}
  <2>1. ts \in SUBSET Seconds /\ \A u \in ts : Exists(u)
    BY DEF Live
  <2>2. ended' = ended \cup Finished(ts) /\ ~Exists(t)
    BY <1>3 DEF LoginCommits, Taken
  <2>3. /\ Puts(t, used + 1, call[c].who)
        /\ \A u \in Seconds : u # t =>
             Kept(u) /\ (row[u].id \in call[c].seen => row'[u].revoked)
    BY <1>3, CommitPuts, SeenPositive
  <2>4. ASSUME NEW u \in Seconds, u \in Live'
        PROVE  row'[u].session \notin ended'
    <3>1. CASE u = t
      <4>1. row'[u].session = used + 1
        BY <2>3, <3>1, RowFields DEF Puts
      <4>2. used + 1 \notin Finished(ts)
        BY <1>0, <1>f, <2>1
      <4> QED
        BY <1>0, <2>2, <4>1, <4>2
    <3>2. CASE u # t
      <4>1. /\ Exists(u)' /\ ~row'[u].revoked
        BY <2>4 DEF Live
      <4>2. /\ Exists(u) /\ ~row[u].revoked /\ row'[u].session = row[u].session
            /\ row[u].id \notin call[c].seen
        BY <2>3, <3>2, <4>1 DEF Kept
      <4>3. row[u].session \notin ended
        BY <4>2 DEF EndedStaysEnded, Live
      <4>4. row[u].session \notin Finished(ts)
        BY <1>f, <2>1, <4>2
      <4> QED
        BY <2>2, <4>2, <4>3, <4>4
    <3> QED
      BY <3>1, <3>2
  <2>5. ended' \subseteq 1..used'
    BY <1>0, <1>f, <2>1, <2>2 DEF EndedOK
  <2> QED
    BY <2>4, <2>5 DEF EndedStaysEnded, Live
<1>4. ASSUME NEW c \in Calls, NEW t \in Seconds, Refreshes(c, t)
      PROVE  EndedStaysEnded' /\ ended' = ended
  <2>1. Rotates(c, t)
    BY <1>4 DEF Refreshes, RefreshCommits, ProfileFails
  <2>2. ended' = ended /\ call[c].session \notin ended
    BY <2>1 DEF Rotates, EndedOK, Refreshing
  <2>3. call[c].session \in 1..(used + 1) /\ call[c].who \in Who
        /\ Puts(t, call[c].session, call[c].who)
    BY <1>0, <2>1, RotatesPuts
  <2> QED
    BY <2>2, <2>3, NothingEnds
<1>5. ASSUME NEW c \in Calls, NEW t \in Seconds, ExchangeCommits(c, t)
      PROVE  EndedStaysEnded' /\ ended' = ended
  <2>1. ended' = ended
    BY <1>5 DEF ExchangeCommits, history
  <2>2. Puts(t, used + 1, "other") /\ "other" \in Who
    BY <1>5, ExchangePuts DEF Who
  <2> QED
    BY <1>0, <2>1, <2>2, NothingEnds
<1>6. Seconds # {}
  BY SessionsAssumption DEF Seconds
<1> QED
  BY <1>s, <1>1, <1>2, <1>3, <1>4, <1>5, <1>6, StepCases

(* A session is not ended while a refresh of it is in flight, and none that  *)
(* was ended begins one.                                                   *)
LEMMA EndedStep ==
  ASSUME TypeOK, RowsOK, CallsOK, OneSuccessor, EndedStaysEnded, EndedOK, [Next]_vars
  PROVE  EndedStaysEnded' /\ EndedOK'
<1>1. ASSUME NEW d \in Calls, Refreshing(d)', call'[d] = call[d]
      PROVE  call[d].session \notin ended'
  <2>1. Refreshing(d) /\ call[d].session \notin ended
    BY <1>1 DEF Refreshing, EndedOK
  <2>2. \A ts : call[d].session \notin Finished(ts)
    BY <2>1 DEF Finished, Refreshing
  <2>3. ended' = ended \/ \E ts : ended' = ended \cup Finished(ts)
    <3>1. CASE Quiet \/ \E ts \in SUBSET Seconds : Ends(ts)
      BY <3>1 DEF Quiet, Ends
    <3>2. ASSUME NEW c \in Calls, NEW who \in Who,
                 LoginReads(c, who) \/ LoginSelects(c) \/ ExchangeReads(c)
          PROVE  ended' = ended
      BY <3>2 DEF LoginReads, LoginSelects, ExchangeReads, history
    <3>3. ASSUME NEW c \in Calls, NEW t \in Seconds,
                 RefreshReads(c, t) \/ GivesUp(c, t) \/ Refreshes(c, t) \/ ExchangeCommits(c, t)
          PROVE  ended' = ended
      BY <3>3 DEF RefreshReads, GivesUp, LoginCollides, RefreshFails, ExchangeCollides,
                  Refreshes, RefreshCommits, ProfileFails, Rotates, ExchangeCommits, history
    <3>4. ASSUME NEW c \in Calls, NEW t \in Seconds, LoginCommits(c, t)
          PROVE  \E ts : ended' = ended \cup Finished(ts)
      BY <3>4 DEF LoginCommits
    <3>5. Who # {}
      BY DEF Who
    <3> QED
      BY <3>1, <3>2, <3>3, <3>4, <3>5, StepCases
  <2> QED
    BY <2>1, <2>2, <2>3
<1>2. ASSUME NEW d \in Calls, NEW t \in Seconds, RefreshReads(d, t)
      PROVE  call'[d].session \notin ended'
  <2>1. ended' = ended
    BY <1>2 DEF RefreshReads
  <2> QED
    BY <1>2, <2>1, RefreshBegins DEF EndedStaysEnded
<1>3. ASSUME NEW d \in Calls, Refreshing(d)'
      PROVE  call'[d].session \notin ended'
  <2>1. call'[d] # Idle /\ call'[d].kind \notin {"login", "revoking", "exchange"}
    BY <1>3, IdleType DEF Refreshing
  <2> QED
    BY <1>1, <1>2, <1>3, <2>1, CallEffect
<1> QED
  BY <1>3, EndedRowsStep DEF EndedOK

-----------------------------------------------------------------------------
(* One session, while no request overlaps another.                         *)

(* The request that ends was the only one.                                 *)
LEMMA LastDone ==
  ASSUME TypeOK, CallsOK, AloneOK, alone, NEW c \in Calls, call[c].kind # "idle", Done(c)
  PROVE  c \in Busy /\ Busy' = {}
<1>1. c \in Busy /\ \A d \in Busy : d = c
  BY BusyKinds DEF AloneOK
<1>2. \A d \in Calls : call'[d] = IF d = c THEN Idle ELSE call[d]
  BY TypeParts DEF Done
<1> QED
  BY <1>1, <1>2 DEF Busy, Free

LEMMA AloneEmpty ==
  ASSUME Busy' = {}, \A t, u \in Live' : t = u
  PROVE  AloneOK'
BY DEF AloneOK, Busy

LEMMA AloneStep ==
  ASSUME TypeOK, RowsOK, CallsOK, OneSuccessor, AloneOK, [Next]_vars
  PROVE  AloneOK'
<1>1. CASE Quiet
  BY <1>1 DEF Quiet, AloneOK, Busy, Free, Live, LiveIds, Exists, Found, Refreshing
<1>2. ASSUME NEW ts \in SUBSET Seconds, \A t \in ts : Exists(t), Ends(ts)
      PROVE  AloneOK'
  <2>1. Keeps /\ call' = call /\ alone' = alone
    BY <1>2, EndsKeeps DEF Ends
  <2>2. Live' \subseteq Live /\ LiveIds' \subseteq LiveIds /\ Busy' = Busy
        /\ \A c \in Calls : Found(c)' = Found(c)
    BY <2>1 DEF Keeps, Kept, Live, LiveIds, Busy, Free, Found
  <2> QED
    BY <2>1, <2>2 DEF AloneOK, Busy, Refreshing
<1>3. ASSUME NEW c \in Calls, NEW who \in Who, LoginReads(c, who)
      PROVE  AloneOK'
  <2>1. alone' => Busy = {}
    BY <1>3 DEF LoginReads
  <2>2. \A d \in Calls : d # c => call'[d] = call[d]
    BY <1>3, TypeParts DEF LoginReads
  <2>3. call'[c].kind = "login"
    BY <1>3, TypeParts, RequestFields DEF LoginReads
  <2>4. alone' => \A d \in Busy' : d = c
    BY <2>1, <2>2 DEF Busy, Free
  <2>5. call'[c].kind # "idle" /\ call'[c].kind # "exchange" /\ call'[c].kind # "revoking"
        /\ call'[c].kind # "refresh"
    BY <2>3
  <2>6. c \in Busy'
    BY <2>5, IdleType DEF Busy, Free
  <2> QED
    BY <2>4, <2>5, <2>6 DEF AloneOK, Refreshing
<1>4. ASSUME NEW c \in Calls, LoginSelects(c)
      PROVE  AloneOK'
  <2>1. c \in Busy /\ row' = row /\ alone' = alone
    BY <1>4, BusyKinds DEF LoginSelects, store, history
  <2>2. \A d \in Calls : d # c => call'[d] = call[d]
    BY <1>4, TypeParts DEF LoginSelects
  <2>3. call'[c].kind = "revoking" /\ call'[c].seen = LiveIds
    BY <1>4, TypeParts, RequestFields DEF LoginSelects
  <2>4. LiveIds' = LiveIds /\ Busy' = Busy
    <3>1. call'[c] # Idle
      BY <2>3, IdleType
    <3> QED
      BY <2>1, <2>2, <3>1 DEF LiveIds, Live, Exists, Busy, Free
  <2>5. alone => \A d \in Busy : d = c
    BY <2>1 DEF AloneOK
  <2> QED
    BY <2>1, <2>3, <2>4, <2>5 DEF AloneOK, Refreshing
<1>5. ASSUME NEW c \in Calls, ExchangeReads(c)
      PROVE  AloneOK'
  BY <1>5 DEF ExchangeReads, AloneOK
<1>6. ASSUME NEW c \in Calls, NEW t \in Seconds, RefreshReads(c, t)
      PROVE  AloneOK'
  <2>1. alone' => alone /\ Busy = {}
    BY <1>6 DEF RefreshReads
  <2>2. /\ t \in Live /\ row' = row /\ call'[c].kind = "refresh" /\ call'[c].id = row[t].id
        /\ \A d \in Calls : d # c => call'[d] = call[d]
    BY <1>6, RefreshBegins
  <2>3. alone' => \A d \in Busy' : d = c
    BY <2>1, <2>2 DEF Busy, Free
  <2>4. c \in Busy'
    BY <2>2, IdleType DEF Busy, Free
  <2>5. t \in Found(c)' /\ Live' = Live
    BY <2>2 DEF Found, Exists, Live
  <2>6. alone' => Live' \subseteq Found(c)'
    BY <2>1, <2>2, <2>5 DEF AloneOK
  <2>7. call'[c].kind # "exchange" /\ call'[c].kind # "revoking"
    BY <2>2
  <2> QED
    BY <2>3, <2>4, <2>6, <2>7 DEF AloneOK
<1>7. ASSUME NEW c \in Calls, NEW t \in Seconds, LoginCommits(c, t)
      PROVE  AloneOK'
  <2>1. call[c].kind = "revoking" /\ Done(c) /\ alone' = alone
    BY <1>7 DEF LoginCommits
  <2>2. \A u \in Seconds : u # t =>
          Kept(u) /\ (row[u].id \in call[c].seen => row'[u].revoked)
    BY <1>7, CommitPuts, SeenPositive
  <2>3. ASSUME alone
        PROVE  Busy' = {} /\ \A u, v \in Live' : u = v
    <3>1. c \in Busy /\ Busy' = {}
      BY <2>1, <2>3, LastDone
    <3>2. \A u \in Live : row[u].id \in call[c].seen
      BY <2>1, <2>3, <3>1 DEF AloneOK, LiveIds
    <3>3. \A u \in Live' : u = t
      BY <2>2, <3>2 DEF Live, Kept
    <3> QED
      BY <3>1, <3>3
  <2> QED
    BY <2>1, <2>3, AloneEmpty DEF AloneOK
<1>8. ASSUME NEW c \in Calls, NEW t \in Seconds, GivesUp(c, t)
      PROVE  AloneOK'
  <2>1. CASE LoginCollides(c, t)
    BY <2>1 DEF LoginCollides, AloneOK
  <2>2. CASE RefreshFails(c)
    <3>1. Refreshing(c) /\ call[c].kind # "idle" /\ Done(c) /\ alone' = alone /\ row' = row
      BY <2>2 DEF RefreshFails, Refreshing, store
    <3>2. Live' = Live /\ \A u, v \in Found(c) : u = v
      BY <3>1 DEF Live, Exists, Found, RowsOK
    <3>3. ASSUME alone
          PROVE  Busy' = {} /\ \A u, v \in Live' : u = v
      BY <3>1, <3>2, <3>3, LastDone DEF AloneOK
    <3> QED
      BY <3>1, <3>3, AloneEmpty DEF AloneOK
  <2>3. CASE ExchangeCollides(c, t)
    <3>1. call[c].kind = "exchange" /\ alone' = alone
      BY <2>3 DEF ExchangeCollides, history
    <3>2. ~alone
      BY <3>1, BusyKinds DEF AloneOK
    <3> QED
      BY <3>1, <3>2 DEF AloneOK
  <2> QED
    BY <1>8, <2>1, <2>2, <2>3 DEF GivesUp
<1>9. ASSUME NEW c \in Calls, NEW t \in Seconds, Refreshes(c, t)
      PROVE  AloneOK'
  <2>1. Rotates(c, t)
    BY <1>9 DEF Refreshes, RefreshCommits, ProfileFails
  <2>2. Refreshing(c) /\ call[c].kind # "idle" /\ Done(c) /\ alone' = alone
    BY <2>1 DEF Rotates, Refreshing
  <2>3. \A u \in Seconds : u # t => row'[u] = IF u \in Found(c) THEN NoRow ELSE row[u]
    BY <2>1, RotatesPuts
  <2>4. ASSUME alone
        PROVE  Busy' = {} /\ \A u, v \in Live' : u = v
    <3>1. c \in Busy /\ Busy' = {}
      BY <2>2, <2>4, LastDone
    <3>2. Live \subseteq Found(c)
      BY <2>2, <2>4, <3>1 DEF AloneOK
    <3>3. \A u \in Live' : u = t
      BY <2>3, <3>2 DEF Live, Exists
    <3> QED
      BY <3>1, <3>3
  <2> QED
    BY <2>2, <2>4, AloneEmpty DEF AloneOK
<1>10. ASSUME NEW c \in Calls, NEW t \in Seconds, ExchangeCommits(c, t)
       PROVE  AloneOK'
  <2>1. call[c].kind = "exchange" /\ alone' = alone
    BY <1>10 DEF ExchangeCommits, history
  <2>2. ~alone
    BY <2>1, BusyKinds DEF AloneOK
  <2> QED
    BY <2>1, <2>2 DEF AloneOK
<1> QED
  BY <1>1, <1>2, <1>3, <1>4, <1>5, <1>6, <1>7, <1>8, <1>9, <1>10, StepCases

-----------------------------------------------------------------------------
(* The refresh of the browser.                                             *)

(* The rows others commit leave alone the one a refresh of the browser read. *)
LEMMA StillFound ==
  ASSUME TypeOK, RowsOK, CallsOK, OneSuccessor, BrowserOK, [Next]_vars,
         NEW d \in Calls, call'[d] = call[d], d \in BrowserRefreshes, d \notin beside
  PROVE  Found(d)' # {}
<1>0. PICK v \in Found(d) : TRUE
  BY DEF BrowserOK
<1>1. v \in Seconds /\ Exists(v) /\ row[v].id = call[d].id /\ call[d].kind = "refresh"
      /\ call[d].who = "browser" /\ row[v].owner = "browser"
  BY <1>0 DEF Found, BrowserRefreshes, CallsOK, Refreshing
<1>2. Kept(v) => Found(d)' # {}
  BY <1>1 DEF Kept, Found
<1>3. row' = row => Kept(v)
  BY DEF Kept, Exists
<1>4. \A ts \in SUBSET Seconds : (\A t \in ts : Exists(t)) /\ Ends(ts) => Kept(v)
  BY <1>1, EndsKeeps DEF Keeps
<1>5. CASE Quiet
  BY <1>2, <1>3, <1>5 DEF Quiet
<1>6. ASSUME NEW c \in Calls, NEW t \in Seconds,
             \/ \E who \in Who : LoginReads(c, who)
             \/ LoginSelects(c) \/ ExchangeReads(c) \/ RefreshReads(c, t) \/ GivesUp(c, t)
      PROVE  Kept(v)
  BY <1>3, <1>6 DEF LoginReads, LoginSelects, ExchangeReads, RefreshReads, GivesUp,
                    LoginCollides, RefreshFails, ExchangeCollides, store
<1>7. ASSUME NEW c \in Calls, NEW t \in Seconds, LoginCommits(c, t)
      PROVE  Kept(v)
  <2>1. ~Exists(t)
    BY <1>7 DEF LoginCommits, Taken
  <2> QED
    BY <1>1, <1>7, <2>1, CommitPuts, SeenPositive
<1>8. ASSUME NEW c \in Calls, NEW t \in Seconds, ExchangeCommits(c, t)
      PROVE  Kept(v)
  <2>1. ~Exists(t)
    BY <1>8 DEF ExchangeCommits, Taken
  <2>2. row'[v] = row[v]
    BY <1>1, <1>8, <2>1, ExchangePuts
  <2> QED
    BY <2>2 DEF Kept, Exists
<1>9. ASSUME NEW c \in Calls, NEW t \in Seconds, Refreshes(c, t)
      PROVE  Kept(v)
  <2>1. Rotates(c, t)
    BY <1>9 DEF Refreshes, RefreshCommits, ProfileFails
  <2>2. /\ call[c].kind = "refresh" /\ Done(c)
        /\ ~Exists(t) \/ Found(c) = {t}
    BY <2>1 DEF Rotates, RefreshMayCommit, Taken
  <2>3. c # d
    BY <1>1, <2>2, TypeParts, IdleType DEF Done
  <2>4. v \notin Found(c)
    <3>1. ASSUME v \in Found(c)
          PROVE  c \in BrowserRefreshes
      <4>1. row[v].owner = call[c].who
        BY <2>2, <3>1 DEF CallsOK, Refreshing
      <4> QED
        BY <1>1, <2>2, <4>1, BusyKinds DEF BrowserRefreshes
    <3> QED
      BY <2>3, <3>1 DEF BrowserOK
  <2>5. v # t
    BY <1>1, <2>2, <2>4
  <2>6. row'[v] = row[v]
    BY <1>1, <2>1, <2>4, <2>5, RotatesPuts
  <2> QED
    BY <2>6 DEF Kept, Exists
<1>10. Seconds # {}
  BY SessionsAssumption DEF Seconds
<1> QED
  BY <1>2, <1>4, <1>5, <1>6, <1>7, <1>8, <1>9, <1>10, StepCases

(* The mark of a refresh is taken away with the refresh only.               *)
LEMMA StillUnmarked ==
  ASSUME TypeOK, [Next]_vars, NEW d \in Calls, call'[d] = call[d], d \in BrowserRefreshes,
         d \notin beside'
  PROVE  d \notin beside
<1>0. call[d] # Idle
  BY DEF BrowserRefreshes, Busy, Free
<1>1. CASE Quiet \/ \E ts \in SUBSET Seconds : Ends(ts)
  BY <1>1 DEF Quiet, Ends
<1>2. ASSUME NEW c \in Calls, NEW who \in Who, NEW t \in Seconds,
             \/ LoginReads(c, who) \/ LoginSelects(c) \/ ExchangeReads(c)
             \/ LoginCommits(c, t) \/ LoginCollides(c, t)
             \/ ExchangeCommits(c, t) \/ ExchangeCollides(c, t)
      PROVE  beside' = beside
  BY <1>2 DEF LoginReads, LoginSelects, ExchangeReads, LoginCommits, LoginCollides,
              ExchangeCommits, ExchangeCollides, history
<1>3. ASSUME NEW c \in Calls, NEW t \in Seconds, RefreshReads(c, t)
      PROVE  beside \subseteq beside'
  BY <1>3 DEF RefreshReads
<1>4. ASSUME NEW c \in Calls, NEW t \in Seconds, RefreshFails(c) \/ Refreshes(c, t)
      PROVE  beside' = beside \ {c} /\ c # d
  <2>1. Done(c) /\ beside' = beside \ {c}
    BY <1>4 DEF RefreshFails, Refreshes, RefreshCommits, ProfileFails, Rotates
  <2> QED
    BY <1>0, <2>1, TypeParts DEF Done
<1>5. Who # {} /\ Seconds # {}
  BY SessionsAssumption DEF Who, Seconds
<1> QED
  BY <1>1, <1>2, <1>3, <1>4, <1>5, StepCases DEF GivesUp

LEMMA BrowserStep ==
  ASSUME TypeOK, RowsOK, CallsOK, OneSuccessor, BrowserOK, [Next]_vars
  PROVE  BrowserOK'
<1>1. ASSUME NEW d \in Calls, d \in BrowserRefreshes', call'[d] = call[d]
      PROVE  d \in BrowserRefreshes
  BY <1>1 DEF BrowserRefreshes, Busy, Free
<1>2. ASSUME NEW d \in Calls, d \in BrowserRefreshes'
      PROVE  call'[d] = call[d] \/ \E t \in Seconds : RefreshReads(d, t)
  <2>1. call'[d] # Idle /\ call'[d].kind \notin {"login", "revoking", "exchange"}
    BY <1>2, IdleType DEF BrowserRefreshes, Busy, Free
  <2> QED
    BY <2>1, CallEffect
<1>3. \A d \in BrowserRefreshes' : d \in Calls
  BY DEF BrowserRefreshes, Busy
<1>4. ASSUME NEW c \in Calls, NEW t \in Seconds, RefreshReads(c, t), c \in BrowserRefreshes'
      PROVE  /\ Found(c)' # {}
             /\ \A d \in Calls : d # c => call'[d] = call[d]
             /\ BrowserRefreshes # {} =>
                  c \in beside' /\ BrowserRefreshes \subseteq beside'
  <2>1. /\ call'[c].who = row[t].owner /\ call'[c].id = row[t].id /\ Exists(t) /\ row' = row
        /\ \A d \in Calls : d # c => call'[d] = call[d]
    BY <1>4, RefreshBegins
  <2>2. row[t].owner = "browser"
    BY <1>4, <2>1 DEF BrowserRefreshes
  <2>3. t \in Found(c)'
    BY <2>1 DEF Found, Exists
  <2>4. BrowserRefreshes # {} => c \in beside' /\ BrowserRefreshes \subseteq beside'
    BY <1>4, <2>2 DEF RefreshReads
  <2> QED
    BY <2>1, <2>3, <2>4
<1>5. ASSUME NEW c \in BrowserRefreshes', c \notin beside'
      PROVE  Found(c)' # {} /\ \A d \in BrowserRefreshes' : d = c
  <2>1. CASE call'[c] = call[c]
    <3>1. c \in Calls /\ c \in BrowserRefreshes /\ c \notin beside
      BY <1>1, <1>3, <1>5, <2>1, StillUnmarked
    <3>2. Found(c)' # {}
      BY <2>1, <3>1, StillFound
    <3>3. ASSUME NEW d \in BrowserRefreshes'
          PROVE  d = c
      <4>1. CASE call'[d] = call[d]
        BY <1>1, <1>3, <3>1, <4>1 DEF BrowserOK
      <4>2. ASSUME NEW t \in Seconds, RefreshReads(d, t)
            PROVE  FALSE
        BY <1>3, <1>4, <1>5, <3>1, <4>2
      <4> QED
        BY <1>2, <1>3, <4>1, <4>2
    <3> QED
      BY <3>2, <3>3
  <2>2. ASSUME NEW t \in Seconds, RefreshReads(c, t)
        PROVE  Found(c)' # {} /\ \A d \in BrowserRefreshes' : d = c
    <3>1. BrowserRefreshes = {}
      BY <1>3, <1>4, <1>5, <2>2
    <3> QED
      BY <1>1, <1>3, <1>4, <1>5, <2>2, <3>1
  <2> QED
    BY <1>2, <1>3, <1>5, <2>1, <2>2
<1> QED
  BY <1>5 DEF BrowserOK

-----------------------------------------------------------------------------
(* The theorems.                                                           *)
LEMMA IInvInit == Init => IInv
<1> SUFFICES ASSUME Init PROVE IInv
  OBVIOUS
<1>0. 0 \in Seconds /\ 1 \in 1..MaxRows /\ 0 \in 0..MaxRows /\ 1 \in 0..MaxRows
  BY SessionsAssumption DEF Seconds
<1>1. row = [t \in Seconds |-> IF t = 0 THEN RowOf(1, 1, "browser") ELSE NoRow]
      /\ used = 1 /\ call = [c \in Calls |-> Idle] /\ jar = 0 /\ ended = {}
      /\ time = 0 /\ active = FALSE /\ code = "none" /\ alone = TRUE /\ beside = {}
  BY DEF Init
<1>2. TypeOK
  <2>1. RowOf(1, 1, "browser") \in Row /\ NoRow \in Row
    BY <1>0 DEF RowOf, NoRow, Row, Who
  <2>2. row \in [Seconds -> Row] /\ call \in [Calls -> Call]
    BY <1>1, <2>1, IdleType
  <2> QED
    BY <1>0, <1>1, <2>2 DEF TypeOK, Row, Call
<1>3. \A t \in Seconds : Exists(t) => t = 0 /\ row[t] = RowOf(1, 1, "browser")
  BY <1>1 DEF Exists
<1>4. RowsOK /\ OneSuccessor
  BY <1>1, <1>3, RowFields DEF RowsOK, OneSuccessor, Who
<1>5. Busy = {} /\ \A c \in Calls : ~Refreshing(c)
  BY <1>1, IdleType DEF Busy, Free, Refreshing
<1>6. EndedStaysEnded /\ CallsOK /\ EndedOK
  BY <1>1, <1>5 DEF EndedStaysEnded, CallsOK, EndedOK
<1>7. AloneOK
  BY <1>3, <1>5 DEF AloneOK, Live
<1>8. BrowserOK
  BY <1>5 DEF BrowserOK, BrowserRefreshes
<1> QED
  BY <1>2, <1>4, <1>6, <1>7, <1>8 DEF IInv

LEMMA IInvStep == IInv /\ [Next]_vars => IInv'
BY TypeStep, RowsStep, CallsStep, EndedStep, AloneStep, BrowserStep DEF IInv

LEMMA IInvEndForGood == IInv => SessionsEndForGood
<1> SUFFICES ASSUME IInv, alone, Busy = {} PROVE Cardinality(Live) <= 1
  BY DEF IInv, SessionsEndForGood, OneLiveSession
<1>1. \A t, u \in Live : t = u
  BY DEF IInv, AloneOK
<1>2. CASE Live = {}
  BY <1>2, FS_EmptySet
<1>3. ASSUME NEW t \in Live
      PROVE  Cardinality(Live) <= 1
  <2>1. Live = {t}
    BY <1>1
  <2>2. Cardinality({t}) = 1
    BY FS_Singleton
  <2> QED
    BY <2>1, <2>2
<1> QED
  BY <1>2, <1>3

LEMMA CookieStep ==
  ASSUME IInv, [Next]_vars, jar' = None, jar \in Live, ~Stranding
  PROVE  \A t \in Live' : row'[t].session # row[jar].session
<1> USE DEF IInv
<1>0. jar \in Seconds /\ Exists(jar) /\ ~row[jar].revoked /\ jar' # jar
      /\ \A t \in Seconds : t # None
  BY SessionsAssumption DEF Live, Seconds
<1>1. CASE UNCHANGED vars \/ Tick \/ Archive \/ GenerateCode \/ CodeExpires
           \/ \E b \in BOOLEAN : SetActive(b)
  BY <1>0, <1>1 DEF vars, Tick, Archive, GenerateCode, CodeExpires, SetActive
<1>2. CASE RefreshRefused \/ RefreshUnread \/ LogoutFails
  BY <1>0, <1>2 DEF RefreshRefused, Accepts, Stranding
<1>3. ASSUME NEW t \in Seconds, Logout(t)
      PROVE  \A u \in Live' : row'[u].session # row[jar].session
  <2>1. Exists(t) /\ t = jar /\ row' = Revoked({row[t].id})
    BY <1>0, <1>3 DEF Logout, Cookie
  <2>2. row[jar].id # 0
    BY <1>0, <2>1, TypeParts DEF RowsOK
  <2>3. \A u \in Seconds : Kept(u) /\ (row[u].id = row[jar].id => row'[u].revoked)
    BY <2>1, <2>2, RevokedKept
  <2>4. ASSUME NEW u \in Seconds, Exists(u)', ~row'[u].revoked,
               row'[u].session = row[jar].session
        PROVE  FALSE
    <3>1. Exists(u) /\ row[u].session = row[jar].session
      BY <2>3, <2>4 DEF Kept
    <3>2. u = jar
      BY <1>0, <3>1 DEF OneSuccessor
    <3> QED
      BY <2>3, <2>4, <3>2
  <2> QED
    BY <2>4 DEF Live
<1>4. ASSUME NEW c \in Calls, NEW t \in Seconds,
             \/ \E who \in Who : LoginReads(c, who)
             \/ LoginSelects(c) \/ ExchangeReads(c)
             \/ RefreshReads(c, t) \/ ExchangeCommits(c, t) \/ ExchangeCollides(c, t)
             \/ LoginCollides(c, t)
      PROVE  FALSE
  BY <1>0, <1>4 DEF LoginReads, LoginSelects, ExchangeReads, RefreshReads, ExchangeCommits,
                    ExchangeCollides, LoginCollides
<1>5. ASSUME NEW c \in Calls, NEW t \in Seconds, LoginCommits(c, t) \/ RefreshCommits(c, t)
      PROVE  FALSE
  BY <1>0, <1>5 DEF LoginCommits, RefreshCommits, Cookie
<1>6. ASSUME NEW c \in Calls, NEW t \in Seconds, ProfileFails(c, t)
      PROVE  FALSE
  BY <1>6 DEF Stranding
<1>7. ASSUME NEW c \in Calls, RefreshFails(c)
      PROVE  FALSE
  <2>1. call[c].kind = "refresh" /\ call[c].who = "browser"
    BY <1>0, <1>7 DEF RefreshFails, Cookie
  <2>2. Found(c) = {} /\ c \notin beside
    BY <1>7 DEF Stranding
  <2>3. c \in BrowserRefreshes
    BY <2>1, BusyKinds DEF BrowserRefreshes
  <2> QED
    BY <2>2, <2>3 DEF BrowserOK
<1>8. ASSUME NEW c \in Calls, NEW t \in Signing(c)
      PROVE  t \in Seconds
  BY SignedInTime
<1>9. Seconds # {}
  BY SessionsAssumption DEF Seconds
<1> QED
  BY <1>1, <1>2, <1>3, <1>4, <1>5, <1>6, <1>7, <1>8, <1>9 DEF Next

\* THEOREM: the variables keep their types: ids stay within the rows ever inserted,
\* sessions within the ids.
THEOREM TypeCorrect == Spec => []TypeOK
<1>1. IInv => TypeOK
  BY DEF IInv
<1> QED
  BY <1>1, IInvInit, IInvStep, PTL DEF Spec

\* THEOREM: however many requests interleave their reads and commits, a session has
\* one row, one that was ended with no refresh in flight never lives again, and a
\* login that nothing overlapped leaves a single session live.
THEOREM EndForGood == Spec => []SessionsEndForGood
BY IInvInit, IInvStep, IInvEndForGood, PTL DEF Spec

\* THEOREM: a step that makes the browser drop the cookie of a live session ends that
\* session, unless it is a failure or the answer of a refresh that ran beside another.
THEOREM CookieOutlives == Spec => CookieOutlivesNoSession
<1>1. IInv /\ [Next]_vars =>
        [jar' = None /\ jar \in Live /\ ~Stranding =>
           \A t \in Live' : row'[t].session # row[jar].session]_vars
  BY CookieStep
<1> QED
  BY <1>1, IInvInit, IInvStep, PTL DEF Spec, CookieOutlivesNoSession
=============================================================================
