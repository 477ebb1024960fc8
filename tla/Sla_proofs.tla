----------------------------- MODULE Sla_proofs ------------------------------
(***************************************************************************)
(* What holds of Sla for any number of overlapping scans and clear         *)
(* requests, and any number of windows, escalations and faults.            *)
(***************************************************************************)
EXTENDS Sla, TLAPS

-----------------------------------------------------------------------------
(* The shape of the rows and of the copies.                                *)

(* Where a scan goes from one clock, it is well-typed.                     *)
LEMMA DoneType ==
  ASSUME TypeOK, NEW s \in Scans, NEW c \in Clocks, Done(s, c) \/ GiveUp(s)
  PROVE  /\ pc' \in [Scans -> Clocks \cup {"idle"}]
         /\ seen' \in [Scans -> Snapshots]
<1> USE DEF TypeOK
<1>1. NothingSeen \in Snapshots
  BY DEF NothingSeen, Snapshots, Clocks, Verdicts, Levels
<1>2. CASE Done(s, c) /\ c = "response"
  <2>1. seen[s].verdict \in [Clocks -> Verdicts]
    BY DEF Snapshots
  <2>2. [seen[s].verdict EXCEPT !["response"] = "nothing"] \in [Clocks -> Verdicts]
    BY <2>1 DEF Verdicts
  <2>3. Judged(seen[s]) \in Snapshots
    BY <2>2 DEF Judged, Snapshots
  <2> QED
    BY <1>2, <2>3 DEF Done, Clocks
<1>3. CASE (Done(s, c) /\ c # "response") \/ GiveUp(s)
  BY <1>1, <1>3 DEF Done, GiveUp
<1> QED
  BY <1>2, <1>3

(* A raise, whatever it writes, keeps everything of its type.              *)
LEMMA RaiseType ==
  ASSUME TypeOK, NEW s \in Scans, NEW c \in Clocks,
         RaiseWarning(s, c) \/ RaiseBreach(s, c)
  PROVE  TypeOK'
<1> USE DEF TypeOK, Snapshots, Clocks, Levels, Verdicts
<1>1. NothingSeen \in Snapshots
  BY DEF NothingSeen
<1>2. Done(s, c) \/ GiveUp(s)
  BY DEF RaiseWarning, RaiseBreach, Raise
<1>2a. /\ pc' \in [Scans -> Clocks \cup {"idle"}]
       /\ seen' \in [Scans -> Snapshots]
  BY <1>2, DoneType DEF Snapshots
<1>3. EventKey("warning", c) \in Keys /\ EventKey("breach", c) \in Keys
  BY DEF EventKey, Keys
<1>4. /\ keys' \subseteq Keys
      /\ warned' \in [Clocks -> BOOLEAN] /\ breached' \in [Clocks -> BOOLEAN]
  <2>1. CASE RaiseWarning(s, c)
    <3>1. UNCHANGED <<warned, breached, keys>>
          \/ /\ keys' = keys \cup {EventKey("warning", c)}
             /\ warned' = [warned EXCEPT ![c] = TRUE]
             /\ UNCHANGED breached
      BY <2>1 DEF RaiseWarning, Raise, clockVars
    <3> QED
      BY <1>3, <3>1
  <2>2. CASE RaiseBreach(s, c)
    <3>1. UNCHANGED <<warned, breached, keys>>
          \/ /\ keys' = keys \cup {EventKey("breach", c)}
             /\ breached' = [breached EXCEPT ![c] = TRUE]
             /\ UNCHANGED warned
      BY <2>2 DEF RaiseBreach, Raise, clockVars
    <3> QED
      BY <1>3, <3>1
  <2> QED
    BY <2>1, <2>2
<1>5. level' \in Levels /\ open' \subseteq Nat \X Levels /\ escalations' \in Nat
  BY DEF RaiseWarning, RaiseBreach, Raise, EscalateToSuperAdmin, OpenRow, levelVars
<1>6. UNCHANGED <<phase, status, resolvedAt, answer, met, window, clearVars, stamp, faults>>
  BY DEF RaiseWarning, RaiseBreach, Raise, clockVars
<1> QED
  BY <1>2a, <1>4, <1>5, <1>6 DEF clearVars

(* The rest of a scan does too.                                            *)
LEMMA ScanType ==
  ASSUME TypeOK, NEW s \in Scans,
         Scan(s) \/ ScanFails(s) \/ \E c \in Clocks : NothingToRaise(s, c)
  PROVE  TypeOK'
<1> USE DEF TypeOK
<1>1. /\ pc' \in [Scans -> Clocks \cup {"idle"}]
      /\ seen' \in [Scans -> Snapshots]
  <2>1. CASE Scan(s)
    <3>1. \A c \in Clocks : Verdict(c) \in Verdicts
      BY DEF Verdict, Due, Verdicts
    <3>2. [verdict |-> [c \in Clocks |-> Verdict(c)], level |-> level, window |-> window]
            \in Snapshots
      BY <3>1 DEF Snapshots
    <3> QED
      BY <2>1, <3>2 DEF Scan, Clocks
  <2>2. CASE ~Scan(s)
    <3>1. \E c \in Clocks : Done(s, c) \/ GiveUp(s)
      BY <2>2 DEF NothingToRaise, ScanFails, Clocks
    <3> QED
      BY <3>1, DoneType
  <2> QED
    BY <2>1, <2>2
<1>2. faults' \in Nat
  BY DEF Scan, ScanFails, NothingToRaise
<1> QED
  BY <1>1, <1>2 DEF Scan, ScanFails, NothingToRaise, ticketVars, clockVars, levelVars, clearVars

(* And so does every request.                                              *)
LEMMA RequestType ==
  ASSUME TypeOK,
         \/ \E c \in Clocks : TimePasses(c)
         \/ \E q \in Responses : StampResponse(q) \/ CommitResponse(q) \/ RollBackResponse(q)
         \/ Resolve \/ Finish \/ Reopen \/ ChangePriority
         \/ \E l \in Levels : Escalate(l)
         \/ \E r \in Clears : ClearRows(r) \/ ClearEscalation(r)
  PROVE  TypeOK'
<1> USE DEF TypeOK, Clocks, Phases, Answers
<1>1. ASSUME NEW c \in Clocks, TimePasses(c)  PROVE TypeOK'
  <2>1. phase' \in [Clocks -> Phases]
    BY <1>1 DEF TimePasses, Later, Due
  <2> QED
    BY <1>1, <2>1 DEF TimePasses, levelVars, scanVars, clearVars
<1>2. ASSUME NEW q \in Responses,
             StampResponse(q) \/ CommitResponse(q) \/ RollBackResponse(q)
      PROVE  TypeOK'
  <2>1. stamp' \in [Responses -> Answers]
    BY <1>2 DEF StampResponse, CommitResponse, RollBackResponse
  <2>2. CASE CommitResponse(q)
    <3>1. answer' \in Answers /\ met' \in BOOLEAN
      BY <2>2 DEF CommitResponse
    <3> QED
      BY <2>1, <2>2, <3>1 DEF CommitResponse, clockVars, levelVars, scanVars, clearVars
  <2>3. CASE StampResponse(q) \/ RollBackResponse(q)
    BY <2>1, <2>3 DEF StampResponse, RollBackResponse, ticketVars, clockVars, levelVars,
                      scanVars, clearVars
  <2> QED
    BY <1>2, <2>2, <2>3
<1>2a. CASE Resolve \/ Finish
  BY <1>2a DEF Resolve, Finish, clockVars, levelVars, scanVars, clearVars
<1>3. CASE Reopen \/ ChangePriority
  <2>1. window' \in Nat
    BY <1>3 DEF Reopen, ChangePriority, NewWindow
  <2>2. phase' \in [Clocks -> Phases]
    BY <1>3 DEF Reopen, ChangePriority, NewWindow
  <2>3. warned' \in [Clocks -> BOOLEAN]
    BY <1>3 DEF Reopen, ChangePriority, NewWindow
  <2>4. breached' \in [Clocks -> BOOLEAN]
    BY <1>3 DEF Reopen, ChangePriority
  <2>5. status' \in {"active", "resolved", "over"} /\ resolvedAt' \in {"never", "set", "cleared"}
    BY <1>3 DEF Reopen, ChangePriority
  <2> QED
    BY <1>3, <2>1, <2>2, <2>3, <2>4, <2>5
    DEF Reopen, ChangePriority, NewWindow, levelVars, scanVars, clearVars
<1>4. ASSUME NEW l \in Levels, Escalate(l)  PROVE TypeOK'
  BY <1>4 DEF Escalate, OpenRow, ticketVars, clockVars, scanVars, clearVars
<1>5. ASSUME NEW r \in Clears, ClearRows(r) \/ ClearEscalation(r)  PROVE TypeOK'
  BY <1>5 DEF ClearRows, ClearEscalation, ResetLevel, Levels, ticketVars, clockVars,
              levelVars, scanVars
<1> QED
  BY <1>1, <1>2, <1>2a, <1>3, <1>4, <1>5

(* The row, the escalation history and every copy stay of their types.     *)
THEOREM TypeCorrect == Spec => []TypeOK
<1>1. Init => TypeOK
  <2>1. NothingSeen \in Snapshots
    BY DEF NothingSeen, Snapshots, Clocks, Verdicts, Levels
  <2>2. No \in [Clocks -> BOOLEAN]
    BY DEF No
  <2>3. \A p \in {"none", "running"} : [c \in Clocks |-> p] \in [Clocks -> Phases]
    BY DEF Phases
  <2>4. ASSUME Init PROVE TypeOK
    <3>1. phase \in [Clocks -> Phases]
      BY <2>3, <2>4 DEF Init
    <3>2. seen \in [Scans -> Snapshots]
      BY <2>1, <2>4 DEF Init
    <3>3. warned \in [Clocks -> BOOLEAN] /\ breached \in [Clocks -> BOOLEAN]
      BY <2>2, <2>4 DEF Init
    <3> QED
      BY <2>4, <3>1, <3>2, <3>3 DEF Init, TypeOK, Levels, Answers
  <2> QED
    BY <2>4
<1>2. TypeOK /\ [Next]_vars => TypeOK'
  <2> SUFFICES ASSUME TypeOK, [Next]_vars PROVE TypeOK'
    OBVIOUS
  <2>1. CASE Next
    BY <2>1, RaiseType, ScanType, RequestType DEF Next, Monitor
  <2>2. CASE UNCHANGED vars
    BY <2>2 DEF TypeOK, vars, ticketVars, clockVars, levelVars, scanVars, clearVars
  <2> QED
    BY <2>1, <2>2
<1> QED
  BY <1>1, <1>2, PTL DEF Spec

-----------------------------------------------------------------------------
(* An answer committed in time is safe from every scan.                    *)

(* A scan that means to record a response breach read the ticket           *)
(* unanswered and past its deadline; the response deadline never moves, so *)
(* whatever answer was committed since was late, though perhaps stamped    *)
(* in time.                                                                *)
MeansToBreach(s) == seen[s].verdict["response"] \in Due

AnswerInv ==
  /\ answer = "null" => ~met
  /\ \A s \in Scans : MeansToBreach(s) => ~met /\ phase["response"] \in Due
  /\ breached["response"] => phase["response"] \in Due
  /\ MetIsNeverBreached

(* The scan's own steps.                                                   *)
LEMMA MonitorKeepsAnswer ==
  ASSUME TypeOK, AnswerInv, NEW s \in Scans, Monitor(s) \/ ScanFails(s)
  PROVE  AnswerInv'
<1> USE DEF TypeOK, AnswerInv, MeansToBreach, MetIsNeverBreached, Clocks
<1>0. UNCHANGED <<answer, met, phase>>
  BY DEF Monitor, Scan, ScanFails, NothingToRaise, RaiseWarning, RaiseBreach, Raise,
         ticketVars, clockVars
<1>1. NothingSeen.verdict["response"] \notin Due
  BY DEF NothingSeen, Due
<1>2. CASE Scan(s)
  <2>1. Verdict("response") \in Due => answer = "null" /\ phase["response"] \in Due
    BY DEF Verdict, Running, Stopped, Due
  <2>2. seen' = [seen EXCEPT ![s] = [verdict |-> [c \in Clocks |-> Verdict(c)],
                                     level |-> level, window |-> window]]
    BY <1>2 DEF Scan
  <2>3. seen'[s].verdict["response"] = Verdict("response")
    BY <2>2
  <2>4. \A t \in Scans : t # s => seen'[t] = seen[t]
    BY <2>2
  <2>5. UNCHANGED breached
    BY <1>2 DEF Scan, ticketVars, clockVars
  <2> QED
    BY <1>0, <2>1, <2>3, <2>4, <2>5
<1>3. CASE ~Scan(s)
  <2>1. PICK c \in Clocks : NothingToRaise(s, c) \/ RaiseWarning(s, c)
                            \/ RaiseBreach(s, c) \/ ScanFails(s)
    BY <1>3 DEF Monitor
  <2>2. Done(s, c) \/ GiveUp(s)
    BY <2>1 DEF NothingToRaise, RaiseWarning, RaiseBreach, Raise, ScanFails
  <2>3. \A t \in Scans : MeansToBreach(t)' => MeansToBreach(t)
    <3>1. CASE GiveUp(s)
      BY <1>1, <3>1 DEF GiveUp
    <3>2. CASE Done(s, c) /\ c = "response"
      <4>1. seen' = [seen EXCEPT ![s] = Judged(seen[s])]
        BY <3>2 DEF Done
      <4>2. Judged(seen[s]).verdict["response"] = "nothing"
        BY DEF Judged, Snapshots
      <4>2a. seen'[s].verdict["response"] = "nothing"
        BY <4>1, <4>2
      <4>3. \A t \in Scans : t # s => seen'[t] = seen[t]
        BY <4>1
      <4> QED
        BY <4>2a, <4>3 DEF Due
    <3>3. CASE Done(s, c) /\ c # "response"
      BY <1>1, <3>3 DEF Done
    <3> QED
      BY <2>2, <3>1, <3>2, <3>3
  <2>4. breached'["response"] => breached["response"] \/ MeansToBreach(s)
    BY <2>1 DEF NothingToRaise, RaiseWarning, RaiseBreach, Raise, ScanFails, ticketVars,
                clockVars
  <2> QED
    BY <1>0, <2>3, <2>4
<1> QED
  BY <1>2, <1>3

(* The requests and the passing of time.                                   *)
LEMMA RequestKeepsAnswer ==
  ASSUME TypeOK, AnswerInv,
         \/ \E c \in Clocks : TimePasses(c)
         \/ \E q \in Responses : StampResponse(q) \/ CommitResponse(q) \/ RollBackResponse(q)
         \/ Resolve \/ Finish \/ Reopen \/ ChangePriority
         \/ \E l \in Levels : Escalate(l)
         \/ \E r \in Clears : ClearRows(r) \/ ClearEscalation(r)
         \/ UNCHANGED vars
  PROVE  AnswerInv'
<1> USE DEF TypeOK, AnswerInv, MeansToBreach, MetIsNeverBreached, Clocks
<1>1. ASSUME NEW c \in Clocks, TimePasses(c)  PROVE AnswerInv'
  <2>1. phase["response"] \in Due => phase'["response"] \in Due
    BY <1>1 DEF TimePasses
  <2> QED
    BY <1>1, <2>1 DEF TimePasses, scanVars
<1>2. ASSUME NEW q \in Responses, CommitResponse(q)  PROVE AnswerInv'
  <2>1. answer' # "null" /\ UNCHANGED <<phase, breached, seen>>
    BY <1>2 DEF CommitResponse, clockVars, scanVars
  <2>2. CASE answer # "null"
    <3>1. met' = met
      BY <1>2, <2>2 DEF CommitResponse
    <3> QED
      BY <2>1, <3>1
  <2>3. CASE answer = "null" /\ phase["response"] \notin Due
    <3>1. ~breached["response"] /\ \A s \in Scans : ~MeansToBreach(s)
      BY <2>3
    <3> QED
      BY <2>1, <3>1
  <2>4. CASE answer = "null" /\ phase["response"] \in Due
    <3>1. met' = (phase["response"] \notin Due)
      BY <1>2, <2>4 DEF CommitResponse
    <3> QED
      BY <2>1, <2>4, <3>1
  <2> QED
    BY <2>2, <2>3, <2>4
<1>3. CASE Reopen \/ ChangePriority
  BY <1>3 DEF Reopen, ChangePriority, NewWindow, scanVars
<1>4. CASE \/ Resolve \/ Finish \/ \E l \in Levels : Escalate(l)
           \/ \E r \in Clears : ClearRows(r) \/ ClearEscalation(r)
           \/ \E q \in Responses : StampResponse(q) \/ RollBackResponse(q)
           \/ UNCHANGED vars
  BY <1>4 DEF Resolve, Finish, StampResponse, RollBackResponse, Escalate, ClearRows,
              ClearEscalation, vars, ticketVars, clockVars, scanVars
<1> QED
  BY <1>1, <1>2, <1>3, <1>4

(* No answer committed before its deadline passed is recorded as a breach, *)
(* by any number of scans, however old the row they decide on.             *)
THEOREM MetIsNeverBreachedHolds == Spec => []MetIsNeverBreached
<1>1. Init => AnswerInv
  BY DEF Init, AnswerInv, MeansToBreach, MetIsNeverBreached, No, NothingSeen, Clocks, Due
<1>2. TypeOK /\ AnswerInv /\ [Next]_vars => AnswerInv'
  BY MonitorKeepsAnswer, RequestKeepsAnswer DEF Next
<1>3. AnswerInv => MetIsNeverBreached
  BY DEF AnswerInv
<1> QED
  BY <1>1, <1>2, <1>3, TypeCorrect, PTL DEF Spec

-----------------------------------------------------------------------------
(* The level and its history.                                              *)

(* Only the end of a clearing takes rows away, and it resets the level;    *)
(* whatever sets a level adds a row of that level.                         *)
THEOREM LevelHasOpenRowHolds == Spec => []LevelHasOpenRow
<1>1. Init => LevelHasOpenRow
  BY DEF Init, LevelHasOpenRow
<1>2. LevelHasOpenRow /\ [Next]_vars => LevelHasOpenRow'
  <2> SUFFICES ASSUME LevelHasOpenRow, [Next]_vars PROVE LevelHasOpenRow'
    OBVIOUS
  <2> USE DEF LevelHasOpenRow
  <2>1. ASSUME NEW l \in Levels, Escalate(l) PROVE LevelHasOpenRow'
    <3>1. <<escalations, l>> \in open' /\ level' = l
      BY <2>1 DEF Escalate, OpenRow
    <3> QED
      BY <3>1
  <2>2. ASSUME NEW r \in Clears, ClearEscalation(r) PROVE LevelHasOpenRow'
    BY <2>2 DEF ClearEscalation, ResetLevel
  <2>3. ASSUME NEW s \in Scans, NEW c \in Clocks, RaiseBreach(s, c)
        PROVE  LevelHasOpenRow'
    <3>1. UNCHANGED levelVars \/ EscalateToSuperAdmin(s)
      BY <2>3 DEF RaiseBreach, Raise, levelVars
    <3>2. CASE UNCHANGED levelVars
      BY <3>2 DEF levelVars
    <3>3. CASE EscalateToSuperAdmin(s)
      <4>1. open \subseteq open' /\ <<escalations, "SUPER_ADMIN">> \in open'
        BY <3>3 DEF EscalateToSuperAdmin, OpenRow
      <4>2. level' = level \/ level' = "SUPER_ADMIN"
        BY <3>3 DEF EscalateToSuperAdmin
      <4> QED
        BY <4>1, <4>2
    <3> QED
      BY <3>1, <3>2, <3>3
  <2>4. ASSUME UNCHANGED <<level, open>> PROVE LevelHasOpenRow'
    BY <2>4
  <2>5. CASE \/ \E c \in Clocks : TimePasses(c)
             \/ \E q \in Responses : StampResponse(q) \/ CommitResponse(q) \/ RollBackResponse(q)
             \/ Resolve \/ Finish \/ Reopen \/ ChangePriority
             \/ \E r \in Clears : ClearRows(r)
             \/ UNCHANGED vars
    BY <2>4, <2>5 DEF TimePasses, StampResponse, CommitResponse,
                      RollBackResponse, Resolve, Finish, Reopen, ChangePriority,
                      ClearRows, vars, levelVars
  <2>6. CASE \E s \in Scans : \/ Scan(s) \/ ScanFails(s)
                             \/ \E c \in Clocks : NothingToRaise(s, c) \/ RaiseWarning(s, c)
    BY <2>4, <2>6 DEF Scan, ScanFails, NothingToRaise, RaiseWarning, Raise, levelVars
  <2> QED
    BY <2>1, <2>2, <2>3, <2>5, <2>6 DEF Next, Monitor
<1> QED
  BY <1>1, <1>2, PTL DEF Spec

-----------------------------------------------------------------------------
(* Stamps and events.                                                      *)

(* Keys are never given back, and no stamp is set without its key: a new   *)
(* window only takes stamps away.                                          *)
THEOREM StampsAreAnnouncedHolds == Spec => []StampsAreAnnounced
<1>1. Init => StampsAreAnnounced
  BY DEF Init, StampsAreAnnounced, No
<1>2. TypeOK /\ StampsAreAnnounced /\ [Next]_vars => StampsAreAnnounced'
  <2> SUFFICES ASSUME TypeOK, StampsAreAnnounced, [Next]_vars PROVE StampsAreAnnounced'
    OBVIOUS
  <2> USE DEF StampsAreAnnounced
  <2>0. warned \in [Clocks -> BOOLEAN] /\ breached \in [Clocks -> BOOLEAN]
    BY DEF TypeOK
  <2>1. ASSUME NEW s \in Scans, NEW c \in Clocks, RaiseWarning(s, c)
        PROVE  StampsAreAnnounced'
    <3>1. UNCHANGED <<warned, breached, keys>>
          \/ /\ keys' = keys \cup {<<"warning", c>>}
             /\ warned' = [warned EXCEPT ![c] = TRUE]
             /\ UNCHANGED breached
      BY <2>1 DEF RaiseWarning, Raise, EventKey, clockVars
    <3> QED
      BY <2>0, <3>1
  <2>2. ASSUME NEW s \in Scans, NEW c \in Clocks, RaiseBreach(s, c)
        PROVE  StampsAreAnnounced'
    <3>1. UNCHANGED <<warned, breached, keys>>
          \/ /\ keys' = keys \cup {<<"breach", c>>}
             /\ breached' = [breached EXCEPT ![c] = TRUE]
             /\ UNCHANGED warned
      BY <2>2 DEF RaiseBreach, Raise, EventKey, clockVars
    <3> QED
      BY <2>0, <3>1
  <2>3. CASE Reopen \/ ChangePriority
    <3>1. warned' = [warned EXCEPT !["resolution"] = FALSE]
      BY <2>3 DEF Reopen, ChangePriority, NewWindow
    <3>2. breached' = [breached EXCEPT !["resolution"] = FALSE] \/ breached' = breached
      BY <2>3 DEF Reopen, ChangePriority
    <3>3. \A c \in Clocks : warned'[c] => warned[c]
      BY <2>0, <3>1
    <3>4. \A c \in Clocks : breached'[c] => breached[c]
      BY <2>0, <3>2
    <3>5. keys' = keys
      BY <2>3 DEF Reopen, ChangePriority
    <3> QED
      BY <3>3, <3>4, <3>5
  <2>4. ASSUME UNCHANGED <<warned, breached, keys>> PROVE StampsAreAnnounced'
    BY <2>4
  <2>5. CASE \/ \E c \in Clocks : TimePasses(c)
             \/ \E q \in Responses : StampResponse(q) \/ CommitResponse(q) \/ RollBackResponse(q)
             \/ Resolve \/ Finish
             \/ \E l \in Levels : Escalate(l)
             \/ \E r \in Clears : ClearRows(r) \/ ClearEscalation(r)
             \/ UNCHANGED vars
    BY <2>4, <2>5 DEF TimePasses, StampResponse, CommitResponse,
                      RollBackResponse, Resolve, Finish, Escalate, ClearRows,
                      ClearEscalation, vars, ticketVars, clockVars
  <2>6. CASE \E s \in Scans : \/ Scan(s) \/ ScanFails(s)
                             \/ \E c \in Clocks : NothingToRaise(s, c)
    BY <2>4, <2>6 DEF Scan, ScanFails, NothingToRaise, ticketVars, clockVars
  <2> QED
    BY <2>1, <2>2, <2>3, <2>5, <2>6 DEF Next, Monitor
<1> QED
  BY <1>1, <1>2, TypeCorrect, PTL DEF Spec

=============================================================================
