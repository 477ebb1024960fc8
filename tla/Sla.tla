--------------------------------- MODULE Sla ---------------------------------
(***************************************************************************)
(* The SLA clocks and the escalation of one ticket: the monitor            *)
(* (helpdesk/sla/sla-monitor.job.ts), which every replica starts once a    *)
(* minute and which may overlap itself, against the requests of            *)
(* tickets.service.ts that answer, resolve, reopen, re-prioritise,         *)
(* escalate and clear.                                                     *)
(*                                                                         *)
(* A scan reads the tickets outside any transaction and then works through *)
(* them; when it comes to ours it decides on what it read.  Each raise is  *)
(* one transaction that locks the ticket row first, so it is one step.  A  *)
(* first response takes its time before its transaction writes and commits *)
(* later, so it is two.                                                    *)
(*                                                                         *)
(* Instants are abstracted to how far each deadline is: what matters is    *)
(* the warning threshold, the deadline, and an hour past it.  No endpoint  *)
(* pauses a clock, so nothing here does.  The ticket has an assigned       *)
(* agent, whose notification carries the same key as the event.            *)
(*                                                                         *)
(* A request decides on a copy of the ticket and writes by id (Tickets),   *)
(* so its write may come at any later status: only what must have been     *)
(* seen once is a guard.                                                   *)
(***************************************************************************)
EXTENDS Naturals

CONSTANTS
  Scans,           \* runs of the monitor in flight together
  Responses,       \* requests that answer the ticket, in flight together
  Clears,          \* clearEscalation requests in flight together
  \* Bounds of the model, not of the code:
  MaxWindows,      \* reopenings and priority changes
  MaxEscalations,  \* manual escalations
  MaxFaults        \* scans that die or whose transaction times out

ASSUME SlaAssumption == MaxWindows \in Nat /\ MaxEscalations \in Nat /\ MaxFaults \in Nat

VARIABLES
  \* The Ticket row
  status,       \* "active" (ACTIVE_STATUSES), "resolved", or "over"
  phase,        \* by clock: how far its deadline is; "none" without one
  resolvedAt,   \* "never", "set", or "cleared" by a reopening
  answer,       \* firstRespondedAt as committed: "null", "inTime" or "late"
  warned,       \* by clock: slaResponseWarnedAt, slaResolutionWarnedAt
  breached,     \* by clock: slaResponseBreachedAt, slaResolutionBreachedAt
  level,        \* escalationLevel
  \* Other rows
  keys,         \* idempotency keys of the sla events in the outbox
  open,         \* TicketEscalation rows without clearedAt: <<id, level>>
  \* Running scans and requests
  pc,           \* by scan: "idle", or the clock it evaluates next
  seen,         \* by scan: what evaluate makes of the row findMany returned
  stamp,        \* by response: firstRespondedAt in its transaction, or "null"
  clearing,     \* by request: the rows it has stamped in its transaction
  inTx,         \* the clear requests inside their transaction
  \* History
  met,          \* the first answer was committed before its deadline passed
  window,       \* how often the resolution deadline was replaced
  escalations,
  faults

clockVars  == <<phase, warned, breached>>
ticketVars == <<status, resolvedAt, answer, clockVars, met, window>>
levelVars  == <<level, open, escalations>>
scanVars   == <<pc, seen>>
clearVars  == <<clearing, inTx>>
vars       == <<ticketVars, levelVars, keys, scanVars, clearVars, stamp, faults>>

Clocks == {"response", "resolution"}
Phases == {"none", "running", "warning", "overdue", "critical"}
Due    == {"overdue", "critical"}
Levels == {"NONE", "ADMIN", "SUPER_ADMIN"}
Keys   == {"warning", "breach"} \X Clocks
Answers  == {"null", "inTime", "late"}
Verdicts == {"nothing", "warning", "overdue", "critical"}

Snapshots == [verdict : [Clocks -> Verdicts], level : Levels, window : Nat]

TypeOK ==
  /\ status \in {"active", "resolved", "over"}
  /\ resolvedAt \in {"never", "set", "cleared"}
  /\ phase \in [Clocks -> Phases]
  /\ answer \in Answers
  /\ warned \in [Clocks -> BOOLEAN] /\ breached \in [Clocks -> BOOLEAN]
  /\ level \in Levels
  /\ keys \subseteq Keys
  /\ open \subseteq Nat \X Levels
  /\ pc \in [Scans -> Clocks \cup {"idle"}]
  /\ seen \in [Scans -> Snapshots]
  /\ stamp \in [Responses -> Answers]
  /\ clearing \in [Clears -> SUBSET (Nat \X Levels)]
  /\ inTx \subseteq Clears
  /\ met \in BOOLEAN
  /\ window \in Nat /\ escalations \in Nat /\ faults \in Nat

No == [c \in Clocks |-> FALSE]

NothingSeen ==
  [verdict |-> [c \in Clocks |-> "nothing"], level |-> "NONE", window |-> 0]

(* create: both deadlines of the policy that applies, or neither.          *)
Init ==
  /\ status = "active" /\ resolvedAt = "never"
  /\ \E p \in {"none", "running"} : phase = [c \in Clocks |-> p]
  /\ answer = "null"
  /\ warned = No /\ breached = No
  /\ level = "NONE"
  /\ keys = {} /\ open = {}
  /\ pc = [s \in Scans |-> "idle"]
  /\ seen = [s \in Scans |-> NothingSeen]
  /\ stamp = [q \in Responses |-> "null"]
  /\ clearing = [r \in Clears |-> {}]
  /\ inTx = {}
  /\ met = FALSE
  /\ window = 0 /\ escalations = 0 /\ faults = 0

-----------------------------------------------------------------------------
(* Time and the requests on the ticket.                                    *)

Later == [running |-> "warning", warning |-> "overdue", overdue |-> "critical"]

(* How long a response is overdue only shows in the text of its event.     *)
TimePasses(c) ==
  /\ phase[c] \in DOMAIN Later
  /\ c = "response" => phase[c] \notin Due
  /\ phase' = [phase EXCEPT ![c] = Later[@]]
  /\ UNCHANGED <<status, resolvedAt, answer, warned, breached, met, window, levelVars,
                 keys, scanVars, clearVars, stamp, faults>>

(* applyStatusChange to ASSIGNED or IN_PROGRESS takes the time it will     *)
(* stamp before its first write ...                                        *)
StampResponse(q) ==
  /\ stamp[q] = "null"
  /\ stamp' = [stamp EXCEPT ![q] =
       IF phase["response"] \in Due THEN "late" ELSE "inTime"]
  /\ UNCHANGED <<ticketVars, levelVars, keys, scanVars, clearVars, faults>>

(* ... and the transaction of its caller commits after the audit entry,    *)
(* the event and the notifications.  No caller passes on firstRespondedAt, *)
(* so a later change stamps it again.                                      *)
CommitResponse(q) ==
  /\ stamp[q] # "null"
  /\ stamp' = [stamp EXCEPT ![q] = "null"]
  /\ status' = "active"
  /\ answer' = stamp[q]
  /\ met' = IF answer = "null" THEN phase["response"] \notin Due ELSE met
  /\ UNCHANGED <<resolvedAt, clockVars, window, levelVars, keys, scanVars, clearVars, faults>>

(* A later write of the transaction fails, or the process dies.            *)
RollBackResponse(q) ==
  /\ stamp[q] # "null"
  /\ stamp' = [stamp EXCEPT ![q] = "null"]
  /\ UNCHANGED <<ticketVars, levelVars, keys, scanVars, clearVars, faults>>

(* verifyResolution with approved; closing leaves resolvedAt as it is.     *)
Resolve ==
  /\ status' = "resolved"
  /\ resolvedAt' = "set"
  /\ UNCHANGED <<answer, clockVars, met, window, levelVars, keys, scanVars, clearVars,
                 stamp, faults>>

(* cancel, or closeInternal.                                               *)
Finish ==
  /\ status' = "over"
  /\ UNCHANGED <<resolvedAt, answer, clockVars, met, window, levelVars, keys, scanVars,
                 clearVars, stamp, faults>>

NewWindow(deadline) ==
  /\ window < MaxWindows
  /\ window' = window + 1
  /\ phase' = [phase EXCEPT !["resolution"] = deadline]
  /\ warned' = [warned EXCEPT !["resolution"] = FALSE]

(* reopen, by a request that found the ticket resolved.  The access query  *)
(* does not select slaPolicyId, so no policy is found and the fresh        *)
(* deadline is null.                                                       *)
Reopen ==
  /\ resolvedAt # "never"
  /\ status' = "active"
  /\ resolvedAt' = "cleared"
  /\ NewWindow("none")
  /\ breached' = [breached EXCEPT !["resolution"] = FALSE]
  /\ UNCHANGED <<answer, met, levelVars, keys, scanVars, clearVars, stamp, faults>>

(* update with another priority, in any status: a deadline counted from    *)
(* now, or none where no policy applies.  A recorded breach stays.         *)
ChangePriority ==
  /\ \E deadline \in {"none", "running"} : NewWindow(deadline)
  /\ UNCHANGED <<status, resolvedAt, answer, breached, met, levelVars, keys, scanVars,
                 clearVars, stamp, faults>>

-----------------------------------------------------------------------------
(* Escalation by hand.                                                     *)

OpenRow(l) == open' = open \cup {<<escalations, l>>} /\ escalations' = escalations + 1

(* escalate, in any status and to any level, NONE included.                *)
Escalate(l) ==
  /\ escalations < MaxEscalations
  /\ OpenRow(l)
  /\ level' = l
  /\ UNCHANGED <<ticketVars, keys, scanVars, clearVars, stamp, faults>>

(* clearEscalation: first the rows that are open and committed now ...     *)
ClearRows(r) ==
  /\ r \notin inTx
  /\ inTx' = inTx \cup {r}
  /\ clearing' = [clearing EXCEPT ![r] = open]
  /\ UNCHANGED <<ticketVars, levelVars, keys, scanVars, stamp, faults>>

KeepsLevel == UNCHANGED level                                          \* mutant
ResetLevel == level' = "NONE"

(* ... and then the ticket and the commit.                                 *)
ClearEscalation(r) ==
  /\ r \in inTx
  /\ inTx' = inTx \ {r}
  /\ open' = open \ clearing[r]
  /\ clearing' = [clearing EXCEPT ![r] = {}]
  /\ ResetLevel
  /\ UNCHANGED <<ticketVars, escalations, keys, scanVars, stamp, faults>>

-----------------------------------------------------------------------------
(* The monitor.                                                            *)

(* responseRunning and resolutionRunning, on the row as it is read.        *)
Stopped(c) == IF c = "response" THEN answer # "null" ELSE resolvedAt = "set"

IgnoresAnswer(c) == phase[c] # "none" /\ ~breached[c]                   \* mutant
OnlyUnwarned(c) == phase[c] # "none" /\ ~breached[c] /\ ~warned[c]      \* mutant
Running(c) == phase[c] # "none" /\ ~breached[c] /\ ~Stopped(c)

(* What evaluate will decide.  It uses nothing but the copy and the time   *)
(* the scan began, so the decision is as old as the copy.                  *)
Verdict(c) ==
  IF ~Running(c) THEN "nothing"
  ELSE IF phase[c] \in Due THEN phase[c]
  ELSE IF phase[c] = "warning" /\ ~warned[c] THEN "warning" ELSE "nothing"

(* The findMany of scan.  It takes its time just before: a deadline that   *)
(* passes in between has not passed for it, as if it read earlier.         *)
Scan(s) ==
  /\ pc[s] = "idle"
  /\ status = "active"
  /\ \E c \in Clocks : phase[c] # "none"
  /\ pc' = [pc EXCEPT ![s] = "response"]
  /\ seen' = [seen EXCEPT ![s] =
       [verdict |-> [c \in Clocks |-> Verdict(c)], level |-> level, window |-> window]]
  /\ UNCHANGED <<ticketVars, levelVars, keys, clearVars, stamp, faults>>

(* On to the next clock, or to the next ticket.                            *)
Judged(copy) ==
  [copy EXCEPT !.verdict = [copy.verdict EXCEPT !["response"] = "nothing"]]

Done(s, c) ==
  IF c = "response"
    THEN /\ pc' = [pc EXCEPT ![s] = "resolution"]
         /\ seen' = [seen EXCEPT ![s] = Judged(seen[s])]
    ELSE /\ pc' = [pc EXCEPT ![s] = "idle"]
         /\ seen' = [seen EXCEPT ![s] = NothingSeen]

(* evaluate is rejected.                                                   *)
GiveUp(s) ==
  /\ pc' = [pc EXCEPT ![s] = "idle"]
  /\ seen' = [seen EXCEPT ![s] = NothingSeen]

NothingToRaise(s, c) ==
  /\ pc[s] = c
  /\ seen[s].verdict[c] = "nothing"
  /\ Done(s, c)
  /\ UNCHANGED <<ticketVars, levelVars, keys, clearVars, stamp, faults>>

SwappedKey(kind, c) == <<c, kind>>                                      \* mutant
SharedKey(kind, c) == <<kind, "response">>                              \* mutant
EventKey(kind, c) == <<kind, c>>

(* The transaction of a raise.  A conditional update that finds the stamp  *)
(* already set ends it; a key that exists aborts it, and the rejection     *)
(* ends the evaluation of the ticket.                                      *)
Raise(s, c, kind, stamped, writes) ==
  IF stamped
    THEN /\ Done(s, c)
         /\ UNCHANGED <<clockVars, levelVars, keys>>
  ELSE IF EventKey(kind, c) \in keys
    THEN /\ GiveUp(s)
         /\ UNCHANGED <<clockVars, levelVars, keys>>
  ELSE /\ Done(s, c)
       /\ keys' = keys \cup {EventKey(kind, c)}
       /\ writes

RaiseWarning(s, c) ==
  /\ pc[s] = c
  /\ seen[s].verdict[c] = "warning"
  /\ Raise(s, c, "warning", warned[c],
       /\ warned' = [warned EXCEPT ![c] = TRUE]
       /\ UNCHANGED <<phase, breached, levelVars>>)
  /\ UNCHANGED <<status, resolvedAt, answer, met, window, clearVars, stamp, faults>>

(* The deadline is read again inside the transaction, and judged by the    *)
(* time the scan began.                                                    *)
IsCritical(s) == seen[s].verdict["resolution"] = "critical" /\ seen[s].window = window

EscalateToSuperAdmin(s) ==
  /\ OpenRow("SUPER_ADMIN")
  /\ level' = IF seen[s].level = "SUPER_ADMIN" THEN level ELSE "SUPER_ADMIN"

RaiseBreach(s, c) ==
  /\ pc[s] = c
  /\ seen[s].verdict[c] \in Due
  /\ Raise(s, c, "breach", breached[c],
       /\ breached' = [breached EXCEPT ![c] = TRUE]
       /\ IF c = "resolution" /\ IsCritical(s)
            THEN EscalateToSuperAdmin(s)
            ELSE UNCHANGED levelVars
       /\ UNCHANGED <<phase, warned>>)
  /\ UNCHANGED <<status, resolvedAt, answer, met, window, clearVars, stamp, faults>>

(* The process dies, or a transaction fails and the ticket is given up.    *)
ScanFails(s) ==
  /\ pc[s] # "idle"
  /\ faults < MaxFaults
  /\ faults' = faults + 1
  /\ GiveUp(s)
  /\ UNCHANGED <<ticketVars, levelVars, keys, clearVars, stamp>>

Monitor(s) ==
  \/ Scan(s)
  \/ \E c \in Clocks : NothingToRaise(s, c) \/ RaiseWarning(s, c) \/ RaiseBreach(s, c)

Next ==
  \/ \E c \in Clocks : TimePasses(c)
  \/ \E q \in Responses : StampResponse(q) \/ CommitResponse(q) \/ RollBackResponse(q)
  \/ Resolve \/ Finish \/ Reopen \/ ChangePriority
  \/ \E l \in Levels : Escalate(l)
  \/ \E r \in Clears : ClearRows(r) \/ ClearEscalation(r)
  \/ \E s \in Scans : Monitor(s) \/ ScanFails(s)

Spec == Init /\ [][Next]_vars

(* The cron keeps ticking and its queries return.  Nothing is assumed      *)
(* about the requests or about how fast time passes.                       *)
FairSpec == Spec /\ \A s \in Scans : WF_vars(Monitor(s))

-----------------------------------------------------------------------------
(* A ticket whose answer was committed before its deadline passed is never *)
(* recorded as a response breach, however late a scan that read it         *)
(* unanswered gets to it.  (An answer stamped in time and committed after  *)
(* the deadline may be: the raise does not look at firstRespondedAt.)      *)
MetIsNeverBreached == met => ~breached["response"]

(* The level on the ticket is backed by an open row of the escalation      *)
(* history, whichever of racing escalations, clearings and scans commits   *)
(* last.                                                                   *)
LevelHasOpenRow == level # "NONE" => \E row \in open : row[2] = level

(* A stamp on the ticket has its event in the outbox: no warning or breach *)
(* is recorded without being announced, over all windows of the ticket.    *)
StampsAreAnnounced ==
  \A c \in Clocks :
    /\ warned[c] => <<"warning", c>> \in keys
    /\ breached[c] => <<"breach", c>> \in keys

(* An unanswered ticket past its deadline is recorded, unless somebody     *)
(* answers or takes it off the active statuses first.                      *)
OverdueResponseIsRecorded ==
  status = "active" /\ phase["response"] \in Due /\ answer = "null" ~>
    breached["response"] \/ answer # "null" \/ status # "active"

-----------------------------------------------------------------------------
(* What comments in the code say and the code does not do.                 *)

(* "each warning/breach is raised exactly once": the same for resolution.  *)
(* The event key of a ticket's second breach exists since its first.       *)
OverdueResolutionIsRecorded ==
  status = "active" /\ resolvedAt # "set" /\ phase["resolution"] \in Due ~>
    \/ breached["resolution"] \/ phase["resolution"] \notin Due
    \/ status # "active" \/ resolvedAt = "set"

=============================================================================
