------------------------------ MODULE SlaClock ------------------------------
(***************************************************************************)
(* The SLA clock engine (helpdesk/sla/sla-engine.service.ts) on the row of *)
(* one ticket, under the status changes, priority changes and reopenings   *)
(* of tickets.service.ts, with the two classifications of its clocks: the  *)
(* one the UI shows (describe) and the monitor's own.                      *)
(*                                                                         *)
(* applyStatusChange updates the row before it calls the engine in the     *)
(* same transaction, so the row lock makes each change one step, decided   *)
(* on a copy that may be outdated.  Sla has the races of the monitor; here *)
(* it is arithmetic that is at stake, in units of time since creation.     *)
(*                                                                         *)
(* The engine is modelled for every change the transition table allows.    *)
(* No endpoint asks for a WAITING status at present.                       *)
(***************************************************************************)
EXTENDS Integers, TicketStateMachine

CONSTANTS
  ResponseTime, ResolutionTime,   \* of the policy the ticket was created under
  UrgentTime,                     \* resolution time of another priority
  MaxNow,                         \* bound on the clock
  Null

ASSUME SlaClockAssumption ==
  /\ ResponseTime \in Nat \ {0} /\ ResolutionTime \in Nat \ {0}
  /\ UrgentTime \in Nat \ {0} /\ MaxNow \in Nat /\ Null \notin Nat

VARIABLES
  now,
  row,       \* the columns the engine reads and writes
  copy,      \* the status that a request in flight has loaded
  \* history, read by no action
  waited,    \* time spent in a pausing status, since creation or reopening (a
             \* window open at the reopening counts whole)
  unpaused,  \* the resolution deadline as last set, less the pauses folded by then
  midPause   \* it was last set during a pause

clockVars == <<now, row, copy, waited, unpaused, midPause>>

PAUSING_STATUSES == {"WAITING_FOR_CLIENT", "WAITING_FOR_EMPLOYEE"}
RESOLUTION_CLOSED_STATUSES == {"RESOLVED", "CLOSED", "CANCELLED"}
ACTIVE_STATUSES == {"OPEN", "ASSIGNED", "IN_PROGRESS", "RESOLUTION_SUBMITTED",
                    "UNDER_VERIFICATION", "REOPENED"}
FirstResponses == {"ASSIGNED", "IN_PROGRESS"} \cup PAUSING_STATUSES

IsSet(t) == t # Null
AtLeast(a, b) == IF a < b THEN b ELSE a

-----------------------------------------------------------------------------
(* The engine, as functions on the row.                                    *)

(* pause: does not restart an open window.                                 *)
Restarts(r) == [r EXCEPT !.slaPausedAt = now]                           \* mutant
Pause(r) == IF IsSet(r.slaPausedAt) THEN r ELSE [r EXCEPT !.slaPausedAt = now]

(* resume: folds the open window into the total and the deadlines that     *)
(* still run.                                                              *)
Later(deadline, elapsed) == IF IsSet(deadline) THEN deadline + elapsed ELSE Null
ResponseDeadline(r, elapsed) ==
  IF IsSet(r.firstRespondedAt) THEN r.firstResponseDeadline
  ELSE Later(r.firstResponseDeadline, elapsed)

ResolutionDeadline(r, elapsed) == Later(r.resolutionDeadline, elapsed)

Resume(r) ==
  LET elapsed == AtLeast(now - r.slaPausedAt, 0) IN
  IF ~IsSet(r.slaPausedAt) THEN r
  ELSE [r EXCEPT !.totalPausedDurationMs = @ + elapsed,
                 !.resolutionDeadline = ResolutionDeadline(r, elapsed),
                 !.firstResponseDeadline = ResponseDeadline(r, elapsed),
                 !.slaPausedAt = Null]

(* syncPauseStateForStatus: a closed status resumes too.                   *)
SyncPauseState(r, status) ==
  IF status \in PAUSING_STATUSES THEN Pause(r) ELSE Resume(r)

(* elapsedActiveMs from creation to now.                                   *)
ElapsedActive(r) ==
  LET open == IF IsSet(r.slaPausedAt) THEN now - r.slaPausedAt ELSE 0
  IN  AtLeast(now - (r.totalPausedDurationMs + open), 0)

(* describe: how the UI classifies a clock; the threshold is four fifths   *)
(* of the window.  What the breach stamps decide is left out.              *)
ActiveWindow(r, deadline) == AtLeast(deadline - r.totalPausedDurationMs, 1)

Classify(r, deadline, stoppedAt) ==
  LET elapsed == AtLeast(now - r.totalPausedDurationMs, 0)
      window  == ActiveWindow(r, deadline)
  IN
  CASE ~IsSet(deadline)            -> "none"
    [] IsSet(deadline) /\ IsSet(stoppedAt) ->
         IF deadline >= stoppedAt THEN "met" ELSE "breached"
    [] OTHER ->
         IF IsSet(r.slaPausedAt) THEN "paused"
         ELSE IF elapsed >= window THEN "breached"
         ELSE IF elapsed * 5 >= window * 4 THEN "warning" ELSE "running"

DescribeResponse(r)   == Classify(r, r.firstResponseDeadline, r.firstRespondedAt)
DescribeResolution(r) == Classify(r, r.resolutionDeadline, r.resolvedAt)

(* scan and evaluate of sla-monitor.job.ts, for a ticket without stamps.   *)
Watched(r) == r.status \in ACTIVE_STATUSES /\ ~IsSet(r.slaPausedAt)
WithinWarningThreshold(r, deadline) ==
  AtLeast(now - r.totalPausedDurationMs, 0) * 5 >= AtLeast(deadline, 1) * 4

Monitor(r, deadline, stoppedAt) ==
  CASE ~IsSet(deadline) \/ IsSet(stoppedAt) \/ ~Watched(r) -> "nothing"
    [] OTHER -> IF now > deadline THEN "breach"
                ELSE IF WithinWarningThreshold(r, deadline) THEN "warning"
                ELSE "nothing"

-----------------------------------------------------------------------------
(* create and computeDeadlines.                                            *)
ClockInit ==
  /\ now = 0
  /\ row = [status |-> "OPEN", firstResponseDeadline |-> ResponseTime,
            resolutionDeadline |-> ResolutionTime, firstRespondedAt |-> Null,
            resolvedAt |-> Null, slaPausedAt |-> Null,
            totalPausedDurationMs |-> 0]
  /\ copy = "OPEN"
  /\ waited = 0 /\ unpaused = ResolutionTime /\ midPause = FALSE

ClockTicks ==
  /\ now < MaxNow
  /\ now' = now + 1
  /\ waited' = IF row.status \in PAUSING_STATUSES THEN waited + 1 ELSE waited
  /\ UNCHANGED <<row, copy, unpaused, midPause>>

(* loadWithAccess.                                                         *)
LoadStatus ==
  /\ copy' = row.status
  /\ UNCHANGED <<now, row, waited, unpaused, midPause>>

Decides(to) ==
  \E from \in {row.status, copy} :
     CanTransition(from, to, StaffCapabilities, "CLIENT_SUPPORT")

(* applyStatusChange.  The copy it is given never carries firstRespondedAt. *)
ApplyStatusChange(to) ==
  /\ Decides(to) /\ to # "REOPENED"
  /\ row' = SyncPauseState([row EXCEPT
       !.status = to,
       !.firstRespondedAt = IF to \in FirstResponses THEN now ELSE @,
       !.resolvedAt = IF to = "RESOLVED" THEN now ELSE @], to)
  /\ UNCHANGED <<now, copy, waited, unpaused, midPause>>

(* reopen.  The access query selects no policy id, so there is no policy   *)
(* and no fresh deadline.                                                  *)
ReopenTicket ==
  /\ Decides("REOPENED")
  /\ row' = SyncPauseState([row EXCEPT
       !.status = "REOPENED", !.resolvedAt = Null, !.resolutionDeadline = Null,
       !.totalPausedDurationMs = 0], "REOPENED")
  /\ waited' = IF IsSet(row.slaPausedAt) THEN now - row.slaPausedAt ELSE 0
  /\ unpaused' = Null /\ midPause' = FALSE
  /\ UNCHANGED <<now, copy>>

(* update with another priority: the new policy's time from now, or no     *)
(* deadline; in any status.                                                *)
ReplaceDeadline(deadline) ==
  /\ row.resolutionDeadline # deadline
  /\ row' = [row EXCEPT !.resolutionDeadline = deadline]
  /\ unpaused' = IF IsSet(deadline) THEN deadline - row.totalPausedDurationMs ELSE Null
  /\ midPause' = IsSet(row.slaPausedAt)
  /\ UNCHANGED <<now, copy, waited>>

ClockNext ==
  \/ ClockTicks \/ LoadStatus \/ ReopenTicket
  \/ \E to \in TicketStatus : ApplyStatusChange(to)
  \/ \E deadline \in {now + UrgentTime, now + ResolutionTime, Null} :
        ReplaceDeadline(deadline)

-----------------------------------------------------------------------------
(* The type invariant.                                                     *)
ClockTypeOK ==
  LET Instants == Nat \cup {Null} IN
  /\ now \in 0..MaxNow /\ copy \in TicketStatus
  /\ row \in [status : TicketStatus, firstResponseDeadline : Instants,
              resolutionDeadline : Instants, firstRespondedAt : Instants,
              resolvedAt : Instants, slaPausedAt : Instants,
              totalPausedDurationMs : Nat]
  /\ waited \in 0..MaxNow /\ unpaused \in Int \cup {Null}
  /\ midPause \in BOOLEAN

(* PAUSE/RESUME INVARIANT: however pauses and resumes follow each other,   *)
(* every window since creation or reopening is taken off the active time   *)
(* exactly once, the open one included.                                    *)
PausesFoldOnce ==
  /\ ElapsedActive(row) = now - waited
  /\ IsSet(row.slaPausedAt) <=> row.status \in PAUSING_STATUSES

(* A deadline has moved by exactly the pauses folded since it was set; the *)
(* exception is one set during a pause, which the whole window then moves. *)
DeadlineMovesWithThePauses ==
  IsSet(unpaused) /\ ~midPause =>
    row.resolutionDeadline = unpaused + row.totalPausedDurationMs

(* "The UI never disagrees with the events the monitor emits", in one      *)
(* direction: what the monitor raises, the UI shows at least.  The monitor *)
(* may warn later, as its threshold is that of the window with its pauses. *)
UiShowsWhatTheMonitorRaises ==
  /\ Monitor(row, row.firstResponseDeadline, row.firstRespondedAt) = "breach"
       => DescribeResponse(row) = "breached"
  /\ Monitor(row, row.resolutionDeadline, row.resolvedAt) = "breach"
       => DescribeResolution(row) = "breached"
  /\ Monitor(row, row.firstResponseDeadline, row.firstRespondedAt) = "warning"
       => DescribeResponse(row) \in {"warning", "breached"}
  /\ Monitor(row, row.resolutionDeadline, row.resolvedAt) = "warning"
       => DescribeResolution(row) \in {"warning", "breached"}

(* The verdict on an answer is as final as the answer: no pause or resume  *)
(* after it turns a late one into one in time.                             *)
AnswerIsJudgedOnce ==
  [][IsSet(row.firstRespondedAt) /\ row'.firstRespondedAt = row.firstRespondedAt
       => DescribeResponse(row)' = DescribeResponse(row)]_clockVars

(* The clocks are right: pauses count once, for active time, deadlines and *)
(* verdicts alike, and the UI shows what the monitor raises.               *)
ClocksAreRight ==
  /\ [](PausesFoldOnce /\ DeadlineMovesWithThePauses)
  /\ []UiShowsWhatTheMonitorRaises
  /\ AnswerIsJudgedOnce
=============================================================================
