------------------------------ MODULE TimeOff ------------------------------
(***************************************************************************)
(* Leaves of one employee and their review (hr/leaves/leaves.service.ts),  *)
(* beside HR's own changes of the employee's status                        *)
(* (hr/employees/employees.service.ts).  A review is one transaction, READ *)
(* COMMITTED: it reads the status in one statement and writes it, if at    *)
(* all, in a later one.                                                    *)
(***************************************************************************)
EXTENDS Naturals, FiniteSets

CONSTANTS Requested,    \* leaves, by their id
          Reviewers,    \* reviews in flight together
          MaxHrEdits    \* bound on HR's changes of the status

ASSUME TimeOffAssumption == MaxHrEdits \in Nat /\ "HR" \notin Requested \cup Reviewers

EmployeeStatus == {"ACTIVE", "ON_LEAVE", "TERMINATED"}   \* RESIGNED is as TERMINATED
Verdicts == {"PENDING", "APPROVED", "REJECTED"}

VARIABLES
    employee,   \* the employee's status
    leave,      \* by leave: its status, or none before it is asked for
    review,     \* by review: its leave, its verdict and the status it read
    hrEdits,
    \* history, read by no action
    edited,     \* by review: HR, or another review, has written since it read
    onLeaveBy,  \* why the employee is ON_LEAVE: HR, or the leave approved
    takenBack   \* leaves whose approval a later review replaced

timeOffVars == <<employee, leave, review, hrEdits, edited, onLeaveBy, takenBack>>

----------------------------------------------------------------------------
NoReview == [leave |-> "none", verdict |-> "none", copy |-> "none"]
Reviewing(v) == review[v] # NoReview
Disturbs(except) == edited' = [v \in Reviewers |-> edited[v] \/ (v # except /\ Reviewing(v))]

TimeOffInit ==
    /\ employee \in EmployeeStatus \ {"ON_LEAVE"}
    /\ leave = [l \in Requested |-> "none"]
    /\ review = [v \in Reviewers |-> NoReview]
    /\ hrEdits = 0
    /\ edited = [v \in Reviewers |-> FALSE]
    /\ onLeaveBy = {} /\ takenBack = {}

\* create
Ask(l) ==
    /\ leave[l] = "none"
    /\ leave' = [leave EXCEPT ![l] = "PENDING"]
    /\ UNCHANGED <<employee, review, hrEdits, edited, onLeaveBy, takenBack>>

\* review, up to the re-read in the transaction.  The leave's own status is not
\* looked at: any verdict may follow any other, PENDING included.
ReadLeave(v, l, verdict) ==
    /\ ~Reviewing(v) /\ leave[l] # "none"
    /\ review' = [review EXCEPT ![v] = [leave |-> l, verdict |-> verdict,
                                        copy |-> employee]]
    /\ edited' = [edited EXCEPT ![v] = FALSE]
    /\ UNCHANGED <<employee, leave, hrEdits, onLeaveBy, takenBack>>

\* The two writes and the commit.  Only an approval touches the employee, and only
\* one that was read as ACTIVE.
AnyStatus(v) == review[v].verdict = "APPROVED"                           \* mutant
TakesLeave(v) == review[v].verdict = "APPROVED" /\ review[v].copy = "ACTIVE"

Decide(v) ==
    LET l == review[v].leave IN
    /\ Reviewing(v)
    /\ leave' = [leave EXCEPT ![l] = review[v].verdict]
    /\ IF TakesLeave(v)
         THEN /\ employee' = "ON_LEAVE"
              /\ onLeaveBy' = {l}
              /\ Disturbs(v)
         ELSE UNCHANGED <<employee, onLeaveBy, edited>>
    /\ takenBack' = IF review[v].verdict = "APPROVED" THEN takenBack \ {l}
                    ELSE takenBack \cup {x \in {l} : leave[x] = "APPROVED"}
    /\ review' = [review EXCEPT ![v] = NoReview]
    /\ UNCHANGED hrEdits

\* A review ends in 404, or dies: its transaction leaves nothing.
GivesUp(v) ==
    /\ Reviewing(v)
    /\ review' = [review EXCEPT ![v] = NoReview]
    /\ UNCHANGED <<employee, leave, hrEdits, edited, onLeaveBy, takenBack>>

\* EmployeesService.update: any status, over whatever is there.  It is the only way
\* back from ON_LEAVE.
SetStatus(status) ==
    /\ hrEdits < MaxHrEdits /\ hrEdits' = hrEdits + 1
    /\ employee' = status
    /\ onLeaveBy' = IF status = "ON_LEAVE" THEN {"HR"} ELSE {}
    /\ Disturbs("HR")
    /\ UNCHANGED <<leave, review, takenBack>>

TimeOffNext ==
    \/ \E l \in Requested : Ask(l)
    \/ \E v \in Reviewers :
          \/ Decide(v) \/ GivesUp(v)
          \/ \E l \in Requested, verdict \in Verdicts : ReadLeave(v, l, verdict)
    \/ \E s \in EmployeeStatus : SetStatus(s)

----------------------------------------------------------------------------
\* The type invariant.
TimeOffTypeOK ==
    /\ employee \in EmployeeStatus
    /\ leave \in [Requested -> Verdicts \cup {"none"}]
    /\ review \in [Reviewers -> [leave : Requested \cup {"none"},
                                 verdict : Verdicts \cup {"none"},
                                 copy : EmployeeStatus \cup {"none"}]]
    /\ hrEdits \in 0..MaxHrEdits /\ edited \in [Reviewers -> BOOLEAN]
    /\ takenBack \subseteq Requested /\ onLeaveBy \subseteq Requested \cup {"HR"}
    /\ (onLeaveBy # {}) = (employee = "ON_LEAVE")

\* leaves.service.ts:109: "leave status + employee status must be consistent".
\* What the transaction gives of it: an approval that nobody disturbed leaves no
\* ACTIVE employee behind, and brings back nobody who had left.
ApprovalIsConsistent ==
    [][\A v \in Reviewers : Decide(v) /\ ~edited[v] =>
          /\ review[v].verdict = "APPROVED" => employee' # "ACTIVE"
          /\ employee = "TERMINATED" => employee' = "TERMINATED"]_timeOffVars

\* An employee whom a review put on leave has that leave approved, or a later
\* review took the approval back: that one does not bring the employee back.
AbsenceIsApproved ==
    \A l \in onLeaveBy \ {"HR"} : leave[l] = "APPROVED" \/ l \in takenBack

\* Leaves and the employee's status agree as far as the transactions can make them.
AbsenceIsAccountedFor == []AbsenceIsApproved /\ ApprovalIsConsistent
=============================================================================
