------------------------------- MODULE Tickets -------------------------------
(***************************************************************************)
(* The life of one helpdesk ticket                                         *)
(* (helpdesk/tickets/tickets.service.ts), with the authorization checks of *)
(* ticket-authorization.service.ts and the notification rows of            *)
(* ticket-notifications.service.ts.                                        *)
(*                                                                         *)
(* A request loads the ticket outside any transaction, decides everything  *)
(* on that copy, and then writes in one transaction whose UPDATE names     *)
(* only the id.  Loading and committing are therefore separate steps, with *)
(* other requests between them.  assign and unassign also read the active  *)
(* assignments inside their transaction; the ticket row they update last   *)
(* serialises the write phases, so each write phase is one step.           *)
(*                                                                         *)
(* Who calls and with which arguments matters only to the writes, so it is *)
(* chosen when the transaction runs.  A duplicate row aborts a PostgreSQL  *)
(* transaction even where the code catches the error, so a transaction     *)
(* either inserts all its unique rows or leaves nothing behind.            *)
(***************************************************************************)
EXTENDS Integers, FiniteSets, TicketStateMachine

CONSTANTS
  Users,
  Agents, Admins,   \* by role; Admins stands for admin and superAdmin
  Overriders,       \* holders of helpdesk:close_override, and superAdmin
  Employees,        \* users with an active employee record
  Colleagues,       \* users of the client account the ticket belongs to
  Requester,
  AssignedAgent,    \* the routing rule's default agent, or None
  AutoAssignee,     \* the routing rule's autoAssignEmployeeId, or None
  TicketType,
  Requests,         \* HTTP requests in flight together
  RowIds,           \* uuids of assignment rows; rows inserted together share one
  None,
  \* Bounds of the model, not of the code:
  MaxReopens,
  MaxComments,
  MaxStale          \* commits decided on an outdated status

Staff == Agents \cup Admins

ASSUME TicketsAssumption ==
  /\ Agents \subseteq Users /\ Admins \subseteq Users /\ Overriders \subseteq Users
  /\ Employees \subseteq Users /\ Colleagues \subseteq Users
  /\ Requester \in Users
  /\ AssignedAgent \in Users \cup {None}
  /\ AutoAssignee \in Employees \cup {None}
  /\ TicketType \in TicketTypes
  /\ RowIds # {}
  /\ None \notin Users

VARIABLES
  \* The Ticket row
  status,             \* "ABSENT" before create
  submittedBy,        \* resolutionSubmittedById
  verifiedBy,
  closedBy,
  closeOverride,
  clientConfirmed,
  reopenCount,
  firstRespondedAt,   \* "null", its first value, or a later one
  comments,
  assignments,        \* active TicketAssignment rows: <<id, employee, type>>
  \* Unique rows that outlive the state they announced
  notified,           \* Notification: <<event type, user>>
  published,          \* OutboxEvent: the idempotency keys without a timestamp
  \* The requests in flight
  pc,
  seen,               \* the status loadVisibleTicket returned
  seenAssignees,      \* and the employees with an active assignment
  active,             \* the assignment rows the transaction read
  \* History
  stale               \* how many commits were decided on an outdated status

outcomeVars == <<submittedBy, verifiedBy, closedBy, closeOverride,
                 clientConfirmed, reopenCount>>
ticketVars  == <<status, outcomeVars, firstRespondedAt, comments,
                 assignments>>
rowVars     == <<notified, published>>
requestVars == <<pc, seen, seenAssignees, active>>
vars        == <<ticketVars, rowVars, requestVars, stale>>

Kinds     == {"PRIMARY", "SUPPORTING"}
Rows      == RowIds \X Employees \X Kinds
FixedKeys == {"ticket.closed", "ticket.cancelled", "ticket.client_confirmed", "ticket.assigned"}
Announced ==
  {"ticket.created", "ticket.assigned", "ticket.resolution_submitted",
   "ticket.resolved", "ticket.resolution_rejected", "ticket.reopened",
   "ticket.closed", "ticket.comment_added"}

TicketTypeOK ==
  /\ status \in TicketStatus \cup {"ABSENT"}
  /\ submittedBy \in Users \cup {None}
  /\ verifiedBy \in Users \cup {None}
  /\ closedBy \in Users \cup {None}
  /\ closeOverride \in BOOLEAN /\ clientConfirmed \in BOOLEAN
  /\ reopenCount \in Nat
  /\ firstRespondedAt \in {"null", "first", "later"}
  /\ comments \in Nat
  /\ assignments \subseteq Rows

RequestTypeOK ==
  /\ pc \in [Requests -> {"idle", "loaded", "tx"}]
  /\ seen \in [Requests -> TicketStatus \cup {"ABSENT"}]
  /\ seenAssignees \in [Requests -> SUBSET Employees]
  /\ active \in [Requests -> SUBSET Rows]

TypeOK ==
  /\ TicketTypeOK
  /\ RequestTypeOK
  /\ notified \subseteq Announced \X Users
  /\ published \subseteq FixedKeys
  /\ stale \in Nat

Init ==
  /\ status = "ABSENT"
  /\ submittedBy = None /\ verifiedBy = None /\ closedBy = None
  /\ closeOverride = FALSE /\ clientConfirmed = FALSE
  /\ reopenCount = 0
  /\ firstRespondedAt = "null"
  /\ comments = 0
  /\ assignments = {}
  /\ notified = {} /\ published = {}
  /\ pc = [r \in Requests |-> "idle"]
  /\ seen = [r \in Requests |-> "ABSENT"]
  /\ seenAssignees = [r \in Requests |-> {}]
  /\ active = [r \in Requests |-> {}]
  /\ stale = 0

-----------------------------------------------------------------------------
(* Who may do what, on the copy a request loaded.                          *)

EmployeesOf(A) == {row[2] : row \in A}
Primaries(A)   == {row \in A : row[3] = "PRIMARY"}

IsStaff(u)       == u \in Staff
IsRequester(u)   == u = Requester
IsAssignee(r, u) == u \in seenAssignees[r]

(* staffCapabilities and resolveAccess.                                    *)
RoleCapabilities(u) ==
  {c \in StaffCapabilities : \/ c = "agent" /\ u \in Agents
                             \/ c = "admin" /\ u \in Admins}
Capabilities(r, u) ==
  RoleCapabilities(u)
    \cup {c \in {"requester"} : IsRequester(u)}
    \cup {c \in {"assignee"} : IsAssignee(r, u)}

CanRead(r, u)             == IsStaff(u) \/ IsRequester(u) \/ IsAssignee(r, u) \/ u \in Colleagues
CanSubmitResolution(r, u) == IsStaff(u) \/ IsAssignee(r, u)
CanVerifyResolution(u)    == IsStaff(u)
CanReopen(r, u)           == \/ IsRequester(u) \/ IsStaff(u)
                             \/ IsAssignee(r, u) /\ seen[r] = "UNDER_VERIFICATION"
CanConfirm(u)             == IsRequester(u) \/ u \in Admins

(* assertCanClose without an override.  The access query does not select   *)
(* clientConfirmed, so a client ticket always looks unconfirmed here.      *)
StaffMayClose(u) == IsRequester(u) \/ IsStaff(u)                        \* mutant
CanClose(u) ==
  IF TicketType = "CLIENT_SUPPORT" THEN IsRequester(u) ELSE IsRequester(u) \/ IsStaff(u)

-----------------------------------------------------------------------------
(* Transactions.                                                           *)

(* resolveRecipients, read inside the transaction; createdBy is the        *)
(* requester.  Nobody is told of their own action.                         *)
SkipsRequester(actor, verifier, A) ==                                   \* mutant
  ({AssignedAgent, verifier} \cup EmployeesOf(A)) \ {None, actor}
SkipsAssignees(actor, verifier, A) ==                                   \* mutant
  {Requester, AssignedAgent, verifier} \ {None, actor}
KeepsEmpty(actor, verifier, A) ==                                       \* mutant
  ({Requester, AssignedAgent, verifier} \cup EmployeesOf(A)) \ {actor}
Recipients(actor, verifier, A) ==
  ({Requester, AssignedAgent, verifier} \cup EmployeesOf(A)) \ {None, actor}

Notices(event, actor, verifier, A) == {event} \X Recipients(actor, verifier, A)

Outdated(r) == seen[r] # status

(* The request is answered.                                                *)
End(r) ==
  /\ pc' = [pc EXCEPT ![r] = "idle"]
  /\ seen' = [seen EXCEPT ![r] = "ABSENT"]
  /\ seenAssignees' = [seenAssignees EXCEPT ![r] = {}]
  /\ active' = [active EXCEPT ![r] = {}]

(* uow.run: everything or nothing.                                         *)
Transact(r, allowed, notices, keys, writes) ==
  /\ Outdated(r) => stale < MaxStale
  /\ End(r)
  /\ IF allowed /\ notices \cap notified = {} /\ keys \cap published = {}
       THEN /\ writes
            /\ notified' = notified \cup notices
            /\ published' = published \cup keys
            /\ stale' = IF Outdated(r) THEN stale + 1 ELSE stale
       ELSE UNCHANGED <<ticketVars, rowVars, stale>>

StopsResponseClock == {"ASSIGNED", "IN_PROGRESS", "WAITING_FOR_CLIENT", "WAITING_FOR_EMPLOYEE"}

(* applyStatusChange: assertTransition on the loaded status ...            *)
Legal(r, u, to) == CanTransition(seen[r], to, Capabilities(r, u), TicketType)

(* ... and then an UPDATE by id.  No caller's copy carries                 *)
(* firstRespondedAt, so every qualifying change looks like the first.      *)
WriteStatus(to) ==
  /\ status' = to
  /\ firstRespondedAt' =
       IF to \notin StopsResponseClock THEN firstRespondedAt
       ELSE IF firstRespondedAt = "null" THEN "first" ELSE "later"

(* Both partial unique indexes of TicketAssignment.                        *)
FitsIndexes(A) ==
  /\ Cardinality(Primaries(A)) <= 1
  /\ \A x, y \in A : x[2] = y[2] => x = y

(* A row id that nothing refers to any more may stand for a new one.        *)
UsedRowIds == {row[1] : row \in assignments \cup UNION {active[r] : r \in Requests}}
UnusedRowIds == RowIds \ UsedRowIds
NewRowId == CHOOSE n \in UnusedRowIds : TRUE

-----------------------------------------------------------------------------
(* create, with the routing rule's auto-assignment in the same             *)
(* transaction: a requester without a staff role cannot take the ticket to *)
(* ASSIGNED, and then the whole creation is rolled back.                   *)
Create ==
  LET row == <<NewRowId, AutoAssignee, "PRIMARY">>
      created == Notices("ticket.created", Requester, None, {})
  IN
  /\ status = "ABSENT"
  /\ IF AutoAssignee = None
       THEN /\ WriteStatus("OPEN")
            /\ notified' = created
            /\ UNCHANGED <<assignments>>
       ELSE IF CanTransition("OPEN", "ASSIGNED", RoleCapabilities(Requester), TicketType)
         THEN /\ WriteStatus("ASSIGNED")
              /\ assignments' = {row}
              /\ notified' = created \cup Notices("ticket.assigned", Requester, None, {row})
         ELSE UNCHANGED <<status, firstRespondedAt, assignments, notified>>
  /\ UNCHANGED <<outcomeVars, comments, published, requestVars, stale>>

(* loadWithAccess.                                                         *)
Load(r) ==
  /\ pc[r] = "idle"
  /\ status # "ABSENT"
  /\ pc' = [pc EXCEPT ![r] = "loaded"]
  /\ seen' = [seen EXCEPT ![r] = status]
  /\ seenAssignees' = [seenAssignees EXCEPT ![r] = EmployeesOf(assignments)]
  /\ UNCHANGED <<ticketVars, rowVars, active, stale>>

(* The findMany at the start of the assign and unassign transactions.      *)
ReadActive(r) ==
  /\ pc[r] = "loaded"
  /\ pc' = [pc EXCEPT ![r] = "tx"]
  /\ active' = [active EXCEPT ![r] = assignments]
  /\ UNCHANGED <<ticketVars, rowVars, seen, seenAssignees, stale>>

(* A guard throws, or the process dies before the commit.                  *)
Refused(r) ==
  /\ pc[r] # "idle"
  /\ End(r)
  /\ UNCHANGED <<ticketVars, rowVars, stale>>

-----------------------------------------------------------------------------
(* Assignment.                                                             *)

(* The body of assign: at most one row per employee.                       *)
Incoming == {I \in SUBSET (Employees \X Kinds) : \A x, y \in I : x[1] = y[1] => x = y}

(* closeAssignments skips the rows that are no longer active; an incumbent *)
(* PRIMARY goes even when only supporting employees come in.               *)
Replaced(r, incoming, replaceAll) ==
  {row \in active[r] : \/ replaceAll
                       \/ row[3] = "PRIMARY"
                       \/ \E new \in incoming : new[1] = row[2]}

(* "when a primary now exists", says the comment; any new row will do.     *)
OnlyForPrimary(r, incoming) ==                                          \* mutant
  seen[r] = "OPEN" /\ \E new \in incoming : new[2] = "PRIMARY"
Advances(r, incoming) == seen[r] = "OPEN" /\ incoming # {}

(* The event key lists the new rows: without any it is the same each time. *)
AssignedKeys(incoming) == {k \in {"ticket.assigned"} : incoming = {}}

Assign(r, u, incoming, replaceAll) ==
  LET inserted == {<<NewRowId, new[1], new[2]>> : new \in incoming}
      kept     == assignments \ Replaced(r, incoming, replaceAll)
      after    == kept \cup inserted
      advances == Advances(r, incoming)
  IN
  /\ pc[r] = "tx"
  /\ UnusedRowIds # {}
  /\ IsStaff(u)
  /\ seen[r] \notin TERMINAL_STATUSES
  /\ incoming # {} \/ replaceAll
  /\ Transact(r,
       /\ FitsIndexes(after)
       /\ advances => CanTransition("OPEN", "ASSIGNED", RoleCapabilities(u), TicketType),
       Notices("ticket.assigned", u, verifiedBy, after),
       AssignedKeys(incoming),
       /\ IF advances THEN WriteStatus("ASSIGNED") ELSE UNCHANGED <<status, firstRespondedAt>>
       /\ assignments' = after
       /\ UNCHANGED <<outcomeVars, comments>>)

Unassign(r, u, e) ==
  LET targets   == {row \in active[r] : row[2] = e}
      leftAlone == Primaries(active[r] \ targets) # {}
      returns   == ~leftAlone /\ seen[r] = "ASSIGNED"
  IN
  /\ pc[r] = "tx"
  /\ IsStaff(u)
  /\ targets # {}
  /\ Transact(r,
       returns => Legal(r, u, "OPEN"),
       {}, {},
       /\ IF returns THEN WriteStatus("OPEN") ELSE UNCHANGED <<status, firstRespondedAt>>
       /\ assignments' = assignments \ targets
       /\ UNCHANGED <<outcomeVars, comments>>)

-----------------------------------------------------------------------------
(* The resolution and its verification.                                    *)

StartWork(r, u) ==
  /\ pc[r] = "loaded"
  /\ CanRead(r, u)
  /\ Transact(r, Legal(r, u, "IN_PROGRESS"), {}, {},
       /\ WriteStatus("IN_PROGRESS")
       /\ UNCHANGED <<outcomeVars, comments, assignments>>)

SubmitResolution(r, u) ==
  /\ pc[r] = "loaded"
  /\ CanSubmitResolution(r, u)
  /\ Transact(r, Legal(r, u, "RESOLUTION_SUBMITTED"),
       Notices("ticket.resolution_submitted", u, verifiedBy, assignments), {},
       /\ WriteStatus("RESOLUTION_SUBMITTED")
       /\ submittedBy' = u
       /\ UNCHANGED <<verifiedBy, closedBy, closeOverride, clientConfirmed,
                      reopenCount, comments, assignments>>)

KeepsVerifier(u) == UNCHANGED verifiedBy                                \* mutant
RecordVerifier(u) == verifiedBy' = u

(* verifyResolution with approved: two hops in one transaction, the second *)
(* from the row it has just written.                                       *)
Approve(r, u) ==
  /\ pc[r] = "loaded"
  /\ CanVerifyResolution(u)
  /\ seen[r] = "RESOLUTION_SUBMITTED"
  /\ Transact(r,
       /\ Legal(r, u, "UNDER_VERIFICATION")
       /\ CanTransition("UNDER_VERIFICATION", "RESOLVED", Capabilities(r, u), TicketType),
       Notices("ticket.resolved", u, u, assignments), {},
       /\ WriteStatus("RESOLVED")
       /\ RecordVerifier(u)
       /\ UNCHANGED <<submittedBy, closedBy, closeOverride, clientConfirmed,
                      reopenCount, comments, assignments>>)

(* verifyResolution with a rejection: one hop, from RESOLUTION_SUBMITTED.  *)
Reject(r, u) ==
  /\ pc[r] = "loaded"
  /\ CanVerifyResolution(u)
  /\ seen[r] = "RESOLUTION_SUBMITTED"
  /\ Transact(r, Legal(r, u, "IN_PROGRESS"),
       Notices("ticket.resolution_rejected", u, verifiedBy, assignments), {},
       /\ WriteStatus("IN_PROGRESS")
       /\ UNCHANGED <<outcomeVars, comments, assignments>>)

-----------------------------------------------------------------------------
(* The client's answer, closure and cancellation.                          *)

ClientConfirm(r, u) ==
  /\ pc[r] = "loaded"
  /\ seen[r] = "RESOLVED"
  /\ CanConfirm(u)
  /\ Transact(r, TRUE, {}, {"ticket.client_confirmed"},
       /\ clientConfirmed' = TRUE
       /\ UNCHANGED <<status, firstRespondedAt, submittedBy, verifiedBy, closedBy,
                      closeOverride, reopenCount, comments, assignments>>)

KeepsOutcome == UNCHANGED <<verifiedBy, clientConfirmed>>                \* mutant
ClearsOutcome == verifiedBy' = None /\ clientConfirmed' = FALSE

(* The event key ticket.reopened:<id>:<count> is new every time.           *)
Reopen(r, u) ==
  /\ pc[r] = "loaded"
  /\ reopenCount < MaxReopens
  /\ CanReopen(r, u)
  /\ Transact(r, Legal(r, u, "REOPENED"),
       Notices("ticket.reopened", u, None, assignments), {},
       /\ WriteStatus("REOPENED")
       /\ reopenCount' = reopenCount + 1
       /\ ClearsOutcome
       /\ UNCHANGED <<submittedBy, closedBy, closeOverride, comments,
                      assignments>>)

(* closeInternal.  An override leaves clientConfirmed as it is.            *)
CloseTicket(r, u, isOverride) ==
  /\ seen[r] = "RESOLVED"
  /\ Transact(r, Legal(r, u, "CLOSED"),
       Notices("ticket.closed", u, verifiedBy, assignments), {"ticket.closed"},
       /\ WriteStatus("CLOSED")
       /\ closedBy' = u
       /\ closeOverride' = isOverride
       /\ clientConfirmed' = (clientConfirmed \/ ~isOverride)
       /\ UNCHANGED <<submittedBy, verifiedBy, reopenCount, comments,
                      assignments>>)

Close(r, u) ==
  /\ pc[r] = "loaded"
  /\ CanClose(u)
  /\ CloseTicket(r, u, FALSE)

CloseWithOverride(r, u) ==
  /\ pc[r] = "loaded"
  /\ u \in Overriders
  /\ CloseTicket(r, u, TRUE)

Cancel(r, u) ==
  /\ pc[r] = "loaded"
  /\ seen[r] \notin TERMINAL_STATUSES
  /\ Transact(r, Legal(r, u, "CANCELLED"), {}, {"ticket.cancelled"},
       /\ WriteStatus("CANCELLED")
       /\ UNCHANGED <<outcomeVars, comments, assignments>>)

AddComment(r, u) ==
  /\ pc[r] = "loaded"
  /\ comments < MaxComments
  /\ CanRead(r, u)
  /\ seen[r] \notin TERMINAL_STATUSES
  /\ Transact(r, TRUE,
       Notices("ticket.comment_added", u, verifiedBy, assignments), {},
       /\ comments' = comments + 1
       /\ UNCHANGED <<status, firstRespondedAt, outcomeVars, assignments>>)

-----------------------------------------------------------------------------
Handle(r, u) ==
  \/ \E incoming \in Incoming, replaceAll \in BOOLEAN : Assign(r, u, incoming, replaceAll)
  \/ \E e \in Employees : Unassign(r, u, e)
  \/ StartWork(r, u)
  \/ SubmitResolution(r, u)
  \/ Approve(r, u)
  \/ Reject(r, u)
  \/ ClientConfirm(r, u)
  \/ Reopen(r, u)
  \/ Close(r, u)
  \/ CloseWithOverride(r, u)
  \/ Cancel(r, u)
  \/ AddComment(r, u)

Next ==
  \/ Create
  \/ \E r \in Requests : Load(r) \/ ReadActive(r) \/ Refused(r)
  \/ \E r \in Requests, u \in Users : Handle(r, u)

Spec == Init /\ [][Next]_vars

-----------------------------------------------------------------------------
(* The queue of OPEN tickets holds no assigned one, whichever of several   *)
(* racing assignments, removals and status changes commits first.          *)
QueueIsUnassigned == status = "OPEN" => assignments = {}

(* Nobody is put to work unawares: an active assignee who could not have   *)
(* assigned himself has his notification, from the assigning transaction.  *)
AssigneesAreTold ==
  \A row \in assignments : row[2] \notin Staff => <<"ticket.assigned", row[2]>> \in notified

(* However requests interleave, a RESOLVED ticket had a resolution         *)
(* submitted and was verified by staff: no stale write brings it back.     *)
ResolvedWasVerified ==
  status = "RESOLVED" => submittedBy # None /\ verifiedBy \in Staff

(* A closed ticket was closed by the override path and its permission, or  *)
(* carries the confirmation, which on a client ticket only the requester   *)
(* can give by closing.                                                    *)
ClosureIsAuthorised ==
  status = "CLOSED" =>
    IF closeOverride THEN closedBy \in Overriders
    ELSE /\ clientConfirmed
         /\ TicketType = "CLIENT_SUPPORT" => closedBy = Requester

(* The closing transaction carries its event and its notifications: a      *)
(* closed ticket is in the outbox, and its requester has been told unless  *)
(* the requester closed it.                                                *)
ClosureIsAnnounced ==
  status = "CLOSED" =>
    /\ "ticket.closed" \in published
    /\ closedBy # Requester => <<"ticket.closed", Requester>> \in notified

(* As long as no commit was decided on an outdated status: a closed ticket *)
(* still carries the verified resolution it was closed for, and a          *)
(* confirmation exists only for a resolution that still stands.            *)
OutcomeStands ==
  stale = 0 =>
    /\ status = "CLOSED" => submittedBy # None /\ verifiedBy \in Staff
    /\ clientConfirmed => status \in {"RESOLVED", "CLOSED"}

=============================================================================
