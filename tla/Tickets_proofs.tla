---------------------------- MODULE Tickets_proofs ----------------------------
(***************************************************************************)
(* Proofs about Tickets, for any users, roles, ticket and number of        *)
(* concurrent requests.                                                    *)
(*                                                                         *)
(* A transaction either leaves the database as it was (QuietStep) or       *)
(* writes; what a write may do to the status is read off the transition    *)
(* table (Edges).  The invariants need two facts about the stale copies    *)
(* requests hold: while the ticket is OPEN no request has seen anything    *)
(* else, and a copy that says RESOLUTION_SUBMITTED proves that a           *)
(* resolution was submitted.                                               *)
(***************************************************************************)
EXTENDS Tickets, TLAPS

(* What requests in flight can still believe.                              *)
CopiesOK ==
  /\ status = "ABSENT" => assignments = {} /\ notified = {}
  /\ status = "ABSENT" => \A r \in Requests : pc[r] = "idle" /\ active[r] = {}
  /\ status = "OPEN" => \A r \in Requests : pc[r] # "idle" => seen[r] = "OPEN"
  /\ status = "RESOLUTION_SUBMITTED" => submittedBy # None
  /\ \A r \in Requests : seen[r] = "RESOLUTION_SUBMITTED" => submittedBy # None

Safe ==
  /\ QueueIsUnassigned
  /\ AssigneesAreTold
  /\ ResolvedWasVerified
  /\ ClosureIsAuthorised
  /\ ClosureIsAnnounced
  /\ OutcomeStands

IInv == TypeOK /\ CopiesOK /\ Safe

(* The database as a rolled-back transaction leaves it.                    *)
Untouched == UNCHANGED <<ticketVars, rowVars, stale>>

-----------------------------------------------------------------------------
(* The transition table: nothing returns to OPEN, nothing leaves a         *)
(* terminal status, and RESOLVED is left only for CLOSED or REOPENED.      *)
LEMMA Edges ==
  ASSUME NEW from, NEW to, NEW c, NEW t, CanTransition(from, to, c, t)
  PROVE  /\ to \in TicketStatus /\ to # "OPEN"
         /\ from \notin TERMINAL_STATUSES
         /\ from = "RESOLVED" => to \in {"CLOSED", "REOPENED"}
<1>1. <<from, to>> \in TICKET_TRANSITIONS
  BY DEF CanTransition
<1>2. CASE <<from, to>> \in StaffEdges
  BY <1>2 DEF StaffEdges, TicketStatus, TERMINAL_STATUSES
<1>3. CASE <<from, to>> \in RequesterEdges
  BY <1>3 DEF RequesterEdges, TicketStatus, TERMINAL_STATUSES
<1>4. CASE <<from, to>> \in AssigneeEdges
  BY <1>4 DEF AssigneeEdges, TicketStatus, TERMINAL_STATUSES
<1> QED
  BY <1>1, <1>2, <1>3, <1>4 DEF TICKET_TRANSITIONS

(* Only staff takes a ticket from OPEN to ASSIGNED.                        *)
LEMMA StaffTakesStaffEdge ==
  ASSUME NEW u, CanTransition("OPEN", "ASSIGNED", RoleCapabilities(u), TicketType)
  PROVE  IsStaff(u)
<1>1. <<"OPEN", "ASSIGNED">> \notin RequesterEdges \cup AssigneeEdges
  BY DEF RequesterEdges, AssigneeEdges
<1>2. RoleCapabilities(u) \cap StaffCapabilities # {}
  BY <1>1 DEF CanTransition, Permits
<1> QED
  BY <1>2 DEF RoleCapabilities, IsStaff, Staff

(* Notifications name known events and users, and reach every recipient    *)
(* but the actor.                                                          *)
LEMMA NoticesReach ==
  ASSUME NEW event \in Announced, NEW actor, NEW verifier \in Users \cup {None},
         NEW A \in SUBSET Rows
  PROVE  /\ Notices(event, actor, verifier, A) \subseteq Announced \X Users
         /\ actor # Requester => <<event, Requester>> \in Notices(event, actor, verifier, A)
         /\ \A row \in A : row[2] # actor =>
              <<event, row[2]>> \in Notices(event, actor, verifier, A)
<1>0. Employees \subseteq Users /\ Requester \in Users /\ AssignedAgent \in Users \cup {None}
      /\ None \notin Users
  BY TicketsAssumption DEF TicketsAssumption
<1>1. \A row \in A : row[2] \in Employees
  BY DEF Rows
<1>2. EmployeesOf(A) \subseteq Users
  BY <1>0, <1>1 DEF EmployeesOf
<1>3. Recipients(actor, verifier, A) \subseteq Users
  BY <1>0, <1>2 DEF Recipients
<1>4. \A row \in A : row[2] # actor => row[2] \in Recipients(actor, verifier, A)
  BY <1>0, <1>1 DEF Recipients, EmployeesOf
<1>5. actor # Requester => Requester \in Recipients(actor, verifier, A)
  BY <1>0 DEF Recipients
<1> QED
  BY <1>3, <1>4, <1>5 DEF Notices

(* Answering a request leaves the copies of the others as they were.       *)
LEMMA EndStep ==
  ASSUME NEW r \in Requests, RequestTypeOK, End(r)
  PROVE  /\ RequestTypeOK'
         /\ \A q \in Requests : /\ pc'[q] # "idle" => pc[q] # "idle" /\ seen'[q] = seen[q]
                                /\ seen'[q] \in {seen[q], "ABSENT"}
                                /\ active'[q] \in {active[q], {}}
BY DEF RequestTypeOK, End

(* A step that leaves the database alone and, at most, answers a request.  *)
LEMMA QuietStep ==
  ASSUME IInv, NEW r \in Requests, End(r), Untouched
  PROVE  IInv'
<1>1. RequestTypeOK'
      /\ \A q \in Requests : /\ pc'[q] # "idle" => pc[q] # "idle" /\ seen'[q] = seen[q]
                             /\ seen'[q] \in {seen[q], "ABSENT"}
                             /\ active'[q] \in {active[q], {}}
  BY EndStep DEF IInv, TypeOK
<1>2. TypeOK'
  BY <1>1 DEF IInv, TypeOK, TicketTypeOK, Untouched, ticketVars, outcomeVars, rowVars
<1>3. CopiesOK'
  BY <1>1 DEF IInv, CopiesOK, Untouched, ticketVars, outcomeVars, rowVars
<1>4. Safe'
  BY DEF IInv, Safe, Untouched, ticketVars, outcomeVars, rowVars, QueueIsUnassigned,
         AssigneesAreTold, ResolvedWasVerified, ClosureIsAuthorised, ClosureIsAnnounced,
         OutcomeStands
<1> QED
  BY <1>2, <1>3, <1>4 DEF IInv

-----------------------------------------------------------------------------
(* What every committing transaction has in common.                        *)
Committed(r, notices, keys) ==
  /\ pc[r] # "idle"
  /\ End(r)
  /\ notified' = notified \cup notices
  /\ published' = published \cup keys
  /\ stale' = IF Outdated(r) THEN stale + 1 ELSE stale

(* Unique rows only accumulate, and a history without stale commits means  *)
(* that this one was decided on the current status too.                    *)
LEMMA CommitRows ==
  ASSUME TypeOK, NEW r \in Requests, NEW notices, NEW keys,
         Committed(r, notices, keys),
         notices \subseteq Announced \X Users, keys \subseteq FixedKeys
  PROVE  /\ notified' \subseteq Announced \X Users /\ notified \subseteq notified'
         /\ notices \subseteq notified'
         /\ published' \subseteq FixedKeys /\ published \subseteq published'
         /\ stale' \in Nat
         /\ stale' = 0 => stale = 0 /\ seen[r] = status
BY DEF TypeOK, Committed, Outdated

(* The copies of the other requests stay sound when the status moves on.   *)
LEMMA CommitCopies ==
  ASSUME IInv, NEW r \in Requests, pc[r] # "idle", End(r),
         status' \in TicketStatus,
         status' = "OPEN" => status = "OPEN",
         submittedBy' = submittedBy \/ submittedBy' \in Users,
         status' = "RESOLUTION_SUBMITTED" => status' = status \/ submittedBy' \in Users
  PROVE  RequestTypeOK' /\ CopiesOK'
<1>1. RequestTypeOK'
      /\ \A q \in Requests : /\ pc'[q] # "idle" => pc[q] # "idle" /\ seen'[q] = seen[q]
                             /\ seen'[q] \in {seen[q], "ABSENT"}
                             /\ active'[q] \in {active[q], {}}
  BY EndStep DEF IInv, TypeOK
<1>2. status' # "ABSENT"
  BY DEF TicketStatus
<1>3. \A x \in Users : x # None
  BY TicketsAssumption DEF TicketsAssumption
<1>4. (status' = "RESOLUTION_SUBMITTED" => submittedBy' # None)
      /\ (submittedBy # None => submittedBy' # None)
  BY <1>3 DEF IInv, CopiesOK
<1> QED
  BY <1>1, <1>2, <1>4 DEF IInv, CopiesOK

(* A request in flight was let in after the ticket existed.                *)
LEMMA InFlight ==
  ASSUME IInv, NEW r \in Requests, pc[r] # "idle"
  PROVE  status \in TicketStatus
BY DEF IInv, TypeOK, TicketTypeOK, CopiesOK

-----------------------------------------------------------------------------
(* The operations, one by one.                                             *)

(* startWork, from a status that is neither RESOLVED nor CLOSED.           *)
LEMMA StartWorkStep ==
  ASSUME IInv, NEW r \in Requests, NEW u \in Users, StartWork(r, u)
  PROVE  IInv'
<1>1. CASE Untouched
  BY <1>1, QuietStep DEF StartWork, Transact
<1>2. CASE ~Untouched
  <2>1. /\ Committed(r, {}, {})
        /\ CanTransition(seen[r], "IN_PROGRESS", Capabilities(r, u), TicketType)
        /\ WriteStatus("IN_PROGRESS")
        /\ UNCHANGED <<outcomeVars, comments, assignments>>
    BY <1>2 DEF StartWork, Transact, Committed, Untouched, Legal
  <2>2. RequestTypeOK' /\ CopiesOK'
    BY <2>1, CommitCopies DEF Committed, WriteStatus, outcomeVars, TicketStatus
  <2>3. /\ notified' \subseteq Announced \X Users /\ notified \subseteq notified'
        /\ published' \subseteq FixedKeys
        /\ stale' \in Nat
        /\ stale' = 0 => stale = 0 /\ seen[r] = status
    BY <2>1, CommitRows DEF IInv
  <2>4. seen[r] \notin {"RESOLVED", "CLOSED"}
    BY <2>1, Edges DEF TERMINAL_STATUSES
  <2>5. TypeOK'
    BY <2>1, <2>2, <2>3 DEF IInv, TypeOK, TicketTypeOK, WriteStatus, outcomeVars, TicketStatus
  <2>6. Safe'
    BY <2>1, <2>3, <2>4 DEF IInv, Safe, WriteStatus, outcomeVars, QueueIsUnassigned,
       AssigneesAreTold, ResolvedWasVerified, ClosureIsAuthorised, ClosureIsAnnounced,
       OutcomeStands
  <2> QED
    BY <2>2, <2>5, <2>6 DEF IInv
<1> QED
  BY <1>1, <1>2

(* submitResolution leaves a submitter, for the copies to come.            *)
LEMMA SubmitResolutionStep ==
  ASSUME IInv, NEW r \in Requests, NEW u \in Users, SubmitResolution(r, u)
  PROVE  IInv'
<1>1. CASE Untouched
  BY <1>1, QuietStep DEF SubmitResolution, Transact
<1>2. CASE ~Untouched
  <2> DEFINE N == Notices("ticket.resolution_submitted", u, verifiedBy, assignments)
  <2>1. /\ Committed(r, N, {})
        /\ CanTransition(seen[r], "RESOLUTION_SUBMITTED", Capabilities(r, u), TicketType)
        /\ WriteStatus("RESOLUTION_SUBMITTED")
        /\ submittedBy' = u
        /\ UNCHANGED <<verifiedBy, closedBy, closeOverride, clientConfirmed,
                       reopenCount, comments, assignments>>
    BY <1>2 DEF SubmitResolution, Transact, Committed, Untouched, Legal
  <2>2. /\ N \subseteq Announced \X Users
        /\ u # Requester => <<"ticket.resolution_submitted", Requester>> \in N
    <3>1. /\ "ticket.resolution_submitted" \in Announced /\ verifiedBy \in Users \cup {None}
          /\ assignments \in SUBSET Rows
      BY DEF Announced, IInv, TypeOK, TicketTypeOK
    <3> QED
      BY <3>1, NoticesReach
  <2> HIDE DEF N
  <2>3. /\ notified' \subseteq Announced \X Users /\ notified \subseteq notified'
        /\ N \subseteq notified'
        /\ published' \subseteq FixedKeys /\ published \subseteq published'
        /\ stale' \in Nat
        /\ stale' = 0 => stale = 0 /\ seen[r] = status
    <3>1. N \subseteq Announced \X Users /\ {} \subseteq FixedKeys
      BY <2>2
    <3> QED
      BY <2>1, <3>1, CommitRows DEF IInv
  <2>4. RequestTypeOK' /\ CopiesOK'
    BY <2>1, CommitCopies DEF Committed, WriteStatus, outcomeVars, TicketStatus
  <2>5. seen[r] \notin {"RESOLVED", "CLOSED"}
    BY <2>1, Edges DEF TERMINAL_STATUSES
  <2>6. TypeOK'
    BY <2>1, <2>3, <2>4 DEF IInv, TypeOK, TicketTypeOK, WriteStatus, outcomeVars, TicketStatus
  <2>7. Safe'
    BY <2>1, <2>2, <2>3, <2>5, TicketsAssumption DEF IInv, Safe, WriteStatus, outcomeVars,
       QueueIsUnassigned, AssigneesAreTold, ResolvedWasVerified, ClosureIsAuthorised,
       ClosureIsAnnounced, OutcomeStands
  <2> QED
    BY <2>4, <2>6, <2>7 DEF IInv
<1> QED
  BY <1>1, <1>2

(* An approval: the copy proves that a resolution was submitted.           *)
LEMMA ApproveStep ==
  ASSUME IInv, NEW r \in Requests, NEW u \in Users, Approve(r, u)
  PROVE  IInv'
<1>1. CASE Untouched
  BY <1>1, QuietStep DEF Approve, Transact
<1>2. CASE ~Untouched
  <2> DEFINE N == Notices("ticket.resolved", u, u, assignments)
  <2>1. /\ Committed(r, N, {})
        /\ IsStaff(u) /\ seen[r] = "RESOLUTION_SUBMITTED"
        /\ WriteStatus("RESOLVED")
        /\ RecordVerifier(u)
        /\ UNCHANGED <<submittedBy, closedBy, closeOverride, clientConfirmed,
                       reopenCount, comments, assignments>>
    BY <1>2 DEF Approve, Transact, Committed, Untouched, Legal, CanVerifyResolution
  <2>2. /\ N \subseteq Announced \X Users
        /\ u # Requester => <<"ticket.resolved", Requester>> \in N
    <3>1. /\ "ticket.resolved" \in Announced /\ u \in Users \cup {None}
          /\ assignments \in SUBSET Rows
      BY DEF Announced, IInv, TypeOK, TicketTypeOK
    <3> QED
      BY <3>1, NoticesReach
  <2> HIDE DEF N
  <2>3. /\ notified' \subseteq Announced \X Users /\ notified \subseteq notified'
        /\ N \subseteq notified'
        /\ published' \subseteq FixedKeys /\ published \subseteq published'
        /\ stale' \in Nat
        /\ stale' = 0 => stale = 0 /\ seen[r] = status
    <3>1. N \subseteq Announced \X Users /\ {} \subseteq FixedKeys
      BY <2>2
    <3> QED
      BY <2>1, <3>1, CommitRows DEF IInv
  <2>4. RequestTypeOK' /\ CopiesOK'
    BY <2>1, CommitCopies DEF Committed, WriteStatus, outcomeVars, TicketStatus, RecordVerifier
  <2>5. submittedBy # None /\ seen[r] \notin {"RESOLVED", "CLOSED"} /\ u \in Staff
    BY <2>1 DEF IInv, CopiesOK, IsStaff
  <2>6. TypeOK'
    BY <2>1, <2>3, <2>4 DEF IInv, TypeOK, TicketTypeOK, WriteStatus, outcomeVars,
       TicketStatus, RecordVerifier
  <2>7. Safe'
    BY <2>1, <2>2, <2>3, <2>5, TicketsAssumption DEF IInv, Safe, WriteStatus, outcomeVars,
       QueueIsUnassigned, AssigneesAreTold, ResolvedWasVerified, ClosureIsAuthorised,
       ClosureIsAnnounced, OutcomeStands, RecordVerifier
  <2> QED
    BY <2>4, <2>6, <2>7 DEF IInv
<1> QED
  BY <1>1, <1>2

(* A rejection, should the table ever admit one.                           *)
LEMMA RejectStep ==
  ASSUME IInv, NEW r \in Requests, NEW u \in Users, Reject(r, u)
  PROVE  IInv'
<1>1. CASE Untouched
  BY <1>1, QuietStep DEF Reject, Transact
<1>2. CASE ~Untouched
  <2> DEFINE N == Notices("ticket.resolution_rejected", u, verifiedBy, assignments)
  <2>1. /\ Committed(r, N, {})
        /\ CanTransition(seen[r], "IN_PROGRESS", Capabilities(r, u), TicketType)
        /\ WriteStatus("IN_PROGRESS")
        /\ UNCHANGED <<outcomeVars, comments, assignments>>
    BY <1>2 DEF Reject, Transact, Committed, Untouched, Legal
  <2>2. /\ N \subseteq Announced \X Users
        /\ u # Requester => <<"ticket.resolution_rejected", Requester>> \in N
    <3>1. /\ "ticket.resolution_rejected" \in Announced /\ verifiedBy \in Users \cup {None}
          /\ assignments \in SUBSET Rows
      BY DEF Announced, IInv, TypeOK, TicketTypeOK
    <3> QED
      BY <3>1, NoticesReach
  <2> HIDE DEF N
  <2>3. /\ notified' \subseteq Announced \X Users /\ notified \subseteq notified'
        /\ N \subseteq notified'
        /\ published' \subseteq FixedKeys /\ published \subseteq published'
        /\ stale' \in Nat
        /\ stale' = 0 => stale = 0 /\ seen[r] = status
    <3>1. N \subseteq Announced \X Users /\ {} \subseteq FixedKeys
      BY <2>2
    <3> QED
      BY <2>1, <3>1, CommitRows DEF IInv
  <2>4. RequestTypeOK' /\ CopiesOK'
    BY <2>1, CommitCopies DEF Committed, WriteStatus, outcomeVars, TicketStatus
  <2>5. seen[r] \notin {"RESOLVED", "CLOSED"}
    BY <2>1, Edges DEF TERMINAL_STATUSES
  <2>6. TypeOK'
    BY <2>1, <2>3, <2>4 DEF IInv, TypeOK, TicketTypeOK, WriteStatus, outcomeVars, TicketStatus
  <2>7. Safe'
    BY <2>1, <2>2, <2>3, <2>5, TicketsAssumption DEF IInv, Safe, WriteStatus, outcomeVars,
       QueueIsUnassigned, AssigneesAreTold, ResolvedWasVerified, ClosureIsAuthorised,
       ClosureIsAnnounced, OutcomeStands
  <2> QED
    BY <2>4, <2>6, <2>7 DEF IInv
<1> QED
  BY <1>1, <1>2

(* A confirmation of a resolution that, unless the copy is old, stands.    *)
LEMMA ClientConfirmStep ==
  ASSUME IInv, NEW r \in Requests, NEW u \in Users, ClientConfirm(r, u)
  PROVE  IInv'
<1>1. CASE Untouched
  BY <1>1, QuietStep DEF ClientConfirm, Transact
<1>2. CASE ~Untouched
  <2> DEFINE K == {"ticket.client_confirmed"}
  <2>1. /\ Committed(r, {}, K)
        /\ seen[r] = "RESOLVED"
        /\ clientConfirmed' = TRUE
        /\ UNCHANGED <<status, firstRespondedAt, submittedBy, verifiedBy, closedBy,
                       closeOverride, reopenCount, comments, assignments>>
    BY <1>2 DEF ClientConfirm, Transact, Committed, Untouched, Legal
  <2>2. K \subseteq FixedKeys
    BY DEF FixedKeys
  <2> HIDE DEF K
  <2>3. /\ notified' \subseteq Announced \X Users /\ notified \subseteq notified'
        /\ published' \subseteq FixedKeys /\ K \subseteq published' /\ published \subseteq published'
        /\ stale' \in Nat
        /\ stale' = 0 => stale = 0 /\ seen[r] = status
    <3>1. {} \subseteq Announced \X Users /\ K \subseteq FixedKeys
      BY <2>2
    <3> QED
      BY <2>1, <3>1 DEF IInv, TypeOK, Committed, Outdated
  <2>4. RequestTypeOK' /\ CopiesOK'
    BY <2>1, CommitCopies, InFlight DEF Committed, WriteStatus, outcomeVars, TicketStatus
  <2>5. TypeOK'
    BY <2>1, <2>3, <2>4 DEF IInv, TypeOK, TicketTypeOK, WriteStatus, outcomeVars, TicketStatus
  <2>6. Safe'
    BY <2>1, <2>2, <2>3, TicketsAssumption DEF IInv, Safe, WriteStatus, outcomeVars,
       QueueIsUnassigned, AssigneesAreTold, ResolvedWasVerified, ClosureIsAuthorised,
       ClosureIsAnnounced, OutcomeStands
  <2> QED
    BY <2>4, <2>5, <2>6 DEF IInv
<1> QED
  BY <1>1, <1>2

(* reopen forgets the verifier and the confirmation with the status.       *)
LEMMA ReopenStep ==
  ASSUME IInv, NEW r \in Requests, NEW u \in Users, Reopen(r, u)
  PROVE  IInv'
<1>1. CASE Untouched
  BY <1>1, QuietStep DEF Reopen, Transact
<1>2. CASE ~Untouched
  <2> DEFINE N == Notices("ticket.reopened", u, None, assignments)
  <2>1. /\ Committed(r, N, {})
        /\ CanTransition(seen[r], "REOPENED", Capabilities(r, u), TicketType)
        /\ WriteStatus("REOPENED")
        /\ reopenCount' = reopenCount + 1
        /\ ClearsOutcome
        /\ UNCHANGED <<submittedBy, closedBy, closeOverride, comments, assignments>>
    BY <1>2 DEF Reopen, Transact, Committed, Untouched, Legal
  <2>2. /\ N \subseteq Announced \X Users
        /\ u # Requester => <<"ticket.reopened", Requester>> \in N
    <3>1. /\ "ticket.reopened" \in Announced /\ None \in Users \cup {None}
          /\ assignments \in SUBSET Rows
      BY DEF Announced, IInv, TypeOK, TicketTypeOK
    <3> QED
      BY <3>1, NoticesReach
  <2> HIDE DEF N
  <2>3. /\ notified' \subseteq Announced \X Users /\ notified \subseteq notified'
        /\ N \subseteq notified'
        /\ published' \subseteq FixedKeys /\ published \subseteq published'
        /\ stale' \in Nat
        /\ stale' = 0 => stale = 0 /\ seen[r] = status
    <3>1. N \subseteq Announced \X Users /\ {} \subseteq FixedKeys
      BY <2>2
    <3> QED
      BY <2>1, <3>1, CommitRows DEF IInv
  <2>4. RequestTypeOK' /\ CopiesOK'
    BY <2>1, CommitCopies DEF Committed, WriteStatus, outcomeVars, TicketStatus, ClearsOutcome
  <2>5. reopenCount' \in Nat /\ verifiedBy' = None /\ clientConfirmed' = FALSE
    BY <2>1 DEF IInv, TypeOK, TicketTypeOK, ClearsOutcome
  <2>6. TypeOK'
    BY <2>1, <2>3, <2>4, <2>5 DEF IInv, TypeOK, TicketTypeOK, WriteStatus, outcomeVars,
       TicketStatus, ClearsOutcome
  <2>7. Safe'
    BY <2>1, <2>2, <2>3, TicketsAssumption DEF IInv, Safe, WriteStatus, outcomeVars,
       QueueIsUnassigned, AssigneesAreTold, ResolvedWasVerified, ClosureIsAuthorised,
       ClosureIsAnnounced, OutcomeStands, ClearsOutcome
  <2> QED
    BY <2>4, <2>6, <2>7 DEF IInv
<1> QED
  BY <1>1, <1>2

(* cancel, from a status that is neither RESOLVED nor CLOSED.              *)
LEMMA CancelStep ==
  ASSUME IInv, NEW r \in Requests, NEW u \in Users, Cancel(r, u)
  PROVE  IInv'
<1>1. CASE Untouched
  BY <1>1, QuietStep DEF Cancel, Transact
<1>2. CASE ~Untouched
  <2> DEFINE K == {"ticket.cancelled"}
  <2>1. /\ Committed(r, {}, K)
        /\ CanTransition(seen[r], "CANCELLED", Capabilities(r, u), TicketType)
        /\ WriteStatus("CANCELLED")
        /\ UNCHANGED <<outcomeVars, comments, assignments>>
    BY <1>2 DEF Cancel, Transact, Committed, Untouched, Legal
  <2>2. K \subseteq FixedKeys
    BY DEF FixedKeys
  <2> HIDE DEF K
  <2>3. /\ notified' \subseteq Announced \X Users /\ notified \subseteq notified'
        /\ published' \subseteq FixedKeys /\ K \subseteq published'
        /\ stale' \in Nat
        /\ stale' = 0 => stale = 0 /\ seen[r] = status
    <3>1. {} \subseteq Announced \X Users /\ K \subseteq FixedKeys
      BY <2>2
    <3> QED
      BY <2>1, <3>1 DEF IInv, TypeOK, Committed, Outdated
  <2>4. RequestTypeOK' /\ CopiesOK'
    BY <2>1, CommitCopies DEF Committed, WriteStatus, outcomeVars, TicketStatus
  <2>5. seen[r] \notin {"RESOLVED", "CLOSED"}
    BY <2>1, Edges DEF TERMINAL_STATUSES
  <2>6. TypeOK'
    BY <2>1, <2>3, <2>4 DEF IInv, TypeOK, TicketTypeOK, WriteStatus, outcomeVars, TicketStatus
  <2>7. Safe'
    BY <2>1, <2>2, <2>3, <2>5, TicketsAssumption DEF IInv, Safe, WriteStatus, outcomeVars,
       QueueIsUnassigned, AssigneesAreTold, ResolvedWasVerified, ClosureIsAuthorised,
       ClosureIsAnnounced, OutcomeStands
  <2> QED
    BY <2>4, <2>6, <2>7 DEF IInv
<1> QED
  BY <1>1, <1>2

(* addComment touches the comments and the notifications alone.            *)
LEMMA AddCommentStep ==
  ASSUME IInv, NEW r \in Requests, NEW u \in Users, AddComment(r, u)
  PROVE  IInv'
<1>1. CASE Untouched
  BY <1>1, QuietStep DEF AddComment, Transact
<1>2. CASE ~Untouched
  <2> DEFINE N == Notices("ticket.comment_added", u, verifiedBy, assignments)
  <2>1. /\ Committed(r, N, {})
        /\ comments' = comments + 1
        /\ UNCHANGED <<status, firstRespondedAt, outcomeVars, assignments>>
    BY <1>2 DEF AddComment, Transact, Committed, Untouched, Legal
  <2>2. /\ N \subseteq Announced \X Users
        /\ u # Requester => <<"ticket.comment_added", Requester>> \in N
    <3>1. /\ "ticket.comment_added" \in Announced /\ verifiedBy \in Users \cup {None}
          /\ assignments \in SUBSET Rows
      BY DEF Announced, IInv, TypeOK, TicketTypeOK
    <3> QED
      BY <3>1, NoticesReach
  <2> HIDE DEF N
  <2>3. /\ notified' \subseteq Announced \X Users /\ notified \subseteq notified'
        /\ N \subseteq notified'
        /\ published' \subseteq FixedKeys /\ published \subseteq published'
        /\ stale' \in Nat
        /\ stale' = 0 => stale = 0 /\ seen[r] = status
    <3>1. N \subseteq Announced \X Users /\ {} \subseteq FixedKeys
      BY <2>2
    <3> QED
      BY <2>1, <3>1, CommitRows DEF IInv
  <2>4. RequestTypeOK' /\ CopiesOK'
    BY <2>1, CommitCopies, InFlight DEF Committed, WriteStatus, outcomeVars, TicketStatus
  <2>5. TypeOK'
    BY <2>1, <2>3, <2>4 DEF IInv, TypeOK, TicketTypeOK, WriteStatus, outcomeVars, TicketStatus
  <2>6. Safe'
    BY <2>1, <2>2, <2>3, TicketsAssumption DEF IInv, Safe, WriteStatus, outcomeVars,
       QueueIsUnassigned, AssigneesAreTold, ResolvedWasVerified, ClosureIsAuthorised,
       ClosureIsAnnounced, OutcomeStands
  <2> QED
    BY <2>4, <2>5, <2>6 DEF IInv
<1> QED
  BY <1>1, <1>2

(* Both ways of closing; the caller's permission is what they differ in.   *)
LEMMA CloseTicketStep ==
  ASSUME IInv, NEW r \in Requests, NEW u \in Users, NEW isOverride \in BOOLEAN,
         pc[r] # "idle", CloseTicket(r, u, isOverride),
         isOverride => u \in Overriders,
         ~isOverride => CanClose(u)
  PROVE  IInv'
<1>1. CASE Untouched
  BY <1>1, QuietStep DEF CloseTicket, Transact
<1>2. CASE ~Untouched
  <2> DEFINE N == Notices("ticket.closed", u, verifiedBy, assignments)
             K == {"ticket.closed"}
  <2>1. /\ Committed(r, N, K)
        /\ seen[r] = "RESOLVED"
        /\ WriteStatus("CLOSED")
        /\ closedBy' = u
        /\ closeOverride' = isOverride
        /\ clientConfirmed' = (clientConfirmed \/ ~isOverride)
        /\ UNCHANGED <<submittedBy, verifiedBy, reopenCount, comments, assignments>>
    BY <1>2 DEF CloseTicket, Transact, Committed, Untouched
  <2>2. /\ N \subseteq Announced \X Users
        /\ u # Requester => <<"ticket.closed", Requester>> \in N
    <3>1. /\ "ticket.closed" \in Announced /\ verifiedBy \in Users \cup {None}
          /\ assignments \in SUBSET Rows
      BY DEF Announced, IInv, TypeOK, TicketTypeOK
    <3> QED
      BY <3>1, NoticesReach
  <2>3. K \subseteq FixedKeys /\ "ticket.closed" \in K
    BY DEF FixedKeys
  <2> HIDE DEF N, K
  <2>4. /\ notified' \subseteq Announced \X Users /\ notified \subseteq notified'
        /\ N \subseteq notified'
        /\ published' \subseteq FixedKeys /\ K \subseteq published'
        /\ stale' \in Nat
        /\ stale' = 0 => stale = 0 /\ seen[r] = status
    BY <2>1, <2>2, <2>3 DEF IInv, TypeOK, Committed, Outdated
  <2>5. RequestTypeOK' /\ CopiesOK'
    BY <2>1, CommitCopies DEF Committed, WriteStatus, TicketStatus
  <2>6. TypeOK'
    <3>1. TicketTypeOK'
      BY <2>1 DEF IInv, TypeOK, TicketTypeOK, WriteStatus, TicketStatus
    <3> QED
      BY <2>4, <2>5, <3>1 DEF TypeOK
  <2>7. closeOverride' => closedBy' \in Overriders
    BY <2>1
  <2>8. ~closeOverride' =>
          clientConfirmed' /\ (TicketType = "CLIENT_SUPPORT" => closedBy' = Requester)
    BY <2>1 DEF CanClose, IsRequester
  <2>9. QueueIsUnassigned' /\ AssigneesAreTold' /\ ResolvedWasVerified'
    BY <2>1, <2>4 DEF IInv, Safe, WriteStatus, QueueIsUnassigned, AssigneesAreTold,
       ResolvedWasVerified
  <2>10. ClosureIsAuthorised'
    BY <2>7, <2>8 DEF ClosureIsAuthorised
  <2>11. ClosureIsAnnounced'
    BY <2>1, <2>2, <2>3, <2>4 DEF ClosureIsAnnounced
  <2>12. OutcomeStands'
    BY <2>1, <2>4 DEF IInv, Safe, OutcomeStands, ResolvedWasVerified, WriteStatus
  <2> QED
    BY <2>5, <2>6, <2>9, <2>10, <2>11, <2>12 DEF IInv, Safe
<1> QED
  BY <1>1, <1>2

(* close needs CanClose, close-override its permission.                    *)
LEMMA CloseStep ==
  ASSUME IInv, NEW r \in Requests, NEW u \in Users, Close(r, u)
  PROVE  IInv'
BY CloseTicketStep DEF Close

LEMMA CloseWithOverrideStep ==
  ASSUME IInv, NEW r \in Requests, NEW u \in Users, CloseWithOverride(r, u)
  PROVE  IInv'
BY CloseTicketStep DEF CloseWithOverride

-----------------------------------------------------------------------------
(* Assignment.                                                             *)

(* The chosen row id is one of RowIds.                                     *)
LEMMA FreshRow ==
  ASSUME UnusedRowIds # {}
  PROVE  NewRowId \in RowIds
<1>1. NewRowId \in UnusedRowIds
  BY DEF NewRowId
<1> QED
  BY <1>1 DEF UnusedRowIds

(* assign: an OPEN ticket is only seen as OPEN, so rows that come in take  *)
(* it to ASSIGNED; and the notifications cover all rows it leaves behind.  *)
LEMMA AssignStep ==
  ASSUME IInv, NEW r \in Requests, NEW u \in Users,
         NEW incoming \in Incoming, NEW replaceAll \in BOOLEAN,
         Assign(r, u, incoming, replaceAll)
  PROVE  IInv'
<1>1. CASE Untouched
  BY <1>1, QuietStep DEF Assign, Transact
<1>2. CASE ~Untouched
  <2> DEFINE inserted == {<<NewRowId, new[1], new[2]>> : new \in incoming}
             after    == (assignments \ Replaced(r, incoming, replaceAll)) \cup inserted
             N        == Notices("ticket.assigned", u, verifiedBy, after)
             K        == AssignedKeys(incoming)
  <2>1. /\ Committed(r, N, K)
        /\ UnusedRowIds # {}
        /\ IsStaff(u)
        /\ incoming # {} \/ replaceAll
        /\ Advances(r, incoming) =>
             CanTransition("OPEN", "ASSIGNED", RoleCapabilities(u), TicketType)
        /\ IF Advances(r, incoming) THEN WriteStatus("ASSIGNED")
           ELSE UNCHANGED <<status, firstRespondedAt>>
        /\ assignments' = after
        /\ UNCHANGED <<outcomeVars, comments>>
    BY <1>2 DEF Assign, Transact, Committed, Untouched
  <2>2. after \in SUBSET Rows
    <3>1. incoming \subseteq Employees \X Kinds
      BY DEF Incoming
    <3>2. inserted \subseteq Rows
      BY <2>1, <3>1, FreshRow DEF Rows
    <3> QED
      BY <3>2 DEF IInv, TypeOK, TicketTypeOK
  <2>3. /\ N \subseteq Announced \X Users
        /\ \A row \in after : row[2] # u => <<"ticket.assigned", row[2]>> \in N
    <3>1. "ticket.assigned" \in Announced /\ verifiedBy \in Users \cup {None}
      BY DEF Announced, IInv, TypeOK, TicketTypeOK
    <3> QED
      BY <2>2, <3>1, NoticesReach
  <2> HIDE DEF N
  <2>4. K \subseteq FixedKeys
    BY DEF AssignedKeys, FixedKeys
  <2> HIDE DEF K
  <2>5. /\ notified' \subseteq Announced \X Users /\ notified \subseteq notified'
        /\ N \subseteq notified'
        /\ published' \subseteq FixedKeys /\ published \subseteq published'
        /\ stale' \in Nat
        /\ stale' = 0 => stale = 0 /\ seen[r] = status
    BY <2>1, <2>3, <2>4 DEF IInv, TypeOK, Committed, Outdated
  <2>6. pc[r] # "idle" /\ status \in TicketStatus /\ End(r) /\ UNCHANGED <<outcomeVars, comments>>
    BY <2>1, InFlight DEF Committed
  <2>7. seen[r] = "OPEN" =>
          Advances(r, incoming) \/ after = assignments \ Replaced(r, incoming, replaceAll)
    BY DEF Advances
  <2>8. QueueIsUnassigned'
    <3>1. SUFFICES ASSUME status' = "OPEN" PROVE after = {}
      BY <2>1 DEF QueueIsUnassigned
    <3>2. ~Advances(r, incoming) /\ status = "OPEN"
      BY <2>1, <3>1 DEF WriteStatus
    <3>3. seen[r] = "OPEN" /\ assignments = {}
      BY <2>6, <3>2 DEF IInv, CopiesOK, Safe, QueueIsUnassigned
    <3> QED
      BY <2>7, <3>2, <3>3
  <2>9. AssigneesAreTold'
    <3>1. SUFFICES ASSUME NEW row \in after, row[2] \notin Staff
                   PROVE  <<"ticket.assigned", row[2]>> \in N
      BY <2>1, <2>5 DEF AssigneesAreTold
    <3>2. row[2] # u
      BY <2>1, <3>1 DEF IsStaff
    <3> QED
      BY <2>3, <3>1, <3>2
  <2> HIDE DEF after
  <2>10. /\ status' \in TicketStatus
         /\ firstRespondedAt' \in {"null", "first", "later"}
         /\ status' = status \/ status' = "ASSIGNED"
    BY <2>1, <2>6 DEF IInv, TypeOK, TicketTypeOK, WriteStatus, TicketStatus
  <2>11. RequestTypeOK' /\ CopiesOK'
    BY <2>6, <2>10, CommitCopies DEF outcomeVars
  <2>12. TypeOK'
    <3>1. TicketTypeOK'
      BY <2>1, <2>2, <2>6, <2>10 DEF IInv, TypeOK, TicketTypeOK, outcomeVars
    <3> QED
      BY <2>5, <2>11, <3>1 DEF TypeOK
  <2>13. status' # status => seen[r] = "OPEN"
    BY <2>1 DEF Advances
  <2>14. ResolvedWasVerified' /\ ClosureIsAuthorised' /\ ClosureIsAnnounced' /\ OutcomeStands'
    BY <2>1, <2>5, <2>10, <2>13 DEF IInv, Safe, outcomeVars, ResolvedWasVerified,
       ClosureIsAuthorised, ClosureIsAnnounced, OutcomeStands
  <2> QED
    BY <2>8, <2>9, <2>11, <2>12, <2>14 DEF IInv, Safe
<1> QED
  BY <1>1, <1>2

(* unassign: the transition table has no way back to OPEN, so a commit     *)
(* only removes rows.                                                      *)
LEMMA UnassignStep ==
  ASSUME IInv, NEW r \in Requests, NEW u \in Users, NEW e \in Employees, Unassign(r, u, e)
  PROVE  IInv'
<1>1. CASE Untouched
  BY <1>1, QuietStep DEF Unassign, Transact
<1>2. CASE ~Untouched
  <2>1. ~CanTransition(seen[r], "OPEN", Capabilities(r, u), TicketType)
    BY Edges
  <2>2. PICK targets : assignments' = assignments \ targets
    BY <1>2 DEF Unassign, Transact, Untouched
  <2>3. /\ Committed(r, {}, {})
        /\ UNCHANGED <<status, firstRespondedAt, outcomeVars, comments>>
    BY <1>2, <2>1 DEF Unassign, Transact, Committed, Untouched, Legal
  <2>4. /\ notified' \subseteq Announced \X Users /\ notified' = notified
        /\ published' \subseteq FixedKeys /\ published' = published
        /\ stale' \in Nat
        /\ stale' = 0 => stale = 0
    BY <2>3 DEF IInv, TypeOK, Committed, Outdated
  <2>5. RequestTypeOK' /\ CopiesOK'
    BY <2>3, CommitCopies, InFlight DEF Committed, outcomeVars
  <2>6. TypeOK'
    BY <2>2, <2>3, <2>4, <2>5 DEF IInv, TypeOK, TicketTypeOK, outcomeVars
  <2>7. Safe'
    BY <2>2, <2>3, <2>4 DEF IInv, Safe, outcomeVars, QueueIsUnassigned, AssigneesAreTold,
       ResolvedWasVerified, ClosureIsAuthorised, ClosureIsAnnounced, OutcomeStands
  <2> QED
    BY <2>5, <2>6, <2>7 DEF IInv
<1> QED
  BY <1>1, <1>2

-----------------------------------------------------------------------------
(* Creation, and the steps that only read.                                 *)

(* create: a ticket that starts OPEN starts without assignments; one that  *)
(* starts ASSIGNED was routed by a staff member and has one assignee, who  *)
(* is told.                                                                *)
LEMMA CreateStep ==
  ASSUME IInv, Create
  PROVE  IInv'
<1> DEFINE row     == <<NewRowId, AutoAssignee, "PRIMARY">>
           created == Notices("ticket.created", Requester, None, {})
           told    == Notices("ticket.assigned", Requester, None, {row})
<1>1. /\ status = "ABSENT" /\ assignments = {} /\ notified = {}
      /\ \A r \in Requests : pc[r] = "idle" /\ active[r] = {}
      /\ UNCHANGED <<outcomeVars, comments, published, requestVars, stale>>
  BY DEF Create, IInv, CopiesOK
<1>2. created \subseteq Announced \X Users
  BY NoticesReach DEF Announced
<1>3. CASE AutoAssignee = None
  <2>1. status' = "OPEN" /\ firstRespondedAt' = firstRespondedAt /\ assignments' = {}
        /\ notified' = created
    BY <1>1, <1>3 DEF Create, WriteStatus, StopsResponseClock
  <2> HIDE DEF created
  <2>2. TypeOK'
    BY <1>1, <1>2, <2>1 DEF IInv, TypeOK, TicketTypeOK, RequestTypeOK, outcomeVars,
       requestVars, TicketStatus
  <2>3. CopiesOK'
    BY <1>1, <2>1 DEF IInv, CopiesOK, outcomeVars, requestVars
  <2>4. Safe'
    BY <1>1, <2>1 DEF IInv, Safe, outcomeVars, QueueIsUnassigned, AssigneesAreTold,
       ResolvedWasVerified, ClosureIsAuthorised, ClosureIsAnnounced, OutcomeStands
  <2> QED
    BY <2>2, <2>3, <2>4 DEF IInv
<1>4. CASE /\ AutoAssignee # None
           /\ CanTransition("OPEN", "ASSIGNED", RoleCapabilities(Requester), TicketType)
  <2>1. /\ WriteStatus("ASSIGNED")
        /\ assignments' = {row}
        /\ notified' = created \cup told
    BY <1>4 DEF Create
  <2>2. row \in Rows
    <3>1. UsedRowIds = {}
      BY <1>1 DEF UsedRowIds
    <3>2. NewRowId \in RowIds
      BY <3>1, FreshRow, TicketsAssumption DEF TicketsAssumption, UnusedRowIds
    <3> QED
      BY <1>4, <3>2, TicketsAssumption DEF TicketsAssumption, Rows, Kinds
  <2>3. Requester \in Staff
    BY <1>4, StaffTakesStaffEdge DEF IsStaff
  <2>4. /\ told \subseteq Announced \X Users
        /\ row[2] # Requester => <<"ticket.assigned", row[2]>> \in told
    BY <2>2, NoticesReach DEF Announced
  <2>5. AssigneesAreTold'
    BY <2>1, <2>3, <2>4 DEF AssigneesAreTold
  <2> HIDE DEF row, created, told
  <2>6. TypeOK'
    <3>1. TicketTypeOK'
      BY <1>1, <2>1, <2>2 DEF IInv, TypeOK, TicketTypeOK, WriteStatus, outcomeVars, TicketStatus
    <3>2. notified' \subseteq Announced \X Users
      BY <1>2, <2>1, <2>4
    <3> QED
      BY <1>1, <3>1, <3>2 DEF IInv, TypeOK, RequestTypeOK, requestVars
  <2>7. CopiesOK'
    BY <1>1, <2>1 DEF IInv, CopiesOK, WriteStatus, outcomeVars, requestVars
  <2>8. Safe'
    BY <1>1, <2>1, <2>5 DEF IInv, Safe, WriteStatus, outcomeVars, QueueIsUnassigned,
       ResolvedWasVerified, ClosureIsAuthorised, ClosureIsAnnounced, OutcomeStands
  <2> QED
    BY <2>6, <2>7, <2>8 DEF IInv
<1>5. CASE /\ AutoAssignee # None
           /\ ~CanTransition("OPEN", "ASSIGNED", RoleCapabilities(Requester), TicketType)
  <2>1. UNCHANGED <<status, firstRespondedAt, assignments, notified>>
    BY <1>5 DEF Create
  <2> QED
    BY <1>1, <2>1 DEF IInv, TypeOK, TicketTypeOK, RequestTypeOK, CopiesOK, Safe, outcomeVars,
       requestVars, QueueIsUnassigned, AssigneesAreTold, ResolvedWasVerified,
       ClosureIsAuthorised, ClosureIsAnnounced, OutcomeStands
<1> QED
  BY <1>3, <1>4, <1>5

(* A fresh copy is true of the ticket it was taken from.                   *)
LEMMA LoadStep ==
  ASSUME IInv, NEW r \in Requests, Load(r)
  PROVE  IInv'
<1>1. EmployeesOf(assignments) \subseteq Employees /\ status \in TicketStatus
  BY DEF Load, IInv, TypeOK, TicketTypeOK, EmployeesOf, Rows
<1>2. TypeOK'
  BY <1>1 DEF Load, IInv, TypeOK, TicketTypeOK, RequestTypeOK, ticketVars, outcomeVars, rowVars
<1>3. CopiesOK'
  BY DEF Load, IInv, TypeOK, RequestTypeOK, CopiesOK, ticketVars, outcomeVars, rowVars
<1>4. Safe'
  BY DEF Load, IInv, Safe, ticketVars, outcomeVars, rowVars, QueueIsUnassigned,
     AssigneesAreTold, ResolvedWasVerified, ClosureIsAuthorised, ClosureIsAnnounced,
     OutcomeStands
<1> QED
  BY <1>2, <1>3, <1>4 DEF IInv

(* The second read of assign and unassign touches the request alone.       *)
LEMMA ReadActiveStep ==
  ASSUME IInv, NEW r \in Requests, ReadActive(r)
  PROVE  IInv'
<1>1. TypeOK'
  BY DEF ReadActive, IInv, TypeOK, TicketTypeOK, RequestTypeOK, ticketVars, outcomeVars, rowVars
<1>2. CopiesOK'
  BY DEF ReadActive, IInv, TypeOK, RequestTypeOK, CopiesOK, ticketVars, outcomeVars, rowVars
<1>3. Safe'
  BY DEF ReadActive, IInv, Safe, ticketVars, outcomeVars, rowVars, QueueIsUnassigned,
     AssigneesAreTold, ResolvedWasVerified, ClosureIsAuthorised, ClosureIsAnnounced,
     OutcomeStands
<1> QED
  BY <1>1, <1>2, <1>3 DEF IInv

-----------------------------------------------------------------------------
(* The empty database satisfies the invariant.                             *)
LEMMA InitEstablishesIInv == Init => IInv
<1> SUFFICES ASSUME Init PROVE IInv
  OBVIOUS
<1>1. TypeOK
  BY DEF Init, TypeOK, TicketTypeOK, RequestTypeOK
<1>2. CopiesOK /\ Safe
  BY DEF Init, CopiesOK, Safe, QueueIsUnassigned, AssigneesAreTold, ResolvedWasVerified,
     ClosureIsAuthorised, ClosureIsAnnounced, OutcomeStands
<1> QED
  BY <1>1, <1>2 DEF IInv

(* Every step of every handler keeps it.                                   *)
LEMMA NextPreservesIInv == IInv /\ [Next]_vars => IInv'
<1> SUFFICES ASSUME IInv, [Next]_vars PROVE IInv'
  OBVIOUS
<1>1. CASE Create
  BY <1>1, CreateStep
<1>2. ASSUME NEW r \in Requests, Load(r) \/ ReadActive(r) \/ Refused(r)
      PROVE  IInv'
  BY <1>2, LoadStep, ReadActiveStep, QuietStep DEF Refused, Untouched
<1>3. ASSUME NEW r \in Requests, NEW u \in Users, Handle(r, u)
      PROVE  IInv'
  BY <1>3, AssignStep, UnassignStep, StartWorkStep, SubmitResolutionStep, ApproveStep,
     RejectStep, ClientConfirmStep, ReopenStep, CloseStep, CloseWithOverrideStep,
     CancelStep, AddCommentStep DEF Handle
<1>4. CASE UNCHANGED vars
  BY <1>4 DEF IInv, TypeOK, TicketTypeOK, RequestTypeOK, CopiesOK, Safe, QueueIsUnassigned,
     AssigneesAreTold, ResolvedWasVerified, ClosureIsAuthorised, ClosureIsAnnounced,
     OutcomeStands, vars, ticketVars, outcomeVars, rowVars, requestVars
<1> QED
  BY <1>1, <1>2, <1>3, <1>4 DEF Next

(* The inductive invariant: types, sound copies, and the six properties.   *)
THEOREM Invariance == Spec => []IInv
BY InitEstablishesIInv, NextPreservesIInv, PTL DEF Spec

(* The rows and copies stay of their types, for any number of users,       *)
(* requests and rows and whatever the bounds of the model.                 *)
THEOREM TypeCorrect == Spec => []TypeOK
BY Invariance, PTL DEF IInv

(* No assigned ticket waits in the queue of OPEN ones, however many        *)
(* assign, unassign and status requests race.                              *)
THEOREM QueueIsUnassignedHolds == Spec => []QueueIsUnassigned
<1>1. IInv => QueueIsUnassigned
  BY DEF IInv, Safe
<1> QED
  BY <1>1, Invariance, PTL

(* Every active assignee outside staff has his notification row.           *)
THEOREM AssigneesAreToldHolds == Spec => []AssigneesAreTold
<1>1. IInv => AssigneesAreTold
  BY DEF IInv, Safe
<1> QED
  BY <1>1, Invariance, PTL

(* RESOLVED implies a submitted resolution and a verifier from staff.      *)
THEOREM ResolvedWasVerifiedHolds == Spec => []ResolvedWasVerified
<1>1. IInv => ResolvedWasVerified
  BY DEF IInv, Safe
<1> QED
  BY <1>1, Invariance, PTL

(* CLOSED implies the override permission, or the confirmation of the one  *)
(* who may close.                                                          *)
THEOREM ClosureIsAuthorisedHolds == Spec => []ClosureIsAuthorised
<1>1. IInv => ClosureIsAuthorised
  BY DEF IInv, Safe
<1> QED
  BY <1>1, Invariance, PTL

(* CLOSED implies the outbox event and the requester's notification.       *)
THEOREM ClosureIsAnnouncedHolds == Spec => []ClosureIsAnnounced
<1>1. IInv => ClosureIsAnnounced
  BY DEF IInv, Safe
<1> QED
  BY <1>1, Invariance, PTL

(* While no commit was decided on an outdated status, closed tickets keep  *)
(* the outcome they were closed for.                                       *)
THEOREM OutcomeStandsHolds == Spec => []OutcomeStands
<1>1. IInv => OutcomeStands
  BY DEF IInv, Safe
<1> QED
  BY <1>1, Invariance, PTL

=============================================================================
