------------------------- MODULE TicketStateMachine -------------------------
(***************************************************************************)
(* The transition table of helpdesk/tickets/ticket-state-machine.ts.       *)
(* Every rule admits the three staff capabilities, so a rule is an edge    *)
(* plus the answer to two questions: may the assignee take it, and may the *)
(* requester.                                                              *)
(***************************************************************************)

TicketStatus ==
  {"OPEN", "ASSIGNED", "IN_PROGRESS", "WAITING_FOR_CLIENT",
   "WAITING_FOR_EMPLOYEE", "RESOLUTION_SUBMITTED", "UNDER_VERIFICATION",
   "RESOLVED", "CLOSED", "REOPENED", "CANCELLED"}

TERMINAL_STATUSES == {"CLOSED", "CANCELLED"}

TicketTypes == {"CLIENT_SUPPORT", "INTERNAL"}

StaffCapabilities == {"agent", "admin", "superAdmin"}
TicketCapabilities == StaffCapabilities \cup {"requester", "assignee"}

StaffEdges ==
  {<<"OPEN", "ASSIGNED">>,
   <<"RESOLUTION_SUBMITTED", "UNDER_VERIFICATION">>,
   <<"UNDER_VERIFICATION", "RESOLVED">>, <<"UNDER_VERIFICATION", "IN_PROGRESS">>,
   <<"REOPENED", "ASSIGNED">>, <<"REOPENED", "CANCELLED">>,
   <<"ASSIGNED", "CANCELLED">>, <<"IN_PROGRESS", "CANCELLED">>,
   <<"WAITING_FOR_EMPLOYEE", "CANCELLED">>}

RequesterEdges ==
  {<<"OPEN", "CANCELLED">>, <<"WAITING_FOR_CLIENT", "CANCELLED">>,
   <<"WAITING_FOR_CLIENT", "IN_PROGRESS">>,
   <<"RESOLVED", "CLOSED">>, <<"RESOLVED", "REOPENED">>}

AssigneeEdges ==
  {<<"OPEN", "IN_PROGRESS">>, <<"ASSIGNED", "IN_PROGRESS">>,
   <<"IN_PROGRESS", "WAITING_FOR_CLIENT">>, <<"IN_PROGRESS", "WAITING_FOR_EMPLOYEE">>,
   <<"WAITING_FOR_CLIENT", "IN_PROGRESS">>, <<"WAITING_FOR_EMPLOYEE", "IN_PROGRESS">>,
   <<"IN_PROGRESS", "RESOLUTION_SUBMITTED">>, <<"ASSIGNED", "RESOLUTION_SUBMITTED">>,
   <<"REOPENED", "IN_PROGRESS">>}

TICKET_TRANSITIONS == StaffEdges \cup RequesterEdges \cup AssigneeEdges

(* Only client tickets can be reopened. *)
AppliesTo(edge, type) == edge = <<"RESOLVED", "REOPENED">> => type = "CLIENT_SUPPORT"

Permits(edge, capabilities) ==
  \/ capabilities \cap StaffCapabilities # {}
  \/ edge \in RequesterEdges /\ "requester" \in capabilities
  \/ edge \in AssigneeEdges /\ "assignee" \in capabilities

(* assertTransition does not throw. *)
CanTransition(from, to, capabilities, type) ==
  /\ <<from, to>> \in TICKET_TRANSITIONS
  /\ AppliesTo(<<from, to>>, type)
  /\ Permits(<<from, to>>, capabilities)

=============================================================================
