\* Two employees, neither of them staff, on an internal ticket of an agent that is
\* routed to one of them: only an assignment can tell the other.
SPECIFICATION Spec
CONSTANTS
  req = req  agt = agt  adm = adm  emp = emp  emp2 = emp2  r1 = r1  r2 = r2
  Users = {agt, emp, emp2}
  Agents = {agt}
  Admins = {}
  Overriders = {}
  Employees = {emp, emp2}
  Colleagues = {}
  Requester = agt
  AssignedAgent = None
  AutoAssignee = emp
  TicketType = "INTERNAL"
  Requests = {r1, r2}
  RowIds = {1, 2, 3}
  None = None
  MaxReopens = 1
  MaxComments = 0
  MaxStale = 1
SYMMETRY MCSymmetry
INVARIANTS
  AssigneesAreTold
