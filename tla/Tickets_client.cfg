\* A client ticket from intake to closure, and once back.
SPECIFICATION Spec
CONSTANTS
  req = req  agt = agt  adm = adm  emp = emp  emp2 = emp2  r1 = r1  r2 = r2
  Users = {req, adm}
  Agents = {adm}
  Admins = {adm}
  Overriders = {adm}
  Employees = {adm}
  Colleagues = {req}
  Requester = req
  AssignedAgent = adm
  AutoAssignee = None
  TicketType = "CLIENT_SUPPORT"
  Requests = {r1, r2}
  RowIds = {1, 2, 3}
  None = None
  MaxReopens = 1
  MaxComments = 1
  MaxStale = 2
SYMMETRY MCSymmetry
INVARIANTS
  TypeOK
  QueueIsUnassigned
  ResolvedWasVerified
  ClosureIsAuthorised
  ClosureIsAnnounced
  OutcomeStands
