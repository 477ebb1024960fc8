SPECIFICATION Spec
CONSTANTS
  Logins = {x, y}
  MaxAttempts = 3
  Window = 2
  MaxRedisFaults = 2
  Instances = {x, y}
  Period = 2
  LockTtl = 4
  MaxTicks = 4
  MaxJobFaults = 2
  NoToken = NoToken
  ResponseTime = 2
  ResolutionTime = 3
  UrgentTime = 1
  MaxNow = 4
  Null = Null
  RuleIds = {1, 2}
  CriteriaSets = {{}, {"ticketType"}, {"category", "priority", "departmentId"}}
  Orders = {0, 1}
  Editors = {x, y}
  NoRule = NoRule
  Orgs = {"a", "b"}
  Hires <- TwoOrgs
  Requests = {x, y}
  Code = "SALES"
  Name = "Sales"
  OtherCode = "X"
  OtherName = "Other"
  Nobody = Nobody
  Leads = {lead1, lead2}
  Emails = {"x", "y"}
  EmailOf <- SameEmail
  CrmRequests = {x, y}
  MaxClients = 2
  MaxCrmCrashes = 1
  NoLead = NoLead
  NoEmail = NoEmail
  Staff = {s1, s2}
  Operators = {x, y}
  MaxHrChanges = 1
  MaxPayCrashes = 1
  NoOne = NoOne
  Requested = {leave1, leave2}
  Reviewers = {x, y}
  MaxHrEdits = 1
  Punchers = {x, y}
  DayLength = 2
  Days = 2
  MaxPunches = 4
  NoPunch = NoPunch
  Apis = {x, y}
  Limit = 2
  Ttl = 2
  Heavy = 4
  MaxOutages = 4
  Users = {u1}
  RoleNames = {"admin", "agent", "boss"}
  RoleLists = {{"admin", "agent"}, {"admin", "boss"}}
  Roles = {"admin", "agent"}
  Agent = "agent"
  Admins = {x, y}
  MaxAccountFaults = 1
  NoUser = NoUser
SYMMETRY MCSymmetry
CHECK_DEADLOCK FALSE
INVARIANTS
  TypeOK
  LockoutHolds
  LimitHolds
  RolesAreAsAsked
PROPERTIES
  LockServesTheJob
  ClocksAreRight
  AnswerIsDetermined
  HiringIsOrderly
  ConversionIsTraceable
  MonthIsPaidOnce
  AbsenceIsAccountedFor
  HoursAreHonest
