SPECIFICATION FairSpec
CONSTANTS
    Sockets = {s1, s2}
    Users = {u1, u2}
    Tickets = {t1}
    Calls = {c1, c2}
    SuperAdmins = {u2}
    OrgMembers = {u1}
    MaxCalls = 3
    None = None
INVARIANTS
    RoomsMirror
    MembershipIsEarned
    EventReachesItsAudience
PROPERTIES
    AuthenticatesOrCloses
CHECK_DEADLOCK FALSE
