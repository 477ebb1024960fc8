------------------------------ MODULE Accounts ------------------------------
(***************************************************************************)
(* Users of one organization and their roles: createUserByAdmin,           *)
(* updateUser, approveUser, deleteUser, archiveOrganization and            *)
(* reactivateOrganization of users/users.service.ts.  Approval and archive *)
(* are transactions; the others commit each statement by itself.  A role   *)
(* is the pair of its user and its name, unique and cascaded.              *)
(*                                                                         *)
(* External: the hire that makes a user an employee, which keeps the user  *)
(* row from being deleted (Employee.user, onDelete: Restrict).             *)
(***************************************************************************)
EXTENDS Naturals, FiniteSets

CONSTANTS Users,         \* users, by their id
          RoleNames,     \* names that a request may give: any text
          RoleLists,     \* sets of names that an update or an approval gives
          Roles,         \* the names that a role has
          Agent,         \* the name a creation falls back to
          Admins,        \* requests in flight together
          MaxAccountFaults,
          NoUser

ASSUME AccountsAssumption ==
    /\ RoleLists \subseteq SUBSET RoleNames
    /\ Roles \subseteq RoleNames /\ Roles # {}
    /\ MaxAccountFaults \in Nat /\ NoUser \notin Users

VARIABLES
    known,       \* users whose row exists
    active,      \* users that are active
    hired,       \* users with an employee row
    roles,       \* by user: the roles
    orgActive,   \* the organization is
    task,        \* by request: its user, its step, the roles still to write
    accountFaults,
    \* history, read by no action
    asked,       \* by user: what the last request that completed may leave
    granted,     \* by user: roles given since the last one that ran alone, and by it
    stirred      \* users whose last request overlapped another or ended early

accountVars == <<known, active, hired, roles, orgActive, task, accountFaults,
                 asked, granted, stirred>>

----------------------------------------------------------------------------
Task(user, step, todo, want, seen, lone) ==
    [user |-> user, step |-> step, todo |-> todo, want |-> want, seen |-> seen,
     lone |-> lone]
NoTask == Task(NoUser, "idle", {}, {}, {}, TRUE)
Overlapped(k) == Task(k.user, k.step, k.todo, k.want, k.seen, FALSE)
Does(a, step) == task[a].step = step
GoesOn(a, step, todo) ==
    LET k == task[a] IN
    task' = [task EXCEPT ![a] = Task(k.user, step, todo, k.want, k.seen, k.lone)]
Ends(a) == task' = [task EXCEPT ![a] = NoTask]
InFlight(u) == {a \in Admins : task[a].user = u}
Fails(a) == /\ Ends(a)
            /\ stirred' = stirred \cup {task[a].user}
Completes(a, outcomes) ==
    LET u == task[a].user IN
    /\ Ends(a)
    /\ asked' = [asked EXCEPT ![u] = outcomes]
    /\ IF task[a].lone
         THEN stirred' = stirred \ {u} /\ granted' = [granted EXCEPT ![u] = UNION outcomes]
         ELSE /\ stirred' = stirred \cup {u}
              /\ granted' = [granted EXCEPT ![u] = @ \cup UNION outcomes]

\* role.findUnique by name.  An update or an approval leaves out the names that
\* no role has; a creation takes agent for such a name, or whatever role is first.
Found(names) == names \cap Roles
LookedUp(name) == IF name \in Roles THEN {name}
                  ELSE IF Agent \in Roles THEN {Agent} ELSE Roles

\* Approval locks the row of its user: other writes of that row wait.
Unlocked(u) == \A a \in InFlight(u) : ~Does(a, "approving")

AccountsInit ==
    /\ known \in SUBSET Users /\ active = known /\ hired = {}
    /\ \E r \in Roles : roles = [u \in Users |-> IF u \in known THEN {r} ELSE {}]
    /\ asked = [u \in Users |-> {roles[u]}] /\ granted = roles
    /\ orgActive = TRUE
    /\ task = [a \in Admins |-> NoTask]
    /\ accountFaults = 0 /\ stirred = {}

Takes(a, u, step, want, seen) ==
    /\ task[a] = NoTask
    /\ task' = [b \in Admins |->
          IF b = a THEN Task(u, step, want, want, seen, InFlight(u) = {})
            ELSE IF b \in InFlight(u) THEN Overlapped(task[b]) ELSE task[b]]
    /\ granted' = [granted EXCEPT ![u] = @ \cup Found(want)]
    /\ UNCHANGED stirred

----------------------------------------------------------------------------
\* A role that is there already, or a user that is not there any more, ends the
\* request: what it wrote stays, what is left is not written.
WithoutForeignKey(u, role) == role \notin roles[u]                       \* mutant
RoleFits(u, role) == u \in known /\ role \notin roles[u]

\* createUserByAdmin: the row, then the role that the lookup comes to.
CreateUser(a, u, name) ==
    /\ u \notin known
    /\ Takes(a, u, "provisioning", {name}, {})
    /\ known' = known \cup {u} /\ active' = active \cup {u}
    /\ UNCHANGED <<hired, roles, orgActive, accountFaults, asked>>

ProvisionRole(a, name) ==
    LET u == task[a].user IN
    /\ Does(a, "provisioning") /\ name \in task[a].want
    /\ \E role \in LookedUp(name) :
         IF RoleFits(u, role)
           THEN /\ roles' = [roles EXCEPT ![u] = @ \cup {role}]
                /\ Completes(a, {{other} : other \in LookedUp(name)})
           ELSE Fails(a) /\ UNCHANGED <<roles, asked, granted>>
    /\ UNCHANGED <<known, active, hired, orgActive, accountFaults>>

\* updateUser: the row, then - when roles are given - a deletion of all the roles
\* and one insert for each.
UpdateUser(a, u, isActive, want) ==
    /\ u \in known /\ Unlocked(u)
    /\ Takes(a, u, "clearing", want, {})
    /\ active' = IF isActive THEN active \cup {u} ELSE active \ {u}
    /\ UNCHANGED <<known, hired, roles, orgActive, accountFaults, asked>>

\* updateUser without roles, or with one that its caller may not give, which is
\* refused after the row has been written.
SetUserActive(u, isActive) ==
    /\ u \in known /\ Unlocked(u)
    /\ active' = IF isActive THEN active \cup {u} ELSE active \ {u}
    /\ UNCHANGED <<known, hired, roles, orgActive, task, accountFaults, asked, granted,
                   stirred>>

KeepsRoles(u) == roles[u]                                                \* mutant
Cleared(u) == {}

ClearRoles(a) ==
    LET u == task[a].user IN
    /\ Does(a, "clearing")
    /\ roles' = [roles EXCEPT ![u] = Cleared(u)]
    /\ GoesOn(a, "writing", task[a].todo)
    /\ UNCHANGED <<known, active, hired, orgActive, accountFaults, asked, granted,
                   stirred>>

\* The next name: no role has it, or the role is inserted, or the insert fails.
WriteRole(a, name) ==
    LET u == task[a].user IN
    /\ Does(a, "writing") /\ name \in task[a].todo
    /\ IF name \notin Roles \/ RoleFits(u, name)
         THEN /\ roles' = [roles EXCEPT ![u] = @ \cup Found({name})]
              /\ GoesOn(a, "writing", task[a].todo \ {name})
              /\ UNCHANGED stirred
         ELSE Fails(a) /\ UNCHANGED roles
    /\ UNCHANGED <<known, active, hired, orgActive, accountFaults, asked, granted>>

RolesWritten(a) ==
    /\ Does(a, "writing") /\ task[a].todo = {}
    /\ Completes(a, {Found(task[a].want)})
    /\ UNCHANGED <<known, active, hired, roles, orgActive, accountFaults>>

\* approveUser: one transaction, which deletes the roles it sees and then inserts
\* its own.  A role that another request inserted in between makes it fail.
BeginApproval(a, u, want) ==
    /\ u \in known /\ Unlocked(u)
    /\ Takes(a, u, "approving", want, roles[u])
    /\ UNCHANGED <<known, active, hired, roles, orgActive, accountFaults, asked>>

CommitApproval(a) ==
    LET u == task[a].user
        left == roles[u] \ task[a].seen
        found == Found(task[a].want)
    IN
    /\ Does(a, "approving")
    /\ IF found \cap left = {}
         THEN /\ active' = active \cup {u}
              /\ roles' = [roles EXCEPT ![u] = left \cup found]
              /\ Completes(a, {found})
         ELSE Ends(a) /\ UNCHANGED <<active, roles, asked, granted, stirred>>
    /\ UNCHANGED <<known, hired, orgActive, accountFaults>>

----------------------------------------------------------------------------
\* deleteUser: the roles, (the sessions,) and the row, which an employee keeps.
BeginDeletion(a, u) ==
    /\ u \in known
    /\ Takes(a, u, "deleting", {}, {})
    /\ UNCHANGED <<known, active, hired, roles, orgActive, accountFaults, asked>>

DeleteRoles(a) ==
    /\ Does(a, "deleting")
    /\ roles' = [roles EXCEPT ![task[a].user] = {}]
    /\ GoesOn(a, "stripped", {})
    /\ UNCHANGED <<known, active, hired, orgActive, accountFaults, asked, granted,
                   stirred>>

MayDelete(u) == u \notin hired

DeleteRow(a) ==
    LET u == task[a].user IN
    /\ Does(a, "stripped") /\ Unlocked(u)
    /\ IF MayDelete(u) /\ u \in known
         THEN /\ known' = known \ {u} /\ active' = active \ {u}
              /\ roles' = [roles EXCEPT ![u] = {}]
              /\ Completes(a, {{}})
         ELSE Fails(a) /\ UNCHANGED <<known, active, roles, asked, granted>>
    /\ UNCHANGED <<hired, orgActive, accountFaults>>

Hire(u) ==
    /\ u \in known /\ hired' = hired \cup {u}
    /\ UNCHANGED <<known, active, roles, orgActive, task, accountFaults, asked, granted,
                   stirred>>

\* archiveOrganization deactivates everybody in one transaction; reactivating the
\* organization gives nobody back.
ArchiveOrganization ==
    /\ orgActive /\ \A u \in Users : Unlocked(u)
    /\ orgActive' = FALSE /\ active' = {}
    /\ UNCHANGED <<known, hired, roles, task, accountFaults, asked, granted,
                   stirred>>

ReactivateOrganization ==
    /\ ~orgActive /\ orgActive' = TRUE
    /\ UNCHANGED <<known, active, hired, roles, task, accountFaults, asked, granted,
                   stirred>>

\* A request dies, or a statement of it fails; a transaction leaves nothing.
AccountFault(a) ==
    /\ task[a] # NoTask
    /\ accountFaults < MaxAccountFaults /\ accountFaults' = accountFaults + 1
    /\ IF Does(a, "approving") THEN Ends(a) /\ UNCHANGED stirred ELSE Fails(a)
    /\ UNCHANGED <<known, active, hired, roles, orgActive, asked, granted>>

AccountsNext ==
    \/ \E a \in Admins :
          \/ ClearRoles(a) \/ RolesWritten(a) \/ CommitApproval(a)
          \/ DeleteRoles(a) \/ DeleteRow(a) \/ AccountFault(a)
          \/ \E name \in RoleNames : WriteRole(a, name) \/ ProvisionRole(a, name)
          \/ \E u \in Users :
                \/ BeginDeletion(a, u)
                \/ \E name \in RoleNames : CreateUser(a, u, name)
                \/ \E want \in RoleLists :
                      \/ BeginApproval(a, u, want)
                      \/ \E on \in BOOLEAN : UpdateUser(a, u, on, want)
    \/ \E u \in Users : Hire(u) \/ \E on \in BOOLEAN : SetUserActive(u, on)
    \/ ArchiveOrganization \/ ReactivateOrganization

----------------------------------------------------------------------------
\* The type invariant; roles and employees always have their user, although no
\* request but deleteUser's own statements looks after them.
AccountsTypeOK ==
    /\ known \subseteq Users /\ active \subseteq known /\ hired \subseteq known
    /\ roles \in [Users -> SUBSET Roles] /\ granted \in [Users -> SUBSET Roles]
    /\ asked \in [Users -> SUBSET SUBSET Roles]
    /\ \A u \in Users \ known : roles[u] = {}
    /\ orgActive \in BOOLEAN
    /\ task \in [Admins ->
          [user : Users \cup {NoUser},
           step : {"idle", "provisioning", "clearing", "writing", "approving",
                   "deleting", "stripped"},
           todo : SUBSET RoleNames, want : SUBSET RoleNames, seen : SUBSET Roles,
           lone : BOOLEAN]]
    /\ accountFaults \in 0..MaxAccountFaults /\ stirred \subseteq Users

\* The roles of a user at rest are those that the last request to complete asked
\* for, as far as a role has the name (a creation with an unknown name gives agent
\* instead), unless it overlapped another or a later one ended half way, as a
\* deletion does that the employee row refuses: it has taken the roles by then.  The
\* next request that runs alone puts it right.  And nobody, however requests
\* overlap or break off, has a role that neither that lone request nor one begun
\* since it has given: a role that was taken away does not come back.
RolesAreAsAsked ==
    /\ \A u \in known : InFlight(u) = {} /\ u \notin stirred => roles[u] \in asked[u]
    /\ \A u \in Users : roles[u] \subseteq granted[u]
=============================================================================
