------------------------------ MODULE Staffing ------------------------------
(***************************************************************************)
(* Hiring: EmployeesService.create (hr/employees/employees.service.ts),    *)
(* with the departments it resolves or creates from a free text            *)
(* (helpdesk/departments/departments.service.ts).  Every statement commits *)
(* by itself.  Employees are never deleted.                                *)
(*                                                                         *)
(* A user id belongs to one organization.  employeeCode is unique over all *)
(* organizations, while its number counts the employees of one.  All the   *)
(* texts here are one department name, which normalizes to Code.  A code   *)
(* never changes, so it stands for the id of its department.               *)
(***************************************************************************)
EXTENDS Naturals, FiniteSets

CONSTANTS
  Orgs, Hires,     \* users: of the form <<organization, n>>
  Requests,        \* hires in flight together
  Code, Name, OtherCode, OtherName,
  Nobody

ASSUME StaffingAssumption ==
  /\ \A u \in Hires : u[1] \in Orgs
  /\ Code # OtherCode /\ Name # OtherName /\ Nobody \notin Hires \cup {Code, OtherCode}

VARIABLES
  employees,    \* rows: [user, code, department]
  departments,  \* rows: [org, code, name]
  hire,         \* by request: what it knows so far
  \* history, read by no action
  disturbed     \* by request: another one or a create interfered

staffVars == <<employees, departments, hire, disturbed>>

Hiring(user, step, number, department) ==
  [user |-> user, step |-> step, number |-> number, department |-> department]
Waiting == Hiring(Nobody, "idle", 0, Nobody)

OfOrg(o) == {e \in employees : e.user[1] = o}
Employed == {e.user : e \in employees}
Codes    == {e.code : e \in employees}

StaffInit ==
  /\ employees = {} /\ departments = {}
  /\ hire = [r \in Requests |-> Waiting]
  /\ disturbed = [r \in Requests |-> FALSE]

Disturb(except) ==
  disturbed' = [r \in Requests |->
                  IF r = except THEN disturbed[r]
                  ELSE disturbed[r] \/ hire[r].step # "idle"]

Step(r, user, step, number, department) ==
  hire' = [hire EXCEPT ![r] = Hiring(user, step, number, department)]
Answered(r) == hire' = [hire EXCEPT ![r] = Waiting]

-----------------------------------------------------------------------------
(* The user is not yet an employee, and the next number is the count.      *)
MayHire(u) == u \notin Employed

NextNumber(o) == Cardinality(OfOrg(o)) + 1

StartHire(r, u) ==
  /\ hire[r] = Waiting
  /\ MayHire(u)
  /\ Step(r, u, "counted", NextNumber(u[1]), Nobody)
  /\ disturbed' = [disturbed EXCEPT ![r] = \E q \in Requests : hire[q].step # "idle"]
  /\ UNCHANGED <<employees, departments>>

(* resolveOrCreateByName: a department with this code or this name ...     *)
Matching(o) == {d \in departments : d.org = o /\ (d.code = Code \/ d.name = Name)}

FindDepartment(r) ==
  LET h == hire[r]
      found == Matching(h.user[1])
  IN
  /\ h.step = "counted"
  /\ IF found = {} THEN Step(r, h.user, "missing", h.number, Nobody)
     ELSE \E d \in found : Step(r, h.user, "resolved", h.number, d.code)
  /\ UNCHANGED <<employees, departments, disturbed>>

Department(o, code, name) == [org |-> o, code |-> code, name |-> name]

(* ... or a new one.  The organization's codes and its names are unique;   *)
(* who loses the race looks again, by code only.                           *)
Fits(row) == \A d \in departments : d.org = row.org => d.code # row.code /\ d.name # row.name

NoReread(o) == {}                                                       \* mutant
Raced(o) == {d \in departments : d.org = o /\ d.code = Code}

CreateDepartment(r) ==
  LET h == hire[r]
      new == Department(h.user[1], Code, Name)
  IN
  /\ h.step = "missing"
  /\ IF Fits(new)
       THEN /\ departments' = departments \cup {new}
            /\ Step(r, h.user, "resolved", h.number, Code)
            /\ Disturb(r)
       ELSE /\ IF Raced(new.org) = {} THEN Step(r, h.user, "resolved", h.number, Nobody)
               ELSE \E d \in Raced(new.org) : Step(r, h.user, "resolved", h.number, d.code)
            /\ UNCHANGED <<departments, disturbed>>
  /\ UNCHANGED employees

(* The insert; both the user and the code are unique.                      *)
InsertFits(h) == h.user \notin Employed /\ h.number \notin Codes

Employee(u, code, department) == [user |-> u, code |-> code, department |-> department]

Insert(r) ==
  LET h == hire[r] IN
  /\ h.step = "resolved"
  /\ IF InsertFits(h)
       THEN /\ employees' = employees \cup
                 {Employee(h.user, h.number, h.department)}
            /\ Disturb(r)
       ELSE UNCHANGED <<employees, disturbed>>
  /\ Answered(r)
  /\ UNCHANGED departments

(* A hire ends early: a lookup fails, or the process dies.                 *)
HireFails(r) ==
  /\ hire[r] # Waiting
  /\ Answered(r)
  /\ UNCHANGED <<employees, departments, disturbed>>

(* DepartmentsService.create, by an administrator: any code and name that  *)
(* clash with none.                                                        *)
AdminDepartment(o, code, name) ==
  LET row == Department(o, code, name) IN
  /\ Fits(row)
  /\ departments' = departments \cup {row}
  /\ Disturb(Nobody)
  /\ UNCHANGED <<employees, hire>>

(* DepartmentsService.update.                                              *)
RenameDepartment(d, name) ==
  /\ \A x \in departments : x.org = d.org => x.name # name
  /\ departments' = (departments \ {d}) \cup {Department(d.org, d.code, name)}
  /\ Disturb(Nobody)
  /\ UNCHANGED <<employees, hire>>

StaffNext ==
  \/ \E r \in Requests, u \in Hires : StartHire(r, u)
  \/ \E r \in Requests :
       FindDepartment(r) \/ CreateDepartment(r) \/ Insert(r) \/ HireFails(r)
  \/ \E o \in Orgs, code \in {Code, OtherCode}, name \in {Name, OtherName} :
       AdminDepartment(o, code, name)
  \/ \E d \in departments, name \in {Name, OtherName} : RenameDepartment(d, name)

-----------------------------------------------------------------------------
(* The type invariant.                                                     *)
StaffTypeOK ==
  LET CodeOrNone == {Code, OtherCode, Nobody} IN
  /\ employees \subseteq [user : Hires, code : Nat \ {0}, department : CodeOrNone]
  /\ departments \subseteq [org : Orgs, code : {Code, OtherCode}, name : {Name, OtherName}]
  /\ hire \in [Requests -> [user : Hires \cup {Nobody},
                            step : {"idle", "counted", "missing", "resolved"},
                            number : Nat, department : CodeOrNone]]
  /\ disturbed \in [Requests -> BOOLEAN]

(* An organization's codes are the numbers from one to its count: no race  *)
(* leaves a gap or a duplicate.                                            *)
CodesAreSequential ==
  \A o \in Orgs : {e.code : e \in OfOrg(o)} = 1..Cardinality(OfOrg(o))

(* A department text becomes none at all only when an administrator gave   *)
(* the name to another code between the search and the insert.             *)
DepartmentIsResolved ==
  [][\A r \in Requests :
       CreateDepartment(r) /\ hire'[r].department = Nobody =>
         \E d \in departments : /\ d.org = hire[r].user[1]
                                /\ d.name = Name /\ d.code = OtherCode]_staffVars

(* A hire that nothing disturbed fails only where the organization's count *)
(* cannot name a free code, because another organization has the number.   *)
HireFailsForACause ==
  [][\A r \in Requests :
       Insert(r) /\ ~disturbed[r] /\ employees' = employees =>
         \E e \in employees : e.code = hire[r].number /\ e.user[1] # hire[r].user[1]
    ]_staffVars

(* Hires that race leave the codes in order and their department resolved, *)
(* and an undisturbed hire succeeds where the code is free.                *)
HiringIsOrderly ==
  []CodesAreSequential /\ DepartmentIsResolved /\ HireFailsForACause
=============================================================================
