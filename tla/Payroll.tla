------------------------------ MODULE Payroll ------------------------------
(***************************************************************************)
(* The payslips of one month of one organization: generateBulk and         *)
(* markAsPaid (payroll/payslips/payslips.service.ts) beside new salary     *)
(* structures and changes of the employees' status.                        *)
(*                                                                         *)
(* A bulk run takes one transaction per employee, READ COMMITTED: its      *)
(* reads and its insert are separate steps.  Amounts are left out.         *)
(***************************************************************************)
EXTENDS Naturals, FiniteSets

CONSTANTS Staff,         \* employees of the organization
          Operators,     \* requests in flight together
          MaxHrChanges,  \* bound on the changes of a status
          MaxPayCrashes, \* bound on the requests that die half way
          NoOne

ASSUME PayrollAssumption == MaxHrChanges \in Nat /\ MaxPayCrashes \in Nat
                            /\ NoOne \notin Staff /\ IsFiniteSet(Operators)

VARIABLES
    onPayroll,   \* employees whose status is ACTIVE
    salaried,    \* employees with a salary structure
    slips,       \* the month's payslips: the employee, and how often it was paid
    op,          \* by request: where it is
    hrChanges, payCrashes,
    \* history, read by no action
    raced        \* by request: another one was in flight with it

payVars == <<onPayroll, salaried, slips, op, hrChanges, payCrashes, raced>>

----------------------------------------------------------------------------
OpIdle == [step |-> "idle", todo |-> {}, at |-> NoOne, due |-> {}]
Paid(e) == \E s \in slips : s.employee = e
Busy(except) == {o \in Operators \ {except} : op[o].step # "idle"}
Seek(o, from, to, e) ==
    /\ op[o].step = from
    /\ op' = [op EXCEPT ![o] = [step |-> to, todo |-> @.todo \ {e}, at |-> e,
                                due |-> @.due]]
EndsRun(o) == op' = [op EXCEPT ![o] = OpIdle]

PayInit ==
    /\ onPayroll \in SUBSET Staff /\ salaried \in SUBSET Staff
    /\ slips = {}
    /\ op = [o \in Operators |-> OpIdle]
    /\ hrChanges = 0 /\ payCrashes = 0
    /\ raced = [o \in Operators |-> FALSE]

\* Whoever starts beside another has raced it, and the other has too.
Begins(o) == raced' = [q \in Operators |->
                          CASE q = o          -> Busy(o) # {}
                            [] q \in Busy(o)  -> TRUE
                            [] OTHER          -> raced[q]]

\* The employees of the run are those that are active as it starts; `due` (history)
\* are the ones among them with a salary.
StartRun(o) ==
    /\ op[o] = OpIdle
    /\ op' = [op EXCEPT ![o] = [step |-> "next", todo |-> onPayroll, at |-> NoOne,
                                due |-> onPayroll \cap salaried]]
    /\ Begins(o)
    /\ UNCHANGED <<onPayroll, salaried, slips, hrChanges, payCrashes>>

\* The loop takes them in no stated order, and skips one without a salary ...
StopsAtGap(rest) == {}                                                   \* mutant
AfterSkip(rest) == rest

ReadSalary(o, e) ==
    /\ e \in op[o].todo
    /\ IF e \in salaried
         THEN Seek(o, "next", "salary", e)
         ELSE /\ op[o].step = "next"
              /\ op' = [op EXCEPT ![o] = [@ EXCEPT !.todo = AfterSkip(op[o].todo \ {e})]]
    /\ UNCHANGED <<onPayroll, salaried, slips, hrChanges, payCrashes, raced>>

\* ... and one that has a payslip already.
LookForSlip(o) ==
    LET e == op[o].at IN
    /\ IF Paid(e) THEN Seek(o, "salary", "next", NoOne)
       ELSE Seek(o, "salary", "insert", e)
    /\ UNCHANGED <<onPayroll, salaried, slips, hrChanges, payCrashes, raced>>

\* The insert.  Employee, month and year are unique together: who comes second
\* ends its whole run, for all the employees still to do.
MonthIsFree(e) == ~Paid(e)

InsertSlip(o) ==
    LET e == op[o].at IN
    /\ op[o].step = "insert"
    /\ IF MonthIsFree(e)
         THEN /\ slips' = slips \cup {[employee |-> e, payments |-> 0]}
              /\ Seek(o, "insert", "next", NoOne)
         ELSE EndsRun(o) /\ UNCHANGED slips
    /\ UNCHANGED <<onPayroll, salaried, hrChanges, payCrashes, raced>>

\* { generated, skipped } is answered.
AnswerRun(o) ==
    /\ op[o].step = "next" /\ op[o].todo = {}
    /\ EndsRun(o)
    /\ UNCHANGED <<onPayroll, salaried, slips, hrChanges, payCrashes, raced>>

----------------------------------------------------------------------------
\* markAsPaid: looks at the status, then writes it and paidAt by id.
MayPay(s) == s.payments = 0

FindSlip(o) ==
    /\ op[o] = OpIdle
    /\ \E s \in slips : MayPay(s) /\ Seek(o, "idle", "pay", s.employee)
    /\ Begins(o)
    /\ UNCHANGED <<onPayroll, salaried, slips, hrChanges, payCrashes>>

MarkedPaid(s) == [employee |-> s.employee, payments |-> s.payments + 1]

Pay(o) ==
    /\ op[o].step = "pay"
    /\ slips' = {IF s.employee = op[o].at THEN MarkedPaid(s) ELSE s : s \in slips}
    /\ EndsRun(o)
    /\ UNCHANGED <<onPayroll, salaried, hrChanges, payCrashes, raced>>

\* SalaryStructureService.upsert: there is no way to delete one.
Configure(e) ==
    /\ salaried' = salaried \cup {e}
    /\ UNCHANGED <<onPayroll, slips, op, hrChanges, payCrashes, raced>>

\* EmployeesService.update, or an approved leave.
ChangeStatus(e) ==
    /\ hrChanges < MaxHrChanges /\ hrChanges' = hrChanges + 1
    /\ onPayroll' = IF e \in onPayroll THEN onPayroll \ {e} ELSE onPayroll \cup {e}
    /\ UNCHANGED <<salaried, slips, op, payCrashes, raced>>

PayCrash(o) ==
    /\ op[o] # OpIdle
    /\ payCrashes < MaxPayCrashes /\ payCrashes' = payCrashes + 1
    /\ EndsRun(o)
    /\ UNCHANGED <<onPayroll, salaried, slips, hrChanges, raced>>

PayNext ==
    \/ \E o \in Operators :
          \/ StartRun(o) \/ LookForSlip(o) \/ InsertSlip(o) \/ AnswerRun(o)
          \/ FindSlip(o) \/ Pay(o) \/ PayCrash(o)
          \/ \E e \in Staff : ReadSalary(o, e)
    \/ \E e \in Staff : Configure(e) \/ ChangeStatus(e)

----------------------------------------------------------------------------
\* The type invariant: a request is at an employee exactly in its inner steps,
\* and no slip is paid more often than there are requests at once.
PayTypeOK ==
    /\ onPayroll \subseteq Staff /\ salaried \subseteq Staff
    /\ slips \subseteq [employee : Staff, payments : 0..Cardinality(Operators)]
    /\ op \in [Operators -> [step : {"idle", "next", "salary", "insert", "pay"},
                             todo : SUBSET Staff, at : Staff \cup {NoOne},
                             due : SUBSET Staff]]
    /\ \A o \in Operators :
          (op[o].at # NoOne) = (op[o].step \in {"salary", "insert", "pay"})
    /\ hrChanges \in 0..MaxHrChanges /\ payCrashes \in 0..MaxPayCrashes
    /\ raced \in [Operators -> BOOLEAN]

\* Nobody has two payslips for a month, with any number of runs at once,
\* repeated, or resumed after a crash.
OnePayslipPerMonth ==
    \A s, t \in slips : s.employee = t.employee => s = t

\* A run that answers has paid every employee that was active with a salary as it
\* started, whatever changed meanwhile and whatever runs it raced.
CompleteRunPaysEveryone ==
    [][\A o \in Operators : AnswerRun(o) => \A e \in op[o].due : Paid(e)]_payVars

\* A request that nobody races does what it says: its insert is never refused, so
\* a run can be repeated after a crash, and it never pays what was paid.
LoneRequestIsSafe ==
    [][\A o \in Operators : ~raced[o] =>
          /\ InsertSlip(o) => slips' # slips
          /\ Pay(o) => \A s \in slips : s.employee = op[o].at => s.payments = 0
      ]_payVars

\* A month is paid once and completely, over any number of runs and crashes.
MonthIsPaidOnce ==
    []OnePayslipPerMonth /\ CompleteRunPaysEveryone /\ LoneRequestIsSafe
=============================================================================
