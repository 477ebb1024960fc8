---------------------------- MODULE Payroll_proofs ----------------------------
(***************************************************************************)
(* What holds of Payroll for any staff, any number of requests, crashes    *)
(* and changes of status.                                                  *)
(***************************************************************************)
EXTENDS Payroll, FiniteSetTheorems, TLAPS

PaySpec == PayInit /\ [][PayNext]_payVars

InUse(o) == op[o].step # "idle"
Running(o) == op[o].step \in {"next", "salary", "insert"}

-----------------------------------------------------------------------------
(* The shape of the requests and of the payslips.                          *)
OpType == [step : {"idle", "next", "salary", "insert", "pay"},
           todo : SUBSET Staff, at : Staff \cup {NoOne}, due : SUBSET Staff]

Shape ==
  /\ onPayroll \subseteq Staff /\ salaried \subseteq Staff
  /\ slips \subseteq [employee : Staff, payments : Nat]
  /\ op \in [Operators -> OpType]
  /\ \A o \in Operators : /\ op[o].step = "next" => op[o].at = NoOne
                          /\ op[o].step \in {"salary", "insert", "pay"} => op[o].at \in Staff

(* What a request becomes.                                                 *)
LEMMA OpEffect ==
  ASSUME Shape, [PayNext]_payVars, NEW o \in Operators
  PROVE  \/ op'[o] = op[o]
         \/ op'[o] = OpIdle /\ (AnswerRun(o) \/ InsertSlip(o) \/ Pay(o) \/ PayCrash(o))
         \/ /\ StartRun(o)
            /\ op'[o] = [step |-> "next", todo |-> onPayroll, at |-> NoOne,
                         due |-> onPayroll \cap salaried]
         \/ \E e \in op[o].todo :
              /\ op[o].step = "next"
              /\ \/ op'[o] = [step |-> "salary", todo |-> op[o].todo \ {e}, at |-> e,
                              due |-> op[o].due]
                 \/ /\ e \notin salaried
                    /\ op'[o] = [step |-> "next", todo |-> op[o].todo \ {e}, at |-> NoOne,
                                 due |-> op[o].due]
         \/ /\ LookForSlip(o) /\ op[o].step = "salary" /\ Paid(op[o].at)
            /\ op'[o] = [step |-> "next", todo |-> op[o].todo \ {NoOne}, at |-> NoOne,
                         due |-> op[o].due]
         \/ /\ LookForSlip(o) /\ op[o].step = "salary" /\ ~Paid(op[o].at)
            /\ op'[o] = [step |-> "insert", todo |-> op[o].todo \ {op[o].at}, at |-> op[o].at,
                         due |-> op[o].due]
         \/ /\ InsertSlip(o) /\ op[o].step = "insert" /\ ~Paid(op[o].at)
            /\ slips' = slips \cup {[employee |-> op[o].at, payments |-> 0]}
            /\ op'[o] = [step |-> "next", todo |-> op[o].todo \ {NoOne}, at |-> NoOne,
                         due |-> op[o].due]
         \/ \E s \in slips :
              /\ FindSlip(o) /\ op[o] = OpIdle /\ s.payments = 0
              /\ op'[o] = [step |-> "pay", todo |-> op[o].todo \ {s.employee},
                           at |-> s.employee, due |-> op[o].due]
<1>0. op \in [Operators -> OpType]
  BY DEF Shape
<1>1. ASSUME NEW q \in Operators, StartRun(q), op'[o] # op[o]
      PROVE  /\ q = o
             /\ op'[o] = [step |-> "next", todo |-> onPayroll, at |-> NoOne,
                          due |-> onPayroll \cap salaried]
  BY <1>0, <1>1 DEF StartRun
<1>2. ASSUME NEW q \in Operators, LookForSlip(q), op'[o] # op[o]
      PROVE  /\ q = o /\ op[o].step = "salary"
             /\ op'[o] = IF Paid(op[o].at)
                           THEN [step |-> "next", todo |-> op[o].todo \ {NoOne},
                                 at |-> NoOne, due |-> op[o].due]
                           ELSE [step |-> "insert", todo |-> op[o].todo \ {op[o].at},
                                 at |-> op[o].at, due |-> op[o].due]
  BY <1>0, <1>2 DEF LookForSlip, Seek
<1>3. ASSUME NEW q \in Operators, InsertSlip(q), op'[o] # op[o]
      PROVE  /\ q = o /\ op[o].step = "insert"
             /\ Paid(op[o].at) => op'[o] = OpIdle
             /\ ~Paid(op[o].at) =>
                  /\ slips' = slips \cup {[employee |-> op[o].at, payments |-> 0]}
                  /\ op'[o] = [step |-> "next", todo |-> op[o].todo \ {NoOne},
                               at |-> NoOne, due |-> op[o].due]
  BY <1>0, <1>3 DEF InsertSlip, Seek, EndsRun, MonthIsFree
<1>4. ASSUME NEW q \in Operators, AnswerRun(q) \/ Pay(q) \/ PayCrash(q), op'[o] # op[o]
      PROVE  q = o /\ op'[o] = OpIdle
  BY <1>0, <1>4 DEF AnswerRun, Pay, PayCrash, EndsRun
<1>5. ASSUME NEW q \in Operators, FindSlip(q), op'[o] # op[o]
      PROVE  q = o /\ \E s \in slips :
               /\ op[o] = OpIdle /\ s.payments = 0
               /\ op'[o] = [step |-> "pay", todo |-> op[o].todo \ {s.employee},
                            at |-> s.employee, due |-> op[o].due]
  <2>1. op[q] = OpIdle
    BY <1>5 DEF FindSlip
  <2>2. PICK s \in slips : s.payments = 0 /\ Seek(q, "idle", "pay", s.employee)
    BY <1>5 DEF FindSlip, MayPay
  <2>3. op' = [op EXCEPT ![q] = [step |-> "pay", todo |-> op[q].todo \ {s.employee},
                                 at |-> s.employee, due |-> op[q].due]]
    BY <2>2 DEF Seek
  <2>4. q = o
    BY <1>0, <1>5, <2>3
  <2> QED
    BY <1>0, <2>1, <2>2, <2>3, <2>4
<1>6. ASSUME NEW q \in Operators, NEW e \in Staff, ReadSalary(q, e), op'[o] # op[o]
      PROVE  /\ q = o /\ e \in op[o].todo /\ op[o].step = "next"
             /\ \/ op'[o] = [step |-> "salary", todo |-> op[o].todo \ {e}, at |-> e,
                             due |-> op[o].due]
                \/ /\ e \notin salaried
                   /\ op'[o] = [step |-> "next", todo |-> op[o].todo \ {e}, at |-> NoOne,
                                due |-> op[o].due]
  <2>1. CASE e \in salaried
    BY <1>0, <1>6, <2>1 DEF ReadSalary, Seek
  <2>2. CASE e \notin salaried
    <3> DEFINE k == [op[q] EXCEPT !.todo = op[q].todo \ {e}]
    <3>1. op' = [op EXCEPT ![q] = k] /\ op[q].step = "next" /\ e \in op[q].todo
      BY <1>6, <2>2 DEF ReadSalary, AfterSkip
    <3> HIDE DEF k
    <3>2. q = o /\ op'[o] = k
      BY <1>0, <1>6, <3>1
    <3>3. op[o] \in OpType /\ op[o].at = NoOne
      BY <3>1, <3>2 DEF Shape
    <3>4. k = [step |-> "next", todo |-> op[o].todo \ {e}, at |-> NoOne, due |-> op[o].due]
      BY <3>1, <3>2, <3>3 DEF k, OpType
    <3> QED
      BY <2>2, <3>1, <3>2, <3>4
  <2> QED
    BY <2>1, <2>2
<1>7. CASE (\E e \in Staff : Configure(e) \/ ChangeStatus(e)) \/ UNCHANGED payVars
  BY <1>7 DEF Configure, ChangeStatus, payVars
<1> QED
  BY <1>1, <1>2, <1>3, <1>4, <1>5, <1>6, <1>7 DEF PayNext

(* What happens to the payslips: one is added, or those of one employee are *)
(* marked.                                                                 *)
Mark(s, e) == IF s.employee = e THEN MarkedPaid(s) ELSE s

LEMMA SlipsEffect ==
  ASSUME Shape, [PayNext]_payVars
  PROVE  \/ slips' = slips
         \/ \E o \in Operators :
              /\ op[o].step = "insert" /\ ~Paid(op[o].at)
              /\ slips' = slips \cup {[employee |-> op[o].at, payments |-> 0]}
         \/ \E o \in Operators :
              /\ Pay(o) /\ op[o].step = "pay"
              /\ slips' = {Mark(s, op[o].at) : s \in slips}
<1>1. ASSUME NEW o \in Operators, InsertSlip(o)
      PROVE  \/ slips' = slips
             \/ /\ op[o].step = "insert" /\ ~Paid(op[o].at)
                /\ slips' = slips \cup {[employee |-> op[o].at, payments |-> 0]}
  BY <1>1 DEF InsertSlip, MonthIsFree
<1>2. ASSUME NEW o \in Operators, Pay(o)
      PROVE  op[o].step = "pay" /\ slips' = {Mark(s, op[o].at) : s \in slips}
  BY <1>2 DEF Pay, Mark
<1> QED
  BY <1>1, <1>2 DEF PayNext, payVars, StartRun, LookForSlip, AnswerRun, FindSlip, PayCrash,
                    ReadSalary, Configure, ChangeStatus

LEMMA SlipsChange ==
  ASSUME [PayNext]_payVars
  PROVE  slips' = slips \/ \E o \in Operators : InsertSlip(o) \/ Pay(o)
BY DEF PayNext, payVars, StartRun, LookForSlip, AnswerRun, FindSlip, PayCrash,
       ReadSalary, Configure, ChangeStatus

LEMMA ShapeStep ==
  ASSUME Shape, [PayNext]_payVars
  PROVE  Shape' /\ salaried \subseteq salaried'
<1>0. /\ onPayroll \subseteq Staff /\ salaried \subseteq Staff
      /\ slips \subseteq [employee : Staff, payments : Nat]
      /\ op \in [Operators -> OpType] /\ NoOne \notin Staff
  BY PayrollAssumption DEF Shape
<1>1. /\ onPayroll' \subseteq Staff /\ salaried' \subseteq Staff /\ salaried \subseteq salaried'
  BY <1>0 DEF PayNext, payVars, StartRun, LookForSlip, InsertSlip, AnswerRun, FindSlip, Pay,
              PayCrash, ReadSalary, Configure, ChangeStatus
<1>2. slips' \subseteq [employee : Staff, payments : Nat]
  <2>1. ASSUME NEW e, NEW s \in slips
        PROVE  Mark(s, e) \in [employee : Staff, payments : Nat]
    BY <1>0 DEF Mark, MarkedPaid
  <2>2. ASSUME NEW o \in Operators, op[o].step = "insert"
        PROVE  [employee |-> op[o].at, payments |-> 0] \in [employee : Staff, payments : Nat]
    BY <2>2 DEF Shape
  <2> QED
    BY <1>0, <2>1, <2>2, SlipsEffect
<1>3. ASSUME NEW o \in Operators
      PROVE  /\ op'[o] \in OpType
             /\ op'[o].step = "next" => op'[o].at = NoOne
             /\ op'[o].step \in {"salary", "insert", "pay"} => op'[o].at \in Staff
  <2>1. /\ op[o] \in OpType
        /\ op[o].step = "next" => op[o].at = NoOne
        /\ op[o].step \in {"salary", "insert", "pay"} => op[o].at \in Staff
    BY DEF Shape
  <2>2. \A s \in slips : s.employee \in Staff
    BY <1>0
  <2>3. OpIdle \in OpType /\ OpIdle.step = "idle"
    BY DEF OpIdle, OpType
  <2>5. ASSUME NEW d, op'[o] = [step |-> "next", todo |-> op[o].todo \ {d}, at |-> NoOne,
                                due |-> op[o].due]
        PROVE  op'[o] \in OpType /\ op'[o].step = "next" /\ op'[o].at = NoOne
    BY <2>1, <2>5 DEF OpType
  <2>8. ASSUME NEW d, NEW e \in Staff, NEW k \in {"salary", "insert", "pay"},
               op'[o] = [step |-> k, todo |-> op[o].todo \ {d}, at |-> e, due |-> op[o].due]
        PROVE  op'[o] \in OpType /\ op'[o].step # "next" /\ op'[o].at \in Staff
    BY <2>1, <2>8 DEF OpType
  <2>6. ASSUME op'[o] = [step |-> "next", todo |-> onPayroll, at |-> NoOne,
                         due |-> onPayroll \cap salaried]
        PROVE  op'[o] \in OpType /\ op'[o].step = "next" /\ op'[o].at = NoOne
    BY <1>0, <2>6 DEF OpType
  <2>7. \A e \in op[o].todo : e \in Staff
    BY <2>1 DEF OpType
  <2> QED
    <3> DEFINE Good == /\ op'[o] \in OpType
                       /\ op'[o].step = "next" => op'[o].at = NoOne
                       /\ op'[o].step \in {"salary", "insert", "pay"} => op'[o].at \in Staff
    <3>1. ASSUME NEW d \in op[o].todo,
                 op'[o] = [step |-> "salary", todo |-> op[o].todo \ {d}, at |-> d,
                           due |-> op[o].due]
          PROVE  Good
      BY <2>7, <2>8, <3>1
    <3>2. ASSUME NEW s \in slips,
                 op'[o] = [step |-> "pay", todo |-> op[o].todo \ {s.employee},
                           at |-> s.employee, due |-> op[o].due]
          PROVE  Good
      BY <2>2, <2>8, <3>2
    <3>3. CASE op[o].step = "salary"
               /\ op'[o] = [step |-> "insert", todo |-> op[o].todo \ {op[o].at},
                            at |-> op[o].at, due |-> op[o].due]
      BY <2>1, <2>8, <3>3
    <3>4. CASE op'[o] = [step |-> "next", todo |-> op[o].todo \ {NoOne}, at |-> NoOne,
                         due |-> op[o].due]
      BY <2>5, <3>4
    <3>5. CASE op'[o] = op[o] \/ op'[o] = OpIdle
               \/ op'[o] = [step |-> "next", todo |-> onPayroll, at |-> NoOne,
                            due |-> onPayroll \cap salaried]
      BY <2>1, <2>3, <2>6, <3>5
    <3>6. ASSUME NEW d, op'[o] = [step |-> "next", todo |-> op[o].todo \ {d}, at |-> NoOne,
                                  due |-> op[o].due]
          PROVE  Good
      BY <2>5, <3>6
    <3>7. Good
      <4>1. \/ op'[o] = op[o] \/ op'[o] = OpIdle
            \/ op'[o] = [step |-> "next", todo |-> onPayroll, at |-> NoOne,
                         due |-> onPayroll \cap salaried]
            \/ \E d : op'[o] = [step |-> "next", todo |-> op[o].todo \ {d}, at |-> NoOne,
                                due |-> op[o].due]
            \/ \E d \in op[o].todo :
                 op'[o] = [step |-> "salary", todo |-> op[o].todo \ {d}, at |-> d,
                           due |-> op[o].due]
            \/ \E s \in slips :
                 op'[o] = [step |-> "pay", todo |-> op[o].todo \ {s.employee},
                           at |-> s.employee, due |-> op[o].due]
            \/ /\ op[o].step = "salary"
               /\ op'[o] = [step |-> "insert", todo |-> op[o].todo \ {op[o].at},
                            at |-> op[o].at, due |-> op[o].due]
        BY OpEffect
      <4> QED
        BY <3>1, <3>2, <3>3, <3>5, <3>6, <4>1
    <3> QED
      BY <3>7 DEF Good
<1>4. op' \in [Operators -> OpType]
  <2>1. DOMAIN op' = Operators /\ op' = [o \in Operators |-> op'[o]]
    BY <1>0 DEF PayNext, payVars, StartRun, LookForSlip, InsertSlip, AnswerRun, FindSlip, Pay,
              PayCrash, ReadSalary, Configure, ChangeStatus, Seek, EndsRun
  <2> QED
    BY <1>3, <2>1
<1> QED
  BY <1>1, <1>2, <1>3, <1>4 DEF Shape

-----------------------------------------------------------------------------
(* One payslip.                                                            *)
LEMMA PaidStays ==
  ASSUME Shape, [PayNext]_payVars, NEW e, Paid(e)
  PROVE  Paid(e)'
<1>1. PICK s \in slips : s.employee = e
  BY DEF Paid
<1>2. ASSUME NEW a PROVE Mark(s, a).employee = e
  BY <1>1 DEF Mark, MarkedPaid
<1>3. s \in slips' \/ \E a : Mark(s, a) \in slips'
  BY SlipsEffect
<1> QED
  BY <1>1, <1>2, <1>3 DEF Paid

LEMMA OneSlipStep ==
  ASSUME Shape, OnePayslipPerMonth, [PayNext]_payVars
  PROVE  OnePayslipPerMonth'
<1>1. ASSUME NEW o \in Operators, ~Paid(op[o].at),
             slips' = slips \cup {[employee |-> op[o].at, payments |-> 0]}
      PROVE  OnePayslipPerMonth'
  BY <1>1 DEF OnePayslipPerMonth, Paid
<1>2. ASSUME NEW a, slips' = {Mark(s, a) : s \in slips}
      PROVE  OnePayslipPerMonth'
  <2>1. \A s \in slips : Mark(s, a).employee = s.employee
    BY DEF Mark, MarkedPaid
  <2> QED
    BY <1>2, <2>1 DEF OnePayslipPerMonth
<1> QED
  BY <1>1, <1>2, SlipsEffect DEF OnePayslipPerMonth

-----------------------------------------------------------------------------
(* Whom a run owes a payslip: it is still to do, under way, or paid.       *)
Owed ==
  \A o \in Operators : Running(o) =>
    \A e \in op[o].due :
      /\ e \in salaried
      /\ e \in op[o].todo \/ e = op[o].at \/ Paid(e)

LEMMA OwedStep ==
  ASSUME Shape, Owed, [PayNext]_payVars
  PROVE  Owed'
<1> SUFFICES ASSUME NEW o \in Operators, Running(o)', NEW e \in op'[o].due
             PROVE  e \in salaried' /\ (e \in op'[o].todo \/ e = op'[o].at \/ Paid(e)')
  BY DEF Owed
<1>0. salaried \subseteq salaried' /\ NoOne \notin Staff /\ op[o] \in OpType
  BY ShapeStep, PayrollAssumption DEF Shape
<1>1. CASE Running(o) /\ op'[o].due = op[o].due /\ op[o].todo \subseteq op'[o].todo
           /\ op'[o].at = op[o].at
  BY <1>0, <1>1, PaidStays DEF Owed
<1>2. CASE op'[o] = OpIdle \/ op'[o].step = "pay"
  BY <1>2 DEF Running, OpIdle
<1>3. CASE op'[o] = [step |-> "next", todo |-> onPayroll, at |-> NoOne,
                     due |-> onPayroll \cap salaried]
  BY <1>0, <1>3
<1>4. ASSUME NEW d \in op[o].todo, op[o].step = "next",
             op'[o] = [step |-> "salary", todo |-> op[o].todo \ {d}, at |-> d,
                       due |-> op[o].due]
      PROVE  e \in salaried' /\ (e \in op'[o].todo \/ e = op'[o].at \/ Paid(e)')
  <2>1. e \in salaried /\ (e \in op[o].todo \/ e = NoOne \/ Paid(e)) /\ e \in Staff
    BY <1>0, <1>4 DEF Owed, Running, Shape, OpType
  <2> QED
    BY <1>0, <1>4, <2>1, PaidStays
<1>5. ASSUME NEW d \in op[o].todo, op[o].step = "next", d \notin salaried,
             op'[o] = [step |-> "next", todo |-> op[o].todo \ {d}, at |-> NoOne,
                       due |-> op[o].due]
      PROVE  e \in salaried' /\ (e \in op'[o].todo \/ e = op'[o].at \/ Paid(e)')
  <2>1. op'[o].due = op[o].due /\ op'[o].at = op[o].at /\ op'[o].todo = op[o].todo \ {d}
    BY <1>0, <1>5 DEF Shape
  <2>2. e \in salaried /\ (e \in op[o].todo \/ e = op[o].at \/ Paid(e))
    BY <1>5, <2>1 DEF Owed, Running
  <2> QED
    BY <1>0, <1>5, <2>1, <2>2, PaidStays
<1>6. ASSUME op[o].step = "salary" \/ op[o].step = "insert",
             NEW a, a = op[o].at, Paid(a)',
             op'[o] = [step |-> "next", todo |-> op[o].todo \ {NoOne}, at |-> NoOne,
                       due |-> op[o].due]
      PROVE  e \in salaried' /\ (e \in op'[o].todo \/ e = op'[o].at \/ Paid(e)')
  <2>1. e \in salaried /\ (e \in op[o].todo \/ e = a \/ Paid(e)) /\ e \in Staff
    BY <1>0, <1>6 DEF Owed, Running, OpType
  <2>2. CASE e = a
    BY <1>0, <1>6, <2>1, <2>2
  <2>3. CASE e \in op[o].todo \/ Paid(e)
    BY <1>0, <1>6, <2>1, <2>3, PaidStays
  <2> QED
    BY <2>1, <2>2, <2>3
<1>7. ASSUME op[o].step = "salary", NEW a, a = op[o].at,
             op'[o] = [step |-> "insert", todo |-> op[o].todo \ {a}, at |-> a,
                       due |-> op[o].due]
      PROVE  e \in salaried' /\ (e \in op'[o].todo \/ e = op'[o].at \/ Paid(e)')
  <2>1. e \in salaried /\ (e \in op[o].todo \/ e = a \/ Paid(e))
    BY <1>7 DEF Owed, Running
  <2>2. op'[o].todo = op[o].todo \ {a} /\ op'[o].at = a
    BY <1>7
  <2>3. Paid(e) => Paid(e)'
    BY PaidStays
  <2>4. e \in op[o].todo => e \in op'[o].todo \/ e = a
    BY <2>2
  <2> QED
    BY <1>0, <2>1, <2>2, <2>3, <2>4
<1>8. CASE op'[o] = op[o]
  <2>1. Running(o)
    BY <1>8 DEF Running
  <2> QED
    BY <1>1, <1>8, <2>1
<1>9. ASSUME NEW a, a = op[o].at
      PROVE  /\ Paid(a) => Paid(a)'
             /\ slips' = slips \cup {[employee |-> a, payments |-> 0]} => Paid(a)'
  <2>1. Paid(a) => Paid(a)'
    BY PaidStays
  <2>2. ASSUME slips' = slips \cup {[employee |-> a, payments |-> 0]}
        PROVE  Paid(a)'
    <3>1. [employee |-> a, payments |-> 0] \in slips'
      BY <2>2
    <3>2. [employee |-> a, payments |-> 0].employee = a
      OBVIOUS
    <3> QED
      BY <3>1, <3>2 DEF Paid
  <2> QED
    BY <2>1, <2>2
<1>10. CASE \/ /\ op[o].step = "salary" /\ Paid(op[o].at)
               /\ op'[o] = [step |-> "next", todo |-> op[o].todo \ {NoOne}, at |-> NoOne,
                            due |-> op[o].due]
            \/ /\ op[o].step = "insert"
               /\ slips' = slips \cup {[employee |-> op[o].at, payments |-> 0]}
               /\ op'[o] = [step |-> "next", todo |-> op[o].todo \ {NoOne}, at |-> NoOne,
                            due |-> op[o].due]
  <2> DEFINE a == op[o].at
  <2>1. PICK b : b = a
    OBVIOUS
  <2>2. Paid(b)'
    BY <1>9, <1>10, <2>1
  <2> QED
    BY <1>6, <1>10, <2>1, <2>2
<1>11. CASE op[o].step = "salary" /\ op'[o] = [step |-> "insert",
              todo |-> op[o].todo \ {op[o].at}, at |-> op[o].at, due |-> op[o].due]
  <2>1. PICK b : b = op[o].at
    OBVIOUS
  <2> QED
    BY <1>7, <1>11, <2>1
<1>12. ASSUME NEW s \in slips, op'[o] = [step |-> "pay", todo |-> op[o].todo \ {s.employee},
                                         at |-> s.employee, due |-> op[o].due]
       PROVE  op'[o].step = "pay"
  BY <1>12
<1> QED
  BY <1>2, <1>3, <1>4, <1>5, <1>8, <1>10, <1>11, <1>12, OpEffect

-----------------------------------------------------------------------------
(* A request that nobody races: no other is in flight, so what it read is   *)
(* what it writes over.                                                    *)
Alone ==
  \A o, q \in Operators : o # q /\ InUse(o) /\ InUse(q) => raced[o]

Current ==
  \A o \in Operators : ~raced[o] =>
    /\ op[o].step = "insert" => ~Paid(op[o].at)
    /\ op[o].step = "pay" => \A s \in slips : s.employee = op[o].at => s.payments = 0

(* Either one request begins and the others stay where they are, or nobody *)
(* begins.                                                                 *)
LEMMA RaceEffect ==
  ASSUME Shape, [PayNext]_payVars
  PROVE  \/ \E q \in Operators :
               /\ Begins(q) /\ op[q] = OpIdle /\ slips' = slips
               /\ \A o \in Operators \ {q} : op'[o] = op[o]
         \/ /\ raced' = raced
            /\ \A o \in Operators : InUse(o)' => InUse(o)
<1>0. op \in [Operators -> OpType]
  BY DEF Shape
<1>1. ASSUME NEW q \in Operators, StartRun(q) \/ FindSlip(q)
      PROVE  /\ Begins(q) /\ op[q] = OpIdle /\ slips' = slips
             /\ \A o \in Operators \ {q} : op'[o] = op[o]
  BY <1>0, <1>1 DEF StartRun, FindSlip, Seek
<1>2. ASSUME NEW q \in Operators, LookForSlip(q) \/ InsertSlip(q)
      PROVE  raced' = raced /\ \A o \in Operators : InUse(o)' => InUse(o)
  BY <1>0, <1>2 DEF LookForSlip, InsertSlip, Seek, EndsRun, InUse, OpIdle
<1>3. ASSUME NEW q \in Operators, AnswerRun(q) \/ Pay(q) \/ PayCrash(q)
      PROVE  raced' = raced /\ \A o \in Operators : InUse(o)' => InUse(o)
  BY <1>0, <1>3 DEF AnswerRun, Pay, PayCrash, EndsRun, InUse, OpIdle
<1>4. ASSUME NEW q \in Operators, NEW e \in Staff, ReadSalary(q, e)
      PROVE  raced' = raced /\ \A o \in Operators : InUse(o)' => InUse(o)
  <2>1. op[q].step = "next" /\ raced' = raced
    BY <1>4 DEF ReadSalary, Seek
  <2>2. \A o \in Operators \ {q} : op'[o] = op[o]
    BY <1>0, <1>4 DEF ReadSalary, Seek
  <2> QED
    BY <2>1, <2>2 DEF InUse
<1>5. CASE (\E e \in Staff : Configure(e) \/ ChangeStatus(e)) \/ UNCHANGED payVars
  BY <1>5 DEF Configure, ChangeStatus, payVars, InUse
<1> QED
  BY <1>1, <1>2, <1>3, <1>4, <1>5 DEF PayNext

(* Who was in flight and is not raced after a step was not raced before.    *)
LEMMA RaceStays ==
  ASSUME Shape, [PayNext]_payVars, NEW o \in Operators, InUse(o), ~raced'[o]
  PROVE  ~raced[o] /\ raced' = raced
<1>1. ASSUME NEW q \in Operators, Begins(q), op[q] = OpIdle
      PROVE  raced'[o] = TRUE
  <2>1. o # q /\ o \in Busy(q)
    BY <1>1 DEF InUse, Busy, OpIdle
  <2> QED
    BY <1>1, <2>1 DEF Begins
<1> QED
  BY <1>1, RaceEffect

LEMMA AloneStep ==
  ASSUME Shape, Alone, [PayNext]_payVars
  PROVE  Alone'
<1> SUFFICES ASSUME NEW o \in Operators, NEW p \in Operators, o # p, InUse(o)', InUse(p)'
             PROVE  raced'[o]
  BY DEF Alone
<1>1. CASE raced' = raced /\ \A q \in Operators : InUse(q)' => InUse(q)
  BY <1>1 DEF Alone
<1>2. ASSUME NEW q \in Operators, Begins(q), op[q] = OpIdle,
             \A r \in Operators \ {q} : op'[r] = op[r]
      PROVE  raced'[o]
  <2>1. CASE o = q
    <3>1. p \in Busy(q)
      BY <1>2, <2>1 DEF Busy, InUse
    <3> QED
      BY <1>2, <2>1, <3>1 DEF Begins
  <2>2. CASE o # q
    <3>1. o \in Busy(q)
      BY <1>2, <2>2 DEF Busy, InUse
    <3> QED
      BY <1>2, <2>2, <3>1 DEF Begins
  <2> QED
    BY <2>1, <2>2
<1> QED
  BY <1>1, <1>2, RaceEffect

LEMMA CurrentStep ==
  ASSUME Shape, OnePayslipPerMonth, Alone, Current, [PayNext]_payVars
  PROVE  Current'
<1> SUFFICES ASSUME NEW o \in Operators, ~raced'[o]
             PROVE  /\ op'[o].step = "insert" => \A s \in slips' : s.employee # op'[o].at
                    /\ op'[o].step = "pay" =>
                         \A s \in slips' : s.employee = op'[o].at => s.payments = 0
  BY DEF Current, Paid
(* Nobody else writes a payslip while it is in flight ...                  *)
<1>1. ASSUME InUse(o), op'[o].step \in {"insert", "pay"}
      PROVE  ~raced[o] /\ slips' = slips
  <2>1. ~raced[o]
    BY <1>1, RaceStays
  <2>2. ASSUME NEW q \in Operators, InUse(q)
        PROVE  q = o
    BY <1>1, <2>1, <2>2 DEF Alone
  <2>3. ASSUME NEW q \in Operators, InsertSlip(q) \/ Pay(q)
        PROVE  slips' = slips \/ op'[q] = OpIdle \/ op'[q].step = "next"
    BY <2>3 DEF InsertSlip, Pay, Seek, EndsRun, Shape
  <2>4. ASSUME NEW q \in Operators, InsertSlip(q) \/ Pay(q)
        PROVE  InUse(q)
    BY <2>4 DEF InsertSlip, Pay, InUse, Seek
  <2> QED
    BY <1>1, <2>1, <2>2, <2>3, <2>4, SlipsChange DEF OpIdle
(* ... and what it holds it has read in flight, or as it began.            *)
<1>2. CASE op'[o] = op[o]
  <2>1. CASE op[o].step \in {"insert", "pay"}
    BY <1>1, <1>2, <2>1 DEF InUse, Current, Paid
  <2> QED
    BY <1>2, <2>1
<1>3. CASE op[o].step = "salary" /\ LookForSlip(o) /\ ~Paid(op[o].at)
           /\ op'[o] = [step |-> "insert", todo |-> op[o].todo \ {op[o].at}, at |-> op[o].at,
                        due |-> op[o].due]
  BY <1>3 DEF LookForSlip, Paid
<1>4. ASSUME NEW s \in slips, FindSlip(o), s.payments = 0,
             op'[o] = [step |-> "pay", todo |-> op[o].todo \ {s.employee},
                       at |-> s.employee, due |-> op[o].due]
      PROVE  /\ op'[o].step = "pay"
             /\ \A r \in slips' : r.employee = op'[o].at => r.payments = 0
  BY <1>4 DEF FindSlip, OnePayslipPerMonth
<1>5. CASE \/ op'[o] = OpIdle
           \/ op'[o] = [step |-> "next", todo |-> onPayroll, at |-> NoOne,
                        due |-> onPayroll \cap salaried]
           \/ \E d : op'[o] = [step |-> "next", todo |-> op[o].todo \ {d}, at |-> NoOne,
                               due |-> op[o].due]
           \/ \E d : op'[o] = [step |-> "salary", todo |-> op[o].todo \ {d}, at |-> d,
                               due |-> op[o].due]
  <2>1. CASE op'[o] = OpIdle
    BY <2>1 DEF OpIdle
  <2>2. ASSUME NEW S, NEW D, op'[o] = [step |-> "next", todo |-> S, at |-> NoOne, due |-> D]
        PROVE  op'[o].step = "next"
    BY <2>2
  <2>3. ASSUME NEW S, NEW D, NEW e,
               op'[o] = [step |-> "salary", todo |-> S, at |-> e, due |-> D]
        PROVE  op'[o].step = "salary"
    BY <2>3
  <2> QED
    BY <1>5, <2>1, <2>2, <2>3
<1> QED
  <2>1. ASSUME NEW s \in slips, FindSlip(o), s.payments = 0,
               op'[o] = [step |-> "pay", todo |-> op[o].todo \ {s.employee},
                         at |-> s.employee, due |-> op[o].due]
        PROVE  /\ op'[o].step # "insert"
               /\ \A r \in slips' : r.employee = op'[o].at => r.payments = 0
    BY <1>4, <2>1
  <2> QED
    BY <1>2, <1>3, <1>5, <2>1, OpEffect

-----------------------------------------------------------------------------
PayInv == Shape /\ OnePayslipPerMonth /\ Owed /\ Alone /\ Current

(* The inductive invariant: the shapes, one payslip a month, whom a run     *)
(* owes one, and what a request without a rival knows.                      *)
THEOREM PayInvariance == PaySpec => []PayInv
<1>1. PayInit => PayInv
  BY DEF PayInit, PayInv, Shape, OpType, OpIdle, OnePayslipPerMonth, Owed, Running, Alone,
         InUse, Current
<1>2. PayInv /\ [PayNext]_payVars => PayInv'
  <2> SUFFICES ASSUME PayInv, [PayNext]_payVars
               PROVE  PayInv'
    OBVIOUS
  <2>1. Shape /\ OnePayslipPerMonth /\ Owed /\ Alone /\ Current
    BY DEF PayInv
  <2> QED
    BY <2>1, ShapeStep, OneSlipStep, OwedStep, AloneStep, CurrentStep DEF PayInv
<1> QED
  BY <1>1, <1>2, PTL DEF PaySpec

(* A month is paid once and completely, for any staff, any number of        *)
(* requests at once, crashes and changes of status: nobody has two          *)
(* payslips, a run that answers has paid everybody it owed one, and a       *)
(* request without a rival is never refused and never pays twice.           *)
THEOREM PaidOnce == PaySpec => MonthIsPaidOnce
<1>1. PayInv => OnePayslipPerMonth
  BY DEF PayInv
<1>2. ASSUME PayInv, [PayNext]_payVars
      PROVE  [\A o \in Operators : AnswerRun(o) => \A e \in op[o].due : Paid(e)]_payVars
  <2>1. ASSUME NEW o \in Operators, AnswerRun(o), NEW e \in op[o].due
        PROVE  Paid(e)
    <3>1. op[o].step = "next" /\ op[o].todo = {} /\ op[o].at = NoOne /\ e # NoOne
      BY <1>2, <2>1, PayrollAssumption DEF AnswerRun, PayInv, Shape, OpType
    <3> QED
      BY <1>2, <2>1, <3>1 DEF PayInv, Owed, Running
  <2> QED
    BY <2>1
<1>3. ASSUME PayInv, [PayNext]_payVars
      PROVE  [\A o \in Operators : ~raced[o] =>
                /\ InsertSlip(o) => slips' # slips
                /\ Pay(o) => \A s \in slips : s.employee = op[o].at => s.payments = 0]_payVars
  <2>1. ASSUME NEW o \in Operators, ~raced[o], InsertSlip(o)
        PROVE  slips' # slips
    <3>1. ~Paid(op[o].at) /\ slips' = slips \cup {[employee |-> op[o].at, payments |-> 0]}
      BY <1>3, <2>1 DEF InsertSlip, MonthIsFree, PayInv, Current
    <3>2. [employee |-> op[o].at, payments |-> 0].employee = op[o].at
      OBVIOUS
    <3> QED
      BY <3>1, <3>2 DEF Paid
  <2>2. ASSUME NEW o \in Operators, ~raced[o], Pay(o)
        PROVE  \A s \in slips : s.employee = op[o].at => s.payments = 0
    BY <1>3, <2>2 DEF Pay, PayInv, Current
  <2> QED
    BY <2>1, <2>2
<1> QED
  BY <1>1, <1>2, <1>3, PayInvariance, PTL
     DEF PaySpec, MonthIsPaidOnce, CompleteRunPaysEveryone, LoneRequestIsSafe
-----------------------------------------------------------------------------
(* Who is about to pay the slip of an employee, and how often it may have  *)
(* been paid by then.                                                      *)
Payers(ops, e) == {o \in Operators : ops[o].step = "pay" /\ ops[o].at = e}
Bounded(n, payers) == n = 0 \/ n + Cardinality(payers) <= Cardinality(Operators)

PayTypes ==
  /\ \A o \in Operators : op[o].step = "idle" => op[o].at = NoOne
  /\ hrChanges \in 0..MaxHrChanges /\ payCrashes \in 0..MaxPayCrashes
  /\ raced \in [Operators -> BOOLEAN]
  /\ \A s \in slips : Bounded(s.payments, Payers(op, s.employee))

LEMMA PayersAreFinite ==
  \A ops, e : /\ IsFiniteSet(Payers(ops, e)) /\ Cardinality(Payers(ops, e)) \in Nat
              /\ Cardinality(Payers(ops, e)) <= Cardinality(Operators)
              /\ Cardinality(Operators) \in Nat
<1>1. \A ops, e : Payers(ops, e) \in SUBSET Operators
  BY DEF Payers
<1> QED
  BY <1>1, PayrollAssumption, FS_Subset, FS_CardinalityType

(* Whoever is about to pay a slip has found it unpaid.                     *)
LEMMA OpSteps ==
  ASSUME Shape, [PayNext]_payVars, NEW o \in Operators
  PROVE  \/ op'[o] = op[o] \/ op'[o] = OpIdle
         \/ op'[o].step \in {"next", "salary", "insert"}
         \/ \E t \in slips : t.payments = 0 /\ op'[o].step = "pay" /\ op'[o].at = t.employee
<1> DEFINE Goal == \/ op'[o] = op[o] \/ op'[o] = OpIdle
                   \/ op'[o].step \in {"next", "salary", "insert"}
                   \/ \E t \in slips :
                        t.payments = 0 /\ op'[o].step = "pay" /\ op'[o].at = t.employee
<1>1. ASSUME NEW S, NEW e, NEW T, op'[o] = [step |-> "next", todo |-> S, at |-> e, due |-> T]
      PROVE  Goal
  BY <1>1
<1>2. ASSUME NEW S, NEW e, NEW T, op'[o] = [step |-> "salary", todo |-> S, at |-> e, due |-> T]
      PROVE  Goal
  BY <1>2
<1>3. ASSUME NEW S, NEW e, NEW T, op'[o] = [step |-> "insert", todo |-> S, at |-> e, due |-> T]
      PROVE  Goal
  BY <1>3
<1>4. ASSUME NEW t \in slips, t.payments = 0, NEW S, NEW T,
             op'[o] = [step |-> "pay", todo |-> S, at |-> t.employee, due |-> T]
      PROVE  Goal
  BY <1>4
<1>5. \/ op'[o] = op[o] \/ op'[o] = OpIdle
      \/ op'[o] = [step |-> "next", todo |-> onPayroll, at |-> NoOne,
                   due |-> onPayroll \cap salaried]
      \/ \E d : op'[o] = [step |-> "next", todo |-> op[o].todo \ {d}, at |-> NoOne,
                          due |-> op[o].due]
      \/ \E d \in op[o].todo :
           op'[o] = [step |-> "salary", todo |-> op[o].todo \ {d}, at |-> d,
                     due |-> op[o].due]
      \/ \E t \in slips : t.payments = 0 /\
           op'[o] = [step |-> "pay", todo |-> op[o].todo \ {t.employee},
                     at |-> t.employee, due |-> op[o].due]
      \/ op'[o] = [step |-> "insert", todo |-> op[o].todo \ {op[o].at},
                   at |-> op[o].at, due |-> op[o].due]
  BY OpEffect
<1> QED
  BY <1>1, <1>2, <1>3, <1>4, <1>5

(* Nobody new is about to pay a slip that is paid.                         *)
LEMMA NoNewPayer ==
  ASSUME PayInv, [PayNext]_payVars, NEW s \in slips, s.payments # 0
  PROVE  Payers(op', s.employee) \subseteq Payers(op, s.employee)
<1>1. SUFFICES ASSUME NEW o \in Operators, op'[o].step = "pay", op'[o].at = s.employee,
                      op'[o] # op[o]
               PROVE  FALSE
  BY DEF Payers
<1>2. PICK t \in slips : t.payments = 0 /\ t.employee = s.employee
  BY <1>1, OpSteps DEF PayInv, OpIdle
<1> QED
  BY <1>2 DEF PayInv, OnePayslipPerMonth

LEMMA PaymentsStep ==
  ASSUME PayInv, \A s \in slips : Bounded(s.payments, Payers(op, s.employee)), [PayNext]_payVars
  PROVE  \A s \in slips' : Bounded(s.payments, Payers(op', s.employee))
<1>1. ASSUME NEW s \in slips PROVE Bounded(s.payments, Payers(op', s.employee))
  <2>1. CASE s.payments = 0
    BY <2>1 DEF Bounded
  <2>2. CASE s.payments # 0
    <3>1. Payers(op', s.employee) \in SUBSET Payers(op, s.employee)
      BY <2>2, NoNewPayer
    <3>2. Cardinality(Payers(op', s.employee)) <= Cardinality(Payers(op, s.employee))
      BY <3>1, PayersAreFinite, FS_Subset
    <3>3. s.payments \in Nat
      BY DEF PayInv, Shape
    <3> QED
      BY <2>2, <3>2, <3>3, PayersAreFinite DEF Bounded
  <2> QED
    BY <2>1, <2>2
<1>2. CASE slips' = slips
  BY <1>1, <1>2
<1>3. ASSUME NEW o \in Operators, slips' = slips \cup {[employee |-> op[o].at, payments |-> 0]}
      PROVE  \A s \in slips' : Bounded(s.payments, Payers(op', s.employee))
  <2>1. \A s : s = [employee |-> op[o].at, payments |-> 0] =>
          Bounded(s.payments, Payers(op', s.employee))
    BY DEF Bounded
  <2> QED
    BY <1>1, <1>3, <2>1
<1>4. ASSUME NEW o \in Operators, Pay(o), op[o].step = "pay",
             slips' = {Mark(s, op[o].at) : s \in slips}
      PROVE  \A s \in slips' : Bounded(s.payments, Payers(op', s.employee))
  <2>1. SUFFICES ASSUME NEW s \in slips, NEW m, m = Mark(s, op[o].at)
                 PROVE  Bounded(m.payments, Payers(op', m.employee))
    BY <1>4
  <2>2. CASE s.employee # op[o].at
    BY <1>1, <2>1, <2>2 DEF Mark
  <2>3. CASE s.employee = op[o].at
    <3>1. m.employee = s.employee /\ m.payments = s.payments + 1
      BY <2>1, <2>3 DEF Mark, MarkedPaid
    <3>2. Payers(op', s.employee) \subseteq Payers(op, s.employee) \ {o}
          /\ o \in Payers(op, s.employee)
      <4>1. \A q \in Operators : q # o => op'[q] = op[q]
        BY <1>4 DEF Pay, EndsRun, PayInv, Shape
      <4>2. op'[o] = OpIdle
        BY <1>4 DEF Pay, EndsRun, PayInv, Shape
      <4> QED
        BY <1>4, <2>3, <4>1, <4>2 DEF Payers, OpIdle
    <3>3. Cardinality(Payers(op', s.employee)) <= Cardinality(Payers(op, s.employee)) - 1
      <4>1. IsFiniteSet(Payers(op, s.employee) \ {o})
            /\ Cardinality(Payers(op, s.employee) \ {o}) = Cardinality(Payers(op, s.employee)) - 1
        BY <3>2, PayersAreFinite, FS_RemoveElement
      <4>2. Payers(op', s.employee) \in SUBSET (Payers(op, s.employee) \ {o})
        BY <3>2
      <4> QED
        BY <4>1, <4>2, FS_Subset
    <3>4. s.payments \in Nat
      BY DEF PayInv, Shape
    <3>5. s.payments + Cardinality(Payers(op, s.employee)) <= Cardinality(Operators)
      \/ s.payments = 0
      BY DEF Bounded
    <3>6. s.payments + 1 + Cardinality(Payers(op', s.employee)) <= Cardinality(Operators)
      BY <3>3, <3>4, <3>5, PayersAreFinite
    <3> QED
      BY <3>1, <3>4, <3>6 DEF Bounded
  <2> QED
    BY <2>2, <2>3
<1>5. Shape
  BY DEF PayInv
<1> QED
  BY <1>2, <1>3, <1>4, <1>5, SlipsEffect

LEMMA IdleStep ==
  ASSUME PayInv, PayTypes, [PayNext]_payVars, NEW o \in Operators, op'[o].step = "idle"
  PROVE  op'[o].at = NoOne
<1>1. op'[o] = op[o] \/ op'[o] = OpIdle
  BY OpSteps DEF PayInv
<1> QED
  BY <1>1 DEF PayTypes, OpIdle

LEMMA PayTypesStep ==
  ASSUME PayInv, PayTypes, [PayNext]_payVars
  PROVE  PayTypes'
<1>1. ASSUME NEW o \in Operators, op'[o].step = "idle" PROVE op'[o].at = NoOne
  BY <1>1, IdleStep
<1>2. hrChanges' \in 0..MaxHrChanges /\ payCrashes' \in 0..MaxPayCrashes
  <2>1. \/ hrChanges' = hrChanges
        \/ hrChanges < MaxHrChanges /\ hrChanges' = hrChanges + 1
    BY DEF PayNext, payVars, StartRun, LookForSlip, InsertSlip, AnswerRun,
     FindSlip, Pay, PayCrash, ReadSalary, Configure, ChangeStatus
  <2>2. \/ payCrashes' = payCrashes
        \/ payCrashes < MaxPayCrashes /\ payCrashes' = payCrashes + 1
    BY DEF PayNext, payVars, StartRun, LookForSlip, InsertSlip, AnswerRun,
     FindSlip, Pay, PayCrash, ReadSalary, Configure, ChangeStatus
  <2>3. hrChanges \in 0..MaxHrChanges /\ payCrashes \in 0..MaxPayCrashes
    BY DEF PayTypes
  <2> QED
    BY <2>1, <2>2, <2>3, PayrollAssumption
<1>3. raced' \in [Operators -> BOOLEAN]
  <2>1. ASSUME NEW o \in Operators, Begins(o) PROVE raced' \in [Operators -> BOOLEAN]
    <3>1. \A q \in Operators : (CASE q = o         -> Busy(o) # {}
                                  [] q \in Busy(o) -> TRUE
                                  [] OTHER         -> raced[q]) \in BOOLEAN
      <4>1. \A q \in Operators : raced[q] \in BOOLEAN
        BY DEF PayTypes
      <4>2. o \notin Busy(o)
        BY DEF Busy
      <4> QED
        BY <4>1, <4>2, Zenon
    <3> QED
      BY <2>1, <3>1, Zenon DEF Begins
  <2>2. CASE raced' = raced
    BY <2>2 DEF PayTypes
  <2>3. raced' = raced \/ \E o \in Operators : Begins(o)
    BY DEF PayNext, payVars, StartRun, LookForSlip, InsertSlip, AnswerRun,
     FindSlip, Pay, PayCrash, ReadSalary, Configure, ChangeStatus
  <2> QED
    BY <2>1, <2>2, <2>3
<1>4. \A s \in slips' : Bounded(s.payments, Payers(op', s.employee))
  BY PaymentsStep DEF PayTypes
<1> QED
  BY <1>1, <1>2, <1>3, <1>4 DEF PayTypes

(* Every variable of Payroll stays of its type: a request is at an          *)
(* employee exactly in its inner steps, and no slip is paid more often      *)
(* than there are requests at once.                                         *)
THEOREM PayTypeInvariance == PaySpec => []PayTypeOK
<1>1. PayInit => PayTypes
  BY PayrollAssumption DEF PayInit, PayTypes, OpIdle
<1>2. PayInv /\ PayTypes /\ [PayNext]_payVars => PayTypes'
  BY PayTypesStep
<1>3. PayInv /\ PayTypes => PayTypeOK
  <2> SUFFICES ASSUME PayInv, PayTypes PROVE PayTypeOK
    OBVIOUS
  <2>1. /\ onPayroll \subseteq Staff /\ salaried \subseteq Staff
        /\ slips \subseteq [employee : Staff, payments : Nat]
        /\ op \in [Operators -> OpType]
    BY DEF PayInv, Shape
  <2>2. ASSUME NEW s \in slips PROVE s \in [employee : Staff, payments : 0..Cardinality(Operators)]
    <3>1. s.payments \in 0..Cardinality(Operators)
      <4>1. s.payments \in Nat /\ Bounded(s.payments, Payers(op, s.employee))
        BY <2>1 DEF PayTypes
      <4> QED
        BY <4>1, PayersAreFinite DEF Bounded
    <3> QED
      BY <2>1, <3>1
  <2>3. ASSUME NEW o \in Operators
        PROVE  (op[o].at # NoOne) = (op[o].step \in {"salary", "insert", "pay"})
    <3>1. op[o].step \in {"idle", "next", "salary", "insert", "pay"}
      BY <2>1 DEF OpType
    <3> QED
      BY <3>1, PayrollAssumption DEF PayInv, Shape, PayTypes
  <2>4. raced \in [Operators -> BOOLEAN]
    BY DEF PayTypes
  <2> QED
    BY <2>1, <2>2, <2>3, <2>4 DEF PayTypes, PayTypeOK, OpType
<1> QED
  BY <1>1, <1>2, <1>3, PayInvariance, PTL DEF PaySpec
=============================================================================
