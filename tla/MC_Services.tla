----------------------------- MODULE MC_Services -----------------------------
(***************************************************************************)
(* The small components side by side: a behaviour is one of the component  *)
(* that `part` names, and the others stay as they begin.  Their models     *)
(* share no state, so that interleaving them would add no behaviour.       *)
(***************************************************************************)
EXTENDS LoginGuard, JobLock, SlaClock, Rules, Staffing, Crm, Payroll, TimeOff,
        Attendance, Throttle, Accounts, TLC

VARIABLE part

Parts == {"login", "job", "slaClock", "rules", "staff", "crm", "payroll",
          "timeOff", "attendance", "throttle", "accounts"}

(* Users of two organizations; two leads of one person.                    *)
TwoOrgs == {<<"a", 1>>, <<"a", 2>>, <<"b", 1>>}
SameEmail == [l \in Leads |-> "x"]

(* In every component it is the same two that race.                        *)
MCSymmetry == Permutations(Requests)

servicesVars == <<part, loginVars, jobVars, clockVars, rulesVars, staffVars,
                  crmVars, payVars, timeOffVars, attendanceVars,
                  throttleVars, accountVars>>

(* Only the component of the behaviour starts in any of its initial states. *)
Init ==
 /\ part \in Parts
 /\ LoginInit /\ JobInit /\ ClockInit /\ RulesInit
 /\ StaffInit /\ CrmInit /\ PayInit /\ TimeOffInit
 /\ AttendanceInit /\ ThrottleInit /\ AccountsInit
 /\ onPayroll = (IF part = "payroll" THEN Staff ELSE {})
 /\ part # "payroll"  => salaried = {}
 /\ part # "timeOff"  => employee = "ACTIVE"
 /\ part # "throttle" => policy = "local"
 /\ part # "accounts" => known = {} /\ roles = [u \in Users |-> {}]

Next ==
 \/ /\ part = "login" /\ LoginNext
    /\ UNCHANGED <<part, jobVars, clockVars, rulesVars, staffVars,
                   crmVars, payVars, timeOffVars, attendanceVars,
                   throttleVars, accountVars>>
 \/ /\ part = "job" /\ JobNext
    /\ UNCHANGED <<part, loginVars, clockVars, rulesVars, staffVars,
                   crmVars, payVars, timeOffVars, attendanceVars,
                   throttleVars, accountVars>>
 \/ /\ part = "slaClock" /\ ClockNext
    /\ UNCHANGED <<part, loginVars, jobVars, rulesVars, staffVars,
                   crmVars, payVars, timeOffVars, attendanceVars,
                   throttleVars, accountVars>>
 \/ /\ part = "rules" /\ RulesNext
    /\ UNCHANGED <<part, loginVars, jobVars, clockVars, staffVars,
                   crmVars, payVars, timeOffVars, attendanceVars,
                   throttleVars, accountVars>>
 \/ /\ part = "staff" /\ StaffNext
    /\ UNCHANGED <<part, loginVars, jobVars, clockVars, rulesVars,
                   crmVars, payVars, timeOffVars, attendanceVars,
                   throttleVars, accountVars>>
 \/ /\ part = "crm" /\ CrmNext
    /\ UNCHANGED <<part, loginVars, jobVars, clockVars, rulesVars,
                   staffVars, payVars, timeOffVars, attendanceVars,
                   throttleVars, accountVars>>
 \/ /\ part = "payroll" /\ PayNext
    /\ UNCHANGED <<part, loginVars, jobVars, clockVars, rulesVars,
                   staffVars, crmVars, timeOffVars, attendanceVars,
                   throttleVars, accountVars>>
 \/ /\ part = "timeOff" /\ TimeOffNext
    /\ UNCHANGED <<part, loginVars, jobVars, clockVars, rulesVars,
                   staffVars, crmVars, payVars, attendanceVars,
                   throttleVars, accountVars>>
 \/ /\ part = "attendance" /\ AttendanceNext
    /\ UNCHANGED <<part, loginVars, jobVars, clockVars, rulesVars,
                   staffVars, crmVars, payVars, timeOffVars, throttleVars,
                   accountVars>>
 \/ /\ part = "throttle" /\ ThrottleNext
    /\ UNCHANGED <<part, loginVars, jobVars, clockVars, rulesVars,
                   staffVars, crmVars, payVars, timeOffVars,
                   attendanceVars, accountVars>>
 \/ /\ part = "accounts" /\ AccountsNext
    /\ UNCHANGED <<part, loginVars, jobVars, clockVars, rulesVars,
                   staffVars, crmVars, payVars, timeOffVars,
                   attendanceVars, throttleVars>>

Spec == Init /\ [][Next]_servicesVars

(* Every component's variables stay of their types, whichever one moves.   *)
TypeOK ==
 /\ LoginTypeOK /\ JobTypeOK /\ ClockTypeOK /\ RulesTypeOK /\ StaffTypeOK
 /\ CrmTypeOK /\ PayTypeOK /\ TimeOffTypeOK /\ AttendanceTypeOK
 /\ ThrottleTypeOK /\ AccountsTypeOK
==============================================================================
