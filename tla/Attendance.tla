---------------------------- MODULE Attendance -----------------------------
(***************************************************************************)
(* One employee's punches and their monthly summary                        *)
(* (hr/attendance/attendance.service.ts).  A punch looks at the latest one *)
(* of its day and then inserts, in two statements; nothing in the database *)
(* stands between two requests.  The summary pairs the punches of a month. *)
(***************************************************************************)
EXTENDS Integers, Sequences, FiniteSets

CONSTANTS Punchers,    \* requests in flight together
          DayLength,   \* moments in a day
          Days,        \* bound on the days, all of one month
          MaxPunches,  \* bound on the punches
          NoPunch

ASSUME AttendanceAssumption == DayLength \in Nat \ {0} /\ Days \in Nat \ {0}
                               /\ MaxPunches \in Nat
                               /\ NoPunch \notin Nat \cup {"CHECK_IN", "CHECK_OUT"}

VARIABLES
    moment,    \* the time
    punches,   \* the records, in the order of their timestamps
    punch,     \* by request: the type it is about to insert
    \* history, read by no action
    beaten     \* by request: another has inserted, or midnight passed, since it looked

attendanceVars == <<moment, punches, punch, beaten>>

----------------------------------------------------------------------------
DayOf(t) == t \div DayLength
Types == {"CHECK_IN", "CHECK_OUT"}

AttendanceInit ==
    /\ moment = 0 /\ punches = <<>>
    /\ punch = [r \in Punchers |-> NoPunch]
    /\ beaten = [r \in Punchers |-> FALSE]

\* The latest punch of today.
IsToday(p) == DayOf(p.at) = DayOf(moment)

Latest ==
    LET n == Len(punches) IN
    IF n > 0 /\ IsToday(punches[n]) THEN punches[n].type ELSE NoPunch

\* checkIn and checkOut: who is in may not come in, only who is in may go out.
MayPunch(type) == (type = "CHECK_OUT") = (Latest = "CHECK_IN")

Look(r, type) ==
    /\ punch[r] = NoPunch /\ MayPunch(type)
    /\ punch' = [punch EXCEPT ![r] = type]
    /\ beaten' = [beaten EXCEPT ![r] = FALSE]
    /\ UNCHANGED <<moment, punches>>

Record(r) ==
    /\ punch[r] # NoPunch /\ Len(punches) < MaxPunches
    /\ punches' = Append(punches, [type |-> punch[r], at |-> moment])
    /\ punch' = [punch EXCEPT ![r] = NoPunch]
    /\ beaten' = [q \in Punchers |-> beaten[q] \/ (q # r /\ punch[q] # NoPunch)]
    /\ UNCHANGED moment

\* The request dies between the two.
Lost(r) ==
    /\ punch[r] # NoPunch
    /\ punch' = [punch EXCEPT ![r] = NoPunch]
    /\ UNCHANGED <<moment, punches, beaten>>

MomentPasses ==
    /\ moment < Days * DayLength
    /\ moment' = moment + 1
    /\ beaten' = [r \in Punchers |->
                    beaten[r] \/ (punch[r] # NoPunch /\ DayOf(moment') # DayOf(moment))]
    /\ UNCHANGED <<punches, punch>>

AttendanceNext ==
    \/ \E r \in Punchers :
          \/ Record(r) \/ Lost(r)
          \/ \E type \in Types : Look(r, type)
    \/ MomentPasses

----------------------------------------------------------------------------
(* getMonthlySummary                                                       *)

\* An arrival replaces the one that is open; a departure closes it, and is
\* ignored when there is none.
KeepsOpen(open, at) == open                                              \* mutant
AfterOut(open, at) == NoPunch

AddedUp(total, from, to) == total + (to - from)

NoHours == [open |-> NoPunch, total |-> 0]
Tally(before, p) ==
    CASE p.type = "CHECK_IN" -> [open |-> p.at, total |-> before.total]
      [] p.type = "CHECK_OUT" /\ before.open # NoPunch ->
           [open |-> AfterOut(before.open, p.at),
            total |-> AddedUp(before.total, before.open, p.at)]
      [] OTHER -> before

Tallied[n \in 0..Len(punches)] ==
    IF n = 0 THEN NoHours ELSE Tally(Tallied[n - 1], punches[n])
Summary == Tallied[Len(punches)].total

\* The moments at which the employee was in, as far as a departure tells.
IsPresent(t) ==
    \E n \in 1..Len(punches) :
       /\ punches[n].type = "CHECK_IN" /\ punches[n].at <= t
       /\ \A m \in n + 1..Len(punches) : punches[m].at <= t => punches[m].type = "CHECK_IN"
       /\ \E m \in n + 1..Len(punches) : punches[m].type = "CHECK_OUT" /\ punches[m].at > t
TimePresent == Cardinality({t \in 0..moment : IsPresent(t)})

\* A shift that midnight cut: the arrival is forgotten with its day.
CutByMidnight ==
    \E n \in 1..Len(punches) - 1 :
       /\ punches[n].type = "CHECK_IN" /\ punches[n + 1].type = "CHECK_IN"
       /\ DayOf(punches[n].at) # DayOf(punches[n + 1].at)

\* Two punches of a kind in a row, on one day.
Doubled(n) == punches[n].type = punches[n - 1].type
              /\ DayOf(punches[n].at) = DayOf(punches[n - 1].at)

----------------------------------------------------------------------------
\* The type invariant.
AttendanceTypeOK ==
    /\ moment \in 0..Days * DayLength
    /\ punches \in Seq([type : Types, at : 0..Days * DayLength])
    /\ \A n \in 2..Len(punches) : punches[n - 1].at <= punches[n].at
    /\ punch \in [Punchers -> Types \cup {NoPunch}]
    /\ beaten \in [Punchers -> BOOLEAN]

\* Hours that were not worked are never paid: whatever requests race and however
\* late a shift ends, the summary counts no moment twice and none without an
\* arrival before it and a departure after it.
SummaryNeverOvercounts == Summary <= TimePresent

\* The hours are exact unless a shift ran over midnight or two requests raced.
SummaryIsExact ==
    (\A n \in 2..Len(punches) : ~Doubled(n)) /\ ~CutByMidnight
      => Summary = TimePresent

\* Within a day arrivals and departures take turns, and a day begins with an
\* arrival, unless another request, or midnight, came between the look of a
\* request and its insert.
PunchesTakeTurns ==
    [][\A r \in Punchers :
          Record(r) /\ ~beaten[r] =>
             LET n == Len(punches) IN
             IF n > 0 /\ DayOf(punches[n].at) = DayOf(moment)
               THEN punch[r] # punches[n].type
               ELSE punch[r] = "CHECK_IN"]_attendanceVars

\* The hours are those between arrivals and departures, which take turns.
HoursAreHonest == [](SummaryNeverOvercounts /\ SummaryIsExact) /\ PunchesTakeTurns
=============================================================================
