\* Two scans, one of which may die, overlap each other, the answer from its
\* stamp to its commit, and the end of the ticket.
SPECIFICATION FairSpec
CONSTANTS
  s1 = s1  s2 = s2  q1 = q1  r1 = r1  r2 = r2
  Scans = {s1, s2}
  Responses = {q1}
  Clears = {}
  MaxWindows = 0
  MaxEscalations = 0
  MaxFaults = 1
INVARIANTS
  TypeOK
  MetIsNeverBreached
PROPERTIES
  OverdueResponseIsRecorded
\* A finished ticket may be left alone for ever.
CHECK_DEADLOCK FALSE
