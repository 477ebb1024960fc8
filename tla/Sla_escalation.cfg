\* A scan, two clear requests and an escalation race each other, over a
\* reopening or a priority change and a scan that dies.
SPECIFICATION Spec
CONSTANTS
  s1 = s1  s2 = s2  q1 = q1  r1 = r1  r2 = r2
  Scans = {s1}
  Responses = {}
  Clears = {r1, r2}
  MaxWindows = 1
  MaxEscalations = 1
  MaxFaults = 1
INVARIANTS
  StampsAreAnnounced
  LevelHasOpenRow
CHECK_DEADLOCK FALSE
