\* One property: OverdueResolutionIsRecorded.
SPECIFICATION FairSpec
CONSTANTS
  s1 = s1  s2 = s2  q1 = q1  r1 = r1  r2 = r2
  Scans = {s1}
  Responses = {}
  Clears = {}
  MaxWindows = 2
  MaxEscalations = 0
  MaxFaults = 0
PROPERTIES
  OverdueResolutionIsRecorded
CHECK_DEADLOCK FALSE
