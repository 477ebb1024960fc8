\* Two events in one batch, of which a sweep may finish only the first.
SPECIFICATION Spec
CONSTANTS
  e1 = e1  e2 = e2  w1 = w1  w2 = w2
  s1 = s1  s2 = s2  p1 = p1  p2 = p2
  Events = {e1, e2}
  Webhooks = {w1}
  Sweeps = {s1, s2}
  Processes = {p1, p2}
  None = None
  ProcessOf <- MCProcessOf
  Subscribers <- MCSubscribers
  BatchSize = 2
  MaxAttempts = 2
  MaxFaults = 1
  MaxOutlived = 1
  MaxRetries = 0
  MaxToggles = 0
PROPERTIES
  SettledStaysSettled
SYMMETRY MCSymmetry
