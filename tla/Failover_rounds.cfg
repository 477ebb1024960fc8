\* Two rounds, or a round and an operator, in flight; three regions, the primary down at
\* first.
SPECIFICATION FairSpec
CONSTANTS
  us = us  eu = eu  uw = uw  None = None
  x1 = x1  x2 = x2
  Regions <- MCRegions
  UpAtFirst <- MCSecondaries
  Runs = {x1, x2}
  FailureThreshold = 2
  RecoveryThreshold = 2
  MaxFaults = 3
INVARIANTS
  StateIsTrue
PROPERTIES
  RegionFollowsHealth
