SPECIFICATION FairSpec
CONSTANTS
  j1 = j1
  j2 = j2
  j3 = j3
  c1 = c1
  c2 = c2
  c3 = c3
  Jobs <- ThreeJobs
  MaxSteps = 1
  Target <- TargetFirstTwo
  Contract <- SharedContract
  Opening <- ThirdOpening
  PartialStop = TRUE
  MaxCancels = 2
ACTION_CONSTRAINT NotAfter
INVARIANTS
  ConcurrentClosesOnly
PROPERTIES
  JobsEnd
\* A run ends: every job done and nothing left for the broker to do.
CHECK_DEADLOCK FALSE
