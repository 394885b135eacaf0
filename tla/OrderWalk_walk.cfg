SPECIFICATION Spec
CONSTANTS
  j1 = j1
  j2 = j2
  j3 = j3
  c1 = c1
  c2 = c2
  c3 = c3
  Jobs <- ThreeJobs
  MaxSteps = 3
  Target <- TargetFirstThree
  Contract <- OwnContract
  Opening <- OneOpening
  PartialStop = FALSE
  MaxCancels = 2
ACTION_CONSTRAINT Apart
SYMMETRY Symmetric
INVARIANTS
  TypeOK
  NoOverfill
  OneOpenOrder
  OutcomeTruthful
  OneCancelPerOrder
PROPERTIES
  KeepsPromise
  NoPlacementAfterStop
\* A run ends: every job done and nothing left for the broker to do.
CHECK_DEADLOCK FALSE
