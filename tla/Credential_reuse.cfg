\* The ticks end.
CHECK_DEADLOCK FALSE
SPECIFICATION CredSpec
CONSTANTS
  Ticks = {1, 2}
  MaxPairs = 3
INVARIANTS PresentedOnce
