SPECIFICATION Spec
CONSTANTS
  p1 = p1
  p2 = p2
  Procs <- TwoFires
  MaxClock = 3
  Horizon = 5
  OpenTimes <- MarketHours
  AskTimes <- Asked
  MaxOrders = 1
  CloseBudget = 1
  RunBudget = 2
  FallbackGap = 3
  UnfilledGap = 2
  MaxGap = 4
INVARIANTS RetriedOnFallback
CHECK_DEADLOCK FALSE
