SPECIFICATION FairSpec
CONSTANTS
  p1 = p1
  p2 = p2
  Procs <- TwoFires
  MaxClock = 2
  Horizon = 6
  OpenTimes <- MarketHours
  AskTimes <- Asked
  MaxOrders = 1
  CloseBudget = 1
  RunBudget = 2
  FallbackGap = 3
  UnfilledGap = 2
  MaxGap = 4
INVARIANTS TypeOK OutcomeNeverGuessed UnfilledCaps OneSessionPerRun OverlapNeedsBinding
PROPERTIES LockFreed RespectsSchedule
CHECK_DEADLOCK FALSE
