\* A session ends, a tick is over, a plan is complete: behaviours stop.
CHECK_DEADLOCK FALSE
SPECIFICATION Spec
CONSTANTS
  act = act read = read mignon1 = mignon1 mignon2 = mignon2
  Calls = {act, read, mignon1, mignon2}
  Actions = {act}
  Spawns = {mignon1, mignon2}
  Proxied = {act}
  CleanupCalls = {act}
  MaxSpawns = 2
  MaxConcurrent = 1
  MaxSends = 2
  MaxJobs = 2
  MaxIssues = 2
  MaxReports = 3
  MaxCleanups = 2
  MaxChecks = 2
  MaxRepairs = 2
  Ticks = {1, 2}
  MaxPairs = 3
  MaxPrice = 8
  MaxWalk = 4
  TickSizes = {1, 2, 3}
  robinhood = robinhood web = web
  Sources = {robinhood, web}
  Robinhood = robinhood
  MaxShort = 1
  MaxLots = 2
  MinCash = 1
  MaxCash = 1
  Contracts = {1, 2}
  RealOrders = {1}
  RefIds = {"ref"}
  MaxQuantity = 2
  MaxSimulated = 2
  MaxFires = 2
  MaxAttempts = 2
  Searches = {1, 2}
  Queries = {"Sell UP", "sell up"}
  Question <- Spelled
  Tagged <- Words
  Tickers = {"UP"}
  Narrowings = {"day", "week"}
  NewsMaxAge = 2
  LookupLimit = 1
  MaxNow = 3
  NoEntry = NoEntry
INVARIANTS
  TypeOK ReachesOnce SpawnCaps SessionSound LossKnown PlanSound SimBook NoticesSound
PROPERTIES
  OutcomeStands TalkEnds
