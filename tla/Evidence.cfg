\* Every call is made once and a run ends: behaviours stop.
CHECK_DEADLOCK FALSE
SPECIFICATION Spec
CONSTANTS
  o1 = o1 o2 = o2 o3 = o3 a = a b = b k1 = k1 k2 = k2 k3 = k3
  Orders = {o1, o2}
  Calls = {k1, k2}
  Contract <- OneContract
  Job <- TwoSteps
  Opening <- OpenOnly
  Quantity <- OneTwo
  MaxNow = 4
  Margin = 2
  Skew <- Behind
  NoLimit = NoLimit Unset = Unset Unknown = Unknown
  RuleBooks <- SizingRules
  AccountValue = 8
  Lot = 1
  Owned = 2
  StartCash = {3}
  MaxMoves = 2
  MaxContracts = 4
  Markets <- ThreeMarkets
  Filters <- ThreeFilters
  Strike = 10
  Expiry = 1
  MaxTime = 2
  MaxReads = 2
  c1 = c1 c2 = c2 r1 = r1
  Walks = {c1, c2, r1}
  Opens = {r1}
  ContractOf <- ByWalk
  RollKey <- OneKey
  Size <- WalkSizes
  Worst <- WalkPrices
  MaxStep = 2
  Settled = 3
  l1 = l1 l2 = l2
  Lines = {l1, l2}
  FillEvents = {1, 2, 3}
  FillOf <- ThreeFills
  Executed <- FilledOf
  RollOrders <- TwoPriceSteps
  Holdings = {1, 2}
  First = 1
  Decisions <- ThreeDecisions
  MaxNotes = 1
  MaxEvents = 4
  Unsaid = Unsaid
  n1 = n1 n2 = n2 p1 = p1
  OptionIds = {n1, n2}
  Answered <- TheAnswers
  Book <- OneHeld
  AccountAge = 0
  Beginnings <- TwoBeginnings
  MaxResults = 6
  MaxClock = 1
  MaxBuilds = 2
  MaxFacts = 1
SYMMETRY Symmetric
INVARIANTS
  TypeOK BooksTrue SizingSound GateSound
PROPERTIES
  NeverBackwards
