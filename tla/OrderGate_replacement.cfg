CHECK_DEADLOCK FALSE
SPECIFICATION GateSpec
CONSTANTS
  NoLimit = NoLimit Unset = Unset Unknown = Unknown
  c1 = c1 c2 = c2 r1 = r1
  Walks = {c1, c2, r1}
  Opens = {r1}
  ContractOf <- ByWalk
  RollKey <- OneKey
  Size <- WalkSizes
  Worst <- WalkPrices
  MaxStep = 2
  Settled = 3
INVARIANTS ReplacementWalks
