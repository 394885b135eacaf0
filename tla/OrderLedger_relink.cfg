SPECIFICATION QuietSpec
CONSTANTS
  o1 = o1
  o2 = o2
  o3 = o3
  a = a
  b = b
  k1 = k1
  k2 = k2
  k3 = k3
  Orders = {o1, o2, o3}
  Calls = {k1, k2}
  Contract <- OneContract
  Job <- OwnJobs
  Opening <- OpenCloseOpen
  Quantity <- Ones
  MaxNow = 6
  Margin = 2
  Skew <- Behind
INVARIANT FillInOneLineage
\* Every call is made once: a run ends.
CHECK_DEADLOCK FALSE
