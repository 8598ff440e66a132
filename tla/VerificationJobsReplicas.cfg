\* Two replicas, so two reapers, and builds that may outlast the timeout.
CONSTANTS
  token = token
  swap = swap
  Request = {r1}
  Imported = {}
  ContractOf <- TwoContracts
  Worker = {w1, w2}
  Reaper = {p1, p2}
  NoJob = NoJob
  maxActiveQueue = 3
  maxAttempts = 2
  SlowBuilds = TRUE
SPECIFICATION FairSpec
PROPERTIES EventuallyTerminal
CHECK_DEADLOCK FALSE
