\* One replica of worker-service with two job slots, whose builds never outlast
\* the reaper's timeout: two submissions and a malformed row.
CONSTANTS
  token = token
  swap = swap
  Request = {r1, r2}
  Imported = {m1}
  ContractOf <- TwoContracts
  Worker = {w1, w2}
  Reaper = {p1}
  NoJob = NoJob
  maxActiveQueue = 3
  maxAttempts = 2
  SlowBuilds = FALSE
SPECIFICATION Spec
INVARIANTS NoDoubleBuild AttemptsBounded SubmissionsKept
PROPERTIES TerminalIsFinal
CHECK_DEADLOCK FALSE
