CONSTANTS
  Policies = {"p1"}
  Handlers = {h1, h2}
  Wallets = {"w1"}
  Contracts = {"c1", "c2"}
  Txs = {"t1"}
  DeployBudget = 2
  MaxJobs = 3
  DeployWorkers = {d1, d2}
  Admins = {a1, a2}
  MaxAttempts = 0
  DlqThreshold = 1
  Events = {e1, e2, e3}
  Consumers = {k1, k2}
  EventAttempts = 2
  Tenants = {t1}
  Requests = {r1, r2}
  Capacity = 2
  RefillRate = 1
  Threshold = 2
  Cooldown = 1
  IdemTtl = 2
  Payloads = {"p1", "p2"}
  MaxClock = 5
  Services = {"wallet", "wallet2", "policy"}
  Migrations <- MCMigrations
  Envs <- MCEnvs
  MaxCrashes = 2
  Urls <- MCUrls
  MaxLedgerLag = 1
  Ledgers = {1, 3}
  MaxFailures = 4
  Url1 = u1
  Url2 = u2
  Consecutive = 2
  GateTimeout = 8
  Interval = 2
  BudgetNum = 1
  BudgetDen = 4
  MinRequests = 2
  MaxServed = 8
  RowIds = {1, 2}
  MAX_RETRIES = 2
  MaxUpgrades = 1
  Roles = {"sponsor", "attestor"}
  MinXlm = 1
SPECIFICATION MCSpec
INVARIANTS DeploymentsTrue GuardsHold ReleaseSafely
PROPERTIES DeployJobsRetry EventsRetry EventsSettle PruneInvisible BreakerRecovers
CHECK_DEADLOCK FALSE
