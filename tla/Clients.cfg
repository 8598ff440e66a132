CONSTANTS
  Ids = {1, 2}
  Requests <- MCRequests
  Established <- MCEstablished
  PairConfig <- MCPairConfig
  DevOrigins = {"dev"}
  MainnetRpc = FALSE
  MaxOrigins = 1
  MaxFaults = 1
  Assets = {"a", "b"}
  DestTrusts = {"a", "b"}
  DestExists = TRUE
  OpsPerTx = 2
  BaseReserve = 5
  BaseFee = 1
  Ttl = 2
  Accounts <- MCAccounts
  MaxOutside = 1
  MaxClock = 3
  MaxRestarts = 1
  MaxMints = 3
  Configs = {c1, c2}
  Founders = {f1}
  Spares = {f2}
  PayNetwork = "testnet"
  Links <- MCLinks
  Keys = {"k1", "k2"}
  Paths = {"direct", "xlm"}
  Outs = {0, 7, 9}
  SlippageBps = 2
  BpsDenominator = 10
  QuoteTtl = 1
  SwapDeadline = 2
  MaxPayClock = 3
  MaxOpens = 3
  MaxSwaps = 1
  Forms <- MCForms
  Owner = "me"
  Addresses = {"me", "a2"}
  TokenIds = {"t1", "t2"}
  Publishers = {"p1"}
  Decimals = 2
  MaxEntries = 2
  Probes = {5, 6, 49, 50, 51, 100, 101}
  MaxInstances = 2
  MaxCards = 2
  Sources = {"c1", "c2"}
  PublisherLists <- MCPublisherLists
  MaxAttempts = 2
  MaxLookups = 2
  MaxPolicies = 2
  WINDOW_LEDGERS = 2
  SCAN_PAGE_SIZE = 2
  MAX_SCAN_PAGES = 2
  HISTORY_PAGE_SIZE = 2
  HISTORY_DISPLAY_LIMIT = 4
  Retention = 5
  Contents <- MCContents
  Operations <- MCOperations
  MaxHead = 7
  MaxHistoryPages = 3
SPECIFICATION MCSpec
INVARIANTS ExtensionSound CleanupSound PagesTellTheTruth SignedAsReviewed
PROPERTIES SettledOnce
CHECK_DEADLOCK FALSE
