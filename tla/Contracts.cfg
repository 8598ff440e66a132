\* Seven ledgers hold two windows of three ledgers and every phase of a span
\* across their boundaries.  The registry's lifetimes are around its two bounds:
\* refused (0, 7), and up to RegistryThreshold.
CONSTANTS
  wallet = wallet
  other = other
  usdc = usdc
  Address = {wallet, other, usdc}
  NotDeployed = NotDeployed
  NoSpend = NoSpend
  AnyToken = AnyToken
  NoAttestation = NoAttestation
  NoPublisher = NoPublisher
  Configs <- MCConfigs
  Contexts <- MCContexts
  I128Max = 5
  MAX_CONTEXTS = 2
  MAX_RULE_ENTRIES = 1
  MAX_WINDOW_SECONDS = 5
  RENEW_THRESHOLD = 2
  RENEW_TO = 4
  MinTtl = 1
  MaxTime = 6
  MaxListLength = 2
  Contract = {usdc, other}
  Hash = {h1}
  Publisher = {p1}
  Account = {a1, a2}
  Lifetimes = {0, 1, 3, 7}
  MAX_ATTESTATION_LEDGERS = 6
  RegistryThreshold = 3
  RegistryTo = 5
  TTL_BUFFER = 1
  MaxLedger = 7
SPECIFICATION MCSpec
INVARIANTS WindowCap AtMostTwicePerSpan EntriesKept
PROPERTIES NoEarlyReset WindowSpec
CHECK_DEADLOCK FALSE
