\* Three ledgers: a write at 0 expires at 1 and is archived at 2, like every entry
\* that was not renewed.
CONSTANTS
  k1 = k1
  k2 = k2
  k3 = k3
  p1 = p1
  p2 = p2
  wallet = wallet
  token = token
  Contract = {wallet, token}
  Hash = {h1}
  Publisher = {p1}
  NoPublisher = NoPublisher
  Account = {account, other}
  account = account
  NoAttestation = NoAttestation
  Lifetimes = {1}
  MAX_ATTESTATION_LEDGERS = 1
  RENEW_THRESHOLD = 1
  RENEW_TO = 1
  TTL_BUFFER = 0
  MinTtl = 1
  MaxLedger = 2
  Key = {k1, k2, k3}
  Rosters <- MCRosters
  NoRevokeThreshold = NoRevokeThreshold
  MAX_SIGNERS = 2
  SignatureLists <- MCSignatureLists
  ContextLists <- MCContextLists
  Wallet = {wallet, token}
  Configs <- MCConfigs
  NotDeployed = NotDeployed
  Strict = Strict
  PolicyCalls <- MCPolicyCalls
  MAX_CONTEXTS = 2
  MAX_TRUSTED_PUBLISHERS = 1
SPECIFICATION GateSpec
INVARIANT GateKept
PROPERTIES OnlyVouchedCode
CHECK_DEADLOCK FALSE
