\* Four deployments: one loop with more verified contracts than its sweep lists,
\* one whose calls may fail, a loop and a group that does not attest, and two
\* replicas.
CONSTANTS
  Contract = {c1, c2}
  c1 = c1
  c2 = c2
  Hash = {h1, Rebuilt}
  Publisher = {p1}
  NoPublisher = NoPublisher
  Account = {key}
  key = key
  NoAttestation = NoAttestation
  Lifetimes = {2}
  MAX_ATTESTATION_LEDGERS = 4
  RENEW_THRESHOLD = 9
  RENEW_TO = 9
  TTL_BUFFER = 9
  MinTtl = 1
  Sweep = Sweep
  ttl = 2
  SweepLimit = 1
  Gone = Gone
  TimedOut = TimedOut
  Rebuilt = Rebuilt
  Worker = {w1, w2}
  w1 = w1
  w2 = w2
  Deployments <- Typical
  MaxRuns = 2
  MaxUpgrades = 1
  MaxOrphans = 1
  MaxLedger = 3
SPECIFICATION FairSpec
INVARIANT HonestMirror
PROPERTIES SilenceDecays OutdatedRevoked VerifiedIsAttested
CHECK_DEADLOCK FALSE
