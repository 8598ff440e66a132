\* Two submissions of any of the four envelopes, one crash, and ledgers up to
\* the expiration of a2 and past that of a1, so that a reservation is purged
\* while a copy of its authorization is still around.
CONSTANTS
  a1 = a1
  a2 = a2
  a3 = a3
  b1 = b1
  e1 = e1
  e2 = e2
  e3 = e3
  e4 = e4
  home = home
  stranger = stranger
  Request = {r1, r2}
  Envelope = {e1, e2, e3, e4}
  Auth = {a1, a2, a3, b1}
  Wallet = {home, stranger}
  KeysOf <- EnvelopeKeys
  AddressOf <- Owner
  Expiration <- Expiries
  Sponsored = {e1, e3}
  Known = {home}
  maxRetries = 1
  failureThreshold = 2
  MaxLedger = 2
  MaxCrashes = 1
SPECIFICATION Spec
SYMMETRY AnyOrder
INVARIANTS SentStaysReserved AuthorizationSentOnce SendsAccounted
CHECK_DEADLOCK FALSE
