--------------------------- MODULE WalletAccounts ---------------------------
(***************************************************************************)
(* The wallet service apart from POST /wallet/submit (WalletSubmit): the   *)
(* creation of wallets, sessions and what a session may do, and the read   *)
(* cache (server.ts, repository.ts, db/pg-repository.ts, cache.ts).        *)
(*                                                                         *)
(* A passkey has one derived contract address, so a wallet is named by its *)
(* key.  Wallets, sessions and the audit log are in Postgres; rate limits, *)
(* signer versions and the cache die with the process.  A refused request  *)
(* that changed nothing is not a step.                                     *)
(***************************************************************************)
EXTENDS Integers, FiniteSets, Sequences

CONSTANTS Keys, Handlers, Sessions,
          CreateBudget,    \* creations the budget allows in its window
          SessionTtl,      \* SESSION_TTL_MS
          AuthMax,         \* passkeyRateLimitMax
          AuthWindow,      \* passkeyRateLimitWindowMs
          CacheTtl,        \* ttlMs of the cache
          BalanceMaxAges,  \* what balanceMaxAgeMs may be, NoMaxAge when it is left out
          NoMaxAge,
          MaxNow, MaxLog, MaxLives   \* bounds

ASSUME AccountConstants ==
  /\ IsFiniteSet(Handlers)
  /\ {CreateBudget, SessionTtl, AuthMax, AuthWindow, CacheTtl} \subseteq Nat
  /\ BalanceMaxAges \subseteq Nat \cup {NoMaxAge} /\ NoMaxAge \notin Nat
  /\ {MaxNow, MaxLog, MaxLives} \subseteq Nat

VARIABLES
  now,       \* the clock
  maxAge,    \* constant: balanceMaxAgeMs of the cache
  life,      \* how often the process has started
  wallet,    \* keys with a wallet row
  chain,     \* keys whose smart account exists on the network
  charged,   \* creations charged to the budget
  sent,      \* creations handed to the submitter
  session,   \* session[s]: its row, or NoSession
  revoked,   \* history: sessions deleted by a revoke
  attempts,  \* attempts[k]: the rate limit of the key
  version,   \* version[k]: signerVersions
  audit,     \* the audit log, as far as a route reads it back
  req,       \* req[h]: the request handler h is in
  cached     \* the cached balance of one wallet, or NoBalance

creation    == <<wallet, chain, charged, sent>>
sessions    == <<session, revoked, attempts>>
signers     == <<version, audit>>
timeVars    == <<now, life, maxAge>>
accountVars == <<timeVars, creation, sessions, signers, req, cached>>

NoSession == [key |-> "none", expires |-> 0]
NoBalance == [created |-> 0, expires |-> 0, written |-> 0, present |-> FALSE]
Idle      == [at |-> "idle", key |-> "none", id |-> "none"]
NoLimit   == [count |-> 0, resetAt |-> 0]

AccountsInit ==
  /\ now = 0 /\ life = 1 /\ maxAge \in BalanceMaxAges
  /\ wallet = {} /\ chain = {} /\ charged = 0 /\ sent = 0
  /\ session = [s \in Sessions |-> NoSession] /\ revoked = {}
  /\ attempts = [k \in Keys |-> NoLimit]
  /\ version = [k \in Keys |-> 0]
  /\ audit = <<>>
  /\ req = [h \in Handlers |-> Idle]
  /\ cached = NoBalance

Go(h, r) == req' = [req EXCEPT ![h] = r]

\* openSession: a fresh id, live for SessionTtl.
OpenSession(s, k) ==
  /\ session[s] = NoSession /\ s \notin revoked
  /\ session' = [session EXCEPT ![s] = [key |-> k, expires |-> now + SessionTtl]]

Live(s) == session[s] # NoSession /\ session[s].expires > now

----------------------------------------------------------------------------
(* POST /wallet/create: check, charge, submit, insert.                      *)

CreateCheck(h, k) ==
  /\ req[h] = Idle /\ k \notin wallet
  /\ Go(h, [at |-> "charge", key |-> k, id |-> "none"])
  /\ UNCHANGED <<timeVars, creation, sessions, signers, cached>>

\* Mutant: a refusal of the budget is only noted.
CreateChargeIgnored(h) ==
  /\ req[h].at = "charge"
  /\ Go(h, [req[h] EXCEPT !.at = "submit"])
  /\ UNCHANGED <<timeVars, creation, sessions, signers, cached>>

\* The create budget: refused, or unavailable, ends the request.
CreateCharge(h) ==
  /\ req[h].at = "charge"
  /\ \/ charged < CreateBudget /\ charged' = charged + 1 /\ Go(h, [req[h] EXCEPT !.at = "submit"])
     \/ Go(h, Idle) /\ UNCHANGED charged
  /\ UNCHANGED <<timeVars, wallet, chain, sent, sessions, signers, cached>>

\* The deployment: confirmed; or refused by the network, which holds one
\* account per derived address; or confirmed while the answer is lost.
CreateSubmit(h) ==
  LET k == req[h].key IN
  /\ req[h].at = "submit"
  /\ sent' = sent + 1
  /\ \/ /\ k \notin chain /\ chain' = chain \cup {k}
        /\ \/ Go(h, [req[h] EXCEPT !.at = "insert"])
           \/ Go(h, Idle)
     \/ Go(h, Idle) /\ UNCHANGED chain
  /\ UNCHANGED <<timeVars, wallet, charged, sessions, signers, cached>>

\* wallets.insert, which throws on a duplicate, then the first session.
CreateInsert(h, s) ==
  LET k == req[h].key IN
  /\ req[h].at = "insert"
  /\ wallet' = wallet \cup {k}
  /\ IF k \in wallet THEN UNCHANGED session ELSE OpenSession(s, k)
  /\ Go(h, Idle)
  /\ UNCHANGED <<timeVars, chain, charged, sent, revoked, attempts, signers, cached>>

----------------------------------------------------------------------------
(* Sessions.                                                                *)

\* The rate limit of POST /wallet/connect: a fixed window per address and key.
Limited(k) ==
  IF attempts[k] = NoLimit \/ now > attempts[k].resetAt
  THEN [count |-> 1, resetAt |-> now + AuthWindow]
  ELSE [attempts[k] EXCEPT !.count = IF @ > AuthMax THEN @ ELSE @ + 1]

\* A known key opens a session; one over the limit is only counted.
Connect(k, s) ==
  /\ attempts' = [attempts EXCEPT ![k] = Limited(k)]
  /\ IF Limited(k).count <= AuthMax /\ k \in wallet
     THEN OpenSession(s, k)
     ELSE attempts' # attempts /\ UNCHANGED session
  /\ UNCHANGED <<timeVars, creation, revoked, signers, req, cached>>

\* resolveSessionCapability: the bearer's session is found live ...
Authenticate(h, s) ==
  /\ req[h] = Idle /\ Live(s)
  /\ Go(h, [at |-> "touch", key |-> session[s].key, id |-> s])
  /\ UNCHANGED <<timeVars, creation, sessions, signers, cached>>

\* Mutant: the row is written back whole, whether or not it is still there.
TouchedUpsert(s, k) == [session EXCEPT ![s] = [key |-> k, expires |-> now + SessionTtl]]

\* ... and prolonged by an UPDATE, which a deleted row does not match; the
\* request goes on either way.
Touched(s, k) == IF Live(s) THEN [session EXCEPT ![s].expires = now + SessionTtl] ELSE session

Touch(h) ==
  /\ req[h].at = "touch"
  /\ session' = Touched(req[h].id, req[h].key)
  /\ Go(h, [req[h] EXCEPT !.at = "act"])
  /\ UNCHANGED <<timeVars, creation, revoked, attempts, signers, cached>>

\* POST /wallet/sessions/revoke: another live session of the same wallet.
Revoke(h, target) ==
  /\ req[h].at = "act" /\ Live(target) /\ session[target].key = req[h].key
  /\ session' = [session EXCEPT ![target] = NoSession]
  /\ revoked' = revoked \cup {target}
  /\ Go(h, Idle)
  /\ UNCHANGED <<timeVars, creation, attempts, signers, cached>>

----------------------------------------------------------------------------
(* What a session may do to the signers.                                    *)

Log(e) == Len(audit) < MaxLog /\ audit' = Append(audit, e)

\* Mutant: the version is looked at and not advanced.
BumpNever(k) == version

Bump(k) == [version EXCEPT ![k] = @ + 1]

\* POST /wallet/signer/manage: the check of the expected version and the
\* increment are one synchronous block; the record follows.
AnyVersion == -1

ManageSigner(h, action, expected) ==
  LET k == req[h].key IN
  /\ req[h].at = "act"
  /\ expected = AnyVersion \/ expected = version[k]
  /\ version' = Bump(k)
  /\ Log([type |-> action, key |-> k, version |-> version[k] + 1, expected |-> expected, life |-> life])
  /\ Go(h, Idle)
  /\ UNCHANGED <<timeVars, creation, sessions, cached>>

\* The signer count of a wallet, from the audit log: never below one.
SignerCount(k) ==
  LET Net[i \in 0..Len(audit)] ==
        IF i = 0 THEN 1
        ELSE IF audit[i].key # k THEN Net[i - 1]
        ELSE CASE audit[i].type = "add" -> Net[i - 1] + 1
               [] audit[i].type = "remove" /\ Net[i - 1] > 1 -> Net[i - 1] - 1
               [] OTHER -> Net[i - 1]
  IN Net[Len(audit)]

\* POST /wallet/threshold/update without a client-supplied count: the log is
\* read, and the record written, in two awaits.
ThresholdRead(h, t) ==
  /\ req[h].at = "act" /\ t > 0 /\ t <= SignerCount(req[h].key)
  /\ Go(h, [req[h] EXCEPT !.at = "threshold"])
  /\ UNCHANGED <<timeVars, creation, sessions, signers, cached>>

ThresholdRecord(h) ==
  /\ req[h].at = "threshold"
  /\ Log([type |-> "threshold", key |-> req[h].key, version |-> 0, expected |-> AnyVersion, life |-> life])
  /\ Go(h, Idle)
  /\ UNCHANGED <<timeVars, creation, sessions, version, cached>>

\* The routes that only record an event, which no route reads back.
Recorded(h) ==
  /\ req[h].at = "act" /\ Go(h, Idle)
  /\ UNCHANGED <<timeVars, creation, sessions, signers, cached>>

\* POST /wallet/policy/update: a contract the rules name must be verified, and
\* an unreachable verification service refuses.
UpdatePolicy(h, named, status) == (named => status = "verified") /\ Recorded(h)

\* POST /wallet/key/rotate: refused while WalletSubmit has a submission of the
\* wallet in flight.
RotateKey(h, inFlight) == ~inFlight /\ Recorded(h)

----------------------------------------------------------------------------
(* The cache.                                                               *)

\* The absolute age counts only where the option is given: wallet-service does
\* not give it.
Expired(c) ==
  \/ now > c.expires
  \/ maxAge # NoMaxAge /\ now - c.created > maxAge

\* set, with or without the creation time of the entry it replaces.
CacheSet(preserve) ==
  /\ cached' = [present |-> TRUE, expires |-> now + CacheTtl, written |-> now,
                created |-> IF preserve /\ cached.present THEN cached.created ELSE now]
  /\ UNCHANGED <<timeVars, creation, sessions, signers, req>>

\* Mutant: a touch makes the entry as good as new.
TouchedEntryAnew(c) == [c EXCEPT !.expires = now + CacheTtl, !.created = now]

\* touch prolongs the sliding expiry and not the absolute one.
TouchedEntry(c) == [c EXCEPT !.expires = now + CacheTtl]

CacheTouch ==
  /\ cached.present
  /\ cached' = IF Expired(cached) THEN NoBalance ELSE TouchedEntry(cached)
  /\ UNCHANGED <<timeVars, creation, sessions, signers, req>>

\* invalidateBalance after a submission, cleanup, or the get of an expired entry.
CacheDrop ==
  /\ cached.present /\ cached' = NoBalance
  /\ UNCHANGED <<timeVars, creation, sessions, signers, req>>

----------------------------------------------------------------------------

AccountTick ==
  /\ now < MaxNow /\ now' = now + 1
  /\ UNCHANGED <<life, maxAge, creation, sessions, signers, req, cached>>

\* The process dies and starts again.
Restart ==
  /\ life < MaxLives /\ life' = life + 1
  /\ req' = [h \in Handlers |-> Idle]
  /\ attempts' = [k \in Keys |-> NoLimit]
  /\ version' = [k \in Keys |-> 0]
  /\ cached' = NoBalance
  /\ UNCHANGED <<now, maxAge, creation, session, revoked, audit>>

CreateNext ==
  \/ \E h \in Handlers :
        \/ CreateCharge(h) \/ CreateSubmit(h)
        \/ \E k \in Keys : CreateCheck(h, k)
        \/ \E s \in Sessions : CreateInsert(h, s)
  \/ Restart

SessionNext ==
  \/ \E k \in Keys, s \in Sessions : Connect(k, s)
  \/ \E h \in Handlers :
        \/ Touch(h) \/ ThresholdRecord(h)
        \/ \E n \in BOOLEAN, v \in {"verified", "failed", "unavailable"} : UpdatePolicy(h, n, v)
        \/ \E f \in BOOLEAN : RotateKey(h, f)
        \/ \E s \in Sessions : Authenticate(h, s) \/ Revoke(h, s)
        \/ \E a \in {"add", "remove"}, e \in {AnyVersion, 0, 1} : ManageSigner(h, a, e)
        \/ \E t \in 1..2 : ThresholdRead(h, t)
  \/ AccountTick \/ Restart

CacheNext == CacheTouch \/ CacheDrop \/ AccountTick \/ \E p \in BOOLEAN : CacheSet(p)

\* All of it in one process.
AccountsSpec == AccountsInit /\ [][CreateNext \/ SessionNext \/ CacheNext]_accountVars

----------------------------------------------------------------------------

\* A wallet row names an account that exists on the network, and every
\* deployment that was handed to the submitter had been charged, however two
\* creations of one key, lost answers and restarts interleave.
CreatedOnceAndMetered == wallet \subseteq chain /\ sent <= charged

\* A session that was revoked never comes back, although requests that had
\* found it live go on to prolong it.
RevokedStaysDead == \A s \in revoked : session[s] = NoSession

\* Within one life of the process no two signer updates of a wallet were
\* accepted against the same version: optimistic concurrency loses none.
NoLostSignerUpdate ==
  \A i, j \in 1..Len(audit) :
    /\ i # j /\ audit[i].type # "threshold" /\ audit[j].type # "threshold"
    /\ audit[i].key = audit[j].key /\ audit[i].life = audit[j].life
    => audit[i].version # audit[j].version

\* A cache that is given balanceMaxAgeMs serves no balance written longer ago
\* than that, however often it was touched or refreshed in place.  Of a cache
\* that is not given it nothing is said: a touch prolongs its entries for ever.
BalanceAgeBounded ==
  maxAge # NoMaxAge /\ cached.present /\ ~Expired(cached) => now - cached.written <= maxAge

\* Nothing old comes back as new: no revoked session, no signer update against a
\* version already used, and from a cache that limits their age no older balance
\* (the session store, the signer routes, MemoryCacheStore).
NothingStaleRevives == RevokedStaysDead /\ NoLostSignerUpdate /\ BalanceAgeBounded
=============================================================================
