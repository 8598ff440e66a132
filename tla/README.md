# Vellar: a TLA+ verification project

TLA+ models of the Vellar wallet platform (`src/`), TLC runs over small instances, and
TLAPS proofs for every value of the constants.

* [1. The system](#1-the-system)
* [2. What is modelled, module by module](#2-what-is-modelled-module-by-module)
* [3. Runs](#3-runs)
* [4. Fairness](#4-fairness)
* [5. Proofs](#5-proofs)
* [6. Where the code and its documentation disagree](#6-where-the-code-and-its-documentation-disagree)
* [7. Not modelled](#7-not-modelled)
* [8. Plan](#8-plan)

To run: `tlc -workers 2 -config X.cfg M` for a run of `PROJECT.json`, `tlapm M.tla` for a
`*Proofs` module. `PROJECT.json` maps each definition to the lines it models.

## 1. The system

Vellar is a Stellar smart wallet with passkeys. Soroban contracts bound what a wallet's
signers may do, services verify the source of contracts and attest it on-chain, sponsor
transactions and deploy policies, and a browser extension and a web application are
the user's side.

| Component | State | Operations | Talks to | Hard part |
|---|---|---|---|---|
| spending-limit, token-spending-limit (`contracts/policy-templates`) | Config, Installed, Spend with a tumbling window, a TTL per entry | constructor, install, uninstall, `policy__` | the wallet calls it in `__check_auth` | window boundary, permissionless uninstall, archived entries, i128 sums |
| verified-recipient | Config (wallet, registry, mode), Installed | constructor, install, uninstall, `policy__` | reads the registry once per context | a registry that changes, expires and is archived under it |
| attestation-registry | attestor, one attestation per contract, TTLs | upsert, revoke, set_attestor, views | attestor writes, policies read | TTL against expiry, restores |
| threshold-attestor | threshold, revoke threshold, signers | set_signers, `__check_auth` | is the registry's attestor | authorizations over several calls, rotation |
| verification-service | `verification_records`, in-flight map, an in-memory build queue | submit; listing, history, badge routes; enqueue, claim, complete, fail, release | Postgres | check-then-act across awaits, pages under inserts, holders that come back late |
| worker-service: worker loop, reaper, cleanup | the rows' status, attempts and timestamps; the archive | claim, complete, reap, archive, delete | Postgres, the build sandbox | several replicas, crashes, builds longer than the timeout |
| worker-service: build pipeline | a work directory and a container per job | URL guard, clone, prefetch, build, compare | git, Docker, crates.io, DNS, RPC | names that resolve twice, parallel downloads, what counts as equal |
| worker-service: attestor, upgrade sweep | none of its own | reportOutcome, runUpgradeSweep | registry transactions, resolver | calls that fail or land late, upgrades, replicas |
| wallet-service | sponsored transactions, replay guard, in-flight registry, budgets, wallets, sessions, signer versions, cache | create, connect, submit, status, signers, rotate, merge | relayer, RPC, Postgres | double submission, retry after a lost answer, limits, sessions revoked while in use |
| submission worker (nothing starts it) | `transaction_submissions` rows | poll, lock, submit, mark, expire | RPC, Postgres | exactly once across crashes |
| policy-service | policy records; deploy jobs, dead-letter queue and event queue (not wired in) | validate, generate, deploy-instance, record attach, reconcile; enqueue, retry, requeue, archive | RPC, Postgres, budget | steps that fail half way, retries, poison jobs |
| lifecycle-service | account cache of 30 s | inspect, plan, execute, merge | Horizon, the cleanup wizard | stale snapshots, order of operations |
| permission-service | none: a health route (its cache is imported by its test only) | - | - | - |
| api-gateway | token buckets, the breaker of one route; an idempotency store no route uses | proxy | all services | a burst at the refill, outcomes that arrive late |
| service-kit | circuit breaker, endpoint pool, budgets, migrations, start-up checks | call, migrate, start | all services | half-open calls, races on health, replicas that start together |
| extension, provider SDK | pending approvals, paired origins, stored grants, device key | connect, sign, approve, pair, revoke | page, popup, web wallet | a service worker killed at any time, storage read and written across awaits |
| web application | reducers of its cards, `localStorage`, queries | mint, revoke, upgrade, pay, swap, build policies, verify, browse history, close accounts | services, RPC, Horizon, the wallet runtime | what is shown against what is signed, late answers, overlapping runs |
| scripts | none of their own | release gates, backfill, key check | services, Horizon, Postgres | a verdict over a system that moves |

What makes them correct, in one sentence each:

* spending policies: no span of a window authorizes more than twice the limit, nobody
  obtains a second budget, and an active policy is never archived;
* registry and its users: what is verified was vouched for by a quorum that stands by it,
  can be read as long as it lives, and stops being verified by itself;
* verification pipeline: an accepted submission is never lost, is built by one worker at
  a time, a bounded number of times, and ends;
* attestor: the registry says what runs found, and follows failures and upgrades;
* build pipeline: "verified" means that the rebuilt code is the code that was deployed, and
  nothing but what was pinned and checked went into the build;
* wallet-service: a transaction is submitted once and a budget charged once, a creation is
  metered before it is paid, and nothing stale revives a session, a signer or a balance;
* policy-service: a record says what is on the chain, and a deploy job or an event ends done or
  parked after a bounded number of attempts;
* gateway, service-kit and start-up: the guards let through neither more nor less than they
  say, each migration runs once, and nothing serves on a configuration nobody confirmed;
* extension: what was declined is never signed, and a call is answered once;
* web application: what is signed is what was reviewed, and the pages tell the truth about
  keys, signers, policies, provenance, history and the closing of an account.

`PROJECT.json` lists the hazards behind these, each at its line.

## 2. What is modelled, module by module

A Soroban invocation is atomic: a panic rolls it back, so it is a disabled action. Storage
belongs to the host (external): each entry has a TTL, an archived entry makes every
invocation that touches it fail until somebody restores it, and is never read as absent.
Over Postgres one SQL statement is one step, and the JavaScript between two awaits runs
with the statement before it. A request that is refused before its first write changes nothing
and is not a step.

### Spending policies: `SpendWindow`, `SpendingLimit`, `TokenSpendingLimit`

`SpendWindow` holds what the two contracts share, and the abstract policy `WindowSpec`
that both implement: a budget which authorizes any amount its window still covers.

| TLA+ | Code (`spending-limit/src/lib.rs`) |
|---|---|
| `config`, `installed`, `spend` | `StorageKey::{Config, Installed, Spend}` |
| `liveUntil`, `Renewed` | entry TTLs, `renew_instance`, `renew_persistent` |
| `signer`, `RemoveSigner`, `Restore`, `LedgerClose` | external: wallet and host |
| `Constructor`, `Install`, `Uninstall` | the entry points of these names |
| `Callable`, `CurrentAllowance`, `Charge` | `policy__`: checks, window reset, charge |
| `ParsesAsTransfer`, `RulesAllow`, `ValidRules`, `Authorizes` | `parse_transfer`, `apply_rules`, `validate_rules`, the loop over contexts |
| `total` | history: what was authorized up to each time |

`TokenSpendingLimit` has its own, laxer parsing: it refuses every context that is not a
`transfer` of its one token, but looks at neither `from`, `to` nor the number of arguments,
and accepts an empty list. One ledger is one second:
the code counts windows in seconds and TTLs in ledgers, and only their order matters.

### Registry and on-chain gate: `AttestationRegistry`, `ThresholdAttestor`, `VerifiedRecipient`

`AttestationRegistry` is the contract: `write_attestation` (for `upsert` and
`upsert_with_publisher`), `revoke`, `set_attestor`, the views `is_verified` and
`publisher_of`, and the TTLs of the records and of the instance. The host's maximal entry
TTL is taken to be at least `MAX_ATTESTATION_LEDGERS + TTL_BUFFER`.

`ThresholdAttestor` extends it with the account that may be the attestor: rosters and
their validation, `__check_auth` with the lower threshold for authorizations that cover
revokes only, rotation. A signature is a key and an index; `ed25519_verify` accepts it when
the key is the signer at that index. A transaction makes one of the calls its
authorization covers. When the attestor is handed to an ordinary account, that account
signs alone (`OtherCalls`).

`VerifiedRecipient` is the policy that reads the registry: constructor, install,
uninstall, `policy__` with `parse_context` and `check_provenance` in both modes.
`MCProvenanceGate` composes the two over one registry; its steps are the steps of either.
`vouched` (who signed what stands) and `passed` (what the last step authorized) are
histories.

### Verification pipeline: `VerificationJobs`

| TLA+ | Code |
|---|---|
| `pc`, `inFlight`, `waitsFor`, `Submit*` | `POST /verification/submit` of `server.ts`, one step per await |
| `earlier` | history: the requests answered before a request arrived |
| `status`, `recordStatus`, `attempts` | the status column, and status and attempts inside the jsonb record |
| `overdue`, `old` | `updated_at` against the reaper's and the cleanup's cutoff |
| `ClaimSubmitted`, `CompleteRead`, `CompleteWrite` | `claimSubmitted` and the two statements of `complete` (`pg-job-store.ts`) |
| `BuildEnds`, `WorkerFails`, `Released` | `runWorkerTick` (`loop.ts`), a thrown error, a dead process |
| `ReapSelect`, `ReapRow`, `ReapAborts` | `reapStranded`, one UPDATE per row, and its interruption |
| `CleanupSelect`, `-Archive`, `-Delete`, `-Aborts` | `runCleanup` and its interruption |
| `Imported`, `validateImportedRecord` | rows that fail import validation (`import-validation.ts`): claimed, skipped, left to the reaper |

A claim of several rows is one claim per row by as many job slots: the rows are locked and
independent. `SlowBuilds` says whether a job may outlast `reapTimeoutMs` while its worker
lives; `docker run` has a timeout, the clone and the prefetch have none.

### Attestor and sweep: `Provenance`

Extends `AttestationRegistry` with worker-service's attestor: `Resolve`, `Finish`, and
`Report*` are `runVerification`, `complete` and `reportOutcome`; `Sweep*` is
`runUpgradeSweep`; a registry call is sent (`Sent`), `Lands` or `Fails`, and returns
(`Returned`); `GivesUp` is a poll that throws, after which the transaction may still land
(`OrphanEnds`). `Upgrade` is the contract's owner. `deployment` is fixed at the start: which
loops run, which were given an attestor (the consumer group is not), whether calls may fail.
A tick is long against a transaction: no transaction outlives the attestation it asks for.
Its configurations make the TTLs longer than the behaviour, since archival is the
subject of `AttestationRegistry`; that the reaper may re-queue a job during its build is
the subject of `VerificationJobs`.

### Spend budget: `SpendBudget`

The Postgres budget of service-kit, which meters sponsored submissions, wallet creations and
deployments. A call of `tryConsume` is `Begin` (two clock readings, before the transaction),
`Lock` (the advisory lock), `CheckAndInsert` (the aggregate and the conditional INSERT in one
statement), and `Commit` or `Abort`. The row appears to others at `Commit`, whose answer may be
lost. Each caller's replica has its own clock (`Skew`). A row is identified by the call that
inserted it. No caller passes `count`, so a row counts one. The network of the key is fixed
by configuration.

### Submission: `WalletSubmit`

`POST /wallet/submit` of wallet-service, one step per await, several requests at once.

| TLA+ | Code (`services/wallet-service/src`) |
|---|---|
| `dedup`, `Lookup`, `Resolve` | `submissionDedup` (`server.ts`) |
| `inFlight`, `Start`, `Finally` | `in-flight.ts`, the releases of the finally block |
| `InScope`, `Scope` | `assertScopedToKnownWallets` (`scope.ts`) and the 403 and 503 answers |
| `reserved`, `Reserve`, `Release`, `PurgeRead`, `PurgeDelete` | `db/pg-replay.ts`, the purge timer of `index.ts` |
| `Simulate`, `Consume`, `Send`, `Poll` | `createSponsorSubmitter` and `consumeSponsorBudget` (`sponsor.ts`) |
| `breaker`, `Relay`, `RelaySend`, `BreakerDue` | `CircuitBreaker`, `createRelayerSubmitter` (`relayer.ts`) |
| `code`, `Throw`, `Catch` | `RELEASABLE_SUBMISSION_CODES` (`replay.ts`), the catch block |
| `tx`, `ledger`, `Apply`, `CloseLedger`, `Crash` | external: network, host, process |

An envelope is the set of authorizations (address and nonce) it carries, and whether the
sponsor rebuilds it. Any statement or call may throw, having taken effect or not. A
transmitted transaction is applied only while its authorizations are unexpired and unspent;
it may fail at any time (sequence numbers, fees, other submitters). Error codes are
abstracted to whether they release; `metered` abstracts the budget to whether a row exists,
which `SpendBudget` models. The network passphrase is configured, as in production: without
it the code runs neither scoping nor reservation.

### Wallet accounts: `WalletAccounts`, `AccountMerge`, `SubmissionWorker`

`WalletAccounts` is wallet-service apart from the submission route. A passkey has one derived
address, so a wallet is named by its key.

| TLA+ | Code (`services/wallet-service/src`) |
|---|---|
| `Create*`, `wallet`, `chain`, `charged`, `sent` | `POST /wallet/create`: lookup, budget, deployment, insert, one step per await |
| `session`, `Touched`, `revoked` | sessions with sliding expiry (`db/pg-repository.ts`), and the revoked ones as history |
| `attempts`, `version`, `audit` | passkey rate limit, `signerVersions` with `Bump`, the audit rows a route reads back |
| `cached`, `TouchedEntry`, `maxAge` | `cache.ts`: TTL, `touch`, and the separate age limit, an option that may be left out (`NoMaxAge`) |
| `life`, restart | rate limits, versions and the cache die with the process |

`AccountMerge` is `POST /wallet/account/merge`: the route's schema, `buildMergePlan`, and what
the client states. `SubmissionWorker` is the polling worker with its store and the classifier of
submission errors; several workers share the table.

### Builds: `BuildPipeline`, `BuildQueue`, `Listing`

`BuildPipeline` follows one job through `runVerification`: resolver, URL guard, clone, dependency
plan, parallel prefetch, container, comparison, and the class of every error. A wasm is a record
(code, metadata, toolchain stamps, layout, whether module and metadata parse) and its hash is the
record, so `NormalizedView` really drops what `wasm-compare.ts` drops. git, Docker, DNS and
crates.io are external: what they answer is chosen, and may change between two questions.

`BuildQueue` is `db/pg-queue.ts` with both backends; `index.ts` wires in the memory one. Over the
database `maxAttempts` is ignored, `fail` tests no status, `complete` stamps verified, and nothing
ties a holder to what is reported. `Listing` is the three keyset-paged lists (transactions,
policies, verification records), in memory and over Postgres, walked page by page while rows are
inserted behind the cursor and change status.

### Policy service: `PolicyService`, `PolicyJobs`, `BoundedRetry`

| TLA+ | Code (`services/policy-service/src`) |
|---|---|
| `row`, `handler` | records (`db/pg-repository.ts`), and the copy a handler writes back whole |
| generate, deploy, attach and reconcile actions | `server.ts`, `deployment.ts`, `deploy.ts`, `verify-attach.ts` |
| `ledger`, `txs` | external: deployed contracts, attach transactions |
| `charged`, `Charge` | the spend budget of deployments, reduced to how many were charged |
| `job`, `entry`, `deploying`, `asking` | `policy-deploy-worker.ts`, `dlq-store.ts`, `admin-dlq.ts` |
| `evQueue`, `evTries`, `evStage`, `handling` | `event-queue.ts` with its quarantine |

`BoundedRetry` is the abstract work queue: an item waits, is worked on, is done or parked, is
taken at most `Limit` times, and stays where it ended. `PolicyJobs` maps the deploy jobs (`Jobs`)
and the events (`Queue`) to it, with `JobStage`, `JobTries` and `JobLimit` as the mapping.

### Guards, start-up and scripts: `Gateway`, `ServiceBoot`, `OperatorScripts`

`Gateway` has the token bucket per tenant, the circuit breaker in front of the verification
service and the idempotency store; a unit of time is one in which a bucket regains its refill.
It also has the pool of RPC endpoints with its probes and `withRpcFailover`, a call walking the
candidates it took at its start. `ServiceBoot` is how a service starts: connecting, the advisory
lock, the migration transaction with hashes that depend on line endings, and the checks of
network, persistence and signing keys, for replicas that die at any step; a configuration is the
record of what these checks read. `OperatorScripts` has the two release gates,
`backfill-metadata.ts` and `verify-signing-keys.ts`, each against a deployment that moves.

### The user's side: `Extension`, `Cleanup`, `WebSigners`, `WebPay`, `WebPolicy`, `WebProvenance`, `Activity`

* `Extension`: page provider, bridge, background worker with `PairedTabManager`, stored state,
  popup, device key. Each read or write of the storage is a step, so handlers interleave between
  them, and the worker may be stopped at any time. `linked` says whether the two unbound
  identifiers of `background.ts:121` and `:132` resolve; as the source stands they do not, and a
  request that needs approval ends in a ReferenceError. Both values are checked.
* `Cleanup`: the wizard, lifecycle-service (`CollectCleanupOps`, `CleanupOps`, the cache) and the
  ledger, which takes a transaction only with the account's next sequence number and applies its
  operations all or none; the user submits in any order, others change the account.
* `WebSigners`: `runMint` (`pc`) detached from the reducer (`ui`), so runs overlap; the cards that
  revoke, add and upgrade, over transactions that land late.
* `WebPay`: a link is the fields `parsePayUri` looks at; the origin and trust checks are effects
  that may be cancelled; a swap is quoted, prepared, reviewed, signed and tracked while prices move.
* `WebPolicy`: a typed amount is its whole part and its digits, `xlmToStroops` and the templates of
  policy-service turn it into base units. `Promised` states the limits of a form as decimals, without
  the code's conversions, and `Probes` are amounts of single transfers tried against the form and
  against the deployed arguments: nothing is refused that every typed limit allows, and nothing let
  through that the claimed ones forbid. A per-transaction limit beside a daily one is not claimed
  ("authoring metadata only", `templates.ts:426`), though the form offers it (section 6). A removal is
  shown on its hash; whether it lands (`RemovalEnds`) is decided before or after that.
* `WebProvenance`: the explorer, the submission form, the provenance card with its preference.
* `Activity`: an event is its place and its kind (own, others', fee, token, garbled), a timestamp
  is its ledger; windows, scan requests, cursor, asset lookups, and Horizon for a classic account.
  Only the first request of a scan names the window, whose `endLedger` is exclusive; the others carry
  the cursor, which leads on to the head until the budget of requests is spent, or the node returns
  none once the window is exhausted (`Scans`; `adr-403-transaction-history.md:109`). The ADR also saw
  timestamps out of stream order, so nothing is claimed of the order of rows. `ActivityAssumption`:
  the node keeps more than two windows. The node, Horizon and react-query are external.

## 3. Runs

Times are with two workers. A merged MC module (`MCContracts`, `MCWallet`, `MCServices`, `MCBuilds`,
`MCClients`) holds several components that share no state, so a behaviour moves only the part
chosen at the start: nothing is lost by not interleaving them, and a run asks all its questions
at once. Properties named in brackets are the conjuncts of the one before.

| Run | Instance and bounds | Checks |
|---|---|---|
| `contracts` | spending policies: 7 ledgers, windows of 2 and 3, limits 3 and 4, `I128Max` 5, 7 configurations of which some must be refused; registry: 2 contracts, 2 accounts, lifetimes 0, 1, 3, 7 against a maximum of 6; 331 k states | `WindowCap`, `AtMostTwicePerSpan`, `EntriesKept` (`ActiveUseKeepsAlive`, `LiveReadable`), `NoEarlyReset`, `WindowSpec` |
| `provenance_gate` | 2 contracts of which one is the wallet, 2 valid and 3 invalid rosters, 2 attestor accounts, 3 modes, 3 ledgers; 788 k states | `GateKept` (`QuorumVouched`, `NeverLocked`, `InstalledWhileSigner`), `OnlyVouchedCode` |
| `verification_jobs` | 2 submissions, 1 malformed row, 2 job slots, 1 replica, `maxAttempts` 2, builds within the timeout; 1.34 M states | `NoDoubleBuild`, `AttemptsBounded`, `SubmissionsKept` (`NeverLost`, `DoubledOnlyByOverlap`), `TerminalIsFinal` |
| `verification_replicas` | 1 submission, 2 slots, 2 replicas, slow builds; 17 k states | `EventuallyTerminal` |
| `provenance` | 2 contracts where the sweep lists 1, else 1; 2 runs, 1 upgrade, 4 deployments (one loop with both contracts; one whose calls fail; a loop and a group without attestor; two replicas); 390 k states | `HonestMirror`, `SilenceDecays`, `OutdatedRevoked`, `VerifiedIsAttested` |
| `wallet_submit` | 2 requests over 4 envelopes (sponsored, re-wrapped for the relayer, with an unknown subject, unrelated), 4 authorizations, 2 attempts, breaker threshold 2, 3 ledgers, 1 crash; 1.16 M states | `SentStaysReserved`, `AuthorizationSentOnce`, `SendsAccounted` (`OnlyKnownWalletsFunded`, `SponsoredSendMetered`, `InFlightBalanced`, `AnswerIsReal`) |
| `wallet` | creation, sessions, cache and budget: 1 key, 2 handlers, 2 sessions, clock 3; 4 budget calls, window 2, skewed clocks; symmetry of handlers and of sessions; 2.14 M states | `CreatedOnceAndMetered`, `NothingStaleRevives` (`RevokedStaysDead`, `NoLostSignerUpdate`, `BalanceAgeBounded`), `CountCeiling`, `StroopsCeiling`, `NoUnmeteredGrant` |
| `services` | 1 policy, 2 handlers, 2 contracts; 3 jobs, dead-letter threshold 1; 3 events of 2 attempts, 2 consumers; bucket 2 and refill 1, breaker threshold 2, clock 5; 2 endpoints; 2 wallet replicas and the policy service with 2 crashes; all 11 664 environments; gates of 2 in a row and a budget of 1/4; 2 records and 2 tries; 2 roles on 2 networks; 423 k states | `DeploymentsTrue` (`RecordMatchesChain`, `DeploysMetered`, `DlqAccounts`), `DeployJobsRetry`, `EventsRetry` (refinements of `BoundedRetry`), `EventsSettle`, `GuardsHold` (`TenantRateBound`, `OpensOnlyOnStreak`, `SelectedIsBest`, `FailsOnlyWhenAllFailed`), `PruneInvisible`, `BreakerRecovers`, `ReleaseSafely` (`MigratedOnce`, `ServesOnlyConfirmed`, `GatesHold`, `BackfillReported`, `KeysPlaced`) |
| `builds` | 2 crates and 1 git dependency; 2 jobs, 2 builders, visibility 1; 3 rows, pages of up to 2; 891 k states | `BuildsSound` (`VerifiedMeansSame`, `Hermetic`), `QueueBounded`, `PagesComplete` |
| `clients` | 2 calls, 1 paired origin allowed, 1 fault; 2 assets, 2 operations per transaction; 3 mints; 2 swap paths; history windows of 2 ledgers, scans of 2 requests of 2 events, 7 ledgers, 3 pages; 1.31 M states | `ExtensionSound` (`DeclinedNeverSigned`, `OriginsBounded`), `SettledOnce`, `CleanupSound` (`CleanupSucceeds`, `PlanMatchesSteps`, `DoneMeansClosed`), `PagesTellTheTruth` (`PageTellsTheTruth`, `ProvenanceShownTrue`, `ActivityTrue`), `SignedAsReviewed` (`RequestVouched`, `SwapAsReviewed`, `PolicyAsReviewed`) |
| `account_merge` | violation | `OpenBalancesBlock` |
| `submission_worker` | violation, under fairness | `QueuedIsSubmitted` |

The longest run takes three and a half minutes. Type invariants are stated in the modules and proved where
there is a proof; no run lists them.

What they show:

* **Spending.** The Spend record is exactly what its window authorized
  (`WindowCap`); no span of `window_seconds`, wherever it starts, authorizes more than twice
  the limit; while the policy is a signer its budget is reset only by an elapsed window
  (`NoEarlyReset`), whoever calls `uninstall`; a policy used within `RENEW_THRESHOLD` has no
  archived entry. Both contracts implement the abstract window (`WindowSpec`). Two windows and
  every phase of a span across their boundary fit into seven ledgers.
* **Registry.** With lifetimes up to `RENEW_THRESHOLD` an unexpired attestation and the
  instance are readable (`LiveReadable`). That a contract becomes verified only by a fresh write
  (`VerifiedOnlyByWrite`) is proved, section 5.
* **Gate.** When `policy__` lets a call through, a quorum vouched for the called contract,
  for a publisher the mode trusts, until a ledger not yet reached, and did not revoke it;
  this holds across rotations, hand-overs, archivals and authorizations that mix revokes
  with other calls. In three ledgers a write at 0 expires at 1 and is archived at 2. The
  wallet itself may be attested and still is never called.
* **Pipeline.** With one replica and builds within the timeout the pipeline keeps what its
  comments promise, and a contract is doubled only by submissions that overlap
  (`DoubledOnlyByOverlap`): one that starts after another was answered is refused. With replicas and slow builds nothing is lost and everything ends,
  but the other properties fail (section 6). A third attempt, two reapers and two slots
  are the smallest instance in which the reaper, the claim and the completion of one row
  can overlap in every order.
* **Attestor.** Whatever fails, lands late or interleaves, the registry says only what a
  run found (`HonestMirror`) and everything decays once runs stop (`SilenceDecays`). With
  one attesting loop and calls that do not fail (`Alone`), a failed re-verification or an
  upgrade revokes (`OutdatedRevoked`) while one sweep lists every verified contract: beyond
  its limit of 100 (1 in the run) the query has no order, and what it leaves out is never
  swept; and a verified contract is attested as long as nobody
  upgraded (`VerifiedIsAttested`). Each condition is needed (section 6).
* **Budget.** Taking the clock readings before the lock is sound: a stale window is an
  earlier, hence larger, one, so a late caller counts too much, never too little. The ceilings
  hold for the recorded timestamps: the fee of a caller that waited long is spent later than
  its row says. A lost answer costs budget and never grants it.
* **Submission.** A reservation goes only when no send can have happened or the
  authorization has expired, so re-wrapped copies, retries, purges with an old ledger and
  crashes never let one authorization be sent twice while it is good, or be paid for twice by
  the sponsor. Two requests are enough: every property speaks of one or of two of them, and the
  proofs of section 5 cover any number. The expiries straddle the
  bound on the ledger, so one reservation is purged while a copy of its authorization waits.
* **Accounts.** However creations of one key race, a wallet row names an account that exists, and every
  deployment handed to the submitter was charged before (two of them may be: the loser's insert fails
  after its deployment); a session that was revoked is not brought back by a request that read it before;
  two signer changes of one version never both succeed within one life of the process; and a cache that
  is given `balanceMaxAgeMs` serves no balance past that age however often the entry is touched. The only
  cache wallet-service makes is not given it (`index.ts:208`), so there a touched entry lives on without
  bound; no route touches, or even fills, it today (`server.ts` only invalidates), so the clause speaks of
  `MemoryCacheStore` and not of what a client is shown. Both settings are in the run.
* **Policy service.** A record names an instance only when the chain has it with the template's code
  for that wallet, is deployed through the public route only by a transaction that attached it, and no
  deployment of that route goes unmetered, whatever crashes between charge, deploy and
  record. Deploy jobs and events both implement `BoundedRetry`, through requeues, archives and
  concurrent administrators, and every event settles.
* **Guards.** No span admits more than the bucket and its refill; the breaker opens only on a
  streak of failures and recovers once the service is back; a call through the pool fails only
  when every endpoint refused it; pruning the idempotency store changes no answer.
* **Release.** Each migration runs once, across line endings and crashes; nothing serves with an
  unconfirmed network or key in any of the environments; the gates and scripts report what they saw.
* **Builds.** Verified means that the code of the rebuilt module is the code that was deployed during the
  job (byte for byte for a first-party contract), and whatever the DNS server or a late download does, a connection goes only to a checked
  address and the container sees exactly what the lock file pins. A job is claimed a bounded number of
  times in the memory queue (releases apart), and one that ended is never built again. A walk returns every steady row once, in order, across ties.
* **Clients.** What was declined is never signed, and a call settles once, though the worker is
  killed at any step. The steps of a cleanup plan succeed on an account nobody else changed, plan and
  builder count the same operations, and "done" means closed however old the cached account was. Confirmations show what is signed: mint summaries of overlapping runs, swap
  terms, payment requests, policies. The history shows no row twice, is newest first, and misses a
  row only when the scan budget cut its window.

Deadlock is checked in `account_merge` only: elsewhere behaviours end at a bound or when every
request is answered. Each property of a passing run has mutants in `PROJECT.json`, for a conjunction
usually one per conjunct: operators named for the bug they plant, defined before what they replace.

## 4. Fairness

* `VerificationJobs.Fairness`: the worker loop polls on a timer and claims the oldest row
  first (weak fairness per row), `runVerification` ends in a result or an error (weak fairness on
  the result; the error is always possible and does not help), the statements of `complete`
  follow, time passes, the reaper is on an interval timer. A reaper pass may be killed, but
  not for ever: strong fairness on its UPDATE. Nothing makes a worker fail or a reaper abort.
* `Provenance.Fairness`: the network decides each transaction, a started handler goes on,
  and the sweep's interval timer fires. The clock is fair only in `SilenceDecays`, as its
  premise: the other properties hold even if no ledger closes.

* `MCServices.Fairness`: `processAll` goes on while the queue is not empty and a handler returns or
  throws (`EventsSettle`). For `BreakerRecovers` it is the premise that clients keep calling,
  a proxied call is answered and the cooldown passes; the service goes up and down as it likes, and the
  property speaks of the behaviours in which it stays up in the end.
* `SubmissionWorker`: the polling loop never ends and its awaits return.

Everything else states safety only.

## 5. Proofs

Checked by TLAPS for all values of the constants, from the `ASSUME`s the modules name. They say that
bounds, limits and time-outs are natural numbers, that sets of requests, handlers or records are finite, that
null values are not members, `RENEW_THRESHOLD <= RENEW_TO`, and, where the code checks its
configuration, what it lets through: an endpoint list without repetition (`GatewayConstants`,
`rpc-pool.ts:117`), positive integers for the gates (`GateConstants`, `parseArgs`). On the user's side they give
the inputs their shape: a sign request carries a transaction and the stored grants are those of at most
`MAX_PAIRED_ORIGINS` origins (`ExtensionAssumption`); an account locks only what it holds
(`CleanupAssumption`, `IsAccount`); amounts are decimal numbers (`WebPolicyAssumption`); new keys are new
(`WebSignersAssumption`); and the node's retention is longer than two windows (`ActivityAssumption`: hours of
ledgers against minutes). A run evaluates each of them.

| Run's property | Theorem | Assuming besides |
|---|---|---|
| `WindowSpec`, `WindowCap`, `AtMostTwicePerSpan`, `NoEarlyReset` | `ImplementsWindow`, `SpendRecordExact`, `TwicePerSpan`, `NoEarlyBudget` in `ContractsProofs` | |
| `EntriesKept` | `NothingArchivedInUse` in `ContractsProofs` | `ShortLifetimes` |
| `GateKept`, `OnlyVouchedCode` | `GateStaysKept`, `OnlyVouchedCodeRuns` in `ProvenanceProofs` | |
| `HonestMirror` | `MirrorStaysHonest` in `ProvenanceProofs` | |
| `BuildsSound`, `QueueBounded` | `BuildsStaySound`, `QueueStaysBounded` in `VerificationJobsProofs` | |
| `PagesComplete` | `PagesStayComplete` in `VerificationJobsProofs` | |
| `NoDoubleBuild`, `AttemptsBounded`, `SubmissionsKept`, `TerminalIsFinal` | `NeverBuiltTwice`, `AttemptsStayBounded`, `SubmissionsAreKept`, `TerminalStaysFinal` in `VerificationJobsProofs` | `SingleReplica` |
| `SentStaysReserved`, `AuthorizationSentOnce`, `SendsAccounted` | `SendsStayReserved`, `NoAuthorizationSentTwice`, `SendsAreAccounted` in `WalletSubmitProofs` | |
| `CountCeiling`, `StroopsCeiling`, `NoUnmeteredGrant` | `BudgetCountCeiling`, `BudgetStroopsCeiling`, `BudgetFailsClosed` in `WalletProofs` | |
| `CreatedOnceAndMetered`, `NothingStaleRevives` | `WalletsAreRealAndMetered`, `NothingComesBack` in `WalletProofs` | |
| `DeploymentsTrue`, `DeployJobsRetry`, `EventsRetry` | `DeploymentsStayTrue`, `DeployJobsImplementRetry`, `EventsImplementRetry` in `ServicesProofs` | |
| `GuardsHold`, `PruneInvisible`, `ReleaseSafely` | `GuardsAlwaysHold`, `PruningIsInvisible`, `ReleaseStaysSafe` in `ServicesProofs` | |
| `ExtensionSound`, `SettledOnce` | `ExtensionStaysSound`, `CallsSettleOnce` in `ClientsProofs` | |
| `CleanupSound` | `CleanupStaysSound` in `ClientsProofs` | |
| `SignedAsReviewed` | `WhatIsSignedWasReviewed` in `ClientsProofs` | |
| `PagesTellTheTruth` | `PagesTellTrue` in `ClientsProofs` | |

`ShortLifetimes`: no accepted lifetime exceeds `RENEW_THRESHOLD`, the worker's default. `SingleReplica`: one replica runs
the reaper, and no job outlasts `reapTimeoutMs` while its worker lives. Without them the properties are false
(section 6); the runs make the same assumptions.

* `ContractsProofs`. `WindowCap` is not inductive: resetting a window needs to know what the preceding
  one authorized. `WindowInv` adds `RunningTotal` (the history is monotone and nothing after `now` has
  changed it) and `WindowHistory` (nothing was authorized after the stored window elapsed, and
  what was authorized within `window_seconds` before `window_start` is at most one limit). The heart is
  `ChargeInv`: a span that ends now either lies within the running window, which holds at most the
  limit, or straddles `window_start`, and then `WindowHistory` bounds the part before it by another
  limit. `ImplementsWindow`: each step of either contract is a step of `WindowSpec`, whatever its contexts
  and rules, and the invariants of the window follow for both. `WindowKeptAlive` gives `ActiveUseKeepsAlive`.
* `AttestationRegistryProofs`. `RegistryTypeCorrect` without further assumption; `AttestationsReadable` and `NoRevival`
  under `ShortLifetimes`. `LiveReadable` speaks about the present ledger only; the inductive
  `TtlReachesExpiry` says that the TTLs of record and instance reach the expiry.
* `ProvenanceProofs`. `GateImplementsRegistry`: attestor account, registry and policy together implement the
  registry alone. `GateInv` adds that a stored roster is injective and reaches both thresholds; then an
  ascending list of signer indices over it has as many keys as entries, so a list that passes
  `__check_auth` is a quorum, and the policy's read of the registry finds what such a quorum wrote.
  `HonestMirror` of the attestor is not inductive either: a transaction in flight, or given up and landing
  later, writes what was decided before. `MirrorInv` asks every call, waited for or not, to be as honest as the
  record it would write (`Honest`), and a report between its two upserts to be about a proven run (`JobSound`);
  proven runs are never taken back, so a late landing does no harm (`HonestyLasts`).
* `VerificationJobsProofs`. `JobsInv` ties rows, slots, requests, reaper and cleanup together: a slot's row is building
  and held by nobody else, what the reaper listed is still building, overdue and of the attempts it
  read (which needs the single replica), an archived row is terminal. `SubmissionsNeverLost` needs no
  assumption.
  The module also has `MCBuilds`. `PipelineInv`: the hash compared is one the contract had since the job began, what
  is on disk while dependencies are fetched is the pinned content of exactly those no longer to do, and a container
  runs only in the build step. `QueueInv`: the attempts on an entry are its claims, and in memory a waiting job
  can afford one more: `maxAttempts` and a release each. A late `complete` or `release` acts on a building job
  only, and `fail` ends it whatever it was. `ListInv`: what a walk has given is in order, without repetition and not
  beyond its cursor, and every steady row of the filter is either given or beyond it; a page then
  is right because `Ordered` puts each row at the place that the number of newer ones gives it.
* `WalletSubmitProofs`. What is sent is decided long after the reservation, so `ReplayInv` follows an
  authorization from `Reserve` on: as long as it is good it is reserved while a submission holds it,
  one submission at a time holds it (`HeldIsReserved`, `OneHolder`), and one sponsored submission
  at a time was cleared by the simulation for it (`OnePayer`, which outlives the purge because an
  expired authorization does not pass the simulation). `Progress` ties the place of the handler to whether it
  has sent: a releasable code is thrown only before. `SendsAccounted` adds what each place knows of
  wallet, meter, tracker and hash; the tracker's count is a cardinality.
* `WalletProofs`. The ceilings are not inductive: `BudgetInv` says for each inserted row that is not yet
  committed that the rows within its window leave room for it, and that the line's rows cannot change
  while its transaction holds the lock. The step that matters is `Commit`: whichever window gains the row,
  its other rows are newer than the row's `windowStart` and were counted, since
  `windowStart <= at - windowMs`. `StroopsCeiling` speaks of a fold over a set of rows; by well-founded induction on
  subsets it is the cardinality of the set of pairs of a row and a stroop of it, and sets can be compared. `AccountsInv` is for all
  account routes interleaved (`AccountsSpec`), which contains what `MCWallet` does part by part.
* `ServicesProofs`. One inductive invariant per part of `MCServices`, and a step moves one part. `ServiceInv`: copies of a
  record held by a handler are true of the chain, and stay so because instances and successful transactions
  never change. `DeployInv` counts a dead letter and the requeues from it against the jobs. `DeployJobsImplementRetry`
  and `EventsImplementRetry` show step by step that every action is one of `BoundedRetry` or a stutter under
  the mapping of `PolicyJobs`. `LimiterInv` bounds every span by the tokens that are left (a fold per span, by
  well-founded induction on subsets); `PoolInv` says that a walking call has refused endpoints and
  endpoints to do that together are all of them; `BootInv` that whoever read the migrations table still holds the
  lock, and that a migration is recorded exactly when it took effect; `GatesInv` that the row is the end of the
  probes and the counters of an unrestarted canary are those of the first scrape and what was served since;
  `BackfillInv` that every listed record is to do or counted, `KeyInv` that a look stays true.

* `ClientsProofs`. One inductive invariant per part of `MCClients`; a step moves one part.
  * `ExtInv`: a request that was refused or signed has ended, what waits for the user waits, and every copy of the
    state that a read-modify-write holds names at most `MAX_PAIRED_ORIGINS` origins, so a lost update cannot raise
    their number either. The worker may be stopped anywhere. `SettledOnce` is an action property under it.
  * `RequestInv`: a fetch that is not cancelled is about the link the page has open, so the pinned key was compared
    with the link that is shown. `SwapInv`: every review is kept as it was, the network has each at most once and
    above its minimum, and what was told failed was refused.
  * `PolicyInv`: the reviewed policy is the one generated from the form that was typed, a run carries it, an instance
    has exactly its arguments, and no two runs have one contract. That the arguments enforce what is claimed, and
    refuse nothing that is promised, is arithmetic on digits: `xlmToStroops` pads the digits, the base units compare
    like the decimals (`WithinExact`), and the schema orders two typed limits.
  * `SignersInv`: where a mint run is tells what its user confirmed and what it has submitted, whatever other runs put
    on the page. `ModeInv`: the provenance mode remembered is that of a contract whose attachment landed.
    `VerifyInv`: a list that is shown is the contract's history, shifted by the records that came since.
  * `CleanupInv`: what the service has read is the account as it was at its sequence number or, if nobody else changed
    it, after a beginning of its plan (`Tracked`), so each transaction that is handed out and can still be taken
    plays on the account as it is then (`Fits`), and a merge that can be taken meets no subentries. A transaction
    with an old sequence number does no harm. That a plan's operations all succeed is shown operation by operation
    over the recursive function `Run`.
  * `ActivityInv`: the pages a fetch has built, and those the query holds, are a chain (`Chain`): each tells of every
    event of its window before the ledger from which the scan left some unread, the windows leave no gap, the cursor
    of a page is just before its window, and of the classic rail everything down to the token is there. `LoadSound` adds that the fetch under way goes on from the cursor of the last page it has and has read the
    window it will store. Closed ledgers do not change (`ChainStays`), so a head that moves between two pages does
    not disturb the chain; `ChainGrows` is the step of `fetchPage` that adds a page.

Recursion over data. The provers have no induction over an operator; an induction over the natural numbers can
still be done when the predicate is a set: `ClientsProofs` first shows that a set of natural numbers with 0 that
is closed under successor is all of them (`NatSets`, from well-ordering) and that a function defined by recursion on
them exists and satisfies its equation (`NatRecursion`). This is how `FlattenSeq`, the digits of an amount and the run
of a transaction are reasoned about (`FlattenedWhence`, `EntriesPicked`, `ByTimeLists` for the history).

Only model-checked: the liveness properties and those that speak of fair behaviours (`EventuallyTerminal`,
`SilenceDecays`, `EventsSettle`, `BreakerRecovers`, `OutdatedRevoked`, `VerifiedIsAttested`), which TLAPS does not prove
under fairness. Every safety property and refinement that a passing run checks is proved.

## 6. Where the code and its documentation disagree

Two are runs of their own, with a finding in `PROJECT.json`:

* `merge-planner.ts:51` reads `item.balance`, a field the route's schema drops: no balance ever blocks a
  merge, though `server.test.ts:1553` says that it does.
* `db/pg-tx-store.ts:107` takes the worker's lock with an insert that conflicts with the row it was
  read from, so the submission worker submits nothing.

The following were found with the same models; their properties stay in the modules, and
the instance that shows each is the passing configuration with the change given.

| What happens | Code against text | To see it |
|---|---|---|
| Two reapers hold one stranded row; the second re-queues it under the worker that has claimed it since, and two workers build it | `pg-job-store.ts:181`, `:13` "two workers never build the same job" | `NoDoubleBuild`, two reapers |
| The second reaper decides on the attempts it read earlier; the row is attempted more than `maxAttempts` times | `pg-job-store.ts:149`, `job-store.ts:38` | `AttemptsBounded`, two reapers |
| Two submissions for one contract both pass the dedup awaits and both insert | `server.ts:387`, `:369` "one active verification per contract" | `OneActivePerContract`, one contract |
| A request that awaits another's holder is never answered when that insert throws: the promise is never rejected | `server.ts:383`, `:350`, `:346` | `SubmitAnswered` under `FairSpec`, one contract |
| A claim sets the column to building and leaves `record.status`, which the read routes return | `pg-job-store.ts:53`, `:87` "must match the columns" | `RecordMatchesColumn` |
| An attestation may live 365 days, the instance is renewed for 30: without further calls it is archived first | registry `lib.rs:291`, `:149` "can never be archived out from under a reader" | `LiveReadable`, a lifetime above `RENEW_TO` |
| A failed run finds nothing to revoke while another replica's upsert is in flight, and the sweep looks at verified contracts only | `attestor.ts:136`, `docs/design-provenance-gated-spending.md:110` | `OutdatedRevoked` without `Alone` |
| A job claimed by the consumer group, which has no attestor, is never attested | `index.ts:229`, `consumer-groups.ts:44` "attestation submission" | `VerifiedIsAttested` without `Alone` |
| A failed mirror call is logged and never tried again | `attestor.ts:141`, `registry-submitter.ts:39` "the attestor retries it" | the same, with faults |
| The sweep lists at most 100 verified contracts (in practice the first by id): an upgrade of another one is not noticed, and its attestation stands until it expires | `attestor.ts:150`, `pg-job-store.ts:223`, `attestor.ts:83` "Revoke attestations whose contract was upgraded" | `OutdatedRevokedAll` |
| A sweep that listed a contract before its upgrade revokes what a newer run attested | `attestor.ts:173`, `:83` | `VerifiedIsAttested` without its `upgrades` escape |
| The second copy of an identical envelope is answered 409 while the first is in flight, or after a restart, instead of the cached result | `server.ts:399`, `:395` "return the cached submission result instead of resubmitting or triggering replay rejection" | an invariant that no answer is 409 when both requests carry one envelope |
| After its sleep the relayer sends again although another request has opened the breaker meanwhile | `relayer.ts:171`, `services/wallet-service/README.md:10` | an invariant on `RelaySend` with `BreakerOpen` |
| When the cache or the audit log throws after a successful send, the client is told 502 and the history says `tx.failed` | `server.ts:511`, `:539` | `answer = "502"` with `tx = "landed"` |
| When the audit log throws in the catch block, a releasable reservation stays until it expires | `server.ts:547`, `replay.ts:97` "lets the owner retry the same signed auth" | `Catch` with answer 500 |
| The resolver's `timeout` is not `rpc_error`, so a transient failure revokes | `attestor.ts:162`, `:167` "never revoke on uncertainty" | `SweepResolve` with `TimedOut` |
| Two transfers around a reset move twice the daily limit (the sibling contract documents this) | `token-spending-limit/src/lib.rs:39` | `AtMostLimitPerSpan` |
| A build that outlasts the timeout and completes between the reaper's SELECT and its UPDATE turns from verified into submitted | `pg-job-store.ts:181` | `TerminalIsFinal`, slow builds |
| After a match up to toolchain metadata the second upsert overwrites the deployed hash by the rebuilt one | `attestor.ts:118`, `artifact.ts:30` | `AttestsDeployedHash` |
| In half_open every concurrent call is let through, not one trial | `circuit-breaker.ts:83`, `:5` | `SingleTrial` |
| A transient build failure ends the job instead of being retried | `verify.ts:82`, `loop.ts:86` | `TransientIsRetried` |
| Concurrent deploy-instance requests of one policy deploy several contracts | policy-service `server.ts:401` | `OneDeployPerPolicy` |
| A canary that restarts within the window may be promoted beyond the budget; too few requests exit 0 | `canary-error-budget-gate.ts:114`, `:7` | `PromotedWithinBudget` |
| The backfill stamps the hash deployed now, not the verified one | `backfill-metadata.ts:186` | `StampedIsVerified` |
| The stamp renews `updated_at`, so an old verified record passes for the latest run | `backfill-metadata.ts:186`, `pg-job-store.ts:213` | `SupersededStays` |
| A mint that fails after its signer transaction was sent does not say that the signer may exist | `agent-mint.ts:156` | `FailureMentionsSigner` |
| The explorer shows the answer that arrives last, whatever is typed | `verify/page.tsx:87` | `ShownIsTyped` |
| Between the attachment and the next look at the signer list the card says that nothing is enforced on-chain | `provenance-card.tsx:221` | `LostMeansDetached` |
| The warning of overlapping policies knows only those the page's signer list and this browser remember when the passkey is asked | `policies/page.tsx:515` | `WarnedBeforePasskey` |
| A per-transaction limit typed beside a daily one is in the definition that is reviewed, and no contract enforces it | `policies/page.tsx:346` "Per-transaction limit (XLM, optional)", `templates.ts:426` | `PerTxEnforced` |
| The card says that the policy was removed as soon as the removal has a hash; it may still fail | `policies/page.tsx:674` "✓ Policy removed", `:563` | `RemovedMeansDetached` |
| The scan goes forwards and stops at its budget, so the newest events of a busy window are never served; nor is the last ledger of a window when the node ends the stream there, since `endLedger` excludes it | `history.ts:52` "nothing between the two windows is ever skipped" | `NothingSkipped` |
| The cursor of a scan leads out of its window, into rows that a newer page has served | `history.ts:189` "nothing is re-read", `docs/adr-403-transaction-history.md:109` | `NoRowTwice` |
| When the scan of an empty window reads on to newer events, the next window ends before those: no progress | `history.ts:189` "progress is strictly backwards" | `MarchesBackwards` |
| "Load older" may append rows newer than those above it, of ledgers that closed since | `activity.ts:48` "one newest-first list" | `ShownNewestFirst` |
| The cursor of a drained rail is left out, and the rail starts from the top | `history.ts:339` | `NoRailRescrolled` |
| Events are not filtered by account; others' transfers show as "Self" | `history.ts:234`, `activity.tsx:63` | `OnlyOwnRows` |
| A quiet first page says "No transactions yet" and offers no older ones | `activity.tsx:57` | `EmptyMeansNone` |

Read in the code while modelling, and visible in the models as behaviours rather than as a property:

* contracts and workers: `worker-service/src/index.ts` declares resolver and executor twice (63 and
  93, 67 and 98), `verification-service/src/config.ts` a key twice (22); error classification looks at
  words before codes, so `insufficient_disk_space` is transient;
* policy-service: the deployer gets the spending policy's code only (`index.ts`), so token and provenance
  policies cannot be deployed; the deploy worker, the event queue, `reconcile` and the gateway's
  idempotency store are not wired in; the administrator's routes bypass budget and verification;
* wallet-service: a creation whose answer is lost leaves a contract without a row; `signerVersions`
  starts again with the process; rotation (`server.ts:1009`) asks whether a submission is in flight and
  then awaits, after which only an audit row is written; concurrent sponsored submissions read the
  same sequence number (`sponsor.ts:150`), and all but one fail after they were reserved and metered;
* lifecycle-service: the merge preflight reads the 30 s cache (`account-cache.ts:76`) though
  `docs/security-audit.md:933` says it re-inspects; destination and its trustlines are not looked at;
  `watchTransaction` takes a failed transaction for a seen one;
* extension: the unbound identifiers above; a connect approval never calls `finishResolving`; a failed
  storage write answers nobody; a state that cannot be read counts as empty; read-modify-write
  races between popup and worker; two device keys from concurrent pair approvals;
* web: `getWalletRuntime` keeps a rejected promise (`connector-factory.ts:129`); the last-passkey verdict
  is not asked again (`signers-card.tsx:222`); `send-payment.tsx` uses undeclared identifiers (233, 253,
  267) and never puts the memo in; a tracking timeout is told as a failure; switching provenance off
  leaves the policy attached; a half-filled cap is dropped (`policies/page.tsx:243`).

## 7. Not modelled

Listed in `PROJECT.json` with reasons.

* Not modelled: the threshold submitter (encoding of signature entries, not wired in), audit redaction,
  permission-service (a health route), metrics, tracing and header handling, the all-in-one
  launcher, the packages of types, presentation and thin clients, the rest of the web application
  (landing pages, slides, analytics, navigation), other scripts, infra and examples.
* Modelled in part: of verification-service not the badge and metadata routes; of the consumer groups not
  start, stop and statistics; of import validation not which field failed, nor the HMAC; of the account
  routes not x402 and metrics; of the policy templates not the CSRF guard and the wording; of the
  gateway not proxying and headers; of start-up not the migration that `backfill-metadata.ts:247` runs without
  the lock; of the pay page not a key that `localStorage` refuses to keep; of service-kit not
  `retry.ts`, a loop of sleeps; of the provider SDK not the mapping of passphrases and error codes.

Git, Docker, crates.io, Horizon, the RPC node and react-query are external: their answers are chosen.
Panics' error codes are left out: a refusal is a refusal. The queue-depth cap of the submit route is
modelled, but not claimed as an invariant, since it is read before the insert.

## 8. Plan

Done: all protocol-bearing components of section 1, with a proof of every safety property that a run
checks. Next:

1. The badge and metadata routes of verification-service and `wallet-service`'s x402 routes, when they keep state.
2. Composition of `WebPolicy` with `PolicyService`, and of `BuildQueue` with `BuildPipeline`, if
   `index.ts` comes to wire the database queue in.
3. The properties of section 6 move into the runs when the code keeps them.
