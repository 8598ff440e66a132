----------------------------- MODULE Provenance -----------------------------
(***************************************************************************)
(* The attestor of worker-service on top of the AttestationRegistry: the   *)
(* worker loops that verify a contract and mirror the outcome on-chain     *)
(* (runVerification, complete, reportOutcome), and the upgrade sweep       *)
(* (runUpgradeSweep), while owners upgrade their contracts.                *)
(*                                                                         *)
(* One await is one step.  A registry call is a transaction: it is sent,   *)
(* lands or fails, and its caller goes on; the caller may also give up     *)
(* while the transaction can still land (getTransaction throws).  Two      *)
(* transactions with one sequence number are one landing and one failing.  *)
(*                                                                         *)
(* The threshold attestor is another signer of the same calls, and what a  *)
(* build does inside is an outcome: neither is looked into here.           *)
(***************************************************************************)
EXTENDS AttestationRegistry, FiniteSets

CONSTANTS
  Worker,        \* job slots
  Deployments,   \* ways to deploy the service, see deployment
  Sweep,         \* the actor runUpgradeSweep
  key,           \* the attestor account of the service
  ttl,           \* attestationTtlLedgers
  SweepLimit,    \* the limit of runUpgradeSweep
  Gone,          \* what resolves when the contract is not there
  TimedOut,      \* the resolver's timeout
  Rebuilt,       \* a rebuilt hash that differs in toolchain metadata only
  MaxRuns,       \* bound: verification runs
  MaxUpgrades,   \* bound: upgrades
  MaxOrphans     \* bound: given-up transactions that may still land

ASSUME ProvenanceConstants ==
  /\ Deployments \subseteq
       [contracts : SUBSET Contract, workers : SUBSET Worker, attesting : SUBSET Worker, faults : BOOLEAN]
  /\ Sweep \notin Worker
  /\ key \in Account
  /\ Rebuilt \in Hash
  /\ {ttl, SweepLimit, MaxRuns, MaxUpgrades, MaxOrphans} \subseteq Nat
  /\ SweepLimit > 0

Actor    == Worker \cup {Sweep}
Deployed == (Hash \ {Rebuilt}) \cup {Gone}
NoCall   == [op |-> "none"]

VARIABLES
  deployment,  \* constant: the contracts in use, the slots that run, those whose loop
             \* was given an attestor, and whether transactions and RPC calls may fail
  live,      \* contract -> the wasm hash deployed now
  upgrades,  \* upgrades so far
  runs,      \* verification runs so far
  verdict,   \* contract -> its latest terminal record: status, attestedHash
  proven,    \* history: contract -> the outcomes that were verified
  job,       \* worker -> what it verifies and how far it is
  watch,     \* what listLatestVerified returned and is not yet swept
  sweep,     \* the entry being swept, the hash resolved, the phase
  call,      \* actor -> the registry call it waits for
  landed,    \* actor -> what became of it: "sent", "ok" or "failed" ("ok" without a call)
  orphan     \* calls whose actor gave up and that may still land

actorVars == <<deployment, live, upgrades, runs, verdict, proven, job, watch, sweep, call, landed, orphan>>
allVars   == <<registryVars, actorVars>>

Outcome ==
  [status : {"verified", "failed"}, outputHash : Hash, deployedHash : Deployed,
   publisher : Publisher \cup {NoPublisher}]

\* The deployed hash, also when the rebuilt one differs in metadata only.
attestedHash(outcome) == outcome.deployedHash

Idle == [phase |-> "idle"]

ProvenanceInit ==
  /\ Init
  /\ attestor = key
  /\ deployment \in Deployments
  /\ live \in [Contract -> Deployed \ {Gone}]
  /\ upgrades = 0
  /\ runs = 0
  /\ verdict = [c \in Contract |-> [status |-> "none", hash |-> Gone]]
  /\ proven = [c \in Contract |-> {}]
  /\ job = [w \in Worker |-> Idle]
  /\ watch = {}
  /\ sweep = Idle
  /\ call = [a \in Actor |-> NoCall]
  /\ landed = [a \in Actor |-> "ok"]
  /\ orphan = {}

-----------------------------------------------------------------------------
(***************************************************************************)
(* external: owners, and the network that carries the registry calls       *)
(***************************************************************************)
Upgrade(c) ==
  /\ c \in deployment.contracts /\ upgrades < MaxUpgrades
  /\ \E h \in Deployed \ {live[c]} : live' = [live EXCEPT ![c] = h]
  /\ upgrades' = upgrades + 1
  /\ UNCHANGED <<registryVars, deployment, runs, verdict, proven, job, watch, sweep, call, landed, orphan>>

\* The registry executes a call.
Execute(tx) ==
  \/ tx.op = "upsert" /\ write_attestation(key, tx.contract, tx.hash, tx.publisher, tx.expires)
  \/ tx.op = "revoke" /\ revoke(key, tx.contract)

\* The instance and the record are readable and the expiry is still ahead.
Executable(tx) ==
  Callable(tx.contract) /\ (tx.op = "upsert" => ValidExpiry(tx.expires))

Lands(a) ==
  /\ call[a] # NoCall /\ landed[a] = "sent"
  /\ Execute(call[a])
  /\ landed' = [landed EXCEPT ![a] = "ok"]
  /\ UNCHANGED <<deployment, live, upgrades, runs, verdict, proven, job, watch, sweep, call, orphan>>

\* Rejected, dropped, or panicked on-chain.
Fails(a) ==
  /\ call[a] # NoCall /\ landed[a] = "sent"
  /\ deployment.faults \/ ~Executable(call[a])
  /\ landed' = [landed EXCEPT ![a] = "failed"]
  /\ UNCHANGED <<registryVars, deployment, live, upgrades, runs, verdict, proven, job, watch, sweep, call, orphan>>

\* The poll throws before the transaction is final.
GivesUp(a) ==
  /\ deployment.faults /\ Cardinality(orphan) < MaxOrphans
  /\ call[a] # NoCall /\ landed[a] = "sent"
  /\ landed' = [landed EXCEPT ![a] = "failed"]
  /\ orphan' = orphan \cup {call[a]}
  /\ UNCHANGED <<registryVars, deployment, live, upgrades, runs, verdict, proven, job, watch, sweep, call>>

OrphanEnds(tx) ==
  /\ orphan' = orphan \ {tx}
  /\ Execute(tx) \/ UNCHANGED registryVars
  /\ UNCHANGED <<deployment, live, upgrades, runs, verdict, proven, job, watch, sweep, call, landed>>

\* Time.  A report takes seconds and an attestation lives for days: no report
\* outlives the attestation it asks for, and no transaction either.  The last
\* ttl ledgers of a behaviour come after the last report.
Tick ==
  /\ LedgerClose
  /\ \A a \in Actor : call[a].op = "upsert" => call[a].expires > ledger + 1
  /\ \A w \in Worker : job[w].phase \in {"build", "ledger"} => ledger + ttl < MaxLedger
  /\ orphan' = {tx \in orphan : tx.op = "upsert" => tx.expires > ledger + 1}
  /\ UNCHANGED <<deployment, live, upgrades, runs, verdict, proven, job, watch, sweep, call, landed>>

Sent(a, tx) ==
  /\ call' = [call EXCEPT ![a] = tx]
  /\ landed' = [landed EXCEPT ![a] = "sent"]

Returned(a) ==
  /\ call[a] # NoCall /\ landed[a] # "sent"
  /\ call' = [call EXCEPT ![a] = NoCall]
  /\ landed' = [landed EXCEPT ![a] = "ok"]

-----------------------------------------------------------------------------
(***************************************************************************)
(* runVerification, complete, reportOutcome                                *)
(***************************************************************************)
\* The resolver answers with the hash deployed now.  (A timeout leaves the job
\* to the reaper, see VerificationJobs.)  The submit route allows one active
\* verification per contract.
Resolve(w, c) ==
  /\ w \in deployment.workers /\ c \in deployment.contracts /\ job[w] = Idle
  /\ \A v \in Worker : job[v].phase = "build" => job[v].contract # c
  /\ runs < MaxRuns /\ ledger + ttl <= MaxLedger
  /\ runs' = runs + 1
  /\ job' = [job EXCEPT ![w] = [phase |-> "build", contract |-> c, seen |-> live[c]]]
  /\ UNCHANGED <<registryVars, deployment, live, upgrades, verdict, proven, watch, sweep, call, landed, orphan>>

\* The outcomes the comparison can give for the hash it resolved: the rebuilt
\* hash equals it, or differs in toolchain metadata only, or does not match
\* (what a failed outcome carries besides is not looked at).
Outcomes(seen) ==
  {o \in Outcome :
     /\ o.deployedHash = seen
     /\ o.status = "verified" => seen # Gone /\ o.outputHash \in {seen, Rebuilt}
     /\ o.status = "failed" => o.outputHash = Rebuilt /\ o.publisher = NoPublisher}

\* Mutants: every outcome is attested; none is.
ReportPhaseAlways(o) == "ledger"
ReportPhaseNever(o)  == "check"

ReportPhase(o) == IF o.status = "verified" THEN "ledger" ELSE "check"

\* complete() stores the record; then the outcome is reported, if the loop has
\* an attestor.
Finish(w) ==
  /\ job[w].phase = "build"
  /\ \E o \in Outcomes(job[w].seen) :
       LET c == job[w].contract
       IN  /\ verdict' = [verdict EXCEPT ![c] = [status |-> o.status, hash |-> attestedHash(o)]]
           /\ proven' = IF o.status = "verified"
                        THEN [proven EXCEPT ![c] = @ \cup {o}] ELSE proven
           /\ job' = [job EXCEPT ![w] =
                        IF w \notin deployment.attesting THEN Idle
                        ELSE [phase |-> ReportPhase(o), contract |-> c, outcome |-> o]]
  /\ UNCHANGED <<registryVars, deployment, live, upgrades, runs, watch, sweep, call, landed, orphan>>

Upsert(c, hash, publisher, expires) ==
  [op |-> "upsert", contract |-> c, hash |-> hash, publisher |-> publisher, expires |-> expires]

\* await currentLedger(); the first upsert is sent.
ReportLedger(w) ==
  LET o == job[w].outcome
  IN  /\ job[w].phase = "ledger"
      /\ job' = [job EXCEPT ![w] = [phase |-> "first", contract |-> job[w].contract,
                                    outcome |-> o, expires |-> ledger + ttl]]
      /\ Sent(w, Upsert(job[w].contract, attestedHash(o), NoPublisher, ledger + ttl))
      /\ UNCHANGED <<registryVars, deployment, live, upgrades, runs, verdict, proven, watch, sweep, orphan>>

\* The first upsert landed; the second, with the publisher if there is one,
\* carries outputHash.
ReportFirst(w) ==
  LET o == job[w].outcome
  IN  /\ job[w].phase = "first" /\ landed[w] = "ok"
      /\ job' = [job EXCEPT ![w].phase = "last"]
      /\ Sent(w, Upsert(job[w].contract, o.outputHash, o.publisher, job[w].expires))
      /\ UNCHANGED <<registryVars, deployment, live, upgrades, runs, verdict, proven, watch, sweep, orphan>>

\* Mutant: a failed outcome is never checked against the registry.
ReportCheckSkipped(w) ==
  /\ job[w].phase = "check"
  /\ job' = [job EXCEPT ![w] = Idle]
  /\ UNCHANGED <<registryVars, deployment, live, upgrades, runs, verdict, proven, watch, sweep, call, landed, orphan>>

\* A failed outcome: revoke if the registry holds a record, live or expired.
ReportCheck(w) ==
  /\ job[w].phase = "check"
  /\ IF record[job[w].contract] # NoAttestation
     THEN /\ job' = [job EXCEPT ![w].phase = "last"]
          /\ Sent(w, [op |-> "revoke", contract |-> job[w].contract])
     ELSE job' = [job EXCEPT ![w] = Idle] /\ UNCHANGED <<call, landed>>
  /\ UNCHANGED <<registryVars, deployment, live, upgrades, runs, verdict, proven, watch, sweep, orphan>>

\* The last call returned, or any call or read threw: the error is logged.
ReportEnds(w) ==
  /\ \/ job[w].phase = "last" /\ Returned(w)
     \/ job[w].phase = "first" /\ landed[w] = "failed" /\ Returned(w)
     \/ job[w].phase \in {"ledger", "check"} /\ deployment.faults /\ UNCHANGED <<call, landed>>
  /\ job' = [job EXCEPT ![w] = Idle]
  /\ UNCHANGED <<registryVars, deployment, live, upgrades, runs, verdict, proven, watch, sweep, orphan>>

Work(w) ==
  \/ \E c \in Contract : Resolve(w, c)
  \/ Finish(w)
  \/ ReportLedger(w)
  \/ ReportFirst(w)
  \/ ReportCheck(w)
  \/ ReportEnds(w)

-----------------------------------------------------------------------------
(***************************************************************************)
(* runUpgradeSweep                                                         *)
(***************************************************************************)
\* The contracts whose latest terminal record is verified.
LatestVerified == {c \in Contract : verdict[c].status = "verified"}

\* listLatestVerified: no more than the limit of them, and the outer query has
\* no order: which ones is the database's choice, the same at every sweep for
\* all the code knows.  (A sweep that lists nothing changes nothing.)
SweepList ==
  /\ sweep = Idle /\ watch = {} /\ LatestVerified # {}
  /\ \E listed \in SUBSET LatestVerified :
       /\ Cardinality(listed) <= SweepLimit
       /\ listed # LatestVerified => Cardinality(listed) = SweepLimit
       /\ watch' = {<<c, verdict[c].hash>> : c \in listed}
  /\ UNCHANGED <<registryVars, deployment, live, upgrades, runs, verdict, proven, job, sweep, call, landed, orphan>>

\* isAttested of the next entry; a contract without a record, or a read that
\* fails, is skipped.
SweepNext ==
  \E entry \in watch :
    /\ sweep = Idle
    /\ watch' = watch \ {entry}
    /\ \/ /\ record[entry[1]] # NoAttestation
          /\ sweep' = [phase |-> "resolve", contract |-> entry[1], hash |-> entry[2]]
       \/ /\ record[entry[1]] = NoAttestation \/ deployment.faults
          /\ UNCHANGED sweep
    /\ UNCHANGED <<registryVars, deployment, live, upgrades, runs, verdict, proven, job, call, landed, orphan>>

\* liveHash !== outputHash, where liveHash is undefined for every resolve error
\* but rpc_error.
Drift(seen, hash) == seen # hash

\* The resolver answers, times out, or fails with rpc_error, which skips.
SweepResolve ==
  /\ sweep.phase = "resolve"
  /\ \E seen \in {live[sweep.contract]} \cup (IF deployment.faults THEN {TimedOut} ELSE {}) :
       IF Drift(seen, sweep.hash)
       THEN /\ sweep' = [phase |-> "revoke", contract |-> sweep.contract, seen |-> seen]
            /\ Sent(Sweep, [op |-> "revoke", contract |-> sweep.contract])
       ELSE sweep' = Idle /\ UNCHANGED <<call, landed>>
  /\ UNCHANGED <<registryVars, deployment, live, upgrades, runs, verdict, proven, job, watch, orphan>>

\* rpc_error skips the contract.
SweepSkips ==
  /\ deployment.faults
  /\ sweep.phase = "resolve"
  /\ sweep' = Idle
  /\ UNCHANGED <<registryVars, deployment, live, upgrades, runs, verdict, proven, job, watch, call, landed, orphan>>

SweepRevoked ==
  /\ sweep.phase = "revoke"
  /\ Returned(Sweep)
  /\ sweep' = Idle
  /\ UNCHANGED <<registryVars, deployment, live, upgrades, runs, verdict, proven, job, watch, orphan>>

SweepStep == SweepList \/ SweepNext \/ SweepResolve \/ SweepSkips \/ SweepRevoked

-----------------------------------------------------------------------------
ProvenanceNext ==
  \/ \E c \in Contract : Upgrade(c)
  \/ \E a \in Actor : Lands(a) \/ Fails(a) \/ GivesUp(a)
  \/ \E tx \in orphan : OrphanEnds(tx)
  \/ \E w \in Worker : Work(w)
  \/ SweepStep
  \/ Tick

ProvenanceSpec == ProvenanceInit /\ [][ProvenanceNext]_allVars

\* A handler that was started goes on, the network decides every transaction,
\* and the sweep's interval timer fires for ever.
Fairness ==
  /\ \A a \in Actor : WF_allVars(Lands(a) \/ Fails(a))
  /\ \A w \in Worker :
       WF_allVars(Finish(w) \/ ReportLedger(w) \/ ReportFirst(w) \/ ReportCheck(w) \/ ReportEnds(w))
  /\ WF_allVars(SweepStep)

FairSpec == ProvenanceSpec /\ Fairness

-----------------------------------------------------------------------------
MirrorTypeOK ==
  /\ TypeOK
  /\ live \in [Contract -> Deployed]
  /\ \A c \in Contract : proven[c] \subseteq Outcome
  /\ \A w \in Worker : job[w].phase \in {"first", "last"} <=> call[w] # NoCall
  /\ sweep.phase = "revoke" <=> call[Sweep] # NoCall
  /\ landed \in [Actor -> {"sent", "ok", "failed"}]

\* "attestations follow REAL verification runs" (attestor.ts): what the registry
\* says of a contract is the hash, and at most the publisher, of a run that
\* verified it, however calls interleave, fail or land late.
HonestMirror ==
  \A c \in Contract : record[c] # NoAttestation =>
    \E o \in proven[c] :
      /\ record[c].wasm_hash \in {o.outputHash, o.deployedHash}
      /\ record[c].publisher \in {NoPublisher, o.publisher}

\* "Silence decays to unverified on-chain by expiry" (attestor.ts): if the clock
\* runs, no contract stays verified after the last run, whatever calls fail.
SilenceDecays ==
  WF_allVars(Tick) => <>[](\A c \in Contract : ~is_verified(c))

Current(c) == verdict[c].status = "verified" /\ verdict[c].hash = live[c]

\* The deployment the properties below are about: every loop that runs has an
\* attestor, there is one, and no call fails.
Alone ==
  /\ deployment.attesting = deployment.workers
  /\ \A v, w \in deployment.workers : v = w
  /\ ~deployment.faults

\* "on change or failed re-verify -> revoke", as far as the sweep's limit goes:
\* while one sweep lists every verified contract, a contract whose latest run
\* failed, or whose code changed, does not stay verified, clock or no clock.
OneSweepListsAll == Cardinality(LatestVerified) <= SweepLimit
OutdatedRevoked ==
  \A c \in Contract :
    Alone /\ is_verified(c) /\ ~Current(c)
      ~> ~is_verified(c) \/ Current(c) \/ ~OneSweepListsAll

\* The claim without the limit, which the code does not keep: a contract that no
\* sweep lists keeps its outdated attestation until it expires.
OutdatedRevokedAll ==
  \A c \in Contract :
    Alone /\ is_verified(c) /\ ~Current(c) ~> ~is_verified(c) \/ Current(c)

\* A contract whose latest run is verified gets its attestation.  (Only before
\* the first upgrade: a sweep that began before an upgrade revokes what a
\* newer run attested.)
VerifiedIsAttested ==
  \A c \in Contract :
    Alone /\ Current(c) ~> record[c] # NoAttestation \/ ~Current(c) \/ upgrades > 0

\* "The hash an attestation vouches for: the DEPLOYED artifact" (artifact.ts):
\* once its report is over, an attestation carries the deployed hash.
AttestsDeployedHash ==
  \A c \in Contract :
    record[c] # NoAttestation /\ (\A w \in Worker : job[w] = Idle) =>
      \E o \in proven[c] : record[c].wasm_hash = attestedHash(o)
=============================================================================
