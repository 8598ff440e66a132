----------------------------- MODULE MCServices -----------------------------
(***************************************************************************)
(* policy-service (routes, deploy jobs, event queue), and what the services *)
(* have in front of them and share: the gateway's limiter, breaker and      *)
(* idempotency store, the pool of RPC endpoints, the boot of the services,  *)
(* the gates of a release and the operator's scripts.  They share nothing,  *)
(* so a behaviour moves only the part chosen at the start.                  *)
(***************************************************************************)
EXTENDS PolicyService, PolicyJobs, Gateway, ServiceBoot, OperatorScripts

CONSTANTS Url1, Url2

VARIABLE part

MCUrls == <<Url1, Url2>>

\* A production environment in which nothing is missing, and every other one.
GoodEnv == [database |-> TRUE, nodeEnv |-> "production", allowInmemory |-> FALSE, network |-> "mainnet",
            passphrase |-> "mainnet", rpcHost |-> "mainnet", secret |-> "k1", pin |-> "k1",
            allowUnpinned |-> FALSE, relayer |-> "mainnet"]
MCEnvs == [database : BOOLEAN, nodeEnv : {"unset", "production", "test"}, allowInmemory : BOOLEAN,
           network : {"unset", "testnet", "mainnet"}, passphrase : {"testnet", "mainnet", "unknown"},
           rpcHost : {"testnet", "mainnet", "unknown"}, secret : {"none", "invalid", "k1"},
           pin : {"none", "k1", "k2"}, allowUnpinned : BOOLEAN, relayer : {"testnet", "mainnet", "unknown"}]
\* Two replicas of the wallet service, of different checkouts perhaps, and the
\* policy service.
MCMigrations == [wallet |-> <<"w0", "w1">>, wallet2 |-> <<"w0", "w1">>, policy |-> <<"p0">>]

-----------------------------------------------------------------------------
Parts == {"service", "jobs", "events", "limiter", "breaker", "idem", "pool", "migrate", "config", "health", "canary",
          "backfill", "keys"}

policyState  == <<serviceVars, jobVars, evVars>>
scriptState  == <<backfillVars, keyVars>>
sharedState  == <<gatewayVars, poolVars, bootVars, gateVars, scriptState>>

MCInit ==
  /\ part \in Parts
  /\ part # "backfill" => dryRun = TRUE /\ jobRow = [i \in RowIds |-> [there |-> TRUE, status |-> "failed",
                                                                  hash |-> 0, updated |-> 0]]
  /\ part # "keys" => relayerOn = "unset" /\ funds = [net \in Networks |-> [r \in Roles |-> -1]]
  /\ part # "config" => env = GoodEnv
  /\ ServiceInit /\ JobsInit /\ EventsInit /\ PoolInit
  /\ GatewayInit /\ BootInit /\ GateInit /\ BackfillInit /\ KeyInit
  /\ part # "migrate" => checkout = [s \in Services |-> "lf"]
  /\ part # "breaker" => up

PolicyNext ==
  \/ part = "service" /\ ServiceNext /\ UNCHANGED <<jobVars, evVars>>
  \/ part = "jobs" /\ JobsNext /\ UNCHANGED <<serviceVars, evVars>>
  \/ part = "events" /\ EventsNext /\ UNCHANGED <<serviceVars, jobVars>>

SharedNext ==
  \/ /\ \/ part = "limiter" /\ LimiterNext
        \/ part = "breaker" /\ BreakerNext
        \/ part = "idem" /\ IdemNext
     /\ UNCHANGED <<poolVars, bootVars, gateVars, scriptState>>
  \/ part = "pool" /\ PoolNext /\ UNCHANGED <<gatewayVars, bootVars, gateVars, scriptState>>
  \/ /\ \/ part = "migrate" /\ BootNext
        \/ part = "config" /\ (Unconnected("wallet") \/ Start("wallet"))
     /\ UNCHANGED <<gatewayVars, poolVars, gateVars, scriptState>>
  \/ /\ \/ part = "health" /\ HealthNext
        \/ part = "canary" /\ CanaryNext
     /\ UNCHANGED <<gatewayVars, poolVars, bootVars, scriptState>>
  \/ /\ \/ part = "backfill" /\ BackfillNext /\ UNCHANGED keyVars
        \/ part = "keys" /\ KeyNext /\ UNCHANGED backfillVars
     /\ UNCHANGED <<gatewayVars, poolVars, bootVars, gateVars>>

MCNext ==
  /\ UNCHANGED part
  /\ \/ PolicyNext /\ UNCHANGED sharedState
     \/ SharedNext /\ UNCHANGED policyState

Breaker(A) == part = "breaker" /\ A

\* processAll goes on while the queue is not empty, and a handler returns or
\* throws; clients keep calling, every proxied call is answered, time passes.
Fairness ==
  /\ WF_evVars(\E c \in Consumers : TakeEvent(c))
  /\ \A c \in Consumers : WF_evVars(HandlerOk(c) \/ HandlerFails(c))
  /\ WF_breakerVars(Breaker(CooldownPasses))
  /\ \A r \in Requests : WF_breakerVars(Breaker(BeforeCall(r))) /\ WF_breakerVars(Breaker(RecordOutcome(r)))

MCSpec == MCInit /\ [][MCNext]_<<part, policyState, sharedState>> /\ Fairness

-----------------------------------------------------------------------------
\* What policy-service says of its deployments is true: a record's instance and
\* attach transaction are on the chain, every deployment was paid for from the
\* budget, and the dead-letter queue accounts for every dead job and what was
\* requeued from it (the deploy routes of server.ts, admin-dlq.ts).
DeploymentsTrue == RecordMatchesChain /\ DeploysMetered /\ DlqAccounts

\* The guards in front of a dependency do neither too little nor too much: no
\* span admits more than the bucket and its refill (the token bucket of the gateway),
\* the breaker opens only on a streak of failures, and a call fails only when every
\* endpoint refused it and the pool is on the best one it knows (the failover
\* pool).
GuardsHold == TenantRateBound /\ OpensOnlyOnStreak /\ SelectedIsBest /\ FailsOnlyWhenAllFailed

\* A release goes wrong in no order of boots, crashes, probes and restarts: each
\* migration runs once and before anything serves, nothing serves with a
\* configuration its operator did not confirm, and no gate passes a release on
\* answers it did not get, nor does an operator's script report what it did not
\* do (migrations.ts, network-config.ts, signing-keys.ts, scripts/).
ReleaseSafely == MigratedOnce /\ ServesOnlyConfirmed /\ GatesHold /\ BackfillReported /\ KeysPlaced
=============================================================================
