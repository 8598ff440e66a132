---------------------------- MODULE ServiceBoot ----------------------------
(***************************************************************************)
(* How a service starts (index.ts of each, db/client.ts, service-kit       *)
(* migrations.ts, persistence.ts, network-config.ts, signing-keys.ts): it  *)
(* connects, migrates the database it shares with the others under an      *)
(* advisory lock, and serves only when its configuration hangs together.   *)
(***************************************************************************)
EXTENDS Naturals, Sequences, FiniteSets, Functions

CONSTANTS Services,
          Migrations,   \* Migrations[s]: the journal of service s, in order
          Envs,         \* configurations considered
          MaxCrashes    \* bound

ASSUME BootConstants == "none" \notin Services   \* that is the lock with no holder

VARIABLES
  env,       \* the configuration of the deployment
  checkout,  \* checkout[s]: line endings of the migration files of s
  stage,     \* stage[s]: how far s has come
  pending,   \* pending[s]: the set of migrations it found unrecorded
  lock,      \* holder of the migration lock, or "none"
  recorded,  \* hashes in __drizzle_migrations: migration and line endings
  executed,  \* history: executed[m]: how often the statements of m committed
  crashes

bootVars == <<env, checkout, stage, pending, lock, recorded, executed, crashes>>
dbVars   == <<recorded, executed>>

AllMigrations == UNION {Range(Migrations[s]) : s \in Services}

BootInit ==
  /\ env \in Envs
  /\ checkout \in [Services -> {"lf", "crlf"}]
  /\ stage = [s \in Services |-> "down"]
  /\ pending = [s \in Services |-> {}]
  /\ lock = "none" /\ recorded = {} /\ crashes = 0
  /\ executed = [m \in AllMigrations |-> 0]

Enter(s, st) == stage' = [stage EXCEPT ![s] = st]

----------------------------------------------------------------------------
(* connectDb and applyMigrations.                                          *)

\* A service without DATABASE_URL, or whose database is not reached
\* (tryConnectDb), goes on without a handle.
Unconnected(s) ==
  /\ stage[s] = "down" /\ Enter(s, "volatile")
  /\ UNCHANGED <<env, checkout, pending, lock, dbVars, crashes>>

LockFree == lock = "none"

Lock(s) ==
  /\ stage[s] = "down" /\ env.database /\ LockFree
  /\ lock' = s /\ Enter(s, "locked")
  /\ UNCHANGED <<env, checkout, pending, dbVars, crashes>>

\* Mutant: only the hash of the file as it is on disk counts.
IsRecordedExactly(s, m) == <<m, checkout[s]>> \in recorded

\* recordedForms: either line ending counts.
IsRecorded(s, m) == \E e \in {"lf", "crlf"} : <<m, e>> \in recorded

ReadRecorded(s) ==
  /\ stage[s] = "locked"
  /\ pending' = [pending EXCEPT ![s] = {m \in Range(Migrations[s]) : ~IsRecorded(s, m)}]
  /\ Enter(s, "read")
  /\ UNCHANGED <<env, checkout, lock, dbVars, crashes>>

\* One transaction: every pending migration, in order, and its row, or none when a
\* statement fails, in which case there is no handle; the lock goes either way.
Migrate(s, ok) ==
  /\ stage[s] = "read"
  /\ lock' = IF lock = s THEN "none" ELSE lock
  /\ pending' = [pending EXCEPT ![s] = {}]
  /\ IF ok THEN /\ recorded' = recorded \cup {<<m, checkout[s]>> : m \in pending[s]}
                /\ executed' = [m \in AllMigrations |->
                                  executed[m] + IF m \in pending[s] THEN 1 ELSE 0]
                /\ Enter(s, "durable")
           ELSE Enter(s, "volatile") /\ UNCHANGED dbVars
  /\ UNCHANGED <<env, checkout, crashes>>

----------------------------------------------------------------------------
(* What the service then insists on.                                       *)

\* resolvePersistencePolicy.
PersistenceAllows(durable) ==
  env.allowInmemory \/ durable \/ env.nodeEnv \in {"development", "test"}

\* resolveNetwork: declared, and confirmed by passphrase and RPC host.
NetworkConfirmed ==
  /\ env.network \in {"testnet", "mainnet"}
  /\ env.passphrase = env.network /\ env.rpcHost = env.network

\* Mutant: the waiver holds in production too.
KeyConfirmedWaived ==
  /\ env.secret # "invalid"
  /\ (env.secret = "none") => (env.pin = "none")
  /\ env.secret # "none" =>
       \/ env.pin = env.secret
       \/ env.pin = "none" /\ (env.network # "mainnet" \/ env.allowUnpinned)
  /\ env.relayer \in {env.network, "unknown"}

\* verifySigningKeys: the secret parses, is the pinned one, is pinned on
\* mainnet unless that is waived outside production; the relayer's URL does
\* not contradict the network.
KeyConfirmed ==
  /\ env.secret # "invalid"
  /\ (env.secret = "none") => (env.pin = "none")
  /\ env.secret # "none" =>
       \/ env.pin = env.secret
       \/ /\ env.pin = "none"
          /\ env.network # "mainnet" \/ (env.allowUnpinned /\ env.nodeEnv # "production")
  /\ env.relayer \in {env.network, "unknown"}

\* The checks of index.ts between the connection and the server.
Confirmed(s) == PersistenceAllows(stage[s] = "durable") /\ NetworkConfirmed /\ KeyConfirmed

\* startService, or process.exit(1).
Start(s) ==
  /\ stage[s] \in {"durable", "volatile"}
  /\ IF Confirmed(s)
     THEN Enter(s, IF stage[s] = "durable" THEN "serving" ELSE "serving_volatile")
     ELSE Enter(s, "exited")
  /\ UNCHANGED <<env, checkout, pending, lock, dbVars, crashes>>

\* The process dies: its session ends, and with it the transaction and the lock.
Crash(s) ==
  /\ stage[s] # "down" /\ crashes < MaxCrashes
  /\ crashes' = crashes + 1
  /\ lock' = IF lock = s THEN "none" ELSE lock
  /\ pending' = [pending EXCEPT ![s] = {}]
  /\ Enter(s, "down")
  /\ UNCHANGED <<env, checkout, dbVars>>

BootNext ==
  \E s \in Services :
    \/ Unconnected(s) \/ Lock(s) \/ ReadRecorded(s) \/ Start(s) \/ Crash(s)
    \/ \E ok \in BOOLEAN : Migrate(s, ok)

----------------------------------------------------------------------------

\* The statements of a migration take effect once, whatever boots, crashes and
\* checkouts with other line endings share the database; and a service that
\* serves from it finds all of its tables.
MigratedOnce ==
  /\ \A m \in AllMigrations : executed[m] <= 1
  /\ \A s \in Services : stage[s] = "serving" => \A m \in Range(Migrations[s]) : executed[m] = 1

\* A service that serves mainnet from a production environment signs with no
\* key, or with the one its operator pinned, against mainnet endpoints only;
\* and none serves from memory unless the environment says it may.
ServesOnlyConfirmed ==
  \A s \in Services :
    /\ stage[s] \in {"serving", "serving_volatile"} =>
         /\ env.passphrase = env.network /\ env.rpcHost = env.network
         /\ env.network = "mainnet" /\ env.nodeEnv = "production" => env.pin = env.secret
         /\ env.relayer # IF env.network = "mainnet" THEN "testnet" ELSE "mainnet"
    /\ stage[s] = "serving_volatile" => env.allowInmemory \/ env.nodeEnv \in {"development", "test"}
=============================================================================
