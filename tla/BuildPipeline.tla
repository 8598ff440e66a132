--------------------------- MODULE BuildPipeline ---------------------------
(***************************************************************************)
(* One verification job on the worker, from its claim to its outcome:      *)
(* verify.ts, resolver.ts, the Docker executor (executor.ts), the guard of *)
(* repository URLs (repo-url-guard.ts), the pre-fetch of the locked        *)
(* dependencies (cargo-prefetch.ts), the comparison of modules             *)
(* (wasm-compare.ts) and the classification of errors.                     *)
(*                                                                         *)
(* A wasm is a record: what it computes (code), the custom metadata, the   *)
(* toolchain stamps, the layout of the metadata section, and whether the   *)
(* module and that section parse.  Its hash is the record itself.          *)
(***************************************************************************)
EXTENDS Naturals, FiniteSets

CONSTANTS Wasms, Jobs,
          Crates, GitDeps,      \* dependencies of the two kinds
          FirstPartyHashes      \* FIRST_PARTY_WASM_HASHES

VARIABLES
  buildJob,   \* the job in hand, or NoBuildJob
  step,       \* where runVerification is
  dns,        \* what the repository's hosts resolve to: "public" or "blocked"
  reached,    \* history: addresses connected to
  deployed,   \* the contract's wasm on chain
  onChain,    \* history: what it has been since the job was taken
  hash,       \* deployedHash
  todo,       \* dependencies still to fetch
  fetched,    \* dependencies on disk, each with its content
  late,       \* index fetches in flight when another one failed
  workdir,    \* whether the job's temporary directory exists
  container,  \* whether the build container runs
  built,      \* the rebuilt wasm
  buildOutcome   \* of the job

hostVars  == <<dns, reached>>
chainVars == <<deployed, onChain>>
depVars   == <<todo, fetched, late>>
boxVars   == <<workdir, container>>
pipelineVars == <<buildJob, step, hostVars, chainVars, hash, depVars, boxVars, built, buildOutcome>>

NoWasm  == [code |-> 0, meta |-> 0, stamp |-> 0, layout |-> 0, parses |-> FALSE, metaParses |-> FALSE]
Open    == [status |-> "open", retryable |-> FALSE]
NoBuildJob   == [signed |-> FALSE, source |-> "none", https |-> FALSE, lock |-> {}, lockOk |-> FALSE, firstParty |-> FALSE]

PipelineInit ==
  /\ buildJob = NoBuildJob /\ step = "idle"
  /\ dns = "public" /\ reached = {}
  /\ deployed \in Wasms /\ onChain = {deployed}
  /\ hash = NoWasm /\ built = NoWasm
  /\ todo = {} /\ fetched = {} /\ late = {}
  /\ workdir = FALSE /\ container = FALSE
  /\ buildOutcome = Open

----------------------------------------------------------------------------
(* Errors.                                                                 *)

Permanent == {"not_found", "not_wasm", "not_configured", "artifact_missing", "repo_url_rejected",
              "unsupported_source", "dependencies_unresolved"}

\* isTransientFailure: a message that sounds like the network counts before the code does.
IsTransientFailure(code, networkWords) == networkWords \/ code \notin Permanent

\* A failed outcome; the finally of build removes the directory.
Fail(code, networkWords) ==
  /\ buildOutcome' = [status |-> "failed", retryable |-> IsTransientFailure(code, networkWords)]
  /\ step' = "idle" /\ workdir' = FALSE

\* A mismatch, or a signature that does not verify, is never retryable.
Reject == buildOutcome' = [status |-> "failed", retryable |-> FALSE] /\ step' = "idle"

----------------------------------------------------------------------------
(* Before the build.                                                       *)

\* runVerification takes the job, whose signature is checked when a secret is set.
Begin(j) ==
  /\ step = "idle"
  /\ buildJob' = j /\ onChain' = {deployed}
  /\ hash' = NoWasm /\ built' = NoWasm
  /\ todo' = {} /\ fetched' = {} /\ late' = {} /\ reached' = {}
  /\ workdir' = FALSE
  /\ IF j.signed THEN step' = "resolve" /\ buildOutcome' = Open ELSE Reject
  /\ UNCHANGED <<dns, deployed, container>>

\* A timeout of the RPC propagates: the record stays "building" for the reaper.
Timeout ==
  /\ buildOutcome' = [status |-> "building", retryable |-> TRUE] /\ step' = "idle"

\* resolveDeployedHash.
Resolve ==
  /\ step = "resolve"
  /\ \/ hash' = deployed /\ step' = "guard" /\ UNCHANGED <<buildOutcome, workdir>>
     \/ Timeout /\ UNCHANGED <<hash, workdir>>
     \/ \E code \in {"not_found", "not_wasm", "rpc_error"}, words \in BOOLEAN :
          Fail(code, words) /\ UNCHANGED hash
  /\ UNCHANGED <<buildJob, hostVars, chainVars, depVars, container, built>>

\* isBlockedAddress: private, loopback, link-local and reserved addresses.
Addresses == {"public", "blocked"}

\* assertPublicHttpsRepoUrl: https, no credentials, every address public; the
\* address is handed on as a pin.
Guarded(https) == https /\ dns = "public"

Guard ==
  /\ step = "guard"
  /\ IF buildJob.source # "repo" THEN Fail("unsupported_source", FALSE)
     ELSE \/ Guarded(buildJob.https) /\ step' = "clone" /\ workdir' = TRUE /\ UNCHANGED buildOutcome
          \/ ~Guarded(buildJob.https) /\ Fail("repo_url_rejected", FALSE)
          \/ Fail("repo_url_rejected", TRUE)           \* the name does not resolve
  /\ UNCHANGED <<buildJob, hostVars, chainVars, hash, depVars, container, built>>

\* Mutant: git resolves the name once more.
ConnectAnew == reached' = reached \cup {dns}

\* gitConnectionPinArgs, pinnedLookup: the connection goes to the checked address.
Connect == reached' = reached \cup {"public"}

Clone ==
  /\ step = "clone" /\ Connect
  /\ \/ step' = "plan" /\ UNCHANGED <<buildOutcome, workdir>>
     \/ Fail("clone_failed", FALSE)
  /\ UNCHANGED <<buildJob, dns, chainVars, hash, depVars, container, built>>

\* assertDiskSpace estimates the need, and is skipped when the plan is empty.
DiskMayBeShort == buildJob.lock # {}

\* parseCargoLock and planDependencies.
PlanDependencies ==
  /\ step = "plan"
  /\ IF ~buildJob.lockOk THEN (\E words \in BOOLEAN : Fail("dependencies_unresolved", words)) /\ UNCHANGED todo
     ELSE \/ step' = "fetch" /\ todo' = buildJob.lock /\ UNCHANGED <<buildOutcome, workdir>>
          \/ DiskMayBeShort /\ Fail("insufficient_disk_space", FALSE) /\ UNCHANGED todo
  /\ UNCHANGED <<buildJob, hostVars, chainVars, hash, fetched, late, container, built>>

\* Mutant: whatever arrives is kept.
AcceptedAny(content) == TRUE

\* The checksum of a crate, the commit of a git dependency.
Accepted(content) == content = "locked"

Fetched(d) ==
  \E content \in {"locked", "other"} :
    \/ /\ Accepted(content)
       /\ fetched' = fetched \cup {<<d, content>>} /\ todo' = todo \ {d}
       /\ UNCHANGED <<step, buildOutcome, workdir, late>>
    \/ /\ ~Accepted(content)
       /\ Fail("dependencies_unresolved", FALSE)
       /\ late' = (todo \cap Crates) \ {d} /\ UNCHANGED <<fetched, todo>>

\* 404 and 4xx are final, 5xx, 429 and a broken connection are not.
NotFetched(d) ==
  /\ \E code \in {"dependencies_unresolved", "dependency_fetch_failed"}, words \in BOOLEAN : Fail(code, words)
  /\ late' = (todo \cap Crates) \ {d} /\ UNCHANGED <<fetched, todo>>

\* Crates by index and download, several at a time, before the first git mirror;
\* the URL of each git dependency is guarded like the repository's.
Fetch(d) ==
  /\ step = "fetch" /\ d \in todo
  /\ d \in GitDeps => todo \subseteq GitDeps
  /\ \/ d \in Crates /\ Connect /\ (Fetched(d) \/ NotFetched(d))
     \/ d \in GitDeps /\ Guarded(TRUE) /\ Connect /\ (Fetched(d) \/ NotFetched(d))
     \/ /\ d \in GitDeps /\ ~Guarded(TRUE)
        /\ Fail("repo_url_rejected", FALSE) /\ UNCHANGED <<reached, fetched, todo, late>>
  /\ UNCHANGED <<buildJob, dns, chainVars, hash, container, built>>

\* An index entry that arrives after the failure: its mkdir recreates the directory.
LateWrite(d) ==
  /\ d \in late
  /\ late' = late \ {d} /\ workdir' = TRUE
  /\ UNCHANGED <<buildJob, step, hostVars, chainVars, hash, todo, fetched, container, built, buildOutcome>>

----------------------------------------------------------------------------
(* The build, and the comparison.                                          *)

\* docker run: no network, the dependencies mounted read-only.
StartContainer ==
  /\ step = "fetch" /\ todo = {}
  /\ step' = "build" /\ container' = TRUE
  /\ UNCHANGED <<buildJob, hostVars, chainVars, hash, depVars, workdir, built, buildOutcome>>

\* defaultRun: the exit code, or the kill at the timeout.
RunResults == {"ok", "failed", "timed_out"}

\* Killing the client leaves the container, which docker rm -f then removes;
\* no wasm in the release directories, or several, is a missing artifact.
EndContainer ==
  /\ step = "build" /\ container' = FALSE
  /\ \E result \in RunResults :
       \/ result # "ok" /\ Fail("build_failed", result = "timed_out") /\ UNCHANGED built
       \/ result = "ok" /\ Fail("artifact_missing", FALSE) /\ UNCHANGED built
       \/ result = "ok" /\ built' \in Wasms /\ step' = "compare" /\ workdir' = FALSE /\ UNCHANGED buildOutcome
  /\ UNCHANGED <<buildJob, hostVars, chainVars, hash, depVars>>

\* parseWasmSections and parseMetaEntries.
Parses(w) == w.parses

\* Mutant: the whole metadata section is left out.
NormalizedViewBare(w) == <<w.code>>

\* normalizedView: the toolchain stamps are dropped from a section that parses.
NormalizedView(w) ==
  IF w.metaParses THEN <<w.code, w.meta>> ELSE <<w.code, w.meta, w.stamp, w.layout>>

\* differingToolchainKeys.
StampsDiffer(a, b) == (a.metaParses \/ b.metaParses) /\ a.stamp # b.stamp

CompareWasm(a, b) ==
  IF a = b THEN "exact"
  ELSE IF /\ Parses(a) /\ Parses(b)
          /\ NormalizedView(a) = NormalizedView(b) /\ StampsDiffer(a, b)
       THEN "toolchain-metadata" ELSE "none"

IsFirstParty == buildJob.firstParty \/ hash \in FirstPartyHashes

\* fetchDeployedWasm: not there, refused, or bytes of another hash.
FetchDeployedWasmFails ==
  \E code \in {"not_found", "rpc_error"}, words \in BOOLEAN :
    buildOutcome' = [status |-> "failed", retryable |-> IsTransientFailure(code, words)] /\ step' = "idle"

\* The rebuilt hash is the deployed one, or the bytes behind the deployed hash
\* are fetched (and hashed) and differ in the toolchain stamps only.
Compare ==
  /\ step = "compare"
  /\ IF built = hash THEN buildOutcome' = [status |-> "verified", retryable |-> FALSE] /\ step' = "idle"
     ELSE IF IsFirstParty THEN Reject
     ELSE \/ Timeout
          \/ FetchDeployedWasmFails
          \/ CompareWasm(built, hash) = "none" /\ Reject
          \/ /\ CompareWasm(built, hash) = "toolchain-metadata"
             /\ buildOutcome' = [status |-> "verified", retryable |-> FALSE] /\ step' = "idle"
  /\ UNCHANGED <<buildJob, hostVars, chainVars, hash, depVars, boxVars, built>>

----------------------------------------------------------------------------

\* The repository's owner changes the DNS; the contract's owner upgrades it.
Rebind ==
  /\ dns' \in Addresses
  /\ UNCHANGED <<buildJob, step, reached, chainVars, hash, depVars, boxVars, built, buildOutcome>>
Upgrade ==
  /\ deployed' \in Wasms /\ onChain' = onChain \cup {deployed'}
  /\ UNCHANGED <<buildJob, step, hostVars, hash, depVars, boxVars, built, buildOutcome>>

PipelineNext ==
  \/ \E j \in Jobs : Begin(j)
  \/ Resolve \/ Guard \/ Clone \/ PlanDependencies
  \/ \E d \in Crates \cup GitDeps : Fetch(d) \/ LateWrite(d)
  \/ StartContainer \/ EndContainer \/ Compare \/ Rebind \/ Upgrade

----------------------------------------------------------------------------

\* "verified" is said of a wasm that was the contract's while the job ran, and
\* that computes the same and says the same of itself as the rebuilt one; of a
\* first-party contract only if they are equal byte for byte.
VerifiedMeansSame ==
  buildOutcome.status = "verified" =>
    /\ hash \in onChain
    /\ built.code = hash.code /\ built.meta = hash.meta
    /\ IsFirstParty => built = hash

\* Untrusted code runs only on what Cargo.lock pins, and the host connects only
\* to addresses the guard has seen, although names may be rebound at any time.
Hermetic ==
  /\ container => fetched = {<<d, "locked">> : d \in buildJob.lock}
  /\ reached \subseteq {"public"}

\* A build the service vouches for: what is called verified is the same code,
\* and nothing but the pinned inputs went into it (verify.ts, executor.ts).
BuildsSound == VerifiedMeansSame /\ Hermetic

\* "A dependency host was unreachable ...; the build will be retried"
\* (verify.ts:59), "Transient failures ... are marked as retryable"
\* (verify.ts:82): a transient failure is not the end of the record.
TransientIsRetried == buildOutcome.status = "failed" => ~buildOutcome.retryable
=============================================================================
