-------------------------- MODULE OperatorScripts --------------------------
(***************************************************************************)
(* The scripts an operator runs against a live deployment:                 *)
(* backfill-metadata.ts stamps verified records that lack the hash of the  *)
(* deployed code, while the cleanup job and other runs of it change the    *)
(* table; verify-signing-keys.ts asks both networks whether the pinned     *)
(* accounts exist; and the two gates of a release: deploy-health-gate.ts   *)
(* polls /health until it answered well so many times in a row, and        *)
(* canary-error-budget-gate.ts scrapes /metrics twice and compares the     *)
(* errors in between with a budget, while the canary serves requests and   *)
(* may restart.  The hash of a contract's n-th code is n.                  *)
(***************************************************************************)
EXTENDS Integers, Sequences, FiniteSets, FiniteSetsExt

CONSTANTS RowIds,        \* records of one contract, numbered in the order they were written
          MAX_RETRIES,
          MaxUpgrades,
          Roles,         \* "sponsor", "attestor"
          MinXlm

\* The identifiers tell the order of writing, and a table is finite.
ASSUME ScriptConstants == RowIds \subseteq Nat /\ IsFiniteSet(RowIds)

VARIABLES
  jobRow,     \* jobRow[i]: [there, status, hash, updated], hash 0 when it is missing
  live,       \* the code deployed now
  script,     \* the backfill: [step, todo, tries, hash]
  dryRun,     \* without --confirm
  tally,      \* stats: [listed, succeeded, skipped, failed]
  exit,       \* process.exit's argument, -1 before it
  funds,      \* funds[net][role]: the pinned account's XLM, -1 when it does not exist there
  relayerOn,  \* the network the relayer's URL names, "unset" or "unknown"
  looked,     \* looked[net][role]: the lookup's answer, "pending" before it
  keyVerdict  \* "running", "pass", "fail"

backfillVars == <<jobRow, live, script, dryRun, tally, exit>>
keyVars      == <<funds, relayerOn, looked, keyVerdict>>

Networks == {"testnet", "mainnet"}   \* declared: mainnet; the cases are symmetric
Declared == "mainnet"
Resting     == [step |-> "scan", todo |-> {}, tries |-> 0, hash |-> 0]

BackfillInit ==
  /\ jobRow \in [RowIds -> {[there |-> TRUE, status |-> s, hash |-> h, updated |-> 0] :
                           s \in {"verified", "failed"}, h \in {0, 1}}]
  /\ live = 1 /\ script = Resting /\ dryRun \in BOOLEAN /\ exit = -1
  /\ tally = [listed |-> {}, succeeded |-> 0, skipped |-> 0, failed |-> 0]

-----------------------------------------------------------------------------
(* backfill-metadata.ts                                                    *)

\* The records are gone through in the order they were written.
Current == Min(script.todo)

\* The next record, or the exit code.
Advance(outcome) ==
  LET counted == [tally EXCEPT ![outcome] = @ + 1]
      rest    == script.todo \ {Current} IN
  /\ tally' = counted
  /\ script' = [Resting EXCEPT !.step = IF rest # {} THEN "fetch" ELSE "done", !.todo = rest]
  /\ exit' = IF rest # {} THEN exit ELSE IF counted.failed > 0 THEN 1 ELSE 0

\* Connect, migrate, list the verified records that lack the hash; each may fail.
ScanRows ==
  /\ script.step = "scan"
  /\ LET listed == {i \in RowIds : jobRow[i].there /\ jobRow[i].status = "verified" /\ jobRow[i].hash = 0}
     IN  \/ /\ script' = [Resting EXCEPT !.step = IF listed = {} THEN "done" ELSE "fetch",
                                      !.todo = listed]
            /\ tally' = [tally EXCEPT !.listed = listed]
            /\ exit' = IF listed = {} THEN 0 ELSE exit
         \/ script' = [Resting EXCEPT !.step = "done"] /\ exit' = 2 /\ UNCHANGED tally
  /\ UNCHANGED <<jobRow, live, dryRun>>

\* resolveDeployedHash within withRetry; a dry run writes nothing.
FetchHash ==
  /\ script.step = "fetch"
  /\ IF dryRun THEN Advance("succeeded")
     ELSE script' = [script EXCEPT !.step = "recheck", !.hash = live] /\ UNCHANGED <<tally, exit>>
  /\ UNCHANGED <<jobRow, live, dryRun>>

\* A timeout, a contract that is gone, an RPC error: all are tried again.
FetchHashFails ==
  /\ script.step = "fetch"
  /\ IF script.tries + 1 < MAX_RETRIES
     THEN script' = [script EXCEPT !.tries = @ + 1] /\ UNCHANGED <<tally, exit>>
     ELSE Advance("failed")
  /\ UNCHANGED <<jobRow, live, dryRun>>

\* The record is read again before it is written.
Recheck ==
  /\ script.step = "recheck"
  /\ LET i == Current IN
     IF ~jobRow[i].there THEN Advance("failed")
     ELSE IF jobRow[i].hash # 0 THEN Advance("skipped")
     ELSE script' = [script EXCEPT !.step = "write"] /\ UNCHANGED <<tally, exit>>
  /\ UNCHANGED <<jobRow, live, dryRun>>

\* The update goes by the id alone, and renews updated_at.
WriteHash ==
  /\ script.step = "write"
  /\ jobRow' = [jobRow EXCEPT ![Current] =
              IF @.there THEN [@ EXCEPT !.hash = script.hash, !.updated = 1] ELSE @]
  /\ Advance("succeeded")
  /\ UNCHANGED <<live, dryRun>>

\* A bug: the error is logged and the record counted as done.
WriteFailsQuietly ==
  /\ script.step \in {"recheck", "write"} /\ Advance("succeeded")
  /\ UNCHANGED <<jobRow, live, dryRun>>

WriteFails ==
  /\ script.step \in {"recheck", "write"} /\ Advance("failed")
  /\ UNCHANGED <<jobRow, live, dryRun>>

\* Around it: the cleanup job, another run, an upgrade of the contract.
DeleteRow(i) == /\ jobRow[i].there /\ jobRow' = [jobRow EXCEPT ![i].there = FALSE]
                /\ UNCHANGED <<live, script, dryRun, tally, exit>>
OtherRunStamps(i) ==
  /\ jobRow[i].there /\ jobRow[i].status = "verified" /\ jobRow[i].hash = 0
  /\ jobRow' = [jobRow EXCEPT ![i].hash = live, ![i].updated = 1]
  /\ UNCHANGED <<live, script, dryRun, tally, exit>>
Upgrade == /\ live <= MaxUpgrades /\ live' = live + 1
           /\ UNCHANGED <<jobRow, script, dryRun, tally, exit>>

BackfillNext ==
  \/ ScanRows \/ FetchHash \/ FetchHashFails \/ Recheck \/ WriteHash \/ WriteFails \/ Upgrade
  \/ \E i \in RowIds : DeleteRow(i) \/ OtherRunStamps(i)

\* Exit code 0 of a confirmed run means that every record it listed and that
\* is still there has a hash, whatever was retried, deleted or stamped by
\* others in between; every listed record is counted once, and code 1 means that one
\* of them failed (backfill-metadata.ts, "Exit codes").
BackfillReported ==
  exit \in {0, 1} =>
    /\ Cardinality(tally.listed) = tally.succeeded + tally.skipped + tally.failed
    /\ exit = 1 <=> tally.failed > 0
    /\ exit = 0 /\ ~dryRun => \A i \in tally.listed : jobRow[i].there => jobRow[i].hash # 0

\* Not kept.  The hash is the one deployed when the script runs, not the one
\* that was verified (the records were verified when code 1 was live).
StampedIsVerified == \A i \in RowIds : jobRow[i].hash \in {0, 1}

\* Not kept: "a newer failed run supersedes an older verified one"
\* (pg-job-store.ts:213), but the stamp makes the old record the latest.
LatestRun == CHOOSE i \in RowIds : \A j \in RowIds \ {i} :
               jobRow[i].updated > jobRow[j].updated \/ (jobRow[i].updated = jobRow[j].updated /\ i > j)
SupersededStays ==
  (\A i \in RowIds : jobRow[i].there) /\ jobRow[Cardinality(RowIds)].status = "failed"
    => jobRow[LatestRun].status = "failed"

-----------------------------------------------------------------------------
(* verify-signing-keys.ts                                                  *)

KeyInit ==
  /\ funds \in [Networks -> [Roles -> {-1, MinXlm - 1, MinXlm}]]
  /\ relayerOn \in Networks \cup {"unset", "unknown"}
  /\ looked = [net \in Networks |-> [r \in Roles |-> "pending"]] /\ keyVerdict = "running"

\* lookupAccount: 404, an answer that is not ok, or the balance.
LookUp(net, r) ==
  /\ looked[net][r] = "pending"
  /\ \E answer \in {"error", IF funds[net][r] = -1 THEN "not_found"
                             ELSE IF funds[net][r] >= MinXlm THEN "funded" ELSE "underfunded"} :
       looked' = [looked EXCEPT ![net][r] = answer]
  /\ UNCHANGED <<funds, relayerOn, keyVerdict>>

\* A bug: an account that exists on the other network will do.
KeyOkAnywhere(r) == \E net \in Networks : looked[net][r] = "funded"

\* The other network's answer only words the verdict.
KeyOk(r) == looked[Declared][r] = "funded"

relayerAgrees == relayerOn \in {Declared, "unset"}

Judge ==
  /\ keyVerdict = "running" /\ \A net \in Networks, r \in Roles : looked[net][r] # "pending"
  /\ keyVerdict' = IF (\A r \in Roles : KeyOk(r)) /\ relayerAgrees THEN "pass" ELSE "fail"
  /\ UNCHANGED <<funds, relayerOn, looked>>

KeyNext == Judge \/ \E net \in Networks, r \in Roles : LookUp(net, r)

\* A pass says that every pinned account exists on the declared network with
\* its minimum, and that the relayer is not on another one, though any lookup may
\* have failed (verify-signing-keys.ts, "Exit codes").
KeysPlaced ==
  keyVerdict = "pass" =>
    /\ \A r \in Roles : funds[Declared][r] >= MinXlm
    /\ relayerOn \notin Networks \ {Declared}

-----------------------------------------------------------------------------
(* deploy-health-gate.ts and canary-error-budget-gate.ts                   *)

CONSTANTS Consecutive,          \* healthy answers in a row a gate asks for
          GateTimeout, Interval,
          BudgetNum, BudgetDen, \* the largest error rate, BudgetNum / BudgetDen
          MinRequests,
          MaxServed             \* requests the canary serves in a run

\* parseArgs of each gate refuses anything else.
ASSUME GateConstants ==
  /\ {Consecutive, GateTimeout, Interval, BudgetDen} \subseteq Nat \ {0}
  /\ {MinRequests, BudgetNum} \subseteq Nat

VARIABLES
  gate,       \* the gate's verdict: "running", "ok", "inconclusive", "exceeded", "timeout", "error"
  elapsed,    \* the health gate's clock
  healthyRow,     \* consecutiveHealthy
  probes,     \* the answers the health gate was given
  counters,   \* the canary's metrics: [total, errors], by the process that is up
  before,     \* the first scrape, NoScrape before it
  served,     \* requests served since the first scrape, by whichever process: [total, errors]
  restarts    \* restarts since the first scrape

gateVars == <<gate, elapsed, healthyRow, probes, counters, before, served, restarts>>

Zero     == [total |-> 0, errors |-> 0]
NoScrape == [total |-> -1, errors |-> -1]

GateInit ==
  /\ gate = "running" /\ elapsed = 0 /\ healthyRow = 0 /\ probes = <<>>
  /\ counters = Zero /\ before = NoScrape /\ served = Zero /\ restarts = 0

\* Mutant: an unhealthy answer does not break the row.
StreakKept(healthy) == IF healthy THEN healthyRow + 1 ELSE healthyRow

StreakAfter(healthy) == IF healthy THEN healthyRow + 1 ELSE 0

\* A probe that throws is unhealthy; after one that is not enough the gate sleeps, unless that passes the deadline.
Probe(healthy, took) ==
  /\ gate = "running" /\ elapsed < GateTimeout
  /\ probes' = Append(probes, healthy) /\ healthyRow' = StreakAfter(healthy)
  /\ LET reached == healthyRow' >= Consecutive
         late    == elapsed + took + Interval >= GateTimeout
     IN  /\ gate' = IF reached THEN "ok" ELSE IF late THEN "timeout" ELSE "running"
         /\ elapsed' = IF reached \/ late THEN elapsed + took ELSE elapsed + took + Interval
  /\ UNCHANGED <<counters, before, served, restarts>>

-----------------------------------------------------------------------------
\* registerMetrics counts a request by its status.
Serve(failed) ==
  /\ served.total + (IF before = NoScrape THEN counters.total ELSE 0) < MaxServed
  /\ LET add(c) == [total |-> c.total + 1, errors |-> c.errors + (IF failed THEN 1 ELSE 0)]
     IN  counters' = add(counters) /\ served' = IF before = NoScrape THEN served ELSE add(served)
  /\ UNCHANGED <<gate, elapsed, healthyRow, probes, before, restarts>>

\* A new process counts from zero.
RestartCanary ==
  /\ before # NoScrape /\ restarts < 1 /\ restarts' = restarts + 1 /\ counters' = Zero
  /\ UNCHANGED <<gate, elapsed, healthyRow, probes, before, served>>

FirstScrape == /\ gate = "running" /\ before = NoScrape /\ before' = counters
               /\ UNCHANGED <<gate, elapsed, healthyRow, probes, counters, served, restarts>>

\* A counter that went down is taken for a restart, each counter by itself.
Delta(now, then) == IF now >= then THEN now - then ELSE now

SecondScrape ==
  /\ gate = "running" /\ before # NoScrape
  /\ LET requests == Delta(counters.total, before.total)
         failures == Delta(counters.errors, before.errors)
     IN  gate' = IF requests < MinRequests THEN "inconclusive"
                 ELSE IF failures * BudgetDen <= requests * BudgetNum THEN "ok" ELSE "exceeded"
  /\ UNCHANGED <<elapsed, healthyRow, probes, counters, before, served, restarts>>

\* Either scrape may fail.
ScrapeFails == /\ gate = "running" /\ gate' = "error"
               /\ UNCHANGED <<elapsed, healthyRow, probes, counters, before, served, restarts>>

HealthNext == \E healthy \in BOOLEAN, took \in {0, 1} : Probe(healthy, took)

\* The canary goes on while the gate is running: what it serves afterwards is not looked at.
CanaryNext == /\ gate = "running"
              /\ \/ FirstScrape \/ SecondScrape \/ ScrapeFails \/ RestartCanary
                 \/ \E failed \in BOOLEAN : Serve(failed)

-----------------------------------------------------------------------------
\* A health gate says "safe to proceed" only after the required answers were all healthy, one after the other and
\* none of them asked for after the deadline, and gives up only when another probe would come too late; a canary
\* that did not restart in the window is promoted only when the errors it really answered with in the window are
\* within the budget, and on enough requests.
GatesHold ==
  /\ probes # <<>> /\ gate = "ok" =>
       /\ Len(probes) >= Consecutive
       /\ \A i \in Len(probes) - Consecutive + 1..Len(probes) : probes[i]
  /\ gate = "timeout" => elapsed + Interval >= GateTimeout
  /\ before # NoScrape /\ gate = "ok" /\ restarts = 0 =>
       served.total >= MinRequests /\ served.errors * BudgetDen <= served.total * BudgetNum

\* Not kept: canary-error-budget-gate.ts:7 "computes the 5xx error rate within that window": with a restart too.
PromotedWithinBudget ==
  before # NoScrape /\ gate = "ok" => served.errors * BudgetDen <= served.total * BudgetNum
=============================================================================
