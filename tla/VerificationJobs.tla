-------------------------- MODULE VerificationJobs --------------------------
(***************************************************************************)
(* The verification pipeline around the verification_records table: the    *)
(* submit route of verification-service, the worker loops, the reaper and  *)
(* the cleanup job of worker-service.  A row is its job: the status column *)
(* is what the SQL statements test, the status inside the jsonb record is  *)
(* what the read APIs return.                                              *)
(*                                                                         *)
(* One SQL statement is one step; the JavaScript between two awaits runs   *)
(* with the statement before it.  A claim of several rows is one claim per *)
(* row by that many job slots: the rows are locked and independent.  The   *)
(* cleanup job archives (archiveEnabled, the default).  Time is two        *)
(* facts about a row: overdue (building for longer than reapTimeoutMs) and *)
(* old (terminal for longer than retentionDays).                           *)
(***************************************************************************)
EXTENDS Integers, FiniteSets

CONSTANTS
  Request,      \* POST /verification/submit requests; each names its record
  Imported,     \* malformed rows another tool wrote into the table
  ContractOf,   \* record -> contract
  Worker,       \* job slots of the worker loops
  Reaper,       \* one per replica of worker-service
  NoJob,
  maxActiveQueue,
  maxAttempts,
  SlowBuilds    \* a job may outlast reapTimeoutMs with its worker alive: only
                \* docker run has a timeout, git clone and prefetch have none

Record == Request \cup Imported

ASSUME JobsConstants ==
  /\ Request \cap Imported = {}
  /\ NoJob \notin Record
  /\ maxActiveQueue \in Nat
  /\ maxAttempts \in Nat \ {0}
  /\ SlowBuilds \in BOOLEAN

VARIABLES
  pc,            \* request -> where its handler is
  inFlight,      \* inFlightContracts: contract -> the request that is inserting
  waitsFor,      \* request -> the request whose holder it awaits
  earlier,       \* request -> the requests answered before it arrived (history)
  status,        \* the status column; "absent" without a row
  recordStatus,  \* record.status inside the jsonb
  attempts,      \* record.attempts inside the jsonb
  overdue,       \* updated_at is before the reaper's cutoff
  old,           \* updated_at is before the cleanup's cutoff
  job,           \* worker -> the record it processes
  phase,         \* worker -> "idle", "building", "completing" or "writing"
  outcome,       \* worker -> the outcome of runVerification
  snapshot,      \* worker -> the attempts of the record complete() read
  reapList,      \* reaper -> what its SELECT returned and is not yet updated
  cleanup,       \* the ids and the stage of the running cleanup pass
  archive        \* ids in verification_records_archive

requestVars == <<pc, inFlight, waitsFor, earlier>>
rowVars     == <<status, recordStatus, attempts, overdue, old>>
workerVars  == <<job, phase, outcome, snapshot>>
sweepVars   == <<reapList, cleanup, archive>>
vars        == <<requestVars, rowVars, workerVars, sweepVars>>

TERMINAL_STATUSES == {"verified", "failed", "dead_letter"}
ACTIVE_STATUSES   == {"submitted", "building"}
Outcome           == {"verified", "failed"}

Contracts == {ContractOf[r] : r \in Request}

ActiveRecords == {id \in Record : status[id] \in ACTIVE_STATUSES}

Init ==
  /\ pc = [r \in Request |-> "start"]
  /\ inFlight = [c \in Contracts |-> NoJob]
  /\ waitsFor = [r \in Request |-> NoJob]
  /\ earlier = [r \in Request |-> {}]
  /\ status = [id \in Record |-> IF id \in Imported THEN "submitted" ELSE "absent"]
  /\ recordStatus = status
  /\ attempts = [id \in Record |-> 0]
  /\ overdue = [id \in Record |-> FALSE]
  /\ old = [id \in Record |-> FALSE]
  /\ job = [w \in Worker |-> NoJob]
  /\ phase = [w \in Worker |-> "idle"]
  /\ outcome = [w \in Worker |-> "failed"]
  /\ snapshot = [w \in Worker |-> 0]
  /\ reapList = [p \in Reaper |-> {}]
  /\ cleanup = [ids |-> {}, stage |-> "idle"]
  /\ archive = {}

-----------------------------------------------------------------------------
(***************************************************************************)
(* POST /verification/submit                                               *)
(***************************************************************************)
\* The in-flight check, before the first await.  The holder of a request that
\* is still inserting is awaited.
SubmitArrives(r) ==
  /\ pc[r] = "start"
  /\ IF inFlight[ContractOf[r]] # NoJob
     THEN /\ pc' = [pc EXCEPT ![r] = "waiting"]
          /\ waitsFor' = [waitsFor EXCEPT ![r] = inFlight[ContractOf[r]]]
     ELSE pc' = [pc EXCEPT ![r] = "depth"] /\ UNCHANGED waitsFor
  /\ earlier' = [earlier EXCEPT ![r] = {s \in Request : pc[s] \in {"accepted", "rejected"}}]
  /\ UNCHANGED <<inFlight, rowVars, workerVars, sweepVars>>

\* The holder is resolved by the insert, and never rejected.
SubmitWaited(r) ==
  /\ pc[r] = "waiting" /\ pc[waitsFor[r]] = "accepted"
  /\ pc' = [pc EXCEPT ![r] = "rejected"]
  /\ UNCHANGED <<inFlight, waitsFor, earlier, rowVars, workerVars, sweepVars>>

\* await records.countActive()
SubmitDepth(r) ==
  /\ pc[r] = "depth"
  /\ pc' = [pc EXCEPT ![r] = IF Cardinality(ActiveRecords) >= maxActiveQueue
                             THEN "rejected" ELSE "dedup"]
  /\ UNCHANGED <<inFlight, waitsFor, earlier, rowVars, workerVars, sweepVars>>

\* Mutant: a job that a worker has claimed no longer counts.
HasActiveSubmitted(contract) == \E id \in Record : status[id] = "submitted" /\ ContractOf[id] = contract

HasActive(contract) == \E id \in ActiveRecords : ContractOf[id] = contract

\* await records.hasActiveForContract(), then the holder is published
SubmitDedup(r) ==
  /\ pc[r] = "dedup"
  /\ IF HasActive(ContractOf[r])
     THEN pc' = [pc EXCEPT ![r] = "rejected"] /\ UNCHANGED inFlight
     ELSE /\ pc' = [pc EXCEPT ![r] = "insert"]
          /\ inFlight' = [inFlight EXCEPT ![ContractOf[r]] = r]
  /\ UNCHANGED <<waitsFor, earlier, rowVars, workerVars, sweepVars>>

\* await records.insert(record); enqueue is a no-op over Postgres.
SubmitInsert(r) ==
  /\ pc[r] = "insert"
  /\ pc' = [pc EXCEPT ![r] = "accepted"]
  /\ inFlight' = [inFlight EXCEPT ![ContractOf[r]] = NoJob]
  /\ status' = [status EXCEPT ![r] = "submitted"]
  /\ recordStatus' = [recordStatus EXCEPT ![r] = "submitted"]
  /\ UNCHANGED <<waitsFor, earlier, attempts, overdue, old, workerVars, sweepVars>>

\* The insert throws: the finally clause still runs.
SubmitInsertFails(r) ==
  /\ pc[r] = "insert"
  /\ pc' = [pc EXCEPT ![r] = "rejected"]
  /\ inFlight' = [inFlight EXCEPT ![ContractOf[r]] = NoJob]
  /\ UNCHANGED <<waitsFor, earlier, rowVars, workerVars, sweepVars>>

Submit(r) ==
  \/ SubmitArrives(r)
  \/ SubmitWaited(r)
  \/ SubmitDepth(r)
  \/ SubmitDedup(r)
  \/ SubmitInsert(r)
  \/ SubmitInsertFails(r)

-----------------------------------------------------------------------------
(***************************************************************************)
(* worker-service: claimSubmitted, runWorkerTick, complete                 *)
(***************************************************************************)
\* Mutants: the claim takes a building row too; it does not count the attempt.
ClaimRowAnyActive(id) ==
  /\ status[id] \in ACTIVE_STATUSES
  /\ status' = [status EXCEPT ![id] = "building"]
  /\ attempts' = [attempts EXCEPT ![id] = IF @ < maxAttempts THEN @ + 1 ELSE @]
  /\ overdue' = [overdue EXCEPT ![id] = FALSE]
  /\ UNCHANGED <<recordStatus, old>>

ClaimRowUncounted(id) ==
  /\ status[id] = "submitted"
  /\ status' = [status EXCEPT ![id] = "building"]
  /\ overdue' = [overdue EXCEPT ![id] = FALSE]
  /\ UNCHANGED <<recordStatus, attempts, old>>

\* UPDATE ... WHERE status = 'submitted' ... RETURNING: the claim changes the
\* column and the attempts, and leaves record.status alone.
ClaimRow(id) ==
  /\ status[id] = "submitted"
  /\ status' = [status EXCEPT ![id] = "building"]
  /\ attempts' = [attempts EXCEPT ![id] = @ + 1]
  /\ overdue' = [overdue EXCEPT ![id] = FALSE]
  /\ UNCHANGED <<recordStatus, old>>

\* What the submit route stores passes the worker's schema, which mirrors its own.
validateImportedRecord(id) == id \notin Imported

\* A row that passes import validation is processed; a malformed one is left
\* in building for the reaper.
ClaimSubmitted(w, id) ==
  /\ phase[w] = "idle"
  /\ ClaimRow(id)
  /\ IF validateImportedRecord(id)
     THEN /\ job' = [job EXCEPT ![w] = id]
          /\ phase' = [phase EXCEPT ![w] = "building"]
     ELSE UNCHANGED <<job, phase>>
  /\ UNCHANGED <<outcome, snapshot, requestVars, sweepVars>>

\* runVerification returns an outcome.
BuildEnds(w, result) ==
  /\ phase[w] = "building"
  /\ phase' = [phase EXCEPT ![w] = "completing"]
  /\ outcome' = [outcome EXCEPT ![w] = result]
  /\ UNCHANGED <<job, snapshot, requestVars, rowVars, sweepVars>>

Released(w) ==
  /\ job' = [job EXCEPT ![w] = NoJob]
  /\ phase' = [phase EXCEPT ![w] = "idle"]
  /\ UNCHANGED <<outcome, snapshot>>

\* runVerification, or a statement of complete(), throws, or the process
\* dies: the record stays as it is.
WorkerFails(w) ==
  /\ phase[w] # "idle"
  /\ Released(w)
  /\ UNCHANGED <<requestVars, rowVars, sweepVars>>

\* complete(), first statement: SELECT ... WHERE status = 'building'
CompleteRead(w) ==
  /\ phase[w] = "completing"
  /\ IF status[job[w]] = "building"
     THEN /\ phase' = [phase EXCEPT ![w] = "writing"]
          /\ snapshot' = [snapshot EXCEPT ![w] = attempts[job[w]]]
          /\ UNCHANGED <<job, outcome>>
     ELSE Released(w)
  /\ UNCHANGED <<requestVars, rowVars, sweepVars>>

\* complete(), second statement: UPDATE ... WHERE id, with the record read
CompleteWrite(w) ==
  LET id == job[w]
  IN  /\ phase[w] = "writing"
      /\ IF status[id] = "absent"
         THEN UNCHANGED rowVars
         ELSE /\ status' = [status EXCEPT ![id] = outcome[w]]
              /\ recordStatus' = [recordStatus EXCEPT ![id] = outcome[w]]
              /\ attempts' = [attempts EXCEPT ![id] = snapshot[w]]
              /\ overdue' = [overdue EXCEPT ![id] = FALSE]
              /\ UNCHANGED old
      /\ Released(w)
      /\ UNCHANGED <<requestVars, sweepVars>>

Work(w) ==
  \/ \E id \in Record : ClaimSubmitted(w, id)
  \/ \E result \in Outcome : BuildEnds(w, result)
  \/ WorkerFails(w)
  \/ CompleteRead(w)
  \/ CompleteWrite(w)

-----------------------------------------------------------------------------
(***************************************************************************)
(* worker-service: reapStranded and runCleanup                             *)
(***************************************************************************)
Held(id) == \E w \in Worker : job[w] = id

\* Time passes: a building row gets older than reapTimeoutMs.
Overdue(id) ==
  /\ status[id] = "building" /\ ~overdue[id]
  /\ SlowBuilds \/ ~Held(id)
  /\ overdue' = [overdue EXCEPT ![id] = TRUE]
  /\ UNCHANGED <<status, recordStatus, attempts, old, requestVars, workerVars, sweepVars>>

\* Mutant: the SELECT has no cutoff.
ReapSelectNoCutoff(p) ==
  LET stranded == {id \in Record : status[id] = "building"}
  IN  /\ reapList[p] = {} /\ stranded # {}
      /\ reapList' = [reapList EXCEPT ![p] = {<<id, attempts[id]>> : id \in stranded}]
      /\ UNCHANGED <<requestVars, rowVars, workerVars, cleanup, archive>>

\* SELECT id, attempts ... WHERE status = 'building' AND updated_at < cutoff.
\* (A pass that finds nothing changes nothing.)
ReapSelect(p) ==
  LET stranded == {id \in Record : status[id] = "building" /\ overdue[id]}
  IN  /\ reapList[p] = {} /\ stranded # {}
      /\ reapList' = [reapList EXCEPT ![p] = {<<id, attempts[id]>> : id \in stranded}]
      /\ UNCHANGED <<requestVars, rowVars, workerVars, cleanup, archive>>

\* Mutant: parks only after maxAttempts + 1 attempts.
ReapRowOffByOne(p) ==
  \E row \in reapList[p] :
    LET id   == row[1]
        next == IF row[2] > maxAttempts THEN "dead_letter" ELSE "submitted"
    IN  /\ reapList' = [reapList EXCEPT ![p] = @ \ {row}]
        /\ status' = [status EXCEPT ![id] = next]
        /\ recordStatus' = [recordStatus EXCEPT ![id] = next]
        /\ overdue' = [overdue EXCEPT ![id] = FALSE]
        /\ UNCHANGED <<attempts, old, requestVars, workerVars, cleanup, archive>>

\* One UPDATE of the loop, WHERE id.
ReapUpdate(p, row) ==
  LET id   == row[1]
      next == IF row[2] >= maxAttempts THEN "dead_letter" ELSE "submitted"
  IN  /\ reapList' = [reapList EXCEPT ![p] = @ \ {row}]
      /\ IF status[id] = "absent"
         THEN UNCHANGED rowVars
         ELSE /\ status' = [status EXCEPT ![id] = next]
              /\ recordStatus' = [recordStatus EXCEPT ![id] = next]
              /\ overdue' = [overdue EXCEPT ![id] = FALSE]
              /\ UNCHANGED <<attempts, old>>
      /\ UNCHANGED <<requestVars, workerVars, cleanup, archive>>

ReapRow(p) == \E row \in reapList[p] : ReapUpdate(p, row)

\* The reaper's process dies between two statements.
ReapAborts(p) ==
  /\ reapList[p] # {}
  /\ reapList' = [reapList EXCEPT ![p] = {}]
  /\ UNCHANGED <<requestVars, rowVars, workerVars, cleanup, archive>>

\* retentionDays pass; far longer than any statement, so nothing else still
\* refers to the row.
Ages(id) ==
  /\ status[id] \in TERMINAL_STATUSES /\ ~old[id]
  /\ ~Held(id)
  /\ \A p \in Reaper : \A row \in reapList[p] : row[1] # id
  /\ old' = [old EXCEPT ![id] = TRUE]
  /\ UNCHANGED <<status, recordStatus, attempts, overdue, requestVars, workerVars, sweepVars>>

\* Mutant: the pass deletes before it archives.
CleanupSelectDeletesFirst ==
  LET eligible == {id \in Record : status[id] \in TERMINAL_STATUSES /\ old[id]}
  IN  /\ cleanup.stage = "idle" /\ eligible # {}
      /\ cleanup' = [ids |-> eligible, stage |-> "delete"]
      /\ UNCHANGED <<requestVars, rowVars, workerVars, reapList, archive>>

CleanupSelect ==
  LET eligible == {id \in Record : status[id] \in TERMINAL_STATUSES /\ old[id]}
  IN  /\ cleanup.stage = "idle" /\ eligible # {}
      /\ cleanup' = [ids |-> eligible, stage |-> "archive"]
      /\ UNCHANGED <<requestVars, rowVars, workerVars, reapList, archive>>

CleanupArchive ==
  /\ cleanup.stage = "archive"
  /\ cleanup' = [cleanup EXCEPT !.stage = "delete"]
  /\ archive' = archive \cup cleanup.ids
  /\ UNCHANGED <<requestVars, rowVars, workerVars, reapList>>

CleanupDelete ==
  /\ cleanup.stage = "delete"
  /\ cleanup' = [ids |-> {}, stage |-> "idle"]
  /\ status' = [id \in Record |-> IF id \in cleanup.ids THEN "absent" ELSE status[id]]
  /\ recordStatus' = [id \in Record |-> IF id \in cleanup.ids THEN "absent" ELSE recordStatus[id]]
  /\ UNCHANGED <<attempts, overdue, old, requestVars, workerVars, reapList, archive>>

CleanupAborts ==
  /\ cleanup.stage # "idle"
  /\ cleanup' = [ids |-> {}, stage |-> "idle"]
  /\ UNCHANGED <<requestVars, rowVars, workerVars, reapList, archive>>

Cleanup == CleanupSelect \/ CleanupArchive \/ CleanupDelete \/ CleanupAborts

-----------------------------------------------------------------------------
Next ==
  \/ \E r \in Request : Submit(r)
  \/ \E w \in Worker : Work(w)
  \/ \E id \in Record : Overdue(id) \/ Ages(id)
  \/ \E p \in Reaper : ReapSelect(p) \/ ReapRow(p) \/ ReapAborts(p)
  \/ Cleanup

Spec == Init /\ [][Next]_vars

\* The loops poll forever and claim the oldest row first, a handler and a build
\* end, the clock runs, and a reaper is not interrupted forever.
Fairness ==
  /\ \A r \in Request : WF_vars(Submit(r))
  /\ \A id \in Record : WF_vars(\E w \in Worker : ClaimSubmitted(w, id))
  /\ \A w \in Worker : WF_vars(\E result \in Outcome : BuildEnds(w, result))
  /\ \A w \in Worker : WF_vars(CompleteRead(w)) /\ WF_vars(CompleteWrite(w))
  /\ \A id \in Record : WF_vars(Overdue(id))
  /\ \A p \in Reaper : WF_vars(ReapSelect(p)) /\ SF_vars(ReapRow(p))

FairSpec == Spec /\ Fairness

-----------------------------------------------------------------------------
TypeOK ==
  /\ pc \in [Request -> {"start", "waiting", "depth", "dedup", "insert", "accepted", "rejected"}]
  /\ inFlight \in [Contracts -> Request \cup {NoJob}]
  /\ waitsFor \in [Request -> Request \cup {NoJob}]
  /\ earlier \in [Request -> SUBSET Request]
  /\ status \in [Record -> ACTIVE_STATUSES \cup TERMINAL_STATUSES \cup {"absent"}]
  /\ recordStatus \in [Record -> ACTIVE_STATUSES \cup TERMINAL_STATUSES \cup {"absent"}]
  /\ attempts \in [Record -> Nat]
  /\ overdue \in [Record -> BOOLEAN]
  /\ old \in [Record -> BOOLEAN]
  /\ job \in [Worker -> Request \cup {NoJob}]
  /\ phase \in [Worker -> {"idle", "building", "completing", "writing"}]
  /\ \A w \in Worker : job[w] = NoJob <=> phase[w] = "idle"
  /\ outcome \in [Worker -> Outcome]
  /\ snapshot \in [Worker -> Nat]
  /\ reapList \in [Reaper -> SUBSET (Record \X Nat)]
  /\ cleanup \in [ids : SUBSET Record, stage : {"idle", "archive", "delete"}]
  /\ archive \subseteq Record

\* "two workers never build the same job" (pg-job-store.ts).
NoDoubleBuild ==
  \A v, w \in Worker : v # w /\ job[v] = job[w] => job[v] = NoJob

\* A job that has been attempted maxAttempts times is parked, never re-queued
\* (job-store.ts, reapStranded).
AttemptsBounded == \A id \in Record : attempts[id] <= maxAttempts

\* A record the submit route accepted is in the table or in the archive,
\* wherever the cleanup pass is interrupted.
NeverLost ==
  \A r \in Request : pc[r] = "accepted" => status[r] # "absent" \/ r \in archive

\* A record leaves its terminal status only by being deleted (cleanup.ts calls
\* anything else impossible).
TerminalIsFinal ==
  [][\A id \in Record :
       status[id] \in TERMINAL_STATUSES => status'[id] \in {status[id], "absent"}]_vars

\* "one active verification per contract" (server.ts, submit).  Two requests
\* whose checks overlap can both insert.
OneActivePerContract ==
  \A a, b \in ActiveRecords : ContractOf[a] = ContractOf[b] => a = b

\* What is left of it: two records of one contract are active together only if
\* their requests overlapped.  A request that arrives after the other one was
\* answered finds the job it started, waiting or building, and is refused
\* (server.ts, hasActiveForContract), however the job is claimed, reaped or
\* re-queued meanwhile.
DoubledOnlyByOverlap ==
  \A a, b \in ActiveRecords \cap Request :
    a # b /\ ContractOf[a] = ContractOf[b] => a \notin earlier[b]

\* What became of a submission that was accepted: it is neither lost nor, but for
\* an overlap, doubled (the submit route, the cleanup pass).
SubmissionsKept == NeverLost /\ DoubledOnlyByOverlap

\* A request that finds another one in flight is rejected or gets that job's
\* status (server.ts, submit): it does not wait for ever.
SubmitAnswered ==
  \A r \in Request : pc[r] = "waiting" ~> pc[r] = "rejected"

\* The status inside the record matches the column (pg-job-store.ts, complete).
RecordMatchesColumn == recordStatus = status

\* Every submitted record reaches a terminal status, however often builds
\* throw, workers die and reapers are interrupted; a malformed row is parked.
EventuallyTerminal ==
  \A id \in Record : status[id] = "submitted" ~> status[id] \in TERMINAL_STATUSES
=============================================================================
