----------------------------- MODULE PolicyJobs -----------------------------
(***************************************************************************)
(* The background work of the policy service: the deploy jobs with their   *)
(* dead-letter queue and the routes an administrator handles it with       *)
(* (policy-deploy-worker.ts, dlq-store.ts, admin-dlq.ts), and the policy   *)
(* event queue with its quarantine (event-queue.ts).                       *)
(*                                                                         *)
(* Both stores live in the memory of one JavaScript process, so what runs  *)
(* between two awaits is one step and a record that was found is the live  *)
(* object, not a copy of it.                                               *)
(***************************************************************************)
EXTENDS Integers, FiniteSets, Sequences, FiniteSetsExt, SequencesExt

CONSTANTS MaxJobs,        \* bound: deploy jobs ever created
          DeployWorkers,  \* concurrent calls of processDeploymentJob
          Admins,         \* concurrent administrator requests
          MaxAttempts,    \* configured maxAttempts, or NoMaxAttempts
          DlqThreshold,   \* failures beyond which a job is dead
          Events,         \* event messages
          Consumers,      \* concurrent calls of processNext
          EventAttempts   \* maxAttempts of the event queue

NoMaxAttempts == 0

ASSUME PolicyJobsAssumption ==
  /\ MaxJobs \in Nat /\ MaxAttempts \in Nat /\ DlqThreshold \in Nat
  /\ EventAttempts \in Nat \ {0} /\ "none" \notin Events

VARIABLES
  job,        \* job[i]: its status, retry_count, and the entry it was requeued from
  entry,      \* entry[i]: the dead-letter record of job i, or NoEntry
  deploying,  \* deploying[w]: the job worker w holds, or NoJob
  asking,     \* asking[a]: the entry whose requeue administrator a is in, or NoJob
  minted,     \* history: minted[i]: contracts the network created for job i
  evQueue,    \* the event queue
  evTries,    \* attempts of each message
  evStage,    \* absent, waiting, working, done or parked (quarantined)
  handling    \* handling[c]: the message consumer c awaits the handler for

jobVars == <<job, entry, deploying, asking, minted>>
evVars  == <<evQueue, evTries, evStage, handling>>

JobIds  == 1..MaxJobs
NoJob   == 0
NoEntry == [archived |-> FALSE, busy |-> FALSE, requeues |-> -1]
Absent  == [status |-> "absent", retries |-> 0, from |-> NoJob]

JobsInit ==
  /\ job = [i \in JobIds |-> Absent]
  /\ entry = [i \in JobIds |-> NoEntry]
  /\ deploying = [w \in DeployWorkers |-> NoJob]
  /\ asking = [a \in Admins |-> NoJob]
  /\ minted = [i \in JobIds |-> 0]

----------------------------------------------------------------------------
(* The deploy jobs.  The store is a Map: ids are in order of insertion.     *)

Created == {i \in JobIds : job[i].status # "absent"}
NextJob == Cardinality(Created) + 1

AddJob(from) ==
  job' = [job EXCEPT ![NextJob] = [status |-> "pending", retries |-> 0, from |-> from]]

\* A job enters the store from outside; nothing in the service does this yet.
EnqueueJob ==
  /\ NextJob \in JobIds
  /\ AddJob(NoJob)
  /\ UNCHANGED <<entry, deploying, asking, minted>>

\* claim: the first pending job.
Claim(w) ==
  LET pending == {i \in JobIds : job[i].status = "pending"} IN
  /\ deploying[w] = NoJob /\ pending # {}
  /\ deploying' = [deploying EXCEPT ![w] = Min(pending)]
  /\ job' = [job EXCEPT ![Min(pending)].status = "in_progress"]
  /\ UNCHANGED <<entry, asking, minted>>

\* Mutant: one retry more than the threshold.
ExhaustedLate(retries, terminal) == terminal \/ retries > DlqThreshold + 1

Exhausted(retries, terminal) ==
  \/ terminal
  \/ MaxAttempts # NoMaxAttempts /\ retries >= MaxAttempts
  \/ retries > DlqThreshold

\* markCompleted after a deployment the network confirmed.
DeploySucceeds(w) ==
  LET i == deploying[w] IN
  /\ i # NoJob
  /\ minted' = [minted EXCEPT ![i] = @ + 1]
  /\ job' = [job EXCEPT ![i].status = "completed"]
  /\ deploying' = [deploying EXCEPT ![w] = NoJob]
  /\ UNCHANGED <<entry, asking>>

\* handleFailure: the policy is missing or not enforced by a contract
\* (terminal), or the deployer threw: an RPC timeout may hide a deployment
\* that landed.  Status and dead-letter record are written before the first
\* await.
HandleFailure(w, terminal, landed) ==
  LET i == deploying[w]
      retries == job[i].retries + 1
      dead == Exhausted(retries, terminal) IN
  /\ i # NoJob /\ ~(terminal /\ landed)
  /\ minted' = [minted EXCEPT ![i] = @ + IF landed THEN 1 ELSE 0]
  /\ job' = [job EXCEPT ![i].retries = retries, ![i].status = IF dead THEN "dead" ELSE "pending"]
  /\ entry' = IF dead THEN [entry EXCEPT ![i] = [NoEntry EXCEPT !.requeues = 0]] ELSE entry
  /\ deploying' = [deploying EXCEPT ![w] = NoJob]
  /\ UNCHANGED asking

----------------------------------------------------------------------------
(* The administrator's routes.                                              *)

\* POST requeue up to its first write: found, neither archived nor busy.
RequeueStart(a, i) ==
  /\ asking[a] = NoJob
  /\ entry[i] # NoEntry /\ ~entry[i].archived /\ ~entry[i].busy
  /\ entry' = [entry EXCEPT ![i].busy = TRUE]
  /\ asking' = [asking EXCEPT ![a] = i]
  /\ UNCHANGED <<job, deploying, minted>>

\* Mutant: the counter is overwritten from a value read before.
RequeueFinishStale(a) ==
  /\ asking[a] # NoJob /\ NextJob \in JobIds
  /\ AddJob(asking[a])
  /\ entry' = [entry EXCEPT ![asking[a]] = [@ EXCEPT !.busy = FALSE, !.requeues = 1]]
  /\ asking' = [asking EXCEPT ![a] = NoJob]
  /\ UNCHANGED <<deploying, minted>>

\* A new job with a fresh retry counter; the entry counts it and is free again.
RequeueFinish(a) ==
  LET i == asking[a] IN
  /\ i # NoJob /\ NextJob \in JobIds
  /\ AddJob(i)
  /\ entry' = [entry EXCEPT ![i].busy = FALSE, ![i].requeues = @ + 1]
  /\ asking' = [asking EXCEPT ![a] = NoJob]
  /\ UNCHANGED <<deploying, minted>>

\* POST archive: checks archived only, so it may fall into a requeue.
Archive(i) ==
  /\ entry[i] # NoEntry /\ ~entry[i].archived
  /\ entry' = [entry EXCEPT ![i].archived = TRUE]
  /\ UNCHANGED <<job, deploying, asking, minted>>

JobsNext ==
  \/ EnqueueJob
  \/ \E w \in DeployWorkers :
        \/ Claim(w) \/ DeploySucceeds(w)
        \/ \E terminal, landed \in BOOLEAN : HandleFailure(w, terminal, landed)
  \/ \E i \in JobIds : Archive(i) \/ \E a \in Admins : RequeueStart(a, i)
  \/ \E a \in Admins : RequeueFinish(a)

----------------------------------------------------------------------------
(* The event queue.                                                         *)

NoEvent == "none"

EventsInit ==
  /\ evQueue = <<>>
  /\ evTries = [e \in Events |-> 0]
  /\ evStage = [e \in Events |-> "absent"]
  /\ handling = [c \in Consumers |-> NoEvent]

Enqueue(e) ==
  /\ evStage[e] = "absent"
  /\ evQueue' = Append(evQueue, e)
  /\ evStage' = [evStage EXCEPT ![e] = "waiting"]
  /\ UNCHANGED <<evTries, handling>>

\* processNext up to the call of the handler.
TakeEvent(c) ==
  LET e == Head(evQueue) IN
  /\ handling[c] = NoEvent /\ evQueue # <<>>
  /\ evQueue' = Tail(evQueue)
  /\ evTries' = [evTries EXCEPT ![e] = @ + 1]
  /\ evStage' = [evStage EXCEPT ![e] = "working"]
  /\ handling' = [handling EXCEPT ![c] = e]

HandlerOk(c) ==
  /\ handling[c] # NoEvent
  /\ evStage' = [evStage EXCEPT ![handling[c]] = "done"]
  /\ handling' = [handling EXCEPT ![c] = NoEvent]
  /\ UNCHANGED <<evQueue, evTries>>

\* Mutants: one attempt too many; a failed message is not put back.
IsPoisonLate(e) == evTries[e] > EventAttempts
RequeuedNever(e) == evQueue

IsPoison(e) == evTries[e] >= EventAttempts

Requeued(e) == Append(evQueue, e)

\* The handler threw, or the message is malformed.
HandlerFails(c) ==
  LET e == handling[c]
      poison == IsPoison(e) IN
  /\ e # NoEvent
  /\ evStage' = [evStage EXCEPT ![e] = IF poison THEN "parked" ELSE "waiting"]
  /\ evQueue' = IF poison THEN evQueue ELSE Requeued(e)
  /\ handling' = [handling EXCEPT ![c] = NoEvent]
  /\ UNCHANGED evTries

EventsNext ==
  \/ \E e \in Events : Enqueue(e)
  \/ \E c \in Consumers : TakeEvent(c) \/ HandlerOk(c) \/ HandlerFails(c)

----------------------------------------------------------------------------
(* Both implement BoundedRetry.                                             *)

JobStage(i) ==
  CASE job[i].status = "absent" -> "absent"
    [] job[i].status = "pending" -> "waiting"
    [] job[i].status = "in_progress" -> "working"
    [] job[i].status = "completed" -> "done"
    [] OTHER -> "parked"

\* retry_count counts failures: the attempt under way, or the one that
\* succeeded, comes on top.
JobTries(i) ==
  job[i].retries + IF job[i].status \in {"in_progress", "completed"} THEN 1 ELSE 0

JobLimit ==
  IF MaxAttempts # NoMaxAttempts THEN Min({MaxAttempts, DlqThreshold + 1}) ELSE DlqThreshold + 1

Jobs == INSTANCE BoundedRetry WITH
  Items <- JobIds, Limit <- JobLimit,
  stage <- [i \in JobIds |-> JobStage(i)], tries <- [i \in JobIds |-> JobTries(i)]

Queue == INSTANCE BoundedRetry WITH
  Items <- Events, Limit <- EventAttempts, stage <- evStage, tries <- evTries

\* A deploy job is tried a bounded number of times and ends completed or dead,
\* whatever the deployer, the administrators and the other workers do:
\* processDeploymentJob, handleFailure and the requeue route implement
\* BoundedRetry.
DeployJobsRetry == Jobs!Spec

\* The event queue hands a message out at most maxAttempts times, to one
\* consumer at a time, and it ends handled or quarantined.
EventsRetry == Queue!Spec

\* Every message that was enqueued is handled or quarantined in the end: each
\* failure puts it back, and processAll goes on while the queue is not empty.
EventsSettle == Queue!Settled

\* A job is dead exactly when its dead-letter record exists (the record
\* survives requeueing and archiving), and an entry has counted exactly the
\* jobs that were made from it, however the requests of two administrators
\* interleave.
DlqAccounts ==
  \A i \in JobIds :
    /\ job[i].status = "dead" <=> entry[i] # NoEntry
    /\ entry[i] # NoEntry =>
         entry[i].requeues = Cardinality({j \in JobIds : job[j].from = i /\ job[j].status # "absent"})
=============================================================================
