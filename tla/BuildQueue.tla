----------------------------- MODULE BuildQueue -----------------------------
(***************************************************************************)
(* The build-job queue of verification-service (src/db/pg-queue.ts), over  *)
(* the verification table when it is given a database, else in the memory  *)
(* of the process, which is how index.ts wires it.  A claim holds a job    *)
(* for a visibility timeout; nothing ties the holder to what is later      *)
(* reported of the job, so a holder that comes back late may complete,     *)
(* fail or release a job that another one has claimed since.               *)
(***************************************************************************)
EXTENDS Integers, FiniteSets, FiniteSetsExt

CONSTANTS QueueJobs,          \* record ids: numbers, in the order they are enqueued
          Builders,
          Visibility,         \* the visibility timeout
          MaxClaims,          \* maxAttempts
          MaxQueueClock, MaxReleases

ASSUME QueueConstants ==
  /\ QueueJobs \subseteq Nat /\ MaxClaims \in Nat \ {0}
  /\ {Visibility, MaxQueueClock, MaxReleases} \subseteq Nat

VARIABLES
  backend,     \* "memory" or "db"
  entries,     \* job |-> [status, attempts, claimedAt]
  holding,     \* the jobs each builder believes it holds
  queueClock,
  claims,      \* job |-> claims handed out, as the builders saw them
  releases,    \* job |-> releases that took effect
  ended        \* jobs that were ever completed, failed or dead-lettered

queueVars == <<backend, entries, holding, queueClock, claims, releases, ended>>

NoEntry == [status |-> "absent", attempts |-> 0, claimedAt |-> 0]

QueueInit ==
  /\ backend \in {"memory", "db"} /\ entries = [j \in QueueJobs |-> NoEntry]
  /\ holding = [b \in Builders |-> {}] /\ queueClock = 0
  /\ claims = [j \in QueueJobs |-> 0] /\ releases = [j \in QueueJobs |-> 0] /\ ended = {}

\* With a database the route's insert of the record is the enqueue.
EnqueueBuild(j) ==
  /\ entries[j].status = "absent" /\ \A k \in QueueJobs : k < j => entries[k].status # "absent"
  /\ entries' = [entries EXCEPT ![j].status = "submitted"]
  /\ UNCHANGED <<backend, holding, queueClock, claims, releases, ended>>

\* The database compares with <, the memory with >=: a claim is stranded one tick later there.
Stranded(j) ==
  /\ entries[j].status = "building"
  /\ IF backend = "db" THEN entries[j].claimedAt < queueClock - Visibility
                       ELSE queueClock - entries[j].claimedAt >= Visibility

\* Mutant: a job is given up only when a claim is asked for.
SpentAtReapNever(j) == FALSE

\* maxAttempts is known to the memory alone.
Spent(j) == backend = "memory" /\ entries[j].attempts >= MaxClaims

Claimable(j) == entries[j].status = "submitted" \/ (Stranded(j) /\ ~Spent(j))

\* The first claimable job, oldest first; the spent ones passed over on the way are dead-lettered.
ClaimBuild(b) ==
  LET ready  == {j \in QueueJobs : Claimable(j)}
      j      == Min(ready)
      passed == {k \in QueueJobs : Stranded(k) /\ Spent(k) /\ (ready = {} \/ k < j)}
      after  == [k \in QueueJobs |-> IF k \in passed THEN [entries[k] EXCEPT !.status = "dead_letter"] ELSE entries[k]]
  IN  /\ ready \cup passed # {} /\ ended' = ended \cup passed
      /\ IF ready = {}
         THEN entries' = after /\ UNCHANGED <<holding, claims>>
         ELSE /\ entries' = [after EXCEPT ![j] = [status |-> "building", attempts |-> @.attempts + 1, claimedAt |-> queueClock]]
              /\ holding' = [holding EXCEPT ![b] = @ \cup {j}]
              /\ claims' = [claims EXCEPT ![j] = @ + 1]
      /\ UNCHANGED <<backend, queueClock, releases>>

Report(b, j) == /\ j \in holding[b] /\ holding' = [holding EXCEPT ![b] = @ \ {j}]
                /\ UNCHANGED <<backend, queueClock, claims>>

\* Only a job that is building is completed, by whoever asks.
CompleteBuild(b, j) ==
  /\ Report(b, j)
  /\ LET taken == entries[j].status = "building"
     IN  /\ entries' = IF taken THEN [entries EXCEPT ![j].status = IF backend = "db" THEN "verified" ELSE "completed"] ELSE entries
         /\ ended' = IF taken THEN ended \cup {j} ELSE ended
  /\ UNCHANGED releases

\* fail looks at no status: it overrides a completion.
FailBuild(b, j) ==
  /\ Report(b, j) /\ entries' = [entries EXCEPT ![j].status = "failed"] /\ ended' = ended \cup {j}
  /\ UNCHANGED releases

Requeues(j) == entries[j].status = "building"

ReleaseBuild(b, j) ==
  /\ Report(b, j) /\ releases[j] < MaxReleases
  /\ entries' = IF Requeues(j) THEN [entries EXCEPT ![j].status = "submitted"] ELSE entries
  /\ releases' = IF Requeues(j) THEN [releases EXCEPT ![j] = @ + 1] ELSE releases
  /\ UNCHANGED ended

ReapBuilds ==
  /\ \E j \in QueueJobs : Stranded(j)
  /\ entries' = [j \in QueueJobs |->
       IF Stranded(j) THEN [entries[j] EXCEPT !.status = IF Spent(j) THEN "dead_letter" ELSE "submitted"] ELSE entries[j]]
  /\ ended' = ended \cup {j \in QueueJobs : Stranded(j) /\ Spent(j)}
  /\ UNCHANGED <<backend, holding, queueClock, claims, releases>>

\* A builder dies or forgets the job: the timeout alone brings it back.
BuilderDies(b) == /\ holding[b] # {} /\ holding' = [holding EXCEPT ![b] = {}]
                  /\ UNCHANGED <<backend, entries, queueClock, claims, releases, ended>>

QueueTick == /\ queueClock < MaxQueueClock /\ queueClock' = queueClock + 1
             /\ UNCHANGED <<backend, entries, holding, claims, releases, ended>>

QueueNext ==
  \/ ReapBuilds \/ QueueTick
  \/ \E j \in QueueJobs : EnqueueBuild(j)
  \/ \E b \in Builders : ClaimBuild(b) \/ BuilderDies(b)
  \/ \E b \in Builders, j \in QueueJobs : CompleteBuild(b, j) \/ FailBuild(b, j) \/ ReleaseBuild(b, j)

-----------------------------------------------------------------------------
\* A job is handed to a builder at most maxAttempts times in memory, whatever builders die or come back late,
\* but for the releases, which give an attempt back without taking it off the count; and a job that once ended
\* is never built again, although a late report may still change how it ended.
QueueBounded ==
  /\ backend = "memory" => \A j \in QueueJobs : claims[j] <= MaxClaims + releases[j]
  /\ \A j \in ended : entries[j].status \notin {"submitted", "building"}
=============================================================================
