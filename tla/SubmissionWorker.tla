-------------------------- MODULE SubmissionWorker --------------------------
(***************************************************************************)
(* The submission worker of the wallet service and its store               *)
(* (worker/submission-worker.ts, db/pg-tx-store.ts,                        *)
(* submission-error-classifier.ts).  Several workers poll one table, whose *)
(* primary key is the transaction id.                                      *)
(***************************************************************************)
EXTENDS Naturals, FiniteSets

CONSTANTS Ids,      \* transaction ids
          Workers,  \* concurrent workers
          MaxSends  \* bound: submissions of one transaction

VARIABLES
  stored,   \* stored[t]: status of its row, or "absent"
  stale,    \* rows whose expiresAt has passed
  batch,    \* batch[w]: transactions of the tick that are still to be handled
  holds,    \* holds[w]: the transaction worker w submits, or "none"
  answer,   \* answer[w]: what the submitter said
  sends     \* history: sends[t]: submissions made

submissionVars == <<stored, stale, batch, holds, answer, sends>>

Init ==
  /\ stored = [t \in Ids |-> "absent"] /\ stale = {}
  /\ batch = [w \in Workers |-> {}]
  /\ holds = [w \in Workers |-> "none"]
  /\ answer = [w \in Workers |-> "none"]
  /\ sends = [t \in Ids |-> 0]

\* A transaction is queued.
Queue(t) ==
  /\ stored[t] = "absent"
  /\ stored' = [stored EXCEPT ![t] = "submitted"]
  /\ UNCHANGED <<stale, batch, holds, answer, sends>>

\* runSubmissionWorkerTick: selects rows in status submitted.
Poll(w) ==
  /\ batch[w] = {} /\ holds[w] = "none"
  /\ \E t \in Ids : stored[t] = "submitted"
  /\ batch' = [batch EXCEPT ![w] = {t \in Ids : stored[t] = "submitted"}]
  /\ UNCHANGED <<stored, stale, holds, answer, sends>>

\* markInFlight: INSERT ... ON CONFLICT DO NOTHING, on the table the
\* transaction was just selected from.
LockAcquired(t) == stored[t] = "absent"

\* One record of the batch: checkTransactionStatus, then the lock.
Handle(w, t) ==
  /\ holds[w] = "none" /\ t \in batch[w]
  /\ batch' = [batch EXCEPT ![w] = @ \ {t}]
  /\ IF stored[t] \notin {"succeeded", "failed", "processing"} /\ LockAcquired(t)
     THEN /\ stored' = [stored EXCEPT ![t] = "processing"]
          /\ stale' = stale \ {t}
          /\ holds' = [holds EXCEPT ![w] = t]
     ELSE UNCHANGED <<stored, stale, holds>>
  /\ UNCHANGED <<answer, sends>>

\* isTransientSubmissionFailure over the submitter's error codes: what the
\* submitter refused is permanent, everything else is tried again.
Permanent == {"sponsor_bad_tx", "sponsor_simulation_failed", "sponsor_fee_too_high",
              "sponsor_budget_exceeded", "relayer_not_configured", "tx_failed"}
Answers == {"ok", "tx_failed", "tx_timeout"}

Submit(w) ==
  /\ holds[w] # "none" /\ answer[w] = "none" /\ sends[holds[w]] < MaxSends
  /\ sends' = [sends EXCEPT ![holds[w]] = @ + 1]
  /\ \E a \in Answers : answer' = [answer EXCEPT ![w] = a]
  /\ UNCHANGED <<stored, stale, batch, holds>>

\* The store's updates go by the transaction id, whoever holds the lock now.  A
\* failed row keeps the expiry of its lock, which no longer matters.
Update(t, status) == stored' = [stored EXCEPT ![t] = IF @ = "absent" THEN @ ELSE status]
markProcessed(t)     == Update(t, "succeeded") /\ stale' = stale \ {t}
markFailed(t)        == Update(t, "failed") /\ UNCHANGED stale
clearInFlightLock(t) == Update(t, "submitted") /\ stale' = stale \ {t}

\* What becomes of the row, by the submitter's answer; an update that throws is
\* logged and leaves it to the expiry of the lock.
Mark(w) ==
  /\ answer[w] # "none"
  /\ \/ answer[w] = "ok" /\ markProcessed(holds[w])
     \/ answer[w] \in Permanent /\ markFailed(holds[w])
     \/ answer[w] \notin Permanent \cup {"ok"} /\ clearInFlightLock(holds[w])
     \/ UNCHANGED <<stored, stale>>
  /\ holds' = [holds EXCEPT ![w] = "none"]
  /\ answer' = [answer EXCEPT ![w] = "none"]
  /\ UNCHANGED <<batch, sends>>

\* Time passes the expiry of a lock or of a processed record.
Expire(t) ==
  /\ stored[t] \in {"processing", "succeeded"} /\ t \notin stale
  /\ stale' = stale \cup {t}
  /\ UNCHANGED <<stored, batch, holds, answer, sends>>

\* cleanupExpiredRecords deletes them.
Cleanup ==
  /\ stale # {} /\ stale' = {}
  /\ stored' = [t \in Ids |->
       IF t \in stale /\ stored[t] \in {"processing", "succeeded"} THEN "absent" ELSE stored[t]]
  /\ UNCHANGED <<batch, holds, answer, sends>>

Next ==
  \/ \E t \in Ids : Queue(t) \/ Expire(t)
  \/ \E w \in Workers :
        \/ Poll(w) \/ Submit(w) \/ Mark(w)
        \/ \E t \in Ids : Handle(w, t)
  \/ Cleanup

\* The loop never ends, and every await of a tick returns: a worker that can
\* take a step takes it.
Fairness ==
  \A w \in Workers :
    /\ WF_submissionVars(Poll(w)) /\ WF_submissionVars(Submit(w)) /\ WF_submissionVars(Mark(w))
    /\ \A t \in Ids : SF_submissionVars(Handle(w, t))

Spec == Init /\ [][Next]_submissionVars /\ Fairness

\* A transaction that is queued is submitted by some worker in the end:
\* "Extract transaction ID, check, write IN_FLIGHT record, submit the
\* transaction" (worker/submission-worker.ts:13-22).
QueuedIsSubmitted == \A t \in Ids : stored[t] = "submitted" ~> sends[t] > 0
=============================================================================
