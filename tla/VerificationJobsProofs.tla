----------------------- MODULE VerificationJobsProofs -----------------------
(***************************************************************************)
(* What TLAPS proves of the verification service: of its jobs, for any     *)
(* number of requests, workers and malformed rows and any limits; and of   *)
(* what surrounds a verification - the build of one job, what it puts its  *)
(* name to, how often the queue hands a job out, and the paged lists of    *)
(* records - for any jobs, wasms, dependencies, builders and rows.         *)
(***************************************************************************)
EXTENDS VerificationJobs, MCBuilds, FunctionTheorems, FiniteSetTheorems, WellFoundedInduction, TLAPS

\* The deployment the reaper is written for: one replica of worker-service,
\* and no job that outlasts reapTimeoutMs while its worker is alive.
SingleReplica ==
  /\ \A p, q \in Reaper : p = q
  /\ ~SlowBuilds

-----------------------------------------------------------------------------
(***************************************************************************)
(* The inductive invariant                                                 *)
(***************************************************************************)
\* A request that was not accepted has left no row and no attempt.
RowsOfRequests ==
  \A r \in Request : pc[r] # "accepted" => status[r] = "absent" /\ attempts[r] = 0

\* A job in a worker's hands is a building row that is not yet overdue, and
\* complete() writes back the attempts it read.
HeldRowsBuilding ==
  \A w \in Worker : phase[w] # "idle" =>
    /\ status[job[w]] = "building"
    /\ ~overdue[job[w]]
    /\ phase[w] = "writing" => snapshot[w] = attempts[job[w]]

\* What a reaper's SELECT returned is still true of the row it is about to
\* update.
ReapListCurrent ==
  \A p \in Reaper : \A row \in reapList[p] :
    /\ status[row[1]] = "building"
    /\ overdue[row[1]]
    /\ row[2] = attempts[row[1]]

\* A row waiting to be claimed has an attempt left.
AttemptLeft ==
  \A id \in Record :
    /\ attempts[id] <= maxAttempts
    /\ status[id] = "submitted" => attempts[id] < maxAttempts

\* A cleanup pass only deletes rows that are done, and archives them first.
CleanupOfDone ==
  \A id \in cleanup.ids :
    /\ status[id] \in TERMINAL_STATUSES \cup {"absent"}
    /\ id \in Request => pc[id] = "accepted"

ArchivedFirst == cleanup.stage = "delete" => cleanup.ids \subseteq archive

\* A request that passed the dedup check stays ahead of every job that had been
\* answered before it arrived.
PassedOnlyIdle ==
  \A a, b \in Request :
    a \in earlier[b] =>
      /\ pc[a] \in {"accepted", "rejected"}
      /\ a # b /\ ContractOf[a] = ContractOf[b] /\ pc[b] \in {"insert", "accepted"}
           => status[a] \notin ACTIVE_STATUSES

NotYetArrived == \A r \in Request : pc[r] = "start" => earlier[r] = {}

JobsInv ==
  /\ RowsOfRequests
  /\ HeldRowsBuilding
  /\ ReapListCurrent
  /\ AttemptLeft
  /\ CleanupOfDone
  /\ NoDoubleBuild
  /\ NotYetArrived
  /\ PassedOnlyIdle

-----------------------------------------------------------------------------
(***************************************************************************)
(* Types                                                                   *)
(***************************************************************************)
\* The initial table, queue and processes have their types.
LEMMA InitTypeOK == Init => TypeOK
  BY JobsConstants DEF Init, TypeOK, ACTIVE_STATUSES, TERMINAL_STATUSES, Outcome, Record

\* Every step of the route, the workers, the reaper and the cleanup keeps them.
LEMMA NextTypeOK == TypeOK /\ [Next]_vars => TypeOK'
<1> SUFFICES ASSUME TypeOK, [Next]_vars PROVE TypeOK'
  OBVIOUS
<1> USE JobsConstants DEF TypeOK
<1>s. /\ {"submitted", "building", "dead_letter"} \subseteq ACTIVE_STATUSES \cup TERMINAL_STATUSES \cup {"absent"}
      /\ Outcome \subseteq ACTIVE_STATUSES \cup TERMINAL_STATUSES \cup {"absent"}
  BY DEF ACTIVE_STATUSES, TERMINAL_STATUSES, Outcome
<1>1. ASSUME NEW r \in Request, Submit(r) PROVE TypeOK'
  <2> ContractOf[r] \in Contracts
    BY DEF Contracts
  <2>1. CASE SubmitArrives(r)
    BY <2>1 DEF SubmitArrives, rowVars, workerVars, sweepVars
  <2>2. CASE SubmitWaited(r)
    BY <2>2 DEF SubmitWaited, rowVars, workerVars, sweepVars
  <2>3. CASE SubmitDepth(r)
    BY <2>3 DEF SubmitDepth, rowVars, workerVars, sweepVars
  <2>4. CASE SubmitDedup(r)
    BY <2>4 DEF SubmitDedup, rowVars, workerVars, sweepVars
  <2>5. CASE SubmitInsert(r)
    BY <2>5 DEF SubmitInsert, workerVars, sweepVars, ACTIVE_STATUSES, Record
  <2>6. CASE SubmitInsertFails(r)
    BY <2>6 DEF SubmitInsertFails, rowVars, workerVars, sweepVars
  <2> QED BY <1>1, <2>1, <2>2, <2>3, <2>4, <2>5, <2>6 DEF Submit
<1>2. ASSUME NEW w \in Worker, Work(w) PROVE TypeOK'
  <2>1. ASSUME NEW id \in Record, ClaimSubmitted(w, id) PROVE TypeOK'
    <3>1. CASE validateImportedRecord(id)
      <4> id \in Request
        BY <3>1 DEF validateImportedRecord, Record
      <4> QED BY <2>1, <3>1, <1>s DEF ClaimSubmitted, ClaimRow, Record, requestVars, sweepVars
    <3>2. CASE ~validateImportedRecord(id)
      BY <2>1, <3>2, <1>s DEF ClaimSubmitted, ClaimRow, requestVars, sweepVars
    <3> QED BY <3>1, <3>2
  <2>2. ASSUME NEW result \in Outcome, BuildEnds(w, result) PROVE TypeOK'
    BY <2>2 DEF BuildEnds, requestVars, rowVars, sweepVars
  <2>3. CASE WorkerFails(w)
    BY <2>3 DEF WorkerFails, Released, requestVars, rowVars, sweepVars
  <2>4. CASE CompleteRead(w)
    <3> job[w] \in Record
      BY <2>4 DEF CompleteRead, Record
    <3> QED BY <2>4 DEF CompleteRead, Released, requestVars, rowVars, sweepVars
  <2>5. CASE CompleteWrite(w)
    <3> outcome[w] \in ACTIVE_STATUSES \cup TERMINAL_STATUSES \cup {"absent"}
      BY <1>s
    <3>1. CASE status[job[w]] = "absent"
      BY <2>5, <3>1 DEF CompleteWrite, Released, rowVars, requestVars, sweepVars
    <3>2. CASE status[job[w]] # "absent"
      <4>1. /\ status' \in [Record -> ACTIVE_STATUSES \cup TERMINAL_STATUSES \cup {"absent"}]
            /\ recordStatus' \in [Record -> ACTIVE_STATUSES \cup TERMINAL_STATUSES \cup {"absent"}]
        BY <2>5, <3>2 DEF CompleteWrite
      <4>2. attempts' \in [Record -> Nat]
        BY <2>5, <3>2 DEF CompleteWrite
      <4>3. overdue' \in [Record -> BOOLEAN]
        BY <2>5, <3>2 DEF CompleteWrite
      <4> QED BY <2>5, <3>2, <4>1, <4>2, <4>3 DEF CompleteWrite, Released, requestVars, sweepVars
    <3> QED BY <3>1, <3>2
  <2> QED BY <1>2, <2>1, <2>2, <2>3, <2>4, <2>5 DEF Work
<1>3. ASSUME NEW id \in Record, Overdue(id) PROVE TypeOK'
  BY <1>3 DEF Overdue, requestVars, workerVars, sweepVars
<1>4. ASSUME NEW id \in Record, Ages(id) PROVE TypeOK'
  BY <1>4 DEF Ages, requestVars, workerVars, sweepVars
<1>5. ASSUME NEW p \in Reaper, ReapSelect(p) PROVE TypeOK'
  BY <1>5 DEF ReapSelect, requestVars, rowVars, workerVars
<1>6. ASSUME NEW p \in Reaper, ReapRow(p) PROVE TypeOK'
  <2> PICK row \in reapList[p] : ReapUpdate(p, row)
    BY <1>6 DEF ReapRow
  <2>1. CASE status[row[1]] = "absent"
    BY <2>1 DEF ReapUpdate, requestVars, rowVars, workerVars
  <2>2. CASE status[row[1]] # "absent"
    <3>1. /\ status' \in [Record -> ACTIVE_STATUSES \cup TERMINAL_STATUSES \cup {"absent"}]
          /\ recordStatus' \in [Record -> ACTIVE_STATUSES \cup TERMINAL_STATUSES \cup {"absent"}]
      BY <2>2, <1>s DEF ReapUpdate
    <3>2. overdue' \in [Record -> BOOLEAN]
      BY <2>2 DEF ReapUpdate
    <3> QED BY <2>2, <3>1, <3>2 DEF ReapUpdate, requestVars, workerVars
  <2> QED BY <2>1, <2>2
<1>7. ASSUME NEW p \in Reaper, ReapAborts(p) PROVE TypeOK'
  BY <1>7 DEF ReapAborts, requestVars, rowVars, workerVars
<1>8. CASE Cleanup
  <2>1. CASE CleanupSelect
    BY <2>1 DEF CleanupSelect, requestVars, rowVars, workerVars
  <2>2. CASE CleanupArchive
    BY <2>2 DEF CleanupArchive, requestVars, rowVars, workerVars
  <2>3. CASE CleanupDelete
    BY <2>3 DEF CleanupDelete, requestVars, workerVars
  <2>4. CASE CleanupAborts
    BY <2>4 DEF CleanupAborts, requestVars, rowVars, workerVars
  <2> QED BY <1>8, <2>1, <2>2, <2>3, <2>4 DEF Cleanup
<1>9. CASE UNCHANGED vars
  BY <1>9 DEF vars, requestVars, rowVars, workerVars, sweepVars
<1> QED BY <1>1, <1>2, <1>3, <1>4, <1>5, <1>6, <1>7, <1>8, <1>9 DEF Next

\* Type correctness of the whole pipeline.
THEOREM JobsTypeCorrect == Spec => []TypeOK
  BY InitTypeOK, NextTypeOK, PTL DEF Spec

-----------------------------------------------------------------------------
(***************************************************************************)
(* NeverLost, whatever the replicas and the builds do                      *)
(***************************************************************************)
\* What the cleanup pass deletes is archived before, and nothing else removes
\* a row.
LEMMA NeverLostStep ==
  TypeOK /\ ArchivedFirst /\ NeverLost /\ [Next]_vars => ArchivedFirst' /\ NeverLost'
<1> SUFFICES ASSUME TypeOK, ArchivedFirst, NeverLost, [Next]_vars
             PROVE  ArchivedFirst' /\ NeverLost'
  OBVIOUS
<1> USE DEF ArchivedFirst, NeverLost
<1>1. ASSUME NEW r \in Request, Submit(r) PROVE ArchivedFirst' /\ NeverLost'
  BY <1>1 DEF TypeOK, Submit, SubmitArrives, SubmitWaited, SubmitDepth, SubmitDedup, SubmitInsert,
     SubmitInsertFails, rowVars, sweepVars, Record
<1>2. ASSUME NEW w \in Worker, Work(w) PROVE ArchivedFirst' /\ NeverLost'
  <2>1. UNCHANGED <<pc, cleanup, archive>>
    BY <1>2 DEF Work, ClaimSubmitted, BuildEnds, WorkerFails, CompleteRead, CompleteWrite,
       requestVars, sweepVars
  <2>2. \A id \in Record : status[id] # "absent" => status'[id] # "absent"
    <3>1. CASE CompleteWrite(w)
      BY <3>1 DEF TypeOK, CompleteWrite, Outcome, rowVars
    <3>2. CASE ~CompleteWrite(w)
      BY <1>2, <3>2 DEF TypeOK, Work, ClaimSubmitted, ClaimRow, BuildEnds, WorkerFails, CompleteRead, rowVars
    <3> QED BY <3>1, <3>2
  <2> QED BY <2>1, <2>2 DEF Record
<1>3. ASSUME NEW id \in Record, Overdue(id) \/ Ages(id) PROVE ArchivedFirst' /\ NeverLost'
  BY <1>3 DEF Overdue, Ages, requestVars, sweepVars
<1>4. ASSUME NEW p \in Reaper, ReapSelect(p) \/ ReapAborts(p) PROVE ArchivedFirst' /\ NeverLost'
  BY <1>4 DEF ReapSelect, ReapAborts, requestVars, rowVars
<1>5. ASSUME NEW p \in Reaper, ReapRow(p) PROVE ArchivedFirst' /\ NeverLost'
  <2> PICK row \in reapList[p] : ReapUpdate(p, row)
    BY <1>5 DEF ReapRow
  <2>1. \A id \in Record : status[id] # "absent" => status'[id] # "absent"
    BY DEF TypeOK, ReapUpdate, rowVars
  <2> QED BY <2>1 DEF ReapUpdate, requestVars, Record
<1>6. CASE Cleanup
  <2>1. CASE CleanupDelete
    BY <2>1 DEF CleanupDelete, requestVars, Record
  <2>2. CASE ~CleanupDelete
    BY <1>6, <2>2 DEF TypeOK, Cleanup, CleanupSelect, CleanupArchive, CleanupAborts, requestVars, rowVars
  <2> QED BY <2>1, <2>2
<1>7. CASE UNCHANGED vars
  BY <1>7 DEF vars, requestVars, rowVars, sweepVars
<1> QED BY <1>1, <1>2, <1>3, <1>4, <1>5, <1>6, <1>7 DEF Next

\* NeverLost: an accepted submission is in the table or in the archive wherever
\* the cleanup pass (cleanup.ts) is interrupted, for any number of replicas.
THEOREM SubmissionsNeverLost == Spec => []NeverLost
<1>1. Init => ArchivedFirst /\ NeverLost
  BY DEF Init, ArchivedFirst, NeverLost
<1> QED BY <1>1, JobsTypeCorrect, NeverLostStep, PTL DEF Spec

-----------------------------------------------------------------------------
(***************************************************************************)
(* The invariant of one replica                                            *)
(***************************************************************************)
LEMMA InitJobsInv == Init => JobsInv
<1> SUFFICES ASSUME Init PROVE JobsInv
  OBVIOUS
<1> USE JobsConstants DEF Init, Record
<1>1. RowsOfRequests
  BY DEF RowsOfRequests
<1>2. HeldRowsBuilding /\ ReapListCurrent /\ CleanupOfDone /\ NoDoubleBuild
  BY DEF HeldRowsBuilding, ReapListCurrent, CleanupOfDone, NoDoubleBuild
<1>3. AttemptLeft
  BY DEF AttemptLeft
<1>4. NotYetArrived /\ PassedOnlyIdle
  BY DEF NotYetArrived, PassedOnlyIdle
<1> QED BY <1>1, <1>2, <1>3, <1>4 DEF JobsInv

\* The submit route changes no row but the one it inserts.
LEMMA SubmitKeepsJobsInv ==
  ASSUME TypeOK, JobsInv, NEW r \in Request, Submit(r)
  PROVE  JobsInv'
<1> USE JobsConstants
<1> r \in Record
  BY DEF Record
<1>0. UNCHANGED <<attempts, overdue, old, workerVars, sweepVars>>
  BY DEF Submit, SubmitArrives, SubmitWaited, SubmitDepth, SubmitDedup, SubmitInsert,
     SubmitInsertFails, rowVars
<1>1. CASE SubmitInsert(r)
  <2>1. /\ status[r] = "absent" /\ attempts[r] = 0
        /\ pc' = [pc EXCEPT ![r] = "accepted"] /\ status' = [status EXCEPT ![r] = "submitted"]
        /\ UNCHANGED <<earlier>>
        /\ pc[r] = "insert"
    BY <1>1 DEF SubmitInsert, JobsInv, RowsOfRequests
  <2>2. RowsOfRequests'
    BY <1>0, <2>1 DEF JobsInv, RowsOfRequests, TypeOK
  <2>3. HeldRowsBuilding'
    BY <1>0, <2>1 DEF JobsInv, HeldRowsBuilding, TypeOK, workerVars
  <2>4. ReapListCurrent'
    BY <1>0, <2>1 DEF JobsInv, ReapListCurrent, TypeOK, sweepVars
  <2>5. AttemptLeft'
    BY <1>0, <2>1 DEF JobsInv, AttemptLeft, TypeOK
  <2>6. CleanupOfDone'
    BY <1>0, <2>1 DEF JobsInv, CleanupOfDone, RowsOfRequests, TypeOK, sweepVars
  <2>7. NoDoubleBuild'
    BY <1>0 DEF JobsInv, NoDoubleBuild, workerVars
  <2>8. NotYetArrived'
    BY <2>1 DEF JobsInv, NotYetArrived, TypeOK
  <2>9. PassedOnlyIdle'
    BY <2>1 DEF JobsInv, PassedOnlyIdle, TypeOK
  <2> QED BY <2>2, <2>3, <2>4, <2>5, <2>6, <2>7, <2>8, <2>9 DEF JobsInv
<1>2. CASE ~SubmitInsert(r)
  <2>1. UNCHANGED status
    BY <1>2 DEF Submit, SubmitArrives, SubmitWaited, SubmitDepth, SubmitDedup, SubmitInsertFails, rowVars
  <2>2. pc' = [pc EXCEPT ![r] = pc'[r]] /\ pc'[r] # "accepted" /\ pc[r] # "accepted" /\ pc'[r] # "start"
    <3>1. PICK v \in {"waiting", "depth", "dedup", "insert", "rejected"} : pc' = [pc EXCEPT ![r] = v]
      BY <1>2 DEF Submit, SubmitArrives, SubmitWaited, SubmitDepth, SubmitDedup, SubmitInsertFails
    <3>2. pc[r] # "accepted"
      BY <1>2 DEF Submit, SubmitArrives, SubmitWaited, SubmitDepth, SubmitDedup, SubmitInsertFails
    <3>3. pc'[r] = v
      BY <3>1 DEF TypeOK
    <3> QED BY <3>1, <3>2, <3>3
  <2>3. RowsOfRequests'
    BY <1>0, <2>1, <2>2 DEF JobsInv, RowsOfRequests, TypeOK
  <2>4. HeldRowsBuilding' /\ ReapListCurrent' /\ AttemptLeft' /\ NoDoubleBuild'
    BY <1>0, <2>1 DEF JobsInv, HeldRowsBuilding, ReapListCurrent, AttemptLeft,
       NoDoubleBuild, workerVars, sweepVars
  <2>7. CleanupOfDone'
    BY <1>0, <2>1, <2>2 DEF JobsInv, CleanupOfDone, TypeOK, sweepVars
  <2>5. NotYetArrived'
    <3>1. \A q \in Request : pc'[q] = "start" => q # r /\ pc[q] = "start" /\ earlier'[q] = earlier[q]
      BY <1>2, <2>2 DEF Submit, SubmitArrives, SubmitWaited, SubmitDepth, SubmitDedup, SubmitInsertFails, TypeOK
    <3> QED BY <3>1 DEF JobsInv, NotYetArrived
  <2>6. PassedOnlyIdle'
    <3> SUFFICES ASSUME NEW a \in Request, NEW b \in Request, a \in earlier'[b]
                 PROVE  /\ pc'[a] \in {"accepted", "rejected"}
                        /\ a # b /\ ContractOf[a] = ContractOf[b] /\ pc'[b] \in {"insert", "accepted"}
                             => status'[a] \notin ACTIVE_STATUSES
      BY DEF PassedOnlyIdle
    <3>1. CASE SubmitArrives(r)
      BY <3>1, <2>1, <2>2 DEF SubmitArrives, JobsInv, PassedOnlyIdle, TypeOK
    <3>2. CASE ~SubmitArrives(r)
      <4>1. UNCHANGED earlier /\ pc[r] \notin {"accepted", "rejected"}
        BY <1>2, <3>2 DEF Submit, SubmitWaited, SubmitDepth, SubmitDedup, SubmitInsertFails
      <4>2. pc'[a] \in {"accepted", "rejected"}
        BY <4>1, <2>2 DEF JobsInv, PassedOnlyIdle, TypeOK
      <4>3. ASSUME a # b, ContractOf[a] = ContractOf[b], pc'[b] \in {"insert", "accepted"}
            PROVE  status'[a] \notin ACTIVE_STATUSES
        <5>1. CASE b = r
          <6> SubmitDedup(r) /\ ~HasActive(ContractOf[r])
            BY <5>1, <4>3, <1>2, <3>2 DEF Submit, SubmitWaited, SubmitDepth, SubmitDedup, SubmitInsertFails, TypeOK
          <6> QED BY <5>1, <4>3, <2>1 DEF HasActive, ActiveRecords, Record
        <5>2. CASE b # r
          BY <5>2, <4>1, <4>3, <2>1, <2>2 DEF JobsInv, PassedOnlyIdle, TypeOK
        <5> QED BY <5>1, <5>2
      <4> QED BY <4>2, <4>3
    <3> QED BY <3>1, <3>2
  <2> QED BY <2>3, <2>4, <2>5, <2>6, <2>7 DEF JobsInv
<1> QED BY <1>1, <1>2

\* What a worker does to a row, it does to the row it holds or claims.
LEMMA WorkKeepsJobsInv ==
  ASSUME TypeOK, JobsInv, NEW w \in Worker, Work(w)
  PROVE  JobsInv'
<1> USE JobsConstants
<1>0. UNCHANGED <<requestVars, sweepVars>>
  BY DEF Work, ClaimSubmitted, BuildEnds, WorkerFails, CompleteRead, CompleteWrite
<1>1. ASSUME NEW id \in Record, ClaimSubmitted(w, id) PROVE JobsInv'
  <2>1. /\ phase[w] = "idle" /\ status[id] = "submitted"
        /\ status' = [status EXCEPT ![id] = "building"]
        /\ attempts' = [attempts EXCEPT ![id] = attempts[id] + 1]
        /\ overdue' = [overdue EXCEPT ![id] = FALSE]
    BY <1>1 DEF ClaimSubmitted, ClaimRow
  <2>w. \A v \in Worker : \/ job'[v] = job[v] /\ phase'[v] = phase[v]
                          \/ v = w /\ job'[v] = id /\ phase'[v] = "building"
    <3>1. CASE validateImportedRecord(id)
      BY <1>1, <3>1 DEF ClaimSubmitted, TypeOK
    <3>2. CASE ~validateImportedRecord(id)
      BY <1>1, <3>2 DEF ClaimSubmitted
    <3> QED BY <3>1, <3>2
  <2>2. \A v \in Worker : phase[v] # "idle" => job[v] # id
    BY <2>1 DEF JobsInv, HeldRowsBuilding
  <2>3. RowsOfRequests'
    BY <1>0, <2>1 DEF JobsInv, RowsOfRequests, TypeOK, requestVars
  <2>4. HeldRowsBuilding'
    <3> SUFFICES ASSUME NEW v \in Worker, phase'[v] # "idle"
                 PROVE  /\ status'[job'[v]] = "building"
                        /\ ~overdue'[job'[v]]
                        /\ phase'[v] = "writing" => snapshot'[v] = attempts'[job'[v]]
      BY DEF HeldRowsBuilding
    <3>1. CASE v = w /\ job'[v] = id /\ phase'[v] = "building"
      BY <2>1, <3>1 DEF TypeOK
    <3>2. CASE job'[v] = job[v] /\ phase'[v] = phase[v]
      <4> job[v] # id /\ job[v] \in Record /\ snapshot' = snapshot
        BY <1>1, <2>2, <3>2 DEF TypeOK, Record, ClaimSubmitted
      <4> QED BY <2>1, <3>2 DEF TypeOK, JobsInv, HeldRowsBuilding
    <3> QED BY <2>w, <3>1, <3>2
  <2>5. ReapListCurrent'
    <3> SUFFICES ASSUME NEW p \in Reaper, NEW row \in reapList[p]
                 PROVE  status'[row[1]] = "building" /\ overdue'[row[1]] /\ row[2] = attempts'[row[1]]
      BY <1>0 DEF ReapListCurrent, sweepVars
    <3>1. row[1] # id /\ row[1] \in Record
      BY <2>1 DEF JobsInv, ReapListCurrent, TypeOK
    <3> QED BY <2>1, <3>1 DEF JobsInv, ReapListCurrent, TypeOK
  <2>6. AttemptLeft'
    BY <2>1 DEF JobsInv, AttemptLeft, TypeOK
  <2>7. CleanupOfDone'
    BY <1>0, <2>1 DEF JobsInv, CleanupOfDone, TypeOK, TERMINAL_STATUSES, requestVars, sweepVars
  <2>8. NoDoubleBuild'
    BY <2>1, <2>2, <2>w DEF JobsInv, NoDoubleBuild, TypeOK
  <2>9. NotYetArrived'
    BY <1>0 DEF JobsInv, NotYetArrived, requestVars
  <2>10. PassedOnlyIdle'
    BY <1>0, <2>1 DEF JobsInv, PassedOnlyIdle, ACTIVE_STATUSES, TypeOK, requestVars
  <2> QED BY <2>3, <2>4, <2>5, <2>6, <2>7, <2>8, <2>9, <2>10 DEF JobsInv
<1>2. CASE CompleteWrite(w)
  <2> DEFINE id == job[w]
  <2>1. /\ phase[w] = "writing" /\ id \in Record /\ status[id] = "building" /\ ~overdue[id]
        /\ snapshot[w] = attempts[id] /\ outcome[w] \in {"verified", "failed"}
    BY <1>2 DEF CompleteWrite, JobsInv, HeldRowsBuilding, TypeOK, Record, Outcome
  <2>2. /\ status' = [status EXCEPT ![id] = outcome[w]]
        /\ overdue' = [overdue EXCEPT ![id] = FALSE]
        /\ job' = [job EXCEPT ![w] = NoJob] /\ phase' = [phase EXCEPT ![w] = "idle"]
        /\ UNCHANGED snapshot
    BY <1>2, <2>1 DEF CompleteWrite, Released
  <2>3. attempts' = attempts
    <3> attempts' = [attempts EXCEPT ![id] = attempts[id]]
      BY <1>2, <2>1 DEF CompleteWrite
    <3> QED BY DEF TypeOK
  <2> HIDE DEF id
  <2>4. \A v \in Worker : phase'[v] # "idle" =>
           v # w /\ phase'[v] = phase[v] /\ job'[v] = job[v] /\ job[v] # id /\ job[v] \in Record
    BY <2>1, <2>2 DEF JobsInv, NoDoubleBuild, TypeOK, Record, id
  <2>5. RowsOfRequests'
    BY <1>0, <2>1, <2>2, <2>3 DEF JobsInv, RowsOfRequests, TypeOK, requestVars
  <2>6. HeldRowsBuilding'
    BY <2>2, <2>3, <2>4 DEF JobsInv, HeldRowsBuilding, TypeOK
  <2>7. ReapListCurrent'
    BY <1>0, <2>1, <2>2, <2>3 DEF JobsInv, ReapListCurrent, TypeOK, sweepVars
  <2>8. AttemptLeft'
    BY <2>1, <2>2, <2>3 DEF JobsInv, AttemptLeft, TypeOK
  <2>9. CleanupOfDone'
    BY <1>0, <2>1, <2>2 DEF JobsInv, CleanupOfDone, TypeOK, TERMINAL_STATUSES, requestVars, sweepVars
  <2>10. NoDoubleBuild'
    BY <2>2 DEF JobsInv, NoDoubleBuild, TypeOK
  <2>11. NotYetArrived'
    BY <1>0 DEF JobsInv, NotYetArrived, requestVars
  <2>12. PassedOnlyIdle'
    BY <1>0, <2>1, <2>2 DEF JobsInv, PassedOnlyIdle, ACTIVE_STATUSES, TypeOK, requestVars
  <2> QED BY <2>5, <2>6, <2>7, <2>8, <2>9, <2>10, <2>11, <2>12 DEF JobsInv
<1>3. CASE (\E result \in Outcome : BuildEnds(w, result)) \/ WorkerFails(w) \/ CompleteRead(w)
  <2>1. UNCHANGED rowVars
    BY <1>3 DEF BuildEnds, WorkerFails, CompleteRead
  <2>2. \A v \in Worker : phase'[v] # "idle" =>
           /\ phase[v] # "idle" /\ job'[v] = job[v]
           /\ phase'[v] = "writing" => (phase[v] = "writing" /\ snapshot'[v] = snapshot[v])
                                       \/ snapshot'[v] = attempts[job[v]]
    BY <1>3 DEF BuildEnds, WorkerFails, CompleteRead, Released, TypeOK
  <2>3. \A v \in Worker : job'[v] = job[v] \/ job'[v] = NoJob
    BY <1>3 DEF BuildEnds, WorkerFails, CompleteRead, Released, TypeOK
  <2>4. HeldRowsBuilding'
    BY <2>1, <2>2 DEF JobsInv, HeldRowsBuilding, rowVars
  <2>5. NoDoubleBuild'
    BY <2>3 DEF JobsInv, NoDoubleBuild
  <2>6. RowsOfRequests' /\ ReapListCurrent' /\ AttemptLeft' /\ CleanupOfDone'
    BY <1>0, <2>1 DEF JobsInv, RowsOfRequests, ReapListCurrent, AttemptLeft, CleanupOfDone, rowVars,
       requestVars, sweepVars
  <2>7. NotYetArrived' /\ PassedOnlyIdle'
    BY <1>0, <2>1 DEF JobsInv, NotYetArrived, PassedOnlyIdle, rowVars, requestVars
  <2> QED BY <2>4, <2>5, <2>6, <2>7 DEF JobsInv
<1> QED BY <1>1, <1>2, <1>3 DEF Work

\* The reaper, with no second one to make its list stale, and the clock.
LEMMA SweepKeepsJobsInv ==
  ASSUME TypeOK, JobsInv, SingleReplica,
         \/ \E id \in Record : Overdue(id) \/ Ages(id)
         \/ \E p \in Reaper : ReapSelect(p) \/ ReapRow(p) \/ ReapAborts(p)
  PROVE  JobsInv'
<1> USE JobsConstants
<1>0. UNCHANGED <<requestVars, workerVars, cleanup, archive>>
  BY DEF Overdue, Ages, ReapSelect, ReapRow, ReapUpdate, ReapAborts, sweepVars
<1>1. NoDoubleBuild' /\ NotYetArrived'
  BY <1>0 DEF JobsInv, NoDoubleBuild, NotYetArrived, workerVars, requestVars
<1>2. ASSUME NEW id \in Record, Overdue(id) PROVE JobsInv'
  <2>1. /\ overdue' = [overdue EXCEPT ![id] = TRUE]
        /\ UNCHANGED <<status, attempts, reapList>>
        /\ \A w \in Worker : job[w] # id
    BY <1>2 DEF Overdue, Held, SingleReplica, sweepVars
  <2>2. HeldRowsBuilding'
    BY <1>0, <2>1 DEF JobsInv, HeldRowsBuilding, TypeOK, workerVars
  <2>3. ReapListCurrent'
    BY <2>1 DEF JobsInv, ReapListCurrent, TypeOK
  <2>4. RowsOfRequests' /\ AttemptLeft' /\ CleanupOfDone' /\ PassedOnlyIdle'
    BY <1>0, <2>1 DEF JobsInv, RowsOfRequests, AttemptLeft, CleanupOfDone, PassedOnlyIdle, requestVars
  <2> QED BY <1>1, <2>2, <2>3, <2>4 DEF JobsInv
<1>3. ASSUME NEW id \in Record, Ages(id) PROVE JobsInv'
  BY <1>0, <1>1, <1>3 DEF Ages, JobsInv, RowsOfRequests, HeldRowsBuilding, ReapListCurrent, AttemptLeft,
     CleanupOfDone, PassedOnlyIdle, requestVars, workerVars, sweepVars
<1>4. ASSUME NEW p \in Reaper, ReapSelect(p) \/ ReapAborts(p) PROVE JobsInv'
  <2>1. UNCHANGED rowVars
    BY <1>4 DEF ReapSelect, ReapAborts
  <2>2. ReapListCurrent'
    <3>1. CASE ReapSelect(p)
      <4> SUFFICES ASSUME NEW q \in Reaper, NEW row \in reapList'[q]
                   PROVE  status[row[1]] = "building" /\ overdue[row[1]] /\ row[2] = attempts[row[1]]
        BY <2>1 DEF ReapListCurrent, rowVars
      <4>1. CASE row \in reapList[q]
        BY <4>1 DEF JobsInv, ReapListCurrent
      <4>2. CASE row \notin reapList[q]
        <5>1. PICK id \in Record : status[id] = "building" /\ overdue[id] /\ row = <<id, attempts[id]>>
          BY <3>1, <4>2 DEF ReapSelect, TypeOK
        <5> QED BY <5>1
      <4> QED BY <4>1, <4>2
    <3>2. CASE ReapAborts(p)
      BY <3>2, <2>1 DEF ReapAborts, JobsInv, ReapListCurrent, TypeOK, rowVars
    <3> QED BY <1>4, <3>1, <3>2
  <2>3. RowsOfRequests' /\ HeldRowsBuilding' /\ AttemptLeft' /\ CleanupOfDone' /\ PassedOnlyIdle'
    BY <1>0, <2>1 DEF JobsInv, RowsOfRequests, HeldRowsBuilding, AttemptLeft, CleanupOfDone,
       PassedOnlyIdle, rowVars, requestVars, workerVars
  <2> QED BY <1>1, <2>2, <2>3 DEF JobsInv
<1>5. ASSUME NEW p \in Reaper, ReapRow(p) PROVE JobsInv'
  <2>1. PICK row \in reapList[p] : ReapUpdate(p, row)
    BY <1>5 DEF ReapRow
  <2> DEFINE id == row[1]
             next == IF row[2] >= maxAttempts THEN "dead_letter" ELSE "submitted"
  <2>2. id \in Record /\ status[id] = "building" /\ overdue[id] /\ row[2] = attempts[id]
    BY DEF JobsInv, ReapListCurrent, TypeOK
  <2>3. /\ reapList' = [reapList EXCEPT ![p] = @ \ {row}]
        /\ status' = [status EXCEPT ![id] = next]
        /\ overdue' = [overdue EXCEPT ![id] = FALSE]
        /\ UNCHANGED attempts
    BY <2>1, <2>2 DEF ReapUpdate
  <2>4. /\ next = "submitted" => attempts[id] < maxAttempts
        /\ next \in {"submitted", "dead_letter"}
    BY <2>2 DEF TypeOK
  <2> HIDE DEF next
  <2>5. RowsOfRequests'
    BY <1>0, <2>2, <2>3 DEF JobsInv, RowsOfRequests, TypeOK, requestVars
  <2>6. HeldRowsBuilding'
    BY <1>0, <2>2, <2>3 DEF JobsInv, HeldRowsBuilding, TypeOK, workerVars
  <2>7. ReapListCurrent'
    <3> SUFFICES ASSUME NEW q \in Reaper, NEW other \in reapList'[q]
                 PROVE  /\ status'[other[1]] = "building" /\ overdue'[other[1]]
                        /\ other[2] = attempts[other[1]]
      BY <2>3 DEF ReapListCurrent
    <3>1. other \in reapList[p] /\ other # row
      BY <2>3 DEF SingleReplica, TypeOK
    <3>2. other[1] \in Record /\ other = <<other[1], other[2]>> /\ row = <<row[1], row[2]>>
      BY <3>1 DEF TypeOK
    <3>3. status[other[1]] = "building" /\ overdue[other[1]] /\ other[2] = attempts[other[1]]
      BY <3>1 DEF JobsInv, ReapListCurrent
    <3>4. other[1] # id
      BY <2>2, <3>1, <3>2, <3>3
    <3> QED BY <2>3, <3>2, <3>3, <3>4 DEF TypeOK
  <2>8. AttemptLeft'
    BY <2>2, <2>3, <2>4 DEF JobsInv, AttemptLeft, TypeOK
  <2>9. CleanupOfDone'
    BY <1>0, <2>2, <2>3 DEF JobsInv, CleanupOfDone, TypeOK, TERMINAL_STATUSES, requestVars
  <2>10. PassedOnlyIdle'
    BY <1>0, <2>2, <2>3 DEF JobsInv, PassedOnlyIdle, ACTIVE_STATUSES, TypeOK, requestVars
  <2> QED BY <1>1, <2>5, <2>6, <2>7, <2>8, <2>9, <2>10 DEF JobsInv
<1> QED BY <1>2, <1>3, <1>4, <1>5

\* The cleanup pass deletes rows nobody refers to.
LEMMA CleanupKeepsJobsInv == TypeOK /\ JobsInv /\ Cleanup => JobsInv'
<1> SUFFICES ASSUME TypeOK, JobsInv, Cleanup PROVE JobsInv'
  OBVIOUS
<1>0. UNCHANGED <<requestVars, workerVars, reapList, attempts, overdue>>
  BY DEF Cleanup, CleanupSelect, CleanupArchive, CleanupDelete, CleanupAborts, rowVars
<1>1. NoDoubleBuild' /\ NotYetArrived'
  BY <1>0 DEF JobsInv, NoDoubleBuild, NotYetArrived, workerVars, requestVars
<1>2. CleanupOfDone'
  <2>1. CASE CleanupSelect
    BY <1>0, <2>1 DEF CleanupSelect, CleanupOfDone, JobsInv, RowsOfRequests, TERMINAL_STATUSES, TypeOK,
       requestVars, rowVars
  <2>2. CASE CleanupArchive
    BY <1>0, <2>2 DEF CleanupArchive, CleanupOfDone, JobsInv, TypeOK, requestVars, rowVars
  <2>3. CASE CleanupDelete \/ CleanupAborts
    BY <2>3 DEF CleanupDelete, CleanupAborts, CleanupOfDone
  <2> QED BY <2>1, <2>2, <2>3 DEF Cleanup
<1>3. \A id \in Record : \/ status'[id] = status[id]
                         \/ status'[id] = "absent" /\ status[id] \in TERMINAL_STATUSES \cup {"absent"}
  <2>1. CASE CleanupDelete
    BY <2>1 DEF CleanupDelete, JobsInv, CleanupOfDone
  <2>2. CASE ~CleanupDelete
    BY <2>2 DEF Cleanup, CleanupSelect, CleanupArchive, CleanupAborts, rowVars
  <2> QED BY <2>1, <2>2
<1>4. RowsOfRequests' /\ AttemptLeft'
  BY <1>0, <1>3 DEF JobsInv, RowsOfRequests, AttemptLeft, Record, requestVars
<1>5. HeldRowsBuilding'
  BY <1>0, <1>3 DEF JobsInv, HeldRowsBuilding, TERMINAL_STATUSES, TypeOK, Record, workerVars
<1>6. ReapListCurrent'
  BY <1>0, <1>3 DEF JobsInv, ReapListCurrent, TERMINAL_STATUSES, TypeOK
<1>7. PassedOnlyIdle'
  BY <1>0, <1>3 DEF JobsInv, PassedOnlyIdle, ACTIVE_STATUSES, Record, requestVars
<1> QED BY <1>1, <1>2, <1>4, <1>5, <1>6, <1>7 DEF JobsInv

\* JobsInv is an invariant of one replica.
LEMMA JobsInvariant == SingleReplica => (Spec => []JobsInv)
<1> SUFFICES ASSUME SingleReplica PROVE Spec => []JobsInv
  OBVIOUS
<1>1. TypeOK /\ JobsInv /\ [Next]_vars => JobsInv'
  <2> SUFFICES ASSUME TypeOK, JobsInv, [Next]_vars PROVE JobsInv'
    OBVIOUS
  <2>1. CASE UNCHANGED vars
    BY <2>1 DEF vars, requestVars, rowVars, workerVars, sweepVars, JobsInv, RowsOfRequests,
       HeldRowsBuilding, ReapListCurrent, AttemptLeft, CleanupOfDone, NoDoubleBuild, NotYetArrived, PassedOnlyIdle
  <2>2. CASE Next
    BY <2>2, SubmitKeepsJobsInv, WorkKeepsJobsInv, SweepKeepsJobsInv, CleanupKeepsJobsInv DEF Next
  <2> QED BY <2>1, <2>2
<1> QED BY <1>1, InitJobsInv, JobsTypeCorrect, PTL DEF Spec

-----------------------------------------------------------------------------
(***************************************************************************)
(* What one replica guarantees                                             *)
(***************************************************************************)
\* NoDoubleBuild: with one replica and builds within reapTimeoutMs, no two job
\* slots ever hold the same record (claimSubmitted, reapStranded, complete).
THEOREM NeverBuiltTwice == SingleReplica => (Spec => []NoDoubleBuild)
<1>1. JobsInv => NoDoubleBuild
  BY DEF JobsInv
<1> QED BY <1>1, JobsInvariant, PTL

\* AttemptsBounded: the reaper parks a record at maxAttempts; no interleaving of
\* claims, crashes, completions and reaper passes gives it one more attempt.
THEOREM AttemptsStayBounded == SingleReplica => (Spec => []AttemptsBounded)
<1>1. JobsInv => AttemptsBounded
  BY DEF JobsInv, AttemptLeft, AttemptsBounded
<1> QED BY <1>1, JobsInvariant, PTL

\* SubmissionsKept: an accepted submission is neither lost nor, but for an
\* overlap of the two requests, doubled (server.ts, submit; cleanup.ts).
THEOREM SubmissionsAreKept == SingleReplica => (Spec => []SubmissionsKept)
<1>1. TypeOK /\ JobsInv => DoubledOnlyByOverlap
  <2> SUFFICES ASSUME TypeOK, JobsInv,
                      NEW a \in ActiveRecords \cap Request, NEW b \in ActiveRecords \cap Request,
                      a # b, ContractOf[a] = ContractOf[b], a \in earlier[b]
               PROVE  FALSE
    BY DEF DoubledOnlyByOverlap
  <2>1. pc[b] = "accepted" /\ status[a] \in ACTIVE_STATUSES
    BY DEF JobsInv, RowsOfRequests, ActiveRecords, ACTIVE_STATUSES
  <2> QED BY <2>1 DEF JobsInv, PassedOnlyIdle
<1> QED BY <1>1, JobsInvariant, JobsTypeCorrect, SubmissionsNeverLost, PTL DEF SubmissionsKept

\* TerminalIsFinal: no completion, reaper update or claim, however late, takes a
\* record out of its terminal status; only the cleanup pass removes it.
THEOREM TerminalStaysFinal == SingleReplica => (Spec => TerminalIsFinal)
<1>1. TypeOK /\ JobsInv /\ [Next]_vars =>
        [\A id \in Record :
           status[id] \in TERMINAL_STATUSES => status'[id] \in {status[id], "absent"}]_vars
  <2> SUFFICES ASSUME TypeOK, JobsInv, Next, NEW id \in Record, status[id] \in TERMINAL_STATUSES
               PROVE  status'[id] \in {status[id], "absent"}
    OBVIOUS
  <2>0. status[id] \notin {"absent", "submitted", "building"}
    BY DEF TERMINAL_STATUSES
  <2>1. ASSUME NEW r \in Request, Submit(r) PROVE status'[id] = status[id]
    BY <2>0, <2>1 DEF Submit, SubmitArrives, SubmitWaited, SubmitDepth, SubmitDedup, SubmitInsert,
       SubmitInsertFails, JobsInv, RowsOfRequests, rowVars, TypeOK, Record
  <2>2. ASSUME NEW w \in Worker, Work(w) PROVE status'[id] = status[id]
    <3>1. CASE CompleteWrite(w)
      <4> job[w] # id
        BY <2>0, <3>1 DEF CompleteWrite, JobsInv, HeldRowsBuilding
      <4> QED BY <3>1 DEF CompleteWrite, TypeOK, rowVars
    <3>2. CASE ~CompleteWrite(w)
      BY <2>0, <2>2, <3>2 DEF Work, ClaimSubmitted, ClaimRow, BuildEnds, WorkerFails, CompleteRead, rowVars, TypeOK
    <3> QED BY <3>1, <3>2
  <2>3. ASSUME NEW o \in Record, Overdue(o) \/ Ages(o) PROVE status'[id] = status[id]
    BY <2>3 DEF Overdue, Ages
  <2>4. ASSUME NEW p \in Reaper, ReapSelect(p) \/ ReapAborts(p) PROVE status'[id] = status[id]
    BY <2>4 DEF ReapSelect, ReapAborts, rowVars
  <2>5. ASSUME NEW p \in Reaper, ReapRow(p) PROVE status'[id] = status[id]
    <3>1. PICK row \in reapList[p] : ReapUpdate(p, row)
      BY <2>5 DEF ReapRow
    <3>2. row[1] # id
      BY <2>0 DEF JobsInv, ReapListCurrent
    <3> QED BY <3>1, <3>2 DEF ReapUpdate, rowVars, TypeOK
  <2>6. CASE Cleanup
    BY <2>6 DEF Cleanup, CleanupSelect, CleanupArchive, CleanupDelete, CleanupAborts, rowVars
  <2> QED BY <2>1, <2>2, <2>3, <2>4, <2>5, <2>6 DEF Next
<1> QED BY <1>1, JobsInvariant, JobsTypeCorrect, PTL DEF Spec, TerminalIsFinal

-----------------------------------------------------------------------------
(***************************************************************************)
(* The build of one job.                                                   *)
(***************************************************************************)
\* Past resolveDeployedHash, the hash is one the contract had while the job ran.
Resolved == {"guard", "clone", "plan", "fetch", "build", "compare"}

Pinned(deps) == {<<d, "locked">> : d \in deps}

\* Code runs in the container only while the build step waits for it, and what
\* is on disk by then came out of the lock file, entry by entry.
PipelineInv ==
  /\ BuildsSound
  /\ deployed \in onChain
  /\ step \in Resolved => hash \in onChain
  /\ buildOutcome.status = "verified" => step = "idle"
  /\ step \in {"resolve", "guard", "clone", "plan"} => fetched = {}
  /\ step = "fetch" => todo \subseteq buildJob.lock /\ fetched = Pinned(buildJob.lock \ todo)
  /\ step = "build" => fetched = Pinned(buildJob.lock)
  /\ container => step = "build"


LEMMA FramePipeline == PipelineInv /\ UNCHANGED pipelineVars => PipelineInv'
  BY DEF PipelineInv, pipelineVars, hostVars, chainVars, depVars, boxVars, BuildsSound, VerifiedMeansSame,
         Hermetic, IsFirstParty

\* What the comparison accepts is the same code with the same metadata.
LEMMA CompareTrue ==
  ASSUME NEW a, NEW b, CompareWasm(a, b) = "toolchain-metadata"
  PROVE  a.code = b.code /\ a.meta = b.meta
<1>1. NormalizedView(a) = NormalizedView(b)
  BY DEF CompareWasm
<1>2. NormalizedView(a)[1] = a.code /\ NormalizedView(a)[2] = a.meta
  BY DEF NormalizedView
<1>3. NormalizedView(b)[1] = b.code /\ NormalizedView(b)[2] = b.meta
  BY DEF NormalizedView
<1> QED
  BY <1>1, <1>2, <1>3

LEMMA FailedIs ==
  ASSUME NEW code, NEW networkWords, Fail(code, networkWords)
  PROVE  buildOutcome'.status = "failed" /\ step' = "idle"
  BY DEF Fail

\* A step with no verdict and no container: the hash, the lock file and what was
\* fetched stay as they are.
LEMMA QuietStepKeeps ==
  ASSUME PipelineInv, UNCHANGED <<buildJob, chainVars, fetched>>,
         step \in {"resolve", "guard", "clone", "plan", "fetch"},
         buildOutcome'.status # "verified", container' = container,
         reached' \subseteq {"public"},
         \/ step' = "idle"
         \/ /\ step' \in {"guard", "clone", "plan"} /\ step # "fetch" /\ hash' \in onChain
         \/ /\ step' = "fetch" /\ step = "plan" /\ todo' = buildJob.lock /\ hash' = hash
  PROVE  PipelineInv'
<1>1. onChain' = onChain /\ deployed' = deployed /\ fetched' = fetched /\ ~container
  BY DEF PipelineInv, chainVars
<1>2. BuildsSound'
  BY <1>1 DEF BuildsSound, VerifiedMeansSame, Hermetic
<1>3. step' = "fetch" => todo' \subseteq buildJob'.lock /\ fetched' = Pinned(buildJob'.lock \ todo')
  BY <1>1 DEF PipelineInv, Pinned
<1> QED
  BY <1>1, <1>2, <1>3 DEF PipelineInv, Resolved

LEMMA BeginKeeps == ASSUME PipelineInv, NEW j \in Jobs, Begin(j) PROVE PipelineInv'
  BY DEF PipelineInv, Begin, Reject, Open, BuildsSound, VerifiedMeansSame, Hermetic, Resolved, Pinned

LEMMA BeforeFetchKeeps ==
  ASSUME PipelineInv, Resolve \/ Guard \/ Clone \/ PlanDependencies
  PROVE  PipelineInv'
<1>0. reached \subseteq {"public"} /\ deployed \in onChain /\ (step # "idle" => buildOutcome.status # "verified")
  BY DEF PipelineInv, BuildsSound, Hermetic
<1>1. CASE Resolve
  <2>1. step = "resolve" /\ UNCHANGED <<buildJob, hostVars, chainVars, fetched, container>>
    BY <1>1 DEF Resolve, depVars
  <2>2. buildOutcome'.status # "verified" /\ (step' = "idle" \/ (step' = "guard" /\ hash' = deployed))
    BY <1>0, <1>1, <2>1, FailedIs DEF Resolve, Timeout
  <2> QED
    BY <1>0, <2>1, <2>2, QuietStepKeeps DEF hostVars
<1>2. CASE Guard
  <2>1. step = "guard" /\ UNCHANGED <<buildJob, hostVars, chainVars, hash, fetched, container>>
    BY <1>2 DEF Guard, depVars
  <2>2. buildOutcome'.status # "verified" /\ step' \in {"idle", "clone"}
    BY <1>0, <1>2, <2>1, FailedIs DEF Guard
  <2> QED
    BY <1>0, <2>1, <2>2, QuietStepKeeps DEF hostVars, PipelineInv, Resolved
<1>3. CASE Clone
  <2>1. step = "clone" /\ UNCHANGED <<buildJob, chainVars, hash, fetched, container>> /\ reached' = reached \cup {"public"}
    BY <1>3 DEF Clone, Connect, depVars
  <2>2. buildOutcome'.status # "verified" /\ step' \in {"idle", "plan"}
    BY <1>0, <1>3, <2>1, FailedIs DEF Clone
  <2> QED
    BY <1>0, <2>1, <2>2, QuietStepKeeps DEF PipelineInv, Resolved
<1>4. CASE PlanDependencies
  <2>1. step = "plan" /\ UNCHANGED <<buildJob, hostVars, chainVars, hash, fetched, container>>
    BY <1>4 DEF PlanDependencies
  <2>2. buildOutcome'.status # "verified" /\ (step' = "idle" \/ (step' = "fetch" /\ todo' = buildJob.lock))
    BY <1>0, <1>4, <2>1, FailedIs DEF PlanDependencies
  <2> QED
    BY <1>0, <2>1, <2>2, QuietStepKeeps DEF hostVars
<1> QED
  BY <1>1, <1>2, <1>3, <1>4

LEMMA FetchKeeps == ASSUME PipelineInv, NEW d \in Crates \cup GitDeps, Fetch(d) PROVE PipelineInv'
<1>1. /\ step = "fetch" /\ d \in todo /\ UNCHANGED <<buildJob, chainVars, hash, container>>
      /\ reached' \subseteq {"public"}
  BY DEF Fetch, Connect, PipelineInv, BuildsSound, Hermetic
<1>2. buildOutcome.status # "verified" /\ ~container /\ hash \in onChain
  BY <1>1 DEF PipelineInv, Resolved
<1>3. \/ step' = "idle" /\ buildOutcome'.status = "failed" /\ UNCHANGED fetched
      \/ /\ fetched' = fetched \cup {<<d, "locked">>} /\ todo' = todo \ {d}
         /\ UNCHANGED <<step, buildOutcome>>
  BY FailedIs DEF Fetch, Fetched, NotFetched, Accepted
<1>4. CASE step' = "idle" /\ buildOutcome'.status = "failed" /\ UNCHANGED fetched
  BY <1>1, <1>4, QuietStepKeeps
<1>5. CASE /\ fetched' = fetched \cup {<<d, "locked">>} /\ todo' = todo \ {d}
           /\ UNCHANGED <<step, buildOutcome>>
  <2>1. todo \subseteq buildJob.lock /\ fetched = Pinned(buildJob.lock \ todo)
    BY <1>1 DEF PipelineInv
  <2>2. buildJob.lock \ todo' = (buildJob.lock \ todo) \cup {d}
    BY <1>1, <1>5, <2>1
  <2>3. fetched' = Pinned(buildJob.lock \ todo')
    BY <1>5, <2>1, <2>2 DEF Pinned
  <2>4. BuildsSound'
    BY <1>1, <1>2, <1>5 DEF BuildsSound, VerifiedMeansSame, Hermetic
  <2>5. UNCHANGED <<buildJob, deployed, onChain, hash, container, step, buildOutcome>> /\ todo' \subseteq buildJob'.lock
    BY <1>1, <1>5, <2>1 DEF chainVars
  <2> QED
    BY <1>1, <1>2, <2>3, <2>4, <2>5 DEF PipelineInv
<1> QED
  BY <1>3, <1>4, <1>5

LEMMA BuildKeeps ==
  ASSUME PipelineInv, StartContainer \/ EndContainer
  PROVE  PipelineInv'
<1>0. reached \subseteq {"public"} /\ (step # "idle" => buildOutcome.status # "verified")
  BY DEF PipelineInv, BuildsSound, Hermetic
<1>1. CASE StartContainer
  <2>1. /\ UNCHANGED <<buildJob, reached, deployed, onChain, hash, fetched, buildOutcome>>
        /\ step = "fetch" /\ todo = {} /\ step' = "build"
    BY <1>1 DEF StartContainer, hostVars, chainVars, depVars
  <2>2. fetched = Pinned(buildJob.lock) /\ hash \in onChain /\ deployed \in onChain
    BY <2>1 DEF PipelineInv, Resolved
  <2>3. BuildsSound'
    BY <1>0, <2>1, <2>2 DEF BuildsSound, VerifiedMeansSame, Hermetic, Pinned
  <2> QED
    BY <1>0, <2>1, <2>2, <2>3 DEF PipelineInv
<1>2. CASE EndContainer
  <2>1. /\ UNCHANGED <<buildJob, reached, deployed, onChain, hash, fetched>>
        /\ step = "build" /\ ~container'
    BY <1>2 DEF EndContainer, hostVars, chainVars, depVars
  <2>2. buildOutcome'.status # "verified" /\ step' \in {"idle", "compare"}
    BY <1>0, <1>2, <2>1, FailedIs DEF EndContainer
  <2>3. hash \in onChain /\ deployed \in onChain
    BY <2>1 DEF PipelineInv, Resolved
  <2>4. BuildsSound'
    BY <1>0, <2>1, <2>2 DEF BuildsSound, VerifiedMeansSame, Hermetic
  <2> QED
    BY <2>1, <2>2, <2>3, <2>4 DEF PipelineInv
<1> QED
  BY <1>1, <1>2

LEMMA CompareKeeps == ASSUME PipelineInv, Compare PROVE PipelineInv'
<1>1. /\ step = "compare" /\ UNCHANGED <<buildJob, reached, deployed, onChain, hash, fetched, container, built>>
      /\ hash \in onChain /\ deployed \in onChain /\ ~container /\ reached \subseteq {"public"}
  BY DEF Compare, hostVars, chainVars, depVars, boxVars, PipelineInv, Resolved, BuildsSound, Hermetic
<1>2. step' = "idle"
  BY DEF Compare, Reject, Timeout, FetchDeployedWasmFails
<1>3. buildOutcome'.status = "verified" =>
        /\ built.code = hash.code /\ built.meta = hash.meta
        /\ IsFirstParty => built = hash
  BY CompareTrue DEF Compare, Reject, Timeout, FetchDeployedWasmFails
<1>4. BuildsSound'
  BY <1>1, <1>3 DEF BuildsSound, VerifiedMeansSame, Hermetic, IsFirstParty
<1> QED
  BY <1>1, <1>2, <1>4 DEF PipelineInv, Resolved

\* Writes that come late, names that are rebound and contracts that are upgraded
\* change nothing of what was concluded.
LEMMA OutsideKeeps ==
  ASSUME PipelineInv, Rebind \/ Upgrade \/ (\E d \in Crates \cup GitDeps : LateWrite(d))
  PROVE  PipelineInv'
<1>1. UNCHANGED <<buildJob, step, reached, hash, fetched, todo, container, built, buildOutcome>>
  BY DEF Rebind, Upgrade, LateWrite, hostVars, depVars, boxVars
<1>2. onChain \subseteq onChain' /\ deployed' \in onChain'
  BY DEF PipelineInv, Rebind, Upgrade, LateWrite, chainVars
<1>3. BuildsSound'
  BY <1>1, <1>2 DEF PipelineInv, BuildsSound, VerifiedMeansSame, Hermetic, IsFirstParty
<1> QED
  BY <1>1, <1>2, <1>3 DEF PipelineInv

LEMMA PipelineKeeps == PipelineInv /\ [PipelineNext]_pipelineVars => PipelineInv'
  BY FramePipeline, BeginKeeps, BeforeFetchKeeps, FetchKeeps, BuildKeeps, CompareKeeps, OutsideKeeps DEF PipelineNext

\* Whatever the names resolve to, whichever fetch is late and however the contract
\* is upgraded meanwhile: code is called verified only if it is the same as what
\* the contract was while the job ran, and only what the lock file pins is built.
THEOREM BuildsStaySound == MCSpec => []BuildsSound
<1>1. MCInit => PipelineInv
  BY DEF MCInit, PipelineInit, PipelineInv, Open, BuildsSound, VerifiedMeansSame, Hermetic, Resolved
<1>2. PipelineInv /\ [MCNext]_<<part, pipelineVars, queueVars, listVars>> => PipelineInv'
  BY PipelineKeeps, FramePipeline DEF MCNext
<1>3. PipelineInv => BuildsSound
  BY DEF PipelineInv
<1> QED
  BY <1>1, <1>2, <1>3, PTL DEF MCSpec

-----------------------------------------------------------------------------
(***************************************************************************)
(* The queue.                                                              *)
(***************************************************************************)
EndStates == {"verified", "completed", "failed", "dead_letter"}

Entries == [status : {"absent", "submitted", "building"} \cup EndStates, attempts : Nat, claimedAt : Nat]

QueueTypeOK ==
  /\ entries \in [QueueJobs -> Entries]
  /\ claims \in [QueueJobs -> Nat] /\ releases \in [QueueJobs -> Nat]
  /\ ended \subseteq QueueJobs /\ queueClock \in Nat

\* The attempts on a job's entry are the claims of it, and a job that waits can
\* afford one more.
ClaimsKept(j) ==
  /\ claims[j] = entries[j].attempts
  /\ backend = "memory" => entries[j].attempts <= MaxClaims + releases[j]
  /\ backend = "memory" /\ entries[j].status \in {"absent", "submitted"} => entries[j].attempts < MaxClaims + releases[j]

QueueInv ==
  /\ QueueTypeOK
  /\ \A j \in QueueJobs : ClaimsKept(j)
  /\ \A j \in ended : entries[j].status \in EndStates

LEMMA FrameQueue == QueueInv /\ UNCHANGED queueVars => QueueInv'
  BY DEF QueueInv, QueueTypeOK, ClaimsKept, queueVars

LEMMA LeastJob == ASSUME NEW S \in SUBSET Nat, S # {} PROVE Min(S) \in S
<1>1. \E m \in S : \A x \in S : ~(<<x, m>> \in OpToRel(<, Nat))
  BY NatLessThanWellFounded, WFMin
<1>2. PICK m \in S : \A x \in S : ~(<<x, m>> \in OpToRel(<, Nat))
  BY <1>1
<1>3. ASSUME NEW x \in S PROVE m <= x
  <2>1. ~(<<x, m>> \in {p \in Nat \X Nat : p[1] < p[2]})
    BY <1>2 DEF OpToRel
  <2>2. <<x, m>> \in Nat \X Nat /\ <<x, m>>[1] = x /\ <<x, m>>[2] = m
    OBVIOUS
  <2> QED
    BY <2>1, <2>2
<1> QED
  BY <1>3 DEF Min

\* Steps that hand out no claim: entries change their status only, and no ended
\* job comes back.
LEMMA StatusesKeep ==
  ASSUME QueueInv, UNCHANGED <<backend, claims>>, queueClock' \in Nat,
         entries' \in [QueueJobs -> Entries],
         releases' \in [QueueJobs -> Nat], \A k \in QueueJobs : releases[k] <= releases'[k],
         \A k \in ended' : k \in QueueJobs,
         \A k \in QueueJobs :
           /\ entries'[k].attempts = entries[k].attempts
           /\ \/ entries'[k].status = entries[k].status
              \/ entries'[k].status \in EndStates \cup {"building"}
              \/ backend = "memory" => entries[k].attempts < MaxClaims + releases'[k],
         \A k \in ended' : entries'[k].status \in EndStates
  PROVE  QueueInv'
<1>1. /\ MaxClaims \in Nat
      /\ \A k \in QueueJobs :
           entries[k].attempts \in Nat /\ releases[k] \in Nat /\ releases'[k] \in Nat /\ entries'[k].attempts \in Nat
  BY QueueConstants DEF QueueInv, QueueTypeOK, Entries
<1>2. ASSUME NEW k \in QueueJobs PROVE ClaimsKept(k)'
  <2>1. ClaimsKept(k) /\ entries'[k].attempts = entries[k].attempts /\ releases[k] <= releases'[k]
    BY DEF QueueInv
  <2>2. backend = "memory" /\ entries'[k].status \in {"absent", "submitted"} =>
          entries[k].attempts < MaxClaims + releases'[k]
    BY <1>1, <2>1 DEF ClaimsKept, EndStates
  <2> QED
    BY <1>1, <2>1, <2>2 DEF ClaimsKept
<1> QED
  BY <1>2 DEF QueueInv, QueueTypeOK

\* An entry with another status.
LEMMA Restated ==
  ASSUME QueueInv, NEW j \in QueueJobs, NEW s \in {"absent", "submitted", "building"} \cup EndStates,
         entries' = [entries EXCEPT ![j].status = s]
  PROVE  /\ entries' \in [QueueJobs -> Entries]
         /\ \A k \in QueueJobs :
              /\ entries'[k].attempts = entries[k].attempts
              /\ entries'[k].status = IF k = j THEN s ELSE entries[k].status
<1>1. ASSUME NEW r \in Entries
      PROVE  [r EXCEPT !.status = s] \in Entries /\ [r EXCEPT !.status = s].attempts = r.attempts
             /\ [r EXCEPT !.status = s].status = s
  BY DEF Entries
<1>2. entries' = [entries EXCEPT ![j] = [entries[j] EXCEPT !.status = s]]
  OBVIOUS
<1> QED
  BY <1>1, <1>2 DEF QueueInv, QueueTypeOK

LEMMA QueueTypes ==
  QueueInv => /\ \A k \in QueueJobs : entries[k] \in Entries /\ releases[k] \in Nat /\ entries[k].attempts \in Nat
              /\ \A k \in ended : k \in QueueJobs /\ entries[k].status \in EndStates
              /\ MaxClaims \in Nat \ {0} /\ EndStates \cap {"absent", "submitted", "building"} = {}
  BY QueueConstants DEF QueueInv, QueueTypeOK, Entries, EndStates

LEMMA ReportsKeep ==
  ASSUME QueueInv, NEW b \in Builders, NEW j \in QueueJobs,
         CompleteBuild(b, j) \/ FailBuild(b, j) \/ ReleaseBuild(b, j)
  PROVE  QueueInv'
<1>0. UNCHANGED <<backend, claims>> /\ queueClock' \in Nat
  BY DEF CompleteBuild, FailBuild, ReleaseBuild, Report, QueueInv, QueueTypeOK
<1>1. /\ \A k \in QueueJobs : releases[k] \in Nat /\ releases[k] <= releases[k]
      /\ \A k \in ended : k \in QueueJobs /\ entries[k].status \in EndStates
      /\ releases \in [QueueJobs -> Nat]
  BY QueueTypes DEF QueueInv, QueueTypeOK
<1>2. ASSUME NEW s \in EndStates, entries' = [entries EXCEPT ![j].status = s], ended' = ended \cup {j},
             UNCHANGED releases
      PROVE  QueueInv'
  <2>1. /\ entries' \in [QueueJobs -> Entries]
        /\ \A k \in QueueJobs :
             /\ entries'[k].attempts = entries[k].attempts
             /\ entries'[k].status = IF k = j THEN s ELSE entries[k].status
    BY <1>2, Restated
  <2>2. \A k \in ended' : k \in QueueJobs /\ entries'[k].status \in EndStates
    BY <1>1, <1>2, <2>1
  <2> QED
    BY <1>0, <1>1, <1>2, <2>1, <2>2, StatusesKeep
<1>3. CASE UNCHANGED <<entries, ended, releases>>
  BY <1>0, <1>3 DEF QueueInv, QueueTypeOK, ClaimsKept
<1>4. CASE CompleteBuild(b, j)
  <2>1. PICK s \in EndStates : \/ entries' = [entries EXCEPT ![j].status = s] /\ ended' = ended \cup {j}
                               \/ UNCHANGED <<entries, ended>>
    BY <1>4 DEF CompleteBuild, EndStates
  <2>2. UNCHANGED releases
    BY <1>4 DEF CompleteBuild
  <2> QED
    BY <1>2, <1>3, <2>1, <2>2
<1>5. CASE FailBuild(b, j)
  <2>1. entries' = [entries EXCEPT ![j].status = "failed"] /\ ended' = ended \cup {j} /\ UNCHANGED releases
    BY <1>5 DEF FailBuild
  <2> QED
    BY <1>2, <2>1 DEF EndStates
<1>6. CASE ReleaseBuild(b, j)
  <2>1. CASE Requeues(j)
    <3>1. /\ entries' = [entries EXCEPT ![j].status = "submitted"] /\ ended' = ended
          /\ releases' = [releases EXCEPT ![j] = @ + 1]
      BY <1>6, <2>1 DEF ReleaseBuild
    <3>2. /\ releases' \in [QueueJobs -> Nat] /\ releases'[j] = releases[j] + 1
          /\ \A k \in QueueJobs : releases[k] <= releases'[k]
      BY <1>1, <3>1
    <3>3. backend = "memory" => entries[j].attempts < MaxClaims + releases'[j]
      BY <3>2, QueueTypes DEF QueueInv, ClaimsKept
    <3>4. /\ entries' \in [QueueJobs -> Entries]
          /\ \A k \in QueueJobs :
               /\ entries'[k].attempts = entries[k].attempts
               /\ entries'[k].status = IF k = j THEN "submitted" ELSE entries[k].status
      BY <3>1, Restated
    <3>5. \A k \in ended' : k \in QueueJobs /\ entries'[k].status \in EndStates
      <4>1. "building" \notin EndStates
        BY DEF EndStates
      <4> QED
        BY <1>1, <2>1, <3>1, <3>4, <4>1 DEF Requeues
    <3> QED
      BY <1>0, <3>2, <3>3, <3>4, <3>5, StatusesKeep
  <2>2. CASE ~Requeues(j)
    BY <1>3, <1>6, <2>2 DEF ReleaseBuild
  <2> QED
    BY <2>1, <2>2
<1> QED
  BY <1>4, <1>5, <1>6

\* What a pass over the queue gives up on becomes a dead letter.
DeadLettered(passed) ==
  [k \in QueueJobs |-> IF k \in passed THEN [entries[k] EXCEPT !.status = "dead_letter"] ELSE entries[k]]

LEMMA DeadLetters ==
  ASSUME QueueInv, NEW passed \in SUBSET QueueJobs
  PROVE  /\ DeadLettered(passed) \in [QueueJobs -> Entries]
         /\ \A k \in QueueJobs :
              /\ DeadLettered(passed)[k].attempts = entries[k].attempts
              /\ DeadLettered(passed)[k].status = IF k \in passed THEN "dead_letter" ELSE entries[k].status
<1>1. ASSUME NEW r \in Entries
      PROVE  /\ [r EXCEPT !.status = "dead_letter"] \in Entries
             /\ [r EXCEPT !.status = "dead_letter"].attempts = r.attempts
             /\ [r EXCEPT !.status = "dead_letter"].status = "dead_letter"
  BY DEF Entries, EndStates
<1> QED
  BY <1>1, QueueTypes DEF DeadLettered

LEMMA ClaimKeeps == ASSUME QueueInv, NEW b \in Builders, ClaimBuild(b) PROVE QueueInv'
<1> DEFINE ready == {j \in QueueJobs : Claimable(j)}
           given == {k \in QueueJobs : Stranded(k) /\ Spent(k) /\ (ready = {} \/ k < Min(ready))}
<1>1. /\ ended' = ended \cup given /\ UNCHANGED <<backend, queueClock, releases>>
      /\ ready = {} => entries' = DeadLettered(given) /\ UNCHANGED claims
      /\ ready # {} =>
           /\ entries' = [DeadLettered(given) EXCEPT ![Min(ready)] =
                            [status |-> "building", attempts |-> @.attempts + 1, claimedAt |-> queueClock]]
           /\ claims' = [claims EXCEPT ![Min(ready)] = @ + 1]
  BY DEF ClaimBuild, DeadLettered
<1>2. ready # {} => Min(ready) \in ready
  BY LeastJob, QueueConstants
<1>3. \A k \in QueueJobs : Stranded(k) => entries[k].status = "building"
  BY DEF Stranded
<1>4. ready # {} => Min(ready) \notin given
  <2>1. ready # {} => Min(ready) \in Nat
    BY <1>2, QueueConstants
  <2>2. \A m \in Nat : ~(m < m)
    OBVIOUS
  <2> QED
    BY <2>1, <2>2
<1>5. PICK passed \in SUBSET QueueJobs : passed = given
  OBVIOUS
<1>6. /\ \A k \in QueueJobs : entries[k] \in Entries /\ releases[k] \in Nat /\ entries[k].attempts \in Nat
      /\ \A k \in ended : k \in QueueJobs /\ entries[k].status \in EndStates
      /\ MaxClaims \in Nat \ {0} /\ "dead_letter" \in EndStates
      /\ "submitted" \notin EndStates /\ "building" \notin EndStates
  BY QueueTypes DEF EndStates
<1>7. CASE ready = {}
  <2>1. entries' = DeadLettered(passed) /\ ended' = ended \cup passed /\ UNCHANGED <<backend, claims, releases>>
    BY <1>1, <1>5, <1>7
  <2>2. queueClock' \in Nat /\ releases' \in [QueueJobs -> Nat] /\ \A k \in QueueJobs : releases[k] <= releases'[k]
    BY <1>1, <1>6 DEF QueueInv, QueueTypeOK
  <2>3. \A k \in ended' : k \in QueueJobs /\ entries'[k].status \in EndStates
    BY <1>6, <2>1, DeadLetters
  <2>4. /\ entries' \in [QueueJobs -> Entries]
        /\ \A k \in QueueJobs :
             /\ entries'[k].attempts = entries[k].attempts
             /\ entries'[k].status = IF k \in passed THEN "dead_letter" ELSE entries[k].status
    BY <2>1, DeadLetters
  <2> QED
    BY <1>6, <2>1, <2>2, <2>3, <2>4, StatusesKeep
<1>8. CASE ready # {}
  <2>1. PICK j \in QueueJobs : j = Min(ready)
    BY <1>2, <1>8
  <2>2. Claimable(j) /\ j \notin passed
    BY <1>2, <1>4, <1>5, <1>8, <2>1
  <2> HIDE DEF ready, given
  <2>3. PICK n \in Nat : n = entries[j].attempts
    BY <1>6
  <2> DEFINE r == [status |-> "building", attempts |-> n + 1, claimedAt |-> queueClock]
  <2>4. r \in Entries /\ r.attempts = n + 1 /\ r.status = "building"
    BY DEF Entries, QueueInv, QueueTypeOK
  <2>5. DeadLettered(passed)[j].attempts = n
    BY <2>3, DeadLetters
  <2>6. entries' = [DeadLettered(passed) EXCEPT ![j] = r]
    BY <1>1, <1>5, <1>8, <2>1, <2>5
  <2> HIDE DEF r
  <2>7. /\ entries' \in [QueueJobs -> Entries]
        /\ entries'[j] = r /\ \A k \in QueueJobs : k # j => entries'[k] = DeadLettered(passed)[k]
    BY <2>4, <2>6, DeadLetters
  <2>8. claims' = [claims EXCEPT ![j] = @ + 1] /\ ended' = ended \cup passed
    BY <1>1, <1>5, <1>8, <2>1
  <2>9. claims' \in [QueueJobs -> Nat] /\ \A k \in QueueJobs : claims'[k] = IF k = j THEN claims[k] + 1 ELSE claims[k]
    BY <2>8 DEF QueueInv, QueueTypeOK
  <2>10. entries[j].status \in {"submitted", "building"} /\ j \notin ended
    BY <1>3, <1>6, <2>2 DEF Claimable
  <2>11. \A k \in ended' : k \in QueueJobs /\ entries'[k].status \in EndStates
    <3> SUFFICES ASSUME NEW k \in ended' PROVE k \in QueueJobs /\ entries'[k].status \in EndStates
      OBVIOUS
    <3>1. k \in QueueJobs /\ k # j /\ (k \in passed \/ entries[k].status \in EndStates)
      BY <1>6, <2>2, <2>8, <2>10
    <3> QED
      BY <1>6, <2>7, <3>1, DeadLetters
  <2>12. backend = "memory" => n < MaxClaims + releases[j]
    <3>1. CASE entries[j].status = "submitted"
      BY <2>3, <3>1 DEF QueueInv, ClaimsKept
    <3>2. CASE Stranded(j) /\ ~Spent(j)
      BY <1>6, <2>3, <3>2 DEF Spent
    <3> QED
      BY <2>2, <3>1, <3>2 DEF Claimable
  <2>13. ASSUME NEW k \in QueueJobs PROVE ClaimsKept(k)'
    <3>1. ClaimsKept(k) /\ UNCHANGED <<backend, releases>>
      BY <1>1 DEF QueueInv
    <3>2. CASE k = j
      BY <1>6, <2>3, <2>4, <2>7, <2>9, <2>12, <3>1, <3>2 DEF ClaimsKept
    <3>3. CASE k # j
      <4>1. /\ entries'[k].attempts = entries[k].attempts
            /\ entries'[k].status \in {"absent", "submitted"} => entries'[k].status = entries[k].status
        BY <1>6, <2>7, <3>3, DeadLetters
      <4> QED
        BY <2>9, <3>1, <3>3, <4>1 DEF ClaimsKept
    <3> QED
      BY <3>2, <3>3
  <2> QED
    BY <1>1, <2>7, <2>9, <2>11, <2>13 DEF QueueInv, QueueTypeOK
<1> QED
  BY <1>7, <1>8

LEMMA ReapKeeps == ASSUME QueueInv, ReapBuilds PROVE QueueInv'
<1> DEFINE to(k) == IF Spent(k) THEN "dead_letter" ELSE "submitted"
<1>1. ASSUME NEW k \in QueueJobs, NEW s \in {"submitted", "dead_letter"}
      PROVE  /\ [entries[k] EXCEPT !.status = s] \in Entries
             /\ [entries[k] EXCEPT !.status = s].attempts = entries[k].attempts
             /\ [entries[k] EXCEPT !.status = s].status = s
  <2>1. PICK r \in Entries : r = entries[k]
    BY QueueTypes
  <2> QED
    BY <2>1 DEF Entries, EndStates
<1>2. /\ entries' = [k \in QueueJobs |-> IF Stranded(k) THEN [entries[k] EXCEPT !.status = to(k)] ELSE entries[k]]
      /\ ended' = ended \cup {k \in QueueJobs : Stranded(k) /\ Spent(k)}
      /\ UNCHANGED <<backend, claims, releases, queueClock>>
  BY DEF ReapBuilds
<1>3. \A k \in QueueJobs : to(k) \in {"submitted", "dead_letter"} /\ (to(k) = "dead_letter" <=> Spent(k))
  OBVIOUS
<1> HIDE DEF to
<1>4. /\ entries' \in [QueueJobs -> Entries]
      /\ \A k \in QueueJobs :
           /\ entries'[k].attempts = entries[k].attempts
           /\ entries'[k].status = IF Stranded(k) THEN to(k) ELSE entries[k].status
  BY <1>1, <1>2, <1>3, QueueTypes
<1>5. /\ \A k \in QueueJobs : releases[k] \in Nat /\ releases[k] <= releases[k] /\ entries[k].attempts \in Nat
      /\ \A k \in ended : k \in QueueJobs /\ entries[k].status \in EndStates
      /\ releases \in [QueueJobs -> Nat] /\ queueClock \in Nat /\ MaxClaims \in Nat
      /\ "dead_letter" \in EndStates /\ "building" \notin EndStates
  BY QueueTypes DEF QueueInv, QueueTypeOK, EndStates
<1>6. \A k \in QueueJobs : Stranded(k) => entries[k].status = "building"
  BY DEF Stranded
<1>7. \A k \in ended' : k \in QueueJobs /\ entries'[k].status \in EndStates
  BY <1>2, <1>3, <1>4, <1>5, <1>6
<1>8. \A k \in QueueJobs : ~Spent(k) => (backend = "memory" => entries[k].attempts < MaxClaims + releases'[k])
  BY <1>2, <1>5 DEF Spent
<1>9. \A k \in QueueJobs :
        \/ entries'[k].status = entries[k].status
        \/ entries'[k].status \in EndStates \cup {"building"}
        \/ backend = "memory" => entries[k].attempts < MaxClaims + releases'[k]
  BY <1>3, <1>4, <1>5, <1>8
<1> QED
  BY <1>2, <1>4, <1>5, <1>7, <1>9, StatusesKeep

LEMMA OtherQueueStepsKeep ==
  ASSUME QueueInv,
         \/ QueueTick
         \/ \E j \in QueueJobs : EnqueueBuild(j)
         \/ \E b \in Builders : BuilderDies(b)
  PROVE  QueueInv'
<1>1. CASE QueueTick
  BY <1>1 DEF QueueTick, QueueInv, QueueTypeOK, ClaimsKept
<1>2. ASSUME NEW b \in Builders, BuilderDies(b) PROVE QueueInv'
  BY <1>2 DEF BuilderDies, QueueInv, QueueTypeOK, ClaimsKept
<1>3. ASSUME NEW j \in QueueJobs, EnqueueBuild(j) PROVE QueueInv'
  <2>1. /\ entries' = [entries EXCEPT ![j].status = "submitted"] /\ entries[j].status = "absent"
        /\ UNCHANGED <<backend, queueClock, claims, releases, ended>>
    BY <1>3 DEF EnqueueBuild
  <2>2. /\ entries' \in [QueueJobs -> Entries]
        /\ \A k \in QueueJobs :
             /\ entries'[k].attempts = entries[k].attempts
             /\ entries'[k].status = IF k = j THEN "submitted" ELSE entries[k].status
    BY <2>1, Restated
  <2>3. /\ \A k \in QueueJobs : releases[k] <= releases'[k]
        /\ releases' \in [QueueJobs -> Nat] /\ queueClock' \in Nat
    BY <2>1, QueueTypes DEF QueueInv, QueueTypeOK
  <2>4. backend = "memory" => entries[j].attempts < MaxClaims + releases'[j]
    BY <2>1 DEF QueueInv, ClaimsKept
  <2>5. j \notin ended
    BY <2>1, QueueTypes
  <2>6. \A k \in ended' : k \in QueueJobs /\ entries'[k].status \in EndStates
    BY <2>1, <2>2, <2>5, QueueTypes
  <2> QED
    BY <2>1, <2>2, <2>3, <2>4, <2>6, StatusesKeep
<1> QED
  BY <1>1, <1>2, <1>3

\* However builders die, come back late or give jobs back: in memory a job is handed
\* out at most maxAttempts times and once more per release, and one that ended is
\* never built again.
THEOREM QueueStaysBounded == MCSpec => []QueueBounded
<1>1. MCInit => QueueInv
  <2> SUFFICES ASSUME MCInit PROVE QueueInv
    OBVIOUS
  <2>1. NoEntry \in Entries /\ NoEntry.attempts = 0
    BY DEF NoEntry, Entries
  <2> QED
    BY <2>1, QueueConstants DEF MCInit, QueueInit, QueueInv, QueueTypeOK, ClaimsKept
<1>2. QueueInv /\ [MCNext]_<<part, pipelineVars, queueVars, listVars>> => QueueInv'
  <2>1. QueueInv /\ QueueNext => QueueInv'
    BY ReportsKeep, ClaimKeeps, ReapKeeps, OtherQueueStepsKeep DEF QueueNext
  <2> QED
    BY <2>1, FrameQueue DEF MCNext
<1>3. QueueInv => QueueBounded
  BY QueueTypes DEF QueueInv, ClaimsKept, QueueBounded
<1> QED
  BY <1>1, <1>2, <1>3, PTL DEF MCSpec
-----------------------------------------------------------------------------
(***************************************************************************)
(* Listing: a finite set in a strict order, as a list.                     *)
(***************************************************************************)
StrictOrder(S, R) ==
  /\ \A i \in S : i \notin R[i]
  /\ \A i, j, k \in S : i \in R[j] /\ j \in R[k] => i \in R[k]
  /\ \A i, j \in S : i # j => i \in R[j] \/ j \in R[i]

Ahead(S, R, i) == S \cap R[i]

\* The list has every element of the set, each after those before it.
Sorting(s, K, S, R) ==
  /\ s \in [1..K -> S]
  /\ \A n, m \in 1..K : n < m => s[n] \in R[s[m]]
  /\ \A i \in S : \E n \in 1..K : s[n] = i

\* An element has as many before it as its place says.
LEMMA PlaceIs ==
  ASSUME NEW S, NEW R, StrictOrder(S, R), NEW K \in Nat, NEW s, Sorting(s, K, S, R), NEW n \in 1..K
  PROVE  IsFiniteSet(Ahead(S, R, s[n])) /\ Cardinality(Ahead(S, R, s[n])) = n - 1
<1> DEFINE A == Ahead(S, R, s[n])
           f == [m \in 1..(n - 1) |-> s[m]]
<1>1. n - 1 \in Nat /\ \A m \in 1..(n - 1) : m \in 1..K /\ m < n
  OBVIOUS
<1>2. \A m \in 1..(n - 1) : s[m] \in A
  BY <1>1 DEF Sorting, Ahead
<1>3. \A a, b \in 1..K : s[a] = s[b] => a = b
  <2> SUFFICES ASSUME NEW a \in 1..K, NEW b \in 1..K, s[a] = s[b], a # b PROVE FALSE
    OBVIOUS
  <2>1. a < b \/ b < a
    OBVIOUS
  <2>2. s[a] \in S
    BY DEF Sorting
  <2> QED
    BY <2>1, <2>2 DEF Sorting, StrictOrder
<1>4. \A i \in A : \E m \in 1..(n - 1) : s[m] = i
  <2> SUFFICES ASSUME NEW i \in S, i \in R[s[n]] PROVE \E m \in 1..(n - 1) : s[m] = i
    BY DEF Ahead
  <2>1. PICK m \in 1..K : s[m] = i
    BY DEF Sorting
  <2>2. s[n] \in S
    BY DEF Sorting
  <2>3. m # n
    BY <2>1, <2>2 DEF StrictOrder
  <2>4. ~(n < m)
    BY <2>1, <2>2 DEF Sorting, StrictOrder
  <2>5. m \in 1..(n - 1)
    BY <2>3, <2>4
  <2> QED
    BY <2>1, <2>5
<1>5. f \in Bijection(1..(n - 1), A)
  <2> HIDE DEF A
  <2>1. f \in [1..(n - 1) -> A]
    BY <1>2
  <2>2. \A a, b \in 1..(n - 1) : f[a] = f[b] => a = b
    BY <1>1, <1>3
  <2>3. \A i \in A : \E m \in 1..(n - 1) : f[m] = i
    BY <1>4
  <2> HIDE DEF f
  <2> QED
    BY <2>1, <2>2, <2>3, Fun_IsBij
<1>6. IsFiniteSet(1..(n - 1)) /\ Cardinality(1..(n - 1)) = n - 1
  BY <1>1, FS_Interval
<1>7. ExistsBijection(1..(n - 1), A)
  BY <1>5 DEF ExistsBijection
<1> QED
  BY <1>6, <1>7, FS_Bijection

LEMMA OrderedSorts ==
  ASSUME NEW S, NEW R, IsFiniteSet(S), StrictOrder(S, R)
  PROVE  Sorting(Ordered(S, R), Cardinality(S), S, R)
<1> DEFINE rank == [i \in S |-> Cardinality(Ahead(S, R, i))]
<1>1. PICK N \in Nat : N = Cardinality(S)
  BY FS_CardinalityType
<1>2. \A i \in S : IsFiniteSet(Ahead(S, R, i)) /\ rank[i] \in Nat
  <2>1. \A i \in S : Ahead(S, R, i) \in SUBSET S
    BY DEF Ahead
  <2>2. \A i \in S : IsFiniteSet(Ahead(S, R, i))
    BY <2>1, FS_Subset
  <2> QED
    BY <2>2, FS_CardinalityType
<1>3. \A i \in S : rank[i] \in 0..(N - 1)
  <2> SUFFICES ASSUME NEW i \in S PROVE rank[i] \in 0..(N - 1)
    OBVIOUS
  <2>1. Ahead(S, R, i) \in SUBSET (S \ {i})
    BY DEF Ahead, StrictOrder
  <2>2. IsFiniteSet(S \ {i}) /\ Cardinality(S \ {i}) = N - 1
    BY <1>1, FS_RemoveElement
  <2>3. Cardinality(Ahead(S, R, i)) <= N - 1
    BY <2>1, <2>2, FS_Subset
  <2> QED
    BY <1>2, <2>3
<1>4. \A i, j \in S : i \in R[j] => rank[i] < rank[j]
  <2> SUFFICES ASSUME NEW i \in S, NEW j \in S, i \in R[j] PROVE rank[i] < rank[j]
    OBVIOUS
  <2>1. Ahead(S, R, i) \cup {i} \in SUBSET Ahead(S, R, j)
    BY DEF Ahead, StrictOrder
  <2>2. i \notin Ahead(S, R, i)
    BY DEF Ahead, StrictOrder
  <2>3. Cardinality(Ahead(S, R, i) \cup {i}) = rank[i] + 1
    BY <1>2, <2>2, FS_AddElement
  <2>4. Cardinality(Ahead(S, R, i) \cup {i}) <= rank[j]
    BY <1>2, <2>1, FS_Subset
  <2> QED
    BY <1>2, <2>3, <2>4
<1>5. \A i, j \in S : rank[i] = rank[j] => i = j
  <2> SUFFICES ASSUME NEW i \in S, NEW j \in S, rank[i] = rank[j], i # j PROVE FALSE
    OBVIOUS
  <2>1. rank[i] < rank[j] \/ rank[j] < rank[i]
    BY <1>4 DEF StrictOrder
  <2> HIDE DEF rank
  <2> QED
    BY <1>2, <2>1
<1>6. \A n \in 1..N : \E i \in S : rank[i] = n - 1
  <2>1. rank \in Injection(S, 0..(N - 1))
    <3>1. rank \in [S -> 0..(N - 1)]
      BY <1>3
    <3> HIDE DEF rank
    <3> QED
      BY <1>5, <3>1, Fun_IsInj
  <2>2. IsFiniteSet(0..(N - 1)) /\ Cardinality(0..(N - 1)) = N
    BY FS_Interval
  <2>3. rank \in Surjection(S, 0..(N - 1))
    <3> HIDE DEF rank
    <3> QED
      BY <1>1, <2>1, <2>2, FS_Injection
  <2>4. \A n \in 1..N : n - 1 \in 0..(N - 1)
    OBVIOUS
  <2> HIDE DEF rank
  <2> QED
    BY <2>3, <2>4 DEF Surjection
<1>7. PICK o : o = Ordered(S, R)
  OBVIOUS
<1>8. ASSUME NEW n \in 1..N PROVE o[n] \in S /\ rank[o[n]] = n - 1
  <2>1. \E i \in S : Cardinality(S \cap R[i]) = n - 1
    BY <1>6 DEF Ahead
  <2>2. o[n] = CHOOSE i \in S : Cardinality(S \cap R[i]) = n - 1
    BY <1>1, <1>7 DEF Ordered
  <2>3. o[n] \in S /\ Cardinality(S \cap R[o[n]]) = n - 1
    BY <2>1, <2>2, Zenon
  <2> QED
    BY <2>3 DEF Ahead
<1>9. o \in [1..N -> S]
  <2>1. ASSUME NEW n \in 1..N PROVE (CHOOSE i \in S : Cardinality(S \cap R[i]) = n - 1) \in S
    <3>1. \E i \in S : Cardinality(S \cap R[i]) = n - 1
      BY <1>6 DEF Ahead
    <3> QED
      BY <3>1, Zenon
  <2>2. [n \in 1..N |-> CHOOSE i \in S : Cardinality(S \cap R[i]) = n - 1] \in [1..N -> S]
    BY <2>1
  <2> QED
    BY <1>1, <1>7, <2>2 DEF Ordered
<1>10. ASSUME NEW n \in 1..N, NEW m \in 1..N, n < m PROVE o[n] \in R[o[m]]
  <2>1. o[n] \in S /\ o[m] \in S /\ rank[o[n]] = n - 1 /\ rank[o[m]] = m - 1
    BY <1>8
  <2> HIDE DEF rank
  <2>2. rank[o[n]] < rank[o[m]]
    BY <1>10, <2>1
  <2>3. o[n] # o[m] /\ ~(rank[o[m]] < rank[o[n]])
    BY <2>1, <2>2
  <2> QED
    BY <1>4, <2>1, <2>3 DEF StrictOrder
<1>11. ASSUME NEW i \in S PROVE \E n \in 1..N : o[n] = i
  <2> HIDE DEF rank
  <2>1. rank[i] + 1 \in 1..N /\ (rank[i] + 1) - 1 = rank[i]
    BY <1>3
  <2>2. o[rank[i] + 1] \in S /\ rank[o[rank[i] + 1]] = rank[i]
    BY <1>8, <2>1
  <2> QED
    BY <1>5, <2>1, <2>2
<1>12. Sorting(o, N, S, R)
  BY <1>9, <1>10, <1>11 DEF Sorting
<1> QED
  BY <1>1, <1>7, <1>12

\* There is one list in the order.
LEMMA SortingIsOrdered ==
  ASSUME NEW S, NEW R, StrictOrder(S, R), NEW K \in Nat, NEW s, Sorting(s, K, S, R)
  PROVE  IsFiniteSet(S) /\ K = Cardinality(S) /\ s = Ordered(S, R)
<1>1. \A n \in 1..K : s[n] \in S /\ Cardinality(Ahead(S, R, s[n])) = n - 1
  <2> SUFFICES ASSUME NEW n \in 1..K PROVE s[n] \in S /\ Cardinality(Ahead(S, R, s[n])) = n - 1
    OBVIOUS
  <2>1. Cardinality(Ahead(S, R, s[n])) = n - 1
    BY PlaceIs
  <2> QED
    BY <2>1 DEF Sorting
<1>2. \A a, b \in 1..K : s[a] = s[b] => a = b
  <2>1. \A a, b \in 1..K : a - 1 = b - 1 => a = b
    OBVIOUS
  <2> QED
    BY <1>1, <2>1
<1>3. ExistsBijection(1..K, S)
  <2>1. s \in Bijection(1..K, S)
    BY <1>2, Fun_IsBij DEF Sorting
  <2> QED
    BY <2>1 DEF ExistsBijection
<1>4. IsFiniteSet(S) /\ Cardinality(S) = K
  BY <1>3, FS_Interval, FS_Bijection
<1>5. PICK o : o = Ordered(S, R)
  OBVIOUS
<1>6. Sorting(o, K, S, R)
  BY <1>4, <1>5, OrderedSorts
<1>7. \A n \in 1..K : o[n] \in S /\ Cardinality(Ahead(S, R, o[n])) = n - 1
  <2> SUFFICES ASSUME NEW n \in 1..K PROVE o[n] \in S /\ Cardinality(Ahead(S, R, o[n])) = n - 1
    OBVIOUS
  <2>1. Cardinality(Ahead(S, R, o[n])) = n - 1
    BY <1>6, PlaceIs
  <2> QED
    BY <1>6, <2>1 DEF Sorting
<1>8. ASSUME NEW n \in 1..K PROVE o[n] = s[n]
  <2>1. PICK m \in 1..K : s[m] = o[n]
    BY <1>7 DEF Sorting
  <2>2. m - 1 = n - 1
    BY <1>1, <1>7, <2>1
  <2> QED
    BY <2>1, <2>2
<1>9. s = o
  BY <1>6, <1>8 DEF Sorting
<1> QED
  BY <1>4, <1>5, <1>9

\* A filter keeps the order.
LEMMA EntriesOrdered ==
  ASSUME NEW S, NEW R, IsFiniteSet(S), StrictOrder(S, R), NEW T \in SUBSET S
  PROVE  EntriesAt(Ordered(S, R), {n \in 1..Cardinality(S) : Ordered(S, R)[n] \in T}) = Ordered(T, R)
<1>0. PICK N \in Nat : N = Cardinality(S)
  BY FS_CardinalityType
<1>1. PICK s : N = Cardinality(S) /\ s = Ordered(S, R)
  BY <1>0
<1>2. Sorting(s, N, S, R)
  BY <1>1, OrderedSorts
<1>3. PICK at : at = {n \in 1..N : s[n] \in T}
  OBVIOUS
<1>4. at \subseteq 1..N /\ IsFiniteSet(at)
  BY <1>3, FS_Interval, FS_Subset
<1>5. PICK L : L = [i \in at |-> {j \in at : j < i}]
  OBVIOUS
<1>6. \A i, j \in at : i \in L[j] <=> i < j
  BY <1>5
<1>7. StrictOrder(at, L)
  <2>1. \A i \in at : i \in Nat
    BY <1>4
  <2>2. \A i \in at : i \notin L[i]
    BY <1>6, <2>1
  <2>3. \A i, j, k \in at : i < j /\ j < k => i < k
    BY <2>1
  <2>4. \A i, j \in at : i # j => i < j \/ j < i
    BY <2>1
  <2> QED
    BY <1>6, <2>2, <2>3, <2>4 DEF StrictOrder
<1>7a. PICK K \in Nat : K = Cardinality(at)
  BY <1>4, FS_CardinalityType
<1>8. PICK p : K = Cardinality(at) /\ p = Ordered(at, L)
  BY <1>7a
<1>9. Sorting(p, K, at, L)
  BY <1>4, <1>7, <1>8, OrderedSorts
<1>10. PICK g : g = [n \in 1..K |-> s[p[n]]]
  OBVIOUS
<1>11. \A n \in 1..K : p[n] \in at /\ p[n] \in 1..N /\ s[p[n]] \in T
  BY <1>3, <1>9 DEF Sorting
<1>12. Sorting(g, K, T, R)
  <2>1. g \in [1..K -> T]
    BY <1>10, <1>11
  <2>2. ASSUME NEW n \in 1..K, NEW m \in 1..K, n < m PROVE g[n] \in R[g[m]]
    <3>1. p[n] < p[m]
      BY <1>6, <1>9, <1>11, <2>2 DEF Sorting
    <3>2. s[p[n]] \in R[s[p[m]]]
      BY <1>2, <1>11, <3>1 DEF Sorting
    <3> QED
      BY <1>10, <3>2
  <2>3. ASSUME NEW i \in T PROVE \E n \in 1..K : g[n] = i
    <3>1. PICK a \in 1..N : s[a] = i
      BY <1>2 DEF Sorting
    <3>2. a \in at
      BY <1>3, <3>1
    <3>3. PICK n \in 1..K : p[n] = a
      BY <1>9, <3>2 DEF Sorting
    <3> QED
      BY <1>10, <3>1, <3>3
  <2> QED
    BY <2>1, <2>2, <2>3 DEF Sorting
<1>13. StrictOrder(T, R)
  BY DEF StrictOrder
<1>14. g = Ordered(T, R)
  BY <1>12, <1>13, SortingIsOrdered
<1>15. EntriesAt(s, at) = g
  BY <1>5, <1>8, <1>10 DEF EntriesAt
<1> QED
  BY <1>1, <1>3, <1>14, <1>15

-----------------------------------------------------------------------------
(***************************************************************************)
(* Listing: a page, and the walk from page to page.                        *)
(***************************************************************************)
RowsTyped ==
  /\ IsFiniteSet(DOMAIN rows) /\ DOMAIN rows \subseteq Int
  /\ rows \in [DOMAIN rows -> [at : Nat, status : Statuses, actor : Actors]]

\* The rows still to be listed.
Rest(q, c) == {i \in Keeps(q) : Beyond(i, c)}

LEMMA RowsOrdered ==
  ASSUME RowsTyped, NEW S \in SUBSET DOMAIN rows
  PROVE  IsFiniteSet(S) /\ StrictOrder(S, Newer)
<1>1. IsFiniteSet(S)
  BY FS_Subset DEF RowsTyped
<1>2. \A i \in S : i \in Int /\ rows[i].at \in Nat
  BY DEF RowsTyped
<1> DEFINE age == [i \in S |-> rows[i].at]
<1>4. \A i \in S : i \in Int /\ age[i] \in Nat
  BY <1>2
<1>5. \A i, j \in S : j \in Newer[i] <=> age[j] > age[i] \/ (age[j] = age[i] /\ j > i)
  BY DEF Newer
<1> HIDE DEF age
<1>6. \A i \in S : i \notin Newer[i]
  BY <1>4, <1>5
<1>7. \A i, j, k \in S : i \in Newer[j] /\ j \in Newer[k] => i \in Newer[k]
  BY <1>4, <1>5
<1>8. \A i, j \in S : i # j => i \in Newer[j] \/ j \in Newer[i]
  BY <1>4, <1>5
<1> QED
  BY <1>1, <1>6, <1>7, <1>8 DEF StrictOrder

LEMMA TakeIs ==
  ASSUME NEW S, NEW list \in Seq(S), NEW n \in Nat
  PROVE  Take(list, n) = [m \in 1..(IF Len(list) > n THEN n ELSE Len(list)) |-> list[m]]
BY DEF Take

\* A page is the first rows of the rest.
PageOf(q, c, list, K) ==
  /\ K \in Nat /\ Sorting(list, K, Rest(q, c), Newer)
  /\ Page(q, c).page = [m \in 1..(IF K > q.limit THEN q.limit ELSE K) |-> list[m]]
  /\ Page(q, c).hasMore <=> K > q.limit

\* Both repositories give the first rows of the rest.
LEMMA PagesAgree ==
  ASSUME RowsTyped, NEW q, NEW c, q.limit \in Nat
  PROVE  /\ MemoryPage(q, c) = PgPage(q, c)
         /\ \E list, K : PageOf(q, c, list, K)
<1>1. PICK S, T, limit : S = Keeps(q) /\ T = Rest(q, c) /\ limit = q.limit
  OBVIOUS
<1>2. S \in SUBSET DOMAIN rows /\ T \in SUBSET S /\ T \in SUBSET DOMAIN rows /\ limit \in Nat
  BY <1>1 DEF Keeps, Rest
<1>3. IsFiniteSet(S) /\ StrictOrder(S, Newer) /\ IsFiniteSet(T) /\ StrictOrder(T, Newer)
  BY <1>2, RowsOrdered
<1>3a. PICK N, K \in Nat : N = Cardinality(S) /\ K = Cardinality(T)
  BY <1>3, FS_CardinalityType
<1>4. PICK sorted, list : /\ N = Cardinality(S) /\ K = Cardinality(T)
                          /\ sorted = Ordered(S, Newer) /\ list = Ordered(T, Newer)
  BY <1>3a
<1>5. Sorting(sorted, N, S, Newer) /\ Sorting(list, K, T, Newer)
  BY <1>3, <1>4, OrderedSorts
<1>6. list \in Seq(T) /\ Len(list) = K
  BY <1>5 DEF Sorting
<1>7. PICK first : first = [m \in 1..(IF K > limit THEN limit ELSE K) |-> list[m]]
  OBVIOUS
<1>8. Take(list, limit) = first
  BY <1>2, <1>6, <1>7, TakeIs
<1>9. EntriesAt(sorted, {n \in DOMAIN sorted : Beyond(sorted[n], c)}) = list
  <2>1. DOMAIN sorted = 1..N /\ \A n \in 1..N : sorted[n] \in S
    BY <1>5 DEF Sorting
  <2>2. {n \in DOMAIN sorted : Beyond(sorted[n], c)} = {n \in 1..N : sorted[n] \in T}
    BY <1>1, <2>1 DEF Rest
  <2>3. EntriesAt(sorted, {n \in 1..N : sorted[n] \in T}) = list
    BY <1>2, <1>3, <1>4, EntriesOrdered
  <2> QED
    BY <2>2, <2>3
<1>10. MemoryPage(q, c) = [page |-> first, hasMore |-> K > limit]
  BY <1>1, <1>4, <1>6, <1>8, <1>9 DEF MemoryPage
<1>11. PICK oneMore : oneMore = Take(list, limit + 1)
  OBVIOUS
<1>12. PICK F \in Nat : F = IF K > limit + 1 THEN limit + 1 ELSE K
  BY <1>2
<1>13. oneMore = [m \in 1..F |-> list[m]]
  <2>1. PICK more \in Nat : more = limit + 1
    BY <1>2
  <2>2. Take(list, more) = [m \in 1..(IF Len(list) > more THEN more ELSE Len(list)) |-> list[m]]
    BY <1>6, <2>1, TakeIs
  <2>3. (IF Len(list) > more THEN more ELSE Len(list)) = F
    BY <1>6, <1>12, <2>1
  <2> QED
    BY <1>11, <2>1, <2>2, <2>3
<1>14. oneMore \in Seq(T) /\ Len(oneMore) = F
  <2>1. \A m \in 1..F : m \in 1..K
    BY <1>2, <1>12
  <2>2. \A m \in 1..F : list[m] \in T
    BY <1>5, <2>1 DEF Sorting
  <2>3. oneMore \in [1..F -> T]
    BY <1>13, <2>2
  <2> QED
    BY <2>3
<1>15. Take(oneMore, limit) = first /\ (Len(oneMore) > limit <=> K > limit)
  <2>1. (F > limit <=> K > limit) /\ (F <= limit => F = K)
    BY <1>2, <1>12
  <2>2. PICK E \in Nat : E = IF F > limit THEN limit ELSE F
    BY <1>2
  <2>3. E = (IF K > limit THEN limit ELSE K) /\ \A m \in 1..E : m \in 1..F
    BY <1>2, <2>1, <2>2
  <2>4. Take(oneMore, limit) = [m \in 1..E |-> oneMore[m]]
    BY <1>2, <1>14, <2>2, TakeIs
  <2>5. \A m \in 1..E : oneMore[m] = list[m]
    BY <1>13, <2>3
  <2>6. first = [m \in 1..E |-> list[m]]
    BY <1>7, <2>3
  <2> QED
    BY <1>14, <2>1, <2>4, <2>5, <2>6
<1>16. PgPage(q, c) = [page |-> first, hasMore |-> K > limit]
  <2>1. {i \in Keeps(q) : Beyond(i, c)} = T
    BY <1>1 DEF Rest
  <2>2. PgPage(q, c) = [page |-> Take(oneMore, limit), hasMore |-> Len(oneMore) > limit]
    BY <1>1, <1>4, <1>11, <2>1 DEF PgPage
  <2>3. (Len(oneMore) > limit) = (K > limit)
    BY <1>15
  <2> QED
    BY <1>15, <2>2, <2>3
<1>17. PICK more, pg : more = (K > limit) /\ pg = [page |-> first, hasMore |-> more]
  OBVIOUS
<1>18. pg = Page(q, c) /\ pg.page = first /\ (pg.hasMore <=> K > limit)
  <2>1. pg.page = first /\ pg.hasMore = more
    BY <1>17
  <2>2. pg = Page(q, c)
    BY <1>10, <1>16, <1>17 DEF Page
  <2> QED
    BY <1>17, <2>1, <2>2
<1>19. Sorting(list, K, Rest(q, c), Newer)
  BY <1>1, <1>5
<1>20. Page(q, c).page = [m \in 1..(IF K > q.limit THEN q.limit ELSE K) |-> list[m]] /\ (Page(q, c).hasMore <=> K > q.limit)
  BY <1>1, <1>7, <1>18
<1>21. MemoryPage(q, c) = PgPage(q, c)
  BY <1>10, <1>16
<1>22. PageOf(q, c, list, K)
  BY <1>4, <1>19, <1>20 DEF PageOf
<1> QED
  BY <1>21, <1>22

Distinct(s) == \A a, b \in DOMAIN s : s[a] = s[b] => a = b

LEMMA DistinctCounted ==
  ASSUME NEW S, NEW s \in Seq(S), Distinct(s)
  PROVE  Cardinality(ToSet(s)) = Len(s)
<1>1. PICK N \in Nat : N = Len(s)
  OBVIOUS
<1>2. s \in [1..N -> ToSet(s)] /\ \A i \in ToSet(s) : \E n \in 1..N : s[n] = i
  BY <1>1 DEF ToSet
<1>3. s \in Bijection(1..N, ToSet(s))
  <2>1. \A a, b \in 1..N : s[a] = s[b] => a = b
    BY <1>1 DEF Distinct
  <2> QED
    BY <1>2, <2>1, Fun_IsBij
<1>4. ExistsBijection(1..N, ToSet(s))
  BY <1>3 DEF ExistsBijection
<1>5. IsFiniteSet(1..N) /\ Cardinality(1..N) = N
  BY FS_Interval
<1> QED
  BY <1>1, <1>4, <1>5, FS_Bijection

LEMMA DistinctJoined ==
  ASSUME NEW S, NEW s \in Seq(S), NEW t \in Seq(S), Distinct(s), Distinct(t), ToSet(s) \cap ToSet(t) = {}
  PROVE  s \o t \in Seq(S) /\ Distinct(s \o t) /\ ToSet(s \o t) = ToSet(s) \cup ToSet(t)
<1>1. PICK M, N \in Nat : M = Len(s) /\ N = Len(t)
  OBVIOUS
<1>2. PICK j : j = s \o t
  OBVIOUS
<1>3. /\ j \in Seq(S) /\ DOMAIN j = 1..(M + N)
      /\ \A a \in 1..M : j[a] = s[a]
      /\ \A a \in 1..(M + N) : a > M => j[a] = t[a - M] /\ a - M \in 1..N
  BY <1>1, <1>2
<1>4. /\ \A a \in 1..M : s[a] \in ToSet(s)
      /\ \A a \in 1..N : t[a] \in ToSet(t)
      /\ \A i \in ToSet(s) : \E a \in 1..M : s[a] = i
      /\ \A i \in ToSet(t) : \E a \in 1..N : t[a] = i
  BY <1>1 DEF ToSet
<1>5. ASSUME NEW a \in 1..(M + N), NEW b \in 1..(M + N), j[a] = j[b] PROVE a = b
  <2>a. (\A x, y \in 1..M : s[x] = s[y] => x = y) /\ (\A x, y \in 1..N : t[x] = t[y] => x = y)
    <3>1. DOMAIN s = 1..M /\ DOMAIN t = 1..N
      BY <1>1
    <3> QED
      BY <3>1, Zenon DEF Distinct
  <2>1. CASE a <= M /\ b <= M
    <3>1. a \in 1..M /\ b \in 1..M
      BY <2>1
    <3>2. s[a] = s[b]
      BY <1>3, <1>5, <3>1
    <3> QED
      BY <2>a, <3>1, <3>2
  <2>2. CASE a > M /\ b > M
    <3>1. a - M = b - M
      <4>1. t[a - M] = t[b - M] /\ a - M \in 1..N /\ b - M \in 1..N
        BY <1>3, <1>5, <2>2
      <4> QED
        BY <2>a, <4>1
    <3> QED
      BY <3>1
  <2>3. CASE a <= M /\ b > M
    <3>1. a \in 1..M /\ s[a] = t[b - M] /\ b - M \in 1..N
      BY <1>3, <1>5, <2>3
    <3>2. s[a] \in ToSet(s) /\ t[b - M] \in ToSet(t)
      BY <1>4, <3>1
    <3> QED
      BY <3>1, <3>2
  <2>4. CASE a > M /\ b <= M
    <3>1. b \in 1..M /\ s[b] = t[a - M] /\ a - M \in 1..N
      BY <1>3, <1>5, <2>4
    <3>2. s[b] \in ToSet(s) /\ t[a - M] \in ToSet(t)
      BY <1>4, <3>1
    <3> QED
      BY <3>1, <3>2
  <2> QED
    BY <2>1, <2>2, <2>3, <2>4
<1>6. ToSet(j) = {j[a] : a \in 1..(M + N)}
  BY <1>3 DEF ToSet
<1>7. ASSUME NEW i \in ToSet(j) PROVE i \in ToSet(s) \cup ToSet(t)
  <2>1. PICK a \in 1..(M + N) : i = j[a]
    BY <1>6, <1>7
  <2>2. CASE a <= M
    BY <1>3, <1>4, <2>1, <2>2
  <2>3. CASE a > M
    BY <1>3, <1>4, <2>1, <2>3
  <2> QED
    BY <2>2, <2>3
<1>8. ASSUME NEW i \in ToSet(s) PROVE i \in ToSet(j)
  <2>1. PICK a \in 1..M : s[a] = i
    BY <1>4
  <2> QED
    BY <1>3, <1>6, <2>1
<1>9. ASSUME NEW i \in ToSet(t) PROVE i \in ToSet(j)
  <2>1. PICK a \in 1..N : t[a] = i
    BY <1>4
  <2>2. M + a \in 1..(M + N) /\ M + a > M /\ (M + a) - M = a
    OBVIOUS
  <2>3. j[M + a] = i
    BY <1>3, <2>1, <2>2
  <2> QED
    BY <1>6, <2>2, <2>3
<1>10. Distinct(j)
  BY <1>3, <1>5 DEF Distinct
<1>11. ToSet(j) = ToSet(s) \cup ToSet(t)
  BY <1>7, <1>8, <1>9
<1> QED
  BY <1>2, <1>3, <1>10, <1>11

\* Where a walk is: what it was given lies behind the cursor, what it still has to be given beyond it.
Walk(q, c, seen, st) ==
  /\ \/ c = NoCursor /\ seen = <<>>
     \/ c # NoCursor /\ c.at \in Nat /\ c.id \in Int /\ \A i \in ToSet(seen) : ~Beyond(i, c)
  /\ \A i \in st \cap Keeps(q) : i \in ToSet(seen) \/ Beyond(i, c)

LEMMA AnswerWalks ==
  ASSUME RowsTyped, NEW q, NEW c, NEW seen, NEW st, q.limit \in Nat \ {0},
         seen \in Seq(DOMAIN rows), Distinct(seen), Walk(q, c, seen, st), Answer(q, c, seen)
  PROVE  /\ pages' \in Seq(DOMAIN rows) /\ Distinct(pages')
         /\ \/ query' = q /\ cursor' # NoCursor /\ Walk(q, cursor', pages', st)
            \/ query' = [q EXCEPT !.limit = 0] /\ cursor' = NoCursor /\ st \cap Keeps(q) \subseteq ToSet(pages')
<1>1. PICK n \in Nat \ {0} : n = q.limit
  OBVIOUS
<1>2. PICK list, K : PageOf(q, c, list, K)
  BY PagesAgree
<1>3. K \in Nat /\ Sorting(list, K, Rest(q, c), Newer) /\ (Page(q, c).hasMore <=> K > n)
  BY <1>1, <1>2 DEF PageOf
<1>4. PICK F \in Nat : F = IF K > n THEN n ELSE K
  BY <1>3
<1>5. PICK pg : pg = [m \in 1..F |-> list[m]]
  OBVIOUS
<1>6. Page(q, c).page = pg
  BY <1>1, <1>2, <1>4, <1>5 DEF PageOf
<1>7. \A m \in 1..K : list[m] \in Keeps(q) /\ list[m] \in DOMAIN rows /\ Beyond(list[m], c)
  BY <1>3 DEF Sorting, Rest, Keeps
<1>8. \A m \in 1..F : m \in 1..K
  BY <1>3, <1>4
<1>9. pg \in Seq(DOMAIN rows) /\ Len(pg) = F /\ DOMAIN pg = 1..F
  <2>1. pg \in [1..F -> DOMAIN rows]
    BY <1>5, <1>7, <1>8
  <2> QED
    BY <2>1
<1>10. Rest(q, c) \in SUBSET DOMAIN rows
  BY DEF Rest, Keeps
<1>11. Distinct(pg)
  <2>1. StrictOrder(Rest(q, c), Newer)
    BY <1>10, RowsOrdered
  <2> SUFFICES ASSUME NEW a \in 1..F, NEW b \in 1..F, pg[a] = pg[b], a # b PROVE FALSE
    BY <1>9 DEF Distinct
  <2>2. a \in 1..K /\ b \in 1..K /\ list[a] = list[b]
    BY <1>5, <1>8
  <2>3. a < b \/ b < a
    OBVIOUS
  <2>4. list[a] \in Newer[list[b]]
    BY <1>3, <2>2, <2>3 DEF Sorting
  <2>5. list[a] \in Rest(q, c)
    BY <1>3, <2>2 DEF Sorting
  <2> QED
    BY <2>1, <2>2, <2>4, <2>5 DEF StrictOrder
<1>12. ToSet(seen) \cap ToSet(pg) = {}
  <2>1. \A i \in ToSet(pg) : Beyond(i, c)
    BY <1>5, <1>7, <1>8, <1>9 DEF ToSet
  <2>2. CASE c = NoCursor /\ seen = <<>>
    BY <2>2 DEF ToSet
  <2>3. CASE \A i \in ToSet(seen) : ~Beyond(i, c)
    BY <2>1, <2>3
  <2> QED
    BY <2>2, <2>3 DEF Walk
<1>13. /\ pages' = seen \o pg
       /\ \/ /\ K > n /\ query' = q
             /\ cursor' = [at |-> rows[Last(pg)].at, id |-> Last(pg)]
          \/ ~(K > n) /\ query' = [q EXCEPT !.limit = 0] /\ cursor' = NoCursor
  <2>1. PICK got : got = Page(q, c)
    OBVIOUS
  <2>2. /\ pages' = seen \o got.page
        /\ cursor' = IF got.hasMore THEN [at |-> rows[Last(got.page)].at, id |-> Last(got.page)] ELSE NoCursor
        /\ query' = IF got.hasMore THEN q ELSE [q EXCEPT !.limit = 0]
    BY <2>1 DEF Answer
  <2>3. got.page = pg /\ (got.hasMore <=> K > n)
    BY <1>3, <1>6, <2>1
  <2>4. CASE got.hasMore
    BY <2>2, <2>3, <2>4
  <2>5. CASE ~got.hasMore
    BY <2>2, <2>3, <2>5
  <2> QED
    BY <2>4, <2>5
<1>14. pages' \in Seq(DOMAIN rows) /\ Distinct(pages') /\ ToSet(pages') = ToSet(seen) \cup ToSet(pg)
  <2>1. /\ seen \o pg \in Seq(DOMAIN rows) /\ Distinct(seen \o pg)
        /\ ToSet(seen \o pg) = ToSet(seen) \cup ToSet(pg)
    BY <1>9, <1>11, <1>12, DistinctJoined
  <2> QED
    BY <1>13, <2>1
<1>15. \A i \in st \cap Keeps(q) : i \in ToSet(seen) \/ \E m \in 1..K : list[m] = i
  <2> SUFFICES ASSUME NEW i \in st \cap Keeps(q), i \notin ToSet(seen) PROVE \E m \in 1..K : list[m] = i
    OBVIOUS
  <2>1. i \in Rest(q, c)
    BY DEF Walk, Rest
  <2> QED
    BY <1>3, <2>1 DEF Sorting
<1>16. \A m \in 1..F : list[m] \in ToSet(pg)
  BY <1>5, <1>9 DEF ToSet
<1>17. CASE ~(K > n) /\ query' = [q EXCEPT !.limit = 0] /\ cursor' = NoCursor
  <2>1. F = K
    BY <1>4, <1>17
  <2>2. st \cap Keeps(q) \subseteq ToSet(pages')
    BY <1>14, <1>15, <1>16, <2>1
  <2> QED
    BY <1>14, <1>17, <2>2
<1>18. CASE K > n /\ query' = q /\ cursor' = [at |-> rows[Last(pg)].at, id |-> Last(pg)]
  <2>1. F = n /\ n \in 1..K
    BY <1>3, <1>4, <1>18
  <2>2. PICK l : l = list[n]
    OBVIOUS
  <2>3. Last(pg) = l /\ l \in DOMAIN rows /\ Beyond(l, c)
    BY <1>5, <1>7, <1>9, <2>1, <2>2 DEF Last
  <2>4. l \in Int /\ rows[l].at \in Nat
    BY <2>3 DEF RowsTyped
  <2>5. PICK t \in Nat : t = rows[l].at
    BY <2>4
  <2>6. PICK d : d = [at |-> t, id |-> l]
    OBVIOUS
  <2>7. d.at = t /\ d.id = l /\ cursor' = d
    BY <1>18, <2>3, <2>5, <2>6
  <2>8. d # NoCursor
    <3>1. NoCursor.at = -1
      BY DEF NoCursor
    <3> QED
      BY <2>7, <3>1
  <2>10. \A i : Beyond(i, d) <=> rows[i].at < t \/ (rows[i].at = t /\ i < l)
    BY <2>7, <2>8 DEF Beyond
  <2>11. ASSUME NEW i \in ToSet(pg) PROVE ~Beyond(i, d)
    <3>1. PICK m \in 1..F : list[m] = i
      BY <1>5, <1>9 DEF ToSet
    <3>2. m \in 1..K /\ i \in DOMAIN rows
      BY <1>7, <1>8, <3>1
    <3>3. i \in Int /\ rows[i].at \in Nat
      BY <3>2 DEF RowsTyped
    <3>4. CASE m = n
      BY <2>2, <2>4, <2>5, <2>10, <3>1, <3>4
    <3>5. CASE m # n
      <4>1. i \in Newer[l]
        BY <1>3, <2>1, <2>2, <3>1, <3>2, <3>5 DEF Sorting
      <4>2. rows[i].at > t \/ (rows[i].at = t /\ i > l)
        BY <2>3, <2>5, <4>1 DEF Newer
      <4> QED
        BY <2>4, <2>10, <3>3, <4>2
    <3> QED
      BY <3>4, <3>5
  <2>12. ASSUME NEW i \in ToSet(seen) PROVE ~Beyond(i, d)
    <3>1. i \in DOMAIN rows
      <4>1. PICK k \in DOMAIN seen : i = seen[k]
        BY <2>12 DEF ToSet
      <4> QED
        BY <4>1
    <3>2. i \in Int /\ rows[i].at \in Nat
      BY <3>1 DEF RowsTyped
    <3>3. c # NoCursor /\ c.at \in Nat /\ c.id \in Int /\ ~Beyond(i, c)
      BY <2>12 DEF Walk, ToSet
    <3>4. PICK a \in Nat, b \in Int : a = c.at /\ b = c.id
      BY <3>3
    <3>5. ~(rows[i].at < a \/ (rows[i].at = a /\ i < b)) /\ (t < a \/ (t = a /\ l < b))
      BY <2>3, <2>5, <3>3, <3>4 DEF Beyond
    <3> QED
      BY <2>4, <2>10, <3>2, <3>5
  <2>13. ASSUME NEW i \in st \cap Keeps(q) PROVE i \in ToSet(pages') \/ Beyond(i, d)
    <3>1. CASE i \in ToSet(seen)
      BY <1>14, <3>1
    <3>2. CASE i \notin ToSet(seen)
      <4>1. PICK m \in 1..K : list[m] = i
        BY <1>15, <3>2
      <4>2. CASE m \in 1..F
        BY <1>14, <1>16, <4>1, <4>2
      <4>3. CASE m \notin 1..F
        <5>1. n < m
          BY <2>1, <4>3
        <5>2. l \in Newer[i] /\ i \in DOMAIN rows
          BY <1>3, <1>7, <2>1, <2>2, <4>1, <5>1 DEF Sorting
        <5>3. i \in Int /\ rows[i].at \in Nat
          BY <5>2 DEF RowsTyped
        <5>4. t > rows[i].at \/ (t = rows[i].at /\ l > i)
          BY <2>5, <5>2 DEF Newer
        <5> QED
          BY <2>4, <2>10, <5>3, <5>4
      <4> QED
        BY <4>2, <4>3
    <3> QED
      BY <3>1, <3>2
  <2>14. \A i \in ToSet(pages') : ~Beyond(i, d)
    BY <1>14, <2>11, <2>12
  <2>15. PICK all : all = pages'
    OBVIOUS
  <2>16. Walk(q, d, all, st)
    BY <2>4, <2>5, <2>7, <2>8, <2>13, <2>14, <2>15 DEF Walk
  <2> QED
    BY <1>14, <1>18, <2>7, <2>8, <2>15, <2>16
<1> QED
  BY <1>13, <1>17, <1>18

QueryOf(q) ==
  /\ q = [name |-> q.name, status |-> q.status, actor |-> q.actor, from |-> q.from, limit |-> q.limit]
  /\ q.limit \in Nat

\* The walk has not begun, has reached the end, or is at its cursor.
ListInv ==
  /\ RowsTyped /\ steady \subseteq DOMAIN rows
  /\ pages \in Seq(DOMAIN rows) /\ Distinct(pages) /\ QueryOf(query)
  /\ \/ query = NoQuery
     \/ query.name # "idle" /\ query.limit = 0 /\ cursor = NoCursor /\ steady \cap Keeps(query) \subseteq ToSet(pages)
     \/ query.name # "idle" /\ query.limit # 0 /\ cursor # NoCursor /\ Walk(query, cursor, pages, steady)

LEMMA ListHolds == ListInv => PagesComplete
<1> SUFFICES ASSUME ListInv PROVE PagesComplete
  OBVIOUS
<1>1. Cardinality(ToSet(pages)) = Len(pages)
  BY DistinctCounted DEF ListInv
<1>2. query.limit = 0 => steady \cap Keeps(query) \subseteq ToSet(pages)
  <2>1. NoQuery.limit = 1
    BY DEF NoQuery
  <2> QED
    BY <2>1 DEF ListInv
<1>3. MemoryPage(query, cursor) = PgPage(query, cursor)
  BY PagesAgree DEF ListInv, QueryOf
<1> QED
  BY <1>1, <1>2, <1>3 DEF PagesComplete

LEMMA LimitSet ==
  ASSUME NEW q, QueryOf(q), NEW n \in Nat, NEW r, r = [q EXCEPT !.limit = n]
  PROVE  QueryOf(r) /\ r.limit = n /\ r.name = q.name /\ Keeps(r) = Keeps(q)
<1>1. PICK a, b, c, d : a = q.name /\ b = q.status /\ c = q.actor /\ d = q.from
  OBVIOUS
<1>2. \E l : q = [name |-> a, status |-> b, actor |-> c, from |-> d, limit |-> l]
  BY <1>1 DEF QueryOf
<1>3. r = [name |-> a, status |-> b, actor |-> c, from |-> d, limit |-> n]
  BY <1>2
<1>4. /\ r = [name |-> r.name, status |-> r.status, actor |-> r.actor, from |-> r.from, limit |-> r.limit]
      /\ r.limit = n /\ r.name = q.name /\ r.status = q.status /\ r.actor = q.actor /\ r.from = q.from
  BY <1>1, <1>3
<1>5. Keeps(r) = Keeps(q)
  BY <1>4 DEF Keeps, AuditFilter, PolicyFilter, VerificationFilter
<1> QED
  BY <1>4, <1>5 DEF QueryOf

\* Rows that come, and rows that change status.
LEMMA RowsMove ==
  ASSUME ListInv, RowsTyped', DOMAIN rows \subseteq DOMAIN rows', \A j \in DOMAIN rows : rows'[j].at = rows[j].at,
         steady' \subseteq steady, \A j \in steady' : rows'[j] = rows[j], UNCHANGED <<query, cursor, pages>>
  PROVE  ListInv'
<1>1. pages' \in Seq(DOMAIN rows') /\ Distinct(pages') /\ QueryOf(query)'
  <2>1. pages \in Seq(DOMAIN rows')
    <3>1. pages \in Seq(DOMAIN rows)
      BY DEF ListInv
    <3>2. PICK A, B : A = DOMAIN rows /\ B = DOMAIN rows'
      OBVIOUS
    <3>3. A \subseteq B /\ pages \in Seq(A)
      BY <3>1, <3>2
    <3>4. pages \in Seq(B)
      BY <3>3
    <3> QED
      BY <3>2, <3>4
  <2> QED
    BY <2>1 DEF ListInv, Distinct, QueryOf
<1>2. steady' \subseteq DOMAIN rows'
  BY DEF ListInv
<1>3. ASSUME NEW j \in steady' PROVE j \in Keeps(query)' <=> j \in Keeps(query)
  <2>1. j \in DOMAIN rows /\ j \in DOMAIN rows' /\ rows'[j] = rows[j]
    BY DEF ListInv
  <2> QED
    BY <2>1 DEF Keeps, AuditFilter, PolicyFilter, VerificationFilter
<1>4. ASSUME NEW j \in DOMAIN rows PROVE Beyond(j, cursor)' <=> Beyond(j, cursor)
  BY DEF Beyond
<1>5. CASE query = NoQuery
  BY <1>1, <1>2, <1>5 DEF ListInv, NoQuery
<1>6. CASE query.name # "idle" /\ query.limit = 0 /\ cursor = NoCursor /\ steady \cap Keeps(query) \subseteq ToSet(pages)
  <2>1. (steady \cap Keeps(query) \subseteq ToSet(pages))'
    BY <1>3, <1>6 DEF ToSet
  <2> QED
    BY <1>1, <1>2, <1>6, <2>1 DEF ListInv, NoCursor
<1>7. CASE query.name # "idle" /\ query.limit # 0 /\ cursor # NoCursor /\ Walk(query, cursor, pages, steady)
  <2>1. \A i \in ToSet(pages) : i \in DOMAIN rows
    BY DEF ToSet, ListInv
  <2>2. /\ cursor.at \in Nat /\ cursor.id \in Int /\ \A i \in ToSet(pages) : ~Beyond(i, cursor)
        /\ \A i \in steady \cap Keeps(query) : i \in ToSet(pages) \/ Beyond(i, cursor)
    BY <1>7 DEF Walk
  <2>3. (cursor.at \in Nat /\ cursor.id \in Int /\ cursor # NoCursor)'
    BY <1>7, <2>2 DEF NoCursor
  <2>4. (\A i \in ToSet(pages) : ~Beyond(i, cursor))'
    BY <1>4, <2>1, <2>2 DEF ToSet
  <2>5. (\A i \in steady \cap Keeps(query) : i \in ToSet(pages) \/ Beyond(i, cursor))'
    <3> SUFFICES ASSUME NEW i \in steady', i \in Keeps(query)' PROVE i \in ToSet(pages)' \/ Beyond(i, cursor)'
      OBVIOUS
    <3>1. i \in steady \cap Keeps(query) /\ i \in DOMAIN rows
      BY <1>3 DEF ListInv
    <3>2. i \in ToSet(pages) \/ Beyond(i, cursor)
      BY <2>2, <3>1
    <3> QED
      BY <1>4, <3>1, <3>2 DEF ToSet
  <2>6. Walk(query, cursor, pages, steady)'
    BY <2>3, <2>4, <2>5 DEF Walk
  <2> QED
    BY <1>1, <1>2, <1>7, <2>3, <2>6 DEF ListInv
<1> QED
  BY <1>5, <1>6, <1>7 DEF ListInv

LEMMA InsertWalks ==
  ASSUME ListInv, NEW i \in RowIds, NEW row \in [at : 0..MaxInstant, status : Statuses, actor : Actors], Insert(i, row)
  PROVE  ListInv'
<1>1. /\ i \notin DOMAIN rows /\ rows' = [j \in DOMAIN rows \cup {i} |-> IF j = i THEN row ELSE rows[j]]
      /\ UNCHANGED <<query, cursor, pages, steady>>
  BY DEF Insert
<1>2. RowsTyped
  BY DEF ListInv
<1>3. i \in Int /\ row \in [at : Nat, status : Statuses, actor : Actors]
  BY ListingAssumption
<1>4. DOMAIN rows' = DOMAIN rows \cup {i} /\ rows'[i] = row /\ \A j \in DOMAIN rows : rows'[j] = rows[j]
  BY <1>1
<1>5. IsFiniteSet(DOMAIN rows')
  BY <1>2, <1>4, FS_AddElement DEF RowsTyped
<1>6. rows' \in [DOMAIN rows' -> [at : Nat, status : Statuses, actor : Actors]]
  <2>1. \A j \in DOMAIN rows' : rows'[j] \in [at : Nat, status : Statuses, actor : Actors]
    BY <1>2, <1>3, <1>4 DEF RowsTyped
  <2>2. rows' = [j \in DOMAIN rows' |-> rows'[j]]
    BY <1>1, <1>4
  <2> QED
    BY <2>1, <2>2
<1>7. RowsTyped'
  BY <1>2, <1>3, <1>4, <1>5, <1>6 DEF RowsTyped
<1>8. \A j \in steady' : rows'[j] = rows[j]
  BY <1>1, <1>4 DEF ListInv
<1> QED
  BY <1>1, <1>4, <1>7, <1>8, RowsMove

LEMMA ChangeWalks ==
  ASSUME ListInv, NEW i \in DOMAIN rows, NEW s \in Statuses, ChangeStatus(i, s)
  PROVE  ListInv'
<1>1. PICK r : r = [rows[i] EXCEPT !.status = s]
  OBVIOUS
<1>2. rows' = [rows EXCEPT ![i] = r] /\ steady' = steady \ {i} /\ UNCHANGED <<query, cursor, pages>>
  BY <1>1 DEF ChangeStatus
<1>3. RowsTyped
  BY DEF ListInv
<1>4. r \in [at : Nat, status : Statuses, actor : Actors] /\ r.at = rows[i].at
  <2>1. rows[i] \in [at : Nat, status : Statuses, actor : Actors]
    BY <1>3 DEF RowsTyped
  <2>2. PICK a, u : a = rows[i].at /\ u = rows[i].actor
    OBVIOUS
  <2>3. a \in Nat /\ u \in Actors /\ \E t : rows[i] = [at |-> a, status |-> t, actor |-> u]
    BY <2>1, <2>2
  <2>4. r = [at |-> a, status |-> s, actor |-> u]
    BY <1>1, <2>3
  <2> QED
    BY <2>2, <2>3, <2>4
<1>5. DOMAIN rows' = DOMAIN rows /\ rows'[i] = r /\ \A j \in DOMAIN rows : j # i => rows'[j] = rows[j]
  BY <1>2
<1>6. RowsTyped'
  BY <1>2, <1>3, <1>4 DEF RowsTyped
<1>7. \A j \in DOMAIN rows : rows'[j].at = rows[j].at
  BY <1>4, <1>5
<1>8. \A j \in steady' : rows'[j] = rows[j]
  BY <1>2, <1>5 DEF ListInv
<1> QED
  BY <1>2, <1>5, <1>6, <1>7, <1>8, RowsMove

\* A page is answered, the first or the next one.
LEMMA PageWalks ==
  ASSUME ListInv, NEW q, QueryOf(q), q.limit # 0, q.name # "idle", NEW c, NEW seen \in Seq(DOMAIN rows), Distinct(seen),
         NEW st \in SUBSET DOMAIN rows, Walk(q, c, seen, st), Answer(q, c, seen), steady' = st, UNCHANGED rows
  PROVE  ListInv'
<1>1. RowsTyped /\ RowsTyped'
  BY DEF ListInv, RowsTyped
<1>2. q.limit \in Nat \ {0}
  BY DEF QueryOf
<1>3. /\ pages' \in Seq(DOMAIN rows) /\ Distinct(pages')
      /\ \/ query' = q /\ cursor' # NoCursor /\ Walk(q, cursor', pages', st)
         \/ query' = [q EXCEPT !.limit = 0] /\ cursor' = NoCursor /\ st \cap Keeps(q) \subseteq ToSet(pages')
  BY <1>1, <1>2, AnswerWalks
<1>4. (pages \in Seq(DOMAIN rows) /\ Distinct(pages) /\ steady \subseteq DOMAIN rows)'
  BY <1>3 DEF Distinct
<1>5. PICK all, d, r : all = pages' /\ d = cursor' /\ r = query'
  OBVIOUS
<1>6. CASE r = q /\ d # NoCursor /\ Walk(q, d, all, st)
  <2>1. Walk(q, d, all, st)'
    BY <1>6 DEF Walk, Keeps, AuditFilter, PolicyFilter, VerificationFilter, Beyond, ToSet, NoCursor
  <2>2. Walk(query, cursor, pages, steady)'
    BY <1>5, <1>6, <2>1 DEF Walk, Keeps
  <2> QED
    BY <1>1, <1>4, <1>5, <1>6, <2>2 DEF ListInv, QueryOf, NoCursor
<1>7. CASE r = [q EXCEPT !.limit = 0] /\ d = NoCursor /\ st \cap Keeps(q) \subseteq ToSet(all)
  <2>1. QueryOf(r) /\ r.limit = 0 /\ r.name = q.name /\ Keeps(r) = Keeps(q)
    BY <1>7, LimitSet
  <2>2. st \cap Keeps(r)' \subseteq ToSet(all)
    BY <1>7, <2>1 DEF Keeps
  <2>3. (steady \cap Keeps(query) \subseteq ToSet(pages))'
    BY <1>5, <2>2 DEF ToSet, Keeps
  <2> QED
    BY <1>1, <1>4, <1>5, <1>7, <2>1, <2>3 DEF ListInv, QueryOf, NoCursor
<1> QED
  BY <1>3, <1>5, <1>6, <1>7

LEMMA BeginWalks ==
  ASSUME ListInv, NEW q \in Queries, BeginPage(q)
  PROVE  ListInv'
<1>1. PICK n \in Nat \ {0} : n = IF q.limit > PageMax THEN PageMax ELSE q.limit
  BY ListingAssumption DEF Queries
<1>2. PICK r : r = [q EXCEPT !.limit = n]
  OBVIOUS
<1>3. QueryOf(q) /\ q.name # "idle"
  BY ListingAssumption DEF QueryOf, Queries
<1>4. QueryOf(r) /\ r.limit = n /\ r.name = q.name
  BY <1>2, <1>3, LimitSet
<1>5. Answer(r, NoCursor, <<>>) /\ steady' = DOMAIN rows /\ UNCHANGED rows
  BY <1>1, <1>2 DEF BeginPage
<1>6. <<>> \in Seq(DOMAIN rows) /\ Distinct(<<>>)
  BY DEF Distinct
<1>7. Walk(r, NoCursor, <<>>, DOMAIN rows)
  BY DEF Walk, Beyond
<1> QED
  BY <1>3, <1>4, <1>5, <1>6, <1>7, PageWalks

LEMMA NextWalks ==
  ASSUME ListInv, NextPage PROVE ListInv'
<1>1. query.name # "idle" /\ cursor # NoCursor /\ Answer(query, cursor, pages) /\ UNCHANGED <<rows, steady>>
  BY DEF NextPage
<1>2. NoQuery.name = "idle"
  BY DEF NoQuery
<1>3. query.limit # 0 /\ Walk(query, cursor, pages, steady) /\ QueryOf(query) /\ Distinct(pages)
      /\ pages \in Seq(DOMAIN rows) /\ steady \in SUBSET DOMAIN rows
  BY <1>1, <1>2 DEF ListInv
<1>4. PICK q, c, seen, st : q = query /\ c = cursor /\ seen = pages /\ st = steady
  OBVIOUS
<1> QED
  BY <1>1, <1>3, <1>4, PageWalks

LEMMA ListStep == ListInv /\ (ListNext \/ UNCHANGED listVars) => ListInv'
<1> SUFFICES ASSUME ListInv, ListNext \/ UNCHANGED listVars PROVE ListInv'
  OBVIOUS
<1>1. CASE UNCHANGED listVars
  <2>1. UNCHANGED <<rows, query, cursor, pages, steady>>
    BY <1>1 DEF listVars
  <2>2. RowsTyped' /\ steady' \subseteq steady
    BY <2>1 DEF ListInv, RowsTyped
  <2> QED
    BY <2>1, <2>2, RowsMove
<1>2. CASE NextPage
  BY <1>2, NextWalks
<1>3. CASE \E q \in Queries : ListTransactions(q) \/ ListPolicies(q) \/ ListVerifications(q)
  BY <1>3, BeginWalks DEF ListTransactions, ListPolicies, ListVerifications
<1>4. CASE \E i \in RowIds, row \in [at : 0..MaxInstant, status : Statuses, actor : Actors] : Insert(i, row)
  BY <1>4, InsertWalks
<1>5. CASE \E i \in DOMAIN rows, s \in Statuses : ChangeStatus(i, s)
  BY <1>5, ChangeWalks
<1> QED
  BY <1>1, <1>2, <1>3, <1>4, <1>5 DEF ListNext

LEMMA ListStart == ListInit => ListInv
<1> SUFFICES ASSUME ListInit PROVE ListInv
  OBVIOUS
<1>1. RowsTyped
  <2>1. rows = <<>> /\ DOMAIN rows = {} /\ rows \in [{} -> [at : Nat, status : Statuses, actor : Actors]]
    BY DEF ListInit
  <2> QED
    BY <2>1, FS_EmptySet DEF RowsTyped
<1>2. QueryOf(NoQuery)
  BY DEF QueryOf, NoQuery
<1> QED
  BY <1>1, <1>2 DEF ListInit, ListInv, Distinct

\* However rows come and change status while a client walks a list, the walk is given no row twice,
\* leaves out none of its filter that stood unchanged, and both repositories give the same pages
\* (paginateAuditEvents, the listPage of policies and verification records, in memory and in Postgres).
THEOREM PagesStayComplete == MCSpec => []PagesComplete
<1>1. MCInit => ListInv
  BY ListStart DEF MCInit
<1>2. ListInv /\ [MCNext]_<<part, pipelineVars, queueVars, listVars>> => ListInv'
  <2> SUFFICES ASSUME ListInv, [MCNext]_<<part, pipelineVars, queueVars, listVars>> PROVE ListInv'
    OBVIOUS
  <2>1. ListNext \/ UNCHANGED listVars
    BY DEF MCNext
  <2> QED
    BY <2>1, ListStep
<1>3. ListInv => PagesComplete
  BY ListHolds
<1> QED
  BY <1>1, <1>2, <1>3, PTL DEF MCSpec
=============================================================================
