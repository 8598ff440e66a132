------------------------- MODULE WalletSubmitProofs -------------------------
(***************************************************************************)
(* For every set of requests, envelopes and authorizations, every number of *)
(* retries and crashes: what may have been sent stays reserved until it    *)
(* expires, and no authorization is sent twice while it is good, nor ever  *)
(* paid for twice by the sponsor.                                          *)
(*                                                                         *)
(* The invariant follows an authorization from its reservation to the end  *)
(* of the submission that made it: until it expires, at most one           *)
(* submission holds it, and it is reserved all the while.                  *)
(***************************************************************************)
EXTENDS WalletSubmit, FiniteSetTheorems, TLAPS

\* r has reserved k and has not given it back.
Holding(r, k) ==
  /\ k \in Keys(r)
  /\ \/ Transmitted(r)
     \/ pc[r] \in {"submitting", "metering", "sending", "polling", "relaying", "recording",
                   "catching"}
     \/ pc[r] = "releasing" /\ k \in todo[r]

\* The sponsor has simulated r successfully, or has already sent it.
Cleared(r) == Sponsor(r) /\ (pc[r] \in {"metering", "sending"} \/ Transmitted(r))

HeldIsReserved ==
  \A r \in Request : \A k \in Auth :
    Holding(r, k) /\ ledger <= Expiration[k] => k \in reserved

OneHolder ==
  \A r, s \in Request : \A k \in Auth :
    r # s /\ Holding(r, k) /\ Holding(s, k) => ledger > Expiration[k]

OnePayer ==
  \A r, s \in Request : \A k \in Auth :
    r # s /\ Cleared(r) /\ Cleared(s) => ~(k \in Keys(r) /\ k \in Keys(s))

\* Where a handler can be before and after its transaction is transmitted, and
\* which branch it took.
Progress ==
  \A r \in Request :
    /\ pc[r] \in {"idle", "missed", "scoping", "reserving", "submitting", "metering", "sending",
                  "releasing"} => ~Transmitted(r)
    /\ pc[r] = "catching" /\ code[r] = "releasable" => ~Transmitted(r)
    /\ pc[r] \in {"metering", "sending", "polling"} => Sponsor(r)
    /\ pc[r] = "relaying" => ~Sponsor(r)
    /\ pc[r] = "releasing" => todo[r] \subseteq Keys(r)

SubmitTypes ==
  /\ pc \in [Request -> Labels]
  /\ envelope \in [Request -> Envelope]
  /\ code \in [Request -> {"none", "releasable", "kept"}]
  /\ todo \in [Request -> SUBSET Auth]
  /\ tx \in [Request -> {NoTx, "pending", "landed", "failed"}]
  /\ ledger \in Nat
  /\ purgeAt \in Nat /\ purgeAt <= ledger

ReplayInv == SubmitTypes /\ Progress /\ HeldIsReserved /\ OneHolder /\ OnePayer

LEMMA InitReplay == Init => ReplayInv
<1> SUFFICES ASSUME Init PROVE ReplayInv
  OBVIOUS
<1>1. SubmitTypes
  BY DEF Init, SubmitTypes, Labels, Outside, NoTx
<1>2. \A r \in Request : ~Transmitted(r) /\ pc[r] = "idle"
  BY DEF Init, Transmitted
<1> QED
  BY <1>1, <1>2 DEF ReplayInv, Progress, HeldIsReserved, OneHolder, OnePayer, Holding, Cleared

------------------------------------------------------------------------------
\* A step in which no submission comes to hold or to pay for anything, and no
\* authorization that is held and good loses its reservation.
Quiet ==
  /\ envelope' = envelope /\ ledger' \in Nat /\ ledger <= ledger'
  /\ \A r \in Request : \A k \in Auth : Holding(r, k)' => Holding(r, k)
  /\ \A r \in Request : Cleared(r)' => Cleared(r)
  /\ \A r \in Request : \A k \in Auth :
       k \in reserved /\ Holding(r, k)' /\ ledger' <= Expiration[k] => k \in reserved'

LEMMA QuietStep ==
  ASSUME ReplayInv, Quiet
  PROVE  HeldIsReserved' /\ OneHolder' /\ OnePayer'
<1> USE SubmitConstants
<1>1. ledger \in Nat /\ \A k \in Auth : Expiration[k] \in Nat
  BY DEF ReplayInv, SubmitTypes
<1>2. HeldIsReserved'
  <2> SUFFICES ASSUME NEW r \in Request, NEW k \in Auth, Holding(r, k)', ledger' <= Expiration[k]
               PROVE  k \in reserved'
    BY DEF HeldIsReserved
  <2>1. Holding(r, k) /\ ledger <= Expiration[k]
    BY <1>1 DEF Quiet
  <2> QED
    BY <2>1 DEF Quiet, ReplayInv, HeldIsReserved
<1>3. OneHolder'
  <2> SUFFICES ASSUME NEW r \in Request, NEW s \in Request, NEW k \in Auth, r # s,
                      Holding(r, k)', Holding(s, k)'
               PROVE  ledger' > Expiration[k]
    BY DEF OneHolder
  <2>1. ledger > Expiration[k]
    BY DEF Quiet, ReplayInv, OneHolder
  <2> QED
    BY <1>1, <2>1 DEF Quiet
<1>4. OnePayer'
  BY DEF Quiet, ReplayInv, OnePayer, Keys
<1> QED
  BY <1>2, <1>3, <1>4

\* A handler's step that keeps the tables and the ledger and moves r from a
\* place where it already holds what it holds afterwards.
LEMMA HandlerStep ==
  ASSUME ReplayInv, NEW r \in Request, envelope' = envelope, ledger' = ledger,
         reserved' = reserved,
         \A s \in Request \ {r} : pc'[s] = pc[s] /\ todo'[s] = todo[s] /\ tx'[s] = tx[s],
         \A k \in Auth : Holding(r, k)' => Holding(r, k),
         Cleared(r)' => Cleared(r)
  PROVE  HeldIsReserved' /\ OneHolder' /\ OnePayer'
<1>1. ASSUME NEW s \in Request \ {r}
      PROVE  /\ \A k \in Auth : Holding(s, k)' => Holding(s, k)
             /\ Cleared(s)' => Cleared(s)
  BY <1>1 DEF Holding, Cleared, Keys, Sponsor, Transmitted
<1>2. Quiet
  BY <1>1 DEF Quiet, ReplayInv, SubmitTypes
<1> QED
  BY <1>2, QuietStep

------------------------------------------------------------------------------
\* One lemma per step of the handler.

LEMMA EntryStep ==
  ASSUME ReplayInv, NEW r \in Request, Lookup(r) \/ Start(r) \/ Scope(r)
  PROVE  ReplayInv'
<1>1. /\ envelope' = envelope /\ ledger' = ledger /\ reserved' = reserved /\ todo' = todo
      /\ tx' = tx /\ code' = code /\ purgeAt' = purgeAt
      /\ pc[r] \in {"idle", "missed", "scoping"}
      /\ \E l \in {"done", "missed", "scoping", "reserving", "closing"} : pc' = [pc EXCEPT ![r] = l]
  BY DEF Lookup, Start, Scope, Goto, Reply, chainVars, tableVars
<1>2. SubmitTypes'
  BY <1>1 DEF ReplayInv, SubmitTypes, Labels, Outside
<1>3. Progress'
  BY <1>1 DEF ReplayInv, SubmitTypes, Progress, Transmitted, Sponsor, Keys
<1>4. \A s \in Request \ {r} : pc'[s] = pc[s]
  BY <1>1 DEF ReplayInv, SubmitTypes
<1>5. /\ \A k \in Auth : Holding(r, k)' => Holding(r, k)
      /\ Cleared(r)' => Cleared(r)
  BY <1>1 DEF ReplayInv, SubmitTypes, Holding, Cleared, Transmitted, Keys, Sponsor
<1> QED
  BY <1>1, <1>2, <1>3, <1>4, <1>5, HandlerStep DEF ReplayInv

\* The new holder meets no other: whatever is held and good is reserved, and
\* nothing it reserves was.
LEMMA ReserveStep == ASSUME ReplayInv, NEW r \in Request, Reserve(r) PROVE ReplayInv'
<1> USE SubmitConstants
<1>1. /\ envelope' = envelope /\ ledger' = ledger /\ todo' = todo
      /\ tx' = tx /\ code' = code /\ purgeAt' = purgeAt
      /\ pc[r] = "reserving"
      /\ \E l \in {"submitting", "closing"} : pc' = [pc EXCEPT ![r] = l]
      /\ reserved \subseteq reserved'
      /\ \/ Keys(r) \cap reserved = {} /\ Keys(r) \subseteq reserved'
         \/ pc'[r] = "closing"
  BY DEF Reserve, Goto, Reply, chainVars, ReplayInv, SubmitTypes
<1>2. SubmitTypes'
  BY <1>1 DEF ReplayInv, SubmitTypes, Labels, Outside
<1>3. Progress'
  BY <1>1 DEF ReplayInv, SubmitTypes, Progress, Transmitted, Sponsor, Keys
<1>4. ~Transmitted(r) /\ ~Transmitted(r)'
  BY <1>1 DEF ReplayInv, Progress, Transmitted
<1>5. ASSUME NEW s \in Request \ {r}
      PROVE  /\ \A k \in Auth : Holding(s, k)' <=> Holding(s, k)
             /\ Cleared(s)' <=> Cleared(s)
  BY <1>1, <1>5 DEF ReplayInv, SubmitTypes, Holding, Cleared, Keys, Sponsor, Transmitted
<1>6. ~Cleared(r)'
  BY <1>1, <1>4 DEF Cleared, ReplayInv, SubmitTypes
<1>7. ASSUME NEW k \in Auth, Holding(r, k)'
      PROVE  k \in Keys(r) /\ k \in reserved' /\ k \notin reserved
  BY <1>1, <1>4, <1>7 DEF Holding, Keys, ReplayInv, SubmitTypes
<1>8. HeldIsReserved'
  <2> SUFFICES ASSUME NEW s \in Request, NEW k \in Auth, Holding(s, k)', ledger' <= Expiration[k]
               PROVE  k \in reserved'
    BY DEF HeldIsReserved
  <2>1. CASE s = r
    BY <2>1, <1>7
  <2>2. CASE s # r
    BY <2>2, <1>1, <1>5 DEF ReplayInv, HeldIsReserved
  <2> QED
    BY <2>1, <2>2
<1>9. OneHolder'
  <2>1. ASSUME NEW s \in Request \ {r}, NEW k \in Auth, Holding(r, k)', Holding(s, k)'
        PROVE  ledger' > Expiration[k]
    <3>1. k \notin reserved /\ Holding(s, k)
      BY <2>1, <1>5, <1>7
    <3>2. ~(ledger <= Expiration[k])
      BY <3>1 DEF ReplayInv, HeldIsReserved
    <3> QED
      BY <3>2, <1>1 DEF ReplayInv, SubmitTypes
  <2>2. ASSUME NEW s \in Request \ {r}, NEW q \in Request \ {r}, NEW k \in Auth, s # q,
               Holding(q, k)', Holding(s, k)'
        PROVE  ledger' > Expiration[k]
    BY <2>2, <1>1, <1>5 DEF ReplayInv, OneHolder
  <2> QED
    BY <2>1, <2>2 DEF OneHolder
<1>10. OnePayer'
  BY <1>1, <1>5, <1>6 DEF ReplayInv, OnePayer, Keys
<1> QED
  BY <1>2, <1>3, <1>8, <1>9, <1>10 DEF ReplayInv

\* A simulation that succeeds finds the authorizations good, so nobody else
\* holds them and nobody else was cleared to pay for them.
LEMMA SimulateStep == ASSUME ReplayInv, NEW r \in Request, Simulate(r) PROVE ReplayInv'
<1> USE SubmitConstants
<1>1. /\ envelope' = envelope /\ ledger' = ledger /\ reserved' = reserved /\ todo' = todo
      /\ tx' = tx /\ purgeAt' = purgeAt
      /\ pc[r] = "submitting" /\ Sponsor(r)
      /\ \E l \in {"metering", "catching"} : pc' = [pc EXCEPT ![r] = l]
      /\ \/ pc'[r] = "metering" /\ code' = code /\ Valid(r)
         \/ pc'[r] = "catching" /\ \E c \in {"releasable", "kept"} : code' = [code EXCEPT ![r] = c]
  BY DEF Simulate, Goto, Throw, chainVars, tableVars, ReplayInv, SubmitTypes
<1>2. SubmitTypes'
  BY <1>1 DEF ReplayInv, SubmitTypes, Labels, Outside
<1>3. Progress'
  BY <1>1 DEF ReplayInv, SubmitTypes, Progress, Transmitted, Sponsor, Keys
<1>4. \A s \in Request : \A k \in Auth : Holding(s, k)' => Holding(s, k)
  BY <1>1 DEF ReplayInv, SubmitTypes, Holding, Transmitted, Keys
<1>5. \A s \in Request \ {r} : Cleared(s)' => Cleared(s)
  BY <1>1 DEF ReplayInv, SubmitTypes, Cleared, Transmitted, Sponsor
<1>6. HeldIsReserved' /\ OneHolder'
  BY <1>1, <1>4 DEF ReplayInv, HeldIsReserved, OneHolder
<1>7. OnePayer'
  <2>1. ASSUME NEW s \in Request \ {r}, NEW k \in Auth, Cleared(r)', Cleared(s)',
               k \in Keys(r), k \in Keys(s)
        PROVE  FALSE
    <3>1. CASE pc'[r] = "catching"
      BY <2>1, <3>1, <1>1 DEF Cleared, ReplayInv, Progress, Transmitted, SubmitTypes
    <3>2. CASE Valid(r)
      <4>1. ledger <= Expiration[k]
        BY <3>2, <2>1 DEF Valid
      <4>2. Holding(r, k)
        BY <2>1, <1>1 DEF Holding
      <4>3. Holding(s, k)
        BY <2>1, <1>5 DEF Holding, Cleared
      <4>4. ledger > Expiration[k]
        BY <4>2, <4>3, <2>1 DEF ReplayInv, OneHolder
      <4> QED
        BY <4>1, <4>4 DEF ReplayInv, SubmitTypes
    <3> QED
      BY <3>1, <3>2, <1>1
  <2>2. ASSUME NEW s \in Request \ {r}, NEW q \in Request \ {r}, NEW k \in Auth, s # q,
               Cleared(q)', Cleared(s)', k \in Keys(q), k \in Keys(s)
        PROVE  FALSE
    BY <2>2, <1>5 DEF ReplayInv, OnePayer
  <2>3. \A s \in Request : Keys(s)' = Keys(s)
    BY <1>1 DEF Keys
  <2> QED
    BY <2>1, <2>2, <2>3 DEF OnePayer
<1> QED
  BY <1>2, <1>3, <1>6, <1>7 DEF ReplayInv

\* The steps from the budget to the answer, except the release, keep r's holding.
LEMMA SendStep ==
  ASSUME ReplayInv, NEW r \in Request, Consume(r) \/ Send(r) \/ Poll(r)
  PROVE  ReplayInv'
<1>1. /\ envelope' = envelope /\ ledger' = ledger /\ reserved' = reserved /\ todo' = todo
      /\ purgeAt' = purgeAt
      /\ pc[r] \in {"metering", "sending", "polling"}
      /\ \E l \in {"sending", "polling", "recording", "catching"} : pc' = [pc EXCEPT ![r] = l]
      /\ \/ code' = code /\ pc'[r] # "catching"
         \/ \E c \in {"releasable", "kept"} : code' = [code EXCEPT ![r] = c]
      /\ pc[r] # "metering" /\ pc'[r] = "catching" => code'[r] = "kept"
      /\ pc'[r] = "sending" => pc[r] = "metering"
      /\ \/ tx' = tx
         \/ pc[r] = "sending" /\ tx' = [tx EXCEPT ![r] = "pending"]
  BY DEF Consume, Send, Poll, Resolve, Transmit, Transmitted, Goto, Throw, chainVars, tableVars,
         ReplayInv, SubmitTypes, Progress
<1>2. SubmitTypes'
  BY <1>1 DEF ReplayInv, SubmitTypes, Labels, Outside
<1>3. Progress'
  BY <1>1 DEF ReplayInv, SubmitTypes, Progress, Transmitted, Sponsor, Keys
<1>4. \A s \in Request \ {r} : pc'[s] = pc[s] /\ tx'[s] = tx[s]
  BY <1>1 DEF ReplayInv, SubmitTypes
<1>5. /\ \A k \in Auth : Holding(r, k)' => Holding(r, k)
      /\ Cleared(r)' => Cleared(r)
  BY <1>1 DEF ReplayInv, SubmitTypes, Progress, Holding, Cleared, Transmitted, Keys, Sponsor
<1> QED
  BY <1>1, <1>2, <1>3, <1>4, <1>5, HandlerStep DEF ReplayInv

LEMMA RelayStep ==
  ASSUME ReplayInv, NEW r \in Request, Relay(r) \/ RelaySend(r)
  PROVE  ReplayInv'
<1>1. /\ envelope' = envelope /\ ledger' = ledger /\ reserved' = reserved /\ todo' = todo
      /\ purgeAt' = purgeAt
      /\ pc[r] \in {"submitting", "relaying"} /\ ~Sponsor(r)
      /\ \E l \in {"relaying", "recording", "catching"} : pc' = [pc EXCEPT ![r] = l]
      /\ \/ code' = code /\ pc'[r] # "catching"
         \/ \E c \in {"releasable", "kept"} : code' = [code EXCEPT ![r] = c]
      /\ pc[r] = "relaying" /\ pc'[r] = "catching" => code'[r] = "kept"
      /\ \/ tx' = tx
         \/ pc[r] = "relaying" /\ tx' = [tx EXCEPT ![r] = "pending"]
  BY DEF Relay, RelaySend, RelaySucceeds, RelayFails, Resolve, Transmit, Transmitted, Goto, Throw,
         chainVars, tableVars, ReplayInv, SubmitTypes, Progress
<1>2. SubmitTypes'
  BY <1>1 DEF ReplayInv, SubmitTypes, Labels, Outside
<1>3. Progress'
  BY <1>1 DEF ReplayInv, SubmitTypes, Progress, Transmitted, Sponsor, Keys
<1>4. \A s \in Request \ {r} : pc'[s] = pc[s] /\ tx'[s] = tx[s]
  BY <1>1 DEF ReplayInv, SubmitTypes
<1>5. /\ \A k \in Auth : Holding(r, k)' => Holding(r, k)
      /\ Cleared(r)' => Cleared(r)
  BY <1>1 DEF ReplayInv, SubmitTypes, Progress, Holding, Cleared, Transmitted, Keys, Sponsor
<1> QED
  BY <1>1, <1>2, <1>3, <1>4, <1>5, HandlerStep DEF ReplayInv

LEMMA AnswerStep ==
  ASSUME ReplayInv, NEW r \in Request, Record(r) \/ Catch(r) \/ Finally(r)
  PROVE  ReplayInv'
<1>1. /\ envelope' = envelope /\ ledger' = ledger /\ reserved' = reserved
      /\ purgeAt' = purgeAt /\ tx' = tx
      /\ pc[r] \in {"recording", "catching", "closing"}
      /\ \E l \in {"catching", "releasing", "closing", "done"} : pc' = [pc EXCEPT ![r] = l]
      /\ code' \in {code, [code EXCEPT ![r] = "kept"]}
      /\ todo' \in {todo, [todo EXCEPT ![r] = Keys(r)]}
      /\ pc'[r] = "catching" => pc[r] = "recording" /\ code'[r] = "kept"
      /\ pc'[r] = "releasing" => /\ pc[r] = "catching" /\ code[r] = "releasable"
                                 /\ todo'[r] = Keys(r)
  BY DEF Record, Catch, Finally, Goto, Throw, Reply, chainVars, tableVars, ReplayInv, SubmitTypes
<1>2. Keys(r) \subseteq Auth
  BY SubmitConstants DEF Keys, ReplayInv, SubmitTypes
<1>3. SubmitTypes'
  BY <1>1, <1>2 DEF ReplayInv, SubmitTypes, Labels, Outside
<1>4. Progress'
  <2>1. \A s \in Request : Keys(s)' = Keys(s) /\ Sponsor(s)' = Sponsor(s)
                            /\ Transmitted(s)' = Transmitted(s)
    BY <1>1 DEF Keys, Sponsor, Transmitted
  <2> QED
    BY <1>1, <2>1 DEF ReplayInv, SubmitTypes, Progress
<1>5. \A s \in Request \ {r} : pc'[s] = pc[s] /\ todo'[s] = todo[s]
  BY <1>1 DEF ReplayInv, SubmitTypes
<1>6. /\ \A k \in Auth : Holding(r, k)' => Holding(r, k)
      /\ Cleared(r)' => Cleared(r)
  <2>1. /\ pc'[r] \in {"catching", "releasing", "closing", "done"}
        /\ pc'[r] \in {"catching", "releasing"} => pc[r] \in {"recording", "catching"}
    BY <1>1 DEF ReplayInv, SubmitTypes
  <2> QED
    BY <1>1, <2>1 DEF Holding, Cleared, Transmitted, Keys, Sponsor
<1> QED
  BY <1>1, <1>3, <1>4, <1>5, <1>6, HandlerStep DEF ReplayInv

\* The key that goes is held by r, so nobody else holds it while it is good.
LEMMA ReleaseStep == ASSUME ReplayInv, NEW r \in Request, Release(r) PROVE ReplayInv'
<1> USE SubmitConstants
<1>1. /\ envelope' = envelope /\ ledger' = ledger /\ purgeAt' = purgeAt /\ tx' = tx /\ code' = code
      /\ pc[r] = "releasing"
      /\ \/ pc' = [pc EXCEPT ![r] = "closing"] /\ reserved' = reserved
            /\ todo' \in {todo, [todo EXCEPT ![r] = {}]}
         \/ \E k \in todo[r] :
              /\ reserved' = reserved \ {k}
              /\ \/ pc' = pc /\ todo' = [todo EXCEPT ![r] = @ \ {k}]
                 \/ pc' = [pc EXCEPT ![r] = "closing"] /\ todo' = [todo EXCEPT ![r] = {}]
  BY DEF Release, Reply, chainVars
<1>2. SubmitTypes'
  BY <1>1 DEF ReplayInv, SubmitTypes, Labels, Outside
<1>3. Progress'
  BY <1>1 DEF ReplayInv, SubmitTypes, Progress, Transmitted, Sponsor, Keys
<1>4. ~Transmitted(r) /\ ~Transmitted(r)'
  BY <1>1 DEF ReplayInv, Progress, Transmitted
<1>5. \A s \in Request \ {r} : pc'[s] = pc[s] /\ todo'[s] = todo[s] /\ tx'[s] = tx[s]
  BY <1>1 DEF ReplayInv, SubmitTypes
<1>6. \A s \in Request \ {r} : /\ \A k \in Auth : Holding(s, k)' => Holding(s, k)
                               /\ Cleared(s)' => Cleared(s)
  BY <1>1, <1>5 DEF Holding, Cleared, Keys, Sponsor, Transmitted
<1>7. \A k \in Auth : Holding(r, k)' => Holding(r, k) /\ k \in todo'[r] /\ pc'[r] = "releasing"
  BY <1>1, <1>4 DEF ReplayInv, SubmitTypes, Holding, Keys
<1>8. ~Cleared(r)'
  BY <1>1, <1>4 DEF ReplayInv, SubmitTypes, Cleared
<1>9. ASSUME NEW s \in Request, NEW k \in Auth, k \in reserved, Holding(s, k)',
             ledger' <= Expiration[k]
      PROVE  k \in reserved'
  <2> SUFFICES ASSUME k \notin reserved' PROVE FALSE
    OBVIOUS
  <2>1. k \in todo[r] /\ reserved' = reserved \ {k}
    BY <1>1, <1>9
  <2>2. CASE s = r
    BY <2>1, <2>2, <1>1, <1>7, <1>9 DEF ReplayInv, SubmitTypes
  <2>3. CASE s # r
    <3>1. Holding(s, k)
      BY <2>3, <1>6, <1>9
    <3>2. CASE k \in Keys(r)
      <4>1. Holding(r, k)
        BY <2>1, <3>2, <1>1 DEF Holding
      <4>2. ledger > Expiration[k]
        BY <4>1, <3>1, <2>3 DEF ReplayInv, OneHolder
      <4> QED
        BY <4>2, <1>1, <1>9 DEF ReplayInv, SubmitTypes
    <3>3. CASE k \notin Keys(r)
      BY <2>1, <3>3, <1>1 DEF ReplayInv, Progress
    <3> QED
      BY <3>2, <3>3
  <2> QED
    BY <2>2, <2>3
<1>10. Quiet
  BY <1>1, <1>6, <1>7, <1>8, <1>9 DEF Quiet, ReplayInv, SubmitTypes
<1> QED
  BY <1>2, <1>3, <1>10, QuietStep DEF ReplayInv

\* The environment: purge, crash, breaker, ledgers and transactions.
LEMMA EnvironmentStep ==
  ASSUME ReplayInv,
         \/ BreakerDue \/ PurgeRead \/ PurgeDelete \/ Crash \/ CloseLedger
         \/ \E r \in Request : Apply(r)
         \/ UNCHANGED vars
  PROVE  ReplayInv'
<1> USE SubmitConstants
<1>1. /\ envelope' = envelope /\ todo' = todo /\ code' = code
      /\ ledger' \in Nat /\ ledger <= ledger'
      /\ purgeAt' \in Nat /\ purgeAt' <= ledger'
      /\ pc' \in [Request -> Labels]
      /\ \A r \in Request : pc'[r] \in {pc[r], "lost"}
      /\ tx' \in [Request -> {NoTx, "pending", "landed", "failed"}]
      /\ \A r \in Request : Transmitted(r)' <=> Transmitted(r)
      /\ \A k \in Auth : k \in reserved /\ ledger' <= Expiration[k] => k \in reserved'
  <2> USE DEF ReplayInv, SubmitTypes, handlerVars, processVars, tableVars, chainVars, Transmitted
  <2>1. CASE BreakerDue \/ PurgeRead \/ UNCHANGED vars
    BY <2>1 DEF BreakerDue, PurgeRead, vars
  <2>2. CASE PurgeDelete
    BY <2>2 DEF PurgeDelete
  <2>3. CASE Crash
    BY <2>3 DEF Crash, Labels, Outside
  <2>4. CASE CloseLedger
    BY <2>4 DEF CloseLedger
  <2>5. ASSUME NEW r \in Request, Apply(r)
        PROVE  /\ UNCHANGED <<envelope, todo, code, ledger, purgeAt, pc, reserved>>
               /\ tx' \in [Request -> {NoTx, "pending", "landed", "failed"}]
               /\ \A s \in Request : Transmitted(s)' <=> Transmitted(s)
    BY <2>5 DEF Apply, NoTx
  <2> QED
    BY <2>1, <2>2, <2>3, <2>4, <2>5
<1>2. SubmitTypes'
  BY <1>1 DEF ReplayInv, SubmitTypes
<1>3. Progress'
  BY <1>1 DEF ReplayInv, Progress, Sponsor, Keys
<1>4. Quiet
  BY <1>1 DEF Quiet, Holding, Cleared, Keys, Sponsor
<1> QED
  BY <1>2, <1>3, <1>4, QuietStep DEF ReplayInv

LEMMA NextReplay == ReplayInv /\ [Next]_vars => ReplayInv'
<1> SUFFICES ASSUME ReplayInv, [Next]_vars PROVE ReplayInv'
  OBVIOUS
<1>1. ASSUME NEW r \in Request, Submit(r) PROVE ReplayInv'
  BY <1>1, EntryStep, ReserveStep, SimulateStep, SendStep, RelayStep, AnswerStep, ReleaseStep
     DEF Submit
<1> QED
  BY <1>1, EnvironmentStep DEF Next

\* The invariant both results below follow from: whoever may still send or has
\* sent an authorization that is good holds its row, and nobody else does.
THEOREM ReplayInvariant == Spec => []ReplayInv
  BY InitReplay, NextReplay, PTL DEF Spec

\* Issue 416 for any number of requests, retries, purges and crashes: a release
\* never follows a send, and a purge never frees an authorization that is good.
THEOREM SendsStayReserved == Spec => []SentStaysReserved
<1>1. ReplayInv => SentStaysReserved
  <2> SUFFICES ASSUME ReplayInv, NEW r \in Request, NEW k \in Keys(r), Transmitted(r),
                      ledger <= Expiration[k]
               PROVE  k \in reserved
    BY DEF SentStaysReserved
  <2>1. k \in Auth
    BY SubmitConstants DEF ReplayInv, SubmitTypes, Keys
  <2> QED
    BY <2>1 DEF ReplayInv, HeldIsReserved, Holding
<1> QED
  BY <1>1, ReplayInvariant, PTL

\* The chain's nonce check is never what stops a copy: no two submissions send
\* one good authorization, and the sponsor never pays for it twice.
THEOREM NoAuthorizationSentTwice == Spec => []AuthorizationSentOnce
<1>1. ReplayInv => AuthorizationSentOnce
  <2> SUFFICES ASSUME ReplayInv, NEW r \in Request, NEW s \in Request, r # s,
                      Transmitted(r), Transmitted(s), NEW k \in Keys(r) \cap Keys(s)
               PROVE  ledger > Expiration[k] /\ ~(Sponsor(r) /\ Sponsor(s))
    BY DEF AuthorizationSentOnce
  <2>1. k \in Auth
    BY SubmitConstants DEF ReplayInv, SubmitTypes, Keys
  <2>2. ledger > Expiration[k]
    BY <2>1 DEF ReplayInv, OneHolder, Holding
  <2>3. ~(Sponsor(r) /\ Sponsor(s))
    BY <2>1 DEF ReplayInv, OnePayer, Cleared
  <2> QED
    BY <2>2, <2>3
<1> QED
  BY <1>1, ReplayInvariant, PTL

------------------------------------------------------------------------------
(***************************************************************************)
(* What a send is accounted for by: its scope, its meter and its answer.   *)
(***************************************************************************)
\* A submission on its way to the network is in scope; one the sponsor is about
\* to send is metered; one that is being recorded has landed.
SendBooks ==
  \A r \in Request :
    /\ pc[r] \in {"reserving", "submitting", "metering", "sending", "polling", "relaying"} => InScope(r)
    /\ Transmitted(r) => Subjects(r) \subseteq Known
    /\ pc[r] = "sending" => r \in metered
    /\ Transmitted(r) /\ Sponsor(r) => r \in metered
    /\ pc[r] = "recording" /\ Sponsor(r) => tx[r] = "landed"

Landed(e) == \E s \in Request : envelope[s] = e /\ tx[s] = "landed"

\* The dedup map knows a sponsored envelope only once it was applied.
AnswersReal ==
  /\ DOMAIN answer = Request
  /\ \A e \in dedup : e \in Sponsored => Landed(e)
  /\ AnswerIsReal

\* Envelopes are fixed and what has landed stays landed.
LEMMA LandedStays ==
  ASSUME ReplayInv, [Next]_vars
  PROVE  envelope' = envelope /\ \A e : Landed(e) => Landed(e)'
<1>1. envelope' = envelope /\ \A s \in Request : tx[s] = "landed" => tx'[s] = "landed"
  <2> USE DEF handlerVars, processVars, tableVars, chainVars
  <2>1. ASSUME NEW r \in Request, Submit(r)
        PROVE  envelope' = envelope /\ (tx' = tx \/ Transmit(r))
    BY <2>1 DEF Submit, Lookup, Start, Scope, Reserve, Simulate, Consume, Send, Poll, Relay, RelaySend,
       RelaySucceeds, RelayFails, Record, Catch, Release, Finally
  <2>2. ASSUME NEW r \in Request, Transmit(r), NEW s \in Request, tx[s] = "landed"
        PROVE  tx'[s] = "landed"
    BY <2>2 DEF Transmit, Transmitted, ReplayInv, SubmitTypes, NoTx
  <2>3. ASSUME NEW r \in Request, Apply(r)
        PROVE  envelope' = envelope /\ \A s \in Request : tx[s] = "landed" => tx'[s] = "landed"
    BY <2>3 DEF Apply, ReplayInv, SubmitTypes
  <2>4. CASE BreakerDue \/ PurgeRead \/ PurgeDelete \/ Crash \/ CloseLedger \/ UNCHANGED vars
    BY <2>4 DEF BreakerDue, PurgeRead, PurgeDelete, Crash, CloseLedger, vars
  <2> QED BY <2>1, <2>2, <2>3, <2>4 DEF Next
<1> QED BY <1>1 DEF Landed

\* A handler's step that sends nothing keeps the books of the other handlers.
LEMMA BooksOfOthers ==
  ASSUME ReplayInv, SendBooks, NEW r \in Request, envelope' = envelope, metered \subseteq metered',
         NEW label \in Labels, pc' = [pc EXCEPT ![r] = label],
         \A s \in Request \ {r} : tx'[s] = tx[s],
         label \in {"reserving", "submitting", "metering", "sending", "polling", "relaying"} => InScope(r),
         Transmitted(r)' => Subjects(r) \subseteq Known,
         label = "sending" => r \in metered',
         Transmitted(r)' /\ Sponsor(r) => r \in metered',
         label = "recording" /\ Sponsor(r) => tx'[r] = "landed"
  PROVE  SendBooks'
<1>1. \A s \in Request : /\ Subjects(s)' = Subjects(s) /\ Sponsor(s)' = Sponsor(s)
                         /\ InScope(s)' = InScope(s)
  BY DEF Subjects, Sponsor, InScope, Keys
<1>2. \A s \in Request \ {r} : pc'[s] = pc[s] /\ Transmitted(s)' = Transmitted(s)
  BY DEF ReplayInv, SubmitTypes, Transmitted
<1>3. pc'[r] = label
  BY DEF ReplayInv, SubmitTypes
<1> QED BY <1>1, <1>2, <1>3 DEF SendBooks

LEMMA NextBooks == ReplayInv /\ SendBooks /\ [Next]_vars => SendBooks'
<1> SUFFICES ASSUME ReplayInv, SendBooks, [Next]_vars PROVE SendBooks'
  OBVIOUS
<1> USE DEF chainVars, tableVars
<1>e. envelope' = envelope
  BY LandedStays
<1>1. ASSUME NEW r \in Request, Lookup(r) \/ Start(r) \/ Scope(r) \/ Reserve(r) \/ Simulate(r) PROVE SendBooks'
  <2>1. /\ tx' = tx /\ metered' = metered
        /\ \E l \in {"missed", "scoping", "reserving", "submitting", "metering", "catching", "closing", "done"} :
             /\ pc' = [pc EXCEPT ![r] = l]
             /\ l = "reserving" => InScope(r)
             /\ l = "submitting" => pc[r] = "reserving"
             /\ l = "metering" => pc[r] = "submitting"
    BY <1>1 DEF Lookup, Start, Scope, Reserve, Simulate, Goto, Reply, Throw
  <2> QED BY <1>e, <2>1, BooksOfOthers DEF SendBooks, Transmitted, Labels, Outside
<1>2. ASSUME NEW r \in Request, Consume(r) PROVE SendBooks'
  <2>1. /\ tx' = tx /\ metered \subseteq metered' /\ pc[r] = "metering"
        /\ \E l \in {"sending", "catching"} : /\ pc' = [pc EXCEPT ![r] = l]
                                              /\ l = "sending" => r \in metered'
    BY <1>2 DEF Consume, Goto, Throw
  <2> QED BY <1>e, <2>1, BooksOfOthers DEF SendBooks, Transmitted, Labels
<1>3. ASSUME NEW r \in Request, Send(r) PROVE SendBooks'
  <2>1. /\ metered' = metered /\ pc[r] = "sending"
        /\ \E l \in {"polling", "catching"} : pc' = [pc EXCEPT ![r] = l]
        /\ \A s \in Request \ {r} : tx'[s] = tx[s]
    BY <1>3 DEF Send, Transmit, Goto, Throw, ReplayInv, SubmitTypes
  <2> QED BY <1>e, <2>1, BooksOfOthers DEF SendBooks, InScope, Labels
<1>4. ASSUME NEW r \in Request, Poll(r) PROVE SendBooks'
  <2>1. /\ metered' = metered /\ tx' = tx
        /\ \E l \in {"recording", "catching"} : /\ pc' = [pc EXCEPT ![r] = l]
                                                /\ l = "recording" => tx[r] = "landed"
    BY <1>4 DEF Poll, Resolve, Goto, Throw
  <2> QED BY <1>e, <2>1, BooksOfOthers DEF SendBooks, Transmitted, Labels
<1>5. ASSUME NEW r \in Request, Relay(r) PROVE SendBooks'
  <2>1. /\ metered' = metered /\ tx' = tx /\ pc[r] = "submitting"
        /\ \E l \in {"relaying", "catching"} : pc' = [pc EXCEPT ![r] = l]
    BY <1>5 DEF Relay, Goto, Throw
  <2> QED BY <1>e, <2>1, BooksOfOthers DEF SendBooks, Transmitted, Labels
<1>6. ASSUME NEW r \in Request, RelaySend(r) PROVE SendBooks'
  <2>1. /\ metered' = metered /\ pc[r] = "relaying" /\ ~Sponsor(r)
        /\ \E l \in {"relaying", "recording", "catching"} : pc' = [pc EXCEPT ![r] = l]
        /\ \A s \in Request \ {r} : tx'[s] = tx[s]
    BY <1>6 DEF RelaySend, RelaySucceeds, RelayFails, Resolve, Transmit, Goto, Throw, ReplayInv, SubmitTypes,
       Progress
  <2> QED BY <1>e, <2>1, BooksOfOthers DEF SendBooks, InScope, Labels
<1>7. ASSUME NEW r \in Request, Record(r) \/ Catch(r) \/ Release(r) \/ Finally(r) PROVE SendBooks'
  <2>1. /\ metered' = metered /\ tx' = tx
        /\ \E l \in {"catching", "releasing", "closing", "done"} : pc' = [pc EXCEPT ![r] = l]
    BY <1>7 DEF Record, Catch, Release, Finally, Goto, Throw, Reply, ReplayInv, SubmitTypes
  <2> QED BY <1>e, <2>1, BooksOfOthers DEF SendBooks, Transmitted, Labels, Outside
<1>8. CASE \/ BreakerDue \/ PurgeRead \/ PurgeDelete \/ Crash \/ CloseLedger \/ UNCHANGED vars
           \/ \E r \in Request : Apply(r)
  <2>1. metered' = metered /\ \A s \in Request : pc'[s] \in {pc[s], "lost"}
    BY <1>8 DEF BreakerDue, PurgeRead, PurgeDelete, Crash, CloseLedger, Apply, vars, handlerVars,
       ReplayInv, SubmitTypes
  <2>2. \A s \in Request : /\ Transmitted(s)' = Transmitted(s)
                           /\ tx[s] = "landed" => tx'[s] = "landed"
    BY <1>8 DEF BreakerDue, PurgeRead, PurgeDelete, Crash, CloseLedger, Apply, vars,
       ReplayInv, SubmitTypes, Transmitted, NoTx
  <2> QED BY <1>e, <2>1, <2>2 DEF SendBooks, Subjects, Sponsor, InScope, Keys
<1> QED BY <1>1, <1>2, <1>3, <1>4, <1>5, <1>6, <1>7, <1>8 DEF Next, Submit

LEMMA NextAnswers == ReplayInv /\ SendBooks /\ AnswersReal /\ [Next]_vars => AnswersReal'
<1> SUFFICES ASSUME ReplayInv, SendBooks, AnswersReal, [Next]_vars PROVE AnswersReal'
  OBVIOUS
<1> USE DEF handlerVars, processVars
<1>1. \/ UNCHANGED <<dedup, answer>>
      \/ dedup' = {} /\ UNCHANGED answer
      \/ \E r \in Request : \/ dedup' = dedup \cup {envelope[r]} /\ UNCHANGED answer
                               /\ (Sponsor(r) => tx[r] = "landed")
                            \/ dedup' = dedup /\ \E a \in {"403", "409", "500", "502", "503"} :
                                 answer' = [answer EXCEPT ![r] = a]
                            \/ dedup' = dedup /\ envelope[r] \in dedup /\ answer' = [answer EXCEPT ![r] = "cached"]
                            \/ dedup' = dedup /\ pc[r] = "recording" /\ answer' = [answer EXCEPT ![r] = "200"]
  <2>1. ASSUME NEW r \in Request, Submit(r)
        PROVE  \/ UNCHANGED <<dedup, answer>>
               \/ dedup' = dedup \cup {envelope[r]} /\ UNCHANGED answer /\ (Sponsor(r) => tx[r] = "landed")
               \/ dedup' = dedup /\ \E a \in {"403", "409", "500", "502", "503"} :
                    answer' = [answer EXCEPT ![r] = a]
               \/ dedup' = dedup /\ envelope[r] \in dedup /\ answer' = [answer EXCEPT ![r] = "cached"]
               \/ dedup' = dedup /\ pc[r] = "recording" /\ answer' = [answer EXCEPT ![r] = "200"]
    <3>1. CASE Lookup(r) \/ Start(r)
      BY <3>1 DEF Lookup, Start
    <3>2. CASE Scope(r) \/ Reserve(r)
      BY <3>2 DEF Scope, Reserve, Reply
    <3>3. CASE Simulate(r) \/ Consume(r) \/ Send(r) \/ Relay(r) \/ Finally(r)
      BY <3>3 DEF Simulate, Consume, Send, Relay, Finally
    <3>4. CASE Poll(r)
      BY <3>4 DEF Poll, Resolve
    <3>5. CASE RelaySend(r)
      BY <3>5 DEF RelaySend, RelaySucceeds, RelayFails, Resolve, ReplayInv, Progress
    <3>6. CASE Record(r)
      BY <3>6 DEF Record, Reply
    <3>7. CASE Catch(r) \/ Release(r)
      BY <3>7 DEF Catch, Release, Reply
    <3> QED BY <2>1, <3>1, <3>2, <3>3, <3>4, <3>5, <3>6, <3>7 DEF Submit
  <2>2. CASE \/ BreakerDue \/ PurgeRead \/ PurgeDelete \/ CloseLedger \/ UNCHANGED vars
             \/ \E r \in Request : Apply(r)
    BY <2>2 DEF BreakerDue, PurgeRead, PurgeDelete, CloseLedger, Apply, vars
  <2>3. CASE Crash
    BY <2>3 DEF Crash
  <2> QED BY <2>1, <2>2, <2>3 DEF Next
<1>2. envelope' = envelope /\ \A e : Landed(e) => Landed(e)'
  BY LandedStays
<1>3. DOMAIN answer' = Request
  BY <1>1 DEF AnswersReal
<1>4. \A e \in dedup' : e \in Sponsored => Landed(e)
  BY <1>1 DEF AnswersReal, Landed, Sponsor
<1>5. \A s \in Request : answer'[s] \in {"200", "cached"} /\ Sponsor(s) => Landed(envelope[s])
  <2> SUFFICES ASSUME NEW s \in Request, answer'[s] \in {"200", "cached"}, Sponsor(s)
               PROVE  Landed(envelope[s])
    OBVIOUS
  <2>1. CASE answer'[s] = answer[s]
    BY <2>1 DEF AnswersReal, AnswerIsReal, Landed
  <2>2. CASE answer'[s] # answer[s]
    <3>1. envelope[s] \in dedup \/ pc[s] = "recording"
      BY <1>1, <2>2 DEF AnswersReal
    <3> QED BY <3>1 DEF AnswersReal, SendBooks, Landed, Sponsor
  <2> QED BY <2>1, <2>2
<1> QED BY <1>2, <1>3, <1>4, <1>5 DEF AnswersReal, AnswerIsReal, Landed, Sponsor


------------------------------------------------------------------------------
(***************************************************************************)
(* The in-flight tracker counts.                                           *)
(***************************************************************************)
\* The auth entries for w of one request, and those of all submissions between
\* start and finally.
Mine(r, w) == {e \in {r} \X Auth : e[2] \in Keys(r) /\ AddressOf[e[2]] = w}

Load(w) == {e \in Request \X Auth :
              /\ pc[e[1]] \notin Outside
              /\ e[2] \in Keys(e[1]) /\ AddressOf[e[2]] = w}

LoadFinite == \A w \in Wallet : IsFiniteSet(Load(w))

\* What start adds for a subject is what the request has of it.
LEMMA MineCounts ==
  ASSUME ReplayInv, NEW r \in Request, NEW w \in Wallet
  PROVE  IsFiniteSet(Mine(r, w)) /\ Cardinality(Mine(r, w)) = Entries(r, w) /\ Entries(r, w) \in Nat
<1> DEFINE S == {k \in Keys(r) : AddressOf[k] = w}
           f == [k \in S |-> <<r, k>>]
<1>1. Keys(r) \subseteq Auth /\ IsFiniteSet(Keys(r))
  BY SubmitConstants DEF Keys, ReplayInv, SubmitTypes
<1>2. IsFiniteSet(S)
  BY <1>1, FS_Subset
<1>3. f \in Bijection(S, Mine(r, w))
  <2>1. f \in [S -> Mine(r, w)]
    BY <1>1 DEF Mine
  <2>2. \A e \in Mine(r, w) : e[2] \in S /\ e = f[e[2]]
    BY DEF Mine
  <2>3. \A j, k \in S : f[j] = f[k] => j = k
    OBVIOUS
  <2> QED BY <2>1, <2>2, <2>3 DEF Bijection, Injection, Surjection, IsInjective
<1>4. ExistsBijection(S, Mine(r, w))
  BY <1>3 DEF ExistsBijection
<1> QED BY <1>2, <1>4, FS_Bijection, FS_CardinalityType DEF Entries

LEMMA InitTracker == Init => LoadFinite /\ InFlightBalanced
<1> SUFFICES ASSUME Init PROVE LoadFinite /\ InFlightBalanced
  OBVIOUS
<1>1. \A w \in Wallet : Load(w) = {}
  BY DEF Init, Load, Outside
<1> QED BY <1>1, FS_EmptySet DEF Init, LoadFinite, InFlightBalanced, Load

\* Nobody enters or leaves: the load stays as it is.
LEMMA LoadStays ==
  ASSUME LoadFinite, InFlightBalanced, envelope' = envelope, inFlight' = inFlight,
         \A s \in Request : pc'[s] \in Outside <=> pc[s] \in Outside
  PROVE  LoadFinite' /\ InFlightBalanced'
<1>1. \A w \in Wallet : Load(w)' = Load(w)
  BY DEF Load, Keys
<1> QED BY <1>1 DEF LoadFinite, InFlightBalanced, Load

LEMMA NextTracker == ReplayInv /\ LoadFinite /\ InFlightBalanced /\ [Next]_vars => LoadFinite' /\ InFlightBalanced'
<1> SUFFICES ASSUME ReplayInv, LoadFinite, InFlightBalanced, [Next]_vars PROVE LoadFinite' /\ InFlightBalanced'
  OBVIOUS
<1> USE DEF processVars, handlerVars
<1>e. envelope' = envelope
  BY LandedStays
<1>b. \A w \in Wallet : inFlight[w] = Cardinality(Load(w)) /\ Cardinality(Load(w)) \in Nat
  BY FS_CardinalityType DEF LoadFinite, InFlightBalanced, Load
<1>1. ASSUME NEW r \in Request, Start(r) PROVE LoadFinite' /\ InFlightBalanced'
  <2>1. /\ pc[r] = "missed" /\ pc' = [pc EXCEPT ![r] = "scoping"]
        /\ inFlight' = [w \in Wallet |-> inFlight[w] + Entries(r, w)]
    BY <1>1 DEF Start, Goto
  <2>2. ASSUME NEW w \in Wallet
        PROVE  Load(w)' = Load(w) \cup Mine(r, w) /\ Load(w) \cap Mine(r, w) = {}
    <3>1. \A s \in Request : pc'[s] = IF s = r THEN "scoping" ELSE pc[s]
      BY <2>1 DEF ReplayInv, SubmitTypes
    <3> QED BY <1>e, <2>1, <3>1 DEF Load, Mine, Keys, Outside
  <2>3. ASSUME NEW w \in Wallet
        PROVE  IsFiniteSet(Load(w)') /\ Cardinality(Load(w)') = inFlight[w] + Entries(r, w)
    <3>1. IsFiniteSet(Load(w)) /\ IsFiniteSet(Mine(r, w)) /\ Cardinality(Mine(r, w)) = Entries(r, w)
          /\ Entries(r, w) \in Nat
      BY MineCounts DEF LoadFinite
    <3>2. Cardinality(Load(w) \cap Mine(r, w)) = 0
      BY <2>2, FS_EmptySet
    <3>3. /\ IsFiniteSet(Load(w) \cup Mine(r, w))
          /\ Cardinality(Load(w) \cup Mine(r, w)) = Cardinality(Load(w)) + Cardinality(Mine(r, w))
      <4>1. /\ IsFiniteSet(Load(w) \cup Mine(r, w))
            /\ Cardinality(Load(w) \cup Mine(r, w)) =
                 Cardinality(Load(w)) + Cardinality(Mine(r, w)) - Cardinality(Load(w) \cap Mine(r, w))
        BY <3>1, FS_Union
      <4> QED BY <1>b, <3>1, <3>2, <4>1
    <3> QED BY <1>b, <2>2, <3>1, <3>3
  <2> QED BY <2>1, <2>3 DEF LoadFinite, InFlightBalanced, Load
<1>2. ASSUME NEW r \in Request, Finally(r) PROVE LoadFinite' /\ InFlightBalanced'
  <2>1. /\ pc[r] = "closing" /\ pc' = [pc EXCEPT ![r] = "done"]
        /\ inFlight' = [w \in Wallet |-> inFlight[w] - Entries(r, w)]
    BY <1>2 DEF Finally, Goto
  <2>2. ASSUME NEW w \in Wallet
        PROVE  Load(w)' = Load(w) \ Mine(r, w) /\ Load(w) \cap Mine(r, w) = Mine(r, w)
    <3>1. \A s \in Request : pc'[s] = IF s = r THEN "done" ELSE pc[s]
      BY <2>1 DEF ReplayInv, SubmitTypes
    <3> QED BY <1>e, <2>1, <3>1 DEF Load, Mine, Keys, Outside
  <2>3. ASSUME NEW w \in Wallet
        PROVE  IsFiniteSet(Load(w)') /\ Cardinality(Load(w)') = inFlight[w] - Entries(r, w)
    <3>1. IsFiniteSet(Load(w)) /\ Cardinality(Mine(r, w)) = Entries(r, w)
      BY MineCounts DEF LoadFinite
    <3>2. /\ IsFiniteSet(Load(w) \ Mine(r, w))
          /\ Cardinality(Load(w) \ Mine(r, w)) = Cardinality(Load(w)) - Cardinality(Load(w) \cap Mine(r, w))
      BY <3>1, FS_Difference
    <3> QED BY <1>b, <2>2, <3>1, <3>2
  <2> QED BY <2>1, <2>3 DEF LoadFinite, InFlightBalanced, Load
<1>3. ASSUME NEW r \in Request, Lookup(r) PROVE LoadFinite' /\ InFlightBalanced'
  <2>1. inFlight' = inFlight /\ pc[r] = "idle" /\ \E l \in {"done", "missed"} : pc' = [pc EXCEPT ![r] = l]
    BY <1>3 DEF Lookup, Goto
  <2> QED BY <1>e, <2>1, LoadStays DEF Outside, ReplayInv, SubmitTypes
<1>4. ASSUME NEW r \in Request, \/ Scope(r) \/ Reserve(r) \/ Simulate(r) \/ Consume(r) \/ Send(r) \/ Poll(r)
                                \/ Relay(r) \/ RelaySend(r) \/ Record(r) \/ Catch(r) \/ Release(r)
      PROVE  LoadFinite' /\ InFlightBalanced'
  <2>1. inFlight' = inFlight /\ pc[r] \notin Outside
    BY <1>4 DEF Scope, Reserve, Simulate, Consume, Send, Poll, Relay, RelaySend, Record, Catch, Release, Outside
  <2>2. \E l \in Labels \ Outside : pc' = [pc EXCEPT ![r] = l]
    <3>1. CASE Scope(r) \/ Reserve(r) \/ Simulate(r) \/ Consume(r)
      BY <3>1 DEF Scope, Reserve, Simulate, Consume, Goto, Reply, Throw, Labels, Outside
    <3>2. CASE Send(r) \/ Poll(r) \/ Relay(r)
      BY <3>2 DEF Send, Poll, Relay, Resolve, Goto, Throw, Labels, Outside
    <3>3. CASE RelaySend(r)
      BY <3>3 DEF RelaySend, RelaySucceeds, RelayFails, Resolve, Goto, Throw, Labels, Outside, ReplayInv, SubmitTypes
    <3>4. CASE Record(r) \/ Catch(r)
      BY <3>4 DEF Record, Catch, Goto, Reply, Throw, Labels, Outside
    <3>5. CASE Release(r)
      BY <3>5 DEF Release, Reply, Labels, Outside, ReplayInv, SubmitTypes
    <3> QED BY <1>4, <3>1, <3>2, <3>3, <3>4, <3>5
  <2> QED BY <1>e, <2>1, <2>2, LoadStays DEF ReplayInv, SubmitTypes
<1>5. CASE Crash
  <2>1. \A s \in Request : pc'[s] \in {"idle", "done", "lost"}
    BY <1>5 DEF Crash, Running
  <2>2. \A w \in Wallet : Load(w)' = {}
    BY <2>1 DEF Load, Outside
  <2>3. inFlight' = [w \in Wallet |-> 0]
    BY <1>5 DEF Crash
  <2> QED BY <2>2, <2>3, FS_EmptySet DEF LoadFinite, InFlightBalanced, Load
<1>6. CASE \/ BreakerDue \/ PurgeRead \/ PurgeDelete \/ CloseLedger \/ UNCHANGED vars
           \/ \E r \in Request : Apply(r)
  <2>1. UNCHANGED <<inFlight, pc>>
    BY <1>6 DEF BreakerDue, PurgeRead, PurgeDelete, CloseLedger, Apply, vars
  <2> QED BY <1>e, <2>1, LoadStays
<1> QED BY <1>1, <1>2, <1>3, <1>4, <1>5, <1>6 DEF Next, Submit

\* SendsAccounted: for any number of requests, crashes and retries, nothing is sent
\* for a wallet the server did not create, nothing sponsored is sent unmetered, the
\* tracker counts exactly the submissions under way, and every hash answered for a
\* sponsored envelope is of an applied transaction.
THEOREM SendsAreAccounted == Spec => []SendsAccounted
<1>1. Init => SendBooks /\ AnswersReal
  <2> SUFFICES ASSUME Init PROVE SendBooks /\ AnswersReal
    OBVIOUS
  <2>1. \A r \in Request : pc[r] = "idle" /\ ~Transmitted(r) /\ answer[r] = "none"
    BY DEF Init, Transmitted
  <2>2. dedup = {} /\ DOMAIN answer = Request
    BY DEF Init
  <2> QED BY <2>1, <2>2 DEF SendBooks, AnswersReal, AnswerIsReal
<1>2. SendBooks /\ AnswersReal /\ InFlightBalanced => SendsAccounted
  BY DEF SendBooks, AnswersReal, SendsAccounted, OnlyKnownWalletsFunded, SponsoredSendMetered
<1> QED BY <1>1, <1>2, InitTracker, NextTracker, NextBooks, NextAnswers, ReplayInvariant, PTL DEF Spec

==============================================================================
