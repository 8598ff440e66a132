---------------------------- MODULE WalletSubmit ----------------------------
(***************************************************************************)
(* POST /wallet/submit of wallet-service: a signed envelope is looked up in *)
(* the dedup map, scoped to wallets the server created, its authorizations *)
(* are reserved in submission_replay, and it is sent by the sponsor or by  *)
(* the relayer.  A reservation is released only after a failure that       *)
(* provably came before any send; a timer purges expired reservations.     *)
(*                                                                         *)
(* An authorization is an (address, nonce) pair.  Envelopes are re-wrapped *)
(* freely, so two of them may carry the same authorization.  One await is  *)
(* one step.  The dedup map, the in-flight counts and the circuit breaker  *)
(* live in the process and are lost when it crashes; the reservations are  *)
(* rows and survive.  The signature expiration is signed, so it belongs to *)
(* the authorization.  A statement or a call that throws may have taken    *)
(* effect.                                                                 *)
(***************************************************************************)
EXTENDS Integers, FiniteSets

CONSTANTS
  Request,           \* POST /wallet/submit calls
  Envelope,          \* signed XDRs
  Auth,              \* (address, nonce) pairs
  Wallet,            \* credential addresses
  KeysOf,            \* envelope -> extractReplayKeys
  AddressOf,         \* authorization -> wallet
  Expiration,        \* authorization -> signatureExpirationLedger
  Sponsored,         \* envelopes for which needsSponsorRebuild holds
  Known,             \* wallets the server created
  maxRetries,
  failureThreshold,
  MaxLedger,         \* bound on the ledger sequence
  MaxCrashes         \* bound on the crashes of the process

ASSUME SubmitConstants ==
  /\ KeysOf \in [Envelope -> SUBSET Auth]
  /\ \A e \in Envelope : IsFiniteSet(KeysOf[e])
  /\ AddressOf \in [Auth -> Wallet]
  /\ Expiration \in [Auth -> Nat]
  /\ Sponsored \subseteq Envelope
  /\ Known \subseteq Wallet
  /\ maxRetries \in Nat
  /\ failureThreshold \in Nat
  /\ MaxLedger \in Nat
  /\ MaxCrashes \in Nat

VARIABLES
  pc,          \* request -> where its handler is
  envelope,    \* request -> the signedXdr of its body
  answer,      \* request -> what the client is told
  code,        \* request -> is the caught error's code releasable?
  todo,        \* request -> authorizations it has still to release
  attempt,     \* request -> the relayer attempt
  dedup,       \* envelopes in the submissionDedup map
  inFlight,    \* wallet -> submissions the tracker counts
  breaker,     \* the relayer's circuit breaker
  reserved,    \* authorizations with a row in submission_replay
  metered,     \* requests that have a row in spend_ledger
  audit,       \* <<event, request>> rows of activity_logs
  tx,          \* request -> its transaction on the network
  ledger,      \* the chain's ledger sequence
  purgeAt,     \* the ledger the running purge read
  crashes

handlerVars == <<pc, envelope, answer, code, todo, attempt>>
processVars == <<dedup, inFlight, breaker>>
tableVars   == <<reserved, metered, audit>>
chainVars   == <<tx, ledger>>
vars        == <<handlerVars, processVars, tableVars, chainVars, purgeAt, crashes>>

Keys(r)     == KeysOf[envelope[r]]
Subjects(r) == {AddressOf[k] : k \in Keys(r)}
Sponsor(r)  == envelope[r] \in Sponsored

\* The handler goes on to another step and answers nothing yet.
Goto(r, label) == pc' = [pc EXCEPT ![r] = label]

\* The handler is about to leave through its finally block with this answer.
Reply(r, a) ==
  /\ pc' = [pc EXCEPT ![r] = "closing"]
  /\ answer' = [answer EXCEPT ![r] = a]

\* submitter.submit, or what follows it, throws into the route's catch block.
Throw(r, c) ==
  /\ pc' = [pc EXCEPT ![r] = "catching"]
  /\ code' = [code EXCEPT ![r] = c]

CLOSED_BREAKER == [state |-> "CLOSED", failures |-> 0, due |-> FALSE]

NoTx == "none"

Init ==
  /\ pc = [r \in Request |-> "idle"]
  /\ envelope \in [Request -> Envelope]
  /\ answer = [r \in Request |-> "none"]
  /\ code = [r \in Request |-> "none"]
  /\ todo = [r \in Request |-> {}]
  /\ attempt = [r \in Request |-> 0]
  /\ dedup = {}
  /\ inFlight = [w \in Wallet |-> 0]
  /\ breaker = CLOSED_BREAKER
  /\ reserved = {}
  /\ metered = {}
  /\ audit = {}
  /\ tx = [r \in Request |-> NoTx]
  /\ ledger = 0
  /\ purgeAt = 0
  /\ crashes = 0

------------------------------------------------------------------------------
\* The route up to the submitter.

Lookup(r) ==
  /\ pc[r] = "idle"
  /\ IF envelope[r] \in dedup
     THEN /\ Goto(r, "done")
          /\ answer' = [answer EXCEPT ![r] = "cached"]
     ELSE Goto(r, "missed") /\ UNCHANGED answer
  /\ UNCHANGED <<envelope, code, todo, attempt, processVars, tableVars, chainVars, purgeAt, crashes>>

Entries(r, w) == Cardinality({k \in Keys(r) : AddressOf[k] = w})

\* inFlightTracker.start for every auth entry's subject.
Start(r) ==
  /\ pc[r] = "missed"
  /\ inFlight' = [w \in Wallet |-> inFlight[w] + Entries(r, w)]
  /\ Goto(r, "scoping")
  /\ UNCHANGED <<envelope, answer, code, todo, attempt, dedup, breaker, tableVars, chainVars,
                 purgeAt, crashes>>

\* Mutant: one recognised subject is enough.
InScopeSome(r) == \E w \in Subjects(r) : w \in Known

InScope(r) == Subjects(r) # {} /\ Subjects(r) \subseteq Known

\* assertScopedToKnownWallets, and the audit of a rejection; the repository and
\* the audit log may fail.
Scope(r) ==
  /\ pc[r] = "scoping"
  /\ \/ InScope(r) /\ Goto(r, "reserving") /\ UNCHANGED <<answer, audit>>
     \/ /\ ~InScope(r)
        /\ \/ Reply(r, "403") /\ audit' = audit \cup {<<"tx.policy_rejected", r>>}
           \/ Reply(r, "500") /\ UNCHANGED audit
     \/ Reply(r, "503") /\ UNCHANGED audit
  /\ UNCHANGED <<envelope, code, todo, attempt, processVars, reserved, metered, chainVars,
                 purgeAt, crashes>>

\* replayGuard.reserve: all keys in one transaction, or none.
Reserve(r) ==
  /\ pc[r] = "reserving"
  /\ \/ /\ Keys(r) \cap reserved = {}
        /\ reserved' = reserved \cup Keys(r)
        /\ \/ Goto(r, "submitting") /\ UNCHANGED answer
           \/ Reply(r, "503")
        /\ UNCHANGED audit
     \/ /\ Keys(r) \cap reserved # {}
        /\ Reply(r, "409")
        /\ audit' \in {audit, audit \cup {<<"tx.replay_rejected", r>>}}
        /\ UNCHANGED reserved
     \/ Reply(r, "503") /\ UNCHANGED <<reserved, audit>>
  /\ UNCHANGED <<envelope, code, todo, attempt, processVars, metered, chainVars, purgeAt, crashes>>

------------------------------------------------------------------------------
\* submitter.submit, sponsor branch.

Spent(k) == \E r \in Request : tx[r] = "landed" /\ k \in Keys(r)

\* The host accepts the authorizations of r now.
Valid(r) == \A k \in Keys(r) : ledger <= Expiration[k] /\ ~Spent(k)

\* getAccount and the balance floor fail with a code that is kept; the
\* simulation and the fee cap with one that is released.
Simulate(r) ==
  /\ pc[r] = "submitting" /\ Sponsor(r)
  /\ \/ Valid(r) /\ Goto(r, "metering") /\ UNCHANGED code
     \/ \E c \in {"releasable", "kept"} : Throw(r, c)
  /\ UNCHANGED <<envelope, answer, todo, attempt, processVars, tableVars, chainVars, purgeAt, crashes>>

\* Mutant: an accounting error lets the submission through.
ConsumeOpen(r) ==
  /\ pc[r] = "metering"
  /\ \/ Goto(r, "sending") /\ metered' \in {metered, metered \cup {r}} /\ UNCHANGED code
     \/ Throw(r, "releasable") /\ UNCHANGED metered
  /\ UNCHANGED <<envelope, answer, todo, attempt, processVars, reserved, audit, chainVars,
                 purgeAt, crashes>>

\* consumeSponsorBudget; see SpendBudget for tryConsume.
Consume(r) ==
  /\ pc[r] = "metering"
  /\ \/ Goto(r, "sending") /\ metered' = metered \cup {r} /\ UNCHANGED code
     \/ Throw(r, "releasable") /\ metered' \in {metered, metered \cup {r}}
  /\ UNCHANGED <<envelope, answer, todo, attempt, processVars, reserved, audit, chainVars,
                 purgeAt, crashes>>

Transmitted(r) == tx[r] # NoTx

Transmit(r) == tx' = [tx EXCEPT ![r] = IF Transmitted(r) THEN tx[r] ELSE "pending"]

\* sendTransaction: accepted, refused with status ERROR, or no answer.
Send(r) ==
  /\ pc[r] = "sending"
  /\ \/ Transmit(r) /\ Goto(r, "polling") /\ UNCHANGED code
     \/ Throw(r, "kept") /\ (Transmit(r) \/ UNCHANGED tx)
  /\ UNCHANGED <<envelope, answer, todo, attempt, processVars, tableVars, ledger, purgeAt, crashes>>

\* submit resolves: the dedup map learns the hash before anything else runs.
Resolve(r) ==
  /\ dedup' = dedup \cup {envelope[r]}
  /\ Goto(r, "recording")

\* Mutant: a transaction that is still pending counts as done.
PollOptimistic(r) ==
  /\ pc[r] = "polling"
  /\ \/ tx[r] # "failed" /\ Resolve(r) /\ UNCHANGED code
     \/ Throw(r, "kept") /\ UNCHANGED dedup
  /\ UNCHANGED <<envelope, answer, todo, attempt, inFlight, breaker, tableVars, chainVars,
                 purgeAt, crashes>>

\* getTransaction until it answers SUCCESS or FAILED or the polling gives up.
Poll(r) ==
  /\ pc[r] = "polling"
  /\ \/ tx[r] = "landed" /\ Resolve(r) /\ UNCHANGED code
     \/ Throw(r, "kept") /\ UNCHANGED dedup
  /\ UNCHANGED <<envelope, answer, todo, attempt, inFlight, breaker, tableVars, chainVars,
                 purgeAt, crashes>>

------------------------------------------------------------------------------
\* submitter.submit, relayer branch.

BreakerOpen == breaker.state = "OPEN" /\ ~breaker.due

\* canExecute before the first attempt.
Relay(r) ==
  /\ pc[r] = "submitting" /\ ~Sponsor(r)
  /\ IF BreakerOpen
     THEN Throw(r, "releasable") /\ UNCHANGED breaker
     ELSE /\ Goto(r, "relaying")
          /\ breaker' = IF breaker.state = "OPEN"
                        THEN [breaker EXCEPT !.state = "HALF_OPEN", !.due = FALSE]
                        ELSE breaker
          /\ UNCHANGED code
  /\ UNCHANGED <<envelope, answer, todo, attempt, dedup, inFlight, tableVars, chainVars,
                 purgeAt, crashes>>

\* recordFailure.
Failed == [breaker EXCEPT
             !.failures = IF @ < failureThreshold THEN @ + 1 ELSE @,
             !.state    = IF breaker.failures + 1 >= failureThreshold THEN "OPEN" ELSE @,
             !.due      = FALSE]

RelaySucceeds(r) ==
  /\ Transmit(r)
  /\ breaker' = CLOSED_BREAKER
  /\ Resolve(r)
  /\ UNCHANGED <<attempt, code>>

\* A failed attempt may have reached the network; the next one follows a sleep
\* without asking the breaker again.
RelayFails(r) ==
  /\ Transmit(r) \/ UNCHANGED tx
  /\ breaker' = Failed
  /\ IF attempt[r] < maxRetries /\ Failed.state # "OPEN"
     THEN attempt' = [attempt EXCEPT ![r] = @ + 1] /\ UNCHANGED <<pc, code>>
     ELSE Throw(r, "kept") /\ UNCHANGED attempt
  /\ UNCHANGED dedup

RelaySend(r) ==
  /\ pc[r] = "relaying"
  /\ RelaySucceeds(r) \/ RelayFails(r)
  /\ UNCHANGED <<envelope, answer, todo, inFlight, tableVars, ledger, purgeAt, crashes>>

\* resetTimeoutMs has passed since the breaker opened.
BreakerDue ==
  /\ BreakerOpen
  /\ breaker' = [breaker EXCEPT !.due = TRUE]
  /\ UNCHANGED <<handlerVars, dedup, inFlight, tableVars, chainVars, purgeAt, crashes>>

------------------------------------------------------------------------------
\* The route after the submitter.

\* Cache invalidation and the tx.submitted rows; whatever throws here is caught
\* like a failed submission.
Record(r) ==
  /\ pc[r] = "recording"
  /\ \/ /\ audit' = audit \cup {<<"tx.submitted", r>>}
        /\ \/ Reply(r, "200") /\ UNCHANGED code
           \/ Throw(r, "kept") /\ UNCHANGED answer
     \/ Throw(r, "kept") /\ UNCHANGED <<answer, audit>>
  /\ UNCHANGED <<envelope, todo, attempt, processVars, reserved, metered, chainVars, purgeAt, crashes>>

\* Mutant: every failure releases the reservation.
CatchReleasingAll(r) ==
  /\ pc[r] = "catching"
  /\ audit' = audit \cup {<<"tx.failed", r>>}
  /\ Goto(r, "releasing")
  /\ todo' = [todo EXCEPT ![r] = Keys(r)]
  /\ UNCHANGED <<envelope, answer, code, attempt, processVars, reserved, metered, chainVars,
                 purgeAt, crashes>>

\* The catch block: an audit write that throws leaves the reservation behind.
Catch(r) ==
  /\ pc[r] = "catching"
  /\ \/ /\ audit' = audit \cup {<<"tx.failed", r>>}
        /\ IF code[r] = "releasable"
           THEN /\ Goto(r, "releasing")
                /\ todo' = [todo EXCEPT ![r] = Keys(r)]
                /\ UNCHANGED answer
           ELSE Reply(r, "502") /\ UNCHANGED todo
     \/ Reply(r, "500") /\ UNCHANGED <<audit, todo>>
  /\ UNCHANGED <<envelope, code, attempt, processVars, reserved, metered, chainVars, purgeAt, crashes>>

\* replayGuard.release: one DELETE per key; the first that fails ends it.
Release(r) ==
  /\ pc[r] = "releasing"
  /\ \/ /\ todo[r] = {}
        /\ Reply(r, "502")
        /\ UNCHANGED <<reserved, todo>>
     \/ \E k \in todo[r] :
          \/ /\ reserved' = reserved \ {k}
             /\ todo' = [todo EXCEPT ![r] = @ \ {k}]
             /\ UNCHANGED <<pc, answer>>
          \/ /\ reserved' \in {reserved, reserved \ {k}}
             /\ todo' = [todo EXCEPT ![r] = {}]
             /\ Reply(r, "502")
  /\ UNCHANGED <<envelope, code, attempt, processVars, metered, audit, chainVars, purgeAt, crashes>>

\* Mutant: the releases do not run when the request was refused early.
FinallyOnSuccess(r) ==
  /\ pc[r] = "closing"
  /\ inFlight' = IF answer[r] = "403" THEN inFlight
                 ELSE [w \in Wallet |-> inFlight[w] - Entries(r, w)]
  /\ Goto(r, "done")
  /\ UNCHANGED <<envelope, answer, code, todo, attempt, dedup, breaker, tableVars, chainVars,
                 purgeAt, crashes>>

\* The finally block.
Finally(r) ==
  /\ pc[r] = "closing"
  /\ inFlight' = [w \in Wallet |-> inFlight[w] - Entries(r, w)]
  /\ Goto(r, "done")
  /\ UNCHANGED <<envelope, answer, code, todo, attempt, dedup, breaker, tableVars, chainVars,
                 purgeAt, crashes>>

Submit(r) ==
  \/ Lookup(r) \/ Start(r) \/ Scope(r) \/ Reserve(r)
  \/ Simulate(r) \/ Consume(r) \/ Send(r) \/ Poll(r)
  \/ Relay(r) \/ RelaySend(r)
  \/ Record(r) \/ Catch(r) \/ Release(r) \/ Finally(r)

------------------------------------------------------------------------------
\* The replay purge, the process and the chain.

PurgeRead ==
  /\ purgeAt = 0
  /\ purgeAt' = ledger
  /\ UNCHANGED <<handlerVars, processVars, tableVars, chainVars, crashes>>

\* Mutant: a reservation goes in the last ledger its signature is good for.
PurgeDeleteEarly ==
  /\ purgeAt > 0
  /\ reserved' = {k \in reserved : Expiration[k] > purgeAt}
  /\ purgeAt' = 0
  /\ UNCHANGED <<handlerVars, processVars, metered, audit, chainVars, crashes>>

\* purgeExpired, with the ledger getLatestLedger returned a while ago.
PurgeDelete ==
  /\ purgeAt > 0
  /\ reserved' = {k \in reserved : Expiration[k] >= purgeAt}
  /\ purgeAt' = 0
  /\ UNCHANGED <<handlerVars, processVars, metered, audit, chainVars, crashes>>

Running(r) == pc[r] \notin {"idle", "done", "lost"}

Crash ==
  /\ crashes < MaxCrashes
  /\ crashes' = crashes + 1
  /\ pc' = [r \in Request |-> IF Running(r) THEN "lost" ELSE pc[r]]
  /\ dedup' = {}
  /\ inFlight' = [w \in Wallet |-> 0]
  /\ breaker' = CLOSED_BREAKER
  /\ purgeAt' = 0
  /\ UNCHANGED <<envelope, answer, code, todo, attempt, tableVars, chainVars>>

CloseLedger ==
  /\ ledger < MaxLedger
  /\ ledger' = ledger + 1
  /\ UNCHANGED <<handlerVars, processVars, tableVars, tx, purgeAt, crashes>>

\* A transmitted transaction is applied, and spends its nonces, or fails.
Apply(r) ==
  /\ tx[r] = "pending"
  /\ \/ Valid(r) /\ tx' = [tx EXCEPT ![r] = "landed"]
     \/ tx' = [tx EXCEPT ![r] = "failed"]
  /\ UNCHANGED <<handlerVars, processVars, tableVars, ledger, purgeAt, crashes>>

Next ==
  \/ \E r \in Request : Submit(r) \/ Apply(r)
  \/ BreakerDue \/ PurgeRead \/ PurgeDelete \/ Crash \/ CloseLedger

Spec == Init /\ [][Next]_vars

------------------------------------------------------------------------------
\* Before start and after finally.
Outside == {"idle", "missed", "done", "lost"}

Labels == {"scoping", "reserving", "submitting", "metering", "sending", "polling", "relaying",
           "recording", "catching", "releasing", "closing"} \cup Outside

\* The variables have their types: the relayer is tried at most maxRetries + 1
\* times and the purge never works with a ledger that has not closed.
TypeOK ==
  /\ pc \in [Request -> Labels]
  /\ envelope \in [Request -> Envelope]
  /\ answer \in [Request -> {"none", "cached", "200", "403", "409", "500", "502", "503"}]
  /\ code \in [Request -> {"none", "releasable", "kept"}]
  /\ todo \in [Request -> SUBSET Auth]
  /\ attempt \in [Request -> 0..maxRetries]
  /\ dedup \subseteq Envelope
  /\ breaker \in [state : {"CLOSED", "OPEN", "HALF_OPEN"}, failures : 0..failureThreshold,
                  due : BOOLEAN]
  /\ reserved \subseteq Auth
  /\ metered \subseteq Request
  /\ tx \in [Request -> {NoTx, "pending", "landed", "failed"}]
  /\ ledger \in 0..MaxLedger
  /\ purgeAt \in 0..ledger
  /\ crashes \in 0..MaxCrashes

\* Issue 510: the tracker counts exactly the auth entries of the submissions
\* between start and finally, whichever way they end, so a key rotation is never
\* refused on behalf of a submission that is over.
InFlightBalanced ==
  inFlight = [w \in Wallet |->
    Cardinality({e \in Request \X Auth :
                   /\ pc[e[1]] \notin Outside
                   /\ e[2] \in Keys(e[1]) /\ AddressOf[e[2]] = w})]

\* Issue 416: once a submission may have reached the network, its authorizations
\* stay reserved until they expire, through failures, retries, partial releases,
\* purges and crashes: no release ever follows a send.
SentStaysReserved ==
  \A r \in Request : \A k \in Keys(r) :
    Transmitted(r) /\ ledger <= Expiration[k] => k \in reserved

\* However envelopes are re-wrapped and raced, an authorization that is still
\* good is sent by at most one submission, and the sponsor never pays for two
\* submissions of one authorization, not even after its reservation is purged.
AuthorizationSentOnce ==
  \A r, s \in Request : r # s /\ Transmitted(r) /\ Transmitted(s) =>
    \A k \in Keys(r) \cap Keys(s) :
      ledger > Expiration[k] /\ ~(Sponsor(r) /\ Sponsor(s))

\* C1/H1: nothing is sent, on either branch, unless every address the envelope
\* acts for is a wallet the server created.
OnlyKnownWalletsFunded == \A r \in Request : Transmitted(r) => Subjects(r) \subseteq Known

\* FIX 3: the sponsor sends nothing that is not in the spend ledger.
SponsoredSendMetered == \A r \in Request : Transmitted(r) /\ Sponsor(r) => r \in metered

\* A hash answered for a sponsored envelope, fresh or from the dedup map, is the
\* hash of a transaction that was applied.
AnswerIsReal ==
  \A r \in Request : answer[r] \in {"200", "cached"} /\ Sponsor(r) =>
    \E s \in Request : envelope[s] = envelope[r] /\ tx[s] = "landed"

\* A send is accounted for before it happens, counted as long as it is under way
\* and truthfully answered after it (scope.ts, sponsor.ts, in-flight.ts, the dedup
\* map of the route).
SendsAccounted ==
  OnlyKnownWalletsFunded /\ SponsoredSendMetered /\ InFlightBalanced /\ AnswerIsReal
==============================================================================
