------------------------------ MODULE Gateway ------------------------------
(***************************************************************************)
(* The gateway's protection of the services behind it: the token bucket of *)
(* each tenant, the checks before a request is proxied, the circuit        *)
(* breaker in front of the verification service (api-gateway/src/server.ts,*)
(* token-bucket.ts, service-kit circuit-breaker.ts) and the store of       *)
(* idempotency keys, which no route uses yet (idempotency-store.ts); and   *)
(* the worker's counterpart of the breaker, the pool of RPC endpoints with *)
(* the calls that go through it (service-kit rpc-pool.ts, worker-service   *)
(* resolver.ts).                                                           *)
(*                                                                         *)
(* A unit of time is one in which a bucket regains RefillRate tokens.      *)
(***************************************************************************)
EXTENDS Naturals, Sequences, FiniteSets, FiniteSetsExt, Functions

CONSTANTS Tenants, Requests,
          Capacity, RefillRate,       \* of a tenant's bucket
          Threshold, Cooldown,        \* of the breaker
          IdemTtl, Payloads,          \* of the idempotency store
          MaxClock,                   \* bound on the clock
          Urls,                       \* the RPC endpoints, in order of priority
          MaxLedgerLag, Ledgers,      \* of the endpoints
          MaxFailures                 \* bound on the clock of lastFailureAt

\* The pool refuses an empty list of endpoints and drops those it has already.
ASSUME GatewayConstants ==
  /\ Capacity \in Nat /\ RefillRate \in Nat /\ Threshold \in Nat /\ Cooldown \in Nat
  /\ MaxClock \in Nat /\ MaxFailures \in Nat
  /\ Urls \in Seq(Range(Urls)) /\ Urls # <<>> /\ IsInjective(Urls)

VARIABLES
  clock,     \* the time
  bucket,    \* bucket[t]: tokens and last refill of tenant t, or NoBucket
  admitted,  \* history: admitted[t][i]: requests of t let through at time i
  breaker,   \* state, consecutive failures, and what is left of the cooldown
  sent,      \* sent[r]: "no", "plain", or "trial" when sent in half_open
  streak,    \* history: failed outcomes since the last success, up to Threshold
  up,        \* whether the verification service answers
  idem,      \* the record of one idempotency key, or NoRecord
  healthy,   \* healthy[u]: of the RPC endpoint u
  failedAt,  \* failedAt[u]: lastFailureAt
  selected,  \* the endpoint current() returns
  probe,     \* results of the probes in flight, or NoProbe
  ticks,     \* the clock of lastFailureAt, which advances with the failures
  rpc        \* rpc[c]: where the call of caller c is

limiterVars == <<clock, bucket, admitted>>
breakerVars == <<breaker, sent, streak, up>>
gatewayVars == <<limiterVars, breakerVars, idem>>
poolVars    == <<healthy, failedAt, selected, probe, ticks, rpc>>

NoBucket == [tokens |-> 0, last |-> MaxClock + 1]
NoRecord == [payload |-> "none", at |-> 0]
Closed   == [state |-> "closed", failures |-> 0, wait |-> 0]

GatewayInit ==
  /\ clock = 0
  /\ bucket = [t \in Tenants |-> NoBucket]
  /\ admitted = [t \in Tenants |-> [i \in 0..MaxClock |-> 0]]
  /\ breaker = Closed /\ streak = 0
  /\ sent = [r \in Requests |-> "no"]
  /\ up \in BOOLEAN
  /\ idem = NoRecord

----------------------------------------------------------------------------
(* The limiter.                                                            *)

\* Mutant: an idle tenant saves up tokens without end.
RefilledUncapped(t) ==
  IF bucket[t] = NoBucket THEN Capacity
  ELSE bucket[t].tokens + (clock - bucket[t].last) * RefillRate

Refilled(t) ==
  IF bucket[t] = NoBucket THEN Capacity
  ELSE Min({Capacity, bucket[t].tokens + (clock - bucket[t].last) * RefillRate})

\* tryConsume: the token is gone whether or not a later check of the request
\* (its length, its content type) refuses it.
TryConsume(t) ==
  LET allowed == Refilled(t) >= 1 IN
  /\ bucket' = [bucket EXCEPT ![t] = [tokens |-> IF allowed THEN Refilled(t) - 1 ELSE Refilled(t),
                                      last |-> clock]]
  /\ admitted' = IF allowed THEN [admitted EXCEPT ![t][clock] = @ + 1] ELSE admitted
  /\ UNCHANGED <<clock, breakerVars, idem>>

LimiterTick ==
  /\ clock < MaxClock /\ clock' = clock + 1
  /\ UNCHANGED <<bucket, admitted, breakerVars, idem>>

----------------------------------------------------------------------------
(* The breaker.                                                            *)

\* Mutant: an open breaker never tries again.
BeforeCallStuck(r) ==
  /\ sent[r] = "no" /\ breaker.state # "open"
  /\ sent' = [sent EXCEPT ![r] = "plain"]
  /\ UNCHANGED <<limiterVars, breaker, streak, up, idem>>

\* beforeCall: refused while the cooldown runs; the first call after it turns
\* the breaker half open, and calls during half_open pass.
BeforeCall(r) ==
  /\ sent[r] = "no"
  /\ breaker.state = "open" => breaker.wait = 0
  /\ sent' = [sent EXCEPT ![r] = IF breaker.state = "closed" THEN "plain" ELSE "trial"]
  /\ breaker' = IF breaker.state = "open" THEN [breaker EXCEPT !.state = "half_open"] ELSE breaker
  /\ UNCHANGED <<limiterVars, streak, up, idem>>

\* Mutant: a success leaves the count of failures as it is.
AfterSuccessCounting(b) == [b EXCEPT !.state = "closed"]

AfterSuccess(b) == [b EXCEPT !.state = "closed", !.failures = 0]

AfterFailure(b) ==
  IF b.state = "half_open" THEN [b EXCEPT !.state = "open", !.wait = Cooldown]
  ELSE LET n == Min({b.failures + 1, Threshold}) IN
       IF n >= Threshold THEN [state |-> "open", failures |-> n, wait |-> Cooldown]
       ELSE [b EXCEPT !.failures = n]

\* recordOutcome, from the proxy's onResponse (any answer) or onError.
RecordOutcome(r) ==
  /\ sent[r] # "no"
  /\ sent' = [sent EXCEPT ![r] = "no"]
  /\ breaker' = IF up THEN AfterSuccess(breaker) ELSE AfterFailure(breaker)
  /\ streak' = IF up THEN 0 ELSE Min({streak + 1, Threshold})
  /\ UNCHANGED <<limiterVars, up, idem>>

CooldownPasses ==
  /\ breaker.state = "open" /\ breaker.wait > 0
  /\ breaker' = [breaker EXCEPT !.wait = @ - 1]
  /\ UNCHANGED <<limiterVars, sent, streak, up, idem>>

UpstreamChanges == up' = ~up /\ UNCHANGED <<limiterVars, breaker, sent, streak, idem>>

----------------------------------------------------------------------------
(* The idempotency store.                                                  *)

IdemExpired(record) == clock - record.at > IdemTtl

Lookup(payload) ==
  IF idem = NoRecord \/ IdemExpired(idem) THEN "miss"
  ELSE IF idem.payload # payload THEN "conflict" ELSE "hit"

\* A request that missed is carried out, and its answer recorded.
Record(payload) ==
  /\ Lookup(payload) = "miss"
  /\ idem' = [payload |-> payload, at |-> clock]
  /\ UNCHANGED <<limiterVars, breakerVars>>

\* Mutant: pruning is one moment early.
PruneExpiredEarly ==
  /\ idem # NoRecord /\ clock - idem.at >= IdemTtl
  /\ idem' = NoRecord /\ UNCHANGED <<limiterVars, breakerVars>>

PruneExpired ==
  /\ idem # NoRecord /\ IdemExpired(idem)
  /\ idem' = NoRecord /\ UNCHANGED <<limiterVars, breakerVars>>

----------------------------------------------------------------------------
(* The pool of RPC endpoints.                                              *)

Endpoints == Range(Urls)
Place(u)  == CHOOSE i \in DOMAIN Urls : Urls[i] = u

\* What a caller sees of the pool when it asks for the candidates.
View   == [healthy |-> healthy, failedAt |-> failedAt]
NoView == [healthy |-> <<>>, failedAt |-> <<>>]

NoProbe == <<>>
NoCall  == [todo |-> {}, view |-> NoView, failed |-> {}, result |-> "none"]

PoolInit ==
  /\ healthy = [u \in Endpoints |-> TRUE]
  /\ failedAt = [u \in Endpoints |-> 0]
  /\ selected = Urls[1]
  /\ probe = NoProbe /\ ticks = 0
  /\ rpc = [c \in Requests |-> NoCall]

\* The order of candidates: the healthy ones by priority, then the others, the
\* one that failed longest ago first.
Before(u, v, view) ==
  IF view.healthy[u] # view.healthy[v] THEN view.healthy[u]
  ELSE IF view.healthy[u] \/ view.failedAt[u] = view.failedAt[v] THEN Place(u) < Place(v)
  ELSE view.failedAt[u] < view.failedAt[v]

First(some, view) == CHOOSE u \in some : \A v \in some \ {u} : Before(u, v, view)

\* Mutant: a failed endpoint keeps its place.
ReselectNever == selected' = selected

Reselect == selected' = First(Endpoints, View')

\* checkNow starts a probe of every endpoint unless one is in flight; each
\* probe fails, or answers a status and a ledger.
ProbeStart ==
  /\ probe = NoProbe
  /\ probe' \in [Endpoints -> {[status |-> "down", ledger |-> 0]}
                              \cup [status : {"healthy", "sick"}, ledger : Ledgers]]
  /\ UNCHANGED <<healthy, failedAt, selected, ticks, rpc>>

\* runProbes, once the last of them has answered: lagging counts as failing.
ProbeApply ==
  LET freshest == Max({probe[u].ledger : u \in Endpoints}) IN
  /\ probe # NoProbe /\ probe' = NoProbe
  /\ healthy' = [u \in Endpoints |->
                   probe[u].status = "healthy" /\ freshest - probe[u].ledger <= MaxLedgerLag]
  /\ failedAt' = [u \in Endpoints |-> IF healthy'[u] THEN failedAt[u] ELSE ticks]
  /\ Reselect
  /\ UNCHANGED <<ticks, rpc>>

\* Mutant: only the endpoint in use is tried.
CallStartCurrent(c) ==
  /\ rpc[c] = NoCall
  /\ rpc' = [rpc EXCEPT ![c] = [NoCall EXCEPT !.todo = {selected}, !.view = View]]
  /\ UNCHANGED <<healthy, failedAt, selected, probe, ticks>>

\* withRpcFailover walks the candidates as they are when it starts.
CallStart(c) ==
  /\ rpc[c] = NoCall
  /\ rpc' = [rpc EXCEPT ![c] = [NoCall EXCEPT !.todo = Endpoints, !.view = View]]
  /\ UNCHANGED <<healthy, failedAt, selected, probe, ticks>>

\* Answered, or failed in a way no other endpoint would change (isFailover).
CallEnds(c, result) ==
  /\ rpc[c].todo # {}
  /\ rpc' = [rpc EXCEPT ![c] = [@ EXCEPT !.todo = {}, !.view = NoView, !.result = result]]
  /\ UNCHANGED <<healthy, failedAt, selected, probe, ticks>>

\* The endpoint fails: reportFailure demotes it and reselects, and the walk goes
\* on; at its end the last error is thrown.
CallFails(c) ==
  LET u    == First(rpc[c].todo, rpc[c].view)
      rest == rpc[c].todo \ {u} IN
  /\ rpc[c].todo # {} /\ ticks < MaxFailures
  /\ ticks' = ticks + 1
  /\ healthy' = [healthy EXCEPT ![u] = FALSE]
  /\ failedAt' = [failedAt EXCEPT ![u] = ticks + 1]
  /\ Reselect
  /\ rpc' = [rpc EXCEPT ![c] =
       IF rest = {} THEN [NoCall EXCEPT !.failed = rpc[c].failed \cup {u}, !.result = "failed"]
       ELSE [@ EXCEPT !.todo = rest, !.failed = rpc[c].failed \cup {u}]]
  /\ UNCHANGED probe

----------------------------------------------------------------------------

LimiterNext == LimiterTick \/ \E t \in Tenants : TryConsume(t)

BreakerNext ==
  \/ \E r \in Requests : BeforeCall(r) \/ RecordOutcome(r)
  \/ CooldownPasses \/ UpstreamChanges

PoolNext ==
  \/ ProbeStart \/ ProbeApply
  \/ \E c \in Requests : CallStart(c) \/ CallFails(c) \/ \E r \in {"ok", "rejected"} : CallEnds(c, r)

IdemNext == LimiterTick \/ PruneExpired \/ \E p \in Payloads : Record(p)

----------------------------------------------------------------------------

\* Over every span of time the requests of a tenant that got past the limiter
\* are at most a full bucket and what the span refilled.
TenantRateBound ==
  \A t \in Tenants : \A a \in 0..clock : \A b \in a..clock :
    FoldFunctionOnSet(+, 0, admitted[t], a..b) <= Capacity + RefillRate * (b - a)

\* The breaker is only ever away from closed after Threshold failures with no
\* success among them, however the answers of concurrent calls are ordered.
OpensOnlyOnStreak == breaker.state # "closed" => streak >= Threshold

\* Once the verification service stays up, the breaker closes for good.
BreakerRecovers == <>[]up => <>[](breaker.state = "closed")

\* Pruning is invisible: it never turns a hit or a conflict into a miss.
PruneInvisible == [][idem' = NoRecord => \A p \in Payloads : Lookup(p) = "miss"]_idem

\* current() is the best endpoint the pool knows: no passive failure, probe
\* cycle or race of the two leaves it on a worse one.
SelectedIsBest == \A u \in Endpoints \ {selected} : Before(selected, u, View)

\* A call that failed was refused by every endpoint, although health changed
\* while it was walking them.
FailsOnlyWhenAllFailed == \A c \in Requests : rpc[c].result = "failed" => rpc[c].failed = Endpoints

\* At most one call is the trial of a half-open breaker: "allows exactly one
\* HALF_OPEN trial call" (circuit-breaker.ts:6).
SingleTrial == Cardinality({r \in Requests : sent[r] = "trial"}) <= 1
=============================================================================
