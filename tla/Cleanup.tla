------------------------------ MODULE Cleanup ------------------------------
(***************************************************************************)
(* Closing a classic account: the wizard of the web application            *)
(* (app/cleanup/page.tsx), the lifecycle service that plans and builds the *)
(* transactions from what Horizon and its 30-second cache say, and the     *)
(* ledger that the user submits them to, in any order and at any time,     *)
(* while the account may also change by other hands.                       *)
(*                                                                         *)
(* A transaction carries the sequence number after the one that was read;  *)
(* the ledger includes it only if that is the account's next one, and      *)
(* applies its operations all or none.                                     *)
(***************************************************************************)
EXTENDS Integers, Sequences, FiniteSets, SequencesExt, FiniteSetsExt

CONSTANTS
  Assets,       \* the assets the account may hold
  DestTrusts,   \* those of them the destination trusts
  DestExists,
  OpsPerTx,     \* OPS_PER_TX
  BaseReserve, BaseFee,
  Ttl,          \* the cache's ttlMs
  Accounts,     \* the accounts to clean up
  MaxOutside,   \* bound on changes by other hands
  MaxClock, MaxRestarts

\* What an account is: lines maps the assets with a trustline to their balances.
IsAccount(a) ==
  /\ a \in [open : BOOLEAN, seq : Nat, xlm : Int, lines : [DOMAIN a.lines -> Nat],
            offers : SUBSET Assets, data : BOOLEAN]
  /\ DOMAIN a.lines \subseteq Assets

ASSUME CleanupAssumption ==
  /\ OpsPerTx \in Nat \ {0} /\ BaseReserve \in Nat /\ BaseFee \in Nat
  /\ IsFiniteSet(Assets) /\ DestTrusts \subseteq Assets /\ DestExists \in BOOLEAN
  /\ \A a \in Accounts : IsAccount(a)

VARIABLES
  acct,      \* the account on the ledger
  included,  \* transactions the ledger took: [tx, ok]
  cache,     \* the service's entry for the account: <<>> or <<[value, expiresAt]>>
  half,      \* a read under way: the account without its offers
  wizard,    \* [stage, plan, steps, from, index, watching]; from: the account the steps are of
  issued,    \* transactions shown to the user
  busy,      \* the route the wizard waits for, or "no"
  clock, outside, restarts

cleanupVars == <<acct, included, cache, half, wizard, issued, busy, clock, outside, restarts>>
ledger == <<acct, included>>
bounds == <<clock, outside, restarts>>

Gone == [open |-> FALSE, seq |-> 0, xlm |-> 0, lines |-> <<>>, offers |-> {}, data |-> FALSE]
NoPlan == [mergeReady |-> FALSE, estimated |-> 0]
Showing(stage, plan, steps, from, watching) ==
  [stage |-> stage, plan |-> plan, steps |-> steps, from |-> from, index |-> 1, watching |-> watching]
Idle(stage) == Showing(stage, NoPlan, <<>>, Gone, "no")

(***************************************************************************)
(* planner.ts and builder.ts, as functions of the account that was read.   *)
(***************************************************************************)
One(b) == IF b THEN 1 ELSE 0
HeldLines(a) == {x \in DOMAIN a.lines : a.lines[x] > 0}
Subentries(a) == Cardinality(DOMAIN a.lines) + Cardinality(a.offers) + One(a.data)
Spendable(a) == Max({0, a.xlm - (2 + Subentries(a)) * BaseReserve})

\* Mutant: the planner forgets the payments.
CleanupOpsNoPayments(a) == Subentries(a)

\* buildCleanupPlan's and calculateRequiredFeeStroops's count.
CleanupOps(a) == Cardinality(HeldLines(a)) + Subentries(a)

RequiredFee(a) == Max({1, CleanupOps(a)}) * BaseFee
CanSelfFund(a) == Spendable(a) >= RequiredFee(a)

\* The number of chunks that the operations fill.
Chunks(n) == (n + OpsPerTx - 1) \div OpsPerTx

\* buildCleanupPlan, of an account that can pay for its cleanup.
CleanupPlan(a) ==
  [mergeReady |-> Subentries(a) = 0,
   estimated  |-> IF Subentries(a) = 0 THEN 1 ELSE Max({1, Chunks(CleanupOps(a)) + 1})]

Op(kind, x, n) == [kind |-> kind, asset |-> x, amount |-> n]
LineOps(a, x) ==
  (IF a.lines[x] > 0 THEN <<Op("pay", x, a.lines[x])>> ELSE <<>>) \o <<Op("untrust", x, 0)>>

\* Mutant: the balances go before the offers that lock them.
CollectCleanupOpsOffersLast(a) ==
     FlattenSeq([i \in 1..Cardinality(DOMAIN a.lines) |-> LineOps(a, SetToSeq(DOMAIN a.lines)[i])])
  \o [i \in 1..Cardinality(a.offers) |-> Op("cancel", SetToSeq(a.offers)[i], 0)]
  \o (IF a.data THEN <<Op("delete", "data", 0)>> ELSE <<>>)

\* collectCleanupOps: offers, then each balance and its trustline, then data.
CollectCleanupOps(a) ==
     [i \in 1..Cardinality(a.offers) |-> Op("cancel", SetToSeq(a.offers)[i], 0)]
  \o FlattenSeq([i \in 1..Cardinality(DOMAIN a.lines) |-> LineOps(a, SetToSeq(DOMAIN a.lines)[i])])
  \o (IF a.data THEN <<Op("delete", "data", 0)>> ELSE <<>>)

\* buildCleanupSteps: consecutive transactions of at most OpsPerTx operations.
CleanupSteps(a) ==
  LET ops == CollectCleanupOps(a) IN
  [k \in 1..Chunks(Len(ops)) |->
     [seq |-> a.seq + k, ops |-> SubSeq(ops, (k - 1) * OpsPerTx + 1, Min({k * OpsPerTx, Len(ops)}))]]

\* Mutant: the merge takes the account's sequence number at submission.
MergeStepUnsequenced(a) == [seq |-> acct.seq + 1, ops |-> <<Op("merge", "xlm", 0)>>]

\* buildMergeStep
MergeStep(a) == [seq |-> a.seq + 1, ops |-> <<Op("merge", "xlm", 0)>>]

\* resumeCleanupPlan, for a plan made of `was' whose first k steps are
\* confirmed.  Horizon writes an emptied balance as "0.0000000", which is not
\* the "0" the code compares with: every changed balance asks for a new plan.
Resume(was, steps, k, now) ==
  IF k = Len(steps) THEN "completed"
  ELSE IF \/ DOMAIN now.lines \ DOMAIN was.lines # {}
          \/ \E x \in DOMAIN now.lines : now.lines[x] # was.lines[x]
          \/ Cardinality(now.offers) > Cardinality(was.offers) THEN "fresh_plan_required"
  ELSE "resumed"

(***************************************************************************)
(* The ledger (external): what an operation needs and does.                *)
(***************************************************************************)
Drop(f, x) == [y \in DOMAIN f \ {x} |-> f[y]]

Applies(a, o) ==
  CASE o.kind = "cancel"  -> o.asset \in a.offers
    [] o.kind = "pay"     -> /\ o.asset \in DOMAIN a.lines \cap DestTrusts /\ DestExists
                             /\ o.asset \notin a.offers /\ a.lines[o.asset] >= o.amount
    [] o.kind = "untrust" -> o.asset \in DOMAIN a.lines /\ a.lines[o.asset] = 0 /\ o.asset \notin a.offers
    [] o.kind = "delete"  -> a.data
    [] o.kind = "merge"   -> Subentries(a) = 0 /\ DestExists

Apply(a, o) ==
  CASE o.kind = "cancel"  -> [a EXCEPT !.offers = @ \ {o.asset}]
    [] o.kind = "pay"     -> [a EXCEPT !.lines[o.asset] = @ - o.amount]
    [] o.kind = "untrust" -> [a EXCEPT !.lines = Drop(@, o.asset)]
    [] o.kind = "delete"  -> [a EXCEPT !.data = FALSE]
    [] o.kind = "merge"   -> Gone

\* The account after each operation that applies, and a mark once one does not.
After(r, o) == IF r.ok /\ Applies(r.acct, o) THEN [ok |-> TRUE, acct |-> Apply(r.acct, o)]
                                             ELSE [ok |-> FALSE, acct |-> r.acct]
Run(a, ops) ==
  LET run[n \in 0..Len(ops)] == IF n = 0 THEN [ok |-> TRUE, acct |-> a] ELSE After(run[n - 1], ops[n])
  IN  run[Len(ops)]

\* A transaction takes a sequence number and its fee.
Charged(a, fee) == [[a EXCEPT !.seq = @ + 1] EXCEPT !.xlm = @ - fee]

Submit(tx) ==
  LET paid == Charged(acct, BaseFee * Len(tx.ops))
      r    == Run(paid, tx.ops)
  IN
  /\ acct.open /\ tx.seq = acct.seq + 1 /\ paid.xlm >= 2 * BaseReserve
  /\ acct' = IF r.ok THEN r.acct ELSE paid
  /\ included' = included \cup {[tx |-> tx, ok |-> r.ok]}
  /\ UNCHANGED <<cache, half, wizard, issued, busy, bounds>>

\* Other hands: a payment comes in, or the owner trusts an asset or sells it.
Outside ==
  /\ acct.open /\ outside < MaxOutside /\ outside' = outside + 1
  /\ \E x \in Assets :
       \/ x \in DOMAIN acct.lines /\ acct.lines[x] < 2 /\ acct' = [acct EXCEPT !.lines[x] = @ + 1]
       \/ /\ x \notin DOMAIN acct.lines /\ acct.xlm >= (3 + Subentries(acct)) * BaseReserve + BaseFee
          /\ acct' = [Charged(acct, BaseFee) EXCEPT
                        !.lines = [y \in DOMAIN @ \cup {x} |-> IF y = x THEN 0 ELSE @[y]]]
       \/ /\ x \in HeldLines(acct) \ acct.offers /\ acct.xlm >= (3 + Subentries(acct)) * BaseReserve + BaseFee
          /\ acct' = [Charged(acct, BaseFee) EXCEPT !.offers = @ \cup {x}]
  /\ UNCHANGED <<included, cache, half, wizard, issued, busy, clock, restarts>>

Tick ==
  /\ clock < MaxClock /\ clock' = clock + 1
  /\ UNCHANGED <<ledger, cache, half, wizard, issued, busy, outside, restarts>>

(***************************************************************************)
(* The service: the cached reader, and the routes plan, execute, merge.    *)
(***************************************************************************)
Fresh == cache # <<>> /\ cache[1].expiresAt > clock

\* createHorizonAccountReader.getAccount: the account, and then its offers.
ReadAccount ==
  /\ busy # "no" /\ ~Fresh /\ half = <<>>
  /\ half' = <<acct>>
  /\ UNCHANGED <<ledger, cache, wizard, issued, busy, bounds>>

ReadOffers ==
  /\ half # <<>>
  /\ cache' = <<[value |-> IF half[1].open THEN [half[1] EXCEPT !.offers = acct.offers] ELSE half[1],
                 expiresAt |-> clock + Ttl]>>
  /\ half' = <<>>
  /\ UNCHANGED <<ledger, wizard, issued, busy, bounds>>

Answered == busy # "no" /\ Fresh /\ half = <<>> /\ busy' = "no"

\* account_not_found, insufficient_spendable_balance: the wizard shows the error.
Refused ==
  /\ Answered
  /\ LET a == cache[1].value IN ~a.open \/ ~CanSelfFund(a) \/ (busy = "merge" /\ ~CleanupPlan(a).mergeReady)
  /\ UNCHANGED <<ledger, cache, half, wizard, issued, bounds>>

Planned ==
  LET a == cache[1].value IN
  /\ Answered /\ busy = "plan" /\ a.open /\ CanSelfFund(a)
  /\ wizard' = Showing("plan", CleanupPlan(a), <<>>, Gone, "no")
  /\ UNCHANGED <<ledger, cache, half, issued, bounds>>

\* Behind the paid route; nothing to clean leads on to the merge.
Executed ==
  LET a == cache[1].value IN
  /\ Answered /\ busy = "execute" /\ a.open /\ CanSelfFund(a)
  /\ wizard' = Showing("confirm", CleanupPlan(a), CleanupSteps(a), a, "no")
  /\ UNCHANGED <<ledger, cache, half, issued, bounds>>

\* The merge route drops the cached account once it has built the step.
Merged ==
  LET a == cache[1].value IN
  /\ Answered /\ busy = "merge" /\ a.open /\ CanSelfFund(a) /\ CleanupPlan(a).mergeReady
  /\ wizard' = Showing("merge", NoPlan, <<MergeStep(a)>>, Gone, "yes")
  /\ issued' = issued \cup {MergeStep(a)} /\ cache' = <<>>
  /\ UNCHANGED <<ledger, half, bounds>>

(***************************************************************************)
(* The wizard.                                                             *)
(***************************************************************************)
Inspect ==
  /\ wizard.stage = "input" /\ busy = "no" /\ busy' = "plan"
  /\ UNCHANGED <<ledger, cache, half, wizard, issued, bounds>>

ProceedFromPlan ==
  /\ wizard.stage = "plan" /\ busy = "no"
  /\ IF wizard.plan.mergeReady THEN wizard' = [wizard EXCEPT !.stage = "confirm"] /\ UNCHANGED busy
                               ELSE busy' = "execute" /\ UNCHANGED wizard
  /\ UNCHANGED <<ledger, cache, half, issued, bounds>>

ConfirmPlan ==
  /\ wizard.stage = "confirm" /\ busy = "no"
  /\ IF wizard.steps = <<>>
       THEN busy' = "merge" /\ UNCHANGED <<wizard, issued>>
       ELSE /\ wizard' = Showing("cleanup", wizard.plan, wizard.steps, wizard.from, "yes")
            /\ issued' = issued \cup {wizard.steps[1]} /\ UNCHANGED busy
  /\ UNCHANGED <<ledger, cache, half, bounds>>

Back ==
  /\ wizard.stage \in {"plan", "confirm", "done"} /\ busy = "no"
  /\ restarts < MaxRestarts /\ restarts' = restarts + 1
  /\ wizard' = Idle("input")
  /\ UNCHANGED <<ledger, cache, half, issued, busy, clock, outside>>

\* The page is closed and opened again.
Reload ==
  /\ restarts < MaxRestarts /\ restarts' = restarts + 1
  /\ wizard' = Idle("input") /\ busy' = "no"
  /\ UNCHANGED <<ledger, cache, half, issued, clock, outside>>

\* watchTransaction answers once Horizon knows the hash, whatever became of it.
Seen(tx) == \E i \in included : i.tx = tx

\* recordStepConfirmation: the steps that have been seen.
Confirmed == Cardinality({k \in 1..Len(wizard.steps) : Seen(wizard.steps[k])})

WatchCleanup ==
  /\ wizard.stage = "cleanup" /\ wizard.watching = "yes" /\ busy = "no" /\ Seen(wizard.steps[wizard.index])
  /\ IF wizard.index < Len(wizard.steps)
       THEN /\ wizard' = [wizard EXCEPT !.index = @ + 1]
            /\ issued' = issued \cup {wizard.steps[wizard.index + 1]} /\ UNCHANGED busy
       ELSE wizard' = [wizard EXCEPT !.watching = "no"] /\ busy' = "merge" /\ UNCHANGED issued
  /\ UNCHANGED <<ledger, cache, half, bounds>>

WatchMerge ==
  /\ wizard.stage = "merge" /\ wizard.watching = "yes" /\ Seen(wizard.steps[1])
  /\ wizard' = Idle("done")
  /\ UNCHANGED <<ledger, cache, half, issued, busy, bounds>>

\* The deadline passes; the user may ask to keep waiting.
WatchTimeout ==
  /\ wizard.watching = "yes" /\ wizard' = [wizard EXCEPT !.watching = "timedOut"]
  /\ UNCHANGED <<ledger, cache, half, issued, busy, bounds>>

KeepWaiting ==
  /\ wizard.watching = "timedOut" /\ wizard' = [wizard EXCEPT !.watching = "yes"]
  /\ UNCHANGED <<ledger, cache, half, issued, busy, bounds>>

CleanupInit ==
  /\ acct \in Accounts /\ included = {} /\ cache = <<>> /\ half = <<>>
  /\ wizard = Idle("input") /\ issued = {} /\ busy = "no"
  /\ clock = 0 /\ outside = 0 /\ restarts = 0

CleanupNext ==
  \/ \E tx \in issued : Submit(tx)
  \/ Outside \/ Tick \/ ReadAccount \/ ReadOffers \/ Refused \/ Planned \/ Executed \/ Merged
  \/ Inspect \/ ProceedFromPlan \/ ConfirmPlan \/ Back \/ Reload \/ WatchCleanup \/ WatchMerge \/ WatchTimeout \/ KeepWaiting

(***************************************************************************)
(* Properties.                                                             *)
(***************************************************************************)

\* collectCleanupOps's order and the split into transactions are right: while
\* nobody else touches the account and the destination trusts its assets, no
\* transaction that the ledger takes fails, and once every step is confirmed (a
\* resumed plan is "completed") nothing is left that blocks the merge.
CleanupSucceeds ==
  outside = 0 /\ DestExists /\ DestTrusts = Assets =>
    /\ \A i \in included : i.ok
    /\ wizard.stage = "cleanup" /\ acct.open /\ Resume(wizard.from, wizard.steps, Confirmed, acct) = "completed"
         => Subentries(acct) = 0

\* planner.ts and builder.ts count the same operations: the plan's number of
\* transactions is what the builder makes of the same account, and the fee it
\* asks for pays them all without touching a reserve.
PlanMatchesSteps ==
  acct.open /\ CanSelfFund(acct) =>
    /\ CleanupPlan(acct).estimated = Len(CleanupSteps(acct)) + 1
    /\ Spendable(acct) >= BaseFee * Len(CollectCleanupOps(acct))

\* The wizard says the account is closed only when it is, although the service
\* may answer from an account read half a minute ago: the sequence number read
\* with it keeps the ledger from taking the merge.
DoneMeansClosed == DestExists /\ wizard.stage = "done" => ~acct.open

\* The three together: the plan is right when it is made, stays right while it is
\* executed, and the wizard's last word is true (planner.ts, builder.ts, the wizard).
CleanupSound == CleanupSucceeds /\ PlanMatchesSteps /\ DoneMeansClosed
=============================================================================
