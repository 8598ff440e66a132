---------------------------- MODULE AccountMerge ----------------------------
(***************************************************************************)
(* POST /wallet/account/merge and its planner (server.ts,                  *)
(* merge-planner.ts).  The client states its balances; the schema of the   *)
(* route keeps asset, amount, isNative and hasTrustline of each and drops  *)
(* every other field, while the planner reads balance.                     *)
(***************************************************************************)
EXTENDS Naturals, FiniteSets

CONSTANTS Assets,      \* what an account may hold; "native" is one of them
          MaxAmount    \* bound: the largest amount

VARIABLES held,    \* held[a]: the amount of asset a in the account
          answer   \* the answer to the last request
mergeVars == <<held, answer>>

NaN == MaxAmount + 1

\* Number(undefined) is NaN, and NaN > 0 is false.
Positive(n) == n # NaN /\ n > 0

\* The fields the route's schema lets through.
Parsed(a) == [asset |-> a, amount |-> held[a]]

BalanceOf(item) == IF "balance" \in DOMAIN item THEN item.balance ELSE NaN

\* buildMergePlan: what stands in the way, over the balances that were stated
\* or, when none were, an invented native balance.
Blockers(items) ==
  {i.asset : i \in {j \in items : j.asset # "native" /\ Positive(BalanceOf(j))}}

Plan(stated) ==
  Blockers(IF stated = {} THEN {[asset |-> "native", balance |-> MaxAmount]} ELSE {Parsed(a) : a \in stated})

Init == held \in [Assets -> 0..MaxAmount] /\ answer = "none"

Merge(stated, dryRun) ==
  /\ answer' = IF dryRun THEN "preview"
               ELSE IF Plan(stated) # {} THEN "cannot_merge_with_open_trustlines" ELSE "merged"
  /\ UNCHANGED held

Next == \E stated \in SUBSET Assets, dryRun \in BOOLEAN : Merge(stated, dryRun)

Spec == Init /\ [][Next]_mergeVars

\* A merge whose request states a non-native balance above zero is refused, as
\* the planner's blockers and server.test.ts:1553 ("blocks merge when account
\* has non-zero non-native balances") have it.
OpenBalancesBlock ==
  [][\A stated \in SUBSET Assets :
       Merge(stated, FALSE) /\ (\E a \in stated \ {"native"} : held[a] > 0) => answer' # "merged"]_mergeVars
=============================================================================
