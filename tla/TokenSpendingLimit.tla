------------------------- MODULE TokenSpendingLimit -------------------------
(***************************************************************************)
(* contracts/policy-templates/token-spending-limit: an allowance for the   *)
(* transfers of one token.  It refuses every other token, but, unlike      *)
(* spending-limit, checks neither from, to nor the number of arguments,    *)
(* and accepts an empty list of contexts.                                  *)
(***************************************************************************)
EXTENDS SpendWindow, Sequences, Functions

CONSTANTS
  Contexts,       \* auth contexts the wallet may be asked to authorize
  MaxListLength   \* bound: contexts in one authorization

\* Mutant: the limit and the window are not range-checked.
ConstructorUnchecked(c) == StoreConfig(c)

Constructor(c) ==
  /\ WindowInRange(c)
  /\ StoreConfig(c)

\* amount is 0 when the third argument is missing or is not an i128.
TokenTransfer(source, c) ==
  /\ c.kind = "Contract"
  /\ c.contract # source
  /\ c.contract = config.token
  /\ c.fn = "transfer"
  /\ c.amount > 0

Sum(contexts) == SumFunction([i \in DOMAIN contexts |-> contexts[i].amount])

ContextLists == UNION {[1..n -> Contexts] : n \in 0..MaxListLength}

Authorizes(source, contexts) ==
  /\ \A i \in DOMAIN contexts : TokenTransfer(source, contexts[i])
  /\ Sum(contexts) \in 0..I128Max

\* policy__, for the contexts the wallet passes it.
Policy(source) ==
  /\ Callable(source)
  /\ \E contexts \in ContextLists :
       /\ Authorizes(source, contexts)
       /\ Charge(Sum(contexts))

Next ==
  \/ \E c \in Configs : Constructor(c)
  \/ \E source \in Address : Policy(source)
  \/ Shared

Spec == Init /\ [][Next]_vars

-----------------------------------------------------------------------------
\* "the most anyone can move through this policy is daily_limit of token per
\* window_seconds": what the module documentation of token-spending-limit
\* says.  The window of policy__ tumbles, so it does not hold.
AtMostLimitPerSpan ==
  config # NotDeployed =>
    \A a, b \in 0..now :
      a <= b /\ b - a < config.window_seconds
        => Authorized(a, b) <= config.daily_limit
=============================================================================
