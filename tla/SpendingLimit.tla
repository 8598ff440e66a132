--------------------------- MODULE SpendingLimit ---------------------------
(***************************************************************************)
(* contracts/policy-templates/spending-limit: one cumulative allowance over *)
(* every recognized transfer, with per-token safety rules.                 *)
(***************************************************************************)
EXTENDS SpendWindow, Sequences, FiniteSets, Functions

CONSTANTS
  Contexts,          \* auth contexts the wallet may be asked to authorize
  MAX_CONTEXTS,
  MAX_RULE_ENTRIES,
  AnyToken           \* allowed_tokens = None

(***************************************************************************)
(* A context: [kind, contract, fn, from, to, amount, arity]; an argument    *)
(* that does not decode is "undecodable" (from, to) or 0 (amount: rejected *)
(* in the same way as a non-positive one).                                 *)
(***************************************************************************)
ParsesAsTransfer(source, c) ==
  /\ c.kind = "Contract"
  /\ c.contract # source
  /\ c.fn = "transfer"
  /\ c.arity = 3
  /\ c.from = source
  /\ c.to \in Address \ {source}
  /\ c.amount > 0

RulesAllow(rules, c) ==
  /\ rules.allowed_tokens # AnyToken => c.contract \in rules.allowed_tokens
  /\ c.contract \in DOMAIN rules.max_single_transfer
       => c.amount <= rules.max_single_transfer[c.contract]

ValidRules(wallet, rules) ==
  LET capped == DOMAIN rules.max_single_transfer
  IN  /\ Cardinality(capped) <= MAX_RULE_ENTRIES
      /\ \A token \in capped :
           rules.max_single_transfer[token] >= MIN_ALLOWANCE /\ token # wallet
      /\ rules.allowed_tokens # AnyToken =>
           /\ Cardinality(rules.allowed_tokens) \in 1..MAX_RULE_ENTRIES
           /\ wallet \notin rules.allowed_tokens

Constructor(c) ==
  /\ WindowInRange(c)
  /\ ValidRules(c.wallet, c.rules)
  /\ StoreConfig(c)

Sum(contexts) == SumFunction([i \in DOMAIN contexts |-> contexts[i].amount])

ContextLists == UNION {[1..n -> Contexts] : n \in 0..MAX_CONTEXTS + 1}

\* Every amount is positive, so the checked additions of the loop succeed
\* exactly when the sum is within 1..I128Max.
Authorizes(source, contexts) ==
  /\ Len(contexts) \in 1..MAX_CONTEXTS
  /\ \A i \in DOMAIN contexts :
       /\ ParsesAsTransfer(source, contexts[i])
       /\ RulesAllow(config.rules, contexts[i])
  /\ Sum(contexts) \in 1..I128Max

\* policy__, for the contexts the wallet passes it.
Policy(source) ==
  /\ Callable(source)
  /\ \E contexts \in ContextLists :
       /\ Authorizes(source, contexts)
       /\ Charge(Sum(contexts))

Next ==
  \/ \E c \in Configs : Constructor(c)
  \/ \E source \in Address : Policy(source)
  \/ Shared

Spec == Init /\ [][Next]_vars
=============================================================================
