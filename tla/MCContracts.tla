---------------------------- MODULE MCContracts ----------------------------
(***************************************************************************)
(* The contracts whose state lives in entries that expire, one at a time:  *)
(* the two spending policies over the same deployments and contexts, and   *)
(* the attestation registry.                                               *)
(***************************************************************************)
EXTENDS SpendingLimit, TLC

CONSTANTS
  wallet, other, usdc,
  MaxListLength,                      \* of TokenSpendingLimit
  Contract, Hash, Publisher, NoPublisher, Account, NoAttestation, Lifetimes,
  MAX_ATTESTATION_LEDGERS, TTL_BUFFER, MaxLedger,
  RegistryThreshold, RegistryTo       \* RENEW_THRESHOLD and RENEW_TO of the registry

ASSUME ContractsConstants ==
  /\ {MAX_ATTESTATION_LEDGERS, TTL_BUFFER, MaxLedger, RegistryThreshold, RegistryTo} \subseteq Nat
  /\ Lifetimes \subseteq Int
  /\ RegistryThreshold <= RegistryTo
  /\ Account # {}

VARIABLES part, ledger, attestor, record, recordLive, instanceLive

registry == <<ledger, attestor, record, recordLive, instanceLive>>

Token == INSTANCE TokenSpendingLimit

Registry == INSTANCE AttestationRegistry WITH
  RENEW_THRESHOLD <- RegistryThreshold, RENEW_TO <- RegistryTo

-----------------------------------------------------------------------------
Rules(caps, allowed) == [max_single_transfer |-> caps, allowed_tokens |-> allowed]

\* A deployment of either policy: the token policy has no rules, the other one
\* no token.
Config(limit, window, token, rules) ==
  [wallet |-> wallet, daily_limit |-> limit, window_seconds |-> window, token |-> token, rules |-> rules]

NoCaps  == << >>
NoRules == Rules(NoCaps, AnyToken)

\* What both constructors accept (a token policy bound to the wallet itself is
\* unusable) and what one or both must refuse.
MCConfigs ==
  { Config(3, 3, usdc, NoRules), Config(4, 2, wallet, Rules(usdc :> 2, {usdc})),
    Config(0, 3, usdc, NoRules), Config(3, 0, usdc, NoRules), Config(3, 9, usdc, NoRules),
    Config(3, 3, wallet, Rules(NoCaps, {})), Config(3, 3, wallet, Rules(usdc :> 0, {usdc})) }

Transfer(token, from, to, amount) ==
  [kind |-> "Contract", contract |-> token, fn |-> "transfer", arity |-> 3,
   from |-> from, to |-> to, amount |-> amount]

\* Good transfers of both tokens, and one context for each way to be refused
\* that a sum could hide.
MCContexts ==
  { Transfer(usdc, wallet, other, 1), Transfer(usdc, wallet, other, 3), Transfer(other, wallet, usdc, 2),
    Transfer(usdc, other, wallet, 1), Transfer(usdc, wallet, other, -1), Transfer(wallet, wallet, other, 1),
    [Transfer(usdc, wallet, other, 1) EXCEPT !.fn = "approve"],
    [Transfer(usdc, wallet, other, 1) EXCEPT !.kind = "CreateContract"] }

-----------------------------------------------------------------------------
\* One attestor will do where the registry takes no step.
MCInit ==
  /\ part \in {"spending", "token", "registry"}
  /\ Init
  /\ Registry!Init
  /\ part # "registry" => attestor = CHOOSE a \in Account : TRUE

MCNext ==
  /\ UNCHANGED part
  /\ \/ part = "spending" /\ Next /\ UNCHANGED registry
     \/ part = "token" /\ Token!Next /\ UNCHANGED registry
     \/ part = "registry" /\ Registry!Next /\ UNCHANGED vars

MCSpec == MCInit /\ [][MCNext]_<<part, vars, registry>>

\* Nothing is archived under its users: neither an entry of a policy that is in use
\* (the renewals of policy__), nor the record of an unexpired attestation or the
\* registry's instance (write_attestation and its TTLs).
EntriesKept == ActiveUseKeepsAlive /\ Registry!LiveReadable
=============================================================================
