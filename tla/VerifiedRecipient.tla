------------------------- MODULE VerifiedRecipient -------------------------
(***************************************************************************)
(* The verified-recipient policy: a wallet's signer may only call          *)
(* contracts with a live attestation in the registry, in strict mode of    *)
(* anybody's, else of a trusted publisher.  The policy asks the registry   *)
(* once per context and keeps no state of its own between calls.           *)
(*                                                                         *)
(* A context is [kind, contract, fn, arity, from]; a first argument that   *)
(* is not an address is "undecodable".                                     *)
(***************************************************************************)
EXTENDS AttestationRegistry, Sequences, Functions

CONSTANTS
  Wallet,            \* addresses that may install or call the policy
  Configs,           \* configurations somebody may try to deploy
  NotDeployed,
  Strict,            \* ProvenanceMode::Strict; any other mode is a list of publishers
  PolicyCalls,       \* lists of contexts a wallet may pass
  MAX_CONTEXTS,
  MAX_TRUSTED_PUBLISHERS

ASSUME RecipientConstants ==
  /\ NoPublisher \notin Publisher
  /\ NotDeployed \notin Configs
  /\ \A contexts \in PolicyCalls : \A i \in DOMAIN contexts : contexts[i].contract \in Contract

VARIABLES
  config,      \* StorageKey::Config
  signer,      \* external: the wallet lists this policy as a signer
  installed,   \* StorageKey::Installed(wallet)
  policyLive,  \* last ledger at which each entry of the policy is not archived
  passed       \* history: the contracts the last step authorized calls of

policyVars == <<config, signer, installed, policyLive, passed>>

PolicyEntry == {"Instance", "Installed"}

Present(k) == IF k = "Instance" THEN config # NotDeployed ELSE installed

PolicyReadable(keys) == \A k \in keys : Present(k) => ledger <= policyLive[k]

\* renew_instance and renew_persistent, after a fresh entry got its first TTL.
RenewedEntries(keys) ==
  [k \in PolicyEntry |->
     IF k \in keys
     THEN Extended(IF Present(k) THEN policyLive[k] ELSE ledger + MinTtl,
                   RENEW_THRESHOLD, RENEW_TO)
     ELSE policyLive[k]]

-----------------------------------------------------------------------------
PolicyInit ==
  /\ config = NotDeployed
  /\ signer = FALSE
  /\ installed = FALSE
  /\ policyLive = [k \in PolicyEntry |-> 0]
  /\ passed = {}

ValidMode(mode) == mode # Strict => Len(mode) \in 1..MAX_TRUSTED_PUBLISHERS

Constructor(c) ==
  /\ config = NotDeployed
  /\ ValidMode(c.mode)
  /\ config' = c
  /\ policyLive' = RenewedEntries({"Instance"})
  /\ passed' = {}
  /\ UNCHANGED <<signer, installed>>

\* The wallet's add_signer (external) invokes install; a panic rolls it back.
install(wallet) ==
  /\ config # NotDeployed
  /\ PolicyReadable(PolicyEntry)
  /\ wallet = config.wallet
  /\ signer' = TRUE
  /\ installed' = TRUE
  /\ policyLive' = RenewedEntries(PolicyEntry)
  /\ passed' = {}
  /\ UNCHANGED config

\* external: the owner removes the policy signer; the policy is not asked.
RemoveSigner ==
  /\ signer
  /\ signer' = FALSE
  /\ passed' = {}
  /\ UNCHANGED <<config, installed, policyLive>>

\* Mutant: uninstall does not ask the wallet for its signers.
UninstallUnchecked ==
  /\ config # NotDeployed
  /\ PolicyReadable(PolicyEntry)
  /\ installed' = FALSE
  /\ passed' = {}
  /\ UNCHANGED <<config, signer, policyLive>>

\* Anybody may call it, for the bound wallet; StillInstalled otherwise.
uninstall ==
  /\ config # NotDeployed
  /\ PolicyReadable(PolicyEntry)
  /\ ~signer
  /\ installed' = FALSE
  /\ passed' = {}
  /\ UNCHANGED <<config, signer, policyLive>>

parse_context(source, x) ==
  /\ x.kind = "Contract"
  /\ x.contract # source
  /\ x.fn = "transfer" => x.arity = 3 /\ x.from = source

\* Mutant: an attestation of any publisher is good enough.
CheckProvenanceAnyPublisher(c) == is_verified(c)

\* One registry read; it traps when the registry or the record is archived,
\* and publisher_of is None for what is not verified or not attributed.
check_provenance(c) ==
  IF config.mode = Strict THEN is_verified(c)
                          ELSE publisher_of(c) \in Range(config.mode) \ {NoPublisher}

policy(source, contexts) ==
  /\ config # NotDeployed
  /\ PolicyReadable(PolicyEntry)
  /\ source = config.wallet
  /\ installed
  /\ Len(contexts) \in 1..MAX_CONTEXTS
  /\ \A i \in DOMAIN contexts :
       parse_context(source, contexts[i]) /\ check_provenance(contexts[i].contract)
  /\ policyLive' = RenewedEntries(PolicyEntry)
  /\ passed' = {contexts[i].contract : i \in DOMAIN contexts}
  /\ UNCHANGED <<config, signer, installed>>

\* external: somebody restores an archived entry of the policy.
RestorePolicy(k) ==
  /\ ~PolicyReadable({k})
  /\ policyLive' = [policyLive EXCEPT ![k] = ledger + MinTtl]
  /\ passed' = {}
  /\ UNCHANGED <<config, signer, installed>>

PolicyNext ==
  \/ \E c \in Configs : Constructor(c)
  \/ \E wallet \in Wallet : install(wallet)
  \/ \E source \in Wallet, contexts \in PolicyCalls : policy(source, contexts)
  \/ RemoveSigner
  \/ uninstall
  \/ \E k \in PolicyEntry : RestorePolicy(k)

-----------------------------------------------------------------------------
PolicyTypeOK ==
  /\ config \in Configs \cup {NotDeployed}
  /\ config # NotDeployed /\ config.mode # Strict =>
       Len(config.mode) \in 1..MAX_TRUSTED_PUBLISHERS
  /\ signer \in BOOLEAN
  /\ installed \in BOOLEAN
  /\ policyLive \in [PolicyEntry -> Nat]
  /\ passed \subseteq Contract

\* While the wallet lists the policy as a signer, the policy knows it: no order
\* of removals, permissionless uninstalls and installs leaves a co-signer that
\* refuses everything with NotInstalled.
InstalledWhileSigner == signer => installed
=============================================================================
