------------------------- MODULE ThresholdAttestor -------------------------
(***************************************************************************)
(* The threshold attestor: an M-of-N smart account that is the registry's  *)
(* attestor.  Every registry call that needs the attestor runs its         *)
(* __check_auth over the contexts of the authorization, which may cover    *)
(* more invocations than the one the transaction makes.                    *)
(*                                                                         *)
(* A signature is made by a key for an index; ed25519_verify accepts it    *)
(* when that key is the signer at the index.                               *)
(***************************************************************************)
EXTENDS AttestationRegistry, Sequences, FiniteSets, Functions

CONSTANTS
  Key,               \* signer public keys
  account,           \* the address of this contract
  Rosters,           \* configurations somebody may ask for
  NoRevokeThreshold, \* Option::None
  MAX_SIGNERS,
  SignatureLists,    \* what may come with a call
  ContextLists       \* function names of the contexts of an authorization

ASSUME ThresholdConstants ==
  /\ account \in Account
  /\ MAX_SIGNERS \in Nat
  /\ Rosters \subseteq [threshold : Nat, signers : Seq(Key), revoke_threshold : Nat \cup {NoRevokeThreshold}]
  /\ NoRevokeThreshold \notin Nat
  /\ SignatureLists \subseteq Seq([signer_index : Nat, key : Key])

VARIABLES
  roster,       \* threshold, revoke_threshold and signers
  accountLive,  \* last ledger at which the account is not archived
  vouched       \* history: contract -> who signed its standing attestation, how
                \* many had to, until when and for which publisher

accountVars == <<roster, accountLive, vouched>>
attestVars  == <<registryVars, accountVars>>

-----------------------------------------------------------------------------
\* Mutant: a threshold nobody can reach is stored.
ValidRosterUnreachable(r) == Len(r.signers) \in 1..MAX_SIGNERS /\ r.threshold # 0

ValidRoster(r) ==
  LET n == Len(r.signers)
  IN  /\ n \in 1..MAX_SIGNERS
      /\ r.threshold \in 1..n
      /\ IsInjective(r.signers)
      /\ r.revoke_threshold # NoRevokeThreshold => r.revoke_threshold \in 1..n

Stored(r) ==
  [r EXCEPT !.revoke_threshold = IF @ = NoRevokeThreshold THEN r.threshold ELSE @]

\* Mutant: one revoke among the contexts is enough.
IsAnyRevoke(contexts) == \E i \in DOMAIN contexts : contexts[i] = "revoke"

is_all_revoke(contexts) ==
  contexts # <<>> /\ \A i \in DOMAIN contexts : contexts[i] = "revoke"

\* Strictly, so that no signer counts twice.
Ascending(signatures) ==
  \A i, j \in DOMAIN signatures :
    i < j => signatures[i].signer_index < signatures[j].signer_index

Required(contexts) ==
  IF is_all_revoke(contexts) THEN roster.revoke_threshold ELSE roster.threshold

check_auth(signatures, contexts) ==
  /\ ledger <= accountLive
  /\ Len(signatures) >= Required(contexts)
  /\ Ascending(signatures)
  /\ \A i \in DOMAIN signatures :
       /\ signatures[i].signer_index < Len(roster.signers)
       /\ roster.signers[signatures[i].signer_index + 1] = signatures[i].key

Signers(signatures) == {signatures[i].key : i \in DOMAIN signatures}

renew_account == Extended(accountLive, RENEW_THRESHOLD, RENEW_TO)

-----------------------------------------------------------------------------
Nobody == [keys |-> {}, needed |-> 0, until |-> 0, publisher |-> NoPublisher]

ThresholdInit ==
  /\ Init
  /\ attestor = account
  /\ \E r \in Rosters : ValidRoster(r) /\ roster = Stored(r)
  /\ accountLive = instanceLive
  /\ vouched = [c \in Contract |-> Nobody]

\* The registry's attestor-only calls, by caller in the name of keys; upsert
\* stands for upsert_with_publisher too.
CallRegistry(fn, caller, keys, needed) ==
  \/ /\ fn = "upsert"
     /\ \E c \in Contract, h \in Hash, p \in Publisher \cup {NoPublisher}, life \in Lifetimes :
          /\ write_attestation(caller, c, h, p, ledger + life)
          /\ vouched' = [vouched EXCEPT ![c] =
               [keys |-> keys, needed |-> needed, until |-> ledger + life, publisher |-> p]]
  \/ /\ fn = "revoke"
     /\ \E c \in Contract :
          /\ revoke(caller, c)
          /\ vouched' = [vouched EXCEPT ![c] = Nobody]
  \/ /\ fn = "set_attestor"
     /\ \E new \in Account : set_attestor(caller, new)
     /\ UNCHANGED vouched

\* A registry call authorized by the account: contexts is what the
\* authorization covers, and the call is among it.
AccountCalls(signatures, contexts) ==
  /\ check_auth(signatures, contexts)
  /\ \E fn \in Range(contexts) :
       CallRegistry(fn, account, Signers(signatures), roster.threshold)
  /\ accountLive' = renew_account
  /\ UNCHANGED roster

\* The attestor may be handed to an ordinary account, which signs alone.
OtherCalls(caller, fn) ==
  /\ CallRegistry(fn, caller, {caller}, 1)
  /\ UNCHANGED <<roster, accountLive>>

set_signers(signatures, contexts) ==
  /\ "set_signers" \in Range(contexts)
  /\ check_auth(signatures, contexts)
  /\ \E r \in Rosters : ValidRoster(r) /\ roster' = Stored(r)
  /\ accountLive' = renew_account
  /\ UNCHANGED <<registryVars, vouched>>

\* external: somebody restores the archived account.
RestoreAccount ==
  /\ ledger > accountLive
  /\ accountLive' = ledger + MinTtl
  /\ UNCHANGED <<registryVars, roster, vouched>>

\* external: time, and restored registry entries.
Host ==
  /\ LedgerClose \/ RestoreInstance \/ (\E c \in Contract : RestoreRecord(c))
  /\ UNCHANGED accountVars

ThresholdNext ==
  \/ \E signatures \in SignatureLists, contexts \in ContextLists :
       AccountCalls(signatures, contexts) \/ set_signers(signatures, contexts)
  \/ \E caller \in Account \ {account}, fn \in {"upsert", "revoke", "set_attestor"} :
       OtherCalls(caller, fn)
  \/ RestoreAccount
  \/ Host

-----------------------------------------------------------------------------
AccountTypeOK ==
  /\ roster.signers \in Seq(Key) /\ IsInjective(roster.signers)
  /\ {roster.threshold, roster.revoke_threshold} \subseteq 1..Len(roster.signers)
  /\ accountLive \in Nat
  /\ vouched \in [Contract -> [keys : SUBSET (Key \cup Account), needed : Nat, until : Nat,
                              publisher : Publisher \cup {NoPublisher}]]

\* M-of-N (__check_auth): whatever an authorization covers and in whatever
\* order its signatures come, the record of a contract was signed by as many
\* different keys as the threshold was when it was written.
QuorumVouched ==
  \A c \in Contract : record[c] # NoAttestation =>
    vouched[c].needed > 0 /\ Cardinality(vouched[c].keys) >= vouched[c].needed

\* No rotation locks the account (set_signers, validate_and_store_config):
\* together, the holders of the current keys can always authorize the next
\* rotation, and a revoke.
NeverLocked ==
  LET all == [i \in DOMAIN roster.signers |->
                [signer_index |-> i - 1, key |-> roster.signers[i]]]
  IN  ledger <= accountLive =>
        check_auth(all, <<"set_signers">>) /\ check_auth(all, <<"revoke">>)
=============================================================================
