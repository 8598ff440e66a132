------------------------ MODULE AttestationRegistry ------------------------
(***************************************************************************)
(* The AttestationRegistry contract: the attestor writes, refreshes and    *)
(* revokes time-bounded attestations; policies read them in __check_auth.  *)
(*                                                                         *)
(* An invocation is atomic, so a panic is a disabled action.  Storage is   *)
(* the host's (external): an archived entry, or an archived instance,      *)
(* makes every invocation that touches it fail until it is restored.       *)
(***************************************************************************)
EXTENDS Integers

CONSTANTS
  Contract,          \* contracts that may be attested
  Hash,              \* wasm hashes
  Publisher,         \* publisher ids
  NoPublisher,       \* Option::None
  Account,           \* addresses that may be the attestor
  NoAttestation,     \* no record in storage
  Lifetimes,         \* expires_ledger - now, as callers ask for it
  MAX_ATTESTATION_LEDGERS,
  RENEW_THRESHOLD,
  RENEW_TO,
  TTL_BUFFER,
  MinTtl,            \* TTL the host gives a fresh or restored entry
  MaxLedger          \* bound: the last ledger of a behaviour

ASSUME RegistryConstants ==
  /\ {MAX_ATTESTATION_LEDGERS, RENEW_THRESHOLD, RENEW_TO, TTL_BUFFER, MinTtl, MaxLedger}
       \subseteq Nat
  /\ Lifetimes \subseteq Int
  /\ RENEW_THRESHOLD <= RENEW_TO
  /\ Account # {}

VARIABLES
  ledger,          \* env.ledger().sequence()
  attestor,        \* StorageKey::Attestor
  record,          \* StorageKey::Attestation(contract)
  recordLive,      \* contract -> last ledger at which its record is not archived
  instanceLive     \* the same for the contract instance

registryVars == <<ledger, attestor, record, recordLive, instanceLive>>

Attestation ==
  [wasm_hash : Hash, attested_ledger : Nat, expires_ledger : Nat,
   publisher : Publisher \cup {NoPublisher}]

-----------------------------------------------------------------------------
(***************************************************************************)
(* Host storage (external) and the views                                   *)
(***************************************************************************)
RecordReadable(c) == record[c] # NoAttestation => ledger <= recordLive[c]

\* What an invocation that touches the record of c needs.
Callable(c) == ledger <= instanceLive /\ RecordReadable(c)

\* extend_ttl(threshold, to) at the current ledger
Extended(until, threshold, to) ==
  IF until - ledger <= threshold /\ until < ledger + to THEN ledger + to ELSE until

renew_instance == Extended(instanceLive, RENEW_THRESHOLD, RENEW_TO)

\* Mutant: the expiry is not looked at.
UnexpiredForever(c) == record[c] # NoAttestation

\* The record is there and has not reached its expiry, readable or not.
Unexpired(c) == record[c] # NoAttestation /\ ledger < record[c].expires_ledger

is_verified(c) == Callable(c) /\ Unexpired(c)

publisher_of(c) == IF is_verified(c) THEN record[c].publisher ELSE NoPublisher

-----------------------------------------------------------------------------
Init ==
  /\ ledger = 0
  /\ attestor \in Account
  /\ record = [c \in Contract |-> NoAttestation]
  /\ recordLive = [c \in Contract |-> 0]
  /\ instanceLive = IF MinTtl <= RENEW_THRESHOLD THEN RENEW_TO ELSE MinTtl

\* expires_ledger <= now || expires_ledger - now > MAX_ATTESTATION_LEDGERS
ValidExpiry(expires) == expires - ledger \in 1..MAX_ATTESTATION_LEDGERS

\* Mutant: the instance is not renewed.
WriteAttestationNoRenew(caller, c, hash, publisher, expires) ==
  LET liveFor == expires - ledger + TTL_BUFFER
      until   == IF record[c] = NoAttestation THEN ledger + MinTtl ELSE recordLive[c]
  IN  /\ Callable(c)
      /\ caller = attestor
      /\ ValidExpiry(expires)
      /\ record' = [record EXCEPT ![c] =
                      [wasm_hash |-> hash, attested_ledger |-> ledger,
                       expires_ledger |-> expires, publisher |-> publisher]]
      /\ recordLive' = [recordLive EXCEPT ![c] = Extended(until, liveFor, liveFor)]
      /\ UNCHANGED <<ledger, attestor, instanceLive>>

\* upsert passes no publisher, upsert_with_publisher one.
write_attestation(caller, c, hash, publisher, expires) ==
  LET liveFor == expires - ledger + TTL_BUFFER
      until   == IF record[c] = NoAttestation THEN ledger + MinTtl ELSE recordLive[c]
  IN  /\ Callable(c)
      /\ caller = attestor
      /\ ValidExpiry(expires)
      /\ record' = [record EXCEPT ![c] =
                      [wasm_hash |-> hash, attested_ledger |-> ledger,
                       expires_ledger |-> expires, publisher |-> publisher]]
      /\ recordLive' = [recordLive EXCEPT ![c] = Extended(until, liveFor, liveFor)]
      /\ instanceLive' = renew_instance
      /\ UNCHANGED <<ledger, attestor>>

\* Idempotent: revoking a contract without a record changes nothing.
revoke(caller, c) ==
  /\ Callable(c)
  /\ caller = attestor
  /\ record' = [record EXCEPT ![c] = NoAttestation]
  /\ instanceLive' = renew_instance
  /\ UNCHANGED <<ledger, attestor, recordLive>>

set_attestor(caller, new) ==
  /\ ledger <= instanceLive
  /\ caller = attestor
  /\ attestor' = new
  /\ instanceLive' = renew_instance
  /\ UNCHANGED <<ledger, record, recordLive>>

\* external: a ledger closes.
LedgerClose ==
  /\ ledger < MaxLedger
  /\ ledger' = ledger + 1
  /\ UNCHANGED <<attestor, record, recordLive, instanceLive>>

\* external: somebody restores the archived instance, or an archived record.
RestoreInstance ==
  /\ ledger > instanceLive
  /\ instanceLive' = ledger + MinTtl
  /\ UNCHANGED <<ledger, attestor, record, recordLive>>

RestoreRecord(c) ==
  /\ ~RecordReadable(c)
  /\ recordLive' = [recordLive EXCEPT ![c] = ledger + MinTtl]
  /\ UNCHANGED <<ledger, attestor, record, instanceLive>>

Next ==
  \/ \E caller \in Account, c \in Contract, h \in Hash,
        p \in Publisher \cup {NoPublisher}, life \in Lifetimes :
       write_attestation(caller, c, h, p, ledger + life)
  \/ \E caller \in Account, c \in Contract : revoke(caller, c)
  \/ \E caller, new \in Account : set_attestor(caller, new)
  \/ LedgerClose
  \/ RestoreInstance
  \/ \E c \in Contract : RestoreRecord(c)

Spec == Init /\ [][Next]_registryVars

-----------------------------------------------------------------------------
\* What the attestor's lifetime must satisfy for the registry's own TTL to
\* keep up with it; the worker's default lifetime is RENEW_THRESHOLD itself.
ShortLifetimes ==
  \A life \in Lifetimes : life \in 1..MAX_ATTESTATION_LEDGERS => life <= RENEW_THRESHOLD

TypeOK ==
  /\ ledger \in 0..MaxLedger
  /\ attestor \in Account
  /\ record \in [Contract -> Attestation \cup {NoAttestation}]
  /\ recordLive \in [Contract -> Nat]
  /\ instanceLive \in Nat
  /\ \A c \in Contract : record[c] # NoAttestation =>
       record[c].expires_ledger \in
         record[c].attested_ledger + 1
           ..record[c].attested_ledger + MAX_ATTESTATION_LEDGERS

\* "a live attestation can never be archived out from under a reader"
\* (upsert): while an attestation has not expired, neither its record nor the
\* registry's instance is archived, so a policy can read it.
LiveReadable == \A c \in Contract : Unexpired(c) => Callable(c)

\* A contract becomes verified only in the ledger of a fresh write: neither
\* the clock, nor a restore, nor a change of attestor turns the view back on.
VerifiedOnlyByWrite ==
  [][\A c \in Contract :
       ~is_verified(c) /\ is_verified(c)' => record'[c].attested_ledger = ledger']_registryVars
=============================================================================
