--------------------- MODULE AttestationRegistryProofs ---------------------
(***************************************************************************)
(* For every set of contracts, callers and lifetimes: the registry's       *)
(* records are well formed and, as long as nobody asks for a lifetime      *)
(* longer than RENEW_THRESHOLD, every unexpired attestation can be read.   *)
(***************************************************************************)
EXTENDS AttestationRegistry, TLAPS

LEMMA Bounds ==
  /\ MAX_ATTESTATION_LEDGERS \in Nat /\ RENEW_THRESHOLD \in Nat /\ RENEW_TO \in Nat
  /\ TTL_BUFFER \in Nat /\ MinTtl \in Nat /\ MaxLedger \in Nat
  /\ RENEW_THRESHOLD <= RENEW_TO
  /\ Lifetimes \subseteq Int
  BY RegistryConstants

\* extend_ttl never shortens a TTL and reaches at least the threshold.
LEMMA ExtendedReaches ==
  ASSUME NEW until \in Nat, NEW threshold \in Nat, NEW to \in Nat,
         ledger \in Nat, threshold <= to
  PROVE  /\ Extended(until, threshold, to) \in Nat
         /\ Extended(until, threshold, to) >= until
         /\ Extended(until, threshold, to) >= ledger + threshold
  BY DEF Extended

\* write_attestation keeps the records well formed.
LEMMA WriteType ==
  ASSUME TypeOK, NEW caller \in Account, NEW c \in Contract, NEW h \in Hash,
         NEW p \in Publisher \cup {NoPublisher}, NEW expires \in Int,
         write_attestation(caller, c, h, p, expires)
  PROVE  TypeOK'
<1> DEFINE liveFor == expires - ledger + TTL_BUFFER
           until   == IF record[c] = NoAttestation THEN ledger + MinTtl ELSE recordLive[c]
           new     == [wasm_hash |-> h, attested_ledger |-> ledger,
                       expires_ledger |-> expires, publisher |-> p]
<1>1. /\ ledger \in Nat /\ expires > ledger /\ expires <= ledger + MAX_ATTESTATION_LEDGERS
      /\ expires \in Nat /\ liveFor \in Nat /\ until \in Nat
  BY Bounds DEF TypeOK, write_attestation, ValidExpiry
<1>2. Extended(until, liveFor, liveFor) \in Nat
  BY <1>1 DEF Extended
<1>3. Extended(instanceLive, RENEW_THRESHOLD, RENEW_TO) \in Nat
  BY <1>1, Bounds, ExtendedReaches DEF TypeOK
<1>4. new \in Attestation
  BY <1>1 DEF Attestation
<1>5. /\ record' = [record EXCEPT ![c] = new]
      /\ recordLive' = [recordLive EXCEPT ![c] = Extended(until, liveFor, liveFor)]
      /\ instanceLive' = Extended(instanceLive, RENEW_THRESHOLD, RENEW_TO)
      /\ ledger' = ledger /\ attestor' = attestor
  BY DEF write_attestation, renew_instance
<1> HIDE DEF new
<1>6. /\ record' \in [Contract -> Attestation \cup {NoAttestation}]
      /\ recordLive' \in [Contract -> Nat]
      /\ instanceLive' \in Nat
  BY <1>2, <1>3, <1>4, <1>5 DEF TypeOK
<1>7. /\ new.expires_ledger = expires /\ new.attested_ledger = ledger
  BY DEF new
<1>8. \A d \in Contract : record'[d] # NoAttestation =>
        record'[d].expires_ledger \in
          record'[d].attested_ledger + 1..record'[d].attested_ledger + MAX_ATTESTATION_LEDGERS
  <2> TAKE d \in Contract
  <2>1. CASE d = c
    <3>1. record'[d] = new
      BY <1>5, <2>1 DEF TypeOK
    <3> QED
      BY <3>1, <1>1, <1>7, Bounds
  <2>2. CASE d # c
    <3>1. record'[d] = record[d]
      BY <1>5, <2>2 DEF TypeOK
    <3> QED
      BY <3>1 DEF TypeOK
  <2> QED
    BY <2>1, <2>2
<1> QED
  BY <1>5, <1>6, <1>8 DEF TypeOK

LEMMA NextType == TypeOK /\ [Next]_registryVars => TypeOK'
<1> SUFFICES ASSUME TypeOK, [Next]_registryVars PROVE TypeOK'
  OBVIOUS
<1>1. ASSUME NEW caller \in Account, NEW c \in Contract, NEW h \in Hash,
             NEW p \in Publisher \cup {NoPublisher}, NEW life \in Lifetimes,
             write_attestation(caller, c, h, p, ledger + life)
      PROVE  TypeOK'
  <2>1. ledger + life \in Int
    BY Bounds DEF TypeOK
  <2> QED
    BY <1>1, <2>1, WriteType
<1>2. renew_instance \in Nat
  BY Bounds DEF TypeOK, renew_instance, Extended
<1>3. ASSUME NEW caller \in Account, NEW c \in Contract, revoke(caller, c)
      PROVE  TypeOK'
  BY <1>2, <1>3 DEF TypeOK, revoke
<1>4. ASSUME NEW caller \in Account, NEW new \in Account, set_attestor(caller, new)
      PROVE  TypeOK'
  BY <1>2, <1>4 DEF TypeOK, set_attestor
<1>5. CASE LedgerClose
  BY <1>5, Bounds DEF TypeOK, LedgerClose
<1>6. CASE RestoreInstance
  BY <1>6, Bounds DEF TypeOK, RestoreInstance
<1>7. ASSUME NEW c \in Contract, RestoreRecord(c)
      PROVE  TypeOK'
  BY <1>7, Bounds DEF TypeOK, RestoreRecord
<1>8. CASE UNCHANGED registryVars
  BY <1>8 DEF TypeOK, registryVars
<1> QED
  BY <1>1, <1>3, <1>4, <1>5, <1>6, <1>7, <1>8 DEF Next

LEMMA InitType == Init => TypeOK
  BY Bounds DEF Init, TypeOK

\* The registry's state is well formed: in particular a stored attestation
\* lives at least one ledger and at most MAX_ATTESTATION_LEDGERS.
THEOREM RegistryTypeCorrect == Spec => []TypeOK
  BY InitType, NextType, PTL DEF Spec

-----------------------------------------------------------------------------
(***************************************************************************)
(* Readability.  LiveReadable is not inductive: what a write establishes   *)
(* and every later step keeps is that both TTLs reach the expiry.          *)
(***************************************************************************)
TtlReachesExpiry ==
  \A c \in Contract : record[c] # NoAttestation =>
    /\ record[c].expires_ledger <= recordLive[c]
    /\ record[c].expires_ledger <= instanceLive

LEMMA WriteReaches ==
  ASSUME ShortLifetimes, TypeOK, TtlReachesExpiry,
         NEW caller \in Account, NEW c \in Contract, NEW h \in Hash,
         NEW p \in Publisher \cup {NoPublisher}, NEW life \in Lifetimes,
         write_attestation(caller, c, h, p, ledger + life)
  PROVE  TtlReachesExpiry'
<1> DEFINE expires == ledger + life
           liveFor == expires - ledger + TTL_BUFFER
           until   == IF record[c] = NoAttestation THEN ledger + MinTtl ELSE recordLive[c]
<1>1. /\ ledger \in Nat /\ life \in Nat /\ life <= RENEW_THRESHOLD
      /\ expires \in Nat /\ liveFor \in Nat /\ until \in Nat
      /\ ledger + liveFor >= expires
  BY Bounds DEF TypeOK, write_attestation, ValidExpiry, ShortLifetimes
<1>2. Extended(until, liveFor, liveFor) >= expires
  BY <1>1 DEF Extended
<1>3. /\ renew_instance >= instanceLive
      /\ renew_instance >= expires
      /\ renew_instance \in Nat
  BY <1>1, Bounds DEF TypeOK, renew_instance, Extended
<1>4. /\ record' = [record EXCEPT ![c] = [wasm_hash |-> h, attested_ledger |-> ledger,
                                          expires_ledger |-> expires, publisher |-> p]]
      /\ recordLive' = [recordLive EXCEPT ![c] = Extended(until, liveFor, liveFor)]
      /\ instanceLive' = renew_instance
  BY DEF write_attestation
<1>5. ASSUME NEW d \in Contract, record'[d] # NoAttestation
      PROVE  /\ record'[d].expires_ledger <= recordLive'[d]
             /\ record'[d].expires_ledger <= instanceLive'
  <2>1. CASE d = c
    <3>1. record'[d].expires_ledger = expires
      BY <1>4, <2>1 DEF TypeOK
    <3>2. recordLive'[d] = Extended(until, liveFor, liveFor)
      BY <1>4, <2>1 DEF TypeOK
    <3> QED
      BY <3>1, <3>2, <1>2, <1>3, <1>4
  <2>2. CASE d # c
    <3>1. record'[d] = record[d] /\ recordLive'[d] = recordLive[d]
      BY <1>4, <2>2 DEF TypeOK
    <3>2. record[d].expires_ledger \in Nat /\ instanceLive \in Nat
      BY <3>1, <1>5, Bounds DEF TypeOK, Attestation
    <3> QED
      BY <3>1, <3>2, <1>3, <1>4, <1>5 DEF TtlReachesExpiry
  <2> QED
    BY <2>1, <2>2
<1> QED
  BY <1>5 DEF TtlReachesExpiry

LEMMA NextReaches ==
  ASSUME ShortLifetimes, TypeOK, TtlReachesExpiry, [Next]_registryVars
  PROVE  TtlReachesExpiry'
<1>0. /\ ledger \in Nat /\ instanceLive \in Nat
      /\ recordLive \in [Contract -> Nat]
      /\ \A c \in Contract : record[c] # NoAttestation => record[c].expires_ledger \in Nat
  BY Bounds DEF TypeOK, Attestation
<1>1. ASSUME NEW caller \in Account, NEW c \in Contract, NEW h \in Hash,
             NEW p \in Publisher \cup {NoPublisher}, NEW life \in Lifetimes,
             write_attestation(caller, c, h, p, ledger + life)
      PROVE  TtlReachesExpiry'
  BY <1>1, WriteReaches
<1>2. renew_instance \in Nat /\ renew_instance >= instanceLive
  BY <1>0, Bounds DEF renew_instance, Extended
<1>3. ASSUME NEW caller \in Account, NEW c \in Contract, revoke(caller, c)
      PROVE  TtlReachesExpiry'
  BY <1>0, <1>2, <1>3 DEF TtlReachesExpiry, revoke, TypeOK
<1>4. ASSUME NEW caller \in Account, NEW new \in Account, set_attestor(caller, new)
      PROVE  TtlReachesExpiry'
  BY <1>0, <1>2, <1>4 DEF TtlReachesExpiry, set_attestor
<1>5. CASE LedgerClose
  BY <1>5 DEF TtlReachesExpiry, LedgerClose
<1>6. CASE RestoreInstance
  BY <1>0, <1>6, Bounds DEF TtlReachesExpiry, RestoreInstance
<1>7. ASSUME NEW c \in Contract, RestoreRecord(c)
      PROVE  TtlReachesExpiry'
  BY <1>0, <1>7, Bounds DEF TtlReachesExpiry, RestoreRecord, RecordReadable
<1>8. CASE UNCHANGED registryVars
  BY <1>8 DEF TtlReachesExpiry, registryVars
<1> QED
  BY <1>1, <1>3, <1>4, <1>5, <1>6, <1>7, <1>8 DEF Next

LEMMA ReachesReadable == TypeOK /\ TtlReachesExpiry => LiveReadable
<1> SUFFICES ASSUME TypeOK, TtlReachesExpiry, NEW c \in Contract, Unexpired(c)
             PROVE  Callable(c)
  BY DEF LiveReadable
<1>1. record[c].expires_ledger \in Nat /\ ledger < record[c].expires_ledger
  BY Bounds DEF TypeOK, Attestation, Unexpired
<1> QED
  BY <1>1 DEF TypeOK, TtlReachesExpiry, Unexpired, Callable, RecordReadable

\* While an attestation has not expired, neither its record nor the registry
\* itself is archived, if no caller asks for more than RENEW_THRESHOLD ledgers.
THEOREM AttestationsReadable ==
  ASSUME ShortLifetimes
  PROVE  Spec => []LiveReadable
<1>1. Init => TtlReachesExpiry
  BY DEF Init, TtlReachesExpiry
<1>2. TypeOK /\ TtlReachesExpiry /\ [Next]_registryVars => TypeOK' /\ TtlReachesExpiry'
  BY NextReaches, NextType, ShortLifetimes
<1>3. TypeOK /\ TtlReachesExpiry => LiveReadable
  BY ReachesReadable
<1> QED
  BY InitType, <1>1, <1>2, <1>3, PTL DEF Spec

\* A contract becomes verified only by a write of that very ledger, under the
\* same bound on the lifetimes: there is then nothing for a restore to revive.
THEOREM NoRevival ==
  ASSUME ShortLifetimes
  PROVE  Spec => VerifiedOnlyByWrite
<1>1. Init => TtlReachesExpiry
  BY DEF Init, TtlReachesExpiry
<1>2. TypeOK /\ TtlReachesExpiry /\ [Next]_registryVars => TypeOK' /\ TtlReachesExpiry'
  BY NextReaches, NextType, ShortLifetimes
<1>3. ASSUME TypeOK, TtlReachesExpiry, [Next]_registryVars,
             NEW c \in Contract, ~is_verified(c), is_verified(c)'
      PROVE  record'[c].attested_ledger = ledger'
  <2>1. ~Unexpired(c)
    BY <1>3, ReachesReadable DEF LiveReadable, is_verified
  <2>2. Unexpired(c)'
    BY <1>3 DEF is_verified
  <2>3. ASSUME NEW caller \in Account, NEW d \in Contract, NEW h \in Hash,
               NEW p \in Publisher \cup {NoPublisher}, NEW life \in Lifetimes,
               write_attestation(caller, d, h, p, ledger + life)
        PROVE  record'[c].attested_ledger = ledger'
    <3>1. CASE c = d
      BY <1>3, <3>1, <2>3 DEF write_attestation, TypeOK
    <3>2. CASE c # d
      BY <1>3, <3>2, <2>1, <2>2, <2>3 DEF write_attestation, TypeOK, Unexpired
    <3> QED
      BY <3>1, <3>2
  <2>4. ASSUME NEW caller \in Account, NEW d \in Contract, revoke(caller, d)
        PROVE  FALSE
    BY <1>3, <2>1, <2>2, <2>4 DEF revoke, TypeOK, Unexpired
  <2>5. ASSUME NEW caller \in Account, NEW new \in Account, set_attestor(caller, new)
        PROVE  FALSE
    BY <2>1, <2>2, <2>5 DEF set_attestor, Unexpired
  <2>6. CASE LedgerClose
    <3>1. record[c] # NoAttestation => record[c].expires_ledger \in Nat
      BY <1>3, Bounds DEF TypeOK, Attestation
    <3> QED
      BY <1>3, <3>1, <2>1, <2>2, <2>6, Bounds DEF LedgerClose, Unexpired, TypeOK
  <2>7. CASE RestoreInstance
    BY <2>1, <2>2, <2>7 DEF RestoreInstance, Unexpired
  <2>8. ASSUME NEW d \in Contract, RestoreRecord(d)
        PROVE  FALSE
    BY <2>1, <2>2, <2>8 DEF RestoreRecord, Unexpired
  <2>9. CASE UNCHANGED registryVars
    BY <2>1, <2>2, <2>9 DEF registryVars, Unexpired
  <2> QED
    BY <1>3, <2>3, <2>4, <2>5, <2>6, <2>7, <2>8, <2>9 DEF Next
<1>4. TypeOK /\ TtlReachesExpiry /\ [Next]_registryVars =>
        (\A c \in Contract : ~is_verified(c) /\ is_verified(c)' =>
           record'[c].attested_ledger = ledger')
  BY <1>3
<1> QED
  BY InitType, <1>1, <1>2, <1>4, PTL DEF Spec, VerifiedOnlyByWrite
=============================================================================
