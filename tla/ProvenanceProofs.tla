-------------------------- MODULE ProvenanceProofs --------------------------
(***************************************************************************)
(* What TLAPS proves of provenance-gated spending, for any keys, rosters,  *)
(* signature lists, contracts, publishers and policies: first of the three *)
(* contracts (MCProvenanceGate), then of the attestor that feeds them      *)
(* (Provenance).                                                           *)
(***************************************************************************)
EXTENDS MCProvenanceGate, Provenance, AttestationRegistryProofs, FiniteSetTheorems, SequenceTheorems

-----------------------------------------------------------------------------
(***************************************************************************)
(* __check_auth counts keys                                                *)
(***************************************************************************)
\* Signatures with strictly ascending indices into a roster without repetitions
\* come from as many different keys as there are signatures.
LEMMA AscendingCounts ==
  ASSUME NEW n, NEW signatures \in Seq([signer_index : Nat, key : Key]),
         AccountTypeOK, Ascending(signatures), Len(signatures) >= n,
         \A i \in DOMAIN signatures :
           /\ signatures[i].signer_index < Len(roster.signers)
           /\ roster.signers[signatures[i].signer_index + 1] = signatures[i].key
  PROVE  Cardinality(Signers(signatures)) >= n
<1> DEFINE D == DOMAIN signatures
           f == [i \in D |-> signatures[i].key]
<1>1. D = 1..Len(signatures) /\ Len(signatures) \in Nat
  OBVIOUS
<1>2. \A i \in D : signatures[i].signer_index \in Nat /\ signatures[i].key \in Key
  <2> SUFFICES ASSUME NEW i \in D PROVE signatures[i] \in [signer_index : Nat, key : Key]
    OBVIOUS
  <2> QED BY <1>1, ElementOfSeq
<1>3. \A i, j \in D : signatures[i].key = signatures[j].key => i = j
  <2> SUFFICES ASSUME NEW i \in D, NEW j \in D, signatures[i].key = signatures[j].key, i < j
               PROVE  FALSE
    BY <1>1
  <2>1. /\ signatures[i].signer_index + 1 \in DOMAIN roster.signers
        /\ signatures[j].signer_index + 1 \in DOMAIN roster.signers
    BY <1>2 DEF AccountTypeOK
  <2>2. signatures[i].signer_index + 1 = signatures[j].signer_index + 1
    BY <2>1 DEF AccountTypeOK, IsInjective
  <2>3. signatures[i].signer_index < signatures[j].signer_index
    BY DEF Ascending
  <2> QED BY <1>2, <2>2, <2>3
<1>4. f \in Bijection(D, Signers(signatures))
  BY <1>3 DEF Signers, Bijection, Injection, Surjection, IsInjective
<1>5. ExistsBijection(D, Signers(signatures))
  BY <1>4 DEF ExistsBijection
<1>6. IsFiniteSet(D) /\ Cardinality(D) = Len(signatures)
  <2>1. \A k \in Nat : IsFiniteSet(1..k) /\ Cardinality(1..k) = k
    BY FS_Interval
  <2> QED
    BY <1>1, <2>1
<1> QED BY <1>5, <1>6, FS_Bijection

\* An authorization that covers anything but revokes needs the full threshold.
LEMMA UpsertNeedsThreshold ==
  ASSUME NEW contexts, "upsert" \in Range(contexts)
  PROVE  Required(contexts) = roster.threshold
  BY DEF Range, Required, is_all_revoke

-----------------------------------------------------------------------------
(***************************************************************************)
(* The registry inside the gate is the registry                            *)
(***************************************************************************)
\* Every step of the gate is a registry step or leaves the registry alone.
LEMMA GateStepsRegistry == [GateNext]_gateVars => [Next]_registryVars
<1> SUFFICES ASSUME [GateNext]_gateVars PROVE [Next]_registryVars
  OBVIOUS
<1>1. CASE PolicyNext /\ UNCHANGED attestVars
  BY <1>1 DEF attestVars
<1>2. ASSUME NEW fn, NEW caller \in Account, NEW keys, NEW needed, CallRegistry(fn, caller, keys, needed)
      PROVE  Next
  BY <1>2 DEF CallRegistry, Next
<1>3. CASE ThresholdNext
  <2>1. ASSUME NEW signatures \in SignatureLists, NEW contexts \in ContextLists, AccountCalls(signatures, contexts)
        PROVE  Next
    BY <1>2, <2>1, ThresholdConstants DEF AccountCalls
  <2>2. ASSUME NEW signatures \in SignatureLists, NEW contexts \in ContextLists, set_signers(signatures, contexts)
        PROVE  UNCHANGED registryVars
    BY <2>2 DEF set_signers
  <2>3. ASSUME NEW caller \in Account, NEW fn, OtherCalls(caller, fn) PROVE Next
    BY <1>2, <2>3 DEF OtherCalls
  <2>4. CASE RestoreAccount
    BY <2>4 DEF RestoreAccount
  <2>5. CASE Host
    BY <2>5 DEF Host, Next
  <2> QED BY <1>3, <2>1, <2>2, <2>3, <2>4, <2>5 DEF ThresholdNext
<1>4. CASE UNCHANGED gateVars
  BY <1>4 DEF gateVars, attestVars
<1> QED BY <1>1, <1>3, <1>4 DEF GateNext

\* The gate implements the registry on its own, and inherits what is proved of
\* it (AttestationsReadable, NoRevival).
THEOREM GateImplementsRegistry == GateSpec => Spec
<1>1. GateInit => Init
  BY DEF GateInit, ThresholdInit
<1> QED BY <1>1, GateStepsRegistry, PTL DEF GateSpec, Spec

-----------------------------------------------------------------------------
(***************************************************************************)
(* The inductive invariant                                                 *)
(***************************************************************************)
\* What a quorum vouched for is what stands in the registry.
VouchedMatches ==
  \A c \in Contract : record[c] # NoAttestation =>
    /\ vouched[c].until = record[c].expires_ledger
    /\ vouched[c].publisher = record[c].publisher

GateInv == AccountTypeOK /\ QuorumVouched /\ VouchedMatches

\* validate_and_store_config stores only rosters that can still authorize.
LEMMA StoredRoster ==
  ASSUME NEW r \in Rosters, ValidRoster(r)
  PROVE  /\ Stored(r).signers \in Seq(Key) /\ IsInjective(Stored(r).signers)
         /\ {Stored(r).threshold, Stored(r).revoke_threshold} \subseteq 1..Len(Stored(r).signers)
<1>1. r \in [threshold : Nat, signers : Seq(Key), revoke_threshold : Nat \cup {NoRevokeThreshold}]
  BY ThresholdConstants
<1>2. /\ Stored(r).signers = r.signers /\ Stored(r).threshold = r.threshold
      /\ Stored(r).revoke_threshold = IF r.revoke_threshold = NoRevokeThreshold THEN r.threshold
                                                                               ELSE r.revoke_threshold
  BY <1>1 DEF Stored
<1> QED BY <1>1, <1>2 DEF ValidRoster

\* A registry call in the name of enough keys keeps the books.
LEMMA CallKeepsBooks ==
  ASSUME TypeOK, GateInv, NEW fn, NEW caller \in Account, NEW keys \in SUBSET (Key \cup Account),
         NEW needed \in Nat, CallRegistry(fn, caller, keys, needed),
         fn = "upsert" => needed > 0 /\ Cardinality(keys) >= needed
  PROVE  /\ vouched' \in [Contract -> [keys : SUBSET (Key \cup Account), needed : Nat, until : Nat,
                                       publisher : Publisher \cup {NoPublisher}]]
         /\ QuorumVouched' /\ VouchedMatches'
<1> USE DEF GateInv, AccountTypeOK
<1>1. ASSUME fn = "upsert",
             NEW c \in Contract, NEW h \in Hash, NEW p \in Publisher \cup {NoPublisher}, NEW life \in Lifetimes,
             write_attestation(caller, c, h, p, ledger + life),
             vouched' = [vouched EXCEPT ![c] =
               [keys |-> keys, needed |-> needed, until |-> ledger + life, publisher |-> p]]
      PROVE  /\ vouched' \in [Contract -> [keys : SUBSET (Key \cup Account), needed : Nat, until : Nat,
                                           publisher : Publisher \cup {NoPublisher}]]
             /\ QuorumVouched' /\ VouchedMatches'
  <2>1. ledger + life \in Nat
    BY <1>1, Bounds DEF write_attestation, ValidExpiry, TypeOK
  <2> DEFINE v == [keys |-> keys, needed |-> needed, until |-> ledger + life, publisher |-> p]
             a == [wasm_hash |-> h, attested_ledger |-> ledger, expires_ledger |-> ledger + life, publisher |-> p]
  <2>2. v \in [keys : SUBSET (Key \cup Account), needed : Nat, until : Nat,
               publisher : Publisher \cup {NoPublisher}]
    BY <2>1
  <2>3. /\ v.keys = keys /\ v.needed = needed /\ v.until = a.expires_ledger /\ v.publisher = a.publisher
    OBVIOUS
  <2>4. vouched' = [vouched EXCEPT ![c] = v] /\ record' = [record EXCEPT ![c] = a]
    BY <1>1 DEF write_attestation
  <2> HIDE DEF v, a
  <2>5. \A d \in Contract : IF d = c THEN vouched'[d] = v /\ record'[d] = a
                                     ELSE vouched'[d] = vouched[d] /\ record'[d] = record[d]
    BY <2>4 DEF TypeOK
  <2> QED BY <1>1, <2>2, <2>3, <2>4, <2>5 DEF QuorumVouched, VouchedMatches
<1>2. ASSUME NEW c \in Contract, revoke(caller, c), vouched' = [vouched EXCEPT ![c] = Nobody]
      PROVE  /\ vouched' \in [Contract -> [keys : SUBSET (Key \cup Account), needed : Nat, until : Nat,
                                           publisher : Publisher \cup {NoPublisher}]]
             /\ QuorumVouched' /\ VouchedMatches'
  <2>1. Nobody \in [keys : SUBSET (Key \cup Account), needed : Nat, until : Nat,
                    publisher : Publisher \cup {NoPublisher}]
    BY DEF Nobody
  <2>2. \A d \in Contract : IF d = c THEN record'[d] = NoAttestation
                                     ELSE vouched'[d] = vouched[d] /\ record'[d] = record[d]
    BY <1>2 DEF revoke, TypeOK
  <2> QED BY <1>2, <2>1, <2>2 DEF QuorumVouched, VouchedMatches
<1>3. ASSUME NEW new \in Account, set_attestor(caller, new), UNCHANGED vouched
      PROVE  /\ vouched' \in [Contract -> [keys : SUBSET (Key \cup Account), needed : Nat, until : Nat,
                                           publisher : Publisher \cup {NoPublisher}]]
             /\ QuorumVouched' /\ VouchedMatches'
  BY <1>3 DEF set_attestor, QuorumVouched, VouchedMatches
<1> QED BY <1>1, <1>2, <1>3 DEF CallRegistry

\* Steps that touch neither the records nor the vouchers.
LEMMA FrameGate ==
  ASSUME GateInv, UNCHANGED <<record, vouched>>,
         \/ UNCHANGED roster
         \/ \E r \in Rosters : ValidRoster(r) /\ roster' = Stored(r),
         accountLive' \in Nat
  PROVE  GateInv'
<1>1. QuorumVouched' /\ VouchedMatches'
  BY DEF GateInv, QuorumVouched, VouchedMatches
<1>2. AccountTypeOK'
  BY StoredRoster DEF GateInv, AccountTypeOK
<1> QED BY <1>1, <1>2 DEF GateInv

LEMMA InitGate == GateInit => GateInv
<1> SUFFICES ASSUME GateInit PROVE GateInv
  OBVIOUS
<1>1. TypeOK
  BY InitType DEF GateInit, ThresholdInit
<1>2. QuorumVouched /\ VouchedMatches
  BY DEF GateInit, ThresholdInit, Init, QuorumVouched, VouchedMatches
<1>3. vouched \in [Contract -> [keys : SUBSET (Key \cup Account), needed : Nat, until : Nat,
                               publisher : Publisher \cup {NoPublisher}]]
  BY DEF GateInit, ThresholdInit, Nobody
<1>4. PICK r \in Rosters : ValidRoster(r) /\ roster = Stored(r)
  BY DEF GateInit, ThresholdInit
<1>5. AccountTypeOK
  BY <1>1, <1>3, <1>4, StoredRoster DEF AccountTypeOK, GateInit, ThresholdInit, TypeOK
<1> QED BY <1>2, <1>5 DEF GateInv

LEMMA NextGate == TypeOK /\ TypeOK' /\ GateInv /\ [GateNext]_gateVars => GateInv'
<1> SUFFICES ASSUME TypeOK, TypeOK', GateInv, [GateNext]_gateVars PROVE GateInv'
  OBVIOUS
<1>0. ledger \in Nat /\ accountLive \in Nat /\ renew_account \in Nat
  <2>1. ledger \in Nat /\ accountLive \in Nat
    BY Bounds DEF TypeOK, GateInv, AccountTypeOK
  <2> QED BY <2>1, Bounds DEF renew_account, Extended
<1>1. CASE UNCHANGED attestVars
  BY <1>0, <1>1, FrameGate DEF attestVars, registryVars, accountVars
<1>2. ASSUME NEW signatures \in SignatureLists, NEW contexts \in ContextLists, AccountCalls(signatures, contexts)
      PROVE  GateInv'
  <2>1. PICK fn \in Range(contexts) : CallRegistry(fn, account, Signers(signatures), roster.threshold)
    BY <1>2 DEF AccountCalls
  <2>2. signatures \in Seq([signer_index : Nat, key : Key])
    BY ThresholdConstants
  <2>3. Signers(signatures) \in SUBSET (Key \cup Account)
    <3>1. \A i \in DOMAIN signatures : signatures[i] \in [signer_index : Nat, key : Key]
      <4>1. DOMAIN signatures = 1..Len(signatures)
        BY <2>2
      <4> QED BY <2>2, <4>1, ElementOfSeq
    <3> QED BY <3>1 DEF Signers
  <2>4. roster.threshold \in Nat /\ roster.threshold > 0
    BY DEF GateInv, AccountTypeOK
  <2>5. fn = "upsert" => Cardinality(Signers(signatures)) >= roster.threshold
    BY <1>2, <2>1, <2>2, AscendingCounts, UpsertNeedsThreshold DEF AccountCalls, check_auth, GateInv
  <2>6. /\ vouched' \in [Contract -> [keys : SUBSET (Key \cup Account), needed : Nat, until : Nat,
                                      publisher : Publisher \cup {NoPublisher}]]
        /\ QuorumVouched' /\ VouchedMatches'
    BY <2>1, <2>3, <2>4, <2>5, CallKeepsBooks, ThresholdConstants
  <2>7. roster' = roster /\ accountLive' \in Nat
    BY <1>0, <1>2 DEF AccountCalls
  <2> QED BY <2>6, <2>7 DEF GateInv, AccountTypeOK
<1>3. ASSUME NEW signatures \in SignatureLists, NEW contexts \in ContextLists, set_signers(signatures, contexts)
      PROVE  GateInv'
  BY <1>0, <1>3, FrameGate DEF set_signers, registryVars
<1>4. ASSUME NEW caller \in Account, NEW fn, OtherCalls(caller, fn) PROVE GateInv'
  <2>1. Cardinality({caller}) >= 1 /\ {caller} \in SUBSET (Key \cup Account)
    BY FS_Singleton
  <2>2. /\ vouched' \in [Contract -> [keys : SUBSET (Key \cup Account), needed : Nat, until : Nat,
                                      publisher : Publisher \cup {NoPublisher}]]
        /\ QuorumVouched' /\ VouchedMatches'
    <3>1. CallRegistry(fn, caller, {caller}, 1) /\ 1 \in Nat /\ 1 > 0
      BY <1>4 DEF OtherCalls
    <3> QED BY <2>1, <3>1, CallKeepsBooks
  <2>3. UNCHANGED <<roster, accountLive>>
    BY <1>4 DEF OtherCalls
  <2> QED BY <2>2, <2>3 DEF GateInv, AccountTypeOK
<1>5. CASE RestoreAccount
  BY <1>0, <1>5, Bounds, FrameGate DEF RestoreAccount, registryVars
<1>6. CASE Host
  BY <1>0, <1>6, FrameGate DEF Host, LedgerClose, RestoreInstance, RestoreRecord, accountVars
<1>7. CASE UNCHANGED gateVars
  BY <1>1, <1>7 DEF gateVars
<1> QED BY <1>1, <1>2, <1>3, <1>4, <1>5, <1>6, <1>7 DEF GateNext, ThresholdNext

\* GateInv is an invariant of the gate.
LEMMA GateInvariant == GateSpec => [](TypeOK /\ GateInv)
<1>1. GateInit => TypeOK
  BY InitType DEF GateInit, ThresholdInit
<1>2. TypeOK /\ [GateNext]_gateVars => TypeOK'
  BY GateStepsRegistry, NextType
<1> QED BY <1>1, <1>2, InitGate, NextGate, PTL DEF GateSpec

-----------------------------------------------------------------------------
(***************************************************************************)
(* What the gate guarantees                                                *)
(***************************************************************************)
\* The holders of the current keys together satisfy __check_auth.
LEMMA RosterUnlocked == AccountTypeOK => NeverLocked
<1> DEFINE all == [i \in DOMAIN roster.signers |-> [signer_index |-> i - 1, key |-> roster.signers[i]]]
<1> SUFFICES ASSUME AccountTypeOK, ledger <= accountLive
             PROVE  check_auth(all, <<"set_signers">>) /\ check_auth(all, <<"revoke">>)
  BY DEF NeverLocked
<1>1. /\ Len(roster.signers) \in Nat /\ DOMAIN roster.signers = 1..Len(roster.signers)
      /\ DOMAIN all = 1..Len(roster.signers)
  BY DEF AccountTypeOK
<1>2. Len(all) = Len(roster.signers)
  BY <1>1
<1>3. \A i \in DOMAIN all : /\ all[i].signer_index = i - 1 /\ all[i].key = roster.signers[i]
                            /\ i \in 1..Len(roster.signers)
  BY <1>1
<1> HIDE DEF all
<1>4. Required(<<"set_signers">>) <= Len(all) /\ Required(<<"revoke">>) <= Len(all)
  BY <1>1, <1>2 DEF AccountTypeOK, Required
<1>5. Ascending(all)
  BY <1>1, <1>3 DEF Ascending
<1>6. \A i \in DOMAIN all :
        /\ all[i].signer_index < Len(roster.signers)
        /\ roster.signers[all[i].signer_index + 1] = all[i].key
  BY <1>1, <1>3
<1>7. Len(all) \in Nat /\ Required(<<"set_signers">>) \in Nat /\ Required(<<"revoke">>) \in Nat
  BY <1>1, <1>2 DEF AccountTypeOK, Required
<1> QED BY <1>4, <1>5, <1>6, <1>7 DEF check_auth

\* The wallet's signer list and the Installed marker agree.
LEMMA SignerInstalled == InstalledWhileSigner /\ [GateNext]_gateVars => InstalledWhileSigner'
  BY DEF InstalledWhileSigner, GateNext, PolicyNext, Constructor, install, policy, RemoveSigner, uninstall,
     RestorePolicy, gateVars, policyVars

\* GateKept: through every rotation of keys, removal and re-installation, what
\* stands in the registry had its quorum, the account's keys still make one, and
\* a policy listed as a signer knows it (__check_auth, set_signers, uninstall).
THEOREM GateStaysKept == GateSpec => []GateKept
<1>1. GateInit => InstalledWhileSigner
  BY DEF GateInit, PolicyInit, InstalledWhileSigner
<1>2. GateInv => QuorumVouched /\ NeverLocked
  BY RosterUnlocked DEF GateInv
<1> QED BY <1>1, <1>2, SignerInstalled, GateInvariant, PTL DEF GateSpec, GateKept

\* OnlyVouchedCode: when policy__ authorizes a call, a quorum vouched for the called
\* contract, for a publisher the mode trusts, and the voucher has not run out.
THEOREM OnlyVouchedCodeRuns == GateSpec => OnlyVouchedCode
<1>1. TypeOK /\ GateInv /\ [GateNext]_gateVars =>
        [\A c \in passed' :
           /\ c # config.wallet
           /\ vouched[c].needed > 0 /\ Cardinality(vouched[c].keys) >= vouched[c].needed
           /\ ledger < vouched[c].until
           /\ config.mode # Strict => vouched[c].publisher \in Publisher \cap Range(config.mode)]_gateVars
  <2> SUFFICES ASSUME TypeOK, GateInv, GateNext, NEW c \in passed'
               PROVE  /\ c # config.wallet
                      /\ vouched[c].needed > 0 /\ Cardinality(vouched[c].keys) >= vouched[c].needed
                      /\ ledger < vouched[c].until
                      /\ config.mode # Strict => vouched[c].publisher \in Publisher \cap Range(config.mode)
    OBVIOUS
  <2>1. PICK source \in Wallet, contexts \in PolicyCalls : policy(source, contexts)
    BY DEF GateNext, PolicyNext, Constructor, install, RemoveSigner, uninstall, RestorePolicy
  <2>2. PICK i \in DOMAIN contexts : c = contexts[i].contract
    BY <2>1 DEF policy
  <2>3. c \in Contract /\ c # config.wallet /\ check_provenance(c)
    BY <2>1, <2>2, RecipientConstants DEF policy, parse_context
  <2>4. is_verified(c)
    BY <2>3 DEF check_provenance, publisher_of
  <2>5. record[c] # NoAttestation /\ ledger < record[c].expires_ledger
    BY <2>4 DEF is_verified, Unexpired
  <2>6. config.mode # Strict => record[c].publisher \in Publisher \cap Range(config.mode)
    <3>1. record[c].publisher \in Publisher \cup {NoPublisher}
      BY <2>3, <2>5 DEF TypeOK, Attestation
    <3> QED BY <2>3, <2>4, <3>1 DEF check_provenance, publisher_of
  <2> QED BY <2>3, <2>5, <2>6 DEF GateInv, QuorumVouched, VouchedMatches
<1> QED BY <1>1, GateInvariant, PTL DEF GateSpec, OnlyVouchedCode
-----------------------------------------------------------------------------
(***************************************************************************)
(* The attestor on top of the registry.  HonestMirror is not inductive: a  *)
(* call in flight, or given up and landing years later, must be as honest  *)
(* as the record it will write, and a report between its two upserts must  *)
(* still be about a run that verified the contract.                        *)
(***************************************************************************)
PublisherOption == Publisher \cup {NoPublisher}

\* What one verified run of c vouches for.
Vouched(c, hash, publisher) ==
  \E o \in proven[c] :
    /\ hash \in {o.outputHash, o.deployedHash}
    /\ publisher \in {NoPublisher, o.publisher}

Jobs ==
  {Idle}
    \cup [phase : {"build"}, contract : Contract, seen : Deployed]
    \cup [phase : {"ledger", "check", "last"}, contract : Contract, outcome : Outcome]
    \cup [phase : {"first", "last"}, contract : Contract, outcome : Outcome, expires : Nat]

Revokes == [op : {"revoke"}, contract : Contract]

Upserts ==
  [op : {"upsert"}, contract : Contract, hash : Hash, publisher : PublisherOption, expires : Nat]

Calls == {NoCall} \cup Revokes \cup Upserts

Sweeps ==
  {Idle}
    \cup [phase : {"resolve"}, contract : Contract, hash : Deployed]
    \cup [phase : {"revoke"}, contract : Contract, seen : Deployed \cup {TimedOut}]

Honest(tx) == tx \in Upserts => Vouched(tx.contract, tx.hash, tx.publisher)

\* The worker's call is there exactly while its report waits for it; a report
\* that will write, or has begun to, is about a proven run.
JobSound(w) ==
  /\ job[w].phase \in {"first", "last"} <=> call[w] # NoCall
  /\ job[w].phase \in {"ledger", "first"} => job[w].outcome \in proven[job[w].contract]

MirrorInv ==
  /\ TypeOK
  /\ live \in [Contract -> Deployed]
  /\ verdict \in [Contract -> [status : {"none", "verified", "failed"}, hash : Deployed]]
  /\ proven \in [Contract -> SUBSET {o \in Outcome : o.deployedHash # Gone}]
  /\ job \in [Worker -> Jobs]
  /\ watch \subseteq Contract \X Deployed
  /\ sweep \in Sweeps
  /\ call \in [Actor -> Calls]
  /\ landed \in [Actor -> {"sent", "ok", "failed"}]
  /\ orphan \subseteq Revokes \cup Upserts
  /\ \A w \in Worker : JobSound(w)
  /\ sweep.phase = "revoke" <=> call[Sweep] # NoCall
  /\ \A a \in Actor : Honest(call[a])
  /\ \A tx \in orphan : Honest(tx)
  /\ HonestMirror

LEMMA JobParts ==
  ASSUME NEW j \in Jobs
  PROVE  /\ j.phase = "idle" <=> j = Idle
         /\ j # Idle => j.contract \in Contract
         /\ j.phase = "build" => j.seen \in Deployed
         /\ j.phase \in {"ledger", "check", "first", "last"} => j.outcome \in Outcome
         /\ j.phase = "first" => j.expires \in Nat
         /\ j.phase \in {"check", "first"} => [j EXCEPT !.phase = "last"] \in Jobs
         /\ j.phase \in {"check", "first"} => [j EXCEPT !.phase = "last"].phase = "last"
<1>1. CASE j = Idle
  BY <1>1 DEF Idle
<1>2. CASE j \in [phase : {"build"}, contract : Contract, seen : Deployed]
  BY <1>2 DEF Idle
<1>3. CASE j \in [phase : {"ledger", "check", "last"}, contract : Contract, outcome : Outcome]
  BY <1>3 DEF Idle, Jobs
<1>4. CASE j \in [phase : {"first", "last"}, contract : Contract, outcome : Outcome, expires : Nat]
  BY <1>4 DEF Idle, Jobs
<1> QED
  BY <1>1, <1>2, <1>3, <1>4 DEF Jobs

LEMMA CallParts ==
  ASSUME NEW tx \in Calls
  PROVE  /\ tx = NoCall <=> tx.op = "none"
         /\ tx.op = "upsert" <=> tx \in Upserts
         /\ tx.op = "revoke" <=> tx \in Revokes
         /\ tx # NoCall => tx \in Revokes \cup Upserts
         /\ tx \in Upserts =>
              /\ tx.contract \in Contract /\ tx.hash \in Hash
              /\ tx.publisher \in PublisherOption /\ tx.expires \in Nat
         /\ tx \in Revokes => tx.contract \in Contract
  BY DEF Calls, NoCall, Revokes, Upserts

LEMMA NoCallIsHonest == NoCall \in Calls /\ Honest(NoCall)
  BY DEF Calls, NoCall, Upserts, Honest

\* What a call vouches for stays vouched for.
LEMMA HonestyLasts ==
  ASSUME \A c \in Contract : proven[c] \subseteq proven'[c], NEW tx, Honest(tx)
  PROVE  Honest(tx)'
  BY DEF Honest, Vouched, Upserts

\* A step that leaves the registry alone and only adds proven runs.
LEMMA FrameHonest ==
  ASSUME TypeOK, HonestMirror, UNCHANGED registryVars,
         \A c \in Contract : proven[c] \subseteq proven'[c]
  PROVE  TypeOK' /\ HonestMirror'
<1>1. TypeOK'
  BY DEF registryVars, TypeOK
<1>2. record' = record
  BY DEF registryVars
<1> QED
  BY <1>1, <1>2 DEF HonestMirror

\* An honest call leaves an honest record.
LEMMA ExecuteKeeps ==
  ASSUME TypeOK, HonestMirror, NEW tx \in Revokes \cup Upserts, Honest(tx), Execute(tx),
         UNCHANGED proven
  PROVE  TypeOK' /\ HonestMirror'
<1>0. tx \in Calls /\ record \in [Contract -> Attestation \cup {NoAttestation}]
  BY DEF Calls, TypeOK
<1>1. CASE tx.op = "upsert" /\ write_attestation(key, tx.contract, tx.hash, tx.publisher, tx.expires)
  <2>1. /\ tx \in Upserts /\ tx.contract \in Contract /\ tx.hash \in Hash
        /\ tx.publisher \in Publisher \cup {NoPublisher} /\ tx.expires \in Int
    BY <1>0, <1>1, CallParts DEF PublisherOption
  <2>2. TypeOK'
    BY <1>1, <2>1, WriteType, ProvenanceConstants
  <2>3. PICK c \in Contract, h \in Hash, p \in PublisherOption :
          c = tx.contract /\ h = tx.hash /\ p = tx.publisher
    BY <2>1 DEF PublisherOption
  <2>4. Vouched(c, h, p)
    BY <2>1, <2>3 DEF Honest
  <2>5. /\ \A d \in Contract : d # c => record'[d] = record[d]
        /\ record'[c].wasm_hash = h /\ record'[c].publisher = p
    BY <1>0, <1>1, <2>3 DEF write_attestation
  <2> QED
    BY <2>2, <2>4, <2>5 DEF HonestMirror, Vouched
<1>2. CASE tx.op = "revoke" /\ revoke(key, tx.contract)
  <2>1. PICK c \in Contract : c = tx.contract
    BY <1>0, <1>2, CallParts
  <2>2. renew_instance \in Nat
    BY Bounds DEF TypeOK, renew_instance, Extended
  <2>3. TypeOK'
    BY <1>2, <2>1, <2>2 DEF TypeOK, revoke
  <2>4. \A d \in Contract : record'[d] = IF d = c THEN NoAttestation ELSE record[d]
    BY <1>0, <1>2, <2>1 DEF revoke
  <2> QED
    BY <2>3, <2>4 DEF HonestMirror
<1> QED
  BY <1>1, <1>2 DEF Execute

LEMMA InitMirror == ProvenanceInit => MirrorInv
<1> SUFFICES ASSUME ProvenanceInit PROVE MirrorInv
  OBVIOUS
<1>1. TypeOK /\ HonestMirror
  BY InitType DEF ProvenanceInit, Init, HonestMirror
<1>2. live \in [Contract -> Deployed] /\ Gone \in Deployed
  BY DEF ProvenanceInit, Deployed
<1>3. verdict \in [Contract -> [status : {"none", "verified", "failed"}, hash : Deployed]]
  BY <1>2 DEF ProvenanceInit
<1>4. proven \in [Contract -> SUBSET {o \in Outcome : o.deployedHash # Gone}]
  BY DEF ProvenanceInit
<1>5. /\ job \in [Worker -> Jobs] /\ sweep \in Sweeps /\ sweep.phase # "revoke"
      /\ \A w \in Worker : job[w].phase = "idle"
  BY DEF ProvenanceInit, Jobs, Sweeps, Idle
<1>6. /\ call \in [Actor -> Calls] /\ \A a \in Actor : call[a] = NoCall
      /\ Sweep \in Actor /\ Worker \subseteq Actor
  BY NoCallIsHonest DEF ProvenanceInit, Actor
<1>7. \A w \in Worker : JobSound(w)
  BY <1>5, <1>6 DEF JobSound
<1> QED
  BY <1>1, <1>2, <1>3, <1>4, <1>5, <1>6, <1>7, NoCallIsHonest DEF MirrorInv, ProvenanceInit

-----------------------------------------------------------------------------
LEMMA ActorIs == Sweep \in Actor /\ Worker \subseteq Actor /\ \A w \in Worker : w # Sweep
  BY ProvenanceConstants DEF Actor

LEMMA JobStays ==
  ASSUME MirrorInv, NEW w \in Worker, job'[w] = job[w], call'[w] = call[w],
         \A c \in Contract : proven[c] \subseteq proven'[c]
  PROVE  JobSound(w)'
<1>1. PICK j \in Jobs : j = job[w]
  BY DEF MirrorInv
<1>2. j.phase \in {"ledger", "first"} => j.contract \in Contract
  BY <1>1, JobParts DEF Idle
<1> QED
  BY <1>1, <1>2 DEF MirrorInv, JobSound

\* A call is sent.
LEMMA SentKeeps ==
  ASSUME MirrorInv, UNCHANGED proven, NEW a \in Actor, NEW tx \in Revokes \cup Upserts,
         Honest(tx), Sent(a, tx)
  PROVE  /\ call' \in [Actor -> Calls] /\ landed' \in [Actor -> {"sent", "ok", "failed"}]
         /\ call'[a] # NoCall
         /\ \A b \in Actor : b # a => call'[b] = call[b]
         /\ \A b \in Actor : Honest(call[b])'
<1>1. tx \in Calls /\ tx # NoCall
  BY DEF Calls, NoCall, Revokes, Upserts
<1>2. \A b \in Actor : call'[b] = IF b = a THEN tx ELSE call[b]
  BY DEF Sent, MirrorInv
<1>3. call' \in [Actor -> Calls] /\ landed' \in [Actor -> {"sent", "ok", "failed"}]
  BY <1>1 DEF Sent, MirrorInv
<1>4. ASSUME NEW b \in Actor PROVE Honest(call[b])'
  BY <1>2 DEF MirrorInv, Honest, Vouched
<1> QED
  BY <1>1, <1>2, <1>3, <1>4

\* A caller learns what became of its call.
LEMMA ReturnedKeeps ==
  ASSUME MirrorInv, UNCHANGED proven, NEW a \in Actor, Returned(a)
  PROVE  /\ call' \in [Actor -> Calls] /\ landed' \in [Actor -> {"sent", "ok", "failed"}]
         /\ call'[a] = NoCall
         /\ \A b \in Actor : b # a => call'[b] = call[b]
         /\ \A b \in Actor : Honest(call[b])'
<1>1. \A b \in Actor : call'[b] = IF b = a THEN NoCall ELSE call[b]
  BY DEF Returned, MirrorInv
<1>2. call' \in [Actor -> Calls] /\ landed' \in [Actor -> {"sent", "ok", "failed"}]
  BY NoCallIsHonest DEF Returned, MirrorInv
<1>3. ASSUME NEW b \in Actor PROVE Honest(call[b])'
  BY <1>1, NoCallIsHonest DEF MirrorInv, Honest, Vouched
<1> QED
  BY <1>1, <1>2, <1>3

\* Steps that touch neither the jobs nor the sweep, the calls nor the proven runs.
LEMMA NetworkKeeps ==
  ASSUME MirrorInv, TypeOK', HonestMirror',
         UNCHANGED <<verdict, proven, job, watch, sweep, call>>,
         live' \in [Contract -> Deployed],
         landed' \in [Actor -> {"sent", "ok", "failed"}],
         orphan' \subseteq Revokes \cup Upserts, \A tx \in orphan' : Honest(tx)
  PROVE  MirrorInv'
<1>1. \A w \in Worker : JobSound(w)'
  BY JobStays
<1>2. \A tx : Honest(tx) => Honest(tx)'
  BY HonestyLasts
<1>3. \A a \in Actor : Honest(call[a])'
  BY DEF MirrorInv, Honest, Vouched
<1> QED
  BY <1>1, <1>2, <1>3 DEF MirrorInv

LEMMA TickKeeps == ASSUME MirrorInv, Tick PROVE MirrorInv'
<1>1. TypeOK'
  BY Bounds DEF MirrorInv, Tick, LedgerClose, TypeOK
<1>2. HonestMirror'
  BY DEF MirrorInv, Tick, LedgerClose, HonestMirror
<1> QED
  BY <1>1, <1>2, NetworkKeeps DEF MirrorInv, Tick

LEMMA NetworkStepKeeps ==
  ASSUME MirrorInv,
         \/ \E c \in Contract : Upgrade(c)
         \/ \E a \in Actor : Lands(a) \/ Fails(a) \/ GivesUp(a)
         \/ \E tx \in orphan : OrphanEnds(tx)
  PROVE  MirrorInv'
<1>1. ASSUME NEW c \in Contract, Upgrade(c) PROVE MirrorInv'
  <2>1. TypeOK' /\ HonestMirror'
    BY <1>1, FrameHonest DEF MirrorInv, Upgrade
  <2> QED
    BY <1>1, <2>1, NetworkKeeps DEF MirrorInv, Upgrade
<1>2. ASSUME NEW a \in Actor, call[a] # NoCall
      PROVE  call[a] \in Revokes \cup Upserts
  BY <1>2, CallParts DEF MirrorInv
<1>3. ASSUME NEW a \in Actor, Lands(a) PROVE MirrorInv'
  <2>1. PICK tx \in Revokes \cup Upserts : tx = call[a]
    BY <1>2, <1>3 DEF Lands
  <2>2. Honest(tx) /\ Execute(tx) /\ UNCHANGED proven
    BY <1>3, <2>1 DEF MirrorInv, Lands
  <2>3. TypeOK' /\ HonestMirror'
    BY <2>2, ExecuteKeeps DEF MirrorInv
  <2> QED
    BY <1>3, <2>3, NetworkKeeps DEF MirrorInv, Lands
<1>4. ASSUME NEW a \in Actor, Fails(a) PROVE MirrorInv'
  <2>1. TypeOK' /\ HonestMirror'
    BY <1>4, FrameHonest DEF MirrorInv, Fails
  <2> QED
    BY <1>4, <2>1, NetworkKeeps DEF MirrorInv, Fails
<1>5. ASSUME NEW a \in Actor, GivesUp(a) PROVE MirrorInv'
  <2>1. TypeOK' /\ HonestMirror'
    BY <1>5, FrameHonest DEF MirrorInv, GivesUp
  <2>2. PICK tx \in Revokes \cup Upserts : tx = call[a]
    BY <1>2, <1>5 DEF GivesUp
  <2>3. orphan' \subseteq Revokes \cup Upserts /\ \A t \in orphan' : Honest(t)
    BY <1>5, <2>2 DEF MirrorInv, GivesUp
  <2> QED
    BY <1>5, <2>1, <2>3, NetworkKeeps DEF MirrorInv, GivesUp
<1>6. ASSUME NEW tx \in orphan, OrphanEnds(tx) PROVE MirrorInv'
  <2>1. tx \in Revokes \cup Upserts /\ Honest(tx) /\ UNCHANGED proven
    BY <1>6 DEF MirrorInv, OrphanEnds
  <2>2. TypeOK' /\ HonestMirror'
    <3>1. CASE Execute(tx)
      BY <2>1, <3>1, ExecuteKeeps DEF MirrorInv
    <3>2. CASE UNCHANGED registryVars
      BY <2>1, <3>2, FrameHonest DEF MirrorInv
    <3> QED
      BY <1>6, <3>1, <3>2 DEF OrphanEnds
  <2> QED
    BY <1>6, <2>2, NetworkKeeps DEF MirrorInv, OrphanEnds
<1> QED
  BY <1>1, <1>3, <1>4, <1>5, <1>6

-----------------------------------------------------------------------------
\* A step of one worker; the other jobs and the sweep stay as they are.
LEMMA WorkerKeeps ==
  ASSUME MirrorInv, NEW w \in Worker, NEW j \in Jobs,
         UNCHANGED <<registryVars, live, watch, sweep, orphan>>,
         verdict' \in [Contract -> [status : {"none", "verified", "failed"}, hash : Deployed]],
         proven' \in [Contract -> SUBSET {o \in Outcome : o.deployedHash # Gone}],
         \A c \in Contract : proven[c] \subseteq proven'[c],
         job' = [job EXCEPT ![w] = j],
         call' \in [Actor -> Calls],
         landed' \in [Actor -> {"sent", "ok", "failed"}],
         \A b \in Actor : b # w => call'[b] = call[b],
         \A b \in Actor : Honest(call[b])',
         j.phase \in {"first", "last"} <=> call'[w] # NoCall,
         j.phase \in {"ledger", "first"} => j.outcome \in proven'[j.contract]
  PROVE  MirrorInv'
<1>1. TypeOK' /\ HonestMirror'
  BY FrameHonest DEF MirrorInv
<1>2. job' \in [Worker -> Jobs] /\ \A v \in Worker : job'[v] = IF v = w THEN j ELSE job[v]
  BY DEF MirrorInv
<1>3. ASSUME NEW v \in Worker PROVE JobSound(v)'
  <2>1. CASE v = w
    BY <1>2, <2>1 DEF JobSound
  <2>2. CASE v # w
    BY <1>2, <2>2, ActorIs, JobStays
  <2> QED
    BY <2>1, <2>2
<1>4. \A tx : Honest(tx) => Honest(tx)'
  BY HonestyLasts
<1>5. call'[Sweep] = call[Sweep]
  BY ActorIs
<1> QED
  BY <1>1, <1>2, <1>3, <1>4, <1>5 DEF MirrorInv

\* The same, when no call is sent and none returns.
LEMMA QuietWorkerKeeps ==
  ASSUME MirrorInv, NEW w \in Worker, NEW j \in Jobs,
         UNCHANGED <<registryVars, live, watch, sweep, call, landed, orphan>>,
         verdict' \in [Contract -> [status : {"none", "verified", "failed"}, hash : Deployed]],
         proven' \in [Contract -> SUBSET {o \in Outcome : o.deployedHash # Gone}],
         \A c \in Contract : proven[c] \subseteq proven'[c],
         job' = [job EXCEPT ![w] = j],
         job[w].phase \notin {"first", "last"}, j.phase \notin {"first", "last"},
         j.phase = "ledger" => j.outcome \in proven'[j.contract]
  PROVE  MirrorInv'
<1>1. \A tx : Honest(tx) => Honest(tx)'
  BY HonestyLasts
<1>2. ASSUME NEW b \in Actor PROVE Honest(call[b])'
  <2>1. PICK tx \in Calls : tx = call[b]
    BY DEF MirrorInv
  <2>2. Honest(tx)'
    BY <1>1, <2>1 DEF MirrorInv
  <2> QED
    BY <2>1, <2>2 DEF Honest, Vouched
<1>3. call[w] = NoCall
  BY DEF MirrorInv, JobSound
<1> QED
  BY <1>2, <1>3, WorkerKeeps DEF MirrorInv

LEMMA ResolveKeeps == ASSUME MirrorInv, NEW w \in Worker, NEW c \in Contract, Resolve(w, c) PROVE MirrorInv'
<1> DEFINE j == [phase |-> "build", contract |-> c, seen |-> live[c]]
<1>1. j \in Jobs /\ j.phase = "build"
  BY DEF MirrorInv, Jobs
<1>2. job' = [job EXCEPT ![w] = j] /\ job[w].phase = "idle"
  BY DEF Resolve, Idle
<1> HIDE DEF j
<1> QED
  BY <1>1, <1>2, QuietWorkerKeeps DEF MirrorInv, Resolve

LEMMA FinishKeeps == ASSUME MirrorInv, NEW w \in Worker, Finish(w) PROVE MirrorInv'
<1>1. PICK k \in Jobs : k = job[w]
  BY DEF MirrorInv
<1>2. k.phase = "build" /\ k.contract \in Contract /\ k.seen \in Deployed
  BY <1>1, JobParts DEF Finish, Idle
<1>3. PICK c \in Contract : c = k.contract
  BY <1>2
<1>4. PICK o \in Outcomes(k.seen) :
        /\ verdict' = [verdict EXCEPT ![c] = [status |-> o.status, hash |-> attestedHash(o)]]
        /\ proven' = IF o.status = "verified" THEN [proven EXCEPT ![c] = @ \cup {o}] ELSE proven
        /\ job' = [job EXCEPT ![w] =
                     IF w \notin deployment.attesting THEN Idle
                     ELSE [phase |-> ReportPhase(o), contract |-> c, outcome |-> o]]
  BY <1>1, <1>3 DEF Finish
<1>5. o \in Outcome /\ (o.status = "verified" => o.deployedHash # Gone)
  BY DEF Outcomes
<1>6. o.deployedHash \in Deployed /\ o.status \in {"verified", "failed"}
  BY <1>5 DEF Outcome
<1>7. verdict' \in [Contract -> [status : {"none", "verified", "failed"}, hash : Deployed]]
  BY <1>4, <1>6 DEF MirrorInv, attestedHash
<1>8. /\ proven' \in [Contract -> SUBSET {p \in Outcome : p.deployedHash # Gone}]
      /\ \A d \in Contract : proven[d] \subseteq proven'[d]
      /\ o.status = "verified" => o \in proven'[c]
  BY <1>4, <1>5 DEF MirrorInv
<1> DEFINE j == IF w \notin deployment.attesting THEN Idle
                ELSE [phase |-> ReportPhase(o), contract |-> c, outcome |-> o]
<1>9. /\ j \in Jobs /\ j.phase \in {"idle", "ledger", "check"}
      /\ j.phase = "ledger" => o.status = "verified" /\ j.outcome = o /\ j.contract = c
  BY <1>5 DEF Jobs, Idle, ReportPhase
<1>10. job' = [job EXCEPT ![w] = j]
  BY <1>4
<1> HIDE DEF j
<1>11. UNCHANGED <<registryVars, live, watch, sweep, call, landed, orphan>>
  BY DEF Finish
<1> QED
  BY <1>1, <1>2, <1>7, <1>8, <1>9, <1>10, <1>11, QuietWorkerKeeps

\* A report that sends a call.
LEMMA ReportSends ==
  ASSUME MirrorInv, NEW w \in Worker, NEW j \in Jobs, NEW tx \in Revokes \cup Upserts,
         UNCHANGED <<registryVars, live, verdict, proven, watch, sweep, orphan>>,
         job' = [job EXCEPT ![w] = j], Sent(w, tx), Honest(tx),
         j.phase \in {"first", "last"}, j.phase = "first" => j.outcome \in proven[j.contract]
  PROVE  MirrorInv'
<1>1. w \in Actor
  BY ActorIs
<1> QED
  BY <1>1, SentKeeps, WorkerKeeps DEF MirrorInv

\* An upsert of what a proven run found.
LEMMA UpsertHonest ==
  ASSUME MirrorInv, NEW c \in Contract, NEW o \in proven[c], NEW p \in {NoPublisher, o.publisher},
         NEW h \in {o.deployedHash, o.outputHash}, NEW expires \in Nat
  PROVE  Upsert(c, h, p, expires) \in Upserts /\ Honest(Upsert(c, h, p, expires))
<1>1. o \in Outcome /\ o.deployedHash # Gone
  BY DEF MirrorInv
<1>2. h \in Hash /\ p \in PublisherOption
  BY <1>1 DEF Outcome, Deployed, PublisherOption
<1> QED
  BY <1>2 DEF Upsert, Upserts, Honest, Vouched

LEMMA ReportKeeps ==
  ASSUME MirrorInv, NEW w \in Worker, ReportLedger(w) \/ ReportFirst(w) \/ ReportCheck(w)
  PROVE  MirrorInv'
<1>1. PICK k \in Jobs : k = job[w]
  BY DEF MirrorInv
<1>2. ledger + ttl \in Nat
  BY Bounds, ProvenanceConstants DEF MirrorInv, TypeOK
<1>3. CASE ReportLedger(w)
  <2>1. k.phase = "ledger"
    BY <1>1, <1>3 DEF ReportLedger
  <2>2. PICK c \in Contract : c = k.contract
    BY <2>1, JobParts DEF Idle
  <2>3. PICK o \in proven[c] : c = k.contract /\ o = k.outcome
    BY <1>1, <2>1, <2>2 DEF MirrorInv, JobSound
  <2> DEFINE j  == [phase |-> "first", contract |-> c, outcome |-> o, expires |-> ledger + ttl]
             tx == Upsert(c, o.deployedHash, NoPublisher, ledger + ttl)
  <2>4. j \in Jobs /\ j.phase = "first" /\ j.outcome = o /\ j.contract = c
    BY <1>2 DEF MirrorInv, Jobs
  <2>5. tx \in Upserts /\ Honest(tx)
    BY <1>2, UpsertHonest
  <2>6. job' = [job EXCEPT ![w] = j] /\ Sent(w, tx)
    BY <1>1, <1>3, <2>3 DEF ReportLedger, attestedHash
  <2>7. UNCHANGED <<registryVars, live, verdict, proven, watch, sweep, orphan>>
    BY <1>3 DEF ReportLedger
  <2> HIDE DEF j, tx
  <2> QED
    BY <2>4, <2>5, <2>6, <2>7, ReportSends
<1>4. CASE ReportFirst(w)
  <2>1. k.phase = "first" /\ k.expires \in Nat
    BY <1>1, <1>4, JobParts DEF ReportFirst
  <2>2. PICK c \in Contract : c = k.contract
    BY <2>1, JobParts DEF Idle
  <2>3. PICK o \in proven[c] : c = k.contract /\ o = k.outcome
    BY <1>1, <2>1, <2>2 DEF MirrorInv, JobSound
  <2> DEFINE j  == [k EXCEPT !.phase = "last"]
             tx == Upsert(c, o.outputHash, o.publisher, k.expires)
  <2>4. j \in Jobs /\ j.phase = "last"
    BY <2>1, JobParts
  <2>5. tx \in Upserts /\ Honest(tx)
    BY <2>1, UpsertHonest
  <2>6. job' = [job EXCEPT ![w] = j] /\ Sent(w, tx)
    BY <1>1, <1>4, <2>3 DEF ReportFirst
  <2>7. UNCHANGED <<registryVars, live, verdict, proven, watch, sweep, orphan>>
    BY <1>4 DEF ReportFirst
  <2> HIDE DEF j, tx
  <2> QED
    BY <2>4, <2>5, <2>6, <2>7, ReportSends
<1>5. CASE ReportCheck(w)
  <2>1. k.phase = "check" /\ k.contract \in Contract
    BY <1>1, <1>5, JobParts DEF ReportCheck, Idle
  <2>2. UNCHANGED <<registryVars, live, verdict, proven, watch, sweep, orphan>>
    BY <1>5 DEF ReportCheck
  <2>3. CASE record[k.contract] # NoAttestation
    <3> DEFINE j  == [k EXCEPT !.phase = "last"]
               tx == [op |-> "revoke", contract |-> k.contract]
    <3>1. j \in Jobs /\ j.phase = "last"
      BY <2>1, JobParts
    <3>2. tx \in Revokes /\ Honest(tx)
      BY <2>1 DEF Revokes, Upserts, Honest
    <3>3. job' = [job EXCEPT ![w] = j] /\ Sent(w, tx)
      BY <1>1, <1>5, <2>3 DEF ReportCheck
    <3> HIDE DEF j, tx
    <3> QED
      BY <2>2, <3>1, <3>2, <3>3, ReportSends
  <2>4. CASE record[k.contract] = NoAttestation
    <3>1. Idle \in Jobs /\ Idle.phase = "idle"
      BY DEF Jobs, Idle
    <3>2. job' = [job EXCEPT ![w] = Idle] /\ UNCHANGED <<call, landed>>
      BY <1>1, <1>5, <2>4 DEF ReportCheck
    <3> QED
      BY <1>1, <2>1, <2>2, <3>1, <3>2, QuietWorkerKeeps DEF MirrorInv
  <2> QED
    BY <2>3, <2>4
<1> QED
  BY <1>3, <1>4, <1>5

LEMMA ReportEndsKeeps == ASSUME MirrorInv, NEW w \in Worker, ReportEnds(w) PROVE MirrorInv'
<1>1. Idle \in Jobs /\ Idle.phase = "idle"
  BY DEF Jobs, Idle
<1>2. /\ job' = [job EXCEPT ![w] = Idle]
      /\ UNCHANGED <<registryVars, live, verdict, proven, watch, sweep, orphan>>
  BY DEF ReportEnds
<1>3. CASE Returned(w)
  BY <1>1, <1>2, <1>3, ActorIs, ReturnedKeeps, WorkerKeeps DEF MirrorInv
<1>4. CASE job[w].phase \in {"ledger", "check"} /\ UNCHANGED <<call, landed>>
  BY <1>1, <1>2, <1>4, QuietWorkerKeeps DEF MirrorInv
<1> QED
  BY <1>3, <1>4 DEF ReportEnds

-----------------------------------------------------------------------------
LEMMA SweepParts ==
  ASSUME NEW s \in Sweeps
  PROVE  s.phase \in {"resolve", "revoke"} => s.contract \in Contract
  BY DEF Sweeps, Idle

\* A step of the sweep; jobs, runs and the registry stay as they are.
LEMMA SweeperKeeps ==
  ASSUME MirrorInv, UNCHANGED <<registryVars, live, verdict, proven, job, orphan>>,
         watch' \subseteq Contract \X Deployed, sweep' \in Sweeps,
         call' \in [Actor -> Calls], landed' \in [Actor -> {"sent", "ok", "failed"}],
         \A b \in Actor : b # Sweep => call'[b] = call[b],
         \A b \in Actor : Honest(call[b])',
         sweep'.phase = "revoke" <=> call'[Sweep] # NoCall
  PROVE  MirrorInv'
<1>1. TypeOK' /\ HonestMirror'
  BY FrameHonest DEF MirrorInv
<1>2. \A w \in Worker : JobSound(w)'
  BY ActorIs, JobStays
<1>3. \A tx : Honest(tx) => Honest(tx)'
  BY HonestyLasts
<1> QED
  BY <1>1, <1>2, <1>3 DEF MirrorInv

LEMMA SweepStepKeeps == ASSUME MirrorInv, SweepStep PROVE MirrorInv'
<1>1. /\ Idle \in Sweeps /\ Idle.phase = "idle" /\ Sweep \in Actor
      /\ \A s \in Sweeps : s = Idle => s.phase # "revoke"
  BY ActorIs DEF Sweeps, Idle
<1>2. ASSUME UNCHANGED <<call, proven>>, NEW a \in Actor PROVE Honest(call[a])'
  BY <1>2 DEF MirrorInv, Honest, Vouched
<1>3. CASE SweepList
  <2>1. \A c \in Contract : verdict[c].hash \in Deployed
    BY DEF MirrorInv
  <2>2. PICK listed \in SUBSET LatestVerified : watch' = {<<c, verdict[c].hash>> : c \in listed}
    BY <1>3 DEF SweepList
  <2>3. listed \subseteq Contract
    BY <2>2 DEF LatestVerified
  <2>4. watch' \subseteq Contract \X Deployed
    BY <2>1, <2>2, <2>3
  <2> QED
    BY <1>2, <1>3, <2>4, SweeperKeeps DEF MirrorInv, SweepList
<1>4. CASE SweepNext
  <2>1. PICK entry \in watch :
          /\ sweep = Idle /\ watch' = watch \ {entry}
          /\ \/ sweep' = [phase |-> "resolve", contract |-> entry[1], hash |-> entry[2]]
             \/ UNCHANGED sweep
    BY <1>4 DEF SweepNext
  <2>2. entry[1] \in Contract /\ entry[2] \in Deployed
    BY DEF MirrorInv
  <2>3. sweep' \in Sweeps /\ sweep'.phase # "revoke"
    BY <1>1, <2>1, <2>2 DEF Sweeps
  <2>4. call[Sweep] = NoCall
    BY <1>1, <2>1 DEF MirrorInv
  <2> QED
    BY <1>2, <1>4, <2>1, <2>3, <2>4, SweeperKeeps DEF MirrorInv, SweepNext
<1>5. CASE SweepResolve
  <2>1. PICK c \in Contract : c = sweep.contract
    BY <1>5, SweepParts DEF MirrorInv, SweepResolve
  <2>2. PICK seen \in Deployed \cup {TimedOut} :
          IF Drift(seen, sweep.hash)
          THEN /\ sweep' = [phase |-> "revoke", contract |-> c, seen |-> seen]
               /\ Sent(Sweep, [op |-> "revoke", contract |-> c])
          ELSE sweep' = Idle /\ UNCHANGED <<call, landed>>
    BY <1>5, <2>1 DEF MirrorInv, SweepResolve
  <2>3. UNCHANGED <<registryVars, live, verdict, proven, job, watch, orphan>>
    BY <1>5 DEF SweepResolve
  <2>4. CASE Drift(seen, sweep.hash)
    <3> DEFINE tx == [op |-> "revoke", contract |-> c]
    <3>1. tx \in Revokes /\ Honest(tx)
      BY DEF Revokes, Upserts, Honest
    <3>2. sweep' \in Sweeps /\ sweep'.phase = "revoke" /\ Sent(Sweep, tx)
      BY <2>2, <2>4 DEF Sweeps
    <3> HIDE DEF tx
    <3> QED
      BY <1>1, <2>3, <3>1, <3>2, SentKeeps, SweeperKeeps DEF MirrorInv
  <2>5. CASE ~Drift(seen, sweep.hash)
    <3>1. sweep' = Idle /\ UNCHANGED <<call, landed>>
      BY <2>2, <2>5
    <3>2. call[Sweep] = NoCall
      BY <1>5 DEF MirrorInv, SweepResolve
    <3> QED
      BY <1>1, <1>2, <2>3, <3>1, <3>2, SweeperKeeps DEF MirrorInv
  <2> QED
    BY <2>4, <2>5
<1>6. CASE SweepSkips
  <2>1. call[Sweep] = NoCall
    BY <1>6 DEF MirrorInv, SweepSkips
  <2> QED
    BY <1>1, <1>2, <1>6, <2>1, SweeperKeeps DEF MirrorInv, SweepSkips
<1>7. CASE SweepRevoked
  <2>1. UNCHANGED proven /\ Returned(Sweep) /\ sweep' = Idle
    BY <1>7 DEF SweepRevoked
  <2> QED
    BY <1>1, <1>7, <2>1, ReturnedKeeps, SweeperKeeps DEF MirrorInv, SweepRevoked
<1> QED
  BY <1>3, <1>4, <1>5, <1>6, <1>7 DEF SweepStep

LEMMA StutterKeeps == ASSUME MirrorInv, UNCHANGED allVars PROVE MirrorInv'
<1>1. UNCHANGED <<registryVars, live, verdict, proven, job, watch, sweep, call, landed, orphan>>
  BY DEF allVars, actorVars
<1>2. TypeOK' /\ HonestMirror'
  BY <1>1, FrameHonest DEF MirrorInv
<1> QED
  BY <1>1, <1>2, NetworkKeeps DEF MirrorInv

\* What the registry says of a contract is the hash, and at most the publisher,
\* of a run that verified it, for any number of workers, contracts, replicas and
\* given-up transactions, however the calls interleave, fail or land late.
THEOREM MirrorStaysHonest == ProvenanceSpec => []HonestMirror
<1>1. MirrorInv /\ [ProvenanceNext]_allVars => MirrorInv'
  <2> SUFFICES ASSUME MirrorInv, [ProvenanceNext]_allVars PROVE MirrorInv'
    OBVIOUS
  <2>1. ASSUME NEW w \in Worker, Work(w) PROVE MirrorInv'
    BY <2>1, ResolveKeeps, FinishKeeps, ReportKeeps, ReportEndsKeeps DEF Work
  <2> QED
    BY <2>1, NetworkStepKeeps, TickKeeps, SweepStepKeeps, StutterKeeps DEF ProvenanceNext
<1>2. MirrorInv => HonestMirror
  BY DEF MirrorInv
<1> QED
  BY InitMirror, <1>1, <1>2, PTL DEF ProvenanceSpec
=============================================================================
