-------------------------- MODULE MCProvenanceGate --------------------------
(***************************************************************************)
(* The on-chain half of provenance-gated spending: a wallet whose signer   *)
(* is bound by verified-recipient, the registry the policy reads, and the  *)
(* threshold account that may write to the registry; and a small instance  *)
(* of it for TLC.                                                          *)
(***************************************************************************)
EXTENDS ThresholdAttestor, VerifiedRecipient

gateVars == <<attestVars, policyVars>>

GateInit == ThresholdInit /\ PolicyInit

GateNext ==
  \/ PolicyNext /\ UNCHANGED attestVars
  \/ ThresholdNext /\ passed' = {} /\ UNCHANGED <<config, signer, installed, policyLive>>

GateSpec == GateInit /\ [][GateNext]_gateVars

-----------------------------------------------------------------------------
GateTypeOK == TypeOK /\ AccountTypeOK /\ PolicyTypeOK

\* Through every rotation of keys, removal and re-installation, the gate is
\* neither too lax nor locked: what stands in the registry had its quorum, the
\* account's keys still make one, and a policy the wallet lists as a signer
\* does not refuse everything because somebody uninstalled it.
GateKept == QuorumVouched /\ NeverLocked /\ InstalledWhileSigner

\* "a signer constrained by this policy cannot transact through unverified
\* code": when policy__ authorizes a call, the called contract is not the
\* wallet itself, and a quorum vouched for it, for a publisher the mode
\* trusts, until a ledger not yet reached, and did not take it back.
OnlyVouchedCode ==
  [][\A c \in passed' :
       /\ c # config.wallet
       /\ vouched[c].needed > 0 /\ Cardinality(vouched[c].keys) >= vouched[c].needed
       /\ ledger < vouched[c].until
       /\ config.mode # Strict => vouched[c].publisher \in Publisher \cap Range(config.mode)
    ]_gateVars

-----------------------------------------------------------------------------
(* The small instance.                                                     *)

CONSTANTS k1, k2, k3, p1, p2, wallet, token

Roster(threshold, signers, revoke_threshold) ==
  [threshold |-> threshold, signers |-> signers, revoke_threshold |-> revoke_threshold]

\* Two rosters the account accepts, and three it must refuse.
MCRosters ==
  { Roster(2, <<k1, k2>>, 1),
    Roster(1, <<k3>>, NoRevokeThreshold),
    Roster(2, <<k3>>, 1),
    Roster(2, <<k1, k1>>, 1),
    Roster(1, <<k1>>, 0) }

Sig(index, key) == [signer_index |-> index, key |-> key]

\* Full lists of both rosters, single signatures, a repeated one and a swap.
MCSignatureLists ==
  { <<Sig(0, k1)>>, <<Sig(0, k3)>>, <<Sig(0, k1), Sig(1, k2)>>,
    <<Sig(0, k1), Sig(0, k1)>>, <<Sig(1, k2), Sig(0, k1)>> }

MCContextLists ==
  { <<"upsert">>, <<"revoke">>, <<"revoke", "upsert">>, <<"set_attestor", "set_signers">> }

\* p2 is trusted by a wallet and never attests; an empty set is refused.
MCConfigs ==
  {[wallet |-> wallet, mode |-> m] : m \in {Strict, <<p1>>, <<p2>>, << >>}}

Call(contract, fn, arity, from) ==
  [kind |-> "Contract", contract |-> contract, fn |-> fn, arity |-> arity, from |-> from]

MCPolicyCalls ==
  LET pay   == Call(token, "transfer", 3, wallet)
      admin == Call(wallet, "add_signer", 1, wallet)
  IN  { << >>, <<pay>>, <<pay, pay>>, <<pay, pay, pay>>, <<pay, admin>>, <<admin>>,
        <<Call(token, "transfer", 3, token)>>, <<Call(token, "swap", 1, token)>>,
        <<[pay EXCEPT !.kind = "Create"]>> }
=============================================================================
