----------------------------- MODULE MCClients -----------------------------
(***************************************************************************)
(* The user's side, one part at a time: the browser extension, the account *)
(* cleanup wizard with the service behind it, and the pages of the web     *)
(* application (agent keys and signers, payment requests, swaps, the       *)
(* policy builder, the verification page, the provenance card, the         *)
(* activity panel).                                                        *)
(***************************************************************************)
EXTENDS Extension, Cleanup, WebSigners, WebPay, WebPolicy, WebProvenance, Activity

VARIABLE part

clientVars == <<part, extVars, cleanupVars, webVars, payVars, policyVars, provVars, activityVars>>

-----------------------------------------------------------------------------
\* Extension: pairing, connecting, and signing for a dApp that has a grant.
WA == [address |-> "A", network |-> "testnet"]
WB == [address |-> "B", network |-> "mainnet"]
Asks(o, t, m, w, x) == [origin |-> o, tab |-> t, method |-> m, wallet |-> w, tx |-> x]
MCRequests ==
  {Asks("app", 1, "pair", WB, "none"), Asks("d1", 2, "connect", WA, "none"), Asks("d2", 3, "connect", WA, "none"),
   Asks("d1", 2, "sign_transaction", WA, "transfer"), Asks("d1", 2, "sign_transaction", WA, "feebump"),
   Asks("d1", 2, "sign_message", WA, "none"), Asks("d1", 2, "disconnect", WA, "none"),
   Asks("d2", 3, "get_address", WA, "none")}
MCEstablished  == {[wallet |-> WA, grants |-> {[origin |-> "d1", network |-> "testnet", account |-> "A"]}]}
MCPairConfig   == [allowAny |-> FALSE, configured |-> {"app"}, serve |-> FALSE]

\* Cleanup: rich and poor accounts, trustlines with and without a balance,
\* offers that lock one of them, data entries.
MCAccounts ==
  {a \in [open : {TRUE}, seq : {1}, xlm : {20, 40},
          lines : {<<>>, [y \in {"a"} |-> 1], [y \in {"a", "b"} |-> IF y = "a" THEN 1 ELSE 0]},
          offers : {{}, {"a"}}, data : BOOLEAN] : a.offers \subseteq DOMAIN a.lines}

\* Pay: plain links and links signed for a domain, by the key it publishes or
\* by another one.
PlainLink == [NoLink EXCEPT !.pay = TRUE, !.destination = "contract", !.passphrase = "testnet"]
MCLinks ==
  {PlainLink, [PlainLink EXCEPT !.memo = TRUE], [PlainLink EXCEPT !.passphrase = "none"],
   [PlainLink EXCEPT !.domain = TRUE, !.signedBy = "k1", !.asset = "registered"],
   [PlainLink EXCEPT !.domain = TRUE, !.signedBy = "k2", !.destination = "account"]}

\* Policies: every template, with the amounts and lists that matter to it.
Xlm(w, f) == [whole |-> w, frac |-> f]
Half == Xlm(0, <<5>>)
Whole  == Xlm(1, <<>>)
Long == Xlm(0, <<0, 0, 1>>)
SpendForm == [type |-> "spending_limit", daily |-> Whole, perTx |-> Blank, capToken |-> NoToken, cap |-> Blank, allowed |-> <<>>]
MCForms ==
  {[SpendForm EXCEPT !.perTx = Half], [SpendForm EXCEPT !.daily = Blank, !.perTx = Half],
   [SpendForm EXCEPT !.daily = Half, !.perTx = Whole], [SpendForm EXCEPT !.daily = Long],
   [SpendForm EXCEPT !.capToken = "t1", !.cap = Half, !.allowed = <<"t1">>],
   [SpendForm EXCEPT !.capToken = "t1"], [SpendForm EXCEPT !.capToken = "t1", !.cap = Long],
   [SpendForm EXCEPT !.allowed = <<"t1", "t1">>],
   [type |-> "verified_only", publishers |-> <<"p1">>], [type |-> "contract_allowlist", allowlist |-> <<"t1">>],
   [type |-> "multisig_threshold", coOwners |-> <<"a2">>, threshold |-> 2],
   [type |-> "multisig_threshold", coOwners |-> <<"me">>, threshold |-> 2],
   [type |-> "token_spending_limit"], [type |-> "timelock"], [type |-> "single_owner"]}
MCPublisherLists == {<<>>, <<"p1">>}

\* Activity: quiet ledgers, and busy ones that exceed a scan's budget; a classic
\* account whose operations fill one page or two.
MCContents == {<<>>, <<"own">>, <<"others", "fee", "token", "garbled", "own">>}
MCOperations == {[t \in 1..n |-> [at |-> t, kind |-> <<"payment", "trust", "invoke", "payment">>[t]]] : n \in {2, 4}}

-----------------------------------------------------------------------------
Parts == {"extension", "cleanup", "mint", "signers", "request", "swap", "policy", "verify", "provenance", "activity"}

MCInit ==
  /\ part \in Parts
  /\ part # "activity" => classic = FALSE /\ ledgers = [l \in 1..(Retention + 1) |-> <<>>]
  /\ part # "cleanup" => acct = CHOOSE a \in Accounts : TRUE
  /\ ExtInit /\ CleanupInit /\ WebInit /\ PayInit /\ WebPolicyInit /\ ProvInit /\ ActivityInit
  /\ part # "extension" => linked /\ kv = Empty
  /\ part \notin {"mint", "signers"} => wasm = "old"
  /\ part # "request" => renders /\ published = "k1"
  /\ part # "swap" => price = [p \in Paths |-> 9]
  /\ part # "provenance" => fits
  /\ part = "activity" => ledgers[1] = ledgers[2] /\ ledgers[2] = ledgers[3]
  /\ classic => \A l \in DOMAIN ledgers : ledgers[l] = ledgers[1]

\* The rest of a web part that moves the account: its runtime, the ledger.
Account == InitRuntime \/ \E t \in Txs : Lands(t)

MCNext ==
  /\ UNCHANGED part
  /\ \/ part = "extension" /\ ExtNext /\ UNCHANGED <<cleanupVars, webVars, payVars, policyVars, provVars, activityVars>>
     \/ part = "cleanup" /\ CleanupNext /\ UNCHANGED <<extVars, webVars, payVars, policyVars, provVars, activityVars>>
     \/ part = "mint" /\ (MintNext \/ Account) /\ UNCHANGED <<extVars, cleanupVars, payVars, policyVars, provVars, activityVars>>
     \/ part = "signers" /\ (CardNext \/ Account) /\ UNCHANGED <<extVars, cleanupVars, payVars, policyVars, provVars, activityVars>>
     \/ part = "request" /\ RequestNext /\ UNCHANGED <<extVars, cleanupVars, webVars, policyVars, provVars, activityVars>>
     \/ part = "swap" /\ SwapNext /\ UNCHANGED <<extVars, cleanupVars, webVars, policyVars, provVars, activityVars>>
     \/ part = "policy" /\ WebPolicyNext /\ UNCHANGED <<extVars, cleanupVars, webVars, payVars, provVars, activityVars>>
     \/ part = "verify" /\ VerifyNext /\ UNCHANGED <<extVars, cleanupVars, webVars, payVars, policyVars, activityVars>>
     \/ part = "provenance" /\ ModeNext /\ UNCHANGED <<extVars, cleanupVars, webVars, payVars, policyVars, activityVars>>
     \/ part = "activity" /\ ActivityNext /\ UNCHANGED <<extVars, cleanupVars, webVars, payVars, policyVars, provVars>>

MCSpec == MCInit /\ [][MCNext]_clientVars

-----------------------------------------------------------------------------
\* What a page tells is so: of the agent keys it minted and the signers it
\* changed (lib/agent-mint.ts, signers-card.tsx), of the provenance mode in
\* force (provenance-card.tsx), of the verifications it lists (verify/page.tsx)
\* and of the account's history (history.ts, activity.ts).
PagesTellTheTruth == PageTellsTheTruth /\ ProvenanceShownTrue /\ ActivityTrue

\* What the wallet signs is what the user reviewed: the payment request
\* (sep7.ts, pay/page.tsx), the quote of a swap (quote.ts), the limits of a policy
\* (policies/page.tsx and the constructor arguments the service derives).
SignedAsReviewed == RequestVouched /\ SwapAsReviewed /\ PolicyAsReviewed
=============================================================================
