----------------------------- MODULE WebSigners -----------------------------
(***************************************************************************)
(* The settings page: minting agent keys (lib/agent-mint.ts behind         *)
(* agent-keys-card.tsx), and the cards that change the account's signers   *)
(* and code with one passkey approval each (signers-card, add-passkey-card,*)
(* wallet-upgrade-card), over the signers the account contract holds.      *)
(*                                                                         *)
(* A mint stands for the key it generates and for the policy instance it   *)
(* deploys, which encodes config[m].  A mint runs detached from the page's *)
(* reducer: pc is where runMint is, ui is what the reducer made of the     *)
(* events it dispatched, and the form may be submitted again while an      *)
(* earlier run still waits.                                                *)
(***************************************************************************)
EXTENDS Naturals, FiniteSets

CONSTANTS MaxMints, Configs,
          Founders,    \* passkeys on the account from the start
          Spares       \* passkeys the add-passkey card may register

VARIABLES
  pc,        \* pc[m]: the effect runMint awaits
  config,    \* config[m]: the MintConfig of run m
  seen,      \* seen[m]: the summaries the user confirmed for run m
  ui,        \* the reducer's state: [step, config, key, policy, secret, mayExist]
  asking,    \* the run whose summary and resolver the card holds
  runtime,   \* the memoised wallet runtime: "none", "ready" or "failed"
  tx,        \* tx[t]: what the network made of transaction t
  signers,   \* the signers of the account: passkeys and agent keys
  attached,  \* the policies attached to it
  wasm,      \* the code it runs
  list,      \* the signers query's data
  card       \* card[c]: [step, subject] of each one-approval card

mintVars  == <<pc, config, seen, ui, asking>>
accountVars     == <<tx, signers, attached, wasm>>
cardVars  == <<runtime, list, card>>
webVars   == <<mintVars, accountVars, cardVars>>

NoOne     == 0
Mints     == 1..MaxMints    \* in the order they start
Passkeys  == Founders \cup Spares
Cards     == {"revoke", "passkey", "upgrade"}
Txs       == ({"attach", "add"} \X Mints) \cup ({"revoke"} \X (Passkeys \cup Mints))
             \cup ({"passkey"} \X Spares) \cup {<<"upgrade", NoOne>>}
\* A key the browser generates is none of the passkeys.
ASSUME WebSignersAssumption == Passkeys \cap Mints = {} /\ MaxMints \in Nat

NoMint      == [step |-> "idle", config |-> NoOne, key |-> NoOne, policy |-> NoOne, secret |-> FALSE,
              mayExist |-> FALSE]

WebInit ==
  /\ pc = [m \in Mints |-> "none"] /\ config = [m \in Mints |-> NoOne] /\ seen = [m \in Mints |-> {}]
  /\ ui = NoMint /\ asking = NoOne /\ runtime = "none"
  /\ tx = [t \in Txs |-> "none"] /\ signers = Founders /\ attached = {} /\ wasm \in {"old", "target"}
  /\ list = Founders /\ card = [c \in Cards |-> [step |-> "idle", subject |-> NoOne]]

-----------------------------------------------------------------------------
(* The reducer and the run.                                                *)

\* The reducer on an event of run m: an event the current step does not expect
\* leaves the state alone, whichever run sent it.
MintReducer(s, event, m) ==
  CASE event = "RESET" -> NoMint
    [] event = "FAIL" -> [NoMint EXCEPT !.step = "error", !.policy = s.policy, !.mayExist = s.step = "confirming"]
    [] event = "START" /\ s.step = "idle" -> [s EXCEPT !.step = "creating-key", !.config = config'[m]]
    [] event = "KEY_CREATED" /\ s.step = "creating-key" -> [s EXCEPT !.step = "policy-creation", !.key = m]
    [] event = "POLICY_DEPLOYED" /\ s.step = "policy-creation" ->
         [s EXCEPT !.step = "awaiting-confirmation", !.policy = m]
    [] event = "DETAILS_CONFIRMED" /\ s.step = "awaiting-confirmation" -> [s EXCEPT !.step = "attaching-policy"]
    [] event = "POLICY_ATTACHED" /\ s.step = "attaching-policy" -> [s EXCEPT !.step = "adding-signer"]
    [] event = "SIGNER_ADDED" /\ s.step = "adding-signer" -> [s EXCEPT !.step = "confirming"]
    [] event = "CONFIRMED" /\ s.step = "confirming" -> [s EXCEPT !.step = "success", !.secret = TRUE]
    [] event = "DISMISS_SECRET" /\ s.step = "success" -> [s EXCEPT !.secret = FALSE]
    [] OTHER -> s

Busy(s) == s.step \notin {"idle", "success", "error"}

Dispatch(event, m) == ui' = MintReducer(ui, event, m)

Goto(m, next) == pc' = [pc EXCEPT ![m] = next]

\* The form is shown unless a mint succeeded, its button enabled unless one is
\* busy: also over an error, where START changes nothing.
StartMint(m, c) ==
  /\ pc[m] = "none" /\ (\A k \in 1..m - 1 : pc[k] # "none") /\ ~Busy(ui) /\ ui.step # "success"
  /\ config' = [config EXCEPT ![m] = c]
  /\ Goto(m, "key") /\ Dispatch("START", m)
  /\ UNCHANGED <<seen, asking, accountVars, cardVars>>

GenerateKey(m) ==
  /\ pc[m] = "key" /\ Goto(m, "policy") /\ Dispatch("KEY_CREATED", m)
  /\ UNCHANGED <<config, seen, asking, accountVars, cardVars>>

\* Generate, simulate and deploy the policy, then show the summary: the card
\* keeps the summary and the resolver of the last run that got here.
DeployInstance(m) ==
  /\ pc[m] = "policy" /\ Goto(m, "confirm") /\ Dispatch("POLICY_DEPLOYED", m)
  /\ asking' = m
  /\ UNCHANGED <<config, seen, accountVars, cardVars>>

\* Mutant: the details shown are the reducer's own.
ConfirmDetailsOfState(ok) ==
  /\ ui.step = "awaiting-confirmation" /\ asking # NoOne
  /\ asking' = NoOne
  /\ IF ok
     THEN /\ Goto(asking, "attach") /\ Dispatch("DETAILS_CONFIRMED", asking)
          /\ seen' = [seen EXCEPT ![asking] = @ \cup {ui.config}]
     ELSE Goto(asking, "done") /\ Dispatch("FAIL", asking) /\ UNCHANGED seen
  /\ UNCHANGED <<config, accountVars, cardVars>>

ConfirmDetails(ok) ==
  /\ ui.step = "awaiting-confirmation" /\ asking # NoOne
  /\ asking' = NoOne
  /\ IF ok
     THEN /\ Goto(asking, "attach") /\ Dispatch("DETAILS_CONFIRMED", asking)
          /\ seen' = [seen EXCEPT ![asking] = @ \cup {config[asking]}]
     ELSE Goto(asking, "done") /\ Dispatch("FAIL", asking) /\ UNCHANGED seen
  /\ UNCHANGED <<config, accountVars, cardVars>>

\* resume, build, sign with the passkey, submit: a wallet runtime that came up
\* is needed for all of it.  The service may have sent what it never answers for.
Submitted(t) == runtime = "ready" /\ tx' = [tx EXCEPT ![t] = "pending"]

AttachPolicy(m) ==
  /\ pc[m] = "attach" /\ Submitted(<<"attach", m>>) /\ Goto(m, "add") /\ Dispatch("POLICY_ATTACHED", m)
  /\ UNCHANGED <<config, seen, asking, signers, attached, wasm, cardVars>>

AddAgentKey(m) ==
  /\ pc[m] = "add" /\ Submitted(<<"add", m>>) /\ Goto(m, "track") /\ Dispatch("SIGNER_ADDED", m)
  /\ UNCHANGED <<config, seen, asking, signers, attached, wasm, cardVars>>

\* Both transactions are followed to their end.
ConfirmMint(m) ==
  /\ pc[m] = "track" /\ Goto(m, "done")
  /\ LET results == {tx[<<"attach", m>>], tx[<<"add", m>>]} IN
     \/ results = {"applied"} /\ Dispatch("CONFIRMED", m)
     \/ "failed" \in results /\ Dispatch("FAIL", m)
  /\ UNCHANGED <<config, seen, asking, accountVars, cardVars>>

\* Any effect may throw; the submissions also after the network got them.
MintFails(m) ==
  /\ pc[m] \in {"key", "policy", "attach", "add", "track"}
  /\ Goto(m, "done") /\ Dispatch("FAIL", m)
  /\ \/ UNCHANGED tx
     \/ pc[m] = "attach" /\ Submitted(<<"attach", m>>)
     \/ pc[m] = "add" /\ Submitted(<<"add", m>>)
  /\ UNCHANGED <<config, seen, asking, signers, attached, wasm, cardVars>>

DismissSecret ==
  /\ ui.step = "success" /\ ui.secret /\ Dispatch("DISMISS_SECRET", NoOne)
  /\ UNCHANGED <<pc, config, seen, asking, accountVars, cardVars>>

StartOver ==
  /\ ui.step \in {"error", "success"} /\ Dispatch("RESET", NoOne)
  /\ UNCHANGED <<pc, config, seen, asking, accountVars, cardVars>>

-----------------------------------------------------------------------------
(* The account contract (external) and the wallet runtime.                 *)

\* A policy is attached unlimited and persistent, so it counts as a durable
\* admin, as a passkey does; an agent key, limited to its token, does not.
DurableAdmins == (signers \cap Passkeys) \cup attached

\* What the account does with a transaction; it refuses to remove the last
\* durable admin, an absent signer, and to add a present one.
Lands(t) ==
  /\ tx[t] = "pending"
  /\ \/ /\ tx' = [tx EXCEPT ![t] = "applied"]
        /\ \/ t[1] = "attach" /\ attached' = attached \cup {t[2]} /\ UNCHANGED <<signers, wasm>>
           \/ /\ t[1] \in {"add", "passkey"} /\ t[2] \notin signers
              /\ signers' = signers \cup {t[2]} /\ UNCHANGED <<attached, wasm>>
           \/ /\ t[1] = "revoke" /\ t[2] \in signers /\ DurableAdmins # {t[2]}
              /\ signers' = signers \ {t[2]} /\ UNCHANGED <<attached, wasm>>
           \/ t[1] = "upgrade" /\ wasm' = "target" /\ UNCHANGED <<signers, attached>>
     \/ tx' = [tx EXCEPT ![t] = "failed"] /\ UNCHANGED <<signers, attached, wasm>>
  /\ UNCHANGED <<mintVars, cardVars>>

\* The runtime is built once and the promise kept, rejected or not.
InitRuntime ==
  /\ runtime = "none" /\ runtime' \in {"ready", "failed"}
  /\ UNCHANGED <<mintVars, accountVars, list, card>>

-----------------------------------------------------------------------------
(* The one-approval cards.                                                 *)

ListSigners ==
  /\ runtime = "ready" /\ list' = signers
  /\ UNCHANGED <<mintVars, accountVars, runtime, card>>

\* What the list shows decides, as it does for the contract, and one passkey
\* must remain beside.
CanRevoke(s) ==
  s \in Passkeys => (list \cap Passkeys) \ {s} # {}

CardAt(c, step, subject) == card' = [card EXCEPT ![c] = [step |-> step, subject |-> subject]]

Waiting(c) == card[c].step \in {"approving", "confirming"}

AskRevoke(s) ==
  /\ s \in list /\ CanRevoke(s) /\ ~Waiting("revoke") /\ CardAt("revoke", "confirm", s)
  /\ UNCHANGED <<mintVars, accountVars, runtime, list>>

ApproveRevoke ==
  /\ card["revoke"].step = "confirm" /\ CardAt("revoke", "approving", card["revoke"].subject)
  /\ UNCHANGED <<mintVars, accountVars, runtime, list>>

RunAddPasskey(p) ==
  /\ ~Waiting("passkey") /\ card["passkey"].step # "done" /\ p \notin signers
  /\ CardAt("passkey", "approving", p)
  /\ UNCHANGED <<mintVars, accountVars, runtime, list>>

RunUpgrade ==
  /\ ~Waiting("upgrade") /\ card["upgrade"].step # "done" /\ CardAt("upgrade", "approving", NoOne)
  /\ UNCHANGED <<mintVars, accountVars, runtime, list>>

\* The upgrade reads the account's code again before it asks for the passkey.
UpgradeAvailable == wasm = "old"

CardSubmits(c) ==
  LET t == <<c, card[c].subject>> IN
  /\ card[c].step = "approving" /\ (c = "upgrade" => UpgradeAvailable)
  /\ Submitted(t)
  /\ CardAt(c, "confirming", t[2]) \/ CardAt(c, "error", t[2])
  /\ UNCHANGED <<mintVars, signers, attached, wasm, runtime, list>>

CardTracks(c) ==
  LET t == <<c, card[c].subject>> IN
  /\ card[c].step = "confirming"
  /\ \/ tx[t] = "applied" /\ CardAt(c, "done", t[2])
     \/ CardAt(c, "error", t[2])
  /\ UNCHANGED <<mintVars, accountVars, runtime, list>>

CardFails(c) ==
  /\ card[c].step = "approving" /\ CardAt(c, "error", card[c].subject)
  /\ UNCHANGED <<mintVars, accountVars, runtime, list>>

Dismiss(c) ==
  /\ card[c].step \in {"confirm", "error", "done"} /\ c # "upgrade" /\ CardAt(c, "idle", NoOne)
  /\ UNCHANGED <<mintVars, accountVars, runtime, list>>

MintNext ==
  \/ \E m \in Mints : (\E c \in Configs : StartMint(m, c)) \/ GenerateKey(m) \/ DeployInstance(m) \/ AttachPolicy(m)
       \/ AddAgentKey(m) \/ ConfirmMint(m) \/ MintFails(m)
  \/ \E ok \in BOOLEAN : ConfirmDetails(ok)
  \/ DismissSecret \/ StartOver

CardNext ==
  \/ \E s \in Passkeys \cup Mints : AskRevoke(s)
  \/ ApproveRevoke \/ RunUpgrade \/ \E p \in Spares : RunAddPasskey(p)
  \/ \E c \in Cards : CardSubmits(c) \/ CardTracks(c) \/ CardFails(c) \/ Dismiss(c)
  \/ ListSigners

-----------------------------------------------------------------------------
\* The page says what it signs: an agent key that reached the account is one
\* whose own token, budget and expiry the user confirmed before any passkey
\* prompt, however the runs of the card interleave, and its policy went first
\* (agent-mint.ts:17-24); and a card that reports an account change as done
\* reports one the account made.
PageTellsTheTruth ==
  /\ \A m \in Mints \cap signers : seen[m] = {config[m]} /\ tx[<<"attach", m>>] # "none"
  /\ \A c \in Cards : card[c].step = "done" => tx[<<c, card[c].subject>>] = "applied"

\* "True once the agent signer transaction was submitted: an agent key may exist
\* on-chain even though the flow did not complete" (agent-mint.ts:156).
FailureMentionsSigner ==
  \A m \in Mints : ui.step = "error" /\ ui.policy = m /\ m \in signers => ui.mayExist
=============================================================================
