----------------------------- MODULE WebPolicy -----------------------------
(***************************************************************************)
(* The policy builder of the web app: a form becomes a definition          *)
(* (app/policies/page.tsx), policy-service validates it and derives the    *)
(* constructor arguments of the contract (templates.ts), the user reviews  *)
(* it and deploys, attaches and detaches it (ReviewCard, lib/policy.ts),   *)
(* warned of policies this browser remembers with an overlapping scope     *)
(* (lib/policy-deployments.ts, lib/policy-scope.ts).                       *)
(*                                                                         *)
(* A typed amount is its whole part and its decimal digits; a contract's   *)
(* amounts are base units.  Addresses, tokens and publishers are small     *)
(* sets, and a list is what splitting the text field gives.                *)
(***************************************************************************)
EXTENDS Integers, FiniteSets, Sequences, SequencesExt

CONSTANTS Forms,            \* what the user may type into the form
          Owner,            \* the session's account
          Addresses, TokenIds, Publishers,   \* the well-formed ones
          Decimals,         \* digits after the point of a token amount: 7
          MaxEntries,       \* MAX_RULE_ENTRIES and MAX_TRUSTED_PUBLISHERS
          Probes,           \* amounts a transfer is tried with
          MaxInstances, MaxCards

\* A token field left empty.
NoToken == ""

\* An amount field: empty, or the whole part and the decimal digits.
Blank  == [whole |-> -1, frac |-> <<>>]
Amount == [whole : Nat, frac : Seq(0..9)]

ASSUME WebPolicyAssumption ==
  /\ Decimals \in Nat /\ Probes \subseteq Nat /\ NoToken \notin TokenIds
  /\ \A form \in Forms : form.type = "spending_limit" =>
       {form.daily, form.perTx, form.cap} \subseteq Amount \cup {Blank}

VARIABLES
  templates,    \* whether the template list has arrived
  stage,        \* [name, type, form, policy]
  submitted,    \* the form's request: "none", "validate", "generate"
  cards,        \* review cards shown so far
  deploy,       \* the card's state: [name, contract]
  deploys,      \* deployments under way: [card, step, policy, form, contract]
  detaches,     \* removals not over: [card, contract, step], "asked", "answered" or "ended"
  instances,    \* deployed policy contracts: [form, definition, args]
  attachedPolicies,     \* the ones that are signers of the account
  listed,       \* the policies of the signer list the page has, none before it arrives
  records       \* localStorage: contract |-> definition, of the recorded ones

formVars   == <<templates, submitted>>
runVars    == <<deploys, detaches>>
chainVars  == <<instances, attachedPolicies>>
policyVars == <<formVars, stage, cards, deploy, runVars, chainVars, listed, records>>

NoPolicy == [definition |-> [type |-> "none"], args |-> [kind |-> "none"]]
StageAt(name, type, form, policy) == [name |-> name, type |-> type, form |-> form, policy |-> policy]
Pick           == StageAt("pick", "none", [type |-> "none"], NoPolicy)
DeployIdle     == [name |-> "idle", contract |-> 0]

WebPolicyInit ==
  /\ templates = FALSE /\ stage = Pick /\ submitted = "none"
  /\ cards = 0 /\ deploy = DeployIdle /\ deploys = {} /\ detaches = {}
  /\ instances = <<>> /\ attachedPolicies = {} /\ listed = {} /\ records = <<>>

-----------------------------------------------------------------------------
(* Amounts.                                                                *)

Tens[n \in Nat] == IF n = 0 THEN 1 ELSE 10 * Tens[n - 1]
Digits(frac) ==
  LET read[n \in 0..Len(frac)] == IF n = 0 THEN 0 ELSE 10 * read[n - 1] + frac[n]
  IN  read[Len(frac)]

\* Mutant: pads the decimals on the wrong side.
xlmToStroopsLeftPadded(x) == x.whole * Tens[Decimals] + Digits(x.frac)

\* The decimals are padded on the right; more of them than fit are cut off.
xlmToStroops(x) ==
  LET kept == SubSeq(x.frac, 1, IF Len(x.frac) < Decimals THEN Len(x.frac) ELSE Decimals)
  IN  x.whole * Tens[Decimals] + Digits(kept) * Tens[Decimals - Len(kept)]

PositiveXlmAmount(x) == Len(x.frac) <= Decimals /\ xlmToStroops(x) > 0

\* The page's own conversion returns what it cannot read as it was typed: no number of base units.
xlmToBaseUnits(x) == IF Len(x.frac) <= Decimals THEN xlmToStroops(x) ELSE -1

-----------------------------------------------------------------------------
(* From the form to the definition, and the definition's schema.           *)

\* The cap needs its token and its amount: one without the other is left out.
BuildDefinition(form) ==
  CASE form.type = "spending_limit" ->
         [type |-> form.type, owners |-> <<Owner>>, daily |-> form.daily, perTx |-> form.perTx,
          caps |-> IF form.capToken # NoToken /\ form.cap # Blank
                   THEN <<[token |-> form.capToken, amount |-> xlmToBaseUnits(form.cap)]>> ELSE <<>>,
          allowed |-> form.allowed]
    [] form.type = "verified_only" -> [type |-> form.type, owners |-> <<Owner>>, publishers |-> form.publishers]
    [] form.type = "multisig_threshold" ->
         [type |-> form.type, owners |-> <<Owner>> \o form.coOwners, threshold |-> form.threshold]
    [] form.type = "contract_allowlist" -> [type |-> form.type, owners |-> <<Owner>>, contracts |-> form.allowlist]
    [] OTHER -> [type |-> form.type, owners |-> <<Owner>>]

UniqueOf(list, set) == ToSet(list) \subseteq set /\ Cardinality(ToSet(list)) = Len(list)

SpendingLimitsSchema(d) ==
  /\ d.daily # Blank \/ d.perTx # Blank
  /\ \A x \in {d.daily, d.perTx} \ {Blank} : PositiveXlmAmount(x)
  /\ d.daily # Blank /\ d.perTx # Blank => xlmToStroops(d.perTx) <= xlmToStroops(d.daily)

SafetyRulesSchema(d) ==
  /\ \A i \in DOMAIN d.caps : d.caps[i].token \in TokenIds /\ d.caps[i].amount >= 1
  /\ UniqueOf(d.allowed, TokenIds) /\ Len(d.allowed) <= MaxEntries

\* publishers = <<>> is strict mode; the page's forms hold no token budget and no time lock.
ProvenanceSchema(d) == Len(d.publishers) <= MaxEntries /\ ToSet(d.publishers) \subseteq Publishers

ValidateDefinition(d) ==
  /\ UniqueOf(d.owners, Addresses) /\ d.owners # <<>>
  /\ CASE d.type = "spending_limit"     -> SpendingLimitsSchema(d) /\ SafetyRulesSchema(d)
       [] d.type = "verified_only"      -> ProvenanceSchema(d)
       [] d.type = "multisig_threshold" -> Len(d.owners) >= 2 /\ d.threshold \in 2..Len(d.owners)
       [] d.type = "contract_allowlist" -> d.contracts # <<>> /\ UniqueOf(d.contracts, TokenIds)
       [] OTHER                         -> d.type = "single_owner"

\* The daily limit is the cap; a per-transfer limit is used only when it stands alone.
DeriveSpendingConstructor(d) ==
  [kind |-> "spending", limit |-> xlmToStroops(IF d.daily # Blank THEN d.daily ELSE d.perTx),
   caps |-> d.caps, allowed |-> d.allowed]

DeriveVerifiedRecipientConstructor(d) == [kind |-> "verified", ids |-> ToSet(d.publishers)]

GeneratePolicy(d) ==
  [definition |-> d,
   args |-> CASE d.type = "spending_limit" -> DeriveSpendingConstructor(d)
              [] d.type = "verified_only"  -> DeriveVerifiedRecipientConstructor(d)
              [] OTHER                     -> [kind |-> "none"]]

-----------------------------------------------------------------------------
(* The builder.                                                            *)

\* listTemplates; a failure leaves the loading text, with an error over it.
LoadTemplates == /\ ~templates /\ templates' = TRUE
                 /\ UNCHANGED <<stage, submitted, cards, deploy, runVars, chainVars, listed, records>>

\* A template whose contract is pending ("timelock") cannot be picked; Back returns from the form.
PickTemplate(form) ==
  /\ templates /\ stage.name = "pick" /\ form.type # "timelock"
  /\ stage' = StageAt("configure", form.type, Pick.form, NoPolicy)
  /\ UNCHANGED <<formVars, cards, deploy, runVars, chainVars, listed, records>>

BackToPick ==
  /\ stage.name = "configure" /\ submitted = "none" /\ stage' = Pick
  /\ UNCHANGED <<formVars, cards, deploy, runVars, chainVars, listed, records>>

SubmitForm(form) ==
  /\ stage.name = "configure" /\ stage.type = form.type /\ submitted = "none"
  /\ stage' = StageAt("configure", stage.type, form, stage.policy) /\ submitted' = "validate"
  /\ UNCHANGED <<templates, cards, deploy, runVars, chainVars, listed, records>>

\* Each request may fail: the error is shown over the form, which is free again.
ValidateAnswers ==
  /\ submitted = "validate"
  /\ \/ submitted' = "none"
     \/ submitted' = "generate" /\ ValidateDefinition(BuildDefinition(stage.form))
  /\ UNCHANGED <<templates, stage, cards, deploy, runVars, chainVars, listed, records>>

GenerateAnswers ==
  /\ submitted = "generate" /\ submitted' = "none"
  /\ \/ /\ cards < MaxCards /\ cards' = cards + 1 /\ deploy' = DeployIdle
        /\ stage' = StageAt("review", stage.type, stage.form, GeneratePolicy(BuildDefinition(stage.form)))
     \/ UNCHANGED <<stage, cards, deploy>>
  /\ UNCHANGED <<templates, runVars, chainVars, listed, records>>

-----------------------------------------------------------------------------
(* The review card.                                                        *)

Deployable(policy) == policy.args.kind # "none"
DeployBusy == deploy.name \in {"simulating", "deploying"}

\* What a run of another card sets is not seen.
SetState(run, state) == deploy' = IF run.card = cards /\ stage.name = "review" THEN state ELSE deploy

\* The button is there in every state but "done", the removal's included.
RunDeploy ==
  /\ stage.name = "review" /\ Deployable(stage.policy) /\ ~DeployBusy /\ deploy.name # "done"
  /\ Len(instances) + Cardinality(deploys) < MaxInstances
  /\ LET run == [card |-> cards, step |-> "simulate", policy |-> stage.policy, form |-> stage.form, contract |-> 0]
     IN  run \notin deploys /\ deploys' = deploys \cup {run}
  /\ deploy' = [name |-> "simulating", contract |-> 0]
  /\ UNCHANGED <<formVars, stage, cards, detaches, chainVars, listed, records>>

NextStep(run, changed) == deploys' = (deploys \ {run}) \cup {changed}

\* The dry run of policy-service, whose deployer holds the spending policy's code alone.
SimulateAnswers(run) ==
  /\ run.step = "simulate" /\ run.policy.args.kind = "spending"
  /\ NextStep(run, [run EXCEPT !.step = "deploy"]) /\ SetState(run, [name |-> "deploying", contract |-> 0])
  /\ UNCHANGED <<formVars, stage, cards, detaches, chainVars, listed, records>>

\* deployInstance: the answer carries the contract the sponsor deployed for the stored policy.
InstanceDeployed(run) ==
  /\ run.step = "deploy" /\ Len(instances) < MaxInstances
  /\ instances' = Append(instances, [form |-> run.form, definition |-> run.policy.definition, args |-> run.policy.args])
  /\ NextStep(run, [card |-> run.card, step |-> "attach", policy |-> run.policy, form |-> run.form,
                    contract |-> Len(instances) + 1])
  /\ UNCHANGED <<formVars, stage, cards, deploy, detaches, attachedPolicies, listed, records>>

\* resume and attachPolicy: the passkey signs, the transaction lands and its answer arrives.  (One answered
\* before it landed is refused by the next step, which looks for it on-chain, as if this one had failed.)
AttachAnswers(run) ==
  /\ run.step = "attach" /\ attachedPolicies' = attachedPolicies \cup {run.contract}
  /\ NextStep(run, [run EXCEPT !.step = "record"])
  /\ UNCHANGED <<formVars, stage, cards, deploy, detaches, instances, listed, records>>

\* recordPolicyDeployment
Recorded(run) == [c \in DOMAIN records \cup {run.contract} |->
                    IF c = run.contract THEN run.policy.definition ELSE records[c]]

RecordAnswers(run) ==
  /\ run.step = "record" /\ records' = Recorded(run) /\ deploys' = deploys \ {run}
  /\ SetState(run, [name |-> "done", contract |-> run.contract])
  /\ UNCHANGED <<formVars, stage, cards, detaches, chainVars, listed>>

\* Any of the calls fails or loses its answer; a lost answer to the attach leaves the policy attached.
DeployFails(run) ==
  /\ deploys' = deploys \ {run} /\ SetState(run, [name |-> "error", contract |-> 0])
  /\ attachedPolicies' \in {attachedPolicies} \cup (IF run.step = "attach" THEN {attachedPolicies \cup {run.contract}} ELSE {})
  /\ UNCHANGED <<formVars, stage, cards, detaches, instances, listed, records>>

RunDetach ==
  /\ stage.name = "review" /\ deploy.name = "done"
  /\ detaches' = detaches \cup {[card |-> cards, contract |-> deploy.contract, step |-> "asked"]}
  /\ deploy' = [deploy EXCEPT !.name = "detaching"]
  /\ UNCHANGED <<formVars, stage, cards, deploys, chainVars, listed, records>>

\* What became of a removal: over, or its other half is still to come.
Onward(run, step) ==
  (detaches \ {run}) \cup
    (IF run.step = "asked" THEN {[card |-> run.card, contract |-> run.contract, step |-> step]} ELSE {})

\* A hash, or an error, which may have lost the hash: neither says whether the transaction landed.
DetachAnswers(run) ==
  /\ run.step \in {"asked", "ended"} /\ detaches' = Onward(run, "answered")
  /\ SetState(run, [name |-> "detached", contract |-> run.contract]) \/ SetState(run, [name |-> "error", contract |-> 0])
  /\ UNCHANGED <<formVars, stage, cards, deploys, chainVars, listed, records>>

\* external: the removal lands, fails on-chain, or was never sent; before its answer or after it.
RemovalEnds(run) ==
  /\ run.step \in {"asked", "answered"} /\ detaches' = Onward(run, "ended")
  /\ attachedPolicies' \in {attachedPolicies, attachedPolicies \ {run.contract}}
  /\ UNCHANGED <<formVars, stage, cards, deploy, deploys, instances, listed, records>>

\* onDone: allowed while a removal is under way.
LeaveReview ==
  /\ stage.name = "review" /\ ~DeployBusy /\ stage' = Pick /\ deploy' = DeployIdle
  /\ UNCHANGED <<formVars, cards, runVars, chainVars, listed, records>>

\* The signer list is read again.
ListPolicySigners == /\ listed' = attachedPolicies
               /\ UNCHANGED <<formVars, stage, cards, deploy, runVars, chainVars, records>>

-----------------------------------------------------------------------------
(* Overlapping scopes.                                                     *)

PolicyDomains(d) ==
  CASE d.type = "spending_limit" ->
         {<<"spend">>} \cup {<<"spend", d.caps[i].token>> : i \in DOMAIN d.caps}
           \cup {<<"contracts", t>> : t \in ToSet(d.allowed)}
    [] d.type = "contract_allowlist" -> {<<"contracts", t>> : t \in ToSet(d.contracts)}
    [] d.type = "verified_only" -> {<<"provenance">>}
    [] OTHER -> {<<"auth">>}

FindScopeConflicts(d) == {c \in listed \cap DOMAIN records : PolicyDomains(d) \cap PolicyDomains(records[c]) # {}}

WebPolicyNext ==
  \/ LoadTemplates \/ BackToPick \/ ValidateAnswers \/ GenerateAnswers \/ RunDeploy \/ RunDetach \/ LeaveReview \/ ListPolicySigners
  \/ \E form \in Forms : PickTemplate(form) \/ SubmitForm(form)
  \/ \E run \in deploys : \/ SimulateAnswers(run) \/ InstanceDeployed(run) \/ AttachAnswers(run)
                          \/ RecordAnswers(run) \/ DeployFails(run)
  \/ \E run \in detaches : DetachAnswers(run) \/ RemovalEnds(run)

-----------------------------------------------------------------------------
(* Properties.                                                             *)

\* Whether a limit typed into the form lets a single transfer through, compared as decimals: digits of the
\* amount against digits of the field, without the code's conversions.
Within(amount, x) == amount * Tens[Len(x.frac)] <= (x.whole * Tens[Len(x.frac)] + Digits(x.frac)) * Tens[Decimals]

\* What the labels of the form say: every limit that is typed bounds a transfer, and so do the cap and the list.
Promised(form, token, amount) ==
  /\ \A x \in {form.daily, form.perTx} \ {Blank} : Within(amount, x)
  /\ token = form.capToken /\ form.cap # Blank => Within(amount, form.cap)
  /\ form.allowed # <<>> => token \in ToSet(form.allowed)

\* The part of it that is claimed of the contract: a per-transaction limit typed beside a daily one is
\* "authoring metadata only" (templates.ts:426-428).
Claimed(form) ==
  [daily |-> form.daily, perTx |-> IF form.daily = Blank THEN form.perTx ELSE Blank,
   capToken |-> form.capToken, cap |-> form.cap, allowed |-> form.allowed]

Enforced(args, token, amount) ==
  /\ amount <= args.limit
  /\ \A i \in DOMAIN args.caps : args.caps[i].token = token => amount <= args.caps[i].amount
  /\ args.allowed # <<>> => token \in ToSet(args.allowed)

\* A policy that became a signer of the account refuses no single transfer that all the limits typed into the
\* form allow, and lets none through that the daily limit, a per-transaction limit typed alone, the cap or the
\* list of tokens forbids, whichever fields were left out (page.tsx buildDefinition, templates.ts
\* deriveSpendingConstructor); the card says "attached" only of a contract that is a signer, whatever other
\* run of the card was under way; and what this browser remembers of a contract, from which later overlaps
\* are found, is what was deployed.
PolicyAsReviewed ==
  /\ \A c \in attachedPolicies : \A token \in TokenIds, amount \in Probes :
       /\ Promised(instances[c].form, token, amount) => Enforced(instances[c].args, token, amount)
       /\ Enforced(instances[c].args, token, amount) => Promised(Claimed(instances[c].form), token, amount)
  /\ deploy.name = "done" => deploy.contract \in attachedPolicies
  /\ \A c \in DOMAIN records : records[c] = instances[c].definition

\* Claims that are not kept.  page.tsx:346 "Per-transaction limit (XLM, optional)": one typed beside a daily
\* limit is shown in the reviewed definition, and no contract enforces it.
PerTxEnforced ==
  \A c \in attachedPolicies : \A token \in TokenIds, amount \in Probes :
    Enforced(instances[c].args, token, amount) => Promised(instances[c].form, token, amount)

\* page.tsx:674 "Policy removed": shown on the hash of a transaction that may still fail.
RemovedMeansDetached == deploy.name = "detached" => deploy.contract \notin attachedPolicies

\* page.tsx:515 "Scope overlap with an already-attached policy (#570): warn before the passkey step": when the
\* passkey is asked to attach a policy, a policy already attached with which it overlaps is in the warning.
WarnedBeforePasskey ==
  [][\A run \in deploys : AttachAnswers(run) =>
       {c \in attachedPolicies : PolicyDomains(run.policy.definition) \cap PolicyDomains(instances[c].definition) # {}}
         \subseteq FindScopeConflicts(run.policy.definition)]_policyVars
=============================================================================
