--------------------------- MODULE WebProvenance ---------------------------
(***************************************************************************)
(* Provenance in the web app: the verification page, which submits         *)
(* contracts and looks up their history (app/verify/page.tsx, and the two  *)
(* read routes of verification-service), and the settings card that turns  *)
(* provenance checks on for an account (settings/provenance-card.tsx,      *)
(* lib/provenance.ts).                                                     *)
(***************************************************************************)
EXTENDS Integers, FiniteSets, Sequences

CONSTANTS Sources,          \* contracts a user may look up or submit
          PublisherLists,   \* what splitting the publishers field gives
          MaxAttempts, MaxLookups, MaxPolicies

VARIABLES
  history,      \* contract |-> its records' statuses, newest first
  typed,        \* the address in the explorer's field: a contract, or "bad"
  lookups,      \* requests under way, a bag: contract |-> how many
  asked,        \* requests so far
  shown,        \* what the explorer shows: [kind, of, statuses]
  sending,      \* the submit form: [step, contract]
  pref,         \* localStorage's preference: [mode, publishers, contract], 0 for no contract
  chosen,       \* the mode selected in the card
  modeCard,         \* the card's state: [step, contract, mode, publishers]
  fits,         \* whether policy-service's deployer holds the provenance policy's code: index.ts gives it the spending policy's
  policies,     \* deployed provenance policies: [mode, publishers]
  installed,    \* those that are signers of the account
  landed,       \* those whose attach transaction succeeded
  signerList    \* the signer list the card has

verifyVars == <<history, typed, lookups, asked, shown, sending>>
modeVars   == <<pref, chosen, modeCard, fits, policies, installed, landed, signerList>>
provVars   == <<verifyVars, modeVars>>

Nothing   == [kind |-> "nothing", of |-> "none", statuses |-> <<>>]
Off       == [mode |-> "off", publishers |-> <<>>, contract |-> 0]
CardIdle  == [step |-> "idle", contract |-> 0, mode |-> "off", publishers |-> <<>>]
OnChain   == {"strict", "trusted_publishers"}
Active(c) == \E i \in DOMAIN history[c] : history[c][i] \in {"submitted", "building"}

ProvInit ==
  /\ history = [c \in Sources |-> <<>>] /\ typed = "bad" /\ lookups = [c \in Sources |-> 0] /\ asked = 0
  /\ shown = Nothing /\ sending = [step |-> "form", contract |-> "none"]
  /\ pref = Off /\ chosen = "off" /\ modeCard = CardIdle /\ fits \in BOOLEAN
  /\ policies = <<>> /\ installed = {} /\ landed = {} /\ signerList = {}

-----------------------------------------------------------------------------
(* The verification page.                                                  *)

Type(address) == /\ typed # address /\ typed' = address
                 /\ UNCHANGED <<history, lookups, asked, shown, sending, modeVars>>

\* Enter starts a lookup even while one is under way.
Lookup ==
  /\ asked < MaxLookups /\ asked' = asked + 1
  /\ shown' = IF typed = "bad" THEN [Nothing EXCEPT !.kind = "error"] ELSE Nothing
  /\ lookups' = IF typed = "bad" THEN lookups ELSE [lookups EXCEPT ![typed] = @ + 1]
  /\ UNCHANGED <<history, typed, sending, modeVars>>

\* The middleware in front of the history route wants a payment; the web client carries none.
PaymentGate == {TRUE, FALSE}

\* The route answers with every record of the contract, newest first.
HistoryOf(c) == history[c]

\* Whichever answer comes last is shown.
HistoryAnswers(c) ==
  /\ lookups[c] > 0 /\ lookups' = [lookups EXCEPT ![c] = @ - 1]
  /\ \E passed \in PaymentGate :
       shown' = IF passed THEN [kind |-> "records", of |-> c, statuses |-> HistoryOf(c)] ELSE [Nothing EXCEPT !.kind = "error"]
  /\ UNCHANGED <<history, typed, asked, sending, modeVars>>

SubmitContract(c) ==
  /\ sending.step # "busy" /\ sending' = [step |-> "busy", contract |-> c]
  /\ UNCHANGED <<history, typed, lookups, asked, shown, modeVars>>

\* The route refuses a contract with an active record; a new record comes first.
SubmitAnswers ==
  /\ sending.step = "busy"
  /\ \/ /\ ~Active(sending.contract) /\ Len(history[sending.contract]) < MaxAttempts
        /\ history' = [history EXCEPT ![sending.contract] = <<"submitted">> \o @]
        /\ sending' \in {[sending EXCEPT !.step = s] : s \in {"received", "error"}}
     \/ sending' = [sending EXCEPT !.step = "error"] /\ UNCHANGED history
  /\ UNCHANGED <<typed, lookups, asked, shown, modeVars>>

\* The worker builds the newest record and reports on it (VerificationJobs models it).
WorkerReports(c, status) ==
  /\ Active(c) /\ history' = [history EXCEPT ![c] = [@ EXCEPT ![1] = status]]
  /\ UNCHANGED <<typed, lookups, asked, shown, sending, modeVars>>

-----------------------------------------------------------------------------
(* The provenance card.                                                    *)

ModeBusy == modeCard.step \notin {"idle", "done", "error", "dismissed"}
AttachedOnChain == pref.contract # 0 /\ pref.contract \in signerList
EnforcementLost == pref.mode \in OnChain /\ ~AttachedOnChain

\* Reading the preference again when the page is opened.
OpenCard == /\ ~ModeBusy /\ chosen' = pref.mode /\ modeCard' = CardIdle
            /\ UNCHANGED <<verifyVars, pref, fits, policies, installed, landed, signerList>>

Choose(mode) == /\ ~ModeBusy /\ chosen # mode /\ chosen' = mode
                /\ UNCHANGED <<verifyVars, pref, modeCard, fits, policies, installed, landed, signerList>>

\* Off and warn are kept by the browser alone: a policy attached before stays attached, and is forgotten.
ApplyClientMode ==
  /\ ~ModeBusy /\ chosen # pref.mode /\ chosen \in {"off", "warn"}
  /\ pref' = [Off EXCEPT !.mode = chosen] /\ modeCard' = CardIdle
  /\ UNCHANGED <<verifyVars, chosen, fits, policies, installed, landed, signerList>>

Generate(publishers) ==
  /\ ~ModeBusy /\ chosen # pref.mode /\ chosen \in OnChain /\ Len(policies) < MaxPolicies
  /\ modeCard' = IF chosen = "trusted_publishers" /\ publishers = <<>> THEN [CardIdle EXCEPT !.step = "error"]
             ELSE [step |-> "generating", contract |-> 0, mode |-> chosen,
                   publishers |-> IF chosen = "strict" THEN <<>> ELSE publishers]
  /\ UNCHANGED <<verifyVars, pref, chosen, fits, policies, installed, landed, signerList>>

\* validatePolicy, generatePolicy, the dry run and deployInstance.
DeployAnswers ==
  /\ modeCard.step = "generating" /\ fits
  /\ policies' = Append(policies, [mode |-> modeCard.mode, publishers |-> modeCard.publishers])
  /\ modeCard' = [step |-> "approving", contract |-> Len(policies) + 1, mode |-> modeCard.mode,
                  publishers |-> modeCard.publishers]
  /\ UNCHANGED <<verifyVars, pref, chosen, fits, installed, landed, signerList>>

\* The passkey signs; the submission is answered before it is known whether the transaction succeeds.
ModeAttached ==
  /\ modeCard.step = "approving" /\ modeCard' = [modeCard EXCEPT !.step = "confirming"]
  /\ \E ok \in BOOLEAN : /\ landed' = IF ok THEN landed \cup {modeCard.contract} ELSE landed
                         /\ installed' = IF ok THEN installed \cup {modeCard.contract} ELSE installed
  /\ UNCHANGED <<verifyVars, pref, chosen, fits, policies, signerList>>

DismissMode == /\ modeCard.step = "approving" /\ modeCard' = [modeCard EXCEPT !.step = "dismissed"]
           /\ UNCHANGED <<verifyVars, pref, chosen, fits, policies, installed, landed, signerList>>

\* Mutant: keeps the preference as soon as the submission is answered.
SeenOnChainAlways == TRUE

\* recordDeployment and trackTransaction ask whether the transaction succeeded.
SeenOnChain == modeCard.contract \in landed

Confirm ==
  /\ modeCard.step = "confirming" /\ SeenOnChain
  /\ pref' = [mode |-> modeCard.mode, publishers |-> modeCard.publishers, contract |-> modeCard.contract]
  /\ modeCard' = [modeCard EXCEPT !.step = "done"]
  /\ UNCHANGED <<verifyVars, chosen, fits, policies, installed, landed, signerList>>

\* Any call fails or loses its answer; the attach may have succeeded all the same.
ModeFails ==
  /\ ModeBusy /\ modeCard' = [modeCard EXCEPT !.step = "error"]
  /\ \E ok \in (IF modeCard.step = "approving" THEN BOOLEAN ELSE {FALSE}) :
       /\ landed' = IF ok THEN landed \cup {modeCard.contract} ELSE landed
       /\ installed' = IF ok THEN installed \cup {modeCard.contract} ELSE installed
  /\ UNCHANGED <<verifyVars, pref, chosen, fits, policies, signerList>>

\* From the signer list, here or on another device; the list is read again on focus.
DetachElsewhere(c) == /\ installed' = installed \ {c}
                      /\ UNCHANGED <<verifyVars, pref, chosen, modeCard, fits, policies, landed, signerList>>

RefreshSigners == /\ signerList' = installed
                  /\ UNCHANGED <<verifyVars, pref, chosen, modeCard, fits, policies, installed, landed>>

VerifyNext ==
  \/ Lookup \/ SubmitAnswers
  \/ \E a \in Sources \cup {"bad"} : Type(a)
  \/ \E c \in Sources : HistoryAnswers(c) \/ SubmitContract(c)
  \/ \E c \in Sources, s \in {"building", "verified", "failed"} : WorkerReports(c, s)

ModeNext ==
  \/ OpenCard \/ ApplyClientMode \/ DeployAnswers \/ ModeAttached \/ DismissMode \/ Confirm \/ ModeFails \/ RefreshSigners
  \/ \E m \in {"off", "warn"} \cup OnChain : Choose(m)
  \/ \E l \in PublisherLists : Generate(l)
  \/ \E c \in installed : DetachElsewhere(c)

-----------------------------------------------------------------------------
\* An on-chain mode the card calls current is that of a policy of the same publishers whose attach transaction
\* succeeded, and so did that of a policy it says was attached; a dismissed approval attached nothing ("No policy
\* was attached", provenance-card.tsx:128).  On the verification page a finished record, once shown, stays as it
\* was shown: a badge may miss later attempts, but it never tells of a verdict the contract's history does not
\* hold, and a submission called received is in that history.
ProvenanceShownTrue ==
  /\ pref.mode \in OnChain =>
       /\ pref.contract \in landed
       /\ policies[pref.contract] = [mode |-> pref.mode, publishers |-> pref.publishers]
  /\ modeCard.step = "done" => modeCard.contract \in landed
  /\ modeCard.step = "dismissed" => modeCard.contract \notin landed
  /\ shown.kind = "records" =>
       LET now   == history[shown.of]
           later == Len(now) - Len(shown.statuses)
       IN  later >= 0 /\ \A i \in DOMAIN shown.statuses :
             shown.statuses[i] \in {"verified", "failed"} => now[i + later] = shown.statuses[i]
  /\ sending.step = "received" => history[sending.contract] # <<>>

\* page.tsx:35 "Check whether a deployed contract's on-chain code matches published source": the records shown
\* are those of the address in the field.  Answers that arrive out of order, and an address typed after one,
\* break it.
ShownIsTyped == shown.kind = "records" => shown.of = typed

\* provenance-card.tsx:221 "The provenance policy is no longer attached to this account (detached here or from
\* another device), so nothing is enforced on-chain right now".  The preference is kept before the signer list is
\* read again: the card says so of a policy it has just attached.
LostMeansDetached == EnforcementLost => pref.contract \notin installed
=============================================================================
