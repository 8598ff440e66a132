---------------------------- MODULE PolicyService ----------------------------
(***************************************************************************)
(* The routes of the policy service that change a policy record, with the  *)
(* deployer that creates the contract and the verification of its attach   *)
(* (server.ts, deployment.ts, deploy.ts, verify-attach.ts, validation.ts). *)
(*                                                                         *)
(* Records are rows in Postgres: a handler finds a copy, awaits the budget *)
(* and the network, and writes the whole row back.  A request that is      *)
(* refused before its first write leaves no trace and is not a step.       *)
(***************************************************************************)
EXTENDS Naturals, FiniteSets

CONSTANTS Policies, Handlers, Wallets, Contracts, Txs,
          DeployBudget   \* deploys the spend budget allows in its window

ASSUME ServiceConstants ==
  /\ IsFiniteSet(Handlers) /\ IsFiniteSet(Contracts) /\ DeployBudget \in Nat
  /\ "none" \notin Policies

NoInstance == [contract |-> "none", wallet |-> "none"]
NoTx       == "none"
NoRow      == [status |-> "absent", type |-> "none", instance |-> NoInstance,
               tx |-> NoTx, via |-> "none"]
Idle       == [at |-> "idle", policy |-> "none", wallet |-> "none", rec |-> NoRow, by |-> "none"]

VARIABLES
  row,       \* row[p]: the record of policy p
  handler,   \* handler[h]: where handler h is, and its copy of the record
  ledger,    \* ledger[k]: the contract deployed under id k, with who paid
  txs,       \* txs[t]: an attach transaction of some wallet, as the network knows it
  charged    \* deploys charged to the budget

serviceVars == <<row, handler, ledger, txs, charged>>

Unused    == [wasm |-> "none", policy |-> "none", wallet |-> "none", payer |-> "none"]
UnknownTx == [status |-> "NOT_FOUND", wallet |-> "none", contract |-> "none"]

ServiceInit ==
  /\ row = [p \in Policies |-> NoRow]
  /\ handler = [h \in Handlers |-> Idle]
  /\ ledger = [k \in Contracts |-> Unused]
  /\ txs = [t \in Txs |-> UnknownTx]
  /\ charged = 0

----------------------------------------------------------------------------
(* Templates: what enforces a policy type, and what its constructor takes.  *)

Types == {"single_owner", "spending_limit", "verified_only"}

EnforcedBy(type) ==
  CASE type = "spending_limit" -> "spending"
    [] type = "verified_only" -> "verified"
    [] OTHER -> "none"

\* constructorScVals builds the arguments of the template's own contract ...
ConstructorArgsFor(type) == EnforcedBy(type)

\* ... while the deployer is created once, for the spending-limit contract.
DeployerWasm == "spending"

\* The network runs the constructor: arguments of another contract fail in
\* simulation.
ConstructorAccepts(wasm, args) == wasm = args

\* validatePolicyForDeployment: contract-enforced, with constructor arguments.
Deployable(rec) == EnforcedBy(rec.type) # "none"

----------------------------------------------------------------------------
(* Generating.                                                              *)

\* POST /policies/generate (and the administrator's): one valid definition.
Generate(p, type) ==
  /\ row[p] = NoRow
  /\ row' = [row EXCEPT ![p] = [NoRow EXCEPT !.status = "generated", !.type = type]]
  /\ UNCHANGED <<handler, ledger, txs, charged>>

\* POST /policies/batch: every item is inserted on its own, and one that is
\* invalid or fails to insert leaves the others alone.
GenerateBatch(items) ==
  /\ items # {} /\ \A i \in items : row[i[1]] = NoRow
  /\ \A i, j \in items : i[1] = j[1] => i = j
  /\ row' = [p \in Policies |->
        IF \E i \in items : i[1] = p
        THEN [NoRow EXCEPT !.status = "generated",
                           !.type = (CHOOSE i \in items : i[1] = p)[2]]
        ELSE row[p]]
  /\ UNCHANGED <<handler, ledger, txs, charged>>

----------------------------------------------------------------------------
(* Deploying an instance.                                                   *)

Begin(h, at, p, w, by) ==
  /\ handler[h] = Idle /\ row[p] # NoRow
  /\ handler' = [handler EXCEPT ![h] =
       [at |-> at, policy |-> p, wallet |-> w, rec |-> row[p], by |-> by]]

\* POST /policies/:id/deploy-instance: a record with an instance is answered
\* at once.
DeployInstance(h, p, w) ==
  /\ row[p].instance = NoInstance /\ Deployable(row[p])
  /\ Begin(h, "charge", p, w, "budget")
  /\ UNCHANGED <<row, ledger, txs, charged>>

\* The administrator's route has the same checks and no budget.
AdminDeployInstance(h, p, w) ==
  /\ row[p].instance = NoInstance /\ Deployable(row[p])
  /\ Begin(h, "send", p, w, "admin")
  /\ UNCHANGED <<row, ledger, txs, charged>>

Finish(h) == handler' = [handler EXCEPT ![h] = Idle]

\* Mutant: an error of the budget lets the deployment through.
ChargeFailsOpen(h) ==
  /\ handler[h].at = "charge"
  /\ handler' = [handler EXCEPT ![h].at = "send"]
  /\ UNCHANGED <<row, ledger, txs, charged>>

\* deployPolicyInstance, the budget: a refusal or an error of the budget ends
\* the request.
Charge(h) ==
  /\ handler[h].at = "charge"
  /\ \/ /\ charged < DeployBudget
        /\ charged' = charged + 1
        /\ handler' = [handler EXCEPT ![h].at = "send"]
     \/ Finish(h) /\ UNCHANGED charged
  /\ UNCHANGED <<row, ledger, txs>>

\* deployInstance of the deployer: prepare, sign, send and poll.  It fails
\* before anything is sent, or the contract is created and the answer comes in
\* time, or the contract is created and the answer is lost to a timeout.
DeployOnChain(h, k) ==
  LET me == handler[h] IN
  /\ me.at = "send"
  /\ \/ Finish(h) /\ UNCHANGED ledger
     \/ /\ ConstructorAccepts(DeployerWasm, ConstructorArgsFor(me.rec.type))
        /\ ledger[k] = Unused
        /\ ledger' = [ledger EXCEPT ![k] =
             [wasm |-> DeployerWasm, policy |-> me.policy, wallet |-> me.wallet, payer |-> me.by]]
        /\ \/ handler' = [handler EXCEPT ![h].at = "write",
                 ![h].rec.status = "instance_deployed",
                 ![h].rec.instance = [contract |-> k, wallet |-> me.wallet]]
           \/ Finish(h)
  /\ UNCHANGED <<row, txs, charged>>

\* reconcileOrphanedDeployment: records a contract that was deployed for the
\* policy (the error of the failed commit names it), unless the record knows
\* it already.
Reconcile(h, p, k) ==
  /\ handler[h] = Idle /\ row[p] # NoRow /\ ledger[k].policy = p
  /\ ~(row[p].status \in {"instance_deployed", "deployed"} /\ row[p].instance.contract = k)
  /\ handler' = [handler EXCEPT ![h] =
       [Idle EXCEPT !.at = "write", !.policy = p,
          !.rec = [row[p] EXCEPT !.status = "instance_deployed",
                                 !.instance = [contract |-> k, wallet |-> ledger[k].wallet]]]]
  /\ UNCHANGED <<row, ledger, txs, charged>>

----------------------------------------------------------------------------
(* Recording the attach.                                                    *)

\* Mutant: any successful transaction will do.
AttachesAnySuccess(t, instance) == txs[t].status = "SUCCESS"

\* verifyAttachTx: the transaction succeeded, calls the wallet's add_signer
\* or update_signer, and names the policy contract among its arguments.
Attaches(t, instance) ==
  txs[t] = [status |-> "SUCCESS", wallet |-> instance.wallet, contract |-> instance.contract]

\* POST /policies/deploy reads the record ...
RecordAttach(h, p) ==
  /\ row[p].instance # NoInstance
  /\ Begin(h, "verify", p, "none", "none")
  /\ UNCHANGED <<row, ledger, txs, charged>>

\* ... and verifies the transaction against that copy: not found, failed, or
\* something else ends the request (503, 422).
VerifyAndRecordAttach(h, t) ==
  /\ handler[h].at = "verify"
  /\ \/ /\ Attaches(t, handler[h].rec.instance)
        /\ handler' = [handler EXCEPT ![h].at = "write", ![h].rec.status = "deployed",
                                      ![h].rec.tx = t, ![h].rec.via = "verified"]
     \/ Finish(h)
  /\ UNCHANGED <<row, ledger, txs, charged>>

\* The administrator's route stamps the record as it is told.
AdminRecordAttach(h, p, t) ==
  /\ handler[h] = Idle /\ row[p] # NoRow
  /\ handler' = [handler EXCEPT ![h] =
       [Idle EXCEPT !.at = "write", !.policy = p,
          !.rec = [row[p] EXCEPT !.status = "deployed", !.tx = t, !.via = "admin"]]]
  /\ UNCHANGED <<row, ledger, txs, charged>>

\* policies.update: the whole row, from the copy; it may fail, which leaves a
\* deployed contract unrecorded.
Update(h) ==
  /\ handler[h].at = "write"
  /\ Finish(h)
  /\ \/ row' = [row EXCEPT ![handler[h].policy] = handler[h].rec]
     \/ UNCHANGED row
  /\ UNCHANGED <<ledger, txs, charged>>

\* A wallet submits an attach of some contract; it confirms or fails.
WalletAttaches(t, w, k, status) ==
  /\ txs[t] = UnknownTx /\ ledger[k] # Unused
  /\ txs' = [txs EXCEPT ![t] = [status |-> status, wallet |-> w, contract |-> k]]
  /\ UNCHANGED <<row, handler, ledger, charged>>

\* The process dies: every handler is gone, rows and ledger stay.
ServiceCrash ==
  /\ \E h \in Handlers : handler[h] # Idle
  /\ handler' = [h \in Handlers |-> Idle]
  /\ UNCHANGED <<row, ledger, txs, charged>>

ServiceNext ==
  \/ \E p \in Policies, type \in Types : Generate(p, type)
  \/ \E items \in SUBSET (Policies \X Types) : GenerateBatch(items)
  \/ \E h \in Handlers, p \in Policies :
        \/ RecordAttach(h, p)
        \/ \E w \in Wallets : DeployInstance(h, p, w) \/ AdminDeployInstance(h, p, w)
        \/ \E k \in Contracts : Reconcile(h, p, k)
        \/ \E t \in Txs : AdminRecordAttach(h, p, t)
  \/ \E h \in Handlers :
        \/ Charge(h) \/ Update(h)
        \/ \E k \in Contracts : DeployOnChain(h, k)
        \/ \E t \in Txs : VerifyAndRecordAttach(h, t)
  \/ \E t \in Txs, w \in Wallets, k \in Contracts, s \in {"SUCCESS", "FAILED"} :
        WalletAttaches(t, w, k, s)
  \/ ServiceCrash

----------------------------------------------------------------------------

\* A record marked deployed through the public route names a transaction that
\* did attach the instance in the same record to its wallet, and an instance
\* is a contract on the ledger that runs the code of the record's template,
\* whichever copies concurrent handlers write over each other.
RecordMatchesChain ==
  \A p \in Policies :
    /\ row[p].status = "deployed" /\ row[p].via = "verified" =>
         txs[row[p].tx] = [status |-> "SUCCESS", wallet |-> row[p].instance.wallet,
                           contract |-> row[p].instance.contract]
    /\ row[p].instance # NoInstance =>
         ledger[row[p].instance.contract] =
           [ledger[row[p].instance.contract] EXCEPT
              !.wasm = EnforcedBy(row[p].type), !.wallet = row[p].instance.wallet]

\* Every contract the public route had the sponsor pay for was charged to the
\* budget before it was sent, also when two requests for one policy race, the
\* answer is lost, the commit fails or the service dies.
DeploysMetered ==
  Cardinality({k \in Contracts : ledger[k].payer = "budget"})
    + Cardinality({h \in Handlers : handler[h].at = "send" /\ handler[h].by = "budget"})
  <= charged

\* At most one contract is ever deployed for a policy through the public
\* route: the handler returns an existing instance "rather than spending
\* another deploy" (server.ts:401).
OneDeployPerPolicy ==
  Cardinality({k \in Contracts : ledger[k].payer = "budget"}) <= Cardinality({p \in Policies : row[p] # NoRow})
=============================================================================
