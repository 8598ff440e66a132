--------------------------- MODULE ServicesProofs ---------------------------
(***************************************************************************)
(* The parts of MCServices, for every value of their constants: what       *)
(* policy-service says of its deployments is true, its queues implement    *)
(* BoundedRetry, the guards hold and a release is safe.  Each part has an  *)
(* inductive invariant of its own; a step of MCServices moves one part and *)
(* leaves the others alone.                                                *)
(***************************************************************************)
EXTENDS MCServices, FiniteSetTheorems, WellFoundedInduction, TLAPS

allVars == <<part, policyState, sharedState>>

-----------------------------------------------------------------------------
(* policy-service: records, handlers and the chain.                         *)

Instance == [contract : Contracts \cup {"none"}, wallet : Wallets \cup {"none"}]
Steps == {"idle", "charge", "send", "verify", "write"}
Payers == {"none", "budget", "admin"}
Rec == [status : {"absent", "generated", "instance_deployed", "deployed"}, type : Types \cup {"none"}, instance : Instance,
        tx : Txs \cup {"none"}, via : {"none", "verified", "admin"}]
HandlerState == [at : Steps, policy : Policies \cup {"none"}, wallet : Wallets \cup {"none"},
                 rec : Rec, by : Payers]
Deployed == [wasm : {"none", "spending", "verified"}, policy : Policies \cup {"none"}, wallet : Wallets \cup {"none"},
             payer : Payers]
TxState == [status : {"NOT_FOUND", "SUCCESS", "FAILED"}, wallet : Wallets \cup {"none"}, contract : Contracts \cup {"none"}]

ServiceTypeOK ==
  /\ row \in [Policies -> Rec]
  /\ handler \in [Handlers -> HandlerState]
  /\ ledger \in [Contracts -> Deployed]
  /\ txs \in [Txs -> TxState]
  /\ charged \in Nat

\* What a record says is so on the chain, wherever a copy of it is held.
GoodRec(rec) ==
  /\ rec.status = "deployed" /\ rec.via = "verified" =>
       /\ rec.tx \in Txs
       /\ txs[rec.tx] = [status |-> "SUCCESS", wallet |-> rec.instance.wallet,
                         contract |-> rec.instance.contract]
  /\ rec.instance # NoInstance =>
       /\ rec.instance.contract \in Contracts
       /\ ledger[rec.instance.contract] # Unused
       /\ ledger[rec.instance.contract].wasm = EnforcedBy(rec.type)
       /\ ledger[rec.instance.contract].wallet = rec.instance.wallet

\* A handler works on a record that exists, whose type it copied.
Sane(s) ==
  /\ GoodRec(s.rec)
  /\ s.at # "idle" => /\ s.policy \in Policies /\ row[s.policy].type \in Types
                      /\ s.rec.type = row[s.policy].type

\* A contract was deployed for a policy that exists, with the code of its type.
Founded(k) ==
  ledger[k] # Unused =>
    /\ ledger[k].policy \in Policies /\ row[ledger[k].policy].type \in Types
    /\ ledger[k].wasm = EnforcedBy(row[ledger[k].policy].type)

ServiceInv ==
  /\ ServiceTypeOK
  /\ \A p \in Policies : GoodRec(row[p]) /\ (row[p] # NoRow => row[p].type \in Types)
  /\ \A h \in Handlers : Sane(handler[h])
  /\ \A k \in Contracts : Founded(k)

LEMMA NothingTypes ==
  /\ NoInstance \in Instance /\ NoRow \in Rec /\ Idle \in HandlerState
  /\ Unused \in Deployed /\ UnknownTx \in TxState
  /\ NoRow.type = "none" /\ NoRow.instance = NoInstance /\ NoRow.status = "absent"
  /\ Idle.at = "idle" /\ Idle.rec = NoRow
<1>1. NoInstance \in Instance
  BY DEF NoInstance, Instance
<1>2. NoRow \in Rec
  BY <1>1 DEF NoRow, NoTx, Rec
<1>3. Idle \in HandlerState
  BY <1>2 DEF Idle, HandlerState, Steps, Payers
<1> QED
  BY <1>1, <1>2, <1>3 DEF Unused, UnknownTx, Deployed, TxState, NoRow, Idle, Payers

LEMMA NoRowGood == GoodRec(NoRow)
  BY NothingTypes DEF GoodRec

LEMMA InitService == ServiceInit => ServiceInv
<1> SUFFICES ASSUME ServiceInit PROVE ServiceInv
  OBVIOUS
<1>1. ServiceTypeOK
  BY NothingTypes DEF ServiceInit, ServiceTypeOK
<1>2. \A h \in Handlers : Sane(handler[h])
  BY NothingTypes, NoRowGood DEF ServiceInit, Sane
<1> QED
  BY <1>1, <1>2, NothingTypes, NoRowGood DEF ServiceInit, ServiceInv, Founded

\* The network forgets nothing: what a record says stays true.
LEMMA GoodRecKept ==
  ASSUME NEW rec, GoodRec(rec),
         \A k \in Contracts : ledger[k] # Unused => ledger'[k] = ledger[k],
         \A t \in Txs : txs[t] # UnknownTx => txs'[t] = txs[t]
  PROVE  /\ rec.status = "deployed" /\ rec.via = "verified" =>
              /\ rec.tx \in Txs
              /\ txs'[rec.tx] = [status |-> "SUCCESS", wallet |-> rec.instance.wallet,
                                 contract |-> rec.instance.contract]
         /\ rec.instance # NoInstance =>
              /\ rec.instance.contract \in Contracts
              /\ ledger'[rec.instance.contract] # Unused
              /\ ledger'[rec.instance.contract].wasm = EnforcedBy(rec.type)
              /\ ledger'[rec.instance.contract].wallet = rec.instance.wallet
<1>1. [status |-> "SUCCESS", wallet |-> rec.instance.wallet, contract |-> rec.instance.contract] # UnknownTx
  BY DEF UnknownTx
<1> QED
  BY <1>1 DEF GoodRec

\* A handler goes from one sane state to another and touches nothing else.
LEMMA HandlerMoves ==
  ASSUME ServiceInv, NEW h \in Handlers, NEW s \in HandlerState, Sane(s),
         handler' = [handler EXCEPT ![h] = s], UNCHANGED <<row, ledger, txs>>, charged' \in Nat
  PROVE  ServiceInv'
<1>1. ServiceTypeOK'
  BY DEF ServiceInv, ServiceTypeOK
<1>2. \A g \in Handlers : handler'[g] = IF g = h THEN s ELSE handler[g]
  BY DEF ServiceInv, ServiceTypeOK
<1>3. \A g \in Handlers : Sane(handler'[g])
  BY <1>2 DEF ServiceInv
<1>4. (\A g \in Handlers : Sane(handler[g]))'
  BY <1>3 DEF Sane, GoodRec
<1>5. (\A p \in Policies : GoodRec(row[p]) /\ (row[p] # NoRow => row[p].type \in Types))'
  BY DEF ServiceInv, GoodRec
<1>6. (\A k \in Contracts : Founded(k))'
  BY DEF ServiceInv, Founded
<1> QED
  BY <1>1, <1>4, <1>5, <1>6 DEF ServiceInv

LEMMA Finished == ASSUME ServiceInv, NEW h \in Handlers, Finish(h),
                         UNCHANGED <<row, ledger, txs>>, charged' \in Nat
                  PROVE  ServiceInv'
<1>1. Sane(Idle) /\ Idle \in HandlerState
  BY NothingTypes, NoRowGood DEF Sane
<1> QED
  BY <1>1, HandlerMoves DEF Finish

LEMMA Begun ==
  ASSUME ServiceInv, NEW h \in Handlers, NEW p \in Policies, NEW w \in Wallets \cup {"none"},
         NEW a \in Steps, NEW by \in Payers, Begin(h, a, p, w, by),
         UNCHANGED <<row, ledger, txs, charged>>
  PROVE  ServiceInv'
<1> DEFINE s == [at |-> a, policy |-> p, wallet |-> w, rec |-> row[p], by |-> by]
<1>1. row[p] \in Rec /\ row[p].type \in Types /\ GoodRec(row[p])
  BY DEF Begin, ServiceInv, ServiceTypeOK
<1>2. s \in HandlerState /\ s.rec = row[p] /\ s.policy = p
  BY <1>1 DEF HandlerState
<1>3. handler' = [handler EXCEPT ![h] = s] /\ charged' \in Nat
  BY DEF Begin, ServiceInv, ServiceTypeOK
<1> HIDE DEF s
<1>4. Sane(s)
  BY <1>1, <1>2 DEF Sane
<1> QED
  BY <1>2, <1>3, <1>4, HandlerMoves

\* New records are generated where there was none, and no handler is at one.
LEMMA GenerateKeeps ==
  ASSUME ServiceInv, row' \in [Policies -> Rec], UNCHANGED <<handler, ledger, txs, charged>>,
         \A p \in Policies :
           \/ row'[p] = row[p]
           \/ /\ row[p] = NoRow /\ row'[p].type \in Types
              /\ row'[p].instance = NoInstance /\ row'[p].status = "generated"
  PROVE  ServiceInv'
<1>1. ServiceTypeOK'
  BY DEF ServiceInv, ServiceTypeOK
<1>2. \A p \in Policies : row[p].type \in Types => row'[p] = row[p]
  BY NothingTypes DEF Types
<1>3. (\A p \in Policies : GoodRec(row[p]) /\ (row[p] # NoRow => row[p].type \in Types))'
  BY DEF ServiceInv, GoodRec
<1>4. (\A h \in Handlers : Sane(handler[h]))'
  BY <1>2 DEF ServiceInv, Sane, GoodRec
<1>5. (\A k \in Contracts : Founded(k))'
  BY <1>2 DEF ServiceInv, Founded
<1> QED
  BY <1>1, <1>3, <1>4, <1>5 DEF ServiceInv

LEMMA Fresh ==
  ASSUME NEW type \in Types
  PROVE  LET new == [NoRow EXCEPT !.status = "generated", !.type = type] IN
         /\ new \in Rec /\ new.type = type /\ new.instance = NoInstance /\ new.status = "generated"
  BY NothingTypes DEF NoRow, NoTx, Rec

LEMMA GenerateStep ==
  ASSUME ServiceInv, NEW p \in Policies, NEW type \in Types, Generate(p, type)
  PROVE  ServiceInv'
<1>1. row' = [row EXCEPT ![p] = [NoRow EXCEPT !.status = "generated", !.type = type]] /\ row[p] = NoRow
  BY DEF Generate
<1>2. row \in [Policies -> Rec]
  BY DEF ServiceInv, ServiceTypeOK
<1>3. row' \in [Policies -> Rec]
  BY <1>1, <1>2, Fresh
<1>4. \A q \in Policies :
        \/ row'[q] = row[q]
        \/ /\ row[q] = NoRow /\ row'[q].type \in Types
           /\ row'[q].instance = NoInstance /\ row'[q].status = "generated"
  BY <1>1, <1>2, Fresh
<1> QED
  BY <1>3, <1>4, GenerateKeeps DEF Generate

LEMMA BatchStep ==
  ASSUME ServiceInv, NEW items \in SUBSET (Policies \X Types), GenerateBatch(items)
  PROVE  ServiceInv'
<1> DEFINE Of(p) == CHOOSE i \in items : i[1] = p
           New(p) == [NoRow EXCEPT !.status = "generated", !.type = Of(p)[2]]
<1>1. ASSUME NEW p \in Policies, \E i \in items : i[1] = p
      PROVE  row[p] = NoRow /\ Of(p)[2] \in Types
  <2>1. Of(p) \in items /\ Of(p)[1] = p
    BY <1>1
  <2> QED
    BY <2>1 DEF GenerateBatch
<1>2. row' = [p \in Policies |-> IF \E i \in items : i[1] = p THEN New(p) ELSE row[p]]
  BY DEF GenerateBatch
<1> HIDE DEF Of
<1>3. ASSUME NEW p \in Policies, \E i \in items : i[1] = p
      PROVE  /\ New(p) \in Rec /\ New(p).type \in Types
             /\ New(p).instance = NoInstance /\ New(p).status = "generated"
  BY <1>1, <1>3, Fresh
<1> HIDE DEF New
<1>4. row \in [Policies -> Rec]
  BY DEF ServiceInv, ServiceTypeOK
<1>5. row' \in [Policies -> Rec]
  BY <1>2, <1>3, <1>4
<1>6. ASSUME NEW p \in Policies
      PROVE  \/ row'[p] = row[p]
             \/ /\ row[p] = NoRow /\ row'[p].type \in Types
                /\ row'[p].instance = NoInstance /\ row'[p].status = "generated"
  BY <1>1, <1>2, <1>3
<1> QED
  BY <1>5, <1>6, GenerateKeeps DEF GenerateBatch

\* An active handler's record, once more.
LEMMA AtWork ==
  ASSUME ServiceInv, NEW h \in Handlers, handler[h].at # "idle"
  PROVE  /\ handler[h] \in HandlerState /\ handler[h].rec \in Rec /\ GoodRec(handler[h].rec)
         /\ handler[h].policy \in Policies /\ row[handler[h].policy].type \in Types
         /\ handler[h].rec.type = row[handler[h].policy].type
<1>1. handler[h] \in HandlerState /\ Sane(handler[h])
  BY DEF ServiceInv, ServiceTypeOK
<1> QED
  BY <1>1 DEF Sane, HandlerState

LEMMA ChargeStep == ASSUME ServiceInv, NEW h \in Handlers, Charge(h) PROVE ServiceInv'
<1>1. CASE Finish(h) /\ UNCHANGED charged
  BY <1>1, Finished DEF Charge, ServiceInv, ServiceTypeOK
<1>2. CASE charged' = charged + 1 /\ handler' = [handler EXCEPT ![h].at = "send"]
  <2> DEFINE s == [handler[h] EXCEPT !.at = "send"]
  <2>1. handler[h].at = "charge"
    BY DEF Charge
  <2>2. s \in HandlerState /\ s.at = "send" /\ s.rec = handler[h].rec /\ s.policy = handler[h].policy
    BY <2>1, AtWork DEF HandlerState, Steps
  <2>3. handler' = [handler EXCEPT ![h] = s] /\ charged' \in Nat
    BY <1>2 DEF ServiceInv, ServiceTypeOK
  <2> HIDE DEF s
  <2>4. Sane(s)
    BY <2>1, <2>2, AtWork DEF Sane
  <2> QED
    BY <2>2, <2>3, <2>4, HandlerMoves DEF Charge
<1> QED
  BY <1>1, <1>2 DEF Charge

\* A contract appears under an id that was free.
LEMMA ContractAppears ==
  ASSUME ServiceInv, NEW h \in Handlers, NEW k \in Contracts, NEW s \in HandlerState, NEW d \in Deployed,
         ledger[k] = Unused, ledger' = [ledger EXCEPT ![k] = d],
         handler' = [handler EXCEPT ![h] = s], UNCHANGED <<row, txs, charged>>,
         Founded(k)', Sane(s)'
  PROVE  ServiceInv'
<1>1. ServiceTypeOK'
  BY DEF ServiceInv, ServiceTypeOK
<1>2. \A j \in Contracts : j # k => ledger'[j] = ledger[j]
  BY DEF ServiceInv, ServiceTypeOK
<1>3. (\A p \in Policies : GoodRec(row[p]) /\ (row[p] # NoRow => row[p].type \in Types))'
  <2> SUFFICES ASSUME NEW p \in Policies PROVE GoodRec(row[p])' /\ (row'[p] # NoRow => row'[p].type \in Types)
    OBVIOUS
  <2>1. GoodRec(row[p])
    BY DEF ServiceInv
  <2> QED
    BY <1>2, <2>1, GoodRecKept DEF ServiceInv, GoodRec
<1>4. ASSUME NEW g \in Handlers PROVE Sane(handler[g])'
  <2>1. CASE g = h
    <3>1. handler'[g] = s
      BY <2>1 DEF ServiceInv, ServiceTypeOK
    <3> QED
      BY <3>1 DEF Sane, GoodRec
  <2>2. CASE g # h
    <3>1. handler'[g] = handler[g] /\ Sane(handler[g])
      BY <2>2 DEF ServiceInv, ServiceTypeOK
    <3>2. GoodRec(handler[g].rec)
      BY <3>1 DEF Sane
    <3>3. GoodRec(handler[g].rec)'
      BY <1>2, <3>1, <3>2, GoodRecKept DEF GoodRec
    <3> QED
      BY <3>1, <3>3 DEF Sane
  <2> QED
    BY <2>1, <2>2
<1>5. (\A j \in Contracts : Founded(j))'
  BY <1>2 DEF ServiceInv, Founded
<1> QED
  BY <1>1, <1>3, <1>4, <1>5 DEF ServiceInv

LEMMA DeployStep ==
  ASSUME ServiceInv, NEW h \in Handlers, NEW k \in Contracts, DeployOnChain(h, k)
  PROVE  ServiceInv'
<1> DEFINE me == handler[h]
           d  == [wasm |-> DeployerWasm, policy |-> me.policy, wallet |-> me.wallet, payer |-> me.by]
<1>1. me.at = "send" /\ UNCHANGED <<row, txs, charged>>
  BY DEF DeployOnChain
<1>2. /\ me \in HandlerState /\ me.rec \in Rec /\ GoodRec(me.rec)
      /\ me.policy \in Policies /\ row[me.policy].type \in Types /\ me.rec.type = row[me.policy].type
  BY <1>1, AtWork
<1>3. CASE Finish(h) /\ UNCHANGED ledger
  BY <1>1, <1>3, Finished DEF ServiceInv, ServiceTypeOK
<1>4. CASE /\ ConstructorAccepts(DeployerWasm, ConstructorArgsFor(me.rec.type))
           /\ ledger[k] = Unused /\ ledger' = [ledger EXCEPT ![k] = d]
           /\ \/ handler' = [handler EXCEPT ![h].at = "write",
                   ![h].rec.status = "instance_deployed",
                   ![h].rec.instance = [contract |-> k, wallet |-> me.wallet]]
              \/ Finish(h)
  <2>1. d \in Deployed /\ d # Unused /\ d.wasm = EnforcedBy(me.rec.type) /\ d.policy = me.policy
        /\ d.wallet = me.wallet
    <3>1. "spending" = EnforcedBy(me.rec.type)
      BY <1>4 DEF ConstructorAccepts, ConstructorArgsFor, DeployerWasm
    <3>2. me.wallet \in Wallets \cup {"none"} /\ me.by \in Payers
      BY <1>2 DEF HandlerState
    <3> QED
      BY <1>2, <3>1, <3>2 DEF Deployed, Unused, DeployerWasm
  <2>2. ledger'[k] = d /\ row' = row
    BY <1>1, <1>4 DEF ServiceInv, ServiceTypeOK
  <2> HIDE DEF d
  <2>3. Founded(k)'
    BY <1>2, <2>1, <2>2 DEF Founded
  <2>4. CASE Finish(h)
    <3>1. Sane(Idle)' /\ Idle \in HandlerState
      BY NothingTypes DEF Sane, GoodRec
    <3> QED
      BY <1>1, <1>4, <2>1, <2>3, <2>4, <3>1, ContractAppears DEF Finish
  <2>5. CASE handler' = [handler EXCEPT ![h].at = "write",
               ![h].rec.status = "instance_deployed",
               ![h].rec.instance = [contract |-> k, wallet |-> me.wallet]]
    <3> DEFINE i == [contract |-> k, wallet |-> me.wallet]
               r == [me.rec EXCEPT !.status = "instance_deployed", !.instance = i]
               s == [me EXCEPT !.at = "write", !.rec = r]
    <3>1. i \in Instance /\ i.contract = k /\ i.wallet = me.wallet
      BY <1>2 DEF Instance, HandlerState
    <3> HIDE DEF i
    <3>2. r \in Rec /\ r.status = "instance_deployed" /\ r.instance = i /\ r.type = me.rec.type
      BY <1>2, <3>1 DEF Rec
    <3>3. handler' = [handler EXCEPT ![h] = [handler[h] EXCEPT !.at = "write", !.rec = r]]
      BY <2>5, <1>2 DEF ServiceInv, ServiceTypeOK, HandlerState, Rec, i
    <3> HIDE DEF r
    <3>4. s \in HandlerState /\ s.rec = r /\ s.at = "write" /\ s.policy = me.policy
      BY <1>2, <3>2 DEF HandlerState, Steps
    <3>5. handler' = [handler EXCEPT ![h] = s]
      BY <3>3
    <3>6. PICK z \in HandlerState : z = s
      BY <3>4
    <3>7. /\ z.at = "write" /\ z.policy = me.policy /\ z.rec.status = "instance_deployed"
          /\ z.rec.instance.contract = k /\ z.rec.instance.wallet = me.wallet
          /\ z.rec.type = me.rec.type
      BY <3>1, <3>2, <3>4, <3>6
    <3>8. Sane(z)'
      BY <1>2, <2>1, <2>2, <3>7 DEF Sane, GoodRec
    <3>9. handler' = [handler EXCEPT ![h] = z]
      BY <3>5, <3>6
    <3> QED
      BY <1>1, <1>4, <2>1, <2>3, <3>8, <3>9, ContractAppears
  <2> QED
    BY <1>4, <2>4, <2>5
<1> QED
  BY <1>1, <1>3, <1>4 DEF DeployOnChain

LEMMA ReconcileStep ==
  ASSUME ServiceInv, NEW h \in Handlers, NEW p \in Policies, NEW k \in Contracts, Reconcile(h, p, k)
  PROVE  ServiceInv'
<1> DEFINE i == [contract |-> k, wallet |-> ledger[k].wallet]
           r == [row[p] EXCEPT !.status = "instance_deployed", !.instance = i]
           s == [Idle EXCEPT !.at = "write", !.policy = p, !.rec = r]
<1>1. ledger[k] # Unused /\ ledger[k].wasm = EnforcedBy(row[p].type) /\ row[p].type \in Types
  BY ServiceConstants DEF Reconcile, ServiceInv, Founded, Unused
<1>2. row[p] \in Rec /\ ledger[k] \in Deployed /\ charged \in Nat
  BY DEF ServiceInv, ServiceTypeOK
<1>3. i \in Instance /\ i.contract = k /\ i.wallet = ledger[k].wallet
  BY <1>2 DEF Deployed, Instance
<1>4. handler' = [handler EXCEPT ![h] = s] /\ UNCHANGED <<row, ledger, txs, charged>>
  BY DEF Reconcile
<1> HIDE DEF i
<1>5. r \in Rec /\ r.status = "instance_deployed" /\ r.instance = i /\ r.type = row[p].type
  BY <1>2, <1>3 DEF Rec
<1> HIDE DEF r
<1>6. s \in HandlerState /\ s.rec = r /\ s.at = "write" /\ s.policy = p
  BY <1>5, NothingTypes DEF HandlerState, Steps
<1> HIDE DEF s
<1>7. Sane(s)
  BY <1>1, <1>3, <1>5, <1>6 DEF Sane, GoodRec
<1> QED
  BY <1>2, <1>4, <1>6, <1>7, HandlerMoves

LEMMA VerifyStep ==
  ASSUME ServiceInv, NEW h \in Handlers, NEW t \in Txs, VerifyAndRecordAttach(h, t)
  PROVE  ServiceInv'
<1> DEFINE me == handler[h]
           r == [me.rec EXCEPT !.status = "deployed", !.tx = t, !.via = "verified"]
           s == [me EXCEPT !.at = "write", !.rec = r]
<1>1. me.at = "verify" /\ UNCHANGED <<row, ledger, txs, charged>> /\ charged \in Nat
  BY DEF VerifyAndRecordAttach, ServiceInv, ServiceTypeOK
<1>2. /\ me \in HandlerState /\ me.rec \in Rec /\ GoodRec(me.rec)
      /\ me.policy \in Policies /\ row[me.policy].type \in Types /\ me.rec.type = row[me.policy].type
  BY <1>1, AtWork
<1>3. CASE Finish(h)
  BY <1>1, <1>3, Finished
<1>4. CASE /\ Attaches(t, me.rec.instance)
           /\ handler' = [handler EXCEPT ![h].at = "write", ![h].rec.status = "deployed",
                                         ![h].rec.tx = t, ![h].rec.via = "verified"]
  <2>1. /\ r \in Rec /\ r.tx = t /\ r.instance = me.rec.instance /\ r.type = me.rec.type
    BY <1>2 DEF Rec
  <2>2. handler' = [handler EXCEPT ![h] = [handler[h] EXCEPT !.at = "write", !.rec = r]]
    BY <1>4, <1>2 DEF ServiceInv, ServiceTypeOK, HandlerState, Rec
  <2>3. GoodRec(r)
    BY <1>2, <1>4, <2>1 DEF GoodRec, Attaches
  <2> HIDE DEF r
  <2>4. s \in HandlerState /\ s.rec = r /\ s.at = "write" /\ s.policy = me.policy
    BY <1>2, <2>1 DEF HandlerState, Steps
  <2>5. handler' = [handler EXCEPT ![h] = s]
    BY <2>2
  <2> HIDE DEF s
  <2>6. Sane(s)
    BY <1>2, <2>1, <2>3, <2>4 DEF Sane
  <2> QED
    BY <1>1, <2>4, <2>5, <2>6, HandlerMoves
<1> QED
  BY <1>3, <1>4 DEF VerifyAndRecordAttach

LEMMA AdminAttachStep ==
  ASSUME ServiceInv, NEW h \in Handlers, NEW p \in Policies, NEW t \in Txs, AdminRecordAttach(h, p, t)
  PROVE  ServiceInv'
<1> DEFINE r == [row[p] EXCEPT !.status = "deployed", !.tx = t, !.via = "admin"]
           s == [Idle EXCEPT !.at = "write", !.policy = p, !.rec = r]
<1>1. row[p] \in Rec /\ charged \in Nat /\ GoodRec(row[p]) /\ row[p].type \in Types
  BY DEF AdminRecordAttach, ServiceInv, ServiceTypeOK
<1>2. handler' = [handler EXCEPT ![h] = s] /\ UNCHANGED <<row, ledger, txs, charged>>
  BY DEF AdminRecordAttach
<1>3. /\ r \in Rec /\ r.via = "admin" /\ r.instance = row[p].instance /\ r.type = row[p].type
  BY <1>1 DEF Rec
<1> HIDE DEF r
<1>4. s \in HandlerState /\ s.rec = r /\ s.at = "write" /\ s.policy = p
  BY <1>3, NothingTypes DEF HandlerState, Steps
<1> HIDE DEF s
<1>5. Sane(s)
  BY <1>1, <1>3, <1>4 DEF Sane, GoodRec
<1> QED
  BY <1>1, <1>2, <1>4, <1>5, HandlerMoves

\* A handler writes its copy over whatever the row is now.
LEMMA UpdateStep == ASSUME ServiceInv, NEW h \in Handlers, Update(h) PROVE ServiceInv'
<1> DEFINE q == handler[h].policy
<1>1. handler[h].at = "write" /\ UNCHANGED <<ledger, txs, charged>> /\ charged \in Nat /\ Finish(h)
  BY DEF Update, ServiceInv, ServiceTypeOK
<1>2. /\ handler[h].rec \in Rec /\ GoodRec(handler[h].rec)
      /\ q \in Policies /\ row[q].type \in Types /\ handler[h].rec.type = row[q].type
  BY <1>1, AtWork
<1>3. CASE row' = row
  BY <1>1, <1>3, Finished
<1>4. CASE row' = [row EXCEPT ![q] = handler[h].rec]
  <2>1. \A p \in Policies : row'[p].type = row[p].type /\ (p = q => row'[p] = handler[h].rec)
                            /\ (p # q => row'[p] = row[p])
    BY <1>2, <1>4 DEF ServiceInv, ServiceTypeOK
  <2>2. ServiceTypeOK'
    BY <1>1, <1>2, <1>4, NothingTypes DEF ServiceInv, ServiceTypeOK, Finish
  <2>3. (\A p \in Policies : GoodRec(row[p]) /\ (row[p] # NoRow => row[p].type \in Types))'
    <3> SUFFICES ASSUME NEW p \in Policies PROVE GoodRec(row'[p]) /\ (row'[p] # NoRow => row'[p].type \in Types)
      BY <1>1 DEF GoodRec
    <3> QED
      BY <1>2, <2>1 DEF ServiceInv
  <2>4. ASSUME NEW g \in Handlers PROVE Sane(handler[g])'
    <3>1. CASE g = h
      BY <1>1, <3>1, NothingTypes DEF ServiceInv, ServiceTypeOK, Finish, Sane, GoodRec
    <3>2. CASE g # h
      <4>1. handler'[g] = handler[g] /\ Sane(handler[g])
        BY <1>1, <3>2 DEF ServiceInv, ServiceTypeOK, Finish
      <4> QED
        BY <1>1, <2>1, <4>1 DEF Sane, GoodRec
    <3> QED
      BY <3>1, <3>2
  <2>5. (\A k \in Contracts : Founded(k))'
    BY <1>1, <2>1 DEF ServiceInv, Founded
  <2> QED
    BY <2>2, <2>3, <2>4, <2>5 DEF ServiceInv
<1> QED
  BY <1>3, <1>4 DEF Update

LEMMA AttachStep ==
  ASSUME ServiceInv, NEW t \in Txs, NEW w \in Wallets, NEW k \in Contracts,
         NEW status \in {"SUCCESS", "FAILED"}, WalletAttaches(t, w, k, status)
  PROVE  ServiceInv'
<1>1. /\ txs[t] = UnknownTx /\ UNCHANGED <<row, handler, ledger, charged>>
      /\ txs' = [txs EXCEPT ![t] = [status |-> status, wallet |-> w, contract |-> k]]
  BY DEF WalletAttaches
<1>2. \A u \in Txs : txs[u] # UnknownTx => txs'[u] = txs[u]
  BY <1>1 DEF ServiceInv, ServiceTypeOK
<1>3. ServiceTypeOK'
  BY <1>1 DEF ServiceInv, ServiceTypeOK, TxState
<1>4. ASSUME NEW rec, GoodRec(rec) PROVE GoodRec(rec)'
  BY <1>1, <1>2, <1>4, GoodRecKept DEF GoodRec
<1>5. ASSUME NEW p \in Policies
      PROVE  GoodRec(row[p])' /\ (row'[p] # NoRow => row'[p].type \in Types)
  <2>1. PICK r : r = row[p]
    OBVIOUS
  <2>2. GoodRec(r)'
    BY <1>4, <2>1 DEF ServiceInv
  <2> QED
    BY <1>1, <2>1, <2>2 DEF ServiceInv, GoodRec
<1>6. ASSUME NEW h \in Handlers PROVE Sane(handler[h])'
  <2>1. PICK r : r = handler[h].rec
    OBVIOUS
  <2>2. GoodRec(r)'
    BY <1>4, <2>1 DEF ServiceInv, Sane
  <2> QED
    BY <1>1, <2>1, <2>2 DEF ServiceInv, Sane, GoodRec
<1>7. (\A j \in Contracts : Founded(j))'
  BY <1>1 DEF ServiceInv, Founded
<1> QED
  BY <1>3, <1>5, <1>6, <1>7 DEF ServiceInv

LEMMA CrashStep == ASSUME ServiceInv, ServiceCrash PROVE ServiceInv'
<1>1. handler' = [h \in Handlers |-> Idle] /\ UNCHANGED <<row, ledger, txs, charged>>
  BY DEF ServiceCrash
<1>2. ServiceTypeOK'
  BY <1>1, NothingTypes DEF ServiceInv, ServiceTypeOK
<1>3. (\A h \in Handlers : Sane(handler[h]))'
  BY <1>1, NothingTypes DEF Sane, GoodRec
<1> QED
  BY <1>1, <1>2, <1>3 DEF ServiceInv, GoodRec, Founded

LEMMA NextService == ServiceInv /\ [ServiceNext]_serviceVars => ServiceInv'
<1> SUFFICES ASSUME ServiceInv, [ServiceNext]_serviceVars PROVE ServiceInv'
  OBVIOUS
<1>1. ASSUME NEW h \in Handlers, NEW p \in Policies, RecordAttach(h, p) PROVE ServiceInv'
  BY <1>1, Begun DEF RecordAttach, Steps, Payers
<1>2. ASSUME NEW h \in Handlers, NEW p \in Policies, NEW w \in Wallets,
             DeployInstance(h, p, w) \/ AdminDeployInstance(h, p, w)
      PROVE  ServiceInv'
  BY <1>2, Begun DEF DeployInstance, AdminDeployInstance, Steps, Payers
<1>3. CASE UNCHANGED serviceVars
  BY <1>3 DEF serviceVars, ServiceInv, ServiceTypeOK, GoodRec, Sane, Founded
<1> QED
  BY <1>1, <1>2, <1>3, GenerateStep, BatchStep, ReconcileStep, AdminAttachStep, ChargeStep,
     UpdateStep, DeployStep, VerifyStep, AttachStep, CrashStep
  DEF ServiceNext

LEMMA ServiceTruth == ServiceInv => RecordMatchesChain
<1> SUFFICES ASSUME ServiceInv, NEW p \in Policies
             PROVE  /\ row[p].status = "deployed" /\ row[p].via = "verified" =>
                         txs[row[p].tx] = [status |-> "SUCCESS", wallet |-> row[p].instance.wallet,
                                           contract |-> row[p].instance.contract]
                    /\ row[p].instance # NoInstance =>
                         ledger[row[p].instance.contract] =
                           [ledger[row[p].instance.contract] EXCEPT
                              !.wasm = EnforcedBy(row[p].type), !.wallet = row[p].instance.wallet]
  BY DEF RecordMatchesChain
<1>1. GoodRec(row[p])
  BY DEF ServiceInv
<1>2. ASSUME row[p].instance # NoInstance
      PROVE  ledger[row[p].instance.contract] =
               [ledger[row[p].instance.contract] EXCEPT
                  !.wasm = EnforcedBy(row[p].type), !.wallet = row[p].instance.wallet]
  <2> DEFINE d == ledger[row[p].instance.contract]
  <2>1. d \in Deployed /\ d.wasm = EnforcedBy(row[p].type) /\ d.wallet = row[p].instance.wallet
    BY <1>1, <1>2 DEF GoodRec, ServiceInv, ServiceTypeOK
  <2> HIDE DEF d
  <2>2. d = [d EXCEPT !.wasm = EnforcedBy(row[p].type), !.wallet = row[p].instance.wallet]
    BY <2>1 DEF Deployed
  <2> QED
    BY <2>2 DEF d
<1> QED
  BY <1>1, <1>2 DEF GoodRec

-----------------------------------------------------------------------------
(* policy-service: the budget.                                              *)

Paid    == {k \in Contracts : ledger[k].payer = "budget"}
Sending == {h \in Handlers : handler[h].at = "send" /\ handler[h].by = "budget"}

LEMMA PaidFinite == /\ IsFiniteSet(Paid) /\ Cardinality(Paid) \in Nat
                    /\ IsFiniteSet(Sending) /\ Cardinality(Sending) \in Nat
<1>1. Paid \subseteq Contracts /\ Sending \subseteq Handlers
  BY DEF Paid, Sending
<1> QED
  BY <1>1, ServiceConstants, FS_Subset, FS_CardinalityType

LEMMA PaidFiniteNext == /\ IsFiniteSet(Paid') /\ Cardinality(Paid') \in Nat
                        /\ IsFiniteSet(Sending') /\ Cardinality(Sending') \in Nat
<1>1. Paid' \subseteq Contracts /\ Sending' \subseteq Handlers
  BY DEF Paid, Sending
<1> QED
  BY <1>1, ServiceConstants, FS_Subset, FS_CardinalityType

\* Nothing more is paid for or being sent.
LEMMA LessSpent ==
  ASSUME ServiceInv, DeploysMetered, ledger' = ledger, charged' = charged, Sending' \subseteq Sending
  PROVE  DeploysMetered'
<1>1. Paid' = Paid
  BY DEF Paid
<1>2. Cardinality(Sending') <= Cardinality(Sending)
  BY PaidFinite, FS_Subset
<1> QED
  BY <1>1, <1>2, PaidFinite, PaidFiniteNext DEF DeploysMetered, Paid, Sending, ServiceInv, ServiceTypeOK

\* A handler that leaves the sending, or never was there.
LEMMA NotSending ==
  ASSUME ServiceInv, NEW h \in Handlers, NEW s, handler' = [handler EXCEPT ![h] = s],
         s.at # "send" \/ s.by # "budget"
  PROVE  Sending' = Sending \ {h}
<1>1. \A g \in Handlers : handler'[g] = IF g = h THEN s ELSE handler[g]
  BY DEF ServiceInv, ServiceTypeOK
<1> QED
  BY <1>1 DEF Sending

LEMMA MovedOff ==
  ASSUME ServiceInv, DeploysMetered, NEW h \in Handlers, NEW s, handler' = [handler EXCEPT ![h] = s],
         s.at # "send" \/ s.by # "budget", UNCHANGED <<ledger, charged>>
  PROVE  DeploysMetered'
<1>1. Sending' = Sending \ {h}
  BY NotSending
<1> QED
  BY <1>1, LessSpent

LEMMA ChargeMeters == ASSUME ServiceInv, DeploysMetered, NEW h \in Handlers, Charge(h) PROVE DeploysMetered'
<1>1. CASE Finish(h) /\ UNCHANGED charged
  BY <1>1, MovedOff, NothingTypes DEF Charge, Finish
<1>2. CASE charged' = charged + 1 /\ handler' = [handler EXCEPT ![h].at = "send"]
  <2>1. Sending' \subseteq Sending \cup {h}
    BY <1>2 DEF Sending, ServiceInv, ServiceTypeOK
  <2>2. /\ IsFiniteSet(Sending \cup {h})
        /\ Cardinality(Sending \cup {h}) <= Cardinality(Sending) + 1
    <3>1. IsFiniteSet(Sending) /\ Cardinality(Sending) \in Nat
      BY PaidFinite
    <3>2. /\ IsFiniteSet(Sending \cup {h})
          /\ Cardinality(Sending \cup {h}) = IF h \in Sending THEN Cardinality(Sending) ELSE Cardinality(Sending) + 1
      BY <3>1, FS_AddElement
    <3> QED
      BY <3>1, <3>2
  <2>3. Cardinality(Sending') <= Cardinality(Sending \cup {h})
    BY <2>1, <2>2, FS_Subset
  <2>4. Cardinality(Sending \cup {h}) \in Nat
    BY <2>2, FS_CardinalityType
  <2>5. Paid' = Paid
    BY DEF Charge, Paid
  <2>6. Cardinality(Paid') + Cardinality(Sending') <= charged + 1
    <3>1. charged \in Nat /\ Cardinality(Paid) + Cardinality(Sending) <= charged
      BY DEF DeploysMetered, Paid, Sending, ServiceInv, ServiceTypeOK
    <3> QED
      BY <2>2, <2>3, <2>4, <2>5, <3>1, PaidFinite, PaidFiniteNext
  <2> QED
    BY <1>2, <2>6 DEF DeploysMetered, Paid, Sending
<1> QED
  BY <1>1, <1>2 DEF Charge

LEMMA DeployMeters ==
  ASSUME ServiceInv, DeploysMetered, NEW h \in Handlers, NEW k \in Contracts, DeployOnChain(h, k)
  PROVE  DeploysMetered'
<1> DEFINE me == handler[h]
           d  == [wasm |-> DeployerWasm, policy |-> me.policy, wallet |-> me.wallet, payer |-> me.by]
<1>1. me.at = "send" /\ charged' = charged /\ me \in HandlerState
  BY DEF DeployOnChain, ServiceInv, ServiceTypeOK
<1>2. CASE Finish(h) /\ UNCHANGED ledger
  BY <1>1, <1>2, MovedOff, NothingTypes DEF Finish
<1>3. CASE /\ ledger[k] = Unused /\ ledger' = [ledger EXCEPT ![k] = d]
           /\ \/ handler' = [handler EXCEPT ![h].at = "write",
                   ![h].rec.status = "instance_deployed",
                   ![h].rec.instance = [contract |-> k, wallet |-> me.wallet]]
              \/ Finish(h)
  <2>1. PICK s : handler' = [handler EXCEPT ![h] = s] /\ s.at # "send"
    <3>1. CASE Finish(h)
      BY <3>1, NothingTypes DEF Finish
    <3>2. CASE handler' = [handler EXCEPT ![h].at = "write",
                 ![h].rec.status = "instance_deployed",
                 ![h].rec.instance = [contract |-> k, wallet |-> me.wallet]]
      <4> DEFINE r == [me.rec EXCEPT !.status = "instance_deployed",
                                     !.instance = [contract |-> k, wallet |-> me.wallet]]
                 t == [me EXCEPT !.at = "write", !.rec = r]
      <4>1. handler' = [handler EXCEPT ![h] = t]
        BY <3>2
      <4> HIDE DEF r
      <4>2. t.at = "write"
        BY <1>1 DEF HandlerState
      <4> QED
        BY <4>1, <4>2
    <3> QED
      BY <1>3, <3>1, <3>2
  <2>2. Sending' = Sending \ {h}
    BY <2>1, NotSending
  <2>3. \A j \in Contracts : ledger'[j].payer = IF j = k THEN me.by ELSE ledger[j].payer
    BY <1>3 DEF ServiceInv, ServiceTypeOK
  <2>4. k \notin Paid
    BY <1>3 DEF Paid, Unused
  <2>5. CASE me.by = "budget"
    <3>1. h \in Sending
      BY <1>1, <2>5 DEF Sending
    <3>2. Cardinality(Sending') = Cardinality(Sending) - 1
      BY <2>2, <3>1, PaidFinite, FS_RemoveElement
    <3>3. Paid' = Paid \cup {k}
      BY <2>3, <2>5 DEF Paid
    <3>4. Cardinality(Paid') = Cardinality(Paid) + 1
      BY <2>4, <3>3, PaidFinite, FS_AddElement
    <3>5. Cardinality(Paid') + Cardinality(Sending') <= charged
      BY <3>2, <3>4, PaidFinite DEF DeploysMetered, Paid, Sending, ServiceInv, ServiceTypeOK
    <3> QED
      BY <1>1, <3>5 DEF DeploysMetered, Paid, Sending
  <2>6. CASE me.by # "budget"
    <3>1. Paid' = Paid
      BY <2>3, <2>4, <2>6 DEF Paid
    <3>2. Cardinality(Sending') <= Cardinality(Sending)
      BY <2>2, PaidFinite, FS_Subset
    <3>3. Cardinality(Paid') + Cardinality(Sending') <= charged
      <4>1. charged \in Nat /\ Cardinality(Paid) + Cardinality(Sending) <= charged
        BY DEF DeploysMetered, Paid, Sending, ServiceInv, ServiceTypeOK
      <4> QED
        BY <3>1, <3>2, <4>1, PaidFinite, PaidFiniteNext
    <3> QED
      BY <1>1, <3>3 DEF DeploysMetered, Paid, Sending
  <2> QED
    BY <2>5, <2>6
<1> QED
  BY <1>2, <1>3 DEF DeployOnChain

LEMMA VerifyMeters ==
  ASSUME ServiceInv, DeploysMetered, NEW h \in Handlers, NEW t \in Txs, VerifyAndRecordAttach(h, t)
  PROVE  DeploysMetered'
<1>1. CASE Finish(h)
  BY <1>1, MovedOff, NothingTypes DEF Finish, VerifyAndRecordAttach
<1>2. CASE handler' = [handler EXCEPT ![h].at = "write", ![h].rec.status = "deployed",
                                      ![h].rec.tx = t, ![h].rec.via = "verified"]
  <2> DEFINE r == [handler[h].rec EXCEPT !.status = "deployed", !.tx = t, !.via = "verified"]
             s == [handler[h] EXCEPT !.at = "write", !.rec = r]
  <2>1. handler' = [handler EXCEPT ![h] = s]
    BY <1>2
  <2>2. handler[h] \in HandlerState
    BY DEF ServiceInv, ServiceTypeOK
  <2> HIDE DEF r
  <2>3. s.at = "write"
    BY <2>2 DEF HandlerState
  <2> QED
    BY <2>1, <2>3, MovedOff DEF VerifyAndRecordAttach
<1> QED
  BY <1>1, <1>2 DEF VerifyAndRecordAttach

LEMMA CrashMeters == ASSUME ServiceInv, DeploysMetered, ServiceCrash PROVE DeploysMetered'
<1>1. Sending' \subseteq Sending
  BY NothingTypes DEF Sending, ServiceCrash
<1> QED
  BY <1>1, LessSpent DEF ServiceCrash

LEMMA NextMetered == ServiceInv /\ DeploysMetered /\ [ServiceNext]_serviceVars => DeploysMetered'
<1> SUFFICES ASSUME ServiceInv, DeploysMetered, [ServiceNext]_serviceVars PROVE DeploysMetered'
  OBVIOUS
<1>1. CASE UNCHANGED <<handler, ledger, charged>>
  BY <1>1 DEF DeploysMetered
<1>2. ASSUME NEW h \in Handlers, NEW p \in Policies, RecordAttach(h, p) PROVE DeploysMetered'
  <2> DEFINE s == [at |-> "verify", policy |-> p, wallet |-> "none", rec |-> row[p], by |-> "none"]
  <2>1. handler' = [handler EXCEPT ![h] = s] /\ s.at = "verify"
    BY <1>2 DEF RecordAttach, Begin
  <2> QED
    BY <1>2, <2>1, MovedOff DEF RecordAttach
<1>3. ASSUME NEW h \in Handlers, NEW p \in Policies, NEW w \in Wallets, DeployInstance(h, p, w)
      PROVE  DeploysMetered'
  <2> DEFINE s == [at |-> "charge", policy |-> p, wallet |-> w, rec |-> row[p], by |-> "budget"]
  <2>1. handler' = [handler EXCEPT ![h] = s] /\ s.at = "charge"
    BY <1>3 DEF DeployInstance, Begin
  <2> QED
    BY <1>3, <2>1, MovedOff DEF DeployInstance
<1>4. ASSUME NEW h \in Handlers, NEW p \in Policies, NEW w \in Wallets, AdminDeployInstance(h, p, w)
      PROVE  DeploysMetered'
  <2> DEFINE s == [at |-> "send", policy |-> p, wallet |-> w, rec |-> row[p], by |-> "admin"]
  <2>1. handler' = [handler EXCEPT ![h] = s] /\ s.by = "admin"
    BY <1>4 DEF AdminDeployInstance, Begin
  <2> QED
    BY <1>4, <2>1, MovedOff DEF AdminDeployInstance
<1>5. ASSUME NEW h \in Handlers, NEW p \in Policies, NEW k \in Contracts, Reconcile(h, p, k)
      PROVE  DeploysMetered'
  <2> DEFINE r == [row[p] EXCEPT !.status = "instance_deployed",
                                 !.instance = [contract |-> k, wallet |-> ledger[k].wallet]]
             s == [Idle EXCEPT !.at = "write", !.policy = p, !.rec = r]
  <2>1. handler' = [handler EXCEPT ![h] = s]
    BY <1>5 DEF Reconcile
  <2> HIDE DEF r
  <2>2. s.at = "write"
    BY DEF Idle
  <2> QED
    BY <1>5, <2>1, <2>2, MovedOff DEF Reconcile
<1>6. ASSUME NEW h \in Handlers, NEW p \in Policies, NEW t \in Txs, AdminRecordAttach(h, p, t)
      PROVE  DeploysMetered'
  <2> DEFINE r == [row[p] EXCEPT !.status = "deployed", !.tx = t, !.via = "admin"]
             s == [Idle EXCEPT !.at = "write", !.policy = p, !.rec = r]
  <2>1. handler' = [handler EXCEPT ![h] = s]
    BY <1>6 DEF AdminRecordAttach
  <2> HIDE DEF r
  <2>2. s.at = "write"
    BY DEF Idle
  <2> QED
    BY <1>6, <2>1, <2>2, MovedOff DEF AdminRecordAttach
<1>7. ASSUME NEW h \in Handlers, Update(h) PROVE DeploysMetered'
  BY <1>7, MovedOff, NothingTypes DEF Update, Finish
<1>8. CASE UNCHANGED serviceVars
  BY <1>1, <1>8 DEF serviceVars
<1>9. ASSUME NEW t \in Txs, NEW w \in Wallets, NEW k \in Contracts, NEW s \in {"SUCCESS", "FAILED"},
             WalletAttaches(t, w, k, s)
      PROVE  DeploysMetered'
  BY <1>1, <1>9 DEF WalletAttaches
<1>10. ASSUME NEW p \in Policies, NEW type \in Types, Generate(p, type) PROVE DeploysMetered'
  BY <1>1, <1>10 DEF Generate
<1>11. ASSUME NEW items \in SUBSET (Policies \X Types), GenerateBatch(items) PROVE DeploysMetered'
  BY <1>1, <1>11 DEF GenerateBatch
<1> QED
  BY <1>2, <1>3, <1>4, <1>5, <1>6, <1>7, <1>8, <1>9, <1>10, <1>11, ChargeMeters, DeployMeters,
     VerifyMeters, CrashMeters
  DEF ServiceNext

LEMMA InitMetered == ServiceInit => DeploysMetered
<1> SUFFICES ASSUME ServiceInit PROVE DeploysMetered
  OBVIOUS
<1>1. Paid = {} /\ Sending = {}
  BY NothingTypes DEF ServiceInit, Paid, Sending, Unused
<1> QED
  BY <1>1, FS_EmptySet DEF DeploysMetered, Paid, Sending, ServiceInit

-----------------------------------------------------------------------------
(* The deploy jobs and their dead letters.                                  *)

JobRec   == [status : {"absent", "pending", "in_progress", "completed", "dead"}, retries : Nat,
             from : JobIds \cup {NoJob}]
EntryRec == [archived : BOOLEAN, busy : BOOLEAN, requeues : Int]

DeployTypeOK ==
  /\ job \in [JobIds -> JobRec] /\ entry \in [JobIds -> EntryRec]
  /\ deploying \in [DeployWorkers -> JobIds \cup {NoJob}] /\ asking \in [Admins -> JobIds \cup {NoJob}]
  /\ minted \in [JobIds -> Nat]

Made(i) == {j \in JobIds : job[j].from = i /\ job[j].status # "absent"}

\* The store is filled in order, and nothing was ever in the rest of it.
Filled ==
  /\ \E n \in 0..MaxJobs : \A i \in JobIds : job[i].status # "absent" <=> i <= n
  /\ \A i \in JobIds : job[i].status = "absent" => job[i] = Absent

\* One worker at a time is at a job, and the job says so.
HeldOnce ==
  \A w \in DeployWorkers : deploying[w] # NoJob =>
    /\ job[deploying[w]].status = "in_progress"
    /\ \A v \in DeployWorkers : deploying[v] = deploying[w] => v = w

\* Only dead letters are requeued.
FromDead ==
  /\ \A j \in JobIds : job[j].from # NoJob => entry[job[j].from] # NoEntry
  /\ \A a \in Admins : asking[a] # NoJob => entry[asking[a]] # NoEntry

\* A job that will be tried, or is, has an attempt left.
WithinLimit ==
  \A i \in JobIds : job[i].status \in {"pending", "in_progress"} => job[i].retries < JobLimit

DeployInv == DeployTypeOK /\ Filled /\ HeldOnce /\ FromDead /\ WithinLimit /\ DlqAccounts

LEMMA Least == ASSUME NEW S \in SUBSET Nat, S # {} PROVE Min(S) \in S /\ \A x \in S : Min(S) <= x
<1>1. \E m \in S : \A x \in S : ~(<<x, m>> \in OpToRel(<, Nat))
  BY NatLessThanWellFounded, WFMin
<1>2. PICK m \in S : \A x \in S : ~(<<x, m>> \in OpToRel(<, Nat))
  BY <1>1
<1>3. ASSUME NEW x \in S PROVE m <= x
  <2>1. ~(<<x, m>> \in {p \in Nat \X Nat : p[1] < p[2]})
    BY <1>2 DEF OpToRel
  <2>2. <<x, m>> \in Nat \X Nat /\ <<x, m>>[1] = x /\ <<x, m>>[2] = m
    OBVIOUS
  <2> QED
    BY <2>1, <2>2
<1> QED
  BY <1>3 DEF Min

LEMMA LimitPositive ==
  /\ JobLimit \in Nat \ {0}
  /\ \A r \in Nat : r < JobLimit <=> r <= DlqThreshold /\ (MaxAttempts # NoMaxAttempts => r < MaxAttempts)
<1> DEFINE both == {MaxAttempts, DlqThreshold + 1}
<1> USE PolicyJobsAssumption
<1>1. Min(both) \in both /\ \A x \in both : Min(both) <= x
  BY Least
<1>2. JobLimit = IF MaxAttempts # NoMaxAttempts THEN Min(both) ELSE DlqThreshold + 1
  BY DEF JobLimit
<1>3. PICK m : m = Min(both)
  OBVIOUS
<1>4. \/ m = MaxAttempts /\ MaxAttempts <= DlqThreshold + 1
      \/ m = DlqThreshold + 1 /\ DlqThreshold + 1 <= MaxAttempts
  BY <1>1, <1>3
<1> QED
  BY <1>2, <1>3, <1>4 DEF NoMaxAttempts

LEMMA NextJobFree ==
  ASSUME DeployInv, NextJob \in JobIds
  PROVE  /\ job[NextJob] = Absent /\ job[NextJob].status = "absent"
         /\ \A i \in JobIds : job[i].status # "absent" <=> i <= NextJob - 1
<1>1. PICK n \in 0..MaxJobs : \A i \in JobIds : job[i].status # "absent" <=> i <= n
  BY DEF DeployInv, Filled
<1>2. Created = 1..n
  BY <1>1, PolicyJobsAssumption DEF Created, JobIds
<1>3. NextJob = n + 1
  <2>1. Cardinality(1..n) = n
    BY <1>1, FS_Interval
  <2> QED
    BY <1>2, <2>1 DEF NextJob
<1> QED
  BY <1>1, <1>3 DEF DeployInv, Filled, JobIds

LEMMA MadeFinite == \A i : IsFiniteSet(Made(i)) /\ Cardinality(Made(i)) \in Nat
<1> SUFFICES ASSUME NEW i PROVE IsFiniteSet(Made(i)) /\ Cardinality(Made(i)) \in Nat
  OBVIOUS
<1>1. IsFiniteSet(JobIds)
  BY FS_Interval, PolicyJobsAssumption DEF JobIds
<1>2. Made(i) \subseteq JobIds
  BY DEF Made
<1> QED
  BY <1>1, <1>2, FS_Subset, FS_CardinalityType

LEMMA Counted ==
  DlqAccounts <=> \A i \in JobIds : /\ job[i].status = "dead" <=> entry[i] # NoEntry
                                    /\ entry[i] # NoEntry => entry[i].requeues = Cardinality(Made(i))
  BY DEF DlqAccounts, Made

LEMMA NoEntryIs == NoEntry.requeues = -1 /\ NoEntry \in EntryRec
  BY DEF NoEntry, EntryRec

LEMMA EntryReset ==
  ASSUME NEW e \in EntryRec, NEW n \in Int
  PROVE  [e EXCEPT !.requeues = n] \in EntryRec /\ [e EXCEPT !.requeues = n].requeues = n
  BY DEF EntryRec

LEMMA InitDeploy == JobsInit => DeployInv
<1> SUFFICES ASSUME JobsInit PROVE DeployInv
  OBVIOUS
<1> USE PolicyJobsAssumption DEF JobsInit
<1>1. DeployTypeOK
  BY DEF DeployTypeOK, JobRec, EntryRec, Absent, NoEntry, JobIds, NoJob
<1>2. Filled
  <2>1. \A i \in JobIds : job[i].status # "absent" <=> i <= 0
    BY DEF Absent, JobIds
  <2>2. 0 \in 0..MaxJobs
    OBVIOUS
  <2> QED
    BY <2>1, <2>2 DEF Filled
<1>3. HeldOnce /\ FromDead /\ WithinLimit
  BY DEF HeldOnce, FromDead, WithinLimit, Absent, NoJob
<1>4. DlqAccounts
  BY DEF DlqAccounts, Absent
<1> QED
  BY <1>1, <1>2, <1>3, <1>4 DEF DeployInv

\* A job of the store moves on; it stays the job it was.
LEMMA JobMoves ==
  ASSUME DeployInv, NEW i \in JobIds, NEW r \in JobRec, job' = [job EXCEPT ![i] = r],
         job[i].status # "absent", r.status # "absent", r.from = job[i].from
  PROVE  /\ job' \in [JobIds -> JobRec] /\ Filled'
         /\ \A j \in JobIds : Made(j)' = Made(j) /\ job'[j].from = job[j].from
         /\ \A j \in JobIds : job'[j] = IF j = i THEN r ELSE job[j]
<1>1. \A j \in JobIds : job'[j] = IF j = i THEN r ELSE job[j]
  BY DEF DeployInv, DeployTypeOK
<1>2. job' \in [JobIds -> JobRec]
  BY DEF DeployInv, DeployTypeOK
<1>3. \A j \in JobIds : job'[j].from = job[j].from /\ (job'[j].status # "absent" <=> job[j].status # "absent")
  BY <1>1
<1>4. Filled'
  BY <1>1, <1>3 DEF DeployInv, Filled
<1>5. \A j \in JobIds : Made(j)' = Made(j)
  BY <1>3 DEF Made
<1> QED
  BY <1>1, <1>2, <1>3, <1>4, <1>5

\* A job is added; it was made from an entry, or from none.
LEMMA JobAdded ==
  ASSUME DeployInv, NextJob \in JobIds, NEW from \in JobIds \cup {NoJob}, AddJob(from)
  PROVE  /\ job' \in [JobIds -> JobRec] /\ Filled' /\ WithinLimit'
         /\ \A j \in JobIds : job'[j] = IF j = NextJob THEN [status |-> "pending", retries |-> 0, from |-> from] ELSE job[j]
         /\ \A j \in JobIds : Made(j)' = IF j = from THEN Made(j) \cup {NextJob} ELSE Made(j)
         /\ \A j \in JobIds : NextJob \notin Made(j)
<1> DEFINE r == [status |-> "pending", retries |-> 0, from |-> from]
<1>1. r \in JobRec /\ r.status = "pending" /\ r.retries = 0 /\ r.from = from
  BY DEF JobRec
<1>2. PICK k \in JobIds : k = NextJob
  OBVIOUS
<1>3. job' = [job EXCEPT ![k] = r]
  BY <1>2 DEF AddJob
<1>4. job[k].status = "absent" /\ \A i \in JobIds : job[i].status # "absent" <=> i <= k - 1
  BY <1>2, NextJobFree
<1> HIDE DEF r
<1>5. job' \in [JobIds -> JobRec] /\ \A j \in JobIds : job'[j] = IF j = k THEN r ELSE job[j]
  BY <1>1, <1>3 DEF DeployInv, DeployTypeOK
<1>6. Filled'
  <2>1. \A i \in JobIds : job'[i].status # "absent" <=> i <= k
    BY <1>1, <1>4, <1>5, PolicyJobsAssumption DEF JobIds
  <2>2. k \in 0..MaxJobs
    BY <1>2, PolicyJobsAssumption DEF JobIds
  <2> QED
    BY <2>1, <2>2, <1>1, <1>5 DEF DeployInv, Filled
<1>7. WithinLimit'
  BY <1>1, <1>5, LimitPositive DEF WithinLimit, DeployInv
<1>8. \A j \in JobIds : Made(j)' = IF j = from THEN Made(j) \cup {k} ELSE Made(j)
  BY <1>1, <1>4, <1>5 DEF Made
<1>9. \A j \in JobIds : k \notin Made(j)
  BY <1>4 DEF Made
<1> QED
  BY <1>2, <1>5, <1>6, <1>7, <1>8, <1>9 DEF r

\* What BoundedRetry sees of the jobs.
Stages == [i \in JobIds |-> JobStage(i)]
Trials == [i \in JobIds |-> JobTries(i)]

RetryStep == [Jobs!Next]_<<Stages, Trials>>

LEMMA StagesMove ==
  ASSUME NEW i \in JobIds, \A j \in JobIds : j # i => job'[j] = job[j]
  PROVE  /\ Stages' = [Stages EXCEPT ![i] = JobStage(i)']
         /\ Trials' = [Trials EXCEPT ![i] = JobTries(i)']
         /\ Stages[i] = JobStage(i) /\ Trials[i] = JobTries(i)
<1>1. \A j \in JobIds : j # i => JobStage(j)' = JobStage(j) /\ JobTries(j)' = JobTries(j)
  BY DEF JobStage, JobTries
<1> QED
  BY <1>1 DEF Stages, Trials

LEMMA TrialsSame ==
  ASSUME NEW i \in JobIds, \A j \in JobIds : j # i => job'[j] = job[j], JobTries(i)' = JobTries(i)
  PROVE  Trials' = Trials
<1>1. \A j \in JobIds : JobTries(j)' = JobTries(j)
  BY DEF JobTries
<1> QED
  BY <1>1 DEF Trials

\* An action that moves no job is a stutter of BoundedRetry.
LEMMA Stutters == job' = job => RetryStep
  BY DEF RetryStep, Stages, Trials, JobStage, JobTries

LEMMA SubmitStep ==
  ASSUME DeployInv, NextJob \in JobIds, NEW from \in JobIds \cup {NoJob}, AddJob(from)
  PROVE  RetryStep
<1>1. PICK k \in JobIds : k = NextJob
  OBVIOUS
<1>2. \A j \in JobIds : job'[j] = IF j = k THEN [status |-> "pending", retries |-> 0, from |-> from] ELSE job[j]
  BY <1>1, JobAdded
<1>3. job[k] = Absent
  BY <1>1, NextJobFree
<1>4. JobStage(k) = "absent" /\ JobStage(k)' = "waiting" /\ JobTries(k)' = JobTries(k)
  BY <1>2, <1>3 DEF JobStage, JobTries, Absent
<1>5. Jobs!Submit(k)
  BY <1>2, <1>4, StagesMove, TrialsSame DEF Jobs!Submit, Jobs!Move, Stages, Trials
<1> QED
  BY <1>5 DEF RetryStep, Jobs!Next

LEMMA EnqueueKeeps == ASSUME DeployInv, EnqueueJob PROVE DeployInv' /\ RetryStep
<1>1. NextJob \in JobIds /\ AddJob(NoJob) /\ UNCHANGED <<entry, deploying, asking, minted>>
  BY DEF EnqueueJob
<1>2. NoJob \notin JobIds
  BY PolicyJobsAssumption DEF NoJob, JobIds
<1>3. PICK k \in JobIds : k = NextJob
  BY <1>1
<1>4. /\ job' \in [JobIds -> JobRec] /\ Filled' /\ WithinLimit'
      /\ \A j \in JobIds : job'[j] = IF j = k THEN [status |-> "pending", retries |-> 0, from |-> NoJob] ELSE job[j]
      /\ \A j \in JobIds : Made(j)' = Made(j)
  BY <1>1, <1>2, <1>3, JobAdded
<1>5. job[k].status = "absent"
  BY <1>1, <1>3, NextJobFree
<1>6. DeployTypeOK'
  BY <1>1, <1>4 DEF DeployInv, DeployTypeOK
<1>7. HeldOnce'
  BY <1>1, <1>4, <1>5 DEF DeployInv, DeployTypeOK, HeldOnce
<1>8. FromDead'
  BY <1>1, <1>4 DEF DeployInv, FromDead
<1>9. DlqAccounts'
  <2> SUFFICES ASSUME NEW j \in JobIds
               PROVE  /\ job'[j].status = "dead" <=> entry'[j] # NoEntry
                      /\ entry'[j] # NoEntry => entry'[j].requeues = Cardinality(Made(j)')
    BY DEF DlqAccounts, Made
  <2> QED
    BY <1>1, <1>4, <1>5, Counted DEF DeployInv
<1> QED
  BY <1>1, <1>4, <1>6, <1>7, <1>8, <1>9, SubmitStep DEF DeployInv

LEMMA ClaimKeeps == ASSUME DeployInv, NEW w \in DeployWorkers, Claim(w) PROVE DeployInv' /\ RetryStep
<1> DEFINE queued == {i \in JobIds : job[i].status = "pending"}
<1>1. Min(queued) \in queued
  <2>1. queued \in SUBSET Nat /\ queued # {}
    BY DEF Claim, JobIds
  <2> QED
    BY <2>1, Least
<1>2. PICK i \in JobIds : i = Min(queued) /\ job[i].status = "pending"
  BY <1>1
<1> DEFINE r == [job[i] EXCEPT !.status = "in_progress"]
<1>3. /\ deploying[w] = NoJob /\ deploying' = [deploying EXCEPT ![w] = i]
      /\ job' = [job EXCEPT ![i] = r] /\ UNCHANGED <<entry, asking, minted>>
  BY <1>2 DEF Claim
<1>4. r \in JobRec /\ r.status = "in_progress" /\ r.from = job[i].from /\ r.retries = job[i].retries
  BY DEF DeployInv, DeployTypeOK, JobRec
<1> HIDE DEF r, queued
<1>5. /\ job' \in [JobIds -> JobRec] /\ Filled'
      /\ \A j \in JobIds : Made(j)' = Made(j) /\ job'[j].from = job[j].from
      /\ \A j \in JobIds : job'[j] = IF j = i THEN r ELSE job[j]
  BY <1>2, <1>3, <1>4, JobMoves
<1>6. DeployTypeOK'
  BY <1>3, <1>5 DEF DeployInv, DeployTypeOK
<1>7. HeldOnce'
  <2>1. \A v \in DeployWorkers : deploying'[v] = IF v = w THEN i ELSE deploying[v]
    BY <1>3 DEF DeployInv, DeployTypeOK
  <2>2. \A v \in DeployWorkers : deploying[v] # i
    BY <1>2, PolicyJobsAssumption DEF DeployInv, HeldOnce, NoJob, JobIds
  <2> QED
    BY <1>4, <1>5, <2>1, <2>2 DEF DeployInv, DeployTypeOK, HeldOnce
<1>8. FromDead'
  BY <1>3, <1>5 DEF DeployInv, FromDead
<1>9. DlqAccounts'
  BY <1>2, <1>3, <1>4, <1>5 DEF DeployInv, DlqAccounts, Made
<1>10. WithinLimit'
  BY <1>2, <1>4, <1>5 DEF DeployInv, WithinLimit
<1>11. Jobs!Take(i)
  <2>1. JobStage(i) = "waiting" /\ JobStage(i)' = "working"
    BY <1>2, <1>4, <1>5 DEF JobStage
  <2>2. JobTries(i) = job[i].retries /\ JobTries(i)' = job[i].retries + 1
    BY <1>2, <1>4, <1>5 DEF JobTries, DeployInv, DeployTypeOK, JobRec
  <2>3. job[i].retries < JobLimit
    BY <1>2 DEF DeployInv, WithinLimit
  <2> QED
    BY <1>5, <2>1, <2>2, <2>3, StagesMove DEF Jobs!Take, Jobs!Move, Stages, Trials
<1> QED
  BY <1>5, <1>6, <1>7, <1>8, <1>9, <1>10, <1>11 DEF DeployInv, RetryStep, Jobs!Next

\* The job a worker holds.
LEMMA AtJob ==
  ASSUME DeployInv, NEW w \in DeployWorkers, deploying[w] # NoJob
  PROVE  /\ deploying[w] \in JobIds /\ job[deploying[w]] \in JobRec
         /\ job[deploying[w]].status = "in_progress" /\ entry[deploying[w]] = NoEntry
         /\ job[deploying[w]].retries < JobLimit
  BY DEF DeployInv, DeployTypeOK, HeldOnce, DlqAccounts, WithinLimit

\* A worker lets go of its job.
LEMMA LetsGo ==
  ASSUME DeployInv, NEW w \in DeployWorkers, deploying[w] # NoJob,
         deploying' = [deploying EXCEPT ![w] = NoJob],
         \A j \in JobIds : j # deploying[w] => job'[j] = job[j]
  PROVE  HeldOnce'
<1>1. \A v \in DeployWorkers : deploying'[v] = IF v = w THEN NoJob ELSE deploying[v]
  BY DEF DeployInv, DeployTypeOK
<1>2. \A v \in DeployWorkers : v # w => deploying[v] # deploying[w]
  BY DEF DeployInv, HeldOnce
<1> QED
  BY <1>1, <1>2 DEF DeployInv, DeployTypeOK, HeldOnce

LEMMA SucceedsKeeps == ASSUME DeployInv, NEW w \in DeployWorkers, DeploySucceeds(w) PROVE DeployInv' /\ RetryStep
<1>1. PICK i \in JobIds : i = deploying[w] /\ job[i] \in JobRec /\ job[i].status = "in_progress" /\ entry[i] = NoEntry
  BY AtJob DEF DeploySucceeds
<1> DEFINE r == [job[i] EXCEPT !.status = "completed"]
<1>2. /\ deploying[w] # NoJob /\ deploying' = [deploying EXCEPT ![w] = NoJob]
      /\ job' = [job EXCEPT ![i] = r] /\ UNCHANGED <<entry, asking>>
      /\ minted' = [minted EXCEPT ![i] = @ + 1]
  BY <1>1 DEF DeploySucceeds
<1>3. r \in JobRec /\ r.status = "completed" /\ r.from = job[i].from /\ r.retries = job[i].retries
  BY <1>1 DEF JobRec
<1> HIDE DEF r
<1>4. /\ job' \in [JobIds -> JobRec] /\ Filled'
      /\ \A j \in JobIds : Made(j)' = Made(j) /\ job'[j].from = job[j].from
      /\ \A j \in JobIds : job'[j] = IF j = i THEN r ELSE job[j]
  BY <1>1, <1>2, <1>3, JobMoves
<1>5. DeployTypeOK'
  BY <1>2, <1>4 DEF DeployInv, DeployTypeOK
<1>6. HeldOnce'
  BY <1>1, <1>2, <1>4, LetsGo
<1>7. FromDead'
  BY <1>2, <1>4 DEF DeployInv, FromDead
<1>8. DlqAccounts'
  <2> SUFFICES ASSUME NEW j \in JobIds
               PROVE  /\ job'[j].status = "dead" <=> entry'[j] # NoEntry
                      /\ entry'[j] # NoEntry => entry'[j].requeues = Cardinality(Made(j)')
    BY DEF DlqAccounts, Made
  <2> QED
    BY <1>1, <1>2, <1>3, <1>4, Counted DEF DeployInv
<1>9. WithinLimit'
  BY <1>3, <1>4 DEF DeployInv, WithinLimit
<1>10. Jobs!Finish(i)
  <2>1. JobStage(i) = "working" /\ JobStage(i)' = "done" /\ JobTries(i)' = JobTries(i)
    BY <1>1, <1>3, <1>4 DEF JobStage, JobTries
  <2> QED
    BY <1>4, <2>1, StagesMove, TrialsSame DEF Jobs!Finish, Jobs!Move, Stages, Trials
<1> QED
  BY <1>4, <1>5, <1>6, <1>7, <1>8, <1>9, <1>10 DEF DeployInv, RetryStep, Jobs!Next

LEMMA FailureKeeps ==
  ASSUME DeployInv, NEW w \in DeployWorkers, NEW terminal \in BOOLEAN, NEW landed \in BOOLEAN,
         HandleFailure(w, terminal, landed)
  PROVE  DeployInv' /\ RetryStep
<1>1. PICK i \in JobIds : /\ i = deploying[w] /\ job[i] \in JobRec /\ job[i].status = "in_progress"
                          /\ entry[i] = NoEntry /\ job[i].retries < JobLimit
  BY AtJob DEF HandleFailure
<1>2. PICK retries \in Nat : retries = job[i].retries + 1
  BY <1>1 DEF JobRec
<1>3. PICK dead : dead = Exhausted(retries, terminal)
  OBVIOUS
<1> DEFINE r == [job[i] EXCEPT !.retries = retries, !.status = IF dead THEN "dead" ELSE "pending"]
           e == [NoEntry EXCEPT !.requeues = 0]
<1>4. /\ deploying[w] # NoJob /\ deploying' = [deploying EXCEPT ![w] = NoJob]
      /\ job' = [job EXCEPT ![i] = r] /\ asking' = asking
      /\ minted' = [minted EXCEPT ![i] = @ + IF landed THEN 1 ELSE 0]
      /\ entry' = IF dead THEN [entry EXCEPT ![i] = e] ELSE entry
  BY <1>1, <1>2, <1>3 DEF HandleFailure
<1>5. /\ r \in JobRec /\ r.status = (IF dead THEN "dead" ELSE "pending") /\ r.from = job[i].from
      /\ r.retries = retries
  BY <1>1 DEF JobRec
<1>6. e \in EntryRec /\ e.requeues = 0 /\ e # NoEntry
  <2>1. e \in EntryRec /\ e.requeues = 0
    BY NoEntryIs, EntryReset
  <2> HIDE DEF e
  <2> QED
    BY <2>1, NoEntryIs
<1> HIDE DEF r, e
<1>7. /\ job' \in [JobIds -> JobRec] /\ Filled'
      /\ \A j \in JobIds : Made(j)' = Made(j) /\ job'[j].from = job[j].from
      /\ \A j \in JobIds : job'[j] = IF j = i THEN r ELSE job[j]
  BY <1>1, <1>4, <1>5, JobMoves
<1>8. \A j \in JobIds : entry'[j] = IF dead /\ j = i THEN e ELSE entry[j]
  BY <1>4 DEF DeployInv, DeployTypeOK
<1>9. DeployTypeOK'
  BY <1>4, <1>6, <1>7 DEF DeployInv, DeployTypeOK
<1>10. HeldOnce'
  BY <1>1, <1>4, <1>7, LetsGo
<1>11. FromDead'
  BY <1>4, <1>6, <1>7, <1>8 DEF DeployInv, DeployTypeOK, JobRec, FromDead
<1>12. Cardinality(Made(i)) = 0
  <2>1. Made(i) = {}
    BY <1>1, PolicyJobsAssumption DEF DeployInv, FromDead, Made, NoJob, JobIds
  <2> QED
    BY <2>1, FS_EmptySet
<1>13. DlqAccounts'
  <2> SUFFICES ASSUME NEW j \in JobIds
               PROVE  /\ job'[j].status = "dead" <=> entry'[j] # NoEntry
                      /\ entry'[j] # NoEntry => entry'[j].requeues = Cardinality(Made(j)')
    BY DEF DlqAccounts, Made
  <2>1. CASE j = i
    BY <1>1, <1>5, <1>6, <1>7, <1>8, <1>12, <2>1
  <2>2. CASE j # i
    BY <1>7, <1>8, <2>2 DEF DeployInv, DlqAccounts, Made
  <2> QED
    BY <2>1, <2>2
<1>14. ~dead => retries < JobLimit
  BY <1>3, LimitPositive, PolicyJobsAssumption DEF Exhausted
<1>15. WithinLimit'
  BY <1>5, <1>7, <1>14 DEF DeployInv, WithinLimit
<1>16. JobStage(i) = "working" /\ JobTries(i) = retries /\ JobTries(i)' = retries
  BY <1>1, <1>2, <1>5, <1>7 DEF JobStage, JobTries, JobRec
<1>17. CASE dead
  <2>1. JobStage(i)' = "parked"
    BY <1>5, <1>7, <1>17 DEF JobStage
  <2>2. Jobs!Park(i)
    BY <1>7, <1>16, <2>1, StagesMove, TrialsSame DEF Jobs!Park, Jobs!Move, Stages, Trials
  <2> QED
    BY <1>7, <1>9, <1>10, <1>11, <1>13, <1>15, <2>2 DEF DeployInv, RetryStep, Jobs!Next
<1>18. CASE ~dead
  <2>1. JobStage(i)' = "waiting"
    BY <1>5, <1>7, <1>18 DEF JobStage
  <2>2. Jobs!Retry(i)
    BY <1>7, <1>14, <1>16, <1>18, <2>1, StagesMove, TrialsSame DEF Jobs!Retry, Jobs!Move, Stages, Trials
  <2> QED
    BY <1>7, <1>9, <1>10, <1>11, <1>13, <1>15, <2>2 DEF DeployInv, RetryStep, Jobs!Next
<1> QED
  BY <1>17, <1>18

\* An entry is written and no job moves; it stays an entry and counts the same.
LEMMA EntryMoves ==
  ASSUME DeployInv, NEW i \in JobIds, entry[i] # NoEntry, NEW e \in EntryRec,
         entry' = [entry EXCEPT ![i] = e], e.requeues = entry[i].requeues,
         UNCHANGED <<job, deploying, minted>>, asking' \in [Admins -> JobIds \cup {NoJob}],
         \A a \in Admins : asking'[a] \in {asking[a], i}
  PROVE  DeployInv' /\ RetryStep
<1>1. \A j \in JobIds : entry'[j] = IF j = i THEN e ELSE entry[j]
  BY DEF DeployInv, DeployTypeOK
<1>2. e # NoEntry
  <2>1. entry[i].requeues = Cardinality(Made(i)) /\ Cardinality(Made(i)) \in Nat
    BY MadeFinite DEF DeployInv, DlqAccounts, Made
  <2> QED
    BY <2>1 DEF NoEntry
<1>3. DeployTypeOK'
  BY DEF DeployInv, DeployTypeOK
<1>4. Filled' /\ HeldOnce' /\ WithinLimit'
  BY DEF DeployInv, Filled, HeldOnce, WithinLimit
<1>5. FromDead'
  BY <1>1, <1>2 DEF DeployInv, DeployTypeOK, JobRec, FromDead
<1>6. DlqAccounts'
  BY <1>1, <1>2 DEF DeployInv, DlqAccounts
<1> QED
  BY <1>3, <1>4, <1>5, <1>6, Stutters DEF DeployInv

LEMMA ArchiveKeeps == ASSUME DeployInv, NEW i \in JobIds, Archive(i) PROVE DeployInv' /\ RetryStep
<1> DEFINE e == [entry[i] EXCEPT !.archived = TRUE]
<1>1. e \in EntryRec /\ e.requeues = entry[i].requeues
  BY DEF DeployInv, DeployTypeOK, EntryRec
<1>2. entry' = [entry EXCEPT ![i] = e] /\ asking' \in [Admins -> JobIds \cup {NoJob}]
  BY DEF Archive, DeployInv, DeployTypeOK
<1> QED
  BY <1>1, <1>2, EntryMoves DEF Archive

LEMMA StartKeeps ==
  ASSUME DeployInv, NEW i \in JobIds, NEW a \in Admins, RequeueStart(a, i) PROVE DeployInv' /\ RetryStep
<1> DEFINE e == [entry[i] EXCEPT !.busy = TRUE]
<1>1. e \in EntryRec /\ e.requeues = entry[i].requeues
  BY DEF DeployInv, DeployTypeOK, EntryRec
<1>2. /\ entry' = [entry EXCEPT ![i] = e] /\ asking' \in [Admins -> JobIds \cup {NoJob}]
      /\ \A b \in Admins : asking'[b] \in {asking[b], i}
  BY DEF RequeueStart, DeployInv, DeployTypeOK
<1> QED
  BY <1>1, <1>2, EntryMoves DEF RequeueStart

LEMMA FinishKeeps == ASSUME DeployInv, NEW a \in Admins, RequeueFinish(a) PROVE DeployInv' /\ RetryStep
<1>1. PICK i \in JobIds : i = asking[a] /\ entry[i] # NoEntry
  BY DEF RequeueFinish, DeployInv, DeployTypeOK, FromDead
<1> DEFINE e == [entry[i] EXCEPT !.busy = FALSE, !.requeues = @ + 1]
<1>2. /\ NextJob \in JobIds /\ AddJob(i) /\ UNCHANGED <<deploying, minted>>
      /\ entry' = [entry EXCEPT ![i] = e] /\ asking' = [asking EXCEPT ![a] = NoJob]
  BY <1>1 DEF RequeueFinish
<1>3. entry[i].requeues = Cardinality(Made(i)) /\ Cardinality(Made(i)) \in Nat
  BY <1>1, MadeFinite DEF DeployInv, DlqAccounts, Made
<1>4. e \in EntryRec /\ e.requeues = Cardinality(Made(i)) + 1
  <2>1. entry[i] \in EntryRec /\ entry[i].requeues + 1 \in Int
    BY <1>3 DEF DeployInv, DeployTypeOK
  <2>2. e \in EntryRec /\ e.requeues = entry[i].requeues + 1
    BY <2>1 DEF EntryRec
  <2> QED
    BY <1>3, <2>2
<1>5. e # NoEntry
  <2> HIDE DEF e
  <2> QED
    BY <1>3, <1>4, NoEntryIs
<1> HIDE DEF e
<1>6. PICK k \in JobIds : k = NextJob
  BY <1>2
<1>7. /\ job' \in [JobIds -> JobRec] /\ Filled' /\ WithinLimit'
      /\ \A j \in JobIds : job'[j] = IF j = k THEN [status |-> "pending", retries |-> 0, from |-> i] ELSE job[j]
      /\ \A j \in JobIds : Made(j)' = IF j = i THEN Made(j) \cup {k} ELSE Made(j)
      /\ \A j \in JobIds : k \notin Made(j)
  BY <1>2, <1>6, JobAdded
<1>8. job[k].status = "absent"
  BY <1>2, <1>6, NextJobFree
<1>9. \A j \in JobIds : entry'[j] = IF j = i THEN e ELSE entry[j]
  BY <1>2 DEF DeployInv, DeployTypeOK
<1>10. DeployTypeOK'
  BY <1>2, <1>4, <1>7 DEF DeployInv, DeployTypeOK
<1>11. HeldOnce'
  BY <1>2, <1>7, <1>8 DEF DeployInv, DeployTypeOK, HeldOnce
<1>12. FromDead'
  <2>1. \A j \in JobIds : entry[j] # NoEntry => entry'[j] # NoEntry
    BY <1>5, <1>9
  <2>2. \A b \in Admins : asking'[b] = IF b = a THEN NoJob ELSE asking[b]
    BY <1>2 DEF DeployInv, DeployTypeOK
  <2> QED
    BY <1>1, <1>7, <2>1, <2>2 DEF DeployInv, DeployTypeOK, JobRec, FromDead
<1>13. DlqAccounts'
  <2> SUFFICES ASSUME NEW j \in JobIds
               PROVE  /\ job'[j].status = "dead" <=> entry'[j] # NoEntry
                      /\ entry'[j] # NoEntry => entry'[j].requeues = Cardinality(Made(j)')
    BY DEF DlqAccounts, Made
  <2>1. job'[j].status = "dead" <=> entry'[j] # NoEntry
    <3>1. job'[j].status = "dead" <=> job[j].status = "dead"
      BY <1>7, <1>8
    <3> QED
      BY <1>1, <1>5, <1>9, <3>1, Counted DEF DeployInv
  <2>2. CASE j = i
    <3>1. Cardinality(Made(i) \cup {k}) = Cardinality(Made(i)) + 1
      BY <1>7, MadeFinite, FS_AddElement
    <3> QED
      BY <1>4, <1>7, <1>9, <2>1, <2>2, <3>1
  <2>3. CASE j # i
    BY <1>7, <1>9, <2>1, <2>3 DEF DeployInv, DlqAccounts, Made
  <2> QED
    BY <2>1, <2>2, <2>3
<1> QED
  BY <1>2, <1>7, <1>10, <1>11, <1>12, <1>13, SubmitStep DEF DeployInv

LEMMA NextDeploy == DeployInv /\ [JobsNext]_jobVars => DeployInv' /\ RetryStep
<1> SUFFICES ASSUME DeployInv, [JobsNext]_jobVars PROVE DeployInv' /\ RetryStep
  OBVIOUS
<1>1. CASE UNCHANGED jobVars
  <2>1. DeployInv'
    BY <1>1 DEF jobVars, DeployInv, DeployTypeOK, Filled, HeldOnce, FromDead, WithinLimit, DlqAccounts
  <2> QED
    BY <1>1, <2>1, Stutters DEF jobVars
<1> QED
  BY <1>1, EnqueueKeeps, ClaimKeeps, SucceedsKeeps, FailureKeeps, ArchiveKeeps, StartKeeps, FinishKeeps
  DEF JobsNext

LEMMA InitRetry == JobsInit => Jobs!Init
<1> SUFFICES ASSUME JobsInit PROVE Jobs!Init
  OBVIOUS
<1>1. \A i \in JobIds : JobStage(i) = "absent" /\ JobTries(i) = 0
  BY DEF JobsInit, JobStage, JobTries, Absent
<1> QED
  BY <1>1 DEF Jobs!Init

-----------------------------------------------------------------------------
(* The event queue.                                                         *)

EventTypeOK ==
  /\ evQueue \in Seq(Events) /\ evTries \in [Events -> Nat]
  /\ evStage \in [Events -> {"absent", "waiting", "working", "done", "parked"}]
  /\ handling \in [Consumers -> Events \cup {NoEvent}]

\* A message is in the queue once, and one consumer at a time has it.
QueueInv ==
  /\ EventTypeOK
  /\ \A k \in 1..Len(evQueue) :
       /\ evStage[evQueue[k]] = "waiting"
       /\ \A l \in 1..Len(evQueue) : evQueue[k] = evQueue[l] => k = l
  /\ \A c \in Consumers : handling[c] # NoEvent =>
       /\ evStage[handling[c]] = "working"
       /\ \A d \in Consumers : handling[d] = handling[c] => d = c
  /\ \A e \in Events : evStage[e] \in {"absent", "waiting"} => evTries[e] < EventAttempts

QueueStep == [Queue!Next]_<<evStage, evTries>>

LEMMA InitQueue == EventsInit => QueueInv /\ Queue!Init
  BY PolicyJobsAssumption DEF EventsInit, QueueInv, EventTypeOK, Queue!Init

\* A message that is not in the queue goes to its end.
LEMMA Appended ==
  ASSUME evQueue \in Seq(Events), NEW e \in Events, evQueue' = Append(evQueue, e),
         \A k \in 1..Len(evQueue) : evQueue[k] # e,
         \A k, l \in 1..Len(evQueue) : evQueue[k] = evQueue[l] => k = l
  PROVE  /\ evQueue' \in Seq(Events)
         /\ \A k \in 1..Len(evQueue') : evQueue'[k] = e \/ \E l \in 1..Len(evQueue) : evQueue'[k] = evQueue[l]
         /\ \A k, l \in 1..Len(evQueue') : evQueue'[k] = evQueue'[l] => k = l
<1>1. /\ evQueue' \in Seq(Events) /\ Len(evQueue') = Len(evQueue) + 1 /\ Len(evQueue) \in Nat
      /\ \A k \in 1..Len(evQueue) : evQueue'[k] = evQueue[k]
      /\ evQueue'[Len(evQueue) + 1] = e
  OBVIOUS
<1>2. \A k \in 1..Len(evQueue') : k \in 1..Len(evQueue) \/ k = Len(evQueue) + 1
  BY <1>1
<1> QED
  BY <1>1, <1>2

LEMMA EnqueueEvent == ASSUME QueueInv, NEW e \in Events, Enqueue(e) PROVE QueueInv' /\ QueueStep
<1>1. \A k \in 1..Len(evQueue) : evQueue[k] # e
  BY DEF QueueInv, Enqueue
<1>2. \A f \in Events : evStage'[f] = IF f = e THEN "waiting" ELSE evStage[f]
  BY DEF Enqueue, QueueInv, EventTypeOK
<1>3. /\ evQueue' \in Seq(Events)
      /\ \A k \in 1..Len(evQueue') : evQueue'[k] = e \/ \E l \in 1..Len(evQueue) : evQueue'[k] = evQueue[l]
      /\ \A k, l \in 1..Len(evQueue') : evQueue'[k] = evQueue'[l] => k = l
  BY <1>1, Appended DEF Enqueue, QueueInv, EventTypeOK
<1>4. EventTypeOK'
  BY <1>3 DEF Enqueue, QueueInv, EventTypeOK
<1>5. ASSUME NEW k \in 1..Len(evQueue') PROVE evStage'[evQueue'[k]] = "waiting"
  <2>1. CASE evQueue'[k] = e
    BY <1>2, <2>1
  <2>2. CASE \E l \in 1..Len(evQueue) : evQueue'[k] = evQueue[l]
    <3>1. PICK l \in 1..Len(evQueue) : evQueue'[k] = evQueue[l]
      BY <2>2
    <3>2. evQueue[l] \in Events /\ evQueue[l] # e /\ evStage[evQueue[l]] = "waiting"
      BY <1>1 DEF QueueInv, EventTypeOK
    <3> QED
      BY <1>2, <3>1, <3>2
  <2> QED
    BY <1>3, <2>1, <2>2
<1>6. \A c \in Consumers : handling'[c] # NoEvent =>
        evStage'[handling'[c]] = "working" /\ \A d \in Consumers : handling'[d] = handling'[c] => d = c
  BY <1>2 DEF Enqueue, QueueInv, EventTypeOK
<1>7. \A f \in Events : evStage'[f] \in {"absent", "waiting"} => evTries'[f] < EventAttempts
  BY <1>2 DEF Enqueue, QueueInv
<1>8. Queue!Submit(e)
  BY DEF Queue!Submit, Queue!Move, Enqueue
<1> QED
  BY <1>3, <1>4, <1>5, <1>6, <1>7, <1>8 DEF QueueInv, QueueStep, Queue!Next

LEMMA TakeKeeps == ASSUME QueueInv, NEW c \in Consumers, TakeEvent(c) PROVE QueueInv' /\ QueueStep
<1>1. evQueue \in Seq(Events) /\ evQueue # <<>>
  BY DEF TakeEvent, QueueInv, EventTypeOK
<1>2. PICK e \in Events : e = Head(evQueue) /\ e = evQueue[1] /\ 1 \in 1..Len(evQueue)
  BY <1>1
<1>3. evStage[e] = "waiting" /\ evTries[e] < EventAttempts /\ e # NoEvent
  BY <1>2, PolicyJobsAssumption DEF QueueInv, NoEvent
<1>4. /\ evQueue' = Tail(evQueue) /\ handling[c] = NoEvent
      /\ evTries' = [evTries EXCEPT ![e] = @ + 1]
      /\ evStage' = [evStage EXCEPT ![e] = "working"] /\ handling' = [handling EXCEPT ![c] = e]
  BY <1>2 DEF TakeEvent
<1>5. /\ \A f \in Events : evStage'[f] = IF f = e THEN "working" ELSE evStage[f]
      /\ \A f \in Events : f # e => evTries'[f] = evTries[f]
      /\ \A d \in Consumers : handling'[d] = IF d = c THEN e ELSE handling[d]
  BY <1>4 DEF QueueInv, EventTypeOK
<1>6. /\ evQueue' \in Seq(Events)
      /\ \A k \in 1..Len(evQueue') : k + 1 \in 1..Len(evQueue) /\ evQueue'[k] = evQueue[k + 1] /\ k \in Nat \ {0}
  BY <1>1, <1>4
<1>7. EventTypeOK'
  BY <1>4, <1>6 DEF QueueInv, EventTypeOK
<1>8. ASSUME NEW k \in 1..Len(evQueue')
      PROVE  evStage'[evQueue'[k]] = "waiting" /\ \A l \in 1..Len(evQueue') : evQueue'[k] = evQueue'[l] => k = l
  <2>1. evQueue'[k] = evQueue[k + 1] /\ k + 1 \in 1..Len(evQueue) /\ k + 1 # 1
    BY <1>6
  <2>2. evQueue[k + 1] # e /\ evQueue[k + 1] \in Events
    BY <1>1, <1>2, <2>1 DEF QueueInv
  <2>3. evStage'[evQueue'[k]] = "waiting"
    BY <1>5, <2>1, <2>2 DEF QueueInv
  <2>4. ASSUME NEW l \in 1..Len(evQueue'), evQueue'[k] = evQueue'[l] PROVE k = l
    <3>1. k + 1 = l + 1
      <4>1. evQueue[k + 1] = evQueue[l + 1] /\ k + 1 \in 1..Len(evQueue) /\ l + 1 \in 1..Len(evQueue)
        BY <1>6, <2>4
      <4> QED
        BY <4>1 DEF QueueInv
    <3> QED
      BY <1>6, <3>1
  <2> QED
    BY <2>3, <2>4
<1>9. \A d \in Consumers : handling[d] # e
  BY <1>3 DEF QueueInv
<1>10. \A d \in Consumers : handling'[d] # NoEvent =>
        evStage'[handling'[d]] = "working" /\ \A b \in Consumers : handling'[b] = handling'[d] => b = d
  BY <1>3, <1>5, <1>9 DEF QueueInv, EventTypeOK
<1>11. \A f \in Events : evStage'[f] \in {"absent", "waiting"} => evTries'[f] < EventAttempts
  BY <1>5 DEF QueueInv
<1>12. Queue!Take(e)
  BY <1>3, <1>4 DEF Queue!Take, Queue!Move
<1> QED
  BY <1>7, <1>8, <1>10, <1>11, <1>12 DEF QueueInv, QueueStep, Queue!Next

\* A consumer's message, and a consumer that is rid of it.
LEMMA AtMessage ==
  ASSUME QueueInv, NEW c \in Consumers, handling[c] # NoEvent
  PROVE  /\ handling[c] \in Events /\ evStage[handling[c]] = "working"
         /\ \A k \in 1..Len(evQueue) : evQueue[k] # handling[c]
         /\ \A d \in Consumers : d # c => handling[d] # handling[c]
  BY DEF QueueInv, EventTypeOK

LEMMA OkKeeps == ASSUME QueueInv, NEW c \in Consumers, HandlerOk(c) PROVE QueueInv' /\ QueueStep
<1>1. PICK e \in Events : e = handling[c] /\ evStage[e] = "working"
  BY AtMessage DEF HandlerOk
<1>2. /\ \A k \in 1..Len(evQueue) : evQueue[k] # e
      /\ \A d \in Consumers : d # c => handling[d] # e
  BY <1>1, AtMessage DEF HandlerOk
<1>3. /\ evStage' = [evStage EXCEPT ![e] = "done"] /\ handling' = [handling EXCEPT ![c] = NoEvent]
      /\ UNCHANGED <<evQueue, evTries>>
  BY <1>1 DEF HandlerOk
<1>4. /\ \A f \in Events : evStage'[f] = IF f = e THEN "done" ELSE evStage[f]
      /\ \A d \in Consumers : handling'[d] = IF d = c THEN NoEvent ELSE handling[d]
  BY <1>3 DEF QueueInv, EventTypeOK
<1>5. EventTypeOK'
  BY <1>3 DEF QueueInv, EventTypeOK
<1>6. \A k \in 1..Len(evQueue') :
        evStage'[evQueue'[k]] = "waiting" /\ \A l \in 1..Len(evQueue') : evQueue'[k] = evQueue'[l] => k = l
  BY <1>2, <1>3, <1>4 DEF QueueInv, EventTypeOK
<1>7. \A d \in Consumers : handling'[d] # NoEvent =>
        evStage'[handling'[d]] = "working" /\ \A b \in Consumers : handling'[b] = handling'[d] => b = d
  BY <1>2, <1>4 DEF QueueInv, EventTypeOK
<1>8. \A f \in Events : evStage'[f] \in {"absent", "waiting"} => evTries'[f] < EventAttempts
  BY <1>3, <1>4 DEF QueueInv
<1>9. Queue!Finish(e)
  BY <1>1, <1>3 DEF Queue!Finish, Queue!Move
<1> QED
  BY <1>5, <1>6, <1>7, <1>8, <1>9 DEF QueueInv, QueueStep, Queue!Next

LEMMA FailsKeeps == ASSUME QueueInv, NEW c \in Consumers, HandlerFails(c) PROVE QueueInv' /\ QueueStep
<1>1. PICK e \in Events : e = handling[c] /\ evStage[e] = "working"
  BY AtMessage DEF HandlerFails
<1>2. /\ \A k \in 1..Len(evQueue) : evQueue[k] # e
      /\ \A d \in Consumers : d # c => handling[d] # e
  BY <1>1, AtMessage DEF HandlerFails
<1>3. PICK to \in {"parked", "waiting"} :
        /\ evStage' = [evStage EXCEPT ![e] = to] /\ to = (IF IsPoison(e) THEN "parked" ELSE "waiting")
  BY <1>1 DEF HandlerFails
<1>4. /\ evQueue' = IF IsPoison(e) THEN evQueue ELSE Append(evQueue, e)
      /\ handling' = [handling EXCEPT ![c] = NoEvent] /\ evTries' = evTries
  BY <1>1 DEF HandlerFails, Requeued
<1>5. ~IsPoison(e) => evTries[e] < EventAttempts
  BY PolicyJobsAssumption DEF IsPoison, QueueInv, EventTypeOK
<1>6. /\ \A f \in Events : evStage'[f] = IF f = e THEN to ELSE evStage[f]
      /\ \A d \in Consumers : handling'[d] = IF d = c THEN NoEvent ELSE handling[d]
  BY <1>3, <1>4 DEF QueueInv, EventTypeOK
<1>7. /\ evQueue' \in Seq(Events)
      /\ \A k \in 1..Len(evQueue') :
           (~IsPoison(e) /\ evQueue'[k] = e) \/ \E l \in 1..Len(evQueue) : evQueue'[k] = evQueue[l]
      /\ \A k, l \in 1..Len(evQueue') : evQueue'[k] = evQueue'[l] => k = l
  <2>1. CASE IsPoison(e)
    BY <1>4, <2>1 DEF QueueInv, EventTypeOK
  <2>2. CASE ~IsPoison(e)
    BY <1>2, <1>4, <2>2, Appended DEF QueueInv, EventTypeOK
  <2> QED
    BY <2>1, <2>2
<1>8. EventTypeOK'
  BY <1>3, <1>4, <1>7 DEF QueueInv, EventTypeOK
<1>9. ASSUME NEW k \in 1..Len(evQueue') PROVE evStage'[evQueue'[k]] = "waiting"
  <2>1. CASE ~IsPoison(e) /\ evQueue'[k] = e
    BY <1>3, <1>6, <2>1
  <2>2. CASE \E l \in 1..Len(evQueue) : evQueue'[k] = evQueue[l]
    <3>1. PICK l \in 1..Len(evQueue) : evQueue'[k] = evQueue[l]
      BY <2>2
    <3>2. evQueue[l] \in Events /\ evQueue[l] # e /\ evStage[evQueue[l]] = "waiting"
      BY <1>2 DEF QueueInv, EventTypeOK
    <3> QED
      BY <1>6, <3>1, <3>2
  <2> QED
    BY <1>7, <2>1, <2>2
<1>10. \A d \in Consumers : handling'[d] # NoEvent =>
        evStage'[handling'[d]] = "working" /\ \A b \in Consumers : handling'[b] = handling'[d] => b = d
  BY <1>2, <1>6 DEF QueueInv, EventTypeOK
<1>11. \A f \in Events : evStage'[f] \in {"absent", "waiting"} => evTries'[f] < EventAttempts
  BY <1>3, <1>4, <1>5, <1>6 DEF QueueInv
<1>12. Queue!Retry(e) \/ Queue!Park(e)
  BY <1>1, <1>3, <1>4, <1>5 DEF Queue!Retry, Queue!Park, Queue!Move
<1> QED
  BY <1>7, <1>8, <1>9, <1>10, <1>11, <1>12 DEF QueueInv, QueueStep, Queue!Next

LEMMA NextQueue == QueueInv /\ [EventsNext]_evVars => QueueInv' /\ QueueStep
<1> SUFFICES ASSUME QueueInv, [EventsNext]_evVars PROVE QueueInv' /\ QueueStep
  OBVIOUS
<1>1. CASE UNCHANGED evVars
  BY <1>1 DEF evVars, QueueInv, EventTypeOK, QueueStep
<1> QED
  BY <1>1, EnqueueEvent, TakeKeeps, OkKeeps, FailsKeeps DEF EventsNext

-----------------------------------------------------------------------------
(* policy-service as a part of the whole.                                   *)

\* A step of the whole is a step of policy-service's routes, of its jobs and of
\* its events, or none.
LEMMA PolicyMoves ==
  [MCNext]_allVars => [ServiceNext]_serviceVars /\ [JobsNext]_jobVars /\ [EventsNext]_evVars
<1> SUFFICES ASSUME [MCNext]_allVars
             PROVE  [ServiceNext]_serviceVars /\ [JobsNext]_jobVars /\ [EventsNext]_evVars
  OBVIOUS
<1>1. CASE PolicyNext
  BY <1>1 DEF PolicyNext, serviceVars, jobVars, evVars
<1>2. CASE UNCHANGED policyState
  BY <1>2 DEF policyState, serviceVars, jobVars, evVars
<1> QED
  BY <1>1, <1>2 DEF MCNext, allVars, policyState

PolicyInv == ServiceInv /\ DeploysMetered /\ DeployInv

\* What policy-service says of its deployments is true, for any number of
\* policies, handlers, jobs, workers and administrators: a record's instance and
\* its verified attach are on the chain whatever copies race, every contract of
\* the public route was charged first, and the dead letters account for the dead
\* jobs and what was requeued (server.ts, policy-deploy-worker.ts, admin-dlq.ts).
THEOREM DeploymentsStayTrue == MCSpec => []DeploymentsTrue
<1>1. MCInit => PolicyInv
  BY InitService, InitMetered, InitDeploy DEF MCInit, PolicyInv
<1>2. PolicyInv /\ [MCNext]_allVars => PolicyInv'
  BY PolicyMoves, NextService, NextMetered, NextDeploy DEF PolicyInv
<1>3. PolicyInv => DeploymentsTrue
  BY ServiceTruth DEF PolicyInv, DeploymentsTrue, DeployInv
<1> QED
  BY <1>1, <1>2, <1>3, PTL DEF MCSpec, allVars

\* The deploy jobs implement BoundedRetry for every number of jobs, workers and
\* administrators and every limit: no job is tried more often than
\* handleFailure's limits allow, and none leaves the end it reached.
THEOREM DeployJobsImplementRetry == MCSpec => DeployJobsRetry
<1>1. MCInit => DeployInv /\ Jobs!Init
  BY InitDeploy, InitRetry DEF MCInit
<1>2. DeployInv /\ [MCNext]_allVars => DeployInv' /\ [Jobs!Next]_<<[i \in JobIds |-> JobStage(i)], [i \in JobIds |-> JobTries(i)]>>
  BY PolicyMoves, NextDeploy DEF RetryStep, Stages, Trials
<1> QED
  BY <1>1, <1>2, PTL DEF MCSpec, allVars, DeployJobsRetry, Jobs!Spec

\* The event queue implements BoundedRetry for any messages and consumers: each
\* message is handed to one consumer at a time, at most maxAttempts times, and
\* one that was handled or quarantined stays so (event-queue.ts).
THEOREM EventsImplementRetry == MCSpec => EventsRetry
<1>1. MCInit => QueueInv /\ Queue!Init
  BY InitQueue DEF MCInit
<1>2. QueueInv /\ [MCNext]_allVars => QueueInv' /\ [Queue!Next]_<<evStage, evTries>>
  BY PolicyMoves, NextQueue DEF QueueStep
<1> QED
  BY <1>1, <1>2, PTL DEF MCSpec, allVars, EventsRetry, Queue!Spec

-----------------------------------------------------------------------------
(* Sums.  What the fold of a function over a set adds up to is the number  *)
(* of pairs of an index and one of the units it stands for.                *)

Times == 0..MaxClock

LEMMA TimesFinite == IsFiniteSet(Times)
  BY FS_Interval, GatewayConstants DEF Times

Units(f, S) == UNION {{i} \X (1..f[i]) : i \in S}

LEMMA UnitsOfOne ==
  ASSUME NEW i, NEW n \in Nat
  PROVE  IsFiniteSet({i} \X (1..n)) /\ Cardinality({i} \X (1..n)) = n
<1>1. IsFiniteSet(1..n) /\ Cardinality(1..n) = n
  BY FS_Interval
<1>2. IsFiniteSet({i}) /\ Cardinality({i}) = 1
  BY FS_Singleton
<1>3. /\ IsFiniteSet({i} \X (1..n))
      /\ Cardinality({i} \X (1..n)) = Cardinality({i}) * Cardinality(1..n)
  BY <1>1, <1>2, FS_Product
<1> QED
  BY <1>1, <1>2, <1>3

LEMMA UnitsFinite ==
  ASSUME NEW f \in [Times -> Nat], NEW S \in SUBSET Times
  PROVE  IsFiniteSet(Units(f, S)) /\ Cardinality(Units(f, S)) \in Nat
<1> DEFINE g == [i \in S |-> {i} \X (1..f[i])]
           T == {{i} \X (1..f[i]) : i \in S}
<1>1. IsFiniteSet(S)
  BY TimesFinite, FS_Subset
<1>2. g \in Surjection(S, T)
  BY DEF Surjection
<1>3. \A x \in T : IsFiniteSet(x)
  <2>1. ASSUME NEW i \in S PROVE IsFiniteSet({i} \X (1..f[i]))
    <3>1. f[i] \in Nat
      OBVIOUS
    <3> QED
      BY <3>1, UnitsOfOne
  <2> QED
    BY <2>1
<1>4. Units(f, S) = UNION T
  BY DEF Units
<1> HIDE DEF g, T
<1>5. IsFiniteSet(T)
  BY <1>1, <1>2, FS_Surjection
<1>6. IsFiniteSet(UNION T)
  BY <1>3, <1>5, FS_UNION
<1> QED
  BY <1>4, <1>6, FS_CardinalityType

LEMMA UnitsAdd ==
  ASSUME NEW f \in [Times -> Nat], NEW S \in SUBSET Times, NEW i \in Times, i \notin S
  PROVE  Cardinality(Units(f, S \cup {i})) = Cardinality(Units(f, S)) + f[i]
<1> DEFINE one == {i} \X (1..f[i])
<1>1. Units(f, S \cup {i}) = Units(f, S) \cup one /\ Units(f, S) \cap one = {}
  BY DEF Units
<1>2. IsFiniteSet(Units(f, S)) /\ Cardinality(Units(f, S)) \in Nat
  BY UnitsFinite
<1>3. f[i] \in Nat
  OBVIOUS
<1>4. IsFiniteSet(one) /\ Cardinality(one) = f[i]
  BY <1>3, UnitsOfOne
<1> HIDE DEF one
<1>5. Cardinality(Units(f, S) \cup one) =
        Cardinality(Units(f, S)) + Cardinality(one) - Cardinality(Units(f, S) \cap one)
  BY <1>2, <1>4, FS_Union
<1>6. Cardinality({}) = 0
  BY FS_EmptySet
<1>7. Cardinality(Units(f, S \cup {i})) = Cardinality(Units(f, S)) + f[i] - 0
  BY <1>1, <1>4, <1>5, <1>6
<1> QED
  BY <1>2, <1>3, <1>7

\* The fold takes the elements of a set in the order CHOOSE has them.
Choice(s) == CHOOSE x \in s : TRUE
Totals(iter, f, S) ==
  iter = [s \in SUBSET S |-> IF s = {} THEN 0 ELSE f[Choice(s)] + iter[s \ {Choice(s)}]]

SumOver(f, S) == FoldFunctionOnSet(+, 0, f, S)

LEMMA SumCounts ==
  ASSUME NEW f \in [Times -> Nat], NEW S \in SUBSET Times
  PROVE  SumOver(f, S) = Cardinality(Units(f, S))
<1> DEFINE count == [s \in SUBSET S |-> Cardinality(Units(f, s))]
           iter  == CHOOSE it : Totals(it, f, S)
<1>0. Cardinality(Units(f, {})) = 0
  <2>1. Units(f, {}) = {}
    BY DEF Units
  <2> QED
    BY <2>1, FS_EmptySet
<1>1. ASSUME NEW s \in SUBSET S, s # {}
      PROVE  Choice(s) \in s /\ Cardinality(Units(f, s)) = f[Choice(s)] + Cardinality(Units(f, s \ {Choice(s)}))
  <2>1. Choice(s) \in s
    BY <1>1 DEF Choice
  <2>2. /\ s \ {Choice(s)} \in SUBSET Times /\ Choice(s) \in Times
        /\ Choice(s) \notin s \ {Choice(s)} /\ s = (s \ {Choice(s)}) \cup {Choice(s)}
    BY <2>1
  <2>3. Cardinality(Units(f, s)) = Cardinality(Units(f, s \ {Choice(s)})) + f[Choice(s)]
    BY <2>2, UnitsAdd
  <2>4. Cardinality(Units(f, s \ {Choice(s)})) \in Nat /\ f[Choice(s)] \in Nat
    BY <2>2, UnitsFinite
  <2> QED
    BY <2>1, <2>3, <2>4
<1>2. Totals(count, f, S)
  <2>1. ASSUME NEW s \in SUBSET S
        PROVE  count[s] = IF s = {} THEN 0 ELSE f[Choice(s)] + count[s \ {Choice(s)}]
    BY <1>0, <1>1
  <2> QED
    BY <2>1 DEF Totals
<1>3. Totals(iter, f, S)
  BY <1>2
<1>4. SumOver(f, S) = iter[S]
  BY DEF SumOver, FoldFunctionOnSet, MapThenFoldSet, Totals, Choice
<1> HIDE DEF iter, count
<1>5. \A s \in SUBSET S : iter[s] = Cardinality(Units(f, s))
  <2> DEFINE T == {s \in SUBSET S : iter[s] # Cardinality(Units(f, s))}
  <2> SUFFICES ASSUME T # {} PROVE FALSE
    OBVIOUS
  <2>1. IsFiniteSet(S)
    BY TimesFinite, FS_Subset
  <2>2. IsWellFoundedOn(StrictSubsetOrdering(S), FiniteSubsetsOf(S))
    BY FS_StrictSubsetOrderingWellFounded
  <2>3. T \subseteq FiniteSubsetsOf(S)
    BY <2>1, FS_FiniteSubsetsOfFinite
  <2>4. PICK s \in T : \A q \in T : ~(<<q, s>> \in StrictSubsetOrdering(S))
    BY <2>2, <2>3, WFMin
  <2>5. iter[s] = IF s = {} THEN 0 ELSE f[Choice(s)] + iter[s \ {Choice(s)}]
    BY <1>3 DEF Totals
  <2>6. s # {}
    BY <2>5, <1>0
  <2>7. Choice(s) \in s /\ Cardinality(Units(f, s)) = f[Choice(s)] + Cardinality(Units(f, s \ {Choice(s)}))
    BY <2>6, <1>1
  <2>8. s \ {Choice(s)} \notin T
    <3>1. s \ {Choice(s)} \in SUBSET S /\ s \in SUBSET S
      OBVIOUS
    <3>2. s \ {Choice(s)} \subseteq s /\ s \ {Choice(s)} # s
      BY <2>7
    <3>3. <<s \ {Choice(s)}, s>> \in StrictSubsetOrdering(S)
      BY <3>1, <3>2 DEF StrictSubsetOrdering
    <3> QED
      BY <2>4, <3>3
  <2> QED
    BY <2>5, <2>6, <2>7, <2>8
<1> QED
  BY <1>4, <1>5

LEMMA SumNat ==
  ASSUME NEW f \in [Times -> Nat], NEW S \in SUBSET Times
  PROVE  SumOver(f, S) \in Nat
  BY SumCounts, UnitsFinite

LEMMA SumAdd ==
  ASSUME NEW f \in [Times -> Nat], NEW S \in SUBSET Times, NEW i \in Times, i \notin S
  PROVE  SumOver(f, S \cup {i}) = SumOver(f, S) + f[i]
<1>1. S \cup {i} \in SUBSET Times
  OBVIOUS
<1> QED
  BY <1>1, SumCounts, UnitsAdd

LEMMA SumAgrees ==
  ASSUME NEW f \in [Times -> Nat], NEW g \in [Times -> Nat], NEW S \in SUBSET Times,
         \A i \in S : f[i] = g[i]
  PROVE  SumOver(f, S) = SumOver(g, S)
<1>1. Units(f, S) = Units(g, S)
  BY DEF Units
<1> QED
  BY <1>1, SumCounts

LEMMA SumBumped ==
  ASSUME NEW f \in [Times -> Nat], NEW g \in [Times -> Nat], NEW S \in SUBSET Times, NEW i \in S,
         g[i] = f[i] + 1, \A j \in Times : j # i => g[j] = f[j]
  PROVE  SumOver(g, S) = SumOver(f, S) + 1
<1>1. PICK rest \in SUBSET Times : rest = S \ {i}
  OBVIOUS
<1>2. i \in Times /\ i \notin rest /\ S = rest \cup {i}
  BY <1>1
<1>3. SumOver(g, rest) = SumOver(f, rest)
  <2>1. \A j \in rest : g[j] = f[j]
    BY <1>1, <1>2
  <2> QED
    BY <2>1, SumAgrees
<1>4. SumOver(g, rest \cup {i}) = SumOver(g, rest) + g[i]
  BY <1>2, SumAdd
<1>5. SumOver(f, rest \cup {i}) = SumOver(f, rest) + f[i]
  BY <1>2, SumAdd
<1>6. SumOver(f, rest) \in Nat /\ f[i] \in Nat
  BY <1>2, SumNat
<1> QED
  BY <1>2, <1>3, <1>4, <1>5, <1>6

-----------------------------------------------------------------------------
(* The limiter.                                                             *)

LimiterTypeOK ==
  /\ clock \in Times
  /\ bucket \in [Tenants -> [tokens : Nat, last : Nat]]
  /\ admitted \in [Tenants -> [Times -> Nat]]
  /\ \A t \in Tenants : bucket[t] # NoBucket => bucket[t].tokens <= Capacity /\ bucket[t].last <= clock

Span(t, a, b) == SumOver(admitted[t], a..b)

\* What a span up to now let through, and what the bucket could still let
\* through now, are within a bucket and what the span refilled.
Spanned ==
  \A t \in Tenants : \A a \in 0..clock : Span(t, a, clock) + Refilled(t) <= Capacity + RefillRate * (clock - a)

RateBounded ==
  \A t \in Tenants : \A a \in 0..clock : \A b \in a..clock : Span(t, a, b) <= Capacity + RefillRate * (b - a)

LEMMA RateIs == TenantRateBound <=> RateBounded
  BY DEF TenantRateBound, RateBounded, Span, SumOver

LimiterInv ==
  /\ LimiterTypeOK
  /\ \A t \in Tenants : \A i \in Times : i > clock => admitted[t][i] = 0
  /\ Spanned /\ RateBounded

LEMMA MinOf ==
  ASSUME NEW a \in Nat, NEW b \in Nat
  PROVE  Min({a, b}) = IF a <= b THEN a ELSE b
<1>1. Min({a, b}) \in {a, b} /\ \A x \in {a, b} : Min({a, b}) <= x
  <2>1. {a, b} \in SUBSET Nat /\ {a, b} # {}
    OBVIOUS
  <2> QED
    BY <2>1, Least
<1>2. PICK m : m = Min({a, b})
  OBVIOUS
<1> QED
  BY <1>1, <1>2

\* A bucket that was seen has been filling ever since.
Earned(t) == bucket[t].tokens + (clock - bucket[t].last) * RefillRate

Refilling ==
  \A t \in Tenants :
    /\ Refilled(t) \in Nat /\ Refilled(t) <= Capacity
    /\ bucket[t] = NoBucket => Refilled(t) = Capacity
    /\ bucket[t] # NoBucket =>
         /\ Earned(t) \in Nat
         /\ Refilled(t) = IF Capacity <= Earned(t) THEN Capacity ELSE Earned(t)

LEMMA RefilledIs == LimiterTypeOK => Refilling
<1> SUFFICES ASSUME LimiterTypeOK, NEW t \in Tenants
             PROVE  /\ Refilled(t) \in Nat /\ Refilled(t) <= Capacity
                    /\ bucket[t] = NoBucket => Refilled(t) = Capacity
                    /\ bucket[t] # NoBucket =>
                         /\ Earned(t) \in Nat
                         /\ Refilled(t) = IF Capacity <= Earned(t) THEN Capacity ELSE Earned(t)
  BY DEF Refilling
<1>1. CASE bucket[t] = NoBucket
  BY <1>1, GatewayConstants DEF Refilled
<1>2. CASE bucket[t] # NoBucket
  <2>1. clock - bucket[t].last \in Nat /\ bucket[t].tokens \in Nat
    BY <1>2, GatewayConstants DEF LimiterTypeOK, Times
  <2>2. (clock - bucket[t].last) * RefillRate \in Nat
    <3>1. \A d \in Nat : d * RefillRate \in Nat
      BY GatewayConstants
    <3> QED
      BY <2>1, <3>1
  <2>3. PICK x \in Nat : x = bucket[t].tokens + (clock - bucket[t].last) * RefillRate
    BY <2>1, <2>2
  <2>4. Refilled(t) = Min({Capacity, x})
    BY <1>2, <2>3 DEF Refilled
  <2>5. Refilled(t) = IF Capacity <= x THEN Capacity ELSE x
    BY <2>4, MinOf, GatewayConstants
  <2> QED
    BY <1>2, <2>3, <2>5, GatewayConstants DEF Earned
<1> QED
  BY <1>1, <1>2

LEMMA RefilledNext == LimiterTypeOK' => Refilling'
  BY RefilledIs, PTL

LEMMA ClockFinite == \A a, b \in Times : a..b \in SUBSET Times
  BY GatewayConstants DEF Times

LEMMA SpanNat ==
  ASSUME LimiterTypeOK, NEW t \in Tenants, NEW a \in Times, NEW b \in Times
  PROVE  Span(t, a, b) \in Nat
<1>1. admitted[t] \in [Times -> Nat]
  BY DEF LimiterTypeOK
<1>2. a..b \in SUBSET Times
  BY ClockFinite
<1> QED
  BY <1>1, <1>2, SumNat DEF Span

\* The bound at the present follows from what the bucket holds.
BoundedNow ==
  \A t \in Tenants : \A a \in 0..clock : Span(t, a, clock) <= Capacity + RefillRate * (clock - a)

LEMMA BoundNow == LimiterTypeOK /\ Spanned => BoundedNow
<1> SUFFICES ASSUME LimiterTypeOK, Spanned, NEW t \in Tenants, NEW a \in 0..clock
             PROVE  Span(t, a, clock) <= Capacity + RefillRate * (clock - a)
  BY DEF BoundedNow
<1>1. a \in Times /\ clock \in Times
  BY GatewayConstants DEF LimiterTypeOK, Times
<1>2. Span(t, a, clock) \in Nat /\ Refilled(t) \in Nat
  BY <1>1, SpanNat, RefilledIs DEF Refilling
<1>3. Span(t, a, clock) + Refilled(t) <= Capacity + RefillRate * (clock - a)
  BY DEF Spanned
<1>4. RefillRate * (clock - a) \in Int
  BY <1>1, GatewayConstants DEF Times
<1> QED
  BY <1>2, <1>3, <1>4, GatewayConstants

LEMMA BoundNext == LimiterTypeOK' /\ Spanned' => BoundedNow'
  BY BoundNow, PTL

LEMMA InitLimiter == GatewayInit => LimiterInv
<1> SUFFICES ASSUME GatewayInit PROVE LimiterInv
  OBVIOUS
<1>1. LimiterTypeOK
  BY GatewayConstants DEF GatewayInit, LimiterTypeOK, NoBucket, Times
<1>2. ASSUME NEW t \in Tenants PROVE Span(t, 0, 0) = 0 /\ Refilled(t) = Capacity
  <2>1. admitted[t] \in [Times -> Nat] /\ admitted[t][0] = 0 /\ 0 \in Times
    BY GatewayConstants DEF GatewayInit, Times
  <2>2. SumOver(admitted[t], {} \cup {0}) = SumOver(admitted[t], {}) + 0
    BY <2>1, SumAdd
  <2>3. SumOver(admitted[t], {}) = 0
    <3>1. Units(admitted[t], {}) = {}
      BY DEF Units
    <3> QED
      BY <2>1, <3>1, SumCounts, FS_EmptySet
  <2>4. 0..0 = {} \cup {0}
    OBVIOUS
  <2>5. bucket[t] = NoBucket
    BY DEF GatewayInit
  <2> QED
    BY <1>1, <2>2, <2>3, <2>4, <2>5, RefilledIs DEF Span, Refilling
<1>3. Spanned
  BY <1>2, GatewayConstants DEF GatewayInit, Spanned
<1>4. RateBounded
  <2> SUFFICES ASSUME NEW t \in Tenants, NEW a \in 0..clock, NEW b \in a..clock
               PROVE  Span(t, a, b) <= Capacity + RefillRate * (b - a)
    BY DEF RateBounded
  <2>1. b = clock
    BY DEF GatewayInit
  <2> QED
    BY <1>1, <1>3, <2>1, BoundNow DEF BoundedNow
<1>5. \A t \in Tenants : \A i \in Times : i > clock => admitted[t][i] = 0
  BY DEF GatewayInit, Times
<1> QED
  BY <1>1, <1>3, <1>4, <1>5 DEF LimiterInv

\* A moment more in which nothing was let through, and one alone.
LEMMA SumLater ==
  ASSUME NEW f \in [Times -> Nat], NEW a \in Times, NEW c \in Times, a <= c, c + 1 \in Times, f[c + 1] = 0
  PROVE  SumOver(f, a..(c + 1)) = SumOver(f, a..c) /\ SumOver(f, a..c) \in Nat
<1>1. PICK S \in SUBSET Times : S = a..c
  BY ClockFinite
<1>2. PICK d \in Times : d = c + 1
  OBVIOUS
<1>3. a..d = S \cup {d} /\ d \notin S
  BY <1>1, <1>2, GatewayConstants DEF Times
<1>4. SumOver(f, S \cup {d}) = SumOver(f, S) + f[d]
  BY <1>3, SumAdd
<1>5. SumOver(f, S) \in Nat
  BY SumNat
<1>6. f[d] = 0
  BY <1>2
<1>7. SumOver(f, a..d) = SumOver(f, S)
  <2>1. SumOver(f, a..d) = SumOver(f, S \cup {d})
    BY <1>3, Zenon
  <2> QED
    BY <2>1, <1>4, <1>5, <1>6
<1> QED
  BY <1>1, <1>2, <1>5, <1>7

LEMMA SumNow ==
  ASSUME NEW f \in [Times -> Nat], NEW c \in Times, f[c] = 0
  PROVE  SumOver(f, c..c) = 0
<1>1. c..c = {} \cup {c}
  BY GatewayConstants DEF Times
<1>2. SumOver(f, {} \cup {c}) = SumOver(f, {}) + f[c]
  BY SumAdd
<1>3. SumOver(f, {}) = 0
  <2>1. Units(f, {}) = {}
    BY DEF Units
  <2> QED
    BY <2>1, SumCounts, FS_EmptySet
<1> QED
  BY <1>1, <1>2, <1>3

LEMMA TickKeeps == ASSUME LimiterInv, LimiterTick PROVE LimiterInv'
<1> USE GatewayConstants
<1>1. clock < MaxClock /\ clock' = clock + 1 /\ bucket' = bucket /\ admitted' = admitted /\ clock \in Times
  BY DEF LimiterTick, LimiterInv, LimiterTypeOK, Times
<1>2. LimiterTypeOK /\ LimiterTypeOK'
  BY <1>1 DEF LimiterInv, LimiterTypeOK, Times
<1>3. ASSUME NEW t \in Tenants
      PROVE  /\ Refilled(t)' \in Nat /\ Refilled(t)' <= Capacity /\ Refilled(t)' <= Refilled(t) + RefillRate
             /\ Refilled(t) \in Nat
  <2>1. Refilled(t) \in Nat /\ Refilled(t)' \in Nat /\ Refilled(t)' <= Capacity
    BY <1>2, RefilledIs, RefilledNext DEF Refilling
  <2>2. CASE bucket[t] = NoBucket
    BY <1>2, <2>1, <2>2, RefilledIs, RefilledNext DEF Refilling
  <2>3. CASE bucket[t] # NoBucket
    <3>1. PICK d \in Nat : d = clock - bucket[t].last
      BY <1>2, <2>3 DEF LimiterTypeOK, Times
    <3>2. PICK k \in Nat : k = bucket[t].tokens
      BY <1>2 DEF LimiterTypeOK
    <3>3. clock' - bucket'[t].last = d + 1
      BY <1>1, <1>2, <3>1 DEF LimiterTypeOK, Times
    <3>4. Refilled(t) = IF Capacity <= k + d * RefillRate THEN Capacity ELSE k + d * RefillRate
      BY <1>2, <2>3, <3>1, <3>2, RefilledIs DEF Refilling, Earned
    <3>5. Refilled(t)' = IF Capacity <= k + (d + 1) * RefillRate THEN Capacity ELSE k + (d + 1) * RefillRate
      <4>1. bucket'[t] # NoBucket /\ bucket'[t].tokens = k
        BY <1>1, <2>3, <3>2
      <4>2. Refilled(t)' = IF Capacity <= bucket'[t].tokens + (clock' - bucket'[t].last) * RefillRate
                           THEN Capacity ELSE bucket'[t].tokens + (clock' - bucket'[t].last) * RefillRate
        BY <1>2, <4>1, RefilledNext DEF Refilling, Earned
      <4> QED
        BY <3>3, <4>1, <4>2
    <3>6. PICK m \in Nat : m = d * RefillRate /\ (d + 1) * RefillRate = m + RefillRate
      BY <3>1
    <3>7. /\ Refilled(t) = IF Capacity <= k + m THEN Capacity ELSE k + m
          /\ Refilled(t)' = IF Capacity <= k + (m + RefillRate) THEN Capacity ELSE k + (m + RefillRate)
      BY <3>4, <3>5, <3>6
    <3> QED
      BY <2>1, <3>7
  <2> QED
    BY <2>1, <2>2, <2>3
<1>4. ASSUME NEW t \in Tenants, NEW a \in 0..clock
      PROVE  /\ SumOver(admitted'[t], a..(clock + 1)) = SumOver(admitted[t], a..clock)
             /\ SumOver(admitted[t], a..clock) \in Nat
  <2>1. /\ admitted[t] \in [Times -> Nat] /\ admitted[t][clock + 1] = 0 /\ clock + 1 \in Times
        /\ a \in Times /\ clock \in Times /\ a <= clock
    BY <1>1, <1>2 DEF LimiterInv, LimiterTypeOK, Times
  <2> QED
    BY <1>1, <2>1, SumLater
<1>5. ASSUME NEW t \in Tenants PROVE SumOver(admitted'[t], (clock + 1)..(clock + 1)) = 0
  <2>1. /\ admitted[t] \in [Times -> Nat] /\ admitted[t][clock + 1] = 0 /\ clock + 1 \in Times
    BY <1>1, <1>2 DEF LimiterInv, LimiterTypeOK, Times
  <2> QED
    BY <1>1, <2>1, SumNow
<1>6. Spanned'
  <2> SUFFICES ASSUME NEW t \in Tenants, NEW a \in 0..(clock + 1)
               PROVE  SumOver(admitted'[t], a..(clock + 1)) + Refilled(t)' <= Capacity + RefillRate * (clock + 1 - a)
    BY <1>1 DEF Spanned, Span, Times
  <2>1. CASE a = clock + 1
    <3>1. SumOver(admitted'[t], a..(clock + 1)) = 0
      BY <1>5, <2>1
    <3>2. RefillRate * (clock + 1 - a) = 0
      BY <1>1, <2>1 DEF Times
    <3> QED
      BY <1>3, <3>1, <3>2
  <2>2. CASE a \in 0..clock
    <3>1. PICK s \in Nat : s = SumOver(admitted[t], a..clock) /\ SumOver(admitted'[t], a..(clock + 1)) = s
      BY <1>4, <2>2
    <3>2. s + Refilled(t) <= Capacity + RefillRate * (clock - a)
      BY <2>2, <3>1 DEF LimiterInv, Spanned, Span
    <3>3. PICK m \in Nat : m = RefillRate * (clock - a) /\ RefillRate * (clock + 1 - a) = m + RefillRate
      <4>1. PICK d \in Nat : d = clock - a /\ clock + 1 - a = d + 1
        BY <1>1, <2>2 DEF Times
      <4>2. RefillRate * (d + 1) = RefillRate * d + RefillRate /\ RefillRate * d \in Nat
        OBVIOUS
      <4> QED
        BY <4>1, <4>2
    <3>4. PICK r \in Nat : r = Refilled(t)
      BY <1>3
    <3>5. PICK q \in Nat : q = Refilled(t)' /\ q <= r + RefillRate
      BY <1>3, <3>4
    <3>6. s + r <= Capacity + m
      BY <3>2, <3>3, <3>4
    <3>7. s + q <= Capacity + (m + RefillRate)
      BY <3>5, <3>6
    <3> QED
      BY <3>1, <3>3, <3>5, <3>7
  <2> QED
    <3>1. clock \in Nat /\ (a = clock + 1 \/ a \in 0..clock)
      BY <1>1 DEF Times
    <3> QED
      BY <2>1, <2>2, <3>1
<1>7. RateBounded'
  <2> SUFFICES ASSUME NEW t \in Tenants, NEW a \in 0..clock', NEW b \in a..clock'
               PROVE  SumOver(admitted'[t], a..b) <= Capacity + RefillRate * (b - a)
    BY DEF RateBounded, Span
  <2>1. CASE b = clock'
    BY <1>2, <1>6, <2>1, BoundNext DEF BoundedNow, Span
  <2>2. CASE b # clock'
    <3>1. a \in 0..clock /\ b \in a..clock
      BY <1>1, <2>2 DEF Times
    <3> QED
      BY <1>1, <3>1 DEF LimiterInv, RateBounded, Span
  <2> QED
    BY <2>1, <2>2
<1>8. (\A t \in Tenants : \A i \in Times : i > clock => admitted[t][i] = 0)'
  BY <1>1 DEF LimiterInv, Times
<1> QED
  BY <1>2, <1>6, <1>7, <1>8 DEF LimiterInv

LEMMA ConsumeKeeps == ASSUME LimiterInv, NEW t \in Tenants, TryConsume(t) PROVE LimiterInv'
<1> USE GatewayConstants DEF Times
<1>1. PICK full \in Nat : full = Refilled(t) /\ full <= Capacity
  BY RefilledIs DEF LimiterInv, Refilling
<1>2. PICK left \in Nat : left = (IF full >= 1 THEN full - 1 ELSE full)
  OBVIOUS
<1>3. /\ clock' = clock /\ clock \in Times
      /\ bucket' = [bucket EXCEPT ![t] = [tokens |-> left, last |-> clock]]
      /\ admitted' = IF full >= 1 THEN [admitted EXCEPT ![t][clock] = @ + 1] ELSE admitted
  BY <1>1, <1>2 DEF TryConsume, LimiterInv, LimiterTypeOK
<1>4. \A u \in Tenants : /\ bucket'[u] = (IF u = t THEN [tokens |-> left, last |-> clock] ELSE bucket[u])
                         /\ u # t => admitted'[u] = admitted[u]
  BY <1>3 DEF LimiterInv, LimiterTypeOK
<1>5. admitted'[t] = IF full >= 1 THEN [admitted[t] EXCEPT ![clock] = @ + 1] ELSE admitted[t]
  BY <1>3 DEF LimiterInv, LimiterTypeOK
<1>6. admitted[t] \in [Times -> Nat]
  BY DEF LimiterInv, LimiterTypeOK
<1>7. admitted'[t] \in [Times -> Nat] /\ \A i \in Times : i # clock => admitted'[t][i] = admitted[t][i]
  BY <1>3, <1>5, <1>6
<1>8. LimiterTypeOK'
  <2>1. bucket' \in [Tenants -> [tokens : Nat, last : Nat]]
    BY <1>3 DEF LimiterInv, LimiterTypeOK
  <2>2. admitted' \in [Tenants -> [Times -> Nat]]
    <3>1. DOMAIN admitted' = Tenants /\ admitted' = [u \in Tenants |-> admitted'[u]]
      BY <1>3 DEF LimiterInv, LimiterTypeOK
    <3>2. \A u \in Tenants : admitted'[u] \in [Times -> Nat]
      BY <1>4, <1>7 DEF LimiterInv, LimiterTypeOK
    <3> QED
      BY <3>1, <3>2
  <2>3. \A u \in Tenants : bucket'[u] # NoBucket => bucket'[u].tokens <= Capacity /\ bucket'[u].last <= clock'
    BY <1>1, <1>2, <1>3, <1>4 DEF LimiterInv, LimiterTypeOK
  <2> QED
    BY <1>3, <2>1, <2>2, <2>3 DEF LimiterTypeOK
<1>9. Refilled(t)' = left
  <2>1. bucket'[t].tokens = left /\ bucket'[t].last = clock /\ bucket'[t] # NoBucket
    BY <1>3, <1>4 DEF NoBucket
  <2>2. (clock' - bucket'[t].last) * RefillRate = 0
    BY <1>3, <2>1
  <2>3. Refilled(t)' = IF Capacity <= left + 0 THEN Capacity ELSE left + 0
    BY <1>8, <2>1, <2>2, RefilledNext DEF Refilling, Earned
  <2> QED
    BY <1>1, <1>2, <2>3
<1>10. \A u \in Tenants : u # t => Refilled(u)' = Refilled(u)
  BY <1>3, <1>4 DEF Refilled
<1>11. Spanned'
  <2> SUFFICES ASSUME NEW u \in Tenants, NEW a \in 0..clock
               PROVE  SumOver(admitted'[u], a..clock) + Refilled(u)' <= Capacity + RefillRate * (clock - a)
    BY <1>3 DEF Spanned, Span
  <2>1. SumOver(admitted[u], a..clock) + Refilled(u) <= Capacity + RefillRate * (clock - a)
    BY DEF LimiterInv, Spanned, Span
  <2>2. CASE u # t
    BY <1>4, <1>10, <2>1, <2>2
  <2>3. CASE u = t /\ full < 1
    BY <1>1, <1>2, <1>5, <1>9, <2>1, <2>3
  <2>4. CASE u = t /\ full >= 1
    <3>1. a..clock \in SUBSET Times /\ clock \in a..clock
      BY <1>3
    <3>2. SumOver(admitted'[t], a..clock) = SumOver(admitted[t], a..clock) + 1
      <4>1. admitted'[t][clock] = admitted[t][clock] + 1
        BY <1>3, <1>5, <1>6, <2>4
      <4> QED
        BY <1>6, <1>7, <3>1, <4>1, SumBumped
    <3>3. SumOver(admitted[t], a..clock) \in Nat
      BY <1>6, <3>1, SumNat
    <3>4. RefillRate * (clock - a) \in Int
      BY <1>3
    <3>5. SumOver(admitted'[t], a..clock) + left = SumOver(admitted[t], a..clock) + full
      BY <1>1, <1>2, <2>4, <3>2, <3>3
    <3> QED
      BY <1>1, <1>9, <2>1, <2>4, <3>5
  <2> QED
    BY <1>1, <2>2, <2>3, <2>4
<1>12. RateBounded'
  <2> SUFFICES ASSUME NEW u \in Tenants, NEW a \in 0..clock', NEW b \in a..clock'
               PROVE  SumOver(admitted'[u], a..b) <= Capacity + RefillRate * (b - a)
    BY DEF RateBounded, Span
  <2>1. CASE b = clock'
    BY <1>8, <1>11, <2>1, BoundNext DEF BoundedNow, Span
  <2>2. CASE b # clock'
    <3>1. a \in 0..clock /\ b \in a..clock /\ clock \notin a..b /\ a..b \in SUBSET Times
      BY <1>3, <2>2
    <3>2. SumOver(admitted[u], a..b) <= Capacity + RefillRate * (b - a)
      BY <3>1 DEF LimiterInv, RateBounded, Span
    <3>3. SumOver(admitted'[u], a..b) = SumOver(admitted[u], a..b)
      <4>1. CASE u = t
        <5>1. \A i \in a..b : admitted'[t][i] = admitted[t][i]
          BY <1>7, <3>1
        <5> QED
          BY <1>6, <1>7, <3>1, <4>1, <5>1, SumAgrees
      <4>2. CASE u # t
        BY <1>4, <4>2
      <4> QED
        BY <4>1, <4>2
    <3> QED
      BY <3>2, <3>3
  <2> QED
    BY <2>1, <2>2
<1>13. (\A u \in Tenants : \A i \in Times : i > clock => admitted[u][i] = 0)'
  <2>1. ASSUME NEW u \in Tenants, NEW i \in Times, i > clock PROVE admitted'[u][i] = 0
    <3>1. admitted[u][i] = 0 /\ i # clock
      BY <1>3, <2>1 DEF LimiterInv
    <3> QED
      BY <1>4, <1>7, <3>1
  <2> QED
    BY <1>3, <2>1
<1> QED
  BY <1>8, <1>11, <1>12, <1>13 DEF LimiterInv

LEMMA NextLimiter == LimiterInv /\ (LimiterNext \/ UNCHANGED limiterVars) => LimiterInv'
<1> SUFFICES ASSUME LimiterInv, LimiterNext \/ UNCHANGED limiterVars PROVE LimiterInv'
  OBVIOUS
<1>1. CASE UNCHANGED limiterVars
  BY <1>1 DEF limiterVars, LimiterInv, LimiterTypeOK, Spanned, RateBounded, Span, Refilled
<1> QED
  BY <1>1, TickKeeps, ConsumeKeeps DEF LimiterNext

-----------------------------------------------------------------------------
(* The breaker.                                                             *)

BreakerRec == [state : {"closed", "open", "half_open"}, failures : 0..Threshold, wait : Nat]

\* The breaker never counts more failures than came in a row.
BreakerInv ==
  /\ breaker \in BreakerRec /\ sent \in [Requests -> {"no", "plain", "trial"}] /\ streak \in 0..Threshold
  /\ breaker.failures <= streak
  /\ OpensOnlyOnStreak

LEMMA InitBreaker == GatewayInit => BreakerInv
  BY GatewayConstants DEF GatewayInit, BreakerInv, BreakerRec, Closed, OpensOnlyOnStreak

LEMMA FailureCounts ==
  ASSUME BreakerInv
  PROVE  LET b == AfterFailure(breaker)
             s == Min({streak + 1, Threshold})
         IN  b \in BreakerRec /\ s \in 0..Threshold /\ b.failures <= s /\ (b.state # "closed" => s >= Threshold)
<1> USE GatewayConstants
<1>1. PICK s \in Nat : s = Min({streak + 1, Threshold}) /\ s = IF streak + 1 <= Threshold THEN streak + 1 ELSE Threshold
  <2>1. streak + 1 \in Nat
    BY DEF BreakerInv
  <2> QED
    BY <2>1, MinOf
<1>2. PICK n \in Nat : /\ n = Min({breaker.failures + 1, Threshold})
                       /\ n = IF breaker.failures + 1 <= Threshold THEN breaker.failures + 1 ELSE Threshold
  <2>1. breaker.failures + 1 \in Nat
    BY DEF BreakerInv, BreakerRec
  <2> QED
    BY <2>1, MinOf
<1>3. breaker \in BreakerRec /\ streak \in 0..Threshold /\ breaker.failures <= streak
      /\ (breaker.state # "closed" => streak >= Threshold)
  BY DEF BreakerInv, OpensOnlyOnStreak
<1>4. AfterFailure(breaker) =
        IF breaker.state = "half_open" THEN [breaker EXCEPT !.state = "open", !.wait = Cooldown]
        ELSE IF n >= Threshold THEN [state |-> "open", failures |-> n, wait |-> Cooldown]
        ELSE [breaker EXCEPT !.failures = n]
  BY <1>2 DEF AfterFailure
<1>5. s \in 0..Threshold /\ n \in 0..Threshold /\ n <= s
  BY <1>1, <1>2, <1>3 DEF BreakerRec
<1>6. CASE breaker.state = "half_open"
  <2>1. s = Threshold
    BY <1>1, <1>3, <1>6
  <2>2. PICK b : b = AfterFailure(breaker)
    OBVIOUS
  <2>3. b = [breaker EXCEPT !.state = "open", !.wait = Cooldown]
    BY <1>4, <1>6, <2>2
  <2>4. b \in BreakerRec /\ b.failures = breaker.failures
    BY <1>3, <2>3 DEF BreakerRec
  <2>5. b.failures <= s /\ s \in 0..Threshold /\ s >= Threshold
    BY <1>3, <1>5, <2>1, <2>4 DEF BreakerRec
  <2> QED
    BY <1>1, <2>2, <2>4, <2>5
<1>7. CASE breaker.state # "half_open" /\ n >= Threshold
  BY <1>1, <1>4, <1>5, <1>7 DEF BreakerRec
<1>8. CASE breaker.state # "half_open" /\ ~(n >= Threshold)
  <2>1. breaker.state # "closed" => s >= Threshold
    BY <1>1, <1>3
  <2> QED
    BY <1>1, <1>3, <1>4, <1>5, <1>8, <2>1 DEF BreakerRec
<1> QED
  BY <1>6, <1>7, <1>8

LEMMA NextBreaker == BreakerInv /\ (BreakerNext \/ UNCHANGED breakerVars) => BreakerInv'
<1> SUFFICES ASSUME BreakerInv, BreakerNext \/ UNCHANGED breakerVars PROVE BreakerInv'
  OBVIOUS
<1> USE GatewayConstants
<1>1. CASE UNCHANGED breakerVars
  BY <1>1 DEF breakerVars, BreakerInv, OpensOnlyOnStreak
<1>2. ASSUME NEW r \in Requests, BeforeCall(r) PROVE BreakerInv'
  <2>1. sent' \in [Requests -> {"no", "plain", "trial"}] /\ streak' = streak
    BY <1>2 DEF BeforeCall, BreakerInv
  <2>2. CASE breaker.state = "open"
    BY <1>2, <2>1, <2>2 DEF BeforeCall, BreakerInv, BreakerRec, OpensOnlyOnStreak
  <2>3. CASE breaker.state # "open"
    BY <1>2, <2>1, <2>3 DEF BeforeCall, BreakerInv, OpensOnlyOnStreak
  <2> QED
    BY <2>2, <2>3
<1>3. ASSUME NEW r \in Requests, RecordOutcome(r) PROVE BreakerInv'
  <2>1. sent' \in [Requests -> {"no", "plain", "trial"}]
    BY <1>3 DEF RecordOutcome, BreakerInv
  <2>2. CASE up
    <3>1. breaker' = [breaker EXCEPT !.state = "closed", !.failures = 0] /\ streak' = 0
      BY <1>3, <2>2 DEF RecordOutcome, AfterSuccess
    <3>2. breaker' \in BreakerRec /\ breaker'.state = "closed" /\ breaker'.failures = 0
      <4>1. breaker \in BreakerRec /\ 0 \in 0..Threshold
        BY DEF BreakerInv
      <4> QED
        BY <3>1, <4>1 DEF BreakerRec
    <3> QED
      BY <2>1, <3>1, <3>2 DEF BreakerInv, OpensOnlyOnStreak
  <2>3. CASE ~up
    <3>1. breaker' = AfterFailure(breaker) /\ streak' = Min({streak + 1, Threshold})
      BY <1>3, <2>3 DEF RecordOutcome
    <3> QED
      BY <2>1, <3>1, FailureCounts DEF BreakerInv, OpensOnlyOnStreak
  <2> QED
    BY <2>2, <2>3
<1>4. CASE CooldownPasses
  BY <1>4 DEF CooldownPasses, BreakerInv, BreakerRec, OpensOnlyOnStreak
<1>5. CASE UpstreamChanges
  BY <1>5 DEF UpstreamChanges, BreakerInv, OpensOnlyOnStreak
<1> QED
  BY <1>1, <1>2, <1>3, <1>4, <1>5 DEF BreakerNext

-----------------------------------------------------------------------------
(* The pool of RPC endpoints.                                               *)

Seen == [healthy : [Endpoints -> BOOLEAN], failedAt : [Endpoints -> Nat]]

Views   == Seen \cup {NoView}
RpcCall == [todo : SUBSET Endpoints, view : Views, failed : SUBSET Endpoints,
            result : {"none", "ok", "rejected", "failed"}]

PoolTypeOK ==
  /\ healthy \in [Endpoints -> BOOLEAN] /\ failedAt \in [Endpoints -> Nat] /\ ticks \in Nat
  /\ rpc \in [Requests -> RpcCall]

\* A call walks the endpoints that have not failed it yet.
Walks(call) ==
  /\ call.todo # {} => call.view \in Seen /\ call.todo \cup call.failed = Endpoints
  /\ call.result = "failed" => call.failed = Endpoints

PoolInv == PoolTypeOK /\ SelectedIsBest /\ \A c \in Requests : Walks(rpc[c])

LEMMA PlaceIs ==
  /\ \A u \in Endpoints : Place(u) \in Nat /\ Place(u) \in DOMAIN Urls /\ Urls[Place(u)] = u
  /\ \A u, v \in Endpoints : Place(u) = Place(v) => u = v
  /\ Urls[1] \in Endpoints
<1>1. \A u \in Endpoints : Place(u) \in DOMAIN Urls /\ Urls[Place(u)] = u
  BY DEF Endpoints, Range, Place
<1>2. DOMAIN Urls = 1..Len(Urls) /\ Len(Urls) \in Nat /\ Len(Urls) > 0
  BY GatewayConstants
<1>3. 1 \in DOMAIN Urls
  BY <1>2
<1> QED
  BY <1>1, <1>2, <1>3 DEF Endpoints, Range

LEMMA FirstPlace == \A u \in Endpoints \ {Urls[1]} : Place(Urls[1]) < Place(u)
<1> SUFFICES ASSUME NEW u \in Endpoints \ {Urls[1]} PROVE Place(Urls[1]) < Place(u)
  OBVIOUS
<1>1. DOMAIN Urls = 1..Len(Urls) /\ Len(Urls) \in Nat /\ Len(Urls) > 0
  BY GatewayConstants
<1>2. Place(Urls[1]) = 1
  <2>1. Place(Urls[1]) \in DOMAIN Urls /\ Urls[Place(Urls[1])] = Urls[1] /\ 1 \in DOMAIN Urls
    BY <1>1, PlaceIs
  <2> QED
    BY <2>1, GatewayConstants DEF IsInjective
<1>3. Place(u) \in DOMAIN Urls /\ Place(u) # 1
  BY <1>2, PlaceIs
<1> QED
  BY <1>1, <1>2, <1>3

\* There is a first among some endpoints.
LEMMA FirstIs ==
  ASSUME NEW view \in Seen, NEW some \in SUBSET Endpoints, some # {}
  PROVE  First(some, view) \in some /\ \A v \in some \ {First(some, view)} : Before(First(some, view), v, view)
<1>1. ASSUME NEW T \in SUBSET some, T # {}
      PROVE  \E u \in T : \A v \in T \ {u} : Place(u) < Place(v)
  <2> DEFINE P == {Place(u) : u \in T}
  <2>1. P \in SUBSET Nat /\ P # {}
    BY <1>1, PlaceIs
  <2>2. Min(P) \in P /\ \A x \in P : Min(P) <= x
    BY <2>1, Least
  <2>3. PICK u \in T : Place(u) = Min(P)
    BY <2>2
  <2>4. ASSUME NEW v \in T \ {u} PROVE Place(u) < Place(v)
    <3>1. Place(u) \in Nat /\ Place(v) \in Nat /\ Place(u) # Place(v)
      BY PlaceIs
    <3>2. Place(u) <= Place(v)
      BY <2>2, <2>3
    <3> QED
      BY <3>1, <3>2
  <2> QED
    BY <2>4
<1>2. CASE \E u \in some : view.healthy[u]
  <2> DEFINE T == {u \in some : view.healthy[u]}
  <2>1. PICK u \in T : \A v \in T \ {u} : Place(u) < Place(v)
    BY <1>1, <1>2
  <2>2. \A v \in some \ {u} : Before(u, v, view)
    BY <2>1 DEF Before, Seen
  <2> QED
    BY <2>1, <2>2 DEF First
<1>3. CASE \A u \in some : ~view.healthy[u]
  <2> DEFINE P == {view.failedAt[u] : u \in some}
             T == {u \in some : view.failedAt[u] = Min(P)}
  <2>1. P \in SUBSET Nat /\ P # {}
    BY DEF Seen
  <2>2. Min(P) \in P /\ \A x \in P : Min(P) <= x
    BY <2>1, Least
  <2>3. T # {}
    BY <2>2
  <2>4. PICK u \in T : \A v \in T \ {u} : Place(u) < Place(v)
    BY <1>1, <2>3
  <2>5. PICK m \in Nat : m = Min(P) /\ view.failedAt[u] = m
    BY <2>1, <2>2, <2>4
  <2>6. ASSUME NEW v \in some \ {u} PROVE Before(u, v, view)
    <3>1. view.failedAt[v] \in Nat /\ m <= view.failedAt[v]
      <4>1. view.failedAt[v] \in P /\ view.failedAt[v] \in Nat
        BY DEF Seen
      <4> QED
        BY <2>2, <2>5, <4>1
    <3>4. ~view.healthy[u] /\ view.healthy[u] = view.healthy[v]
      BY <1>3, <2>4 DEF Seen
    <3>2. CASE view.failedAt[v] = m
      <4>1. v \in T \ {u}
        BY <2>5, <3>2
      <4>2. Place(u) < Place(v)
        BY <2>4, <4>1
      <4> QED
        BY <2>5, <3>2, <3>4, <4>2 DEF Before
    <3>3. CASE view.failedAt[v] # m
      BY <2>5, <3>1, <3>3, <3>4 DEF Before
    <3> QED
      BY <3>2, <3>3
  <2> QED
    BY <2>4, <2>6 DEF First
<1> QED
  BY <1>2, <1>3

LEMMA InitPool == PoolInit => PoolInv
<1> SUFFICES ASSUME PoolInit PROVE PoolInv
  OBVIOUS
<1>1. PoolTypeOK
  <2>1. NoCall \in RpcCall
    BY DEF NoCall, RpcCall, Views
  <2> QED
    BY <2>1 DEF PoolInit, PoolTypeOK
<1>2. SelectedIsBest
  BY FirstPlace, PlaceIs DEF PoolInit, SelectedIsBest, Before, View
<1>3. \A c \in Requests : Walks(rpc[c])
  BY DEF PoolInit, NoCall, Walks
<1> QED
  BY <1>1, <1>2, <1>3 DEF PoolInv

LEMMA Reselected ==
  ASSUME healthy' \in [Endpoints -> BOOLEAN], failedAt' \in [Endpoints -> Nat], Reselect
  PROVE  SelectedIsBest'
<1> DEFINE view == [healthy |-> healthy', failedAt |-> failedAt']
<1>1. view \in Seen /\ View' = view
  BY DEF Seen, View
<1>2. Endpoints # {}
  BY PlaceIs
<1>3. selected' = First(Endpoints, view)
  BY <1>1 DEF Reselect
<1> HIDE DEF view
<1>4. \A u \in Endpoints \ {selected'} : Before(selected', u, view)
  BY <1>1, <1>2, <1>3, FirstIs
<1> QED
  BY <1>1, <1>4 DEF SelectedIsBest

\* One call moves on, and walks on.
LEMMA CallMoves ==
  ASSUME PoolInv, NEW c \in Requests, NEW call \in RpcCall, rpc' = [rpc EXCEPT ![c] = call], Walks(call)
  PROVE  rpc' \in [Requests -> RpcCall] /\ \A d \in Requests : Walks(rpc'[d])
  BY DEF PoolInv, PoolTypeOK

LEMMA CallUpdated ==
  ASSUME NEW A, NEW B, NEW C, NEW old \in [todo : A, view : B, failed : A, result : C], NEW x \in A, NEW y \in A
  PROVE  LET new == [old EXCEPT !.todo = x, !.failed = y] IN
         /\ new \in [todo : A, view : B, failed : A, result : C] /\ new.todo = x /\ new.failed = y
         /\ new.view = old.view /\ new.result = old.result
  OBVIOUS

LEMMA FailsKeepsPool == ASSUME PoolInv, NEW c \in Requests, CallFails(c) PROVE PoolInv'
<1>1. /\ rpc[c].todo # {} /\ rpc[c].view \in Seen /\ rpc[c].todo \cup rpc[c].failed = Endpoints
      /\ rpc[c].todo \in SUBSET Endpoints
  BY DEF CallFails, PoolInv, Walks
<1>2. PICK u \in rpc[c].todo : u = First(rpc[c].todo, rpc[c].view)
  BY <1>1, FirstIs
<1>3. /\ ticks' = ticks + 1 /\ healthy' = [healthy EXCEPT ![u] = FALSE]
      /\ failedAt' = [failedAt EXCEPT ![u] = ticks + 1] /\ Reselect
  BY <1>2 DEF CallFails
<1>4. healthy' \in [Endpoints -> BOOLEAN] /\ failedAt' \in [Endpoints -> Nat] /\ ticks' \in Nat
  <2>1. healthy \in [Endpoints -> BOOLEAN] /\ failedAt \in [Endpoints -> Nat] /\ ticks \in Nat
    BY DEF PoolInv, PoolTypeOK
  <2>2. healthy' \in [Endpoints -> BOOLEAN]
    BY <1>3, <2>1
  <2> QED
    BY <1>3, <2>1, <2>2
<1> DEFINE rest == rpc[c].todo \ {u}
           call == IF rest = {} THEN [NoCall EXCEPT !.failed = rpc[c].failed \cup {u}, !.result = "failed"]
                   ELSE [rpc[c] EXCEPT !.todo = rest, !.failed = rpc[c].failed \cup {u}]
<1>5. rpc' = [rpc EXCEPT ![c] = call]
  BY <1>2 DEF CallFails
<1>6. PICK old \in RpcCall : old = rpc[c]
  BY DEF PoolInv, PoolTypeOK
<1>7. call \in RpcCall /\ Walks(call)
  <2>1. CASE rest = {}
    <3>1. rpc[c].failed \cup {u} = Endpoints
      BY <1>1, <1>2, <2>1
    <3>2. NoCall \in RpcCall
      BY DEF NoCall, RpcCall, Views
    <3>3. call = [NoCall EXCEPT !.failed = Endpoints, !.result = "failed"]
      BY <2>1, <3>1
    <3>4. call \in RpcCall /\ call.todo = {} /\ call.failed = Endpoints
      BY <3>2, <3>3 DEF RpcCall, NoCall
    <3> QED
      BY <3>4 DEF Walks
  <2>2. CASE rest # {}
    <3>1. PICK more \in SUBSET Endpoints : more = rpc[c].failed \cup {u}
      BY <1>1, <1>2
    <3>2. PICK left \in SUBSET Endpoints : left = rest /\ left \cup more = Endpoints
      <4>1. rest \in SUBSET Endpoints /\ rest \cup more = Endpoints
        BY <1>1, <1>2, <3>1
      <4> HIDE DEF rest
      <4> QED
        BY <4>1
    <3>3. PICK new : new = call
      OBVIOUS
    <3>4. new = [old EXCEPT !.todo = left, !.failed = more]
      BY <1>6, <2>2, <3>1, <3>2, <3>3
    <3>5. /\ new \in RpcCall /\ new.todo = left /\ new.failed = more
          /\ new.view = old.view /\ new.result = old.result
      <4> HIDE DEF rest, call
      <4> QED
        BY <3>4, CallUpdated DEF RpcCall
    <3>6. old.result = "failed" => old.failed = Endpoints
      BY <1>6 DEF PoolInv, Walks
    <3>7. old.view \in Seen
      BY <1>1, <1>6
    <3> HIDE DEF rest, call
    <3>8. Walks(new)
      BY <3>1, <3>2, <3>5, <3>6, <3>7, <1>6 DEF Walks
    <3> QED
      BY <3>3, <3>5, <3>8
  <2> QED
    BY <2>1, <2>2
<1> HIDE DEF call
<1>8. rpc' \in [Requests -> RpcCall] /\ \A d \in Requests : Walks(rpc'[d])
  BY <1>5, <1>7, CallMoves
<1> QED
  BY <1>3, <1>4, <1>8, Reselected DEF PoolInv, PoolTypeOK

\* Nothing the walks or the order of the endpoints depend on moves.
LEMMA PoolStill ==
  ASSUME PoolInv, UNCHANGED <<healthy, failedAt, selected, ticks>>, rpc' \in [Requests -> RpcCall],
         \A c \in Requests : Walks(rpc'[c])
  PROVE  PoolInv'
<1>1. SelectedIsBest'
  BY DEF PoolInv, SelectedIsBest, Before, View
<1> QED
  BY <1>1 DEF PoolInv, PoolTypeOK

LEMMA ApplyKeeps == ASSUME PoolInv, ProbeApply PROVE PoolInv'
<1> DEFINE fit(u) == probe[u].status = "healthy"
                       /\ Max({probe[v].ledger : v \in Endpoints}) - probe[u].ledger <= MaxLedgerLag
<1>1. healthy' = [u \in Endpoints |-> fit(u)]
  BY DEF ProbeApply
<1> HIDE DEF fit
<1>2. \A u \in Endpoints : healthy'[u] \in BOOLEAN
  <2>1. \A u \in Endpoints : fit(u) \in BOOLEAN
    BY DEF fit
  <2> QED
    BY <1>1, <2>1
<1>3. healthy' \in [Endpoints -> BOOLEAN]
  BY <1>1, <1>2
<1>4. failedAt' = [u \in Endpoints |-> IF healthy'[u] THEN failedAt[u] ELSE ticks]
  BY DEF ProbeApply
<1>5. failedAt' \in [Endpoints -> Nat]
  <2>1. \A u \in Endpoints : failedAt[u] \in Nat /\ ticks \in Nat
    BY DEF PoolInv, PoolTypeOK
  <2>2. \A u \in Endpoints : (IF healthy'[u] THEN failedAt[u] ELSE ticks) \in Nat
    BY <2>1, Zenon
  <2> QED
    BY <1>4, <2>2, Zenon
<1> QED
  BY <1>3, <1>5, Reselected DEF ProbeApply, PoolInv, PoolTypeOK

LEMMA CallSet ==
  ASSUME NEW A, NEW B, NEW C, NEW old \in [todo : A, view : B, failed : A, result : C],
         NEW x \in A, NEW y \in B, NEW z \in C
  PROVE  LET new == [old EXCEPT !.todo = x, !.view = y, !.result = z] IN
         /\ new \in [todo : A, view : B, failed : A, result : C] /\ new.todo = x /\ new.view = y
         /\ new.failed = old.failed /\ new.result = z
  OBVIOUS

LEMMA CallBegun ==
  ASSUME NEW A, NEW B, NEW C, NEW old \in [todo : A, view : B, failed : A, result : C],
         NEW x \in A, NEW y \in B
  PROVE  LET new == [old EXCEPT !.todo = x, !.view = y] IN
         /\ new \in [todo : A, view : B, failed : A, result : C] /\ new.todo = x /\ new.view = y
         /\ new.failed = old.failed /\ new.result = old.result
  OBVIOUS

LEMMA StartsKeep == ASSUME PoolInv, NEW c \in Requests, CallStart(c) PROVE PoolInv'
<1>1. PICK view \in Seen : view = View
  BY DEF PoolInv, PoolTypeOK, Seen, View
<1>2. PICK idle \in RpcCall : idle = NoCall
  BY DEF NoCall, RpcCall, Views
<1>3. PICK call : call = [idle EXCEPT !.todo = Endpoints, !.view = view]
  OBVIOUS
<1>4. rpc' = [rpc EXCEPT ![c] = call]
  BY <1>1, <1>2, <1>3 DEF CallStart
<1>5. Endpoints \in SUBSET Endpoints /\ view \in Views
  BY DEF Views
<1>6. /\ call \in RpcCall /\ call.todo = Endpoints /\ call.view = view
      /\ call.failed = idle.failed /\ call.result = idle.result
  BY <1>3, <1>5, CallBegun DEF RpcCall
<1>7. idle.failed = {} /\ idle.result = "none"
  BY <1>2 DEF NoCall
<1>8. Walks(call)
  BY <1>6, <1>7 DEF Walks
<1>9. rpc' \in [Requests -> RpcCall] /\ \A d \in Requests : Walks(rpc'[d])
  BY <1>4, <1>6, <1>8, CallMoves
<1> QED
  BY <1>9, PoolStill DEF CallStart

LEMMA EndsKeep ==
  ASSUME PoolInv, NEW c \in Requests, NEW r \in {"ok", "rejected"}, CallEnds(c, r) PROVE PoolInv'
<1>1. PICK old \in RpcCall : old = rpc[c]
  BY DEF PoolInv, PoolTypeOK
<1>2. PICK none \in SUBSET Endpoints : none = {}
  OBVIOUS
<1>3. PICK unseen \in Views : unseen = NoView
  BY DEF Views
<1>4. PICK call : call = [old EXCEPT !.todo = none, !.view = unseen, !.result = r]
  OBVIOUS
<1>5. rpc' = [rpc EXCEPT ![c] = call]
  BY <1>1, <1>2, <1>3, <1>4 DEF CallEnds
<1>6. call \in RpcCall /\ call.todo = none /\ call.result = r
  BY <1>4, CallSet DEF RpcCall
<1>7. Walks(call)
  BY <1>2, <1>6 DEF Walks
<1>8. rpc' \in [Requests -> RpcCall] /\ \A d \in Requests : Walks(rpc'[d])
  BY <1>5, <1>6, <1>7, CallMoves
<1> QED
  BY <1>8, PoolStill DEF CallEnds

LEMMA NextPool == PoolInv /\ [PoolNext]_poolVars => PoolInv'
<1> SUFFICES ASSUME PoolInv, [PoolNext]_poolVars PROVE PoolInv'
  OBVIOUS
<1>1. CASE ProbeStart \/ UNCHANGED poolVars
  BY <1>1, PoolStill DEF ProbeStart, poolVars, PoolInv, PoolTypeOK
<1> QED
  BY <1>1, ApplyKeeps, StartsKeep, EndsKeep, FailsKeepsPool DEF PoolNext

-----------------------------------------------------------------------------
(* The guards as a part of the whole.                                       *)

\* A step of the whole is a step of one guard, or none.  Time passes for the
\* limiter and the idempotency store alike.
LEMMA GuardsMove ==
  [MCNext]_allVars =>
    /\ LimiterNext \/ UNCHANGED limiterVars
    /\ BreakerNext \/ UNCHANGED breakerVars
    /\ [PoolNext]_poolVars
    /\ PruneExpired \/ (\E p \in Payloads : Record(p)) \/ UNCHANGED idem
<1> SUFFICES ASSUME [MCNext]_allVars
             PROVE  /\ LimiterNext \/ UNCHANGED limiterVars
                    /\ BreakerNext \/ UNCHANGED breakerVars
                    /\ [PoolNext]_poolVars
                    /\ PruneExpired \/ (\E p \in Payloads : Record(p)) \/ UNCHANGED idem
  OBVIOUS
<1>1. CASE UNCHANGED <<gatewayVars, poolVars>>
  BY <1>1 DEF gatewayVars, limiterVars, breakerVars
<1>2. CASE LimiterNext /\ UNCHANGED poolVars
  BY <1>2 DEF LimiterNext, LimiterTick, TryConsume, breakerVars
<1>3. CASE BreakerNext /\ UNCHANGED poolVars
  BY <1>3 DEF BreakerNext, BeforeCall, RecordOutcome, CooldownPasses, UpstreamChanges, limiterVars
<1>4. CASE IdemNext /\ UNCHANGED poolVars
  BY <1>4 DEF IdemNext, LimiterNext, LimiterTick, PruneExpired, Record, limiterVars, breakerVars
<1>5. CASE PoolNext /\ UNCHANGED gatewayVars
  BY <1>5 DEF gatewayVars, limiterVars, breakerVars
<1>6. \/ UNCHANGED <<gatewayVars, poolVars>>
      \/ (LimiterNext \/ BreakerNext \/ IdemNext) /\ UNCHANGED poolVars
      \/ PoolNext /\ UNCHANGED gatewayVars
  BY DEF MCNext, SharedNext, allVars, sharedState
<1> QED
  BY <1>1, <1>2, <1>3, <1>4, <1>5, <1>6

GuardsInv == LimiterInv /\ BreakerInv /\ PoolInv

\* The guards do neither too little nor too much, for every bucket, threshold,
\* list of endpoints and number of callers: no span of time admits more of a
\* tenant's requests than the bucket and its refill, the breaker opens on
\* nothing less than a streak, and a call fails only when every endpoint refused
\* it (token-bucket.ts, circuit-breaker.ts, rpc-pool.ts).
THEOREM GuardsAlwaysHold == MCSpec => []GuardsHold
<1>1. MCInit => GuardsInv
  BY InitLimiter, InitBreaker, InitPool DEF MCInit, GuardsInv
<1>2. GuardsInv /\ [MCNext]_allVars => GuardsInv'
  BY GuardsMove, NextLimiter, NextBreaker, NextPool DEF GuardsInv
<1>3. GuardsInv => GuardsHold
  <2> SUFFICES ASSUME GuardsInv PROVE GuardsHold
    OBVIOUS
  <2>1. TenantRateBound
    BY RateIs DEF GuardsInv, LimiterInv
  <2>2. FailsOnlyWhenAllFailed
    BY DEF GuardsInv, PoolInv, Walks, FailsOnlyWhenAllFailed
  <2> QED
    BY <2>1, <2>2 DEF GuardsInv, BreakerInv, PoolInv, GuardsHold
<1> QED
  BY <1>1, <1>2, <1>3, PTL DEF MCSpec, allVars

\* Pruning the idempotency store, or recording over what expired in it, loses no
\* answer that a lookup would still have given (idempotency-store.ts).
THEOREM PruningIsInvisible == MCSpec => PruneInvisible
<1>1. [MCNext]_allVars => [idem' = NoRecord => \A p \in Payloads : Lookup(p) = "miss"]_idem
  <2> SUFFICES ASSUME [MCNext]_allVars, idem' # idem, idem' = NoRecord, NEW p \in Payloads
               PROVE  Lookup(p) = "miss"
    OBVIOUS
  <2>1. CASE PruneExpired
    BY <2>1 DEF PruneExpired, Lookup
  <2>2. ASSUME NEW q \in Payloads, Record(q) PROVE Lookup(p) = "miss"
    <3>1. Lookup(q) = "miss"
      BY <2>2 DEF Record
    <3> QED
      BY <3>1 DEF Lookup
  <2> QED
    BY <2>1, <2>2, GuardsMove
<1> QED
  BY <1>1, PTL DEF MCSpec, allVars, PruneInvisible

-----------------------------------------------------------------------------
(* The boot of the services.                                                *)

BootStages == {"down", "volatile", "locked", "read", "durable", "serving", "serving_volatile", "exited"}

BootTypeOK ==
  /\ stage \in [Services -> BootStages]
  /\ checkout \in [Services -> {"lf", "crlf"}]
  /\ pending \in [Services -> SUBSET AllMigrations]
  /\ executed \in [AllMigrations -> Nat]

RecordedIn(m) == \E e \in {"lf", "crlf"} : <<m, e>> \in recorded

\* What the operator confirmed of the environment, and what memory may hold.
MayServe == NetworkConfirmed /\ KeyConfirmed
MayForget == PersistenceAllows(FALSE)

\* Whoever read what is recorded still holds the lock, so what it found
\* missing still is; a migration is recorded exactly when its statements have
\* taken effect; and a service that got past its migrations has them all.
BootInv ==
  /\ BootTypeOK
  /\ \A s \in Services : stage[s] \in {"locked", "read"} <=> lock = s
  /\ \A m \in AllMigrations : executed[m] = IF RecordedIn(m) THEN 1 ELSE 0
  /\ \A s \in Services :
       stage[s] = "read" => pending[s] = {m \in Range(Migrations[s]) : ~RecordedIn(m)}
  /\ \A s \in Services :
       stage[s] \in {"durable", "serving"} => \A m \in Range(Migrations[s]) : RecordedIn(m)
  /\ \A s \in Services : stage[s] \in {"serving", "serving_volatile"} => MayServe
  /\ \A s \in Services : stage[s] = "serving_volatile" => MayForget

LEMMA InitBoot == BootInit => BootInv
  BY BootConstants DEF BootInit, BootInv, BootTypeOK, BootStages, RecordedIn

\* A service moves on without a step of the database: to one of the stages
\* below, and from one that did not hold the lock or with the lock given back.
LEMMA StageMoves ==
  ASSUME BootInv, NEW s \in Services, NEW st \in BootStages, stage' = [stage EXCEPT ![s] = st],
         UNCHANGED <<env, checkout, dbVars>>,
         \/ UNCHANGED <<lock, pending>> /\ (st \in {"locked", "read"} <=> lock = s)
         \/ /\ st \notin {"locked", "read"} /\ lock' = (IF lock = s THEN "none" ELSE lock)
            /\ pending' = [pending EXCEPT ![s] = {}]
         \/ st = "locked" /\ lock = "none" /\ lock' = s /\ UNCHANGED pending,
         st = "read" => pending[s] = {m \in Range(Migrations[s]) : ~RecordedIn(m)},
         st \in {"durable", "serving"} => \A m \in Range(Migrations[s]) : RecordedIn(m),
         st \in {"serving", "serving_volatile"} => MayServe,
         st = "serving_volatile" => MayForget
  PROVE  BootInv'
<1>1. MayServe' = MayServe /\ MayForget' = MayForget /\ \A m : RecordedIn(m)' = RecordedIn(m)
  BY DEF MayServe, MayForget, NetworkConfirmed, KeyConfirmed, PersistenceAllows, RecordedIn, dbVars
<1>2. \A t \in Services : stage'[t] = IF t = s THEN st ELSE stage[t]
  BY DEF BootInv, BootTypeOK
<1>3. \A t \in Services : pending'[t] \in SUBSET AllMigrations /\ (t # s => pending'[t] = pending[t])
  BY DEF BootInv, BootTypeOK
<1>4. BootTypeOK'
  <2>1. stage' \in [Services -> BootStages]
    BY DEF BootInv, BootTypeOK
  <2>2. pending' \in [Services -> SUBSET AllMigrations]
    BY <1>3 DEF BootInv, BootTypeOK
  <2> QED
    BY <2>1, <2>2 DEF BootInv, BootTypeOK, dbVars
<1>5. \A t \in Services : stage'[t] \in {"locked", "read"} <=> lock' = t
  BY <1>2, BootConstants DEF BootInv
<1>6. \A t \in Services :
        stage'[t] = "read" => pending'[t] = {m \in Range(Migrations[t]) : ~RecordedIn(m)'}
  <2> SUFFICES ASSUME NEW t \in Services, stage'[t] = "read"
               PROVE  pending'[t] = {m \in Range(Migrations[t]) : ~RecordedIn(m)'}
    OBVIOUS
  <2>1. pending'[t] = pending[t]
    BY <1>2, <1>3
  <2>2. pending[t] = {m \in Range(Migrations[t]) : ~RecordedIn(m)}
    BY <1>2 DEF BootInv
  <2> QED
    BY <1>1, <2>1, <2>2
<1>7. \A m \in AllMigrations : executed'[m] = IF RecordedIn(m)' THEN 1 ELSE 0
  BY <1>1 DEF BootInv, dbVars
<1>8. \A t \in Services :
        stage'[t] \in {"durable", "serving"} => \A m \in Range(Migrations[t]) : RecordedIn(m)'
  BY <1>1, <1>2 DEF BootInv
<1>9. \A t \in Services : /\ stage'[t] \in {"serving", "serving_volatile"} => MayServe'
                          /\ stage'[t] = "serving_volatile" => MayForget'
  BY <1>1, <1>2 DEF BootInv
<1> QED
  BY <1>4, <1>5, <1>6, <1>7, <1>8, <1>9 DEF BootInv

\* The transaction commits: what was pending is recorded, and took effect now
\* and not before.
LEMMA MigrateCommits == ASSUME BootInv, NEW s \in Services, Migrate(s, TRUE) PROVE BootInv'
<1>1. /\ lock = s /\ lock' = "none"
      /\ pending[s] = {m \in Range(Migrations[s]) : ~RecordedIn(m)}
  BY DEF Migrate, BootInv
<1>2. checkout[s] \in {"lf", "crlf"}
  BY DEF BootInv, BootTypeOK
<1>3. \A m : RecordedIn(m)' <=> RecordedIn(m) \/ m \in pending[s]
  BY <1>2 DEF Migrate, RecordedIn
<1>4. \A m \in Range(Migrations[s]) : RecordedIn(m)'
  BY <1>1, <1>3
<1>5. /\ \A t \in Services : stage'[t] = IF t = s THEN "durable" ELSE stage[t]
      /\ stage' \in [Services -> BootStages]
  BY DEF Migrate, Enter, BootInv, BootTypeOK, BootStages
<1>6. \A t \in Services : stage'[t] \notin {"locked", "read"}
  BY <1>1, <1>5 DEF BootInv
<1>7. \A m \in AllMigrations : executed'[m] = IF RecordedIn(m)' THEN 1 ELSE 0
  <2> TAKE m \in AllMigrations
  <2>1. executed[m] = IF RecordedIn(m) THEN 1 ELSE 0
    BY DEF BootInv
  <2>2. executed'[m] = executed[m] + IF m \in pending[s] THEN 1 ELSE 0
    BY DEF Migrate
  <2>3. m \in pending[s] => ~RecordedIn(m)
    BY <1>1
  <2> QED
    BY <1>3, <2>1, <2>2, <2>3
<1>8. BootTypeOK'
  <2>1. executed' \in [AllMigrations -> Nat]
    BY <1>7 DEF Migrate
  <2>2. pending' \in [Services -> SUBSET AllMigrations]
    BY DEF Migrate, BootInv, BootTypeOK
  <2> QED
    BY <1>5, <2>1, <2>2 DEF Migrate, BootInv, BootTypeOK
<1>9. MayServe' = MayServe /\ MayForget' = MayForget
  BY DEF MayServe, MayForget, NetworkConfirmed, KeyConfirmed, PersistenceAllows, Migrate
<1>10. \A t \in Services :
         stage'[t] \in {"durable", "serving"} => \A m \in Range(Migrations[t]) : RecordedIn(m)'
  BY <1>3, <1>4, <1>5 DEF BootInv
<1>11. \A t \in Services : /\ stage'[t] \in {"serving", "serving_volatile"} => MayServe'
                           /\ stage'[t] = "serving_volatile" => MayForget'
  BY <1>5, <1>9 DEF BootInv
<1> QED
  BY <1>1, <1>6, <1>7, <1>8, <1>10, <1>11, BootConstants DEF BootInv

LEMMA ServiceBoots ==
  ASSUME BootInv, NEW s \in Services,
         Unconnected(s) \/ Lock(s) \/ Start(s) \/ Crash(s) \/ Migrate(s, FALSE)
  PROVE  BootInv'
<1>1. CASE Unconnected(s)
  <2>1. lock # s
    BY <1>1 DEF Unconnected, BootInv
  <2> QED
    BY <1>1, <2>1, StageMoves DEF Unconnected, Enter, BootStages
<1>2. CASE Lock(s)
  BY <1>2, StageMoves DEF Lock, LockFree, Enter, BootStages
<1>3. CASE Start(s)
  <2>1. lock # s
    BY <1>3 DEF Start, BootInv
  <2>2. CASE Confirmed(s)
    <3>1. MayServe
      BY <2>2 DEF Confirmed, MayServe
    <3>2. stage[s] # "durable" => MayForget
      BY <2>2 DEF Confirmed, MayForget, PersistenceAllows
    <3>3. stage[s] = "durable" => \A m \in Range(Migrations[s]) : RecordedIn(m)
      BY DEF BootInv
    <3>4. CASE stage[s] = "durable"
      BY <1>3, <2>1, <2>2, <3>1, <3>3, <3>4, StageMoves DEF Start, Enter, BootStages
    <3>5. CASE stage[s] # "durable"
      BY <1>3, <2>1, <2>2, <3>1, <3>2, <3>5, StageMoves DEF Start, Enter, BootStages
    <3> QED
      BY <3>4, <3>5
  <2>3. CASE ~Confirmed(s)
    BY <1>3, <2>1, <2>3, StageMoves DEF Start, Enter, BootStages
  <2> QED
    BY <2>2, <2>3
<1>4. CASE Crash(s)
  BY <1>4, StageMoves DEF Crash, Enter, BootStages
<1>5. CASE Migrate(s, FALSE)
  BY <1>5, StageMoves DEF Migrate, Enter, BootStages
<1> QED
  BY <1>1, <1>2, <1>3, <1>4, <1>5

\* What is read under the lock is what is recorded, in either line ending.
LEMMA ReadsWhatIsRecorded == ASSUME BootInv, NEW s \in Services, ReadRecorded(s) PROVE BootInv'
<1>1. MayServe' = MayServe /\ MayForget' = MayForget /\ \A m : RecordedIn(m)' = RecordedIn(m)
  BY DEF MayServe, MayForget, NetworkConfirmed, KeyConfirmed, PersistenceAllows, RecordedIn, dbVars,
         ReadRecorded
<1>2. \A t \in Services : stage'[t] = IF t = s THEN "read" ELSE stage[t]
  BY DEF BootInv, BootTypeOK, ReadRecorded, Enter
<1>3. pending' = [pending EXCEPT ![s] = {m \in Range(Migrations[s]) : ~RecordedIn(m)}]
  BY DEF ReadRecorded, IsRecorded, RecordedIn
<1>4. {m \in Range(Migrations[s]) : ~RecordedIn(m)} \in SUBSET AllMigrations
  BY DEF AllMigrations
<1>5. \A t \in Services :
        pending'[t] = IF t = s THEN {m \in Range(Migrations[s]) : ~RecordedIn(m)} ELSE pending[t]
  BY <1>3 DEF BootInv, BootTypeOK
<1>6. BootTypeOK'
  <2>1. stage' \in [Services -> BootStages]
    BY DEF BootInv, BootTypeOK, ReadRecorded, Enter, BootStages
  <2>2. pending' \in [Services -> SUBSET AllMigrations]
    BY <1>3, <1>4 DEF BootInv, BootTypeOK
  <2> QED
    BY <2>1, <2>2 DEF BootInv, BootTypeOK, ReadRecorded, dbVars
<1>7. \A t \in Services :
        stage'[t] = "read" => pending'[t] = {m \in Range(Migrations[t]) : ~RecordedIn(m)'}
  <2> SUFFICES ASSUME NEW t \in Services, stage'[t] = "read"
               PROVE  pending'[t] = {m \in Range(Migrations[t]) : ~RecordedIn(m)'}
    OBVIOUS
  <2>1. CASE t = s
    BY <1>1, <1>5, <2>1
  <2>2. CASE t # s
    <3>1. pending[t] = {m \in Range(Migrations[t]) : ~RecordedIn(m)}
      BY <1>2, <2>2 DEF BootInv
    <3> QED
      BY <1>1, <1>5, <2>2, <3>1
  <2> QED
    BY <2>1, <2>2
<1>8. \A t \in Services : stage'[t] \in {"locked", "read"} <=> lock' = t
  BY <1>2 DEF ReadRecorded, BootInv
<1>9. \A m \in AllMigrations : executed'[m] = IF RecordedIn(m)' THEN 1 ELSE 0
  BY <1>1 DEF BootInv, dbVars, ReadRecorded
<1>10. \A t \in Services :
         /\ stage'[t] \in {"durable", "serving"} => \A m \in Range(Migrations[t]) : RecordedIn(m)'
         /\ stage'[t] \in {"serving", "serving_volatile"} => MayServe'
         /\ stage'[t] = "serving_volatile" => MayForget'
  BY <1>1, <1>2 DEF BootInv
<1> QED
  BY <1>6, <1>7, <1>8, <1>9, <1>10 DEF BootInv

\* The process of the configuration part may be none of the services.
LEMMA NextBoot ==
  ASSUME BootInv, BootNext \/ Unconnected("wallet") \/ Start("wallet") \/ UNCHANGED bootVars PROVE BootInv'
<1>1. CASE BootNext
  <2> PICK s \in Services : \/ Unconnected(s) \/ Lock(s) \/ ReadRecorded(s) \/ Start(s) \/ Crash(s)
                            \/ \E ok \in BOOLEAN : Migrate(s, ok)
    BY <1>1 DEF BootNext
  <2>1. ASSUME NEW ok \in BOOLEAN, Migrate(s, ok) PROVE Migrate(s, TRUE) \/ Migrate(s, FALSE)
    <3>1. CASE ok = TRUE
      BY <2>1, <3>1
    <3>2. CASE ok = FALSE
      BY <2>1, <3>2
    <3> QED
      BY <3>1, <3>2
  <2> QED
    BY <2>1, ServiceBoots, ReadsWhatIsRecorded, MigrateCommits
<1>2. CASE UNCHANGED bootVars
  <2>1. MayServe' = MayServe /\ MayForget' = MayForget /\ \A m : RecordedIn(m)' = RecordedIn(m)
    BY <1>2 DEF MayServe, MayForget, NetworkConfirmed, KeyConfirmed, PersistenceAllows, RecordedIn,
                bootVars, dbVars
  <2> QED
    BY <1>2, <2>1 DEF BootInv, BootTypeOK, bootVars, dbVars
<1>3. CASE Unconnected("wallet") \/ Start("wallet")
  <2>1. CASE "wallet" \in Services
    BY <1>3, <2>1, ServiceBoots
  <2>2. CASE "wallet" \notin Services
    <3>1. ASSUME NEW st PROVE [stage EXCEPT !["wallet"] = st] = stage
      <4>1. stage = [t \in Services |-> stage[t]]
        BY DEF BootInv, BootTypeOK
      <4>2. PICK new : new = [stage EXCEPT !["wallet"] = st]
        OBVIOUS
      <4>3. new = [t \in Services |-> new[t]] /\ \A t \in Services : new[t] = stage[t]
        BY <2>2, <4>1, <4>2
      <4> QED
        BY <4>1, <4>2, <4>3
    <3>2. ASSUME NEW st, Enter("wallet", st) PROVE stage' = stage
      <4>1. stage' = [stage EXCEPT !["wallet"] = st]
        BY <3>2 DEF Enter
      <4> QED
        BY <4>1, <3>1
    <3>3. PICK st : Enter("wallet", st) /\ UNCHANGED <<env, checkout, pending, lock, recorded, executed, crashes>>
      BY <1>3 DEF Unconnected, Start, dbVars
    <3>4. UNCHANGED bootVars
      BY <3>2, <3>3 DEF bootVars, dbVars
    <3> QED
      BY <1>2, <3>4
  <2> QED
    BY <2>1, <2>2
<1> QED
  BY <1>1, <1>2, <1>3

LEMMA BootIsSafe == ASSUME BootInv PROVE MigratedOnce /\ ServesOnlyConfirmed
<1>1. MigratedOnce
  <2>1. \A m \in AllMigrations : executed[m] \in {0, 1} /\ (RecordedIn(m) => executed[m] = 1)
    BY DEF BootInv
  <2>2. \A s \in Services : \A m \in Range(Migrations[s]) : m \in AllMigrations
    BY DEF AllMigrations
  <2> QED
    BY <2>1, <2>2 DEF MigratedOnce, BootInv
<1>2. ServesOnlyConfirmed
  <2>1. MayServe => /\ env.passphrase = env.network /\ env.rpcHost = env.network
                    /\ env.network = "mainnet" /\ env.nodeEnv = "production" => env.pin = env.secret
                    /\ env.relayer # IF env.network = "mainnet" THEN "testnet" ELSE "mainnet"
    BY DEF MayServe, NetworkConfirmed, KeyConfirmed
  <2>2. MayForget => env.allowInmemory \/ env.nodeEnv \in {"development", "test"}
    BY DEF MayForget, PersistenceAllows
  <2> QED
    BY <2>1, <2>2 DEF BootInv, ServesOnlyConfirmed
<1> QED
  BY <1>1, <1>2

-----------------------------------------------------------------------------
(* The gates of a release.                                                  *)

Count == [total : Nat, errors : Nat]

\* A canary that did not restart has counted what was there at the first
\* scrape and what it served since.
CountersAgree ==
  counters.total = before.total + served.total /\ counters.errors = before.errors + served.errors

\* The two gates share the verdict, and only one of them runs.  The row of the
\* health gate is the end of what it was answered.
GatesInv ==
  /\ elapsed \in Nat /\ healthyRow \in Nat /\ probes \in Seq(BOOLEAN) /\ restarts \in Nat
  /\ counters \in Count /\ served \in Count /\ before \in Count \cup {NoScrape}
  /\ part # "health" => probes = <<>>
  /\ part # "canary" => before = NoScrape
  /\ healthyRow <= Len(probes)
  /\ \A i \in 1..Len(probes) : i > Len(probes) - healthyRow => probes[i]
  /\ probes # <<>> /\ gate = "ok" => healthyRow >= Consecutive
  /\ gate = "timeout" => elapsed + Interval >= GateTimeout
  /\ before = NoScrape => served = Zero /\ restarts = 0
  /\ before # NoScrape /\ restarts = 0 /\ gate = "running" => CountersAgree
  /\ before # NoScrape /\ gate = "ok" /\ restarts = 0 =>
       served.total >= MinRequests /\ served.errors * BudgetDen <= served.total * BudgetNum

LEMMA InitGates == GateInit => GatesInv
  BY DEF GateInit, GatesInv, Count, Zero, NoScrape

LEMMA GatesHoldThen == ASSUME GatesInv PROVE GatesHold
<1>1. ASSUME probes # <<>>, gate = "ok"
      PROVE  /\ Len(probes) >= Consecutive
             /\ \A i \in Len(probes) - Consecutive + 1..Len(probes) : probes[i]
  <2>1. /\ healthyRow >= Consecutive /\ healthyRow <= Len(probes) /\ healthyRow \in Nat
        /\ Len(probes) \in Nat /\ Consecutive \in Nat
    BY <1>1, GateConstants DEF GatesInv
  <2>2. ASSUME NEW i \in Len(probes) - Consecutive + 1..Len(probes) PROVE probes[i]
    <3>1. i \in 1..Len(probes) /\ i > Len(probes) - healthyRow
      BY <2>1
    <3> QED
      BY <3>1 DEF GatesInv
  <2> QED
    BY <2>1, <2>2
<1> QED
  BY <1>1 DEF GatesInv, GatesHold

\* One more answer.
LEMMA ProbeKeeps ==
  ASSUME GatesInv, part = "health", UNCHANGED part,
         NEW healthy1 \in BOOLEAN, NEW took \in {0, 1}, Probe(healthy1, took)
  PROVE  GatesInv'
<1>1. /\ elapsed \in Nat /\ healthyRow \in Nat /\ probes \in Seq(BOOLEAN) /\ Len(probes) \in Nat
      /\ Interval \in Nat /\ GateTimeout \in Nat /\ Consecutive \in Nat /\ healthyRow <= Len(probes)
  BY GateConstants DEF GatesInv
<1>2. probes' = Append(probes, healthy1) /\ healthyRow' = IF healthy1 THEN healthyRow + 1 ELSE 0
  BY DEF Probe, StreakAfter
<1>3. probes' \in Seq(BOOLEAN) /\ Len(probes') = Len(probes) + 1 /\ probes'[Len(probes) + 1] = healthy1
  BY <1>1, <1>2
<1>4. \A i \in 1..Len(probes) : probes'[i] = probes[i]
  BY <1>1, <1>2
<1>5. healthyRow' \in Nat /\ healthyRow' <= Len(probes')
  BY <1>1, <1>2, <1>3
<1>6. \A i \in 1..Len(probes') : i > Len(probes') - healthyRow' => probes'[i]
  <2> SUFFICES ASSUME NEW i \in 1..Len(probes'), i > Len(probes') - healthyRow' PROVE probes'[i]
    OBVIOUS
  <2>1. healthy1 /\ i > Len(probes) - healthyRow
    BY <1>1, <1>2, <1>3
  <2>2. CASE i = Len(probes) + 1
    BY <1>3, <2>1, <2>2
  <2>3. CASE i # Len(probes) + 1
    <3>1. i \in 1..Len(probes)
      BY <1>1, <1>3, <2>3
    <3> QED
      BY <1>4, <2>1, <3>1 DEF GatesInv
  <2> QED
    BY <2>2, <2>3
<1> DEFINE reached == healthyRow' >= Consecutive
           late    == elapsed + took + Interval >= GateTimeout
<1>7. /\ gate' = IF reached THEN "ok" ELSE IF late THEN "timeout" ELSE "running"
      /\ elapsed' = IF reached \/ late THEN elapsed + took ELSE elapsed + took + Interval
  BY DEF Probe
<1>8. gate' = "ok" => healthyRow' >= Consecutive
  BY <1>7
<1>9. elapsed' \in Nat /\ (gate' = "timeout" => elapsed' + Interval >= GateTimeout)
  BY <1>1, <1>7
<1>10. before = NoScrape /\ before' = NoScrape
  BY DEF GatesInv, Probe
<1> QED
  BY <1>3, <1>5, <1>6, <1>8, <1>9, <1>10 DEF GatesInv, Probe, CountersAgree

\* The canary serves one more request, before the first scrape or after it.
LEMMA ServeKeeps ==
  ASSUME GatesInv, UNCHANGED part, gate = "running", NEW failed \in BOOLEAN, Serve(failed)
  PROVE  GatesInv'
<1>1. PICK one \in {0, 1} : one = IF failed THEN 1 ELSE 0
  OBVIOUS
<1>2. counters' = [total |-> counters.total + 1, errors |-> counters.errors + one]
  BY <1>1 DEF Serve
<1>3. served' = IF before = NoScrape THEN served
                ELSE [total |-> served.total + 1, errors |-> served.errors + one]
  BY <1>1 DEF Serve
<1>4. /\ counters.total \in Nat /\ counters.errors \in Nat
      /\ served.total \in Nat /\ served.errors \in Nat
  BY DEF GatesInv, Count
<1>5. counters' \in Count /\ served' \in Count
  BY <1>2, <1>3, <1>4 DEF GatesInv, Count
<1>6. before # NoScrape /\ CountersAgree => CountersAgree'
  <2> SUFFICES ASSUME before # NoScrape, CountersAgree PROVE CountersAgree'
    OBVIOUS
  <2>1. before \in Count /\ before' = before
    BY DEF GatesInv, Serve
  <2>2. before.total \in Nat /\ before.errors \in Nat
    BY <2>1 DEF Count
  <2>3. /\ counters'.total = counters.total + 1 /\ counters'.errors = counters.errors + one
        /\ served'.total = served.total + 1 /\ served'.errors = served.errors + one
    BY <1>2, <1>3
  <2> QED
    BY <1>4, <2>1, <2>2, <2>3 DEF CountersAgree
<1>7. /\ UNCHANGED <<gate, elapsed, healthyRow, probes, before, restarts>>
      /\ before = NoScrape => served' = served
  BY <1>3 DEF Serve
<1> QED
  BY <1>5, <1>6, <1>7 DEF GatesInv

\* The second scrape sees what was served in the window, when one process served it.
LEMMA ScrapeKeeps == ASSUME GatesInv, UNCHANGED part, part = "canary", SecondScrape PROVE GatesInv'
<1>1. before \in Count /\ served \in Count /\ counters \in Count
  BY DEF GatesInv, SecondScrape
<1>2. /\ before.total \in Nat /\ before.errors \in Nat /\ counters.total \in Nat /\ counters.errors \in Nat
      /\ served.total \in Nat /\ served.errors \in Nat
  BY <1>1 DEF Count
<1>3. PICK requests, failures : /\ requests = Delta(counters.total, before.total)
                                /\ failures = Delta(counters.errors, before.errors)
  OBVIOUS
<1>4. requests \in Nat /\ failures \in Nat
  BY <1>2, <1>3 DEF Delta
<1>5. restarts = 0 => requests = served.total /\ failures = served.errors
  BY <1>2, <1>3 DEF Delta, GatesInv, SecondScrape, CountersAgree
<1>6. gate' = IF requests < MinRequests THEN "inconclusive"
              ELSE IF failures * BudgetDen <= requests * BudgetNum THEN "ok" ELSE "exceeded"
  BY <1>3 DEF SecondScrape
<1>7. gate' = "ok" => requests >= MinRequests /\ failures * BudgetDen <= requests * BudgetNum
  BY <1>4, <1>6, GateConstants
<1>8. gate' \in {"inconclusive", "ok", "exceeded"}
  BY <1>6
<1>9. /\ gate' = "ok" /\ restarts = 0 =>
           served.total >= MinRequests /\ served.errors * BudgetDen <= served.total * BudgetNum
      /\ gate' # "running" /\ gate' # "timeout"
  BY <1>5, <1>7, <1>8
<1>10. UNCHANGED <<elapsed, healthyRow, probes, counters, before, served, restarts>>
  BY DEF SecondScrape
<1>11. probes = <<>>
  BY DEF GatesInv
<1> QED
  BY <1>9, <1>10, <1>11 DEF GatesInv

LEMMA CanaryKeeps == ASSUME GatesInv, part = "canary", UNCHANGED part, CanaryNext PROVE GatesInv'
<1>1. gate = "running" /\ probes = <<>>
  BY DEF CanaryNext, GatesInv
<1>2. CASE FirstScrape
  <2>1. counters.total \in Nat /\ counters.errors \in Nat /\ before = NoScrape /\ before' = counters
    BY <1>2 DEF GatesInv, Count, FirstScrape
  <2>2. served' = Zero /\ restarts' = 0 /\ served = Zero
    BY <1>2, <2>1 DEF GatesInv, FirstScrape
  <2>3. CountersAgree'
    BY <1>2, <2>1, <2>2 DEF CountersAgree, Zero, FirstScrape
  <2>4. before' # NoScrape /\ before' \in Count
    BY <2>1 DEF NoScrape, GatesInv
  <2> QED
    BY <1>1, <1>2, <2>2, <2>3, <2>4 DEF GatesInv, FirstScrape
<1>3. CASE SecondScrape
  BY <1>3, ScrapeKeeps
<1>4. CASE ScrapeFails
  BY <1>1, <1>4 DEF GatesInv, ScrapeFails
<1>5. CASE RestartCanary
  <2>1. restarts' \in Nat /\ restarts' # 0 /\ counters' \in Count /\ before' # NoScrape
    BY <1>5 DEF GatesInv, RestartCanary, Count, Zero
  <2>2. /\ UNCHANGED <<elapsed, healthyRow, probes, before, served>>
        /\ gate' = "running" /\ part' = "canary"
    BY <1>1, <1>5 DEF RestartCanary
  <2> QED
    BY <1>1, <2>1, <2>2 DEF GatesInv
<1> QED
  BY <1>1, <1>2, <1>3, <1>4, <1>5, ServeKeeps DEF CanaryNext

LEMMA NextGates == GatesInv /\ [MCNext]_allVars => GatesInv'
<1> SUFFICES ASSUME GatesInv, [MCNext]_allVars PROVE GatesInv'
  OBVIOUS
<1>1. /\ UNCHANGED part
      /\ \/ UNCHANGED gateVars
         \/ part = "health" /\ HealthNext
         \/ part = "canary" /\ CanaryNext
  <2>1. UNCHANGED part
    BY DEF MCNext, allVars
  <2>2. CASE UNCHANGED sharedState
    BY <2>1, <2>2 DEF sharedState
  <2>3. CASE SharedNext
    BY <2>1, <2>3 DEF SharedNext
  <2> QED
    BY <2>1, <2>2, <2>3 DEF MCNext, allVars
<1>2. CASE UNCHANGED gateVars
  BY <1>1, <1>2 DEF GatesInv, gateVars, CountersAgree
<1> QED
  BY <1>1, <1>2, ProbeKeeps, CanaryKeeps DEF HealthNext

-----------------------------------------------------------------------------
(* The operator's scripts.                                                  *)

\* An account looked funded because it has its minimum, and the verdict is read
\* off the looks, which are not taken twice.
KeyInv ==
  /\ looked \in [Networks -> [Roles -> {"pending", "error", "not_found", "funded", "underfunded"}]]
  /\ \A net \in Networks, r \in Roles : looked[net][r] = "funded" => funds[net][r] >= MinXlm
  /\ keyVerdict = "pass" => relayerAgrees /\ \A r \in Roles : KeyOk(r)

LEMMA KeysMove == KeyInv /\ [KeyNext]_keyVars => KeyInv'
<1> SUFFICES ASSUME KeyInv, [KeyNext]_keyVars PROVE KeyInv'
  OBVIOUS
<1>1. CASE UNCHANGED keyVars
  BY <1>1 DEF KeyInv, keyVars, relayerAgrees, KeyOk
<1>2. CASE Judge
  BY <1>2 DEF Judge, KeyInv, relayerAgrees, KeyOk
<1>3. ASSUME NEW net \in Networks, NEW r \in Roles, LookUp(net, r) PROVE KeyInv'
  <2>1. PICK answer \in {"error", "not_found", "funded", "underfunded"} :
          /\ looked' = [looked EXCEPT ![net][r] = answer]
          /\ answer = "funded" => funds[net][r] >= MinXlm
    BY <1>3 DEF LookUp
  <2>2. looked' \in [Networks -> [Roles -> {"pending", "error", "not_found", "funded", "underfunded"}]]
    BY <2>1 DEF KeyInv
  <2>3. \A n \in Networks, q \in Roles :
          looked'[n][q] = IF n = net /\ q = r THEN answer ELSE looked[n][q]
    BY <2>1 DEF KeyInv
  <2>4. looked[net][r] # "funded" /\ UNCHANGED <<funds, relayerOn, keyVerdict>>
    BY <1>3 DEF LookUp
  <2>5. Declared \in Networks
    BY DEF Declared, Networks
  <2>6. \A n \in Networks, q \in Roles : looked'[n][q] = "funded" => funds'[n][q] >= MinXlm
    BY <2>1, <2>3, <2>4 DEF KeyInv
  <2>7. \A q \in Roles : KeyOk(q) => KeyOk(q)'
    BY <2>3, <2>4, <2>5 DEF KeyOk
  <2> QED
    BY <2>2, <2>4, <2>6, <2>7 DEF KeyInv, relayerAgrees
<1> QED
  BY <1>1, <1>2, <1>3 DEF KeyNext

LEMMA InitKeys == KeyInit => KeyInv
  BY DEF KeyInit, KeyInv

LEMMA KeysArePlaced == ASSUME KeyInv PROVE KeysPlaced
<1>1. Declared \in Networks
  BY DEF Declared, Networks
<1> QED
  BY <1>1 DEF KeyInv, KeysPlaced, KeyOk, relayerAgrees, Networks, Declared

JobRow == [there : BOOLEAN, status : {"verified", "failed"}, hash : Nat, updated : {0, 1}]
Tally == [listed : SUBSET RowIds, succeeded : Nat, skipped : Nat, failed : Nat]
Script == [step : {"scan", "fetch", "recheck", "write", "done"}, todo : SUBSET RowIds, tries : Nat, hash : Nat]
Outcomes == {"succeeded", "skipped", "failed"}

\* Every listed record is still to do or counted, and when none was counted as
\* failed, one that is done and still there has a hash.
BackfillInv ==
  /\ jobRow \in [RowIds -> JobRow] /\ live \in Nat \ {0} /\ tally \in Tally /\ script \in Script
  /\ script.todo \subseteq tally.listed
  /\ Cardinality(tally.listed) = tally.succeeded + tally.skipped + tally.failed + Cardinality(script.todo)
  /\ script.step = "scan" => tally.listed = {} /\ tally.failed = 0 /\ exit = -1
  /\ script.step \in {"fetch", "recheck", "write"} => script.todo # {} /\ exit = -1
  /\ script.step \in {"recheck", "write"} => script.hash # 0
  /\ exit \in {0, 1} => script.todo = {} /\ (exit = 1 <=> tally.failed > 0)
  /\ tally.failed = 0 /\ ~dryRun =>
       \A i \in tally.listed \ script.todo : jobRow[i].there => jobRow[i].hash # 0

\* Nobody brings a record back, or takes its hash away.
RowsKept ==
  /\ jobRow' \in [RowIds -> JobRow]
  /\ \A i \in RowIds : /\ jobRow'[i].there => jobRow[i].there
                       /\ jobRow[i].hash # 0 => jobRow'[i].hash # 0

Counting(t, o) == [t EXCEPT ![o] = @ + 1]

LEMMA OneMoreCounted ==
  ASSUME NEW A, NEW t \in [listed : A, succeeded : Nat, skipped : Nat, failed : Nat], NEW o \in Outcomes,
         NEW new, new = Counting(t, o)
  PROVE  /\ new \in [listed : A, succeeded : Nat, skipped : Nat, failed : Nat]
         /\ new.listed = t.listed
         /\ new.succeeded + new.skipped + new.failed = t.succeeded + t.skipped + t.failed + 1
         /\ o = "failed" => new.failed > 0
         /\ o # "failed" => new.failed = t.failed
<1>1. CASE o = "succeeded"
  <2>1. new = [t EXCEPT !.succeeded = @ + 1]
    BY <1>1 DEF Counting
  <2> QED
    BY <1>1, <2>1
<1>2. CASE o = "skipped"
  <2>1. new = [t EXCEPT !.skipped = @ + 1]
    BY <1>2 DEF Counting
  <2> QED
    BY <1>2, <2>1
<1>3. CASE o = "failed"
  <2>1. new = [t EXCEPT !.failed = @ + 1]
    BY <1>3 DEF Counting
  <2> QED
    BY <1>3, <2>1
<1> QED
  BY <1>1, <1>2, <1>3 DEF Outcomes

LEMMA RestingThen ==
  ASSUME NEW A, NEW B, NEW st \in A, NEW todo \in B,
         NEW old \in [step : A, todo : B, tries : Nat, hash : Nat]
  PROVE  LET new == [old EXCEPT !.step = st, !.todo = todo] IN
         new \in [step : A, todo : B, tries : Nat, hash : Nat] /\ new.step = st /\ new.todo = todo
  OBVIOUS

LEMMA CurrentIs == ASSUME BackfillInv, script.todo # {} PROVE Current \in script.todo
<1>1. script.todo \subseteq Nat
  BY ScriptConstants DEF BackfillInv, Script
<1> QED
  BY <1>1, Least DEF Current

LEMMA OneLess == ASSUME NEW S \in SUBSET RowIds, NEW x \in S
                 PROVE  /\ Cardinality(S) = Cardinality(S \ {x}) + 1
                        /\ Cardinality(S) \in Nat /\ Cardinality(S \ {x}) \in Nat
<1>1. IsFiniteSet(S)
  BY ScriptConstants, FS_Subset
<1>2. IsFiniteSet(S \ {x}) /\ Cardinality(S \ {x}) = Cardinality(S) - 1
  BY <1>1, FS_RemoveElement
<1>3. Cardinality(S) \in Nat /\ Cardinality(S \ {x}) \in Nat
  BY <1>1, <1>2, FS_CardinalityType
<1> QED
  BY <1>2, <1>3

\* The current record is counted, and the next one taken.
LEMMA AdvanceKeeps ==
  ASSUME BackfillInv, RowsKept, UNCHANGED <<live, dryRun>>, NEW o \in Outcomes, Advance(o),
         script.step \in {"fetch", "recheck", "write"},
         o # "failed" /\ ~dryRun /\ jobRow'[Current].there => jobRow'[Current].hash # 0
  PROVE  BackfillInv'
<1>1. script.todo # {} /\ exit = -1 /\ script.todo \in SUBSET RowIds /\ script.todo \subseteq tally.listed
  BY DEF BackfillInv, Script
<1>2. PICK i \in script.todo : i = Current
  BY <1>1, CurrentIs
<1>3. PICK rest \in SUBSET RowIds : rest = script.todo \ {i}
  BY <1>1
<1>4. tally' = [tally EXCEPT ![o] = @ + 1] /\ tally \in Tally
  BY DEF Advance, BackfillInv
<1>5. /\ tally' \in Tally /\ tally'.listed = tally.listed
      /\ tally'.succeeded + tally'.skipped + tally'.failed = tally.succeeded + tally.skipped + tally.failed + 1
      /\ o = "failed" => tally'.failed > 0
      /\ o # "failed" => tally'.failed = tally.failed
  <2>1. PICK t \in Tally : t = tally
    BY <1>4
  <2>2. PICK new : new = Counting(t, o)
    OBVIOUS
  <2>3. /\ new \in Tally /\ new.listed = t.listed
        /\ new.succeeded + new.skipped + new.failed = t.succeeded + t.skipped + t.failed + 1
        /\ o = "failed" => new.failed > 0
        /\ o # "failed" => new.failed = t.failed
    <3>1. PICK A : A = SUBSET RowIds
      OBVIOUS
    <3>2. Tally = [listed : A, succeeded : Nat, skipped : Nat, failed : Nat]
      BY <3>1 DEF Tally
    <3>3. t \in [listed : A, succeeded : Nat, skipped : Nat, failed : Nat]
      BY <3>2
    <3>4. /\ new \in [listed : A, succeeded : Nat, skipped : Nat, failed : Nat] /\ new.listed = t.listed
          /\ new.succeeded + new.skipped + new.failed = t.succeeded + t.skipped + t.failed + 1
          /\ o = "failed" => new.failed > 0
          /\ o # "failed" => new.failed = t.failed
      BY <2>2, <3>3, OneMoreCounted, o \in Outcomes
    <3> QED
      BY <3>2, <3>4
  <2>4. new = tally'
    BY <1>4, <2>1, <2>2 DEF Counting
  <2> QED
    BY <2>1, <2>3, <2>4
<1>6. PICK st \in {"scan", "fetch", "recheck", "write", "done"} : st = IF rest # {} THEN "fetch" ELSE "done"
  OBVIOUS
<1>7. PICK resting \in Script : resting = Resting
  BY DEF Script, Resting
<1>8. script' = [resting EXCEPT !.step = st, !.todo = rest]
  BY <1>2, <1>3, <1>6, <1>7 DEF Advance
<1>9. script' \in Script /\ script'.step = st /\ script'.todo = rest
  BY <1>8, RestingThen DEF Script
<1>10. exit' = IF rest # {} THEN exit ELSE IF tally'.failed > 0 THEN 1 ELSE 0
  BY <1>2, <1>3, <1>4 DEF Advance
<1>11. /\ Cardinality(script.todo) = Cardinality(rest) + 1
       /\ Cardinality(script.todo) \in Nat /\ Cardinality(rest) \in Nat
  BY <1>1, <1>3, OneLess
<1>12. Cardinality(tally'.listed) =
         tally'.succeeded + tally'.skipped + tally'.failed + Cardinality(script'.todo)
  <2>1. /\ tally.succeeded \in Nat /\ tally.skipped \in Nat /\ tally.failed \in Nat
        /\ tally'.succeeded \in Nat /\ tally'.skipped \in Nat /\ tally'.failed \in Nat
    BY <1>4, <1>5 DEF Tally
  <2>2. Cardinality(tally.listed) = tally.succeeded + tally.skipped + tally.failed + Cardinality(script.todo)
    BY DEF BackfillInv
  <2>3. Cardinality(tally'.listed) = Cardinality(tally.listed) /\ Cardinality(script'.todo) = Cardinality(rest)
    BY <1>5, <1>9
  <2> QED
    BY <1>5, <1>11, <2>1, <2>2, <2>3
<1>13. tally'.failed = 0 /\ ~dryRun =>
         \A j \in tally'.listed \ script'.todo : jobRow'[j].there => jobRow'[j].hash # 0
  <2> SUFFICES ASSUME tally'.failed = 0, ~dryRun, NEW j \in tally'.listed \ script'.todo, jobRow'[j].there
               PROVE  jobRow'[j].hash # 0
    OBVIOUS
  <2>1. o # "failed" /\ tally.failed = 0
    BY <1>5
  <2>2. CASE j = i
    BY <1>2, <2>1, <2>2
  <2>3. CASE j # i
    <3>1. j \in tally.listed \ script.todo /\ j \in RowIds
      BY <1>3, <1>4, <1>5, <1>9, <2>3 DEF Tally
    <3>2. jobRow[j].hash # 0
      BY <2>1, <3>1 DEF RowsKept, BackfillInv
    <3> QED
      BY <3>1, <3>2 DEF RowsKept
  <2> QED
    BY <2>2, <2>3
<1>14. script'.todo \subseteq tally'.listed
  BY <1>1, <1>3, <1>5, <1>9
<1>15. exit' \in {0, 1} => script'.todo = {} /\ (exit' = 1 <=> tally'.failed > 0)
  BY <1>1, <1>9, <1>10
<1>16. script'.step \in {"fetch", "recheck", "write"} => script'.todo # {} /\ exit' = -1
  BY <1>1, <1>6, <1>9, <1>10
<1>17. script'.step \notin {"scan", "recheck", "write"}
  BY <1>6, <1>9
<1> QED
  BY <1>5, <1>9, <1>12, <1>13, <1>14, <1>15, <1>16, <1>17 DEF BackfillInv, RowsKept

\* Only the rows move.
LEMMA RowsMove == ASSUME BackfillInv, RowsKept, UNCHANGED <<script, dryRun, tally, exit>>, live' \in Nat \ {0}
                  PROVE  BackfillInv'
<1>1. tally.listed \subseteq RowIds
  BY DEF BackfillInv, Tally
<1> QED
  BY <1>1 DEF BackfillInv, RowsKept

\* Only the step of the script moves, within the record.
LEMMA ScriptMoves ==
  ASSUME BackfillInv, UNCHANGED <<jobRow, live, dryRun, tally, exit>>, script' \in Script,
         script'.todo = script.todo, script.step \in {"fetch", "recheck", "write"},
         script'.step \in {"fetch", "recheck", "write"},
         script'.step \in {"recheck", "write"} => script'.hash # 0
  PROVE  BackfillInv'
  BY DEF BackfillInv

LEMMA Stamped ==
  ASSUME NEW B, NEW C, NEW D, NEW h \in Nat, NEW u \in D,
         NEW old \in [there : B, status : C, hash : Nat, updated : D]
  PROVE  LET new == [old EXCEPT !.hash = h, !.updated = u] IN
         /\ new \in [there : B, status : C, hash : Nat, updated : D]
         /\ new.there = old.there /\ new.hash = h
  OBVIOUS

LEMMA Removed ==
  ASSUME NEW B, NEW C, NEW D, NEW b \in B, NEW old \in [there : B, status : C, hash : Nat, updated : D]
  PROVE  LET new == [old EXCEPT !.there = b] IN
         /\ new \in [there : B, status : C, hash : Nat, updated : D]
         /\ new.there = b /\ new.hash = old.hash
  OBVIOUS

LEMMA RowChanged ==
  ASSUME BackfillInv, NEW i \in RowIds, NEW new \in JobRow, jobRow' = [jobRow EXCEPT ![i] = new],
         new.there => jobRow[i].there, jobRow[i].hash # 0 => new.hash # 0
  PROVE  RowsKept /\ jobRow'[i] = new
<1>1. jobRow' \in [RowIds -> JobRow] /\ \A j \in RowIds : jobRow'[j] = IF j = i THEN new ELSE jobRow[j]
  BY DEF BackfillInv
<1> QED
  BY <1>1 DEF RowsKept

LEMMA NobodyMovesRows == ASSUME BackfillInv, jobRow' = jobRow PROVE RowsKept
  BY DEF BackfillInv, RowsKept

\* The record the script writes has the hash it fetched, if it is still there.
LEMMA WriteKeeps == ASSUME BackfillInv, WriteHash PROVE BackfillInv'
<1>1. /\ script.step = "write" /\ script.todo # {} /\ script.todo \subseteq RowIds
      /\ script.hash \in Nat \ {0}
  BY DEF WriteHash, BackfillInv, Script
<1>2. PICK i \in RowIds : i = Current
  BY <1>1, CurrentIs
<1>3. PICK old \in JobRow : old = jobRow[i]
  BY DEF BackfillInv
<1>4. PICK new : new = [old EXCEPT !.hash = script.hash, !.updated = 1]
  OBVIOUS
<1>5. new \in JobRow /\ new.there = old.there /\ new.hash = script.hash
  BY <1>1, <1>4, Stamped DEF JobRow
<1>6. jobRow' = [jobRow EXCEPT ![i] = IF old.there THEN new ELSE old]
  BY <1>2, <1>3, <1>4 DEF WriteHash
<1>7. RowsKept /\ (jobRow'[i].there => jobRow'[i].hash # 0)
  <2>1. CASE old.there
    BY <1>1, <1>3, <1>5, <1>6, <2>1, RowChanged
  <2>2. CASE ~old.there
    BY <1>3, <1>6, <2>2, RowChanged
  <2> QED
    BY <2>1, <2>2
<1> QED
  BY <1>1, <1>2, <1>7, AdvanceKeeps DEF WriteHash, Outcomes

LEMMA ScriptFetched ==
  ASSUME NEW A, NEW B, NEW old \in [step : A, todo : B, tries : Nat, hash : Nat], NEW st \in A, NEW h \in Nat
  PROVE  LET new == [old EXCEPT !.step = st, !.hash = h] IN
         /\ new \in [step : A, todo : B, tries : Nat, hash : Nat]
         /\ new.todo = old.todo /\ new.step = st /\ new.hash = h
  OBVIOUS

LEMMA ScriptStepped ==
  ASSUME NEW A, NEW B, NEW old \in [step : A, todo : B, tries : Nat, hash : Nat], NEW st \in A
  PROVE  LET new == [old EXCEPT !.step = st] IN
         /\ new \in [step : A, todo : B, tries : Nat, hash : Nat]
         /\ new.todo = old.todo /\ new.step = st /\ new.hash = old.hash
  OBVIOUS

LEMMA ScriptRetries ==
  ASSUME NEW A, NEW B, NEW old \in [step : A, todo : B, tries : Nat, hash : Nat]
  PROVE  LET new == [old EXCEPT !.tries = @ + 1] IN
         /\ new \in [step : A, todo : B, tries : Nat, hash : Nat]
         /\ new.todo = old.todo /\ new.step = old.step /\ new.hash = old.hash
  OBVIOUS

LEMMA FetchKeeps == ASSUME BackfillInv, FetchHash \/ FetchHashFails PROVE BackfillInv'
<1>1. /\ UNCHANGED <<jobRow, live, dryRun>> /\ script.step = "fetch"
      /\ live \in Nat \ {0} /\ script \in Script
  BY DEF FetchHash, FetchHashFails, BackfillInv
<1>2. RowsKept
  BY <1>1, NobodyMovesRows
<1>3. CASE FetchHash
  <2>1. CASE dryRun
    BY <1>1, <1>2, <1>3, <2>1, AdvanceKeeps DEF FetchHash, Outcomes
  <2>2. CASE ~dryRun
    <3>1. script' = [script EXCEPT !.step = "recheck", !.hash = live] /\ UNCHANGED <<tally, exit>>
      BY <1>3, <2>2 DEF FetchHash
    <3>2. /\ script' \in Script /\ script'.todo = script.todo
          /\ script'.step = "recheck" /\ script'.hash = live
      <4>1. PICK old \in Script : old = script
        BY <1>1
      <4>2. PICK new : new = [old EXCEPT !.step = "recheck", !.hash = live]
        OBVIOUS
      <4>3. new \in Script /\ new.todo = old.todo /\ new.step = "recheck" /\ new.hash = live
        BY <1>1, <4>2, ScriptFetched DEF Script
      <4> QED
        BY <3>1, <4>1, <4>2, <4>3
    <3> QED
      BY <1>1, <3>1, <3>2, ScriptMoves
  <2> QED
    BY <2>1, <2>2
<1>4. CASE FetchHashFails
  <2>1. CASE script.tries + 1 < MAX_RETRIES
    <3>1. script' = [script EXCEPT !.tries = @ + 1] /\ UNCHANGED <<tally, exit>>
      BY <1>4, <2>1 DEF FetchHashFails
    <3>2. /\ script' \in Script /\ script'.todo = script.todo /\ script'.step = "fetch"
      BY <1>1, <3>1, ScriptRetries DEF Script
    <3> QED
      BY <1>1, <3>1, <3>2, ScriptMoves
  <2>2. CASE ~(script.tries + 1 < MAX_RETRIES)
    <3>1. Advance("failed")
      BY <1>4, <2>2 DEF FetchHashFails
    <3> QED
      BY <1>1, <1>2, <3>1, AdvanceKeeps DEF Outcomes
  <2> QED
    BY <2>1, <2>2
<1> QED
  BY <1>3, <1>4

LEMMA RecheckKeeps == ASSUME BackfillInv, Recheck PROVE BackfillInv'
<1>1. /\ UNCHANGED <<jobRow, live, dryRun>> /\ script.step = "recheck"
      /\ script \in Script /\ script.hash # 0
  BY DEF Recheck, BackfillInv
<1>2. RowsKept
  BY <1>1, NobodyMovesRows
<1>3. CASE ~jobRow[Current].there
  BY <1>1, <1>2, <1>3, AdvanceKeeps DEF Recheck, Outcomes
<1>4. CASE jobRow[Current].there /\ jobRow[Current].hash # 0
  BY <1>1, <1>2, <1>4, AdvanceKeeps DEF Recheck, Outcomes
<1>5. CASE jobRow[Current].there /\ jobRow[Current].hash = 0
  <2>1. script' = [script EXCEPT !.step = "write"] /\ UNCHANGED <<tally, exit>>
    BY <1>5 DEF Recheck
  <2>2. /\ script' \in Script /\ script'.todo = script.todo /\ script'.step = "write"
        /\ script'.hash = script.hash
    BY <1>1, <2>1, ScriptStepped DEF Script
  <2> QED
    BY <1>1, <2>1, <2>2, ScriptMoves
<1> QED
  BY <1>3, <1>4, <1>5

LEMMA TallyListed ==
  ASSUME NEW A, NEW t \in [listed : A, succeeded : Nat, skipped : Nat, failed : Nat], NEW x \in A
  PROVE  LET new == [t EXCEPT !.listed = x] IN
         /\ new \in [listed : A, succeeded : Nat, skipped : Nat, failed : Nat]
         /\ new.listed = x /\ new.succeeded = t.succeeded /\ new.skipped = t.skipped /\ new.failed = t.failed
  OBVIOUS

LEMMA RestingIs == Resting \in Script /\ Resting.step = "scan" /\ Resting.todo = {}
<1>1. PICK none \in SUBSET RowIds : none = {}
  OBVIOUS
<1>2. PICK resting : resting = [step |-> "scan", todo |-> none, tries |-> 0, hash |-> 0]
  OBVIOUS
<1>3. resting.step = "scan" /\ resting.todo = none
  BY <1>2
<1>4. resting \in Script
  BY <1>2 DEF Script
<1>5. resting = Resting
  BY <1>1, <1>2 DEF Resting
<1> QED
  BY <1>1, <1>3, <1>4, <1>5

\* What is listed is all still to do.
LEMMA ScanKeeps == ASSUME BackfillInv, ScanRows PROVE BackfillInv'
<1>1. /\ script.step = "scan" /\ tally.listed = {} /\ tally.failed = 0 /\ exit = -1
      /\ tally \in Tally /\ script.todo = {}
  BY DEF ScanRows, BackfillInv
<1>2. tally.succeeded \in Nat /\ tally.skipped \in Nat
  BY <1>1 DEF Tally
<1>3. Cardinality({}) = 0
  BY FS_EmptySet
<1>4. tally.succeeded + tally.skipped = 0
  BY <1>1, <1>2, <1>3 DEF BackfillInv
<1>5. PICK listed \in SUBSET RowIds :
        listed = {i \in RowIds : jobRow[i].there /\ jobRow[i].status = "verified" /\ jobRow[i].hash = 0}
  OBVIOUS
<1>6. PICK resting \in Script : resting = Resting /\ resting.todo = {}
  BY RestingIs
<1>7. UNCHANGED <<jobRow, live, dryRun>> /\ jobRow \in [RowIds -> JobRow] /\ live \in Nat \ {0}
  BY DEF ScanRows, BackfillInv
<1>8. ASSUME /\ script' = [Resting EXCEPT !.step = IF listed = {} THEN "done" ELSE "fetch", !.todo = listed]
             /\ tally' = [tally EXCEPT !.listed = listed]
             /\ exit' = IF listed = {} THEN 0 ELSE exit
      PROVE  BackfillInv'
  <2>1. PICK st \in {"done", "fetch"} : st = IF listed = {} THEN "done" ELSE "fetch"
    OBVIOUS
  <2>2. script' = [resting EXCEPT !.step = st, !.todo = listed]
    BY <1>6, <1>8, <2>1
  <2>3. script' \in Script /\ script'.step = st /\ script'.todo = listed
    BY <2>2, RestingThen DEF Script
  <2>4. /\ tally' \in Tally /\ tally'.listed = listed /\ tally'.succeeded = tally.succeeded
        /\ tally'.skipped = tally.skipped /\ tally'.failed = 0
    BY <1>1, <1>8, TallyListed DEF Tally
  <2>5. Cardinality(listed) \in Nat
    BY ScriptConstants, FS_Subset, FS_CardinalityType
  <2>6. Cardinality(tally'.listed) =
          tally'.succeeded + tally'.skipped + tally'.failed + Cardinality(script'.todo)
    <3>1. Cardinality(tally'.listed) = Cardinality(listed) /\ Cardinality(script'.todo) = Cardinality(listed)
      BY <2>3, <2>4
    <3> QED
      BY <1>2, <1>4, <2>4, <2>5, <3>1
  <2>7. /\ exit' \in {0, 1} => script'.todo = {} /\ (exit' = 1 <=> tally'.failed > 0)
        /\ script'.step \in {"fetch", "recheck", "write"} => script'.todo # {} /\ exit' = -1
        /\ script'.step \notin {"scan", "recheck", "write"}
    BY <1>1, <1>8, <2>1, <2>3, <2>4
  <2> QED
    BY <1>7, <2>3, <2>4, <2>6, <2>7 DEF BackfillInv
<1>9. ASSUME script' = [Resting EXCEPT !.step = "done"], exit' = 2, UNCHANGED tally PROVE BackfillInv'
  <2>1. script' = [resting EXCEPT !.step = "done"]
    BY <1>6, <1>9
  <2>2. script' \in Script /\ script'.step = "done" /\ script'.todo = {}
    <3>1. PICK new : new = [resting EXCEPT !.step = "done"]
      OBVIOUS
    <3>2. new \in Script /\ new.todo = resting.todo /\ new.step = "done"
      BY <3>1, ScriptStepped DEF Script
    <3> QED
      BY <1>6, <2>1, <3>1, <3>2
  <2>3. Cardinality(script'.todo) = Cardinality(script.todo)
    BY <1>1, <2>2
  <2>4. /\ Cardinality(tally'.listed) =
             tally'.succeeded + tally'.skipped + tally'.failed + Cardinality(script'.todo)
        /\ tally' \in Tally /\ tally'.listed = {} /\ script'.todo \subseteq tally'.listed
    BY <1>1, <1>9, <2>2, <2>3 DEF BackfillInv
  <2>5. exit' = 2
    BY <1>9
  <2> QED
    BY <1>7, <2>2, <2>4, <2>5 DEF BackfillInv
<1> QED
  BY <1>5, <1>8, <1>9 DEF ScanRows

LEMMA OthersKeep ==
  ASSUME BackfillInv, NEW i \in RowIds, DeleteRow(i) \/ OtherRunStamps(i) PROVE BackfillInv'
<1>1. PICK old \in JobRow : old = jobRow[i]
  BY DEF BackfillInv
<1>2. live \in Nat \ {0} /\ UNCHANGED <<live, script, dryRun, tally, exit>>
  BY DEF BackfillInv, DeleteRow, OtherRunStamps
<1>3. CASE DeleteRow(i)
  <2>1. PICK new : new = [old EXCEPT !.there = FALSE]
    OBVIOUS
  <2>2. new \in JobRow /\ new.there = FALSE /\ new.hash = old.hash
    BY <2>1, Removed DEF JobRow
  <2>3. jobRow' = [jobRow EXCEPT ![i] = new]
    BY <1>1, <1>3, <2>1 DEF DeleteRow
  <2>4. RowsKept
    BY <1>1, <2>2, <2>3, RowChanged
  <2> QED
    BY <1>2, <2>4, RowsMove
<1>4. CASE OtherRunStamps(i)
  <2>1. PICK new : new = [old EXCEPT !.hash = live, !.updated = 1]
    OBVIOUS
  <2>2. new \in JobRow /\ new.there = old.there /\ new.hash = live
    BY <1>2, <2>1, Stamped DEF JobRow
  <2>3. jobRow' = [jobRow EXCEPT ![i] = new]
    BY <1>1, <1>4, <2>1 DEF OtherRunStamps
  <2>4. RowsKept
    BY <1>1, <1>2, <2>2, <2>3, RowChanged
  <2> QED
    BY <1>2, <2>4, RowsMove
<1> QED
  BY <1>3, <1>4

LEMMA NextBackfill == BackfillInv /\ [BackfillNext]_backfillVars => BackfillInv'
<1> SUFFICES ASSUME BackfillInv, [BackfillNext]_backfillVars PROVE BackfillInv'
  OBVIOUS
<1>1. CASE UNCHANGED backfillVars
  <2>1. live' \in Nat \ {0} /\ RowsKept /\ UNCHANGED <<script, dryRun, tally, exit>>
    BY <1>1, NobodyMovesRows DEF backfillVars, BackfillInv
  <2> QED
    BY <2>1, RowsMove
<1>2. CASE Upgrade
  <2>1. live' \in Nat \ {0} /\ RowsKept /\ UNCHANGED <<script, dryRun, tally, exit>>
    BY <1>2, NobodyMovesRows DEF Upgrade, BackfillInv
  <2> QED
    BY <2>1, RowsMove
<1>3. CASE WriteFails
  BY <1>3, NobodyMovesRows, AdvanceKeeps DEF WriteFails, Outcomes
<1> QED
  BY <1>1, <1>2, <1>3, ScanKeeps, FetchKeeps, RecheckKeeps, WriteKeeps, OthersKeep DEF BackfillNext

LEMMA InitBackfill == BackfillInit => BackfillInv
<1> SUFFICES ASSUME BackfillInit PROVE BackfillInv
  OBVIOUS
<1>1. script \in Script /\ script.step = "scan" /\ script.todo = {}
  BY RestingIs DEF BackfillInit
<1>2. tally \in Tally /\ tally.listed = {} /\ tally.succeeded = 0 /\ tally.skipped = 0 /\ tally.failed = 0
  BY DEF BackfillInit, Tally
<1>3. jobRow \in [RowIds -> JobRow]
  <2> DEFINE rows == {[there |-> TRUE, status |-> s, hash |-> h, updated |-> 0] :
                        s \in {"verified", "failed"}, h \in {0, 1}}
  <2>2. ASSUME NEW new \in rows PROVE new \in JobRow
    <3>1. PICK s \in {"verified", "failed"}, h \in {0, 1} :
            new = [there |-> TRUE, status |-> s, hash |-> h, updated |-> 0]
      OBVIOUS
    <3> QED
      BY <3>1 DEF JobRow
  <2>3. jobRow \in [RowIds -> rows]
    BY DEF BackfillInit
  <2> HIDE DEF rows
  <2> QED
    BY <2>2, <2>3
<1>4. Cardinality({}) = 0
  BY FS_EmptySet
<1>5. live = 1 /\ exit = -1
  BY DEF BackfillInit
<1>6. Cardinality(tally.listed) = 0 /\ Cardinality(script.todo) = 0
  BY <1>1, <1>2, <1>4
<1> QED
  BY <1>1, <1>2, <1>3, <1>5, <1>6 DEF BackfillInv

LEMMA BackfillIsReported == ASSUME BackfillInv PROVE BackfillReported
<1> SUFFICES ASSUME exit \in {0, 1}
             PROVE  /\ Cardinality(tally.listed) = tally.succeeded + tally.skipped + tally.failed
                    /\ exit = 1 <=> tally.failed > 0
                    /\ exit = 0 /\ ~dryRun => \A i \in tally.listed : jobRow[i].there => jobRow[i].hash # 0
  BY DEF BackfillReported
<1>1. script.todo = {} /\ (exit = 1 <=> tally.failed > 0)
  BY DEF BackfillInv
<1>2. tally.succeeded \in Nat /\ tally.skipped \in Nat /\ tally.failed \in Nat
  BY DEF BackfillInv, Tally
<1>3. Cardinality(script.todo) = 0
  BY <1>1, FS_EmptySet
<1>4. Cardinality(tally.listed) = tally.succeeded + tally.skipped + tally.failed
  BY <1>2, <1>3 DEF BackfillInv
<1>5. exit = 0 => tally.failed = 0
  BY <1>1, <1>2
<1>6. exit = 0 /\ ~dryRun => \A i \in tally.listed : jobRow[i].there => jobRow[i].hash # 0
  BY <1>1, <1>5 DEF BackfillInv
<1> QED
  BY <1>1, <1>4, <1>6

-----------------------------------------------------------------------------
ReleaseInv == BootInv /\ GatesInv /\ BackfillInv /\ KeyInv

\* A release goes wrong in no order of boots, crashes, probes and restarts, for
\* any number of services sharing a database, migrations, environments and
\* records: each migration takes effect once and before anything serves, nothing
\* serves on an unconfirmed configuration, and no gate or script reports what
\* did not happen (migrations.ts, network-config.ts, signing-keys.ts, scripts/).
THEOREM ReleaseStaysSafe == MCSpec => []ReleaseSafely
<1>1. MCInit => ReleaseInv
  BY InitBoot, InitGates, InitBackfill, InitKeys DEF MCInit, ReleaseInv
<1>2. ReleaseInv /\ [MCNext]_allVars => ReleaseInv'
  <2> SUFFICES ASSUME ReleaseInv, [MCNext]_allVars PROVE ReleaseInv'
    OBVIOUS
  <2>1. BootNext \/ Unconnected("wallet") \/ Start("wallet") \/ UNCHANGED bootVars
    BY DEF MCNext, SharedNext, allVars, sharedState
  <2>2. [BackfillNext]_backfillVars /\ [KeyNext]_keyVars
    BY DEF MCNext, SharedNext, allVars, sharedState, scriptState
  <2> QED
    BY <2>1, <2>2, NextBoot, NextGates, NextBackfill, KeysMove DEF ReleaseInv
<1>3. ReleaseInv => ReleaseSafely
  BY BootIsSafe, GatesHoldThen, BackfillIsReported, KeysArePlaced DEF ReleaseInv, ReleaseSafely
<1> QED
  BY <1>1, <1>2, <1>3, PTL DEF MCSpec, allVars
=============================================================================
