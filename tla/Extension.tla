----------------------------- MODULE Extension -----------------------------
(***************************************************************************)
(* The browser extension: a page's provider (page-provider.ts, sep43.ts),  *)
(* the bridge, the background worker with its queue of approvals           *)
(* (PairedTabManager), the stored state (state.ts), and the device key.    *)
(*                                                                         *)
(* Every read or write of the stored state is an await, so the worker's    *)
(* handlers interleave between one and the next.  The popup and the worker *)
(* share the storage; the worker's memory is lost when the browser stops   *)
(* it.  linked says whether the identifiers `pending' and `tabId' of       *)
(* handleProviderRequest resolve: in the source as it stands they do not,  *)
(* and a request that needs approval ends in a ReferenceError.             *)
(***************************************************************************)
EXTENDS Naturals, FiniteSets

CONSTANTS
  Ids,         \* envelope ids 1, 2, ..., one per call of a page
  Requests,    \* what pages ask: [origin, tab, method, wallet, tx]
  Established, \* stored states of earlier sessions: [wallet, grants]
  PairConfig,  \* [allowAny, configured, serve]: how the build names the web app
  DevOrigins,  \* DEV_PAIR_ORIGINS
  MainnetRpc,  \* whether WXT_PUBLIC_MAINNET_RPC_URL is set
  MaxOrigins,  \* MAX_PAIRED_ORIGINS
  MaxFaults    \* bound on failed storage calls and restarts of the worker

OriginsOf(grants) == {g.origin : g \in grants}

\* What a page may hand over to be signed, by what the worker can make of it.
Transactions == {"transfer", "call", "nothing_of_ours", "feebump", "garbage"}

\* An earlier session stored what this one would have: its grants stay within
\* the limit.
ASSUME ExtensionAssumption ==
  /\ MaxOrigins \in Nat \ {0} /\ MaxFaults \in Nat
  /\ \A r \in Requests : r.method = "sign_transaction" => r.tx \in Transactions
  /\ \A s \in Established :
       /\ s = [wallet |-> s.wallet, grants |-> s.grants]
       /\ IsFiniteSet(OriginsOf(s.grants)) /\ Cardinality(OriginsOf(s.grants)) <= MaxOrigins

VARIABLES
  linked,
  kv,          \* [wallet, grants]: what storage.local holds
  popup,       \* the popup's Revoke under way: what it read, and the grant
  key,         \* the device key in indexedDB: NoKey or who generated it
  req,         \* req[i]: what call i asked
  page,        \* page[i]: what call i's caller has got
  reply,       \* reply[i]: what the worker's promise of i is settled with
  proc,        \* proc[i]: where the worker's handler of i is, and what it holds
  pending, inFlight, window,   \* PairedTabManager
  signed, declined,            \* what was signed, what was refused: for the properties
  faults

extVars == <<linked, kv, popup, key, req, page, reply, proc, pending, inFlight, window, signed, declined, faults>>
manager == <<pending, inFlight, window>>
stored  == <<kv, popup, key>>
outcome == <<signed, declined>>

NoWallet == [address |-> "none", network |-> "none"]
NoKey    == 0
Empty    == [wallet |-> NoWallet, grants |-> {}]
At(l)    == [at |-> l, wallet |-> NoWallet, snap |-> Empty]
Signs    == {"sign_transaction", "sign_auth_entry", "sign_message"}

ExtInit ==
  /\ linked \in BOOLEAN
  /\ kv \in {Empty} \cup Established /\ key = IF kv = Empty THEN NoKey ELSE 1
  /\ popup = {}
  /\ req = [i \in Ids |-> CHOOSE r \in Requests : TRUE]
  /\ page = [i \in Ids |-> "idle"] /\ reply = [i \in Ids |-> "none"] /\ proc = [i \in Ids |-> At("idle")]
  /\ pending = {} /\ inFlight = {} /\ window = FALSE
  /\ signed = {} /\ declined = {} /\ faults = 0

(***************************************************************************)
(* The page.                                                               *)
(***************************************************************************)

\* createPageProvider.call, and the bridge that hands the envelope on.
Call(i, r) ==
  /\ page[i] = "idle"
  /\ \A j \in Ids : j < i => page[j] # "idle"   \* ids are interchangeable
  /\ req' = [req EXCEPT ![i] = r]
  /\ page' = [page EXCEPT ![i] = "waiting"]
  /\ proc' = [proc EXCEPT ![i] = At("route")]
  /\ UNCHANGED <<linked, stored, reply, manager, outcome, faults>>

\* Mutant: the answer is taken although the timer has settled the call.
DeliverLate(i) ==
  /\ reply[i] # "none" /\ page[i] # "idle"
  /\ page' = [page EXCEPT ![i] = reply[i]]
  /\ UNCHANGED <<linked, stored, req, reply, proc, manager, outcome, faults>>

\* transport.listen: an answer for an id that is no longer pending is dropped.
Deliver(i) ==
  /\ reply[i] # "none" /\ page[i] = "waiting"
  /\ page' = [page EXCEPT ![i] = reply[i]]
  /\ UNCHANGED <<linked, stored, req, reply, proc, manager, outcome, faults>>

\* The page's own timer; the worker is not told.
PageTimeout(i) ==
  /\ page[i] = "waiting"
  /\ page' = [page EXCEPT ![i] = "timeout"]
  /\ UNCHANGED <<linked, stored, req, reply, proc, manager, outcome, faults>>

(***************************************************************************)
(* The worker's first answer.                                              *)
(***************************************************************************)

\* loadState answers the empty state when the storage call fails.
Load(snap) ==
  \/ snap = kv /\ UNCHANGED faults
  \/ snap = Empty /\ faults < MaxFaults /\ faults' = faults + 1

Reply(S, r) == reply' = [i \in Ids |-> IF i \in S /\ reply[i] = "none" THEN r ELSE reply[i]]

HasCapability(s, o) == \E g \in s.grants : g.origin = o /\ g.network = s.wallet.network

\* pairOriginPolicy, isPairOriginAllowed: a build without origins lets none pair.
PairOriginAllowed(o) ==
  \/ PairConfig.allowAny
  \/ o \in PairConfig.configured
  \/ PairConfig.configured = {} /\ PairConfig.serve /\ o \in DevOrigins

\* The decisions that need no user: what routeProviderRequest answers itself.
RouteDecision(r, s) ==
  IF r.origin = "unsupported" THEN "error"
  ELSE IF r.method = "pair" THEN IF PairOriginAllowed(r.origin) THEN "ask" ELSE "error"
  ELSE IF r.method = "pair_status" THEN "ok"
  ELSE IF s.wallet = NoWallet \/ (r.method \notin {"disconnect", "get_network"} /\ r.wallet.network # s.wallet.network)
    THEN "error"
  ELSE IF r.method = "connect" THEN IF HasCapability(s, r.origin) THEN "ok" ELSE "ask"
  ELSE IF r.method \in Signs THEN IF HasCapability(s, r.origin) THEN "ask" ELSE "error"
  ELSE IF r.method = "get_address" /\ ~HasCapability(s, r.origin) THEN "error"
  ELSE IF r.method = "disconnect" THEN "revoke" ELSE "ok"

Superseded(i) == {j \in pending : req[j].origin = req[i].origin /\ req[j].method = req[i].method}

\* handleProviderRequest, from the read of the state on.
Route(i) ==
  \E s \in {kv, Empty} :
    /\ proc[i].at = "route" /\ Load(s)
    /\ LET d == RouteDecision(req[i], s) IN
       \/ /\ d \in {"ok", "error"} /\ Reply({i}, d)
          /\ proc' = [proc EXCEPT ![i] = At("done")] /\ UNCHANGED <<manager, outcome>>
       \/ /\ d = "revoke" /\ proc' = [proc EXCEPT ![i] = [At("revoke") EXCEPT !.wallet = s.wallet]]
          /\ UNCHANGED <<reply, manager, outcome>>
       \/ /\ d = "ask" /\ ~linked /\ Reply({i}, "error")
          /\ proc' = [proc EXCEPT ![i] = At("done")] /\ UNCHANGED <<manager, outcome>>
       \/ /\ d = "ask" /\ linked
          /\ Reply(Superseded(i), "rejected") /\ declined' = declined \cup Superseded(i)
          /\ proc' = [j \in Ids |-> IF j = i THEN At("asked") ELSE IF j \in Superseded(i) THEN At("done") ELSE proc[j]]
          /\ pending' = (pending \ Superseded(i)) \cup {i} /\ window' = TRUE
          /\ UNCHANGED <<inFlight, signed>>
    /\ UNCHANGED <<linked, stored, req, page>>

(***************************************************************************)
(* The user's answers, given in the popup.                                 *)
(***************************************************************************)

\* Mutant: the entry stays in the queue while its answer is worked out.
StartResolvingKept(i) ==
  /\ i \in pending /\ pending' = pending /\ inFlight' = inFlight \cup {i}

\* startResolving
StartResolving(i) ==
  /\ i \in pending /\ pending' = pending \ {i} /\ inFlight' = inFlight \cup {i}

\* finishResolving: closes the window when nothing else waits.
FinishResolving(i) ==
  /\ inFlight' = inFlight \ {i} /\ window' = (window /\ pending # {}) /\ UNCHANGED pending

\* handleResolvePending, up to its first await.
Approve(i) ==
  /\ StartResolving(i)
  /\ proc' = [proc EXCEPT ![i] = At(IF req[i].method \in Signs THEN "sign" ELSE req[i].method)]
  /\ UNCHANGED <<linked, stored, req, page, reply, window, outcome, faults>>

Reject(i) ==
  /\ i \in pending /\ pending' = pending \ {i} /\ window' = (window /\ pending' # {})
  /\ Reply({i}, "rejected") /\ declined' = declined \cup {i}
  /\ proc' = [proc EXCEPT ![i] = At("done")]
  /\ UNCHANGED <<linked, stored, req, page, inFlight, signed, faults>>

\* handleTabRemoved
TabRemoved(t) ==
  LET gone == {i \in pending : req[i].tab = t} IN
  /\ gone # {}
  /\ pending' = pending \ gone /\ window' = (window /\ pending' # {})
  /\ Reply(gone, "rejected") /\ declined' = declined \cup gone
  /\ proc' = [i \in Ids |-> IF i \in gone THEN At("done") ELSE proc[i]]
  /\ UNCHANGED <<linked, stored, req, page, inFlight, signed, faults>>

\* handleWindowRemoved, and the popup closing itself.  The queue stays.
WindowRemoved ==
  /\ window /\ window' = FALSE
  /\ UNCHANGED <<linked, stored, req, page, reply, proc, pending, inFlight, outcome, faults>>

(***************************************************************************)
(* The read-modify-writes of the stored state: load, then save.            *)
(***************************************************************************)

SnapTo(i, from, to) ==
  \E s \in {kv, Empty} :
    /\ proc[i].at = from /\ Load(s)
    /\ proc' = [proc EXCEPT ![i] = [at |-> to, wallet |-> @.wallet, snap |-> s]]
    /\ UNCHANGED <<linked, stored, req, page, reply, manager, outcome>>

\* The reads of setPairedWallet, addGrant, revokeGrant.
Snap(i) == SnapTo(i, "pair", "pairing") \/ SnapTo(i, "grant", "granting") \/ SnapTo(i, "revoke", "revoking")

Saved(s) == kv' = s /\ UNCHANGED faults
SaveFails == faults < MaxFaults /\ faults' = faults + 1 /\ UNCHANGED kv

\* setPairedWallet: another address's grants are dropped.
Paired(w, s) == [wallet |-> w, grants |-> IF s.wallet.address = w.address THEN s.grants ELSE {}]

\* handlePairApproval, up to the device key.
PairSave(i) ==
  /\ proc[i].at = "pairing"
  /\ \/ /\ Saved(Paired(req[i].wallet, proc[i].snap))
        /\ proc' = [proc EXCEPT ![i].at = "key"] /\ UNCHANGED <<reply, manager>>
     \/ /\ SaveFails /\ Reply({i}, "error") /\ FinishResolving(i)
        /\ proc' = [proc EXCEPT ![i] = At("done")]
  /\ UNCHANGED <<linked, popup, key, req, page, outcome>>

\* ensureDeviceKey: the stored pair, or a new one that is stored.
EnsureDeviceKey(i) ==
  /\ proc[i].at = "key"
  /\ \/ key # NoKey /\ proc' = [proc EXCEPT ![i] = At("done")] /\ Reply({i}, "ok") /\ FinishResolving(i)
     \/ key = NoKey /\ proc' = [proc EXCEPT ![i].at = "keygen"] /\ UNCHANGED <<reply, manager>>
  /\ UNCHANGED <<linked, stored, req, page, outcome, faults>>

StoreDeviceKey(i) ==
  /\ proc[i].at = "keygen"
  /\ key' = i /\ proc' = [proc EXCEPT ![i] = At("done")] /\ Reply({i}, "ok") /\ FinishResolving(i)
  /\ UNCHANGED <<linked, kv, popup, req, page, outcome, faults>>

\* The wallet that the approved connect is granted for is read first.
ConnectWallet(i) ==
  \E s \in {kv, Empty} :
    /\ proc[i].at = "connect" /\ Load(s)
    /\ \/ /\ s.wallet = NoWallet /\ Reply({i}, "error") /\ FinishResolving(i)
          /\ proc' = [proc EXCEPT ![i] = At("done")]
       \/ /\ s.wallet # NoWallet /\ proc' = [proc EXCEPT ![i] = [At("grant") EXCEPT !.wallet = s.wallet]]
          /\ UNCHANGED <<reply, manager>>
    /\ UNCHANGED <<linked, stored, req, page, outcome>>

\* Mutant: the limit is compared after the fact.
OverLimitLate(s, o) == o \notin OriginsOf(s.grants) /\ Cardinality(OriginsOf(s.grants)) > MaxOrigins

OverLimit(s, o) == o \notin OriginsOf(s.grants) /\ Cardinality(OriginsOf(s.grants)) >= MaxOrigins

\* addGrant's check and write.  A connect is answered without
\* finishResolving, so it stays in flight; a failed write answers nobody.
AddGrant(i) ==
  LET s == proc[i].snap  w == proc[i].wallet  o == req[i].origin
      g == [origin |-> o, network |-> w.network, account |-> w.address]
  IN
  /\ proc[i].at = "granting"
  /\ \/ /\ OverLimit(s, o) /\ Reply({i}, "error") /\ UNCHANGED <<kv, faults>>
     \/ /\ ~OverLimit(s, o) /\ Reply({i}, "ok")
        /\ Saved([s EXCEPT !.grants = {h \in @ : h.origin # o \/ h.network # w.network} \cup {g}])
     \/ ~OverLimit(s, o) /\ SaveFails /\ UNCHANGED reply
  /\ proc' = [proc EXCEPT ![i] = At("done")]
  /\ UNCHANGED <<linked, popup, key, req, page, manager, outcome>>

\* revokeGrant's write: only if something is removed.
Without(s, o, n) == [s EXCEPT !.grants = {h \in @ : h.origin # o \/ h.network # n}]
RevokeSave(s, o, n) == IF Without(s, o, n) = s THEN UNCHANGED <<kv, faults>> ELSE Saved(Without(s, o, n))

\* For a page's disconnect.
Revoke(i) ==
  /\ proc[i].at = "revoking"
  /\ \/ RevokeSave(proc[i].snap, req[i].origin, proc[i].wallet.network) /\ Reply({i}, "ok")
     \/ SaveFails /\ Reply({i}, "error")
  /\ proc' = [proc EXCEPT ![i] = At("done")]
  /\ UNCHANGED <<linked, popup, key, req, page, manager, outcome>>

\* For the popup's Revoke button, which reads and writes the same storage.
PopupRevoke(g) ==
  /\ popup = {} /\ g \in kv.grants /\ popup' = {[snap |-> kv, grant |-> g]}
  /\ UNCHANGED <<linked, kv, key, req, page, reply, proc, manager, outcome, faults>>

PopupSave(r) ==
  /\ RevokeSave(r.snap, r.grant.origin, r.grant.network) /\ popup' = {}
  /\ UNCHANGED <<linked, key, req, page, reply, proc, manager, outcome>>

(***************************************************************************)
(* Signing.                                                                *)
(***************************************************************************)

\* fromXDR: what neither the summary nor the signer can read.
Decodes(tx) == tx # "garbage"
\* summarizeTransaction: the operations the approval screen lists.
Listed(tx) == IF tx \in {"transfer", "call", "nothing_of_ours"} THEN {tx} ELSE {}

\* signTransactionXdr: a plain transaction with an entry of the paired wallet.
SignsTx(tx) == Decodes(tx) /\ tx # "feebump" /\ tx # "nothing_of_ours"

\* resolveTrustedRpcUrl: who says at which ledger a signature expires.
Anchored(w) == w.network = "mainnet" => MainnetRpc

\* signAuthEntryXdr, signMessageBytes: what each signature needs besides the key.
Signable(r, w, connected) ==
  /\ r.method # "sign_message" => connected /\ Anchored(w)
  /\ r.method = "sign_transaction" => SignsTx(r.tx)

\* The three signing branches of handleResolvePending: the wallet is read
\* when the user has answered, not when the request was routed.
Sign(i) ==
  \E s \in {kv, Empty}, connected \in BOOLEAN :
    /\ proc[i].at = "sign" /\ Load(s)
    /\ LET able == s.wallet # NoWallet /\ key # NoKey /\ Signable(req[i], s.wallet, connected)
       IN /\ Reply({i}, IF able THEN "ok" ELSE "error")
          /\ signed' = IF able THEN signed \cup {i} ELSE signed
    /\ FinishResolving(i)
    /\ proc' = [proc EXCEPT ![i] = At("done")]
    /\ UNCHANGED <<linked, stored, req, page, declined>>

\* The browser stops the worker: its memory goes, and the bridge answers the
\* calls it held.
Restart ==
  /\ faults < MaxFaults /\ faults' = faults + 1
  /\ pending' = {} /\ inFlight' = {} /\ window' = FALSE
  /\ Reply({i \in Ids : page[i] # "idle"}, "error")
  /\ proc' = [i \in Ids |-> IF page[i] = "idle" THEN proc[i] ELSE At("done")]
  /\ UNCHANGED <<linked, stored, req, page, outcome>>

ExtNext ==
  \/ \E i \in Ids, r \in Requests : Call(i, r)
  \/ \E i \in Ids : Deliver(i) \/ PageTimeout(i) \/ Route(i) \/ Approve(i) \/ Reject(i)
  \/ \E i \in Ids : Snap(i) \/ PairSave(i) \/ EnsureDeviceKey(i) \/ StoreDeviceKey(i) \/ ConnectWallet(i)
  \/ \E i \in Ids : AddGrant(i) \/ Revoke(i) \/ Sign(i)
  \/ \E t \in {r.tab : r \in Requests} : TabRemoved(t)
  \/ \E g \in kv.grants : PopupRevoke(g)
  \/ \E r \in popup : PopupSave(r)
  \/ WindowRemoved \/ Restart

(***************************************************************************)
(* Properties.                                                             *)
(***************************************************************************)

\* A request that was refused - declined by the user, superseded by a newer
\* one, or dropped with its tab - is never signed, and a transaction that is
\* signed is one whose operations the approval screen could list.
DeclinedNeverSigned ==
  /\ signed \cap declined = {}
  /\ \A i \in signed : req[i].method = "sign_transaction" => Listed(req[i].tx) # {}

\* The number of origins with a grant stays within MAX_PAIRED_ORIGINS, however
\* the read-modify-writes of concurrent approvals interleave.
OriginsBounded == Cardinality(OriginsOf(kv.grants)) <= MaxOrigins

\* Once a page's call is settled it stays as it is: a late answer of the worker
\* never replaces the page's timeout, nor the other way round.
SettledOnce == [][\A i \in Ids : page[i] \notin {"idle", "waiting"} => page'[i] = page[i]]_page

\* What the user may rely on over the whole life of a request: no refused
\* request is signed, and the paired origins stay bounded (router.ts,
\* background.ts, pair-origins.ts).
ExtensionSound == DeclinedNeverSigned /\ OriginsBounded
=============================================================================
